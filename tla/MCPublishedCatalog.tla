-------------------------- MODULE MCPublishedCatalog --------------------------
(***************************************************************************)
(* Small instances of PublishedCatalog for TLC.                            *)
(***************************************************************************)
EXTENDS PublishedCatalog, TLC
=============================================================================
