----------------------------- MODULE MCStorefront -----------------------------
(***************************************************************************)
(* Small instances of Storefront for TLC.                                  *)
(***************************************************************************)
EXTENDS Storefront, TLC

(* Tabs and keys are alike. *)
Names == Permutations(Keys) \cup Permutations(Tabs)
=============================================================================
