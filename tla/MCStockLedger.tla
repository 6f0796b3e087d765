---------------------------- MODULE MCStockLedger ----------------------------
(***************************************************************************)
(* Small instances of StockLedger for TLC.                                 *)
(***************************************************************************)
EXTENDS StockLedger, TLC

CONSTANTS o1, o2, t1, t2, t3, r1, r2

(* Two commands compete for the first offering, a third takes the second.    *)
MCOfferingOf == [c \in Commands |-> IF c \in {t3, r2} THEN o2 ELSE o1]

MCQuantityOf == [c \in Commands |-> IF c = t2 THEN 2 ELSE 1]

(* A vendor books two in, fewer than the two commands together ask for, or   *)
(* one out; a movement of none is refused.                                   *)
MCVendorQuantities == {2, -1, 0}
=============================================================================
