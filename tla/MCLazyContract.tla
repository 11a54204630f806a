--------------------------- MODULE MCLazyContract ---------------------------
(***************************************************************************)
(* LazyContract with three clones of one wrapper and a handle of its own,  *)
(* all on a contract that is upgraded once: the upgrade drops one method   *)
(* and brings another.                                                     *)
(***************************************************************************)
EXTENDS LazyContract

CONSTANTS t1, t2, t3, at, token

MCTasks == {t1, t2, t3, at}

MCCellOf == [t \in {t1, t2, t3} |-> token]

MCMethodOf == [t \in MCTasks |-> IF t \in {t1, at} THEN "old" ELSE "new"]

MCOffers == [v \in 0 .. 1 |-> IF v = 0 THEN {"old"} ELSE {"new"}]

=============================================================================
