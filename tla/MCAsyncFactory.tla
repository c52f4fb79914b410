--------------------------- MODULE MCAsyncFactory ---------------------------
(***************************************************************************)
(* Three threads; two of them choose the same name.                        *)
(***************************************************************************)
EXTENDS AsyncFactory

CONSTANTS t1, t2, t3

Names == [t \in Threads |-> IF t = t3 THEN "b" ELSE "a"]
=============================================================================
