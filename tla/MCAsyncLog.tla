----------------------------- MODULE MCAsyncLog -----------------------------
(***************************************************************************)
(* A small asynchronous logger for TLC.                                    *)
(***************************************************************************)
EXTENDS AsyncLog

CONSTANTS p1, p2, w1, w2

TwoCalls == (p1 :> <<"log", "flush">>) @@ (p2 :> <<"log", "log">>)
=============================================================================
