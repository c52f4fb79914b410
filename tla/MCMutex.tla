------------------------------ MODULE MCMutex ------------------------------
(***************************************************************************)
(* Client programs for the mutex.                                          *)
(***************************************************************************)
EXTENDS Mutex, TLC

CONSTANTS t1, t2, t3, t4, c1, c2

L(h)      == [op |-> "lock", how |-> h, cond |-> Null, timed |-> FALSE]
LW(h, c)  == [op |-> "lock", how |-> h, cond |-> c, timed |-> FALSE]
LT(h, c)  == [op |-> "lock", how |-> h, cond |-> c, timed |-> TRUE]
Try(h)    == [op |-> "try", how |-> h]
A(c)      == [op |-> "await", cond |-> c, timed |-> FALSE]
AT(c)     == [op |-> "await", cond |-> c, timed |-> TRUE]
W         == [op |-> "wait", cond |-> c1, timed |-> FALSE]
WT        == [op |-> "wait", cond |-> c1, timed |-> TRUE]
Sig       == [op |-> "signal"]
All       == [op |-> "signal_all"]
U(set)    == [op |-> "unlock", set |-> set]

FlatPriority == [t \in Threads |-> 0]
T1High == [t \in Threads |-> IF t = t1 THEN 1 ELSE 0]

P(a, b, c) == (t1 :> a) @@ (t2 :> b) @@ (t3 :> c)

(* Readers, writers and try_lock, without conditions.                      *)
PlainPrograms ==
  {P(<<L("X"), U({})>>, <<L("S"), U({})>>, <<Try("X"), U({}), L("S"), U({})>>),
   P(<<L("S"), U({})>>, <<L("S"), U({})>>, <<Try("S"), U({}), L("X"), U({})>>)}

(* Waiters for a condition, in both modes, with and without a timeout, and *)
(* a writer that makes it true; one that makes it false again before the   *)
(* waiter it has woken gets the lock.                                      *)
CondPrograms ==
  {P(<<LW("S", c1), U({})>>, <<>>,
     <<L("X"), U({c1}), L("X"), U({}), L("X"), U({c1})>>),
   P(<<LT("X", c1), U({c1})>>, <<LW("S", c1), U({})>>, <<L("X"), U({c1})>>),
   P(<<L("X"), AT(c1), U({c1})>>, <<L("S"), A(c1), U({})>>, <<L("X"), U({c1})>>)}

(* A skip chain of three waiters for the same: one leaves it by a timeout  *)
(* and makes the condition true, one is inserted into it by priority.      *)
ChainPrograms ==
  {P(<<LW("X", c1), U({c1})>>, <<LT("X", c1), U({c1})>>, <<LW("X", c1), U({c1})>>)}

(* The condition variable: waiters in both modes, with and without a       *)
(* timeout, and a thread that signals them under the lock or after it.     *)
CvPrograms ==
  {P(<<L("X"), W, U({c1})>>, <<L("S"), W, U({})>>, <<L("X"), All, U({c1})>>),
   P(<<L("X"), WT, U({c1})>>, <<L("X"), W, U({c1})>>, <<L("X"), U({c1}), Sig, Sig>>)}

(* A reader joins while another one searches the queue; then a waiter in   *)
(* the middle times out.                                                   *)
LatePrograms ==
  {(t1 :> <<LW("X", c1), U({c1})>>) @@ (t2 :> <<L("S"), U({}), LW("X", c1), U({c1})>>)
    @@ (t3 :> <<L("S"), U({}), L("X"), U({c1})>>) @@ (t4 :> <<LT("X", c2), U({c1})>>)}

(* Timeouts race wakeups, on the mutex and on the condition variable.      *)
LivePrograms ==
  {P(a, <<L("X"), WT, U({c1})>>, <<L("X"), U({c1}), All>>) :
     a \in {<<LT("X", c1), U({c1})>>, <<L("S"), W, U({})>>}}

SafePrograms == PlainPrograms \cup CondPrograms \cup ChainPrograms \cup CvPrograms
=============================================================================
