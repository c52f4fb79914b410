------------------------------ MODULE Monitor ------------------------------
(***************************************************************************)
(* What abel::mutex promises its clients: a reader-writer lock with        *)
(* conditional critical sections.  A thread works on its program of calls; *)
(* it is inside while it holds the lock, in mode "X" (alone) or "S"        *)
(* (with other readers).  A call that waits for a condition returns        *)
(* inside, and says whether the condition is true now; without a timeout   *)
(* it returns only when it is.                                             *)
(***************************************************************************)
EXTENDS Naturals, Sequences

CONSTANTS
  Threads,  \* the clients
  Conds,    \* the conditions on the protected data
  Null      \* no condition

VARIABLES
  inside,   \* the threads that hold the lock
  mode,     \* how each thread holds or wants to hold it
  data,     \* the conditions that are true of the protected data
  done,     \* the number of calls of its program each thread has completed
  answered, \* the threads that were last told that their condition is true
  prog      \* the programs

vars == <<inside, mode, data, done, answered, prog>>

Init ==
  /\ inside = {}
  /\ mode = [t \in Threads |-> "X"]
  /\ data = {}
  /\ done = [t \in Threads |-> 0]
  /\ answered = {}
  /\ DOMAIN prog = Threads

Op(t)   == prog[t][done[t] + 1].op
Call(t) == prog[t][done[t] + 1]
Running(t) == done[t] < Len(prog[t])
Return(t) == done' = [done EXCEPT ![t] = @ + 1]

(* A call that waits for a condition, and not only for a time, returns     *)
(* when the condition is true; with a timeout it says whether it is.       *)
Satisfied(t) == Call(t).cond \in data \cup {Null}
Answer(t) ==
  answered' = IF Op(t) = "wait" THEN answered
              ELSE IF Satisfied(t) THEN answered \cup {t} ELSE answered \ {t}
Done(t) ==
  /\ (Op(t) \in {"lock", "await"} /\ ~Call(t).timed) => Satisfied(t)
  /\ Return(t) /\ Answer(t)

Compatible(t, m) == \A u \in inside : m = "S" /\ mode[u] = "S"

(* A lock call chooses its mode.                                           *)
Choose(t) ==
  /\ Running(t) /\ t \notin inside /\ Op(t) = "lock"
  /\ mode' = [mode EXCEPT ![t] = Call(t).how]
  /\ UNCHANGED <<inside, data, done, answered, prog>>

(* Get the lock, and return or look at the condition and wait on.          *)
Enter(t) ==
  /\ Running(t) /\ t \notin inside /\ Op(t) \in {"lock", "await", "wait"}
  /\ Compatible(t, mode[t])
  /\ inside' = inside \cup {t}
  /\ UNCHANGED <<done, answered>> \/ Done(t)
  /\ UNCHANGED <<mode, data, prog>>

(* try_lock gets the lock at once, or gives up.                            *)
Try(t) ==
  /\ Running(t) /\ t \notin inside /\ Op(t) = "try"
  /\ \/ /\ Compatible(t, Call(t).how)
        /\ inside' = inside \cup {t}
        /\ mode' = [mode EXCEPT ![t] = Call(t).how]
        /\ Return(t)
     \/ /\ done' = [done EXCEPT ![t] = Len(prog[t])]
        /\ UNCHANGED <<inside, mode>>
  /\ UNCHANGED <<data, answered, prog>>

(* Await on a true condition, or a wait that is not needed.                *)
Pass(t) ==
  /\ Running(t) /\ t \in inside /\ Op(t) \in {"await", "wait"}
  /\ Call(t).cond \in data
  /\ Done(t)
  /\ UNCHANGED <<inside, mode, data, prog>>

(* Only a writer changes the data.                                         *)
Write(t) ==
  /\ t \in inside /\ mode[t] = "X"
  /\ data' \in SUBSET Conds
  /\ UNCHANGED <<inside, mode, done, answered, prog>>

(* Give up the lock for good, or while waiting.                            *)
Leave(t) ==
  /\ Running(t) /\ t \in inside
  /\ Op(t) \in {"lock", "await", "wait", "unlock"}
  /\ inside' = inside \ {t}
  /\ UNCHANGED done \/ (Op(t) = "unlock" /\ Return(t))
  /\ UNCHANGED <<mode, data, answered, prog>>

(* Calls that need the lock no more, or not at all.                        *)
Finish(t) ==
  /\ Running(t)
  /\ Op(t) \in {"signal", "signal_all"} \/ (Op(t) = "unlock" /\ t \notin inside)
  /\ Return(t)
  /\ UNCHANGED <<inside, mode, data, answered, prog>>

Next == \E t \in Threads :
  Choose(t) \/ Enter(t) \/ Try(t) \/ Pass(t) \/ Write(t) \/ Leave(t) \/ Finish(t)

Spec == Init /\ [][Next]_vars
=============================================================================
