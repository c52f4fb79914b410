---------------------------- MODULE SyncClients -----------------------------
(***************************************************************************)
(* barrier, blocking_counter and notification (abel/synchronization/       *)
(* barrier.cc, blocking_counter.cc, notification.cc), the small clients of *)
(* mutex, each used the way its header says it may be: by Threads at once, *)
(* with one of them deleting the object when it is told that it may.       *)
(*                                                                         *)
(* The mutex is what Monitor promises: a lock that Await and LockWhen give *)
(* to a thread when its condition holds.                                   *)
(***************************************************************************)
EXTENDS Naturals, FiniteSets

CONSTANTS
  Threads,
  Leader,      \* the thread that waits for the counter or the notification
  None,
  Kinds,       \* the classes to use
  MaxTimeouts  \* bound: waits that time out

VARIABLES
  kind,
  lock_,           \* its holder, or None
  num_to_block_,   \* of barrier; count_ of blocking_counter
  num_to_exit_,
  notified_yet_,
  pc,
  result,          \* whether the call has told its caller that it may delete
  deleted,
  timeouts

vars == <<kind, lock_, num_to_block_, num_to_exit_, notified_yet_, pc, result, deleted, timeouts>>

Init ==
  /\ kind \in Kinds
  /\ lock_ = None
  /\ num_to_block_ = Cardinality(IF kind = "blocking_counter" THEN Threads \ {Leader} ELSE Threads)
  /\ num_to_exit_ = Cardinality(Threads)
  /\ notified_yet_ = FALSE
  /\ pc = [t \in Threads |-> "call"]
  /\ result = [t \in Threads |-> FALSE]
  /\ deleted = FALSE /\ timeouts = 0

Goto(t, label) == pc' = [pc EXCEPT ![t] = label]
Lock(t) == lock_ = None /\ lock_' = t
Return(t, r) == result' = [result EXCEPT ![t] = r]

(* The destructor of mutex_lock, at the end of every call.                 *)
Unlock(t) ==
  /\ pc[t] = "unlock"
  /\ lock_' = None
  /\ Goto(t, "returned")
  /\ UNCHANGED <<kind, num_to_block_, num_to_exit_, notified_yet_, result, deleted, timeouts>>

-----------------------------------------------------------------------------
(* barrier::block up to Await, which lets go of the lock.                  *)
block(t) ==
  /\ kind = "barrier" /\ pc[t] = "call" /\ lock_ = None
  /\ num_to_block_' = num_to_block_ - 1
  /\ Goto(t, "await")
  /\ UNCHANGED <<kind, lock_, num_to_exit_, notified_yet_, result, deleted, timeouts>>

(* Await has the lock again.                                               *)
BlockRest(t) ==
  /\ kind = "barrier" /\ pc[t] = "await" /\ num_to_block_ = 0 /\ Lock(t)
  /\ num_to_exit_' = num_to_exit_ - 1
  /\ Return(t, num_to_exit_' = 0)
  /\ Goto(t, "unlock")
  /\ UNCHANGED <<kind, num_to_block_, notified_yet_, deleted, timeouts>>

-----------------------------------------------------------------------------
decrement_count(t) ==
  /\ kind = "blocking_counter" /\ t # Leader /\ pc[t] = "call" /\ Lock(t)
  /\ num_to_block_' = num_to_block_ - 1
  /\ Goto(t, "unlock")
  /\ UNCHANGED <<kind, num_to_exit_, notified_yet_, result, deleted, timeouts>>

(* blocking_counter::wait.                                                 *)
wait(t) ==
  /\ kind = "blocking_counter" /\ t = Leader /\ pc[t] = "call" /\ lock_ = None
  /\ Goto(t, "await")
  /\ UNCHANGED <<kind, lock_, num_to_block_, num_to_exit_, notified_yet_, result, deleted, timeouts>>

WaitRest(t) ==
  /\ kind = "blocking_counter" /\ pc[t] = "await" /\ num_to_block_ = 0 /\ Lock(t)
  /\ Return(t, TRUE)
  /\ Goto(t, "unlock")
  /\ UNCHANGED <<kind, num_to_block_, num_to_exit_, notified_yet_, deleted, timeouts>>

-----------------------------------------------------------------------------
(* One of the other threads notifies.                                      *)
Notify(t) ==
  /\ kind = "notification" /\ t # Leader /\ ~notified_yet_
  /\ pc[t] = "call" /\ Lock(t)
  /\ notified_yet_' = TRUE
  /\ Goto(t, "unlock")
  /\ UNCHANGED <<kind, num_to_block_, num_to_exit_, result, deleted, timeouts>>

(* The wait functions read the flag without the mutex ...                  *)
wait_for_notification(t) ==
  /\ kind = "notification" /\ t = Leader /\ pc[t] = "call"
  /\ IF notified_yet_ THEN Return(t, TRUE) /\ Goto(t, "returned")
                      ELSE Goto(t, "await") /\ UNCHANGED result
  /\ UNCHANGED <<kind, lock_, num_to_block_, num_to_exit_, notified_yet_, deleted, timeouts>>

(* ... or wait for it with LockWhen, for a while or for ever.              *)
LockWhen(t) ==
  /\ kind = "notification" /\ pc[t] = "await" /\ Lock(t)
  /\ \/ notified_yet_ /\ UNCHANGED timeouts
     \/ timeouts < MaxTimeouts /\ timeouts' = timeouts + 1
  /\ Return(t, notified_yet_)
  /\ Goto(t, "unlock")
  /\ UNCHANGED <<kind, num_to_block_, num_to_exit_, notified_yet_, deleted>>

(* A wait that timed out is called again.                                  *)
WaitAgain(t) ==
  /\ kind = "notification" /\ t = Leader /\ pc[t] = "returned" /\ ~result[t]
  /\ Goto(t, "call")
  /\ UNCHANGED <<kind, lock_, num_to_block_, num_to_exit_, notified_yet_, result, deleted, timeouts>>

-----------------------------------------------------------------------------
(* Mutant: ~notification does not wait for Notify.                         *)
Delete_NoLock(t) ==
  /\ pc[t] = "returned" /\ result[t]
  /\ deleted' = TRUE
  /\ Goto(t, "deleted")
  /\ UNCHANGED <<kind, lock_, num_to_block_, num_to_exit_, notified_yet_, result, timeouts>>

(* The thread that may deletes the object; ~notification takes and lets go *)
(* of the mutex first.                                                     *)
Delete(t) ==
  /\ pc[t] = "returned" /\ result[t]
  /\ kind = "notification" => lock_ = None
  /\ deleted' = TRUE
  /\ Goto(t, "deleted")
  /\ UNCHANGED <<kind, lock_, num_to_block_, num_to_exit_, notified_yet_, result, timeouts>>

Done == deleted /\ (\A t \in Threads : pc[t] # "unlock") /\ UNCHANGED vars

Next ==
  \/ \E t \in Threads :
       \/ block(t) \/ BlockRest(t)
       \/ decrement_count(t) \/ wait(t) \/ WaitRest(t)
       \/ Notify(t) \/ wait_for_notification(t) \/ LockWhen(t) \/ WaitAgain(t)
       \/ Unlock(t) \/ Delete(t)
  \/ Done

Spec == Init /\ [][Next]_vars

-----------------------------------------------------------------------------
(* Who is told that it may delete the object is the last to use it: from   *)
(* then on no thread is in a call, waits in one, or has still to let go of *)
(* the lock, and no one else is told the same (barrier.cc:33,              *)
(* blocking_counter.cc:38, notification.h:27).                             *)
NoUseAfterDelete ==
  deleted => \A t \in Threads :
    /\ pc[t] \notin {"await", "unlock"}
    /\ pc[t] = "returned" => ~result[t]
    /\ kind # "notification" => pc[t] # "call"
=============================================================================
