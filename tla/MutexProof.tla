----------------------------- MODULE MutexProof -----------------------------
(***************************************************************************)
(* The lock word of mutex tells the truth about the holders and about the  *)
(* queue, mutex with its condition variable implements Monitor, no check   *)
(* of the waiter queue fails, waiters sleep until they are taken off, and  *)
(* no wakeup is lost: for any threads, client programs, conditions and     *)
(* priorities.  QueueProof has what the operations do to the queue.        *)
(***************************************************************************)
EXTENDS Mutex, QueueProof, FiniteSetTheorems, TLAPS

Typed ==
  /\ mu \subseteq Bits /\ readers \in Nat
  /\ prog \in Programs
  /\ ip \in [Threads -> Nat]
  /\ pc \in [Threads -> Labels]
  /\ how \in [Threads -> {"X", "S"}]
  /\ cond \in [Threads -> Conds \cup {Null}]
  /\ after \in [Threads -> {"idle", "held", "block", "cvblock"}]

(* Where a thread is in the mutex code tells which call of its program it  *)
(* is in, and what `after' may be.                                         *)
LockCalls == {"lock", "await", "wait"}

CallAtHand(t) ==
  /\ pc[t] \notin {"idle", "held"} => Running(t)
  /\ pc[t] \in {"lock", "enqueue", "block", "sem", "timedout"} => Call(t).op \in LockCalls
  /\ pc[t] \in {"cvblock", "cvsem", "cvtimedout"} => Call(t).op = "wait"
  /\ pc[t] \in {"signal", "transfer"} => Signalling(t) /\ after[t] \in {"idle", "held"}
  /\ pc[t] \in {"unlock", "walk", "release", "wake"} =>
       after[t] # "held" /\ (after[t] = "idle" => Call(t).op = "unlock")
  /\ pc[t] \in {"woken", "post"} =>
       /\ after[t] = "held" => Signalling(t)
       /\ after[t] = "idle" => Signalling(t) \/ Call(t).op = "unlock"
  /\ pc[t] \in {"unlock", "walk", "release", "wake", "woken", "post"} =>
       /\ after[t] = "block" => Call(t).op \in LockCalls
       /\ after[t] = "cvblock" => Call(t).op = "wait"

(* Only a wait with a timeout forgets its condition; none takes another.   *)
KeepsCondition(t) ==
  /\ t \in timed =>
       pc[t] \notin {"idle", "held"} /\ Call(t).op \in LockCalls /\ Call(t).timed
  /\ pc[t] = "timedout" => t \in timed
  /\ pc[t] \notin {"idle", "held"} /\ Call(t).op \in {"lock", "await"} /\ ~Call(t).timed =>
       cond[t] = Call(t).cond
  /\ pc[t] \notin {"idle", "held"} /\ Call(t).op \in {"lock", "await"} =>
       cond[t] \in {Call(t).cond, Null}

IInv ==
  /\ Typed
  /\ \A t \in Threads : CallAtHand(t) /\ KeepsCondition(t)
  /\ WordMatchesHolders

-----------------------------------------------------------------------------
USE DEF kMuWriter, kMuReader, kMuWait, kMuWrWait, kMuDesig, kMuSpin, Bits, Labels

(* The other threads stay where they are.                                  *)
Alone(t) == \A u \in Threads \ {t} :
              pc'[u] = pc[u] /\ after'[u] = after[u] /\ how'[u] = how[u]

(* Who holds the lock is a finite set.                                     *)
LEMMA HoldersFinite ==
  ASSUME NEW h PROVE IsFiniteSet(Holders(h)) /\ Cardinality(Holders(h)) \in Nat
<1>1. Holders(h) \in SUBSET Threads BY DEF Holders
<1>2. IsFiniteSet(Holders(h)) BY <1>1, QueueAssumption, FS_Subset
<1> QED BY <1>2, FS_CardinalityType

(* What the word says of the holders, without counting.                    *)
LEMMA WordSays ==
  ASSUME Typed, WordMatchesHolders
  PROVE  /\ kMuWriter \notin mu <=> Holders("X") = {}
         /\ kMuReader \notin mu <=> Holders("S") = {}
         /\ \A t, u \in Holders("X") : t = u
         /\ Holders("X") = {} \/ Holders("S") = {}
<1>1. readers \in Nat BY DEF Typed
<1>2. \A h : IsFiniteSet(Holders(h)) BY HoldersFinite
<1>3. \A h : Cardinality(Holders(h)) = 0 <=> Holders(h) = {} BY <1>2, FS_EmptySet
<1>4. kMuWriter \notin mu <=> Holders("X") = {} BY <1>3 DEF WordMatchesHolders
<1>5. kMuReader \notin mu <=> Holders("S") = {} BY <1>1, <1>3 DEF WordMatchesHolders
<1>6. \A t, u \in Holders("X") : t = u
  <2>1. CASE kMuWriter \notin mu BY <1>4, <2>1
  <2>2. CASE kMuWriter \in mu
    <3>1. Cardinality(Holders("X")) = 1 BY <2>2 DEF WordMatchesHolders
    <3>2. \E x : Holders("X") = {x} BY <1>2, <3>1, FS_Singleton
    <3> QED BY <3>2
  <2> QED BY <2>1, <2>2
<1>7. Holders("X") = {} \/ Holders("S") = {} BY <1>4, <1>5 DEF WordMatchesHolders
<1> QED BY <1>4, <1>5, <1>6, <1>7

(* t gets the lock, and the word says so: nobody else, or readers, have it.*)
LEMMA Enters ==
  ASSUME Typed, WordMatchesHolders, NEW t \in Threads, NEW h \in {"X", "S"},
         Alone(t), ~Holds(t), Holds(t)', how'[t] = h,
         kMuWriter \notin mu, h = "X" => kMuReader \notin mu,
         mu' \cap {kMuWriter, kMuReader} = (mu \cup {Held(h)}) \cap {kMuWriter, kMuReader},
         readers' = IF h = "S" THEN readers + 1 ELSE readers
  PROVE  WordMatchesHolders'
<1>1. readers \in Nat BY DEF Typed
<1>2. Holders(h)' = Holders(h) \cup {t} BY DEF Alone, Holds, Holders
<1>3. \A g : g # h => Holders(g)' = Holders(g) BY DEF Alone, Holds, Holders
<1>4. t \notin Holders(h) BY DEF Holders
<1>5. Cardinality(Holders(h)') = Cardinality(Holders(h)) + 1
      BY <1>2, <1>4, HoldersFinite, FS_AddElement
<1>6. Cardinality(Holders("X")) = 0 BY DEF WordMatchesHolders
<1>7. Cardinality(Holders("S")) = readers BY DEF WordMatchesHolders
<1>8. CASE h = "X"
  <2>1. readers = 0 BY <1>1, <1>8 DEF WordMatchesHolders
  <2>2. kMuWriter \in mu' /\ kMuReader \notin mu' BY <1>8 DEF Held
  <2>3. Cardinality(Holders("X")') = 1 BY <1>5, <1>6, <1>8
  <2>4. Cardinality(Holders("S")') = readers' BY <1>3, <1>7, <1>8
  <2> QED BY <1>8, <2>1, <2>2, <2>3, <2>4 DEF WordMatchesHolders
<1>9. CASE h = "S"
  <2>1. kMuWriter \notin mu' /\ kMuReader \in mu' BY <1>9 DEF Held
  <2>2. Cardinality(Holders("X")') = 0 BY <1>3, <1>6, <1>9
  <2>3. Cardinality(Holders("S")') = readers' /\ readers' > 0 BY <1>1, <1>5, <1>7, <1>9
  <2> QED BY <2>1, <2>2, <2>3 DEF WordMatchesHolders
<1> QED BY <1>8, <1>9

(* t gives up the lock, and the word says so.                              *)
LEMMA Leaves ==
  ASSUME Typed, WordMatchesHolders, NEW t \in Threads, NEW h \in {"X", "S"},
         Alone(t), Holds(t), ~Holds(t)', how[t] = h,
         kMuWriter \notin mu', kMuReader \in mu' <=> readers' > 0,
         readers' = IF h = "S" THEN readers - 1 ELSE readers
  PROVE  WordMatchesHolders'
<1>1. readers \in Nat BY DEF Typed
<1>2. Holders(h)' = Holders(h) \ {t} BY DEF Alone, Holds, Holders
<1>3. \A g : g # h => Holders(g)' = Holders(g) BY DEF Alone, Holds, Holders
<1>4. t \in Holders(h) BY DEF Holders
<1>5. Cardinality(Holders(h)') = Cardinality(Holders(h)) - 1
      BY <1>2, <1>4, HoldersFinite, FS_RemoveElement, ZenonT(30)
<1>6. Cardinality(Holders("S")) = readers BY DEF WordMatchesHolders
<1>7. CASE h = "X"
  <2>1. Cardinality(Holders("X")) = 1 BY <1>4, <1>7, WordSays DEF WordMatchesHolders
  <2>2. Cardinality(Holders("X")') = 0 BY <1>5, <1>7, <2>1
  <2>3. Cardinality(Holders("S")') = readers' BY <1>3, <1>6, <1>7
  <2> QED BY <2>2, <2>3 DEF WordMatchesHolders
<1>8. CASE h = "S"
  <2>1. Holders("X") = {} BY <1>4, <1>8, WordSays
  <2>2. Cardinality(Holders("X")) = 0 BY <2>1, FS_EmptySet
  <2>3. Cardinality(Holders("X")') = 0 BY <1>3, <1>8, <2>2
  <2>4. Cardinality(Holders("S")') = readers' BY <1>1, <1>5, <1>6, <1>8
  <2> QED BY <2>3, <2>4 DEF WordMatchesHolders
<1> QED BY <1>7, <1>8

(* t neither gets nor gives up the lock.                                   *)
LEMMA Stays ==
  ASSUME Typed, WordMatchesHolders, NEW t \in Threads, Alone(t),
         Holds(t)' <=> Holds(t), Holds(t) => how'[t] = how[t],
         mu' \cap {kMuWriter, kMuReader} = mu \cap {kMuWriter, kMuReader},
         readers' = readers
  PROVE  WordMatchesHolders'
<1>1. \A h : Holders(h)' = Holders(h) BY DEF Alone, Holds, Holders
<1>2. (kMuWriter \in mu' <=> kMuWriter \in mu) /\ (kMuReader \in mu' <=> kMuReader \in mu)
      OBVIOUS
<1> QED BY <1>1, <1>2 DEF WordMatchesHolders

-----------------------------------------------------------------------------
USE DEF wordVars, clientVars, callVars, Goto, Set, Return

(* The arguments of the call at hand.                                      *)
LEMMA CallTyped ==
  ASSUME Typed, NEW t \in Threads, Running(t)
  PROVE  /\ Call(t).op \in {"lock", "try"} => Call(t).how \in {"X", "S"}
         /\ Call(t).op \in LockCalls => Call(t).cond \in Conds \cup {Null}
         /\ Call(t).op = "unlock" => Call(t).set \subseteq Conds
<1>1. prog[t] \in Seq(Calls) /\ ip[t] \in Nat BY MutexAssumption DEF Typed
<1>2. ip[t] + 1 \in 1..Len(prog[t]) BY <1>1 DEF Running
<1>3. Call(t) \in Calls BY <1>1, <1>2 DEF Call
<1> QED BY <1>3 DEF Calls, LockCalls

(* A step of t is no step of another thread.                               *)
Moves(t) ==
  /\ Alone(t) /\ prog' = prog
  /\ \A u \in Threads \ {t} :
       ip'[u] = ip[u] /\ cond'[u] = cond[u] /\ (u \in timed' <=> u \in timed)

(* UnlockWake leaves nobody in the word.                                   *)
LEMMA UnlockWakeWord ==
  ASSUME NEW t, UnlockWake(t)
  PROVE  /\ mu' \subseteq {kMuDesig, kMuWait, kMuWrWait} /\ readers' = 0
         /\ InSlow(t) /\ LastHolder
         /\ Goto(t, "wake") /\ UNCHANGED <<clientVars, callVars>>
<1> DEFINE b == IF EasyWriter \/ scan[t].wrWait THEN {kMuWrWait} ELSE {}
<1>1. \E Q : mu' = {kMuDesig} \cup WaitBits(Q, b) BY Zenon DEF UnlockWake
<1>2. mu' \subseteq {kMuDesig, kMuWait, kMuWrWait} BY <1>1 DEF WaitBits
<1> QED BY <1>2 DEF UnlockWake

(* IncrementSynchSem and mutex::Fer go on with the next waiter or return.  *)
LEMMA NextTargetOrReturn ==
  ASSUME NEW t, NextTarget(t)
  PROVE  /\ UNCHANGED <<truth, prog, result>>
         /\ \/ /\ ip' = ip
               /\ pc' = [pc EXCEPT ![t] = IF Signalling(t) THEN "signal" ELSE "wake"]
            \/ /\ ip' = IF after[t] \in {"idle", "held"} THEN [ip EXCEPT ![t] = @ + 1] ELSE ip
               /\ pc' = [pc EXCEPT ![t] = after[t]]
BY Zenon DEF NextTarget, Leave

(* Signal starts to wake waiters, or returns when there are none.          *)
LEMMA SignalOrReturn ==
  ASSUME NEW t, Signal(t)
  PROVE  /\ pc[t] \in {"idle", "held"} /\ Running(t) /\ Signalling(t)
         /\ after' = [after EXCEPT ![t] = pc[t]]
         /\ UNCHANGED <<mu, readers, truth, prog, result, how, cond, timed, blocked>>
         /\ \/ pc' = [pc EXCEPT ![t] = "signal"] /\ ip' = ip
            \/ pc' = pc /\ ip' = [ip EXCEPT ![t] = @ + 1]
BY Zenon DEF Signal

(* A try_lock gets the lock or fails, and then the program ends.           *)
TryLockGets(t) ==
  /\ ~Has(SlowNeedZero(Call(t).how))
  /\ mu' = mu \cup {Held(Call(t).how)}
  /\ readers' = IF Call(t).how = "S" THEN readers + 1 ELSE readers
  /\ how' = [how EXCEPT ![t] = Call(t).how]
  /\ ip' = [ip EXCEPT ![t] = @ + 1]
  /\ pc' = [pc EXCEPT ![t] = "held"]
TryLockFails(t) ==
  ip' = [ip EXCEPT ![t] = Len(prog[t])] /\ UNCHANGED <<mu, readers, how, pc>>

(* mutex::try_lock either exchanges the word for one that holds the lock   *)
(* or leaves everything as it is.                                          *)
LEMMA TryLockGetsOrFails ==
  ASSUME NEW t, TryLock(t)
  PROVE  /\ pc[t] = "idle" /\ Running(t) /\ Call(t).op = "try"
         /\ UNCHANGED <<truth, prog, result, cond, timed, after>>
         /\ TryLockGets(t) \/ TryLockFails(t)
BY Zenon DEF TryLock, AtCall, TryLockGets, TryLockFails

(* Types are kept by every step of a thread.                               *)
LEMMA StepTyped ==
  ASSUME Typed, WordMatchesHolders, NEW t \in Threads, Step(t)
  PROVE  Typed' /\ Moves(t)
<1> USE DEF Typed, Moves, Alone
<1>0. kMuReader \in mu => readers - 1 \in Nat BY DEF WordMatchesHolders
<1>1. CASE Lock(t)
      BY <1>1, CallTyped DEF Lock, AtCall, LockCalls
<1>2. CASE TryLock(t)
  <2>1. CASE TryLockGets(t)
    <3>1. Call(t).how \in {"X", "S"} BY <1>2, CallTyped, TryLockGetsOrFails
    <3>2. mu' \subseteq Bits /\ readers' \in Nat BY <2>1 DEF TryLockGets, Held
    <3>3. how' \in [Threads -> {"X", "S"}] BY <2>1, <3>1 DEF TryLockGets
    <3>4. ip' \in [Threads -> Nat] /\ pc' \in [Threads -> Labels]
          BY <2>1 DEF TryLockGets
    <3>5. Moves(t) BY <1>2, <2>1, TryLockGetsOrFails, ZenonT(30) DEF TryLockGets
    <3> QED BY <1>2, <3>2, <3>3, <3>4, <3>5, TryLockGetsOrFails
  <2>2. CASE TryLockFails(t)
    <3>1. Len(prog[t]) \in Nat BY MutexAssumption
    <3> QED BY <1>2, <2>2, <3>1, TryLockGetsOrFails DEF TryLockFails
  <2> QED BY <1>2, <2>1, <2>2, TryLockGetsOrFails
<1>3. CASE LockAcquire(t)
      BY <1>3 DEF LockAcquire, GotLock, ZapDesigWaker, Held
<1>4. CASE LockJoin(t)
      BY <1>4 DEF LockJoin, GotLock, ZapDesigWaker
<1>5. CASE LockOnlyWaiter(t)
      BY <1>5 DEF LockOnlyWaiter, ZapDesigWaker, WrWait
<1>6. CASE LockSpin(t)
      BY <1>6 DEF LockSpin, ZapDesigWaker
<1>7. CASE LockEnqueue(t)
      BY <1>7 DEF LockEnqueue
<1>8. CASE BlockCheck(t)
      BY <1>8 DEF BlockCheck
<1>9. CASE SemWait(t)
      BY <1>9 DEF SemWait
<1>10. CASE SemTimeout(t)
      BY <1>10 DEF SemTimeout
<1>11. CASE TryRemove(t)
      BY <1>11 DEF TryRemove, WaitBits
<1>12. CASE TimeoutSatisfied(t)
      BY <1>12 DEF TimeoutSatisfied
<1>13. CASE Await(t)
      BY <1>13, CallTyped DEF Await, AtCall, LockCalls
<1>14. CASE Unlock(t)
      BY <1>14 DEF Unlock, AtCall
<1>15. CASE UnlockFastWriter(t)
      BY <1>15 DEF UnlockFastWriter, Leave
<1>16. CASE UnlockFastReader(t)
      BY <1>16, <1>0 DEF UnlockFastReader, Leave, Has, HolderBits, OneLess
<1>17. CASE UnlockNoWaiters(t)
      BY <1>17, <1>0 DEF UnlockNoWaiters, Leave, Has, HolderBits, OneLess
<1>18. CASE UnlockNotLast(t)
      BY <1>18 DEF UnlockNotLast, Leave
<1>19. CASE UnlockWake(t)
      BY <1>19, UnlockWakeWord
<1>20. CASE UnlockNobody(t)
      BY <1>20, SMTT(30) DEF UnlockNobody, Leave
<1>21. CASE UnlockStartWalk(t)
      BY <1>21, ZenonT(30) DEF UnlockStartWalk
<1>22. CASE UnlockWalk(t)
      BY <1>22 DEF UnlockWalk
<1>23. CASE Wakeup(t)
      BY <1>23 DEF Wakeup, WakeUnlink
<1>24. CASE WakeState(t)
      BY <1>24 DEF WakeState
<1>25. CASE IncrementSynchSem(t)
      BY <1>25, NextTargetOrReturn DEF IncrementSynchSem
<1>26. CASE Wait(t)
      BY <1>26 DEF Wait, AtCall
<1>27. CASE WaitNotNeeded(t)
      BY <1>27 DEF WaitNotNeeded, AtCall
<1>28. CASE UnlockCvEnqueue(t)
      BY <1>28 DEF UnlockCvEnqueue
<1>29. CASE CvBlockCheck(t)
      BY <1>29 DEF CvBlockCheck
<1>30. CASE CvRemove(t)
      BY <1>30 DEF CvRemove
<1>31. CASE Signal(t)
  <2>1. after' \in [Threads -> {"idle", "held", "block", "cvblock"}]
        BY <1>31, SignalOrReturn
  <2>2. pc' \in [Threads -> Labels] /\ ip' \in [Threads -> Nat]
        BY <1>31, SignalOrReturn
  <2>3. Moves(t) BY <1>31, SignalOrReturn
  <2> QED BY <1>31, <2>1, <2>2, <2>3, SignalOrReturn, ZenonT(30)
<1>32. CASE CvWakeup(t)
      BY <1>32 DEF CvWakeup, WakeUnlink
<1>33. CASE FerOnlyWaiter(t)
      BY <1>33, NextTargetOrReturn DEF FerOnlyWaiter
<1>34. CASE FerSpin(t)
      BY <1>34 DEF FerSpin
<1>35. CASE FerEnqueue(t)
      BY <1>35, NextTargetOrReturn DEF FerEnqueue
<1> QED
    BY <1>1, <1>2, <1>3, <1>4, <1>5, <1>6, <1>7, <1>8, <1>9, <1>10,
       <1>11, <1>12, <1>13, <1>14, <1>15, <1>16, <1>17, <1>18, <1>19,
       <1>20, <1>21, <1>22, <1>23, <1>24, <1>25, <1>26, <1>27, <1>28,
       <1>29, <1>30, <1>31, <1>32, <1>33, <1>34, <1>35
       DEF Step

(* The same call is at hand after a step that does not end one.            *)
LEMMA SameCall ==
  ASSUME NEW t, ip'[t] = ip[t], prog' = prog
  PROVE  Call(t)' = Call(t) /\ (Running(t)' <=> Running(t))
BY DEF Call, Running

(* A thread that does not move is in the call it was in.                   *)
LEMMA OthersKeepCall ==
  ASSUME NEW t \in Threads, Moves(t), NEW u \in Threads \ {t},
         CallAtHand(u), KeepsCondition(u)
  PROVE  CallAtHand(u)' /\ KeepsCondition(u)'
<1>1. /\ pc'[u] = pc[u] /\ after'[u] = after[u] /\ cond'[u] = cond[u]
      /\ (u \in timed' <=> u \in timed)
      /\ Call(u)' = Call(u) /\ (Running(u)' <=> Running(u))
      BY SameCall, SMTT(30) DEF Moves, Alone
<1> QED BY <1>1, SMTT(30) DEF CallAtHand, KeepsCondition, Signalling

(* Every step leaves a thread where its call has led it.                   *)
LEMMA StepAtCall ==
  ASSUME Typed, NEW t \in Threads, Step(t), CallAtHand(t), KeepsCondition(t)
  PROVE  CallAtHand(t)' /\ KeepsCondition(t)'
<1> USE SameCall DEF Typed, CallAtHand, KeepsCondition, Signalling, LockCalls
<1>0. ASSUME pc'[t] \in {"idle", "held"}, t \notin timed'
      PROVE  CallAtHand(t)' /\ KeepsCondition(t)'
      BY <1>0
<1>1. CASE Lock(t)
      BY <1>1, <1>0 DEF Lock, AtCall
<1>2. CASE TryLock(t)
      BY <1>2, <1>0, TryLockGetsOrFails DEF TryLockGets, TryLockFails
<1>3. CASE LockAcquire(t)
      BY <1>3, <1>0 DEF LockAcquire, GotLock
<1>4. CASE LockJoin(t)
      BY <1>4, <1>0 DEF LockJoin, GotLock
<1>5. CASE LockOnlyWaiter(t)
      BY <1>5, <1>0 DEF LockOnlyWaiter
<1>6. CASE LockSpin(t)
      BY <1>6, <1>0 DEF LockSpin
<1>7. CASE LockEnqueue(t)
      BY <1>7, <1>0 DEF LockEnqueue
<1>8. CASE BlockCheck(t)
      BY <1>8, <1>0 DEF BlockCheck
<1>9. CASE SemWait(t)
      BY <1>9, <1>0 DEF SemWait
<1>10. CASE SemTimeout(t)
      BY <1>10, <1>0 DEF SemTimeout
<1>11. CASE TryRemove(t)
      BY <1>11, <1>0 DEF TryRemove
<1>12. CASE TimeoutSatisfied(t)
      BY <1>12, <1>0 DEF TimeoutSatisfied
<1>13. CASE Await(t)
      BY <1>13, <1>0 DEF Await, AtCall
<1>14. CASE Unlock(t)
      BY <1>14, <1>0 DEF Unlock, AtCall
<1>15. CASE UnlockFastWriter(t)
      BY <1>15, <1>0 DEF UnlockFastWriter, Leave
<1>16. CASE UnlockFastReader(t)
      BY <1>16, <1>0 DEF UnlockFastReader, Leave
<1>17. CASE UnlockNoWaiters(t)
      BY <1>17, <1>0 DEF UnlockNoWaiters, Leave, InSlow, SpinFree
<1>18. CASE UnlockNotLast(t)
      BY <1>18, <1>0 DEF UnlockNotLast, Leave, InSlow, SpinFree
<1>19. CASE UnlockWake(t)
      BY <1>19, <1>0, UnlockWakeWord DEF InSlow, SpinFree
<1>20. CASE UnlockNobody(t)
      BY <1>20, <1>0, SMTT(30) DEF UnlockNobody, Leave, InSlow, SpinFree
<1>21. CASE UnlockStartWalk(t)
      BY <1>21, <1>0, ZenonT(30) DEF UnlockStartWalk, SpinFree
<1>22. CASE UnlockWalk(t)
      BY <1>22, <1>0 DEF UnlockWalk
<1>23. CASE Wakeup(t)
      BY <1>23, <1>0 DEF Wakeup, WakeUnlink
<1>24. CASE WakeState(t)
      BY <1>24, <1>0 DEF WakeState
<1>25. CASE IncrementSynchSem(t)
      BY <1>25, <1>0, NextTargetOrReturn DEF IncrementSynchSem
<1>26. CASE Wait(t)
      BY <1>26, <1>0 DEF Wait, AtCall
<1>27. CASE WaitNotNeeded(t)
      BY <1>27, <1>0 DEF WaitNotNeeded, AtCall
<1>28. CASE UnlockCvEnqueue(t)
      BY <1>28, <1>0 DEF UnlockCvEnqueue, SpinFree
<1>29. CASE CvBlockCheck(t)
      BY <1>29, <1>0 DEF CvBlockCheck
<1>30. CASE CvRemove(t)
      BY <1>30, <1>0 DEF CvRemove
<1>31. CASE Signal(t)
      BY <1>31, <1>0, SignalOrReturn
<1>32. CASE CvWakeup(t)
      BY <1>32, <1>0 DEF CvWakeup, WakeUnlink
<1>33. CASE FerOnlyWaiter(t)
      BY <1>33, <1>0, NextTargetOrReturn DEF FerOnlyWaiter
<1>34. CASE FerSpin(t)
      BY <1>34, <1>0 DEF FerSpin
<1>35. CASE FerEnqueue(t)
      BY <1>35, <1>0, NextTargetOrReturn DEF FerEnqueue
<1> QED
    BY <1>1, <1>2, <1>3, <1>4, <1>5, <1>6, <1>7, <1>8, <1>9, <1>10,
       <1>11, <1>12, <1>13, <1>14, <1>15, <1>16, <1>17, <1>18, <1>19,
       <1>20, <1>21, <1>22, <1>23, <1>24, <1>25, <1>26, <1>27, <1>28,
       <1>29, <1>30, <1>31, <1>32, <1>33, <1>34, <1>35
       DEF Step

(* The word is kept true by every step.                                    *)
LEMMA StepWord ==
  ASSUME Typed, WordMatchesHolders, NEW t \in Threads, Step(t), CallAtHand(t),
         Typed', Moves(t)
  PROVE  WordMatchesHolders'
<1> USE DEF CallAtHand
<1>0. Alone(t) /\ pc[t] \in Labels /\ pc \in [Threads -> Labels] BY DEF Moves, Typed
<1>00. /\ readers \in Nat /\ (kMuReader \in mu <=> readers > 0)
       /\ kMuReader \in mu => kMuWriter \notin mu
       /\ Holds(t) => how[t] = IF kMuWriter \in mu THEN "X" ELSE "S"
       /\ Holds(t) => kMuWriter \in mu \/ kMuReader \in mu
  <2>1. Holds(t) => how[t] \in {"X", "S"} /\ t \in Holders(how[t]) BY DEF Typed, Holders
  <2> QED BY <2>1, WordSays DEF Typed, WordMatchesHolders
<1>1. CASE Lock(t)
      BY <1>1, <1>0, Stays DEF Lock, Holds, AtCall
<1>2. CASE TryLock(t)
  <2>1. CASE TryLockGets(t)
    <3>1. Holds(t)' /\ ~Holds(t) BY <1>2, <2>1, <1>0, TryLockGetsOrFails DEF TryLockGets, Holds
    <3>2. how'[t] = Call(t).how /\ Call(t).how \in {"X", "S"}
          BY <1>2, <2>1, CallTyped, TryLockGetsOrFails DEF TryLockGets, Typed
    <3>3. kMuWriter \notin mu /\ (Call(t).how = "X" => kMuReader \notin mu)
          BY <2>1 DEF TryLockGets, SlowNeedZero, Has
    <3> QED BY <1>0, <2>1, <3>1, <3>2, <3>3, Enters DEF TryLockGets
  <2>2. CASE TryLockFails(t)
        BY <1>2, <1>0, <2>2, Stays, TryLockGetsOrFails DEF TryLockFails, Holds
  <2> QED BY <1>2, <2>1, <2>2, TryLockGetsOrFails
<1>3. CASE LockAcquire(t)
  <2>1. Holds(t)' /\ ~Holds(t) /\ how'[t] = how[t]
        BY <1>3, <1>0 DEF LockAcquire, GotLock, Holds
  <2>2. /\ kMuWriter \notin mu /\ (how[t] = "X" => kMuReader \notin mu)
        /\ readers' = IF how[t] = "S" THEN readers + 1 ELSE readers
        /\ mu' \cap {kMuWriter, kMuReader}
             = (mu \cup {Held(how[t])}) \cap {kMuWriter, kMuReader}
        BY <1>3 DEF LockAcquire, SlowNeedZero, Has, Held, ZapDesigWaker
  <2> QED BY <1>0, <2>1, <2>2, Enters DEF Typed
<1>4. CASE LockJoin(t)
  <2>1. Holds(t)' /\ ~Holds(t) /\ how'[t] = how[t]
        BY <1>4, <1>0 DEF LockJoin, GotLock, Holds
  <2>2. /\ kMuWriter \notin mu /\ (how[t] = "X" => kMuReader \notin mu)
        /\ readers' = IF how[t] = "S" THEN readers + 1 ELSE readers
        /\ mu' \cap {kMuWriter, kMuReader}
             = (mu \cup {Held(how[t])}) \cap {kMuWriter, kMuReader}
        BY <1>4 DEF LockJoin, MayJoin, Has, Held, ZapDesigWaker
  <2> QED BY <1>0, <2>1, <2>2, Enters DEF Typed
<1>5. CASE LockOnlyWaiter(t)
      BY <1>5, <1>0, Stays DEF LockOnlyWaiter, Holds, ZapDesigWaker, WrWait, Has
<1>6. CASE LockSpin(t)
      BY <1>6, <1>0, Stays DEF LockSpin, Holds, ZapDesigWaker
<1>7. CASE LockEnqueue(t)
      BY <1>7, <1>0, Stays DEF LockEnqueue, Holds
<1>8. CASE BlockCheck(t)
      BY <1>8, <1>0, Stays DEF BlockCheck, Holds
<1>9. CASE SemWait(t)
      BY <1>9, <1>0, Stays DEF SemWait, Holds
<1>10. CASE SemTimeout(t)
      BY <1>10, <1>0, Stays DEF SemTimeout, Holds
<1>11. CASE TryRemove(t)
      BY <1>11, <1>0, Stays DEF TryRemove, Holds, WaitBits
<1>12. CASE TimeoutSatisfied(t)
      BY <1>12, <1>0, Stays DEF TimeoutSatisfied, Holds
<1>13. CASE Await(t)
      BY <1>13, <1>0, Stays DEF Await, Holds, AtCall
<1>14. CASE Unlock(t)
      BY <1>14, <1>0, Stays DEF Unlock, Holds, AtCall
<1>15. CASE UnlockFastWriter(t)
  <2>1. Holds(t) /\ ~Holds(t)'
        BY <1>15, <1>0 DEF UnlockFastWriter, Leave, WriterMayGo, Holds, Typed
  <2>2. kMuWriter \notin mu' /\ (kMuReader \in mu' <=> readers' > 0)
        BY <1>15, <1>0, <1>00 DEF UnlockFastWriter, Leave, WriterMayGo, Has
  <2>3. readers' = IF how[t] = "S" THEN readers - 1 ELSE readers
        BY <1>15, <1>0, <2>1, <1>00 DEF UnlockFastWriter, Leave, WriterMayGo, Has
  <2> QED BY <1>0, <2>1, <2>2, <2>3, Leaves DEF Typed
<1>16. CASE UnlockFastReader(t)
  <2>1. Holds(t) /\ ~Holds(t)'
        BY <1>16, <1>0 DEF UnlockFastReader, Leave, HolderBits, OneLess, Holds, Typed
  <2>2. kMuWriter \notin mu' /\ (kMuReader \in mu' <=> readers' > 0)
        BY <1>16, <1>0, <1>00 DEF UnlockFastReader, Leave, HolderBits, OneLess, Has
  <2>3. readers' = IF how[t] = "S" THEN readers - 1 ELSE readers
        BY <1>16, <1>0, <2>1, <1>00 DEF UnlockFastReader, Leave, HolderBits, OneLess, Has
  <2> QED BY <1>0, <2>1, <2>2, <2>3, Leaves DEF Typed
<1>17. CASE UnlockNoWaiters(t)
  <2>1. Holds(t) /\ ~Holds(t)'
        BY <1>17, <1>0 DEF UnlockNoWaiters, Leave, InSlow, SpinFree, HolderBits, OneLess, Holds, Typed
  <2>2. kMuWriter \notin mu' /\ (kMuReader \in mu' <=> readers' > 0)
        BY <1>17, <1>0, <1>00 DEF UnlockNoWaiters, Leave, InSlow, SpinFree, HolderBits, OneLess, Has
  <2>3. readers' = IF how[t] = "S" THEN readers - 1 ELSE readers
        BY <1>17, <1>0, <2>1, <1>00 DEF UnlockNoWaiters, Leave, InSlow, SpinFree, HolderBits, OneLess, Has
  <2> QED BY <1>0, <2>1, <2>2, <2>3, Leaves DEF Typed
<1>18. CASE UnlockNotLast(t)
  <2>1. Holds(t) /\ ~Holds(t)'
        BY <1>18, <1>0 DEF UnlockNotLast, Leave, InSlow, SpinFree, Holds, Typed
  <2>2. kMuWriter \notin mu' /\ (kMuReader \in mu' <=> readers' > 0)
        BY <1>18, <1>0, <1>00 DEF UnlockNotLast, Leave, InSlow, SpinFree, Has
  <2>3. readers' = IF how[t] = "S" THEN readers - 1 ELSE readers
        BY <1>18, <1>0, <2>1, <1>00 DEF UnlockNotLast, Leave, InSlow, SpinFree, Has
  <2> QED BY <1>0, <2>1, <2>2, <2>3, Leaves DEF Typed
<1>19. CASE UnlockWake(t)
  <2>1. Holds(t) /\ ~Holds(t)'
        BY <1>19, <1>0, UnlockWakeWord DEF InSlow, SpinFree, LastHolder, Holds, Typed
  <2>2. kMuWriter \notin mu' /\ (kMuReader \in mu' <=> readers' > 0)
        BY <1>19, <1>0, UnlockWakeWord, <1>00 DEF InSlow, SpinFree, LastHolder, Has
  <2>3. readers' = IF how[t] = "S" THEN readers - 1 ELSE readers
        BY <1>19, <1>0, UnlockWakeWord, <2>1, <1>00 DEF InSlow, SpinFree, LastHolder, Has
  <2> QED BY <1>0, <2>1, <2>2, <2>3, Leaves DEF Typed
<1>20. CASE UnlockNobody(t)
  <2>1. Holds(t) /\ ~Holds(t)'
        BY <1>20, <1>0 DEF UnlockNobody, Leave, InSlow, SpinFree, LastHolder, Holds, Typed
  <2>2. kMuWriter \notin mu' /\ (kMuReader \in mu' <=> readers' > 0)
        BY <1>20, <1>0, <1>00 DEF UnlockNobody, Leave, InSlow, SpinFree, LastHolder, Has
  <2>3. readers' = IF how[t] = "S" THEN readers - 1 ELSE readers
        BY <1>20, <1>0, <2>1, <1>00 DEF UnlockNobody, Leave, InSlow, SpinFree, LastHolder, Has
  <2> QED BY <1>0, <2>1, <2>2, <2>3, Leaves DEF Typed
<1>21. CASE UnlockStartWalk(t)
      BY <1>21, <1>0, Stays, ZenonT(30) DEF UnlockStartWalk, Holds, SpinFree
<1>22. CASE UnlockWalk(t)
      BY <1>22, <1>0, Stays DEF UnlockWalk, Holds
<1>23. CASE Wakeup(t)
      BY <1>23, <1>0, Stays DEF Wakeup, Holds, WakeUnlink
<1>24. CASE WakeState(t)
      BY <1>24, <1>0, Stays DEF WakeState, Holds
<1>25. CASE IncrementSynchSem(t)
  <2>1. Holds(t)' <=> Holds(t)
    <3>1. pc[t] = "post" /\ after' = after BY <1>25 DEF IncrementSynchSem
    <3>2. pc'[t] \in {IF Signalling(t) THEN "signal" ELSE "wake", after[t]}
          BY <1>25, <1>0, NextTargetOrReturn DEF IncrementSynchSem
    <3> QED BY <3>1, <3>2 DEF Typed, Holds
  <2> QED BY <1>25, <1>0, <2>1, Stays DEF IncrementSynchSem
<1>26. CASE Wait(t)
      BY <1>26, <1>0, Stays DEF Wait, Holds, AtCall
<1>27. CASE WaitNotNeeded(t)
      BY <1>27, <1>0, Stays DEF WaitNotNeeded, Holds, AtCall
<1>28. CASE UnlockCvEnqueue(t)
      BY <1>28, <1>0, Stays DEF UnlockCvEnqueue, Holds, SpinFree
<1>29. CASE CvBlockCheck(t)
      BY <1>29, <1>0, Stays DEF CvBlockCheck, Holds
<1>30. CASE CvRemove(t)
      BY <1>30, <1>0, Stays DEF CvRemove, Holds
<1>31. CASE Signal(t)
  <2>1. Holds(t)' <=> Holds(t) BY <1>31, <1>0, SignalOrReturn DEF Typed, Holds
  <2> QED BY <1>31, <1>0, <2>1, Stays, SignalOrReturn
<1>32. CASE CvWakeup(t)
      BY <1>32, <1>0, Stays DEF CvWakeup, Holds, WakeUnlink
<1>33. CASE FerOnlyWaiter(t)
      BY <1>33, <1>0, Stays, NextTargetOrReturn DEF FerOnlyWaiter, Holds
<1>34. CASE FerSpin(t)
      BY <1>34, <1>0, Stays DEF FerSpin, Holds
<1>35. CASE FerEnqueue(t)
      BY <1>35, <1>0, Stays, NextTargetOrReturn DEF FerEnqueue, Holds
<1> QED
    BY <1>1, <1>2, <1>3, <1>4, <1>5, <1>6, <1>7, <1>8, <1>9, <1>10,
       <1>11, <1>12, <1>13, <1>14, <1>15, <1>16, <1>17, <1>18, <1>19,
       <1>20, <1>21, <1>22, <1>23, <1>24, <1>25, <1>26, <1>27, <1>28,
       <1>29, <1>30, <1>31, <1>32, <1>33, <1>34, <1>35
       DEF Step

(* A mutex that nobody has used satisfies IInv.                            *)
LEMMA InitIInv == Init => IInv
<1> SUFFICES ASSUME Init PROVE IInv
    OBVIOUS
<1>1. Typed BY DEF Init, Typed
<1>2. \A t \in Threads : CallAtHand(t) /\ KeepsCondition(t)
      BY DEF Init, CallAtHand, KeepsCondition
<1>3. Holders("X") = {} /\ Holders("S") = {} BY DEF Init, Holders, Holds
<1>4. Cardinality(Holders("X")) = 0 /\ Cardinality(Holders("S")) = 0
      BY <1>3, FS_EmptySet
<1>5. WordMatchesHolders BY <1>4 DEF Init, WordMatchesHolders
<1> QED BY <1>1, <1>2, <1>5 DEF IInv

(* IInv is inductive.                                                      *)
LEMMA NextIInv == ASSUME IInv, [Next]_vars PROVE IInv'
<1>1. ASSUME NEW t \in Threads, Step(t) PROVE IInv'
  <2>1. Typed' /\ Moves(t) BY <1>1, StepTyped DEF IInv
  <2>2. WordMatchesHolders' BY <1>1, <2>1, StepWord DEF IInv
  <2>3. CallAtHand(t)' /\ KeepsCondition(t)' BY <1>1, StepAtCall DEF IInv
  <2>4. \A u \in Threads \ {t} : CallAtHand(u)' /\ KeepsCondition(u)'
        BY <2>1, OthersKeepCall DEF IInv
  <2> QED BY <2>1, <2>2, <2>3, <2>4 DEF IInv
<1>2. CASE UNCHANGED vars
  <2>1. Typed' BY <1>2 DEF IInv, Typed, vars
  <2>2. \A u \in Threads : CallAtHand(u)' /\ KeepsCondition(u)'
        BY <1>2 DEF IInv, CallAtHand, KeepsCondition, Running, Call, Signalling, vars
  <2>3. WordMatchesHolders'
        BY <1>2 DEF IInv, WordMatchesHolders, Holders, Holds, vars
  <2> QED BY <2>1, <2>2, <2>3 DEF IInv
<1> QED BY <1>1, <1>2 DEF Next, Terminated

(* The lock word tells the truth about the holders at all times: at most   *)
(* one writer, never with readers, and the count is the number of readers  *)
(* (mutex.cc:628-635).                                                     *)
THEOREM WordIsTrue == Spec => []WordMatchesHolders
<1>1. IInv => WordMatchesHolders BY DEF IInv
<1> QED BY <1>1, InitIInv, NextIInv, PTL DEF Spec

-----------------------------------------------------------------------------
(* The monitor's view of a step.                                           *)
Inside == {t \in Threads : Holds(t)}

(* The monitor runs the same client programs.                              *)
LEMMA AbstractCall ==
  ASSUME NEW t
  PROVE  M!Call(t) = Call(t) /\ M!Op(t) = Call(t).op /\ (M!Running(t) <=> Running(t))
BY DEF M!Call, M!Op, M!Running, Call, Running

(* t gets the lock, gives it up, or does neither.                          *)
LEMMA InsideChanges ==
  ASSUME NEW t \in Threads, Alone(t)
  PROVE  /\ Holds(t)' => Inside' = Inside \cup {t}
         /\ ~Holds(t)' => Inside' = Inside \ {t}
         /\ (Holds(t)' <=> Holds(t)) => Inside' = Inside
BY DEF Inside, Alone, Holds

(* The word lets in a writer when nobody holds the lock, and a reader when *)
(* no writer does.                                                         *)
LEMMA WordIsCompatible ==
  ASSUME Typed, WordMatchesHolders, NEW t, NEW h \in {"X", "S"},
         kMuWriter \notin mu, h = "X" => kMuReader \notin mu
  PROVE  M!Compatible(t, h)
<1>1. SUFFICES ASSUME NEW u \in Threads, Holds(u) PROVE h = "S" /\ how[u] = "S"
      BY DEF M!Compatible
<1>2. u \in Holders(how[u]) /\ how[u] \in {"X", "S"} BY <1>1 DEF Holders, Typed
<1> QED BY <1>2, WordSays

(* Every step of the mutex is a step of the monitor or leaves it alone.    *)
LEMMA StepRefines ==
  ASSUME IInv, NEW t \in Threads, Step(t), Typed', Moves(t)
  PROVE  [M!Next]_M!vars
<1>0. /\ Typed /\ CallAtHand(t) /\ KeepsCondition(t) /\ WordMatchesHolders
      /\ Alone(t) /\ prog' = prog
      BY DEF IInv, Moves
<1>a. ASSUME Holds(t)' <=> Holds(t), UNCHANGED <<how, truth, ip, result>>
      PROVE  [M!Next]_M!vars
      BY <1>0, <1>a, InsideChanges DEF M!vars, Inside
<1>b. ASSUME Running(t), Holds(t)' <=> Holds(t),
             Signalling(t) \/ (Call(t).op = "unlock" /\ ~Holds(t)),
             Return(t), UNCHANGED <<how, truth, result>>
      PROVE  [M!Next]_M!vars
  <2>1. M!Finish(t)
        BY <1>0, <1>b, AbstractCall, InsideChanges
           DEF M!Finish, M!Return, Inside, Signalling
  <2> QED BY <2>1 DEF M!Next
<1>c. ASSUME Running(t), Holds(t), ~Holds(t)', Call(t).op \in LockCalls \cup {"unlock"},
             ip' = ip \/ (Call(t).op = "unlock" /\ Return(t)), UNCHANGED <<how, truth, result>>
      PROVE  [M!Next]_M!vars
  <2>1. M!Leave(t)
        BY <1>0, <1>c, AbstractCall, InsideChanges
           DEF M!Leave, M!Return, Inside, LockCalls
  <2> QED BY <2>1 DEF M!Next
<1>d. ASSUME pc[t] = "lock", ~Holds(t), Holds(t)', UNCHANGED how, GotLock(t),
             kMuWriter \notin mu, how[t] = "X" => kMuReader \notin mu
      PROVE  [M!Next]_M!vars
  <2>1. Running(t) /\ Call(t).op \in LockCalls BY <1>0, <1>d DEF CallAtHand
  <2>2. M!Compatible(t, how[t]) BY <1>0, <1>d, WordIsCompatible DEF Typed
  <2>3. Inside' = Inside \cup {t} BY <1>0, <1>d, InsideChanges
  <2>4. /\ truth' = truth
        /\ \/ ip' = ip /\ result' = result
           \/ Return(t) /\ Answered(t) /\ cond[t] \in truth \cup {Null}
        BY <1>d DEF GotLock
  <2>5. ASSUME Return(t), Answered(t), cond[t] \in truth \cup {Null} PROVE M!Done(t)
    <3>1. Call(t).op # "wait" => (Answer(t) <=> M!Satisfied(t))
          BY <1>0, <1>d, <2>1, <2>5, AbstractCall
             DEF Answer, M!Satisfied, KeepsCondition, LockCalls
    <3>2. Call(t).op \in {"lock", "await"} /\ ~Call(t).timed => M!Satisfied(t)
          BY <1>0, <1>d, <2>5, AbstractCall DEF M!Satisfied, KeepsCondition
    <3>3. M!Return(t)
          BY <2>5 DEF M!Return
    <3>4. M!Answer(t)
          BY <2>5, <3>1, AbstractCall DEF Answered, M!Answer
    <3> QED
        BY <3>2, <3>3, <3>4, AbstractCall DEF M!Done
  <2>6. M!Enter(t)
        BY <1>0, <1>d, <2>1, <2>2, <2>3, <2>4, <2>5, AbstractCall
           DEF M!Enter, Inside, LockCalls
  <2> QED BY <2>6 DEF M!Next
<1> USE DEF CallAtHand
<1>1. CASE Lock(t)
  <2>1. ~Holds(t) /\ (Holds(t)' <=> Holds(t)) BY <1>1, <1>0 DEF Lock, AtCall, Holds, Typed
  <2>2. M!Choose(t)
        BY <1>1, <1>0, <2>1, AbstractCall, InsideChanges
           DEF Lock, AtCall, M!Choose, Inside
  <2> QED BY <2>2 DEF M!Next
<1>2. CASE TryLock(t)
  <2>0. ~Holds(t) BY <1>2, TryLockGetsOrFails DEF Holds
  <2>1. CASE TryLockGets(t)
    <3>1. Holds(t)' BY <1>0, <2>1 DEF TryLockGets, Typed, Holds
    <3>2. Call(t).how \in {"X", "S"} BY <1>0, <1>2, CallTyped, TryLockGetsOrFails
    <3>3. M!Compatible(t, Call(t).how)
          BY <1>0, <2>1, <3>2, WordIsCompatible DEF TryLockGets, SlowNeedZero, Has
    <3> QED BY <1>0, <1>2, <2>0, <2>1, <3>1, <3>3, AbstractCall, InsideChanges,
               TryLockGetsOrFails DEF TryLockGets, M!Next, M!Try, M!Return, Inside
  <2>2. CASE TryLockFails(t)
    <3>1. Holds(t)' <=> Holds(t)
          BY <1>2, <2>2, TryLockGetsOrFails DEF TryLockFails, Holds
    <3> QED BY <1>0, <1>2, <2>0, <2>2, <3>1, AbstractCall, InsideChanges,
               TryLockGetsOrFails DEF TryLockFails, M!Next, M!Try, Inside
  <2> QED BY <1>2, <2>1, <2>2, TryLockGetsOrFails
<1>3. CASE LockAcquire(t)
  <2>1. Holds(t)' /\ ~Holds(t) /\ how' = how
        BY <1>3, <1>0 DEF LockAcquire, GotLock, Holds, Typed
  <2>2. kMuWriter \notin mu /\ (how[t] = "X" => kMuReader \notin mu)
        BY <1>3 DEF LockAcquire, SlowNeedZero, Has
  <2> QED BY <1>3, <1>d, <2>1, <2>2 DEF LockAcquire
<1>4. CASE LockJoin(t)
  <2>1. Holds(t)' /\ ~Holds(t) /\ how' = how
        BY <1>4, <1>0 DEF LockJoin, GotLock, Holds, Typed
  <2>2. kMuWriter \notin mu /\ (how[t] = "X" => kMuReader \notin mu)
        BY <1>4 DEF LockJoin, MayJoin, Has
  <2> QED BY <1>4, <1>d, <2>1, <2>2 DEF LockJoin
<1>5. CASE LockOnlyWaiter(t)
      BY <1>5, <1>0, <1>a DEF LockOnlyWaiter, Typed, Holds
<1>6. CASE LockSpin(t)
      BY <1>6, <1>0, <1>a DEF LockSpin, Typed, Holds
<1>7. CASE LockEnqueue(t)
      BY <1>7, <1>0, <1>a DEF LockEnqueue, Typed, Holds
<1>8. CASE BlockCheck(t)
      BY <1>8, <1>0, <1>a DEF BlockCheck, Typed, Holds
<1>9. CASE SemWait(t)
      BY <1>9, <1>0, <1>a DEF SemWait, Typed, Holds
<1>10. CASE SemTimeout(t)
      BY <1>10, <1>0, <1>a DEF SemTimeout, Typed, Holds
<1>11. CASE TryRemove(t)
      BY <1>11, <1>0, <1>a DEF TryRemove, Typed, Holds
<1>12. CASE TimeoutSatisfied(t)
      BY <1>12, <1>0, <1>a DEF TimeoutSatisfied, Typed, Holds
<1>13. CASE Await(t)
  <2>1. CASE Call(t).cond \notin truth
        BY <1>13, <1>0, <1>a, <2>1 DEF Await, AtCall, Typed, Holds
  <2>2. CASE Call(t).cond \in truth
    <3>1. Holds(t) /\ Holds(t)' BY <1>13, <2>2 DEF Await, AtCall, Holds
    <3>2. M!Pass(t)
          BY <1>13, <1>0, <2>2, <3>1, AbstractCall, InsideChanges
             DEF Await, AtCall, M!Pass, M!Done, M!Answer, M!Satisfied, M!Return, Inside
    <3> QED BY <3>2 DEF M!Next
  <2> QED BY <1>13, <2>1, <2>2 DEF Await
<1>14. CASE Unlock(t)
  <2>1. Holds(t) /\ Holds(t)' BY <1>14, <1>0 DEF Unlock, AtCall, Typed, Holds
  <2>2. CASE how[t] # "X" BY <1>14, <1>a, <2>1, <2>2 DEF Unlock
  <2>3. CASE how[t] = "X"
    <3>1. truth' \subseteq Conds BY <1>14, <1>0, <2>3, CallTyped DEF Unlock, AtCall
    <3>2. M!Write(t)
          BY <1>14, <1>0, <2>1, <2>3, <3>1, InsideChanges DEF Unlock, M!Write, Inside
    <3> QED BY <3>2 DEF M!Next
  <2> QED BY <2>2, <2>3
<1>15. CASE UnlockFastWriter(t)
  <2>1. Holds(t) /\ ~Holds(t)' /\ Running(t) /\ Call(t).op \in LockCalls \cup {"unlock"}
        BY <1>15, <1>0 DEF UnlockFastWriter, Leave, Holds, Typed, LockCalls
  <2>2. ip' = ip \/ (Call(t).op = "unlock" /\ Return(t))
        BY <1>15, <1>0 DEF UnlockFastWriter, Leave, Typed
  <2> QED BY <1>15, <1>c, <2>1, <2>2 DEF UnlockFastWriter, Leave
<1>16. CASE UnlockFastReader(t)
  <2>1. Holds(t) /\ ~Holds(t)' /\ Running(t) /\ Call(t).op \in LockCalls \cup {"unlock"}
        BY <1>16, <1>0 DEF UnlockFastReader, Leave, Holds, Typed, LockCalls
  <2>2. ip' = ip \/ (Call(t).op = "unlock" /\ Return(t))
        BY <1>16, <1>0 DEF UnlockFastReader, Leave, Typed
  <2> QED BY <1>16, <1>c, <2>1, <2>2 DEF UnlockFastReader, Leave
<1>17. CASE UnlockNoWaiters(t)
  <2>1. Holds(t) /\ ~Holds(t)' /\ Running(t) /\ Call(t).op \in LockCalls \cup {"unlock"}
        BY <1>17, <1>0 DEF UnlockNoWaiters, Leave, InSlow, SpinFree, Holds, Typed, LockCalls
  <2>2. ip' = ip \/ (Call(t).op = "unlock" /\ Return(t))
        BY <1>17, <1>0 DEF UnlockNoWaiters, Leave, InSlow, SpinFree, Typed
  <2> QED BY <1>17, <1>c, <2>1, <2>2 DEF UnlockNoWaiters, Leave
<1>18. CASE UnlockNotLast(t)
  <2>1. Holds(t) /\ ~Holds(t)' /\ Running(t) /\ Call(t).op \in LockCalls \cup {"unlock"}
        BY <1>18, <1>0 DEF UnlockNotLast, Leave, InSlow, SpinFree, Holds, Typed, LockCalls
  <2>2. ip' = ip \/ (Call(t).op = "unlock" /\ Return(t))
        BY <1>18, <1>0 DEF UnlockNotLast, Leave, InSlow, SpinFree, Typed
  <2> QED BY <1>18, <1>c, <2>1, <2>2 DEF UnlockNotLast, Leave
<1>19. CASE UnlockWake(t)
  <2>1. Holds(t) /\ ~Holds(t)' /\ Running(t) /\ Call(t).op \in LockCalls \cup {"unlock"}
        BY <1>19, <1>0, UnlockWakeWord DEF InSlow, SpinFree, Holds, Typed, LockCalls
  <2> QED BY <1>19, <1>c, <2>1, UnlockWakeWord
<1>20. CASE UnlockNobody(t)
  <2>1. Holds(t) /\ ~Holds(t)' /\ Running(t) /\ Call(t).op \in LockCalls \cup {"unlock"}
        BY <1>20, <1>0, SMTT(30) DEF UnlockNobody, Leave, InSlow, SpinFree, Holds, Typed, LockCalls
  <2>2. ip' = ip \/ (Call(t).op = "unlock" /\ Return(t))
        BY <1>20, <1>0, SMTT(30) DEF UnlockNobody, Leave, InSlow, SpinFree, Typed
  <2> QED BY <1>20, <1>c, <2>1, <2>2 DEF UnlockNobody, Leave
<1>21. CASE UnlockStartWalk(t)
      BY <1>21, <1>0, <1>a, ZenonT(30) DEF UnlockStartWalk, Typed, Holds, SpinFree
<1>22. CASE UnlockWalk(t)
      BY <1>22, <1>0, <1>a, ZenonT(30) DEF UnlockWalk, Typed, Holds
<1>23. CASE Wakeup(t)
      BY <1>23, <1>0, <1>a DEF Wakeup, Typed, Holds, WakeUnlink
<1>24. CASE WakeState(t)
      BY <1>24, <1>0, <1>a DEF WakeState, Typed, Holds
<1>25. CASE IncrementSynchSem(t)
  <2>1. /\ pc[t] = "post"
        /\ after' = after /\ how' = how /\ NextTarget(t)
        BY <1>25 DEF IncrementSynchSem
  <2>2. pc'[t] \in {IF Signalling(t) THEN "signal" ELSE "wake", after[t]}
        BY <1>0, <2>1, NextTargetOrReturn DEF Typed
  <2>3. Holds(t)' <=> Holds(t) BY <1>0, <2>1, <2>2 DEF Typed, Holds
  <2>4. /\ truth' = truth /\ result' = result
        /\ ip' = ip \/ (Return(t) /\ after[t] \in {"idle", "held"})
        BY <2>1, NextTargetOrReturn
  <2>5. CASE ip' = ip BY <1>a, <2>1, <2>3, <2>4, <2>5
  <2>6. CASE Return(t) /\ after[t] \in {"idle", "held"}
    <3>1. Running(t) /\ (Signalling(t) \/ (Call(t).op = "unlock" /\ ~Holds(t)))
          BY <1>0, <2>1, <2>6 DEF Holds
    <3> QED BY <1>b, <2>1, <2>3, <2>4, <2>6, <3>1
  <2> QED BY <2>4, <2>5, <2>6
<1>26. CASE Wait(t)
      BY <1>26, <1>0, <1>a DEF Wait, Typed, Holds, AtCall
<1>27. CASE WaitNotNeeded(t)
  <2>2. CASE Call(t).cond \in truth
    <3>1. Holds(t) /\ Holds(t)' BY <1>27, <2>2 DEF WaitNotNeeded, AtCall, Holds
    <3>2. M!Pass(t)
          BY <1>27, <1>0, <2>2, <3>1, AbstractCall, InsideChanges
             DEF WaitNotNeeded, AtCall, M!Pass, M!Done, M!Answer, M!Return, Inside
    <3> QED BY <3>2 DEF M!Next
  <2> QED BY <1>27, <2>2 DEF WaitNotNeeded
<1>28. CASE UnlockCvEnqueue(t)
      BY <1>28, <1>0, <1>a DEF UnlockCvEnqueue, Typed, Holds, SpinFree
<1>29. CASE CvBlockCheck(t)
      BY <1>29, <1>0, <1>a DEF CvBlockCheck, Typed, Holds
<1>30. CASE CvRemove(t)
      BY <1>30, <1>0, <1>a DEF CvRemove, Typed, Holds
<1>31. CASE Signal(t)
  <2>1. Holds(t)' <=> Holds(t) BY <1>31, <1>0, SignalOrReturn DEF Typed, Holds
  <2> QED BY <1>31, <1>a, <1>b, <2>1, SignalOrReturn
<1>32. CASE CvWakeup(t)
      BY <1>32, <1>0, <1>a DEF CvWakeup, Typed, Holds, WakeUnlink
<1>33. CASE FerOnlyWaiter(t)
  <2>1. /\ pc[t] = "signal"
        /\ after' = after /\ how' = how /\ NextTarget(t)
        BY <1>33 DEF FerOnlyWaiter
  <2>2. pc'[t] \in {IF Signalling(t) THEN "signal" ELSE "wake", after[t]}
        BY <1>0, <2>1, NextTargetOrReturn DEF Typed
  <2>3. Holds(t)' <=> Holds(t) BY <1>0, <2>1, <2>2 DEF Typed, Holds
  <2>4. /\ truth' = truth /\ result' = result
        /\ ip' = ip \/ (Return(t) /\ after[t] \in {"idle", "held"})
        BY <2>1, NextTargetOrReturn
  <2>5. CASE ip' = ip BY <1>a, <2>1, <2>3, <2>4, <2>5
  <2>6. CASE Return(t) /\ after[t] \in {"idle", "held"}
    <3>1. Running(t) /\ (Signalling(t) \/ (Call(t).op = "unlock" /\ ~Holds(t)))
          BY <1>0, <2>1, <2>6 DEF Holds
    <3> QED BY <1>b, <2>1, <2>3, <2>4, <2>6, <3>1
  <2> QED BY <2>4, <2>5, <2>6
<1>34. CASE FerSpin(t)
      BY <1>34, <1>0, <1>a DEF FerSpin, Typed, Holds
<1>35. CASE FerEnqueue(t)
  <2>1. /\ pc[t] = "transfer"
        /\ after' = after /\ how' = how /\ NextTarget(t)
        BY <1>35 DEF FerEnqueue
  <2>2. pc'[t] \in {IF Signalling(t) THEN "signal" ELSE "wake", after[t]}
        BY <1>0, <2>1, NextTargetOrReturn DEF Typed
  <2>3. Holds(t)' <=> Holds(t) BY <1>0, <2>1, <2>2 DEF Typed, Holds
  <2>4. /\ truth' = truth /\ result' = result
        /\ ip' = ip \/ (Return(t) /\ after[t] \in {"idle", "held"})
        BY <2>1, NextTargetOrReturn
  <2>5. CASE ip' = ip BY <1>a, <2>1, <2>3, <2>4, <2>5
  <2>6. CASE Return(t) /\ after[t] \in {"idle", "held"}
    <3>1. Running(t) /\ (Signalling(t) \/ (Call(t).op = "unlock" /\ ~Holds(t)))
          BY <1>0, <2>1, <2>6 DEF Holds
    <3> QED BY <1>b, <2>1, <2>3, <2>4, <2>6, <3>1
  <2> QED BY <2>4, <2>5, <2>6
<1> QED
    BY <1>1, <1>2, <1>3, <1>4, <1>5, <1>6, <1>7, <1>8, <1>9, <1>10,
       <1>11, <1>12, <1>13, <1>14, <1>15, <1>16, <1>17, <1>18, <1>19,
       <1>20, <1>21, <1>22, <1>23, <1>24, <1>25, <1>26, <1>27, <1>28,
       <1>29, <1>30, <1>31, <1>32, <1>33, <1>34, <1>35
       DEF Step

(* The mutex implements the monitor (mutex.h: mutual exclusion of writers  *)
(* and of writers and readers; LockWhen and Await without a timeout return *)
(* with the condition true, with one they return whether it is): its first *)
(* state is one of the monitor's, and every step is one of the monitor's   *)
(* or leaves it alone.                                                     *)
THEOREM MutexImplementsMonitor == Spec => ImplementsMonitor
<1>1. Init => M!Init
  <2>1. Init => \A t \in Threads : ~Holds(t) BY DEF Init, Holds
  <2>2. Init => DOMAIN prog = Threads BY MutexAssumption DEF Init
  <2> QED BY <2>1, <2>2 DEF Init, M!Init
<1>2. IInv /\ [Next]_vars => [M!Next]_M!vars
  <2> SUFFICES ASSUME IInv, [Next]_vars PROVE [M!Next]_M!vars
      OBVIOUS
  <2>1. ASSUME NEW t \in Threads, Step(t) PROVE [M!Next]_M!vars
    <3>1. Typed' /\ Moves(t) BY <2>1, StepTyped DEF IInv
    <3> QED BY <2>1, <3>1, StepRefines
  <2>2. CASE UNCHANGED vars BY <2>2 DEF vars, M!vars, Holds
  <2> QED BY <2>1, <2>2 DEF Next, Terminated
<1> QED BY <1>1, <1>2, InitIInv, NextIInv, PTL DEF Spec, ImplementsMonitor, M!Spec

-----------------------------------------------------------------------------
(* Lists of different threads: all but the first, a part of one, all but   *)
(* one.                                                                    *)
LEMMA TailIs ==
  ASSUME NEW list \in Seq(Threads), list # <<>>
  PROVE  /\ list[1] \in Threads /\ list[1] \in Elems(list) /\ Tail(list) \in Seq(Threads)
         /\ Len(list) > 1 <=> Tail(list) # <<>>
         /\ Elems(list) = {list[1]} \cup Elems(Tail(list))
         /\ Distinct(list) => Distinct(Tail(list)) /\ list[1] \notin Elems(Tail(list))
<1> DEFINE n == Len(list)
           rest == Tail(list)
<1>1. /\ n \in Nat /\ n > 0 /\ DOMAIN list = 1..n /\ list[1] \in Threads /\ 1 \in 1..n
      /\ rest \in Seq(Threads) /\ Len(rest) = n - 1 /\ DOMAIN rest = 1..(n - 1)
      /\ \A i \in 1..(n - 1) : rest[i] = list[i + 1]
      OBVIOUS
<1> HIDE DEF n, rest
<1>2. n > 1 <=> rest # <<>>
      BY <1>1
<1>3. Elems(list) = {list[1]} \cup Elems(rest)
  <2>1. \A i \in 1..n : i = 1 \/ (i - 1 \in 1..(n - 1) /\ list[i] = rest[i - 1])
        BY <1>1
  <2>2. \A i \in 1..(n - 1) : i + 1 \in 1..n
        BY <1>1
  <2>3. ASSUME NEW i \in 1..n PROVE list[i] \in {list[1]} \cup Elems(rest)
    <3>1. CASE i = 1
          BY <3>1
    <3>2. CASE i # 1
          BY <1>1, <2>1, <3>2 DEF Elems
    <3> QED
        BY <3>1, <3>2
  <2>4. ASSUME NEW i \in 1..(n - 1) PROVE rest[i] \in Elems(list)
        BY <1>1, <2>2 DEF Elems
  <2>5. list[1] \in Elems(list)
        BY <1>1 DEF Elems
  <2>6. Elems(list) \subseteq {list[1]} \cup Elems(rest)
        BY <1>1, <2>3 DEF Elems
  <2>7. Elems(rest) \subseteq Elems(list)
        BY <1>1, <2>4 DEF Elems
  <2> QED
      BY <2>5, <2>6, <2>7
<1>4. ASSUME Distinct(list) PROVE Distinct(rest) /\ list[1] \notin Elems(rest)
  <2>1. \A i \in 1..(n - 1) : i + 1 \in 1..n /\ i + 1 # 1
        BY <1>1
  <2>2. list[1] \notin Elems(rest)
    <3> SUFFICES ASSUME NEW i \in 1..(n - 1), rest[i] = list[1] PROVE FALSE
        BY <1>1 DEF Elems
    <3>1. i + 1 \in 1..n /\ i + 1 # 1 /\ list[i + 1] = list[1]
          BY <1>1, <2>1
    <3> QED
        BY <1>1, <1>4, <3>1 DEF Distinct
  <2>3. ASSUME NEW i \in 1..(n - 1), NEW j \in 1..(n - 1), rest[i] = rest[j] PROVE i = j
    <3>1. i + 1 \in 1..n /\ j + 1 \in 1..n /\ list[i + 1] = list[j + 1]
          BY <1>1, <2>1, <2>3
    <3>2. i + 1 = j + 1
          BY <1>1, <1>4, <3>1 DEF Distinct
    <3> QED
        BY <3>2
  <2> QED
      BY <1>1, <2>2, <2>3 DEF Distinct
<1>5. list[1] \in Elems(list)
      BY <1>3
<1> QED
    BY <1>1, <1>2, <1>3, <1>4, <1>5 DEF n, rest

(* A list of different threads cut in two.                                 *)
LEMMA SplitIs ==
  ASSUME NEW list \in Seq(Threads), Distinct(list), NEW n \in 0..Len(list)
  PROVE  LET front == SubSeq(list, 1, n)
             back  == SubSeq(list, n + 1, Len(list))
         IN  /\ front \in Seq(Threads) /\ back \in Seq(Threads) /\ Distinct(front) /\ Distinct(back)
             /\ Elems(list) = Elems(front) \cup Elems(back) /\ Elems(front) \cap Elems(back) = {}
             /\ front # <<>> <=> n > 0
<1> SUFFICES ASSUME NEW front, front = SubSeq(list, 1, n),
                    NEW back, back = SubSeq(list, n + 1, Len(list))
             PROVE  /\ front \in Seq(Threads) /\ back \in Seq(Threads)
                    /\ Distinct(front) /\ Distinct(back)
                    /\ Elems(list) = Elems(front) \cup Elems(back)
                    /\ Elems(front) \cap Elems(back) = {}
                    /\ front # <<>> <=> n > 0
    OBVIOUS
<1> DEFINE m == Len(list)
<1>1. /\ m \in Nat /\ n \in Nat /\ n <= m /\ DOMAIN list = 1..m
      /\ front \in Seq(Threads) /\ Len(front) = n /\ DOMAIN front = 1..n
      /\ \A i \in 1..n : front[i] = list[i]
      /\ back \in Seq(Threads) /\ Len(back) = m - n /\ DOMAIN back = 1..(m - n)
      /\ \A i \in 1..(m - n) : back[i] = list[n + i]
      OBVIOUS
<1> HIDE DEF m
<1>2. \A i \in 1..m : i \in 1..n \/ (i - n \in 1..(m - n) /\ list[i] = back[i - n])
  <2> SUFFICES ASSUME NEW i \in 1..m, i \notin 1..n
               PROVE  i - n \in 1..(m - n) /\ list[i] = back[i - n]
      OBVIOUS
  <2>1. i - n \in 1..(m - n) /\ n + (i - n) = i
        BY <1>1
  <2> QED
      BY <1>1, <2>1
<1>3. (\A i \in 1..n : i \in 1..m) /\ \A i \in 1..(m - n) : n + i \in 1..m /\ n + i \notin 1..n
      BY <1>1
<1>4. Elems(list) = Elems(front) \cup Elems(back)
  <2>1. ASSUME NEW i \in 1..m PROVE list[i] \in Elems(front) \cup Elems(back)
    <3>1. CASE i \in 1..n
          BY <1>1, <3>1 DEF Elems
    <3>2. CASE i - n \in 1..(m - n) /\ list[i] = back[i - n]
          BY <1>1, <3>2 DEF Elems
    <3> QED
        BY <1>2, <3>1, <3>2
  <2>2. ASSUME NEW i \in 1..n PROVE front[i] \in Elems(list)
        BY <1>1, <1>3 DEF Elems
  <2>3. ASSUME NEW i \in 1..(m - n) PROVE back[i] \in Elems(list)
        BY <1>1, <1>3 DEF Elems
  <2>4. Elems(list) \subseteq Elems(front) \cup Elems(back)
        BY <1>1, <2>1 DEF Elems
  <2>5. Elems(front) \subseteq Elems(list)
        BY <1>1, <2>2 DEF Elems
  <2>6. Elems(back) \subseteq Elems(list)
        BY <1>1, <2>3 DEF Elems
  <2> QED
      BY <2>4, <2>5, <2>6
<1>5. Elems(front) \cap Elems(back) = {}
  <2> SUFFICES ASSUME NEW x, x \in Elems(front), x \in Elems(back) PROVE FALSE
      OBVIOUS
  <2>a. PICK i \in 1..n : x = front[i]
        BY <1>1 DEF Elems
  <2>b. PICK j \in 1..(m - n) : x = back[j]
        BY <1>1 DEF Elems
  <2>1. i \in 1..m /\ n + j \in 1..m /\ i # n + j /\ list[i] = list[n + j]
        BY <1>1, <1>3, <2>a, <2>b
  <2> QED
      BY <1>1, <2>1 DEF Distinct
<1>6. Distinct(front)
  <2> SUFFICES ASSUME NEW i \in 1..n, NEW j \in 1..n, front[i] = front[j] PROVE i = j
      BY <1>1 DEF Distinct
  <2>1. i \in 1..m /\ j \in 1..m /\ list[i] = list[j]
        BY <1>1, <1>3
  <2> QED
      BY <1>1, <2>1 DEF Distinct
<1>7. Distinct(back)
  <2> SUFFICES ASSUME NEW i \in 1..(m - n), NEW j \in 1..(m - n), back[i] = back[j] PROVE i = j
      BY <1>1 DEF Distinct
  <2>1. n + i \in 1..m /\ n + j \in 1..m /\ list[n + i] = list[n + j]
        BY <1>1, <1>3
  <2>2. n + i = n + j
        BY <1>1, <2>1 DEF Distinct
  <2> QED
      BY <1>1, <2>2, SMTT(30)
<1>8. front # <<>> <=> n > 0
      BY <1>1
<1> QED
    BY <1>1, <1>4, <1>5, <1>6, <1>7, <1>8

(* A list without one of its threads.                                      *)
LEMMA RemovedFrom ==
  ASSUME NEW list \in Seq(Threads), Distinct(list), NEW x, NEW new,
         new = Seqs!RemoveFirst(list, x)
  PROVE  /\ new \in Seq(Threads) /\ Distinct(new) /\ Elems(new) = Elems(list) \ {x}
<1> DEFINE n == Len(list)
<1>1. n \in Nat /\ DOMAIN list = 1..n /\ \A i \in 1..n : list[i] \in Threads
      OBVIOUS
<1>2. CASE x \in Elems(list)
  <2>1. PICK p \in 1..n : x = list[p]
        BY <1>1, <1>2 DEF Elems
  <2>2. new = [i \in 1..(n - 1) |-> IF i < p THEN list[i] ELSE list[i + 1]]
        BY <1>1, <2>1, RemoveFirstIs
  <2> HIDE DEF n
  <2>3. /\ \A i \in 1..(n - 1) : i \in 1..n /\ i + 1 \in 1..n
        /\ n - 1 \in Nat
        BY <1>1, <2>1
  <2>4. /\ DOMAIN new = 1..(n - 1)
        /\ \A i \in 1..(n - 1) : new[i] = list[IF i < p THEN i ELSE i + 1]
        BY <2>2
  <2>5. new \in Seq(Threads)
        BY <1>1, <2>2, <2>3
  <2>6. \A i \in 1..n : i # p => \/ i \in 1..(n - 1) /\ i < p
                                 \/ i - 1 \in 1..(n - 1) /\ ~(i - 1 < p) /\ (i - 1) + 1 = i
        BY <1>1, <2>1
  <2>7. \A i \in 1..n : i # p => \E j \in 1..(n - 1) : new[j] = list[i]
    <3> TAKE i \in 1..n
    <3> HAVE i # p
    <3>1. CASE i \in 1..(n - 1) /\ i < p
          BY <2>4, <3>1
    <3>2. CASE i - 1 \in 1..(n - 1) /\ ~(i - 1 < p) /\ (i - 1) + 1 = i
          BY <2>4, <3>2
    <3> QED
        BY <2>6, <3>1, <3>2
  <2>8. \A i \in 1..(n - 1) : \E j \in 1..n : j # p /\ new[i] = list[j]
    <3> TAKE i \in 1..(n - 1)
    <3>1. i + 1 > i /\ p \in Nat /\ i \in Nat
          BY <1>1, <2>1
    <3>2. CASE i < p
          BY <2>3, <2>4, <3>1, <3>2
    <3>3. CASE ~(i < p)
      <4>1. i + 1 # p /\ i + 1 \in 1..n
            BY <2>3, <3>1, <3>3
      <4> QED
          BY <2>4, <3>3, <4>1
    <3> QED
        BY <3>2, <3>3
  <2>9. Elems(new) = Elems(list) \ {x}
    <3>1. ASSUME NEW i \in 1..n, list[i] # x PROVE list[i] \in Elems(new)
          BY <2>1, <2>4, <2>7, <3>1 DEF Elems
    <3>2. ASSUME NEW i \in 1..(n - 1) PROVE new[i] \in Elems(list) /\ new[i] # x
          BY <1>1, <2>1, <2>8, SMTT(30) DEF Elems, Distinct
    <3>3. Elems(list) \ {x} \subseteq Elems(new)
          BY <1>1, <3>1 DEF Elems
    <3>4. Elems(new) \subseteq Elems(list) \ {x}
          BY <2>4, <3>2 DEF Elems
    <3> QED
        BY <3>3, <3>4
  <2>10. Distinct(new)
    <3> SUFFICES ASSUME NEW i \in 1..(n - 1), NEW j \in 1..(n - 1), new[i] = new[j] PROVE i = j
        BY <2>4 DEF Distinct
    <3> DEFINE a == IF i < p THEN i ELSE i + 1
               b == IF j < p THEN j ELSE j + 1
    <3>1. a \in 1..n /\ b \in 1..n /\ list[a] = list[b]
          BY <2>3, <2>4
    <3>2. a = b => i = j
          BY <1>1, <2>1
    <3> HIDE DEF a, b
    <3> QED
        BY <1>1, <3>1, <3>2 DEF Distinct
  <2> QED
      BY <2>5, <2>9, <2>10
<1>3. CASE x \notin Elems(list)
  <2>1. ~\E i \in 1..n : list[i] = x
        BY <1>1, <1>3 DEF Elems
  <2>2. new = list
        BY <2>1 DEF Seqs!RemoveFirst
  <2> QED
      BY <1>3, <2>2
<1> QED
    BY <1>2, <1>3

-----------------------------------------------------------------------------
(* What UnlockSlow's locals and the lists are.                             *)
Scans == [w : Threads \cup {Null}, pw : Threads \cup {Null}, old : Threads \cup {Null},
          knownFalse : Conds \cup {Null}, wrWait : BOOLEAN, wWalk : Threads \cup {Null},
          pwWalk : Threads \cup {Null}, wl : Seq(Threads)]

(* Their types.                                                            *)
ListsTyped ==
  /\ truth \subseteq Conds
  /\ cvqueue \in Seq(Threads)
  /\ scan \in [Threads -> Scans]

(* The queue is good, and none of its checks has failed.                   *)
QueueGood == Good(queue, kind) /\ queue.failed = {}

(* The threads on t's list: the one whose state has been set is off it.    *)
Listed(t) == Elems(IF pc[t] = "post" THEN Tail(scan[t].wl) ELSE scan[t].wl)

(* Where a thread has a list of threads to wake or to move.                *)
Giving == {"wake", "woken", "post", "signal", "transfer"}

(* No thread is in two places: on the queues and on the lists.             *)
Places ==
  /\ \A t \in Threads : (scan[t].wl # <<>> <=> pc[t] \in Giving) /\ Distinct(scan[t].wl)
  /\ Distinct(cvqueue)
  /\ Elems(cvqueue) \cap Waiting(queue) = {}
  /\ \A t \in Threads : Listed(t) \cap (Waiting(queue) \cup Elems(cvqueue)) = {}
  /\ \A t, u \in Threads : t # u => Listed(t) \cap Listed(u) = {}

(* x is on a queue or on a list.                                           *)
Somewhere(x) ==
  x \in Waiting(queue) \/ x \in Elems(cvqueue) \/ \E u \in Threads : x \in Listed(u)

(* The thread that wakes x has taken it off its list.                      *)
Unlinked(x) == \E u \in Threads : pc[u] = "woken" /\ x = Target(u)

(* A thread in one of these places sleeps, or is on its way to sleep.  It  *)
(* is queued, and it is linked until the last step of waking it.           *)
Asleep ==
  \A x \in Threads : Somewhere(x) => Sleeps(x) /\ x \in queued /\ (x \in linked \/ Unlinked(x))

(* The spin bit is set for one thread, which queues itself or another.     *)
Spinner(t) == pc[t] \in {"enqueue", "transfer", "release"}

(* While that thread does so the queue has waiters, or gets one.           *)
SpinBit ==
  /\ kMuSpin \in mu <=> \E t \in Threads : Spinner(t)
  /\ \A t, u \in Threads : Spinner(t) /\ Spinner(u) => t = u
  /\ \A t \in Threads : pc[t] \in {"enqueue", "transfer"} => kMuWait \in mu
  /\ \A t \in Threads : pc[t] = "release" => after[t] = "cvblock"

(* What x waits for is true, or it waits for the lock only.                *)
Runs(x) == cond[x] \in truth \cup {Null}

(* A designated waker is there not only if a waiter can run, but also if   *)
(* the word says that one may.                                             *)
WakerThere ==
  /\ mu \cap {kMuWriter, kMuReader} = {}
  /\ mu \cap {kMuSpin, kMuWrWait} # {} \/ \E x \in Waiting(queue) : Runs(x)
  => kMuDesig \in mu

(* Who releases the lock to wait for a condition could not run.            *)
BlockedCannotRun ==
  \A t \in Threads : pc[t] \in {"unlock", "walk", "release"} /\ after[t] = "block" => ~Runs(t)

(* t looks for somebody to wake.                                           *)
Walker(t) == scan[t].old # Null

(* What it has found so far is right, although the queue has grown since.  *)
Searches(t) ==
  /\ pc[t] \in {"walk", "unlock", "release"} /\ HeadOf(queue) \in unlocking
  /\ scan[t].knownFalse \notin truth
  /\ \E o \in 1..Len(queue.seq), r \in 0..Len(queue.seq) :
       /\ Search(queue, kind, truth \cup {Null}, scan[t], o, r)
       /\ pc[t] = "walk" => LooksAt(queue, kind, scan[t], o, r)
       /\ pc[t] # "walk" => r = o

(* One thread searches at a time, and the others have nothing found.       *)
Walks ==
  /\ \A t, u \in Threads : Walker(t) /\ Walker(u) => t = u
  /\ \A t \in Threads : Walker(t) => Searches(t)
  /\ \A t \in Threads : ~Walker(t) =>
       scan[t].w = Null /\ scan[t].pw = Null /\ scan[t].knownFalse = Null /\ pc[t] # "walk"

(* The invariant.                                                          *)
WInv ==
  /\ ListsTyped /\ QueueGood /\ Places /\ Asleep /\ Walks
  /\ SpinBit /\ WordMatchesQueue /\ WakerThere /\ BlockedCannotRun

-----------------------------------------------------------------------------
(* What searches there are of queue Q are searches of queue R, too.        *)
Follows(Q, U, R, V) ==
  \A T, s, o, r :
    HeadOf(Q) \in U /\ Search(Q, kind, T, s, o, r) =>
      /\ HeadOf(R) \in V
      /\ \E o2 \in 1..Len(R.seq), r2 \in 0..Len(R.seq) :
           /\ Search(R, kind, T, s, o2, r2) /\ (r = o => r2 = o2)
           /\ LooksAt(Q, kind, s, o, r) => LooksAt(R, kind, s, o2, r2)

(* A thread is put on the queue.                                           *)
LEMMA EnqueuedJoins ==
  ASSUME NEW Q, Good(Q, kind), NEW U, NEW x \in Threads \ Waiting(Q), NEW c,
         NEW new \in Enqueued(Q, U, x, c)
  PROVE  /\ Good(new.queue, kind) /\ new.queue.failed = Q.failed
         /\ Waiting(new.queue) = Waiting(Q) \cup {x} /\ new.queue.seq # <<>>
         /\ new.waiters = {x} /\ Follows(Q, U, new.queue, new.unlocking)
<1>1. PICK p : LET prio == Set(priority, x, p)
                   Qn   == Enqueue(Q, x, kind, prio, HeadOf(Q) \in U)
               IN  new = [queue |-> Qn, priority |-> prio, waiters |-> {x},
                          unlocking |-> IF Q.seq = <<>> THEN U \ {x}
                           ELSE IF HeadOf(Qn) # x THEN U
                           ELSE IF HeadOf(Q) \in U THEN U \cup {x} ELSE U \ {x}]
      BY Zenon DEF Enqueued
<1> DEFINE prio == Set(priority, x, p)
           R == Enqueue(Q, x, kind, prio, HeadOf(Q) \in U)
<1>2. /\ new.queue = R /\ new.waiters = {x}
      /\ new.unlocking = IF Q.seq = <<>> THEN U \ {x}
                         ELSE IF HeadOf(R) # x THEN U
                         ELSE IF HeadOf(Q) \in U THEN U \cup {x} ELSE U \ {x}
      BY <1>1
<1> HIDE DEF prio
<1>3. LET S == Enqueue(Q, x, kind, prio, HeadOf(Q) \in U) IN
      /\ Good(S, kind) /\ Waiting(S) = Waiting(Q) \cup {x} /\ S.seq # <<>>
      /\ S.failed = Q.failed /\ S.may = Q.may \cup {x} /\ S.wake = Q.wake \ {x}
      /\ HeadOf(Q) \in U /\ Q.seq # <<>> =>
           \/ Appended(Q, S, x)
           \/ Prepended(Q, S, x) /\ kind[x] = <<"X", Null>>
      BY EnqueueKeeps
<1>4. ASSUME NEW T, NEW s, NEW o, NEW r, HeadOf(Q) \in U, Search(Q, kind, T, s, o, r)
      PROVE  /\ HeadOf(R) \in new.unlocking
             /\ \E o2 \in 1..Len(R.seq), r2 \in 0..Len(R.seq) :
                  /\ Search(R, kind, T, s, o2, r2) /\ (r = o => r2 = o2)
                  /\ LooksAt(Q, kind, s, o, r) => LooksAt(R, kind, s, o2, r2)
  <2>1. LET S == Enqueue(Q, x, kind, prio, HeadOf(Q) \in U) IN
         /\ HeadOf(S) \in {x, HeadOf(Q)}
         /\ \E o2 \in 1..Len(S.seq), r2 \in 0..Len(S.seq) :
              /\ Search(S, kind, T, s, o2, r2) /\ (r = o => r2 = o2)
              /\ LooksAt(Q, kind, s, o, r) => LooksAt(S, kind, s, o2, r2)
        BY <1>4, SearchJoined, ZenonT(30)
  <2>2. Q.seq # <<>>
    <3>1. Len(Q.seq) \in Nat /\ o \in 1..Len(Q.seq)
          BY <1>4, QueueTyped DEF Search
    <3> QED
        BY <3>1
  <2> HIDE DEF R
  <2>3. HeadOf(R) \in new.unlocking
        BY <1>2, <1>4, <2>1, <2>2 DEF R
  <2> QED
      BY <2>1, <2>3 DEF R
<1> HIDE DEF R
<1>5. Follows(Q, U, new.queue, new.unlocking)
      BY <1>2, <1>4, ZenonT(30) DEF Follows
<1> QED
    BY <1>2, <1>3, <1>5 DEF R

-----------------------------------------------------------------------------


(* A thread that sleeps while it is queued goes on sleeping, and waits for *)
(* the same.  One that is not queued any more will compete for the lock.   *)
LEMMA StepSleeps ==
  ASSUME Typed, NEW t \in Threads, Step(t), CallAtHand(t), SpinBit
  PROVE  /\ Sleeps(t) /\ t \in queued => Sleeps(t)'
         /\ Sleeps(t) => Sleeps(t)' \/ (pc'[t] = "lock" /\ t \in blocked')
         /\ Sleeps(t) /\ t \in linked => how'[t] = how[t] /\ cond'[t] = cond[t]
<1>0. (pc[t] = "release" => after[t] = "cvblock")
      BY DEF SpinBit
<1> USE DEF Typed, Sleeps, CallAtHand, LockCalls, Signalling
<1>1. CASE Lock(t)
      BY <1>1, <1>0 DEF Lock, AtCall
<1>2. CASE TryLock(t)
      BY <1>2, <1>0, TryLockGetsOrFails DEF TryLockGets, TryLockFails
<1>3. CASE LockAcquire(t)
      BY <1>3, <1>0 DEF LockAcquire, GotLock
<1>4. CASE LockJoin(t)
      BY <1>4, <1>0 DEF LockJoin, GotLock
<1>5. CASE LockOnlyWaiter(t)
      BY <1>5, <1>0 DEF LockOnlyWaiter
<1>6. CASE LockSpin(t)
      BY <1>6, <1>0 DEF LockSpin
<1>7. CASE LockEnqueue(t)
      BY <1>7, <1>0 DEF LockEnqueue
<1>8. CASE BlockCheck(t)
      BY <1>8, <1>0 DEF BlockCheck
<1>9. CASE SemWait(t)
      BY <1>9, <1>0 DEF SemWait
<1>10. CASE SemTimeout(t)
      BY <1>10, <1>0 DEF SemTimeout
<1>11. CASE TryRemove(t)
      BY <1>11, <1>0 DEF TryRemove
<1>12. CASE TimeoutSatisfied(t)
      BY <1>12, <1>0 DEF TimeoutSatisfied
<1>13. CASE Await(t)
      BY <1>13, <1>0 DEF Await, AtCall
<1>14. CASE Unlock(t)
      BY <1>14, <1>0 DEF Unlock, AtCall
<1>15. CASE UnlockFastWriter(t)
      BY <1>15, <1>0 DEF UnlockFastWriter, Leave
<1>16. CASE UnlockFastReader(t)
      BY <1>16, <1>0 DEF UnlockFastReader, Leave
<1>17. CASE UnlockNoWaiters(t)
      BY <1>17, <1>0 DEF UnlockNoWaiters, Leave, InSlow, SpinFree
<1>18. CASE UnlockNotLast(t)
      BY <1>18, <1>0 DEF UnlockNotLast, Leave, InSlow, SpinFree
<1>19. CASE UnlockWake(t)
      BY <1>19, <1>0, UnlockWakeWord DEF InSlow, SpinFree
<1>20. CASE UnlockNobody(t)
      BY <1>20, <1>0, SMTT(30) DEF UnlockNobody, Leave, InSlow, SpinFree
<1>21. CASE UnlockStartWalk(t)
      BY <1>21, <1>0, ZenonT(30) DEF UnlockStartWalk, SpinFree
<1>22. CASE UnlockWalk(t)
      BY <1>22, <1>0 DEF UnlockWalk
<1>23. CASE Wakeup(t)
      BY <1>23, <1>0 DEF Wakeup, WakeUnlink
<1>24. CASE WakeState(t)
      BY <1>24, <1>0 DEF WakeState
<1>25. CASE IncrementSynchSem(t)
      BY <1>25, <1>0, NextTargetOrReturn DEF IncrementSynchSem
<1>26. CASE Wait(t)
      BY <1>26, <1>0 DEF Wait, AtCall
<1>27. CASE WaitNotNeeded(t)
      BY <1>27, <1>0 DEF WaitNotNeeded, AtCall
<1>28. CASE UnlockCvEnqueue(t)
      BY <1>28, <1>0 DEF UnlockCvEnqueue, SpinFree
<1>29. CASE CvBlockCheck(t)
      BY <1>29, <1>0 DEF CvBlockCheck
<1>30. CASE CvRemove(t)
      BY <1>30, <1>0 DEF CvRemove
<1>31. CASE Signal(t)
      BY <1>31, <1>0, SignalOrReturn
<1>32. CASE CvWakeup(t)
      BY <1>32, <1>0 DEF CvWakeup, WakeUnlink
<1>33. CASE FerOnlyWaiter(t)
      BY <1>33, <1>0, NextTargetOrReturn DEF FerOnlyWaiter
<1>34. CASE FerSpin(t)
      BY <1>34, <1>0 DEF FerSpin
<1>35. CASE FerEnqueue(t)
      BY <1>35, <1>0, NextTargetOrReturn DEF FerEnqueue
<1> QED
    BY <1>1, <1>2, <1>3, <1>4, <1>5, <1>6, <1>7, <1>8, <1>9, <1>10,
       <1>11, <1>12, <1>13, <1>14, <1>15, <1>16, <1>17, <1>18, <1>19,
       <1>20, <1>21, <1>22, <1>23, <1>24, <1>25, <1>26, <1>27, <1>28,
       <1>29, <1>30, <1>31, <1>32, <1>33, <1>34, <1>35
       DEF Step

(* Who waits with Await or on the condition variable waits for something.  *)
LEMMA CallWaits ==
  ASSUME Typed, NEW t \in Threads, Running(t), Call(t).op \in {"await", "wait"}
  PROVE  Call(t).cond \in Conds /\ Call(t).cond # Null
<1>1. prog[t] \in Seq(Calls) /\ ip[t] \in Nat BY MutexAssumption DEF Typed
<1>2. ip[t] + 1 \in 1..Len(prog[t]) BY <1>1 DEF Running
<1>3. Call(t) \in Calls BY <1>1, <1>2 DEF Call
<1> QED BY <1>3, MutexAssumption DEF Calls

(* Who releases the lock to wait for a condition has found it false.       *)
LEMMA StepBlocked ==
  ASSUME Typed, NEW t \in Threads, Step(t), CallAtHand(t), BlockedCannotRun
  PROVE  pc'[t] \in {"unlock", "walk", "release"} /\ after'[t] = "block" => ~Runs(t)'
<1>0. pc[t] \in {"unlock", "walk", "release"} /\ after[t] = "block" => ~Runs(t)
      BY DEF BlockedCannotRun
<1> USE DEF Typed, CallAtHand, Runs
<1>1. CASE Lock(t)
      BY <1>1, <1>0 DEF Lock, AtCall
<1>2. CASE TryLock(t)
      BY <1>2, <1>0, TryLockGetsOrFails DEF TryLockGets, TryLockFails
<1>3. CASE LockAcquire(t)
      BY <1>3, <1>0 DEF LockAcquire, GotLock
<1>4. CASE LockJoin(t)
      BY <1>4, <1>0 DEF LockJoin, GotLock
<1>5. CASE LockOnlyWaiter(t)
      BY <1>5, <1>0 DEF LockOnlyWaiter
<1>6. CASE LockSpin(t)
      BY <1>6, <1>0 DEF LockSpin
<1>7. CASE LockEnqueue(t)
      BY <1>7, <1>0 DEF LockEnqueue
<1>8. CASE BlockCheck(t)
      BY <1>8, <1>0 DEF BlockCheck
<1>9. CASE SemWait(t)
      BY <1>9, <1>0 DEF SemWait
<1>10. CASE SemTimeout(t)
      BY <1>10, <1>0 DEF SemTimeout
<1>11. CASE TryRemove(t)
      BY <1>11, <1>0 DEF TryRemove
<1>12. CASE TimeoutSatisfied(t)
      BY <1>12, <1>0 DEF TimeoutSatisfied
<1>13. CASE Await(t)
      BY <1>13, <1>0, CallWaits DEF Await, AtCall
<1>14. CASE Unlock(t)
      BY <1>14, <1>0 DEF Unlock, AtCall
<1>15. CASE UnlockFastWriter(t)
      BY <1>15, <1>0 DEF UnlockFastWriter, Leave
<1>16. CASE UnlockFastReader(t)
      BY <1>16, <1>0 DEF UnlockFastReader, Leave
<1>17. CASE UnlockNoWaiters(t)
      BY <1>17, <1>0 DEF UnlockNoWaiters, Leave, InSlow, SpinFree
<1>18. CASE UnlockNotLast(t)
      BY <1>18, <1>0 DEF UnlockNotLast, Leave, InSlow, SpinFree
<1>19. CASE UnlockWake(t)
      BY <1>19, <1>0, UnlockWakeWord DEF InSlow, SpinFree
<1>20. CASE UnlockNobody(t)
      BY <1>20, <1>0, SMTT(30) DEF UnlockNobody, Leave, InSlow, SpinFree
<1>21. CASE UnlockStartWalk(t)
      BY <1>21, <1>0, ZenonT(30) DEF UnlockStartWalk, SpinFree
<1>22. CASE UnlockWalk(t)
      BY <1>22, <1>0 DEF UnlockWalk
<1>23. CASE Wakeup(t)
      BY <1>23, <1>0 DEF Wakeup, WakeUnlink
<1>24. CASE WakeState(t)
      BY <1>24, <1>0 DEF WakeState
<1>25. CASE IncrementSynchSem(t)
      BY <1>25, <1>0, NextTargetOrReturn DEF IncrementSynchSem
<1>26. CASE Wait(t)
      BY <1>26, <1>0 DEF Wait, AtCall
<1>27. CASE WaitNotNeeded(t)
      BY <1>27, <1>0 DEF WaitNotNeeded, AtCall
<1>28. CASE UnlockCvEnqueue(t)
      BY <1>28, <1>0 DEF UnlockCvEnqueue, SpinFree
<1>29. CASE CvBlockCheck(t)
      BY <1>29, <1>0 DEF CvBlockCheck
<1>30. CASE CvRemove(t)
      BY <1>30, <1>0 DEF CvRemove
<1>31. CASE Signal(t)
      BY <1>31, <1>0, SignalOrReturn
<1>32. CASE CvWakeup(t)
      BY <1>32, <1>0 DEF CvWakeup, WakeUnlink
<1>33. CASE FerOnlyWaiter(t)
      BY <1>33, <1>0, NextTargetOrReturn DEF FerOnlyWaiter
<1>34. CASE FerSpin(t)
      BY <1>34, <1>0 DEF FerSpin
<1>35. CASE FerEnqueue(t)
      BY <1>35, <1>0, NextTargetOrReturn DEF FerEnqueue
<1> QED
    BY <1>1, <1>2, <1>3, <1>4, <1>5, <1>6, <1>7, <1>8, <1>9, <1>10,
       <1>11, <1>12, <1>13, <1>14, <1>15, <1>16, <1>17, <1>18, <1>19,
       <1>20, <1>21, <1>22, <1>23, <1>24, <1>25, <1>26, <1>27, <1>28,
       <1>29, <1>30, <1>31, <1>32, <1>33, <1>34, <1>35
       DEF Step

(* Only a writer that holds the lock changes the data.                     *)
LEMMA StepTruth ==
  ASSUME Typed, NEW t \in Threads, Step(t), CallAtHand(t), truth \subseteq Conds
  PROVE  /\ truth' \subseteq Conds
         /\ truth' = truth \/ (pc[t] = "held" /\ how[t] = "X" /\ pc'[t] = "unlock")
<1> USE DEF Typed
<1>1. CASE Lock(t)
      BY <1>1 DEF Lock, AtCall
<1>2. CASE TryLock(t)
      BY <1>2, TryLockGetsOrFails DEF TryLockGets, TryLockFails
<1>3. CASE LockAcquire(t)
      BY <1>3 DEF LockAcquire, GotLock
<1>4. CASE LockJoin(t)
      BY <1>4 DEF LockJoin, GotLock
<1>5. CASE LockOnlyWaiter(t)
      BY <1>5 DEF LockOnlyWaiter
<1>6. CASE LockSpin(t)
      BY <1>6 DEF LockSpin
<1>7. CASE LockEnqueue(t)
      BY <1>7 DEF LockEnqueue
<1>8. CASE BlockCheck(t)
      BY <1>8 DEF BlockCheck
<1>9. CASE SemWait(t)
      BY <1>9 DEF SemWait
<1>10. CASE SemTimeout(t)
      BY <1>10 DEF SemTimeout
<1>11. CASE TryRemove(t)
      BY <1>11 DEF TryRemove
<1>12. CASE TimeoutSatisfied(t)
      BY <1>12 DEF TimeoutSatisfied
<1>13. CASE Await(t)
      BY <1>13 DEF Await, AtCall
<1>14. CASE Unlock(t)
      BY <1>14, CallTyped DEF Unlock, AtCall
<1>15. CASE UnlockFastWriter(t)
      BY <1>15 DEF UnlockFastWriter, Leave
<1>16. CASE UnlockFastReader(t)
      BY <1>16 DEF UnlockFastReader, Leave
<1>17. CASE UnlockNoWaiters(t)
      BY <1>17 DEF UnlockNoWaiters, Leave, InSlow, SpinFree
<1>18. CASE UnlockNotLast(t)
      BY <1>18 DEF UnlockNotLast, Leave, InSlow, SpinFree
<1>19. CASE UnlockWake(t)
      BY <1>19, UnlockWakeWord DEF InSlow, SpinFree
<1>20. CASE UnlockNobody(t)
      BY <1>20, SMTT(30) DEF UnlockNobody, Leave, InSlow, SpinFree
<1>21. CASE UnlockStartWalk(t)
      BY <1>21, ZenonT(30) DEF UnlockStartWalk, SpinFree
<1>22. CASE UnlockWalk(t)
      BY <1>22 DEF UnlockWalk
<1>23. CASE Wakeup(t)
      BY <1>23 DEF Wakeup, WakeUnlink
<1>24. CASE WakeState(t)
      BY <1>24 DEF WakeState
<1>25. CASE IncrementSynchSem(t)
      BY <1>25, NextTargetOrReturn DEF IncrementSynchSem
<1>26. CASE Wait(t)
      BY <1>26 DEF Wait, AtCall
<1>27. CASE WaitNotNeeded(t)
      BY <1>27 DEF WaitNotNeeded, AtCall
<1>28. CASE UnlockCvEnqueue(t)
      BY <1>28 DEF UnlockCvEnqueue, SpinFree
<1>29. CASE CvBlockCheck(t)
      BY <1>29 DEF CvBlockCheck
<1>30. CASE CvRemove(t)
      BY <1>30 DEF CvRemove
<1>31. CASE Signal(t)
      BY <1>31, SignalOrReturn
<1>32. CASE CvWakeup(t)
      BY <1>32 DEF CvWakeup, WakeUnlink
<1>33. CASE FerOnlyWaiter(t)
      BY <1>33, NextTargetOrReturn DEF FerOnlyWaiter
<1>34. CASE FerSpin(t)
      BY <1>34 DEF FerSpin
<1>35. CASE FerEnqueue(t)
      BY <1>35, NextTargetOrReturn DEF FerEnqueue
<1> QED
    BY <1>1, <1>2, <1>3, <1>4, <1>5, <1>6, <1>7, <1>8, <1>9, <1>10,
       <1>11, <1>12, <1>13, <1>14, <1>15, <1>16, <1>17, <1>18, <1>19,
       <1>20, <1>21, <1>22, <1>23, <1>24, <1>25, <1>26, <1>27, <1>28,
       <1>29, <1>30, <1>31, <1>32, <1>33, <1>34, <1>35
       DEF Step

-----------------------------------------------------------------------------
(* Who holds the lock, and when it is nobody else.                         *)
LEMMA HoldersAre ==
  ASSUME Typed, WordMatchesHolders, NEW t \in Threads
  PROVE  /\ readers \in Nat /\ (kMuReader \in mu <=> readers > 0)
         /\ kMuReader \in mu => kMuWriter \notin mu
         /\ Holds(t) => kMuWriter \in mu \/ kMuReader \in mu
         /\ Holds(t) /\ (how[t] = "X" \/ kMuWriter \in mu \/ readers = 1) =>
              \A u \in Threads : Holds(u) => u = t
<1>1. /\ readers \in Nat /\ (kMuReader \in mu <=> readers > 0)
      /\ kMuReader \in mu => kMuWriter \notin mu
      /\ Cardinality(Holders("S")) = readers
      BY DEF Typed, WordMatchesHolders
<1>2. \A u \in Threads : Holds(u) => u \in Holders("X") \/ u \in Holders("S")
      BY DEF Typed, Holders
<1>3. Holds(t) => kMuWriter \in mu \/ kMuReader \in mu
      BY <1>2, WordSays
<1>4. ASSUME Holds(t), how[t] = "X" \/ kMuWriter \in mu, NEW u \in Threads, Holds(u) PROVE u = t
  <2>1. Holders("X") # {}
        BY <1>4, WordSays DEF Holders
  <2>2. Holders("S") = {} /\ \A v, w \in Holders("X") : v = w
        BY <2>1, WordSays
  <2> QED
      BY <1>2, <1>4, <2>2
<1>5. ASSUME Holds(t), readers = 1, NEW u \in Threads, Holds(u) PROVE u = t
  <2>1. Holders("S") # {} /\ Holders("X") = {}
        BY <1>1, <1>5, WordSays
  <2>2. \E v : Holders("S") = {v}
        BY <1>1, <1>5, HoldersFinite, FS_Singleton
  <2> QED
      BY <1>2, <1>5, <2>1, <2>2
<1> QED
    BY <1>1, <1>3, <1>4, <1>5

(* The spin bit is taken by t, given up by t, or none of t's business.     *)
SpinElsewhere(t) ==
  /\ kMuSpin \in mu' <=> kMuSpin \in mu
  /\ ~Spinner(t) /\ ~Spinner(t)'
  /\ kMuSpin \in mu /\ kMuWait \in mu => kMuWait \in mu'

(* It is taken.                                                            *)
SpinTaken(t) ==
  /\ kMuSpin \notin mu /\ kMuSpin \in mu' /\ Spinner(t)'
  /\ pc'[t] \in {"enqueue", "transfer"} => kMuWait \in mu'
  /\ pc'[t] = "release" => after'[t] = "cvblock"

(* It is given up, or nobody had it.                                       *)
SpinGiven(t) ==
  kMuSpin \notin mu' /\ ~Spinner(t)' /\ (Spinner(t) \/ kMuSpin \notin mu)

(* Each of these keeps the spin bit with one thread.                       *)
LEMMA SpinKeeps ==
  ASSUME SpinBit, NEW t \in Threads, Alone(t),
         SpinElsewhere(t) \/ SpinTaken(t) \/ SpinGiven(t)
  PROVE  SpinBit'
<1>1. \A u \in Threads \ {t} :
        (Spinner(u)' <=> Spinner(u)) /\ pc'[u] = pc[u] /\ after'[u] = after[u]
      BY DEF Alone, Spinner
<1>2. /\ kMuSpin \in mu <=> \E u \in Threads : Spinner(u)
      /\ \A u, v \in Threads : Spinner(u) /\ Spinner(v) => u = v
      /\ \A u \in Threads : pc[u] \in {"enqueue", "transfer"} => kMuWait \in mu
      /\ \A u \in Threads : pc[u] = "release" => after[u] = "cvblock"
      BY DEF SpinBit
<1>3. \A u \in Threads : pc[u] \in {"enqueue", "transfer"} => Spinner(u)
      BY DEF Spinner
<1>4. \A u \in Threads : pc'[u] \in {"enqueue", "transfer", "release"} <=> Spinner(u)'
      BY DEF Spinner
<1>5. CASE SpinElsewhere(t)
  <2>1. kMuSpin \in mu' <=> \E u \in Threads : Spinner(u)'
        BY <1>1, <1>2, <1>5 DEF SpinElsewhere
  <2>2. \A u, v \in Threads : Spinner(u)' /\ Spinner(v)' => u = v
        BY <1>1, <1>2, <1>5 DEF SpinElsewhere
  <2>3. \A u \in Threads : pc'[u] \in {"enqueue", "transfer"} => kMuWait \in mu'
        BY <1>1, <1>2, <1>3, <1>4, <1>5 DEF SpinElsewhere
  <2>4. \A u \in Threads : pc'[u] = "release" => after'[u] = "cvblock"
        BY <1>1, <1>2, <1>4, <1>5 DEF SpinElsewhere
  <2> QED
      BY <2>1, <2>2, <2>3, <2>4 DEF SpinBit
<1>6. CASE SpinTaken(t)
  <2>1. \A u \in Threads : Spinner(u)' <=> u = t
        BY <1>1, <1>2, <1>6 DEF SpinTaken
  <2>2. \A u \in Threads : pc'[u] \in {"enqueue", "transfer"} => kMuWait \in mu'
        BY <1>4, <1>6, <2>1 DEF SpinTaken
  <2>3. \A u \in Threads : pc'[u] = "release" => after'[u] = "cvblock"
        BY <1>4, <1>6, <2>1 DEF SpinTaken
  <2> QED
      BY <1>6, <2>1, <2>2, <2>3 DEF SpinBit, SpinTaken
<1>7. CASE SpinGiven(t)
  <2>1. \A u \in Threads : ~Spinner(u)'
        BY <1>1, <1>2, <1>7 DEF SpinGiven
  <2> QED
      BY <1>4, <1>7, <2>1 DEF SpinBit, SpinGiven
<1> QED
    BY <1>5, <1>6, <1>7

(* Every step does one of these.                                           *)
LEMMA StepSpin ==
  ASSUME Typed, NEW t \in Threads, Step(t), CallAtHand(t), SpinBit, Moves(t)
  PROVE  SpinBit'
<1>0. Alone(t) /\ (kMuSpin \notin mu => ~Spinner(t))
      BY DEF Moves, SpinBit
<1> USE SpinKeeps DEF Typed, Spinner, CallAtHand, Has, SpinElsewhere, SpinTaken, SpinGiven
<1>1. CASE Lock(t)
      BY <1>1, <1>0 DEF Lock, AtCall
<1>2. CASE TryLock(t)
      BY <1>2, <1>0, TryLockGetsOrFails, SMTT(30) DEF TryLockGets, TryLockFails, Held
<1>3. CASE LockAcquire(t)
      BY <1>3, <1>0 DEF LockAcquire, GotLock, ZapDesigWaker, Held
<1>4. CASE LockJoin(t)
      BY <1>4, <1>0 DEF LockJoin, GotLock, ZapDesigWaker
<1>5. CASE LockOnlyWaiter(t)
      BY <1>5, <1>0 DEF LockOnlyWaiter, ZapDesigWaker, WrWait
<1>6. CASE LockSpin(t)
      BY <1>6, <1>0 DEF LockSpin, ZapDesigWaker
<1>7. CASE LockEnqueue(t)
      BY <1>7, <1>0 DEF LockEnqueue
<1>8. CASE BlockCheck(t)
      BY <1>8, <1>0 DEF BlockCheck
<1>9. CASE SemWait(t)
      BY <1>9, <1>0 DEF SemWait
<1>10. CASE SemTimeout(t)
      BY <1>10, <1>0 DEF SemTimeout
<1>11. CASE TryRemove(t)
      BY <1>11, <1>0 DEF TryRemove, WaitBits
<1>12. CASE TimeoutSatisfied(t)
      BY <1>12, <1>0 DEF TimeoutSatisfied
<1>13. CASE Await(t)
      BY <1>13, <1>0 DEF Await, AtCall
<1>14. CASE Unlock(t)
      BY <1>14, <1>0 DEF Unlock, AtCall
<1>15. CASE UnlockFastWriter(t)
      BY <1>15, <1>0 DEF UnlockFastWriter, Leave
<1>16. CASE UnlockFastReader(t)
      BY <1>16, <1>0 DEF UnlockFastReader, Leave, HolderBits
<1>17. CASE UnlockNoWaiters(t)
      BY <1>17, <1>0 DEF UnlockNoWaiters, Leave, HolderBits, InSlow, SpinFree
<1>18. CASE UnlockNotLast(t)
      BY <1>18, <1>0 DEF UnlockNotLast, Leave, InSlow, SpinFree
<1>19. CASE UnlockWake(t)
      BY <1>19, <1>0, UnlockWakeWord DEF InSlow, SpinFree
<1>20. CASE UnlockNobody(t)
      BY <1>20, <1>0, SMTT(30) DEF UnlockNobody, Leave, InSlow, SpinFree
<1>21. CASE UnlockStartWalk(t)
      BY <1>21, <1>0, ZenonT(30) DEF UnlockStartWalk, SpinFree
<1>22. CASE UnlockWalk(t)
      BY <1>22, <1>0 DEF UnlockWalk
<1>23. CASE Wakeup(t)
      BY <1>23, <1>0 DEF Wakeup, WakeUnlink
<1>24. CASE WakeState(t)
      BY <1>24, <1>0 DEF WakeState
<1>25. CASE IncrementSynchSem(t)
      BY <1>25, <1>0, NextTargetOrReturn DEF IncrementSynchSem
<1>26. CASE Wait(t)
      BY <1>26, <1>0 DEF Wait, AtCall
<1>27. CASE WaitNotNeeded(t)
      BY <1>27, <1>0 DEF WaitNotNeeded, AtCall
<1>28. CASE UnlockCvEnqueue(t)
      BY <1>28, <1>0 DEF UnlockCvEnqueue, SpinFree
<1>29. CASE CvBlockCheck(t)
      BY <1>29, <1>0 DEF CvBlockCheck
<1>30. CASE CvRemove(t)
      BY <1>30, <1>0 DEF CvRemove
<1>31. CASE Signal(t)
      BY <1>31, <1>0, SignalOrReturn
<1>32. CASE CvWakeup(t)
      BY <1>32, <1>0 DEF CvWakeup, WakeUnlink
<1>33. CASE FerOnlyWaiter(t)
      BY <1>33, <1>0, NextTargetOrReturn DEF FerOnlyWaiter
<1>34. CASE FerSpin(t)
      BY <1>34, <1>0 DEF FerSpin
<1>35. CASE FerEnqueue(t)
      BY <1>35, <1>0, NextTargetOrReturn DEF FerEnqueue
<1> QED
    BY <1>1, <1>2, <1>3, <1>4, <1>5, <1>6, <1>7, <1>8, <1>9, <1>10,
       <1>11, <1>12, <1>13, <1>14, <1>15, <1>16, <1>17, <1>18, <1>19,
       <1>20, <1>21, <1>22, <1>23, <1>24, <1>25, <1>26, <1>27, <1>28,
       <1>29, <1>30, <1>31, <1>32, <1>33, <1>34, <1>35
       DEF Step

-----------------------------------------------------------------------------
(* The queue is empty if nobody waits.                                     *)
LEMMA EmptyIs ==
  ASSUME NEW Q, NEW knd, Good(Q, knd)
  PROVE  (Q.seq = <<>> <=> Waiting(Q) = {}) /\ Waiting(Q) \subseteq Threads
<1>1. /\ Len(Q.seq) \in Nat /\ DOMAIN Q.seq = 1..Len(Q.seq) /\ Q \in Queues
      /\ \A i \in 1..Len(Q.seq) : Q.seq[i] \in Threads
      BY QueueTyped
<1>2. Q.seq = <<>> => Waiting(Q) = {}
      BY <1>1 DEF Waiting
<1>3. Q.seq # <<>> => HeadOf(Q) \in Waiting(Q)
      BY <1>1, HeadIs
<1> QED
    BY <1>1, <1>2, <1>3 DEF Waiting

(* The threads S join those on queue Q.                                    *)
Joins(S, Q, U) ==
  /\ Good(queue', kind) /\ queue'.failed = {}
  /\ Waiting(queue') = Waiting(Q) \cup S
  /\ linked' = linked \cup S /\ queued' = queued \cup S
  /\ Follows(Q, U, queue', unlocking')

(* A queue that does not change.                                           *)
LEMMA FollowsItself ==
  ASSUME NEW Q, NEW U, Good(Q, kind) PROVE Follows(Q, U, Q, U)
<1>1. Len(Q.seq) \in Nat
      BY QueueTyped
<1> SUFFICES ASSUME NEW T, NEW s, NEW o, NEW r, HeadOf(Q) \in U, Search(Q, kind, T, s, o, r)
             PROVE  \E o2 \in 1..Len(Q.seq), r2 \in 0..Len(Q.seq) :
                      /\ Search(Q, kind, T, s, o2, r2) /\ (r = o => r2 = o2)
                      /\ LooksAt(Q, kind, s, o, r) => LooksAt(Q, kind, s, o2, r2)
    BY Zenon DEF Follows
<1>2. o \in 1..Len(Q.seq) /\ r \in 0..Len(Q.seq)
      BY <1>1 DEF Search
<1> QED
    BY <1>2

(* Enqueue by a thread that queues itself, or that Fer queues.             *)
LEMMA EnqueueJoins ==
  ASSUME QueueGood, NEW x \in Threads \ Waiting(queue), NEW c, EnqueueOn(x, c)
  PROVE  Joins({x}, queue, unlocking)
<1>1. PICK new \in Enqueued(queue, unlocking, x, c) : Store(new)
      BY DEF EnqueueOn
<1>2. /\ Good(new.queue, kind) /\ new.queue.failed = queue.failed
      /\ Waiting(new.queue) = Waiting(queue) \cup {x}
      /\ new.waiters = {x} /\ Follows(queue, unlocking, new.queue, new.unlocking)
      BY EnqueuedJoins DEF QueueGood
<1> QED
    BY <1>1, <1>2 DEF Store, Joins, QueueGood

(* The unlocker that waits for a condition joins.                          *)
Requeued(t) == IF after[t] = "block" THEN {t} ELSE {}

(* It does so with Enqueue.                                                *)
LEMMA RequeueJoins ==
  ASSUME NEW Q, Good(Q, kind), Q.failed = {}, NEW t \in Threads, NEW U,
         after[t] = "block" => t \notin Waiting(Q),
         NEW new \in Requeue(t, Q, U)
  PROVE  /\ Good(new.queue, kind) /\ new.queue.failed = {}
         /\ Waiting(new.queue) = Waiting(Q) \cup Requeued(t) /\ new.waiters = Requeued(t)
         /\ Follows(Q, U, new.queue, new.unlocking)
<1>1. CASE after[t] = "block"
  <2>1. new \in Enqueued(Q, U, t, t)
        BY <1>1 DEF Requeue
  <2>3. t \in Threads \ Waiting(Q) /\ Good(Q, kind)
        BY <1>1
  <2>2. /\ Good(new.queue, kind) /\ new.queue.failed = Q.failed
        /\ Waiting(new.queue) = Waiting(Q) \cup {t}
        /\ new.waiters = {t} /\ Follows(Q, U, new.queue, new.unlocking)
    <3>1. /\ Good(new.queue, kind) /\ new.queue.failed = Q.failed
          /\ Waiting(new.queue) = Waiting(Q) \cup {t} /\ new.queue.seq # <<>>
          /\ new.waiters = {t} /\ Follows(Q, U, new.queue, new.unlocking)
          BY <2>1, <2>3, EnqueuedJoins
    <3> QED
        BY <3>1
  <2> QED
      BY <1>1, <2>2 DEF Requeued
<1>2. CASE after[t] # "block"
  <2>1. new = [queue |-> Q, unlocking |-> U, priority |-> priority, waiters |-> {}]
        BY <1>2 DEF Requeue
  <2>2. new.queue = Q /\ new.unlocking = U /\ new.waiters = {}
        BY <2>1
  <2>3. Follows(Q, U, new.queue, new.unlocking)
        BY <2>2, FollowsItself
  <2> QED
      BY <1>2, <2>2, <2>3 DEF Requeued
<1> QED
    BY <1>1, <1>2

(* The same of the state after the step.                                   *)
LEMMA StoreJoins ==
  ASSUME NEW Q, Good(Q, kind), Q.failed = {}, NEW t \in Threads, NEW U,
         after[t] = "block" => t \notin Waiting(Q),
         NEW new \in Requeue(t, Q, U), Store(new)
  PROVE  Joins(Requeued(t), Q, U)
<1>1. /\ Good(new.queue, kind) /\ new.queue.failed = {}
      /\ Waiting(new.queue) = Waiting(Q) \cup Requeued(t) /\ new.waiters = Requeued(t)
      /\ Follows(Q, U, new.queue, new.unlocking)
      BY RequeueJoins
<1> QED
    BY <1>1 DEF Store, Joins

(* What an unlocker has found is still so when the waiter at which its     *)
(* search ended may skip again.                                            *)
LEMMA ReopenedIs ==
  ASSUME QueueGood, Walks, NEW t \in Threads, pc[t] # "walk", queue.seq # <<>>
  PROVE  LET R == Reopened(t) IN
         /\ Good(R, kind) /\ R.failed = {} /\ R.seq = queue.seq /\ R.wake = queue.wake
         /\ Waiting(R) = Waiting(queue) /\ HeadOf(R) = HeadOf(queue)
         /\ Walker(t) => \E o \in 1..Len(queue.seq) :
              /\ scan[t].old = queue.seq[o] /\ scan[t].knownFalse \notin truth
              /\ Easy(queue, kind) \/ FoundSoFar(R, kind, truth \cup {Null}, scan[t], o)
         /\ ~Walker(t) => R = queue
<1> DEFINE old == scan[t].old
           T == truth \cup {Null}
<1>0. Good(queue, kind) /\ queue.failed = {}
      BY DEF QueueGood
<1>1. CASE old = Null
  <2>1. Reopened(t) = queue
        BY <1>1 DEF Reopened, Check
  <2> QED
      BY <1>0, <1>1, <2>1 DEF Walker
<1>2. CASE old # Null
  <2>1. Searches(t)
        BY <1>2 DEF Walks, Walker
  <2>2. PICK o \in 1..Len(queue.seq), r \in 0..Len(queue.seq) :
          Search(queue, kind, T, scan[t], o, r) /\ r = o
        BY <2>1 DEF Searches
  <2>3. /\ old = queue.seq[o] /\ queue.skip[old] = Null /\ old \notin queue.may
        /\ Easy(queue, kind) \/ FoundSoFar(queue, kind, T, scan[t], o)
        /\ HeadOf(queue) \in unlocking
        BY <2>1, <2>2 DEF Search, Searches
  <2>4. Reopened(t) = Reopen(queue, kind, old)
        BY <1>2, <2>3 DEF Reopened, Check, Reopen
  <2> DEFINE R == Reopen(queue, kind, old)
  <2>5. /\ Good(R, kind) /\ R.seq = queue.seq /\ R.wake = queue.wake /\ R.failed = queue.failed
        /\ Waiting(R) = Waiting(queue) /\ HeadOf(R) = HeadOf(queue)
        /\ \A y \in Threads : R.skip[y] = queue.skip[y] \/ y = queue.seq[o]
    <3>1. LET S == Reopen(queue, kind, queue.seq[o]) IN
          /\ Good(S, kind) /\ S.seq = queue.seq /\ S.wake = queue.wake /\ S.failed = queue.failed
          /\ Waiting(S) = Waiting(queue) /\ HeadOf(S) = HeadOf(queue)
          /\ \A y \in Threads : S.skip[y] = queue.skip[y] \/ y = queue.seq[o]
          BY <1>0, <2>3, ReopenKeeps
    <3> QED
        BY <2>3, <3>1
  <2>6. R \in Queues /\ o \in 0..o
    <3>1. R \in Queues
          BY <2>5 DEF Good
    <3>2. Len(queue.seq) \in Nat
          BY <1>0, QueueTyped
    <3> QED
        BY <3>1, <3>2
  <2> HIDE DEF R
  <2>7. FoundSoFar(queue, kind, T, scan[t], o) => FoundSoFar(R, kind, T, scan[t], o)
        BY <1>0, <2>3, <2>5, <2>6, ReopenFinds
  <2>8. scan[t].knownFalse \notin truth
        BY <2>1 DEF Searches
  <2>9. R.failed = {}
        BY <1>0, <2>5
  <2>10. \E p \in 1..Len(queue.seq) :
           /\ scan[t].old = queue.seq[p] /\ scan[t].knownFalse \notin truth
           /\ Easy(queue, kind) \/ FoundSoFar(R, kind, T, scan[t], p)
        BY <2>3, <2>7, <2>8
  <2>11. Reopened(t) = R
         BY <2>4 DEF R
  <2> QED
      BY <1>2, <2>5, <2>9, <2>10, <2>11 DEF Walker
<1> QED
    BY <1>1, <1>2

(* kind, for a thread.                                                     *)
LEMMA KindIs ==
  ASSUME Typed
  PROVE  \A x \in Threads : kind[x] = <<how[x], cond[x]>> /\ kind[x][1] = how[x]
                            /\ kind[x][2] = cond[x] /\ kind[x][1] \in {"X", "S"}
BY DEF kind, Typed

(* The waiters that are woken leave the queue for the list of t.           *)
LEMMA WakeTakes ==
  ASSUME Typed, QueueGood, Walks, WordMatchesQueue, NEW t \in Threads, UnlockWake(t),
         after[t] = "block" => t \notin Waiting(queue)
  PROVE  \E list \in Seq(Threads), b \in SUBSET {kMuWrWait} :
           /\ list # <<>> /\ Distinct(list) /\ Elems(list) \subseteq Waiting(queue)
           /\ scan' = [scan EXCEPT ![t] = [NoScan EXCEPT !.wl = list]]
           /\ Good(queue', kind) /\ queue'.failed = {}
           /\ Waiting(queue') = (Waiting(queue) \ Elems(list)) \cup Requeued(t)
           /\ linked' = linked \cup Requeued(t) /\ queued' = queued \cup Requeued(t)
           /\ mu' = {kMuDesig} \cup WaitBits(queue', b)
<1> DEFINE front == queue.seq[1]
           w  == IF EasyWriter THEN front ELSE scan[t].w
           pw == IF EasyWriter \/ scan[t].pw = Null THEN HeadOf(queue) ELSE scan[t].pw
           wrWait == IF EasyWriter \/ scan[t].wrWait THEN {kMuWrWait} ELSE {}
           R == Reopened(t)
           Q0 == [R EXCEPT !.wake = IF EasyWriter THEN @ \cup {front} ELSE @]
           Q1 == Check(Q0, NextOf(Q0, pw) = w, "pw not w's predecessor")
           T == truth \cup {Null}
<1>2. InSlow(t) /\ LastHolder /\ (EasyWriter \/ Found(t))
      BY Zenon DEF UnlockWake
<1>3. queue.seq # <<>> /\ pc[t] # "walk" /\ Good(queue, kind) /\ queue.failed = {}
      BY <1>2 DEF LastHolder, Has, WordMatchesQueue, InSlow, SpinFree, QueueGood
<1>4. /\ Good(R, kind) /\ R.failed = {} /\ R.seq = queue.seq /\ R.wake = queue.wake
      /\ Waiting(R) = Waiting(queue) /\ HeadOf(R) = HeadOf(queue)
      /\ Walker(t) => \E o \in 1..Len(queue.seq) :
              /\ scan[t].old = queue.seq[o] /\ scan[t].knownFalse \notin truth
              /\ Easy(queue, kind) \/ FoundSoFar(R, kind, truth \cup {Null}, scan[t], o)
      BY <1>3, ReopenedIs
<1>5. Easy(queue, kind) <=> EasyWriter
      BY <1>3 DEF Easy, EasyWriter
<1>6. /\ Len(queue.seq) \in Nat /\ 1 \in 1..Len(queue.seq) /\ front \in Threads /\ R \in Queues
      /\ Null \notin Threads /\ HeadOf(queue) = queue.seq[Len(queue.seq)]
      /\ Len(queue.seq) \in 1..Len(queue.seq) /\ R.seq = queue.seq
  <2>1. Len(queue.seq) \in Nat /\ Len(queue.seq) > 0 /\ HeadOf(queue) = queue.seq[Len(queue.seq)]
        BY <1>3, QueueTyped, HeadIs
  <2>2. 1 \in 1..Len(queue.seq) /\ Len(queue.seq) \in 1..Len(queue.seq)
        BY <2>1
  <2>3. Null \notin Threads /\ front \in Threads
        BY <1>3, <2>2, QueueTyped
  <2>4. R \in Queues /\ R.seq = queue.seq
        BY <1>4, QueueTyped
  <2> QED
      BY <2>1, <2>2, <2>3, <2>4
<1>7. \A x \in Threads : kind[x][1] = how[x] /\ kind[x][1] \in {"X", "S"}
      BY KindIs
<1>8. /\ Q1 = Q0 /\ Waiting(Q0) = Waiting(queue) /\ Q0.failed = {}
      /\ Woken(Q0, kind, DequeueAllWakeable(Q0, pw, kind))
  <2>1. CASE EasyWriter
    <3>1. Q0 = [R EXCEPT !.wake = @ \cup {front}] /\ pw = HeadOf(queue) /\ w = front
          BY <2>1
    <3> HIDE DEF Q0, R, front, pw, w
    <3>2. /\ Q0 \in Queues /\ Q0.seq = queue.seq /\ Q0.skip = R.skip /\ Q0.failed = {}
          /\ front \in Q0.wake
          BY <1>4, <1>6, <3>1 DEF Queues
    <3>3. Good(Q0, kind)
          BY <1>4, <3>2, OthersSkip
    <3>4. Easy(Q0, kind) /\ Q0.seq[1] \in Q0.wake /\ HeadOf(Q0) = HeadOf(queue)
          /\ Waiting(Q0) = Waiting(queue)
          BY <1>5, <2>1, <3>2 DEF Easy, HeadOf, Waiting, front
    <3>5. /\ NextOf(Q0, HeadOf(Q0)) = Q0.seq[1]
          /\ Woken(Q0, kind, DequeueAllWakeable(Q0, HeadOf(Q0), kind))
          BY <3>3, <3>4, EasyWakes
    <3>6. NextOf(Q0, pw) = w
          BY <3>1, <3>2, <3>4, <3>5 DEF front
    <3>7. Q1 = Q0
          BY <3>6 DEF Check
    <3> QED
        BY <3>1, <3>2, <3>4, <3>5, <3>7
  <2>2. CASE ~EasyWriter
    <3>1. Found(t) /\ Walker(t)
          BY <1>2, <2>2 DEF Found, Walks, Walker
    <3>2. Q0 = R /\ w = scan[t].w /\ pw = IF scan[t].pw = Null THEN HeadOf(queue) ELSE scan[t].pw
      <4> HIDE DEF R
      <4>1. [R EXCEPT !.wake = R.wake] = R
            BY <1>6 DEF Queues
      <4> QED
          BY <2>2, <4>1
    <3>3. PICK o \in 1..Len(queue.seq) :
            scan[t].old = queue.seq[o] /\ FoundSoFar(R, kind, T, scan[t], o)
          BY <1>4, <1>5, <2>2, <3>1
    <3>4. PICK q \in 1..o : FirstFound(R, kind, T, scan[t], q, o)
          BY <3>1, <3>3 DEF FoundSoFar, Found
    <3> HIDE DEF Q0, R, pw, w, T
    <3>5. q \in 1..Len(R.seq) /\ scan[t].w = R.seq[q] /\ scan[t].w \in Threads
      <4>1. q \in 1..Len(R.seq)
        <5> HIDE DEF R
        <5>1. Len(R.seq) = Len(queue.seq)
              BY <1>6
        <5> QED
            BY <1>6, <5>1
      <4> QED
          BY <1>4, <3>4, <4>1, QueueTyped DEF FirstFound
    <3>6. kind[scan[t].w][1] # "X" => o = Len(R.seq)
      <4>1. kind[scan[t].w][1] # "X" => scan[t].old = queue.seq[Len(queue.seq)]
            BY <1>6, <1>7, <3>1, <3>5 DEF Found, Searched
      <4>2. Len(queue.seq) \in 1..Len(queue.seq)
            BY <1>6
      <4>3. R.seq = queue.seq
            BY <1>6
      <4> QED
          BY <1>3, <3>3, <4>3, <4>1, <4>2, QueueTyped
    <3>7. pw = IF scan[t].pw = Null THEN HeadOf(R) ELSE scan[t].pw
          BY <1>4, <3>2
    <3>8. NextOf(R, pw) = scan[t].w /\ Woken(R, kind, DequeueAllWakeable(R, pw, kind))
      <4>1. Good(R, kind) /\ \A y \in Threads : kind[y][1] \in {"X", "S"}
            BY <1>4, <1>7
      <4> QED
          BY <3>4, <3>5, <3>6, <3>7, <4>1, FoundWakes
    <3>9. Q1 = Q0
          BY <3>2, <3>8 DEF Check
    <3> QED
        BY <1>4, <3>2, <3>8, <3>9
  <2> QED
      BY <2>1, <2>2
<1> HIDE DEF Q0, Q1, R, pw, w, T, front
<1>1. PICK taken \in {DequeueAllWakeable(Q1, pw, kind)} :
        \E new \in Requeue(t, Check(taken.queue, taken.list # <<>>,
                                    "unexpected empty wake list"), unlocking) :
           /\ Store([new EXCEPT !.unlocking = @ \ {HeadOf(new.queue)}])
           /\ mu' = {kMuDesig} \cup WaitBits(new.queue, wrWait)
           /\ scan' = Set(scan, t, [NoScan EXCEPT !.wl = taken.list])
      BY Zenon DEF UnlockWake, Q0, Q1, R, pw, w, front
<1>9. taken = DequeueAllWakeable(Q0, pw, kind)
      BY <1>1, <1>8
<1>10. /\ Good(taken.queue, kind) /\ taken.queue.failed = {}
       /\ taken.list \in Seq(Threads) /\ taken.list # <<>> /\ Distinct(taken.list)
       /\ Elems(taken.list) \subseteq Waiting(queue)
       /\ Waiting(taken.queue) = Waiting(queue) \ Elems(taken.list)
       BY <1>8, <1>9 DEF Woken
<1>11. Check(taken.queue, taken.list # <<>>, "unexpected empty wake list") = taken.queue
       BY <1>10 DEF Check
<1>12. PICK new \in Requeue(t, taken.queue, unlocking) :
           /\ Store([new EXCEPT !.unlocking = @ \ {HeadOf(new.queue)}])
           /\ mu' = {kMuDesig} \cup WaitBits(new.queue, wrWait)
           /\ scan' = [scan EXCEPT ![t] = [NoScan EXCEPT !.wl = taken.list]]
       BY <1>1, <1>11
<1>13. /\ Good(new.queue, kind) /\ new.queue.failed = {}
       /\ Waiting(new.queue) = Waiting(taken.queue) \cup Requeued(t)
       /\ new.waiters = Requeued(t)
  <2>1. after[t] = "block" => t \notin Waiting(taken.queue)
        BY <1>10
  <2> QED
      BY <1>10, <2>1, RequeueJoins
<1>14. queue' = new.queue /\ linked' = linked \cup new.waiters /\ queued' = queued \cup new.waiters
  <2>1. \E p, U :
          new = [queue |-> new.queue, unlocking |-> U, priority |-> p, waiters |-> new.waiters]
    <3>1. CASE after[t] = "block"
      <4>1. new \in Enqueued(taken.queue, unlocking, t, t)
            BY <3>1 DEF Requeue
      <4>2. \E p : LET prio == Set(priority, t, p)
                       Qn == Enqueue(taken.queue, t, kind, prio, HeadOf(taken.queue) \in unlocking)
                   IN  new = [queue |-> Qn, priority |-> prio, waiters |-> {t},
                              unlocking |-> IF taken.queue.seq = <<>> THEN unlocking \ {t}
                               ELSE IF HeadOf(Qn) # t THEN unlocking
                               ELSE IF HeadOf(taken.queue) \in unlocking
                                    THEN unlocking \cup {t} ELSE unlocking \ {t}]
            BY <4>1, Zenon DEF Enqueued
      <4> QED
          BY <4>2
    <3>2. CASE after[t] # "block"
          BY <3>2 DEF Requeue
    <3> QED
        BY <3>1, <3>2
  <2>2. LET n2 == [new EXCEPT !.unlocking = @ \ {HeadOf(new.queue)}] IN
          n2.queue = new.queue /\ n2.waiters = new.waiters
        BY <2>1
  <2> QED
      BY <1>12, <2>2 DEF Store
<1>15. wrWait \in SUBSET {kMuWrWait}
       OBVIOUS
<1> HIDE DEF wrWait
<1>16. /\ Good(queue', kind) /\ queue'.failed = {}
       /\ Waiting(queue') = (Waiting(queue) \ Elems(taken.list)) \cup Requeued(t)
       /\ linked' = linked \cup Requeued(t) /\ queued' = queued \cup Requeued(t)
       BY <1>10, <1>13, <1>14
<1>17. mu' = {kMuDesig} \cup WaitBits(queue', wrWait)
       BY <1>12, <1>14
<1> QED
    BY <1>10, <1>12, <1>15, <1>16, <1>17

(* If nobody is woken, nobody could run.                                   *)
LEMMA NobodyRuns ==
  ASSUME Typed, QueueGood, Walks, WordMatchesQueue, NEW t \in Threads, UnlockNobody(t),
         after[t] = "block" => t \notin Waiting(queue)
  PROVE  /\ Good(queue', kind) /\ queue'.failed = {}
         /\ Waiting(queue') = Waiting(queue) \cup Requeued(t)
         /\ linked' = linked \cup Requeued(t) /\ queued' = queued \cup Requeued(t)
         /\ \A x \in Waiting(queue) : ~Runs(x)
<1>1. /\ InSlow(t) /\ LastHolder /\ ~EasyWriter /\ ~Found(t) /\ Searched(t)
      /\ \E new \in Requeue(t, Reopened(t), unlocking \ {HeadOf(queue)}) : Store(new)
      BY Zenon DEF UnlockNobody
<1>2. queue.seq # <<>> /\ pc[t] # "walk" /\ Good(queue, kind)
      BY <1>1 DEF LastHolder, Has, WordMatchesQueue, InSlow, SpinFree, QueueGood
<1> DEFINE R == Reopened(t)
           T == truth \cup {Null}
<1>3. /\ Good(R, kind) /\ R.failed = {} /\ R.seq = queue.seq
      /\ Waiting(R) = Waiting(queue)
      /\ Walker(t) => \E o \in 1..Len(queue.seq) :
              /\ scan[t].old = queue.seq[o]
              /\ Easy(queue, kind) \/ FoundSoFar(R, kind, T, scan[t], o)
      BY <1>2, ReopenedIs
<1>4. Joins(Requeued(t), R, unlocking \ {HeadOf(queue)})
      BY <1>1, <1>3, StoreJoins
<1> HIDE DEF R, T
<1>5. /\ Len(queue.seq) \in Nat /\ DOMAIN queue.seq = 1..Len(queue.seq) /\ Null \notin Threads
      /\ HeadOf(queue) = queue.seq[Len(queue.seq)] /\ HeadOf(queue) \in Threads
      /\ Len(queue.seq) > 0
      BY <1>2, QueueTyped, HeadIs
<1>6. Len(queue.seq) \in 1..Len(queue.seq)
      BY <1>5
<1>7. ~Easy(queue, kind) /\ Walker(t) /\ scan[t].w = Null
      BY <1>1, <1>5 DEF Easy, EasyWriter, Walker, Searched, Found
<1>8. PICK o \in 1..Len(queue.seq) :
        scan[t].old = queue.seq[o] /\ FoundSoFar(R, kind, T, scan[t], o)
      BY <1>3, <1>7
<1>9. o = Len(queue.seq)
      BY <1>1, <1>2, <1>5, <1>6, <1>8, QueueTyped DEF Searched
<1>10. \A i \in 1..Len(queue.seq) : kind[queue.seq[i]][2] \notin T
       BY <1>3, <1>7, <1>8, <1>9 DEF FoundSoFar, NoneRuns
<1>11. \A x \in Waiting(queue) : x \in Threads /\ kind[x][2] \notin T
       BY <1>2, <1>5, <1>10, EmptyIs DEF Waiting
<1>12. \A x \in Waiting(queue) : ~Runs(x)
       BY <1>11, KindIs DEF Runs, T
<1> QED
    BY <1>3, <1>4, <1>12 DEF Joins

(* The same search, of a queue whose waiters stay as they are.             *)
LEMMA SameFound ==
  ASSUME NEW Q, NEW R, R.seq = Q.seq, R.wake = Q.wake, R.skip = Q.skip,
         NEW T, NEW s, NEW s2, s2.w = s.w, s2.pw = s.pw, NEW r, FoundSoFar(Q, kind, T, s, r)
  PROVE  FoundSoFar(R, kind, T, s2, r)
<1>1. \A j : NoneRuns(Q, kind, T, j) => NoneRuns(R, kind, T, j)
      BY DEF NoneRuns
<1>2. \A q : MarkedTo(Q, kind, T, q, r) => MarkedTo(R, kind, T, q, r)
      BY Zenon DEF MarkedTo
<1>3. \A q : FirstFound(Q, kind, T, s, q, r) => FirstFound(R, kind, T, s2, q, r)
      BY <1>1, <1>2 DEF FirstFound
<1> QED
    BY <1>1, <1>3 DEF FoundSoFar

(* t walks, and the search is under way.                                   *)
Walking(t) ==
  /\ Good(queue', kind) /\ queue'.failed = {} /\ Waiting(queue') = Waiting(queue)
  /\ queue'.seq = queue.seq
  /\ HeadOf(queue') \in unlocking'
  /\ scan'[t] \in Scans /\ scan' = [scan EXCEPT ![t] = scan'[t]]
  /\ scan'[t].wl = scan[t].wl /\ scan'[t].old # Null /\ scan'[t].knownFalse \notin truth
  /\ \E o \in 1..Len(queue'.seq), r \in 0..Len(queue'.seq) :
       /\ Search(queue', kind, truth \cup {Null}, scan'[t], o, r)
       /\ pc'[t] = "walk" => LooksAt(queue', kind, scan'[t], o, r)
       /\ pc'[t] # "walk" => r = o

(* The search begins: nobody is passed, and nobody is found.               *)
LEMMA WalkStarts ==
  ASSUME Typed, QueueGood, ListsTyped, Walks, WordMatchesQueue, NEW t \in Threads,
         UnlockStartWalk(t)
  PROVE  Walking(t)
<1> DEFINE Q == Reopened(t)
           head == HeadOf(Q)
           old == scan[t].old
           T == truth \cup {Null}
           n == Len(queue.seq)
           next == IF old = Null THEN Q.seq[1] ELSE NextOf(Q, old)
           s2 == [scan[t] EXCEPT !.old = head, !.pwWalk = old, !.wWalk = next]
<1>1. /\ SpinFree(t) /\ MustWalk(t)
      /\ queue' = Check([Q EXCEPT !.may = @ \ {head}], Q.skip[head] = Null,
                        "illegal skip from head")
      /\ unlocking' = unlocking \cup {head}
      /\ scan' = [scan EXCEPT ![t].old = head, ![t].pwWalk = old, ![t].wWalk = next]
      /\ pc' = [pc EXCEPT ![t] = "walk"]
      BY Zenon DEF UnlockStartWalk
<1>2. queue.seq # <<>> /\ pc[t] # "walk" /\ Good(queue, kind)
      BY <1>1 DEF MustWalk, LastHolder, Has, WordMatchesQueue, SpinFree, QueueGood
<1>3. /\ Good(Q, kind) /\ Q.failed = {} /\ Q.seq = queue.seq
      /\ Waiting(Q) = Waiting(queue) /\ HeadOf(Q) = HeadOf(queue)
      /\ Walker(t) => \E o \in 1..n :
              /\ scan[t].old = queue.seq[o] /\ scan[t].knownFalse \notin truth
              /\ Easy(queue, kind) \/ FoundSoFar(Q, kind, T, scan[t], o)
      BY <1>2, ReopenedIs
<1> HIDE DEF Q, T, n, head, old, next
<1>4. /\ n \in Nat /\ n > 0 /\ DOMAIN queue.seq = 1..n /\ Null \notin Threads
      /\ head = queue.seq[n] /\ head = HeadOf(queue) /\ head \in Threads
      BY <1>2, <1>3, QueueTyped, HeadIs DEF n, head
<1>5. n \in 1..n /\ 1 \in 1..n /\ Q \in Queues /\ Len(Q.seq) = n /\ queue.seq[1] \in Threads
      BY <1>2, <1>3, <1>4, QueueTyped DEF n
<1>6. Q.skip[head] = Null
  <2> SUFFICES ASSUME Q.skip[Q.seq[n]] # Null PROVE FALSE
      BY <1>3, <1>4
  <2>1. n \in 1..Len(Q.seq)
        BY <1>5
  <2>2. n < Len(Q.seq)
        BY <1>3, <2>1, ChainsEnd
  <2> QED
      BY <1>4, <1>5, <2>2
<1>7. queue' = [Q EXCEPT !.may = @ \ {head}]
      BY <1>1, <1>6 DEF Check
<1>8. /\ queue' \in Queues /\ queue'.seq = queue.seq /\ queue'.skip = Q.skip /\ queue'.wake = Q.wake
      /\ queue'.may = Q.may \ {head} /\ queue'.failed = {}
      BY <1>3, <1>5, <1>7 DEF Queues
<1>9. Good(queue', kind) /\ Waiting(queue') = Waiting(queue) /\ HeadOf(queue') = head
      BY <1>3, <1>4, <1>8, OthersSkip DEF Waiting, HeadOf
<1>10. scan[t] \in Scans
       BY DEF ListsTyped
<1>11. ASSUME NEW r \in 0..n, FoundSoFar(Q, kind, T, scan[t], r), r < n, next = queue.seq[r + 1],
              (r = 0 /\ old = Null) \/ (r > 0 /\ old = queue.seq[r]), next \in Threads,
              old \in Threads \cup {Null}, scan[t].knownFalse \notin truth
       PROVE  Walking(t)
  <2>1. scan' = [scan EXCEPT ![t] = s2] /\ scan'[t] = s2
        BY <1>1 DEF ListsTyped, Scans
  <2>2. /\ s2 \in Scans /\ s2.old = head /\ s2.pwWalk = old /\ s2.wWalk = next
        /\ s2.w = scan[t].w /\ s2.pw = scan[t].pw /\ s2.wl = scan[t].wl
        /\ s2.knownFalse = scan[t].knownFalse
        BY <1>4, <1>10, <1>11 DEF Scans
  <2> HIDE DEF s2
  <2>3. FoundSoFar(queue', kind, T, s2, r)
        BY <1>3, <1>8, <1>11, <2>2, SameFound
  <2>4. Search(queue', kind, T, s2, n, r)
        BY <1>4, <1>5, <1>6, <1>8, <1>11, <2>2, <2>3 DEF Search, n
  <2>5. LooksAt(queue', kind, s2, n, r)
        BY <1>8, <1>11, <2>2 DEF LooksAt
  <2>6. pc'[t] = "walk"
        BY <1>1 DEF Typed
  <2>7. HeadOf(queue') \in unlocking'
        BY <1>1, <1>9
  <2>8. n \in 1..Len(queue'.seq) /\ r \in 0..Len(queue'.seq)
        BY <1>5, <1>8, <1>11 DEF n
  <2>9. scan' = [scan EXCEPT ![t] = scan'[t]] /\ s2.old # Null
        BY <1>4, <2>1, <2>2
  <2> QED
      BY <1>8, <1>9, <1>11, <2>1, <2>2, <2>4, <2>5, <2>6, <2>7, <2>8, <2>9 DEF Walking, T
<1>12. CASE old = Null
  <2>1. scan[t].w = Null /\ scan[t].pw = Null /\ scan[t].knownFalse = Null
        BY <1>12 DEF Walks, Walker, old
  <2>2. scan[t].knownFalse \notin truth
        BY <2>1, MutexAssumption DEF ListsTyped
  <2>3. FoundSoFar(Q, kind, T, scan[t], 0)
        BY <2>1 DEF FoundSoFar, NoneRuns
  <2>4. next = queue.seq[0 + 1] /\ next \in Threads
        BY <1>3, <1>5, <1>12 DEF next
  <2>5. 0 \in 0..n /\ 0 < n
        BY <1>4
  <2> QED
      BY <1>11, <1>12, <2>2, <2>3, <2>4, <2>5
<1>13. CASE old # Null
  <2>1. Walker(t) /\ ~Easy(queue, kind) /\ old # HeadOf(queue)
        BY <1>1, <1>13 DEF Walker, old, MustWalk, EasyWriter, Easy, Searched
  <2>2. PICK o \in 1..n : /\ old = queue.seq[o] /\ scan[t].knownFalse \notin truth
                          /\ FoundSoFar(Q, kind, T, scan[t], o)
        BY <1>3, <2>1 DEF old
  <2>3. o # n
        BY <1>4, <2>1, <2>2
  <2>4. o \in 0..n /\ o < n /\ o > 0 /\ o + 1 \in 1..n
        BY <1>4, <2>3
  <2>5. next = queue.seq[o + 1] /\ next \in Threads /\ old \in Threads
    <3>1. Distinct(Q.seq) /\ o \in DOMAIN Q.seq
          BY <1>3, <1>4, QueueTyped
    <3>2. NextOf(Q, Q.seq[o]) = Q.seq[o + 1]
          BY <1>5, <2>3, <3>1, NextIs
    <3>3. queue.seq[o + 1] \in Threads /\ queue.seq[o] \in Threads
          BY <1>2, <2>4, QueueTyped DEF n
    <3> QED
        BY <1>3, <1>13, <2>2, <3>2, <3>3 DEF next
  <2> QED
      BY <1>11, <2>2, <2>4, <2>5
<1> QED
    BY <1>12, <1>13

(* A step of the search keeps it right, whoever has joined since.          *)
LEMMA WalkGoesOn ==
  ASSUME Typed, QueueGood, ListsTyped, Walks, NEW t \in Threads, UnlockWalk(t)
  PROVE  Walking(t)
<1> DEFINE s == scan[t]
           x == s.wWalk
           runnable == cond[x] = Null \/ (cond[x] # s.knownFalse /\ cond[x] \in truth)
           first == runnable /\ s.w = Null
           wake  == runnable /\ (first \/ how[x] = "S")
           stop  == first /\ how[x] = "X"
           Q  == [queue EXCEPT !.wake = IF wake THEN @ \cup {x} ELSE @ \ {x}]
           sk == IF wake THEN [end |-> x, queue |-> Q] ELSE Skip(Q, x)
           T == truth \cup {Null}
           s2 == [s EXCEPT !.w = IF first THEN x ELSE @,
                        !.pw = IF first THEN s.pwWalk ELSE @,
                        !.wrWait = @ \/ (runnable /\ how[x] = "X"),
                        !.knownFalse = IF runnable THEN @ ELSE cond[x],
                        !.pwWalk = IF stop \/ sk.end = s.old THEN Null ELSE sk.end,
                        !.wWalk = IF stop \/ sk.end = s.old THEN Null
                                  ELSE NextOf(sk.queue, sk.end)]
<1>1. /\ pc[t] = "walk" /\ queue' = sk.queue /\ scan' = [scan EXCEPT ![t] = s2]
      /\ pc' = [pc EXCEPT ![t] = IF stop \/ sk.end = s.old THEN "unlock" ELSE "walk"]
      /\ unlocking' = unlocking
      BY Zenon DEF UnlockWalk, listVars
<1> HIDE DEF s2, Q, sk
<1>2. Walker(t) /\ Searches(t)
      BY <1>1 DEF Walks
<1>3. PICK o \in 1..Len(queue.seq), r \in 0..Len(queue.seq) :
        Search(queue, kind, T, s, o, r) /\ LooksAt(queue, kind, s, o, r)
      BY <1>1, <1>2 DEF Searches
<1>4. /\ Good(queue, kind) /\ queue.failed = {} /\ Len(queue.seq) \in Nat /\ Null \notin Threads
      /\ queue \in Queues /\ s \in Scans /\ s.knownFalse \notin truth /\ HeadOf(queue) \in unlocking
      /\ Null \notin truth
      BY <1>2, MutexAssumption, QueueTyped DEF QueueGood, ListsTyped, Searches
<1>5. /\ s.old = queue.seq[o] /\ s.old \in Threads /\ r + 1 \in 1..Len(queue.seq)
      /\ x = queue.seq[r + 1] /\ x \in Threads
  <2>1. r + 1 \in 1..Len(queue.seq) /\ x = queue.seq[r + 1] /\ s.old = queue.seq[o]
        BY <1>3, <1>4 DEF Search, LooksAt
  <2> QED
      BY <1>4, <2>1, QueueTyped
<1> HIDE DEF T
<1>6. /\ kind[x][1] = how[x] /\ kind[x][2] = cond[x]
      /\ how[x] \in {"X", "S"} /\ cond[x] \in Conds \cup {Null}
      /\ \A y \in Threads : kind[y][1] \in {"X", "S"}
      BY <1>5, KindIs DEF Typed
<1> HIDE DEF x, s
<1>7. /\ runnable <=> kind[x][2] \in T
      BY <1>4, <1>6 DEF T
<1>8. /\ first <=> FirstRuns(kind, T, s)
      /\ wake <=> Wakes(kind, T, s)
      /\ stop <=> FirstRuns(kind, T, s) /\ kind[x][1] = "X"
      BY <1>6, <1>7 DEF FirstRuns, Wakes, x
<1>9. sk = Passed(queue, kind, T, s)
  <2>1. CASE wake
    <3>1. Q = [queue EXCEPT !.wake = @ \cup {x}]
          BY <2>1 DEF Q
    <3> QED
        BY <1>8, <2>1, <3>1, Zenon DEF Passed, sk, x
  <2>2. CASE ~wake
    <3>1. Q = [queue EXCEPT !.wake = @ \ {x}]
          BY <2>2 DEF Q
    <3> QED
        BY <1>8, <2>2, <3>1, Zenon DEF Passed, sk, x
  <2> QED
      BY <2>1, <2>2
<1>10. (stop \/ sk.end = s.old) <=> Ends(queue, kind, T, s)
       BY <1>8, <1>9 DEF Ends, x
<1>11. /\ s2.old = s.old /\ s2.w = (IF FirstRuns(kind, T, s) THEN s.wWalk ELSE s.w)
       /\ s2.pw = (IF FirstRuns(kind, T, s) THEN s.pwWalk ELSE s.pw)
       /\ ~Ends(queue, kind, T, s) => s2.pwWalk = sk.end /\ s2.wWalk = NextOf(sk.queue, sk.end)
       /\ s2.wl = s.wl /\ s2.knownFalse = IF runnable THEN s.knownFalse ELSE cond[x]
  <2>1. /\ s2.old = s.old /\ s2.w = (IF first THEN x ELSE s.w)
        /\ s2.pw = (IF first THEN s.pwWalk ELSE s.pw)
        /\ s2.pwWalk = (IF stop \/ sk.end = s.old THEN Null ELSE sk.end)
        /\ s2.wWalk = (IF stop \/ sk.end = s.old THEN Null ELSE NextOf(sk.queue, sk.end))
        /\ s2.wl = s.wl /\ s2.knownFalse = IF runnable THEN s.knownFalse ELSE cond[x]
    <3> HIDE DEF first, stop, runnable
    <3> QED
        BY <1>4 DEF s2, Scans
  <2> HIDE DEF first, stop, runnable
  <2> QED
      BY <1>8, <1>10, <2>1 DEF x
<1>12. /\ Good(sk.queue, kind) /\ sk.queue.seq = queue.seq /\ sk.queue.failed = queue.failed
       /\ sk.end \in Threads
       /\ \E r2 \in 0..o : /\ Search(sk.queue, kind, T, s2, o, r2)
                           /\ Ends(queue, kind, T, s) => r2 = o
                           /\ ~Ends(queue, kind, T, s) => LooksAt(sk.queue, kind, s2, o, r2)
  <2>1. /\ sk.queue = Passed(queue, kind, T, s).queue /\ sk.end = Passed(queue, kind, T, s).end
        /\ ~Ends(queue, kind, T, s) => s2.pwWalk = sk.end /\ s2.wWalk = NextOf(sk.queue, sk.end)
        BY <1>9, <1>11
  <2> HIDE DEF first, runnable, wake, stop
  <2> QED
      BY <1>3, <1>4, <1>6, <1>11, <2>1, WalkStep
<1>13. PICK r2 \in 0..o : /\ Search(sk.queue, kind, T, s2, o, r2)
                          /\ Ends(queue, kind, T, s) => r2 = o
                          /\ ~Ends(queue, kind, T, s) => LooksAt(sk.queue, kind, s2, o, r2)
       BY <1>12
<1>14. scan'[t] = s2 /\ scan' = [scan EXCEPT ![t] = scan'[t]]
       BY <1>1 DEF ListsTyped
<1>15. pc'[t] = IF Ends(queue, kind, T, s) THEN "unlock" ELSE "walk"
       BY <1>1, <1>10 DEF Typed
<1>16. s2.knownFalse \notin truth
       BY <1>4, <1>7, <1>11 DEF T
<1>17. HeadOf(queue') = HeadOf(queue) /\ Waiting(queue') = Waiting(queue)
       BY <1>1, <1>12 DEF HeadOf, Waiting
<1>18. s2 \in Scans
  <2>1. NextOf(sk.queue, sk.end) \in Threads \/ Ends(queue, kind, T, s)
    <3> SUFFICES ASSUME ~Ends(queue, kind, T, s) PROVE NextOf(sk.queue, sk.end) \in Threads
        OBVIOUS
    <3>1. s2.wWalk = queue.seq[r2 + 1] /\ r2 < o
          BY <1>12, <1>13 DEF LooksAt
    <3>2. r2 + 1 \in 1..Len(queue.seq)
          BY <1>4, <3>1
    <3> QED
        BY <1>4, <1>11, <3>1, <3>2, QueueTyped
  <2>2. /\ s.old \in Threads /\ x \in Threads /\ sk.end \in Threads
        /\ cond[x] \in Conds \cup {Null}
        BY <1>5, <1>6, <1>12
  <2>3. (stop \/ sk.end = s.old) \/ NextOf(sk.queue, sk.end) \in Threads
        BY <1>10, <2>1
  <2> DEFINE w2  == IF first THEN x ELSE s.w
             pw2 == IF first THEN s.pwWalk ELSE s.pw
             wr2 == s.wrWait \/ (runnable /\ how[x] = "X")
             kf2 == IF runnable THEN s.knownFalse ELSE cond[x]
             p2  == IF stop \/ sk.end = s.old THEN Null ELSE sk.end
             n2  == IF stop \/ sk.end = s.old THEN Null ELSE NextOf(sk.queue, sk.end)
  <2>4. s2 = [s EXCEPT !.w = w2, !.pw = pw2, !.wrWait = wr2, !.knownFalse = kf2,
                       !.pwWalk = p2, !.wWalk = n2]
    <3> HIDE DEF first, runnable, stop
    <3> QED
        BY DEF s2
  <2>5. /\ s.w \in Threads \cup {Null} /\ s.pw \in Threads \cup {Null} /\ s.wrWait \in BOOLEAN
        /\ s.knownFalse \in Conds \cup {Null} /\ s.pwWalk \in Threads \cup {Null}
        BY <1>4 DEF Scans
  <2>6. /\ w2 \in Threads \cup {Null} /\ pw2 \in Threads \cup {Null} /\ wr2 \in BOOLEAN
        /\ kf2 \in Conds \cup {Null} /\ p2 \in Threads \cup {Null} /\ n2 \in Threads \cup {Null}
    <3> HIDE DEF first, stop
    <3> QED
        BY <2>2, <2>3, <2>5
  <2> HIDE DEF w2, pw2, wr2, kf2, p2, n2
  <2> QED
      BY <1>4, <2>4, <2>6, ZenonT(30) DEF Scans
<1>19. r2 \in 0..Len(queue'.seq) /\ o \in 1..Len(queue'.seq)
       BY <1>1, <1>4, <1>12
<1>20. s2.old # Null /\ s2.wl = scan[t].wl
       BY <1>4, <1>5, <1>11 DEF s
<1>21. /\ Search(queue', kind, truth \cup {Null}, scan'[t], o, r2)
       /\ pc'[t] = "walk" => LooksAt(queue', kind, scan'[t], o, r2)
       /\ pc'[t] # "walk" => r2 = o
       BY <1>1, <1>13, <1>14, <1>15 DEF T
<1>22. Good(queue', kind) /\ queue'.failed = {} /\ queue'.seq = queue.seq
       BY <1>1, <1>4, <1>12
<1>23. HeadOf(queue') \in unlocking'
       BY <1>1, <1>4, <1>17
<1> QED
    BY <1>14, <1>16, <1>17, <1>18, <1>19, <1>20, <1>21, <1>22, <1>23 DEF Walking

-----------------------------------------------------------------------------
(* The threads in W', C' and on t's list come from there, or it is t.      *)
Others(t) == \A u \in Threads \ {t} : scan'[u] = scan[u] /\ pc'[u] = pc[u]

(* G is {} or {t}. Who is somewhere is still queued and linked.            *)
Shifts(t, G) ==
  /\ G \subseteq {t}
  /\ t \in G => ~Somewhere(t) /\ Sleeps(t)' /\ t \in queued' /\ t \in linked'
  /\ (scan'[t].wl # <<>> <=> pc'[t] \in Giving) /\ Distinct(scan'[t].wl) /\ Distinct(cvqueue')
  /\ Waiting(queue') \cup Elems(cvqueue') \cup Listed(t)'
       \subseteq Waiting(queue) \cup Elems(cvqueue) \cup Listed(t) \cup G
  /\ Elems(cvqueue') \cap Waiting(queue') = {}
  /\ Listed(t)' \cap (Waiting(queue') \cup Elems(cvqueue')) = {}
  /\ \A x \in queued : Somewhere(x)' => x \in queued'
  /\ \A x \in linked : Somewhere(x)' => x \in linked' \/ Unlinked(x)'
  /\ \A x : pc[t] = "woken" /\ x = Target(t) => ~Somewhere(x)'

(* Such a step keeps the places of the threads apart, and those threads    *)
(* asleep.                                                                 *)
LEMMA ShiftsKeep ==
  ASSUME Places, Asleep, NEW t \in Threads, Moves(t), Others(t), NEW G, Shifts(t, G),
         Sleeps(t) /\ t \in queued => Sleeps(t)'
  PROVE  Places' /\ Asleep'
<1>1. \A u \in Threads \ {t} : Listed(u)' = Listed(u)
      BY DEF Others, Listed
<1>2. ASSUME NEW x, Somewhere(x)' PROVE Somewhere(x) \/ x \in G
      BY <1>1, <1>2 DEF Somewhere, Shifts
<1>3. Places'
  <2>1. ASSUME NEW u \in Threads \ {t} PROVE
          /\ Listed(u) \cap (Waiting(queue') \cup Elems(cvqueue')) = {}
          /\ Listed(u) \cap Listed(t)' = {}
    <3>1. /\ Listed(u) \cap (Waiting(queue) \cup Elems(cvqueue)) = {}
          /\ Listed(u) \cap Listed(t) = {}
          BY <2>1 DEF Places
    <3>2. Listed(u) \cap G = {}
          BY DEF Shifts, Somewhere
    <3> QED
        BY <3>1, <3>2 DEF Shifts
  <2>2. \A u \in Threads : (scan'[u].wl # <<>> <=> pc'[u] \in Giving) /\ Distinct(scan'[u].wl)
    <3>1. \A u \in Threads : (scan[u].wl # <<>> <=> pc[u] \in Giving) /\ Distinct(scan[u].wl)
          BY DEF Places
    <3> QED
        BY <3>1 DEF Others, Shifts
  <2>3. \A u \in Threads : Listed(u)' \cap (Waiting(queue') \cup Elems(cvqueue')) = {}
        BY <1>1, <2>1 DEF Shifts
  <2>4. \A u, v \in Threads : u # v => Listed(u)' \cap Listed(v)' = {}
    <3>1. \A u, v \in Threads : u # v => Listed(u) \cap Listed(v) = {}
          BY DEF Places
    <3> QED
        BY <1>1, <2>1, <3>1
  <2> QED
      BY <2>2, <2>3, <2>4 DEF Places, Shifts
<1>4. Asleep'
  <2> SUFFICES ASSUME NEW x \in Threads, Somewhere(x)'
               PROVE  Sleeps(x)' /\ x \in queued' /\ (x \in linked' \/ Unlinked(x)')
      BY DEF Asleep
  <2>1. CASE x \in G
        BY <2>1 DEF Shifts
  <2>2. CASE Somewhere(x)
    <3>1. Sleeps(x) /\ x \in queued /\ (x \in linked \/ Unlinked(x))
          BY <2>2 DEF Asleep
    <3>2. x # t => Sleeps(x)'
          BY <3>1 DEF Moves, Alone, Sleeps
    <3>3. Unlinked(x) => Unlinked(x)'
      <4> SUFFICES ASSUME NEW u \in Threads, pc[u] = "woken", x = Target(u) PROVE Unlinked(x)'
          BY DEF Unlinked
      <4>1. u # t
            BY DEF Shifts
      <4>2. pc'[u] = pc[u] /\ Target(u)' = Target(u)
            BY <4>1 DEF Others, Target
      <4> QED
          BY <4>2 DEF Unlinked
    <3> QED
        BY <3>1, <3>2, <3>3 DEF Shifts
  <2> QED
      BY <1>2, <2>1, <2>2
<1> QED
    BY <1>3, <1>4

(* Who waits on the queue sleeps, is linked, and nobody else has it.       *)
LEMMA WaitersSleep ==
  ASSUME ListsTyped, Places, Asleep, NEW x \in Waiting(queue) \cup Elems(cvqueue), x \in Threads
  PROVE  Sleeps(x) /\ x \in queued /\ x \in linked
<1>1. Somewhere(x)
      BY DEF Somewhere
<1>2. ~Unlinked(x)
  <2> SUFFICES ASSUME NEW u \in Threads, pc[u] = "woken", x = Target(u) PROVE FALSE
      BY DEF Unlinked
  <2>1. scan[u].wl # <<>> /\ scan[u].wl \in Seq(Threads)
        BY DEF Places, Giving, ListsTyped, Scans
  <2>2. x \in Listed(u)
        BY <2>1, TailIs DEF Listed, Target
  <2> QED
      BY <2>2 DEF Places
<1> QED
    BY <1>1, <1>2 DEF Asleep

(* The waiters wait for the same after a step.                             *)
LEMMA WaitersKeep ==
  ASSUME Typed, ListsTyped, QueueGood, Places, Asleep, SpinBit,
         NEW t \in Threads, Step(t), CallAtHand(t),
         Typed', Moves(t)
  PROVE  \A x \in Waiting(queue) :
           x \in Threads /\ how'[x] = how[x] /\ cond'[x] = cond[x] /\ kind'[x] = kind[x]
<1> SUFFICES ASSUME NEW x \in Waiting(queue)
             PROVE  x \in Threads /\ how'[x] = how[x] /\ cond'[x] = cond[x] /\ kind'[x] = kind[x]
    OBVIOUS
<1>1. x \in Threads
      BY EmptyIs DEF QueueGood
<1>2. how'[x] = how[x] /\ cond'[x] = cond[x]
  <2>1. CASE x = t
        BY <1>1, <2>1, WaitersSleep, StepSleeps
  <2>2. CASE x # t
        BY <1>1, <2>2 DEF Moves, Alone
  <2> QED
      BY <2>1, <2>2
<1> QED
    BY <1>1, <1>2 DEF kind

-----------------------------------------------------------------------------
(* t searches nothing.                                                     *)
Idle(t) ==
  /\ scan[t].old = Null /\ scan[t].w = Null /\ scan[t].pw = Null /\ scan[t].knownFalse = Null
  /\ pc[t] # "walk"

(* The searches of the others stay right, and so does t's if it has one.   *)
LEMMA WalksKept ==
  ASSUME Walks, NEW t \in Threads, Others(t),
         \/ Idle(t)'
         \/ Walker(t)' /\ Searches(t)' /\ \A u \in Threads \ {t} : ~Walker(u),
         \A u \in Threads \ {t} : Walker(u) => Searches(u)'
  PROVE  Walks'
<1>1. \A u \in Threads \ {t} : (Walker(u)' <=> Walker(u)) /\ (Idle(u)' <=> Idle(u))
      BY DEF Others, Walker, Idle
<1>2. /\ \A u, v \in Threads : Walker(u) /\ Walker(v) => u = v
      /\ \A u \in Threads : ~Walker(u) => Idle(u)
      BY DEF Walks, Idle, Walker
<1>3. Idle(t)' => ~Walker(t)'
      BY DEF Idle, Walker
<1>4. \A u, v \in Threads : Walker(u)' /\ Walker(v)' => u = v
      BY <1>1, <1>2, <1>3
<1>5. \A u \in Threads : Walker(u)' => Searches(u)'
      BY <1>1, <1>3
<1>6. \A u \in Threads : ~Walker(u)' => Idle(u)'
      BY <1>1, <1>2
<1> QED
    BY <1>4, <1>5, <1>6 DEF Walks, Idle

(* Whoever searches the queue goes on.                                     *)
LEMMA SearchKept ==
  ASSUME Walks, QueueGood, \A x \in Waiting(queue) : kind'[x] = kind[x],
         queue' = queue, unlocking' = unlocking, truth' = truth,
         NEW u \in Threads, Walker(u), scan'[u] = scan[u],
         pc'[u] = pc[u] \/ (pc[u] # "walk" /\ pc'[u] = "release")
  PROVE  Searches(u)'
<1>1. Searches(u)
      BY DEF Walks
<1>2. PICK o \in 1..Len(queue.seq), r \in 0..Len(queue.seq) :
       /\ Search(queue, kind, truth \cup {Null}, scan[u], o, r)
       /\ pc[u] = "walk" => LooksAt(queue, kind, scan[u], o, r)
       /\ pc[u] # "walk" => r = o
      BY <1>1 DEF Searches
<1>3. /\ Search(queue, kind', truth \cup {Null}, scan[u], o, r)
      /\ LooksAt(queue, kind, scan[u], o, r) => LooksAt(queue, kind', scan[u], o, r)
      BY <1>2, SameSearch DEF QueueGood
<1> QED
    BY <1>1, <1>2, <1>3 DEF Searches

(* A search stays right when threads join the queue.                       *)
LEMMA SearchFollows ==
  ASSUME Walks, NEW S, Joins(S, queue, unlocking), kind' = kind, truth' = truth,
         NEW u \in Threads, Walker(u), scan'[u] = scan[u], pc'[u] = pc[u]
  PROVE  Searches(u)'
<1>1. Searches(u)
      BY DEF Walks
<1>2. PICK o \in 1..Len(queue.seq), r \in 0..Len(queue.seq) :
       /\ Search(queue, kind, truth \cup {Null}, scan[u], o, r)
       /\ pc[u] = "walk" => LooksAt(queue, kind, scan[u], o, r)
       /\ pc[u] # "walk" => r = o
      BY <1>1 DEF Searches
<1>3. /\ HeadOf(queue') \in unlocking'
      /\ \E o2 \in 1..Len(queue'.seq), r2 \in 0..Len(queue'.seq) :
           /\ Search(queue', kind, truth \cup {Null}, scan[u], o2, r2) /\ (r = o => r2 = o2)
           /\ LooksAt(queue, kind, scan[u], o, r) => LooksAt(queue', kind, scan[u], o2, r2)
      BY <1>1, <1>2, Zenon DEF Searches, Joins, Follows
<1> QED
    BY <1>1, <1>2, <1>3 DEF Searches

-----------------------------------------------------------------------------
(* The queue, the lists and the searches, without the word.                *)
Lists == ListsTyped /\ QueueGood /\ Places /\ Asleep /\ Walks

(* What the lemmas about a step of t take for granted.                     *)
Before(t) ==
  /\ Typed /\ Typed' /\ CallAtHand(t) /\ WordMatchesHolders /\ Moves(t) /\ Step(t)
  /\ Lists /\ SpinBit /\ WordMatchesQueue

(* A thread that searches holds the lock.                                  *)
LEMMA WalkersHold ==
  ASSUME Typed, WordMatchesHolders, Walks, NEW u \in Threads, Walker(u)
  PROVE  /\ Holds(u) /\ pc[u] \in {"walk", "unlock", "release"}
         /\ kMuWriter \in mu \/ kMuReader \in mu
         /\ \A t \in Threads :
              Holds(t) /\ (how[t] = "X" \/ kMuWriter \in mu \/ readers = 1) => u = t
<1>1. pc[u] \in {"walk", "unlock", "release"}
      BY DEF Walks, Searches
<1>2. Holds(u)
      BY <1>1 DEF Holds
<1> QED
    BY <1>1, <1>2, HoldersAre

(* A step that leaves the queues and the lists alone, and is none of a     *)
(* search.                                                                 *)
Still(t) ==
  /\ UNCHANGED <<queue, unlocking, cvqueue, linked, queued>>
  /\ Others(t) /\ scan'[t].wl = scan[t].wl /\ scan' \in [Threads -> Scans]
  /\ {pc[t], pc'[t]} \cap {"post", "woken"} = {}
  /\ pc[t] \in Giving <=> pc'[t] \in Giving
  /\ Idle(t)'

(* Such a step keeps the queue and the lists in order.                     *)
LEMMA StillKeeps ==
  ASSUME NEW t \in Threads, Before(t), Still(t)
  PROVE  Lists'
<1>1. /\ Typed /\ Typed' /\ CallAtHand(t) /\ WordMatchesHolders /\ Moves(t) /\ Step(t) /\ SpinBit
      /\ ListsTyped /\ QueueGood /\ Places /\ Asleep /\ Walks /\ Others(t)
      BY DEF Before, Lists, Still
<1>2. \A x \in Waiting(queue) : kind'[x] = kind[x]
      BY <1>1, WaitersKeep
<1>3. /\ truth' \subseteq Conds
      /\ truth' = truth \/ (pc[t] = "held" /\ how[t] = "X")
      BY <1>1, StepTruth DEF ListsTyped
<1>4. ListsTyped'
      BY <1>1, <1>3 DEF ListsTyped, Still
<1>5. QueueGood'
  <2>1. Good(queue, kind')
        BY <1>1, <1>2, SameKinds DEF QueueGood
  <2> QED
      BY <1>1, <2>1 DEF QueueGood, Still
<1>6. Shifts(t, {})
  <2>1. Listed(t)' = Listed(t)
        BY DEF Still, Listed
  <2>2. Waiting(queue') = Waiting(queue) /\ Elems(cvqueue') = Elems(cvqueue)
        BY DEF Still
  <2>3. \A u \in Threads : Listed(u)' = Listed(u)
        BY <1>1, <2>1 DEF Others, Listed
  <2>4. \A x \in Threads : Unlinked(x) => Unlinked(x)'
        BY <1>1 DEF Others, Unlinked, Target, Still
  <2>5. \A x : Somewhere(x)' <=> Somewhere(x)
        BY <2>2, <2>3 DEF Somewhere
  <2>6. (scan'[t].wl # <<>> <=> pc'[t] \in Giving) /\ Distinct(scan'[t].wl)
        BY <1>1 DEF Places, Still
  <2>7. Listed(t) \cap (Waiting(queue) \cup Elems(cvqueue)) = {}
        BY <1>1 DEF Places
  <2> QED
      BY <1>1, <2>1, <2>2, <2>6, <2>7 DEF Shifts, Places, Still
<1>7. Places' /\ Asleep'
      BY <1>1, <1>6, StepSleeps, ShiftsKeep
<1>8. Walks'
  <2>1. ASSUME NEW u \in Threads \ {t}, Walker(u) PROVE Searches(u)'
    <3>1. truth' = truth
      <4>1. pc[t] = "held" => Holds(t)
            BY DEF Holds
      <4> QED
          BY <1>1, <1>3, <2>1, <4>1, WalkersHold
    <3>2. scan'[u] = scan[u] /\ pc'[u] = pc[u]
          BY <1>1 DEF Others
    <3>3. queue' = queue /\ unlocking' = unlocking
          BY DEF Still
    <3> QED
        BY <1>1, <1>2, <2>1, <3>1, <3>2, <3>3, SearchKept
  <2> QED
      BY <1>1, <2>1, WalksKept DEF Still
<1> QED
    BY <1>4, <1>5, <1>7, <1>8 DEF Lists

(* A thread that is not unlocking searches nothing.                        *)
LEMMA NotSearching ==
  ASSUME Walks, Places, NEW t \in Threads, pc[t] \notin {"walk", "unlock", "release"}
  PROVE  Idle(t) /\ (pc[t] \notin Giving => scan[t].wl = <<>>)
BY DEF Walks, Walker, Searches, Idle, Places

(* UnlockSlow's locals before and after a search.                          *)
LEMMA NoScanIs ==
  /\ NoScan.w = Null /\ NoScan.pw = Null /\ NoScan.old = Null /\ NoScan.knownFalse = Null
  /\ NoScan.wl = <<>> /\ NoScan \in Scans
BY DEF NoScan, Scans

(* Most steps are none of the queues' business.                            *)
Quiet(t) ==
  \/ Lock(t) \/ TryLock(t) \/ LockAcquire(t) \/ LockJoin(t) \/ LockSpin(t)
  \/ BlockCheck(t) \/ SemWait(t) \/ SemTimeout(t) \/ TimeoutSatisfied(t)
  \/ Await(t) \/ Unlock(t) \/ UnlockFastWriter(t) \/ UnlockFastReader(t)
  \/ Wait(t) \/ WaitNotNeeded(t) \/ CvBlockCheck(t) \/ FerSpin(t)

(* They leave the queues and the lists alone.                              *)
LEMMA QuietIsStill ==
  ASSUME NEW t \in Threads, Before(t), Quiet(t)
  PROVE  Still(t)
<1>1. /\ Typed /\ Typed' /\ Alone(t) /\ ListsTyped /\ Places /\ Walks
      /\ pc \in [Threads -> Labels] /\ scan \in [Threads -> Scans]
      BY DEF Before, Lists, Moves, Typed, ListsTyped
<1>2. \A u \in Threads \ {t} : pc'[u] = pc[u]
      BY <1>1 DEF Alone
<1>3. pc[t] \notin {"walk", "unlock", "release"} => Idle(t)
      BY <1>1, NotSearching
<1>4. pc[t] \notin Giving => scan[t].wl = <<>>
      BY <1>1 DEF Places
<1>5. ASSUME UNCHANGED <<queue, unlocking, cvqueue, linked, queued, scan>>,
             pc[t] \notin {"walk", "unlock", "release", "post", "woken"},
             pc'[t] \notin {"walk", "post", "woken"}, pc[t] \in Giving <=> pc'[t] \in Giving
      PROVE  Still(t)
      BY <1>1, <1>2, <1>3, <1>5 DEF Still, Others, Idle
<1>6. ASSUME UNCHANGED <<queue, unlocking, cvqueue, linked, queued>>,
             scan' = [scan EXCEPT ![t] = NoScan],
             pc[t] = "unlock", pc'[t] = "idle"
      PROVE  Still(t)
  <2>1. /\ scan'[t] = NoScan /\ (\A u \in Threads \ {t} : scan'[u] = scan[u])
        /\ scan' \in [Threads -> Scans]
        BY <1>1, <1>6, NoScanIs
  <2>2. scan[t].wl = <<>>
        BY <1>4, <1>6 DEF Giving
  <2> QED
      BY <1>2, <1>6, <2>1, <2>2, NoScanIs DEF Still, Others, Idle, Giving
<1>7. ASSUME UNCHANGED <<queue, unlocking, cvqueue, linked, queued>>,
             NEW b \in BOOLEAN, scan' = [scan EXCEPT ![t].wrWait = b],
             pc[t] = "lock", pc'[t] = "enqueue"
      PROVE  Still(t)
  <2>1. scan[t] \in Scans
        BY <1>1
  <2>2. /\ scan'[t] = [scan[t] EXCEPT !.wrWait = b]
        /\ \A u \in Threads \ {t} : scan'[u] = scan[u]
        BY <1>1, <1>7
  <2>3. /\ scan'[t] \in Scans /\ scan'[t].old = scan[t].old /\ scan'[t].w = scan[t].w
        /\ scan'[t].pw = scan[t].pw /\ scan'[t].knownFalse = scan[t].knownFalse
        /\ scan'[t].wl = scan[t].wl
        BY <2>1, <2>2 DEF Scans
  <2>4. scan' \in [Threads -> Scans]
        BY <1>1, <1>7, <2>2, <2>3
  <2> QED
      BY <1>2, <1>3, <1>7, <2>2, <2>3, <2>4 DEF Still, Others, Idle, Giving
<1> USE DEF listVars, nodeVars, Giving
<1>11. CASE Lock(t)
      BY <1>11, <1>1, <1>5 DEF Lock, AtCall
<1>12. CASE TryLock(t)
      BY <1>12, <1>1, <1>5, TryLockGetsOrFails DEF TryLock, TryLockGets, TryLockFails
<1>13. CASE LockAcquire(t)
      BY <1>13, <1>1, <1>5 DEF LockAcquire, GotLock
<1>14. CASE LockJoin(t)
      BY <1>14, <1>1, <1>5 DEF LockJoin, GotLock
<1>15. CASE LockSpin(t)
      BY <1>15, <1>1, <1>7 DEF LockSpin
<1>16. CASE BlockCheck(t)
      BY <1>16, <1>1, <1>5 DEF BlockCheck
<1>17. CASE SemWait(t)
      BY <1>17, <1>1, <1>5 DEF SemWait
<1>18. CASE SemTimeout(t)
      BY <1>18, <1>1, <1>5 DEF SemTimeout
<1>19. CASE TimeoutSatisfied(t)
      BY <1>19, <1>1, <1>5 DEF TimeoutSatisfied
<1>20. CASE Await(t)
      BY <1>20, <1>1, <1>5 DEF Await, AtCall
<1>21. CASE Unlock(t)
      BY <1>21, <1>1, <1>5 DEF Unlock, AtCall
<1>22. CASE UnlockFastWriter(t)
      BY <1>22, <1>1, <1>6 DEF UnlockFastWriter, Leave
<1>23. CASE UnlockFastReader(t)
      BY <1>23, <1>1, <1>6 DEF UnlockFastReader, Leave
<1>24. CASE Wait(t)
      BY <1>24, <1>1, <1>5 DEF Wait, AtCall
<1>25. CASE WaitNotNeeded(t)
      BY <1>25, <1>1, <1>5 DEF WaitNotNeeded, AtCall
<1>26. CASE CvBlockCheck(t)
      BY <1>26, <1>1, <1>5 DEF CvBlockCheck
<1>27. CASE FerSpin(t)
      BY <1>27, <1>1, <1>5 DEF FerSpin
<1> QED
    BY <1>11, <1>12, <1>13, <1>14, <1>15, <1>16, <1>17, <1>18, <1>19, <1>20, <1>21, <1>22, <1>23,
       <1>24, <1>25, <1>26, <1>27
       DEF Quiet

-----------------------------------------------------------------------------
(* The other steps change a queue or a list, and no condition.             *)
LEMMA ChangeKeeps ==
  ASSUME NEW t \in Threads, Before(t), UNCHANGED <<how, cond, truth>>,
         Good(queue', kind), queue'.failed = {},
         scan' \in [Threads -> Scans], cvqueue' \in Seq(Threads),
         Others(t), NEW G, Shifts(t, G), Walks'
  PROVE  Lists'
<1>1. /\ Typed /\ CallAtHand(t) /\ Moves(t) /\ Step(t) /\ SpinBit
      /\ ListsTyped /\ Places /\ Asleep
      BY DEF Before, Lists
<1>2. kind' = kind
      BY DEF kind
<1>3. ListsTyped'
      BY <1>1 DEF ListsTyped
<1>4. QueueGood'
      BY <1>2 DEF QueueGood
<1>5. Places' /\ Asleep'
      BY <1>1, StepSleeps, ShiftsKeep
<1> QED
    BY <1>3, <1>4, <1>5 DEF Lists

(* Searches go on while others join the queue.                             *)
LEMMA WalksJoined ==
  ASSUME NEW t \in Threads, Before(t), UNCHANGED <<how, cond, truth>>, Others(t), Idle(t)',
         NEW S, Joins(S, queue, unlocking)
  PROVE  Walks'
<1>1. Walks
      BY DEF Before, Lists
<1>2. kind' = kind
      BY DEF kind
<1>3. \A u \in Threads \ {t} : Walker(u) => Searches(u)'
      BY <1>1, <1>2, SearchFollows DEF Others
<1> QED
    BY <1>1, <1>3, WalksKept

(* Searches go on while the queue stays as it is.                          *)
LEMMA WalksStay ==
  ASSUME NEW t \in Threads, Before(t), UNCHANGED <<how, cond, truth>>, Others(t), Idle(t)',
         UNCHANGED <<queue, unlocking>>
  PROVE  Walks'
<1>1. Walks /\ QueueGood
      BY DEF Before, Lists
<1>2. kind' = kind
      BY DEF kind
<1>3. \A u \in Threads \ {t} : Walker(u) => Searches(u)'
      BY <1>1, <1>2, SearchKept DEF Others
<1> QED
    BY <1>1, <1>3, WalksKept

(* t joins the queue, or nobody.                                           *)
LEMMA JoinShifts ==
  ASSUME NEW t \in Threads, Before(t), NEW S, S \subseteq {t},
         Waiting(queue') = Waiting(queue) \cup S, linked' = linked \cup S, queued' = queued \cup S,
         cvqueue' = cvqueue, pc[t] \notin Giving, pc'[t] \notin Giving, scan'[t].wl = <<>>,
         Others(t), t \in S => ~Sleeps(t) /\ Sleeps(t)'
  PROVE  Shifts(t, S)
<1>1. Places /\ Asleep
      BY DEF Before, Lists
<1>2. scan[t].wl = <<>>
      BY <1>1 DEF Places
<1>3. Listed(t) = {} /\ Listed(t)' = {}
  <2>1. pc[t] # "post" /\ pc'[t] # "post"
        BY DEF Giving
  <2> QED
      BY <1>2, <2>1 DEF Listed, Elems
<1>4. t \in S => ~Somewhere(t)
      BY <1>1 DEF Asleep
<1>5. Elems(cvqueue') \cap Waiting(queue') = {}
      BY <1>1, <1>4 DEF Places, Somewhere
<1>7. Distinct(scan'[t].wl) /\ Distinct(cvqueue')
      BY <1>1 DEF Places, Distinct
<1>8. \A x : pc[t] = "woken" /\ x = Target(t) => ~Somewhere(x)'
      BY DEF Giving
<1> QED
    BY <1>3, <1>4, <1>5, <1>7, <1>8 DEF Shifts

(* t joins the queue, in all.                                              *)
LEMMA JoinKeeps ==
  ASSUME NEW t \in Threads, Before(t), UNCHANGED <<how, cond, truth, cvqueue>>,
         NEW S, S \subseteq {t}, Waiting(queue') = Waiting(queue) \cup S,
         Good(queue', kind), queue'.failed = {},
         linked' = linked \cup S, queued' = queued \cup S,
         pc[t] \notin Giving, pc'[t] \notin Giving \cup {"walk"},
         scan' = [scan EXCEPT ![t] = NoScan] \/ (scan' = scan /\ pc[t] = "lock"),
         t \in S => ~Sleeps(t) /\ Sleeps(t)',
         \/ Joins(S, queue, unlocking)
         \/ \A u \in Threads \ {t} : ~Walker(u)
  PROVE  Lists'
<1>1. /\ ListsTyped /\ Walks /\ Moves(t) /\ Places
      BY DEF Before, Lists
<1>2. scan' \in [Threads -> Scans] /\ scan'[t].wl = <<>> /\ Idle(t)'
  <2>1. CASE scan' = [scan EXCEPT ![t] = NoScan]
    <3>1. scan'[t] = NoScan /\ scan' \in [Threads -> Scans]
          BY <1>1, <2>1, NoScanIs DEF ListsTyped
    <3> QED
        BY <3>1, NoScanIs DEF Idle
  <2>2. CASE scan' = scan /\ pc[t] = "lock"
        BY <1>1, <2>2, NotSearching DEF ListsTyped, Idle
  <2> QED
      BY <2>1, <2>2
<1>3. Others(t) /\ cvqueue' \in Seq(Threads)
      BY <1>1 DEF Others, Moves, Alone, ListsTyped
<1>4. Idle(t)'
      BY <1>2
<1>5. Shifts(t, S)
      BY <1>2, <1>3, JoinShifts
<1>6. Walks'
  <2>1. CASE Joins(S, queue, unlocking)
        BY <1>3, <1>4, <2>1, WalksJoined
  <2>2. CASE \A u \in Threads \ {t} : ~Walker(u)
        BY <1>1, <1>3, <1>4, <2>2, WalksKept
  <2> QED
      BY <2>1, <2>2
<1> QED
    BY <1>2, <1>3, <1>5, <1>6, ChangeKeeps

(* LockSlowLoop queues t.                                                  *)
LEMMA LockKeeps ==
  ASSUME NEW t \in Threads, Before(t), LockOnlyWaiter(t) \/ LockEnqueue(t)
  PROVE  Lists' /\ Waiting(queue') = Waiting(queue) \cup {t}
<1>1. QueueGood /\ Places /\ Asleep /\ pc \in [Threads -> Labels]
      BY DEF Before, Lists, Typed
<1>2. /\ EnqueueOn(t, t) /\ pc[t] \in {"lock", "enqueue"} /\ pc'[t] = "block"
      /\ UNCHANGED <<how, cond, truth, cvqueue>>
      /\ scan' = [scan EXCEPT ![t] = NoScan] \/ (scan' = scan /\ pc[t] = "lock")
      BY <1>1 DEF LockOnlyWaiter, LockEnqueue
<1>3. ~Sleeps(t) /\ Sleeps(t)'
      BY <1>2 DEF Sleeps
<1>4. t \in Threads \ Waiting(queue)
      BY <1>1, <1>3 DEF Asleep, Somewhere
<1>5. Joins({t}, queue, unlocking)
      BY <1>1, <1>2, <1>4, EnqueueJoins
<1>6. /\ Waiting(queue') = Waiting(queue) \cup {t} /\ Good(queue', kind) /\ queue'.failed = {}
      /\ linked' = linked \cup {t} /\ queued' = queued \cup {t}
      BY <1>5 DEF Joins
<1>7. pc[t] \notin Giving /\ pc'[t] \notin Giving \cup {"walk"}
      BY <1>2 DEF Giving
<1> QED
    BY <1>2, <1>3, <1>5, <1>6, <1>7, JoinKeeps

(* Where UnlockSlow's critical section is entered.                         *)
LEMMA SlowIs ==
  ASSUME NEW t \in Threads, Before(t), InSlow(t)
  PROVE  /\ pc[t] \in {"unlock", "release"} /\ Holds(t) /\ Typed /\ QueueGood /\ ListsTyped
         /\ Walks /\ Places /\ Moves(t) /\ Alone(t) /\ pc[t] \notin Giving /\ scan[t].wl = <<>>
         /\ pc[t] = "release" => after[t] = "cvblock"
         /\ after[t] \in {"idle", "block", "cvblock"}
         /\ after[t] = "block" => ~Sleeps(t) /\ t \notin Waiting(queue)
         /\ Has({kMuWait}) => queue.seq # <<>>
         /\ LastHolder => \A u \in Threads \ {t} : ~Holds(u) /\ ~Walker(u)
<1>1. /\ Typed /\ QueueGood /\ ListsTyped /\ Walks /\ Places /\ Asleep /\ Moves(t) /\ SpinBit
      /\ CallAtHand(t) /\ WordMatchesHolders
      BY DEF Before, Lists
<1>2. pc[t] \in {"unlock", "release"} /\ Holds(t)
      BY DEF InSlow, SpinFree, Holds
<1>3. pc[t] = "release" => after[t] = "cvblock"
      BY <1>1 DEF SpinBit
<1>4. after[t] \in {"idle", "block", "cvblock"}
      BY <1>1, <1>2 DEF CallAtHand, Typed
<1>5. after[t] = "block" => ~Sleeps(t)
      BY <1>2, <1>3 DEF Sleeps
<1>6. after[t] = "block" => t \notin Waiting(queue)
      BY <1>1, <1>5 DEF Asleep, Somewhere
<1>7. Has({kMuWait}) => queue.seq # <<>>
      BY DEF Before, WordMatchesQueue, Has
<1>8. ASSUME LastHolder PROVE \A u \in Threads \ {t} : ~Holds(u) /\ ~Walker(u)
  <2>1. kMuWriter \in mu \/ readers = 1
    <3>1. /\ readers \in Nat /\ (kMuReader \in mu <=> readers > 0)
          /\ (kMuWriter \in mu \/ kMuReader \in mu)
          BY <1>1, <1>2, HoldersAre
    <3>2. ~(kMuReader \in mu /\ readers > 1)
          BY <1>8 DEF LastHolder, Has
    <3> QED
        BY <3>1, <3>2
  <2>2. \A u \in Threads : Holds(u) => u = t
        BY <1>1, <1>2, <2>1, HoldersAre
  <2> QED
      BY <1>1, <2>2, WalkersHold
<1>9. pc[t] \notin Giving /\ scan[t].wl = <<>>
      BY <1>1, <1>2 DEF Giving, Places
<1> QED
    BY <1>1, <1>2, <1>3, <1>4, <1>5, <1>6, <1>7, <1>8, <1>9 DEF Moves

(* UnlockSlow releases the lock and wakes nobody.                          *)
LEMMA UnlockKeeps ==
  ASSUME NEW t \in Threads, Before(t),
         UnlockNoWaiters(t) \/ UnlockNotLast(t) \/ UnlockNobody(t)
  PROVE  Lists' /\ Waiting(queue') = Waiting(queue) \cup Requeued(t)
<1>1. /\ InSlow(t) /\ Goto(t, after[t]) /\ truth' = truth /\ scan' = [scan EXCEPT ![t] = NoScan]
      /\ UNCHANGED <<how, cond, cvqueue, after>>
      BY Zenon DEF UnlockNoWaiters, UnlockNotLast, UnlockNobody, Leave, callVars, Set
<1>2. /\ pc[t] \in {"unlock", "release"} /\ Typed /\ QueueGood /\ Walks /\ pc[t] \notin Giving
      /\ after[t] \in {"idle", "block", "cvblock"}
      /\ after[t] = "block" => ~Sleeps(t) /\ t \notin Waiting(queue)
      /\ LastHolder => \A u \in Threads \ {t} : ~Walker(u)
      BY <1>1, SlowIs
<1>3. pc'[t] = after[t]
      BY <1>1, <1>2 DEF Typed
<1>4. t \in Requeued(t) => ~Sleeps(t) /\ Sleeps(t)'
      BY <1>2, <1>3 DEF Requeued, Sleeps
<1>5. /\ Waiting(queue') = Waiting(queue) \cup Requeued(t) /\ Good(queue', kind)
      /\ queue'.failed = {} /\ linked' = linked \cup Requeued(t)
      /\ queued' = queued \cup Requeued(t)
      /\ Joins(Requeued(t), queue, unlocking) \/ LastHolder
  <2>1. CASE UnlockNoWaiters(t) \/ UnlockNotLast(t)
    <3>1. PICK new \in Requeue(t, queue, unlocking) : Store(new)
          BY <2>1 DEF UnlockNoWaiters, UnlockNotLast
    <3>2. Joins(Requeued(t), queue, unlocking)
          BY <1>2, <3>1, StoreJoins DEF QueueGood
    <3> QED
        BY <3>2 DEF Joins
  <2>2. CASE UnlockNobody(t)
    <3>1. LastHolder /\ WordMatchesQueue
          BY <2>2 DEF UnlockNobody, Before
    <3> QED
        BY <1>2, <2>2, <3>1, NobodyRuns
  <2> QED
      BY <2>1, <2>2
<1>6. Requeued(t) \subseteq {t} /\ pc'[t] \notin Giving \cup {"walk"}
      BY <1>2, <1>3 DEF Requeued, Giving
<1> QED
    BY <1>1, <1>2, <1>4, <1>5, <1>6, JoinKeeps

(* UnlockSlow takes waiters off the queue.                                 *)
LEMMA WakeKeeps ==
  ASSUME NEW t \in Threads, Before(t), UnlockWake(t)
  PROVE  Lists'
<1>1. /\ InSlow(t) /\ LastHolder /\ Goto(t, "wake") /\ UNCHANGED <<clientVars, callVars>>
      /\ cvqueue' = cvqueue
      BY Zenon, UnlockWakeWord DEF UnlockWake
<1>2. /\ pc[t] \in {"unlock", "release"} /\ Typed /\ QueueGood /\ ListsTyped /\ Walks /\ Places
      /\ Moves(t) /\ pc[t] \notin Giving /\ scan[t].wl = <<>>
      /\ after[t] = "block" => ~Sleeps(t) /\ t \notin Waiting(queue)
      /\ \A u \in Threads \ {t} : ~Walker(u)
      BY <1>1, SlowIs
<1>3. WordMatchesQueue /\ Asleep
      BY DEF Before, Lists
<1>4. PICK list \in Seq(Threads), b \in SUBSET {kMuWrWait} :
           /\ list # <<>> /\ Distinct(list) /\ Elems(list) \subseteq Waiting(queue)
           /\ scan' = [scan EXCEPT ![t] = [NoScan EXCEPT !.wl = list]]
           /\ Good(queue', kind) /\ queue'.failed = {}
           /\ Waiting(queue') = (Waiting(queue) \ Elems(list)) \cup Requeued(t)
           /\ linked' = linked \cup Requeued(t) /\ queued' = queued \cup Requeued(t)
           /\ mu' = {kMuDesig} \cup WaitBits(queue', b)
      BY <1>2, <1>3, WakeTakes
<1>5. pc'[t] = "wake"
      BY <1>1, <1>2 DEF Typed
<1>6. /\ scan'[t] = [NoScan EXCEPT !.wl = list] /\ scan'[t].wl = list
      /\ \A u \in Threads \ {t} : scan'[u] = scan[u]
      BY <1>2, <1>4 DEF ListsTyped, NoScan
<1>7. scan'[t] \in Scans /\ Idle(t)'
  <2>1. /\ scan'[t].w = Null /\ scan'[t].pw = Null /\ scan'[t].old = Null
        /\ scan'[t].knownFalse = Null
        BY <1>6 DEF NoScan
  <2>2. NoScan \in Scans /\ list \in Seq(Threads)
        BY <1>4, NoScanIs
  <2>3. [NoScan EXCEPT !.wl = list] \in Scans
        BY <2>2 DEF Scans
  <2> QED
      BY <1>5, <1>6, <2>1, <2>3 DEF Idle
<1>8. scan' \in [Threads -> Scans] /\ cvqueue' \in Seq(Threads) /\ Others(t)
      BY <1>1, <1>2, <1>4, <1>6, <1>7 DEF ListsTyped, Others, Moves, Alone
<1>9. Listed(t) = {} /\ Listed(t)' = Elems(list)
      BY <1>2, <1>5, <1>6 DEF Listed, Elems, Giving
<1> DEFINE G == Requeued(t)
<1>10. G \subseteq {t} /\ (t \in G => ~Sleeps(t) /\ Sleeps(t)' /\ ~Somewhere(t))
  <2>1. after[t] = "block" => ~Sleeps(t) /\ Sleeps(t)'
        BY <1>1, <1>2, <1>5 DEF Sleeps
  <2> QED
      BY <1>3, <2>1 DEF Requeued, Asleep
<1>11. /\ Waiting(queue') = (Waiting(queue) \ Elems(list)) \cup G /\ linked' = linked \cup G
       /\ queued' = queued \cup G
       BY <1>4
<1> HIDE DEF G
<1>12. Shifts(t, G)
  <2>1. /\ Elems(cvqueue) \cap Waiting(queue) = {} /\ G \cap Waiting(queue) = {}
        /\ G \cap Elems(cvqueue) = {}
        BY <1>2, <1>10 DEF Places, Somewhere
  <2>2. /\ scan'[t].wl # <<>> /\ pc'[t] \in Giving /\ Distinct(scan'[t].wl) /\ Distinct(cvqueue')
        BY <1>1, <1>2, <1>4, <1>5, <1>6 DEF Giving, Places
  <2>3. \A x : pc[t] = "woken" /\ x = Target(t) => ~Somewhere(x)'
        BY <1>2
  <2> QED
      BY <1>1, <1>4, <1>9, <1>10, <1>11, <2>1, <2>2, <2>3 DEF Shifts
<1>13. Walks'
       BY <1>2, <1>7, <1>8, WalksKept
<1> QED
    BY <1>1, <1>4, <1>8, <1>12, <1>13, ChangeKeeps

(* t walks the queue.                                                      *)
LEMMA WalkKeeps ==
  ASSUME NEW t \in Threads, Before(t), UnlockStartWalk(t) \/ UnlockWalk(t)
  PROVE  Lists' /\ Waiting(queue') = Waiting(queue) /\ queue'.seq = queue.seq
<1>1. /\ Typed /\ QueueGood /\ ListsTyped /\ Walks /\ Places /\ Moves(t) /\ WordMatchesQueue
      /\ WordMatchesHolders
      BY DEF Before, Lists
<1>2. Walking(t)
      BY <1>1, WalkStarts, WalkGoesOn
<1>3. /\ pc[t] \in {"unlock", "walk"} /\ pc'[t] \in {"unlock", "walk"}
      /\ UNCHANGED <<how, cond, truth, cvqueue, linked, queued>>
  <2>1. CASE UnlockStartWalk(t)
    <3>1. /\ SpinFree(t) /\ pc' = [pc EXCEPT ![t] = "walk"]
          /\ UNCHANGED <<how, cond, truth, cvqueue, linked, queued>>
          BY <2>1, ZenonT(30) DEF UnlockStartWalk, nodeVars
    <3> QED
        BY <1>1, <3>1 DEF SpinFree, Typed
  <2>2. CASE UnlockWalk(t)
    <3>1. /\ pc[t] = "walk" /\ \E l \in {"unlock", "walk"} : pc' = [pc EXCEPT ![t] = l]
          /\ UNCHANGED <<how, cond, truth, cvqueue, linked, queued>>
          BY <2>2 DEF UnlockWalk, nodeVars
    <3> QED
        BY <1>1, <3>1, SMTT(30) DEF Typed
  <2> QED
      BY <2>1, <2>2
<1>4. /\ Good(queue', kind) /\ queue'.failed = {} /\ Waiting(queue') = Waiting(queue)
      /\ queue'.seq = queue.seq
      /\ scan'[t] \in Scans /\ scan' = [scan EXCEPT ![t] = scan'[t]]
      /\ scan'[t].wl = scan[t].wl
      BY <1>2 DEF Walking
<1>5. scan' \in [Threads -> Scans] /\ Others(t) /\ cvqueue' \in Seq(Threads)
      BY <1>1, <1>3, <1>4 DEF ListsTyped, Others, Moves, Alone
<1>6. Shifts(t, {})
  <2>1. Listed(t)' = Listed(t)
        BY <1>3, <1>4 DEF Listed
  <2>2. /\ scan'[t].wl # <<>> <=> pc'[t] \in Giving
        /\ Distinct(scan'[t].wl) /\ Distinct(cvqueue')
        BY <1>1, <1>3, <1>4 DEF Places, Giving
  <2>3. Listed(t) \cap (Waiting(queue) \cup Elems(cvqueue)) = {}
        BY <1>1 DEF Places
  <2> QED
      BY <1>1, <1>3, <1>4, <2>1, <2>2, <2>3 DEF Shifts, Places
<1>7. \A u \in Threads \ {t} : ~Walker(u)
  <2>1. CASE UnlockStartWalk(t)
    <3>1. SpinFree(t) /\ MustWalk(t)
          BY <2>1, Zenon DEF UnlockStartWalk
    <3>2. LastHolder /\ pc[t] = "unlock"
          BY <3>1 DEF MustWalk, SpinFree
    <3>3. Holds(t)
          BY <3>2 DEF Holds
    <3>4. kMuWriter \in mu \/ readers = 1
      <4>1. /\ readers \in Nat /\ (kMuReader \in mu <=> readers > 0)
            /\ (kMuWriter \in mu \/ kMuReader \in mu)
            BY <1>1, <3>3, HoldersAre
      <4>2. ~(kMuReader \in mu /\ readers > 1)
            BY <3>2, SMTT(30) DEF LastHolder, Has
      <4> QED
          BY <4>1, <4>2
    <3> QED
        BY <1>1, <3>3, <3>4, WalkersHold
  <2>2. CASE UnlockWalk(t)
    <3>1. Walker(t)
          BY <1>1, <2>2 DEF Walks, UnlockWalk
    <3> QED
        BY <1>1, <3>1, SMTT(30) DEF Walks
  <2> QED
      BY <2>1, <2>2
<1>8. Walker(t)' /\ Searches(t)'
  <2>1. kind' = kind
        BY <1>3 DEF kind
  <2> QED
      BY <1>2, <1>3, <2>1 DEF Walking, Walker, Searches
<1>9. Walks'
      BY <1>1, <1>5, <1>7, <1>8, WalksKept
<1> QED
    BY <1>3, <1>4, <1>5, <1>6, <1>9, ChangeKeeps

-----------------------------------------------------------------------------
(* The list of a thread that wakes others.                                 *)
LEMMA GivingIs ==
  ASSUME NEW t \in Threads, Before(t), pc[t] \in Giving
  PROVE  /\ scan[t] \in Scans /\ scan[t].wl \in Seq(Threads) /\ scan[t].wl # <<>>
         /\ Distinct(scan[t].wl) /\ Target(t) \in Threads /\ Target(t) \in Elems(scan[t].wl)
         /\ Tail(scan[t].wl) \in Seq(Threads) /\ Distinct(Tail(scan[t].wl))
         /\ Len(scan[t].wl) > 1 <=> Tail(scan[t].wl) # <<>>
         /\ Elems(scan[t].wl) = {Target(t)} \cup Elems(Tail(scan[t].wl))
         /\ Target(t) \notin Elems(Tail(scan[t].wl))
         /\ Idle(t)
<1>1. /\ scan[t] \in Scans /\ scan[t].wl \in Seq(Threads) /\ scan[t].wl # <<>>
      /\ Distinct(scan[t].wl)
      BY DEF Before, Lists, ListsTyped, Scans, Places
<1>2. Idle(t)
      BY NotSearching DEF Giving, Before, Lists
<1> QED
    BY <1>1, <1>2, TailIs DEF Target

(* t clears the next field of the waiter it wakes, then the state.         *)
LEMMA UnlinkKeeps ==
  ASSUME NEW t \in Threads, Before(t), Wakeup(t) \/ CvWakeup(t)
  PROVE  Lists' /\ UNCHANGED <<queue, mu, truth, cond>>
<1>1. /\ Typed /\ QueueGood /\ ListsTyped /\ Places /\ Moves(t)
      BY DEF Before, Lists
<1>2. /\ pc[t] \in {"wake", "signal"} /\ pc'[t] = "woken"
      /\ UNCHANGED <<how, cond, truth, cvqueue, queue, mu, unlocking, queued, scan>>
      /\ linked' = linked \ {Target(t)}
      BY <1>1 DEF Wakeup, CvWakeup, WakeUnlink, Typed, listVars
<1>3. scan' \in [Threads -> Scans] /\ Others(t) /\ cvqueue' \in Seq(Threads) /\ Idle(t)'
  <2>1. Idle(t)
        BY <1>2, GivingIs DEF Giving
  <2> QED
      BY <1>1, <1>2, <2>1 DEF ListsTyped, Others, Moves, Alone, Idle
<1>4. Shifts(t, {})
  <2>1. Listed(t)' = Listed(t)
        BY <1>2 DEF Listed
  <2>2. /\ scan'[t].wl # <<>> <=> pc'[t] \in Giving
        /\ Distinct(scan'[t].wl) /\ Distinct(cvqueue')
        BY <1>1, <1>2 DEF Places, Giving
  <2>3. Listed(t) \cap (Waiting(queue) \cup Elems(cvqueue)) = {}
        BY <1>1 DEF Places
  <2>4. Unlinked(Target(t))'
    <3>1. Target(t)' = Target(t)
          BY <1>2 DEF Target
    <3>2. \E u \in Threads : pc'[u] = "woken" /\ Target(t) = Target(u)'
          BY <1>2, <3>1
    <3> QED
        BY <3>1, <3>2 DEF Unlinked
  <2>5. \A x \in linked : x \in linked' \/ x = Target(t)
        BY <1>2
  <2>6. \A x \in linked : Somewhere(x)' => x \in linked' \/ Unlinked(x)'
    <3> SUFFICES ASSUME NEW x \in linked, x = Target(t) PROVE Unlinked(x)'
        BY <2>5
    <3>1. PICK u \in Threads : pc'[u] = "woken" /\ Target(t)' = Target(u)'
          BY <2>4 DEF Unlinked
    <3>2. x = Target(u)'
          BY <1>2, <3>1 DEF Target
    <3> QED
        BY <3>1, <3>2 DEF Unlinked
  <2> QED
      BY <1>1, <1>2, <2>1, <2>2, <2>3, <2>6 DEF Shifts, Places
<1>5. Walks'
      BY <1>2, <1>3, WalksStay
<1> QED
    BY <1>1, <1>2, <1>3, <1>4, <1>5, ChangeKeeps DEF QueueGood

(* A step of a wakeup: the waiter's state says that it is no longer        *)
(* queued.                                                                 *)
LEMMA StateKeeps ==
  ASSUME NEW t \in Threads, Before(t), WakeState(t)
  PROVE  Lists' /\ UNCHANGED <<queue, mu, truth, cond>>
<1>1. /\ Typed /\ QueueGood /\ ListsTyped /\ Places /\ Moves(t)
      BY DEF Before, Lists
<1>2. /\ pc[t] = "woken" /\ pc'[t] = "post"
      /\ UNCHANGED <<how, cond, truth, cvqueue, queue, mu, unlocking, linked, scan>>
      /\ queued' = queued \ {Target(t)}
      BY <1>1 DEF WakeState, Typed, listVars
<1>0. /\ Idle(t) /\ scan[t].wl # <<>> /\ Distinct(Tail(scan[t].wl))
      /\ Elems(scan[t].wl) = {Target(t)} \cup Elems(Tail(scan[t].wl))
      /\ Target(t) \notin Elems(Tail(scan[t].wl))
      BY <1>2, GivingIs DEF Giving
<1>3. scan' \in [Threads -> Scans] /\ Others(t) /\ cvqueue' \in Seq(Threads) /\ Idle(t)'
      BY <1>0, <1>1, <1>2 DEF ListsTyped, Others, Moves, Alone, Idle
<1>4. Shifts(t, {})
  <2>1. /\ Listed(t) = Elems(scan[t].wl) /\ Listed(t)' = Elems(Tail(scan[t].wl))
        BY <1>2 DEF Listed
  <2>2. /\ scan'[t].wl # <<>> <=> pc'[t] \in Giving
        /\ Distinct(scan'[t].wl) /\ Distinct(cvqueue')
        BY <1>0, <1>1, <1>2 DEF Places, Giving
  <2>3. Listed(t) \cap (Waiting(queue) \cup Elems(cvqueue)) = {}
        BY <1>1 DEF Places
  <2>4. \A u \in Threads \ {t} : Listed(u)' = Listed(u) /\ Target(t) \notin Listed(u)
    <3>1. \A u \in Threads \ {t} : Listed(u) \cap Listed(t) = {}
          BY <1>1 DEF Places
    <3> QED
        BY <1>0, <1>3, <2>1, <3>1 DEF Others, Listed
  <2>5. Waiting(queue') = Waiting(queue) /\ Elems(cvqueue') = Elems(cvqueue)
        BY <1>2
  <2>6. ASSUME NEW x, x = Target(t) PROVE ~Somewhere(x)'
    <3>1. x \notin Waiting(queue') /\ x \notin Elems(cvqueue')
          BY <1>0, <2>1, <2>3, <2>5, <2>6
    <3>2. \A u \in Threads : x \notin Listed(u)'
          BY <1>0, <2>1, <2>4, <2>6
    <3> QED
        BY <3>1, <3>2 DEF Somewhere
  <2>7. \A x \in queued : Somewhere(x)' => x \in queued'
        BY <1>2, <2>6
  <2>8. Waiting(queue') \cup Elems(cvqueue') \cup Listed(t)'
          \subseteq Waiting(queue) \cup Elems(cvqueue) \cup Listed(t)
        BY <1>0, <2>1, <2>5
  <2>9. /\ Elems(cvqueue') \cap Waiting(queue') = {}
        /\ Listed(t)' \cap (Waiting(queue') \cup Elems(cvqueue')) = {}
        BY <1>0, <1>1, <2>1, <2>3, <2>5 DEF Places
  <2> QED
      BY <1>2, <2>2, <2>6, <2>7, <2>8, <2>9 DEF Shifts
<1>5. Walks'
      BY <1>2, <1>3, WalksStay
<1> QED
    BY <1>1, <1>2, <1>3, <1>4, <1>5, ChangeKeeps DEF QueueGood

(* One waiter is dealt with.                                               *)
LEMMA NextTargetIs ==
  ASSUME NEW t \in Threads, Before(t), NextTarget(t), pc[t] \in Giving
  PROVE  /\ scan' \in [Threads -> Scans] /\ scan'[t].wl = Tail(scan[t].wl) /\ Others(t) /\ Idle(t)'
         /\ truth' = truth /\ pc'[t] \notin {"post", "woken", "walk"}
         /\ pc'[t] \in {"signal", "wake"} \/ pc'[t] = after[t]
         /\ pc'[t] \notin {"unlock", "release"}
         /\ scan'[t].wl # <<>> <=> pc'[t] \in Giving
<1>1. /\ ListsTyped /\ Typed /\ Moves(t)
      BY DEF Before, Lists
<1>2. /\ scan[t] \in Scans /\ Tail(scan[t].wl) \in Seq(Threads) /\ Idle(t)
      /\ Len(scan[t].wl) > 1 <=> Tail(scan[t].wl) # <<>>
      BY GivingIs
<1>3. /\ scan' = [scan EXCEPT ![t].wl = Tail(@)] /\ truth' = truth
      /\ Len(scan[t].wl) > 1 => pc' = [pc EXCEPT ![t] = IF Signalling(t) THEN "signal" ELSE "wake"]
      /\ ~(Len(scan[t].wl) > 1) => pc' = [pc EXCEPT ![t] = after[t]]
      BY Zenon DEF NextTarget, Leave
<1>4. /\ scan'[t] = [scan[t] EXCEPT !.wl = Tail(scan[t].wl)]
      /\ \A u \in Threads \ {t} : scan'[u] = scan[u]
      BY <1>1, <1>3 DEF ListsTyped
<1>5. /\ scan'[t] \in Scans /\ scan'[t].wl = Tail(scan[t].wl) /\ scan'[t].old = scan[t].old
      /\ scan'[t].w = scan[t].w /\ scan'[t].pw = scan[t].pw
      /\ scan'[t].knownFalse = scan[t].knownFalse
      BY <1>2, <1>4 DEF Scans
<1>6. scan' \in [Threads -> Scans]
      BY <1>1, <1>3, <1>4, <1>5 DEF ListsTyped
<1>7. /\ Len(scan[t].wl) > 1 => pc'[t] \in {"signal", "wake"}
      /\ ~(Len(scan[t].wl) > 1) =>
           pc'[t] = after[t] /\ after[t] \in {"idle", "held", "block", "cvblock"}
      BY <1>1, <1>3 DEF Typed
<1>8. Others(t)
      BY <1>1, <1>4 DEF Others, Moves, Alone
<1>9. pc'[t] \notin {"post", "woken", "walk", "unlock", "release"}
      BY <1>7
<1>10. Idle(t)'
       BY <1>2, <1>5, <1>9 DEF Idle
<1>11. scan'[t].wl # <<>> <=> pc'[t] \in Giving
       BY <1>2, <1>5, <1>7 DEF Giving
<1> QED
    BY <1>3, <1>5, <1>6, <1>7, <1>8, <1>9, <1>10, <1>11

(* The waiter is woken: t goes on with the next one.                       *)
LEMMA PostKeeps ==
  ASSUME NEW t \in Threads, Before(t), IncrementSynchSem(t)
  PROVE  Lists' /\ UNCHANGED <<queue, mu, truth, cond>>
<1>1. /\ Typed /\ QueueGood /\ ListsTyped /\ Places /\ Moves(t)
      BY DEF Before, Lists
<1>2. /\ pc[t] = "post" /\ NextTarget(t)
      /\ UNCHANGED <<how, cond, cvqueue, queue, mu, unlocking, linked, queued>>
      BY <1>1 DEF IncrementSynchSem, Typed, listVars
<1>3. /\ scan' \in [Threads -> Scans] /\ scan'[t].wl = Tail(scan[t].wl) /\ Others(t) /\ Idle(t)'
      /\ truth' = truth /\ pc'[t] \notin {"post", "woken", "walk"}
      /\ scan'[t].wl # <<>> <=> pc'[t] \in Giving
  <2>1. pc[t] \in Giving /\ NextTarget(t)
        BY <1>2 DEF Giving
  <2> QED
      BY <2>1, NextTargetIs
<1>4. Distinct(Tail(scan[t].wl))
      BY <1>2, GivingIs DEF Giving
<1>5. Shifts(t, {})
  <2>1. Listed(t)' = Listed(t)
        BY <1>2, <1>3 DEF Listed
  <2>2. Listed(t) \cap (Waiting(queue) \cup Elems(cvqueue)) = {}
        BY <1>1 DEF Places
  <2> QED
      BY <1>1, <1>2, <1>3, <1>4, <2>1, <2>2 DEF Shifts, Places
<1>6. Walks'
      BY <1>2, <1>3, WalksStay
<1> QED
    BY <1>1, <1>2, <1>3, <1>5, <1>6, ChangeKeeps DEF QueueGood, ListsTyped

(* mutex::Fer puts the waiter on the queue of the mutex.                   *)
LEMMA FerKeeps ==
  ASSUME NEW t \in Threads, Before(t), FerOnlyWaiter(t) \/ FerEnqueue(t)
  PROVE  Lists' /\ Waiting(queue') = Waiting(queue) \cup {Target(t)} /\ queue'.seq # <<>>
<1>1. /\ Typed /\ QueueGood /\ ListsTyped /\ Places /\ Moves(t)
      BY DEF Before, Lists
<1>2. /\ pc[t] \in {"signal", "transfer"} /\ NextTarget(t) /\ EnqueueOn(Target(t), t)
      /\ UNCHANGED <<how, cond, cvqueue>>
      BY <1>1 DEF FerOnlyWaiter, FerEnqueue
<1>3. /\ scan' \in [Threads -> Scans] /\ scan'[t].wl = Tail(scan[t].wl) /\ Others(t) /\ Idle(t)'
      /\ truth' = truth /\ pc'[t] \notin {"post", "woken", "walk"}
      /\ scan'[t].wl # <<>> <=> pc'[t] \in Giving
  <2>1. pc[t] \in Giving /\ NextTarget(t)
        BY <1>2 DEF Giving
  <2> QED
      BY <2>1, NextTargetIs
<1>4. /\ Target(t) \in Threads /\ Target(t) \in Elems(scan[t].wl) /\ Distinct(Tail(scan[t].wl))
      /\ Elems(scan[t].wl) = {Target(t)} \cup Elems(Tail(scan[t].wl))
      /\ Target(t) \notin Elems(Tail(scan[t].wl))
      BY <1>2, GivingIs DEF Giving
<1>5. Listed(t) = Elems(scan[t].wl) /\ Listed(t)' = Elems(Tail(scan[t].wl))
      BY <1>2, <1>3 DEF Listed
<1>6. Elems(scan[t].wl) \cap (Waiting(queue) \cup Elems(cvqueue)) = {}
      BY <1>1, <1>5 DEF Places
<1>7. Joins({Target(t)}, queue, unlocking)
      BY <1>1, <1>2, <1>4, <1>6, EnqueueJoins
<1> DEFINE x == Target(t)
<1>8. /\ Waiting(queue') = Waiting(queue) \cup {x} /\ Good(queue', kind) /\ queue'.failed = {}
      /\ linked' = linked \cup {x} /\ queued' = queued \cup {x}
      BY <1>7 DEF Joins
<1> HIDE DEF x
<1>9. Shifts(t, {})
  <2>1. Listed(t)' \subseteq Listed(t) /\ x \in Listed(t) /\ x \notin Listed(t)'
        BY <1>4, <1>5 DEF x
  <2>2. /\ Elems(cvqueue) \cap Waiting(queue) = {}
        /\ Listed(t) \cap (Waiting(queue) \cup Elems(cvqueue)) = {}
        BY <1>1 DEF Places
  <2>3. Distinct(cvqueue')
        BY <1>1, <1>2 DEF Places
  <2> QED
      BY <1>2, <1>3, <1>4, <1>8, <2>1, <2>2, <2>3 DEF Shifts
<1>10. Walks'
       BY <1>2, <1>3, <1>7, WalksJoined
<1>11. queue'.seq # <<>>
       BY <1>8, EmptyIs
<1> QED
    BY <1>1, <1>2, <1>3, <1>8, <1>9, <1>10, <1>11, ChangeKeeps DEF ListsTyped, x

-----------------------------------------------------------------------------
(* CondVarEnqueue puts t on the queue of the condition variable.           *)
LEMMA CvEnqueueKeeps ==
  ASSUME NEW t \in Threads, Before(t), UnlockCvEnqueue(t)
  PROVE  Lists' /\ UNCHANGED <<queue, truth, cond>>
<1>1. /\ Typed /\ QueueGood /\ ListsTyped /\ Places /\ Asleep /\ Moves(t) /\ Walks
      BY DEF Before, Lists
<1>2. /\ pc[t] = "unlock" /\ pc'[t] = "release" /\ after[t] = "cvblock" /\ after' = after
      /\ UNCHANGED <<how, cond, truth, queue, unlocking, scan>>
      /\ cvqueue' = Append(cvqueue, t) /\ linked' = linked \cup {t} /\ queued' = queued \cup {t}
      BY <1>1 DEF UnlockCvEnqueue, SpinFree, Typed, listVars
<1>3. ~Sleeps(t) /\ Sleeps(t)'
      BY <1>2 DEF Sleeps
<1>4. ~Somewhere(t)
      BY <1>1, <1>3 DEF Asleep
<1>5. cvqueue' \in Seq(Threads) /\ Distinct(cvqueue') /\ Elems(cvqueue') = Elems(cvqueue) \cup {t}
  <2>1. cvqueue \in Seq(Threads) /\ Distinct(cvqueue) /\ t \notin Elems(cvqueue)
        BY <1>1, <1>4 DEF ListsTyped, Places, Somewhere
  <2> QED
      BY <1>2, <2>1, AppendDistinct
<1>6. scan' \in [Threads -> Scans] /\ Others(t)
      BY <1>1, <1>2 DEF ListsTyped, Others, Moves, Alone
<1>7. Shifts(t, {t})
  <2>1. scan[t].wl = <<>>
        BY <1>1, <1>2 DEF Places, Giving
  <2>2. Listed(t) = {} /\ Listed(t)' = {}
        BY <1>2, <2>1 DEF Listed, Elems
  <2>3. /\ scan'[t].wl # <<>> <=> pc'[t] \in Giving
        /\ Distinct(scan'[t].wl)
        BY <1>1, <1>2, <2>1 DEF Places, Giving
  <2>4. t \notin Waiting(queue) /\ Elems(cvqueue) \cap Waiting(queue) = {}
        BY <1>1, <1>4 DEF Places, Somewhere
  <2> QED
      BY <1>2, <1>3, <1>4, <1>5, <2>2, <2>3, <2>4 DEF Shifts
<1>8. Walks'
  <2>1. kind' = kind
        BY <1>2 DEF kind
  <2>2. \A u \in Threads : Walker(u) => Searches(u)'
        BY <1>1, <1>2, <1>6, <2>1, SearchKept DEF Others
  <2>3. CASE Walker(t)
    <3>1. Walker(t)' /\ \A u \in Threads \ {t} : ~Walker(u)
          BY <1>1, <1>2, <2>3 DEF Walks, Walker
    <3> QED
        BY <1>1, <1>6, <2>2, <2>3, <3>1, WalksKept
  <2>4. CASE ~Walker(t)
    <3>1. Idle(t)'
          BY <1>1, <1>2, <2>4 DEF Walks, Walker, Idle
    <3> QED
        BY <1>1, <1>6, <2>2, <3>1, WalksKept
  <2> QED
      BY <2>3, <2>4
<1> QED
    BY <1>1, <1>2, <1>5, <1>6, <1>7, <1>8, ChangeKeeps DEF QueueGood

(* cond_var::Remove takes t off the queue of the condition variable.       *)
LEMMA CvRemoveKeeps ==
  ASSUME NEW t \in Threads, Before(t), CvRemove(t)
  PROVE  Lists' /\ UNCHANGED <<queue, mu, truth, cond>>
<1>1. /\ Typed /\ QueueGood /\ ListsTyped /\ Places /\ Moves(t) /\ Walks
      BY DEF Before, Lists
<1> DEFINE here == {t} \cap Elems(cvqueue)
<1>2. /\ pc[t] = "cvtimedout" /\ pc'[t] = "cvblock"
      /\ UNCHANGED <<how, cond, truth, queue, mu, unlocking, scan>>
      /\ cvqueue' = Seqs!RemoveFirst(cvqueue, t)
      /\ linked' = linked \ here /\ queued' = queued \ here
      BY <1>1 DEF CvRemove, Typed, listVars, Elems
<1> HIDE DEF here
<1>3. cvqueue' \in Seq(Threads) /\ Distinct(cvqueue') /\ Elems(cvqueue') = Elems(cvqueue) \ {t}
  <2>1. cvqueue \in Seq(Threads) /\ Distinct(cvqueue)
        BY <1>1 DEF ListsTyped, Places
  <2> QED
      BY <1>2, <2>1, RemovedFrom
<1>4. Idle(t) /\ scan[t].wl = <<>>
      BY <1>1, <1>2, NotSearching DEF Giving
<1>5. scan' \in [Threads -> Scans] /\ Others(t) /\ Idle(t)'
      BY <1>1, <1>2, <1>4 DEF ListsTyped, Others, Moves, Alone, Idle
<1>6. Shifts(t, {})
  <2>0. /\ Listed(t) = {} /\ Listed(t)' = {}
        BY <1>2, <1>4 DEF Listed, Elems
  <2>1. Listed(t) = {} /\ \A u \in Threads : Listed(u)' = Listed(u)
        BY <1>5, <2>0 DEF Listed, Others
  <2>2. /\ scan'[t].wl # <<>> <=> pc'[t] \in Giving
        /\ Distinct(scan'[t].wl)
        BY <1>1, <1>2 DEF Places, Giving
  <2>3. /\ Elems(cvqueue) \cap Waiting(queue) = {}
        /\ \A u \in Threads : Listed(u) \cap Elems(cvqueue) = {}
        BY <1>1 DEF Places
  <2>4. \A x \in here : ~Somewhere(x)'
        BY <1>2, <1>3, <2>1, <2>3 DEF Somewhere, here
  <2> QED
      BY <1>2, <1>3, <2>1, <2>2, <2>3, <2>4 DEF Shifts
<1>7. Walks'
      BY <1>2, <1>5, WalksStay
<1> QED
    BY <1>1, <1>2, <1>3, <1>5, <1>6, <1>7, ChangeKeeps DEF QueueGood

(* cond_var::signal takes waiters off that queue.                          *)
LEMMA SignalKeeps ==
  ASSUME NEW t \in Threads, Before(t), Signal(t)
  PROVE  Lists' /\ UNCHANGED <<queue, mu, truth, cond>>
<1>1. /\ Typed /\ QueueGood /\ ListsTyped /\ Places /\ Moves(t) /\ Walks
      BY DEF Before, Lists
<1> DEFINE n == IF Call(t).op = "signal" /\ cvqueue # <<>> THEN 1 ELSE Len(cvqueue)
           front == SubSeq(cvqueue, 1, n)
<1>2. /\ pc[t] \in {"idle", "held"} /\ (pc' = IF n > 0 THEN [pc EXCEPT ![t] = "signal"] ELSE pc)
      /\ UNCHANGED <<how, cond, truth, queue, mu, unlocking, linked, queued>>
      /\ cvqueue' = SubSeq(cvqueue, n + 1, Len(cvqueue))
      /\ scan' = [scan EXCEPT ![t].wl = front]
      BY Zenon DEF Signal, listVars, nodeVars
<1>3. n \in 0..Len(cvqueue) /\ cvqueue \in Seq(Threads) /\ Distinct(cvqueue)
      BY <1>1 DEF ListsTyped, Places
<1> HIDE DEF n, front
<1>4. /\ front \in Seq(Threads) /\ cvqueue' \in Seq(Threads) /\ Distinct(front)
      /\ Distinct(cvqueue')
      /\ Elems(cvqueue) = Elems(front) \cup Elems(cvqueue')
      /\ Elems(front) \cap Elems(cvqueue') = {}
      /\ front # <<>> <=> n > 0
  <2>1. /\ cvqueue \in Seq(Threads) /\ Distinct(cvqueue) /\ n \in 0..Len(cvqueue)
        /\ front = SubSeq(cvqueue, 1, n) /\ cvqueue' = SubSeq(cvqueue, n + 1, Len(cvqueue))
        BY <1>2, <1>3 DEF front
  <2> HIDE DEF front
  <2>2. LET fst == SubSeq(cvqueue, 1, n)
            snd == SubSeq(cvqueue, n + 1, Len(cvqueue))
        IN  /\ fst \in Seq(Threads) /\ snd \in Seq(Threads) /\ Distinct(fst) /\ Distinct(snd)
            /\ Elems(cvqueue) = Elems(fst) \cup Elems(snd) /\ Elems(fst) \cap Elems(snd) = {}
            /\ fst # <<>> <=> n > 0
        BY <2>1, SplitIs, Zenon
  <2> QED
      BY <2>1, <2>2, Zenon
<1>5. Idle(t) /\ scan[t].wl = <<>> /\ scan[t] \in Scans
      BY <1>1, <1>2, NotSearching DEF Giving, ListsTyped
<1>6. scan'[t] = [scan[t] EXCEPT !.wl = front] /\ \A u \in Threads \ {t} : scan'[u] = scan[u]
      BY <1>1, <1>2 DEF ListsTyped
<1>7. /\ scan'[t] \in Scans /\ scan'[t].wl = front /\ scan'[t].old = scan[t].old
      /\ scan'[t].w = scan[t].w /\ scan'[t].pw = scan[t].pw
      /\ scan'[t].knownFalse = scan[t].knownFalse
      BY <1>4, <1>5, <1>6 DEF Scans
<1>8. pc'[t] = IF n > 0 THEN "signal" ELSE pc[t]
      BY <1>1, <1>2 DEF Typed
<1>9. scan' \in [Threads -> Scans] /\ Others(t) /\ Idle(t)'
      BY <1>1, <1>2, <1>5, <1>6, <1>7, <1>8 DEF ListsTyped, Others, Moves, Alone, Idle
<1>10. Shifts(t, {})
  <2>1. Listed(t) = {} /\ Listed(t)' = Elems(front)
        BY <1>2, <1>5, <1>7, <1>8, SMTT(30) DEF Listed, Elems
  <2>2. scan'[t].wl # <<>> <=> pc'[t] \in Giving
        BY <1>2, <1>4, <1>7, <1>8 DEF Giving
  <2>3. Elems(cvqueue) \cap Waiting(queue) = {}
        BY <1>1 DEF Places
  <2>4. pc[t] # "woken"
        BY <1>2
  <2> QED
      BY <1>2, <1>4, <1>7, <2>1, <2>2, <2>3, <2>4 DEF Shifts
<1>11. Walks'
       BY <1>2, <1>9, WalksStay
<1> QED
    BY <1>1, <1>2, <1>4, <1>9, <1>10, <1>11, ChangeKeeps DEF QueueGood

(* TryRemove takes t off the queue of the mutex.                           *)
LEMMA TryRemoveKeeps ==
  ASSUME NEW t \in Threads, Before(t), TryRemove(t)
  PROVE  Lists' /\ Waiting(queue') \subseteq Waiting(queue)
<1>1. /\ Typed /\ QueueGood /\ ListsTyped /\ Places /\ Moves(t) /\ Walks /\ WordMatchesHolders
      BY DEF Before, Lists
<1> DEFINE gone == Waiting(queue) \ Waiting(queue')
<1>2. /\ pc[t] = "timedout" /\ pc' = pc /\ kMuWriter \notin mu /\ kMuReader \notin mu
      /\ UNCHANGED <<how, cond, truth, cvqueue, scan>> /\ queue' = Remove(queue, t, kind)
      /\ linked' = linked \ gone /\ queued' = queued \ gone
      BY <1>1 DEF TryRemove
<1> HIDE DEF gone
<1>3. /\ Good(queue', kind) /\ queue'.failed = {}
      /\ Waiting(queue') = Waiting(queue) \/ Waiting(queue') = Waiting(queue) \ {t}
  <2>1. LET R == Remove(queue, t, kind) IN
         /\ Good(R, kind) /\ R.failed = queue.failed
         /\ Waiting(R) = Waiting(queue) \/ Waiting(R) = Waiting(queue) \ {t}
        BY <1>1, RemoveOnly DEF QueueGood
  <2> QED
      BY <1>1, <1>2, <2>1 DEF QueueGood
<1>4. Idle(t) /\ scan[t].wl = <<>>
      BY <1>1, <1>2, NotSearching DEF Giving
<1>5. /\ scan' \in [Threads -> Scans] /\ Others(t) /\ Idle(t)' /\ cvqueue' \in Seq(Threads)
      BY <1>1, <1>2, <1>4 DEF ListsTyped, Others, Moves, Alone, Idle
<1>6. Shifts(t, {})
  <2>0. /\ Listed(t) = {} /\ Listed(t)' = {}
        BY <1>2, <1>4 DEF Listed, Elems
  <2>1. Listed(t) = {} /\ \A u \in Threads : Listed(u)' = Listed(u)
        BY <1>5, <2>0 DEF Listed, Others
  <2>2. /\ scan'[t].wl # <<>> <=> pc'[t] \in Giving
        /\ Distinct(scan'[t].wl) /\ Distinct(cvqueue')
        BY <1>1, <1>2 DEF Places, Giving
  <2>3. /\ Elems(cvqueue) \cap Waiting(queue) = {}
        /\ \A u \in Threads : Listed(u) \cap Waiting(queue) = {}
        BY <1>1 DEF Places
  <2>4. \A x \in gone : ~Somewhere(x)'
        BY <1>2, <1>3, <2>1, <2>3 DEF Somewhere, gone
  <2> QED
      BY <1>2, <1>3, <2>1, <2>2, <2>3, <2>4 DEF Shifts
<1>7. \A u \in Threads : ~Walker(u)
      BY <1>1, <1>2, WalkersHold
<1>8. Walks'
      BY <1>1, <1>5, <1>7, WalksKept
<1> QED
    BY <1>2, <1>3, <1>5, <1>6, <1>8, ChangeKeeps

(* Every step keeps the queues, the lists and the searches in order.       *)
LEMMA StepLists ==
  ASSUME NEW t \in Threads, Before(t)
  PROVE  Lists'
BY QuietIsStill, StillKeeps, LockKeeps, UnlockKeeps, WakeKeeps, WalkKeeps, UnlinkKeeps, StateKeeps,
   PostKeeps, FerKeeps, CvEnqueueKeeps, CvRemoveKeeps, SignalKeeps, TryRemoveKeeps, Zenon
   DEF Before, Step, Quiet

-----------------------------------------------------------------------------
(* The word and the queue.                                                 *)
Fits == WordMatchesQueue /\ WakerThere

(* What a waiter waits for stays true or false.                            *)
LEMMA RunsKept ==
  ASSUME NEW t \in Threads, Before(t), truth' = truth
  PROVE  \A x \in Waiting(queue) : Runs(x)' <=> Runs(x)
<1>1. \A x \in Waiting(queue) : cond'[x] = cond[x]
      BY WaitersKeep DEF Before, Lists
<1> QED
    BY <1>1 DEF Runs

(* Neither the word nor who waits changes.                                 *)
LEMMA FitsStill ==
  ASSUME NEW t \in Threads, Before(t), Fits, truth' = truth,
         mu' = mu, Waiting(queue') = Waiting(queue), queue'.seq = <<>> <=> queue.seq = <<>>
  PROVE  Fits'
BY RunsKept DEF Fits, WordMatchesQueue, WakerThere

(* The lock is not free, or there is a designated waker.                   *)
LEMMA FitsHeld ==
  ASSUME {kMuWriter, kMuReader, kMuDesig} \cap mu' # {},
         kMuWait \in mu' <=> queue'.seq # <<>>, kMuWrWait \in mu' => kMuWait \in mu'
  PROVE  Fits'
BY DEF Fits, WordMatchesQueue, WakerThere

(* The word after a step of LockSlowLoop.                                  *)
LEMMA LockFits ==
  ASSUME NEW t \in Threads, Before(t), Fits, BlockedCannotRun,
         LockSpin(t) \/ LockOnlyWaiter(t) \/ LockEnqueue(t)
  PROVE  Fits'
<1>1. /\ kMuWait \in mu <=> queue.seq # <<>>
      /\ kMuWrWait \in mu => kMuWait \in mu
      /\ how[t] \in {"X", "S"} /\ SpinBit /\ QueueGood
      BY DEF Fits, WordMatchesQueue, Before, Typed, Lists
<1>2. CASE LockSpin(t)
  <2>1. /\ Has(SlowNeedZero(how[t])) /\ kMuWait \in mu /\ kMuSpin \notin mu /\ ~MayJoin(t)
        /\ mu' = ZapDesigWaker(t) \cup {kMuSpin, kMuWait} /\ queue' = queue
        BY <1>2 DEF LockSpin, listVars, Has
  <2>2. CASE kMuWriter \in mu \/ kMuReader \in mu
        BY <1>1, <2>1, <2>2, FitsHeld DEF ZapDesigWaker
  <2>3. CASE kMuWriter \notin mu /\ kMuReader \notin mu
    <3>1. t \notin blocked /\ kMuWrWait \in mu
          BY <1>1, <2>1, <2>3 DEF MayJoin, Has, SlowNeedZero
    <3>2. kMuDesig \in mu
          BY <2>3, <3>1 DEF Fits, WakerThere
    <3> QED
        BY <1>1, <2>1, <3>1, <3>2, FitsHeld DEF ZapDesigWaker
  <2> QED
      BY <2>2, <2>3
<1>3. CASE LockOnlyWaiter(t) \/ LockEnqueue(t)
  <2>1. queue'.seq # <<>>
    <3>1. QueueGood' /\ Waiting(queue') # {}
          BY <1>3, LockKeeps DEF Lists
    <3> QED
        BY <3>1, EmptyIs DEF QueueGood
  <2>2. kMuWait \in mu'
        BY <1>3 DEF LockOnlyWaiter, LockEnqueue
  <2>3. {kMuWriter, kMuReader, kMuDesig} \cap mu' # {}
    <3>1. CASE LockOnlyWaiter(t)
          BY <1>1, <3>1 DEF LockOnlyWaiter, Has, SlowNeedZero, ZapDesigWaker
    <3>2. CASE LockEnqueue(t)
      <4>1. kMuSpin \in mu
            BY <1>1, <3>2 DEF LockEnqueue, SpinBit, Spinner
      <4>2. {kMuWriter, kMuReader, kMuDesig} \cap mu # {}
            BY <4>1 DEF Fits, WakerThere
      <4> QED
          BY <3>2, <4>2 DEF LockEnqueue
    <3> QED
        BY <1>3, <3>1, <3>2
  <2> QED
      BY <2>1, <2>2, <2>3, FitsHeld
<1> QED
    BY <1>2, <1>3

(* ... of mutex::Fer.                                                      *)
LEMMA FerFits ==
  ASSUME NEW t \in Threads, Before(t), Fits, FerSpin(t) \/ FerOnlyWaiter(t) \/ FerEnqueue(t)
  PROVE  Fits'
<1>1. /\ kMuWait \in mu <=> queue.seq # <<>>
      /\ SpinBit
      BY DEF Fits, WordMatchesQueue, Before
<1>2. kMuWait \in mu' /\ queue'.seq # <<>>
      BY <1>1, FerKeeps DEF FerSpin, FerOnlyWaiter, FerEnqueue, listVars, Has
<1>3. {kMuWriter, kMuReader, kMuDesig} \cap mu' # {}
  <2>1. CASE FerSpin(t) \/ FerOnlyWaiter(t)
        BY <2>1 DEF FerSpin, FerOnlyWaiter, FerWaits, Conflicting, Has
  <2>2. CASE FerEnqueue(t)
    <3>1. kMuSpin \in mu
          BY <1>1, <2>2 DEF FerEnqueue, SpinBit, Spinner
    <3>2. {kMuWriter, kMuReader, kMuDesig} \cap mu # {}
          BY <3>1 DEF Fits, WakerThere
    <3> QED
        BY <2>2, <3>2 DEF FerEnqueue
  <2> QED
      BY <2>1, <2>2
<1> QED
    BY <1>2, <1>3, FitsHeld

(* ... of TryRemove.                                                       *)
LEMMA TryRemoveFits ==
  ASSUME NEW t \in Threads, Before(t), Fits, TryRemove(t)
  PROVE  Fits'
<1>1. Waiting(queue') \subseteq Waiting(queue)
      BY TryRemoveKeeps
<1>2. /\ mu \cap {kMuWait, kMuSpin, kMuWriter, kMuReader} = {kMuWait} /\ truth' = truth
      /\ mu' = (mu \cap {kMuDesig}) \cup WaitBits(queue', {})
      BY DEF TryRemove
<1>3. WordMatchesQueue'
      BY <1>2 DEF WordMatchesQueue, WaitBits
<1>4. kMuSpin \notin mu' /\ kMuWrWait \notin mu'
      BY <1>2 DEF WaitBits
<1>5. ASSUME NEW x \in Waiting(queue'), Runs(x)' PROVE kMuDesig \in mu'
  <2>1. x \in Waiting(queue) /\ Runs(x)
        BY <1>1, <1>2, <1>5, RunsKept
  <2>2. kMuDesig \in mu
        BY <1>2, <2>1 DEF Fits, WakerThere
  <2> QED
      BY <1>2, <2>2
<1> QED
    BY <1>3, <1>4, <1>5 DEF Fits, WakerThere

(* ... of the fast releases: a spinner would have set kMuWait or would     *)
(* hold the lock, too.                                                     *)
LEMMA FastFits ==
  ASSUME NEW t \in Threads, Before(t), Fits, UnlockFastWriter(t) \/ UnlockFastReader(t)
  PROVE  Fits'
<1>1. /\ kMuWait \in mu <=> queue.seq # <<>>
      /\ kMuWrWait \in mu => kMuWait \in mu
      /\ SpinBit /\ QueueGood /\ Typed /\ WordMatchesHolders /\ pc[t] = "unlock" /\ queue' = queue
      /\ truth' = truth
      BY DEF Fits, WordMatchesQueue, Before, Lists, UnlockFastWriter, UnlockFastReader, listVars,
             Leave
<1>2. Holds(t)
      BY <1>1 DEF Holds
<1>3. ASSUME kMuSpin \in mu, kMuWait \notin mu, kMuWriter \in mu \/ readers = 1 PROVE FALSE
  <2>1. PICK u \in Threads : Spinner(u)
        BY <1>1, <1>3 DEF SpinBit
  <2>2. pc[u] = "release"
        BY <1>1, <1>3, <2>1 DEF SpinBit, Spinner
  <2>3. Holds(u)
        BY <2>2 DEF Holds
  <2>4. u = t
        BY <1>1, <1>2, <1>3, <2>3, HoldersAre
  <2> QED
      BY <1>1, <2>2, <2>4
<1>4. Waiting(queue) # {} => kMuWait \in mu
      BY <1>1, EmptyIs DEF QueueGood
<1>5. CASE UnlockFastWriter(t)
  <2>1. /\ kMuWriter \in mu /\ (kMuWait \in mu => kMuDesig \in mu)
        /\ mu' = mu \ {kMuWrWait, kMuWriter}
        BY <1>5 DEF UnlockFastWriter, WriterMayGo, Has
  <2>2. kMuSpin \in mu => kMuWait \in mu
        BY <1>3, <2>1
  <2> QED
      BY <1>1, <1>4, <2>1, <2>2 DEF Fits, WordMatchesQueue, WakerThere
<1>6. CASE UnlockFastReader(t)
  <2>1. kMuReader \in mu /\ kMuWait \notin mu /\ mu' = mu \ HolderBits /\ kMuWriter \notin mu
        BY <1>1, <1>2, <1>6, HoldersAre DEF UnlockFastReader, Has
  <2>2. kMuWrWait \notin mu' /\ (kMuWait \in mu' <=> kMuWait \in mu)
        BY <1>1, <2>1 DEF HolderBits, Has
  <2>3. kMuReader \notin mu' => readers = 1
        BY <2>1 DEF HolderBits, Has
  <2>4. kMuReader \notin mu' => kMuSpin \notin mu'
        BY <1>3, <2>1, <2>3
  <2> QED
      BY <1>1, <1>4, <2>1, <2>2, <2>4 DEF Fits, WordMatchesQueue, WakerThere
<1> QED
    BY <1>5, <1>6

(* ... of UnlockSlow.                                                      *)
LEMMA SlowFits ==
  ASSUME NEW t \in Threads, Before(t), Fits, BlockedCannotRun,
         UnlockNoWaiters(t) \/ UnlockNotLast(t) \/ UnlockWake(t) \/ UnlockNobody(t)
  PROVE  Fits'
<1>1. /\ kMuWait \in mu <=> queue.seq # <<>>
      /\ kMuWrWait \in mu => kMuWait \in mu
      /\ QueueGood /\ WordMatchesQueue /\ Typed /\ Walks
      BY DEF Fits, WordMatchesQueue, Before, Lists
<1>2. InSlow(t) /\ truth' = truth /\ cond' = cond
      BY Zenon, UnlockWakeWord
      DEF UnlockNoWaiters, UnlockNotLast, UnlockNobody, Leave, callVars, clientVars
<1>3. after[t] = "block" => t \notin Waiting(queue) /\ ~Runs(t)
  <2>1. pc[t] \in {"unlock", "release"} /\ (after[t] = "block" => t \notin Waiting(queue))
        BY <1>2, SlowIs
  <2> QED
      BY <2>1 DEF BlockedCannotRun
<1>4. \A x : Runs(x)' <=> Runs(x)
      BY <1>2 DEF Runs
<1>5. CASE UnlockWake(t)
  <2>1. PICK list \in Seq(Threads), b \in SUBSET {kMuWrWait} :
           mu' = {kMuDesig} \cup WaitBits(queue', b)
        BY <1>1, <1>3, <1>5, WakeTakes
  <2>2. (kMuWait \in mu' <=> queue'.seq # <<>>) /\ (kMuWrWait \in mu' => kMuWait \in mu')
        BY <2>1 DEF WaitBits
  <2> QED
      BY <2>1, <2>2, FitsHeld
<1>6. CASE UnlockNoWaiters(t) \/ UnlockNotLast(t) \/ UnlockNobody(t)
  <2>1. Lists' /\ Waiting(queue') = Waiting(queue) \cup Requeued(t)
        BY <1>6, UnlockKeeps
  <2>2. queue'.seq = <<>> <=> Waiting(queue) \cup Requeued(t) = {}
        BY <2>1, EmptyIs DEF Lists, QueueGood
  <2>3. queue.seq = <<>> <=> Waiting(queue) = {}
        BY <1>1, EmptyIs DEF QueueGood
  <2>4. CASE UnlockNoWaiters(t)
    <3>1. /\ kMuWait \notin mu
          /\ mu' = (mu \ ({kMuSpin, kMuWrWait} \cup HolderBits))
                     \cup (IF after[t] = "block" THEN {kMuWait} ELSE {})
          BY <2>4 DEF UnlockNoWaiters, Has
    <3>2. kMuWait \notin HolderBits
          BY DEF HolderBits
    <3>3. kMuWait \in mu' <=> after[t] = "block"
          BY <3>1, <3>2
    <3>4. kMuWrWait \notin mu' /\ kMuSpin \notin mu'
          BY <3>1
    <3>5. WordMatchesQueue'
          BY <1>1, <2>2, <2>3, <3>1, <3>3, <3>4 DEF WordMatchesQueue, Requeued
    <3>6. \A x \in Waiting(queue') : ~Runs(x)'
          BY <1>1, <1>3, <1>4, <2>1, <2>3, <3>1 DEF Requeued
    <3> QED
        BY <3>4, <3>5, <3>6 DEF Fits, WakerThere
  <2>5. CASE UnlockNotLast(t)
    <3>1. kMuWait \in mu /\ kMuReader \in mu /\ mu' = mu \ {kMuSpin}
          BY <2>5 DEF UnlockNotLast, Has
    <3> QED
        BY <1>1, <2>2, <2>3, <3>1, FitsHeld
  <2>6. CASE UnlockNobody(t)
    <3>1. kMuWait \in mu /\ mu' = mu \ {kMuReader, kMuWriter, kMuWrWait, kMuSpin}
          BY <2>6, Zenon DEF UnlockNobody, LastHolder, Has
    <3>2. \A x \in Waiting(queue) : ~Runs(x)
          BY <1>1, <1>3, <2>6, NobodyRuns
    <3>3. \A x \in Waiting(queue') : ~Runs(x)'
          BY <1>3, <1>4, <2>1, <3>2 DEF Requeued
    <3>4. kMuWait \in mu' /\ kMuSpin \notin mu' /\ kMuWrWait \notin mu'
          BY <3>1
    <3> QED
        BY <1>1, <2>2, <2>3, <3>1, <3>3, <3>4 DEF Fits, WakerThere, WordMatchesQueue
  <2> QED
      BY <1>6, <2>4, <2>5, <2>6
<1> QED
    BY <1>5, <1>6

(* Word, queue and truth stay as they are, or the lock is held.            *)
LEMMA StepFits ==
  ASSUME NEW t \in Threads, Before(t), Fits, BlockedCannotRun
  PROVE  Fits'
<1>1. /\ Step(t) /\ Typed /\ SpinBit /\ WordMatchesHolders /\ CallAtHand(t)
      /\ kMuWait \in mu <=> queue.seq # <<>>
      /\ kMuWrWait \in mu => kMuWait \in mu
      /\ how[t] \in {"X", "S"} /\ (Holds(t) => kMuWriter \in mu \/ kMuReader \in mu)
      BY HoldersAre DEF Fits, WordMatchesQueue, Before, Typed
<1>2. ASSUME UNCHANGED <<mu, queue, truth>> PROVE Fits'
      BY <1>2, FitsStill
<1>3. CASE Lock(t)
      BY <1>2, <1>3 DEF Lock, listVars
<1>4. CASE TryLock(t)
  <2>1. queue' = queue /\ truth' = truth
        BY <1>4 DEF TryLock, listVars
  <2>2. mu' = mu \/ \E h : mu' = mu \cup {Held(h)}
        BY <1>4 DEF TryLock
  <2> QED
      BY <1>1, <1>2, <2>1, <2>2, FitsHeld DEF Held
<1>5. CASE LockAcquire(t) \/ LockJoin(t)
  <2>1. queue' = queue
        BY <1>5 DEF LockAcquire, LockJoin, listVars
  <2>2. \E h : mu' = ZapDesigWaker(t) \cup {Held(h)}
        BY <1>5 DEF LockAcquire, LockJoin, Held
  <2> QED
      BY <1>1, <2>1, <2>2, FitsHeld DEF Held, ZapDesigWaker
<1>6. CASE BlockCheck(t)
      BY <1>2, <1>6 DEF BlockCheck, listVars
<1>7. CASE SemWait(t)
      BY <1>2, <1>7 DEF SemWait, listVars
<1>8. CASE SemTimeout(t)
      BY <1>2, <1>8 DEF SemTimeout, listVars
<1>9. CASE TimeoutSatisfied(t)
      BY <1>2, <1>9 DEF TimeoutSatisfied, listVars
<1>10. CASE Await(t)
       BY <1>2, <1>10 DEF Await, listVars
<1>11. CASE Unlock(t)
  <2>1. Holds(t) /\ mu' = mu /\ queue' = queue
        BY <1>11 DEF Unlock, AtCall, Holds, listVars
  <2> QED
      BY <1>1, <2>1, FitsHeld
<1>12. CASE UnlockCvEnqueue(t)
  <2>1. Holds(t) /\ mu' = mu \cup {kMuSpin} /\ queue' = queue
        BY <1>12 DEF UnlockCvEnqueue, SpinFree, Holds, listVars
  <2> QED
      BY <1>1, <2>1, FitsHeld
<1>13. CASE UnlockStartWalk(t) \/ UnlockWalk(t)
  <2>1. mu' = mu /\ truth' = truth
        BY <1>13, Zenon DEF UnlockStartWalk, UnlockWalk
  <2> QED
      BY <1>13, <2>1, WalkKeeps, FitsStill
<1>14. CASE Wait(t)
       BY <1>2, <1>14 DEF Wait, listVars
<1>15. CASE WaitNotNeeded(t)
       BY <1>2, <1>15 DEF WaitNotNeeded, listVars
<1>16. CASE CvBlockCheck(t)
       BY <1>2, <1>16 DEF CvBlockCheck, listVars
<1>17. CASE \/ Wakeup(t) \/ CvWakeup(t) \/ WakeState(t) \/ IncrementSynchSem(t)
            \/ CvRemove(t) \/ Signal(t)
       BY <1>2, <1>17, UnlinkKeeps, StateKeeps, PostKeeps, CvRemoveKeeps, SignalKeeps
<1> QED
    BY <1>1, <1>3, <1>4, <1>5, <1>6, <1>7, <1>8, <1>9, <1>10, <1>11, <1>12, <1>13, <1>14, <1>15,
       <1>16, <1>17, LockFits, FerFits, TryRemoveFits, FastFits, SlowFits, Zenon DEF Step

-----------------------------------------------------------------------------
(* The designated waker.  Only UnlockSlow sets the bit; a thread that has  *)
(* blocked clears it when it gets the lock or queues itself again.         *)
LEMMA StepDesig ==
  ASSUME NEW t \in Threads, Step(t), ~UnlockWake(t), kMuDesig \in mu'
  PROVE  kMuDesig \in mu /\ ~(pc[t] = "lock" /\ t \in blocked)
<1>1. CASE Lock(t) \/ TryLock(t) \/ Await(t) \/ Unlock(t) \/ Wait(t) \/ WaitNotNeeded(t)
  <2>1. pc[t] \in {"idle", "held"}
        BY <1>1 DEF Lock, TryLock, Await, Unlock, Wait, WaitNotNeeded, AtCall
  <2>2. mu' = mu \/ \E h : mu' = mu \cup {Held(h)}
        BY <1>1 DEF Lock, TryLock, Await, Unlock, Wait, WaitNotNeeded
  <2> QED
      BY <2>1, <2>2 DEF Held
<1>2. CASE LockAcquire(t) \/ LockJoin(t) \/ LockOnlyWaiter(t) \/ LockSpin(t)
  <2>1. kMuDesig \in ZapDesigWaker(t)
    <3>1. CASE LockAcquire(t)
          BY <3>1 DEF LockAcquire, Held
    <3>2. CASE LockJoin(t)
          BY <3>2 DEF LockJoin
    <3>3. CASE LockOnlyWaiter(t)
          BY <3>3 DEF LockOnlyWaiter, WrWait
    <3>4. CASE LockSpin(t)
          BY <3>4 DEF LockSpin
    <3> QED
        BY <1>2, <3>1, <3>2, <3>3, <3>4
  <2> QED
      BY <2>1 DEF ZapDesigWaker
<1>3. CASE LockEnqueue(t)
      BY <1>3 DEF LockEnqueue
<1>4. CASE BlockCheck(t) \/ SemWait(t) \/ SemTimeout(t) \/ TimeoutSatisfied(t)
      BY <1>4 DEF BlockCheck, SemWait, SemTimeout, TimeoutSatisfied
<1>5. CASE TryRemove(t)
      BY <1>5 DEF TryRemove, WaitBits
<1>6. CASE UnlockFastWriter(t) \/ UnlockFastReader(t)
      BY <1>6 DEF UnlockFastWriter, UnlockFastReader
<1>7. CASE UnlockNoWaiters(t) \/ UnlockNotLast(t) \/ UnlockNobody(t)
  <2>1. pc[t] \in {"unlock", "release"}
        BY <1>7, Zenon DEF UnlockNoWaiters, UnlockNotLast, UnlockNobody, InSlow, SpinFree
  <2>2. \E bits : mu' \subseteq mu \cup bits /\ kMuDesig \notin bits
    <3>1. UnlockNoWaiters(t) =>
            mu' = (mu \ ({kMuSpin, kMuWrWait} \cup HolderBits))
                     \cup (IF after[t] = "block" THEN {kMuWait} ELSE {})
          BY Zenon DEF UnlockNoWaiters
    <3>2. UnlockNotLast(t) => mu' = mu \ {kMuSpin}
          BY Zenon DEF UnlockNotLast
    <3>3. UnlockNobody(t) => mu' = mu \ {kMuReader, kMuWriter, kMuWrWait, kMuSpin}
          BY Zenon DEF UnlockNobody
    <3>4. mu' \subseteq mu \cup {kMuWait} /\ kMuDesig \notin {kMuWait}
          BY <1>7, <3>1, <3>2, <3>3
    <3> QED
        BY <3>4
  <2> QED
      BY <2>1, <2>2
<1>8. CASE UnlockStartWalk(t) \/ UnlockWalk(t)
  <2>1. mu' = mu /\ pc[t] # "lock"
        BY <1>8, Zenon DEF UnlockStartWalk, UnlockWalk, SpinFree
  <2> QED
      BY <2>1
<1>9. CASE Wakeup(t) \/ WakeState(t) \/ IncrementSynchSem(t) \/ CvWakeup(t)
      BY <1>9 DEF Wakeup, WakeState, IncrementSynchSem, CvWakeup, WakeUnlink
<1>10. CASE UnlockCvEnqueue(t) \/ CvBlockCheck(t) \/ CvRemove(t)
       BY <1>10 DEF UnlockCvEnqueue, SpinFree, CvBlockCheck, CvRemove
<1>11. CASE Signal(t)
       BY <1>11, SignalOrReturn
<1>12. CASE FerOnlyWaiter(t) \/ FerSpin(t) \/ FerEnqueue(t)
       BY <1>12 DEF FerOnlyWaiter, FerSpin, FerEnqueue
<1> QED
    BY <1>1, <1>2, <1>3, <1>4, <1>5, <1>6, <1>7, <1>8, <1>9, <1>10, <1>11, <1>12 DEF Step

(* A step of t sets no other thread's kMuHasBlocked back.                  *)
LEMMA StepHasBlocked ==
  ASSUME NEW t \in Threads, Step(t), NEW x \in blocked, x # t
  PROVE  x \in blocked'
<1>1. CASE Lock(t) \/ TryLock(t) \/ Unlock(t) \/ Wait(t) \/ WaitNotNeeded(t)
      BY <1>1 DEF Lock, TryLock, Unlock, Wait, WaitNotNeeded
<1>2. CASE LockAcquire(t) \/ LockJoin(t)
      BY <1>2 DEF LockAcquire, LockJoin, GotLock
<1>3. CASE Await(t)
      BY <1>3 DEF Await
<1>4. CASE LockOnlyWaiter(t) \/ LockSpin(t) \/ LockEnqueue(t)
      BY <1>4 DEF LockOnlyWaiter, LockSpin, LockEnqueue
<1>5. CASE BlockCheck(t) \/ SemWait(t) \/ SemTimeout(t) \/ TryRemove(t) \/ TimeoutSatisfied(t)
      BY <1>5 DEF BlockCheck, SemWait, SemTimeout, TryRemove, TimeoutSatisfied
<1>6. CASE UnlockFastWriter(t) \/ UnlockFastReader(t)
      BY <1>6 DEF UnlockFastWriter, UnlockFastReader
<1>7. CASE UnlockNoWaiters(t) \/ UnlockNotLast(t) \/ UnlockNobody(t)
      BY <1>7, Zenon DEF UnlockNoWaiters, UnlockNotLast, UnlockNobody
<1>8. CASE UnlockWake(t)
      BY <1>8, UnlockWakeWord
<1>9. CASE UnlockStartWalk(t) \/ UnlockWalk(t)
      BY <1>9, Zenon DEF UnlockStartWalk, UnlockWalk
<1>10. CASE Wakeup(t) \/ WakeState(t) \/ IncrementSynchSem(t) \/ CvWakeup(t)
       BY <1>10 DEF Wakeup, WakeState, IncrementSynchSem, CvWakeup, WakeUnlink
<1>11. CASE UnlockCvEnqueue(t) \/ CvBlockCheck(t) \/ CvRemove(t)
       BY <1>11 DEF UnlockCvEnqueue, CvBlockCheck, CvRemove
<1>12. CASE Signal(t)
       BY <1>12, SignalOrReturn
<1>13. CASE FerOnlyWaiter(t) \/ FerSpin(t) \/ FerEnqueue(t)
       BY <1>13 DEF FerOnlyWaiter, FerSpin, FerEnqueue
<1> QED
    BY <1>1, <1>2, <1>3, <1>4, <1>5, <1>6, <1>7, <1>8, <1>9, <1>10, <1>11, <1>12, <1>13 DEF Step

(* Who waits in Requeue's way is t.                                        *)
LEMMA RequeueWaits ==
  ASSUME NEW t, NEW Q, NEW U, NEW new \in Requeue(t, Q, U), Store(new)
  PROVE  queued' = queued \cup Requeued(t)
<1>1. new.waiters = Requeued(t)
  <2>1. CASE after[t] = "block"
    <3>1. PICK R, p, V : new = [queue |-> R, priority |-> p, waiters |-> {t}, unlocking |-> V]
          BY <2>1, Zenon DEF Requeue, Enqueued
    <3> QED
        BY <2>1, <3>1 DEF Requeued
  <2>2. CASE after[t] # "block"
        BY <2>2 DEF Requeue, Requeued
  <2> QED
      BY <2>1, <2>2
<1> QED
    BY <1>1 DEF Store

(* A thread that is not queued is not queued by others, nor by itself      *)
(* while it sleeps; and only t changes what t has found.                   *)
LEMMA StepQueues ==
  ASSUME NEW t \in Threads, Before(t)
  PROVE  /\ Others(t)
         /\ \A x \in queued' : x \in queued \/ (x = t /\ ~Sleeps(t))
<1>1. /\ Typed /\ QueueGood /\ ListsTyped /\ Places /\ Asleep /\ Walks /\ Moves(t) /\ Alone(t)
      /\ WordMatchesQueue /\ SpinBit
      BY DEF Before, Lists, Moves
<1>2. CASE Quiet(t)
      BY <1>2, QuietIsStill DEF Still
<1>3. CASE LockOnlyWaiter(t) \/ LockEnqueue(t)
  <2>1. /\ pc[t] \in {"lock", "enqueue"} /\ EnqueueOn(t, t)
        /\ scan' = scan \/ scan' = [scan EXCEPT ![t] = NoScan]
        BY <1>3 DEF LockOnlyWaiter, LockEnqueue
  <2>2. ~Sleeps(t) /\ t \notin Waiting(queue)
        BY <1>1, <2>1 DEF Sleeps, Asleep, Somewhere
  <2>3. queued' = queued \cup {t}
        BY <1>1, <2>1, <2>2, EnqueueJoins DEF Joins
  <2> QED
      BY <1>1, <2>1, <2>2, <2>3 DEF Others, Alone, ListsTyped
<1>4. CASE UnlockNoWaiters(t) \/ UnlockNotLast(t) \/ UnlockNobody(t)
  <2>1. /\ InSlow(t) /\ scan' = [scan EXCEPT ![t] = NoScan]
        /\ \E Q, U : \E new \in Requeue(t, Q, U) : Store(new)
        BY <1>4, Zenon DEF UnlockNoWaiters, UnlockNotLast, UnlockNobody, Set
  <2>2. queued' = queued \cup Requeued(t)
        BY <2>1, RequeueWaits
  <2>3. after[t] = "block" => ~Sleeps(t)
        BY <2>1, SlowIs
  <2> QED
      BY <1>1, <2>1, <2>2, <2>3 DEF Others, Alone, ListsTyped, Requeued
<1>5. CASE UnlockWake(t)
  <2>1. InSlow(t)
        BY <1>5, UnlockWakeWord
  <2>2. after[t] = "block" => ~Sleeps(t) /\ t \notin Waiting(queue)
        BY <2>1, SlowIs
  <2>3. PICK list \in Seq(Threads) :
          /\ scan' = [scan EXCEPT ![t] = [NoScan EXCEPT !.wl = list]]
          /\ queued' = queued \cup Requeued(t)
        BY <1>1, <1>5, <2>2, WakeTakes
  <2> QED
      BY <1>1, <2>2, <2>3 DEF Others, Alone, ListsTyped, Requeued
<1>6. CASE UnlockStartWalk(t)
  <2>1. queued' = queued /\ \E s : scan' = [scan EXCEPT ![t] = s]
        BY <1>6, Zenon DEF UnlockStartWalk, nodeVars
  <2> QED
      BY <1>1, <2>1 DEF Others, Alone, ListsTyped
<1>7. CASE UnlockWalk(t)
  <2>1. queued' = queued /\ \E s : scan' = [scan EXCEPT ![t] = s]
        BY <1>7, Zenon DEF UnlockWalk, nodeVars, Set
  <2> QED
      BY <1>1, <2>1 DEF Others, Alone, ListsTyped
<1>8. CASE Wakeup(t) \/ CvWakeup(t) \/ WakeState(t) \/ UnlockCvEnqueue(t) \/ CvRemove(t) \/ TryRemove(t)
  <2>1. scan' = scan
        BY <1>8 DEF Wakeup, CvWakeup, WakeUnlink, WakeState, UnlockCvEnqueue, CvRemove, TryRemove
  <2>2. CASE UnlockCvEnqueue(t)
        BY <1>1, <2>1, <2>2 DEF UnlockCvEnqueue, SpinFree, Sleeps, Others, Alone
  <2>3. CASE ~UnlockCvEnqueue(t)
    <3>1. queued' \subseteq queued
          BY <1>8, <2>3 DEF Wakeup, CvWakeup, WakeUnlink, WakeState, CvRemove, TryRemove
    <3> QED
        BY <1>1, <2>1, <3>1 DEF Others, Alone
  <2> QED
      BY <2>2, <2>3
<1>9. CASE IncrementSynchSem(t)
  <2>1. queued' = queued /\ NextTarget(t) /\ pc[t] \in Giving
        BY <1>9 DEF IncrementSynchSem, Giving
  <2> QED
      BY <2>1, NextTargetIs
<1>10. CASE Signal(t)
  <2>1. queued' = queued /\ \E s : scan' = [scan EXCEPT ![t] = s]
        BY <1>10, Zenon DEF Signal, nodeVars
  <2> QED
      BY <1>1, <2>1 DEF Others, Alone, ListsTyped
<1>11. CASE FerOnlyWaiter(t) \/ FerEnqueue(t)
  <2>1. pc[t] \in {"signal", "transfer"} /\ pc[t] \in Giving /\ NextTarget(t) /\ EnqueueOn(Target(t), t)
        BY <1>11 DEF FerOnlyWaiter, FerEnqueue, Giving
  <2>2. Target(t) \in Listed(t) /\ Target(t) \in Threads
        BY <2>1, GivingIs DEF Listed
  <2>3. Target(t) \in queued /\ Target(t) \notin Waiting(queue)
        BY <1>1, <2>2 DEF Asleep, Somewhere, Places
  <2>4. queued' = queued \cup {Target(t)}
        BY <1>1, <2>1, <2>2, <2>3, EnqueueJoins DEF Joins
  <2>5. Others(t)
        BY <2>1, NextTargetIs
  <2> QED
      BY <2>3, <2>4, <2>5
<1> QED
    BY <1>2, <1>3, <1>4, <1>5, <1>6, <1>7, <1>8, <1>9, <1>10, <1>11, Zenon DEF Before, Step, Quiet

(* An unlocker that has a list of waiters wakes the first one.             *)
LEMMA ToWakeGoesOn ==
  ASSUME NEW t \in Threads, Before(t), NEW x \in ToWake(t)
  PROVE  x \in ToWake(t)' \/ (Sleeps(x)' /\ x \notin queued')
<1>1. /\ Typed /\ Moves(t) /\ Step(t) /\ Lists /\ SpinBit /\ CallAtHand(t)
      BY DEF Before
<1>2. /\ pc[t] \in {"wake", "woken", "post"} /\ ~Signalling(t) /\ x \in Listed(t)
      BY DEF ToWake, Listed, Elems
<1>3. x \in Threads /\ Sleeps(x) /\ x \in queued /\ pc[t] \in Giving
  <2>1. x \in Threads
        BY <1>2, GivingIs DEF Listed, Elems, Giving
  <2> QED
      BY <1>1, <1>2, <2>1 DEF Lists, Asleep, Somewhere, Giving
<1>4. /\ Elems(scan[t].wl) = {Target(t)} \cup Elems(Tail(scan[t].wl))
      /\ Len(scan[t].wl) > 1 <=> Tail(scan[t].wl) # <<>>
      BY <1>3, GivingIs
<1>5. Wakeup(t) \/ WakeState(t) \/ IncrementSynchSem(t)
      BY <1>1, <1>2, SignalOrReturn, UnlockWakeWord, TryLockGetsOrFails, Zenon
      DEF Step, Lock, AtCall, LockAcquire, LockJoin, LockOnlyWaiter, LockSpin, LockEnqueue,
          BlockCheck, SemWait, SemTimeout, TryRemove, TimeoutSatisfied, Await, Unlock,
          UnlockFastWriter, UnlockFastReader, UnlockNoWaiters, UnlockNotLast, UnlockNobody,
          UnlockStartWalk, UnlockWalk, InSlow, SpinFree, Wait, WaitNotNeeded, UnlockCvEnqueue,
          CvBlockCheck, CvRemove, CvWakeup, FerOnlyWaiter, FerSpin, FerEnqueue
<1>6. CASE Wakeup(t)
  <2>1. pc[t] = "wake" /\ pc'[t] = "woken" /\ UNCHANGED <<scan, ip, prog>>
        BY <1>1, <1>6 DEF Wakeup, WakeUnlink, Typed
  <2>2. ~Signalling(t)'
        BY <1>2, <2>1, SameCall DEF Signalling
  <2> QED
      BY <1>2, <2>1, <2>2 DEF ToWake, Listed, Elems
<1>7. CASE WakeState(t)
  <2>1. /\ pc[t] = "woken" /\ pc'[t] = "post" /\ UNCHANGED <<scan, ip, prog, after>>
        /\ queued' = queued \ {Target(t)}
        BY <1>1, <1>7 DEF WakeState, Typed
  <2>2. ~Signalling(t)'
        BY <1>2, <2>1, SameCall DEF Signalling
  <2>3. CASE x = Target(t)
    <3>1. Sleeps(x)'
          BY <1>1, <1>3, <2>1, StepSleeps DEF Sleeps, Moves, Alone
    <3> QED
        BY <2>1, <2>3, <3>1
  <2>4. CASE x # Target(t)
    <3>1. x \in Elems(Tail(scan[t].wl))
          BY <1>2, <1>4, <2>1, <2>4 DEF Listed
    <3> QED
        BY <2>1, <2>2, <3>1 DEF ToWake, Elems
  <2> QED
      BY <2>3, <2>4
<1>8. CASE IncrementSynchSem(t)
  <2>1. pc[t] = "post" /\ NextTarget(t)
        BY <1>8 DEF IncrementSynchSem
  <2>2. x \in Elems(Tail(scan[t].wl)) /\ scan'[t].wl = Tail(scan[t].wl)
        BY <1>2, <1>3, <2>1, NextTargetIs DEF Listed
  <2>3. Tail(scan[t].wl) # <<>>
        BY <2>2 DEF Elems
  <2>4. pc' = [pc EXCEPT ![t] = "wake"] /\ UNCHANGED <<ip, prog>>
        BY <1>2, <1>4, <2>1, <2>3, Zenon DEF NextTarget
  <2>5. ~Signalling(t)' /\ pc'[t] = "wake"
        BY <1>1, <1>2, <2>4, SameCall DEF Signalling, Typed
  <2> QED
      BY <2>2, <2>5 DEF ToWake, Elems
<1> QED
    BY <1>5, <1>6, <1>7, <1>8

(* UnlockSlow has found somebody to wake when it sets the bit; a designated *)
(* waker stays one until it clears the bit.                                *)
LEMMA StepWaker ==
  ASSUME NEW t \in Threads, Before(t), DesignatedWakerExists
  PROVE  DesignatedWakerExists'
<1>1. /\ Typed /\ Moves(t) /\ Alone(t) /\ Step(t) /\ SpinBit /\ CallAtHand(t) /\ WordMatchesQueue
      /\ QueueGood /\ Walks /\ Typed'
      BY DEF Before, Lists, Moves
<1>2. CASE UnlockWake(t)
  <2>1. /\ InSlow(t) /\ Goto(t, "wake") /\ UNCHANGED <<ip, prog>>
        BY <1>2, UnlockWakeWord
  <2>2. /\ pc[t] \in {"unlock", "release"} /\ after[t] \in {"idle", "block", "cvblock"}
        /\ after[t] = "block" => t \notin Waiting(queue)
        BY <2>1, SlowIs
  <2>3. PICK list \in Seq(Threads) :
          /\ list # <<>>
          /\ scan' = [scan EXCEPT ![t] = [NoScan EXCEPT !.wl = list]]
        BY <1>1, <1>2, <2>2, WakeTakes
  <2>4. pc'[t] = "wake" /\ scan'[t].wl = list
        BY <1>1, <2>1, <2>3 DEF Typed, NoScan, Before, Lists, ListsTyped
  <2>5. ~Signalling(t)'
        BY <1>1, <2>1, <2>2, SameCall DEF CallAtHand, Signalling, LockCalls
  <2>6. 1 \in DOMAIN list /\ list[1] \in Threads
        BY <2>3
  <2>7. list[1] \in ToWake(t)'
        BY <2>4, <2>5, <2>6 DEF ToWake
  <2> QED
      BY <2>6, <2>7 DEF DesignatedWakerExists, OnItsWay
<1>3. CASE ~UnlockWake(t) /\ kMuDesig \in mu'
  <2>1. kMuDesig \in mu /\ ~(pc[t] = "lock" /\ t \in blocked)
        BY <1>1, <1>3, StepDesig
  <2>2. PICK x \in Threads : OnItsWay(x)
        BY <2>1 DEF DesignatedWakerExists
  <2>3. Others(t) /\ \A y \in queued' : y \in queued \/ (y = t /\ ~Sleeps(t))
        BY StepQueues
  <2>4. \A y \in Threads \ {t} : pc'[y] = pc[y] /\ after'[y] = after[y] /\ scan'[y] = scan[y]
        BY <1>1, <2>3 DEF Alone, Others
  <2>5. CASE \E u \in Threads : x \in ToWake(u)
    <3>1. PICK u \in Threads : x \in ToWake(u)
          BY <2>5
    <3>2. ASSUME u = t PROVE OnItsWay(x)'
      <4>1. x \in ToWake(t)' \/ (Sleeps(x)' /\ x \notin queued')
            BY <3>1, <3>2, ToWakeGoesOn
      <4> QED
          BY <4>1 DEF OnItsWay
    <3>3. ASSUME u # t PROVE OnItsWay(x)'
      <4>1. Call(u)' = Call(u)
            BY <1>1, <3>3, SameCall DEF Moves
      <4>2. pc'[u] = pc[u] /\ scan'[u] = scan[u]
            BY <2>4, <3>3
      <4>3. Signalling(u)' <=> Signalling(u)
            BY <4>1 DEF Signalling
      <4>4. ToWake(u)' = ToWake(u)
            BY <4>2, <4>3 DEF ToWake
      <4> QED
          BY <3>1, <4>4 DEF OnItsWay
    <3>4. OnItsWay(x)'
          BY <3>2, <3>3
    <3> QED
        BY <3>4 DEF DesignatedWakerExists
  <2>6. CASE Sleeps(x) /\ x \notin queued
    <3>1. x \notin queued'
          BY <2>3, <2>6
    <3>2. Sleeps(x)' \/ (pc'[x] = "lock" /\ x \in blocked')
      <4>1. CASE x = t
            BY <1>1, <2>6, <4>1, StepSleeps
      <4>2. CASE x # t
            BY <2>4, <2>6, <4>2 DEF Sleeps
      <4> QED
          BY <4>1, <4>2
    <3> QED
        BY <3>1, <3>2 DEF DesignatedWakerExists, OnItsWay
  <2>7. CASE pc[x] = "lock" /\ x \in blocked
    <3>1. x # t
          BY <2>1, <2>7
    <3>2. pc'[x] = "lock" /\ x \in blocked'
          BY <1>1, <2>4, <2>7, <3>1, StepHasBlocked
    <3> QED
        BY <3>2 DEF DesignatedWakerExists, OnItsWay
  <2> QED
      BY <2>2, <2>5, <2>6, <2>7 DEF OnItsWay
<1> QED
    BY <1>2, <1>3 DEF DesignatedWakerExists

-----------------------------------------------------------------------------
(* The inductive invariant.                                                *)
LEMMA InitWInv == Init => WInv
<1> SUFFICES ASSUME Init PROVE WInv
    OBVIOUS
<1>1. /\ queue = EmptyQueue /\ queue.seq = <<>> /\ queue.failed = {} /\ cvqueue = <<>> /\ mu = {}
      /\ Waiting(queue) = {} /\ Elems(cvqueue) = {}
      BY DEF Init, EmptyQueue, Waiting, Elems
<1>2. \A t \in Threads : pc[t] = "idle" /\ scan[t] = NoScan /\ scan[t].wl = <<>>
      BY NoScanIs DEF Init
<1>3. \A t \in Threads : Listed(t) = {}
      BY <1>2 DEF Listed, Elems
<1>4. ListsTyped
      BY NoScanIs DEF Init, ListsTyped
<1>5. QueueGood
      BY <1>1, QueueAssumption DEF QueueGood, Good, EmptyQueue, Queues, Distinct
<1>6. Places
      BY <1>1, <1>2, <1>3 DEF Places, Giving, Distinct
<1>7. Asleep
      BY <1>1, <1>3 DEF Asleep, Somewhere
<1>8. Walks
      BY <1>2, NoScanIs DEF Walks, Walker
<1>9. SpinBit /\ BlockedCannotRun
      BY <1>1, <1>2 DEF SpinBit, Spinner, BlockedCannotRun
<1>10. WordMatchesQueue /\ WakerThere
       BY <1>1 DEF WordMatchesQueue, WakerThere
<1> QED
    BY <1>4, <1>5, <1>6, <1>7, <1>8, <1>9, <1>10 DEF WInv

(* Every step keeps the invariant.                                         *)
LEMMA NextWInv ==
  ASSUME IInv, IInv', WInv, [Next]_vars
  PROVE  WInv'
<1>1. ASSUME NEW t \in Threads, Step(t) PROVE WInv'
  <2>1. Typed' /\ Moves(t)
        BY <1>1, StepTyped DEF IInv
  <2>2. /\ Before(t) /\ Fits /\ BlockedCannotRun /\ CallAtHand(t) /\ Typed /\ SpinBit
        /\ WordMatchesHolders
        BY <1>1, <2>1 DEF IInv, WInv, Before, Lists, Fits
  <2>3. Lists' /\ Fits' /\ SpinBit'
        BY <1>1, <2>1, <2>2, StepLists, StepFits, StepSpin
  <2>4. BlockedCannotRun'
    <3> SUFFICES ASSUME NEW u \in Threads, pc'[u] \in {"unlock", "walk", "release"},
                        after'[u] = "block"
                 PROVE  ~Runs(u)'
        BY DEF BlockedCannotRun
    <3>1. CASE u = t
          BY <1>1, <2>2, <3>1, StepBlocked
    <3>2. CASE u # t
      <4>1. pc'[u] = pc[u] /\ after'[u] = after[u] /\ cond'[u] = cond[u]
            BY <2>1, <3>2 DEF Moves, Alone
      <4>2. ~Runs(u) /\ Holds(u)
            BY <4>1 DEF BlockedCannotRun, Holds, WInv
      <4>3. truth' = truth
        <5>1. truth' = truth \/ (pc[t] = "held" /\ how[t] = "X")
              BY <1>1, <2>2, StepTruth DEF WInv, ListsTyped
        <5>2. pc[t] = "held" => Holds(t)
              BY DEF Holds
        <5> QED
            BY <2>2, <3>2, <4>2, <5>1, <5>2, HoldersAre
      <4> QED
          BY <4>1, <4>2, <4>3 DEF Runs
    <3> QED
        BY <3>1, <3>2
  <2> QED
      BY <2>3, <2>4 DEF WInv, Lists, Fits
<1>2. CASE UNCHANGED vars
  <2>1. kind' = kind
        BY <1>2 DEF kind, vars
  <2>2. /\ ListsTyped' /\ QueueGood' /\ SpinBit' /\ WordMatchesQueue' /\ WakerThere'
        /\ BlockedCannotRun'
        BY <1>2, <2>1 DEF vars, WInv, ListsTyped, QueueGood, SpinBit, Spinner, WordMatchesQueue,
           WakerThere, BlockedCannotRun, Runs
  <2>3. \A u : Listed(u)' = Listed(u)
        BY <1>2 DEF vars, Listed
  <2>4. Places'
        BY <1>2, <2>3 DEF vars, WInv, Places
  <2>5. Asleep'
        BY <1>2, <2>3 DEF vars, WInv, Asleep, Somewhere, Sleeps, Unlinked, Target
  <2>6. Walks'
        BY <1>2, <2>1 DEF vars, WInv, Walks, Walker, Searches
  <2> QED
      BY <2>2, <2>4, <2>5, <2>6 DEF WInv
<1> QED
    BY <1>1, <1>2 DEF Next, Terminated

(* The word, the queue and the lists are in order at all times.            *)
LEMMA WaitsInOrder == Spec => [](IInv /\ WInv)
<1>1. Init => IInv /\ WInv
      BY InitIInv, InitWInv
<1>2. IInv /\ WInv /\ [Next]_vars => IInv' /\ WInv'
      BY NextIInv, NextWInv
<1> QED
    BY <1>1, <1>2, PTL DEF Spec

-----------------------------------------------------------------------------
(* No check of the queue code fails: the queue has not "changed beneath    *)
(* us", no skip pointer is illegal, no wake list is empty, and the waiter  *)
(* that UnlockSlow wakes is still behind the one it remembers.             *)
THEOREM NoCheckFails == Spec => []NoFatal
<1>1. IInv /\ WInv => NoFatal
      BY DEF WInv, QueueGood, NoFatal
<1> QED
    BY <1>1, WaitsInOrder, PTL

(* A skip pointer leads to a later waiter of the same queue, over waiters  *)
(* that all wait for the same (mutex.cc:753-760).                          *)
THEOREM SkipsAreRight == Spec => []SkipOK
<1>1. ASSUME WInv PROVE SkipOK
  <2> SUFFICES ASSUME NEW x \in Waiting(queue), queue.skip[x] # Null
               PROVE  /\ queue.skip[x] \in Waiting(queue)
                      /\ Pos(queue, x) < Pos(queue, queue.skip[x])
                      /\ \A k \in Pos(queue, x)..Pos(queue, queue.skip[x]) :
                           MuSameCondition(kind, x, queue.seq[k])
      BY DEF SkipOK, SkipInvariant
  <2>1. Good(queue, kind) /\ Distinct(queue.seq)
        BY <1>1 DEF WInv, QueueGood, Good
  <2>2. PICK i \in DOMAIN queue.seq : x = queue.seq[i]
        BY DEF Waiting
  <2>3. PICK j \in DOMAIN queue.seq : Jump(queue, kind, i, j)
        BY <2>1, <2>2 DEF Good
  <2>4. Pos(queue, x) = i /\ queue.skip[x] = queue.seq[j] /\ Pos(queue, queue.seq[j]) = j
        BY <2>1, <2>2, <2>3, PosIs DEF Jump
  <2> QED
      BY <2>2, <2>3, <2>4 DEF Jump, Waiting, MuSameCondition
<1> QED
    BY <1>1, WaitsInOrder, PTL

(* kMuWait is set exactly when there is a waiter, and kMuWrWait implies    *)
(* kMuWait (mutex.cc:628, CheckForMutexCorruption).                        *)
THEOREM WordKnowsTheQueue == Spec => []WordMatchesQueue
<1>1. IInv /\ WInv => WordMatchesQueue
      BY DEF WInv
<1> QED
    BY <1>1, WaitsInOrder, PTL

(* A list of different threads has as many elements as threads.            *)
LEMMA DistinctCounts ==
  ASSUME NEW list \in Seq(Threads), Distinct(list)
  PROVE  Cardinality(Elems(list)) = Len(list)
<1> DEFINE n == Len(list)
<1>1. n \in Nat /\ list \in [1..n -> Threads] /\ DOMAIN list = 1..n
      OBVIOUS
<1>2. list \in Bijection(1..n, Elems(list))
      BY <1>1 DEF Bijection, Injection, Surjection, IsInjective, Distinct, Elems
<1>3. IsFiniteSet(1..n) /\ Cardinality(1..n) = n
  <2>1. 1 \in Int /\ n \in Int /\ (1 > n => n = 0)
        BY <1>1
  <2> HIDE DEF n
  <2>2. IsFiniteSet(1..n) /\ Cardinality(1..n) = IF 1 > n THEN 0 ELSE n - 1 + 1
        BY <2>1, FS_Interval
  <2> QED
      BY <2>1, <2>2
<1> HIDE DEF n
<1>4. ExistsBijection(1..n, Elems(list))
      BY <1>2 DEF ExistsBijection
<1>5. Cardinality(Elems(list)) = Cardinality(1..n)
      BY <1>3, <1>4, FS_Bijection
<1> QED
    BY <1>3, <1>5 DEF n

(* A thread on a queue sleeps, it is queued and linked, and it is in no    *)
(* two places.                                                             *)
THEOREM WaitersAreAsleep == Spec => []QueuedThreadsSleep
<1>1. ASSUME WInv PROVE QueuedThreadsSleep
  <2>1. /\ ListsTyped /\ Places /\ Asleep /\ Good(queue, kind) /\ queue.seq \in Seq(Threads)
        /\ Distinct(queue.seq) /\ cvqueue \in Seq(Threads) /\ Distinct(cvqueue)
        /\ Elems(cvqueue) \cap Waiting(queue) = {}
        BY <1>1 DEF WInv, QueueGood, Good, Queues, ListsTyped, Places
  <2>2. Cardinality(Elems(queue.seq)) = Len(queue.seq) /\ Cardinality(Elems(cvqueue)) = Len(cvqueue)
        BY <2>1, DistinctCounts
  <2>3. Waiting(queue) = Elems(queue.seq)
        BY DEF Waiting, Elems
  <2>4. \A x \in Waiting(queue) \cup Elems(cvqueue) : x \in Threads
        BY <2>1, EmptyIs DEF Elems
  <2>5. \A x \in Waiting(queue) \cup Elems(cvqueue) : Sleeps(x) /\ x \in queued /\ x \in linked
        BY <2>1, <2>4, WaitersSleep
  <2>6. \A x \in Waiting(queue) \cup Elems(cvqueue) :
          pc[x] \in {"block", "sem", "timedout", "cvblock", "cvsem", "cvtimedout",
                    "release", "wake", "woken", "post"}
        BY <2>5 DEF Sleeps
  <2>7. {cvqueue[i] : i \in DOMAIN cvqueue} = Elems(cvqueue)
        BY DEF Elems
  <2> QED
      BY <2>1, <2>2, <2>3, <2>5, <2>6, <2>7 DEF QueuedThreadsSleep
<1> QED
    BY <1>1, WaitsInOrder, PTL

(* The bit that keeps the fast releases from the queue is never left       *)
(* behind: whenever kMuDesig is set a woken thread is on its way that will *)
(* clear it (mutex.cc:603-610).                                            *)
THEOREM DesignatedWakerIsThere == Spec => []DesignatedWakerExists
<1>1. Init => DesignatedWakerExists
      BY DEF Init, DesignatedWakerExists
<1>2. ASSUME IInv, IInv', WInv, DesignatedWakerExists, [Next]_vars
      PROVE  DesignatedWakerExists'
  <2>1. ASSUME NEW t \in Threads, Step(t) PROVE DesignatedWakerExists'
    <3>1. Typed' /\ Moves(t)
          BY <1>2, <2>1, StepTyped DEF IInv
    <3>2. Before(t)
          BY <1>2, <2>1, <3>1 DEF IInv, WInv, Before, Lists
    <3> QED
        BY <1>2, <3>2, StepWaker
  <2>2. CASE UNCHANGED vars
    <3>1. \A t : ToWake(t)' = ToWake(t) /\ (Sleeps(t)' <=> Sleeps(t))
          BY <2>2 DEF vars, ToWake, Sleeps, Signalling, Call
    <3> QED
        BY <1>2, <2>2, <3>1 DEF vars, DesignatedWakerExists, OnItsWay
  <2> QED
      BY <1>2, <2>1, <2>2 DEF Next, Terminated
<1> QED
    BY <1>1, <1>2, WaitsInOrder, PTL DEF Spec

(* No wakeup is lost: if the lock is free and a waiter could run, a thread *)
(* that was woken before is on its way.                                    *)
THEOREM NoWakeupIsLost == Spec => []NoLostWakeup
<1>1. IInv /\ WInv /\ DesignatedWakerExists => NoLostWakeup
      BY DEF WInv, WakerThere, NoLostWakeup, Runs
<1> QED
    BY <1>1, WaitsInOrder, DesignatedWakerIsThere, PTL
=============================================================================
