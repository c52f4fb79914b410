------------------------------- MODULE Mutex -------------------------------
(***************************************************************************)
(* abel::mutex and abel::cond_var (abel/synchronization/mutex.cc): one     *)
(* mutex, one condition variable, and threads that run small client        *)
(* programs on them.                                                       *)
(*                                                                         *)
(* A step is one successful atomic access to the mutex word with the       *)
(* private work around it.  Where a thread holds the word's spin bit and   *)
(* the lock, nobody else can change the word or the queue, and the work    *)
(* under both is one step; where it holds the spin bit only (queueing      *)
(* itself) a holder may still release the lock, so taking and releasing    *)
(* the bit are two steps.  An unlocker's walk over the queue holds the     *)
(* lock but not the spin bit: one step per waiter.                         *)
(*                                                                         *)
(* The reader count lives in the word, or in the last waiter once there is *)
(* one; every hand-over copies it or sets it to zero, so it is one         *)
(* variable here.  Event tracing (kMuEvent), deadlock detection and        *)
(* profiling leave the lock's state alone and are left out.                *)
(***************************************************************************)
EXTENDS MutexQueue

CONSTANTS
  Conds,     \* conditions on the data the mutex protects
  Programs,  \* the sets of client programs to run: functions from threads
             \* to sequences of calls
  Priority   \* the scheduling priority of each thread

(* The calls of a client, with their arguments.                            *)
Calls ==
  LET Modes == {"X", "S"} IN
  [op : {"lock"}, how : Modes, cond : Conds \cup {Null}, timed : BOOLEAN]
    \cup [op : {"try"}, how : Modes]
    \cup [op : {"await", "wait"}, cond : Conds, timed : BOOLEAN]
    \cup [op : {"unlock"}, set : SUBSET Conds]
    \cup [op : {"signal", "signal_all"}]

ASSUME MutexAssumption ==
  /\ Null \notin Conds
  /\ Priority \in [Threads -> Nat]
  /\ Programs \subseteq [Threads -> Seq(Calls)]

VARIABLES
  mu,         \* the low bits of mu_, as a set
  readers,    \* the reader count
  unlocking,  \* threads whose PerThreadSynch::maybe_unlocking is set
  queue,      \* the waiter queue
  cvqueue,    \* the condition variable's queue, first waiter first
  priority,   \* PerThreadSynch::priority, read now and then
  linked,     \* threads whose PerThreadSynch::next is not null
  queued,     \* threads whose PerThreadSynch::state is kQueued
  sem,        \* each thread's semaphore
  truth,      \* the conditions that hold now: the protected data
  prog,       \* the client programs chosen
  ip,         \* calls of its program each thread has completed
  result,     \* threads whose last LockWhen or Await call returned true
  pc,         \* where each thread is in the mutex code
  how,        \* waitp->how: "X" exclusive, "S" shared
  cond,       \* waitp->cond
  timed,      \* threads whose waitp->timeout may still expire
  blocked,    \* threads with kMuHasBlocked in their flags
  after,      \* where UnlockSlow or a signal call leads: "block" if waitp
              \* is set, "cvblock" if its cv_word is set too
  scan        \* UnlockSlow's locals, or the list a signaller wakes

vars == <<mu, readers, unlocking, queue, cvqueue, priority, linked, queued, sem,
          truth, prog, ip, result, pc, how, cond, timed, blocked, after, scan>>

(* Groups of variables that most steps leave alone.                        *)
wordVars == <<mu, readers>>
listVars == <<unlocking, queue, priority>>
nodeVars == <<linked, queued, sem>>
clientVars == <<truth, prog, ip, result>>
callVars == <<how, cond, timed, blocked, after>>

kMuWriter == "Writer"
kMuReader == "Reader"
kMuWait   == "Wait"
kMuWrWait == "WrWait"
kMuDesig  == "Desig"
kMuSpin   == "Spin"
Bits == {kMuWriter, kMuReader, kMuWait, kMuWrWait, kMuDesig, kMuSpin}

Has(bits) == bits \cap mu # {}

(* UnlockSlow's locals before its loop; wl is the wake list.               *)
NoScan == [w |-> Null, pw |-> Null, old |-> Null, knownFalse |-> Null,
           wrWait |-> FALSE, wWalk |-> Null, pwWalk |-> Null, wl |-> <<>>]

Labels == {"idle", "lock", "enqueue", "block", "sem", "timedout", "held",
           "unlock", "walk", "wake", "woken", "post", "release", "cvblock",
           "cvsem", "cvtimedout", "signal", "transfer"}

Init ==
  /\ mu = {} /\ readers = 0 /\ unlocking = {}
  /\ queue = EmptyQueue /\ cvqueue = <<>>
  /\ priority = [t \in Threads |-> 0]
  /\ linked = {} /\ queued = {}
  /\ sem = [t \in Threads |-> 0]
  /\ truth = {}
  /\ prog \in Programs
  /\ ip = [t \in Threads |-> 0]
  /\ result = {}
  /\ pc = [t \in Threads |-> "idle"]
  /\ how = [t \in Threads |-> "X"]
  /\ cond = [t \in Threads |-> Null]
  /\ timed = {} /\ blocked = {}
  /\ after = [t \in Threads |-> "idle"]
  /\ scan = [t \in Threads |-> NoScan]

Goto(t, label) == pc' = [pc EXCEPT ![t] = label]
kind == [t \in Threads |-> <<how[t], cond[t]>>]

(* The call at hand: a record with field op and the call's arguments.      *)
Running(t) == ip[t] < Len(prog[t])
Call(t)    == prog[t][ip[t] + 1]
AtCall(t, label, op) == pc[t] = label /\ Running(t) /\ Call(t).op = op
Return(t)  == ip' = [ip EXCEPT ![t] = @ + 1]

Set(f, t, value) == [f EXCEPT ![t] = value]

-----------------------------------------------------------------------------
(* lock, reader_lock, LockWhen..., ReaderLockWhen...: the fast path is the *)
(* first turn of LockSlowLoop.                                             *)
Lock(t) ==
  /\ AtCall(t, "idle", "lock")
  /\ how' = Set(how, t, Call(t).how)
  /\ cond' = Set(cond, t, Call(t).cond)
  /\ timed' = IF Call(t).timed THEN timed \cup {t} ELSE timed
  /\ Goto(t, "lock")
  /\ UNCHANGED <<wordVars, listVars, nodeVars, clientVars, cvqueue, blocked, after, scan>>

(* Mutant: a writer does not wait for readers.                             *)
SlowNeedZero_WriterOnly(h) == IF h = "X" THEN {kMuWriter} ELSE {kMuWriter, kMuWait}

(* What stands in the way of an acquisition: slow_need_zero.               *)
SlowNeedZero(h) == IF h = "X" THEN {kMuWriter, kMuReader} ELSE {kMuWriter, kMuWait}
Held(h) == IF h = "X" THEN kMuWriter ELSE kMuReader

(* mu_ with the designated-waker bit off if t has blocked.                 *)
ZapDesigWaker(t) == IF t \in blocked THEN mu \ {kMuDesig} ELSE mu

(* What LockSlowWithDeadline and AwaitCommon return: true if waitp->cond   *)
(* is still set, for LockSlowLoop has found it true, else what the         *)
(* condition is under the lock.  A cond_var's WaitCommon ignores it.       *)
Answer(t) == cond[t] # Null \/ Call(t).cond \in truth \cup {Null}

Answered(t) ==
  result' = IF Call(t).op = "wait" THEN result
            ELSE IF Answer(t) THEN result \cup {t} ELSE result \ {t}

(* The lock is t's: return if the condition holds or does not matter any   *)
(* more, else release the lock again and wait.                             *)
GotLock(t) ==
  \/ /\ cond[t] \in truth \cup {Null}
     /\ Return(t) /\ Answered(t)
     /\ timed' = timed \ {t}
     /\ blocked' = blocked \ {t}
     /\ cond' = Set(cond, t, Null)
     /\ Goto(t, "held")
     /\ UNCHANGED <<truth, prog, how, after>>
  \/ /\ cond[t] \notin truth \cup {Null}
     /\ after' = Set(after, t, "block")
     /\ Goto(t, "unlock")
     /\ UNCHANGED <<clientVars, how, cond, timed, blocked>>

(* LockSlowLoop: acquire a free lock.                                      *)
LockAcquire(t) ==
  /\ pc[t] = "lock"
  /\ ~Has(SlowNeedZero(how[t]))
  /\ mu' = ZapDesigWaker(t) \cup {Held(how[t])}
  /\ readers' = IF how[t] = "S" THEN readers + 1 ELSE readers
  /\ GotLock(t)
  /\ UNCHANGED <<listVars, nodeVars, cvqueue, scan>>

(* A reader joins although there are waiters: no writer, and no runnable   *)
(* writer waits unless the reader has waited before.                       *)
MayJoin(t) ==
  /\ how[t] = "S"
  /\ ~Has({kMuSpin, kMuWriter} \cup IF t \in blocked THEN {} ELSE {kMuWrWait})

(* LockSlowLoop: increment the reader count kept in the last waiter.       *)
LockJoin(t) ==
  /\ pc[t] = "lock"
  /\ Has({kMuWait})
  /\ MayJoin(t)
  /\ mu' = ZapDesigWaker(t) \cup {kMuReader}
  /\ readers' = readers + 1
  /\ GotLock(t)
  /\ UNCHANGED <<listVars, nodeVars, cvqueue, scan>>

(* What Enqueue stores as the priority of s: what pthread_getschedparam    *)
(* says of the CALLING thread c, unless the queue is empty, the stored     *)
(* value is recent or the call fails.                                      *)
Priorities(Q, s, c) == IF Q.seq = <<>> THEN {priority[s]} ELSE {priority[s], Priority[c]}

(* The ways of putting s on queue Q.  U are the threads whose              *)
(* maybe_unlocking is set: a new last waiter takes it over.                *)
Enqueued(Q, U, s, c) ==
  LET With(p) ==
        LET prio == Set(priority, s, p)
            Qn   == Enqueue(Q, s, kind, prio, HeadOf(Q) \in U)
        IN  [queue |-> Qn, priority |-> prio, waiters |-> {s},
             unlocking |-> IF Q.seq = <<>> THEN U \ {s}
                           ELSE IF HeadOf(Qn) # s THEN U
                           ELSE IF HeadOf(Q) \in U THEN U \cup {s} ELSE U \ {s}]
  IN  {With(p) : p \in Priorities(Q, s, c)}

Store(new) ==
  /\ queue' = new.queue
  /\ unlocking' = new.unlocking
  /\ priority' = new.priority
  /\ linked' = linked \cup new.waiters
  /\ queued' = queued \cup new.waiters

EnqueueOn(s, c) == \E new \in Enqueued(queue, unlocking, s, c) : Store(new)

WrWait(t) == IF how[t] = "X" /\ Has({kMuReader}) THEN {kMuWrWait} ELSE {}

(* LockSlowLoop: become the one and only waiter.                           *)
LockOnlyWaiter(t) ==
  /\ pc[t] = "lock"
  /\ Has(SlowNeedZero(how[t]))
  /\ ~Has({kMuSpin, kMuWait})
  /\ mu' = ZapDesigWaker(t) \cup {kMuWait} \cup WrWait(t)
  /\ EnqueueOn(t, t)
  /\ Goto(t, "block")
  /\ UNCHANGED <<readers, sem, clientVars, callVars, cvqueue, scan>>

(* LockSlowLoop: take the spin bit to queue, then queue and release it.    *)
(* The lock itself may be released or taken by others in between.          *)
LockSpin(t) ==
  /\ pc[t] = "lock"
  /\ Has(SlowNeedZero(how[t]))
  /\ Has({kMuWait}) /\ ~Has({kMuSpin}) /\ ~MayJoin(t)
  /\ mu' = ZapDesigWaker(t) \cup {kMuSpin, kMuWait}
  /\ scan' = [scan EXCEPT ![t].wrWait = WrWait(t) # {}]
  /\ Goto(t, "enqueue")
  /\ UNCHANGED <<readers, listVars, nodeVars, clientVars, callVars, cvqueue>>

LockEnqueue(t) ==
  /\ pc[t] = "enqueue"
  /\ mu' = (mu \ {kMuSpin}) \cup {kMuWait}
             \cup (IF scan[t].wrWait THEN {kMuWrWait} ELSE {})
  /\ EnqueueOn(t, t)
  /\ scan' = Set(scan, t, NoScan)
  /\ Goto(t, "block")
  /\ UNCHANGED <<readers, sem, clientVars, callVars, cvqueue>>

(* try_lock, reader_try_lock.  The exchange may also fail because another  *)
(* thread changed the word; a failed call ends the client's program.       *)
TryLock(t) ==
  /\ AtCall(t, "idle", "try")
  /\ \/ /\ ~Has(SlowNeedZero(Call(t).how))
        /\ mu' = mu \cup {Held(Call(t).how)}
        /\ readers' = IF Call(t).how = "S" THEN readers + 1 ELSE readers
        /\ how' = Set(how, t, Call(t).how)
        /\ Return(t)
        /\ Goto(t, "held")
     \/ /\ ip' = Set(ip, t, Len(prog[t]))
        /\ UNCHANGED <<wordVars, how, pc>>
  /\ UNCHANGED <<listVars, nodeVars, truth, prog, result, cond, timed, blocked, after,
                 cvqueue, scan>>

-----------------------------------------------------------------------------
(* Mutant: a thread that is woken forgets its condition, as after a        *)
(* timeout.                                                                *)
BlockCheck_Forget(t) ==
  /\ pc[t] = "block"
  /\ Goto(t, IF t \in queued THEN "sem" ELSE "lock")
  /\ blocked' = IF t \in queued THEN blocked ELSE blocked \cup {t}
  /\ cond' = IF t \in queued THEN cond ELSE Set(cond, t, Null)
  /\ UNCHANGED <<wordVars, listVars, nodeVars, clientVars, cvqueue, how, timed, after, scan>>

(* Mutant: a thread that is woken does not set kMuHasBlocked.              *)
BlockCheck_NoFlag(t) ==
  /\ pc[t] = "block"
  /\ Goto(t, IF t \in queued THEN "sem" ELSE "lock")
  /\ UNCHANGED <<wordVars, listVars, nodeVars, clientVars, cvqueue, callVars, scan>>

(* Block: wait until somebody takes t off the queue.                       *)
BlockCheck(t) ==
  /\ pc[t] = "block"
  /\ Goto(t, IF t \in queued THEN "sem" ELSE "lock")
  /\ blocked' = IF t \in queued THEN blocked ELSE blocked \cup {t}
  /\ UNCHANGED <<wordVars, listVars, nodeVars, clientVars, cvqueue, how, cond, timed, after, scan>>

(* DecrementSynchSem takes a unit of the semaphore ...                     *)
SemWait(t) ==
  /\ pc[t] \in {"sem", "cvsem"}
  /\ sem[t] > 0
  /\ sem' = [sem EXCEPT ![t] = @ - 1]
  /\ Goto(t, IF pc[t] = "sem" THEN "block" ELSE "cvblock")
  /\ UNCHANGED <<wordVars, listVars, linked, queued, clientVars, callVars, cvqueue, scan>>

(* ... or the timeout expires first.                                       *)
SemTimeout(t) ==
  /\ pc[t] \in {"sem", "cvsem"}
  /\ t \in timed
  /\ Goto(t, IF pc[t] = "sem" THEN "timedout" ELSE "cvtimedout")
  /\ UNCHANGED <<wordVars, listVars, nodeVars, clientVars, callVars, cvqueue, scan>>

(* Mutant: a waiting writer is announced although nobody waits.            *)
WaitBits_NoWaiter(Q, wrWait) == (IF Q.seq = <<>> THEN {} ELSE {kMuWait}) \cup wrWait

(* kMuWait and kMuWrWait of a lock released with queue Q.                  *)
WaitBits(Q, wrWait) == IF Q.seq = <<>> THEN {} ELSE {kMuWait} \cup wrWait

(* TryRemove, under the spin bit and the lock: t leaves the queue unless   *)
(* another thread has taken it off already.                                *)
TryRemove(t) ==
  /\ pc[t] = "timedout"
  /\ mu \cap {kMuWait, kMuSpin, kMuWriter, kMuReader} = {kMuWait}
  /\ queue' = Remove(queue, t, kind)
  /\ linked' = linked \ (Waiting(queue) \ Waiting(queue'))
  /\ queued' = queued \ (Waiting(queue) \ Waiting(queue'))
  /\ mu' = (mu \cap {kMuDesig}) \cup WaitBits(queue', {})
  /\ unlocking' = unlocking \ {HeadOf(queue')}
  /\ UNCHANGED <<readers, priority, sem, clientVars, callVars, cvqueue, pc, scan>>

(* Block: off the queue after the timeout; the condition no longer         *)
(* matters.  Without kDebugMode TryRemove is not tried once more.          *)
TimeoutSatisfied(t) ==
  /\ pc[t] = "timedout"
  /\ t \notin linked
  /\ timed' = timed \ {t}
  /\ cond' = Set(cond, t, Null)
  /\ Goto(t, "block")
  /\ UNCHANGED <<wordVars, listVars, nodeVars, clientVars, cvqueue, how, blocked, after, scan>>

-----------------------------------------------------------------------------
(* Await, AwaitWithTimeout, AwaitWithDeadline, AwaitCommon.                *)
Await(t) ==
  /\ AtCall(t, "held", "await")
  /\ \/ /\ Call(t).cond \in truth
        /\ Return(t)
        /\ result' = result \cup {t}
        /\ UNCHANGED <<pc, cond, timed, blocked, after>>
     \/ /\ Call(t).cond \notin truth
        /\ cond' = Set(cond, t, Call(t).cond)
        /\ timed' = IF Call(t).timed THEN timed \cup {t} ELSE timed
        /\ blocked' = blocked \cup {t}
        /\ after' = Set(after, t, "block")
        /\ Goto(t, "unlock")
        /\ UNCHANGED <<ip, result>>
  /\ UNCHANGED <<wordVars, listVars, nodeVars, truth, prog, cvqueue, how, scan>>

(* unlock, reader_unlock: a writer may have changed the data before it.    *)
Unlock(t) ==
  /\ AtCall(t, "held", "unlock")
  /\ truth' = IF how[t] = "X" THEN Call(t).set ELSE truth
  /\ after' = Set(after, t, "idle")
  /\ Goto(t, "unlock")
  /\ UNCHANGED <<wordVars, listVars, nodeVars, prog, ip, result, cvqueue, how, cond, timed,
                 blocked, scan>>

(* The end of UnlockSlow or of a signal call, or of an enclosing Wakeup.   *)
Leave(t) ==
  /\ Goto(t, after[t])
  /\ IF after[t] \in {"idle", "held"} THEN Return(t) ELSE UNCHANGED ip
  /\ UNCHANGED <<truth, prog, result>>

(* Mutant: the fast release does not look for a designated waker.          *)
WriterMayGo_Always == Has({kMuWriter})

(* Fast release of a writer: no waiters, or a designated waker.            *)
WriterMayGo == Has({kMuWriter}) /\ (Has({kMuWait}) => Has({kMuDesig}))

UnlockFastWriter(t) ==
  /\ pc[t] = "unlock" /\ after[t] = "idle"
  /\ WriterMayGo
  /\ mu' = mu \ {kMuWrWait, kMuWriter}
  /\ Leave(t)
  /\ scan' = Set(scan, t, NoScan)
  /\ UNCHANGED <<readers, listVars, nodeVars, cvqueue, callVars>>

(* The bits a departing holder clears.                                     *)
HolderBits == IF Has({kMuWriter}) THEN {kMuWriter}
              ELSE IF readers = 1 THEN {kMuReader} ELSE {}

OneLess == IF Has({kMuReader}) THEN readers - 1 ELSE readers

(* Fast release of a reader: no waiters.                                   *)
UnlockFastReader(t) ==
  /\ pc[t] = "unlock" /\ after[t] = "idle"
  /\ Has({kMuReader}) /\ ~Has({kMuWait})
  /\ mu' = mu \ HolderBits
  /\ readers' = OneLess
  /\ Leave(t)
  /\ scan' = Set(scan, t, NoScan)
  /\ UNCHANGED <<listVars, nodeVars, cvqueue, callVars>>

(* UnlockSlow's critical section.  It is one step under the spin bit,      *)
(* except for a thread that waits on the condition variable: that one      *)
(* queues there first, in UnlockCvEnqueue, and others see it there before  *)
(* it releases the lock.                                                   *)
SpinFree(t) ==
  /\ pc[t] = "unlock" /\ ~Has({kMuSpin})
  /\ after[t] = "idle" => Has({kMuWait}) /\ ~WriterMayGo
InSlow(t) == (SpinFree(t) /\ after[t] # "cvblock") \/ pc[t] = "release"

(* The queue and what goes with it, with t on it if t is to wait there.    *)
Requeue(t, Q, U) ==
  IF after[t] = "block" THEN Enqueued(Q, U, t, t)
  ELSE {[queue |-> Q, unlocking |-> U, priority |-> priority, waiters |-> {}]}

(* No waiters; t holds the lock and is about to wait.                      *)
UnlockNoWaiters(t) ==
  /\ InSlow(t) /\ ~Has({kMuWait})
  /\ \E new \in Requeue(t, queue, unlocking) : Store(new)
  /\ mu' = (mu \ ({kMuSpin, kMuWrWait} \cup HolderBits))
             \cup (IF after[t] = "block" THEN {kMuWait} ELSE {})
  /\ readers' = OneLess
  /\ Leave(t)
  /\ scan' = Set(scan, t, NoScan)
  /\ UNCHANGED <<sem, cvqueue, callVars>>

(* Waiters, and t is one of several readers.                               *)
UnlockNotLast(t) ==
  /\ InSlow(t) /\ Has({kMuWait})
  /\ Has({kMuReader}) /\ readers > 1
  /\ \E new \in Requeue(t, queue, unlocking) : Store(new)
  /\ mu' = mu \ {kMuSpin}
  /\ readers' = readers - 1
  /\ Leave(t)
  /\ scan' = Set(scan, t, NoScan)
  /\ UNCHANGED <<sem, cvqueue, callVars>>

(* The lock is becoming free and there are waiters.  If t has searched the *)
(* queue up to "old" before, old was kept from skipping and may skip again.*)
LastHolder == Has({kMuWait}) /\ ~(Has({kMuReader}) /\ readers > 1)

Reopened(t) ==
  LET old == scan[t].old
      Q0 == Check(queue, old = Null \/ HeadOf(queue) \in unlocking,
                  "mutex queue changed beneath us")
      Q1 == Check([Q0 EXCEPT !.may = @ \cup {old}], Q0.skip[old] = Null,
                  "illegal skip from head")
  IN  IF old \in Q0.may \cup {Null} THEN Q0
      ELSE IF HeadOf(Q1) # old /\ MuSameCondition(kind, old, NextOf(Q1, old))
           THEN [Q1 EXCEPT !.skip[old] = NextOf(Q1, old)] ELSE Q1

(* A writer without a condition is in front; a waiter to wake is known; or *)
(* the whole queue has been searched.                                      *)
EasyWriter == kind[queue.seq[1]] = <<"X", Null>>
Searched(t) == scan[t].old = HeadOf(queue)
Found(t)   == scan[t].w # Null /\ (how[scan[t].w] = "X" \/ Searched(t))
MustWalk(t) == LastHolder /\ ~EasyWriter /\ ~Found(t) /\ ~Searched(t)

(* Take the waiters to wake off the queue and release everything.          *)
UnlockWake(t) ==
  /\ InSlow(t) /\ LastHolder
  /\ EasyWriter \/ Found(t)
  /\ LET front == queue.seq[1]
         w  == IF EasyWriter THEN front ELSE scan[t].w
         pw == IF EasyWriter \/ scan[t].pw = Null THEN HeadOf(queue) ELSE scan[t].pw
         wrWait == IF EasyWriter \/ scan[t].wrWait THEN {kMuWrWait} ELSE {}
         Q0 == [Reopened(t) EXCEPT !.wake = IF EasyWriter THEN @ \cup {front} ELSE @]
         Q1 == Check(Q0, NextOf(Q0, pw) = w, "pw not w's predecessor")
     IN  \E taken \in {DequeueAllWakeable(Q1, pw, kind)} :
         \E new \in Requeue(t, Check(taken.queue, taken.list # <<>>,
                                    "unexpected empty wake list"), unlocking) :
           /\ Store([new EXCEPT !.unlocking = @ \ {HeadOf(new.queue)}])
           /\ mu' = {kMuDesig} \cup WaitBits(new.queue, wrWait)
           /\ scan' = Set(scan, t, [NoScan EXCEPT !.wl = taken.list])
  /\ readers' = 0
  /\ Goto(t, "wake")
  /\ UNCHANGED <<sem, clientVars, cvqueue, callVars>>

(* Nobody on the queue can run.                                            *)
UnlockNobody(t) ==
  /\ InSlow(t) /\ LastHolder
  /\ ~EasyWriter /\ ~Found(t) /\ Searched(t)
  /\ \E new \in Requeue(t, Reopened(t), unlocking \ {HeadOf(queue)}) : Store(new)
  /\ mu' = mu \ {kMuReader, kMuWriter, kMuWrWait, kMuSpin}
  /\ readers' = 0
  /\ Leave(t)
  /\ scan' = Set(scan, t, NoScan)
  /\ UNCHANGED <<sem, cvqueue, callVars>>

(* Mark the end of the search and walk the queue without the spin bit.     *)
UnlockStartWalk(t) ==
  /\ SpinFree(t) /\ MustWalk(t)
  /\ LET Q == Reopened(t)
         head == HeadOf(Q)
         old == scan[t].old
     IN  /\ queue' = Check([Q EXCEPT !.may = @ \ {head}], Q.skip[head] = Null,
                           "illegal skip from head")
         /\ unlocking' = unlocking \cup {head}
         /\ scan' = [scan EXCEPT ![t].old = head, ![t].pwWalk = old,
                       ![t].wWalk = IF old = Null THEN Q.seq[1] ELSE NextOf(Q, old)]
  /\ Goto(t, "walk")
  /\ UNCHANGED <<wordVars, priority, nodeVars, clientVars, cvqueue, callVars>>

(* Consider one waiter x of the walk.                                      *)
UnlockWalk(t) ==
  /\ pc[t] = "walk"
  /\ LET s == scan[t]
         x == s.wWalk
         runnable == cond[x] = Null \/ (cond[x] # s.knownFalse /\ cond[x] \in truth)
         first == runnable /\ s.w = Null
         wake  == runnable /\ (first \/ how[x] = "S")
         stop  == first /\ how[x] = "X"
         Q  == [queue EXCEPT !.wake = IF wake THEN @ \cup {x} ELSE @ \ {x}]
         sk == IF wake THEN [end |-> x, queue |-> Q] ELSE Skip(Q, x)
     IN  /\ queue' = sk.queue
         /\ scan' = Set(scan, t,
              [s EXCEPT !.w = IF first THEN x ELSE @,
                        !.pw = IF first THEN s.pwWalk ELSE @,
                        !.wrWait = @ \/ (runnable /\ how[x] = "X"),
                        !.knownFalse = IF runnable THEN @ ELSE cond[x],
                        !.pwWalk = IF stop \/ sk.end = s.old THEN Null ELSE sk.end,
                        !.wWalk = IF stop \/ sk.end = s.old THEN Null
                                  ELSE NextOf(sk.queue, sk.end)])
         /\ Goto(t, IF stop \/ sk.end = s.old THEN "unlock" ELSE "walk")
  /\ UNCHANGED <<wordVars, unlocking, priority, nodeVars, clientVars, cvqueue, callVars>>

-----------------------------------------------------------------------------
(* mutex::Wakeup of the waiters on t's list, the first one first: its next *)
(* field, its state and its semaphore are written one after another.       *)
Target(t) == scan[t].wl[1]

WakeUnlink(t) ==
  /\ linked' = linked \ {Target(t)}
  /\ Goto(t, "woken")
  /\ UNCHANGED <<wordVars, listVars, queued, sem, clientVars, cvqueue, callVars, scan>>

Wakeup(t) == pc[t] = "wake" /\ WakeUnlink(t)

WakeState(t) ==
  /\ pc[t] = "woken"
  /\ queued' = queued \ {Target(t)}
  /\ Goto(t, "post")
  /\ UNCHANGED <<wordVars, listVars, linked, sem, clientVars, cvqueue, callVars, scan>>

(* One waiter is dealt with: the next one, or the end of the call.         *)
Signalling(t) == Call(t).op \in {"signal", "signal_all"}
NextTarget(t) ==
  /\ scan' = [scan EXCEPT ![t].wl = Tail(@)]
  /\ IF Len(scan[t].wl) > 1
     THEN Goto(t, IF Signalling(t) THEN "signal" ELSE "wake") /\ UNCHANGED clientVars
     ELSE Leave(t)

IncrementSynchSem(t) ==
  /\ pc[t] = "post"
  /\ sem' = [sem EXCEPT ![Target(t)] = @ + 1]
  /\ NextTarget(t)
  /\ UNCHANGED <<wordVars, listVars, linked, queued, cvqueue, callVars>>

-----------------------------------------------------------------------------
(* cond_var::wait, wait_with_timeout, wait_with_deadline: WaitCommon       *)
(* releases the mutex through UnlockSlow.  The client waits only while the *)
(* condition it waits for is false, as every client must.                  *)
Wait(t) ==
  /\ AtCall(t, "held", "wait")
  /\ Call(t).cond \notin truth
  /\ timed' = IF Call(t).timed THEN timed \cup {t} ELSE timed
  /\ after' = Set(after, t, "cvblock")
  /\ Goto(t, "unlock")
  /\ UNCHANGED <<wordVars, listVars, nodeVars, clientVars, cvqueue, how, cond, blocked, scan>>

WaitNotNeeded(t) ==
  /\ AtCall(t, "held", "wait")
  /\ Call(t).cond \in truth
  /\ Return(t)
  /\ UNCHANGED <<wordVars, listVars, nodeVars, truth, prog, result, cvqueue, pc, callVars, scan>>

(* UnlockSlow has decided how to release, and calls CondVarEnqueue.        *)
UnlockCvEnqueue(t) ==
  /\ SpinFree(t) /\ after[t] = "cvblock" /\ ~MustWalk(t)
  /\ mu' = mu \cup {kMuSpin}
  /\ cvqueue' = Append(cvqueue, t)
  /\ linked' = linked \cup {t}
  /\ queued' = queued \cup {t}
  /\ Goto(t, "release")
  /\ UNCHANGED <<readers, listVars, sem, clientVars, callVars, scan>>

(* WaitCommon's loop; Trans then locks as a thread that has blocked.       *)
CvBlockCheck(t) ==
  /\ pc[t] = "cvblock"
  /\ IF t \in queued
     THEN Goto(t, "cvsem") /\ UNCHANGED <<blocked, timed>>
     ELSE /\ Goto(t, "lock")
          /\ blocked' = blocked \cup {t}
          /\ timed' = timed \ {t}
  /\ UNCHANGED <<wordVars, listVars, nodeVars, clientVars, cvqueue, how, cond, after, scan>>

(* Mutant: Remove marks t available although a signaller has taken it.     *)
CvRemove_NotFound(t) ==
  /\ pc[t] = "cvtimedout"
  /\ cvqueue' = Seqs!RemoveFirst(cvqueue, t)
  /\ linked' = linked \ {t}
  /\ queued' = queued \ {t}
  /\ Goto(t, "cvblock")
  /\ UNCHANGED <<wordVars, listVars, sem, clientVars, callVars, scan>>

(* Mutant: Remove leaves the state of t at kQueued.                        *)
CvRemove_StaysQueued(t) ==
  /\ pc[t] = "cvtimedout"
  /\ cvqueue' = Seqs!RemoveFirst(cvqueue, t)
  /\ linked' = IF cvqueue' = cvqueue THEN linked ELSE linked \ {t}
  /\ Goto(t, "cvblock")
  /\ UNCHANGED <<wordVars, listVars, queued, sem, clientVars, callVars, scan>>

(* cond_var::Remove after a timeout: t may be gone from the queue already. *)
CvRemove(t) ==
  /\ pc[t] = "cvtimedout"
  /\ LET here == {t} \cap {cvqueue[i] : i \in DOMAIN cvqueue} IN
     /\ cvqueue' = Seqs!RemoveFirst(cvqueue, t)
     /\ linked' = linked \ here
     /\ queued' = queued \ here
  /\ Goto(t, "cvblock")
  /\ UNCHANGED <<wordVars, listVars, sem, clientVars, callVars, scan>>

(* cond_var::signal and signal_all take the first or all waiters.          *)
Signal(t) ==
  /\ pc[t] \in {"idle", "held"} /\ Running(t) /\ Signalling(t)
  /\ LET n == IF Call(t).op = "signal" /\ cvqueue # <<>> THEN 1 ELSE Len(cvqueue) IN
     /\ cvqueue' = SubSeq(cvqueue, n + 1, Len(cvqueue))
     /\ scan' = [scan EXCEPT ![t].wl = SubSeq(cvqueue, 1, n)]
     /\ after' = Set(after, t, pc[t])
     /\ IF n > 0 THEN Goto(t, "signal") /\ UNCHANGED ip ELSE Return(t) /\ UNCHANGED pc
  /\ UNCHANGED <<wordVars, listVars, nodeVars, truth, prog, result, how, cond, timed, blocked>>

(* cond_var::Wakeup and mutex::Fer.  A waiter is woken if its wait is      *)
(* timed or if it could take the mutex now, else moved to the mutex queue. *)
Conflicting(w) == {kMuWriter} \cup (IF how[w] = "S" THEN {} ELSE {kMuReader})

FerWaits(w) == w \notin timed /\ Has(Conflicting(w))

CvWakeup(t) == pc[t] = "signal" /\ ~FerWaits(Target(t)) /\ WakeUnlink(t)

FerOnlyWaiter(t) ==
  /\ pc[t] = "signal" /\ FerWaits(Target(t))
  /\ ~Has({kMuSpin, kMuWait})
  /\ mu' = mu \cup {kMuWait}
  /\ EnqueueOn(Target(t), t)
  /\ NextTarget(t)
  /\ UNCHANGED <<readers, sem, cvqueue, callVars>>

FerSpin(t) ==
  /\ pc[t] = "signal" /\ FerWaits(Target(t))
  /\ ~Has({kMuSpin}) /\ Has({kMuWait})
  /\ mu' = mu \cup {kMuSpin, kMuWait}
  /\ Goto(t, "transfer")
  /\ UNCHANGED <<readers, listVars, nodeVars, clientVars, cvqueue, callVars, scan>>

FerEnqueue(t) ==
  /\ pc[t] = "transfer"
  /\ mu' = (mu \ {kMuSpin}) \cup {kMuWait}
  /\ EnqueueOn(Target(t), t)
  /\ NextTarget(t)
  /\ UNCHANGED <<readers, sem, cvqueue, callVars>>

-----------------------------------------------------------------------------
Step(t) ==
  \/ Lock(t) \/ TryLock(t) \/ LockAcquire(t) \/ LockJoin(t)
  \/ LockOnlyWaiter(t) \/ LockSpin(t) \/ LockEnqueue(t)
  \/ BlockCheck(t) \/ SemWait(t) \/ SemTimeout(t)
  \/ TryRemove(t) \/ TimeoutSatisfied(t)
  \/ Await(t) \/ Unlock(t) \/ UnlockFastWriter(t) \/ UnlockFastReader(t)
  \/ UnlockNoWaiters(t) \/ UnlockNotLast(t) \/ UnlockWake(t) \/ UnlockNobody(t)
  \/ UnlockStartWalk(t) \/ UnlockWalk(t)
  \/ Wakeup(t) \/ WakeState(t) \/ IncrementSynchSem(t)
  \/ Wait(t) \/ WaitNotNeeded(t) \/ UnlockCvEnqueue(t) \/ CvBlockCheck(t) \/ CvRemove(t)
  \/ Signal(t) \/ CvWakeup(t) \/ FerOnlyWaiter(t) \/ FerSpin(t) \/ FerEnqueue(t)

Finished == \A t \in Threads : ~Running(t)
Terminated == Finished /\ UNCHANGED vars

Next == (\E t \in Threads : Step(t)) \/ Terminated

Spec == Init /\ [][Next]_vars

(* Every thread keeps running: the operating system schedules it, its      *)
(* timeouts expire, and the spinning threads yield (Delay).                *)
FairSpec == Spec /\ \A t \in Threads : WF_vars(Step(t))

-----------------------------------------------------------------------------
(* Who holds the lock, judged by where it is in the code.                  *)
Holds(t) ==
  \/ pc[t] \in {"held", "unlock", "walk", "release"}
  \/ pc[t] \in {"signal", "transfer", "woken", "post"} /\ after[t] = "held"
Holders(h) == {t \in Threads : Holds(t) /\ how[t] = h}

(* The type invariant; among other things the reader count never goes      *)
(* below zero.                                                             *)
TypeOK ==
  /\ mu \subseteq Bits
  /\ readers \in Nat
  /\ unlocking \cup linked \cup queued \cup timed \cup blocked \subseteq Threads
  /\ Waiting(queue) \subseteq Threads
  /\ queue.skip \in [Threads -> Threads \cup {Null}]
  /\ sem \in [Threads -> Nat]
  /\ truth \subseteq Conds
  /\ pc \in [Threads -> Labels]
  /\ how \in [Threads -> {"X", "S"}]
  /\ cond \in [Threads -> Conds \cup {Null}]
  /\ after \in [Threads -> {"idle", "held", "block", "cvblock"}]

(* The word tells the truth about the holders (mutex.cc:628-635): at most  *)
(* one writer, never with readers, and the count is the number of readers. *)
WordMatchesHolders ==
  /\ Cardinality(Holders("X")) = IF kMuWriter \in mu THEN 1 ELSE 0
  /\ Cardinality(Holders("S")) = readers
  /\ (kMuReader \in mu) <=> (readers > 0)
  /\ ~ {kMuReader, kMuWriter} \subseteq mu

(* The word tells the truth about the queue: kMuWait is set exactly when   *)
(* there is a waiter, and kMuWrWait implies kMuWait (mutex.cc:628,         *)
(* CheckForMutexCorruption).                                               *)
WordMatchesQueue ==
  /\ (kMuWait \in mu) <=> (queue.seq # <<>>)
  /\ kMuWrWait \in mu => kMuWait \in mu

(* No ABEL_RAW_CHECK of the queue code fails.                              *)
NoFatal == queue.failed = {}

(* The skip field's invariant (mutex.cc:753-760).                          *)
SkipOK == SkipInvariant(queue, kind)

(* The other half of that comment (mutex.cc:761).                          *)
MaySkip == \A x \in Waiting(queue) : x \in queue.may \/ queue.skip[x] = Null

(* A thread on the mutex queue sleeps: it is queued, linked and in Block   *)
(* or, transferred from the condition variable, in WaitCommon; no thread   *)
(* is on both queues or twice on one.                                      *)
QueuedThreadsSleep ==
  LET cv == {cvqueue[i] : i \in DOMAIN cvqueue} IN
  /\ Cardinality(Waiting(queue)) + Cardinality(cv) = Len(queue.seq) + Len(cvqueue)
  /\ Waiting(queue) \cap cv = {}
  /\ Waiting(queue) \cup cv \subseteq linked \cap queued
  /\ \A t \in Waiting(queue) \cup cv :
       pc[t] \in {"block", "sem", "timedout", "cvblock", "cvsem", "cvtimedout",
                 "release", "wake", "woken", "post"}

(* The waiters that t, in UnlockSlow, has yet to mark available.            *)
ToWake(t) ==
  LET wl == IF pc[t] = "post" THEN Tail(scan[t].wl) ELSE scan[t].wl IN
  IF pc[t] \in {"wake", "woken", "post"} /\ ~Signalling(t) THEN {wl[i] : i \in DOMAIN wl} ELSE {}

(* t sleeps, or will before it looks whether it is still queued.           *)
Sleeps(t) ==
  \/ pc[t] \in {"block", "sem", "timedout", "cvblock", "cvsem", "cvtimedout"}
  \/ pc[t] \in {"release", "wake", "woken", "post"} /\ after[t] \in {"block", "cvblock"}

(* t has been woken, or is being woken, to compete for the lock: an        *)
(* unlocker is about to mark it available; or it is marked, and will see   *)
(* that; or it is in LockSlowLoop as a thread that has blocked.            *)
OnItsWay(t) ==
  \/ \E u \in Threads : t \in ToWake(u)
  \/ Sleeps(t) /\ t \notin queued
  \/ pc[t] = "lock" /\ t \in blocked

(* The fast releases skip the queue when kMuDesig is set (mutex.cc:1665,   *)
(* INVARIANT1 at 603-610): then the designated waker exists, and will      *)
(* clear the bit, and the waiters left on the queue do not depend on a     *)
(* thread that has gone.                                                   *)
DesignatedWakerExists == kMuDesig \in mu => \E t \in Threads : OnItsWay(t)

(* No wakeup is lost: if the lock is free and a waiter on its queue could  *)
(* run, a thread that was woken before is on its way: kMuDesig says so,    *)
(* and it is true.                                                         *)
NoLostWakeup ==
  /\ (mu \cap {kMuWriter, kMuReader} = {}
        /\ \E t \in Waiting(queue) : cond[t] \in truth \cup {Null})
     => kMuDesig \in mu
  /\ DesignatedWakerExists

(* The mutex implements the monitor: mutual exclusion of writers, and of   *)
(* writers and readers; LockWhen and Await return only with the condition  *)
(* true ("condition untrue on return from Await", "... from LockSlow"),    *)
(* and after a timeout with what the condition is then, under the lock.    *)
M == INSTANCE Monitor WITH
       inside <- {t \in Threads : Holds(t)}, mode <- how, data <- truth, done <- ip,
       answered <- result
ImplementsMonitor == M!Spec

(* Every client call returns.                                              *)
Termination == <>Finished
=============================================================================
