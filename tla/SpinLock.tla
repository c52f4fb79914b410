------------------------------ MODULE SpinLock ------------------------------
(***************************************************************************)
(* threading_internal::SpinLock (abel/threading/internal/spinlock.h, .cc)  *)
(* on Linux: a lock word, an adaptive spin, and a timed futex delay.       *)
(*                                                                         *)
(* Every atomic access to lockword_ is a step of its own: a thread loads   *)
(* the word into its local lock_value (lv) and exchanges it later, so the  *)
(* value may be stale when it is used.  The word is the set of its bits;   *)
(* the wait time in the upper bits is kept as one bit, Waited, that stands *)
(* for any recorded time other than kSpinLockSleeper.                      *)
(* The kSpinLockDisabledScheduling bit is never set in this build          *)
(* (SchedulingGuard::DisableRescheduling returns false) and is left out.   *)
(***************************************************************************)
EXTENDS Naturals, FiniteSets

CONSTANTS
  Threads,     \* the threads that use the lock
  Initializer, \* the thread that runs the lock's static constructor
               \* (cooperative mode), or NoThread if the lock has none
  Races,       \* whether other threads use the lock before that is over;
               \* nothing orders constructors of different source files
  NoThread,    \* a value that is no thread
  Rounds       \* bound: calls of lock or try_lock that one thread makes

ASSUME SpinLockAssumption ==
  /\ NoThread \notin Threads
  /\ Initializer \in Threads \cup {NoThread}
  /\ Races \in BOOLEAN
  /\ Rounds \in Nat

VARIABLES
  word,      \* lockword_, as the set of its bits
  pc,        \* where each thread is
  how,       \* the call each thread is in: lock, try_lock, or init
  lv,        \* its local lock_value
  cycles,    \* its local wait_cycles
  rounds,    \* calls it has begun
  slept,     \* threads that went through SpinLockDelay in
             \* their present call                               (history)
  reported   \* threads that submitted contention profile data of
             \* an acquisition that had not waited               (history)

vars == <<word, pc, how, lv, cycles, rounds, slept, reported>>

kSpinLockHeld        == "held"
kSpinLockCooperative == "cooperative"
kSpinLockSleeper     == "sleeper"
Waited               == "waited"
kWaitTimeMask == {kSpinLockSleeper, Waited}
Bits == {kSpinLockHeld, kSpinLockCooperative} \cup kWaitTimeMask

Held(w)     == kSpinLockHeld \in w
WaitBits(w) == w \cap kWaitTimeMask

Labels == {"idle", "try", "spin", "first", "loop", "retry", "delay", "sleep",
           "respin", "again", "owner", "exchange", "wake"}

(* The default constructor makes a cooperative lock; a linker-initialized  *)
(* one starts non-cooperative.                                             *)
Init ==
  /\ word \in IF Initializer = NoThread THEN {{}, {kSpinLockCooperative}} ELSE {{}}
  /\ pc = [t \in Threads |-> "idle"]
  /\ how = [t \in Threads |-> "lock"]
  /\ lv = [t \in Threads |-> {}]
  /\ cycles = [t \in Threads |-> {}]
  /\ rounds = [t \in Threads |-> 0]
  /\ slept = {}
  /\ reported = {}

Goto(t, label) == pc' = [pc EXCEPT ![t] = label]
Observe(t, w)  == lv' = [lv EXCEPT ![t] = w]

-----------------------------------------------------------------------------
Constructed ==
  Initializer # NoThread =>
    rounds[Initializer] > 0 /\ (rounds[Initializer] = 1 => pc[Initializer] = "idle")

(* lock, try_lock, InitLinkerInitializedAndCooperative: the relaxed load   *)
(* of TryLockImpl.  The initializer's first call is the constructor.       *)
Begin(t, h) ==
  /\ pc[t] = "idle"
  /\ rounds[t] < Rounds
  /\ t = Initializer \/ Races \/ Constructed
  /\ (h = "init") <=> (t = Initializer /\ rounds[t] = 0)
  /\ rounds' = [rounds EXCEPT ![t] = @ + 1]
  /\ how' = [how EXCEPT ![t] = h]
  /\ Observe(t, word)
  /\ Goto(t, "try")
  /\ UNCHANGED <<word, cycles, slept, reported>>

Lock(t)    == Begin(t, "lock")
TryLock(t) == Begin(t, "try_lock")
InitLinkerInitializedAndCooperative(t) == Begin(t, "init")

(* Mutant: a load and a store in place of the exchange.                    *)
TryLockInternal_NoExchange(t, otherwise) ==
  \/ /\ Held(lv[t])
     /\ Goto(t, otherwise)
     /\ UNCHANGED <<word, lv>>
  \/ /\ ~Held(lv[t])
     /\ word' = {kSpinLockHeld} \cup lv[t] \cup cycles[t]
     /\ Goto(t, "owner")
     /\ UNCHANGED lv

(* TryLockInternal on the loaded value: the caller owns the lock when the  *)
(* returned value has no held bit.  A failed exchange returns the word as  *)
(* it is now.                                                              *)
TryLockInternal(t, otherwise) ==
  \/ /\ Held(lv[t])
     /\ Goto(t, otherwise)
     /\ UNCHANGED <<word, lv>>
  \/ /\ ~Held(lv[t])
     /\ word = lv[t]
     /\ word' = {kSpinLockHeld} \cup lv[t] \cup cycles[t]
     /\ Goto(t, "owner")
     /\ UNCHANGED lv
  \/ /\ ~Held(lv[t])
     /\ word # lv[t]
     /\ Observe(t, word)
     /\ Goto(t, IF Held(word) THEN otherwise ELSE "owner")
     /\ UNCHANGED word

(* TryLockImpl: a try_lock that fails returns, a lock goes to SlowLock.    *)
TryLockImpl(t) ==
  /\ pc[t] = "try"
  /\ TryLockInternal(t, IF how[t] = "try_lock" THEN "idle" ELSE "spin")
  /\ UNCHANGED <<how, cycles, rounds, slept, reported>>

(* SpinLoop: the last value it loads, held or not, is what it returns.     *)
(* After a delay SlowLock also turns the time waited into wait_cycles:     *)
(* EncodeWaitCycles gives kSpinLockSleeper or more, never zero.            *)
SpinLoop(t) ==
  \/ /\ pc[t] = "spin"
     /\ Observe(t, word)
     /\ Goto(t, "first")
     /\ UNCHANGED <<word, how, cycles, rounds, slept, reported>>
  \/ /\ pc[t] = "respin"
     /\ Observe(t, word)
     /\ \E c \in {{kSpinLockSleeper}, {Waited}} : cycles' = [cycles EXCEPT ![t] = c]
     /\ Goto(t, "again")
     /\ UNCHANGED <<word, how, rounds, slept, reported>>

(* SlowLock's attempts: with wait_cycles = 0 at first, then with the time  *)
(* waited so far.                                                          *)
Attempt(t) ==
  /\ pc[t] \in {"first", "retry", "again"}
  /\ TryLockInternal(t, "loop")
  /\ UNCHANGED <<how, cycles, rounds, slept, reported>>

(* Mutant: go to sleep without marking the lock.                           *)
MarkSleeper_Unmarked(t) ==
  /\ pc[t] = "loop"
  /\ Goto(t, "delay")
  /\ UNCHANGED <<word, lv, how, cycles, rounds, slept, reported>>

(* SlowLock's loop: mark a held lock as having a sleeper, or find that it  *)
(* is free again and retry before sleeping.                                *)
MarkSleeper(t) ==
  /\ pc[t] = "loop"
  /\ \/ /\ WaitBits(lv[t]) # {}
        /\ Goto(t, "delay")
        /\ UNCHANGED <<word, lv>>
     \/ /\ WaitBits(lv[t]) = {}
        /\ word = lv[t]
        /\ word' = word \cup {kSpinLockSleeper}
        /\ Observe(t, word')
        /\ Goto(t, "delay")
     \/ /\ WaitBits(lv[t]) = {}
        /\ word # lv[t]
        /\ Observe(t, word)
        /\ Goto(t, IF Held(word) THEN "delay" ELSE "retry")
        /\ UNCHANGED word
  /\ UNCHANGED <<how, cycles, rounds, slept, reported>>

(* SpinLockDelay: FUTEX_WAIT sleeps only if the word still is lock_value.  *)
SpinLockDelay(t) ==
  /\ pc[t] = "delay"
  /\ Goto(t, IF word = lv[t] THEN "sleep" ELSE "respin")
  /\ slept' = slept \cup {t}
  /\ UNCHANGED <<word, how, lv, cycles, rounds, reported>>

(* Mutant: a delay without a timeout.                                      *)
DelayTimeout_Never(t) == pc[t] = "sleep" /\ UNCHANGED vars

(* The futex wait times out.                                               *)
DelayTimeout(t) ==
  /\ pc[t] = "sleep"
  /\ Goto(t, "respin")
  /\ UNCHANGED <<word, how, lv, cycles, rounds, slept, reported>>

-----------------------------------------------------------------------------
(* Mutant: the constructor sets the bit without holding the lock.          *)
FetchOrCooperative_Unlocked(t) ==
  /\ pc[t] \in {"try", "owner"}
  /\ how[t] = "init"
  /\ word' = word \cup {kSpinLockCooperative}
  /\ Goto(t, "idle")
  /\ UNCHANGED <<how, lv, cycles, rounds, slept, reported>>

(* lockword_.fetch_or(kSpinLockCooperative) while holding the lock.        *)
FetchOrCooperative(t) ==
  /\ pc[t] = "owner"
  /\ how[t] = "init"
  /\ word' = word \cup {kSpinLockCooperative}
  /\ how' = [how EXCEPT ![t] = "lock"]
  /\ UNCHANGED <<pc, lv, cycles, rounds, slept, reported>>

(* unlock: a relaxed load, then an exchange that keeps only the            *)
(* cooperative bit of the value loaded.                                    *)
UnlockLoad(t) ==
  /\ pc[t] = "owner"
  /\ how[t] # "init"
  /\ Observe(t, word)
  /\ Goto(t, "exchange")
  /\ UNCHANGED <<word, how, cycles, rounds, slept, reported>>

(* The call is over: the locals are dead.                                  *)
Leave(t) ==
  /\ cycles' = [cycles EXCEPT ![t] = {}]
  /\ slept' = slept \ {t}
  /\ lv' = [lv EXCEPT ![t] = {}]
  /\ how' = [how EXCEPT ![t] = "lock"]

UnlockExchange(t) ==
  /\ pc[t] = "exchange"
  /\ word' = lv[t] \cap {kSpinLockCooperative}
  /\ \/ /\ WaitBits(word) = {}
        /\ Goto(t, "idle")
        /\ Leave(t)
     \/ /\ WaitBits(word) # {}
        /\ Observe(t, word)
        /\ Goto(t, "wake")
        /\ UNCHANGED <<how, cycles, slept>>
  /\ UNCHANGED <<rounds, reported>>

(* Mutant: any wait bits are taken for a wait of the owner's own.          *)
SlowUnlock_AlwaysReport(t) ==
  /\ pc[t] = "wake"
  /\ Goto(t, "idle")
  /\ reported' = IF t \in slept THEN reported ELSE reported \cup {t}
  /\ Leave(t)
  /\ UNCHANGED <<word, rounds>>

(* SlowUnlock: wake one sleeper, and report the acquisition as contended   *)
(* if the wait bits are more than kSpinLockSleeper.                        *)
SlowUnlock(t) ==
  LET sleepers == {u \in Threads : pc[u] = "sleep"} IN
  /\ pc[t] = "wake"
  /\ \/ /\ sleepers = {}
        /\ Goto(t, "idle")
     \/ \E u \in sleepers :
          pc' = [v \in Threads |-> CASE v = t -> "idle"
                                    [] v = u -> "respin"
                                    [] OTHER -> pc[v]]
  /\ reported' = IF WaitBits(lv[t]) # {kSpinLockSleeper} /\ t \notin slept
                 THEN reported \cup {t} ELSE reported
  /\ Leave(t)
  /\ UNCHANGED <<word, rounds>>

Step(t) ==
  \/ Lock(t)
  \/ TryLock(t)
  \/ InitLinkerInitializedAndCooperative(t)
  \/ TryLockImpl(t)
  \/ SpinLoop(t)
  \/ Attempt(t)
  \/ MarkSleeper(t)
  \/ SpinLockDelay(t)
  \/ DelayTimeout(t)
  \/ FetchOrCooperative(t)
  \/ UnlockLoad(t)
  \/ UnlockExchange(t)
  \/ SlowUnlock(t)

Done(t) == pc[t] = "idle" /\ rounds[t] = Rounds

(* Every thread has made all its calls: the only place to stop.            *)
Finished == (\A t \in Threads : Done(t)) /\ UNCHANGED vars

Next == (\E t \in Threads : Step(t)) \/ Finished

Spec == Init /\ [][Next]_vars

(* Every runnable thread runs, owners release the lock, and the kernel     *)
(* ends every timed futex wait.  Nothing is assumed of who wins a race.    *)
FairSpec == Spec /\ \A t \in Threads : WF_vars(Step(t))

-----------------------------------------------------------------------------
(* The type invariant.                                                     *)
TypeOK ==
  /\ word \subseteq Bits
  /\ pc \in [Threads -> Labels]
  /\ how \in [Threads -> {"lock", "try_lock", "init"}]
  /\ lv \in [Threads -> SUBSET Bits]
  /\ cycles \in [Threads -> SUBSET kWaitTimeMask]
  /\ rounds \in [Threads -> 0..Rounds]
  /\ slept \subseteq Threads
  /\ reported \subseteq Threads

Owner(t) == pc[t] \in {"owner", "exchange"}

(* At most one thread owns the lock, and then the held bit is set: a       *)
(* stale lock_value never lets a second thread in (spinlock.h:212-237).    *)
MutualExclusion ==
  /\ \A t, u \in Threads : Owner(t) /\ Owner(u) => t = u
  /\ \A t \in Threads : Owner(t) => Held(word)

(* A sleeper is never forgotten: the owner's unlock will see wait bits, or *)
(* a wake-up is on its way, or a thread that will take the lock with wait  *)
(* bits is awake.  The timeout is then only a safety net.                  *)
NoLostSleeper ==
  (\E t \in Threads : pc[t] = "sleep") =>
     \/ Held(word) /\ WaitBits(word) # {}
     \/ \E u \in Threads : pc[u] \in {"wake", "respin", "again"}
     \/ \E u \in Threads : pc[u] \in {"loop", "delay", "retry"} /\ u \in slept

(* A cooperative bit set by the static constructor is never undone by an   *)
(* unlock that loaded the word before it was set (spinlock.cc:72-84).      *)
CoopIsSticky == [][(kSpinLockCooperative \in word) => (kSpinLockCooperative \in word')]_vars

(* Only acquisitions that waited are reported to the contention profiler:  *)
(* the mark of another thread is not taken for a wait of one's own         *)
(* (spinlock.cc:163-176).                                                  *)
ReportsOnlyContended == reported = {}

(* Every lock call gets the lock in the end and every thread gets through, *)
(* also a sleeper whose mark or wake-up was lost.                          *)
Termination == <>(\A t \in Threads : Done(t))

(* The contract of TryLockInternal, spinlock.h:212: "If (result &          *)
(* kSpinLockHeld) == 0, then *this was successfully locked".               *)
ResultMeansLocked == \A t \in Threads : Owner(t) => Held(word)

=============================================================================
