--------------------------- MODULE SpinLockProof ---------------------------
(***************************************************************************)
(* SpinLock, for any number of threads and calls.  With a static           *)
(* constructor, if any, that is over before the lock is used: mutual       *)
(* exclusion, no sleeper is forgotten, and only waits are reported.  With  *)
(* or without a race: the cooperative bit stays.                           *)
(***************************************************************************)
EXTENDS SpinLock, Integers, TLAPS

USE DEF kWaitTimeMask, kSpinLockHeld, kSpinLockCooperative, kSpinLockSleeper,
        Waited, Bits, Labels, Held, WaitBits

(* A free word is all zero but for the cooperative bit.                    *)
FreeIsZero == ~Held(word) => word \subseteq {kSpinLockCooperative}

(* While the cooperative bit does not change, a stale lock_value agrees    *)
(* with it: an exchange on a value seen free fails only if the lock is     *)
(* held.                                                                   *)
LocalsFresh ==
  \A t \in Threads :
    pc[t] \in {"try", "first", "loop", "retry", "again", "exchange"} =>
      /\ (kSpinLockCooperative \in lv[t]) <=> (kSpinLockCooperative \in word)
      /\ ~Held(lv[t]) => lv[t] \subseteq {kSpinLockCooperative}
      /\ pc[t] = "loop" => Held(lv[t])

(* The part of the invariant that says who owns the lock.                  *)
Core == MutualExclusion /\ FreeIsZero /\ LocalsFresh

(* A static constructor that does not race is alone with the lock.         *)
ConstructedAlone ==
  /\ ~Constructed => \A u \in Threads \ {Initializer} : pc[u] = "idle"
  /\ (Initializer # NoThread /\ rounds[Initializer] = 0) => word = {} /\ pc[Initializer] = "idle"
  /\ \A t \in Threads : how[t] = "init" =>
       /\ t = Initializer /\ rounds[t] = 1 /\ pc[t] \in {"try", "owner"}
       /\ pc[t] = "try" => word = {} /\ lv[t] = {}

(* Who has slept brings a time to record to the lock; who goes to sleep    *)
(* has seen a mark in a held word; and a time recorded in the word is the  *)
(* owner's own.                                                            *)
Waits ==
  \A t \in Threads :
    /\ t \in slept => pc[t] \in {"sleep", "respin", "again", "loop", "delay", "retry",
                                "owner", "exchange", "wake"}
    /\ pc[t] \in {"sleep", "respin", "again"} => t \in slept
    /\ cycles[t] # {} => t \in slept
    /\ t \in slept /\ pc[t] \in {"again", "loop", "delay", "retry"} => cycles[t] # {}
    /\ pc[t] = "delay" => Held(lv[t]) /\ WaitBits(lv[t]) # {}
    /\ Owner(t) /\ Waited \in word => t \in slept
    /\ pc[t] = "wake" => WaitBits(lv[t]) # {} /\ (Waited \in lv[t] => t \in slept)

IInv == TypeOK /\ Core /\ ConstructedAlone /\ Waits /\ NoLostSleeper /\ ReportsOnlyContended

(* Whatever races with the constructor: until the cooperative bit is set   *)
(* the lock is sound, and from then on every loaded word has it.           *)
CoopIInv ==
  /\ TypeOK
  /\ kSpinLockCooperative \notin word => Core
  /\ kSpinLockCooperative \in word =>
       \A t \in Threads : pc[t] = "exchange" => kSpinLockCooperative \in lv[t]

(* The initial states, of either scheduling mode, satisfy both.            *)
LEMMA InitIInv == Init => IInv /\ CoopIInv
BY SpinLockAssumption
   DEF Init, IInv, CoopIInv, TypeOK, Core, MutualExclusion, Owner, FreeIsZero, LocalsFresh,
       ConstructedAlone, Waits, NoLostSleeper, ReportsOnlyContended

(* Types are kept by every step of a thread.                               *)
LEMMA StepTypeOK ==
  ASSUME TypeOK, NEW t \in Threads, Step(t)
  PROVE  TypeOK'
<1> USE SpinLockAssumption DEF TypeOK, Goto, Observe
<1>1. ASSUME NEW h \in {"lock", "try_lock", "init"}, Begin(t, h) PROVE TypeOK'
  <2>1. rounds' \in [Threads -> 0..Rounds]
        BY <1>1 DEF Begin
  <2>2. lv' \in [Threads -> SUBSET Bits] /\ word' \subseteq Bits
        BY <1>1 DEF Begin
  <2> QED
      BY <1>1, <2>1, <2>2 DEF Begin
<1>2. CASE TryLockImpl(t)
      BY <1>2 DEF TryLockImpl, TryLockInternal
<1>3. CASE SpinLoop(t)
  <2>1. lv' = [lv EXCEPT ![t] = word]
        BY <1>3 DEF SpinLoop
  <2>2. cycles' = cycles
          \/ \E c \in SUBSET kWaitTimeMask : cycles' = [cycles EXCEPT ![t] = c]
        BY <1>3 DEF SpinLoop
  <2>3. cycles' \in [Threads -> SUBSET kWaitTimeMask]
        BY <2>2
  <2> QED
      BY <1>3, <2>1, <2>3 DEF SpinLoop
<1>4. CASE Attempt(t)
      BY <1>4 DEF Attempt, TryLockInternal
<1>5. CASE MarkSleeper(t)
      BY <1>5 DEF MarkSleeper
<1>6. CASE SpinLockDelay(t)
      BY <1>6 DEF SpinLockDelay
<1>7. CASE DelayTimeout(t)
      BY <1>7 DEF DelayTimeout
<1>8. CASE FetchOrCooperative(t)
      BY <1>8 DEF FetchOrCooperative
<1>9. CASE UnlockLoad(t)
      BY <1>9 DEF UnlockLoad
<1>10. CASE UnlockExchange(t)
      BY <1>10 DEF UnlockExchange, Leave
<1>11. CASE SlowUnlock(t)
      BY <1>11 DEF SlowUnlock, Leave
<1> QED
    BY <1>1, <1>2, <1>3, <1>4, <1>5, <1>6, <1>7, <1>8, <1>9, <1>10, <1>11
       DEF Step, Lock, TryLock, InitLinkerInitializedAndCooperative

(* TryLockInternal comes back with a held word, or takes a free one.       *)
LEMMA TryLockResult ==
  ASSUME TypeOK, Core, NEW t \in Threads, NEW otherwise,
         pc[t] \in {"try", "first", "retry", "again"}, TryLockInternal(t, otherwise)
  PROVE  \/ /\ word' = word /\ pc' = [pc EXCEPT ![t] = otherwise]
            /\ \E w \in SUBSET Bits : Held(w) /\ lv' = [lv EXCEPT ![t] = w]
         \/ /\ ~Held(word) /\ word \subseteq {kSpinLockCooperative}
            /\ word' = {kSpinLockHeld} \cup word \cup cycles[t]
            /\ pc' = [pc EXCEPT ![t] = "owner"] /\ lv' = lv
<1> USE DEF Core, TypeOK, Goto, Observe
<1>1. CASE Held(lv[t])
  <2>1. word' = word /\ lv' = lv /\ pc' = [pc EXCEPT ![t] = otherwise]
        BY <1>1 DEF TryLockInternal
  <2>2. lv' = [lv EXCEPT ![t] = lv[t]] /\ lv[t] \in SUBSET Bits BY <2>1
  <2> QED BY <1>1, <2>1, <2>2
<1>2. CASE ~Held(lv[t]) /\ word = lv[t]
  <2>1. word \subseteq {kSpinLockCooperative} BY <1>2 DEF FreeIsZero
  <2> QED BY <1>2, <2>1 DEF TryLockInternal
<1>3. CASE ~Held(lv[t]) /\ word # lv[t]
  <2>1. Held(word)
    <3>1. lv[t] \subseteq {kSpinLockCooperative}
          BY <1>3 DEF LocalsFresh
    <3>2. (kSpinLockCooperative \in lv[t]) <=> (kSpinLockCooperative \in word)
          BY DEF LocalsFresh
    <3>3. SUFFICES ASSUME ~Held(word) PROVE lv[t] = word
          BY <1>3
    <3>4. word \subseteq {kSpinLockCooperative}
          BY <3>3 DEF FreeIsZero
    <3>5. \A b : (b \in lv[t]) <=> (b \in word)
          BY <3>1, <3>2, <3>4
    <3> QED
        BY <3>5
  <2>2. word' = word /\ pc' = [pc EXCEPT ![t] = otherwise] /\ lv' = [lv EXCEPT ![t] = word]
        BY <1>3, <2>1 DEF TryLockInternal
  <2>3. word \in SUBSET Bits OBVIOUS
  <2> QED
      BY <2>1, <2>2, <2>3
<1> QED
    BY <1>1, <1>2, <1>3

(* TryLockInternal makes its caller the owner only when nobody owns the    *)
(* lock.                                                                   *)
LEMMA TryLockKeepsCore ==
  ASSUME TypeOK, Core, NEW t \in Threads, NEW otherwise \in {"idle", "spin", "loop"},
         pc[t] \in {"try", "first", "retry", "again"},
         TryLockInternal(t, otherwise)
  PROVE  Core'
<1> USE DEF Core, TypeOK
<1>0. word \subseteq Bits /\ cycles[t] \subseteq kWaitTimeMask
      OBVIOUS
<1>1. CASE /\ word' = word /\ pc' = [pc EXCEPT ![t] = otherwise]
           /\ \E w \in SUBSET Bits : Held(w) /\ lv' = [lv EXCEPT ![t] = w]
  <2>1. MutualExclusion'
        BY <1>1 DEF MutualExclusion, Owner
  <2>2. LocalsFresh'
    <3>1. \/ Held(lv[t]) /\ lv' = lv
          \/ lv' = [lv EXCEPT ![t] = word]
          BY <1>1 DEF TryLockInternal, Observe, Goto
    <3>2. CASE Held(lv[t]) /\ lv' = lv BY <1>1, <3>2 DEF LocalsFresh
    <3>3. CASE lv' = [lv EXCEPT ![t] = word]
      <4>1. Held(word) BY <1>1, <3>3
      <4> QED BY <1>1, <3>3, <4>1 DEF LocalsFresh
    <3> QED BY <3>1, <3>2, <3>3
  <2> QED
      BY <1>1, <2>1, <2>2 DEF FreeIsZero
<1>2. CASE /\ ~Held(word) /\ word' = {kSpinLockHeld} \cup word \cup cycles[t]
           /\ pc' = [pc EXCEPT ![t] = "owner"] /\ lv' = lv
  <2>1. \A u \in Threads : ~Owner(u)
        BY <1>2 DEF MutualExclusion
  <2>2. MutualExclusion'
        BY <1>2, <2>1 DEF MutualExclusion, Owner
  <2>3. FreeIsZero'
        BY <1>2 DEF FreeIsZero
  <2>4. (kSpinLockCooperative \in word') <=> (kSpinLockCooperative \in word)
        BY <1>0, <1>2
  <2>5. LocalsFresh'
        BY <1>2, <2>4 DEF LocalsFresh
  <2> QED
      BY <2>2, <2>3, <2>5
<1> QED
    BY <1>1, <1>2, TryLockResult

(* Every step keeps Core but the one that sets the cooperative bit.        *)
LEMMA StepCore ==
  ASSUME TypeOK, Core, NEW t \in Threads, Step(t), ~FetchOrCooperative(t)
  PROVE  Core'
<1> USE DEF Core, TypeOK, Goto, Observe
<1>1. ASSUME NEW h \in {"lock", "try_lock", "init"}, Begin(t, h) PROVE Core'
      BY <1>1 DEF Begin, MutualExclusion, Owner, FreeIsZero, LocalsFresh
<1>2. CASE TryLockImpl(t)
      BY <1>2, TryLockKeepsCore DEF TryLockImpl
<1>3. CASE SpinLoop(t)
  <2>1. /\ word' = word /\ ~Owner(t)
        /\ lv' = [lv EXCEPT ![t] = word]
        /\ \E label \in {"first", "again"} : pc' = [pc EXCEPT ![t] = label]
        BY <1>3 DEF SpinLoop, Owner
  <2>2. MutualExclusion'
        BY <2>1 DEF MutualExclusion, Owner
  <2>3. LocalsFresh'
        BY <2>1 DEF LocalsFresh, FreeIsZero
  <2> QED
      BY <2>1, <2>2, <2>3 DEF FreeIsZero
<1>4. CASE Attempt(t)
      BY <1>4, TryLockKeepsCore DEF Attempt
<1>5. CASE MarkSleeper(t)
  <2>1. Held(lv[t]) /\ ~Owner(t)
        BY <1>5 DEF MarkSleeper, LocalsFresh, Owner
  <2>2. \E label \in {"delay", "retry"} : pc' = [pc EXCEPT ![t] = label]
        BY <1>5 DEF MarkSleeper
  <2>3. word' = word \/ (Held(word) /\ word' = word \cup {kSpinLockSleeper})
        BY <1>5, <2>1 DEF MarkSleeper
  <2>4. MutualExclusion'
        BY <2>1, <2>2, <2>3 DEF MutualExclusion, Owner
  <2>5. FreeIsZero'
        BY <2>3 DEF FreeIsZero
  <2>6. /\ \A u \in Threads : u # t => lv'[u] = lv[u]
        /\ (kSpinLockCooperative \in word') <=> (kSpinLockCooperative \in word)
        BY <1>5, <2>3 DEF MarkSleeper
  <2>7. pc'[t] = "retry" => lv'[t] = word'
        BY <1>5 DEF MarkSleeper
  <2>8. LocalsFresh'
        BY <2>2, <2>5, <2>6, <2>7 DEF LocalsFresh, FreeIsZero
  <2> QED
      BY <2>4, <2>5, <2>8
<1>6. CASE SpinLockDelay(t)
      BY <1>6 DEF SpinLockDelay, MutualExclusion, Owner, FreeIsZero, LocalsFresh
<1>7. CASE DelayTimeout(t)
      BY <1>7 DEF DelayTimeout, MutualExclusion, Owner, FreeIsZero, LocalsFresh
<1>8. CASE UnlockLoad(t)
      BY <1>8 DEF UnlockLoad, MutualExclusion, Owner, FreeIsZero, LocalsFresh
<1>9. CASE UnlockExchange(t)
      BY <1>9 DEF UnlockExchange, Leave, MutualExclusion, Owner, FreeIsZero, LocalsFresh
<1>10. CASE SlowUnlock(t)
      BY <1>10 DEF SlowUnlock, Leave, MutualExclusion, Owner, FreeIsZero, LocalsFresh
<1> QED
    BY <1>1, <1>2, <1>3, <1>4, <1>5, <1>6, <1>7, <1>8, <1>9, <1>10
       DEF Step, Lock, TryLock, InitLinkerInitializedAndCooperative

-----------------------------------------------------------------------------
(* Only an unlock takes bits out of the word, and it keeps the cooperative *)
(* bit of the value it loaded.                                             *)
LEMMA StepKeepsCooperative ==
  ASSUME CoopIInv, NEW t \in Threads, Step(t), kSpinLockCooperative \in word
  PROVE  /\ kSpinLockCooperative \in word'
         /\ \A u \in Threads : pc'[u] = "exchange" => kSpinLockCooperative \in lv'[u]
<1> USE DEF CoopIInv, TypeOK, Goto, Observe
<1> DEFINE Kept == /\ kSpinLockCooperative \in word'
                   /\ \A u \in Threads : pc'[u] = "exchange" => kSpinLockCooperative \in lv'[u]
<1>1. ASSUME NEW h \in {"lock", "try_lock", "init"}, Begin(t, h) PROVE Kept
      BY <1>1 DEF Begin
<1>2. ASSUME NEW otherwise \in {"idle", "spin", "loop"}, TryLockInternal(t, otherwise) PROVE Kept
      BY <1>2 DEF TryLockInternal
<1>3. CASE TryLockImpl(t)
      BY <1>2, <1>3 DEF TryLockImpl
<1>4. CASE SpinLoop(t)
  <2>1. /\ word' = word /\ lv' = [lv EXCEPT ![t] = word]
        /\ \E label \in {"first", "again"} : pc' = [pc EXCEPT ![t] = label]
        BY <1>4 DEF SpinLoop
  <2> QED BY <2>1
<1>5. CASE Attempt(t)
      BY <1>2, <1>5 DEF Attempt
<1>6. CASE MarkSleeper(t)
      BY <1>6 DEF MarkSleeper
<1>7. CASE SpinLockDelay(t)
      BY <1>7 DEF SpinLockDelay
<1>8. CASE DelayTimeout(t)
      BY <1>8 DEF DelayTimeout
<1>9. CASE FetchOrCooperative(t)
      BY <1>9 DEF FetchOrCooperative
<1>10. CASE UnlockLoad(t)
      BY <1>10 DEF UnlockLoad
<1>11. CASE UnlockExchange(t)
      BY <1>11 DEF UnlockExchange, Leave
<1>12. CASE SlowUnlock(t)
      BY <1>12 DEF SlowUnlock, Leave
<1> QED
    BY <1>1, <1>3, <1>4, <1>5, <1>6, <1>7, <1>8, <1>9, <1>10, <1>11, <1>12
       DEF Step, Lock, TryLock, InitLinkerInitializedAndCooperative

(* The constructor sets the bit while it holds a lock that still excludes  *)
(* the others: no unlock has loaded the word and not yet exchanged it.     *)
LEMMA StepSetsCooperative ==
  ASSUME CoopIInv, NEW t \in Threads, FetchOrCooperative(t), kSpinLockCooperative \notin word
  PROVE  /\ kSpinLockCooperative \in word'
         /\ \A u \in Threads : pc'[u] # "exchange"
<1>1. /\ pc[t] = "owner" /\ pc' = pc /\ word' = word \cup {kSpinLockCooperative}
      BY DEF FetchOrCooperative
<1>2. \A u \in Threads : Owner(u) => u = t
      BY <1>1 DEF CoopIInv, Core, MutualExclusion, Owner
<1> QED
    BY <1>1, <1>2 DEF Owner

(* No step, the racing constructor's included, takes the lock out of this. *)
LEMMA StepCoopIInv == CoopIInv /\ [Next]_vars => CoopIInv'
<1> SUFFICES ASSUME CoopIInv, [Next]_vars PROVE CoopIInv'
    OBVIOUS
<1>1. CASE UNCHANGED vars \/ Finished
      BY <1>1 DEF vars, Finished, CoopIInv, TypeOK, Core, MutualExclusion, Owner,
                  FreeIsZero, LocalsFresh
<1>2. ASSUME NEW t \in Threads, Step(t) PROVE CoopIInv'
  <2>1. TypeOK'
        BY <1>2, StepTypeOK DEF CoopIInv
  <2>2. CASE kSpinLockCooperative \in word
        BY <1>2, <2>1, <2>2, StepKeepsCooperative DEF CoopIInv
  <2>3. CASE kSpinLockCooperative \notin word /\ FetchOrCooperative(t)
        BY <1>2, <2>1, <2>3, StepSetsCooperative DEF CoopIInv
  <2>4. CASE kSpinLockCooperative \notin word /\ ~FetchOrCooperative(t)
    <3>1. Core'
          BY <1>2, <2>4, StepCore DEF CoopIInv
    <3>2. kSpinLockCooperative \notin word'
          BY <1>2, <2>4 DEF CoopIInv, Core, LocalsFresh, TypeOK, Step, Lock, TryLock,
             InitLinkerInitializedAndCooperative, Begin, TryLockImpl, TryLockInternal, Attempt,
             SpinLoop, MarkSleeper, SpinLockDelay, DelayTimeout, UnlockLoad, UnlockExchange,
             SlowUnlock
    <3> QED
        BY <2>1, <3>1, <3>2 DEF CoopIInv
  <2> QED
      BY <2>2, <2>3, <2>4
<1> QED
    BY <1>1, <1>2 DEF Next

(* No step clears the bit.                                                 *)
LEMMA NextKeepsCooperative ==
  CoopIInv /\ [Next]_vars =>
    [(kSpinLockCooperative \in word) => (kSpinLockCooperative \in word')]_vars
BY StepKeepsCooperative DEF Next, Finished

(* The cooperative bit stays once it is set, also when other threads use   *)
(* the lock while its static constructor sets it.                          *)
THEOREM CooperativeStays == Spec => CoopIsSticky
BY InitIInv, StepCoopIInv, NextKeepsCooperative, PTL DEF Spec, CoopIsSticky

-----------------------------------------------------------------------------
(* A static constructor that does not race has the lock to itself until it *)
(* is over.                                                                *)
LEMMA StepAlone ==
  ASSUME ~Races, TypeOK, Core, ConstructedAlone, NEW t \in Threads, Step(t)
  PROVE  ConstructedAlone'
<1> USE SpinLockAssumption DEF TypeOK, Goto, Observe
<1> DEFINE Others == \A u \in Threads \ {Initializer} : pc[u] = "idle"
           First  == (Initializer # NoThread /\ rounds[Initializer] = 0) =>
                       word = {} /\ pc[Initializer] = "idle"
           Inits  == \A u \in Threads : how[u] = "init" =>
                       /\ u = Initializer /\ rounds[u] = 1 /\ pc[u] \in {"try", "owner"}
                       /\ pc[u] = "try" => word = {} /\ lv[u] = {}
<1>1. (~Constructed => Others) /\ First /\ Inits BY DEF ConstructedAlone
<1>2. ASSUME NEW h \in {"lock", "try_lock", "init"}, Begin(t, h) PROVE ConstructedAlone'
  <2>1. /\ pc[t] = "idle" /\ (t = Initializer \/ Constructed)
        /\ (h = "init") <=> (t = Initializer /\ rounds[t] = 0)
        /\ rounds' = [rounds EXCEPT ![t] = @ + 1] /\ how' = [how EXCEPT ![t] = h]
        /\ lv' = [lv EXCEPT ![t] = word] /\ pc' = [pc EXCEPT ![t] = "try"] /\ word' = word
        BY <1>2 DEF Begin
  <2>2. ~Constructed' => Others'
    <3>1. CASE t = Initializer
      <4>1. Constructed => Constructed' BY <2>1, <3>1 DEF Constructed
      <4> QED BY <1>1, <2>1, <3>1, <4>1
    <3>2. CASE t # Initializer
      <4>1. Constructed' BY <2>1, <3>2 DEF Constructed
      <4> QED BY <4>1
    <3> QED BY <3>1, <3>2
  <2>3. First'
    <3>1. CASE t = Initializer BY <2>1, <3>1
    <3>2. CASE t # Initializer BY <1>1, <2>1, <3>2
    <3> QED BY <3>1, <3>2
  <2>4. Inits'
    <3>1. ASSUME NEW u \in Threads, how'[u] = "init"
          PROVE  /\ u = Initializer /\ rounds'[u] = 1 /\ pc'[u] \in {"try", "owner"}
                 /\ pc'[u] = "try" => word' = {} /\ lv'[u] = {}
      <4>1. CASE u = t
        <5>1. h = "init" BY <2>1, <3>1, <4>1
        <5>2. t = Initializer /\ rounds[t] = 0 BY <2>1, <5>1
        <5>3. word = {} BY <1>1, <5>2
        <5> QED BY <2>1, <4>1, <5>2, <5>3
      <4>2. CASE u # t BY <1>1, <2>1, <3>1, <4>2
      <4> QED BY <4>1, <4>2
    <3> QED BY <3>1
  <2> QED BY <2>2, <2>3, <2>4 DEF ConstructedAlone
<1>3. ASSUME UNCHANGED rounds, how' = how \/ how' = [how EXCEPT ![t] = "lock"],
             pc[t] # "idle",
             \A u \in Threads \ {t} : pc[u] = "idle" => pc'[u] = "idle",
             \A u \in Threads \ {t} : pc[u] = "try" => pc'[u] = "try",
             \A u \in Threads \ {t} : pc[u] = "owner" => pc'[u] = "owner",
             how'[t] = "init" => pc'[t] = "owner"
      PROVE  ConstructedAlone'
  <2>1. ~Constructed' => Others'
    <3>1. ASSUME ~Constructed' PROVE Others'
      <4>1. ~Constructed
        <5>1. SUFFICES ASSUME Constructed PROVE FALSE OBVIOUS
        <5>2. Initializer # NoThread /\ Initializer \in Threads BY <3>1 DEF Constructed
        <5>3. rounds[Initializer] > 0 /\ (rounds[Initializer] = 1 => pc[Initializer] = "idle")
              BY <5>1, <5>2 DEF Constructed
        <5>4. rounds[Initializer] = 1 /\ pc'[Initializer] # "idle"
              BY <1>3, <3>1, <5>2, <5>3 DEF Constructed
        <5> QED BY <1>3, <5>2, <5>3, <5>4
      <4>2. t = Initializer BY <1>1, <1>3, <4>1
      <4> QED BY <1>1, <1>3, <4>1, <4>2
    <3> QED BY <3>1
  <2>2. First'
    <3>1. SUFFICES ASSUME Initializer # NoThread, rounds[Initializer] = 0
                   PROVE  word' = {} /\ pc'[Initializer] = "idle"
          BY <1>3
    <3>2. ~Constructed /\ pc[Initializer] = "idle" BY <1>1, <3>1 DEF Constructed
    <3>3. t # Initializer BY <1>3, <3>2
    <3>4. pc[t] = "idle" BY <1>1, <3>2, <3>3
    <3> QED BY <1>3, <3>4
  <2>3. Inits'
    <3>1. ASSUME NEW u \in Threads, how'[u] = "init"
          PROVE  /\ u = Initializer /\ rounds'[u] = 1 /\ pc'[u] \in {"try", "owner"}
                 /\ pc'[u] = "try" => word' = {} /\ lv'[u] = {}
      <4>1. how[u] = "init" BY <1>3, <3>1
      <4>2. /\ u = Initializer /\ rounds[u] = 1 /\ pc[u] \in {"try", "owner"}
            BY <1>1, <4>1
      <4>3. ~Constructed BY <4>2 DEF Constructed
      <4>4. u = t BY <1>1, <1>3, <4>2, <4>3
      <4> QED BY <1>3, <3>1, <4>2, <4>4
    <3> QED BY <3>1
  <2> QED BY <2>1, <2>2, <2>3 DEF ConstructedAlone
<1>4. CASE TryLockImpl(t)
  <2> DEFINE otherwise == IF how[t] = "try_lock" THEN "idle" ELSE "spin"
  <2>1. pc[t] = "try" /\ TryLockInternal(t, otherwise) /\ UNCHANGED <<rounds, how>>
        BY <1>4 DEF TryLockImpl
  <2>2. \A u \in Threads \ {t} : pc'[u] = pc[u] BY <2>1 DEF TryLockInternal
  <2>3. how[t] = "init" => pc'[t] = "owner"
    <3>1. how[t] = "init" => word = {} /\ lv[t] = {} BY <1>1, <2>1
    <3> QED BY <2>1, <3>1 DEF TryLockInternal
  <2> QED BY <1>3, <2>1, <2>2, <2>3
<1>5. CASE SpinLoop(t) \/ Attempt(t) \/ MarkSleeper(t) \/ SpinLockDelay(t) \/ DelayTimeout(t)
  <2>1. /\ pc[t] \in {"spin", "respin", "first", "retry", "again", "loop", "delay", "sleep"}
        /\ UNCHANGED <<rounds, how>>
        BY <1>5 DEF SpinLoop, Attempt, MarkSleeper, SpinLockDelay, DelayTimeout
  <2>2. \A u \in Threads \ {t} : pc'[u] = pc[u]
        BY <1>5 DEF SpinLoop, Attempt, MarkSleeper, SpinLockDelay, DelayTimeout, TryLockInternal
  <2>3. how[t] # "init" BY <1>1, <2>1
  <2> QED BY <1>3, <2>1, <2>2, <2>3
<1>6. CASE FetchOrCooperative(t) BY <1>3, <1>6 DEF FetchOrCooperative
<1>7. CASE UnlockLoad(t) BY <1>3, <1>7 DEF UnlockLoad
<1>8. CASE UnlockExchange(t)
  <2>1. how[t] # "init" BY <1>1, <1>8 DEF UnlockExchange
  <2> QED BY <1>3, <1>8, <2>1 DEF UnlockExchange, Leave
<1>9. CASE SlowUnlock(t)
  <2>1. /\ pc[t] = "wake" /\ how' = [how EXCEPT ![t] = "lock"] /\ UNCHANGED rounds
        BY <1>9 DEF SlowUnlock, Leave
  <2>2. \A u \in Threads \ {t} : pc'[u] = pc[u] \/ pc[u] = "sleep"
        BY <1>9 DEF SlowUnlock
  <2> QED BY <1>3, <2>1, <2>2
<1> QED
    BY <1>2, <1>4, <1>5, <1>6, <1>7, <1>8, <1>9
       DEF Step, Lock, TryLock, InitLinkerInitializedAndCooperative

(* A constructor that does not race sets the bit while it is alone.        *)
LEMMA ConstructorKeepsCore ==
  ASSUME TypeOK, Core, ConstructedAlone, NEW t \in Threads, FetchOrCooperative(t)
  PROVE  Core'
<1>1. /\ pc[t] = "owner" /\ how[t] = "init" /\ word' = word \cup {kSpinLockCooperative}
      /\ UNCHANGED <<pc, lv>>
      BY DEF FetchOrCooperative
<1>2. t = Initializer /\ rounds[t] = 1 BY <1>1 DEF ConstructedAlone
<1>3. \A u \in Threads \ {t} : pc[u] = "idle"
  <2>1. ~Constructed BY <1>1, <1>2, SpinLockAssumption DEF Constructed
  <2> QED BY <1>2, <2>1 DEF ConstructedAlone
<1>4. Held(word) BY <1>1 DEF Core, MutualExclusion, Owner
<1> QED BY <1>1, <1>3, <1>4 DEF Core, MutualExclusion, Owner, FreeIsZero, LocalsFresh

-----------------------------------------------------------------------------
(* Every step keeps the account of who has waited.                         *)
LEMMA StepWaits ==
  ASSUME TypeOK, Core, ConstructedAlone, Waits, NEW t \in Threads, Step(t)
  PROVE  Waits'
<1> USE DEF Waits, Owner, TypeOK, Goto, Observe
<1>1. ASSUME NEW h \in {"lock", "try_lock", "init"}, Begin(t, h) PROVE Waits'
      BY <1>1 DEF Begin
<1>2. ASSUME NEW otherwise \in {"idle", "spin", "loop"}, TryLockInternal(t, otherwise),
             pc[t] \in {"try", "first", "retry", "again"},
             otherwise # "loop" => pc[t] = "try",
             UNCHANGED <<cycles, slept>>
      PROVE  Waits'
  <2>1. CASE /\ word' = word /\ pc' = [pc EXCEPT ![t] = otherwise]
             /\ \E w \in SUBSET Bits : Held(w) /\ lv' = [lv EXCEPT ![t] = w]
        BY <1>2, <2>1
  <2>2. CASE /\ ~Held(word) /\ word \subseteq {kSpinLockCooperative}
             /\ word' = {kSpinLockHeld} \cup word \cup cycles[t]
             /\ pc' = [pc EXCEPT ![t] = "owner"] /\ lv' = lv
    <3>1. \A u \in Threads : ~Owner(u) BY <2>2 DEF Core, MutualExclusion
    <3>2. Waited \in word' => t \in slept BY <2>2
    <3>3. \A u \in Threads \ {t} : pc'[u] = pc[u] BY <2>2
    <3> QED BY <1>2, <2>2, <3>1, <3>2, <3>3
  <2> QED BY <1>2, <2>1, <2>2, TryLockResult
<1>3. CASE TryLockImpl(t)
      BY <1>2, <1>3 DEF TryLockImpl
<1>4. CASE SpinLoop(t)
  <2>1. CASE pc[t] = "spin" BY <1>4, <2>1 DEF SpinLoop
  <2>2. CASE pc[t] = "respin"
    <3>1. PICK c \in {{kSpinLockSleeper}, {Waited}} : cycles' = [cycles EXCEPT ![t] = c]
          BY <1>4, <2>2 DEF SpinLoop
    <3>2. c # {} /\ cycles'[t] = c /\ \A u \in Threads \ {t} : cycles'[u] = cycles[u]
          BY <3>1
    <3>3. /\ pc' = [pc EXCEPT ![t] = "again"] /\ lv' = [lv EXCEPT ![t] = word]
          /\ UNCHANGED <<word, slept>>
          BY <1>4, <2>2 DEF SpinLoop
    <3> QED BY <2>2, <3>2, <3>3
  <2> QED BY <1>4, <2>1, <2>2 DEF SpinLoop
<1>5. CASE Attempt(t)
      BY <1>2, <1>5 DEF Attempt
<1>6. CASE MarkSleeper(t)
  <2>1. pc[t] = "loop" /\ UNCHANGED <<cycles, slept>> /\ Held(lv[t]) /\ ~Owner(t)
        BY <1>6 DEF MarkSleeper, Core, LocalsFresh
  <2>2. (kSpinLockCooperative \in lv[t]) <=> (kSpinLockCooperative \in word)
        BY <2>1 DEF Core, LocalsFresh
  <2>3. CASE WaitBits(lv[t]) # {} /\ pc' = [pc EXCEPT ![t] = "delay"] /\ UNCHANGED <<word, lv>>
        BY <2>1, <2>3
  <2>4. CASE /\ WaitBits(lv[t]) = {} /\ word = lv[t] /\ word' = word \cup {kSpinLockSleeper}
             /\ lv' = [lv EXCEPT ![t] = word'] /\ pc' = [pc EXCEPT ![t] = "delay"]
    <3>1. Held(word') /\ WaitBits(word') # {} /\ (Waited \in word' => Waited \in word)
          BY <2>1, <2>4
    <3> QED BY <2>1, <2>4, <3>1
  <2>5. CASE /\ WaitBits(lv[t]) = {} /\ word # lv[t] /\ lv' = [lv EXCEPT ![t] = word]
             /\ pc' = [pc EXCEPT ![t] = IF Held(word) THEN "delay" ELSE "retry"]
             /\ UNCHANGED word
    <3>1. Held(word) => WaitBits(word) # {}
      <4>1. SUFFICES ASSUME Held(word), WaitBits(word) = {} PROVE lv[t] = word BY <2>5
      <4>2. word \subseteq Bits /\ lv[t] \subseteq Bits OBVIOUS
      <4>3. \A b : (b \in lv[t]) <=> (b \in word) BY <2>1, <2>2, <2>5, <4>1, <4>2
      <4> QED BY <4>3
    <3> QED BY <2>1, <2>5, <3>1
  <2> QED BY <1>6, <2>3, <2>4, <2>5 DEF MarkSleeper
<1>7. CASE SpinLockDelay(t)
      BY <1>7 DEF SpinLockDelay
<1>8. CASE DelayTimeout(t)
      BY <1>8 DEF DelayTimeout
<1>9. CASE FetchOrCooperative(t)
      BY <1>9 DEF FetchOrCooperative
<1>10. CASE UnlockLoad(t)
      BY <1>10 DEF UnlockLoad
<1>11. CASE UnlockExchange(t)
  <2>1. \A u \in Threads \ {t} : ~Owner(u)
        BY <1>11 DEF Core, MutualExclusion, UnlockExchange
  <2>2. word' \subseteq {kSpinLockCooperative} BY <1>11 DEF UnlockExchange
  <2> QED BY <1>11, <2>1, <2>2 DEF UnlockExchange, Leave
<1>12. CASE SlowUnlock(t)
  <2>1. /\ pc[t] = "wake" /\ word' = word
        /\ cycles' = [cycles EXCEPT ![t] = {}] /\ slept' = slept \ {t}
        /\ lv' = [lv EXCEPT ![t] = {}]
        BY <1>12 DEF SlowUnlock, Leave
  <2>2. /\ pc'[t] = "idle"
        /\ \A u \in Threads \ {t} : pc'[u] = pc[u] \/ (pc[u] = "sleep" /\ pc'[u] = "respin")
        BY <1>12 DEF SlowUnlock
  <2> QED BY <2>1, <2>2
<1> QED
    BY <1>1, <1>3, <1>4, <1>5, <1>6, <1>7, <1>8, <1>9, <1>10, <1>11, <1>12
       DEF Step, Lock, TryLock, InitLinkerInitializedAndCooperative

-----------------------------------------------------------------------------
(* Every step leaves the sleepers somebody to wake them: who goes to sleep *)
(* does so under a marked word, an unlock that clears the mark is on its   *)
(* way to a wake-up, and who woke takes the lock with a mark.              *)
LEMMA StepNoLostSleeper ==
  ASSUME TypeOK, Core, Waits, NoLostSleeper, NEW t \in Threads, Step(t)
  PROVE  NoLostSleeper'
<1> USE DEF TypeOK, Goto, Observe
<1> DEFINE Marked == Held(word) /\ WaitBits(word) # {}
           Keeps(u) == \/ pc[u] \in {"wake", "respin", "again"}
                       \/ pc[u] \in {"loop", "delay", "retry"} /\ u \in slept
           Sleeping == \E u \in Threads : pc[u] = "sleep"
<1>0. /\ NoLostSleeper <=> (Sleeping => Marked \/ \E u \in Threads : Keeps(u))
      /\ NoLostSleeper' <=> (Sleeping' => Marked' \/ \E u \in Threads : Keeps(u)')
      BY DEF NoLostSleeper
<1> HIDE DEF Marked
(* A step of t that sends nobody to sleep and takes no mark away.          *)
<1>1. ASSUME pc'[t] # "sleep", \A u \in Threads \ {t} : pc'[u] = pc[u],
             \A u \in Threads \ {t} : u \in slept => u \in slept',
             Marked => Marked' \/ Keeps(t)',
             Keeps(t) => Marked' \/ Keeps(t)'
      PROVE  NoLostSleeper'
  <2>1. ASSUME Sleeping' PROVE Marked' \/ \E u \in Threads : Keeps(u)'
    <3>1. Sleeping BY <1>1, <2>1
    <3>2. CASE Marked BY <1>1, <3>2
    <3>3. ASSUME NEW u \in Threads, Keeps(u) PROVE Marked' \/ \E v \in Threads : Keeps(v)'
          BY <1>1, <3>3
    <3> QED BY <1>0, <3>1, <3>2, <3>3
  <2> QED BY <1>0, <2>1
<1>2. ASSUME NEW h \in {"lock", "try_lock", "init"}, Begin(t, h) PROVE NoLostSleeper'
      BY <1>1, <1>2 DEF Begin, Marked
<1>3. ASSUME NEW otherwise \in {"idle", "spin", "loop"}, TryLockInternal(t, otherwise),
             pc[t] \in {"try", "first", "retry", "again"},
             otherwise # "loop" => pc[t] = "try",
             UNCHANGED slept
      PROVE  NoLostSleeper'
  <2>1. CASE word' = word /\ pc' = [pc EXCEPT ![t] = otherwise]
    <3>1. Keeps(t) => Keeps(t)' BY <1>3, <2>1 DEF Waits
    <3> QED BY <1>1, <1>3, <2>1, <3>1 DEF Marked
  <2>2. CASE /\ ~Held(word) /\ word' = {kSpinLockHeld} \cup word \cup cycles[t]
             /\ pc' = [pc EXCEPT ![t] = "owner"]
    <3>1. Keeps(t) => cycles[t] # {} BY <1>3 DEF Waits
    <3>2. cycles[t] # {} => Marked' BY <2>2 DEF Marked
    <3>3. ~Marked BY <2>2 DEF Marked
    <3> QED BY <1>1, <1>3, <2>2, <3>1, <3>2, <3>3
  <2> QED BY <1>3, <2>1, <2>2, TryLockResult
<1>4. CASE TryLockImpl(t)
      BY <1>3, <1>4 DEF TryLockImpl
<1>5. CASE SpinLoop(t)
      BY <1>1, <1>5 DEF SpinLoop, Marked
<1>6. CASE Attempt(t)
      BY <1>3, <1>6 DEF Attempt
<1>7. CASE MarkSleeper(t)
      BY <1>1, <1>7 DEF MarkSleeper, Marked
<1>8. CASE SpinLockDelay(t)
  <2>1. CASE word = lv[t]
        BY <1>0, <1>8, <2>1 DEF SpinLockDelay, Waits, Marked
  <2>2. CASE word # lv[t]
        BY <1>1, <1>8, <2>2 DEF SpinLockDelay, Marked
  <2> QED BY <2>1, <2>2
<1>9. CASE DelayTimeout(t)
      BY <1>1, <1>9 DEF DelayTimeout, Marked
<1>10. CASE FetchOrCooperative(t)
      BY <1>1, <1>10 DEF FetchOrCooperative, Marked
<1>11. CASE UnlockLoad(t)
      BY <1>1, <1>11 DEF UnlockLoad, Marked
<1>12. CASE UnlockExchange(t)
      BY <1>1, <1>12 DEF UnlockExchange, Leave, Marked
<1>13. CASE SlowUnlock(t)
  <2>1. CASE ~Sleeping
        BY <1>0, <1>13, <2>1 DEF SlowUnlock
  <2>2. CASE \E u \in Threads : pc[u] = "sleep" /\ u # t /\ pc'[u] = "respin"
        BY <1>0, <2>2
  <2> QED BY <1>13, <2>1, <2>2 DEF SlowUnlock
<1> QED
    BY <1>2, <1>4, <1>5, <1>6, <1>7, <1>8, <1>9, <1>10, <1>11, <1>12, <1>13
       DEF Step, Lock, TryLock, InitLinkerInitializedAndCooperative

(* SlowUnlock finds more than the sleeper's mark in the word only if its   *)
(* own thread has waited.                                                  *)
LEMMA StepReports ==
  ASSUME TypeOK, Waits, ReportsOnlyContended, NEW t \in Threads, Step(t)
  PROVE  ReportsOnlyContended'
<1>1. CASE SlowUnlock(t)
  <2>1. WaitBits(lv[t]) # {} /\ (Waited \in lv[t] => t \in slept)
        BY <1>1 DEF SlowUnlock, Waits
  <2>2. WaitBits(lv[t]) # {kSpinLockSleeper} => t \in slept
        BY <2>1
  <2> QED BY <1>1, <2>2 DEF SlowUnlock, ReportsOnlyContended
<1>2. CASE ~SlowUnlock(t)
      BY <1>2 DEF ReportsOnlyContended, Step, Lock, TryLock, InitLinkerInitializedAndCooperative,
         Begin, TryLockImpl, SpinLoop, Attempt, MarkSleeper, SpinLockDelay, DelayTimeout,
         FetchOrCooperative, UnlockLoad, UnlockExchange
<1> QED BY <1>1, <1>2

(* The invariant is kept by every step, if the constructor does not race.  *)
LEMMA StepIInv ==
  ASSUME ~Races
  PROVE  IInv /\ [Next]_vars => IInv'
<1> SUFFICES ASSUME IInv, [Next]_vars PROVE IInv'
    OBVIOUS
<1>1. CASE UNCHANGED vars \/ Finished
  <2>1. UNCHANGED vars BY <1>1 DEF Finished
  <2> QED BY <2>1 DEF vars, IInv, TypeOK, Core, MutualExclusion, Owner, FreeIsZero, LocalsFresh,
             ConstructedAlone, Constructed, Waits, NoLostSleeper, ReportsOnlyContended
<1>2. ASSUME NEW t \in Threads, Step(t) PROVE IInv'
  <2>1. Core' BY <1>2, StepCore, ConstructorKeepsCore DEF IInv
  <2> QED BY <1>2, <2>1, StepTypeOK, StepAlone, StepWaits, StepNoLostSleeper, StepReports DEF IInv
<1> QED
    BY <1>1, <1>2 DEF Next

(* At most one thread owns the lock, whatever stale lock_value another one *)
(* exchanges, and the word then has its held bit.                          *)
THEOREM SpinLockMutualExclusion ==
  ASSUME ~Races
  PROVE  Spec => []MutualExclusion
<1>1. IInv => MutualExclusion BY DEF IInv, Core
<1> QED
    BY <1>1, InitIInv, StepIInv, PTL DEF Spec

(* A thread asleep in SpinLockDelay is never forgotten: the timeout of the *)
(* futex wait is only a safety net.                                        *)
THEOREM NoSleeperIsForgotten ==
  ASSUME ~Races
  PROVE  Spec => []NoLostSleeper
<1>1. IInv => NoLostSleeper BY DEF IInv
<1> QED
    BY <1>1, InitIInv, StepIInv, PTL DEF Spec

(* The contention profiler hears only of acquisitions that waited: another *)
(* thread's mark is not taken for a wait of the owner's own.               *)
THEOREM OnlyWaitsAreReported ==
  ASSUME ~Races
  PROVE  Spec => []ReportsOnlyContended
<1>1. IInv => ReportsOnlyContended BY DEF IInv
<1> QED
    BY <1>1, InitIInv, StepIInv, PTL DEF Spec
=============================================================================
