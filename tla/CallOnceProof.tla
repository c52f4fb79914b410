--------------------------- MODULE CallOnceProof ---------------------------
(***************************************************************************)
(* Proofs about CallOnce for any set of threads, with or without a         *)
(* callable that throws.  The inductive invariant IInv ties the control    *)
(* word to the callers: only the first exchange away from kOnceInit makes  *)
(* a runner, and only the runner ever stores kOnceDone.                    *)
(***************************************************************************)
EXTENDS CallOnce, TLAPS

(* The initial state satisfies the inductive invariant: the word is        *)
(* kOnceInit and nobody has entered the callable.                          *)
LEMMA InitIInv == Init => IInv
BY DEF Init, IInv, TypeOK, ControlWords, Labels, kOnceInit, kOnceRunning,
       kOnceWaiter, kOnceDone, InvokedAtMostOnce, Runner

(* Every step of every caller keeps the inductive invariant.               *)
LEMMA StepIInv == IInv /\ [Next]_vars => IInv'
<1> SUFFICES ASSUME IInv, [Next]_vars PROVE IInv'
    OBVIOUS
<1> USE DEF IInv, TypeOK, ControlWords, Labels, kOnceInit, kOnceRunning,
            kOnceWaiter, kOnceDone, InvokedAtMostOnce, Runner, Goto
<1>1. CASE UNCHANGED vars
      BY <1>1 DEF vars
<1>2. CASE Finished
      BY <1>2 DEF Finished, vars
<1>3. ASSUME NEW t \in Threads, Step(t) PROVE IInv'
  <2>1. CASE Call(t)
        BY <2>1 DEF Call
  <2>2. CASE CallOnceImpl(t)
        BY <2>2 DEF CallOnceImpl, BecomeRunner
  <2>3. CASE SpinLockWait(t)
        BY <2>3 DEF SpinLockWait, BecomeRunner
  <2>4. CASE DelayTimeout(t)
        BY <2>4 DEF DelayTimeout
  <2>5. CASE InvokeReturns(t)
        BY <2>5 DEF InvokeReturns
  <2>6. CASE InvokeThrows(t)
        BY <2>6 DEF InvokeThrows
  <2>7. CASE LoadOld(t)
        BY <2>7 DEF LoadOld
  <2>8. CASE StoreDone(t)
        BY <2>8 DEF StoreDone
  <2>9. CASE SpinLockWake(t)
        BY <2>9 DEF SpinLockWake
  <2> QED
      BY <1>3, <2>1, <2>2, <2>3, <2>4, <2>5, <2>6, <2>7, <2>8, <2>9 DEF Step
<1> QED
    BY <1>1, <1>2, <1>3 DEF Next

(* IInv holds in every reachable state.                                    *)
THEOREM CallOnceIInv == Spec => []IInv
BY InitIInv, StepIInv, PTL DEF Spec

(* call_once enters the callable at most once over all threads, also when  *)
(* the callable throws.                                                    *)
THEOREM AtMostOnce == Spec => []InvokedAtMostOnce
<1>1. IInv => InvokedAtMostOnce
      BY DEF IInv
<1> QED
    BY <1>1, CallOnceIInv, PTL

(* No call of call_once returns before the callable has finished.          *)
THEOREM NoEarlyReturn == Spec => []ReturnAfterFinish
<1>1. IInv => ReturnAfterFinish
      BY DEF IInv, ReturnAfterFinish
<1> QED
    BY <1>1, CallOnceIInv, PTL
=============================================================================
