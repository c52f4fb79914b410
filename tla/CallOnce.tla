------------------------------ MODULE CallOnce ------------------------------
(***************************************************************************)
(* abel::call_once (abel/functional/call_once.h) on one once_flag, with    *)
(* the SpinLockWait loop and the futex delay it is built on                *)
(* (abel/threading/internal/spinlock_wait.cc, spinlock_linux.inc).         *)
(*                                                                         *)
(* The control word is the only shared state.  A load followed by a        *)
(* compare_exchange on the loaded value is one step: a failed exchange     *)
(* changes nothing and the loop comes round again.  The runner's last      *)
(* load and store of the word are two steps, because the code chose not    *)
(* to use an exchange there.                                               *)
(***************************************************************************)
EXTENDS Naturals

CONSTANTS
  Threads,   \* the threads that call call_once on the flag
  MayThrow   \* whether the callable may leave by an exception

ASSUME CallOnceAssumption == MayThrow \in BOOLEAN

VARIABLES
  control,   \* once_flag::control_
  pc,        \* where each caller is
  old,       \* the runner's old_control, read just before its last store
  started,   \* threads that have entered the callable   (history)
  finished   \* threads whose callable returned normally (history)

vars == <<control, pc, old, started, finished>>

(* The four control-word values; the numbers in the code are arbitrary.    *)
kOnceInit    == "kOnceInit"
kOnceRunning == "kOnceRunning"
kOnceWaiter  == "kOnceWaiter"
kOnceDone    == "kOnceDone"
ControlWords == {kOnceInit, kOnceRunning, kOnceWaiter, kOnceDone}

(* idle: not called yet; impl: at the first exchange of CallOnceImpl;      *)
(* wait: at the top of SpinLockWait; sleep: in the futex; invoke: in the   *)
(* callable; publish: callable returned; store: old_control read; wake: at *)
(* SpinLockWake; returned / threw: the call is over.                       *)
Labels == {"idle", "impl", "wait", "sleep", "invoke", "publish", "store",
           "wake", "returned", "threw"}

Init ==
  /\ control = kOnceInit
  /\ pc = [t \in Threads |-> "idle"]
  /\ old = kOnceInit
  /\ started = {}
  /\ finished = {}

Goto(t, label) == pc' = [pc EXCEPT ![t] = label]

-----------------------------------------------------------------------------
(* Mutant: the fast path takes any non-initial word for done.              *)
Call_AnyNonInit(t) ==
  /\ pc[t] = "idle"
  /\ Goto(t, IF control # kOnceInit THEN "returned" ELSE "impl")
  /\ UNCHANGED <<control, old, started, finished>>

(* call_once and LowLevelCallOnce: return at once when the word is already *)
(* kOnceDone.                                                              *)
Call(t) ==
  /\ pc[t] = "idle"
  /\ Goto(t, IF control = kOnceDone THEN "returned" ELSE "impl")
  /\ UNCHANGED <<control, old, started, finished>>

(* The thread that moved the word from kOnceInit enters the callable.      *)
BecomeRunner(t) ==
  /\ control = kOnceInit
  /\ control' = kOnceRunning
  /\ started' = started \cup {t}
  /\ Goto(t, "invoke")
  /\ UNCHANGED <<old, finished>>

(* CallOnceImpl: one exchange from kOnceInit, else SpinLockWait.           *)
CallOnceImpl(t) ==
  /\ pc[t] = "impl"
  /\ \/ BecomeRunner(t)
     \/ /\ control # kOnceInit
        /\ Goto(t, "wait")
        /\ UNCHANGED <<control, old, started, finished>>

(* Mutant: the table also takes a running word for the thread to run.      *)
SpinLockWait_RunAgain(t) ==
  /\ pc[t] = "wait"
  /\ control \in {kOnceInit, kOnceRunning}
  /\ control' = kOnceRunning
  /\ started' = started \cup {t}
  /\ Goto(t, "invoke")
  /\ UNCHANGED <<old, finished>>

(* SpinLockWait over the transition table                                  *)
(*   kOnceInit -> kOnceRunning, done;  kOnceRunning -> kOnceWaiter;        *)
(*   kOnceDone -> kOnceDone, done.                                         *)
(* kOnceWaiter matches no row: the thread delays while the word still      *)
(* holds that value (FUTEX_WAIT compares before it sleeps).                *)
SpinLockWait(t) ==
  /\ pc[t] = "wait"
  /\ \/ BecomeRunner(t)
     \/ /\ control = kOnceRunning
        /\ control' = kOnceWaiter
        /\ UNCHANGED <<pc, old, started, finished>>
     \/ /\ control = kOnceDone
        /\ Goto(t, "returned")
        /\ UNCHANGED <<control, old, started, finished>>
     \/ /\ control = kOnceWaiter
        /\ Goto(t, "sleep")
        /\ UNCHANGED <<control, old, started, finished>>

(* Mutant: a delay without a timeout.                                      *)
DelayTimeout_Never(t) == pc[t] = "sleep" /\ UNCHANGED vars

(* The delay always has a timeout, so a sleeper comes back by itself.      *)
DelayTimeout(t) ==
  /\ pc[t] = "sleep"
  /\ Goto(t, "wait")
  /\ UNCHANGED <<control, old, started, finished>>

(* The callable returns.                                                   *)
InvokeReturns(t) ==
  /\ pc[t] = "invoke"
  /\ finished' = finished \cup {t}
  /\ Goto(t, "publish")
  /\ UNCHANGED <<control, old, started>>

(* The callable throws: CallOnceImpl has no handler, so the exception      *)
(* leaves it with the control word as it is.                               *)
InvokeThrows(t) ==
  /\ MayThrow
  /\ pc[t] = "invoke"
  /\ Goto(t, "threw")
  /\ UNCHANGED <<control, old, started, finished>>

(* old_control = control->load(relaxed)                                    *)
LoadOld(t) ==
  /\ pc[t] = "publish"
  /\ old' = control
  /\ Goto(t, "store")
  /\ UNCHANGED <<control, started, finished>>

(* control->store(kOnceDone); wake only if the value read was kOnceWaiter. *)
StoreDone(t) ==
  /\ pc[t] = "store"
  /\ control' = kOnceDone
  /\ Goto(t, IF old = kOnceWaiter THEN "wake" ELSE "returned")
  /\ UNCHANGED <<old, started, finished>>

(* SpinLockWake(control, all = true)                                       *)
SpinLockWake(t) ==
  /\ pc[t] = "wake"
  /\ pc' = [u \in Threads |-> IF u = t THEN "returned"
                              ELSE IF pc[u] = "sleep" THEN "wait" ELSE pc[u]]
  /\ UNCHANGED <<control, old, started, finished>>

Step(t) ==
  \/ Call(t)
  \/ CallOnceImpl(t)
  \/ SpinLockWait(t)
  \/ DelayTimeout(t)
  \/ InvokeReturns(t)
  \/ InvokeThrows(t)
  \/ LoadOld(t)
  \/ StoreDone(t)
  \/ SpinLockWake(t)

Over(t) == pc[t] \in {"returned", "threw"}

(* Every call is over: the system stops here, and only here.               *)
Finished == (\A t \in Threads : Over(t)) /\ UNCHANGED vars

Next == (\E t \in Threads : Step(t)) \/ Finished

Spec == Init /\ [][Next]_vars

(* The scheduler runs every thread that can take a step, and the kernel    *)
(* ends every timed futex wait.  A callable that runs returns or throws.   *)
FairSpec == Spec /\ \A t \in Threads : WF_vars(Step(t))

-----------------------------------------------------------------------------
(* The type invariant.                                                     *)
TypeOK ==
  /\ control \in ControlWords
  /\ pc \in [Threads -> Labels]
  /\ old \in ControlWords
  /\ started \subseteq Threads
  /\ finished \subseteq Threads

(* The callable is entered by at most one thread, whatever the             *)
(* interleaving of the first exchange, SpinLockWait's own exchange from    *)
(* kOnceInit and the waiters' exchanges (call_once.h:158-160).             *)
InvokedAtMostOnce == \A t, u \in started : t = u

(* No call returns before the callable has finished: neither the fast path *)
(* nor a waiter may see kOnceDone while the callable still runs.           *)
ReturnAfterFinish ==
  (\E t \in Threads : pc[t] \in {"returned", "wake"}) => finished # {}

(* Every call comes back unless the callable throws, also the waiter that  *)
(* marks the word kOnceWaiter between the runner's load and its store and  *)
(* so misses the wake-up: the timed delay is what saves it.                *)
CallsReturn ==
  [](\A t \in Threads : pc[t] # "threw") =>
    \A t \in Threads : (pc[t] # "idle") ~> Over(t)

(* The comment on call_once (call_once.h:38-43): the first call "that does *)
(* not throw an exception" runs the function, and other calls wait for it  *)
(* only "if it is still running".  So a call that got into CallOnceImpl    *)
(* gets to run the function itself unless the function has finished.       *)
ThrowDoesNotCount ==
  \A t \in Threads : (pc[t] = "impl") ~> (t \in started \/ finished # {})

(* The inductive invariant: the word says who is where.                    *)
Runner(t) == pc[t] \in {"invoke", "publish", "store"}

IInv ==
  /\ TypeOK
  /\ control = kOnceInit => started = {}
  /\ InvokedAtMostOnce
  /\ \A t \in Threads : Runner(t) \/ pc[t] = "threw" => t \in started
  /\ control = kOnceDone => /\ finished # {}
                            /\ \A t \in Threads : ~Runner(t)
  /\ \A t \in Threads : pc[t] \in {"publish", "store"} => t \in finished
  /\ \A t \in Threads : pc[t] \in {"returned", "wake"} => control = kOnceDone
  /\ finished \subseteq started

=============================================================================
