------------------------------ MODULE Services ------------------------------
(***************************************************************************)
(* Concurrent components that do not meet each other, side by side: the    *)
(* log registry with its flusher, the per-thread semaphore, the clients of *)
(* mutex, and a spin lock with a static constructor.  `which' is chosen at *)
(* the start, only that component makes steps, and the others' variables   *)
(* keep one value.                                                         *)
(***************************************************************************)
EXTENDS Naturals, FiniteSets

CONSTANTS
  \* Registry
  RegistryThreads, Main, Names, Async, QueueSize, MaxCalls,
  \* ThreadSem
  Sleepers, Posters, Modes, MaxBlocks, MaxTicks,
  \* SyncClients
  Users, Leader, Kinds, MaxTimeouts,
  \* Registry and SyncClients
  None,
  \* SpinLock
  Lockers, Initializer, NoThread, Rounds,
  \* the value of a variable whose component makes no steps
  Unused

\* Threads are told apart from each other and from "none".
ASSUME ServicesAssumption ==
  /\ Main \notin RegistryThreads /\ None \notin RegistryThreads \cup {Main}
  /\ IsFiniteSet(Sleepers) /\ Sleepers \cap Posters = {}
  /\ IsFiniteSet(Users) /\ Leader \in Users /\ None \notin Users
  /\ NoThread \notin Lockers /\ Initializer \in Lockers \cup {NoThread} /\ Rounds \in Nat

VARIABLES
  which,
  \* Registry
  logger_map_mutex_, flusher_mutex_, loggers_, periodic_flusher_, made, active_, mutex_,
  worker_thread_, tp_, queue, todo, victim, registry_pc, calls, destroyed,
  \* ThreadSem
  mode, id, freelist, alive, waiters, state, count, sem_, is_idle, timed, target, blocks, ticks,
  \* SyncClients
  kind, lock_, num_to_block_, num_to_exit_, notified_yet_, result, deleted, timeouts,
  \* ThreadSem and SyncClients
  pc,
  \* SpinLock
  word, spin_pc, how, lv, cycles, rounds, slept, reported

Registry == INSTANCE Registry WITH Threads <- RegistryThreads, pc <- registry_pc

Semaphore == INSTANCE ThreadSem WITH Threads <- Sleepers, queue <- waiters

Clients == INSTANCE SyncClients WITH Threads <- Users

(* A lock that is made cooperative while other threads use it.             *)
Static == INSTANCE SpinLock WITH Threads <- Lockers, Races <- TRUE, pc <- spin_pc

registry == <<logger_map_mutex_, flusher_mutex_, loggers_, periodic_flusher_, made, active_,
              mutex_, worker_thread_, tp_, queue, todo, victim, registry_pc, calls, destroyed>>
semaphore == <<mode, id, freelist, alive, waiters, state, count, sem_, is_idle, timed, target,
               blocks, ticks>>
clients == <<kind, lock_, num_to_block_, num_to_exit_, notified_yet_, result, deleted, timeouts>>
static == <<word, spin_pc, how, lv, cycles, rounds, slept, reported>>
vars == <<which, registry, semaphore, clients, pc, static>>

NoSemaphore ==
  /\ mode = Unused /\ id = Unused /\ freelist = Unused /\ alive = Unused /\ waiters = Unused
  /\ state = Unused /\ count = Unused /\ sem_ = Unused /\ is_idle = Unused /\ timed = Unused
  /\ target = Unused /\ blocks = Unused /\ ticks = Unused

NoClients ==
  /\ kind = Unused /\ lock_ = Unused /\ num_to_block_ = Unused /\ num_to_exit_ = Unused
  /\ notified_yet_ = Unused /\ result = Unused /\ deleted = Unused /\ timeouts = Unused

Init ==
  /\ Registry!Init /\ Static!Init
  /\ which \in {"registry", "static", "semaphore", "clients"}
  /\ IF which = "semaphore" THEN Semaphore!Init ELSE NoSemaphore
  /\ IF which = "clients" THEN Clients!Init ELSE NoClients
  /\ which \in {"registry", "static"} => pc = Unused

Next ==
  \/ which = "registry" /\ Registry!Next
     /\ UNCHANGED <<which, semaphore, clients, pc, static>>
  \/ which = "semaphore" /\ Semaphore!Next
     /\ UNCHANGED <<which, registry, clients, static>>
  \/ which = "clients" /\ Clients!Next
     /\ UNCHANGED <<which, registry, semaphore, static>>
  \/ which = "static" /\ Static!Next
     /\ UNCHANGED <<which, registry, semaphore, clients, pc>>

(* The fairness of Registry and of SpinLock, each for its own runs.        *)
Fairness ==
  /\ \A t \in Registry!Callers : SF_vars(which = "registry" /\ Registry!Continue(t)
                                         /\ UNCHANGED <<which, semaphore, clients, pc, static>>)
  /\ \A w \in Registry!Flushers : SF_vars(which = "registry" /\ Registry!FlusherStep(w)
                                          /\ UNCHANGED <<which, semaphore, clients, pc, static>>)
  /\ WF_vars(which = "registry" /\ Registry!Drain
             /\ UNCHANGED <<which, semaphore, clients, pc, static>>)
  /\ \A t \in Lockers : WF_vars(which = "static" /\ Static!Step(t)
                                 /\ UNCHANGED <<which, registry, semaphore, clients, pc>>)

Spec == Init /\ [][Next]_vars /\ Fairness

-----------------------------------------------------------------------------
(* The thread of a flusher outlives neither its replacement, as            *)
(* flush_every and shutdown return only when it is gone, nor the registry  *)
(* it calls back, of which it is the last member and so the first to go    *)
(* (periodic_worker.h:49-58, registry.h:187).                              *)
FlusherIsOwned == Registry!FlusherIsOwned

(* flush_all waits for the queue with the map mutex, the flusher's         *)
(* callback with its own mutex too, and the destructor of the flusher      *)
(* waits for the callback: still every call of the registry returns        *)
(* (registry.h:101-152).                                                   *)
CallsReturn == Registry!CallsReturn

(* Nobody sleeps for good on the per-thread semaphore, though Post         *)
(* announces only the step of the count away from 0 and may come late, to  *)
(* the next owner of an identity (waiter.cc:153-158,                       *)
(* create_thread_identity.cc:29-83).                                       *)
NoSleepPastWakeup == which = "semaphore" => Semaphore!NoSleepPastWakeup

(* Who is told that it may delete a barrier, blocking_counter or           *)
(* notification is the last to use it (barrier.cc:33,                      *)
(* blocking_counter.cc:38, notification.h:27).                             *)
NoUseAfterDelete == which = "clients" => Clients!NoUseAfterDelete

(* The cooperative bit that the static constructor sets is never undone by *)
(* an unlock that loaded the word before (spinlock.cc:72-84).              *)
CoopIsSticky ==
  [][(Static!kSpinLockCooperative \in word) => (Static!kSpinLockCooperative \in word')]_vars

(* Every lock call of SpinLock gets the lock in the end and every thread   *)
(* gets through, also a sleeper whose mark or wake-up was lost             *)
(* (spinlock.cc:103-160).                                                  *)
Termination == which = "static" => Static!Termination
=============================================================================
