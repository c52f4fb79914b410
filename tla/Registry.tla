------------------------------ MODULE Registry ------------------------------
(***************************************************************************)
(* The logger registry (abel/log/details/registry.h) and the periodic      *)
(* flusher it owns (abel/log/details/periodic_worker.h): threads that      *)
(* register, drop and flush loggers, start and replace the flusher, and    *)
(* shut the registry down, and at last its static destructor.              *)
(*                                                                         *)
(* A call that only needs logger_map_mutex_ is one step.  flush_all is     *)
(* not: it may wait, with the mutex held, for room in the queue of the     *)
(* thread pool when a logger is asynchronous.  AsyncLog models that queue; *)
(* here it is the number of messages in it.                                *)
(***************************************************************************)
EXTENDS Naturals, FiniteSets

CONSTANTS
  Threads,
  None,        \* no holder of a mutex
  Main,        \* the thread that runs the static destructors
  Names,       \* names of loggers
  Async,       \* the names of the asynchronous ones
  QueueSize,
  MaxCalls     \* bound: calls of the registry

Flushers == 1..MaxCalls

VARIABLES
  logger_map_mutex_, flusher_mutex_,
  loggers_,
  periodic_flusher_,  \* 0 when null
  made,               \* periodic_workers made
  active_, mutex_,    \* of each periodic_worker
  worker_thread_,     \* where its thread is; "none": never started
  tp_,                \* whether the registry has a pool
  queue,              \* messages in the pool's queue
  todo,               \* the loggers flush_all has not come to yet
  victim,             \* the periodic_worker a thread is destroying, 0: none
  pc,
  calls,
  destroyed           \* the registry's members are gone

vars == <<logger_map_mutex_, flusher_mutex_, loggers_, periodic_flusher_, made, active_, mutex_,
          worker_thread_, tp_, queue, todo, victim, pc, calls, destroyed>>

worker == <<periodic_flusher_, made, active_, mutex_, worker_thread_>>

Callers == Threads \cup {Main}

Init ==
  /\ logger_map_mutex_ = None /\ flusher_mutex_ = None
  /\ loggers_ = {} /\ tp_ = TRUE /\ queue = 0
  /\ periodic_flusher_ = 0 /\ made = 0
  /\ active_ = [w \in Flushers |-> FALSE]
  /\ mutex_ = [w \in Flushers |-> None]
  /\ worker_thread_ = [w \in Flushers |-> "none"]
  /\ todo = [p \in Callers \cup Flushers |-> {}]
  /\ victim = [t \in Callers |-> 0]
  /\ pc = [t \in Callers |-> "idle"]
  /\ calls = 0 /\ destroyed = FALSE

Goto(t, label) == pc' = [pc EXCEPT ![t] = label]

(* A thread calls the registry; pc names what it waits for first.          *)
Call(t) ==
  /\ pc[t] = "idle" /\ pc[Main] = "idle" /\ calls < MaxCalls
  /\ calls' = calls + 1
  /\ \E label \in {"update", "lock_map", "flush_every", "shutdown"} : Goto(t, label)
  /\ UNCHANGED <<logger_map_mutex_, flusher_mutex_, loggers_, worker, tp_, queue, todo, victim, destroyed>>

(* register_and_init, which throws when the name is taken, drop and        *)
(* drop_all.                                                               *)
UpdateMap(t) ==
  /\ pc[t] = "update" /\ logger_map_mutex_ = None
  /\ \E n \in Names : loggers_' \in {loggers_ \cup {n}, loggers_ \ {n}, {}}
  /\ Goto(t, "idle")
  /\ UNCHANGED <<logger_map_mutex_, flusher_mutex_, worker, tp_, queue, todo, victim, calls, destroyed>>

-----------------------------------------------------------------------------
(* flush_all, of a caller or of a flusher p.                               *)

LockMap(p) ==
  /\ logger_map_mutex_ = None
  /\ logger_map_mutex_' = p
  /\ todo' = [todo EXCEPT ![p] = loggers_]

(* logger::flush; async_logger::flush_ posts a message, and throws, which  *)
(* flush catches, when the pool is gone.                                   *)
FlushOne(p) ==
  \E n \in todo[p] :
    /\ todo' = [todo EXCEPT ![p] = @ \ {n}]
    /\ IF n \in Async /\ tp_ THEN queue < QueueSize /\ queue' = queue + 1 ELSE UNCHANGED queue

UnlockMap(p) == todo[p] = {} /\ logger_map_mutex_' = None

FlushStep(t) ==
  \/ /\ pc[t] = "lock_map" /\ LockMap(t) /\ Goto(t, "flush")
     /\ UNCHANGED <<flusher_mutex_, loggers_, worker, tp_, queue, victim, calls, destroyed>>
  \/ /\ pc[t] = "flush" /\ FlushOne(t)
     /\ UNCHANGED <<logger_map_mutex_, flusher_mutex_, loggers_, worker, tp_, victim, pc, calls, destroyed>>
  \/ /\ pc[t] = "flush" /\ UnlockMap(t) /\ Goto(t, "idle")
     /\ UNCHANGED <<flusher_mutex_, loggers_, worker, tp_, queue, todo, victim, calls, destroyed>>

(* A worker of the pool takes a message.                                   *)
Drain ==
  /\ queue > 0 /\ queue' = queue - 1
  /\ UNCHANGED <<logger_map_mutex_, flusher_mutex_, loggers_, worker, tp_, todo, victim, pc, calls, destroyed>>

-----------------------------------------------------------------------------
(* The flusher's thread.                                                   *)

(* Mutant: only the interval ends the wait.                                *)
Wake_NoPredicate(w) ==
  /\ worker_thread_[w] = "wait" /\ mutex_[w] = None
  /\ mutex_' = [mutex_ EXCEPT ![w] = w] /\ worker_thread_' = [worker_thread_ EXCEPT ![w] = "lock_map"]
  /\ UNCHANGED <<logger_map_mutex_, flusher_mutex_, loggers_, periodic_flusher_, made, active_, tp_, queue,
                 todo, victim, pc, calls, destroyed>>

(* wait_for ends, with mutex_: its thread returns when active_ is false,   *)
(* and calls back when the interval has passed.                            *)
Wake(w) ==
  /\ worker_thread_[w] = "wait" /\ mutex_[w] = None
  /\ IF active_[w]
     THEN mutex_' = [mutex_ EXCEPT ![w] = w] /\ worker_thread_' = [worker_thread_ EXCEPT ![w] = "lock_map"]
     ELSE worker_thread_' = [worker_thread_ EXCEPT ![w] = "returned"] /\ UNCHANGED mutex_
  /\ UNCHANGED <<logger_map_mutex_, flusher_mutex_, loggers_, periodic_flusher_, made, active_, tp_, queue,
                 todo, victim, pc, calls, destroyed>>

(* callback_fun, which is flush_all, with mutex_ held.                     *)
Callback(w) ==
  \/ /\ worker_thread_[w] = "lock_map" /\ LockMap(w)
     /\ worker_thread_' = [worker_thread_ EXCEPT ![w] = "flush"]
     /\ UNCHANGED <<flusher_mutex_, loggers_, periodic_flusher_, made, active_, mutex_, tp_, queue, victim, pc, calls, destroyed>>
  \/ /\ worker_thread_[w] = "flush" /\ FlushOne(w)
     /\ UNCHANGED <<logger_map_mutex_, flusher_mutex_, loggers_, worker, tp_, victim, pc, calls, destroyed>>
  \/ /\ worker_thread_[w] = "flush" /\ UnlockMap(w)
     /\ mutex_' = [mutex_ EXCEPT ![w] = None]
     /\ worker_thread_' = [worker_thread_ EXCEPT ![w] = "wait"]
     /\ UNCHANGED <<flusher_mutex_, loggers_, periodic_flusher_, made, active_, tp_, queue, todo, victim, pc, calls, destroyed>>

-----------------------------------------------------------------------------
(* periodic_flusher_.reset: the new pointer is in place before the old     *)
(* periodic_worker is destroyed.                                           *)
Reset(t, w, label) ==
  /\ periodic_flusher_' = w
  /\ victim' = [victim EXCEPT ![t] = periodic_flusher_]
  /\ Goto(t, label)

LockFlusher(t) == flusher_mutex_ = None /\ flusher_mutex_' = t

(* flush_every; no thread starts for an interval of 0.                     *)
flush_every(t) ==
  /\ pc[t] = "flush_every" /\ LockFlusher(t)
  /\ made' = made + 1
  /\ \E positive \in BOOLEAN :
       /\ active_' = [active_ EXCEPT ![made'] = positive]
       /\ worker_thread_' = [worker_thread_ EXCEPT ![made'] = IF positive THEN "wait" ELSE "none"]
  /\ Reset(t, made', "destroy")
  /\ UNCHANGED <<logger_map_mutex_, loggers_, mutex_, tp_, queue, todo, calls, destroyed>>

shutdown(t) ==
  /\ pc[t] = "shutdown" /\ LockFlusher(t)
  /\ Reset(t, 0, "destroy_shutdown")
  /\ UNCHANGED <<logger_map_mutex_, loggers_, made, active_, mutex_, worker_thread_, tp_, queue, todo, calls, destroyed>>

(* Mutant: the worker is told to stop, and not joined.                     *)
Destroy_NoJoin(t, after) ==
  /\ victim[t] # 0 => mutex_[victim[t]] = None
  /\ active_' = IF victim[t] = 0 THEN active_ ELSE [active_ EXCEPT ![victim[t]] = FALSE]
  /\ victim' = [victim EXCEPT ![t] = 0]
  /\ Goto(t, after)

(* ~periodic_worker of the victim: stop under mutex_, notify, join.        *)
Destroy(t, after) ==
  LET w == victim[t]
  IN  IF w # 0 /\ active_[w]
      THEN /\ mutex_[w] = None
           /\ active_' = [active_ EXCEPT ![w] = FALSE]
           /\ UNCHANGED <<victim, pc>>
      ELSE /\ w # 0 => worker_thread_[w] \in {"none", "returned"}
           /\ victim' = [victim EXCEPT ![t] = 0]
           /\ Goto(t, after)
           /\ UNCHANGED active_

Destroying == [destroy |-> "unlock", destroy_shutdown |-> "unlock_shutdown", destroy_exit |-> "gone"]

DestroyStep(t) ==
  /\ pc[t] \in DOMAIN Destroying
  /\ Destroy(t, Destroying[pc[t]])
  /\ UNCHANGED <<logger_map_mutex_, flusher_mutex_, loggers_, periodic_flusher_, made, mutex_, worker_thread_, tp_, queue,
                 todo, calls, destroyed>>

UnlockFlusher(t) ==
  /\ pc[t] \in {"unlock", "unlock_shutdown"}
  /\ flusher_mutex_' = None
  /\ Goto(t, IF pc[t] = "unlock" THEN "idle" ELSE "drop_all")
  /\ UNCHANGED <<logger_map_mutex_, loggers_, worker, tp_, queue, todo, victim, calls, destroyed>>

(* The rest of shutdown.                                                   *)
ShutdownStep(t) ==
  \/ /\ pc[t] = "drop_all" /\ logger_map_mutex_ = None
     /\ loggers_' = {} /\ Goto(t, "reset_tp") /\ UNCHANGED tp_
     /\ UNCHANGED <<logger_map_mutex_, flusher_mutex_, worker, queue, todo, victim, calls, destroyed>>
  \/ /\ pc[t] = "reset_tp" /\ tp_' = FALSE /\ Goto(t, "idle")
     /\ UNCHANGED <<logger_map_mutex_, flusher_mutex_, loggers_, worker, queue, todo, victim, calls, destroyed>>

(* The static destructor ~registry, when the threads make no more calls:   *)
(* periodic_flusher_ is declared last and so is the first to go.           *)
Exit ==
  /\ pc[Main] = "idle" /\ (\A t \in Threads : pc[t] = "idle")
  /\ Reset(Main, 0, "destroy_exit")
  /\ UNCHANGED <<logger_map_mutex_, flusher_mutex_, loggers_, made, active_, mutex_, worker_thread_, tp_, queue, todo,
                 calls, destroyed>>

(* The other members.                                                      *)
Gone ==
  /\ pc[Main] = "gone" /\ ~destroyed
  /\ destroyed' = TRUE /\ loggers_' = {} /\ tp_' = FALSE
  /\ UNCHANGED <<logger_map_mutex_, flusher_mutex_, worker, queue, todo, victim, pc, calls>>

Done == destroyed /\ pc[Main] = "gone" /\ queue = 0 /\ UNCHANGED vars

Continue(t) ==
  \/ UpdateMap(t) \/ FlushStep(t) \/ flush_every(t) \/ shutdown(t)
  \/ DestroyStep(t) \/ UnlockFlusher(t) \/ ShutdownStep(t)
FlusherStep(w) == Wake(w) \/ Callback(w)

Next ==
  \/ \E t \in Threads : Call(t)
  \/ \E t \in Callers : Continue(t)
  \/ \E w \in Flushers : FlusherStep(w)
  \/ Drain \/ Exit \/ Gone \/ Done

(* A thread that waits for a mutex or for room in the queue gets it if it  *)
(* is free again and again: the flusher lets go of both mutexes for a      *)
(* whole interval between callbacks.                                       *)
Fairness ==
  /\ \A t \in Callers : SF_vars(Continue(t))
  /\ \A w \in Flushers : SF_vars(FlusherStep(w))
  /\ WF_vars(Drain)

Spec == Init /\ [][Next]_vars /\ Fairness

-----------------------------------------------------------------------------
Running(w) == worker_thread_[w] \in {"wait", "lock_map", "flush"}

(* flush_every and shutdown return only when the thread of the flusher     *)
(* they replace is gone: while nobody has flusher_mutex_, the only thread  *)
(* that calls back is the one of periodic_flusher_.                        *)
OnlyCurrentFlusherRuns ==
  flusher_mutex_ = None => \A w \in Flushers : Running(w) => w \in {periodic_flusher_, victim[Main]}

(* A callback never finds the registry destroyed (registry.h:187).         *)
CallbackFindsRegistry ==
  destroyed => \A w \in Flushers : ~Running(w)

(* The thread of a flusher outlives neither its replacement nor the        *)
(* registry it calls back.                                                 *)
FlusherIsOwned == OnlyCurrentFlusherRuns /\ CallbackFindsRegistry

(* flush_all waits for the queue with the map mutex, the flusher's         *)
(* callback with its own mutex too, and the destructor of the flusher      *)
(* waits for the callback: still every call of the registry returns.       *)
CallsReturn == \A t \in Threads : pc[t] # "idle" ~> pc[t] = "idle"
=============================================================================
