----------------------------- MODULE ThreadSem ------------------------------
(***************************************************************************)
(* The per-thread semaphore below mutex and cond_var: the Waiter           *)
(* (abel/synchronization/internal/waiter.cc), PerThreadSem around it       *)
(* (per_thread_sem.cc), and the thread identities that hold the waiters    *)
(* (create_thread_identity.cc), which go to a free list when their thread  *)
(* ends and to another thread after that.                                  *)
(*                                                                         *)
(* The waiter has three implementations, of which a build has one: a       *)
(* futex, a POSIX semaphore, or a condition variable (the one for Windows  *)
(* has the same steps).  The callers are the loops of mutex::Block and     *)
(* mutex::Wakeup: a waker takes an identity off a queue, makes it          *)
(* available, and posts its semaphore after that.                          *)
(***************************************************************************)
EXTENDS Naturals, Sequences, FiniteSets

CONSTANTS
  Threads,    \* the threads that block; each may end and be started anew
  Posters,    \* the threads that wake them, or tick
  Modes,      \* ABEL_WAITER_MODE: "futex", "sem" or "condvar"
  MaxBlocks,  \* bound: calls of Block
  MaxTicks    \* bound: pokes by Tick

Identities == 1..Cardinality(Threads)

VARIABLES
  mode,
  id,         \* the identity of a thread, 0 when it has none
  freelist,   \* thread_identity_freelist, its head first
  alive,      \* the identities whose waiter is constructed
  queue,      \* the identities in the queue of a mutex
  state,      \* kQueued or kAvailable
  count,      \* futex_, wakeups_ or wakeup_count_
  sem_,       \* the value of the POSIX semaphore
  is_idle,
  timed,      \* whether the wait of a thread has a timeout
  pc, target, \* of threads and posters
  blocks, ticks

vars == <<mode, id, freelist, alive, queue, state, count, sem_, is_idle, timed, pc, target, blocks, ticks>>
bounds == <<mode, blocks, ticks>>

Init ==
  /\ mode \in Modes
  /\ id = [t \in Threads |-> 0]
  /\ freelist = <<>> /\ alive = {} /\ queue = {}
  /\ state = [i \in Identities |-> "kAvailable"]
  /\ count = [i \in Identities |-> 0]
  /\ sem_ = [i \in Identities |-> 0]
  /\ is_idle = [i \in Identities |-> FALSE]
  /\ timed = [t \in Threads |-> FALSE]
  /\ pc = [p \in Threads \cup Posters |-> IF p \in Threads THEN "ended" ELSE "idle"]
  /\ target = [p \in Posters |-> 0]
  /\ blocks = 0 /\ ticks = 0

Goto(p, label) == pc' = [pc EXCEPT ![p] = label]

-----------------------------------------------------------------------------
(* Thread identities.                                                      *)

InUse == {id[t] : t \in Threads} \cup {freelist[k] : k \in DOMAIN freelist}

(* NewThreadIdentity: the head of the free list or new memory, reset.      *)
NewThreadIdentity(t) ==
  /\ pc[t] = "ended" /\ blocks < MaxBlocks
  /\ IF freelist # <<>>
     THEN id' = [id EXCEPT ![t] = Head(freelist)] /\ freelist' = Tail(freelist)
     ELSE id' = [id EXCEPT ![t] = CHOOSE i \in Identities : i \notin InUse] /\ UNCHANGED freelist
  /\ state' = [state EXCEPT ![id'[t]] = "kAvailable"]
  /\ is_idle' = [is_idle EXCEPT ![id'[t]] = FALSE]
  /\ Goto(t, "init")
  /\ UNCHANGED <<alive, queue, count, sem_, timed, target, bounds>>

(* PerThreadSem::Init constructs the waiter, over what a late Post to the  *)
(* identity's last thread may have left there.                             *)
InitSem(t) ==
  /\ pc[t] = "init"
  /\ alive' = alive \cup {id[t]}
  /\ count' = [count EXCEPT ![id[t]] = 0]
  /\ sem_' = [sem_ EXCEPT ![id[t]] = 0]
  /\ Goto(t, "run")
  /\ UNCHANGED <<id, freelist, queue, state, is_idle, timed, target, bounds>>

(* ReclaimThreadIdentity, when the thread ends.                            *)
ReclaimThreadIdentity(t) ==
  /\ pc[t] = "run"
  /\ alive' = alive \ {id[t]}
  /\ freelist' = <<id[t]>> \o freelist
  /\ id' = [id EXCEPT ![t] = 0]
  /\ Goto(t, "ended")
  /\ UNCHANGED <<queue, state, count, sem_, is_idle, timed, target, bounds>>

-----------------------------------------------------------------------------
(* The waiting side: mutex::Block.                                         *)

Enqueue(t) ==
  /\ pc[t] = "run" /\ blocks < MaxBlocks
  /\ blocks' = blocks + 1
  /\ queue' = queue \cup {id[t]}
  /\ state' = [state EXCEPT ![id[t]] = "kQueued"]
  /\ timed' \in {[timed EXCEPT ![t] = b] : b \in BOOLEAN}
  /\ Goto(t, "block")
  /\ UNCHANGED <<mode, id, freelist, alive, count, sem_, is_idle, target, ticks>>

(* The loop of Block, and PerThreadSem::Wait up to the waiter.             *)
Block(t) ==
  /\ pc[t] = "block"
  /\ Goto(t, IF state[id[t]] = "kQueued" THEN "wait" ELSE "run")
  /\ is_idle' = [is_idle EXCEPT ![id[t]] = FALSE]
  /\ UNCHANGED <<id, freelist, alive, queue, state, count, sem_, timed, target, bounds>>

(* Waiter::wait takes a wakeup or goes on to sleep; with a condition       *)
(* variable it falls asleep in the same step, as mu_ is held.  It may      *)
(* become idle on the way when it has been here before.                    *)
wait(t) ==
  /\ pc[t] \in {"wait", "rewait"}
  /\ IF count[id[t]] > 0
     THEN /\ count' = [count EXCEPT ![id[t]] = @ - 1]
          /\ is_idle' = [is_idle EXCEPT ![id[t]] = FALSE]
          /\ Goto(t, "block")
     ELSE /\ is_idle' \in {is_idle} \cup {[is_idle EXCEPT ![id[t]] = TRUE] : x \in {pc[t]} \cap {"rewait"}}
          /\ Goto(t, IF mode = "condvar" THEN "asleep" ELSE "kernel")
          /\ UNCHANGED count
  /\ UNCHANGED <<id, freelist, alive, queue, state, sem_, timed, target, bounds>>

(* Mutant: the kernel is not asked to compare the word.                    *)
Kernel_NoCompare(t) ==
  /\ pc[t] = "kernel"
  /\ IF mode = "futex"
     THEN Goto(t, "asleep") /\ UNCHANGED sem_
     ELSE sem_[id[t]] > 0 /\ sem_' = [sem_ EXCEPT ![id[t]] = @ - 1] /\ Goto(t, "rewait")
  /\ UNCHANGED <<id, freelist, alive, queue, state, count, is_idle, timed, target, bounds>>

(* FUTEX_WAIT sleeps only when the word is still 0; sem_wait.              *)
Kernel(t) ==
  /\ pc[t] = "kernel"
  /\ IF mode = "futex"
     THEN Goto(t, IF count[id[t]] = 0 THEN "asleep" ELSE "rewait") /\ UNCHANGED sem_
     ELSE sem_[id[t]] > 0 /\ sem_' = [sem_ EXCEPT ![id[t]] = @ - 1] /\ Goto(t, "rewait")
  /\ UNCHANGED <<id, freelist, alive, queue, state, count, is_idle, timed, target, bounds>>

Asleep(t) == pc[t] = "asleep" \/ (pc[t] = "kernel" /\ mode = "sem" /\ sem_[id[t]] = 0)

(* The timeout, and a return without cause (EINTR).                        *)
Timeout(t) ==
  /\ Asleep(t) /\ timed[t]
  /\ is_idle' = [is_idle EXCEPT ![id[t]] = FALSE]
  /\ Goto(t, "timedout")
  /\ UNCHANGED <<id, freelist, alive, queue, state, count, sem_, timed, target, bounds>>

Spurious(t) ==
  /\ pc[t] = "asleep"
  /\ Goto(t, "rewait")
  /\ UNCHANGED <<id, freelist, alive, queue, state, count, sem_, is_idle, timed, target, bounds>>

(* Block leaves the queue by TryRemove, or finds that a waker has taken    *)
(* the thread off it, and waits for that waker.                            *)
TimedOut(t) ==
  /\ pc[t] = "timedout"
  /\ queue' = queue \ {id[t]}
  /\ state' = IF id[t] \in queue THEN [state EXCEPT ![id[t]] = "kAvailable"] ELSE state
  /\ timed' = [timed EXCEPT ![t] = FALSE]
  /\ Goto(t, "block")
  /\ UNCHANGED <<id, freelist, alive, count, sem_, is_idle, target, bounds>>

-----------------------------------------------------------------------------
(* The waking side.                                                        *)

(* mutex::Wakeup takes the thread off the queue ...                        *)
Wakeup(p) ==
  /\ pc[p] = "idle"
  /\ \E i \in queue :
       /\ queue' = queue \ {i}
       /\ target' = [target EXCEPT ![p] = i]
  /\ Goto(p, "avail")
  /\ UNCHANGED <<id, freelist, alive, state, count, sem_, is_idle, timed, bounds>>

(* ... and makes it available; from here on it may be gone.                *)
MakeAvailable(p) ==
  /\ pc[p] = "avail"
  /\ state' = [state EXCEPT ![target[p]] = "kAvailable"]
  /\ Goto(p, "post")
  /\ UNCHANGED <<id, freelist, alive, queue, count, sem_, is_idle, timed, target, bounds>>

(* Who sleeps on an identity is woken.                                     *)
WakeSleeper(i, p) ==
  pc' = [q \in Threads \cup Posters |->
           IF q = p THEN "idle"
           ELSE IF q \in Threads /\ pc[q] = "asleep" /\ id[q] = i THEN "rewait" ELSE pc[q]]

(* A waiter that is not constructed can be touched only as a futex: its    *)
(* memory stays.  Using a destroyed mutex or semaphore is undefined.       *)
Usable(i) == mode = "futex" \/ i \in alive

(* Waiter::Post.  InternalCondVarPoke signals only if waiter_count_ is not *)
(* 0, which a sleeper makes it.                                            *)
Post(p) ==
  /\ pc[p] = "post" /\ Usable(target[p])
  /\ count' = [count EXCEPT ![target[p]] = @ + 1]
  /\ IF mode = "condvar"
     THEN WakeSleeper(target[p], p)
     ELSE Goto(p, IF count[target[p]] = 0 THEN "poke" ELSE "idle")
  /\ UNCHANGED <<id, freelist, alive, queue, state, sem_, is_idle, timed, target, bounds>>

Poke(p) ==
  /\ pc[p] = "poke" /\ Usable(target[p])
  /\ IF mode = "sem"
     THEN sem_' = [sem_ EXCEPT ![target[p]] = @ + 1] /\ Goto(p, "idle")
     ELSE WakeSleeper(target[p], p) /\ UNCHANGED sem_
  /\ UNCHANGED <<id, freelist, alive, queue, state, count, is_idle, timed, target, bounds>>

Undefined(p) ==
  /\ pc[p] \in {"post", "poke"} /\ ~Usable(target[p])
  /\ pc' = [q \in Threads \cup Posters |-> "undefined"]
  /\ UNCHANGED <<id, freelist, alive, queue, state, count, sem_, is_idle, timed, target, bounds>>

(* PerThreadSem::Tick of a thread that has been waiting for kIdlePeriods   *)
(* and is not idle yet.                                                    *)
Tick(p) ==
  /\ pc[p] = "idle" /\ ticks < MaxTicks
  /\ ticks' = ticks + 1
  /\ \E t \in Threads :
       /\ pc[t] \in {"wait", "rewait", "kernel", "asleep"} /\ ~is_idle[id[t]]
       /\ target' = [target EXCEPT ![p] = id[t]]
  /\ Goto(p, "poke")
  /\ UNCHANGED <<mode, id, freelist, alive, queue, state, count, sem_, is_idle, timed, blocks>>

Done ==
  /\ \/ \A p \in Threads \cup Posters : pc[p] = "undefined"
     \/ blocks = MaxBlocks /\ (\A p \in Threads \cup Posters : pc[p] \in {"ended", "idle"})
  /\ UNCHANGED vars

Next ==
  \/ \E t \in Threads :
       \/ NewThreadIdentity(t) \/ InitSem(t) \/ ReclaimThreadIdentity(t)
       \/ Enqueue(t) \/ Block(t) \/ wait(t) \/ Kernel(t)
       \/ Timeout(t) \/ Spurious(t) \/ TimedOut(t)
  \/ \E p \in Posters :
       Wakeup(p) \/ MakeAvailable(p) \/ Post(p) \/ Poke(p) \/ Undefined(p) \/ Tick(p)
  \/ Done

Spec == Init /\ [][Next]_vars

-----------------------------------------------------------------------------
(* Post announces only the step of the count away from 0, and a late Post  *)
(* may reach the next owner of an identity: still nobody sleeps for good.  *)
(* A thread that sleeps with a wakeup in its count, or after it was made   *)
(* available, has a poster on the way to wake it.                          *)
NoSleepPastWakeup ==
  \A t \in Threads :
    Asleep(t) =>
      /\ count[id[t]] > 0 => \E p \in Posters : target[p] = id[t] /\ pc[p] = "poke"
      /\ state[id[t]] = "kAvailable" =>
           \E p \in Posters : target[p] = id[t] /\ pc[p] \in {"post", "poke"}
=============================================================================
