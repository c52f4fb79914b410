------------------------------ MODULE AsyncLog ------------------------------
(***************************************************************************)
(* Asynchronous logging (abel/log): loggers post messages to the queue of  *)
(* a thread pool (details/thread_pool.h, mpmc_blocking_q.h, circular_q.h), *)
(* its workers hand them to the sink, and whoever drops the last           *)
(* shared_ptr to the pool runs its destructor.                             *)
(*                                                                         *)
(* A block of code under queue_mutex_ is one step.  The notify_one after   *)
(* it is a step of its own, because the code has released the mutex.  The  *)
(* C++ condition variable is external: notify_one wakes any one waiter,    *)
(* and a waiter may also wake by itself.                                   *)
(***************************************************************************)
EXTENDS Naturals, Sequences, FiniteSets, SequencesExt

CONSTANTS
  Producers,   \* threads that log, each with a logger of its own
  AllWorkers,  \* the threads a pool can have
  Crews,       \* the sets of them it is built with
  Owner,       \* the thread that shuts the registry down
  MaxItems,    \* q_max_items
  Program,     \* the calls of each producer, "log" or "flush"
  None         \* a slot that was never filled or has been moved from

ASSUME AsyncLogAssumption ==
  /\ MaxItems \in Nat \ {0}
  /\ Crews \subseteq (SUBSET AllWorkers) \ {{}}
  /\ Program \in [Producers -> Seq({"log", "flush"})]

VARIABLES
  policy,   \* async_logger::overflow_policy_ of each producer's logger
  workers,  \* thread_pool::threads_
  buf, head, tail,  \* circular_q: v_, head_, tail_
  holders,  \* the threads with a shared_ptr to the pool; the owner's is tp_
  pool,     \* "alive", "dying" (in the destructor), "gone"
  left,     \* termination messages the destructor has still to post
  pc,       \* where each thread is
  item,     \* the message a thread is about to post or has taken
  call,     \* calls each producer has finished
  out,      \* messages the sink has been given, in order     (history)
  dropped,  \* messages that were overrun                     (history)
  refused   \* messages logged when the pool was gone         (history)

queueVars == <<buf, head, tail, dropped>>
poolVars  == <<holders, pool, left>>
vars == <<policy, workers, queueVars, poolVars, pc, item, call, out, refused>>

Posters == Producers \cup {Owner}
Slots   == MaxItems + 1

LogMessages == UNION {{p} \X (1 .. Len(Program[p])) : p \in Producers}
Terminate   == <<Owner, 0>>
Kind(m)     == IF m = Terminate THEN "terminate" ELSE Program[m[1]][m[2]]

(* The names above stand for different things.                             *)
ASSUME NamesAssumption ==
  /\ IsFiniteSet(AllWorkers) /\ AllWorkers \cap Posters = {}
  /\ Owner \notin Producers
  /\ None \notin LogMessages \cup {Terminate}

(* idle: between two calls; post: at enqueue or enqueue_nowait; blocked:   *)
(* in pop_cv_.wait; notify: at notify_one; release: about to destroy       *)
(* pool_ptr; join: in the destructor's joins; done: shutdown returned.     *)
(* Workers: look: at the start of dequeue_for; waiting: in push_cv_.wait;  *)
(* notify; process; exited.                                                *)
Init ==
  /\ policy \in [Producers -> {"block", "overrun_oldest"}]
  /\ workers \in Crews
  /\ buf = [i \in 0 .. MaxItems |-> None] /\ head = 0 /\ tail = 0
  /\ holders = {Owner} /\ pool = "alive" /\ left = 0
  /\ pc = [t \in Posters \cup workers |-> IF t \in Posters THEN "idle" ELSE "look"]
  /\ item = [t \in Posters \cup workers |-> None]
  /\ call = [p \in Producers |-> 0]
  /\ out = <<>> /\ dropped = {} /\ refused = {}

Goto(t, label) == pc' = [pc EXCEPT ![t] = label]
Waiting(label) == {t \in DOMAIN pc : pc[t] = label}

-----------------------------------------------------------------------------
(* circular_q                                                              *)
empty == tail = head
full  == (tail + 1) % Slots = head

(* Mutant: the oldest message is not given up, and a full queue looks      *)
(* empty.                                                                  *)
push_back_KeepHead(m) ==
  /\ buf' = [buf EXCEPT ![tail] = m]
  /\ tail' = (tail + 1) % Slots
  /\ UNCHANGED <<head, dropped>>

(* push_back: the slot of an overrun message is not cleared; the tail has  *)
(* only met the head.                                                      *)
push_back(m) ==
  /\ buf' = [buf EXCEPT ![tail] = m]
  /\ tail' = (tail + 1) % Slots
  /\ IF tail' = head
     THEN head' = (head + 1) % Slots /\ dropped' = dropped \cup {buf[head]}
     ELSE UNCHANGED <<head, dropped>>

(* Mutant: the newest message is taken.                                    *)
pop_front_Newest(w) ==
  /\ tail' = (tail + Slots - 1) % Slots
  /\ item' = [item EXCEPT ![w] = buf[tail']]
  /\ buf' = [buf EXCEPT ![tail'] = None]
  /\ UNCHANGED <<head, dropped>>

(* pop_front into the item of worker w.                                    *)
pop_front(w) ==
  /\ item' = [item EXCEPT ![w] = buf[head]]
  /\ buf' = [buf EXCEPT ![head] = None]
  /\ head' = (head + 1) % Slots
  /\ UNCHANGED <<tail, dropped>>

-----------------------------------------------------------------------------
(* Mutant: the logger uses the pool through a plain pointer.               *)
sink_it__NoLock(p) ==
  /\ pc[p] = "idle" /\ call[p] < Len(Program[p])
  /\ LET m == <<p, call[p] + 1>>
     IN  IF holders # {}
         THEN /\ item' = [item EXCEPT ![p] = m]
              /\ Goto(p, "post")
              /\ UNCHANGED <<holders, call, refused>>
         ELSE /\ refused' = refused \cup {m}
              /\ call' = [call EXCEPT ![p] = @ + 1]
              /\ UNCHANGED <<holders, pc, item>>
  /\ UNCHANGED <<policy, workers, queueVars, pool, left, out>>

(* async_logger::sink_it_ and flush_: lock the weak_ptr.  When the pool is *)
(* gone they throw, and logger::log and flush hand the exception to the    *)
(* error handler.                                                          *)
sink_it_(p) ==
  /\ pc[p] = "idle" /\ call[p] < Len(Program[p])
  /\ LET m == <<p, call[p] + 1>>
     IN  IF holders # {}
         THEN /\ holders' = holders \cup {p}
              /\ item' = [item EXCEPT ![p] = m]
              /\ Goto(p, "post")
              /\ UNCHANGED <<call, refused>>
         ELSE /\ refused' = refused \cup {m}
              /\ call' = [call EXCEPT ![p] = @ + 1]
              /\ UNCHANGED <<holders, pc, item>>
  /\ UNCHANGED <<policy, workers, queueVars, pool, left, out>>

(* post_log and post_flush use the logger's policy, the destructor always  *)
(* blocks.                                                                 *)
MayOverrun(m) == m # Terminate /\ policy[m[1]] = "overrun_oldest"

(* Mutant: nobody blocks.                                                  *)
post_async_msg__Nowait(t) ==
  /\ pc[t] = "post"
  /\ push_back(item[t]) /\ Goto(t, "notify")
  /\ item' = [item EXCEPT ![t] = None]
  /\ UNCHANGED <<policy, workers, poolVars, call, out, refused>>

(* post_async_msg_: enqueue waits on pop_cv_ while the queue is full,      *)
(* enqueue_nowait does not look.                                           *)
post_async_msg_(t) ==
  /\ pc[t] = "post"
  /\ IF full /\ ~MayOverrun(item[t])
     THEN Goto(t, "blocked") /\ UNCHANGED <<item, queueVars>>
     ELSE /\ push_back(item[t]) /\ Goto(t, "notify")
          /\ item' = [item EXCEPT ![t] = None]
  /\ UNCHANGED <<policy, workers, poolVars, call, out, refused>>

(* Where a poster goes after its notify_one: the destructor posts one      *)
(* message per worker and then joins them, a logger drops its pool_ptr.    *)
AfterPost(t) == IF holders # {} THEN "release" ELSE IF left > 1 THEN "post" ELSE "join"

(* push_cv_.notify_one() of enqueue and enqueue_nowait.                    *)
NotifyPush(t) ==
  /\ t \in Posters /\ pc[t] = "notify"
  /\ LET next == [pc EXCEPT ![t] = AfterPost(t)]
     IN  \/ \E w \in Waiting("waiting") : pc' = [next EXCEPT ![w] = "look"]
         \/ Waiting("waiting") = {} /\ pc' = next
  /\ IF holders # {} THEN UNCHANGED <<left, item>>
     ELSE /\ left' = left - 1
          /\ item' = [item EXCEPT ![t] = IF left > 1 THEN Terminate ELSE None]
  /\ UNCHANGED <<policy, workers, queueVars, holders, pool, call, out, refused>>

(* Drop a shared_ptr to the pool: the last one runs ~thread_pool.          *)
DropPool(t, label) ==
  /\ holders' = holders \ {t}
  /\ IF holders' = {}
     THEN /\ pool' = "dying" /\ left' = Cardinality(workers)
          /\ item' = [item EXCEPT ![t] = Terminate]
          /\ Goto(t, "post")
     ELSE UNCHANGED <<pool, left, item>> /\ Goto(t, label)

(* The end of the `if (auto pool_ptr = ...)` of sink_it_ and flush_.       *)
Release(p) ==
  /\ p \in Producers /\ pc[p] = "release"
  /\ call' = [call EXCEPT ![p] = @ + 1]
  /\ DropPool(p, "idle")
  /\ UNCHANGED <<policy, workers, queueVars, out, refused>>

(* registry::shutdown, as far as the pool goes: tp_.reset().               *)
shutdown ==
  /\ pc[Owner] = "idle"
  /\ DropPool(Owner, "done")
  /\ UNCHANGED <<policy, workers, queueVars, call, out, refused>>

(* The joins at the end of ~thread_pool.                                   *)
Join(t) ==
  /\ pc[t] = "join"
  /\ \A w \in workers : pc[w] = "exited"
  /\ pool' = "gone"
  /\ Goto(t, IF t = Owner THEN "done" ELSE "idle")
  /\ UNCHANGED <<policy, workers, queueVars, holders, left, item, call, out, refused>>

-----------------------------------------------------------------------------
(* dequeue_for: take the oldest message, or wait on push_cv_.              *)
dequeue_for(w) ==
  /\ pc[w] = "look"
  /\ IF empty THEN Goto(w, "waiting") /\ UNCHANGED <<item, queueVars>>
     ELSE pop_front(w) /\ Goto(w, "notify")
  /\ UNCHANGED <<policy, workers, poolVars, call, out, refused>>

(* A waiter wakes without a notification: spuriously, or, a worker, after  *)
(* ten seconds.  Either looks at the queue again before it goes on; a      *)
(* worker that finds nothing comes back through worker_loop_.              *)
WakeUnnotified(t) ==
  /\ pc[t] \in {"waiting", "blocked"}
  /\ Goto(t, IF pc[t] = "waiting" THEN "look" ELSE "post")
  /\ UNCHANGED <<policy, workers, queueVars, poolVars, item, call, out, refused>>

(* Mutant: the notification after a pop is missing.                        *)
NotifyPop_Missing(w) ==
  /\ w \in workers /\ pc[w] = "notify"
  /\ Goto(w, "process")
  /\ UNCHANGED <<policy, workers, queueVars, poolVars, item, call, out, refused>>

(* pop_cv_.notify_one() of dequeue_for.                                    *)
NotifyPop(w) ==
  /\ w \in workers /\ pc[w] = "notify"
  /\ LET next == [pc EXCEPT ![w] = "process"]
     IN  \/ \E t \in Waiting("blocked") : pc' = [next EXCEPT ![t] = "post"]
         \/ Waiting("blocked") = {} /\ pc' = next
  /\ UNCHANGED <<policy, workers, queueVars, poolVars, item, call, out, refused>>

(* Mutant: a flush also ends the worker.                                   *)
process_next_msg__FlushEnds(w) ==
  /\ pc[w] = "process"
  /\ IF Kind(item[w]) = "terminate" THEN UNCHANGED out ELSE out' = Append(out, item[w])
  /\ Goto(w, IF Kind(item[w]) = "log" THEN "look" ELSE "exited")
  /\ item' = [item EXCEPT ![w] = None]
  /\ UNCHANGED <<policy, workers, queueVars, poolVars, call, refused>>

(* process_next_msg_: backend_log_ and backend_flush_ reach the sink under *)
(* the sink's own mutex and catch what it throws; a termination message    *)
(* ends worker_loop_.                                                      *)
process_next_msg_(w) ==
  /\ pc[w] = "process"
  /\ IF Kind(item[w]) = "terminate" THEN Goto(w, "exited") /\ UNCHANGED out
     ELSE Goto(w, "look") /\ out' = Append(out, item[w])
  /\ item' = [item EXCEPT ![w] = None]
  /\ UNCHANGED <<policy, workers, queueVars, poolVars, call, refused>>

-----------------------------------------------------------------------------
Post(t) == post_async_msg_(t) \/ NotifyPush(t) \/ Join(t)
Produce(p) == sink_it_(p) \/ Release(p) \/ Post(p)
Work(w) == dequeue_for(w) \/ NotifyPop(w) \/ process_next_msg_(w)

AllDone ==
  /\ pool = "gone"
  /\ \A p \in Producers : pc[p] = "idle" /\ call[p] = Len(Program[p])

Next ==
  \/ \E p \in Producers : Produce(p)
  \/ shutdown \/ Post(Owner)
  \/ \E w \in workers : Work(w)
  \/ \E t \in DOMAIN pc : WakeUnnotified(t)
  \/ AllDone /\ UNCHANGED vars

Spec == Init /\ [][Next]_vars

(* Every thread keeps running.  Nothing is assumed of WakeUnnotified: no   *)
(* progress below rests on the ten-second timeout.                         *)
FairSpec ==
  /\ Spec
  /\ \A p \in Producers : WF_vars(Produce(p))
  /\ WF_vars(shutdown) /\ WF_vars(Post(Owner))
  /\ \A w \in AllWorkers : WF_vars(w \in workers /\ Work(w))

-----------------------------------------------------------------------------
(* The messages in the queue, oldest first.                                *)
Size     == (tail + Slots - head) % Slots
Contents == [i \in 1 .. Size |-> buf[(head + i - 1) % Slots]]

Posted(p) == {<<p, n>> : n \in 1 .. call[p]} \ refused

(* The slots from head to tail hold messages and the indices stay inside   *)
(* the vector.                                                             *)
TypeOK ==
  /\ head \in 0 .. MaxItems /\ tail \in 0 .. MaxItems
  /\ \A i \in 1 .. Size : Contents[i] \in LogMessages \cup {Terminate}
  /\ \A w \in workers : (item[w] = None) = (pc[w] \notin {"notify", "process"})
  /\ holders \subseteq Posters /\ left \in 0 .. Cardinality(workers)

(* circular_q under queue_mutex_ is the bounded queue of LogQueue: no      *)
(* message is taken twice, out of order, or lost but for the oldest one    *)
(* of a full queue.                                                        *)
Q == INSTANCE LogQueue WITH
       Messages <- LogMessages \cup {Terminate},
       overrunners <- {m \in LogMessages : MayOverrun(m)},
       Workers <- AllWorkers, Capacity <- MaxItems, queue <- Contents,
       hand <- [w \in AllWorkers |-> IF w \in workers THEN item[w] ELSE None]
ImplementsLogQueue == Q!Spec

(* Every message a logger has posted is in exactly one place: given to the *)
(* sink, in the queue, in the hands of a worker, or overrun; and nothing   *)
(* is overrun, no termination message above all, unless a logger with      *)
(* overrun_oldest did it.                                                  *)
NoSilentLoss ==
  LET inHand == {item[w] : w \in workers} \ {None}
      given == ToSet(out)
      queued == ToSet(Contents)
  IN  /\ \A p \in Producers : Posted(p) \subseteq given \cup queued \cup inHand \cup dropped
      /\ given \cap (queued \cup inHand \cup dropped) = {}
      /\ Cardinality(given) = Len(out)
      /\ dropped # {} => \E p \in Producers : policy[p] = "overrun_oldest"
      /\ Terminate \notin dropped

(* While the pool may be destroyed by whichever thread lets go of it last, *)
(* nobody uses its queue after that: neither a logger in the middle of a   *)
(* call nor a worker.                                                      *)
PoolOutlivesUsers ==
  /\ pool = "gone" => \A t \in DOMAIN pc : pc[t] \in {"idle", "done", "exited"}
  /\ pool = "dying" => Cardinality({t \in Posters : pc[t] \notin {"idle", "done"}}) = 1

(* async_logger.h: "Upon destruction, logs all remaining messages in the   *)
(* queue before destructing".  After the destructor every posted message   *)
(* that was not overrun has reached the sink, whichever worker took the    *)
(* termination messages.                                                   *)
DrainedAtDestruction ==
  pool = "gone" => Contents = <<>> /\ \A p \in Producers : Posted(p) \subseteq ToSet(out) \cup dropped

(* With one worker, a logger's messages reach the sink in the order they   *)
(* were logged, and a flush covers all that were logged before it.         *)
InOrder ==
  Cardinality(workers) = 1 =>
    \A i, j \in 1 .. Len(out) : (i < j /\ out[i][1] = out[j][1]) => out[i][2] < out[j][2]

(* Every call returns, the destructor too, without any timeout.            *)
Termination == <>AllDone
=============================================================================
