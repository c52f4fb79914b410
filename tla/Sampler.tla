------------------------------- MODULE Sampler -------------------------------
(***************************************************************************)
(* HashtablezSampler (abel/container/internal/hashtablez_sampler.cc): the  *)
(* samples that hash tables register, on a lock-free list of all samples   *)
(* and a circular list of dead ones, the graveyard, for reuse.  A sample   *)
(* is a number, in the order they are made; what Record* puts into it and  *)
(* the count of dropped ones are left out.                                 *)
(***************************************************************************)
EXTENDS Integers, FiniteSets

CONSTANTS
  Threads,     \* threads that register and unregister
  Iterators,   \* threads that call Iterate
  None,        \* no holder of a mutex
  max_samples, \* g_hashtablez_max_samples
  MaxCalls     \* bound: calls of Register and Iterate

Null      == 0
Graveyard == -1
Samples   == 1..MaxCalls

VARIABLES
  all_, next,            \* the list of all samples
  graveyard_dead, dead,  \* graveyard_.dead, and dead of each sample
  graveyard_mu, init_mu, \* holders of the mutexes
  size_estimate_,
  made,                  \* samples made so far
  info,                  \* the sample a thread has or is at
  pc, calls

vars == <<all_, next, graveyard_dead, dead, graveyard_mu, init_mu, size_estimate_, made, info, pc, calls>>

Init ==
  /\ all_ = Null /\ next = [s \in Samples |-> Null]
  /\ graveyard_dead = Graveyard /\ dead = [s \in Samples |-> Null]
  /\ graveyard_mu = None /\ init_mu = [s \in Samples |-> None]
  /\ size_estimate_ = 0 /\ made = 0
  /\ info = [t \in Threads \cup Iterators |-> Null]
  /\ pc = [t \in Threads \cup Iterators |-> "idle"]
  /\ calls = 0

Goto(t, label) == pc' = [pc EXCEPT ![t] = label]
Take(t, s) == info' = [info EXCEPT ![t] = s]
Lock(t, s) == init_mu[s] = None /\ init_mu' = [init_mu EXCEPT ![s] = t]
Unlock(s) == init_mu' = [init_mu EXCEPT ![s] = None]

-----------------------------------------------------------------------------
(* Register: the counter first, and back when the limit is passed.         *)
Register(t) ==
  /\ pc[t] = "idle" /\ calls < MaxCalls
  /\ calls' = calls + 1
  /\ size_estimate_' = size_estimate_ + 1
  /\ Goto(t, IF size_estimate_ > max_samples THEN "dropped" ELSE "pop")
  /\ UNCHANGED <<all_, next, graveyard_dead, dead, graveyard_mu, init_mu, made, info>>

DecrementSize(t) ==
  /\ pc[t] \in {"dropped", "buried"}
  /\ size_estimate_' = size_estimate_ - 1
  /\ Goto(t, "idle")
  /\ UNCHANGED <<all_, next, graveyard_dead, dead, graveyard_mu, init_mu, made, info, calls>>

(* Mutant: the head of the graveyard is read before its mutex is taken.    *)
PopDead_Unlocked(t) ==
  /\ pc[t] = "pop"
  /\ IF graveyard_dead = Graveyard
     THEN made' = made + 1 /\ Take(t, made') /\ Goto(t, "new")
     ELSE Take(t, graveyard_dead) /\ Goto(t, "dead") /\ UNCHANGED made
  /\ UNCHANGED <<all_, next, graveyard_dead, dead, graveyard_mu, init_mu, size_estimate_, calls>>

(* PopDead; when nothing is dead, Register makes a sample.                 *)
PopDead(t) ==
  /\ pc[t] = "pop" /\ graveyard_mu = None
  /\ IF graveyard_dead = Graveyard
     THEN made' = made + 1 /\ Take(t, made') /\ Goto(t, "new") /\ UNCHANGED graveyard_mu
     ELSE Take(t, graveyard_dead) /\ Goto(t, "dead") /\ graveyard_mu' = t /\ UNCHANGED made
  /\ UNCHANGED <<all_, next, graveyard_dead, dead, init_mu, size_estimate_, calls>>

(* The rest of PopDead, with both mutexes: unlink, PrepareForSampling.     *)
Unlink(t) ==
  /\ pc[t] = "dead" /\ Lock(t, info[t])
  /\ graveyard_dead' = dead[info[t]]
  /\ Goto(t, "prepare")
  /\ UNCHANGED <<all_, next, dead, graveyard_mu, size_estimate_, made, info, calls>>

PrepareForSampling(t) ==
  /\ pc[t] = "prepare"
  /\ dead' = [dead EXCEPT ![info[t]] = Null]
  /\ Unlock(info[t]) /\ graveyard_mu' = None
  /\ Goto(t, "registered")
  /\ UNCHANGED <<all_, next, graveyard_dead, size_estimate_, made, info, calls>>

(* PushNew: a load, then exchanges that reload when they fail.             *)
PushNew(t) ==
  /\ \/ pc[t] = "new" /\ next' = [next EXCEPT ![info[t]] = all_]
        /\ Goto(t, "exchange") /\ UNCHANGED all_
     \/ pc[t] = "exchange" /\ next[info[t]] # all_
        /\ next' = [next EXCEPT ![info[t]] = all_] /\ UNCHANGED <<all_, pc>>
     \/ pc[t] = "exchange" /\ next[info[t]] = all_
        /\ all_' = info[t] /\ Goto(t, "registered") /\ UNCHANGED next
  /\ UNCHANGED <<graveyard_dead, dead, graveyard_mu, init_mu, size_estimate_, made, info, calls>>

-----------------------------------------------------------------------------
(* Unregister: PushDead, and only then the counter.                        *)
PushDead(t) ==
  /\ pc[t] = "registered" /\ graveyard_mu = None
  /\ graveyard_mu' = t
  /\ Goto(t, "bury")
  /\ UNCHANGED <<all_, next, graveyard_dead, dead, init_mu, size_estimate_, made, info, calls>>

Bury(t) ==
  /\ pc[t] = "bury" /\ init_mu[info[t]] = None
  /\ dead' = [dead EXCEPT ![info[t]] = graveyard_dead]
  /\ graveyard_dead' = info[t]
  /\ graveyard_mu' = None
  /\ Take(t, Null) /\ Goto(t, "buried")
  /\ UNCHANGED <<all_, next, init_mu, size_estimate_, made, calls>>

-----------------------------------------------------------------------------
(* Iterate; the callback runs with the sample's mutex held.                *)
Visit(i, s) == Take(i, s) /\ Goto(i, IF s = Null THEN "idle" ELSE "visit")

Iterate(i) ==
  /\ pc[i] = "idle" /\ calls < MaxCalls
  /\ calls' = calls + 1
  /\ Visit(i, all_)
  /\ UNCHANGED <<all_, next, graveyard_dead, dead, graveyard_mu, init_mu, size_estimate_, made>>

IterateStep(i) ==
  /\ \/ pc[i] = "visit" /\ Lock(i, info[i])
        /\ Goto(i, IF dead[info[i]] = Null THEN "callback" ELSE "skip") /\ UNCHANGED info
     \/ pc[i] \in {"callback", "skip"} /\ Unlock(info[i]) /\ Visit(i, next[info[i]])
  /\ UNCHANGED <<all_, next, graveyard_dead, dead, graveyard_mu, size_estimate_, made, calls>>

Done ==
  /\ calls = MaxCalls /\ \A t \in Threads \cup Iterators : pc[t] \in {"idle", "registered"}
  /\ UNCHANGED vars

Next ==
  \/ \E t \in Threads :
       \/ Register(t) \/ DecrementSize(t) \/ PopDead(t) \/ Unlink(t) \/ PrepareForSampling(t)
       \/ PushNew(t) \/ PushDead(t) \/ Bury(t)
  \/ \E i \in Iterators : Iterate(i) \/ IterateStep(i)
  \/ Done

Spec == Init /\ [][Next]_vars

-----------------------------------------------------------------------------
(* The samples of the list that ends with End.                             *)
Linked(list, head, End) ==
  LET Reach[n \in 0..MaxCalls] ==
        IF n = 0 THEN {head} \ {End}
        ELSE Reach[n - 1] \cup ({list[s] : s \in Reach[n - 1]} \ {End})
  IN  Reach[MaxCalls]

(* A sample belongs to one table at a time, or to the graveyard; there are *)
(* never more samples than may be registered at once, as a dead one is     *)
(* reused before a new one is made; all of them are on the list; and none  *)
(* is reset while a callback of Iterate reads it.                          *)
SamplesAreReused ==
  /\ \A t, u \in Threads : info[t] = info[u] /\ info[t] # Null => t = u
  /\ \A t \in Threads :
       info[t] \in Linked(dead, graveyard_dead, Graveyard) => pc[t] = "dead"
  /\ made <= max_samples + 1
  /\ 1..made = Linked(next, all_, Null)
               \cup {info[t] : t \in {u \in Threads : pc[u] \in {"new", "exchange"}}}
  /\ \A i \in Iterators, t \in Threads :
       pc[i] = "callback" /\ pc[t] = "prepare" => info[i] # info[t]
=============================================================================
