---------------------------- MODULE ClockSample -----------------------------
(***************************************************************************)
(* get_current_time_nanos over the cycle counter (abel/chrono/clock.cc):   *)
(* readers extrapolate from the last sample of the kernel's time, which    *)
(* they read under a seqlock, that is without a lock; writers replace it   *)
(* field by field.                                                         *)
(*                                                                         *)
(* A field is known by the number of the sample that stored it, 0 for      *)
(* none; `slopes' are the samples that store a positive period and         *)
(* min_cycles_per_sample.  Whether the interval after a sample has elapsed *)
(* and what UpdateLastSample makes of the times are left open.             *)
(***************************************************************************)
EXTENDS Naturals, Sequences

CONSTANTS
  Threads,
  None,     \* nobody has the lock
  MaxCalls  \* bound: calls of get_current_time_nanos

ReadOrder == <<"base_ns", "base_cycles", "nsscaled_per_cycle", "min_cycles_per_sample">>
Fields == {"raw_ns", "base_ns", "base_cycles", "nsscaled_per_cycle", "min_cycles_per_sample"}

VARIABLES
  lock, seq,
  last_sample,
  slopes,
  made,       \* samples made
  stores,     \* the fields the writer has still to store
  seq_read0,
  got,        \* the fields a reader has loaded, in ReadOrder
  pc, calls

vars == <<lock, seq, last_sample, slopes, made, stores, seq_read0, got, pc, calls>>

Init ==
  /\ lock = None /\ seq = 0
  /\ last_sample = [f \in Fields |-> 0]
  /\ slopes = {} /\ made = 0 /\ stores = <<>>
  /\ seq_read0 = [t \in Threads |-> 0]
  /\ got = [t \in Threads |-> <<>>]
  /\ pc = [t \in Threads |-> "idle"]
  /\ calls = 0

Goto(t, label) == pc' = [pc EXCEPT ![t] = label]

-----------------------------------------------------------------------------
(* The fast path.                                                          *)

get_current_time_nanos(t) ==
  /\ pc[t] = "idle" /\ calls < MaxCalls
  /\ calls' = calls + 1
  /\ seq_read0' = [seq_read0 EXCEPT ![t] = seq]
  /\ got' = [got EXCEPT ![t] = <<>>]
  /\ Goto(t, "read")
  /\ UNCHANGED <<lock, seq, last_sample, slopes, made, stores>>

Read(t) ==
  /\ pc[t] = "read" /\ Len(got[t]) < Len(ReadOrder)
  /\ got' = [got EXCEPT ![t] = Append(@, last_sample[ReadOrder[Len(@) + 1]])]
  /\ UNCHANGED <<lock, seq, last_sample, slopes, made, stores, seq_read0, pc, calls>>

(* Mutant: an odd value, which a writer has set, is trusted too.           *)
Consistent_Odd(t) == seq_read0[t] = seq

Consistent(t) == seq_read0[t] = seq /\ seq % 2 = 0

(* The locals are dead.                                                    *)
Forget(t) == seq_read0' = [seq_read0 EXCEPT ![t] = 0] /\ got' = [got EXCEPT ![t] = <<>>]

(* seq_read1; without an interval (min_cycles_per_sample is 0) there is    *)
(* no fast path.                                                           *)
Recheck(t) ==
  /\ pc[t] = "read" /\ Len(got[t]) = Len(ReadOrder)
  /\ \/ Goto(t, "slow") /\ Forget(t)
     \/ /\ Consistent(t) /\ got[t][4] \in slopes
        /\ Goto(t, "fast") /\ UNCHANGED <<seq_read0, got>>
  /\ UNCHANGED <<lock, seq, last_sample, slopes, made, stores, calls>>

Return(t) ==
  /\ pc[t] = "fast" /\ Goto(t, "idle") /\ Forget(t)
  /\ UNCHANGED <<lock, seq, last_sample, slopes, made, stores, calls>>

-----------------------------------------------------------------------------
(* GetCurrentTimeNanosSlowPath: under the lock, and no update when another *)
(* thread has made one in the meantime.                                    *)
LockSlowPath(t) ==
  /\ pc[t] = "slow" /\ lock = None
  /\ lock' = t
  /\ \/ last_sample["min_cycles_per_sample"] \in slopes /\ Goto(t, "unlock")
     \/ Goto(t, "update")
  /\ UNCHANGED <<seq, last_sample, slopes, made, stores, seq_read0, got, calls>>

(* UpdateLastSample: SeqAcquire, and the fields that its branches store:   *)
(* start anew, take or forget the slope, or wait for longer.               *)
UpdateLastSample(t) ==
  /\ pc[t] = "update"
  /\ seq' = seq + 1
  /\ \/ /\ made' = made + 1
        /\ stores' = <<"raw_ns", "base_ns", "base_cycles",
                       "nsscaled_per_cycle", "min_cycles_per_sample">>
        /\ UNCHANGED slopes
     \/ /\ last_sample["raw_ns"] # 0
        /\ made' = made + 1
        /\ slopes' \in {slopes, slopes \cup {made'}}
        /\ stores' = <<"nsscaled_per_cycle", "min_cycles_per_sample",
                       "raw_ns", "base_ns", "base_cycles">>
     \/ last_sample["raw_ns"] # 0 /\ UNCHANGED <<made, slopes, stores>>
  /\ Goto(t, "store")
  /\ UNCHANGED <<lock, last_sample, seq_read0, got, calls>>

Store(t) ==
  /\ pc[t] = "store" /\ stores # <<>>
  /\ last_sample' = [last_sample EXCEPT ![Head(stores)] = made]
  /\ stores' = Tail(stores)
  /\ UNCHANGED <<lock, seq, slopes, made, seq_read0, got, pc, calls>>

SeqRelease(t) ==
  /\ pc[t] = "store" /\ stores = <<>>
  /\ seq' = seq + 1
  /\ Goto(t, "unlock")
  /\ UNCHANGED <<lock, last_sample, slopes, made, stores, seq_read0, got, calls>>

Unlock(t) ==
  /\ pc[t] = "unlock"
  /\ lock' = None
  /\ Goto(t, "idle")
  /\ UNCHANGED <<seq, last_sample, slopes, made, stores, seq_read0, got, calls>>

Done == calls = MaxCalls /\ (\A t \in Threads : pc[t] = "idle") /\ UNCHANGED vars

Next ==
  \/ \E t \in Threads :
       \/ get_current_time_nanos(t) \/ Read(t) \/ Recheck(t) \/ Return(t)
       \/ LockSlowPath(t) \/ UpdateLastSample(t) \/ Store(t) \/ SeqRelease(t) \/ Unlock(t)
  \/ Done

Spec == Init /\ [][Next]_vars

-----------------------------------------------------------------------------
(* A time of the fast path is computed from the fields of one sample: the  *)
(* line through a point of one sample with the slope of another may be     *)
(* seconds away (clock.cc:303-317).                                        *)
FastPathUsesOneSample ==
  \A t \in Threads : pc[t] = "fast" => \A k \in DOMAIN got[t] : got[t][k] = got[t][4]
=============================================================================
