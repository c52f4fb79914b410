----------------------------- MODULE Components -----------------------------
(***************************************************************************)
(* Components for which only safety is stated and which do not meet each   *)
(* other, side by side: those whose calls do not interleave, because a     *)
(* lock or the rules of the class see to that, the sampler of hash tables, *)
(* and the clock's seqlock.  `which' is chosen at the start, only that     *)
(* component makes steps, and the others' variables keep one value; with   *)
(* "other" none of them does, for the use of a module that extends this.   *)
(***************************************************************************)
EXTENDS Integers, Sequences, FiniteSets

CONSTANTS
  \* RotatingSink
  max_files_, max_size_, Sizes, RotatingMsgs, RotatingFaults, MaxCrashes,
  \* DailySink
  Day, Rotations, MaxTime, DailyMsgs, DailyFaults,
  \* RotatingSink and DailySink
  Absent,
  \* SpinLockCycles
  WordSize, MaxDelta,
  \* GraphCycles
  N, MaxVersion, MaxRemovals,
  \* SkipList
  NodeAddresses, SkipHead, SkipNull, MaxLevel,
  \* LowLevelAlloc
  Allocators, NoBlock, Requests, pagesize, Chunk, MaxRandom, MaxAddr,
  \* Sampler
  Samplers, Iterators, max_samples, SamplerCalls,
  \* ClockSample
  ClockUsers, ClockCalls,
  \* Sampler and ClockSample
  None,
  \* the value of a variable whose component makes no steps
  Unused

\* Sizes are numbers and no content of a file is "no file"; a lock word has
\* five bits or more, the lowest three of which hold no wait time; None is no
\* thread; a thread that iterates over samples registers none; a rotation is
\* at one of the day's ticks; NoBlock is no address, a request is not empty,
\* and what is mapped at once is a number of pages.
ASSUME ComponentsAssumption ==
  /\ max_files_ \in Nat /\ max_size_ \in Nat /\ Sizes \subseteq Nat
  /\ Absent \notin Seq([id : Nat, len : Nat])
  /\ WordSize \in Nat /\ WordSize >= 32 /\ WordSize % 8 = 0 /\ MaxDelta \in Nat
  /\ None \notin ClockUsers \cup Samplers \cup Iterators
  /\ IsFiniteSet(Samplers) /\ Samplers \cap Iterators = {}
  /\ NodeAddresses \subseteq Nat /\ SkipHead \in Nat \ NodeAddresses /\ MaxLevel \in Nat
  /\ SkipNull \in Nat /\ SkipNull # SkipHead /\ \A e \in NodeAddresses : e < SkipNull
  /\ max_samples \in Nat /\ SamplerCalls \in Nat /\ N \in Nat
  /\ Day \in Nat \ {0} /\ Rotations \subseteq 0..Day - 1
  /\ Requests \subseteq Nat \ {0} /\ NoBlock \notin Nat /\ MaxRandom \in Nat /\ MaxAddr \in Nat
  /\ pagesize \in Nat \ {0} /\ Chunk \in Nat \ {0} /\ Chunk % pagesize = 0

VARIABLES
  which,
  \* RotatingSink and DailySink; LowLevelAlloc, Sampler and ClockSample have pc too
  file, fd_, msg, pc, faults,
  \* RotatingSink
  buf, current_size_, i, written, dropped, lost, crashes,
  \* DailySink
  now, rotation_hm, truncate_, rotation_tp_, pending, made, late,
  \* SpinLockCycles
  delta,
  \* GraphCycles
  size, live, free_nodes_, version, rank, in, out, removals,
  \* SkipList
  levels, next, members,
  \* LowLevelAlloc
  free, allocated, mapped, request, new_pages,
  \* Sampler
  all_, list, graveyard_dead, dead, graveyard_mu, init_mu, size_estimate_, samples, info,
  \* ClockSample
  lock, seq, last_sample, slopes, recorded, stores, seq_read0, got,
  \* Sampler and ClockSample
  begun

Rotating == INSTANCE RotatingSink WITH MaxMsgs <- RotatingMsgs, MaxFaults <- RotatingFaults

Daily == INSTANCE DailySink WITH MaxMsgs <- DailyMsgs, MaxFaults <- DailyFaults

Cycles == INSTANCE SpinLockCycles

Cycle == INSTANCE GraphCycles

Skip == INSTANCE SkipList WITH
  Addresses <- NodeAddresses, head <- SkipHead, Null <- SkipNull

Alloc == INSTANCE LowLevelAlloc WITH Threads <- Allocators, Null <- NoBlock

Sampling == INSTANCE Sampler WITH
  Threads <- Samplers, MaxCalls <- SamplerCalls, next <- list, made <- samples, calls <- begun

Clock == INSTANCE ClockSample WITH
  Threads <- ClockUsers, MaxCalls <- ClockCalls, made <- recorded, calls <- begun

sink == <<file, fd_, msg, faults>>
rotating == <<buf, current_size_, i, written, dropped, lost, crashes>>
daily == <<now, rotation_hm, truncate_, rotation_tp_, pending, made, late>>
graph == <<size, live, free_nodes_, version, rank, in, out, removals>>
skip == <<levels, next, members>>
alloc == <<free, allocated, mapped, request, new_pages>>
sampler == <<all_, list, graveyard_dead, dead, graveyard_mu, init_mu, size_estimate_, samples,
             info>>
clock == <<lock, seq, last_sample, slopes, recorded, stores, seq_read0, got>>
vars == <<which, sink, pc, rotating, daily, delta, graph, skip, alloc, sampler, clock, begun>>

NoSink == file = Unused /\ fd_ = Unused /\ msg = Unused /\ faults = Unused
NoPc == pc = Unused
NoRotating ==
  /\ buf = Unused /\ current_size_ = Unused /\ i = Unused
  /\ written = Unused /\ dropped = Unused /\ lost = Unused /\ crashes = Unused
NoDaily ==
  /\ now = Unused /\ rotation_hm = Unused /\ truncate_ = Unused /\ rotation_tp_ = Unused
  /\ pending = Unused /\ made = Unused /\ late = Unused
NoDelta == delta = Unused
NoGraph ==
  /\ size = Unused /\ live = Unused /\ free_nodes_ = Unused /\ version = Unused
  /\ rank = Unused /\ in = Unused /\ out = Unused /\ removals = Unused
NoSkip == levels = Unused /\ next = Unused /\ members = Unused
NoAlloc ==
  /\ free = Unused /\ allocated = Unused /\ mapped = Unused
  /\ request = Unused /\ new_pages = Unused
NoSampler ==
  /\ all_ = Unused /\ list = Unused /\ graveyard_dead = Unused /\ dead = Unused
  /\ graveyard_mu = Unused /\ init_mu = Unused /\ size_estimate_ = Unused
  /\ samples = Unused /\ info = Unused
NoClock ==
  /\ lock = Unused /\ seq = Unused /\ last_sample = Unused /\ slopes = Unused
  /\ recorded = Unused /\ stores = Unused /\ seq_read0 = Unused /\ got = Unused

Init ==
  /\ \/ /\ which \in {"cycles", "graph", "skip", "alloc", "sampler", "clock", "other"}
        /\ NoSink /\ NoRotating /\ NoDaily
     \/ which = "rotating" /\ Rotating!Init /\ NoDaily
     \/ which = "daily" /\ Daily!Init /\ NoRotating
  /\ IF which = "cycles" THEN Cycles!Init ELSE NoDelta
  /\ IF which = "graph" THEN Cycle!Init ELSE NoGraph
  /\ IF which = "skip" THEN Skip!Init ELSE NoSkip
  /\ IF which = "alloc" THEN Alloc!Init ELSE NoAlloc
  /\ IF which = "sampler" THEN Sampling!Init ELSE NoSampler
  /\ IF which = "clock" THEN Clock!Init ELSE NoClock
  /\ which \notin {"rotating", "daily", "alloc", "sampler", "clock"} => NoPc
  /\ which \notin {"sampler", "clock"} => begun = Unused

Next ==
  \/ which = "rotating" /\ Rotating!Next
     /\ UNCHANGED <<which, daily, delta, graph, skip, alloc, sampler, clock, begun>>
  \/ which = "daily" /\ Daily!Next
     /\ UNCHANGED <<which, rotating, delta, graph, skip, alloc, sampler, clock, begun>>
  \/ which = "cycles" /\ Cycles!Next
     /\ UNCHANGED <<which, sink, pc, rotating, daily, graph, skip, alloc, sampler, clock, begun>>
  \/ which = "graph" /\ Cycle!Next
     /\ UNCHANGED <<which, sink, pc, rotating, daily, delta, skip, alloc, sampler, clock, begun>>
  \/ which = "skip" /\ Skip!Next
     /\ UNCHANGED <<which, sink, pc, rotating, daily, delta, graph, alloc, sampler, clock, begun>>
  \/ which = "alloc" /\ Alloc!Next
     /\ UNCHANGED <<which, sink, rotating, daily, delta, graph, skip, sampler, clock, begun>>
  \/ which = "sampler" /\ Sampling!Next
     /\ UNCHANGED <<which, sink, rotating, daily, delta, graph, skip, alloc, clock>>
  \/ which = "clock" /\ Clock!Next
     /\ UNCHANGED <<which, sink, rotating, daily, delta, graph, skip, alloc, sampler>>

Spec == Init /\ [][Next]_vars

-----------------------------------------------------------------------------
(* A rotation that fails leaves the file closed (rotating_file_sink.h:82), *)
(* and still no later call reaches fwrite with a null FILE: current_size_  *)
(* stays above the limit until a rotation has reopened the file.           *)
WriteFindsOpenFile == which = "rotating" => Rotating!WriteFindsOpenFile

(* What is kept is an end of what was written, in order and without a gap, *)
(* except for what was in the buffer when fflush or fclose failed or the   *)
(* process was killed: rotate_ only ever discards the oldest messages      *)
(* (rotating_file_sink.h:73-101, file_helper.h:94-103).                    *)
RetainedIsSuffix == which = "rotating" => Rotating!RetainedIsSuffix

(* The messages of one period between rotations are in one file, however   *)
(* many rotations were missed, unless a call straddles a rotation time;    *)
(* and only such a call meets the file that a failed rotation has closed   *)
(* (daily_file_sink.h:65-75).                                              *)
OnePeriodOneFile == which = "daily" => Daily!OnePeriodOneFile

(* The waiting time that the lock word of SpinLock gives back is the time  *)
(* waited, within a unit and up to what the word can hold, and is never    *)
(* taken for no time at all (spinlock.cc:187-218).                         *)
RoundTrip == which = "cycles" => Cycles!RoundTrip

(* The ranks stay a topological order of the lock graph over any sequence  *)
(* of insertions and removals (graphcycles.cc:367-391).                    *)
RanksAreTopological == which = "graph" => Cycle!RanksAreTopological

(* InsertEdge refuses an edge when, and only when, it closes a cycle       *)
(* (graphcycles.cc:480-517).                                               *)
RefusesExactlyCycles == which = "graph" => Cycle!RefusesExactlyCycles

(* Every level of the free list links just the nodes that have it, in      *)
(* order (low_level_alloc.cc:160-185).                                     *)
LevelsLinkTheirMembers == which = "skip" => Skip!LevelsLinkTheirMembers

(* The blocks partition the arena's memory and no two free ones touch      *)
(* (low_level_alloc.cc:461-498).                                           *)
BlocksPartitionMemory == which = "alloc" => Alloc!BlocksPartitionMemory

(* The first fit, which starts at a high level, finds nothing only when no *)
(* free block is big enough (low_level_alloc.cc:530-548).                  *)
FirstFitMissesNothing == which = "alloc" => Alloc!FirstFitMissesNothing

(* A sample of a hash table belongs to one table or is dead, no more are   *)
(* made than may be in use at once, and none is reset under a callback     *)
(* that reads it (hashtablez_sampler.cc:90-160).                           *)
SamplesAreReused == which = "sampler" => Sampling!SamplesAreReused

(* The clock's fast path computes the time from one sample of the kernel's *)
(* clock, though it loads the fields without a lock (clock.cc:264-322).    *)
FastPathUsesOneSample == which = "clock" => Clock!FastPathUsesOneSample
=============================================================================
