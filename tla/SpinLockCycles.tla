--------------------------- MODULE SpinLockCycles ---------------------------
(***************************************************************************)
(* SpinLock::EncodeWaitCycles and DecodeWaitCycles                         *)
(* (abel/threading/internal/spinlock.cc): the time a thread waited, stored *)
(* in the upper bits of the 32-bit lock word.  WordSize stands for 2^32,   *)
(* which a run makes small enough for the clamp and the wrap to happen.    *)
(***************************************************************************)
EXTENDS Integers

CONSTANTS
  WordSize,  \* number of values of the lock word (2^32 in the code),
             \* a multiple of 8 and at least 32
  MaxDelta   \* bound: the largest clock difference TLC looks at

VARIABLE delta   \* wait_end_time - wait_start_time; negative if the cycle
                 \* counters of two CPUs disagree

kSpinLockSleeper == 8
ProfileShift  == 128   \* 1 << PROFILE_TIMESTAMP_SHIFT
ReservedShift == 8     \* 1 << LOCKWORD_RESERVED_SHIFT
kMinWaitTime  == kSpinLockSleeper + ReservedShift

(* numeric_limits<uint32_t>::max() >> LOCKWORD_RESERVED_SHIFT              *)
kMaxWaitTime == (WordSize - 1) \div ReservedShift

(* Mutant: the time is not clamped before it is shifted into the word.     *)
EncodeWaitCycles_NoClamp(d) ==
  LET clamped == ((d \div ProfileShift) * ReservedShift) % WordSize
  IN  CASE clamped = 0                -> kSpinLockSleeper
        [] clamped = kSpinLockSleeper -> kMinWaitTime
        [] OTHER                      -> clamped

(* The shift right of a negative int64_t rounds down, as \div does; the    *)
(* cast to uint32_t is the remainder modulo WordSize.                      *)
EncodeWaitCycles(d) ==
  LET scaled  == d \div ProfileShift
      limited == IF scaled < kMaxWaitTime THEN scaled ELSE kMaxWaitTime
      clamped == (limited * ReservedShift) % WordSize
  IN  CASE clamped = 0                -> kSpinLockSleeper
        [] clamped = kSpinLockSleeper -> kMinWaitTime
        [] OTHER                      -> clamped

(* lock_value & kWaitTimeMask, shifted left by the difference of shifts.   *)
DecodeWaitCycles(v) ==
  (v - (v % ReservedShift)) * (ProfileShift \div ReservedShift)

Init == delta = -MaxDelta
Next ==
  \/ delta < MaxDelta /\ delta' = delta + 1
  \/ delta = MaxDelta /\ UNCHANGED delta
Spec == Init /\ [][Next]_delta

-----------------------------------------------------------------------------
(* What profiling reads back from the word is the time waited: decoding    *)
(* loses less than one unit of 128 cycles up to the largest time the word  *)
(* can hold, and reports that largest time for anything longer; only the   *)
(* smallest unit is bumped, to two, and so a recorded wait is told apart   *)
(* from kSpinLockSleeper, which hides it from the profile.  A time too     *)
(* short to record, or negative because the clock ran backwards, still     *)
(* leaves wait bits and nothing but wait bits, so that the owner wakes the *)
(* next sleeper (spinlock.cc:187-218).                                     *)
RoundTrip ==
  LET e == EncodeWaitCycles(delta)
      d == DecodeWaitCycles(e)
      largest == kMaxWaitTime * ProfileShift
  IN  /\ e \in 1..(WordSize - 1) /\ e % ReservedShift = 0
      /\ delta >= ProfileShift => e # kSpinLockSleeper
      /\ delta \in (2 * ProfileShift)..(largest + ProfileShift - 1) =>
           delta - d \in 0..(ProfileShift - 1)
      /\ delta >= largest => d = largest
=============================================================================
