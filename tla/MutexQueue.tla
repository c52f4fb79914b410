----------------------------- MODULE MutexQueue -----------------------------
(***************************************************************************)
(* The waiter queue of abel::mutex (abel/synchronization/mutex.cc): Skip,  *)
(* FixSkip, Enqueue, Dequeue, DequeueAllWakeable and the search of         *)
(* TryRemove, as operators on a queue value                                *)
(*                                                                         *)
(*   seq     the circular list, front first; its last element is "head"    *)
(*   skip    PerThreadSynch::skip of every thread                          *)
(*   may     threads with may_skip set                                     *)
(*   wake    threads with wake set                                         *)
(*   failed  the ABEL_RAW_CHECKs that have failed so far                   *)
(*                                                                         *)
(* kind[t] is <<how, cond>>, what t waits for: MuSameCondition compares    *)
(* it.  priority[t] is PerThreadSynch::priority.                           *)
(***************************************************************************)
EXTENDS Naturals, Sequences, FiniteSets

CONSTANTS
  Threads,   \* the threads that may wait
  Null       \* the null pointer

Seqs == INSTANCE SequencesExt

ASSUME QueueAssumption == Null \notin Threads /\ IsFiniteSet(Threads)

EmptyQueue ==
  [seq |-> <<>>, skip |-> [t \in Threads |-> Null], may |-> {}, wake |-> {},
   failed |-> {}]

Pos(Q, x)   == CHOOSE i \in DOMAIN Q.seq : Q.seq[i] = x
Waiting(Q)  == {Q.seq[i] : i \in DOMAIN Q.seq}
HeadOf(Q)   == IF Q.seq = <<>> THEN Null ELSE Q.seq[Len(Q.seq)]
NextOf(Q, x) == IF x = HeadOf(Q) THEN Q.seq[1] ELSE Q.seq[Pos(Q, x) + 1]

Check(Q, ok, label) == IF ok THEN Q ELSE [Q EXCEPT !.failed = @ \cup {label}]

MuSameCondition(kind, x, y) == kind[x] = kind[y]

(* Apply F to s n times: the loops below all end within a known number of  *)
(* turns, after which F leaves the loop's state alone.                     *)
Loop(F(_), s, n) ==
  LET turn[i \in 0..n] == IF i = 0 THEN s
                          ELSE CHOOSE r \in {F(l) : l \in {turn[i - 1]}} : TRUE
  IN  turn[n]

-----------------------------------------------------------------------------
(* Skip: the end of x's skip chain; chain[0..last] are the threads on it.  *)
(* The pointers are shortened on the way: each one but the first jumps one *)
(* further, and x points at the end.                                       *)
Skip(Q, x) ==
  LET chain[i \in 0..Cardinality(Threads)] ==
        IF i = 0 THEN x
        ELSE IF chain[i - 1] = Null THEN Null ELSE Q.skip[chain[i - 1]]
      last == CHOOSE i \in 0..Cardinality(Threads) :
                chain[i] # Null /\ \A j \in (i + 1)..Cardinality(Threads) : chain[j] = Null
      Shorten(t) ==
        IF t = x /\ last > 0 THEN chain[last]
        ELSE IF \E i \in 1..last : i + 2 <= last /\ chain[i] = t
             THEN chain[2 + CHOOSE i \in 1..last : chain[i] = t]
             ELSE Q.skip[t]
  IN  [end |-> chain[last],
       queue |-> [Q EXCEPT !.skip = [t \in Threads |-> Shorten(t)]]]

(* Mutant: skip pointers to the removed thread stay.                       *)
FixSkip_Dangling(Q, ancestor, removed) == Q

(* FixSkip: "removed" is about to leave the queue out of order; the skip   *)
(* pointer of "ancestor" must not dangle.                                  *)
FixSkip(Q, ancestor, removed) ==
  IF Q.skip[ancestor] # removed THEN Q
  ELSE [Q EXCEPT !.skip[ancestor] =
          IF Q.skip[removed] # Null THEN Q.skip[removed]
          ELSE IF NextOf(Q, ancestor) # removed THEN NextOf(Q, ancestor)
          ELSE Null]

(* Enqueue's search for the last place where s is in priority order: only  *)
(* between skip chains, or inside a chain that waits for the same as s.    *)
PriorityPlace(Q, s, kind, priority) ==
  LET Turn(l) ==
        IF l.done THEN l
        ELSE LET cur == NextOf(l.queue, l.to)
                 sk  == Skip(l.queue, cur)
                 to  == IF /\ sk.end # cur
                           /\ priority[s] > priority[sk.end]
                           /\ MuSameCondition(kind, s, cur)
                        THEN cur ELSE sk.end
             IN  [queue |-> sk.queue, after |-> l.to, to |-> to,
                  done |-> priority[s] > priority[to]]
  IN  Loop(Turn, [queue |-> Q, after |-> Null, to |-> HeadOf(Q), done |-> FALSE],
           Len(Q.seq))

(* Insert s behind "after", which is head (then s is the new front), the   *)
(* end of a skip chain, or a member of a chain of s's own kind.            *)
InsertAfter(Q0, s, after, kind) ==
  LET head == HeadOf(Q0)
      at == IF after = head THEN 0 ELSE Pos(Q0, after)
      Q1 == Check([Q0 EXCEPT !.seq = SubSeq(@, 1, at) \o <<s>> \o SubSeq(@, at + 1, Len(@))],
                  Q0.skip[after] = Null \/ MuSameCondition(kind, after, s),
                  "mutex Enqueue failure")
      Q2 == IF /\ after # head
               /\ after \in Q1.may
               /\ MuSameCondition(kind, after, s)
            THEN [Q1 EXCEPT !.skip[after] = s] ELSE Q1
  IN  IF MuSameCondition(kind, s, NextOf(Q2, s))
      THEN [Q2 EXCEPT !.skip[s] = NextOf(Q2, s)] ELSE Q2

(* Append s: it becomes head, and the former head may skip to it.          *)
AppendWaiter(Q, s, kind) ==
  LET head == HeadOf(Q)
      Q1 == [Q EXCEPT !.seq = Append(@, s)]
  IN  IF head \in Q.may /\ MuSameCondition(kind, head, s)
      THEN [Q1 EXCEPT !.skip[head] = s] ELSE Q1

(* Mutant: insert by priority although an unlocker may be walking.         *)
Enqueue_IgnoreUnlocker(Q, s, kind, priority, unlocking) ==
  LET Q0 == [Q EXCEPT !.skip[s] = Null, !.may = @ \cup {s}, !.wake = @ \ {s}]
      place == PriorityPlace(Q0, s, kind, priority)
  IN  IF Q0.seq = <<>> THEN [Q0 EXCEPT !.seq = <<s>>]
      ELSE IF priority[s] > priority[HeadOf(Q0)]
           THEN InsertAfter(place.queue, s, place.after, kind)
           ELSE AppendWaiter(Q0, s, kind)

(* Enqueue on the mutex queue; "unlocking" is head->maybe_unlocking, and   *)
(* the caller keeps readers and maybe_unlocking with the new head.         *)
Enqueue(Q, s, kind, priority, unlocking) ==
  LET Q0 == [Q EXCEPT !.skip[s] = Null, !.may = @ \cup {s}, !.wake = @ \ {s}]
      place == PriorityPlace(Q0, s, kind, priority)
  IN  IF Q0.seq = <<>> THEN [Q0 EXCEPT !.seq = <<s>>]
      ELSE IF priority[s] > priority[HeadOf(Q0)] /\ ~unlocking
           THEN InsertAfter(place.queue, s, place.after, kind)
      ELSE IF priority[s] > priority[HeadOf(Q0)] /\ kind[s] = <<"X", Null>>
           THEN InsertAfter(Q0, s, HeadOf(Q0), kind)
      ELSE AppendWaiter(Q0, s, kind)

(* Dequeue the successor of pw.  The fields of a thread that is not on the *)
(* queue are invalid, and Enqueue sets them anew: they are reset here.     *)
Dequeue(Q, pw, kind) ==
  LET head == HeadOf(Q)
      w    == NextOf(Q, pw)
      Q1   == [Q EXCEPT !.seq = Seqs!RemoveFirst(@, w), !.skip[w] = Null,
                        !.may = @ \ {w}, !.wake = @ \ {w}]
  IN  IF head = w \/ pw = head \/ ~MuSameCondition(kind, pw, NextOf(Q1, pw))
      THEN Q1
      ELSE LET n == NextOf(Q1, pw) IN
           [Q1 EXCEPT !.skip[pw] = IF Q1.skip[n] # Null THEN Q1.skip[n] ELSE n]

(* DequeueAllWakeable: take the threads marked to wake out of [pw->next,   *)
(* head], at most one writer, in the order found.                          *)
DequeueAllWakeable(Q, pw0, kind) ==
  LET orig == HeadOf(Q)
      Stop(Q1, pw, skipped) ==
        HeadOf(Q1) # orig \/ (pw = HeadOf(Q1) /\ skipped)
      Turn(l) ==
        IF l.done THEN l
        ELSE LET w == NextOf(l.queue, l.pw) IN
          IF w \in l.queue.wake
          THEN LET Q1 == Dequeue(Check(l.queue, l.queue.skip[l.pw] = Null,
                                       "bad skip in DequeueAllWakeable"), l.pw, kind)
               IN  [l EXCEPT !.queue = Q1, !.list = Append(@, w),
                             !.done = kind[w][1] = "X" \/ Stop(Q1, l.pw, l.skipped)]
          ELSE LET sk == Skip(l.queue, w)
               IN  [l EXCEPT !.queue = sk.queue, !.pw = sk.end, !.skipped = TRUE,
                             !.done = Stop(sk.queue, sk.end, TRUE)]
  IN  Loop(Turn, [queue |-> Q, pw |-> pw0, list |-> <<>>, skipped |-> FALSE,
                  done |-> FALSE], 2 * Len(Q.seq))

(* The search of TryRemove: walk from the front to s's predecessor, past   *)
(* chains of another kind, and repair the skip pointers of s's own kind.   *)
Remove(Q, s, kind) ==
  LET head == HeadOf(Q)
      Turn(l) ==
        LET w == NextOf(l.queue, l.pw) IN
        IF l.done \/ w = s THEN [l EXCEPT !.done = TRUE]
        ELSE LET sk == Skip(l.queue, w)
                 to == IF MuSameCondition(kind, s, w) THEN w ELSE sk.end
             IN  [queue |-> IF to = w /\ MuSameCondition(kind, s, w)
                            THEN FixSkip(l.queue, w, s) ELSE sk.queue,
                  pw |-> to, done |-> to = head]
      found == Loop(Turn, [queue |-> Q, pw |-> head, done |-> FALSE], Len(Q.seq))
  IN  IF Q.seq = <<>> THEN Q
      ELSE IF NextOf(found.queue, found.pw) = s
           THEN Dequeue(found.queue, found.pw, kind) ELSE found.queue

-----------------------------------------------------------------------------
(* The skip field's invariant, as the comment above Skip states it         *)
(* (mutex.cc:753-761): a skip pointer leads to a later waiter of the same  *)
(* queue, over waiters that all wait for the same condition and mode.      *)
SkipInvariant(Q, kind) ==
  \A x \in Waiting(Q) :
    Q.skip[x] # Null =>
      /\ Q.skip[x] \in Waiting(Q)
      /\ Pos(Q, x) < Pos(Q, Q.skip[x])
      /\ \A i \in Pos(Q, x)..Pos(Q, Q.skip[x]) : MuSameCondition(kind, x, Q.seq[i])
=============================================================================
