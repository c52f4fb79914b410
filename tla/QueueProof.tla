----------------------------- MODULE QueueProof -----------------------------
(***************************************************************************)
(* The waiter queue of mutex: what Enqueue, Dequeue, TryRemove's search,   *)
(* UnlockSlow's search and DequeueAllWakeable do to a queue, for any       *)
(* threads, kinds of waiters and priorities.  A queue is good when its     *)
(* waiters differ and every skip pointer leads forward, over waiters of    *)
(* one kind.  Each operation keeps it good and fails none of its checks,   *)
(* provided that the waiter it removes is skipped to by nobody, which is   *)
(* what UnlockSlow's and TryRemove's searches see to.                      *)
(***************************************************************************)
EXTENDS MutexQueue, Iteration, SequenceTheorems

(* The values of a waiter queue.                                           *)
Queues == [seq : Seq(Threads), skip : [Threads -> Threads \cup {Null}],
           may : SUBSET Threads, wake : SUBSET Threads, failed : SUBSET STRING]

(* No element is in the sequence twice.                                    *)
Distinct(s) == \A i, j \in DOMAIN s : s[i] = s[j] => i = j

(* The skip pointer of waiter number i leads to number j, over waiters of  *)
(* one kind, none of which ends a chain.                                   *)
Jump(Q, kind, i, j) ==
  /\ i < j /\ Q.skip[Q.seq[i]] = Q.seq[j]
  /\ \A k \in i..j : kind[Q.seq[k]] = kind[Q.seq[i]]
  /\ \A k \in i..(j - 1) : Q.skip[Q.seq[k]] # Null

(* No thread waits twice, and each skip pointer is a jump: what the skip   *)
(* optimisation of mutex.cc relies on.                                     *)
Good(Q, kind) ==
  /\ Q \in Queues /\ Distinct(Q.seq)
  /\ \A i \in DOMAIN Q.seq :
       Q.skip[Q.seq[i]] # Null => \E j \in DOMAIN Q.seq : Jump(Q, kind, i, j)
-----------------------------------------------------------------------------
(* A sequence of different elements: where they are, and how many.         *)
LEMMA PosIs ==
  ASSUME NEW Q, Distinct(Q.seq), NEW i \in DOMAIN Q.seq
  PROVE  Pos(Q, Q.seq[i]) = i
BY DEF Pos, Distinct

(* The head of a queue is its last waiter.                                 *)
LEMMA HeadIs ==
  ASSUME NEW Q, Q \in Queues, Q.seq # <<>>
  PROVE  /\ Len(Q.seq) \in Nat /\ Len(Q.seq) > 0 /\ DOMAIN Q.seq = 1..Len(Q.seq)
         /\ HeadOf(Q) = Q.seq[Len(Q.seq)] /\ HeadOf(Q) \in Waiting(Q)
         /\ Waiting(Q) \subseteq Threads
BY DEF HeadOf, Waiting, Queues

(* The waiter after number i; that of the last one is the first.           *)
LEMMA NextIs ==
  ASSUME NEW Q, Q \in Queues, Distinct(Q.seq), NEW i \in DOMAIN Q.seq
  PROVE  /\ NextOf(Q, Q.seq[i]) = IF i = Len(Q.seq) THEN Q.seq[1] ELSE Q.seq[i + 1]
         /\ Q.seq # <<>> /\ NextOf(Q, Q.seq[i]) \in Waiting(Q)
         /\ Q.seq[i] = HeadOf(Q) <=> i = Len(Q.seq)
<1>1. DOMAIN Q.seq = 1..Len(Q.seq) /\ Len(Q.seq) \in Nat /\ Q.seq # <<>>
      BY DEF Queues
<1>2. Q.seq[i] = HeadOf(Q) <=> i = Len(Q.seq)
      BY <1>1 DEF HeadOf, Distinct
<1> QED
    BY <1>1, <1>2, PosIs DEF NextOf, Waiting

(* There are no more waiters than threads.                                 *)
LEMMA ShortQueue ==
  ASSUME NEW Q, Q \in Queues, Distinct(Q.seq)
  PROVE  Len(Q.seq) \in Nat /\ Cardinality(Threads) \in Nat /\ Len(Q.seq) <= Cardinality(Threads)
<1> DEFINE n == Len(Q.seq)
<1>1. n \in Nat /\ Q.seq \in [1..n -> Threads]
      BY DEF Queues
<1>2. Q.seq \in Injection(1..n, Threads)
      BY <1>1 DEF Injection, IsInjective, Distinct
<1>3. IsFiniteSet(Threads) /\ Cardinality(Threads) \in Nat
      BY QueueAssumption, FS_CardinalityType
<1>4. Cardinality(1..n) <= Cardinality(Threads)
      BY <1>2, <1>3, FS_Injection
<1>5. Cardinality(1..n) = n
  <2>1. 1 \in Int /\ n \in Int /\ (1 > n => n = 0)
        BY <1>1
  <2> HIDE DEF n
  <2>2. Cardinality(1..n) = IF 1 > n THEN 0 ELSE n - 1 + 1
        BY <2>1, FS_Interval
  <2> QED
      BY <2>1, <2>2
<1> QED
    BY <1>1, <1>3, <1>4, <1>5

(* What is left of a sequence without one of its elements.                 *)
LEMMA RemoveFirstIs ==
  ASSUME NEW S, NEW s \in Seq(S), Distinct(s), NEW p \in DOMAIN s
  PROVE  Seqs!RemoveFirst(s, s[p]) = [i \in 1..(Len(s) - 1) |-> IF i < p THEN s[i] ELSE s[i + 1]]
<1> DEFINE n == Len(s)
<1>1. n \in Nat /\ DOMAIN s = 1..n /\ p \in 1..n
      OBVIOUS
<1>2. {i \in 1..n : s[i] = s[p]} = {p}
      BY <1>1 DEF Distinct
<1>3. Seqs!SelectInSeq(s, LAMBDA v : v = s[p]) = p
      BY <1>2 DEF Seqs!SelectInSeq, Seqs!Min
<1>4. Seqs!RemoveFirst(s, s[p]) = Seqs!RemoveAt(s, p)
      BY <1>1, <1>3 DEF Seqs!RemoveFirst
<1>5. Seqs!RemoveAt(s, p) = SubSeq(s, 1, p - 1) \o SubSeq(s, p + 1, n)
      BY DEF Seqs!RemoveAt
<1> DEFINE a == SubSeq(s, 1, p - 1)
           b == SubSeq(s, p + 1, n)
           r == [i \in 1..(n - 1) |-> IF i < p THEN s[i] ELSE s[i + 1]]
<1>6. /\ a \in Seq(S) /\ Len(a) = p - 1 /\ \A i \in 1..(p - 1) : a[i] = s[i]
      /\ b \in Seq(S) /\ Len(b) = n - p /\ \A i \in 1..(n - p) : b[i] = s[p + i]
      BY <1>1, SMTT(30)
<1> HIDE DEF a, b, n
<1>7. /\ a \o b \in Seq(S) /\ Len(a \o b) = n - 1
      /\ \A i \in 1..(n - 1) : (a \o b)[i] = IF i <= p - 1 THEN a[i] ELSE b[i - (p - 1)]
  <2>1. /\ a \o b \in Seq(S) /\ Len(a \o b) = Len(a) + Len(b)
        /\ \A i \in 1..Len(a) + Len(b) : (a \o b)[i] = IF i <= Len(a) THEN a[i] ELSE b[i - Len(a)]
        BY <1>6, ConcatProperties, Zenon
  <2>2. p - 1 + (n - p) = n - 1
        BY <1>1
  <2>3. Len(a) = p - 1 /\ Len(a) + Len(b) = n - 1
        BY <1>6, <2>2
  <2> QED
      BY <2>1, <2>3, Zenon
<1>8. \A i \in 1..(n - 1) : (a \o b)[i] = r[i]
  <2> SUFFICES ASSUME NEW i \in 1..(n - 1) PROVE (a \o b)[i] = r[i]
      OBVIOUS
  <2>1. CASE i < p
    <3>1. i <= p - 1 /\ i \in 1..(p - 1)
          BY <1>1, <2>1
    <3> QED
        BY <1>6, <1>7, <2>1, <3>1
  <2>2. CASE ~(i < p)
    <3>1. ~(i <= p - 1) /\ i - (p - 1) \in 1..(n - p) /\ p + (i - (p - 1)) = i + 1
          BY <1>1, <2>2
    <3>2. b[i - (p - 1)] = s[i + 1]
          BY <1>6, <3>1
    <3> QED
        BY <1>7, <2>2, <3>1, <3>2
  <2> QED
      BY <2>1, <2>2
<1>9. a \o b = r
  <2>1. a \o b \in [1..(n - 1) -> S]
        BY <1>7, LenProperties
  <2>2. a \o b = [i \in 1..(n - 1) |-> (a \o b)[i]]
        BY <2>1
  <2> QED
      BY <1>8, <2>2
<1> QED
    BY <1>4, <1>5, <1>9 DEF a, b, n
-----------------------------------------------------------------------------
(* Walks along the skip pointers.                                          *)

(* The chain that number i is on ends with number e.                       *)
ChainEnd(Q, kind, i, e) ==
  /\ e \in i..Len(Q.seq) /\ Q.skip[Q.seq[e]] = Null
  /\ \A k \in i..(e - 1) : Q.skip[Q.seq[k]] # Null
  /\ \A k \in i..e : kind[Q.seq[k]] = kind[Q.seq[i]]

(* R is Q, and the chains are the same, with other pointers inside.        *)
SameChains(Q, R) ==
  /\ R.seq = Q.seq /\ R.may = Q.may /\ R.wake = Q.wake /\ R.failed = Q.failed
  /\ \A y \in Threads : R.skip[y] = Null <=> Q.skip[y] = Null

(* What the lemmas below use of a good queue.                              *)
LEMMA QueueTyped ==
  ASSUME NEW Q, NEW kind, Good(Q, kind)
  PROVE  /\ Q \in Queues /\ Len(Q.seq) \in Nat /\ DOMAIN Q.seq = 1..Len(Q.seq)
         /\ Null \notin Threads /\ Distinct(Q.seq)
         /\ \A i \in 1..Len(Q.seq) :
              /\ Q.seq[i] \in Threads /\ Q.skip[Q.seq[i]] \in Threads \cup {Null}
              /\ \A j \in 1..Len(Q.seq) : Q.seq[i] = Q.seq[j] => i = j
         /\ \A i \in 1..Len(Q.seq) :
              Q.skip[Q.seq[i]] # Null => \E j \in 1..Len(Q.seq) : Jump(Q, kind, i, j)
BY QueueAssumption DEF Good, Queues, Distinct

(* The skip pointers from any waiter lead to one that has none.            *)
LEMMA ChainEnds ==
  ASSUME NEW Q, NEW kind, Good(Q, kind), NEW i \in 1..Len(Q.seq)
  PROVE  \E e : ChainEnd(Q, kind, i, e)
<1> DEFINE n == Len(Q.seq)
           E == {k \in i..n : Q.skip[Q.seq[k]] = Null}
<1>1. n \in Nat /\ i \in 1..n
      BY QueueTyped
<1>2. n \in E
  <2> SUFFICES ASSUME Q.skip[Q.seq[n]] # Null PROVE FALSE
      BY <1>1
  <2>1. PICK j \in 1..n : Jump(Q, kind, n, j)
        BY <1>1, QueueTyped
  <2> QED
      BY <1>1, <2>1 DEF Jump
<1>3. PICK e \in E : \A k \in E : e <= k
  <2>1. E \subseteq Nat
        BY <1>1
  <2> HIDE DEF E
  <2> QED
      BY <1>2, <2>1, Least
<1>4. e \in i..n /\ \A k \in i..(e - 1) : Q.skip[Q.seq[k]] # Null
  <2> SUFFICES ASSUME NEW k \in i..(e - 1), Q.skip[Q.seq[k]] = Null PROVE FALSE
      OBVIOUS
  <2>1. k \in E /\ k < e
        BY <1>1
  <2> QED
      BY <1>1, <1>3, <2>1
<1>5. \A k \in i..(e - 1) : kind[Q.seq[k + 1]] = kind[Q.seq[k]]
  <2> SUFFICES ASSUME NEW k \in i..(e - 1) PROVE kind[Q.seq[k + 1]] = kind[Q.seq[k]]
      OBVIOUS
  <2>1. k \in 1..n
        BY <1>1, <1>4
  <2>2. PICK j \in 1..n : Jump(Q, kind, k, j)
        BY <1>4, <2>1, QueueTyped
  <2>3. k + 1 \in k..j
        BY <2>1, <2>2 DEF Jump
  <2> QED
      BY <2>2, <2>3 DEF Jump
<1> DEFINE Bad == {k \in i..e : kind[Q.seq[k]] # kind[Q.seq[i]]}
<1>6. Bad = {}
  <2> SUFFICES ASSUME Bad # {} PROVE FALSE
      OBVIOUS
  <2>1. PICK b \in Bad : \A k \in Bad : b <= k
    <3>1. Bad \subseteq Nat
          BY <1>1, <1>4
    <3> HIDE DEF Bad
    <3> QED
        BY <3>1, Least
  <2>2. b \in i..e /\ b # i
        OBVIOUS
  <2>3. b - 1 \in i..(e - 1) /\ b - 1 + 1 = b /\ b - 1 \in i..e /\ ~(b <= b - 1)
        BY <1>1, <1>4, <2>2
  <2>4. b - 1 \notin Bad
        BY <2>1, <2>3
  <2> QED
      BY <1>5, <2>3, <2>4
<1> QED
    BY <1>4, <1>6 DEF ChainEnd

(* Pointers that lead further on the same chain do no harm.                *)
LEMMA Relinked ==
  ASSUME NEW Q, NEW kind, Good(Q, kind), NEW i \in 1..Len(Q.seq), NEW e,
         ChainEnd(Q, kind, i, e), NEW g \in [Threads -> Threads \cup {Null}],
         \A y \in Threads :
           \/ g[y] = Q.skip[y]
           \/ \E a, b \in i..e : a < b /\ y = Q.seq[a] /\ g[y] = Q.seq[b]
  PROVE  LET R == [Q EXCEPT !.skip = g]
         IN  Good(R, kind) /\ SameChains(Q, R)
<1> DEFINE R == [Q EXCEPT !.skip = g]
           n == Len(Q.seq)
<1>1. /\ R.seq = Q.seq /\ R.may = Q.may /\ R.wake = Q.wake /\ R.failed = Q.failed
      /\ R.skip = g /\ R \in Queues
  <2>1. Q \in Queues
        BY DEF Good
  <2> QED
      BY <2>1 DEF Queues
<1> HIDE DEF R
<1>2. n \in Nat /\ i \in 1..n /\ e \in i..n
      BY QueueTyped DEF ChainEnd
<1>3. \A y \in Threads : g[y] = Null <=> Q.skip[y] = Null
  <2> SUFFICES ASSUME NEW y \in Threads, g[y] # Q.skip[y] PROVE g[y] # Null /\ Q.skip[y] # Null
      OBVIOUS
  <2>1. PICK a, b \in i..e : a < b /\ y = Q.seq[a] /\ g[y] = Q.seq[b]
        OBVIOUS
  <2>2. a \in i..(e - 1) /\ b \in 1..n
        BY <1>2, <2>1
  <2> QED
      BY <2>1, <2>2, QueueTyped DEF ChainEnd
<1>4. SameChains(Q, R)
      BY <1>1, <1>3 DEF SameChains
<1>5. ASSUME NEW k \in 1..n, R.skip[Q.seq[k]] # Null
      PROVE  \E j \in 1..n : Jump(R, kind, k, j)
  <2>1. CASE g[Q.seq[k]] = Q.skip[Q.seq[k]]
    <3>1. PICK j \in 1..n : Jump(Q, kind, k, j)
          BY <1>1, <1>5, <2>1, QueueTyped
    <3>2. \A m \in k..(j - 1) : Q.seq[m] \in Threads
          BY <1>2, QueueTyped
    <3>3. Jump(R, kind, k, j)
          BY <1>1, <1>3, <2>1, <3>1, <3>2 DEF Jump
    <3> QED
        BY <3>3
  <2>2. CASE g[Q.seq[k]] # Q.skip[Q.seq[k]]
    <3>1. PICK a, b \in i..e : a < b /\ Q.seq[k] = Q.seq[a] /\ g[Q.seq[k]] = Q.seq[b]
          BY <2>2, QueueTyped
    <3>2. a = k /\ b \in 1..n
      <4>1. a \in 1..n /\ b \in 1..n
            BY <1>2
      <4> QED
          BY <3>1, <4>1, QueueTyped
    <3>3. \A m \in k..(b - 1) : m \in i..(e - 1) /\ m \in 1..n
          BY <1>2, <3>1, <3>2
    <3>4. \A m \in k..(b - 1) : R.skip[Q.seq[m]] # Null
          BY <1>1, <1>3, <3>3, QueueTyped DEF ChainEnd
    <3>5. \A m \in k..b : m \in i..e /\ k \in i..e
          BY <1>2, <3>1, <3>2
    <3>6. \A m \in k..b : kind[Q.seq[m]] = kind[Q.seq[k]]
          BY <3>5 DEF ChainEnd
    <3>7. Jump(R, kind, k, b)
          BY <1>1, <3>1, <3>2, <3>4, <3>6 DEF Jump
    <3> QED
        BY <3>2, <3>7
  <2> QED
      BY <2>1, <2>2
<1>6. Good(R, kind)
      BY <1>1, <1>5, QueueTyped DEF Good
<1> QED
    BY <1>4, <1>6 DEF R

(* Skip goes to the end of the chain.                                      *)
LEMMA SkipKeeps ==
  ASSUME NEW Q, NEW kind, Good(Q, kind), NEW i \in 1..Len(Q.seq), NEW e,
         ChainEnd(Q, kind, i, e)
  PROVE  LET sk == Skip(Q, Q.seq[i])
         IN  /\ sk.end = Q.seq[e] /\ Good(sk.queue, kind) /\ SameChains(Q, sk.queue)
             /\ \A y \in Threads : sk.queue.skip[y] = Q.skip[y] \/ \E a \in i..e : y = Q.seq[a]
<1> DEFINE n == Len(Q.seq)
           x == Q.seq[i]
           C == Cardinality(Threads)
           chain == CHOOSE f : f = [m \in 0..C |->
                      IF m = 0 THEN x ELSE IF f[m - 1] = Null THEN Null ELSE Q.skip[f[m - 1]]]
           last == CHOOSE m \in 0..C : chain[m] # Null /\ \A j \in (m + 1)..C : chain[j] = Null
           Shorten(t) == IF t = x /\ last > 0 THEN chain[last]
                         ELSE IF \E m \in 1..last : m + 2 <= last /\ chain[m] = t
                              THEN chain[2 + CHOOSE m \in 1..last : chain[m] = t]
                              ELSE Q.skip[t]
           g == [t \in Threads |-> Shorten(t)]
<1>1. Skip(Q, x) = [end |-> chain[last], queue |-> [Q EXCEPT !.skip = g]]
      BY DEF Skip
<1>2. /\ n \in Nat /\ C \in Nat /\ n <= C /\ i \in 1..n /\ e \in i..n
      /\ x \in Threads /\ Null \notin Threads
      BY QueueTyped, ShortQueue DEF ChainEnd
<1>3. Q.skip \in [Threads -> Threads \cup {Null}]
      BY QueueTyped DEF Queues
<1>4. \A m \in 0..C : chain[m] = IF m = 0 THEN x ELSE IF chain[m - 1] = Null THEN Null
                                                     ELSE Q.skip[chain[m - 1]]
  <2> DEFINE V == Threads \cup {Null}
             step == [m \in 1..C |-> [v \in V |-> IF v = Null THEN Null ELSE Q.skip[v]]]
  <2>1. step \in [1..C -> [V -> V]] /\ x \in V
        BY <1>2, <1>3
  <2>2. PICK f : Iterates(f, C, V, x, step)
    <3> HIDE DEF V, step
    <3> QED
        BY <1>2, <2>1, Recursion
  <2>3. f \in [0..C -> V] /\ \A m \in 0..C : f[m] = IF m = 0 THEN x ELSE step[m][f[m - 1]]
        BY <2>2 DEF Iterates
  <2>4. \A m \in 0..C : f[m] = IF m = 0 THEN x ELSE IF f[m - 1] = Null THEN Null
                                                ELSE Q.skip[f[m - 1]]
    <3>0. \A m \in 0..C : m = 0 \/ m \in 1..C
          BY <1>2
    <3>1. f[0] = x
      <4>1. 0 \in 0..C
            BY <1>2
      <4> HIDE DEF step, V
      <4> QED
          BY <2>3, <4>1
    <3> HIDE DEF step, V
    <3> SUFFICES ASSUME NEW m \in 1..C PROVE f[m] = IF f[m - 1] = Null THEN Null
                                                   ELSE Q.skip[f[m - 1]]
        BY <3>0, <3>1
    <3> USE DEF step, V
    <3>2. m - 1 \in 0..C /\ m \in 0..C /\ m # 0
          BY <1>2
    <3>3. f[m - 1] \in V
          BY <2>3, <3>2
    <3> QED
        BY <2>3, <3>2, <3>3
  <2>5. f = [m \in 0..C |-> IF m = 0 THEN x ELSE IF f[m - 1] = Null THEN Null ELSE Q.skip[f[m - 1]]]
    <3>1. f = [m \in 0..C |-> f[m]]
          BY <2>3, SMTT(30)
    <3> QED
        BY <2>4, <3>1, SMTT(30)
  <2>6. chain = [m \in 0..C |-> IF m = 0 THEN x ELSE IF chain[m - 1] = Null THEN Null
                                               ELSE Q.skip[chain[m - 1]]]
        BY <2>5
  <2> HIDE DEF chain
  <2> QED
      BY <2>6
<1> HIDE DEF chain
\* The threads on the chain, one behind the other.
<1> DEFINE At(m, p) == /\ chain[m] = Q.seq[p]
                       /\ \A a \in 0..(m - 1) : \E q \in i..(p - 1) : chain[a] = Q.seq[q]
           T == {m \in 0..C : chain[m] = Null \/ \E p \in (i + m)..e : At(m, p)}
<1>5. \A m \in 0..C : m \in T
  <2>1. 0 \in T
    <3>1. chain[0] = x /\ i \in (i + 0)..e /\ 0 \in 0..C /\ 0..(0 - 1) = {}
          BY <1>2, <1>4
    <3>2. At(0, i)
          BY <3>1
    <3> QED
        BY <3>1, <3>2
  <2>2. ASSUME NEW m \in 1..C, m - 1 \in T PROVE m \in T
    <3>1. m \in 0..C /\ chain[m] = IF chain[m - 1] = Null THEN Null ELSE Q.skip[chain[m - 1]]
          BY <1>2, <1>4
    <3>2. CASE chain[m] = Null
          BY <3>1, <3>2
    <3>3. CASE chain[m] # Null
      <4>1. chain[m - 1] # Null /\ chain[m] = Q.skip[chain[m - 1]]
            BY <3>1, <3>3
      <4>2. PICK p \in (i + (m - 1))..e : At(m - 1, p)
            BY <2>2, <4>1
      <4>3. p \in 1..n /\ Q.skip[Q.seq[p]] # Null /\ chain[m] = Q.skip[Q.seq[p]]
            BY <1>2, <3>3, <4>1, <4>2
      <4>4. PICK j \in 1..n : Jump(Q, kind, p, j)
            BY <4>3, QueueTyped
      <4>5. j <= e
        <5>1. Q.skip[Q.seq[e]] = Null
              BY DEF ChainEnd
        <5> QED
            BY <1>2, <4>2, <4>4, <5>1 DEF Jump
      <4>6. j \in (i + m)..e /\ p \in i..(j - 1)
            BY <1>2, <4>2, <4>4, <4>5 DEF Jump
      <4>7. ASSUME NEW a \in 0..(m - 1) PROVE \E q \in i..(j - 1) : chain[a] = Q.seq[q]
        <5>1. CASE a = m - 1
              BY <4>2, <4>6, <5>1
        <5>2. CASE a # m - 1
          <6>1. a \in 0..(m - 1 - 1)
                BY <5>2
          <6>2. PICK q \in i..(p - 1) : chain[a] = Q.seq[q]
                BY <4>2, <6>1
          <6>3. q \in i..(j - 1)
                BY <1>2, <4>6
          <6> QED
              BY <6>2, <6>3
        <5> QED
            BY <5>1, <5>2
      <4>8. chain[m] = Q.seq[j]
            BY <4>3, <4>4 DEF Jump
      <4>9. At(m, j)
            BY <4>7, <4>8
      <4> QED
          BY <3>1, <4>6, <4>9
    <3> QED
        BY <3>2, <3>3
  <2> HIDE DEF T
  <2> QED
      BY <1>2, <2>1, <2>2, Induction
<1> HIDE DEF At, T
<1>6. last \in 0..C /\ chain[last] # Null /\ \A j \in (last + 1)..C : chain[j] = Null
  <2> DEFINE M == {m \in 0..C : chain[m] # Null}
  <2>1. 0 \in M /\ M \subseteq Nat /\ \A m \in M : m <= C
        BY <1>2, <1>4
  <2>2. PICK l \in M : \A m \in M : m <= l
    <3> HIDE DEF M
    <3> QED
        BY <1>2, <2>1, Greatest
  <2>3. l \in 0..C /\ chain[l] # Null /\ \A j \in (l + 1)..C : chain[j] = Null
    <3> SUFFICES ASSUME NEW j \in (l + 1)..C, chain[j] # Null PROVE FALSE
        BY <2>2
    <3>1. j \in M /\ ~(j <= l)
          BY <2>2
    <3> QED
        BY <2>2, <3>1
  <2> QED
      BY <2>3
<1> HIDE DEF last
<1>7. ASSUME NEW m \in 0..C, chain[m] # Null
      PROVE  \E p \in (i + m)..e : At(m, p)
      BY <1>5, <1>7 DEF T
<1>8. At(last, e)
  <2>1. PICK p \in (i + last)..e : At(last, p)
        BY <1>6, <1>7
  <2>2. CASE p = e
        BY <2>1, <2>2
  <2>3. CASE p # e
    <3>1. p \in i..(e - 1) /\ p \in 1..n /\ last + 1 \in (last + 1)..C /\ last + 1 \in 0..C
          BY <1>2, <1>6, <2>1, <2>3
    <3>2. Q.skip[Q.seq[p]] # Null
          BY <3>1 DEF ChainEnd
    <3>3. chain[last + 1] = Q.skip[chain[last]]
      <4>1. last + 1 # 0 /\ last + 1 - 1 = last
            BY <1>6
      <4> QED
          BY <1>4, <1>6, <3>1, <4>1
    <3> QED
        BY <1>6, <2>1, <3>1, <3>2, <3>3 DEF At
  <2> QED
      BY <2>2, <2>3
<1>9. \A a \in 0..last : chain[a] # Null /\ \E p \in i..e : At(a, p)
  <2> SUFFICES ASSUME NEW a \in 0..last PROVE chain[a] # Null /\ \E p \in i..e : At(a, p)
      OBVIOUS
  <2>1. chain[a] # Null
    <3>1. CASE a = last
          BY <1>6, <3>1
    <3>2. CASE a # last
      <4>1. a \in 0..(last - 1)
            BY <1>6, <3>2
      <4>2. PICK q \in i..(e - 1) : chain[a] = Q.seq[q]
            BY <1>8, <4>1 DEF At
      <4>3. q \in 1..n
            BY <1>2
      <4> QED
          BY <4>2, <4>3, QueueTyped
    <3> QED
        BY <3>1, <3>2
  <2>2. a \in 0..C
        BY <1>2, <1>6
  <2>3. PICK p \in (i + a)..e : At(a, p)
        BY <1>7, <2>1, <2>2
  <2>4. p \in i..e
        BY <1>2
  <2> QED
      BY <2>1, <2>3, <2>4
\* No thread is on it twice, and those later on it are later in the queue.
<1>10. ASSUME NEW a \in 0..last, NEW b \in 0..last, a < b
       PROVE  \E p, q \in i..e :
                p < q /\ chain[a] = Q.seq[p] /\ chain[b] = Q.seq[q] /\ chain[a] # chain[b]
  <2>1. PICK q \in i..e : At(b, q)
        BY <1>9
  <2>2. a \in 0..(b - 1)
        BY <1>6, <1>10
  <2>3. PICK p \in i..(q - 1) : chain[a] = Q.seq[p]
        BY <2>1, <2>2 DEF At
  <2>4. p \in i..e /\ p < q /\ p \in 1..n /\ q \in 1..n
        BY <1>2, <2>1
  <2>5. chain[b] = Q.seq[q]
        BY <2>1 DEF At
  <2>6. chain[a] # chain[b]
        BY <2>3, <2>4, <2>5, QueueTyped
  <2> QED
      BY <2>3, <2>4, <2>5, <2>6
<1>11. ASSUME NEW y \in Threads
       PROVE  \/ g[y] = Q.skip[y]
              \/ \E a, b \in i..e : a < b /\ y = Q.seq[a] /\ g[y] = Q.seq[b]
  <2>1. CASE y = x /\ last > 0
    <3>1. chain[0] = x /\ 0 \in 0..last /\ last \in 0..last /\ 0 < last
          BY <1>2, <1>4, <1>6, <2>1
    <3>2. g[y] = chain[last]
          BY <2>1
    <3> HIDE DEF g
    <3> QED
        BY <1>10, <2>1, <3>1, <3>2
  <2>2. CASE ~(y = x /\ last > 0) /\ \E m \in 1..last : m + 2 <= last /\ chain[m] = y
    <3> DEFINE c == CHOOSE m \in 1..last : chain[m] = y
    <3>1. PICK m \in 1..last : m + 2 <= last /\ chain[m] = y
          BY <2>2
    <3>2. c \in 1..last /\ chain[c] = y
          BY <3>1
    <3>3. g[y] = chain[2 + c]
          BY <2>2
    <3> HIDE DEF c, g
    <3>4. m \in 0..last /\ c \in 0..last
          BY <1>6, <3>2
    <3>5. c = m
          BY <1>10, <3>1, <3>2, <3>4
    <3>6. 2 + c \in 0..last /\ c < 2 + c
          BY <1>6, <3>1, <3>4, <3>5
    <3> QED
        BY <1>10, <3>2, <3>3, <3>4, <3>6, SMTT(30)
  <2>3. CASE ~(y = x /\ last > 0) /\ ~\E m \in 1..last : m + 2 <= last /\ chain[m] = y
        BY <2>3
  <2> QED
      BY <2>1, <2>2, <2>3
<1>12. g \in [Threads -> Threads \cup {Null}]
  <2>1. ASSUME NEW y \in Threads PROVE Shorten(y) \in Threads \cup {Null}
    <3>1. g[y] = Shorten(y)
          OBVIOUS
    <3> HIDE DEF g
    <3>2. \A b \in i..e : Q.seq[b] \in Threads
          BY <1>2, QueueTyped
    <3> QED
        BY <1>3, <1>11, <3>1, <3>2
  <2> HIDE DEF Shorten
  <2> QED
      BY <2>1
<1>13. chain[last] = Q.seq[e]
       BY <1>8 DEF At
<1> HIDE DEF g
<1>15. \A y \in Threads : [Q EXCEPT !.skip = g].skip[y] = Q.skip[y] \/ \E a \in i..e : y = Q.seq[a]
  <2>1. [Q EXCEPT !.skip = g].skip = g
        BY QueueTyped DEF Queues
  <2> QED
      BY <1>11, <2>1
<1>14. LET R == [Q EXCEPT !.skip = g] IN Good(R, kind) /\ SameChains(Q, R)
       BY <1>11, <1>12, Relinked
<1> DEFINE R == [Q EXCEPT !.skip = g]
<1>16. Skip(Q, Q.seq[i]).end = Q.seq[e] /\ Skip(Q, Q.seq[i]).queue = R
       BY <1>1, <1>13
<1> HIDE DEF R
<1>17. /\ Good(R, kind) /\ SameChains(Q, R)
       /\ \A y \in Threads : R.skip[y] = Q.skip[y] \/ \E a \in i..e : y = Q.seq[a]
       BY <1>14, <1>15 DEF R
<1> QED
    BY <1>16, <1>17
-----------------------------------------------------------------------------
(* Enqueue.                                                                *)

(* R's sequence is Q's with s behind number at.                            *)
Inserted(Q, R, s, at) ==
  /\ Len(R.seq) = Len(Q.seq) + 1 /\ R.seq[at + 1] = s
  /\ \A k \in 1..at : R.seq[k] = Q.seq[k]
  /\ \A k \in (at + 1)..Len(Q.seq) : R.seq[k + 1] = Q.seq[k]

(* A waiter may be put behind number at, if no jump passes over it, and    *)
(* may take over a jump of its neighbours of the same kind.                *)
LEMMA InsertKeeps ==
  ASSUME NEW Q, NEW kind, Good(Q, kind), NEW s \in Threads \ Waiting(Q), NEW at \in 0..Len(Q.seq),
         NEW R, R \in Queues, Inserted(Q, R, s, at),
         \A y \in Threads \ {s} :
           \/ R.skip[y] = Q.skip[y]
           \/ at >= 1 /\ y = Q.seq[at] /\ R.skip[y] = s /\ kind[y] = kind[s],
         R.skip[s] # Null =>
           at < Len(Q.seq) /\ R.skip[s] = Q.seq[at + 1] /\ kind[s] = kind[Q.seq[at + 1]],
         at >= 1 /\ Q.skip[Q.seq[at]] # Null => kind[s] = kind[Q.seq[at]] /\ R.skip[s] # Null
  PROVE  Good(R, kind) /\ Waiting(R) = Waiting(Q) \cup {s}
<1> DEFINE n == Len(Q.seq)
<1>1. /\ n \in Nat /\ at \in 0..n /\ Len(R.seq) = n + 1 /\ DOMAIN R.seq = 1..(n + 1)
      /\ s \in Threads /\ Null \notin Threads
      /\ R.seq[at + 1] = s /\ \A k \in 1..at : R.seq[k] = Q.seq[k]
      /\ \A k \in (at + 1)..n : R.seq[k + 1] = Q.seq[k]
      BY QueueTyped DEF Inserted, Queues
<1>t. /\ at \in Nat /\ at <= n /\ \A k \in 1..n : \A m \in 1..n : Q.seq[k] = Q.seq[m] => k = m
      /\ \A k \in 1..n : Q.skip[Q.seq[k]] # Null => \E j \in 1..n : Jump(Q, kind, k, j)
      BY <1>1, QueueTyped
<1>3. \A k \in 1..n : Q.seq[k] \in Threads \ {s} /\ Q.seq[k] # s
      BY QueueTyped DEF Waiting
<1> HIDE DEF n
\* Number k of R is s or a number of Q.
<1>2. \A k \in 1..(n + 1) :
        \/ k = at + 1 /\ R.seq[k] = s
        \/ k <= at /\ k \in 1..n /\ R.seq[k] = Q.seq[k]
        \/ k > at + 1 /\ k - 1 \in 1..n /\ R.seq[k] = Q.seq[k - 1]
  <2> SUFFICES ASSUME NEW k \in 1..(n + 1), k # at + 1
               PROVE  \/ k <= at /\ k \in 1..n /\ R.seq[k] = Q.seq[k]
                      \/ k > at + 1 /\ k - 1 \in 1..n /\ R.seq[k] = Q.seq[k - 1]
      BY <1>1
  <2>1. CASE k <= at
    <3>1. k \in 1..at /\ k \in 1..n
          BY <1>1, <1>t, <2>1
    <3> QED
        BY <1>1, <2>1, <3>1
  <2>2. CASE k > at + 1
    <3>1. k - 1 \in (at + 1)..n /\ k - 1 \in 1..n /\ (k - 1) + 1 = k
          BY <1>1, <1>t, <2>2
    <3>2. R.seq[(k - 1) + 1] = Q.seq[k - 1]
          BY <1>1, <3>1
    <3> QED
        BY <2>2, <3>1, <3>2
  <2> QED
      BY <1>1, <1>t, <2>1, <2>2
<1>4. Distinct(R.seq)
  <2> SUFFICES ASSUME NEW k \in 1..(n + 1), NEW m \in 1..(n + 1), R.seq[k] = R.seq[m] PROVE k = m
      BY <1>1 DEF Distinct
  <2>1. CASE k = at + 1
    <3>1. ~(m <= at /\ m \in 1..n /\ R.seq[m] = Q.seq[m])
          BY <1>1, <1>3, <2>1
    <3>2. ~(m > at + 1 /\ m - 1 \in 1..n /\ R.seq[m] = Q.seq[m - 1])
          BY <1>1, <1>3, <2>1
    <3> QED
        BY <1>2, <2>1, <3>1, <3>2
  <2>2. CASE k <= at /\ k \in 1..n /\ R.seq[k] = Q.seq[k]
    <3>1. ~(m = at + 1 /\ R.seq[m] = s)
      <4>1. Q.seq[k] # s
            BY <1>3, <2>2
      <4> QED
          BY <2>2, <4>1, Zenon
    <3>2. CASE m <= at /\ m \in 1..n /\ R.seq[m] = Q.seq[m]
          BY <1>t, <2>2, <3>2
    <3>3. CASE m > at + 1 /\ m - 1 \in 1..n /\ R.seq[m] = Q.seq[m - 1]
      <4>1. k = m - 1
            BY <1>t, <2>2, <3>3
      <4> QED
          BY <1>t, <2>2, <3>3, <4>1
    <3> QED
        BY <1>2, <3>1, <3>2, <3>3
  <2>3. CASE k > at + 1 /\ k - 1 \in 1..n /\ R.seq[k] = Q.seq[k - 1]
    <3>1. ~(m = at + 1 /\ R.seq[m] = s)
      <4>1. Q.seq[k - 1] # s
            BY <1>3, <2>3
      <4> QED
          BY <2>3, <4>1, Zenon
    <3>2. CASE m <= at /\ m \in 1..n /\ R.seq[m] = Q.seq[m]
      <4>1. m = k - 1
            BY <1>t, <2>3, <3>2
      <4> QED
          BY <1>t, <2>3, <3>2, <4>1
    <3>3. CASE m > at + 1 /\ m - 1 \in 1..n /\ R.seq[m] = Q.seq[m - 1]
      <4>1. m - 1 = k - 1
            BY <1>t, <2>3, <3>3
      <4> QED
          BY <4>1
    <3> QED
        BY <1>2, <3>1, <3>2, <3>3
  <2> QED
      BY <1>2, <2>1, <2>2, <2>3
<1>5. \A k \in 1..n : Q.skip[Q.seq[k]] # Null => R.skip[Q.seq[k]] # Null
      BY <1>1, <1>3, ZenonT(30)
<1>6. ASSUME NEW a \in 1..(n + 1), R.skip[R.seq[a]] # Null
      PROVE  \E j \in 1..(n + 1) : Jump(R, kind, a, j)
  <2>1. CASE a = at + 1
    <3>1. /\ at + 1 \in (at + 1)..n /\ at + 2 \in 1..(n + 1) /\ at + 1 < at + 2
          /\ at + 1 + 1 = at + 2
          /\ (at + 1)..(at + 2) = {at + 1, at + 2} /\ (at + 1)..(at + 2 - 1) = {at + 1}
      <4>1. at + 1 <= n
            BY <1>1, <1>t, <1>6, <2>1 DEF n
      <4>2. /\ at + 1 \in (at + 1)..n /\ at + 2 \in 1..(n + 1) /\ at + 1 < at + 2
            /\ at + 1 + 1 = at + 2
            BY <1>1, <4>1
      <4>3. (at + 1)..(at + 2) = {at + 1, at + 2} /\ (at + 1)..(at + 2 - 1) = {at + 1}
            BY <1>1
      <4> QED
          BY <4>2, <4>3
    <3>2. R.seq[at + 2] = Q.seq[at + 1]
          BY <1>1, <3>1
    <3>3. R.skip[s] = R.seq[at + 2] /\ kind[s] = kind[R.seq[at + 2]]
          BY <1>1, <1>6, <2>1, <3>2 DEF n
    <3>4. Jump(R, kind, a, at + 2)
          BY <1>1, <1>6, <2>1, <3>1, <3>3, SMTT(30) DEF Jump
    <3> QED
        BY <3>1, <3>4
  <2>2. CASE a # at + 1
    <3> DEFINE a0 == IF a <= at THEN a ELSE a - 1
    <3>1. /\ a0 \in 1..n /\ R.seq[a] = Q.seq[a0]
          /\ a0 = IF a <= at THEN a ELSE a - 1
          BY <1>1, <1>t, <1>2, <2>2
    <3> HIDE DEF a0
    <3>2. CASE R.skip[R.seq[a]] # Q.skip[R.seq[a]]
      <4>1. /\ at >= 1 /\ R.seq[a] = Q.seq[at] /\ R.skip[R.seq[a]] = s /\ kind[R.seq[a]] = kind[s]
            BY <1>3, <3>1, <3>2
      <4>2. a0 = at
        <5>1. at \in 1..n
              BY <1>1, <1>t, <4>1
        <5> QED
            BY <1>t, <3>1, <4>1, <5>1
      <4>3. a = at
            BY <1>1, <1>t, <2>2, <3>1, <4>2
      <4>4. /\ a..(at + 1) = {a, at + 1} /\ a..(at + 1 - 1) = {a} /\ a < at + 1
            /\ at + 1 \in 1..(n + 1)
            BY <1>1, <1>t, <4>3
      <4>5. Jump(R, kind, a, at + 1)
            BY <1>1, <1>6, <4>1, <4>3, <4>4, SMTT(30) DEF Jump
      <4> QED
          BY <4>4, <4>5
    <3>3. CASE R.skip[R.seq[a]] = Q.skip[R.seq[a]]
      <4>1. PICK j0 \in 1..n : Jump(Q, kind, a0, j0)
            BY <1>t, <1>6, <3>1, <3>3
      <4> DEFINE j == IF j0 <= at THEN j0 ELSE j0 + 1
      <4>2. a0 < j0 /\ j \in 1..(n + 1) /\ a < j
            BY <1>1, <1>t, <2>2, <3>1, <4>1 DEF Jump
      <4>j. j = IF j0 <= at THEN j0 ELSE j0 + 1
            OBVIOUS
      <4> HIDE DEF j
      <4>3. R.seq[j] = Q.seq[j0]
        <5>1. CASE j0 <= at
          <6>1. j0 \in 1..at /\ j = j0
                BY <1>1, <1>t, <4>j, <5>1
          <6> QED
              BY <1>1, <6>1
        <5>2. CASE ~(j0 <= at)
          <6>1. j0 \in (at + 1)..n /\ j = j0 + 1
                BY <1>1, <1>t, <4>j, <5>2
          <6> QED
              BY <1>1, <6>1
        <5> QED
            BY <5>1, <5>2
      <4>4. ASSUME NEW k \in a..j
            PROVE  kind[R.seq[k]] = kind[R.seq[a]] /\ (k # j => R.skip[R.seq[k]] # Null)
        <5>1. CASE k # at + 1
          <6> DEFINE k0 == IF k <= at THEN k ELSE k - 1
          <6>1. k0 \in a0..j0 /\ (k # j => k0 \in a0..(j0 - 1)) /\ k0 \in 1..n
                BY <1>1, <1>t, <2>2, <3>1, <4>2, <4>j, <5>1
          <6>k. k \in 1..(n + 1) /\ k0 = IF k <= at THEN k ELSE k - 1
                BY <1>1, <1>t, <2>2, <4>2
          <6> HIDE DEF k0
          <6>2. R.seq[k] = Q.seq[k0]
            <7>1. CASE k <= at
                  BY <1>t, <1>2, <5>1, <6>k, <7>1
            <7>2. CASE ~(k <= at)
                  BY <1>t, <1>2, <5>1, <6>k, <7>2
            <7> QED
                BY <7>1, <7>2
          <6> QED
              BY <1>5, <3>1, <4>1, <6>1, <6>2 DEF Jump
        <5>2. CASE k = at + 1
          <6>1. at \in a0..(j0 - 1) /\ at \in a0..j0 /\ at >= 1
                BY <1>1, <1>t, <2>2, <3>1, <4>2, <4>j, <5>2
          <6>2. Q.skip[Q.seq[at]] # Null /\ kind[Q.seq[at]] = kind[Q.seq[a0]]
                BY <4>1, <6>1 DEF Jump
          <6> QED
              BY <1>1, <3>1, <5>2, <6>1, <6>2
        <5> QED
            BY <5>1, <5>2
      <4>5. R.skip[R.seq[a]] = R.seq[j]
            BY <3>1, <3>3, <4>1, <4>3 DEF Jump
      <4>6. \A k \in a..(j - 1) : k \in a..j /\ k # j
            BY <4>2
      <4>7. Jump(R, kind, a, j)
            BY <4>2, <4>4, <4>5, <4>6 DEF Jump
      <4> QED
          BY <4>2, <4>7
    <3> QED
        BY <3>2, <3>3
  <2> QED
      BY <2>1, <2>2
<1>7. Good(R, kind)
      BY <1>1, <1>4, <1>6 DEF Good
<1>8. Waiting(R) = Waiting(Q) \cup {s}
  <2>1. Waiting(R) = {R.seq[k] : k \in 1..(n + 1)} /\ Waiting(Q) = {Q.seq[k] : k \in 1..n}
        BY <1>1, QueueTyped DEF Waiting, n
  <2>2. \A k \in 1..(n + 1) : R.seq[k] \in Waiting(Q) \cup {s}
        BY <1>2, <2>1
  <2>3. \A k \in 1..n : Q.seq[k] \in Waiting(R)
    <3> SUFFICES ASSUME NEW k \in 1..n PROVE Q.seq[k] \in Waiting(R)
        OBVIOUS
    <3>1. CASE k \in 1..at
          BY <1>1, <2>1, <3>1
    <3>2. CASE k \notin 1..at
      <4>1. k \in (at + 1)..n /\ k + 1 \in 1..(n + 1)
            BY <1>1, <3>2
      <4> QED
          BY <1>1, <2>1, <4>1, ZenonT(30)
    <3> QED
        BY <3>1, <3>2
  <2>4. at + 1 \in 1..(n + 1)
        BY <1>1
  <2>5. s \in Waiting(R)
        BY <1>1, <2>1, <2>4
  <2> QED
      BY <2>1, <2>2, <2>3, <2>5, SMTT(30)
<1> QED
    BY <1>7, <1>8

(* The kinds of the waiters are all that counts.                           *)
LEMMA SameKinds ==
  ASSUME NEW Q, NEW kind, NEW kind2, Good(Q, kind), \A x \in Waiting(Q) : kind2[x] = kind[x]
  PROVE  Good(Q, kind2)
<1>1. \A k \in DOMAIN Q.seq : kind2[Q.seq[k]] = kind[Q.seq[k]]
      BY DEF Waiting
<1>2. ASSUME NEW i \in DOMAIN Q.seq, Q.skip[Q.seq[i]] # Null
      PROVE  \E j \in DOMAIN Q.seq : Jump(Q, kind2, i, j)
  <2>1. PICK j \in DOMAIN Q.seq : Jump(Q, kind, i, j)
        BY <1>2 DEF Good
  <2>2. \A k \in i..j : k \in DOMAIN Q.seq
        BY QueueTyped
  <2>3. Jump(Q, kind2, i, j)
        BY <1>1, <2>1, <2>2 DEF Jump
  <2> QED
      BY <2>3
<1> QED
    BY <1>2 DEF Good

(* The last waiter ends its chain, and waiters whose skip pointer is not   *)
(* null are followed by one of their kind.                                 *)
LEMMA ChainsEnd ==
  ASSUME NEW Q, NEW kind, Good(Q, kind), NEW i \in 1..Len(Q.seq), Q.skip[Q.seq[i]] # Null
  PROVE  /\ i < Len(Q.seq) /\ i + 1 \in 1..Len(Q.seq) /\ kind[Q.seq[i + 1]] = kind[Q.seq[i]]
         /\ Q.seq[i] # HeadOf(Q)
<1>1. PICK j \in 1..Len(Q.seq) : Jump(Q, kind, i, j)
      BY QueueTyped
<1>2. Len(Q.seq) \in Nat /\ i < j /\ i + 1 \in i..j /\ i + 1 \in 1..Len(Q.seq) /\ i < Len(Q.seq)
      BY <1>1, QueueTyped DEF Jump
<1>3. kind[Q.seq[i + 1]] = kind[Q.seq[i]]
      BY <1>1, <1>2 DEF Jump
<1>4. Q.seq[i] # HeadOf(Q)
      BY <1>2, QueueTyped, NextIs
<1> QED
    BY <1>2, <1>3, <1>4

(* The skip pointer of a thread that does not wait says nothing.           *)
LEMMA OthersSkip ==
  ASSUME NEW Q, NEW kind, Good(Q, kind), NEW R, R \in Queues, R.seq = Q.seq,
         \A x \in Waiting(Q) : R.skip[x] = Q.skip[x]
  PROVE  Good(R, kind)
<1>1. \A k \in DOMAIN Q.seq : R.skip[Q.seq[k]] = Q.skip[Q.seq[k]]
      BY DEF Waiting
<1>2. ASSUME NEW i \in DOMAIN Q.seq, R.skip[Q.seq[i]] # Null
      PROVE  \E j \in DOMAIN Q.seq : Jump(R, kind, i, j)
  <2>1. PICK j \in DOMAIN Q.seq : Jump(Q, kind, i, j)
        BY <1>1, <1>2 DEF Good
  <2>2. \A k \in i..j : k \in DOMAIN Q.seq
        BY QueueTyped
  <2>3. \A k \in i..(j - 1) : k \in i..j
        BY QueueTyped
  <2>4. Jump(R, kind, i, j)
        BY <1>1, <2>1, <2>2, <2>3 DEF Jump
  <2> QED
      BY <2>4
<1> QED
    BY <1>2 DEF Good

(* Putting a waiter at the end keeps the queue good: the old head, if it   *)
(* may, skips to it.                                                       *)
LEMMA AppendKeeps ==
  ASSUME NEW Q, NEW kind, Good(Q, kind), Q.seq # <<>>, NEW s \in Threads \ Waiting(Q),
         Q.skip[s] = Null
  PROVE  LET R == AppendWaiter(Q, s, kind) IN
         /\ Good(R, kind) /\ Waiting(R) = Waiting(Q) \cup {s}
         /\ R.failed = Q.failed /\ R.may = Q.may /\ R.wake = Q.wake
         /\ Inserted(Q, R, s, Len(Q.seq))
         /\ \A y \in Threads : R.skip[y] = Q.skip[y] \/ (y = HeadOf(Q) /\ y \in Q.may)
<1> DEFINE n == Len(Q.seq)
           R == AppendWaiter(Q, s, kind)
           head == HeadOf(Q)
<1>1. /\ n \in Nat /\ n > 0 /\ head = Q.seq[n] /\ Q \in Queues /\ head \in Threads /\ head # s
      /\ n \in 1..n
      BY HeadIs, QueueTyped
<1>2. Q.skip[head] = Null
      BY <1>1, ChainsEnd
<1> DEFINE Q1 == [Q EXCEPT !.seq = Append(@, s)]
<1>a. /\ Q1.seq = Append(Q.seq, s) /\ Q1.may = Q.may /\ Q1.wake = Q.wake /\ Q1.failed = Q.failed
      /\ Q1.skip = Q.skip /\ Q1 \in Queues
  <2>1. Q.seq \in Seq(Threads) /\ s \in Threads
        BY <1>1 DEF Queues
  <2>2. Append(Q.seq, s) \in Seq(Threads)
        BY <2>1
  <2> QED
      BY <1>1, <2>2 DEF Queues
<1>b. R = IF head \in Q.may /\ kind[head] = kind[s] THEN [Q1 EXCEPT !.skip[head] = s] ELSE Q1
      BY DEF AppendWaiter, MuSameCondition
<1> HIDE DEF Q1, R
<1>3. /\ R.seq = Append(Q.seq, s) /\ R.may = Q.may /\ R.wake = Q.wake /\ R.failed = Q.failed
      /\ R \in Queues
      /\ \A y \in Threads :
           \/ R.skip[y] = Q.skip[y]
           \/ y = head /\ R.skip[y] = s /\ y \in Q.may /\ kind[y] = kind[s]
      BY <1>1, <1>a, <1>b DEF Queues
<1>4. Inserted(Q, R, s, n)
  <2>1. /\ Len(R.seq) = n + 1 /\ R.seq[n + 1] = s /\ \A k \in 1..n : R.seq[k] = Q.seq[k]
        /\ (n + 1)..n = {}
        BY <1>1, <1>3 DEF Queues
  <2> QED
      BY <2>1, Zenon DEF Inserted
<1>5. \A y \in Threads \ {s} :
        \/ R.skip[y] = Q.skip[y]
        \/ n >= 1 /\ y = Q.seq[n] /\ R.skip[y] = s /\ kind[y] = kind[s]
      BY <1>1, <1>3
<1>6. R.skip[s] = Null
      BY <1>1, <1>3
<1>7. Q.skip[Q.seq[n]] = Null /\ n \in 0..n
      BY <1>1, <1>2
<1>8. Good(R, kind) /\ Waiting(R) = Waiting(Q) \cup {s}
      BY <1>3, <1>4, <1>5, <1>6, <1>7, InsertKeeps
<1>9. \A y \in Threads : R.skip[y] = Q.skip[y] \/ (y = HeadOf(Q) /\ y \in Q.may)
      BY <1>3
<1> QED
    BY <1>3, <1>4, <1>8, <1>9 DEF R

(* So does putting a waiter behind one that ends a chain, or is of its     *)
(* kind.                                                                   *)
LEMMA InsertAfterKeeps ==
  ASSUME NEW Q, NEW kind, Good(Q, kind), NEW s \in Threads \ Waiting(Q), Q.skip[s] = Null,
         NEW after \in Waiting(Q),
         after = HeadOf(Q) \/ Q.skip[after] = Null \/ kind[after] = kind[s]
  PROVE  LET R == InsertAfter(Q, s, after, kind) IN
         /\ Good(R, kind) /\ Waiting(R) = Waiting(Q) \cup {s}
         /\ R.failed = Q.failed /\ R.may = Q.may /\ R.wake = Q.wake
         /\ after = HeadOf(Q) => /\ Inserted(Q, R, s, 0)
                                 /\ \A y \in Threads \ {s} : R.skip[y] = Q.skip[y]
<1> DEFINE n == Len(Q.seq)
           head == HeadOf(Q)
           at == IF after = head THEN 0 ELSE Pos(Q, after)
           new == SubSeq(Q.seq, 1, at) \o <<s>> \o SubSeq(Q.seq, at + 1, n)
           Q1 == Check([Q EXCEPT !.seq = new],
                       Q.skip[after] = Null \/ MuSameCondition(kind, after, s),
                       "mutex Enqueue failure")
           Q2 == IF after # head /\ after \in Q1.may /\ MuSameCondition(kind, after, s)
                 THEN [Q1 EXCEPT !.skip[after] = s] ELSE Q1
           R  == IF MuSameCondition(kind, s, NextOf(Q2, s))
                 THEN [Q2 EXCEPT !.skip[s] = NextOf(Q2, s)] ELSE Q2
<1>0. InsertAfter(Q, s, after, kind) = R
      BY DEF InsertAfter
<1>1. PICK p \in 1..n : after = Q.seq[p]
      BY QueueTyped DEF Waiting
<1>2. /\ n \in Nat /\ p \in 1..n /\ Q \in Queues /\ Distinct(Q.seq) /\ Pos(Q, after) = p
      /\ after \in Threads /\ s \in Threads /\ s # after /\ (after = head <=> p = n)
      /\ at = IF after = head THEN 0 ELSE p
      BY <1>1, QueueTyped, PosIs, NextIs
<1>n. \A k \in 1..n : Q.seq[k] \in Threads
      BY QueueTyped
<1> HIDE DEF at, n
<1>3. at \in Nat /\ at < n /\ at \in 0..n /\ at + 1 \in 1..n /\ (after # head => at = p /\ at >= 1)
      BY <1>2
<1>4. Q.skip[after] = Null \/ kind[after] = kind[s]
  <2>1. after = head => Q.skip[after] = Null
        BY <1>1, ChainsEnd DEF n
  <2> QED
      BY <2>1
<1>5. /\ new \in Seq(Threads) /\ Len(new) = n + 1 /\ new[at + 1] = s
      /\ \A k \in 1..at : new[k] = Q.seq[k]
      /\ \A k \in (at + 1)..n : new[k + 1] = Q.seq[k]
  <2> DEFINE a == SubSeq(Q.seq, 1, at)
             b == SubSeq(Q.seq, at + 1, n)
  <2>1. /\ a \in Seq(Threads) /\ Len(a) = at /\ \A k \in 1..at : a[k] = Q.seq[k]
        /\ b \in Seq(Threads) /\ Len(b) = n - at /\ \A k \in 1..(n - at) : b[k] = Q.seq[at + k]
        /\ <<s>> \in Seq(Threads) /\ Len(<<s>>) = 1 /\ <<s>>[1] = s
        BY <1>2, <1>3 DEF Queues, n
  <2> DEFINE c == a \o <<s>>
  <2> HIDE DEF a, b
  <2>2. c \in Seq(Threads) /\ Len(c) = at + 1 /\ c[at + 1] = s /\ \A k \in 1..at : c[k] = Q.seq[k]
    <3>1. /\ c \in Seq(Threads) /\ Len(c) = Len(a) + Len(<<s>>)
          /\ \A k \in 1..Len(a) + Len(<<s>>) :
               c[k] = IF k <= Len(a) THEN a[k] ELSE <<s>>[k - Len(a)]
          BY <2>1, ConcatProperties, ZenonT(30)
    <3> HIDE DEF c
    <3>2. Len(c) = at + 1 /\ \A k \in 1..(at + 1) : c[k] = IF k <= at THEN a[k] ELSE <<s>>[k - at]
          BY <2>1, <3>1
    <3>3. at + 1 \in 1..(at + 1) /\ ~(at + 1 <= at) /\ at + 1 - at = 1
          BY <1>3
    <3>4. c[at + 1] = s
          BY <2>1, <3>2, <3>3
    <3>5. \A k \in 1..at : k \in 1..(at + 1) /\ k <= at
          BY <1>3
    <3> QED
        BY <2>1, <3>1, <3>2, <3>4, <3>5
  <2> DEFINE d == c \o b
  <2> HIDE DEF c
  <2>c. c \in Seq(Threads) /\ b \in Seq(Threads)
        BY <2>1, <2>2
  <2>3. /\ d \in Seq(Threads) /\ Len(d) = Len(c) + Len(b)
        /\ \A k \in 1..Len(c) + Len(b) : d[k] = IF k <= Len(c) THEN c[k] ELSE b[k - Len(c)]
        BY <2>c, ConcatProperties, Zenon
  <2> HIDE DEF d
  <2>4. at + 1 + (n - at) = n + 1
        BY <1>2, <1>3
  <2>5. Len(d) = n + 1 /\ \A k \in 1..(n + 1) : d[k] = IF k <= at + 1 THEN c[k] ELSE b[k - (at + 1)]
        BY <2>1, <2>2, <2>3, <2>4
  <2>6. d[at + 1] = s /\ \A k \in 1..at : d[k] = Q.seq[k]
    <3>1. at + 1 \in 1..(n + 1) /\ \A k \in 1..at : k \in 1..(n + 1) /\ k <= at + 1
          BY <1>2, <1>3
    <3>2. at + 1 <= at + 1
          BY <1>3
    <3> QED
        BY <2>2, <2>5, <3>1, <3>2
  <2>7. ASSUME NEW k \in (at + 1)..n PROVE d[k + 1] = Q.seq[k]
    <3>1. k + 1 \in 1..(n + 1) /\ ~(k + 1 <= at + 1) /\ (k + 1) - (at + 1) = k - at
          /\ k - at \in 1..(n - at) /\ at + (k - at) = k
          BY <1>2, <1>3
    <3>2. d[k + 1] = b[(k + 1) - (at + 1)]
      <4> DEFINE m == k + 1
      <4>1. m \in 1..(n + 1) /\ ~(m <= at + 1)
            BY <3>1
      <4> HIDE DEF m
      <4>2. d[m] = b[m - (at + 1)]
            BY <2>5, <4>1
      <4> QED
          BY <4>2 DEF m
    <3> QED
        BY <2>1, <3>1, <3>2
  <2>8. d = new
        BY DEF a, b, c, d
  <2> QED
      BY <2>3, <2>5, <2>6, <2>7, <2>8
<1> HIDE DEF new
<1>6. Q1 = [Q EXCEPT !.seq = new]
      BY <1>4 DEF Check, MuSameCondition
<1> HIDE DEF Q1
<1>7. /\ Q1.seq = new /\ Q1.skip = Q.skip /\ Q1.may = Q.may /\ Q1.wake = Q.wake
      /\ Q1.failed = Q.failed /\ Q1 \in Queues
      BY <1>2, <1>5, <1>6 DEF Queues
<1>8. /\ Q2.seq = new /\ Q2.may = Q.may /\ Q2.wake = Q.wake /\ Q2.failed = Q.failed /\ Q2 \in Queues
      /\ \A y \in Threads :
           \/ Q2.skip[y] = Q.skip[y]
           \/ y = after /\ after # head /\ Q2.skip[y] = s /\ kind[y] = kind[s]
      BY <1>2, <1>7 DEF Queues, MuSameCondition
<1> HIDE DEF Q2
<1>9. NextOf(Q2, s) = Q.seq[at + 1]
  <2>1. \A k \in 1..n : Q.seq[k] # s
        BY QueueTyped DEF Waiting, n
  <2>2. Pos(Q2, s) = at + 1
    <3>1. at + 1 \in DOMAIN new /\ new[at + 1] = s
      <4>1. DOMAIN new = 1..(n + 1) /\ at + 1 \in 1..(n + 1)
            BY <1>2, <1>3, <1>5
      <4> QED
          BY <1>5, <4>1
    <3>2. \A k \in DOMAIN new : new[k] = s => k = at + 1
      <4> SUFFICES ASSUME NEW k \in 1..(n + 1), new[k] = s, k # at + 1 PROVE FALSE
          BY <1>5
      <4>1. CASE k \in 1..at
        <5>1. k \in 1..n
              BY <1>2, <1>3, <4>1
        <5> QED
            BY <1>5, <2>1, <4>1, <5>1
      <4>2. CASE k \notin 1..at
        <5>1. k - 1 \in (at + 1)..n /\ k - 1 \in 1..n /\ k - 1 + 1 = k
              BY <1>2, <1>3, <4>2
        <5>2. new[k - 1 + 1] = Q.seq[k - 1]
              BY <1>5, <5>1
        <5> QED
            BY <2>1, <5>1, <5>2
      <4> QED
          BY <4>1, <4>2
    <3> QED
        BY <1>8, <3>1, <3>2 DEF Pos
  <2>3. HeadOf(Q2) # s
    <3>1. n \in (at + 1)..n /\ n \in 1..n
          BY <1>2, <1>3
    <3>2. new[n + 1] = Q.seq[n] /\ Q.seq[n] # s /\ new # <<>>
          BY <1>5, <2>1, <3>1
    <3> QED
        BY <1>5, <1>8, <3>2 DEF HeadOf
  <2>4. new[at + 1 + 1] = Q.seq[at + 1]
    <3>1. at + 1 \in (at + 1)..n
          BY <1>2, <1>3
    <3> QED
        BY <1>5, <3>1
  <2> QED
      BY <1>8, <2>2, <2>3, <2>4 DEF NextOf
<1>10. /\ R.seq = new /\ R.may = Q.may /\ R.wake = Q.wake /\ R.failed = Q.failed /\ R \in Queues
       /\ \A y \in Threads \ {s} : R.skip[y] = Q2.skip[y]
       /\ R.skip[s] = IF kind[s] = kind[Q.seq[at + 1]] THEN Q.seq[at + 1] ELSE Null
  <2>1. Q.seq[at + 1] \in Threads
        BY <1>3, <1>n
  <2>2. Q2.skip[s] = Null
        BY <1>2, <1>8
  <2> QED
      BY <1>8, <1>9, <2>1, <2>2 DEF Queues, MuSameCondition
<1> HIDE DEF R
<1>11. Inserted(Q, R, s, at)
       BY <1>5, <1>10, Zenon DEF Inserted, n
<1>12. \A y \in Threads \ {s} :
         \/ R.skip[y] = Q.skip[y]
         \/ at >= 1 /\ y = Q.seq[at] /\ R.skip[y] = s /\ kind[y] = kind[s]
       BY <1>1, <1>3, <1>8, <1>10
<1>13. Q.seq[at + 1] # Null
       BY <1>3, QueueTyped DEF n
<1>14. at >= 1 /\ Q.skip[Q.seq[at]] # Null => kind[s] = kind[Q.seq[at]] /\ R.skip[s] # Null
  <2> SUFFICES ASSUME at >= 1, Q.skip[Q.seq[at]] # Null
               PROVE  kind[s] = kind[Q.seq[at]] /\ R.skip[s] # Null
      OBVIOUS
  <2>1. at = p /\ at \in 1..n
        BY <1>2, <1>3
  <2>2. kind[s] = kind[Q.seq[at]]
        BY <1>1, <1>4, <2>1
  <2>3. kind[Q.seq[at + 1]] = kind[Q.seq[at]]
        BY <2>1, ChainsEnd DEF n
  <2> QED
      BY <1>10, <1>13, <2>2, <2>3
<1>15. R.skip[s] # Null =>
         at < n /\ R.skip[s] = Q.seq[at + 1] /\ kind[s] = kind[Q.seq[at + 1]]
       BY <1>3, <1>10
<1>16. Good(R, kind) /\ Waiting(R) = Waiting(Q) \cup {s}
       BY <1>3, <1>10, <1>11, <1>12, <1>14, <1>15, InsertKeeps DEF n
<1>17. after = head => at = 0 /\ \A y \in Threads \ {s} : R.skip[y] = Q.skip[y]
       BY <1>2, <1>8, <1>10
<1> QED
    BY <1>0, <1>10, <1>11, <1>16, <1>17

(* Where Enqueue may insert: at the front, or behind a waiter of s's own   *)
(* kind or the last of a chain.                                            *)
Place(Q, kind, s, x) ==
  x \in Waiting(Q) /\ (x = HeadOf(Q) \/ Q.skip[x] = Null \/ kind[x] = kind[s])

(* The place that Enqueue finds for a waiter with a priority is such a     *)
(* place, and finding it only shortens chains.                             *)
LEMMA PlaceKeeps ==
  ASSUME NEW Q, NEW kind, Good(Q, kind), Q.seq # <<>>, NEW s \in Threads, NEW priority
  PROVE  LET place == PriorityPlace(Q, s, kind, priority) IN
         /\ Good(place.queue, kind) /\ SameChains(Q, place.queue)
         /\ Place(Q, kind, s, place.after)
<1> DEFINE n == Len(Q.seq)
           Turn(l) ==
             IF l.done THEN l
             ELSE LET cur == NextOf(l.queue, l.to)
                      sk  == Skip(l.queue, cur)
                      to  == IF /\ sk.end # cur
                                /\ priority[s] > priority[sk.end]
                                /\ MuSameCondition(kind, s, cur)
                             THEN cur ELSE sk.end
                  IN  [queue |-> sk.queue, after |-> l.to, to |-> to,
                       done |-> priority[s] > priority[to]]
           first == [queue |-> Q, after |-> Null, to |-> HeadOf(Q), done |-> FALSE]
           turn == CHOOSE f : f = [i \in 0..n |->
                     IF i = 0 THEN first ELSE CHOOSE r \in {Turn(l) : l \in {f[i - 1]}} : TRUE]
           D == {FALSE} \cup {priority[s] > priority[x] : x \in Threads}
           V == {l \in [queue : Queues, after : Threads \cup {Null}, to : Threads, done : D] :
                   /\ Good(l.queue, kind) /\ SameChains(Q, l.queue)
                   /\ Place(Q, kind, s, l.to)
                   /\ l.done \/ l.after # Null => Place(Q, kind, s, l.after)}
<1>1. PriorityPlace(Q, s, kind, priority) = turn[n]
      BY DEF PriorityPlace, Loop
<1>2. n \in Nat /\ n > 0 /\ HeadOf(Q) \in Waiting(Q) /\ Waiting(Q) \subseteq Threads /\ Q \in Queues
      BY HeadIs, QueueTyped
<1>3. first \in V
  <2>1. SameChains(Q, Q)
        BY SMTT(30) DEF SameChains
  <2>2. Place(Q, kind, s, HeadOf(Q))
        BY <1>2, SMTT(30) DEF Place
  <2> QED
      BY <1>2, <2>1, <2>2, SMTT(30)
<1>4. ASSUME NEW l \in V PROVE Turn(l) \in V /\ Place(Q, kind, s, Turn(l).after)
  <2>1. CASE l.done
        BY <2>1
  <2>2. CASE ~l.done
    <3> DEFINE L == l.queue
               cur == NextOf(L, l.to)
               sk == Skip(L, cur)
               to == IF /\ sk.end # cur
                        /\ priority[s] > priority[sk.end]
                        /\ MuSameCondition(kind, s, cur)
                     THEN cur ELSE sk.end
    <3>1. Turn(l) = [queue |-> sk.queue, after |-> l.to, to |-> to,
                     done |-> priority[s] > priority[to]]
          BY <2>2
    <3>2. /\ Good(L, kind) /\ SameChains(Q, L) /\ L.seq = Q.seq
          /\ Place(Q, kind, s, l.to) /\ l.to \in Threads
          BY DEF SameChains
    <3>3. PICK i \in 1..n : cur = Q.seq[i]
      <4>1. PICK k \in DOMAIN L.seq : l.to = L.seq[k]
            BY <3>2 DEF Place, Waiting
      <4>2. L \in Queues /\ Distinct(L.seq)
            BY <3>2, QueueTyped
      <4>3. NextOf(L, L.seq[k]) \in Waiting(L)
            BY <4>2, NextIs
      <4> QED
          BY <3>2, <4>1, <4>3, QueueTyped DEF Waiting
    <3>4. PICK e : ChainEnd(L, kind, i, e)
          BY <3>2, <3>3, ChainEnds
    <3>5. sk.end = Q.seq[e] /\ Good(sk.queue, kind) /\ SameChains(L, sk.queue)
          BY <3>2, <3>3, <3>4, SkipKeeps
    <3>6. e \in 1..n /\ L.skip[Q.seq[e]] = Null
          BY <1>2, <3>2, <3>3, <3>4 DEF ChainEnd
    <3>7. sk.queue \in Queues /\ SameChains(Q, sk.queue)
      <4>1. sk.queue \in Queues
            BY <3>5, QueueTyped
      <4> HIDE DEF sk
      <4> QED
          BY <3>2, <3>5, <4>1 DEF SameChains
    <3>8. /\ cur \in Waiting(Q) /\ Q.seq[e] \in Waiting(Q) /\ Q.seq[e] \in Threads
          /\ Q.skip[Q.seq[e]] = Null
          BY <3>2, <3>3, <3>6, QueueTyped DEF Waiting, SameChains
    <3> HIDE DEF sk, cur, L
    <3>9. to \in Threads /\ Place(Q, kind, s, to)
      <4>1. CASE to = cur /\ MuSameCondition(kind, s, cur)
            BY <1>2, <3>8, <4>1 DEF Place, MuSameCondition
      <4>2. CASE to = sk.end
            BY <3>5, <3>8, <4>2 DEF Place
      <4> QED
          BY <4>1, <4>2
    <3> HIDE DEF to
    <3>10. l.to \in Threads \cup {Null} /\ (priority[s] > priority[to]) \in D
          BY <3>2, <3>9
    <3> HIDE DEF D
    <3>11. /\ Turn(l).queue = sk.queue /\ Turn(l).after = l.to /\ Turn(l).to = to
           /\ Turn(l) \in [queue : Queues, after : Threads \cup {Null}, to : Threads, done : D]
          BY <3>1, <3>7, <3>9, <3>10
    <3> HIDE DEF Turn
    <3> QED
        BY <3>2, <3>5, <3>7, <3>9, <3>11
  <2> QED
      BY <2>1, <2>2
<1> HIDE DEF Turn, first, V, D
<1> DEFINE step == [i \in 1..n |-> [l \in V |-> Turn(l)]]
<1>5. PICK f : Iterates(f, n, V, first, step)
  <2>1. step \in [1..n -> [V -> V]]
        BY <1>4
  <2> HIDE DEF step
  <2> QED
      BY <1>2, <1>3, <2>1, Recursion
<1>6. /\ f \in [0..n -> V]
      /\ \A i \in 0..n : f[i] = IF i = 0 THEN first ELSE step[i][f[i - 1]]
      BY <1>5 DEF Iterates
<1>7. \A i \in 1..n : i - 1 \in 0..n /\ i \in 0..n /\ i # 0
      BY <1>2
<1>8. \A i \in 1..n : f[i] = Turn(f[i - 1])
  <2> SUFFICES ASSUME NEW i \in 1..n PROVE f[i] = Turn(f[i - 1])
      OBVIOUS
  <2>1. f[i] = step[i][f[i - 1]] /\ f[i - 1] \in V
        BY <1>6, <1>7
  <2> QED
      BY <2>1
<1>9. turn = f
  <2>1. ASSUME NEW g, g = [i \in 0..n |->
                 IF i = 0 THEN first ELSE CHOOSE r \in {Turn(l) : l \in {g[i - 1]}} : TRUE]
        PROVE  g = f
    <3> DEFINE T == {i \in 0..n : g[i] = f[i]}
    <3>0. 0 \in 0..n
          BY <1>2
    <3>1. 0 \in T
      <4>1. g[0] = first /\ f[0] = first
            BY <1>6, <2>1, <3>0
      <4> QED
          BY <3>0, <4>1
    <3>2. ASSUME NEW i \in 1..n, i - 1 \in T PROVE i \in T
          BY <1>7, <1>8, <2>1, <3>2
    <3>3. \A i \in 0..n : i \in T
      <4> HIDE DEF T
      <4> QED
          BY <1>2, <3>1, <3>2, Induction
    <3>4. g = [i \in 0..n |-> g[i]]
          BY <2>1
    <3>5. f = [i \in 0..n |-> f[i]]
          BY <1>6
    <3> HIDE DEF turn
    <3> QED
        BY <3>3, <3>4, <3>5
  <2>2. f = [i \in 0..n |->
          IF i = 0 THEN first ELSE CHOOSE r \in {Turn(l) : l \in {f[i - 1]}} : TRUE]
    <3>1. \A i \in 0..n : i = 0 \/ i \in 1..n
          BY <1>2
    <3>2. \A i \in 0..n : f[i] = IF i = 0 THEN first ELSE
                                   CHOOSE r \in {Turn(l) : l \in {f[i - 1]}} : TRUE
          BY <1>6, <1>8, <3>1, ZenonT(30)
    <3>3. f = [i \in 0..n |-> f[i]]
          BY <1>6
    <3> QED
        BY <3>2, <3>3
  <2> QED
      BY <2>1, <2>2
<1>10. n \in 1..n /\ n \in 0..n /\ n - 1 \in 0..n
       BY <1>2
<1>11. turn[n] \in V /\ Place(Q, kind, s, turn[n].after)
       BY <1>4, <1>6, <1>8, <1>9, <1>10
<1> HIDE DEF turn
<1> QED
    BY <1>1, <1>11 DEF V

(* What Enqueue does to a queue that an unlocker may be walking: s is last *)
(* and only the former last waiter, if it may skip, can skip to it; or s   *)
(* is first and a writer without a condition.                              *)
Appended(Q, R, s) ==
  /\ Inserted(Q, R, s, Len(Q.seq))
  /\ \A y \in Threads \ {s} : R.skip[y] = Q.skip[y] \/ (y = HeadOf(Q) /\ y \in Q.may)

(* s is the first waiter now.                                              *)
Prepended(Q, R, s) ==
  Inserted(Q, R, s, 0) /\ \A y \in Threads \ {s} : R.skip[y] = Q.skip[y]

(* Enqueue keeps the queue good, fails no check, and adds its waiter only. *)
LEMMA EnqueueKeeps ==
  ASSUME NEW Q, NEW kind, Good(Q, kind), NEW s \in Threads \ Waiting(Q), NEW priority,
         NEW U
  PROVE  LET R == Enqueue(Q, s, kind, priority, HeadOf(Q) \in U) IN
         /\ Good(R, kind) /\ Waiting(R) = Waiting(Q) \cup {s} /\ R.seq # <<>>
         /\ R.failed = Q.failed /\ R.may = Q.may \cup {s} /\ R.wake = Q.wake \ {s}
         /\ HeadOf(Q) \in U /\ Q.seq # <<>> =>
              \/ Appended(Q, R, s)
              \/ Prepended(Q, R, s) /\ kind[s] = <<"X", Null>>
<1> DEFINE unlocking == HeadOf(Q) \in U
           R == Enqueue(Q, s, kind, priority, unlocking)
           Q0 == [Q EXCEPT !.skip[s] = Null, !.may = @ \cup {s}, !.wake = @ \ {s}]
           place == PriorityPlace(Q0, s, kind, priority)
<1>1. Q \in Queues /\ Null \notin Threads /\ s \in Threads /\ s \notin Waiting(Q)
      BY QueueTyped
<1>2. /\ Q0.seq = Q.seq /\ Q0.may = Q.may \cup {s} /\ Q0.wake = Q.wake \ {s}
      /\ Q0.failed = Q.failed /\ Q0 \in Queues
      /\ Q0.skip[s] = Null /\ \A y \in Threads \ {s} : Q0.skip[y] = Q.skip[y]
      BY <1>1 DEF Queues
<1>r. R = IF Q0.seq = <<>> THEN [Q0 EXCEPT !.seq = <<s>>]
          ELSE IF priority[s] > priority[HeadOf(Q0)] /\ ~unlocking
               THEN InsertAfter(place.queue, s, place.after, kind)
          ELSE IF priority[s] > priority[HeadOf(Q0)] /\ kind[s] = <<"X", Null>>
               THEN InsertAfter(Q0, s, HeadOf(Q0), kind)
          ELSE AppendWaiter(Q0, s, kind)
      BY DEF Enqueue
<1> HIDE DEF Q0, R
<1>3. Waiting(Q0) = Waiting(Q) /\ HeadOf(Q0) = HeadOf(Q)
      BY <1>2 DEF Waiting, HeadOf
<1>4. \A y \in Waiting(Q) : y \in Threads /\ y # s
      BY <1>1, QueueTyped DEF Waiting
<1>5. Good(Q0, kind)
      BY <1>2, <1>4, OthersSkip
<1>6. CASE Q.seq = <<>>
  <2>1. R = [Q0 EXCEPT !.seq = <<s>>]
        BY <1>2, <1>6, <1>r
  <2>2. R.seq = <<s>> /\ R.may = Q0.may /\ R.wake = Q0.wake /\ R.failed = Q0.failed
        /\ R.skip = Q0.skip /\ R \in Queues
    <3>1. <<s>> \in Seq(Threads)
          BY <1>1
    <3> QED
        BY <1>2, <2>1, <3>1 DEF Queues
  <2>3. DOMAIN R.seq = {1} /\ R.seq[1] = s /\ R.seq # <<>>
        BY <2>2
  <2>4. Waiting(R) = {s} /\ Waiting(Q) = {}
    <3>1. DOMAIN Q.seq = {}
          BY <1>6
    <3> QED
        BY <2>3, <3>1 DEF Waiting
  <2>5. Good(R, kind)
        BY <1>2, <2>2, <2>3 DEF Good, Distinct
  <2> QED
      BY <1>2, <1>6, <2>2, <2>3, <2>4, <2>5 DEF R
<1>7. CASE Q.seq # <<>> /\ R = InsertAfter(place.queue, s, place.after, kind) /\ ~unlocking
  <2> DEFINE L == place.queue
  <2>1. Good(L, kind) /\ SameChains(Q0, L) /\ Place(Q0, kind, s, place.after)
        BY <1>1, <1>2, <1>5, <1>7, PlaceKeeps
  <2> HIDE DEF place
  <2>2. /\ L.seq = Q.seq /\ L.may = Q0.may /\ L.wake = Q0.wake /\ L.failed = Q0.failed
        /\ L.skip[s] = Null
        BY <1>1, <1>2, <2>1 DEF SameChains
  <2>3. Waiting(L) = Waiting(Q) /\ HeadOf(L) = HeadOf(Q)
        BY <2>2 DEF Waiting, HeadOf
  <2>4. /\ place.after \in Waiting(L)
        /\ place.after = HeadOf(L) \/ L.skip[place.after] = Null \/ kind[place.after] = kind[s]
    <3>1. Q0.skip[place.after] = Null => L.skip[place.after] = Null
          BY <1>3, <1>4, <2>1 DEF SameChains, Place
    <3> QED
        BY <1>3, <2>1, <2>3, <3>1 DEF Place
  <2> HIDE DEF L
  <2>5. /\ Good(R, kind) /\ Waiting(R) = Waiting(L) \cup {s}
        /\ R.failed = L.failed /\ R.may = L.may /\ R.wake = L.wake
        BY <1>1, <1>7, <2>1, <2>2, <2>3, <2>4, InsertAfterKeeps DEF L
  <2>6. R.seq # <<>>
    <3>1. s \in Waiting(R)
          BY <2>5
    <3> QED
        BY <3>1 DEF Waiting
  <2> QED
      BY <1>2, <1>7, <2>2, <2>3, <2>5, <2>6 DEF R
<1>8. CASE Q.seq # <<>> /\ R = InsertAfter(Q0, s, HeadOf(Q0), kind) /\ kind[s] = <<"X", Null>>
  <2>1. HeadOf(Q0) \in Waiting(Q0)
        BY <1>2, <1>8, HeadIs
  <2>2. /\ Good(R, kind) /\ Waiting(R) = Waiting(Q0) \cup {s}
        /\ R.failed = Q0.failed /\ R.may = Q0.may /\ R.wake = Q0.wake
        /\ Inserted(Q0, R, s, 0) /\ \A y \in Threads \ {s} : R.skip[y] = Q0.skip[y]
        BY <1>1, <1>2, <1>3, <1>5, <1>8, <2>1, InsertAfterKeeps
  <2>3. Prepended(Q, R, s)
        BY <1>2, <2>2 DEF Prepended, Inserted
  <2>4. R.seq # <<>>
    <3>1. s \in Waiting(R)
          BY <2>2
    <3> QED
        BY <3>1 DEF Waiting
  <2> QED
      BY <1>2, <1>3, <1>8, <2>2, <2>3, <2>4 DEF R
<1>9. CASE Q.seq # <<>> /\ R = AppendWaiter(Q0, s, kind)
  <2>1. /\ Good(R, kind) /\ Waiting(R) = Waiting(Q0) \cup {s}
        /\ R.failed = Q0.failed /\ R.may = Q0.may /\ R.wake = Q0.wake
        /\ Inserted(Q0, R, s, Len(Q.seq))
        /\ \A y \in Threads : R.skip[y] = Q0.skip[y] \/ (y = HeadOf(Q0) /\ y \in Q0.may)
        BY <1>1, <1>2, <1>3, <1>5, <1>9, AppendKeeps
  <2>2. Appended(Q, R, s)
        BY <1>2, <1>3, <2>1 DEF Appended, Inserted
  <2>3. R.seq # <<>>
    <3>1. s \in Waiting(R)
          BY <2>1
    <3> QED
        BY <3>1 DEF Waiting
  <2> QED
      BY <1>2, <1>3, <1>9, <2>1, <2>2, <2>3 DEF R
<1> QED
    BY <1>2, <1>6, <1>7, <1>8, <1>9, <1>r, Zenon
-----------------------------------------------------------------------------
(* Dequeue.                                                                *)

(* R's sequence is Q's without number q.                                   *)
Removed(Q, R, q) ==
  /\ Len(R.seq) = Len(Q.seq) - 1
  /\ \A k \in 1..(Len(Q.seq) - 1) : R.seq[k] = IF k < q THEN Q.seq[k] ELSE Q.seq[k + 1]

(* A waiter that none skips to may be taken off; the one before it may     *)
(* take over its jump.                                                     *)
LEMMA RemoveKeeps ==
  ASSUME NEW Q, NEW kind, Good(Q, kind), NEW q \in 1..Len(Q.seq),
         \A i \in 1..Len(Q.seq) : Q.skip[Q.seq[i]] # Q.seq[q],
         NEW R, R \in Queues, Removed(Q, R, q),
         \A y \in Threads \ {Q.seq[q]} :
           \/ R.skip[y] = Q.skip[y]
           \/ /\ q >= 2 /\ q < Len(Q.seq) /\ y = Q.seq[q - 1] /\ kind[y] = kind[Q.seq[q + 1]]
              /\ \/ R.skip[y] = Q.seq[q + 1]
                 \/ Q.skip[Q.seq[q + 1]] # Null /\ R.skip[y] = Q.skip[Q.seq[q + 1]]
  PROVE  Good(R, kind) /\ Waiting(R) = Waiting(Q) \ {Q.seq[q]}
<1> DEFINE n == Len(Q.seq)
           w == Q.seq[q]
           m == n - 1
           up == [k \in 1..m |-> IF k < q THEN k ELSE k + 1]
<1>1. /\ n \in Nat /\ q \in 1..n /\ DOMAIN Q.seq = 1..n /\ Null \notin Threads
      /\ \A k \in 1..n : Q.seq[k] \in Threads
      /\ \A a, b \in 1..n : Q.seq[a] = Q.seq[b] => a = b
      /\ \A i \in 1..n : Q.skip[Q.seq[i]] # w
      /\ \A i \in 1..n : Q.skip[Q.seq[i]] # Null => \E j \in 1..n : Jump(Q, kind, i, j)
      BY QueueTyped
<1>2. Len(R.seq) = m /\ \A k \in 1..m : R.seq[k] = IF k < q THEN Q.seq[k] ELSE Q.seq[k + 1]
      BY DEF Removed
<1>s. \A y \in Threads \ {w} :
        \/ R.skip[y] = Q.skip[y]
        \/ /\ q >= 2 /\ q < n /\ y = Q.seq[q - 1] /\ kind[y] = kind[Q.seq[q + 1]]
           /\ \/ R.skip[y] = Q.seq[q + 1]
              \/ Q.skip[Q.seq[q + 1]] # Null /\ R.skip[y] = Q.skip[Q.seq[q + 1]]
      OBVIOUS
<1>w. w = Q.seq[q] /\ w \in Threads /\ m = n - 1 /\ m \in Nat
      BY <1>1
<1> HIDE DEF n, w, m
<1>d. DOMAIN R.seq = 1..m
      BY <1>2 DEF Queues
\* Number k of R is number up[k] of Q.
<1>3. \A k \in 1..m : up[k] = IF k < q THEN k ELSE k + 1
      OBVIOUS
<1> HIDE DEF up
<1>4. \A k \in 1..m : up[k] \in 1..n /\ up[k] # q /\ R.seq[k] = Q.seq[up[k]]
  <2> SUFFICES ASSUME NEW k \in 1..m PROVE up[k] \in 1..n /\ up[k] # q /\ R.seq[k] = Q.seq[up[k]]
      OBVIOUS
  <2>1. CASE k < q
    <3>1. up[k] = k
          BY <1>3, <2>1
    <3>2. k \in 1..n /\ k # q
          BY <1>1, <1>w, <2>1
    <3> QED
        BY <1>2, <2>1, <3>1, <3>2
  <2>2. CASE ~(k < q)
    <3>1. up[k] = k + 1
          BY <1>3, <2>2
    <3>2. k + 1 \in 1..n /\ k + 1 # q
          BY <1>1, <1>w, <2>2
    <3> QED
        BY <1>2, <2>2, <3>1, <3>2
  <2> QED
      BY <2>1, <2>2
<1>5. \A i \in 1..n : i # q => \E k \in 1..m : up[k] = i
  <2> SUFFICES ASSUME NEW i \in 1..n, i # q PROVE \E k \in 1..m : up[k] = i
      OBVIOUS
  <2>1. CASE i < q
    <3>1. i \in 1..m
          BY <1>1, <1>w, <2>1
    <3> QED
        BY <1>3, <2>1, <3>1
  <2>2. CASE ~(i < q)
    <3>1. i - 1 \in 1..m /\ ~(i - 1 < q) /\ (i - 1) + 1 = i
          BY <1>1, <1>w, <2>2
    <3> QED
        BY <1>3, <3>1
  <2> QED
      BY <2>1, <2>2
<1>6. \A a, b \in 1..m : (a < b <=> up[a] < up[b]) /\ (up[a] = up[b] => a = b)
  <2> SUFFICES ASSUME NEW a \in 1..m, NEW b \in 1..m
               PROVE  (a < b <=> up[a] < up[b]) /\ (up[a] = up[b] => a = b)
      OBVIOUS
  <2>1. up[a] = IF a < q THEN a ELSE a + 1
        BY <1>3
  <2>2. up[b] = IF b < q THEN b ELSE b + 1
        BY <1>3
  <2>3. a \in Int /\ b \in Int /\ q \in Int
        BY <1>1, <1>w
  <2> QED
      BY <2>1, <2>2, <2>3
<1>7. Distinct(R.seq)
  <2> SUFFICES ASSUME NEW a \in 1..m, NEW b \in 1..m, R.seq[a] = R.seq[b] PROVE a = b
      BY <1>d DEF Distinct
  <2>1. up[a] = up[b]
        BY <1>1, <1>4
  <2> QED
      BY <1>6, <2>1
<1>8. \A i \in 1..n : i # q => Q.seq[i] \in Threads \ {w}
      BY <1>1, <1>w
<1>9. \A i \in 1..n : i # q /\ Q.skip[Q.seq[i]] # Null => R.skip[Q.seq[i]] # Null
  <2> SUFFICES ASSUME NEW i \in 1..n, i # q, Q.skip[Q.seq[i]] # Null, R.skip[Q.seq[i]] = Null
               PROVE  FALSE
      OBVIOUS
  <2>1. q < n /\ R.skip[Q.seq[i]] = Q.seq[q + 1]
        BY <1>s, <1>8
  <2>2. q + 1 \in 1..n
        BY <1>1, <2>1
  <2> QED
      BY <1>1, <2>1, <2>2
<1>10. ASSUME NEW a \in 1..m, R.skip[R.seq[a]] # Null
       PROVE  \E b \in 1..m : Jump(R, kind, a, b)
  <2> DEFINE i == up[a]
  <2>1. i \in 1..n /\ i # q /\ R.seq[a] = Q.seq[i] /\ Q.seq[i] \in Threads \ {w}
        BY <1>4, <1>8
  <2>i. i = up[a]
        OBVIOUS
  <2> HIDE DEF i
  <2>2. CASE R.skip[Q.seq[i]] = Q.skip[Q.seq[i]]
    <3>1. PICK j \in 1..n : Jump(Q, kind, i, j)
          BY <1>1, <1>10, <2>1, <2>2
    <3>2. i < j /\ Q.skip[Q.seq[i]] = Q.seq[j] /\ j # q
          BY <1>1, <1>w, <2>1, <3>1 DEF Jump
    <3>3. PICK b \in 1..m : up[b] = j
          BY <1>5, <3>2
    <3>4. a < b /\ R.seq[b] = Q.seq[j]
          BY <1>4, <1>6, <2>i, <3>2, <3>3
    <3>5. ASSUME NEW k \in a..b
          PROVE  /\ kind[R.seq[k]] = kind[R.seq[a]]
                 /\ k # b => R.skip[R.seq[k]] # Null
      <4>1. k \in 1..m /\ (k = a \/ a < k) /\ (k = b \/ k < b)
            BY <1>w
      <4>2. up[k] \in 1..n /\ up[k] # q /\ R.seq[k] = Q.seq[up[k]]
            BY <1>4, <4>1
      <4>3. (up[k] = i \/ i < up[k]) /\ (k = b \/ up[k] < j)
            BY <1>6, <2>i, <3>3, <4>1
      <4>4. up[k] \in i..j /\ (k # b => up[k] \in i..(j - 1))
            BY <1>1, <2>1, <3>2, <3>3, <4>2, <4>3
      <4>5. kind[R.seq[k]] = kind[R.seq[a]]
            BY <2>1, <3>1, <4>2, <4>4 DEF Jump
      <4>6. k # b => Q.skip[Q.seq[up[k]]] # Null
            BY <3>1, <4>4 DEF Jump
      <4> QED
          BY <1>9, <4>2, <4>5, <4>6
    <3>6. \A k \in a..(b - 1) : k \in a..b /\ k # b
          BY <1>w
    <3>7. Jump(R, kind, a, b)
          BY <2>1, <2>2, <3>2, <3>4, <3>5, <3>6 DEF Jump
    <3> QED
        BY <3>7
  <2>3. CASE R.skip[Q.seq[i]] # Q.skip[Q.seq[i]]
    <3>1. /\ q >= 2 /\ q < n /\ Q.seq[i] = Q.seq[q - 1] /\ kind[Q.seq[i]] = kind[Q.seq[q + 1]]
          /\ \/ R.skip[Q.seq[i]] = Q.seq[q + 1]
             \/ Q.skip[Q.seq[q + 1]] # Null /\ R.skip[Q.seq[i]] = Q.skip[Q.seq[q + 1]]
          BY <1>s, <2>1, <2>3
    <3>2. q - 1 \in 1..n /\ q + 1 \in 1..n /\ q \in 1..m /\ q - 1 \in 1..m
          BY <1>1, <1>w, <3>1
    <3>3. i = q - 1
          BY <1>1, <2>1, <3>1, <3>2
    <3>4. a = q - 1
      <4>1. up[a] = IF a < q THEN a ELSE a + 1
            BY <1>3
      <4>2. up[a] = q - 1 /\ a \in Int /\ q \in Int
            BY <1>1, <1>w, <2>i, <3>3
      <4> QED
          BY <4>1, <4>2
    <3>5. up[q] = q + 1 /\ R.seq[q] = Q.seq[q + 1]
          BY <1>1, <1>2, <1>3, <3>2
    <3>6. CASE R.skip[Q.seq[i]] = Q.seq[q + 1]
      <4>1. a..q = {a, q} /\ a..(q - 1) = {a} /\ a < q
            BY <1>1, <3>4
      <4>2. Jump(R, kind, a, q)
            BY <1>10, <2>1, <3>1, <3>5, <3>6, <4>1 DEF Jump
      <4> QED
          BY <3>2, <4>2
    <3>7. CASE Q.skip[Q.seq[q + 1]] # Null /\ R.skip[Q.seq[i]] = Q.skip[Q.seq[q + 1]]
      <4>1. PICK j \in 1..n : Jump(Q, kind, q + 1, j)
            BY <1>1, <3>2, <3>7
      <4>2. q + 1 < j /\ j - 1 \in 1..m /\ a < j - 1 /\ (j - 1) + 1 = j /\ ~(j - 1 < q)
            BY <1>1, <1>w, <3>2, <3>4, <4>1 DEF Jump
      <4>3. R.seq[j - 1] = Q.seq[j]
            BY <1>2, <4>2
      <4>4. ASSUME NEW k \in a..(j - 1)
            PROVE  /\ kind[R.seq[k]] = kind[R.seq[a]]
                   /\ k # j - 1 => R.skip[R.seq[k]] # Null
        <5>1. CASE k = a
              BY <1>10, <5>1
        <5>2. CASE k # a
          <6>1. /\ k \in 1..m /\ ~(k < q) /\ k + 1 \in (q + 1)..j /\ k + 1 \in 1..n /\ k + 1 # q
                /\ k # j - 1 => k + 1 \in (q + 1)..(j - 1)
                BY <1>1, <1>w, <3>4, <4>2, <5>2, SMTT(30)
          <6>2. R.seq[k] = Q.seq[k + 1]
                BY <1>2, <6>1
          <6>3. kind[Q.seq[k + 1]] = kind[Q.seq[q + 1]]
                BY <4>1, <6>1 DEF Jump
          <6>4. k # j - 1 => Q.skip[Q.seq[k + 1]] # Null
                BY <4>1, <6>1 DEF Jump
          <6> QED
              BY <1>9, <2>1, <3>1, <6>1, <6>2, <6>3, <6>4
        <5> QED
            BY <5>1, <5>2
      <4>5. \A k \in a..((j - 1) - 1) : k \in a..(j - 1) /\ k # j - 1
            BY <4>2
      <4>6. R.skip[R.seq[a]] = R.seq[j - 1]
            BY <2>1, <3>7, <4>1, <4>3 DEF Jump
      <4>7. Jump(R, kind, a, j - 1)
            BY <4>2, <4>4, <4>5, <4>6 DEF Jump
      <4> QED
          BY <4>2, <4>7
    <3> QED
        BY <3>1, <3>6, <3>7
  <2> QED
      BY <2>2, <2>3
<1>11. Good(R, kind)
       BY <1>7, <1>10, <1>d DEF Good
<1>12. Waiting(R) = Waiting(Q) \ {w}
  <2>1. \A k \in 1..m : R.seq[k] \in Waiting(Q) \ {w}
        BY <1>1, <1>4, <1>8 DEF Waiting
  <2>2. ASSUME NEW i \in 1..n, Q.seq[i] # w PROVE Q.seq[i] \in Waiting(R)
    <3>1. PICK k \in 1..m : up[k] = i
          BY <1>5, <1>w, <2>2
    <3> QED
        BY <1>4, <1>d, <3>1 DEF Waiting
  <2>3. Waiting(R) = {R.seq[k] : k \in 1..m} /\ Waiting(Q) = {Q.seq[i] : i \in 1..n}
        BY <1>1, <1>d DEF Waiting
  <2>4. Waiting(R) \subseteq Waiting(Q) \ {w}
        BY <2>1, <2>3
  <2>5. Waiting(Q) \ {w} \subseteq Waiting(R)
        BY <2>2, <2>3
  <2> QED
      BY <2>4, <2>5
<1> QED
    BY <1>11, <1>12 DEF w

(* Dequeue takes off the waiter after pw, and keeps the queue good if none *)
(* skips to that waiter.                                                   *)
LEMMA DequeueKeeps ==
  ASSUME NEW Q, NEW kind, Good(Q, kind), NEW p \in 1..Len(Q.seq), NEW q,
         q = IF p = Len(Q.seq) THEN 1 ELSE p + 1,
         \A i \in 1..Len(Q.seq) : Q.skip[Q.seq[i]] # Q.seq[q]
  PROVE  LET R == Dequeue(Q, Q.seq[p], kind) IN
         /\ Good(R, kind) /\ Waiting(R) = Waiting(Q) \ {Q.seq[q]} /\ Removed(Q, R, q)
         /\ R.failed = Q.failed /\ R.wake = Q.wake \ {Q.seq[q]}
         /\ \A y \in Threads \ {Q.seq[q]} :
              R.skip[y] = Q.skip[y] \/ (p < Len(Q.seq) /\ y = Q.seq[p])
<1> DEFINE n == Len(Q.seq)
           pw == Q.seq[p]
           w == NextOf(Q, pw)
           Q1 == [Q EXCEPT !.seq = Seqs!RemoveFirst(@, w), !.skip[w] = Null,
                           !.may = @ \ {w}, !.wake = @ \ {w}]
           nx == NextOf(Q1, pw)
           R == IF HeadOf(Q) = w \/ pw = HeadOf(Q) \/ ~MuSameCondition(kind, pw, nx)
                THEN Q1
                ELSE [Q1 EXCEPT !.skip[pw] = IF Q1.skip[nx] # Null THEN Q1.skip[nx] ELSE nx]
<1>r. Dequeue(Q, pw, kind) = R
      BY DEF Dequeue
<1>1. /\ n \in Nat /\ p \in 1..n /\ q \in 1..n /\ DOMAIN Q.seq = 1..n /\ Null \notin Threads
      /\ q = IF p = n THEN 1 ELSE p + 1
      /\ \A k \in 1..n : Q.seq[k] \in Threads
      /\ \A a, b \in 1..n : Q.seq[a] = Q.seq[b] => a = b
      /\ Q \in Queues /\ Distinct(Q.seq)
      BY QueueTyped
<1>2. w = Q.seq[q] /\ (pw = HeadOf(Q) <=> p = n) /\ (w = HeadOf(Q) <=> q = n)
      BY <1>1, NextIs
<1> HIDE DEF w
<1> DEFINE new == Seqs!RemoveFirst(Q.seq, w)
<1>3. new = [i \in 1..(n - 1) |-> IF i < q THEN Q.seq[i] ELSE Q.seq[i + 1]]
  <2>1. Q.seq \in Seq(Threads)
        BY <1>1 DEF Queues
  <2> QED
      BY <1>1, <1>2, <2>1, RemoveFirstIs, ZenonT(30)
<1>4. /\ Q1.seq = new /\ Q1.may = Q.may \ {w} /\ Q1.wake = Q.wake \ {w} /\ Q1.failed = Q.failed
      /\ Q1.skip[w] = Null /\ \A y \in Threads \ {w} : Q1.skip[y] = Q.skip[y]
      /\ Q1 \in Queues
  <2>1. new \in Seq(Threads)
    <3> DEFINE m == n - 1
    <3>1. m \in Nat /\ \A i \in 1..m : i \in 1..n /\ i + 1 \in 1..n
          BY <1>1
    <3>2. new = [i \in 1..m |-> IF i < q THEN Q.seq[i] ELSE Q.seq[i + 1]]
          BY <1>3
    <3> HIDE DEF m, new
    <3>3. \A i \in 1..m : (IF i < q THEN Q.seq[i] ELSE Q.seq[i + 1]) \in Threads
          BY <1>1, <3>1
    <3>4. new \in [1..m -> Threads]
          BY <3>2, <3>3
    <3> QED
        BY <3>1, <3>4
  <2>2. w \in Threads
        BY <1>1, <1>2
  <2> HIDE DEF new
  <2>3. ASSUME NEW x \in Seq(Threads)
        PROVE  LET P == [Q EXCEPT !.seq = x, !.skip[w] = Null, !.may = @ \ {w}, !.wake = @ \ {w}]
               IN  /\ P.seq = x /\ P.may = Q.may \ {w} /\ P.wake = Q.wake \ {w}
                   /\ P.failed = Q.failed /\ P.skip = [Q.skip EXCEPT ![w] = Null] /\ P \in Queues
        BY <1>1, <2>2 DEF Queues
  <2>4. Q1 = [Q EXCEPT !.seq = new, !.skip[w] = Null, !.may = @ \ {w}, !.wake = @ \ {w}]
        BY DEF new
  <2> HIDE DEF Q1
  <2>5. /\ Q1.seq = new /\ Q1.may = Q.may \ {w} /\ Q1.wake = Q.wake \ {w}
        /\ Q1.failed = Q.failed /\ Q1.skip = [Q.skip EXCEPT ![w] = Null] /\ Q1 \in Queues
        BY <2>1, <2>3, <2>4
  <2>6. Q.skip \in [Threads -> Threads \cup {Null}]
        BY <1>1 DEF Queues
  <2> QED
      BY <2>2, <2>5, <2>6
<1> HIDE DEF Q1, new
<1>5. Removed(Q, Q1, q)
  <2>1. n - 1 \in Nat
        BY <1>1
  <2>2. Len(new) = n - 1 /\ \A i \in 1..(n - 1) : new[i] = IF i < q THEN Q.seq[i] ELSE Q.seq[i + 1]
        BY <1>3, <2>1
  <2> QED
      BY <1>4, <2>2 DEF Removed
<1>6. Good(Q1, kind) /\ Waiting(Q1) = Waiting(Q) \ {w}
      BY <1>1, <1>2, <1>4, <1>5, RemoveKeeps
<1>7. CASE R = Q1
      BY <1>2, <1>4, <1>5, <1>6, <1>7, <1>r
<1>8. CASE p # n /\ q # n /\ MuSameCondition(kind, pw, nx)
           /\ R = [Q1 EXCEPT !.skip[pw] = IF Q1.skip[nx] # Null THEN Q1.skip[nx] ELSE nx]
  <2>1. q = p + 1 /\ q + 1 \in 1..n /\ p \in 1..(n - 1) /\ q \in 1..(n - 1) /\ p < q /\ q < n
        /\ p # n - 1
        BY <1>1, <1>8
  <2>2. Q1.seq[p] = pw /\ Q1.seq[q] = Q.seq[q + 1]
    <3>1. ~(q < q) /\ p \in 1..(n - 1)
          BY <1>1, <2>1
    <3> QED
        BY <1>5, <2>1, <3>1 DEF Removed
  <2>3. nx = Q.seq[q + 1]
    <3>1. /\ Q1 \in Queues /\ Distinct(Q1.seq) /\ Len(Q1.seq) = n - 1
          /\ p \in DOMAIN Q1.seq /\ p # Len(Q1.seq)
          BY <1>4, <1>5, <1>6, <2>1, QueueTyped DEF Removed
    <3> QED
        BY <2>1, <2>2, <3>1, NextIs
  <2>4. nx \in Threads /\ nx # w /\ pw \in Threads /\ pw # w /\ kind[pw] = kind[nx]
        BY <1>1, <1>2, <1>8, <2>1, <2>3 DEF MuSameCondition
  <2>5. Q1.skip[nx] = Q.skip[nx] /\ Q.skip[nx] \in Threads \cup {Null}
        BY <1>1, <1>4, <2>4 DEF Queues
  <2> HIDE DEF nx, R
  <2>6. /\ R.seq = Q1.seq /\ R.may = Q1.may /\ R.wake = Q1.wake /\ R.failed = Q1.failed
        /\ R \in Queues
        /\ \A y \in Threads \ {pw} : R.skip[y] = Q1.skip[y]
        /\ R.skip[pw] = IF Q.skip[nx] # Null THEN Q.skip[nx] ELSE nx
        BY <1>4, <1>8, <2>4, <2>5 DEF Queues
  <2>7. Removed(Q, R, q)
        BY <1>5, <2>6 DEF Removed
  <2>8. /\ q - 1 = p /\ q >= 2
        BY <1>1, <2>1
  <2>9. \A y \in Threads \ {Q.seq[q]} :
          \/ R.skip[y] = Q.skip[y]
          \/ /\ q >= 2 /\ q < n /\ y = Q.seq[q - 1] /\ kind[y] = kind[Q.seq[q + 1]]
             /\ \/ R.skip[y] = Q.seq[q + 1]
                \/ Q.skip[Q.seq[q + 1]] # Null /\ R.skip[y] = Q.skip[Q.seq[q + 1]]
        BY <1>2, <1>4, <2>1, <2>3, <2>4, <2>6, <2>8
  <2>10. Good(R, kind) /\ Waiting(R) = Waiting(Q) \ {w}
         BY <1>1, <1>2, <2>6, <2>7, <2>9, RemoveKeeps, SMTT(30)
  <2>11. p < n /\ \A y \in Threads \ {w} : R.skip[y] = Q.skip[y] \/ y = pw
         BY <1>4, <2>1, <2>6
  <2> QED
      BY <1>2, <1>4, <1>r, <2>6, <2>7, <2>10, <2>11
<1> QED
    BY <1>2, <1>7, <1>8
-----------------------------------------------------------------------------
(* The search of TryRemove.                                                *)

(* FixSkip turns away a skip to s, and the queue stays good.               *)
LEMMA FixSkipKeeps ==
  ASSUME NEW Q, NEW kind, Good(Q, kind), NEW a \in 1..Len(Q.seq), NEW s \in Threads,
         \A i \in 1..(a - 1) : Q.skip[Q.seq[i]] # s
  PROVE  LET R == FixSkip(Q, Q.seq[a], s) IN
         /\ Good(R, kind) /\ R.seq = Q.seq /\ R.failed = Q.failed
         /\ \A i \in 1..a : R.skip[Q.seq[i]] # s
<1> DEFINE n == Len(Q.seq)
           x == Q.seq[a]
           v == IF Q.skip[s] # Null THEN Q.skip[s]
                ELSE IF NextOf(Q, x) # s THEN NextOf(Q, x) ELSE Null
           R == [Q EXCEPT !.skip[x] = v]
<1>1. /\ n \in Nat /\ a \in 1..n /\ DOMAIN Q.seq = 1..n /\ Null \notin Threads
      /\ \A k \in 1..n : Q.seq[k] \in Threads
      /\ \A i, j \in 1..n : Q.seq[i] = Q.seq[j] => i = j
      /\ Q \in Queues /\ Distinct(Q.seq)
      /\ \A i \in 1..n : Q.skip[Q.seq[i]] # Null => \E j \in 1..n : Jump(Q, kind, i, j)
      BY QueueTyped
<1>x. x = Q.seq[a] /\ x \in Threads
      BY <1>1
<1>b. a < n => NextOf(Q, x) = Q.seq[a + 1]
      BY <1>1, NextIs
<1> HIDE DEF n, x
<1>2. CASE Q.skip[x] # s
  <2>1. FixSkip(Q, x, s) = Q
        BY <1>2 DEF FixSkip
  <2>2. \A i \in 1..a : i = a \/ i \in 1..(a - 1)
        BY <1>1
  <2> QED
      BY <1>2, <1>x, <2>1, <2>2
<1>3. CASE Q.skip[x] = s
  <2>1. FixSkip(Q, x, s) = R
        BY <1>3 DEF FixSkip
  <2>2. PICK r \in 1..n : Jump(Q, kind, a, r)
        BY <1>1, <1>3, <1>x
  <2>3. a < r /\ s = Q.seq[r] /\ a < n /\ a + 1 \in 1..n /\ NextOf(Q, x) = Q.seq[a + 1]
        BY <1>1, <1>3, <1>b, <1>x, <2>2 DEF Jump
  <2>4. v \in Threads \cup {Null}
        BY <1>1, <2>3 DEF Queues
  <2> HIDE DEF v
  <2>5. /\ R.seq = Q.seq /\ R.failed = Q.failed /\ R \in Queues /\ R.skip[x] = v
        /\ \A y \in Threads \ {x} : R.skip[y] = Q.skip[y]
        BY <1>1, <1>x, <2>4 DEF Queues
  <2> HIDE DEF R
  \* The pointer of x leads further, to the next one, or nowhere.
  <2>6. \/ v # Null /\ \E j \in 1..n : r < j /\ v = Q.seq[j] /\ Jump(Q, kind, r, j)
        \/ v = Q.seq[a + 1] /\ a + 1 # r
        \/ v = Null /\ a + 1 = r /\ Q.skip[s] = Null
    <3>1. CASE Q.skip[s] # Null
      <4>1. PICK j \in 1..n : Jump(Q, kind, r, j)
            BY <1>1, <2>3, <3>1
      <4>2. r < j /\ v = Q.seq[j] /\ v # Null
            BY <2>3, <3>1, <4>1 DEF Jump, v
      <4> QED
          BY <4>1, <4>2
    <3>2. CASE Q.skip[s] = Null /\ Q.seq[a + 1] # s
          BY <2>3, <3>2 DEF v
    <3>3. CASE Q.skip[s] = Null /\ Q.seq[a + 1] = s
      <4>1. a + 1 = r
            BY <1>1, <2>3, <3>3
      <4> QED
          BY <2>3, <3>3, <4>1 DEF v
    <3> QED
        BY <3>1, <3>2, <3>3
  <2>7. v # s
    <3>1. CASE v # Null /\ \E j \in 1..n : r < j /\ v = Q.seq[j] /\ Jump(Q, kind, r, j)
      <4>1. PICK j \in 1..n : r < j /\ v = Q.seq[j]
            BY <3>1
      <4>2. j # r
            BY <1>1, <4>1
      <4> QED
          BY <1>1, <2>3, <4>1, <4>2
    <3>2. CASE v = Q.seq[a + 1] /\ a + 1 # r
          BY <1>1, <2>3, <3>2
    <3>3. CASE v = Null
          BY <1>1, <2>3, <3>3
    <3> QED
        BY <2>6, <3>1, <3>2, <3>3
  <2>8. \A k \in 1..n : k # a => R.skip[Q.seq[k]] = Q.skip[Q.seq[k]]
        BY <1>1, <1>x, <2>5
  <2>9. \A i \in 1..a : R.skip[Q.seq[i]] # s
    <3>1. \A i \in 1..a : i = a \/ (i \in 1..(a - 1) /\ i \in 1..n /\ i # a)
          BY <1>1
    <3> QED
        BY <1>x, <2>5, <2>7, <2>8, <3>1
  <2>10. ASSUME NEW i \in 1..n, R.skip[Q.seq[i]] # Null
         PROVE  \E j \in 1..n : Jump(R, kind, i, j)
    <3>1. CASE i # a
      <4>1. PICK j \in 1..n : Jump(Q, kind, i, j)
            BY <1>1, <2>8, <2>10, <3>1
      <4>2. ASSUME NEW k \in i..(j - 1) PROVE R.skip[Q.seq[k]] # Null
        <5>1. k \in 1..n /\ Q.skip[Q.seq[k]] # Null
              BY <1>1, <4>1 DEF Jump
        <5>2. CASE k # a
              BY <2>8, <5>1, <5>2
        <5>3. CASE k = a /\ v # Null
              BY <1>x, <2>5, <5>3
        <5>4. CASE k = a /\ v = Null
          <6>1. a + 1 = r /\ Q.skip[s] = Null
            <7>1. Q.seq[a + 1] # Null
                  BY <1>1, <2>3
            <7> QED
                BY <2>6, <5>4, <7>1
          <6>2. i < a /\ a < j /\ i \in 1..(a - 1)
                BY <1>1, <3>1, <4>1, <5>4 DEF Jump
          <6>3. Q.seq[j] # s
                BY <4>1, <6>2 DEF Jump
          <6>4. j # r
                BY <2>3, <6>3
          <6>5. r \in i..(j - 1)
                BY <1>1, <6>1, <6>2, <6>4
          <6>6. Q.skip[Q.seq[r]] # Null
                BY <4>1, <6>5 DEF Jump
          <6> QED
              BY <2>3, <6>1, <6>6
        <5> QED
            BY <5>2, <5>3, <5>4
      <4>3. Jump(R, kind, i, j)
            BY <2>5, <2>8, <3>1, <4>1, <4>2 DEF Jump
      <4> QED
          BY <4>3
    <3>2. CASE i = a
      <4>0. v # Null
            BY <1>x, <2>5, <2>10, <3>2
      <4>1. CASE \E j \in 1..n : r < j /\ v = Q.seq[j] /\ Jump(Q, kind, r, j)
        <5>1. PICK j \in 1..n : r < j /\ v = Q.seq[j] /\ Jump(Q, kind, r, j)
              BY <4>1
        <5>2. ASSUME NEW k \in a..j
              PROVE  kind[Q.seq[k]] = kind[Q.seq[a]] /\ (k # j => R.skip[Q.seq[k]] # Null)
          <6>r. r \in a..r /\ kind[Q.seq[r]] = kind[Q.seq[a]]
            <7>1. r \in a..r
                  BY <1>1, <2>3
            <7> QED
                BY <2>2, <7>1 DEF Jump
          <6>1. CASE k = a
                BY <1>x, <2>5, <4>0, <6>1
          <6>2. CASE k # a /\ k < r
            <7>1. k \in a..r /\ k \in a..(r - 1) /\ k \in 1..n
                  BY <1>1, <2>3, <6>2
            <7> QED
                BY <2>2, <2>8, <6>2, <7>1 DEF Jump
          <6>3. CASE k # a /\ ~(k < r)
            <7>1. k \in r..j /\ k \in 1..n /\ (k # j => k \in r..(j - 1))
                  BY <1>1, <2>3, <5>1, <6>3
            <7>2. kind[Q.seq[k]] = kind[Q.seq[r]]
                  BY <5>1, <7>1 DEF Jump
            <7>3. k # j => Q.skip[Q.seq[k]] # Null
                  BY <5>1, <7>1 DEF Jump
            <7> QED
                BY <2>8, <6>3, <6>r, <7>1, <7>2, <7>3
          <6> QED
              BY <6>1, <6>2, <6>3
        <5>3. a < j /\ \A k \in a..(j - 1) : k \in a..j /\ k # j
              BY <1>1, <2>3, <5>1
        <5>4. Jump(R, kind, a, j)
              BY <1>x, <2>5, <5>1, <5>2, <5>3 DEF Jump
        <5> QED
            BY <3>2, <5>4
      <4>2. CASE v = Q.seq[a + 1]
        <5>1. a..(a + 1) = {a, a + 1} /\ a..((a + 1) - 1) = {a} /\ a < a + 1 /\ a + 1 \in a..r
              BY <1>1, <2>3
        <5>2. kind[Q.seq[a + 1]] = kind[Q.seq[a]]
              BY <2>2, <5>1 DEF Jump
        <5>3. Jump(R, kind, a, a + 1)
              BY <1>x, <2>5, <4>0, <4>2, <5>1, <5>2 DEF Jump
        <5> QED
            BY <2>3, <3>2, <5>3
      <4> QED
          BY <2>6, <4>0, <4>1, <4>2
    <3> QED
        BY <3>1, <3>2
  <2>11. Good(R, kind)
         BY <1>1, <2>5, <2>10 DEF Good
  <2> QED
      BY <2>1, <2>5, <2>9, <2>11 DEF x
<1> QED
    BY <1>2, <1>3

(* Dequeue of number q, when none of those in front of it points at it.    *)
LEMMA TakeKeeps ==
  ASSUME NEW Q, NEW kind, Good(Q, kind), NEW q \in 1..Len(Q.seq), NEW pw,
         q = 1 => pw = HeadOf(Q), q > 1 => pw = Q.seq[q - 1],
         \A i \in 1..(q - 1) : Q.skip[Q.seq[i]] # Q.seq[q]
  PROVE  LET R == Dequeue(Q, pw, kind) IN
         /\ NextOf(Q, pw) = Q.seq[q]
         /\ Good(R, kind) /\ Waiting(R) = Waiting(Q) \ {Q.seq[q]} /\ Removed(Q, R, q)
         /\ R.failed = Q.failed /\ R.wake = Q.wake \ {Q.seq[q]}
         /\ \A y \in Threads \ {Q.seq[q]} :
              R.skip[y] = Q.skip[y] \/ (q > 1 /\ y = Q.seq[q - 1])
<1> DEFINE n == Len(Q.seq)
           at == IF q = 1 THEN n ELSE q - 1
<1>1. /\ n \in Nat /\ q \in 1..n /\ DOMAIN Q.seq = 1..n /\ Null \notin Threads
      /\ \A i, j \in 1..n : Q.seq[i] = Q.seq[j] => i = j
      /\ Q \in Queues /\ Distinct(Q.seq)
      /\ \A i \in 1..n : Q.seq[i] \in Threads
      /\ \A i \in 1..n : Q.skip[Q.seq[i]] # Null => \E j \in 1..n : Jump(Q, kind, i, j)
      BY QueueTyped
<1>n. n = Len(Q.seq)
      OBVIOUS
<1> HIDE DEF n
<1>2. n >= 1 /\ at \in 1..n /\ q = IF at = n THEN 1 ELSE at + 1
      BY <1>1
<1>3. pw = Q.seq[at]
  <2>1. HeadOf(Q) = Q.seq[n]
        BY <1>1, <1>2, <1>n DEF HeadOf
  <2> QED
      BY <1>1, <2>1
<1>at. at = IF q = 1 THEN n ELSE q - 1
      OBVIOUS
<1> HIDE DEF at
<1>4. NextOf(Q, pw) = Q.seq[q]
  <2>1. NextOf(Q, Q.seq[at]) = IF at = n THEN Q.seq[1] ELSE Q.seq[at + 1]
        BY <1>1, <1>2, <1>n, NextIs
  <2> QED
      BY <1>2, <1>3, <2>1
<1>5. \A i \in 1..n : Q.skip[Q.seq[i]] # Q.seq[q]
  <2> SUFFICES ASSUME NEW i \in 1..n, Q.skip[Q.seq[i]] = Q.seq[q] PROVE FALSE
      OBVIOUS
  <2>1. Q.seq[q] # Null
        BY <1>1
  <2>2. PICK j \in 1..n : Jump(Q, kind, i, j)
        BY <1>1, <2>1
  <2>3. i < j /\ Q.seq[j] = Q.seq[q]
        BY <2>2 DEF Jump
  <2>4. j = q
        BY <1>1, <2>3
  <2>5. i \in 1..(q - 1)
        BY <1>1, <2>3, <2>4
  <2> QED
      BY <2>5
<1>6. LET R == Dequeue(Q, Q.seq[at], kind) IN
      /\ Good(R, kind) /\ Waiting(R) = Waiting(Q) \ {Q.seq[q]} /\ Removed(Q, R, q)
      /\ R.failed = Q.failed /\ R.wake = Q.wake \ {Q.seq[q]}
      /\ \A y \in Threads \ {Q.seq[q]} : R.skip[y] = Q.skip[y] \/ (at < n /\ y = Q.seq[at])
  <2>1. at \in 1..Len(Q.seq) /\ q = IF at = Len(Q.seq) THEN 1 ELSE at + 1
        BY <1>2, <1>n
  <2>2. \A i \in 1..Len(Q.seq) : Q.skip[Q.seq[i]] # Q.seq[q]
        BY <1>5, <1>n
  <2>3. LET R == Dequeue(Q, Q.seq[at], kind) IN
        /\ Good(R, kind) /\ Waiting(R) = Waiting(Q) \ {Q.seq[q]} /\ Removed(Q, R, q)
        /\ R.failed = Q.failed /\ R.wake = Q.wake \ {Q.seq[q]}
        /\ \A y \in Threads \ {Q.seq[q]} :
             R.skip[y] = Q.skip[y] \/ (at < Len(Q.seq) /\ y = Q.seq[at])
        BY <2>1, <2>2, DequeueKeeps
  <2> QED
      BY <2>3, <1>n
<1>7. at < n => q > 1 /\ at = q - 1
      BY <1>1, <1>at
<1> DEFINE R == Dequeue(Q, Q.seq[at], kind)
<1>8. /\ Good(R, kind) /\ Waiting(R) = Waiting(Q) \ {Q.seq[q]} /\ Removed(Q, R, q)
      /\ R.failed = Q.failed /\ R.wake = Q.wake \ {Q.seq[q]}
      /\ \A y \in Threads \ {Q.seq[q]} : R.skip[y] = Q.skip[y] \/ (q > 1 /\ y = Q.seq[q - 1])
      BY <1>6, <1>7
<1> QED
    BY <1>3, <1>4, <1>8

(* Nothing points over the end of a chain.                                 *)
LEMMA NoneOver ==
  ASSUME NEW Q, NEW kind, Good(Q, kind), NEW q \in 1..Len(Q.seq),
         q > 1 => Q.skip[Q.seq[q - 1]] = Null
  PROVE  \A i \in 1..(q - 1) : Q.skip[Q.seq[i]] # Q.seq[q]
<1> SUFFICES ASSUME NEW i \in 1..(q - 1), Q.skip[Q.seq[i]] = Q.seq[q] PROVE FALSE
    OBVIOUS
<1>1. Len(Q.seq) \in Nat /\ i \in 1..Len(Q.seq) /\ q > 1
      BY QueueTyped
<1>2. Q.seq[q] # Null
      BY <1>1, QueueTyped
<1>3. PICK j \in 1..Len(Q.seq) : Jump(Q, kind, i, j)
      BY <1>1, <1>2, QueueTyped
<1>4. Q.seq[j] = Q.seq[q]
      BY <1>3 DEF Jump
<1>5. j = q
      BY <1>1, <1>4, QueueTyped
<1>6. q - 1 \in i..(j - 1)
      BY <1>1, <1>5
<1> QED
    BY <1>1, <1>3, <1>6 DEF Jump

(* TryRemove takes nobody but s off the queue.                             *)
LEMMA RemoveOnly ==
  ASSUME NEW Q, NEW kind, Good(Q, kind), NEW s \in Threads
  PROVE  LET R == Remove(Q, s, kind) IN
         /\ Good(R, kind) /\ R.failed = Q.failed
         /\ Waiting(R) = Waiting(Q) \/ Waiting(R) = Waiting(Q) \ {s}
<1> DEFINE n == Len(Q.seq)
           head == HeadOf(Q)
           Turn(l) ==
             LET w == NextOf(l.queue, l.pw) IN
             IF l.done \/ w = s THEN [l EXCEPT !.done = TRUE]
             ELSE LET sk == Skip(l.queue, w)
                      to == IF MuSameCondition(kind, s, w) THEN w ELSE sk.end
                  IN  [queue |-> IF to = w /\ MuSameCondition(kind, s, w)
                                 THEN FixSkip(l.queue, w, s) ELSE sk.queue,
                       pw |-> to, done |-> to = head]
           first == [queue |-> Q, pw |-> head, done |-> FALSE]
           turn == CHOOSE f : f = [i \in 0..n |->
                     IF i = 0 THEN first ELSE CHOOSE r \in {Turn(l) : l \in {f[i - 1]}} : TRUE]
           found == turn[n]
           Behind(L, pw) ==
             \/ pw = head
             \/ \E p \in 1..n : pw = Q.seq[p] /\ \A i \in 1..p : L.skip[Q.seq[i]] # s
           V == {l \in [queue : Queues, pw : Threads, done : BOOLEAN] :
                   /\ Good(l.queue, kind) /\ l.queue.seq = Q.seq /\ l.queue.failed = Q.failed
                   /\ Behind(l.queue, l.pw)}
<1>1. Remove(Q, s, kind) =
        IF Q.seq = <<>> THEN Q
        ELSE IF NextOf(found.queue, found.pw) = s
             THEN Dequeue(found.queue, found.pw, kind) ELSE found.queue
      BY DEF Remove, Loop
<1>2. CASE Q.seq = <<>>
      BY <1>1, <1>2
<1>3. CASE Q.seq # <<>>
  <2>1. /\ n \in Nat /\ n > 0 /\ head \in Threads /\ Q \in Queues /\ DOMAIN Q.seq = 1..n
        /\ head = Q.seq[n] /\ \A i \in 1..n : Q.seq[i] \in Threads
        /\ \A i, j \in 1..n : Q.seq[i] = Q.seq[j] => i = j
        BY <1>3, HeadIs, QueueTyped
  <2>2. first \in V
        BY <2>1
  \* The number behind pw.
  <2>3. ASSUME NEW l \in V
        PROVE  \E p \in 0..(n - 1) :
                 /\ l.pw = IF p = 0 THEN HeadOf(l.queue) ELSE l.queue.seq[p]
                 /\ NextOf(l.queue, l.pw) = Q.seq[p + 1] /\ p + 1 \in 1..n
                 /\ p >= 1 => \A i \in 1..p : l.queue.skip[Q.seq[i]] # s
    <3>1. /\ Good(l.queue, kind) /\ l.queue.seq = Q.seq /\ l.queue \in Queues
          /\ Distinct(l.queue.seq) /\ HeadOf(l.queue) = head
          BY QueueTyped DEF HeadOf
    <3>2. CASE l.pw = head
      <4>1. NextOf(l.queue, l.pw) = Q.seq[1] /\ 0 \in 0..(n - 1) /\ 0 + 1 = 1 /\ 1 \in 1..n
        <5>1. n \in 1..n /\ 1 \in 1..n /\ 0 \in 0..(n - 1)
              BY <2>1
        <5> QED
            BY <2>1, <3>1, <3>2, <5>1, NextIs
      <4> QED
          BY <3>1, <3>2, <4>1
    <3>3. CASE l.pw # head
      <4>1. PICK p \in 1..n : l.pw = Q.seq[p] /\ \A i \in 1..p : l.queue.skip[Q.seq[i]] # s
            BY <3>3
      <4>2. p \in 0..(n - 1) /\ p # n /\ p # 0 /\ p + 1 \in 1..n
            BY <2>1, <3>3, <4>1
      <4>3. NextOf(l.queue, l.pw) = Q.seq[p + 1]
            BY <2>1, <3>1, <4>1, <4>2, NextIs, SMTT(30)
      <4> QED
          BY <3>1, <4>1, <4>2, <4>3
    <3> QED
        BY <3>2, <3>3
  <2>4. ASSUME NEW l \in V PROVE Turn(l) \in V
    <3> DEFINE L == l.queue
               w == NextOf(L, l.pw)
               sk == Skip(L, w)
    <3>1. Good(L, kind) /\ L.seq = Q.seq /\ L.failed = Q.failed /\ l.pw \in Threads
          /\ Behind(L, l.pw) /\ L \in Queues
          OBVIOUS
    <3>2. PICK p \in 0..(n - 1) :
            /\ w = Q.seq[p + 1] /\ p + 1 \in 1..n
            /\ p >= 1 => \A i \in 1..p : L.skip[Q.seq[i]] # s
          BY <2>3
    <3>3. CASE l.done \/ w = s
          BY <3>3
    <3>4. CASE ~(l.done \/ w = s) /\ MuSameCondition(kind, s, w)
      <4> DEFINE R == FixSkip(L, w, s)
      <4>1. Turn(l) = [queue |-> R, pw |-> w, done |-> w = head]
            BY <3>4
      <4>2. \A i \in 1..((p + 1) - 1) : L.skip[Q.seq[i]] # s
        <5>1. \A i \in 1..((p + 1) - 1) : p >= 1 /\ i \in 1..p
              BY <2>1
        <5> QED
            BY <3>2, <5>1
      <4> HIDE DEF L
      <4>3. /\ Good(R, kind) /\ R.seq = Q.seq /\ R.failed = Q.failed
            /\ \A i \in 1..(p + 1) : R.skip[Q.seq[i]] # s
        <5>1. p + 1 \in 1..Len(L.seq)
              BY <3>1, <3>2
        <5> QED
            BY <3>1, <3>2, <4>2, <5>1, FixSkipKeeps
      <4>4. R \in Queues /\ w \in Threads
            BY <2>1, <3>2, <4>3, QueueTyped
      <4> HIDE DEF R, w, Turn
      <4>5. Behind(R, w)
            BY <3>2, <4>3
      <4> QED
          BY <4>1, <4>3, <4>4, <4>5
    <3>5. CASE ~(l.done \/ w = s) /\ ~MuSameCondition(kind, s, w)
      <4>1. Turn(l) = [queue |-> sk.queue, pw |-> sk.end, done |-> sk.end = head]
            BY <3>5
      <4>2. PICK e : ChainEnd(L, kind, p + 1, e)
            BY <3>1, <3>2, ChainEnds
      <4>3. /\ sk.end = Q.seq[e] /\ Good(sk.queue, kind) /\ SameChains(L, sk.queue)
            /\ \A y \in Threads : sk.queue.skip[y] = L.skip[y] \/ \E a \in (p + 1)..e : y = Q.seq[a]
            BY <3>1, <3>2, <4>2, SkipKeeps
      <4>4. e \in 1..n /\ e \in (p + 1)..n
            BY <2>1, <3>1, <3>2, <4>2 DEF ChainEnd
      <4>5. sk.queue \in Queues /\ sk.queue.seq = Q.seq /\ sk.queue.failed = Q.failed
        <5>1. sk.queue \in Queues
              BY <4>3, QueueTyped
        <5> HIDE DEF sk, L
        <5> QED
            BY <3>1, <4>3, <5>1 DEF SameChains
      <4>6. \A k \in (p + 1)..e : kind[Q.seq[k]] # kind[s]
        <5>1. \A k \in (p + 1)..e : kind[Q.seq[k]] = kind[w]
              BY <3>1, <3>2, <4>2 DEF ChainEnd
        <5> HIDE DEF w
        <5> QED
            BY <3>5, <5>1 DEF MuSameCondition
      <4> HIDE DEF sk, w, L, Turn
      <4>7. ASSUME NEW i \in 1..e PROVE sk.queue.skip[Q.seq[i]] # s
        <5>1. i \in 1..n
              BY <2>1, <4>4
        <5>2. CASE i \in (p + 1)..e
          <6> SUFFICES ASSUME sk.queue.skip[Q.seq[i]] = s PROVE FALSE
              OBVIOUS
          <6>1. s # Null
                BY QueueTyped
          <6>2. PICK j \in 1..n : Jump(sk.queue, kind, i, j)
                BY <4>3, <4>5, <5>1, <6>1, QueueTyped
          <6>3. i < j /\ Q.seq[j] = s /\ j \in i..j
                BY <2>1, <4>5, <6>2 DEF Jump
          <6>4. kind[Q.seq[j]] = kind[Q.seq[i]]
                BY <4>5, <6>2, <6>3 DEF Jump
          <6> QED
              BY <4>6, <5>2, <6>3, <6>4
        <5>3. CASE i \notin (p + 1)..e
          <6>1. i \in 1..p /\ p >= 1
                BY <2>1, <4>4, <5>3
          <6>2. \A a \in (p + 1)..e : Q.seq[a] # Q.seq[i]
            <7> SUFFICES ASSUME NEW a \in (p + 1)..e, Q.seq[a] = Q.seq[i] PROVE FALSE
                OBVIOUS
            <7>1. a \in 1..n
                  BY <2>1, <4>4
            <7>2. a = i
                  BY <2>1, <5>1, <7>1
            <7> QED
                BY <5>3, <7>2
          <6>3. sk.queue.skip[Q.seq[i]] = L.skip[Q.seq[i]]
                BY <2>1, <4>3, <5>1, <6>2
          <6> QED
              BY <3>2, <6>1, <6>3
        <5> QED
            BY <5>2, <5>3
      <4>8. Behind(sk.queue, sk.end) /\ sk.end \in Threads
            BY <2>1, <4>3, <4>4, <4>7
      <4> QED
          BY <4>1, <4>3, <4>5, <4>8
    <3> QED
        BY <3>3, <3>4, <3>5
  <2> HIDE DEF Turn, first, V
  <2> DEFINE step == [i \in 1..n |-> [l \in V |-> Turn(l)]]
  <2>5. PICK f : Iterates(f, n, V, first, step)
    <3>1. step \in [1..n -> [V -> V]]
          BY <2>4
    <3> HIDE DEF step
    <3> QED
        BY <2>1, <2>2, <3>1, Recursion
  <2>6. /\ f \in [0..n -> V] /\ f = [i \in 0..n |-> f[i]]
        /\ \A i \in 0..n : f[i] = IF i = 0 THEN first ELSE step[i][f[i - 1]]
        BY <2>5 DEF Iterates
  <2>7. /\ \A i \in 1..n : i - 1 \in 0..n /\ i \in 0..n /\ i # 0
        /\ \A i \in 0..n : i = 0 \/ i \in 1..n
        /\ n \in 0..n /\ 0 \in 0..n
        BY <2>1
  <2>8. \A i \in 1..n : f[i] = Turn(f[i - 1])
    <3> SUFFICES ASSUME NEW i \in 1..n PROVE f[i] = Turn(f[i - 1])
        OBVIOUS
    <3>1. f[i] = step[i][f[i - 1]] /\ f[i - 1] \in V
          BY <2>6, <2>7
    <3> QED
        BY <3>1
  <2>9. turn = f
    <3>1. ASSUME NEW g, g = [i \in 0..n |->
                   IF i = 0 THEN first ELSE CHOOSE r \in {Turn(l) : l \in {g[i - 1]}} : TRUE]
          PROVE  g = f
      <4> DEFINE T == {i \in 0..n : g[i] = f[i]}
      <4>1. 0 \in T
        <5>1. g[0] = first /\ f[0] = first
              BY <2>6, <2>7, <3>1
        <5> QED
            BY <2>7, <5>1
      <4>2. ASSUME NEW i \in 1..n, i - 1 \in T PROVE i \in T
            BY <2>7, <2>8, <3>1, <4>2
      <4>3. \A i \in 0..n : i \in T
        <5> HIDE DEF T
        <5> QED
            BY <2>1, <4>1, <4>2, Induction
      <4>4. g = [i \in 0..n |-> g[i]]
            BY <3>1
      <4> HIDE DEF turn
      <4> QED
          BY <2>6, <4>3, <4>4
    <3>2. f = [i \in 0..n |->
            IF i = 0 THEN first ELSE CHOOSE r \in {Turn(l) : l \in {f[i - 1]}} : TRUE]
      <4>1. \A i \in 0..n : f[i] = IF i = 0 THEN first ELSE
                                     CHOOSE r \in {Turn(l) : l \in {f[i - 1]}} : TRUE
            BY <2>6, <2>7, <2>8
      <4> QED
          BY <2>6, <4>1
    <3> QED
        BY <3>1, <3>2
  <2>10. found \in V
         BY <2>6, <2>7, <2>9
  <2> HIDE DEF turn
  <2> DEFINE L == found.queue
  <2>11. Good(L, kind) /\ L.seq = Q.seq /\ L.failed = Q.failed /\ Waiting(L) = Waiting(Q)
         BY <2>10 DEF V, Waiting
  <2>12. CASE NextOf(L, found.pw) # s
         BY <1>1, <1>3, <2>11, <2>12
  <2>13. CASE NextOf(L, found.pw) = s
    <3>1. PICK p \in 0..(n - 1) :
            /\ found.pw = IF p = 0 THEN HeadOf(L) ELSE L.seq[p]
            /\ s = Q.seq[p + 1] /\ p + 1 \in 1..n
            /\ p >= 1 => \A i \in 1..p : L.skip[Q.seq[i]] # s
          BY <2>3, <2>10, <2>13
    <3> HIDE DEF found, L
    <3>2. LET R == Dequeue(L, found.pw, kind) IN
          Good(R, kind) /\ Waiting(R) = Waiting(L) \ {s} /\ R.failed = L.failed
      <4> DEFINE q == p + 1
                 pw == found.pw
      <4>1. /\ q \in 1..Len(L.seq) /\ s = L.seq[q] /\ q - 1 = p
            /\ q = 1 => pw = HeadOf(L)
            /\ q > 1 => pw = L.seq[q - 1]
        <5>1. q \in 1..Len(L.seq) /\ s = L.seq[q] /\ q - 1 = p
              BY <2>11, <3>1
        <5> QED
            BY <3>1, <5>1
      <4>2. \A i \in 1..(q - 1) : L.skip[L.seq[i]] # L.seq[q]
        <5>1. q - 1 = p /\ \A i \in 1..p : p >= 1
              BY <2>1, <3>1
        <5> QED
            BY <2>11, <3>1, <5>1
      <4>3. Good(L, kind)
            BY <2>11
      <4> HIDE DEF pw, q
      <4>4. LET R == Dequeue(L, pw, kind) IN
            Good(R, kind) /\ Waiting(R) = Waiting(L) \ {L.seq[q]} /\ R.failed = L.failed
            BY <4>1, <4>2, <4>3, TakeKeeps
      <4> QED
          BY <4>1, <4>4 DEF pw
    <3> QED
        BY <1>1, <1>3, <2>11, <2>13, <3>2 DEF L
  <2> QED
      BY <2>12, <2>13
<1> QED
    BY <1>2, <1>3
-----------------------------------------------------------------------------
(* DequeueAllWakeable.                                                     *)
Elems(list) == {list[i] : i \in DOMAIN list}

(* An unlocker that has found whom to wake takes them off the queue.       *)
Woken(Q, kind, R) ==
  /\ Good(R.queue, kind) /\ R.queue.failed = Q.failed
  /\ R.list \in Seq(Threads) /\ R.list # <<>> /\ Distinct(R.list)
  /\ Elems(R.list) \subseteq Waiting(Q)
  /\ Waiting(R.queue) = Waiting(Q) \ Elems(R.list)

(* One more thread on a list of different threads.                         *)
LEMMA AppendDistinct ==
  ASSUME NEW S, NEW list \in Seq(S), Distinct(list), NEW w \in S, w \notin Elems(list)
  PROVE  /\ Append(list, w) \in Seq(S) /\ Append(list, w) # <<>> /\ Distinct(Append(list, w))
         /\ Elems(Append(list, w)) = Elems(list) \cup {w}
<1> DEFINE n == Len(list)
           new == Append(list, w)
<1>1. n \in Nat /\ DOMAIN list = 1..n /\ new \in Seq(S) /\ DOMAIN new = 1..(n + 1)
      OBVIOUS
<1>2. new[n + 1] = w /\ \A i \in 1..n : new[i] = list[i]
      BY <1>1
<1> HIDE DEF new, n
<1>3. \A i \in 1..(n + 1) : i = n + 1 \/ i \in 1..n
      BY <1>1
<1>4. \A i \in 1..n : i \in 1..(n + 1) /\ i # n + 1
      BY <1>1
<1>5. n + 1 \in 1..(n + 1)
      BY <1>1
<1>6. Elems(new) = Elems(list) \cup {w}
      BY <1>1, <1>2, <1>3, <1>4, <1>5, SMTT(20) DEF Elems
<1>7. Distinct(new)
  <2> SUFFICES ASSUME NEW i \in 1..(n + 1), NEW j \in 1..(n + 1), new[i] = new[j] PROVE i = j
      BY <1>1 DEF Distinct
  <2>1. \A k \in 1..n : list[k] # w
        BY <1>1 DEF Elems
  <2>2. CASE i \in 1..n /\ j \in 1..n
        BY <1>1, <1>2, <2>2 DEF Distinct
  <2>3. CASE i = n + 1 /\ j \in 1..n
        BY <1>2, <2>1, <2>3
  <2>4. CASE i \in 1..n /\ j = n + 1
        BY <1>2, <2>1, <2>4
  <2>5. CASE i = n + 1 /\ j = n + 1
        BY <2>5
  <2> QED
      BY <1>3, <2>2, <2>3, <2>4, <2>5
<1>8. new # <<>>
      BY <1>1, <1>5
<1> QED
    BY <1>1, <1>6, <1>7, <1>8 DEF new

(* From number q on, all waiters of the kinds in G are marked to wake, and *)
(* no others but those that are skipped.                                   *)
Marks(Q, kind, q, G) ==
  \A k \in q..Len(Q.seq) :
    /\ kind[Q.seq[k]] \in G => Q.seq[k] \in Q.wake
    /\ kind[Q.seq[k]] \notin G /\ Q.seq[k] \in Q.wake =>
         k > q /\ Q.skip[Q.seq[k - 1]] # Null

(* Who is marked is taken off the queue, and the list to wake is theirs.   *)
LEMMA WakesAll ==
  ASSUME NEW Q, NEW kind, Good(Q, kind), NEW q0 \in 1..Len(Q.seq), NEW pw0,
         q0 = 1 => pw0 = HeadOf(Q),
         q0 > 1 => pw0 = Q.seq[q0 - 1] /\ Q.skip[pw0] = Null,
         Q.seq[q0] \in Q.wake, NEW G,
         \/ kind[Q.seq[q0]][1] = "X"
         \/ Marks(Q, kind, q0, G) /\ (q0 > 1 => kind[pw0] \notin G)
  PROVE  Woken(Q, kind, DequeueAllWakeable(Q, pw0, kind))
<1> DEFINE n == 2 * Len(Q.seq)
           orig == HeadOf(Q)
           Stop(Q1, pw, skipped) ==
             HeadOf(Q1) # orig \/ (pw = HeadOf(Q1) /\ skipped)
           Turn(l) ==
             IF l.done THEN l
             ELSE LET w == NextOf(l.queue, l.pw) IN
               IF w \in l.queue.wake
               THEN LET Q1 == Dequeue(Check(l.queue, l.queue.skip[l.pw] = Null,
                                            "bad skip in DequeueAllWakeable"), l.pw, kind)
                    IN  [l EXCEPT !.queue = Q1, !.list = Append(@, w),
                                  !.done = kind[w][1] = "X" \/ Stop(Q1, l.pw, l.skipped)]
               ELSE LET sk == Skip(l.queue, w)
                    IN  [l EXCEPT !.queue = sk.queue, !.pw = sk.end, !.skipped = TRUE,
                                  !.done = Stop(sk.queue, sk.end, TRUE)]
           first == [queue |-> Q, pw |-> pw0, list |-> <<>>, skipped |-> FALSE, done |-> FALSE]
           turn == CHOOSE f : f = [i \in 0..n |->
                     IF i = 0 THEN first ELSE CHOOSE r \in {Turn(l) : l \in {f[i - 1]}} : TRUE]
           At(l, q) ==
             /\ q \in 1..Len(l.queue.seq)
             /\ q = 1 => l.pw = HeadOf(l.queue) /\ ~l.skipped
             /\ q > 1 => l.pw = l.queue.seq[q - 1]
           Walking(l, q) ==
             /\ At(l, q) /\ HeadOf(l.queue) = orig /\ Marks(l.queue, kind, q, G)
             /\ q > 1 => kind[l.pw] \notin G
           V0 == {l \in [queue : Queues, pw : Threads, list : Seq(Threads), skipped : BOOLEAN,
                         done : BOOLEAN] :
                    /\ Good(l.queue, kind) /\ l.queue.failed = Q.failed
                    /\ Distinct(l.list) /\ Elems(l.list) \subseteq Waiting(Q)
                    /\ Waiting(l.queue) = Waiting(Q) \ Elems(l.list)}
           V == {l \in V0 : l.list # <<>> /\ (l.done \/ \E q \in Nat : Walking(l, q))}
<1>1. DequeueAllWakeable(Q, pw0, kind) = turn[n]
      BY DEF DequeueAllWakeable, Loop
<1>2. /\ Len(Q.seq) \in Nat /\ Len(Q.seq) > 0 /\ n \in Nat /\ n > 0 /\ orig \in Threads
      /\ Q \in Queues /\ orig \in Waiting(Q) /\ Waiting(Q) \subseteq Threads
  <2>1. Q.seq # <<>> /\ Q \in Queues
        BY QueueTyped
  <2> QED
      BY <2>1, HeadIs
<1>3. first \in V0 /\ At(first, q0) /\ first.queue = Q /\ ~first.done
  <2>1. pw0 \in Threads
        BY <1>2, QueueTyped
  <2>2. <<>> \in Seq(Threads) /\ Distinct(<<>>) /\ Elems(<<>>) = {}
        BY DEF Distinct, Elems
  <2>3. Waiting(Q) = Waiting(Q) \ {}
        OBVIOUS
  <2> QED
      BY <1>2, <2>1, <2>2, <2>3
<1>orig. orig = HeadOf(Q)
      OBVIOUS
<1> HIDE DEF n, orig
\* The next waiter is number q.
<1>4. ASSUME NEW l \in V0, NEW q, At(l, q)
      PROVE  NextOf(l.queue, l.pw) = l.queue.seq[q] /\ l.queue.seq[q] \in Threads
             /\ l.queue.seq[q] \in Waiting(l.queue)
  <2> DEFINE L == l.queue
             m == Len(L.seq)
  <2>1. /\ Good(L, kind) /\ L \in Queues /\ Distinct(L.seq) /\ m \in Nat /\ DOMAIN L.seq = 1..m
        /\ q \in 1..m /\ L.seq[q] \in Threads
        BY <1>4, QueueTyped
  <2>2. CASE q = 1
    <3>1. m \in 1..m /\ m \in DOMAIN L.seq /\ 1 \in DOMAIN L.seq
          BY <2>1
    <3>2. NextOf(L, L.seq[m]) = L.seq[1] /\ L.seq[m] = HeadOf(L)
          BY <2>1, <3>1, NextIs
    <3> QED
        BY <1>4, <2>1, <2>2, <3>2 DEF Waiting
  <2>3. CASE q > 1
    <3>1. q - 1 \in DOMAIN L.seq /\ q - 1 # m /\ (q - 1) + 1 = q
          BY <2>1, <2>3, SMTT(30)
    <3>2. NextOf(L, L.seq[q - 1]) = L.seq[(q - 1) + 1]
          BY <2>1, <3>1, NextIs, SMTT(30)
    <3> QED
        BY <1>4, <2>1, <2>3, <3>1, <3>2 DEF Waiting
  <2> QED
      BY <2>1, <2>2, <2>3
\* A marked waiter behind the end of a chain is taken.
<1>5. ASSUME NEW l \in V0, NEW q, At(l, q), ~l.done, q > 1 => l.queue.skip[l.pw] = Null,
             l.queue.seq[q] \in l.queue.wake
      PROVE  LET w == l.queue.seq[q]
                 Q1 == Dequeue(l.queue, l.pw, kind)
             IN  /\ Turn(l) = [l EXCEPT !.queue = Q1, !.list = Append(@, w),
                                 !.done = kind[w][1] = "X" \/ Stop(Q1, l.pw, l.skipped)]
                 /\ Turn(l) \in V0 /\ Turn(l).list # <<>> /\ Good(Q1, kind)
                 /\ Turn(l).done <=> (kind[w][1] = "X" \/ Stop(Q1, l.pw, l.skipped))
                 /\ Turn(l).queue = Q1 /\ Turn(l).pw = l.pw /\ Turn(l).skipped = l.skipped
                 /\ Waiting(Q1) = Waiting(l.queue) \ {w} /\ Removed(l.queue, Q1, q)
                 /\ Q1.wake = l.queue.wake \ {w}
                 /\ \A y \in Threads \ {w} : Q1.skip[y] = l.queue.skip[y] \/ (q > 1 /\ y = l.pw)
  <2> DEFINE L == l.queue
             w == L.seq[q]
             Q1 == Dequeue(L, l.pw, kind)
  <2>1. /\ Good(L, kind) /\ L.failed = Q.failed /\ q \in 1..Len(L.seq) /\ Len(L.seq) \in Nat
        /\ q = 1 => l.pw = HeadOf(L)
        /\ q > 1 => l.pw = L.seq[q - 1]
        /\ NextOf(L, l.pw) = w /\ w \in Threads /\ w \in Waiting(L) /\ w \in L.wake
        BY <1>4, <1>5, QueueTyped
  <2>2. L.skip[l.pw] = Null
    <3>1. CASE q > 1
          BY <1>5, <3>1
    <3>2. CASE q = 1
      <4>1. Len(L.seq) \in 1..Len(L.seq) /\ L.seq # <<>>
            BY <2>1
      <4>2. l.pw = L.seq[Len(L.seq)]
            BY <2>1, <3>2, <4>1 DEF HeadOf
      <4> QED
          BY <2>1, <4>1, <4>2, ChainsEnd
    <3> QED
        BY <2>1, <3>1, <3>2
  <2>3. Check(L, L.skip[l.pw] = Null, "bad skip in DequeueAllWakeable") = L
        BY <2>2 DEF Check
  <2>4. Turn(l) = [l EXCEPT !.queue = Q1, !.list = Append(@, w),
                     !.done = kind[w][1] = "X" \/ Stop(Q1, l.pw, l.skipped)]
        BY <1>5, <2>1, <2>3
  <2>5. \A i \in 1..(q - 1) : L.skip[L.seq[i]] # L.seq[q]
    <3>1. q > 1 => L.skip[L.seq[q - 1]] = Null
          BY <2>1, <2>2
    <3> HIDE DEF L
    <3> QED
        BY <2>1, <3>1, NoneOver
  <2>6. /\ Good(Q1, kind) /\ Waiting(Q1) = Waiting(L) \ {w} /\ Removed(L, Q1, q)
        /\ Q1.failed = L.failed /\ Q1.wake = L.wake \ {w}
        /\ \A y \in Threads \ {w} : Q1.skip[y] = L.skip[y] \/ (q > 1 /\ y = L.seq[q - 1])
        BY <2>1, <2>5, TakeKeeps
  <2>7. Q1 \in Queues
        BY <2>6, QueueTyped
  <2>8. /\ l.list \in Seq(Threads) /\ Distinct(l.list) /\ w \notin Elems(l.list)
        /\ Elems(l.list) \subseteq Waiting(Q) /\ w \in Waiting(Q)
        /\ Waiting(L) = Waiting(Q) \ Elems(l.list)
        BY <2>1
  <2> DEFINE list == Append(l.list, w)
             done == kind[w][1] = "X" \/ Stop(Q1, l.pw, l.skipped)
  <2>9. /\ list \in Seq(Threads) /\ list # <<>> /\ Distinct(list)
        /\ Elems(list) = Elems(l.list) \cup {w}
    <3> HIDE DEF w
    <3> QED
        BY <2>1, <2>8, AppendDistinct
  <2>10. done \in BOOLEAN
         OBVIOUS
  <2>11. l \in [queue : Queues, pw : Threads, list : Seq(Threads), skipped : BOOLEAN,
                done : BOOLEAN]
         OBVIOUS
  <2>12. Turn(l) = [l EXCEPT !.queue = Q1, !.list = list, !.done = done]
         BY <2>4
  <2> HIDE DEF Q1, list, done, Turn
  <2>13. /\ Turn(l).queue = Q1 /\ Turn(l).pw = l.pw /\ Turn(l).skipped = l.skipped
         /\ Turn(l).list = list /\ Turn(l).done = done
         /\ Turn(l) \in [queue : Queues, pw : Threads, list : Seq(Threads), skipped : BOOLEAN,
                         done : BOOLEAN]
         BY <2>7, <2>9, <2>10, <2>11, <2>12
  <2>14. /\ Elems(list) \subseteq Waiting(Q) /\ Waiting(Q1) = Waiting(Q) \ Elems(list)
    <3> HIDE DEF w, L
    <3> QED
        BY <2>6, <2>8, <2>9
  <2>15. Turn(l) \in V0
    <3> HIDE DEF L, w
    <3> QED
        BY <2>1, <2>6, <2>9, <2>13, <2>14, SMTT(30)
  <2> HIDE DEF L, w
  <2>16. \A y \in Threads \ {w} : Q1.skip[y] = L.skip[y] \/ (q > 1 /\ y = l.pw)
         BY <2>1, <2>6, SMTT(30)
  <2> QED
      BY <2>4, <2>6, <2>9, <2>13, <2>15, <2>16 DEF L, w, Q1, done
\* A walk goes on or is over.
<1>6. ASSUME NEW l \in V0, NEW q, Walking(l, q), ~l.done
      PROVE  /\ Turn(l) \in V0
             /\ Turn(l).done \/ \E p \in Nat : Walking(Turn(l), p)
             /\ l.list # <<>> \/ l.queue.seq[q] \in l.queue.wake => Turn(l).list # <<>>
  <2> DEFINE L == l.queue
             m == Len(L.seq)
             w == L.seq[q]
  <2>1. /\ At(l, q) /\ HeadOf(L) = orig /\ Marks(L, kind, q, G) /\ (q > 1 => kind[l.pw] \notin G)
        /\ Good(L, kind) /\ L \in Queues /\ m \in Nat /\ q \in 1..m /\ DOMAIN L.seq = 1..m
        /\ q = 1 => l.pw = HeadOf(L) /\ ~l.skipped
        /\ q > 1 => l.pw = L.seq[q - 1]
        /\ NextOf(L, l.pw) = w /\ w \in Threads /\ w \in Waiting(L) /\ orig = L.seq[m]
        /\ \A i, j \in 1..m : L.seq[i] = L.seq[j] => i = j
        /\ \A i \in 1..m : L.seq[i] \in Threads
    <3>1. At(l, q) /\ HeadOf(L) = orig /\ Marks(L, kind, q, G) /\ (q > 1 => kind[l.pw] \notin G)
          BY <1>6
    <3>2. Good(L, kind)
          OBVIOUS
    <3>3. /\ L \in Queues /\ m \in Nat /\ q \in 1..m /\ DOMAIN L.seq = 1..m
          /\ \A i, j \in 1..m : L.seq[i] = L.seq[j] => i = j
          /\ \A i \in 1..m : L.seq[i] \in Threads
          BY <3>1, <3>2, QueueTyped
    <3>4. HeadOf(L) = L.seq[m]
          BY <3>3, <3>2, HeadIs
    <3> QED
        BY <1>4, <3>1, <3>2, <3>3, <3>4
  <2>2. CASE w \in L.wake
    <3> DEFINE Q1 == Dequeue(L, l.pw, kind)
    <3>1. kind[w] \in G
          BY <2>1, <2>2 DEF Marks
    <3>2. q > 1 => L.skip[l.pw] = Null
      <4> SUFFICES ASSUME q > 1, L.skip[L.seq[q - 1]] # Null PROVE FALSE
          BY <2>1
      <4>1. q - 1 \in 1..m /\ (q - 1) + 1 = q
            BY <2>1
      <4>2. kind[L.seq[(q - 1) + 1]] = kind[L.seq[q - 1]]
            BY <2>1, <4>1, ChainsEnd, SMTT(30)
      <4> QED
          BY <2>1, <3>1, <4>1, <4>2
    <3>3. /\ Turn(l) \in V0 /\ Turn(l).list # <<>> /\ Good(Q1, kind)
          /\ Turn(l).done <=> (kind[w][1] = "X" \/ Stop(Q1, l.pw, l.skipped))
          /\ Turn(l).queue = Q1 /\ Turn(l).pw = l.pw /\ Turn(l).skipped = l.skipped
          /\ Waiting(Q1) = Waiting(L) \ {w} /\ Removed(L, Q1, q)
          /\ Q1.wake = L.wake \ {w}
          /\ \A y \in Threads \ {w} : Q1.skip[y] = L.skip[y] \/ (q > 1 /\ y = l.pw)
      <4>1. /\ At(l, q) /\ (q > 1 => l.queue.skip[l.pw] = Null)
            /\ l.queue.seq[q] \in l.queue.wake
            BY <2>1, <2>2, <3>2, SMTT(30)
      <4> HIDE DEF V0, At, Turn, Stop
      <4> QED
          BY <1>5, <1>6, <4>1, ZenonT(30)
    <3>4. CASE ~Turn(l).done
      <4>1. HeadOf(Q1) = orig /\ ~(l.pw = HeadOf(Q1) /\ l.skipped)
            BY <3>3, <3>4
      <4> HIDE DEF Q1, L, w, Turn
      <4>2. /\ Len(Q1.seq) = m - 1
            /\ \A k \in 1..(m - 1) : Q1.seq[k] = IF k < q THEN L.seq[k] ELSE L.seq[k + 1]
            BY <3>3 DEF Removed
      <4>3. q < m
        <5> SUFFICES ASSUME q = m PROVE FALSE
            BY <2>1
        <5>1. w = orig
              BY <2>1 DEF w
        <5>2. Q1.seq = <<>> \/ HeadOf(Q1) \in Waiting(Q1)
          <6>1. Q1 \in Queues
                BY <3>3, QueueTyped
          <6> QED
              BY <6>1, HeadIs
        <5>3. orig \notin Waiting(Q1)
              BY <3>3, <5>1
        <5>4. Q1.seq = <<>> => HeadOf(Q1) = Null
              BY DEF HeadOf
        <5> QED
            BY <1>2, <4>1, <5>2, <5>3, <5>4, QueueAssumption
      <4>4. At(Turn(l), q)
        <5>1. q \in 1..(m - 1) /\ (q > 1 => q - 1 \in 1..(m - 1) /\ q - 1 < q)
              BY <2>1, <4>3
        <5>2. q = 1 => l.pw = HeadOf(Q1) /\ ~l.skipped
              BY <2>1, <4>1
        <5>3. q > 1 => l.pw = Q1.seq[q - 1]
              BY <2>1, <4>2, <5>1
        <5> QED
            BY <3>3, <4>2, <5>1, <5>2, <5>3
      <4>5. Marks(Q1, kind, q, G)
        <5> SUFFICES ASSUME NEW k \in q..(m - 1)
                     PROVE  /\ kind[Q1.seq[k]] \in G => Q1.seq[k] \in Q1.wake
                            /\ kind[Q1.seq[k]] \notin G /\ Q1.seq[k] \in Q1.wake =>
                                 k > q /\ Q1.skip[Q1.seq[k - 1]] # Null
            BY <4>2 DEF Marks
        <5>1. /\ k \in 1..(m - 1) /\ ~(k < q) /\ k + 1 \in q..m /\ k + 1 \in 1..m /\ k + 1 # q
              /\ (k + 1) - 1 = k /\ k \in 1..m
              BY <2>1
        <5>2. Q1.seq[k] = L.seq[k + 1]
              BY <4>2, <5>1
        <5>3. L.seq[k + 1] # w
              BY <2>1, <5>1 DEF w
        <5>4. kind[Q1.seq[k]] \in G => Q1.seq[k] \in Q1.wake
              BY <2>1, <3>3, <5>1, <5>2, <5>3 DEF Marks, L
        <5>5. ASSUME kind[Q1.seq[k]] \notin G, Q1.seq[k] \in Q1.wake
              PROVE  k > q /\ Q1.skip[Q1.seq[k - 1]] # Null
          <6>1. L.skip[L.seq[k]] # Null
            <7>1. L.seq[k + 1] \in L.wake
                  BY <3>3, <5>2, <5>5
            <7>2. L.skip[L.seq[(k + 1) - 1]] # Null
                  BY <2>1, <5>1, <5>2, <5>5, <7>1 DEF Marks, L
            <7> QED
                BY <5>1, <7>2
          <6>2. kind[L.seq[k + 1]] = kind[L.seq[k]]
            <7>1. k \in 1..Len(L.seq) /\ Good(L, kind)
                  BY <2>1, <5>1
            <7> HIDE DEF V0, At, Walking, V, turn, first, Stop, m
            <7> QED
                BY <6>1, <7>1, ChainsEnd
          <6>3. k # q
                BY <3>1, <5>2, <5>5, <6>2 DEF w
          <6>4. k > q /\ k - 1 \in 1..(m - 1) /\ ~(k - 1 < q) /\ (k - 1) + 1 = k
                BY <2>1, <5>1, <6>3
          <6>5. Q1.seq[k - 1] = L.seq[k]
                BY <4>2, <6>4
          <6>6. L.seq[k] # w /\ (q > 1 => L.seq[k] # l.pw) /\ L.seq[k] \in Threads
            <7>1. q > 1 => q - 1 \in 1..m /\ q - 1 # k
                  BY <2>1, <6>4, SMTT(30)
            <7> QED
                BY <2>1, <5>1, <6>3, <7>1 DEF w, L
          <6>7. Q1.skip[L.seq[k]] = L.skip[L.seq[k]]
                BY <3>3, <6>6
          <6> QED
              BY <6>1, <6>4, <6>5, <6>7
        <5> QED
            BY <5>4, <5>5
      <4>6. q \in Nat /\ (q > 1 => kind[Turn(l).pw] \notin G)
            BY <2>1, <3>3
      <4> HIDE DEF At
      <4>7. Walking(Turn(l), q)
            BY <3>3, <4>1, <4>4, <4>5, <4>6
      <4> QED
          BY <3>3, <4>6, <4>7, SMTT(30)
    <3> HIDE DEF Turn
    <3> QED
        BY <3>3, <3>4
  <2>3. CASE w \notin L.wake
    <3> DEFINE sk == Skip(L, w)
               K == sk.queue
    <3>1. Turn(l) = [l EXCEPT !.queue = sk.queue, !.pw = sk.end, !.skipped = TRUE,
                       !.done = Stop(sk.queue, sk.end, TRUE)]
          BY <1>6, <2>1, <2>3
    <3>2. PICK e : ChainEnd(L, kind, q, e)
          BY <2>1, ChainEnds
    <3>3. e \in q..m /\ e \in 1..m /\ L.skip[L.seq[e]] = Null /\ kind[L.seq[e]] = kind[w]
          BY <2>1, <3>2 DEF ChainEnd
    <3>4. sk.end = L.seq[e] /\ Good(K, kind) /\ SameChains(L, K)
          BY <2>1, <3>2, SkipKeeps
    <3>5. K \in Queues
          BY <3>4, QueueTyped
    <3>6. kind[w] \notin G
          BY <2>1, <2>3 DEF Marks
    <3> DEFINE done == Stop(sk.queue, sk.end, TRUE)
    <3>7. done \in BOOLEAN /\ sk.end \in Threads
          BY <2>1, <3>3, <3>4
    <3>8. l \in [queue : Queues, pw : Threads, list : Seq(Threads), skipped : BOOLEAN,
                 done : BOOLEAN]
          OBVIOUS
    <3>9. Turn(l) = [l EXCEPT !.queue = K, !.pw = sk.end, !.skipped = TRUE, !.done = done]
          BY <3>1
    <3>d. done <=> (HeadOf(K) # orig \/ sk.end = HeadOf(K))
          OBVIOUS
    <3>l. /\ l.queue.failed = Q.failed /\ Distinct(l.list) /\ Elems(l.list) \subseteq Waiting(Q)
          /\ Waiting(L) = Waiting(Q) \ Elems(l.list)
          OBVIOUS
    <3> HIDE DEF K, Turn, done
    <3>10. /\ Turn(l).queue = K /\ Turn(l).pw = sk.end /\ Turn(l).skipped = TRUE
           /\ Turn(l).list = l.list /\ Turn(l).done = done
           /\ Turn(l) \in [queue : Queues, pw : Threads, list : Seq(Threads), skipped : BOOLEAN,
                           done : BOOLEAN]
           BY <3>5, <3>7, <3>8, <3>9
    <3>11. K.seq = L.seq /\ K.wake = L.wake /\ K.failed = L.failed /\ Waiting(K) = Waiting(L)
           /\ HeadOf(K) = HeadOf(L)
           BY <3>4 DEF SameChains, Waiting, HeadOf
    <3>12. Turn(l) \in V0
           BY <3>4, <3>10, <3>11, <3>l
    <3>13. CASE ~done
      <4>1. e < m
        <5>1. L.seq[e] # orig
              BY <2>1, <3>4, <3>11, <3>13, <3>d
        <5> QED
            BY <2>1, <3>3, <5>1
      <4>2. e + 1 \in 1..m /\ e + 1 > 1 /\ (e + 1) - 1 = e /\ e + 1 # 1 /\ e + 1 \in Nat
            BY <2>1, <3>3, <4>1, SMTT(30)
      <4>3. At(Turn(l), e + 1)
            BY <2>1, <3>4, <3>10, <3>11, <4>2
      <4>4. Marks(K, kind, e + 1, G)
        <5> SUFFICES ASSUME NEW k \in (e + 1)..m
                     PROVE  /\ kind[L.seq[k]] \in G => L.seq[k] \in L.wake
                            /\ kind[L.seq[k]] \notin G /\ L.seq[k] \in L.wake =>
                                 k > e + 1 /\ K.skip[L.seq[k - 1]] # Null
            BY <3>11 DEF Marks
        <5>1. k \in q..m /\ k - 1 \in 1..m /\ (k = e + 1 \/ k > e + 1)
              BY <2>1, <3>3
        <5>2. /\ kind[L.seq[k]] \in G => L.seq[k] \in L.wake
              /\ kind[L.seq[k]] \notin G /\ L.seq[k] \in L.wake => L.skip[L.seq[k - 1]] # Null
              BY <2>1, <5>1 DEF Marks
        <5>3. L.skip[L.seq[k - 1]] # Null => K.skip[L.seq[k - 1]] # Null
              BY <2>1, <3>4, <5>1 DEF SameChains
        <5>4. L.skip[L.seq[k - 1]] # Null => k # e + 1
              BY <3>3, <4>2
        <5> QED
            BY <5>1, <5>2, <5>3, <5>4
      <4>5. kind[Turn(l).pw] \notin G
            BY <3>3, <3>4, <3>6, <3>10
      <4> HIDE DEF At
      <4>6. Walking(Turn(l), e + 1)
            BY <2>1, <3>10, <3>11, <4>3, <4>4, <4>5, SMTT(30)
      <4> QED
          BY <2>3, <3>10, <3>12, <4>2, <4>6
    <3> QED
        BY <2>3, <3>10, <3>12, <3>13
  <2> QED
      BY <2>2, <2>3
<1>7. Turn(first) \in V
  <2>1. CASE kind[Q.seq[q0]][1] = "X"
    <3>1. q0 > 1 => first.queue.skip[first.pw] = Null
          BY SMTT(30)
    <3>2. Turn(first) \in V0 /\ Turn(first).list # <<>> /\ Turn(first).done
      <4> HIDE DEF first, V0, At, Turn
      <4> QED
          BY <1>3, <1>5, <2>1, <3>1
    <3> QED
        BY <3>2, ZenonT(30)
  <2>2. CASE Marks(Q, kind, q0, G) /\ (q0 > 1 => kind[pw0] \notin G)
    <3>1. Walking(first, q0)
          BY <1>3, <1>orig, <2>2
    <3>2. first.queue.seq[q0] \in first.queue.wake
          BY SMTT(30)
    <3> HIDE DEF first, V0, Turn, Walking
    <3> QED
        BY <1>3, <1>6, <3>1, <3>2
  <2> QED
      BY <2>1, <2>2
<1>8. ASSUME NEW l \in V PROVE Turn(l) \in V
  <2>1. CASE l.done
        BY <2>1
  <2>2. CASE ~l.done
    <3>1. PICK q \in Nat : Walking(l, q)
          BY <2>2
    <3>2. l \in V0 /\ l.list # <<>>
          OBVIOUS
    <3> HIDE DEF V0, Turn, Walking
    <3> QED
        BY <1>6, <2>2, <3>1, <3>2
  <2> QED
      BY <2>1, <2>2
<1> HIDE DEF Turn, first, V
<1> DEFINE V1 == V \cup {first}
           step == [i \in 1..n |-> [l \in V1 |-> Turn(l)]]
<1>9. PICK f : Iterates(f, n, V1, first, step)
  <2>1. step \in [1..n -> [V1 -> V1]]
        BY <1>7, <1>8
  <2>2. first \in V1
        OBVIOUS
  <2> HIDE DEF step, V1
  <2> QED
      BY <1>2, <2>1, <2>2, Recursion
<1>10. /\ f \in [0..n -> V1] /\ f = [i \in 0..n |-> f[i]]
       /\ \A i \in 0..n : f[i] = IF i = 0 THEN first ELSE step[i][f[i - 1]]
       BY <1>9 DEF Iterates
<1>11. /\ \A i \in 1..n : i - 1 \in 0..n /\ i \in 0..n /\ i # 0
       /\ \A i \in 0..n : i = 0 \/ i \in 1..n
       /\ n \in 1..n /\ 0 \in 0..n
       BY <1>2
<1>12. \A i \in 1..n : f[i] = Turn(f[i - 1]) /\ f[i - 1] \in V1
  <2> SUFFICES ASSUME NEW i \in 1..n PROVE f[i] = Turn(f[i - 1]) /\ f[i - 1] \in V1
      OBVIOUS
  <2>1. f[i] = step[i][f[i - 1]] /\ f[i - 1] \in V1
        BY <1>10, <1>11
  <2> QED
      BY <2>1
<1>13. turn = f
  <2>1. ASSUME NEW g, g = [i \in 0..n |->
                 IF i = 0 THEN first ELSE CHOOSE r \in {Turn(l) : l \in {g[i - 1]}} : TRUE]
        PROVE  g = f
    <3> DEFINE T == {i \in 0..n : g[i] = f[i]}
    <3>1. 0 \in T
      <4>1. g[0] = first /\ f[0] = first
            BY <1>10, <1>11, <2>1
      <4> QED
          BY <1>11, <4>1
    <3>2. ASSUME NEW i \in 1..n, i - 1 \in T PROVE i \in T
          BY <1>11, <1>12, <2>1, <3>2
    <3>3. \A i \in 0..n : i \in T
      <4> HIDE DEF T
      <4> QED
          BY <1>2, <3>1, <3>2, Induction
    <3>4. g = [i \in 0..n |-> g[i]]
          BY <2>1
    <3> HIDE DEF turn
    <3> QED
        BY <1>10, <3>3, <3>4
  <2>2. f = [i \in 0..n |->
          IF i = 0 THEN first ELSE CHOOSE r \in {Turn(l) : l \in {f[i - 1]}} : TRUE]
    <3>1. \A i \in 0..n : f[i] = IF i = 0 THEN first ELSE
                                   CHOOSE r \in {Turn(l) : l \in {f[i - 1]}} : TRUE
          BY <1>10, <1>11, <1>12, ZenonT(30)
    <3> QED
        BY <1>10, <3>1
  <2> QED
      BY <2>1, <2>2
<1>14. turn[n] \in V
  <2> HIDE DEF turn
  <2> QED
      BY <1>7, <1>8, <1>11, <1>12, <1>13
<1> HIDE DEF turn
<1>15. LET R == DequeueAllWakeable(Q, pw0, kind) IN
         /\ Good(R.queue, kind) /\ R.queue.failed = Q.failed
         /\ R.list \in Seq(Threads) /\ R.list # <<>> /\ Distinct(R.list)
         /\ Elems(R.list) \subseteq Waiting(Q)
         /\ Waiting(R.queue) = Waiting(Q) \ Elems(R.list)
       BY <1>1, <1>14 DEF V
<1> QED
    BY <1>15 DEF Woken
-----------------------------------------------------------------------------
(* The search of an unlocker.  s is its UnlockSlow's locals, T the         *)
(* conditions that hold; the search is to end with waiter number o and has *)
(* reached number r.                                                       *)
Easy(Q, knd) == Q.seq # <<>> /\ knd[Q.seq[1]] = <<"X", Null>>

(* Of the waiters from q to r, the readers that can run are marked, and    *)
(* the others are not or will be skipped.                                  *)
MarkedTo(Q, knd, T, q, r) ==
  \A k \in q..r :
    /\ knd[Q.seq[k]][1] = "S" /\ knd[Q.seq[k]][2] \in T => Q.seq[k] \in Q.wake
    /\ ~(knd[Q.seq[k]][1] = "S" /\ knd[Q.seq[k]][2] \in T) /\ Q.seq[k] \in Q.wake =>
         k > q /\ Q.skip[Q.seq[k - 1]] # Null

(* None of the first r waiters can run.                                    *)
NoneRuns(Q, knd, T, r) == \A k \in 1..r : knd[Q.seq[k]][2] \notin T

(* s.w is waiter number q, the first one that can run.                     *)
FirstFound(Q, knd, T, s, q, r) ==
  /\ s.w = Q.seq[q] /\ s.w \in Q.wake /\ knd[s.w][2] \in T /\ NoneRuns(Q, knd, T, q - 1)
  /\ q = 1 => s.pw = Null
  /\ q > 1 => s.pw = Q.seq[q - 1] /\ Q.skip[s.pw] = Null
  /\ knd[s.w][1] # "X" => MarkedTo(Q, knd, T, q, r)

(* What the search knows after r waiters: the first that can run, if any.  *)
FoundSoFar(Q, knd, T, s, r) ==
  /\ s.w = Null => s.pw = Null /\ NoneRuns(Q, knd, T, r)
  /\ s.w # Null => \E q \in 1..r : FirstFound(Q, knd, T, s, q, r)

(* The search of UnlockSlow has passed r waiters of the o there were when  *)
(* it began; old, where it ends, is a waiter that ends a chain and must    *)
(* stay so.                                                                *)
Search(Q, knd, T, s, o, r) ==
  /\ o \in 1..Len(Q.seq) /\ r \in 0..o
  /\ s.old = Q.seq[o] /\ Q.skip[s.old] = Null /\ s.old \notin Q.may
  /\ Easy(Q, knd) \/ FoundSoFar(Q, knd, T, s, r)

(* The unlocker is about to look at waiter number r + 1.                   *)
LooksAt(Q, knd, s, o, r) ==
  /\ r < o /\ s.wWalk = Q.seq[r + 1]
  /\ \/ Easy(Q, knd)
     \/ r = 0 /\ s.pwWalk = Null
     \/ r > 0 /\ s.pwWalk = Q.seq[r]

(* Who joins the queue at its end does not disturb a search.               *)
LEMMA SearchAppended ==
  ASSUME NEW Q, NEW kind, Good(Q, kind), NEW x \in Threads \ Waiting(Q), NEW R, Good(R, kind),
         Appended(Q, R, x), R.may = Q.may \cup {x}, R.wake = Q.wake \ {x},
         NEW T, NEW s, NEW o, NEW r, Search(Q, kind, T, s, o, r)
  PROVE  Search(R, kind, T, s, o, r) /\ (LooksAt(Q, kind, s, o, r) => LooksAt(R, kind, s, o, r))
<1> DEFINE n == Len(Q.seq)
<1>1. /\ n \in Nat /\ Len(R.seq) = n + 1 /\ o \in 1..n /\ r \in 0..o
      /\ \A i \in 1..n : Q.seq[i] \in Threads /\ Q.seq[i] # x /\ R.seq[i] = Q.seq[i]
      /\ s.old = Q.seq[o] /\ Q.skip[s.old] = Null /\ s.old \notin Q.may
      /\ Q \in Queues /\ R \in Queues
      BY QueueTyped DEF Appended, Inserted, Search, Waiting
<1>2. \A i \in 1..n : Q.seq[i] \in R.wake <=> Q.seq[i] \in Q.wake
      BY <1>1
<1>3. \A i \in 1..n : R.skip[Q.seq[i]] = Q.skip[Q.seq[i]] \/ (i = n /\ Q.seq[i] \in Q.may)
  <2> SUFFICES ASSUME NEW i \in 1..n, R.skip[Q.seq[i]] # Q.skip[Q.seq[i]]
               PROVE  i = n /\ Q.seq[i] \in Q.may
      OBVIOUS
  <2>1. Q.seq[i] = HeadOf(Q) /\ Q.seq[i] \in Q.may
        BY <1>1 DEF Appended
  <2>2. Distinct(Q.seq) /\ i \in DOMAIN Q.seq
        BY QueueTyped
  <2>3. i = n
        BY <1>1, <2>1, <2>2, NextIs
  <2> QED
      BY <2>1, <2>3
<1>4. \A i \in 1..n : Q.skip[Q.seq[i]] # Null => R.skip[Q.seq[i]] # Null
  <2> SUFFICES ASSUME NEW i \in 1..n, Q.skip[Q.seq[i]] # Null PROVE i # n
      BY <1>3
  <2> QED
      BY <1>1, ChainsEnd
<1>5. R.seq[o] = Q.seq[o] /\ R.skip[s.old] = Null /\ s.old \notin R.may /\ o \in 1..Len(R.seq)
  <2> HIDE DEF n
  <2> QED
      BY <1>1, <1>3
<1>6. Easy(Q, kind) <=> Easy(R, kind)
  <2>1. 1 \in 1..n /\ Q.seq # <<>> /\ R.seq # <<>>
        BY <1>1
  <2> QED
      BY <1>1, <2>1 DEF Easy
<1>r. r \in 0..n /\ 1..r \subseteq 1..n /\ 1..r \subseteq 1..o /\ 1..o \subseteq 1..n /\ o \in Nat
      BY <1>1
<1>7. \A q \in 1..o : q \in 1..n /\ q - 1 \in 0..n /\ q \in Nat /\ (q > 1 => q - 1 \in 1..n)
      BY <1>1
<1> HIDE DEF n
<1>8. \A j \in 0..n : NoneRuns(Q, kind, T, j) => NoneRuns(R, kind, T, j)
  <2>1. \A j \in 0..n : 1..j \subseteq 1..n
        BY <1>1
  <2> QED
      BY <1>1, <2>1 DEF NoneRuns
<1>9. \A q \in 1..o : MarkedTo(Q, kind, T, q, r) => MarkedTo(R, kind, T, q, r)
  <2> SUFFICES ASSUME NEW q \in 1..o, MarkedTo(Q, kind, T, q, r), NEW k \in q..r
               PROVE  /\ kind[R.seq[k]][1] = "S" /\ kind[R.seq[k]][2] \in T => R.seq[k] \in R.wake
                      /\ /\ ~(kind[R.seq[k]][1] = "S" /\ kind[R.seq[k]][2] \in T)
                         /\ R.seq[k] \in R.wake
                         => k > q /\ R.skip[R.seq[k - 1]] # Null
      BY Zenon DEF MarkedTo
  <2>1. k \in 1..n /\ (k > q => k - 1 \in 1..n)
        BY <1>1
  <2>2. /\ kind[Q.seq[k]][1] = "S" /\ kind[Q.seq[k]][2] \in T => Q.seq[k] \in Q.wake
        /\ ~(kind[Q.seq[k]][1] = "S" /\ kind[Q.seq[k]][2] \in T) /\ Q.seq[k] \in Q.wake
             => k > q /\ Q.skip[Q.seq[k - 1]] # Null
        BY Zenon DEF MarkedTo
  <2>3. R.seq[k] = Q.seq[k] /\ (k > q => R.seq[k - 1] = Q.seq[k - 1])
        BY <1>1, <2>1
  <2> QED
      BY <1>2, <1>4, <2>1, <2>2, <2>3
<1>10. \A q \in 1..o : FirstFound(Q, kind, T, s, q, r) => FirstFound(R, kind, T, s, q, r)
  <2> SUFFICES ASSUME NEW q \in 1..o, FirstFound(Q, kind, T, s, q, r)
               PROVE  FirstFound(R, kind, T, s, q, r)
      OBVIOUS
  <2>1. s.w = R.seq[q] /\ s.w \in R.wake /\ kind[s.w][2] \in T
        BY <1>1, <1>2, <1>7 DEF FirstFound
  <2>2. NoneRuns(R, kind, T, q - 1)
        BY <1>7, <1>8 DEF FirstFound
  <2>3. q > 1 => s.pw = R.seq[q - 1] /\ R.skip[s.pw] = Null
    <3>1. q > 1 => q - 1 \in 1..n /\ q - 1 # n
          BY <1>1
    <3> QED
        BY <1>1, <1>3, <3>1 DEF FirstFound
  <2>4. /\ q = 1 => s.pw = Null
        /\ kind[s.w][1] # "X" => MarkedTo(R, kind, T, q, r)
        BY <1>9 DEF FirstFound
  <2> QED
      BY <2>1, <2>2, <2>3, <2>4 DEF FirstFound
<1>11. FoundSoFar(Q, kind, T, s, r) => FoundSoFar(R, kind, T, s, r)
       BY <1>1, <1>8, <1>10, <1>r DEF FoundSoFar
<1>12. LooksAt(Q, kind, s, o, r) => LooksAt(R, kind, s, o, r)
  <2>1. (r < o => r + 1 \in 1..n) /\ (r > 0 => r \in 1..n)
        BY <1>1
  <2> QED
      BY <1>1, <1>6, <2>1 DEF LooksAt
<1>13. Search(R, kind, T, s, o, r)
       BY <1>1, <1>5, <1>6, <1>11 DEF Search
<1> QED
    BY <1>12, <1>13

(* A writer without a condition who joins the queue in front of it ends it.*)
LEMMA SearchPrepended ==
  ASSUME NEW Q, NEW kind, Good(Q, kind), NEW x \in Threads \ Waiting(Q), NEW R, Good(R, kind),
         Prepended(Q, R, x), R.may = Q.may \cup {x}, kind[x] = <<"X", Null>>,
         NEW T, NEW s, NEW o, NEW r, Search(Q, kind, T, s, o, r)
  PROVE  /\ Search(R, kind, T, s, o + 1, r + 1)
         /\ LooksAt(Q, kind, s, o, r) => LooksAt(R, kind, s, o + 1, r + 1)
<1>1. /\ Len(Q.seq) \in Nat /\ Len(R.seq) = Len(Q.seq) + 1 /\ o \in 1..Len(Q.seq) /\ r \in 0..o
      /\ \A i \in 1..Len(Q.seq) : Q.seq[i] \in Threads /\ Q.seq[i] # x /\ R.seq[i + 1] = Q.seq[i]
      /\ s.old = Q.seq[o] /\ Q.skip[s.old] = Null /\ s.old \notin Q.may
      /\ \A y \in Threads \ {x} : R.skip[y] = Q.skip[y]
      /\ R.seq[1] = x
      BY QueueTyped DEF Prepended, Inserted, Search, Waiting
<1>2. R.seq[o + 1] = Q.seq[o] /\ R.skip[s.old] = Null /\ s.old \notin R.may
      BY <1>1
<1>3. Easy(R, kind)
  <2>1. R.seq # <<>>
        BY <1>1
  <2> QED
      BY <1>1, <2>1 DEF Easy
<1>4. o + 1 \in 1..Len(R.seq) /\ r + 1 \in 0..(o + 1)
      BY <1>1
<1>5. LooksAt(Q, kind, s, o, r) => LooksAt(R, kind, s, o + 1, r + 1)
  <2> SUFFICES ASSUME LooksAt(Q, kind, s, o, r) PROVE LooksAt(R, kind, s, o + 1, r + 1)
      OBVIOUS
  <2>1. r < o /\ s.wWalk = Q.seq[r + 1]
        BY DEF LooksAt
  <2>2. r + 1 \in 1..Len(Q.seq) /\ r + 1 < o + 1
        BY <1>1, <2>1
  <2> QED
      BY <1>1, <1>3, <2>1, <2>2 DEF LooksAt
<1> QED
    BY <1>1, <1>2, <1>3, <1>4, <1>5 DEF Search

(* It goes on as before when a thread joins the queue: at the end, where   *)
(* it does not look, or at the front, as a writer without a condition,     *)
(* which it will take instead.                                             *)
LEMMA SearchJoined ==
  ASSUME NEW Q, NEW kind, Good(Q, kind), NEW x \in Threads \ Waiting(Q), NEW priority,
         NEW U, HeadOf(Q) \in U,
         NEW T, NEW s, NEW o, NEW r, Search(Q, kind, T, s, o, r)
  PROVE  LET R == Enqueue(Q, x, kind, priority, HeadOf(Q) \in U) IN
         /\ HeadOf(R) \in {x, HeadOf(Q)}
         /\ \E o2 \in 1..Len(R.seq), r2 \in 0..Len(R.seq) :
              /\ Search(R, kind, T, s, o2, r2) /\ (r = o => r2 = o2)
              /\ LooksAt(Q, kind, s, o, r) => LooksAt(R, kind, s, o2, r2)
<1> DEFINE R == Enqueue(Q, x, kind, priority, HeadOf(Q) \in U)
<1>1. o \in 1..Len(Q.seq) /\ r \in 0..o /\ Len(Q.seq) \in Nat /\ Q.seq # <<>> /\ Q \in Queues
      BY QueueTyped DEF Search
<1>2. /\ Good(R, kind) /\ R.seq # <<>> /\ R.may = Q.may \cup {x} /\ R.wake = Q.wake \ {x}
      /\ \/ Appended(Q, R, x)
         \/ Prepended(Q, R, x) /\ kind[x] = <<"X", Null>>
  <2>1. /\ Good(R, kind) /\ R.seq # <<>>
        /\ R.may = Q.may \cup {x} /\ R.wake = Q.wake \ {x}
        /\ HeadOf(Q) \in U /\ Q.seq # <<>> =>
              \/ Appended(Q, R, x)
              \/ Prepended(Q, R, x) /\ kind[x] = <<"X", Null>>
        BY EnqueueKeeps, SMTT(30)
  <2> HIDE DEF R
  <2> QED
      BY <1>1, <2>1
<1> HIDE DEF R
<1>3. R \in Queues /\ Len(R.seq) \in Nat
      BY <1>2, QueueTyped
<1>4. CASE Appended(Q, R, x)
  <2>1. Search(R, kind, T, s, o, r) /\ (LooksAt(Q, kind, s, o, r) => LooksAt(R, kind, s, o, r))
        BY <1>2, <1>4, SearchAppended
  <2>2. HeadOf(R) = x
        BY <1>1, <1>2, <1>4 DEF Appended, Inserted, HeadOf
  <2>3. o \in 1..Len(R.seq) /\ r \in 0..Len(R.seq)
        BY <1>3, <2>1 DEF Search
  <2> QED
      BY <2>1, <2>2, <2>3 DEF R
<1>5. CASE Prepended(Q, R, x) /\ kind[x] = <<"X", Null>>
  <2>1. /\ Search(R, kind, T, s, o + 1, r + 1)
        /\ LooksAt(Q, kind, s, o, r) => LooksAt(R, kind, s, o + 1, r + 1)
        BY <1>2, <1>5, SearchPrepended
  <2>2. HeadOf(R) = HeadOf(Q)
    <3>1. Len(Q.seq) \in 1..Len(Q.seq) /\ Len(R.seq) = Len(Q.seq) + 1
          BY <1>1, <1>5 DEF Prepended, Inserted
    <3>2. R.seq[Len(Q.seq) + 1] = Q.seq[Len(Q.seq)]
          BY <1>1, <1>5, <3>1 DEF Prepended, Inserted
    <3> QED
        BY <1>1, <1>2, <3>1, <3>2 DEF HeadOf
  <2>3. o + 1 \in 1..Len(R.seq) /\ r + 1 \in 0..Len(R.seq)
        BY <1>3, <2>1 DEF Search
  <2> QED
      BY <2>1, <2>2, <2>3 DEF R
<1> QED
    BY <1>2, <1>4, <1>5

(* The waiter with which a search ended may skip again.                    *)
Reopen(Q, knd, old) ==
  LET Q1 == [Q EXCEPT !.may = @ \cup {old}]
  IN  IF HeadOf(Q1) # old /\ MuSameCondition(knd, old, NextOf(Q1, old))
      THEN [Q1 EXCEPT !.skip[old] = NextOf(Q1, old)] ELSE Q1

(* Once old may skip again it may skip to those that have joined behind    *)
(* it.                                                                     *)
LEMMA ReopenKeeps ==
  ASSUME NEW Q, NEW kind, Good(Q, kind), NEW o \in 1..Len(Q.seq), Q.skip[Q.seq[o]] = Null
  PROVE  LET R == Reopen(Q, kind, Q.seq[o]) IN
         /\ Good(R, kind) /\ R.seq = Q.seq /\ R.wake = Q.wake /\ R.failed = Q.failed
         /\ Waiting(R) = Waiting(Q) /\ HeadOf(R) = HeadOf(Q)
         /\ \A y \in Threads : R.skip[y] = Q.skip[y] \/ y = Q.seq[o]
<1> DEFINE old == Q.seq[o]
           Q1 == [Q EXCEPT !.may = @ \cup {old}]
           n == Len(Q.seq)
<1>1. /\ Q \in Queues /\ n \in Nat /\ o \in 1..n /\ DOMAIN Q.seq = 1..n /\ Null \notin Threads
      /\ \A i \in 1..n : Q.seq[i] \in Threads /\ \A j \in 1..n : Q.seq[i] = Q.seq[j] => i = j
      BY QueueTyped
<1>2. /\ Q1 \in Queues /\ Q1.seq = Q.seq /\ Q1.wake = Q.wake /\ Q1.failed = Q.failed
      /\ Q1.skip = Q.skip
      BY <1>1, SMTT(30) DEF Queues
<1>3. Good(Q1, kind)
      BY <1>2, OthersSkip
<1> HIDE DEF Q1
<1>4. CASE HeadOf(Q1) # old /\ MuSameCondition(kind, old, NextOf(Q1, old))
  <2> DEFINE R == [Q1 EXCEPT !.skip[old] = NextOf(Q1, old)]
  <2>1. o # n /\ NextOf(Q1, old) = Q.seq[o + 1] /\ kind[old] = kind[Q.seq[o + 1]]
    <3>1. o \in DOMAIN Q1.seq /\ Distinct(Q1.seq) /\ Q1.seq[o] = old
          BY <1>1, <1>2, <1>3, QueueTyped
    <3>2. /\ NextOf(Q1, old) = IF o = n THEN Q1.seq[1] ELSE Q1.seq[o + 1]
          /\ old = HeadOf(Q1) <=> o = n
          BY <1>2, <3>1, NextIs
    <3> QED
        BY <1>2, <1>4, <3>2 DEF MuSameCondition
  <2>2. o + 1 \in 1..n /\ o \in Nat /\ n \in Nat
        BY <1>1, <2>1
  <2>3. Reopen(Q, kind, old) = R
        BY <1>4 DEF Reopen, Q1
  <2>4. /\ R \in Queues /\ R.seq = Q.seq /\ R.wake = Q.wake /\ R.failed = Q.failed
        /\ R.skip[old] = Q.seq[o + 1] /\ \A y \in Threads : y # old => R.skip[y] = Q.skip[y]
        BY <1>1, <1>2, <2>1, <2>2, ZenonT(30) DEF Queues
  <2> HIDE DEF R, n
  <2>5. ASSUME NEW i \in 1..n, R.skip[R.seq[i]] # Null
        PROVE  \E j \in 1..n : Jump(R, kind, i, j)
    <3>1. CASE i = o
      <4>1. i < o + 1 /\ R.skip[R.seq[i]] = R.seq[o + 1]
            BY <2>2, <2>4, <3>1
      <4>2. \A k \in i..(o + 1) : k = o \/ k = o + 1
            BY <2>2, <3>1
      <4>3. \A k \in i..((o + 1) - 1) : k = o
            BY <2>2, <3>1
      <4>4. /\ \A k \in i..(o + 1) : kind[R.seq[k]] = kind[R.seq[i]]
            /\ \A k \in i..((o + 1) - 1) : R.skip[R.seq[k]] # Null
            BY <1>1, <2>1, <2>2, <2>4, <3>1, <4>2, <4>3
      <4> QED
          BY <2>2, <4>1, <4>4 DEF Jump
    <3>2. CASE i # o
      <4>1. Q.seq[i] # old /\ Q.skip[Q.seq[i]] # Null /\ R.skip[Q.seq[i]] = Q.skip[Q.seq[i]]
            BY <1>1, <2>4, <2>5, <3>2
      <4>2. PICK j \in 1..n : Jump(Q, kind, i, j)
            BY <4>1, QueueTyped DEF n
      <4>3. \A k \in i..(j - 1) : k \in 1..n
            BY <1>1, <4>2
      <4>4. \A k \in i..(j - 1) : R.skip[R.seq[k]] # Null
            BY <1>1, <2>2, <2>4, <4>2, <4>3 DEF Jump
      <4> QED
          BY <2>4, <4>1, <4>2, <4>4 DEF Jump
    <3> QED
        BY <3>1, <3>2
  <2>6. Good(R, kind)
        BY <1>1, <2>4, <2>5, QueueTyped DEF Good
  <2>7. Waiting(R) = Waiting(Q) /\ HeadOf(R) = HeadOf(Q)
        BY <2>4 DEF Waiting, HeadOf
  <2> QED
      BY <2>3, <2>4, <2>6, <2>7
<1>5. CASE ~(HeadOf(Q1) # old /\ MuSameCondition(kind, old, NextOf(Q1, old)))
  <2>1. Reopen(Q, kind, old) = Q1
        BY <1>5 DEF Reopen, Q1
  <2>2. Waiting(Q1) = Waiting(Q) /\ HeadOf(Q1) = HeadOf(Q)
        BY <1>2 DEF Waiting, HeadOf
  <2> QED
      BY <1>2, <1>3, <2>1, <2>2
<1> QED
    BY <1>4, <1>5

(* What has been found stays found.                                        *)
LEMMA ReopenFinds ==
  ASSUME NEW Q, NEW kind, Good(Q, kind), NEW o \in 1..Len(Q.seq), NEW R, R \in Queues,
         R.seq = Q.seq, R.wake = Q.wake, Q.skip[Q.seq[o]] = Null,
         \A y \in Threads : R.skip[y] = Q.skip[y] \/ y = Q.seq[o],
         NEW T, NEW s, NEW r \in 0..o, FoundSoFar(Q, kind, T, s, r)
  PROVE  FoundSoFar(R, kind, T, s, r)
<1> DEFINE n == Len(Q.seq)
<1>1. /\ n \in Nat /\ o \in 1..n /\ Q \in Queues
      /\ \A i \in 1..n : Q.seq[i] \in Threads /\ \A j \in 1..n : Q.seq[i] = Q.seq[j] => i = j
      BY QueueTyped
<1>2. \A j \in 0..n : NoneRuns(Q, kind, T, j) => NoneRuns(R, kind, T, j)
      BY DEF NoneRuns
<1>3. \A i \in 1..n : Q.skip[Q.seq[i]] # Null => R.skip[Q.seq[i]] # Null
      BY <1>1
<1> HIDE DEF n
<1>4. ASSUME NEW q \in 1..o, FirstFound(Q, kind, T, s, q, r)
      PROVE  FirstFound(R, kind, T, s, q, r)
  <2>1. q \in 1..n /\ q - 1 \in 0..n /\ (q > 1 => q - 1 \in 1..n /\ q - 1 # o)
        BY <1>1
  <2>2. NoneRuns(R, kind, T, q - 1)
        BY <1>2, <1>4, <2>1 DEF FirstFound
  <2>3. q > 1 => s.pw = R.seq[q - 1] /\ R.skip[s.pw] = Null
        BY <1>1, <1>4, <2>1 DEF FirstFound
  <2>4. MarkedTo(Q, kind, T, q, r) => MarkedTo(R, kind, T, q, r)
    <3> SUFFICES ASSUME MarkedTo(Q, kind, T, q, r), NEW k \in q..r
                 PROVE  /\ kind[R.seq[k]][1] = "S" /\ kind[R.seq[k]][2] \in T => R.seq[k] \in R.wake
                        /\ /\ ~(kind[R.seq[k]][1] = "S" /\ kind[R.seq[k]][2] \in T)
                           /\ R.seq[k] \in R.wake
                           => k > q /\ R.skip[R.seq[k - 1]] # Null
        BY Zenon DEF MarkedTo
    <3>1. k > q => k - 1 \in 1..n
          BY <1>1
    <3>2. /\ kind[Q.seq[k]][1] = "S" /\ kind[Q.seq[k]][2] \in T => Q.seq[k] \in Q.wake
          /\ ~(kind[Q.seq[k]][1] = "S" /\ kind[Q.seq[k]][2] \in T) /\ Q.seq[k] \in Q.wake
               => k > q /\ Q.skip[Q.seq[k - 1]] # Null
          BY Zenon DEF MarkedTo
    <3> QED
        BY <1>3, <3>1, <3>2
  <2> QED
      BY <1>4, <2>2, <2>3, <2>4 DEF FirstFound
<1>5. r \in 0..n /\ 1..r \subseteq 1..o
      BY <1>1
<1> QED
    BY <1>2, <1>4, <1>5 DEF FoundSoFar

(* The walk looks at waiter x = s.wWalk: the first one that can run, one   *)
(* that is to be woken, and how far this takes the walk.                   *)
FirstRuns(knd, T, s) == knd[s.wWalk][2] \in T /\ s.w = Null

(* The waiter is to be woken.                                              *)
Wakes(knd, T, s) == knd[s.wWalk][2] \in T /\ (s.w = Null \/ knd[s.wWalk][1] = "S")

(* The last waiter that the walk passes with this step.                    *)
Passed(Q, knd, T, s) ==
  IF Wakes(knd, T, s) THEN [end |-> s.wWalk, queue |-> [Q EXCEPT !.wake = @ \cup {s.wWalk}]]
  ELSE Skip([Q EXCEPT !.wake = @ \ {s.wWalk}], s.wWalk)

(* It was the walk's last step.                                            *)
Ends(Q, knd, T, s) ==
  (FirstRuns(knd, T, s) /\ knd[s.wWalk][1] = "X") \/ Passed(Q, knd, T, s).end = s.old

(* A waiter is marked and stays, or its chain is skipped.                  *)
LEMMA WalkStep ==
  ASSUME NEW Q, NEW kind, Good(Q, kind), \A y \in Threads : kind[y][1] \in {"X", "S"},
         NEW T, NEW s, NEW o, NEW r, Search(Q, kind, T, s, o, r), LooksAt(Q, kind, s, o, r),
         NEW R, R = Passed(Q, kind, T, s).queue, NEW end, end = Passed(Q, kind, T, s).end,
         NEW s2, s2.old = s.old, s2.w = IF FirstRuns(kind, T, s) THEN s.wWalk ELSE s.w,
         s2.pw = IF FirstRuns(kind, T, s) THEN s.pwWalk ELSE s.pw,
         ~Ends(Q, kind, T, s) => s2.pwWalk = end /\ s2.wWalk = NextOf(R, end)
  PROVE  /\ Good(R, kind) /\ R.seq = Q.seq /\ R.failed = Q.failed /\ end \in Threads
         /\ \E r2 \in 0..o : /\ Search(R, kind, T, s2, o, r2)
                             /\ Ends(Q, kind, T, s) => r2 = o
                             /\ ~Ends(Q, kind, T, s) => LooksAt(R, kind, s2, o, r2)
<1> DEFINE n == Len(Q.seq)
           x == s.wWalk
           p == r + 1
<1>1. /\ n \in Nat /\ o \in 1..n /\ r \in 0..o /\ r < o /\ p \in 1..o /\ p \in 1..n /\ p - 1 = r
      /\ x = Q.seq[p] /\ x \in Threads /\ DOMAIN Q.seq = 1..n /\ Q \in Queues /\ o \in Nat
      /\ r \in Nat
      /\ \A i \in 1..n : Q.seq[i] \in Threads /\ \A j \in 1..n : Q.seq[i] = Q.seq[j] => i = j
      /\ s.old = Q.seq[o] /\ Q.skip[s.old] = Null /\ s.old \notin Q.may /\ Null \notin Threads
      /\ Easy(Q, kind) \/ FoundSoFar(Q, kind, T, s, r)
      /\ Easy(Q, kind) \/ (r = 0 /\ s.pwWalk = Null) \/ (r > 0 /\ s.pwWalk = Q.seq[r])
      BY QueueTyped DEF Search, LooksAt
<1> HIDE DEF n, p, x
\* What remains once the walk has got to number e.
<1>2. ASSUME Good(R, kind), SameChains([Q EXCEPT !.wake = R.wake], R), NEW e \in p..o,
             end = Q.seq[e], NEW r2 \in 0..o,
             r2 = IF FirstRuns(kind, T, s) /\ kind[x][1] = "X" THEN o ELSE e,
             Easy(Q, kind) \/ FoundSoFar(R, kind, T, s2, r2)
      PROVE  /\ Good(R, kind) /\ R.seq = Q.seq /\ R.failed = Q.failed /\ end \in Threads
             /\ \E r3 \in 0..o : /\ Search(R, kind, T, s2, o, r3)
                                 /\ Ends(Q, kind, T, s) => r3 = o
                                 /\ ~Ends(Q, kind, T, s) => LooksAt(R, kind, s2, o, r3)
  <2>1. /\ R.seq = Q.seq /\ R.failed = Q.failed /\ R.may = Q.may
        /\ \A y \in Threads : R.skip[y] = Null <=> Q.skip[y] = Null
        BY <1>1, <1>2 DEF SameChains, Queues
  <2>2. Easy(R, kind) <=> Easy(Q, kind)
        BY <2>1 DEF Easy
  <2>3. Search(R, kind, T, s2, o, r2)
        BY <1>1, <1>2, <2>1, <2>2 DEF Search, n
  <2>4. Ends(Q, kind, T, s) => r2 = o
    <3>1. e \in 1..n
          BY <1>1
    <3>2. end = s.old => e = o
          BY <1>1, <1>2, <3>1
    <3> QED
        BY <1>2, <3>2 DEF Ends, x
  <2>5. ~Ends(Q, kind, T, s) => LooksAt(R, kind, s2, o, r2)
    <3> SUFFICES ASSUME ~Ends(Q, kind, T, s) PROVE LooksAt(R, kind, s2, o, r2)
        OBVIOUS
    <3>1. r2 = e /\ end # s.old /\ s2.pwWalk = end /\ s2.wWalk = NextOf(R, end)
          BY <1>2 DEF Ends, x
    <3>2. e \in 1..n /\ e # o /\ e < o /\ e > 0 /\ e # n /\ e + 1 \in 1..n
          BY <1>1, <1>2, <3>1
    <3>3. R \in Queues /\ Distinct(R.seq) /\ e \in DOMAIN R.seq /\ Len(R.seq) = n
          BY <1>1, <1>2, <2>1, <3>2, QueueTyped DEF n
    <3>4. NextOf(R, R.seq[e]) = R.seq[e + 1]
          BY <3>2, <3>3, NextIs
    <3> QED
        BY <1>2, <2>1, <3>1, <3>2, <3>4 DEF LooksAt
  <2>6. end \in Threads
        BY <1>1, <1>2
  <2> QED
      BY <1>2, <2>1, <2>3, <2>4, <2>5, <2>6
\* What was found before stays found.
<1>3. ASSUME Good(R, kind), SameChains([Q EXCEPT !.wake = R.wake], R), NEW e \in p..o,
             s.w # Null, FoundSoFar(Q, kind, T, s, r), s2.w = s.w, s2.pw = s.pw,
             \A i \in 1..r : Q.seq[i] \in R.wake <=> Q.seq[i] \in Q.wake,
             \A k \in p..e :
               /\ kind[Q.seq[k]][1] = "S" /\ kind[Q.seq[k]][2] \in T => Q.seq[k] \in R.wake
               /\ ~(kind[Q.seq[k]][1] = "S" /\ kind[Q.seq[k]][2] \in T) /\ Q.seq[k] \in R.wake
                    => k > p /\ Q.skip[Q.seq[k - 1]] # Null
      PROVE  FoundSoFar(R, kind, T, s2, e)
  <2>1. /\ R.seq = Q.seq
        /\ \A y \in Threads : R.skip[y] = Null <=> Q.skip[y] = Null
        BY <1>1, <1>3 DEF SameChains, Queues
  <2>2. PICK q \in 1..r : FirstFound(Q, kind, T, s, q, r)
        BY <1>3 DEF FoundSoFar
  <2>3. q \in 1..n /\ q \in 1..e /\ (q > 1 => q - 1 \in 1..n) /\ e \in 1..n /\ q < p
        BY <1>1
  <2>4. NoneRuns(R, kind, T, q - 1)
        BY <2>1, <2>2 DEF FirstFound, NoneRuns
  <2>5. q > 1 => s.pw = R.seq[q - 1] /\ R.skip[s.pw] = Null
        BY <1>1, <2>1, <2>2, <2>3 DEF FirstFound
  <2>6. kind[s.w][1] # "X" => MarkedTo(R, kind, T, q, e)
    <3> SUFFICES ASSUME MarkedTo(Q, kind, T, q, r), NEW k \in q..e
                 PROVE  /\ kind[R.seq[k]][1] = "S" /\ kind[R.seq[k]][2] \in T => R.seq[k] \in R.wake
                        /\ /\ ~(kind[R.seq[k]][1] = "S" /\ kind[R.seq[k]][2] \in T)
                           /\ R.seq[k] \in R.wake
                           => k > q /\ R.skip[R.seq[k - 1]] # Null
        BY <2>2, Zenon DEF MarkedTo, FirstFound
    <3>1. k \in 1..n /\ (k > q => k - 1 \in 1..n)
          BY <1>1, <2>3
    <3>2. CASE k \in q..r
      <4>1. /\ kind[Q.seq[k]][1] = "S" /\ kind[Q.seq[k]][2] \in T => Q.seq[k] \in Q.wake
            /\ ~(kind[Q.seq[k]][1] = "S" /\ kind[Q.seq[k]][2] \in T) /\ Q.seq[k] \in Q.wake
                 => k > q /\ Q.skip[Q.seq[k - 1]] # Null
            BY <3>2, Zenon DEF MarkedTo
      <4>2. k \in 1..r
            BY <1>1, <3>2
      <4> QED
          BY <1>1, <1>3, <2>1, <3>1, <4>1, <4>2, SMTT(30)
    <3>3. CASE k \in p..e
      <4>1. /\ kind[Q.seq[k]][1] = "S" /\ kind[Q.seq[k]][2] \in T => Q.seq[k] \in R.wake
            /\ ~(kind[Q.seq[k]][1] = "S" /\ kind[Q.seq[k]][2] \in T) /\ Q.seq[k] \in R.wake
                 => k > p /\ Q.skip[Q.seq[k - 1]] # Null
            BY <1>3, <3>3, Zenon
      <4>2. k > p => k > q
            BY <1>1, <2>3
      <4>3. k > p => k - 1 \in 1..n /\ Q.seq[k - 1] \in Threads
            BY <1>1, <3>1, <4>2
      <4> QED
          BY <2>1, <4>1, <4>2, <4>3
    <3> QED
        BY <1>1, <2>3, <3>2, <3>3
  <2>7. FirstFound(R, kind, T, s2, q, e)
    <3>1. s.w \in R.wake /\ s.w = R.seq[q] /\ kind[s.w][2] \in T /\ (q = 1 => s.pw = Null)
          BY <1>3, <2>1, <2>2 DEF FirstFound
    <3> QED
        BY <1>3, <2>4, <2>5, <2>6, <3>1 DEF FirstFound
  <2> QED
      BY <1>3, <2>3, <2>7 DEF FoundSoFar
<1>4. CASE Wakes(kind, T, s)
  <2>1. end = x /\ R = [Q EXCEPT !.wake = @ \cup {x}]
        BY <1>4 DEF Passed, x
  <2>2. /\ R \in Queues /\ R.seq = Q.seq /\ R.wake = Q.wake \cup {x} /\ R.skip = Q.skip
        /\ R = [Q EXCEPT !.wake = R.wake]
        BY <1>1, <2>1, SMTT(30) DEF Queues
  <2>3. Good(R, kind)
        BY <2>2, OthersSkip
  <2>4. SameChains([Q EXCEPT !.wake = R.wake], R)
        BY <2>2 DEF SameChains
  <2>5. CASE FirstRuns(kind, T, s) /\ ~Easy(Q, kind)
    <3>1. s2.w = x /\ s2.pw = s.pwWalk /\ kind[x][2] \in T /\ NoneRuns(Q, kind, T, r) /\ x # Null
          BY <1>1, <2>5 DEF FirstRuns, FoundSoFar, x
    <3>2. r > 0 => s.pwWalk = Q.seq[r] /\ Q.skip[s.pwWalk] = Null
      <4> SUFFICES ASSUME r > 0, Q.skip[Q.seq[r]] # Null PROVE FALSE
          BY <1>1, <2>5
      <4>1. r \in 1..n /\ r \in 1..r /\ r + 1 = p
            BY <1>1 DEF p
      <4>2. kind[Q.seq[r + 1]] = kind[Q.seq[r]]
            BY <4>1, ChainsEnd DEF n
      <4> QED
          BY <1>1, <3>1, <4>1, <4>2 DEF NoneRuns
    <3>3. ASSUME NEW j \in p..o, kind[x][1] # "X" => j = p
          PROVE  FoundSoFar(R, kind, T, s2, j)
      <4>1. NoneRuns(R, kind, T, p - 1)
            BY <1>1, <2>2, <3>1 DEF NoneRuns
      <4>2. kind[x][1] # "X" => MarkedTo(R, kind, T, p, j)
        <5> SUFFICES ASSUME kind[x][1] # "X", NEW k \in p..j
                     PROVE  /\ kind[R.seq[k]][1] = "S" /\ kind[R.seq[k]][2] \in T =>
                                 R.seq[k] \in R.wake
                            /\ /\ ~(kind[R.seq[k]][1] = "S" /\ kind[R.seq[k]][2] \in T)
                               /\ R.seq[k] \in R.wake
                               => k > p /\ R.skip[R.seq[k - 1]] # Null
            BY Zenon DEF MarkedTo
        <5>1. k = p /\ kind[x][1] = "S"
              BY <1>1, <3>3
        <5> QED
            BY <1>1, <2>2, <3>1, <5>1
      <4>3. /\ (p = 1 => s.pwWalk = Null)
            /\ (p > 1 => s.pwWalk = R.seq[p - 1] /\ R.skip[s.pwWalk] = Null)
            BY <1>1, <2>2, <2>5, <3>2
      <4>4. FirstFound(R, kind, T, s2, p, j)
            BY <1>1, <2>2, <3>1, <4>1, <4>2, <4>3 DEF FirstFound
      <4>5. p \in 1..j
            BY <1>1
      <4> QED
          BY <3>1, <4>4, <4>5 DEF FoundSoFar
    <3>4. o \in p..o /\ p \in p..o /\ o \in 0..o /\ p \in 0..o
          BY <1>1
    <3>5. CASE kind[x][1] = "X"
          BY <1>1, <1>2, <2>1, <2>3, <2>4, <2>5, <3>3, <3>4, <3>5
    <3>6. CASE kind[x][1] # "X"
          BY <1>1, <1>2, <2>1, <2>3, <2>4, <2>5, <3>3, <3>4, <3>6
    <3> QED
        BY <3>5, <3>6
  <2>6. CASE ~FirstRuns(kind, T, s) /\ ~Easy(Q, kind)
    <3>1. s.w # Null /\ kind[x][1] = "S" /\ kind[x][2] \in T /\ s2.w = s.w /\ s2.pw = s.pw
          BY <1>4, <2>6 DEF Wakes, FirstRuns, x
    <3>2. \A i \in 1..r : Q.seq[i] \in R.wake <=> Q.seq[i] \in Q.wake
      <4>1. \A i \in 1..r : i \in 1..n /\ i # p
            BY <1>1
      <4> QED
          BY <1>1, <2>2, <4>1
    <3>3. \A k \in p..p : k = p
          BY <1>1
    <3>4. p \in p..o /\ p \in 0..o
          BY <1>1
    <3>5. Q.seq[p] \in R.wake
          BY <1>1, <2>2
    <3>6. FoundSoFar(R, kind, T, s2, p)
          BY <1>1, <1>3, <2>3, <2>4, <2>6, <3>1, <3>2, <3>3, <3>4, <3>5
    <3> QED
        BY <1>1, <1>2, <2>1, <2>3, <2>4, <2>6, <3>4, <3>6
  <2>7. CASE Easy(Q, kind)
    <3>1. o \in 0..o /\ p \in p..o /\ p \in 0..o
          BY <1>1
    <3> QED
        BY <1>1, <1>2, <2>1, <2>3, <2>4, <2>7, <3>1
  <2> QED
      BY <2>5, <2>6, <2>7
<1>5. CASE ~Wakes(kind, T, s)
  <2> DEFINE W == [Q EXCEPT !.wake = @ \ {x}]
  <2>1. end = Skip(W, x).end /\ R = Skip(W, x).queue
        BY <1>5 DEF Passed, x
  <2>2. W \in Queues /\ W.seq = Q.seq /\ W.wake = Q.wake \ {x} /\ W.skip = Q.skip
        BY <1>1 DEF Queues
  <2>3. Good(W, kind)
        BY <2>2, OthersSkip
  <2> HIDE DEF W
  <2>4. PICK e : ChainEnd(W, kind, p, e)
        BY <1>1, <2>2, <2>3, ChainEnds DEF n
  <2>5. end = Q.seq[e] /\ Good(R, kind) /\ SameChains(W, R)
        BY <1>1, <2>1, <2>2, <2>3, <2>4, SkipKeeps DEF n
  <2>6. /\ e \in p..n /\ \A k \in p..(e - 1) : Q.skip[Q.seq[k]] # Null
        /\ \A k \in p..e : kind[Q.seq[k]] = kind[x]
        BY <1>1, <2>2, <2>4 DEF ChainEnd, n
  <2>7. e \in p..o /\ e \in 0..o
    <3>1. o \notin p..(e - 1)
          BY <1>1, <2>6
    <3> QED
        BY <1>1, <2>6, <3>1
  <2>8. R.wake = Q.wake \ {x}
        BY <2>2, <2>5 DEF SameChains
  <2>9. SameChains([Q EXCEPT !.wake = R.wake], R)
        BY <1>1, <2>8, <2>5 DEF W
  <2>10. ~FirstRuns(kind, T, s)
         BY <1>5 DEF FirstRuns, Wakes
  <2>11. s2.w = s.w /\ s2.pw = s.pw
         BY <2>10
  <2>12. CASE Easy(Q, kind)
         BY <1>2, <2>5, <2>7, <2>9, <2>10, <2>12
  <2>13. CASE ~Easy(Q, kind) /\ s.w = Null
    <3>1. kind[x][2] \notin T /\ s.pw = Null /\ NoneRuns(Q, kind, T, r)
          BY <1>1, <1>5, <2>13 DEF Wakes, FoundSoFar, x
    <3>2. NoneRuns(R, kind, T, e)
      <4> SUFFICES ASSUME NEW k \in 1..e PROVE kind[Q.seq[k]][2] \notin T
          BY <2>2, <2>5 DEF NoneRuns, SameChains
      <4>1. k \in 1..r \/ k \in p..e
            BY <1>1, <2>7
      <4> QED
          BY <2>6, <3>1, <4>1 DEF NoneRuns
    <3>3. FoundSoFar(R, kind, T, s2, e)
          BY <2>11, <2>13, <3>1, <3>2 DEF FoundSoFar
    <3> QED
        BY <1>2, <2>5, <2>7, <2>9, <2>10, <3>3
  <2>14. CASE ~Easy(Q, kind) /\ s.w # Null
    <3>1. ~(kind[x][1] = "S" /\ kind[x][2] \in T)
          BY <1>5, <2>14 DEF Wakes, x
    <3>2. \A i \in 1..r : Q.seq[i] \in R.wake <=> Q.seq[i] \in Q.wake
      <4>1. \A i \in 1..r : i \in 1..n /\ i # p
            BY <1>1
      <4> QED
          BY <1>1, <2>8, <4>1
    <3>3. ASSUME NEW k \in p..e
          PROVE  /\ kind[Q.seq[k]][1] = "S" /\ kind[Q.seq[k]][2] \in T => Q.seq[k] \in R.wake
                 /\ ~(kind[Q.seq[k]][1] = "S" /\ kind[Q.seq[k]][2] \in T) /\ Q.seq[k] \in R.wake
                      => k > p /\ Q.skip[Q.seq[k - 1]] # Null
      <4>1. kind[Q.seq[k]] = kind[x]
            BY <2>6
      <4>2. k = p => Q.seq[k] \notin R.wake
            BY <1>1, <2>8
      <4>3. k # p => k > p /\ k - 1 \in p..(e - 1)
            BY <1>1, <2>7
      <4> QED
          BY <2>6, <3>1, <4>1, <4>2, <4>3
    <3>4. FoundSoFar(Q, kind, T, s, r)
          BY <1>1, <2>14
    <3>5. FoundSoFar(R, kind, T, s2, e)
          BY <1>3, <2>5, <2>7, <2>9, <2>11, <2>14, <3>2, <3>3, <3>4
    <3> QED
        BY <1>2, <2>5, <2>7, <2>9, <2>10, <3>5
  <2> QED
      BY <2>12, <2>13, <2>14
<1> QED
    BY <1>4, <1>5

(* A writer without a condition that is first is the one to wake.          *)
LEMMA EasyWakes ==
  ASSUME NEW Q, NEW kind, Good(Q, kind), Easy(Q, kind), Q.seq[1] \in Q.wake
  PROVE  /\ NextOf(Q, HeadOf(Q)) = Q.seq[1]
         /\ Woken(Q, kind, DequeueAllWakeable(Q, HeadOf(Q), kind))
<1>1. /\ Q \in Queues /\ Len(Q.seq) \in Nat /\ Len(Q.seq) > 0 /\ HeadOf(Q) = Q.seq[Len(Q.seq)]
      /\ DOMAIN Q.seq = 1..Len(Q.seq) /\ Distinct(Q.seq)
      BY HeadIs, QueueTyped DEF Easy
<1>2. Len(Q.seq) \in DOMAIN Q.seq /\ 1 \in 1..Len(Q.seq)
      BY <1>1
<1>3. NextOf(Q, HeadOf(Q)) = Q.seq[1]
      BY <1>1, <1>2, NextIs
<1>4. kind[Q.seq[1]][1] = "X"
      BY DEF Easy
<1>5. Woken(Q, kind, DequeueAllWakeable(Q, HeadOf(Q), kind))
  <2>1. PICK q, pw, G : q \in 1..Len(Q.seq) /\ q = 1 /\ pw = HeadOf(Q) /\ G = {}
        BY <1>2
  <2>2. /\ Q.seq[q] \in Q.wake /\ (q = 1 => pw = HeadOf(Q))
        /\ q > 1 => pw = Q.seq[q - 1] /\ Q.skip[pw] = Null
        BY <2>1
  <2>3. \/ kind[Q.seq[q]][1] = "X"
        \/ Marks(Q, kind, q, G) /\ (q > 1 => kind[pw] \notin G)
        BY <1>4, <2>1
  <2>4. Woken(Q, kind, DequeueAllWakeable(Q, pw, kind))
        BY <2>1, <2>2, <2>3, WakesAll, Zenon
  <2> QED
      BY <2>1, <2>4
<1> QED
    BY <1>3, <1>5

(* The search has found a waiter: it is where the unlocker remembers it,   *)
(* and it is taken off with the readers that can run.                      *)
LEMMA FoundWakes ==
  ASSUME NEW Q, NEW kind, Good(Q, kind), \A y \in Threads : kind[y][1] \in {"X", "S"},
         NEW T, NEW s, NEW q \in 1..Len(Q.seq), NEW r, FirstFound(Q, kind, T, s, q, r),
         kind[s.w][1] # "X" => r = Len(Q.seq),
         NEW pw, pw = IF s.pw = Null THEN HeadOf(Q) ELSE s.pw
  PROVE  NextOf(Q, pw) = s.w /\ Woken(Q, kind, DequeueAllWakeable(Q, pw, kind))
<1> DEFINE n == Len(Q.seq)
           G == {kind[y] : y \in {z \in Threads : kind[z][1] = "S" /\ kind[z][2] \in T}}
<1>1. /\ Q \in Queues /\ n \in Nat /\ DOMAIN Q.seq = 1..n /\ Distinct(Q.seq) /\ Q.seq # <<>>
      /\ Null \notin Threads /\ \A i \in 1..n : Q.seq[i] \in Threads
      BY QueueTyped
<1>2. HeadOf(Q) = Q.seq[n] /\ n \in 1..n
      BY <1>1, HeadIs
<1>3. /\ s.w = Q.seq[q] /\ s.w \in Q.wake /\ kind[s.w][2] \in T /\ NoneRuns(Q, kind, T, q - 1)
      /\ q = 1 => s.pw = Null
      /\ q > 1 => s.pw = Q.seq[q - 1] /\ Q.skip[s.pw] = Null
      /\ kind[s.w][1] # "X" => MarkedTo(Q, kind, T, q, r)
      BY DEF FirstFound
<1>4. /\ q = 1 => pw = HeadOf(Q)
      /\ q > 1 => pw = Q.seq[q - 1] /\ Q.skip[pw] = Null /\ q - 1 \in 1..(q - 1) /\ q - 1 \in 1..n
      BY <1>1, <1>3
<1>5. \A y \in Threads : kind[y] \in G <=> kind[y][1] = "S" /\ kind[y][2] \in T
      OBVIOUS
<1> HIDE DEF n, G
<1>6. NextOf(Q, pw) = s.w
  <2>1. CASE q = 1
        BY <1>1, <1>2, <1>3, <1>4, <2>1, NextIs
  <2>2. CASE q > 1
    <3>1. q - 1 # n /\ (q - 1) + 1 = q
          BY <1>1 DEF n
    <3>2. NextOf(Q, Q.seq[q - 1]) = Q.seq[(q - 1) + 1]
          BY <1>1, <1>4, <2>2, <3>1, NextIs DEF n
    <3> QED
        BY <1>3, <1>4, <2>2, <3>1, <3>2
  <2> QED
      BY <1>1, <2>1, <2>2 DEF n
<1>7. \/ kind[Q.seq[q]][1] = "X"
      \/ Marks(Q, kind, q, G) /\ (q > 1 => kind[pw] \notin G)
  <2> SUFFICES ASSUME kind[s.w][1] # "X"
               PROVE  Marks(Q, kind, q, G) /\ (q > 1 => kind[pw] \notin G)
      BY <1>3
  <2>1. r = n /\ MarkedTo(Q, kind, T, q, n)
        BY <1>3 DEF n
  <2>2. Marks(Q, kind, q, G)
    <3> SUFFICES ASSUME NEW k \in q..n
                 PROVE  /\ kind[Q.seq[k]] \in G => Q.seq[k] \in Q.wake
                        /\ kind[Q.seq[k]] \notin G /\ Q.seq[k] \in Q.wake =>
                             k > q /\ Q.skip[Q.seq[k - 1]] # Null
        BY Zenon DEF Marks, n
    <3>1. /\ kind[Q.seq[k]][1] = "S" /\ kind[Q.seq[k]][2] \in T => Q.seq[k] \in Q.wake
          /\ ~(kind[Q.seq[k]][1] = "S" /\ kind[Q.seq[k]][2] \in T) /\ Q.seq[k] \in Q.wake
               => k > q /\ Q.skip[Q.seq[k - 1]] # Null
          BY <2>1, Zenon DEF MarkedTo
    <3>2. Q.seq[k] \in Threads
          BY <1>1
    <3> QED
        BY <1>5, <3>1, <3>2
  <2>3. q > 1 => kind[pw] \notin G
        BY <1>1, <1>3, <1>4, <1>5 DEF NoneRuns
  <2> QED
      BY <2>2, <2>3
<1>8. Woken(Q, kind, DequeueAllWakeable(Q, pw, kind))
  <2>1. /\ Q.seq[q] \in Q.wake /\ (q = 1 => pw = HeadOf(Q))
        /\ q > 1 => pw = Q.seq[q - 1] /\ Q.skip[pw] = Null
        BY <1>3, <1>4
  <2> QED
      BY <1>7, <2>1, WakesAll, Zenon
<1> QED
    BY <1>6, <1>8

(* A search looks at the kinds of the waiters only.                        *)
LEMMA SameSearch ==
  ASSUME NEW Q, NEW kind, NEW kind2, Good(Q, kind), \A x \in Waiting(Q) : kind2[x] = kind[x],
         NEW T, NEW s, NEW o, NEW r, Search(Q, kind, T, s, o, r)
  PROVE  /\ Search(Q, kind2, T, s, o, r)
         /\ LooksAt(Q, kind, s, o, r) => LooksAt(Q, kind2, s, o, r)
<1> DEFINE n == Len(Q.seq)
<1>1. /\ n \in Nat /\ o \in 1..n /\ r \in 0..o
      /\ \A i \in 1..n : kind2[Q.seq[i]] = kind[Q.seq[i]]
  <2>1. DOMAIN Q.seq = 1..n /\ n \in Nat
        BY QueueTyped
  <2> QED
      BY <2>1 DEF Waiting, Search
<1>2. Easy(Q, kind2) <=> Easy(Q, kind)
  <2>1. Q.seq # <<>> /\ 1 \in 1..n
        BY <1>1, QueueTyped
  <2> QED
      BY <1>1, <2>1 DEF Easy
<1> HIDE DEF n
<1>3. \A j \in 0..n : NoneRuns(Q, kind, T, j) => NoneRuns(Q, kind2, T, j)
      BY <1>1 DEF NoneRuns
<1>4. ASSUME NEW q \in 1..r, FirstFound(Q, kind, T, s, q, r)
      PROVE  FirstFound(Q, kind2, T, s, q, r)
  <2>1. q \in 1..n /\ q - 1 \in 0..n /\ \A k \in q..r : k \in 1..n
        BY <1>1
  <2>2. NoneRuns(Q, kind2, T, q - 1)
        BY <1>3, <1>4, <2>1 DEF FirstFound
  <2>3. kind2[s.w] = kind[s.w]
        BY <1>1, <1>4, <2>1 DEF FirstFound
  <2>4. MarkedTo(Q, kind, T, q, r) => MarkedTo(Q, kind2, T, q, r)
    <3> SUFFICES ASSUME MarkedTo(Q, kind, T, q, r), NEW k \in q..r
                 PROVE  /\ kind2[Q.seq[k]][1] = "S" /\ kind2[Q.seq[k]][2] \in T =>
                             Q.seq[k] \in Q.wake
                        /\ /\ ~(kind2[Q.seq[k]][1] = "S" /\ kind2[Q.seq[k]][2] \in T)
                           /\ Q.seq[k] \in Q.wake
                           => k > q /\ Q.skip[Q.seq[k - 1]] # Null
        BY Zenon DEF MarkedTo
    <3>1. /\ kind[Q.seq[k]][1] = "S" /\ kind[Q.seq[k]][2] \in T => Q.seq[k] \in Q.wake
          /\ ~(kind[Q.seq[k]][1] = "S" /\ kind[Q.seq[k]][2] \in T) /\ Q.seq[k] \in Q.wake
               => k > q /\ Q.skip[Q.seq[k - 1]] # Null
          BY Zenon DEF MarkedTo
    <3>2. kind2[Q.seq[k]] = kind[Q.seq[k]]
          BY <1>1, <2>1
    <3> QED
        BY <3>1, <3>2
  <2> QED
      BY <1>4, <2>2, <2>3, <2>4 DEF FirstFound
<1>5. FoundSoFar(Q, kind, T, s, r) => FoundSoFar(Q, kind2, T, s, r)
  <2>1. r \in 0..n
        BY <1>1
  <2> QED
      BY <1>3, <1>4, <2>1 DEF FoundSoFar
<1> QED
    BY <1>2, <1>5 DEF Search, LooksAt
=============================================================================
