----------------------------- MODULE Iteration ------------------------------
(***************************************************************************)
(* Induction over the numbers up to N, for what is shown one step of a     *)
(* loop after the other, and the functions that a recursion defines.       *)
(***************************************************************************)
EXTENDS Integers, FiniteSetTheorems, TLAPS

(* The order of the natural numbers.                                       *)
Less == {ss \in Nat \X Nat : ss[1] < ss[2]}

(* Induction, for a property given as the set of numbers that have it: the *)
(* least number without it would follow one that has it.                   *)
LEMMA Induction ==
  ASSUME NEW N \in Nat, NEW T, 0 \in T, \A k \in 1 .. N : k - 1 \in T => k \in T
  PROVE  \A k \in 0 .. N : k \in T
<1> DEFINE Bad == (0 .. N) \ T
<1>1. SUFFICES ASSUME Bad # {} PROVE FALSE
      OBVIOUS
<1>2. IsWellFoundedOn(Less, Nat)
      BY NatLessThanWellFounded, Zenon DEF OpToRel, Less
<1>3. PICK k \in Bad : \A m \in Bad : <<m, k>> \notin Less
  <2>1. Bad \subseteq Nat
        OBVIOUS
  <2> HIDE DEF Bad
  <2> QED
      BY <1>1, <1>2, <2>1, WFMin
<1>4. k \in 1 .. N
      OBVIOUS
<1>5. k - 1 \notin Bad
  <2>1. <<k - 1, k>> \in Less
        BY <1>4 DEF Less
  <2> HIDE DEF Bad
  <2> QED
      BY <1>3, <2>1
<1> QED
    BY <1>4, <1>5

(* A set of natural numbers has a least element, and one without numbers   *)
(* above m a greatest.                                                     *)
LEMMA Least ==
  ASSUME NEW S, S \subseteq Nat, S # {}
  PROVE  \E q \in S : \A r \in S : q <= r
<1>1. IsWellFoundedOn(Less, Nat)
      BY NatLessThanWellFounded, Zenon DEF OpToRel, Less
<1>2. PICK k \in S : \A m \in S : <<m, k>> \notin Less
      BY <1>1, WFMin
<1>3. \A m \in S : m \in Nat /\ k \in Nat /\ ~(m < k)
  <2>1. \A m \in S : <<m, k>> \in Nat \X Nat
        OBVIOUS
  <2> QED
      BY <1>2, <2>1 DEF Less
<1>4. \A m \in S : k <= m
      BY <1>3
<1> QED
    BY <1>4

LEMMA Greatest ==
  ASSUME NEW S, S \subseteq Nat, S # {}, NEW m \in Nat, \A r \in S : r <= m
  PROVE  \E q \in S : \A r \in S : r <= q
<1> DEFINE U == {u \in Nat : \A r \in S : r <= u}
<1>1. U \subseteq Nat /\ U # {}
      OBVIOUS
<1>2. PICK q \in U : \A u \in U : q <= u
  <2> HIDE DEF U
  <2> QED
      BY <1>1, Least
<1>3. q \in S
  <2> SUFFICES ASSUME q \notin S PROVE FALSE
      OBVIOUS
  <2>1. \A r \in S : r <= q - 1 /\ r \in Nat
        OBVIOUS
  <2>2. q - 1 \in U /\ q \in Nat
    <3>1. PICK r \in S : r <= q - 1 /\ r \in Nat
          BY <2>1
    <3>2. q - 1 \in Nat
          BY <3>1
    <3> QED
        BY <2>1, <3>2
  <2> QED
      BY <1>2, <2>2
<1> QED
    BY <1>3

(* The values of a loop that starts with v0, as a function.               *)
Iterates(f, N, V, v0, step) ==
  /\ f \in [0 .. N -> V]
  /\ \A k \in 0 .. N : f[k] = IF k = 0 THEN v0 ELSE step[k][f[k - 1]]

(* Recursion: a value for 0 and the steps from one number to the next make *)
(* a function.                                                             *)
LEMMA Recursion ==
  ASSUME NEW V, NEW v0 \in V, NEW N \in Nat, NEW step \in [1 .. N -> [V -> V]]
  PROVE  \E f : Iterates(f, N, V, v0, step)
<1> DEFINE Is(f, n) == \A k \in 0 .. n : f[k] = IF k = 0 THEN v0 ELSE step[k][f[k - 1]]
           T == {n \in 0 .. N : \E f \in [0 .. n -> V] : Is(f, n)}
<1>1. 0 \in T
  <2> DEFINE g == [k \in 0 .. 0 |-> v0]
  <2>1. g \in [0 .. 0 -> V] /\ Is(g, 0)
        OBVIOUS
  <2> HIDE DEF g, Is
  <2> QED
      BY <2>1
<1>2. ASSUME NEW n \in 1 .. N, n - 1 \in T PROVE n \in T
  <2>1. PICK f \in [0 .. n - 1 -> V] : Is(f, n - 1)
        BY <1>2
  <2> DEFINE g == [k \in 0 .. n |-> IF k = n THEN step[n][f[n - 1]] ELSE f[k]]
  <2>2. n - 1 \in 0 .. n - 1 /\ f[n - 1] \in V /\ step[n][f[n - 1]] \in V
        OBVIOUS
  <2>3. g \in [0 .. n -> V]
        BY <2>2
  <2>4. ASSUME NEW k \in 0 .. n PROVE g[k] = IF k = 0 THEN v0 ELSE step[k][g[k - 1]]
    <3>1. CASE k = n
      <4>1. k # 0 /\ k - 1 \in 0 .. n /\ k - 1 # n
            BY <3>1
      <4> QED
          BY <3>1, <4>1
    <3>2. CASE k # n
      <4>1. k \in 0 .. n - 1 /\ (k # 0 => k - 1 \in 0 .. n /\ k - 1 # n)
            BY <3>2
      <4>2. f[k] = IF k = 0 THEN v0 ELSE step[k][f[k - 1]]
            BY <2>1, <4>1
      <4> QED
          BY <3>2, <4>1, <4>2
    <3> QED
        BY <3>1, <3>2
  <2>5. Is(g, n)
        BY <2>4
  <2> HIDE DEF g, Is
  <2> QED
      BY <2>3, <2>5
<1>3. N \in T
  <2>1. N \in 0 .. N
        OBVIOUS
  <2> HIDE DEF T
  <2> QED
      BY <1>1, <1>2, <2>1, Induction
<1> QED
    BY <1>3 DEF Iterates
-----------------------------------------------------------------------------
(* A list that starts with head and ends with End visits the elements of X *)
(* once each; h numbers them from the end.                                 *)
Numbers(h, n, list, head, End, X) ==
  /\ h \in [0 .. n -> X \cup {End}] /\ h[0] = End /\ h[n] = head
  /\ \A k \in 1 .. n : h[k] \in X /\ list[h[k]] = h[k - 1]
  /\ \A j, k \in 1 .. n : h[j] = h[k] => j = k
  /\ \A x \in X : \E k \in 1 .. n : h[k] = x

Chain(list, head, End, X) == \E n \in Nat : \E h : Numbers(h, n, list, head, End, X)

(* A list that starts with its end is empty.                               *)
LEMMA EmptyChain ==
  ASSUME NEW list, NEW End, NEW X, End \notin X
  PROVE  Chain(list, End, End, X) <=> X = {}
<1>1. ASSUME X = {} PROVE Chain(list, End, End, X)
  <2> DEFINE h == [k \in 0 .. 0 |-> End]
  <2>1. h[0] = End /\ h \in [0 .. 0 -> X \cup {End}]
        OBVIOUS
  <2> HIDE DEF h
  <2>2. Numbers(h, 0, list, End, End, X)
        BY <1>1, <2>1 DEF Numbers
  <2> QED
      BY <2>2 DEF Chain
<1>2. ASSUME Chain(list, End, End, X) PROVE X = {}
  <2>1. PICK n \in Nat : \E h : Numbers(h, n, list, End, End, X)
        BY <1>2 DEF Chain
  <2>2. PICK h : Numbers(h, n, list, End, End, X)
        BY <2>1
  <2>3. n \notin 1 .. n
        BY <2>2 DEF Numbers
  <2> QED
      BY <2>2, <2>3 DEF Numbers
<1> QED
    BY <1>1, <1>2

(* A new element is put before the list.                                   *)
LEMMA PushChain ==
  ASSUME NEW list, NEW head, NEW End, NEW X, NEW longer, NEW s,
         s \notin X, s # End, Chain(list, head, End, X),
         longer[s] = head, \A x \in X : longer[x] = list[x]
  PROVE  Chain(longer, s, End, X \cup {s})
<1>1. PICK n \in Nat : \E h : Numbers(h, n, list, head, End, X)
      BY DEF Chain
<1>2. PICK h : Numbers(h, n, list, head, End, X)
      BY <1>1
<1> DEFINE g == [k \in 0 .. n + 1 |-> IF k = n + 1 THEN s ELSE h[k]]
           Y == X \cup {s}
<1>3. /\ g[n + 1] = s /\ \A k \in 0 .. n : g[k] = h[k]
      /\ \A k \in 0 .. n + 1 : k = n + 1 \/ k \in 0 .. n
      /\ \A k \in 1 .. n + 1 : k = n + 1 \/ k \in 1 .. n
      OBVIOUS
<1>4. g \in [0 .. n + 1 -> Y \cup {End}]
      BY <1>2, <1>3 DEF Numbers
<1> HIDE DEF g
<1>5. g[0] = End
      BY <1>2, <1>3 DEF Numbers
<1>6. ASSUME NEW k \in 1 .. n + 1 PROVE g[k] \in Y /\ longer[g[k]] = g[k - 1]
  <2>1. CASE k = n + 1
        BY <1>2, <1>3, <2>1 DEF Numbers
  <2>2. CASE k \in 1 .. n
    <3>1. k \in 0 .. n /\ k - 1 \in 0 .. n
          BY <2>2
    <3>2. h[k] \in X /\ list[h[k]] = h[k - 1]
          BY <1>2, <2>2 DEF Numbers
    <3>3. g[k] = h[k] /\ g[k - 1] = h[k - 1]
          BY <1>3, <3>1
    <3> QED
        BY <3>2, <3>3
  <2> QED
      BY <1>3, <2>1, <2>2
<1>7. ASSUME NEW j \in 1 .. n + 1, NEW k \in 1 .. n + 1, g[j] = g[k] PROVE j = k
  <2>1. \A m \in 1 .. n : g[m] = h[m] /\ g[m] # s
    <3>1. \A m \in 1 .. n : m \in 0 .. n /\ h[m] \in X
          BY <1>2 DEF Numbers
    <3> QED
        BY <1>3, <3>1
  <2>2. CASE j = n + 1 \/ k = n + 1
        BY <1>3, <1>7, <2>1, <2>2
  <2>3. CASE j \in 1 .. n /\ k \in 1 .. n
    <3>1. h[j] = h[k]
          BY <1>7, <2>1, <2>3
    <3> QED
        BY <1>2, <2>3, <3>1 DEF Numbers
  <2> QED
      BY <1>3, <2>2, <2>3
<1>8. ASSUME NEW x \in Y PROVE \E k \in 1 .. n + 1 : g[k] = x
  <2>1. CASE x = s
        BY <1>3, <2>1
  <2>2. CASE x \in X
    <3>1. PICK k \in 1 .. n : h[k] = x
          BY <1>2, <2>2 DEF Numbers
    <3>2. k \in 0 .. n /\ k \in 1 .. n + 1
          OBVIOUS
    <3> QED
        BY <1>3, <3>1, <3>2
  <2> QED
      BY <2>1, <2>2
<1>9. Numbers(g, n + 1, longer, s, End, Y)
      BY <1>3, <1>4, <1>5, <1>6, <1>7, <1>8 DEF Numbers
<1> QED
    BY <1>9 DEF Chain

(* The first element is taken off the list.                                *)
LEMMA PopChain ==
  ASSUME NEW list, NEW head, NEW End, NEW X, End \notin X,
         head # End, Chain(list, head, End, X)
  PROVE  head \in X /\ Chain(list, list[head], End, X \ {head})
<1>1. PICK n \in Nat : \E h : Numbers(h, n, list, head, End, X)
      BY DEF Chain
<1>2. PICK h : Numbers(h, n, list, head, End, X)
      BY <1>1
<1>3. n # 0
      BY <1>2 DEF Numbers
<1>4. /\ n \in 1 .. n /\ n - 1 \in Nat /\ head \in X /\ list[head] = h[n - 1]
      BY <1>2, <1>3 DEF Numbers
<1> DEFINE g == [k \in 0 .. n - 1 |-> h[k]]
           Y == X \ {head}
<1>5. /\ \A k \in 0 .. n - 1 : g[k] = h[k] /\ k \in 0 .. n
      /\ \A k \in 1 .. n - 1 : k \in 1 .. n /\ k # n /\ k \in 0 .. n - 1 /\ k - 1 \in 0 .. n - 1
      /\ \A k \in 1 .. n : k = n \/ k \in 1 .. n - 1
      /\ 0 \in 0 .. n - 1 /\ n - 1 \in 0 .. n - 1
      BY <1>4
<1>6. \A k \in 1 .. n - 1 : h[k] \in Y
      BY <1>2, <1>4, <1>5 DEF Numbers
<1>7. \A k \in 0 .. n - 1 : k = 0 \/ k \in 1 .. n - 1
      OBVIOUS
<1>8. g \in [0 .. n - 1 -> Y \cup {End}]
      BY <1>2, <1>5, <1>6, <1>7 DEF Numbers
<1> HIDE DEF g
<1>9. Numbers(g, n - 1, list, list[head], End, Y)
      BY <1>2, <1>4, <1>5, <1>6, <1>8 DEF Numbers
<1> QED
    BY <1>4, <1>9 DEF Chain

(* What is linked elsewhere does not matter.                               *)
LEMMA SameChain ==
  ASSUME NEW list, NEW head, NEW End, NEW X, NEW other,
         Chain(list, head, End, X), \A x \in X : other[x] = list[x]
  PROVE  Chain(other, head, End, X)
<1>1. PICK n \in Nat : \E h : Numbers(h, n, list, head, End, X)
      BY DEF Chain
<1>2. PICK h : Numbers(h, n, list, head, End, X)
      BY <1>1
<1>3. \A k \in 1 .. n : other[h[k]] = list[h[k]]
      BY <1>2 DEF Numbers
<1>4. Numbers(h, n, other, head, End, X)
      BY <1>2, <1>3 DEF Numbers
<1> QED
    BY <1>4 DEF Chain

(* What is reached from the head in at most n steps, for n up to M.        *)
Reaches(g, list, head, End, M) ==
  g = [n \in 0 .. M |-> IF n = 0 THEN {head} \ {End}
                        ELSE g[n - 1] \cup ({list[s] : s \in g[n - 1]} \ {End})]

(* What is reached in M steps from the head are all of at most M elements. *)
LEMMA ReachChain ==
  ASSUME NEW list, NEW head, NEW End, NEW M \in Nat, NEW X, X \subseteq 1 .. M, End \notin X,
         Chain(list, head, End, X)
  PROVE  /\ \E g : Reaches(g, list, head, End, M)
         /\ \A g : Reaches(g, list, head, End, M) => g[M] = X
<1>1. PICK n \in Nat : \E h : Numbers(h, n, list, head, End, X)
      BY DEF Chain
<1>2. PICK h : Numbers(h, n, list, head, End, X)
      BY <1>1
<1> DEFINE After(m) == {h[k] : k \in {j \in 1 .. n : j >= n - m}}
           f == [m \in 0 .. M |-> After(m)]
<1>3. ASSUME NEW m \in 0 .. M
      PROVE  After(m) = IF m = 0 THEN {head} \ {End}
                        ELSE After(m - 1) \cup ({list[s] : s \in After(m - 1)} \ {End})
  <2>1. CASE m = 0
    <3>1. CASE n = 0
          BY <1>2, <2>1, <3>1 DEF Numbers
    <3>2. CASE n # 0
      <4>1. n \in 1 .. n /\ h[n] = head /\ head # End
            BY <1>2, <3>2 DEF Numbers
      <4>2. \A j \in 1 .. n : j >= n - m <=> j = n
            BY <2>1
      <4> QED
          BY <2>1, <4>1, <4>2
    <3> QED
        BY <3>1, <3>2
  <2>2. CASE m # 0
    <3>1. ASSUME NEW x \in After(m)
          PROVE  x \in After(m - 1) \/ (x # End /\ \E s \in After(m - 1) : x = list[s])
      <4>1. PICK k \in 1 .. n : k >= n - m /\ x = h[k]
            BY <3>1
      <4>2. CASE k >= n - (m - 1)
            BY <4>1, <4>2
      <4>3. CASE ~(k >= n - (m - 1))
        <5>1. CASE k = n
              BY <4>1, <4>3, <5>1, <2>2
        <5>2. CASE k # n
          <6>1. k + 1 \in 1 .. n /\ k + 1 >= n - (m - 1) /\ (k + 1) - 1 = k
                BY <4>1, <5>2
          <6>2. h[k + 1] \in After(m - 1) /\ list[h[k + 1]] = h[k] /\ h[k] \in X
                BY <1>2, <6>1 DEF Numbers
          <6> QED
              BY <4>1, <6>2
        <5> QED
            BY <5>1, <5>2
      <4> QED
          BY <4>2, <4>3
    <3>2. After(m - 1) \subseteq After(m)
          OBVIOUS
    <3>3. ASSUME NEW s \in After(m - 1), list[s] # End PROVE list[s] \in After(m)
      <4>1. PICK k \in 1 .. n : k >= n - (m - 1) /\ s = h[k]
            OBVIOUS
      <4>2. list[s] = h[k - 1]
            BY <1>2, <4>1 DEF Numbers
      <4>3. k # 1
            BY <1>2, <3>3, <4>2 DEF Numbers
      <4>4. k - 1 \in 1 .. n /\ k - 1 >= n - m
            BY <4>1, <4>3
      <4> QED
          BY <4>2, <4>4
    <3> HIDE DEF After
    <3> QED
        BY <2>2, <3>1, <3>2, <3>3
  <2> QED
      BY <2>1, <2>2
<1> HIDE DEF After
<1>4. \A m \in 0 .. M : m # 0 => m - 1 \in 0 .. M
      OBVIOUS
<1>5. f = [m \in 0 .. M |-> IF m = 0 THEN {head} \ {End}
                            ELSE f[m - 1] \cup ({list[s] : s \in f[m - 1]} \ {End})]
  <2>1. \A m \in 0 .. M : f[m] = IF m = 0 THEN {head} \ {End}
                                 ELSE f[m - 1] \cup ({list[s] : s \in f[m - 1]} \ {End})
        BY <1>3, <1>4
  <2> QED
      BY <2>1
<1>6. Reaches(f, list, head, End, M)
  <2> HIDE DEF f
  <2> QED
      BY <1>5 DEF Reaches
<1>f. SUFFICES ASSUME NEW reach, Reaches(reach, list, head, End, M) PROVE reach[M] = X
  <2> HIDE DEF f
  <2> QED
      BY <1>6
<1> DEFINE T == {m \in 0 .. M : reach[m] = After(m)}
<1>7. \A m \in 0 .. M : reach[m] = IF m = 0 THEN {head} \ {End}
                                ELSE reach[m - 1] \cup ({list[s] : s \in reach[m - 1]} \ {End})
      BY <1>f DEF Reaches
<1>8. 0 \in T
  <2>1. 0 \in 0 .. M
        OBVIOUS
  <2>2. After(0) = {head} \ {End}
        BY <1>3, <2>1
  <2>3. reach[0] = {head} \ {End}
        BY <1>7, <2>1
  <2> QED
      BY <2>1, <2>2, <2>3
<1>9. ASSUME NEW m \in 1 .. M, m - 1 \in T PROVE m \in T
  <2>1. m \in 0 .. M /\ m # 0 /\ reach[m - 1] = After(m - 1)
        BY <1>9
  <2> QED
      BY <1>3, <1>7, <2>1
<1>10. reach[M] = After(M)
  <2>1. M \in 0 .. M
        OBVIOUS
  <2> HIDE DEF T
  <2>2. M \in T
        BY <1>8, <1>9, <2>1, Induction
  <2> QED
      BY <2>2 DEF T
<1>11. n <= M
  <2> DEFINE g == [k \in 1 .. n |-> h[k]]
  <2>1. \A k \in 1 .. n : h[k] \in 1 .. M
        BY <1>2 DEF Numbers
  <2>2. \A j, k \in 1 .. n : h[j] = h[k] => j = k
        BY <1>2 DEF Numbers
  <2>3. g \in Injection(1 .. n, 1 .. M)
        BY <2>1, <2>2 DEF Injection, IsInjective
  <2>4. IsFiniteSet(1 .. M) /\ Cardinality(1 .. M) = M /\ Cardinality(1 .. n) = n
        BY FS_Interval
  <2> HIDE DEF g
  <2>5. Cardinality(1 .. n) <= Cardinality(1 .. M)
        BY <2>3, <2>4, FS_Injection
  <2> QED
      BY <2>4, <2>5
<1>12. After(M) = X
  <2>1. \A k \in 1 .. n : k >= n - M
        BY <1>11
  <2>2. \A x \in X : \E k \in 1 .. n : h[k] = x
        BY <1>2 DEF Numbers
  <2>3. \A k \in 1 .. n : h[k] \in X
        BY <1>2 DEF Numbers
  <2> QED
      BY <2>1, <2>2, <2>3 DEF After
<1> QED
    BY <1>10, <1>12

=============================================================================
