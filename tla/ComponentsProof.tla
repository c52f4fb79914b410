--------------------------- MODULE ComponentsProof --------------------------
(***************************************************************************)
(* The components of Components, each for any values of its constants: the *)
(* rotating sink; the daily sink; the wait times of SpinLock; the seqlock  *)
(* of the clock; the skip list of free blocks; the allocator; the graph of *)
(* lock orders; and the sampler of hash tables.                            *)
(***************************************************************************)
EXTENDS Components, SequenceTheorems, Iteration, TLAPS

(* Sizes are natural numbers, and no content of a file is "no file".       *)
SinkMessages == [id : Nat, len : Nat]
SinkSane ==
  /\ max_files_ \in Nat /\ max_size_ \in Nat /\ Sizes \subseteq Nat
  /\ Absent \notin Seq(SinkMessages)

-----------------------------------------------------------------------------
(* The length of a file is a number.                                       *)
LEMMA SizeIsNat == \A s \in Seq(SinkMessages) : Rotating!Size(s) \in Nat
<1> SUFFICES ASSUME NEW s \in Seq(SinkMessages) PROVE Rotating!Size(s) \in Nat
    OBVIOUS
<1> DEFINE step == [k \in 1 .. Len(s) |-> [v \in Nat |-> v + s[k].len]]
           sum == CHOOSE g : g = [k \in 0 .. Len(s) |-> IF k = 0 THEN 0 ELSE g[k - 1] + s[k].len]
<1>1. \A k \in 1 .. Len(s) : s[k].len \in Nat
  <2>1. \A k \in 1 .. Len(s) : s[k] \in SinkMessages
        OBVIOUS
  <2> QED
      BY <2>1 DEF SinkMessages
<1>2. PICK f : Iterates(f, Len(s), Nat, 0, step)
  <2>1. step \in [1 .. Len(s) -> [Nat -> Nat]] /\ Len(s) \in Nat /\ 0 \in Nat
        BY <1>1
  <2> HIDE DEF step
  <2> QED
      BY <2>1, Recursion
<1>3. \A k \in 0 .. Len(s) : f[k] = IF k = 0 THEN 0 ELSE f[k - 1] + s[k].len
  <2>1. \A k \in 0 .. Len(s) : k # 0 => k \in 1 .. Len(s) /\ f[k - 1] \in Nat
        BY <1>2 DEF Iterates
  <2> QED
      BY <1>2, <2>1 DEF Iterates
<1>4. f = [k \in 0 .. Len(s) |-> IF k = 0 THEN 0 ELSE f[k - 1] + s[k].len]
      BY <1>2, <1>3 DEF Iterates
<1>5. sum = [k \in 0 .. Len(s) |-> IF k = 0 THEN 0 ELSE sum[k - 1] + s[k].len]
      BY <1>4
<1>6. Rotating!Size(s) = sum[Len(s)]
      BY DEF Rotating!Size
<1> HIDE DEF sum
<1> DEFINE T == {k \in 0 .. Len(s) : sum[k] \in Nat}
<1>7. 0 \in T
      BY <1>5
<1>8. ASSUME NEW k \in 1 .. Len(s), k - 1 \in T PROVE k \in T
  <2>1. k \in 0 .. Len(s) /\ k # 0 /\ sum[k - 1] \in Nat
        BY <1>8
  <2>2. sum[k] = sum[k - 1] + s[k].len
        BY <1>5, <2>1
  <2> QED
      BY <1>1, <2>1, <2>2
<1>9. Len(s) \in Nat /\ Len(s) \in 0 .. Len(s)
      OBVIOUS
<1>10. Len(s) \in T
  <2> HIDE DEF T
  <2> QED
      BY <1>7, <1>8, <1>9, Induction
<1> QED
    BY <1>6, <1>10

-----------------------------------------------------------------------------
SinkTyped ==
  /\ file \in [Rotating!Names -> Seq(SinkMessages) \cup {Absent}]
  /\ fd_ \in BOOLEAN /\ buf \in Seq(SinkMessages) /\ current_size_ \in Nat
  /\ msg \in SinkMessages /\ i \in Rotating!Names
  /\ pc \in {"idle", "rotate", "write", "down"}

(* A rotation begins with the size above the limit, and the size stays     *)
(* there while the file is closed.                                         *)
SinkClosed ==
  /\ fd_ => file[0] # Absent
  /\ ~fd_ => buf = <<>>
  /\ pc = "write" => fd_
  /\ pc \in {"rotate", "down"} => ~fd_
  /\ pc = "rotate" \/ (pc = "idle" /\ ~fd_) => current_size_ > max_size_
  /\ pc = "rotate" /\ i < max_files_ => file[i] = Absent

(* No file is open before a rotation has succeeded, and no call comes to   *)
(* write with the file closed.                                             *)
OpenIInv == SinkTyped /\ SinkClosed

(* The constructor opens the first file.                                   *)
LEMMA InitOpen == ASSUME SinkSane PROVE Rotating!Init => OpenIInv
BY DEF SinkSane, Rotating!Init, OpenIInv, SinkTyped, SinkClosed, Rotating!Names, SinkMessages

Disk == [Rotating!Names -> Seq(SinkMessages) \cup {Absent}]

(* Both parts of the buffer are sequences of messages, and so is the file. *)
LEMMA TransferTyped ==
  ASSUME SinkSane, OpenIInv, fd_, NEW k \in 0..Len(buf)
  PROVE  /\ SubSeq(buf, 1, k) \in Seq(SinkMessages)
         /\ Rotating!Remainder(k) \in Seq(SinkMessages)
         /\ Rotating!Transfer(k) => file' \in Disk /\ file'[0] \in Seq(SinkMessages)
<1> USE DEF SinkSane, OpenIInv, SinkTyped, SinkClosed, Rotating!Names, Disk
<1>1. SubSeq(buf, 1, k) \in Seq(SinkMessages) /\ SubSeq(buf, k + 1, Len(buf)) \in Seq(SinkMessages)
      OBVIOUS
<1>2. file[0] \in Seq(SinkMessages) /\ 0 \in Rotating!Names
      OBVIOUS
<1>3. file[0] \o SubSeq(buf, 1, k) \in Seq(SinkMessages)
      BY <1>1, <1>2
<1> QED
    BY <1>1, <1>2, <1>3 DEF Rotating!Remainder, Rotating!Transfer

(* fclose writes out what is in the buffer, or a part of it.               *)
LEMMA CloseTyped ==
  ASSUME SinkSane, OpenIInv, Rotating!close
  PROVE  file' \in Disk /\ fd_' = FALSE /\ buf' = <<>>
<1>1. CASE fd_
  <2>1. PICK k \in 0..Len(buf) : Rotating!Empty(k)
        BY <1>1 DEF Rotating!close
  <2> QED
      BY <1>1, <2>1, TransferTyped DEF Rotating!close, Rotating!Empty
<1>2. CASE ~fd_
      BY <1>2 DEF Rotating!close, OpenIInv, SinkTyped, SinkClosed, Disk
<1> QED
    BY <1>1, <1>2

(* Every step of a call, of a kill and of a restart keeps this.            *)
LEMMA NextOpen ==
  ASSUME SinkSane, OpenIInv, [Rotating!Next]_(Rotating!vars)
  PROVE  OpenIInv'
<1> USE DEF SinkSane, OpenIInv, SinkTyped, SinkClosed, Rotating!Names, Rotating!Throw,
            Rotating!Fault
<1>0. Disk = [Rotating!Names -> Seq(SinkMessages) \cup {Absent}]
      BY DEF Disk
<1>1. CASE UNCHANGED Rotating!vars \/ Rotating!Done
      BY <1>1 DEF Rotating!vars, Rotating!Done
<1>2. ASSUME NEW len \in Sizes, Rotating!sink_it_(len) PROVE OpenIInv'
  <2>1. msg' \in SinkMessages
        BY <1>2 DEF Rotating!sink_it_, SinkMessages
  <2>2. CASE current_size_ + len > max_size_
    <3>1. /\ Rotating!close /\ pc' = "rotate" /\ i' = max_files_
          /\ current_size_' = current_size_ + len
          BY <1>2, <2>2 DEF Rotating!sink_it_
    <3>2. /\ file' \in [Rotating!Names -> Seq(SinkMessages) \cup {Absent}]
          /\ fd_' = FALSE /\ buf' = <<>>
          BY <1>0, <3>1, CloseTyped
    <3>3. current_size_ + len \in Nat
          OBVIOUS
    <3>4. SinkTyped'
      <4>1. fd_' \in BOOLEAN
            BY <3>2
      <4>2. i' \in 0 .. max_files_ /\ buf' \in Seq(SinkMessages)
            BY <3>1, <3>2
      <4>3. current_size_' \in Nat /\ pc' \in {"idle", "rotate", "write", "down"}
            BY <3>1, <3>3
      <4> QED
          BY <2>1, <3>2, <4>1, <4>2, <4>3
    <3>5. SinkClosed'
          BY <2>2, <3>1, <3>2
    <3> QED
        BY <3>4, <3>5
  <2>3. CASE ~ (current_size_ + len > max_size_)
        BY <1>2, <2>1, <2>3 DEF Rotating!sink_it_
  <2> QED
      BY <2>2, <2>3
<1>3. CASE Rotating!RemoveTarget
      BY <1>3 DEF Rotating!RemoveTarget
<1>4. CASE Rotating!RenameSource
      BY <1>4 DEF Rotating!RenameSource
<1>5. CASE Rotating!Reopen
  <2>1. msg.len \in Nat /\ <<>> \in Seq(SinkMessages)
        BY DEF SinkMessages
  <2>2. 0 \in Rotating!Names
        OBVIOUS
  <2>3. file' \in [Rotating!Names -> Seq(SinkMessages) \cup {Absent}]
        BY <1>5, <2>1, <2>2 DEF Rotating!Reopen
  <2>4. file' = [file EXCEPT ![0] = <<>>] => file'[0] = <<>>
        BY <2>2
  <2>5. CASE file' = [file EXCEPT ![0] = <<>>] /\ fd_' = TRUE /\ pc' = "write"
        BY <1>5, <2>1, <2>3, <2>4, <2>5 DEF Rotating!Reopen
  <2>6. CASE pc' = "idle" /\ UNCHANGED <<file, fd_, current_size_>>
        BY <1>5, <2>6 DEF Rotating!Reopen
  <2> QED
      BY <1>5, <2>5, <2>6 DEF Rotating!Reopen
<1>6. CASE Rotating!Write
  <2>1. Append(buf, msg) \in Seq(SinkMessages)
        OBVIOUS
  <2> QED
      BY <1>6, <2>1 DEF Rotating!Write
<1>7. CASE Rotating!flush_
  <2>1. PICK k \in 0..Len(buf) : Rotating!Transfer(k) /\ buf' \in {<<>>, Rotating!Remainder(k)}
        BY <1>7 DEF Rotating!flush_, Rotating!Empty
  <2>2. /\ file' \in [Rotating!Names -> Seq(SinkMessages) \cup {Absent}]
        /\ file'[0] \in Seq(SinkMessages) /\ Rotating!Remainder(k) \in Seq(SinkMessages)
        BY <1>0, <1>7, <2>1, TransferTyped DEF Rotating!flush_
  <2>3. <<>> \in Seq(SinkMessages)
        OBVIOUS
  <2>4. pc # "rotate"
        BY <1>7 DEF Rotating!flush_
  <2> QED
      BY <1>7, <2>1, <2>2, <2>3, <2>4 DEF Rotating!flush_
<1>8. CASE Rotating!Crash
  <2>1. <<>> \in Seq(SinkMessages)
        OBVIOUS
  <2> QED
      BY <1>8, <2>1 DEF Rotating!Crash
<1>9. CASE Rotating!Construct
  <2>1. /\ file' \in [Rotating!Names -> Seq(SinkMessages) \cup {Absent}]
        /\ file'[0] \in Seq(SinkMessages)
        BY <1>9 DEF Rotating!Construct
  <2> QED
      BY <1>9, <2>1, SizeIsNat DEF Rotating!Construct
<1> QED
    BY <1>1, <1>2, <1>3, <1>4, <1>5, <1>6, <1>7, <1>8, <1>9 DEF Rotating!Next

-----------------------------------------------------------------------------
(* Adjacent pieces of a sequence join.                                     *)
LEMMA Joined ==
  ASSUME NEW S, NEW w \in Seq(S), NEW a \in Nat, NEW b \in Nat, NEW c \in Nat,
         a <= b, b <= c, c <= Len(w)
  PROVE  SubSeq(w, a + 1, b) \o SubSeq(w, b + 1, c) = SubSeq(w, a + 1, c)
OBVIOUS

(* A piece is not changed by what is cut off or appended behind it.        *)
LEMMA PieceStays ==
  ASSUME NEW S, NEW w \in Seq(S), NEW a \in Nat, NEW b \in Nat, NEW c \in Nat,
         a <= b, b <= c, c <= Len(w)
  PROVE  /\ SubSeq(SubSeq(w, 1, c), a + 1, b) = SubSeq(w, a + 1, b)
         /\ \A x \in S : SubSeq(Append(w, x), a + 1, b) = SubSeq(w, a + 1, b)
<1>1. SubSeq(SubSeq(w, 1, c), a + 1, b) = SubSeq(w, a + 1, b)
      OBVIOUS
<1>2. \A x \in S : SubSeq(Append(w, x), a + 1, b) = SubSeq(w, a + 1, b)
      OBVIOUS
<1> QED
    BY <1>1, <1>2

(* A piece is as long as it should be.                                     *)
LEMMA PieceLength ==
  ASSUME NEW S, NEW w \in Seq(S), NEW a \in Nat, NEW b \in Nat, a <= b, b <= Len(w)
  PROVE  SubSeq(w, a + 1, b) \in Seq(S) /\ Len(SubSeq(w, a + 1, b)) = b - a
OBVIOUS

(* What lies behind a place falls in two at any place.                     *)
LEMMA PieceInTwo ==
  ASSUME NEW S, NEW w \in Seq(S), NEW a \in Nat, NEW k \in Nat, a + k <= Len(w)
  PROVE  LET b == SubSeq(w, a + 1, Len(w))
         IN  /\ Len(b) = Len(w) - a
             /\ SubSeq(b, 1, k) = SubSeq(w, a + 1, a + k)
             /\ SubSeq(b, k + 1, Len(b)) = SubSeq(w, (a + k) + 1, Len(w))
OBVIOUS

(* The pieces ss of w end at the places at.                                *)
Follow(ss, w, at, n) ==
  \A k \in 1 .. n : at[k - 1] <= at[k] /\ ss[k] = SubSeq(w, at[k - 1] + 1, at[k])

(* Pieces that follow one another make up the whole from the first to the  *)
(* last.                                                                   *)
LEMMA Flattened ==
  ASSUME NEW S, NEW w \in Seq(S), NEW n \in Nat \ {0}, NEW ss \in Seq(Seq(S)),
         NEW at \in [0 .. n -> 0 .. Len(w)], Len(ss) = n, Follow(ss, w, at, n)
  PROVE  Rotating!FlattenSeq(ss) = SubSeq(w, at[0] + 1, at[n]) /\ at[0] <= at[n]
<1> DEFINE Upto(k) == SubSeq(w, at[0] + 1, at[k])
           Rises == {k \in 0 .. n : at[0] <= at[k]}
           f == [k \in 1 .. n |-> Upto(k)]
           flatten == CHOOSE g : g = [k \in 1 .. n |-> IF k = 1 THEN ss[k] ELSE g[k - 1] \o ss[k]]
           T == {k \in 0 .. n : k = 0 \/ flatten[k] = Upto(k)}
<1>1. \A k \in 0 .. n : at[0] <= at[k]
  <2>1. 0 \in Rises
        OBVIOUS
  <2>2. ASSUME NEW k \in 1 .. n, k - 1 \in Rises PROVE k \in Rises
    <3>1. k \in 0 .. n /\ k - 1 \in 0 .. n /\ at[0] <= at[k - 1]
          BY <2>2
    <3>2. at[k - 1] <= at[k]
          BY DEF Follow
    <3> QED
        BY <3>1, <3>2
  <2>3. n \in Nat
        OBVIOUS
  <2>4. \A k \in 0 .. n : k \in Rises
    <3> HIDE DEF Rises
    <3> QED
        BY <2>1, <2>2, <2>3, Induction
  <2> QED
      BY <2>4
<1>2. ASSUME NEW k \in 1 .. n
      PROVE  Upto(k) = IF k = 1 THEN ss[k] ELSE Upto(k - 1) \o ss[k]
  <2>1. /\ ss[k] = SubSeq(w, at[k - 1] + 1, at[k]) /\ at[k - 1] <= at[k]
        /\ k \in 0 .. n /\ k - 1 \in 0 .. n /\ at[0] <= at[k - 1]
    <3>1. k \in 0 .. n /\ k - 1 \in 0 .. n
          OBVIOUS
    <3> QED
        BY <1>1, <3>1 DEF Follow
  <2>2. CASE k = 1
        BY <2>1, <2>2
  <2>3. CASE k # 1
    <3>1. /\ at[0] \in Nat /\ at[k - 1] \in Nat /\ at[k] \in Nat
          /\ at[0] <= at[k - 1] /\ at[k - 1] <= at[k] /\ at[k] <= Len(w)
          BY <2>1
    <3>2. SubSeq(w, at[0] + 1, at[k - 1]) \o SubSeq(w, at[k - 1] + 1, at[k])
          = SubSeq(w, at[0] + 1, at[k])
          BY <3>1, Joined, ZenonT(30)
    <3> QED
        BY <2>1, <2>3, <3>2
  <2> QED
      BY <2>2, <2>3
<1>3. f = [k \in 1 .. n |-> IF k = 1 THEN ss[k] ELSE f[k - 1] \o ss[k]]
  <2>1. \A k \in 1 .. n : f[k] = IF k = 1 THEN ss[k] ELSE f[k - 1] \o ss[k]
    <3>1. ASSUME NEW k \in 1 .. n, k # 1 PROVE k - 1 \in 1 .. n
          BY <3>1, SMTT(30)
    <3> HIDE DEF Upto
    <3> QED
        BY <1>2, <3>1
  <2> QED
      BY <2>1, ZenonT(30)
<1>4. flatten = [k \in 1 .. n |-> IF k = 1 THEN ss[k] ELSE flatten[k - 1] \o ss[k]]
  <2> HIDE DEF f
  <2> QED
      BY <1>3
<1>5. Rotating!FlattenSeq(ss) = flatten[n]
      BY DEF Rotating!FlattenSeq
<1> HIDE DEF flatten, f, Upto
<1>6. 0 \in T
      OBVIOUS
<1>7. ASSUME NEW k \in 1 .. n, k - 1 \in T PROVE k \in T
  <2>1. flatten[k] = IF k = 1 THEN ss[k] ELSE flatten[k - 1] \o ss[k]
        BY <1>4
  <2>2. Upto(k) = IF k = 1 THEN ss[k] ELSE Upto(k - 1) \o ss[k]
        BY <1>2
  <2>3. k \in 0 .. n /\ (k # 1 => flatten[k - 1] = Upto(k - 1))
    <3>1. k - 1 = 0 \/ flatten[k - 1] = Upto(k - 1)
          BY <1>7
    <3> QED
        BY <3>1
  <2>4. flatten[k] = Upto(k)
        BY <2>1, <2>2, <2>3
  <2> QED
      BY <2>3, <2>4
<1>8. n \in T
  <2>1. n \in Nat /\ n \in 0 .. n
        OBVIOUS
  <2> HIDE DEF T
  <2> QED
      BY <1>6, <1>7, <2>1, Induction
<1>9. flatten[n] = Upto(n) /\ n \in 0 .. n
      BY <1>8
<1> QED
    BY <1>1, <1>5, <1>9 DEF Upto

-----------------------------------------------------------------------------
OnDisk(f, n) == IF f[n] = Absent THEN <<>> ELSE f[n]
Piece(s, w, a, b) == a <= b /\ s = SubSeq(w, a + 1, b)

(* The messages w lie in the files, from the last name to the first, and   *)
(* then in the buffer: cut[n] is where file n ends.                        *)
Cuts(f, b, w, cut) ==
  /\ cut \in [0 .. max_files_ + 1 -> 0 .. Len(w)]
  /\ \A n \in Rotating!Names : Piece(OnDisk(f, n), w, cut[n + 1], cut[n])
  /\ Piece(b, w, cut[0], Len(w))

(* The messages w have the numbers in W, and are in the order in which     *)
(* they were logged.                                                       *)
Survives(w, W) ==
  /\ \A a, b \in 1 .. Len(w) : a < b => w[a].id < w[b].id
  /\ Rotating!Ids(w) = W

(* The messages of W are in the files and the buffer, but for the oldest.  *)
Filed(f, b, W) ==
  \E w \in Seq(SinkMessages) : Survives(w, W) /\ \E cut : Cuts(f, b, w, cut)

(* The message of the call has not been written before, and is the latest. *)
SinkHistory ==
  /\ written \subseteq Nat /\ dropped \cup Rotating!Ids(buf) \subseteq written
  /\ \A m \in written : m <= msg.id
  /\ pc \in {"rotate", "write"} => msg.id \notin written

SinkIInv == OpenIInv /\ SinkHistory /\ Filed(file, buf, written \ dropped)

-----------------------------------------------------------------------------
(* The numbers of the messages of a sequence.                              *)
LEMMA IdsOf ==
  ASSUME NEW s \in Seq(SinkMessages)
  PROVE  /\ Rotating!Ids(s) = {s[k].id : k \in 1 .. Len(s)}
         /\ Rotating!Ids(s) \subseteq Nat
         /\ \A k \in 1 .. Len(s) : s[k] \in SinkMessages /\ s[k].id \in Rotating!Ids(s)
<1>1. /\ DOMAIN s = 1 .. Len(s)
      /\ \A k \in 1 .. Len(s) : s[k] \in SinkMessages /\ s[k].id \in Nat
  <2>1. DOMAIN s = 1 .. Len(s) /\ \A k \in 1 .. Len(s) : s[k] \in SinkMessages
        OBVIOUS
  <2>2. \A m \in SinkMessages : m.id \in Nat
        BY DEF SinkMessages
  <2> QED
      BY <2>1, <2>2
<1>2. Rotating!Ids(s) = {s[k].id : k \in 1 .. Len(s)}
      BY <1>1, Zenon DEF Rotating!Ids
<1> QED
    BY <1>1, <1>2

LEMMA NoIds == Rotating!Ids(<<>>) = {}
BY DEF Rotating!Ids

LEMMA IdsOfRest ==
  ASSUME NEW s \in Seq(SinkMessages), NEW k \in 0 .. Len(s)
  PROVE  Rotating!Ids(SubSeq(s, k + 1, Len(s))) \subseteq Rotating!Ids(s)
<1> DEFINE r == SubSeq(s, k + 1, Len(s))
<1>1. r \in Seq(SinkMessages) /\ Len(r) = Len(s) - k /\ \A a \in 1 .. Len(r) : r[a] = s[k + a]
      OBVIOUS
<1>2. \A a \in 1 .. Len(s) - k : k + a \in 1 .. Len(s)
      OBVIOUS
<1> HIDE DEF r
<1>3. Rotating!Ids(r) = {r[a].id : a \in 1 .. Len(s) - k}
      BY <1>1, IdsOf
<1>4. \A a \in 1 .. Len(s) - k : r[a].id \in Rotating!Ids(s)
  <2>1. \A a \in 1 .. Len(s) : s[a].id \in Rotating!Ids(s)
        BY IdsOf
  <2> QED
      BY <1>1, <1>2, <2>1
<1> QED
    BY <1>3, <1>4 DEF r

LEMMA IdsOfMore ==
  ASSUME NEW s \in Seq(SinkMessages), NEW m \in SinkMessages
  PROVE  Rotating!Ids(Append(s, m)) = Rotating!Ids(s) \cup {m.id}
<1> DEFINE r == Append(s, m)
<1>1. /\ r \in Seq(SinkMessages) /\ Len(r) = Len(s) + 1 /\ r[Len(s) + 1] = m
      /\ \A a \in 1 .. Len(s) : r[a] = s[a]
      OBVIOUS
<1>2. 1 .. Len(s) + 1 = (1 .. Len(s)) \cup {Len(s) + 1}
      OBVIOUS
<1> HIDE DEF r
<1>3. Rotating!Ids(r) = {r[k].id : k \in 1 .. Len(s) + 1}
      BY <1>1, IdsOf
<1>4. Rotating!Ids(s) = {s[k].id : k \in 1 .. Len(s)}
      BY IdsOf
<1> QED
    BY <1>1, <1>2, <1>3, <1>4 DEF r

(* A new message comes last.                                               *)
LEMMA OneMoreSurvives ==
  ASSUME NEW w \in Seq(SinkMessages), NEW W, NEW m \in SinkMessages, Survives(w, W),
         \A n \in W : n < m.id
  PROVE  Survives(Append(w, m), W \cup {m.id})
<1> DEFINE v == Append(w, m)
           L == Len(w)
<1>1. /\ Len(v) = L + 1 /\ v[L + 1] = m /\ L \in Nat /\ \A a \in 1 .. L : v[a] = w[a]
      OBVIOUS
<1>2. Rotating!Ids(v) = W \cup {m.id}
      BY IdsOfMore DEF Survives
<1>3. ASSUME NEW a \in 1 .. L + 1, NEW b \in 1 .. L + 1, a < b PROVE v[a].id < v[b].id
  <2>1. a \in 1 .. L /\ v[a] = w[a] /\ w[a].id \in W
        BY <1>1, <1>3, IdsOf DEF Survives
  <2>2. CASE b = L + 1
        BY <1>1, <2>1, <2>2
  <2>3. CASE b # L + 1
    <3>1. b \in 1 .. L /\ v[b] = w[b]
          BY <1>1, <2>3
    <3> QED
        BY <1>3, <2>1, <3>1 DEF Survives
  <2> QED
      BY <2>2, <2>3
<1> HIDE DEF v, L
<1> QED
    BY <1>1, <1>2, <1>3 DEF Survives, v

(* When what lies behind a place is lost, the others survive.              *)
LEMMA OthersSurvive ==
  ASSUME NEW w \in Seq(SinkMessages), NEW W, NEW x \in 0 .. Len(w), Survives(w, W)
  PROVE  Survives(SubSeq(w, 1, x), W \ Rotating!Ids(SubSeq(w, x + 1, Len(w))))
<1> DEFINE v == SubSeq(w, 1, x)
           b == SubSeq(w, x + 1, Len(w))
<1>1. v \in Seq(SinkMessages) /\ Len(v) = x /\ \A a \in 1 .. x : v[a] = w[a]
      OBVIOUS
<1>2. b \in Seq(SinkMessages) /\ Len(b) = Len(w) - x /\ \A a \in 1 .. Len(w) - x : b[a] = w[x + a]
      OBVIOUS
<1>3. \A k \in 1 .. Len(w) : k \in 1 .. x \/ (k - x \in 1 .. Len(w) - x /\ x + (k - x) = k)
      OBVIOUS
<1>4. \A a \in 1 .. x, c \in 1 .. Len(w) - x :
        a \in 1 .. Len(w) /\ x + c \in 1 .. Len(w) /\ a < x + c
      OBVIOUS
<1>5. Rotating!Ids(w) = {w[k].id : k \in 1 .. Len(w)} /\ \A k \in 1 .. Len(w) : w[k].id \in Nat
      BY IdsOf
<1> HIDE DEF v, b
<1>6. /\ Rotating!Ids(v) = {w[k].id : k \in 1 .. x}
      /\ Rotating!Ids(b) = {w[x + k].id : k \in 1 .. Len(w) - x}
  <2>1. /\ Rotating!Ids(v) = {v[k].id : k \in 1 .. x}
        /\ Rotating!Ids(b) = {b[k].id : k \in 1 .. Len(w) - x}
        BY <1>1, <1>2, IdsOf
  <2>2. \A k \in 1 .. x : v[k].id = w[k].id
        BY <1>1
  <2>3. \A k \in 1 .. Len(w) - x : b[k].id = w[x + k].id
        BY <1>2
  <2>4. {v[k].id : k \in 1 .. x} = {w[k].id : k \in 1 .. x}
        BY <2>2, Zenon
  <2>5. {b[k].id : k \in 1 .. Len(w) - x} = {w[x + k].id : k \in 1 .. Len(w) - x}
        BY <2>3, Zenon
  <2> QED
      BY <2>1, <2>4, <2>5, Zenon
<1>7. \A a \in 1 .. x, c \in 1 .. Len(w) - x : w[a].id # w[x + c].id
  <2>1. \A a, c \in 1 .. Len(w) : a < c => w[a].id < w[c].id
        BY DEF Survives
  <2>2. \A m, n \in Nat : m < n => m # n
        OBVIOUS
  <2> QED
      BY <1>4, <1>5, <2>1, <2>2
<1>8. Rotating!Ids(v) = W \ Rotating!Ids(b)
  <2>1. Rotating!Ids(v) \subseteq Rotating!Ids(w)
        BY <1>4, <1>5, <1>6
  <2>2. Rotating!Ids(w) \subseteq Rotating!Ids(v) \cup Rotating!Ids(b)
        BY <1>3, <1>5, <1>6
  <2>3. Rotating!Ids(v) \cap Rotating!Ids(b) = {}
        BY <1>6, <1>7
  <2> QED
      BY <2>1, <2>2, <2>3 DEF Survives
<1>9. \A a, c \in 1 .. Len(v) : a < c => v[a].id < v[c].id
  <2>1. 1 .. x \subseteq 1 .. Len(w)
        OBVIOUS
  <2> QED
      BY <1>1, <2>1 DEF Survives
<1> QED
    BY <1>8, <1>9 DEF Survives, v, b

(* An end of what survives has all the messages after its first.           *)
LEMMA EndHasAllLater ==
  ASSUME NEW w \in Seq(SinkMessages), NEW c \in 0 .. Len(w),
         Survives(w, written \ dropped), Rotating!Retained = SubSeq(w, c + 1, Len(w))
  PROVE  Rotating!RetainedIsSuffix
<1> DEFINE R == Rotating!Retained
<1>1. /\ R \in Seq(SinkMessages) /\ Len(R) = Len(w) - c
      /\ \A a \in 1 .. Len(w) - c : R[a] = w[c + a]
      OBVIOUS
<1>2. Rotating!Ids(w) = {w[k].id : k \in 1 .. Len(w)} /\ \A k \in 1 .. Len(w) : w[k].id \in Nat
      BY IdsOf
<1>3. \A a \in 1 .. Len(w) - c : c + a \in 1 .. Len(w)
      OBVIOUS
<1> HIDE DEF R
<1>4. DOMAIN R = 1 .. Len(w) - c /\ Rotating!Ids(R) = {w[c + a].id : a \in 1 .. Len(w) - c}
  <2>1. DOMAIN R = 1 .. Len(w) - c /\ Rotating!Ids(R) = {R[a].id : a \in 1 .. Len(w) - c}
    <3>1. Rotating!Ids(R) = {R[a].id : a \in 1 .. Len(R)}
          BY <1>1, IdsOf
    <3>2. DOMAIN R = 1 .. Len(R)
          BY <1>1
    <3> QED
        BY <1>1, <3>1, <3>2
  <2>2. \A a \in 1 .. Len(w) - c : R[a].id = w[c + a].id
        BY <1>1
  <2> QED
      BY <2>1, <2>2, Zenon
<1>5. \A a, b \in DOMAIN R : a < b => R[a].id < R[b].id
  <2>1. \A a, b \in 1 .. Len(w) - c : a < b => c + a < c + b
        OBVIOUS
  <2> QED
      BY <1>1, <1>3, <1>4, <2>1 DEF Survives
<1>6. Rotating!Ids(R) \subseteq written \ dropped
      BY <1>2, <1>3, <1>4 DEF Survives
<1>7. ASSUME NEW m \in written \ dropped, NEW k \in Rotating!Ids(R), k < m
      PROVE  m \in Rotating!Ids(R)
  <2>1. PICK y \in 1 .. Len(w) : m = w[y].id
        BY <1>2 DEF Survives
  <2>2. PICK a \in 1 .. Len(w) - c : k = w[c + a].id
        BY <1>4
  <2>3. CASE y <= c
    <3>1. y < c + a /\ c + a \in 1 .. Len(w)
          BY <2>3
    <3>2. m < k
          BY <2>1, <2>2, <3>1 DEF Survives
    <3>3. m \in Nat /\ k \in Nat
          BY <1>2, <2>1, <2>2, <3>1
    <3> QED
        BY <1>7, <3>2, <3>3
  <2>4. CASE ~ (y <= c)
    <3>1. y - c \in 1 .. Len(w) - c /\ c + (y - c) = y
          BY <2>4
    <3> QED
        BY <1>4, <2>1, <3>1
  <2> QED
      BY <2>3, <2>4
<1> QED
    BY <1>5, <1>6, <1>7 DEF Rotating!RetainedIsSuffix, R

-----------------------------------------------------------------------------
(* The files and the buffer make up an end of what survives.               *)
LEMMA CutsKeep ==
  ASSUME SinkSane, SinkTyped, NEW w \in Seq(SinkMessages), NEW cut, Cuts(file, buf, w, cut)
  PROVE  \E c \in 0 .. Len(w) : Rotating!Retained = SubSeq(w, c + 1, Len(w))
<1> USE DEF SinkSane, SinkTyped, Rotating!Names
<1> DEFINE F == max_files_ + 1
           ss == [k \in 1 .. F |-> OnDisk(file, F - k)]
           at == [k \in 0 .. F |-> cut[F - k]]
<1>1. \A n \in Rotating!Names : OnDisk(file, n) \in Seq(SinkMessages)
      BY DEF OnDisk
<1>2. ss \in Seq(Seq(SinkMessages)) /\ Len(ss) = F /\ F \in Nat \ {0}
      BY <1>1
<1>3. at \in [0 .. F -> 0 .. Len(w)] /\ at[0] = cut[F] /\ at[F] = cut[0]
      BY DEF Cuts
<1>4. Follow(ss, w, at, F)
  <2>1. ASSUME NEW k \in 1 .. F
        PROVE  at[k - 1] <= at[k] /\ ss[k] = SubSeq(w, at[k - 1] + 1, at[k])
    <3>1. F - k \in Rotating!Names /\ (F - k) + 1 = F - (k - 1)
          OBVIOUS
    <3>2. Piece(OnDisk(file, F - k), w, cut[(F - k) + 1], cut[F - k])
          BY <3>1 DEF Cuts
    <3>3. ss[k] = OnDisk(file, F - k) /\ at[k - 1] = cut[F - (k - 1)] /\ at[k] = cut[F - k]
          OBVIOUS
    <3> QED
        BY <3>1, <3>2, <3>3 DEF Piece
  <2> HIDE DEF ss, at, F
  <2> QED
      BY <2>1 DEF Follow
<1>5. Rotating!FlattenSeq(ss) = SubSeq(w, cut[F] + 1, cut[0]) /\ cut[F] <= cut[0]
  <2>1. w \in Seq(SinkMessages)
        OBVIOUS
  <2> HIDE DEF ss, at, F
  <2>2. Rotating!FlattenSeq(ss) = SubSeq(w, at[0] + 1, at[F]) /\ at[0] <= at[F]
    <3> HIDE DEF SinkTyped, SinkSane
    <3>1. ss \in Seq(Seq(SinkMessages)) /\ Len(ss) = F /\ F \in Nat \ {0}
          BY <1>2
    <3>2. at \in [0 .. F -> 0 .. Len(w)]
          BY <1>3
    <3> QED
        BY <1>4, <2>1, <3>1, <3>2, Flattened, ZenonT(30)
  <2> QED
      BY <1>3, <2>2
<1>6. cut[F] \in Nat /\ cut[0] \in Nat /\ Len(w) \in Nat /\ cut[0] <= Len(w)
      BY DEF Cuts
<1>7. Rotating!Retained = Rotating!FlattenSeq(ss) \o buf
  <2>1. ss = [k \in 1 .. max_files_ + 1 |->
               IF file[max_files_ + 1 - k] = Absent THEN <<>> ELSE file[max_files_ + 1 - k]]
        BY DEF OnDisk
  <2> HIDE DEF ss
  <2> QED
      BY <2>1 DEF Rotating!Retained
<1>8. Rotating!Retained = SubSeq(w, cut[F] + 1, Len(w))
  <2>1. buf = SubSeq(w, cut[0] + 1, Len(w))
        BY DEF Cuts, Piece
  <2>2. SubSeq(w, cut[F] + 1, cut[0]) \o SubSeq(w, cut[0] + 1, Len(w))
        = SubSeq(w, cut[F] + 1, Len(w))
    <3> DEFINE a == cut[F]
               b == cut[0]
    <3>1. w \in Seq(SinkMessages) /\ a \in Nat /\ b \in Nat /\ Len(w) \in Nat
          /\ a <= b /\ b <= Len(w) /\ Len(w) <= Len(w)
          BY <1>5, <1>6
    <3> HIDE DEF a, b, SinkTyped, SinkSane
    <3>2. SubSeq(w, a + 1, b) \o SubSeq(w, b + 1, Len(w))
          = SubSeq(w, a + 1, Len(w))
          BY <3>1, Joined, ZenonT(30)
    <3> QED
        BY <3>2 DEF a, b
  <2> QED
      BY <1>5, <1>7, <2>1, <2>2
<1> HIDE DEF F, ss, at
<1>9. cut[F] \in 0 .. Len(w)
      BY <1>5, <1>6
<1> QED
    BY <1>8, <1>9

(* Nothing has been written at first.                                      *)
LEMMA SinkInit == ASSUME SinkSane PROVE Rotating!Init => SinkIInv
<1> SUFFICES ASSUME Rotating!Init PROVE SinkIInv
    OBVIOUS
<1> USE DEF SinkSane, Rotating!Init, Rotating!Names
<1> DEFINE cut == [n \in 0 .. max_files_ + 1 |-> 0]
<1>1. SubSeq(<<>>, 0 + 1, 0) = <<>> /\ Len(<<>>) = 0
      OBVIOUS
<1>2. Cuts(file, buf, <<>>, cut)
      BY <1>1 DEF Cuts, Piece, OnDisk
<1> HIDE DEF cut
<1>3. Survives(<<>>, {}) /\ <<>> \in Seq(SinkMessages)
      BY NoIds DEF Survives
<1>4. Filed(file, buf, written \ dropped)
      BY <1>2, <1>3 DEF Filed
<1>5. SinkHistory
      BY NoIds DEF SinkHistory
<1> QED
    BY <1>4, <1>5, InitOpen DEF SinkIInv

(* An empty file and no file are the same.                                 *)
LEMMA SameCuts ==
  ASSUME NEW f, NEW g, NEW b, NEW w, NEW cut,
         Cuts(f, b, w, cut), \A n \in Rotating!Names : OnDisk(g, n) = OnDisk(f, n)
  PROVE  Cuts(g, b, w, cut)
BY DEF Cuts

(* The first part of the buffer goes into the first file.                  *)
LEMMA PartMoved ==
  ASSUME NEW f \in Disk, NEW w \in Seq(SinkMessages), NEW b, NEW cut, NEW k \in 0 .. Len(b),
         SinkSane, Cuts(f, b, w, cut), f[0] # Absent
  PROVE  \E c : Cuts([f EXCEPT ![0] = @ \o SubSeq(b, 1, k)], SubSeq(b, k + 1, Len(b)), w, c)
<1> USE DEF SinkSane, Rotating!Names, Disk
<1> DEFINE z == cut[0] + k
           c == [cut EXCEPT ![0] = z]
           g == [f EXCEPT ![0] = @ \o SubSeq(b, 1, k)]
           rest == SubSeq(b, k + 1, Len(b))
<1>1. f[0] \in Seq(SinkMessages) /\ Len(w) \in Nat
      OBVIOUS
<1>2. /\ cut \in [0 .. max_files_ + 1 -> 0 .. Len(w)]
      /\ cut[1] \in Nat /\ cut[0] \in Nat /\ cut[1] <= cut[0] /\ cut[0] <= Len(w)
      BY SMTT(30) DEF Cuts, Piece
<1>3. f[0] = SubSeq(w, cut[1] + 1, cut[0]) /\ b = SubSeq(w, cut[0] + 1, Len(w))
  <2>1. Piece(OnDisk(f, 0), w, cut[0 + 1], cut[0]) /\ Piece(b, w, cut[0], Len(w))
        BY DEF Cuts
  <2> QED
      BY <1>1, <2>1 DEF Piece, OnDisk
<1>4. /\ Len(b) = Len(w) - cut[0] /\ z \in Nat /\ cut[0] <= z /\ z <= Len(w)
      /\ SubSeq(b, 1, k) = SubSeq(w, cut[0] + 1, z) /\ rest = SubSeq(w, z + 1, Len(w))
  <2> DEFINE y == cut[0]
  <2>1. y \in Nat /\ y <= Len(w) /\ b = SubSeq(w, y + 1, Len(w)) /\ Len(w) \in Nat
        BY <1>1, <1>2, <1>3
  <2> HIDE DEF y
  <2>2. Len(b) = Len(w) - y
        BY <2>1
  <2>3. k \in Nat /\ y + k <= Len(w)
        BY <2>1, <2>2
  <2>4. SubSeq(b, 1, k) = SubSeq(w, y + 1, y + k) /\ SubSeq(b, k + 1, Len(b)) = SubSeq(w, (y + k) + 1, Len(w))
        BY <2>1, <2>3, PieceInTwo
  <2>5. y + k \in Nat /\ y <= y + k
        BY <2>1, <2>3
  <2> QED
      BY <2>2, <2>3, <2>4, <2>5 DEF y
<1> HIDE DEF z, rest
<1>5. c \in [0 .. max_files_ + 1 -> 0 .. Len(w)]
      BY <1>1, <1>2, <1>4
<1>6. f[0] \o SubSeq(b, 1, k) = SubSeq(w, cut[1] + 1, z)
  <2> DEFINE x == cut[1]
             y == cut[0]
  <2>1. x \in Nat /\ y \in Nat /\ x <= y /\ y <= z /\ z <= Len(w) /\ z \in Nat
        BY <1>1, <1>2, <1>4
  <2> HIDE DEF x, y
  <2>2. SubSeq(w, x + 1, y) \o SubSeq(w, y + 1, z) = SubSeq(w, x + 1, z)
        BY <2>1, Joined, ZenonT(30)
  <2> QED
      BY <1>3, <1>4, <2>2 DEF x, y
<1>7. ASSUME NEW n \in Rotating!Names PROVE Piece(OnDisk(g, n), w, c[n + 1], c[n])
  <2>1. CASE n = 0
    <3>1. g[0] = f[0] \o SubSeq(b, 1, k) /\ g[0] # Absent
      <4>1. SubSeq(w, cut[1] + 1, z) \in Seq(SinkMessages)
        <5>1. cut[1] \in Nat /\ z \in Nat /\ cut[1] <= z /\ z <= Len(w)
              BY <1>1, <1>2, <1>4
        <5> QED
            BY <5>1, PieceLength
      <4>2. f[0] \o SubSeq(b, 1, k) # Absent
            BY <1>6, <4>1
      <4> HIDE DEF SinkSane
      <4> QED
          BY <4>2 DEF SinkSane
    <3>2. c[n + 1] = cut[1] /\ c[n] = z
          BY <1>2, <2>1
    <3>3. OnDisk(g, n) = SubSeq(w, cut[1] + 1, z)
          BY <1>6, <2>1, <3>1 DEF OnDisk
    <3>4. cut[1] <= z
          BY <1>2, <1>4
    <3> QED
        BY <3>2, <3>3, <3>4 DEF Piece
  <2>2. CASE n # 0
    <3>1. g[n] = f[n] /\ c[n + 1] = cut[n + 1] /\ c[n] = cut[n]
          BY <1>2, <2>2
    <3>2. Piece(OnDisk(f, n), w, cut[n + 1], cut[n])
          BY DEF Cuts
    <3> QED
        BY <3>1, <3>2 DEF Piece, OnDisk
  <2> QED
      BY <2>1, <2>2
<1>8. Piece(rest, w, c[0], Len(w))
  <2>1. c[0] = z
        BY <1>2
  <2> QED
      BY <1>4, <2>1 DEF Piece
<1>9. Cuts(g, rest, w, c)
  <2> HIDE DEF c, g
  <2> QED
      BY <1>5, <1>7, <1>8 DEF Cuts
<1> QED
    BY <1>9 DEF rest

(* The last file is dropped: what follows it begins later.                 *)
LEMMA DropLast ==
  ASSUME NEW f \in Disk, NEW w \in Seq(SinkMessages), NEW b, NEW cut,
         SinkSane, Cuts(f, b, w, cut)
  PROVE  \E c : Cuts([f EXCEPT ![max_files_] = Absent], b, w, c)
<1> USE DEF SinkSane, Rotating!Names, Disk
<1> DEFINE F == max_files_
           c == [cut EXCEPT ![F + 1] = cut[F]]
           g == [f EXCEPT ![F] = Absent]
<1>1. cut \in [0 .. F + 1 -> 0 .. Len(w)] /\ cut[F] \in Nat
      BY DEF Cuts
<1>2. c \in [0 .. F + 1 -> 0 .. Len(w)] /\ c[0] = cut[0]
      BY <1>1
<1>3. ASSUME NEW n \in Rotating!Names PROVE Piece(OnDisk(g, n), w, c[n + 1], c[n])
  <2>1. CASE n = F
    <3>1. g[n] = Absent /\ c[n + 1] = cut[F] /\ c[n] = cut[F]
          BY <1>1, <2>1
    <3>2. SubSeq(w, cut[F] + 1, cut[F]) = <<>>
          BY <1>1
    <3> QED
        BY <1>1, <3>1, <3>2, SMTT(30) DEF Piece, OnDisk
  <2>2. CASE n # F
    <3>1. g[n] = f[n] /\ c[n + 1] = cut[n + 1] /\ c[n] = cut[n]
          BY <1>1, <2>2
    <3>2. Piece(OnDisk(f, n), w, cut[n + 1], cut[n])
          BY DEF Cuts
    <3> QED
        BY <3>1, <3>2 DEF Piece, OnDisk
  <2> QED
      BY <2>1, <2>2
<1>4. Cuts(g, b, w, c)
  <2>1. Piece(b, w, c[0], Len(w))
        BY <1>2 DEF Cuts
  <2> HIDE DEF c, g
  <2> QED
      BY <1>2, <1>3, <2>1 DEF Cuts
<1> QED
    BY <1>4

(* A file takes the next name, which was free: the two change places, and  *)
(* the free one holds nothing.                                             *)
LEMMA MoveOn ==
  ASSUME NEW f \in Disk, NEW w \in Seq(SinkMessages), NEW b, NEW cut, NEW k \in 1 .. max_files_,
         SinkSane, Cuts(f, b, w, cut), f[k] = Absent
  PROVE  \E c : Cuts([f EXCEPT ![k] = f[k - 1], ![k - 1] = Absent], b, w, c)
<1> USE DEF SinkSane, Rotating!Names, Disk
<1> DEFINE c == [cut EXCEPT ![k] = cut[k - 1]]
           g == [f EXCEPT ![k] = f[k - 1], ![k - 1] = Absent]
<1>1. /\ cut \in [0 .. max_files_ + 1 -> 0 .. Len(w)]
      /\ cut[k + 1] \in Nat /\ cut[k] \in Nat /\ cut[k - 1] \in Nat
      BY SMTT(30) DEF Cuts
<1>2. c \in [0 .. max_files_ + 1 -> 0 .. Len(w)] /\ c[0] = cut[0]
      BY <1>1, SMTT(30)
<1>3. cut[k + 1] = cut[k]
  <2>1. Piece(<<>>, w, cut[k + 1], cut[k])
    <3>1. Piece(OnDisk(f, k), w, cut[k + 1], cut[k])
          BY DEF Cuts
    <3> QED
        BY <3>1 DEF OnDisk
  <2>2. cut[k + 1] <= cut[k] /\ cut[k] <= Len(w) /\ <<>> = SubSeq(w, cut[k + 1] + 1, cut[k])
    <3>1. cut[k] <= Len(w)
          BY <1>1
    <3> QED
        BY <2>1, <3>1 DEF Piece
  <2>3. Len(SubSeq(w, cut[k + 1] + 1, cut[k])) = cut[k] - cut[k + 1]
    <3> DEFINE x == cut[k + 1]
               y == cut[k]
    <3>1. x \in Nat /\ y \in Nat /\ x <= y /\ y <= Len(w)
          BY <1>1, <2>2
    <3> HIDE DEF x, y
    <3>2. Len(SubSeq(w, x + 1, y)) = y - x
          BY <3>1, PieceLength
    <3> QED
        BY <3>2 DEF x, y
  <2>4. Len(SubSeq(w, cut[k + 1] + 1, cut[k])) = 0
    <3>1. Len(<<>>) = 0
          OBVIOUS
    <3> QED
        BY <2>2, <3>1
  <2> QED
      BY <1>1, <2>3, <2>4, SMTT(30)
<1>4. ASSUME NEW n \in Rotating!Names PROVE Piece(OnDisk(g, n), w, c[n + 1], c[n])
  <2>1. CASE n = k
    <3>1. g[n] = f[k - 1] /\ c[n + 1] = cut[k] /\ c[n] = cut[k - 1]
          BY <1>1, <1>3, <2>1
    <3>2. Piece(OnDisk(f, k - 1), w, cut[(k - 1) + 1], cut[k - 1]) /\ (k - 1) + 1 = k
          BY DEF Cuts
    <3> QED
        BY <3>1, <3>2 DEF Piece, OnDisk
  <2>2. CASE n = k - 1
    <3>1. g[n] = Absent /\ c[n + 1] = cut[k - 1] /\ c[n] = cut[k - 1]
          BY <1>1, <2>2
    <3>2. SubSeq(w, cut[k - 1] + 1, cut[k - 1]) = <<>> /\ cut[k - 1] <= cut[k - 1]
          BY <1>1, SMTT(30)
    <3>3. OnDisk(g, n) = <<>>
          BY <3>1 DEF OnDisk
    <3> HIDE DEF c, g
    <3> QED
        BY <3>1, <3>2, <3>3 DEF Piece
  <2>3. CASE n # k /\ n # k - 1
    <3>1. g[n] = f[n] /\ c[n + 1] = cut[n + 1] /\ c[n] = cut[n]
          BY <1>1, <2>3
    <3>2. Piece(OnDisk(f, n), w, cut[n + 1], cut[n])
          BY DEF Cuts
    <3> QED
        BY <3>1, <3>2 DEF Piece, OnDisk
  <2> QED
      BY <2>1, <2>2, <2>3
<1>5. Cuts(g, b, w, c)
  <2>1. Piece(b, w, c[0], Len(w))
    <3>1. k # 0
          OBVIOUS
    <3> QED
        BY <1>2 DEF Cuts
  <2> HIDE DEF c, g
  <2> QED
      BY <1>2, <1>4, <2>1 DEF Cuts
<1> QED
    BY <1>5

(* A message is written to the buffer.                                     *)
LEMMA OneMore ==
  ASSUME NEW f \in Disk, NEW w \in Seq(SinkMessages), NEW b \in Seq(SinkMessages),
         NEW m \in SinkMessages,
         NEW cut, SinkSane, Cuts(f, b, w, cut)
  PROVE  Cuts(f, Append(b, m), Append(w, m), cut)
<1> USE DEF SinkSane, Rotating!Names
<1>1. cut \in [0 .. max_files_ + 1 -> 0 .. Len(w)] /\ Len(w) \in Nat /\ cut[0] \in 0 .. Len(w)
      BY DEF Cuts
<1>2. Len(Append(w, m)) = Len(w) + 1
      OBVIOUS
<1>3. cut \in [0 .. max_files_ + 1 -> 0 .. Len(Append(w, m))]
  <2>1. 0 .. Len(w) \subseteq 0 .. Len(w) + 1
        BY <1>1
  <2> QED
      BY <1>1, <1>2, <2>1
<1>4. ASSUME NEW n \in Rotating!Names PROVE Piece(OnDisk(f, n), Append(w, m), cut[n + 1], cut[n])
  <2> DEFINE x == cut[n + 1]
             y == cut[n]
  <2>1. Piece(OnDisk(f, n), w, x, y) /\ x \in Nat /\ y \in Nat /\ y <= Len(w) /\ Len(w) <= Len(w)
        BY <1>1 DEF Cuts
  <2>2. x <= y
        BY <2>1 DEF Piece
  <2> HIDE DEF x, y
  <2>3. SubSeq(Append(w, m), x + 1, y) = SubSeq(w, x + 1, y)
        BY <1>1, <2>1, <2>2, PieceStays
  <2>4. Piece(OnDisk(f, n), Append(w, m), x, y)
        BY <2>1, <2>3 DEF Piece
  <2> QED
      BY <2>4 DEF x, y
<1>5. Piece(Append(b, m), Append(w, m), cut[0], Len(Append(w, m)))
  <2> DEFINE x == cut[0]
  <2>1. b = SubSeq(w, x + 1, Len(w)) /\ x \in Nat /\ x <= Len(w)
        BY <1>1 DEF Cuts, Piece
  <2> HIDE DEF x
  <2>2. Append(SubSeq(w, x + 1, Len(w)), m) = SubSeq(Append(w, m), x + 1, Len(w) + 1)
    <3> DEFINE v == Append(w, m)
               L == Len(w)
    <3>1. v \in Seq(SinkMessages) /\ L \in Nat /\ L + 1 \in Nat /\ L <= L + 1 /\ L + 1 <= Len(v)
          /\ x <= L
          BY <2>1
    <3>2. SubSeq(v, L + 1, L + 1) = <<m>>
      <4>1. v[L + 1] = m
            BY <1>1
      <4> DEFINE one == SubSeq(v, L + 1, L + 1)
      <4>2. one \in Seq(SinkMessages) /\ Len(one) = 1 /\ one[1] = v[L + 1]
        <5> HIDE DEF v, L
        <5> QED
            BY <3>1
      <4> HIDE DEF one
      <4>3. one = <<m>>
            BY <4>1, <4>2
      <4> QED
          BY <4>3 DEF one
    <3>3. SubSeq(v, x + 1, L) = SubSeq(w, x + 1, L) /\ SubSeq(w, x + 1, L) \in Seq(SinkMessages)
      <4>1. L <= Len(w)
            BY <3>1
      <4> HIDE DEF L
      <4> QED
          BY <2>1, <3>1, <4>1, PieceStays, PieceLength
    <3> HIDE DEF v, L
    <3>4. SubSeq(v, x + 1, L) \o SubSeq(v, L + 1, L + 1) = SubSeq(v, x + 1, L + 1)
          BY <2>1, <3>1, Joined
    <3>5. SubSeq(w, x + 1, L) \o <<m>> = Append(SubSeq(w, x + 1, L), m)
      <4> DEFINE u == SubSeq(w, x + 1, L)
      <4>1. u \in Seq(SinkMessages) /\ m \in SinkMessages
            BY <3>3
      <4> HIDE DEF u
      <4>2. u \o <<m>> = Append(u, m)
            BY <4>1, AppendIsConcat
      <4> QED
          BY <4>2 DEF u
    <3> QED
        BY <3>2, <3>3, <3>4, <3>5 DEF v, L
  <2>3. x <= Len(w) + 1
        BY <1>1, <2>1
  <2>4. Piece(Append(b, m), Append(w, m), x, Len(Append(w, m)))
        BY <1>2, <2>1, <2>2, <2>3 DEF Piece
  <2> QED
      BY <2>4 DEF x
<1> QED
    BY <1>3, <1>4, <1>5 DEF Cuts

(* What is lost in the buffer is the end of what survived until then.      *)
LEMMA BufferLost ==
  ASSUME NEW f \in Disk, NEW w \in Seq(SinkMessages), NEW b, NEW cut,
         SinkSane, Cuts(f, b, w, cut)
  PROVE  /\ cut[0] \in 0 .. Len(w) /\ b = SubSeq(w, cut[0] + 1, Len(w))
         /\ Cuts(f, <<>>, SubSeq(w, 1, cut[0]), cut)
<1> USE DEF SinkSane, Rotating!Names
<1> DEFINE x == cut[0]
           v == SubSeq(w, 1, x)
<1>1. cut \in [0 .. max_files_ + 1 -> 0 .. Len(w)] /\ x \in Nat /\ x <= Len(w) /\ Len(w) \in Nat
      BY DEF Cuts
<1>2. b = SubSeq(w, x + 1, Len(w))
      BY DEF Cuts, Piece
<1>3. Len(v) = x /\ v \in Seq(SinkMessages)
  <2> HIDE DEF x
  <2> QED
      BY <1>1
<1>4. \A n \in 0 .. max_files_ + 1 : cut[n] <= x
  <2> DEFINE Below == {n \in 0 .. max_files_ + 1 : cut[n] <= x}
  <2>1. 0 \in Below
        BY <1>1
  <2>2. ASSUME NEW n \in 1 .. max_files_ + 1, n - 1 \in Below PROVE n \in Below
    <3>1. n - 1 \in Rotating!Names /\ (n - 1) + 1 = n /\ n \in 0 .. max_files_ + 1
          OBVIOUS
    <3>2. Piece(OnDisk(f, n - 1), w, cut[(n - 1) + 1], cut[n - 1])
          BY <3>1 DEF Cuts
    <3>3. cut[n] <= cut[n - 1] /\ cut[n - 1] <= x
          BY <2>2, <3>1, <3>2 DEF Piece
    <3>4. cut[n] \in Nat /\ cut[n - 1] \in Nat
          BY <1>1, <3>1
    <3> HIDE DEF x
    <3> QED
        BY <1>1, <3>1, <3>3, <3>4
  <2>3. max_files_ + 1 \in Nat
        OBVIOUS
  <2>4. \A n \in 0 .. max_files_ + 1 : n \in Below
    <3> HIDE DEF Below
    <3> QED
        BY <2>1, <2>2, <2>3, Induction
  <2> QED
      BY <2>4
<1>5. cut \in [0 .. max_files_ + 1 -> 0 .. Len(v)]
  <2>1. \A n \in 0 .. max_files_ + 1 : cut[n] \in 0 .. x
    <3> HIDE DEF x
    <3> QED
        BY <1>1, <1>4
  <2> QED
      BY <1>1, <1>3, <2>1
<1>6. ASSUME NEW n \in Rotating!Names PROVE Piece(OnDisk(f, n), v, cut[n + 1], cut[n])
  <2> DEFINE y == cut[n + 1]
             z == cut[n]
  <2>1. Piece(OnDisk(f, n), w, y, z) /\ y \in Nat /\ z \in Nat /\ z <= x
        BY <1>1, <1>4 DEF Cuts
  <2>2. y <= z
        BY <2>1 DEF Piece
  <2> HIDE DEF x, y, z
  <2>3. SubSeq(v, y + 1, z) = SubSeq(w, y + 1, z)
        BY <1>1, <2>1, <2>2, PieceStays
  <2>4. Piece(OnDisk(f, n), v, y, z)
        BY <2>1, <2>3 DEF Piece
  <2> QED
      BY <2>4 DEF y, z
<1>7. Piece(<<>>, v, x, Len(v))
  <2> HIDE DEF x, v
  <2>1. SubSeq(v, x + 1, x) = <<>>
        BY <1>1, <1>3
  <2> QED
      BY <1>1, <1>3, <2>1 DEF Piece
<1>8. Cuts(f, <<>>, v, cut)
  <2> HIDE DEF v
  <2> QED
      BY <1>5, <1>6, <1>7 DEF Cuts
<1> QED
    BY <1>1, <1>2, <1>8

(* The same of what is on disk and survives.                               *)
LEMMA FiledSame ==
  ASSUME NEW f, NEW g, NEW b, NEW W, Filed(f, b, W),
         \A n \in Rotating!Names : OnDisk(g, n) = OnDisk(f, n)
  PROVE  Filed(g, b, W)
BY SameCuts DEF Filed

LEMMA FiledMoved ==
  ASSUME NEW f \in Disk, NEW b, NEW k \in 0 .. Len(b), NEW W, SinkSane, Filed(f, b, W),
         f[0] # Absent
  PROVE  Filed([f EXCEPT ![0] = @ \o SubSeq(b, 1, k)], SubSeq(b, k + 1, Len(b)), W)
BY PartMoved DEF Filed

LEMMA FiledLost ==
  ASSUME NEW f \in Disk, NEW b, NEW W, SinkSane, Filed(f, b, W)
  PROVE  Filed(f, <<>>, W \ Rotating!Ids(b))
<1>1. PICK w \in Seq(SinkMessages) : Survives(w, W) /\ \E cut : Cuts(f, b, w, cut)
      BY DEF Filed
<1>0. PICK cut : Cuts(f, b, w, cut)
      BY <1>1
<1> DEFINE x == cut[0]
<1>2. x \in 0 .. Len(w) /\ b = SubSeq(w, x + 1, Len(w)) /\ Cuts(f, <<>>, SubSeq(w, 1, x), cut)
      BY <1>0, BufferLost
<1> HIDE DEF x
<1>3. Survives(SubSeq(w, 1, x), W \ Rotating!Ids(b)) /\ SubSeq(w, 1, x) \in Seq(SinkMessages)
  <2>1. SubSeq(w, 1, x) \in Seq(SinkMessages)
        BY <1>2
  <2> QED
      BY <1>1, <1>2, <2>1, OthersSurvive
<1> QED
    BY <1>2, <1>3 DEF Filed

LEMMA FiledDropped ==
  ASSUME NEW f \in Disk, NEW b, NEW W, SinkSane, Filed(f, b, W)
  PROVE  Filed([f EXCEPT ![max_files_] = Absent], b, W)
BY DropLast DEF Filed

LEMMA FiledOn ==
  ASSUME NEW f \in Disk, NEW b, NEW W, NEW k \in 1 .. max_files_, SinkSane, Filed(f, b, W),
         f[k] = Absent
  PROVE  Filed([f EXCEPT ![k] = f[k - 1], ![k - 1] = Absent], b, W)
BY MoveOn DEF Filed

LEMMA FiledMore ==
  ASSUME NEW f \in Disk, NEW b \in Seq(SinkMessages), NEW W, NEW m \in SinkMessages,
         SinkSane, Filed(f, b, W), \A n \in W : n < m.id
  PROVE  Filed(f, Append(b, m), W \cup {m.id})
<1>1. PICK w \in Seq(SinkMessages) : Survives(w, W) /\ \E cut : Cuts(f, b, w, cut)
      BY DEF Filed
<1>0. PICK cut : Cuts(f, b, w, cut)
      BY <1>1
<1>2. Cuts(f, Append(b, m), Append(w, m), cut)
      BY <1>0, OneMore
<1>3. Survives(Append(w, m), W \cup {m.id}) /\ Append(w, m) \in Seq(SinkMessages)
      BY <1>1, OneMoreSurvives
<1> QED
    BY <1>2, <1>3 DEF Filed

-----------------------------------------------------------------------------
(* What an emptied buffer leaves: the remainder is in the file or dropped. *)
LEMMA EmptyKeeps ==
  ASSUME SinkSane, SinkIInv, fd_, NEW k \in 0 .. Len(buf), Rotating!Empty(k)
  PROVE  Filed(file', buf', written \ dropped') /\ dropped' \subseteq written
<1> DEFINE g == [file EXCEPT ![0] = @ \o SubSeq(buf, 1, k)]
           rest == SubSeq(buf, k + 1, Len(buf))
           D == Rotating!Ids(rest)
<1>1. file \in Disk /\ buf \in Seq(SinkMessages) /\ file[0] # Absent
      BY DEF SinkIInv, OpenIInv, SinkTyped, SinkClosed, Disk
<1>2. file' = g /\ buf' = <<>> /\ dropped' = dropped \cup D
      BY DEF Rotating!Empty, Rotating!Transfer, Rotating!Remainder
<1>3. Filed(g, rest, written \ dropped)
      BY <1>1, FiledMoved DEF SinkIInv
<1>4. g \in Disk
      BY <1>2, TransferTyped DEF SinkIInv, Rotating!Empty
<1>5. D \subseteq written
      BY <1>1, IdsOfRest DEF SinkIInv, SinkHistory
<1> HIDE DEF g, rest, D
<1>6. Filed(g, <<>>, (written \ dropped) \ D)
      BY <1>3, <1>4, FiledLost DEF D
<1>7. (written \ dropped) \ D = written \ (dropped \cup D)
      OBVIOUS
<1> QED
    BY <1>2, <1>5, <1>6, <1>7 DEF SinkIInv, SinkHistory

LEMMA CloseKeeps ==
  ASSUME SinkSane, SinkIInv, Rotating!close
  PROVE  Filed(file', buf', written \ dropped') /\ dropped' \subseteq written
<1>1. CASE fd_
  <2>1. PICK k \in 0 .. Len(buf) : Rotating!Empty(k)
        BY <1>1 DEF Rotating!close
  <2> QED
      BY <1>1, <2>1, EmptyKeeps
<1>2. CASE ~fd_
      BY <1>2 DEF Rotating!close, SinkIInv, SinkHistory
<1> QED
    BY <1>1, <1>2

(* Every step keeps the files in order.                                    *)
LEMMA NextFiled ==
  ASSUME SinkSane, SinkIInv, Rotating!Next
  PROVE  Filed(file, buf, written \ dropped)'
<1> USE DEF SinkSane, Rotating!Names, Disk, Rotating!Throw, Rotating!Fault
<1>1. Filed(file, buf, written \ dropped)
      BY DEF SinkIInv
<1>2. /\ file \in Disk /\ buf \in Seq(SinkMessages) /\ msg \in SinkMessages
      /\ (fd_ => file[0] # Absent) /\ fd_ \in BOOLEAN
      BY DEF SinkIInv, OpenIInv, SinkTyped, SinkClosed
<1>3. CASE UNCHANGED <<file, buf, written, dropped>>
      BY <1>1, <1>3
<1>4. ASSUME NEW len \in Sizes, Rotating!sink_it_(len) PROVE Filed(file, buf, written \ dropped)'
  <2>1. CASE Rotating!close /\ UNCHANGED written
        BY <2>1, CloseKeeps
  <2> QED
      BY <1>3, <1>4, <2>1 DEF Rotating!sink_it_
<1>5. CASE Rotating!RemoveTarget
  <2>1. CASE file' = [file EXCEPT ![i] = Absent]
    <3>1. i = max_files_
          BY <1>5 DEF Rotating!RemoveTarget, SinkIInv, OpenIInv, SinkTyped, SinkClosed
    <3>2. Filed([file EXCEPT ![max_files_] = Absent], buf, written \ dropped)
          BY <1>1, <1>2, FiledDropped
    <3> QED
        BY <1>5, <2>1, <3>1, <3>2 DEF Rotating!RemoveTarget
  <2> QED
      BY <1>3, <1>5, <2>1 DEF Rotating!RemoveTarget
<1>6. CASE Rotating!RenameSource
  <2>1. CASE file' = [file EXCEPT ![i] = file[i - 1], ![i - 1] = Absent]
    <3>1. i \in 1 .. max_files_ /\ file[i] = Absent
          BY <1>6 DEF Rotating!RenameSource, SinkIInv, OpenIInv, SinkTyped
    <3>2. Filed([file EXCEPT ![i] = file[i - 1], ![i - 1] = Absent], buf, written \ dropped)
          BY <1>1, <1>2, <3>1, FiledOn
    <3> QED
        BY <1>6, <2>1, <3>2 DEF Rotating!RenameSource
  <2> QED
      BY <1>3, <1>6, <2>1 DEF Rotating!RenameSource
<1>7. CASE Rotating!Reopen
  <2>1. CASE file' = [file EXCEPT ![0] = <<>>] /\ max_files_ # 0
    <3>1. file[0] = Absent
          BY <1>7, <2>1 DEF Rotating!Reopen, SinkIInv, OpenIInv, SinkTyped, SinkClosed
    <3>2. \A n \in Rotating!Names : OnDisk(file', n) = OnDisk(file, n)
          BY <1>2, <2>1, <3>1 DEF OnDisk
    <3>3. Filed(file', buf, written \ dropped)
          BY <1>1, <3>2, FiledSame
    <3> QED
        BY <1>7, <3>3 DEF Rotating!Reopen
  <2>2. CASE file' = [file EXCEPT ![0] = <<>>] /\ max_files_ = 0
    <3> DEFINE g == [file EXCEPT ![0] = Absent]
    <3>1. Filed(g, buf, written \ dropped)
      <4>1. Filed([file EXCEPT ![max_files_] = Absent], buf, written \ dropped)
            BY <1>1, <1>2, FiledDropped
      <4> QED
          BY <2>2, <4>1
    <3>2. \A n \in Rotating!Names : OnDisk(file', n) = OnDisk(g, n)
          BY <1>2, <2>2 DEF OnDisk
    <3> HIDE DEF g
    <3>3. Filed(file', buf, written \ dropped)
          BY <3>1, <3>2, FiledSame
    <3> QED
        BY <1>7, <3>3 DEF Rotating!Reopen
  <2> QED
      BY <1>3, <1>7, <2>1, <2>2 DEF Rotating!Reopen
<1>8. CASE Rotating!Write
  <2>1. CASE buf' = Append(buf, msg) /\ written' = written \cup {msg.id}
    <3>1. \A n \in written : n < msg.id
      <4>1. written \subseteq Nat /\ msg.id \in Nat /\ \A n \in written : n <= msg.id /\ n # msg.id
            BY <1>2, <1>8 DEF Rotating!Write, SinkIInv, SinkHistory, SinkMessages
      <4>2. \A n \in Nat : n <= msg.id /\ n # msg.id => n < msg.id
            BY <4>1
      <4> QED
          BY <4>1, <4>2
    <3>2. Filed(file, Append(buf, msg), (written \ dropped) \cup {msg.id})
          BY <1>1, <1>2, <3>1, FiledMore
    <3>3. (written \ dropped) \cup {msg.id} = (written \cup {msg.id}) \ dropped
          BY <1>8 DEF Rotating!Write, SinkIInv, SinkHistory
    <3> QED
        BY <1>8, <2>1, <3>2, <3>3 DEF Rotating!Write
  <2> QED
      BY <1>3, <1>8, <2>1 DEF Rotating!Write
<1>9. CASE Rotating!flush_
  <2>1. CASE \E k \in 0 .. Len(buf) : Rotating!Empty(k)
        BY <1>9, <2>1, EmptyKeeps DEF Rotating!flush_
  <2>2. CASE UNCHANGED dropped /\ \E k \in 1 .. Len(buf) - 1 : Rotating!Transfer(k) /\ buf' = Rotating!Remainder(k)
    <3>1. PICK k \in 1 .. Len(buf) - 1 : Rotating!Transfer(k) /\ buf' = Rotating!Remainder(k)
          BY <2>2
    <3>2. k \in 0 .. Len(buf) /\ file[0] # Absent
          BY <1>2, <1>9 DEF Rotating!flush_
    <3>3. Filed([file EXCEPT ![0] = @ \o SubSeq(buf, 1, k)], SubSeq(buf, k + 1, Len(buf)), written \ dropped)
          BY <1>1, <1>2, <3>2, FiledMoved
    <3> QED
        BY <1>9, <2>2, <3>1, <3>3 DEF Rotating!flush_, Rotating!Transfer, Rotating!Remainder
  <2> QED
      BY <1>9, <2>1, <2>2 DEF Rotating!flush_
<1>10. CASE Rotating!Crash
  <2>1. Filed(file, <<>>, (written \ dropped) \ Rotating!Ids(buf))
        BY <1>1, <1>2, FiledLost
  <2>2. (written \ dropped) \ Rotating!Ids(buf) = written \ (dropped \cup Rotating!Ids(buf))
        OBVIOUS
  <2> QED
      BY <1>10, <2>1, <2>2 DEF Rotating!Crash
<1>11. CASE Rotating!Construct
  <2>1. \A n \in Rotating!Names : OnDisk(file', n) = OnDisk(file, n)
        BY <1>2, <1>11 DEF Rotating!Construct, OnDisk
  <2>2. Filed(file', buf, written \ dropped)
        BY <1>1, <2>1, FiledSame
  <2> QED
      BY <1>11, <2>2 DEF Rotating!Construct
<1>12. CASE Rotating!Done
       BY <1>3, <1>12 DEF Rotating!Done, Rotating!vars
<1> QED
    BY <1>4, <1>5, <1>6, <1>7, <1>8, <1>9, <1>10, <1>11, <1>12 DEF Rotating!Next

(* Messages are numbered as they come.                                     *)
LEMMA NextHistory ==
  ASSUME SinkSane, SinkIInv, Rotating!Next
  PROVE  SinkHistory'
<1> USE DEF SinkHistory, Rotating!Throw, Rotating!Fault
<1>1. /\ SinkHistory /\ msg.id \in Nat /\ msg.len \in Nat
      /\ buf \in Seq(SinkMessages) /\ msg \in SinkMessages
      BY DEF SinkIInv, OpenIInv, SinkTyped, SinkMessages
<1>2. CASE UNCHANGED <<buf, msg, pc, written, dropped>>
      BY <1>1, <1>2
<1>3. ASSUME NEW len \in Sizes, Rotating!sink_it_(len) PROVE SinkHistory'
  <2>1. /\ msg'.id = msg.id + 1 /\ UNCHANGED written
        /\ (Rotating!close \/ UNCHANGED <<buf, dropped>>)
        BY <1>3 DEF Rotating!sink_it_
  <2>2. dropped' \cup Rotating!Ids(buf') \subseteq written
    <3>1. CASE Rotating!close
          BY <3>1, CloseKeeps, CloseTyped, NoIds DEF SinkIInv
    <3>2. CASE UNCHANGED <<buf, dropped>>
          BY <1>1, <3>2
    <3> QED
        BY <2>1, <3>1, <3>2
  <2>3. \A m \in written : m <= msg.id + 1 /\ m # msg.id + 1
    <3>1. \A m \in Nat : m <= msg.id => m <= msg.id + 1 /\ m # msg.id + 1
          BY <1>1
    <3> QED
        BY <1>1, <3>1
  <2> QED
      BY <1>1, <2>1, <2>2, <2>3
<1>4. CASE Rotating!RemoveTarget
      BY <1>1, <1>4 DEF Rotating!RemoveTarget
<1>5. CASE Rotating!RenameSource
      BY <1>1, <1>5 DEF Rotating!RenameSource
<1>6. CASE Rotating!Reopen
      BY <1>1, <1>6 DEF Rotating!Reopen
<1>7. CASE Rotating!Write
  <2>1. Rotating!Ids(Append(buf, msg)) = Rotating!Ids(buf) \cup {msg.id}
        BY <1>1, IdsOfMore
  <2>2. CASE buf' = Append(buf, msg) /\ written' = written \cup {msg.id} /\ pc' = "idle"
    <3>1. UNCHANGED <<msg, dropped>>
          BY <1>7 DEF Rotating!Write
    <3>2. written' \subseteq Nat /\ dropped' \cup Rotating!Ids(buf') \subseteq written'
          BY <1>1, <2>1, <2>2, <3>1
    <3>3. \A m \in written' : m <= msg'.id
          BY <1>1, <2>2, <3>1
    <3> QED
        BY <2>2, <3>2, <3>3
  <2>3. CASE UNCHANGED <<buf, written>> /\ pc' = "idle"
        BY <1>1, <1>7, <2>3 DEF Rotating!Write
  <2> QED
      BY <1>7, <2>2, <2>3 DEF Rotating!Write
<1>8. CASE Rotating!flush_
  <2>1. dropped' \cup Rotating!Ids(buf') \subseteq written
    <3>1. CASE \E k \in 0 .. Len(buf) : Rotating!Empty(k)
      <4>1. buf' = <<>> /\ dropped' \subseteq written
            BY <1>8, <3>1, EmptyKeeps DEF Rotating!flush_, Rotating!Empty
      <4> QED
          BY <4>1, NoIds
    <3>2. CASE UNCHANGED dropped /\ \E k \in 1 .. Len(buf) - 1 : buf' = Rotating!Remainder(k)
      <4>1. PICK k \in 1 .. Len(buf) - 1 : buf' = Rotating!Remainder(k)
            BY <3>2
      <4>2. k \in 0 .. Len(buf)
            BY <1>1
      <4>3. Rotating!Ids(buf') \subseteq Rotating!Ids(buf)
            BY <1>1, <4>1, <4>2, IdsOfRest DEF Rotating!Remainder
      <4> QED
          BY <1>1, <3>2, <4>3
    <3> QED
        BY <1>8, <3>1, <3>2 DEF Rotating!flush_
  <2> QED
      BY <1>1, <1>8, <2>1 DEF Rotating!flush_
<1>9. CASE Rotating!Crash
  <2>1. buf' = <<>> /\ pc' = "down" /\ dropped' = dropped \cup Rotating!Ids(buf) /\ UNCHANGED <<msg, written>>
        BY <1>9 DEF Rotating!Crash
  <2> QED
      BY <1>1, <2>1, NoIds
<1>10. CASE Rotating!Construct
       BY <1>1, <1>10 DEF Rotating!Construct
<1>11. CASE Rotating!Done
       BY <1>2, <1>11 DEF Rotating!Done, Rotating!vars
<1> QED
    BY <1>3, <1>4, <1>5, <1>6, <1>7, <1>8, <1>9, <1>10, <1>11 DEF Rotating!Next

(* The invariant is inductive.                                             *)
LEMMA SinkStep == ASSUME SinkSane PROVE SinkIInv /\ [Rotating!Next]_(Rotating!vars) => SinkIInv'
<1> SUFFICES ASSUME SinkIInv, [Rotating!Next]_(Rotating!vars) PROVE SinkIInv'
    OBVIOUS
<1>1. OpenIInv'
      BY NextOpen DEF SinkIInv
<1>2. Filed(file, buf, written \ dropped)' /\ SinkHistory'
  <2>1. CASE Rotating!Next
        BY <2>1, NextFiled, NextHistory
  <2>2. CASE UNCHANGED Rotating!vars
        BY <2>2 DEF SinkIInv, SinkHistory, Rotating!vars
  <2> QED
      BY <2>1, <2>2
<1> QED
    BY <1>1, <1>2 DEF SinkIInv

(* What it says of the files a user finds, and of those a call writes to.  *)
LEMMA SinkKeeps ==
  ASSUME SinkSane
  PROVE  SinkIInv => Rotating!WriteFindsOpenFile /\ Rotating!RetainedIsSuffix
<1> SUFFICES ASSUME SinkIInv PROVE Rotating!WriteFindsOpenFile /\ Rotating!RetainedIsSuffix
    OBVIOUS
<1>1. Rotating!WriteFindsOpenFile
      BY DEF SinkIInv, OpenIInv, SinkClosed, Rotating!WriteFindsOpenFile
<1>2. PICK w \in Seq(SinkMessages) :
        Survives(w, written \ dropped) /\ \E cut : Cuts(file, buf, w, cut)
      BY DEF SinkIInv, Filed
<1>3. \E c \in 0 .. Len(w) : Rotating!Retained = SubSeq(w, c + 1, Len(w))
      BY <1>2, CutsKeep DEF SinkIInv, OpenIInv
<1> QED
    BY <1>1, <1>2, <1>3, EndHasAllLater

-----------------------------------------------------------------------------
(* While the rotating sink runs its invariant holds.                       *)
LEMMA SinkIsSound == Spec => [](which = "rotating" => SinkIInv)
<1> DEFINE Inv == which = "rotating" => SinkIInv
<1>1. SinkSane
      BY ComponentsAssumption DEF SinkSane, SinkMessages
<1>2. Init => Inv
      BY <1>1, SinkInit DEF Init
<1>3. Inv /\ [Next]_vars => Inv'
  <2> SUFFICES ASSUME which = "rotating", SinkIInv, [Next]_vars PROVE SinkIInv'
      BY DEF Next, vars
  <2>1. [Rotating!Next]_(Rotating!vars)
        BY DEF Next, vars, sink, rotating, Rotating!vars
  <2> QED
      BY <1>1, <2>1, SinkStep
<1> QED
    BY <1>2, <1>3, PTL DEF Spec

(* A call of log writes into an open file only, whatever has failed in the *)
(* rotations before it.                                                    *)
THEOREM NoWriteIntoClosedFile == Spec => []WriteFindsOpenFile
<1>1. (which = "rotating" => SinkIInv) => WriteFindsOpenFile
  <2>1. SinkSane
        BY ComponentsAssumption DEF SinkSane, SinkMessages
  <2> QED
      BY <2>1, SinkKeeps DEF WriteFindsOpenFile
<1> QED
    BY <1>1, SinkIsSound, PTL

(* Whatever fails and wherever the process is killed, a message that was   *)
(* written is kept if an older one is, in the order of writing, unless it  *)
(* was in the buffer when fflush or fclose failed or the process was       *)
(* killed: file_helper looks at neither result.                            *)
THEOREM OnlyOldestOrUnflushedAreLost == Spec => []RetainedIsSuffix
<1>1. (which = "rotating" => SinkIInv) => RetainedIsSuffix
  <2>1. SinkSane
        BY ComponentsAssumption DEF SinkSane, SinkMessages
  <2> QED
      BY <2>1, SinkKeeps DEF RetainedIsSuffix
<1> QED
    BY <1>1, SinkIsSound, PTL

-----------------------------------------------------------------------------
(* The daily sink: days and periods of a clock that has Day ticks to a     *)
(* day and rotates at one of them.                                         *)
DailySane == Day \in Nat \ {0} /\ Rotations \subseteq 0..Day - 1

Rotates == rotation_hm \in 0..Day - 1

(* A time is within its day, and its period starts on that day or on the   *)
(* one before.                                                             *)
LEMMA DayOfTime ==
  ASSUME DailySane, Rotates, NEW t \in Nat
  PROVE  /\ Daily!DayOf(t) \in Nat /\ Daily!Period(t) \in Nat
         /\ Daily!DayOf(t) * Day <= t /\ t < Daily!DayOf(t) * Day + Day
         /\ Daily!Period(t) * Day <= t + Day - rotation_hm
         /\ t + Day - rotation_hm < Daily!Period(t) * Day + Day
         /\ Daily!Period(t) \in {Daily!DayOf(t), Daily!DayOf(t) + 1}
<1> DEFINE q == t \div Day
           s == t + Day - rotation_hm
           p == s \div Day
<1>1. s \in Nat /\ Day \in Nat /\ Day > 0 /\ rotation_hm \in Nat /\ rotation_hm < Day
      BY DEF DailySane, Rotates
<1>2. q \in Nat /\ q * Day <= t /\ t < q * Day + Day
      BY <1>1
<1>3. p \in Nat /\ p * Day <= s /\ s < p * Day + Day
  <2> HIDE DEF s
  <2> QED
      BY <1>1
<1>4. Daily!DayOf(t) = q /\ Daily!Period(t) = p
      BY DEF Daily!DayOf, Daily!Period
<1>5. p = q \/ p = q + 1
  <2>1. s = t + Day - rotation_hm
        OBVIOUS
  <2> HIDE DEF p, q, s
  <2>2. q * Day < p * Day + Day /\ p * Day < q * Day + Day + Day
        BY <1>1, <1>2, <1>3, <2>1
  <2>3. p < q => p * Day + Day <= q * Day
        BY <1>1, <1>2, <1>3
  <2>4. p > q + 1 => q * Day + Day + Day <= p * Day
        BY <1>1, <1>2, <1>3
  <2>5. p * Day \in Nat /\ q * Day \in Nat
        BY <1>1, <1>2, <1>3
  <2> QED
      BY <1>1, <1>2, <1>3, <2>2, <2>3, <2>4, <2>5
<1> QED
    BY <1>2, <1>3, <1>4, <1>5

(* The rotation that ends a period comes after its times.                  *)
LEMMA BeforeRotation ==
  ASSUME DailySane, Rotates, NEW t \in Nat, NEW k \in Nat
  PROVE  t < k * Day + rotation_hm <=> Daily!Period(t) <= k
<1> DEFINE p == Daily!Period(t)
<1>1. /\ Day \in Nat /\ Day > 0 /\ rotation_hm \in Nat /\ rotation_hm < Day
      /\ p \in Nat /\ p * Day <= t + Day - rotation_hm /\ t + Day - rotation_hm < p * Day + Day
      BY DayOfTime DEF DailySane, Rotates
<1> HIDE DEF p
<1>2. p * Day \in Nat /\ k * Day \in Nat
      BY <1>1
<1>3. p <= k => p * Day <= k * Day
      BY <1>1
<1>4. p > k => k * Day + Day <= p * Day
      BY <1>1
<1>5. t < k * Day + rotation_hm <=> p <= k
      BY <1>1, <1>2, <1>3, <1>4
<1> QED
    BY <1>5 DEF p

(* Days and periods go on as time does.                                    *)
LEMMA TimeGoesOn ==
  ASSUME DailySane, Rotates, NEW s \in Nat, NEW t \in Nat, s <= t
  PROVE  Daily!DayOf(s) <= Daily!DayOf(t) /\ Daily!Period(s) <= Daily!Period(t)
<1> DEFINE q == Daily!DayOf(s)
           r == Daily!DayOf(t)
<1>1. /\ Day \in Nat /\ Day > 0 /\ q \in Nat /\ r \in Nat
      /\ q * Day <= s /\ t < r * Day + Day
      BY DayOfTime DEF DailySane, Rotates
<1>2. q <= r
  <2> HIDE DEF q, r
  <2>1. q > r => r * Day + Day <= q * Day
        BY <1>1
  <2>2. q * Day \in Nat /\ r * Day \in Nat
        BY <1>1
  <2> QED
      BY <1>1, <2>1, <2>2
<1> DEFINE p == Daily!Period(t)
<1>3. p \in Nat /\ Daily!Period(s) \in Nat
      BY DayOfTime
<1>4. t < p * Day + rotation_hm
      BY <1>3, BeforeRotation
<1>5. s < p * Day + rotation_hm
  <2> HIDE DEF p
  <2>1. p * Day + rotation_hm \in Nat
        BY <1>1, <1>3 DEF Rotates
  <2> QED
      BY <1>4, <2>1
<1>6. Daily!Period(s) <= p
      BY <1>3, <1>5, BeforeRotation
<1> QED
    BY <1>2, <1>6

(* next_rotation_tp_ is the rotation that ends the clock's period.         *)
LEMMA NextRotation ==
  ASSUME DailySane, Rotates, NEW t \in Nat
  PROVE  Daily!next_rotation_tp_(t) = Daily!Period(t) * Day + rotation_hm
<1> DEFINE q == Daily!DayOf(t)
           p == Daily!Period(t)
<1>1. /\ Day \in Nat /\ Day > 0 /\ rotation_hm \in Nat /\ q \in Nat /\ p \in {q, q + 1}
      BY DayOfTime DEF DailySane, Rotates
<1>2. t < q * Day + rotation_hm <=> p <= q
      BY <1>1, BeforeRotation
<1>3. Daily!next_rotation_tp_(t) = IF q * Day + rotation_hm > t THEN q * Day + rotation_hm
                                   ELSE q * Day + rotation_hm + Day
      BY DEF Daily!next_rotation_tp_
<1> HIDE DEF p, q
<1>4. (q + 1) * Day = q * Day + Day /\ q * Day \in Nat
      BY <1>1
<1>5. Daily!next_rotation_tp_(t) = p * Day + rotation_hm
  <2>1. CASE p = q
        BY <1>1, <1>2, <1>3, <1>4, <2>1
  <2>2. CASE p = q + 1
    <3>1. ~(q * Day + rotation_hm > t)
          BY <1>1, <1>2, <1>4, <2>2
    <3>2. p * Day = q * Day + Day
          BY <1>4, <2>2
    <3> QED
        BY <1>1, <1>3, <1>4, <3>1, <3>2
  <2> QED
      BY <1>1, <2>1, <2>2
<1> QED
    BY <1>5 DEF p

(* Unless the clock comes to a rotation or to midnight, it stays in its    *)
(* day and in its period.                                                  *)
LEMMA QuietTick ==
  ASSUME DailySane, Rotates, NEW t \in Nat, ~Daily!AtRotation(t + 1)
  PROVE  Daily!DayOf(t + 1) = Daily!DayOf(t) /\ Daily!Period(t + 1) = Daily!Period(t)
<1> DEFINE q == Daily!DayOf(t)
           r == Daily!DayOf(t + 1)
           p == Daily!Period(t)
           u == Daily!Period(t + 1)
<1>1. /\ Day \in Nat /\ Day > 0 /\ rotation_hm \in Nat /\ rotation_hm < Day
      /\ q \in Nat /\ r \in Nat /\ p \in Nat /\ u \in Nat /\ q <= r /\ p <= u
      /\ t < q * Day + Day /\ r * Day <= t + 1
  <2>1. t + 1 \in Nat /\ t <= t + 1
        OBVIOUS
  <2>2. /\ q \in Nat /\ p \in Nat /\ t < q * Day + Day
        BY DayOfTime
  <2>3. /\ r \in Nat /\ u \in Nat /\ r * Day <= t + 1
        BY <2>1, DayOfTime
  <2>4. q <= r /\ p <= u
        BY <2>1, TimeGoesOn
  <2> HIDE DEF p, q, r, u
  <2> QED
      BY <2>2, <2>3, <2>4 DEF DailySane, Rotates
<1>2. /\ t < p * Day + rotation_hm /\ (u # p => ~(t + 1 < p * Day + rotation_hm))
      BY <1>1, BeforeRotation
<1>3. (t + 1) % Day # 0 /\ (t + 1) % Day # rotation_hm
      BY DEF Daily!AtRotation
<1> HIDE DEF p, q, r, u
<1>4. \A k, s \in Nat : s < Day => (k * Day + s) % Day = s
      BY <1>1
<1>5. r = q
  <2> SUFFICES ASSUME r # q PROVE FALSE
      OBVIOUS
  <2>1. q * Day + Day <= r * Day /\ q * Day \in Nat /\ r * Day \in Nat
        BY <1>1
  <2>2. t + 1 = (q + 1) * Day + 0
        BY <1>1, <2>1
  <2>3. (t + 1) % Day = 0
        BY <1>1, <1>4, <2>2
  <2> QED
      BY <1>3, <2>3
<1>6. u = p
  <2> SUFFICES ASSUME u # p PROVE FALSE
      OBVIOUS
  <2>1. p * Day \in Nat
        BY <1>1
  <2>2. t + 1 = p * Day + rotation_hm
        BY <1>1, <1>2, <2>1
  <2>3. (t + 1) % Day = rotation_hm
        BY <1>1, <1>4, <2>2
  <2> QED
      BY <1>3, <2>3
<1> QED
    BY <1>5, <1>6 DEF p, q, r, u

-----------------------------------------------------------------------------
DailyMessages == [id : Nat, time : Nat]
DailyLabels == {"idle", "open", "set_tp", "write"}

(* sink_it_ has a message.                                                 *)
Holding == pc \in {"open", "write"} \/ (pc = "set_tp" /\ msg # <<>>)

DailyTyped ==
  /\ now \in Nat /\ made \in Nat /\ Rotates
  /\ pending \subseteq DailyMessages /\ (Holding => msg \in DailyMessages)
  /\ file \in [Daily!Days -> SUBSET DailyMessages]
  /\ fd_ # <<>> => fd_[1] \in Nat

(* While no call straddles a rotation or midnight, every message that is   *)
(* not in a file yet is of the clock's day and period.                     *)
Current(m) ==
  /\ m.time <= now /\ Daily!DayOf(m.time) = Daily!DayOf(now)
  /\ Daily!Period(m.time) = Daily!Period(now)

(* Before rotation_tp_ is set, the file that is open is that of the        *)
(* clock's day, and no file has messages of its period.                    *)
Reopened ==
  /\ fd_ # <<>> /\ fd_[1] = Daily!DayOf(now)
  /\ \A d \in Daily!Days : \A m \in file[d] : Daily!Period(m.time) < Daily!Period(now)

(* Afterwards rotation_tp_ ends period k: the file that is open has all    *)
(* messages of that period, and none has later ones; it is closed only     *)
(* when that period is over.                                               *)
Until(k) ==
  /\ rotation_tp_ = k * Day + rotation_hm /\ k <= Daily!Period(now)
  /\ IF fd_ = <<>> THEN k < Daily!Period(now) ELSE fd_[1] <= Daily!DayOf(now) /\ k <= fd_[1] + 1
  /\ pc = "open" => k < Daily!Period(now)
  /\ pc = "write" => k = Daily!Period(now)
  /\ \A d \in Daily!Days : \A m \in file[d] :
       /\ Daily!Period(m.time) <= k
       /\ Daily!Period(m.time) = k /\ fd_ # <<>> => fd_[1] = d

(* The messages in the files.                                              *)
FiledRight ==
  \A d \in Daily!Days : \A m \in file[d] :
    /\ d * Day <= m.time /\ m.time < (d + 1) * Day + rotation_hm
    /\ \A e \in Daily!Days : \A n \in file[e] :
         Daily!Period(m.time) = Daily!Period(n.time) => d = e

InTime ==
  /\ pc \in DailyLabels
  /\ \A m \in pending : Current(m)
  /\ Holding => Current(msg)
  /\ IF pc = "set_tp" THEN Reopened ELSE \E k \in Nat : Until(k)
  /\ FiledRight

DailyIInv == DailyTyped /\ (late \/ InTime)

LEMMA DailyInit == ASSUME DailySane PROVE Daily!Init => DailyIInv
<1> SUFFICES ASSUME Daily!Init PROVE DailyIInv
    OBVIOUS
<1>1. /\ now \in Nat /\ now < Day /\ Rotates /\ Day \in Nat /\ Day > 0
      BY DEF Daily!Init, DailySane, Rotates
<1>2. DailyTyped
      BY <1>1 DEF Daily!Init, DailyTyped, Holding
<1>3. Daily!DayOf(now) = 0
  <2> DEFINE q == Daily!DayOf(now)
  <2>1. q \in Nat /\ q * Day <= now
        BY <1>1, DayOfTime
  <2> HIDE DEF q
  <2>2. q > 0 => Day <= q * Day
        BY <1>1, <2>1
  <2>3. q = 0
        BY <1>1, <2>1, <2>2
  <2> QED
      BY <2>3 DEF q
<1>4. InTime
  <2>1. Reopened
        BY <1>3 DEF Daily!Init, Reopened
  <2> QED
      BY <2>1 DEF Daily!Init, InTime, FiledRight, Holding, DailyLabels
<1> QED
    BY <1>2, <1>4 DEF DailyIInv

(* The clock moves on.                                                     *)
LEMMA TickStep ==
  ASSUME DailySane, DailyIInv, Daily!Tick
  PROVE  DailyIInv'
<1>1. /\ now' = now + 1 /\ now \in Nat /\ now' \in Nat /\ Rotates
      /\ UNCHANGED <<rotation_hm, rotation_tp_, fd_, pending, msg, pc, file, made>>
      BY DEF Daily!Tick, DailyIInv, DailyTyped
<1>2. DailyTyped'
      BY <1>1 DEF DailyIInv, DailyTyped, Holding, Rotates
<1> SUFFICES ASSUME ~late' PROVE InTime'
    BY <1>2 DEF DailyIInv
<1>3. InTime
      BY DEF DailyIInv, Daily!Tick
<1>4. /\ Daily!DayOf(now) \in Nat /\ Daily!DayOf(now') \in Nat
      /\ Daily!Period(now) \in Nat /\ Daily!Period(now') \in Nat
      /\ Daily!DayOf(now) <= Daily!DayOf(now') /\ Daily!Period(now) <= Daily!Period(now')
  <2>1. now <= now'
        BY <1>1
  <2> QED
      BY <1>1, <2>1, DayOfTime, TimeGoesOn
<1>5. FiledRight'
      BY <1>1, <1>3 DEF InTime, FiledRight, Daily!Period
<1>6. CASE pc = "idle" /\ pending = {}
  <2>1. ~Holding'
        BY <1>1, <1>6 DEF Holding
  <2>2. PICK k \in Nat : Until(k)
        BY <1>3, <1>6 DEF InTime
  <2>3. Until(k)'
    <3>1. k <= Daily!Period(now') /\ (k < Daily!Period(now) => k < Daily!Period(now'))
          BY <1>4, <2>2 DEF Until
    <3>2. fd_ # <<>> => fd_[1] <= Daily!DayOf(now')
          BY <1>2, <1>4, <2>2 DEF Until, DailyIInv, DailyTyped
    <3>3. \A d \in Daily!Days : \A m \in file[d] :
            /\ Daily!Period(m.time)' <= k
            /\ Daily!Period(m.time)' = k /\ fd_ # <<>> => fd_[1] = d
          BY <1>1, <2>2 DEF Until, Daily!Period
    <3>4. /\ Daily!Period(now)' = Daily!Period(now') /\ Daily!DayOf(now)' = Daily!DayOf(now')
          BY <1>1 DEF Daily!Period, Daily!DayOf
    <3> QED
        BY <1>1, <1>6, <2>2, <3>1, <3>2, <3>3, <3>4 DEF Until
  <2> QED
      BY <1>1, <1>3, <1>5, <1>6, <2>1, <2>3 DEF InTime
<1>7. CASE ~Daily!AtRotation(now')
  <2>1. Daily!DayOf(now') = Daily!DayOf(now) /\ Daily!Period(now') = Daily!Period(now)
        BY <1>1, <1>7, QuietTick
  <2>2. ASSUME NEW m, m.time \in Nat, Current(m) PROVE Current(m)'
    <3>1. m.time <= now'
          BY <1>1, <2>2 DEF Current
    <3> QED
        BY <1>1, <2>1, <2>2, <3>1 DEF Current, Daily!DayOf, Daily!Period
  <2>3. (\A m \in pending : Current(m)') /\ (Holding' => Current(msg)')
    <3>1. \A m \in pending : m.time \in Nat /\ Current(m)
          BY <1>3 DEF InTime, DailyIInv, DailyTyped, DailyMessages
    <3>2. Holding => msg.time \in Nat /\ Current(msg)
          BY <1>3 DEF InTime, DailyIInv, DailyTyped, DailyMessages
    <3>3. Holding' = Holding /\ msg' = msg
          BY <1>1 DEF Holding
    <3>4. Holding => Current(msg)'
      <4>1. Holding => (msg.time)' = msg.time /\ msg.time <= now'
            BY <1>1, <3>2 DEF Current
      <4> QED
          BY <1>1, <2>1, <3>2, <4>1 DEF Current, Daily!DayOf, Daily!Period
    <3> QED
        BY <2>2, <3>1, <3>3, <3>4
  <2>4. Reopened => Reopened'
        BY <1>1, <2>1 DEF Reopened, Daily!DayOf, Daily!Period
  <2>5. ASSUME NEW k \in Nat, Until(k) PROVE Until(k)'
        BY <1>1, <2>1, <2>5 DEF Until, Daily!DayOf, Daily!Period
  <2> QED
      BY <1>1, <1>3, <1>5, <2>3, <2>4, <2>5 DEF InTime
<1>8. Daily!AtRotation(now') => pc = "idle" /\ pending = {}
      BY DEF Daily!Tick
<1> QED
    BY <1>6, <1>7, <1>8

(* Every other step takes no time.                                         *)
LEMMA AtOnce ==
  ASSUME now' = now, rotation_hm' = rotation_hm
  PROVE  /\ \A m : Current(m)' <=> Current(m)
         /\ Reopened' <=> /\ fd_' # <<>> /\ fd_'[1] = Daily!DayOf(now)
                          /\ \A d \in Daily!Days : \A m \in file'[d] :
                               Daily!Period(m.time) < Daily!Period(now)
         /\ FiledRight' <=> \A d \in Daily!Days : \A m \in file'[d] :
                              /\ d * Day <= m.time /\ m.time < (d + 1) * Day + rotation_hm
                              /\ \A e \in Daily!Days : \A n \in file'[e] :
                                   Daily!Period(m.time) = Daily!Period(n.time) => d = e
         /\ \A k : Until(k)' <=>
              /\ rotation_tp_' = k * Day + rotation_hm /\ k <= Daily!Period(now)
              /\ IF fd_' = <<>> THEN k < Daily!Period(now)
                 ELSE fd_'[1] <= Daily!DayOf(now) /\ k <= fd_'[1] + 1
              /\ pc' = "open" => k < Daily!Period(now)
              /\ pc' = "write" => k = Daily!Period(now)
              /\ \A d \in Daily!Days : \A m \in file'[d] :
                   /\ Daily!Period(m.time) <= k
                   /\ Daily!Period(m.time) = k /\ fd_' # <<>> => fd_'[1] = d
<1>1. \A m : Current(m)' <=> Current(m)
      BY DEF Current, Daily!DayOf, Daily!Period
<1>2. Reopened' <=> /\ fd_' # <<>> /\ fd_'[1] = Daily!DayOf(now)
                    /\ \A d \in Daily!Days : \A m \in file'[d] :
                         Daily!Period(m.time) < Daily!Period(now)
      BY DEF Reopened, Daily!DayOf, Daily!Period
<1>3. FiledRight' <=> \A d \in Daily!Days : \A m \in file'[d] :
                        /\ d * Day <= m.time /\ m.time < (d + 1) * Day + rotation_hm
                        /\ \A e \in Daily!Days : \A n \in file'[e] :
                             Daily!Period(m.time) = Daily!Period(n.time) => d = e
      BY DEF FiledRight, Daily!Period
<1>4. ASSUME NEW k
      PROVE  Until(k)' <=>
               /\ rotation_tp_' = k * Day + rotation_hm /\ k <= Daily!Period(now)
               /\ IF fd_' = <<>> THEN k < Daily!Period(now)
                  ELSE fd_'[1] <= Daily!DayOf(now) /\ k <= fd_'[1] + 1
               /\ pc' = "open" => k < Daily!Period(now)
               /\ pc' = "write" => k = Daily!Period(now)
               /\ \A d \in Daily!Days : \A m \in file'[d] :
                    /\ Daily!Period(m.time) <= k
                    /\ Daily!Period(m.time) = k /\ fd_' # <<>> => fd_'[1] = d
      BY DEF Until, Daily!DayOf, Daily!Period
<1> QED
    BY <1>1, <1>2, <1>3, <1>4

(* What is known of the clock and the messages.                            *)
LEMMA TimesTyped ==
  ASSUME DailySane, DailyIInv
  PROVE  /\ Rotates /\ now \in Nat /\ Day \in Nat
         /\ Daily!DayOf(now) \in Nat /\ Daily!Period(now) \in Nat
         /\ \A d \in Daily!Days : \A m \in file[d] : m.time \in Nat /\ Daily!Period(m.time) \in Nat
         /\ fd_ # <<>> => fd_[1] \in Nat
<1>1. Rotates /\ now \in Nat /\ Day \in Nat /\ (fd_ # <<>> => fd_[1] \in Nat)
      BY DEF DailyIInv, DailyTyped, DailySane
<1>2. \A d \in Daily!Days : \A m \in file[d] : m.time \in Nat
      BY DEF DailyIInv, DailyTyped, DailyMessages
<1> QED
    BY <1>1, <1>2, DayOfTime

(* A message is made.                                                      *)
LEMMA MakeMsgStep ==
  ASSUME DailySane, DailyIInv, Daily!MakeMsg
  PROVE  DailyIInv'
<1> DEFINE new == [id |-> made + 1, time |-> now]
<1>1. /\ pending' = pending \cup {new} /\ made' = made + 1
      /\ UNCHANGED <<now, rotation_hm, rotation_tp_, fd_, msg, pc, file, late>>
      BY DEF Daily!MakeMsg
<1>2. new \in DailyMessages /\ Current(new)
      BY TimesTyped DEF DailyIInv, DailyTyped, DailyMessages, Current
<1>3. DailyTyped'
      BY <1>1, <1>2 DEF DailyIInv, DailyTyped, Holding, Rotates
<1> HIDE DEF new
<1>4. ASSUME InTime PROVE InTime'
  <2>1. \A m \in pending' : Current(m)'
        BY <1>1, <1>2, <1>4, AtOnce DEF InTime
  <2>2. Holding' => Current(msg)'
        BY <1>1, <1>4 DEF InTime, Holding, Current, Daily!DayOf, Daily!Period
  <2>3. (Reopened => Reopened') /\ (FiledRight => FiledRight')
        BY <1>1, AtOnce DEF Reopened, FiledRight
  <2>4. \A k \in Nat : Until(k) => Until(k)'
        BY <1>1, AtOnce DEF Until
  <2> QED
      BY <1>1, <1>4, <2>1, <2>2, <2>3, <2>4 DEF InTime
<1> QED
    BY <1>1, <1>3, <1>4 DEF DailyIInv

(* The sink gets a message and compares its time.                          *)
LEMMA SinkItStep ==
  ASSUME DailySane, DailyIInv, NEW m \in pending, Daily!sink_it_(m)
  PROVE  DailyIInv'
<1>1. /\ pc = "idle" /\ pending' = pending \ {m} /\ msg' = m
      /\ pc' = IF m.time >= rotation_tp_ THEN "open" ELSE "write"
      /\ UNCHANGED <<now, rotation_hm, rotation_tp_, fd_, file, made, late>>
      BY DEF Daily!sink_it_
<1>2. m \in DailyMessages /\ m.time \in Nat
      BY DEF DailyIInv, DailyTyped, DailyMessages
<1>3. DailyTyped'
      BY <1>1, <1>2 DEF DailyIInv, DailyTyped, Holding, Rotates
<1>4. ASSUME InTime PROVE InTime'
  <2>1. \A l \in pending' : Current(l)'
        BY <1>1, <1>4, AtOnce DEF InTime
  <2>2. Current(msg)'
        BY <1>1, <1>4 DEF InTime, Current, Daily!DayOf, Daily!Period
  <2>3. FiledRight'
        BY <1>1, <1>4, AtOnce DEF InTime, FiledRight
  <2>4. PICK k \in Nat : Until(k)
        BY <1>1, <1>4 DEF InTime
  <2>5. m.time < k * Day + rotation_hm <=> Daily!Period(now) <= k
    <3>1. Daily!Period(m.time) = Daily!Period(now)
          BY <1>4 DEF InTime, Current
    <3> QED
        BY <1>2, <3>1, BeforeRotation, TimesTyped
  <2>6. /\ rotation_tp_ = k * Day + rotation_hm /\ k <= Daily!Period(now)
        /\ Daily!Period(now) \in Nat
        BY <2>4, TimesTyped DEF Until
  <2>7. rotation_tp_ \in Nat
        BY <2>6, TimesTyped DEF Rotates
  <2>8. IF m.time >= rotation_tp_ THEN k < Daily!Period(now) ELSE k = Daily!Period(now)
        BY <1>2, <2>5, <2>6, <2>7
  <2>9. Until(k)'
        BY <1>1, <2>4, <2>8, AtOnce DEF Until
  <2>10. pc' \in DailyLabels /\ pc' # "set_tp"
         BY <1>1 DEF DailyLabels
  <2> QED
      BY <2>1, <2>2, <2>3, <2>9, <2>10 DEF InTime
<1> QED
    BY <1>1, <1>3, <1>4 DEF DailyIInv

(* A period is over: the file of the message's day is opened, or not.      *)
LEMMA OpenStep ==
  ASSUME DailySane, DailyIInv, Daily!Open
  PROVE  DailyIInv'
<1> DEFINE day == Daily!DayOf(msg.time)
<1>1. /\ pc = "open"
      /\ UNCHANGED <<now, rotation_hm, rotation_tp_, pending, made, late>>
      /\ \/ /\ fd_' = <<day>> /\ pc' = "set_tp"
            /\ file' = IF truncate_ THEN [file EXCEPT ![day] = {}] ELSE file
            /\ UNCHANGED msg
         \/ fd_' = <<>> /\ pc' = "idle" /\ msg' = <<>> /\ UNCHANGED file
      BY DEF Daily!Open
<1>2. msg \in DailyMessages /\ msg.time \in Nat /\ day \in Nat
  <2>1. msg \in DailyMessages
        BY <1>1 DEF DailyIInv, DailyTyped, Holding
  <2> QED
      BY <2>1, TimesTyped, DayOfTime DEF DailyMessages
<1> HIDE DEF day
<1>3. \A d \in Daily!Days : file'[d] \subseteq file[d]
      BY <1>1 DEF DailyIInv, DailyTyped
<1>4. DailyTyped'
  <2>1. file' \in [Daily!Days -> SUBSET DailyMessages]
        BY <1>1 DEF DailyIInv, DailyTyped
  <2>2. fd_' # <<>> => fd_'[1] \in Nat
        BY <1>1, <1>2
  <2>3. Holding' => msg' \in DailyMessages
        BY <1>1, <1>2 DEF Holding
  <2> QED
      BY <1>1, <2>1, <2>2, <2>3 DEF DailyIInv, DailyTyped, Rotates
<1>5. ASSUME InTime PROVE InTime'
  <2>1. \A m \in pending' : Current(m)'
        BY <1>1, <1>5, AtOnce DEF InTime
  <2>2. Current(msg)
        BY <1>1, <1>5 DEF InTime, Holding
  <2>3. Holding' => Current(msg)'
        BY <1>1, <2>2 DEF Holding, Current, Daily!DayOf, Daily!Period
  <2>4. FiledRight'
    <3>1. FiledRight
          BY <1>5 DEF InTime
    <3> QED
        BY <1>1, <1>3, <3>1, AtOnce DEF FiledRight
  <2>5. PICK k \in Nat : Until(k)
        BY <1>1, <1>5 DEF InTime
  <2>6. /\ k < Daily!Period(now) /\ rotation_tp_ = k * Day + rotation_hm
        /\ \A d \in Daily!Days : \A m \in file[d] : Daily!Period(m.time) <= k
        BY <1>1, <2>5 DEF Until
  <2>7. CASE fd_' = <<day>> /\ pc' = "set_tp"
    <3>1. \A d \in Daily!Days : \A m \in file'[d] : Daily!Period(m.time) < Daily!Period(now)
      <4>1. \A d \in Daily!Days : \A m \in file[d] : Daily!Period(m.time) < Daily!Period(now)
            BY <2>6, TimesTyped
      <4> QED
          BY <1>3, <4>1
    <3>2. fd_' # <<>> /\ fd_'[1] = Daily!DayOf(now)
          BY <2>2, <2>7 DEF Current, day
    <3>3. Reopened'
          BY <1>1, <3>1, <3>2, AtOnce
    <3> QED
        BY <2>1, <2>3, <2>4, <2>7, <3>3 DEF InTime, DailyLabels
  <2>8. CASE fd_' = <<>> /\ pc' = "idle" /\ UNCHANGED file
    <3>1. Until(k)'
          BY <1>1, <2>6, <2>8, AtOnce, TimesTyped
    <3> QED
        BY <2>1, <2>3, <2>4, <2>8, <3>1 DEF InTime, DailyLabels
  <2> QED
      BY <1>1, <2>7, <2>8
<1> QED
    BY <1>1, <1>4, <1>5 DEF DailyIInv

(* The next rotation is the one that ends the clock's period.              *)
LEMMA SetRotationStep ==
  ASSUME DailySane, DailyIInv, Daily!SetRotation
  PROVE  DailyIInv'
<1>1. /\ pc = "set_tp" /\ rotation_tp_' = Daily!next_rotation_tp_(now)
      /\ pc' = IF msg = <<>> THEN "idle" ELSE "write"
      /\ UNCHANGED <<now, rotation_hm, fd_, pending, msg, file, made, late>>
      BY DEF Daily!SetRotation
<1>2. DailyTyped'
      BY <1>1 DEF DailyIInv, DailyTyped, Holding, Rotates
<1>3. ASSUME InTime PROVE InTime'
  <2>1. \A m \in pending' : Current(m)'
        BY <1>1, <1>3, AtOnce DEF InTime
  <2>2. Holding' => Current(msg)'
        BY <1>1, <1>3 DEF InTime, Holding, Current, Daily!DayOf, Daily!Period
  <2>3. FiledRight'
        BY <1>1, <1>3, AtOnce DEF InTime, FiledRight
  <2>4. Reopened
        BY <1>1, <1>3 DEF InTime
  <2>5. PICK k \in Nat : k = Daily!Period(now)
        BY TimesTyped
  <2>6. rotation_tp_' = k * Day + rotation_hm
        BY <1>1, <2>5, TimesTyped, NextRotation
  <2>7. \A d \in Daily!Days : \A m \in file[d] :
          Daily!Period(m.time) <= k /\ Daily!Period(m.time) # k
        BY <2>4, <2>5, TimesTyped DEF Reopened
  <2>8. fd_ # <<>> /\ fd_[1] <= Daily!DayOf(now) /\ k <= fd_[1] + 1
    <3>1. Daily!DayOf(now) \in Nat /\ k <= Daily!DayOf(now) + 1
      <4>1. now \in Nat /\ Rotates
            BY TimesTyped
      <4>2. /\ Daily!DayOf(now) \in Nat
            /\ Daily!Period(now) \in {Daily!DayOf(now), Daily!DayOf(now) + 1}
            BY <4>1, DayOfTime
      <4> QED
          BY <2>5, <4>2
    <3> QED
        BY <2>4, <3>1 DEF Reopened
  <2>9. pc' # "open" /\ pc' # "set_tp" /\ pc' \in DailyLabels
        BY <1>1 DEF DailyLabels
  <2>10. Until(k)'
         BY <1>1, <2>5, <2>6, <2>7, <2>8, <2>9, AtOnce
  <2> QED
      BY <2>1, <2>2, <2>3, <2>9, <2>10 DEF InTime
<1> QED
    BY <1>1, <1>2, <1>3 DEF DailyIInv

(* The message goes to the file that is open.                              *)
LEMMA WriteStep ==
  ASSUME DailySane, DailyIInv, Daily!Write
  PROVE  DailyIInv'
<1>1. /\ pc = "write"
      /\ UNCHANGED <<now, rotation_hm, rotation_tp_, fd_, pending, made, late>>
      /\ IF fd_ = <<>> THEN pc' = "undefined" /\ UNCHANGED <<msg, file>>
         ELSE /\ pc' = "idle" /\ msg' = <<>>
              /\ file' = [file EXCEPT ![fd_[1]] = @ \cup {msg}]
      BY DEF Daily!Write
<1>2. msg \in DailyMessages /\ msg.time \in Nat
      BY <1>1 DEF DailyIInv, DailyTyped, Holding, DailyMessages
<1>3. ~Holding'
      BY <1>1 DEF Holding
<1>4. DailyTyped'
  <2>1. file' \in [Daily!Days -> SUBSET DailyMessages]
        BY <1>1, <1>2 DEF DailyIInv, DailyTyped
  <2> QED
      BY <1>1, <1>3, <2>1 DEF DailyIInv, DailyTyped, Rotates
<1>5. ASSUME InTime PROVE InTime'
  <2>1. \A m \in pending' : Current(m)'
        BY <1>1, <1>5, AtOnce DEF InTime
  <2>2. PICK k \in Nat : Until(k)
        BY <1>1, <1>5 DEF InTime
  <2>3. /\ k = Daily!Period(now) /\ fd_ # <<>> /\ fd_[1] \in Nat
        /\ fd_[1] <= Daily!DayOf(now) /\ k <= fd_[1] + 1
        BY <1>1, <2>2, TimesTyped DEF Until
  <2>4. Daily!Period(msg.time) = k /\ Daily!DayOf(msg.time) = Daily!DayOf(now)
        BY <1>1, <1>5, <2>3 DEF InTime, Holding, Current
  <2>5. \A d \in Daily!Days : \A m \in file'[d] : m \in file[d] \/ (m = msg /\ d = fd_[1])
        BY <1>1, <2>3 DEF DailyIInv, DailyTyped
  <2>6. Until(k)'
    <3>1. \A d \in Daily!Days : \A m \in file'[d] :
            /\ Daily!Period(m.time) <= k
            /\ Daily!Period(m.time) = k /\ fd_ # <<>> => fd_[1] = d
          BY <2>2, <2>4, <2>5 DEF Until
    <3> QED
        BY <1>1, <2>2, <2>3, <3>1, AtOnce DEF Until
  <2>7. fd_[1] * Day <= msg.time /\ msg.time < (fd_[1] + 1) * Day + rotation_hm
    <3> DEFINE d == fd_[1]
               q == Daily!DayOf(now)
    <3>1. /\ Day \in Nat /\ rotation_hm \in Nat /\ q \in Nat /\ d \in Nat /\ d <= q
          /\ k <= d + 1
          BY <2>3, TimesTyped DEF Rotates
    <3>2. q * Day <= msg.time
          BY <1>2, <2>4, TimesTyped, DayOfTime
    <3>3. msg.time < k * Day + rotation_hm
          BY <1>2, <2>4, TimesTyped, BeforeRotation, SMTT(30)
    <3> HIDE DEF d, q
    <3>4. d * Day <= q * Day /\ k * Day <= (d + 1) * Day
          BY <3>1
    <3>5. /\ d * Day \in Nat /\ q * Day \in Nat /\ k * Day \in Nat /\ (d + 1) * Day \in Nat
          BY <3>1
    <3>6. d * Day <= msg.time /\ msg.time < (d + 1) * Day + rotation_hm
          BY <1>2, <3>1, <3>2, <3>3, <3>4, <3>5
    <3> QED
        BY <3>6 DEF d
  <2>8. FiledRight'
    <3>1. \A d \in Daily!Days : \A m \in file'[d] :
            d * Day <= m.time /\ m.time < (d + 1) * Day + rotation_hm
          BY <1>5, <2>5, <2>7 DEF InTime, FiledRight
    <3>2. \A d, e \in Daily!Days : \A m \in file'[d] : \A n \in file'[e] :
            Daily!Period(m.time) = Daily!Period(n.time) => d = e
      <4>1. \A d \in Daily!Days : \A m \in file[d] : Daily!Period(m.time) = k => fd_[1] = d
            BY <2>2, <2>3 DEF Until
      <4>2. \A d, e \in Daily!Days : \A m \in file[d] : \A n \in file[e] :
              Daily!Period(m.time) = Daily!Period(n.time) => d = e
            BY <1>5 DEF InTime, FiledRight
      <4> QED
          BY <2>4, <2>5, <4>1, <4>2
    <3> QED
        BY <1>1, <3>1, <3>2, AtOnce
  <2> QED
      BY <1>1, <1>3, <2>1, <2>3, <2>6, <2>8 DEF InTime, DailyLabels
<1> QED
    BY <1>1, <1>4, <1>5 DEF DailyIInv

(* The messages of one period between rotations are in one file, whatever  *)
(* opens fail and rotations are missed, unless a call straddles a rotation *)
(* or midnight; only such a call meets a closed file                       *)
(* (daily_file_sink.h:65-75), for any rotation time and any clock.         *)
THEOREM PeriodsAreNotSplit == Spec => []OnePeriodOneFile
<1> DEFINE Inv == which = "daily" => DailyIInv
<1>1. DailySane
      BY ComponentsAssumption DEF DailySane
<1>2. Init => Inv
      BY <1>1, DailyInit DEF Init
<1>3. Inv /\ [Next]_vars => Inv'
  <2> SUFFICES ASSUME which = "daily", DailyIInv, [Next]_vars PROVE DailyIInv'
      BY DEF Next, vars
  <2>1. Daily!Next \/ UNCHANGED Daily!vars
        BY DEF Next, vars, sink, daily, Daily!vars
  <2>2. CASE UNCHANGED Daily!vars
    <3>1. DailyTyped'
          BY <2>2 DEF Daily!vars, DailyIInv, DailyTyped, Holding, Rotates
    <3>2. ASSUME InTime PROVE InTime'
      <4>1. (\A m \in pending' : Current(m)') /\ FiledRight'
            BY <2>2, <3>2, AtOnce DEF Daily!vars, InTime, FiledRight
      <4>2. Holding' => Current(msg)'
            BY <2>2, <3>2 DEF Daily!vars, InTime, Holding, Current, Daily!DayOf, Daily!Period
      <4>3. Reopened => Reopened'
            BY <2>2, AtOnce DEF Daily!vars, Reopened
      <4>4. \A k \in Nat : Until(k) => Until(k)'
            BY <2>2, AtOnce DEF Daily!vars, Until
      <4> QED
          BY <2>2, <3>2, <4>1, <4>2, <4>3, <4>4 DEF Daily!vars, InTime
    <3> QED
        BY <2>2, <3>1, <3>2 DEF Daily!vars, DailyIInv
  <2>3. CASE Daily!Next
    <3>1. Daily!Done => UNCHANGED Daily!vars
          BY DEF Daily!Done
    <3> QED
        BY <1>1, <2>2, <2>3, <3>1, TickStep, MakeMsgStep, SinkItStep, OpenStep, SetRotationStep,
           WriteStep DEF Daily!Next
  <2> QED
      BY <2>1, <2>2, <2>3
<1>4. Inv => OnePeriodOneFile
  <2> SUFFICES ASSUME which = "daily", DailyIInv, ~late PROVE Daily!OnePeriodOneFile
      BY DEF OnePeriodOneFile, Daily!OnePeriodOneFile
  <2>1. InTime
        BY DEF DailyIInv
  <2>2. pc # "undefined"
        BY <2>1 DEF InTime, DailyLabels
  <2>3. ASSUME pc = "write" PROVE fd_ # <<>>
    <3>1. PICK k \in Nat : Until(k)
          BY <2>1, <2>3 DEF InTime
    <3> QED
        BY <2>3, <3>1, TimesTyped, <1>1 DEF Until
  <2> QED
      BY <2>1, <2>2, <2>3 DEF InTime, FiledRight, Daily!OnePeriodOneFile
<1> QED
    BY <1>2, <1>3, <1>4, PTL DEF Spec

-----------------------------------------------------------------------------
(* A word of a multiple of 8 values, at least 32 of them, has room for     *)
(* WordSize \div 8 times.                                                  *)
LEMMA LargestTime ==
  ASSUME NEW k \in Nat, k >= 4, WordSize = 8 * k
  PROVE  Cycles!kMaxWaitTime = k - 1
BY DEF Cycles!kMaxWaitTime, Cycles!ReservedShift

(* The product of a time and 8 taken modulo the word size still has no     *)
(* bits but wait bits, whatever the sign of the time; a time that fits is  *)
(* not changed.                                                            *)
LEMMA ScaledTime ==
  ASSUME NEW k \in Nat, k >= 4, NEW l \in Int, l < k
  PROVE  /\ (l * 8) % (8 * k) \in 0..(8 * k - 1)
         /\ ((l * 8) % (8 * k)) % 8 = 0
         /\ l >= 0 => (l * 8) % (8 * k) = 8 * l
<1> DEFINE n == 8 * k
           r == (l * 8) % n
           q == (l * 8) \div n
<1>1. n \in Nat /\ n > 0 /\ l * 8 \in Int
      OBVIOUS
<1>2. r \in 0..(n - 1) /\ q \in Int /\ l * 8 = n * q + r
  <2> HIDE DEF n
  <2> QED
      BY <1>1
<1>3. k * q \in Int /\ n * q = 8 * (k * q)
      BY <1>2
<1>4. r = 8 * (l - k * q)
      BY <1>2, <1>3
<1>5. r % 8 = 0
      BY <1>3, <1>4
<1>6. l >= 0 => r = 8 * l
  <2>1. ASSUME l >= 0 PROVE r = l * 8
        BY <1>1, <2>1
  <2> QED
      BY <2>1
<1> QED
    BY <1>2, <1>5, <1>6

(* What EncodeWaitCycles records and DecodeWaitCycles reads back, for any  *)
(* difference of clocks and any word size.                                 *)
LEMMA RecordedTime ==
  ASSUME NEW k \in Nat, k >= 4, WordSize = 8 * k, delta \in Int
  PROVE  Cycles!RoundTrip
<1> DEFINE scaled == delta \div 128
           limited == IF scaled < k - 1 THEN scaled ELSE k - 1
           clamped == (limited * 8) % WordSize
           e == Cycles!EncodeWaitCycles(delta)
           d == Cycles!DecodeWaitCycles(e)
<1>1. Cycles!kMaxWaitTime = k - 1
      BY LargestTime
<1>2. e = CASE clamped = 0 -> 8 [] clamped = 8 -> 16 [] OTHER -> clamped
      BY <1>1 DEF Cycles!EncodeWaitCycles, Cycles!ProfileShift, Cycles!ReservedShift,
                  Cycles!kSpinLockSleeper, Cycles!kMinWaitTime
<1>3. scaled \in Int /\ delta >= 128 * scaled /\ delta <= 128 * scaled + 127
      OBVIOUS
<1>4. limited \in Int /\ limited < k
      BY <1>3
<1>5. /\ clamped \in 0..(8 * k - 1) /\ clamped % 8 = 0
      /\ limited >= 0 => clamped = 8 * limited
      BY <1>4, ScaledTime, ZenonT(30)
<1> HIDE DEF clamped, limited, scaled
<1>6. e \in 1..(8 * k - 1) /\ e % 8 = 0
      BY <1>2, <1>5
<1>7. d = 16 * e
  <2>1. d = (e - (e % 8)) * (128 \div 8)
        BY DEF Cycles!DecodeWaitCycles, Cycles!ProfileShift, Cycles!ReservedShift
  <2>2. 128 \div 8 = 16
        OBVIOUS
  <2> HIDE DEF e, d
  <2> QED
      BY <1>6, <2>1, <2>2
<1> HIDE DEF e, d
<1>8. delta >= 128 => e # 8
  <2>1. ASSUME delta >= 128 PROVE limited >= 1
        BY <1>3, <2>1 DEF limited
  <2> QED
      BY <1>2, <1>4, <1>5, <2>1
<1>9. delta >= 256 /\ delta <= (k - 1) * 128 + 127 => delta - d \in 0..127
  <2>1. ASSUME delta >= 256, delta <= (k - 1) * 128 + 127
        PROVE  limited = scaled /\ scaled >= 2
        BY <1>3, <2>1 DEF limited
  <2> QED
      BY <1>2, <1>3, <1>4, <1>5, <1>7, <2>1
<1>10. delta >= (k - 1) * 128 => d = (k - 1) * 128
  <2>1. ASSUME delta >= (k - 1) * 128 PROVE limited = k - 1
        BY <1>3, <2>1 DEF limited
  <2> QED
      BY <1>2, <1>4, <1>5, <1>7, <2>1
<1> QED
    BY <1>1, <1>6, <1>8, <1>9, <1>10
       DEF Cycles!RoundTrip, Cycles!ProfileShift, Cycles!ReservedShift,
           Cycles!kSpinLockSleeper, e, d

(* What profiling reads back from the word is the time waited, to a unit,  *)
(* and up to the largest time that fits; and whatever the clocks say the   *)
(* word has wait bits, and no other bits, for the owner to see.            *)
THEOREM WaitTimesRoundTrip == Spec => []RoundTrip
<1> USE ComponentsAssumption
<1> DEFINE Clocked == which = "cycles" => delta \in Int
<1>1. Init => Clocked
      BY DEF Init, Cycles!Init
<1>2. Clocked /\ [Next]_vars => Clocked'
      BY DEF Next, vars, Cycles!Next
<1>3. Clocked => RoundTrip
  <2>1. WordSize = 8 * (WordSize \div 8) /\ WordSize \div 8 \in Nat /\ WordSize \div 8 >= 4
        OBVIOUS
  <2> QED
      BY <2>1, RecordedTime DEF RoundTrip
<1> QED
    BY <1>1, <1>2, <1>3, PTL DEF Spec

-----------------------------------------------------------------------------
ClockLabels == {"idle", "read", "fast", "slow", "update", "store", "unlock"}

ClockTyped ==
  /\ seq \in Nat /\ recorded \in Nat
  /\ last_sample \in [Clock!Fields -> Nat]
  /\ stores \in Seq(Clock!Fields)
  /\ seq_read0 \in [ClockUsers -> Nat]
  /\ got \in [ClockUsers -> Seq(Nat)]
  /\ pc \in [ClockUsers -> ClockLabels]

(* The lock admits one writer, and the word is odd while it stores.        *)
OneWriter ==
  /\ \A t \in ClockUsers : pc[t] \in {"update", "store", "unlock"} => lock = t
  /\ (\E t \in ClockUsers : pc[t] = "store") <=> seq % 2 = 1

Pending == {stores[j] : j \in DOMAIN stores}

(* The fields that have no store to come agree; outside a writer's stores  *)
(* these are all.                                                          *)
FieldsAgree ==
  /\ \A f, g \in Clock!Fields \ Pending : last_sample[f] = last_sample[g]
  /\ stores # <<>> =>
       /\ \A f \in Clock!Fields \ Pending : last_sample[f] = recorded
       /\ seq % 2 = 1

(* A reader that finds the word as it was, and even, has read what the     *)
(* fields still hold.                                                      *)
ReadsAreCurrent ==
  \A t \in ClockUsers :
    /\ pc[t] = "read" => seq_read0[t] <= seq /\ Len(got[t]) <= Len(Clock!ReadOrder)
    /\ pc[t] = "read" /\ seq_read0[t] = seq /\ seq % 2 = 0 =>
         \A k \in 1..Len(got[t]) : got[t][k] = last_sample[Clock!ReadOrder[k]]

ClockIInv ==
  /\ ClockTyped /\ OneWriter /\ FieldsAgree /\ ReadsAreCurrent
  /\ Clock!FastPathUsesOneSample

-----------------------------------------------------------------------------
USE DEF ClockLabels, Clock!Fields, Clock!ReadOrder

(* SeqAcquire and SeqRelease change the parity of the word.                *)
LEMMA Parity == \A n \in Nat : n % 2 \in {0, 1} /\ (n + 1) % 2 = 1 - (n % 2)
OBVIOUS

(* What the four loads of the fast path read.                              *)
LEMMA FourReads == Len(Clock!ReadOrder) = 4 /\ \A k \in 1..4 : Clock!ReadOrder[k] \in Clock!Fields
OBVIOUS

(* A clock that has no sample yet satisfies IInv.                          *)
LEMMA ClockInit == Clock!Init => ClockIInv
BY DEF Clock!Init, ClockIInv, ClockTyped, OneWriter, FieldsAgree, Pending, ReadsAreCurrent,
       Clock!FastPathUsesOneSample

(* What a reader does leaves the sample alone: IInv is kept.               *)
LEMMA ReaderStep ==
  ASSUME ClockIInv, NEW t \in ClockUsers,
         Clock!get_current_time_nanos(t) \/ Clock!Read(t) \/ Clock!Recheck(t) \/ Clock!Return(t)
  PROVE  ClockIInv'
<1>0. ClockTyped /\ OneWriter /\ FieldsAgree /\ ReadsAreCurrent /\ Clock!FastPathUsesOneSample
      BY DEF ClockIInv
<1>1. ASSUME UNCHANGED <<lock, seq, last_sample, recorded, stores>>,
             \A u \in ClockUsers : pc[u] = "store" <=> pc'[u] = "store",
             \A u \in ClockUsers : pc'[u] \in {"update", "store", "unlock"} => pc[u] = pc'[u]
      PROVE  OneWriter' /\ FieldsAgree'
  <2>1. OneWriter' BY <1>0, <1>1 DEF OneWriter
  <2>2. FieldsAgree' BY <1>0, <1>1 DEF FieldsAgree, Pending
  <2> QED BY <2>1, <2>2
<1>2. CASE Clock!get_current_time_nanos(t)
  <2> USE <1>2 DEF Clock!get_current_time_nanos, Clock!Goto
  <2>1. ClockTyped' BY <1>0 DEF ClockTyped
  <2>2. OneWriter' /\ FieldsAgree' BY <1>0, <1>1 DEF ClockTyped
  <2>3. ReadsAreCurrent' BY <1>0, SMTT(30) DEF ClockTyped, ReadsAreCurrent
  <2>4. Clock!FastPathUsesOneSample' BY <1>0 DEF ClockTyped, Clock!FastPathUsesOneSample
  <2> QED BY <2>1, <2>2, <2>3, <2>4 DEF ClockIInv
<1>3. CASE Clock!Read(t)
  <2> USE <1>3 DEF Clock!Read
  <2> DEFINE field == last_sample[Clock!ReadOrder[Len(got[t]) + 1]]
  <2>1. Len(got[t]) \in 0..3 /\ got[t] \in Seq(Nat)
    <3>1. got[t] \in Seq(Nat) BY <1>0 DEF ClockTyped
    <3>2. Len(got[t]) \in Nat /\ Len(got[t]) < 4 BY <3>1, FourReads
    <3>3. \A n \in Nat : n < 4 => n \in 0..3 OBVIOUS
    <3> QED BY <3>1, <3>2, <3>3
  <2>2. field \in Nat
    <3>1. Clock!ReadOrder[Len(got[t]) + 1] \in Clock!Fields BY <2>1, FourReads
    <3> QED BY <1>0, <3>1 DEF ClockTyped
  <2>3. got' = [got EXCEPT ![t] = Append(got[t], field)] OBVIOUS
  <2>4. Append(got[t], field) \in Seq(Nat) BY <2>1, <2>2
  <2>5. ClockTyped' BY <1>0, <2>3, <2>4 DEF ClockTyped
  <2>6. OneWriter' /\ FieldsAgree' BY <1>0, <1>1 DEF ClockTyped
  <2>7. ReadsAreCurrent'
    <3>1. Len(got'[t]) = Len(got[t]) + 1 /\ Len(got'[t]) <= 4
          BY <1>0, <2>1, <2>2, <2>3 DEF ClockTyped
    <3>2. \A k \in 1..Len(got'[t]) :
            got'[t][k] = IF k = Len(got[t]) + 1 THEN field ELSE got[t][k]
          BY <1>0, <2>1, <2>2, <2>3, SMTT(30) DEF ClockTyped
    <3>3. \A u \in ClockUsers \ {t} : got'[u] = got[u] BY <1>0, <2>3 DEF ClockTyped
    <3> HIDE DEF field
    <3>4. ASSUME pc[t] = "read", seq_read0[t] = seq, seq % 2 = 0,
                 NEW k \in 1..Len(got'[t])
          PROVE  got'[t][k] = last_sample[Clock!ReadOrder[k]]
      <4>1. CASE k = Len(got[t]) + 1 BY <3>2, <4>1 DEF field
      <4>2. CASE k # Len(got[t]) + 1
            BY <1>0, <2>1, <3>1, <3>2, <3>4, <4>2, SMTT(30) DEF ReadsAreCurrent
      <4> QED BY <4>1, <4>2
    <3>5. \A u \in ClockUsers : pc[u] = "read" => seq_read0[u] <= seq
          BY <1>0 DEF ReadsAreCurrent
    <3> QED BY <1>0, <3>1, <3>3, <3>4, <3>5 DEF ReadsAreCurrent
  <2>8. Clock!FastPathUsesOneSample'
        BY <1>0, <2>3, SMTT(30)
           DEF ClockTyped, Clock!FastPathUsesOneSample
  <2> QED BY <2>5, <2>6, <2>7, <2>8 DEF ClockIInv
<1>4. CASE Clock!Recheck(t)
  <2> USE <1>4 DEF Clock!Recheck, Clock!Goto
  <2>1. OneWriter' /\ FieldsAgree' BY <1>0, <1>1, SMTT(30) DEF ClockTyped
  <2>2. CASE Clock!Goto(t, "slow") /\ Clock!Forget(t)
    <3>1. ClockTyped' BY <1>0, <2>2 DEF ClockTyped, Clock!Forget
    <3>2. ReadsAreCurrent' BY <1>0, <2>2, SMTT(30) DEF ClockTyped, Clock!Forget, ReadsAreCurrent
    <3>3. Clock!FastPathUsesOneSample' BY <1>0, <2>2 DEF ClockTyped, Clock!Forget,
                                                         Clock!FastPathUsesOneSample
    <3> QED BY <2>1, <3>1, <3>2, <3>3 DEF ClockIInv
  <2>3. CASE Clock!Consistent(t) /\ Clock!Goto(t, "fast") /\ UNCHANGED <<seq_read0, got>>
    <3>1. stores = <<>> BY <1>0, <2>3 DEF Clock!Consistent, FieldsAgree, ClockTyped
    <3>2. \A f, g \in Clock!Fields : last_sample[f] = last_sample[g]
          BY <1>0, <3>1 DEF FieldsAgree, Pending
    <3>3. Len(got[t]) = 4 OBVIOUS
    <3>4. \A k \in 1..4 : got[t][k] = last_sample[Clock!ReadOrder[k]]
          BY <1>0, <2>3, <3>3 DEF Clock!Consistent, ReadsAreCurrent
    <3>5. \A k \in 1..4 : Clock!ReadOrder[k] \in Clock!Fields OBVIOUS
    <3>6. \A k \in 1..4 : got[t][k] = got[t][4] BY <3>2, <3>4, <3>5
    <3>7. DOMAIN got[t] = 1..4 BY <1>0, <3>3 DEF ClockTyped
    <3>8. Clock!FastPathUsesOneSample'
          BY <1>0, <2>3, <3>6, <3>7 DEF ClockTyped, Clock!FastPathUsesOneSample
    <3>9. ClockTyped' BY <1>0, <2>3 DEF ClockTyped
    <3>10. ReadsAreCurrent' BY <1>0, <2>3 DEF ClockTyped, ReadsAreCurrent
    <3> QED BY <2>1, <3>8, <3>9, <3>10 DEF ClockIInv
  <2> QED BY <2>2, <2>3
<1>5. CASE Clock!Return(t)
  <2> USE <1>5 DEF Clock!Return, Clock!Goto, Clock!Forget
  <2>1. ClockTyped' BY <1>0 DEF ClockTyped
  <2>2. OneWriter' /\ FieldsAgree' BY <1>0, <1>1 DEF ClockTyped
  <2>3. ReadsAreCurrent' BY <1>0 DEF ClockTyped, ReadsAreCurrent
  <2>4. Clock!FastPathUsesOneSample' BY <1>0 DEF ClockTyped, Clock!FastPathUsesOneSample
  <2> QED BY <2>1, <2>2, <2>3, <2>4 DEF ClockIInv
<1> QED BY <1>2, <1>3, <1>4, <1>5

(* A writer replaces the sample under the lock and an odd word.            *)
LEMMA WriterStep ==
  ASSUME None \notin ClockUsers, ClockIInv, NEW t \in ClockUsers,
         \/ Clock!LockSlowPath(t) \/ Clock!UpdateLastSample(t) \/ Clock!Store(t)
         \/ Clock!SeqRelease(t) \/ Clock!Unlock(t)
  PROVE  ClockIInv'
<1>0. ClockTyped /\ OneWriter /\ FieldsAgree /\ ReadsAreCurrent /\ Clock!FastPathUsesOneSample
      BY DEF ClockIInv
<1>1. ASSUME UNCHANGED <<last_sample, seq_read0, got>>,
             seq' \in Nat, seq <= seq', seq' = seq \/ seq < seq',
             \A u \in ClockUsers : pc'[u] \in {"read", "fast"} => pc[u] = pc'[u]
      PROVE  ReadsAreCurrent' /\ Clock!FastPathUsesOneSample'
  <2>1. \A u \in ClockUsers : pc'[u] = "read" => seq_read0[u] <= seq'
        BY <1>0, <1>1, SMTT(30) DEF ClockTyped, ReadsAreCurrent
  <2>2. \A u \in ClockUsers : pc'[u] = "read" /\ seq_read0[u] = seq' => seq' = seq
        BY <1>0, <1>1, SMTT(30) DEF ClockTyped, ReadsAreCurrent
  <2>3. ReadsAreCurrent' BY <1>0, <1>1, <2>1, <2>2, ZenonT(30) DEF ReadsAreCurrent
  <2>4. Clock!FastPathUsesOneSample' BY <1>0, <1>1 DEF Clock!FastPathUsesOneSample
  <2> QED BY <2>3, <2>4
<1>2. CASE Clock!LockSlowPath(t)
  <2> USE <1>2 DEF Clock!LockSlowPath, Clock!Goto
  <2>1. ClockTyped' BY <1>0 DEF ClockTyped
  <2>2. OneWriter' BY <1>0 DEF ClockTyped, OneWriter
  <2>3. FieldsAgree' BY <1>0 DEF FieldsAgree, Pending
  <2>4. ReadsAreCurrent' /\ Clock!FastPathUsesOneSample' BY <1>0, <1>1 DEF ClockTyped
  <2> QED BY <2>1, <2>2, <2>3, <2>4 DEF ClockIInv
<1>3. CASE Clock!UpdateLastSample(t)
  <2> USE <1>3 DEF Clock!UpdateLastSample, Clock!Goto
  <2>1. lock = t /\ \A u \in ClockUsers : pc[u] # "store" BY <1>0 DEF OneWriter
  <2>2. seq % 2 = 0 BY <1>0, <2>1, Parity DEF OneWriter, ClockTyped
  <2>3. seq' = seq + 1 /\ seq \in Nat BY <1>0 DEF ClockTyped
  <2>4. seq' % 2 = 1 BY <2>2, <2>3, Parity
  <2>5. stores = <<>> BY <1>0, <2>2 DEF FieldsAgree
  <2>6. ClockTyped'
    <3>1. stores' \in Seq(Clock!Fields)
      <4>1. <<"raw_ns", "base_ns", "base_cycles", "nsscaled_per_cycle",
              "min_cycles_per_sample">> \in Seq(Clock!Fields) OBVIOUS
      <4>2. <<"nsscaled_per_cycle", "min_cycles_per_sample", "raw_ns", "base_ns",
              "base_cycles">> \in Seq(Clock!Fields) OBVIOUS
      <4> QED BY <1>0, <4>1, <4>2 DEF ClockTyped
    <3>2. recorded' \in Nat BY <1>0, SMTT(30) DEF ClockTyped
    <3> QED BY <1>0, <2>3, <3>1, <3>2, SMTT(30) DEF ClockTyped
  <2>7. OneWriter' BY <1>0, <2>1, <2>4 DEF ClockTyped, OneWriter
  <2>8. FieldsAgree'
    <3>1. \/ stores' = <<>>
          \/ /\ DOMAIN stores' = 1..5
             /\ \A f \in Clock!Fields : \E j \in 1..5 : stores'[j] = f
          BY <2>5
    <3>2. stores' = <<>> \/ Clock!Fields \ Pending' = {} BY <3>1 DEF Pending
    <3>3. CASE stores' = <<>> BY <1>0, <2>5, <3>3 DEF FieldsAgree, Pending
    <3>4. CASE Clock!Fields \ Pending' = {} BY <2>4, <3>4 DEF FieldsAgree
    <3> QED BY <3>2, <3>3, <3>4
  <2>9. ReadsAreCurrent' /\ Clock!FastPathUsesOneSample' BY <1>0, <1>1, <2>3 DEF ClockTyped
  <2> QED BY <2>6, <2>7, <2>8, <2>9 DEF ClockIInv
<1>4. CASE Clock!Store(t)
  <2> USE <1>4 DEF Clock!Store
  <2>1. seq % 2 = 1 BY <1>0 DEF FieldsAgree
  <2>2. stores \in Seq(Clock!Fields) /\ stores # <<>> BY <1>0 DEF ClockTyped
  <2>3. Head(stores) \in Clock!Fields /\ Tail(stores) \in Seq(Clock!Fields) BY <2>2
  <2>4. \A f \in Pending : f = Head(stores) \/ f \in Pending'
    <3>1. SUFFICES ASSUME NEW j \in DOMAIN stores, j # 1 PROVE stores[j] \in Pending'
          BY <2>2 DEF Pending
    <3>2. j - 1 \in DOMAIN stores' /\ stores'[j - 1] = stores[j] BY <2>2, <3>1
    <3> QED BY <3>2 DEF Pending
  <2>5. ClockTyped' BY <1>0, <2>3 DEF ClockTyped
  <2>6. OneWriter' BY <1>0 DEF OneWriter
  <2>7. \A f \in Clock!Fields \ Pending' : last_sample'[f] = recorded
        BY <1>0, <2>2, <2>3, <2>4 DEF ClockTyped, FieldsAgree
  <2>8. FieldsAgree' BY <2>1, <2>7 DEF FieldsAgree
  <2>9. ReadsAreCurrent' /\ Clock!FastPathUsesOneSample'
        BY <1>0, <2>1 DEF ReadsAreCurrent, Clock!FastPathUsesOneSample
  <2> QED BY <2>5, <2>6, <2>8, <2>9 DEF ClockIInv
<1>5. CASE Clock!SeqRelease(t)
  <2> USE <1>5 DEF Clock!SeqRelease, Clock!Goto
  <2>1. lock = t /\ seq % 2 = 1 BY <1>0 DEF OneWriter
  <2>2. seq' = seq + 1 /\ seq \in Nat BY <1>0 DEF ClockTyped
  <2>3. seq' % 2 = 0 BY <2>1, <2>2, Parity
  <2>4. ClockTyped' BY <1>0 DEF ClockTyped
  <2>5. OneWriter' BY <1>0, <2>1, <2>3 DEF ClockTyped, OneWriter
  <2>6. FieldsAgree' BY <1>0 DEF FieldsAgree, Pending
  <2>7. ReadsAreCurrent' /\ Clock!FastPathUsesOneSample' BY <1>0, <1>1, <2>2 DEF ClockTyped
  <2> QED BY <2>4, <2>5, <2>6, <2>7 DEF ClockIInv
<1>6. CASE Clock!Unlock(t)
  <2> USE <1>6 DEF Clock!Unlock, Clock!Goto
  <2>1. ClockTyped' BY <1>0 DEF ClockTyped
  <2>2. OneWriter' BY <1>0 DEF ClockTyped, OneWriter
  <2>3. FieldsAgree' BY <1>0 DEF FieldsAgree, Pending
  <2>4. ReadsAreCurrent' /\ Clock!FastPathUsesOneSample' BY <1>0, <1>1 DEF ClockTyped
  <2> QED BY <2>1, <2>2, <2>3, <2>4 DEF ClockIInv
<1> QED BY <1>2, <1>3, <1>4, <1>5, <1>6

(* The lock-free read of the sample is safe: whatever the writers do in    *)
(* the meantime, a time that the fast path returns is computed from the    *)
(* fields of one sample (clock.cc:303-317, 338-360).                       *)
THEOREM FastPathIsConsistent == Spec => []FastPathUsesOneSample
<1> USE ComponentsAssumption
<1> DEFINE Inv == which = "clock" => ClockIInv
<1>1. Init => Inv
      BY ClockInit DEF Init
<1>2. Inv /\ [Next]_vars => Inv'
  <2> SUFFICES ASSUME which = "clock", ClockIInv, [Next]_vars PROVE ClockIInv'
      BY DEF Next, vars
  <2>1. Clock!Next \/ UNCHANGED Clock!vars
        BY DEF Next, vars, clock, Clock!vars
  <2>2. CASE UNCHANGED Clock!vars
        BY <2>2 DEF Clock!vars, ClockIInv, ClockTyped, OneWriter, FieldsAgree, Pending,
                    ReadsAreCurrent, Clock!FastPathUsesOneSample
  <2>3. CASE Clock!Next
        BY <2>2, <2>3, ReaderStep, WriterStep DEF Clock!Next, Clock!Done
  <2> QED
      BY <2>1, <2>2, <2>3
<1>3. Inv => FastPathUsesOneSample
      BY DEF ClockIInv, FastPathUsesOneSample
<1> QED
    BY <1>1, <1>2, <1>3, PTL DEF Spec

-----------------------------------------------------------------------------
(* The skip list of free blocks: the head and the members, and what each   *)
(* level links.                                                            *)
SkipSane ==
  /\ NodeAddresses \subseteq Nat /\ SkipHead \in Nat \ NodeAddresses /\ MaxLevel \in Nat
  /\ SkipNull \in Nat /\ SkipNull # SkipHead /\ \A e \in NodeAddresses : e < SkipNull

SkipNodes == NodeAddresses \cup {SkipHead}

(* The members that level l links, and those behind p.                     *)
On(l) == {q \in members : levels[q] >= l}
Behind(l, p) == {q \in On(l) : p = SkipHead \/ p < q}

(* n is the first of S, or the end.                                        *)
First(n, S) == IF S = {} THEN n = SkipNull ELSE n \in S /\ \A r \in S : n <= r

(* b is the last node of level l before address e.                         *)
Prior(b, l, e) ==
  /\ \A r \in On(l) : r < e => b # SkipHead /\ r <= b
  /\ b # SkipHead => b \in On(l) /\ b < e

SkipTyped ==
  /\ members \subseteq NodeAddresses
  /\ levels \in [SkipNodes -> 0..MaxLevel]
  /\ next \in [Skip!Levels -> [SkipNodes -> NodeAddresses \cup {SkipNull}]]

Heights ==
  /\ levels[SkipHead] \in {0} \cup {levels[p] : p \in members}
  /\ \A p \in members : levels[p] > 0 /\ levels[p] <= levels[SkipHead]

Links ==
  \A l \in Skip!Levels : \A p \in SkipNodes :
    IF p \in On(l) \cup {SkipHead} THEN First(next[l][p], Behind(l, p)) ELSE next[l][p] = SkipNull

SkipIInv == SkipTyped /\ Heights /\ Links

(* The last node before e is there, and is one only.                       *)
LEMMA PriorExists ==
  ASSUME SkipSane, SkipTyped, NEW l, NEW e \in NodeAddresses
  PROVE  /\ \E b : Prior(b, l, e)
         /\ \A b, c : Prior(b, l, e) /\ Prior(c, l, e) => b = c
<1> DEFINE S == {r \in On(l) : r < e}
<1>1. On(l) \subseteq NodeAddresses /\ S \subseteq Nat /\ e \in Nat /\ \A r \in S : r <= e
  <2>1. On(l) \subseteq NodeAddresses /\ NodeAddresses \subseteq Nat
        BY DEF On, SkipSane, SkipTyped
  <2>2. e \in Nat /\ \A r \in S : r \in Nat /\ r < e
        BY <2>1
  <2>3. \A r \in S : r <= e
        BY <2>2
  <2> QED
      BY <2>1, <2>2, <2>3
<1>2. \E b : Prior(b, l, e)
  <2>1. CASE S = {}
    <3>1. Prior(SkipHead, l, e)
          BY <2>1 DEF Prior
    <3> QED
        BY <3>1
  <2>2. CASE S # {}
    <3>1. PICK q \in S : \A r \in S : r <= q
      <4> HIDE DEF S
      <4> QED
          BY <1>1, <2>2, Greatest
    <3>2. q # SkipHead
          BY <1>1 DEF SkipSane
    <3>3. Prior(q, l, e)
          BY <3>1, <3>2 DEF Prior
    <3> QED
        BY <3>3
  <2> QED
      BY <2>1, <2>2
<1>3. ASSUME NEW b, NEW c, Prior(b, l, e), Prior(c, l, e) PROVE b = c
  <2>1. b # SkipHead => b \in Nat /\ c # SkipHead /\ b <= c
        BY <1>1, <1>3 DEF Prior, SkipSane
  <2>2. c # SkipHead => c \in Nat /\ b # SkipHead /\ c <= b
        BY <1>1, <1>3 DEF Prior, SkipSane
  <2> QED
      BY <2>1, <2>2
<1> QED
    BY <1>2, <1>3

(* A walk along one level ends there.                                      *)
LEMMA BeforeIsPrior ==
  ASSUME SkipSane, SkipTyped, Links, NEW l \in Skip!Levels, NEW e \in NodeAddresses,
         NEW p \in On(l) \cup {SkipHead}, p # SkipHead => p < e
  PROVE  Prior(Skip!Before(l, p, e), l, e)
<1> DEFINE Walk == CHOOSE f : f = [q \in NodeAddresses \cup {SkipHead} |->
                                     IF next[l][q] < e THEN f[next[l][q]] ELSE q]
<1>1. Skip!Before(l, p, e) = Walk[p]
      BY DEF Skip!Before
<1>2. PICK b : Prior(b, l, e) /\ \A c : Prior(c, l, e) => c = b
      BY PriorExists
<1>3. /\ e \in Nat /\ On(l) \subseteq NodeAddresses /\ NodeAddresses \subseteq Nat
      /\ SkipHead \notin NodeAddresses
      BY DEF SkipSane, SkipTyped, On
<1>4. \A q \in SkipNodes : next[l][q] \in NodeAddresses \cup {SkipNull}
      BY DEF SkipTyped
<1>5. \A q \in SkipNodes : next[l][q] < e => next[l][q] \in NodeAddresses
      BY <1>3, <1>4 DEF SkipSane
\* The step from q, before e, leads to the next one before e, or q is the last.
<1>6. ASSUME NEW q \in SkipNodes, next[l][q] < e
      PROVE  /\ q \in On(l) \cup {SkipHead} /\ next[l][q] \in Behind(l, q)
             /\ q = SkipHead \/ q < next[l][q]
  <2>1. next[l][q] # SkipNull
        BY <1>3, <1>5, <1>6 DEF SkipSane
  <2>2. q \in On(l) \cup {SkipHead}
        BY <2>1 DEF Links
  <2>3. First(next[l][q], Behind(l, q))
        BY <2>2 DEF Links
  <2>4. next[l][q] \in Behind(l, q)
        BY <2>1, <2>3 DEF First
  <2> QED
      BY <2>2, <2>4 DEF Behind
<1>7. ASSUME NEW q \in On(l) \cup {SkipHead}, q # SkipHead => q < e, ~(next[l][q] < e)
      PROVE  q = b
  <2>1. First(next[l][q], Behind(l, q)) /\ q \in SkipNodes
        BY <1>3 DEF Links, SkipNodes
  <2>2. ASSUME NEW r \in Behind(l, q) PROVE ~(r < e)
    <3>1. next[l][q] \in Behind(l, q) /\ next[l][q] <= r
          BY <2>1 DEF First
    <3>2. Behind(l, q) \subseteq Nat
          BY <1>3 DEF Behind
    <3>3. next[l][q] \in Nat /\ r \in Nat
          BY <3>1, <3>2
    <3> QED
        BY <1>3, <1>7, <3>1, <3>3
  <2>3. ASSUME NEW r \in On(l), r < e PROVE q # SkipHead /\ r <= q
    <3>1. r \notin Behind(l, q)
          BY <2>2, <2>3
    <3>2. q # SkipHead /\ ~(q < r)
          BY <3>1 DEF Behind
    <3>3. q \in Nat /\ r \in Nat
          BY <1>3, <3>2
    <3> QED
        BY <3>2, <3>3
  <2>4. Prior(q, l, e)
        BY <1>7, <2>3 DEF Prior
  <2> QED
      BY <1>2, <2>4
<1> DEFINE f == [q \in NodeAddresses \cup {SkipHead} |->
                   IF q \in On(l) \cup {SkipHead} /\ (q # SkipHead => q < e) THEN b ELSE q]
<1>8. f = [q \in NodeAddresses \cup {SkipHead} |-> IF next[l][q] < e THEN f[next[l][q]] ELSE q]
  <2>1. ASSUME NEW q \in NodeAddresses \cup {SkipHead}
        PROVE  f[q] = IF next[l][q] < e THEN f[next[l][q]] ELSE q
    <3>1. q \in SkipNodes
          BY DEF SkipNodes
    <3>2. CASE next[l][q] < e
      <4>1. /\ q \in On(l) \cup {SkipHead} /\ next[l][q] \in On(l) /\ next[l][q] \in NodeAddresses
            /\ q = SkipHead \/ q < next[l][q]
            BY <1>3, <1>6, <3>1, <3>2 DEF Behind
      <4>2. f[q] = b
        <5>1. q # SkipHead => q < e
          <6>1. q # SkipHead => q \in Nat /\ next[l][q] \in Nat /\ q < next[l][q]
                BY <1>3, <4>1
          <6> QED
              BY <1>3, <3>2, <6>1
        <5> QED
            BY <4>1, <5>1
      <4>3. f[next[l][q]] = b
            BY <3>2, <4>1
      <4> QED
          BY <3>2, <4>2, <4>3
    <3>3. CASE ~(next[l][q] < e)
          BY <1>7, <3>3
    <3> QED
        BY <3>2, <3>3
  <2> HIDE DEF f
  <2>2. f = [q \in NodeAddresses \cup {SkipHead} |-> f[q]]
        BY DEF f
  <2> QED
      BY <2>1, <2>2
<1>9. Walk = [q \in NodeAddresses \cup {SkipHead} |->
                IF next[l][q] < e THEN Walk[next[l][q]] ELSE q]
  <2> HIDE DEF f
  <2> QED
      BY <1>8
<1> HIDE DEF Walk
<1>10. \A q \in SkipNodes : Walk[q] = IF next[l][q] < e THEN Walk[next[l][q]] ELSE q
       BY <1>9 DEF SkipNodes
<1> DEFINE Bad == {q \in On(l) \cup {SkipHead} : (q # SkipHead => q < e) /\ Walk[q] # b}
<1>11. ASSUME NEW q \in Bad
       PROVE  next[l][q] \in Bad \ {SkipHead} /\ (q = SkipHead \/ q < next[l][q])
  <2>1. q \in SkipNodes
        BY <1>3 DEF SkipNodes
  <2>2. next[l][q] < e
        BY <1>7, <1>10, <2>1
  <2>3. Walk[q] = Walk[next[l][q]]
        BY <1>10, <2>1, <2>2
  <2>4. next[l][q] \in On(l) /\ next[l][q] # SkipHead /\ (q = SkipHead \/ q < next[l][q])
        BY <1>3, <1>6, <2>1, <2>2 DEF Behind
  <2> QED
      BY <2>2, <2>3, <2>4
<1>12. Bad = {}
  <2> SUFFICES ASSUME Bad # {} PROVE FALSE
      OBVIOUS
  <2>1. /\ Bad \ {SkipHead} # {} /\ Bad \ {SkipHead} \subseteq Nat
        /\ \A r \in Bad \ {SkipHead} : r <= e
    <3>1. Bad \ {SkipHead} # {}
          BY <1>11
    <3>2. \A r \in Bad \ {SkipHead} : r \in Nat /\ r < e
          BY <1>3
    <3>3. \A r \in Bad \ {SkipHead} : r <= e
          BY <1>3, <3>2
    <3> QED
        BY <3>1, <3>2, <3>3
  <2>2. PICK q \in Bad \ {SkipHead} : \A r \in Bad \ {SkipHead} : r <= q
    <3> HIDE DEF Bad
    <3> QED
        BY <1>3, <2>1, Greatest
  <2>3. next[l][q] \in Bad \ {SkipHead} /\ q < next[l][q]
        BY <1>11, <2>2
  <2>4. next[l][q] <= q /\ q \in Nat /\ next[l][q] \in Nat
        BY <2>1, <2>2, <2>3
  <2> QED
      BY <2>3, <2>4
<1> QED
    BY <1>1, <1>2, <1>12

(* The search from the top level down finds it on each level.              *)
LEMMA SearchFindsPrior ==
  ASSUME SkipSane, SkipIInv, NEW e \in NodeAddresses
  PROVE  \A l \in Skip!Levels : Prior(Skip!LLA_SkiplistSearch(e)[l], l, e)
<1> DEFINE prev == CHOOSE f : f = [l \in 1..MaxLevel + 1 |->
                                 IF l > levels[SkipHead] THEN SkipHead ELSE Skip!Before(l, f[l + 1], e)]
           top == levels[SkipHead]
<1>1. Skip!LLA_SkiplistSearch(e) = [l \in Skip!Levels |-> prev[l]]
      BY DEF Skip!LLA_SkiplistSearch
<1>2. SkipTyped /\ Links /\ Heights /\ top \in 0..MaxLevel /\ MaxLevel \in Nat
      BY DEF SkipIInv, SkipTyped, SkipSane, SkipNodes
<1>3. ASSUME NEW l \in Nat, l > top PROVE Prior(SkipHead, l, e)
  <2>1. On(l) = {}
        BY <1>2, <1>3 DEF On, Heights, SkipTyped, SkipNodes
  <2> QED
      BY <2>1 DEF Prior
<1>4. ASSUME NEW l \in 1..top, NEW b, Prior(b, l + 1, e)
      PROVE  Prior(Skip!Before(l, b, e), l, e)
  <2>1. l \in Skip!Levels
        BY <1>2 DEF Skip!Levels
  <2>2. On(l + 1) \subseteq On(l)
        BY <1>2 DEF On, SkipTyped, SkipNodes
  <2>3. b \in On(l) \cup {SkipHead} /\ (b # SkipHead => b < e)
        BY <1>4, <2>2 DEF Prior
  <2> QED
      BY <1>2, <2>1, <2>3, BeforeIsPrior
<1>5. \A l \in Nat : \E b : Prior(b, l, e)
      BY <1>2, PriorExists
<1>6. \A l, b, c : Prior(b, l, e) /\ Prior(c, l, e) => b = c
      BY <1>2, PriorExists
<1> DEFINE f == [l \in 1..MaxLevel + 1 |-> CHOOSE b : Prior(b, l, e)]
<1>7. \A l \in 1..MaxLevel + 1 : Prior(f[l], l, e)
      BY <1>2, <1>5
<1>8. \A l \in 1..MaxLevel + 1 : f[l] = IF l > top THEN SkipHead ELSE Skip!Before(l, f[l + 1], e)
  <2> HIDE DEF f
  <2> SUFFICES ASSUME NEW l \in 1..MaxLevel + 1
               PROVE  f[l] = IF l > top THEN SkipHead ELSE Skip!Before(l, f[l + 1], e)
      OBVIOUS
  <2>1. CASE l > top
        BY <1>2, <1>3, <1>6, <1>7, <2>1
  <2>2. CASE ~(l > top)
    <3>1. l \in 1..top /\ l + 1 \in 1..MaxLevel + 1
          BY <1>2, <2>2
    <3>2. Prior(Skip!Before(l, f[l + 1], e), l, e)
          BY <1>4, <1>7, <3>1
    <3> QED
        BY <1>6, <1>7, <2>2, <3>2
  <2> QED
      BY <2>1, <2>2
<1>9. f = [l \in 1..MaxLevel + 1 |->
             IF l > levels[SkipHead] THEN SkipHead ELSE Skip!Before(l, f[l + 1], e)]
  <2>1. f = [l \in 1..MaxLevel + 1 |-> f[l]]
        OBVIOUS
  <2> HIDE DEF f
  <2> QED
      BY <1>8, <2>1
<1>10. prev = [l \in 1..MaxLevel + 1 |->
                 IF l > levels[SkipHead] THEN SkipHead ELSE Skip!Before(l, prev[l + 1], e)]
  <2> HIDE DEF f
  <2> QED
      BY <1>9
<1> HIDE DEF prev, f
<1>11. \A l \in 1..MaxLevel + 1 :
         prev[l] = IF l > top THEN SkipHead ELSE Skip!Before(l, prev[l + 1], e)
       BY <1>10
<1> DEFINE T == {k \in 0..MaxLevel : Prior(prev[MaxLevel + 1 - k], MaxLevel + 1 - k, e)}
<1>12. 0 \in T
  <2>1. MaxLevel + 1 \in 1..MaxLevel + 1 /\ MaxLevel + 1 > top /\ MaxLevel + 1 - 0 = MaxLevel + 1
        BY <1>2
  <2>2. Prior(prev[MaxLevel + 1], MaxLevel + 1, e)
        BY <1>2, <1>3, <1>11, <2>1
  <2> QED
      BY <1>2, <2>1, <2>2
<1>13. ASSUME NEW k \in 1..MaxLevel, k - 1 \in T PROVE k \in T
  <2> DEFINE l == MaxLevel + 1 - k
  <2>1. l \in 1..MaxLevel + 1 /\ l + 1 = MaxLevel + 1 - (k - 1) /\ l \in Nat
        BY <1>2
  <2>2. Prior(prev[l + 1], l + 1, e)
        BY <1>13, <2>1
  <2> HIDE DEF l
  <2>3. Prior(prev[l], l, e)
    <3>1. CASE l > top
          BY <1>3, <1>11, <2>1, <3>1
    <3>2. CASE ~(l > top)
      <4>1. l \in 1..top
            BY <1>2, <2>1, <3>2
      <4> QED
          BY <1>4, <1>11, <2>1, <2>2, <3>2, <4>1
    <3> QED
        BY <3>1, <3>2
  <2> QED
      BY <2>3 DEF l
<1>14. \A k \in 0..MaxLevel : k \in T
  <2> HIDE DEF T
  <2> QED
      BY <1>2, <1>12, <1>13, Induction
<1>15. ASSUME NEW l \in Skip!Levels PROVE Prior(prev[l], l, e)
  <2>1. MaxLevel + 1 - l \in 0..MaxLevel /\ MaxLevel + 1 - (MaxLevel + 1 - l) = l
        BY <1>2 DEF Skip!Levels
  <2> QED
      BY <1>14, <2>1
<1> QED
    BY <1>1, <1>15

LEMMA SkipInit == ASSUME SkipSane PROVE Skip!Init => SkipIInv
<1> SUFFICES ASSUME Skip!Init PROVE SkipIInv
    OBVIOUS
<1>1. members = {} /\ \A l : On(l) = {} /\ \A p : Behind(l, p) = {}
      BY DEF Skip!Init, On, Behind
<1>2. SkipTyped
      BY DEF Skip!Init, SkipTyped, SkipSane, SkipNodes
<1>3. Heights
      BY <1>1 DEF Skip!Init, Heights, SkipNodes
<1>4. Links
      BY <1>1 DEF Skip!Init, Links, First, SkipNodes
<1> QED
    BY <1>2, <1>3, <1>4 DEF SkipIInv

(* What the lists of a node's predecessors are.                            *)
LEMMA AroundPrior ==
  ASSUME SkipSane, SkipIInv, NEW l \in Skip!Levels, NEW e \in NodeAddresses, NEW b, Prior(b, l, e)
  PROVE  /\ b \in On(l) \cup {SkipHead} /\ b \in SkipNodes /\ b # e
         /\ First(next[l][b], Behind(l, b))
         /\ \A r \in Behind(l, b) : e <= r
         /\ \A r \in On(l) : r >= e => r \in Behind(l, b)
         /\ \A p \in On(l) \cup {SkipHead} : p = b \/ (p \in On(l) /\ p >= e)
                                         \/ (b \in Behind(l, p) /\ b < e)
<1>1. /\ On(l) \subseteq NodeAddresses /\ NodeAddresses \subseteq Nat
      /\ SkipHead \notin NodeAddresses /\ Links
      BY DEF SkipSane, SkipIInv, SkipTyped, On
<1>2. b \in On(l) \cup {SkipHead} /\ (b # SkipHead => b < e) /\ b \in SkipNodes
      BY <1>1 DEF Prior, SkipNodes
<1>3. First(next[l][b], Behind(l, b))
      BY <1>1, <1>2 DEF Links
<1>4. ASSUME NEW r \in Behind(l, b) PROVE e <= r
  <2>1. r \in On(l) /\ r \in Nat /\ e \in Nat /\ (b = SkipHead \/ b < r)
        BY <1>1 DEF Behind
  <2>2. r < e => b # SkipHead /\ r <= b
        BY <2>1 DEF Prior
  <2>3. b # SkipHead => b \in Nat
        BY <1>1, <1>2
  <2> QED
      BY <2>1, <2>2, <2>3
<1>5. ASSUME NEW r \in On(l), r >= e PROVE r \in Behind(l, b)
  <2>1. r \in Nat /\ e \in Nat /\ (b # SkipHead => b \in Nat /\ b < e)
        BY <1>1, <1>2
  <2> QED
      BY <1>5, <2>1 DEF Behind
<1>6. ASSUME NEW p \in On(l) \cup {SkipHead}
      PROVE  p = b \/ (p \in On(l) /\ p >= e) \/ (b \in Behind(l, p) /\ b < e)
  <2>1. CASE p = SkipHead
        BY <1>2, <2>1 DEF Behind
  <2>2. CASE p # SkipHead
    <3>1. p \in On(l) /\ p \in Nat /\ e \in Nat
          BY <1>1, <2>2
    <3>2. p < e => b # SkipHead /\ p <= b
          BY <3>1 DEF Prior
    <3>3. b # SkipHead => b \in Nat /\ b \in On(l) /\ b < e
          BY <1>1, <1>2
    <3> QED
        BY <3>1, <3>2, <3>3 DEF Behind
  <2> QED
      BY <2>1, <2>2
<1>7. b # e
  <2>1. b # SkipHead => b \in Nat /\ e \in Nat /\ b < e
        BY <1>1, <1>2
  <2> QED
      BY <1>1, <2>1
<1> QED
    BY <1>2, <1>3, <1>4, <1>5, <1>6, <1>7

(* The node goes between two others, at each of its levels.                *)
LEMMA InsertStep ==
  ASSUME SkipSane, SkipIInv, NEW e \in NodeAddresses, NEW n \in Skip!Levels,
         Skip!LLA_SkiplistInsert(e, n)
  PROVE  SkipIInv'
<1> DEFINE prev == Skip!LLA_SkiplistSearch(e)
<1>1. SkipTyped /\ Heights /\ Links /\ MaxLevel \in Nat /\ SkipHead \notin NodeAddresses
      BY DEF SkipIInv, SkipSane
<1>2. \A l \in Skip!Levels : Prior(prev[l], l, e)
      BY SearchFindsPrior
<1>3. /\ e \notin members /\ members' = members \cup {e}
      /\ levels' = [levels EXCEPT ![e] = n, ![SkipHead] = IF @ < n THEN n ELSE @]
      /\ next' = [l \in Skip!Levels |->
                    IF l <= n THEN [next[l] EXCEPT ![e] = next[l][prev[l]], ![prev[l]] = e]
                    ELSE next[l]]
      BY DEF Skip!LLA_SkiplistInsert
<1> HIDE DEF prev
<1>4. /\ levels'[e] = n /\ levels'[SkipHead] = IF levels[SkipHead] < n THEN n ELSE levels[SkipHead]
      /\ \A p \in NodeAddresses \ {e} : levels'[p] = levels[p]
      /\ levels' \in [SkipNodes -> 0..MaxLevel]
  <2>1. /\ levels \in [SkipNodes -> 0..MaxLevel] /\ n \in 0..MaxLevel
        /\ e \in SkipNodes /\ SkipHead \in SkipNodes /\ e # SkipHead
        BY <1>1 DEF SkipTyped, SkipNodes, Skip!Levels
  <2>2. \A p \in NodeAddresses \ {e} : p \in SkipNodes /\ p # SkipHead
        BY <1>1 DEF SkipNodes
  <2> QED
      BY <1>3, <2>1, <2>2
<1>5. \A l \in Skip!Levels : next[l] \in [SkipNodes -> NodeAddresses \cup {SkipNull}]
      BY <1>1 DEF SkipTyped
<1>6. \A l \in Skip!Levels :
        prev[l] \in SkipNodes /\ prev[l] # e /\ next[l][prev[l]] \in NodeAddresses \cup {SkipNull}
      BY <1>2, <1>5, AroundPrior
<1>7. ASSUME NEW l \in Skip!Levels, l <= n
      PROVE  /\ next'[l] \in [SkipNodes -> NodeAddresses \cup {SkipNull}]
             /\ next'[l][e] = next[l][prev[l]] /\ next'[l][prev[l]] = e
             /\ \A p \in SkipNodes \ {e, prev[l]} : next'[l][p] = next[l][p]
  <2>1. next'[l] = [next[l] EXCEPT ![e] = next[l][prev[l]], ![prev[l]] = e] /\ e \in SkipNodes
        BY <1>3, <1>7 DEF SkipNodes
  <2> QED
      BY <1>5, <1>6, <2>1
<1>8. ASSUME NEW l \in Skip!Levels, ~(l <= n) PROVE next'[l] = next[l]
      BY <1>3, <1>8
<1>9. SkipTyped'
  <2>1. next' \in [Skip!Levels -> [SkipNodes -> NodeAddresses \cup {SkipNull}]]
    <3>1. next' = [l \in Skip!Levels |-> next'[l]]
          BY <1>3
    <3> QED
        BY <1>5, <1>7, <1>8, <3>1
  <2> QED
      BY <1>1, <1>3, <1>4, <2>1 DEF SkipTyped
<1>10. Heights'
  <2>1. /\ n \in Nat /\ n > 0 /\ levels[SkipHead] \in Nat /\ \A p \in members : levels[p] \in Nat
        /\ members \subseteq NodeAddresses \ {e}
        BY <1>1, <1>3 DEF SkipTyped, Skip!Levels, SkipNodes
  <2>2. \A p \in members' : levels'[p] > 0 /\ levels'[p] <= levels'[SkipHead]
    <3>1. levels'[e] > 0 /\ levels'[e] <= levels'[SkipHead]
          BY <1>4, <2>1
    <3>2. ASSUME NEW p \in members PROVE levels'[p] > 0 /\ levels'[p] <= levels'[SkipHead]
      <4>1. /\ levels'[p] = levels[p] /\ levels[p] > 0 /\ levels[p] <= levels[SkipHead]
            /\ levels[p] \in Nat
            BY <1>1, <1>4, <2>1 DEF Heights
      <4> QED
          BY <1>4, <2>1, <4>1
    <3> QED
        BY <1>3, <3>1, <3>2
  <2>3. levels'[SkipHead] \in {0} \cup {levels'[p] : p \in members'}
    <3>1. CASE levels[SkipHead] < n
          BY <1>3, <1>4, <3>1
    <3>2. CASE ~(levels[SkipHead] < n)
      <4>1. levels[SkipHead] # 0 /\ levels'[SkipHead] = levels[SkipHead]
            BY <1>4, <2>1, <3>2
      <4>2. PICK p \in members : levels[p] = levels[SkipHead]
            BY <1>1, <4>1 DEF Heights
      <4>3. levels'[p] = levels'[SkipHead] /\ p \in members'
            BY <1>3, <1>4, <2>1, <4>1, <4>2
      <4> QED
          BY <4>3
    <3> QED
        BY <3>1, <3>2
  <2> QED
      BY <2>2, <2>3 DEF Heights
<1>11. \A l : On(l)' = IF n >= l THEN On(l) \cup {e} ELSE On(l)
  <2>1. \A p \in members : levels'[p] = levels[p] /\ p # e
        BY <1>1, <1>3, <1>4 DEF SkipTyped
  <2>2. levels'[e] = n /\ members' = members \cup {e}
        BY <1>3, <1>4
  <2>3. \A l : On(l)' = {q \in members \cup {e} : levels'[q] >= l}
        BY <2>2 DEF On
  <2> QED
      BY <2>1, <2>2, <2>3 DEF On
<1>12. ASSUME NEW l \in Skip!Levels, NEW p \in SkipNodes
       PROVE  IF p \in On(l)' \cup {SkipHead} THEN First(next'[l][p], Behind(l, p)')
              ELSE next'[l][p] = SkipNull
  <2>1. IF p \in On(l) \cup {SkipHead} THEN First(next[l][p], Behind(l, p))
        ELSE next[l][p] = SkipNull
        BY <1>1 DEF Links
  <2>2. Behind(l, p)' = {q \in On(l)' : p = SkipHead \/ p < q}
        BY DEF Behind
  <2>3. CASE ~(l <= n)
    <3>1. On(l)' = On(l)
          BY <1>11, <2>3 DEF Skip!Levels
    <3> QED
        BY <1>8, <2>1, <2>2, <2>3, <3>1 DEF Behind
  <2>4. CASE l <= n
    <3> DEFINE b == prev[l]
    <3>1. On(l)' = On(l) \cup {e}
          BY <1>11, <2>4 DEF Skip!Levels
    <3>2. /\ b \in On(l) \cup {SkipHead} /\ b \in SkipNodes /\ b # e
          /\ First(next[l][b], Behind(l, b))
          /\ \A r \in Behind(l, b) : e <= r
          /\ \A r \in On(l) : r >= e => r \in Behind(l, b)
          /\ p \in On(l) \cup {SkipHead} => p = b \/ (p \in On(l) /\ p >= e)
                                        \/ (b \in Behind(l, p) /\ b < e)
          /\ Prior(b, l, e)
          BY <1>2, AroundPrior
    <3>3. /\ next'[l][e] = next[l][b] /\ next'[l][b] = e
          /\ p # e /\ p # b => next'[l][p] = next[l][p]
          BY <1>7, <2>4
    <3>4. /\ On(l) \subseteq Nat /\ e \in Nat /\ e \notin On(l) /\ e # SkipHead
          /\ Behind(l, p) = {q \in On(l) : p = SkipHead \/ p < q} /\ p \in Nat
          /\ SkipHead \notin On(l)
          BY <1>1, <1>3 DEF On, SkipTyped, SkipSane, Behind, SkipNodes
    <3> HIDE DEF b
    <3>5. CASE p = e
      <4>1. Behind(l, p)' = Behind(l, b)
        <5>1. \A r \in Behind(l, b) : r \in On(l) /\ e < r
              BY <3>2, <3>4 DEF Behind
        <5>2. \A r \in On(l) : e < r => r \in Behind(l, b)
              BY <3>2, <3>4
        <5>3. Behind(l, p)' = {q \in On(l) : e < q}
              BY <2>2, <3>1, <3>4, <3>5
        <5> QED
            BY <5>1, <5>2, <5>3
      <4> QED
          BY <3>1, <3>2, <3>3, <3>5, <4>1
    <3>6. CASE p = b
      <4>1. Behind(l, p)' = Behind(l, b) \cup {e}
        <5>1. p = SkipHead \/ p < e
              BY <3>2, <3>6 DEF Prior
        <5> QED
            BY <2>2, <3>1, <3>4, <3>6, <5>1
      <4>2. First(e, Behind(l, p)')
            BY <3>2, <3>4, <4>1 DEF First
      <4> QED
          BY <3>1, <3>2, <3>3, <3>6, <4>2
    <3>7. CASE p # e /\ p # b /\ p \in On(l) \cup {SkipHead}
      <4>1. CASE p \in On(l) /\ p >= e
        <5>1. Behind(l, p)' = Behind(l, p)
              BY <2>2, <3>1, <3>4, <4>1
        <5> QED
            BY <2>1, <3>1, <3>3, <3>7, <5>1
      <4>2. CASE b \in Behind(l, p) /\ b < e
        <5>1. Behind(l, p)' = Behind(l, p) \cup {e}
          <6>1. b \in Nat /\ (p = SkipHead \/ p < b)
                BY <3>4, <4>2
          <6>2. p = SkipHead \/ p < e
                BY <3>4, <4>2, <6>1
          <6> QED
              BY <2>2, <3>1, <3>4, <6>2
        <5>2. next[l][p] \in Behind(l, p) /\ \A r \in Behind(l, p) : next[l][p] <= r
              BY <2>1, <3>7, <4>2 DEF First
        <5>3. next[l][p] <= e
          <6>1. next[l][p] \in Nat /\ b \in Nat /\ next[l][p] <= b
                BY <3>4, <4>2, <5>2
          <6> QED
              BY <3>4, <4>2, <6>1
        <5>4. First(next[l][p], Behind(l, p)')
              BY <5>1, <5>2, <5>3 DEF First
        <5> QED
            BY <3>1, <3>3, <3>7, <5>4
      <4> QED
          BY <3>2, <3>7, <4>1, <4>2
    <3>8. CASE p # e /\ p # b /\ p \notin On(l) \cup {SkipHead}
          BY <2>1, <3>1, <3>3, <3>8
    <3> QED
        BY <3>5, <3>6, <3>7, <3>8
  <2> QED
      BY <2>3, <2>4
<1>13. Links'
  <2>1. \A l \in Skip!Levels : \A p \in SkipNodes :
          First(next[l][p], Behind(l, p))' <=> First(next'[l][p], Behind(l, p)')
        BY DEF First
  <2> QED
      BY <1>12, <2>1 DEF Links
<1> QED
    BY <1>9, <1>10, <1>13 DEF SkipIInv

(* The node leaves each of its levels, and the head those that are empty.  *)
LEMMA DeleteStep ==
  ASSUME SkipSane, SkipIInv, NEW e \in NodeAddresses, Skip!LLA_SkiplistDelete(e)
  PROVE  SkipIInv'
<1> DEFINE prev == Skip!LLA_SkiplistSearch(e)
           linked == {l \in 1..levels[e] : \A k \in 1..l : next[k][prev[k]] = e}
           used == {l \in 0..levels[SkipHead] : l > 0 => next'[l][SkipHead] # SkipNull}
           top == CHOOSE l \in used : (\A k \in used : k <= l)
<1>1. SkipTyped /\ Heights /\ Links /\ MaxLevel \in Nat /\ SkipHead \notin NodeAddresses
      BY DEF SkipIInv, SkipSane
<1>2. \A l \in Skip!Levels : Prior(prev[l], l, e)
      BY SearchFindsPrior
<1>3. /\ e \in members /\ members' = members \ {e}
      /\ levels' = [levels EXCEPT ![SkipHead] = top, ![e] = 0]
      /\ next' = [l \in Skip!Levels |->
                    IF l \in linked THEN [next[l] EXCEPT ![prev[l]] = next[l][e], ![e] = SkipNull]
                    ELSE next[l]]
      BY DEF Skip!LLA_SkiplistDelete
<1> HIDE DEF prev
<1>4. /\ levels[e] \in 1..MaxLevel /\ levels[SkipHead] \in 0..MaxLevel
      /\ \A p \in members : levels[p] \in 1..levels[SkipHead] /\ p \in NodeAddresses
  <2>1. /\ \A p \in SkipNodes : levels[p] \in 0..MaxLevel
        /\ SkipHead \in SkipNodes /\ \A p \in members : p \in NodeAddresses /\ p \in SkipNodes
        BY <1>1 DEF SkipTyped, SkipNodes
  <2>2. \A p \in members : levels[p] > 0 /\ levels[p] <= levels[SkipHead]
        BY <1>1 DEF Heights
  <2> QED
      BY <1>1, <1>3, <2>1, <2>2
<1>5. ASSUME NEW l \in 1..levels[e] PROVE l \in Skip!Levels /\ next[l][prev[l]] = e /\ e \in On(l)
  <2>1. l \in Skip!Levels /\ e \in On(l)
        BY <1>1, <1>3, <1>4 DEF Skip!Levels, On
  <2>2. /\ First(next[l][prev[l]], Behind(l, prev[l]))
        /\ \A r \in Behind(l, prev[l]) : e <= r /\ r \in Nat
        /\ e \in Behind(l, prev[l]) /\ e \in Nat
    <3>1. e >= e
          BY DEF SkipSane
    <3>2. Behind(l, prev[l]) \subseteq Nat
          BY <1>1 DEF Behind, On, SkipTyped, SkipSane
    <3> QED
        BY <1>2, <2>1, <3>1, <3>2, AroundPrior
  <2>3. /\ next[l][prev[l]] \in Behind(l, prev[l])
        /\ \A r \in Behind(l, prev[l]) : next[l][prev[l]] <= r
        BY <2>2 DEF First
  <2>4. next[l][prev[l]] <= e /\ e <= next[l][prev[l]] /\ next[l][prev[l]] \in Nat /\ e \in Nat
        BY <2>2, <2>3
  <2>5. next[l][prev[l]] = e
        BY <2>4
  <2> QED
      BY <2>1, <2>5
<1>6. linked = 1..levels[e]
  <2>1. ASSUME NEW l \in 1..levels[e], NEW k \in 1..l PROVE next[k][prev[k]] = e
    <3>1. k \in 1..levels[e]
          BY <1>4
    <3> QED
        BY <1>5, <3>1
  <2> QED
      BY <2>1
<1> HIDE DEF linked
<1>7. \A l \in Skip!Levels : l \in linked <=> levels[e] >= l
      BY <1>4, <1>6 DEF Skip!Levels
<1>8. \A l \in Skip!Levels : next[l] \in [SkipNodes -> NodeAddresses \cup {SkipNull}]
      BY <1>1 DEF SkipTyped
<1>9. \A l \in Skip!Levels : prev[l] \in SkipNodes /\ prev[l] # e
      BY <1>2, AroundPrior
<1>10. ASSUME NEW l \in Skip!Levels, l \in linked
       PROVE  /\ next'[l] \in [SkipNodes -> NodeAddresses \cup {SkipNull}]
              /\ next'[l][e] = SkipNull /\ next'[l][prev[l]] = next[l][e]
              /\ \A p \in SkipNodes \ {e, prev[l]} : next'[l][p] = next[l][p]
  <2>1. next'[l] = [next[l] EXCEPT ![prev[l]] = next[l][e], ![e] = SkipNull] /\ e \in SkipNodes
        BY <1>3, <1>10 DEF SkipNodes
  <2> QED
      BY <1>8, <1>9, <2>1
<1>11. ASSUME NEW l \in Skip!Levels, l \notin linked PROVE next'[l] = next[l]
       BY <1>3, <1>11
<1>12. next' \in [Skip!Levels -> [SkipNodes -> NodeAddresses \cup {SkipNull}]]
  <2>1. next' = [l \in Skip!Levels |-> next'[l]]
        BY <1>3
  <2> QED
      BY <1>8, <1>10, <1>11, <2>1
<1>13. \A l : On(l)' = On(l) \ {e}
  <2>1. \A p \in members \ {e} : levels'[p] = levels[p]
    <3>1. \A p \in members : p \in NodeAddresses /\ p # SkipHead
          BY <1>1 DEF SkipTyped
    <3> QED
        BY <1>1, <1>3, <3>1 DEF SkipTyped, SkipNodes
  <2> QED
      BY <1>3, <2>1 DEF On
<1>14. ASSUME NEW l \in Skip!Levels, NEW p \in SkipNodes
       PROVE  IF p \in On(l)' \cup {SkipHead} THEN First(next'[l][p], Behind(l, p)')
              ELSE next'[l][p] = SkipNull
  <2>1. IF p \in On(l) \cup {SkipHead} THEN First(next[l][p], Behind(l, p))
        ELSE next[l][p] = SkipNull
        BY <1>1 DEF Links
  <2>2. Behind(l, p)' = {q \in On(l)' : p = SkipHead \/ p < q}
        BY DEF Behind
  <2>3. CASE l \notin linked
    <3>1. On(l)' = On(l)
          BY <1>1, <1>7, <1>13, <2>3 DEF On
    <3> QED
        BY <1>11, <2>1, <2>2, <2>3, <3>1 DEF Behind
  <2>4. CASE l \in linked
    <3> DEFINE b == prev[l]
    <3>1. On(l)' = On(l) \ {e} /\ e \in On(l) /\ next[l][b] = e
          BY <1>5, <1>6, <1>13, <2>4
    <3>2. /\ b \in On(l) \cup {SkipHead} /\ b \in SkipNodes /\ b # e
          /\ First(next[l][b], Behind(l, b))
          /\ \A r \in Behind(l, b) : e <= r
          /\ \A r \in On(l) : r >= e => r \in Behind(l, b)
          /\ p \in On(l) \cup {SkipHead} => p = b \/ (p \in On(l) /\ p >= e)
                                        \/ (b \in Behind(l, p) /\ b < e)
          /\ Prior(b, l, e)
          BY <1>2, AroundPrior
    <3>3. /\ next'[l][e] = SkipNull /\ next'[l][b] = next[l][e]
          /\ p # e /\ p # b => next'[l][p] = next[l][p]
          BY <1>10, <2>4
    <3>4. /\ On(l) \subseteq Nat /\ e \in Nat /\ e # SkipHead
          /\ Behind(l, p) = {q \in On(l) : p = SkipHead \/ p < q} /\ p \in Nat
          /\ SkipHead \notin On(l)
          BY <1>1, <1>3 DEF On, SkipTyped, SkipSane, Behind, SkipNodes
    <3>5. First(next[l][e], Behind(l, e))
          BY <1>1, <3>1 DEF Links, SkipNodes
    <3> HIDE DEF b
    <3>6. CASE p = e
          BY <3>1, <3>3, <3>4, <3>6
    <3>7. CASE p = b
      <4>1. Behind(l, p)' = Behind(l, e)
        <5>1. \A r \in Behind(l, b) : r \in On(l) /\ e <= r
              BY <3>2 DEF Behind
        <5>2. \A r \in On(l) : e < r => r \in Behind(l, b)
              BY <3>2, <3>4
        <5>3. Behind(l, e) = {q \in On(l) : e < q}
              BY <3>4 DEF Behind
        <5>4. Behind(l, p)' = Behind(l, b) \ {e}
              BY <2>2, <3>1, <3>4, <3>7
        <5>5. \A r \in On(l) : r \in Behind(l, b) \ {e} <=> e < r
              BY <3>4, <5>1, <5>2
        <5> QED
            BY <5>1, <5>3, <5>4, <5>5
      <4> QED
          BY <3>1, <3>2, <3>3, <3>5, <3>7, <4>1
    <3>8. CASE p # e /\ p # b /\ p \in On(l) \cup {SkipHead}
      <4>1. CASE p \in On(l) /\ p >= e
        <5>1. Behind(l, p)' = Behind(l, p)
              BY <2>2, <3>1, <3>4, <4>1
        <5> QED
            BY <2>1, <3>1, <3>3, <3>8, <5>1
      <4>2. CASE b \in Behind(l, p) /\ b < e
        <5>1. Behind(l, p)' = Behind(l, p) \ {e}
              BY <2>2, <3>1, <3>4
        <5>2. next[l][p] \in Behind(l, p) /\ \A r \in Behind(l, p) : next[l][p] <= r
              BY <2>1, <3>8, <4>2 DEF First
        <5>3. next[l][p] # e
          <6>1. next[l][p] \in Nat /\ b \in Nat /\ next[l][p] <= b
                BY <3>4, <4>2, <5>2
          <6> QED
              BY <3>4, <4>2, <6>1
        <5>4. First(next[l][p], Behind(l, p)')
              BY <5>1, <5>2, <5>3 DEF First
        <5> QED
            BY <3>1, <3>3, <3>8, <5>4
      <4> QED
          BY <3>2, <3>8, <4>1, <4>2
    <3>9. CASE p # e /\ p # b /\ p \notin On(l) \cup {SkipHead}
          BY <2>1, <3>1, <3>3, <3>9
    <3> QED
        BY <3>6, <3>7, <3>8, <3>9
  <2> QED
      BY <2>3, <2>4
<1>15. Links'
  <2>1. \A l \in Skip!Levels : \A p \in SkipNodes :
          First(next[l][p], Behind(l, p))' <=> First(next'[l][p], Behind(l, p)')
        BY DEF First
  <2> QED
      BY <1>14, <2>1 DEF Links
<1>16. ASSUME NEW l \in 1..levels[SkipHead]
       PROVE  l \in used <=> \E p \in members' : levels[p] >= l
  <2>1. l \in Skip!Levels /\ l \in 0..levels[SkipHead] /\ l > 0
        BY <1>1, <1>4 DEF Skip!Levels
  <2>2. First(next'[l][SkipHead], Behind(l, SkipHead)')
        BY <1>14, <2>1 DEF SkipNodes
  <2>3. Behind(l, SkipHead)' = On(l) \ {e}
        BY <1>13 DEF Behind
  <2>4. On(l) \ {e} = {p \in members' : levels[p] >= l}
        BY <1>3 DEF On
  <2>5. SkipNull \notin On(l)
    <3>1. SkipNull \in Nat /\ \A q \in NodeAddresses : q \in Nat /\ q < SkipNull
          BY DEF SkipSane
    <3>2. SkipNull \notin NodeAddresses
          BY <3>1
    <3> QED
        BY <1>1, <3>2 DEF On, SkipTyped
  <2> QED
      BY <2>1, <2>2, <2>3, <2>4, <2>5 DEF First
<1>17. top \in used /\ \A k \in used : k <= top
  <2>1. /\ 0 \in used /\ used \subseteq Nat /\ levels[SkipHead] \in Nat
        /\ \A k \in used : k <= levels[SkipHead]
        BY <1>4
  <2>2. \E l \in used : \A k \in used : k <= l
    <3> HIDE DEF used
    <3> QED
        BY <2>1, Greatest
  <2> HIDE DEF used
  <2> QED
      BY <2>2
<1>18. top \in 0..levels[SkipHead] /\ (top # 0 => top \in 1..levels[SkipHead])
       BY <1>4, <1>17
<1> HIDE DEF top
<1>19. /\ levels'[e] = 0 /\ levels'[SkipHead] = top
       /\ \A p \in members' : levels'[p] = levels[p]
       /\ levels' \in [SkipNodes -> 0..MaxLevel]
  <2>1. \A p \in members' : p \in NodeAddresses /\ p # e /\ p # SkipHead
        BY <1>1, <1>3 DEF SkipTyped
  <2>2. /\ levels \in [SkipNodes -> 0..MaxLevel]
        /\ e \in SkipNodes /\ SkipHead \in SkipNodes /\ e # SkipHead
        BY <1>1 DEF SkipTyped, SkipNodes
  <2>3. top \in 0..MaxLevel /\ 0 \in 0..MaxLevel
        BY <1>1, <1>4, <1>18
  <2> QED
      BY <1>3, <2>1, <2>2, <2>3 DEF SkipNodes
<1>20. Heights'
  <2>1. ASSUME NEW p \in members' PROVE levels[p] > 0 /\ levels[p] <= top
    <3>1. levels[p] \in 1..levels[SkipHead] /\ levels[p] >= levels[p]
          BY <1>3, <1>4
    <3>2. levels[p] \in used
          BY <1>16, <3>1
    <3> HIDE DEF used
    <3> QED
        BY <1>17, <3>1, <3>2
  <2>2. top \in {0} \cup {levels[p] : p \in members'}
    <3>1. CASE top = 0
          BY <3>1
    <3>2. CASE top # 0
      <4>1. PICK p \in members' : levels[p] >= top
            BY <1>16, <1>17, <1>18, <3>2
      <4>2. levels[p] \in Nat /\ top \in Nat
            BY <1>3, <1>4, <1>18
      <4>3. levels[p] = top
            BY <2>1, <4>1, <4>2
      <4> QED
          BY <4>3
    <3> QED
        BY <3>1, <3>2
  <2>3. {levels'[p] : p \in members'} = {levels[p] : p \in members'}
        BY <1>19
  <2> QED
      BY <1>19, <2>1, <2>2, <2>3 DEF Heights
<1>21. SkipTyped'
       BY <1>1, <1>3, <1>12, <1>19 DEF SkipTyped
<1> QED
    BY <1>15, <1>20, <1>21 DEF SkipIInv

(* The invariant in the words of the property.                             *)
LEMMA SkipKeeps == ASSUME SkipSane, SkipIInv PROVE Skip!LevelsLinkTheirMembers
<1>1. SkipTyped /\ Heights /\ Links
      BY DEF SkipIInv
<1>2. ASSUME NEW l \in Skip!Levels, NEW p \in members \cup {SkipHead},
             p = SkipHead \/ levels[p] >= l
      PROVE  next[l][p] = IF Behind(l, p) = {} THEN SkipNull
                          ELSE CHOOSE q \in Behind(l, p) : \A r \in Behind(l, p) : q <= r
  <2>1. p \in SkipNodes /\ p \in On(l) \cup {SkipHead}
        BY <1>1, <1>2 DEF SkipTyped, SkipNodes, On
  <2>2. First(next[l][p], Behind(l, p))
        BY <1>1, <2>1 DEF Links
  <2>3. Behind(l, p) \subseteq Nat
        BY <1>1 DEF Behind, On, SkipTyped, SkipSane
  <2>4. CASE Behind(l, p) = {}
        BY <2>2, <2>4 DEF First
  <2>5. CASE Behind(l, p) # {}
    <3>1. next[l][p] \in Behind(l, p) /\ \A r \in Behind(l, p) : next[l][p] <= r
          BY <2>2, <2>5 DEF First
    <3>2. \A q \in Behind(l, p) : (\A r \in Behind(l, p) : q <= r) => q = next[l][p]
          BY <2>3, <3>1
    <3> QED
        BY <2>5, <3>1, <3>2
  <2> QED
      BY <2>4, <2>5
<1>3. \A l, p : Behind(l, p) = {q \in members : levels[q] >= l /\ (p = SkipHead \/ p < q)}
      BY DEF Behind, On
<1>4. ASSUME NEW l \in Skip!Levels, NEW p \in members \cup {SkipHead}
      PROVE  LET after == {q \in members : levels[q] >= l /\ (p = SkipHead \/ p < q)}
             IN  p = SkipHead \/ levels[p] >= l =>
                   next[l][p] = IF after = {} THEN SkipNull
                                ELSE CHOOSE q \in after : \A r \in after : q <= r
  <2>1. {q \in members : levels[q] >= l /\ (p = SkipHead \/ p < q)} = Behind(l, p)
        BY <1>3
  <2> QED
      BY <1>2, <2>1
<1> QED
    BY <1>1, <1>4 DEF Skip!LevelsLinkTheirMembers, Heights

(* After any insertions and deletions each level of the free list links    *)
(* exactly the nodes with that many levels, in address order, for any      *)
(* addresses and any number of levels (low_level_alloc.cc:160-185).        *)
THEOREM FreeListIsLinked == Spec => []LevelsLinkTheirMembers
<1> DEFINE Inv == which = "skip" => SkipIInv
<1>1. SkipSane
      BY ComponentsAssumption DEF SkipSane
<1>2. Init => Inv
      BY <1>1, SkipInit DEF Init
<1>3. Inv /\ [Next]_vars => Inv'
  <2> SUFFICES ASSUME which = "skip", SkipIInv, [Next]_vars PROVE SkipIInv'
      BY DEF Next, vars
  <2>1. Skip!Next \/ UNCHANGED Skip!vars
        BY DEF Next, vars, skip, Skip!vars
  <2>2. CASE UNCHANGED Skip!vars
        BY <2>2 DEF Skip!vars, SkipIInv, SkipTyped, Heights, Links, First, Behind, On
  <2>3. CASE Skip!Next
        BY <1>1, <2>3, InsertStep, DeleteStep DEF Skip!Next
  <2> QED
      BY <2>1, <2>2, <2>3
<1>4. Inv => LevelsLinkTheirMembers
      BY <1>1, SkipKeeps DEF LevelsLinkTheirMembers
<1> QED
    BY <1>2, <1>3, <1>4, PTL DEF Spec

-----------------------------------------------------------------------------
(* The allocator: what is mapped at once is a number of pages, a request   *)
(* is not empty, and "no block" is not an address.                         *)
AllocAssumed ==
  /\ pagesize \in Nat \ {0} /\ Chunk \in Nat \ {0} /\ Chunk % pagesize = 0
  /\ Requests \subseteq Nat \ {0} /\ MaxRandom \in Nat /\ NoBlock \notin Nat /\ MaxAddr \in Nat

(* A unit of memory is in a free block, in one that a client has, or in    *)
(* the pages that a thread has just mapped.                                *)
InFree(f, x) == \E p \in DOMAIN f : p <= x /\ x < p + f[p].size
Taken(g, x) == \E p \in DOMAIN g : p <= x /\ x < p + g[p]
InPages(t, x) ==
  new_pages[t] # NoBlock /\ new_pages[t] <= x /\ x < new_pages[t] + Alloc!new_pages_size(t)

(* Blocks in address order; a free list's do not touch, except while one   *)
(* is inserted.                                                            *)
Ordered(f) ==
  /\ DOMAIN f \subseteq Nat
  /\ \A p \in DOMAIN f : f[p].size \in Nat \ {0}
  /\ \A p, q \in DOMAIN f : p < q => p + f[p].size <= q
Touch(f, p, q) == p + f[p].size = q
Coalesced(f) == Ordered(f) /\ \A p, q \in DOMAIN f : ~Touch(f, p, q)

(* A block has the levels of its size at least.                            *)
Levelled(f) ==
  \A p \in DOMAIN f :
    f[p].levels \in Int /\ Alloc!LLA_SkiplistLevels(f[p].size, 1) <= f[p].levels

LEMMA WithOne ==
  ASSUME NEW f, NEW a, NEW v
  PROVE  /\ DOMAIN Alloc!With(f, a, v) = DOMAIN f \cup {a} /\ Alloc!With(f, a, v)[a] = v
         /\ \A b \in DOMAIN f : b # a => Alloc!With(f, a, v)[b] = f[b]
BY DEF Alloc!With

LEMMA WithoutOne ==
  ASSUME NEW f, NEW a
  PROVE  /\ DOMAIN Alloc!Without(f, a) = DOMAIN f \ {a}
         /\ \A b \in DOMAIN f : b # a => Alloc!Without(f, a)[b] = f[b]
BY DEF Alloc!Without

LEMMA BlockSize ==
  ASSUME NEW n, NEW r
  PROVE  Alloc!Block(n, r).size = n /\ Alloc!Block(n, r).levels = Alloc!LLA_SkiplistLevels(n, r)
BY DEF Alloc!Block

(* The loop of IntLog2: the first of the repeated halves that is at most   *)
(* base.                                                                   *)
Halves(h, n) ==
  /\ h \in [0..Alloc!kMaxLevel -> Nat] /\ h[0] = n
  /\ \A k \in 1..Alloc!kMaxLevel : h[k] = h[k - 1] \div 2
FirstHalf(h, base, k) ==
  /\ k \in 0..Alloc!kMaxLevel /\ (h[k] <= base \/ k = Alloc!kMaxLevel)
  /\ \A j \in 0..k - 1 : h[j] > base

LEMMA IntLog2Halves ==
  ASSUME NEW n \in Nat, NEW base \in Nat
  PROVE  \E h : Halves(h, n) /\ FirstHalf(h, base, Alloc!IntLog2(n, base))
<1> DEFINE halved == CHOOSE g :
             g = [k \in 0..Alloc!kMaxLevel |-> IF k = 0 THEN n ELSE g[k - 1] \div 2]
           step == [k \in 1 .. 30 |-> [v \in Nat |-> v \div 2]]
           log == CHOOSE k \in 0..Alloc!kMaxLevel :
                    /\ halved[k] <= base \/ k = Alloc!kMaxLevel
                    /\ \A j \in 0..k - 1 : halved[j] > base
<1>1. Alloc!IntLog2(n, base) = log
      BY DEF Alloc!IntLog2
<1>2. PICK f : Iterates(f, 30, Nat, n, step)
  <2>1. step \in [1 .. 30 -> [Nat -> Nat]]
        OBVIOUS
  <2> HIDE DEF step
  <2> QED
      BY <2>1, Recursion
<1>3. \A k \in 0 .. 30 : f[k] = IF k = 0 THEN n ELSE f[k - 1] \div 2
  <2>1. \A k \in 0 .. 30 : k # 0 => k \in 1 .. 30 /\ f[k - 1] \in Nat
        BY <1>2 DEF Iterates
  <2> QED
      BY <1>2, <2>1 DEF Iterates
<1>4. f = [k \in 0..Alloc!kMaxLevel |-> IF k = 0 THEN n ELSE f[k - 1] \div 2]
      BY <1>2, <1>3 DEF Iterates, Alloc!kMaxLevel
<1>5. halved = [k \in 0..Alloc!kMaxLevel |-> IF k = 0 THEN n ELSE halved[k - 1] \div 2]
      BY <1>4
<1> HIDE DEF halved
<1>6. \A k \in 0 .. 30 : halved[k] = IF k = 0 THEN n ELSE halved[k - 1] \div 2
      BY <1>5 DEF Alloc!kMaxLevel
<1> DEFINE T == {k \in 0 .. 30 : halved[k] \in Nat}
<1>7. \A k \in 0 .. 30 : halved[k] \in Nat
  <2>1. 0 \in T
        BY <1>6
  <2>2. ASSUME NEW k \in 1 .. 30, k - 1 \in T PROVE k \in T
    <3>1. k \in 0 .. 30 /\ k # 0 /\ halved[k - 1] \in Nat
          BY <2>2
    <3> QED
        BY <1>6, <3>1
  <2>3. \A k \in 0 .. 30 : k \in T
    <3> HIDE DEF T
    <3> QED
        BY <2>1, <2>2, Induction
  <2> QED
      BY <2>3
<1>8. Halves(halved, n)
  <2>1. halved \in [0 .. 30 -> Nat]
        BY <1>5, <1>7 DEF Alloc!kMaxLevel
  <2>2. \A k \in 1 .. 30 : halved[k] = halved[k - 1] \div 2
        BY <1>6
  <2> QED
      BY <1>6, <2>1, <2>2 DEF Halves, Alloc!kMaxLevel
<1> DEFINE U == {k \in 0 .. 30 : halved[k] <= base \/ k = 30}
<1>9. PICK q \in U : \A k \in U : q <= k
  <2>1. U \subseteq Nat /\ 30 \in U
        OBVIOUS
  <2> HIDE DEF U
  <2> QED
      BY <2>1, Least
<1>10. FirstHalf(halved, base, q)
  <2>1. ASSUME NEW j \in 0 .. q - 1 PROVE halved[j] > base
    <3>1. j \in 0 .. 30 /\ j \notin U
          BY <1>9
    <3> QED
        BY <1>7, <3>1
  <2> QED
      BY <1>9, <2>1 DEF FirstHalf, Alloc!kMaxLevel
<1>11. FirstHalf(halved, base, log)
      BY <1>10 DEF FirstHalf
<1> QED
    BY <1>1, <1>8, <1>11

(* It grows with the size.                                                 *)
LEMMA IntLog2Grows ==
  ASSUME NEW n \in Nat, NEW m \in Nat, n <= m, NEW base \in Nat
  PROVE  /\ Alloc!IntLog2(n, base) \in Nat /\ Alloc!IntLog2(m, base) \in Nat
         /\ Alloc!IntLog2(n, base) <= Alloc!IntLog2(m, base)
<1> DEFINE a == Alloc!IntLog2(n, base)
           b == Alloc!IntLog2(m, base)
<1>1. PICK g : Halves(g, n) /\ FirstHalf(g, base, a)
      BY IntLog2Halves
<1>2. PICK h : Halves(h, m) /\ FirstHalf(h, base, b)
      BY IntLog2Halves
<1> HIDE DEF a, b
<1> DEFINE T == {k \in 0 .. 30 : g[k] <= h[k]}
<1>3. \A k \in 0 .. 30 : g[k] \in Nat /\ h[k] \in Nat /\ k \in T
  <2>1. \A k \in 0 .. 30 : g[k] \in Nat /\ h[k] \in Nat
        BY <1>1, <1>2 DEF Halves, Alloc!kMaxLevel
  <2>2. 0 \in T
        BY <1>1, <1>2 DEF Halves
  <2>3. ASSUME NEW k \in 1 .. 30, k - 1 \in T PROVE k \in T
    <3>1. k - 1 \in 0 .. 30 /\ g[k - 1] <= h[k - 1]
          BY <2>3
    <3>2. g[k] = g[k - 1] \div 2 /\ h[k] = h[k - 1] \div 2
          BY <1>1, <1>2 DEF Halves, Alloc!kMaxLevel
    <3> QED
        BY <2>1, <3>1, <3>2
  <2>4. \A k \in 0 .. 30 : k \in T
    <3> HIDE DEF T
    <3> QED
        BY <2>2, <2>3, Induction
  <2> QED
      BY <2>1, <2>4
<1>4. a \in 0 .. 30 /\ b \in 0 .. 30
      BY <1>1, <1>2 DEF FirstHalf, Alloc!kMaxLevel
<1>5. ASSUME b < a PROVE FALSE
  <2>1. b \in 0 .. a - 1 /\ b # 30
        BY <1>4, <1>5
  <2>2. g[b] > base /\ h[b] <= base
        BY <1>1, <1>2, <2>1 DEF FirstHalf, Alloc!kMaxLevel
  <2> QED
      BY <1>3, <1>4, <2>2
<1> QED
    BY <1>4, <1>5 DEF a, b

LEMMA LeastOfThree ==
  ASSUME NEW u \in Int, NEW v \in Int, NEW w \in Int, NEW S, S = {u, v, w}
  PROVE  Alloc!Min(S) \in S /\ \A z \in S : Alloc!Min(S) <= z
<1>1. \E y \in S : \A z \in S : y <= z
  <2>1. CASE u <= v /\ u <= w
        BY <2>1
  <2>2. CASE v <= u /\ v <= w
        BY <2>2
  <2>3. CASE w <= u /\ w <= v
        BY <2>3
  <2> QED
      BY <2>1, <2>2, <2>3
<1> QED
    BY <1>1 DEF Alloc!Min

(* Every block of a size has as many levels as the search for a smaller    *)
(* one looks for, whatever was drawn for it.                               *)
LEMMA LevelsGrow ==
  ASSUME NEW n \in Nat, NEW m \in Nat, n <= m, NEW r \in Nat \ {0}
  PROVE  /\ Alloc!LLA_SkiplistLevels(n, 1) \in Int /\ Alloc!LLA_SkiplistLevels(m, r) \in Int
         /\ Alloc!LLA_SkiplistLevels(n, 1) <= Alloc!LLA_SkiplistLevels(m, r)
<1> DEFINE a == Alloc!IntLog2(n * 32, 64)
           b == Alloc!IntLog2(m * 32, 64)
<1>1. a \in Nat /\ b \in Nat /\ a <= b
      BY IntLog2Grows
<1> HIDE DEF a, b
<1> DEFINE c == (n * 32 - 40) \div 8
           d == (m * 32 - 40) \div 8
           l == Alloc!Min({a + 1, c, 29})
           k == Alloc!Min({b + r, d, 29})
<1>2. Alloc!LLA_SkiplistLevels(n, 1) = l /\ Alloc!LLA_SkiplistLevels(m, r) = k
      BY DEF Alloc!LLA_SkiplistLevels, Alloc!round_up, Alloc!min_size, Alloc!kMaxLevel, a, b
<1>3. c \in Int /\ d \in Int /\ c <= d
      OBVIOUS
<1> HIDE DEF c, d
<1>4. /\ l \in {a + 1, c, 29} /\ l <= a + 1 /\ l <= c /\ l <= 29
      /\ k \in {b + r, d, 29}
  <2> DEFINE P == {a + 1, c, 29}
             Q == {b + r, d, 29}
  <2>1. /\ a + 1 \in Int /\ b + r \in Int /\ 29 \in Int
        /\ P = {a + 1, c, 29} /\ Q = {b + r, d, 29} /\ l = Alloc!Min(P) /\ k = Alloc!Min(Q)
        BY <1>1
  <2> HIDE DEF P, Q, l, k
  <2>2. l \in P /\ \A z \in P : l <= z
        BY <1>3, <2>1, LeastOfThree
  <2>3. k \in Q
        BY <1>3, <2>1, LeastOfThree
  <2> QED
      BY <2>1, <2>2, <2>3
<1> HIDE DEF l, k
<1>5. l \in Int /\ k \in Int /\ l <= k
      BY <1>1, <1>3, <1>4
<1> QED
    BY <1>2, <1>5

LEMMA BlockLevels ==
  ASSUME NEW n \in Nat, NEW r \in Nat \ {0}
  PROVE  /\ Alloc!Block(n, r).levels \in Int
         /\ Alloc!LLA_SkiplistLevels(Alloc!Block(n, r).size, 1) <= Alloc!Block(n, r).levels
BY BlockSize, LevelsGrow

(* Joining a block with its successor keeps the units and the order, and   *)
(* the block touches only what its successor touched.                      *)
LEMMA CoalesceJoins ==
  ASSUME NEW f, NEW a, NEW r \in Nat \ {0}, Ordered(f), a \in DOMAIN f
  PROVE  LET g == Alloc!Coalesce(f, a, r)
             n == a + f[a].size
         IN  /\ Ordered(g) /\ a \in DOMAIN g
             /\ DOMAIN g \subseteq DOMAIN f /\ DOMAIN f \ {n} \subseteq DOMAIN g
             /\ \A x \in Nat : InFree(g, x) <=> InFree(f, x)
             /\ \A p, q \in DOMAIN g : Touch(g, p, q) =>
                  IF p = a THEN n \in DOMAIN f /\ Touch(f, n, q) ELSE Touch(f, p, q)
             /\ Levelled(f) => Levelled(g)
<1> DEFINE g == Alloc!Coalesce(f, a, r)
           n == a + f[a].size
<1>1. a \in Nat /\ f[a].size \in Nat \ {0} /\ n \in Nat /\ a < n
      BY DEF Ordered
<1>2. CASE n \notin DOMAIN f
  <2>1. g = f
        BY <1>2 DEF Alloc!Coalesce
  <2> QED
      BY <1>1, <1>2, <2>1 DEF Touch
<1>3. CASE n \in DOMAIN f
  <2> DEFINE h == Alloc!Without(f, n)
             m == f[n].size
  <2>1. n \in Nat /\ m \in Nat \ {0} /\ n # a
        BY <1>1, <1>3 DEF Ordered
  <2>2. g = Alloc!With(h, a, Alloc!Block(f[a].size + m, r))
        BY <1>3 DEF Alloc!Coalesce
  <2> DEFINE b0 == Alloc!Block(f[a].size + m, r)
  <2>10. DOMAIN h = DOMAIN f \ {n} /\ \A b \in DOMAIN f : b # n => h[b] = f[b]
        BY WithoutOne
  <2>11. /\ b0.size = f[a].size + m
        /\ b0.levels \in Int /\ Alloc!LLA_SkiplistLevels(b0.size, 1) <= b0.levels
    <3>1. f[a].size + m \in Nat
          BY <1>1, <2>1
    <3> QED
        BY <3>1, BlockSize, BlockLevels
  <2>12. g = Alloc!With(h, a, b0)
        BY <2>2
  <2> HIDE DEF g, h, b0
  <2>13. DOMAIN g = DOMAIN h \cup {a} /\ g[a] = b0 /\ \A b \in DOMAIN h : b # a => g[b] = h[b]
        BY <2>12 DEF Alloc!With
  <2>3. DOMAIN g = DOMAIN f \ {n} /\ g[a].size = f[a].size + m
        BY <2>1, <2>10, <2>11, <2>13
  <2>4. \A b \in DOMAIN g : b # a => g[b] = f[b]
        BY <2>1, <2>10, <2>13
  <2>5. a + g[a].size = n + m
        BY <1>1, <2>1, <2>3
  <2> HIDE DEF m
  <2>6. Ordered(g)
    <3>1. \A b \in DOMAIN g : g[b].size \in Nat \ {0}
          BY <1>1, <2>1, <2>3, <2>4 DEF Ordered
    <3>2. ASSUME NEW p \in DOMAIN g, NEW q \in DOMAIN g, p < q PROVE p + g[p].size <= q
      <4>1. p \in Nat /\ q \in Nat /\ p \in DOMAIN f /\ q \in DOMAIN f /\ q # n
            BY <2>3 DEF Ordered
      <4>2. CASE p # a
            BY <2>4, <3>2, <4>1, <4>2 DEF Ordered
      <4>3. CASE p = a
        <5>1. n <= q
              BY <3>2, <4>1, <4>3 DEF Ordered
        <5>2. n + m <= q
              BY <1>3, <2>1, <4>1, <5>1 DEF Ordered, m
        <5> QED
            BY <2>5, <4>3, <5>2
      <4> QED
          BY <4>2, <4>3
    <3> QED
        BY <2>3, <3>1, <3>2 DEF Ordered
  <2>7. ASSUME NEW x \in Nat PROVE InFree(g, x) <=> InFree(f, x)
    <3>1. ASSUME InFree(g, x) PROVE InFree(f, x)
      <4>1. PICK p \in DOMAIN g : p <= x /\ x < p + g[p].size
            BY <3>1 DEF InFree
      <4>2. CASE p # a
            BY <2>3, <2>4, <4>1, <4>2 DEF InFree
      <4>3. CASE p = a
        <5>1. a <= x /\ x < n + m
              BY <2>5, <4>1, <4>3
        <5>2. CASE x < n
              BY <5>1, <5>2 DEF InFree
        <5>3. CASE ~(x < n)
              BY <1>3, <2>1, <5>1, <5>3 DEF InFree, m
        <5> QED
            BY <5>2, <5>3
      <4> QED
          BY <4>2, <4>3
    <3>2. ASSUME InFree(f, x) PROVE InFree(g, x)
      <4>1. PICK p \in DOMAIN f : p <= x /\ x < p + f[p].size
            BY <3>2 DEF InFree
      <4>2. CASE p # a /\ p # n
            BY <2>3, <2>4, <4>1, <4>2 DEF InFree
      <4>3. CASE p = a \/ p = n
        <5>1. a <= x /\ x < n + m
              BY <1>1, <2>1, <4>1, <4>3 DEF m
        <5>2. a \in DOMAIN g
              BY <2>1, <2>3
        <5> QED
            BY <2>5, <5>1, <5>2 DEF InFree
      <4> QED
          BY <4>2, <4>3
    <3> QED
        BY <3>1, <3>2
  <2>8. ASSUME NEW p \in DOMAIN g, NEW q \in DOMAIN g, Touch(g, p, q)
        PROVE  IF p = a THEN n \in DOMAIN f /\ Touch(f, n, q) ELSE Touch(f, p, q)
    <3>1. p = a => n + m = q
          BY <2>5, <2>8 DEF Touch
    <3>2. p # a => Touch(f, p, q)
          BY <2>4, <2>8 DEF Touch
    <3> QED
        BY <1>3, <3>1, <3>2 DEF Touch, m
  <2>9. Levelled(f) => Levelled(g)
        BY <2>3, <2>4, <2>11, <2>13 DEF Levelled
  <2> QED
      BY <2>1, <2>3, <2>6, <2>7, <2>8, <2>9 DEF g
<1> QED
    BY <1>2, <1>3

(* AddToFreelist adds the units of the block, and leaves no two that touch. *)
LEMMA AddToFreelistAdds ==
  ASSUME NEW f, NEW a \in Nat, NEW size_ \in Nat \ {0}, Coalesced(f),
         NEW r, r[1] \in Nat \ {0}, r[2] \in Nat \ {0}, r[3] \in Nat \ {0},
         \A x \in Nat : a <= x /\ x < a + size_ => ~InFree(f, x)
  PROVE  LET g == Alloc!AddToFreelist(f, a, size_, r)
         IN  /\ Coalesced(g)
             /\ \A x \in Nat : InFree(g, x) <=> InFree(f, x) \/ (a <= x /\ x < a + size_)
             /\ Levelled(f) => Levelled(g)
<1> DEFINE g == Alloc!AddToFreelist(f, a, size_, r)
           f1 == Alloc!With(f, a, Alloc!Block(size_, r[1]))
           f2 == Alloc!Coalesce(f1, a, r[2])
           before == {p \in DOMAIN f : p < a}
           m == Alloc!Max(before)
           n == a + size_
<1>1. /\ Ordered(f) /\ DOMAIN f \subseteq Nat
      /\ \A p \in DOMAIN f : p \in Nat /\ f[p].size \in Nat \ {0}
      BY DEF Coalesced, Ordered
<1>2. \A p \in DOMAIN f : p + f[p].size <= a \/ a + size_ <= p
  <2> SUFFICES ASSUME NEW p \in DOMAIN f, ~(p + f[p].size <= a), ~(a + size_ <= p) PROVE FALSE
      OBVIOUS
  <2>1. p \in Nat /\ f[p].size \in Nat \ {0}
        BY <1>1
  <2>2. CASE p <= a
    <3>1. InFree(f, a)
          BY <2>1, <2>2 DEF InFree
    <3> QED
        BY <3>1
  <2>3. CASE ~(p <= a)
    <3>1. InFree(f, p)
          BY <2>1, <2>3 DEF InFree
    <3> QED
        BY <2>1, <2>3, <3>1
  <2> QED
      BY <2>2, <2>3
<1>3. a \notin DOMAIN f /\ n \in Nat /\ a < n
      BY <1>1, <1>2
<1>4. /\ DOMAIN f1 = DOMAIN f \cup {a} /\ f1[a].size = size_
      /\ \A b \in DOMAIN f : f1[b] = f[b]
      /\ Levelled(f) => Levelled(f1)
  <2> DEFINE b0 == Alloc!Block(size_, r[1])
  <2>1. /\ b0.size = size_
        /\ b0.levels \in Int /\ Alloc!LLA_SkiplistLevels(b0.size, 1) <= b0.levels
        BY BlockSize, BlockLevels
  <2>2. f1 = Alloc!With(f, a, b0)
        OBVIOUS
  <2> HIDE DEF f1, b0
  <2>3. DOMAIN f1 = DOMAIN f \cup {a} /\ f1[a] = b0 /\ \A b \in DOMAIN f : b # a => f1[b] = f[b]
        BY <2>2 DEF Alloc!With
  <2>4. Levelled(f) => Levelled(f1)
        BY <1>3, <2>1, <2>3 DEF Levelled
  <2> QED
      BY <1>3, <2>1, <2>3, <2>4
<1> HIDE DEF f1
<1>5. Ordered(f1)
  <2>1. \A p \in DOMAIN f1 : p \in Nat /\ f1[p].size \in Nat \ {0}
        BY <1>1, <1>4
  <2>2. \A p, q \in DOMAIN f1 : p < q => p + f1[p].size <= q
        BY <1>1, <1>2, <1>4 DEF Ordered
  <2> QED
      BY <2>1, <2>2 DEF Ordered
<1>6. \A x \in Nat : InFree(f1, x) <=> InFree(f, x) \/ (a <= x /\ x < n)
      BY <1>4 DEF InFree
<1>7. \A p, q \in DOMAIN f1 : Touch(f1, p, q) => p = a \/ q = a
      BY <1>4 DEF Touch, Coalesced
<1>8. /\ Ordered(f2) /\ a \in DOMAIN f2
      /\ DOMAIN f2 \subseteq DOMAIN f1 /\ DOMAIN f1 \ {n} \subseteq DOMAIN f2
      /\ \A x \in Nat : InFree(f2, x) <=> InFree(f1, x)
      /\ \A p, q \in DOMAIN f2 : Touch(f2, p, q) =>
           IF p = a THEN n \in DOMAIN f1 /\ Touch(f1, n, q) ELSE Touch(f1, p, q)
      /\ Levelled(f1) => Levelled(f2)
  <2>1. a + f1[a].size = n /\ a \in DOMAIN f1
        BY <1>4
  <2> QED
      BY <1>5, <2>1, CoalesceJoins
<1> HIDE DEF f2
<1>9. ASSUME NEW p \in DOMAIN f2, NEW q \in DOMAIN f2, Touch(f2, p, q) PROVE p < a /\ q = a
  <2>1. p \in Nat /\ q \in Nat /\ f2[p].size \in Nat \ {0}
        BY <1>8 DEF Ordered
  <2>2. p # a
    <3> SUFFICES ASSUME p = a PROVE FALSE
        OBVIOUS
    <3>1. n \in DOMAIN f1 /\ Touch(f1, n, q) /\ q \in DOMAIN f1
          BY <1>8, <1>9
    <3>2. q = a
          BY <1>3, <1>7, <3>1
    <3>3. f1[n].size \in Nat
          BY <1>5, <3>1 DEF Ordered
    <3> QED
        BY <1>3, <3>1, <3>2, <3>3 DEF Touch
  <2>3. Touch(f1, p, q) /\ p \in DOMAIN f1 /\ q \in DOMAIN f1
        BY <1>8, <1>9, <2>2
  <2>4. q = a
        BY <1>7, <2>2, <2>3
  <2> QED
      BY <1>9, <2>1, <2>4 DEF Touch
<1>10. CASE before = {}
  <2>1. g = f2
        BY <1>10 DEF Alloc!AddToFreelist, f1, f2
  <2>2. \A p \in DOMAIN f2 : ~(p < a)
        BY <1>4, <1>8, <1>10
  <2>3. Coalesced(f2)
        BY <1>8, <1>9, <2>2 DEF Coalesced
  <2> QED
      BY <1>4, <1>6, <1>8, <2>1, <2>3
<1>11. CASE before # {}
  <2>1. g = Alloc!Coalesce(f2, m, r[3])
        BY <1>11 DEF Alloc!AddToFreelist, f1, f2
  <2>2. m \in before /\ \A p \in before : p <= m
    <3>1. before \subseteq Nat /\ \A p \in before : p <= a
          BY <1>1
    <3>2. \E q \in before : \A p \in before : p <= q
      <4> HIDE DEF before
      <4> QED
          BY <1>11, <3>1, Greatest
    <3> HIDE DEF before
    <3>3. \E q \in before : \A p \in before : q >= p
          BY <3>1, <3>2
    <3>4. m \in before /\ \A p \in before : m >= p
          BY <3>3 DEF Alloc!Max
    <3> QED
        BY <3>1, <3>4
  <2>3. m \in DOMAIN f /\ m < a /\ m \in Nat
        BY <1>1, <2>2
  <2>4. \A p \in DOMAIN f2 : p < a => p <= m
        BY <1>4, <1>8, <2>2
  <2> HIDE DEF m, before
  <2>5. m \in DOMAIN f2
        BY <1>3, <1>4, <1>8, <2>3
  <2>6. /\ Ordered(g)
        /\ \A x \in Nat : InFree(g, x) <=> InFree(f2, x)
        /\ DOMAIN g \subseteq DOMAIN f2
        /\ \A p, q \in DOMAIN g : Touch(g, p, q) =>
             IF p = m THEN m + f2[m].size \in DOMAIN f2 /\ Touch(f2, m + f2[m].size, q)
             ELSE Touch(f2, p, q)
        /\ Levelled(f2) => Levelled(g)
        BY <1>8, <2>1, <2>5, CoalesceJoins
  <2>7. \A p, q \in DOMAIN g : ~Touch(g, p, q)
    <3> SUFFICES ASSUME NEW p \in DOMAIN g, NEW q \in DOMAIN g, Touch(g, p, q) PROVE FALSE
        OBVIOUS
    <3>1. p \in DOMAIN f2 /\ q \in DOMAIN f2 /\ p \in Nat
          BY <1>8, <2>6 DEF Ordered
    <3>2. CASE p = m
      <4>1. m + f2[m].size \in DOMAIN f2 /\ Touch(f2, m + f2[m].size, q)
            BY <2>6, <3>2
      <4>2. m + f2[m].size < a
            BY <1>9, <3>1, <4>1
      <4>3. m + f2[m].size <= m
            BY <2>4, <4>1, <4>2
      <4>4. f2[m].size \in Nat \ {0}
            BY <1>8, <2>5 DEF Ordered
      <4> QED
          BY <2>3, <4>3, <4>4
    <3>3. CASE p # m
      <4>1. Touch(f2, p, q)
            BY <2>6, <3>3
      <4>2. p < a /\ q = a
            BY <1>9, <3>1, <4>1
      <4>3. p < m
            BY <2>3, <2>4, <3>1, <3>3, <4>2
      <4>4. p + f2[p].size <= m
            BY <1>8, <2>5, <3>1, <4>3 DEF Ordered
      <4> QED
          BY <2>3, <4>1, <4>2, <4>4 DEF Touch
    <3> QED
        BY <3>2, <3>3
  <2> QED
      BY <1>4, <1>6, <1>8, <2>6, <2>7 DEF Coalesced
<1> QED
    BY <1>10, <1>11


(* The block that the search finds is big enough.                          *)
LEMMA FirstFitFits ==
  ASSUME AllocAssumed, NEW f, DOMAIN f \subseteq Nat, NEW n \in Nat
  PROVE  LET s == Alloc!FirstFit(f, n)
         IN  IF s # NoBlock THEN s \in DOMAIN f /\ n <= f[s].size
             ELSE \A p \in DOMAIN f :
                    ~(f[p].levels >= Alloc!LLA_SkiplistLevels(n, 1) /\ f[p].size >= n)
<1> DEFINE fits == {p \in DOMAIN f : /\ f[p].levels >= Alloc!LLA_SkiplistLevels(n, 1)
                                     /\ f[p].size >= n}
           s == Alloc!FirstFit(f, n)
<1>1. s = IF fits = {} THEN NoBlock ELSE Alloc!Min(fits)
      BY DEF Alloc!FirstFit
<1>2. fits \subseteq Nat /\ \A p \in fits : p \in DOMAIN f /\ f[p].size >= n
      OBVIOUS
<1>3. ASSUME fits # {} PROVE Alloc!Min(fits) \in fits
  <2> HIDE DEF fits
  <2>1. \E q \in fits : \A p \in fits : q <= p
        BY <1>2, <1>3, Least
  <2> QED
      BY <2>1 DEF Alloc!Min
<1>4. s # NoBlock => s \in fits
  <2> HIDE DEF fits, s
  <2> QED
      BY <1>1, <1>3
<1>5. s = NoBlock => fits = {}
  <2> HIDE DEF fits, s
  <2> QED
      BY <1>1, <1>2, <1>3 DEF AllocAssumed
<1>6. s # NoBlock => s \in DOMAIN f /\ n <= f[s].size
  <2>1. \A p \in fits : p \in DOMAIN f /\ n <= f[p].size
        OBVIOUS
  <2> HIDE DEF fits, s
  <2> QED
      BY <1>4, <2>1
<1>7. s = NoBlock => \A p \in DOMAIN f :
                       ~(f[p].levels >= Alloc!LLA_SkiplistLevels(n, 1) /\ f[p].size >= n)
      BY <1>5
<1> HIDE DEF s
<1> QED
    BY <1>6, <1>7 DEF s

(* Taking a block gives up the units that are allocated, and no others.    *)
LEMMA TakeGives ==
  ASSUME NEW f, Coalesced(f), Levelled(f), NEW s \in DOMAIN f, NEW n \in Nat \ {0}, n <= f[s].size,
         NEW r, r[1] \in Nat \ {0}, r[2] \in Nat \ {0}, r[3] \in Nat \ {0}
  PROVE  LET g == Alloc!Take(f, s, n, r)
             k == IF Alloc!Splits(f, s, n) THEN n ELSE f[s].size
         IN  /\ Coalesced(g) /\ Levelled(g) /\ k \in Nat \ {0}
             /\ \A x \in Nat : s <= x /\ x < s + k => InFree(f, x) /\ ~InFree(g, x)
             /\ \A x \in Nat : ~(s <= x /\ x < s + k) => (InFree(g, x) <=> InFree(f, x))
<1> DEFINE g == Alloc!Take(f, s, n, r)
           h == Alloc!Without(f, s)
           m == f[s].size
<1>1. s \in Nat /\ m \in Nat \ {0} /\ n <= m
      BY DEF Coalesced, Ordered
<1>2. DOMAIN h = DOMAIN f \ {s} /\ \A b \in DOMAIN h : h[b] = f[b]
      BY DEF Alloc!Without
<1> HIDE DEF h
<1>3. Coalesced(h) /\ Levelled(h)
      BY <1>2 DEF Coalesced, Ordered, Touch, Levelled
<1>4. ASSUME NEW x \in Nat PROVE InFree(h, x) <=> InFree(f, x) /\ ~(s <= x /\ x < s + m)
  <2>1. ASSUME InFree(h, x) PROVE InFree(f, x) /\ ~(s <= x /\ x < s + m)
    <3>1. PICK p \in DOMAIN h : p <= x /\ x < p + h[p].size
          BY <2>1 DEF InFree
    <3>2. p \in DOMAIN f /\ p # s /\ p \in Nat /\ h[p] = f[p] /\ f[p].size \in Nat
          BY <1>2 DEF Coalesced, Ordered
    <3>3. p < s => p + f[p].size <= s
          BY <3>2 DEF Coalesced, Ordered
    <3>4. s < p => s + m <= p
          BY <3>2 DEF Coalesced, Ordered
    <3>5. InFree(f, x)
          BY <3>1, <3>2 DEF InFree
    <3> HIDE DEF m
    <3> QED
        BY <1>1, <3>1, <3>2, <3>3, <3>4, <3>5
  <2>2. ASSUME InFree(f, x), ~(s <= x /\ x < s + m) PROVE InFree(h, x)
    <3>1. PICK p \in DOMAIN f : p <= x /\ x < p + f[p].size
          BY <2>2 DEF InFree
    <3> QED
        BY <1>2, <2>2, <3>1 DEF InFree
  <2> QED
      BY <2>1, <2>2
<1>5. \A x \in Nat : s <= x /\ x < s + m => InFree(f, x)
      BY DEF InFree
<1>6. CASE ~Alloc!Splits(f, s, n)
  <2>1. g = h
        BY <1>6 DEF Alloc!Take, h
  <2> QED
      BY <1>1, <1>3, <1>4, <1>5, <1>6, <2>1
<1>7. CASE Alloc!Splits(f, s, n)
  <2> DEFINE a == s + n
             l == m - n
  <2>1. n + 2 <= m
        BY <1>7 DEF Alloc!Splits, Alloc!min_size
  <2>2. g = Alloc!AddToFreelist(h, a, l, r)
        BY <1>7 DEF Alloc!Take, h
  <2> HIDE DEF m, g
  <2>3. a \in Nat /\ l \in Nat \ {0} /\ a + l = s + m /\ a = s + n
        BY <1>1, <2>1
  <2> HIDE DEF a, l
  <2>4. \A x \in Nat : a <= x /\ x < a + l => ~InFree(h, x)
        BY <1>1, <1>4, <2>3
  <2>5. /\ Coalesced(g) /\ Levelled(g)
        /\ \A x \in Nat : InFree(g, x) <=> InFree(h, x) \/ (a <= x /\ x < a + l)
        BY <1>3, <2>2, <2>3, <2>4, AddToFreelistAdds
  <2>6. ASSUME NEW x \in Nat, s <= x, x < s + n PROVE InFree(f, x) /\ ~InFree(g, x)
        BY <1>1, <1>4, <1>5, <2>1, <2>3, <2>5, <2>6
  <2>7. ASSUME NEW x \in Nat, ~(s <= x /\ x < s + n) PROVE InFree(g, x) <=> InFree(f, x)
        BY <1>1, <1>4, <1>5, <2>1, <2>3, <2>5, <2>7
  <2> QED
      BY <1>7, <2>5, <2>6, <2>7 DEF g
<1> QED
    BY <1>6, <1>7

-----------------------------------------------------------------------------
(* No unit is in two blocks.                                               *)
Allotted(g) ==
  /\ DOMAIN g \subseteq Nat
  /\ \A p \in DOMAIN g : g[p] \in Nat \ {0}
  /\ \A p, q \in DOMAIN g : p < q => p + g[p] <= q
Parted(f, g) ==
  /\ Coalesced(f) /\ Levelled(f) /\ Allotted(g)
  /\ \A x \in Nat : ~(InFree(f, x) /\ Taken(g, x))

LEMMA AllotOne ==
  ASSUME NEW g, Allotted(g), NEW s \in Nat, NEW k \in Nat \ {0},
         \A x \in Nat : s <= x /\ x < s + k => ~Taken(g, x)
  PROVE  LET h == Alloc!With(g, s, k)
         IN  /\ Allotted(h)
             /\ \A x \in Nat : Taken(h, x) <=> Taken(g, x) \/ (s <= x /\ x < s + k)
<1> DEFINE h == Alloc!With(g, s, k)
<1>1. \A p \in DOMAIN g : p \in Nat /\ g[p] \in Nat \ {0}
      BY DEF Allotted
<1>2. \A p \in DOMAIN g : p + g[p] <= s \/ s + k <= p
  <2> SUFFICES ASSUME NEW p \in DOMAIN g, ~(p + g[p] <= s), ~(s + k <= p) PROVE FALSE
      OBVIOUS
  <2>1. p \in Nat /\ g[p] \in Nat \ {0}
        BY <1>1
  <2>2. CASE p <= s
    <3>1. Taken(g, s)
          BY <2>1, <2>2 DEF Taken
    <3> QED
        BY <3>1
  <2>3. CASE ~(p <= s)
    <3>1. Taken(g, p)
          BY <2>1, <2>3 DEF Taken
    <3> QED
        BY <2>1, <2>3, <3>1
  <2> QED
      BY <2>2, <2>3
<1>3. s \notin DOMAIN g
      BY <1>1, <1>2
<1>4. DOMAIN h = DOMAIN g \cup {s} /\ h[s] = k /\ \A b \in DOMAIN g : h[b] = g[b]
      BY <1>3 DEF Alloc!With
<1> HIDE DEF h
<1>5. Allotted(h)
  <2>1. \A p \in DOMAIN h : p \in Nat /\ h[p] \in Nat \ {0}
        BY <1>1, <1>4
  <2>2. \A p, q \in DOMAIN h : p < q => p + h[p] <= q
        BY <1>1, <1>2, <1>4 DEF Allotted
  <2> QED
      BY <2>1, <2>2 DEF Allotted
<1>6. \A x \in Nat : Taken(h, x) <=> Taken(g, x) \/ (s <= x /\ x < s + k)
      BY <1>4 DEF Taken
<1> QED
    BY <1>5, <1>6 DEF h

LEMMA GiveBackOne ==
  ASSUME NEW g, Allotted(g), NEW s \in DOMAIN g
  PROVE  LET h == Alloc!Without(g, s)
         IN  /\ Allotted(h)
             /\ \A x \in Nat : s <= x /\ x < s + g[s] => Taken(g, x) /\ ~Taken(h, x)
             /\ \A x \in Nat : ~(s <= x /\ x < s + g[s]) => (Taken(h, x) <=> Taken(g, x))
<1> DEFINE h == Alloc!Without(g, s)
<1>1. DOMAIN h = DOMAIN g \ {s} /\ \A b \in DOMAIN h : h[b] = g[b]
      BY DEF Alloc!Without
<1> HIDE DEF h
<1>2. Allotted(h)
      BY <1>1 DEF Allotted
<1>3. ASSUME NEW x \in Nat, s <= x, x < s + g[s] PROVE Taken(g, x) /\ ~Taken(h, x)
  <2>1. Taken(g, x)
        BY <1>3 DEF Taken
  <2>2. ASSUME NEW p \in DOMAIN h, p <= x, x < p + h[p] PROVE FALSE
    <3>1. /\ p \in DOMAIN g /\ p # s /\ p \in Nat /\ s \in Nat
          /\ h[p] = g[p] /\ g[p] \in Nat /\ g[s] \in Nat
          BY <1>1 DEF Allotted
    <3>2. (p < s => p + g[p] <= s) /\ (s < p => s + g[s] <= p)
          BY <3>1 DEF Allotted
    <3> QED
        BY <1>3, <2>2, <3>1, <3>2
  <2> QED
      BY <2>1, <2>2 DEF Taken
<1>4. ASSUME NEW x \in Nat, ~(s <= x /\ x < s + g[s]) PROVE Taken(h, x) <=> Taken(g, x)
      BY <1>1, <1>4 DEF Taken
<1> QED
    BY <1>2, <1>3, <1>4 DEF h

(* A search that finds a block moves units from the free list to a client, *)
(* and one that does not moves none.                                       *)
LEMMA AllocateMoves ==
  ASSUME AllocAssumed, NEW t, NEW f, NEW n \in Nat \ {0}, Parted(f, allocated),
         Alloc!Allocate(t, f, n)
  PROVE  /\ Parted(free', allocated')
         /\ \A x \in Nat : InFree(free', x) \/ Taken(allocated', x)
                             <=> InFree(f, x) \/ Taken(allocated, x)
         /\ \/ pc' = [pc EXCEPT ![t] = "idle"] /\ request' = [request EXCEPT ![t] = 0]
            \/ pc' = [pc EXCEPT ![t] = "mmap"] /\ request' = [request EXCEPT ![t] = n]
<1> DEFINE s == Alloc!FirstFit(f, n)
<1>1. CASE s = NoBlock
  <2>1. /\ free' = f /\ allocated' = allocated
        /\ pc' = [pc EXCEPT ![t] = "mmap"] /\ request' = [request EXCEPT ![t] = n]
        BY <1>1 DEF Alloc!Allocate
  <2> QED
      BY <2>1
<1>2. CASE s # NoBlock
  <2> DEFINE k == IF Alloc!Splits(f, s, n) THEN n ELSE f[s].size
  <2>1. PICK r \in Alloc!Random : free' = Alloc!Take(f, s, n, r)
        BY <1>2 DEF Alloc!Allocate
  <2>2. /\ allocated' = Alloc!With(allocated, s, k)
        /\ pc' = [pc EXCEPT ![t] = "idle"] /\ request' = [request EXCEPT ![t] = 0]
        BY <1>2 DEF Alloc!Allocate
  <2>3. Coalesced(f) /\ Levelled(f) /\ Allotted(allocated) /\ DOMAIN f \subseteq Nat
        BY DEF Parted, Coalesced, Ordered
  <2>4. s \in DOMAIN f /\ n <= f[s].size /\ s \in Nat
        BY <1>2, <2>3, FirstFitFits
  <2>5. r[1] \in Nat \ {0} /\ r[2] \in Nat \ {0} /\ r[3] \in Nat \ {0}
        BY DEF Alloc!Random, AllocAssumed
  <2>6. /\ Coalesced(free') /\ Levelled(free') /\ k \in Nat \ {0}
        /\ \A x \in Nat : s <= x /\ x < s + k => InFree(f, x) /\ ~InFree(free', x)
        /\ \A x \in Nat : ~(s <= x /\ x < s + k) => (InFree(free', x) <=> InFree(f, x))
    <3> HIDE DEF s
    <3> QED
        BY <2>1, <2>3, <2>4, <2>5, TakeGives
  <2> HIDE DEF s, k
  <2>7. \A x \in Nat : s <= x /\ x < s + k => ~Taken(allocated, x)
        BY <2>6 DEF Parted
  <2>8. /\ Allotted(allocated')
        /\ \A x \in Nat : Taken(allocated', x) <=> Taken(allocated, x) \/ (s <= x /\ x < s + k)
        BY <2>2, <2>3, <2>4, <2>6, <2>7, AllotOne
  <2>9. ASSUME NEW x \in Nat
        PROVE  /\ ~(InFree(free', x) /\ Taken(allocated', x))
               /\ InFree(free', x) \/ Taken(allocated', x) <=> InFree(f, x) \/ Taken(allocated, x)
        BY <2>6, <2>7, <2>8 DEF Parted
  <2> QED
      BY <2>2, <2>6, <2>8, <2>9 DEF Parted
<1> QED
    BY <1>1, <1>2

-----------------------------------------------------------------------------
(* A number of whole pages after or before another.                        *)
LEMMA PagesAdd ==
  ASSUME AllocAssumed, NEW k \in Nat, k % pagesize = 0, NEW j \in Nat
  PROVE  j % pagesize = 0 <=> (k + j) % pagesize = 0
<1> DEFINE d == pagesize
<1>1. d \in Nat /\ d > 0 /\ k % d = 0
      BY DEF AllocAssumed
<1> HIDE DEF d
<1> DEFINE a == k \div d
<1>2. a \in Nat /\ k = a * d
      BY <1>1
<1> HIDE DEF a
<1>3. \A c \in Nat : (c * d) % d = 0
      BY <1>1
<1>4. \A b, c, e \in Nat : b * e + c * e = (b + c) * e
      OBVIOUS
<1>5. ASSUME j % d = 0 PROVE (k + j) % d = 0
  <2> DEFINE b == j \div d
  <2>1. b \in Nat /\ j = b * d
        BY <1>1, <1>5
  <2> HIDE DEF b
  <2>2. k + j = (a + b) * d /\ a + b \in Nat
        BY <1>1, <1>2, <1>4, <2>1
  <2> QED
      BY <1>3, <2>2
<1>6. ASSUME (k + j) % d = 0 PROVE j % d = 0
  <2> DEFINE b == (k + j) \div d
  <2>1. b \in Nat /\ k + j = b * d
        BY <1>1, <1>6
  <2> HIDE DEF b
  <2>2. a <= b
    <3>1. b < a => b * d + d <= a * d
          BY <1>1, <1>2, <2>1
    <3> QED
        BY <1>1, <1>2, <2>1, <3>1
  <2> DEFINE c == b - a
  <2>3. c \in Nat /\ a + c = b
        BY <1>2, <2>1, <2>2
  <2> HIDE DEF c
  <2>4. a * d + c * d = b * d /\ c * d \in Nat
        BY <1>1, <1>2, <1>4, <2>3
  <2>5. j = c * d
        BY <1>2, <2>1, <2>4
  <2> QED
      BY <1>3, <2>3, <2>5
<1> QED
    BY <1>5, <1>6 DEF d

(* What threads map is made of whole pages, and is big enough.             *)
LEMMA WholePages ==
  ASSUME AllocAssumed, NEW t, request[t] \in Nat
  PROVE  LET n == Alloc!new_pages_size(t)
         IN  n \in Nat /\ n % pagesize = 0 /\ request[t] <= n
<1> DEFINE k == (request[t] + Chunk - 1) \div Chunk
           c == Chunk \div pagesize
           n == k * Chunk
<1>1. /\ pagesize \in Nat /\ pagesize > 0 /\ Chunk \in Nat /\ Chunk > 0 /\ Chunk % pagesize = 0
      BY DEF AllocAssumed
<1>2. k \in Nat /\ request[t] + Chunk - 1 < k * Chunk + Chunk
      BY <1>1
<1>3. c \in Nat /\ Chunk = c * pagesize
      BY <1>1
<1>4. Alloc!new_pages_size(t) = n
      BY DEF Alloc!new_pages_size
<1> HIDE DEF k, c
<1>5. n \in Nat /\ request[t] <= n
      BY <1>1, <1>2
<1>6. n = (k * c) * pagesize /\ k * c \in Nat
  <2>1. \A a, b, d \in Nat : a * (b * d) = (a * b) * d /\ a * b \in Nat
        OBVIOUS
  <2> QED
      BY <1>1, <1>2, <1>3, <2>1
<1>7. \A j \in Nat : (j * pagesize) % pagesize = 0
      BY <1>1
<1>8. n % pagesize = 0
      BY <1>6, <1>7
<1> QED
    BY <1>4, <1>5, <1>8

SamePage(x, y) == x \div pagesize = y \div pagesize

LEMMA PageBounds ==
  ASSUME AllocAssumed, NEW e \in Nat, e % pagesize = 0, NEW x \in Nat, NEW y \in Nat, SamePage(x, y)
  PROVE  e <= x <=> e <= y
<1> DEFINE a == e \div pagesize
           k == x \div pagesize
<1>1. pagesize \in Nat /\ pagesize > 0
      BY DEF AllocAssumed
<1>2. a \in Nat /\ e = a * pagesize
      BY <1>1
<1>3. k \in Nat /\ k * pagesize <= x /\ x < k * pagesize + pagesize
      BY <1>1
<1>4. k = y \div pagesize
      BY DEF SamePage
<1>5. k * pagesize <= y /\ y < k * pagesize + pagesize
      BY <1>1, <1>4
<1> HIDE DEF a, k
<1>6. a <= k => a * pagesize <= k * pagesize
      BY <1>1, <1>2, <1>3
<1>7. a > k => k * pagesize + pagesize <= a * pagesize
      BY <1>1, <1>2, <1>3
<1> DEFINE K == k * pagesize
<1>8. K \in Nat /\ (e <= K \/ K + pagesize <= e)
      BY <1>1, <1>2, <1>3, <1>6, <1>7
<1>9. K <= x /\ x < K + pagesize /\ K <= y /\ y < K + pagesize
      BY <1>3, <1>5
<1> HIDE DEF K
<1> QED
    BY <1>1, <1>8, <1>9

AllocTyped ==
  /\ pc \in [Allocators -> {"idle", "mmap", "lock", "aborted"}]
  /\ request \in [Allocators -> Nat]
  /\ new_pages \in [Allocators -> Nat \cup {NoBlock}]
  /\ mapped \subseteq Nat
  /\ \A t \in Allocators :
       /\ pc[t] \in {"mmap", "lock"} => request[t] # 0
       /\ pc[t] \in {"idle", "mmap"} => new_pages[t] = NoBlock
       /\ pc[t] = "lock" => new_pages[t] # NoBlock

(* Each unit of mapped pages is in one block or with one thread.           *)
Accounted ==
  /\ \A x \in Nat : x \in mapped <=>
       InFree(free, x) \/ Taken(allocated, x) \/ \E t \in Allocators : InPages(t, x)
  /\ \A t \in Allocators, x \in Nat : InPages(t, x) =>
       ~InFree(free, x) /\ ~Taken(allocated, x) /\ \A u \in Allocators : InPages(u, x) => u = t

(* Pages are mapped as a whole.                                            *)
InWholePages ==
  /\ \A t \in Allocators : new_pages[t] # NoBlock => new_pages[t] % pagesize = 0
  /\ \A x, y \in Nat : SamePage(x, y) /\ x \in mapped => y \in mapped

AllocIInv == AllocTyped /\ Parted(free, allocated) /\ Accounted /\ InWholePages

LEMMA AllocInit == ASSUME AllocAssumed PROVE Alloc!Init => AllocIInv
<1> SUFFICES ASSUME Alloc!Init PROVE AllocIInv
    OBVIOUS
<1>1. /\ DOMAIN free = {} /\ DOMAIN allocated = {} /\ mapped = {}
      /\ \A t \in Allocators : new_pages[t] = NoBlock
      BY DEF Alloc!Init
<1>2. AllocTyped
      BY DEF Alloc!Init, AllocTyped
<1>3. Parted(free, allocated)
      BY <1>1 DEF Parted, Coalesced, Ordered, Levelled, Allotted, InFree
<1>4. Accounted /\ InWholePages
      BY <1>1 DEF Accounted, InWholePages, InFree, Taken, InPages
<1> QED
    BY <1>2, <1>3, <1>4 DEF AllocIInv

(* The pages of the other threads.                                         *)
LEMMA PagesStay ==
  ASSUME NEW u, new_pages'[u] = new_pages[u], request'[u] = request[u], NEW x
  PROVE  InPages(u, x)' <=> InPages(u, x)
BY DEF InPages, Alloc!new_pages_size

LEMMA NoPages == ASSUME NEW u, new_pages[u] = NoBlock, NEW x PROVE ~InPages(u, x)
BY DEF InPages

LEMMA DoAllocStep ==
  ASSUME AllocAssumed, AllocIInv, NEW t \in Allocators, Alloc!DoAllocWithArena(t)
  PROVE  AllocIInv'
<1>1. /\ AllocTyped /\ Parted(free, allocated) /\ Accounted /\ InWholePages
      BY DEF AllocIInv
<1>2. PICK n \in Requests : Alloc!Allocate(t, free, n)
      BY DEF Alloc!DoAllocWithArena
<1>3. n \in Nat \ {0} /\ pc[t] = "idle" /\ mapped' = mapped /\ new_pages' = new_pages
      BY DEF Alloc!DoAllocWithArena, AllocAssumed
<1>4. /\ Parted(free', allocated')
      /\ \A x \in Nat : InFree(free', x) \/ Taken(allocated', x)
                          <=> InFree(free, x) \/ Taken(allocated, x)
      /\ \/ pc' = [pc EXCEPT ![t] = "idle"] /\ request' = [request EXCEPT ![t] = 0]
         \/ pc' = [pc EXCEPT ![t] = "mmap"] /\ request' = [request EXCEPT ![t] = n]
      BY <1>1, <1>2, <1>3, AllocateMoves
<1>5. AllocTyped'
      BY <1>1, <1>3, <1>4 DEF AllocTyped
<1>6. \A u \in Allocators, x \in Nat : InPages(u, x)' <=> InPages(u, x)
  <2> SUFFICES ASSUME NEW u \in Allocators, NEW x \in Nat PROVE InPages(u, x)' <=> InPages(u, x)
      OBVIOUS
  <2>1. CASE u = t
    <3>1. new_pages[t] = NoBlock /\ new_pages'[t] = NoBlock
          BY <1>1, <1>3 DEF AllocTyped
    <3> QED
        BY <2>1, <3>1 DEF InPages
  <2>2. CASE u # t
    <3>1. request'[u] = request[u]
          BY <1>1, <1>4, <2>2 DEF AllocTyped
    <3> QED
        BY <1>3, <3>1, PagesStay
  <2> QED
      BY <2>1, <2>2
<1>7. Accounted'
      BY <1>1, <1>3, <1>4, <1>6 DEF Accounted
<1>8. InWholePages'
      BY <1>1, <1>3 DEF InWholePages, SamePage
<1> QED
    BY <1>4, <1>5, <1>7, <1>8 DEF AllocIInv

LEMMA MmapStep ==
  ASSUME AllocAssumed, AllocIInv, NEW t \in Allocators, Alloc!Mmap(t)
  PROVE  AllocIInv'
<1>1. /\ AllocTyped /\ Parted(free, allocated) /\ Accounted /\ InWholePages
      BY DEF AllocIInv
<1>2. /\ pc[t] = "mmap" /\ free' = free /\ allocated' = allocated /\ request' = request
      BY DEF Alloc!Mmap
<1>3. Parted(free', allocated')
      BY <1>1, <1>2
<1> DEFINE n == Alloc!new_pages_size(t)
           Pages(p) == p..p + n - 1
           places == {p \in Alloc!Addresses : /\ p % pagesize = 0
                                              /\ Pages(p) \subseteq Alloc!Addresses \ mapped}
<1>4. \/ \E p \in places : /\ mapped' = mapped \cup Pages(p)
                           /\ new_pages' = [new_pages EXCEPT ![t] = p]
                           /\ pc' = [pc EXCEPT ![t] = "lock"]
      \/ /\ pc' = [u \in Allocators |-> "aborted"]
         /\ mapped' = mapped /\ new_pages' = new_pages
      BY DEF Alloc!Mmap
<1>5. CASE /\ pc' = [u \in Allocators |-> "aborted"]
           /\ mapped' = mapped /\ new_pages' = new_pages
  <2>1. AllocTyped'
        BY <1>1, <1>2, <1>5 DEF AllocTyped
  <2>2. \A u \in Allocators, x \in Nat : InPages(u, x)' <=> InPages(u, x)
        BY <1>2, <1>5, PagesStay
  <2>3. Accounted'
        BY <1>1, <1>2, <1>5, <2>2 DEF Accounted
  <2>4. InWholePages'
        BY <1>1, <1>5 DEF InWholePages, SamePage
  <2> QED
      BY <1>3, <2>1, <2>3, <2>4 DEF AllocIInv
<1>6. ASSUME NEW p \in places, mapped' = mapped \cup Pages(p),
             new_pages' = [new_pages EXCEPT ![t] = p], pc' = [pc EXCEPT ![t] = "lock"]
      PROVE  AllocIInv'
  <2>1. p \in Nat /\ p % pagesize = 0
        BY DEF Alloc!Addresses, AllocAssumed
  <2>2. request[t] \in Nat /\ request[t] # 0 /\ new_pages[t] = NoBlock /\ NoBlock # p
        BY <1>1, <1>2, <2>1 DEF AllocTyped, AllocAssumed
  <2>3. n \in Nat /\ n % pagesize = 0
        BY <2>2, WholePages
  <2>4. Pages(p) \cap mapped = {}
        OBVIOUS
  <2>5. n' = n
        BY <1>2 DEF Alloc!new_pages_size
  <2> HIDE DEF n
  <2>6. \A x \in Nat : x \in Pages(p) <=> p <= x /\ x < p + n
        BY <2>1, <2>3
  <2>7. Pages(p) \subseteq Nat
        BY <2>1, <2>3
  <2> HIDE DEF Pages, places
  <2>8. new_pages'[t] = p
        BY <1>1, <1>6 DEF AllocTyped
  <2>9. \A x \in Nat : InPages(t, x)' <=> x \in Pages(p)
        BY <2>2, <2>5, <2>6, <2>8 DEF InPages, n
  <2>10. \A x \in Nat : ~InPages(t, x)
        BY <2>2, NoPages
  <2>11. \A u \in Allocators, x \in Nat : u # t => (InPages(u, x)' <=> InPages(u, x))
    <3>1. \A u \in Allocators : u # t => new_pages'[u] = new_pages[u] /\ request'[u] = request[u]
          BY <1>1, <1>2, <1>6 DEF AllocTyped
    <3> QED
        BY <3>1, PagesStay
  <2>12. AllocTyped'
    <3>1. mapped' \subseteq Nat
          BY <1>1, <1>6, <2>7 DEF AllocTyped
    <3> QED
        BY <1>1, <1>2, <1>6, <2>1, <2>2, <3>1 DEF AllocTyped
  <2>13. Accounted'
    <3>1. ASSUME NEW x \in Nat
          PROVE  x \in mapped' <=> InFree(free', x) \/ Taken(allocated', x)
                                   \/ \E u \in Allocators : InPages(u, x)'
          BY <1>1, <1>2, <1>6, <2>9, <2>10, <2>11 DEF Accounted
    <3>2. ASSUME NEW u \in Allocators, NEW x \in Nat, InPages(u, x)'
          PROVE  /\ ~InFree(free', x) /\ ~Taken(allocated', x)
                 /\ \A v \in Allocators : InPages(v, x)' => v = u
      <4>1. CASE u = t
        <5>1. x \in Pages(p) /\ x \notin mapped
              BY <2>4, <2>9, <3>2, <4>1
        <5> QED
            BY <1>1, <1>2, <2>11, <4>1, <5>1 DEF Accounted
      <4>2. CASE u # t
        <5>1. InPages(u, x) /\ x \in mapped /\ x \notin Pages(p)
              BY <1>1, <2>4, <2>11, <3>2, <4>2 DEF Accounted
        <5> QED
            BY <1>1, <1>2, <2>9, <2>11, <4>2, <5>1 DEF Accounted
      <4> QED
          BY <4>1, <4>2
    <3> QED
        BY <3>1, <3>2 DEF Accounted
  <2>14. InWholePages'
    <3>1. \A u \in Allocators : new_pages'[u] # NoBlock => new_pages'[u] % pagesize = 0
          BY <1>1, <1>6, <2>1 DEF InWholePages, AllocTyped
    <3>2. ASSUME NEW x \in Nat, NEW y \in Nat, SamePage(x, y), x \in mapped' PROVE y \in mapped'
      <4>1. CASE x \in mapped
            BY <1>1, <1>6, <3>2, <4>1 DEF InWholePages
      <4>2. CASE x \in Pages(p)
        <5>1. (p + n) \in Nat /\ (p + n) % pagesize = 0
              BY <2>1, <2>3, PagesAdd
        <5>2. p <= x <=> p <= y
              BY <2>1, <3>2, PageBounds
        <5>3. p + n <= x <=> p + n <= y
              BY <3>2, <5>1, PageBounds
        <5>4. p <= y /\ y < p + n
              BY <2>1, <2>3, <2>6, <4>2, <5>2, <5>3
        <5> QED
            BY <1>6, <2>6, <5>4
      <4> QED
          BY <1>6, <3>2, <4>1, <4>2
    <3> QED
        BY <3>1, <3>2 DEF InWholePages, SamePage
  <2> QED
      BY <1>3, <2>12, <2>13, <2>14 DEF AllocIInv
<1> QED
    BY <1>4, <1>5, <1>6

LEMMA AddPagesStep ==
  ASSUME AllocAssumed, AllocIInv, NEW t \in Allocators, Alloc!AddPages(t)
  PROVE  AllocIInv'
<1> DEFINE n == Alloc!new_pages_size(t)
           a == new_pages[t]
<1>1. /\ AllocTyped /\ Parted(free, allocated) /\ Accounted /\ InWholePages
      BY DEF AllocIInv
<1>2. /\ pc[t] = "lock" /\ mapped' = mapped /\ new_pages' = [new_pages EXCEPT ![t] = NoBlock]
      BY DEF Alloc!AddPages
<1>3. PICK r \in Alloc!Random : Alloc!Allocate(t, Alloc!AddToFreelist(free, a, n, r), request[t])
      BY DEF Alloc!AddPages
<1> DEFINE f == Alloc!AddToFreelist(free, a, n, r)
<1>4. r[1] \in Nat \ {0} /\ r[2] \in Nat \ {0} /\ r[3] \in Nat \ {0}
      BY DEF Alloc!Random, AllocAssumed
<1>5. request[t] \in Nat \ {0} /\ a \in Nat /\ a # NoBlock
      BY <1>1, <1>2 DEF AllocTyped
<1>6. n \in Nat \ {0}
      BY <1>5, WholePages
<1>7. \A x \in Nat : InPages(t, x) <=> a <= x /\ x < a + n
      BY <1>5 DEF InPages
<1>8. \A x \in Nat : a <= x /\ x < a + n => ~InFree(free, x) /\ ~Taken(allocated, x)
      BY <1>1, <1>7 DEF Accounted
<1> HIDE DEF n, a
<1>9. /\ Coalesced(f) /\ Levelled(f)
      /\ \A x \in Nat : InFree(f, x) <=> InFree(free, x) \/ (a <= x /\ x < a + n)
      BY <1>1, <1>4, <1>5, <1>6, <1>8, AddToFreelistAdds DEF Parted
<1> HIDE DEF f
<1>10. Parted(f, allocated)
      BY <1>1, <1>8, <1>9 DEF Parted
<1>11. Alloc!Allocate(t, f, request[t])
      BY <1>3 DEF f
<1>12. /\ Parted(free', allocated')
       /\ \A x \in Nat : InFree(free', x) \/ Taken(allocated', x)
                           <=> InFree(f, x) \/ Taken(allocated, x)
       /\ \/ pc' = [pc EXCEPT ![t] = "idle"] /\ request' = [request EXCEPT ![t] = 0]
          \/ pc' = [pc EXCEPT ![t] = "mmap"] /\ request' = [request EXCEPT ![t] = request[t]]
      BY <1>5, <1>10, <1>11, AllocateMoves
<1>13. AllocTyped'
      BY <1>1, <1>2, <1>5, <1>12 DEF AllocTyped
<1>14. \A u \in Allocators : u # t => new_pages'[u] = new_pages[u] /\ request'[u] = request[u]
      BY <1>1, <1>2, <1>12 DEF AllocTyped
<1>15. \A u \in Allocators, x \in Nat : u # t => (InPages(u, x)' <=> InPages(u, x))
      BY <1>14, PagesStay
<1>16. \A x \in Nat : ~InPages(t, x)'
  <2>1. new_pages'[t] = NoBlock
        BY <1>1, <1>2 DEF AllocTyped
  <2> QED
      BY <2>1 DEF InPages
<1>17. Accounted'
  <2>1. ASSUME NEW x \in Nat
        PROVE  x \in mapped' <=> InFree(free', x) \/ Taken(allocated', x)
                                 \/ \E u \in Allocators : InPages(u, x)'
    <3>1. (\E u \in Allocators : InPages(u, x)) <=>
            (a <= x /\ x < a + n) \/ \E u \in Allocators : InPages(u, x)'
          BY <1>7, <1>15, <1>16
    <3>2. InFree(free', x) \/ Taken(allocated', x)
            <=> InFree(free, x) \/ Taken(allocated, x) \/ (a <= x /\ x < a + n)
          BY <1>9, <1>12
    <3> QED
        BY <1>1, <1>2, <3>1, <3>2 DEF Accounted
  <2>2. ASSUME NEW u \in Allocators, NEW x \in Nat, InPages(u, x)'
        PROVE  /\ ~InFree(free', x) /\ ~Taken(allocated', x)
               /\ \A v \in Allocators : InPages(v, x)' => v = u
    <3>1. u # t /\ InPages(u, x)
          BY <1>15, <1>16, <2>2
    <3>2. ~(a <= x /\ x < a + n) /\ ~InFree(free, x) /\ ~Taken(allocated, x)
          BY <1>1, <1>7, <3>1 DEF Accounted
    <3>3. ~InFree(free', x) /\ ~Taken(allocated', x)
          BY <1>9, <1>12, <3>2
    <3>4. \A v \in Allocators : InPages(v, x)' => v = u
          BY <1>1, <1>15, <1>16, <3>1 DEF Accounted
    <3> QED
        BY <3>3, <3>4
  <2> QED
      BY <2>1, <2>2 DEF Accounted
<1>18. InWholePages'
  <2>1. \A u \in Allocators : new_pages'[u] # NoBlock => new_pages'[u] % pagesize = 0
        BY <1>1, <1>2 DEF InWholePages, AllocTyped
  <2> QED
      BY <1>1, <1>2, <2>1 DEF InWholePages, SamePage
<1> QED
    BY <1>12, <1>13, <1>17, <1>18 DEF AllocIInv

LEMMA FreeStep ==
  ASSUME AllocAssumed, AllocIInv, NEW t \in Allocators, Alloc!Free(t)
  PROVE  AllocIInv'
<1>1. /\ AllocTyped /\ Parted(free, allocated) /\ Accounted /\ InWholePages
      BY DEF AllocIInv
<1>2. mapped' = mapped /\ request' = request /\ new_pages' = new_pages /\ pc' = pc
      BY DEF Alloc!Free
<1>3. PICK a \in DOMAIN allocated, r \in Alloc!Random :
        /\ free' = Alloc!AddToFreelist(free, a, allocated[a], r)
        /\ allocated' = Alloc!Without(allocated, a)
      BY DEF Alloc!Free
<1> DEFINE n == allocated[a]
<1>4. r[1] \in Nat \ {0} /\ r[2] \in Nat \ {0} /\ r[3] \in Nat \ {0}
      BY DEF Alloc!Random, AllocAssumed
<1>5. a \in Nat /\ n \in Nat \ {0} /\ Allotted(allocated) /\ Coalesced(free) /\ Levelled(free)
      BY <1>1 DEF Parted, Allotted
<1>6. /\ Allotted(allocated')
      /\ \A x \in Nat : a <= x /\ x < a + n => Taken(allocated, x) /\ ~Taken(allocated', x)
      /\ \A x \in Nat : ~(a <= x /\ x < a + n) => (Taken(allocated', x) <=> Taken(allocated, x))
      BY <1>3, <1>5, GiveBackOne
<1>7. \A x \in Nat : a <= x /\ x < a + n => ~InFree(free, x)
      BY <1>1, <1>6 DEF Parted
<1> HIDE DEF n
<1>8. free' = Alloc!AddToFreelist(free, a, n, r)
      BY <1>3 DEF n
<1>9. /\ Coalesced(free') /\ Levelled(free')
      /\ \A x \in Nat : InFree(free', x) <=> InFree(free, x) \/ (a <= x /\ x < a + n)
      BY <1>4, <1>5, <1>7, <1>8, AddToFreelistAdds
<1>10. ASSUME NEW x \in Nat
       PROVE  /\ ~(InFree(free', x) /\ Taken(allocated', x))
              /\ InFree(free', x) \/ Taken(allocated', x) <=> InFree(free, x) \/ Taken(allocated, x)
       BY <1>1, <1>6, <1>9 DEF Parted
<1>11. Parted(free', allocated')
       BY <1>6, <1>9, <1>10 DEF Parted
<1>12. AllocTyped'
       BY <1>1, <1>2 DEF AllocTyped
<1>13. \A u \in Allocators, x \in Nat : InPages(u, x)' <=> InPages(u, x)
       BY <1>2, PagesStay
<1>14. Accounted'
       BY <1>1, <1>2, <1>10, <1>13 DEF Accounted
<1>15. InWholePages'
       BY <1>1, <1>2 DEF InWholePages, SamePage
<1> QED
    BY <1>11, <1>12, <1>14, <1>15 DEF AllocIInv

LEMMA DeleteArenaStep ==
  ASSUME AllocAssumed, AllocIInv, Alloc!DeleteArena
  PROVE  AllocIInv'
<1>1. /\ AllocTyped /\ Parted(free, allocated) /\ Accounted /\ InWholePages
      BY DEF AllocIInv
<1>2. /\ DOMAIN free' = {} /\ DOMAIN allocated' = {} /\ mapped' = {}
      /\ request' = request /\ new_pages' = new_pages /\ pc' = pc
      /\ \A t \in Allocators : new_pages[t] = NoBlock
      BY <1>1 DEF Alloc!DeleteArena, AllocTyped
<1>3. AllocTyped'
      BY <1>1, <1>2 DEF AllocTyped
<1>4. Parted(free', allocated')
      BY <1>2 DEF Parted, Coalesced, Ordered, Levelled, Allotted, InFree
<1>5. \A t \in Allocators, x \in Nat : ~InPages(t, x)'
      BY <1>2 DEF InPages
<1>6. Accounted'
      BY <1>2, <1>5 DEF Accounted, InFree, Taken
<1>7. InWholePages'
      BY <1>2 DEF InWholePages
<1> QED
    BY <1>3, <1>4, <1>6, <1>7 DEF AllocIInv

LEMMA AllocStep ==
  ASSUME AllocAssumed, AllocIInv, [Alloc!Next]_(Alloc!vars)
  PROVE  AllocIInv'
<1>1. CASE UNCHANGED Alloc!vars \/ Alloc!Done
  <2>1. /\ free' = free /\ allocated' = allocated /\ mapped' = mapped
        /\ request' = request /\ new_pages' = new_pages /\ pc' = pc
        BY <1>1 DEF Alloc!vars, Alloc!Done
  <2>2. Parted(free', allocated')
        BY <2>1 DEF AllocIInv
  <2>3. AllocTyped' /\ InWholePages'
        BY <2>1 DEF AllocIInv, AllocTyped, InWholePages, SamePage
  <2>4. \A u \in Allocators, x \in Nat : InPages(u, x)' <=> InPages(u, x)
        BY <2>1, PagesStay
  <2>5. Accounted'
        BY <2>1, <2>4 DEF AllocIInv, Accounted
  <2> QED
      BY <2>2, <2>3, <2>5 DEF AllocIInv
<1> QED
    BY <1>1, DoAllocStep, MmapStep, AddPagesStep, FreeStep, DeleteArenaStep DEF Alloc!Next

-----------------------------------------------------------------------------
(* Memory that is mapped and in no thread's hands comes in whole pages;    *)
(* without a client's block, where a page begins or ends a free block can  *)
(* begin and end, and nowhere else.                                        *)
LEMMA FreeInWholePages ==
  ASSUME AllocAssumed, AllocIInv, DOMAIN allocated = {}, NEW p \in DOMAIN free
  PROVE  p % pagesize = 0 /\ free[p].size % pagesize = 0
<1> DEFINE m == free[p].size
           e == p + m
<1>0. /\ pagesize \in Nat /\ pagesize > 0
      /\ AllocTyped /\ Parted(free, allocated) /\ Accounted /\ InWholePages
      BY DEF AllocIInv, AllocAssumed
<1>1. /\ p \in Nat /\ m \in Nat \ {0} /\ e \in Nat /\ p < e
      /\ \A q \in DOMAIN free : /\ q \in Nat /\ free[q].size \in Nat \ {0}
                                /\ q < p => q + free[q].size < p
                                /\ p < q => e < q
      BY <1>0 DEF Parted, Coalesced, Ordered, Touch
<1> HIDE DEF m, e
<1>2. \A x \in Nat : InFree(free, x) <=>
        x \in mapped /\ \A t \in Allocators : ~InPages(t, x)
      BY <1>0 DEF Accounted, Taken
<1>3. ASSUME NEW x \in Nat, NEW y \in Nat, SamePage(x, y), InFree(free, x) PROVE InFree(free, y)
  <2>1. y \in mapped
        BY <1>0, <1>2, <1>3 DEF InWholePages
  <2>2. ASSUME NEW t \in Allocators, InPages(t, y) PROVE InPages(t, x)
    <3> DEFINE a == new_pages[t]
               n == Alloc!new_pages_size(t)
    <3>1. a \in Nat /\ a # NoBlock /\ a % pagesize = 0 /\ a <= y /\ y < a + n
          BY <1>0, <2>2 DEF InPages, AllocTyped, InWholePages
    <3>2. n \in Nat /\ n % pagesize = 0
          BY <1>0, WholePages DEF AllocTyped
    <3> HIDE DEF a, n
    <3>8. a + n \in Nat /\ (a + n) % pagesize = 0
          BY <3>1, <3>2, PagesAdd
    <3>9. (a <= x <=> a <= y) /\ (a + n <= x <=> a + n <= y)
          BY <1>3, <3>1, <3>8, PageBounds
    <3>10. a <= x /\ x < a + n
          BY <3>1, <3>2, <3>9
    <3> QED
        BY <3>1, <3>10 DEF InPages, a, n
  <2>3. \A t \in Allocators : ~InPages(t, y)
        BY <1>2, <1>3, <2>2
  <2> QED
      BY <1>2, <2>1, <2>3
<1>4. InFree(free, p) /\ InFree(free, e - 1)
  <2>1. \A x \in Nat : p <= x /\ x < p + free[p].size => InFree(free, x)
        BY DEF InFree
  <2>2. e = p + free[p].size /\ e - 1 \in Nat
        BY <1>1 DEF e, m
  <2> QED
      BY <1>1, <2>1, <2>2
<1>5. ASSUME NEW x \in Nat, x % pagesize # 0 PROVE x - 1 \in Nat /\ SamePage(x, x - 1)
      BY <1>0, <1>5 DEF SamePage
<1>6. p % pagesize = 0
  <2> SUFFICES ASSUME p % pagesize # 0 PROVE FALSE
      OBVIOUS
  <2>1. p - 1 \in Nat /\ InFree(free, p - 1)
        BY <1>1, <1>3, <1>4, <1>5
  <2>2. PICK q \in DOMAIN free : q <= p - 1 /\ p - 1 < q + free[q].size
        BY <2>1 DEF InFree
  <2> QED
      BY <1>1, <2>1, <2>2
<1>7. e % pagesize = 0
  <2> SUFFICES ASSUME e % pagesize # 0 PROVE FALSE
      OBVIOUS
  <2>1. e - 1 \in Nat /\ SamePage(e - 1, e)
        BY <1>1, <1>5 DEF SamePage
  <2>2. InFree(free, e)
        BY <1>1, <1>3, <1>4, <2>1
  <2>3. PICK q \in DOMAIN free : q <= e /\ e < q + free[q].size
        BY <2>2 DEF InFree
  <2>4. q = p => q + free[q].size = e
        BY DEF e, m
  <2> QED
      BY <1>1, <2>3, <2>4
<1>8. m % pagesize = 0
      BY <1>1, <1>6, <1>7, PagesAdd DEF e
<1> QED
    BY <1>6, <1>8 DEF m

LEMMA BlocksPart == ASSUME AllocAssumed, AllocIInv PROVE Alloc!BlocksPartitionMemory
<1>0. /\ AllocTyped /\ Coalesced(free) /\ Ordered(free) /\ Allotted(allocated) /\ Accounted
      /\ \A x \in Nat : ~(InFree(free, x) /\ Taken(allocated, x))
      BY DEF AllocIInv, Parted, Coalesced
<1>1. DOMAIN free \cap DOMAIN allocated = {}
  <2> SUFFICES ASSUME NEW p \in DOMAIN free, p \in DOMAIN allocated PROVE FALSE
      OBVIOUS
  <2>1. p \in Nat /\ free[p].size \in Nat \ {0} /\ allocated[p] \in Nat \ {0}
        BY <1>0 DEF Ordered, Allotted
  <2>2. InFree(free, p) /\ Taken(allocated, p)
        BY <2>1 DEF InFree, Taken
  <2> QED
      BY <1>0, <2>1, <2>2
<1>2. /\ \A p \in DOMAIN free : Alloc!Size(p) = free[p].size
      /\ \A p \in DOMAIN allocated : Alloc!Size(p) = allocated[p]
      /\ Alloc!Blocks = DOMAIN free \cup DOMAIN allocated
      BY <1>1 DEF Alloc!Size, Alloc!Blocks
<1>3. \A p \in Alloc!Blocks : p \in Nat /\ Alloc!Size(p) \in Nat \ {0}
      BY <1>0, <1>2 DEF Ordered, Allotted
<1>4. \A x \in Nat : (\E p \in Alloc!Blocks : p <= x /\ x < p + Alloc!Size(p)) <=>
                     InFree(free, x) \/ Taken(allocated, x)
      BY <1>2 DEF InFree, Taken
<1>5. ASSUME NEW p \in Alloc!Blocks, NEW q \in Alloc!Blocks, p < q PROVE p + Alloc!Size(p) <= q
  <2>1. CASE p \in DOMAIN free /\ q \in DOMAIN free
        BY <1>0, <1>2, <1>5, <2>1 DEF Ordered
  <2>2. CASE p \in DOMAIN allocated /\ q \in DOMAIN allocated
        BY <1>0, <1>2, <1>5, <2>2 DEF Allotted
  <2>3. CASE p \in DOMAIN free /\ q \in DOMAIN allocated
    <3> SUFFICES ASSUME ~(p + Alloc!Size(p) <= q) PROVE FALSE
        OBVIOUS
    <3>1. InFree(free, q) /\ Taken(allocated, q)
          BY <1>2, <1>3, <1>5, <2>3 DEF InFree, Taken
    <3> QED
        BY <1>0, <1>3, <3>1
  <2>4. CASE p \in DOMAIN allocated /\ q \in DOMAIN free
    <3> SUFFICES ASSUME ~(p + Alloc!Size(p) <= q) PROVE FALSE
        OBVIOUS
    <3>1. InFree(free, q) /\ Taken(allocated, q)
          BY <1>2, <1>3, <1>5, <2>4 DEF InFree, Taken
    <3> QED
        BY <1>0, <1>3, <3>1
  <2> QED
      BY <1>2, <2>1, <2>2, <2>3, <2>4
<1>6. UNION {p..p + Alloc!Size(p) - 1 : p \in Alloc!Blocks} = mapped \ Alloc!InTransit
  <2> DEFINE Covered == UNION {p..p + Alloc!Size(p) - 1 : p \in Alloc!Blocks}
  <2>1. ASSUME NEW x PROVE x \in Covered <=>
                             x \in Nat /\ \E p \in Alloc!Blocks : p <= x /\ x < p + Alloc!Size(p)
    <3>1. x \in Covered <=> \E p \in Alloc!Blocks : x \in p..p + Alloc!Size(p) - 1
          BY Zenon
    <3>2. \A p \in Alloc!Blocks : x \in p..p + Alloc!Size(p) - 1 <=>
                                    x \in Nat /\ p <= x /\ x < p + Alloc!Size(p)
          BY <1>3
    <3> QED
        BY <3>1, <3>2
  <2>2. ASSUME NEW x PROVE x \in Alloc!InTransit <=>
                             x \in Nat /\ \E t \in Allocators : InPages(t, x)
    <3>1. x \in Alloc!InTransit <=>
            \E t \in Allocators : /\ new_pages[t] # NoBlock
                                  /\ x \in new_pages[t]..new_pages[t] + Alloc!new_pages_size(t) - 1
          BY Zenon DEF Alloc!InTransit
    <3>2. \A t \in Allocators : new_pages[t] # NoBlock =>
            (x \in new_pages[t]..new_pages[t] + Alloc!new_pages_size(t) - 1 <=>
               x \in Nat /\ new_pages[t] <= x /\ x < new_pages[t] + Alloc!new_pages_size(t))
      <4> SUFFICES ASSUME NEW t \in Allocators, new_pages[t] # NoBlock
                   PROVE  x \in new_pages[t]..new_pages[t] + Alloc!new_pages_size(t) - 1 <=>
                            /\ x \in Nat /\ new_pages[t] <= x
                            /\ x < new_pages[t] + Alloc!new_pages_size(t)
          OBVIOUS
      <4>1. new_pages[t] \in Nat /\ Alloc!new_pages_size(t) \in Nat
            BY <1>0, WholePages DEF AllocTyped
      <4> QED
          BY <4>1
    <3> QED
        BY <3>1, <3>2 DEF InPages
  <2>3. mapped \subseteq Nat
        BY <1>0 DEF AllocTyped
  <2> HIDE DEF Covered
  <2>4. ASSUME NEW x PROVE x \in Covered <=> x \in mapped \ Alloc!InTransit
        BY <1>0, <1>4, <2>1, <2>2, <2>3 DEF Accounted
  <2>5. Covered = mapped \ Alloc!InTransit
        BY <2>4
  <2> QED
      BY <2>5 DEF Covered
<1>7. \A p \in DOMAIN free : p + free[p].size \notin DOMAIN free
      BY <1>0 DEF Coalesced, Touch
<1>8. ASSUME DOMAIN allocated = {}, NEW p \in Alloc!Blocks
      PROVE  p % pagesize = 0 /\ Alloc!Size(p) % pagesize = 0
      BY <1>2, <1>8, FreeInWholePages
<1> QED
    BY <1>5, <1>6, <1>7, <1>8 DEF Alloc!BlocksPartitionMemory

LEMMA NothingMissed == ASSUME AllocAssumed, AllocIInv PROVE Alloc!FirstFitMissesNothing
<1> SUFFICES ASSUME NEW n \in Requests, Alloc!FirstFit(free, n) = NoBlock, NEW p \in DOMAIN free
             PROVE  free[p].size < n
    BY DEF Alloc!FirstFitMissesNothing
<1>1. n \in Nat /\ free[p].size \in Nat /\ DOMAIN free \subseteq Nat
      BY DEF AllocAssumed, AllocIInv, Parted, Coalesced, Ordered
<1>2. ~(free[p].levels >= Alloc!LLA_SkiplistLevels(n, 1) /\ free[p].size >= n)
      BY <1>1, FirstFitFits
<1>3. free[p].levels \in Int /\ Alloc!LLA_SkiplistLevels(free[p].size, 1) <= free[p].levels
      BY DEF AllocIInv, Parted, Levelled
<1>4. ASSUME n <= free[p].size PROVE FALSE
  <2>1. /\ Alloc!LLA_SkiplistLevels(n, 1) \in Int
        /\ Alloc!LLA_SkiplistLevels(free[p].size, 1) \in Int
        /\ Alloc!LLA_SkiplistLevels(n, 1) <= Alloc!LLA_SkiplistLevels(free[p].size, 1)
        BY <1>1, <1>4, LevelsGrow
  <2> QED
      BY <1>1, <1>2, <1>3, <1>4, <2>1
<1> QED
    BY <1>1, <1>4

LEMMA AllocSound == Spec => [](which = "alloc" => AllocIInv)
<1> DEFINE Inv == which = "alloc" => AllocIInv
<1>1. AllocAssumed
      BY ComponentsAssumption DEF AllocAssumed
<1>2. Init => Inv
      BY <1>1, AllocInit DEF Init
<1>3. Inv /\ [Next]_vars => Inv'
  <2> SUFFICES ASSUME which = "alloc", AllocIInv, [Next]_vars PROVE AllocIInv'
      BY DEF Next, vars
  <2>1. Alloc!Next \/ UNCHANGED Alloc!vars
        BY DEF Next, vars, alloc, Alloc!vars
  <2> QED
      BY <1>1, <2>1, AllocStep
<1> QED
    BY <1>2, <1>3, PTL DEF Spec

(* After any sequence of allocations and frees, with pages mapped between, *)
(* the blocks partition the arena's memory, no two free ones touch, and an *)
(* arena that is given up is made of whole pages                           *)
(* (low_level_alloc.cc:461-498), for any requests and page size.           *)
THEOREM MemoryIsPartitioned == Spec => []BlocksPartitionMemory
<1>1. (which = "alloc" => AllocIInv) => BlocksPartitionMemory
  <2>1. AllocAssumed
        BY ComponentsAssumption DEF AllocAssumed
  <2> QED
      BY <2>1, BlocksPart DEF BlocksPartitionMemory
<1> QED
    BY <1>1, AllocSound, PTL

(* The search by levels finds a block whenever a free one is big enough,   *)
(* whatever levels were drawn (low_level_alloc.cc:530-548).                *)
THEOREM SearchMissesNothing == Spec => []FirstFitMissesNothing
<1>1. (which = "alloc" => AllocIInv) => FirstFitMissesNothing
  <2>1. AllocAssumed
        BY ComponentsAssumption DEF AllocAssumed
  <2> QED
      BY <2>1, NothingMissed DEF FirstFitMissesNothing
<1> QED
    BY <1>1, AllocSound, PTL

-----------------------------------------------------------------------------
(* The graph counts as this module does.                                   *)
LEMMA GraphCount == \A S : Cycle!Cardinality(S) = Cardinality(S)
BY DEF Cardinality, Cycle!Cardinality

(* The place of a number in a set of numbers.                              *)
Place(S, r) == Cardinality({q \in S : q < r})

(* A greater number has a later place.                                     *)
LEMMA PlaceGrows ==
  ASSUME NEW S, S \subseteq Nat, IsFiniteSet(S), NEW a \in S, NEW b \in Nat, a < b
  PROVE  Place(S, a) \in Nat /\ Place(S, b) \in Nat /\ Place(S, a) < Place(S, b)
<1> DEFINE A == {q \in S : q < a}
           B == {q \in S : q < b}
<1>0. \A q \in S : q \in Nat
      OBVIOUS
<1>1. A \subseteq S /\ B \subseteq S /\ A \cup {a} \subseteq B /\ a \notin A
  <2>1. \A q \in S : q < a => q < b
        BY <1>0
  <2>2. ~(a < a)
        BY <1>0
  <2> QED
      BY <2>1, <2>2, Zenon
<1> HIDE DEF A, B
<1>2. IsFiniteSet(A) /\ IsFiniteSet(B)
      BY <1>1, FS_Subset
<1>3. Cardinality(A) \in Nat /\ Cardinality(B) \in Nat
      BY <1>2, FS_CardinalityType
<1>4. Cardinality(A \cup {a}) = Cardinality(A) + 1
      BY <1>1, <1>2, FS_AddElement
<1>5. Cardinality(A \cup {a}) <= Cardinality(B)
      BY <1>1, <1>2, FS_Subset
<1> QED
    BY <1>3, <1>4, <1>5 DEF Place, A, B

(* Every place but the end is that of a number of the set.                 *)
LEMMA PlaceIsTaken ==
  ASSUME NEW S, S \subseteq Nat, IsFiniteSet(S), NEW k \in Nat, k < Cardinality(S)
  PROVE  \E r \in S : Place(S, r) = k
<1>0. \A q \in S : q \in Nat
      OBVIOUS
<1>1. Cardinality(S) \in Nat
      BY FS_CardinalityType
<1> DEFINE M == Cardinality(S) - 1
           T == {j \in 0 .. M : \E r \in S : Place(S, r) = j}
<1>2. M \in Nat /\ k \in 0 .. M
      BY <1>1
<1>3. 0 \in T
  <2>1. S # {}
        BY <1>2, FS_EmptySet
  <2>2. PICK r \in S : \A q \in S : r <= q
        BY <2>1, Least
  <2>3. {q \in S : q < r} = {}
    <3>1. \A q \in S : ~(q < r)
          BY <1>0, <2>2
    <3> QED
        BY <3>1, Zenon
  <2>4. Place(S, r) = 0
        BY <2>3, FS_EmptySet DEF Place
  <2> QED
      BY <1>2, <2>4
<1>4. ASSUME NEW j \in 1 .. M, j - 1 \in T PROVE j \in T
  <2>1. PICK r \in S : Place(S, r) = j - 1
        BY <1>4
  <2> DEFINE A == {q \in S : q < r}
             B == {q \in S : r < q}
  <2>2. /\ A \subseteq S /\ r \notin A /\ A \cup {r} \subseteq S /\ B \subseteq S
        /\ S \ (A \cup {r}) \subseteq B
    <3>1. ~(r < r) /\ \A q \in S : q < r \/ q = r \/ r < q
          BY <1>0
    <3> QED
        BY <3>1, Zenon
  <2>3. IsFiniteSet(A) /\ Cardinality(A) = j - 1
    <3>1. Cardinality(A) = j - 1
          BY <2>1 DEF Place
    <3> HIDE DEF A
    <3> QED
        BY <2>2, <3>1, FS_Subset
  <2> HIDE DEF A
  <2>4. Cardinality(A \cup {r}) = j
    <3>1. Cardinality(A \cup {r}) = (j - 1) + 1
          BY <2>2, <2>3, FS_AddElement
    <3> QED
        BY <3>1
  <2>5. B # {}
    <3> SUFFICES ASSUME B = {} PROVE FALSE
        OBVIOUS
    <3>1. S = A \cup {r}
          BY <2>2
    <3> QED
        BY <1>1, <2>4, <3>1
  <2>6. PICK s \in B : \A q \in B : s <= q
    <3>1. B \subseteq Nat
          OBVIOUS
    <3> HIDE DEF B
    <3> QED
        BY <2>5, <3>1, Least
  <2>7. {q \in S : q < s} = A \cup {r}
    <3>1. s \in S /\ r < s
          OBVIOUS
    <3>2. \A q \in S : q < s <=> q < r \/ q = r
      <4>1. \A q \in S : r < q => s <= q
            BY <2>6
      <4> QED
          BY <1>0, <3>1, <4>1
    <3> QED
        BY <3>2, Zenon DEF A
  <2>8. Place(S, s) = j
        BY <2>4, <2>7 DEF Place
  <2> QED
      BY <2>8
<1>5. k \in T
  <2> HIDE DEF M, T
  <2> QED
      BY <1>2, <1>3, <1>4, Induction
<1> QED
    BY <1>5

(* A set that no edge within Inside leaves.                                *)
Closed(T, edges, Inside) == \A v \in T : edges[v] \cap Inside \subseteq T

(* A search visits the least such set: a round that adds no node is the    *)
(* last one to add any, and there are no more nodes than rounds.           *)
LEMMA SearchCloses ==
  ASSUME N \in Nat, NEW n \in Cycle!Nodes, NEW edges \in [Cycle!Nodes -> SUBSET Cycle!Nodes],
         NEW Inside
  PROVE  /\ Cycle!Search(n, edges, Inside) \subseteq Cycle!Nodes
         /\ n \in Cycle!Search(n, edges, Inside)
         /\ Cycle!Search(n, edges, Inside) \subseteq Inside \cup {n}
         /\ Closed(Cycle!Search(n, edges, Inside), edges, Inside)
         /\ \A T \in SUBSET Cycle!Nodes :
              n \in T /\ Closed(T, edges, Inside) => Cycle!Search(n, edges, Inside) \subseteq T
<1> DEFINE V == Cycle!Nodes
           More(S) == S \cup ((UNION {edges[v] : v \in S}) \cap Inside)
           step == [k \in 1 .. N |-> [S \in SUBSET V |-> More(S)]]
           visited == CHOOSE g : g = [k \in 0 .. N |-> IF k = 0 THEN {n} ELSE More(g[k - 1])]
<1>0. \A S, x : x \in More(S) <=> x \in S \/ (x \in Inside /\ \E v \in S : x \in edges[v])
  <2> SUFFICES ASSUME NEW S, NEW x
               PROVE  x \in More(S) <=> x \in S \/ (x \in Inside /\ \E v \in S : x \in edges[v])
      OBVIOUS
  <2>1. x \in UNION {edges[v] : v \in S} <=> \E v \in S : x \in edges[v]
        OBVIOUS
  <2> QED
      BY <2>1, Zenon
<1>1. \A S \in SUBSET V : More(S) \in SUBSET V
      OBVIOUS
<1>2. PICK f : Iterates(f, N, SUBSET V, {n}, step)
  <2>1. step \in [1 .. N -> [SUBSET V -> SUBSET V]] /\ {n} \in SUBSET V
        BY <1>1
  <2> HIDE DEF step, V
  <2> QED
      BY <2>1, Recursion
<1>3. \A k \in 0 .. N : f[k] = IF k = 0 THEN {n} ELSE More(f[k - 1])
  <2>1. \A k \in 0 .. N : k # 0 => k \in 1 .. N /\ f[k - 1] \in SUBSET V
        BY <1>2 DEF Iterates
  <2>2. \A k \in 1 .. N : \A S \in SUBSET V : step[k][S] = More(S)
        OBVIOUS
  <2> HIDE DEF step, More
  <2> QED
      BY <1>2, <2>1, <2>2 DEF Iterates
<1>4. f = [k \in 0 .. N |-> IF k = 0 THEN {n} ELSE More(f[k - 1])]
      BY <1>2, <1>3 DEF Iterates
<1>5. visited = [k \in 0 .. N |-> IF k = 0 THEN {n} ELSE More(visited[k - 1])]
      BY <1>4
<1>6. Cycle!Search(n, edges, Inside) = visited[N]
      BY DEF Cycle!Search
<1> HIDE DEF visited
<1>7. /\ visited[0] = {n}
      /\ \A k \in 1 .. N : visited[k] = More(visited[k - 1])
  <2>1. 0 \in 0 .. N /\ \A k \in 1 .. N : k \in 0 .. N /\ k # 0
        OBVIOUS
  <2> HIDE DEF More
  <2> QED
      BY <1>5, <2>1
<1> HIDE DEF More
<1>8. N \in 0 .. N
      OBVIOUS
<1>9. visited[N] \subseteq V /\ n \in visited[N] /\ visited[N] \subseteq Inside \cup {n}
  <2> DEFINE T == {k \in 0 .. N : /\ visited[k] \subseteq V /\ n \in visited[k]
                                  /\ visited[k] \subseteq Inside \cup {n}}
  <2>1. 0 \in T
        BY <1>7
  <2>2. ASSUME NEW k \in 1 .. N, k - 1 \in T PROVE k \in T
    <3>1. k \in 0 .. N /\ visited[k] = More(visited[k - 1])
          BY <1>7
    <3>2. \A x \in visited[k] : x \in visited[k - 1] \/ x \in Inside
          BY <1>0, <3>1, Zenon
    <3>3. visited[k] \subseteq V /\ n \in visited[k]
      <4>1. visited[k - 1] \subseteq V /\ n \in visited[k - 1]
            BY <2>2
      <4> QED
          BY <1>0, <1>1, <3>1, <4>1
    <3> QED
        BY <2>2, <3>1, <3>2, <3>3, Zenon
  <2>3. N \in T
    <3> HIDE DEF T
    <3> QED
        BY <1>8, <2>1, <2>2, Induction
  <2> QED
      BY <2>3
<1>10. ASSUME NEW U \in SUBSET V, n \in U, Closed(U, edges, Inside)
       PROVE  visited[N] \subseteq U
  <2> DEFINE T == {k \in 0 .. N : visited[k] \subseteq U}
  <2>1. 0 \in T
        BY <1>7, <1>10
  <2>2. ASSUME NEW k \in 1 .. N, k - 1 \in T PROVE k \in T
    <3>1. k \in 0 .. N /\ visited[k] = More(visited[k - 1])
          BY <1>7
    <3>2. visited[k - 1] \subseteq U
          BY <2>2
    <3>3. ASSUME NEW x \in visited[k] PROVE x \in U
          BY <1>0, <1>10, <3>1, <3>2, <3>3 DEF Closed
    <3> QED
        BY <3>1, <3>3
  <2>3. N \in T
    <3> HIDE DEF T
    <3> QED
        BY <1>8, <2>1, <2>2, Induction
  <2> QED
      BY <2>3
<1>11. Closed(visited[N], edges, Inside)
  <2> DEFINE Many(k) == /\ visited[k] \subseteq V
                        /\ Closed(visited[k], edges, Inside) \/ k < Cardinality(visited[k])
             T == {k \in 0 .. N : Many(k)}
  <2>1. IsFiniteSet(V) /\ Cardinality(V) = N
    <3>1. 0 \in Int /\ N - 1 \in Int /\ (N > 0 => 0 <= N - 1)
          OBVIOUS
    <3> QED
        BY <3>1, FS_Interval DEF Cycle!Nodes
  <2>2. 0 \in T
    <3>1. Cardinality({n}) = 1
          BY FS_Singleton
    <3>2. 0 \in 0 .. N /\ 0 < Cardinality(visited[0])
          BY <1>7, <3>1
    <3>3. visited[0] \subseteq V
          BY <1>7
    <3> QED
        BY <3>2, <3>3
  <2>3. ASSUME NEW k \in 1 .. N, k - 1 \in T PROVE k \in T
    <3>1. /\ visited[k] = More(visited[k - 1]) /\ visited[k - 1] \subseteq V
          /\ visited[k] \subseteq V /\ k \in 0 .. N
      <4>1. visited[k] = More(visited[k - 1]) /\ visited[k - 1] \subseteq V /\ k \in 0 .. N
            BY <1>7, <2>3
      <4> QED
          BY <1>1, <4>1, Zenon
    <3>2. CASE Closed(visited[k - 1], edges, Inside)
      <4>1. visited[k] = visited[k - 1]
        <5>1. \A x \in visited[k] : x \in visited[k - 1]
              BY <1>0, <3>1, <3>2 DEF Closed
        <5>2. \A x \in visited[k - 1] : x \in visited[k]
              BY <1>0, <3>1
        <5> QED
            BY <5>1, <5>2
      <4> QED
          BY <3>1, <3>2, <4>1, Zenon
    <3>3. CASE k - 1 < Cardinality(visited[k - 1])
      <4>1. CASE visited[k] = visited[k - 1]
        <5>1. Closed(visited[k], edges, Inside)
          <6>1. ASSUME NEW v \in visited[k - 1], NEW x \in edges[v], x \in Inside
                PROVE  x \in visited[k]
                BY <1>0, <3>1, <6>1
          <6> QED
              BY <4>1, <6>1 DEF Closed
        <5> QED
            BY <3>1, <5>1, Zenon
      <4>2. CASE visited[k] # visited[k - 1]
        <5>1. visited[k - 1] \in SUBSET visited[k]
          <6>1. \A x \in visited[k - 1] : x \in visited[k]
                BY <1>0, <3>1
          <6> QED
              BY <6>1
        <5> HIDE DEF V
        <5>2. IsFiniteSet(visited[k])
              BY <2>1, <3>1, FS_Subset
        <5>3. /\ Cardinality(visited[k - 1]) <= Cardinality(visited[k])
              /\ Cardinality(visited[k - 1]) # Cardinality(visited[k])
          <6>1. /\ Cardinality(visited[k - 1]) <= Cardinality(visited[k])
                /\ Cardinality(visited[k]) = Cardinality(visited[k - 1])
                     => visited[k] = visited[k - 1]
                BY <5>1, <5>2, FS_Subset
          <6> QED
              BY <4>2, <6>1
        <5>4. IsFiniteSet(visited[k - 1])
              BY <5>1, <5>2, FS_Subset
        <5>5. Cardinality(visited[k - 1]) \in Nat /\ Cardinality(visited[k]) \in Nat
              BY <5>2, <5>4, FS_CardinalityType
        <5>6. k < Cardinality(visited[k])
              BY <3>3, <5>3, <5>5
        <5> QED
            BY <3>1, <5>6, Zenon
      <4> QED
          BY <4>1, <4>2
    <3>4. Closed(visited[k - 1], edges, Inside) \/ k - 1 < Cardinality(visited[k - 1])
          BY <2>3, Zenon
    <3> QED
        BY <3>2, <3>3, <3>4, Zenon
  <2>4. N \in T
    <3> HIDE DEF T
    <3> QED
        BY <1>8, <2>2, <2>3, Induction
  <2>5. ~(N < Cardinality(visited[N]))
    <3>1. visited[N] \in SUBSET V
          BY <1>9
    <3> HIDE DEF V
    <3>2. Cardinality(visited[N]) <= N /\ IsFiniteSet(visited[N])
          BY <2>1, <3>1, FS_Subset
    <3>3. Cardinality(visited[N]) \in Nat
          BY <3>2, FS_CardinalityType
    <3> QED
        BY <3>2, <3>3
  <2> QED
      BY <2>4, <2>5, Zenon
<1> QED
    BY <1>6, <1>9, <1>10, <1>11

(* Nodes have ranks of their own, so a set of nodes has as many ranks.     *)
Ranked ==
  /\ rank \in [Cycle!Nodes -> Cycle!Nodes]
  /\ \A m, n \in Cycle!Nodes : rank[m] = rank[n] => m = n

LEMMA RanksOf ==
  ASSUME N \in Nat, Ranked, NEW A, A \subseteq Cycle!Nodes
  PROVE  /\ IsFiniteSet(A) /\ IsFiniteSet({rank[n] : n \in A})
         /\ Cardinality(A) \in Nat /\ Cardinality({rank[n] : n \in A}) = Cardinality(A)
         /\ {rank[n] : n \in A} \subseteq Nat
<1> DEFINE g == [n \in A |-> rank[n]]
           I == {rank[n] : n \in A}
<1>1. IsFiniteSet(Cycle!Nodes)
  <2>1. 0 \in Int /\ N - 1 \in Int
        OBVIOUS
  <2> QED
      BY <2>1, FS_Interval DEF Cycle!Nodes
<1>2. IsFiniteSet(A) /\ Cardinality(A) \in Nat
      BY <1>1, FS_Subset, FS_CardinalityType
<1>3. I \subseteq Nat
      BY DEF Ranked, Cycle!Nodes
<1>4. g \in Bijection(A, I)
  <2>1. \A x \in A : g[x] \in I
        OBVIOUS
  <2>2. \A x, y \in A : g[x] = g[y] => x = y
        BY DEF Ranked
  <2>3. \A q \in I : \E x \in A : g[x] = q
        OBVIOUS
  <2>4. g \in [A -> I]
        BY <2>1
  <2> HIDE DEF g, I
  <2> QED
      BY <2>2, <2>3, <2>4 DEF Bijection, Injection, Surjection, IsInjective
<1>5. IsFiniteSet(I) /\ Cardinality(I) = Cardinality(A)
  <2>1. ExistsBijection(A, I)
        BY <1>4 DEF ExistsBijection
  <2> HIDE DEF I
  <2> QED
      BY <1>2, <2>1, FS_Bijection
<1> QED
    BY <1>2, <1>3, <1>5

(* Reorder hands the ranks of the two sets out in the order of the list:   *)
(* the nodes of the first do not move up, and those of the second not      *)
(* down.                                                                   *)
LEMMA ReorderSpreads ==
  ASSUME N \in Nat, Ranked, NEW B, NEW F, B \subseteq Cycle!Nodes, F \subseteq Cycle!Nodes,
         B \cap F = {}
  PROVE  /\ \A n \in Cycle!Nodes \ (B \cup F) : Cycle!Reorder(B, F)[n] = rank[n]
         /\ \A n \in B \cup F : \E m \in B \cup F : Cycle!Reorder(B, F)[n] = rank[m]
         /\ \A n \in B \cup F : \A m \in Cycle!Ahead(n, B, F) :
              Cycle!Reorder(B, F)[m] < Cycle!Reorder(B, F)[n]
         /\ \A n \in B : Cycle!Reorder(B, F)[n] <= rank[n]
         /\ \A n \in F : rank[n] <= Cycle!Reorder(B, F)[n]
<1> DEFINE D == B \cup F
           M == {rank[n] : n \in D}
           H(n) == Cycle!Ahead(n, B, F)
           R == Cycle!Reorder(B, F)
<1>1. \A n \in Cycle!Nodes : rank[n] \in Nat
      BY DEF Ranked, Cycle!Nodes
<1>2. \A n \in D : n \in Cycle!Nodes /\ rank[n] \in Nat
      BY <1>1
<1>3. /\ IsFiniteSet(D) /\ IsFiniteSet(M) /\ Cardinality(D) \in Nat
      /\ Cardinality(M) = Cardinality(D) /\ M \subseteq Nat
  <2>1. D \subseteq Cycle!Nodes
        OBVIOUS
  <2> HIDE DEF D
  <2> QED
      BY <2>1, RanksOf
<1>4. \A n \in D : \A m : m \in H(n) <=> /\ m \in D
                                     /\ IF n \in B THEN m \in B /\ rank[m] < rank[n]
                                        ELSE m \in B \/ (m \in F /\ rank[m] < rank[n])
      BY DEF Cycle!Ahead
<1>5. \A n \in D : n \notin H(n) /\ H(n) \subseteq D
      BY <1>2, <1>4
<1>6. \A n \in D : \A m \in H(n) : H(m) \subseteq H(n)
  <2> SUFFICES ASSUME NEW n \in D, NEW m \in H(n), NEW x \in H(m) PROVE x \in H(n)
      OBVIOUS
  <2>1. m \in D /\ x \in D
        BY <1>5
  <2>2. \A a, b, c \in D : rank[a] < rank[b] /\ rank[b] < rank[c] => rank[a] < rank[c]
        BY <1>2
  <2> HIDE DEF H, D
  <2> QED
      BY <1>4, <2>1, <2>2, Zenon
<1>7. \A n \in D : IsFiniteSet(H(n)) /\ Cardinality(H(n)) \in Nat
      BY <1>3, <1>5, FS_Subset, FS_CardinalityType
<1>8. ASSUME NEW n \in D, NEW m \in H(n) PROVE Cardinality(H(m)) < Cardinality(H(n))
  <2>1. m \in D /\ m \notin H(m) /\ H(m) \cup {m} \subseteq H(n)
        BY <1>5, <1>6, <1>8
  <2> HIDE DEF H, D
  <2>2. Cardinality(H(m) \cup {m}) = Cardinality(H(m)) + 1
        BY <1>7, <2>1, FS_AddElement
  <2>3. Cardinality(H(m) \cup {m}) <= Cardinality(H(n))
        BY <1>7, <2>1, FS_Subset
  <2> QED
      BY <1>7, <2>1, <2>2, <2>3
<1>9. ASSUME NEW n \in D PROVE R[n] \in M /\ Place(M, R[n]) = Cardinality(H(n))
  <2>1. Cardinality(H(n)) < Cardinality(M)
    <3> HIDE DEF H, D, M
    <3>1. H(n) \cup {n} \subseteq D
          BY <1>5
    <3>2. Cardinality(H(n) \cup {n}) = Cardinality(H(n)) + 1
          BY <1>5, <1>7, FS_AddElement
    <3>3. Cardinality(H(n) \cup {n}) <= Cardinality(D)
          BY <1>3, <3>1, FS_Subset
    <3> QED
        BY <1>3, <1>7, <3>2, <3>3
  <2>2. \E r \in M : Place(M, r) = Cardinality(H(n))
    <3> HIDE DEF H, D, M
    <3> QED
        BY <1>3, <1>7, <2>1, PlaceIsTaken, ZenonT(30)
  <2> DEFINE Is(r) == Cycle!Cardinality({q \in M : q < r}) = Cycle!Cardinality(H(n))
  <2>3. R[n] = CHOOSE r \in M : Is(r)
        BY <1>2 DEF Cycle!Reorder
  <2>4. \A r : Is(r) <=> Place(M, r) = Cardinality(H(n))
        BY GraphCount DEF Place
  <2> HIDE DEF R, M, H, Is
  <2> QED
      BY <2>2, <2>3, <2>4
<1>10. \A a, b \in M : a \in Nat /\ b \in Nat /\ (Place(M, a) < Place(M, b) => a < b)
  <2> SUFFICES ASSUME NEW a \in M, NEW b \in M
               PROVE  a \in Nat /\ b \in Nat /\ (Place(M, a) < Place(M, b) => a < b)
      OBVIOUS
  <2>1. a \in Nat /\ b \in Nat
        BY <1>3
  <2> HIDE DEF M
  <2>2. b < a => /\ Place(M, a) \in Nat /\ Place(M, b) \in Nat
                 /\ Place(M, b) < Place(M, a)
        BY <1>3, <2>1, PlaceGrows
  <2>3. Place(M, a) \in Nat
    <3>1. IsFiniteSet({q \in M : q < a})
          BY <1>3, FS_Subset
    <3> QED
        BY <3>1, FS_CardinalityType DEF Place
  <2> QED
      BY <2>1, <2>2, <2>3
<1>11. ASSUME NEW n \in D, NEW m \in H(n) PROVE R[m] < R[n]
  <2>1. m \in D
        BY <1>5, <1>11
  <2> HIDE DEF R, M, H, D
  <2> QED
      BY <1>8, <1>9, <1>10, <1>11, <2>1
<1>12. \A n \in D : rank[n] \in M
      OBVIOUS
<1>13. ASSUME NEW n \in D
       PROVE  /\ IsFiniteSet({rank[m] : m \in H(n)})
              /\ Cardinality({rank[m] : m \in H(n)}) = Cardinality(H(n))
              /\ IsFiniteSet({q \in M : q < rank[n]})
  <2>1. H(n) \subseteq Cycle!Nodes
        BY <1>2, <1>5
  <2>2. {q \in M : q < rank[n]} \subseteq M
        OBVIOUS
  <2> HIDE DEF H, M
  <2> QED
      BY <1>3, <2>1, <2>2, RanksOf, FS_Subset
<1>14. ASSUME NEW n \in B PROVE R[n] <= rank[n]
  <2>1. n \in D
        OBVIOUS
  <2>2. {rank[m] : m \in H(n)} \subseteq {q \in M : q < rank[n]}
    <3>1. \A m \in H(n) : m \in D /\ rank[m] < rank[n]
          BY <1>4, <2>1
    <3> HIDE DEF H, D
    <3> QED
        BY <3>1
  <2> HIDE DEF R, M, H, D
  <2>3. Cardinality(H(n)) <= Place(M, rank[n])
        BY <1>13, <2>1, <2>2, FS_Subset DEF Place
  <2>4. Place(M, R[n]) <= Place(M, rank[n])
        BY <1>9, <2>1, <2>3
  <2>5. /\ R[n] \in M /\ rank[n] \in M /\ R[n] \in Nat /\ rank[n] \in Nat
        /\ Place(M, R[n]) \in Nat
        BY <1>7, <1>9, <1>10, <1>12, <2>1
  <2>6. rank[n] < R[n] => /\ Place(M, rank[n]) \in Nat /\ Place(M, R[n]) \in Nat
                          /\ Place(M, rank[n]) < Place(M, R[n])
        BY <1>3, <2>5, PlaceGrows
  <2> QED
      BY <2>4, <2>5, <2>6
<1>15. ASSUME NEW n \in F PROVE rank[n] <= R[n]
  <2>1. n \in D /\ n \notin B
        OBVIOUS
  <2>2. {q \in M : q < rank[n]} \subseteq {rank[m] : m \in H(n)}
    <3>1. \A m \in D : rank[m] < rank[n] => m \in H(n)
          BY <1>4, <2>1
    <3> HIDE DEF H, D
    <3> QED
        BY <3>1
  <2> HIDE DEF R, M, H, D
  <2>3. Place(M, rank[n]) <= Cardinality(H(n))
    <3> DEFINE X == {rank[m] : m \in H(n)}
               Y == {q \in M : q < rank[n]}
    <3>1. Cardinality(Y) <= Cardinality(X)
      <4>1. Y \in SUBSET X /\ IsFiniteSet(X)
            BY <1>13, <2>1, <2>2
      <4> HIDE DEF X, Y
      <4> QED
          BY <4>1, FS_Subset
    <3> QED
        BY <1>13, <2>1, <3>1 DEF Place
  <2>4. Place(M, rank[n]) <= Place(M, R[n])
        BY <1>9, <2>1, <2>3
  <2>5. /\ R[n] \in M /\ rank[n] \in M /\ R[n] \in Nat /\ rank[n] \in Nat
        /\ Place(M, R[n]) \in Nat
        BY <1>7, <1>9, <1>10, <1>12, <2>1
  <2>6. R[n] < rank[n] => /\ Place(M, R[n]) \in Nat /\ Place(M, rank[n]) \in Nat
                          /\ Place(M, R[n]) < Place(M, rank[n])
        BY <1>3, <2>5, PlaceGrows
  <2> QED
      BY <2>4, <2>5, <2>6
<1>16. \A n \in Cycle!Nodes \ D : R[n] = rank[n]
      BY DEF Cycle!Reorder
<1> QED
    BY <1>9, <1>11, <1>14, <1>15, <1>16

(* The ranks of the nodes in use are a permutation, which the edges, known *)
(* at both of their ends, follow.                                          *)
InUse == {n \in Cycle!Nodes : n < size}

GraphIInv ==
  /\ Ranked /\ size \in 0..N
  /\ \A n \in Cycle!Nodes : IF n \in InUse THEN rank[n] \in InUse ELSE rank[n] = n
  /\ out \in [Cycle!Nodes -> SUBSET InUse] /\ in \in [Cycle!Nodes -> SUBSET InUse]
  /\ \A m, n \in Cycle!Nodes : m \in out[n] <=> n \in in[m]
  /\ \A n \in Cycle!Nodes : \A m \in out[n] : rank[n] < rank[m]

(* Ranks are numbers.                                                      *)
LEMMA RankIsNat ==
  ASSUME N \in Nat, GraphIInv
  PROVE  InUse \subseteq Cycle!Nodes /\ \A n \in Cycle!Nodes : rank[n] \in Nat
BY DEF InUse, GraphIInv, Ranked, Cycle!Nodes

(* What InsertEdge's searches from y and from x find, if they find no      *)
(* cycle: nodes in use with ranks from y's to x's, and nothing that could  *)
(* be found is missed.                                                     *)
LEMMA SearchesFind ==
  ASSUME N \in Nat, GraphIInv, NEW x \in InUse, NEW y \in InUse, x # y, Cycle!OutOfOrder(x, y),
         NEW F, F = Cycle!ForwardDFS(Cycle!NewOut(x, y), y, rank[x]),
         NEW B, B = Cycle!BackwardDFS(Cycle!NewIn(x, y), F, x, rank[y])
  PROVE  /\ F \subseteq InUse /\ B \subseteq InUse /\ B \cap F = {} /\ y \in F /\ x \in B
         /\ \A v \in F : rank[y] <= rank[v] /\ rank[v] < rank[x]
         /\ \A v \in B : rank[y] < rank[v] /\ rank[v] <= rank[x]
         /\ \A v \in F : \A w \in out[v] : rank[w] < rank[x] => w \in F
         /\ \A v \in B : \A w \in in[v] : w \notin F /\ rank[y] < rank[w] => w \in B
         /\ Cycle!FindsCycle(Cycle!NewOut(x, y), F, rank[x])
              <=> \E v \in F : \E w \in out[v] : rank[w] = rank[x]
<1> DEFINE V == Cycle!Nodes
           o == Cycle!NewOut(x, y)
           i_ == Cycle!NewIn(x, y)
           Low == {w \in V : rank[w] < rank[x]}
           High == {w \in V : w \notin F /\ rank[y] < rank[w]}
<1>1. /\ x \in V /\ y \in V /\ rank[y] < rank[x] /\ InUse \subseteq V
      /\ \A n \in V : rank[n] \in Nat
  <2>1. InUse \subseteq V /\ \A n \in V : rank[n] \in Nat
        BY RankIsNat
  <2>2. rank[x] > rank[y]
        BY DEF Cycle!OutOfOrder
  <2> QED
      BY <2>1, <2>2
<1>2. /\ out \in [V -> SUBSET InUse] /\ in \in [V -> SUBSET InUse]
      /\ \A n \in V : \A m \in out[n] : m \in V /\ m \in InUse /\ rank[n] < rank[m]
      /\ \A n \in V : \A m \in in[n] : m \in V /\ m \in InUse /\ rank[m] < rank[n]
      BY <1>1 DEF GraphIInv
<1>3. /\ o \in [V -> SUBSET V] /\ \A n \in V : o[n] = IF n = x THEN out[x] \cup {y} ELSE out[n]
      /\ i_ \in [V -> SUBSET V] /\ \A n \in V : i_[n] = IF n = y THEN in[y] \cup {x} ELSE in[n]
      BY <1>1, <1>2 DEF Cycle!NewOut, Cycle!NewIn
<1>4. /\ F \subseteq V /\ y \in F /\ F \subseteq Low \cup {y} /\ Closed(F, o, Low)
      /\ \A T \in SUBSET V : y \in T /\ Closed(T, o, Low) => F \subseteq T
  <2>1. F = Cycle!Search(y, o, Low)
        BY DEF Cycle!ForwardDFS
  <2> HIDE DEF o, Low
  <2> QED
      BY <1>1, <1>3, <2>1, SearchCloses
<1>5. \A v \in F : v \in V /\ rank[v] < rank[x]
      BY <1>1, <1>4
<1>6. x \notin F
      BY <1>1, <1>5
<1>7. \A v \in F : o[v] = out[v]
      BY <1>3, <1>5, <1>6
<1>8. \A v \in F : v \in InUse /\ rank[y] <= rank[v]
  <2> DEFINE T == {v \in V : v \in InUse /\ rank[y] <= rank[v]}
  <2>1. ASSUME NEW v \in T, NEW w \in o[v], w \in Low PROVE w \in T
    <3>1. CASE w \in out[v]
      <4>1. w \in V /\ w \in InUse /\ rank[v] < rank[w]
            BY <1>2, <3>1
      <4> QED
          BY <1>1, <4>1
    <3>2. CASE w = y
          BY <1>1, <3>2
    <3> QED
        BY <1>3, <2>1, <3>1, <3>2
  <2>2. y \in T /\ T \in SUBSET V
        BY <1>1
  <2>3. Closed(T, o, Low)
    <3> HIDE DEF T, o, Low
    <3> QED
        BY <2>1 DEF Closed
  <2>4. F \subseteq T
    <3> HIDE DEF T, o, Low
    <3> QED
        BY <1>4, <2>2, <2>3
  <2> QED
      BY <2>4
<1>9. /\ B \subseteq V /\ x \in B /\ B \subseteq High \cup {x} /\ Closed(B, i_, High)
      /\ \A T \in SUBSET V : x \in T /\ Closed(T, i_, High) => B \subseteq T
  <2>1. B = Cycle!Search(x, i_, High)
        BY DEF Cycle!BackwardDFS
  <2> HIDE DEF i_, High
  <2> QED
      BY <1>1, <1>3, <2>1, SearchCloses
<1>10. \A v \in B : v \in V /\ v \notin F /\ rank[y] < rank[v]
       BY <1>1, <1>6, <1>9
<1>11. \A v \in B : i_[v] = in[v]
       BY <1>1, <1>3, <1>10
<1>12. \A v \in B : v \in InUse /\ rank[v] <= rank[x]
  <2> DEFINE T == {v \in V : v \in InUse /\ rank[v] <= rank[x]}
  <2>1. ASSUME NEW v \in T, NEW w \in i_[v], w \in High PROVE w \in T
    <3>1. CASE w \in in[v]
      <4>1. w \in V /\ w \in InUse /\ rank[w] < rank[v]
            BY <1>2, <3>1
      <4> QED
          BY <1>1, <4>1
    <3>2. CASE w = x
          BY <1>1, <3>2
    <3> QED
        BY <1>3, <2>1, <3>1, <3>2
  <2>2. x \in T /\ T \in SUBSET V
        BY <1>1
  <2>3. Closed(T, i_, High)
    <3> HIDE DEF T, i_, High
    <3> QED
        BY <2>1 DEF Closed
  <2>4. B \subseteq T
    <3> HIDE DEF T, i_, High
    <3> QED
        BY <1>9, <2>2, <2>3
  <2> QED
      BY <2>4
<1>13. \A v \in F : \A w \in out[v] : rank[w] < rank[x] => w \in F
  <2>1. \A v \in F : \A w \in o[v] : w \in Low => w \in F
    <3> HIDE DEF o, Low
    <3> QED
        BY <1>4 DEF Closed
  <2> QED
      BY <1>2, <1>5, <1>7, <2>1
<1>14. \A v \in B : \A w \in in[v] : w \notin F /\ rank[y] < rank[w] => w \in B
  <2>1. \A v \in B : \A w \in i_[v] : w \in High => w \in B
    <3> HIDE DEF i_, High
    <3> QED
        BY <1>9 DEF Closed
  <2> QED
      BY <1>2, <1>10, <1>11, <2>1
<1>15. Cycle!FindsCycle(o, F, rank[x]) <=> \E v \in F : \E w \in out[v] : rank[w] = rank[x]
  <2> HIDE DEF o
  <2> QED
      BY <1>7 DEF Cycle!FindsCycle
<1>16. B \cap F = {}
       BY <1>10
<1> QED
    BY <1>4, <1>5, <1>8, <1>9, <1>10, <1>12, <1>13, <1>14, <1>15, <1>16

(* Reordering leaves the ranks a permutation, and the edges, with the new  *)
(* one, follow them.                                                       *)
LEMMA ReorderKeeps ==
  ASSUME N \in Nat, GraphIInv, NEW x \in InUse, NEW y \in InUse, x # y, Cycle!OutOfOrder(x, y),
         NEW F, F = Cycle!ForwardDFS(Cycle!NewOut(x, y), y, rank[x]),
         NEW B, B = Cycle!BackwardDFS(Cycle!NewIn(x, y), F, x, rank[y]),
         ~Cycle!FindsCycle(Cycle!NewOut(x, y), F, rank[x]),
         rank' = Cycle!Reorder(B, F), out' = Cycle!NewOut(x, y), size' = size
  PROVE  /\ Ranked'
         /\ \A n \in Cycle!Nodes : IF n \in InUse' THEN rank'[n] \in InUse' ELSE rank'[n] = n
         /\ \A n \in Cycle!Nodes : \A m \in out'[n] : rank'[n] < rank'[m]
<1> DEFINE V == Cycle!Nodes
           D == B \cup F
<1>1. /\ F \subseteq InUse /\ B \subseteq InUse /\ B \cap F = {} /\ y \in F /\ x \in B
      /\ \A v \in F : rank[y] <= rank[v] /\ rank[v] < rank[x]
      /\ \A v \in B : rank[y] < rank[v] /\ rank[v] <= rank[x]
      /\ \A v \in F : \A w \in out[v] : rank[w] < rank[x] => w \in F
      /\ \A v \in B : \A w \in in[v] : w \notin F /\ rank[y] < rank[w] => w \in B
      /\ \A v \in F : \A w \in out[v] : rank[w] # rank[x]
      BY SearchesFind
<1>2. /\ x \in V /\ y \in V /\ InUse \subseteq V /\ InUse' = InUse
      /\ \A n \in V : rank[n] \in Nat
  <2>1. InUse' = InUse
        BY DEF InUse
  <2>2. x \in V /\ y \in V /\ InUse \subseteq V /\ \A n \in V : rank[n] \in Nat
        BY RankIsNat
  <2> QED
      BY <2>1, <2>2
<1>3. /\ \A n \in V \ D : rank'[n] = rank[n]
      /\ \A n \in D : \E m \in D : rank'[n] = rank[m]
      /\ \A n \in D : \A m \in Cycle!Ahead(n, B, F) : rank'[m] < rank'[n]
      /\ \A n \in B : rank'[n] <= rank[n]
      /\ \A n \in F : rank[n] <= rank'[n]
  <2>1. Ranked /\ B \subseteq V /\ F \subseteq V
        BY <1>1, <1>2 DEF GraphIInv
  <2> QED
      BY <1>1, <2>1, ReorderSpreads
<1>4. /\ \A n \in B : \A m \in B : rank[m] < rank[n] => rank'[m] < rank'[n]
      /\ \A n \in F : \A m \in B : rank'[m] < rank'[n]
      /\ \A n \in F : \A m \in F : rank[m] < rank[n] => rank'[m] < rank'[n]
      BY <1>1, <1>3 DEF Cycle!Ahead
<1>5. \A n \in D : n \in V /\ n \in InUse /\ rank[y] <= rank[n] /\ rank[n] <= rank[x]
      BY <1>1, <1>2
<1>6. \A n \in D : /\ rank'[n] \in Nat /\ rank[y] <= rank'[n] /\ rank'[n] <= rank[x]
                   /\ rank'[n] \in InUse
  <2> SUFFICES ASSUME NEW n \in D
               PROVE  /\ rank'[n] \in Nat /\ rank[y] <= rank'[n] /\ rank'[n] <= rank[x]
                      /\ rank'[n] \in InUse
      OBVIOUS
  <2>1. PICK m \in D : rank'[n] = rank[m]
        BY <1>3
  <2>2. rank[m] \in InUse
        BY <1>5, <2>1 DEF GraphIInv
  <2> QED
      BY <1>2, <1>5, <2>1, <2>2
<1>7. rank' \in [V -> V]
  <2>1. \A n \in V : rank'[n] \in V
        BY <1>2, <1>3, <1>6 DEF GraphIInv, Ranked
  <2>2. rank' = [n \in V |-> rank'[n]]
        BY DEF Cycle!Reorder
  <2> HIDE DEF V
  <2> QED
      BY <2>1, <2>2
<1>8. ASSUME NEW m \in V, NEW n \in V, rank'[m] = rank'[n] PROVE m = n
  <2> \A a, b \in V : rank[a] = rank[b] => a = b
      BY DEF GraphIInv, Ranked
  <2>1. CASE m \notin D /\ n \notin D
        BY <1>3, <1>8, <2>1
  <2>2. \A a \in D : \A b \in V \ D : rank'[a] # rank'[b]
        BY <1>3, <1>5
  <2>3. CASE m \in D /\ n \in D
    <3>1. /\ \A a, b \in D : rank[a] < rank[b] \/ a = b \/ rank[b] < rank[a]
          /\ \A a, b \in D : rank'[a] < rank'[b] => rank'[a] # rank'[b]
          BY <1>2, <1>5, <1>6
    <3> QED
        BY <1>4, <1>8, <2>3, <3>1
  <2> QED
      BY <1>8, <2>1, <2>2, <2>3
<1>9. \A n \in V : IF n \in InUse' THEN rank'[n] \in InUse' ELSE rank'[n] = n
      BY <1>2, <1>3, <1>5, <1>6 DEF GraphIInv
<1>10. ASSUME NEW u \in V, NEW v \in out'[u] PROVE rank'[u] < rank'[v]
  <2>1. (u = x /\ v = y) \/ v \in out[u]
        BY <1>2 DEF Cycle!NewOut, GraphIInv
  <2>2. CASE u = x /\ v = y
        BY <1>1, <1>4, <2>2
  <2>3. CASE v \in out[u]
    <3>1. v \in V /\ rank[u] < rank[v] /\ u \in in[v] /\ rank[u] \in Nat /\ rank[v] \in Nat
          BY <1>2, <2>3 DEF GraphIInv
    <3>2. CASE u \in F
      <4>1. v \notin B
            BY <1>1, <1>2, <2>3, <3>1, <3>2
      <4>2. CASE v \in F
            BY <1>4, <3>1, <3>2, <4>2
      <4>3. CASE v \notin D
        <5>1. rank[x] < rank[v] /\ rank'[u] <= rank[x]
              BY <1>1, <1>2, <1>6, <2>3, <3>1, <3>2, <4>3
        <5> QED
            BY <1>2, <1>3, <1>6, <3>1, <3>2, <4>3, <5>1
      <4> QED
          BY <4>1, <4>2, <4>3
    <3>3. CASE u \in B
      <4>1. CASE v \in D
            BY <1>4, <3>1, <3>3, <4>1
      <4>2. CASE v \notin D
        <5>1. rank'[u] <= rank[u] /\ rank'[u] \in Nat /\ rank'[v] = rank[v]
              BY <1>3, <1>6, <3>1, <3>3, <4>2
        <5> QED
            BY <3>1, <5>1
      <4> QED
          BY <4>1, <4>2
    <3>4. CASE u \notin D
      <4>0. rank'[u] = rank[u]
            BY <1>3, <3>4
      <4>1. CASE v \in F
        <5>1. rank[v] <= rank'[v] /\ rank'[v] \in Nat
              BY <1>3, <1>6, <4>1
        <5> QED
            BY <3>1, <4>0, <5>1
      <4>2. CASE v \in B
        <5>1. rank[u] <= rank[y] /\ rank[u] # rank[y]
              BY <1>1, <1>2, <3>1, <3>4, <4>2 DEF GraphIInv, Ranked
        <5>2. rank[y] <= rank'[v] /\ rank'[v] \in Nat /\ rank[y] \in Nat
              BY <1>2, <1>6, <4>2
        <5> QED
            BY <3>1, <4>0, <5>1, <5>2
      <4>3. CASE v \notin D
            BY <1>3, <3>1, <3>4, <4>3
      <4> QED
          BY <4>1, <4>2, <4>3
    <3> QED
        BY <3>2, <3>3, <3>4
  <2> QED
      BY <2>1, <2>2, <2>3
<1>11. Ranked'
       BY <1>7, <1>8 DEF Ranked
<1> QED
    BY <1>9, <1>10, <1>11

(* InsertEdge refuses an edge x -> y exactly if a path leads from y to x:  *)
(* what is behind y with a rank beyond x's does not lead back.             *)
LEMMA RefusesCycles ==
  ASSUME N \in Nat, GraphIInv, NEW x \in InUse, NEW y \in InUse
  PROVE  Cycle!Refuses(x, y) <=> x \in Cycle!Search(y, out, Cycle!Nodes)
<1> DEFINE V == Cycle!Nodes
           S == Cycle!Search(y, out, V)
           F == Cycle!ForwardDFS(Cycle!NewOut(x, y), y, rank[x])
           B == Cycle!BackwardDFS(Cycle!NewIn(x, y), F, x, rank[y])
<1>1. /\ x \in V /\ y \in V /\ InUse \subseteq V /\ \A n \in V : rank[n] \in Nat
      /\ out \in [V -> SUBSET V]
      BY RankIsNat DEF GraphIInv
<1>2. /\ S \subseteq V /\ y \in S /\ Closed(S, out, V)
      /\ \A T \in SUBSET V : y \in T /\ Closed(T, out, V) => S \subseteq T
  <2> QED
      BY <1>1, SearchCloses
<1>3. \A n \in V : \A m \in out[n] : m \in V /\ rank[n] < rank[m]
      BY <1>1 DEF GraphIInv
<1> HIDE DEF V, S
<1>4. CASE x = y
      BY <1>2, <1>4 DEF Cycle!Refuses, S, V
<1>5. CASE x # y /\ ~Cycle!OutOfOrder(x, y)
  <2>1. rank[x] < rank[y]
    <3>1. rank[x] # rank[y]
          BY <1>1, <1>5 DEF GraphIInv, Ranked, V
    <3>2. y \in out[x] \/ ~(rank[x] > rank[y])
          BY <1>5 DEF Cycle!OutOfOrder
    <3> QED
        BY <1>1, <1>3, <3>1, <3>2
  <2> DEFINE T == {w \in V : rank[y] <= rank[w]}
  <2>2. T \in SUBSET V /\ y \in T
        BY <1>1
  <2>3. ASSUME NEW v \in T, NEW w \in out[v] PROVE w \in T
        BY <1>1, <1>3
  <2>4. Closed(T, out, V)
    <3> HIDE DEF T
    <3> QED
        BY <2>3 DEF Closed
  <2>5. S \subseteq T
    <3> HIDE DEF T
    <3> QED
        BY <1>2, <2>2, <2>4
  <2>6. x \notin S
        BY <1>1, <2>1, <2>5
  <2> QED
      BY <1>5, <2>6 DEF Cycle!Refuses, S, V
<1>6. CASE x # y /\ Cycle!OutOfOrder(x, y)
  <2>1. /\ F \subseteq InUse /\ y \in F
        /\ \A v \in F : rank[v] < rank[x]
        /\ \A v \in F : \A w \in out[v] : rank[w] < rank[x] => w \in F
        /\ Cycle!FindsCycle(Cycle!NewOut(x, y), F, rank[x])
             <=> \E v \in F : \E w \in out[v] : rank[w] = rank[x]
        BY <1>6, SearchesFind
  <2>2. Cycle!Refuses(x, y) <=> \E v \in F : \E w \in out[v] : rank[w] = rank[x]
        BY <1>6, <2>1 DEF Cycle!Refuses
  <2>3. \A w \in V : rank[w] = rank[x] => w = x
        BY <1>1 DEF GraphIInv, Ranked, V
  <2>4. F \subseteq S
    <3> DEFINE o == Cycle!NewOut(x, y)
               Low == {w \in V : rank[w] < rank[x]}
               T == {w \in S : rank[w] < rank[x]}
    <3>1. /\ o \in [V -> SUBSET V]
          /\ \A n \in V : o[n] = IF n = x THEN out[x] \cup {y} ELSE out[n]
          BY <1>1 DEF Cycle!NewOut
    <3>2. \A W \in SUBSET V : y \in W /\ Closed(W, o, Low) => F \subseteq W
      <4>1. F = Cycle!Search(y, o, Low)
            BY DEF Cycle!ForwardDFS, V
      <4> HIDE DEF F, o, Low
      <4> QED
          BY <1>1, <3>1, <4>1, SearchCloses DEF V
    <3>3. T \in SUBSET V /\ y \in T
          BY <1>1, <1>2, <2>1
    <3>4. ASSUME NEW v \in T, NEW w \in o[v], w \in Low PROVE w \in T
      <4>1. v \in V /\ v # x /\ v \in S
            BY <1>1, <1>2
      <4>2. w \in out[v] /\ w \in V
            BY <3>1, <3>4, <4>1
      <4>3. w \in S
            BY <1>2, <4>1, <4>2 DEF Closed
      <4> QED
          BY <3>4, <4>3
    <3>5. Closed(T, o, Low)
      <4> HIDE DEF T, o, Low
      <4> QED
          BY <3>4 DEF Closed
    <3> HIDE DEF T
    <3>6. F \subseteq T
          BY <3>2, <3>3, <3>5
    <3> QED
        BY <3>6 DEF T
  <2>5. ASSUME NEW v \in F, NEW w \in out[v], rank[w] = rank[x] PROVE x \in S
    <3> HIDE DEF F
    <3>1. v \in V /\ v \in S /\ w \in V
          BY <1>1, <1>3, <2>1, <2>4
    <3>2. w \in S /\ w = x
          BY <1>2, <2>3, <2>5, <3>1 DEF Closed
    <3> QED
        BY <3>2
  <2>6. ASSUME \A v \in F : \A w \in out[v] : rank[w] # rank[x] PROVE x \notin S
    <3> HIDE DEF F
    <3> DEFINE T == F \cup {w \in V : rank[x] < rank[w]}
    <3>1. T \in SUBSET V /\ y \in T /\ x \notin T
          BY <1>1, <2>1
    <3>2. ASSUME NEW v \in T, NEW w \in out[v] PROVE w \in T
      <4>1. v \in V /\ w \in V /\ rank[v] < rank[w] /\ rank[v] \in Nat /\ rank[w] \in Nat
            BY <1>1, <1>3, <3>1
      <4>2. CASE v \in F
            BY <1>1, <2>1, <2>6, <4>1, <4>2
      <4>3. CASE rank[x] < rank[v]
            BY <1>1, <4>1, <4>3
      <4> QED
          BY <4>2, <4>3
    <3>3. Closed(T, out, V)
      <4> HIDE DEF T
      <4> QED
          BY <3>2 DEF Closed
    <3> HIDE DEF T
    <3>4. S \subseteq T
          BY <1>2, <3>1, <3>3
    <3> QED
        BY <3>1, <3>4
  <2> QED
      BY <2>2, <2>5, <2>6 DEF S, V
<1> QED
    BY <1>4, <1>5, <1>6

(* What a client may name is in use.                                       *)
LEMMA IssuedInUse ==
  ASSUME N \in Nat, GraphIInv
  PROVE  \A id \in Cycle!IssuedIds : id.index \in InUse
<1>1. \A id \in Cycle!Ids : id.index \in 0..size - 1
      BY DEF Cycle!Ids
<1>2. 0..size - 1 \subseteq InUse
      BY DEF InUse, GraphIInv, Cycle!Nodes
<1> QED
    BY <1>1, <1>2 DEF Cycle!IssuedIds

LEMMA GraphInit == ASSUME N \in Nat PROVE Cycle!Init => GraphIInv
<1> SUFFICES ASSUME Cycle!Init PROVE GraphIInv
    OBVIOUS
<1>1. InUse = {}
      BY DEF InUse, Cycle!Init, Cycle!Nodes
<1>2. Ranked /\ \A n \in Cycle!Nodes : rank[n] = n
      BY DEF Ranked, Cycle!Init
<1>3. size \in 0..N
      BY DEF Cycle!Init
<1>4. /\ in = [n \in Cycle!Nodes |-> {}] /\ out = [n \in Cycle!Nodes |-> {}]
      BY DEF Cycle!Init
<1> QED
    BY <1>1, <1>2, <1>3, <1>4 DEF GraphIInv

(* Every call keeps it.                                                    *)
LEMMA NewNodeStep == ASSUME N \in Nat, GraphIInv, Cycle!GetId PROVE GraphIInv'
<1>1. CASE UNCHANGED <<size, rank>>
  <2>1. InUse' = InUse /\ UNCHANGED <<rank, in, out, size>>
        BY <1>1 DEF InUse, Cycle!GetId
  <2> QED
      BY <2>1 DEF GraphIInv, Ranked
<1>2. CASE size < N /\ size' = size + 1 /\ rank' = [rank EXCEPT ![size] = size]
  <2>1. size \in Cycle!Nodes /\ size \notin InUse
        BY <1>2 DEF InUse, GraphIInv, Cycle!Nodes
  <2>2. rank' = rank
        BY <1>2, <2>1 DEF GraphIInv, Ranked
  <2>3. InUse' = InUse \cup {size}
        BY <1>2 DEF InUse, GraphIInv, Cycle!Nodes
  <2>4. UNCHANGED <<in, out>> /\ size' \in 0..N
        BY <1>2 DEF Cycle!GetId, GraphIInv
  <2>5. \A n \in Cycle!Nodes : IF n \in InUse' THEN rank[n] \in InUse' ELSE rank[n] = n
        BY <2>1, <2>3 DEF GraphIInv
  <2>6. InUse \subseteq InUse'
        BY <2>3
  <2>7. out \in [Cycle!Nodes -> SUBSET InUse'] /\ in \in [Cycle!Nodes -> SUBSET InUse']
        BY <2>6 DEF GraphIInv
  <2>8. Ranked'
        BY <2>2 DEF GraphIInv, Ranked
  <2> QED
      BY <2>2, <2>4, <2>5, <2>7, <2>8 DEF GraphIInv
<1> QED
    BY <1>1, <1>2 DEF Cycle!GetId

(* When the ranks stay and no edge is added, only the edges' two ends can  *)
(* come to differ.                                                         *)
LEMMA FewerEdges ==
  ASSUME N \in Nat, GraphIInv, size' = size, rank' = rank,
         NEW o, o = out', NEW i_, i_ = in',
         o \in [Cycle!Nodes -> SUBSET InUse], i_ \in [Cycle!Nodes -> SUBSET InUse],
         \A n \in Cycle!Nodes : o[n] \subseteq out[n],
         \A m, n \in Cycle!Nodes : m \in o[n] <=> n \in i_[m]
  PROVE  GraphIInv'
<1>1. InUse' = InUse
      BY DEF InUse
<1>2. Ranked'
      BY DEF GraphIInv, Ranked
<1>3. \A n \in Cycle!Nodes : IF n \in InUse' THEN rank'[n] \in InUse' ELSE rank'[n] = n
      BY <1>1 DEF GraphIInv
<1>4. \A n \in Cycle!Nodes : \A m \in o[n] : rank'[n] < rank'[m]
      BY DEF GraphIInv
<1>5. size' \in 0..N
      BY DEF GraphIInv
<1> QED
    BY <1>1, <1>2, <1>3, <1>4, <1>5 DEF GraphIInv

LEMMA RemoveNodeStep ==
  ASSUME N \in Nat, GraphIInv, NEW n \in Cycle!Nodes, Cycle!RemoveNode(n)
  PROVE  GraphIInv'
<1>1. /\ size' = size /\ rank' = rank
      /\ in' = [m \in Cycle!Nodes |->
                  IF m = n THEN {} ELSE IF m \in out[n] THEN in[m] \ {n} ELSE in[m]]
      /\ out' = [m \in Cycle!Nodes |->
                   IF m = n THEN {} ELSE IF m \in in[n] THEN out[m] \ {n} ELSE out[m]]
      BY DEF Cycle!RemoveNode
<1>2. /\ out \in [Cycle!Nodes -> SUBSET InUse] /\ in \in [Cycle!Nodes -> SUBSET InUse]
      /\ \A l, m \in Cycle!Nodes : l \in out[m] <=> m \in in[l]
      BY DEF GraphIInv
<1>3. out' \in [Cycle!Nodes -> SUBSET InUse] /\ in' \in [Cycle!Nodes -> SUBSET InUse]
      BY <1>1, <1>2
<1>4. \A m \in Cycle!Nodes : out'[m] \subseteq out[m]
      BY <1>1, <1>2
<1>5. \A l, m \in Cycle!Nodes : l \in out'[m] <=> m \in in'[l]
      BY <1>1, <1>2
<1> QED
    BY <1>1, <1>3, <1>4, <1>5, FewerEdges

LEMMA RemoveEdgeStep ==
  ASSUME N \in Nat, GraphIInv, NEW idx \in Cycle!IssuedIds, NEW idy \in Cycle!IssuedIds,
         Cycle!RemoveEdge(idx, idy)
  PROVE  GraphIInv'
<1> DEFINE x == idx.index
           y == idy.index
<1>1. /\ size' = size /\ rank' = rank /\ x \in Cycle!Nodes /\ y \in Cycle!Nodes
      /\ out' = [out EXCEPT ![x] = @ \ {y}] /\ in' = [in EXCEPT ![y] = @ \ {x}]
      BY IssuedInUse, RankIsNat DEF Cycle!RemoveEdge
<1> HIDE DEF x, y
<1>2. /\ out \in [Cycle!Nodes -> SUBSET InUse] /\ in \in [Cycle!Nodes -> SUBSET InUse]
      /\ \A l, m \in Cycle!Nodes : l \in out[m] <=> m \in in[l]
      BY DEF GraphIInv
<1>3. out' \in [Cycle!Nodes -> SUBSET InUse] /\ in' \in [Cycle!Nodes -> SUBSET InUse]
      BY <1>1, <1>2
<1>4. \A m \in Cycle!Nodes : out'[m] \subseteq out[m]
      BY <1>1, <1>2
<1>5. \A l, m \in Cycle!Nodes : l \in out'[m] <=> m \in in'[l]
      BY <1>1, <1>2
<1> QED
    BY <1>1, <1>3, <1>4, <1>5, FewerEdges, ZenonT(30)

LEMMA InsertEdgeStep ==
  ASSUME N \in Nat, GraphIInv, NEW idx \in Cycle!IssuedIds, NEW idy \in Cycle!IssuedIds,
         Cycle!InsertEdge(idx, idy)
  PROVE  GraphIInv'
<1> DEFINE x == idx.index
           y == idy.index
           F == Cycle!ForwardDFS(Cycle!NewOut(x, y), y, rank[x])
           B == Cycle!BackwardDFS(Cycle!NewIn(x, y), F, x, rank[y])
<1>1. /\ size' = size /\ x \in InUse /\ y \in InUse /\ ~Cycle!Refuses(x, y)
      /\ out' = Cycle!NewOut(x, y) /\ in' = Cycle!NewIn(x, y)
      /\ rank' = IF Cycle!OutOfOrder(x, y) THEN Cycle!Reorder(B, F) ELSE rank
      BY IssuedInUse DEF Cycle!InsertEdge
<1> HIDE DEF x, y
<1>2. x \in Cycle!Nodes /\ y \in Cycle!Nodes
      BY <1>1, RankIsNat
<1>3. InUse' = InUse
      BY <1>1 DEF InUse
<1>4. /\ out' \in [Cycle!Nodes -> SUBSET InUse'] /\ in' \in [Cycle!Nodes -> SUBSET InUse']
      /\ \A m, n \in Cycle!Nodes : m \in out'[n] <=> n \in in'[m]
  <2>1. /\ out' = [out EXCEPT ![x] = @ \cup {y}] /\ in' = [in EXCEPT ![y] = @ \cup {x}]
        BY <1>1 DEF Cycle!NewOut, Cycle!NewIn
  <2>2. /\ out \in [Cycle!Nodes -> SUBSET InUse] /\ in \in [Cycle!Nodes -> SUBSET InUse]
        /\ \A l, m \in Cycle!Nodes : l \in out[m] <=> m \in in[l]
        BY DEF GraphIInv
  <2>3. out' \in [Cycle!Nodes -> SUBSET InUse] /\ in' \in [Cycle!Nodes -> SUBSET InUse]
        BY <1>1, <1>2, <2>1, <2>2
  <2>4. \A m, n \in Cycle!Nodes : m \in out'[n] <=> n \in in'[m]
        BY <1>2, <2>1, <2>2
  <2> QED
      BY <1>3, <2>3, <2>4
<1>5. /\ Ranked'
      /\ \A n \in Cycle!Nodes : IF n \in InUse' THEN rank'[n] \in InUse' ELSE rank'[n] = n
      /\ \A n \in Cycle!Nodes : \A m \in out'[n] : rank'[n] < rank'[m]
  <2>1. CASE Cycle!OutOfOrder(x, y)
    <3>1. x # y /\ ~Cycle!FindsCycle(Cycle!NewOut(x, y), F, rank[x])
          BY <1>1, <2>1 DEF Cycle!Refuses
    <3>2. rank' = Cycle!Reorder(B, F)
          BY <1>1, <2>1
    <3> HIDE DEF B, F
    <3>3. F = Cycle!ForwardDFS(Cycle!NewOut(x, y), y, rank[x])
          BY DEF F
    <3>4. B = Cycle!BackwardDFS(Cycle!NewIn(x, y), F, x, rank[y])
          BY DEF B
    <3> QED
        BY <1>1, <2>1, <3>1, <3>2, <3>3, <3>4, ReorderKeeps
  <2>2. CASE ~Cycle!OutOfOrder(x, y)
    <3>1. rank' = rank /\ x # y
          BY <1>1, <2>2 DEF Cycle!Refuses
    <3>2. Ranked'
          BY <3>1 DEF GraphIInv, Ranked
    <3>3. \A n \in Cycle!Nodes : IF n \in InUse' THEN rank'[n] \in InUse' ELSE rank'[n] = n
          BY <1>3, <3>1 DEF GraphIInv
    <3>4. y \in out[x] \/ rank[x] < rank[y]
      <4>1. rank[x] # rank[y] /\ rank[x] \in Nat /\ rank[y] \in Nat
            BY <1>2, <3>1, RankIsNat DEF GraphIInv, Ranked
      <4> QED
          BY <2>2, <4>1 DEF Cycle!OutOfOrder
    <3>5. \A n \in Cycle!Nodes : \A m \in out[n] : rank[n] < rank[m]
          BY DEF GraphIInv
    <3>6. \A n \in Cycle!Nodes : \A m \in out'[n] : (n = x /\ m = y) \/ m \in out[n]
          BY <1>1, <1>2 DEF Cycle!NewOut, GraphIInv
    <3>7. \A n \in Cycle!Nodes : \A m \in out'[n] : rank'[n] < rank'[m]
          BY <1>2, <3>1, <3>4, <3>5, <3>6
    <3> QED
        BY <3>2, <3>3, <3>7
  <2> QED
      BY <2>1, <2>2
<1>6. size' \in 0..N
      BY <1>1 DEF GraphIInv
<1> QED
    BY <1>4, <1>5, <1>6 DEF GraphIInv

(* It says what the runs check.                                            *)
LEMMA GraphKeeps ==
  ASSUME N \in Nat, GraphIInv
  PROVE  Cycle!RanksAreTopological /\ Cycle!RefusesExactlyCycles
<1>1. InUse = 0..size - 1
      BY DEF InUse, GraphIInv, Cycle!Nodes
<1>2. {rank[n] : n \in InUse} = InUse
  <2> DEFINE I == {rank[n] : n \in InUse}
  <2>1. InUse \subseteq Cycle!Nodes /\ Ranked
        BY DEF InUse, GraphIInv
  <2>2. I \in SUBSET InUse
        BY <2>1 DEF GraphIInv
  <2>3. IsFiniteSet(InUse) /\ Cardinality(I) = Cardinality(InUse)
        BY <2>1, RanksOf
  <2> HIDE DEF I
  <2>4. I = InUse
        BY <2>2, <2>3, FS_Subset
  <2> QED
      BY <2>4 DEF I
<1>3. Cycle!RanksAreTopological
  <2>1. {rank[n] : n \in 0..size - 1} = 0..size - 1
        BY <1>1, <1>2
  <2>2. \A n \in Cycle!Nodes : \A m \in Cycle!Nodes :
          /\ m \in out[n] => rank[n] < rank[m]
          /\ m \in out[n] <=> n \in in[m]
        BY DEF GraphIInv
  <2> QED
      BY <2>1, <2>2 DEF Cycle!RanksAreTopological
<1>4. Cycle!RefusesExactlyCycles
      BY <1>1, RefusesCycles DEF Cycle!RefusesExactlyCycles
<1> QED
    BY <1>3, <1>4

GraphInv == which = "graph" => GraphIInv

LEMMA GraphStays == Spec => []GraphInv
<1>1. N \in Nat
      BY ComponentsAssumption
<1>2. Init => GraphInv
      BY <1>1, GraphInit DEF Init, GraphInv
<1>3. GraphInv /\ [Next]_vars => GraphInv'
  <2> SUFFICES ASSUME which = "graph", GraphIInv, [Next]_vars PROVE GraphIInv'
      BY DEF GraphInv, Next, vars
  <2>1. Cycle!Next \/ UNCHANGED Cycle!vars
        BY DEF Next, vars, graph, Cycle!vars
  <2>2. CASE UNCHANGED Cycle!vars
    <3>1. UNCHANGED <<size, rank, in, out>> /\ InUse' = InUse
          BY <2>2 DEF Cycle!vars, InUse
    <3> QED
        BY <3>1 DEF GraphIInv, Ranked
  <2>3. CASE Cycle!Next
        BY <1>1, <2>3, NewNodeStep, RemoveNodeStep, RemoveEdgeStep, InsertEdgeStep DEF Cycle!Next
  <2> QED
      BY <2>1, <2>2, <2>3
<1> QED
    BY <1>2, <1>3, PTL DEF Spec

(* The ranks of the lock graph's nodes stay a topological order over any   *)
(* sequence of insertions, removals and reuse of nodes                     *)
(* (graphcycles.cc:367-391), for any number of nodes.                      *)
THEOREM RanksFollowEdges == Spec => []RanksAreTopological
<1>1. GraphInv => RanksAreTopological
      BY GraphKeeps, ComponentsAssumption DEF GraphInv, RanksAreTopological
<1> QED
    BY <1>1, GraphStays, PTL

(* InsertEdge refuses an edge when, and only when, it closes a cycle of    *)
(* the lock graph (graphcycles.cc:480-517), for any number of nodes.       *)
THEOREM RefusesTheCycles == Spec => []RefusesExactlyCycles
<1>1. GraphInv => RefusesExactlyCycles
      BY GraphKeeps, ComponentsAssumption DEF GraphInv, RefusesExactlyCycles
<1> QED
    BY <1>1, GraphStays, PTL

-----------------------------------------------------------------------------
(* The sampler of hash tables: who has a sample, who has the mutexes, and  *)
(* which samples the two lists hold.                                       *)
SamplersSane ==
  /\ IsFiniteSet(Samplers) /\ Samplers \cap Iterators = {}
  /\ None \notin Samplers \cup Iterators /\ max_samples \in Nat /\ SamplerCalls \in Nat

Has == {"new", "exchange", "registered", "bury", "dead", "prepare"}
ThreadLabels == Has \cup {"idle", "dropped", "pop", "buried"}
IteratorLabels == {"idle", "visit", "callback", "skip"}
At(L) == {t \in Samplers : pc[t] \in L}

SampleTyped ==
  /\ samples \in Nat /\ samples <= SamplerCalls /\ begun \in Nat /\ begun <= SamplerCalls
  /\ list \in [Sampling!Samples -> 0..SamplerCalls] /\ dead \in [Sampling!Samples -> Int]
  /\ init_mu \in [Sampling!Samples -> Samplers \cup Iterators \cup {None}]
  /\ info \in [Samplers \cup Iterators -> 0..SamplerCalls]
  /\ pc \in [Samplers \cup Iterators -> ThreadLabels \cup IteratorLabels]
  /\ \A t \in Samplers : pc[t] \in ThreadLabels
  /\ \A it \in Iterators : pc[it] \in IteratorLabels

(* size_estimate_ counts the calls of Register that are not undone; one in *)
(* excess of the limit is dropped before it asks for a sample.             *)
Counts ==
  /\ size_estimate_ = Cardinality(At(ThreadLabels \ {"idle"}))
  /\ Cardinality(At(ThreadLabels \ {"idle", "dropped"})) <= max_samples + 1
  /\ samples + Cardinality(At({"pop"})) <= begun
  /\ samples <= max_samples + 1

(* Who has a sample has it alone.                                          *)
Owners ==
  \A t \in Samplers :
    /\ info[t] <= samples
    /\ pc[t] \in Has <=> info[t] # Sampling!Null
    /\ \A u \in Samplers : info[t] = info[u] /\ info[t] # Sampling!Null => t = u

(* Who has the mutexes.                                                    *)
Mutexes ==
  /\ \A t \in Samplers :
       /\ pc[t] \in {"dead", "prepare", "bury"} <=> graveyard_mu = t
       /\ pc[t] = "prepare" => init_mu[info[t]] = t
       /\ pc[t] = "dead" => info[t] = graveyard_dead
  /\ \A it \in Iterators :
       /\ pc[it] # "idle" => info[it] \in Sampling!Samples
       /\ pc[it] \in {"callback", "skip"} => init_mu[info[it]] = it

(* The samples that are not dead, and those that are not on the list yet.  *)
Of(L) == {info[t] : t \in At(L)}
Kept == Of(Has \ {"dead"})
Fresh == Of({"new", "exchange"})

Dead == 1..samples \ Kept
Listed == 1..samples \ Fresh

Lists ==
  /\ Chain(dead, graveyard_dead, Sampling!Graveyard, Dead)
  /\ Chain(list, all_, Sampling!Null, Listed)

SampleIInv == SampleTyped /\ Counts /\ Owners /\ Mutexes /\ Lists

-----------------------------------------------------------------------------
(* A step of a thread that registers tables.                               *)
SamplerStep(t) ==
  \/ Sampling!Register(t) \/ Sampling!DecrementSize(t) \/ Sampling!PopDead(t)
  \/ Sampling!Unlink(t) \/ Sampling!PrepareForSampling(t) \/ Sampling!PushNew(t)
  \/ Sampling!PushDead(t) \/ Sampling!Bury(t)

USE DEF SamplerStep, Sampling!Null, Sampling!Graveyard, Sampling!Samples, Has, ThreadLabels,
        IteratorLabels

(* The head of a list is one of its elements or its end.                   *)
LEMMA HeadOfList ==
  ASSUME NEW links, NEW first, NEW End, NEW X, Chain(links, first, End, X)
  PROVE  first \in X \cup {End}
BY DEF Chain, Numbers

(* What one thread's step does to a count of threads.                      *)
LEMMA CountStep ==
  ASSUME SamplersSane, SampleTyped, NEW L, NEW t \in Samplers, NEW l, pc' = [pc EXCEPT ![t] = l]
  PROVE  /\ Cardinality(At(L)) \in Nat /\ (pc[t] \in L => Cardinality(At(L)) > 0)
         /\ Cardinality(At(L)') = IF l \in L
                           THEN IF pc[t] \in L THEN Cardinality(At(L)) ELSE Cardinality(At(L)) + 1
                           ELSE IF pc[t] \in L THEN Cardinality(At(L)) - 1 ELSE Cardinality(At(L))
<1>1. IsFiniteSet(At(L))
  <2>1. At(L) \subseteq Samplers
        BY DEF At
  <2> QED
      BY <2>1, FS_Subset DEF SamplersSane
<1>2. Cardinality(At(L)) \in Nat
      BY <1>1, FS_CardinalityType
<1>3. pc[t] \in L => t \in At(L)
      BY DEF At
<1>4. Cardinality(At(L)) = 0 => At(L) = {}
      BY <1>1, FS_EmptySet
<1>5. l \in L => At(L)' = At(L) \cup {t}
      BY DEF At, SampleTyped
<1>6. l \notin L => At(L)' = At(L) \ {t}
      BY DEF At, SampleTyped
<1>7. pc[t] \in L <=> t \in At(L)
      BY DEF At
<1>8. Cardinality(At(L) \cup {t}) =
        IF t \in At(L) THEN Cardinality(At(L)) ELSE Cardinality(At(L)) + 1
      BY <1>1, FS_AddElement
<1>9. Cardinality(At(L) \ {t}) = IF t \in At(L) THEN Cardinality(At(L)) - 1 ELSE Cardinality(At(L))
      BY <1>1, FS_RemoveElement
<1>10. pc[t] \in L => Cardinality(At(L)) > 0
      BY <1>2, <1>3, <1>4
<1> QED
    BY <1>2, <1>5, <1>6, <1>7, <1>8, <1>9, <1>10

(* An iterator's step does nothing to it.                                  *)
LEMMA CountsStay ==
  ASSUME SampleTyped, \A t \in Samplers : pc'[t] = pc[t], NEW L
  PROVE  At(L)' = At(L)
BY DEF At

(* No samples, no owners.                                                  *)
LEMMA SampleInit == ASSUME SamplersSane PROVE Sampling!Init => SampleIInv
<1> SUFFICES ASSUME Sampling!Init PROVE SampleIInv
    OBVIOUS
<1>1. SampleTyped
      BY DEF Sampling!Init, SampleTyped, SamplersSane
<1>2. \A L : "idle" \notin L => At(L) = {}
      BY DEF Sampling!Init, At
<1>3. /\ At(ThreadLabels \ {"idle"}) = {} /\ At(ThreadLabels \ {"idle", "dropped"}) = {}
      /\ At({"pop"}) = {} /\ At(Has \ {"dead"}) = {} /\ At({"new", "exchange"}) = {}
      BY <1>2
<1>4. Counts
  <2>1. Cardinality({}) = 0
        BY FS_EmptySet
  <2>2. samples = 0 /\ begun = 0 /\ size_estimate_ = 0 /\ max_samples \in Nat
        BY DEF Sampling!Init, SamplersSane
  <2> QED
      BY <1>3, <2>1, <2>2 DEF Counts
<1>5. Owners
      BY DEF Sampling!Init, Owners
<1>6. Mutexes
      BY DEF Sampling!Init, Mutexes, SamplersSane
<1>7. Dead = {} /\ Listed = {}
      BY DEF Sampling!Init, Dead, Listed
<1>8. Lists
      BY <1>7, EmptyChain DEF Sampling!Init, Lists
<1> QED
    BY <1>1, <1>4, <1>5, <1>6, <1>8 DEF SampleIInv

(* When nothing is dead every sample has an owner, and there are fewer     *)
(* than may be registered.                                                 *)
LEMMA NewWithinLimit ==
  ASSUME SamplersSane, SampleIInv, NEW t \in Samplers, pc[t] = "pop", graveyard_mu = None,
         graveyard_dead = Sampling!Graveyard
  PROVE  samples < max_samples + 1
<1> DEFINE A == At(Has \ {"dead"})
           B == At(ThreadLabels \ {"idle", "dropped"})
<1>1. IsFiniteSet(A) /\ IsFiniteSet(B) /\ Cardinality(A) \in Nat /\ Cardinality(B) \in Nat
  <2>1. A \subseteq Samplers /\ B \subseteq Samplers
        BY DEF At
  <2> QED
      BY <2>1, FS_Subset, FS_CardinalityType DEF SamplersSane
<1>2. Dead = {}
  <2>1. Sampling!Graveyard \notin Dead
        BY DEF Dead, SampleIInv, SampleTyped
  <2> QED
      BY <2>1, EmptyChain DEF SampleIInv, Lists
<1>3. 1..samples \subseteq Kept
      BY <1>2 DEF Dead
<1> DEFINE f == [u \in A |-> info[u]]
<1>4. f \in Surjection(A, Kept)
      BY DEF Kept, Of, Surjection
<1>5. IsFiniteSet(Kept) /\ Cardinality(Kept) <= Cardinality(A)
  <2> HIDE DEF f, A
  <2> QED
      BY <1>1, <1>4, FS_Surjection
<1>6. samples <= Cardinality(Kept)
  <2>1. samples \in Nat
        BY DEF SampleIInv, SampleTyped
  <2>2. Cardinality(1..samples) = samples
        BY <2>1, FS_Interval
  <2>3. Cardinality(1..samples) <= Cardinality(Kept)
        BY <1>3, <1>5, FS_Subset
  <2> QED
      BY <2>2, <2>3
<1>7. Cardinality(A \cup {t}) = Cardinality(A) + 1 /\ IsFiniteSet(A \cup {t})
  <2>1. t \notin A
        BY DEF At
  <2> HIDE DEF A
  <2> QED
      BY <1>1, <2>1, FS_AddElement
<1>8. A \cup {t} \subseteq B
      BY DEF At
<1>9. Cardinality(A \cup {t}) <= Cardinality(B)
  <2> HIDE DEF A, B
  <2> QED
      BY <1>1, <1>8, FS_Subset
<1>10. Cardinality(B) <= max_samples + 1 /\ samples \in Nat /\ max_samples \in Nat
      BY DEF SampleIInv, Counts, SampleTyped, SamplersSane
<1>11. Cardinality(Kept) \in Nat
      BY <1>5, FS_CardinalityType
<1> QED
    BY <1>1, <1>5, <1>6, <1>7, <1>9, <1>10, <1>11

(* Every step of a thread keeps the types.                                 *)
LEMMA SamplerTyped ==
  ASSUME SamplersSane, SampleIInv, NEW t \in Samplers, SamplerStep(t)
  PROVE  SampleTyped' /\ \E l \in ThreadLabels : pc' = [pc EXCEPT ![t] = l]
<1> DEFINE Numbered == /\ samples' \in Nat /\ samples' <= SamplerCalls
                       /\ begun' \in Nat /\ begun' <= SamplerCalls
                       /\ list' \in [Sampling!Samples -> 0..SamplerCalls]
                       /\ dead' \in [Sampling!Samples -> Int]
           Owned == /\ init_mu' \in [Sampling!Samples -> Samplers \cup Iterators \cup {None}]
                    /\ info' \in [Samplers \cup Iterators -> 0..SamplerCalls]
           Moves == \E l \in ThreadLabels : pc' = [pc EXCEPT ![t] = l]
<1>1. SampleTyped /\ SamplersSane
      BY DEF SampleIInv
<1>2. SUFFICES Moves /\ Numbered /\ Owned
  <2>1. ASSUME Moves, Numbered, Owned PROVE SampleTyped'
    <3>1. PICK l \in ThreadLabels : pc' = [pc EXCEPT ![t] = l]
          BY <2>1
    <3>2. /\ pc' \in [Samplers \cup Iterators -> ThreadLabels \cup IteratorLabels]
          /\ \A u \in Samplers : pc'[u] \in ThreadLabels
          /\ \A it \in Iterators : pc'[it] \in IteratorLabels
          BY <1>1, <3>1 DEF SampleTyped, SamplersSane
    <3> QED
        BY <2>1, <3>2 DEF SampleTyped
  <2> QED
      BY <2>1
<1>3. /\ graveyard_dead \in 0..SamplerCalls \cup {Sampling!Graveyard} /\ all_ \in 0..SamplerCalls
      /\ graveyard_dead \in Int /\ 0 \in 0..SamplerCalls
  <2>1. graveyard_dead \in Dead \cup {Sampling!Graveyard} /\ all_ \in Listed \cup {Sampling!Null}
        BY HeadOfList DEF SampleIInv, Lists
  <2>2. Dead \subseteq 1..samples /\ Listed \subseteq 1..samples
        BY DEF Dead, Listed
  <2>3. /\ 1..samples \subseteq 0..SamplerCalls
        /\ 0..SamplerCalls \subseteq Int /\ 0 \in 0..SamplerCalls
        BY <1>1 DEF SamplersSane, SampleTyped
  <2> QED
      BY <2>1, <2>2, <2>3
<1>4. CASE Sampling!Register(t)
  <2>1. Moves
    <3>1. \E l \in {"dropped", "pop"} : pc' = [pc EXCEPT ![t] = l]
          BY <1>4 DEF Sampling!Register, Sampling!Goto
    <3> QED
        BY <3>1
  <2>2. /\ begun' = begun + 1 /\ begun < SamplerCalls
        /\ UNCHANGED <<list, dead, init_mu, samples, info>>
        BY <1>4 DEF Sampling!Register
  <2> HIDE DEF Moves
  <2> QED
      BY <1>1, <2>1, <2>2 DEF SampleTyped, SamplersSane
<1>5. CASE Sampling!DecrementSize(t)
      BY <1>1, <1>5 DEF Sampling!DecrementSize, Sampling!Goto, SampleTyped
<1>6. CASE Sampling!PopDead(t)
  <2>1. pc[t] = "pop" /\ Moves /\ UNCHANGED <<list, dead, init_mu, begun>>
        BY <1>6 DEF Sampling!PopDead, Sampling!Goto
  <2>2. Cardinality(At({"pop"})) \in Nat /\ Cardinality(At({"pop"})) > 0
        BY <1>1, <2>1, CountStep
  <2>3. samples + Cardinality(At({"pop"})) <= begun
        BY DEF SampleIInv, Counts
  <2>4. samples + 1 \in 0..SamplerCalls /\ samples + 1 \in Nat /\ samples + 1 <= SamplerCalls
        BY <1>1, <2>2, <2>3 DEF SamplersSane, SampleTyped
  <2>5. CASE graveyard_dead = Sampling!Graveyard
    <3>1. samples' = samples + 1 /\ info' = [info EXCEPT ![t] = samples + 1]
          BY <1>6, <2>5 DEF Sampling!PopDead, Sampling!Take
    <3> QED
        BY <1>1, <2>1, <2>4, <3>1 DEF SampleTyped
  <2>6. CASE graveyard_dead # Sampling!Graveyard
    <3>1. samples' = samples /\ info' = [info EXCEPT ![t] = graveyard_dead]
          BY <1>6, <2>6 DEF Sampling!PopDead, Sampling!Take
    <3> QED
        BY <1>1, <1>3, <2>1, <2>6, <3>1 DEF SampleTyped
  <2> QED
      BY <2>5, <2>6
<1>7. CASE Sampling!Unlink(t)
      BY <1>1, <1>7 DEF Sampling!Unlink, Sampling!Goto, Sampling!Lock, SampleTyped
<1>8. CASE Sampling!PrepareForSampling(t)
  <2>1. Moves
        BY <1>8 DEF Sampling!PrepareForSampling, Sampling!Goto
  <2>2. /\ init_mu' = [init_mu EXCEPT ![info[t]] = None] /\ dead' = [dead EXCEPT ![info[t]] = 0]
        /\ UNCHANGED <<list, samples, info, begun>>
        BY <1>8 DEF Sampling!PrepareForSampling, Sampling!Unlock
  <2>3. init_mu' \in [Sampling!Samples -> Samplers \cup Iterators \cup {None}]
        BY <1>1, <2>2 DEF SampleTyped
  <2>4. dead' \in [Sampling!Samples -> Int]
    <3>1. dead \in [Sampling!Samples -> Int] /\ dead' = [dead EXCEPT ![info[t]] = 0] /\ 0 \in Int
          BY <1>1, <2>2 DEF SampleTyped
    <3> QED
        BY <3>1
  <2> HIDE DEF Moves
  <2> QED
      BY <1>1, <2>1, <2>2, <2>3, <2>4 DEF SampleTyped
<1>9. CASE Sampling!PushNew(t)
  <2>1. Moves
    <3>1. CASE pc' = pc
      <4>1. pc = [pc EXCEPT ![t] = "exchange"]
            BY <1>1, <1>9, <3>1 DEF Sampling!PushNew, Sampling!Goto, SampleTyped
      <4> QED
          BY <3>1, <4>1
    <3>2. CASE pc' # pc
          BY <1>9, <3>2 DEF Sampling!PushNew, Sampling!Goto
    <3> QED
        BY <3>1, <3>2
  <2>2. list' = [list EXCEPT ![info[t]] = all_] \/ list' = list
        BY <1>9 DEF Sampling!PushNew
  <2>3. UNCHANGED <<samples, begun, dead, init_mu, info>>
        BY <1>9 DEF Sampling!PushNew
  <2>4. list' \in [Sampling!Samples -> 0..SamplerCalls]
        BY <1>1, <1>3, <2>2 DEF SampleTyped
  <2> HIDE DEF Moves
  <2> QED
      BY <1>1, <2>1, <2>3, <2>4 DEF SampleTyped
<1>10. CASE Sampling!PushDead(t)
      BY <1>1, <1>10 DEF Sampling!PushDead, Sampling!Goto, SampleTyped
<1>11. CASE Sampling!Bury(t)
      BY <1>1, <1>3, <1>11 DEF Sampling!Bury, Sampling!Goto, Sampling!Take, SampleTyped
<1> QED
    BY <1>4, <1>5, <1>6, <1>7, <1>8, <1>9, <1>10, <1>11

(* The counter goes up before the sample is asked for, and down after it   *)
(* is buried.                                                              *)
LEMMA SamplerCounts ==
  ASSUME SamplersSane, SampleIInv, NEW t \in Samplers, SamplerStep(t)
  PROVE  Counts'
<1> DEFINE a == Cardinality(At(ThreadLabels \ {"idle"}))
           b == Cardinality(At(ThreadLabels \ {"idle", "dropped"}))
           c == Cardinality(At({"pop"}))
<1> SampleTyped /\ Counts /\ SamplersSane
    BY DEF SampleIInv
<1>1. PICK l \in ThreadLabels : pc' = [pc EXCEPT ![t] = l]
      BY SamplerTyped
<1>2. /\ a \in Nat /\ b \in Nat /\ c \in Nat /\ (pc[t] = "pop" => c > 0)
      /\ a' = IF l # "idle" THEN IF pc[t] # "idle" THEN a ELSE a + 1
                            ELSE IF pc[t] # "idle" THEN a - 1 ELSE a
      /\ b' = IF l \notin {"idle", "dropped"}
              THEN IF pc[t] \notin {"idle", "dropped"} THEN b ELSE b + 1
              ELSE IF pc[t] \notin {"idle", "dropped"} THEN b - 1 ELSE b
      /\ c' = IF l = "pop" THEN IF pc[t] = "pop" THEN c ELSE c + 1
                           ELSE IF pc[t] = "pop" THEN c - 1 ELSE c
  <2>1. l \in ThreadLabels /\ pc[t] \in ThreadLabels
        BY DEF SampleTyped
  <2> QED
      BY <1>1, <2>1, CountStep
<1>3. pc'[t] = l
      BY <1>1 DEF SampleTyped
<1>4. b <= a
  <2>1. At(ThreadLabels \ {"idle", "dropped"}) \subseteq At(ThreadLabels \ {"idle"})
        BY DEF At
  <2>2. IsFiniteSet(At(ThreadLabels \ {"idle"}))
    <3>1. At(ThreadLabels \ {"idle"}) \subseteq Samplers
          BY DEF At
    <3> QED
        BY <3>1, FS_Subset DEF SamplersSane
  <2> QED
      BY <2>1, <2>2, FS_Subset
<1>a. Counts' <=> /\ size_estimate_' = a' /\ b' <= max_samples + 1
                  /\ samples' + c' <= begun' /\ samples' <= max_samples + 1
      BY DEF Counts
<1> HIDE DEF a, b, c
<1>5. /\ a = size_estimate_ /\ b <= max_samples + 1
      /\ samples + c <= begun /\ samples <= max_samples + 1
      BY DEF Counts, a, b, c
<1>6. samples \in Nat /\ begun \in Nat /\ max_samples \in Nat
      BY DEF SampleTyped, SamplersSane
<1>7. CASE Sampling!Register(t)
      BY <1>2, <1>3, <1>4, <1>5, <1>6, <1>a, <1>7 DEF Sampling!Register, Sampling!Goto, SampleTyped
<1>8. CASE Sampling!DecrementSize(t)
      BY <1>2, <1>3, <1>4, <1>5, <1>6, <1>a, <1>8 DEF Sampling!DecrementSize, Sampling!Goto,
                                                      SampleTyped
<1>9. CASE Sampling!PopDead(t)
      BY <1>2, <1>3, <1>4, <1>5, <1>6, <1>a, <1>9, NewWithinLimit, SMTT(30) DEF Sampling!PopDead,
                                                                      Sampling!Goto, SampleTyped
<1>10. CASE \/ Sampling!Unlink(t) \/ Sampling!PrepareForSampling(t) \/ Sampling!PushNew(t)
             \/ Sampling!PushDead(t) \/ Sampling!Bury(t)
      BY <1>2, <1>3, <1>4, <1>5, <1>6, <1>a, <1>10, SMTT(30)
         DEF Sampling!Unlink, Sampling!PrepareForSampling, Sampling!PushNew, Sampling!PushDead,
             Sampling!Bury, Sampling!Goto, SampleTyped
<1> QED
    BY <1>7, <1>8, <1>9, <1>10

(* A thread's sample is the one it made or took off the graveyard.         *)
LEMMA SamplerOwners ==
  ASSUME SamplersSane, SampleIInv, NEW t \in Samplers, SamplerStep(t)
  PROVE  Owners'
<1>1. SampleTyped /\ Owners /\ Mutexes /\ SamplersSane
      BY DEF SampleIInv
<1>2. PICK l \in ThreadLabels : pc' = [pc EXCEPT ![t] = l]
      BY SamplerTyped
<1>3. pc'[t] = l /\ \A u \in Samplers \ {t} : pc'[u] = pc[u]
      BY <1>1, <1>2 DEF SampleTyped
<1>4. CASE Sampling!PopDead(t)
  <2>1. pc[t] = "pop" /\ graveyard_mu = None
        BY <1>4 DEF Sampling!PopDead
  <2>2. CASE graveyard_dead = Sampling!Graveyard
    <3>1. samples' = samples + 1 /\ info' = [info EXCEPT ![t] = samples + 1] /\ l = "new"
          BY <1>1, <1>3, <1>4, <2>2 DEF Sampling!PopDead, Sampling!Take, Sampling!Goto, SampleTyped
    <3>2. /\ info'[t] = samples + 1
          /\ \A u \in Samplers \ {t} : info'[u] = info[u] /\ info[u] <= samples
          BY <1>1, <3>1 DEF SampleTyped, Owners
    <3>3. samples \in Nat /\ samples + 1 # 0 /\ \A u \in Samplers : info[u] \in Int
          BY <1>1 DEF SampleTyped, SamplersSane
    <3> QED
        BY <1>1, <1>3, <3>1, <3>2, <3>3 DEF Owners
  <2>3. CASE graveyard_dead # Sampling!Graveyard
    <3>1. samples' = samples /\ info' = [info EXCEPT ![t] = graveyard_dead] /\ l = "dead"
          BY <1>1, <1>3, <1>4, <2>3 DEF Sampling!PopDead, Sampling!Take, Sampling!Goto, SampleTyped
    <3>2. info'[t] = graveyard_dead /\ \A u \in Samplers \ {t} : info'[u] = info[u]
          BY <1>1, <3>1 DEF SampleTyped
    <3>3. graveyard_dead \in Dead
          BY <2>3, HeadOfList DEF SampleIInv, Lists
    <3>4. \A u \in Samplers : info[u] # graveyard_dead
      <4>1. \A u \in Samplers : pc[u] # "dead"
            BY <1>1, <2>1 DEF Mutexes, SamplersSane
      <4>2. \A u \in Samplers : pc[u] \in Has => info[u] \in Kept
            BY <4>1 DEF Kept, Of, At
      <4>3. \A u \in Samplers : pc[u] \notin Has => info[u] = 0
            BY <1>1 DEF Owners
      <4>4. graveyard_dead \notin Kept /\ graveyard_dead # 0
            BY <3>3 DEF Dead
      <4> QED
          BY <4>2, <4>3, <4>4
    <3>5. graveyard_dead <= samples /\ graveyard_dead # 0
          BY <3>3 DEF Dead
    <3> QED
        BY <1>1, <1>3, <3>1, <3>2, <3>4, <3>5 DEF Owners
  <2> QED
      BY <2>2, <2>3
<1>5. CASE Sampling!Bury(t)
  <2>1. l = "buried" /\ samples' = samples /\ info' = [info EXCEPT ![t] = 0]
        BY <1>1, <1>3, <1>5 DEF Sampling!Bury, Sampling!Take, Sampling!Goto, SampleTyped
  <2>2. info'[t] = 0 /\ \A u \in Samplers \ {t} : info'[u] = info[u]
        BY <1>1, <2>1 DEF SampleTyped
  <2> QED
      BY <1>1, <1>3, <2>1, <2>2 DEF Owners, SampleTyped
<1>6. CASE ~Sampling!PopDead(t) /\ ~Sampling!Bury(t)
  <2>1. info' = info /\ samples' = samples
        BY <1>6 DEF Sampling!Register, Sampling!DecrementSize, Sampling!Unlink,
                    Sampling!PrepareForSampling, Sampling!PushNew, Sampling!PushDead
  <2>2. l \in Has <=> pc[t] \in Has
        BY <1>1, <1>3, <1>6 DEF Sampling!Register, Sampling!DecrementSize, Sampling!Unlink,
                                Sampling!PrepareForSampling, Sampling!PushNew,
                                Sampling!PushDead, Sampling!Goto, SampleTyped
  <2> QED
      BY <1>1, <1>3, <2>1, <2>2 DEF Owners
<1> QED
    BY <1>4, <1>5, <1>6

(* The mutexes have the holders that the code says.                        *)
LEMMA SamplerMutexes ==
  ASSUME SamplersSane, SampleIInv, NEW t \in Samplers, SamplerStep(t)
  PROVE  Mutexes'
<1>1. SampleTyped /\ Owners /\ Mutexes /\ SamplersSane
      BY DEF SampleIInv
<1>2. PICK l \in ThreadLabels : pc' = [pc EXCEPT ![t] = l]
      BY SamplerTyped
<1>3. /\ pc'[t] = l /\ \A u \in Samplers \ {t} : pc'[u] = pc[u]
      /\ \A it \in Iterators : pc'[it] = pc[it]
      BY <1>1, <1>2 DEF SampleTyped, SamplersSane
<1>4. \A u \in Samplers \ {t} : info'[u] = info[u]
      BY <1>1 DEF Sampling!Register, Sampling!DecrementSize, Sampling!PopDead, Sampling!Unlink,
                  Sampling!PrepareForSampling, Sampling!PushNew, Sampling!PushDead,
                  Sampling!Bury, Sampling!Take, SampleTyped
<1>5. \A it \in Iterators : info'[it] = info[it]
      BY <1>1 DEF Sampling!Register, Sampling!DecrementSize, Sampling!PopDead, Sampling!Unlink,
                  Sampling!PrepareForSampling, Sampling!PushNew, Sampling!PushDead,
                  Sampling!Bury, Sampling!Take, SampleTyped, SamplersSane
<1>6. \A u \in Samplers : pc[u] \in {"dead", "prepare", "bury"} => u = graveyard_mu
      BY <1>1 DEF Mutexes
<1>7. CASE Sampling!Register(t) \/ Sampling!DecrementSize(t) \/ Sampling!PushNew(t)
  <2>1. UNCHANGED <<graveyard_mu, init_mu, graveyard_dead, info>>
        BY <1>7 DEF Sampling!Register, Sampling!DecrementSize, Sampling!PushNew
  <2>2. l \notin {"dead", "prepare", "bury"} /\ pc[t] \notin {"dead", "prepare", "bury"}
        BY <1>1, <1>3, <1>7 DEF Sampling!Register, Sampling!DecrementSize, Sampling!PushNew,
                                Sampling!Goto, SampleTyped
  <2> QED
      BY <1>1, <1>3, <2>1, <2>2 DEF Mutexes
<1>8. CASE Sampling!PopDead(t)
  <2>1. pc[t] = "pop" /\ graveyard_mu = None /\ UNCHANGED <<init_mu, graveyard_dead>>
        BY <1>8 DEF Sampling!PopDead
  <2>2. \A u \in Samplers : pc[u] \notin {"dead", "prepare", "bury"}
        BY <1>1, <2>1 DEF Mutexes, SamplersSane
  <2>3. \/ l = "new" /\ graveyard_mu' = None
        \/ l = "dead" /\ graveyard_mu' = t /\ info'[t] = graveyard_dead
        BY <1>1, <1>3, <1>8, <2>1 DEF Sampling!PopDead, Sampling!Goto, Sampling!Take, SampleTyped
  <2>4. None \notin Samplers
        BY <1>1 DEF SamplersSane
  <2> QED
      BY <1>1, <1>3, <1>5, <2>1, <2>2, <2>3, <2>4 DEF Mutexes
<1>9. CASE Sampling!Unlink(t)
  <2>1. /\ pc[t] = "dead" /\ l = "prepare" /\ init_mu[info[t]] = None
        /\ init_mu' = [init_mu EXCEPT ![info[t]] = t] /\ UNCHANGED <<graveyard_mu, info>>
        BY <1>1, <1>3, <1>9 DEF Sampling!Unlink, Sampling!Goto, Sampling!Lock, SampleTyped
  <2>2. info[t] \in Sampling!Samples
        BY <1>1, <2>1 DEF Owners, SampleTyped, SamplersSane
  <2>3. init_mu'[info[t]] = t
        BY <1>1, <2>1, <2>2 DEF SampleTyped
  <2>4. \A u \in Samplers \ {t} : pc[u] \notin {"dead", "prepare", "bury"}
        BY <1>1, <1>6, <2>1 DEF Mutexes
  <2>5. \A it \in Iterators : pc[it] \in {"callback", "skip"} => init_mu'[info[it]] = it
    <3> SUFFICES ASSUME NEW it \in Iterators, pc[it] \in {"callback", "skip"}
                 PROVE  init_mu'[info[it]] = it
        OBVIOUS
    <3>1. init_mu[info[it]] = it /\ info[it] \in Sampling!Samples /\ it # None
          BY <1>1 DEF Mutexes, SamplersSane
    <3> QED
        BY <1>1, <2>1, <3>1 DEF SampleTyped
  <2> QED
      BY <1>1, <1>3, <2>1, <2>3, <2>4, <2>5 DEF Mutexes
<1>10. CASE Sampling!PrepareForSampling(t)
  <2>1. /\ pc[t] = "prepare" /\ l = "registered" /\ graveyard_mu' = None
        /\ init_mu' = [init_mu EXCEPT ![info[t]] = None] /\ UNCHANGED info
        BY <1>1, <1>3, <1>10 DEF Sampling!PrepareForSampling, Sampling!Goto, Sampling!Unlock,
                                 SampleTyped
  <2>2. \A u \in Samplers \ {t} : pc[u] \notin {"dead", "prepare", "bury"}
        BY <1>1, <1>6, <2>1 DEF Mutexes
  <2>3. init_mu[info[t]] = t
        BY <1>1, <2>1 DEF Mutexes
  <2>4. \A it \in Iterators : pc[it] \in {"callback", "skip"} => init_mu'[info[it]] = it
    <3> SUFFICES ASSUME NEW it \in Iterators, pc[it] \in {"callback", "skip"}
                 PROVE  init_mu'[info[it]] = it
        OBVIOUS
    <3>1. init_mu[info[it]] = it /\ info[it] \in Sampling!Samples /\ it # t
          BY <1>1 DEF Mutexes, SamplersSane
    <3> QED
        BY <1>1, <2>1, <2>3, <3>1 DEF SampleTyped
  <2>5. None \notin Samplers
        BY <1>1 DEF SamplersSane
  <2> QED
      BY <1>1, <1>3, <2>1, <2>2, <2>4, <2>5 DEF Mutexes
<1>11. CASE Sampling!PushDead(t)
  <2>1. /\ pc[t] = "registered" /\ l = "bury" /\ graveyard_mu = None /\ graveyard_mu' = t
        /\ UNCHANGED <<init_mu, info, graveyard_dead>>
        BY <1>1, <1>3, <1>11 DEF Sampling!PushDead, Sampling!Goto, SampleTyped
  <2>2. \A u \in Samplers : pc[u] \notin {"dead", "prepare", "bury"}
        BY <1>1, <2>1 DEF Mutexes, SamplersSane
  <2> QED
      BY <1>1, <1>3, <2>1, <2>2 DEF Mutexes
<1>12. CASE Sampling!Bury(t)
  <2>1. pc[t] = "bury" /\ l = "buried" /\ graveyard_mu' = None /\ UNCHANGED init_mu
        BY <1>1, <1>3, <1>12 DEF Sampling!Bury, Sampling!Goto, SampleTyped
  <2>2. \A u \in Samplers \ {t} : pc[u] \notin {"dead", "prepare", "bury"}
        BY <1>1, <1>6, <2>1 DEF Mutexes
  <2>3. None \notin Samplers
        BY <1>1 DEF SamplersSane
  <2> QED
      BY <1>1, <1>3, <1>5, <2>1, <2>2, <2>3 DEF Mutexes
<1> QED
    BY <1>7, <1>8, <1>9, <1>10, <1>11, <1>12

(* What one thread's step does to the samples of the threads at L.         *)
LEMMA OfStep ==
  ASSUME SampleTyped, Owners, NEW L, L \subseteq Has, NEW t \in Samplers, NEW l,
         pc' = [pc EXCEPT ![t] = l], \A u \in Samplers \ {t} : info'[u] = info[u]
  PROVE  /\ info[t] \in Of(L) <=> pc[t] \in L
         /\ Of(L)' = IF l \in L THEN (Of(L) \ {info[t]}) \cup {info'[t]} ELSE Of(L) \ {info[t]}
<1>1. pc'[t] = l /\ \A u \in Samplers \ {t} : pc'[u] = pc[u]
      BY DEF SampleTyped
<1>2. \A u \in Samplers : pc[u] \in L => info[u] # 0
      BY DEF Owners
<1>3. \A u \in Samplers : pc[u] \in L /\ info[t] = info[u] => t = u
      BY <1>2 DEF Owners
<1>4. info[t] \in Of(L) <=> pc[t] \in L
      BY <1>3 DEF Of, At
<1>5. \A x : x \in Of(L)' <=> \E u \in Samplers : pc'[u] \in L /\ info'[u] = x
      BY DEF Of, At
<1>6. \A x : x \in Of(L) <=> \E u \in Samplers : pc[u] \in L /\ info[u] = x
      BY DEF Of, At
<1>7. \A x : x \in Of(L)' <=> (l \in L /\ x = info'[t]) \/ (x \in Of(L) /\ x # info[t])
      BY <1>1, <1>3, <1>5, <1>6
<1> QED
    BY <1>4, <1>7

(* The lists hold the samples that they should.                            *)
LEMMA SamplerLists ==
  ASSUME SamplersSane, SampleIInv, NEW t \in Samplers, SamplerStep(t)
  PROVE  Lists'
<1>1. SampleTyped /\ Owners /\ Mutexes /\ Lists
      BY DEF SampleIInv
<1>2. PICK l \in ThreadLabels : pc' = [pc EXCEPT ![t] = l]
      BY SamplerTyped
<1>3. pc'[t] = l /\ pc[t] \in ThreadLabels /\ (pc[t] \in Has <=> info[t] # 0)
      BY <1>1, <1>2 DEF SampleTyped, Owners
<1>4. samples \in Nat /\ info[t] \in 0..samples /\ (info[t] # 0 => info[t] \in Sampling!Samples)
      BY <1>1 DEF SampleTyped, Owners, SamplersSane
<1>5. \A u \in Samplers \ {t} : info'[u] = info[u]
      BY <1>1 DEF Sampling!Register, Sampling!DecrementSize, Sampling!PopDead, Sampling!Unlink,
                  Sampling!PrepareForSampling, Sampling!PushNew, Sampling!PushDead,
                  Sampling!Bury, Sampling!Take, SampleTyped
<1>6. /\ info[t] \in Kept <=> pc[t] \in Has \ {"dead"}
      /\ Kept' = IF l \in Has \ {"dead"}
                 THEN (Kept \ {info[t]}) \cup {info'[t]} ELSE Kept \ {info[t]}
  <2>1. Has \ {"dead"} \subseteq Has
        OBVIOUS
  <2> QED
      BY <1>1, <1>2, <1>5, <2>1, OfStep DEF Kept
<1>7. /\ info[t] \in Fresh <=> pc[t] \in {"new", "exchange"}
      /\ Fresh' = IF l \in {"new", "exchange"}
                  THEN (Fresh \ {info[t]}) \cup {info'[t]} ELSE Fresh \ {info[t]}
  <2>1. {"new", "exchange"} \subseteq Has
        OBVIOUS
  <2> QED
      BY <1>1, <1>2, <1>5, <2>1, OfStep DEF Fresh
<1>8. Dead = 1..samples \ Kept /\ Dead' = 1..samples' \ Kept'
      BY DEF Dead
<1>9. Listed = 1..samples \ Fresh /\ Listed' = 1..samples' \ Fresh'
      BY DEF Listed
<1>10. SUFFICES /\ Chain(dead', graveyard_dead', Sampling!Graveyard, Dead')
                /\ Chain(list', all_', Sampling!Null, Listed')
  <2>1. Chain(dead, graveyard_dead, Sampling!Graveyard, Dead)' <=>
          Chain(dead', graveyard_dead', Sampling!Graveyard, Dead')
        BY DEF Chain, Numbers
  <2>2. Chain(list, all_, Sampling!Null, Listed)' <=>
          Chain(list', all_', Sampling!Null, Listed')
        BY DEF Chain, Numbers
  <2> QED
      BY <2>1, <2>2 DEF Lists
<1>11. /\ Chain(dead, graveyard_dead, Sampling!Graveyard, Dead)
       /\ Chain(list, all_, Sampling!Null, Listed)
      BY <1>1 DEF Lists
<1>12. CASE Sampling!Register(t) \/ Sampling!DecrementSize(t) \/ Sampling!PushDead(t)
  <2>1. UNCHANGED <<dead, graveyard_dead, list, all_, samples, info>>
        BY <1>12 DEF Sampling!Register, Sampling!DecrementSize, Sampling!PushDead
  <2>2. \/ pc[t] \notin Has /\ l \notin Has
        \/ pc[t] = "registered" /\ l = "bury"
        BY <1>1, <1>3, <1>12 DEF Sampling!Register, Sampling!DecrementSize, Sampling!PushDead,
                                 Sampling!Goto, SampleTyped
  <2>3. Kept' = Kept /\ Fresh' = Fresh
        BY <1>3, <1>6, <1>7, <2>1, <2>2
  <2> QED
      BY <1>8, <1>9, <1>11, <2>1, <2>3
<1>13. CASE Sampling!PopDead(t)
  <2>1. pc[t] = "pop" /\ UNCHANGED <<dead, graveyard_dead, list, all_>>
        BY <1>13 DEF Sampling!PopDead
  <2>2. CASE graveyard_dead = Sampling!Graveyard
    <3>1. samples' = samples + 1 /\ l = "new" /\ info'[t] = samples + 1
          BY <1>1, <1>3, <1>13, <2>2 DEF Sampling!PopDead, Sampling!Goto, Sampling!Take, SampleTyped
    <3>2. Kept' = Kept \cup {samples + 1} /\ Fresh' = Fresh \cup {samples + 1}
          BY <1>3, <1>6, <1>7, <2>1, <3>1
    <3>3. 1..(samples + 1) \ {samples + 1} = 1..samples
          BY <1>4
    <3>4. samples + 1 \notin 1..samples
          BY <1>4
    <3>5. Dead' = Dead /\ Listed' = Listed
          BY <1>8, <1>9, <3>1, <3>2, <3>3, <3>4
    <3> QED
        BY <1>11, <2>1, <3>5
  <2>3. CASE graveyard_dead # Sampling!Graveyard
    <3>1. samples' = samples /\ l = "dead"
          BY <1>1, <1>3, <1>13, <2>3 DEF Sampling!PopDead, Sampling!Goto, SampleTyped
    <3>2. Kept' = Kept /\ Fresh' = Fresh
          BY <1>3, <1>6, <1>7, <2>1, <3>1
    <3> QED
        BY <1>8, <1>9, <1>11, <2>1, <3>1, <3>2
  <2> QED
      BY <2>2, <2>3
<1>14. CASE Sampling!Unlink(t)
  <2>1. /\ pc[t] = "dead" /\ l = "prepare" /\ graveyard_dead' = dead[info[t]]
        /\ UNCHANGED <<dead, list, all_, samples, info>>
        BY <1>1, <1>3, <1>14 DEF Sampling!Unlink, Sampling!Goto, SampleTyped
  <2>2. info[t] = graveyard_dead /\ info[t] # Sampling!Graveyard
        BY <1>1, <1>4, <2>1 DEF Mutexes
  <2>3. Kept' = Kept \cup {info[t]} /\ Fresh' = Fresh
        BY <1>6, <1>7, <2>1
  <2>4. Dead' = Dead \ {graveyard_dead} /\ Listed' = Listed
        BY <1>8, <1>9, <2>1, <2>2, <2>3
  <2>5. Sampling!Graveyard \notin Dead
        BY <1>4, <1>8
  <2>6. Chain(dead, dead[graveyard_dead], Sampling!Graveyard, Dead \ {graveyard_dead})
        BY <1>11, <2>2, <2>5, PopChain
  <2> QED
      BY <1>11, <2>1, <2>2, <2>4, <2>6
<1>15. CASE Sampling!PrepareForSampling(t)
  <2>1. /\ pc[t] = "prepare" /\ l = "registered" /\ dead' = [dead EXCEPT ![info[t]] = 0]
        /\ UNCHANGED <<graveyard_dead, list, all_, samples, info>>
        BY <1>1, <1>3, <1>15 DEF Sampling!PrepareForSampling, Sampling!Goto, SampleTyped
  <2>2. Kept' = Kept /\ Fresh' = Fresh /\ info[t] \in Kept
        BY <1>6, <1>7, <2>1
  <2>3. \A s \in Dead : dead'[s] = dead[s]
        BY <1>1, <1>8, <2>1, <2>2 DEF SampleTyped
  <2>4. Chain(dead', graveyard_dead, Sampling!Graveyard, Dead)
        BY <1>11, <2>3, SameChain
  <2> QED
      BY <1>8, <1>9, <1>11, <2>1, <2>2, <2>4
<1>16. CASE Sampling!PushNew(t)
  <2>1. UNCHANGED <<dead, graveyard_dead, samples, info>>
        BY <1>16 DEF Sampling!PushNew
  <2>2. pc[t] \in {"new", "exchange"} /\ l \in {"exchange", "registered"}
        BY <1>1, <1>3, <1>16 DEF Sampling!PushNew, Sampling!Goto, SampleTyped
  <2>3. Kept' = Kept
        BY <1>6, <2>1, <2>2
  <2>4. CASE l = "exchange"
    <3>1. list' = [list EXCEPT ![info[t]] = all_] /\ all_' = all_
          BY <1>1, <1>3, <1>16, <2>4 DEF Sampling!PushNew, Sampling!Goto, SampleTyped
    <3>2. Fresh' = Fresh /\ info[t] \in Fresh
          BY <1>7, <2>1, <2>2, <2>4
    <3>3. \A s \in Listed : list'[s] = list[s]
          BY <1>1, <1>9, <3>1, <3>2 DEF SampleTyped
    <3>4. Chain(list', all_, Sampling!Null, Listed)
          BY <1>11, <3>3, SameChain
    <3> QED
        BY <1>8, <1>9, <1>11, <2>1, <2>3, <3>1, <3>2, <3>4
  <2>5. CASE l = "registered"
    <3>1. pc[t] = "exchange" /\ list[info[t]] = all_ /\ all_' = info[t] /\ list' = list
          BY <1>1, <1>3, <1>16, <2>5 DEF Sampling!PushNew, Sampling!Goto, SampleTyped
    <3>2. Fresh' = Fresh \ {info[t]} /\ info[t] \in Fresh
          BY <1>7, <2>2, <2>5
    <3>3. info[t] # 0 /\ info[t] \in 1..samples
          BY <1>3, <1>4, <3>1
    <3>4. info[t] \notin Listed /\ Listed' = Listed \cup {info[t]}
          BY <1>9, <2>1, <3>2, <3>3
    <3>5. Chain(list, info[t], Sampling!Null, Listed \cup {info[t]})
          BY <1>11, <3>1, <3>3, <3>4, PushChain
    <3> QED
        BY <1>8, <1>11, <2>1, <2>3, <3>1, <3>4, <3>5
  <2> QED
      BY <2>2, <2>4, <2>5
<1>17. CASE Sampling!Bury(t)
  <2>1. /\ pc[t] = "bury" /\ l = "buried" /\ dead' = [dead EXCEPT ![info[t]] = graveyard_dead]
        /\ graveyard_dead' = info[t] /\ UNCHANGED <<list, all_, samples>>
        BY <1>1, <1>3, <1>17 DEF Sampling!Bury, Sampling!Goto, SampleTyped
  <2>2. Kept' = Kept \ {info[t]} /\ info[t] \in Kept /\ Fresh' = Fresh
        BY <1>6, <1>7, <2>1
  <2>3. info[t] # 0 /\ info[t] \in 1..samples /\ info[t] # Sampling!Graveyard
        BY <1>3, <1>4, <2>1
  <2>4. info[t] \notin Dead /\ Dead' = Dead \cup {info[t]} /\ Listed' = Listed
        BY <1>8, <1>9, <2>1, <2>2, <2>3
  <2>5. dead'[info[t]] = graveyard_dead /\ \A s \in Dead : dead'[s] = dead[s]
        BY <1>1, <1>4, <1>8, <2>1, <2>3, <2>4 DEF SampleTyped
  <2>6. Chain(dead', info[t], Sampling!Graveyard, Dead \cup {info[t]})
        BY <1>11, <2>3, <2>4, <2>5, PushChain
  <2> QED
      BY <1>11, <2>1, <2>4, <2>6
<1> QED
    BY <1>12, <1>13, <1>14, <1>15, <1>16, <1>17

(* What the invariant says of the threads outlives what the threads do not *)
(* see.                                                                    *)
LEMMA SamplersStay ==
  ASSUME SamplersSane, SampleIInv, \A t \in Samplers : pc'[t] = pc[t] /\ info'[t] = info[t],
         UNCHANGED <<all_, list, graveyard_dead, dead, size_estimate_, samples>>,
         begun' \in Nat, begun <= begun'
  PROVE  Counts' /\ Owners' /\ Lists'
<1>1. \A L : At(L)' = At(L)
      BY CountsStay DEF SampleIInv
<1>2. Counts'
  <2> DEFINE a == Cardinality(At(ThreadLabels \ {"idle"}))
             b == Cardinality(At(ThreadLabels \ {"idle", "dropped"}))
             c == Cardinality(At({"pop"}))
  <2>1. a' = a /\ b' = b /\ c' = c
    <3>1. /\ At(ThreadLabels \ {"idle"})' = At(ThreadLabels \ {"idle"})
          /\ At(ThreadLabels \ {"idle", "dropped"})' = At(ThreadLabels \ {"idle", "dropped"})
          /\ At({"pop"})' = At({"pop"})
          BY <1>1
    <3> QED
        BY <3>1
  <2>2. c \in Nat
    <3>1. At({"pop"}) \subseteq Samplers
          BY DEF At
    <3> QED
        BY <3>1, FS_Subset, FS_CardinalityType DEF SamplersSane
  <2>3. /\ a = size_estimate_ /\ b <= max_samples + 1
      /\ samples + c <= begun /\ samples <= max_samples + 1
        BY DEF SampleIInv, Counts
  <2>4. samples \in Nat /\ begun \in Nat
        BY DEF SampleIInv, SampleTyped
  <2>5. Counts' <=> /\ size_estimate_' = a' /\ b' <= max_samples + 1
                    /\ samples' + c' <= begun' /\ samples' <= max_samples + 1
        BY DEF Counts
  <2> HIDE DEF a, b, c
  <2> QED
      BY <2>1, <2>2, <2>3, <2>4, <2>5
<1>3. Owners'
      BY DEF SampleIInv, Owners
<1>4. Dead' = Dead /\ Listed' = Listed
  <2>1. /\ At(Has \ {"dead"})' = At(Has \ {"dead"})
        /\ At({"new", "exchange"})' = At({"new", "exchange"})
        BY <1>1
  <2>2. \A L : At(L) \subseteq Samplers
        BY DEF At
  <2>3. Kept' = Kept
        BY <2>1, <2>2 DEF Kept, Of
  <2>4. Fresh' = Fresh
        BY <2>1, <2>2 DEF Fresh, Of
  <2> QED
      BY <2>3, <2>4 DEF Dead, Listed
<1>5. Lists'
  <2>1. /\ Chain(dead', graveyard_dead', Sampling!Graveyard, Dead')
        /\ Chain(list', all_', Sampling!Null, Listed')
        BY <1>4 DEF SampleIInv, Lists
  <2> QED
      BY <2>1 DEF Lists, Chain, Numbers
<1> QED
    BY <1>2, <1>3, <1>5

(* Where Iterate goes next there is a sample, and it holds that one's      *)
(* mutex only.                                                             *)
LEMMA IteratorStep ==
  ASSUME SamplersSane, SampleIInv, NEW it \in Iterators,
         Sampling!Iterate(it) \/ Sampling!IterateStep(it)
  PROVE  SampleIInv'
<1>1. SampleTyped /\ Mutexes /\ SamplersSane
      BY DEF SampleIInv
<1>2. all_ \in 0..SamplerCalls
  <2>1. all_ \in Listed \cup {Sampling!Null}
        BY HeadOfList DEF SampleIInv, Lists
  <2> QED
      BY <1>1, <2>1 DEF Listed, SampleTyped, SamplersSane
<1>3. UNCHANGED <<all_, list, graveyard_dead, dead, graveyard_mu, size_estimate_, samples>>
      BY DEF Sampling!Iterate, Sampling!IterateStep
<1>4. begun' \in Nat /\ begun' <= SamplerCalls /\ begun <= begun'
      BY <1>1 DEF Sampling!Iterate, Sampling!IterateStep, SampleTyped, SamplersSane
<1>5. PICK l \in IteratorLabels, s \in 0..SamplerCalls :
        /\ pc' = [pc EXCEPT ![it] = l] /\ info' = [info EXCEPT ![it] = s]
        /\ l # "idle" => s \in Sampling!Samples
        /\ \/ init_mu' = init_mu /\ l \in {"idle", "visit"} /\ pc[it] = "idle"
           \/ /\ pc[it] = "visit" /\ s = info[it] /\ init_mu[s] = None
              /\ init_mu' = [init_mu EXCEPT ![s] = it]
           \/ /\ pc[it] \in {"callback", "skip"} /\ l \in {"idle", "visit"}
              /\ init_mu' = [init_mu EXCEPT ![info[it]] = None]
  <2>1. info = [info EXCEPT ![it] = info[it]] /\ info[it] \in 0..SamplerCalls
        BY <1>1 DEF SampleTyped
  <2>2. pc[it] # "idle" => info[it] \in Sampling!Samples
        BY <1>1 DEF Mutexes
  <2>3. \A m \in 0..SamplerCalls : m # 0 => m \in Sampling!Samples
        BY <1>1 DEF SamplersSane
  <2>4. CASE Sampling!Iterate(it)
    <3>1. CASE all_ = 0
      <4>1. /\ pc' = [pc EXCEPT ![it] = "idle"] /\ info' = [info EXCEPT ![it] = all_]
            /\ init_mu' = init_mu /\ pc[it] = "idle"
            BY <2>4, <3>1 DEF Sampling!Iterate, Sampling!Visit, Sampling!Goto, Sampling!Take
      <4>2. "idle" \in IteratorLabels
            BY DEF IteratorLabels
      <4> QED
          BY <1>2, <4>1, <4>2
    <3>2. CASE all_ # 0
      <4>1. /\ pc' = [pc EXCEPT ![it] = "visit"] /\ info' = [info EXCEPT ![it] = all_]
            /\ init_mu' = init_mu /\ pc[it] = "idle"
            BY <2>4, <3>2 DEF Sampling!Iterate, Sampling!Visit, Sampling!Goto, Sampling!Take
      <4>2. "visit" \in IteratorLabels /\ all_ \in Sampling!Samples
            BY <1>2, <2>3, <3>2 DEF IteratorLabels
      <4> QED
          BY <1>2, <4>1, <4>2
    <3> QED
        BY <3>1, <3>2
  <2>5. CASE Sampling!IterateStep(it) /\ pc[it] = "visit"
    <3>1. PICK l \in {"callback", "skip"} : pc' = [pc EXCEPT ![it] = l]
          BY <2>5 DEF Sampling!IterateStep, Sampling!Goto
    <3>2. /\ info' = info /\ init_mu[info[it]] = None /\ pc[it] = "visit"
          /\ init_mu' = [init_mu EXCEPT ![info[it]] = it]
          BY <2>5 DEF Sampling!IterateStep, Sampling!Lock
    <3>3. l \in IteratorLabels /\ info[it] \in Sampling!Samples
          BY <2>2, <3>1, <3>2 DEF IteratorLabels
    <3> QED
        BY <2>1, <3>1, <3>2, <3>3
  <2>6. CASE Sampling!IterateStep(it) /\ pc[it] # "visit"
    <3> DEFINE s == list[info[it]]
    <3>1. /\ pc[it] \in {"callback", "skip"} /\ info' = [info EXCEPT ![it] = s]
          /\ pc' = [pc EXCEPT ![it] = IF s = 0 THEN "idle" ELSE "visit"]
          /\ init_mu' = [init_mu EXCEPT ![info[it]] = None]
          BY <2>6 DEF Sampling!IterateStep, Sampling!Visit, Sampling!Goto, Sampling!Take,
                      Sampling!Unlock
    <3>2. s \in 0..SamplerCalls
          BY <1>1, <2>2, <3>1 DEF SampleTyped
    <3> HIDE DEF s
    <3>3. PICK l \in {"idle", "visit"} : pc' = [pc EXCEPT ![it] = l] /\ (l # "idle" => s # 0)
          BY <3>1
    <3>4. l \in IteratorLabels
          BY DEF IteratorLabels
    <3> QED
        BY <2>3, <3>1, <3>2, <3>3, <3>4
  <2> QED
      BY <2>4, <2>5, <2>6
<1>6. /\ pc'[it] = l /\ \A j \in (Iterators \ {it}) \cup Samplers : pc'[j] = pc[j]
      /\ info'[it] = s /\ \A j \in (Iterators \ {it}) \cup Samplers : info'[j] = info[j]
      BY <1>1, <1>5 DEF SampleTyped, SamplersSane
<1>7. pc[it] # "idle" => info[it] \in Sampling!Samples
      BY <1>1 DEF Mutexes
<1>8. init_mu' \in [Sampling!Samples -> Samplers \cup Iterators \cup {None}]
      BY <1>1, <1>5 DEF SampleTyped
<1>9. SampleTyped'
  <2>1. pc' \in [Samplers \cup Iterators -> ThreadLabels \cup IteratorLabels]
        BY <1>1, <1>5 DEF SampleTyped
  <2>2. info' \in [Samplers \cup Iterators -> 0..SamplerCalls]
        BY <1>1, <1>5 DEF SampleTyped
  <2> QED
      BY <1>1, <1>3, <1>4, <1>5, <1>6, <1>8, <2>1, <2>2 DEF SampleTyped
<1>10. ASSUME NEW j \in (Iterators \ {it}) \cup Samplers,
              info[j] \in Sampling!Samples, init_mu[info[j]] = j
       PROVE  init_mu'[info'[j]] = j
  <2>1. info'[j] = info[j] /\ j # None /\ j # it
        BY <1>1, <1>6 DEF SamplersSane
  <2>2. pc[it] \in {"callback", "skip"} => init_mu[info[it]] = it
        BY <1>1 DEF Mutexes
  <2>3. init_mu \in [Sampling!Samples -> Samplers \cup Iterators \cup {None}]
        BY <1>1 DEF SampleTyped
  <2> QED
      BY <1>5, <1>7, <1>10, <2>1, <2>2, <2>3
<1>11. \A t \in Samplers : pc[t] = "prepare" => info[t] \in Sampling!Samples
      BY <1>1 DEF SampleIInv, SampleTyped, Owners, SamplersSane
<1>12. Mutexes'
  <2>1. l \in {"callback", "skip"} => init_mu'[s] = it
        BY <1>1, <1>5, <1>7 DEF SampleTyped
  <2>2. \A t \in Samplers : pc[t] = "prepare" => init_mu'[info'[t]] = t
        BY <1>1, <1>10, <1>11 DEF Mutexes
  <2>3. \A j \in Iterators \ {it} : pc[j] \in {"callback", "skip"} => init_mu'[info'[j]] = j
        BY <1>1, <1>10 DEF Mutexes
  <2>4. ASSUME NEW t \in Samplers
        PROVE  /\ pc'[t] \in {"dead", "prepare", "bury"} <=> graveyard_mu' = t
               /\ pc'[t] = "prepare" => init_mu'[info'[t]] = t
               /\ pc'[t] = "dead" => info'[t] = graveyard_dead'
        BY <1>1, <1>3, <1>6, <2>2 DEF Mutexes
  <2>5. ASSUME NEW j \in Iterators
        PROVE  /\ pc'[j] # "idle" => info'[j] \in Sampling!Samples
               /\ pc'[j] \in {"callback", "skip"} => init_mu'[info'[j]] = j
    <3>1. CASE j = it
          BY <1>5, <1>6, <2>1, <3>1
    <3>2. CASE j # it
          BY <1>1, <1>6, <2>3, <3>2 DEF Mutexes
    <3> QED
        BY <3>1, <3>2
  <2> QED
      BY <2>4, <2>5 DEF Mutexes
<1>13. Counts' /\ Owners' /\ Lists'
      BY <1>1, <1>3, <1>4, <1>6, SamplersStay
<1> QED
    BY <1>9, <1>12, <1>13 DEF SampleIInv

(* The invariant in the words of the property.                             *)
LEMMA SampleKeeps == ASSUME SamplersSane, SampleIInv PROVE Sampling!SamplesAreReused
<1>1. SampleTyped /\ Counts /\ Owners /\ Mutexes /\ Lists
      BY DEF SampleIInv
<1>2. samples \in Nat /\ samples <= SamplerCalls /\ SamplerCalls \in Nat
      BY <1>1 DEF SampleTyped, SamplersSane
<1>3. /\ Dead \subseteq 1..SamplerCalls /\ Listed \subseteq 1..SamplerCalls
      /\ Sampling!Graveyard \notin Dead /\ Sampling!Null \notin Listed
      BY <1>2 DEF Dead, Listed
<1>4. Sampling!Linked(dead, graveyard_dead, Sampling!Graveyard) = Dead
  <2> DEFINE reach == CHOOSE g : g = [n \in 0..SamplerCalls |->
                        IF n = 0 THEN {graveyard_dead} \ {Sampling!Graveyard}
                        ELSE g[n - 1] \cup ({dead[s] : s \in g[n - 1]} \ {Sampling!Graveyard})]
  <2>1. Sampling!Linked(dead, graveyard_dead, Sampling!Graveyard) = reach[SamplerCalls]
        BY DEF Sampling!Linked
  <2>2. Chain(dead, graveyard_dead, Sampling!Graveyard, Dead)
        BY <1>1 DEF Lists
  <2>3. /\ \E g : Reaches(g, dead, graveyard_dead, Sampling!Graveyard, SamplerCalls)
        /\ \A g : Reaches(g, dead, graveyard_dead, Sampling!Graveyard, SamplerCalls) =>
                g[SamplerCalls] = Dead
        BY <1>2, <1>3, <2>2, ReachChain
  <2>4. Reaches(reach, dead, graveyard_dead, Sampling!Graveyard, SamplerCalls)
        BY <2>3 DEF Reaches
  <2> HIDE DEF reach
  <2> QED
      BY <2>1, <2>3, <2>4
<1>5. Sampling!Linked(list, all_, Sampling!Null) = Listed
  <2> DEFINE reach == CHOOSE g : g = [n \in 0..SamplerCalls |->
                        IF n = 0 THEN {all_} \ {Sampling!Null}
                        ELSE g[n - 1] \cup ({list[s] : s \in g[n - 1]} \ {Sampling!Null})]
  <2>1. Sampling!Linked(list, all_, Sampling!Null) = reach[SamplerCalls]
        BY DEF Sampling!Linked
  <2>2. Chain(list, all_, Sampling!Null, Listed)
        BY <1>1 DEF Lists
  <2>3. /\ \E g : Reaches(g, list, all_, Sampling!Null, SamplerCalls)
        /\ \A g : Reaches(g, list, all_, Sampling!Null, SamplerCalls) => g[SamplerCalls] = Listed
        BY <1>2, <1>3, <2>2, ReachChain
  <2>4. Reaches(reach, list, all_, Sampling!Null, SamplerCalls)
        BY <2>3 DEF Reaches
  <2> HIDE DEF reach
  <2> QED
      BY <2>1, <2>3, <2>4
<1>6. \A t, u \in Samplers : info[t] = info[u] /\ info[t] # Sampling!Null => t = u
      BY <1>1 DEF Owners
<1>7. \A t \in Samplers : info[t] \in Dead => pc[t] = "dead"
      BY <1>1, <1>2 DEF Owners, Dead, Kept, Of, At
<1>8. Fresh = {info[t] : t \in {u \in Samplers : pc[u] \in {"new", "exchange"}}}
      BY DEF Fresh, Of, At
<1>9. Fresh \subseteq 1..samples
  <2>1. \A t \in Samplers : pc[t] \in Has => info[t] \in 1..samples
        BY <1>1, <1>2 DEF Owners, SampleTyped
  <2> QED
      BY <1>8, <2>1
<1>10. 1..samples = Listed \cup Fresh
      BY <1>9 DEF Listed
<1>11. \A it \in Iterators, t \in Samplers :
         pc[it] = "callback" /\ pc[t] = "prepare" => info[it] # info[t]
  <2>1. \A it \in Iterators, t \in Samplers : it # t
        BY DEF SamplersSane
  <2>2. \A it \in Iterators : pc[it] = "callback" => init_mu[info[it]] = it
        BY <1>1 DEF Mutexes
  <2>3. \A t \in Samplers : pc[t] = "prepare" => init_mu[info[t]] = t
        BY <1>1 DEF Mutexes
  <2> QED
      BY <2>1, <2>2, <2>3
<1>12. samples <= max_samples + 1
      BY <1>1 DEF Counts
<1> QED
    BY <1>4, <1>5, <1>6, <1>7, <1>8, <1>10, <1>11, <1>12 DEF Sampling!SamplesAreReused

(* Threads that register and unregister hash tables at once: a sample has  *)
(* one owner or is in the graveyard, no more are made than may be in use,  *)
(* all are on the list, and none is reset under the callback of Iterate    *)
(* (hashtablez_sampler.cc:90-160), for any number of threads and calls.    *)
THEOREM SamplesHaveOneOwner == Spec => []SamplesAreReused
<1> DEFINE Inv == which = "sampler" => SampleIInv
<1>1. SamplersSane
      BY ComponentsAssumption DEF SamplersSane
<1>2. Init => Inv
      BY <1>1, SampleInit DEF Init
<1>3. Inv /\ [Next]_vars => Inv'
  <2> SUFFICES ASSUME which = "sampler", SampleIInv, [Next]_vars PROVE SampleIInv'
      BY DEF Next, vars
  <2>1. Sampling!Next \/ UNCHANGED Sampling!vars
        BY DEF Next, vars, sampler, Sampling!vars
  <2>2. CASE UNCHANGED Sampling!vars
    <3>1. SampleTyped' /\ Mutexes'
          BY <2>2 DEF Sampling!vars, SampleIInv, SampleTyped, Mutexes
    <3>2. Counts' /\ Owners' /\ Lists'
          BY <1>1, <2>2, SamplersStay DEF Sampling!vars, SampleIInv, SampleTyped
    <3> QED
        BY <3>1, <3>2 DEF SampleIInv
  <2>3. ASSUME NEW t \in Samplers, SamplerStep(t)
        PROVE  SampleIInv'
        BY <1>1, <2>3, SamplerTyped, SamplerCounts, SamplerOwners, SamplerMutexes, SamplerLists
           DEF SampleIInv
  <2>4. CASE Sampling!Next
        BY <1>1, <2>2, <2>3, <2>4, IteratorStep DEF Sampling!Next, Sampling!Done
  <2> QED
      BY <2>1, <2>2, <2>4
<1>4. Inv => SamplesAreReused
      BY <1>1, SampleKeeps DEF SamplesAreReused
<1> QED
    BY <1>2, <1>3, <1>4, PTL DEF Spec
=============================================================================
