----------------------------- MODULE RawHashSet -----------------------------
(***************************************************************************)
(* raw_hash_set (abel/container/internal/raw_hash_set.h), the open         *)
(* addressing table behind flat_hash_map and flat_hash_set: control bytes  *)
(* with a sentinel and cloned bytes at the end, probing by groups of       *)
(* kWidth bytes, tombstones, growth_left, rehashing in place.              *)
(*                                                                         *)
(* A key is known by its hash, a record of h1 (which places it) and h2     *)
(* (its tag in the control byte); keys with the same hash are different    *)
(* keys that only equality tells apart.  The table keeps the hashes in its *)
(* slots.  The source has kWidth 8 (portable) or 16 (SSE2) and a maximum   *)
(* load of 1 - 1/8; both are parameters here, so that a small table meets  *)
(* every case: kWidth = Load stands for the portable group, kWidth =       *)
(* 2 * Load for the SSE2 one.                                              *)
(***************************************************************************)
EXTENDS Integers, FiniteSets, FiniteSetsExt, Bitwise

CONSTANTS
  kWidth,   \* bytes of a group
  Load,     \* 8 in the source: the table is full at capacity - capacity/Load
  Hashes,   \* the hashes of keys, records [h1, h2]
  Seeds,    \* the values HashSeed can take for a newly allocated table
  MaxSize,  \* bound: elements in the table
  Requests  \* the arguments of rehash and reserve

VARIABLE table  \* ctrl_, slots_, size_, capacity_, growth_left() and HashSeed

kEmpty    == "empty"
kDeleted  == "deleted"
kSentinel == "sentinel"
NoElement == "none"

IsFull(c)           == c \notin {kEmpty, kDeleted, kSentinel}
IsEmptyOrDeleted(c) == c \in {kEmpty, kDeleted}

(* n & capacity, a power of 2 minus 1.                                     *)
Mask(n, capacity) == n % (capacity + 1)

(* The next power of 2 minus 1, with a minimum of 1.                       *)
NormalizeCapacity(n) ==
  Min({c \in {2^k - 1 : k \in 1..10} : c >= n})

CapacityToGrowth(capacity) ==
  IF kWidth = Load /\ capacity = Load - 1
  THEN Load - 2
  ELSE capacity - capacity \div Load

GrowthToLowerboundCapacity(growth) ==
  IF kWidth = Load /\ growth = Load - 1
  THEN Load
  ELSE IF growth = 0 THEN 0 ELSE growth + (growth - 1) \div (Load - 1)

Small(capacity) == capacity < kWidth - 1

(* The control bytes a group that starts at pos reads, by position.        *)
Match(t, pos, Test(_)) == {i \in 0..(kWidth - 1) : Test(t.ctrl[pos + i])}
MatchEmpty(t, pos) == Match(t, pos, LAMBDA c : c = kEmpty)
MatchEmptyOrDeleted(t, pos) == Match(t, pos, IsEmptyOrDeleted)

-----------------------------------------------------------------------------
(* probe_seq: the offset of the n-th group, at distance                    *)
(* kWidth * (1 + 2 + ... + n) from H1(hash).                               *)
H1(t, hash) == hash.h1 ^^ t.seed

Probe(t, hash, n) ==
  Mask(H1(t, hash) + kWidth * ((n * (n + 1)) \div 2), t.capacity)

(* N groups, each probed once: a longer search would never end.            *)
Probes(t) == 0..(t.capacity \div kWidth)

(* The search for the first group that satisfies Test.                     *)
FirstProbe(t, hash, Test(_)) == Min({n \in Probes(t) : Test(Probe(t, hash, n))})

SlotAt(t, pos, i) == Mask(pos + i, t.capacity)

(* find_first_non_full; back is the random direction of a debug build.     *)
find_first_non_full(t, hash, back) ==
  LET n == FirstProbe(t, hash, LAMBDA pos : MatchEmptyOrDeleted(t, pos) # {})
      pos  == Probe(t, hash, n)
      mask == MatchEmptyOrDeleted(t, pos)
  IN SlotAt(t, pos, IF back /\ ~Small(t.capacity) THEN Max(mask) ELSE Min(mask))

(* set_ctrl: the control byte and its clone after the sentinel.            *)
set_ctrl(t, i, c) ==
  LET clone == Mask(i - kWidth, t.capacity) + 1 + Mask(kWidth - 1, t.capacity)
  IN [t EXCEPT !.ctrl[i] = c, !.ctrl[clone] = c]

Place(t, i, hash) == [set_ctrl(t, i, hash.h2) EXCEPT !.slots[i] = hash]

-----------------------------------------------------------------------------
(* initialize_slots: reset_ctrl and reset_growth_left.  reset_ctrl leaves  *)
(* the last byte unset, which no group reads.                              *)
initialize_slots(capacity, size, seed) ==
  [ctrl |-> [i \in 0..(capacity + kWidth) |->
               IF i = capacity THEN kSentinel ELSE kEmpty],
   slots |-> [i \in 0..(capacity - 1) |-> NoElement],
   size |-> size,
   capacity |-> capacity,
   growth_left |-> CapacityToGrowth(capacity) - size,
   seed |-> seed]

(* EmptyGroup(): no slots, one group of a sentinel and empty bytes.        *)
EmptyTable == initialize_slots(0, 0, 0)

(* The elements of old, in slot order, put into t.                         *)
RECURSIVE Transfer(_, _, _, _)
Transfer(t, old, i, back) ==
  IF i = old.capacity THEN t
  ELSE IF IsFull(old.ctrl[i])
       THEN LET hash == old.slots[i]
            IN Transfer(Place(t, find_first_non_full(t, hash, back), hash), old, i + 1, back)
       ELSE Transfer(t, old, i + 1, back)

resize(t, new_capacity, seed, back) ==
  Transfer(initialize_slots(new_capacity, t.size, seed), t, 0, back)

(* ConvertDeletedToEmptyAndFullToDeleted, clones and sentinel included.    *)
ConvertDeletedToEmptyAndFullToDeleted(t) ==
  LET converted(c) == IF IsFull(c) THEN kDeleted ELSE kEmpty
  IN [t EXCEPT !.ctrl =
        [i \in DOMAIN @ |->
           CASE i < t.capacity -> converted(@[i])
             [] i = t.capacity -> kSentinel
             [] i > t.capacity -> converted(@[i - t.capacity - 1])]]

(* probe_index: which group of the hash's probe sequence a slot is in.     *)
probe_index(t, hash, pos) == Mask(pos - Probe(t, hash, 0), t.capacity) \div kWidth

(* --i, then the loop's ++i: slot i now holds the element of new_i.        *)
AfterSwap(i) == i

(* The loop of drop_deletes_without_resize; kDeleted marks an element that *)
(* is still to be placed.                                                  *)
RECURSIVE Replace(_, _, _)
Replace(t, i, back) ==
  LET hash  == t.slots[i]
      new_i == find_first_non_full(t, hash, back)
      moved == [Place(t, new_i, hash) EXCEPT !.slots[i] = t.slots[new_i]]
  IN CASE i = t.capacity -> t
       [] i < t.capacity /\ t.ctrl[i] # kDeleted -> Replace(t, i + 1, back)
       [] i < t.capacity /\ t.ctrl[i] = kDeleted ->
            IF probe_index(t, hash, new_i) = probe_index(t, hash, i)
            THEN Replace(set_ctrl(t, i, hash.h2), i + 1, back)
            ELSE IF t.ctrl[new_i] = kEmpty
            THEN Replace(set_ctrl([moved EXCEPT !.slots[i] = NoElement], i, kEmpty),
                         i + 1, back)
            ELSE Replace(moved, AfterSwap(i), back)

drop_deletes_without_resize(t, back) ==
  [Replace(ConvertDeletedToEmptyAndFullToDeleted(t), 0, back)
     EXCEPT !.growth_left = CapacityToGrowth(t.capacity) - t.size]

(* rehash_and_grow_if_necessary: squash the tombstones if the table is at  *)
(* most half full of elements, otherwise grow.                             *)
rehash_and_grow_if_necessary(t, seed, back) ==
  IF t.capacity = 0 THEN resize(t, 1, seed, back)
  ELSE IF t.size <= CapacityToGrowth(t.capacity) \div 2
  THEN drop_deletes_without_resize(t, back)
  ELSE resize(t, t.capacity * 2 + 1, seed, back)

(* prepare_insert, then emplace_at: only an empty slot costs growth.       *)
prepare_insert(t, hash, seed, back) ==
  LET rehash == /\ t.growth_left = 0
                /\ t.ctrl[find_first_non_full(t, hash, back)] # kDeleted
      room   == IF rehash THEN rehash_and_grow_if_necessary(t, seed, back) ELSE t
      target == find_first_non_full(room, hash, back)
  IN [Place(room, target, hash) EXCEPT
        !.size = @ + 1,
        !.growth_left = @ - (IF room.ctrl[target] = kEmpty THEN 1 ELSE 0)]

-----------------------------------------------------------------------------
Init == table = EmptyTable

(* emplace, insert: find_or_prepare_insert of a key that is not there.     *)
Insert(hash, seed, back) ==
  /\ table.size < MaxSize
  /\ table' = prepare_insert(table, hash, seed, back)

(* Mutant: any slot with an empty byte on each side was never full.        *)
was_never_full_AnyGap(t, i) ==
  /\ MatchEmpty(t, i) # {}
  /\ MatchEmpty(t, Mask(i - kWidth, t.capacity)) # {}

(* Whether no group that holds slot i can ever have been full: the run of  *)
(* bytes that are not empty around it is shorter than a group.             *)
was_never_full(t, i) ==
  LET empty_after  == MatchEmpty(t, i)
      empty_before == MatchEmpty(t, Mask(i - kWidth, t.capacity))
  IN /\ empty_before # {}
     /\ empty_after # {}
     /\ Min(empty_after) + (kWidth - 1 - Max(empty_before)) < kWidth

(* erase and extract: erase_meta_only.                                     *)
Erase(i) ==
  LET clear == was_never_full(table, i)
      freed == set_ctrl(table, i, IF clear THEN kEmpty ELSE kDeleted)
  IN /\ IsFull(table.ctrl[i])
     /\ table' = [freed EXCEPT !.slots[i] = NoElement,
                               !.size = @ - 1,
                               !.growth_left = @ + (IF clear THEN 1 ELSE 0)]

(* clear, of a table of at most 127 slots.                                 *)
Clear ==
  /\ table.capacity # 0
  /\ table' = initialize_slots(table.capacity, 0, table.seed)

(* rehash(n): n = 0 always rebuilds, or frees an empty table.              *)
Rehash(n, seed, back) ==
  LET m == NormalizeCapacity(n | GrowthToLowerboundCapacity(table.size)) IN
  /\ ~(n = 0 /\ table.capacity = 0)
  /\ table' = IF n = 0 /\ table.size = 0 THEN EmptyTable
              ELSE IF n = 0 \/ m > table.capacity THEN resize(table, m, seed, back)
              ELSE table

Reserve(n, seed, back) == Rehash(GrowthToLowerboundCapacity(n), seed, back)

(* operator=(const&): a copy, which reserves for the elements and puts     *)
(* them in, is swapped in.  Copying an empty table leaves EmptyGroup().    *)
Assign(seed, back) ==
  LET capacity == NormalizeCapacity(GrowthToLowerboundCapacity(table.size))
  IN table' = IF table.size = 0 THEN EmptyTable
              ELSE [Transfer(initialize_slots(capacity, 0, seed), table, 0, back)
                      EXCEPT !.size = table.size, !.growth_left = @ - table.size]

Next ==
  \/ \E i \in 0..(table.capacity - 1) : Erase(i)
  \/ Clear
  \/ \E seed \in Seeds, back \in BOOLEAN :
       \/ \E hash \in Hashes : Insert(hash, seed, back)
       \/ \E n \in Requests : Rehash(n, seed, back) \/ Reserve(n, seed, back)
       \/ Assign(seed, back)

Spec == Init /\ [][Next]_table

-----------------------------------------------------------------------------
(* find of the element in slot i: the first group of its probe sequence    *)
(* that holds the slot comes before any group with an empty byte, and the  *)
(* control byte has its tag.                                               *)
Found(t, i) ==
  LET hash == t.slots[i]
      Holds(pos) == \E j \in 0..(kWidth - 1) : SlotAt(t, pos, j) = i /\ t.ctrl[pos + j] = hash.h2
  IN \E n \in Probes(t) :
       /\ Holds(Probe(t, hash, n))
       /\ \A m \in 0..(n - 1) : MatchEmpty(t, Probe(t, hash, m)) = {}

(* Every element in the table is found by its key, whatever insertions,    *)
(* erasures, rehashes and copies came before: neither a tombstone turned   *)
(* empty nor an element moved in place cuts a probe sequence               *)
(* (raw_hash_set.h:1265-1277, 1408-1426, 1504-1568).                       *)
ElementsAreFound ==
  \A i \in 0..(table.capacity - 1) : IsFull(table.ctrl[i]) => Found(table, i)

(* A search ends: every probe sequence meets a group with an empty byte,   *)
(* and growth_left counts exactly the empty slots that may still be used,  *)
(* so that it always will (raw_hash_set.h:1274, 1716).                     *)
SearchesEnd ==
  /\ \A hash \in Hashes :
       \E n \in Probes(table) : MatchEmpty(table, Probe(table, hash, n)) # {}
  /\ LET slots == 0..(table.capacity - 1) IN
     /\ table.size = Cardinality({i \in slots : IsFull(table.ctrl[i])})
     /\ table.growth_left = CapacityToGrowth(table.capacity)
           - Cardinality({i \in slots : table.ctrl[i] \notin {kEmpty}})
=============================================================================
