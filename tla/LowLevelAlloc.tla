--------------------------- MODULE LowLevelAlloc ----------------------------
(***************************************************************************)
(* One arena of LowLevelAlloc (abel/memory/internal/low_level_alloc.cc): a *)
(* first-fit allocator with its free blocks in address order.  Addresses   *)
(* and sizes are counted in units of round_up, 32 bytes; a block is known  *)
(* by its address.  The free list is the set of its blocks with their      *)
(* levels: SkipList models the links.  The arena's lock makes a call one   *)
(* step, except that an allocation lets go of it to map new pages.  The    *)
(* sizes of a page and of a chunk are parameters.                          *)
(***************************************************************************)
EXTENDS Naturals, FiniteSetsExt

CONSTANTS
  Threads,
  Requests,   \* rounded sizes of requests, header included
  pagesize,
  Chunk,      \* what is mapped at once: 16 pages in the code
  MaxRandom,  \* bound: the levels that Random adds
  MaxAddr,    \* bound: the end of the address space
  Null

Addresses == 0..MaxAddr - 1
kMaxLevel == 30
round_up == 32
min_size == 2

VARIABLES
  free,       \* the free list: [size, levels] of each block in it
  allocated,  \* the size of each block clients have
  mapped,     \* the memory obtained from the kernel
  request,    \* of a thread that maps pages
  new_pages,  \* and the address it has got
  pc

vars == <<free, allocated, mapped, request, new_pages, pc>>

-----------------------------------------------------------------------------
(* In bytes, as the halving of an odd number of units matters.  No node    *)
(* has kMaxLevel levels, so the loop may end there.                        *)
IntLog2(size, base) ==
  LET i[k \in 0..kMaxLevel] == IF k = 0 THEN size ELSE i[k - 1] \div 2
  IN  CHOOSE k \in 0..kMaxLevel :
        /\ i[k] <= base \/ k = kMaxLevel
        /\ \A j \in 0..k - 1 : i[j] > base

(* Mutant: the levels of a free block do not grow with its size.           *)
LLA_SkiplistLevels_NoSize(size, random) ==
  IF random = 1 THEN IntLog2(size * round_up, min_size * round_up) + 1 ELSE random

(* A node of that size has room for (size - 40) / 8 pointers; random is 1  *)
(* when the code passes none.                                              *)
LLA_SkiplistLevels(size, random) ==
  Min({IntLog2(size * round_up, min_size * round_up) + random,
       (size * round_up - 40) \div 8,
       kMaxLevel - 1})

Block(size, random) == [size |-> size, levels |-> LLA_SkiplistLevels(size, random)]
With(f, a, value) == [b \in DOMAIN f \cup {a} |-> IF b = a THEN value ELSE f[b]]
Without(f, a) == [b \in DOMAIN f \ {a} |-> f[b]]

(* Mutant: blocks are never joined.                                        *)
Coalesce_Never(f, a, random) == f

(* Coalesce a with its successor if they touch.                            *)
Coalesce(f, a, random) ==
  LET n == a + f[a].size
  IN  IF n \in DOMAIN f
      THEN With(Without(f, n), a, Block(f[a].size + f[n].size, random))
      ELSE f

(* AddToFreelist: insert block a, coalesce it with its successor, then its *)
(* predecessor, unless that is the head, with it.  random has the outcomes *)
(* of Random for the three insertions.                                     *)
AddToFreelist(f, a, size, random) ==
  LET joined == Coalesce(With(f, a, Block(size, random[1])), a, random[2])
      before == {p \in DOMAIN f : p < a}
  IN  IF before = {} THEN joined ELSE Coalesce(joined, Max(before), random[3])

Random == [1..3 -> 1..MaxRandom]

(* The search of DoAllocWithArena: the first block that fits among those   *)
(* with the level every block of that size has; Null when there is none.   *)
FirstFit(f, req_rnd) ==
  LET fits == {p \in DOMAIN f : /\ f[p].levels >= LLA_SkiplistLevels(req_rnd, 1)
                                /\ f[p].size >= req_rnd}
  IN  IF fits = {} THEN Null ELSE Min(fits)

(* Whether the rest of block s is big enough to be split off.              *)
Splits(f, s, req_rnd) == req_rnd + min_size <= f[s].size

(* The block leaves the list, and its rest comes back.                     *)
Take(f, s, req_rnd, random) ==
  IF Splits(f, s, req_rnd)
  THEN AddToFreelist(Without(f, s), s + req_rnd, f[s].size - req_rnd, random)
  ELSE Without(f, s)

-----------------------------------------------------------------------------
Init ==
  /\ free = <<>> /\ allocated = <<>> /\ mapped = {}
  /\ request = [t \in Threads |-> 0]
  /\ new_pages = [t \in Threads |-> Null]
  /\ pc = [t \in Threads |-> "idle"]

(* The loop of DoAllocWithArena from a search on.                          *)
Allocate(t, f, req_rnd) ==
  LET s == FirstFit(f, req_rnd)
  IN  IF s # Null
      THEN /\ \E random \in Random : free' = Take(f, s, req_rnd, random)
           /\ allocated' = With(allocated, s, IF Splits(f, s, req_rnd) THEN req_rnd ELSE f[s].size)
           /\ pc' = [pc EXCEPT ![t] = "idle"]
           /\ request' = [request EXCEPT ![t] = 0]
      ELSE /\ free' = f
           /\ pc' = [pc EXCEPT ![t] = "mmap"]
           /\ request' = [request EXCEPT ![t] = req_rnd]
           /\ UNCHANGED allocated

DoAllocWithArena(t) ==
  /\ pc[t] = "idle"
  /\ \E req_rnd \in Requests : Allocate(t, free, req_rnd)
  /\ UNCHANGED <<mapped, new_pages>>

new_pages_size(t) == ((request[t] + Chunk - 1) \div Chunk) * Chunk

(* The kernel maps pages anywhere; when it has none left the process dies. *)
Mmap(t) ==
  /\ pc[t] = "mmap"
  /\ LET Pages(p) == p..p + new_pages_size(t) - 1
         places == {p \in Addresses : p % pagesize = 0 /\ Pages(p) \subseteq Addresses \ mapped}
     IN  \/ \E p \in places :
              /\ mapped' = mapped \cup Pages(p)
              /\ new_pages' = [new_pages EXCEPT ![t] = p]
              /\ pc' = [pc EXCEPT ![t] = "lock"]
         \/ /\ places = {}
            /\ pc' = [u \in Threads |-> "aborted"]
            /\ UNCHANGED <<mapped, new_pages>>
  /\ UNCHANGED <<free, allocated, request>>

(* Back under the lock, the new region is freed and the search repeated.   *)
AddPages(t) ==
  /\ pc[t] = "lock"
  /\ \E random \in Random :
       Allocate(t, AddToFreelist(free, new_pages[t], new_pages_size(t), random), request[t])
  /\ new_pages' = [new_pages EXCEPT ![t] = Null]
  /\ UNCHANGED mapped

Free(t) ==
  /\ pc[t] = "idle"
  /\ \E a \in DOMAIN allocated : \E random \in Random :
       /\ free' = AddToFreelist(free, a, allocated[a], random)
       /\ allocated' = Without(allocated, a)
  /\ UNCHANGED <<mapped, request, new_pages, pc>>

(* DeleteArena refuses an arena with blocks in use; by then no other call  *)
(* may be in progress.  Another arena can be made after that.              *)
DeleteArena ==
  /\ \A t \in Threads : pc[t] = "idle"
  /\ allocated = <<>>
  /\ free' = <<>> /\ mapped' = {}
  /\ UNCHANGED <<allocated, request, new_pages, pc>>

Done == (\A t \in Threads : pc[t] = "aborted") /\ UNCHANGED vars

Next ==
  \/ \E t \in Threads : DoAllocWithArena(t) \/ Mmap(t) \/ AddPages(t) \/ Free(t)
  \/ DeleteArena \/ Done

Spec == Init /\ [][Next]_vars

-----------------------------------------------------------------------------
Size(p) == IF p \in DOMAIN free THEN free[p].size ELSE allocated[p]
Blocks == DOMAIN free \cup DOMAIN allocated

(* The memory in the hands of a thread that has just mapped it.            *)
InTransit ==
  UNION {new_pages[t]..new_pages[t] + new_pages_size(t) - 1 : t \in {u \in Threads : new_pages[u] # Null}}

(* What the RAW_CHECKs of Next and DeleteArena stand for, after any        *)
(* sequence of allocations and frees: the blocks partition the arena's     *)
(* memory, no two free ones touch, and so an arena without allocated       *)
(* blocks is made of whole pages and can be unmapped.                      *)
BlocksPartitionMemory ==
  /\ UNION {p..p + Size(p) - 1 : p \in Blocks} = mapped \ InTransit
  /\ \A p, q \in Blocks : p < q => p + Size(p) <= q
  /\ \A p \in DOMAIN free : p + free[p].size \notin DOMAIN free
  /\ DOMAIN allocated = {} => \A p \in Blocks : p % pagesize = 0 /\ Size(p) % pagesize = 0

(* The search starts at a high level and skips the small blocks: it finds  *)
(* nothing only when no free block is big enough, so pages are mapped only *)
(* when they are needed, and once for an allocation.                       *)
FirstFitMissesNothing ==
  \A req_rnd \in Requests :
    FirstFit(free, req_rnd) = Null => \A p \in DOMAIN free : free[p].size < req_rnd
=============================================================================
