------------------------------ MODULE MCSafety ------------------------------
(***************************************************************************)
(* A small instance of Components, and beside it the containers, of which  *)
(* at most one makes steps.  The bounds are in the configuration, as far   *)
(* as they can be written there:                                           *)
(*   RotatingSink: three files; a message of length 3 is alone in its file *)
(*   DailySink: three days of two ticks, a rotation at midnight or at noon *)
(*   SpinLockCycles: 64 values of the word; more than 7 units overflow it  *)
(*   LowLevelAlloc: requests for a small block and for more than a page    *)
(*   Sampler: two samples at most, three threads that want one, a reader   *)
(*   ClockSample: three updates while one reader reads                     *)
(***************************************************************************)
EXTENDS Components

VARIABLES
  container,
  \* RawHashSet
  table,
  \* BTree
  tree, call, erasures, contents, returned

(* Capacities from 0 to 7; two keys share their tag, and two of the three  *)
(* probe sequences meet at the end of the table, where it wraps.           *)
HashSet == INSTANCE RawHashSet WITH
  kWidth <- 4, Load <- 4, Seeds <- {0}, MaxSize <- 4, Requests <- {0, 4},
  Hashes <- {[h1 |-> 2, h2 |-> "x"], [h1 |-> 0, h2 |-> "y"], [h1 |-> 5, h2 |-> "x"]}

(* A tree of two levels in every shape, with two calls that erase or copy. *)
Wide == INSTANCE BTree WITH
  Keys <- 1..6, Hints <- {1, 8}, kNodeValues <- 3, MaxNodes <- 12, MinSize <- 0, MaxErasures <- 2

(* Trees of eleven values, which can have three levels, and one such call. *)
Deep == INSTANCE BTree WITH
  Keys <- 1..11, Hints <- {}, kNodeValues <- 3, MaxNodes <- 12, MinSize <- 11, MaxErasures <- 1

btree == <<tree, call, erasures, contents, returned>>

NoTable == table = Unused
NoBTree ==
  /\ tree = Unused /\ call = Unused /\ erasures = Unused /\ contents = Unused /\ returned = Unused

SafetyInit ==
  /\ Init
  /\ container \in IF which = "other" THEN {"hash set", "wide", "deep"} ELSE {Unused}
  /\ IF container = "hash set" THEN HashSet!Init ELSE NoTable
  /\ CASE container = "wide" -> Wide!Init
       [] container = "deep" -> Deep!Init
       [] OTHER -> NoBTree

SafetyNext ==
  \/ Next /\ UNCHANGED <<container, table, btree>>
  \/ container = "hash set" /\ HashSet!Next /\ UNCHANGED <<vars, container, btree>>
  \/ container = "wide" /\ Wide!Next /\ UNCHANGED <<vars, container, table>>
  \/ container = "deep" /\ Deep!Next /\ UNCHANGED <<vars, container, table>>

SafetySpec == SafetyInit /\ [][SafetyNext]_<<vars, container, table, btree>>

-----------------------------------------------------------------------------
(* Every element of the hash table is found by its key after any          *)
(* insertions, erasures, rehashes in place and copies                      *)
(* (raw_hash_set.h:1265-1277); and a search ends, as it meets a group with *)
(* an empty byte: growth_left counts the empty slots (raw_hash_set.h:1716).*)
LookupsAreRight == container = "hash set" => HashSet!ElementsAreFound /\ HashSet!SearchesEnd

(* What btree's verify() asserts holds after every operation, and more     *)
(* (btree.h:2220-2229).                                                    *)
TreeVerifies ==
  /\ container = "wide" => Wide!TreeVerifies
  /\ container = "deep" => Deep!TreeVerifies

(* The iterator that erase returns points at the value after the last one  *)
(* erased, wherever rebalancing has moved it (btree.h:2013-2082).          *)
EraseReturnsNext ==
  /\ container = "wide" => Wide!EraseReturnsNext
  /\ container = "deep" => Deep!EraseReturnsNext
=============================================================================
