------------------------------ MODULE SkipList ------------------------------
(***************************************************************************)
(* The skip list that LowLevelAlloc keeps its free blocks in               *)
(* (abel/memory/internal/low_level_alloc.cc): nodes ordered by address,    *)
(* each linked at levels 1 (0 in the code) to its own number of levels.    *)
(* A deleted node's fields are the client's memory; here they are cleared. *)
(***************************************************************************)
EXTENDS Naturals, FiniteSets

CONSTANTS
  Addresses,   \* of nodes, natural numbers
  head, Null,  \* natural numbers beyond every address
  MaxLevel     \* bound: levels of a node

Levels == 1..MaxLevel

VARIABLES
  levels,      \* of the head and of every node
  next,        \* by level and node
  members      \* history: the nodes inserted and not deleted

vars == <<levels, next, members>>

Init ==
  /\ levels = [p \in Addresses \cup {head} |-> 0]
  /\ next = [l \in Levels |-> [p \in Addresses \cup {head} |-> Null]]
  /\ members = {}

(* The last node of level l, from p on, that is before address e.          *)
Before(l, p, e) ==
  LET Walk[q \in Addresses \cup {head}] ==
        IF next[l][q] < e THEN Walk[next[l][q]] ELSE q
  IN  Walk[p]

(* prev of LLA_SkiplistSearch, from the head's highest level down.  Above  *)
(* it prev is the head, as LLA_SkiplistInsert extends it.                  *)
LLA_SkiplistSearch(e) ==
  LET prev[l \in 1..MaxLevel + 1] ==
        IF l > levels[head] THEN head ELSE Before(l, prev[l + 1], e)
  IN  [l \in Levels |-> prev[l]]

LLA_SkiplistInsert(e, n) ==
  LET prev == LLA_SkiplistSearch(e)
  IN  /\ e \notin members
      /\ levels' = [levels EXCEPT ![e] = n, ![head] = IF @ < n THEN n ELSE @]
      /\ next' = [l \in Levels |->
                    IF l <= n THEN [next[l] EXCEPT ![e] = next[l][prev[l]], ![prev[l]] = e] ELSE next[l]]
      /\ members' = members \cup {e}

(* Mutant: the node is unlinked at the levels the head still has once its  *)
(* top level is given up.                                                  *)
LLA_SkiplistDelete_LowersFirst(e) ==
  LET prev == LLA_SkiplistSearch(e)
      top == IF next[levels[head]][head] = e THEN levels[head] - 1 ELSE levels[head]
  IN  /\ e \in members
      /\ next' = [l \in Levels |->
                    IF l <= levels[e] /\ l <= top THEN [next[l] EXCEPT ![prev[l]] = next[l][e], ![e] = Null]
                    ELSE next[l]]
      /\ levels' = [levels EXCEPT ![head] = top, ![e] = 0]
      /\ members' = members \ {e}

(* The node is unlinked at each of its levels; the head gives up the top   *)
(* levels that have become empty.                                          *)
LLA_SkiplistDelete(e) ==
  LET prev == LLA_SkiplistSearch(e)
      linked == {l \in 1..levels[e] : \A k \in 1..l : next[k][prev[k]] = e}
      used == {l \in 0..levels[head] : l > 0 => next'[l][head] # Null}
  IN  /\ e \in members
      /\ next' = [l \in Levels |->
                    IF l \in linked THEN [next[l] EXCEPT ![prev[l]] = next[l][e], ![e] = Null]
                    ELSE next[l]]
      /\ levels' = [levels EXCEPT ![head] = CHOOSE l \in used : (\A k \in used : k <= l), ![e] = 0]
      /\ members' = members \ {e}

Next ==
  \E e \in Addresses :
    \/ \E n \in Levels : LLA_SkiplistInsert(e, n)
    \/ LLA_SkiplistDelete(e)

Spec == Init /\ [][Next]_vars

-----------------------------------------------------------------------------
(* After any sequence of insertions and deletions each level links, in     *)
(* address order, exactly the members with that many levels: the search    *)
(* from a high level passes over no node of it, and a deleted node, whose  *)
(* memory is a client's by then, is nowhere linked.  The head has as many  *)
(* levels as its highest node.                                             *)
LevelsLinkTheirMembers ==
  /\ \A l \in Levels : \A p \in members \cup {head} :
       LET after == {q \in members : levels[q] >= l /\ (p = head \/ p < q)}
       IN  p = head \/ levels[p] >= l =>
             next[l][p] = IF after = {} THEN Null ELSE CHOOSE q \in after : \A r \in after : q <= r
  /\ levels[head] \in {0} \cup {levels[p] : p \in members}
  /\ \A p \in members : levels[p] <= levels[head]
=============================================================================
