---------------------------- MODULE GraphCycles -----------------------------
(***************************************************************************)
(* GraphCycles (abel/synchronization/internal/graphcycles.cc), the graph   *)
(* of lock orders behind mutex's deadlock detection: it keeps a            *)
(* topological order up to date while edges are inserted, by the algorithm *)
(* of Pearce and Kelly.  deadlock_graph_mu is held for every call, so a    *)
(* call is one step.                                                       *)
(*                                                                         *)
(* A node is its index in nodes_; which pointer it stands for is left out, *)
(* and a NodeSet is the set of its members.                                *)
(***************************************************************************)
EXTENDS Naturals, FiniteSets, SequencesExt

CONSTANTS
  N,          \* bound: nodes ever allocated
  MaxVersion, \* the greatest version number, 2^32 - 1 in the code
  MaxRemovals \* bound: calls of RemoveNode

Nodes == 0..N - 1

VARIABLES
  size,       \* nodes_.size()
  live,       \* the nodes that stand for a pointer
  free_nodes_,
  version, rank, in, out,
  removals

vars == <<size, live, free_nodes_, version, rank, in, out, removals>>

Init ==
  /\ size = 0 /\ live = {} /\ free_nodes_ = <<>>
  /\ version = [n \in Nodes |-> 1]
  /\ rank = [n \in Nodes |-> n]
  /\ in = [n \in Nodes |-> {}] /\ out = [n \in Nodes |-> {}]
  /\ removals = 0

(* GetId of a pointer that is new to the graph: a new node gets the next   *)
(* rank, a freed one keeps the rank it had.                                *)
GetId ==
  /\ \/ /\ free_nodes_ = <<>> /\ size < N
        /\ size' = size + 1 /\ live' = live \cup {size}
        /\ rank' = [rank EXCEPT ![size] = size]
        /\ UNCHANGED free_nodes_
     \/ /\ free_nodes_ # <<>>
        /\ live' = live \cup {Last(free_nodes_)}
        /\ free_nodes_' = Front(free_nodes_)
        /\ UNCHANGED <<size, rank>>
  /\ UNCHANGED <<version, in, out, removals>>

(* Mutant: the edges into the node stay with their sources.                *)
RemoveNode_KeepsIn(i) ==
  /\ i \in live /\ removals < MaxRemovals
  /\ removals' = removals + 1
  /\ live' = live \ {i}
  /\ in' = [n \in Nodes |-> IF n = i THEN {} ELSE in[n] \ {i}]
  /\ out' = [out EXCEPT ![i] = {}]
  /\ IF version[i] = MaxVersion
     THEN UNCHANGED <<version, free_nodes_>>
     ELSE version' = [version EXCEPT ![i] = @ + 1] /\ free_nodes_' = Append(free_nodes_, i)
  /\ UNCHANGED <<size, rank>>

(* A node whose version cannot grow is never used again.                   *)
RemoveNode(i) ==
  /\ i \in live /\ removals < MaxRemovals
  /\ removals' = removals + 1
  /\ live' = live \ {i}
  /\ in' = [n \in Nodes |-> IF n = i THEN {} ELSE IF n \in out[i] THEN in[n] \ {i} ELSE in[n]]
  /\ out' = [n \in Nodes |-> IF n = i THEN {} ELSE IF n \in in[i] THEN out[n] \ {i} ELSE out[n]]
  /\ IF version[i] = MaxVersion
     THEN UNCHANGED <<version, free_nodes_>>
     ELSE version' = [version EXCEPT ![i] = @ + 1] /\ free_nodes_' = Append(free_nodes_, i)
  /\ UNCHANGED <<size, rank>>

(* The ids a client may still have; FindNode knows the current ones.       *)
Ids == {[index |-> i, version |-> v] : i \in 0..size - 1, v \in 1..MaxVersion}
IssuedIds == {id \in Ids : id.version <= version[id.index]}
FindNode(id) == version[id.index] = id.version

RemoveEdge(idx, idy) ==
  /\ FindNode(idx) /\ FindNode(idy) /\ idy.index \in out[idx.index]
  /\ out' = [out EXCEPT ![idx.index] = @ \ {idy.index}]
  /\ in' = [in EXCEPT ![idy.index] = @ \ {idx.index}]
  /\ UNCHANGED <<size, live, free_nodes_, version, rank, removals>>

-----------------------------------------------------------------------------
(* What a depth-first search from n visits along edges, if it only enters  *)
(* the nodes of Inside.                                                    *)
Search(n, edges, Inside) ==
  LET Visited[k \in 0..N] ==
        IF k = 0 THEN {n}
        ELSE Visited[k - 1] \cup ((UNION {edges[v] : v \in Visited[k - 1]}) \cap Inside)
  IN  Visited[N]

(* deltaf_, for the edges after the insertion.                             *)
ForwardDFS(edges, n, upper_bound) ==
  Search(n, edges, {w \in Nodes : rank[w] < upper_bound})

(* Mutant: a node beyond the bound is taken for the bound.                 *)
FindsCycle_Beyond(edges, delta, upper_bound) ==
  \E v \in delta : \E w \in edges[v] : rank[w] >= upper_bound

(* ForwardDFS returns false when it comes to the node of that rank.        *)
FindsCycle(edges, delta, upper_bound) ==
  \E v \in delta : \E w \in edges[v] : rank[w] = upper_bound

BackwardDFS(edges, deltaf, n, lower_bound) ==
  Search(n, edges, {w \in Nodes : w \notin deltaf /\ lower_bound < rank[w]})

(* The nodes before n in list_, which holds those of deltab and then those *)
(* of deltaf, each sorted by rank.                                         *)
Ahead(n, deltab, deltaf) ==
  IF n \in deltab
  THEN {m \in deltab : rank[m] < rank[n]}
  ELSE deltab \cup {m \in deltaf : rank[m] < rank[n]}

(* The nodes before x and those behind y share out their ranks anew: the   *)
(* nodes of list_ get them in increasing order.                            *)
Reorder(deltab, deltaf) ==
  LET delta == deltab \cup deltaf
      merged == {rank[n] : n \in delta}
  IN  [n \in Nodes |->
         IF n \in delta
         THEN CHOOSE r \in merged :
                Cardinality({q \in merged : q < r}) = Cardinality(Ahead(n, deltab, deltaf))
         ELSE rank[n]]

NewOut(x, y) == [out EXCEPT ![x] = @ \cup {y}]
NewIn(x, y) == [in EXCEPT ![y] = @ \cup {x}]

(* Whether InsertEdge has to look beyond the ranks of its two nodes.       *)
OutOfOrder(x, y) == y \notin out[x] /\ rank[x] > rank[y]

(* When InsertEdge returns false; it undoes the insertion then, and clears *)
(* the marks of the nodes it visited.                                      *)
Refuses(x, y) ==
  \/ x = y
  \/ /\ OutOfOrder(x, y)
     /\ FindsCycle(NewOut(x, y), ForwardDFS(NewOut(x, y), y, rank[x]), rank[x])

(* For an expired id InsertEdge returns true and does nothing.             *)
InsertEdge(idx, idy) ==
  LET x == idx.index
      y == idy.index
      deltaf == ForwardDFS(NewOut(x, y), y, rank[x])
  IN  /\ FindNode(idx) /\ FindNode(idy) /\ ~Refuses(x, y)
      /\ out' = NewOut(x, y) /\ in' = NewIn(x, y)
      /\ rank' = IF OutOfOrder(x, y)
                 THEN Reorder(BackwardDFS(NewIn(x, y), deltaf, x, rank[y]), deltaf)
                 ELSE rank
      /\ UNCHANGED <<size, live, free_nodes_, version, removals>>

Next ==
  \/ GetId
  \/ \E i \in Nodes : RemoveNode(i)
  \/ \E idx, idy \in IssuedIds : RemoveEdge(idx, idy) \/ InsertEdge(idx, idy)

Spec == Init /\ [][Next]_vars

-----------------------------------------------------------------------------
(* CheckInvariants (graphcycles.cc:367): the ranks are a permutation and   *)
(* every edge goes to a greater rank; in and out say the same.  It holds   *)
(* after any sequence of insertions, removals and reuse of nodes.          *)
RanksAreTopological ==
  /\ {rank[n] : n \in 0..size - 1} = 0..size - 1
  /\ \A n \in Nodes : \A m \in Nodes :
       /\ m \in out[n] => rank[n] < rank[m]
       /\ m \in out[n] <=> n \in in[m]

(* InsertEdge refuses an edge exactly if it would close a cycle.           *)
RefusesExactlyCycles ==
  \A x, y \in 0..size - 1 : Refuses(x, y) <=> x \in Search(y, out, Nodes)
=============================================================================
