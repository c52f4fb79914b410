-------------------------------- MODULE BTree --------------------------------
(***************************************************************************)
(* btree (abel/container/internal/btree.h), the tree behind btree_set and  *)
(* btree_map (unique keys): nodes linked by parent pointers and positions, *)
(* a root whose parent is the leftmost leaf, a cached rightmost_ leaf, and *)
(* rebalancing, splitting and merging with a bias for sequential use.      *)
(*                                                                         *)
(* The tree is a record: nodes by address, root, rightmost_ and size_.  A  *)
(* node keeps its values and children as sequences and its parent and its  *)
(* position in the parent; an iterator is a node and a position from 0.    *)
(*                                                                         *)
(* A call is a run of steps, one for each node the code works on; only one *)
(* call runs at a time, and while it runs only its next step is possible.  *)
(***************************************************************************)
EXTENDS Integers, FiniteSets, SequencesExt

CONSTANTS
  Keys,         \* the keys, positive integers
  Hints,        \* the keys whose lower bound is given as a hint
  kNodeValues,  \* values of a full node, at least 3
  MaxNodes,     \* bound: addresses of nodes
  MinSize,      \* bound: values in a tree that is erased from or copied
  MaxErasures   \* bound: calls of erase, clear and operator=

VARIABLES
  tree,      \* the btree
  call,      \* what the running call is doing: op and its locals
  erasures,  \* calls of erase, clear and operator= so far
  contents,  \* the keys that insert put in and erase took out    (history)
  returned   \* the key that erase's iterator points at and the
             \* one it should point at                            (history)

vars == <<tree, call, erasures, contents, returned>>

kMinNodeValues == kNodeValues \div 2
EmptyNode == 0
Null == -1
End  == 0

Iter(node, position) == [node |-> node, position |-> position]

Vals(t, n)      == t.nodes[n].vals
Kids(t, n)      == t.nodes[n].kids
CountOf(t, n)   == Len(Vals(t, n))
Leaf(t, n)      == t.nodes[n].leaf
Parent(t, n)    == t.nodes[n].parent
Position(t, n)  == t.nodes[n].position
Child(t, n, i)  == Kids(t, n)[i + 1]
IsRoot(t, n)    == Leaf(t, Parent(t, n))
leftmost(t)     == Parent(t, t.root)
KeyAt(t, iter)  == Vals(t, iter.node)[iter.position + 1]

NewNode(t) == CHOOSE n \in 1..MaxNodes :
                n \notin DOMAIN t.nodes /\ \A m \in 1..(n - 1) : m \in DOMAIN t.nodes

AddNode(t, n, leaf, parent, max_count) ==
  [t EXCEPT !.nodes = (n :> [leaf |-> leaf, vals |-> <<>>, kids |-> <<>>, parent |-> parent,
                             position |-> 0, max_count |-> max_count]) @@ @]

DeleteNode(t, n) == [t EXCEPT !.nodes = [m \in DOMAIN @ \ {n} |-> @[m]]]

EmptyTree ==
  [nodes |-> EmptyNode :> [leaf |-> TRUE, vals |-> <<>>, kids |-> <<>>, parent |-> EmptyNode,
                           position |-> 0, max_count |-> 0],
   root |-> EmptyNode, rightmost_ |-> EmptyNode, size_ |-> 0]

Update(t, n, vals, kids) == [t EXCEPT !.nodes[n].vals = vals, !.nodes[n].kids = kids]

(* init_child for the children that moved: those of each node n in the     *)
(* domain of first, from number first[n] on.                               *)
Adopt(t, first) ==
  LET homes(nodes, m) == {<<n, i>> \in (DOMAIN first) \X (0..kNodeValues) :
                            /\ first[n] <= i /\ i < Len(nodes[n].kids)
                            /\ nodes[n].kids[i + 1] = m}
  IN [t EXCEPT !.nodes =
        [m \in DOMAIN @ |->
           IF homes(@, m) = {} THEN @[m]
           ELSE LET home == CHOOSE h \in homes(@, m) : TRUE
                IN [@[m] EXCEPT !.parent = home[1], !.position = home[2]]]]

(* The first n of a sequence, or all of it: a leaf has no children.        *)
Take(s, n) == SubSeq(s, 1, IF n < Len(s) THEN n ELSE Len(s))
Drop(s, n) == SubSeq(s, n + 1, Len(s))

-----------------------------------------------------------------------------
(* btree_node.  The delimiter of node is its parent's value at its         *)
(* position.                                                               *)
Delimiter(t, node) == Vals(t, Parent(t, node))[Position(t, node) + 1]

SetDelimiter(t, node, v) ==
  [t EXCEPT !.nodes[Parent(t, node)].vals[Position(t, node) + 1] = v]

rebalance_right_to_left(t, left, right, to_move) ==
  LET c == CountOf(t, left)
      moved == Take(Vals(t, right), to_move - 1)
      t1 == SetDelimiter(t, left, Vals(t, right)[to_move])
      t2 == Update(t1, left, Append(Vals(t, left), Delimiter(t, left)) \o moved,
                   Kids(t, left) \o Take(Kids(t, right), to_move))
      t3 == Update(t2, right, Drop(Vals(t, right), to_move), Drop(Kids(t, right), to_move))
  IN Adopt(t3, left :> c + 1 @@ right :> 0)

rebalance_left_to_right(t, left, right, to_move) ==
  LET c == CountOf(t, left)
      moved == Drop(Vals(t, left), c - to_move + 1)
      t1 == SetDelimiter(t, left, Vals(t, left)[c - to_move + 1])
      t2 == Update(t1, right, Append(moved, Delimiter(t, left)) \o Vals(t, right),
                   Drop(Kids(t, left), c - to_move + 1) \o Kids(t, right))
      t3 == Update(t2, left, Take(Vals(t, left), c - to_move), Take(Kids(t, left), c - to_move + 1))
  IN Adopt(t3, right :> 0)

(* How many values go to the new node: biased by where the insertion is.   *)
SplitCount(c, insert_position) ==
  CASE insert_position = 0 -> c - 1
    [] insert_position = kNodeValues -> 0
    [] OTHER -> c \div 2

split(t, node, dest, insert_position) ==
  LET c == CountOf(t, node)
      d == SplitCount(c, insert_position)
      p == Parent(t, node)
      pos == Position(t, node)
      t1 == Update(t, dest, Drop(Vals(t, node), c - d), Drop(Kids(t, node), c - d))
      t2 == Update(t1, node, Take(Vals(t, node), c - d - 1), Take(Kids(t, node), c - d))
      t3 == Update(t2, p, InsertAt(Vals(t, p), pos + 1, Vals(t, node)[c - d]),
                   InsertAt(Kids(t, p), pos + 2, dest))
  IN Adopt(t3, p :> pos + 1 @@ dest :> 0)

(* merge_nodes: merge, rightmost_, and the right node is deleted.          *)
merge_nodes(t, left, right) ==
  LET p == Parent(t, left)
      pos == Position(t, left)
      t1 == Update(t, left, Append(Vals(t, left), Delimiter(t, left)) \o Vals(t, right),
                   Kids(t, left) \o Kids(t, right))
      t2 == Update(t1, p, RemoveAt(Vals(t, p), pos + 1), RemoveAt(Kids(t, p), pos + 2))
      t3 == Adopt(t2, left :> CountOf(t, left) + 1 @@ p :> pos + 1)
  IN [DeleteNode(t3, right) EXCEPT !.rightmost_ = IF @ = right THEN left ELSE @]

-----------------------------------------------------------------------------
(* Iterators: ++ and --, by way of the parents.                            *)
RECURSIVE Up(_, _)
Up(t, iter) ==
  IF iter.position = CountOf(t, iter.node) /\ ~IsRoot(t, iter.node)
  THEN Up(t, Iter(Parent(t, iter.node), Position(t, iter.node)))
  ELSE iter

RECURSIVE FirstLeaf(_, _)
FirstLeaf(t, n) == IF Leaf(t, n) THEN n ELSE FirstLeaf(t, Child(t, n, 0))

RECURSIVE LastLeaf(_, _)
LastLeaf(t, n) == IF Leaf(t, n) THEN n ELSE LastLeaf(t, Child(t, n, CountOf(t, n)))

increment(t, iter) ==
  LET next == Iter(iter.node, iter.position + 1)
      up   == Up(t, next)
  IN IF ~Leaf(t, iter.node)
     THEN Iter(FirstLeaf(t, Child(t, iter.node, iter.position + 1)), 0)
     ELSE IF up.position = CountOf(t, up.node) THEN next ELSE up

RECURSIVE UpLeft(_, _)
UpLeft(t, iter) ==
  IF iter.position < 0 /\ ~IsRoot(t, iter.node)
  THEN UpLeft(t, Iter(Parent(t, iter.node), Position(t, iter.node) - 1))
  ELSE iter

decrement(t, iter) ==
  LET prev == Iter(iter.node, iter.position - 1)
      up   == UpLeft(t, prev)
      leaf == LastLeaf(t, Child(t, iter.node, iter.position))
  IN IF ~Leaf(t, iter.node) THEN Iter(leaf, CountOf(t, leaf) - 1)
     ELSE IF up.position < 0 THEN prev ELSE up

(* The values below a node, in the order of iteration.                     *)
RECURSIVE InOrder(_, _)
InOrder(t, n) ==
  IF Leaf(t, n) THEN Vals(t, n)
  ELSE FoldLeft(\o, InOrder(t, Child(t, n, 0)),
                [i \in 1..CountOf(t, n) |-> <<Vals(t, n)[i]>> \o InOrder(t, Child(t, n, i))])

begin(t) == Iter(leftmost(t), 0)
end(t)   == Iter(t.rightmost_, CountOf(t, t.rightmost_))

RECURSIVE distance(_, _, _)
distance(t, from, to) ==
  IF from = to THEN 0 ELSE 1 + distance(t, increment(t, from), to)

(* internal_last: up from the end of a node, or no value at all.           *)
internal_last(t, iter) ==
  LET up == Up(t, iter)
  IN IF up.position = CountOf(t, up.node) THEN Iter(Null, 0) ELSE up

(* internal_locate: the leaf position before the first key not less.       *)
RECURSIVE Locate(_, _, _)
Locate(t, n, key) ==
  LET position == Cardinality({i \in 1..CountOf(t, n) : Vals(t, n)[i] < key})
  IN IF Leaf(t, n) THEN Iter(n, position) ELSE Locate(t, Child(t, n, position), key)

lower_bound(t, key) ==
  LET iter == internal_last(t, Locate(t, t.root, key))
  IN IF iter.node = Null THEN end(t) ELSE iter

-----------------------------------------------------------------------------
Idle == [op |-> "idle"]

Init ==
  /\ tree = EmptyTree
  /\ call = Idle
  /\ erasures = 0
  /\ contents = {}
  /\ returned = <<End, End>>

(* An insertion at a leaf position.  rooms is the stack of nodes that need *)
(* room: the leaf first, then its ancestors, each a full node with the     *)
(* position of the insertion and whether its siblings have been tried.     *)
Emplacing(t, at, key) ==
  LET prev == decrement(t, at)
  IN [op |-> "emplace", key |-> key, rooms |-> <<>>,
      iter |-> IF Leaf(t, at.node) THEN at ELSE Iter(prev.node, prev.position + 1)]

FirstRoot(t) ==
  LET n == NewNode(t)
  IN [AddNode(t, n, TRUE, n, 1) EXCEPT !.root = n, !.rightmost_ = n]

(* insert_unique.                                                          *)
InsertUnique(t, key) ==
  LET iter == Locate(t, t.root, key)
      last == internal_last(t, iter)
  IN IF last.node # Null /\ KeyAt(t, last) = key THEN Idle ELSE Emplacing(t, iter, key)

Insert(key) ==
  /\ call = Idle
  /\ tree' = IF tree.size_ = 0 THEN FirstRoot(tree) ELSE tree
  /\ call' = InsertUnique(tree', key)
  /\ contents' = contents \cup {key}
  /\ UNCHANGED <<erasures, returned>>

(* insert_hint_unique of a tree that is not empty: at the hint if the key  *)
(* belongs just before or just after it.                                   *)
InsertHint(hint, key) ==
  LET position == lower_bound(tree, hint)
      next     == increment(tree, position)
      AtEnd(i) == i = end(tree)
  IN /\ call = Idle
     /\ tree.size_ # 0
     /\ call' =
          CASE AtEnd(position) \/ key < KeyAt(tree, position) ->
                 IF position = begin(tree) \/ KeyAt(tree, decrement(tree, position)) < key
                 THEN Emplacing(tree, position, key) ELSE InsertUnique(tree, key)
            [] ~AtEnd(position) /\ KeyAt(tree, position) < key ->
                 IF AtEnd(next) \/ key < KeyAt(tree, next)
                 THEN Emplacing(tree, next, key) ELSE InsertUnique(tree, key)
            [] ~AtEnd(position) /\ KeyAt(tree, position) = key -> Idle
     /\ contents' = contents \cup {key}
     /\ UNCHANGED <<tree, erasures, returned>>

(* operator=(const&): the tree is replaced by a copy of it, each value put *)
(* at the end of the new tree.                                             *)
Assign ==
  /\ call = Idle
  /\ erasures < MaxErasures /\ tree.size_ >= MinSize
  /\ erasures' = erasures + 1
  /\ tree.size_ # 0
  /\ tree' = FirstRoot(EmptyTree)
  /\ call' = Emplacing(tree', end(tree'), Head(InOrder(tree, tree.root))) @@
             [rest |-> Tail(InOrder(tree, tree.root))]
  /\ UNCHANGED <<contents, returned>>

-----------------------------------------------------------------------------
(* internal_emplace, in a leaf with room.                                  *)
EmplaceValue ==
  /\ call.op = "emplace"
  /\ call.rooms = <<>>
  /\ CountOf(tree, call.iter.node) < tree.nodes[call.iter.node].max_count
  /\ tree' = [tree EXCEPT
       !.nodes[call.iter.node].vals = InsertAt(@, call.iter.position + 1, call.key),
       !.size_ = @ + 1]
  /\ call' = IF "rest" \in DOMAIN call /\ call.rest # <<>>
             THEN Emplacing(tree', end(tree'), Head(call.rest)) @@ [rest |-> Tail(call.rest)]
             ELSE Idle
  /\ UNCHANGED <<erasures, contents, returned>>

(* A full root leaf smaller than a node becomes a larger one.              *)
GrowRootLeaf ==
  LET max_count == tree.nodes[call.iter.node].max_count
      larger == IF 2 * max_count < kNodeValues THEN 2 * max_count ELSE kNodeValues
      n == NewNode(tree)
  IN /\ call.op = "emplace"
     /\ call.rooms = <<>>
     /\ CountOf(tree, call.iter.node) = max_count
     /\ max_count < kNodeValues
     /\ tree' = [DeleteNode(Update(AddNode(tree, n, TRUE, n, larger),
                                   n, Vals(tree, tree.root), <<>>),
                            tree.root) EXCEPT !.root = n, !.rightmost_ = n]
     /\ call' = [call EXCEPT !.iter.node = n]
     /\ UNCHANGED <<erasures, contents, returned>>

(* rebalance_or_split(iter) is called for a full leaf.                     *)
MakeRoom ==
  /\ call.op = "emplace"
  /\ call.rooms = <<>>
  /\ CountOf(tree, call.iter.node) = kNodeValues
  /\ call' = [call EXCEPT !.rooms = <<[iter |-> call.iter, tried |-> FALSE]>>]
  /\ UNCHANGED <<tree, erasures, contents, returned>>

(* How many values move to a sibling with c values: all the room it has if *)
(* the insertion is at the far end.                                        *)
ToMove(c, far) ==
  LET room == (kNodeValues - c) \div (IF far THEN 1 ELSE 2)
  IN IF room > 1 THEN room ELSE 1

Room     == Last(call.rooms)
RoomNode == Room.iter.node
RoomPos  == Room.iter.position
Making   == call.op = "emplace" /\ call.rooms # <<>>

LeftOf(n)  == Child(tree, Parent(tree, n), Position(tree, n) - 1)
RightOf(n) == Child(tree, Parent(tree, n), Position(tree, n) + 1)
HasLeft(n)  == n # tree.root /\ Position(tree, n) > 0
HasRight(n) == n # tree.root /\ Position(tree, n) < CountOf(tree, Parent(tree, n))

RoomAtLeft ==
  /\ HasLeft(RoomNode)
  /\ LET c == CountOf(tree, LeftOf(RoomNode))
         n == ToMove(c, RoomPos = kNodeValues)
     IN c < kNodeValues /\ (RoomPos - n >= 0 \/ c + n < kNodeValues)

RoomAtRight ==
  /\ HasRight(RoomNode)
  /\ LET c == CountOf(tree, RightOf(RoomNode))
         n == ToMove(c, RoomPos = 0)
     IN c < kNodeValues /\ (RoomPos <= CountOf(tree, RoomNode) - n \/ c + n < kNodeValues)

(* rebalance_or_split returns with the insertion at iter: of an ancestor,  *)
(* only the room made matters; the leaf's is where the value goes.         *)
MadeRoom(iter) ==
  call' = [call EXCEPT !.rooms = Front(@), !.iter = IF Len(call.rooms) = 1 THEN iter ELSE @]

RebalanceLeft ==
  LET left == LeftOf(RoomNode)
      n    == ToMove(CountOf(tree, left), RoomPos = kNodeValues)
  IN /\ Making /\ ~Room.tried /\ RoomAtLeft
     /\ tree' = rebalance_right_to_left(tree, left, RoomNode, n)
     /\ MadeRoom(IF RoomPos - n < 0
                 THEN Iter(left, RoomPos - n + CountOf(tree', left) + 1)
                 ELSE Iter(RoomNode, RoomPos - n))
     /\ UNCHANGED <<erasures, contents, returned>>

(* A position past the end of node is one in the sibling after it.         *)
Past(t, node, position, sibling) ==
  IF position > CountOf(t, node)
  THEN Iter(sibling, position - CountOf(t, node) - 1)
  ELSE Iter(node, position)

RebalanceRight ==
  LET right == RightOf(RoomNode) IN
  /\ Making /\ ~Room.tried /\ ~RoomAtLeft /\ RoomAtRight
  /\ tree' = rebalance_left_to_right(tree, RoomNode, right,
                                     ToMove(CountOf(tree, right), RoomPos = 0))
  /\ MadeRoom(Past(tree', RoomNode, RoomPos, right))
  /\ UNCHANGED <<erasures, contents, returned>>

(* The siblings have no room: the parent needs room for one more, which is *)
(* a new root if there is none.                                            *)
RoomInParent ==
  LET p == Parent(tree, RoomNode)
      top == NewNode(tree)
      grown == Update(AddNode(tree, top, FALSE, p, kNodeValues), top, <<>>, <<RoomNode>>)
      here == [call.rooms EXCEPT ![Len(call.rooms)].tried = TRUE]
  IN /\ Making /\ ~Room.tried /\ ~RoomAtLeft /\ ~RoomAtRight
     /\ IF RoomNode = tree.root
        THEN /\ tree' = [Adopt(grown, top :> 0) EXCEPT !.root = top]
             /\ call' = [call EXCEPT !.rooms = here]
        ELSE /\ call' = [call EXCEPT !.rooms =
                  IF CountOf(tree, p) = kNodeValues
                  THEN Append(here, [iter |-> Iter(p, Position(tree, RoomNode)), tried |-> FALSE])
                  ELSE here]
             /\ UNCHANGED tree
     /\ UNCHANGED <<erasures, contents, returned>>

(* Mutant: rightmost_ is not moved to the new leaf.                        *)
Split_KeepsRightmost ==
  LET dest == NewNode(tree)
      room == AddNode(tree, dest, Leaf(tree, RoomNode), Parent(tree, RoomNode), kNodeValues)
  IN /\ Making /\ Room.tried
     /\ tree' = split(room, RoomNode, dest, RoomPos)
     /\ MadeRoom(Past(tree', RoomNode, RoomPos, dest))
     /\ UNCHANGED <<erasures, contents, returned>>

(* The parent has room: split the node.                                    *)
Split ==
  LET dest == NewNode(tree)
      room == AddNode(tree, dest, Leaf(tree, RoomNode), Parent(tree, RoomNode), kNodeValues)
  IN /\ Making /\ Room.tried
     /\ tree' = [split(room, RoomNode, dest, RoomPos) EXCEPT
                   !.rightmost_ = IF @ = RoomNode THEN dest ELSE @]
     /\ MadeRoom(Past(tree', RoomNode, RoomPos, dest))
     /\ UNCHANGED <<erasures, contents, returned>>

-----------------------------------------------------------------------------
(* An erasure: rebalance_after_delete with iter and res, whether it is in  *)
(* its first iteration, whether the value was in an internal node, and how *)
(* many values are left to erase.                                          *)
Rebalancing(iter, internal, remaining) ==
  [op |-> "rebalance", iter |-> iter, res |-> iter, first |-> TRUE,
   internal |-> internal, remaining |-> remaining]

(* erase(iter): a value of an internal node is overwritten by the one      *)
(* before it, which is then removed from its leaf.                         *)
EraseAt(iter, remaining) ==
  LET internal == ~Leaf(tree, iter.node)
      leaf == IF internal THEN decrement(tree, iter) ELSE iter
      over == IF internal
              THEN [tree EXCEPT !.nodes[iter.node].vals[iter.position + 1] = KeyAt(tree, leaf)]
              ELSE tree
  IN /\ tree' = [over EXCEPT !.nodes[leaf.node].vals = RemoveAt(@, leaf.position + 1),
                             !.size_ = @ - 1]
     /\ call' = Rebalancing(leaf, internal, remaining)

FirstFrom(set, key) ==
  LET above == {k \in set : k >= key}
  IN IF above = {} THEN End ELSE CHOOSE k \in above : \A l \in above : k <= l

(* erase_unique, of a key that is there.                                   *)
Erase(key) ==
  /\ call = Idle
  /\ erasures < MaxErasures /\ tree.size_ >= MinSize
  /\ erasures' = erasures + 1
  /\ key \in contents
  /\ EraseAt(lower_bound(tree, key), 0)
  /\ contents' = contents \ {key}
  /\ returned' = <<Null, FirstFrom(contents', key)>>

clear == tree' = EmptyTree /\ call' = Idle

Clear ==
  /\ call = Idle
  /\ erasures < MaxErasures /\ tree.size_ >= MinSize
  /\ erasures' = erasures + 1
  /\ clear
  /\ contents' = {}
  /\ UNCHANGED returned

(* remove_values_ignore_children of n values.                              *)
Cut(s, position, n) == Take(s, position) \o Drop(s, position + n)

(* internal_clear: the nodes of the subtrees below children.               *)
RECURSIVE Below(_, _)
Below(t, n) == {n} \cup UNION {Below(t, Kids(t, n)[i]) : i \in 1..Len(Kids(t, n))}

(* erase_same_node: values of one node and the children between them.      *)
erase_same_node(t, iter, n) ==
  LET node  == iter.node
      gone  == IF Leaf(t, node) THEN {}
               ELSE UNION {Below(t, Child(t, node, iter.position + i)) : i \in 1..n}
      kept  == IF Leaf(t, node) THEN <<>> ELSE Cut(Kids(t, node), iter.position + 1, n)
      cut   == Update(t, node, Cut(Vals(t, node), iter.position, n), kept)
  IN [Adopt(cut, node :> iter.position + 1) EXCEPT
        !.nodes = [m \in DOMAIN @ \ gone |-> @[m]]]

(* erase(begin, end), from the first value not less than low to the first  *)
(* not less than high.                                                     *)
EraseRange(low, high) ==
  LET from  == lower_bound(tree, low)
      to    == lower_bound(tree, high)
      count == distance(tree, from, to)
  IN /\ call = Idle
     /\ erasures < MaxErasures /\ tree.size_ >= MinSize
     /\ erasures' = erasures + 1
     /\ low < high
     /\ count # 0
     /\ contents' = {k \in contents : k < low \/ k >= high}
     /\ returned' = <<IF count = tree.size_ THEN End ELSE Null, FirstFrom(contents', low)>>
     /\ CASE count = tree.size_ -> clear
          [] count # tree.size_ /\ from.node = to.node ->
               /\ tree' = [erase_same_node(tree, from, to.position - from.position) EXCEPT
                             !.size_ = @ - count]
               /\ call' = Rebalancing(from, FALSE, 0)
          [] OTHER ->
               /\ call' = [op |-> "range", iter |-> from, remaining |-> count]
               /\ UNCHANGED tree

(* The loop of erase(begin, end): what is left in a leaf at once, a value  *)
(* of an internal node alone.                                              *)
EraseMore ==
  LET node == call.iter.node
      here == CountOf(tree, node) - call.iter.position
      n    == IF call.remaining < here THEN call.remaining ELSE here
  IN /\ call.op = "range"
     /\ IF Leaf(tree, node)
        THEN /\ tree' = [tree EXCEPT !.nodes[node].vals = Cut(@, call.iter.position, n),
                                     !.size_ = @ - n]
             /\ call' = Rebalancing(call.iter, FALSE, call.remaining - n)
        ELSE EraseAt(call.iter, call.remaining - 1)
     /\ UNCHANGED <<erasures, contents, returned>>

-----------------------------------------------------------------------------
(* try_merge_or_rebalance, for a node that is not the root and has fewer   *)
(* than kMinNodeValues: merge with a sibling if the values fit; otherwise  *)
(* take some of a sibling's values, but not after an erasure at the end of *)
(* the node that sequential erasures come from.                            *)
Node  == call.iter.node
Short == /\ call.op = "rebalance"
         /\ Node # tree.root
         /\ CountOf(tree, Node) < kMinNodeValues

Fits(n, m) == 1 + CountOf(tree, n) + CountOf(tree, m) <= kNodeValues
CanMergeLeft  == HasLeft(Node) /\ Fits(LeftOf(Node), Node)
CanMergeRight == HasRight(Node) /\ Fits(Node, RightOf(Node))
CanTakeRight ==
  /\ HasRight(Node)
  /\ CountOf(tree, RightOf(Node)) > kMinNodeValues
  /\ CountOf(tree, Node) = 0 \/ call.iter.position > 0
CanTakeLeft ==
  /\ HasLeft(Node)
  /\ CountOf(tree, LeftOf(Node)) > kMinNodeValues
  /\ CountOf(tree, Node) = 0 \/ call.iter.position < CountOf(tree, Node)

Res(iter) == IF call.first THEN iter ELSE call.res

(* A merge went well: up to the parent, which has lost a value.            *)
MoveUp(iter) ==
  call' = [call EXCEPT !.iter = Iter(Parent(tree', iter.node), Position(tree', iter.node)),
                       !.res = Res(iter), !.first = FALSE]

(* Mutant: the delimiter that a merge moves down is not counted.           *)
PositionAfter_NoDelimiter(left) == call.iter.position + CountOf(tree, left)

(* Where iter's value is once its node is merged into the left sibling.    *)
PositionAfter(left) == call.iter.position + 1 + CountOf(tree, left)

MergeLeft ==
  LET left == LeftOf(Node) IN
  /\ Short /\ CanMergeLeft
  /\ tree' = merge_nodes(tree, left, Node)
  /\ MoveUp(Iter(left, PositionAfter(left)))
  /\ UNCHANGED <<erasures, contents, returned>>

MergeRight ==
  /\ Short /\ ~CanMergeLeft /\ CanMergeRight
  /\ tree' = merge_nodes(tree, Node, RightOf(Node))
  /\ MoveUp(call.iter)
  /\ UNCHANGED <<erasures, contents, returned>>

(* An iterator at the end of a node is advanced.                           *)
Advanced(t, res) ==
  IF t.size_ = 0 THEN end(t)
  ELSE IF res.position = CountOf(t, res.node)
  THEN increment(t, Iter(res.node, res.position - 1)) ELSE res

(* The end of rebalance_after_delete, and of erase: if the value was in an *)
(* internal node, the next one is after the value that took its place.     *)
Return(res) ==
  LET next == Advanced(tree', res)
      key  == IF call.internal THEN increment(tree', next) ELSE next
  IN IF call.remaining = 0
     THEN /\ call' = Idle
          /\ returned' = <<IF key = end(tree') THEN End ELSE KeyAt(tree', key), returned[2]>>
     ELSE /\ call' = [op |-> "range", iter |-> key, remaining |-> call.remaining]
          /\ UNCHANGED returned

Half(big) ==
  LET half == (CountOf(tree, big) - CountOf(tree, Node)) \div 2
  IN IF half < CountOf(tree, big) - 1 THEN half ELSE CountOf(tree, big) - 1

TakeRight ==
  LET right == RightOf(Node) IN
  /\ Short /\ ~CanMergeLeft /\ ~CanMergeRight /\ CanTakeRight
  /\ tree' = rebalance_right_to_left(tree, Node, right, Half(right))
  /\ Return(Res(call.iter))
  /\ UNCHANGED <<erasures, contents>>

TakeLeft ==
  LET left == LeftOf(Node) IN
  /\ Short /\ ~CanMergeLeft /\ ~CanMergeRight /\ ~CanTakeRight /\ CanTakeLeft
  /\ tree' = rebalance_left_to_right(tree, left, Node, Half(left))
  /\ Return(Res(Iter(Node, call.iter.position + Half(left))))
  /\ UNCHANGED <<erasures, contents>>

(* Nothing to merge with or to take from, or enough values.                *)
LeaveShort ==
  /\ call.op = "rebalance"
  /\ Node # tree.root
  /\ \/ CountOf(tree, Node) >= kMinNodeValues
     \/ ~CanMergeLeft /\ ~CanMergeRight /\ ~CanTakeRight /\ ~CanTakeLeft
  /\ UNCHANGED tree
  /\ Return(call.res)
  /\ UNCHANGED <<erasures, contents>>

(* try_shrink, at the root: an empty root goes, and its only child becomes *)
(* the root.                                                               *)
Shrink ==
  LET root == tree.root IN
  /\ call.op = "rebalance"
  /\ Node = root
  /\ tree' = IF CountOf(tree, root) > 0 THEN tree
             ELSE IF Leaf(tree, root)
             THEN [DeleteNode(tree, root) EXCEPT !.root = EmptyNode, !.rightmost_ = EmptyNode]
             ELSE LET child == Child(tree, root, 0)
                  IN DeleteNode([tree EXCEPT !.nodes[child].parent = leftmost(tree),
                                             !.root = child], root)
  /\ Return(call.res)
  /\ UNCHANGED <<erasures, contents>>

Next ==
  \/ \E key \in Keys :
       \/ Insert(key)
       \/ Erase(key)
       \/ \E hint \in Hints : InsertHint(hint, key)
       \/ \E low \in Keys : EraseRange(low, key)
  \/ Assign \/ Clear
  \/ EmplaceValue \/ GrowRootLeaf \/ MakeRoom
  \/ RebalanceLeft \/ RebalanceRight \/ RoomInParent \/ Split
  \/ EraseMore
  \/ MergeLeft \/ MergeRight \/ TakeRight \/ TakeLeft \/ LeaveShort \/ Shrink

Spec == Init /\ [][Next]_vars

-----------------------------------------------------------------------------
RECURSIVE Depth(_, _)
Depth(t, n) == IF n = t.root THEN 0 ELSE 1 + Depth(t, Parent(t, n))

(* What verify() asserts holds after every operation, and more: the tree   *)
(* holds in order just the keys it was given, every node is linked to its  *)
(* place, none is lost, the ends of the tree are leftmost() and            *)
(* rightmost_, and all leaves are equally deep (btree.h:2220-2229,         *)
(* 2569-2597).                                                             *)
TreeVerifies ==
  LET nodes == DOMAIN tree.nodes \ {EmptyNode}
      keys  == InOrder(tree, tree.root) IN
  call = Idle =>
  /\ tree.size_ = Cardinality(contents)
  /\ IF contents = {} THEN tree = EmptyTree
     ELSE /\ ToSet(keys) = contents
          /\ \A i \in 2..Len(keys) : keys[i - 1] < keys[i]
          /\ leftmost(tree) = FirstLeaf(tree, tree.root)
          /\ tree.rightmost_ = LastLeaf(tree, tree.root)
          /\ \A n \in nodes :
               /\ CountOf(tree, n) \in 1..tree.nodes[n].max_count
               /\ n # tree.root => Child(tree, Parent(tree, n), Position(tree, n)) = n
               /\ ~Leaf(tree, n) => Len(Kids(tree, n)) = CountOf(tree, n) + 1
               /\ Leaf(tree, n) => Depth(tree, n) = Depth(tree, tree.rightmost_)

(* The iterator that erase returns points at the value after the last one  *)
(* erased, or is end(), wherever rebalancing, merging and shrinking have   *)
(* moved that value (btree.h:2013-2082).                                   *)
EraseReturnsNext == call = Idle => returned[1] = returned[2]
=============================================================================
