------------------------------- MODULE BPTree -------------------------------
(* The B+ tree of data_structure/bptree.cpp.  The tree lives in a file of    *)
(* nodes that only grows; a node is named by its offset, the root by 0.  A   *)
(* node holds key_total keys and, in a leaf, as many pointers to data, in an *)
(* inner node one more pointer to a child.  The part of the C arrays beyond  *)
(* key_total is never read to any effect and is left out; pointer[MAX_KEY]   *)
(* of a leaf, the next leaf, is the field next.                              *)
(*                                                                           *)
(* The code counts keys from 0 and the model from 1: i here is the code's    *)
(* i + 1, in every definition.                                               *)
EXTENDS Naturals, Integers, Sequences, SequencesExt, FiniteSets

CONSTANTS Keys,      \* the keys that a caller uses
          MAX_KEY,   \* keys per node, 5 in the code
          Tags,      \* distinguishes two pointers stored under one key
          Loads,     \* sequences of keys inserted before anything else
          MaxOps     \* bound on the calls after that

ASSUME BPTreeAssumption == /\ Keys \subseteq Nat
                           /\ MAX_KEY \in Nat /\ MAX_KEY >= 5 /\ MAX_KEY % 2 = 1

VARIABLES file,      \* the nodes of the index file, in the order of their offsets
          todo,      \* the keys main() has still to insert
          status,    \* "ok", or "lost": a call recursed without end or read garbage
          misled,    \* history: some remove() looked for its key in the wrong subtree
          dict,      \* history: what a dictionary holds after the same calls
          ops        \* number of calls so far

vars == <<file, todo, status, misled, dict, ops>>

NotFound == 0 - 1
root == 0

Node(leaf, keys, pointers, nx) ==
    [is_leaf |-> leaf, key |-> keys, pointer |-> pointers, next |-> nx]

get_final_node(f) == Len(f)

read_node_from_file(f, o) == f[o + 1]

write_node_to_file(f, o, n) ==
    IF o = Len(f) THEN Append(f, n) ELSE [f EXCEPT ![o + 1] = n]

build == write_node_to_file(<<>>, root, Node(TRUE, <<>>, <<>>, 0))

Full(n) == Len(n.key) = MAX_KEY
Spare(n) == Len(n.key) > MAX_KEY \div 2

\* The scan for the first key that is not smaller; one past the end if there is none.
ScanFor(n, k) ==
    LET p == SelectInSeq(n.key, LAMBDA x : x >= k)
    IN  IF p = 0 THEN Len(n.key) + 1 ELSE p

Holds(n, i, k) == i <= Len(n.key) /\ n.key[i] = k

-----------------------------------------------------------------------------
(* query *)

RECURSIVE query_pos(_, _, _)
query_pos(f, k, curr) ==
    LET n == read_node_from_file(f, curr)
        i == ScanFor(n, k)
    IN  IF ~n.is_leaf THEN query_pos(f, k, n.pointer[i])
        ELSE IF Holds(n, i, k) THEN <<curr, n.pointer[i]>> ELSE <<NotFound, NotFound>>

\* The pointer stored under k, and with get_bpos the offset of its leaf.
query(f, k) == query_pos(f, k, root)[2]
query_bpos(f, k) == query_pos(f, k, root)[1]

-----------------------------------------------------------------------------
(* insert: a full node is split before it is entered *)

\* Mutant: a leaf gives away the key that goes up.
LeftShare_NoExtra(child) == MAX_KEY \div 2

\* How many keys the left half keeps: a leaf keeps the one that goes up.
LeftShare(child) == IF child.is_leaf THEN (MAX_KEY \div 2) + 1 ELSE MAX_KEY \div 2

split(f, parent, child, c) ==
    LET half == MAX_KEY \div 2
        right == get_final_node(f)
        right_node == Node(child.is_leaf, SubSeq(child.key, half + 2, MAX_KEY),
                           SubSeq(child.pointer, half + 2, Len(child.pointer)), child.next)
    IN  [parent |-> [parent EXCEPT !.key = InsertAt(@, c, child.key[half + 1]),
                                   !.pointer = InsertAt(@, c + 1, right)],
         child  |-> [child EXCEPT !.key = SubSeq(@, 1, LeftShare(child)),
                                  !.pointer = SubSeq(@, 1, half + 1),
                                  !.next = IF child.is_leaf THEN right ELSE @],
         file   |-> write_node_to_file(f, right, right_node)]

\* A leaf takes the pair at its place.
LeafInsert(f, curr, n, i, k, p) ==
    write_node_to_file(f, curr, [n EXCEPT !.key = InsertAt(@, i, k),
                                          !.pointer = InsertAt(@, i, p)])

RECURSIVE insert_pos(_, _, _, _)
insert_pos(f, k, p, curr) ==
    LET n == read_node_from_file(f, curr)
        i == ScanFor(n, k)
    IN  IF Holds(n, i, k) THEN f
        ELSE IF n.is_leaf THEN LeafInsert(f, curr, n, i, k, p)
        ELSE LET child == read_node_from_file(f, n.pointer[i])
                 s == split(f, n, child, i)
                 g == write_node_to_file(write_node_to_file(s.file, curr, s.parent),
                                         s.parent.pointer[i], s.child)
             IN  IF ~Full(child) THEN insert_pos(f, k, p, n.pointer[i])
                 ELSE IF s.parent.key[i] >= k THEN insert_pos(g, k, p, s.parent.pointer[i])
                 ELSE insert_pos(g, k, p, s.parent.pointer[i + 1])

\* A full root moves to the end of the file, and the new root takes offset 0.
GrowRoot(f) ==
    LET old == read_node_from_file(f, root)
        last == get_final_node(f)
        new == Node(FALSE, <<>>, <<root>>, 0)
        s == split(write_node_to_file(f, last, new), new, old, 1)
        g == write_node_to_file(s.file, last, s.child)
    IN  write_node_to_file(g, root, [s.parent EXCEPT !.pointer[1] = last])

insert(f, k, p) ==
    insert_pos(IF Full(read_node_from_file(f, root)) THEN GrowRoot(f) ELSE f, k, p, root)

-----------------------------------------------------------------------------
(* remove: a node that has no key to spare is filled up before it is entered,*)
(* from a sibling or by merging with it.  A repair works on the node n at    *)
(* curr and its child number i and returns the node, the file and the number *)
(* the child has afterwards.                                                 *)

Child(f, n, i) == read_node_from_file(f, n.pointer[i])

Write(f, curr, n, i, a, na, nb) ==
    [file |-> write_node_to_file(write_node_to_file(write_node_to_file(f, curr, n),
                                                    n.pointer[a], na), n.pointer[a + 1], nb),
     node |-> n, i |-> i]

DropKey(n, a) == [n EXCEPT !.key = RemoveAt(@, a), !.pointer = RemoveAt(@, a + 1)]

\* Mutant: the merged leaf keeps its old successor.
MergedNext_Stale(l, r) == l.next

\* The leaf after two that were merged.
MergedNext(l, r) == r.next

\* Two leaves become one, the left one; n loses the key between them.
MergeLeaves(f, curr, n, a) ==
    LET l == Child(f, n, a)
        r == Child(f, n, a + 1)
        m == Node(TRUE, l.key \o r.key, l.pointer \o r.pointer, MergedNext(l, r))
        n1 == DropKey(n, a)
    IN  [file |-> write_node_to_file(write_node_to_file(f, curr, n1), n.pointer[a], m),
         node |-> n1, i |-> a]

\* The last pair of the left leaf goes to the right one.  The key moved is
\* the separator, which the code takes for the left leaf's last key.
LeafFromLeft(f, curr, n, i) ==
    LET l == Child(f, n, i - 1)
        c == Child(f, n, i)
        l1 == [l EXCEPT !.key = Front(@), !.pointer = Front(@)]
        c1 == [c EXCEPT !.key = <<n.key[i - 1]>> \o @, !.pointer = <<Last(l.pointer)>> \o @]
    IN  Write(f, curr, [n EXCEPT !.key[i - 1] = Last(l1.key)], i, i - 1, l1, c1)

\* The first pair of the right leaf goes to the left one.
LeafFromRight(f, curr, n, i) ==
    LET c == Child(f, n, i)
        r == Child(f, n, i + 1)
        c1 == [c EXCEPT !.key = Append(@, r.key[1]), !.pointer = Append(@, r.pointer[1])]
        r1 == [r EXCEPT !.key = Tail(@), !.pointer = Tail(@)]
    IN  Write(f, curr, [n EXCEPT !.key[i] = r.key[1]], i, i, c1, r1)

\* Two inner nodes become one, with the separator between them.
MergeInner(f, curr, n, a) ==
    LET l == Child(f, n, a)
        r == Child(f, n, a + 1)
        m == Node(FALSE, Append(l.key, n.key[a]) \o r.key, l.pointer \o r.pointer, 0)
        n1 == DropKey(n, a)
    IN  [file |-> write_node_to_file(write_node_to_file(f, curr, n1), n.pointer[a], m),
         node |-> n1, i |-> a]

\* A child of the left inner node goes over, through the separator.
InnerFromLeft(f, curr, n, i) ==
    LET l == Child(f, n, i - 1)
        c == Child(f, n, i)
        l1 == [l EXCEPT !.key = Front(@), !.pointer = Front(@)]
        c1 == [c EXCEPT !.key = <<n.key[i - 1]>> \o @, !.pointer = <<Last(l.pointer)>> \o @]
    IN  Write(f, curr, [n EXCEPT !.key[i - 1] = Last(l.key)], i, i - 1, l1, c1)

InnerFromRight(f, curr, n, i) ==
    LET c == Child(f, n, i)
        r == Child(f, n, i + 1)
        c1 == [c EXCEPT !.key = Append(@, n.key[i]), !.pointer = Append(@, r.pointer[1])]
        r1 == [r EXCEPT !.key = Tail(@), !.pointer = Tail(@)]
    IN  Write(f, curr, [n EXCEPT !.key[i] = r.key[1]], i, i, c1, r1)

Keep(f, n, i) == [file |-> f, node |-> n, i |-> i]

\* The same with key a of the node set to k.
SetKey(w, curr, a, k) ==
    LET n1 == [w.node EXCEPT !.key[a] = k]
    IN  [w EXCEPT !.node = n1, !.file = write_node_to_file(@, curr, n1)]

Last2(s) == s[Len(s) - 1]

\* Key i is the one to remove, child i a leaf without a key to spare (B to E).
\* The key is the child's last, so the separator becomes the one before it.
FoundOverLeaf(f, curr, n, i) ==
    IF i > 1
    THEN IF Spare(Child(f, n, i - 1))
         THEN LET w == LeafFromLeft(f, curr, n, i)
              IN  SetKey(w, curr, i, Last2(Child(w.file, w.node, i).key))
         ELSE LET w == MergeLeaves(f, curr, n, i - 1)
              IN  SetKey(w, curr, i - 1, Last2(Child(w.file, w.node, i - 1).key))
    ELSE IF Spare(Child(f, n, i + 1)) THEN LeafFromRight(f, curr, n, i)
         ELSE MergeLeaves(f, curr, n, i)

\* Key i is the one to remove, child i an inner node (F, H to L): first the
\* separator becomes the key before it in the leaf, then the child is filled up.
FoundOverInner(f, curr, n, i, pred) ==
    LET w == SetKey(Keep(f, n, i), curr, i, pred)
        m == w.node
        g == w.file
    IN  IF Spare(Child(g, m, i)) THEN w
        ELSE IF i > 1
        THEN IF Spare(Child(g, m, i - 1)) THEN InnerFromLeft(g, curr, m, i)
             ELSE MergeInner(g, curr, m, i - 1)
        ELSE IF Spare(Child(g, m, i + 1)) THEN InnerFromRight(g, curr, m, i)
             ELSE MergeInner(g, curr, m, i)

\* The key is not in this node and child i is an inner node (H to L).
MissedOverInner(f, curr, n, i) ==
    IF Spare(Child(f, n, i)) THEN Keep(f, n, i)
    ELSE IF i > 1
    THEN IF Spare(Child(f, n, i - 1)) THEN InnerFromLeft(f, curr, n, i)
         ELSE MergeInner(f, curr, n, i - 1)
    ELSE IF Spare(Child(f, n, i + 1)) THEN InnerFromRight(f, curr, n, i)
         ELSE MergeInner(f, curr, n, i)

\* The key is not in this node and child i is a leaf (M to Q).
MissedOverLeaf(f, curr, n, i) ==
    IF Spare(Child(f, n, i)) THEN Keep(f, n, i)
    ELSE IF i > 1
    THEN IF Spare(Child(f, n, i - 1)) THEN LeafFromLeft(f, curr, n, i)
         ELSE MergeLeaves(f, curr, n, i - 1)
    ELSE IF Spare(Child(f, n, i + 1)) THEN LeafFromRight(f, curr, n, i)
         ELSE MergeLeaves(f, curr, n, i)

\* A leaf drops its pair number i (G).
LeafRemove(f, curr, n, i) ==
    write_node_to_file(f, curr, [n EXCEPT !.key = RemoveAt(@, i), !.pointer = RemoveAt(@, i)])

\* The key is the last of a leaf with keys to spare: one step does it (A).
LeafRemoveLast(f, curr, n, i) ==
    LET c == Child(f, n, i)
    IN  write_node_to_file(write_node_to_file(f, curr, [n EXCEPT !.key[i] = Last2(c.key)]),
                           n.pointer[i], [c EXCEPT !.key = Front(@), !.pointer = Front(@)])

\* The root has one child left: the child is copied over it.
ShrinkRoot(f, curr, n) == write_node_to_file(f, curr, Child(f, n, 1))

Removed(f, m) == [file |-> f, status |-> "ok", misled |-> m]
Lost(f, m) == [file |-> f, status |-> "lost", misled |-> m]

RECURSIVE remove_pos(_, _, _, _)
remove_pos(f, k, curr, m) ==
    LET n == read_node_from_file(f, curr)
        i == ScanFor(n, k)
        found == Holds(n, i, k)
        leafChild == Child(f, n, i).is_leaf
        at == query_bpos(f, k)
        Down(w) == remove_pos(w.file, k, w.node.pointer[w.i], m)
    IN  IF n.key = <<>>
        THEN IF n.is_leaf THEN Lost(f, m)
             ELSE remove_pos(ShrinkRoot(f, curr, n), k, curr, m)
        ELSE IF n.is_leaf
        THEN Removed(IF found THEN LeafRemove(f, curr, n, i) ELSE f, m)
        ELSE IF found /\ leafChild
        THEN IF Spare(Child(f, n, i)) THEN Removed(LeafRemoveLast(f, curr, n, i), m)
             ELSE Down(FoundOverLeaf(f, curr, n, i))
        ELSE IF found
        THEN IF at = NotFound THEN Lost(f, m)
             ELSE LET keys == read_node_from_file(f, at).key
                      w == FoundOverInner(f, curr, n, i, Last2(keys))
                  IN  IF Len(keys) < 2 THEN Lost(f, m)
                      ELSE remove_pos(w.file, k, w.node.pointer[w.i],
                                      m \/ (i = 1 /\ ~Spare(Child(f, n, i))))
        ELSE Down(IF leafChild THEN MissedOverLeaf(f, curr, n, i)
                  ELSE MissedOverInner(f, curr, n, i))

remove(f, k) == remove_pos(f, k, root, FALSE)

-----------------------------------------------------------------------------
(* The reference: a key that is there keeps its pointer.                     *)

Insert(d, k, p) == [x \in DOMAIN d \cup {k} |-> IF x \in DOMAIN d THEN d[x] ELSE p]
Delete(d, k) == [x \in DOMAIN d \ {k} |-> d[x]]

-----------------------------------------------------------------------------
(* The program: a file is built, keys are inserted in some order, then any   *)
(* calls follow.                                                             *)

PointerOf(k, t) == 100 * k + t

Init == /\ file = build /\ todo \in Loads
        /\ status = "ok" /\ misled = FALSE /\ dict = <<>> /\ ops = 0

\* The first loop of main(): one insert after the other.
Load ==
    /\ todo # <<>>
    /\ file' = insert(file, Head(todo), PointerOf(Head(todo), 0))
    /\ dict' = Insert(dict, Head(todo), PointerOf(Head(todo), 0))
    /\ todo' = Tail(todo)
    /\ UNCHANGED <<status, misled, ops>>

MayCall == todo = <<>> /\ status = "ok" /\ ops < MaxOps

InsertKey(k, t) ==
    /\ MayCall
    /\ file' = insert(file, k, PointerOf(k, t))
    /\ dict' = Insert(dict, k, PointerOf(k, t))
    /\ ops' = ops + 1
    /\ UNCHANGED <<todo, status, misled>>

RemoveKey(k) ==
    /\ MayCall
    /\ LET r == remove(file, k)
       IN  /\ file' = r.file
           /\ status' = r.status
           /\ misled' = (misled \/ r.misled)
    /\ dict' = Delete(dict, k)
    /\ ops' = ops + 1
    /\ UNCHANGED todo

Next == \/ Load
        \/ \E k \in Keys : RemoveKey(k) \/ \E t \in Tags : InsertKey(k, t)

Spec == Init /\ [][Next]_vars

-----------------------------------------------------------------------------
(* Properties *)

\* Every insert() and remove(), with all the splitting, borrowing and merging
\* on its way, changes what query() returns for the key it was called with and
\* for no other, as long as no remove() was led into the wrong subtree.
QueryCorrect ==
    ~misled => \A k \in Keys : query(file, k) = IF k \in DOMAIN dict THEN dict[k] ELSE NotFound

\* The offsets of the leaves under o from left to right, with their depth.
RECURSIVE LeavesUnder(_, _, _)
LeavesUnder(f, o, depth) ==
    LET n == read_node_from_file(f, o)
    IN  IF n.is_leaf THEN <<<<o, depth>>>>
        ELSE FlattenSeq([i \in 1..Len(n.pointer) |-> LeavesUnder(f, n.pointer[i], depth + 1)])

RECURSIVE InnerUnder(_, _)
InnerUnder(f, o) ==
    LET n == read_node_from_file(f, o)
    IN  IF n.is_leaf THEN {}
        ELSE {o} \cup UNION {InnerUnder(f, n.pointer[i]) : i \in 1..Len(n.pointer)}

LeafKeys(f, o) ==
    FlattenSeq([i \in 1..Len(LeavesUnder(f, o, 0)) |->
                    read_node_from_file(f, LeavesUnder(f, o, 0)[i][1]).key])

\* The leaves are in order, equally deep and chained from left to right.
LeavesInOrder(f) ==
    LET L == LeavesUnder(f, root, 0)
        K == LeafKeys(f, root)
    IN  /\ \A i \in 1..Len(K) - 1 : K[i] < K[i + 1]
        /\ \A i \in 1..Len(L) : L[i][2] = L[1][2]
        /\ \A i \in 1..Len(L) - 1 : read_node_from_file(f, L[i][1]).next = L[i + 1][1]

\* A key of an inner node is the last one below the pointer before it.
SeparatorsExact(f) ==
    \A o \in InnerUnder(f, root) :
        LET n == read_node_from_file(f, o)
        IN  /\ Len(n.pointer) = Len(n.key) + 1
            /\ \A i \in 1..Len(n.key) : n.key[i] = Last(LeafKeys(f, n.pointer[i]))

\* No node but the root has fewer than half of the keys, none more than fit.
Filled(f) ==
    \A o \in InnerUnder(f, root) :
        LET n == read_node_from_file(f, o)
        IN  /\ Len(n.key) <= MAX_KEY
            /\ \A i \in 1..Len(n.pointer) :
                  LET c == read_node_from_file(f, n.pointer[i])
                  IN  Len(c.key) \in MAX_KEY \div 2 .. MAX_KEY

\* After any calls the tree is one: keys in order, leaves equally deep and
\* chained, separators exact (the code takes a separator for the last key of
\* the left leaf, and the second-last key of a leaf for the next separator),
\* nodes filled, so that no read misses the keys of a node; and only removing
\* from an empty tree makes remove() recurse for ever.
TreeSound ==
    ~misled => /\ LeavesInOrder(file) /\ SeparatorsExact(file) /\ Filled(file)
               /\ status = "ok" \/ read_node_from_file(file, root).key = <<>>

\* The comment on the branch for a key that is not in the node (line 704): the
\* key is then below the pointer the scan stops at.  A key that some leaf holds
\* must therefore be the one that query() finds.
KeysBelowPointers ==
    \A k \in {LeafKeys(file, root)[i] : i \in 1..Len(LeafKeys(file, root))} :
        query(file, k) # NotFound
=============================================================================
