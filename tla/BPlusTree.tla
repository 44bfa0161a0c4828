------------------------------ MODULE BPlusTree ------------------------------
(***************************************************************************)
(* The algorithms of src/src/b_plus_tree.cpp: Insert with its splits,      *)
(* Remove with its redistributions and merges, GetValue and IsEmpty.       *)
(*                                                                         *)
(* Every operation holds the write guard of the header page from its first *)
(* line on, so one operation runs at a time (TreePool.tla is about that).  *)
(* An operation is a step at the leaf, which decides its answer, and then  *)
(* one step for each level that its loop visits; `fix' holds its local     *)
(* variables in between.                                                   *)
(*                                                                         *)
(* A node is the live part of its arrays: a leaf the sequence of its       *)
(* entries, an internal node its children and the keys between them,       *)
(* keys[i] being key_array_[i] and kids[i] being page_id_array_[i - 1].    *)
(***************************************************************************)
EXTENDS Integers, Sequences, SequencesExt

CONSTANTS Keys,         \* integer keys
          Rids,         \* record ids
          NPages,       \* bound of the model: how many pages may be in the tree at once
          LeafMax,      \* leaf_max_size_
          InternalMax,  \* internal_max_size_
          NoPage,       \* INVALID_PAGE_ID
          DefaultKey    \* KeyType{}

Pages == 1..NPages

ASSUME TreeAssumption ==
    /\ Keys \subseteq Int /\ DefaultKey \in Int
    /\ NPages \in Nat /\ NoPage \notin Pages
    /\ LeafMax \in Nat /\ LeafMax >= 2
    /\ InternalMax \in Nat /\ InternalMax >= 3

\* IntegerKey wraps an int: there is a least key and a greatest one.
ASSUME KeysAssumption ==
    Keys # {} => \E first, last \in Keys : Keys \subseteq first..last

VARIABLES node,   \* page -> Leaf, Internal or Unused
          root,   \* root_page_id_ of the header page
          fix,    \* what the operation under way has still to do above the leaf
          reply   \* what the last call answered

vars == <<node, root, fix, reply>>

Unused == [kind |-> "unused"]
Leaf(entries, next) == [kind |-> "leaf", entries |-> entries, next |-> next]
Internal(keys, kids) == [kind |-> "internal", keys |-> keys, kids |-> kids]

Leaves == {p \in Pages : node[p].kind = "leaf"}
Internals == {p \in Pages : node[p].kind = "internal"}

\* Page ids are only names.  NewPage never gives one out twice; here a page that
\* left the tree is Unused, and its name may be given to a new one.
Free == {p \in Pages : node[p] = Unused}
Fresh == CHOOSE p \in Free : \A q \in Free : p <= q

Answers(b) == [ok |-> b]
Finds(r)   == [rid |-> r]

\* No operation is under way.
Quiet == [kind |-> "quiet"]

\* Insert has split a node: `child', whose first key is `key', goes beside `left'
\* into the last page of `path'.
Grow(path, left, key, child) ==
    [kind |-> "grow", path |-> path, left |-> left, key |-> key, child |-> child]

\* Remove has changed the children of `page': its size is to be checked.
Shrink(path, page, key, update, old, new) ==
    [kind |-> "shrink", path |-> path, page |-> page, key |-> key,
     update |-> update, old |-> old, new |-> new]

Init ==
    /\ node = [p \in Pages |-> Unused]
    /\ root = NoPage
    /\ fix = Quiet
    /\ reply = Answers(TRUE)

-----------------------------------------------------------------------------
(* Searching                                                               *)

\* KeyIndex, a binary search: the position of k in ascending keys, or where it belongs.
KeyIndex(keys, k) ==
    LET search[w \in (1..(Len(keys) + 1)) \X (1..(Len(keys) + 1))] ==
            LET l == w[1]
                r == w[2]
                mid == l + ((r - l) \div 2)
            IN  CASE l >= r        -> l
                  [] l < r /\ k = keys[mid] -> mid
                  [] l < r /\ k < keys[mid] -> search[<<l, mid>>]
                  [] OTHER         -> search[<<mid + 1, r>>]
    IN  search[<<1, Len(keys) + 1>>]

Has(keys, k) == LET i == KeyIndex(keys, k) IN i <= Len(keys) /\ keys[i] = k

LeafKeys(p) == [i \in DOMAIN node[p].entries |-> node[p].entries[i].key]

\* Mutated form of ChildAt: a key equal to the one between two children goes left.
ChildAt_Left(n, k) == KeyIndex(n.keys, k)

\* Which child of an internal node to descend into.
ChildAt(n, k) == LET i == KeyIndex(n.keys, k) IN IF Has(n.keys, k) THEN i + 1 ELSE i

\* The pages from the root to the leaf for k, as FindLeafPage and FindAndLock visit them.
Path(k) ==
    LET down[p \in Pages] ==
            IF node[p].kind = "internal"
            THEN Cons(p, down[node[p].kids[ChildAt(node[p], k)]])
            ELSE <<p>>
    IN  down[root]

\* The leaf that holds k if any does.
LeafFor(k) == Last(Path(k))

\* A search for k ends at k.
Present(k) == root # NoPage /\ Has(LeafKeys(LeafFor(k)), k)

GetValue(k) ==
    /\ fix = Quiet
    /\ reply' = IF Present(k)
                THEN LET leaf == LeafFor(k)
                     IN  Finds(node[leaf].entries[KeyIndex(LeafKeys(leaf), k)].rid)
                ELSE Answers(FALSE)
    /\ UNCHANGED <<node, root, fix>>

IsEmpty ==
    /\ fix = Quiet
    /\ reply' = Answers(root = NoPage)
    /\ UNCHANGED <<node, root, fix>>

-----------------------------------------------------------------------------
(* Insert                                                                  *)

\* GetMinSize.
Least(max) == (max + 1) \div 2

Entry(k, r) == [key |-> k, rid |-> r]

\* Bound of the model: there are pages for a split on every level and a new root.
RoomFor(path) == Cardinality(Free) > Len(path)

InsertFirst(k, r) ==
    /\ fix = Quiet
    /\ root = NoPage
    /\ RoomFor(<<>>)
    /\ root' = Fresh
    /\ node' = [node EXCEPT ![Fresh] = Leaf(<<Entry(k, r)>>, NoPage)]
    /\ reply' = Answers(TRUE)
    /\ UNCHANGED fix

InsertDuplicate(k) ==
    /\ fix = Quiet
    /\ Present(k)
    /\ reply' = Answers(FALSE)
    /\ UNCHANGED <<node, root, fix>>

\* The leaf with the new entry in its place.
Inserted(leaf, k, r) == InsertAt(node[leaf].entries, KeyIndex(LeafKeys(leaf), k), Entry(k, r))

\* Mutated form of InsertRoom: the leaf is split one entry too late.
InsertRoom_Late(k, r) ==
    /\ fix = Quiet
    /\ root # NoPage
    /\ LET leaf == LeafFor(k)
       IN  /\ ~Has(LeafKeys(leaf), k)
           /\ Len(node[leaf].entries) <= LeafMax
           /\ node' = [node EXCEPT ![leaf].entries = Inserted(leaf, k, r)]
    /\ reply' = Answers(TRUE)
    /\ UNCHANGED <<root, fix>>

\* The leaf has room.
InsertRoom(k, r) ==
    /\ fix = Quiet
    /\ root # NoPage
    /\ LET leaf == LeafFor(k)
       IN  /\ ~Has(LeafKeys(leaf), k)
           /\ Len(node[leaf].entries) < LeafMax
           /\ node' = [node EXCEPT ![leaf].entries = Inserted(leaf, k, r)]
    /\ reply' = Answers(TRUE)
    /\ UNCHANGED <<root, fix>>

\* Mutated form of Chained: the new leaf does not take over the link.
Chained_Cut(next) == NoPage

\* The link of a new leaf: that of the leaf it was split from.
Chained(next) == next

\* A full leaf keeps its first Least(LeafMax) entries and hands the others to a
\* new leaf; then the entry goes into the half its old position belongs to.
InsertSplit(k, r) ==
    /\ fix = Quiet
    /\ root # NoPage
    /\ RoomFor(Path(k))
    /\ LET path == Path(k)
           leaf == Last(path)
           n == node[leaf]
           left == SubSeq(n.entries, 1, Least(LeafMax))
           right == SubSeq(n.entries, Least(LeafMax) + 1, Len(n.entries))
           i == KeyIndex(LeafKeys(leaf), k)
           goesLeft == i <= Least(LeafMax)
           first == IF goesLeft THEN InsertAt(left, i, Entry(k, r)) ELSE left
           second == IF goesLeft THEN right
                     ELSE InsertAt(right, i - Least(LeafMax), Entry(k, r))
       IN  /\ ~Has(LeafKeys(leaf), k)
           /\ Len(n.entries) >= LeafMax
           /\ node' = [node EXCEPT ![leaf] = Leaf(first, Fresh),
                                   ![Fresh] = Leaf(second, Chained(n.next))]
           /\ fix' = Grow(Front(path), leaf, second[1].key, Fresh)
    /\ reply' = Answers(TRUE)
    /\ UNCHANGED root

Insert(k, r) == InsertFirst(k, r) \/ InsertDuplicate(k) \/ InsertRoom(k, r) \/ InsertSplit(k, r)

\* Mutated form of Upper: the key that goes up stays as well.
Upper_Copied(n, m) == Internal(SubSeq(n.keys, m, Len(n.keys)), SubSeq(n.kids, m + 1, Len(n.kids)))

\* An internal node cut after its child m: what stays, and what goes to a new node.
Lower(n, m) == Internal(SubSeq(n.keys, 1, m - 1), SubSeq(n.kids, 1, m))
Upper(n, m) == Internal(SubSeq(n.keys, m + 1, Len(n.keys)), SubSeq(n.kids, m + 1, Len(n.kids)))

\* An internal node with one more child, to the right of its key.
Adopted(n, key, child) ==
    LET i == KeyIndex(n.keys, key)
    IN  Internal(InsertAt(n.keys, i, key), InsertAt(n.kids, i + 1, child))

\* The new child goes into its parent.  A full parent then keeps Least(InternalMax)
\* children, the others move to a new node and the key between them goes up.
GrowParent ==
    /\ fix.kind = "grow"
    /\ fix.path # <<>>
    /\ LET p == Last(fix.path)
           n == Adopted(node[p], fix.key, fix.child)
           m == Least(InternalMax)
       IN  IF Len(node[p].kids) < InternalMax
           THEN /\ node' = [node EXCEPT ![p] = n]
                /\ fix' = Quiet
           ELSE /\ node' = [node EXCEPT ![p] = Lower(n, m), ![Fresh] = Upper(n, m)]
                /\ fix' = Grow(Front(fix.path), p, n.keys[m], Fresh)
    /\ UNCHANGED <<root, reply>>

\* The root itself was split: a new root above its two halves.
GrowRoot ==
    /\ fix.kind = "grow"
    /\ fix.path = <<>>
    /\ root' = Fresh
    /\ node' = [node EXCEPT ![Fresh] = Internal(<<fix.key>>, <<fix.left, fix.child>>)]
    /\ fix' = Quiet
    /\ UNCHANGED reply

-----------------------------------------------------------------------------
(* Redistribution and merging, of leaves and of internal nodes alike.  l   *)
(* and r are neighbours, sep is the key between them in their parent; t is *)
(* the table of nodes as the operation has changed it so far.              *)

Size(n) == IF n.kind = "leaf" THEN Len(n.entries) ELSE Len(n.kids)
MinSize(n) == Least(IF n.kind = "leaf" THEN LeafMax ELSE InternalMax)

\* l gives its last entry or child to r.
FromLeft(l, sep, r) ==
    IF l.kind = "leaf"
    THEN [l |-> [l EXCEPT !.entries = Front(@)],
          sep |-> Last(l.entries).key,
          r |-> [r EXCEPT !.entries = Cons(Last(l.entries), @)]]
    ELSE [l |-> Internal(Front(l.keys), Front(l.kids)),
          sep |-> Last(l.keys),
          r |-> Internal(Cons(sep, r.keys), Cons(Last(l.kids), r.kids))]

\* r gives its first entry or child to l.
FromRight(l, sep, r) ==
    IF l.kind = "leaf"
    THEN [l |-> [l EXCEPT !.entries = Append(@, Head(r.entries))],
          sep |-> r.entries[2].key,
          r |-> [r EXCEPT !.entries = Tail(@)]]
    ELSE [l |-> Internal(Append(l.keys, sep), Append(l.kids, Head(r.kids))),
          sep |-> Head(r.keys),
          r |-> Internal(Tail(r.keys), Tail(r.kids))]

\* Mutated form of Joined: the link of the leaf is left alone.
Joined_Unlinked(l, sep, r) ==
    IF l.kind = "leaf"
    THEN [l EXCEPT !.entries = @ \o r.entries]
    ELSE Internal(Append(l.keys, sep) \o r.keys, l.kids \o r.kids)

\* r is emptied into l.
Joined(l, sep, r) ==
    IF l.kind = "leaf"
    THEN Leaf(l.entries \o r.entries, r.next)
    ELSE Internal(Append(l.keys, sep) \o r.keys, l.kids \o r.kids)

\* Page p has a child number c, and it has an entry or a child to spare.
Lends(t, p, c) == c \in DOMAIN t[p].kids /\ Size(t[t[p].kids[c]]) > MinSize(t[t[p].kids[c]])

\* Child c is refilled from its left neighbour, else from its right one; if
\* neither can lend it is merged with the left one, with the right one if it is
\* the first.  Between is the key that separates the two.
FromTheLeft(t, p, c) == Lends(t, p, c - 1) \/ (~Lends(t, p, c + 1) /\ c > 1)
Between(t, p, c) == IF FromTheLeft(t, p, c) THEN c - 1 ELSE c

\* Both neighbours change and the key between them follows.
Redistributed(t, p, s, pair) ==
    [t EXCEPT ![t[p].kids[s]] = pair.l,
              ![t[p].kids[s + 1]] = pair.r,
              ![p].keys[s] = pair.sep]

\* Mutated forms of Merged: the parent keeps the key; or it keeps the emptied page.
Merged_KeyKept(t, p, s) ==
    LET l == t[p].kids[s]
        r == t[p].kids[s + 1]
    IN  [t EXCEPT ![l] = Joined(t[l], t[p].keys[s], t[r]),
                  ![r] = Unused,
                  ![p].kids = RemoveAt(@, s + 1)]
Merged_WrongPage(t, p, s) ==
    LET l == t[p].kids[s]
        r == t[p].kids[s + 1]
    IN  [t EXCEPT ![l] = Joined(t[l], t[p].keys[s], t[r]),
                  ![r] = Unused,
                  ![p] = Internal(RemoveAt(t[p].keys, s), RemoveAt(t[p].kids, s))]

\* The right neighbour leaves the tree, and its place in the parent with it.
Merged(t, p, s) ==
    LET l == t[p].kids[s]
        r == t[p].kids[s + 1]
    IN  [t EXCEPT ![l] = Joined(t[l], t[p].keys[s], t[r]),
                  ![r] = Unused,
                  ![p] = Internal(RemoveAt(t[p].keys, s), RemoveAt(t[p].kids, s + 1))]

Refilled(t, p, c) ==
    LET s == Between(t, p, c)
        l == t[t[p].kids[s]]
        r == t[t[p].kids[s + 1]]
    IN  IF Lends(t, p, c - 1)
        THEN Redistributed(t, p, s, FromLeft(l, t[p].keys[s], r))
        ELSE IF Lends(t, p, c + 1)
             THEN Redistributed(t, p, s, FromRight(l, t[p].keys[s], r))
             ELSE Merged(t, p, s)

\* Refill child c of page p and go on with page p; key_update, old_key and
\* new_key record what became of its first key.
Refill(t, path, p, c, k) ==
    LET s == Between(t, p, c)
    IN  /\ node' = Refilled(t, p, c)
        /\ fix' = Shrink(path, p, k, s = 1, t[p].keys[s],
                         IF s <= Len(node'[p].keys) THEN node'[p].keys[s] ELSE DefaultKey)

-----------------------------------------------------------------------------
(* Remove                                                                  *)

RemoveNothing(k) ==
    /\ fix = Quiet
    /\ ~Present(k)
    /\ reply' = Answers(TRUE)
    /\ UNCHANGED <<node, root, fix>>

\* The nodes once k is taken out of its leaf.
TakenOut(leaf, k) ==
    [node EXCEPT ![leaf].entries = RemoveAt(@, KeyIndex(LeafKeys(leaf), k))]

\* The leaf keeps enough entries, or it is the root, which may have fewer; an
\* empty root leaves the tree empty.
RemoveEntry(k) ==
    /\ fix = Quiet
    /\ root # NoPage
    /\ LET leaf == LeafFor(k)
           t == TakenOut(leaf, k)
       IN  /\ Has(LeafKeys(leaf), k)
           /\ Size(t[leaf]) >= MinSize(t[leaf]) \/ leaf = root
           /\ IF Size(t[leaf]) = 0
              THEN root' = NoPage /\ node' = [t EXCEPT ![leaf] = Unused]
              ELSE root' = root /\ node' = t
    /\ reply' = Answers(TRUE)
    /\ UNCHANGED fix

RemoveUnderflow(k) ==
    /\ fix = Quiet
    /\ root # NoPage
    /\ LET path == Path(k)
           leaf == Last(path)
           t == TakenOut(leaf, k)
           p == Last(Front(path))
       IN  /\ Has(LeafKeys(leaf), k)
           /\ leaf # root
           /\ Size(t[leaf]) < MinSize(t[leaf])
           /\ Refill(t, Front(Front(path)), p, ChildAt(t[p], k), k)
    /\ reply' = Answers(TRUE)
    /\ UNCHANGED root

\* Remove; SequencesExt has an operator of that name.
RemoveKey(k) == RemoveNothing(k) \/ RemoveEntry(k) \/ RemoveUnderflow(k)

\* Mutated form of Superfluous: off by one.
Superfluous_Empty == Size(node[root]) = 0

\* The root has a single child.
Superfluous == Size(node[root]) = 1

\* The loop has reached the root, which may give way to its child.  The code also
\* tests for a root without children: a merge takes one child of two or more.
ShrinkRoot ==
    /\ fix.kind = "shrink"
    /\ fix.page = root
    /\ IF Superfluous
       THEN root' = node[root].kids[1] /\ node' = [node EXCEPT ![root] = Unused]
       ELSE UNCHANGED <<node, root>>
    /\ fix' = Quiet
    /\ UNCHANGED reply

\* The loop stops at a node that has enough children - but not while key_update is set.
Settled == ~fix.update /\ Size(node[fix.page]) >= MinSize(node[fix.page])

ShrinkStop ==
    /\ fix.kind = "shrink"
    /\ fix.page # root
    /\ Settled
    /\ fix' = Quiet
    /\ UNCHANGED <<node, root, reply>>

\* The parent's copy of a key that changed below, if it has one, is replaced.
KeyUpdated(p) ==
    IF fix.update /\ Has(node[p].keys, fix.old)
    THEN [node EXCEPT ![p].keys[KeyIndex(node[p].keys, fix.old)] = fix.new]
    ELSE node

ShrinkNode ==
    /\ fix.kind = "shrink"
    /\ fix.page # root
    /\ ~Settled
    /\ LET p == Last(fix.path)
       IN  Refill(KeyUpdated(p), Front(fix.path), p, ChildAt(node[p], fix.key), fix.key)
    /\ UNCHANGED <<root, reply>>

-----------------------------------------------------------------------------
Next ==
    \/ \E k \in Keys, r \in Rids : Insert(k, r)
    \/ \E k \in Keys : RemoveKey(k) \/ GetValue(k)
    \/ IsEmpty
    \/ GrowParent \/ GrowRoot
    \/ ShrinkRoot \/ ShrinkStop \/ ShrinkNode

Spec == Init /\ [][Next]_vars

-----------------------------------------------------------------------------
(* Properties                                                              *)

Entries == [key : Keys, rid : Rids]

\* Every variable has its type; a node has one key less than it has children.
TypeOK ==
    /\ \A p \in Leaves : node[p].entries \in Seq(Entries) /\ node[p].next \in Pages \cup {NoPage}
    /\ \A p \in Internals :
          /\ node[p].keys \in Seq(Keys) /\ node[p].kids \in Seq(Pages)
          /\ Len(node[p].kids) = Len(node[p].keys) + 1
    /\ Pages = Leaves \cup Internals \cup Free
    /\ root \in Pages \cup {NoPage}
    /\ fix.kind \in {"quiet", "grow", "shrink"}

\* The tree is a map: no split, redistribution or merge loses, doubles or moves
\* an entry out of the reach of a search, and every call answers accordingly.
Map == INSTANCE IndexMap WITH
    content <- LET stored == UNION {ToSet(node[p].entries) : p \in Leaves}
               IN  [k \in {e.key : e \in stored} |-> (CHOOSE e \in stored : e.key = k).rid]
ImplementsIndexMap == Map!Spec

\* What the iterator walks along: the links go through all the leaves in the
\* order of their keys, whatever pages were split and merged.
LeavesChained ==
    \A p \in Leaves :
        LET last == Last(node[p].entries).key
            after == {e.key : e \in UNION {ToSet(node[q].entries) : q \in Leaves \ {p}}} \cap
                     {k \in Keys : k > last}
        IN  IF node[p].next = NoPage THEN after = {}
            ELSE /\ node[p].next \in Leaves
                 /\ LET first == Head(node[node[p].next].entries).key
                    IN  first \in after /\ \A k \in after : first <= k

\* Between operations the pages form a tree: each is the root or the child of
\* exactly one other, none is left behind, and all searches are equally long.
TreeShaped ==
    fix = Quiet =>
        /\ \A p \in Leaves \cup Internals :
              Cardinality({e \in Internals \X (1..NPages) :
                             e[2] \in DOMAIN node[e[1]].kids /\ node[e[1]].kids[e[2]] = p})
                = (IF p = root THEN 0 ELSE 1)
        /\ root # NoPage => \A j, k \in Keys : Len(Path(j)) = Len(Path(k))

\* Remove looks the old key up by its value in the levels above, so a key may
\* separate children in only one place of the tree.
SeparatorsDistinct ==
    \A p, q \in Internals : p # q => ToSet(node[p].keys) \cap ToSet(node[q].keys) = {}

\* No operation leaves an internal node with too few children: a node that is to
\* be refilled always has a neighbour (the assertion at line 560 has no teeth).
InternalsFilled ==
    fix = Quiet =>
        \A p \in Internals : Size(node[p]) >= IF p = root THEN 2 ELSE MinSize(node[p])

\* No leaf outgrows leaf_max_size_: a leaf is split before it is overfull, and
\* what a neighbour lends or a merge brings in always finds room.
LeavesWithinMax == \A p \in Leaves : Len(node[p].entries) <= LeafMax

\* Every node keeps to its maximum (FILES_OVERVIEW.md:161).
WithinMax ==
    \A p \in Leaves \cup Internals :
        Size(node[p]) <= IF node[p].kind = "leaf" THEN LeafMax ELSE InternalMax
=============================================================================
