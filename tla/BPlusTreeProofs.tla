--------------------------- MODULE BPlusTreeProofs ---------------------------
(*****************************************************************************)
(* The invariant of the B+ tree, one lemma for each action, and what follows *)
(* from it: the types, the fill of the nodes, that no separator is in two    *)
(* internal nodes, the chain of the leaves, the shape of the tree, and that  *)
(* what its operations answer and do is what IndexMap says.                  *)
(*****************************************************************************)
EXTENDS BPlusTreeShape

-----------------------------------------------------------------------------
(* Pages                                                                   *)

\* The least free page.
FreshIn(t) == CHOOSE p \in FreeIn(t) : \A q \in FreeIn(t) : p <= q

\* While pages are free, the least of them is one, and taking it leaves one fewer.
LEMMA FreshPage ==
  ASSUME NEW t, NEW n \in Nat, Cardinality(FreeIn(t)) > n
  PROVE  /\ FreshIn(t) \in FreeIn(t) /\ FreshIn(t) \in Pages
         /\ \A m \in Nat : n = m + 1 => Cardinality(FreeIn(t) \ {FreshIn(t)}) > m
<1>1. IsFiniteSet(Pages)
  BY FS_Interval, TreeAssumption DEF Pages
<1>2. FreeIn(t) \subseteq Pages /\ IsFiniteSet(FreeIn(t))
  <2>1. FreeIn(t) \in SUBSET Pages
    BY DEF FreeIn
  <2> QED BY <2>1, <1>1, FS_Subset
<1>3. Cardinality(FreeIn(t)) \in Nat
  BY <1>2, FS_CardinalityType
<1>4. FreeIn(t) # {}
  BY <1>3, FS_EmptySet
<1>5. \E p \in FreeIn(t) : \A q \in FreeIn(t) : p <= q
  <2>1. SUFFICES ASSUME \A p \in FreeIn(t) : \E q \in FreeIn(t) : ~(p <= q) PROVE FALSE
    OBVIOUS
  <2>2. \A p \in FreeIn(t) : p \in Int /\ p >= 1
    BY <1>2 DEF Pages
  <2> DEFINE S == {d \in Nat : \A p \in FreeIn(t) : p > d}
  <2>3. 0 \in S
    BY <2>2
  <2>4. ASSUME NEW d \in Nat, d \in S PROVE d + 1 \in S
    <3>1. ASSUME NEW p \in FreeIn(t) PROVE p > d + 1
      <4>1. PICK q \in FreeIn(t) : ~(p <= q)
        BY <2>1
      <4>2. q > d /\ p \in Int /\ q \in Int
        BY <2>2, <2>4
      <4> QED BY <4>1, <4>2
    <3> QED BY <3>1
  <2> HIDE DEF S
  <2>5. \A d \in Nat : d \in S
    BY <2>3, <2>4, SetInduction
  <2>6. PICK p \in FreeIn(t) : TRUE
    BY <1>4
  <2>7. p \in Nat
    BY <2>2
  <2>8. p > p
    BY <2>5, <2>6, <2>7 DEF S
  <2> QED BY <2>7, <2>8
<1>6. FreshIn(t) \in FreeIn(t)
  BY <1>5 DEF FreshIn
<1>7. Cardinality(FreeIn(t) \ {FreshIn(t)}) = Cardinality(FreeIn(t)) - 1
  BY <1>2, <1>6, FS_RemoveElement
<1>8. ASSUME NEW m \in Nat, n = m + 1 PROVE Cardinality(FreeIn(t) \ {FreshIn(t)}) > m
  <2>1. PICK c \in Nat : c = Cardinality(FreeIn(t))
    BY <1>3
  <2>2. c > m + 1
    BY <2>1, <1>8
  <2> QED BY ONLY <2>1, <2>2, <1>7, m \in Nat
<1> QED BY <1>2, <1>6, <1>8

\* The state's own names for these.
LEMMA FreshOfState == Free = FreeIn(node) /\ Fresh = FreshIn(node) /\ Leaves = LeavesIn(node) /\ Internals = InternalsIn(node)
BY DEF Free, FreeIn, Fresh, FreshIn, Leaves, LeavesIn, Internals, InternalsIn

-----------------------------------------------------------------------------
(* The invariant: which tables an operation may leave or find              *)

\* There is no tree.
Empty(t, rt) == rt = NoPage /\ t = [p \in Pages |-> Unused]

\* The tree is in order.
WholeBy(t, rt, lo, hi, ht) == Core(t, rt, NoPage, lo, hi, hi, ht) /\ Filled(t, rt, NoPage)

Whole(t, rt) == \E lo, hi, ht : WholeBy(t, rt, lo, hi, ht)

\* Insert has split left: child is pending, path leads to the level above both,
\* and there are pages for the splits to come.
GrowingBy(t, rt, path, left, key, child, lo, hi, ht) ==
    /\ Loose(t, rt, lo, hi, Tops(hi, left, child), ht, left, key, child)
    /\ Filled(t, rt, NoPage) /\ Enough(t[left])
    /\ Cardinality(FreeIn(t)) > Len(path)
    /\ \E k \in Keys : /\ Route(t, rt, lo, hi, ht, path, k, ht[left])
                       /\ lo[left] <= k /\ k < hi[child]

Growing(t, rt, path, left, key, child) ==
    \E lo, hi, ht : GrowingBy(t, rt, path, left, key, child, lo, hi, ht)

\* Remove has taken a child from page: path leads there, and old, a key that
\* page has or had, is in none of the pages above.
ShrinkingBy(t, rt, path, page, key, old, lo, hi, ht) ==
    /\ Core(t, rt, NoPage, lo, hi, hi, ht) /\ Filled(t, rt, page)
    /\ page \in InternalsIn(t) /\ key \in Keys /\ lo[page] <= key /\ key < hi[page]
    /\ Route(t, rt, lo, hi, ht, path, key, ht[page])
    /\ old \in Keys /\ \A i \in 1..Len(path) : ~KeyOf(t, path[i], old)

Shrinking(t, rt, path, page, key, old) ==
    \E lo, hi, ht : ShrinkingBy(t, rt, path, page, key, old, lo, hi, ht)

TreeInv ==
    \/ fix = Quiet /\ (Empty(node, root) \/ Whole(node, root))
    \/ \E path, left, key, child :
          fix = Grow(path, left, key, child) /\ Growing(node, root, path, left, key, child)
    \/ \E path, page, key, update, old, new :
          /\ fix = Shrink(path, page, key, update, old, new)
          /\ Shrinking(node, root, path, page, key, old)

-----------------------------------------------------------------------------
(* The first leaf, a new root, and the end of a root                       *)

\* The first insertion into an empty tree (StartNewTree): one leaf with one entry.
LEMMA TreeOfOneLeaf ==
  ASSUME NEW q \in Pages, NEW k \in Keys, NEW r \in Rids,
         NEW t2, t2 = [[p \in Pages |-> Unused] EXCEPT ![q] = Leaf(<<Entry(k, r)>>, NoPage)]
  PROVE  Whole(t2, q) /\ Gains({}, Stored(t2), Entry(k, r))
<1>1. PICK e : e = <<Entry(k, r)>>
  OBVIOUS
<1>2. e \in Seq(Entries) /\ Len(e) = 1 /\ e[1].key = k
  BY <1>1 DEF Entry, Entries
<1>3. /\ Leaf(e, NoPage) \in Nodes /\ Leaf(e, NoPage).kind = "leaf"
      /\ Leaf(e, NoPage).entries = e /\ Leaf(e, NoPage).next = NoPage
  BY <1>2, MakeLeaf
<1>4. PICK n : n = Leaf(e, NoPage)
  OBVIOUS
<1>5. t2 \in [Pages -> Nodes] /\ t2[q] = n /\ \A x \in Pages : x # q => t2[x] = Unused
  <2>1. Unused \in Nodes
    BY DEF Nodes
  <2> QED BY <2>1, <1>1, <1>3, <1>4
<1>6. LeavesIn(t2) = {q} /\ InternalsIn(t2) = {} /\ NodesIn(t2) = {q}
  BY <1>3, <1>4, <1>5 DEF LeavesIn, InternalsIn, NodesIn, Unused
<1>7. PICK lo, hi, ht : lo = [p \in Pages |-> Low] /\ hi = [p \in Pages |-> High] /\ ht = [p \in Pages |-> 0]
  OBVIOUS
<1>8. Low \in Int /\ High \in Int /\ Low < High /\ k \in Int /\ Low <= k /\ k < High
  BY KeysWithin
<1>9. /\ lo \in [Pages -> Int] /\ hi \in [Pages -> Int] /\ ht \in [Pages -> Nat]
      /\ lo[q] = Low /\ hi[q] = High /\ ht[q] = 0
  BY <1>7, <1>8
<1>10. t2[q].entries = e /\ t2[q].next = NoPage
  BY <1>3, <1>4, <1>5
<1>11. SortedLeaf(t2, lo, hi, q)
  <2>1. ASSUME NEW i \in 1..Len(t2[q].entries)
        PROVE  /\ lo[q] <= t2[q].entries[i].key /\ t2[q].entries[i].key < hi[q]
               /\ \A j \in 1..Len(t2[q].entries) : i < j => t2[q].entries[i].key < t2[q].entries[j].key
    <3>1. Len(t2[q].entries) = 1
      BY ONLY <1>2, <1>10
    <3>2. i = 1 /\ \A j \in 1..Len(t2[q].entries) : j = 1
      BY ONLY <3>1, i \in 1..Len(t2[q].entries)
    <3>3. t2[q].entries[i].key = k
      BY ONLY <3>2, <1>2, <1>10
    <3>4. \A j \in 1..Len(t2[q].entries) : ~(i < j)
      BY ONLY <3>2
    <3> QED BY ONLY <3>3, <3>4, <1>8, <1>9
  <2> QED BY ONLY <2>1 DEF SortedLeaf
<1>12. Sorted(t2, lo, hi, ht)
  BY <1>6, <1>8, <1>9, <1>11 DEF Sorted
<1>13. Linked(t2, lo, hi, hi, ht) /\ Nested(t2, lo, hi, ht) /\ Apart(t2, lo, hi, ht)
  BY <1>6 DEF Linked, Nested, Apart
<1>14. Rooted(t2, q, NoPage, lo, hi, ht)
  <2>1. q \in NodesIn(t2) /\ lo[q] = Low /\ hi[q] = High
    BY ONLY <1>6, <1>9
  <2>2. ASSUME NEW p \in NodesIn(t2)
        PROVE ht[p] <= ht[q] /\ p = q
    <3>1. p = q
      BY ONLY <1>6, p \in NodesIn(t2)
    <3>2. 0 <= 0
      OBVIOUS
    <3> QED BY ONLY <3>1, <3>2, <1>9
  <2>3. \A x \in InternalsIn(t2) : ~KidOf(t2, x, NoPage)
    BY ONLY <1>6
  <2> QED BY ONLY <2>1, <2>2, <2>3 DEF Rooted
<1>15. Chain(t2, lo, hi)
  BY <1>6, <1>9, <1>10 DEF Chain
<1>16. Core(t2, q, NoPage, lo, hi, hi, ht)
  BY ONLY <1>5, <1>9, <1>12, <1>13, <1>14, <1>15 DEF Core, Ghosts
<1>17. Filled(t2, q, NoPage)
  <2>1. \A p \in LeavesIn(t2) : Len(t2[p].entries) > 0
    <3>1. \A p \in LeavesIn(t2) : t2[p].entries = e
      BY ONLY <1>6, <1>10
    <3> QED BY ONLY <3>1, <1>2
  <2> QED BY ONLY <2>1, <1>6 DEF Filled
<1>18. Whole(t2, q)
  BY ONLY <1>16, <1>17 DEF Whole, WholeBy
<1>19. ASSUME NEW x PROVE x \in Stored(t2) <=> x = Entry(k, r)
  <2>1. x \in ToSet(e) <=> \E i \in 1..1 : e[i] = x
    BY ONLY <1>2, ElementsOf
  <2>2. x \in ToSet(e) <=> x = Entry(k, r)
    BY ONLY <2>1, <1>1
  <2>3. Stored(t2) = Within(t2, {q})
    BY ONLY <1>6 DEF Stored
  <2>4. Stored(t2) = ToSet(e)
    BY ONLY <2>3, <1>10, WithinLeaves, Zenon
  <2> QED BY ONLY <2>2, <2>4
<1>20. Gains({}, Stored(t2), Entry(k, r))
  BY ONLY <1>19 DEF Gains
<1> QED BY ONLY <1>18, <1>20

\* A root that was split gets a new root above its two halves.
RootOver(t, q, rt, key, r) == [t EXCEPT ![q] = Internal(<<key>>, <<rt, r>>)]

\* A root that was split and its other half go under a new root: the tree is whole again.
LEMMA NewRoot ==
  ASSUME NEW t, NEW rt, NEW lo, NEW hi, NEW ht, NEW key, NEW r,
         Loose(t, rt, lo, hi, Tops(hi, rt, r), ht, rt, key, r),
         Filled(t, rt, NoPage), Enough(t[rt]), NEW q \in FreeIn(t),
         NEW t2, t2 = RootOver(t, q, rt, key, r)
  PROVE  Whole(t2, q)
<1>1. PICK top : top = Tops(hi, rt, r)
  OBVIOUS
<1>2. Core(t, rt, r, lo, hi, top, ht) /\ Pending(t, lo, hi, ht, rt, key, r)
  BY <1>1 DEF Loose
<1>3. /\ t \in [Pages -> Nodes] /\ Ghosts(lo, hi, ht) /\ top \in [Pages -> Int]
      /\ Sorted(t, lo, hi, ht) /\ Linked(t, lo, hi, top, ht)
      /\ Rooted(t, rt, r, lo, top, ht)
      /\ Apart(t, lo, hi, ht) /\ Nested(t, lo, hi, ht) /\ Chain(t, lo, hi)
  BY <1>2 DEF Core
<1>4. /\ NodesIn(t) \subseteq Pages /\ InternalsIn(t) \subseteq NodesIn(t)
      /\ LeavesIn(t) \subseteq NodesIn(t)
      /\ \A p \in Pages : lo[p] \in Int /\ hi[p] \in Int /\ top[p] \in Int /\ ht[p] \in Nat
      /\ \A p \in NodesIn(t) : p \in LeavesIn(t) \/ p \in InternalsIn(t)
  BY <1>2, CoreTypes
<1>5. /\ rt \in NodesIn(t) /\ r \in NodesIn(t) /\ rt # r /\ ht[rt] = ht[r]
      /\ key \in Keys /\ hi[rt] = key /\ lo[r] = key
  BY <1>2 DEF Pending
<1>6. \A p \in NodesIn(t) : ht[p] <= ht[rt] /\ Clear(key, lo, hi, p)
  <2>1. \A p \in NodesIn(t) : ht[p] <= ht[rt]
    BY <1>3 DEF Rooted
  <2> QED BY <2>1, <1>2 DEF Pending
<1>7. /\ rt \in Pages /\ r \in Pages /\ lo[rt] = Low /\ top[rt] = High /\ hi[r] = High
      /\ \A x \in Pages : x # rt => top[x] = hi[x]
  <2>1. rt \in Pages /\ r \in Pages /\ lo[rt] = Low /\ top[rt] = High
    BY <1>3, <1>4, <1>5 DEF Rooted
  <2>2. hi \in [Pages -> Int]
    BY <1>3 DEF Ghosts
  <2>3. top[rt] = hi[r] /\ \A x \in Pages : x # rt => top[x] = hi[x]
    BY <1>1, <2>1, <2>2 DEF Tops
  <2> QED BY <2>1, <2>3
<1>8. q \in Pages /\ q \notin NodesIn(t)
  BY <1>3, PageKinds DEF FreeIn
<1>9. PICK n : n = Internal(<<key>>, <<rt, r>>)
  OBVIOUS
<1>10. /\ n \in Nodes /\ n.kind = "internal" /\ Len(n.keys) = 1 /\ Len(n.kids) = 2
       /\ n.keys[1] = key /\ n.kids[1] = rt /\ n.kids[2] = r
  <2>1. <<key>> \in Seq(Keys) /\ <<rt, r>> \in Seq(Pages) /\ Len(<<rt, r>>) = Len(<<key>>) + 1
    BY <1>5, <1>7
  <2>2. n \in Nodes /\ n.kind = "internal" /\ n.keys = <<key>> /\ n.kids = <<rt, r>>
    BY <2>1, <1>9, MakeInternal
  <2> QED BY <2>2
<1>11. /\ t2 \in [Pages -> Nodes] /\ t2[q] = n /\ \A x \in Pages : x # q => t2[x] = t[x]
  BY <1>3, <1>8, <1>9, <1>10 DEF RootOver
<1>12. /\ LeavesIn(t2) = LeavesIn(t) /\ InternalsIn(t2) = InternalsIn(t) \cup {q}
       /\ NodesIn(t2) = NodesIn(t) \cup {q}
  BY <1>8, <1>10, <1>11 DEF LeavesIn, InternalsIn, NodesIn
<1>13. PICK lo2, hi2, ht2 : /\ lo2 = [lo EXCEPT ![q] = Low] /\ hi2 = [hi EXCEPT ![q] = High]
                            /\ ht2 = [ht EXCEPT ![q] = ht[rt] + 1]
  OBVIOUS
<1>14. /\ lo2 \in [Pages -> Int] /\ hi2 \in [Pages -> Int] /\ ht2 \in [Pages -> Nat]
       /\ lo2[q] = Low /\ hi2[q] = High /\ ht2[q] = ht[rt] + 1
       /\ \A x \in Pages : x # q => lo2[x] = lo[x] /\ hi2[x] = hi[x] /\ ht2[x] = ht[x]
  <2>1. lo \in [Pages -> Int] /\ hi \in [Pages -> Int] /\ ht \in [Pages -> Nat]
    BY <1>3 DEF Ghosts
  <2>2. Low \in Int /\ High \in Int /\ ht[rt] + 1 \in Nat
    BY <2>1, <1>7, KeysWithin
  <2> QED BY <2>1, <2>2, <1>8, <1>13
<1>15. Low < key /\ key < High /\ Low < High /\ key \in Int
  <2>1. lo[rt] < hi[rt] /\ lo[r] < hi[r]
    BY <1>3, <1>5 DEF Sorted
  <2>2. key \in Int
    BY <1>5, TreeAssumption
  <2> QED BY <2>1, <2>2, <1>5, <1>7, KeysWithin
<1>16. \A x \in NodesIn(t) : x \in Pages /\ x # q /\ t2[x] = t[x] /\ lo2[x] = lo[x] /\ hi2[x] = hi[x] /\ ht2[x] = ht[x]
  BY <1>4, <1>8, <1>11, <1>14
<1>17. Sorted(t2, lo2, hi2, ht2)
  <2>1. ASSUME NEW p \in NodesIn(t2) PROVE lo2[p] < hi2[p]
    <3>1. CASE p = q
      BY ONLY <3>1, <1>14, <1>15
    <3>2. CASE p # q
      BY <3>2, <2>1, <1>12, <1>16, <1>3 DEF Sorted
    <3> QED BY <3>1, <3>2
  <2>2. ASSUME NEW p \in LeavesIn(t2) PROVE ht2[p] = 0 /\ SortedLeaf(t2, lo2, hi2, p)
    <3>1. p \in LeavesIn(t) /\ p \in NodesIn(t)
      BY <1>4, <1>12, <2>2
    <3>2. ht[p] = 0 /\ SortedLeaf(t, lo, hi, p)
      BY <3>1, <1>3 DEF Sorted
    <3> QED BY <3>1, <3>2, <1>16, SameLeaf
  <2>3. ASSUME NEW p \in InternalsIn(t2) PROVE SortedInternal(t2, lo2, hi2, p)
    <3>1. CASE p = q
      <4>1. \A i \in 1..1 : i = 1
        OBVIOUS
      <4>2. ~(1 < 1)
        OBVIOUS
      <4>3. \A i \in 1..Len(n.keys) : Low < n.keys[i] /\ n.keys[i] < High /\ \A j \in 1..Len(n.keys) : i < j => n.keys[i] < n.keys[j]
        BY ONLY <4>1, <4>2, <1>10, <1>15
      <4> QED BY ONLY <4>3, <3>1, <1>11, <1>14 DEF SortedInternal
    <3>2. CASE p # q
      <4>1. p \in InternalsIn(t) /\ p \in NodesIn(t)
        BY <3>2, <1>4, <1>12, <2>3
      <4>2. SortedInternal(t, lo, hi, p)
        BY <4>1, <1>3 DEF Sorted
      <4> QED BY <4>1, <4>2, <1>16, SameInternal
    <3> QED BY <3>1, <3>2
  <2> QED BY ONLY <2>1, <2>2, <2>3 DEF Sorted
<1>18. Linked(t2, lo2, hi2, hi2, ht2)
  <2>1. ASSUME NEW p \in InternalsIn(t2) PROVE LinkedAt(t2, lo2, hi2, hi2, ht2, p)
    <3>1. CASE p = q
      <4>1. ASSUME NEW i \in 1..Len(n.kids)
            PROVE  /\ n.kids[i] \in NodesIn(t2) /\ ht2[q] = ht2[n.kids[i]] + 1
                   /\ lo2[n.kids[i]] = IF i = 1 THEN lo2[q] ELSE n.keys[i - 1]
                   /\ hi2[n.kids[i]] = IF i = Len(n.kids) THEN hi2[q] ELSE n.keys[i]
        <5>1. i = 1 \/ i = 2
          BY <1>10
        <5>2. CASE i = 1
          BY <5>2, <1>5, <1>7, <1>10, <1>12, <1>14, <1>16
        <5>3. CASE i = 2
          BY <5>3, <1>5, <1>7, <1>10, <1>12, <1>14, <1>16
        <5> QED BY <5>1, <5>2, <5>3
      <4> QED BY ONLY <4>1, <3>1, <1>11 DEF LinkedAt, LowerOf, UpperOf
    <3>2. CASE p # q
      <4>1. p \in InternalsIn(t) /\ p \in NodesIn(t)
        BY <3>2, <1>4, <1>12, <2>1
      <4>2. ASSUME NEW i \in 1..Len(t[p].kids)
            PROVE  /\ t[p].kids[i] \in NodesIn(t2) /\ ht2[t[p].kids[i]] = ht[t[p].kids[i]]
                   /\ lo2[t[p].kids[i]] = lo[t[p].kids[i]] /\ hi2[t[p].kids[i]] = top[t[p].kids[i]]
        <5>1. PICK c : c = t[p].kids[i]
          OBVIOUS
        <5>2. c \in NodesIn(t) /\ ht[p] = ht[c] + 1
          BY <5>1, <4>1, <4>2, <1>2, KidFacts
        <5>3. c # rt
          BY <5>2, <4>1, <1>4, <1>6
        <5> QED BY <5>1, <5>2, <5>3, <1>7, <1>12, <1>16
      <4>3. LinkedAt(t, lo, hi, top, ht, p)
        BY <4>1, <1>3 DEF Linked
      <4>4. t2[p] = t[p] /\ lo2[p] = lo[p] /\ hi2[p] = hi[p] /\ ht2[p] = ht[p]
        BY ONLY <4>1, <1>16
      <4> QED BY ONLY <4>2, <4>3, <4>4, SameLinks
    <3> QED BY <3>1, <3>2
  <2> QED BY <2>1 DEF Linked
<1>19. Rooted(t2, q, NoPage, lo2, hi2, ht2)
  <2>1. q \in NodesIn(t2) /\ lo2[q] = Low /\ hi2[q] = High
    BY <1>12, <1>14
  <2>2. ASSUME NEW p \in NodesIn(t2) PROVE ht2[p] <= ht2[q]
    <3>1. CASE p = q
      BY <3>1, <1>8, <1>14
    <3>2. CASE p # q
      <4>1. ht2[p] = ht[p] /\ ht[p] <= ht[rt] /\ ht[p] \in Nat /\ ht[rt] \in Nat
        BY <3>2, <2>2, <1>4, <1>6, <1>7, <1>12, <1>16
      <4> QED BY ONLY <4>1, <1>14
    <3> QED BY <3>1, <3>2
  <2>3. ASSUME NEW p \in NodesIn(t2), p # q PROVE \E y \in InternalsIn(t2) : KidOf(t2, y, p)
    <3>1. CASE p = rt \/ p = r
      <4>1. q \in InternalsIn(t2)
        BY <1>12
      <4>2. 1 \in 1..Len(t2[q].kids) /\ 2 \in 1..Len(t2[q].kids)
        BY <1>10, <1>11
      <4>3. t2[q].kids[1] = rt /\ t2[q].kids[2] = r
        BY <1>10, <1>11
      <4>4. KidOf(t2, q, p)
        BY ONLY <3>1, <4>2, <4>3 DEF KidOf
      <4> QED BY <4>1, <4>4
    <3>2. CASE p # rt /\ p # r
      <4>1. PICK y \in InternalsIn(t) : KidOf(t, y, p)
        BY <3>2, <2>3, <1>3, <1>12 DEF Rooted
      <4>2. KidOf(t2, y, p) /\ y \in InternalsIn(t2)
        BY <4>1, <1>4, <1>12, <1>16 DEF KidOf
      <4> QED BY <4>2
    <3> QED BY <3>1, <3>2
  <2>4. ASSUME NEW y \in InternalsIn(t2) PROVE ~KidOf(t2, y, NoPage)
    <3>1. t2[y].kids \in Seq(Pages)
      BY <2>4, <1>11, InternalNode
    <3>2. \A i \in 1..Len(t2[y].kids) : t2[y].kids[i] \in Pages
      BY ONLY <3>1
    <3> QED BY ONLY <3>2, TreeAssumption DEF KidOf
  <2> QED BY ONLY <2>1, <2>2, <2>3, <2>4 DEF Rooted
<1>20. \A p \in NodesIn(t) : ht2[p] < ht2[q]
  <2>1. ASSUME NEW p \in NodesIn(t) PROVE ht2[p] < ht2[q]
    <3>1. ht2[p] = ht[p] /\ ht[p] <= ht[rt] /\ ht[p] \in Nat /\ ht[rt] \in Nat
      BY <1>4, <1>6, <1>7, <1>16
    <3> QED BY ONLY <3>1, <1>14
  <2> QED BY <2>1
<1>21. Apart(t2, lo2, hi2, ht2)
  <2>1. ASSUME NEW x \in NodesIn(t2), NEW y \in NodesIn(t2), x # y, ht2[x] = ht2[y]
        PROVE  hi2[x] <= lo2[y] \/ hi2[y] <= lo2[x]
    <3>0. ht2[q] \in Nat
      BY <1>14, <1>8
    <3>1. x \in NodesIn(t) /\ y \in NodesIn(t)
      BY <3>0, <2>1, <1>12, <1>20
    <3>2. ht[x] = ht[y]
      BY <3>1, <2>1, <1>16
    <3> QED BY <3>1, <3>2, <2>1, <1>3, <1>16 DEF Apart
  <2> QED BY <2>1 DEF Apart
<1>22. Nested(t2, lo2, hi2, ht2)
  <2>1. ASSUME NEW y \in InternalsIn(t2), NEW x \in NodesIn(t2), ht2[x] < ht2[y],
               NEW j \in 1..Len(t2[y].keys)
        PROVE  Clear(t2[y].keys[j], lo2, hi2, x)
    <3>0. \A z \in NodesIn(t2) : ht2[z] <= ht2[q] /\ ht2[z] \in Nat /\ ht2[q] \in Nat
      BY <1>19, <1>12, <1>14, <1>8, <1>16 DEF Rooted
    <3>1. x # q /\ x \in NodesIn(t)
      <4>1. y \in NodesIn(t2)
        BY <1>4, <1>12
      <4>2. x # q
        BY <4>1, <3>0, <2>1
      <4> QED BY <4>2, <1>12
    <3>2. lo2[x] = lo[x] /\ hi2[x] = hi[x] /\ ht2[x] = ht[x]
      BY <3>1, <1>16
    <3>3. CASE y = q
      <4>1. j = 1 /\ t2[y].keys[j] = key
        <5>1. t2[y].keys = n.keys /\ Len(n.keys) = 1
          BY ONLY <3>3, <1>10, <1>11
        <5>2. j \in 1..1
          BY ONLY <5>1, j \in 1..Len(t2[y].keys)
        <5> QED BY ONLY <5>1, <5>2, <1>10
      <4> QED BY <4>1, <3>1, <3>2, <1>6 DEF Clear
    <3>4. CASE y # q
      <4>1. y \in InternalsIn(t) /\ t2[y] = t[y] /\ ht2[y] = ht[y]
        BY <3>4, <1>4, <1>12, <1>16
      <4>2. Clear(t[y].keys[j], lo, hi, x)
        BY <4>1, <3>1, <3>2, <2>1, <1>3 DEF Nested, NestedAt
      <4> QED BY <4>1, <4>2, <3>2 DEF Clear
    <3> QED BY <3>3, <3>4
  <2> QED BY <2>1 DEF Nested, NestedAt
<1>23. Chain(t2, lo2, hi2)
  <2>1. ASSUME NEW p \in LeavesIn(t2)
        PROVE  IF t2[p].next = NoPage THEN hi2[p] = High
               ELSE t2[p].next \in LeavesIn(t2) /\ lo2[t2[p].next] = hi2[p]
    <3>1. p \in LeavesIn(t) /\ t2[p] = t[p] /\ hi2[p] = hi[p]
      BY <2>1, <1>4, <1>12, <1>16
    <3>2. IF t[p].next = NoPage THEN hi[p] = High ELSE t[p].next \in LeavesIn(t) /\ lo[t[p].next] = hi[p]
      BY <3>1, <1>3 DEF Chain
    <3> QED BY <3>1, <3>2, <1>4, <1>12, <1>16
  <2> QED BY <2>1 DEF Chain
<1>24. Core(t2, q, NoPage, lo2, hi2, hi2, ht2)
  BY ONLY <1>11, <1>14, <1>17, <1>18, <1>19, <1>21, <1>22, <1>23 DEF Core, Ghosts
<1>25. Filled(t2, q, NoPage)
  <2>1. ASSUME NEW p \in LeavesIn(t2) PROVE Len(t2[p].entries) > 0
    BY <2>1, <1>4, <1>12, <1>16 DEF Filled
  <2>2. ASSUME NEW p \in InternalsIn(t2)
        PROVE  Len(t2[p].kids) >= IF p = q THEN (IF p = NoPage THEN 1 ELSE 2)
                                  ELSE IF p = NoPage THEN Least(InternalMax) - 1 ELSE Least(InternalMax)
    <3>0. p # NoPage
      BY <2>2, TreeAssumption DEF InternalsIn
    <3>1. CASE p = q
      <4>1. Len(t2[p].kids) = 2 /\ 2 >= 2
        BY <3>1, <1>10, <1>11
      <4> QED BY <4>1, <3>0, <3>1
    <3>2. CASE p # q
      <4>1. p \in InternalsIn(t) /\ t2[p] = t[p] /\ t[p].kind = "internal"
        BY <3>2, <2>2, <1>4, <1>12, <1>16 DEF InternalsIn
      <4>2. Len(t[p].kids) >= Least(InternalMax)
        <5>1. CASE p = rt
          BY <5>1, <4>1 DEF Enough
        <5>2. CASE p # rt
          BY <5>2, <3>0, <4>1 DEF Filled
        <5> QED BY <5>1, <5>2
      <4> QED BY <4>1, <4>2, <3>0, <3>2
    <3> QED BY <3>1, <3>2
  <2> QED BY ONLY <2>1, <2>2 DEF Filled
<1> QED BY ONLY <1>24, <1>25 DEF Whole, WholeBy

\* A root with a single child gives way to it.
RootDropped(t, rt) == [t EXCEPT ![rt] = Unused]

\* A root with one child is given up: the tree below its child is whole.
LEMMA DropRoot ==
  ASSUME NEW t, NEW rt, NEW lo, NEW hi, NEW ht, Core(t, rt, NoPage, lo, hi, hi, ht),
         Filled(t, rt, rt), rt \in InternalsIn(t), Len(t[rt].kids) = 1,
         NEW c, c = t[rt].kids[1], NEW t2, t2 = RootDropped(t, rt)
  PROVE  Whole(t2, c)
<1>1. /\ t \in [Pages -> Nodes] /\ Ghosts(lo, hi, ht) /\ hi \in [Pages -> Int]
      /\ Sorted(t, lo, hi, ht) /\ Linked(t, lo, hi, hi, ht)
      /\ Rooted(t, rt, NoPage, lo, hi, ht)
      /\ Apart(t, lo, hi, ht) /\ Nested(t, lo, hi, ht) /\ Chain(t, lo, hi)
  BY DEF Core
<1>2. /\ NodesIn(t) \subseteq Pages /\ InternalsIn(t) \subseteq NodesIn(t)
      /\ LeavesIn(t) \subseteq NodesIn(t) /\ rt \in NodesIn(t)
      /\ \A p \in Pages : lo[p] \in Int /\ hi[p] \in Int /\ ht[p] \in Nat
      /\ \A p \in LeavesIn(t) : p \notin InternalsIn(t)
  BY CoreTypes
<1>3. /\ c \in NodesIn(t) /\ c \in Pages /\ ht[rt] = ht[c] + 1 /\ c # rt
      /\ lo[c] = LowerOf(t, lo, rt, 1) /\ hi[c] = UpperOf(t, hi, rt, 1)
  <2>1. 1 \in 1..Len(t[rt].kids)
    OBVIOUS
  <2> QED BY <2>1, KidFacts
<1>4. lo[c] = Low /\ hi[c] = High
  <2>1. lo[rt] = Low /\ hi[rt] = High
    BY <1>1 DEF Rooted
  <2> QED BY <2>1, <1>3 DEF LowerOf, UpperOf
<1>5. t2 \in [Pages -> Nodes] /\ t2[rt] = Unused /\ \A x \in Pages : x # rt => t2[x] = t[x]
  <2>1. Unused \in Nodes /\ rt \in Pages
    BY <1>2 DEF Nodes
  <2> QED BY <2>1, <1>1 DEF RootDropped
<1>6. /\ LeavesIn(t2) = LeavesIn(t) /\ InternalsIn(t2) = InternalsIn(t) \ {rt}
      /\ NodesIn(t2) = NodesIn(t) \ {rt}
  <2>1. Unused.kind # "leaf" /\ Unused.kind # "internal" /\ rt \in Pages
    BY <1>2 DEF Unused
  <2>2. LeavesIn(t2) = LeavesIn(t)
    <3>1. rt \notin LeavesIn(t)
      BY <1>2
    <3> QED BY <3>1, <2>1, <1>5 DEF LeavesIn
  <2>3. InternalsIn(t2) = InternalsIn(t) \ {rt}
    BY <2>1, <1>5 DEF InternalsIn
  <2>4. rt \notin LeavesIn(t)
    BY <1>2
  <2> QED BY ONLY <2>2, <2>3, <2>4 DEF NodesIn
<1>7. \A x \in NodesIn(t2) : x \in NodesIn(t) /\ x # rt /\ x \in Pages /\ t2[x] = t[x]
  BY <1>2, <1>5, <1>6
<1>8. Sorted(t2, lo, hi, ht)
  <2>1. ASSUME NEW p \in NodesIn(t2) PROVE lo[p] < hi[p]
    BY <1>1, <1>7 DEF Sorted
  <2>2. ASSUME NEW p \in LeavesIn(t2) PROVE ht[p] = 0 /\ SortedLeaf(t2, lo, hi, p)
    <3>1. p \in LeavesIn(t) /\ t2[p] = t[p]
      BY <1>6, <1>7 DEF NodesIn
    <3>2. ht[p] = 0 /\ SortedLeaf(t, lo, hi, p)
      BY <3>1, <1>1 DEF Sorted
    <3> QED BY <3>1, <3>2, SameLeaf
  <2>3. ASSUME NEW p \in InternalsIn(t2) PROVE SortedInternal(t2, lo, hi, p)
    <3>1. p \in InternalsIn(t) /\ t2[p] = t[p]
      BY <1>6, <1>7 DEF NodesIn
    <3>2. SortedInternal(t, lo, hi, p)
      BY <3>1, <1>1 DEF Sorted
    <3> QED BY <3>1, <3>2, SameInternal
  <2> QED BY ONLY <2>1, <2>2, <2>3 DEF Sorted
<1>9. \A p \in NodesIn(t) : ht[p] <= ht[rt]
  BY <1>1 DEF Rooted
<1>10. Linked(t2, lo, hi, hi, ht)
  <2>1. ASSUME NEW p \in InternalsIn(t2) PROVE LinkedAt(t2, lo, hi, hi, ht, p)
    <3>1. p \in InternalsIn(t) /\ p \in NodesIn(t) /\ t2[p] = t[p]
      BY <1>2, <1>6, <1>7 DEF NodesIn
    <3>2. ASSUME NEW i \in 1..Len(t[p].kids) PROVE t[p].kids[i] \in NodesIn(t2)
      <4>1. PICK x : x = t[p].kids[i]
        OBVIOUS
      <4>2. x \in NodesIn(t) /\ ht[p] = ht[x] + 1
        BY <4>1, <3>1, <3>2, KidFacts
      <4>3. ht[p] <= ht[rt] /\ ht[x] \in Nat /\ ht[rt] \in Nat
        BY <4>2, <3>1, <1>2, <1>9
      <4>4. x # rt
        BY ONLY <4>2, <4>3
      <4> QED BY <4>1, <4>2, <4>4, <1>6
    <3>3. LinkedAt(t, lo, hi, hi, ht, p)
      BY <3>1, <1>1 DEF Linked
    <3> QED BY ONLY <3>1, <3>2, <3>3, SameLinks
  <2> QED BY <2>1 DEF Linked
<1>11. \A p \in NodesIn(t) : p # rt => \E q \in InternalsIn(t) : KidOf(t, q, p)
  <2>1. \A p \in NodesIn(t) : p # NoPage
    BY <1>2, TreeAssumption
  <2> QED BY <2>1, <1>1 DEF Rooted
<1>12. Rooted(t2, c, NoPage, lo, hi, ht)
  <2>1. c \in NodesIn(t2)
    BY <1>3, <1>6
  <2>2. ASSUME NEW p \in NodesIn(t2) PROVE ht[p] <= ht[c]
    <3>1. PICK q \in InternalsIn(t) : KidOf(t, q, p)
      BY <1>7, <1>11
    <3>2. PICK i \in 1..Len(t[q].kids) : t[q].kids[i] = p
      BY <3>1 DEF KidOf
    <3>3. ht[q] = ht[p] + 1
      BY <3>2, KidFacts
    <3>4. ht[q] <= ht[rt] /\ ht[p] \in Nat /\ ht[c] \in Nat
      BY <1>2, <1>3, <1>7, <1>9
    <3> QED BY ONLY <3>3, <3>4, <1>3
  <2>3. ASSUME NEW p \in NodesIn(t2), p # c PROVE \E q \in InternalsIn(t2) : KidOf(t2, q, p)
    <3>1. PICK q \in InternalsIn(t) : KidOf(t, q, p)
      BY <1>7, <1>11
    <3>2. PICK i \in 1..Len(t[q].kids) : t[q].kids[i] = p
      BY <3>1 DEF KidOf
    <3>3. q # rt
      <4>1. SUFFICES ASSUME q = rt PROVE FALSE
        OBVIOUS
      <4>2. i = 1
        BY <4>1, <3>2
      <4> QED BY <4>1, <4>2, <3>2, <2>3
    <3>4. q \in InternalsIn(t2) /\ t2[q] = t[q]
      BY <3>3, <1>6, <1>7 DEF NodesIn
    <3> QED BY <3>1, <3>4 DEF KidOf
  <2>4. ASSUME NEW q \in InternalsIn(t2) PROVE ~KidOf(t2, q, NoPage)
    <3>1. q \in InternalsIn(t) /\ t2[q] = t[q]
      BY <1>6, <1>7 DEF NodesIn
    <3>2. ~KidOf(t, q, NoPage)
      BY <3>1, <1>1 DEF Rooted
    <3> QED BY <3>1, <3>2 DEF KidOf
  <2> QED BY ONLY <2>1, <2>2, <2>3, <2>4, <1>4 DEF Rooted
<1>13. Apart(t2, lo, hi, ht)
  BY ONLY <1>1, <1>6 DEF Apart
<1>14. Nested(t2, lo, hi, ht)
  <2>1. ASSUME NEW y \in InternalsIn(t2), NEW x \in NodesIn(t2), ht[x] < ht[y],
               NEW j \in 1..Len(t2[y].keys)
        PROVE  Clear(t2[y].keys[j], lo, hi, x)
    <3>1. y \in InternalsIn(t) /\ t2[y] = t[y] /\ x \in NodesIn(t)
      BY <1>6, <1>7 DEF NodesIn
    <3> QED BY <3>1, <2>1, <1>1 DEF Nested, NestedAt
  <2> QED BY <2>1 DEF Nested, NestedAt
<1>15. Chain(t2, lo, hi)
  <2>1. \A p \in LeavesIn(t2) : t2[p] = t[p]
    BY <1>7 DEF NodesIn
  <2> QED BY ONLY <2>1, <1>1, <1>6 DEF Chain
<1>16. Core(t2, c, NoPage, lo, hi, hi, ht)
  BY ONLY <1>1, <1>5, <1>8, <1>10, <1>12, <1>13, <1>14, <1>15 DEF Core
<1>17. Filled(t2, c, NoPage)
  <2>1. ASSUME NEW p \in LeavesIn(t2) PROVE Len(t2[p].entries) > 0
    <3>1. p \in LeavesIn(t) /\ t2[p] = t[p]
      BY <1>6, <1>7 DEF NodesIn
    <3> QED BY <3>1 DEF Filled
  <2>2. ASSUME NEW p \in InternalsIn(t2)
        PROVE  Len(t2[p].kids) >= IF p = c THEN (IF p = NoPage THEN 1 ELSE 2)
                                  ELSE IF p = NoPage THEN Least(InternalMax) - 1 ELSE Least(InternalMax)
    <3>1. p \in InternalsIn(t) /\ t2[p] = t[p] /\ p # rt /\ p # NoPage /\ p \in Pages
      BY <1>2, <1>6, <1>7, TreeAssumption DEF NodesIn
    <3>2. Len(t[p].kids) >= Least(InternalMax)
      BY <3>1 DEF Filled
    <3>3. t[p].kids \in Seq(Pages)
      BY <3>1, <1>1, InternalNode
    <3>4. PICK a \in Nat, m \in Nat : a = Len(t[p].kids) /\ m = Least(InternalMax) /\ m >= 2
      BY ONLY <3>3, LeastFacts
    <3>5. a >= m /\ a >= 2
      BY ONLY <3>2, <3>4
    <3> QED BY ONLY <3>1, <3>4, <3>5
  <2> QED BY ONLY <2>1, <2>2 DEF Filled
<1> QED BY ONLY <1>16, <1>17 DEF Whole, WholeBy

-----------------------------------------------------------------------------
(* What Insert and Remove do to the entries of a leaf                      *)

\* The keys of a leaf, as the search sees them.
KeysOf(e) == [i \in DOMAIN e |-> e[i].key]

\* The keys of entries in order are what the binary search expects.
LEMMA EntryKeys ==
  ASSUME NEW e \in Seq(Entries), NEW a, NEW b, Ordered(e, a, b)
  PROVE  /\ KeysOf(e) \in Seq(Int) /\ Ascending(KeysOf(e)) /\ Len(KeysOf(e)) = Len(e)
         /\ \A i \in 1..Len(e) : KeysOf(e)[i] = e[i].key /\ e[i].key \in Keys /\ e[i].key \in Int
<1>1. \A i \in 1..Len(e) : e[i] \in Entries
  OBVIOUS
<1>2. \A i \in 1..Len(e) : e[i].key \in Keys /\ e[i].key \in Int
  BY <1>1, TreeAssumption DEF Entries
<1>3. \A i \in 1..Len(e) : KeysOf(e)[i] = e[i].key
  BY DEF KeysOf
<1>4. KeysOf(e) \in Seq(Int) /\ Len(KeysOf(e)) = Len(e)
  BY <1>2 DEF KeysOf
<1>5. Ascending(KeysOf(e))
  BY ONLY <1>3, <1>4, Ordered(e, a, b) DEF Ascending, Ordered
<1> QED BY <1>2, <1>3, <1>4, <1>5

\* The new entry goes where its key belongs.
LEMMA EntryInserted ==
  ASSUME NEW e \in Seq(Entries), NEW a \in Int, NEW b \in Int, Ordered(e, a, b),
         NEW k \in Keys, NEW r \in Rids, a <= k, k < b, ~Has(KeysOf(e), k),
         NEW i, i = KeyIndex(KeysOf(e), k), NEW E, E = InsertAt(e, i, Entry(k, r))
  PROVE  /\ i \in 1..(Len(e) + 1) /\ E \in Seq(Entries) /\ Ordered(E, a, b) /\ Len(E) = Len(e) + 1
<1>1. PICK s : s = KeysOf(e)
  OBVIOUS
<1>2. /\ s \in Seq(Int) /\ Ascending(s) /\ Len(s) = Len(e)
      /\ \A j \in 1..Len(e) : s[j] = e[j].key /\ e[j].key \in Int
  BY <1>1, EntryKeys
<1>3. k \in Int
  BY TreeAssumption
<1>4. PlaceOf(s, k, i) /\ \A j \in 1..Len(s) : s[j] # k
  BY <1>1, <1>2, <1>3, SearchFinds, HasKey
<1>5. PICK n \in Nat : n = Len(e)
  OBVIOUS
<1>6. /\ i \in 1..(n + 1) /\ i \in Int
      /\ \A j \in 1..n : (j < i => e[j].key < k) /\ (j >= i => k < e[j].key)
  <2>1. i \in 1..(n + 1) /\ \A j \in 1..n : (j < i => s[j] < k) /\ (j >= i => k <= s[j])
    BY ONLY <1>2, <1>4, <1>5 DEF PlaceOf
  <2>2. \A j \in 1..n : s[j] = e[j].key /\ e[j].key \in Int /\ s[j] # k
    BY ONLY <1>2, <1>4, <1>5
  <2> QED BY ONLY <2>1, <2>2, <1>3, n \in Nat
<1>7. PICK x : x = Entry(k, r)
  OBVIOUS
<1>8. x \in Entries /\ x.key = k
  BY <1>7 DEF Entry, Entries
<1>9. E \in Seq(Entries) /\ IsInsert(E, e, i, x)
  BY <1>5, <1>6, <1>7, <1>8, InsertAtFacts
<1>10. /\ Len(E) = n + 1
       /\ \A j \in 1..(n + 1) : E[j] = IF j < i THEN e[j] ELSE IF j = i THEN x ELSE e[j - 1]
  BY ONLY <1>5, <1>9 DEF IsInsert
<1>11. /\ \A j \in 1..n : a <= e[j].key /\ e[j].key < b
       /\ \A j, h \in 1..n : j < h => e[j].key < e[h].key
  BY ONLY <1>5, Ordered(e, a, b) DEF Ordered
<1>12. ASSUME NEW j \in 1..(n + 1)
       PROVE  /\ j < i => j \in 1..n /\ E[j] = e[j]
              /\ j = i => E[j].key = k
              /\ j > i => j - 1 \in 1..n /\ j - 1 >= i /\ E[j] = e[j - 1]
              /\ j \in Int
  <2>1. /\ j < i => j \in 1..n
        /\ j > i => j - 1 \in 1..n /\ j - 1 >= i /\ ~(j < i) /\ j # i
        /\ j = i => ~(j < i)
        /\ j \in Int
    BY ONLY <1>6, n \in Nat, j \in 1..(n + 1)
  <2> QED BY ONLY <2>1, <1>8, <1>10, j \in 1..(n + 1)
<1>13. ASSUME NEW j \in 1..(n + 1) PROVE a <= E[j].key /\ E[j].key < b
  <2>1. j < i \/ j = i \/ j > i
    BY <1>6, <1>12
  <2> QED BY ONLY <2>1, <1>11, <1>12, a <= k, k < b, j \in 1..(n + 1)
<1>14. ASSUME NEW j \in 1..(n + 1), NEW h \in 1..(n + 1), j < h PROVE E[j].key < E[h].key
  <2>1. j \in Int /\ h \in Int
    BY <1>12
  <2>2. CASE j < i /\ h < i
    BY ONLY <2>2, <1>11, <1>12, j < h, j \in 1..(n + 1), h \in 1..(n + 1)
  <2>3. CASE j < i /\ h = i
    BY ONLY <2>3, <1>6, <1>12, j \in 1..(n + 1), h \in 1..(n + 1)
  <2>4. CASE j < i /\ h > i
    <3>1. j < h - 1
      BY ONLY <2>1, <2>4, <1>6
    <3>2. e[j].key < e[h - 1].key
      BY ONLY <3>1, <2>4, <1>11, <1>12, j \in 1..(n + 1), h \in 1..(n + 1)
    <3> QED BY ONLY <3>2, <2>4, <1>12, j \in 1..(n + 1), h \in 1..(n + 1)
  <2>5. CASE j = i /\ h > i
    BY ONLY <2>5, <1>6, <1>12, j \in 1..(n + 1), h \in 1..(n + 1)
  <2>6. CASE j > i /\ h > i
    <3>1. j - 1 < h - 1
      BY ONLY <2>1, j < h
    <3>2. e[j - 1].key < e[h - 1].key
      BY ONLY <3>1, <2>6, <1>11, <1>12, j \in 1..(n + 1), h \in 1..(n + 1)
    <3> QED BY ONLY <3>2, <2>6, <1>12, j \in 1..(n + 1), h \in 1..(n + 1)
  <2>7. (j < i \/ j = i \/ j > i) /\ (j >= i => h > i) /\ (h < i \/ h = i \/ h > i)
    BY ONLY <2>1, <1>6, j < h
  <2>8. j >= i <=> j = i \/ j > i
    BY ONLY <2>1, <1>6
  <2> QED BY ONLY <2>2, <2>3, <2>4, <2>5, <2>6, <2>7, <2>8
<1>15. Ordered(E, a, b)
  BY ONLY <1>10, <1>13, <1>14 DEF Ordered
<1> QED BY <1>5, <1>6, <1>9, <1>10, <1>15

\* An entry is taken out.
LEMMA EntryRemoved ==
  ASSUME NEW e \in Seq(Entries), NEW a, NEW b, Ordered(e, a, b),
         NEW k \in Keys, Has(KeysOf(e), k),
         NEW i, i = KeyIndex(KeysOf(e), k), NEW E, E = RemoveAt(e, i)
  PROVE  /\ i \in 1..Len(e) /\ E \in Seq(Entries) /\ Ordered(E, a, b) /\ Len(E) = Len(e) - 1
<1>1. PICK s : s = KeysOf(e)
  OBVIOUS
<1>2. s \in Seq(Int) /\ Ascending(s) /\ Len(s) = Len(e) /\ k \in Int
  BY <1>1, EntryKeys, TreeAssumption
<1>3. i \in 1..Len(e)
  <2>1. \E j \in 1..Len(s) : s[j] = k
    BY ONLY <1>1, <1>2, Has(KeysOf(e), k), HasKey
  <2>2. \A j \in 1..Len(s) : s[j] = k => KeyIndex(s, k) = j
    BY ONLY <1>2, HasKey
  <2> QED BY <2>1, <2>2, <1>1, <1>2
<1>4. PICK n \in Nat : n = Len(e)
  OBVIOUS
<1>5. /\ E \in Seq(Entries) /\ Len(E) = n - 1
      /\ \A j \in 1..(n - 1) : E[j] = IF j < i THEN e[j] ELSE e[j + 1]
  BY <1>3, <1>4, RemoveAtFacts
<1>6. /\ \A j \in 1..n : a <= e[j].key /\ e[j].key < b
      /\ \A j, h \in 1..n : j < h => e[j].key < e[h].key
  BY ONLY <1>4, Ordered(e, a, b) DEF Ordered
<1>7. ASSUME NEW j \in 1..(n - 1)
      PROVE  \E u \in 1..n : E[j] = e[u] /\ (j < i => u = j) /\ (~(j < i) => u = j + 1)
  <2>1. j \in 1..n /\ j + 1 \in 1..n
    BY ONLY n \in Nat, j \in 1..(n - 1)
  <2> QED BY ONLY <2>1, <1>5, j \in 1..(n - 1)
<1>8. ASSUME NEW j \in 1..(n - 1) PROVE a <= E[j].key /\ E[j].key < b
  <2>1. PICK u \in 1..n : E[j] = e[u]
    BY <1>7
  <2> QED BY ONLY <2>1, <1>6
<1>9. ASSUME NEW j \in 1..(n - 1), NEW h \in 1..(n - 1), j < h PROVE E[j].key < E[h].key
  <2>1. PICK u \in 1..n : E[j] = e[u] /\ (j < i => u = j) /\ (~(j < i) => u = j + 1)
    BY <1>7
  <2>2. PICK v \in 1..n : E[h] = e[v] /\ (h < i => v = h) /\ (~(h < i) => v = h + 1)
    BY <1>7
  <2>3. u < v
    BY ONLY <2>1, <2>2, <1>3, <1>4, n \in Nat, j < h, j \in 1..(n - 1), h \in 1..(n - 1)
  <2> QED BY ONLY <2>1, <2>2, <2>3, <1>6
<1>10. Ordered(E, a, b)
  BY ONLY <1>5, <1>8, <1>9 DEF Ordered
<1> QED BY <1>3, <1>4, <1>5, <1>10

\* What the leaf then holds: one entry more,
LEMMA InsertedElements ==
  ASSUME NEW e \in Seq(Entries), NEW i \in 1..(Len(e) + 1), NEW x \in Entries,
         NEW E, E = InsertAt(e, i, x)
  PROVE  Gains(ToSet(e), ToSet(E), x)
<1>1. E \in Seq(Entries) /\ IsInsert(E, e, i, x)
  BY InsertAtFacts
<1>2. PICK n \in Nat : n = Len(e)
  OBVIOUS
<1>3. /\ Len(E) = n + 1 /\ i \in 1..(n + 1)
      /\ \A j \in 1..(n + 1) : E[j] = IF j < i THEN e[j] ELSE IF j = i THEN x ELSE e[j - 1]
  BY ONLY <1>1, <1>2, i \in 1..(Len(e) + 1) DEF IsInsert
<1>4. ASSUME NEW y, y \in ToSet(E) PROVE y \in ToSet(e) \/ y = x
  <2>1. PICK j \in 1..(n + 1) : E[j] = y
    BY ONLY <1>1, <1>3, <1>4, ElementsOf
  <2>2. CASE j < i
    <3>1. j \in 1..n /\ e[j] = y
      BY ONLY <2>1, <2>2, <1>3, n \in Nat
    <3> QED BY ONLY <3>1, <1>2, e \in Seq(Entries), ElementsOf
  <2>3. CASE j = i
    BY ONLY <2>1, <2>3, <1>3, n \in Nat
  <2>4. CASE j > i
    <3>1. PICK h : h = j - 1
      OBVIOUS
    <3>2. h \in 1..n /\ e[h] = y
      BY ONLY <3>1, <2>1, <2>4, <1>3, n \in Nat
    <3> QED BY ONLY <3>2, <1>2, e \in Seq(Entries), ElementsOf
  <2> QED BY ONLY <2>2, <2>3, <2>4, <1>3, n \in Nat, j \in 1..(n + 1)
<1>5. x \in ToSet(E)
  <2>1. E[i] = x
    BY ONLY <1>3, n \in Nat
  <2> QED BY ONLY <2>1, <1>1, <1>3, ElementsOf
<1>6. ASSUME NEW y, y \in ToSet(e) PROVE y \in ToSet(E)
  <2>1. PICK j \in 1..n : e[j] = y
    BY ONLY <1>2, <1>6, e \in Seq(Entries), ElementsOf
  <2>2. CASE j < i
    <3>1. j \in 1..(n + 1) /\ E[j] = y
      BY ONLY <2>1, <2>2, <1>3, n \in Nat
    <3> QED BY ONLY <3>1, <1>1, <1>3, ElementsOf
  <2>3. CASE ~(j < i)
    <3>1. PICK h : h = j + 1
      OBVIOUS
    <3>2. h \in 1..(n + 1) /\ ~(h < i) /\ h # i /\ h - 1 = j
      BY ONLY <3>1, <2>3, <1>3, n \in Nat, j \in 1..n
    <3>3. E[h] = y
      BY ONLY <3>2, <2>1, <1>3
    <3> QED BY ONLY <3>2, <3>3, <1>1, <1>3, ElementsOf
  <2> QED BY ONLY <2>2, <2>3
<1> QED BY ONLY <1>4, <1>5, <1>6 DEF Gains

\* or none of that key any more.
LEMMA RemovedElements ==
  ASSUME NEW e \in Seq(Entries), NEW a, NEW b, Ordered(e, a, b),
         NEW k \in Keys, Has(KeysOf(e), k),
         NEW i, i = KeyIndex(KeysOf(e), k), NEW E, E = RemoveAt(e, i)
  PROVE  Loses(ToSet(e), ToSet(E), k)
<1>1. PICK s : s = KeysOf(e)
  OBVIOUS
<1>2. PICK n \in Nat : n = Len(e)
  OBVIOUS
<1>3. /\ s \in Seq(Int) /\ Ascending(s) /\ Len(s) = n /\ k \in Int
      /\ \A j \in 1..n : s[j] = e[j].key
  BY <1>1, <1>2, EntryKeys, TreeAssumption
<1>4. /\ \E j \in 1..n : s[j] = k
      /\ \A j \in 1..n : s[j] = k => i = j
  BY ONLY <1>1, <1>3, Has(KeysOf(e), k), i = KeyIndex(KeysOf(e), k), HasKey
<1>5. i \in 1..n /\ \A j \in 1..n : e[j].key = k <=> j = i
  BY ONLY <1>3, <1>4
<1>6. /\ E \in Seq(Entries) /\ Len(E) = n - 1
      /\ \A j \in 1..(n - 1) : E[j] = IF j < i THEN e[j] ELSE e[j + 1]
  BY ONLY <1>2, <1>5, e \in Seq(Entries), E = RemoveAt(e, i), RemoveAtFacts
<1>7. ASSUME NEW y, y \in ToSet(E) PROVE y \in ToSet(e) /\ y.key # k
  <2>1. PICK j \in 1..(n - 1) : E[j] = y
    BY ONLY <1>6, <1>7, ElementsOf
  <2>2. PICK h \in 1..n : e[h] = y /\ h # i
    <3>1. CASE j < i
      <4>1. j \in 1..n /\ e[j] = y /\ j # i
        BY ONLY <3>1, <2>1, <1>5, <1>6, n \in Nat
      <4> QED BY ONLY <4>1
    <3>2. CASE ~(j < i)
      <4>1. j + 1 \in 1..n /\ e[j + 1] = y /\ j + 1 # i
        BY ONLY <3>2, <2>1, <1>5, <1>6, n \in Nat
      <4> QED BY ONLY <4>1
    <3> QED BY ONLY <3>1, <3>2
  <2>3. y.key # k
    BY ONLY <2>2, <1>5
  <2> QED BY ONLY <2>2, <2>3, <1>2, e \in Seq(Entries), ElementsOf
<1>8. ASSUME NEW y, y \in ToSet(e), y.key # k PROVE y \in ToSet(E)
  <2>1. PICK j \in 1..n : e[j] = y
    BY ONLY <1>2, <1>8, e \in Seq(Entries), ElementsOf
  <2>2. j # i
    BY ONLY <2>1, <1>5, <1>8
  <2>3. CASE j < i
    <3>1. j \in 1..(n - 1) /\ E[j] = y
      BY ONLY <2>1, <2>3, <1>5, <1>6, n \in Nat
    <3> QED BY ONLY <3>1, <1>6, ElementsOf
  <2>4. CASE j > i
    <3>1. PICK h : h = j - 1
      OBVIOUS
    <3>2. h \in 1..(n - 1) /\ ~(h < i) /\ h + 1 = j
      BY ONLY <3>1, <2>4, <1>5, n \in Nat, j \in 1..n
    <3>3. E[h] = y
      BY ONLY <3>2, <2>1, <1>6
    <3> QED BY ONLY <3>2, <3>3, <1>6, ElementsOf
  <2> QED BY ONLY <2>2, <2>3, <2>4, <1>5, n \in Nat, j \in 1..n
<1> QED BY ONLY <1>7, <1>8 DEF Loses

\* InsertSplit puts the new entry x, which belongs at place i of the n entries e,
\* into one of the two halves.
Dealt(e, n, i, x, m, first, second) ==
    LET left == SubSeq(e, 1, m)
        right == SubSeq(e, m + 1, n)
    IN  /\ first = IF i <= m THEN InsertAt(left, i, x) ELSE left
        /\ second = IF i <= m THEN right ELSE InsertAt(right, i - m, x)

\* Together the halves are what the leaf would be with the entry in its place.
LEMMA HalvesSplit ==
  ASSUME NEW e \in Seq(Entries), NEW n \in Nat, n = Len(e), NEW i \in 1..(n + 1), NEW x \in Entries,
         NEW m \in 1..(n - 1), NEW first, NEW second, Dealt(e, n, i, x, m, first, second)
  PROVE  /\ first \in Seq(Entries) /\ second \in Seq(Entries) /\ Len(first) > 0 /\ Len(second) > 0
         /\ IsSplit(InsertAt(e, i, x), first, second)
<1> PICK left, right : left = SubSeq(e, 1, m) /\ right = SubSeq(e, m + 1, n)
  OBVIOUS
<1>7. /\ first = (IF i <= m THEN InsertAt(left, i, x) ELSE left)
      /\ second = (IF i <= m THEN right ELSE InsertAt(right, i - m, x))
  BY DEF Dealt
<1>0. m \in Nat /\ m >= 1 /\ m < n /\ i \in Int
  OBVIOUS
<1>1. left \in Seq(Entries) /\ Len(left) = m /\ \A j \in 1..m : left[j] = e[j]
  <2>1. 1 \in 1..(Len(e) + 1) /\ m \in (1 - 1)..Len(e) /\ m - 1 + 1 = m
    BY <1>0
  <2>2. /\ SubSeq(e, 1, m) \in Seq(Entries) /\ Len(SubSeq(e, 1, m)) = m - 1 + 1
        /\ \A j \in 1..(m - 1 + 1) : SubSeq(e, 1, m)[j] = e[1 + j - 1]
    BY ONLY <2>1, e \in Seq(Entries), SubSeqFacts
  <2>3. \A j \in 1..m : 1 + j - 1 = j
    BY <1>0
  <2> QED BY ONLY <2>1, <2>2, <2>3, left = SubSeq(e, 1, m)
<1>2. right \in Seq(Entries) /\ Len(right) = n - m /\ \A j \in 1..(n - m) : right[j] = e[m + j]
  <2>1. m + 1 \in 1..(Len(e) + 1) /\ n \in ((m + 1) - 1)..Len(e) /\ n - (m + 1) + 1 = n - m
    BY <1>0
  <2>2. /\ SubSeq(e, m + 1, n) \in Seq(Entries) /\ Len(SubSeq(e, m + 1, n)) = n - (m + 1) + 1
        /\ \A j \in 1..(n - (m + 1) + 1) : SubSeq(e, m + 1, n)[j] = e[(m + 1) + j - 1]
    BY ONLY <2>1, e \in Seq(Entries), SubSeqFacts
  <2>3. \A j \in 1..(n - m) : (m + 1) + j - 1 = m + j
    BY <1>0
  <2> QED BY ONLY <2>1, <2>2, <2>3, right = SubSeq(e, m + 1, n)
<1>3. PICK E : E = InsertAt(e, i, x)
  OBVIOUS
<1>4. /\ Len(E) = n + 1
      /\ \A j \in 1..(n + 1) : E[j] = IF j < i THEN e[j] ELSE IF j = i THEN x ELSE e[j - 1]
  <2>1. E \in Seq(Entries) /\ IsInsert(E, e, i, x)
    BY <1>3, InsertAtFacts
  <2> QED BY ONLY <2>1, n = Len(e) DEF IsInsert
<1>5. CASE i <= m
  <2>1. first = InsertAt(left, i, x) /\ second = right /\ i \in 1..(Len(left) + 1)
    BY <1>5, <1>0, <1>1, <1>7, SMTT(30)
  <2>2. first \in Seq(Entries) /\ IsInsert(first, left, i, x)
    BY ONLY <2>1, <1>1, x \in Entries, InsertAtFacts
  <2>3. /\ Len(first) = m + 1
        /\ \A j \in 1..(m + 1) : first[j] = IF j < i THEN left[j] ELSE IF j = i THEN x ELSE left[j - 1]
    BY ONLY <2>2, <1>1 DEF IsInsert
  <2>4. Len(second) = n - m
    BY ONLY <2>1, <1>2
  <2>5. ASSUME NEW j \in 1..(n + 1) PROVE E[j] = IF j <= m + 1 THEN first[j] ELSE second[j - (m + 1)]
    <3>1. CASE j <= m + 1
      <4>1. j \in 1..(m + 1) /\ (j < i => j \in 1..m) /\ (~(j < i) /\ j # i => j - 1 \in 1..m)
        BY ONLY <3>1, <1>0, <1>5, j \in 1..(n + 1), n \in Nat
      <4>2. first[j] = IF j < i THEN e[j] ELSE IF j = i THEN x ELSE e[j - 1]
        BY ONLY <4>1, <2>3, <1>1
      <4> QED BY ONLY <4>2, <3>1, <1>4, j \in 1..(n + 1)
    <3>2. CASE ~(j <= m + 1)
      <4>1. j - (m + 1) \in 1..(n - m) /\ m + (j - (m + 1)) = j - 1 /\ ~(j < i) /\ j # i
        BY ONLY <3>2, <1>0, <1>5, j \in 1..(n + 1), n \in Nat
      <4>2. second[j - (m + 1)] = e[j - 1]
        BY ONLY <4>1, <2>1, <1>2
      <4> QED BY ONLY <4>1, <4>2, <3>2, <1>4, j \in 1..(n + 1)
    <3> QED BY ONLY <3>1, <3>2
  <2>6. n + 1 = (m + 1) + (n - m) /\ m + 1 > 0 /\ n - m > 0
    BY ONLY <1>0, n \in Nat
  <2>7. IsSplit(E, first, second)
    BY ONLY <2>3, <2>4, <2>5, <2>6, <1>4 DEF IsSplit
  <2> QED BY ONLY <2>1, <2>2, <2>3, <2>4, <2>6, <2>7, <1>2, <1>3
<1>6. CASE ~(i <= m)
  <2>1. first = left /\ second = InsertAt(right, i - m, x) /\ i - m \in 1..(Len(right) + 1)
    BY <1>6, <1>0, <1>2, <1>7
  <2>2. second \in Seq(Entries) /\ IsInsert(second, right, i - m, x)
    BY ONLY <2>1, <1>2, x \in Entries, InsertAtFacts
  <2>3. /\ Len(second) = (n - m) + 1
        /\ \A j \in 1..((n - m) + 1) :
              second[j] = IF j < i - m THEN right[j] ELSE IF j = i - m THEN x ELSE right[j - 1]
    BY ONLY <2>2, <1>2 DEF IsInsert
  <2>4. Len(first) = m
    BY ONLY <2>1, <1>1
  <2>5. ASSUME NEW j \in 1..(n + 1) PROVE E[j] = IF j <= m THEN first[j] ELSE second[j - m]
    <3>1. CASE j <= m
      <4>1. j \in 1..m /\ j < i
        BY ONLY <3>1, <1>0, <1>6, j \in 1..(n + 1), n \in Nat
      <4> QED BY ONLY <4>1, <3>1, <2>1, <1>1, <1>4, j \in 1..(n + 1)
    <3>2. CASE ~(j <= m)
      <4>1. PICK h : h = j - m
        OBVIOUS
      <4>2. /\ h \in 1..((n - m) + 1) /\ (h < i - m <=> j < i) /\ (h = i - m <=> j = i)
            /\ (j < i => h \in 1..(n - m) /\ m + h = j)
            /\ (~(j < i) /\ j # i => h - 1 \in 1..(n - m) /\ m + (h - 1) = j - 1)
        BY ONLY <4>1, <3>2, <1>0, <1>6, j \in 1..(n + 1), i \in 1..(n + 1), n \in Nat
      <4>3. second[h] = IF j < i THEN e[j] ELSE IF j = i THEN x ELSE e[j - 1]
        <5>1. second[h] = IF j < i THEN right[h] ELSE IF j = i THEN x ELSE right[h - 1]
          BY ONLY <4>2, <2>3
        <5> QED BY ONLY <5>1, <4>2, <1>2
      <4> QED BY ONLY <4>1, <4>3, <3>2, <1>4, j \in 1..(n + 1)
    <3> QED BY ONLY <3>1, <3>2
  <2>6. n + 1 = m + ((n - m) + 1) /\ m > 0 /\ (n - m) + 1 > 0
    BY ONLY <1>0, n \in Nat
  <2>7. IsSplit(E, first, second)
    BY ONLY <2>3, <2>4, <2>5, <2>6, <1>4 DEF IsSplit
  <2> QED BY ONLY <2>1, <2>2, <2>3, <2>4, <2>6, <2>7, <1>1, <1>3
<1> QED BY ONLY <1>5, <1>6

-----------------------------------------------------------------------------
(* The search for a leaf                                                   *)

\* The part of the core that a search needs.
LEMMA CoreSearch ==
  ASSUME NEW t, NEW rt, NEW lo, NEW hi, NEW ht, Core(t, rt, NoPage, lo, hi, hi, ht)
  PROVE  /\ Searchable(t, lo, hi, ht) /\ rt \in NodesIn(t)
         /\ \A p \in NodesIn(t) : ht[p] <= ht[rt]
         /\ \A k \in Keys : k \in Int /\ lo[rt] <= k /\ k < hi[rt]
<1>1. Searchable(t, lo, hi, ht)
  BY DEF Core, Searchable
<1>2. rt \in NodesIn(t) /\ lo[rt] = Low /\ hi[rt] = High /\ \A p \in NodesIn(t) : ht[p] <= ht[rt]
  BY DEF Core, Rooted
<1> QED BY <1>1, <1>2, KeysWithin

\* A search for k ends at a leaf that answers for k; the pages it passes through
\* are a route to the level above the leaves.
LEMMA LeafFound ==
  ASSUME NEW lo, NEW hi, NEW ht, Core(node, root, NoPage, lo, hi, hi, ht), NEW k \in Keys,
         NEW leaf, leaf = LeafFor(k)
  PROVE  /\ leaf \in LeavesIn(node) /\ leaf \in NodesIn(node) /\ ht[leaf] = 0 /\ lo[leaf] <= k /\ k < hi[leaf]
         /\ Path(k) \in Seq(Pages) /\ Len(Path(k)) = ht[root] + 1 /\ Path(k)[1] = root
         /\ Len(Front(Path(k))) = ht[root] /\ ht[root] \in Nat
         /\ Route(node, root, lo, hi, ht, Front(Path(k)), k, 0)
<1>1. /\ Searchable(node, lo, hi, ht) /\ root \in NodesIn(node)
      /\ \A p \in NodesIn(node) : ht[p] <= ht[root]
      /\ k \in Int /\ lo[root] <= k /\ k < hi[root]
  BY CoreSearch
<1>2. /\ NodesIn(node) \subseteq Pages /\ \A p \in Pages : ht[p] \in Nat
      /\ \A p \in NodesIn(node) : (p \in LeavesIn(node) <=> ht[p] = 0) /\ (p \in InternalsIn(node) <=> ht[p] # 0)
  BY CoreTypes, KindHeight
<1>3. PICK s : s = Path(k)
  OBVIOUS
<1>4. PICK h \in Nat : h = ht[root]
  BY <1>1, <1>2
<1>5. /\ s \in Seq(Pages) /\ Len(s) = h + 1 /\ s[1] = root
      /\ \A i \in 1..(h + 1) :
            /\ s[i] \in NodesIn(node) /\ ht[s[i]] = h + 1 - i
            /\ lo[s[i]] <= k /\ k < hi[s[i]]
  BY ONLY <1>1, <1>3, <1>4, PathFound
<1>6. /\ Front(s) \in Seq(Pages) /\ Len(Front(s)) = Len(s) - 1 /\ Last(s) = s[Len(s)]
      /\ \A j \in 1..(Len(s) - 1) : Front(s)[j] = s[j]
  <2>1. s \in Seq(Pages) /\ Len(s) > 0
    BY ONLY <1>5, h \in Nat
  <2> QED BY ONLY <2>1, FrontFacts
<1>7. Len(Front(s)) = h /\ Last(s) = s[h + 1] /\ \A j \in 1..h : Front(s)[j] = s[j] /\ s[j] \in NodesIn(node)
  BY ONLY <1>5, <1>6, h \in Nat
<1>8. leaf = s[h + 1] /\ h + 1 \in 1..(h + 1) /\ h + 1 - (h + 1) = 0
  BY <1>3, <1>7 DEF LeafFor
<1>9. leaf \in LeavesIn(node) /\ leaf \in NodesIn(node) /\ ht[leaf] = 0 /\ lo[leaf] <= k /\ k < hi[leaf]
  BY ONLY <1>2, <1>5, <1>8
<1>10. Route(node, root, lo, hi, ht, Front(s), k, 0)
  <2>1. Len(Front(s)) = ht[root] - 0
    BY ONLY <1>4, <1>7, h \in Nat
  <2>2. ASSUME NEW i \in 1..Len(Front(s))
        PROVE  /\ Front(s)[i] \in InternalsIn(node) /\ ht[Front(s)[i]] = ht[root] + 1 - i
               /\ lo[Front(s)[i]] <= k /\ k < hi[Front(s)[i]]
    <3>1. i \in 1..h /\ i \in 1..(h + 1) /\ h + 1 - i # 0
      BY ONLY <1>7, h \in Nat, i \in 1..Len(Front(s))
    <3>2. Front(s)[i] = s[i] /\ s[i] \in NodesIn(node)
      BY ONLY <3>1, <1>7
    <3>3. ht[s[i]] = h + 1 - i /\ lo[s[i]] <= k /\ k < hi[s[i]]
      BY ONLY <3>1, <1>5
    <3>4. s[i] \in InternalsIn(node)
      BY ONLY <3>1, <3>2, <3>3, <1>2
    <3> QED BY ONLY <3>2, <3>3, <3>4, <1>4
  <2> QED BY ONLY <2>1, <2>2, <1>6 DEF Route
<1> QED BY ONLY <1>3, <1>4, <1>5, <1>7, <1>9, <1>10

\* The last page of a route: one level above its end.
LEMMA RouteEnd ==
  ASSUME NEW t, NEW rt, NEW lo, NEW hi, NEW ht, NEW path, NEW k, NEW h \in Nat, ht[rt] \in Nat,
         Route(t, rt, lo, hi, ht, path, k, h), path # <<>>, NEW p, p = Last(path)
  PROVE  /\ p \in InternalsIn(t) /\ ht[p] = h + 1 /\ lo[p] <= k /\ k < hi[p] /\ Len(path) \in Nat \ {0}
         /\ Front(path) \in Seq(Pages) /\ Len(Front(path)) = Len(path) - 1
         /\ \A i \in 1..(Len(path) - 1) : Front(path)[i] = path[i]
         /\ Route(t, rt, lo, hi, ht, Front(path), k, h + 1)
<1>1. /\ path \in Seq(Pages) /\ Len(path) = ht[rt] - h
      /\ \A i \in 1..Len(path) :
            /\ path[i] \in InternalsIn(t) /\ ht[path[i]] = ht[rt] + 1 - i
            /\ lo[path[i]] <= k /\ k < hi[path[i]]
  BY DEF Route
<1>2. Len(path) \in Nat \ {0}
  BY ONLY <1>1, path # <<>>
<1>3. /\ Front(path) \in Seq(Pages) /\ Len(Front(path)) = Len(path) - 1
      /\ \A j \in 1..(Len(path) - 1) : Front(path)[j] = path[j]
      /\ p = path[Len(path)]
  <2>1. Len(path) > 0
    BY <1>2
  <2> QED BY ONLY <2>1, <1>1, FrontFacts, p = Last(path)
<1>4. PICK n \in Nat, r \in Nat : n = Len(path) /\ r = ht[rt] /\ n > 0
  BY <1>2
<1>5. n = r - h /\ n \in 1..n /\ r + 1 - n = h + 1
  BY ONLY <1>1, <1>4, h \in Nat
<1>6. p \in InternalsIn(t) /\ ht[p] = h + 1 /\ lo[p] <= k /\ k < hi[p]
  BY ONLY <1>1, <1>3, <1>4, <1>5
<1>7. Route(t, rt, lo, hi, ht, Front(path), k, h + 1)
  <2>1. n - 1 = r - (h + 1)
    BY ONLY <1>4, <1>5, h \in Nat
  <2>2. ASSUME NEW i \in 1..Len(Front(path)) PROVE i \in 1..Len(path) /\ Front(path)[i] = path[i]
    BY ONLY <1>3, <1>4, i \in 1..Len(Front(path))
  <2> QED BY ONLY <2>1, <2>2, <1>1, <1>3, <1>4 DEF Route
<1> QED BY ONLY <1>2, <1>3, <1>6, <1>7

-----------------------------------------------------------------------------
(* How many entries a leaf may have                                        *)

\* Nothing changes.
LEMMA SameLeaves ==
  ASSUME NEW t, NEW t2, t2 = t
  PROVE  KeepsLeaves(t, t2)
BY DEF KeepsLeaves

\* Only the entries of the leaf l change.
OnlyAt(t, t2, l) == LeavesIn(t2) = LeavesIn(t) /\ \A x \in Pages : x # l => t2[x] = t[x]

\* If they fit after the change, so do all the others.
LEMMA OneLeafChanged ==
  ASSUME NEW t, NEW t2, NEW l, OnlyAt(t, t2, l), LeavesFit(t) => Len(t2[l].entries) <= LeafMax
  PROVE  KeepsLeaves(t, t2)
<1>0. LeavesIn(t2) = LeavesIn(t) /\ \A x \in Pages : x # l => t2[x] = t[x]
  BY DEF OnlyAt
<1>1. ASSUME LeavesFit(t), NEW x \in LeavesIn(t2) PROVE Len(t2[x].entries) <= LeafMax
  <2>1. x \in Pages /\ x \in LeavesIn(t)
    BY <1>0 DEF LeavesIn
  <2> QED BY <2>1, <1>0, <1>1 DEF LeavesFit
<1> QED BY ONLY <1>0, <1>1 DEF KeepsLeaves, LeavesFit

\* Only the nodes at l and r change.
LEMMA TwoLeavesChanged ==
  ASSUME NEW t, NEW t2, NEW l \in Pages, NEW r \in Pages,
         \A x \in Pages : x # l /\ x # r => (x \in LeavesIn(t2) => x \in LeavesIn(t) /\ t2[x] = t[x]),
         \A x \in LeavesIn(t) : x # l /\ x # r => t2[x] = t[x],
         \A x \in {l, r} : x \in LeavesIn(t) => x \in LeavesIn(t2) \/ t2[x] = Unused,
         \A x \in {l, r} : x \in LeavesIn(t2) => (LeavesFit(t) => Len(t2[x].entries) <= LeafMax)
  PROVE  KeepsLeaves(t, t2)
<1>1. ASSUME NEW x \in LeavesIn(t) PROVE x \in LeavesIn(t2) \/ t2[x] = Unused
  BY DEF LeavesIn
<1>2. ASSUME LeavesFit(t), NEW x \in LeavesIn(t2) PROVE Len(t2[x].entries) <= LeafMax
  <2>1. x \in Pages
    BY DEF LeavesIn
  <2> QED BY <2>1, <1>2 DEF LeavesFit
<1> QED BY ONLY <1>1, <1>2 DEF KeepsLeaves, LeavesFit

\* Two leaves, one of which lacks entries and the other has none to spare, fit into one.
LEMMA LeastTwice ==
  ASSUME NEW a \in Nat, NEW b \in Nat, a < Least(LeafMax), b <= Least(LeafMax)
  PROVE  a + b <= LeafMax /\ a + 1 <= LeafMax
BY TreeAssumption DEF Least

\* Refilling a leaf that lacks entries, or an internal node.
LEMMA RefillKeepsLeaves ==
  ASSUME NEW t, NEW rt, NEW lo, NEW hi, NEW ht, Core(t, rt, NoPage, lo, hi, hi, ht),
         NEW p \in InternalsIn(t), NEW c \in 1..Len(t[p].kids), NEW w, w = t[p].kids[c], FilledBut(t, rt, w),
         w \in LeavesIn(t) => Len(t[w].entries) < Least(LeafMax),
         NEW t2, t2 = Refilled(t, p, c)
  PROVE  KeepsLeaves(t, t2)
<1>0. Core(t, rt, NoPage, lo, hi, hi, ht)
  OBVIOUS
<1>1. t \in [Pages -> Nodes] /\ ht \in [Pages -> Nat]
  BY DEF Core, Ghosts
<1>2. PICK s, l, key, r : s = Between(t, p, c) /\ l = t[p].kids[s] /\ key = t[p].keys[s] /\ r = t[p].kids[s + 1]
  OBVIOUS
<1>3. Neighbours(t, p, s, l, key, r) /\ Refitting(t, t2, rt, lo, hi, ht, p, l, r)
  <2>1. /\ Neighbours(t, p, s, t[p].kids[s], t[p].keys[s], t[p].kids[s + 1])
        /\ Refitting(t, t2, rt, lo, hi, ht, p, t[p].kids[s], t[p].kids[s + 1])
    BY <1>0, <1>2, RefilledCore
  <2> QED BY ONLY <2>1, <1>2
<1>4. /\ l \in NodesIn(t) /\ r \in NodesIn(t) /\ l \in Pages /\ r \in Pages /\ l # r /\ l # p /\ r # p
      /\ (l \in LeavesIn(t) <=> r \in LeavesIn(t)) /\ p \in Pages
  BY ONLY <1>0, <1>3, NeighbourFacts
<1>5. /\ LeavesIn(t2) \subseteq LeavesIn(t)
      /\ \A x \in Pages : x # l /\ x # r /\ x # p => t2[x] = t[x]
      /\ p \notin LeavesIn(t) /\ LeavesIn(t) \subseteq Pages /\ LeavesIn(t2) \subseteq Pages
  BY <1>3, CoreTypes DEF Refitting, LeavesIn
<1>6. /\ \A x \in Pages : x # l /\ x # r => (x \in LeavesIn(t2) => x \in LeavesIn(t) /\ t2[x] = t[x])
      /\ \A x \in LeavesIn(t) : x # l /\ x # r => t2[x] = t[x]
  BY ONLY <1>5
<1>7. CASE l \notin LeavesIn(t)
  <2>1. l \notin LeavesIn(t2) /\ r \notin LeavesIn(t2) /\ r \notin LeavesIn(t)
    BY ONLY <1>4, <1>5, <1>7
  <2> QED BY ONLY <2>1, <1>4, <1>6, <1>7, TwoLeavesChanged
<1>8. CASE l \in LeavesIn(t)
  <2>1. PICK e, f, a, b : e = t[l].entries /\ f = t[r].entries /\ a = Len(e) /\ b = Len(f)
    OBVIOUS
  <2>2. /\ t[l].kind = "leaf" /\ e \in Seq(Entries) /\ t[l] = Leaf(e, t[l].next)
        /\ t[r].kind = "leaf" /\ f \in Seq(Entries) /\ t[r] = Leaf(f, t[r].next)
        /\ a \in Nat /\ b \in Nat
    <3>1. l \in LeavesIn(t) /\ r \in LeavesIn(t)
      BY <1>4, <1>8
    <3> QED BY <3>1, <1>1, <2>1, LeafNode
  <2>3. /\ Size(t[l]) = a /\ Size(t[r]) = b /\ MinSize(t[l]) = Least(LeafMax) /\ MinSize(t[r]) = Least(LeafMax)
    BY ONLY <2>1, <2>2 DEF Size, MinSize
  <2>4. LeavesFit(t) => a <= LeafMax /\ b <= LeafMax
    BY <2>1, <1>4, <1>8 DEF LeavesFit
  <2>5. /\ s \in 1..Len(t[p].keys) /\ (s = c \/ s + 1 = c)
        /\ Lends(t, p, c - 1) => s + 1 = c
        /\ ~Lends(t, p, c - 1) /\ Lends(t, p, c + 1) => s = c
    <3>1. Len(t[p].kids) >= 2
      <4>1. /\ Len(t[p].kids) \in Nat /\ Len(t[p].kids) = Len(t[p].keys) + 1 /\ Len(t[p].keys) \in Nat
            /\ s \in 1..Len(t[p].keys)
        <5>1. Len(t[p].kids) = Len(t[p].keys) + 1 /\ t[p].keys \in Seq(Keys)
          BY <1>1, InternalNode
        <5>2. s \in 1..Len(t[p].keys)
          BY <1>3 DEF Neighbours
        <5> QED BY <5>1, <5>2
      <4> QED BY ONLY <4>1
    <3> QED BY <3>1, <1>1, <1>2, BetweenFacts
  <2>6. /\ Lends(t, p, c - 1) => t2 = Redistributed(t, p, s, FromLeft(t[l], key, t[r]))
        /\ ~Lends(t, p, c - 1) /\ Lends(t, p, c + 1) => t2 = Redistributed(t, p, s, FromRight(t[l], key, t[r]))
        /\ ~Lends(t, p, c - 1) /\ ~Lends(t, p, c + 1) => t2 = Merged(t, p, s)
    BY <1>2 DEF Refilled
  <2>7. /\ s = c => l = w /\ a < Least(LeafMax)
        /\ s + 1 = c => r = w /\ b < Least(LeafMax)
        /\ s \in Int /\ c \in Int
    BY <1>2, <1>4, <1>8, <2>1, <2>5
  <2>8. ASSUME NEW pair, t2 = Redistributed(t, p, s, pair),
               NEW m, NEW n, LeafPair(t[l], t[r], pair, m, n), LeavesFit(t) => m <= LeafMax /\ n <= LeafMax
        PROVE  KeepsLeaves(t, t2)
    <3>1. PICK first, second \in Seq(Entries) :
             /\ Len(first) = m /\ Len(second) = n
             /\ pair.l = Leaf(first, t[l].next) /\ pair.r = Leaf(second, t[r].next)
      BY ONLY <2>8 DEF LeafPair
    <3>2. t2[l] = pair.l /\ t2[r] = pair.r
      BY ONLY <1>1, <1>2, <1>4, <2>8 DEF Redistributed
    <3>3. /\ t2[l].kind = "leaf" /\ t2[l].entries = first
          /\ t2[r].kind = "leaf" /\ t2[r].entries = second
      BY ONLY <3>1, <3>2 DEF Leaf
    <3>4. l \in LeavesIn(t2) /\ r \in LeavesIn(t2)
      BY ONLY <3>3, <1>4 DEF LeavesIn
    <3> QED BY ONLY <3>1, <3>3, <3>4, <1>4, <1>6, <2>8, TwoLeavesChanged
  <2>9. CASE Lends(t, p, c - 1)
    <3>1. b < Least(LeafMax) /\ a > Least(LeafMax)
      <4>1. s + 1 = c /\ c - 1 = s
        BY ONLY <2>5, <2>7, <2>9
      <4>2. Size(t[t[p].kids[c - 1]]) > MinSize(t[t[p].kids[c - 1]])
        BY ONLY <2>9 DEF Lends
      <4> QED BY ONLY <4>1, <4>2, <1>2, <2>3, <2>7
    <3>2. a > 1 /\ (LeavesFit(t) => a - 1 <= LeafMax /\ b + 1 <= LeafMax)
      BY ONLY <3>1, <2>2, <2>4, LeastTwice, LeastFacts, TreeAssumption
    <3>3. PICK pair : pair = FromLeft(t[l], key, t[r])
      OBVIOUS
    <3>4. LeafPair(t[l], t[r], pair, a - 1, b + 1)
      <4>1. Len(t[l].entries) > 1 /\ a = Len(t[l].entries) /\ b = Len(t[r].entries)
        BY ONLY <3>2, <2>1
      <4>2. t[l] = Leaf(t[l].entries, t[l].next) /\ t[r] = Leaf(t[r].entries, t[r].next)
        BY ONLY <2>1, <2>2
      <4>3. t[l].entries \in Seq(Entries) /\ t[r].entries \in Seq(Entries)
        BY ONLY <2>1, <2>2
      <4>4. LeafPair(t[l], t[r], pair, Len(t[l].entries) - 1, Len(t[r].entries) + 1)
        BY ONLY <4>1, <4>2, <4>3, <2>2, <3>3, LeafFromLeft
      <4> QED BY ONLY <4>1, <4>4
    <3>5. t2 = Redistributed(t, p, s, pair)
      BY ONLY <3>3, <2>6, <2>9
    <3> QED BY ONLY <3>2, <3>4, <3>5, <2>8
  <2>10. CASE ~Lends(t, p, c - 1) /\ Lends(t, p, c + 1)
    <3>1. a < Least(LeafMax) /\ b > Least(LeafMax)
      <4>1. s = c
        BY ONLY <2>5, <2>10
      <4>2. Size(t[t[p].kids[c + 1]]) > MinSize(t[t[p].kids[c + 1]])
        BY ONLY <2>10 DEF Lends
      <4> QED BY ONLY <4>1, <4>2, <1>2, <2>3, <2>7
    <3>2. b > 1 /\ (LeavesFit(t) => a + 1 <= LeafMax /\ b - 1 <= LeafMax)
      BY ONLY <3>1, <2>2, <2>4, LeastTwice, LeastFacts, TreeAssumption
    <3>3. PICK pair : pair = FromRight(t[l], key, t[r])
      OBVIOUS
    <3>4. LeafPair(t[l], t[r], pair, a + 1, b - 1)
      <4>1. Len(t[r].entries) > 1 /\ a = Len(t[l].entries) /\ b = Len(t[r].entries)
        BY ONLY <3>2, <2>1
      <4>2. t[l] = Leaf(t[l].entries, t[l].next) /\ t[r] = Leaf(t[r].entries, t[r].next)
        BY ONLY <2>1, <2>2
      <4>3. t[l].entries \in Seq(Entries) /\ t[r].entries \in Seq(Entries)
        BY ONLY <2>1, <2>2
      <4>4. LeafPair(t[l], t[r], pair, Len(t[l].entries) + 1, Len(t[r].entries) - 1)
        BY ONLY <4>1, <4>2, <4>3, <2>2, <3>3, LeafFromRight
      <4> QED BY ONLY <4>1, <4>4
    <3>5. t2 = Redistributed(t, p, s, pair)
      BY ONLY <3>3, <2>6, <2>10
    <3> QED BY ONLY <3>2, <3>4, <3>5, <2>8
  <2>11. CASE ~Lends(t, p, c - 1) /\ ~Lends(t, p, c + 1)
    <3>1. a + b <= LeafMax
      <4>1. /\ s = c => c + 1 \in DOMAIN t[p].kids
            /\ s + 1 = c => c - 1 \in DOMAIN t[p].kids
        <5>1. Len(t[p].kids) = Len(t[p].keys) + 1 /\ t[p].keys \in Seq(Keys) /\ t[p].kids \in Seq(Pages)
          BY <1>1, InternalNode
        <5> QED BY <5>1, <2>5
      <4>2. CASE s = c
        <5>1. ~(b > Least(LeafMax)) /\ a < Least(LeafMax)
          BY ONLY <4>1, <4>2, <1>2, <2>3, <2>7, <2>11 DEF Lends
        <5> QED BY ONLY <5>1, <2>2, LeastTwice, LeastFacts
      <4>3. CASE s + 1 = c
        <5>1. c - 1 = s
          BY ONLY <4>3, <2>7
        <5>2. ~(a > Least(LeafMax)) /\ b < Least(LeafMax)
          BY ONLY <4>1, <4>3, <5>1, <1>2, <2>3, <2>7, <2>11 DEF Lends
        <5>3. b + a <= LeafMax
          BY ONLY <5>2, <2>2, LeastTwice, LeastFacts
        <5> QED BY ONLY <5>3, <2>2
      <4> QED BY ONLY <4>2, <4>3, <2>5
    <3>2. t2 = Merged(t, p, s)
      BY ONLY <2>6, <2>11
    <3>3. t2[l] = Joined(t[l], key, t[r]) /\ t2[r] = Unused
      <4>1. PICK top : top = Tops(hi, l, r)
        OBVIOUS
      <4> QED BY ONLY <4>1, <3>2, <1>0, <1>3, MergedCore
    <3>4. t2[l].kind = "leaf" /\ t2[l].entries = e \o f
      <4>1. t[l].kind = "leaf" /\ e = t[l].entries /\ f = t[r].entries
        BY ONLY <2>1, <2>2
      <4>2. Joined(t[l], key, t[r]) = Leaf(t[l].entries \o t[r].entries, t[r].next)
        BY ONLY <4>1 DEF Joined
      <4>3. t2[l] = Leaf(e \o f, t[r].next)
        BY ONLY <4>1, <4>2, <3>3
      <4> QED BY ONLY <4>3 DEF Leaf
    <3>5. Len(t2[l].entries) <= LeafMax
      <4>1. Len(e \o f) = Len(e) + Len(f)
        BY ONLY <2>2, ConcatFacts
      <4> QED BY ONLY <4>1, <3>1, <3>4, <2>1
    <3>6. l \in LeavesIn(t2) /\ r \notin LeavesIn(t2)
      BY <3>3, <3>4, <1>4 DEF LeavesIn, Unused
    <3> QED BY ONLY <3>3, <3>5, <3>6, <1>4, <1>6, TwoLeavesChanged
  <2> QED BY <2>9, <2>10, <2>11
<1> QED BY <1>7, <1>8

-----------------------------------------------------------------------------
(* Insert                                                                  *)

\* The leaf with the new entry in its place.
Added(t, leaf, e) == [t EXCEPT ![leaf].entries = e]

\* The entries of a leaf change and the tree stays in order, if they are
\* ascending and within the leaf's bounds.
LEMMA LeafRefilled ==
  ASSUME NEW t, NEW rt, NEW lo, NEW hi, NEW ht, Core(t, rt, NoPage, lo, hi, hi, ht),
         NEW leaf \in LeavesIn(t), NEW e \in Seq(Entries), Ordered(e, lo[leaf], hi[leaf]),
         NEW t2, t2 = Added(t, leaf, e)
  PROVE  /\ Core(t2, rt, NoPage, lo, hi, hi, ht)
         /\ LeavesIn(t2) = LeavesIn(t) /\ InternalsIn(t2) = InternalsIn(t)
         /\ t2[leaf].entries = e /\ t2[leaf].kind = "leaf" /\ t2[leaf].next = t[leaf].next
         /\ \A x \in Pages : x # leaf => t2[x] = t[x]
<1>1. t \in [Pages -> Nodes]
  BY DEF Core
<1>2. /\ leaf \in Pages /\ t[leaf].kind = "leaf" /\ t[leaf].next \in Pages \cup {NoPage}
      /\ t[leaf] = Leaf(t[leaf].entries, t[leaf].next)
  BY <1>1, LeafNode
<1>3. PICK n : n = Leaf(e, t[leaf].next)
  OBVIOUS
<1>4. n \in Nodes /\ n.kind = "leaf" /\ n.entries = e /\ n.next = t[leaf].next
  BY ONLY <1>2, <1>3, e \in Seq(Entries), MakeLeaf
<1>5. t2[leaf] = n
  <2>1. t2[leaf] = [t[leaf] EXCEPT !.entries = e]
    BY <1>1, <1>2 DEF Added
  <2>2. PICK d, x : d = t[leaf].entries /\ x = t[leaf].next
    OBVIOUS
  <2>3. [Leaf(d, x) EXCEPT !.entries = e] = Leaf(e, x)
    BY DEF Leaf
  <2> QED BY ONLY <2>1, <2>2, <2>3, <1>2, <1>3
<1>6. t2 \in [Pages -> Nodes] /\ \A x \in Pages : x # leaf => t2[x] = t[x]
  <2>1. t2 = [t EXCEPT ![leaf] = n]
    <3>1. t2 = [t EXCEPT ![leaf] = [t[leaf] EXCEPT !.entries = e]]
      BY DEF Added
    <3>2. t2[leaf] = [t[leaf] EXCEPT !.entries = e]
      BY <3>1, <1>1, <1>2
    <3> QED BY ONLY <3>1, <3>2, <1>5
  <2> QED BY ONLY <2>1, <1>1, <1>2, <1>4
<1>7. SortedLeaf(t2, lo, hi, leaf)
  BY ONLY <1>4, <1>5, Ordered(e, lo[leaf], hi[leaf]), OrderedLeaf
<1>8. t2[leaf].kind = "leaf" /\ t2[leaf].next = t[leaf].next
  BY ONLY <1>4, <1>5
<1>9. Core(t, rt, NoPage, lo, hi, hi, ht) /\ leaf \in LeavesIn(t)
  OBVIOUS
<1>10. Core(t2, rt, NoPage, lo, hi, hi, ht) /\ LeavesIn(t2) = LeavesIn(t) /\ InternalsIn(t2) = InternalsIn(t)
  BY ONLY <1>6, <1>7, <1>8, <1>9, LeafChanged
<1> QED BY ONLY <1>4, <1>5, <1>6, <1>8, <1>10

\* A node was cut in two: what Grow records is then true of the table.
LEMMA CutGrows ==
  ASSUME NEW t, NEW rt, NEW lo, NEW hi, NEW ht, Core(t, rt, NoPage, lo, hi, hi, ht),
         NEW p, NEW path, NEW k \in Keys, Route(t, rt, lo, hi, ht, path, k, ht[p]),
         lo[p] <= k, k < hi[p],
         NEW q, NEW t2, Cut(t, p, q, t2), NEW key \in Keys,
         NEW lo2, NEW hi2, NEW ht2, CutGhosts(lo, hi, ht, p, key, q, lo2, hi2, ht2),
         Core(t2, rt, q, lo2, hi2, Tops(hi2, p, q), ht2), Pending(t2, lo2, hi2, ht2, p, key, q),
         Cardinality(FreeIn(t) \ {q}) > Len(path), Filled(t2, rt, NoPage), Enough(t2[p])
  PROVE  Growing(t2, rt, path, p, key, q)
<1>1. t \in [Pages -> Nodes] /\ Ghosts(lo, hi, ht)
  BY DEF Core
<1>2. /\ p \in Pages /\ q \in Pages /\ q \notin NodesIn(t) /\ p # q
      /\ NodesIn(t2) = NodesIn(t) \cup {q} /\ InternalsIn(t) \subseteq InternalsIn(t2)
  <2>1. /\ p \in Pages /\ q \in Pages /\ q \notin NodesIn(t) /\ p # q
        /\ NodesIn(t2) = NodesIn(t) \cup {q}
        /\ p \in LeavesIn(t) => InternalsIn(t2) = InternalsIn(t)
        /\ p \in InternalsIn(t) => InternalsIn(t2) = InternalsIn(t) \cup {q}
    BY <1>1, CutNodes
  <2>2. p \in LeavesIn(t) \/ p \in InternalsIn(t)
    BY DEF Cut, NodesIn
  <2> QED BY ONLY <2>1, <2>2
<1>3. key \in Int /\ k \in Int
  BY TreeAssumption
<1>4. PICK top2 : top2 = Tops(hi2, p, q)
  OBVIOUS
<1>5. /\ lo2[q] = key /\ hi2[p] = key /\ hi2[q] = hi[p] /\ ht2[q] = ht[p]
      /\ \A x \in Pages : x # q => lo2[x] = lo[x] /\ ht2[x] = ht[x] /\ top2[x] = hi[x]
      /\ \A x \in Pages : x # p /\ x # q => hi2[x] = hi[x]
  BY ONLY <1>1, <1>2, <1>3, <1>4, CutGhosts(lo, hi, ht, p, key, q, lo2, hi2, ht2), CutGhostValues
<1>6. /\ rt \in NodesIn(t) /\ NodesIn(t) \subseteq Pages /\ InternalsIn(t) \subseteq NodesIn(t)
      /\ \A x \in Pages : ht[x] \in Nat
  BY CoreTypes
<1>7. rt \in Pages /\ rt # q
  BY <1>2, <1>6
<1>8. /\ path \in Seq(Pages) /\ Len(path) = ht[rt] - ht[p]
      /\ \A i \in 1..Len(path) :
            /\ path[i] \in InternalsIn(t) /\ ht[path[i]] = ht[rt] + 1 - i
            /\ lo[path[i]] <= k /\ k < hi[path[i]]
  BY DEF Route
<1>9. Route(t2, rt, lo2, hi2, ht2, path, k, ht2[p])
  <2>1. ht2[rt] = ht[rt] /\ ht2[p] = ht[p]
    BY ONLY <1>2, <1>5, <1>7
  <2>2. ASSUME NEW i \in 1..Len(path)
        PROVE  /\ path[i] \in InternalsIn(t2) /\ ht2[path[i]] = ht2[rt] + 1 - i
               /\ lo2[path[i]] <= k /\ k < hi2[path[i]]
    <3>1. PICK x : x = path[i]
      OBVIOUS
    <3>2. x \in InternalsIn(t) /\ ht[x] = ht[rt] + 1 - i /\ lo[x] <= k /\ k < hi[x]
      BY ONLY <3>1, <1>8, i \in 1..Len(path)
    <3>3. x \in Pages /\ x # q
      BY <3>2, <1>2, <1>6
    <3>4. x # p
      <4>1. PICK a \in Nat, b \in Nat : a = ht[rt] /\ b = ht[p]
        BY <1>2, <1>6, <1>7
      <4>2. i \in 1..(a - b)
        BY ONLY <4>1, <1>8, i \in 1..Len(path)
      <4>3. a + 1 - i # b
        BY ONLY <4>1, <4>2
      <4> QED BY ONLY <4>1, <4>3, <3>2
    <3>5. ht2[x] = ht[x] /\ lo2[x] = lo[x] /\ hi2[x] = hi[x]
      BY ONLY <3>3, <3>4, <1>5
    <3> QED BY ONLY <3>1, <3>2, <3>5, <2>1, <1>2
  <2> QED BY ONLY <2>1, <2>2, <1>8 DEF Route
<1>10. lo2[p] <= k /\ k < hi2[q]
  BY ONLY <1>2, <1>5, lo[p] <= k, k < hi[p]
<1>11. FreeIn(t2) = FreeIn(t) \ {q}
  <2>1. /\ \A x \in Pages : x # p /\ x # q => t2[x] = t[x]
        /\ t2[p].kind = t[p].kind /\ t2[q].kind = t[p].kind /\ p \in NodesIn(t)
    BY DEF Cut
  <2>2. t[p].kind # Unused.kind
    BY <2>1 DEF NodesIn, LeavesIn, InternalsIn, Unused
  <2>3. t2[p] # Unused /\ t2[q] # Unused /\ t[p] # Unused
    BY ONLY <2>1, <2>2
  <2> QED BY ONLY <2>1, <2>3, <1>2 DEF FreeIn
<1>12. Loose(t2, rt, lo2, hi2, Tops(hi2, p, q), ht2, p, key, q)
  BY DEF Loose
<1>13. /\ Cardinality(FreeIn(t2)) > Len(path) /\ Filled(t2, rt, NoPage) /\ Enough(t2[p]) /\ k \in Keys
  BY <1>11
<1>14. GrowingBy(t2, rt, path, p, key, q, lo2, hi2, ht2)
  BY ONLY <1>9, <1>10, <1>12, <1>13 DEF GrowingBy
<1> QED BY <1>14 DEF Growing

\* Between operations there is a tree in order, or there is none.
LEMMA QuietCases ==
  ASSUME TreeInv, fix = Quiet
  PROVE  (root = NoPage /\ Empty(node, root)) \/ (root # NoPage /\ Whole(node, root))
<1>1. Empty(node, root) \/ Whole(node, root)
  BY DEF TreeInv, Quiet, Grow, Shrink
<1>2. ASSUME Whole(node, root) PROVE root # NoPage
  <2>1. PICK lo, hi, ht : Core(node, root, NoPage, lo, hi, hi, ht)
    BY <1>2 DEF Whole, WholeBy
  <2>2. root \in Pages
    BY <2>1, CoreTypes
  <2> QED BY <2>2, TreeAssumption
<1> QED BY <1>1, <1>2 DEF Empty

\* What a leaf is searched by.
LEMMA KeysOfLeaf == \A p : LeafKeys(p) = KeysOf(node[p].entries)
BY DEF LeafKeys, KeysOf

\* Insert into an empty tree.
LEMMA StepInsertFirst ==
  ASSUME TreeInv, NEW k \in Keys, NEW r \in Rids, InsertFirst(k, r)
  PROVE  TreeInv' /\ Gains(Stored(node), Stored(node'), Entry(k, r)) /\ KeepsLeaves(node, node')
<1>1. /\ fix = Quiet /\ root = NoPage /\ Cardinality(Free) > Len(<<>>) /\ root' = Fresh
      /\ node' = [node EXCEPT ![Fresh] = Leaf(<<Entry(k, r)>>, NoPage)] /\ fix' = fix
  BY DEF InsertFirst, RoomFor
<1>2. node = [p \in Pages |-> Unused]
  BY <1>1, QuietCases DEF Empty
<1>3. Cardinality(FreeIn(node)) > 0
  <2>1. Len(<<>>) = 0
    OBVIOUS
  <2> QED BY ONLY <2>1, <1>1, FreshOfState
<1>4. Fresh \in Pages
  BY ONLY <1>3, FreshPage, FreshOfState
<1>5. node' = [[p \in Pages |-> Unused] EXCEPT ![Fresh] = Leaf(<<Entry(k, r)>>, NoPage)]
  BY ONLY <1>1, <1>2
<1>6. Whole(node', Fresh) /\ Gains({}, Stored(node'), Entry(k, r))
  <2>1. PICK t2, q : t2 = node' /\ q = Fresh
    OBVIOUS
  <2>2. q \in Pages /\ t2 = [[p \in Pages |-> Unused] EXCEPT ![q] = Leaf(<<Entry(k, r)>>, NoPage)]
    BY ONLY <2>1, <1>4, <1>5
  <2>3. Whole(t2, q) /\ Gains({}, Stored(t2), Entry(k, r))
    BY ONLY <2>2, k \in Keys, r \in Rids, TreeOfOneLeaf
  <2> QED BY ONLY <2>1, <2>3
<1>7. fix' = Quiet /\ Whole(node', root')
  BY ONLY <1>1, <1>6
<1>8. Stored(node) = {}
  <2>1. LeavesIn(node) = {}
    BY ONLY <1>2 DEF LeavesIn, Unused
  <2> QED BY ONLY <2>1 DEF Stored, Within
<1>9. Gains(Stored(node), Stored(node'), Entry(k, r))
  BY ONLY <1>6, <1>8
<1>10. TreeInv'
  BY ONLY <1>7 DEF TreeInv
<1>11. KeepsLeaves(node, node')
  <2>1. PICK q, e : q = Fresh /\ e = <<Entry(k, r)>>
    OBVIOUS
  <2>2. node'[q] = Leaf(e, NoPage) /\ \A x \in Pages : x # q => node'[x] = Unused
    BY ONLY <2>1, <1>4, <1>5
  <2>3. LeavesIn(node) = {} /\ LeavesIn(node') \subseteq {q}
    BY ONLY <2>2, <1>2 DEF LeavesIn, Unused
  <2>4. Len(node'[q].entries) <= LeafMax
    <3>1. node'[q].entries = e
      BY ONLY <2>2 DEF Leaf
    <3>2. Len(e) = 1
      BY ONLY <2>1
    <3> QED BY ONLY <3>1, <3>2, TreeAssumption
  <2> QED BY ONLY <2>3, <2>4 DEF KeepsLeaves, LeavesFit
<1> QED BY ONLY <1>9, <1>10, <1>11

\* Insert into a leaf that stays below its maximum.
LEMMA StepInsertRoom ==
  ASSUME TreeInv, NEW k \in Keys, NEW r \in Rids, InsertRoom(k, r)
  PROVE  TreeInv' /\ Gains(Stored(node), Stored(node'), Entry(k, r)) /\ KeepsLeaves(node, node')
<1>1. PICK leaf : leaf = LeafFor(k)
  OBVIOUS
<1>2. /\ fix = Quiet /\ root # NoPage /\ ~Has(LeafKeys(leaf), k)
      /\ node' = [node EXCEPT ![leaf].entries = Inserted(leaf, k, r)]
      /\ root' = root /\ fix' = fix
  BY <1>1 DEF InsertRoom
<1>3. Whole(node, root)
  BY <1>2, QuietCases
<1>4. PICK lo, hi, ht : Core(node, root, NoPage, lo, hi, hi, ht) /\ Filled(node, root, NoPage)
  BY <1>3 DEF Whole, WholeBy
<1>5. leaf \in LeavesIn(node) /\ ht[leaf] = 0 /\ lo[leaf] <= k /\ k < hi[leaf]
  BY <1>1, <1>4, LeafFound
<1>6. node \in [Pages -> Nodes] /\ lo \in [Pages -> Int] /\ hi \in [Pages -> Int]
  BY <1>4 DEF Core, Ghosts
<1>7. leaf \in Pages /\ node[leaf].entries \in Seq(Entries)
  BY <1>5, <1>6, LeafNode
<1>8. PICK e : e = node[leaf].entries
  OBVIOUS
<1>9. PICK i, E : i = KeyIndex(KeysOf(e), k) /\ E = InsertAt(e, i, Entry(k, r))
  OBVIOUS
<1>10. Ordered(e, lo[leaf], hi[leaf])
  BY <1>4, <1>5, <1>8, LeafOrdered
<1>11. /\ i \in 1..(Len(e) + 1) /\ E \in Seq(Entries) /\ Ordered(E, lo[leaf], hi[leaf])
       /\ Len(E) = Len(e) + 1
  <2>1. lo[leaf] \in Int /\ hi[leaf] \in Int /\ e \in Seq(Entries) /\ ~Has(KeysOf(e), k)
    BY <1>2, <1>6, <1>7, <1>8, KeysOfLeaf
  <2> QED BY ONLY <2>1, <1>5, <1>9, <1>10, k \in Keys, r \in Rids, EntryInserted
<1>12. node' = Added(node, leaf, E)
  BY ONLY <1>2, <1>8, <1>9, KeysOfLeaf DEF Inserted, Added
<1>13. /\ Core(node', root, NoPage, lo, hi, hi, ht)
       /\ LeavesIn(node') = LeavesIn(node) /\ InternalsIn(node') = InternalsIn(node)
       /\ node'[leaf].entries = E
       /\ \A x \in Pages : x # leaf => node'[x] = node[x]
  BY ONLY <1>4, <1>5, <1>11, <1>12, LeafRefilled
<1>14. Filled(node', root, NoPage)
  <2>1. Len(E) > 0
    BY ONLY <1>7, <1>8, <1>11
  <2>2. \A x \in LeavesIn(node) : x \in Pages
    BY DEF LeavesIn
  <2>3. \A x \in InternalsIn(node) : x \in Pages /\ x # leaf
    BY <1>4, <1>5, CoreTypes
  <2> QED BY ONLY <2>1, <2>2, <2>3, <1>4, <1>13 DEF Filled
<1>15. Whole(node', root')
  BY ONLY <1>2, <1>13, <1>14 DEF Whole, WholeBy
<1>16. TreeInv'
  BY ONLY <1>2, <1>15 DEF TreeInv
<1>17. Gains(ToSet(e), ToSet(E), Entry(k, r))
  <2>1. Entry(k, r) \in Entries
    BY DEF Entry, Entries
  <2> QED BY ONLY <2>1, <1>7, <1>8, <1>9, <1>11, InsertedElements
<1>18. \A x : /\ x \in Stored(node) <=> x \in Rest(node, {leaf}) \/ x \in ToSet(e)
              /\ x \in Stored(node') <=> x \in Rest(node, {leaf}) \/ x \in ToSet(E)
  <2>1. \A x \in LeavesIn(node) : x # leaf => node'[x].entries = node[x].entries
    BY ONLY <1>13 DEF LeavesIn
  <2> QED BY ONLY <2>1, <1>5, <1>8, <1>13, LeafStored
<1>19. Gains(Stored(node), Stored(node'), Entry(k, r))
  BY ONLY <1>17, <1>18 DEF Gains
<1>20. KeepsLeaves(node, node')
  <2>1. Len(node[leaf].entries) < LeafMax
    BY <1>1 DEF InsertRoom
  <2>2. Len(E) <= LeafMax
    BY ONLY <2>1, <1>7, <1>8, <1>11, TreeAssumption
  <2>3. LeavesFit(node) => Len(node'[leaf].entries) <= LeafMax
    BY ONLY <2>2, <1>13
  <2>4. OnlyAt(node, node', leaf)
    BY ONLY <1>13 DEF OnlyAt
  <2> QED BY ONLY <2>3, <2>4, OneLeafChanged
<1> QED BY ONLY <1>16, <1>19, <1>20

\* The middle of what has n elements, n being the maximum or more.
LEMMA LeastWithin ==
  /\ \A n \in Nat : n >= LeafMax => Least(LeafMax) \in 1..(n - 1)
  /\ \A n \in Nat : n >= InternalMax =>
        Least(InternalMax) \in 1..n /\ n + 1 - Least(InternalMax) >= Least(InternalMax)
BY TreeAssumption DEF Least

\* Insert into a leaf that is full: the leaf is split, its parent is still to be told.
LEMMA StepInsertSplit ==
  ASSUME TreeInv, NEW k \in Keys, NEW r \in Rids, InsertSplit(k, r)
  PROVE  TreeInv' /\ Gains(Stored(node), Stored(node'), Entry(k, r)) /\ KeepsLeaves(node, node')
<1>1. PICK path, leaf, n : path = Path(k) /\ leaf = Last(path) /\ n = node[leaf]
  OBVIOUS
<1>2. PICK e, i, m : e = n.entries /\ i = KeyIndex(LeafKeys(leaf), k) /\ m = Least(LeafMax)
  OBVIOUS
<1>3. PICK left, right : left = SubSeq(e, 1, m) /\ right = SubSeq(e, m + 1, Len(e))
  OBVIOUS
<1>4. PICK first, second : /\ first = IF i <= m THEN InsertAt(left, i, Entry(k, r)) ELSE left
                           /\ second = IF i <= m THEN right ELSE InsertAt(right, i - m, Entry(k, r))
  OBVIOUS
<1>5. /\ fix = Quiet /\ root # NoPage /\ Cardinality(Free) > Len(path)
      /\ ~Has(LeafKeys(leaf), k) /\ Len(e) >= LeafMax
      /\ node' = [node EXCEPT ![leaf] = Leaf(first, Fresh), ![Fresh] = Leaf(second, n.next)]
      /\ fix' = Grow(Front(path), leaf, second[1].key, Fresh) /\ root' = root
  BY <1>1, <1>2, <1>3, <1>4 DEF InsertSplit, RoomFor, Chained
<1>6. Whole(node, root)
  BY <1>5, QuietCases
<1>7. PICK lo, hi, ht : Core(node, root, NoPage, lo, hi, hi, ht) /\ Filled(node, root, NoPage)
  BY <1>6 DEF Whole, WholeBy
<1>8. leaf = LeafFor(k)
  BY <1>1 DEF LeafFor
<1>9. /\ leaf \in LeavesIn(node) /\ leaf \in NodesIn(node) /\ ht[leaf] = 0 /\ lo[leaf] <= k /\ k < hi[leaf]
      /\ Len(path) = ht[root] + 1 /\ Len(Front(path)) = ht[root] /\ ht[root] \in Nat
      /\ Route(node, root, lo, hi, ht, Front(path), k, 0)
  BY ONLY <1>1, <1>7, <1>8, k \in Keys, LeafFound
<1>10. node \in [Pages -> Nodes] /\ Ghosts(lo, hi, ht)
  BY <1>7 DEF Core
<1>11. leaf \in Pages /\ e \in Seq(Entries)
  BY <1>1, <1>2, <1>9, <1>10, LeafNode
<1>12. PICK q : q = Fresh
  OBVIOUS
<1>13. /\ q \in FreeIn(node) /\ q \in Pages
       /\ Cardinality(FreeIn(node) \ {q}) > Len(Front(path))
  <2>1. PICK h \in Nat : h = ht[root]
    BY <1>9
  <2>2. Cardinality(FreeIn(node)) > h + 1 /\ h + 1 \in Nat
    BY ONLY <2>1, <1>5, <1>9, FreshOfState
  <2>3. /\ FreshIn(node) \in FreeIn(node) /\ FreshIn(node) \in Pages
        /\ \A x \in Nat : h + 1 = x + 1 => Cardinality(FreeIn(node) \ {FreshIn(node)}) > x
    BY ONLY <2>2, FreshPage
  <2>4. Cardinality(FreeIn(node) \ {FreshIn(node)}) > h
    BY ONLY <2>1, <2>3
  <2> QED BY ONLY <2>1, <2>3, <2>4, <1>9, <1>12, FreshOfState
<1>14. PICK a \in Int, b \in Int : a = lo[leaf] /\ b = hi[leaf]
  BY <1>10, <1>11 DEF Ghosts
<1>15. Ordered(e, a, b)
  BY <1>1, <1>2, <1>7, <1>9, <1>14, LeafOrdered
<1>16. PICK E : E = InsertAt(e, i, Entry(k, r))
  OBVIOUS
<1>17. ~Has(KeysOf(e), k) /\ i = KeyIndex(KeysOf(e), k)
  BY ONLY <1>1, <1>2, <1>5, KeysOfLeaf
<1>18. i \in 1..(Len(e) + 1) /\ E \in Seq(Entries) /\ Ordered(E, a, b)
  BY ONLY <1>9, <1>11, <1>14, <1>15, <1>16, <1>17, k \in Keys, r \in Rids, EntryInserted
<1>19. PICK N \in Nat : N = Len(e)
  BY <1>11
<1>20. m \in 1..(N - 1) /\ m \in Int
  <2>1. m \in 1..(N - 1)
    BY ONLY <1>2, <1>5, <1>19, LeastWithin
  <2> QED BY ONLY <2>1
<1>21. Entry(k, r) \in Entries
  BY DEF Entry, Entries
<1>22. /\ first \in Seq(Entries) /\ second \in Seq(Entries) /\ Len(first) > 0 /\ Len(second) > 0
       /\ IsSplit(E, first, second)
  <2>1. /\ left = SubSeq(e, 1, m) /\ right = SubSeq(e, m + 1, N) /\ i \in 1..(N + 1)
    BY ONLY <1>3, <1>18, <1>19
  <2>2. PICK x \in Entries : x = Entry(k, r)
    BY ONLY <1>21
  <2>3. Dealt(e, N, i, x, m, first, second)
    BY ONLY <2>1, <1>4, <2>2 DEF Dealt
  <2>4. /\ first \in Seq(Entries) /\ second \in Seq(Entries) /\ Len(first) > 0 /\ Len(second) > 0
        /\ IsSplit(InsertAt(e, i, x), first, second)
    BY ONLY <2>1, <2>3, <1>11, <1>19, <1>20, HalvesSplit
  <2> QED BY ONLY <2>2, <2>4, <1>16
<1>23. PICK key : key = second[1].key
  OBVIOUS
<1>24. /\ key \in Keys /\ key \in Int /\ a < key /\ key < b
       /\ Ordered(first, a, key) /\ Ordered(second, key, b)
  BY ONLY <1>14, <1>18, <1>22, <1>23, OrderedSplit
<1>25. node' = CutLeafAt(node, leaf, first, second, q)
  BY ONLY <1>1, <1>5, <1>12 DEF CutLeafAt
<1>26. PICK t2 : t2 = node'
  OBVIOUS
<1>27. PICK lo2, hi2, ht2 : CutGhosts(lo, hi, ht, leaf, key, q, lo2, hi2, ht2)
  BY DEF CutGhosts
<1>28. /\ Core(t2, root, q, lo2, hi2, Tops(hi2, leaf, q), ht2)
       /\ Pending(t2, lo2, hi2, ht2, leaf, key, q) /\ Cut(node, leaf, q, t2)
  <2>1. lo[leaf] < key /\ key < hi[leaf] /\ Ordered(first, lo[leaf], key) /\ Ordered(second, key, hi[leaf])
    BY ONLY <1>14, <1>24
  <2>2. t2 = CutLeafAt(node, leaf, first, second, q)
    BY ONLY <1>25, <1>26
  <2> QED BY ONLY <2>1, <2>2, <1>7, <1>9, <1>13, <1>22, <1>24, <1>27, LeafCut
<1>29. t2[leaf] = Leaf(first, q) /\ t2[q] = Leaf(second, node[leaf].next) /\ leaf # q
  <2>1. leaf # q
    BY <1>9, <1>10, <1>13, PageKinds
  <2> QED BY ONLY <2>1, <1>10, <1>11, <1>13, <1>25, <1>26 DEF CutLeafAt
<1>30. Filled(t2, root, NoPage) /\ Enough(t2[leaf])
  <2>1. /\ LeavesIn(t2) = LeavesIn(node) \cup {q} /\ InternalsIn(t2) = InternalsIn(node)
        /\ leaf \in Pages /\ q \in Pages
    BY <1>9, <1>10, <1>28, CutNodes
  <2>2. \A x \in Pages : x # leaf /\ x # q => t2[x] = node[x]
    BY <1>28 DEF Cut
  <2>3. t2[leaf].entries = first /\ t2[q].entries = second /\ t2[leaf].kind = "leaf"
    BY ONLY <1>29 DEF Leaf
  <2>4. ASSUME NEW x \in LeavesIn(t2) PROVE Len(t2[x].entries) > 0
    <3>1. CASE x = leaf \/ x = q
      BY ONLY <3>1, <2>3, <1>22
    <3>2. CASE x # leaf /\ x # q
      <4>1. x \in LeavesIn(node) /\ x \in Pages
        BY <3>2, <2>1, <2>4 DEF LeavesIn
      <4> QED BY ONLY <4>1, <3>2, <2>2, <1>7 DEF Filled
    <3> QED BY <3>1, <3>2
  <2>5. \A x \in InternalsIn(t2) : t2[x] = node[x]
    <3>1. \A x \in InternalsIn(node) : x \in Pages /\ x # leaf /\ x # q
      BY <1>7, <1>9, <1>10, <1>13, CoreTypes, PageKinds
    <3> QED BY ONLY <3>1, <2>1, <2>2
  <2>6. Filled(t2, root, NoPage)
    BY ONLY <2>1, <2>4, <2>5, <1>7 DEF Filled
  <2>7. Enough(t2[leaf])
    <3>1. t2[leaf].kind # "internal"
      BY ONLY <2>3
    <3> QED BY ONLY <3>1, <2>3, <1>22 DEF Enough
  <2> QED BY <2>6, <2>7
<1>31. Growing(t2, root, Front(path), leaf, key, q)
  <2>1. Route(node, root, lo, hi, ht, Front(path), k, ht[leaf])
    BY ONLY <1>9
  <2> QED BY ONLY <2>1, <1>7, <1>9, <1>13, <1>24, <1>27, <1>28, <1>30, k \in Keys, CutGrows
<1>32. fix' = Grow(Front(path), leaf, key, q) /\ Growing(node', root', Front(path), leaf, key, q)
  BY ONLY <1>5, <1>12, <1>23, <1>26, <1>31
<1>33. TreeInv'
  BY ONLY <1>32 DEF TreeInv
<1>34. Gains(ToSet(e), ToSet(E), Entry(k, r))
  BY ONLY <1>11, <1>16, <1>18, <1>21, InsertedElements
<1>35. ToSet(E) = ToSet(first) \cup ToSet(second)
  BY ONLY <1>18, <1>22, SplitElements
<1>36. PICK D, D2 : D = {leaf} /\ D2 = {leaf, q}
  OBVIOUS
<1>37. InPlaceOf(node, D, t2, D2)
  <2>1. LeavesIn(t2) = LeavesIn(node) \cup {q} /\ q \notin LeavesIn(node)
    BY <1>9, <1>10, <1>13, <1>28, CutNodes, PageKinds DEF NodesIn
  <2>2. \A x \in LeavesIn(node) : x # leaf => t2[x].entries = node[x].entries
    <3>1. \A x \in Pages : x # leaf /\ x # q => t2[x] = node[x]
      BY <1>28 DEF Cut
    <3> QED BY ONLY <3>1, <2>1 DEF LeavesIn
  <2> QED BY ONLY <2>1, <2>2, <1>9, <1>36 DEF InPlaceOf
<1>38. \A x : /\ x \in Stored(node) <=> x \in Rest(node, D) \/ x \in Within(node, D)
              /\ x \in Stored(t2) <=> x \in Rest(node, D) \/ x \in Within(t2, D2)
  BY ONLY <1>37, StoredElsewhere
<1>39. Within(node, D) = ToSet(e) /\ Within(t2, D2) = ToSet(E)
  <2>1. node[leaf].entries = e /\ t2[leaf].entries = first /\ t2[q].entries = second
    BY ONLY <1>1, <1>2, <1>29 DEF Leaf
  <2>2. Within(node, D) = ToSet(e)
    BY ONLY <2>1, <1>36, WithinLeaves, Zenon
  <2>3. Within(t2, D2) = ToSet(first) \cup ToSet(second)
    BY ONLY <2>1, <1>36, WithinLeaves, Zenon
  <2> QED BY ONLY <2>2, <2>3, <1>35
<1>40. Gains(Stored(node), Stored(node'), Entry(k, r))
  BY ONLY <1>26, <1>34, <1>38, <1>39 DEF Gains
<1>41. KeepsLeaves(node, t2)
  <2>1. Len(E) = N + 1
    BY ONLY <1>9, <1>11, <1>14, <1>15, <1>16, <1>17, <1>19, k \in Keys, r \in Rids, EntryInserted
  <2>2. Len(first) <= N /\ Len(second) <= N
    <3>1. Len(E) = Len(first) + Len(second)
      BY ONLY <1>22 DEF IsSplit
    <3> QED BY ONLY <3>1, <2>1, <1>19, <1>22
  <2>3. LeavesFit(node) => N <= LeafMax
    BY ONLY <1>1, <1>2, <1>9, <1>19 DEF LeavesFit
  <2>4. LeavesFit(node) => Len(first) <= LeafMax /\ Len(second) <= LeafMax
    BY ONLY <2>2, <2>3, <1>19, <1>22, TreeAssumption
  <2>5. LeavesIn(t2) = LeavesIn(node) \cup {q} /\ leaf \in Pages /\ q \in Pages
    BY <1>9, <1>10, <1>28, CutNodes
  <2>6. \A x \in Pages : x # leaf /\ x # q => t2[x] = node[x]
    BY <1>28 DEF Cut
  <2>7. t2[leaf].entries = first /\ t2[q].entries = second
    BY ONLY <1>29 DEF Leaf
  <2>8. \A x \in Pages : x # leaf /\ x # q => (x \in LeavesIn(t2) => x \in LeavesIn(node) /\ t2[x] = node[x])
    BY ONLY <2>5, <2>6
  <2>9. \A x \in LeavesIn(node) : x # leaf /\ x # q => t2[x] = node[x]
    BY ONLY <2>6 DEF LeavesIn
  <2> QED BY ONLY <2>4, <2>5, <2>7, <2>8, <2>9, TwoLeavesChanged
<1>42. KeepsLeaves(node, node')
  BY ONLY <1>26, <1>41
<1> QED BY ONLY <1>33, <1>40, <1>42

-----------------------------------------------------------------------------
(* The way up after a split                                                *)

\* What is under way when fix says so.
LEMMA GrowCase ==
  ASSUME TreeInv, fix.kind = "grow"
  PROVE  Growing(node, root, fix.path, fix.left, fix.key, fix.child)
<1>1. PICK path, left, key, child :
         fix = Grow(path, left, key, child) /\ Growing(node, root, path, left, key, child)
  BY DEF TreeInv, Quiet, Shrink
<1>2. fix.path = path /\ fix.left = left /\ fix.key = key /\ fix.child = child
  BY ONLY <1>1 DEF Grow
<1> QED BY ONLY <1>1, <1>2

\* A split reaches the root.
LEMMA StepGrowRoot ==
  ASSUME TreeInv, GrowRoot
  PROVE  TreeInv' /\ Stored(node') = Stored(node) /\ KeepsLeaves(node, node')
<1>1. PICK path, left, key, child : path = fix.path /\ left = fix.left /\ key = fix.key /\ child = fix.child
  OBVIOUS
<1>2. /\ path = <<>> /\ root' = Fresh /\ fix' = Quiet
      /\ node' = [node EXCEPT ![Fresh] = Internal(<<key>>, <<left, child>>)]
      /\ Growing(node, root, path, left, key, child)
  BY <1>1, GrowCase DEF GrowRoot
<1>3. PICK lo, hi, ht : GrowingBy(node, root, path, left, key, child, lo, hi, ht)
  BY <1>2 DEF Growing
<1>4. /\ Loose(node, root, lo, hi, Tops(hi, left, child), ht, left, key, child)
      /\ Filled(node, root, NoPage) /\ Enough(node[left])
      /\ Cardinality(FreeIn(node)) > Len(path)
      /\ \E k \in Keys : Route(node, root, lo, hi, ht, path, k, ht[left])
  BY <1>3 DEF GrowingBy
<1>5. PICK top : top = Tops(hi, left, child)
  OBVIOUS
<1>6. Core(node, root, child, lo, hi, top, ht) /\ Pending(node, lo, hi, ht, left, key, child)
  BY ONLY <1>4, <1>5 DEF Loose
<1>7. left = root
  <2>1. ht[root] - ht[left] = 0
    <3>1. Len(path) = ht[root] - ht[left]
      BY <1>4 DEF Route
    <3>2. Len(path) = 0
      BY <1>2
    <3> QED BY <3>1, <3>2
  <2>2. /\ left \in NodesIn(node) /\ left # child /\ root \in NodesIn(node) /\ NodesIn(node) \subseteq Pages
        /\ \A p \in Pages : ht[p] \in Nat
        /\ InternalsIn(node) \subseteq NodesIn(node)
    BY <1>6, CoreTypes DEF Pending
  <2>3. /\ \A p \in NodesIn(node) : ht[p] <= ht[root]
        /\ left # root => \E q \in InternalsIn(node) : KidOf(node, q, left)
    BY <1>6, <2>2 DEF Core, Rooted
  <2>4. SUFFICES ASSUME left # root PROVE FALSE
    OBVIOUS
  <2>5. PICK q \in InternalsIn(node) : KidOf(node, q, left)
    BY <2>3, <2>4
  <2>6. PICK i \in 1..Len(node[q].kids) : node[q].kids[i] = left
    BY <2>5 DEF KidOf
  <2>7. ht[q] = ht[left] + 1
    BY ONLY <2>6, <1>6, KidFacts
  <2>8. ht[q] <= ht[root] /\ ht[left] \in Nat /\ ht[root] \in Nat
    BY <2>2, <2>3
  <2> QED BY ONLY <2>1, <2>7, <2>8
<1>8. Fresh \in FreeIn(node)
  <2>1. Len(path) = 0
    BY <1>2
  <2>2. Cardinality(FreeIn(node)) > 0
    BY ONLY <2>1, <1>4
  <2> QED BY ONLY <2>2, FreshPage, FreshOfState
<1>9. node' = RootOver(node, Fresh, root, key, child)
  BY ONLY <1>2, <1>7 DEF RootOver
<1>10. Whole(node', Fresh)
  BY ONLY <1>4, <1>7, <1>8, <1>9, NewRoot
<1>11. fix' = Quiet /\ Whole(node', root')
  BY ONLY <1>2, <1>10
<1>12. TreeInv'
  BY ONLY <1>11 DEF TreeInv
<1>13. Stored(node') = Stored(node) /\ KeepsLeaves(node, node')
  <2>1. PICK q, n : q = Fresh /\ n = Internal(<<key>>, <<left, child>>)
    OBVIOUS
  <2>2. n.kind # "leaf" /\ q \in Pages /\ node[q].kind # "leaf" /\ node' = [node EXCEPT ![q] = n]
    BY ONLY <2>1, <1>2, <1>8 DEF Internal, FreeIn, Unused
  <2>3. node \in [Pages -> Nodes]
    BY <1>6 DEF Core
  <2> QED BY ONLY <2>2, <2>3, NotALeaf
<1> QED BY ONLY <1>12, <1>13

\* A key has one place only.
LEMMA OnePlace ==
  ASSUME NEW keys \in Seq(Int), NEW k \in Int, NEW i, PlaceOf(keys, k, i),
         NEW j \in 1..(Len(keys) + 1),
         \A h \in 1..Len(keys) : (h < j => keys[h] < k) /\ (h >= j => k <= keys[h])
  PROVE  i = j
<1>1. PICK n \in Nat : n = Len(keys)
  OBVIOUS
<1>2. /\ i \in 1..(n + 1) /\ j \in 1..(n + 1)
      /\ \A h \in 1..n : (h < i => keys[h] < k) /\ (h >= i => k <= keys[h])
      /\ \A h \in 1..n : (h < j => keys[h] < k) /\ (h >= j => k <= keys[h])
      /\ \A h \in 1..n : keys[h] \in Int
  BY <1>1 DEF PlaceOf
<1>3. CASE i < j
  <2>1. i \in 1..n /\ i >= i
    BY ONLY <1>2, <1>3, n \in Nat
  <2>2. keys[i] < k /\ k <= keys[i] /\ keys[i] \in Int
    BY ONLY <2>1, <1>2, <1>3
  <2> QED BY ONLY <2>2, k \in Int
<1>4. CASE j < i
  <2>1. j \in 1..n /\ j >= j
    BY ONLY <1>2, <1>4, n \in Nat
  <2>2. keys[j] < k /\ k <= keys[j] /\ keys[j] \in Int
    BY ONLY <2>1, <1>2, <1>4
  <2> QED BY ONLY <2>2, k \in Int
<1> QED BY ONLY <1>2, <1>3, <1>4

\* GrowParent finds the parent of the node that was split, and the place beside it.
LEMMA PendingPlace ==
  ASSUME NEW t, NEW rt, NEW lo, NEW hi, NEW ht, NEW left, NEW key, NEW child,
         Loose(t, rt, lo, hi, Tops(hi, left, child), ht, left, key, child),
         NEW p \in InternalsIn(t), ht[p] = ht[left] + 1,
         NEW k \in Keys, lo[left] <= k, k < hi[child], lo[p] <= k, k < hi[p],
         NEW i, i = KeyIndex(t[p].keys, key)
  PROVE  i \in 1..Len(t[p].kids) /\ t[p].kids[i] = left
<1>1. PICK top : top = Tops(hi, left, child)
  OBVIOUS
<1>2. Core(t, rt, child, lo, hi, top, ht) /\ Pending(t, lo, hi, ht, left, key, child)
  BY <1>1 DEF Loose
<1>3. /\ t \in [Pages -> Nodes] /\ hi \in [Pages -> Int] /\ Sorted(t, lo, hi, ht) /\ Rooted(t, rt, child, lo, top, ht)
  BY <1>2 DEF Core, Ghosts
<1>4. /\ NodesIn(t) \subseteq Pages /\ InternalsIn(t) \subseteq NodesIn(t) /\ rt \in NodesIn(t)
      /\ \A x \in Pages : lo[x] \in Int /\ hi[x] \in Int /\ top[x] \in Int /\ ht[x] \in Nat
  BY <1>2, CoreTypes
<1>5. /\ left \in NodesIn(t) /\ child \in NodesIn(t) /\ left # child
      /\ key \in Keys /\ hi[left] = key /\ lo[child] = key
  BY <1>2 DEF Pending
<1>6. left \in Pages /\ child \in Pages /\ p \in Pages /\ p \in NodesIn(t) /\ rt \in Pages
  BY <1>4, <1>5
<1>7. lo[left] < key /\ key < hi[child] /\ top[left] = hi[child]
  <2>1. lo[left] < hi[left] /\ lo[child] < hi[child]
    BY <1>3, <1>5 DEF Sorted
  <2>2. top[left] = hi[child]
    BY <1>1, <1>3, <1>6 DEF Tops
  <2> QED BY ONLY <2>1, <2>2, <1>5
<1>8. left # rt
  <2>1. ht[p] <= ht[rt] /\ ht[left] \in Nat
    BY <1>3, <1>4, <1>6 DEF Rooted
  <2> QED BY <2>1
<1>9. PICK y \in InternalsIn(t) : KidOf(t, y, left)
  BY <1>3, <1>5, <1>8 DEF Rooted
<1>10. PICK j \in 1..Len(t[y].kids) : t[y].kids[j] = left
  BY <1>9 DEF KidOf
<1>11. /\ ht[y] = ht[left] + 1 /\ lo[left] = LowerOf(t, lo, y, j) /\ top[left] = UpperOf(t, hi, y, j)
       /\ lo[y] <= lo[left] /\ top[left] <= hi[y]
  BY <1>2, <1>10, KidFacts
<1>12. y = p
  <2>1. y \in NodesIn(t) /\ y \in Pages
    BY <1>4
  <2>2. lo[y] <= k /\ k < hi[y]
    <3>1. lo[y] \in Int /\ lo[left] \in Int /\ hi[y] \in Int /\ hi[child] \in Int /\ k \in Int
      BY <2>1, <1>4, <1>6, TreeAssumption
    <3> QED BY ONLY <3>1, <1>7, <1>11, lo[left] <= k, k < hi[child]
  <2>3. ht[y] = ht[p] /\ k \in Int
    BY <1>11, TreeAssumption
  <2> QED BY ONLY <2>1, <2>2, <2>3, <1>2, <1>6, lo[p] <= k, k < hi[p], SameNode
<1>13. SortedInternal(t, lo, hi, p)
  BY <1>3 DEF Sorted
<1>14. /\ t[p].keys \in Seq(Int) /\ Ascending(t[p].keys)
  BY ONLY <1>3, <1>13, p \in InternalsIn(t), InternalKeys
<1>15. t[p].keys \in Seq(Keys) /\ Len(t[p].kids) = Len(t[p].keys) + 1
  BY ONLY <1>3, p \in InternalsIn(t), InternalNode
<1>23. PICK keys : keys = t[p].keys
  OBVIOUS
<1>16. PICK n \in Nat : keys = t[p].keys /\ n = Len(keys)
  BY <1>14, <1>23
<1>17. /\ keys \in Seq(Int) /\ Ascending(keys) /\ Len(t[p].kids) = n + 1 /\ j \in 1..(n + 1)
       /\ \A h \in 1..n : keys[h] \in Int
       /\ lo[left] = (IF j = 1 THEN lo[p] ELSE keys[j - 1])
       /\ top[left] = (IF j = n + 1 THEN hi[p] ELSE keys[j])
  <2>1. keys \in Seq(Int) /\ Ascending(keys) /\ Len(t[p].kids) = n + 1 /\ j \in 1..(n + 1)
    BY ONLY <1>10, <1>12, <1>14, <1>15, <1>16
  <2>2. lo[left] = (IF j = 1 THEN lo[p] ELSE keys[j - 1])
    BY ONLY <1>11, <1>12, <1>16 DEF LowerOf
  <2>3. top[left] = (IF j = n + 1 THEN hi[p] ELSE keys[j])
    BY ONLY <1>11, <1>12, <1>16, <2>1 DEF UpperOf
  <2>4. \A h \in 1..n : keys[h] \in Int
    BY ONLY <2>1, <1>16
  <2> QED BY ONLY <2>1, <2>2, <2>3, <2>4
<1>18. \A u, v \in 1..n : u < v => keys[u] < keys[v]
  BY ONLY <1>16, <1>17 DEF Ascending
<1>19. key \in Int
  BY <1>5, TreeAssumption
<1>20. ASSUME NEW h \in 1..n PROVE (h < j => keys[h] < key) /\ (h >= j => key <= keys[h])
  <2>1. ASSUME h < j PROVE keys[h] < key
    <3>1. j - 1 \in 1..n /\ j # 1 /\ (h = j - 1 \/ h < j - 1)
      BY ONLY <1>17, <2>1, h \in 1..n, n \in Nat
    <3>2. keys[j - 1] < key /\ keys[j - 1] \in Int
      BY ONLY <3>1, <1>7, <1>17
    <3>3. keys[h] \in Int /\ (h = j - 1 \/ keys[h] < keys[j - 1])
      BY ONLY <3>1, <1>17, <1>18, h \in 1..n
    <3> QED BY ONLY <3>2, <3>3, <1>19
  <2>2. ASSUME h >= j PROVE key <= keys[h]
    <3>1. j \in 1..n /\ j # n + 1 /\ (h = j \/ j < h)
      BY ONLY <1>17, <2>2, h \in 1..n, n \in Nat
    <3>2. key < keys[j] /\ keys[j] \in Int
      BY ONLY <3>1, <1>7, <1>17
    <3>3. keys[h] \in Int /\ (h = j \/ keys[j] < keys[h])
      BY ONLY <3>1, <1>17, <1>18, h \in 1..n
    <3> QED BY ONLY <3>2, <3>3, <1>19
  <2> QED BY ONLY <2>1, <2>2
<1>21. PlaceOf(keys, key, i)
  BY ONLY <1>16, <1>17, <1>19, i = KeyIndex(t[p].keys, key), SearchFinds
<1>22. i = j
  <2>1. j \in 1..(Len(keys) + 1) /\ PlaceOf(keys, key, i)
    BY ONLY <1>16, <1>17, <1>21
  <2>2. \A h \in 1..Len(keys) : (h < j => keys[h] < key) /\ (h >= j => key <= keys[h])
    BY ONLY <1>16, <1>20
  <2> QED BY ONLY <2>1, <2>2, <1>17, <1>19, OnePlace
<1> QED BY ONLY <1>10, <1>12, <1>22

\* A route in a table whose internal nodes are the same.
LEMMA RouteKept ==
  ASSUME NEW t, NEW rt, NEW lo, NEW hi, NEW ht, NEW path, NEW k, NEW h,
         Route(t, rt, lo, hi, ht, path, k, h), NEW t2, InternalsIn(t) \subseteq InternalsIn(t2)
  PROVE  Route(t2, rt, lo, hi, ht, path, k, h)
BY DEF Route

\* A split goes into the parent, which may have to be split in turn.
LEMMA StepGrowParent ==
  ASSUME TreeInv, GrowParent
  PROVE  TreeInv' /\ Stored(node') = Stored(node) /\ KeepsLeaves(node, node')
<1>1. PICK path, left, key, child : path = fix.path /\ left = fix.left /\ key = fix.key /\ child = fix.child
  OBVIOUS
<1>2. PICK p, n, m, q : /\ p = Last(path) /\ n = Adopted(node[p], key, child)
                        /\ m = Least(InternalMax) /\ q = Fresh
  OBVIOUS
<1>3. /\ path # <<>> /\ root' = root /\ Growing(node, root, path, left, key, child)
      /\ Len(node[p].kids) < InternalMax => node' = [node EXCEPT ![p] = n] /\ fix' = Quiet
      /\ ~(Len(node[p].kids) < InternalMax) =>
            /\ node' = [node EXCEPT ![p] = Lower(n, m), ![q] = Upper(n, m)]
            /\ fix' = Grow(Front(path), p, n.keys[m], q)
  BY <1>1, <1>2, GrowCase DEF GrowParent
<1>4. PICK lo, hi, ht : GrowingBy(node, root, path, left, key, child, lo, hi, ht)
  BY <1>3 DEF Growing
<1>5. /\ Loose(node, root, lo, hi, Tops(hi, left, child), ht, left, key, child)
      /\ Filled(node, root, NoPage) /\ Cardinality(FreeIn(node)) > Len(path)
  BY <1>4 DEF GrowingBy
<1>6. PICK k \in Keys : Route(node, root, lo, hi, ht, path, k, ht[left]) /\ lo[left] <= k /\ k < hi[child]
  BY <1>4 DEF GrowingBy
<1>7. /\ node \in [Pages -> Nodes] /\ left \in NodesIn(node) /\ child \in NodesIn(node) /\ root \in NodesIn(node)
      /\ key \in Keys /\ NodesIn(node) \subseteq Pages /\ \A x \in Pages : ht[x] \in Nat
  <2>1. PICK top : top = Tops(hi, left, child)
    OBVIOUS
  <2>2. Core(node, root, child, lo, hi, top, ht) /\ Pending(node, lo, hi, ht, left, key, child)
    BY <2>1, <1>5 DEF Loose
  <2> QED BY <2>2, CoreTypes DEF Core, Pending
<1>8. /\ p \in InternalsIn(node) /\ ht[p] = ht[left] + 1 /\ lo[p] <= k /\ k < hi[p] /\ Len(path) \in Nat \ {0}
      /\ Front(path) \in Seq(Pages) /\ Len(Front(path)) = Len(path) - 1
      /\ Route(node, root, lo, hi, ht, Front(path), k, ht[left] + 1)
  <2>1. PICK h \in Nat : h = ht[left]
    BY <1>7
  <2>2. ht[root] \in Nat /\ Route(node, root, lo, hi, ht, path, k, h)
    BY <2>1, <1>6, <1>7
  <2>3. path # <<>> /\ p = Last(path)
    BY <1>2, <1>3
  <2>4. /\ p \in InternalsIn(node) /\ ht[p] = h + 1 /\ lo[p] <= k /\ k < hi[p] /\ Len(path) \in Nat \ {0}
        /\ Front(path) \in Seq(Pages) /\ Len(Front(path)) = Len(path) - 1
        /\ Route(node, root, lo, hi, ht, Front(path), k, h + 1)
    BY ONLY <2>2, <2>3, RouteEnd
  <2> QED BY ONLY <2>1, <2>4
<1>9. PICK i : i = KeyIndex(node[p].keys, key)
  OBVIOUS
<1>10. i \in 1..Len(node[p].kids) /\ node[p].kids[i] = left
  BY ONLY <1>5, <1>6, <1>8, <1>9, PendingPlace
<1>11. PICK t1 : t1 = Taken(node, p, i, key, child)
  OBVIOUS
<1>12. /\ Core(t1, root, NoPage, lo, hi, hi, ht) /\ t1 \in [Pages -> Nodes]
       /\ LeavesIn(t1) = LeavesIn(node) /\ InternalsIn(t1) = InternalsIn(node)
       /\ Len(t1[p].kids) = Len(node[p].kids) + 1
  BY ONLY <1>5, <1>8, <1>10, <1>11, ChildAdopted
<1>13. /\ p \in Pages /\ t1[p] = n /\ \A x \in Pages : x # p => t1[x] = node[x]
       /\ t1 = [node EXCEPT ![p] = n]
  <2>1. p \in Pages
    BY <1>8 DEF InternalsIn
  <2> QED BY ONLY <2>1, <1>2, <1>7, <1>9, <1>11 DEF Taken, Adopted
<1>14. PICK L \in Nat : L = Len(node[p].kids)
  <2>1. node[p].kids \in Seq(Pages)
    BY <1>7, <1>8, InternalNode
  <2> QED BY <2>1
<1>15. L >= IF p = root THEN 2 ELSE Least(InternalMax)
  <2>1. p # NoPage
    BY <1>13, TreeAssumption
  <2> QED BY <2>1, <1>5, <1>8, <1>14 DEF Filled
<1>16. \A x \in NodesIn(node) : x # p => t1[x] = node[x]
  BY <1>7, <1>13
<1>17. NodesIn(t1) = NodesIn(node)
  BY <1>12 DEF NodesIn
<1>18. Stored(t1) = Stored(node) /\ KeepsLeaves(node, t1)
  <2>1. \A x \in LeavesIn(node) : x \in Pages /\ x # p
    BY ONLY <1>8 DEF LeavesIn, InternalsIn
  <2>2. \A x \in LeavesIn(node) : t1[x].entries = node[x].entries
    BY ONLY <2>1, <1>13
  <2> QED BY ONLY <2>2, <1>12, SameStored
<1>19. CASE L < InternalMax
  <2>1. node' = t1 /\ fix' = Quiet
    BY ONLY <1>3, <1>13, <1>14, <1>19
  <2>2. Filled(t1, root, NoPage)
    <3>1. ASSUME NEW x \in LeavesIn(t1) PROVE Len(t1[x].entries) > 0
      <4>1. x \in LeavesIn(node) /\ x \in NodesIn(node) /\ x # p
        BY <3>1, <1>7, <1>8, <1>12, PageKinds DEF NodesIn
      <4> QED BY <4>1, <1>5, <1>16 DEF Filled
    <3>2. ASSUME NEW x \in InternalsIn(t1)
          PROVE  Len(t1[x].kids) >= IF x = root THEN (IF x = NoPage THEN 1 ELSE 2)
                                    ELSE IF x = NoPage THEN Least(InternalMax) - 1 ELSE Least(InternalMax)
      <4>1. x \in InternalsIn(node) /\ x \in NodesIn(node) /\ x \in Pages /\ x # NoPage
        BY <3>2, <1>7, <1>12, TreeAssumption DEF NodesIn
      <4>2. CASE x = p
        <5>1. PICK a \in Nat : a = Least(InternalMax)
          BY LeastFacts
        <5>2. L + 1 >= IF p = root THEN 2 ELSE a
          BY ONLY <5>1, <1>15, L \in Nat
        <5> QED BY ONLY <4>1, <4>2, <5>1, <5>2, <1>12, <1>14
      <4>3. CASE x # p
        BY <4>1, <4>3, <1>5, <1>16 DEF Filled
      <4> QED BY <4>2, <4>3
    <3> QED BY ONLY <3>1, <3>2 DEF Filled
  <2>3. fix' = Quiet /\ Whole(node', root')
    BY ONLY <2>1, <2>2, <1>3, <1>12 DEF Whole, WholeBy
  <2>4. TreeInv'
    BY ONLY <2>3 DEF TreeInv
  <2> QED BY ONLY <2>1, <2>4, <1>18
<1>20. CASE ~(L < InternalMax)
  <2>1. /\ node' = [node EXCEPT ![p] = Lower(n, m), ![q] = Upper(n, m)]
        /\ fix' = Grow(Front(path), p, n.keys[m], q)
    BY ONLY <1>3, <1>14, <1>20
  <2>2. /\ q \in FreeIn(node) /\ q \in Pages
        /\ Cardinality(FreeIn(node) \ {q}) > Len(Front(path))
    <3>1. PICK h \in Nat : Len(path) = h + 1
      <4>1. Len(path) - 1 \in Nat /\ Len(path) = (Len(path) - 1) + 1
        BY ONLY <1>8
      <4> QED BY <4>1
    <3>2. Cardinality(FreeIn(node)) > h + 1 /\ h + 1 \in Nat
      BY ONLY <3>1, <1>5
    <3>3. /\ FreshIn(node) \in FreeIn(node) /\ FreshIn(node) \in Pages
          /\ \A x \in Nat : h + 1 = x + 1 => Cardinality(FreeIn(node) \ {FreshIn(node)}) > x
      BY ONLY <3>2, FreshPage
    <3>4. Cardinality(FreeIn(node) \ {FreshIn(node)}) > h
      BY ONLY <3>1, <3>3
    <3>5. Len(Front(path)) = h
      BY ONLY <3>1, <1>8
    <3> QED BY ONLY <3>3, <3>4, <3>5, <1>2, FreshOfState
  <2>3. FreeIn(t1) = FreeIn(node) /\ q # p
    <3>1. q # p
      BY <1>7, <1>8, <2>2, PageKinds DEF NodesIn
    <3>2. t1[p] # Unused /\ node[p] # Unused
      BY <1>7, <1>8, <1>12 DEF InternalsIn, Unused
    <3> QED BY <3>1, <3>2, <1>13 DEF FreeIn
  <2>4. /\ m \in 1..L /\ L + 1 - m >= m /\ m \in Nat
        /\ n.keys \in Seq(Keys) /\ n.kids \in Seq(Pages) /\ Len(n.keys) = L /\ Len(n.kids) = L + 1
    <3>1. m \in 1..L /\ L + 1 - m >= m
      <4>1. L >= InternalMax
        BY ONLY <1>20, L \in Nat, TreeAssumption
      <4> QED BY ONLY <4>1, <1>2, L \in Nat, LeastWithin
    <3>2. p \in InternalsIn(t1)
      BY <1>8, <1>12
    <3>3. n.keys \in Seq(Keys) /\ n.kids \in Seq(Pages) /\ Len(n.kids) = Len(n.keys) + 1
      BY ONLY <3>2, <1>12, <1>13, InternalNode
    <3>4. Len(n.kids) = L + 1
      BY ONLY <1>12, <1>13, <1>14
    <3>5. Len(n.keys) = L
      BY ONLY <3>3, <3>4, L \in Nat
    <3> QED BY ONLY <3>1, <3>3, <3>4, <3>5
  <2>5. PICK key2 : key2 = t1[p].keys[m]
    OBVIOUS
  <2>6. PICK lo2, hi2, ht2 : CutGhosts(lo, hi, ht, p, key2, q, lo2, hi2, ht2)
    BY DEF CutGhosts
  <2>7. PICK t2 : t2 = CutInternalAt(t1, p, m, q)
    OBVIOUS
  <2>8. node' = t2 /\ t2[p] = Lower(n, m) /\ t2[q] = Upper(n, m)
    BY ONLY <2>1, <2>2, <2>3, <2>7, <1>7, <1>12, <1>13 DEF CutInternalAt
  <2>9. /\ Core(t2, root, q, lo2, hi2, Tops(hi2, p, q), ht2)
        /\ Pending(t2, lo2, hi2, ht2, p, key2, q) /\ Cut(t1, p, q, t2)
    <3>1. p \in InternalsIn(t1) /\ q \in FreeIn(t1) /\ m \in 1..Len(t1[p].keys)
      BY ONLY <2>2, <2>3, <2>4, <1>8, <1>12, <1>13
    <3> QED BY ONLY <3>1, <2>5, <2>6, <2>7, <1>12, InternalCut
  <2>10. /\ Len(t2[p].kids) = m /\ Len(t2[q].kids) = L + 1 - m /\ t2[p].kind = "internal"
    BY ONLY <2>4, <2>8, L \in Nat, HalvesOf
  <2>11. Filled(t2, root, NoPage) /\ Enough(t2[p])
    <3>1. /\ LeavesIn(t2) = LeavesIn(t1) /\ InternalsIn(t2) = InternalsIn(t1) \cup {q}
      <4>1. p \in InternalsIn(t1)
        BY <1>8, <1>12
      <4> QED BY ONLY <4>1, <2>9, <1>12, CutNodes
    <3>2. \A x \in Pages : x # p /\ x # q => t2[x] = node[x]
      BY ONLY <2>9, <1>13 DEF Cut
    <3>3. m >= Least(InternalMax) /\ L + 1 - m >= Least(InternalMax) /\ m >= 2
      BY ONLY <1>2, <2>4, LeastFacts
    <3>4. ASSUME NEW x \in LeavesIn(t2) PROVE Len(t2[x].entries) > 0
      <4>1. x \in LeavesIn(node) /\ x \in Pages /\ x # p /\ x # q
        BY <3>1, <3>4, <1>7, <1>8, <1>12, <2>2, PageKinds DEF NodesIn
      <4> QED BY <4>1, <3>2, <1>5 DEF Filled
    <3>5. q # root
      BY <1>7, <2>2, PageKinds
    <3>6. ASSUME NEW x \in InternalsIn(t2)
          PROVE  Len(t2[x].kids) >= IF x = root THEN (IF x = NoPage THEN 1 ELSE 2)
                                    ELSE IF x = NoPage THEN Least(InternalMax) - 1 ELSE Least(InternalMax)
      <4>1. x # NoPage /\ x \in Pages
        BY <3>6, TreeAssumption DEF InternalsIn
      <4>2. CASE x = p
        BY ONLY <4>1, <4>2, <3>3, <2>10
      <4>3. CASE x = q
        BY ONLY <4>1, <4>3, <3>3, <3>5, <2>10
      <4>4. CASE x # p /\ x # q
        <5>1. x \in InternalsIn(node)
          BY <4>4, <3>1, <1>12
        <5> QED BY ONLY <5>1, <4>1, <4>4, <3>2, <1>5 DEF Filled
      <4> QED BY ONLY <4>2, <4>3, <4>4
    <3>7. Filled(t2, root, NoPage)
      BY ONLY <3>4, <3>6 DEF Filled
    <3>8. Enough(t2[p])
      <4>1. t2[p].kind # "leaf"
        BY ONLY <2>10
      <4> QED BY ONLY <4>1, <2>10, <3>3 DEF Enough
    <3> QED BY ONLY <3>7, <3>8
  <2>12. Growing(t2, root, Front(path), p, key2, q)
    <3>1. Route(t1, root, lo, hi, ht, Front(path), k, ht[p])
      <4>1. Route(node, root, lo, hi, ht, Front(path), k, ht[p])
        BY ONLY <1>8
      <4> QED BY ONLY <4>1, <1>12, RouteKept
    <3>2. key2 \in Keys
      BY ONLY <2>4, <2>5, <1>13, L \in Nat
    <3>3. Cardinality(FreeIn(t1) \ {q}) > Len(Front(path))
      BY ONLY <2>2, <2>3
    <3> QED BY ONLY <3>1, <3>2, <3>3, <2>6, <2>9, <2>11, <1>8, <1>12, k \in Keys, CutGrows
  <2>13. fix' = Grow(Front(path), p, key2, q) /\ Growing(node', root', Front(path), p, key2, q)
    BY ONLY <2>1, <2>5, <2>8, <2>12, <1>3, <1>13
  <2>14. TreeInv'
    BY ONLY <2>13 DEF TreeInv
  <2>15. Stored(t2) = Stored(t1) /\ KeepsLeaves(t1, t2)
    <3>1. LeavesIn(t2) = LeavesIn(t1)
      <4>1. p \in InternalsIn(t1)
        BY <1>8, <1>12
      <4> QED BY ONLY <4>1, <2>9, <1>12, CutNodes
    <3>2. \A x \in LeavesIn(t1) : x \in Pages /\ x # p /\ x # q
      <4>1. p \in InternalsIn(t1) /\ q \in FreeIn(t1)
        BY ONLY <2>2, <2>3, <1>8, <1>12
      <4> QED BY ONLY <4>1 DEF LeavesIn, InternalsIn, FreeIn, Unused
    <3>3. \A x \in LeavesIn(t1) : t2[x].entries = t1[x].entries
      BY ONLY <3>2, <2>9 DEF Cut
    <3> QED BY ONLY <3>1, <3>3, SameStored
  <2>16. KeepsLeaves(node, t2)
    <3>1. LeavesIn(t1) = LeavesIn(node)
      BY ONLY <1>12
    <3> QED BY ONLY <3>1, <2>15, <1>18 DEF KeepsLeaves
  <2> QED BY ONLY <2>8, <2>14, <2>15, <2>16, <1>18
<1> QED BY <1>19, <1>20

-----------------------------------------------------------------------------
(* Remove                                                                  *)

\* The other leaves have no entry for a key that leaf answers for.
LEMMA KeyElsewhere ==
  ASSUME NEW t, NEW rt, NEW lo, NEW hi, NEW ht, Core(t, rt, NoPage, lo, hi, hi, ht),
         NEW k \in Keys, NEW leaf \in LeavesIn(t), lo[leaf] <= k, k < hi[leaf],
         NEW x \in Rest(t, {leaf})
  PROVE  x.key # k
<1>0. Core(t, rt, NoPage, lo, hi, hi, ht) /\ k \in Int
  BY TreeAssumption
<1>1. SUFFICES ASSUME x.key = k PROVE FALSE
  OBVIOUS
<1>2. PICK q \in LeavesIn(t) : q # leaf /\ x \in ToSet(t[q].entries)
  BY ONLY x \in Rest(t, {leaf}) DEF Rest, Within
<1>3. t[q].entries \in Seq(Entries)
  <2>1. t \in [Pages -> Nodes]
    BY ONLY <1>0 DEF Core
  <2> QED BY ONLY <2>1, q \in LeavesIn(t), LeafNode
<1>4. PICK i \in 1..Len(t[q].entries) : t[q].entries[i] = x
  BY ONLY <1>2, <1>3, ElementsOf
<1>5. lo[q] <= k /\ k < hi[q]
  <2>1. Ordered(t[q].entries, lo[q], hi[q])
    BY ONLY <1>0, q \in LeavesIn(t), LeafOrdered
  <2> QED BY ONLY <2>1, <1>1, <1>4 DEF Ordered
<1>6. /\ q \in NodesIn(t) /\ leaf \in NodesIn(t) /\ ht[q] = ht[leaf]
  <2>1. LeavesIn(t) \subseteq NodesIn(t)
    BY ONLY <1>0, CoreTypes
  <2>2. ht[q] = 0 /\ ht[leaf] = 0
    BY ONLY <1>0, q \in LeavesIn(t), leaf \in LeavesIn(t), LeafOrdered
  <2> QED BY ONLY <2>1, <2>2, q \in LeavesIn(t), leaf \in LeavesIn(t)
<1>7. q = leaf
  BY ONLY <1>0, <1>5, <1>6, lo[leaf] <= k, k < hi[leaf], SameNode
<1> QED BY ONLY <1>2, <1>7

\* The table once the entry of key k is taken out of leaf, and what is left there.
LEMMA EntryTaken ==
  ASSUME NEW lo, NEW hi, NEW ht, Core(node, root, NoPage, lo, hi, hi, ht), NEW k \in Keys,
         NEW leaf, leaf = LeafFor(k), Has(LeafKeys(leaf), k), NEW t, t = TakenOut(leaf, k)
  PROVE  /\ Core(t, root, NoPage, lo, hi, hi, ht)
         /\ LeavesIn(t) = LeavesIn(node) /\ InternalsIn(t) = InternalsIn(node)
         /\ leaf \in LeavesIn(node) /\ t[leaf].kind = "leaf" /\ Size(t[leaf]) \in Nat
         /\ Len(t[leaf].entries) = Size(t[leaf])
         /\ \A x \in Pages : x # leaf => t[x] = node[x]
         /\ Loses(Stored(node), Stored(t), k) /\ KeepsLeaves(node, t)
<1>1. leaf \in LeavesIn(node) /\ lo[leaf] <= k /\ k < hi[leaf]
  BY ONLY Core(node, root, NoPage, lo, hi, hi, ht), k \in Keys, leaf = LeafFor(k), LeafFound
<1>2. node \in [Pages -> Nodes]
  BY DEF Core
<1>3. PICK e, i, E : /\ e = node[leaf].entries /\ i = KeyIndex(KeysOf(e), k) /\ E = RemoveAt(e, i)
  OBVIOUS
<1>4. e \in Seq(Entries) /\ Ordered(e, lo[leaf], hi[leaf])
  BY <1>1, <1>2, <1>3, LeafNode, LeafOrdered
<1>5. E \in Seq(Entries) /\ Ordered(E, lo[leaf], hi[leaf])
  <2>1. Has(KeysOf(e), k)
    BY <1>3, KeysOfLeaf
  <2> QED BY ONLY <2>1, <1>3, <1>4, k \in Keys, EntryRemoved
<1>6. t = Added(node, leaf, E)
  <2>1. KeyIndex(LeafKeys(leaf), k) = i
    BY <1>3, KeysOfLeaf
  <2>2. t = [node EXCEPT ![leaf].entries = RemoveAt(node[leaf].entries, KeyIndex(LeafKeys(leaf), k))]
    BY DEF TakenOut
  <2> QED BY ONLY <2>1, <2>2, <1>3 DEF Added
<1>7. /\ Core(t, root, NoPage, lo, hi, hi, ht)
      /\ LeavesIn(t) = LeavesIn(node) /\ InternalsIn(t) = InternalsIn(node)
      /\ t[leaf].entries = E /\ t[leaf].kind = "leaf"
      /\ \A x \in Pages : x # leaf => t[x] = node[x]
  BY ONLY <1>1, <1>5, <1>6, Core(node, root, NoPage, lo, hi, hi, ht), LeafRefilled
<1>8. Size(t[leaf]) = Len(E) /\ Len(E) \in Nat
  BY ONLY <1>5, <1>7 DEF Size
<1>9. Loses(ToSet(e), ToSet(E), k)
  <2>1. Has(KeysOf(e), k)
    BY <1>3, KeysOfLeaf
  <2> QED BY ONLY <2>1, <1>3, <1>4, k \in Keys, RemovedElements
<1>10. \A x : /\ x \in Stored(node) <=> x \in Rest(node, {leaf}) \/ x \in ToSet(e)
              /\ x \in Stored(t) <=> x \in Rest(node, {leaf}) \/ x \in ToSet(E)
  <2>1. \A x \in LeavesIn(node) : x # leaf => t[x].entries = node[x].entries
    BY ONLY <1>7 DEF LeavesIn
  <2> QED BY ONLY <2>1, <1>1, <1>3, <1>7, LeafStored
<1>11. ASSUME NEW x \in Rest(node, {leaf}) PROVE x.key # k
  BY ONLY <1>1, Core(node, root, NoPage, lo, hi, hi, ht), k \in Keys, x \in Rest(node, {leaf}), KeyElsewhere
<1>12. Loses(Stored(node), Stored(t), k)
  BY ONLY <1>9, <1>10, <1>11 DEF Loses
<1>13. KeepsLeaves(node, t)
  <2>1. Len(E) <= Len(e)
    <3>1. Has(KeysOf(e), k)
      BY <1>3, KeysOfLeaf
    <3> QED BY ONLY <3>1, <1>3, <1>4, k \in Keys, EntryRemoved
  <2>2. LeavesFit(node) => Len(e) <= LeafMax
    BY ONLY <1>1, <1>3 DEF LeavesFit
  <2>3. LeavesFit(node) => Len(E) <= LeafMax
    BY ONLY <2>1, <2>2, <1>4, <1>5, TreeAssumption
  <2>4. LeavesFit(node) => Len(t[leaf].entries) <= LeafMax
    BY ONLY <2>3, <1>7
  <2>5. OnlyAt(node, t, leaf)
    BY ONLY <1>7 DEF OnlyAt
  <2> QED BY ONLY <2>4, <2>5, OneLeafChanged
<1> QED BY ONLY <1>1, <1>7, <1>8, <1>12, <1>13

\* A tree whose root is a leaf has no other node.
LEMMA OnlyLeaf ==
  ASSUME NEW t, NEW rt, NEW lo, NEW hi, NEW ht, Core(t, rt, NoPage, lo, hi, hi, ht),
         rt \in LeavesIn(t)
  PROVE  NodesIn(t) = {rt}
<1>1. /\ \A p \in NodesIn(t) : ht[p] <= ht[rt] /\ (p # rt /\ p # NoPage => \E q \in InternalsIn(t) : KidOf(t, q, p))
  BY DEF Core, Rooted
<1>2. /\ NodesIn(t) \subseteq Pages /\ InternalsIn(t) \subseteq NodesIn(t) /\ rt \in NodesIn(t)
      /\ \A p \in Pages : ht[p] \in Nat
  BY CoreTypes
<1>3. ht[rt] = 0 /\ \A p \in InternalsIn(t) : ht[p] # 0
  BY <1>2, KindHeight
<1>4. ASSUME NEW p \in NodesIn(t) PROVE p = rt
  <2>1. SUFFICES ASSUME p # rt PROVE FALSE
    OBVIOUS
  <2>2. p # NoPage
    BY <1>2, TreeAssumption
  <2>3. PICK q \in InternalsIn(t) : KidOf(t, q, p)
    BY <2>1, <2>2, <1>1
  <2>4. q \in NodesIn(t) /\ q \in Pages /\ ht[q] # 0
    BY <1>2, <1>3
  <2>5. ht[q] <= 0 /\ ht[q] \in Nat
    BY <2>4, <1>1, <1>2, <1>3
  <2> QED BY ONLY <2>4, <2>5
<1> QED BY <1>2, <1>4

\* Remove that leaves its leaf filled, or a root leaf.
LEMMA StepRemoveEntry ==
  ASSUME TreeInv, NEW k \in Keys, RemoveEntry(k)
  PROVE  TreeInv' /\ Loses(Stored(node), Stored(node'), k) /\ KeepsLeaves(node, node')
<1>1. PICK leaf, t : leaf = LeafFor(k) /\ t = TakenOut(leaf, k)
  OBVIOUS
<1>2. /\ fix = Quiet /\ root # NoPage /\ Has(LeafKeys(leaf), k) /\ fix' = fix
      /\ Size(t[leaf]) >= MinSize(t[leaf]) \/ leaf = root
      /\ Size(t[leaf]) = 0 => root' = NoPage /\ node' = [t EXCEPT ![leaf] = Unused]
      /\ Size(t[leaf]) # 0 => root' = root /\ node' = t
  BY <1>1 DEF RemoveEntry
<1>3. PICK lo, hi, ht : Core(node, root, NoPage, lo, hi, hi, ht) /\ Filled(node, root, NoPage)
  BY <1>2, QuietCases DEF Whole, WholeBy
<1>4. /\ Core(t, root, NoPage, lo, hi, hi, ht)
      /\ LeavesIn(t) = LeavesIn(node) /\ InternalsIn(t) = InternalsIn(node)
      /\ leaf \in LeavesIn(node) /\ t[leaf].kind = "leaf" /\ Size(t[leaf]) \in Nat
      /\ Len(t[leaf].entries) = Size(t[leaf])
      /\ \A x \in Pages : x # leaf => t[x] = node[x]
      /\ Loses(Stored(node), Stored(t), k) /\ KeepsLeaves(node, t)
  BY ONLY <1>1, <1>2, <1>3, k \in Keys, EntryTaken
<1>5. CASE Size(t[leaf]) # 0
  <2>1. root' = root /\ node' = t
    BY <1>2, <1>5
  <2>2. Filled(t, root, NoPage)
    <3>1. \A x \in LeavesIn(node) : x \in Pages
      BY DEF LeavesIn
    <3>2. \A x \in InternalsIn(node) : x \in Pages /\ x # leaf
      BY <1>3, <1>4, CoreTypes
    <3>3. Len(t[leaf].entries) > 0
      BY ONLY <1>4, <1>5
    <3> QED BY ONLY <3>1, <3>2, <3>3, <1>3, <1>4 DEF Filled
  <2>3. fix' = Quiet /\ Whole(node', root')
    BY ONLY <2>1, <2>2, <1>2, <1>4 DEF Whole, WholeBy
  <2>4. TreeInv'
    BY ONLY <2>3 DEF TreeInv
  <2> QED BY ONLY <2>1, <2>4, <1>4
<1>6. CASE Size(t[leaf]) = 0
  <2>1. root' = NoPage /\ node' = [t EXCEPT ![leaf] = Unused]
    BY <1>2, <1>6
  <2>2. leaf = root
    <3>1. MinSize(t[leaf]) = Least(LeafMax)
      BY ONLY <1>4 DEF MinSize
    <3>2. ~(0 >= Least(LeafMax))
      BY LeastFacts
    <3> QED BY ONLY <3>1, <3>2, <1>2, <1>6
  <2>3. t \in [Pages -> Nodes] /\ NodesIn(t) = {leaf}
    BY <2>2, <1>4, OnlyLeaf DEF Core
  <2>4. \A x \in Pages : x # leaf => t[x] = Unused
    BY ONLY <2>3, PageKinds DEF FreeIn, NodesIn
  <2>5. node' = [p \in Pages |-> Unused]
    BY ONLY <2>1, <2>3, <2>4
  <2>6. fix' = Quiet /\ Empty(node', root')
    BY ONLY <2>1, <2>5, <1>2 DEF Empty
  <2>7. TreeInv'
    BY ONLY <2>6 DEF TreeInv
  <2>8. Stored(t) = {} /\ Stored(node') = {}
    <3>1. LeavesIn(t) = {leaf} /\ LeavesIn(node') = {}
      <4>1. LeavesIn(t) \subseteq NodesIn(t) /\ leaf \in LeavesIn(t)
        BY ONLY <1>4 DEF NodesIn
      <4>2. LeavesIn(t) = {leaf}
        BY ONLY <4>1, <2>3
      <4>3. LeavesIn(node') = {}
        BY ONLY <2>5 DEF LeavesIn, Unused
      <4> QED BY ONLY <4>2, <4>3
    <3>2. t[leaf].entries = <<>>
      <4>1. t[leaf].entries \in Seq(Entries) /\ Len(t[leaf].entries) = 0
        BY ONLY <2>3, <1>4, <1>6, LeafNode
      <4> QED BY ONLY <4>1
    <3>3. \A x : x \notin ToSet(<<>>)
      BY DEF ToSet
    <3> QED BY ONLY <3>1, <3>2, <3>3 DEF Stored, Within
  <2>9. KeepsLeaves(node, node')
    <3>1. \A x \in Pages : node'[x] = Unused
      BY ONLY <2>5
    <3>2. LeavesIn(node') = {} /\ LeavesIn(node) \subseteq Pages
      BY ONLY <2>5 DEF LeavesIn, Unused
    <3> QED BY ONLY <3>1, <3>2 DEF KeepsLeaves, LeavesFit
  <2> QED BY ONLY <2>7, <2>8, <2>9, <1>4
<1> QED BY <1>5, <1>6

-----------------------------------------------------------------------------
(* A leaf that lacks entries                                               *)

\* Child c of p, which the path leads to on the way to k, has one entry or child too few.
Refillable(t, rt, lo, hi, ht, path, p, c, k) ==
    /\ Core(t, rt, NoPage, lo, hi, hi, ht)
    /\ p \in InternalsIn(t) /\ c \in 1..Len(t[p].kids) /\ FilledBut(t, rt, t[p].kids[c])
    /\ k \in Keys /\ lo[p] <= k /\ k < hi[p] /\ Route(t, rt, lo, hi, ht, path, k, ht[p])

\* It is refilled: what Shrink records is then true of the table.
LEMMA RefillShrinks ==
  ASSUME NEW t, NEW rt, NEW lo, NEW hi, NEW ht, NEW path, NEW p, NEW c, NEW k,
         Refillable(t, rt, lo, hi, ht, path, p, c, k), NEW t2, t2 = Refilled(t, p, c)
  PROVE  Shrinking(t2, rt, path, p, k, t[p].keys[Between(t, p, c)]) /\ Stored(t2) = Stored(t)
<1>0. /\ Core(t, rt, NoPage, lo, hi, hi, ht)
      /\ p \in InternalsIn(t) /\ c \in 1..Len(t[p].kids) /\ FilledBut(t, rt, t[p].kids[c])
      /\ k \in Keys /\ lo[p] <= k /\ k < hi[p] /\ Route(t, rt, lo, hi, ht, path, k, ht[p])
  BY DEF Refillable
<1>1. PICK s, l, old, r : s = Between(t, p, c) /\ l = t[p].kids[s] /\ old = t[p].keys[s] /\ r = t[p].kids[s + 1]
  OBVIOUS
<1>2. Core(t, rt, NoPage, lo, hi, hi, ht)
  BY <1>0
<1>3. Neighbours(t, p, s, l, old, r) /\ Refitting(t, t2, rt, lo, hi, ht, p, l, r)
  <2>1. /\ Neighbours(t, p, s, t[p].kids[s], t[p].keys[s], t[p].kids[s + 1])
        /\ Refitting(t, t2, rt, lo, hi, ht, p, t[p].kids[s], t[p].kids[s + 1])
    BY <1>0, <1>1, RefilledCore
  <2> QED BY ONLY <2>1, <1>1
<1>4. /\ l \in NodesIn(t) /\ r \in NodesIn(t) /\ p \in NodesIn(t) /\ p \in Pages
      /\ l \in Pages /\ r \in Pages /\ l # r /\ l # p /\ r # p
      /\ ht[p] = ht[l] + 1 /\ ht[r] = ht[l] /\ ht[l] \in Nat
      /\ old \in Keys /\ old \in Int /\ lo[p] < old /\ old < hi[p] /\ lo[p] \in Int /\ hi[p] \in Int
  BY ONLY <1>2, <1>3, NeighbourFacts
<1>5. /\ Restored(t2, rt, lo, hi, ht, l, r) /\ Filled(t2, rt, p)
      /\ InternalsIn(t) \subseteq InternalsIn(t2) \cup {r}
      /\ \A x \in Pages : x # l /\ x # r /\ x # p => t2[x] = t[x]
      /\ Stored(t2) = Stored(t)
  BY ONLY <1>3 DEF Refitting
<1>6. PICK lo2, hi2, ht2 : Core(t2, rt, NoPage, lo2, hi2, hi2, ht2) /\ Agree(lo, hi, ht, l, r, lo2, hi2, ht2)
  BY ONLY <1>5 DEF Restored
<1>7. /\ \A x \in Pages : x # r => lo2[x] = lo[x]
      /\ \A x \in Pages : x # l => hi2[x] = hi[x]
      /\ \A x \in Pages : ht2[x] = ht[x]
  BY ONLY <1>6 DEF Agree
<1>8. p \in InternalsIn(t2) /\ lo2[p] <= k /\ k < hi2[p] /\ ht2[p] = ht[p]
  BY ONLY <1>0, <1>4, <1>5, <1>7
<1>9. /\ NodesIn(t) \subseteq Pages /\ rt \in NodesIn(t) /\ InternalsIn(t) \subseteq NodesIn(t)
      /\ \A x \in Pages : ht[x] \in Nat
  BY <1>0, CoreTypes
<1>10. /\ path \in Seq(Pages) /\ Len(path) = ht[rt] - ht[p]
       /\ \A i \in 1..Len(path) :
            /\ path[i] \in InternalsIn(t) /\ ht[path[i]] = ht[rt] + 1 - i
            /\ lo[path[i]] <= k /\ k < hi[path[i]]
  BY <1>0 DEF Route
<1>11. ASSUME NEW i \in 1..Len(path)
       PROVE  /\ path[i] \in Pages /\ path[i] \in InternalsIn(t) /\ ht[p] < ht[path[i]]
              /\ path[i] # l /\ path[i] # r /\ path[i] # p
  <2>1. PICK x : x = path[i]
    OBVIOUS
  <2>2. x \in InternalsIn(t) /\ x \in Pages /\ ht[x] = ht[rt] + 1 - i
    BY <2>1, <1>9, <1>10
  <2>3. PICK a \in Nat, b \in Nat : a = ht[rt] /\ b = ht[l] /\ ht[p] = b + 1
    BY <1>4, <1>9
  <2>4. i \in 1..(a - (b + 1))
    BY ONLY <2>3, <1>10, i \in 1..Len(path)
  <2>5. a + 1 - i > b + 1
    BY ONLY <2>3, <2>4
  <2>6. ht[x] = a + 1 - i /\ ht[r] = b /\ ht[l] = b /\ b + 1 < a + 1 - i /\ a + 1 - i # b /\ a + 1 - i # b + 1
    BY ONLY <2>2, <2>3, <2>4, <2>5, <1>4, SMTT(30)
  <2> QED BY ONLY <2>1, <2>2, <2>3, <2>6
<1>12. Route(t2, rt, lo2, hi2, ht2, path, k, ht2[p])
  <2>1. ht2[rt] = ht[rt]
    BY ONLY <1>7, <1>9
  <2>2. ASSUME NEW i \in 1..Len(path)
        PROVE  /\ path[i] \in InternalsIn(t2) /\ ht2[path[i]] = ht2[rt] + 1 - i
               /\ lo2[path[i]] <= k /\ k < hi2[path[i]]
    BY ONLY <2>1, <1>5, <1>7, <1>10, <1>11, i \in 1..Len(path)
  <2> QED BY ONLY <2>1, <2>2, <1>8, <1>10 DEF Route
<1>13. ASSUME NEW i \in 1..Len(path) PROVE ~KeyOf(t2, path[i], old)
  <2>1. PICK x : x = path[i]
    OBVIOUS
  <2>2. x \in InternalsIn(t) /\ t2[x] = t[x] /\ ht[p] < ht[x]
    BY ONLY <2>1, <1>5, <1>11, i \in 1..Len(path)
  <2>3. KeyOf(t2, x, old) => KeyOf(t, x, old)
    BY ONLY <2>2 DEF KeyOf
  <2>4. ~KeyOf(t, x, old)
    <3>1. SUFFICES ASSUME KeyOf(t, x, old) PROVE FALSE
      OBVIOUS
    <3>2. Clear(old, lo, hi, p)
      BY ONLY <3>1, <2>2, <1>2, <1>4, NestedKey
    <3> QED BY ONLY <3>2, <1>4 DEF Clear
  <2>5. ~KeyOf(t2, x, old)
    BY ONLY <2>3, <2>4
  <2> QED BY ONLY <2>1, <2>5, Zenon
<1>14. ShrinkingBy(t2, rt, path, p, k, old, lo2, hi2, ht2)
  BY ONLY <1>0, <1>4, <1>5, <1>6, <1>8, <1>12, <1>13 DEF ShrinkingBy
<1>15. Shrinking(t2, rt, path, p, k, old)
  BY ONLY <1>14 DEF Shrinking
<1> QED BY ONLY <1>1, <1>5, <1>15

\* The child of p that a search for k descends into is the node of that level
\* which answers for k.
LEMMA ChildIs ==
  ASSUME NEW t, NEW rt, NEW lo, NEW hi, NEW ht, Core(t, rt, NoPage, lo, hi, hi, ht),
         NEW p \in InternalsIn(t), NEW k \in Keys, lo[p] <= k, k < hi[p],
         NEW x \in NodesIn(t), ht[p] = ht[x] + 1, lo[x] <= k, k < hi[x]
  PROVE  ChildAt(t[p], k) \in 1..Len(t[p].kids) /\ t[p].kids[ChildAt(t[p], k)] = x
<1>0. Core(t, rt, NoPage, lo, hi, hi, ht)
  OBVIOUS
<1>1. Searchable(t, lo, hi, ht) /\ k \in Int
  BY CoreSearch
<1>2. PICK c : c = t[p].kids[ChildAt(t[p], k)]
  OBVIOUS
<1>3. /\ c \in NodesIn(t) /\ c \in Pages /\ ht[p] = ht[c] + 1 /\ lo[c] <= k /\ k < hi[c]
  BY ONLY <1>1, <1>2, p \in InternalsIn(t), lo[p] <= k, k < hi[p], Descent
<1>4. x \in Pages /\ ht[x] \in Nat /\ ht[c] \in Nat
  BY <1>3, CoreTypes
<1>5. ht[c] = ht[x]
  BY ONLY <1>3, <1>4, ht[p] = ht[x] + 1
<1>6. c = x
  BY ONLY <1>0, <1>1, <1>3, <1>5, x \in NodesIn(t), lo[x] <= k, k < hi[x], SameNode
<1>7. ChildAt(t[p], k) \in 1..Len(t[p].kids)
  <2>1. t \in [Pages -> Nodes] /\ SortedInternal(t, lo, hi, p)
    BY DEF Core, Sorted
  <2>2. t[p].keys \in Seq(Int) /\ Ascending(t[p].keys)
    BY ONLY <2>1, p \in InternalsIn(t), InternalKeys
  <2>3. ChildAt(t[p], k) \in 1..(Len(t[p].keys) + 1)
    BY ONLY <2>2, <1>1, ChildPicked
  <2>4. Len(t[p].kids) = Len(t[p].keys) + 1
    BY ONLY <2>1, p \in InternalsIn(t), InternalNode
  <2> QED BY ONLY <2>3, <2>4
<1> QED BY ONLY <1>2, <1>6, <1>7

\* Remove that leaves its leaf short of entries: the leaf is refilled.
LEMMA StepRemoveUnderflow ==
  ASSUME TreeInv, NEW k \in Keys, RemoveUnderflow(k)
  PROVE  TreeInv' /\ Loses(Stored(node), Stored(node'), k) /\ KeepsLeaves(node, node')
<1>1. PICK path, leaf, t, p : path = Path(k) /\ leaf = Last(path) /\ t = TakenOut(leaf, k) /\ p = Last(Front(path))
  OBVIOUS
<1>2. PICK c, s : c = ChildAt(t[p], k) /\ s = Between(t, p, c)
  OBVIOUS
<1>3. PICK new : fix' = Shrink(Front(Front(path)), p, k, s = 1, t[p].keys[s], new)
  BY <1>1, <1>2 DEF RemoveUnderflow, Refill
<1>4. /\ fix = Quiet /\ root # NoPage /\ Has(LeafKeys(leaf), k) /\ leaf # root
      /\ node' = Refilled(t, p, c) /\ root' = root
  BY <1>1, <1>2 DEF RemoveUnderflow, Refill
<1>5. PICK lo, hi, ht : Core(node, root, NoPage, lo, hi, hi, ht) /\ Filled(node, root, NoPage)
  BY <1>4, QuietCases DEF Whole, WholeBy
<1>6. leaf = LeafFor(k)
  BY <1>1 DEF LeafFor
<1>7. /\ leaf \in LeavesIn(node) /\ leaf \in NodesIn(node) /\ ht[leaf] = 0 /\ lo[leaf] <= k /\ k < hi[leaf]
      /\ Len(Front(path)) = ht[root] /\ ht[root] \in Nat
      /\ Route(node, root, lo, hi, ht, Front(path), k, 0)
  BY ONLY <1>1, <1>5, <1>6, k \in Keys, LeafFound
<1>8. /\ Core(t, root, NoPage, lo, hi, hi, ht)
      /\ LeavesIn(t) = LeavesIn(node) /\ InternalsIn(t) = InternalsIn(node)
      /\ t[leaf].kind = "leaf"
      /\ \A x \in Pages : x # leaf => t[x] = node[x]
      /\ Loses(Stored(node), Stored(t), k)
  BY ONLY <1>1, <1>4, <1>5, <1>6, k \in Keys, EntryTaken
<1>9. leaf \in NodesIn(t) /\ NodesIn(t) \subseteq Pages /\ \A x \in InternalsIn(t) : x \in Pages /\ x # leaf
  BY <1>7, <1>8, CoreTypes DEF NodesIn
<1>10. ht[root] # 0
  <2>1. SUFFICES ASSUME ht[root] = 0 PROVE FALSE
    OBVIOUS
  <2>2. root \in NodesIn(t) /\ root \in LeavesIn(t)
    BY <2>1, <1>8, CoreTypes, KindHeight
  <2>3. NodesIn(t) = {root}
    BY <2>2, <1>8, OnlyLeaf
  <2> QED BY <2>3, <1>4, <1>9
<1>11. Route(t, root, lo, hi, ht, Front(path), k, 0)
  BY ONLY <1>7, <1>8, RouteKept
<1>12. /\ p \in InternalsIn(t) /\ ht[p] = 1 /\ lo[p] <= k /\ k < hi[p]
       /\ Route(t, root, lo, hi, ht, Front(Front(path)), k, 1)
  <2>1. PICK f : f = Front(path)
    OBVIOUS
  <2>2. f # <<>>
    BY ONLY <2>1, <1>7, <1>10
  <2>3. /\ p \in InternalsIn(t) /\ ht[p] = 0 + 1 /\ lo[p] <= k /\ k < hi[p]
        /\ Route(t, root, lo, hi, ht, Front(f), k, 0 + 1)
    <3>1. 0 \in Nat /\ ht[root] \in Nat /\ Route(t, root, lo, hi, ht, f, k, 0) /\ p = Last(f)
      BY ONLY <1>1, <1>7, <1>11, <2>1
    <3> QED BY ONLY <3>1, <2>2, RouteEnd
  <2> QED BY ONLY <2>1, <2>3
<1>13. c \in 1..Len(t[p].kids) /\ t[p].kids[c] = leaf
  <2>1. ht[p] = ht[leaf] + 1
    BY ONLY <1>7, <1>12
  <2> QED BY ONLY <2>1, <1>2, <1>7, <1>8, <1>9, <1>12, k \in Keys, ChildIs
<1>14. FilledBut(t, root, leaf)
  <2>1. ASSUME NEW x \in LeavesIn(t), x # leaf PROVE Len(t[x].entries) > 0
    <3>1. x \in Pages
      BY DEF LeavesIn
    <3> QED BY ONLY <3>1, <2>1, <1>5, <1>8 DEF Filled
  <2>2. ASSUME NEW x \in InternalsIn(t)
        PROVE  Len(t[x].kids) >= IF x = root THEN 2 ELSE IF x = leaf THEN Least(InternalMax) - 1 ELSE Least(InternalMax)
    <3>1. x \in Pages /\ x # leaf /\ x # NoPage
      BY <1>9, TreeAssumption
    <3> QED BY ONLY <3>1, <2>2, <1>5, <1>8 DEF Filled
  <2> QED BY ONLY <2>1, <2>2, <1>4 DEF FilledBut
<1>15. Shrinking(node', root, Front(Front(path)), p, k, t[p].keys[s]) /\ Stored(node') = Stored(t)
  <2>1. Route(t, root, lo, hi, ht, Front(Front(path)), k, ht[p])
    BY ONLY <1>12
  <2>2. FilledBut(t, root, t[p].kids[c])
    BY ONLY <1>13, <1>14
  <2>3. /\ Shrinking(node', root, Front(Front(path)), p, k, t[p].keys[Between(t, p, c)])
        /\ Stored(node') = Stored(t)
    <3>1. Refillable(t, root, lo, hi, ht, Front(Front(path)), p, c, k)
      BY ONLY <2>1, <2>2, <1>8, <1>12, <1>13, k \in Keys DEF Refillable
    <3> QED BY ONLY <3>1, <1>4, RefillShrinks
  <2> QED BY ONLY <2>3, <1>2
<1>16. /\ fix' = Shrink(Front(Front(path)), p, k, s = 1, t[p].keys[s], new)
       /\ Shrinking(node', root', Front(Front(path)), p, k, t[p].keys[s])
  BY ONLY <1>3, <1>4, <1>15
<1>17. TreeInv'
  BY ONLY <1>16 DEF TreeInv
<1>18. KeepsLeaves(node, node')
  <2>1. /\ Size(t[leaf]) < MinSize(t[leaf])
        /\ Len(t[leaf].entries) = Size(t[leaf]) /\ Size(t[leaf]) \in Nat
    <3>1. Size(t[leaf]) < MinSize(t[leaf])
      BY <1>1 DEF RemoveUnderflow
    <3>2. Len(t[leaf].entries) = Size(t[leaf]) /\ Size(t[leaf]) \in Nat
      BY ONLY <1>1, <1>4, <1>5, <1>6, k \in Keys, EntryTaken
    <3> QED BY ONLY <3>1, <3>2
  <2>2. Len(t[leaf].entries) < Least(LeafMax)
    BY ONLY <2>1, <1>8 DEF MinSize
  <2>3. KeepsLeaves(t, node')
    BY ONLY <2>2, <1>4, <1>8, <1>12, <1>13, <1>14, RefillKeepsLeaves
  <2>4. KeepsLeaves(node, t)
    BY ONLY <1>1, <1>4, <1>5, <1>6, k \in Keys, EntryTaken
  <2> QED BY ONLY <2>3, <2>4, <1>8 DEF KeepsLeaves
<1> QED BY ONLY <1>8, <1>15, <1>17, <1>18

-----------------------------------------------------------------------------
(* The way up after a removal                                              *)

\* While a removal is under way the invariant says what it found.
LEMMA ShrinkCase ==
  ASSUME TreeInv, fix.kind = "shrink"
  PROVE  Shrinking(node, root, fix.path, fix.page, fix.key, fix.old)
<1>1. PICK path, page, key, update, old, new :
         fix = Shrink(path, page, key, update, old, new) /\ Shrinking(node, root, path, page, key, old)
  BY DEF TreeInv, Quiet, Grow
<1>2. fix.path = path /\ fix.page = page /\ fix.key = key /\ fix.old = old
  BY ONLY <1>1 DEF Shrink
<1> QED BY ONLY <1>1, <1>2

\* A node with enough children is weak no more.
LEMMA NoLongerWeak ==
  ASSUME NEW t, NEW rt, NEW page, Filled(t, rt, page),
         page \in InternalsIn(t) => Len(t[page].kids) >= IF page = rt THEN 2 ELSE Least(InternalMax)
  PROVE  Filled(t, rt, NoPage)
<1>1. \A x \in InternalsIn(t) : x # NoPage
  BY TreeAssumption DEF InternalsIn
<1> QED BY <1>1 DEF Filled

\* A merge reaches the root.
LEMMA StepShrinkRoot ==
  ASSUME TreeInv, ShrinkRoot
  PROVE  TreeInv' /\ Stored(node') = Stored(node) /\ KeepsLeaves(node, node')
<1>1. PICK c : c = node[root].kids[1]
  OBVIOUS
<1>2. /\ fix.page = root /\ fix' = Quiet
      /\ Shrinking(node, root, fix.path, fix.page, fix.key, fix.old)
      /\ Superfluous => root' = c /\ node' = [node EXCEPT ![root] = Unused]
      /\ ~Superfluous => root' = root /\ node' = node
  BY <1>1, ShrinkCase DEF ShrinkRoot
<1>3. PICK lo, hi, ht : ShrinkingBy(node, root, fix.path, root, fix.key, fix.old, lo, hi, ht)
  BY ONLY <1>2 DEF Shrinking
<1>4. Core(node, root, NoPage, lo, hi, hi, ht) /\ Filled(node, root, root) /\ root \in InternalsIn(node)
  BY ONLY <1>3 DEF ShrinkingBy
<1>5. /\ node[root].kids \in Seq(Pages) /\ node[root].kind = "internal"
  <2>1. node \in [Pages -> Nodes]
    BY <1>4 DEF Core
  <2> QED BY ONLY <2>1, <1>4, InternalNode
<1>6. Superfluous <=> Len(node[root].kids) = 1
  BY ONLY <1>5 DEF Superfluous, Size
<1>7. Len(node[root].kids) >= 1
  BY ONLY <1>4 DEF Filled
<1>8. CASE Superfluous
  <2>1. node' = RootDropped(node, root) /\ Len(node[root].kids) = 1
    BY ONLY <1>2, <1>6, <1>8 DEF RootDropped
  <2>2. Whole(node', c)
    BY ONLY <2>1, <1>1, <1>4, DropRoot
  <2>3. fix' = Quiet /\ Whole(node', root')
    BY ONLY <2>2, <1>2, <1>8
  <2>4. TreeInv'
    BY ONLY <2>3 DEF TreeInv
  <2>5. Stored(node') = Stored(node) /\ KeepsLeaves(node, node')
    <3>1. node \in [Pages -> Nodes] /\ root \in Pages /\ node[root].kind # "leaf" /\ Unused.kind # "leaf"
      <4>1. node \in [Pages -> Nodes]
        BY <1>4 DEF Core
      <4> QED BY ONLY <4>1, <1>4 DEF InternalsIn, Unused
    <3>2. node' = [node EXCEPT ![root] = Unused]
      BY ONLY <2>1 DEF RootDropped
    <3> QED BY ONLY <3>1, <3>2, NotALeaf
  <2> QED BY ONLY <2>4, <2>5
<1>9. CASE ~Superfluous
  <2>1. Len(node[root].kids) >= 2
    <3>1. PICK n \in Nat : n = Len(node[root].kids)
      BY ONLY <1>5
    <3>2. n # 1 /\ n >= 1
      BY ONLY <3>1, <1>6, <1>7, <1>9
    <3>3. n >= 2
      BY ONLY <3>2, n \in Nat
    <3> QED BY ONLY <3>1, <3>3
  <2>2. Filled(node, root, NoPage)
    BY ONLY <2>1, <1>4, NoLongerWeak
  <2>3. fix' = Quiet /\ Whole(node', root')
    BY ONLY <2>2, <1>2, <1>4, <1>9 DEF Whole, WholeBy
  <2>4. TreeInv'
    BY ONLY <2>3 DEF TreeInv
  <2>5. KeepsLeaves(node, node')
    BY ONLY <1>2, <1>9, SameLeaves
  <2> QED BY ONLY <2>4, <2>5, <1>2, <1>9
<1> QED BY ONLY <1>8, <1>9

\* A merge goes no higher than this node.
LEMMA StepShrinkStop ==
  ASSUME TreeInv, ShrinkStop
  PROVE  TreeInv' /\ Stored(node') = Stored(node) /\ KeepsLeaves(node, node')
<1>1. PICK page : page = fix.page
  OBVIOUS
<1>2. /\ page # root /\ Size(node[page]) >= MinSize(node[page]) /\ fix' = Quiet /\ node' = node /\ root' = root
      /\ Shrinking(node, root, fix.path, page, fix.key, fix.old)
  BY <1>1, ShrinkCase DEF ShrinkStop, Settled
<1>3. PICK lo, hi, ht : ShrinkingBy(node, root, fix.path, page, fix.key, fix.old, lo, hi, ht)
  BY ONLY <1>2 DEF Shrinking
<1>4. Core(node, root, NoPage, lo, hi, hi, ht) /\ Filled(node, root, page) /\ page \in InternalsIn(node)
  BY ONLY <1>3 DEF ShrinkingBy
<1>5. node[page].kind = "internal"
  BY <1>4 DEF InternalsIn
<1>6. Len(node[page].kids) >= Least(InternalMax)
  BY ONLY <1>2, <1>5 DEF Size, MinSize
<1>7. Filled(node, root, NoPage)
  BY ONLY <1>2, <1>4, <1>6, NoLongerWeak
<1>8. fix' = Quiet /\ Whole(node', root')
  BY ONLY <1>2, <1>4, <1>7 DEF Whole, WholeBy
<1>9. TreeInv'
  BY ONLY <1>8 DEF TreeInv
<1>10. KeepsLeaves(node, node')
  BY ONLY <1>2, SameLeaves
<1> QED BY ONLY <1>2, <1>9, <1>10

\* A node lost a child to a merge and is short of children: it is refilled in turn.
LEMMA StepShrinkNode ==
  ASSUME TreeInv, ShrinkNode
  PROVE  TreeInv' /\ Stored(node') = Stored(node) /\ KeepsLeaves(node, node')
<1>1. PICK path, page, k, old : path = fix.path /\ page = fix.page /\ k = fix.key /\ old = fix.old
  OBVIOUS
<1>2. PICK p, t, c : p = Last(path) /\ t = KeyUpdated(p) /\ c = ChildAt(node[p], k)
  OBVIOUS
<1>3. PICK s : s = Between(t, p, c)
  OBVIOUS
<1>4. PICK new : fix' = Shrink(Front(path), p, k, s = 1, t[p].keys[s], new)
  BY <1>1, <1>2, <1>3 DEF ShrinkNode, Refill
<1>5. /\ page # root /\ root' = root /\ node' = Refilled(t, p, c)
      /\ Shrinking(node, root, path, page, k, old)
  BY <1>1, <1>2, ShrinkCase DEF ShrinkNode, Refill
<1>6. PICK lo, hi, ht : ShrinkingBy(node, root, path, page, k, old, lo, hi, ht)
  BY ONLY <1>5 DEF Shrinking
<1>7. /\ Core(node, root, NoPage, lo, hi, hi, ht) /\ Filled(node, root, page)
      /\ page \in InternalsIn(node) /\ k \in Keys /\ lo[page] <= k /\ k < hi[page]
      /\ Route(node, root, lo, hi, ht, path, k, ht[page])
      /\ old \in Keys /\ \A i \in 1..Len(path) : ~KeyOf(node, path[i], old)
  BY ONLY <1>6 DEF ShrinkingBy
<1>8. node \in [Pages -> Nodes] /\ Sorted(node, lo, hi, ht) /\ Rooted(node, root, NoPage, lo, hi, ht)
  BY <1>7 DEF Core
<1>9. /\ page \in NodesIn(node) /\ page \in Pages /\ root \in NodesIn(node) /\ root \in Pages
      /\ InternalsIn(node) \subseteq NodesIn(node) /\ NodesIn(node) \subseteq Pages
      /\ \A x \in Pages : ht[x] \in Nat
  BY <1>7, CoreTypes
<1>10. ht[page] < ht[root]
  <2>1. page # NoPage
    BY <1>9, TreeAssumption
  <2>2. PICK q \in InternalsIn(node) : KidOf(node, q, page)
    BY ONLY <2>1, <1>5, <1>8, <1>9 DEF Rooted
  <2>3. PICK i \in 1..Len(node[q].kids) : node[q].kids[i] = page
    BY <2>2 DEF KidOf
  <2>4. ht[q] = ht[page] + 1
    BY ONLY <2>3, <1>7, KidFacts
  <2>5. ht[q] <= ht[root]
    BY <1>8, <1>9 DEF Rooted
  <2>6. ht[page] \in Nat /\ ht[root] \in Nat
    BY <1>9
  <2> QED BY ONLY <2>4, <2>5, <2>6
<1>11. /\ p \in InternalsIn(node) /\ ht[p] = ht[page] + 1 /\ lo[p] <= k /\ k < hi[p]
       /\ Route(node, root, lo, hi, ht, Front(path), k, ht[p]) /\ p = path[Len(path)] /\ Len(path) \in 1..Len(path)
  <2>1. PICK h \in Nat : h = ht[page]
    BY <1>9
  <2>2. ht[root] \in Nat /\ Route(node, root, lo, hi, ht, path, k, h)
    BY <2>1, <1>7, <1>9
  <2>3. Len(path) = ht[root] - h /\ path \in Seq(Pages)
    BY ONLY <2>2 DEF Route
  <2>4. path # <<>> /\ Len(path) > 0
    <3>1. Len(path) > 0
      BY ONLY <2>1, <2>2, <2>3, <1>10
    <3>2. Len(<<>>) = 0
      OBVIOUS
    <3> QED BY ONLY <3>1, <3>2
  <2>5. /\ p \in InternalsIn(node) /\ ht[p] = h + 1 /\ lo[p] <= k /\ k < hi[p] /\ Len(path) \in Nat \ {0}
        /\ Route(node, root, lo, hi, ht, Front(path), k, h + 1)
    BY ONLY <2>2, <2>4, <1>2, RouteEnd
  <2>6. p = path[Len(path)] /\ Len(path) \in 1..Len(path)
    BY ONLY <2>3, <2>4, <2>5, <1>2, FrontFacts
  <2> QED BY ONLY <2>1, <2>5, <2>6
<1>12. t = node
  <2>1. node[p].keys \in Seq(Int) /\ Ascending(node[p].keys)
    <3>1. SortedInternal(node, lo, hi, p)
      BY ONLY <1>8, <1>11 DEF Sorted
    <3> QED BY ONLY <3>1, <1>8, <1>11, InternalKeys
  <2>2. old \in Int
    BY <1>7, TreeAssumption
  <2>3. ~KeyOf(node, p, old)
    BY ONLY <1>7, <1>11
  <2>4. ~Has(node[p].keys, old)
    BY ONLY <2>1, <2>2, <2>3, HasKey DEF KeyOf
  <2> QED BY ONLY <2>4, <1>1, <1>2 DEF KeyUpdated
<1>13. c \in 1..Len(node[p].kids) /\ node[p].kids[c] = page
  BY ONLY <1>2, <1>7, <1>9, <1>11, ChildIs
<1>14. FilledBut(node, root, page)
  BY ONLY <1>5, <1>7 DEF Filled, FilledBut
<1>15. Shrinking(node', root, Front(path), p, k, node[p].keys[s]) /\ Stored(node') = Stored(node)
  <2>1. FilledBut(node, root, node[p].kids[c]) /\ node' = Refilled(node, p, c)
    BY ONLY <1>5, <1>12, <1>13, <1>14
  <2>2. Refillable(node, root, lo, hi, ht, Front(path), p, c, k)
    BY ONLY <2>1, <1>7, <1>11, <1>13 DEF Refillable
  <2>3. /\ Shrinking(node', root, Front(path), p, k, node[p].keys[Between(node, p, c)])
        /\ Stored(node') = Stored(node)
    BY ONLY <2>1, <2>2, RefillShrinks
  <2> QED BY ONLY <2>3, <1>3, <1>12
<1>16. /\ fix' = Shrink(Front(path), p, k, s = 1, t[p].keys[s], new)
       /\ Shrinking(node', root', Front(path), p, k, t[p].keys[s])
  BY ONLY <1>4, <1>5, <1>12, <1>15
<1>17. TreeInv'
  BY ONLY <1>16 DEF TreeInv
<1>18. KeepsLeaves(node, node')
  <2>1. page \notin LeavesIn(node)
    BY <1>7 DEF LeavesIn, InternalsIn
  <2>2. node' = Refilled(node, p, c)
    BY ONLY <1>5, <1>12
  <2> QED BY ONLY <2>1, <2>2, <1>7, <1>11, <1>13, <1>14, RefillKeepsLeaves
<1> QED BY ONLY <1>15, <1>17, <1>18

-----------------------------------------------------------------------------
(* The invariant                                                           *)

\* The invariant says nothing of the reply: a call that only answers keeps it.
LEMMA AnswerKeeps ==
  ASSUME TreeInv, UNCHANGED <<node, root, fix>>
  PROVE  TreeInv'
<1>1. node' = node /\ root' = root /\ fix' = fix
  OBVIOUS
<1> QED BY <1>1 DEF TreeInv

\* Every step keeps the invariant.
LEMMA TreeInvStep ==
  ASSUME TreeInv, [Next]_vars
  PROVE  TreeInv'
<1>1. ASSUME NEW k \in Keys, NEW r \in Rids, Insert(k, r)
      PROVE  TreeInv'
  <2>1. CASE InsertFirst(k, r)
    BY <2>1, StepInsertFirst
  <2>2. CASE InsertDuplicate(k)
    <3>1. UNCHANGED <<node, root, fix>>
      BY <2>2 DEF InsertDuplicate
    <3> QED BY <3>1, AnswerKeeps
  <2>3. CASE InsertRoom(k, r)
    BY <2>3, StepInsertRoom
  <2>4. CASE InsertSplit(k, r)
    BY <2>4, StepInsertSplit
  <2> QED BY <1>1, <2>1, <2>2, <2>3, <2>4 DEF Insert
<1>2. ASSUME NEW k \in Keys, RemoveKey(k)
      PROVE  TreeInv'
  <2>1. CASE RemoveNothing(k)
    <3>1. UNCHANGED <<node, root, fix>>
      BY <2>1 DEF RemoveNothing
    <3> QED BY <3>1, AnswerKeeps
  <2>2. CASE RemoveEntry(k)
    BY <2>2, StepRemoveEntry
  <2>3. CASE RemoveUnderflow(k)
    BY <2>3, StepRemoveUnderflow
  <2> QED BY <1>2, <2>1, <2>2, <2>3 DEF RemoveKey
<1>3. ASSUME NEW k \in Keys, GetValue(k)
      PROVE  TreeInv'
  <2>1. UNCHANGED <<node, root, fix>>
    BY <1>3 DEF GetValue
  <2> QED BY <2>1, AnswerKeeps
<1>4. CASE IsEmpty
  <2>1. UNCHANGED <<node, root, fix>>
    BY <1>4 DEF IsEmpty
  <2> QED BY <2>1, AnswerKeeps
<1>5. CASE GrowParent
  BY <1>5, StepGrowParent
<1>6. CASE GrowRoot
  BY <1>6, StepGrowRoot
<1>7. CASE ShrinkRoot
  BY <1>7, StepShrinkRoot
<1>8. CASE ShrinkStop
  BY <1>8, StepShrinkStop
<1>9. CASE ShrinkNode
  BY <1>9, StepShrinkNode
<1>10. CASE UNCHANGED vars
  <2>1. UNCHANGED <<node, root, fix>>
    BY <1>10 DEF vars
  <2> QED BY <2>1, AnswerKeeps
<1> QED BY <1>1, <1>2, <1>3, <1>4, <1>5, <1>6, <1>7, <1>8, <1>9, <1>10 DEF Next

\* The table of nodes is a search tree at every step of Insert and Remove, but
\* for the one node that the operation has still to deal with.
THEOREM TreeInvariant == Spec => []TreeInv
<1>1. Init => TreeInv
  BY DEF Init, TreeInv, Empty
<1>2. TreeInv /\ [Next]_vars => TreeInv'
  BY TreeInvStep
<1> QED BY <1>1, <1>2, PTL DEF Spec

\* Every step keeps the leaves, and keeps them within their maximum.
LEMMA LeavesStep ==
  ASSUME TreeInv, [Next]_vars
  PROVE  KeepsLeaves(node, node')
<1>1. ASSUME NEW k \in Keys, NEW r \in Rids, Insert(k, r)
      PROVE  KeepsLeaves(node, node')
  <2>1. CASE InsertFirst(k, r)
    BY <2>1, StepInsertFirst
  <2>2. CASE InsertDuplicate(k)
    <3>1. node' = node
      BY <2>2 DEF InsertDuplicate
    <3> QED BY <3>1, SameLeaves
  <2>3. CASE InsertRoom(k, r)
    BY <2>3, StepInsertRoom
  <2>4. CASE InsertSplit(k, r)
    BY <2>4, StepInsertSplit
  <2> QED BY <1>1, <2>1, <2>2, <2>3, <2>4 DEF Insert
<1>2. ASSUME NEW k \in Keys, RemoveKey(k)
      PROVE  KeepsLeaves(node, node')
  <2>1. CASE RemoveNothing(k)
    <3>1. node' = node
      BY <2>1 DEF RemoveNothing
    <3> QED BY <3>1, SameLeaves
  <2>2. CASE RemoveEntry(k)
    BY <2>2, StepRemoveEntry
  <2>3. CASE RemoveUnderflow(k)
    BY <2>3, StepRemoveUnderflow
  <2> QED BY <1>2, <2>1, <2>2, <2>3 DEF RemoveKey
<1>3. ASSUME NEW k \in Keys, GetValue(k)
      PROVE  KeepsLeaves(node, node')
  <2>1. node' = node
    BY <1>3 DEF GetValue
  <2> QED BY <2>1, SameLeaves
<1>4. CASE IsEmpty
  <2>1. node' = node
    BY <1>4 DEF IsEmpty
  <2> QED BY <2>1, SameLeaves
<1>5. CASE GrowParent
  BY <1>5, StepGrowParent
<1>6. CASE GrowRoot
  BY <1>6, StepGrowRoot
<1>7. CASE ShrinkRoot
  BY <1>7, StepShrinkRoot
<1>8. CASE ShrinkStop
  BY <1>8, StepShrinkStop
<1>9. CASE ShrinkNode
  BY <1>9, StepShrinkNode
<1>10. CASE UNCHANGED vars
  <2>1. node' = node
    BY <1>10 DEF vars
  <2> QED BY <2>1, SameLeaves
<1> QED BY <1>1, <1>2, <1>3, <1>4, <1>5, <1>6, <1>7, <1>8, <1>9, <1>10 DEF Next

\* No leaf ever has more entries than leaf_max_size_ allows.
THEOREM LeavesStayWithinMax == Spec => []LeavesWithinMax
<1>1. Init => LeavesFit(node)
  BY DEF Init, LeavesFit, LeavesIn, Unused
<1>2. TreeInv /\ LeavesFit(node) /\ [Next]_vars => LeavesFit(node)'
  <2>1. ASSUME TreeInv, LeavesFit(node), [Next]_vars PROVE LeavesFit(node')
    <3>1. KeepsLeaves(node, node')
      BY <2>1, LeavesStep
    <3> QED BY <2>1, <3>1 DEF KeepsLeaves
  <2> QED BY <2>1 DEF LeavesFit, LeavesIn
<1>3. LeavesFit(node) => LeavesWithinMax
  BY FreshOfState DEF LeavesFit, LeavesWithinMax
<1> QED BY <1>1, <1>2, <1>3, TreeInvariant, PTL DEF Spec

-----------------------------------------------------------------------------
(* What the invariant says                                                 *)

\* In every state there is no tree, or the table of nodes has the core
\* properties, for some node that is not yet in the tree and one that may be weak.
InOrder(t, rt, orphan, weak) ==
    \E lo, hi, top, ht : Core(t, rt, orphan, lo, hi, top, ht) /\ Filled(t, rt, weak)

Ordinary(t, rt) ==
    Empty(t, rt) \/ \E orphan, weak : InOrder(t, rt, orphan, weak)

\* What the invariant says of the table whatever is under way.
LEMMA AnyTable ==
  ASSUME TreeInv
  PROVE  /\ Ordinary(node, root)
         /\ fix = Quiet => Empty(node, root) \/ Whole(node, root)
         /\ fix.kind \in {"quiet", "grow", "shrink"}
<1>1. CASE fix = Quiet /\ (Empty(node, root) \/ Whole(node, root))
  <2>1. Ordinary(node, root)
    BY <1>1 DEF Whole, WholeBy, Ordinary, InOrder
  <2> QED BY <1>1, <2>1 DEF Quiet
<1>2. ASSUME NEW path, NEW left, NEW key, NEW child,
             fix = Grow(path, left, key, child), Growing(node, root, path, left, key, child)
      PROVE  Ordinary(node, root) /\ fix.kind = "grow"
  <2>1. Ordinary(node, root)
    BY <1>2 DEF Growing, GrowingBy, Loose, Ordinary, InOrder
  <2> QED BY <1>2, <2>1 DEF Grow
<1>3. ASSUME NEW path, NEW page, NEW key, NEW update, NEW old, NEW new,
             fix = Shrink(path, page, key, update, old, new), Shrinking(node, root, path, page, key, old)
      PROVE  Ordinary(node, root) /\ fix.kind = "shrink"
  <2>1. Ordinary(node, root)
    BY <1>3 DEF Shrinking, ShrinkingBy, Ordinary, InOrder
  <2> QED BY <1>3, <2>1 DEF Shrink
<1>4. fix.kind \in {"grow", "shrink"} => fix # Quiet
  BY DEF Quiet
<1> QED BY <1>1, <1>2, <1>3, <1>4 DEF TreeInv

\* An empty table has no nodes at all.
LEMMA EmptyTable ==
  ASSUME NEW t, NEW rt, Empty(t, rt)
  PROVE  LeavesIn(t) = {} /\ InternalsIn(t) = {} /\ FreeIn(t) = Pages /\ rt = NoPage
BY DEF Empty, LeavesIn, InternalsIn, FreeIn, Unused

\* TypeOK: nodes are leaves, internal nodes with one key less than they have
\* children, or unused; the root is a page or none.
LEMMA TypesFollow ==
  ASSUME TreeInv
  PROVE  TypeOK
<1>1. Free = FreeIn(node) /\ Leaves = LeavesIn(node) /\ Internals = InternalsIn(node)
  BY FreshOfState
<1>2. Ordinary(node, root) /\ fix.kind \in {"quiet", "grow", "shrink"}
  BY AnyTable
<1>3. CASE Empty(node, root)
  BY ONLY <1>1, <1>2, <1>3, EmptyTable DEF TypeOK
<1>4. ASSUME NEW orphan, NEW weak, InOrder(node, root, orphan, weak)
      PROVE  TypeOK
  <2>1. PICK lo, hi, top, ht : Core(node, root, orphan, lo, hi, top, ht)
    BY ONLY <1>4 DEF InOrder
  <2>2. node \in [Pages -> Nodes]
    BY ONLY <2>1 DEF Core
  <2>3. root \in Pages
    BY ONLY <2>1, CoreTypes
  <2>4. ASSUME NEW p \in LeavesIn(node)
        PROVE  node[p].entries \in Seq(Entries) /\ node[p].next \in Pages \cup {NoPage}
    BY ONLY <2>2, <2>4, LeafNode
  <2>5. ASSUME NEW p \in InternalsIn(node)
        PROVE  /\ node[p].keys \in Seq(Keys) /\ node[p].kids \in Seq(Pages)
               /\ Len(node[p].kids) = Len(node[p].keys) + 1
    BY ONLY <2>2, <2>5, InternalNode
  <2>6. Pages = LeavesIn(node) \cup InternalsIn(node) \cup FreeIn(node)
    BY ONLY <2>2, PageKinds
  <2> QED BY ONLY <1>1, <1>2, <2>3, <2>4, <2>5, <2>6 DEF TypeOK
<1> QED BY ONLY <1>2, <1>3, <1>4 DEF Ordinary

\* Every variable has its type.
THEOREM TypeCorrect == Spec => []TypeOK
BY TreeInvariant, TypesFollow, PTL

\* InternalsFilled: between operations the root has two children and every
\* other internal node its minimum.
LEMMA FilledFollows ==
  ASSUME TreeInv
  PROVE  InternalsFilled
<1>1. Internals = InternalsIn(node) /\ \A p \in Internals : node[p].kind = "internal" /\ p # NoPage
  BY FreshOfState, TreeAssumption DEF InternalsIn
<1>2. SUFFICES ASSUME fix = Quiet, NEW p \in Internals
               PROVE  Size(node[p]) >= IF p = root THEN 2 ELSE MinSize(node[p])
  BY DEF InternalsFilled
<1>3. Empty(node, root) \/ Whole(node, root)
  BY <1>2, AnyTable
<1>4. CASE Empty(node, root)
  BY ONLY <1>1, <1>4, p \in Internals, EmptyTable
<1>5. CASE Whole(node, root)
  <2>1. Filled(node, root, NoPage)
    BY ONLY <1>5 DEF Whole, WholeBy
  <2>2. Len(node[p].kids) >= IF p = root THEN 2 ELSE Least(InternalMax)
    BY ONLY <2>1, <1>1, p \in Internals DEF Filled
  <2>3. Size(node[p]) = Len(node[p].kids) /\ MinSize(node[p]) = Least(InternalMax)
    BY ONLY <1>1, p \in Internals DEF Size, MinSize
  <2> QED BY ONLY <2>2, <2>3
<1> QED BY ONLY <1>3, <1>4, <1>5

\* No operation leaves an internal node with too few children: the node that a
\* removal refills has a neighbour (b_plus_tree.cpp:560).
THEOREM NodesStayFilled == Spec => []InternalsFilled
BY TreeInvariant, FilledFollows, PTL

\* SeparatorsDistinct: of two nodes on different levels the keys of the upper one
\* are no keys the lower one answers for, those of one level are apart anyway.
LEMMA SeparatorsFollow ==
  ASSUME TreeInv
  PROVE  SeparatorsDistinct
<1>1. Internals = InternalsIn(node) /\ Ordinary(node, root)
  BY FreshOfState, AnyTable
<1>2. SUFFICES ASSUME NEW p \in InternalsIn(node), NEW q \in InternalsIn(node), p # q,
                      NEW x, x \in ToSet(node[p].keys), x \in ToSet(node[q].keys)
               PROVE  FALSE
  BY <1>1 DEF SeparatorsDistinct
<1>3. CASE Empty(node, root)
  BY ONLY <1>3, EmptyTable, p \in InternalsIn(node)
<1>4. ASSUME NEW orphan, NEW weak, InOrder(node, root, orphan, weak)
      PROVE  FALSE
  <2>1. PICK lo, hi, top, ht : Core(node, root, orphan, lo, hi, top, ht)
    BY ONLY <1>4 DEF InOrder
  <2>2. /\ p \in NodesIn(node) /\ q \in NodesIn(node) /\ p \in Pages /\ q \in Pages
        /\ \A y \in Pages : lo[y] \in Int /\ hi[y] \in Int /\ ht[y] \in Nat
    <3>1. /\ NodesIn(node) \subseteq Pages /\ InternalsIn(node) \subseteq NodesIn(node)
          /\ \A y \in Pages : lo[y] \in Int /\ hi[y] \in Int /\ ht[y] \in Nat
      BY ONLY <2>1, CoreTypes
    <3> QED BY ONLY <3>1, p \in InternalsIn(node), q \in InternalsIn(node)
  <2>3. ASSUME NEW y \in InternalsIn(node), x \in ToSet(node[y].keys)
        PROVE  KeyOf(node, y, x) /\ x \in Int /\ lo[y] < x /\ x < hi[y]
    <3>1. node \in [Pages -> Nodes] /\ SortedInternal(node, lo, hi, y)
      BY ONLY <2>1, y \in InternalsIn(node) DEF Core, Sorted
    <3>2. node[y].keys \in Seq(Int)
      BY ONLY <3>1, y \in InternalsIn(node), InternalKeys
    <3>3. PICK i \in 1..Len(node[y].keys) : node[y].keys[i] = x
      BY ONLY <3>2, x \in ToSet(node[y].keys) DEF ToSet
    <3>4. lo[y] < node[y].keys[i] /\ node[y].keys[i] < hi[y]
      BY ONLY <3>1, i \in 1..Len(node[y].keys) DEF SortedInternal
    <3>5. node[y].keys[i] \in Int
      BY ONLY <3>2, i \in 1..Len(node[y].keys)
    <3>6. KeyOf(node, y, x)
      BY ONLY <3>3 DEF KeyOf
    <3> QED BY ONLY <3>3, <3>4, <3>5, <3>6
  <2>4. KeyOf(node, p, x) /\ x \in Int /\ lo[p] < x /\ x < hi[p]
    BY ONLY <2>3, p \in InternalsIn(node), x \in ToSet(node[p].keys)
  <2>5. KeyOf(node, q, x) /\ lo[q] < x /\ x < hi[q]
    BY ONLY <2>3, q \in InternalsIn(node), x \in ToSet(node[q].keys)
  <2>6. PICK a \in Int, b \in Int, c \in Int, d \in Int : a = lo[p] /\ b = hi[p] /\ c = lo[q] /\ d = hi[q]
    BY ONLY <2>2
  <2>7. CASE ht[p] = ht[q]
    <3>1. b <= c \/ d <= a
      BY ONLY <2>1, <2>2, <2>6, <2>7, p # q DEF Core, Apart
    <3> QED BY ONLY <3>1, <2>4, <2>5, <2>6
  <2>8. CASE ht[p] < ht[q]
    <3>1. Clear(x, lo, hi, p)
      BY ONLY <2>1, <2>2, <2>5, <2>8, q \in InternalsIn(node), NestedKey
    <3>2. x <= a \/ b <= x
      BY ONLY <3>1, <2>6 DEF Clear
    <3> QED BY ONLY <3>2, <2>4, <2>6
  <2>9. CASE ht[q] < ht[p]
    <3>1. Clear(x, lo, hi, q)
      BY ONLY <2>1, <2>2, <2>4, <2>9, p \in InternalsIn(node), NestedKey
    <3>2. x <= c \/ d <= x
      BY ONLY <3>1, <2>6 DEF Clear
    <3> QED BY ONLY <3>2, <2>4, <2>5, <2>6
  <2> QED BY ONLY <2>2, <2>7, <2>8, <2>9
<1> QED BY ONLY <1>1, <1>3, <1>4 DEF Ordinary

\* A key separates children in one place of the tree only, so that Remove, which
\* looks the old key up by its value in the levels above, finds the right one.
THEOREM SeparatorsStayDistinct == Spec => []SeparatorsDistinct
BY TreeInvariant, SeparatorsFollow, PTL

-----------------------------------------------------------------------------
(* The chain of the leaves                                                 *)

\* An entry of a leaf lies between the leaf's bounds, the first and the last entry.
LEMMA EntryBounds ==
  ASSUME NEW t, NEW rt, NEW orphan, NEW lo, NEW hi, NEW top, NEW ht,
         Core(t, rt, orphan, lo, hi, top, ht),
         NEW p \in LeavesIn(t), NEW i \in 1..Len(t[p].entries)
  PROVE  /\ Len(t[p].entries) \in Nat
         /\ t[p].entries[i].key \in Keys /\ t[p].entries[i].key \in Int
         /\ lo[p] <= t[p].entries[i].key /\ t[p].entries[i].key < hi[p]
         /\ t[p].entries[1].key <= t[p].entries[i].key
         /\ t[p].entries[i].key <= t[p].entries[Len(t[p].entries)].key
<1>1. t \in [Pages -> Nodes] /\ SortedLeaf(t, lo, hi, p)
  BY DEF Core, Sorted
<1>2. PICK e : e = t[p].entries
  OBVIOUS
<1>3. e \in Seq(Entries)
  BY ONLY <1>1, <1>2, p \in LeavesIn(t), LeafNode
<1>4. PICK n \in Nat : n = Len(e)
  BY ONLY <1>3
<1>5. i \in 1..n /\ 1 \in 1..n /\ n \in 1..n /\ (i = 1 \/ 1 < i) /\ (i = n \/ i < n)
  BY ONLY <1>2, <1>4, i \in 1..Len(t[p].entries), n \in Nat
<1>6. \A j \in 1..n : e[j].key \in Keys
  <2>1. ASSUME NEW j \in 1..n PROVE e[j].key \in Keys
    <3>1. e[j] \in Entries
      BY ONLY <1>3, <1>4, j \in 1..n
    <3> QED BY ONLY <3>1 DEF Entries
  <2> QED BY ONLY <2>1
<1>7. \A j \in 1..n : e[j].key \in Int
  BY ONLY <1>6, KeysWithin
<1>8. \A j \in 1..n : lo[p] <= e[j].key /\ e[j].key < hi[p]
  BY ONLY <1>1, <1>2, <1>4 DEF SortedLeaf
<1>9. \A j, m \in 1..n : j < m => e[j].key < e[m].key
  BY ONLY <1>1, <1>2, <1>4 DEF SortedLeaf
<1>10. e[1].key <= e[i].key
  BY ONLY <1>5, <1>7, <1>9
<1>11. e[i].key <= e[n].key
  BY ONLY <1>5, <1>7, <1>9
<1> QED BY ONLY <1>2, <1>4, <1>5, <1>6, <1>7, <1>8, <1>10, <1>11

\* The keys after last that other leaves than p hold.
Later(p, last) ==
    {e.key : e \in UNION {ToSet(node[q].entries) : q \in Leaves \ {p}}} \cap {k \in Keys : k > last}

\* Which these are.
LEMMA LaterKeys ==
  ASSUME NEW p, NEW last, node \in [Pages -> Nodes], NEW x
  PROVE  x \in Later(p, last) <=>
           /\ x \in Keys /\ x > last
           /\ \E q \in LeavesIn(node) : q # p /\ \E i \in 1..Len(node[q].entries) : node[q].entries[i].key = x
<1>1. Leaves = LeavesIn(node)
  BY FreshOfState
<1>2. \A q \in LeavesIn(node) : ToSet(node[q].entries) = {node[q].entries[i] : i \in 1..Len(node[q].entries)}
  <2>1. ASSUME NEW q \in LeavesIn(node)
        PROVE ToSet(node[q].entries) = {node[q].entries[i] : i \in 1..Len(node[q].entries)}
    <3>1. node[q].entries \in Seq(Entries)
      BY LeafNode
    <3> QED BY ONLY <3>1 DEF ToSet
  <2> QED BY <2>1
<1>3. ASSUME x \in Later(p, last)
      PROVE  /\ x \in Keys /\ x > last
             /\ \E q \in LeavesIn(node) : q # p /\ \E i \in 1..Len(node[q].entries) : node[q].entries[i].key = x
  <2>1. x \in Keys /\ x > last
    BY ONLY <1>3 DEF Later
  <2>2. PICK q \in LeavesIn(node) : q # p /\ \E e \in ToSet(node[q].entries) : x = e.key
    BY ONLY <1>1, <1>3 DEF Later
  <2>3. PICK e \in ToSet(node[q].entries) : x = e.key
    BY ONLY <2>2
  <2>4. PICK i \in 1..Len(node[q].entries) : e = node[q].entries[i]
    BY ONLY <1>2, <2>3, q \in LeavesIn(node)
  <2> QED BY ONLY <2>1, <2>2, <2>3, <2>4, q \in LeavesIn(node)
<1>4. ASSUME x \in Keys, x > last, NEW q \in LeavesIn(node), q # p,
             NEW i \in 1..Len(node[q].entries), node[q].entries[i].key = x
      PROVE  x \in Later(p, last)
  <2>1. PICK e : e = node[q].entries[i]
    OBVIOUS
  <2>2. e \in ToSet(node[q].entries) /\ x = e.key /\ q \in Leaves \ {p}
    BY ONLY <2>1, <1>1, <1>2, <1>4
  <2> QED BY ONLY <2>2, <1>4 DEF Later
<1> QED BY ONLY <1>3, <1>4

\* LeavesChained: a leaf links to the leaf that answers for the keys after its own.
LEMMA ChainFollows ==
  ASSUME TreeInv
  PROVE  LeavesChained
<1>1. Leaves = LeavesIn(node) /\ Ordinary(node, root)
  BY FreshOfState, AnyTable
<1>2. SUFFICES ASSUME NEW p \in LeavesIn(node), NEW last, last = Last(node[p].entries).key
               PROVE  IF node[p].next = NoPage THEN Later(p, last) = {}
                      ELSE /\ node[p].next \in Leaves
                           /\ LET first == Head(node[node[p].next].entries).key
                              IN  first \in Later(p, last) /\ \A k \in Later(p, last) : first <= k
  BY <1>1 DEF LeavesChained, Later
<1>3. CASE Empty(node, root)
  BY ONLY <1>3, EmptyTable, p \in LeavesIn(node)
<1>4. ASSUME NEW orphan, NEW weak, InOrder(node, root, orphan, weak)
      PROVE  IF node[p].next = NoPage THEN Later(p, last) = {}
             ELSE /\ node[p].next \in Leaves
                  /\ LET first == Head(node[node[p].next].entries).key
                     IN  first \in Later(p, last) /\ \A k \in Later(p, last) : first <= k
  <2>1. PICK lo, hi, top, ht : Core(node, root, orphan, lo, hi, top, ht) /\ Filled(node, root, weak)
    BY ONLY <1>4 DEF InOrder
  <2>2. node \in [Pages -> Nodes] /\ Chain(node, lo, hi) /\ Apart(node, lo, hi, ht)
        /\ \A q \in NodesIn(node) : lo[q] < hi[q]
    BY ONLY <2>1 DEF Core, Sorted
  <2>3. /\ \A q \in LeavesIn(node) : q \in NodesIn(node) /\ q \in Pages
        /\ \A q \in LeavesIn(node) : ht[q] = 0
        /\ \A q \in Pages : lo[q] \in Int /\ hi[q] \in Int
        /\ \A q \in LeavesIn(node) : Len(node[q].entries) > 0
    <3>1. /\ NodesIn(node) \subseteq Pages /\ LeavesIn(node) \subseteq NodesIn(node)
          /\ \A q \in Pages : lo[q] \in Int /\ hi[q] \in Int
      BY ONLY <2>1, CoreTypes
    <3>2. \A q \in LeavesIn(node) : ht[q] = 0
      BY ONLY <2>1 DEF Core, Sorted
    <3>3. \A q \in LeavesIn(node) : Len(node[q].entries) > 0
      BY ONLY <2>1 DEF Filled
    <3> QED BY ONLY <3>1, <3>2, <3>3
  <2>4. ASSUME NEW q \in LeavesIn(node)
        PROVE  /\ node[q].entries \in Seq(Entries) /\ Len(node[q].entries) \in Nat
               /\ 1 \in 1..Len(node[q].entries) /\ Len(node[q].entries) \in 1..Len(node[q].entries)
               /\ Head(node[q].entries) = node[q].entries[1]
               /\ Last(node[q].entries) = node[q].entries[Len(node[q].entries)]
    <3>1. node[q].entries \in Seq(Entries) /\ Len(node[q].entries) > 0
      BY ONLY <2>2, <2>3, q \in LeavesIn(node), LeafNode
    <3>2. Head(node[q].entries) = node[q].entries[1]
      BY ONLY <3>1, TailFacts
    <3>3. Last(node[q].entries) = node[q].entries[Len(node[q].entries)]
      BY ONLY <3>1, FrontFacts
    <3>4. Len(node[q].entries) \in Nat /\ 1 \in 1..Len(node[q].entries) /\ Len(node[q].entries) \in 1..Len(node[q].entries)
      BY ONLY <3>1
    <3> QED BY ONLY <3>1, <3>2, <3>3, <3>4
  <2>5. last = node[p].entries[Len(node[p].entries)].key /\ last \in Int /\ lo[p] <= last /\ last < hi[p]
    <3>1. last = node[p].entries[Len(node[p].entries)].key /\ Len(node[p].entries) \in 1..Len(node[p].entries)
      BY ONLY <2>4, p \in LeavesIn(node), last = Last(node[p].entries).key
    <3> QED BY ONLY <3>1, <2>1, p \in LeavesIn(node), EntryBounds
  <2>6. ASSUME NEW x, x \in Later(p, last)
        PROVE  /\ x \in Int /\ x < High
               /\ \E q \in LeavesIn(node) : /\ hi[p] <= lo[q] /\ lo[q] <= x /\ x < hi[q]
                                            /\ node[q].entries[1].key <= x
    <3>1. x \in Keys /\ x > last
      BY ONLY <2>2, <2>6, LaterKeys
    <3>2. PICK q \in LeavesIn(node) : q # p /\ \E i \in 1..Len(node[q].entries) : node[q].entries[i].key = x
      BY ONLY <2>2, <2>6, LaterKeys
    <3>3. PICK i \in 1..Len(node[q].entries) : node[q].entries[i].key = x
      BY ONLY <3>2
    <3>4. /\ x \in Int /\ lo[q] <= x /\ x < hi[q] /\ node[q].entries[1].key <= x
      BY ONLY <3>3, <2>1, q \in LeavesIn(node), i \in 1..Len(node[q].entries), EntryBounds
    <3>5. ht[p] = ht[q] /\ p \in NodesIn(node) /\ q \in NodesIn(node)
      BY ONLY <2>3, p \in LeavesIn(node), q \in LeavesIn(node)
    <3>6. hi[p] <= lo[q] \/ hi[q] <= lo[p]
      BY ONLY <3>2, <3>5, <2>2 DEF Apart
    <3>7. PICK a \in Int, b \in Int, c \in Int, d \in Int : a = lo[p] /\ b = hi[p] /\ c = lo[q] /\ d = hi[q]
      BY ONLY <2>3, p \in LeavesIn(node), q \in LeavesIn(node)
    <3>8. b <= c
      BY ONLY <3>1, <3>4, <3>6, <3>7, <2>5
    <3>9. x < High
      BY ONLY <3>1, KeysWithin
    <3> QED BY ONLY <3>4, <3>7, <3>8, <3>9
  <2>7. CASE node[p].next = NoPage
    <3>1. hi[p] = High /\ High \in Int /\ hi[p] \in Int
      BY ONLY <2>2, <2>3, <2>7, p \in LeavesIn(node), KeysWithin DEF Chain
    <3>2. ASSUME NEW x, x \in Later(p, last) PROVE FALSE
      <4>1. PICK q \in LeavesIn(node) : hi[p] <= lo[q] /\ lo[q] <= x /\ x \in Int /\ x < High
        BY ONLY <3>2, <2>6
      <4>2. lo[q] \in Int
        BY ONLY <2>3, q \in LeavesIn(node)
      <4> QED BY ONLY <4>1, <4>2, <3>1
    <3> QED BY ONLY <3>2, <2>7
  <2>8. CASE node[p].next # NoPage
    <3>1. PICK n : n = node[p].next
      OBVIOUS
    <3>2. n \in LeavesIn(node) /\ lo[n] = hi[p]
      BY ONLY <3>1, <2>2, <2>8, p \in LeavesIn(node) DEF Chain
    <3>3. PICK first : first = node[n].entries[1].key
      OBVIOUS
    <3>4. /\ first = Head(node[n].entries).key /\ first \in Keys /\ first \in Int
          /\ lo[n] <= first /\ first < hi[n] /\ 1 \in 1..Len(node[n].entries)
      <4>1. 1 \in 1..Len(node[n].entries) /\ Head(node[n].entries) = node[n].entries[1]
        BY ONLY <3>2, <2>4
      <4> QED BY ONLY <4>1, <3>2, <3>3, <2>1, EntryBounds
    <3>5. PICK a \in Int, b \in Int, c \in Int : a = lo[p] /\ b = hi[p] /\ c = hi[n] /\ a < b /\ b < c
      BY ONLY <3>2, <2>2, <2>3, p \in LeavesIn(node)
    <3>6. n # p /\ first > last
      BY ONLY <3>2, <3>4, <3>5, <2>5
    <3>7. first \in Later(p, last)
      BY ONLY <3>2, <3>3, <3>4, <3>6, <2>2, LaterKeys
    <3>8. ASSUME NEW x, x \in Later(p, last) PROVE first <= x
      <4>1. PICK q \in LeavesIn(node) : /\ x \in Int /\ hi[p] <= lo[q] /\ lo[q] <= x /\ x < hi[q]
                                        /\ node[q].entries[1].key <= x
        BY ONLY <3>8, <2>6
      <4>2. CASE q = n
        BY ONLY <4>1, <4>2, <3>3
      <4>3. CASE q # n
        <5>1. ht[q] = ht[n] /\ q \in NodesIn(node) /\ n \in NodesIn(node)
          BY ONLY <2>3, <3>2, q \in LeavesIn(node)
        <5>2. hi[q] <= lo[n] \/ hi[n] <= lo[q]
          BY ONLY <5>1, <4>3, <2>2 DEF Apart
        <5>3. PICK d \in Int, g \in Int : d = lo[q] /\ g = hi[q]
          BY ONLY <2>3, q \in LeavesIn(node)
        <5> QED BY ONLY <5>2, <5>3, <4>1, <3>2, <3>4, <3>5
      <4> QED BY ONLY <4>2, <4>3
    <3> QED BY ONLY <1>1, <2>8, <3>1, <3>2, <3>4, <3>7, <3>8
  <2> QED BY ONLY <2>7, <2>8
<1> QED BY ONLY <1>1, <1>3, <1>4 DEF Ordinary

\* The links go through all the leaves in the order of their keys, in every
\* state that a split or a merge passes through.
THEOREM LeavesStayChained == Spec => []LeavesChained
BY TreeInvariant, ChainFollows, PTL

-----------------------------------------------------------------------------
(* The shape of the tree                                                   *)

\* A node has at most as many children as there are pages: they are all different.
LEMMA FewKids ==
  ASSUME NEW t, NEW rt, NEW orphan, NEW lo, NEW hi, NEW top, NEW ht,
         Core(t, rt, orphan, lo, hi, top, ht), NEW p \in InternalsIn(t)
  PROVE  t[p].kids \in Seq(Pages) /\ Len(t[p].kids) <= NPages
<1>1. t[p].kids \in Seq(Pages)
  BY InternalNode DEF Core
<1>2. PICK n \in Nat : n = Len(t[p].kids)
  BY ONLY <1>1
<1>3. t[p].kids \in [1..n -> Pages]
  BY ONLY <1>1, <1>2
<1>4. \A i, j \in 1..n : t[p].kids[i] = t[p].kids[j] => i = j
  <2>1. ASSUME NEW i \in 1..n, NEW j \in 1..n, t[p].kids[i] = t[p].kids[j] PROVE i = j
    <3>1. i \in 1..Len(t[p].kids) /\ j \in 1..Len(t[p].kids) /\ t[p].kids[i] = t[p].kids[j]
      BY ONLY <1>2, <2>1, i \in 1..n, j \in 1..n
    <3> QED BY <3>1, OneParent
  <2> QED BY ONLY <2>1
<1>5. t[p].kids \in Injection(1..n, Pages)
  BY ONLY <1>3, <1>4 DEF Injection, IsInjective
<1>6. IsFiniteSet(Pages) /\ Cardinality(Pages) = NPages /\ Cardinality(1..n) = n
  BY FS_Interval, TreeAssumption DEF Pages
<1>7. Cardinality(1..n) <= Cardinality(Pages)
  BY ONLY <1>5, <1>6, FS_Injection
<1> QED BY ONLY <1>1, <1>2, <1>6, <1>7

\* The places where a page is listed as a child.
Slots(p) ==
    {e \in Internals \X (1..NPages) : e[2] \in DOMAIN node[e[1]].kids /\ node[e[1]].kids[e[2]] = p}

\* The root is no child, every other node is one child of one node.
LEMMA OneSlot ==
  ASSUME NEW lo, NEW hi, NEW ht, Core(node, root, NoPage, lo, hi, hi, ht), NEW p \in NodesIn(node)
  PROVE  Cardinality(Slots(p)) = IF p = root THEN 0 ELSE 1
<1>0. Core(node, root, NoPage, lo, hi, hi, ht) /\ Internals = InternalsIn(node)
  BY FreshOfState
<1>1. ASSUME NEW q \in InternalsIn(node)
      PROVE  node[q].kids \in Seq(Pages) /\ DOMAIN node[q].kids = 1..Len(node[q].kids)
             /\ Len(node[q].kids) <= NPages
  <2>1. node[q].kids \in Seq(Pages) /\ Len(node[q].kids) <= NPages
    BY ONLY <1>0, q \in InternalsIn(node), FewKids
  <2> QED BY ONLY <2>1
<1>2. ASSUME NEW e \in Slots(p)
      PROVE  \E q \in InternalsIn(node) : \E i \in 1..Len(node[q].kids) : e = <<q, i>> /\ node[q].kids[i] = p
  <2>1. PICK q \in InternalsIn(node), i \in 1..NPages : e = <<q, i>>
    BY ONLY <1>0, e \in Slots(p) DEF Slots
  <2>2. e[1] = q /\ e[2] = i
    BY ONLY <2>1
  <2>3. i \in DOMAIN node[q].kids /\ node[q].kids[i] = p
    BY ONLY <2>2, e \in Slots(p) DEF Slots
  <2> QED BY ONLY <2>1, <2>3, <1>1
<1>3. CASE p = root
  <2>1. ASSUME NEW e \in Slots(p) PROVE FALSE
    <3>1. PICK q \in InternalsIn(node) : \E i \in 1..Len(node[q].kids) : node[q].kids[i] = p
      BY ONLY <1>2, e \in Slots(p)
    <3>2. PICK i \in 1..Len(node[q].kids) : p = node[q].kids[i]
      BY ONLY <3>1
    <3>3. ht[q] = ht[p] + 1
      BY ONLY <3>2, <1>0, q \in InternalsIn(node), KidFacts
    <3>4. /\ NodesIn(node) \subseteq Pages /\ InternalsIn(node) \subseteq NodesIn(node)
          /\ \A x \in Pages : ht[x] \in Nat
      BY ONLY <1>0, CoreTypes
    <3>5. ht[q] <= ht[p]
      BY ONLY <1>0, <1>3, <3>4, q \in InternalsIn(node) DEF Core, Rooted
    <3>6. ht[p] \in Nat
      BY ONLY <3>4, p \in NodesIn(node)
    <3> QED BY ONLY <3>3, <3>5, <3>6
  <2>2. Slots(p) = {}
    BY ONLY <2>1
  <2> QED BY ONLY <2>2, <1>3, FS_EmptySet
<1>4. CASE p # root
  <2>1. p \in Pages /\ p # NoPage
    BY TreeAssumption DEF NodesIn, LeavesIn, InternalsIn
  <2>2. PICK q \in InternalsIn(node) : KidOf(node, q, p)
    BY ONLY <1>0, <1>4, <2>1, p \in NodesIn(node) DEF Core, Rooted
  <2>3. PICK i \in 1..Len(node[q].kids) : node[q].kids[i] = p
    BY ONLY <2>2 DEF KidOf
  <2>4. PICK w : w = <<q, i>>
    OBVIOUS
  <2>5. w \in Slots(p)
    <3>1. PICK n \in Nat, m \in Nat : n = Len(node[q].kids) /\ m = NPages /\ n <= m
      BY ONLY <1>1, q \in InternalsIn(node), TreeAssumption
    <3>2. i \in 1..m /\ i \in DOMAIN node[q].kids
      BY ONLY <3>1, <1>1, q \in InternalsIn(node), i \in 1..Len(node[q].kids)
    <3>3. w \in InternalsIn(node) \X (1..NPages) /\ w[1] = q /\ w[2] = i
      BY ONLY <2>4, <3>1, <3>2, q \in InternalsIn(node)
    <3> QED BY ONLY <3>2, <3>3, <2>3, <1>0 DEF Slots
  <2>6. ASSUME NEW e \in Slots(p) PROVE e = w
    <3>1. PICK x \in InternalsIn(node) : \E j \in 1..Len(node[x].kids) : e = <<x, j>> /\ node[x].kids[j] = p
      BY ONLY <1>2, e \in Slots(p)
    <3>2. PICK j \in 1..Len(node[x].kids) : e = <<x, j>> /\ node[x].kids[j] = p
      BY ONLY <3>1
    <3>3. node[x].kids[j] = node[q].kids[i]
      BY ONLY <3>2, <2>3
    <3>4. x = q /\ j = i
      BY ONLY <3>3, <1>0, x \in InternalsIn(node), q \in InternalsIn(node), j \in 1..Len(node[x].kids),
              i \in 1..Len(node[q].kids), OneParent
    <3> QED BY ONLY <3>2, <3>4, <2>4
  <2>7. Slots(p) = {w}
    BY ONLY <2>5, <2>6
  <2> QED BY ONLY <2>7, <1>4, FS_Singleton
<1> QED BY ONLY <1>3, <1>4

\* TreeShaped: the pages form a tree, whose leaves are all on one level.
LEMMA ShapeFollows ==
  ASSUME TreeInv
  PROVE  TreeShaped
<1>1. /\ Leaves \cup Internals = NodesIn(node)
      /\ fix = Quiet => Empty(node, root) \/ Whole(node, root)
  BY FreshOfState, AnyTable DEF NodesIn
<1>2. SUFFICES ASSUME fix = Quiet
               PROVE  /\ \A p \in Leaves \cup Internals : Cardinality(Slots(p)) = (IF p = root THEN 0 ELSE 1)
                      /\ root # NoPage => \A j, k \in Keys : Len(Path(j)) = Len(Path(k))
  BY Zenon DEF TreeShaped, Slots
<1>3. CASE Empty(node, root)
  <2>1. NodesIn(node) = {} /\ root = NoPage
    BY ONLY <1>3, EmptyTable DEF NodesIn
  <2> QED BY ONLY <1>1, <2>1
<1>4. CASE Whole(node, root)
  <2>1. PICK lo, hi, ht : Core(node, root, NoPage, lo, hi, hi, ht)
    BY ONLY <1>4 DEF Whole, WholeBy
  <2>2. \A p \in NodesIn(node) : Cardinality(Slots(p)) = IF p = root THEN 0 ELSE 1
    BY ONLY <2>1, OneSlot
  <2>3. \A k \in Keys : Len(Path(k)) = ht[root] + 1
    <3>1. ASSUME NEW k \in Keys PROVE Len(Path(k)) = ht[root] + 1
      BY ONLY <2>1, k \in Keys, LeafFound
    <3> QED BY ONLY <3>1
  <2>4. \A j, k \in Keys : Len(Path(j)) = Len(Path(k))
    BY ONLY <2>3
  <2>5. \A p \in Leaves \cup Internals : Cardinality(Slots(p)) = (IF p = root THEN 0 ELSE 1)
    BY ONLY <2>2, <1>1, Zenon
  <2> QED BY ONLY <2>4, <2>5
<1> QED BY ONLY <1>1, <1>2, <1>3, <1>4

\* Between operations the pages form a tree and all searches are equally long.
THEOREM TreeStaysShaped == Spec => []TreeShaped
BY TreeInvariant, ShapeFollows, PTL

-----------------------------------------------------------------------------
(* The map that the index stands for                                       *)

\* S has no two entries with the same key; S has an entry for k.
Unique(S) == \A e, f \in S : e.key = f.key => e = f

HasEntry(S, k) == \E e \in S : e.key = k

\* The map that a set of entries stands for.
MapOf(S) == [k \in {e.key : e \in S} |-> (CHOOSE e \in S : e.key = k).rid]

\* What it holds.
LEMMA MapDomain ==
  ASSUME NEW S, NEW k
  PROVE  k \in DOMAIN MapOf(S) <=> HasEntry(S, k)
BY DEF MapOf, HasEntry

\* It leads from the key of an entry to its record.
LEMMA MapAt ==
  ASSUME NEW S, Unique(S), NEW e \in S
  PROVE  e.key \in DOMAIN MapOf(S) /\ MapOf(S)[e.key] = e.rid
<1>1. PICK f : f = CHOOSE x \in S : x.key = e.key
  OBVIOUS
<1>2. f \in S /\ f.key = e.key
  <2>1. \E x \in S : x.key = e.key
    OBVIOUS
  <2> QED BY ONLY <2>1, <1>1
<1>3. f = e
  BY ONLY <1>2, Unique(S), e \in S DEF Unique
<1>4. e.key \in {x.key : x \in S}
  OBVIOUS
<1>5. MapOf(S)[e.key] = f.rid /\ DOMAIN MapOf(S) = {x.key : x \in S}
  BY ONLY <1>1, <1>4 DEF MapOf
<1> QED BY ONLY <1>3, <1>4, <1>5

\* Two maps with the same keys and records are the same.
LEMMA SameMap ==
  ASSUME NEW S, NEW D, NEW g, g = [j \in D |-> g[j]],
         \A j : j \in D <=> HasEntry(S, j), \A j \in D : MapOf(S)[j] = g[j]
  PROVE  MapOf(S) = g
<1>1. DOMAIN MapOf(S) = D
  BY MapDomain
<1>2. MapOf(S) = [j \in DOMAIN MapOf(S) |-> MapOf(S)[j]]
  BY DEF MapOf
<1>3. MapOf(S) = [j \in D |-> MapOf(S)[j]]
  BY ONLY <1>1, <1>2
<1>4. PICK f : f = MapOf(S)
  OBVIOUS
<1>5. f = [j \in D |-> f[j]] /\ \A j \in D : f[j] = g[j]
  BY <1>3, <1>4
<1> QED BY ONLY <1>4, <1>5, g = [j \in D |-> g[j]]

\* The map f with k leading to r.
Extended(f, k, r) == [j \in {k} \cup DOMAIN f |-> IF j = k THEN r ELSE f[j]]

\* One entry more.
LEMMA MapWith ==
  ASSUME NEW S, Unique(S), NEW k, ~HasEntry(S, k), NEW r, NEW S2, Gains(S, S2, Entry(k, r))
  PROVE  MapOf(S2) = Extended(MapOf(S), k, r)
<1>1. PICK x : x = Entry(k, r)
  OBVIOUS
<1>2. x.key = k /\ x.rid = r
  BY <1>1 DEF Entry
<1>3. \A y : y \in S2 <=> y \in S \/ y = x
  BY <1>1 DEF Gains
<1>4. Unique(S2)
  BY ONLY <1>2, <1>3, Unique(S), ~HasEntry(S, k) DEF Unique, HasEntry
<1>5. PICK D, g : D = {k} \cup DOMAIN MapOf(S) /\ g = [j \in D |-> IF j = k THEN r ELSE MapOf(S)[j]]
  OBVIOUS
<1>6. ASSUME NEW j PROVE j \in D <=> HasEntry(S2, j)
  <2>1. j \in D <=> j = k \/ HasEntry(S, j)
    BY ONLY <1>5, MapDomain
  <2>2. HasEntry(S2, j) <=> j = k \/ HasEntry(S, j)
    BY ONLY <1>2, <1>3 DEF HasEntry
  <2> QED BY ONLY <2>1, <2>2
<1>7. ASSUME NEW j \in D PROVE MapOf(S2)[j] = g[j]
  <2>1. CASE j = k
    <3>1. MapOf(S2)[k] = r
      BY ONLY <1>2, <1>3, <1>4, MapAt
    <3> QED BY ONLY <3>1, <2>1, <1>5, j \in D
  <2>2. CASE j # k
    <3>1. HasEntry(S, j)
      BY ONLY <2>2, <1>5, j \in D, MapDomain
    <3>2. PICK e \in S : e.key = j
      BY ONLY <3>1 DEF HasEntry
    <3>3. MapOf(S)[j] = e.rid
      BY ONLY <3>2, Unique(S), MapAt
    <3>4. MapOf(S2)[j] = e.rid
      BY ONLY <3>2, <1>3, <1>4, MapAt
    <3> QED BY ONLY <3>3, <3>4, <2>2, <1>5, j \in D
  <2> QED BY <2>1, <2>2
<1>8. MapOf(S2) = g
  <2>1. g = [j \in D |-> g[j]]
    BY <1>5
  <2> QED BY ONLY <2>1, <1>6, <1>7, SameMap
<1> QED BY ONLY <1>5, <1>8 DEF Extended

\* The entry for k is gone, if there was one.
LEMMA MapWithout ==
  ASSUME NEW S, Unique(S), NEW k, NEW S2, Loses(S, S2, k)
  PROVE  MapOf(S2) = [j \in (DOMAIN MapOf(S)) \ {k} |-> MapOf(S)[j]]
<1>1. \A x : x \in S2 <=> x \in S /\ x.key # k
  BY DEF Loses
<1>2. Unique(S2)
  BY ONLY <1>1, Unique(S) DEF Unique
<1>3. PICK D, g : D = (DOMAIN MapOf(S)) \ {k} /\ g = [j \in D |-> MapOf(S)[j]]
  OBVIOUS
<1>4. ASSUME NEW j PROVE j \in D <=> HasEntry(S2, j)
  <2>1. j \in D <=> j # k /\ HasEntry(S, j)
    BY ONLY <1>3, MapDomain
  <2>2. HasEntry(S2, j) <=> j # k /\ HasEntry(S, j)
    BY ONLY <1>1 DEF HasEntry
  <2> QED BY ONLY <2>1, <2>2
<1>5. ASSUME NEW j \in D PROVE MapOf(S2)[j] = g[j]
  <2>1. HasEntry(S2, j)
    BY ONLY <1>4, j \in D
  <2>2. PICK e \in S2 : e.key = j
    BY ONLY <2>1 DEF HasEntry
  <2>3. MapOf(S2)[j] = e.rid
    BY ONLY <2>2, <1>2, MapAt
  <2>4. e \in S
    BY ONLY <2>2, <1>1
  <2>5. MapOf(S)[j] = e.rid
    BY ONLY <2>2, <2>4, Unique(S), MapAt
  <2> QED BY ONLY <2>3, <2>5, <1>3, j \in D
<1>6. g = [j \in D |-> g[j]]
  BY <1>3
<1>7. MapOf(S2) = g
  BY ONLY <1>4, <1>5, <1>6, SameMap
<1> QED BY ONLY <1>3, <1>7

\* What the refinement maps to the contents of the abstract map.
Content == MapOf(Stored(node))

\* The steps of the abstract map, said of that.
LEMMA MapSteps ==
  ASSUME NEW k, NEW r
  PROVE  /\ Map!Insert(k, r) <=>
              IF k \in DOMAIN Content
              THEN reply' = Answers(FALSE) /\ UNCHANGED Content
              ELSE /\ reply' = Answers(TRUE)
                   /\ Content' = [j \in {k} \cup DOMAIN Content |-> IF j = k THEN r ELSE Content[j]]
         /\ Map!Remove(k) <=>
              /\ reply' = Answers(TRUE)
              /\ Content' = [j \in (DOMAIN Content) \ {k} |-> Content[j]]
         /\ Map!GetValue(k) <=>
              /\ reply' = IF k \in DOMAIN Content THEN Finds(Content[k]) ELSE Answers(FALSE)
              /\ UNCHANGED Content
         /\ Map!IsEmpty <=> reply' = Answers(DOMAIN Content = {}) /\ UNCHANGED Content
         /\ Map!vars = <<Content, reply>>
<1> USE DEF Content, MapOf, Stored, Within, Leaves, LeavesIn
<1>1. Map!vars = <<Content, reply>>
  BY Zenon DEF Map!vars
<1>2. Map!IsEmpty <=> reply' = Answers(DOMAIN Content = {}) /\ UNCHANGED Content
  BY Zenon DEF Map!IsEmpty, Map!Answers, Answers
<1>3. Map!GetValue(k) <=>
              /\ reply' = IF k \in DOMAIN Content THEN Finds(Content[k]) ELSE Answers(FALSE)
              /\ UNCHANGED Content
  BY Zenon DEF Map!GetValue, Map!Answers, Answers, Map!Finds, Finds
<1>4. Map!Remove(k) <=>
              /\ reply' = Answers(TRUE)
              /\ Content' = [j \in (DOMAIN Content) \ {k} |-> Content[j]]
  BY Zenon DEF Map!Remove, Map!Answers, Answers
<1>5. Map!Insert(k, r) <=>
              IF k \in DOMAIN Content
              THEN reply' = Answers(FALSE) /\ UNCHANGED Content
              ELSE /\ reply' = Answers(TRUE)
                   /\ Content' = [j \in {k} \cup DOMAIN Content |-> IF j = k THEN r ELSE Content[j]]
  BY Zenon DEF Map!Insert, Map!Answers, Answers
<1> QED BY ONLY <1>1, <1>2, <1>3, <1>4, <1>5, Zenon

\* Where an entry is stored.
LEMMA StoredAt ==
  ASSUME NEW t, NEW rt, NEW orphan, NEW lo, NEW hi, NEW top, NEW ht,
         Core(t, rt, orphan, lo, hi, top, ht), NEW x
  PROVE  x \in Stored(t) <=> \E p \in LeavesIn(t) : \E i \in 1..Len(t[p].entries) : t[p].entries[i] = x
<1>1. t \in [Pages -> Nodes]
  BY DEF Core
<1>2. ASSUME NEW p \in LeavesIn(t)
      PROVE  x \in ToSet(t[p].entries) <=> \E i \in 1..Len(t[p].entries) : t[p].entries[i] = x
  <2>1. t[p].entries \in Seq(Entries)
    BY ONLY <1>1, p \in LeavesIn(t), LeafNode
  <2> QED BY ONLY <2>1, ElementsOf
<1>3. x \in Stored(t) <=> \E p \in LeavesIn(t) : x \in ToSet(t[p].entries)
  BY DEF Stored, Within
<1> QED BY ONLY <1>2, <1>3

\* No key is stored twice.
LEMMA StoredUnique ==
  ASSUME NEW t, NEW rt, NEW orphan, NEW lo, NEW hi, NEW top, NEW ht,
         Core(t, rt, orphan, lo, hi, top, ht)
  PROVE  Unique(Stored(t))
<1>0. Core(t, rt, orphan, lo, hi, top, ht)
  OBVIOUS
<1>1. SUFFICES ASSUME NEW x \in Stored(t), NEW y \in Stored(t), x.key = y.key PROVE x = y
  BY DEF Unique
<1>2. PICK p \in LeavesIn(t) : \E i \in 1..Len(t[p].entries) : t[p].entries[i] = x
  BY ONLY <1>0, x \in Stored(t), StoredAt
<1>3. PICK i \in 1..Len(t[p].entries) : t[p].entries[i] = x
  BY ONLY <1>2
<1>4. PICK q \in LeavesIn(t) : \E j \in 1..Len(t[q].entries) : t[q].entries[j] = y
  BY ONLY <1>0, y \in Stored(t), StoredAt
<1>5. PICK j \in 1..Len(t[q].entries) : t[q].entries[j] = y
  BY ONLY <1>4
<1>6. x.key \in Int /\ lo[p] <= x.key /\ x.key < hi[p]
  BY ONLY <1>0, <1>3, p \in LeavesIn(t), EntryBounds
<1>7. y.key \in Int /\ lo[q] <= y.key /\ y.key < hi[q]
  BY ONLY <1>0, <1>5, q \in LeavesIn(t), EntryBounds
<1>8. p = q
  <2>1. p \in NodesIn(t) /\ q \in NodesIn(t) /\ ht[p] = 0 /\ ht[q] = 0
    BY ONLY <1>0, p \in LeavesIn(t), q \in LeavesIn(t), CoreTypes, LeafOrdered
  <2>2. PICK k \in Int : k = x.key
    BY <1>6
  <2>3. ht[p] = ht[q] /\ lo[p] <= k /\ k < hi[p] /\ lo[q] <= k /\ k < hi[q]
    BY ONLY <2>1, <2>2, <1>1, <1>6, <1>7
  <2> QED BY ONLY <1>0, <2>1, <2>3, k \in Int, SameNode
<1>9. \A m, n \in 1..Len(t[p].entries) : m < n => t[p].entries[m].key < t[p].entries[n].key
  <2>1. Ordered(t[p].entries, lo[p], hi[p])
    BY ONLY <1>0, p \in LeavesIn(t), LeafOrdered
  <2> QED BY ONLY <2>1 DEF Ordered
<1>10. i = j
  <2>1. i \in Int /\ j \in Int /\ j \in 1..Len(t[p].entries)
    BY <1>8
  <2>2. ~(i < j) /\ ~(j < i)
    BY ONLY <2>1, <1>1, <1>3, <1>5, <1>6, <1>8, <1>9, i \in 1..Len(t[p].entries)
  <2> QED BY ONLY <2>1, <2>2
<1> QED BY ONLY <1>3, <1>5, <1>8, <1>10

\* Nothing is stored in an empty tree.
LEMMA NothingStored ==
  ASSUME NEW t, NEW rt, Empty(t, rt)
  PROVE  Stored(t) = {}
BY EmptyTable DEF Stored, Within

\* No key is ever stored twice.
LEMMA AlwaysUnique ==
  ASSUME TreeInv
  PROVE  Unique(Stored(node))
<1>1. CASE Empty(node, root)
  BY <1>1, NothingStored DEF Unique
<1>2. ASSUME NEW orphan, NEW weak, InOrder(node, root, orphan, weak)
      PROVE  Unique(Stored(node))
  BY <1>2, StoredUnique DEF InOrder
<1> QED BY <1>1, <1>2, AnyTable DEF Ordinary

\* A search finds the entry for k if there is one.
LEMMA SearchAnswers ==
  ASSUME TreeInv, fix = Quiet, root # NoPage, NEW k \in Keys,
         NEW leaf, leaf = LeafFor(k), NEW e, e = node[leaf].entries, NEW i, i = KeyIndex(LeafKeys(leaf), k)
  PROVE  /\ Has(LeafKeys(leaf), k) <=> HasEntry(Stored(node), k)
         /\ Has(LeafKeys(leaf), k) => e[i] \in Stored(node) /\ e[i].key = k
<1>1. Whole(node, root)
  BY QuietCases
<1>2. PICK lo, hi, ht : Core(node, root, NoPage, lo, hi, hi, ht)
  BY ONLY <1>1 DEF Whole, WholeBy
<1>3. leaf \in LeavesIn(node) /\ leaf \in NodesIn(node) /\ ht[leaf] = 0 /\ lo[leaf] <= k /\ k < hi[leaf]
  BY ONLY <1>2, k \in Keys, leaf = LeafFor(k), LeafFound
<1>4. e \in Seq(Entries) /\ Ordered(e, lo[leaf], hi[leaf])
  <2>1. node \in [Pages -> Nodes]
    BY ONLY <1>2 DEF Core
  <2> QED BY ONLY <2>1, <1>2, <1>3, e = node[leaf].entries, LeafNode, LeafOrdered
<1>5. PICK s : s = KeysOf(e)
  OBVIOUS
<1>6. LeafKeys(leaf) = s
  BY ONLY <1>5, e = node[leaf].entries, KeysOfLeaf
<1>7. /\ s \in Seq(Int) /\ Ascending(s) /\ Len(s) = Len(e) /\ k \in Int
      /\ \A j \in 1..Len(e) : s[j] = e[j].key
  BY ONLY <1>4, <1>5, k \in Keys, EntryKeys, KeysWithin
<1>8. /\ Has(s, k) <=> \E j \in 1..Len(s) : s[j] = k
      /\ \A j \in 1..Len(s) : s[j] = k => KeyIndex(s, k) = j
  BY ONLY <1>7, HasKey
<1>9. ASSUME NEW j \in 1..Len(e), e[j].key = k
      PROVE  i = j /\ e[j] \in Stored(node)
  <2>1. i = j
    BY ONLY <1>6, <1>7, <1>8, <1>9, i = KeyIndex(LeafKeys(leaf), k)
  <2>2. e[j] \in Stored(node)
    BY ONLY <1>2, <1>3, e = node[leaf].entries, j \in 1..Len(e), StoredAt
  <2> QED BY <2>1, <2>2
<1>10. ASSUME Has(s, k) PROVE e[i] \in Stored(node) /\ e[i].key = k
  <2>1. PICK j \in 1..Len(e) : e[j].key = k
    BY ONLY <1>7, <1>8, <1>10
  <2> QED BY ONLY <2>1, <1>9
<1>11. ASSUME HasEntry(Stored(node), k) PROVE Has(s, k)
  <2>1. PICK x \in Stored(node) : x.key = k
    BY ONLY <1>11 DEF HasEntry
  <2>2. PICK q \in LeavesIn(node) : \E j \in 1..Len(node[q].entries) : node[q].entries[j] = x
    BY ONLY <1>2, x \in Stored(node), StoredAt
  <2>3. PICK j \in 1..Len(node[q].entries) : node[q].entries[j] = x
    BY ONLY <2>2
  <2>4. lo[q] <= k /\ k < hi[q]
    BY ONLY <1>2, <2>1, <2>3, q \in LeavesIn(node), EntryBounds
  <2>5. q \in NodesIn(node) /\ ht[q] = 0
    BY ONLY <1>2, q \in LeavesIn(node), CoreTypes, LeafOrdered
  <2>6. ht[q] = ht[leaf]
    BY ONLY <2>5, <1>3
  <2>7. q = leaf
    BY ONLY <1>2, <1>3, <1>7, <2>4, <2>5, <2>6, SameNode
  <2>8. j \in 1..Len(s) /\ s[j] = k
    BY ONLY <2>1, <2>3, <2>7, <1>7, e = node[leaf].entries, j \in 1..Len(node[q].entries)
  <2> QED BY ONLY <2>8, <1>8
<1>12. HasEntry(Stored(node), k) <=> Has(s, k)
  BY ONLY <1>10, <1>11 DEF HasEntry
<1> QED BY ONLY <1>6, <1>10, <1>12

\* Present says whether there is an entry for k.
LEMMA PresentAnswers ==
  ASSUME TreeInv, fix = Quiet, NEW k \in Keys
  PROVE  Present(k) <=> k \in DOMAIN Content
<1>1. k \in DOMAIN Content <=> HasEntry(Stored(node), k)
  BY ONLY MapDomain DEF Content
<1>2. CASE root = NoPage
  <2>1. Stored(node) = {}
    BY <1>2, QuietCases, NothingStored
  <2>2. ~HasEntry(Stored(node), k)
    BY ONLY <2>1 DEF HasEntry
  <2> QED BY ONLY <2>2, <1>1, <1>2 DEF Present
<1>3. CASE root # NoPage
  <2>1. Has(LeafKeys(LeafFor(k)), k) <=> HasEntry(Stored(node), k)
    BY <1>3, SearchAnswers
  <2> QED BY ONLY <2>1, <1>1, <1>3 DEF Present
<1> QED BY <1>2, <1>3

\* A tree in order has an entry: so the tree is empty when there is no root.
LEMMA SomeEntry ==
  ASSUME Whole(node, root)
  PROVE  Stored(node) # {}
<1>1. PICK lo, hi, ht : Core(node, root, NoPage, lo, hi, hi, ht) /\ Filled(node, root, NoPage)
  BY DEF Whole, WholeBy
<1>2. LeavesIn(node) # {}
  <2>1. SUFFICES ASSUME LeavesIn(node) = {} PROVE FALSE
    OBVIOUS
  <2>2. root \in InternalsIn(node) /\ root \in Pages /\ node \in [Pages -> Nodes]
    BY <2>1, <1>1, CoreTypes DEF Core, NodesIn
  <2>3. /\ node[root].keys \in Seq(Keys) /\ Len(node[root].kids) = Len(node[root].keys) + 1
        /\ Len(node[root].kids) >= 2
    <3>1. root # NoPage
      BY ONLY <2>2, TreeAssumption
    <3> QED BY ONLY <3>1, <2>2, <1>1, InternalNode DEF Filled
  <2>4. PICK k \in Keys : k = node[root].keys[1]
    BY ONLY <2>3
  <2>5. LeafFor(k) \in LeavesIn(node)
    BY ONLY <1>1, k \in Keys, LeafFound
  <2> QED BY ONLY <2>1, <2>5
<1>3. PICK p : p \in LeavesIn(node)
  BY ONLY <1>2
<1>4. node[p].entries \in Seq(Entries) /\ Len(node[p].entries) > 0
  <2>1. node \in [Pages -> Nodes]
    BY ONLY <1>1 DEF Core
  <2> QED BY ONLY <2>1, <1>1, <1>3, LeafNode DEF Filled
<1>5. PICK x : x = node[p].entries[1]
  OBVIOUS
<1>6. x \in ToSet(node[p].entries)
  <2>1. 1 \in 1..Len(node[p].entries)
    BY ONLY <1>4
  <2> QED BY ONLY <2>1, <1>4, <1>5, ElementsOf
<1>7. x \in Stored(node)
  BY ONLY <1>3, <1>6 DEF Stored, Within
<1> QED BY ONLY <1>7

\* The map is empty when there is no tree.
LEMMA EmptyAnswers ==
  ASSUME TreeInv, fix = Quiet
  PROVE  root = NoPage <=> DOMAIN Content = {}
<1>1. CASE root = NoPage
  <2>1. Stored(node) = {}
    BY <1>1, QuietCases, NothingStored
  <2>2. \A j : j \notin DOMAIN Content
    BY ONLY <2>1, MapDomain DEF Content, HasEntry
  <2> QED BY ONLY <2>2, <1>1
<1>2. CASE root # NoPage
  <2>1. Stored(node) # {}
    BY <1>2, QuietCases, SomeEntry
  <2>2. PICK x : x \in Stored(node)
    BY ONLY <2>1
  <2>3. x.key \in DOMAIN Content
    BY ONLY <2>2, MapDomain DEF Content, HasEntry
  <2> QED BY ONLY <2>3, <1>2
<1> QED BY <1>1, <1>2

\* What GetValue finds is what the map holds.
LEMMA FoundAnswers ==
  ASSUME TreeInv, fix = Quiet, NEW k \in Keys, Present(k), NEW leaf, leaf = LeafFor(k)
  PROVE  node[leaf].entries[KeyIndex(LeafKeys(leaf), k)].rid = Content[k]
<1>1. root # NoPage /\ Has(LeafKeys(leaf), k)
  BY DEF Present
<1>2. PICK e, i : e = node[leaf].entries /\ i = KeyIndex(LeafKeys(leaf), k)
  OBVIOUS
<1>3. e[i] \in Stored(node) /\ e[i].key = k
  BY <1>1, <1>2, SearchAnswers
<1>4. MapOf(Stored(node))[k] = e[i].rid
  BY <1>3, AlwaysUnique, MapAt
<1> QED BY ONLY <1>2, <1>4 DEF Content

-----------------------------------------------------------------------------
(* The steps of the tree are steps of the map                              *)

\* What the two states hold.
LEMMA Contents == Content = MapOf(Stored(node)) /\ Content' = MapOf(Stored(node'))
BY DEF Content

\* A step that keeps what is stored keeps what the map holds.
LEMMA ContentKept ==
  ASSUME Stored(node') = Stored(node)
  PROVE  UNCHANGED Content
BY ONLY Contents, Stored(node') = Stored(node)

\* An entry more, for a key that had none, is an insertion.
LEMMA EntryAdded ==
  ASSUME TreeInv, NEW k \in Keys, NEW r \in Rids, Gains(Stored(node), Stored(node'), Entry(k, r)),
         ~HasEntry(Stored(node), k), reply' = Answers(TRUE)
  PROVE  Map!Insert(k, r)
<1>1. MapOf(Stored(node')) = [j \in {k} \cup DOMAIN MapOf(Stored(node)) |-> IF j = k THEN r ELSE MapOf(Stored(node))[j]]
  <2>1. PICK S, S2 : S = Stored(node) /\ S2 = Stored(node')
    OBVIOUS
  <2>2. Unique(S) /\ ~HasEntry(S, k) /\ Gains(S, S2, Entry(k, r))
    BY <2>1, AlwaysUnique
  <2>3. MapOf(S2) = Extended(MapOf(S), k, r)
    BY ONLY <2>2, MapWith
  <2> QED BY ONLY <2>1, <2>3 DEF Extended
<1>2. Content' = [j \in {k} \cup DOMAIN Content |-> IF j = k THEN r ELSE Content[j]]
  BY ONLY <1>1, Contents
<1>3. k \notin DOMAIN Content
  BY Contents, MapDomain
<1>4. Map!Insert(k, r) <=>
              IF k \in DOMAIN Content
              THEN reply' = Answers(FALSE) /\ UNCHANGED Content
              ELSE /\ reply' = Answers(TRUE)
                   /\ Content' = [j \in {k} \cup DOMAIN Content |-> IF j = k THEN r ELSE Content[j]]
  BY ONLY MapSteps, Zenon
<1> QED BY ONLY <1>2, <1>3, <1>4, reply' = Answers(TRUE)

\* No entry for the key any more is a removal.
LEMMA EntryDropped ==
  ASSUME TreeInv, NEW k \in Keys, Loses(Stored(node), Stored(node'), k), reply' = Answers(TRUE)
  PROVE  Map!Remove(k)
<1>1. MapOf(Stored(node')) = [j \in (DOMAIN MapOf(Stored(node))) \ {k} |-> MapOf(Stored(node))[j]]
  BY AlwaysUnique, MapWithout
<1>2. Content' = [j \in (DOMAIN Content) \ {k} |-> Content[j]]
  BY ONLY <1>1, Contents
<1>3. Map!Remove(k) <=>
              /\ reply' = Answers(TRUE)
              /\ Content' = [j \in (DOMAIN Content) \ {k} |-> Content[j]]
  BY ONLY MapSteps, Zenon
<1> QED BY ONLY <1>2, <1>3, reply' = Answers(TRUE)

\* Insert: a new key is added, an old one keeps its record.
LEMMA MapInserts ==
  ASSUME TreeInv, NEW k \in Keys, NEW r \in Rids, Insert(k, r)
  PROVE  Map!Insert(k, r)
<1>1. CASE InsertFirst(k, r)
  <2>1. Gains(Stored(node), Stored(node'), Entry(k, r)) /\ reply' = Answers(TRUE) /\ fix = Quiet /\ root = NoPage
    BY <1>1, StepInsertFirst DEF InsertFirst
  <2>2. ~HasEntry(Stored(node), k)
    BY <2>1, QuietCases, NothingStored DEF HasEntry
  <2> QED BY <2>1, <2>2, EntryAdded
<1>2. CASE InsertDuplicate(k)
  <2>1. fix = Quiet /\ Present(k) /\ reply' = Answers(FALSE) /\ node' = node
    BY <1>2 DEF InsertDuplicate
  <2>2. k \in DOMAIN Content
    BY <2>1, PresentAnswers
  <2>3. UNCHANGED Content
    BY <2>1, ContentKept
  <2>4. Map!Insert(k, r) <=>
              IF k \in DOMAIN Content
              THEN reply' = Answers(FALSE) /\ UNCHANGED Content
              ELSE /\ reply' = Answers(TRUE)
                   /\ Content' = [j \in {k} \cup DOMAIN Content |-> IF j = k THEN r ELSE Content[j]]
    BY ONLY MapSteps, Zenon
  <2> QED BY ONLY <2>1, <2>2, <2>3, <2>4
<1>3. CASE InsertRoom(k, r)
  <2>1. Gains(Stored(node), Stored(node'), Entry(k, r)) /\ reply' = Answers(TRUE)
    BY <1>3, StepInsertRoom DEF InsertRoom
  <2>2. fix = Quiet /\ root # NoPage /\ ~Has(LeafKeys(LeafFor(k)), k)
    BY <1>3 DEF InsertRoom
  <2>3. ~HasEntry(Stored(node), k)
    BY <2>2, SearchAnswers
  <2> QED BY <2>1, <2>3, EntryAdded
<1>4. CASE InsertSplit(k, r)
  <2>1. Gains(Stored(node), Stored(node'), Entry(k, r)) /\ reply' = Answers(TRUE)
    BY <1>4, StepInsertSplit DEF InsertSplit
  <2>2. fix = Quiet /\ root # NoPage /\ ~Has(LeafKeys(LeafFor(k)), k)
    BY <1>4 DEF InsertSplit, LeafFor
  <2>3. ~HasEntry(Stored(node), k)
    BY <2>2, SearchAnswers
  <2> QED BY <2>1, <2>3, EntryAdded
<1> QED BY <1>1, <1>2, <1>3, <1>4 DEF Insert

\* Remove: the key is gone, if it was there.
LEMMA MapRemoves ==
  ASSUME TreeInv, NEW k \in Keys, RemoveKey(k)
  PROVE  Map!Remove(k)
<1>1. CASE RemoveNothing(k)
  <2>1. fix = Quiet /\ ~Present(k) /\ reply' = Answers(TRUE) /\ node' = node
    BY <1>1 DEF RemoveNothing
  <2>2. ~HasEntry(Stored(node), k)
    BY <2>1, PresentAnswers, MapDomain DEF Content
  <2>3. Loses(Stored(node), Stored(node'), k)
    BY ONLY <2>1, <2>2 DEF Loses, HasEntry
  <2> QED BY <2>1, <2>3, EntryDropped
<1>2. CASE RemoveEntry(k)
  <2>1. Loses(Stored(node), Stored(node'), k) /\ reply' = Answers(TRUE)
    BY <1>2, StepRemoveEntry DEF RemoveEntry
  <2> QED BY <2>1, EntryDropped
<1>3. CASE RemoveUnderflow(k)
  <2>1. Loses(Stored(node), Stored(node'), k) /\ reply' = Answers(TRUE)
    BY <1>3, StepRemoveUnderflow DEF RemoveUnderflow
  <2> QED BY <2>1, EntryDropped
<1> QED BY <1>1, <1>2, <1>3 DEF RemoveKey

\* GetValue answers with what the map holds.
LEMMA MapGets ==
  ASSUME TreeInv, NEW k \in Keys, GetValue(k)
  PROVE  Map!GetValue(k)
<1>1. PICK leaf : leaf = LeafFor(k)
  OBVIOUS
<1>2. PICK v : v = node[leaf].entries[KeyIndex(LeafKeys(leaf), k)].rid
  OBVIOUS
<1>3. /\ fix = Quiet /\ node' = node
      /\ reply' = IF Present(k) THEN Finds(v) ELSE Answers(FALSE)
  BY <1>1, <1>2 DEF GetValue
<1>4. Present(k) <=> k \in DOMAIN Content
  BY <1>3, PresentAnswers
<1>5. Present(k) => v = Content[k]
  BY <1>1, <1>2, <1>3, FoundAnswers
<1>6. UNCHANGED Content
  BY <1>3, ContentKept
<1>7. Map!GetValue(k) <=>
              /\ reply' = IF k \in DOMAIN Content THEN Finds(Content[k]) ELSE Answers(FALSE)
              /\ UNCHANGED Content
  BY ONLY MapSteps, Zenon
<1> QED BY ONLY <1>3, <1>4, <1>5, <1>6, <1>7

\* IsEmpty says whether the map is empty.
LEMMA MapEmpty ==
  ASSUME TreeInv, IsEmpty
  PROVE  Map!IsEmpty
<1>1. fix = Quiet /\ node' = node /\ reply' = Answers(root = NoPage)
  BY DEF IsEmpty
<1>2. root = NoPage <=> DOMAIN Content = {}
  BY <1>1, EmptyAnswers
<1>3. UNCHANGED Content
  BY <1>1, ContentKept
<1>4. Map!IsEmpty <=> reply' = Answers(DOMAIN Content = {}) /\ UNCHANGED Content
  BY ONLY MapSteps, Zenon
<1>5. (root = NoPage) = (DOMAIN Content = {})
  BY ONLY <1>2
<1>6. Answers(root = NoPage) = Answers(DOMAIN Content = {})
  BY ONLY <1>5, Zenon
<1> QED BY ONLY <1>1, <1>3, <1>4, <1>6, Zenon

\* Every step is one of the map, or leaves it alone.
LEMMA MapStep ==
  ASSUME TreeInv, [Next]_vars
  PROVE  [Map!Next]_(Map!vars)
<1>1. ASSUME NEW k \in Keys, NEW r \in Rids, Insert(k, r)
      PROVE  Map!Next
  <2>1. Map!Insert(k, r)
    BY <1>1, MapInserts
  <2> QED BY ONLY <2>1, k \in Keys, r \in Rids, Zenon DEF Map!Next
<1>2. ASSUME NEW k \in Keys, RemoveKey(k)
      PROVE  Map!Next
  <2>1. Map!Remove(k)
    BY <1>2, MapRemoves
  <2> QED BY ONLY <2>1, k \in Keys, Zenon DEF Map!Next
<1>3. ASSUME NEW k \in Keys, GetValue(k)
      PROVE  Map!Next
  <2>1. Map!GetValue(k)
    BY <1>3, MapGets
  <2> QED BY ONLY <2>1, k \in Keys, Zenon DEF Map!Next
<1>4. CASE IsEmpty
  <2>1. Map!IsEmpty
    BY <1>4, MapEmpty
  <2>2. Map!Next
    BY ONLY <2>1, Zenon DEF Map!Next
  <2> QED BY <2>2
<1>5. ASSUME Stored(node') = Stored(node), reply' = reply
      PROVE  UNCHANGED (Map!vars)
  <2>1. UNCHANGED Content
    BY <1>5, ContentKept
  <2>2. Map!vars = <<Content, reply>>
    BY ONLY MapSteps, Zenon
  <2>3. (Map!vars)' = <<Content', reply'>>
    BY Zenon DEF Map!vars, Content, MapOf, Stored, Within, Leaves, LeavesIn
  <2> QED BY ONLY <2>1, <2>2, <2>3, <1>5
<1>6. CASE GrowParent
  BY <1>5, <1>6, StepGrowParent DEF GrowParent
<1>7. CASE GrowRoot
  BY <1>5, <1>7, StepGrowRoot DEF GrowRoot
<1>8. CASE ShrinkRoot
  BY <1>5, <1>8, StepShrinkRoot DEF ShrinkRoot
<1>9. CASE ShrinkStop
  BY <1>5, <1>9, StepShrinkStop DEF ShrinkStop
<1>10. CASE ShrinkNode
  BY <1>5, <1>10, StepShrinkNode DEF ShrinkNode
<1>11. CASE UNCHANGED vars
  BY <1>5, <1>11 DEF vars
<1> QED BY <1>1, <1>2, <1>3, <1>4, <1>6, <1>7, <1>8, <1>9, <1>10, <1>11 DEF Next

\* The empty tree is the empty map.
LEMMA MapStart ==
  ASSUME Init
  PROVE  Map!Init
<1>1. Stored(node) = {} /\ reply = Answers(TRUE)
  BY NothingStored DEF Init, Empty
<1>2. Content = [j \in {} |-> 0]
  <2>1. MapOf({}) = [j \in {} |-> 0]
    BY DEF MapOf
  <2> QED BY ONLY <2>1, <1>1 DEF Content
<1>3. Map!Init <=> Content = [j \in {} |-> 0] /\ reply = Answers(TRUE)
  BY Zenon DEF Map!Init, Map!Answers, Answers, Content, MapOf, Stored, Within, Leaves, LeavesIn
<1> QED BY ONLY <1>1, <1>2, <1>3

\* The tree is a map from unique keys to record ids: no split, redistribution or
\* merge loses, doubles or moves an entry out of the reach of a search, and every
\* call answers accordingly.
THEOREM IndexMapImplemented == Spec => ImplementsIndexMap
<1>1. Init => Map!Init
  BY MapStart
<1>2. TreeInv /\ [Next]_vars => [Map!Next]_(Map!vars)
  BY MapStep
<1> QED BY <1>1, <1>2, TreeInvariant, PTL DEF Spec, ImplementsIndexMap, Map!Spec
=============================================================================
