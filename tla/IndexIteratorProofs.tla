------------------------- MODULE IndexIteratorProofs -------------------------
(*****************************************************************************)
(* The invariant of an iterator beside the operations of the tree and what   *)
(* the buffer pool does to its leaf, and that it is the cursor that          *)
(* IndexCursor promises.                                                     *)
(*****************************************************************************)
EXTENDS IndexIterator, BPlusTreeProofs

-----------------------------------------------------------------------------
(* The outermost leaves                                                    *)

\* One step of a descent by way of the children in kid, f being what follows.
Down(kid, f, p) == IF node[p].kind = "internal" THEN f[kid[p]] ELSE p

\* The descent goes down one level at a time; it does not leave J.
Descends(kid, ht) == \A p \in InternalsIn(node) : kid[p] \in NodesIn(node) /\ ht[p] = ht[kid[p]] + 1

KeptBy(J, kid) == J \subseteq NodesIn(node) /\ \A p \in J : p \in InternalsIn(node) => kid[p] \in J

\* The recursion of FirstLeaf and of LastLeaf ends.
LEMMA DownDefined ==
  ASSUME NEW lo, NEW hi, NEW ht, Core(node, root, NoPage, lo, hi, hi, ht),
         NEW kid, Descends(kid, ht)
  PROVE  \E g : g = [p \in Pages |-> Down(kid, g, p)]
<1> DEFINE rank == [p \in Pages |-> IF p \in NodesIn(node) THEN ht[p] ELSE 0]
           B == [f \in [Pages -> Pages] |-> [p \in Pages |-> Down(kid, f, p)]]
<1>1. PICK bound \in Nat : bound = ht[root]
  BY CoreTypes
<1>2. /\ NodesIn(node) \subseteq Pages /\ InternalsIn(node) \subseteq NodesIn(node)
      /\ \A p \in Pages : ht[p] \in Nat
  BY CoreTypes
<1>3. \A p \in NodesIn(node) : ht[p] <= bound
  BY <1>1, CoreSearch
<1>4. rank \in [Pages -> 0..bound]
  <2> SUFFICES ASSUME NEW p \in Pages, p \in NodesIn(node) PROVE ht[p] \in 0..bound
    OBVIOUS
  <2> QED BY <1>2, <1>3
<1>5. ASSUME NEW f \in [Pages -> Pages], NEW g \in [Pages -> Pages], NEW p \in Pages,
             \A q \in Pages : rank[q] < rank[p] => f[q] = g[q]
      PROVE  Down(kid, f, p) = Down(kid, g, p) /\ Down(kid, f, p) \in Pages
  <2>1. CASE node[p].kind = "internal"
    <3>1. PICK c : c = kid[p]
      OBVIOUS
    <3>2. p \in InternalsIn(node)
      BY <2>1 DEF InternalsIn
    <3>3. c \in NodesIn(node) /\ ht[p] = ht[c] + 1
      BY <3>1, <3>2 DEF Descends
    <3>4. c \in Pages /\ rank[c] < rank[p]
      BY <1>2, <3>2, <3>3
    <3> QED BY <1>5, <2>1, <3>1, <3>4 DEF Down
  <2>2. CASE node[p].kind # "internal"
    BY <2>2 DEF Down
  <2> QED BY <2>1, <2>2
<1>6. B \in [[Pages -> Pages] -> [Pages -> Pages]]
  BY <1>5
<1>7. \A f, g \in [Pages -> Pages], x \in Pages :
         (\A y \in Pages : rank[y] < rank[x] => f[y] = g[y]) => B[f][x] = B[g][x]
  BY <1>5
<1>8. Pages # {}
  BY CoreTypes
<1> HIDE DEF B, rank
<1>9. \E f \in [Pages -> Pages] : f = B[f]
  <2>1. Recursive(Pages, Pages, bound, rank, B)
    BY <1>4, <1>6, <1>7, <1>8 DEF Recursive
  <2> QED BY <2>1, RankRecursion
<1> QED BY <1>9 DEF B

\* A descent that does not leave J ends at a leaf in J.
LEMMA DownEnds ==
  ASSUME NEW lo, NEW hi, NEW ht, Core(node, root, NoPage, lo, hi, hi, ht),
         NEW kid, Descends(kid, ht), NEW J, KeptBy(J, kid), root \in J,
         NEW g, g = [p \in Pages |-> Down(kid, g, p)]
  PROVE  g[root] \in J /\ g[root] \in LeavesIn(node)
<1>1. /\ NodesIn(node) \subseteq Pages /\ root \in NodesIn(node)
      /\ \A p \in Pages : ht[p] \in Nat
      /\ \A p \in NodesIn(node) : p \in LeavesIn(node) \/ p \in InternalsIn(node)
  BY CoreTypes
<1>2. \A p \in Pages : g[p] = Down(kid, g, p)
  <2>1. \A p \in Pages : [q \in Pages |-> Down(kid, g, q)][p] = Down(kid, g, p)
    OBVIOUS
  <2> QED BY <2>1
<1> DEFINE S == {h \in Nat : \A p \in J : ht[p] = h => g[p] \in J /\ g[p] \in LeavesIn(node)}
<1>3. \A p \in J : p \in NodesIn(node) /\ p \in Pages /\ (p \in InternalsIn(node) => kid[p] \in J)
  BY <1>1 DEF KeptBy
<1>4. ASSUME NEW p \in J, p \in LeavesIn(node) PROVE g[p] \in J /\ g[p] \in LeavesIn(node)
  <2>1. node[p].kind # "internal"
    BY <1>4 DEF LeavesIn
  <2> QED BY <2>1, <1>2, <1>3, <1>4 DEF Down
<1>5. ASSUME NEW p \in J, p \in InternalsIn(node)
      PROVE  g[p] = g[kid[p]] /\ kid[p] \in J /\ ht[p] = ht[kid[p]] + 1
  <2>1. node[p].kind = "internal"
    BY <1>5 DEF InternalsIn
  <2> QED BY <2>1, <1>2, <1>3, <1>5 DEF Down, Descends
<1>6. 0 \in S
  <2> SUFFICES ASSUME NEW p \in J, ht[p] = 0 PROVE g[p] \in J /\ g[p] \in LeavesIn(node)
    OBVIOUS
  <2>1. p \in LeavesIn(node)
    <3>1. p \in InternalsIn(node) => ht[p] = ht[kid[p]] + 1 /\ ht[kid[p]] \in Nat
      BY <1>1, <1>3, <1>5
    <3> QED BY <3>1, <1>1, <1>3
  <2> QED BY <2>1, <1>4
<1>7. ASSUME NEW h \in Nat, h \in S PROVE h + 1 \in S
  <2> SUFFICES ASSUME NEW p \in J, ht[p] = h + 1 PROVE g[p] \in J /\ g[p] \in LeavesIn(node)
    OBVIOUS
  <2>1. CASE p \in LeavesIn(node)
    BY <2>1, <1>4
  <2>2. CASE p \in InternalsIn(node)
    <3>1. g[p] = g[kid[p]] /\ kid[p] \in J /\ ht[p] = ht[kid[p]] + 1 /\ ht[kid[p]] \in Nat
      BY <2>2, <1>1, <1>3, <1>5
    <3>2. ht[kid[p]] = h
      BY <3>1
    <3> QED BY <3>1, <3>2, <1>7
  <2> QED BY <2>1, <2>2, <1>1, <1>3
<1> HIDE DEF S
<1>8. \A h \in Nat : h \in S
  BY <1>6, <1>7, SetInduction
<1> QED BY <1>8, <1>1 DEF S

\* The descent by the first children ends at the leaf of the least keys, the
\* descent by the last ones at that of the greatest.
LEMMA OuterLeaves ==
  ASSUME NEW lo, NEW hi, NEW ht, Core(node, root, NoPage, lo, hi, hi, ht)
  PROVE  /\ FirstLeaf \in LeavesIn(node) /\ lo[FirstLeaf] = Low
         /\ LastLeaf \in LeavesIn(node) /\ hi[LastLeaf] = High
<1>1. /\ NodesIn(node) \subseteq Pages /\ InternalsIn(node) \subseteq NodesIn(node) /\ root \in NodesIn(node)
      /\ node \in [Pages -> Nodes] /\ lo[root] = Low /\ hi[root] = High
  BY CoreTypes DEF Core, Rooted
<1>2. ASSUME NEW p \in InternalsIn(node), NEW n, n = Len(node[p].kids)
      PROVE  /\ Head(node[p].kids) = node[p].kids[1] /\ Last(node[p].kids) = node[p].kids[n]
             /\ 1 \in 1..n /\ n \in 1..n
             /\ LowerOf(node, lo, p, 1) = lo[p] /\ UpperOf(node, hi, p, n) = hi[p]
  <2>1. /\ node[p].kids \in Seq(Pages) /\ node[p].keys \in Seq(Keys)
        /\ Len(node[p].kids) = Len(node[p].keys) + 1
    BY <1>1, InternalNode
  <2>2. Len(node[p].kids) > 0 /\ 1 \in 1..n /\ n \in 1..n
    BY ONLY <2>1, <1>2
  <2>3. Head(node[p].kids) = node[p].kids[1]
    BY ONLY <2>1, <2>2, TailFacts
  <2>4. Last(node[p].kids) = node[p].kids[n]
    BY ONLY <2>1, <2>2, <1>2, FrontFacts
  <2> QED BY ONLY <2>2, <2>3, <2>4, <1>2 DEF LowerOf, UpperOf
<1>3. /\ FirstLeaf \in LeavesIn(node) /\ lo[FirstLeaf] = Low
  <2> DEFINE Is(f) == f = [p \in Pages |-> IF node[p].kind = "internal" THEN f[Head(node[p].kids)] ELSE p]
  <2>1. PICK kid : kid = [p \in Pages |-> Head(node[p].kids)]
    OBVIOUS
  <2>2. \A p \in InternalsIn(node) : kid[p] \in NodesIn(node) /\ ht[p] = ht[kid[p]] + 1 /\ lo[kid[p]] = lo[p]
    <3> SUFFICES ASSUME NEW p \in InternalsIn(node)
                 PROVE  kid[p] \in NodesIn(node) /\ ht[p] = ht[kid[p]] + 1 /\ lo[kid[p]] = lo[p]
      OBVIOUS
    <3>1. kid[p] = node[p].kids[1] /\ 1 \in 1..Len(node[p].kids) /\ LowerOf(node, lo, p, 1) = lo[p]
      BY <1>1, <1>2, <2>1
    <3> QED BY <3>1, KidFacts
  <2>3. PICK J : J = {p \in NodesIn(node) : lo[p] = Low}
    OBVIOUS
  <2>4. Descends(kid, ht) /\ KeptBy(J, kid) /\ root \in J
    BY <1>1, <2>2, <2>3 DEF Descends, KeptBy
  <2>5. \A f : [p \in Pages |-> Down(kid, f, p)]
                 = [p \in Pages |-> IF node[p].kind = "internal" THEN f[Head(node[p].kids)] ELSE p]
    BY ONLY <2>1 DEF Down
  <2>6. \E f : Is(f)
    BY <2>4, <2>5, DownDefined
  <2>7. Is(CHOOSE f : Is(f))
    BY ONLY <2>6
  <2>8. FirstLeaf = (CHOOSE f : Is(f))[root]
    BY Zenon DEF FirstLeaf
  <2> HIDE DEF Is
  <2>9. PICK g : Is(g) /\ FirstLeaf = g[root]
    BY ONLY <2>7, <2>8
  <2>10. g = [p \in Pages |-> Down(kid, g, p)]
    BY ONLY <2>5, <2>9 DEF Is
  <2>11. g[root] \in J /\ g[root] \in LeavesIn(node)
    BY <2>4, <2>10, DownEnds
  <2> QED BY <2>3, <2>9, <2>11
<1>4. /\ LastLeaf \in LeavesIn(node) /\ hi[LastLeaf] = High
  <2> DEFINE Is(f) == f = [p \in Pages |-> IF node[p].kind = "internal" THEN f[Last(node[p].kids)] ELSE p]
  <2>1. PICK kid : kid = [p \in Pages |-> Last(node[p].kids)]
    OBVIOUS
  <2>2. \A p \in InternalsIn(node) : kid[p] \in NodesIn(node) /\ ht[p] = ht[kid[p]] + 1 /\ hi[kid[p]] = hi[p]
    <3> SUFFICES ASSUME NEW p \in InternalsIn(node)
                 PROVE  kid[p] \in NodesIn(node) /\ ht[p] = ht[kid[p]] + 1 /\ hi[kid[p]] = hi[p]
      OBVIOUS
    <3>1. PICK n : n = Len(node[p].kids)
      OBVIOUS
    <3>2. kid[p] = node[p].kids[n] /\ n \in 1..Len(node[p].kids) /\ UpperOf(node, hi, p, n) = hi[p]
      BY <1>1, <1>2, <2>1, <3>1
    <3> QED BY <3>2, KidFacts
  <2>3. PICK J : J = {p \in NodesIn(node) : hi[p] = High}
    OBVIOUS
  <2>4. Descends(kid, ht) /\ KeptBy(J, kid) /\ root \in J
    BY <1>1, <2>2, <2>3 DEF Descends, KeptBy
  <2>5. \A f : [p \in Pages |-> Down(kid, f, p)]
                 = [p \in Pages |-> IF node[p].kind = "internal" THEN f[Last(node[p].kids)] ELSE p]
    BY ONLY <2>1 DEF Down
  <2>6. \E f : Is(f)
    BY <2>4, <2>5, DownDefined
  <2>7. Is(CHOOSE f : Is(f))
    BY ONLY <2>6
  <2>8. LastLeaf = (CHOOSE f : Is(f))[root]
    BY Zenon DEF LastLeaf
  <2> HIDE DEF Is
  <2>9. PICK g : Is(g) /\ LastLeaf = g[root]
    BY ONLY <2>7, <2>8
  <2>10. g = [p \in Pages |-> Down(kid, g, p)]
    BY ONLY <2>5, <2>9 DEF Is
  <2>11. g[root] \in J /\ g[root] \in LeavesIn(node)
    BY <2>4, <2>10, DownEnds
  <2> QED BY <2>3, <2>9, <2>11
<1> QED BY <1>3, <1>4

-----------------------------------------------------------------------------
(* The invariant                                                           *)

Iterators == [page : Pages \cup {Gone, NoPage}, index : 1..(LeafMax + 2), last : BOOLEAN]

\* An iterator has its type, and a call that needs one has one.
IterTypes ==
    /\ it \in Iterators \cup {NoIter}
    /\ inCall \in {"none", "begin", "end", "key", "rid", "move"} /\ adrift \in BOOLEAN
    /\ seen \in Keys \cup {DefaultKey, Unknown} /\ steady \in BOOLEAN
    /\ it = NoIter => ~adrift /\ inCall \in {"none", "begin"}
    /\ it # NoIter => it.page \in LeavesIn(node) \cup {Gone, NoPage}
    /\ inCall \in {"key", "rid", "move"} => it.page # NoPage

\* While nobody changes the tree under an iterator, no operation is under way,
\* the iterator is on a leaf or there is no tree, and what a call has tested
\* still holds when it goes on.
Calm ==
    it # NoIter /\ ~adrift =>
        /\ fix = Quiet
        /\ (root = NoPage /\ it = Default) \/ (it.page \in LeavesIn(node) /\ ~it.last)
        /\ inCall = "move" => ~Exhausted(it)

\* As long as the leaf has stayed as it was and where it was, references that
\* are out are to an entry, and the key that has been read is its key.
Firm ==
    Lent /\ steady =>
        /\ it.index \in DOMAIN EntriesAt(it)
        /\ inCall = "rid" => seen = EntriesAt(it)[it.index].key

\* References that are handed out start with nothing read and nothing disturbed.
Unlent == ~Lent => seen = DefaultKey /\ steady = TRUE

IterInv == TreeInv /\ LeavesFit(node) /\ IterTypes /\ Calm /\ Firm /\ Unlent

\* NoIter is not an iterator; a page that is gone is none of the others.
LEMMA NotAnIterator ==
  /\ NoIter \notin Iterators
  /\ NoPage \notin Pages /\ Gone \notin Pages /\ Gone # NoPage
<1>1. Iterators \subseteq [page : Pages \cup {Gone, NoPage}, index : Nat, last : BOOLEAN]
  <2>1. 1..(LeafMax + 2) \subseteq Nat
    BY TreeAssumption
  <2> QED BY <2>1 DEF Iterators
<1> QED BY <1>1, IteratorAssumption, TreeAssumption

\* A leaf, in every state: its entries, and its link.
LEMMA LeafFacts ==
  ASSUME TreeInv, LeavesFit(node), NEW p \in LeavesIn(node)
  PROVE  /\ p \in Pages /\ node[p].kind = "leaf" /\ node[p] # Unused
         /\ node[p].entries \in Seq(Entries) /\ Len(node[p].entries) \in Nat
         /\ Len(node[p].entries) <= LeafMax /\ Len(node[p].entries) > 0
         /\ DOMAIN node[p].entries = 1..Len(node[p].entries)
         /\ node[p].next # NoPage => node[p].next \in LeavesIn(node)
<1>1. p \in Pages /\ node[p].kind = "leaf" /\ node[p] # Unused
  BY DEF LeavesIn, Unused
<1>2. ~Empty(node, root)
  BY EmptyTable
<1>3. PICK orphan, weak : InOrder(node, root, orphan, weak)
  BY <1>2, AnyTable DEF Ordinary
<1>4. PICK lo, hi, top, ht : Core(node, root, orphan, lo, hi, top, ht) /\ Filled(node, root, weak)
  BY <1>3 DEF InOrder
<1>5. node \in [Pages -> Nodes] /\ (node[p].next # NoPage => node[p].next \in LeavesIn(node))
  BY <1>4 DEF Core, Chain
<1>6. node[p].entries \in Seq(Entries)
  BY <1>5, LeafNode
<1>7. Len(node[p].entries) > 0 /\ Len(node[p].entries) <= LeafMax
  BY <1>4 DEF Filled, LeavesFit
<1>8. Len(node[p].entries) \in Nat /\ DOMAIN node[p].entries = 1..Len(node[p].entries)
  BY ONLY <1>6
<1> QED BY <1>1, <1>5, <1>6, <1>7, <1>8

\* What an iterator sees.
LEMMA SeenFacts ==
  ASSUME IterInv, it # NoIter, it.page # NoPage
  PROVE  /\ it \in Iterators /\ it.index \in Nat /\ it.index >= 1
         /\ Len(EntriesAt(it)) \in Nat /\ Len(EntriesAt(it)) <= LeafMax
         /\ DOMAIN EntriesAt(it) = 1..Len(EntriesAt(it))
         /\ it.page = Gone \/ it.page \in LeavesIn(node)
         /\ it.page \in LeavesIn(node) =>
               EntriesAt(it) = node[it.page].entries /\ (IsLast(it) <=> node[it.page].next = NoPage)
<1>1. it \in Iterators /\ (it.page = Gone \/ it.page \in LeavesIn(node))
  BY DEF IterInv, IterTypes
<1>2. it.index \in 1..(LeafMax + 2)
  BY <1>1 DEF Iterators
<1>3. it.index \in Nat /\ it.index >= 1
  BY <1>2, TreeAssumption
<1>4. CASE it.page = Gone
  <2>1. EntriesAt(it) = <<>> /\ it.page \notin LeavesIn(node)
    BY <1>4, NotAnIterator DEF EntriesAt, LeavesIn
  <2>2. Len(<<>>) = 0 /\ DOMAIN <<>> = 1..0
    OBVIOUS
  <2> QED BY <2>1, <2>2, <1>1, <1>3, TreeAssumption
<1>5. CASE it.page \in LeavesIn(node)
  <2>1. TreeInv /\ LeavesFit(node)
    BY DEF IterInv
  <2>2. /\ it.page \in Pages /\ Len(node[it.page].entries) \in Nat /\ Len(node[it.page].entries) <= LeafMax
        /\ DOMAIN node[it.page].entries = 1..Len(node[it.page].entries)
    BY ONLY <2>1, <1>5, LeafFacts
  <2>3. it.page # Gone
    BY <2>2, NotAnIterator
  <2>4. EntriesAt(it) = node[it.page].entries /\ (IsLast(it) <=> node[it.page].next = NoPage)
    BY <2>3 DEF EntriesAt, IsLast
  <2> QED BY ONLY <2>2, <2>4, <1>1, <1>3
<1> QED BY <1>1, <1>4, <1>5

\* Making an iterator.
LEMMA MakeIterator ==
  ASSUME NEW p \in Pages \cup {Gone, NoPage}, NEW i \in 1..(LeafMax + 2)
  PROVE  /\ Iterator(p, i) \in Iterators /\ Iterator(p, i) # NoIter
         /\ Iterator(p, i).page = p /\ Iterator(p, i).index = i /\ ~Iterator(p, i).last
<1>1. Iterator(p, i) \in Iterators
  BY DEF Iterator, Iterators
<1>2. Iterator(p, i) # NoIter
  BY <1>1, NotAnIterator
<1>3. Iterator(p, i).page = p /\ Iterator(p, i).index = i /\ ~Iterator(p, i).last
  BY DEF Iterator
<1> QED BY <1>1, <1>2, <1>3

-----------------------------------------------------------------------------
(* Steps of the tree                                                       *)

\* Between operations, an operation that does not change the map changes nothing.
LEMMA QuietSame ==
  ASSUME TreeInv, fix = Quiet, Next, Content' = Content
  PROVE  UNCHANGED <<node, root, fix>>
<1>1. ASSUME NEW k, NEW r, Gains(Stored(node), Stored(node'), Entry(k, r)), ~HasEntry(Stored(node), k)
      PROVE  FALSE
  <2>1. Entry(k, r).key = k
    BY DEF Entry
  <2>2. HasEntry(Stored(node'), k)
    BY <1>1, <2>1 DEF Gains, HasEntry
  <2>3. k \in DOMAIN Content' /\ k \notin DOMAIN Content
    BY ONLY <1>1, <2>2, Contents, MapDomain
  <2> QED BY <2>3
<1>2. ASSUME NEW k, Loses(Stored(node), Stored(node'), k), HasEntry(Stored(node), k)
      PROVE  FALSE
  <2>1. ~HasEntry(Stored(node'), k)
    BY <1>2 DEF Loses, HasEntry
  <2>2. k \notin DOMAIN Content' /\ k \in DOMAIN Content
    BY ONLY <1>2, <2>1, Contents, MapDomain
  <2> QED BY <2>2
<1>3. ASSUME NEW k \in Keys, NEW r \in Rids, Insert(k, r) PROVE UNCHANGED <<node, root, fix>>
  <2>1. CASE InsertFirst(k, r)
    <3>1. Gains(Stored(node), Stored(node'), Entry(k, r)) /\ root = NoPage
      BY <2>1, StepInsertFirst DEF InsertFirst
    <3>2. ~HasEntry(Stored(node), k)
      BY <3>1, QuietCases, NothingStored DEF HasEntry
    <3> QED BY <3>1, <3>2, <1>1
  <2>2. CASE InsertDuplicate(k)
    BY <2>2 DEF InsertDuplicate
  <2>3. CASE InsertRoom(k, r)
    <3>1. Gains(Stored(node), Stored(node'), Entry(k, r))
      BY <2>3, StepInsertRoom
    <3>2. root # NoPage /\ ~Has(LeafKeys(LeafFor(k)), k)
      BY <2>3 DEF InsertRoom
    <3>3. ~HasEntry(Stored(node), k)
      BY <3>2, SearchAnswers
    <3> QED BY <3>1, <3>3, <1>1
  <2>4. CASE InsertSplit(k, r)
    <3>1. Gains(Stored(node), Stored(node'), Entry(k, r))
      BY <2>4, StepInsertSplit
    <3>2. root # NoPage /\ ~Has(LeafKeys(LeafFor(k)), k)
      BY <2>4 DEF InsertSplit, LeafFor
    <3>3. ~HasEntry(Stored(node), k)
      BY <3>2, SearchAnswers
    <3> QED BY <3>1, <3>3, <1>1
  <2> QED BY <1>3, <2>1, <2>2, <2>3, <2>4 DEF Insert
<1>4. ASSUME NEW k \in Keys, RemoveKey(k) PROVE UNCHANGED <<node, root, fix>>
  <2>1. CASE RemoveNothing(k)
    BY <2>1 DEF RemoveNothing
  <2>2. CASE RemoveEntry(k)
    <3>1. Loses(Stored(node), Stored(node'), k) /\ root # NoPage /\ Has(LeafKeys(LeafFor(k)), k)
      BY <2>2, StepRemoveEntry DEF RemoveEntry
    <3>2. HasEntry(Stored(node), k)
      BY <3>1, SearchAnswers
    <3> QED BY <3>1, <3>2, <1>2
  <2>3. CASE RemoveUnderflow(k)
    <3>1. Loses(Stored(node), Stored(node'), k)
      BY <2>3, StepRemoveUnderflow
    <3>2. root # NoPage /\ Has(LeafKeys(LeafFor(k)), k)
      BY <2>3 DEF RemoveUnderflow, LeafFor
    <3>3. HasEntry(Stored(node), k)
      BY <3>2, SearchAnswers
    <3> QED BY <3>1, <3>3, <1>2
  <2> QED BY <1>4, <2>1, <2>2, <2>3 DEF RemoveKey
<1>5. ASSUME NEW k \in Keys, GetValue(k) PROVE UNCHANGED <<node, root, fix>>
  BY <1>5 DEF GetValue
<1>6. CASE IsEmpty
  BY <1>6 DEF IsEmpty
<1>7. fix.kind = "quiet"
  BY DEF Quiet
<1>8. CASE GrowParent \/ GrowRoot \/ ShrinkRoot \/ ShrinkStop \/ ShrinkNode
  BY <1>7, <1>8 DEF GrowParent, GrowRoot, ShrinkRoot, ShrinkStop, ShrinkNode
<1> QED BY <1>3, <1>4, <1>5, <1>6, <1>8 DEF Next

\* The tree changes, or is read, beside the iterator.
LEMMA StepTree ==
  ASSUME IterInv, TreeStep
  PROVE  IterInv'
<1>1. /\ Next /\ it' = Carried /\ adrift' = (it # NoIter /\ (adrift \/ node' # node)) /\ inCall' = inCall
      /\ seen' = seen /\ steady' = (steady /\ (Lent => node' = node))
  BY DEF TreeStep
<1>6. seen' \in Keys \cup {DefaultKey, Unknown} /\ steady' \in BOOLEAN
  BY <1>1 DEF IterInv, IterTypes
<1>7. Unlent'
  BY <1>1 DEF IterInv, Unlent, Lent
<1>2. TreeInv' /\ KeepsLeaves(node, node')
  BY <1>1, TreeInvStep, LeavesStep DEF IterInv
<1>3. LeavesFit(node') /\ \A p \in LeavesIn(node) : p \in LeavesIn(node') \/ node'[p] = Unused
  BY <1>2 DEF IterInv, KeepsLeaves
<1>4. CASE it = NoIter
  <2>1. it' = NoIter /\ ~adrift' /\ adrift' \in BOOLEAN
    BY <1>1, <1>4 DEF Carried
  <2>2. inCall' \in {"none", "begin"}
    BY <1>1, <1>4 DEF IterInv, IterTypes
  <2>3. ~Lent'
    BY <2>2 DEF Lent
  <2>4. IterTypes'
    BY <1>1, <1>4, <1>6, <2>1, <2>2 DEF IterInv, IterTypes
  <2>5. Calm' /\ Firm'
    BY <1>1, <1>4, <2>1, <2>2, <2>3 DEF Calm, Firm
  <2> QED BY <1>2, <1>3, <1>7, <2>4, <2>5 DEF IterInv
<1>5. CASE it # NoIter
  <2>1. /\ it \in Iterators /\ it.page \in LeavesIn(node) \cup {Gone, NoPage}
        /\ inCall \in {"none", "begin", "end", "key", "rid", "move"}
        /\ inCall \in {"key", "rid", "move"} => it.page # NoPage
    BY <1>5 DEF IterInv, IterTypes
  <2>2. \/ it' = it /\ it.page \in LeavesIn(node') \cup {Gone, NoPage}
        \/ it'.page = Gone /\ it' \in Iterators /\ node' # node
    <3>1. CASE it.page \in Leaves /\ node'[it.page] = Unused
      <4>1. PICK b \in BOOLEAN : b = (node[it.page].next = NoPage)
        OBVIOUS
      <4>2. it' = [page |-> Gone, index |-> it.index, last |-> b]
        BY <1>1, <1>5, <3>1, <4>1 DEF Carried
      <4>3. it'.page = Gone /\ it' \in Iterators
        BY <2>1, <4>2 DEF Iterators
      <4>4. node[it.page] # Unused
        BY <3>1 DEF Leaves, Unused
      <4> QED BY <3>1, <4>3, <4>4
    <3>2. CASE ~(it.page \in Leaves /\ node'[it.page] = Unused)
      <4>1. it' = it
        BY <1>1, <3>2 DEF Carried
      <4> QED BY <4>1, <2>1, <3>2, <1>3, FreshOfState
    <3> QED BY <3>1, <3>2
  <2>3. it' \in Iterators /\ it' # NoIter /\ it'.page \in LeavesIn(node') \cup {Gone, NoPage}
    BY <2>1, <2>2, NotAnIterator
  <2>4. inCall' \in {"key", "rid", "move"} => it'.page # NoPage
    BY <1>1, <2>1, <2>2, NotAnIterator
  <2>5. adrift' \in BOOLEAN
    BY <1>1
  <2>6. IterTypes'
    BY <1>1, <1>6, <2>1, <2>3, <2>4, <2>5 DEF IterTypes
  <2>7. ASSUME ~adrift'
        PROVE  /\ ~adrift /\ it' = it /\ UNCHANGED <<node, root, fix>>
    <3>1. ~adrift /\ node' = node
      BY <1>1, <1>5, <2>7
    <3>2. it' = it
      BY <2>2, <3>1
    <3>3. fix = Quiet
      BY <1>5, <3>1 DEF IterInv, Calm
    <3>4. Content' = Content
      BY <3>1, ContentKept
    <3>5. UNCHANGED <<node, root, fix>>
      BY <1>1, <3>3, <3>4, QuietSame DEF IterInv
    <3> QED BY <3>1, <3>2, <3>5
  <2>8. Calm'
    BY <1>1, <1>5, <2>7 DEF IterInv, Calm, EntriesAt, Exhausted, IsLast
  <2>9. Firm'
    <3> SUFFICES ASSUME Lent', steady'
                 PROVE  (/\ it.index \in DOMAIN EntriesAt(it)
                         /\ inCall = "rid" => seen = EntriesAt(it)[it.index].key)'
      BY DEF Firm
    <3>1. Lent /\ steady /\ node' = node
      BY <1>1 DEF Lent
    <3>2. it' = it
      BY <2>2, <3>1
    <3> QED BY <1>1, <3>1, <3>2 DEF IterInv, Firm, EntriesAt
  <2> QED BY <1>2, <1>3, <1>7, <2>6, <2>8, <2>9 DEF IterInv
<1> QED BY <1>4, <1>5

-----------------------------------------------------------------------------
(* Steps of the iterator                                                   *)

\* What a call may be in the middle of.
Pausing(c) ==
    /\ c \in {"none", "begin", "end", "key", "move"}
    /\ c \in {"end", "key", "move"} => it # NoIter
    /\ c \in {"key", "move"} => it.page # NoPage
    /\ c = "key" => it.index \in DOMAIN EntriesAt(it)
    /\ c = "move" => ~Exhausted(it)

\* No reference was out, or the last one has been read.
Ready == (~Lent /\ UNCHANGED refVars) \/ (seen' = DefaultKey /\ steady' = TRUE)

\* A call answers, or pauses, and moves nothing.
LEMMA StepAnswer ==
  ASSUME IterInv, UNCHANGED <<node, root, fix, it, adrift>>, Pausing(inCall'), Ready
  PROVE  IterInv'
<1>1. TreeInv' /\ LeavesFit(node')
  BY AnswerKeeps DEF IterInv
<1>2. IterTypes'
  BY DEF IterInv, IterTypes, Pausing, Ready, refVars
<1>3. Calm'
  BY DEF IterInv, Calm, Pausing, EntriesAt, Exhausted, IsLast
<1>4. Firm'
  BY DEF Pausing, Firm, Lent, EntriesAt
<1>5. Unlent'
  BY DEF IterInv, Unlent, Ready, refVars
<1> QED BY <1>1, <1>2, <1>3, <1>4, <1>5 DEF IterInv

\* Between two calls, or in Begin, nothing is asked of the iterator.
LEMMA NothingAsked == Pausing("none") /\ Pausing("begin")
BY DEF Pausing

\* Begin or Begin(key) makes an iterator.
LEMMA StepAssign ==
  ASSUME IterInv, UNCHANGED <<node, root, fix, refVars>>, fix = Quiet, ~Lent, inCall' = "none",
         NEW i, Assign(i),
         i \in Iterators, (root = NoPage /\ i = Default) \/ (i.page \in LeavesIn(node) /\ ~i.last)
  PROVE  IterInv'
<1>1. TreeInv' /\ LeavesFit(node')
  BY AnswerKeeps DEF IterInv
<1>2. it' = i /\ adrift' = FALSE /\ i # NoIter
  BY NotAnIterator DEF Assign
<1>3. i.page \in LeavesIn(node) \cup {Gone, NoPage}
  BY DEF Default, Iterator
<1>4. IterTypes'
  BY <1>2, <1>3 DEF IterInv, IterTypes, refVars
<1>5. Calm'
  BY <1>2 DEF Calm
<1>6. Firm'
  BY DEF Firm, Lent
<1>7. Unlent'
  BY DEF IterInv, Unlent, refVars
<1> QED BY <1>1, <1>4, <1>5, <1>6, <1>7 DEF IterInv

\* The iterators that the calls of the tree make.
LEMMA MadeIterators ==
  ASSUME IterInv, fix = Quiet
  PROVE  /\ Default \in Iterators
         /\ root # NoPage => /\ Iterator(FirstLeaf, 1) \in Iterators
                             /\ Iterator(FirstLeaf, 1).page \in LeavesIn(node) /\ ~Iterator(FirstLeaf, 1).last
         /\ root # NoPage => \A k \in Keys :
               \A leaf, i : leaf = LeafFor(k) /\ i = KeyIndex(LeafKeys(leaf), k) =>
                  /\ leaf \in LeavesIn(node) /\ PlaceOf(KeysOf(node[leaf].entries), k, i)
                  /\ i \in 1..(Len(node[leaf].entries) + 1)
                  /\ Iterator(leaf, i) \in Iterators
                  /\ Iterator(leaf, i).page \in LeavesIn(node) /\ ~Iterator(leaf, i).last
<1>1. 1 \in 1..(LeafMax + 2)
  BY TreeAssumption
<1>2. Default \in Iterators
  BY <1>1, MakeIterator DEF Default
<1>3. ASSUME root # NoPage
      PROVE  /\ Iterator(FirstLeaf, 1) \in Iterators
             /\ Iterator(FirstLeaf, 1).page \in LeavesIn(node) /\ ~Iterator(FirstLeaf, 1).last
  <2>1. PICK lo, hi, ht : Core(node, root, NoPage, lo, hi, hi, ht)
    BY <1>3, QuietCases DEF IterInv, Whole, WholeBy
  <2>2. FirstLeaf \in LeavesIn(node) /\ FirstLeaf \in Pages
    BY <2>1, OuterLeaves DEF LeavesIn
  <2> QED BY <1>1, <2>2, MakeIterator
<1>4. ASSUME root # NoPage, NEW k \in Keys, NEW leaf, leaf = LeafFor(k), NEW i, i = KeyIndex(LeafKeys(leaf), k)
      PROVE  /\ leaf \in LeavesIn(node) /\ PlaceOf(KeysOf(node[leaf].entries), k, i)
             /\ i \in 1..(Len(node[leaf].entries) + 1)
             /\ Iterator(leaf, i) \in Iterators
             /\ Iterator(leaf, i).page \in LeavesIn(node) /\ ~Iterator(leaf, i).last
  <2>1. PICK lo, hi, ht : Core(node, root, NoPage, lo, hi, hi, ht)
    BY <1>4, QuietCases DEF IterInv, Whole, WholeBy
  <2>2. leaf \in LeavesIn(node)
    BY ONLY <2>1, <1>4, LeafFound
  <2>3. PICK e : e = node[leaf].entries
    OBVIOUS
  <2>4. leaf \in Pages /\ e \in Seq(Entries) /\ Len(e) \in Nat /\ Len(e) <= LeafMax
    <3>1. TreeInv /\ LeavesFit(node)
      BY DEF IterInv
    <3> QED BY ONLY <3>1, <2>2, <2>3, LeafFacts
  <2>5. Ordered(e, lo[leaf], hi[leaf])
    BY ONLY <2>1, <2>2, <2>3, LeafOrdered
  <2>6. KeysOf(e) \in Seq(Int) /\ Ascending(KeysOf(e)) /\ Len(KeysOf(e)) = Len(e) /\ k \in Int
    BY ONLY <2>4, <2>5, <1>4, EntryKeys, KeysWithin
  <2>7. i = KeyIndex(KeysOf(e), k)
    BY ONLY <2>3, <1>4, KeysOfLeaf
  <2>8. PlaceOf(KeysOf(e), k, i)
    BY ONLY <2>6, <2>7, SearchFinds
  <2>9. i \in 1..(Len(e) + 1)
    BY ONLY <2>6, <2>8 DEF PlaceOf
  <2>10. i \in 1..(LeafMax + 2)
    BY ONLY <2>4, <2>9, TreeAssumption
  <2>11. leaf \in Pages \cup {Gone, NoPage}
    BY ONLY <2>4
  <2> QED BY ONLY <2>2, <2>3, <2>8, <2>9, <2>10, <2>11, MakeIterator
<1> QED BY <1>2, <1>3, <1>4

\* Where operator++ goes.
LEMMA MovedFacts ==
  ASSUME IterInv, inCall = "move", it.index <= Len(EntriesAt(it)) + 1
  PROVE  /\ Moved(it) \in Iterators /\ Moved(it) # NoIter /\ Moved(it).page # NoPage
         /\ Moved(it).page \in LeavesIn(node) \cup {Gone}
         /\ it.page \in LeavesIn(node) /\ ~it.last => Moved(it).page \in LeavesIn(node) /\ ~Moved(it).last
<1>1. it # NoIter /\ it.page # NoPage
  BY DEF IterInv, IterTypes
<1>2. /\ it \in Iterators /\ it.index \in Nat /\ it.index >= 1
      /\ Len(EntriesAt(it)) \in Nat /\ Len(EntriesAt(it)) <= LeafMax
      /\ it.page = Gone \/ it.page \in LeavesIn(node)
      /\ it.page \in LeavesIn(node) =>
            EntriesAt(it) = node[it.page].entries /\ (IsLast(it) <=> node[it.page].next = NoPage)
  BY <1>1, SeenFacts
<1>3. CASE it.index = Len(EntriesAt(it)) /\ ~IsLast(it)
  <2>1. it.page \in LeavesIn(node)
    <3>1. it.page = Gone => Len(EntriesAt(it)) = 0
      <4>1. Len(<<>>) = 0
        OBVIOUS
      <4> QED BY <4>1 DEF EntriesAt
    <3> QED BY <3>1, <1>2, <1>3
  <2>2. PICK q : q = node[it.page].next
    OBVIOUS
  <2>3. q \in LeavesIn(node) /\ q \in Pages
    BY <1>2, <1>3, <2>1, <2>2, LeafFacts DEF IterInv, LeavesIn
  <2>4. Moved(it) = Iterator(q, 1)
    BY <1>3, <2>2 DEF Moved
  <2>5. 1 \in 1..(LeafMax + 2)
    BY TreeAssumption
  <2> QED BY <2>3, <2>4, <2>5, MakeIterator, NotAnIterator
<1>4. CASE ~(it.index = Len(EntriesAt(it)) /\ ~IsLast(it))
  <2>1. Moved(it) = [it EXCEPT !.index = it.index + 1]
    BY <1>4 DEF Moved
  <2>2. it.index + 1 \in 1..(LeafMax + 2)
    BY <1>2, TreeAssumption
  <2>3. Moved(it) \in Iterators /\ Moved(it).page = it.page /\ Moved(it).last = it.last
    BY <1>2, <2>1, <2>2 DEF Iterators
  <2>4. Moved(it).page \in LeavesIn(node) \cup {Gone}
    BY <1>2, <2>3
  <2> QED BY <1>1, <2>3, <2>4, NotAnIterator
<1> QED BY <1>3, <1>4

\* The leaf may lose its frame, and the caller may read the key.
LEMMA StepRead ==
  ASSUME IterInv, Displaced \/ DerefKey
  PROVE  IterInv'
<1>1. UNCHANGED <<node, root, fix, it, adrift>> /\ Lent
  BY DEF Displaced, DerefKey, vars, Lent
<1>2. TreeInv' /\ LeavesFit(node')
  BY <1>1, AnswerKeeps DEF IterInv
<1>3. CASE Displaced
  <2>1. inCall' = inCall /\ seen' = seen /\ steady' = FALSE
    BY <1>3 DEF Displaced
  <2>2. IterTypes' /\ Calm' /\ Firm'
    BY <1>1, <2>1 DEF IterInv, IterTypes, Calm, Firm, EntriesAt, Exhausted, IsLast
  <2>3. Lent'
    BY <1>1, <2>1 DEF Lent
  <2> QED BY <1>2, <2>2, <2>3 DEF IterInv, Unlent
<1>4. CASE DerefKey
  <2>1. inCall = "key" /\ inCall' = "rid" /\ steady' = steady /\ seen' \in Found(Slot.key)
    BY <1>4 DEF DerefKey
  <2>2. it # NoIter /\ it.page # NoPage
    BY <2>1 DEF IterInv, IterTypes
  <2>3. Slot.key \in Keys \cup {DefaultKey}
    <3>1. CASE it.index \in DOMAIN EntriesAt(it)
      <4>1. it.page \in LeavesIn(node) /\ EntriesAt(it) = node[it.page].entries
        <5>1. it.page # Gone
          <6>1. DOMAIN <<>> = {}
            OBVIOUS
          <6> QED BY <6>1, <3>1 DEF EntriesAt
        <5> QED BY <5>1, <2>2, SeenFacts
      <4>2. PICK e : e = EntriesAt(it)
        OBVIOUS
      <4>3. e \in Seq(Entries)
        BY <4>1, <4>2, LeafFacts DEF IterInv
      <4>4. e[it.index] \in Entries
        BY ONLY <4>2, <4>3, <3>1
      <4>5. Slot = e[it.index]
        BY <3>1, <4>2 DEF Slot
      <4> QED BY <4>4, <4>5 DEF Entries
    <3>2. CASE it.index \notin DOMAIN EntriesAt(it)
      BY <3>2 DEF Slot, Cleared
    <3> QED BY <3>1, <3>2
  <2>4. seen' \in Keys \cup {DefaultKey, Unknown}
    BY <2>1, <2>3 DEF Found
  <2>5. IterTypes'
    BY <1>1, <2>1, <2>2, <2>4 DEF IterInv, IterTypes
  <2>6. Calm'
    BY <1>1, <2>1 DEF IterInv, Calm, EntriesAt, Exhausted, IsLast
  <2>7. ASSUME steady PROVE it.index \in DOMAIN EntriesAt(it) /\ seen' = EntriesAt(it)[it.index].key
    <3>1. it.index \in DOMAIN EntriesAt(it)
      BY <2>1, <2>7 DEF IterInv, Firm, Lent
    <3>2. seen' = Slot.key
      BY <2>1, <2>7 DEF Found
    <3> QED BY <3>1, <3>2 DEF Slot
  <2>8. Firm'
    BY <1>1, <2>1, <2>7 DEF Firm, EntriesAt
  <2>9. Lent'
    BY <2>1 DEF Lent
  <2> QED BY <1>2, <2>5, <2>6, <2>8, <2>9 DEF IterInv, Unlent
<1> QED BY <1>3, <1>4

\* Every step keeps the invariant.
LEMMA IterInvStep ==
  ASSUME IterInv, [IterNext]_allVars
  PROVE  IterInv'
<1>0. inCall \in {"end", "key", "rid", "move"} => it # NoIter
  BY DEF IterInv, IterTypes
<1>1. ASSUME UNCHANGED <<node, root, fix>>, UNCHANGED <<it, adrift>>, inCall' \in {"none", "begin"}, Ready
      PROVE  IterInv'
  BY <1>1, NothingAsked, StepAnswer
<1>2. CASE TreeStep
  BY <1>2, StepTree
<1>3. CASE BeginTest
  <2>1. fix = Quiet /\ inCall = "none" /\ ~Lent /\ UNCHANGED <<node, root, fix, refVars>>
    BY <1>3 DEF BeginTest, Callable, Lent
  <2>2. CASE root = NoPage
    <3>1. Assign(Default) /\ inCall' = "none"
      BY <1>3, <2>1, <2>2 DEF BeginTest
    <3> QED BY <2>1, <2>2, <3>1, MadeIterators, StepAssign
  <2>3. CASE root # NoPage
    BY <1>1, <1>3, <2>1, <2>3 DEF BeginTest, Ready
  <2> QED BY <2>2, <2>3
<1>4. CASE BeginWalk
  <2>1. fix = Quiet /\ inCall' = "none" /\ ~Lent /\ UNCHANGED <<node, root, fix, refVars>>
    BY <1>4 DEF BeginWalk, Lent
  <2>2. CASE root = NoPage
    BY <1>1, <1>4, <2>1, <2>2 DEF BeginWalk, Reply, Ready
  <2>3. CASE root # NoPage
    <3>1. Assign(Iterator(FirstLeaf, 1))
      BY <1>4, <2>3 DEF BeginWalk
    <3> QED BY <2>1, <2>3, <3>1, MadeIterators, StepAssign
  <2> QED BY <2>2, <2>3
<1>5. ASSUME NEW k \in Keys, BeginAt(k) PROVE IterInv'
  <2>1. fix = Quiet /\ inCall' = "none" /\ ~Lent /\ UNCHANGED <<node, root, fix, refVars>>
    BY <1>5 DEF BeginAt, Callable, Lent
  <2>2. CASE root = NoPage
    BY <1>1, <1>5, <2>1, <2>2 DEF BeginAt, Reply, Ready
  <2>3. CASE root # NoPage
    <3>1. PICK leaf, i : leaf = LeafFor(k) /\ i = KeyIndex(LeafKeys(leaf), k)
      OBVIOUS
    <3>2. Assign(Iterator(leaf, i))
      BY <1>5, <2>3, <3>1 DEF BeginAt
    <3>3. Iterator(leaf, i) \in Iterators /\ Iterator(leaf, i).page \in LeavesIn(node) /\ ~Iterator(leaf, i).last
      BY <2>1, <2>3, <3>1, MadeIterators
    <3> QED BY <2>1, <3>2, <3>3, StepAssign
  <2> QED BY <2>2, <2>3
<1>6. CASE EndTest
  <2>1. /\ it # NoIter /\ ~Lent /\ inCall' \in {"none", "end"}
        /\ UNCHANGED <<node, root, fix, it, adrift, refVars>>
    BY <1>6 DEF EndTest, Callable, Reply, Lent
  <2>2. Pausing(inCall')
    BY <2>1 DEF Pausing
  <2> QED BY <2>1, <2>2, StepAnswer DEF Ready
<1>7. CASE EndWalk
  BY <1>1, <1>7 DEF EndWalk, Reply, Ready, Lent
<1>8. CASE IsEnd
  BY <1>1, <1>8 DEF IsEnd, Reply, Usable, Ready, Lent
<1>9. CASE DerefTest
  <2>1. /\ it # NoIter /\ it.page # NoPage /\ inCall = "none" /\ ~Lent
        /\ UNCHANGED <<node, root, fix, it, adrift, refVars>>
    BY <1>9 DEF DerefTest, Usable, Reply, Lent
  <2>2. inCall' = "none" \/ (inCall' = "key" /\ it.index \in DOMAIN EntriesAt(it))
    BY <1>9, <2>1 DEF DerefTest
  <2>3. Pausing(inCall')
    BY <2>1, <2>2 DEF Pausing
  <2> QED BY <2>1, <2>3, StepAnswer DEF Ready
<1>10. CASE Displaced \/ DerefKey
  BY <1>10, StepRead
<1>14. CASE DerefRid
  BY <1>1, <1>14 DEF DerefRid, Reply, Ready
<1>11. CASE AdvanceTest
  <2>1. /\ it # NoIter /\ it.page # NoPage /\ inCall = "none" /\ ~Lent
        /\ UNCHANGED <<node, root, fix, it, adrift, refVars>>
    BY <1>11 DEF AdvanceTest, Usable, Reply, Lent
  <2>2. inCall' = "none" \/ (inCall' = "move" /\ ~Exhausted(it))
    BY <1>11, <2>1 DEF AdvanceTest
  <2>3. Pausing(inCall')
    BY <2>1, <2>2 DEF Pausing
  <2> QED BY <2>1, <2>3, StepAnswer DEF Ready
<1>12. CASE AdvanceMove
  <2>1. inCall = "move" /\ inCall' = "none" /\ ~Lent /\ UNCHANGED <<node, root, fix, adrift, refVars>>
    BY <1>12 DEF AdvanceMove, Reply, Lent
  <2>2. CASE it.index > Len(EntriesAt(it)) + 1
    BY <1>1, <1>12, <2>1, <2>2 DEF AdvanceMove, Reply, Ready
  <2>3. CASE ~(it.index > Len(EntriesAt(it)) + 1)
    <3>1. it' = Moved(it)
      BY <1>12, <2>3 DEF AdvanceMove
    <3>2. it # NoIter /\ it.page # NoPage
      BY <2>1 DEF IterInv, IterTypes
    <3>3. it.index <= Len(EntriesAt(it)) + 1
      <4>1. it.index \in Nat /\ Len(EntriesAt(it)) \in Nat
        BY <3>2, SeenFacts
      <4> QED BY <4>1, <2>3
    <3>4. /\ it' \in Iterators /\ it' # NoIter /\ it'.page # NoPage
          /\ it'.page \in LeavesIn(node) \cup {Gone}
          /\ it.page \in LeavesIn(node) /\ ~it.last => it'.page \in LeavesIn(node) /\ ~it'.last
      BY <2>1, <3>1, <3>3, MovedFacts
    <3>5. TreeInv' /\ LeavesFit(node')
      BY <2>1, AnswerKeeps DEF IterInv
    <3>6. IterTypes'
      BY <2>1, <3>4 DEF IterInv, IterTypes, refVars
    <3>7. Calm'
      <4>1. ~adrift => fix = Quiet /\ it.page \in LeavesIn(node) /\ ~it.last
        BY <3>2 DEF IterInv, Calm, Default, Iterator
      <4> QED BY <2>1, <3>4, <4>1 DEF Calm
    <3>8. Firm'
      BY <2>1 DEF Firm, Lent
    <3>9. Unlent'
      BY <2>1 DEF IterInv, Unlent, refVars
    <3> QED BY <3>5, <3>6, <3>7, <3>8, <3>9 DEF IterInv
  <2> QED BY <2>2, <2>3
<1>13. CASE UNCHANGED allVars
  <2>1. UNCHANGED <<node, root, fix, it, adrift>> /\ inCall' = inCall /\ seen' = seen /\ steady' = steady
    BY <1>13 DEF allVars, vars, iterVars, refVars
  <2>2. TreeInv' /\ LeavesFit(node')
    BY <2>1, AnswerKeeps DEF IterInv
  <2>3. IterTypes' /\ Calm' /\ Firm'
    BY <2>1 DEF IterInv, IterTypes, Calm, Firm, Lent, EntriesAt, Exhausted, IsLast
  <2>4. Unlent'
    BY <2>1 DEF IterInv, Unlent, Lent
  <2> QED BY <2>2, <2>3, <2>4 DEF IterInv
<1> QED BY <1>2, <1>3, <1>4, <1>5, <1>6, <1>7, <1>8, <1>9, <1>10, <1>11, <1>12, <1>13, <1>14 DEF IterNext

\* An iterator is always on a leaf or on a page that was one, at an entry or at
\* most two places behind the last, whatever operations ran beside it.
THEOREM IteratorInvariant == IterSpec => []IterInv
<1>1. IterInit => IterInv
  <2>1. SUFFICES ASSUME IterInit PROVE IterInv
    OBVIOUS
  <2>2. TreeInv /\ LeavesFit(node)
    BY <2>1 DEF IterInit, Init, TreeInv, Empty, LeavesFit, LeavesIn, Unused
  <2>3. IterTypes /\ Calm /\ Firm /\ Unlent
    BY <2>1 DEF IterInit, IterTypes, Calm, Firm, Unlent, Lent
  <2> QED BY <2>2, <2>3 DEF IterInv
<1>2. IterInv /\ [IterNext]_allVars => IterInv'
  BY IterInvStep
<1> QED BY <1>1, <1>2, PTL DEF IterSpec

\* IteratorTypeOK: the types of the iterator's variables.
THEOREM IteratorTypeCorrect == IterSpec => []IteratorTypeOK
<1>1. IterInv => IteratorTypeOK
  BY FreshOfState DEF IterInv, IterTypes, IteratorTypeOK, Iterators
<1> QED BY <1>1, IteratorInvariant, PTL

-----------------------------------------------------------------------------
(* The cursor of the contract                                              *)

Nowhere == [state |-> "none"]
AtEnd   == [state |-> "end"]
Stray   == [state |-> "stray"]
Adrift  == [state |-> "adrift"]
At(k)   == [state |-> "at", key |-> k]

\* The position of the first of the keys in S.
FirstIn(S) == IF S = {} THEN AtEnd ELSE At(CHOOSE k \in S : \A j \in S : k <= j)

\* Where an iterator i is in the table of nodes of this state.
PlaceIn(i, drifts) ==
    IF i = NoIter THEN Nowhere
    ELSE IF drifts THEN Adrift
    ELSE IF i.page = NoPage \/ Exhausted(i) THEN AtEnd
    ELSE IF i.index \in DOMAIN EntriesAt(i) THEN At(EntriesAt(i)[i.index].key)
    ELSE Stray

\* The cursor is where the iterator is; the next state's, too, if the table stays.
LEMMA Positions ==
  /\ Position = PlaceIn(it, adrift)
  /\ node' = node => Position' = PlaceIn(it', adrift')
  /\ it' = NoIter => Position' = Nowhere
  /\ it' # NoIter /\ adrift' => Position' = Adrift
<1>1. Position = PlaceIn(it, adrift)
  BY Zenon DEF Position, PlaceIn, Nowhere, Adrift, AtEnd, At, Stray
<1>2. ASSUME node' = node PROVE Position' = PlaceIn(it', adrift')
  <2>1. EntriesAt(it)' = EntriesAt(it') /\ (Exhausted(it)' <=> Exhausted(it'))
    BY <1>2 DEF EntriesAt, Exhausted, IsLast
  <2> QED BY <2>1, Zenon DEF Position, PlaceIn, Nowhere, Adrift, AtEnd, At, Stray
<1>3. it' = NoIter => Position' = Nowhere
  BY Zenon DEF Position, Nowhere
<1>4. it' # NoIter /\ adrift' => Position' = Adrift
  BY Zenon DEF Position, Adrift
<1> QED BY <1>1, <1>2, <1>3, <1>4

\* The first of the keys in S is the least of them.
LEMMA FirstIs ==
  /\ FirstIn({}) = AtEnd
  /\ \A S, m : S \subseteq Int /\ m \in S /\ (\A j \in S : m <= j) => FirstIn(S) = At(m)
<1>1. FirstIn({}) = AtEnd
  BY DEF FirstIn
<1>2. ASSUME NEW S, NEW m, S \subseteq Int, m \in S, \A j \in S : m <= j
      PROVE  FirstIn(S) = At(m)
  <2>1. PICK c : c = CHOOSE k \in S : \A j \in S : k <= j
    OBVIOUS
  <2>2. c \in S /\ \A j \in S : c <= j
    BY ONLY <1>2, <2>1
  <2>3. c = m
    BY ONLY <1>2, <2>2
  <2> QED BY <1>2, <2>1, <2>3 DEF FirstIn
<1> QED BY <1>1, <1>2

\* The steps of the cursor, said of the tree's contents and the iterator's position.
LEMMA CursorSteps ==
  ASSUME NEW k
  PROVE  /\ /\ Map!Next /\ Position' = (IF Content' = Content \/ Position = Nowhere THEN Position ELSE Adrift)
            /\ \/ Loan' = Loan /\ (Loan = "good" => UNCHANGED Content)
               \/ Loan = "good" /\ Loan' = "void"
            => Cursor!MapStep
         /\ UNCHANGED Content /\ Position' = FirstIn(DOMAIN Content) /\ reply' = Done => Cursor!Begin
         /\ UNCHANGED Content /\ DOMAIN Content = {} /\ reply' = Throws /\ UNCHANGED Position
              => Cursor!Begin /\ Cursor!BeginAt(k) /\ Cursor!EndThrows
         /\ /\ UNCHANGED Content /\ DOMAIN Content # {} /\ reply' = Done
            /\ \/ Position' = FirstIn({j \in DOMAIN Content : j >= k})
               \/ k \notin DOMAIN Content /\ {j \in DOMAIN Content : j >= k} # {} /\ Position' = Stray
            => Cursor!BeginAt(k)
         /\ /\ UNCHANGED <<Content, Position>> /\ Loan # "none" /\ Loan' = "none"
            /\ \/ Loan = "void" /\ DOMAIN reply' = {"key", "rid"}
               \/ Position = At(k) /\ reply' = [key |-> k, rid |-> Content[k]]
               \/ Position = Adrift /\ k \in DOMAIN Content /\ reply' = [key |-> k, rid |-> Content[k]]
            => Cursor!Read
         /\ UNCHANGED <<Content, Position>> /\ Position \in {AtEnd, Stray, Adrift} /\ reply' = Throws
              => Cursor!Refuse
         /\ /\ UNCHANGED <<Content, Position, reply>> /\ Loan = "none" /\ Loan' = "good"
            /\ Position = At(k) \/ Position = Adrift
            => Cursor!Lend
         /\ UNCHANGED <<Content, Position, reply>> /\ Loan # "none" /\ Loan' = "void" => Cursor!Displace
         /\ /\ UNCHANGED Content
            /\ \/ /\ Position = At(k) /\ reply' = Done
                  /\ Position' = FirstIn({j \in DOMAIN Content : j > k})
               \/ Position \in {Stray, Adrift} /\ UNCHANGED Position /\ reply' = Done
               \/ Position \in {AtEnd, Stray, Adrift} /\ UNCHANGED Position /\ reply' = Throws
            => Cursor!Advance
         /\ /\ UNCHANGED <<Content, Position>> /\ Position # Nowhere
            /\ \/ reply' = Answers(Position = AtEnd)
               \/ Position = Adrift /\ \E b \in BOOLEAN : reply' = Answers(b)
            => Cursor!IsEnd
<1> USE DEF Content, MapOf, Stored, Within, Leaves, LeavesIn
<1>1. /\ Map!Next /\ Position' = (IF Content' = Content \/ Position = Nowhere THEN Position ELSE Adrift)
      /\ \/ Loan' = Loan /\ (Loan = "good" => UNCHANGED Content)
         \/ Loan = "good" /\ Loan' = "void"
      => Cursor!MapStep
  <2>1. Map!Next => Cursor!Map!Next
    BY Zenon DEF Cursor!Map!Next, Map!Next, Cursor!Map!Insert, Map!Insert, Cursor!Map!Remove, Map!Remove,
       Cursor!Map!GetValue, Map!GetValue, Cursor!Map!IsEmpty, Map!IsEmpty,
       Cursor!Map!Answers, Map!Answers, Cursor!Map!Finds, Map!Finds
  <2> QED BY <2>1, Zenon DEF Cursor!MapStep, Cursor!None, Cursor!Adrift, Nowhere, Adrift
<1>2. UNCHANGED Content /\ Position' = FirstIn(DOMAIN Content) /\ reply' = Done => Cursor!Begin
  BY Zenon DEF Cursor!Begin, Cursor!FirstOf, FirstIn, Cursor!AtEnd, AtEnd, Cursor!At, At, Cursor!Done, Done
<1>3. UNCHANGED Content /\ DOMAIN Content = {} /\ reply' = Throws /\ UNCHANGED Position
        => Cursor!Begin /\ Cursor!BeginAt(k) /\ Cursor!EndThrows
  BY Zenon DEF Cursor!Begin, Cursor!BeginAt, Cursor!EndThrows, Cursor!Throws, Throws
<1>4. /\ \A S : Cursor!FirstOf(S) = FirstIn(S)
      /\ Cursor!From(k) = {j \in DOMAIN Content : j >= k}
      /\ Cursor!After(k) = {j \in DOMAIN Content : j > k}
      /\ Cursor!None = Nowhere /\ Cursor!AtEnd = AtEnd /\ Cursor!Stray = Stray /\ Cursor!Adrift = Adrift
      /\ Cursor!Done = Done /\ Cursor!Throws = Throws
      /\ \A b : Cursor!Map!Answers(b) = Answers(b)
      /\ \A r : Cursor!Yields(k, r) = [key |-> k, rid |-> r]
  <2>1. \A S : Cursor!FirstOf(S) = FirstIn(S)
    BY Zenon DEF Cursor!FirstOf, FirstIn, Cursor!AtEnd, AtEnd, Cursor!At, At
  <2>2. Cursor!From(k) = {j \in DOMAIN Content : j >= k}
    BY Zenon DEF Cursor!From
  <2>3. Cursor!After(k) = {j \in DOMAIN Content : j > k}
    BY Zenon DEF Cursor!After
  <2>4. Cursor!None = Nowhere /\ Cursor!AtEnd = AtEnd /\ Cursor!Stray = Stray /\ Cursor!Adrift = Adrift
    BY Zenon DEF Cursor!None, Nowhere, Cursor!AtEnd, AtEnd, Cursor!Stray, Stray, Cursor!Adrift, Adrift
  <2>5. Cursor!Done = Done /\ Cursor!Throws = Throws
    BY Zenon DEF Cursor!Done, Done, Cursor!Throws, Throws
  <2>6. \A b : Cursor!Map!Answers(b) = Answers(b)
    BY Zenon DEF Cursor!Map!Answers, Answers
  <2>7. \A r : Cursor!Yields(k, r) = [key |-> k, rid |-> r]
    BY Zenon DEF Cursor!Yields
  <2> QED BY ONLY <2>1, <2>2, <2>3, <2>4, <2>5, <2>6, <2>7, Zenon
<1>5. /\ UNCHANGED Content /\ DOMAIN Content # {} /\ reply' = Done
      /\ \/ Position' = FirstIn({j \in DOMAIN Content : j >= k})
         \/ k \notin DOMAIN Content /\ {j \in DOMAIN Content : j >= k} # {} /\ Position' = Stray
      => Cursor!BeginAt(k)
  <2>1. ASSUME UNCHANGED Content, DOMAIN Content # {}, reply' = Done,
               Position' = FirstIn({j \in DOMAIN Content : j >= k})
        PROVE  Cursor!BeginAt(k)
    <3>1. Position' = Cursor!FirstOf(Cursor!From(k)) /\ reply' = Cursor!Done
      BY ONLY <2>1, <1>4, Zenon
    <3> QED BY ONLY <2>1, <3>1, Zenon DEF Cursor!BeginAt
  <2>2. ASSUME UNCHANGED Content, DOMAIN Content # {}, reply' = Done,
               k \notin DOMAIN Content, {j \in DOMAIN Content : j >= k} # {}, Position' = Stray
        PROVE  Cursor!BeginAt(k)
    <3>1. Cursor!From(k) # {} /\ Position' = Cursor!Stray /\ reply' = Cursor!Done
      BY ONLY <2>2, <1>4, Zenon
    <3> QED BY ONLY <2>2, <3>1, Zenon DEF Cursor!BeginAt
  <2> HIDE DEF Content, MapOf, Stored, Within, Leaves, LeavesIn
  <2> QED BY ONLY <2>1, <2>2
<1>6. /\ At(k).state = "at" /\ At(k).key = k
      /\ Adrift.state = "adrift" /\ Stray.state = "stray" /\ AtEnd.state = "end"
  BY DEF At, Adrift, Stray, AtEnd
<1>7. /\ UNCHANGED <<Content, Position>> /\ Loan # "none" /\ Loan' = "none"
      /\ \/ Loan = "void" /\ DOMAIN reply' = {"key", "rid"}
         \/ Position = At(k) /\ reply' = [key |-> k, rid |-> Content[k]]
         \/ Position = Adrift /\ k \in DOMAIN Content /\ reply' = [key |-> k, rid |-> Content[k]]
      => Cursor!Read
  <2>1. ASSUME UNCHANGED <<Content, Position>>, Loan # "none", Loan' = "none",
               Position = At(k), reply' = [key |-> k, rid |-> Content[k]]
        PROVE  Cursor!Read
    <3>1. Position.state = "at" /\ Position.key = k /\ reply' = Cursor!Yields(k, Content[k])
      BY ONLY <2>1, <1>4, <1>6
    <3>2. reply' = Cursor!Yields(Position.key, Content[Position.key])
      BY ONLY <3>1
    <3> QED BY ONLY <2>1, <3>1, <3>2, Zenon DEF Cursor!Read
  <2>2. ASSUME UNCHANGED <<Content, Position>>, Loan # "none", Loan' = "none",
               Position = Adrift, k \in DOMAIN Content, reply' = [key |-> k, rid |-> Content[k]]
        PROVE  Cursor!Read
    <3>1. Position.state = "adrift" /\ reply' = Cursor!Yields(k, Content[k])
      BY ONLY <2>2, <1>4, <1>6
    <3> QED BY ONLY <2>2, <3>1, Zenon DEF Cursor!Read
  <2>3. ASSUME UNCHANGED <<Content, Position>>, Loan # "none", Loan' = "none",
               Loan = "void", DOMAIN reply' = {"key", "rid"}
        PROVE  Cursor!Read
    BY ONLY <2>3, Zenon DEF Cursor!Read
  <2> HIDE DEF Content, MapOf, Stored, Within, Leaves, LeavesIn
  <2> QED BY ONLY <2>1, <2>2, <2>3
<1>10. ASSUME UNCHANGED <<Content, Position>>, Position \in {AtEnd, Stray, Adrift}, reply' = Throws
       PROVE  Cursor!Refuse
  <2>1. Position.state \in {"end", "stray", "adrift"} /\ reply' = Cursor!Throws
    BY ONLY <1>10, <1>4, <1>6
  <2> QED BY ONLY <1>10, <2>1, Zenon DEF Cursor!Refuse
<1>11. ASSUME UNCHANGED <<Content, Position, reply>>, Loan = "none", Loan' = "good",
              Position = At(k) \/ Position = Adrift
       PROVE  Cursor!Lend
  <2>1. Position.state \in {"at", "adrift"}
    BY ONLY <1>11, <1>6
  <2> QED BY ONLY <1>11, <2>1, Zenon DEF Cursor!Lend
<1>12. UNCHANGED <<Content, Position, reply>> /\ Loan # "none" /\ Loan' = "void" => Cursor!Displace
  BY Zenon DEF Cursor!Displace
<1>8. /\ UNCHANGED Content
      /\ \/ /\ Position = At(k) /\ reply' = Done
            /\ Position' = FirstIn({j \in DOMAIN Content : j > k})
         \/ Position \in {Stray, Adrift} /\ UNCHANGED Position /\ reply' = Done
         \/ Position \in {AtEnd, Stray, Adrift} /\ UNCHANGED Position /\ reply' = Throws
      => Cursor!Advance
  <2>1. ASSUME UNCHANGED Content, Position = At(k), reply' = Done,
               Position' = FirstIn({j \in DOMAIN Content : j > k})
        PROVE  Cursor!Advance
    <3>1. Position.state = "at" /\ Position.key = k /\ reply' = Cursor!Done
          /\ Position' = Cursor!FirstOf(Cursor!After(k))
      BY ONLY <2>1, <1>4, <1>6
    <3>2. Position' = Cursor!FirstOf(Cursor!After(Position.key))
      BY ONLY <3>1
    <3> QED BY ONLY <2>1, <3>1, <3>2, Zenon DEF Cursor!Advance
  <2>2. ASSUME UNCHANGED Content, Position \in {Stray, Adrift}, UNCHANGED Position, reply' = Done
        PROVE  Cursor!Advance
    <3>1. Position.state \in {"stray", "adrift"} /\ reply' = Cursor!Done
      BY ONLY <2>2, <1>4, <1>6
    <3> QED BY ONLY <2>2, <3>1, Zenon DEF Cursor!Advance
  <2>3. ASSUME UNCHANGED Content, Position \in {AtEnd, Stray, Adrift}, UNCHANGED Position, reply' = Throws
        PROVE  Cursor!Advance
    <3>1. Position.state \in {"end", "stray", "adrift"} /\ reply' = Cursor!Throws
      BY ONLY <2>3, <1>4, <1>6
    <3> QED BY ONLY <2>3, <3>1, Zenon DEF Cursor!Advance
  <2> HIDE DEF Content, MapOf, Stored, Within, Leaves, LeavesIn
  <2> QED BY ONLY <2>1, <2>2, <2>3
<1>9. /\ UNCHANGED <<Content, Position>> /\ Position # Nowhere
      /\ \/ reply' = Answers(Position = AtEnd)
         \/ Position = Adrift /\ \E b \in BOOLEAN : reply' = Answers(b)
      => Cursor!IsEnd
  <2>1. ASSUME UNCHANGED <<Content, Position>>, Position # Nowhere, reply' = Answers(Position = AtEnd)
        PROVE  Cursor!IsEnd
    <3>1. Position # Cursor!None /\ reply' = Cursor!Map!Answers(Position = Cursor!AtEnd)
      BY ONLY <2>1, <1>4, Zenon
    <3> QED BY ONLY <2>1, <3>1, Zenon DEF Cursor!IsEnd
  <2>2. ASSUME UNCHANGED <<Content, Position>>, Position # Nowhere, Position = Adrift,
               NEW b \in BOOLEAN, reply' = Answers(b)
        PROVE  Cursor!IsEnd
    <3>1. Position # Cursor!None /\ Position = Cursor!Adrift /\ reply' = Cursor!Map!Answers(b)
      BY ONLY <2>2, <1>4, Zenon
    <3> QED BY ONLY <2>2, <3>1, Zenon DEF Cursor!IsEnd
  <2> HIDE DEF Content, MapOf, Stored, Within, Leaves, LeavesIn
  <2> QED BY ONLY <2>1, <2>2
<1> QED BY ONLY <1>1, <1>2, <1>3, <1>5, <1>7, <1>8, <1>9, <1>10, <1>11, <1>12, Zenon

-----------------------------------------------------------------------------
(* The order of the leaves and the order of the map                        *)

\* A key of a leaf is a key of the map, and leads to the record beside it.
LEMMA HeldKey ==
  ASSUME TreeInv, LeavesFit(node), NEW p \in LeavesIn(node), NEW i \in 1..Len(node[p].entries)
  PROVE  /\ node[p].entries[i].key \in DOMAIN Content
         /\ Content[node[p].entries[i].key] = node[p].entries[i].rid
<1>1. PICK e : e = node[p].entries[i]
  OBVIOUS
<1>2. node[p].entries \in Seq(Entries)
  BY LeafFacts
<1>3. e \in ToSet(node[p].entries)
  BY ONLY <1>1, <1>2, i \in 1..Len(node[p].entries), ElementsOf
<1>4. e \in Stored(node)
  BY <1>3 DEF Stored, Within
<1>5. e.key \in DOMAIN MapOf(Stored(node)) /\ MapOf(Stored(node))[e.key] = e.rid
  BY <1>4, AlwaysUnique, MapAt
<1> QED BY ONLY <1>1, <1>5 DEF Content

\* A key of the map is in a leaf that answers for it.
LEMMA KeyHeld ==
  ASSUME NEW lo, NEW hi, NEW ht, WholeBy(node, root, lo, hi, ht), NEW x \in DOMAIN Content
  PROVE  /\ x \in Int /\ Low <= x /\ x < High
         /\ \E q \in LeavesIn(node) : /\ lo[q] <= x /\ x < hi[q] /\ node[q].entries[1].key <= x
                                      /\ \E i \in 1..Len(node[q].entries) : node[q].entries[i].key = x
<1>1. Core(node, root, NoPage, lo, hi, hi, ht)
  BY DEF WholeBy
<1>2. HasEntry(Stored(node), x)
  BY ONLY x \in DOMAIN Content, MapDomain DEF Content
<1>3. PICK e \in Stored(node) : e.key = x
  BY ONLY <1>2 DEF HasEntry
<1>4. PICK q \in LeavesIn(node) : \E i \in 1..Len(node[q].entries) : node[q].entries[i] = e
  BY ONLY <1>1, e \in Stored(node), StoredAt
<1>5. PICK i \in 1..Len(node[q].entries) : node[q].entries[i] = e
  BY ONLY <1>4
<1>6. node[q].entries[i].key = x
  BY ONLY <1>3, <1>5
<1>7. x \in Keys /\ x \in Int /\ lo[q] <= x /\ x < hi[q] /\ node[q].entries[1].key <= x
  BY ONLY <1>1, <1>6, q \in LeavesIn(node), i \in 1..Len(node[q].entries), EntryBounds
<1>8. Low <= x /\ x < High
  BY ONLY <1>7, KeysWithin
<1> QED BY ONLY <1>6, <1>7, <1>8, q \in LeavesIn(node), i \in 1..Len(node[q].entries)

\* The bounds of the leaves.
LEMMA LeafBounds ==
  ASSUME NEW lo, NEW hi, NEW ht, WholeBy(node, root, lo, hi, ht)
  PROVE  /\ \A p \in LeavesIn(node) :
               /\ lo[p] \in Int /\ hi[p] \in Int /\ lo[p] < hi[p]
               /\ node[p].entries \in Seq(Entries) /\ Len(node[p].entries) \in Nat /\ Len(node[p].entries) > 0
               /\ \A i \in 1..Len(node[p].entries) :
                     /\ node[p].entries[i].key \in Int
                     /\ lo[p] <= node[p].entries[i].key /\ node[p].entries[i].key < hi[p]
               /\ \A i, j \in 1..Len(node[p].entries) :
                     i < j => node[p].entries[i].key < node[p].entries[j].key
         /\ \A p, q \in LeavesIn(node) : p # q => hi[p] <= lo[q] \/ hi[q] <= lo[p]
<1>1. Core(node, root, NoPage, lo, hi, hi, ht) /\ Filled(node, root, NoPage)
  BY DEF WholeBy
<1>2. /\ \A p \in LeavesIn(node) : p \in NodesIn(node)
      /\ \A p \in NodesIn(node) : lo[p] \in Int /\ hi[p] \in Int
  BY ONLY <1>1, CoreTypes
<1>3. /\ node \in [Pages -> Nodes] /\ \A p \in NodesIn(node) : lo[p] < hi[p]
      /\ \A p \in LeavesIn(node) : ht[p] = 0 /\ SortedLeaf(node, lo, hi, p)
      /\ Apart(node, lo, hi, ht)
  BY ONLY <1>1 DEF Core, Sorted
<1>4. ASSUME NEW p \in LeavesIn(node)
      PROVE  /\ lo[p] \in Int /\ hi[p] \in Int /\ lo[p] < hi[p]
             /\ node[p].entries \in Seq(Entries) /\ Len(node[p].entries) \in Nat /\ Len(node[p].entries) > 0
             /\ \A i \in 1..Len(node[p].entries) :
                   /\ node[p].entries[i].key \in Int
                   /\ lo[p] <= node[p].entries[i].key /\ node[p].entries[i].key < hi[p]
             /\ \A i, j \in 1..Len(node[p].entries) :
                   i < j => node[p].entries[i].key < node[p].entries[j].key
  <2>1. node[p].entries \in Seq(Entries)
    BY ONLY <1>3, p \in LeavesIn(node), LeafNode
  <2>2. Len(node[p].entries) \in Nat
    BY ONLY <2>1
  <2>3. Len(node[p].entries) > 0
    BY ONLY <1>1, p \in LeavesIn(node) DEF Filled
  <2>4. \A i \in 1..Len(node[p].entries) :
           /\ node[p].entries[i].key \in Int
           /\ lo[p] <= node[p].entries[i].key /\ node[p].entries[i].key < hi[p]
    BY ONLY <1>1, p \in LeavesIn(node), EntryBounds
  <2>5. \A i, j \in 1..Len(node[p].entries) :
           i < j => node[p].entries[i].key < node[p].entries[j].key
    BY ONLY <1>3, p \in LeavesIn(node) DEF SortedLeaf
  <2> QED BY ONLY <1>2, <1>3, <2>1, <2>2, <2>3, <2>4, <2>5, p \in LeavesIn(node)
<1>5. ASSUME NEW p \in LeavesIn(node), NEW q \in LeavesIn(node), p # q
      PROVE  hi[p] <= lo[q] \/ hi[q] <= lo[p]
  <2>1. p \in NodesIn(node) /\ q \in NodesIn(node) /\ ht[p] = ht[q]
    BY ONLY <1>2, <1>3, p \in LeavesIn(node), q \in LeavesIn(node)
  <2> QED BY ONLY <2>1, <1>3, <1>5 DEF Apart
<1> QED BY ONLY <1>4, <1>5

\* The keys of the map between the bounds of a leaf are those of the leaf.
LEMMA InLeaf ==
  ASSUME NEW lo, NEW hi, NEW ht, WholeBy(node, root, lo, hi, ht), NEW p \in LeavesIn(node),
         NEW x \in DOMAIN Content, lo[p] <= x, x < hi[p]
  PROVE  \E i \in 1..Len(node[p].entries) : node[p].entries[i].key = x
<1>1. x \in Int
  BY KeyHeld
<1>2. PICK q \in LeavesIn(node) :
           /\ lo[q] <= x /\ x < hi[q]
           /\ \E i \in 1..Len(node[q].entries) : node[q].entries[i].key = x
  BY KeyHeld
<1>3. lo[p] \in Int /\ hi[p] \in Int /\ lo[q] \in Int /\ hi[q] \in Int
      /\ (p # q => hi[p] <= lo[q] \/ hi[q] <= lo[p])
  BY LeafBounds
<1>4. p = q
  BY ONLY <1>1, <1>2, <1>3, lo[p] <= x, x < hi[p]
<1> QED BY ONLY <1>2, <1>4

\* What follows a leaf: nothing after the last one, else the first key of the next.
LEMMA AfterLeaf ==
  ASSUME NEW lo, NEW hi, NEW ht, WholeBy(node, root, lo, hi, ht), NEW p \in LeavesIn(node)
  PROVE  /\ node[p].next = NoPage => hi[p] = High
         /\ node[p].next # NoPage => /\ node[p].next \in LeavesIn(node) /\ lo[node[p].next] = hi[p]
                                     /\ \A x \in DOMAIN Content :
                                          x >= hi[p] => node[node[p].next].entries[1].key <= x
<1>1. /\ node[p].next = NoPage => hi[p] = High
      /\ node[p].next # NoPage => node[p].next \in LeavesIn(node) /\ lo[node[p].next] = hi[p]
  BY DEF WholeBy, Core, Chain
<1>2. ASSUME node[p].next # NoPage, NEW x \in DOMAIN Content, x >= hi[p]
      PROVE  node[node[p].next].entries[1].key <= x
  <2>1. PICK q : q = node[p].next
    OBVIOUS
  <2>2. q \in LeavesIn(node) /\ lo[q] = hi[p]
    BY ONLY <1>1, <1>2, <2>1
  <2>3. x \in Int
    BY KeyHeld
  <2>4. PICK y \in LeavesIn(node) : lo[y] <= x /\ x < hi[y] /\ node[y].entries[1].key <= x
    BY KeyHeld
  <2>5. CASE y = q
    BY ONLY <2>1, <2>4, <2>5
  <2>6. CASE y # q
    <3>1. lo[q] \in Int /\ hi[q] \in Int /\ lo[y] \in Int /\ hi[y] \in Int
          /\ (hi[q] <= lo[y] \/ hi[y] <= lo[q])
      BY <2>2, <2>6, LeafBounds
    <3>2. Len(node[q].entries) \in Nat /\ Len(node[q].entries) > 0
          /\ \A i \in 1..Len(node[q].entries) : node[q].entries[i].key \in Int /\ node[q].entries[i].key < hi[q]
      BY <2>2, LeafBounds
    <3>3. 1 \in 1..Len(node[q].entries)
      BY ONLY <3>2
    <3>4. node[q].entries[1].key \in Int /\ node[q].entries[1].key < hi[q]
      BY ONLY <3>2, <3>3
    <3>5. hi[q] <= x
      BY ONLY <1>2, <2>2, <2>3, <2>4, <3>1
    <3>6. node[q].entries[1].key <= x
      BY ONLY <3>1, <3>4, <3>5, <2>3
    <3> QED BY ONLY <2>1, <3>6
  <2> QED BY ONLY <2>5, <2>6
<1> QED BY ONLY <1>1, <1>2

\* The leaf that no other follows is the one that End finds.
LEMMA OnlyLast ==
  ASSUME NEW lo, NEW hi, NEW ht, WholeBy(node, root, lo, hi, ht), NEW p \in LeavesIn(node)
  PROVE  node[p].next = NoPage <=> p = LastLeaf
<1>1. LastLeaf \in LeavesIn(node) /\ hi[LastLeaf] = High
  BY OuterLeaves DEF WholeBy
<1>2. ASSUME node[p].next = NoPage PROVE p = LastLeaf
  <2>1. hi[p] = High
    BY <1>2, AfterLeaf
  <2>2. PICK q : q = LastLeaf
    OBVIOUS
  <2>3. /\ lo[p] \in Int /\ hi[p] \in Int /\ lo[q] \in Int /\ hi[q] \in Int
        /\ lo[p] < hi[p] /\ lo[q] < hi[q] /\ (p # q => hi[p] <= lo[q] \/ hi[q] <= lo[p])
    BY <1>1, <2>2, LeafBounds
  <2>4. hi[p] = hi[q]
    BY ONLY <1>1, <2>1, <2>2
  <2>5. p = q
    BY ONLY <2>3, <2>4
  <2> QED BY ONLY <2>2, <2>5
<1>3. ASSUME p = LastLeaf, node[p].next # NoPage PROVE FALSE
  <2>1. PICK q : q = node[p].next
    OBVIOUS
  <2>2. q \in LeavesIn(node) /\ lo[q] = hi[p] /\ hi[p] = High
    BY <1>1, <1>3, <2>1, AfterLeaf
  <2>3. Core(node, root, NoPage, lo, hi, hi, ht) /\ Len(node[q].entries) \in Nat /\ Len(node[q].entries) > 0
    BY <2>2, LeafBounds DEF WholeBy
  <2>4. 1 \in 1..Len(node[q].entries)
    BY ONLY <2>3
  <2>5. node[q].entries[1].key \in Keys /\ lo[q] <= node[q].entries[1].key
    BY ONLY <2>2, <2>3, <2>4, EntryBounds
  <2> QED BY ONLY <2>2, <2>5, KeysWithin
<1> QED BY ONLY <1>2, <1>3

\* Where an iterator on a leaf is.
LEMMA PlaceCases ==
  ASSUME TreeInv, LeavesFit(node), NEW p \in LeavesIn(node), NEW i \in Iterators, i.page = p,
         NEW n, n = Len(node[p].entries)
  PROVE  /\ i.index \in Nat /\ i.index >= 1 /\ n \in Nat
         /\ i.index <= n => PlaceIn(i, FALSE) = At(node[p].entries[i.index].key)
         /\ i.index = n + 1 /\ node[p].next = NoPage => PlaceIn(i, FALSE) = AtEnd
         /\ i.index > n /\ ~(i.index = n + 1 /\ node[p].next = NoPage) => PlaceIn(i, FALSE) = Stray
         /\ Exhausted(i) <=> (node[p].next = NoPage /\ i.index = n + 1)
<1>1. i # NoIter /\ i.page # NoPage /\ i.page # Gone
  BY NotAnIterator DEF LeavesIn
<1>2. i.index \in 1..(LeafMax + 2)
  BY DEF Iterators
<1>3. i.index \in Nat /\ i.index >= 1
  BY ONLY <1>2, TreeAssumption
<1>4. n \in Nat /\ DOMAIN node[p].entries = 1..n
  BY LeafFacts
<1>5. EntriesAt(i) = node[p].entries /\ (IsLast(i) <=> node[p].next = NoPage)
  BY <1>1 DEF EntriesAt, IsLast
<1>6. Exhausted(i) <=> (node[p].next = NoPage /\ i.index = n + 1)
  BY <1>5 DEF Exhausted
<1>7. PlaceIn(i, FALSE) = IF Exhausted(i) THEN AtEnd
                          ELSE IF i.index \in 1..n THEN At(node[p].entries[i.index].key)
                          ELSE Stray
  BY ONLY <1>1, <1>4, <1>5, Zenon DEF PlaceIn
<1>8. i.index <= n => PlaceIn(i, FALSE) = At(node[p].entries[i.index].key)
  <2>1. i.index <= n => i.index \in 1..n /\ i.index # n + 1
    BY ONLY <1>3, <1>4
  <2> QED BY ONLY <2>1, <1>6, <1>7
<1>9. i.index = n + 1 /\ node[p].next = NoPage => PlaceIn(i, FALSE) = AtEnd
  BY ONLY <1>6, <1>7
<1>10. i.index > n /\ ~(i.index = n + 1 /\ node[p].next = NoPage) => PlaceIn(i, FALSE) = Stray
  <2>1. i.index > n => i.index \notin 1..n
    BY ONLY <1>3, <1>4
  <2> QED BY ONLY <2>1, <1>6, <1>7
<1> QED BY ONLY <1>3, <1>4, <1>6, <1>8, <1>9, <1>10

\* The keys of the map from c on, and after it.
KeysFrom(c)  == {x \in DOMAIN Content : x >= c}
KeysAfter(c) == {x \in DOMAIN Content : x > c}

\* A lower bound for c in the leaf that answers for it is at the first key from
\* c on, or else behind the last key of a leaf that others follow.
LEMMA BoundFound ==
  ASSUME TreeInv, LeavesFit(node), NEW lo, NEW hi, NEW ht, WholeBy(node, root, lo, hi, ht),
         NEW p \in LeavesIn(node), NEW c \in Int, lo[p] <= c, c < hi[p],
         NEW j, PlaceOf(KeysOf(node[p].entries), c, j), Iterator(p, j) \in Iterators
  PROVE  \/ PlaceIn(Iterator(p, j), FALSE) = FirstIn(KeysFrom(c))
         \/ c \notin DOMAIN Content /\ KeysFrom(c) # {} /\ PlaceIn(Iterator(p, j), FALSE) = Stray
<1>1. PICK e, n : e = node[p].entries /\ n = Len(e)
  OBVIOUS
<1>2. /\ e \in Seq(Entries) /\ n \in Nat /\ n > 0 /\ lo[p] \in Int /\ hi[p] \in Int
      /\ \A i \in 1..n : e[i].key \in Int /\ lo[p] <= e[i].key /\ e[i].key < hi[p]
      /\ \A i, m \in 1..n : i < m => e[i].key < e[m].key
  BY <1>1, LeafBounds
<1>3. /\ j \in 1..(n + 1)
      /\ \A m \in 1..n : (m < j => e[m].key < c) /\ (m >= j => c <= e[m].key)
  <2>1. Ordered(e, lo[p], hi[p])
    BY ONLY <1>1, <1>2 DEF Ordered
  <2>2. Len(KeysOf(e)) = n /\ \A i \in 1..n : KeysOf(e)[i] = e[i].key
    BY ONLY <1>1, <1>2, <2>1, EntryKeys
  <2> QED BY ONLY <1>1, <2>2, PlaceOf(KeysOf(node[p].entries), c, j) DEF PlaceOf
<1>4. \A i \in 1..n : e[i].key \in DOMAIN Content
  BY <1>1, HeldKey
<1>5. \A x \in DOMAIN Content : x \in Int /\ (lo[p] <= x /\ x < hi[p] => \E i \in 1..n : e[i].key = x)
  BY <1>1, KeyHeld, InLeaf
<1>6. Iterator(p, j).page = p /\ Iterator(p, j).index = j
  BY DEF Iterator
<1>10. /\ j <= n => PlaceIn(Iterator(p, j), FALSE) = At(e[j].key)
       /\ j = n + 1 /\ node[p].next = NoPage => PlaceIn(Iterator(p, j), FALSE) = AtEnd
       /\ j > n /\ ~(j = n + 1 /\ node[p].next = NoPage) => PlaceIn(Iterator(p, j), FALSE) = Stray
  <2>1. PICK i : i = Iterator(p, j)
    OBVIOUS
  <2>2. i \in Iterators /\ i.page = p /\ i.index = j
    BY ONLY <1>6, <2>1, Iterator(p, j) \in Iterators
  <2>3. /\ i.index <= n => PlaceIn(i, FALSE) = At(e[i.index].key)
        /\ i.index = n + 1 /\ node[p].next = NoPage => PlaceIn(i, FALSE) = AtEnd
        /\ i.index > n /\ ~(i.index = n + 1 /\ node[p].next = NoPage) => PlaceIn(i, FALSE) = Stray
    BY ONLY <1>1, <2>2, p \in LeavesIn(node), TreeInv, LeavesFit(node), PlaceCases
  <2> QED BY ONLY <2>1, <2>2, <2>3
<1>7. KeysFrom(c) \subseteq Int
  BY <1>5 DEF KeysFrom
<1>8. CASE j <= n
  <2>1. j \in 1..n /\ PlaceIn(Iterator(p, j), FALSE) = At(e[j].key)
    <3>1. j \in 1..n
      BY ONLY <1>2, <1>3, <1>8
    <3> QED BY ONLY <1>8, <1>10, <3>1
  <2>2. e[j].key \in KeysFrom(c)
    BY ONLY <1>2, <1>3, <1>4, <2>1 DEF KeysFrom
  <2>3. ASSUME NEW x \in KeysFrom(c) PROVE e[j].key <= x
    <3>1. x \in DOMAIN Content /\ x \in Int /\ x >= c
      BY <1>5 DEF KeysFrom
    <3>2. CASE x < hi[p]
      <4>1. lo[p] <= x
        BY ONLY <1>2, <3>1, lo[p] <= c, c \in Int
      <4>2. PICK i \in 1..n : e[i].key = x
        BY ONLY <1>5, <3>1, <3>2, <4>1
      <4>3. ~(i < j)
        BY ONLY <1>3, <3>1, <4>2, i \in 1..n, c \in Int
      <4>4. i = j \/ j < i
        BY ONLY <4>3, <2>1, <1>2, i \in 1..n
      <4> QED BY ONLY <4>2, <4>4, <1>2, <2>1, i \in 1..n
    <3>3. CASE ~(x < hi[p])
      BY ONLY <1>2, <2>1, <3>1, <3>3
    <3> QED BY ONLY <3>2, <3>3
  <2>4. FirstIn(KeysFrom(c)) = At(e[j].key)
    BY ONLY <1>7, <2>2, <2>3, FirstIs
  <2> QED BY ONLY <2>1, <2>4
<1>9. CASE ~(j <= n)
  <2>1. j = n + 1
    BY ONLY <1>2, <1>3, <1>9
  <2>2. \A m \in 1..n : e[m].key < c
    BY ONLY <1>2, <1>3, <2>1
  <2>3. ASSUME NEW x \in DOMAIN Content, x >= c PROVE x >= hi[p]
    <3>1. x \in Int
      BY <1>5
    <3>2. ASSUME x < hi[p] PROVE FALSE
      <4>1. lo[p] <= x
        BY ONLY <1>2, <2>3, <3>1, lo[p] <= c, c \in Int
      <4>2. PICK i \in 1..n : e[i].key = x
        BY ONLY <1>5, <3>2, <4>1, x \in DOMAIN Content
      <4> QED BY ONLY <2>2, <2>3, <3>1, <4>2, i \in 1..n, c \in Int
    <3> QED BY ONLY <3>1, <3>2, <1>2
  <2>4. CASE node[p].next = NoPage
    <3>1. PlaceIn(Iterator(p, j), FALSE) = AtEnd
      BY ONLY <1>1, <1>10, <2>1, <2>4
    <3>2. ASSUME NEW x \in KeysFrom(c) PROVE FALSE
      <4>1. x \in DOMAIN Content /\ x >= hi[p]
        BY <2>3 DEF KeysFrom
      <4>2. hi[p] = High /\ x \in Int /\ x < High
        BY <2>4, <4>1, AfterLeaf, KeyHeld
      <4> QED BY ONLY <4>1, <4>2, KeysWithin
    <3>3. KeysFrom(c) = {}
      BY ONLY <3>2
    <3> QED BY ONLY <3>1, <3>3, FirstIs
  <2>5. CASE node[p].next # NoPage
    <3>1. PICK q : q = node[p].next
      OBVIOUS
    <3>2. q \in LeavesIn(node) /\ lo[q] = hi[p]
      BY <2>5, <3>1, AfterLeaf
    <3>3. Len(node[q].entries) \in Nat /\ Len(node[q].entries) > 0
          /\ \A i \in 1..Len(node[q].entries) : node[q].entries[i].key \in Int /\ lo[q] <= node[q].entries[i].key
      BY <3>2, LeafBounds
    <3>4. 1 \in 1..Len(node[q].entries)
      BY ONLY <3>3
    <3>5. node[q].entries[1].key \in DOMAIN Content
      BY <3>2, <3>4, HeldKey
    <3>6. node[q].entries[1].key >= c
      BY ONLY <1>2, <3>2, <3>3, <3>4, c \in Int, c < hi[p]
    <3>7. KeysFrom(c) # {}
      BY ONLY <3>5, <3>6 DEF KeysFrom
    <3>8. c \notin DOMAIN Content
      <4>1. c \in DOMAIN Content => c >= hi[p]
        BY <2>3
      <4> QED BY ONLY <4>1, <1>2, c \in Int, c < hi[p]
    <3>9. PlaceIn(Iterator(p, j), FALSE) = Stray
      <4>1. j > n
        BY ONLY <1>2, <2>1
      <4> QED BY ONLY <1>10, <2>5, <4>1
    <3> QED BY ONLY <3>7, <3>8, <3>9
  <2> QED BY ONLY <2>4, <2>5
<1> QED BY ONLY <1>8, <1>9

-----------------------------------------------------------------------------
(* Every step is one of the cursor                                         *)

\* What the cursor may do, without saying which of its steps it is.
Moves == Cursor!Next \/ UNCHANGED (Cursor!vars)

\* Nothing is lent before or after.
NoLoan == Loan = "none" /\ Loan' = "none"

\* The steps of the cursor, by name.
LEMMA CursorMoves ==
  /\ Cursor!MapStep \/ Cursor!Displace \/ Cursor!Lend \/ Cursor!Read => Moves
  /\ NoLoan /\ (\/ Cursor!Begin \/ Cursor!Refuse \/ Cursor!Advance
                 \/ Cursor!IsEnd \/ Cursor!EndThrows \/ \E k \in Keys : Cursor!BeginAt(k)) => Moves
  /\ UNCHANGED Content /\ UNCHANGED Position /\ reply' = reply /\ Loan' = Loan => Moves
<1>1. Cursor!MapStep \/ Cursor!Displace \/ Cursor!Lend \/ Cursor!Read => Moves
  BY Zenon DEF Cursor!Next, Moves
<1>2. NoLoan /\ (\/ Cursor!Begin \/ Cursor!Refuse \/ Cursor!Advance
                  \/ Cursor!IsEnd \/ Cursor!EndThrows \/ \E k \in Keys : Cursor!BeginAt(k)) => Moves
  <2>1. NoLoan => Cursor!Free
    BY Zenon DEF Cursor!Free, NoLoan
  <2> QED BY <2>1, Zenon DEF Cursor!Next, Moves
<1>3. UNCHANGED Content /\ UNCHANGED Position /\ reply' = reply /\ Loan' = Loan => Moves
  <2> USE DEF Content, MapOf, Stored, Within, Leaves, LeavesIn
  <2>1. Cursor!vars = <<Content, reply, Position, Loan>>
    BY Zenon DEF Cursor!vars
  <2>2. (Cursor!vars)' = <<Content', reply', Position', Loan'>>
    BY Zenon DEF Cursor!vars
  <2> HIDE DEF Content, MapOf, Stored, Within, Leaves, LeavesIn
  <2> QED BY ONLY <2>1, <2>2 DEF Moves
<1> QED BY <1>1, <1>2, <1>3

\* What is lent, from what the iterator's variables say.
LEMMA Loans ==
  /\ inCall \notin {"key", "rid"} => Loan = "none"
  /\ inCall' \notin {"key", "rid"} => Loan' = "none"
  /\ inCall \in {"key", "rid"} => Loan = IF steady THEN "good" ELSE "void"
  /\ inCall' \in {"key", "rid"} => Loan' = IF steady' THEN "good" ELSE "void"
  /\ inCall' = inCall /\ steady' = steady => Loan' = Loan
BY DEF Loan, Lent

\* A step that leaves the tree alone leaves the map alone, and the cursor with the iterator.
LEMMA Still ==
  /\ node' = node => UNCHANGED Content /\ Position' = PlaceIn(it', adrift')
  /\ node' = node /\ it' = it /\ adrift' = adrift => UNCHANGED Content /\ UNCHANGED Position
<1>1. node' = node => UNCHANGED Content
  BY ContentKept
<1>2. Position = PlaceIn(it, adrift) /\ (node' = node => Position' = PlaceIn(it', adrift'))
  BY Positions
<1> QED BY ONLY <1>1, <1>2

\* The four places that are not at a key differ from each other.
LEMMA PlacesDiffer ==
  /\ Nowhere # AtEnd /\ Nowhere # Stray /\ Nowhere # Adrift
  /\ AtEnd # Stray /\ AtEnd # Adrift /\ Stray # Adrift
  /\ \A k : At(k) # Nowhere /\ At(k) # AtEnd /\ At(k) # Stray /\ At(k) # Adrift
<1>1. /\ Nowhere.state = "none" /\ AtEnd.state = "end" /\ Stray.state = "stray" /\ Adrift.state = "adrift"
      /\ \A k : At(k).state = "at"
  BY DEF Nowhere, AtEnd, Stray, Adrift, At
<1> QED BY ONLY <1>1

\* Where the cursor is when the iterator is on a leaf that has not changed.
LEMMA OnLeaf ==
  ASSUME IterInv, it # NoIter, it.page # NoPage, ~adrift
  PROVE  /\ fix = Quiet /\ root # NoPage /\ it \in Iterators /\ it.page \in LeavesIn(node) /\ ~it.last
         /\ it.index \in DOMAIN EntriesAt(it) => Position = At(EntriesAt(it)[it.index].key)
         /\ it.index \notin DOMAIN EntriesAt(it) => Position \in {AtEnd, Stray}
         /\ Exhausted(it) <=> Position = AtEnd
         /\ Exhausted(it) <=> IsLast(it) /\ it.index = Len(EntriesAt(it)) + 1
<1>1. fix = Quiet /\ it.page \in LeavesIn(node) /\ ~it.last
  BY DEF IterInv, Calm, Default, Iterator
<1>2. TreeInv /\ LeavesFit(node)
  BY DEF IterInv
<1>3. root # NoPage
  BY <1>1, <1>2, QuietCases, EmptyTable
<1>4. it \in Iterators /\ EntriesAt(it) = node[it.page].entries /\ DOMAIN EntriesAt(it) = 1..Len(EntriesAt(it))
      /\ (IsLast(it) <=> node[it.page].next = NoPage) /\ it.index \in Nat /\ it.index >= 1
  BY <1>1, SeenFacts
<1>5. PICK n : n = Len(node[it.page].entries)
  OBVIOUS
<1>6. /\ n \in Nat
      /\ it.index <= n => PlaceIn(it, FALSE) = At(node[it.page].entries[it.index].key)
      /\ it.index = n + 1 /\ node[it.page].next = NoPage => PlaceIn(it, FALSE) = AtEnd
      /\ it.index > n /\ ~(it.index = n + 1 /\ node[it.page].next = NoPage) => PlaceIn(it, FALSE) = Stray
      /\ Exhausted(it) <=> (node[it.page].next = NoPage /\ it.index = n + 1)
  BY ONLY <1>1, <1>2, <1>4, <1>5, PlaceCases
<1>7. Position = PlaceIn(it, FALSE)
  <2>1. adrift = FALSE
    BY DEF IterInv, IterTypes
  <2> QED BY ONLY <2>1, Positions
<1>8. it.index \in DOMAIN EntriesAt(it) => Position = At(EntriesAt(it)[it.index].key)
  <2>1. it.index \in DOMAIN EntriesAt(it) => it.index <= n
    BY ONLY <1>4, <1>5, <1>6
  <2> QED BY ONLY <2>1, <1>4, <1>6, <1>7
<1>9. it.index \notin DOMAIN EntriesAt(it) => it.index > n
  BY ONLY <1>4, <1>5, <1>6
<1>10. it.index \notin DOMAIN EntriesAt(it) => Position \in {AtEnd, Stray}
  BY ONLY <1>6, <1>7, <1>9
<1>11. it.index \in DOMAIN EntriesAt(it) => ~Exhausted(it)
  BY ONLY <1>4, <1>5, <1>6
<1>12. Exhausted(it) <=> Position = AtEnd
  <2>1. Exhausted(it) => Position = AtEnd
    BY ONLY <1>6, <1>7
  <2>2. ~Exhausted(it) => Position # AtEnd
    BY ONLY <1>6, <1>7, <1>8, <1>9, PlacesDiffer
  <2> QED BY ONLY <2>1, <2>2
<1>13. Exhausted(it) <=> IsLast(it) /\ it.index = Len(EntriesAt(it)) + 1
  BY ONLY <1>4, <1>5, <1>6
<1> QED BY ONLY <1>1, <1>3, <1>4, <1>8, <1>10, <1>12, <1>13

\* The cursor of an iterator that the tree has changed under, and of none.
LEMMA OffLeaf ==
  /\ it = NoIter => Position = Nowhere
  /\ it # NoIter /\ adrift => Position = Adrift
  /\ it # NoIter /\ ~adrift => Position # Nowhere /\ Position # Adrift
<1>1. Position = PlaceIn(it, adrift)
  BY Positions
<1>2. it # NoIter /\ ~adrift => Position \in {AtEnd, Stray, At(EntriesAt(it)[it.index].key)}
  BY ONLY <1>1 DEF PlaceIn
<1> QED BY ONLY <1>1, <1>2, PlacesDiffer DEF PlaceIn

\* A step of the tree moves the map, or nothing; an iterator that it changes the
\* map under is adrift.
LEMMA CursorTree ==
  ASSUME IterInv, TreeStep
  PROVE  Moves
<1>1. /\ Next /\ it' = Carried /\ adrift' = (it # NoIter /\ (adrift \/ node' # node))
      /\ inCall' = inCall /\ steady' = (steady /\ (Lent => node' = node))
  BY DEF TreeStep
<1>2. IterInv'
  BY StepTree
<1>3. adrift' => it' # NoIter
  BY <1>2 DEF IterInv, IterTypes
<1>4. Position' = (IF Content' = Content \/ Position = Nowhere THEN Position ELSE Adrift)
  <2>1. CASE it = NoIter
    <3>1. it' = NoIter
      BY <1>1, <2>1 DEF Carried
    <3> QED BY ONLY <2>1, <3>1, OffLeaf, Positions
  <2>2. CASE it # NoIter /\ adrift
    <3>1. adrift'
      BY <1>1, <2>2
    <3> QED BY ONLY <2>2, <3>1, <1>3, OffLeaf, Positions
  <2>3. CASE it # NoIter /\ ~adrift /\ Content' # Content
    <3>1. node' # node
      BY <2>3, ContentKept
    <3>2. adrift'
      BY <1>1, <2>3, <3>1
    <3> QED BY ONLY <2>3, <3>2, <1>3, OffLeaf, Positions
  <2>4. CASE it # NoIter /\ ~adrift /\ Content' = Content
    <3>1. fix = Quiet /\ TreeInv
      BY <2>4 DEF IterInv, Calm
    <3>2. node' = node
      BY <1>1, <2>4, <3>1, QuietSame
    <3>3. it' = it
      <4>1. ~(it.page \in Leaves /\ node'[it.page] = Unused)
        BY <3>2 DEF Leaves, Unused
      <4> QED BY <1>1, <4>1 DEF Carried
    <3>4. adrift' = adrift
      <4>1. adrift \in BOOLEAN
        BY DEF IterInv, IterTypes
      <4> QED BY <1>1, <2>4, <3>2, <4>1
    <3> QED BY ONLY <2>4, <3>2, <3>3, <3>4, Still
  <2> QED BY ONLY <2>1, <2>2, <2>3, <2>4
<1>5. [Map!Next]_(Map!vars)
  BY <1>1, MapStep DEF IterInv
<1>8. \/ Loan' = Loan /\ (Loan = "good" => UNCHANGED Content)
      \/ Loan = "good" /\ Loan' = "void"
  <2>1. steady \in BOOLEAN
    BY DEF IterInv, IterTypes
  <2>2. CASE ~Lent
    <3>1. Loan = "none" /\ Loan' = "none"
      BY <1>1, <2>2, Loans DEF Lent
    <3> QED BY ONLY <3>1
  <2>3. CASE Lent /\ node' = node
    <3>1. steady' = steady
      BY <1>1, <2>1, <2>3
    <3>2. Loan' = Loan
      BY ONLY <1>1, <3>1, Loans
    <3>3. UNCHANGED Content
      BY <2>3, ContentKept
    <3> QED BY ONLY <3>2, <3>3
  <2>4. CASE Lent /\ node' # node
    <3>1. steady' = FALSE
      BY <1>1, <2>4
    <3>2. inCall \in {"key", "rid"}
      BY <2>4 DEF Lent
    <3>3. Loan' = "void" /\ Loan \in {"good", "void"}
      BY ONLY <1>1, <3>1, <3>2, Loans
    <3>4. "good" # "void"
      OBVIOUS
    <3> QED BY ONLY <3>3, <3>4
  <2> QED BY <2>2, <2>3, <2>4
<1>6. CASE Map!Next
  <2>1. Cursor!MapStep
    BY ONLY <1>4, <1>6, <1>8, CursorSteps, Zenon
  <2> QED BY ONLY <2>1, CursorMoves
<1>7. CASE UNCHANGED (Map!vars)
  <2>1. Content' = Content /\ reply' = reply
    <3>1. Map!vars = <<Content, reply>>
      BY ONLY MapSteps, Zenon
    <3>2. (Map!vars)' = <<Content', reply'>>
      BY Zenon DEF Map!vars, Content, MapOf, Stored, Within, Leaves, LeavesIn
    <3> QED BY ONLY <1>7, <3>1, <3>2
  <2>2. Position' = Position
    BY ONLY <1>4, <2>1
  <2>3. CASE Loan' = Loan
    BY ONLY <2>1, <2>2, <2>3, CursorMoves
  <2>4. CASE Loan = "good" /\ Loan' = "void"
    <3>1. "good" # "none"
      OBVIOUS
    <3>2. Cursor!Displace
      <4>1. Loan # "none" /\ UNCHANGED <<Content, Position, reply>>
        BY ONLY <2>1, <2>2, <2>4, <3>1
      <4> QED BY ONLY <2>4, <4>1, CursorSteps, Zenon
    <3> QED BY ONLY <3>2, CursorMoves
  <2> QED BY ONLY <1>8, <2>3, <2>4
<1> QED BY ONLY <1>5, <1>6, <1>7

\* operator++ goes to the next key, within the leaf or at the start of the next
\* one, or behind the last entry of all.
LEMMA AfterFound ==
  ASSUME IterInv, it # NoIter, it.page # NoPage, ~adrift, it.index \in DOMAIN EntriesAt(it),
         NEW c, c = EntriesAt(it)[it.index].key
  PROVE  PlaceIn(Moved(it), FALSE) = FirstIn(KeysAfter(c))
<1>1. fix = Quiet /\ root # NoPage /\ it \in Iterators /\ it.page \in LeavesIn(node) /\ ~it.last
  BY OnLeaf
<1>2. TreeInv /\ LeavesFit(node)
  BY DEF IterInv
<1>3. PICK lo, hi, ht : WholeBy(node, root, lo, hi, ht)
  BY <1>1, <1>2, QuietCases DEF Whole
<1>4. PICK p, j, e, n : p = it.page /\ j = it.index /\ e = node[p].entries /\ n = Len(e)
  OBVIOUS
<1>5. p \in LeavesIn(node) /\ EntriesAt(it) = e /\ DOMAIN e = 1..n /\ (IsLast(it) <=> node[p].next = NoPage)
      /\ n \in Nat /\ n <= LeafMax
  BY <1>1, <1>4, SeenFacts
<1>6. j \in 1..n /\ c = e[j].key
  BY ONLY <1>4, <1>5, it.index \in DOMAIN EntriesAt(it), c = EntriesAt(it)[it.index].key
<1>7. /\ lo[p] \in Int /\ hi[p] \in Int
      /\ \A i \in 1..n : e[i].key \in Int /\ lo[p] <= e[i].key /\ e[i].key < hi[p]
      /\ \A i, m \in 1..n : i < m => e[i].key < e[m].key
  BY ONLY <1>3, <1>4, <1>5, LeafBounds
<1>8. c \in Int /\ lo[p] <= c /\ c < hi[p]
  BY ONLY <1>6, <1>7
<1>9. KeysAfter(c) \subseteq Int
  BY <1>3, KeyHeld DEF KeysAfter
<1>10. ASSUME NEW x \in KeysAfter(c)
       PROVE  /\ x \in Int /\ x \in DOMAIN Content
              /\ x >= hi[p] \/ \E i \in 1..n : i > j /\ e[i].key = x
  <2>1. x \in DOMAIN Content /\ x > c /\ x \in Int
    BY <1>9 DEF KeysAfter
  <2>2. CASE x < hi[p]
    <3>1. lo[p] <= x
      BY ONLY <1>7, <1>8, <2>1
    <3>2. PICK i \in 1..n : e[i].key = x
      BY ONLY <1>3, <1>4, <1>5, <2>1, <2>2, <3>1, InLeaf
    <3>3. ~(i < j) /\ i # j
      BY ONLY <1>6, <1>7, <1>8, <2>1, <3>2, i \in 1..n
    <3>4. i > j
      BY ONLY <1>5, <1>6, <3>3, i \in 1..n
    <3> QED BY ONLY <2>1, <3>2, <3>4, i \in 1..n
  <2>3. CASE ~(x < hi[p])
    BY ONLY <1>7, <2>1, <2>3
  <2> QED BY ONLY <2>2, <2>3
<1>11. \A q \in LeavesIn(node) : \A i \in 1..Len(node[q].entries) : node[q].entries[i].key \in DOMAIN Content
  BY ONLY <1>2, HeldKey
<1>12. ASSUME ~(j = n /\ node[p].next # NoPage), NEW m, m = Moved(it)
       PROVE  m \in Iterators /\ m.page = p /\ m.index = j + 1
  <2>1. m = [it EXCEPT !.index = it.index + 1]
    BY <1>4, <1>5, <1>12 DEF Moved
  <2>2. j + 1 \in 1..(LeafMax + 2)
    BY ONLY <1>5, <1>6, TreeAssumption
  <2> QED BY ONLY <1>1, <1>4, <2>1, <2>2 DEF Iterators
<1>13. CASE j < n
  <2>1. PICK m : m = Moved(it)
    OBVIOUS
  <2>2. j + 1 \in 1..n /\ j # n
    BY ONLY <1>5, <1>6, <1>13
  <2>3. m \in Iterators /\ m.page = p /\ m.index = j + 1
    BY ONLY <2>1, <2>2, <1>12
  <2>4. PlaceIn(m, FALSE) = At(e[m.index].key)
    <3>1. m.index <= n
      BY ONLY <2>2, <2>3, <1>5
    <3> QED BY ONLY <1>2, <1>4, <1>5, <2>3, <3>1, PlaceCases
  <2>5. e[j + 1].key \in KeysAfter(c)
    <3>1. e[j + 1].key \in DOMAIN Content
      BY ONLY <1>4, <1>5, <1>11, <2>2
    <3>2. e[j + 1].key > c
      BY ONLY <1>5, <1>6, <1>7, <2>2
    <3> QED BY ONLY <3>1, <3>2 DEF KeysAfter
  <2>6. ASSUME NEW x \in KeysAfter(c) PROVE e[j + 1].key <= x
    <3>1. CASE x >= hi[p]
      BY ONLY <1>7, <1>10, <2>2, <3>1, x \in KeysAfter(c)
    <3>2. ASSUME NEW i \in 1..n, i > j, e[i].key = x PROVE e[j + 1].key <= x
      <4>1. i = j + 1 \/ j + 1 < i
        BY ONLY <1>5, <1>6, <3>2, i \in 1..n
      <4>2. e[j + 1].key \in Int /\ e[i].key \in Int
        BY ONLY <1>7, <2>2, i \in 1..n
      <4>3. j + 1 < i => e[j + 1].key < e[i].key
        BY ONLY <1>7, <2>2, i \in 1..n
      <4> QED BY ONLY <3>2, <4>1, <4>2, <4>3
    <3> QED BY ONLY <1>10, <3>1, <3>2, x \in KeysAfter(c)
  <2>7. FirstIn(KeysAfter(c)) = At(e[j + 1].key)
    BY ONLY <1>9, <2>5, <2>6, FirstIs
  <2> QED BY ONLY <2>1, <2>3, <2>4, <2>7
<1>14. CASE j = n /\ node[p].next = NoPage
  <2>1. PICK m : m = Moved(it)
    OBVIOUS
  <2>2. m \in Iterators /\ m.page = p /\ m.index = n + 1
    BY ONLY <2>1, <1>12, <1>14
  <2>3. PlaceIn(m, FALSE) = AtEnd
    BY ONLY <1>2, <1>4, <1>5, <2>2, <1>14, PlaceCases
  <2>4. ASSUME NEW x \in KeysAfter(c) PROVE FALSE
    <3>1. x \in DOMAIN Content /\ x \in Int /\ (x >= hi[p] \/ \E i \in 1..n : i > j)
      BY ONLY <1>10, x \in KeysAfter(c)
    <3>2. ~\E i \in 1..n : i > j
      BY ONLY <1>5, <1>14
    <3>3. hi[p] = High
      BY ONLY <1>3, <1>5, <1>14, AfterLeaf
    <3>4. x < High
      BY ONLY <1>3, <3>1, KeyHeld
    <3> QED BY ONLY <3>1, <3>2, <3>3, <3>4, KeysWithin
  <2>5. KeysAfter(c) = {}
    BY ONLY <2>4
  <2> QED BY ONLY <2>1, <2>3, <2>5, FirstIs
<1>15. CASE j = n /\ node[p].next # NoPage
  <2>1. PICK q : q = node[p].next
    OBVIOUS
  <2>2. /\ q \in LeavesIn(node) /\ lo[q] = hi[p]
        /\ \A x \in DOMAIN Content : x >= hi[p] => node[q].entries[1].key <= x
    BY ONLY <1>3, <1>5, <1>15, <2>1, AfterLeaf
  <2>3. PICK m : m = Iterator(q, 1)
    OBVIOUS
  <2>4. Moved(it) = m
    BY <1>4, <1>5, <1>15, <2>1, <2>3 DEF Moved
  <2>5. m \in Iterators /\ m.page = q /\ m.index = 1
    <3>1. 1 \in 1..(LeafMax + 2) /\ q \in Pages
      BY <2>2, TreeAssumption DEF LeavesIn
    <3> QED BY ONLY <3>1, <2>3, MakeIterator
  <2>6. PICK y : y = node[q].entries[1].key
    OBVIOUS
  <2>7. /\ Len(node[q].entries) \in Nat /\ 1 \in 1..Len(node[q].entries) /\ y \in Int /\ lo[q] <= y
    <3>1. Len(node[q].entries) \in Nat /\ Len(node[q].entries) > 0
          /\ \A i \in 1..Len(node[q].entries) : node[q].entries[i].key \in Int /\ lo[q] <= node[q].entries[i].key
      BY ONLY <1>3, <2>2, LeafBounds
    <3>2. 1 \in 1..Len(node[q].entries)
      BY ONLY <3>1
    <3> QED BY ONLY <3>1, <3>2, <2>6
  <2>8. PlaceIn(m, FALSE) = At(y)
    <3>1. m.index <= Len(node[q].entries)
      BY ONLY <2>5, <2>7
    <3>2. PlaceIn(m, FALSE) = At(node[q].entries[m.index].key)
      BY ONLY <1>2, <2>2, <2>5, <3>1, PlaceCases
    <3> QED BY ONLY <2>5, <2>6, <3>2
  <2>9. y \in KeysAfter(c)
    <3>1. y \in DOMAIN Content
      BY ONLY <1>11, <2>2, <2>6, <2>7
    <3>2. y > c
      BY ONLY <1>7, <1>8, <2>2, <2>7
    <3> QED BY ONLY <3>1, <3>2 DEF KeysAfter
  <2>10. ASSUME NEW x \in KeysAfter(c) PROVE y <= x
    <3>1. ~\E i \in 1..n : i > j
      BY ONLY <1>5, <1>15
    <3>2. x >= hi[p] /\ x \in DOMAIN Content
      BY ONLY <1>10, <3>1, x \in KeysAfter(c)
    <3> QED BY ONLY <2>2, <2>6, <3>2
  <2>11. FirstIn(KeysAfter(c)) = At(y)
    BY ONLY <1>9, <2>9, <2>10, FirstIs
  <2> QED BY ONLY <2>4, <2>8, <2>11
<1>16. j < n \/ (j = n /\ node[p].next = NoPage) \/ (j = n /\ node[p].next # NoPage)
  BY ONLY <1>5, <1>6
<1> QED BY ONLY <1>13, <1>14, <1>15, <1>16

\* Begin finds the first key, or the end of an empty map.
LEMMA CursorBegins ==
  ASSUME IterInv, BeginTest \/ BeginWalk
  PROVE  Moves
<1>1. fix = Quiet /\ node' = node
  BY DEF BeginTest, BeginWalk, Callable
<1>b. NoLoan
  <2>1. inCall \notin {"key", "rid"} /\ inCall' \notin {"key", "rid"}
    BY DEF BeginTest, BeginWalk, Callable
  <2> QED BY ONLY <2>1, Loans DEF NoLoan
<1>2. TreeInv /\ LeavesFit(node)
  BY DEF IterInv
<1>3. UNCHANGED Content
  BY ONLY <1>1, Still
<1>4. root = NoPage <=> DOMAIN Content = {}
  BY ONLY <1>1, <1>2, EmptyAnswers
<1>5. ASSUME Position' = FirstIn(DOMAIN Content), reply' = Done PROVE Moves
  <2>1. Cursor!Begin
    BY ONLY <1>3, <1>5, CursorSteps, Zenon
  <2> QED BY ONLY <1>b, <2>1, CursorMoves
<1>6. CASE BeginTest /\ root = NoPage
  <2>1. it' = Default /\ adrift' = FALSE /\ reply' = Done
    BY <1>6 DEF BeginTest, Assign
  <2>2. Position' = PlaceIn(Default, FALSE)
    BY ONLY <1>1, <2>1, Still
  <2>3. Default # NoIter /\ Default.page = NoPage
    BY <1>1, MadeIterators, NotAnIterator DEF Default, Iterator
  <2>4. Position' = AtEnd
    BY ONLY <2>2, <2>3 DEF PlaceIn
  <2>5. FirstIn(DOMAIN Content) = AtEnd
    BY ONLY <1>4, <1>6, FirstIs
  <2> QED BY ONLY <1>5, <2>1, <2>4, <2>5
<1>7. CASE BeginTest /\ root # NoPage
  <2>1. it' = it /\ adrift' = adrift /\ reply' = reply
    BY <1>7 DEF BeginTest
  <2> QED BY ONLY <1>1, <1>b, <2>1, Still, CursorMoves DEF NoLoan
<1>8. CASE BeginWalk /\ root = NoPage
  <2>1. it' = it /\ adrift' = adrift /\ reply' = Throws
    BY <1>8 DEF BeginWalk, Reply
  <2>2. UNCHANGED Content /\ UNCHANGED Position /\ DOMAIN Content = {}
    BY ONLY <1>1, <1>4, <1>8, <2>1, Still
  <2>3. Cursor!Begin
    BY ONLY <2>1, <2>2, CursorSteps, Zenon
  <2> QED BY ONLY <1>b, <2>3, CursorMoves
<1>9. CASE BeginWalk /\ root # NoPage
  <2>1. PICK p, i : p = FirstLeaf /\ i = Iterator(p, 1)
    OBVIOUS
  <2>2. it' = i /\ adrift' = FALSE /\ reply' = Done
    BY <1>9, <2>1 DEF BeginWalk, Assign
  <2>3. Position' = PlaceIn(i, FALSE)
    BY ONLY <1>1, <2>2, Still
  <2>4. PICK lo, hi, ht : WholeBy(node, root, lo, hi, ht)
    BY <1>1, <1>2, <1>9, QuietCases DEF Whole
  <2>5. p \in LeavesIn(node) /\ lo[p] = Low
    BY <2>1, <2>4, OuterLeaves DEF WholeBy
  <2>6. i \in Iterators /\ i.page = p /\ i.index = 1
    BY <1>1, <1>9, <2>1, MadeIterators DEF Iterator
  <2>7. /\ lo[p] < hi[p] /\ Low \in Int
        /\ node[p].entries \in Seq(Entries) /\ Len(node[p].entries) \in Nat /\ Len(node[p].entries) > 0
        /\ \A m \in 1..Len(node[p].entries) :
              node[p].entries[m].key \in Int /\ Low <= node[p].entries[m].key
    BY ONLY <2>4, <2>5, LeafBounds, KeysWithin
  <2>8. Len(KeysOf(node[p].entries)) = Len(node[p].entries)
        /\ \A m \in 1..Len(node[p].entries) : KeysOf(node[p].entries)[m] = node[p].entries[m].key
    <3>1. Ordered(node[p].entries, lo[p], hi[p])
      BY <2>4, <2>5, LeafOrdered DEF WholeBy
    <3> QED BY ONLY <2>7, <3>1, EntryKeys
  <2>9. PlaceOf(KeysOf(node[p].entries), Low, 1)
    BY ONLY <2>7, <2>8 DEF PlaceOf
  <2>10. Iterator(p, 1) \in Iterators
    BY ONLY <2>1, <2>6
  <2>11. \/ PlaceIn(Iterator(p, 1), FALSE) = FirstIn(KeysFrom(Low))
         \/ PlaceIn(Iterator(p, 1), FALSE) = Stray
    <3>1. PICK c \in Int : c = Low
      BY ONLY <2>7
    <3>2. lo[p] <= c /\ c < hi[p]
      BY ONLY <2>5, <2>7, <3>1
    <3>3. PlaceOf(KeysOf(node[p].entries), c, 1)
      BY ONLY <2>9, <3>1
    <3>4. \/ PlaceIn(Iterator(p, 1), FALSE) = FirstIn(KeysFrom(c))
          \/ PlaceIn(Iterator(p, 1), FALSE) = Stray
      BY ONLY <1>2, <2>4, <2>5, <2>10, <3>2, <3>3, c \in Int, BoundFound
    <3> QED BY ONLY <3>1, <3>4
  <2>12. PlaceIn(i, FALSE) = At(node[p].entries[i.index].key)
    <3>1. i.index <= Len(node[p].entries)
      BY ONLY <2>6, <2>7
    <3> QED BY ONLY <1>2, <2>5, <2>6, <3>1, PlaceCases
  <2>13. KeysFrom(Low) = DOMAIN Content
    <3>1. \A x \in DOMAIN Content : x >= Low
      <4>1. \A x \in DOMAIN Content : x \in Int /\ Low <= x
        BY ONLY <2>4, KeyHeld
      <4> QED BY ONLY <4>1, <2>7
    <3> QED BY ONLY <3>1 DEF KeysFrom
  <2>14. Position' = FirstIn(DOMAIN Content)
    BY ONLY <2>1, <2>3, <2>11, <2>12, <2>13, PlacesDiffer
  <2> QED BY ONLY <1>5, <2>2, <2>14
<1> QED BY <1>6, <1>7, <1>8, <1>9

\* Begin(key) finds the first key from there on, or is stray.
LEMMA CursorBeginsAt ==
  ASSUME IterInv, NEW k \in Keys, BeginAt(k)
  PROVE  Moves
<1>1. fix = Quiet /\ node' = node
  BY DEF BeginAt, Callable
<1>b. NoLoan
  <2>1. inCall \notin {"key", "rid"} /\ inCall' \notin {"key", "rid"}
    BY DEF BeginAt, Callable
  <2> QED BY ONLY <2>1, Loans DEF NoLoan
<1>2. TreeInv /\ LeavesFit(node)
  BY DEF IterInv
<1>3. UNCHANGED Content /\ (root = NoPage <=> DOMAIN Content = {})
  BY ONLY <1>1, <1>2, Still, EmptyAnswers
<1>4. ASSUME Cursor!BeginAt(k) PROVE Moves
  BY ONLY <1>4, <1>b, k \in Keys, CursorMoves
<1>5. CASE root = NoPage
  <2>1. it' = it /\ adrift' = adrift /\ reply' = Throws
    BY <1>5 DEF BeginAt, Reply
  <2>2. UNCHANGED Content /\ UNCHANGED Position /\ DOMAIN Content = {}
    BY ONLY <1>1, <1>3, <1>5, <2>1, Still
  <2>3. Cursor!BeginAt(k)
    BY ONLY <2>1, <2>2, CursorSteps, Zenon
  <2> QED BY ONLY <1>4, <2>3
<1>6. CASE root # NoPage
  <2>1. PICK p, j : p = LeafFor(k) /\ j = KeyIndex(LeafKeys(p), k)
    OBVIOUS
  <2>2. it' = Iterator(p, j) /\ adrift' = FALSE /\ reply' = Done
    BY <1>6, <2>1 DEF BeginAt, Assign
  <2>3. Position' = PlaceIn(Iterator(p, j), FALSE)
    BY ONLY <1>1, <2>2, Still
  <2>4. PICK lo, hi, ht : WholeBy(node, root, lo, hi, ht)
    BY <1>1, <1>2, <1>6, QuietCases DEF Whole
  <2>5. p \in LeavesIn(node) /\ lo[p] <= k /\ k < hi[p]
    BY <2>1, <2>4, LeafFound DEF WholeBy
  <2>6. PlaceOf(KeysOf(node[p].entries), k, j) /\ Iterator(p, j) \in Iterators
    BY <1>1, <1>6, <2>1, MadeIterators
  <2>7. k \in Int
    BY KeysWithin
  <2>8. \/ PlaceIn(Iterator(p, j), FALSE) = FirstIn(KeysFrom(k))
        \/ k \notin DOMAIN Content /\ KeysFrom(k) # {} /\ PlaceIn(Iterator(p, j), FALSE) = Stray
    BY ONLY <1>2, <2>4, <2>5, <2>6, <2>7, BoundFound
  <2>9. \/ Position' = FirstIn({x \in DOMAIN Content : x >= k})
        \/ k \notin DOMAIN Content /\ {x \in DOMAIN Content : x >= k} # {} /\ Position' = Stray
    BY ONLY <2>3, <2>8 DEF KeysFrom
  <2>10. Cursor!BeginAt(k)
    BY ONLY <1>3, <1>6, <2>2, <2>9, CursorSteps, Zenon
  <2> QED BY ONLY <1>4, <2>10
<1> QED BY <1>5, <1>6

\* An answer about the end of the iterator is the cursor's.
LEMMA CursorAsked ==
  ASSUME IterInv, it # NoIter, UNCHANGED <<node, it, adrift>>, NoLoan,
         NEW b \in BOOLEAN, reply' = Answers(b), ~adrift => (b <=> Position = AtEnd)
  PROVE  Moves
<1>1. UNCHANGED Content /\ UNCHANGED Position
  BY ONLY UNCHANGED <<node, it, adrift>>, Still
<1>2. Position # Nowhere /\ (adrift => Position = Adrift)
  BY OffLeaf, PlacesDiffer
<1>3. CASE adrift
  <2>1. Position = Adrift /\ \E a \in BOOLEAN : reply' = Answers(a)
    BY ONLY <1>2, <1>3, b \in BOOLEAN, reply' = Answers(b)
  <2>2. Cursor!IsEnd
    BY ONLY <1>1, <1>2, <2>1, CursorSteps, Zenon
  <2> QED BY ONLY NoLoan, <2>2, CursorMoves
<1>4. CASE ~adrift
  <2>1. b = (Position = AtEnd)
    BY ONLY <1>4, b \in BOOLEAN, ~adrift => (b <=> Position = AtEnd)
  <2>2. reply' = Answers(Position = AtEnd)
    BY ONLY <2>1, reply' = Answers(b), Zenon
  <2>3. Cursor!IsEnd
    BY ONLY <1>1, <1>2, <2>2, CursorSteps, Zenon
  <2> QED BY ONLY NoLoan, <2>3, CursorMoves
<1> QED BY <1>3, <1>4

\* The comparison with End() tells the end, unless the iterator is adrift.
LEMMA CursorEnds ==
  ASSUME IterInv, EndTest \/ EndWalk
  PROVE  Moves
<1>1. fix = Quiet /\ node' = node /\ it # NoIter
  BY DEF EndTest, EndWalk, Callable, IterInv, IterTypes
<1>b. NoLoan
  <2>1. inCall \notin {"key", "rid"} /\ inCall' \notin {"key", "rid"}
    BY DEF EndTest, EndWalk, Callable
  <2> QED BY ONLY <2>1, Loans DEF NoLoan
<1>2. TreeInv /\ LeavesFit(node)
  BY DEF IterInv
<1>3. root = NoPage <=> DOMAIN Content = {}
  BY ONLY <1>1, <1>2, EmptyAnswers
<1>4. ASSUME UNCHANGED <<it, adrift>>, reply' = reply PROVE Moves
  BY ONLY <1>1, <1>4, <1>b, Still, CursorMoves DEF NoLoan
<1>5. CASE EndTest /\ root = NoPage
  <2>1. it' = it /\ adrift' = adrift /\ reply' = Answers(it = Default)
    BY <1>5 DEF EndTest, Reply
  <2>2. PICK b \in BOOLEAN : b = (it = Default)
    OBVIOUS
  <2>3. reply' = Answers(b)
    BY ONLY <2>1, <2>2, Zenon
  <2>4. ASSUME ~adrift PROVE b <=> Position = AtEnd
    <3>1. it = Default
      BY <1>1, <1>2, <1>5, <2>4, QuietCases, EmptyTable DEF IterInv, Calm
    <3>2. Position = PlaceIn(it, FALSE)
      <4>1. adrift = FALSE
        BY <2>4 DEF IterInv, IterTypes
      <4> QED BY ONLY <4>1, Positions
    <3>3. it.page = NoPage
      BY ONLY <3>1 DEF Default, Iterator
    <3>4. Position = AtEnd
      BY ONLY <1>1, <3>2, <3>3 DEF PlaceIn
    <3> QED BY ONLY <2>2, <3>1, <3>4
  <2> QED BY <1>1, <1>b, <2>1, <2>3, <2>4, CursorAsked
<1>6. CASE EndTest /\ root # NoPage
  <2>1. UNCHANGED <<it, adrift>> /\ reply' = reply
    BY <1>6 DEF EndTest
  <2> QED BY ONLY <1>4, <2>1
<1>7. CASE EndWalk /\ root = NoPage
  <2>1. it' = it /\ adrift' = adrift /\ reply' = Throws
    BY <1>7 DEF EndWalk, Reply
  <2>2. UNCHANGED Content /\ UNCHANGED Position /\ DOMAIN Content = {}
    BY ONLY <1>1, <1>3, <1>7, <2>1, Still
  <2>3. Cursor!EndThrows
    BY ONLY <2>1, <2>2, CursorSteps, Zenon
  <2> QED BY ONLY <1>b, <2>3, CursorMoves
<1>8. CASE EndWalk /\ root # NoPage
  <2>1. it' = it /\ adrift' = adrift /\ reply' = Answers(it = EndOf)
    BY <1>8 DEF EndWalk, Reply
  <2>2. PICK b \in BOOLEAN : b = (it = EndOf)
    OBVIOUS
  <2>3. reply' = Answers(b)
    BY ONLY <2>1, <2>2, Zenon
  <2>4. ASSUME ~adrift PROVE it = EndOf <=> Position = AtEnd
    <3>1. it.page \in LeavesIn(node) /\ it.page # NoPage
      BY <1>1, <1>8, <2>4, NotAnIterator DEF IterInv, Calm, LeavesIn
    <3>2. /\ it \in Iterators /\ ~it.last
          /\ Position = AtEnd <=> IsLast(it) /\ it.index = Len(EntriesAt(it)) + 1
      BY ONLY IterInv, <1>1, <2>4, <3>1, OnLeaf
    <3>3. EntriesAt(it) = node[it.page].entries /\ (IsLast(it) <=> node[it.page].next = NoPage)
      BY ONLY IterInv, <1>1, <3>1, SeenFacts
    <3>4. PICK lo, hi, ht : WholeBy(node, root, lo, hi, ht)
      BY <1>1, <1>2, <1>8, QuietCases DEF Whole
    <3>5. node[it.page].next = NoPage <=> it.page = LastLeaf
      BY ONLY <3>1, <3>4, OnlyLast
    <3>6. PICK l, n : l = LastLeaf /\ n = Len(node[l].entries) + 1
      OBVIOUS
    <3>7. EndOf = [page |-> l, index |-> n, last |-> FALSE]
      BY ONLY <3>6 DEF EndOf, Iterator
    <3>8. it.last = FALSE
      BY ONLY <3>2 DEF Iterators
    <3>9. it = EndOf <=> it.page = l /\ it.index = n
      BY ONLY <3>2, <3>7, <3>8 DEF Iterators
    <3> QED BY ONLY <3>2, <3>3, <3>5, <3>6, <3>9
  <2>5. ~adrift => (b <=> Position = AtEnd)
    BY ONLY <2>2, <2>4
  <2> QED BY <1>1, <1>b, <2>1, <2>3, <2>5, CursorAsked
<1> QED BY <1>5, <1>6, <1>7, <1>8

\* So does IsEnd.
LEMMA CursorIsEnd ==
  ASSUME IterInv, IsEnd
  PROVE  Moves
<1>1. /\ it # NoIter /\ it.page # NoPage /\ UNCHANGED <<node, it, adrift>>
      /\ reply' = Answers(Exhausted(it))
  BY DEF IsEnd, Usable, Reply
<1>b. NoLoan
  <2>1. inCall \notin {"key", "rid"} /\ inCall' \notin {"key", "rid"}
    BY DEF IsEnd, Usable
  <2> QED BY ONLY <2>1, Loans DEF NoLoan
<1>2. PICK b \in BOOLEAN : b = Exhausted(it)
  BY DEF Exhausted
<1>3. reply' = Answers(b)
  BY ONLY <1>1, <1>2, Zenon
<1>4. ~adrift => (b <=> Position = AtEnd)
  BY <1>1, <1>2, OnLeaf
<1> QED BY <1>1, <1>b, <1>3, <1>4, CursorAsked

\* operator* lends what the cursor is at, or throws.
LEMMA CursorLends ==
  ASSUME IterInv, DerefTest
  PROVE  Moves
<1>1. /\ it # NoIter /\ it.page # NoPage /\ UNCHANGED <<node, it, adrift>> /\ inCall = "none"
  BY DEF DerefTest, Usable, Reply
<1>2. UNCHANGED Content /\ UNCHANGED Position
  BY ONLY <1>1, Still
<1>3. Loan = "none"
  BY ONLY <1>1, Loans
<1>4. adrift => Position = Adrift
  BY <1>1, OffLeaf
<1>5. CASE it.index \in DOMAIN EntriesAt(it)
  <2>1. reply' = reply /\ inCall' = "key" /\ steady' = steady
    BY <1>5 DEF DerefTest, refVars
  <2>2. PICK k : k = EntriesAt(it)[it.index].key
    OBVIOUS
  <2>3. ~adrift => Position = At(k)
    BY <1>1, <1>5, <2>2, OnLeaf
  <2>4. Position = At(k) \/ Position = Adrift
    BY ONLY <1>4, <2>3
  <2>5. steady
    BY <1>1 DEF IterInv, Unlent, Lent
  <2>6. Loan' = "good"
    BY ONLY <2>1, <2>5, Loans
  <2>7. UNCHANGED <<Content, Position, reply>>
    BY ONLY <1>2, <2>1
  <2>8. Cursor!Lend
    BY ONLY <1>3, <2>4, <2>6, <2>7, CursorSteps, Zenon
  <2> QED BY ONLY <2>8, CursorMoves
<1>6. CASE it.index \notin DOMAIN EntriesAt(it)
  <2>1. reply' = Throws /\ inCall' = "none"
    BY <1>1, <1>6 DEF DerefTest, Reply
  <2>2. ~adrift => Position \in {AtEnd, Stray}
    BY <1>1, <1>6, OnLeaf
  <2>3. Position \in {AtEnd, Stray, Adrift}
    BY ONLY <1>4, <2>2
  <2>4. Cursor!Refuse
    BY ONLY <1>2, <2>1, <2>3, CursorSteps, Zenon
  <2>5. NoLoan
    BY ONLY <1>3, <2>1, Loans DEF NoLoan
  <2> QED BY ONLY <2>4, <2>5, CursorMoves
<1> QED BY <1>5, <1>6

\* What is lent may become void; read before that, it is the entry the cursor is
\* at, or, adrift, one entry of the map.
LEMMA CursorReads ==
  ASSUME IterInv, Displaced \/ DerefKey \/ DerefRid
  PROVE  Moves
<1>1. /\ it # NoIter /\ it.page # NoPage /\ UNCHANGED <<node, it, adrift>> /\ inCall \in {"key", "rid"}
  BY DEF Displaced, DerefKey, DerefRid, Lent, Reply, IterInv, IterTypes, vars
<1>2. UNCHANGED Content /\ UNCHANGED Position
  BY ONLY <1>1, Still
<1>3. Loan = (IF steady THEN "good" ELSE "void")
  BY ONLY <1>1, Loans
<1>4. Loan # "none"
  <2>1. "good" # "none" /\ "void" # "none"
    OBVIOUS
  <2> QED BY ONLY <1>3, <2>1
<1>5. CASE Displaced
  <2>1. inCall' = inCall /\ steady' = FALSE /\ reply' = reply
    BY <1>5 DEF Displaced, vars
  <2>2. Loan' = "void"
    BY ONLY <1>1, <2>1, Loans
  <2>3. UNCHANGED <<Content, Position, reply>>
    BY ONLY <1>2, <2>1
  <2>4. Cursor!Displace
    BY ONLY <1>4, <2>2, <2>3, CursorSteps, Zenon
  <2> QED BY ONLY <2>4, CursorMoves
<1>6. CASE DerefKey
  <2>1. inCall' = "rid" /\ steady' = steady /\ reply' = reply
    BY <1>6 DEF DerefKey, vars
  <2>2. Loan' = Loan
    BY ONLY <1>3, <2>1, Loans
  <2> QED BY ONLY <1>2, <2>1, <2>2, CursorMoves
<1>7. CASE DerefRid
  <2>1. inCall = "rid" /\ inCall' = "none"
    BY <1>7 DEF DerefRid
  <2>2. PICK r \in Found(Slot.rid) : reply' = [key |-> seen, rid |-> r]
    BY <1>7 DEF DerefRid, Reply
  <2>3. Loan' = "none"
    BY ONLY <2>1, Loans
  <2>4. ASSUME Cursor!Read PROVE Moves
    BY ONLY <2>4, CursorMoves
  <2>5. CASE ~steady
    <3>1. Loan = "void"
      BY ONLY <1>3, <2>5
    <3>2. DOMAIN reply' = {"key", "rid"}
      BY ONLY <2>2
    <3>3. Cursor!Read
      BY ONLY <1>2, <1>4, <2>3, <3>1, <3>2, CursorSteps, Zenon
    <3> QED BY ONLY <2>4, <3>3
  <2>6. CASE steady
    <3>1. it.index \in DOMAIN EntriesAt(it) /\ seen = EntriesAt(it)[it.index].key
      BY <2>1, <2>6 DEF IterInv, Firm, Lent
    <3>2. PICK e, k : e = EntriesAt(it)[it.index] /\ k = e.key
      OBVIOUS
    <3>3. r = e.rid
      BY <2>6, <3>1, <3>2 DEF Found, Slot
    <3>4. /\ it.page \in LeavesIn(node) /\ EntriesAt(it) = node[it.page].entries
          /\ it.index \in 1..Len(node[it.page].entries)
      <4>1. it.page # Gone
        <5>1. DOMAIN <<>> = {}
          OBVIOUS
        <5> QED BY <5>1, <3>1 DEF EntriesAt
      <4> QED BY <4>1, <1>1, <3>1, SeenFacts
    <3>5. k \in DOMAIN Content /\ Content[k] = e.rid
      BY <3>2, <3>4, HeldKey DEF IterInv
    <3>6. reply' = [key |-> k, rid |-> Content[k]]
      BY ONLY <2>2, <3>1, <3>2, <3>3, <3>5
    <3>7. ~adrift => Position = At(k)
      <4>1. ~adrift => Position = At(EntriesAt(it)[it.index].key)
        BY <1>1, <3>1, OnLeaf
      <4> QED BY ONLY <3>2, <4>1
    <3>8. Position = At(k) \/ Position = Adrift
      <4>1. adrift => Position = Adrift
        BY <1>1, OffLeaf
      <4> QED BY ONLY <3>7, <4>1
    <3>9. UNCHANGED <<Content, Position>>
      BY ONLY <1>2
    <3>10. Cursor!Read
      BY ONLY <1>4, <2>3, <3>5, <3>6, <3>8, <3>9, CursorSteps, Zenon
    <3> QED BY ONLY <2>4, <3>10
  <2> QED BY ONLY <2>5, <2>6
<1> QED BY <1>5, <1>6, <1>7

\* operator++ moves the cursor to the next key; behind the last one it throws.
LEMMA CursorAdvances ==
  ASSUME IterInv, AdvanceTest \/ AdvanceMove
  PROVE  Moves
<1>1. it # NoIter /\ it.page # NoPage /\ node' = node /\ adrift' = adrift
  BY DEF AdvanceTest, AdvanceMove, Usable, Reply, IterInv, IterTypes
<1>b. NoLoan
  <2>1. inCall \notin {"key", "rid"} /\ inCall' \notin {"key", "rid"}
    BY DEF AdvanceTest, AdvanceMove, Usable
  <2> QED BY ONLY <2>1, Loans DEF NoLoan
<1>2. UNCHANGED Content /\ (it' = it => UNCHANGED Position) /\ Position' = PlaceIn(it', adrift')
  BY ONLY <1>1, Still
<1>3. ASSUME Cursor!Advance PROVE Moves
  BY ONLY <1>b, <1>3, CursorMoves
<1>4. adrift => Position = Adrift
  BY <1>1, OffLeaf
<1>5. /\ it.index \in Nat /\ it.index >= 1 /\ Len(EntriesAt(it)) \in Nat
      /\ DOMAIN EntriesAt(it) = 1..Len(EntriesAt(it))
  BY <1>1, SeenFacts
<1>6. ASSUME Position \in {AtEnd, Stray, Adrift}, it' = it, reply' = Throws PROVE Moves
  <2>1. Cursor!Advance
    BY ONLY <1>2, <1>6, CursorSteps, Zenon
  <2> QED BY ONLY <1>3, <2>1
<1>7. ASSUME Position \in {Stray, Adrift}, UNCHANGED Position, reply' = Done PROVE Moves
  <2>1. Cursor!Advance
    BY ONLY <1>2, <1>7, CursorSteps, Zenon
  <2> QED BY ONLY <1>3, <2>1
<1>8. CASE AdvanceTest /\ Exhausted(it)
  <2>1. it' = it /\ reply' = Throws
    BY <1>8 DEF AdvanceTest, Reply
  <2>2. ~adrift => Position = AtEnd
    BY <1>1, <1>8, OnLeaf
  <2>3. Position \in {AtEnd, Stray, Adrift}
    BY ONLY <1>4, <2>2
  <2> QED BY ONLY <1>6, <2>1, <2>3
<1>9. CASE AdvanceTest /\ ~Exhausted(it)
  <2>1. it' = it /\ reply' = reply
    BY <1>9 DEF AdvanceTest
  <2> QED BY ONLY <1>2, <1>b, <2>1, CursorMoves DEF NoLoan
<1>10. CASE AdvanceMove /\ it.index > Len(EntriesAt(it)) + 1
  <2>1. it' = it /\ reply' = Throws
    BY <1>10 DEF AdvanceMove, Reply
  <2>2. it.index \notin DOMAIN EntriesAt(it)
    BY ONLY <1>5, <1>10
  <2>3. ~adrift => Position \in {AtEnd, Stray}
    BY <1>1, <2>2, OnLeaf
  <2>4. Position \in {AtEnd, Stray, Adrift}
    BY ONLY <1>4, <2>3
  <2> QED BY ONLY <1>6, <2>1, <2>4
<1>11. CASE AdvanceMove /\ ~(it.index > Len(EntriesAt(it)) + 1)
  <2>1. inCall = "move" /\ it' = Moved(it) /\ reply' = Done
    BY <1>11 DEF AdvanceMove
  <2>2. it.index <= Len(EntriesAt(it)) + 1
    BY ONLY <1>5, <1>11
  <2>3. it' \in Iterators /\ it' # NoIter
    BY <2>1, <2>2, MovedFacts
  <2>4. CASE adrift
    <3>1. Position' = Adrift
      BY ONLY <1>1, <1>2, <2>3, <2>4 DEF PlaceIn
    <3> QED BY ONLY <1>4, <1>7, <2>1, <2>4, <3>1
  <2>5. CASE ~adrift /\ it.index \in DOMAIN EntriesAt(it)
    <3>1. PICK k : k = EntriesAt(it)[it.index].key
      OBVIOUS
    <3>2. Position = At(k)
      BY <1>1, <2>5, <3>1, OnLeaf
    <3>3. PlaceIn(Moved(it), FALSE) = FirstIn(KeysAfter(k))
      BY <1>1, <2>5, <3>1, AfterFound
    <3>4. adrift = FALSE
      BY <2>5 DEF IterInv, IterTypes
    <3>5. Position' = FirstIn({j \in DOMAIN Content : j > k})
      BY ONLY <1>1, <1>2, <2>1, <3>3, <3>4 DEF KeysAfter
    <3>6. Cursor!Advance
      BY ONLY <1>2, <2>1, <3>2, <3>5, CursorSteps, Zenon
    <3> QED BY ONLY <1>3, <3>6
  <2>6. CASE ~adrift /\ it.index \notin DOMAIN EntriesAt(it)
    <3>1. it.index = Len(EntriesAt(it)) + 1
      BY ONLY <1>5, <2>2, <2>6
    <3>2. ~Exhausted(it)
      BY <1>1, <2>1, <2>6 DEF IterInv, Calm
    <3>3. Position = Stray /\ ~IsLast(it) /\ it \in Iterators /\ it.page \in LeavesIn(node)
      BY <1>1, <2>6, <3>1, <3>2, OnLeaf
    <3>4. EntriesAt(it) = node[it.page].entries
      BY <1>1, <3>3, SeenFacts
    <3>5. it' = [it EXCEPT !.index = it.index + 1]
      <4>1. it.index # Len(EntriesAt(it))
        <5>1. \A n \in Nat : n + 1 # n
          OBVIOUS
        <5> QED BY ONLY <1>5, <3>1, <5>1
      <4> QED BY <2>1, <4>1 DEF Moved
    <3>6. PICK i : i = it'
      OBVIOUS
    <3>7. i \in Iterators /\ i.page = it.page /\ i.index = it.index + 1
      BY ONLY <2>3, <3>3, <3>5, <3>6 DEF Iterators
    <3>8. i.index > Len(node[i.page].entries) /\ i.index # Len(node[i.page].entries) + 1
      BY ONLY <1>5, <3>1, <3>4, <3>7
    <3>9. TreeInv /\ LeavesFit(node) /\ i.page \in LeavesIn(node)
      BY ONLY IterInv, <3>3, <3>7 DEF IterInv
    <3>10. PlaceIn(i, FALSE) = Stray
      BY ONLY <3>7, <3>8, <3>9, PlaceCases
    <3>11. adrift = FALSE
      BY <2>6 DEF IterInv, IterTypes
    <3>12. Position' = Stray
      BY ONLY <1>1, <1>2, <3>6, <3>10, <3>11
    <3> QED BY ONLY <1>7, <2>1, <3>3, <3>12
  <2> QED BY ONLY <2>4, <2>5, <2>6
<1> QED BY <1>8, <1>9, <1>10, <1>11

\* The steps of the tree and of the iterator are steps of the cursor, or stutter.
LEMMA CursorStep ==
  ASSUME IterInv, [IterNext]_allVars
  PROVE  [Cursor!Next]_(Cursor!vars)
<1>1. CASE TreeStep
  BY <1>1, CursorTree DEF Moves
<1>2. CASE BeginTest \/ BeginWalk
  BY <1>2, CursorBegins DEF Moves
<1>3. ASSUME NEW k \in Keys, BeginAt(k) PROVE Moves
  BY <1>3, CursorBeginsAt
<1>4. CASE EndTest \/ EndWalk
  BY <1>4, CursorEnds DEF Moves
<1>5. CASE IsEnd
  BY <1>5, CursorIsEnd DEF Moves
<1>6. CASE DerefTest
  BY <1>6, CursorLends DEF Moves
<1>9. CASE Displaced \/ DerefKey \/ DerefRid
  BY <1>9, CursorReads DEF Moves
<1>7. CASE AdvanceTest \/ AdvanceMove
  BY <1>7, CursorAdvances DEF Moves
<1>8. CASE UNCHANGED allVars
  <2>1. node' = node /\ it' = it /\ adrift' = adrift /\ reply' = reply /\ inCall' = inCall /\ steady' = steady
    BY <1>8 DEF allVars, vars, iterVars, refVars
  <2>2. Loan' = Loan
    BY ONLY <2>1, Loans
  <2>3. Moves
    BY ONLY <2>1, <2>2, Still, CursorMoves
  <2> QED BY <2>3 DEF Moves
<1> QED BY <1>1, <1>2, <1>3, <1>4, <1>5, <1>6, <1>7, <1>8, <1>9 DEF IterNext, Moves

\* Before any call there is no iterator over the empty map.
LEMMA CursorStart ==
  ASSUME IterInit
  PROVE  Cursor!Init
<1>1. Map!Init /\ Position = Nowhere /\ Loan = "none"
  BY MapStart, OffLeaf DEF IterInit, Loan, Lent
<1>2. Cursor!Map!Init
  BY ONLY <1>1, Zenon DEF Cursor!Map!Init, Map!Init, Cursor!Map!Answers, Map!Answers
<1> QED BY ONLY <1>1, <1>2, Zenon DEF Cursor!Init, Cursor!None, Nowhere

\* ImplementsIndexCursor: while nobody changes the tree an iterator visits the
\* keys of the map in order, each once, and then it is at End(); what is read
\* through its references while the leaf stays as it was and where it was is the
\* entry it is at, or, if the tree has changed before, one entry of the map.
THEOREM IndexCursorImplemented == IterSpec => ImplementsIndexCursor
<1>1. IterInit => Cursor!Init
  BY CursorStart
<1>2. IterInv /\ [IterNext]_allVars => [Cursor!Next]_(Cursor!vars)
  BY CursorStep
<1> QED BY <1>1, <1>2, IteratorInvariant, PTL DEF IterSpec, ImplementsIndexCursor, Cursor!Spec
=============================================================================
