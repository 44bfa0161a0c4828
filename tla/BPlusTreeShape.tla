---------------------------- MODULE BPlusTreeShape ----------------------------
(*****************************************************************************)
(* What a table of nodes has to look like, and what each change of it does.  *)
(* The invariant is stated over any table t and root rt, so that the tables  *)
(* between two edits can be spoken of too, and with functions of the pages   *)
(* that the tree does not keep but that exist whenever it is in order: lo,   *)
(* hi, the bounds of the keys a node answers for, and ht, its height above   *)
(* the leaves.  A node that was split off and has no parent yet is pending;  *)
(* a redistribution is taken apart into a merge and a cut.                   *)
(*****************************************************************************)
EXTENDS BPlusTree, SequenceFacts, FiniteSetTheorems

-----------------------------------------------------------------------------
(* The binary search                                                       *)

\* The keys of a node are strictly ascending.
Ascending(keys) == \A i, j \in 1..Len(keys) : i < j => keys[i] < keys[j]

\* i is the place of k among keys: those before it are smaller, the others are not.
PlaceOf(keys, k, i) ==
    /\ i \in 1..(Len(keys) + 1)
    /\ \A j \in 1..Len(keys) : (j < i => keys[j] < k) /\ (j >= i => k <= keys[j])

Windows(keys) == (1..(Len(keys) + 1)) \X (1..(Len(keys) + 1))

\* One round of the search in the window w, g being what the next round finds.
Round(keys, k, g, w) ==
    LET l == w[1]
        r == w[2]
        mid == l + ((r - l) \div 2)
    IN  CASE l >= r        -> l
          [] l < r /\ k = keys[mid] -> mid
          [] l < r /\ k < keys[mid] -> g[<<l, mid>>]
          [] OTHER         -> g[<<mid + 1, r>>]

\* What a round does, case by case.
LEMMA RoundCases ==
  ASSUME NEW keys, NEW k \in Int, NEW g, NEW l \in Int, NEW r \in Int, NEW mid, mid = l + ((r - l) \div 2)
  PROVE  /\ l >= r => Round(keys, k, g, <<l, r>>) = l
         /\ l < r /\ k = keys[mid] => Round(keys, k, g, <<l, r>>) = mid
         /\ l < r /\ k # keys[mid] /\ k < keys[mid]
               => Round(keys, k, g, <<l, r>>) = g[<<l, mid>>]
         /\ l < r /\ k # keys[mid] /\ ~(k < keys[mid])
               => Round(keys, k, g, <<l, r>>) = g[<<mid + 1, r>>]
<1> DEFINE w == <<l, r>>
<1>1. w[1] = l /\ w[2] = r /\ l + ((w[2] - w[1]) \div 2) = mid
  OBVIOUS
<1>2. CASE l >= r
  <2>1. ~(l < r)
    BY <1>2
  <2> QED BY <1>1, <1>2, <2>1, Zenon DEF Round
<1>3. CASE l < r
  <2>1. ~(l >= r)
    BY <1>3
  <2>2. CASE k = keys[mid]
    <3>1. ~(k < keys[mid])
      BY <2>2
    <3> QED BY <3>1, <1>1, <1>3, <2>1, <2>2, Zenon DEF Round
  <2>3. CASE k # keys[mid] /\ k < keys[mid]
    BY <1>1, <1>3, <2>1, <2>3, Zenon DEF Round
  <2>4. CASE k # keys[mid] /\ ~(k < keys[mid])
    BY <1>1, <1>3, <2>1, <2>4, Zenon DEF Round
  <2> QED BY <2>1, <2>2, <2>3, <2>4
<1>4. l >= r \/ l < r
  OBVIOUS
<1> QED BY <1>2, <1>3, <1>4

\* The middle of a window lies in it.
LEMMA Middle ==
  ASSUME NEW l \in Int, NEW r \in Int, l < r, NEW mid, mid = l + ((r - l) \div 2)
  PROVE  mid \in Int /\ l <= mid /\ mid < r
OBVIOUS

\* The recursion of KeyIndex ends: the window shrinks with every round.
LEMMA SearchDefined ==
  ASSUME NEW keys \in Seq(Int), NEW k \in Int
  PROVE  \E g : /\ g = [w \in Windows(keys) |-> Round(keys, k, g, w)]
                /\ KeyIndex(keys, k) = g[<<1, Len(keys) + 1>>]
<1> DEFINE N == Len(keys) + 1
           D == Windows(keys)
           R == 1..N
           rank == [w \in D |-> IF w[1] >= w[2] THEN 0 ELSE w[2] - w[1]]
           B == [f \in [D -> R] |-> [w \in D |-> Round(keys, k, f, w)]]
           Is(g) == g = [w \in D |-> Round(keys, k, g, w)]
<1>1. N \in Nat /\ R # {}
  <2>1. Len(keys) \in Nat
    OBVIOUS
  <2>2. N \in Nat /\ 1 \in R
    BY <2>1
  <2> QED BY <2>2
<1>2. rank \in [D -> 0..N]
  BY <1>1 DEF Windows
<1>3. ASSUME NEW f \in [D -> R], NEW g \in [D -> R], NEW w \in D,
             \A y \in D : rank[y] < rank[w] => f[y] = g[y]
      PROVE  Round(keys, k, f, w) = Round(keys, k, g, w) /\ Round(keys, k, f, w) \in R
  <2>1. PICK l \in 1..N, r \in 1..N : w = <<l, r>>
    BY DEF Windows
  <2>2. PICK mid : mid = l + ((r - l) \div 2)
    OBVIOUS
  <2>3. l \in Int /\ r \in Int /\ rank[w] = IF l >= r THEN 0 ELSE r - l
    BY <1>1, <2>1
  <2>4. CASE l >= r
    <3> HIDE DEF D, rank
    <3>1. Round(keys, k, f, <<l, r>>) = l /\ Round(keys, k, g, <<l, r>>) = l
      BY <2>2, <2>3, <2>4, RoundCases
    <3> QED BY <2>1, <3>1
  <2>5. CASE l < r
    <3>1. mid \in Int /\ l <= mid /\ mid < r
      BY <2>2, <2>3, <2>5, Middle
    <3>2. mid \in 1..N /\ mid + 1 \in 1..N
      BY <3>1, <1>1, <2>1
    <3>3. <<l, mid>> \in D /\ <<mid + 1, r>> \in D
      BY <3>2, <2>1 DEF Windows
    <3>4. rank[<<l, mid>>] < rank[w]
      <4>1. rank[<<l, mid>>] = IF l >= mid THEN 0 ELSE mid - l
        BY <3>3
      <4> HIDE DEF rank
      <4> QED BY <4>1, <2>3, <2>5, <3>1
    <3>5. rank[<<mid + 1, r>>] < rank[w]
      <4>1. rank[<<mid + 1, r>>] = IF mid + 1 >= r THEN 0 ELSE r - (mid + 1)
        BY <3>3
      <4> HIDE DEF rank
      <4> QED BY <4>1, <2>3, <2>5, <3>1
    <3>6. f[<<l, mid>>] = g[<<l, mid>>] /\ f[<<mid + 1, r>>] = g[<<mid + 1, r>>]
      BY <3>3, <3>4, <3>5, <1>3
    <3> HIDE DEF rank, D, R
    <3>7. f[<<l, mid>>] \in R /\ f[<<mid + 1, r>>] \in R
      BY <3>3
    <3>8. mid \in R
      BY <3>2 DEF R
    <3>9. /\ k = keys[mid] => Round(keys, k, f, <<l, r>>) = mid /\ Round(keys, k, g, <<l, r>>) = mid
          /\ k # keys[mid] /\ k < keys[mid] => /\ Round(keys, k, f, <<l, r>>) = f[<<l, mid>>]
                                              /\ Round(keys, k, g, <<l, r>>) = g[<<l, mid>>]
          /\ k # keys[mid] /\ ~(k < keys[mid]) => /\ Round(keys, k, f, <<l, r>>) = f[<<mid + 1, r>>]
                                                 /\ Round(keys, k, g, <<l, r>>) = g[<<mid + 1, r>>]
      BY <2>2, <2>3, <2>5, RoundCases, SMTT(30)
    <3> QED BY <2>1, <3>6, <3>7, <3>8, <3>9
  <2> QED BY <2>3, <2>4, <2>5
<1>4. B \in [[D -> R] -> [D -> R]]
  BY <1>3
<1>5. \A f, g \in [D -> R], x \in D :
         (\A y \in D : rank[y] < rank[x] => f[y] = g[y]) => B[f][x] = B[g][x]
  BY <1>3
<1> HIDE DEF B, rank, D, R, N
<1>6. \E f \in [D -> R] : f = B[f]
  <2>1. Recursive(D, R, N, rank, B)
    BY <1>1, <1>2, <1>4, <1>5 DEF Recursive
  <2> QED BY <2>1, RankRecursion
<1>7. \E f : Is(f)
  BY <1>6 DEF B
<1>8. Is(CHOOSE f : Is(f))
  BY <1>7
<1>9. KeyIndex(keys, k) = (CHOOSE f : Is(f))[<<1, Len(keys) + 1>>]
  BY Zenon DEF KeyIndex, D, Windows, Round
<1> QED BY <1>8, <1>9 DEF D

\* KeyIndex finds the place of a key among ascending keys.
LEMMA SearchFinds ==
  ASSUME NEW keys \in Seq(Int), Ascending(keys), NEW k \in Int
  PROVE  PlaceOf(keys, k, KeyIndex(keys, k))
<1> DEFINE n == Len(keys)
<1>1. PICK g : /\ g = [w \in Windows(keys) |-> Round(keys, k, g, w)]
               /\ KeyIndex(keys, k) = g[<<1, Len(keys) + 1>>]
  BY SearchDefined
<1>2. n \in Nat /\ \A j \in 1..n : keys[j] \in Int
  OBVIOUS
<1>3. \A l, r \in 1..(n + 1) : g[<<l, r>>] = Round(keys, k, g, <<l, r>>)
  <2> SUFFICES ASSUME NEW l \in 1..(n + 1), NEW r \in 1..(n + 1)
               PROVE  g[<<l, r>>] = Round(keys, k, g, <<l, r>>)
    OBVIOUS
  <2>1. <<l, r>> \in Windows(keys)
    BY DEF Windows
  <2>2. [w \in Windows(keys) |-> Round(keys, k, g, w)][<<l, r>>] = Round(keys, k, g, <<l, r>>)
    BY <2>1
  <2> QED BY <2>2, <1>1
<1> HIDE DEF n
<1>0. ASSUME NEW l \in 1..(n + 1), NEW r \in 1..(n + 1), l \in Int, r \in Int,
             NEW mid, mid = l + ((r - l) \div 2)
      PROVE  /\ l >= r => g[<<l, r>>] = l
             /\ l < r /\ k = keys[mid] => g[<<l, r>>] = mid
             /\ l < r /\ k # keys[mid] /\ k < keys[mid] => g[<<l, r>>] = g[<<l, mid>>]
             /\ l < r /\ k # keys[mid] /\ ~(k < keys[mid]) => g[<<l, r>>] = g[<<mid + 1, r>>]
  <2>1. g[<<l, r>>] = Round(keys, k, g, <<l, r>>)
    BY <1>3
  <2>2. /\ l >= r => Round(keys, k, g, <<l, r>>) = l
        /\ l < r /\ k = keys[mid] => Round(keys, k, g, <<l, r>>) = mid
        /\ l < r /\ k # keys[mid] /\ k < keys[mid] => Round(keys, k, g, <<l, r>>) = g[<<l, mid>>]
        /\ l < r /\ k # keys[mid] /\ ~(k < keys[mid])
              => Round(keys, k, g, <<l, r>>) = g[<<mid + 1, r>>]
    BY <1>0, RoundCases
  <2> QED BY <2>1, <2>2
<1> DEFINE Found(l, r, i) ==
             /\ i \in l..r
             /\ \A j \in 1..n : ((l <= j /\ j < i) => keys[j] < k)
                              /\ ((i <= j /\ j < r) => k <= keys[j])
           All(d) == \A l, r \in 1..(n + 1) : l <= r /\ r - l <= d => Found(l, r, g[<<l, r>>])
           S == {d \in Nat : All(d)}
<1>4. 0 \in S
  <2> SUFFICES ASSUME NEW l \in 1..(n + 1), NEW r \in 1..(n + 1), l <= r, r - l <= 0
               PROVE  Found(l, r, g[<<l, r>>])
    OBVIOUS
  <2>1. l \in Int /\ r \in Int /\ l = r /\ l >= r
    BY <1>2
  <2>2. PICK mid : mid = l + ((r - l) \div 2)
    OBVIOUS
  <2>3. g[<<l, r>>] = l
    BY <1>0, <2>1, <2>2
  <2> QED BY <2>1, <2>3, <1>2
<1>5. ASSUME NEW d \in Nat, d \in S PROVE d + 1 \in S
  <2> SUFFICES ASSUME NEW l \in 1..(n + 1), NEW r \in 1..(n + 1), l <= r, r - l <= d + 1
               PROVE  Found(l, r, g[<<l, r>>])
    OBVIOUS
  <2>0. l \in Int /\ r \in Int /\ d \in Int
    BY <1>2
  <2>1. CASE r - l <= d
    BY <2>1, <1>5
  <2>2. CASE l < r
    <3>1. PICK mid : mid = l + ((r - l) \div 2)
      OBVIOUS
    <3>2. mid \in Int /\ l <= mid /\ mid < r
      BY <2>0, <2>2, <3>1, Middle
    <3>3. mid \in 1..n /\ mid + 1 \in 1..(n + 1) /\ mid \in 1..(n + 1)
      BY <3>2, <1>2
    <3>4. keys[mid] \in Int
      BY <3>3, <1>2
    <3>5. \A j \in 1..n : (j < mid => keys[j] < keys[mid]) /\ (mid < j => keys[mid] < keys[j])
      BY <3>3 DEF Ascending, n
    <3>6. CASE k = keys[mid]
      <4>1. g[<<l, r>>] = mid
        BY <1>0, <2>0, <2>2, <3>1, <3>6
      <4>2. \A j \in 1..n : (j < mid => keys[j] < k) /\ (mid <= j => k <= keys[j])
        BY <1>2, <3>2, <3>4, <3>5, <3>6
      <4> QED BY <4>1, <4>2, <3>2, <2>0
    <3>7. CASE k < keys[mid] /\ k # keys[mid]
      <4>1. g[<<l, r>>] = g[<<l, mid>>]
        BY <1>0, <2>0, <2>2, <3>1, <3>7
      <4>2. mid - l <= d
        BY <2>0, <3>2
      <4>3. Found(l, mid, g[<<l, mid>>])
        BY <4>2, <3>2, <3>3, <1>5
      <4>4. \A j \in 1..n : mid <= j => k <= keys[j]
        BY <1>2, <3>2, <3>4, <3>5, <3>7
      <4> QED
        <5>1. PICK i : i = g[<<l, mid>>]
          OBVIOUS
        <5>2. i \in l..r
          BY <5>1, <4>3, <2>0, <3>2
        <5>3. ASSUME NEW j \in 1..n, l <= j, j < i PROVE keys[j] < k
          BY <5>1, <5>3, <4>3
        <5>4. ASSUME NEW j \in 1..n, i <= j, j < r PROVE k <= keys[j]
          <6>1. j < mid \/ mid <= j
            BY <3>2, <1>2
          <6> QED BY <6>1, <5>1, <5>4, <4>3, <4>4
        <5> QED BY <4>1, <5>1, <5>2, <5>3, <5>4
    <3>8. CASE ~(k < keys[mid]) /\ k # keys[mid]
      <4>1. g[<<l, r>>] = g[<<mid + 1, r>>]
        BY <1>0, <2>0, <2>2, <3>1, <3>8
      <4>2. r - (mid + 1) <= d /\ mid + 1 <= r
        BY <2>0, <3>2
      <4>3. Found(mid + 1, r, g[<<mid + 1, r>>])
        BY <4>2, <3>2, <3>3, <1>5
      <4>4. \A j \in 1..n : j <= mid => keys[j] < k
        BY <1>2, <3>2, <3>4, <3>5, <3>8
      <4> QED
        <5>1. PICK i : i = g[<<mid + 1, r>>]
          OBVIOUS
        <5>2. i \in l..r
          BY <5>1, <4>3, <2>0, <3>2
        <5>3. ASSUME NEW j \in 1..n, l <= j, j < i PROVE keys[j] < k
          <6>1. j <= mid \/ mid + 1 <= j
            BY <3>2, <1>2
          <6> QED BY <6>1, <5>1, <5>3, <4>3, <4>4
        <5>4. ASSUME NEW j \in 1..n, i <= j, j < r PROVE k <= keys[j]
          BY <5>1, <5>4, <4>3
        <5> QED BY <4>1, <5>1, <5>2, <5>3, <5>4
    <3>9. k = keys[mid] \/ (k < keys[mid] /\ k # keys[mid]) \/ (~(k < keys[mid]) /\ k # keys[mid])
      OBVIOUS
    <3> HIDE DEF Found
    <3> QED BY ONLY <3>6, <3>7, <3>8, <3>9
  <2>3. r - l <= d \/ l < r
    BY ONLY <2>0, l <= r, d \in Nat
  <2> HIDE DEF Found
  <2> QED BY ONLY <2>1, <2>2, <2>3
<1> HIDE DEF S
<1>6. n \in S
  BY <1>4, <1>5, <1>2, SetInduction
<1>7. Found(1, n + 1, g[<<1, n + 1>>])
  <2>1. 1 \in 1..(n + 1) /\ n + 1 \in 1..(n + 1) /\ 1 <= n + 1 /\ (n + 1) - 1 <= n
    BY ONLY <1>2
  <2> HIDE DEF Found
  <2>2. All(n)
    BY ONLY <1>6 DEF S
  <2> QED BY ONLY <2>1, <2>2
<1> HIDE DEF Found
<1>8. Found(1, n + 1, KeyIndex(keys, k))
  BY <1>1, <1>7 DEF n
<1> QED
  <2>1. PICK i : i = KeyIndex(keys, k)
    OBVIOUS
  <2>2. i \in 1..(n + 1) /\ \A j \in 1..n : (j < i => keys[j] < k) /\ (j >= i => k <= keys[j])
    BY <2>1, <1>8, <1>2 DEF Found
  <2> QED BY <2>1, <2>2 DEF PlaceOf, n

\* Has tells whether the key is there, and it is at its place.
LEMMA HasKey ==
  ASSUME NEW keys \in Seq(Int), Ascending(keys), NEW k \in Int
  PROVE  /\ Has(keys, k) \in BOOLEAN
         /\ Has(keys, k) <=> \E j \in 1..Len(keys) : keys[j] = k
         /\ \A j \in 1..Len(keys) : keys[j] = k => KeyIndex(keys, k) = j
<1>1. PICK i : i = KeyIndex(keys, k)
  OBVIOUS
<1>2. PlaceOf(keys, k, i)
  BY <1>1, SearchFinds
<1>3. Has(keys, k) <=> i <= Len(keys) /\ keys[i] = k
  BY <1>1 DEF Has
<1>4. Len(keys) \in Nat /\ i \in 1..(Len(keys) + 1) /\ \A j \in 1..Len(keys) : keys[j] \in Int
  BY <1>2 DEF PlaceOf
<1>5. ASSUME NEW j \in 1..Len(keys), keys[j] = k PROVE i = j
  <2>1. ~(j < i)
    BY <1>2, <1>4, <1>5 DEF PlaceOf
  <2>2. CASE i < j
    <3>1. i \in 1..Len(keys) /\ keys[i] < k /\ k <= keys[i] /\ keys[i] \in Int
      BY <2>2, <1>2, <1>4, <1>5 DEF PlaceOf, Ascending
    <3> QED BY <3>1
  <2> QED BY <2>1, <2>2, <1>4
<1>6. Has(keys, k) \in BOOLEAN
  BY DEF Has
<1> QED BY <1>1, <1>3, <1>4, <1>5, <1>6

-----------------------------------------------------------------------------
(* Every key is between Low and High.                                      *)

Ends == CHOOSE e \in Int \X Int : e[1] < e[2] /\ \A k \in Keys : e[1] <= k /\ k < e[2]

Low == Ends[1]

High == Ends[2]

\* The bounds that stand for no bound lie outside the keys.
LEMMA KeysWithin ==
  /\ Low \in Int /\ High \in Int /\ Low < High
  /\ \A k \in Keys : k \in Int /\ Low <= k /\ k < High
<1> DEFINE Holds(e) == e[1] < e[2] /\ \A k \in Keys : e[1] <= k /\ k < e[2]
<1>1. \E e \in Int \X Int : Holds(e)
  <2>1. CASE Keys = {}
    <3>1. <<0, 1>> \in Int \X Int /\ Holds(<<0, 1>>)
      BY <2>1
    <3> QED BY <3>1
  <2>2. CASE Keys # {}
    <3>1. PICK first \in Keys, last \in Keys : Keys \subseteq first..last
      BY <2>2, KeysAssumption
    <3>2. first \in Int /\ last \in Int /\ first <= last /\ \A k \in Keys : first <= k /\ k < last + 1
      BY <3>1, TreeAssumption
    <3>3. <<first, last + 1>> \in Int \X Int /\ Holds(<<first, last + 1>>)
      BY <3>2
    <3> QED BY <3>3
  <2> QED BY <2>1, <2>2
<1>2. Ends \in Int \X Int /\ Holds(Ends)
  BY <1>1 DEF Ends
<1> QED BY <1>2, TreeAssumption DEF Low, High

-----------------------------------------------------------------------------
(* The inductive invariant.  Its parts are stated of a table of nodes t,   *)
(* the root page rt, the pending work f of an operation, and three ghost   *)
(* functions: a search for k passes through page p when                    *)
(* lo[p] <= k < hi[p], and p is ht[p] levels above the leaves.             *)

Nodes ==
    [kind : {"leaf"}, entries : Seq(Entries), next : Pages \cup {NoPage}]
    \cup {n \in [kind : {"internal"}, keys : Seq(Keys), kids : Seq(Pages)] :
             Len(n.kids) = Len(n.keys) + 1}
    \cup {Unused}

LeavesIn(t) == {p \in Pages : t[p].kind = "leaf"}

InternalsIn(t) == {p \in Pages : t[p].kind = "internal"}

NodesIn(t) == LeavesIn(t) \cup InternalsIn(t)

FreeIn(t) == {p \in Pages : t[p] = Unused}

\* What a leaf looks like.
LEMMA LeafNode ==
  ASSUME NEW t \in [Pages -> Nodes], NEW p \in LeavesIn(t)
  PROVE  /\ p \in Pages /\ t[p].kind = "leaf"
         /\ t[p].entries \in Seq(Entries) /\ t[p].next \in Pages \cup {NoPage}
         /\ t[p] = Leaf(t[p].entries, t[p].next)
<1>1. p \in Pages /\ t[p].kind = "leaf" /\ t[p] \in Nodes
  BY DEF LeavesIn
<1>2. t[p] \in [kind : {"leaf"}, entries : Seq(Entries), next : Pages \cup {NoPage}]
  BY <1>1 DEF Nodes, Unused
<1> QED BY <1>1, <1>2 DEF Leaf

\* What an internal node looks like.
LEMMA InternalNode ==
  ASSUME NEW t \in [Pages -> Nodes], NEW p \in InternalsIn(t)
  PROVE  /\ p \in Pages /\ t[p].kind = "internal"
         /\ t[p].keys \in Seq(Keys) /\ t[p].kids \in Seq(Pages)
         /\ Len(t[p].kids) = Len(t[p].keys) + 1
         /\ t[p] = Internal(t[p].keys, t[p].kids)
<1>1. p \in Pages /\ t[p].kind = "internal" /\ t[p] \in Nodes
  BY DEF InternalsIn
<1>2. /\ t[p] \in [kind : {"internal"}, keys : Seq(Keys), kids : Seq(Pages)]
      /\ Len(t[p].kids) = Len(t[p].keys) + 1
  BY <1>1 DEF Nodes, Unused
<1> QED BY <1>1, <1>2 DEF Internal

\* A leaf made of entries and a link.
LEMMA MakeLeaf ==
  ASSUME NEW e \in Seq(Entries), NEW n \in Pages \cup {NoPage}
  PROVE  /\ Leaf(e, n) \in Nodes
         /\ Leaf(e, n).kind = "leaf" /\ Leaf(e, n).entries = e /\ Leaf(e, n).next = n
         /\ Leaf(e, n) # Unused
BY DEF Leaf, Nodes, Unused

\* An internal node made of keys and one more child.
LEMMA MakeInternal ==
  ASSUME NEW keys \in Seq(Keys), NEW kids \in Seq(Pages), Len(kids) = Len(keys) + 1
  PROVE  /\ Internal(keys, kids) \in Nodes
         /\ Internal(keys, kids).kind = "internal"
         /\ Internal(keys, kids).keys = keys /\ Internal(keys, kids).kids = kids
         /\ Internal(keys, kids) # Unused
BY DEF Internal, Nodes, Unused

\* Every page is a leaf, an internal node or free, and never two of them.
LEMMA PageKinds ==
  ASSUME NEW t \in [Pages -> Nodes]
  PROVE  /\ Pages = LeavesIn(t) \cup InternalsIn(t) \cup FreeIn(t)
         /\ LeavesIn(t) \cap InternalsIn(t) = {} /\ NodesIn(t) \cap FreeIn(t) = {}
<1>1. ASSUME NEW p \in Pages PROVE p \in LeavesIn(t) \cup InternalsIn(t) \cup FreeIn(t)
  <2>1. t[p] \in Nodes
    OBVIOUS
  <2> QED BY <2>1 DEF Nodes, LeavesIn, InternalsIn, FreeIn
<1> QED BY <1>1 DEF LeavesIn, InternalsIn, FreeIn, NodesIn, Unused

\* Between which keys child i of p is searched.
LowerOf(t, lo, p, i) == IF i = 1 THEN lo[p] ELSE t[p].keys[i - 1]

UpperOf(t, hi, p, i) == IF i = Len(t[p].kids) THEN hi[p] ELSE t[p].keys[i]

\* The keys of each node are ascending and within its bounds; those of an
\* internal node are not its lower bound either.
SortedLeaf(t, lo, hi, p) ==
    \A i \in 1..Len(t[p].entries) :
        /\ lo[p] <= t[p].entries[i].key /\ t[p].entries[i].key < hi[p]
        /\ \A j \in 1..Len(t[p].entries) : i < j => t[p].entries[i].key < t[p].entries[j].key

SortedInternal(t, lo, hi, p) ==
    \A i \in 1..Len(t[p].keys) :
        /\ lo[p] < t[p].keys[i] /\ t[p].keys[i] < hi[p]
        /\ \A j \in 1..Len(t[p].keys) : i < j => t[p].keys[i] < t[p].keys[j]

Sorted(t, lo, hi, ht) ==
    /\ \A p \in NodesIn(t) : lo[p] < hi[p]
    /\ \A p \in LeavesIn(t) : ht[p] = 0 /\ SortedLeaf(t, lo, hi, p)
    /\ \A p \in InternalsIn(t) : SortedInternal(t, lo, hi, p)

\* The children of a node divide its keys among them.  top is hi, but a node
\* that was split still answers for the keys of its new neighbour.
LinkedAt(t, lo, hi, top, ht, p) ==
    \A i \in 1..Len(t[p].kids) :
        /\ t[p].kids[i] \in NodesIn(t) /\ ht[p] = ht[t[p].kids[i]] + 1
        /\ lo[t[p].kids[i]] = LowerOf(t, lo, p, i)
        /\ top[t[p].kids[i]] = UpperOf(t, hi, p, i)

Linked(t, lo, hi, top, ht) == \A p \in InternalsIn(t) : LinkedAt(t, lo, hi, top, ht, p)

KidOf(t, q, p) == \E i \in 1..Len(t[q].kids) : t[q].kids[i] = p

\* The root is above all other nodes and answers for all keys; the others have a
\* parent, but for the one that is not yet in the tree.
Rooted(t, rt, orphan, lo, top, ht) ==
    /\ rt \in NodesIn(t) /\ lo[rt] = Low /\ top[rt] = High
    /\ \A p \in NodesIn(t) :
          /\ ht[p] <= ht[rt]
          /\ p # rt /\ p # orphan => \E q \in InternalsIn(t) : KidOf(t, q, p)
    /\ \A q \in InternalsIn(t) : ~KidOf(t, q, orphan)

\* No two nodes of a level answer for the same key.
Apart(t, lo, hi, ht) ==
    \A p, q \in NodesIn(t) : p # q /\ ht[p] = ht[q] => hi[p] <= lo[q] \/ hi[q] <= lo[p]

\* A key that separates children does not fall inside a node below.
Clear(x, lo, hi, p) == x <= lo[p] \/ hi[p] <= x

NestedAt(t, lo, hi, ht, q) ==
    \A p \in NodesIn(t) : ht[p] < ht[q] =>
        \A j \in 1..Len(t[q].keys) : Clear(t[q].keys[j], lo, hi, p)

Nested(t, lo, hi, ht) == \A q \in InternalsIn(t) : NestedAt(t, lo, hi, ht, q)

\* Each leaf leads to the one that answers for the keys after its own.
Chain(t, lo, hi) ==
    \A p \in LeavesIn(t) :
        IF t[p].next = NoPage THEN hi[p] = High
        ELSE t[p].next \in LeavesIn(t) /\ lo[t[p].next] = hi[p]

\* No leaf is empty, no internal node has too few children; weak may lack one.
Filled(t, rt, weak) ==
    /\ \A p \in LeavesIn(t) : Len(t[p].entries) > 0
    /\ \A p \in InternalsIn(t) :
          Len(t[p].kids) >= IF p = rt THEN (IF p = weak THEN 1 ELSE 2)
                            ELSE IF p = weak THEN Least(InternalMax) - 1 ELSE Least(InternalMax)

\* path leads from the root towards k, to the level above h.
Route(t, rt, lo, hi, ht, path, k, h) ==
    /\ path \in Seq(Pages) /\ Len(path) = ht[rt] - h
    /\ \A i \in 1..Len(path) :
          /\ path[i] \in InternalsIn(t) /\ ht[path[i]] = ht[rt] + 1 - i
          /\ lo[path[i]] <= k /\ k < hi[path[i]]

-----------------------------------------------------------------------------
(* The path of a search                                                    *)

\* The keys of an internal node, as integers in ascending order.
LEMMA InternalKeys ==
  ASSUME NEW t \in [Pages -> Nodes], NEW p \in InternalsIn(t), NEW lo, NEW hi,
         SortedInternal(t, lo, hi, p)
  PROVE  t[p].keys \in Seq(Int) /\ Ascending(t[p].keys)
<1>1. t[p].keys \in Seq(Keys)
  BY InternalNode
<1>2. t[p].keys \in Seq(Int)
  BY <1>1, TreeAssumption, SeqOfMore
<1> QED BY <1>2 DEF SortedInternal, Ascending

\* ChildAt picks the child whose keys include k.
LEMMA ChildPicked ==
  ASSUME NEW n, n.keys \in Seq(Int), Ascending(n.keys), NEW k \in Int
  PROVE  /\ ChildAt(n, k) \in 1..(Len(n.keys) + 1)
         /\ ChildAt(n, k) > 1 => n.keys[ChildAt(n, k) - 1] <= k
         /\ ChildAt(n, k) <= Len(n.keys) => k < n.keys[ChildAt(n, k)]
<1> DEFINE keys == n.keys
<1>1. PICK i : i = KeyIndex(keys, k)
  OBVIOUS
<1>2. i \in 1..(Len(keys) + 1) /\ \A j \in 1..Len(keys) : (j < i => keys[j] < k) /\ (j >= i => k <= keys[j])
  BY <1>1, SearchFinds DEF PlaceOf
<1>3. Len(keys) \in Nat /\ i \in Int /\ \A j \in 1..Len(keys) : keys[j] \in Int
  BY <1>2
<1>4. ChildAt(n, k) = IF i <= Len(keys) /\ keys[i] = k THEN i + 1 ELSE i
  BY <1>1 DEF ChildAt, Has
<1>5. \A j \in 1..Len(keys) : i < j => keys[i] < keys[j]
  BY <1>2, <1>3 DEF Ascending
<1> HIDE DEF keys
<1>6. CASE i <= Len(keys) /\ keys[i] = k
  <2>1. ChildAt(n, k) = i + 1 /\ i \in 1..Len(keys)
    BY <1>2, <1>3, <1>4, <1>6
  <2>2. keys[(i + 1) - 1] <= k /\ (i + 1 <= Len(keys) => k < keys[i + 1])
    BY <1>2, <1>3, <1>5, <1>6
  <2> QED BY <2>1, <2>2, <1>2, <1>3 DEF keys
<1>7. CASE ~(i <= Len(keys) /\ keys[i] = k)
  <2>1. ChildAt(n, k) = i
    BY <1>4, <1>7
  <2>2. i > 1 => keys[i - 1] <= k
    <3> SUFFICES ASSUME i > 1 PROVE keys[i - 1] <= k
      OBVIOUS
    <3>1. i - 1 \in 1..Len(keys) /\ i - 1 < i
      BY <1>2, <1>3
    <3> QED BY <3>1, <1>2, <1>3
  <2>3. i <= Len(keys) => k < keys[i]
    BY <1>2, <1>3, <1>7
  <2> QED BY <2>1, <2>2, <2>3, <1>2, <1>3 DEF keys
<1> QED BY <1>6, <1>7

\* The types of the ghost functions.
Ghosts(lo, hi, ht) == lo \in [Pages -> Int] /\ hi \in [Pages -> Int] /\ ht \in [Pages -> Nat]

\* The table and the ghost functions agree on what is searched where.
Searchable(t, lo, hi, ht) ==
    /\ t \in [Pages -> Nodes] /\ Ghosts(lo, hi, ht)
    /\ Sorted(t, lo, hi, ht) /\ Linked(t, lo, hi, hi, ht)

\* The child a search for k descends into is one level down and answers for k.
LEMMA Descent ==
  ASSUME NEW t, NEW lo, NEW hi, NEW ht, Searchable(t, lo, hi, ht),
         NEW p \in InternalsIn(t), NEW k \in Int,
         NEW c, c = t[p].kids[ChildAt(t[p], k)]
  PROVE  /\ c \in NodesIn(t) /\ c \in Pages /\ ht[p] = ht[c] + 1
         /\ lo[p] <= k /\ k < hi[p] => lo[c] <= k /\ k < hi[c]
<1>1. t \in [Pages -> Nodes] /\ Ghosts(lo, hi, ht) /\ LinkedAt(t, lo, hi, hi, ht, p)
      /\ SortedInternal(t, lo, hi, p)
  BY DEF Searchable, Linked, Sorted
<1>2. PICK i : i = ChildAt(t[p], k)
  OBVIOUS
<1>3. t[p].keys \in Seq(Int) /\ Ascending(t[p].keys)
  BY <1>1, InternalKeys
<1>4. /\ i \in 1..(Len(t[p].keys) + 1)
      /\ i > 1 => t[p].keys[i - 1] <= k
      /\ i <= Len(t[p].keys) => k < t[p].keys[i]
  BY <1>2, <1>3, ChildPicked
<1>5. /\ Len(t[p].keys) \in Nat /\ Len(t[p].kids) = Len(t[p].keys) + 1 /\ p \in Pages
  BY <1>1, <1>3, InternalNode
<1>6. i \in 1..Len(t[p].kids) /\ c = t[p].kids[i]
  BY <1>2, <1>4, <1>5
<1>7. /\ c \in NodesIn(t) /\ ht[p] = ht[c] + 1
      /\ lo[c] = LowerOf(t, lo, p, i) /\ hi[c] = UpperOf(t, hi, p, i)
  BY <1>1, <1>6 DEF LinkedAt
<1>8. c \in Pages
  BY <1>7 DEF NodesIn, LeavesIn, InternalsIn
<1>9. ASSUME lo[p] <= k, k < hi[p] PROVE lo[c] <= k /\ k < hi[c]
  <2>1. lo[c] <= k
    BY <1>4, <1>7, <1>9, <1>5 DEF LowerOf
  <2>2. k < hi[c]
    BY <1>4, <1>7, <1>9, <1>5 DEF UpperOf
  <2> QED BY <2>1, <2>2
<1> QED BY <1>7, <1>8, <1>9

\* The path of a search for k, as the recursion of Path finds it from page p on.
Step(f, k, p) ==
    IF node[p].kind = "internal"
    THEN Cons(p, f[node[p].kids[ChildAt(node[p], k)]])
    ELSE <<p>>

\* The recursion of Path ends: every step goes down one level.
LEMMA PathDefined ==
  ASSUME NEW lo, NEW hi, NEW ht, Searchable(node, lo, hi, ht), NEW k \in Int,
         NEW top \in Nat, \A p \in NodesIn(node) : ht[p] <= top
  PROVE  \E g : g = [p \in Pages |-> Step(g, k, p)] /\ Path(k) = g[root]
<1> DEFINE R == Seq(Pages)
           rank == [p \in Pages |-> IF p \in NodesIn(node) THEN ht[p] ELSE 0]
           B == [f \in [Pages -> R] |-> [p \in Pages |-> Step(f, k, p)]]
           Is(g) == g = [p \in Pages |-> Step(g, k, p)]
<1>1. node \in [Pages -> Nodes] /\ Ghosts(lo, hi, ht)
  BY DEF Searchable
<1>2. rank \in [Pages -> 0..top]
  <2> SUFFICES ASSUME NEW p \in Pages, p \in NodesIn(node) PROVE ht[p] \in 0..top
    OBVIOUS
  <2> QED BY <1>1 DEF Ghosts
<1>3. ASSUME NEW f \in [Pages -> R], NEW g \in [Pages -> R], NEW p \in Pages,
             \A q \in Pages : rank[q] < rank[p] => f[q] = g[q]
      PROVE  Step(f, k, p) = Step(g, k, p) /\ Step(f, k, p) \in R
  <2>1. CASE node[p].kind = "internal"
    <3>1. PICK c : c = node[p].kids[ChildAt(node[p], k)]
      OBVIOUS
    <3>2. p \in InternalsIn(node) /\ p \in NodesIn(node)
      BY <2>1 DEF InternalsIn, NodesIn
    <3>3. c \in NodesIn(node) /\ c \in Pages /\ ht[p] = ht[c] + 1
      <4>1. Searchable(node, lo, hi, ht) /\ k \in Int
        OBVIOUS
      <4> QED BY ONLY <4>1, <3>1, <3>2, Descent
    <3>4. rank[c] < rank[p]
      BY <3>2, <3>3, <1>1 DEF Ghosts
    <3>5. f[c] = g[c] /\ f[c] \in Seq(Pages)
      BY <3>3, <3>4, <1>3
    <3>6. Cons(p, f[c]) \in Seq(Pages)
      BY <3>5, ConsFacts
    <3> QED BY <2>1, <3>1, <3>5, <3>6 DEF Step
  <2>2. CASE node[p].kind # "internal"
    BY <2>2 DEF Step
  <2> QED BY <2>1, <2>2
<1>4. B \in [[Pages -> R] -> [Pages -> R]]
  BY <1>3
<1>5. \A f, g \in [Pages -> R], x \in Pages :
         (\A y \in Pages : rank[y] < rank[x] => f[y] = g[y]) => B[f][x] = B[g][x]
  BY <1>3
<1>6. R # {}
  <2>1. <<>> \in R
    OBVIOUS
  <2> QED BY <2>1
<1> HIDE DEF B, rank, R
<1>7. \E f \in [Pages -> R] : f = B[f]
  <2>1. Recursive(Pages, R, top, rank, B)
    BY <1>2, <1>4, <1>5, <1>6 DEF Recursive
  <2> QED BY <2>1, RankRecursion
<1>8. \E f : Is(f)
  BY <1>7 DEF B
<1>9. Is(CHOOSE f : Is(f))
  BY <1>8
<1>10. Path(k) = (CHOOSE f : Is(f))[root]
  BY Zenon DEF Path, Step
<1> QED BY <1>9, <1>10

\* A search for k ends at the leaf that answers for k, and visits one page of
\* every level on its way, each of them answering for k.
LEMMA PathFound ==
  ASSUME NEW lo, NEW hi, NEW ht, Searchable(node, lo, hi, ht), NEW k \in Int,
         \A p \in NodesIn(node) : ht[p] <= ht[root],
         root \in NodesIn(node), lo[root] <= k, k < hi[root]
  PROVE  /\ Path(k) \in Seq(Pages) /\ Len(Path(k)) = ht[root] + 1
         /\ Path(k)[1] = root
         /\ \A i \in 1..(ht[root] + 1) :
               /\ Path(k)[i] \in NodesIn(node) /\ ht[Path(k)[i]] = ht[root] + 1 - i
               /\ lo[Path(k)[i]] <= k /\ k < hi[Path(k)[i]]
<1>1. node \in [Pages -> Nodes] /\ Ghosts(lo, hi, ht) /\ Sorted(node, lo, hi, ht)
  BY DEF Searchable
<1>2. NodesIn(node) \subseteq Pages
  BY DEF NodesIn, LeavesIn, InternalsIn
<1>3. root \in Pages /\ ht[root] \in Nat
  BY <1>1, <1>2 DEF Ghosts
<1>4. PICK g : g = [p \in Pages |-> Step(g, k, p)] /\ Path(k) = g[root]
  BY <1>3, PathDefined
<1>5. \A p \in Pages : g[p] = Step(g, k, p)
  <2>1. \A p \in Pages : [q \in Pages |-> Step(g, k, q)][p] = Step(g, k, p)
    OBVIOUS
  <2> QED BY <2>1, <1>4
<1> DEFINE Found(p, s) ==
             /\ s \in Seq(Pages) /\ Len(s) = ht[p] + 1 /\ s[1] = p
             /\ \A i \in 1..(ht[p] + 1) :
                   /\ s[i] \in NodesIn(node) /\ ht[s[i]] = ht[p] + 1 - i
                   /\ lo[s[i]] <= k /\ k < hi[s[i]]
           All(h) == \A p \in NodesIn(node) :
                        ht[p] = h /\ lo[p] <= k /\ k < hi[p] => Found(p, g[p])
           S == {h \in Nat : All(h)}
<1>6. 0 \in S
  <2> SUFFICES ASSUME NEW p \in NodesIn(node), ht[p] = 0, lo[p] <= k, k < hi[p]
               PROVE  Found(p, g[p])
    OBVIOUS
  <2>1. p \notin InternalsIn(node)
    <3> SUFFICES ASSUME p \in InternalsIn(node) PROVE FALSE
      OBVIOUS
    <3>1. PICK c : c = node[p].kids[ChildAt(node[p], k)]
      OBVIOUS
    <3>2. c \in Pages /\ ht[p] = ht[c] + 1
      BY <3>1, Descent
    <3> QED BY <3>2, <1>1 DEF Ghosts
  <2>2. p \in Pages /\ node[p].kind # "internal"
    BY <2>1, <1>2 DEF InternalsIn
  <2>3. g[p] = <<p>>
    BY <2>2, <1>5 DEF Step
  <2> HIDE DEF Found
  <2> QED
    <3>1. <<p>> \in Seq(Pages) /\ Len(<<p>>) = 0 + 1 /\ <<p>>[1] = p
      BY <2>2
    <3>2. ASSUME NEW i \in 1..(0 + 1)
          PROVE  <<p>>[i] \in NodesIn(node) /\ ht[<<p>>[i]] = 0 + 1 - i
                 /\ lo[<<p>>[i]] <= k /\ k < hi[<<p>>[i]]
      <4>1. i = 1
        OBVIOUS
      <4> QED BY <4>1, <2>2
    <3> QED BY <2>3, <3>1, <3>2 DEF Found
<1>7. ASSUME NEW h \in Nat, h \in S PROVE h + 1 \in S
  <2> SUFFICES ASSUME NEW p \in NodesIn(node), ht[p] = h + 1, lo[p] <= k, k < hi[p]
               PROVE  Found(p, g[p])
    OBVIOUS
  <2>1. p \in InternalsIn(node) /\ p \in Pages /\ node[p].kind = "internal"
    BY <1>1 DEF Sorted, NodesIn, InternalsIn
  <2>2. PICK c : c = node[p].kids[ChildAt(node[p], k)]
    OBVIOUS
  <2>3. c \in NodesIn(node) /\ c \in Pages /\ ht[p] = ht[c] + 1 /\ lo[c] <= k /\ k < hi[c]
    BY <2>1, <2>2, Descent
  <2>4. ht[c] = h
    BY <2>3, <1>1 DEF Ghosts
  <2>5. PICK s : s = g[c]
    OBVIOUS
  <2>6. Found(c, s)
    BY <2>3, <2>4, <2>5, <1>7
  <2>7. g[p] = Cons(p, s)
    BY <2>1, <2>2, <2>5, <1>5 DEF Step
  <2>8. /\ Cons(p, s) \in Seq(Pages) /\ Len(Cons(p, s)) = h + 2
        /\ \A j \in 1..(h + 2) : Cons(p, s)[j] = IF j = 1 THEN p ELSE s[j - 1]
    <3>1. s \in Seq(Pages) /\ Len(s) = h + 1
      BY <2>4, <2>6
    <3>2. /\ Cons(p, s) \in Seq(Pages) /\ Len(Cons(p, s)) = Len(s) + 1
          /\ \A j \in 1..(Len(s) + 1) : Cons(p, s)[j] = IF j = 1 THEN p ELSE s[j - 1]
      <4>1. s \in Seq(Pages) /\ p \in Pages
        BY <3>1, <2>1
      <4> QED BY ONLY <4>1, ConsFacts
    <3>3. Len(s) + 1 = h + 2
      BY <3>1
    <3> QED BY <3>2, <3>3
  <2>9. ASSUME NEW j \in 1..(h + 2), NEW q, q = Cons(p, s)[j]
        PROVE  q \in NodesIn(node) /\ ht[q] = h + 2 - j /\ lo[q] <= k /\ k < hi[q]
    <3>1. CASE j = 1
      BY <3>1, <2>8, <2>9
    <3>2. CASE j # 1
      <4>1. j - 1 \in 1..(h + 1) /\ q = s[j - 1] /\ h + 1 - (j - 1) = h + 2 - j
        BY <3>2, <2>8, <2>9
      <4> QED BY <4>1, <2>4, <2>6
    <3> QED BY <3>1, <3>2
  <2> HIDE DEF Found
  <2> QED
    <3>1. Cons(p, s)[1] = p /\ h + 2 = ht[p] + 1
      BY <2>8
    <3> QED BY <2>7, <2>8, <2>9, <3>1 DEF Found
<1> HIDE DEF S
<1>8. ht[root] \in S
  BY <1>6, <1>7, <1>3, SetInduction
<1>9. Found(root, g[root])
  BY <1>8 DEF S
<1> QED BY <1>9, <1>4

\* What always holds of the table of nodes, whatever an operation has still to do.
Core(t, rt, orphan, lo, hi, top, ht) ==
    /\ t \in [Pages -> Nodes] /\ Ghosts(lo, hi, ht) /\ top \in [Pages -> Int]
    /\ Sorted(t, lo, hi, ht) /\ Linked(t, lo, hi, top, ht)
    /\ Rooted(t, rt, orphan, lo, top, ht)
    /\ Apart(t, lo, hi, ht) /\ Nested(t, lo, hi, ht) /\ Chain(t, lo, hi)

\* What kinds of nodes there are and what the ghost functions return.
LEMMA CoreTypes ==
  ASSUME NEW t, NEW rt, NEW orphan, NEW lo, NEW hi, NEW top, NEW ht,
         Core(t, rt, orphan, lo, hi, top, ht)
  PROVE  /\ NodesIn(t) \subseteq Pages /\ InternalsIn(t) \subseteq NodesIn(t)
         /\ LeavesIn(t) \subseteq NodesIn(t)
         /\ rt \in NodesIn(t)
         /\ \A p \in Pages : lo[p] \in Int /\ hi[p] \in Int /\ top[p] \in Int /\ ht[p] \in Nat
         /\ \A p \in NodesIn(t) : p \in LeavesIn(t) \/ p \in InternalsIn(t)
         /\ \A p \in LeavesIn(t) : p \notin InternalsIn(t)
<1>1. NodesIn(t) \subseteq Pages /\ InternalsIn(t) \subseteq NodesIn(t) /\ LeavesIn(t) \subseteq NodesIn(t)
  BY DEF NodesIn, LeavesIn, InternalsIn
<1>2. rt \in NodesIn(t)
  BY DEF Core, Rooted
<1>3. \A p \in Pages : lo[p] \in Int /\ hi[p] \in Int /\ top[p] \in Int /\ ht[p] \in Nat
  BY DEF Core, Ghosts
<1>4. \A p \in LeavesIn(t) : p \notin InternalsIn(t)
  BY DEF LeavesIn, InternalsIn
<1> QED BY <1>1, <1>2, <1>3, <1>4 DEF NodesIn

\* The children of a node divide its keys in ascending order.
LEMMA KidBounds ==
  ASSUME NEW t \in [Pages -> Nodes], NEW lo \in [Pages -> Int], NEW hi \in [Pages -> Int],
         NEW p \in InternalsIn(t), SortedInternal(t, lo, hi, p), lo[p] < hi[p]
  PROVE  /\ \A i \in 1..Len(t[p].kids) :
               /\ LowerOf(t, lo, p, i) \in Int /\ UpperOf(t, hi, p, i) \in Int
               /\ lo[p] <= LowerOf(t, lo, p, i) /\ UpperOf(t, hi, p, i) <= hi[p]
               /\ LowerOf(t, lo, p, i) < UpperOf(t, hi, p, i)
         /\ \A i, j \in 1..Len(t[p].kids) : i < j => UpperOf(t, hi, p, i) <= LowerOf(t, lo, p, j)
<1>1. PICK n, keys : n = Len(t[p].keys) /\ keys = t[p].keys
  OBVIOUS
<1>2. /\ n \in Nat /\ Len(t[p].kids) = n + 1 /\ p \in Pages
      /\ \A i \in 1..n : keys[i] \in Int
      /\ lo[p] \in Int /\ hi[p] \in Int
  BY <1>1, InternalNode, InternalKeys
<1>3. /\ \A i \in 1..n : lo[p] < keys[i] /\ keys[i] < hi[p]
      /\ \A i, j \in 1..n : i < j => keys[i] < keys[j]
  BY <1>1 DEF SortedInternal
<1>4. \A i, j \in 1..n : i <= j => keys[i] <= keys[j]
  BY <1>2, <1>3
<1>5. \A i \in 1..(n + 1) : /\ LowerOf(t, lo, p, i) = IF i = 1 THEN lo[p] ELSE keys[i - 1]
                            /\ UpperOf(t, hi, p, i) = IF i = n + 1 THEN hi[p] ELSE keys[i]
  BY <1>1, <1>2 DEF LowerOf, UpperOf
<1>6. ASSUME NEW i \in 1..(n + 1)
      PROVE  /\ LowerOf(t, lo, p, i) \in Int /\ UpperOf(t, hi, p, i) \in Int
             /\ lo[p] <= LowerOf(t, lo, p, i) /\ UpperOf(t, hi, p, i) <= hi[p]
             /\ LowerOf(t, lo, p, i) < UpperOf(t, hi, p, i)
  <2>1. i # 1 => i - 1 \in 1..n
    BY <1>2
  <2>2. i # n + 1 => i \in 1..n
    BY <1>2
  <2>3. i - 1 < i
    BY <1>2
  <2>4. CASE i = 1
    BY <2>2, <2>4, <1>2, <1>3, <1>5
  <2>5. CASE i # 1
    <3>1. LowerOf(t, lo, p, i) = keys[i - 1] /\ keys[i - 1] \in Int /\ lo[p] < keys[i - 1]
      BY <2>1, <2>5, <1>2, <1>3, <1>5
    <3>2. CASE i = n + 1
      <4>1. UpperOf(t, hi, p, i) = hi[p] /\ keys[i - 1] < hi[p]
        BY <3>2, <2>1, <2>5, <1>3, <1>5
      <4> QED BY <3>1, <4>1, <1>2
    <3>3. CASE i # n + 1
      <4>1. UpperOf(t, hi, p, i) = keys[i] /\ keys[i] \in Int /\ keys[i] < hi[p] /\ keys[i - 1] < keys[i]
        BY <3>3, <2>1, <2>2, <2>3, <2>5, <1>2, <1>3, <1>5
      <4> QED BY <3>1, <4>1, <1>2
    <3> QED BY <3>2, <3>3
  <2> QED BY <2>4, <2>5
<1>7. ASSUME NEW i \in 1..(n + 1), NEW j \in 1..(n + 1), i < j
      PROVE  UpperOf(t, hi, p, i) <= LowerOf(t, lo, p, j)
  <2>1. i \in 1..n /\ j - 1 \in 1..n /\ i <= j - 1 /\ i # n + 1 /\ j # 1
    BY <1>2, <1>7
  <2> QED BY <2>1, <1>4, <1>5
<1> QED BY <1>2, <1>6, <1>7

\* A child answers for part of what its parent answers for, one level down.
LEMMA KidFacts ==
  ASSUME NEW t, NEW rt, NEW orphan, NEW lo, NEW hi, NEW top, NEW ht,
         Core(t, rt, orphan, lo, hi, top, ht),
         NEW p \in InternalsIn(t), NEW i \in 1..Len(t[p].kids), NEW c, c = t[p].kids[i]
  PROVE  /\ c \in NodesIn(t) /\ c \in Pages /\ ht[p] = ht[c] + 1 /\ c # p
         /\ lo[c] = LowerOf(t, lo, p, i) /\ top[c] = UpperOf(t, hi, p, i)
         /\ lo[p] <= lo[c] /\ lo[c] < top[c] /\ top[c] <= hi[p]
<1>1. /\ t \in [Pages -> Nodes] /\ lo \in [Pages -> Int] /\ hi \in [Pages -> Int]
      /\ SortedInternal(t, lo, hi, p) /\ lo[p] < hi[p]
  BY DEF Core, Ghosts, Sorted, NodesIn
<1>2. c \in NodesIn(t) /\ ht[p] = ht[c] + 1 /\ lo[c] = LowerOf(t, lo, p, i) /\ top[c] = UpperOf(t, hi, p, i)
  BY DEF Core, Linked, LinkedAt
<1>3. c \in Pages /\ ht[c] \in Nat
  BY <1>2, CoreTypes
<1>4. c # p
  BY <1>2, <1>3
<1> QED BY <1>1, <1>2, <1>3, <1>4, KidBounds

\* A node is the child of one node only, and only once.
LEMMA OneParent ==
  ASSUME NEW t, NEW rt, NEW orphan, NEW lo, NEW hi, NEW top, NEW ht,
         Core(t, rt, orphan, lo, hi, top, ht),
         NEW p \in InternalsIn(t), NEW q \in InternalsIn(t),
         NEW i \in 1..Len(t[p].kids), NEW j \in 1..Len(t[q].kids), t[p].kids[i] = t[q].kids[j]
  PROVE  p = q /\ i = j
<1>1. PICK c : c = t[p].kids[i] /\ c = t[q].kids[j]
  OBVIOUS
<1>2. /\ ht[p] = ht[c] + 1 /\ lo[c] = LowerOf(t, lo, p, i) /\ top[c] = UpperOf(t, hi, p, i)
      /\ lo[p] <= lo[c] /\ lo[c] < top[c] /\ top[c] <= hi[p] /\ c \in Pages
  BY <1>1, KidFacts
<1>3. /\ ht[q] = ht[c] + 1 /\ lo[c] = LowerOf(t, lo, q, j) /\ top[c] = UpperOf(t, hi, q, j)
      /\ lo[q] <= lo[c] /\ lo[c] < top[c] /\ top[c] <= hi[q]
  BY <1>1, KidFacts
<1>4. p \in NodesIn(t) /\ q \in NodesIn(t) /\ p \in Pages /\ q \in Pages
  BY CoreTypes
<1>5. lo[p] \in Int /\ hi[p] \in Int /\ lo[q] \in Int /\ hi[q] \in Int /\ lo[c] \in Int /\ top[c] \in Int
  BY <1>2, <1>4, CoreTypes
<1>6. p = q
  <2>1. p # q => hi[p] <= lo[q] \/ hi[q] <= lo[p]
    BY <1>2, <1>3, <1>4 DEF Core, Apart
  <2> QED BY <2>1, <1>2, <1>3, <1>5
<1>7. i = j
  <2>1. /\ t \in [Pages -> Nodes] /\ lo \in [Pages -> Int] /\ hi \in [Pages -> Int]
        /\ SortedInternal(t, lo, hi, p) /\ lo[p] < hi[p]
    BY DEF Core, Ghosts, Sorted, NodesIn
  <2>2. i < j => UpperOf(t, hi, p, i) <= LowerOf(t, lo, p, j)
    BY <2>1, <1>6, KidBounds
  <2>3. j < i => UpperOf(t, hi, p, j) <= LowerOf(t, lo, p, i)
    BY <2>1, <1>6, KidBounds
  <2>4. i \in Int /\ j \in Int
    OBVIOUS
  <2> QED BY <2>2, <2>3, <2>4, <1>2, <1>3, <1>5, <1>6
<1> QED BY <1>6, <1>7

\* Two nodes of a level that answer for a common key are the same node.
LEMMA SameNode ==
  ASSUME NEW t, NEW rt, NEW orphan, NEW lo, NEW hi, NEW top, NEW ht,
         Core(t, rt, orphan, lo, hi, top, ht),
         NEW p \in NodesIn(t), NEW q \in NodesIn(t), ht[p] = ht[q],
         NEW k \in Int, lo[p] <= k, k < hi[p], lo[q] <= k, k < hi[q]
  PROVE  p = q
<1>1. lo[p] \in Int /\ hi[p] \in Int /\ lo[q] \in Int /\ hi[q] \in Int
  BY CoreTypes
<1>2. p # q => hi[p] <= lo[q] \/ hi[q] <= lo[p]
  BY DEF Core, Apart
<1> QED BY <1>1, <1>2

-----------------------------------------------------------------------------
(* What only depends on a node, its bounds and its children.               *)

\* A leaf that stays as it is stays in order.
LEMMA SameLeaf ==
  ASSUME NEW t, NEW lo, NEW hi, NEW t2, NEW lo2, NEW hi2, NEW p,
         t2[p] = t[p], lo2[p] = lo[p], hi2[p] = hi[p], SortedLeaf(t, lo, hi, p)
  PROVE  SortedLeaf(t2, lo2, hi2, p)
BY DEF SortedLeaf

\* An internal node that stays as it is stays in order.
LEMMA SameInternal ==
  ASSUME NEW t, NEW lo, NEW hi, NEW t2, NEW lo2, NEW hi2, NEW p,
         t2[p] = t[p], lo2[p] = lo[p], hi2[p] = hi[p], SortedInternal(t, lo, hi, p)
  PROVE  SortedInternal(t2, lo2, hi2, p)
BY DEF SortedInternal

\* A node that stays as it is fits its children if what they answer for stays, too.
LEMMA SameLinks ==
  ASSUME NEW t, NEW lo, NEW hi, NEW top, NEW ht, NEW t2, NEW lo2, NEW hi2, NEW top2, NEW ht2, NEW p,
         t2[p] = t[p], lo2[p] = lo[p], hi2[p] = hi[p], ht2[p] = ht[p],
         \A i \in 1..Len(t[p].kids) :
            /\ t[p].kids[i] \in NodesIn(t2) /\ ht2[t[p].kids[i]] = ht[t[p].kids[i]]
            /\ lo2[t[p].kids[i]] = lo[t[p].kids[i]] /\ top2[t[p].kids[i]] = top[t[p].kids[i]],
         LinkedAt(t, lo, hi, top, ht, p)
  PROVE  LinkedAt(t2, lo2, hi2, top2, ht2, p)
BY DEF LinkedAt, LowerOf, UpperOf

\* x is one of the keys of q.
KeyOf(t, q, x) == \E j \in 1..Len(t[q].keys) : t[q].keys[j] = x

\* A key of a node is none that a node on a lower level has to tell apart.
LEMMA NestedKey ==
  ASSUME NEW t, NEW rt, NEW orphan, NEW lo, NEW hi, NEW top, NEW ht,
         Core(t, rt, orphan, lo, hi, top, ht),
         NEW q \in InternalsIn(t), NEW p \in NodesIn(t), ht[p] < ht[q], NEW x, KeyOf(t, q, x)
  PROVE  Clear(x, lo, hi, p)
BY DEF Core, Nested, NestedAt, KeyOf

\* The keys of a node lie between the bounds of what it answers for.
LEMMA KeyBetween ==
  ASSUME NEW t, NEW rt, NEW orphan, NEW lo, NEW hi, NEW top, NEW ht,
         Core(t, rt, orphan, lo, hi, top, ht),
         NEW q \in InternalsIn(t), NEW x, KeyOf(t, q, x)
  PROVE  x \in Keys /\ x \in Int /\ lo[q] < x /\ x < hi[q]
<1>1. PICK j \in 1..Len(t[q].keys) : t[q].keys[j] = x
  BY DEF KeyOf
<1>2. SortedInternal(t, lo, hi, q) /\ t \in [Pages -> Nodes]
  BY DEF Core, Sorted
<1>3. lo[q] < x /\ x < hi[q]
  BY <1>1, <1>2 DEF SortedInternal
<1>4. t[q].keys \in Seq(Keys)
  BY <1>2, InternalNode
<1>5. x \in Keys
  BY <1>1, <1>4
<1> QED BY <1>3, <1>5, TreeAssumption

\* A leaf gets other entries.
LEMMA LeafChanged ==
  ASSUME NEW t, NEW rt, NEW orphan, NEW lo, NEW hi, NEW top, NEW ht,
         Core(t, rt, orphan, lo, hi, top, ht),
         NEW p \in LeavesIn(t), NEW t2 \in [Pages -> Nodes],
         \A x \in Pages : x # p => t2[x] = t[x],
         t2[p].kind = "leaf", t2[p].next = t[p].next, SortedLeaf(t2, lo, hi, p)
  PROVE  /\ Core(t2, rt, orphan, lo, hi, top, ht)
         /\ LeavesIn(t2) = LeavesIn(t) /\ InternalsIn(t2) = InternalsIn(t)
<1>1. /\ LeavesIn(t2) = LeavesIn(t) /\ InternalsIn(t2) = InternalsIn(t)
      /\ NodesIn(t2) = NodesIn(t) /\ p \in Pages /\ p \notin InternalsIn(t)
      /\ InternalsIn(t) \subseteq Pages /\ LeavesIn(t) \subseteq Pages
  BY DEF LeavesIn, InternalsIn, NodesIn
<1>2. \A x \in InternalsIn(t) : t2[x] = t[x]
  BY <1>1
<1>3. Sorted(t2, lo, hi, ht)
  <2>1. ASSUME NEW x \in LeavesIn(t) PROVE SortedLeaf(t2, lo, hi, x)
    <3>1. SortedLeaf(t, lo, hi, x)
      BY DEF Core, Sorted
    <3>2. x # p => t2[x] = t[x]
      BY <1>1
    <3> QED BY <3>1, <3>2, SameLeaf
  <2>2. ASSUME NEW x \in InternalsIn(t) PROVE SortedInternal(t2, lo, hi, x)
    <3>1. SortedInternal(t, lo, hi, x)
      BY DEF Core, Sorted
    <3> QED BY <3>1, <1>2, SameInternal
  <2> QED BY <1>1, <2>1, <2>2 DEF Core, Sorted
<1>4. Linked(t2, lo, hi, top, ht)
  <2>1. ASSUME NEW x \in InternalsIn(t) PROVE LinkedAt(t2, lo, hi, top, ht, x)
    <3>1. LinkedAt(t, lo, hi, top, ht, x)
      BY DEF Core, Linked
    <3> QED BY <3>1, <1>1, <1>2 DEF LinkedAt, LowerOf, UpperOf
  <2> QED BY <1>1, <2>1 DEF Linked
<1>5. Rooted(t2, rt, orphan, lo, top, ht)
  <2>1. \A x \in InternalsIn(t) : \A y : KidOf(t2, x, y) <=> KidOf(t, x, y)
    BY <1>2 DEF KidOf
  <2> QED BY <1>1, <2>1 DEF Core, Rooted
<1>6. Apart(t2, lo, hi, ht)
  BY <1>1 DEF Core, Apart
<1>7. Nested(t2, lo, hi, ht)
  <2>1. ASSUME NEW q \in InternalsIn(t) PROVE NestedAt(t2, lo, hi, ht, q)
    BY <1>1, <1>2 DEF Core, Nested, NestedAt
  <2> QED BY <1>1, <2>1 DEF Nested
<1>8. Chain(t2, lo, hi)
  <2>1. \A x \in LeavesIn(t) : t2[x].next = t[x].next
    BY <1>1
  <2> QED BY <1>1, <2>1 DEF Core, Chain
<1> QED BY <1>1, <1>3, <1>4, <1>5, <1>6, <1>7, <1>8 DEF Core

-----------------------------------------------------------------------------
(* Splitting a node, and joining two.                                      *)

\* hi, but left answers for what its new neighbour child answers for, too.
Tops(hi, left, child) == [hi EXCEPT ![left] = hi[child]]

\* child, which holds the keys from key on, was split off from left.
Pending(t, lo, hi, ht, left, key, child) ==
    /\ left \in NodesIn(t) /\ child \in NodesIn(t) /\ left # child /\ ht[left] = ht[child]
    /\ key \in Keys /\ hi[left] = key /\ lo[child] = key
    /\ \A p \in NodesIn(t) : ht[p] <= ht[left] => Clear(key, lo, hi, p)

\* The core of a table in which r is pending beside l.
Loose(t, rt, lo, hi, top, ht, l, key, r) ==
    Core(t, rt, r, lo, hi, top, ht) /\ top = Tops(hi, l, r) /\ Pending(t, lo, hi, ht, l, key, r)

\* No node above l holds the key.
Unseparated(t, ht, l, key) == \A y \in InternalsIn(t) : ht[y] > ht[l] => ~KeyOf(t, y, key)

\* The ghost functions after p was cut at key and q got the upper part.
CutGhosts(lo, hi, ht, p, key, q, lo2, hi2, ht2) ==
    /\ lo2 = [lo EXCEPT ![q] = key]
    /\ hi2 = [hi EXCEPT ![p] = key, ![q] = hi[p]]
    /\ ht2 = [ht EXCEPT ![q] = ht[p]]

\* The ghost functions after a cut, page by page.
LEMMA CutGhostValues ==
  ASSUME NEW lo, NEW hi, NEW ht, Ghosts(lo, hi, ht), NEW p \in Pages, NEW q \in Pages, p # q,
         NEW key \in Int, NEW lo2, NEW hi2, NEW ht2,
         CutGhosts(lo, hi, ht, p, key, q, lo2, hi2, ht2), NEW top2, top2 = Tops(hi2, p, q)
  PROVE  /\ Ghosts(lo2, hi2, ht2) /\ top2 \in [Pages -> Int]
         /\ lo2[q] = key /\ hi2[p] = key /\ hi2[q] = hi[p] /\ ht2[q] = ht[p]
         /\ top2[p] = hi[p] /\ top2[q] = hi[p]
         /\ \A x \in Pages : x # q => lo2[x] = lo[x] /\ ht2[x] = ht[x] /\ top2[x] = hi[x]
         /\ \A x \in Pages : x # p /\ x # q => hi2[x] = hi[x]
<1>1. lo \in [Pages -> Int] /\ hi \in [Pages -> Int] /\ ht \in [Pages -> Nat]
  BY DEF Ghosts
<1>2. lo2 \in [Pages -> Int] /\ lo2[q] = key /\ \A x \in Pages : x # q => lo2[x] = lo[x]
  BY <1>1 DEF CutGhosts
<1>3. ht2 \in [Pages -> Nat] /\ ht2[q] = ht[p] /\ \A x \in Pages : x # q => ht2[x] = ht[x]
  BY <1>1 DEF CutGhosts
<1>4. /\ hi2 \in [Pages -> Int] /\ hi2[p] = key /\ hi2[q] = hi[p]
      /\ \A x \in Pages : x # p /\ x # q => hi2[x] = hi[x]
  BY <1>1 DEF CutGhosts
<1>5. /\ top2 \in [Pages -> Int] /\ top2[p] = hi2[q]
      /\ \A x \in Pages : x # p => top2[x] = hi2[x]
  BY <1>4 DEF Tops
<1> QED BY <1>2, <1>3, <1>4, <1>5 DEF Ghosts

\* The table after node p was cut: q is a new node of the same kind.
Cut(t, p, q, t2) ==
    /\ t2 \in [Pages -> Nodes] /\ p \in NodesIn(t) /\ q \in FreeIn(t)
    /\ \A x \in Pages : x # p /\ x # q => t2[x] = t[x]
    /\ t2[p].kind = t[p].kind /\ t2[q].kind = t[p].kind

\* After a cut there is one node more, of the kind of the node that was cut.
LEMMA CutNodes ==
  ASSUME NEW t \in [Pages -> Nodes], NEW p, NEW q, NEW t2, Cut(t, p, q, t2)
  PROVE  /\ p \in Pages /\ q \in Pages /\ q \notin NodesIn(t) /\ p # q
         /\ NodesIn(t2) = NodesIn(t) \cup {q}
         /\ p \in LeavesIn(t) => /\ LeavesIn(t2) = LeavesIn(t) \cup {q}
                                 /\ InternalsIn(t2) = InternalsIn(t)
         /\ p \in InternalsIn(t) => /\ LeavesIn(t2) = LeavesIn(t)
                                    /\ InternalsIn(t2) = InternalsIn(t) \cup {q}
<1>1. p \in Pages /\ q \in Pages /\ q \notin NodesIn(t) /\ p # q
  BY PageKinds DEF Cut, FreeIn, NodesIn, LeavesIn, InternalsIn
<1>2. q \notin LeavesIn(t) /\ q \notin InternalsIn(t)
  BY <1>1 DEF NodesIn
<1>3. CASE p \in LeavesIn(t)
  <2>1. t[p].kind = "leaf" /\ t2[p].kind = "leaf" /\ t2[q].kind = "leaf" /\ p \notin InternalsIn(t)
    BY <1>3 DEF Cut, LeavesIn, InternalsIn
  <2>2. \A x \in Pages : x \in LeavesIn(t2) <=> x \in LeavesIn(t) \/ x = q
    BY <2>1, <1>1 DEF Cut, LeavesIn
  <2>3. \A x \in Pages : x \in InternalsIn(t2) <=> x \in InternalsIn(t)
    BY <2>1, <1>1, <1>2 DEF Cut, InternalsIn
  <2>4. LeavesIn(t2) = LeavesIn(t) \cup {q} /\ InternalsIn(t2) = InternalsIn(t)
    BY <2>2, <2>3, <1>1 DEF LeavesIn, InternalsIn
  <2> QED BY <2>1, <2>4, <1>1 DEF NodesIn
<1>4. CASE p \in InternalsIn(t)
  <2>1. t[p].kind = "internal" /\ t2[p].kind = "internal" /\ t2[q].kind = "internal" /\ p \notin LeavesIn(t)
    BY <1>4 DEF Cut, LeavesIn, InternalsIn
  <2>2. \A x \in Pages : x \in InternalsIn(t2) <=> x \in InternalsIn(t) \/ x = q
    BY <2>1, <1>1 DEF Cut, InternalsIn
  <2>3. \A x \in Pages : x \in LeavesIn(t2) <=> x \in LeavesIn(t)
    BY <2>1, <1>1, <1>2 DEF Cut, LeavesIn
  <2>4. InternalsIn(t2) = InternalsIn(t) \cup {q} /\ LeavesIn(t2) = LeavesIn(t)
    BY <2>2, <2>3, <1>1 DEF LeavesIn, InternalsIn
  <2> QED BY <2>1, <2>4, <1>1 DEF NodesIn
<1> QED BY <1>3, <1>4 DEF Cut, NodesIn

\* The two halves of a leaf.
CutLeaf(t, lo2, hi2, t2, p, q) ==
    /\ SortedLeaf(t2, lo2, hi2, p) /\ SortedLeaf(t2, lo2, hi2, q)
    /\ t2[p].next = q /\ t2[q].next = t[p].next

\* The two halves of an internal node.
CutInternal(t, lo2, hi2, top2, ht2, t2, p, q) ==
    /\ SortedInternal(t2, lo2, hi2, p) /\ SortedInternal(t2, lo2, hi2, q)
    /\ LinkedAt(t2, lo2, hi2, top2, ht2, p) /\ LinkedAt(t2, lo2, hi2, top2, ht2, q)
    /\ \A x : KeyOf(t2, p, x) \/ KeyOf(t2, q, x) => KeyOf(t, p, x)
    /\ \A x : KidOf(t2, p, x) \/ KidOf(t2, q, x) <=> KidOf(t, p, x)

\* Cutting a node in two keeps the core; the upper half is then pending.
LEMMA NodeCut ==
  ASSUME NEW t, NEW rt, NEW lo, NEW hi, NEW ht, Core(t, rt, NoPage, lo, hi, hi, ht),
         NEW p, NEW q, NEW t2, Cut(t, p, q, t2),
         NEW key \in Keys, lo[p] < key, key < hi[p],
         \A x \in NodesIn(t) : ht[x] < ht[p] => Clear(key, lo, hi, x),
         NEW lo2, NEW hi2, NEW ht2, CutGhosts(lo, hi, ht, p, key, q, lo2, hi2, ht2),
         NEW top2, top2 = Tops(hi2, p, q),
         p \in LeavesIn(t) => CutLeaf(t, lo2, hi2, t2, p, q),
         p \in InternalsIn(t) => CutInternal(t, lo2, hi2, top2, ht2, t2, p, q)
  PROVE  Core(t2, rt, q, lo2, hi2, top2, ht2) /\ Pending(t2, lo2, hi2, ht2, p, key, q)
<1>1. t \in [Pages -> Nodes] /\ t2 \in [Pages -> Nodes] /\ Ghosts(lo, hi, ht) /\ p \in NodesIn(t)
  BY DEF Core, Cut
<1>2. /\ p \in Pages /\ q \in Pages /\ q \notin NodesIn(t) /\ p # q
      /\ NodesIn(t2) = NodesIn(t) \cup {q}
      /\ p \in LeavesIn(t) => /\ LeavesIn(t2) = LeavesIn(t) \cup {q}
                              /\ InternalsIn(t2) = InternalsIn(t)
      /\ p \in InternalsIn(t) => /\ LeavesIn(t2) = LeavesIn(t)
                                 /\ InternalsIn(t2) = InternalsIn(t) \cup {q}
  BY <1>1, CutNodes
<1>3. key \in Int
  BY TreeAssumption
<1>4. /\ Ghosts(lo2, hi2, ht2) /\ top2 \in [Pages -> Int]
      /\ lo2[q] = key /\ hi2[p] = key /\ hi2[q] = hi[p] /\ ht2[q] = ht[p]
      /\ top2[p] = hi[p] /\ top2[q] = hi[p]
      /\ \A x \in Pages : x # q => lo2[x] = lo[x] /\ ht2[x] = ht[x] /\ top2[x] = hi[x]
      /\ \A x \in Pages : x # p /\ x # q => hi2[x] = hi[x]
  BY <1>1, <1>2, <1>3, CutGhostValues
<1>5. /\ NodesIn(t) \subseteq Pages /\ InternalsIn(t) \subseteq NodesIn(t)
      /\ LeavesIn(t) \subseteq NodesIn(t) /\ rt \in NodesIn(t)
      /\ \A x \in Pages : lo[x] \in Int /\ hi[x] \in Int /\ ht[x] \in Nat
      /\ \A x \in NodesIn(t) : x \in LeavesIn(t) \/ x \in InternalsIn(t)
      /\ \A x \in LeavesIn(t) : x \notin InternalsIn(t)
  BY CoreTypes
<1>6. \A x \in NodesIn(t) : x # p => t2[x] = t[x] /\ lo2[x] = lo[x] /\ hi2[x] = hi[x] /\ ht2[x] = ht[x]
  BY <1>2, <1>4, <1>5 DEF Cut
<1>7. \A x \in NodesIn(t) : lo2[x] = lo[x] /\ ht2[x] = ht[x] /\ top2[x] = hi[x]
  BY <1>2, <1>4, <1>5
<1>20. ASSUME NEW x \in LeavesIn(t2)
       PROVE  (x \in LeavesIn(t) /\ x # p) \/ ((x = p \/ x = q) /\ p \in LeavesIn(t))
  <2>1. CASE p \in LeavesIn(t)
    BY <2>1, <1>2
  <2>2. CASE p \in InternalsIn(t)
    <3>1. x \in LeavesIn(t)
      BY <2>2, <1>2
    <3> QED BY <3>1, <2>2, <1>5
  <2> QED BY <2>1, <2>2, <1>1, <1>5
<1>21. ASSUME NEW x \in InternalsIn(t2)
       PROVE  (x \in InternalsIn(t) /\ x # p) \/ ((x = p \/ x = q) /\ p \in InternalsIn(t))
  <2>1. CASE p \in InternalsIn(t)
    BY <2>1, <1>2
  <2>2. CASE p \in LeavesIn(t)
    <3>1. x \in InternalsIn(t)
      BY <2>2, <1>2
    <3> QED BY <3>1, <2>2, <1>5
  <2> QED BY <2>1, <2>2, <1>1, <1>5
<1>22. /\ LeavesIn(t) \subseteq LeavesIn(t2) /\ InternalsIn(t) \subseteq InternalsIn(t2)
       /\ (p \in LeavesIn(t) => q \in LeavesIn(t2)) /\ (p \in InternalsIn(t) => q \in InternalsIn(t2))
  <2>1. CASE p \in LeavesIn(t)
    BY <2>1, <1>2, <1>5
  <2>2. CASE p \in InternalsIn(t)
    BY <2>2, <1>2, <1>5
  <2> QED BY <2>1, <2>2, <1>1, <1>5
<1>8. Sorted(t2, lo2, hi2, ht2)
  <2>1. ASSUME NEW x \in NodesIn(t2) PROVE lo2[x] < hi2[x]
    <3>1. CASE x = p
      BY <3>1, <1>1, <1>4, <1>7
    <3>2. CASE x = q
      BY <3>2, <1>4
    <3>3. CASE x # p /\ x # q
      BY <3>3, <1>2, <1>6 DEF Core, Sorted
    <3> QED BY <3>1, <3>2, <3>3
  <2>2. ASSUME NEW x \in LeavesIn(t2) PROVE ht2[x] = 0 /\ SortedLeaf(t2, lo2, hi2, x)
    <3>1. CASE x \in LeavesIn(t) /\ x # p
      <4>1. ht[x] = 0 /\ SortedLeaf(t, lo, hi, x) /\ x \in NodesIn(t)
        BY <3>1, <1>5 DEF Core, Sorted
      <4> QED BY <4>1, <3>1, <1>6, SameLeaf
    <3>2. CASE (x = p \/ x = q) /\ p \in LeavesIn(t)
      <4>1. ht[p] = 0
        BY <3>2 DEF Core, Sorted
      <4> QED BY <3>2, <4>1, <1>1, <1>4, <1>7 DEF CutLeaf
    <3> QED BY <3>1, <3>2, <1>20
  <2>3. ASSUME NEW x \in InternalsIn(t2) PROVE SortedInternal(t2, lo2, hi2, x)
    <3>1. CASE x \in InternalsIn(t) /\ x # p
      <4>1. SortedInternal(t, lo, hi, x) /\ x \in NodesIn(t)
        BY <3>1, <1>5 DEF Core, Sorted
      <4> QED BY <4>1, <3>1, <1>6, SameInternal
    <3>2. CASE (x = p \/ x = q) /\ p \in InternalsIn(t)
      BY <3>2 DEF CutInternal
    <3> QED BY <3>1, <3>2, <1>21
  <2> QED BY <2>1, <2>2, <2>3 DEF Sorted
<1>9. Linked(t2, lo2, hi2, top2, ht2)
  <2> SUFFICES ASSUME NEW x \in InternalsIn(t2) PROVE LinkedAt(t2, lo2, hi2, top2, ht2, x)
    BY DEF Linked
  <2>1. CASE x \in InternalsIn(t) /\ x # p
    <3>1. LinkedAt(t, lo, hi, hi, ht, x) /\ x \in NodesIn(t)
      BY <2>1, <1>5 DEF Core, Linked
    <3>2. ASSUME NEW i \in 1..Len(t[x].kids), NEW c, c = t[x].kids[i]
          PROVE  c \in NodesIn(t2) /\ ht2[c] = ht[c] /\ lo2[c] = lo[c] /\ top2[c] = hi[c]
      <4>1. c \in NodesIn(t)
        BY <3>1, <3>2 DEF LinkedAt
      <4> QED BY <4>1, <1>2, <1>7
    <3> QED BY <3>1, <3>2, <2>1, <1>6, SameLinks
  <2>2. CASE (x = p \/ x = q) /\ p \in InternalsIn(t)
    BY <2>2 DEF CutInternal
  <2> QED BY <2>1, <2>2, <1>21
<1>10. \A x \in InternalsIn(t) : \A c : KidOf(t, x, c) => c \in NodesIn(t)
  BY DEF KidOf, Core, Linked, LinkedAt
<1>11. Rooted(t2, rt, q, lo2, top2, ht2)
  <2>1. rt \in NodesIn(t2) /\ lo2[rt] = Low /\ top2[rt] = High
    BY <1>2, <1>5, <1>7 DEF Core, Rooted
  <2>2. \A x \in NodesIn(t2) : ht2[x] <= ht2[rt]
    BY <1>1, <1>2, <1>4, <1>5, <1>7 DEF Core, Rooted
  <2>3. ASSUME NEW x \in NodesIn(t), x # rt PROVE \E y \in InternalsIn(t2) : KidOf(t2, y, x)
    <3>1. x # NoPage
      BY <1>5, TreeAssumption
    <3>2. PICK y \in InternalsIn(t) : KidOf(t, y, x)
      BY <2>3, <3>1 DEF Core, Rooted
    <3>3. CASE y # p
      <4>1. y \in InternalsIn(t2) /\ t2[y] = t[y]
        BY <3>3, <1>5, <1>6, <1>22
      <4> QED BY <3>2, <4>1 DEF KidOf
    <3>4. CASE y = p
      <4>1. p \in InternalsIn(t2) /\ q \in InternalsIn(t2) /\ (KidOf(t2, p, x) \/ KidOf(t2, q, x))
        BY <3>2, <3>4, <1>22 DEF CutInternal
      <4> QED BY <4>1
    <3> QED BY <3>3, <3>4
  <2>4. ASSUME NEW y \in InternalsIn(t2), KidOf(t2, y, q) PROVE FALSE
    <3>1. CASE y \in InternalsIn(t) /\ y # p
      <4>1. t2[y] = t[y]
        BY <3>1, <1>5, <1>6
      <4>2. KidOf(t, y, q)
        BY <4>1, <2>4 DEF KidOf
      <4> QED BY <3>1, <4>2, <1>2, <1>10
    <3>2. CASE (y = p \/ y = q) /\ p \in InternalsIn(t)
      <4>1. KidOf(t, p, q)
        BY <3>2, <2>4 DEF CutInternal
      <4> QED BY <3>2, <4>1, <1>2, <1>10
    <3> QED BY <3>1, <3>2, <1>21
  <2> QED BY <2>1, <2>2, <2>3, <2>4, <1>2 DEF Rooted
<1>12. \A x, y \in NodesIn(t) : x # y /\ ht[x] = ht[y] => hi[x] <= lo[y] \/ hi[y] <= lo[x]
  BY DEF Core, Apart
<1>13. Apart(t2, lo2, hi2, ht2)
  <2>1. ASSUME NEW x \in NodesIn(t), NEW y \in NodesIn(t), x # y, ht[x] = ht[y]
        PROVE  hi2[x] <= lo2[y] \/ hi2[y] <= lo2[x]
    <3>1. lo2[x] = lo[x] /\ lo2[y] = lo[y] /\ (hi[x] <= lo[y] \/ hi[y] <= lo[x])
      BY <2>1, <1>7, <1>12
    <3>2. hi2[x] \in Int /\ hi2[x] <= hi[x] /\ hi2[y] \in Int /\ hi2[y] <= hi[y]
      BY <1>1, <1>3, <1>4, <1>5, <1>6
    <3> QED BY <3>1, <3>2, <1>5
  <2>2. ASSUME NEW x \in NodesIn(t), ht[x] = ht[p] PROVE hi2[x] <= lo2[q] \/ hi2[q] <= lo2[x]
    <3>1. CASE x = p
      BY <3>1, <1>3, <1>4
    <3>2. CASE x # p
      <4>1. hi[x] <= lo[p] \/ hi[p] <= lo[x]
        BY <3>2, <2>2, <1>1, <1>12
      <4> QED BY <4>1, <3>2, <1>1, <1>3, <1>4, <1>5, <1>6
    <3> QED BY <3>1, <3>2
  <2> QED BY <2>1, <2>2, <1>2, <1>4, <1>7 DEF Apart
<1>14. ASSUME NEW x \in NodesIn(t), NEW z \in Int, Clear(z, lo, hi, x)
       PROVE  Clear(z, lo2, hi2, x) /\ (x = p => Clear(z, lo2, hi2, q))
  <2>1. CASE x # p
    BY <2>1, <1>14, <1>6 DEF Clear
  <2>2. CASE x = p
    BY <2>2, <1>14, <1>1, <1>3, <1>4, <1>5, <1>7 DEF Clear
  <2> QED BY <2>1, <2>2
<1>15. Nested(t2, lo2, hi2, ht2)
  <2> SUFFICES ASSUME NEW y \in InternalsIn(t2), NEW x \in NodesIn(t2), ht2[x] < ht2[y],
                      NEW j \in 1..Len(t2[y].keys), NEW z, z = t2[y].keys[j]
               PROVE  Clear(z, lo2, hi2, x)
    BY DEF Nested, NestedAt
  <2>1. PICK y1 \in InternalsIn(t) : ht2[y] = ht[y1] /\ KeyOf(t, y1, z)
    <3>1. KeyOf(t2, y, z)
      BY DEF KeyOf
    <3>2. CASE y \in InternalsIn(t) /\ y # p
      BY <3>1, <3>2, <1>5, <1>6 DEF KeyOf
    <3>3. CASE (y = p \/ y = q) /\ p \in InternalsIn(t)
      <4>1. KeyOf(t, p, z)
        BY <3>1, <3>3 DEF CutInternal
      <4> QED BY <3>3, <4>1, <1>1, <1>4, <1>7
    <3> QED BY <3>2, <3>3, <1>21
  <2>2. PICK x1 \in NodesIn(t) : ht2[x] = ht[x1] /\ (x = x1 \/ (x = q /\ x1 = p))
    BY <1>1, <1>2, <1>4, <1>7
  <2>3. Clear(z, lo, hi, x1) /\ z \in Int
    BY <2>1, <2>2, NestedKey, KeyBetween
  <2>4. Clear(z, lo2, hi2, x1) /\ (x1 = p => Clear(z, lo2, hi2, q))
    BY ONLY <2>2, <2>3, <1>14
  <2> QED BY <2>2, <2>4
<1>16. Chain(t2, lo2, hi2)
  <2> SUFFICES ASSUME NEW x \in LeavesIn(t2)
               PROVE  IF t2[x].next = NoPage THEN hi2[x] = High
                      ELSE t2[x].next \in LeavesIn(t2) /\ lo2[t2[x].next] = hi2[x]
    BY DEF Chain
  <2>1. \A y \in LeavesIn(t) : IF t[y].next = NoPage THEN hi[y] = High
                               ELSE t[y].next \in LeavesIn(t) /\ lo[t[y].next] = hi[y]
    BY DEF Core, Chain
  <2>2. LeavesIn(t) \subseteq LeavesIn(t2) /\ \A y \in LeavesIn(t) : lo2[y] = lo[y]
    BY <1>1, <1>2, <1>5, <1>7
  <2>3. CASE x \in LeavesIn(t) /\ x # p
    <3>1. t2[x] = t[x] /\ hi2[x] = hi[x]
      BY <2>3, <1>5, <1>6
    <3> QED BY <2>1, <2>2, <2>3, <3>1
  <2>4. CASE (x = p \/ x = q) /\ p \in LeavesIn(t)
    <3>1. p \in LeavesIn(t) /\ t2[p].next = q /\ t2[q].next = t[p].next /\ q \in LeavesIn(t2)
      BY <2>4, <1>22 DEF CutLeaf
    <3>2. CASE x = p
      <4>1. q # NoPage
        BY <1>2, TreeAssumption
      <4> QED BY <3>1, <3>2, <4>1, <1>4
    <3>3. CASE x = q
      BY <3>1, <3>3, <2>1, <2>2, <1>4
    <3> QED BY <2>4, <3>2, <3>3
  <2> QED BY <2>3, <2>4, <1>20
<1>17. Pending(t2, lo2, hi2, ht2, p, key, q)
  <2>1. p \in NodesIn(t2) /\ q \in NodesIn(t2) /\ ht2[p] = ht2[q] /\ hi2[p] = key /\ lo2[q] = key
    BY <1>1, <1>2, <1>4, <1>7
  <2>2. ASSUME NEW x \in NodesIn(t2), ht2[x] <= ht2[p] PROVE Clear(key, lo2, hi2, x)
    <3>1. CASE x = p \/ x = q
      BY <3>1, <1>3, <1>4 DEF Clear
    <3>2. CASE x # p /\ x # q
      <4>1. x \in NodesIn(t) /\ ht[x] <= ht[p] /\ lo2[x] = lo[x] /\ hi2[x] = hi[x]
        BY <3>2, <2>2, <1>1, <1>2, <1>6, <1>7
      <4>2. CASE ht[x] < ht[p]
        BY <4>1, <4>2 DEF Clear
      <4>3. CASE ht[x] = ht[p]
        <5>1. hi[x] <= lo[p] \/ hi[p] <= lo[x]
          BY <4>1, <4>3, <3>2, <1>1, <1>12
        <5> QED BY <5>1, <4>1, <1>2, <1>3, <1>5 DEF Clear
      <4> QED BY <4>1, <4>2, <4>3, <1>2, <1>5
    <3> QED BY <3>1, <3>2
  <2> QED BY <2>1, <2>2, <1>2 DEF Pending
<1> QED BY <1>1, <1>4, <1>8, <1>9, <1>11, <1>13, <1>15, <1>16, <1>17 DEF Core

\* Entries in ascending order of their keys, from a on and before b.
Ordered(entries, a, b) ==
    \A i \in 1..Len(entries) :
        /\ a <= entries[i].key /\ entries[i].key < b
        /\ \A j \in 1..Len(entries) : i < j => entries[i].key < entries[j].key

\* A leaf is in order when its entries are.
LEMMA OrderedLeaf ==
  ASSUME NEW t, NEW lo, NEW hi, NEW p, NEW e, t[p].entries = e, Ordered(e, lo[p], hi[p])
  PROVE  SortedLeaf(t, lo, hi, p)
BY DEF Ordered, SortedLeaf

\* The entries of a leaf are in order, and leaves are on the lowest level.
LEMMA LeafOrdered ==
  ASSUME NEW t, NEW rt, NEW orphan, NEW lo, NEW hi, NEW top, NEW ht,
         Core(t, rt, orphan, lo, hi, top, ht), NEW p \in LeavesIn(t)
  PROVE  Ordered(t[p].entries, lo[p], hi[p]) /\ ht[p] = 0
<1>1. SortedLeaf(t, lo, hi, p) /\ ht[p] = 0
  BY DEF Core, Sorted
<1> QED BY <1>1 DEF SortedLeaf, Ordered

\* A leaf hands its upper entries to a new leaf.
CutLeafAt(t, p, first, second, q) ==
    [t EXCEPT ![p] = Leaf(first, q), ![q] = Leaf(second, t[p].next)]

\* Cutting a leaf at a key that divides its entries (BPlusTree::Insert, the split of a
\* leaf) keeps the core; the new leaf is pending until a parent adopts it.
LEMMA LeafCut ==
  ASSUME NEW t, NEW rt, NEW lo, NEW hi, NEW ht, Core(t, rt, NoPage, lo, hi, hi, ht),
         NEW p \in LeavesIn(t), NEW q \in FreeIn(t), NEW key \in Keys, lo[p] < key, key < hi[p],
         NEW first \in Seq(Entries), NEW second \in Seq(Entries),
         Ordered(first, lo[p], key), Ordered(second, key, hi[p]),
         NEW t2, t2 = CutLeafAt(t, p, first, second, q),
         NEW lo2, NEW hi2, NEW ht2, CutGhosts(lo, hi, ht, p, key, q, lo2, hi2, ht2)
  PROVE  /\ Core(t2, rt, q, lo2, hi2, Tops(hi2, p, q), ht2)
         /\ Pending(t2, lo2, hi2, ht2, p, key, q) /\ Cut(t, p, q, t2)
<1>1. t \in [Pages -> Nodes] /\ Ghosts(lo, hi, ht)
  BY DEF Core
<1>2. p \in Pages /\ q \in Pages /\ p \in NodesIn(t) /\ p # q /\ t[p].kind = "leaf" /\ p \notin InternalsIn(t)
  BY <1>1, PageKinds, LeafNode DEF FreeIn, NodesIn, Unused
<1>3. t[p].next \in Pages \cup {NoPage}
  BY <1>1, LeafNode
<1>4. /\ t2[p] = Leaf(first, q) /\ t2[q] = Leaf(second, t[p].next)
      /\ \A x \in Pages : x # p /\ x # q => t2[x] = t[x]
  BY <1>1, <1>2 DEF CutLeafAt
<1>5. /\ Leaf(first, q) \in Nodes /\ Leaf(second, t[p].next) \in Nodes
  BY <1>2, <1>3, MakeLeaf
<1>6. t2 \in [Pages -> Nodes]
  BY <1>1, <1>5 DEF CutLeafAt
<1>7. /\ t2[p].kind = "leaf" /\ t2[p].entries = first /\ t2[p].next = q
      /\ t2[q].kind = "leaf" /\ t2[q].entries = second /\ t2[q].next = t[p].next
  BY <1>4 DEF Leaf
<1>8. Cut(t, p, q, t2)
  BY <1>2, <1>4, <1>6, <1>7 DEF Cut
<1>9. lo2[p] = lo[p] /\ lo2[q] = key /\ hi2[p] = key /\ hi2[q] = hi[p]
  <2>1. key \in Int
    BY TreeAssumption
  <2>2. PICK top2 : top2 = Tops(hi2, p, q)
    OBVIOUS
  <2> QED BY <2>1, <2>2, <1>1, <1>2, CutGhostValues
<1>10. CutLeaf(t, lo2, hi2, t2, p, q)
  BY <1>7, <1>9, OrderedLeaf DEF CutLeaf
<1>11. \A x \in NodesIn(t) : ht[x] < ht[p] => Clear(key, lo, hi, x)
  <2>1. ht[p] = 0
    BY LeafOrdered
  <2>2. \A x \in NodesIn(t) : ht[x] \in Nat
    BY CoreTypes
  <2> QED BY <2>1, <2>2
<1>12. PICK top2 : top2 = Tops(hi2, p, q)
  OBVIOUS
<1>13. Core(t2, rt, q, lo2, hi2, top2, ht2) /\ Pending(t2, lo2, hi2, ht2, p, key, q)
  BY <1>2, <1>8, <1>10, <1>11, <1>12, NodeCut
<1> QED BY <1>8, <1>12, <1>13

\* What goes into the two halves of an internal node.
LEMMA HalvesOf ==
  ASSUME NEW n, NEW N \in Nat, n.keys \in Seq(Keys), Len(n.keys) = N,
         n.kids \in Seq(Pages), Len(n.kids) = N + 1, NEW m \in 1..N
  PROVE  /\ Lower(n, m) \in Nodes /\ Upper(n, m) \in Nodes
         /\ Lower(n, m).kind = "internal" /\ Upper(n, m).kind = "internal"
         /\ Len(Lower(n, m).keys) = m - 1 /\ Len(Lower(n, m).kids) = m
         /\ Len(Upper(n, m).keys) = N - m /\ Len(Upper(n, m).kids) = N + 1 - m
         /\ \A j \in 1..(m - 1) : Lower(n, m).keys[j] = n.keys[j]
         /\ \A j \in 1..m : Lower(n, m).kids[j] = n.kids[j]
         /\ \A j \in 1..(N - m) : Upper(n, m).keys[j] = n.keys[m + j]
         /\ \A j \in 1..(N + 1 - m) : Upper(n, m).kids[j] = n.kids[m + j]
<1>1. PICK a, b : a = SubSeq(n.keys, 1, m - 1) /\ b = SubSeq(n.kids, 1, m)
  OBVIOUS
<1>2. PICK c, d : c = SubSeq(n.keys, m + 1, N) /\ d = SubSeq(n.kids, m + 1, N + 1)
  OBVIOUS
<1>3. a \in Seq(Keys) /\ Len(a) = m - 1 /\ \A j \in 1..(m - 1) : a[j] = n.keys[j]
  <2>1. /\ SubSeq(n.keys, 1, m - 1) \in Seq(Keys) /\ Len(SubSeq(n.keys, 1, m - 1)) = (m - 1) - 1 + 1
        /\ \A j \in 1..((m - 1) - 1 + 1) : SubSeq(n.keys, 1, m - 1)[j] = n.keys[1 + j - 1]
    BY SubSeqFacts
  <2> QED BY <2>1, <1>1
<1>4. b \in Seq(Pages) /\ Len(b) = m /\ \A j \in 1..m : b[j] = n.kids[j]
  <2>1. /\ SubSeq(n.kids, 1, m) \in Seq(Pages) /\ Len(SubSeq(n.kids, 1, m)) = m - 1 + 1
        /\ \A j \in 1..(m - 1 + 1) : SubSeq(n.kids, 1, m)[j] = n.kids[1 + j - 1]
    BY SubSeqFacts
  <2> QED BY <2>1, <1>1
<1>5. c \in Seq(Keys) /\ Len(c) = N - m /\ \A j \in 1..(N - m) : c[j] = n.keys[m + j]
  <2>1. /\ SubSeq(n.keys, m + 1, N) \in Seq(Keys) /\ Len(SubSeq(n.keys, m + 1, N)) = N - (m + 1) + 1
        /\ \A j \in 1..(N - (m + 1) + 1) : SubSeq(n.keys, m + 1, N)[j] = n.keys[(m + 1) + j - 1]
    BY SubSeqFacts
  <2> QED BY <2>1, <1>2
<1>6. d \in Seq(Pages) /\ Len(d) = N + 1 - m /\ \A j \in 1..(N + 1 - m) : d[j] = n.kids[m + j]
  <2>1. /\ SubSeq(n.kids, m + 1, N + 1) \in Seq(Pages) /\ Len(SubSeq(n.kids, m + 1, N + 1)) = (N + 1) - (m + 1) + 1
        /\ \A j \in 1..((N + 1) - (m + 1) + 1) : SubSeq(n.kids, m + 1, N + 1)[j] = n.kids[(m + 1) + j - 1]
    BY SubSeqFacts
  <2> QED BY <2>1, <1>2
<1>7. Lower(n, m) = Internal(a, b) /\ Upper(n, m) = Internal(c, d)
  BY <1>1, <1>2 DEF Lower, Upper
<1>8. Len(b) = Len(a) + 1 /\ Len(d) = Len(c) + 1
  BY <1>3, <1>4, <1>5, <1>6
<1>9. /\ Lower(n, m) \in Nodes /\ Lower(n, m).kind = "internal"
      /\ Lower(n, m).keys = a /\ Lower(n, m).kids = b
  BY <1>3, <1>4, <1>7, <1>8, MakeInternal
<1>10. /\ Upper(n, m) \in Nodes /\ Upper(n, m).kind = "internal"
       /\ Upper(n, m).keys = c /\ Upper(n, m).kids = d
  BY <1>5, <1>6, <1>7, <1>8, MakeInternal
<1> QED BY <1>3, <1>4, <1>5, <1>6, <1>9, <1>10

\* The parts of the invariant about one internal node, whose N keys and N + 1
\* children are at hand.
LEMMA SortedBy ==
  ASSUME NEW t, NEW lo, NEW hi, NEW p, NEW n, NEW N, NEW a, NEW b,
         t[p] = n, Len(n.keys) = N, lo[p] = a, hi[p] = b,
         \A i \in 1..N : a < n.keys[i] /\ n.keys[i] < b,
         \A i, j \in 1..N : i < j => n.keys[i] < n.keys[j]
  PROVE  SortedInternal(t, lo, hi, p)
BY DEF SortedInternal

\* An internal node hands its upper children to a new node.
CutInternalAt(t, p, m, q) ==
    [t EXCEPT ![p] = Lower(t[p], m), ![q] = Upper(t[p], m)]

\* Cutting an internal node at one of its keys, which goes up (InsertIntoParent, the split
\* of an internal node), keeps the core; the new node is pending.
LEMMA InternalCut ==
  ASSUME NEW t, NEW rt, NEW lo, NEW hi, NEW ht, Core(t, rt, NoPage, lo, hi, hi, ht),
         NEW p \in InternalsIn(t), NEW q \in FreeIn(t),
         NEW m \in 1..Len(t[p].keys), NEW key, key = t[p].keys[m],
         NEW t2, t2 = CutInternalAt(t, p, m, q),
         NEW lo2, NEW hi2, NEW ht2, CutGhosts(lo, hi, ht, p, key, q, lo2, hi2, ht2)
  PROVE  /\ Core(t2, rt, q, lo2, hi2, Tops(hi2, p, q), ht2)
         /\ Pending(t2, lo2, hi2, ht2, p, key, q) /\ Cut(t, p, q, t2)
<1>1. t \in [Pages -> Nodes] /\ Ghosts(lo, hi, ht)
  BY DEF Core
<1>2. PICK n, N : n = t[p] /\ N = Len(t[p].keys)
  OBVIOUS
<1>3. /\ p \in Pages /\ n.kind = "internal" /\ n.keys \in Seq(Keys) /\ n.kids \in Seq(Pages)
      /\ Len(n.keys) = N /\ Len(n.kids) = N + 1 /\ N \in Nat /\ m \in 1..N
  BY <1>1, <1>2, InternalNode
<1>4. q \in Pages /\ p \in NodesIn(t) /\ p # q /\ p \notin LeavesIn(t) /\ q \notin NodesIn(t)
  BY <1>1, PageKinds DEF FreeIn, NodesIn
<1>5. PICK L, U : L = Lower(n, m) /\ U = Upper(n, m)
  OBVIOUS
<1>6. /\ L \in Nodes /\ U \in Nodes /\ L.kind = "internal" /\ U.kind = "internal"
      /\ Len(L.keys) = m - 1 /\ Len(L.kids) = m
      /\ Len(U.keys) = N - m /\ Len(U.kids) = N + 1 - m
  <2>1. /\ Lower(n, m) \in Nodes /\ Upper(n, m) \in Nodes
        /\ Lower(n, m).kind = "internal" /\ Upper(n, m).kind = "internal"
    BY ONLY <1>3, HalvesOf
  <2>2. Len(Lower(n, m).keys) = m - 1 /\ Len(Lower(n, m).kids) = m
    BY ONLY <1>3, HalvesOf
  <2>3. Len(Upper(n, m).keys) = N - m /\ Len(Upper(n, m).kids) = N + 1 - m
    BY ONLY <1>3, HalvesOf
  <2> QED BY ONLY <2>1, <2>2, <2>3, <1>5
<1>7. /\ \A j \in 1..(m - 1) : L.keys[j] = n.keys[j]
      /\ \A j \in 1..m : L.kids[j] = n.kids[j]
      /\ \A j \in 1..(N - m) : U.keys[j] = n.keys[m + j]
      /\ \A j \in 1..(N + 1 - m) : U.kids[j] = n.kids[m + j]
  <2>1. \A j \in 1..(m - 1) : L.keys[j] = n.keys[j]
    BY ONLY <1>3, <1>5, HalvesOf, ZenonT(60)
  <2>2. \A j \in 1..m : L.kids[j] = n.kids[j]
    BY ONLY <1>3, <1>5, HalvesOf, ZenonT(60)
  <2>3. \A j \in 1..(N - m) : U.keys[j] = n.keys[m + j]
    BY ONLY <1>3, <1>5, HalvesOf, ZenonT(60)
  <2>4. \A j \in 1..(N + 1 - m) : U.kids[j] = n.kids[m + j]
    BY ONLY <1>3, <1>5, HalvesOf, ZenonT(60)
  <2> QED BY ONLY <2>1, <2>2, <2>3, <2>4
<1>8. t2[p] = L /\ t2[q] = U /\ \A x \in Pages : x # p /\ x # q => t2[x] = t[x]
  BY <1>1, <1>2, <1>3, <1>4, <1>5 DEF CutInternalAt
<1>9. t2 \in [Pages -> Nodes]
  BY <1>1, <1>2, <1>5, <1>6 DEF CutInternalAt
<1>10. Cut(t, p, q, t2)
  BY <1>2, <1>3, <1>4, <1>6, <1>8, <1>9 DEF Cut
<1>11. key = n.keys[m] /\ KeyOf(t, p, key)
  BY <1>2, <1>3 DEF KeyOf
<1>12. key \in Keys /\ key \in Int /\ lo[p] < key /\ key < hi[p]
  BY <1>11, KeyBetween
<1>13. PICK top2 : top2 = Tops(hi2, p, q)
  OBVIOUS
<1>14. /\ lo2[q] = key /\ hi2[p] = key /\ hi2[q] = hi[p] /\ ht2[q] = ht[p]
       /\ \A x \in Pages : x # q => lo2[x] = lo[x] /\ ht2[x] = ht[x] /\ top2[x] = hi[x]
  BY <1>1, <1>3, <1>4, <1>12, <1>13, CutGhostValues
<1>15. lo2[p] = lo[p] /\ ht2[p] = ht[p]
  BY <1>3, <1>4, <1>14
<1>16. SortedInternal(t, lo, hi, p)
  BY DEF Core, Sorted
<1>17. /\ \A i \in 1..N : lo[p] < n.keys[i] /\ n.keys[i] < hi[p]
       /\ \A i, j \in 1..N : i < j => n.keys[i] < n.keys[j]
  BY <1>2, <1>16 DEF SortedInternal
<1>18. \A i \in 1..N : n.keys[i] \in Int
  <2>1. \A k \in Keys : k \in Int
    BY TreeAssumption
  <2> QED BY ONLY <2>1, <1>3
<1>19. SortedInternal(t2, lo2, hi2, p)
  <2>1. ASSUME NEW i \in 1..(m - 1)
        PROVE  i \in 1..N /\ L.keys[i] = n.keys[i] /\ lo[p] < L.keys[i] /\ L.keys[i] < key
    <3>1. i \in 1..N /\ i < m /\ L.keys[i] = n.keys[i]
      BY <1>3, <1>7
    <3> QED BY <3>1, <1>3, <1>11, <1>17
  <2>2. \A i, j \in 1..(m - 1) : i < j => L.keys[i] < L.keys[j]
    BY <2>1, <1>17
  <2>3. t2[p] = L /\ Len(L.keys) = m - 1 /\ lo2[p] = lo[p] /\ hi2[p] = key
    BY ONLY <1>6, <1>8, <1>14, <1>15
  <2> QED BY ONLY <2>1, <2>2, <2>3, SortedBy
<1>20. SortedInternal(t2, lo2, hi2, q)
  <2>1. ASSUME NEW i \in 1..(N - m)
        PROVE  m + i \in 1..N /\ U.keys[i] = n.keys[m + i] /\ key < U.keys[i] /\ U.keys[i] < hi[p]
    <3>1. m + i \in 1..N /\ m < m + i /\ U.keys[i] = n.keys[m + i]
      BY <1>3, <1>7
    <3> QED BY <3>1, <1>3, <1>11, <1>17
  <2>2. ASSUME NEW i \in 1..(N - m), NEW j \in 1..(N - m), i < j PROVE U.keys[i] < U.keys[j]
    <3>1. m + i < m + j
      BY <2>2, <1>3
    <3> QED BY <3>1, <2>1, <1>17
  <2>3. t2[q] = U /\ Len(U.keys) = N - m /\ lo2[q] = key /\ hi2[q] = hi[p]
    BY ONLY <1>6, <1>8, <1>14
  <2> QED BY ONLY <2>1, <2>2, <2>3, SortedBy
<1>21. ASSUME NEW i \in 1..(N + 1), NEW c, c = n.kids[i]
       PROVE  /\ c \in NodesIn(t2) /\ ht[p] = ht2[c] + 1
              /\ lo2[c] = (IF i = 1 THEN lo[p] ELSE n.keys[i - 1])
              /\ top2[c] = (IF i = N + 1 THEN hi[p] ELSE n.keys[i])
  <2>1. i \in 1..Len(t[p].kids) /\ c = t[p].kids[i]
    BY <1>2, <1>3, <1>21
  <2>2. /\ c \in NodesIn(t) /\ c \in Pages /\ ht[p] = ht[c] + 1
        /\ lo[c] = LowerOf(t, lo, p, i) /\ hi[c] = UpperOf(t, hi, p, i)
    BY <2>1, KidFacts
  <2>3. c # q /\ c \in NodesIn(t2)
    BY <2>2, <1>1, <1>4, <1>10, CutNodes
  <2>4. ht2[c] = ht[c] /\ lo2[c] = lo[c] /\ top2[c] = hi[c]
    BY <2>2, <2>3, <1>14
  <2> QED BY <2>2, <2>3, <2>4, <1>2, <1>3 DEF LowerOf, UpperOf
<1>22. LinkedAt(t2, lo2, hi2, top2, ht2, p)
  <2>1. ASSUME NEW i \in 1..m
        PROVE  /\ L.kids[i] \in NodesIn(t2) /\ ht[p] = ht2[L.kids[i]] + 1
               /\ lo2[L.kids[i]] = (IF i = 1 THEN lo[p] ELSE L.keys[i - 1])
               /\ top2[L.kids[i]] = (IF i = m THEN key ELSE L.keys[i])
    <3>1. i \in 1..(N + 1) /\ i # N + 1 /\ L.kids[i] = n.kids[i]
      BY <1>3, <1>7
    <3>2. i # 1 => L.keys[i - 1] = n.keys[i - 1]
      <4>1. i # 1 => i - 1 \in 1..(m - 1)
        BY <1>3
      <4> QED BY <4>1, <1>7
    <3>3. i # m => L.keys[i] = n.keys[i]
      <4>1. i # m => i \in 1..(m - 1)
        BY <1>3
      <4> QED BY <4>1, <1>7
    <3>4. PICK c : c = L.kids[i]
      OBVIOUS
    <3>5. /\ c \in NodesIn(t2) /\ ht[p] = ht2[c] + 1
          /\ lo2[c] = (IF i = 1 THEN lo[p] ELSE n.keys[i - 1]) /\ top2[c] = n.keys[i]
      BY ONLY <3>1, <3>4, <1>21
    <3> QED BY ONLY <3>2, <3>3, <3>4, <3>5, <1>11
  <2> QED BY ONLY <2>1, <1>6, <1>8, <1>14, <1>15 DEF LinkedAt, LowerOf, UpperOf
<1>23. LinkedAt(t2, lo2, hi2, top2, ht2, q)
  <2>1. ASSUME NEW i \in 1..(N + 1 - m)
        PROVE  /\ U.kids[i] \in NodesIn(t2) /\ ht[p] = ht2[U.kids[i]] + 1
               /\ lo2[U.kids[i]] = (IF i = 1 THEN key ELSE U.keys[i - 1])
               /\ top2[U.kids[i]] = (IF i = N + 1 - m THEN hi[p] ELSE U.keys[i])
    <3>0. m + i \in 1..(N + 1) /\ m + i # 1 /\ (m + i = N + 1 <=> i = N + 1 - m)
      BY ONLY <1>3, i \in 1..(N + 1 - m)
    <3>1. m + i \in 1..(N + 1) /\ m + i # 1 /\ U.kids[i] = n.kids[m + i] /\ (m + i = N + 1 <=> i = N + 1 - m)
      BY ONLY <3>0, <1>7, i \in 1..(N + 1 - m)
    <3>2. i # 1 => U.keys[i - 1] = n.keys[(m + i) - 1]
      <4>1. i # 1 => i - 1 \in 1..(N - m) /\ m + (i - 1) = (m + i) - 1
        BY ONLY <1>3
      <4> QED BY <4>1, <1>7
    <3>3. i # N + 1 - m => U.keys[i] = n.keys[m + i]
      <4>1. i # N + 1 - m => i \in 1..(N - m)
        BY <1>3
      <4> QED BY <4>1, <1>7
    <3>4. i = 1 => (m + i) - 1 = m
      BY <1>3
    <3>5. PICK c : c = U.kids[i]
      OBVIOUS
    <3>6. /\ c \in NodesIn(t2) /\ ht[p] = ht2[c] + 1 /\ lo2[c] = n.keys[(m + i) - 1]
          /\ top2[c] = (IF i = N + 1 - m THEN hi[p] ELSE n.keys[m + i])
      BY ONLY <3>1, <3>5, <1>21
    <3> QED BY ONLY <3>2, <3>3, <3>4, <3>5, <3>6, <1>11
  <2> QED BY ONLY <2>1, <1>6, <1>8, <1>14 DEF LinkedAt, LowerOf, UpperOf
<1>24. \A x : KeyOf(t2, p, x) \/ KeyOf(t2, q, x) => KeyOf(t, p, x)
  <2>1. \A j \in 1..(m - 1) : j \in 1..N
    BY <1>3
  <2>2. \A j \in 1..(N - m) : m + j \in 1..N
    BY <1>3
  <2>3. \A x : KeyOf(t2, p, x) <=> \E j \in 1..(m - 1) : L.keys[j] = x
    BY ONLY <1>6, <1>8 DEF KeyOf
  <2>4. \A x : KeyOf(t2, q, x) <=> \E j \in 1..(N - m) : U.keys[j] = x
    BY ONLY <1>6, <1>8 DEF KeyOf
  <2>5. \A x : KeyOf(t, p, x) <=> \E j \in 1..N : n.keys[j] = x
    BY ONLY <1>2 DEF KeyOf
  <2> QED BY ONLY <2>1, <2>2, <2>3, <2>4, <2>5, <1>7
<1>25. ASSUME NEW x PROVE KidOf(t2, p, x) \/ KidOf(t2, q, x) <=> KidOf(t, p, x)
  <2>1. KidOf(t2, p, x) <=> \E i \in 1..m : n.kids[i] = x
    <3>1. KidOf(t2, p, x) <=> \E i \in 1..m : L.kids[i] = x
      BY ONLY <1>6, <1>8 DEF KidOf
    <3> QED BY <3>1, <1>7
  <2>2. KidOf(t2, q, x) <=> \E i \in 1..(N + 1 - m) : n.kids[m + i] = x
    <3>1. KidOf(t2, q, x) <=> \E i \in 1..(N + 1 - m) : U.kids[i] = x
      BY ONLY <1>6, <1>8 DEF KidOf
    <3> QED BY <3>1, <1>7
  <2>3. KidOf(t, p, x) <=> \E i \in 1..(N + 1) : n.kids[i] = x
    BY <1>2, <1>3 DEF KidOf
  <2>4. \A i \in 1..m : i \in 1..(N + 1)
    BY <1>3
  <2>5. \A i \in 1..(N + 1 - m) : m + i \in 1..(N + 1)
    BY <1>3
  <2>6. ASSUME NEW i \in 1..(N + 1), ~(i \in 1..m)
        PROVE  i - m \in 1..(N + 1 - m) /\ m + (i - m) = i
    BY <2>6, <1>3
  <2> QED BY <2>1, <2>2, <2>3, <2>4, <2>5, <2>6
<1>26. CutInternal(t, lo2, hi2, top2, ht2, t2, p, q)
  BY <1>19, <1>20, <1>22, <1>23, <1>24, <1>25 DEF CutInternal
<1>27. \A x \in NodesIn(t) : ht[x] < ht[p] => Clear(key, lo, hi, x)
  BY <1>11, NestedKey
<1>28. Core(t2, rt, q, lo2, hi2, top2, ht2) /\ Pending(t2, lo2, hi2, ht2, p, key, q)
  BY <1>4, <1>10, <1>12, <1>13, <1>26, <1>27, NodeCut
<1> QED BY <1>10, <1>13, <1>28

\* A leaf is on the lowest level, an internal node is not.
LEMMA KindHeight ==
  ASSUME NEW t, NEW rt, NEW orphan, NEW lo, NEW hi, NEW top, NEW ht,
         Core(t, rt, orphan, lo, hi, top, ht), NEW p \in NodesIn(t)
  PROVE  (p \in LeavesIn(t) <=> ht[p] = 0) /\ (p \in InternalsIn(t) <=> ht[p] # 0)
<1>1. /\ p \in LeavesIn(t) \/ p \in InternalsIn(t)
      /\ ~(p \in LeavesIn(t) /\ p \in InternalsIn(t))
  BY CoreTypes
<1>2. p \in LeavesIn(t) => ht[p] = 0
  BY DEF Core, Sorted
<1>3. ASSUME p \in InternalsIn(t) PROVE ht[p] # 0
  <2>1. t \in [Pages -> Nodes]
    BY DEF Core
  <2>2. Len(t[p].kids) = Len(t[p].keys) + 1 /\ t[p].keys \in Seq(Keys)
    BY <2>1, <1>3, InternalNode
  <2>3. 1 \in 1..Len(t[p].kids)
    BY <2>2
  <2>4. PICK c : c = t[p].kids[1]
    OBVIOUS
  <2>5. ht[p] = ht[c] + 1 /\ c \in Pages
    BY <1>3, <2>3, <2>4, KidFacts
  <2>6. ht[c] \in Nat
    BY <2>5, CoreTypes
  <2> QED BY <2>5, <2>6
<1> QED BY <1>1, <1>2, <1>3

\* The table after r was emptied into its left neighbour l.
Merge(t, l, r, t2) ==
    /\ t2 \in [Pages -> Nodes]
    /\ \A x \in Pages : x # l /\ x # r => t2[x] = t[x]
    /\ t2[r] = Unused /\ t2[l].kind = t[l].kind

MergeLeaf(t, lo, top, t2, l, r) ==
    SortedLeaf(t2, lo, top, l) /\ t2[l].next = t[r].next

MergeInternal(t, lo, top, ht, t2, l, key, r) ==
    /\ SortedInternal(t2, lo, top, l) /\ LinkedAt(t2, lo, top, top, ht, l)
    /\ \A x : KeyOf(t2, l, x) => KeyOf(t, l, x) \/ KeyOf(t, r, x) \/ x = key
    /\ \A x : KidOf(t2, l, x) <=> KidOf(t, l, x) \/ KidOf(t, r, x)

\* Emptying the pending node into its neighbour keeps the core, and nothing is
\* pending then; no node above may still hold the key between the two.
LEMMA NodesMerged ==
  ASSUME NEW t, NEW rt, NEW lo, NEW hi, NEW top, NEW ht, NEW l, NEW key, NEW r,
         Core(t, rt, r, lo, hi, top, ht), top = Tops(hi, l, r),
         Pending(t, lo, hi, ht, l, key, r),
         \A y \in InternalsIn(t) : ht[y] > ht[l] => ~KeyOf(t, y, key),
         NEW t2, Merge(t, l, r, t2),
         l \in LeavesIn(t) => MergeLeaf(t, lo, top, t2, l, r),
         l \in InternalsIn(t) => MergeInternal(t, lo, top, ht, t2, l, key, r)
  PROVE  /\ Core(t2, rt, NoPage, lo, top, top, ht)
         /\ LeavesIn(t2) = LeavesIn(t) \ {r} /\ InternalsIn(t2) = InternalsIn(t) \ {r}
<1>1. /\ t \in [Pages -> Nodes] /\ t2 \in [Pages -> Nodes] /\ Ghosts(lo, hi, ht)
      /\ top \in [Pages -> Int] /\ hi \in [Pages -> Int]
  BY DEF Core, Merge, Ghosts
<1>2. /\ l \in NodesIn(t) /\ r \in NodesIn(t) /\ l # r /\ ht[l] = ht[r]
      /\ key \in Int /\ hi[l] = key /\ lo[r] = key
      /\ \A p \in NodesIn(t) : ht[p] <= ht[l] => Clear(key, lo, hi, p)
  BY TreeAssumption DEF Pending
<1>3. /\ NodesIn(t) \subseteq Pages /\ InternalsIn(t) \subseteq NodesIn(t)
      /\ LeavesIn(t) \subseteq NodesIn(t) /\ rt \in NodesIn(t)
      /\ \A x \in Pages : lo[x] \in Int /\ hi[x] \in Int /\ top[x] \in Int /\ ht[x] \in Nat
      /\ \A x \in NodesIn(t) : x \in LeavesIn(t) \/ x \in InternalsIn(t)
      /\ \A x \in LeavesIn(t) : x \notin InternalsIn(t)
  BY CoreTypes
<1>4. top[l] = hi[r] /\ \A x \in Pages : x # l => top[x] = hi[x]
  <2>1. top = [hi EXCEPT ![l] = hi[r]] /\ l \in Pages
    BY <1>2, <1>3 DEF Tops
  <2> QED BY <2>1, <1>1
<1>5. \A x \in NodesIn(t) : x # l /\ x # r => t2[x] = t[x]
  BY <1>3 DEF Merge
<1>6. (l \in LeavesIn(t) <=> r \in LeavesIn(t)) /\ (l \in InternalsIn(t) <=> r \in InternalsIn(t))
  BY <1>2, KindHeight
<1>7. LeavesIn(t2) = LeavesIn(t) \ {r} /\ InternalsIn(t2) = InternalsIn(t) \ {r}
  <2>1. ASSUME NEW x \in Pages
        PROVE  /\ x \in LeavesIn(t2) <=> x \in LeavesIn(t) \ {r}
               /\ x \in InternalsIn(t2) <=> x \in InternalsIn(t) \ {r}
    <3>1. CASE x = r
      BY <3>1 DEF Merge, LeavesIn, InternalsIn, Unused
    <3>2. CASE x = l
      <4>1. t2[x].kind = t[x].kind
        BY <3>2 DEF Merge
      <4> QED BY <4>1, <3>2, <1>2 DEF LeavesIn, InternalsIn
    <3>3. CASE x # l /\ x # r
      <4>1. t2[x] = t[x]
        BY <3>3 DEF Merge
      <4> QED BY <4>1, <3>3 DEF LeavesIn, InternalsIn
    <3> QED BY <3>1, <3>2, <3>3
  <2>2. LeavesIn(t2) \subseteq Pages /\ InternalsIn(t2) \subseteq Pages
    BY DEF LeavesIn, InternalsIn
  <2> QED BY <2>1, <2>2, <1>3
<1>8. NodesIn(t2) = NodesIn(t) \ {r}
  BY <1>7 DEF NodesIn
<1>9. r # rt
  <2> SUFFICES ASSUME r = rt PROVE FALSE
    OBVIOUS
  <2>1. PICK y \in InternalsIn(t) : KidOf(t, y, l)
    BY <1>2 DEF Core, Rooted
  <2>2. PICK i \in 1..Len(t[y].kids) : t[y].kids[i] = l
    BY <2>1 DEF KidOf
  <2>3. ht[y] = ht[l] + 1
    BY <2>2, KidFacts
  <2>4. ht[y] <= ht[rt]
    BY <1>3 DEF Core, Rooted
  <2> QED BY <2>3, <2>4, <1>2, <1>3
<1>10. Sorted(t2, lo, top, ht)
  <2>1. ASSUME NEW x \in NodesIn(t), x # r PROVE lo[x] < top[x]
    <3>1. lo[x] < hi[x] /\ lo[l] < hi[l] /\ lo[r] < hi[r]
      BY <1>2 DEF Core, Sorted
    <3>2. CASE x = l
      BY <3>1, <3>2, <1>2, <1>3, <1>4
    <3>3. CASE x # l
      BY <3>1, <3>3, <1>3, <1>4
    <3> QED BY <3>2, <3>3
  <2>2. ASSUME NEW x \in LeavesIn(t), x # r PROVE ht[x] = 0 /\ SortedLeaf(t2, lo, top, x)
    <3>1. ht[x] = 0 /\ SortedLeaf(t, lo, hi, x) /\ x \in NodesIn(t)
      BY <1>3 DEF Core, Sorted
    <3>2. CASE x = l
      BY <2>2, <3>1, <3>2 DEF MergeLeaf
    <3>3. CASE x # l
      <4>1. t2[x] = t[x] /\ top[x] = hi[x]
        BY <2>2, <3>1, <3>3, <1>3, <1>4, <1>5
      <4> QED BY <3>1, <4>1, SameLeaf
    <3> QED BY <3>2, <3>3
  <2>3. ASSUME NEW x \in InternalsIn(t), x # r PROVE SortedInternal(t2, lo, top, x)
    <3>1. SortedInternal(t, lo, hi, x) /\ x \in NodesIn(t)
      BY <1>3 DEF Core, Sorted
    <3>2. CASE x = l
      BY <2>3, <3>2 DEF MergeInternal
    <3>3. CASE x # l
      <4>1. t2[x] = t[x] /\ top[x] = hi[x]
        BY <2>3, <3>1, <3>3, <1>3, <1>4, <1>5
      <4> QED BY <3>1, <4>1, SameInternal
    <3> QED BY <3>2, <3>3
  <2> QED BY <2>1, <2>2, <2>3, <1>7, <1>8 DEF Sorted
<1>11. \A x \in InternalsIn(t) : \A c : KidOf(t, x, c) => c \in NodesIn(t) /\ c # r
  <2>1. \A x \in InternalsIn(t) : ~KidOf(t, x, r)
    BY DEF Core, Rooted
  <2> QED BY <2>1 DEF KidOf, Core, Linked, LinkedAt
<1>12. Linked(t2, lo, top, top, ht)
  <2> SUFFICES ASSUME NEW x \in InternalsIn(t), x # r PROVE LinkedAt(t2, lo, top, top, ht, x)
    BY <1>7 DEF Linked
  <2>1. CASE x = l
    BY <2>1 DEF MergeInternal
  <2>2. CASE x # l
    <3>1. LinkedAt(t, lo, hi, top, ht, x) /\ x \in NodesIn(t)
      BY <1>3 DEF Core, Linked
    <3>2. t2[x] = t[x] /\ top[x] = hi[x]
      BY <2>2, <3>1, <1>3, <1>4, <1>5
    <3>3. ASSUME NEW i \in 1..Len(t[x].kids) PROVE t[x].kids[i] \in NodesIn(t2)
      <4>1. KidOf(t, x, t[x].kids[i])
        BY DEF KidOf
      <4> QED BY <4>1, <1>8, <1>11
    <3> QED BY <3>1, <3>2, <3>3, SameLinks
  <2> QED BY <2>1, <2>2
<1>13. Rooted(t2, rt, NoPage, lo, top, ht)
  <2>1. rt \in NodesIn(t2) /\ lo[rt] = Low /\ top[rt] = High /\ \A x \in NodesIn(t2) : ht[x] <= ht[rt]
    BY <1>3, <1>8, <1>9 DEF Core, Rooted
  <2>2. ASSUME NEW x \in NodesIn(t), x # r, x # rt PROVE \E y \in InternalsIn(t2) : KidOf(t2, y, x)
    <3>1. PICK y \in InternalsIn(t) : KidOf(t, y, x)
      BY <2>2 DEF Core, Rooted
    <3>2. CASE y # l /\ y # r
      <4>1. t2[y] = t[y] /\ y \in InternalsIn(t2)
        BY <3>2, <1>3, <1>5, <1>7
      <4>2. KidOf(t2, y, x)
        BY <4>1, <3>1 DEF KidOf
      <4> QED BY <4>1, <4>2
    <3>3. CASE y = l \/ y = r
      <4>1. l \in InternalsIn(t) /\ l \in InternalsIn(t2)
        BY <3>3, <1>2, <1>6, <1>7
      <4>2. KidOf(t2, l, x)
        BY <4>1, <3>1, <3>3 DEF MergeInternal
      <4> QED BY <4>1, <4>2
    <3> QED BY <3>2, <3>3
  <2>3. ASSUME NEW y \in InternalsIn(t2), KidOf(t2, y, NoPage) PROVE FALSE
    <3>1. t2[y].kids \in Seq(Pages)
      BY <1>1, InternalNode
    <3>2. NoPage \in Pages
      BY <3>1, <2>3 DEF KidOf
    <3> QED BY <3>2, TreeAssumption
  <2> QED BY <2>1, <2>2, <2>3, <1>8 DEF Rooted
<1>14. \A x, y \in NodesIn(t) : x # y /\ ht[x] = ht[y] => hi[x] <= lo[y] \/ hi[y] <= lo[x]
  BY DEF Core, Apart
<1>15. \A x \in NodesIn(t) : lo[x] < hi[x]
  BY DEF Core, Sorted
<1>16. Apart(t2, lo, top, ht)
  <2>1. ASSUME NEW x \in NodesIn(t), x # l, x # r, ht[x] = ht[l]
        PROVE  top[x] <= lo[l] \/ top[l] <= lo[x]
    <3>1. hi[x] <= lo[l] \/ key <= lo[x]
      BY <2>1, <1>2, <1>14
    <3>2. hi[x] <= key \/ hi[r] <= lo[x]
      BY <2>1, <1>2, <1>14
    <3>3. lo[x] < hi[x] /\ top[x] = hi[x] /\ top[l] = hi[r] /\ x \in Pages
      BY <2>1, <1>3, <1>4, <1>15
    <3>4. lo[x] \in Int /\ hi[x] \in Int
      BY <3>3, <1>3
    <3> QED BY ONLY <3>1, <3>2, <3>3, <3>4, <1>2
  <2> SUFFICES ASSUME NEW x \in NodesIn(t), NEW y \in NodesIn(t), x # r, y # r, x # y, ht[x] = ht[y]
               PROVE  top[x] <= lo[y] \/ top[y] <= lo[x]
    BY <1>8 DEF Apart
  <2>2. CASE x # l /\ y # l
    BY <2>2, <1>3, <1>4, <1>14
  <2>3. CASE x = l
    BY <2>1, <2>3
  <2>4. CASE y = l
    BY <2>1, <2>4
  <2> QED BY <2>2, <2>3, <2>4
<1>17. Nested(t2, lo, top, ht)
  <2> SUFFICES ASSUME NEW y \in InternalsIn(t), NEW x \in NodesIn(t), x # r, y # r, ht[x] < ht[y],
                      NEW j \in 1..Len(t2[y].keys), NEW z, z = t2[y].keys[j]
               PROVE  Clear(z, lo, top, x)
    BY <1>7, <1>8 DEF Nested, NestedAt
  <2>1. KeyOf(t2, y, z)
    BY DEF KeyOf
  <2>2. CASE y = l
    <3>1. KeyOf(t, l, z) \/ KeyOf(t, r, z) \/ z = key
      BY <2>1, <2>2 DEF MergeInternal
    <3>2. x # l /\ ht[x] < ht[l] /\ ht[x] < ht[r] /\ ht[x] <= ht[l] /\ x \in Pages
      BY <2>2, <1>2, <1>3
    <3>3. Clear(z, lo, hi, x)
      <4>1. CASE z = key
        BY <4>1, <3>2, <1>2
      <4>2. CASE KeyOf(t, l, z)
        BY <4>2, <3>2, <2>2, NestedKey
      <4>3. CASE KeyOf(t, r, z)
        <5>1. r \in InternalsIn(t)
          BY <2>2, <1>6
        <5> QED BY <5>1, <4>3, <3>2, NestedKey
      <4> QED BY <3>1, <4>1, <4>2, <4>3
    <3> QED BY <3>2, <3>3, <1>4 DEF Clear
  <2>3. CASE y # l
    <3>1. KeyOf(t, y, z)
      <4>1. t2[y] = t[y]
        BY <2>3, <1>3, <1>5
      <4> QED BY <4>1, <2>1 DEF KeyOf
    <3>2. Clear(z, lo, hi, x) /\ z \in Int
      BY <3>1, NestedKey, KeyBetween
    <3>3. CASE x # l
      BY <3>2, <3>3, <1>3, <1>4 DEF Clear
    <3>4. CASE x = l
      <4>1. Clear(z, lo, hi, r)
        <5>1. ht[r] < ht[y]
          BY <3>4, <1>2
        <5> QED BY <5>1, <3>1, <1>2, NestedKey
      <4>2. z # key
        <5>1. ht[y] > ht[l] 
          BY <3>4, <1>2, <1>3
        <5> QED BY <5>1, <3>1
      <4>3. /\ z <= lo[l] \/ key <= z
            /\ z <= key \/ hi[r] <= z
        BY <4>1, <3>2, <3>4, <1>2 DEF Clear
      <4>4. top[l] = hi[r] /\ lo[l] \in Int /\ hi[r] \in Int
        BY <1>2, <1>3, <1>4
      <4>5. z <= lo[l] \/ hi[r] <= z
        BY ONLY <4>2, <4>3, <4>4, <3>2, <1>2
      <4> QED BY <4>4, <4>5, <3>4 DEF Clear
    <3> QED BY <3>3, <3>4
  <2> QED BY <2>2, <2>3
<1>18. Chain(t2, lo, top)
  <2> SUFFICES ASSUME NEW x \in LeavesIn(t), x # r
               PROVE  IF t2[x].next = NoPage THEN top[x] = High
                      ELSE t2[x].next \in LeavesIn(t) /\ t2[x].next # r /\ lo[t2[x].next] = top[x]
    BY <1>7 DEF Chain
  <2>1. \A y \in LeavesIn(t) : IF t[y].next = NoPage THEN hi[y] = High
                               ELSE t[y].next \in LeavesIn(t) /\ lo[t[y].next] = hi[y]
    BY DEF Core, Chain
  <2>2. CASE x = l
    <3>1. t2[x].next = t[r].next /\ r \in LeavesIn(t) /\ top[x] = hi[r]
      BY <2>2, <1>4, <1>6 DEF MergeLeaf
    <3>2. CASE t[r].next = NoPage
      BY <3>1, <3>2, <2>1
    <3>3. CASE t[r].next # NoPage
      <4>1. t[r].next \in LeavesIn(t) /\ lo[t[r].next] = hi[r]
        BY <3>1, <3>3, <2>1
      <4>2. lo[r] < hi[r] /\ lo[r] \in Int /\ hi[r] \in Int
        BY <1>2, <1>3, <1>15
      <4>3. t[r].next # r
        BY <4>1, <4>2
      <4> QED BY <3>1, <3>3, <4>1, <4>3
    <3> QED BY <3>2, <3>3
  <2>3. CASE x # l
    <3>1. t2[x] = t[x] /\ top[x] = hi[x] /\ x \in NodesIn(t)
      BY <2>3, <1>3, <1>4, <1>5
    <3>2. t[x].next # r
      <4> SUFFICES ASSUME t[x].next = r PROVE FALSE
        OBVIOUS
      <4>1. r # NoPage /\ r \in LeavesIn(t) /\ hi[x] = key
        <5>1. r # NoPage
          BY <1>2, <1>3, TreeAssumption
        <5> QED BY <5>1, <2>1, <1>2
      <4>2. ht[x] = ht[l]
        BY <4>1, <1>2, KindHeight, <3>1
      <4>3. hi[x] <= lo[l] \/ hi[l] <= lo[x]
        BY <2>3, <3>1, <4>2, <1>2, <1>14
      <4>4. lo[x] < hi[x] /\ lo[l] < hi[l]
        BY <3>1, <1>2, <1>15
      <4>5. lo[x] \in Int /\ lo[l] \in Int
        BY <3>1, <1>2, <1>3
      <4> QED BY <4>1, <4>3, <4>4, <4>5, <1>2
    <3> QED BY <2>1, <3>1, <3>2
  <2> QED BY <2>2, <2>3
<1>19. Ghosts(lo, top, ht)
  BY <1>1 DEF Ghosts
<1> QED BY <1>1, <1>7, <1>10, <1>12, <1>13, <1>16, <1>17, <1>18, <1>19 DEF Core

\* Two runs of entries in order, one below the other, make one run in order.
LEMMA OrderedConcat ==
  ASSUME NEW e \in Seq(Entries), NEW f \in Seq(Entries), NEW a \in Int, NEW b \in Int, NEW c \in Int,
         a <= b, b <= c, Ordered(e, a, b), Ordered(f, b, c)
  PROVE  e \o f \in Seq(Entries) /\ Ordered(e \o f, a, c)
<1>1. PICK g, M, N : g = e \o f /\ M = Len(e) /\ N = Len(f)
  OBVIOUS
<1>2. M \in Nat /\ N \in Nat
  BY <1>1
<1>3. /\ g \in Seq(Entries) /\ Len(g) = M + N
      /\ \A j \in 1..(M + N) : g[j] = IF j <= M THEN e[j] ELSE f[j - M]
  BY <1>1, ConcatFacts
<1>4. \A x \in Entries : x.key \in Int
  BY TreeAssumption DEF Entries
<1>5. /\ \A i \in 1..M : e[i].key \in Int /\ a <= e[i].key /\ e[i].key < b
      /\ \A i, j \in 1..M : i < j => e[i].key < e[j].key
  BY <1>1, <1>4 DEF Ordered
<1>6. /\ \A i \in 1..N : f[i].key \in Int /\ b <= f[i].key /\ f[i].key < c
      /\ \A i, j \in 1..N : i < j => f[i].key < f[j].key
  BY <1>1, <1>4 DEF Ordered
<1>7. ASSUME NEW i \in 1..(M + N)
      PROVE  a <= g[i].key /\ g[i].key < c
  <2>1. CASE i <= M
    <3>1. i \in 1..M /\ g[i] = e[i]
      BY <2>1, <1>2, <1>3
    <3> QED BY <3>1, <1>5
  <2>2. CASE ~(i <= M)
    <3>1. i - M \in 1..N /\ g[i] = f[i - M]
      BY <2>2, <1>2, <1>3
    <3> QED BY <3>1, <1>6
  <2> QED BY <2>1, <2>2
<1>8. ASSUME NEW i \in 1..(M + N), NEW j \in 1..(M + N), i < j
      PROVE  g[i].key < g[j].key
  <2>1. CASE j <= M
    <3>1. i \in 1..M /\ j \in 1..M /\ g[i] = e[i] /\ g[j] = e[j]
      BY <2>1, <1>2, <1>3, <1>8
    <3> QED BY <3>1, <1>5, <1>8
  <2>2. CASE ~(i <= M)
    <3>1. i - M \in 1..N /\ g[i] = f[i - M] /\ j - M \in 1..N /\ g[j] = f[j - M] /\ i - M < j - M
      BY <2>2, <1>2, <1>3, <1>8
    <3> QED BY <3>1, <1>6
  <2>3. CASE i <= M /\ ~(j <= M)
    <3>1. i \in 1..M /\ j - M \in 1..N /\ g[i] = e[i] /\ g[j] = f[j - M]
      BY <2>3, <1>2, <1>3
    <3>2. /\ e[i].key \in Int /\ e[i].key < b
          /\ f[j - M].key \in Int /\ b <= f[j - M].key
      BY <3>1, <1>5, <1>6
    <3> QED BY <3>1, <3>2
  <2> QED BY <2>1, <2>2, <2>3
<1>9. Ordered(g, a, c)
  BY <1>3, <1>7, <1>8 DEF Ordered
<1> QED BY <1>1, <1>3, <1>9

\* J holds what n holds, the key, and what o holds; n has M keys, o has N.
JoinOf(J, n, M, key, o, N) ==
    /\ J \in Nodes /\ J.kind = "internal"
    /\ Len(J.keys) = M + 1 + N /\ Len(J.kids) = M + N + 2
    /\ \A j \in 1..(M + 1 + N) :
          J.keys[j] = IF j <= M THEN n.keys[j] ELSE IF j = M + 1 THEN key ELSE o.keys[j - (M + 1)]
    /\ \A j \in 1..(M + N + 2) :
          J.kids[j] = IF j <= M + 1 THEN n.kids[j] ELSE o.kids[j - (M + 1)]

\* What an internal node holds after it took in its neighbour.
LEMMA JoinedNodes ==
  ASSUME NEW n, NEW M \in Nat, n.keys \in Seq(Keys), Len(n.keys) = M,
         n.kids \in Seq(Pages), Len(n.kids) = M + 1, n.kind = "internal",
         NEW o, NEW N \in Nat, o.keys \in Seq(Keys), Len(o.keys) = N,
         o.kids \in Seq(Pages), Len(o.kids) = N + 1, NEW key \in Keys,
         NEW J, J = Joined(n, key, o)
  PROVE  JoinOf(J, n, M, key, o, N)
<1>1. PICK a, b, c : a = Append(n.keys, key) /\ b = a \o o.keys /\ c = n.kids \o o.kids
  OBVIOUS
<1>2. /\ a \in Seq(Keys) /\ Len(a) = M + 1
      /\ \A j \in 1..(M + 1) : a[j] = IF j <= M THEN n.keys[j] ELSE key
  BY <1>1, AppendFacts
<1>3. /\ b \in Seq(Keys) /\ Len(b) = M + 1 + N
      /\ \A j \in 1..(M + 1 + N) : b[j] = IF j <= M + 1 THEN a[j] ELSE o.keys[j - (M + 1)]
  <2>1. a \in Seq(Keys) /\ o.keys \in Seq(Keys) /\ Len(a) = M + 1 /\ Len(o.keys) = N
    BY <1>2
  <2>2. /\ a \o o.keys \in Seq(Keys) /\ Len(a \o o.keys) = Len(a) + Len(o.keys)
        /\ \A j \in 1..(Len(a) + Len(o.keys)) :
              (a \o o.keys)[j] = IF j <= Len(a) THEN a[j] ELSE o.keys[j - Len(a)]
    BY ONLY <2>1, ConcatFacts
  <2> QED BY <2>1, <2>2, <1>1
<1>4. /\ c \in Seq(Pages) /\ Len(c) = M + N + 2
      /\ \A j \in 1..(M + N + 2) : c[j] = IF j <= M + 1 THEN n.kids[j] ELSE o.kids[j - (M + 1)]
  <2>1. n.kids \in Seq(Pages) /\ o.kids \in Seq(Pages) /\ Len(n.kids) = M + 1 /\ Len(o.kids) = N + 1
    OBVIOUS
  <2>2. /\ n.kids \o o.kids \in Seq(Pages) /\ Len(n.kids \o o.kids) = Len(n.kids) + Len(o.kids)
        /\ \A j \in 1..(Len(n.kids) + Len(o.kids)) :
              (n.kids \o o.kids)[j] = IF j <= Len(n.kids) THEN n.kids[j] ELSE o.kids[j - Len(n.kids)]
    BY ONLY <2>1, ConcatFacts
  <2>3. (M + 1) + (N + 1) = M + N + 2
    OBVIOUS
  <2> QED BY <2>1, <2>2, <2>3, <1>1
<1>5. J = Internal(b, c)
  BY <1>1 DEF Joined
<1>6. Len(c) = Len(b) + 1
  BY <1>3, <1>4
<1>7. J \in Nodes /\ J.kind = "internal" /\ J.keys = b /\ J.kids = c
  BY <1>3, <1>4, <1>5, <1>6, MakeInternal
<1>8. ASSUME NEW j \in 1..(M + 1 + N)
      PROVE  b[j] = IF j <= M THEN n.keys[j] ELSE IF j = M + 1 THEN key ELSE o.keys[j - (M + 1)]
  <2>1. j <= M + 1 => j \in 1..(M + 1)
    OBVIOUS
  <2>2. (j <= M => j <= M + 1 /\ j # M + 1) /\ (j <= M + 1 /\ j # M + 1 => j <= M)
    OBVIOUS
  <2> QED BY <2>1, <2>2, <1>2, <1>3
<1> QED BY <1>3, <1>4, <1>7, <1>8 DEF JoinOf

\* r is emptied into l.
Emptied(t, l, key, r) == [t EXCEPT ![l] = Joined(t[l], key, t[r]), ![r] = Unused]

\* Emptying the pending node r into its left neighbour (MergeNodes) keeps the core, and
\* nothing is pending any more.
LEMMA PairMerged ==
  ASSUME NEW t, NEW rt, NEW lo, NEW hi, NEW top, NEW ht, NEW l, NEW key, NEW r,
         Loose(t, rt, lo, hi, top, ht, l, key, r), Unseparated(t, ht, l, key),
         NEW t2, t2 = Emptied(t, l, key, r)
  PROVE  /\ Core(t2, rt, NoPage, lo, top, top, ht) /\ Merge(t, l, r, t2)
         /\ LeavesIn(t2) = LeavesIn(t) \ {r} /\ InternalsIn(t2) = InternalsIn(t) \ {r}
<1>0. /\ Core(t, rt, r, lo, hi, top, ht) /\ top = Tops(hi, l, r)
      /\ Pending(t, lo, hi, ht, l, key, r)
      /\ \A y \in InternalsIn(t) : ht[y] > ht[l] => ~KeyOf(t, y, key)
  BY DEF Loose, Unseparated
<1>1. t \in [Pages -> Nodes] /\ hi \in [Pages -> Int]
  BY <1>0 DEF Core, Ghosts
<1>2. /\ l \in NodesIn(t) /\ r \in NodesIn(t) /\ l # r /\ ht[l] = ht[r] /\ l \in Pages /\ r \in Pages
      /\ key \in Keys /\ key \in Int /\ hi[l] = key /\ lo[r] = key
  BY <1>0, TreeAssumption, CoreTypes DEF Pending
<1>3. top[l] = hi[r] /\ top[r] = hi[r]
  BY <1>0, <1>1, <1>2 DEF Tops
<1>4. /\ lo[l] \in Int /\ hi[r] \in Int /\ lo[l] < key /\ key < hi[r]
  <2>1. lo[l] < hi[l] /\ lo[r] < hi[r]
    BY <1>0, <1>2 DEF Core, Sorted
  <2>2. lo[l] \in Int /\ hi[r] \in Int
    BY <1>0, <1>2, CoreTypes
  <2> QED BY <2>1, <2>2, <1>2
<1>5. PICK J : J = Joined(t[l], key, t[r])
  OBVIOUS
<1>6. t2[l] = J /\ t2[r] = Unused /\ \A x \in Pages : x # l /\ x # r => t2[x] = t[x]
  BY <1>1, <1>2, <1>5 DEF Emptied
<1>7. Unused \in Nodes
  BY DEF Nodes
<1>8. t2 = [t EXCEPT ![l] = J, ![r] = Unused]
  BY <1>5 DEF Emptied
<1>9. CASE l \in LeavesIn(t)
  <2>1. r \in LeavesIn(t) /\ l \notin InternalsIn(t)
    BY <1>0, <1>2, <1>9, KindHeight
  <2>2. /\ t[l].kind = "leaf" /\ t[l].entries \in Seq(Entries)
        /\ t[r].entries \in Seq(Entries) /\ t[r].next \in Pages \cup {NoPage}
    BY <1>1, <1>9, <2>1, LeafNode
  <2>3. PICK e, f : e = t[l].entries /\ f = t[r].entries
    OBVIOUS
  <2>4. Ordered(e, lo[l], key) /\ Ordered(f, key, hi[r])
    <3>1. Ordered(t[l].entries, lo[l], hi[l]) /\ Ordered(t[r].entries, lo[r], hi[r])
      BY <1>0, <1>9, <2>1, LeafOrdered
    <3> QED BY <3>1, <2>3, <1>2
  <2>5. e \o f \in Seq(Entries) /\ Ordered(e \o f, lo[l], hi[r])
    BY <1>2, <1>4, <2>2, <2>3, <2>4, OrderedConcat
  <2>6. PICK g : g = e \o f
    OBVIOUS
  <2>7. J = Leaf(g, t[r].next)
    BY <1>5, <2>2, <2>3, <2>6 DEF Joined
  <2>8. J \in Nodes /\ J.kind = "leaf" /\ J.entries = g /\ J.next = t[r].next
    <3>1. g \in Seq(Entries) /\ t[r].next \in Pages \cup {NoPage}
      BY ONLY <2>2, <2>5, <2>6
    <3> QED BY ONLY <3>1, <2>7, MakeLeaf
  <2>9. Merge(t, l, r, t2)
    BY <1>1, <1>6, <1>7, <1>8, <2>2, <2>8 DEF Merge
  <2>10. SortedLeaf(t2, lo, top, l)
    BY <2>5, <2>6, <2>8, <1>3, <1>6, OrderedLeaf
  <2>11. MergeLeaf(t, lo, top, t2, l, r)
    BY <2>8, <2>10, <1>6 DEF MergeLeaf
  <2> QED BY ONLY <1>0, <2>1, <2>9, <2>11, NodesMerged
<1>10. CASE l \in InternalsIn(t)
  <2>1. r \in InternalsIn(t) /\ l \notin LeavesIn(t)
    BY <1>0, <1>2, <1>10, KindHeight
  <2>2. PICK n, o, M, N : n = t[l] /\ o = t[r] /\ M = Len(t[l].keys) /\ N = Len(t[r].keys)
    OBVIOUS
  <2>3. /\ n.keys \in Seq(Keys) /\ Len(n.keys) = M /\ n.kids \in Seq(Pages) /\ Len(n.kids) = M + 1
        /\ n.kind = "internal" /\ M \in Nat
    BY <1>1, <1>10, <2>2, InternalNode
  <2>4. /\ o.keys \in Seq(Keys) /\ Len(o.keys) = N /\ o.kids \in Seq(Pages) /\ Len(o.kids) = N + 1
        /\ N \in Nat
    BY <1>1, <2>1, <2>2, InternalNode
  <2>0. M \in Nat /\ N \in Nat
    BY <2>3, <2>4
  <2>5. J = Joined(n, key, o)
    BY <1>5, <2>2
  <2>7. JoinOf(J, n, M, key, o, N)
    BY ONLY <2>3, <2>4, <2>5, <1>2, JoinedNodes
  <2>6. /\ J \in Nodes /\ J.kind = "internal"
        /\ Len(J.keys) = M + 1 + N /\ Len(J.kids) = M + N + 2
    BY ONLY <2>7 DEF JoinOf
  <2>8. \A j \in 1..(M + N + 2) :
           J.kids[j] = IF j <= M + 1 THEN n.kids[j] ELSE o.kids[j - (M + 1)]
    BY ONLY <2>7 DEF JoinOf
  <2>9. Merge(t, l, r, t2)
    BY <1>1, <1>6, <1>7, <1>8, <2>2, <2>3, <2>6 DEF Merge
  <2>10. SortedInternal(t, lo, hi, l) /\ SortedInternal(t, lo, hi, r)
    BY <1>0, <1>10, <2>1 DEF Core, Sorted
  <2>11. /\ \A i \in 1..M : n.keys[i] \in Int /\ lo[l] < n.keys[i] /\ n.keys[i] < key
         /\ \A i, j \in 1..M : i < j => n.keys[i] < n.keys[j]
    <3>1. \A k \in Keys : k \in Int
      BY TreeAssumption
    <3>2. \A i \in 1..M : n.keys[i] \in Int
      BY ONLY <2>3, <3>1
    <3> QED BY ONLY <3>2, <2>2, <2>3, <2>10, <1>2 DEF SortedInternal
  <2>12. /\ \A i \in 1..N : o.keys[i] \in Int /\ key < o.keys[i] /\ o.keys[i] < hi[r]
         /\ \A i, j \in 1..N : i < j => o.keys[i] < o.keys[j]
    <3>1. \A k \in Keys : k \in Int
      BY TreeAssumption
    <3>2. \A i \in 1..N : o.keys[i] \in Int
      BY ONLY <2>4, <3>1
    <3> QED BY ONLY <3>2, <2>2, <2>4, <2>10, <1>2 DEF SortedInternal
  <2>13. ASSUME NEW i \in 1..(M + 1 + N)
         PROVE  /\ i <= M => i \in 1..M /\ J.keys[i] = n.keys[i]
                /\ i = M + 1 => J.keys[i] = key
                /\ i > M + 1 => i - (M + 1) \in 1..N /\ J.keys[i] = o.keys[i - (M + 1)]
    <3>1. /\ i <= M => i \in 1..M
          /\ i = M + 1 => ~(i <= M)
          /\ i > M + 1 => i - (M + 1) \in 1..N /\ ~(i <= M) /\ i # M + 1
      BY <2>3, <2>4
    <3> QED BY ONLY <3>1, <2>7 DEF JoinOf
  <2>14. SortedInternal(t2, lo, top, l)
    <3>1. ASSUME NEW i \in 1..(M + 1 + N) PROVE lo[l] < J.keys[i] /\ J.keys[i] < hi[r]
      <4>1. CASE i <= M
        BY ONLY <4>1, <2>11, <2>13, <1>4, <1>2
      <4>2. CASE i = M + 1
        BY ONLY <4>2, <2>13, <1>4, <1>2
      <4>3. CASE i > M + 1
        BY ONLY <4>3, <2>12, <2>13, <1>4, <1>2
      <4> QED BY <4>1, <4>2, <4>3, <2>3
    <3>2. ASSUME NEW i \in 1..(M + 1 + N), NEW j \in 1..(M + 1 + N), i < j
          PROVE  J.keys[i] < J.keys[j]
      <4>1. CASE j <= M
        <5>1. i <= M
          BY <4>1, <3>2, <2>3
        <5> QED BY ONLY <4>1, <5>1, <3>2, <2>11, <2>13
      <4>2. CASE i > M + 1
        <5>1. j > M + 1 /\ i - (M + 1) < j - (M + 1)
          BY <4>2, <3>2, <2>3
        <5> QED BY ONLY <4>2, <5>1, <2>12, <2>13
      <4>3. CASE i <= M + 1 /\ j >= M + 1
        <5>1. i <= M \/ (i = M + 1 /\ j > M + 1)
          BY <4>3, <3>2, <2>3
        <5>2. j = M + 1 \/ j > M + 1
          BY <4>3, <2>3
        <5>3. i <= M => J.keys[i] \in Int /\ J.keys[i] < key
          BY ONLY <2>11, <2>13
        <5>4. j > M + 1 => J.keys[j] \in Int /\ key < J.keys[j]
          BY ONLY <2>12, <2>13
        <5>5. (i = M + 1 => J.keys[i] = key) /\ (j = M + 1 => J.keys[j] = key)
          BY ONLY <2>13
        <5> QED BY ONLY <5>1, <5>2, <5>3, <5>4, <5>5, <1>2
      <4> QED BY <4>1, <4>2, <4>3, <2>3
    <3> QED BY ONLY <3>1, <3>2, <2>6, <1>3, <1>6 DEF SortedInternal
  <2>15. ASSUME NEW i \in 1..(M + 1), NEW c, c = n.kids[i]
         PROVE  /\ c \in NodesIn(t) /\ c # r /\ ht[l] = ht[c] + 1
                /\ lo[c] = (IF i = 1 THEN lo[l] ELSE n.keys[i - 1])
                /\ top[c] = (IF i = M + 1 THEN key ELSE n.keys[i])
    <3>1. i \in 1..Len(t[l].kids) /\ c = t[l].kids[i]
      BY <2>15, <2>2, <2>3
    <3>2. /\ c \in NodesIn(t) /\ ht[l] = ht[c] + 1
          /\ lo[c] = LowerOf(t, lo, l, i) /\ top[c] = UpperOf(t, hi, l, i)
      BY <1>0, <3>1, <1>10, KidFacts
    <3>3. c # r
      BY <1>0, <3>1, <1>10 DEF Core, Rooted, KidOf
    <3> QED BY ONLY <3>2, <3>3, <2>2, <2>3, <1>2 DEF LowerOf, UpperOf
  <2>16. ASSUME NEW i \in 1..(N + 1), NEW c, c = o.kids[i]
         PROVE  /\ c \in NodesIn(t) /\ c # r /\ ht[l] = ht[c] + 1
                /\ lo[c] = (IF i = 1 THEN key ELSE o.keys[i - 1])
                /\ top[c] = (IF i = N + 1 THEN hi[r] ELSE o.keys[i])
    <3>1. i \in 1..Len(t[r].kids) /\ c = t[r].kids[i]
      BY <2>16, <2>2, <2>4
    <3>2. /\ c \in NodesIn(t) /\ ht[r] = ht[c] + 1
          /\ lo[c] = LowerOf(t, lo, r, i) /\ top[c] = UpperOf(t, hi, r, i)
      BY <1>0, <3>1, <2>1, KidFacts
    <3>3. c # r
      BY <1>0, <3>1, <2>1 DEF Core, Rooted, KidOf
    <3> QED BY ONLY <3>2, <3>3, <2>2, <2>4, <1>2 DEF LowerOf, UpperOf
  <2>17. NodesIn(t2) = NodesIn(t) \ {r}
    <3>1. ASSUME NEW x \in Pages PROVE x \in NodesIn(t2) <=> x \in NodesIn(t) \ {r}
      <4>1. CASE x = r
        BY <4>1, <1>6 DEF NodesIn, LeavesIn, InternalsIn, Unused
      <4>2. CASE x = l
        BY <4>2, <1>2, <1>6, <2>6 DEF NodesIn, LeavesIn, InternalsIn
      <4>3. CASE x # l /\ x # r
        BY <4>3, <1>6 DEF NodesIn, LeavesIn, InternalsIn
      <4> QED BY <4>1, <4>2, <4>3
    <3> QED BY <3>1 DEF NodesIn, LeavesIn, InternalsIn
  <2>18. LinkedAt(t2, lo, top, top, ht, l)
    <3>1. ASSUME NEW i \in 1..(M + N + 2)
          PROVE  /\ J.kids[i] \in NodesIn(t2) /\ ht[l] = ht[J.kids[i]] + 1
                 /\ lo[J.kids[i]] = (IF i = 1 THEN lo[l] ELSE J.keys[i - 1])
                 /\ top[J.kids[i]] = (IF i = M + N + 2 THEN hi[r] ELSE J.keys[i])
      <4>1. PICK c : c = J.kids[i]
        OBVIOUS
      <4>2. CASE i <= M + 1
        <5>1. i \in 1..(M + 1) /\ c = n.kids[i]
          <6>1. i \in 1..(M + 1)
            BY <4>2, <2>3
          <6> QED BY ONLY <6>1, <4>1, <4>2, <2>8
        <5>2. /\ c \in NodesIn(t) /\ c # r /\ ht[l] = ht[c] + 1
              /\ lo[c] = (IF i = 1 THEN lo[l] ELSE n.keys[i - 1])
              /\ top[c] = (IF i = M + 1 THEN key ELSE n.keys[i])
          BY ONLY <5>1, <2>15
        <5>3. i # 1 => i - 1 \in 1..(M + 1 + N) /\ i - 1 <= M
          BY <4>2, <2>3, <2>4
        <5>4. i # M + N + 2 /\ i \in 1..(M + 1 + N) /\ (i # M + 1 => i <= M)
          BY <4>2, <2>3, <2>4
        <5> QED BY ONLY <4>1, <5>2, <5>3, <5>4, <2>13, <2>17
      <4>3. CASE i > M + 1
        <5>1. PICK j : j = i - (M + 1)
          OBVIOUS
        <5>2. j \in 1..(N + 1) /\ ~(i <= M + 1) /\ i # 1
          BY <4>3, <5>1, <2>3, <2>4
        <5>3. c = o.kids[j]
          BY ONLY <4>1, <5>1, <5>2, <2>8
        <5>4. /\ c \in NodesIn(t) /\ c # r /\ ht[l] = ht[c] + 1
              /\ lo[c] = (IF j = 1 THEN key ELSE o.keys[j - 1])
              /\ top[c] = (IF j = N + 1 THEN hi[r] ELSE o.keys[j])
          BY ONLY <5>2, <5>3, <2>16
        <5>5. /\ i - 1 \in 1..(M + 1 + N) /\ (j = 1 => i - 1 = M + 1)
              /\ (j # 1 => i - 1 > M + 1 /\ (i - 1) - (M + 1) = j - 1)
          BY ONLY <3>1, <4>3, <5>1, <2>0
        <5>6. J.keys[i - 1] = (IF j = 1 THEN key ELSE o.keys[j - 1])
          BY ONLY <5>5, <2>13
        <5>7. (j = N + 1 <=> i = M + N + 2) /\ (i # M + N + 2 => i \in 1..(M + 1 + N))
          BY ONLY <3>1, <4>3, <5>1, <2>0
        <5>8. i # M + N + 2 => J.keys[i] = o.keys[j]
          BY ONLY <5>1, <5>7, <4>3, <2>13
        <5> QED BY ONLY <4>1, <5>2, <5>4, <5>6, <5>7, <5>8, <2>17
      <4> QED BY <4>2, <4>3, <2>3
    <3> QED BY ONLY <3>1, <2>6, <1>3, <1>6 DEF LinkedAt, LowerOf, UpperOf
  <2>19. ASSUME NEW x, KeyOf(t2, l, x) PROVE KeyOf(t, l, x) \/ KeyOf(t, r, x) \/ x = key
    <3>1. PICK i \in 1..(M + 1 + N) : J.keys[i] = x
      BY ONLY <2>19, <2>6, <1>6 DEF KeyOf
    <3>2. (\E j \in 1..M : n.keys[j] = x) \/ (\E j \in 1..N : o.keys[j] = x) \/ x = key
      <4>1. i <= M \/ i = M + 1 \/ i > M + 1
        BY <2>3
      <4> QED BY ONLY <3>1, <4>1, <2>13
    <3> QED BY ONLY <3>2, <2>2, <2>3, <2>4 DEF KeyOf
  <2>20. ASSUME NEW x PROVE KidOf(t2, l, x) <=> KidOf(t, l, x) \/ KidOf(t, r, x)
    <3>1. KidOf(t2, l, x) <=> \E i \in 1..(M + N + 2) : J.kids[i] = x
      BY ONLY <2>6, <1>6 DEF KidOf
    <3>2. KidOf(t, l, x) <=> \E i \in 1..(M + 1) : n.kids[i] = x
      BY ONLY <2>2, <2>3 DEF KidOf
    <3>3. KidOf(t, r, x) <=> \E i \in 1..(N + 1) : o.kids[i] = x
      BY ONLY <2>2, <2>4 DEF KidOf
    <3>4. \A i \in 1..(M + 1) : i \in 1..(M + N + 2) /\ i <= M + 1
      BY <2>3, <2>4
    <3>5. \A i \in 1..(N + 1) : /\ i + (M + 1) \in 1..(M + N + 2) /\ ~(i + (M + 1) <= M + 1)
                                /\ (i + (M + 1)) - (M + 1) = i
      BY <2>3, <2>4
    <3>6. \A i \in 1..(M + N + 2) : (i <= M + 1 => i \in 1..(M + 1)) /\ (~(i <= M + 1) => i - (M + 1) \in 1..(N + 1))
      BY <2>3, <2>4
    <3>7. KidOf(t2, l, x) => KidOf(t, l, x) \/ KidOf(t, r, x)
      BY ONLY <3>1, <3>2, <3>3, <3>6, <2>8
    <3>8. KidOf(t, l, x) => KidOf(t2, l, x)
      BY ONLY <3>1, <3>2, <3>4, <2>8
    <3>9. KidOf(t, r, x) => KidOf(t2, l, x)
      <4> SUFFICES ASSUME NEW i \in 1..(N + 1), o.kids[i] = x PROVE KidOf(t2, l, x)
        BY <3>3
      <4>1. PICK j : j = i + (M + 1)
        OBVIOUS
      <4>2. j \in 1..(M + N + 2) /\ ~(j <= M + 1) /\ j - (M + 1) = i
        BY <4>1, <3>5
      <4>3. J.kids[j] = x
        BY <4>2, <2>8
      <4> QED BY <3>1, <4>2, <4>3
    <3> QED BY <3>7, <3>8, <3>9
  <2>21. MergeInternal(t, lo, top, ht, t2, l, key, r)
    BY <2>14, <2>18, <2>19, <2>20 DEF MergeInternal
  <2> QED BY ONLY <1>0, <2>1, <2>9, <2>21, NodesMerged
<1> QED BY <1>2, <1>9, <1>10 DEF NodesIn

-----------------------------------------------------------------------------
(* A parent takes a child in, or lets it go.                               *)

\* Node p of t2 has other keys and children than in t: orphan2 has no parent any
\* more, orphan has one, and new keys separate only what is below.
Reparented(t, t2, p, orphan, orphan2, lo, hi, ht) ==
    /\ t2[p].kind = "internal" /\ \A x \in Pages : x # p => t2[x] = t[x]
    /\ \A x : KidOf(t, p, x) => KidOf(t2, p, x) \/ x = orphan2
    /\ \A x \in InternalsIn(t) : ~KidOf(t2, x, orphan2)
    /\ orphan \in NodesIn(t) => KidOf(t2, p, orphan)
    /\ \A z : KeyOf(t2, p, z) =>
          \/ KeyOf(t, p, z)
          \/ \A x \in NodesIn(t) : ht[x] < ht[p] => Clear(z, lo, hi, x)

\* top2 differs from top at l only.
TopChanged(top2, top, l) == top2 \in [Pages -> Int] /\ \A x \in Pages : x # l => top2[x] = top[x]

\* The keys and the children of one internal node change: l's neighbour comes or
\* goes, so that top changes at l.
LEMMA ParentChanged ==
  ASSUME NEW t, NEW rt, NEW orphan, NEW lo, NEW hi, NEW top, NEW ht,
         Core(t, rt, orphan, lo, hi, top, ht),
         NEW p \in InternalsIn(t), NEW t2 \in [Pages -> Nodes],
         NEW top2, NEW l, KidOf(t, p, l), TopChanged(top2, top, l),
         SortedInternal(t2, lo, hi, p), LinkedAt(t2, lo, hi, top2, ht, p),
         NEW orphan2, Reparented(t, t2, p, orphan, orphan2, lo, hi, ht)
  PROVE  /\ Core(t2, rt, orphan2, lo, hi, top2, ht)
         /\ LeavesIn(t2) = LeavesIn(t) /\ InternalsIn(t2) = InternalsIn(t)
<1> /\ top2 \in [Pages -> Int] /\ \A x \in Pages : x # l => top2[x] = top[x]
  BY DEF TopChanged
<1>0. /\ t2[p].kind = "internal" /\ \A x \in Pages : x # p => t2[x] = t[x]
      /\ \A x : KidOf(t, p, x) => KidOf(t2, p, x) \/ x = orphan2
      /\ \A x \in InternalsIn(t) : ~KidOf(t2, x, orphan2)
      /\ orphan \in NodesIn(t) => KidOf(t2, p, orphan)
      /\ \A z : KeyOf(t2, p, z) =>
            \/ KeyOf(t, p, z)
            \/ \A x \in NodesIn(t) : ht[x] < ht[p] => Clear(z, lo, hi, x)
  BY DEF Reparented
<1>1. /\ NodesIn(t) \subseteq Pages /\ InternalsIn(t) \subseteq NodesIn(t)
      /\ LeavesIn(t) \subseteq NodesIn(t) /\ rt \in NodesIn(t)
      /\ \A x \in Pages : lo[x] \in Int /\ hi[x] \in Int /\ top[x] \in Int /\ ht[x] \in Nat
      /\ \A x \in LeavesIn(t) : x \notin InternalsIn(t)
  BY CoreTypes
<1>2. \A x \in Pages : t2[x].kind = t[x].kind
  BY <1>0 DEF InternalsIn
<1>3. LeavesIn(t2) = LeavesIn(t) /\ InternalsIn(t2) = InternalsIn(t) /\ NodesIn(t2) = NodesIn(t)
  BY <1>2 DEF LeavesIn, InternalsIn, NodesIn
<1>4. \A x \in NodesIn(t) : x # p => t2[x] = t[x]
  BY <1>0, <1>1
<1>5. PICK i \in 1..Len(t[p].kids) : t[p].kids[i] = l
  BY DEF KidOf
<1>6. l \in NodesIn(t) /\ l \in Pages /\ ht[p] = ht[l] + 1
  BY <1>5, KidFacts
<1>7. ASSUME NEW x \in InternalsIn(t), KidOf(t, x, l) PROVE x = p
  <2>1. PICK j \in 1..Len(t[x].kids) : t[x].kids[j] = l
    BY <1>7 DEF KidOf
  <2> QED BY <2>1, <1>5, OneParent
<1>8. Sorted(t2, lo, hi, ht)
  <2>1. ASSUME NEW x \in LeavesIn(t) PROVE ht[x] = 0 /\ SortedLeaf(t2, lo, hi, x)
    <3>1. ht[x] = 0 /\ SortedLeaf(t, lo, hi, x) /\ x \in NodesIn(t) /\ x # p
      BY <1>1 DEF Core, Sorted
    <3> QED BY <3>1, <1>4, SameLeaf
  <2>2. ASSUME NEW x \in InternalsIn(t) PROVE SortedInternal(t2, lo, hi, x)
    <3>1. SortedInternal(t, lo, hi, x) /\ x \in NodesIn(t)
      BY <1>1 DEF Core, Sorted
    <3>2. CASE x # p
      BY <3>1, <3>2, <1>4, SameInternal
    <3> QED BY <3>2
  <2>3. \A x \in NodesIn(t) : lo[x] < hi[x]
    BY DEF Core, Sorted
  <2> QED BY <2>1, <2>2, <2>3, <1>3 DEF Sorted
<1>9. \A x \in InternalsIn(t) : \A c : KidOf(t, x, c) => c \in NodesIn(t) /\ c \in Pages
  <2>1. \A x \in InternalsIn(t) : \A c : KidOf(t, x, c) => c \in NodesIn(t)
    BY DEF KidOf, Core, Linked, LinkedAt
  <2> QED BY <2>1, <1>1
<1>10. Linked(t2, lo, hi, top2, ht)
  <2> SUFFICES ASSUME NEW x \in InternalsIn(t), x # p PROVE LinkedAt(t2, lo, hi, top2, ht, x)
    BY <1>3 DEF Linked
  <2>1. LinkedAt(t, lo, hi, top, ht, x) /\ t2[x] = t[x]
    BY <1>1, <1>4 DEF Core, Linked
  <2>2. ASSUME NEW j \in 1..Len(t[x].kids), NEW c, c = t[x].kids[j]
        PROVE  c \in NodesIn(t2) /\ top2[c] = top[c]
    <3>1. KidOf(t, x, c)
      BY <2>2 DEF KidOf
    <3> QED BY <3>1, <1>3, <1>7, <1>9
  <2> QED BY <2>1, <2>2, SameLinks
<1>11. Rooted(t2, rt, orphan2, lo, top2, ht)
  <2>1. lo[rt] = Low /\ top[rt] = High /\ \A x \in NodesIn(t) : ht[x] <= ht[rt]
    BY DEF Core, Rooted
  <2>2. l # rt
    <3>1. ht[p] <= ht[rt] /\ ht[l] \in Nat
      BY <2>1, <1>1, <1>6
    <3> QED BY <3>1, <1>6
  <2>3. top2[rt] = High
    BY <2>1, <2>2, <1>1
  <2>4. ASSUME NEW x \in NodesIn(t), x # rt, x # orphan2 PROVE \E y \in InternalsIn(t) : KidOf(t2, y, x)
    <3>1. CASE x = orphan
      BY <3>1, <1>0
    <3>2. CASE x # orphan
      <4>1. PICK y \in InternalsIn(t) : KidOf(t, y, x)
        BY <2>4, <3>2 DEF Core, Rooted
      <4>2. CASE y = p
        BY <4>1, <4>2, <2>4, <1>0
      <4>3. CASE y # p
        <5>1. t2[y] = t[y]
          BY <4>3, <1>1, <1>4
        <5>2. KidOf(t2, y, x)
          BY <5>1, <4>1 DEF KidOf
        <5> QED BY <5>2
      <4> QED BY <4>2, <4>3
    <3> QED BY <3>1, <3>2
  <2> QED BY <2>1, <2>3, <2>4, <1>0, <1>1, <1>3 DEF Rooted
<1>12. Apart(t2, lo, hi, ht)
  BY <1>3 DEF Core, Apart
<1>13. Nested(t2, lo, hi, ht)
  <2> SUFFICES ASSUME NEW y \in InternalsIn(t), NEW x \in NodesIn(t), ht[x] < ht[y],
                      NEW j \in 1..Len(t2[y].keys), NEW z, z = t2[y].keys[j]
               PROVE  Clear(z, lo, hi, x)
    BY <1>3 DEF Nested, NestedAt
  <2>1. KeyOf(t2, y, z)
    BY DEF KeyOf
  <2>2. CASE KeyOf(t, y, z)
    BY <2>2, NestedKey
  <2>3. CASE ~KeyOf(t, y, z)
    <3>1. y = p
      <4>1. y # p => t2[y] = t[y]
        BY <1>1, <1>4
      <4> QED BY <4>1, <2>1, <2>3 DEF KeyOf
    <3> QED BY <3>1, <2>1, <2>3, <1>0
  <2> QED BY <2>2, <2>3
<1>14. Chain(t2, lo, hi)
  <2>1. \A x \in LeavesIn(t) : t2[x] = t[x]
    BY <1>1, <1>4
  <2> QED BY <2>1, <1>3 DEF Core, Chain
<1> QED BY <1>3, <1>8, <1>10, <1>11, <1>12, <1>13, <1>14 DEF Core

\* Node I holds what n holds, and a key at place i with a child to its right.
InsertOf(I, n, N, i, key, kid) ==
    /\ I \in Nodes /\ I.kind = "internal" /\ Len(I.keys) = N + 1 /\ Len(I.kids) = N + 2
    /\ \A j \in 1..(N + 1) :
          I.keys[j] = IF j < i THEN n.keys[j] ELSE IF j = i THEN key ELSE n.keys[j - 1]
    /\ \A j \in 1..(N + 2) :
          I.kids[j] = IF j < i + 1 THEN n.kids[j] ELSE IF j = i + 1 THEN kid ELSE n.kids[j - 1]

\* Inserting a key and the child to its right does what InsertOf says.
LEMMA InsertedNodes ==
  ASSUME NEW n, NEW N \in Nat, n.keys \in Seq(Keys), Len(n.keys) = N,
         n.kids \in Seq(Pages), Len(n.kids) = N + 1,
         NEW i \in 1..(N + 1), NEW key \in Keys, NEW kid \in Pages,
         NEW I, I = Internal(InsertAt(n.keys, i, key), InsertAt(n.kids, i + 1, kid))
  PROVE  InsertOf(I, n, N, i, key, kid)
<1>1. PICK a, b : a = InsertAt(n.keys, i, key) /\ b = InsertAt(n.kids, i + 1, kid)
  OBVIOUS
<1>2. /\ a \in Seq(Keys) /\ Len(a) = N + 1
      /\ \A j \in 1..(N + 1) : a[j] = IF j < i THEN n.keys[j] ELSE IF j = i THEN key ELSE n.keys[j - 1]
  <2>1. n.keys \in Seq(Keys) /\ i \in 1..(Len(n.keys) + 1) /\ key \in Keys
    OBVIOUS
  <2>2. a \in Seq(Keys) /\ IsInsert(a, n.keys, i, key)
    BY ONLY <2>1, <1>1, InsertAtFacts
  <2> QED BY <2>2 DEF IsInsert
<1>3. /\ b \in Seq(Pages) /\ Len(b) = N + 2
      /\ \A j \in 1..(N + 2) : b[j] = IF j < i + 1 THEN n.kids[j] ELSE IF j = i + 1 THEN kid ELSE n.kids[j - 1]
  <2>1. n.kids \in Seq(Pages) /\ i + 1 \in 1..(Len(n.kids) + 1) /\ kid \in Pages
    OBVIOUS
  <2>2. b \in Seq(Pages) /\ IsInsert(b, n.kids, i + 1, kid)
    BY ONLY <2>1, <1>1, InsertAtFacts
  <2>3. (N + 1) + 1 = N + 2
    OBVIOUS
  <2> QED BY <2>2, <2>3 DEF IsInsert
<1>4. I = Internal(a, b) /\ Len(b) = Len(a) + 1
  BY <1>1, <1>2, <1>3
<1>5. I \in Nodes /\ I.kind = "internal" /\ I.keys = a /\ I.kids = b
  BY <1>2, <1>3, <1>4, MakeInternal
<1> QED BY <1>2, <1>3, <1>5 DEF InsertOf

\* Node R holds what n holds, but for key s and the child to its right.
RemoveOf(R, n, N, s) ==
    /\ R \in Nodes /\ R.kind = "internal" /\ Len(R.keys) = N - 1 /\ Len(R.kids) = N
    /\ \A j \in 1..(N - 1) : R.keys[j] = IF j < s THEN n.keys[j] ELSE n.keys[j + 1]
    /\ \A j \in 1..N : R.kids[j] = IF j < s + 1 THEN n.kids[j] ELSE n.kids[j + 1]

\* Removing a key and the child to its right does what RemoveOf says.
LEMMA RemovedNodes ==
  ASSUME NEW n, NEW N \in Nat, n.keys \in Seq(Keys), Len(n.keys) = N,
         n.kids \in Seq(Pages), Len(n.kids) = N + 1, NEW s \in 1..N,
         NEW R, R = Internal(RemoveAt(n.keys, s), RemoveAt(n.kids, s + 1))
  PROVE  RemoveOf(R, n, N, s)
<1>1. PICK a, b : a = RemoveAt(n.keys, s) /\ b = RemoveAt(n.kids, s + 1)
  OBVIOUS
<1>2. /\ a \in Seq(Keys) /\ Len(a) = N - 1
      /\ \A j \in 1..(N - 1) : a[j] = IF j < s THEN n.keys[j] ELSE n.keys[j + 1]
  <2>1. n.keys \in Seq(Keys) /\ s \in 1..Len(n.keys)
    OBVIOUS
  <2>2. /\ RemoveAt(n.keys, s) \in Seq(Keys) /\ Len(RemoveAt(n.keys, s)) = Len(n.keys) - 1
        /\ \A j \in 1..(Len(n.keys) - 1) :
              RemoveAt(n.keys, s)[j] = IF j < s THEN n.keys[j] ELSE n.keys[j + 1]
    BY ONLY <2>1, RemoveAtFacts
  <2> QED BY <2>2, <1>1
<1>3. /\ b \in Seq(Pages) /\ Len(b) = N
      /\ \A j \in 1..N : b[j] = IF j < s + 1 THEN n.kids[j] ELSE n.kids[j + 1]
  <2>1. n.kids \in Seq(Pages) /\ s + 1 \in 1..Len(n.kids)
    OBVIOUS
  <2>2. /\ RemoveAt(n.kids, s + 1) \in Seq(Pages) /\ Len(RemoveAt(n.kids, s + 1)) = Len(n.kids) - 1
        /\ \A j \in 1..(Len(n.kids) - 1) :
              RemoveAt(n.kids, s + 1)[j] = IF j < s + 1 THEN n.kids[j] ELSE n.kids[j + 1]
    BY ONLY <2>1, RemoveAtFacts
  <2>3. (N + 1) - 1 = N
    OBVIOUS
  <2> QED BY <2>2, <2>3, <1>1
<1>4. R = Internal(a, b) /\ Len(b) = Len(a) + 1
  BY <1>1, <1>2, <1>3
<1>5. R \in Nodes /\ R.kind = "internal" /\ R.keys = a /\ R.kids = b
  BY <1>2, <1>3, <1>4, MakeInternal
<1> QED BY <1>2, <1>3, <1>5 DEF RemoveOf

\* The pending node r goes into p, to the right of child i, and nothing is pending then.
Taken(t, p, i, key, r) ==
    [t EXCEPT ![p] = Internal(InsertAt(t[p].keys, i, key), InsertAt(t[p].kids, i + 1, r))]

\* Putting the pending node into the parent of its left neighbour, to the right of it,
\* keeps the core, and nothing is pending any more.
LEMMA ChildAdopted ==
  ASSUME NEW t, NEW rt, NEW lo, NEW hi, NEW top, NEW ht, NEW l, NEW key, NEW r,
         Loose(t, rt, lo, hi, top, ht, l, key, r),
         NEW p \in InternalsIn(t), NEW i \in 1..Len(t[p].kids), t[p].kids[i] = l,
         NEW t2, t2 = Taken(t, p, i, key, r)
  PROVE  /\ Core(t2, rt, NoPage, lo, hi, hi, ht) /\ t2 \in [Pages -> Nodes]
         /\ LeavesIn(t2) = LeavesIn(t) /\ InternalsIn(t2) = InternalsIn(t)
         /\ Len(t2[p].kids) = Len(t[p].kids) + 1
<1>0. Core(t, rt, r, lo, hi, top, ht) /\ top = Tops(hi, l, r) /\ Pending(t, lo, hi, ht, l, key, r)
  BY DEF Loose
<1> PICK I : I = Internal(InsertAt(t[p].keys, i, key), InsertAt(t[p].kids, i + 1, r))
  OBVIOUS
<1>1. t \in [Pages -> Nodes] /\ hi \in [Pages -> Int] /\ top \in [Pages -> Int]
  BY <1>0 DEF Core, Ghosts
<1>2. PICK n, N : n = t[p] /\ N = Len(t[p].keys)
  OBVIOUS
<1>3. /\ p \in Pages /\ n.keys \in Seq(Keys) /\ n.kids \in Seq(Pages)
      /\ Len(n.keys) = N /\ Len(n.kids) = N + 1 /\ N \in Nat /\ i \in 1..(N + 1)
  <2>1. /\ p \in Pages /\ t[p].keys \in Seq(Keys) /\ t[p].kids \in Seq(Pages)
        /\ Len(t[p].kids) = Len(t[p].keys) + 1
    BY <1>1, InternalNode
  <2> QED BY ONLY <2>1, <1>2, i \in 1..Len(t[p].kids)
<1>4. /\ l \in NodesIn(t) /\ r \in NodesIn(t) /\ l # r /\ ht[l] = ht[r] /\ l \in Pages /\ r \in Pages
      /\ key \in Keys /\ key \in Int /\ hi[l] = key /\ lo[r] = key
      /\ \A x \in NodesIn(t) : ht[x] <= ht[l] => Clear(key, lo, hi, x)
  BY <1>0, TreeAssumption, CoreTypes DEF Pending
<1>5. top[l] = hi[r] /\ \A x \in Pages : x # l => top[x] = hi[x]
  BY <1>0, <1>1, <1>4 DEF Tops
<1>6. InsertOf(I, n, N, i, key, r)
  BY ONLY <1>2, <1>3, <1>4, I = Internal(InsertAt(t[p].keys, i, key), InsertAt(t[p].kids, i + 1, r)), InsertedNodes
<1>7. /\ I \in Nodes /\ I.kind = "internal" /\ Len(I.keys) = N + 1 /\ Len(I.kids) = N + 2
  BY ONLY <1>6 DEF InsertOf
<1>8. ASSUME NEW j \in 1..(N + 1)
      PROVE  /\ j < i => I.keys[j] = n.keys[j] /\ j \in 1..N
             /\ j = i => I.keys[j] = key
             /\ j > i => I.keys[j] = n.keys[j - 1] /\ j - 1 \in 1..N
  <2>1. I.keys[j] = IF j < i THEN n.keys[j] ELSE IF j = i THEN key ELSE n.keys[j - 1]
    BY ONLY <1>6, <1>8 DEF InsertOf
  <2>2. /\ j < i => j \in 1..N
        /\ j = i => ~(j < i)
        /\ j > i => ~(j < i) /\ j # i /\ j - 1 \in 1..N
    BY ONLY <1>3, <1>8
  <2> QED BY ONLY <2>1, <2>2
<1>9. ASSUME NEW j \in 1..(N + 2)
      PROVE  /\ j <= i => I.kids[j] = n.kids[j] /\ j \in 1..(N + 1)
             /\ j = i + 1 => I.kids[j] = r
             /\ j > i + 1 => I.kids[j] = n.kids[j - 1] /\ j - 1 \in 1..(N + 1)
  <2>1. I.kids[j] = IF j < i + 1 THEN n.kids[j] ELSE IF j = i + 1 THEN r ELSE n.kids[j - 1]
    BY ONLY <1>6, <1>9 DEF InsertOf
  <2>2. /\ j <= i => j < i + 1 /\ j \in 1..(N + 1)
        /\ j = i + 1 => ~(j < i + 1)
        /\ j > i + 1 => ~(j < i + 1) /\ j # i + 1 /\ j - 1 \in 1..(N + 1)
    BY ONLY <1>3, <1>9
  <2> QED BY ONLY <2>1, <2>2
<1>10. t2[p] = I /\ t2 \in [Pages -> Nodes] /\ \A x \in Pages : x # p => t2[x] = t[x]
  BY ONLY t2 = Taken(t, p, i, key, r), <1>1, <1>3, <1>7,
          I = Internal(InsertAt(t[p].keys, i, key), InsertAt(t[p].kids, i + 1, r)) DEF Taken
<1>11. NodesIn(t2) = NodesIn(t) /\ InternalsIn(t2) = InternalsIn(t)
  <2>1. \A x \in Pages : t2[x].kind = t[x].kind
    BY <1>7, <1>10 DEF InternalsIn
  <2> QED BY <2>1 DEF NodesIn, LeavesIn, InternalsIn
<1>12. ASSUME NEW j \in 1..(N + 1), NEW c, c = n.kids[j]
       PROVE  /\ c \in NodesIn(t) /\ ht[p] = ht[c] + 1 /\ c \in Pages
              /\ lo[c] = (IF j = 1 THEN lo[p] ELSE n.keys[j - 1])
              /\ top[c] = (IF j = N + 1 THEN hi[p] ELSE n.keys[j])
              /\ j = i <=> c = l
  <2>1. j \in 1..Len(t[p].kids) /\ c = t[p].kids[j]
    BY <1>2, <1>3, <1>12
  <2>2. /\ c \in NodesIn(t) /\ ht[p] = ht[c] + 1 /\ c \in Pages
        /\ lo[c] = LowerOf(t, lo, p, j) /\ top[c] = UpperOf(t, hi, p, j)
    BY <2>1, <1>0, KidFacts
  <2>3. j = i <=> c = l
    BY <2>1, <1>0, OneParent
  <2> QED BY ONLY <2>2, <2>3, <1>2, <1>3 DEF LowerOf, UpperOf
<1>13. SortedInternal(t, lo, hi, p) /\ lo[l] < key /\ key < hi[r] /\ lo[p] < hi[p]
  <2>1. lo[l] < hi[l] /\ lo[r] < hi[r] /\ SortedInternal(t, lo, hi, p) /\ lo[p] < hi[p]
    BY <1>0, <1>4 DEF Core, Sorted, NodesIn
  <2> QED BY <2>1, <1>4
<1>14. \A x \in Pages : lo[x] \in Int /\ hi[x] \in Int
  BY <1>0, CoreTypes
<1>15. /\ \A j \in 1..N : n.keys[j] \in Int /\ lo[p] < n.keys[j] /\ n.keys[j] < hi[p]
       /\ \A j, k \in 1..N : j < k => n.keys[j] < n.keys[k]
  <2>1. \A k \in Keys : k \in Int
    BY TreeAssumption
  <2>2. \A j \in 1..N : n.keys[j] \in Int
    BY ONLY <1>3, <2>1
  <2> QED BY ONLY <2>2, <1>2, <1>3, <1>13 DEF SortedInternal

\* The new key lies between those at its sides.
<1>16. /\ lo[l] = (IF i = 1 THEN lo[p] ELSE n.keys[i - 1]) /\ ht[p] = ht[l] + 1
       /\ hi[r] = (IF i = N + 1 THEN hi[p] ELSE n.keys[i])
  <2>1. n.kids[i] = l
    BY <1>2
  <2> QED BY ONLY <2>1, <1>3, <1>5, <1>12
<1>17. /\ \A j \in 1..N : j < i => n.keys[j] < key
       /\ \A j \in 1..N : j >= i => key < n.keys[j]
       /\ lo[p] < key /\ key < hi[p]
  <2>1. ASSUME NEW j \in 1..N, j < i PROVE n.keys[j] < key /\ lo[p] < key
    <3>1. i # 1 /\ i - 1 \in 1..N /\ (j = i - 1 \/ j < i - 1)
      BY ONLY <1>3, <2>1
    <3>2. /\ lo[l] = n.keys[i - 1] /\ n.keys[i - 1] \in Int /\ n.keys[j] \in Int /\ lo[p] < n.keys[j]
          /\ (j = i - 1 \/ n.keys[j] < n.keys[i - 1])
      BY ONLY <3>1, <1>15, <1>16
    <3> QED BY ONLY <3>2, <1>13, <1>14, <1>3, <1>4
  <2>2. ASSUME NEW j \in 1..N, j >= i PROVE key < n.keys[j] /\ key < hi[p]
    <3>1. i # N + 1 /\ i \in 1..N /\ (j = i \/ i < j)
      BY ONLY <1>3, <2>2
    <3>2. /\ hi[r] = n.keys[i] /\ n.keys[i] \in Int /\ n.keys[j] \in Int /\ n.keys[j] < hi[p]
          /\ (j = i \/ n.keys[i] < n.keys[j])
      BY ONLY <3>1, <1>15, <1>16
    <3> QED BY ONLY <3>2, <1>13, <1>14, <1>3, <1>4
  <2>3. lo[p] < key
    <3>1. CASE i = 1
      BY ONLY <3>1, <1>13, <1>16
    <3>2. CASE i # 1
      <4>1. i - 1 \in 1..N /\ i - 1 < i
        BY ONLY <3>2, <1>3
      <4> QED BY ONLY <4>1, <2>1
    <3> QED BY <3>1, <3>2
  <2>4. key < hi[p]
    <3>1. CASE i = N + 1
      BY ONLY <3>1, <1>13, <1>16
    <3>2. CASE i # N + 1
      <4>1. i \in 1..N /\ i >= i
        BY ONLY <3>2, <1>3
      <4> QED BY ONLY <4>1, <2>2
    <3> QED BY <3>1, <3>2
  <2> QED BY ONLY <2>1, <2>2, <2>3, <2>4
<1>18. SortedInternal(t2, lo, hi, p)
  <2>1. ASSUME NEW j \in 1..(N + 1) PROVE lo[p] < I.keys[j] /\ I.keys[j] < hi[p]
    <3>1. j < i \/ j = i \/ j > i
      BY ONLY <1>3
    <3> QED BY ONLY <3>1, <1>8, <1>15, <1>17
  <2>2. ASSUME NEW j \in 1..(N + 1), NEW k \in 1..(N + 1), j < k PROVE I.keys[j] < I.keys[k]
    <3>1. CASE k < i
      <4>1. j < i
        BY ONLY <3>1, <2>2, <1>3
      <4> QED BY ONLY <3>1, <4>1, <2>2, <1>8, <1>15
    <3>2. CASE k = i
      <4>1. j < i
        BY ONLY <3>2, <2>2, <1>3
      <4> QED BY ONLY <3>2, <4>1, <2>2, <1>8, <1>17
    <3>3. CASE j = i
      <4>1. k > i /\ k - 1 >= i
        BY ONLY <3>3, <2>2, <1>3
      <4> QED BY ONLY <3>3, <4>1, <2>2, <1>8, <1>17
    <3>4. CASE j > i
      <4>1. k > i /\ j - 1 < k - 1
        BY ONLY <3>4, <2>2, <1>3
      <4> QED BY ONLY <3>4, <4>1, <2>2, <1>8, <1>15
    <3>5. CASE j < i /\ k > i
      <4>1. k - 1 >= i
        BY ONLY <3>5, <2>2, <1>3
      <4>2. /\ I.keys[j] = n.keys[j] /\ I.keys[k] = n.keys[k - 1] /\ j \in 1..N /\ k - 1 \in 1..N
        BY ONLY <3>5, <2>2, <1>8
      <4>3. n.keys[j] < key /\ key < n.keys[k - 1] /\ n.keys[j] \in Int /\ n.keys[k - 1] \in Int
        BY ONLY <3>5, <4>1, <4>2, <1>15, <1>17
      <4> QED BY ONLY <4>2, <4>3, <1>4
    <3> QED
      <4>1. k < i \/ k = i \/ j = i \/ j > i \/ (j < i /\ k > i)
        BY ONLY <2>2, <1>3
      <4> QED BY <4>1, <3>1, <3>2, <3>3, <3>4, <3>5
  <2> QED BY ONLY <2>1, <2>2, <1>7, <1>10 DEF SortedInternal
<1>19. LinkedAt(t2, lo, hi, hi, ht, p)
  <2>1. ASSUME NEW j \in 1..(N + 2), NEW c, c = I.kids[j]
        PROVE  /\ c \in NodesIn(t) /\ ht[p] = ht[c] + 1
               /\ lo[c] = (IF j = 1 THEN lo[p] ELSE I.keys[j - 1])
               /\ hi[c] = (IF j = N + 2 THEN hi[p] ELSE I.keys[j])
    <3>1. CASE j < i
      <4>1. /\ c = n.kids[j] /\ j \in 1..(N + 1) /\ j # N + 1 /\ j # N + 2 /\ j # i
            /\ (j # 1 => j - 1 \in 1..(N + 1) /\ j - 1 < i)
        <5>1. j <= i /\ j # N + 1 /\ j # N + 2 /\ j # i /\ (j # 1 => j - 1 \in 1..(N + 1) /\ j - 1 < i)
          BY ONLY <3>1, <2>1, <1>3
        <5> QED BY ONLY <5>1, <2>1, <1>9
      <4>2. I.keys[j] = n.keys[j] /\ (j # 1 => I.keys[j - 1] = n.keys[j - 1])
        BY ONLY <3>1, <4>1, <1>8
      <4>3. /\ c \in NodesIn(t) /\ ht[p] = ht[c] + 1 /\ c \in Pages /\ c # l
            /\ lo[c] = (IF j = 1 THEN lo[p] ELSE n.keys[j - 1]) /\ top[c] = n.keys[j]
        BY ONLY <4>1, <1>12
      <4> QED BY ONLY <4>1, <4>2, <4>3, <1>5
    <3>2. CASE j = i
      <4>1. j <= i /\ j \in 1..(N + 1) /\ j # N + 2 /\ (j # 1 => j - 1 \in 1..(N + 1) /\ j - 1 < i)
        BY ONLY <3>2, <2>1, <1>3
      <4>2. c = n.kids[j] /\ c = l
        <5>1. c = n.kids[j]
          BY ONLY <4>1, <2>1, <1>9
        <5> QED BY ONLY <5>1, <4>1, <3>2, <1>12
      <4>3. I.keys[j] = key /\ (j # 1 => I.keys[j - 1] = n.keys[j - 1])
        BY ONLY <3>2, <4>1, <1>8
      <4> QED BY ONLY <3>2, <4>1, <4>2, <4>3, <1>4, <1>16
    <3>3. CASE j = i + 1
      <4>1. c = r
        BY ONLY <3>3, <2>1, <1>9
      <4>2. j # 1 /\ j - 1 = i /\ (j = N + 2 <=> i = N + 1) /\ (j # N + 2 => j \in 1..(N + 1) /\ j > i)
        BY ONLY <3>3, <2>1, <1>3
      <4>3. I.keys[i] = key /\ (j # N + 2 => I.keys[j] = n.keys[i])
        BY ONLY <4>2, <1>3, <1>8
      <4> QED BY ONLY <4>1, <4>2, <4>3, <1>4, <1>16
    <3>4. CASE j > i + 1
      <4>1. PICK k : k = j - 1
        OBVIOUS
      <4>2. c = n.kids[k] /\ k \in 1..(N + 1)
        BY ONLY <3>4, <4>1, <2>1, <1>9
      <4>3. /\ k # 1 /\ k # i /\ j # 1 /\ (j = N + 2 <=> k = N + 1) /\ k \in 1..(N + 1) /\ k > i
            /\ (j # N + 2 => j \in 1..(N + 1) /\ j > i)
        BY ONLY <3>4, <4>1, <2>1, <1>3
      <4>4. I.keys[k] = n.keys[k - 1] /\ (j # N + 2 => I.keys[j] = n.keys[k])
        BY ONLY <4>1, <4>3, <1>8
      <4>5. /\ c \in NodesIn(t) /\ ht[p] = ht[c] + 1 /\ c \in Pages /\ c # l
            /\ lo[c] = n.keys[k - 1] /\ top[c] = (IF k = N + 1 THEN hi[p] ELSE n.keys[k])
        BY ONLY <4>2, <4>3, <1>12
      <4> QED BY ONLY <4>1, <4>3, <4>4, <4>5, <1>5
    <3> QED
      <4>1. j < i \/ j = i \/ j = i + 1 \/ j > i + 1
        BY ONLY <2>1, <1>3
      <4> QED BY <4>1, <3>1, <3>2, <3>3, <3>4
  <2> QED BY ONLY <2>1, <1>7, <1>10, <1>11 DEF LinkedAt, LowerOf, UpperOf
<1>20. ASSUME NEW x, KidOf(t, p, x) PROVE KidOf(t2, p, x)
  <2>1. PICK j \in 1..(N + 1) : n.kids[j] = x
    BY ONLY <1>20, <1>2, <1>3 DEF KidOf
  <2>2. PICK k : k = IF j <= i THEN j ELSE j + 1
    OBVIOUS
  <2>3. k \in 1..(N + 2) /\ (j <= i => k = j) /\ (~(j <= i) => k > i + 1 /\ k - 1 = j)
    BY ONLY <2>2, <1>3
  <2>4. I.kids[k] = x
    <3>1. CASE j <= i
      BY ONLY <3>1, <2>1, <2>3, <1>9
    <3>2. CASE ~(j <= i)
      BY ONLY <3>2, <2>1, <2>3, <1>9
    <3> QED BY <3>1, <3>2
  <2> QED BY ONLY <2>3, <2>4, <1>7, <1>10 DEF KidOf
<1>21. KidOf(t2, p, r)
  <2>1. i + 1 \in 1..(N + 2)
    BY ONLY <1>3
  <2>2. I.kids[i + 1] = r
    BY ONLY <2>1, <1>9
  <2> QED BY ONLY <2>1, <2>2, <1>7, <1>10 DEF KidOf
<1>22. ASSUME NEW x \in InternalsIn(t), KidOf(t2, x, NoPage) PROVE FALSE
  <2>1. t2[x].kids \in Seq(Pages)
    BY <1>10, <1>11, InternalNode
  <2>2. NoPage \in Pages
    BY <2>1, <1>22 DEF KidOf
  <2> QED BY <2>2, TreeAssumption
<1>23. ASSUME NEW z, KeyOf(t2, p, z)
       PROVE  KeyOf(t, p, z) \/ \A x \in NodesIn(t) : ht[x] < ht[p] => Clear(z, lo, hi, x)
  <2>1. PICK j \in 1..(N + 1) : I.keys[j] = z
    BY ONLY <1>23, <1>7, <1>10 DEF KeyOf
  <2>2. (\E k \in 1..N : n.keys[k] = z) \/ z = key
    <3>1. j < i \/ j = i \/ j > i
      BY ONLY <1>3
    <3> QED BY ONLY <2>1, <3>1, <1>8
  <2>3. CASE \E k \in 1..N : n.keys[k] = z
    BY ONLY <2>3, <1>2, <1>3 DEF KeyOf
  <2>4. CASE z = key
    <3>1. \A x \in NodesIn(t) : ht[x] \in Nat /\ ht[l] \in Nat
      BY <1>0, <1>4, CoreTypes
    <3>2. \A x \in NodesIn(t) : ht[x] < ht[p] => ht[x] <= ht[l]
      BY ONLY <3>1, <1>16
    <3> QED BY ONLY <2>4, <3>2, <1>4
  <2> QED BY <2>2, <2>3, <2>4
<1>24. KidOf(t, p, l)
  BY DEF KidOf
<1>25. /\ Core(t2, rt, NoPage, lo, hi, hi, ht)
       /\ LeavesIn(t2) = LeavesIn(t) /\ InternalsIn(t2) = InternalsIn(t)
  <2>1. TopChanged(hi, top, l)
    BY ONLY <1>1, <1>5 DEF TopChanged
  <2>2. Reparented(t, t2, p, r, NoPage, lo, hi, ht)
    BY ONLY <1>7, <1>10, <1>20, <1>21, <1>22, <1>23 DEF Reparented
  <2> QED BY ONLY <2>1, <2>2, <1>0, <1>10, <1>18, <1>19, <1>24, p \in InternalsIn(t), ParentChanged
<1> QED BY <1>2, <1>3, <1>7, <1>10, <1>25

\* The child to the right of key s leaves p, and is pending from then on.
Released(t, p, s) == [t EXCEPT ![p] = Internal(RemoveAt(t[p].keys, s), RemoveAt(t[p].kids, s + 1))]

\* Taking a key and the child to its right out of a node keeps the core but for that
\* child, which is pending; no node above holds the key any more.
LEMMA ChildReleased ==
  ASSUME NEW t, NEW rt, NEW lo, NEW hi, NEW ht, Core(t, rt, NoPage, lo, hi, hi, ht),
         NEW p \in InternalsIn(t), NEW s \in 1..Len(t[p].keys), NEW key, key = t[p].keys[s],
         NEW l, l = t[p].kids[s], NEW r, r = t[p].kids[s + 1],
         NEW t2, t2 = Released(t, p, s)
  PROVE  /\ Loose(t2, rt, lo, hi, Tops(hi, l, r), ht, l, key, r) /\ Unseparated(t2, ht, l, key)
         /\ LeavesIn(t2) = LeavesIn(t) /\ InternalsIn(t2) = InternalsIn(t)
<1>0. Core(t, rt, NoPage, lo, hi, hi, ht)
  OBVIOUS
<1> PICK R : R = Internal(RemoveAt(t[p].keys, s), RemoveAt(t[p].kids, s + 1))
  OBVIOUS
<1>1. t \in [Pages -> Nodes] /\ lo \in [Pages -> Int] /\ hi \in [Pages -> Int] /\ ht \in [Pages -> Nat]
  BY DEF Core, Ghosts
<1>2. PICK n, N : n = t[p] /\ N = Len(t[p].keys)
  OBVIOUS
<1>3. /\ p \in Pages /\ n.keys \in Seq(Keys) /\ n.kids \in Seq(Pages)
      /\ Len(n.keys) = N /\ Len(n.kids) = N + 1 /\ N \in Nat /\ s \in 1..N
      /\ key = n.keys[s] /\ l = n.kids[s] /\ r = n.kids[s + 1]
  <2>1. /\ p \in Pages /\ t[p].keys \in Seq(Keys) /\ t[p].kids \in Seq(Pages)
        /\ Len(t[p].kids) = Len(t[p].keys) + 1
    BY ONLY <1>1, p \in InternalsIn(t), InternalNode
  <2>2. Len(t[p].keys) \in Nat
    BY ONLY <2>1
  <2> QED BY <2>1, <2>2, <1>2
<1>4. RemoveOf(R, n, N, s)
  BY ONLY <1>2, <1>3, R = Internal(RemoveAt(t[p].keys, s), RemoveAt(t[p].kids, s + 1)), RemovedNodes
<1>5. /\ R \in Nodes /\ R.kind = "internal" /\ Len(R.keys) = N - 1 /\ Len(R.kids) = N
  BY ONLY <1>4 DEF RemoveOf
<1>6. ASSUME NEW j \in 1..(N - 1)
      PROVE  /\ j \in 1..N /\ j + 1 \in 1..N
             /\ j < s => R.keys[j] = n.keys[j]
             /\ j >= s => R.keys[j] = n.keys[j + 1]
  <2>1. R.keys[j] = IF j < s THEN n.keys[j] ELSE n.keys[j + 1]
    BY ONLY <1>4, <1>6 DEF RemoveOf
  <2>2. j \in 1..N /\ j + 1 \in 1..N /\ (j >= s => ~(j < s))
    BY ONLY <1>3, <1>6
  <2> QED BY ONLY <2>1, <2>2
<1>7. ASSUME NEW j \in 1..N
      PROVE  /\ j \in 1..(N + 1) /\ j + 1 \in 1..(N + 1)
             /\ j <= s => R.kids[j] = n.kids[j]
             /\ j > s => R.kids[j] = n.kids[j + 1]
  <2>1. R.kids[j] = IF j < s + 1 THEN n.kids[j] ELSE n.kids[j + 1]
    BY ONLY <1>4, <1>7 DEF RemoveOf
  <2>2. /\ j \in 1..(N + 1) /\ j + 1 \in 1..(N + 1)
        /\ (j <= s => j < s + 1) /\ (j > s => ~(j < s + 1))
    BY ONLY <1>3, <1>7
  <2> QED BY ONLY <2>1, <2>2
<1>8. t2[p] = R /\ t2 \in [Pages -> Nodes] /\ \A x \in Pages : x # p => t2[x] = t[x]
  BY ONLY t2 = Released(t, p, s), <1>1, <1>3, <1>5,
          R = Internal(RemoveAt(t[p].keys, s), RemoveAt(t[p].kids, s + 1)) DEF Released
<1>9. NodesIn(t2) = NodesIn(t) /\ InternalsIn(t2) = InternalsIn(t) /\ LeavesIn(t2) = LeavesIn(t)
  <2>1. \A x \in Pages : t2[x].kind = t[x].kind
    BY <1>5, <1>8 DEF InternalsIn
  <2> QED BY <2>1 DEF NodesIn, LeavesIn, InternalsIn
<1>10. ASSUME NEW j \in 1..(N + 1), NEW c, c = n.kids[j]
       PROVE  /\ c \in NodesIn(t) /\ ht[p] = ht[c] + 1 /\ c \in Pages
              /\ lo[c] = (IF j = 1 THEN lo[p] ELSE n.keys[j - 1])
              /\ hi[c] = (IF j = N + 1 THEN hi[p] ELSE n.keys[j])
              /\ j = s <=> c = l
              /\ j = s + 1 <=> c = r
  <2>1. j \in 1..Len(t[p].kids) /\ c = t[p].kids[j]
    BY <1>2, <1>3, <1>10
  <2>2. /\ c \in NodesIn(t) /\ ht[p] = ht[c] + 1 /\ c \in Pages
        /\ lo[c] = LowerOf(t, lo, p, j) /\ hi[c] = UpperOf(t, hi, p, j)
    BY <2>1, <1>0, KidFacts
  <2>3. s \in 1..Len(t[p].kids) /\ s + 1 \in 1..Len(t[p].kids) /\ l = t[p].kids[s] /\ r = t[p].kids[s + 1]
    BY <1>2, <1>3
  <2>4. (j = s <=> c = l) /\ (j = s + 1 <=> c = r)
    BY <2>1, <2>3, <1>0, OneParent
  <2> QED BY ONLY <2>2, <2>4, <1>2, <1>3 DEF LowerOf, UpperOf
<1>11. s \in 1..(N + 1) /\ s + 1 \in 1..(N + 1) /\ s # N + 1 /\ s + 1 # 1 /\ (s + 1) - 1 = s /\ s # s + 1
  BY ONLY <1>3
<1>12. /\ l \in NodesIn(t) /\ ht[p] = ht[l] + 1 /\ l \in Pages /\ hi[l] = key /\ l # r
       /\ r \in NodesIn(t) /\ ht[p] = ht[r] + 1 /\ r \in Pages /\ lo[r] = key
       /\ lo[l] = (IF s = 1 THEN lo[p] ELSE n.keys[s - 1])
       /\ hi[r] = (IF s + 1 = N + 1 THEN hi[p] ELSE n.keys[s + 1])
  <2>1. /\ l \in NodesIn(t) /\ ht[p] = ht[l] + 1 /\ l \in Pages
        /\ lo[l] = (IF s = 1 THEN lo[p] ELSE n.keys[s - 1])
        /\ hi[l] = (IF s = N + 1 THEN hi[p] ELSE n.keys[s])
        /\ s = s + 1 <=> l = r
    BY ONLY <1>3, <1>10, <1>11
  <2>2. /\ r \in NodesIn(t) /\ ht[p] = ht[r] + 1 /\ r \in Pages
        /\ lo[r] = (IF s + 1 = 1 THEN lo[p] ELSE n.keys[(s + 1) - 1])
        /\ hi[r] = (IF s + 1 = N + 1 THEN hi[p] ELSE n.keys[s + 1])
    BY ONLY <1>3, <1>10, <1>11
  <2> QED BY ONLY <2>1, <2>2, <1>3, <1>11
<1>13. PICK top : top = Tops(hi, l, r)
  OBVIOUS
<1>14. top \in [Pages -> Int] /\ top[l] = hi[r] /\ \A x \in Pages : x # l => top[x] = hi[x]
  BY ONLY <1>1, <1>12, <1>13 DEF Tops
<1>15. SortedInternal(t, lo, hi, p) /\ lo[p] < hi[p]
  BY DEF Core, Sorted, NodesIn
<1>16. /\ \A j \in 1..N : n.keys[j] \in Int /\ lo[p] < n.keys[j] /\ n.keys[j] < hi[p]
       /\ \A j, k \in 1..N : j < k => n.keys[j] < n.keys[k]
  <2>1. \A k \in Keys : k \in Int
    BY TreeAssumption
  <2>2. \A j \in 1..N : n.keys[j] \in Int
    BY ONLY <1>3, <2>1
  <2> QED BY ONLY <2>2, <1>2, <1>3, <1>15 DEF SortedInternal
<1>17. \A x \in Pages : lo[x] \in Int /\ hi[x] \in Int /\ ht[x] \in Nat
  BY ONLY <1>1
<1>18. SortedInternal(t2, lo, hi, p)
  <2>1. ASSUME NEW j \in 1..(N - 1), NEW k \in 1..(N - 1), j < k PROVE R.keys[j] < R.keys[k]
    <3>1. CASE k < s
      <4>1. j < s
        BY ONLY <3>1, <2>1, <1>3
      <4> QED BY ONLY <3>1, <4>1, <2>1, <1>6, <1>16
    <3>2. CASE j >= s
      <4>1. k >= s /\ j + 1 < k + 1
        BY ONLY <3>2, <2>1, <1>3
      <4> QED BY ONLY <3>2, <4>1, <2>1, <1>6, <1>16
    <3>3. CASE j < s /\ k >= s
      <4>1. j < k + 1
        BY ONLY <2>1, <1>3
      <4> QED BY ONLY <3>3, <4>1, <2>1, <1>6, <1>16
    <3> QED
      <4>1. k < s \/ j >= s \/ (j < s /\ k >= s)
        BY ONLY <2>1, <1>3
      <4> QED BY <4>1, <3>1, <3>2, <3>3
  <2>2. ASSUME NEW j \in 1..(N - 1) PROVE lo[p] < R.keys[j] /\ R.keys[j] < hi[p]
    <3>1. j < s \/ j >= s
      BY ONLY <1>3
    <3> QED BY ONLY <3>1, <1>6, <1>16
  <2> QED BY ONLY <2>1, <2>2, <1>5, <1>8 DEF SortedInternal
<1>19. LinkedAt(t2, lo, hi, top, ht, p)
  <2>1. ASSUME NEW j \in 1..N, NEW c, c = R.kids[j]
        PROVE  /\ c \in NodesIn(t) /\ ht[p] = ht[c] + 1
               /\ lo[c] = (IF j = 1 THEN lo[p] ELSE R.keys[j - 1])
               /\ top[c] = (IF j = N THEN hi[p] ELSE R.keys[j])
    <3>1. CASE j < s
      <4>1. /\ j <= s /\ j # N /\ j # N + 1 /\ j # s /\ j \in 1..(N - 1)
            /\ (j # 1 => j - 1 \in 1..(N - 1) /\ j - 1 < s)
        BY ONLY <3>1, <2>1, <1>3
      <4>2. c = n.kids[j] /\ j \in 1..(N + 1)
        BY ONLY <4>1, <2>1, <1>7
      <4>3. R.keys[j] = n.keys[j] /\ (j # 1 => R.keys[j - 1] = n.keys[j - 1])
        BY ONLY <3>1, <4>1, <1>6
      <4>4. /\ c \in NodesIn(t) /\ ht[p] = ht[c] + 1 /\ c \in Pages /\ c # l
            /\ lo[c] = (IF j = 1 THEN lo[p] ELSE n.keys[j - 1]) /\ hi[c] = n.keys[j]
        BY ONLY <4>1, <4>2, <1>10
      <4> QED BY ONLY <4>1, <4>3, <4>4, <1>14
    <3>2. CASE j = s
      <4>1. /\ j <= s /\ (j # N => j \in 1..(N - 1) /\ j >= s /\ j + 1 # N + 1)
            /\ (j = N => j + 1 = N + 1)
            /\ (j # 1 => j - 1 \in 1..(N - 1) /\ j - 1 < s)
        BY ONLY <3>2, <2>1, <1>3
      <4>2. c = l
        BY ONLY <4>1, <3>2, <2>1, <1>3, <1>7
      <4>3. (j # N => R.keys[j] = n.keys[j + 1]) /\ (j # 1 => R.keys[j - 1] = n.keys[j - 1])
        BY ONLY <4>1, <1>6
      <4> QED BY ONLY <3>2, <4>1, <4>2, <4>3, <1>12, <1>14
    <3>3. CASE j > s
      <4>1. PICK k : k = j + 1
        OBVIOUS
      <4>2. /\ (j # N => j \in 1..(N - 1) /\ j >= s /\ k # N + 1)
            /\ (j = N => k = N + 1) /\ k # 1 /\ k - 1 = j /\ k # s /\ k # s + 1
            /\ j # 1 /\ j - 1 \in 1..(N - 1) /\ j - 1 >= s /\ (j - 1) + 1 = j
        BY ONLY <3>3, <4>1, <2>1, <1>3, SMTT(30)
      <4>3. c = n.kids[k] /\ k \in 1..(N + 1)
        BY ONLY <3>3, <4>1, <2>1, <1>7
      <4>4. (j # N => R.keys[j] = n.keys[k]) /\ R.keys[j - 1] = n.keys[j]
        <5>1. R.keys[j - 1] = n.keys[(j - 1) + 1]
          BY ONLY <4>2, <1>6
        <5> QED BY ONLY <4>1, <4>2, <5>1, <1>6
      <4>5. /\ c \in NodesIn(t) /\ ht[p] = ht[c] + 1 /\ c \in Pages /\ c # l
            /\ lo[c] = n.keys[j] /\ hi[c] = (IF k = N + 1 THEN hi[p] ELSE n.keys[k])
        BY ONLY <4>2, <4>3, <1>10
      <4> QED BY ONLY <4>2, <4>4, <4>5, <1>14
    <3> QED
      <4>1. j < s \/ j = s \/ j > s
        BY ONLY <1>3
      <4> QED BY <4>1, <3>1, <3>2, <3>3
  <2> QED BY ONLY <2>1, <1>5, <1>8, <1>9 DEF LinkedAt, LowerOf, UpperOf
<1>20. ASSUME NEW x, KidOf(t, p, x) PROVE KidOf(t2, p, x) \/ x = r
  <2>1. PICK j \in 1..(N + 1) : n.kids[j] = x
    BY ONLY <1>20, <1>2, <1>3 DEF KidOf
  <2>2. CASE j <= s
    <3>1. j \in 1..N
      BY ONLY <2>2, <1>3
    <3>2. R.kids[j] = x
      BY ONLY <2>1, <2>2, <3>1, <1>7
    <3> QED BY ONLY <3>1, <3>2, <1>5, <1>8 DEF KidOf
  <2>3. CASE j > s + 1
    <3>1. j - 1 \in 1..N /\ j - 1 > s /\ (j - 1) + 1 = j
      BY ONLY <2>3, <1>3
    <3>2. R.kids[j - 1] = x
      BY ONLY <2>1, <3>1, <1>7
    <3> QED BY ONLY <3>1, <3>2, <1>5, <1>8 DEF KidOf
  <2>4. j <= s \/ j > s + 1 \/ j = s + 1
    BY ONLY <1>3
  <2> QED BY <2>1, <2>2, <2>3, <2>4, <1>3
<1>21. ASSUME NEW x \in InternalsIn(t), KidOf(t2, x, r) PROVE FALSE
  <2>1. CASE x = p
    <3>1. PICK j \in 1..N : R.kids[j] = r
      BY ONLY <1>21, <2>1, <1>5, <1>8 DEF KidOf
    <3>2. PICK k \in 1..(N + 1) : n.kids[k] = r /\ k # s + 1
      <4>1. CASE j <= s
        <5>1. n.kids[j] = r /\ j \in 1..(N + 1) /\ j # s + 1
          BY ONLY <4>1, <3>1, <1>7, <1>3
        <5> QED BY <5>1
      <4>2. CASE j > s
        <5>1. n.kids[j + 1] = r /\ j + 1 \in 1..(N + 1) /\ j + 1 # s + 1
          BY ONLY <4>2, <3>1, <1>7, <1>3
        <5> QED BY <5>1
      <4>3. j <= s \/ j > s
        BY ONLY <1>3
      <4> QED BY <4>1, <4>2, <4>3
    <3> QED BY ONLY <3>2, <1>10
  <2>2. CASE x # p
    <3>1. t2[x] = t[x]
      BY <2>2, <1>8 DEF InternalsIn
    <3>2. PICK j \in 1..Len(t[x].kids) : t[x].kids[j] = r
      BY ONLY <3>1, <1>21 DEF KidOf
    <3>3. s + 1 \in 1..Len(t[p].kids) /\ r = t[p].kids[s + 1]
      BY <1>2, <1>3
    <3>4. x = p
      BY <3>2, <3>3, <1>0, OneParent
    <3> QED BY <2>2, <3>4
  <2> QED BY <2>1, <2>2
<1>22. ASSUME NEW z, KeyOf(t2, p, z) PROVE KeyOf(t, p, z) /\ z # key
  <2>1. PICK j \in 1..(N - 1) : R.keys[j] = z
    BY ONLY <1>22, <1>5, <1>8 DEF KeyOf
  <2>2. PICK k \in 1..N : n.keys[k] = z /\ k # s
    <3>1. CASE j < s
      <4>1. j \in 1..N /\ n.keys[j] = z /\ j # s
        <5>1. j # s
          BY ONLY <3>1, <1>3, j \in 1..(N - 1)
        <5> QED BY ONLY <5>1, <3>1, <2>1, <1>6
      <4> QED BY ONLY <4>1
    <3>2. CASE j >= s
      <4>1. j \in 1..(N - 1) /\ j + 1 \in 1..N /\ j + 1 # s
        BY ONLY <3>2, <1>3, j \in 1..(N - 1)
      <4>2. n.keys[j + 1] = z
        BY ONLY <3>2, <4>1, <2>1, <1>6
      <4> QED BY ONLY <4>1, <4>2
    <3>3. j < s \/ j >= s
      BY ONLY <1>3
    <3> QED BY <3>1, <3>2, <3>3
  <2>3. k < s \/ s < k
    BY ONLY <2>2, <1>3
  <2>4. z # key
    BY ONLY <2>2, <2>3, <1>3, <1>16
  <2> QED BY ONLY <2>2, <2>4, <1>2, <1>3 DEF KeyOf
<1>23. KidOf(t, p, l)
  BY <1>2, <1>3, <1>11 DEF KidOf
<1>24. NoPage \notin NodesIn(t)
  BY TreeAssumption DEF NodesIn, LeavesIn, InternalsIn
<1>25. /\ Core(t2, rt, r, lo, hi, top, ht)
       /\ LeavesIn(t2) = LeavesIn(t) /\ InternalsIn(t2) = InternalsIn(t)
  <2>1. TopChanged(top, hi, l)
    BY ONLY <1>14 DEF TopChanged
  <2>2. Reparented(t, t2, p, NoPage, r, lo, hi, ht)
    BY ONLY <1>5, <1>8, <1>20, <1>21, <1>22, <1>24 DEF Reparented
  <2> QED BY ONLY <2>1, <2>2, <1>0, <1>8, <1>18, <1>19, <1>23, p \in InternalsIn(t), ParentChanged
<1>26. KeyOf(t, p, key)
  BY <1>2, <1>3 DEF KeyOf
<1>27. key \in Keys /\ key \in Int /\ lo[p] < key /\ key < hi[p]
  BY <1>0, <1>26, KeyBetween
<1>28. Pending(t2, lo, hi, ht, l, key, r)
  <2>1. ASSUME NEW x \in NodesIn(t), ht[x] <= ht[l] PROVE Clear(key, lo, hi, x)
    <3>1. ht[x] < ht[p]
      BY <2>1, <1>12, <1>17, <1>0, CoreTypes
    <3> QED BY <3>1, <1>0, <1>26, NestedKey
  <2>2. ht[l] = ht[r]
    BY ONLY <1>12, <1>17
  <2> QED BY ONLY <2>1, <2>2, <1>9, <1>12, <1>27 DEF Pending
<1>29. ASSUME NEW y \in InternalsIn(t2), ht[y] > ht[l], KeyOf(t2, y, key) PROVE FALSE
  <2>1. y \in InternalsIn(t) /\ y # p
    BY <1>9, <1>22, <1>29
  <2>2. KeyOf(t, y, key) /\ y \in Pages /\ y \in NodesIn(t) /\ p \in NodesIn(t)
    <3>1. y \in Pages /\ t2[y] = t[y]
      BY <2>1, <1>8 DEF InternalsIn
    <3> QED BY ONLY <2>1, <3>1, <1>29, p \in InternalsIn(t) DEF KeyOf, NodesIn
  <2>3. key \in Int /\ lo[y] < key /\ key < hi[y]
    BY <2>1, <2>2, <1>0, KeyBetween
  <2>4. CASE ht[y] = ht[p]
    <3>1. lo[y] <= key /\ lo[p] <= key
      BY ONLY <2>2, <2>3, <1>3, <1>17, <1>27
    <3> QED BY <3>1, <2>1, <2>2, <2>3, <2>4, <1>0, <1>27, SameNode
  <2>5. CASE ht[y] > ht[p]
    <3>1. ht[p] < ht[y]
      BY ONLY <2>5, <2>2, <1>3, <1>17
    <3>2. Clear(key, lo, hi, p)
      BY <3>1, <2>1, <2>2, <1>0, NestedKey
    <3> QED BY ONLY <3>2, <1>27, <1>3, <1>17 DEF Clear
  <2>6. ht[y] = ht[p] \/ ht[y] > ht[p]
    <3>1. PICK a \in Nat, b \in Nat : a = ht[y] /\ b = ht[l]
      BY ONLY <2>2, <1>12, <1>17
    <3>2. ht[p] = b + 1 /\ a > b
      BY ONLY <3>1, <1>12, <1>29
    <3> QED BY ONLY <3>1, <3>2
  <2> QED BY <2>4, <2>5, <2>6
<1>30. Loose(t2, rt, lo, hi, Tops(hi, l, r), ht, l, key, r)
  BY ONLY <1>13, <1>25, <1>28 DEF Loose
<1>31. Unseparated(t2, ht, l, key)
  BY ONLY <1>29 DEF Unseparated
<1> QED BY <1>9, <1>30, <1>31

\* Two sequences with the same elements are the same.
LEMMA SameSeq ==
  ASSUME NEW S, NEW s \in Seq(S), NEW u \in Seq(S), Len(s) = Len(u),
         \A j \in 1..Len(s) : s[j] = u[j]
  PROVE  s = u
OBVIOUS

\* Taking an element out and putting another in its place replaces it.
Put(s, i, e) == [s EXCEPT ![i] = e]

\* Taking an element out and putting one in at the same place only replaces it.
LEMMA Replaced ==
  ASSUME NEW S, NEW s \in Seq(S), NEW i \in 1..Len(s), NEW e \in S
  PROVE  /\ InsertAt(RemoveAt(s, i), i, e) = Put(s, i, e)
         /\ InsertAt(RemoveAt(s, i), i, s[i]) = s
<1>1. PICK n, a : n = Len(s) /\ a = RemoveAt(s, i)
  OBVIOUS
<1>2. n \in Nat /\ i \in 1..n /\ n = (n - 1) + 1
  BY <1>1
<1>3. /\ a \in Seq(S) /\ Len(a) = n - 1
      /\ \A j \in 1..(n - 1) : a[j] = IF j < i THEN s[j] ELSE s[j + 1]
  BY <1>1, RemoveAtFacts
<1>4. ASSUME NEW f \in S, NEW b, b = InsertAt(a, i, f)
      PROVE  b \in Seq(S) /\ Len(b) = n /\ \A j \in 1..n : b[j] = IF j = i THEN f ELSE s[j]
  <2>1. i \in 1..(Len(a) + 1)
    BY ONLY <1>2, <1>3
  <2>2. b \in Seq(S) /\ IsInsert(b, a, i, f)
    BY ONLY <2>1, <1>3, <1>4, InsertAtFacts
  <2>3. Len(b) = n
    BY ONLY <2>2, <1>2, <1>3 DEF IsInsert
  <2>4. ASSUME NEW j \in 1..n PROVE b[j] = IF j = i THEN f ELSE s[j]
    <3>1. b[j] = IF j < i THEN a[j] ELSE IF j = i THEN f ELSE a[j - 1]
      BY ONLY <2>2, <2>4, <1>2, <1>3 DEF IsInsert
    <3>2. CASE j < i
      <4>1. j \in 1..(n - 1) /\ j # i
        BY ONLY <3>2, <2>4, <1>2
      <4> QED BY ONLY <4>1, <3>1, <3>2, <1>3
    <3>3. CASE j = i
      <4>1. ~(j < i)
        BY ONLY <3>3, <1>2
      <4> QED BY ONLY <4>1, <3>1, <3>3
    <3>4. CASE j > i
      <4>1. j - 1 \in 1..(n - 1) /\ j # i /\ ~(j < i) /\ ~(j - 1 < i) /\ (j - 1) + 1 = j
        BY ONLY <3>4, <2>4, <1>2
      <4> QED BY ONLY <4>1, <3>1, <1>3
    <3> QED
      <4>1. j < i \/ j = i \/ j > i
        BY ONLY <2>4, <1>2
      <4> QED BY <4>1, <3>2, <3>3, <3>4
  <2> QED BY <2>2, <2>3, <2>4
<1>5. InsertAt(RemoveAt(s, i), i, e) = Put(s, i, e)
  <2>1. PICK b : b = InsertAt(a, i, e)
    OBVIOUS
  <2>2. b \in Seq(S) /\ Len(b) = n /\ \A j \in 1..n : b[j] = IF j = i THEN e ELSE s[j]
    BY ONLY <2>1, <1>4, e \in S
  <2>3. PICK c : c = [s EXCEPT ![i] = e]
    OBVIOUS
  <2>4. c \in Seq(S) /\ Len(c) = n /\ \A j \in 1..n : c[j] = IF j = i THEN e ELSE s[j]
    BY <2>3, <1>1
  <2>5. b = c
    BY ONLY <2>2, <2>4, SameSeq
  <2> QED BY <2>1, <2>3, <2>5, <1>1 DEF Put
<1>6. InsertAt(RemoveAt(s, i), i, s[i]) = s
  <2>1. PICK b : b = InsertAt(a, i, s[i])
    OBVIOUS
  <2>2. b \in Seq(S) /\ Len(b) = n /\ \A j \in 1..n : b[j] = IF j = i THEN s[i] ELSE s[j]
    BY ONLY <2>1, <1>4, s[i] \in S
  <2>3. b = s
    BY ONLY <2>2, <1>1, s \in Seq(S), SameSeq
  <2> QED BY <2>1, <2>3, <1>1
<1> QED BY <1>5, <1>6

\* Where the work at l and r leaves the ghost functions alone.
Agree(lo, hi, ht, l, r, lo2, hi2, ht2) ==
    /\ \A x \in Pages : x # r => lo2[x] = lo[x]
    /\ \A x \in Pages : x # l => hi2[x] = hi[x]
    /\ \A x \in Pages : ht2[x] = ht[x]

\* The two children at the sides of key s of p, and that key.
Neighbours(t, p, s, l, key, r) ==
    /\ p \in InternalsIn(t) /\ s \in 1..Len(t[p].keys)
    /\ key = t[p].keys[s] /\ l = t[p].kids[s] /\ r = t[p].kids[s + 1]

\* Where two neighbours under a common parent stand, and what they answer for.
LEMMA NeighbourFacts ==
  ASSUME NEW t, NEW rt, NEW lo, NEW hi, NEW ht, Core(t, rt, NoPage, lo, hi, hi, ht),
         NEW p, NEW s, NEW l, NEW key, NEW r, Neighbours(t, p, s, l, key, r)
  PROVE  /\ l \in NodesIn(t) /\ r \in NodesIn(t) /\ p \in NodesIn(t) /\ p \in Pages
         /\ l \in Pages /\ r \in Pages /\ l # r /\ l # p /\ r # p
         /\ ht[p] = ht[l] + 1 /\ ht[r] = ht[l] /\ ht[l] \in Nat
         /\ key \in Keys /\ key \in Int /\ hi[l] = key /\ lo[r] = key
         /\ lo[l] \in Int /\ hi[r] \in Int /\ lo[l] < key /\ key < hi[r]
         /\ lo[p] \in Int /\ hi[p] \in Int /\ lo[p] <= lo[l] /\ hi[r] <= hi[p]
         /\ lo[p] < key /\ key < hi[p]
         /\ (l \in LeavesIn(t) <=> r \in LeavesIn(t)) /\ (l \in InternalsIn(t) <=> r \in InternalsIn(t))
<1>0. /\ Core(t, rt, NoPage, lo, hi, hi, ht) /\ p \in InternalsIn(t) /\ s \in 1..Len(t[p].keys)
      /\ key = t[p].keys[s] /\ l = t[p].kids[s] /\ r = t[p].kids[s + 1]
  BY DEF Neighbours
<1>1. t \in [Pages -> Nodes] /\ lo \in [Pages -> Int] /\ hi \in [Pages -> Int] /\ ht \in [Pages -> Nat]
  BY DEF Core, Ghosts
<1>2. Len(t[p].kids) = Len(t[p].keys) + 1 /\ Len(t[p].keys) \in Nat /\ p \in Pages
  <2>1. Len(t[p].kids) = Len(t[p].keys) + 1 /\ t[p].keys \in Seq(Keys) /\ p \in Pages
    BY <1>0, <1>1, InternalNode
  <2> QED BY <2>1
<1>3. /\ s \in 1..Len(t[p].kids) /\ s + 1 \in 1..Len(t[p].kids) /\ s # Len(t[p].kids)
      /\ s + 1 # 1 /\ (s + 1) - 1 = s /\ s # s + 1
  BY ONLY <1>0, <1>2
<1>4. /\ l \in NodesIn(t) /\ l \in Pages /\ ht[p] = ht[l] + 1 /\ l # p
      /\ hi[l] = UpperOf(t, hi, p, s) /\ lo[p] <= lo[l] /\ lo[l] < hi[l]
  BY ONLY <1>0, <1>3, KidFacts
<1>5. /\ r \in NodesIn(t) /\ r \in Pages /\ ht[p] = ht[r] + 1 /\ r # p
      /\ lo[r] = LowerOf(t, lo, p, s + 1) /\ lo[r] < hi[r] /\ hi[r] <= hi[p]
  BY ONLY <1>0, <1>3, KidFacts
<1>6. hi[l] = key /\ lo[r] = key
  BY ONLY <1>0, <1>3, <1>4, <1>5 DEF UpperOf, LowerOf
<1>7. l # r
  BY <1>0, <1>3, OneParent
<1>8. KeyOf(t, p, key)
  BY <1>0 DEF KeyOf
<1>9. key \in Keys /\ key \in Int /\ lo[p] < key /\ key < hi[p]
  BY <1>0, <1>8, KeyBetween
<1>10. ht[l] \in Nat /\ ht[r] \in Nat /\ ht[r] = ht[l]
  BY ONLY <1>1, <1>4, <1>5
<1>11. /\ lo[l] \in Int /\ hi[r] \in Int /\ lo[p] \in Int /\ hi[p] \in Int
  BY ONLY <1>1, <1>2, <1>4, <1>5
<1>12. (l \in LeavesIn(t) <=> r \in LeavesIn(t)) /\ (l \in InternalsIn(t) <=> r \in InternalsIn(t))
  BY <1>0, <1>4, <1>5, <1>10, KindHeight
<1>13. p \in NodesIn(t)
  BY <1>0, CoreTypes
<1> QED BY ONLY <1>2, <1>4, <1>5, <1>6, <1>7, <1>9, <1>10, <1>11, <1>12, <1>13

\* Merged, as two steps: r leaves its parent, then it is emptied into l.
LEMMA MergedCore ==
  ASSUME NEW t, NEW rt, NEW lo, NEW hi, NEW ht, Core(t, rt, NoPage, lo, hi, hi, ht),
         NEW p, NEW s, NEW l, NEW key, NEW r, Neighbours(t, p, s, l, key, r),
         NEW t2, t2 = Merged(t, p, s), NEW top, top = Tops(hi, l, r)
  PROVE  /\ Core(t2, rt, NoPage, lo, top, top, ht)
         /\ LeavesIn(t2) = LeavesIn(t) \ {r} /\ InternalsIn(t2) = InternalsIn(t) \ {r}
         /\ t2[l] = Joined(t[l], key, t[r]) /\ t2[r] = Unused
         /\ t2[p] = Internal(RemoveAt(t[p].keys, s), RemoveAt(t[p].kids, s + 1))
         /\ \A x \in Pages : x # l /\ x # r /\ x # p => t2[x] = t[x]
         /\ top[l] = hi[r] /\ \A x \in Pages : x # l => top[x] = hi[x]
<1>0. /\ Core(t, rt, NoPage, lo, hi, hi, ht) /\ p \in InternalsIn(t) /\ s \in 1..Len(t[p].keys)
      /\ key = t[p].keys[s] /\ l = t[p].kids[s] /\ r = t[p].kids[s + 1]
  BY DEF Neighbours
<1>1. /\ p \in Pages /\ l \in Pages /\ r \in Pages /\ l # r /\ l # p /\ r # p
  BY NeighbourFacts
<1>2. t \in [Pages -> Nodes] /\ hi \in [Pages -> Int]
  BY DEF Core, Ghosts
<1>3. PICK R : R = Internal(RemoveAt(t[p].keys, s), RemoveAt(t[p].kids, s + 1))
  OBVIOUS
<1>4. PICK t1 : t1 = Released(t, p, s)
  OBVIOUS
<1>5. /\ Loose(t1, rt, lo, hi, top, ht, l, key, r) /\ Unseparated(t1, ht, l, key)
      /\ LeavesIn(t1) = LeavesIn(t) /\ InternalsIn(t1) = InternalsIn(t)
  BY ONLY <1>0, <1>4, top = Tops(hi, l, r), ChildReleased
<1>6. t1[p] = R /\ \A x \in Pages : x # p => t1[x] = t[x]
  BY ONLY <1>1, <1>2, <1>3, <1>4 DEF Released
<1>7. t2 = Emptied(t1, l, key, r)
  <2>1. t2 = [t EXCEPT ![l] = Joined(t[l], key, t[r]), ![r] = Unused, ![p] = R]
    BY <1>0, <1>3 DEF Merged
  <2>2. t1[l] = t[l] /\ t1[r] = t[r] /\ t1 = [t EXCEPT ![p] = R]
    BY ONLY <1>1, <1>3, <1>4, <1>6 DEF Released
  <2> QED BY ONLY <2>1, <2>2, <1>1, <1>2 DEF Emptied
<1>8. /\ Core(t2, rt, NoPage, lo, top, top, ht)
      /\ LeavesIn(t2) = LeavesIn(t1) \ {r} /\ InternalsIn(t2) = InternalsIn(t1) \ {r}
  BY ONLY <1>5, <1>7, PairMerged
<1>9. /\ t2[l] = Joined(t[l], key, t[r]) /\ t2[r] = Unused /\ t2[p] = R
      /\ \A x \in Pages : x # l /\ x # r /\ x # p => t2[x] = t[x]
  BY <1>0, <1>1, <1>2, <1>3 DEF Merged
<1>10. top[l] = hi[r] /\ \A x \in Pages : x # l => top[x] = hi[x]
  BY ONLY <1>1, <1>2, top = Tops(hi, l, r) DEF Tops
<1> QED BY ONLY <1>3, <1>5, <1>8, <1>9, <1>10

\* Redistributed, as three steps: the neighbours are merged, what they hold is
\* cut in two again, and the upper part goes back into the parent.
Refitted(t, l, r, pair) == [t EXCEPT ![l] = pair.l, ![r] = pair.r]

\* t2 is t but for p and its children l and r; p has as many children as before.
OthersKept(t, t2, p, l, r) ==
    /\ Len(t2[p].kids) = Len(t[p].kids)
    /\ \A x \in Pages : x # l /\ x # r /\ x # p => t2[x] = t[x]

\* Two neighbours that were merged and cut again at another key leave the core in order:
\* a redistribution (RedistributeFromLeft, RedistributeFromRight) is such a pair of steps.
LEMMA PairRecut ==
  ASSUME NEW t, NEW rt, NEW lo, NEW hi, NEW ht, Core(t, rt, NoPage, lo, hi, hi, ht),
         NEW p, NEW s, NEW l, NEW key, NEW r, Neighbours(t, p, s, l, key, r),
         NEW pair, pair.sep \in Keys, NEW lo2, NEW hi2, NEW ht2,
         CutGhosts(lo, Tops(hi, l, r), ht, l, pair.sep, r, lo2, hi2, ht2),
         NEW tc, tc = Refitted(Merged(t, p, s), l, r, pair),
         Loose(tc, rt, lo2, hi2, Tops(hi2, l, r), ht2, l, pair.sep, r),
         NEW t2, t2 = Redistributed(t, p, s, pair)
  PROVE  /\ Core(t2, rt, NoPage, lo2, hi2, hi2, ht2) /\ Agree(lo, hi, ht, l, r, lo2, hi2, ht2)
         /\ LeavesIn(t2) = LeavesIn(tc) /\ InternalsIn(t2) = InternalsIn(tc)
         /\ t2[l] = pair.l /\ t2[r] = pair.r /\ OthersKept(t, t2, p, l, r)
<1> PICK tm, top : tm = Merged(t, p, s) /\ top = Tops(hi, l, r)
  OBVIOUS
<1>0. /\ Core(t, rt, NoPage, lo, hi, hi, ht) /\ p \in InternalsIn(t) /\ s \in 1..Len(t[p].keys)
      /\ key = t[p].keys[s] /\ l = t[p].kids[s] /\ r = t[p].kids[s + 1]
  BY DEF Neighbours
<1>1. /\ p \in Pages /\ l \in Pages /\ r \in Pages /\ l # r /\ l # p /\ r # p /\ ht[r] = ht[l]
  BY NeighbourFacts
<1>2. t \in [Pages -> Nodes] /\ lo \in [Pages -> Int] /\ hi \in [Pages -> Int] /\ ht \in [Pages -> Nat]
  BY DEF Core, Ghosts
<1>3. PICK keys, kids : keys = t[p].keys /\ kids = t[p].kids
  OBVIOUS
<1>4. /\ t[p] = Internal(keys, kids) /\ keys \in Seq(Keys) /\ kids \in Seq(Pages)
      /\ Len(kids) = Len(keys) + 1 /\ s \in 1..Len(keys)
      /\ l = kids[s] /\ r = kids[s + 1] /\ s + 1 \in 1..Len(kids)
  <2>1. /\ t[p] = Internal(t[p].keys, t[p].kids) /\ t[p].keys \in Seq(Keys) /\ t[p].kids \in Seq(Pages)
        /\ Len(t[p].kids) = Len(t[p].keys) + 1
    BY ONLY <1>0, <1>2, InternalNode
  <2> QED BY ONLY <2>1, <1>0, <1>3
<1>5. PICK a, b : a = RemoveAt(keys, s) /\ b = RemoveAt(kids, s + 1)
  OBVIOUS
<1>6. /\ tm[l] = Joined(t[l], key, t[r]) /\ tm[r] = Unused /\ tm[p] = Internal(a, b)
      /\ \A x \in Pages : x # l /\ x # r /\ x # p => tm[x] = t[x]
  BY <1>3, <1>5, MergedCore
<1>7. DOMAIN tm = Pages /\ DOMAIN t = Pages
  BY <1>2 DEF Merged
<1>8. /\ tc[p] = Internal(a, b) /\ tc[l] = pair.l /\ tc[r] = pair.r /\ DOMAIN tc = Pages
      /\ \A x \in Pages : x # l /\ x # r /\ x # p => tc[x] = t[x]
  BY ONLY <1>1, <1>6, <1>7, tc = Refitted(tm, l, r, pair) DEF Refitted
<1>9. p \in InternalsIn(tc) /\ tc[p].keys = a /\ tc[p].kids = b
  BY ONLY <1>1, <1>8 DEF InternalsIn, Internal
<1>10. Len(b) = Len(kids) - 1 /\ s \in 1..Len(b) /\ b[s] = l
  <2>1. /\ Len(b) = Len(kids) - 1
        /\ \A j \in 1..(Len(kids) - 1) : b[j] = IF j < s + 1 THEN kids[j] ELSE kids[j + 1]
    BY ONLY <1>4, <1>5, RemoveAtFacts
  <2>2. s \in 1..(Len(kids) - 1) /\ s < s + 1
    BY ONLY <1>4
  <2> QED BY ONLY <2>1, <2>2, <1>4
<1>11. InsertAt(a, s, pair.sep) = [keys EXCEPT ![s] = pair.sep]
  <2>1. InsertAt(RemoveAt(keys, s), s, pair.sep) = [keys EXCEPT ![s] = pair.sep]
    <3>1. InsertAt(RemoveAt(keys, s), s, pair.sep) = Put(keys, s, pair.sep)
      BY ONLY <1>4, pair.sep \in Keys, Replaced
    <3> QED BY ONLY <3>1 DEF Put
  <2> QED BY ONLY <2>1, <1>5
<1>12. InsertAt(b, s + 1, r) = kids
  BY ONLY <1>1, <1>4, <1>5, Replaced
<1>13. t2 = [t EXCEPT ![l] = pair.l, ![r] = pair.r, ![p].keys[s] = pair.sep]
  BY <1>0 DEF Redistributed
<1>14. PICK I : I = Internal([keys EXCEPT ![s] = pair.sep], kids)
  OBVIOUS
<1>15. /\ t2[l] = pair.l /\ t2[r] = pair.r /\ t2[p] = I /\ DOMAIN t2 = Pages
       /\ \A x \in Pages : x # l /\ x # r /\ x # p => t2[x] = t[x]
  <2>1. t2[p] = [t[p] EXCEPT !.keys[s] = pair.sep]
    BY ONLY <1>1, <1>7, <1>13
  <2>2. [Internal(keys, kids) EXCEPT !.keys[s] = pair.sep] = I
    BY ONLY <1>14 DEF Internal
  <2>3. t2[p] = I
    BY ONLY <2>1, <2>2, <1>4
  <2>4. /\ t2[l] = pair.l /\ t2[r] = pair.r /\ DOMAIN t2 = Pages
        /\ \A x \in Pages : x # l /\ x # r /\ x # p => t2[x] = t[x]
    BY ONLY <1>1, <1>7, <1>13
  <2> QED BY ONLY <2>3, <2>4
<1>16. PICK t3 : t3 = Taken(tc, p, s, pair.sep, r)
  OBVIOUS
<1>17. t3 = [tc EXCEPT ![p] = I]
  BY ONLY <1>9, <1>11, <1>12, <1>14, <1>16 DEF Taken
<1>18. t2 = t3
  <2>1. DOMAIN t3 = Pages /\ t3[p] = I /\ \A x \in Pages : x # p => t3[x] = tc[x]
    BY ONLY <1>1, <1>8, <1>17
  <2>2. \A x \in Pages : t2[x] = t3[x]
    BY ONLY <2>1, <1>1, <1>8, <1>15
  <2>3. t2 = [x \in Pages |-> t2[x]]
    BY ONLY <1>13, <1>7
  <2>4. t3 = [x \in Pages |-> t3[x]]
    BY ONLY <1>17, <1>8
  <2> QED BY ONLY <2>2, <2>3, <2>4
<1>19. /\ Core(t3, rt, NoPage, lo2, hi2, hi2, ht2)
       /\ LeavesIn(t3) = LeavesIn(tc) /\ InternalsIn(t3) = InternalsIn(tc)
  <2>1. s \in 1..Len(tc[p].kids) /\ tc[p].kids[s] = l
    BY ONLY <1>9, <1>10
  <2> QED BY ONLY <2>1, <1>9, <1>16, Loose(tc, rt, lo2, hi2, Tops(hi2, l, r), ht2, l, pair.sep, r), ChildAdopted
<1>20. Agree(lo, hi, ht, l, r, lo2, hi2, ht2)
  <2>1. top \in [Pages -> Int] /\ top[l] = hi[r] /\ \A x \in Pages : x # l => top[x] = hi[x]
    BY ONLY <1>1, <1>2, top = Tops(hi, l, r) DEF Tops
  <2>2. /\ lo2 = [lo EXCEPT ![r] = pair.sep]
        /\ hi2 = [top EXCEPT ![l] = pair.sep, ![r] = top[l]]
        /\ ht2 = [ht EXCEPT ![r] = ht[l]]
    BY ONLY CutGhosts(lo, top, ht, l, pair.sep, r, lo2, hi2, ht2) DEF CutGhosts
  <2>3. \A x \in Pages : x # r => lo2[x] = lo[x]
    BY ONLY <2>2, <1>2
  <2>4. \A x \in Pages : x # l => hi2[x] = hi[x]
    BY ONLY <2>1, <2>2, <1>1, <1>2
  <2>5. \A x \in Pages : ht2[x] = ht[x]
    BY ONLY <2>2, <1>1, <1>2
  <2> QED BY ONLY <2>3, <2>4, <2>5 DEF Agree
<1>21. Len(t2[p].kids) = Len(t[p].kids)
  BY ONLY <1>3, <1>14, <1>15 DEF Internal
<1>22. OthersKept(t, t2, p, l, r)
  BY ONLY <1>15, <1>21 DEF OthersKept
<1> QED BY ONLY <1>15, <1>18, <1>19, <1>20, <1>22

\* E is first and then second.
IsSplit(E, first, second) ==
    /\ Len(E) = Len(first) + Len(second)
    /\ \A j \in 1..(Len(first) + Len(second)) :
          E[j] = IF j <= Len(first) THEN first[j] ELSE second[j - Len(first)]

\* The two parts of ascending entries are divided by the first key of the second part.
LEMMA OrderedSplit ==
  ASSUME NEW E \in Seq(Entries), NEW a \in Int, NEW b \in Int, Ordered(E, a, b),
         NEW first \in Seq(Entries), NEW second \in Seq(Entries), IsSplit(E, first, second),
         Len(first) > 0, Len(second) > 0, NEW key, key = second[1].key
  PROVE  /\ key \in Keys /\ key \in Int /\ a < key /\ key < b
         /\ Ordered(first, a, key) /\ Ordered(second, key, b)
<1>1. PICK M, N : M = Len(first) /\ N = Len(second)
  OBVIOUS
<1>2. M \in Nat /\ N \in Nat /\ M > 0 /\ N > 0
  BY <1>1
<1>3. Len(E) = M + N /\ \A j \in 1..(M + N) : E[j] = IF j <= M THEN first[j] ELSE second[j - M]
  BY <1>1 DEF IsSplit
<1>4. ASSUME NEW j \in 1..M PROVE j \in 1..(M + N) /\ first[j] = E[j] /\ j < M + 1
  <2>1. j \in 1..(M + N) /\ j <= M /\ j < M + 1
    BY ONLY <1>2, <1>4
  <2> QED BY ONLY <2>1, <1>3
<1>5. ASSUME NEW j \in 1..N PROVE M + j \in 1..(M + N) /\ second[j] = E[M + j]
  <2>1. M + j \in 1..(M + N) /\ ~(M + j <= M) /\ (M + j) - M = j
    BY ONLY <1>2, <1>5
  <2> QED BY ONLY <2>1, <1>3
<1>6. /\ \A j \in 1..(M + N) : a <= E[j].key /\ E[j].key < b
      /\ \A i, j \in 1..(M + N) : i < j => E[i].key < E[j].key
  BY <1>3 DEF Ordered
<1>7. \A j \in 1..(M + N) : E[j].key \in Keys /\ E[j].key \in Int
  <2>1. \A j \in 1..(M + N) : E[j] \in Entries
    BY <1>3
  <2> QED BY <2>1, TreeAssumption DEF Entries
<1>8. 1 \in 1..M /\ 1 \in 1..N
  BY ONLY <1>2
<1>9. key = E[M + 1].key /\ M + 1 \in 1..(M + N)
  BY ONLY <1>5, <1>8, key = second[1].key
<1>10. key \in Keys /\ key \in Int /\ key < b
  BY ONLY <1>6, <1>7, <1>9
<1>11. \A j \in 1..M : E[j].key < key
  BY ONLY <1>4, <1>6, <1>9
<1>12. a < key
  <2>1. a <= E[1].key /\ E[1].key < key /\ E[1].key \in Int
    BY ONLY <1>4, <1>6, <1>7, <1>8, <1>11
  <2> QED BY ONLY <2>1, <1>10, a \in Int
<1>13. Ordered(first, a, key)
  <2>1. ASSUME NEW i \in 1..M, NEW j \in 1..M, i < j PROVE first[i].key < first[j].key
    BY ONLY <2>1, <1>4, <1>6
  <2>2. ASSUME NEW i \in 1..M PROVE a <= first[i].key /\ first[i].key < key
    BY ONLY <2>2, <1>4, <1>6, <1>11
  <2> QED BY ONLY <2>1, <2>2, <1>1 DEF Ordered
<1>14. Ordered(second, key, b)
  <2>1. ASSUME NEW i \in 1..N, NEW j \in 1..N, i < j PROVE second[i].key < second[j].key
    <3>1. M + i < M + j
      BY ONLY <2>1, <1>2
    <3> QED BY ONLY <3>1, <2>1, <1>5, <1>6
  <2>2. ASSUME NEW i \in 1..N PROVE key <= second[i].key /\ second[i].key < b
    <3>1. M + 1 = M + i \/ M + 1 < M + i
      BY ONLY <2>2, <1>2
    <3>2. second[i].key \in Int /\ second[i].key < b
      BY ONLY <2>2, <1>5, <1>6, <1>7
    <3>3. M + 1 < M + i => key < second[i].key
      BY ONLY <2>2, <1>5, <1>6, <1>9
    <3>4. M + 1 = M + i => key = second[i].key
      BY ONLY <2>2, <1>5, <1>9
    <3> QED BY ONLY <3>1, <3>2, <3>3, <3>4, <1>10
  <2> QED BY ONLY <2>1, <2>2, <1>1 DEF Ordered
<1> QED BY ONLY <1>10, <1>12, <1>13, <1>14

\* The links run through neighbouring leaves.
LEMMA NextLeaf ==
  ASSUME NEW t, NEW rt, NEW lo, NEW hi, NEW ht, Core(t, rt, NoPage, lo, hi, hi, ht),
         NEW l \in LeavesIn(t), NEW r \in LeavesIn(t), NEW key \in Keys, hi[l] = key, lo[r] = key
  PROVE  t[l].next = r
<1>1. key \in Int /\ key < High
  BY KeysWithin
<1>2. l \in Pages /\ r \in Pages /\ l \in NodesIn(t) /\ r \in NodesIn(t)
  BY DEF LeavesIn, NodesIn
<1>3. High \in Int
  BY KeysWithin
<1>4. t[l].next \in LeavesIn(t) /\ lo[t[l].next] = key
  BY <1>1, <1>3 DEF Core, Chain
<1>5. PICK n : n = t[l].next
  OBVIOUS
<1>6. n \in NodesIn(t) /\ n \in Pages /\ ht[n] = ht[r]
  BY <1>2, <1>4, <1>5, LeafOrdered DEF NodesIn, LeavesIn
<1>7. lo[n] < hi[n] /\ lo[r] < hi[r]
  BY <1>2, <1>6 DEF Core, Sorted
<1>8. lo[n] <= key /\ key < hi[n] /\ lo[r] <= key /\ key < hi[r]
  BY <1>1, <1>4, <1>5, <1>7
<1>9. n = r
  BY <1>1, <1>2, <1>6, <1>8, SameNode
<1> QED BY <1>5, <1>9

\* t2 is in order again, and only what is searched in l and in r has changed.
Restored(t2, rt, lo, hi, ht, l, r) ==
    \E lo2, hi2, ht2 : Core(t2, rt, NoPage, lo2, hi2, hi2, ht2) /\ Agree(lo, hi, ht, l, r, lo2, hi2, ht2)

\* Only p and its children l and r have changed, and no node has come or gone.
SamePlaces(t, t2, p, l, r) ==
    LeavesIn(t2) = LeavesIn(t) /\ InternalsIn(t2) = InternalsIn(t) /\ OthersKept(t, t2, p, l, r)

\* Two neighbouring leaves divide their entries in another way.
LEMMA LeavesRedistributed ==
  ASSUME NEW t, NEW rt, NEW lo, NEW hi, NEW ht, Core(t, rt, NoPage, lo, hi, hi, ht),
         NEW p, NEW s, NEW l, NEW key, NEW r, Neighbours(t, p, s, l, key, r), l \in LeavesIn(t),
         NEW first \in Seq(Entries), NEW second \in Seq(Entries), Len(first) > 0, Len(second) > 0,
         IsSplit(t[l].entries \o t[r].entries, first, second),
         NEW pair, pair.l = Leaf(first, t[l].next), pair.r = Leaf(second, t[r].next),
         pair.sep = second[1].key,
         NEW t2, t2 = Redistributed(t, p, s, pair)
  PROVE  /\ Restored(t2, rt, lo, hi, ht, l, r) /\ SamePlaces(t, t2, p, l, r)
         /\ t2[l] = pair.l /\ t2[r] = pair.r
<1>0. Core(t, rt, NoPage, lo, hi, hi, ht) /\ Neighbours(t, p, s, l, key, r)
  OBVIOUS
<1>1. /\ l \in Pages /\ r \in Pages /\ p \in Pages /\ l # r /\ l # p /\ r # p /\ r \in LeavesIn(t)
      /\ key \in Keys /\ key \in Int /\ hi[l] = key /\ lo[r] = key
      /\ lo[l] \in Int /\ hi[r] \in Int /\ lo[l] < key /\ key < hi[r]
  BY NeighbourFacts
<1>2. t \in [Pages -> Nodes]
  BY DEF Core
<1>3. PICK tm, top : tm = Merged(t, p, s) /\ top = Tops(hi, l, r)
  OBVIOUS
<1>4. /\ Core(tm, rt, NoPage, lo, top, top, ht)
      /\ LeavesIn(tm) = LeavesIn(t) \ {r} /\ InternalsIn(tm) = InternalsIn(t) \ {r}
      /\ tm[l] = Joined(t[l], key, t[r]) /\ tm[r] = Unused /\ top[l] = hi[r]
  BY ONLY <1>0, <1>3, MergedCore
<1>5. PICK E : E = t[l].entries \o t[r].entries
  OBVIOUS
<1>6. /\ t[l].kind = "leaf" /\ t[l].entries \in Seq(Entries)
      /\ t[r].entries \in Seq(Entries) /\ t[r].next \in Pages \cup {NoPage}
  BY <1>1, <1>2, LeafNode
<1>7. tm[l] = Leaf(E, t[r].next)
  BY ONLY <1>4, <1>5, <1>6 DEF Joined
<1>8. Ordered(t[l].entries, lo[l], key) /\ Ordered(t[r].entries, key, hi[r])
  <2>1. Ordered(t[l].entries, lo[l], hi[l])
    BY ONLY <1>0, l \in LeavesIn(t), LeafOrdered
  <2>2. Ordered(t[r].entries, lo[r], hi[r])
    BY ONLY <1>0, <1>1, LeafOrdered
  <2> QED BY ONLY <2>1, <2>2, <1>1
<1>9. E \in Seq(Entries) /\ Ordered(E, lo[l], hi[r])
  <2>1. lo[l] <= key /\ key <= hi[r]
    BY ONLY <1>1
  <2> QED BY ONLY <2>1, <1>1, <1>5, <1>6, <1>8, OrderedConcat
<1>10. PICK sep : sep = pair.sep
  OBVIOUS
<1>11. /\ sep \in Keys /\ sep \in Int /\ lo[l] < sep /\ sep < top[l]
       /\ Ordered(first, lo[l], sep) /\ Ordered(second, sep, top[l])
  <2>1. IsSplit(E, first, second) /\ Len(first) > 0 /\ Len(second) > 0 /\ sep = second[1].key
    BY <1>5, <1>10
  <2> QED BY ONLY <2>1, <1>1, <1>4, <1>9, first \in Seq(Entries), second \in Seq(Entries), OrderedSplit
<1>12. l \in LeavesIn(tm) /\ r \in FreeIn(tm)
  BY <1>1, <1>4 DEF FreeIn
<1>13. PICK lo2, hi2, ht2 : CutGhosts(lo, top, ht, l, sep, r, lo2, hi2, ht2)
  BY DEF CutGhosts
<1>14. PICK tc : tc = CutLeafAt(tm, l, first, second, r)
  OBVIOUS
<1>15. /\ Core(tc, rt, r, lo2, hi2, Tops(hi2, l, r), ht2)
       /\ Pending(tc, lo2, hi2, ht2, l, sep, r) /\ Cut(tm, l, r, tc)
  BY ONLY <1>4, <1>11, <1>12, <1>13, <1>14, first \in Seq(Entries), second \in Seq(Entries), LeafCut
<1>16. Loose(tc, rt, lo2, hi2, Tops(hi2, l, r), ht2, l, sep, r)
  BY ONLY <1>15 DEF Loose
<1>17. t[l].next = r
  BY ONLY <1>0, <1>1, l \in LeavesIn(t), NextLeaf
<1>18. tc = Refitted(tm, l, r, pair)
  <2>1. tm[l].next = t[r].next
    BY ONLY <1>7 DEF Leaf
  <2>2. pair.l = Leaf(first, r) /\ pair.r = Leaf(second, tm[l].next)
    BY <2>1, <1>17
  <2> QED BY ONLY <2>2, <1>14 DEF CutLeafAt, Refitted
<1>19. /\ Core(t2, rt, NoPage, lo2, hi2, hi2, ht2) /\ Agree(lo, hi, ht, l, r, lo2, hi2, ht2)
       /\ LeavesIn(t2) = LeavesIn(tc) /\ InternalsIn(t2) = InternalsIn(tc)
       /\ t2[l] = pair.l /\ t2[r] = pair.r /\ OthersKept(t, t2, p, l, r)
  <2>1. /\ pair.sep \in Keys /\ CutGhosts(lo, Tops(hi, l, r), ht, l, pair.sep, r, lo2, hi2, ht2)
        /\ Loose(tc, rt, lo2, hi2, Tops(hi2, l, r), ht2, l, pair.sep, r)
        /\ tc = Refitted(Merged(t, p, s), l, r, pair)
    BY ONLY <1>3, <1>10, <1>11, <1>13, <1>16, <1>18
  <2> QED BY ONLY <2>1, <1>0, t2 = Redistributed(t, p, s, pair), PairRecut, SMTT(30)
<1>20. LeavesIn(tc) = LeavesIn(t) /\ InternalsIn(tc) = InternalsIn(t)
  <2>1. tm \in [Pages -> Nodes]
    BY ONLY <1>4 DEF Core
  <2>2. LeavesIn(tc) = LeavesIn(tm) \cup {r} /\ InternalsIn(tc) = InternalsIn(tm)
    BY ONLY <2>1, <1>12, <1>15, CutNodes
  <2>3. r \notin InternalsIn(t)
    BY <1>1, <1>2, PageKinds
  <2> QED BY ONLY <2>2, <2>3, <1>1, <1>4
<1>21. Restored(t2, rt, lo, hi, ht, l, r)
  BY ONLY <1>19 DEF Restored
<1>22. SamePlaces(t, t2, p, l, r)
  BY ONLY <1>19, <1>20 DEF SamePlaces
<1> QED BY ONLY <1>19, <1>21, <1>22

\* Two neighbouring internal nodes divide their children in another way.
LEMMA InternalsRedistributed ==
  ASSUME NEW t, NEW rt, NEW lo, NEW hi, NEW ht, Core(t, rt, NoPage, lo, hi, hi, ht),
         NEW p, NEW s, NEW l, NEW key, NEW r, Neighbours(t, p, s, l, key, r), l \in InternalsIn(t),
         NEW J, J = Joined(t[l], key, t[r]), NEW m \in 1..Len(J.keys),
         NEW pair, pair.l = Lower(J, m), pair.r = Upper(J, m), pair.sep = J.keys[m],
         NEW t2, t2 = Redistributed(t, p, s, pair)
  PROVE  /\ Restored(t2, rt, lo, hi, ht, l, r) /\ SamePlaces(t, t2, p, l, r)
         /\ t2[l] = pair.l /\ t2[r] = pair.r
<1>0. Core(t, rt, NoPage, lo, hi, hi, ht) /\ Neighbours(t, p, s, l, key, r)
  OBVIOUS
<1>1. /\ l \in Pages /\ r \in Pages /\ p \in Pages /\ l # r /\ l # p /\ r # p /\ r \in InternalsIn(t)
      /\ key \in Keys
  BY NeighbourFacts
<1>2. t \in [Pages -> Nodes]
  BY DEF Core
<1>3. PICK tm, top : tm = Merged(t, p, s) /\ top = Tops(hi, l, r)
  OBVIOUS
<1>4. /\ Core(tm, rt, NoPage, lo, top, top, ht)
      /\ LeavesIn(tm) = LeavesIn(t) \ {r} /\ InternalsIn(tm) = InternalsIn(t) \ {r}
      /\ tm[l] = Joined(t[l], key, t[r]) /\ tm[r] = Unused
  BY ONLY <1>0, <1>3, MergedCore
<1>5. tm[l] = J /\ J.keys \in Seq(Keys)
  <2>1. l \in InternalsIn(tm) /\ tm \in [Pages -> Nodes]
    BY <1>1, <1>4 DEF Core
  <2>2. tm[l] = J
    BY <1>4
  <2> QED BY <2>1, <2>2, InternalNode
<1>6. PICK sep : sep = pair.sep
  OBVIOUS
<1>7. sep = tm[l].keys[m] /\ m \in 1..Len(tm[l].keys) /\ sep \in Keys
  BY <1>5, <1>6
<1>8. l \in InternalsIn(tm) /\ r \in FreeIn(tm)
  BY <1>1, <1>4 DEF FreeIn
<1>9. PICK lo2, hi2, ht2 : CutGhosts(lo, top, ht, l, sep, r, lo2, hi2, ht2)
  BY DEF CutGhosts
<1>10. PICK tc : tc = CutInternalAt(tm, l, m, r)
  OBVIOUS
<1>11. /\ Core(tc, rt, r, lo2, hi2, Tops(hi2, l, r), ht2)
       /\ Pending(tc, lo2, hi2, ht2, l, sep, r) /\ Cut(tm, l, r, tc)
  BY ONLY <1>4, <1>7, <1>8, <1>9, <1>10, InternalCut
<1>12. Loose(tc, rt, lo2, hi2, Tops(hi2, l, r), ht2, l, sep, r)
  BY ONLY <1>11 DEF Loose
<1>13. tc = Refitted(tm, l, r, pair)
  BY <1>5, <1>10 DEF CutInternalAt, Refitted
<1>14. /\ Core(t2, rt, NoPage, lo2, hi2, hi2, ht2) /\ Agree(lo, hi, ht, l, r, lo2, hi2, ht2)
       /\ LeavesIn(t2) = LeavesIn(tc) /\ InternalsIn(t2) = InternalsIn(tc)
       /\ t2[l] = pair.l /\ t2[r] = pair.r /\ OthersKept(t, t2, p, l, r)
  <2>1. /\ pair.sep \in Keys /\ CutGhosts(lo, Tops(hi, l, r), ht, l, pair.sep, r, lo2, hi2, ht2)
        /\ Loose(tc, rt, lo2, hi2, Tops(hi2, l, r), ht2, l, pair.sep, r)
        /\ tc = Refitted(Merged(t, p, s), l, r, pair)
    BY ONLY <1>3, <1>6, <1>7, <1>9, <1>12, <1>13
  <2> QED BY ONLY <2>1, <1>0, t2 = Redistributed(t, p, s, pair), PairRecut
<1>15. LeavesIn(tc) = LeavesIn(t) /\ InternalsIn(tc) = InternalsIn(t)
  <2>1. tm \in [Pages -> Nodes]
    BY ONLY <1>4 DEF Core
  <2>2. InternalsIn(tc) = InternalsIn(tm) \cup {r} /\ LeavesIn(tc) = LeavesIn(tm)
    BY ONLY <2>1, <1>8, <1>11, CutNodes
  <2>3. r \notin LeavesIn(t)
    BY <1>1, <1>2, PageKinds
  <2> QED BY ONLY <2>2, <2>3, <1>1, <1>4
<1>16. Restored(t2, rt, lo, hi, ht, l, r)
  BY ONLY <1>14 DEF Restored
<1>17. SamePlaces(t, t2, p, l, r)
  BY ONLY <1>14, <1>15 DEF SamePlaces
<1> QED BY ONLY <1>14, <1>16, <1>17

\* The entries of leaves n and o, divided so that the first gets a of them and the second b.
LeafPair(n, o, pair, a, b) ==
    \E first, second \in Seq(Entries) :
       /\ Len(first) = a /\ Len(second) = b
       /\ IsSplit(n.entries \o o.entries, first, second)
       /\ pair.l = Leaf(first, n.next) /\ pair.r = Leaf(second, o.next)
       /\ pair.sep = second[1].key

\* The last entry of a leaf goes to its right neighbour.
LEMMA LeafFromLeft ==
  ASSUME NEW n, n.kind = "leaf", n.entries \in Seq(Entries), Len(n.entries) > 1, n = Leaf(n.entries, n.next),
         NEW o, o.kind = "leaf", o.entries \in Seq(Entries), o = Leaf(o.entries, o.next),
         NEW key, NEW pair, pair = FromLeft(n, key, o)
  PROVE  LeafPair(n, o, pair, Len(n.entries) - 1, Len(o.entries) + 1)
<1>1. PICK e, f, M, N : e = n.entries /\ f = o.entries /\ M = Len(e) /\ N = Len(f)
  OBVIOUS
<1>2. e \in Seq(Entries) /\ f \in Seq(Entries) /\ M \in Nat /\ M > 1 /\ N \in Nat /\ M = Len(e) /\ N = Len(f)
  BY <1>1
<1>3. PICK first, second : first = Front(e) /\ second = Cons(Last(e), f)
  OBVIOUS
<1>4. /\ first \in Seq(Entries) /\ Len(first) = M - 1 /\ \A j \in 1..(M - 1) : first[j] = e[j]
      /\ Last(e) \in Entries /\ Last(e) = e[M]
  BY ONLY <1>2, <1>3, FrontFacts
<1>5. /\ second \in Seq(Entries) /\ Len(second) = N + 1 /\ second[1] = Last(e)
      /\ \A j \in 1..(N + 1) : second[j] = IF j = 1 THEN Last(e) ELSE f[j - 1]
  <2>1. PICK x : x = Last(e)
    OBVIOUS
  <2>2. second = Cons(x, f) /\ x \in Entries
    BY <2>1, <1>3, <1>4
  <2>3. second \in Seq(Entries) /\ IsCons(second, f, x)
    BY ONLY <2>2, <1>2, ConsIs
  <2>4. 1 \in 1..(N + 1)
    BY ONLY <1>2
  <2> QED BY ONLY <2>1, <2>3, <2>4, <1>2 DEF IsCons
<1>6. /\ e \o f \in Seq(Entries) /\ Len(e \o f) = M + N
      /\ \A j \in 1..(M + N) : (e \o f)[j] = IF j <= M THEN e[j] ELSE f[j - M]
  BY ONLY <1>2, ConcatFacts
<1>7. IsSplit(e \o f, first, second)
  <2>1. (M - 1) + (N + 1) = M + N
    BY ONLY <1>2
  <2>2. ASSUME NEW j \in 1..(M + N)
        PROVE  (e \o f)[j] = IF j <= M - 1 THEN first[j] ELSE second[j - (M - 1)]
    <3>1. CASE j <= M - 1
      <4>1. j \in 1..(M - 1) /\ j <= M
        BY ONLY <3>1, <2>2, <1>2
      <4> QED BY ONLY <4>1, <3>1, <2>2, <1>4, <1>6
    <3>2. CASE j = M
      <4>1. j <= M /\ ~(j <= M - 1) /\ j - (M - 1) = 1
        BY ONLY <3>2, <1>2
      <4> QED BY ONLY <4>1, <3>2, <2>2, <1>4, <1>5, <1>6
    <3>3. CASE j > M
      <4>1. /\ ~(j <= M) /\ ~(j <= M - 1) /\ j - (M - 1) \in 1..(N + 1) /\ j - (M - 1) # 1
            /\ (j - (M - 1)) - 1 = j - M
        BY ONLY <3>3, <2>2, <1>2
      <4> QED BY ONLY <4>1, <2>2, <1>5, <1>6
    <3> QED
      <4>1. j <= M - 1 \/ j = M \/ j > M
        BY ONLY <2>2, <1>2
      <4> QED BY <4>1, <3>1, <3>2, <3>3
  <2> QED BY ONLY <2>1, <2>2, <1>4, <1>5, <1>6 DEF IsSplit
<1>8. pair.l = Leaf(first, n.next) /\ pair.r = Leaf(second, o.next) /\ pair.sep = second[1].key
  <2>1. /\ pair.l = [n EXCEPT !.entries = Front(@)] /\ pair.sep = Last(n.entries).key
        /\ pair.r = [o EXCEPT !.entries = Cons(Last(n.entries), @)]
    BY DEF FromLeft
  <2>2. [Leaf(e, n.next) EXCEPT !.entries = Front(@)] = Leaf(first, n.next)
    BY ONLY <1>3 DEF Leaf
  <2>3. [Leaf(f, o.next) EXCEPT !.entries = Cons(Last(e), @)] = Leaf(second, o.next)
    BY ONLY <1>3 DEF Leaf
  <2> QED BY <2>1, <2>2, <2>3, <1>1, <1>5
<1> QED BY <1>1, <1>4, <1>5, <1>7, <1>8 DEF LeafPair

\* The first entry of a leaf goes to its left neighbour.
LEMMA LeafFromRight ==
  ASSUME NEW n, n.kind = "leaf", n.entries \in Seq(Entries), n = Leaf(n.entries, n.next),
         NEW o, o.kind = "leaf", o.entries \in Seq(Entries), Len(o.entries) > 1, o = Leaf(o.entries, o.next),
         NEW key, NEW pair, pair = FromRight(n, key, o)
  PROVE  LeafPair(n, o, pair, Len(n.entries) + 1, Len(o.entries) - 1)
<1>1. PICK e, f, M, N : e = n.entries /\ f = o.entries /\ M = Len(e) /\ N = Len(f)
  OBVIOUS
<1>2. e \in Seq(Entries) /\ f \in Seq(Entries) /\ M \in Nat /\ N > 1 /\ N \in Nat /\ M = Len(e) /\ N = Len(f)
  BY <1>1
<1>3. PICK first, second : first = Append(e, Head(f)) /\ second = Tail(f)
  OBVIOUS
<1>4. /\ second \in Seq(Entries) /\ Len(second) = N - 1 /\ \A j \in 1..(N - 1) : second[j] = f[j + 1]
      /\ Head(f) \in Entries /\ Head(f) = f[1]
  BY ONLY <1>2, <1>3, TailFacts
<1>5. /\ first \in Seq(Entries) /\ Len(first) = M + 1
      /\ \A j \in 1..(M + 1) : first[j] = IF j <= M THEN e[j] ELSE Head(f)
  BY ONLY <1>2, <1>3, <1>4, AppendFacts
<1>6. /\ e \o f \in Seq(Entries) /\ Len(e \o f) = M + N
      /\ \A j \in 1..(M + N) : (e \o f)[j] = IF j <= M THEN e[j] ELSE f[j - M]
  BY ONLY <1>2, ConcatFacts
<1>7. IsSplit(e \o f, first, second)
  <2>1. (M + 1) + (N - 1) = M + N
    BY ONLY <1>2
  <2>2. ASSUME NEW j \in 1..(M + N)
        PROVE  (e \o f)[j] = IF j <= M + 1 THEN first[j] ELSE second[j - (M + 1)]
    <3>1. CASE j <= M
      <4>1. j \in 1..(M + 1) /\ j <= M + 1
        BY ONLY <3>1, <2>2, <1>2
      <4> QED BY ONLY <4>1, <3>1, <2>2, <1>5, <1>6
    <3>2. CASE j = M + 1
      <4>1. ~(j <= M) /\ j <= M + 1 /\ j \in 1..(M + 1) /\ j - M = 1
        BY ONLY <3>2, <1>2
      <4> QED BY ONLY <4>1, <2>2, <1>4, <1>5, <1>6
    <3>3. CASE j > M + 1
      <4>1. /\ ~(j <= M) /\ ~(j <= M + 1) /\ j - (M + 1) \in 1..(N - 1)
            /\ (j - (M + 1)) + 1 = j - M
        BY ONLY <3>3, <2>2, <1>2
      <4> QED BY ONLY <4>1, <2>2, <1>4, <1>6
    <3> QED
      <4>1. j <= M \/ j = M + 1 \/ j > M + 1
        BY ONLY <2>2, <1>2
      <4> QED BY <4>1, <3>1, <3>2, <3>3
  <2> QED BY ONLY <2>1, <2>2, <1>4, <1>5, <1>6 DEF IsSplit
<1>8. pair.l = Leaf(first, n.next) /\ pair.r = Leaf(second, o.next) /\ pair.sep = second[1].key
  <2>1. /\ pair.l = [n EXCEPT !.entries = Append(@, Head(o.entries))] /\ pair.sep = o.entries[2].key
        /\ pair.r = [o EXCEPT !.entries = Tail(@)]
    BY DEF FromRight
  <2>2. [Leaf(e, n.next) EXCEPT !.entries = Append(@, Head(f))] = Leaf(first, n.next)
    BY ONLY <1>3, SMTT(30) DEF Leaf
  <2>3. [Leaf(f, o.next) EXCEPT !.entries = Tail(@)] = Leaf(second, o.next)
    <3>1. \A q : [Leaf(f, o.next) EXCEPT !.entries = q] = Leaf(q, o.next)
      BY ONLY DEF Leaf
    <3>2. Leaf(f, o.next).entries = f
      BY ONLY DEF Leaf
    <3>3. [Leaf(f, o.next) EXCEPT !.entries = Tail(@)] = Leaf(Tail(f), o.next)
      BY ONLY <3>1, <3>2
    <3> QED BY ONLY <3>3, <1>3
  <2>4. 1 \in 1..(N - 1) /\ 1 + 1 = 2
    BY ONLY <1>2
  <2>5. second[1] = f[2]
    BY ONLY <2>4, <1>4
  <2> QED BY <2>1, <2>2, <2>3, <2>5, <1>1
<1> QED BY <1>1, <1>4, <1>5, <1>7, <1>8 DEF LeafPair

\* What makes u a part of s.
LEMMA SubSeqIs ==
  ASSUME NEW S, NEW s \in Seq(S), NEW L, L = Len(s), NEW m \in 1..(L + 1), NEW n \in (m - 1)..L,
         NEW u \in Seq(S), Len(u) = n - m + 1, \A j \in 1..(n - m + 1) : u[j] = s[m + j - 1]
  PROVE  SubSeq(s, m, n) = u
<1>1. PICK v : v = SubSeq(s, m, n)
  OBVIOUS
<1>2. v \in Seq(S) /\ Len(v) = n - m + 1 /\ \A j \in 1..(n - m + 1) : v[j] = s[m + j - 1]
  BY <1>1, SubSeqFacts
<1>3. v = u
  BY <1>2, SameSeq
<1> QED BY <1>1, <1>3

\* The keys and the children of two internal nodes that were joined.
LEMMA JoinedParts ==
  ASSUME NEW n, NEW M \in Nat, n.keys \in Seq(Keys), Len(n.keys) = M,
         n.kids \in Seq(Pages), Len(n.kids) = M + 1, n.kind = "internal",
         NEW o, NEW N \in Nat, o.keys \in Seq(Keys), Len(o.keys) = N,
         o.kids \in Seq(Pages), Len(o.kids) = N + 1, NEW key \in Keys,
         NEW J, J = Joined(n, key, o)
  PROVE  JoinOf(J, n, M, key, o, N) /\ J.keys \in Seq(Keys) /\ J.kids \in Seq(Pages)
<1>1. JoinOf(J, n, M, key, o, N)
  BY JoinedNodes
<1>2. J \in Nodes /\ J.kind = "internal"
  BY <1>1 DEF JoinOf
<1>3. J.keys \in Seq(Keys) /\ J.kids \in Seq(Pages)
  BY <1>2 DEF Nodes, Unused
<1> QED BY <1>1, <1>3

\* The children of J, divided so that the first gets m of them.
InternalPair(J, m, pair, a, b) ==
    /\ m \in 1..Len(J.keys)
    /\ pair.l = Lower(J, m) /\ pair.r = Upper(J, m) /\ pair.sep = J.keys[m]
    /\ Len(pair.l.kids) = a /\ Len(pair.r.kids) = b

\* The last child of an internal node goes to its right neighbour.
LEMMA InternalFromLeft ==
  ASSUME NEW n, NEW M \in Nat, n.keys \in Seq(Keys), Len(n.keys) = M, M > 0,
         n.kids \in Seq(Pages), Len(n.kids) = M + 1, n.kind = "internal",
         NEW o, NEW N \in Nat, o.keys \in Seq(Keys), Len(o.keys) = N,
         o.kids \in Seq(Pages), Len(o.kids) = N + 1, NEW key \in Keys,
         NEW J, J = Joined(n, key, o), NEW pair, pair = FromLeft(n, key, o)
  PROVE  InternalPair(J, M, pair, M, N + 2)
<1>0. JoinOf(J, n, M, key, o, N)
  BY JoinedParts
<1>1. /\ n.keys \in Seq(Keys) /\ Len(n.keys) = M /\ n.kids \in Seq(Pages) /\ Len(n.kids) = M + 1
      /\ o.keys \in Seq(Keys) /\ Len(o.keys) = N /\ o.kids \in Seq(Pages) /\ Len(o.kids) = N + 1
      /\ M \in Nat /\ M > 0 /\ N \in Nat /\ key \in Keys
  OBVIOUS
<1>2. /\ J.keys \in Seq(Keys) /\ Len(J.keys) = M + 1 + N
      /\ J.kids \in Seq(Pages) /\ Len(J.kids) = M + N + 2
  <2>1. J.keys \in Seq(Keys) /\ J.kids \in Seq(Pages)
    BY JoinedParts
  <2> QED BY ONLY <2>1, <1>0 DEF JoinOf
<1>3. \A j \in 1..(M + 1 + N) :
         J.keys[j] = IF j <= M THEN n.keys[j] ELSE IF j = M + 1 THEN key ELSE o.keys[j - (M + 1)]
  BY ONLY <1>0 DEF JoinOf
<1>4. \A j \in 1..(M + N + 2) : J.kids[j] = IF j <= M + 1 THEN n.kids[j] ELSE o.kids[j - (M + 1)]
  BY ONLY <1>0 DEF JoinOf
<1>5. PICK a, b, c, d, x : /\ a = Front(n.keys) /\ b = Front(n.kids) /\ x = Last(n.kids)
                           /\ c = Cons(key, o.keys) /\ d = Cons(x, o.kids)
  OBVIOUS
<1>6. /\ a \in Seq(Keys) /\ Len(a) = M - 1 /\ \A j \in 1..(M - 1) : a[j] = n.keys[j]
      /\ Last(n.keys) = n.keys[M]
  BY ONLY <1>1, <1>5, FrontFacts
<1>7. /\ b \in Seq(Pages) /\ Len(b) = M /\ \A j \in 1..M : b[j] = n.kids[j]
      /\ x \in Pages /\ x = n.kids[M + 1]
  <2>1. Len(n.kids) > 0 /\ (M + 1) - 1 = M
    BY ONLY <1>1
  <2>2. /\ b \in Seq(Pages) /\ Len(b) = (M + 1) - 1 /\ \A j \in 1..((M + 1) - 1) : b[j] = n.kids[j]
        /\ x \in Pages /\ x = n.kids[M + 1]
    BY ONLY <2>1, <1>1, <1>5, FrontFacts
  <2> QED BY ONLY <2>1, <2>2
<1>8. c \in Seq(Keys) /\ Len(c) = N + 1 /\ \A j \in 1..(N + 1) : c[j] = IF j = 1 THEN key ELSE o.keys[j - 1]
  <2>1. c \in Seq(Keys) /\ IsCons(c, o.keys, key)
    BY ONLY <1>1, <1>5, ConsIs
  <2> QED BY ONLY <2>1, <1>1 DEF IsCons
<1>9. d \in Seq(Pages) /\ Len(d) = N + 2 /\ \A j \in 1..(N + 2) : d[j] = IF j = 1 THEN x ELSE o.kids[j - 1]
  <2>1. d = Cons(x, o.kids)
    BY <1>5
  <2>2. d \in Seq(Pages) /\ IsCons(d, o.kids, x)
    BY ONLY <2>1, <1>1, <1>7, ConsIs
  <2>3. (N + 1) + 1 = N + 2 /\ Len(o.kids) + 1 = N + 2
    BY ONLY <1>1
  <2> QED BY ONLY <2>2, <2>3 DEF IsCons
<1>10. SubSeq(J.keys, 1, M - 1) = a
  <2>1. /\ 1 \in 1..((M + 1 + N) + 1) /\ M - 1 \in (1 - 1)..(M + 1 + N) /\ Len(a) = (M - 1) - 1 + 1
    BY ONLY <1>1, <1>6
  <2>2. ASSUME NEW j \in 1..((M - 1) - 1 + 1) PROVE a[j] = J.keys[1 + j - 1]
    <3>1. j \in 1..(M - 1) /\ j \in 1..(M + 1 + N) /\ j <= M /\ 1 + j - 1 = j
      BY ONLY <2>2, <1>1
    <3> QED BY ONLY <3>1, <1>3, <1>6
  <2> QED BY ONLY <2>1, <2>2, <1>2, <1>6, SubSeqIs
<1>11. SubSeq(J.kids, 1, M) = b
  <2>1. /\ 1 \in 1..((M + N + 2) + 1) /\ M \in (1 - 1)..(M + N + 2) /\ Len(b) = M - 1 + 1
    BY ONLY <1>1, <1>7
  <2>2. ASSUME NEW j \in 1..(M - 1 + 1) PROVE b[j] = J.kids[1 + j - 1]
    <3>1. j \in 1..M /\ j \in 1..(M + N + 2) /\ j <= M + 1 /\ 1 + j - 1 = j
      BY ONLY <2>2, <1>1
    <3> QED BY ONLY <3>1, <1>4, <1>7
  <2> QED BY ONLY <2>1, <2>2, <1>2, <1>7, SubSeqIs
<1>12. SubSeq(J.keys, M + 1, M + 1 + N) = c
  <2>1. /\ M + 1 \in 1..((M + 1 + N) + 1) /\ M + 1 + N \in ((M + 1) - 1)..(M + 1 + N)
        /\ Len(c) = (M + 1 + N) - (M + 1) + 1
    BY ONLY <1>1, <1>8
  <2>2. ASSUME NEW j \in 1..((M + 1 + N) - (M + 1) + 1) PROVE c[j] = J.keys[(M + 1) + j - 1]
    <3>1. /\ j \in 1..(N + 1) /\ (M + 1) + j - 1 \in 1..(M + 1 + N) /\ ~((M + 1) + j - 1 <= M)
          /\ (j = 1 <=> (M + 1) + j - 1 = M + 1) /\ ((M + 1) + j - 1) - (M + 1) = j - 1
      BY ONLY <2>2, <1>1
    <3> QED BY ONLY <3>1, <1>3, <1>8
  <2> QED BY ONLY <2>1, <2>2, <1>2, <1>8, SubSeqIs
<1>13. SubSeq(J.kids, M + 1, M + N + 2) = d
  <2>1. /\ M + 1 \in 1..((M + N + 2) + 1) /\ M + N + 2 \in ((M + 1) - 1)..(M + N + 2)
        /\ Len(d) = (M + N + 2) - (M + 1) + 1
    BY ONLY <1>1, <1>9
  <2>2. ASSUME NEW j \in 1..((M + N + 2) - (M + 1) + 1) PROVE d[j] = J.kids[(M + 1) + j - 1]
    <3>1. /\ j \in 1..(N + 2) /\ (M + 1) + j - 1 \in 1..(M + N + 2)
          /\ (j = 1 => (M + 1) + j - 1 = M + 1 /\ (M + 1) + j - 1 <= M + 1)
          /\ (j # 1 => ~((M + 1) + j - 1 <= M + 1)) /\ ((M + 1) + j - 1) - (M + 1) = j - 1
      BY ONLY <2>2, <1>1
    <3>2. PICK k : k = (M + 1) + j - 1
      OBVIOUS
    <3>3. /\ k \in 1..(M + N + 2) /\ (j = 1 => k = M + 1 /\ k <= M + 1)
          /\ (j # 1 => ~(k <= M + 1)) /\ k - (M + 1) = j - 1
      BY ONLY <3>1, <3>2
    <3>4. J.kids[k] = IF k <= M + 1 THEN n.kids[k] ELSE o.kids[k - (M + 1)]
      BY ONLY <3>3, <1>4
    <3>5. d[j] = IF j = 1 THEN n.kids[M + 1] ELSE o.kids[j - 1]
      BY ONLY <3>1, <1>7, <1>9
    <3>6. d[j] = J.kids[k]
      BY ONLY <3>3, <3>4, <3>5
    <3> QED BY ONLY <3>2, <3>6
  <2> QED BY ONLY <2>1, <2>2, <1>2, <1>9, SubSeqIs
<1>14. M \in 1..(M + 1 + N) /\ M <= M
  BY ONLY <1>1
<1>15. J.keys[M] = n.keys[M]
  BY ONLY <1>3, <1>14
<1>16. Lower(J, M) = Internal(a, b)
  BY ONLY <1>10, <1>11 DEF Lower
<1>17. Upper(J, M) = Internal(c, d)
  BY ONLY <1>2, <1>12, <1>13 DEF Upper
<1>18. pair.l = Internal(a, b) /\ pair.r = Internal(c, d) /\ pair.sep = J.keys[M]
  BY <1>5, <1>6, <1>15 DEF FromLeft
<1>19. Internal(a, b).kids = b /\ Internal(c, d).kids = d
  BY ONLY DEF Internal
<1> QED BY ONLY <1>2, <1>7, <1>9, <1>14, <1>16, <1>17, <1>18, <1>19 DEF InternalPair

\* The first child of an internal node goes to its left neighbour.
LEMMA InternalFromRight ==
  ASSUME NEW n, NEW M \in Nat, n.keys \in Seq(Keys), Len(n.keys) = M,
         n.kids \in Seq(Pages), Len(n.kids) = M + 1, n.kind = "internal",
         NEW o, NEW N \in Nat, o.keys \in Seq(Keys), Len(o.keys) = N, N > 0,
         o.kids \in Seq(Pages), Len(o.kids) = N + 1, NEW key \in Keys,
         NEW J, J = Joined(n, key, o), NEW pair, pair = FromRight(n, key, o)
  PROVE  InternalPair(J, M + 2, pair, M + 2, N)
<1>0. JoinOf(J, n, M, key, o, N)
  BY JoinedParts
<1>1. /\ n.keys \in Seq(Keys) /\ Len(n.keys) = M /\ n.kids \in Seq(Pages) /\ Len(n.kids) = M + 1
      /\ o.keys \in Seq(Keys) /\ Len(o.keys) = N /\ o.kids \in Seq(Pages) /\ Len(o.kids) = N + 1
      /\ M \in Nat /\ N > 0 /\ N \in Nat /\ key \in Keys
  OBVIOUS
<1>2. /\ J.keys \in Seq(Keys) /\ Len(J.keys) = M + 1 + N
      /\ J.kids \in Seq(Pages) /\ Len(J.kids) = M + N + 2
  <2>1. J.keys \in Seq(Keys) /\ J.kids \in Seq(Pages)
    BY JoinedParts
  <2> QED BY ONLY <2>1, <1>0 DEF JoinOf
<1>3. \A j \in 1..(M + 1 + N) :
         J.keys[j] = IF j <= M THEN n.keys[j] ELSE IF j = M + 1 THEN key ELSE o.keys[j - (M + 1)]
  BY ONLY <1>0 DEF JoinOf
<1>4. \A j \in 1..(M + N + 2) : J.kids[j] = IF j <= M + 1 THEN n.kids[j] ELSE o.kids[j - (M + 1)]
  BY ONLY <1>0 DEF JoinOf
<1>5. PICK a, b, c, d, x : /\ a = Append(n.keys, key) /\ b = Append(n.kids, x) /\ x = Head(o.kids)
                           /\ c = Tail(o.keys) /\ d = Tail(o.kids)
  OBVIOUS
<1>6. /\ c \in Seq(Keys) /\ Len(c) = N - 1 /\ \A j \in 1..(N - 1) : c[j] = o.keys[j + 1]
      /\ Head(o.keys) = o.keys[1]
  BY ONLY <1>1, <1>5, TailFacts
<1>7. /\ d \in Seq(Pages) /\ Len(d) = N /\ \A j \in 1..N : d[j] = o.kids[j + 1]
      /\ x \in Pages /\ x = o.kids[1]
  <2>1. Len(o.kids) > 0 /\ (N + 1) - 1 = N
    BY ONLY <1>1
  <2>2. /\ d \in Seq(Pages) /\ Len(d) = (N + 1) - 1 /\ \A j \in 1..((N + 1) - 1) : d[j] = o.kids[j + 1]
        /\ x \in Pages /\ x = o.kids[1]
    BY ONLY <2>1, <1>1, <1>5, TailFacts
  <2> QED BY ONLY <2>1, <2>2
<1>8. a \in Seq(Keys) /\ Len(a) = M + 1 /\ \A j \in 1..(M + 1) : a[j] = IF j <= M THEN n.keys[j] ELSE key
  BY ONLY <1>1, <1>5
<1>9. b \in Seq(Pages) /\ Len(b) = M + 2 /\ \A j \in 1..(M + 2) : b[j] = IF j <= M + 1 THEN n.kids[j] ELSE x
  <2>1. b = Append(n.kids, x)
    BY <1>5
  <2> QED BY ONLY <2>1, <1>1, <1>7
<1>10. SubSeq(J.keys, 1, (M + 2) - 1) = a
  <2>1. /\ 1 \in 1..((M + 1 + N) + 1) /\ (M + 2) - 1 \in (1 - 1)..(M + 1 + N)
        /\ Len(a) = ((M + 2) - 1) - 1 + 1
    BY ONLY <1>1, <1>8
  <2>2. ASSUME NEW j \in 1..(((M + 2) - 1) - 1 + 1) PROVE a[j] = J.keys[1 + j - 1]
    <3>1. /\ j \in 1..(M + 1) /\ j \in 1..(M + 1 + N) /\ (j <= M \/ (~(j <= M) /\ j = M + 1)) /\ 1 + j - 1 = j
      BY ONLY <2>2, <1>1
    <3> QED BY ONLY <3>1, <1>3, <1>8
  <2> QED BY ONLY <2>1, <2>2, <1>2, <1>8, SubSeqIs
<1>11. SubSeq(J.kids, 1, M + 2) = b
  <2>1. /\ 1 \in 1..((M + N + 2) + 1) /\ M + 2 \in (1 - 1)..(M + N + 2) /\ Len(b) = (M + 2) - 1 + 1
    BY ONLY <1>1, <1>9
  <2>2. ASSUME NEW j \in 1..((M + 2) - 1 + 1) PROVE b[j] = J.kids[1 + j - 1]
    <3>1. /\ j \in 1..(M + 2) /\ j \in 1..(M + N + 2) /\ 1 + j - 1 = j
          /\ (j <= M + 1 \/ (~(j <= M + 1) /\ j - (M + 1) = 1))
      BY ONLY <2>2, <1>1
    <3>2. J.kids[j] = IF j <= M + 1 THEN n.kids[j] ELSE o.kids[j - (M + 1)]
      BY ONLY <3>1, <1>4
    <3>3. b[j] = IF j <= M + 1 THEN n.kids[j] ELSE o.kids[1]
      BY ONLY <3>1, <1>7, <1>9
    <3>4. b[j] = J.kids[j]
      BY ONLY <3>1, <3>2, <3>3
    <3> QED BY ONLY <3>1, <3>4
  <2> QED BY ONLY <2>1, <2>2, <1>2, <1>9, SubSeqIs
<1>12. SubSeq(J.keys, (M + 2) + 1, M + 1 + N) = c
  <2>1. /\ (M + 2) + 1 \in 1..((M + 1 + N) + 1) /\ M + 1 + N \in (((M + 2) + 1) - 1)..(M + 1 + N)
        /\ Len(c) = (M + 1 + N) - ((M + 2) + 1) + 1
    BY ONLY <1>1, <1>6
  <2>2. ASSUME NEW j \in 1..((M + 1 + N) - ((M + 2) + 1) + 1) PROVE c[j] = J.keys[((M + 2) + 1) + j - 1]
    <3>1. PICK i : i = ((M + 2) + 1) + j - 1
      OBVIOUS
    <3>2. /\ j \in 1..(N - 1) /\ i \in 1..(M + 1 + N) /\ ~(i <= M) /\ i # M + 1 /\ i - (M + 1) = j + 1
      BY ONLY <2>2, <1>1, <3>1
    <3> QED BY ONLY <3>1, <3>2, <1>3, <1>6
  <2> QED BY ONLY <2>1, <2>2, <1>2, <1>6, SubSeqIs
<1>13. SubSeq(J.kids, (M + 2) + 1, M + N + 2) = d
  <2>1. /\ (M + 2) + 1 \in 1..((M + N + 2) + 1) /\ M + N + 2 \in (((M + 2) + 1) - 1)..(M + N + 2)
        /\ Len(d) = (M + N + 2) - ((M + 2) + 1) + 1
    BY ONLY <1>1, <1>7
  <2>2. ASSUME NEW j \in 1..((M + N + 2) - ((M + 2) + 1) + 1) PROVE d[j] = J.kids[((M + 2) + 1) + j - 1]
    <3>1. PICK i : i = ((M + 2) + 1) + j - 1
      OBVIOUS
    <3>2. j \in 1..N /\ i \in 1..(M + N + 2) /\ ~(i <= M + 1) /\ i - (M + 1) = j + 1
      BY ONLY <2>2, <1>1, <3>1
    <3> QED BY ONLY <3>1, <3>2, <1>4, <1>7
  <2> QED BY ONLY <2>1, <2>2, <1>2, <1>7, SubSeqIs
<1>14. M + 2 \in 1..(M + 1 + N) /\ ~(M + 2 <= M) /\ M + 2 # M + 1 /\ (M + 2) - (M + 1) = 1
  BY ONLY <1>1
<1>15. J.keys[M + 2] = o.keys[1]
  BY ONLY <1>3, <1>14
<1>16. Lower(J, M + 2) = Internal(a, b)
  BY ONLY <1>10, <1>11 DEF Lower
<1>17. Upper(J, M + 2) = Internal(c, d)
  BY ONLY <1>2, <1>12, <1>13 DEF Upper
<1>18. pair.l = Internal(a, b) /\ pair.r = Internal(c, d) /\ pair.sep = J.keys[M + 2]
  BY <1>5, <1>6, <1>15 DEF FromRight
<1>19. Internal(a, b).kids = b /\ Internal(c, d).kids = d
  BY ONLY DEF Internal
<1> QED BY ONLY <1>2, <1>7, <1>9, <1>14, <1>16, <1>17, <1>18, <1>19 DEF InternalPair

-----------------------------------------------------------------------------
(* Refilling a node.                                                       *)

\* The least sizes of the nodes.
LEMMA LeastFacts ==
  /\ Least(LeafMax) \in Nat /\ Least(LeafMax) >= 1
  /\ Least(InternalMax) \in Nat /\ Least(InternalMax) >= 2
BY TreeAssumption DEF Least

\* Where the separator of a node to refill is: the neighbour exists.
LEMMA BetweenFacts ==
  ASSUME NEW t \in [Pages -> Nodes], NEW p \in InternalsIn(t), Len(t[p].kids) >= 2,
         NEW c \in 1..Len(t[p].kids), NEW s, s = Between(t, p, c)
  PROVE  /\ s \in 1..Len(t[p].keys) /\ (s = c \/ s + 1 = c)
         /\ Lends(t, p, c - 1) => s + 1 = c
         /\ ~Lends(t, p, c - 1) /\ Lends(t, p, c + 1) => s = c
<1>1. PICK N : N = Len(t[p].keys)
  OBVIOUS
<1>2. Len(t[p].kids) = N + 1 /\ N \in Nat /\ N >= 1 /\ c \in 1..(N + 1) /\ DOMAIN t[p].kids = 1..(N + 1)
  <2>1. /\ t[p].keys \in Seq(Keys) /\ t[p].kids \in Seq(Pages)
        /\ Len(t[p].kids) = Len(t[p].keys) + 1
    BY InternalNode
  <2>2. N \in Nat /\ Len(t[p].kids) = N + 1 /\ DOMAIN t[p].kids = 1..Len(t[p].kids)
    BY <1>1, <2>1
  <2> QED BY <2>2
<1>3. /\ Lends(t, p, c - 1) => c - 1 \in 1..(N + 1)
      /\ Lends(t, p, c + 1) => c + 1 \in 1..(N + 1)
  BY ONLY <1>2 DEF Lends
<1>4. s = IF Lends(t, p, c - 1) \/ (~Lends(t, p, c + 1) /\ c > 1) THEN c - 1 ELSE c
  BY DEF Between, FromTheLeft
<1>5. CASE Lends(t, p, c - 1)
  BY ONLY <1>1, <1>2, <1>3, <1>4, <1>5
<1>6. CASE ~Lends(t, p, c - 1) /\ Lends(t, p, c + 1)
  BY ONLY <1>1, <1>2, <1>3, <1>4, <1>6
<1>7. CASE ~Lends(t, p, c - 1) /\ ~Lends(t, p, c + 1)
  BY ONLY <1>1, <1>2, <1>4, <1>7
<1> QED BY <1>5, <1>6, <1>7

\* All nodes are filled but for w, which is not the root: an internal node w may
\* lack one child, a leaf w may even be empty.
FilledBut(t, rt, w) ==
    /\ w # rt
    /\ \A x \in LeavesIn(t) : x # w => Len(t[x].entries) > 0
    /\ \A x \in InternalsIn(t) :
          Len(t[x].kids) >= IF x = rt THEN 2
                            ELSE IF x = w THEN Least(InternalMax) - 1 ELSE Least(InternalMax)

\* Enough for any node but the root.
Enough(n) ==
    /\ n.kind = "leaf" => Len(n.entries) > 0
    /\ n.kind = "internal" => Len(n.kids) >= Least(InternalMax)

\* After a redistribution every node is filled.
LEMMA RedistributedFilled ==
  ASSUME NEW t \in [Pages -> Nodes], NEW rt, NEW w, FilledBut(t, rt, w),
         NEW t2, NEW p \in InternalsIn(t), NEW l, NEW r, w \in {l, r}, p # l, p # r,
         l # rt, r # rt, SamePlaces(t, t2, p, l, r), Enough(t2[l]), Enough(t2[r])
  PROVE  Filled(t2, rt, p)
<1>1. /\ LeavesIn(t2) = LeavesIn(t) /\ InternalsIn(t2) = InternalsIn(t)
      /\ Len(t2[p].kids) = Len(t[p].kids)
      /\ \A x \in Pages : x # l /\ x # r /\ x # p => t2[x] = t[x]
  BY DEF SamePlaces, OthersKept
<1>2. ASSUME NEW x \in LeavesIn(t2) PROVE Len(t2[x].entries) > 0
  <2>1. x \in Pages /\ t2[x].kind = "leaf" /\ x # p
    BY <1>1 DEF LeavesIn, InternalsIn
  <2>2. CASE x = l \/ x = r
    BY <2>1, <2>2 DEF Enough
  <2>3. CASE x # l /\ x # r
    BY <2>1, <2>3, <1>1 DEF FilledBut
  <2> QED BY <2>2, <2>3
<1>3. ASSUME NEW x \in InternalsIn(t2)
      PROVE  Len(t2[x].kids) >= IF x = rt THEN (IF x = p THEN 1 ELSE 2)
                                ELSE IF x = p THEN Least(InternalMax) - 1 ELSE Least(InternalMax)
  <2>1. x \in Pages /\ t2[x].kind = "internal" /\ x \in InternalsIn(t)
    BY <1>1 DEF InternalsIn
  <2>2. CASE x = l \/ x = r
    BY <2>1, <2>2 DEF Enough
  <2>3. CASE x # l /\ x # r
    <3>1. Len(t2[x].kids) = Len(t[x].kids) /\ x # w
      BY <2>1, <2>3, <1>1
    <3>2. Len(t[x].kids) >= IF x = rt THEN 2 ELSE Least(InternalMax)
      BY <3>1, <2>1 DEF FilledBut
    <3>3. Len(t[x].kids) \in Nat
      BY <2>1, InternalNode
    <3> QED BY ONLY <3>1, <3>2, <3>3, LeastFacts
  <2> QED BY <2>2, <2>3
<1> QED BY ONLY <1>2, <1>3 DEF Filled

\* A child is never the root.
LEMMA ChildNotRoot ==
  ASSUME NEW t, NEW rt, NEW lo, NEW hi, NEW ht, Core(t, rt, NoPage, lo, hi, hi, ht),
         NEW p, NEW s, NEW l, NEW key, NEW r, Neighbours(t, p, s, l, key, r)
  PROVE  l # rt /\ r # rt
<1>1. p \in NodesIn(t) /\ ht[p] = ht[l] + 1 /\ ht[r] = ht[l] /\ ht[l] \in Nat
  BY NeighbourFacts
<1>2. ht[p] <= ht[rt]
  BY <1>1 DEF Core, Rooted
<1> QED BY <1>1, <1>2

-----------------------------------------------------------------------------
(* What is stored in the tree                                              *)

\* The entries in some of the leaves of t, and in all of them.
Within(t, P) == UNION {ToSet(t[p].entries) : p \in P}

Stored(t) == Within(t, LeavesIn(t))

\* S2 is S and the entry e; S2 is S without the entries for k.
Gains(S, S2, e) == \A x : x \in S2 <=> x \in S \/ x = e

Loses(S, S2, k) == \A x : x \in S2 <=> x \in S /\ x.key # k

\* The elements of a sequence.
LEMMA ElementsOf ==
  ASSUME NEW S, NEW s \in Seq(S), NEW x
  PROVE  x \in ToSet(s) <=> \E i \in 1..Len(s) : s[i] = x
BY DEF ToSet

\* The elements of a sequence are those of the two parts it is divided into.
LEMMA SplitElements ==
  ASSUME NEW S, NEW E \in Seq(S), NEW first \in Seq(S), NEW second \in Seq(S), IsSplit(E, first, second)
  PROVE  ToSet(E) = ToSet(first) \cup ToSet(second)
<1>1. PICK a \in Nat, b \in Nat : a = Len(first) /\ b = Len(second)
  OBVIOUS
<1>2. /\ Len(E) = a + b
      /\ \A j \in 1..(a + b) : E[j] = IF j <= a THEN first[j] ELSE second[j - a]
  BY <1>1 DEF IsSplit
<1>3. ASSUME NEW x \in ToSet(E) PROVE x \in ToSet(first) \cup ToSet(second)
  <2>1. PICK j \in 1..(a + b) : E[j] = x
    BY <1>2, ElementsOf
  <2>2. CASE j <= a
    <3>1. j \in 1..a /\ first[j] = x
      BY ONLY <2>1, <2>2, <1>2, a \in Nat, b \in Nat
    <3> QED BY <3>1, <1>1, ElementsOf
  <2>3. CASE ~(j <= a)
    <3>1. j - a \in 1..b /\ second[j - a] = x
      BY ONLY <2>1, <2>3, <1>2, a \in Nat, b \in Nat
    <3> QED BY <3>1, <1>1, ElementsOf
  <2> QED BY <2>2, <2>3
<1>4. ASSUME NEW x \in ToSet(first) PROVE x \in ToSet(E)
  <2>1. PICK j \in 1..a : first[j] = x
    BY <1>1, <1>4, ElementsOf
  <2>2. j \in 1..(a + b) /\ E[j] = x
    BY ONLY <2>1, <1>2, a \in Nat, b \in Nat
  <2> QED BY <2>2, <1>2, ElementsOf
<1>5. ASSUME NEW x \in ToSet(second) PROVE x \in ToSet(E)
  <2>1. PICK j \in 1..b : second[j] = x
    BY <1>1, <1>5, ElementsOf
  <2>2. PICK i : i = j + a
    OBVIOUS
  <2>3. i \in 1..(a + b) /\ ~(i <= a) /\ i - a = j
    BY ONLY <2>2, j \in 1..b, a \in Nat, b \in Nat
  <2>4. E[i] = x
    BY ONLY <2>1, <2>3, <1>2
  <2> QED BY <2>3, <2>4, <1>2, ElementsOf
<1> QED BY <1>3, <1>4, <1>5

\* The elements of two sequences put together.
LEMMA ConcatElements ==
  ASSUME NEW S, NEW e \in Seq(S), NEW f \in Seq(S)
  PROVE  ToSet(e \o f) = ToSet(e) \cup ToSet(f)
<1>1. PICK E : E = e \o f
  OBVIOUS
<1>2. E \in Seq(S) /\ IsSplit(E, e, f)
  BY <1>1, ConcatFacts DEF IsSplit
<1>3. ToSet(E) = ToSet(e) \cup ToSet(f)
  BY ONLY <1>2, e \in Seq(S), f \in Seq(S), SplitElements
<1> QED BY ONLY <1>1, <1>3

\* t2 has the leaves D2 in place of the leaves D of t; the others keep their entries.
InPlaceOf(t, D, t2, D2) ==
    /\ D \subseteq LeavesIn(t) /\ D2 \subseteq LeavesIn(t2) /\ LeavesIn(t2) \ D2 = LeavesIn(t) \ D
    /\ \A p \in LeavesIn(t) \ D : t2[p].entries = t[p].entries

\* What the leaves besides D store.
Rest(t, D) == Within(t, LeavesIn(t) \ D)

\* Then both tables store the same but for what is in these leaves.
LEMMA StoredElsewhere ==
  ASSUME NEW t, NEW t2, NEW D, NEW D2, InPlaceOf(t, D, t2, D2)
  PROVE  \A x : /\ x \in Stored(t) <=> x \in Rest(t, D) \/ x \in Within(t, D)
                /\ x \in Stored(t2) <=> x \in Rest(t, D) \/ x \in Within(t2, D2)
<1>1. PICK P : P = LeavesIn(t) \ D
  OBVIOUS
<1>2. Within(t2, P) = Within(t, P)
  BY <1>1 DEF Within, InPlaceOf
<1>3. LeavesIn(t) = P \cup D /\ LeavesIn(t2) = P \cup D2
  BY <1>1 DEF InPlaceOf
<1>4. Stored(t) = Within(t, P) \cup Within(t, D)
  BY ONLY <1>3 DEF Stored, Within
<1>5. Stored(t2) = Within(t2, P) \cup Within(t2, D2)
  BY ONLY <1>3 DEF Stored, Within
<1> QED BY ONLY <1>1, <1>2, <1>4, <1>5 DEF Rest

\* What one leaf stores, and what two store.
LEMMA WithinLeaves ==
  /\ \A t, p : Within(t, {p}) = ToSet(t[p].entries)
  /\ \A t, p, q : Within(t, {p, q}) = ToSet(t[p].entries) \cup ToSet(t[q].entries)
BY DEF Within

\* When one leaf changes, the tree stores what the others do and what it does.
LEMMA LeafStored ==
  ASSUME NEW t, NEW t2, LeavesIn(t2) = LeavesIn(t), NEW l \in LeavesIn(t),
         \A p \in LeavesIn(t) : p # l => t2[p].entries = t[p].entries,
         NEW e, t[l].entries = e, NEW f, t2[l].entries = f
  PROVE  \A x : /\ x \in Stored(t) <=> x \in Rest(t, {l}) \/ x \in ToSet(e)
                /\ x \in Stored(t2) <=> x \in Rest(t, {l}) \/ x \in ToSet(f)
<1>1. PICK D : D = {l}
  OBVIOUS
<1>2. InPlaceOf(t, D, t2, D)
  BY <1>1 DEF InPlaceOf
<1>3. \A x : /\ x \in Stored(t) <=> x \in Rest(t, D) \/ x \in Within(t, D)
             /\ x \in Stored(t2) <=> x \in Rest(t, D) \/ x \in Within(t2, D)
  BY ONLY <1>2, StoredElsewhere
<1>4. Within(t, D) = ToSet(e) /\ Within(t2, D) = ToSet(f)
  BY ONLY <1>1, WithinLeaves, t[l].entries = e, t2[l].entries = f, Zenon
<1> QED BY ONLY <1>1, <1>3, <1>4

\* No leaf has more than its maximum.
LeavesFit(t) == \A p \in LeavesIn(t) : Len(t[p].entries) <= LeafMax

\* A leaf stays one until its page leaves the tree, and leaves that fit go on fitting.
KeepsLeaves(t, t2) ==
    /\ \A p \in LeavesIn(t) : p \in LeavesIn(t2) \/ t2[p] = Unused
    /\ LeavesFit(t) => LeavesFit(t2)

\* As long as the leaves keep their entries, the tree stores the same.
LEMMA SameStored ==
  ASSUME NEW t, NEW t2, LeavesIn(t2) = LeavesIn(t), \A p \in LeavesIn(t) : t2[p].entries = t[p].entries
  PROVE  Stored(t2) = Stored(t) /\ KeepsLeaves(t, t2)
<1>1. Stored(t2) = Stored(t)
  BY DEF Stored, Within
<1>2. KeepsLeaves(t, t2)
  BY DEF KeepsLeaves, LeavesFit
<1> QED BY ONLY <1>1, <1>2

\* A page that is no leaf before or after stores nothing.
LEMMA NotALeaf ==
  ASSUME NEW t \in [Pages -> Nodes], NEW q \in Pages, NEW n, t[q].kind # "leaf", n.kind # "leaf",
         NEW t2, t2 = [t EXCEPT ![q] = n]
  PROVE  Stored(t2) = Stored(t) /\ KeepsLeaves(t, t2)
<1>1. t2[q] = n /\ \A x \in Pages : x # q => t2[x] = t[x]
  OBVIOUS
<1>2. LeavesIn(t2) = LeavesIn(t) /\ \A x \in LeavesIn(t) : x \in Pages /\ x # q
  BY ONLY <1>1, t[q].kind # "leaf", n.kind # "leaf" DEF LeavesIn
<1>3. \A x \in LeavesIn(t) : t2[x].entries = t[x].entries
  BY ONLY <1>1, <1>2
<1> QED BY ONLY <1>2, <1>3, SameStored

\* Dividing the entries of two leaves in another way changes nothing of what is stored.
LEMMA SharedStored ==
  ASSUME NEW t, NEW t2, LeavesIn(t2) = LeavesIn(t), NEW l \in LeavesIn(t), NEW r \in LeavesIn(t),
         \A p \in LeavesIn(t) : p # l /\ p # r => t2[p].entries = t[p].entries,
         NEW e \in Seq(Entries), NEW f \in Seq(Entries), t[l].entries = e, t[r].entries = f,
         NEW first \in Seq(Entries), NEW second \in Seq(Entries), IsSplit(e \o f, first, second),
         t2[l].entries = first, t2[r].entries = second
  PROVE  Stored(t2) = Stored(t)
<1>1. PICK E : E = e \o f
  OBVIOUS
<1>2. ToSet(first) \cup ToSet(second) = ToSet(e) \cup ToSet(f)
  <2>1. E \in Seq(Entries) /\ IsSplit(E, first, second)
    BY <1>1
  <2>2. ToSet(E) = ToSet(first) \cup ToSet(second)
    BY ONLY <2>1, first \in Seq(Entries), second \in Seq(Entries), SplitElements
  <2>3. ToSet(e \o f) = ToSet(e) \cup ToSet(f)
    BY ONLY e \in Seq(Entries), f \in Seq(Entries), ConcatElements
  <2> QED BY ONLY <2>2, <2>3, <1>1
<1>3. Within(t2, {l, r}) = Within(t, {l, r})
  <2>1. Within(t, {l, r}) = ToSet(e) \cup ToSet(f)
    BY ONLY WithinLeaves, t[l].entries = e, t[r].entries = f, Zenon
  <2>2. Within(t2, {l, r}) = ToSet(first) \cup ToSet(second)
    BY ONLY WithinLeaves, t2[l].entries = first, t2[r].entries = second, Zenon
  <2> QED BY ONLY <2>1, <2>2, <1>2
<1>4. PICK D : D = {l, r}
  OBVIOUS
<1>5. InPlaceOf(t, D, t2, D)
  BY <1>4 DEF InPlaceOf
<1>6. \A x : /\ x \in Stored(t) <=> x \in Rest(t, D) \/ x \in Within(t, D)
             /\ x \in Stored(t2) <=> x \in Rest(t, D) \/ x \in Within(t2, D)
  BY ONLY <1>5, StoredElsewhere
<1> QED BY ONLY <1>3, <1>4, <1>6

\* Nor does moving the entries of one leaf into another, whose page is given back.
LEMMA MergedStored ==
  ASSUME NEW t, NEW t2, NEW l \in LeavesIn(t), NEW r \in LeavesIn(t), l # r, LeavesIn(t2) = LeavesIn(t) \ {r},
         \A p \in LeavesIn(t) : p # l /\ p # r => t2[p].entries = t[p].entries,
         NEW e \in Seq(Entries), NEW f \in Seq(Entries), t[l].entries = e, t[r].entries = f,
         t2[l].entries = e \o f
  PROVE  Stored(t2) = Stored(t)
<1>1. ToSet(e \o f) = ToSet(e) \cup ToSet(f)
  BY ONLY e \in Seq(Entries), f \in Seq(Entries), ConcatElements
<1>2. Within(t2, {l}) = Within(t, {l, r})
  <2>1. Within(t, {l, r}) = ToSet(e) \cup ToSet(f)
    BY ONLY WithinLeaves, t[l].entries = e, t[r].entries = f, Zenon
  <2>2. Within(t2, {l}) = ToSet(e \o f)
    BY ONLY WithinLeaves, t2[l].entries = e \o f, Zenon
  <2> QED BY ONLY <2>1, <2>2, <1>1
<1>3. PICK D, D2 : D = {l, r} /\ D2 = {l}
  OBVIOUS
<1>4. InPlaceOf(t, D, t2, D2)
  BY <1>3 DEF InPlaceOf
<1>5. \A x : /\ x \in Stored(t) <=> x \in Rest(t, D) \/ x \in Within(t, D)
             /\ x \in Stored(t2) <=> x \in Rest(t, D) \/ x \in Within(t2, D2)
  BY ONLY <1>4, StoredElsewhere
<1> QED BY ONLY <1>2, <1>3, <1>5

\* When only p and its children change, the other leaves keep their entries.
LEMMA LeavesKept ==
  ASSUME NEW t, NEW t2, NEW p \in InternalsIn(t), NEW l, NEW r, SamePlaces(t, t2, p, l, r)
  PROVE  /\ LeavesIn(t2) = LeavesIn(t)
         /\ \A x \in LeavesIn(t) : x # l /\ x # r => t2[x].entries = t[x].entries
<1>1. LeavesIn(t2) = LeavesIn(t) /\ \A x \in Pages : x # l /\ x # r /\ x # p => t2[x] = t[x]
  BY DEF SamePlaces, OthersKept
<1>2. \A x \in LeavesIn(t) : x \in Pages /\ x # p
  BY DEF LeavesIn, InternalsIn
<1> QED BY ONLY <1>1, <1>2

\* What refilling a node under p, beside the separator s, leaves behind.
Refitting(t, t2, rt, lo, hi, ht, p, l, r) ==
    /\ Restored(t2, rt, lo, hi, ht, l, r) /\ Filled(t2, rt, p)
    /\ LeavesIn(t2) \subseteq LeavesIn(t) /\ InternalsIn(t2) \subseteq InternalsIn(t)
    /\ InternalsIn(t) \subseteq InternalsIn(t2) \cup {r}
    /\ \A x \in Pages : x # l /\ x # r /\ x # p => t2[x] = t[x]
    /\ Stored(t2) = Stored(t)

\* Refilling a node from its left neighbour, which has one to spare.
LEMMA LeftRefit ==
  ASSUME NEW t, NEW rt, NEW lo, NEW hi, NEW ht, Core(t, rt, NoPage, lo, hi, hi, ht),
         NEW p, NEW s, NEW l, NEW key, NEW r, Neighbours(t, p, s, l, key, r),
         FilledBut(t, rt, r), Size(t[l]) > MinSize(t[l]),
         NEW t2, t2 = Redistributed(t, p, s, FromLeft(t[l], key, t[r]))
  PROVE  Refitting(t, t2, rt, lo, hi, ht, p, l, r)
<1>0. Core(t, rt, NoPage, lo, hi, hi, ht) /\ Neighbours(t, p, s, l, key, r)
  OBVIOUS
<1>1. /\ l \in NodesIn(t) /\ r \in NodesIn(t) /\ l # p /\ r # p /\ key \in Keys
      /\ (l \in LeavesIn(t) <=> r \in LeavesIn(t)) /\ (l \in InternalsIn(t) <=> r \in InternalsIn(t))
  BY NeighbourFacts
<1>2. l # rt /\ r # rt
  BY ChildNotRoot
<1>3. t \in [Pages -> Nodes] /\ p \in InternalsIn(t)
  BY DEF Core, Neighbours
<1>4. PICK pair : pair = FromLeft(t[l], key, t[r])
  OBVIOUS
<1>5. CASE l \in LeavesIn(t)
  <2>1. /\ t[l].kind = "leaf" /\ t[l].entries \in Seq(Entries) /\ t[l] = Leaf(t[l].entries, t[l].next)
        /\ t[r].kind = "leaf" /\ t[r].entries \in Seq(Entries) /\ t[r] = Leaf(t[r].entries, t[r].next)
    BY <1>1, <1>3, <1>5, LeafNode
  <2>2. Len(t[l].entries) > 1 /\ Len(t[l].entries) \in Nat /\ Len(t[r].entries) \in Nat
    <3>1. Len(t[l].entries) > Least(LeafMax)
      BY <2>1 DEF Size, MinSize
    <3> QED BY <3>1, <2>1, LeastFacts
  <2>3. PICK first, second \in Seq(Entries) :
            /\ Len(first) = Len(t[l].entries) - 1 /\ Len(second) = Len(t[r].entries) + 1
            /\ IsSplit(t[l].entries \o t[r].entries, first, second)
            /\ pair.l = Leaf(first, t[l].next) /\ pair.r = Leaf(second, t[r].next)
            /\ pair.sep = second[1].key
    <3>1. LeafPair(t[l], t[r], pair, Len(t[l].entries) - 1, Len(t[r].entries) + 1)
      BY ONLY <2>1, <2>2, <1>4, LeafFromLeft
    <3> QED BY ONLY <3>1 DEF LeafPair
  <2>4. Len(first) > 0 /\ Len(second) > 0
    BY ONLY <2>2, <2>3
  <2>5. t2 = Redistributed(t, p, s, pair)
    BY <1>4
  <2>6. /\ Restored(t2, rt, lo, hi, ht, l, r) /\ SamePlaces(t, t2, p, l, r)
        /\ t2[l] = pair.l /\ t2[r] = pair.r
    BY ONLY <2>3, <2>4, <2>5, <1>0, <1>5, LeavesRedistributed
  <2>7. Enough(t2[l]) /\ Enough(t2[r])
    BY ONLY <2>3, <2>4, <2>6 DEF Enough, Leaf
  <2>8. Filled(t2, rt, p)
    BY <2>6, <2>7, <1>1, <1>2, <1>3, RedistributedFilled
  <2>9. Stored(t2) = Stored(t)
    <3>1. PICK e, f : e = t[l].entries /\ f = t[r].entries
      OBVIOUS
    <3>2. e \in Seq(Entries) /\ f \in Seq(Entries) /\ IsSplit(e \o f, first, second)
      BY ONLY <3>1, <2>1, <2>3
    <3>3. t2[l].entries = first /\ t2[r].entries = second
      BY ONLY <2>3, <2>6 DEF Leaf
    <3>4. /\ LeavesIn(t2) = LeavesIn(t)
          /\ \A x \in LeavesIn(t) : x # l /\ x # r => t2[x].entries = t[x].entries
      BY ONLY <2>6, <1>3, LeavesKept
    <3>5. l \in LeavesIn(t) /\ r \in LeavesIn(t)
      BY ONLY <1>1, <1>5
    <3> QED BY ONLY <3>1, <3>2, <3>3, <3>4, <3>5, <2>3, SharedStored
  <2> QED BY ONLY <2>6, <2>8, <2>9 DEF SamePlaces, OthersKept, Refitting
<1>6. CASE l \in InternalsIn(t)
  <2>1. PICK M, N : M = Len(t[l].keys) /\ N = Len(t[r].keys)
    OBVIOUS
  <2>2. /\ t[l].kind = "internal" /\ t[l].keys \in Seq(Keys) /\ t[l].kids \in Seq(Pages)
        /\ Len(t[l].keys) = M /\ Len(t[l].kids) = M + 1 /\ M \in Nat
    <3>1. l \in InternalsIn(t)
      BY <1>6
    <3> QED BY <3>1, <2>1, <1>3, InternalNode
  <2>3. /\ t[r].keys \in Seq(Keys) /\ t[r].kids \in Seq(Pages) /\ t[r].kind = "internal"
        /\ Len(t[r].keys) = N /\ Len(t[r].kids) = N + 1 /\ N \in Nat
    <3>1. r \in InternalsIn(t)
      BY <1>1, <1>6
    <3> QED BY <3>1, <2>1, <1>3, InternalNode
  <2>4. M + 1 > Least(InternalMax) /\ N + 1 >= Least(InternalMax) - 1
    <3>1. M + 1 > Least(InternalMax)
      BY <2>2 DEF Size, MinSize
    <3>2. Len(t[r].kids) >= Least(InternalMax) - 1
      BY <1>1, <1>2, <1>6 DEF FilledBut
    <3> QED BY <3>1, <3>2, <2>3
  <2>5. M > 0 /\ M >= Least(InternalMax) /\ N + 2 >= Least(InternalMax)
    BY ONLY <2>2, <2>3, <2>4, LeastFacts
  <2>6. PICK J : J = Joined(t[l], key, t[r])
    OBVIOUS
  <2>7. /\ M \in 1..Len(J.keys)
        /\ pair.l = Lower(J, M) /\ pair.r = Upper(J, M) /\ pair.sep = J.keys[M]
        /\ Len(pair.l.kids) = M /\ Len(pair.r.kids) = N + 2
    <3>1. InternalPair(J, M, pair, M, N + 2)
      BY ONLY <2>2, <2>3, <2>5, <2>6, <1>1, <1>4, InternalFromLeft
    <3> QED BY ONLY <3>1 DEF InternalPair
  <2>8. t2 = Redistributed(t, p, s, pair)
    BY <1>4
  <2>9. /\ Restored(t2, rt, lo, hi, ht, l, r) /\ SamePlaces(t, t2, p, l, r)
        /\ t2[l] = pair.l /\ t2[r] = pair.r
    BY ONLY <2>6, <2>7, <2>8, <1>0, <1>6, InternalsRedistributed
  <2>10. Enough(t2[l]) /\ Enough(t2[r])
    BY ONLY <2>5, <2>7, <2>9 DEF Enough, Lower, Upper, Internal
  <2>11. Filled(t2, rt, p)
    BY <2>9, <2>10, <1>1, <1>2, <1>3, RedistributedFilled
  <2>12. Stored(t2) = Stored(t)
    <3>1. /\ LeavesIn(t2) = LeavesIn(t)
          /\ \A x \in LeavesIn(t) : x # l /\ x # r => t2[x].entries = t[x].entries
      BY ONLY <2>9, <1>3, LeavesKept
    <3>2. \A x \in LeavesIn(t) : x # l /\ x # r
      BY <1>1, <1>6 DEF LeavesIn, InternalsIn
    <3> QED BY ONLY <3>1, <3>2, SameStored
  <2> QED BY ONLY <2>9, <2>11, <2>12 DEF SamePlaces, OthersKept, Refitting
<1> QED BY <1>1, <1>5, <1>6 DEF NodesIn

\* Refilling a node from its right neighbour, which has one to spare.
LEMMA RightRefit ==
  ASSUME NEW t, NEW rt, NEW lo, NEW hi, NEW ht, Core(t, rt, NoPage, lo, hi, hi, ht),
         NEW p, NEW s, NEW l, NEW key, NEW r, Neighbours(t, p, s, l, key, r),
         FilledBut(t, rt, l), Size(t[r]) > MinSize(t[r]),
         NEW t2, t2 = Redistributed(t, p, s, FromRight(t[l], key, t[r]))
  PROVE  Refitting(t, t2, rt, lo, hi, ht, p, l, r)
<1>0. Core(t, rt, NoPage, lo, hi, hi, ht) /\ Neighbours(t, p, s, l, key, r)
  OBVIOUS
<1>1. /\ l \in NodesIn(t) /\ r \in NodesIn(t) /\ l # p /\ r # p /\ key \in Keys
      /\ (l \in LeavesIn(t) <=> r \in LeavesIn(t)) /\ (l \in InternalsIn(t) <=> r \in InternalsIn(t))
  BY NeighbourFacts
<1>2. l # rt /\ r # rt
  BY ChildNotRoot
<1>3. t \in [Pages -> Nodes] /\ p \in InternalsIn(t)
  BY DEF Core, Neighbours
<1>4. PICK pair : pair = FromRight(t[l], key, t[r])
  OBVIOUS
<1>5. CASE l \in LeavesIn(t)
  <2>1. /\ t[l].kind = "leaf" /\ t[l].entries \in Seq(Entries) /\ t[l] = Leaf(t[l].entries, t[l].next)
        /\ t[r].kind = "leaf" /\ t[r].entries \in Seq(Entries) /\ t[r] = Leaf(t[r].entries, t[r].next)
    BY <1>1, <1>3, <1>5, LeafNode
  <2>2. Len(t[r].entries) > 1 /\ Len(t[l].entries) \in Nat /\ Len(t[r].entries) \in Nat
    <3>1. Len(t[r].entries) > Least(LeafMax)
      BY <2>1 DEF Size, MinSize
    <3> QED BY <3>1, <2>1, LeastFacts
  <2>3. PICK first, second \in Seq(Entries) :
            /\ Len(first) = Len(t[l].entries) + 1 /\ Len(second) = Len(t[r].entries) - 1
            /\ IsSplit(t[l].entries \o t[r].entries, first, second)
            /\ pair.l = Leaf(first, t[l].next) /\ pair.r = Leaf(second, t[r].next)
            /\ pair.sep = second[1].key
    <3>1. LeafPair(t[l], t[r], pair, Len(t[l].entries) + 1, Len(t[r].entries) - 1)
      BY ONLY <2>1, <2>2, <1>4, LeafFromRight
    <3> QED BY ONLY <3>1 DEF LeafPair
  <2>4. Len(first) > 0 /\ Len(second) > 0
    BY ONLY <2>2, <2>3
  <2>5. t2 = Redistributed(t, p, s, pair)
    BY <1>4
  <2>6. /\ Restored(t2, rt, lo, hi, ht, l, r) /\ SamePlaces(t, t2, p, l, r)
        /\ t2[l] = pair.l /\ t2[r] = pair.r
    BY ONLY <2>3, <2>4, <2>5, <1>0, <1>5, LeavesRedistributed
  <2>7. Enough(t2[l]) /\ Enough(t2[r])
    BY ONLY <2>3, <2>4, <2>6 DEF Enough, Leaf
  <2>8. Filled(t2, rt, p)
    BY <2>6, <2>7, <1>1, <1>2, <1>3, RedistributedFilled
  <2>9. Stored(t2) = Stored(t)
    <3>1. PICK e, f : e = t[l].entries /\ f = t[r].entries
      OBVIOUS
    <3>2. e \in Seq(Entries) /\ f \in Seq(Entries) /\ IsSplit(e \o f, first, second)
      BY ONLY <3>1, <2>1, <2>3
    <3>3. t2[l].entries = first /\ t2[r].entries = second
      BY ONLY <2>3, <2>6 DEF Leaf
    <3>4. /\ LeavesIn(t2) = LeavesIn(t)
          /\ \A x \in LeavesIn(t) : x # l /\ x # r => t2[x].entries = t[x].entries
      BY ONLY <2>6, <1>3, LeavesKept
    <3>5. l \in LeavesIn(t) /\ r \in LeavesIn(t)
      BY ONLY <1>1, <1>5
    <3> QED BY ONLY <3>1, <3>2, <3>3, <3>4, <3>5, <2>3, SharedStored
  <2> QED BY ONLY <2>6, <2>8, <2>9 DEF SamePlaces, OthersKept, Refitting
<1>6. CASE l \in InternalsIn(t)
  <2>1. PICK M, N : M = Len(t[l].keys) /\ N = Len(t[r].keys)
    OBVIOUS
  <2>2. /\ t[l].kind = "internal" /\ t[l].keys \in Seq(Keys) /\ t[l].kids \in Seq(Pages)
        /\ Len(t[l].keys) = M /\ Len(t[l].kids) = M + 1 /\ M \in Nat
    <3>1. l \in InternalsIn(t)
      BY <1>6
    <3> QED BY <3>1, <2>1, <1>3, InternalNode
  <2>3. /\ t[r].keys \in Seq(Keys) /\ t[r].kids \in Seq(Pages) /\ t[r].kind = "internal"
        /\ Len(t[r].keys) = N /\ Len(t[r].kids) = N + 1 /\ N \in Nat
    <3>1. r \in InternalsIn(t)
      BY <1>1, <1>6
    <3> QED BY <3>1, <2>1, <1>3, InternalNode
  <2>4. N + 1 > Least(InternalMax) /\ M + 1 >= Least(InternalMax) - 1
    <3>1. N + 1 > Least(InternalMax)
      BY <2>3 DEF Size, MinSize
    <3>2. Len(t[l].kids) >= Least(InternalMax) - 1
      BY <1>1, <1>2, <1>6 DEF FilledBut
    <3> QED BY <3>1, <3>2, <2>2
  <2>5. N > 0 /\ N >= Least(InternalMax) /\ M + 2 >= Least(InternalMax)
    BY ONLY <2>2, <2>3, <2>4, LeastFacts
  <2>6. PICK J : J = Joined(t[l], key, t[r])
    OBVIOUS
  <2>7. /\ M + 2 \in 1..Len(J.keys)
        /\ pair.l = Lower(J, M + 2) /\ pair.r = Upper(J, M + 2) /\ pair.sep = J.keys[M + 2]
        /\ Len(pair.l.kids) = M + 2 /\ Len(pair.r.kids) = N
    <3>1. InternalPair(J, M + 2, pair, M + 2, N)
      BY ONLY <2>2, <2>3, <2>5, <2>6, <1>1, <1>4, InternalFromRight
    <3> QED BY ONLY <3>1 DEF InternalPair
  <2>8. t2 = Redistributed(t, p, s, pair)
    BY <1>4
  <2>9. /\ Restored(t2, rt, lo, hi, ht, l, r) /\ SamePlaces(t, t2, p, l, r)
        /\ t2[l] = pair.l /\ t2[r] = pair.r
    BY ONLY <2>6, <2>7, <2>8, <1>0, <1>6, InternalsRedistributed
  <2>10. Enough(t2[l]) /\ Enough(t2[r])
    BY ONLY <2>5, <2>7, <2>9 DEF Enough, Lower, Upper, Internal
  <2>11. Filled(t2, rt, p)
    BY <2>9, <2>10, <1>1, <1>2, <1>3, RedistributedFilled
  <2>12. Stored(t2) = Stored(t)
    <3>1. /\ LeavesIn(t2) = LeavesIn(t)
          /\ \A x \in LeavesIn(t) : x # l /\ x # r => t2[x].entries = t[x].entries
      BY ONLY <2>9, <1>3, LeavesKept
    <3>2. \A x \in LeavesIn(t) : x # l /\ x # r
      BY <1>1, <1>6 DEF LeavesIn, InternalsIn
    <3> QED BY ONLY <3>1, <3>2, SameStored
  <2> QED BY ONLY <2>9, <2>11, <2>12 DEF SamePlaces, OthersKept, Refitting
<1> QED BY <1>1, <1>5, <1>6 DEF NodesIn

\* Merging a node that lacks one with a neighbour that has none to spare.
LEMMA MergeRefit ==
  ASSUME NEW t, NEW rt, NEW lo, NEW hi, NEW ht, Core(t, rt, NoPage, lo, hi, hi, ht),
         NEW p, NEW s, NEW l, NEW key, NEW r, Neighbours(t, p, s, l, key, r),
         NEW w \in {l, r}, FilledBut(t, rt, w),
         NEW t2, t2 = Merged(t, p, s)
  PROVE  Refitting(t, t2, rt, lo, hi, ht, p, l, r)
<1>0. Core(t, rt, NoPage, lo, hi, hi, ht) /\ Neighbours(t, p, s, l, key, r)
  OBVIOUS
<1>1. /\ l \in NodesIn(t) /\ r \in NodesIn(t) /\ l # p /\ r # p /\ key \in Keys /\ l # r /\ l \in Pages
      /\ (l \in LeavesIn(t) <=> r \in LeavesIn(t)) /\ (l \in InternalsIn(t) <=> r \in InternalsIn(t))
  BY NeighbourFacts
<1>2. l # rt /\ r # rt
  BY ChildNotRoot
<1>3. t \in [Pages -> Nodes] /\ p \in InternalsIn(t) /\ s \in 1..Len(t[p].keys)
  BY DEF Core, Neighbours
<1>4. PICK top : top = Tops(hi, l, r)
  OBVIOUS
<1>5. /\ Core(t2, rt, NoPage, lo, top, top, ht)
      /\ LeavesIn(t2) = LeavesIn(t) \ {r} /\ InternalsIn(t2) = InternalsIn(t) \ {r}
      /\ t2[l] = Joined(t[l], key, t[r])
      /\ t2[p] = Internal(RemoveAt(t[p].keys, s), RemoveAt(t[p].kids, s + 1))
  BY ONLY <1>0, <1>4, t2 = Merged(t, p, s), MergedCore
<1>6. \A x \in Pages : x # l /\ x # r /\ x # p => t2[x] = t[x]
  BY ONLY <1>0, <1>4, t2 = Merged(t, p, s), MergedCore
<1>7. \A x \in Pages : x # l => top[x] = hi[x]
  BY ONLY <1>0, <1>4, t2 = Merged(t, p, s), MergedCore
<1>8. Restored(t2, rt, lo, hi, ht, l, r)
  <2>1. Agree(lo, hi, ht, l, r, lo, top, ht)
    BY ONLY <1>7 DEF Agree
  <2> QED BY ONLY <2>1, <1>5 DEF Restored
<1>9. Len(t2[p].kids) = Len(t[p].kids) - 1
  <2>1. t[p].kids \in Seq(Pages) /\ Len(t[p].kids) = Len(t[p].keys) + 1 /\ t[p].keys \in Seq(Keys)
    BY <1>3, InternalNode
  <2>2. s + 1 \in 1..Len(t[p].kids)
    BY <2>1, <1>3
  <2>3. Len(RemoveAt(t[p].kids, s + 1)) = Len(t[p].kids) - 1
    BY ONLY <2>1, <2>2, RemoveAtFacts
  <2> QED BY ONLY <2>3, <1>5 DEF Internal
<1>10. ASSUME l \in LeavesIn(t) PROVE Enough(t2[l])
  <2>1. /\ t[l].kind = "leaf" /\ t[l].entries \in Seq(Entries)
        /\ t[r].kind = "leaf" /\ t[r].entries \in Seq(Entries)
    BY <1>1, <1>3, <1>10, LeafNode
  <2>2. Len(t2[l].entries) = Len(t[l].entries) + Len(t[r].entries)
    BY <2>1, <1>5 DEF Joined, Leaf
  <2>3. Len(t[l].entries) > 0 \/ Len(t[r].entries) > 0
    BY <1>1, <1>10 DEF FilledBut
  <2>4. t2[l].kind = "leaf"
    BY <2>1, <1>5 DEF Joined, Leaf
  <2>5. Len(t[l].entries) \in Nat /\ Len(t[r].entries) \in Nat
    BY ONLY <2>1
  <2>6. Len(t2[l].entries) > 0
    <3>1. PICK a \in Nat, b \in Nat : a = Len(t[l].entries) /\ b = Len(t[r].entries)
      BY ONLY <2>5
    <3>2. a > 0 \/ b > 0
      BY ONLY <2>3, <3>1
    <3>3. a + b > 0
      BY ONLY <3>2
    <3> QED BY ONLY <2>2, <3>1, <3>3
  <2> QED BY ONLY <2>4, <2>6 DEF Enough
<1>11. ASSUME l \in InternalsIn(t) PROVE Enough(t2[l])
  <2>1. /\ t[l].kind = "internal" /\ t[l].kids \in Seq(Pages) /\ t[r].kids \in Seq(Pages)
    BY <1>1, <1>3, <1>11, InternalNode
  <2>2. Len(t2[l].kids) = Len(t[l].kids) + Len(t[r].kids)
    BY <2>1, <1>5 DEF Joined, Internal
  <2>3. Len(t[l].kids) >= Least(InternalMax) \/ Len(t[r].kids) >= Least(InternalMax)
    BY <1>1, <1>2, <1>11 DEF FilledBut
  <2>4. t2[l].kind = "internal"
    BY <2>1, <1>5 DEF Joined, Internal
  <2>5. Len(t[l].kids) \in Nat /\ Len(t[r].kids) \in Nat
    BY ONLY <2>1
  <2>6. Len(t2[l].kids) >= Least(InternalMax)
    <3>1. PICK a \in Nat, b \in Nat, m \in Nat : a = Len(t[l].kids) /\ b = Len(t[r].kids) /\ m = Least(InternalMax)
      BY ONLY <2>5, LeastFacts
    <3>2. a >= m \/ b >= m
      BY ONLY <2>3, <3>1
    <3>3. a + b >= m
      BY ONLY <3>2
    <3> QED BY ONLY <2>2, <3>1, <3>3
  <2> QED BY ONLY <2>4, <2>6 DEF Enough
<1>12. Enough(t2[l])
  BY <1>1, <1>10, <1>11 DEF NodesIn
<1>13. ASSUME NEW x \in LeavesIn(t2) PROVE Len(t2[x].entries) > 0
  <2>1. x \in Pages /\ x \in LeavesIn(t) /\ t2[x].kind = "leaf" /\ x # p /\ x # r
    BY <1>3, <1>5, <1>13 DEF LeavesIn, InternalsIn
  <2>2. CASE x = l
    BY <2>1, <2>2, <1>12 DEF Enough
  <2>3. CASE x # l
    BY <2>1, <2>3, <1>6 DEF FilledBut
  <2> QED BY <2>2, <2>3
<1>14. ASSUME NEW x \in InternalsIn(t2)
       PROVE  Len(t2[x].kids) >= IF x = rt THEN (IF x = p THEN 1 ELSE 2)
                                 ELSE IF x = p THEN Least(InternalMax) - 1 ELSE Least(InternalMax)
  <2>1. x \in Pages /\ t2[x].kind = "internal" /\ x \in InternalsIn(t) /\ x # r
    BY <1>5 DEF InternalsIn
  <2>2. CASE x = l
    BY <2>1, <2>2, <1>1, <1>2, <1>12 DEF Enough
  <2>3. CASE x # l
    <3>1. Len(t[x].kids) >= IF x = rt THEN 2 ELSE Least(InternalMax)
      BY <2>1, <2>3 DEF FilledBut
    <3>2. Len(t[x].kids) \in Nat
      BY <2>1, <1>3, InternalNode
    <3>3. Len(t2[x].kids) = IF x = p THEN Len(t[x].kids) - 1 ELSE Len(t[x].kids)
      BY <2>1, <2>3, <1>6, <1>9
    <3> QED BY ONLY <3>1, <3>2, <3>3, LeastFacts
  <2> QED BY <2>2, <2>3
<1>15. Filled(t2, rt, p)
  BY ONLY <1>13, <1>14 DEF Filled
<1>16. \A x \in LeavesIn(t) : x \in Pages /\ x # p
  BY <1>3 DEF LeavesIn, InternalsIn
<1>17. ASSUME l \in LeavesIn(t) PROVE Stored(t2) = Stored(t)
  <2>1. PICK e, f : e = t[l].entries /\ f = t[r].entries
    OBVIOUS
  <2>2. t[l].kind = "leaf" /\ e \in Seq(Entries) /\ f \in Seq(Entries) /\ r \in LeavesIn(t)
    BY <2>1, <1>1, <1>3, <1>17, LeafNode
  <2>3. t2[l].entries = e \o f
    <3>1. t2[l] = Leaf(t[l].entries \o t[r].entries, t[r].next)
      BY ONLY <2>2, <1>5 DEF Joined
    <3>2. \A g, x : Leaf(g, x).entries = g
      BY DEF Leaf
    <3>3. t2[l].entries = t[l].entries \o t[r].entries
      BY ONLY <3>1, <3>2, Zenon
    <3> QED BY ONLY <3>3, <2>1
  <2>4. \A x \in LeavesIn(t) : x # l /\ x # r => t2[x].entries = t[x].entries
    BY ONLY <1>6, <1>16
  <2> QED BY ONLY <2>1, <2>2, <2>3, <2>4, <1>1, <1>5, <1>17, MergedStored
<1>18. ASSUME l \in InternalsIn(t) PROVE Stored(t2) = Stored(t)
  <2>1. \A x \in LeavesIn(t) : x # l /\ x # r
    BY <1>1, <1>18 DEF LeavesIn, InternalsIn
  <2>2. LeavesIn(t2) = LeavesIn(t) /\ \A x \in LeavesIn(t) : t2[x].entries = t[x].entries
    BY <2>1, <1>5, <1>6, <1>16
  <2> QED BY ONLY <2>2, SameStored
<1>19. Stored(t2) = Stored(t)
  BY ONLY <1>1, <1>17, <1>18 DEF NodesIn
<1> QED BY ONLY <1>5, <1>6, <1>8, <1>15, <1>19 DEF Refitting

\* Refilled, whichever way it goes: the table is in order again, every node but p
\* is filled, and p may lack one child.
LEMMA RefilledCore ==
  ASSUME NEW t, NEW rt, NEW lo, NEW hi, NEW ht, Core(t, rt, NoPage, lo, hi, hi, ht),
         NEW p \in InternalsIn(t), NEW c \in 1..Len(t[p].kids), FilledBut(t, rt, t[p].kids[c]),
         NEW s, s = Between(t, p, c), NEW t2, t2 = Refilled(t, p, c)
  PROVE  /\ Neighbours(t, p, s, t[p].kids[s], t[p].keys[s], t[p].kids[s + 1])
         /\ Refitting(t, t2, rt, lo, hi, ht, p, t[p].kids[s], t[p].kids[s + 1])
<1>0. Core(t, rt, NoPage, lo, hi, hi, ht)
  OBVIOUS
<1>1. t \in [Pages -> Nodes] /\ ht \in [Pages -> Nat]
  BY DEF Core, Ghosts
<1>2. PICK w : w = t[p].kids[c]
  OBVIOUS
<1>3. w # p
  BY <1>2, KidFacts
<1>4. Len(t[p].kids) \in Nat /\ t[p].kids \in Seq(Pages)
  BY <1>1, InternalNode
<1>5. Len(t[p].kids) >= 2
  <2>1. Len(t[p].kids) >= IF p = rt THEN 2 ELSE Least(InternalMax)
    BY <1>2, <1>3 DEF FilledBut
  <2> QED BY <2>1, <1>4, LeastFacts
<1>6. /\ s \in 1..Len(t[p].keys) /\ (s = c \/ s + 1 = c)
      /\ Lends(t, p, c - 1) => s + 1 = c
      /\ ~Lends(t, p, c - 1) /\ Lends(t, p, c + 1) => s = c
  BY <1>1, <1>5, BetweenFacts
<1>7. PICK l, key, r : l = t[p].kids[s] /\ key = t[p].keys[s] /\ r = t[p].kids[s + 1]
  OBVIOUS
<1>8. Neighbours(t, p, s, l, key, r)
  BY <1>6, <1>7 DEF Neighbours
<1>9. FilledBut(t, rt, w)
  BY <1>2
<1>10. /\ Lends(t, p, c - 1) => t2 = Redistributed(t, p, s, FromLeft(t[l], key, t[r]))
       /\ ~Lends(t, p, c - 1) /\ Lends(t, p, c + 1) => t2 = Redistributed(t, p, s, FromRight(t[l], key, t[r]))
       /\ ~Lends(t, p, c - 1) /\ ~Lends(t, p, c + 1) => t2 = Merged(t, p, s)
  BY <1>7 DEF Refilled
<1>11. s \in Int /\ c \in Int
  BY <1>6
<1>12. CASE Lends(t, p, c - 1)
  <2>1. s + 1 = c /\ c - 1 = s
    BY ONLY <1>6, <1>11, <1>12
  <2>2. r = w /\ Size(t[l]) > MinSize(t[l])
    <3>1. Size(t[t[p].kids[c - 1]]) > MinSize(t[t[p].kids[c - 1]])
      BY ONLY <1>12 DEF Lends
    <3> QED BY ONLY <3>1, <2>1, <1>2, <1>7
  <2>3. FilledBut(t, rt, r)
    BY ONLY <2>2, <1>9
  <2>4. Refitting(t, t2, rt, lo, hi, ht, p, l, r)
    BY ONLY <2>2, <2>3, <1>0, <1>8, <1>10, <1>12, LeftRefit
  <2> QED BY ONLY <2>4, <1>7, <1>8
<1>13. CASE ~Lends(t, p, c - 1) /\ Lends(t, p, c + 1)
  <2>1. s = c
    BY ONLY <1>6, <1>13
  <2>2. l = w /\ Size(t[r]) > MinSize(t[r])
    <3>1. Size(t[t[p].kids[c + 1]]) > MinSize(t[t[p].kids[c + 1]])
      BY ONLY <1>13 DEF Lends
    <3> QED BY ONLY <3>1, <2>1, <1>2, <1>7
  <2>3. FilledBut(t, rt, l)
    BY ONLY <2>2, <1>9
  <2>4. Refitting(t, t2, rt, lo, hi, ht, p, l, r)
    BY ONLY <2>2, <2>3, <1>0, <1>8, <1>10, <1>13, RightRefit
  <2> QED BY ONLY <2>4, <1>7, <1>8
<1>14. CASE ~Lends(t, p, c - 1) /\ ~Lends(t, p, c + 1)
  <2>1. w \in {l, r}
    BY ONLY <1>2, <1>6, <1>7
  <2>2. Refitting(t, t2, rt, lo, hi, ht, p, l, r)
    BY ONLY <2>1, <1>0, <1>8, <1>9, <1>10, <1>14, MergeRefit
  <2> QED BY ONLY <2>2, <1>7, <1>8
<1> QED BY <1>12, <1>13, <1>14
=============================================================================
