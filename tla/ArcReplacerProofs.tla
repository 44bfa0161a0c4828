-------------------------- MODULE ArcReplacerProofs --------------------------
(***************************************************************************)
(* Proofs about ArcReplacer, for every number of frames and pages and      *)
(* every bound of the model: its lists, its map and its counter always     *)
(* agree, RecordAccess never waits for its own latch, the ghost lists hold *)
(* what ghost_map_ names, and the replacer implements the contract of      *)
(* Replacer.tla.                                                           *)
(***************************************************************************)
EXTENDS ArcReplacer, SequenceFacts, FiniteSetTheorems

-----------------------------------------------------------------------------
(* Lists without repetition                                                *)

\* A non-empty set of positions of a list has a last one.
LEMMA LastPosition ==
  ASSUME NEW n \in Nat, NEW S, S \subseteq 1..n, S # {}
  PROVE  \E i \in S : \A j \in S : j <= i
<1> DEFINE T == {k \in Nat : \E i \in S : k = n - i}
<1>1. T \subseteq Nat /\ T # {}
  <2>1. PICK i \in S : TRUE
    OBVIOUS
  <2>2. n - i \in T
    BY <2>1
  <2> QED BY <2>2
<1>2. PICK k \in T : \A m \in T : ~ (<<m, k>> \in OpToRel(<, Nat))
  BY <1>1, WFMin, NatLessThanWellFounded
<1>3. \A m \in T : ~ (m < k)
  BY <1>1, <1>2 DEF OpToRel
<1>4. PICK i \in S : k = n - i
  OBVIOUS
<1>5. ASSUME NEW j \in S PROVE j <= i
  <2>1. n - j \in T
    OBVIOUS
  <2> QED BY <2>1, <1>3, <1>4
<1> QED BY <1>5

\* Without removes its element and keeps the rest, each still once.
LEMMA WithoutList ==
  ASSUME NEW S, NEW list \in Seq(S), IsInjective(list), NEW f
  PROVE  /\ Without(list, f) \in Seq(S)
         /\ IsInjective(Without(list, f))
         /\ Range(Without(list, f)) = Range(list) \ {f}
<1>1. CASE f \notin Range(list)
  BY <1>1 DEF Without
<1>2. CASE f \in Range(list)
  <2> DEFINE i == CHOOSE i \in DOMAIN list : list[i] = f
             n == Len(list) - 1
             at(j) == IF j < i THEN j ELSE j + 1
             W == [j \in 1..n |-> list[at(j)]]
  <2>1. i \in 1..Len(list) /\ list[i] = f
    BY <1>2 DEF Range
  <2>2. Without(list, f) = W
    BY <1>2 DEF Without
  <2> HIDE DEF i
  <2>3. n \in Nat /\ \A j \in 1..n : at(j) \in 1..Len(list) /\ at(j) # i
    BY <2>1
  <2>4. W \in Seq(S)
    BY <2>3
  <2>5. DOMAIN W = 1..n /\ \A j \in 1..n : W[j] = list[at(j)]
    OBVIOUS
  <2>6. \A a, b \in 1..n : at(a) = at(b) => a = b
    BY <2>1
  <2> HIDE DEF W
  <2>7. IsInjective(W)
    <3> SUFFICES ASSUME NEW a \in 1..n, NEW b \in 1..n, W[a] = W[b] PROVE a = b
      BY <2>5 DEF IsInjective
    <3>1. list[at(a)] = list[at(b)]
      BY <2>5
    <3>2. at(a) = at(b)
      BY <3>1, <2>3 DEF IsInjective
    <3> QED BY <3>2, <2>6
  <2>8. Range(W) \subseteq Range(list) \ {f}
    <3> SUFFICES ASSUME NEW j \in 1..n PROVE W[j] \in Range(list) \ {f}
      BY <2>5 DEF Range
    <3>1. W[j] = list[at(j)] /\ at(j) \in 1..Len(list) /\ at(j) # i
      BY <2>5, <2>3
    <3>2. list[at(j)] # f
      BY <3>1, <2>1 DEF IsInjective
    <3> QED BY <3>1, <3>2 DEF Range
  <2>9. Range(list) \ {f} \subseteq Range(W)
    <3> SUFFICES ASSUME NEW k \in 1..Len(list), list[k] # f PROVE list[k] \in Range(W)
      BY DEF Range
    <3>1. k # i
      BY <2>1
    <3> DEFINE j == IF k < i THEN k ELSE k - 1
    <3>2. j \in 1..n /\ at(j) = k
      BY <3>1, <2>1
    <3> QED BY <3>2, <2>5 DEF Range
  <2> QED BY <2>2, <2>4, <2>7, <2>8, <2>9
<1> QED BY <1>1, <1>2

\* A new element at the front of a list.
LEMMA PushedList ==
  ASSUME NEW S, NEW list \in Seq(S), IsInjective(list), NEW f \in S, f \notin Range(list)
  PROVE  /\ <<f>> \o list \in Seq(S)
         /\ IsInjective(<<f>> \o list)
         /\ Range(<<f>> \o list) = Range(list) \cup {f}
<1> DEFINE L == <<f>> \o list
           n == Len(list)
<1>1. L \in Seq(S) /\ n \in Nat
  OBVIOUS
<1>2. DOMAIN L = 1..(n + 1) /\ L[1] = f /\ \A k \in 1..n : L[k + 1] = list[k]
  OBVIOUS
<1>3. \A k \in 1..(n + 1) : k # 1 => k - 1 \in 1..n /\ L[k] = list[k - 1]
  OBVIOUS
<1> HIDE DEF L
<1>4. IsInjective(L)
  <2> SUFFICES ASSUME NEW a \in 1..(n + 1), NEW b \in 1..(n + 1), L[a] = L[b] PROVE a = b
    BY <1>2 DEF IsInjective
  <2>1. \A k \in 1..(n + 1) : k # 1 => L[k] \in Range(list)
    BY <1>3 DEF Range
  <2>2. CASE a = 1 \/ b = 1
    BY <2>1, <2>2, <1>2
  <2>3. CASE a # 1 /\ b # 1
    BY <2>3, <1>3 DEF IsInjective
  <2> QED BY <2>2, <2>3
<1>5. Range(L) \subseteq Range(list) \cup {f}
  <2> SUFFICES ASSUME NEW k \in 1..(n + 1) PROVE L[k] \in Range(list) \cup {f}
    BY <1>2 DEF Range
  <2> QED BY <1>2, <1>3 DEF Range
<1>6. Range(list) \cup {f} \subseteq Range(L)
  <2>1. ASSUME NEW k \in 1..n PROVE list[k] \in Range(L)
    <3>1. k + 1 \in 1..(n + 1) /\ k + 1 # 1 /\ (k + 1) - 1 = k
      BY <1>1
    <3>2. L[k + 1] = list[k]
      BY <3>1, <1>3
    <3> QED BY <3>1, <3>2, <1>2 DEF Range
  <2>2. f \in Range(L)
    BY <1>1, <1>2 DEF Range
  <2> QED BY <2>1, <2>2 DEF Range
<1> QED BY <1>1, <1>4, <1>5, <1>6 DEF L

-----------------------------------------------------------------------------
(* The inductive invariant                                                 *)

\* The types of the live half: the ghost lists play no part in what it promises.
LiveType ==
    /\ mru \in Seq(Frames) /\ mfu \in Seq(Frames)
    /\ Alive \subseteq Frames
    /\ aliveMap \in [Alive -> FrameStatus]

\* The lists agree with the map, the counter with the flags, and nothing hangs.
IInv == LiveType /\ ListsMatchMap /\ CountMatches /\ NeverHangs

\* The tracked and the evictable frames are finite sets, no larger than the pool.
LEMMA LiveFinite ==
  ASSUME LiveType
  PROVE  /\ IsFiniteSet(Alive) /\ Cardinality(Alive) <= ReplacerSize
         /\ IsFiniteSet(Evictable) /\ Cardinality(Evictable) \in Nat
         /\ Cardinality(Alive) \in Nat
<1>1. IsFiniteSet(Alive) /\ Cardinality(Alive) <= Cardinality(Frames)
  BY FramesAssumption, FS_Subset DEF LiveType
<1>2. Evictable \subseteq Alive
  BY DEF Evictable
<1>3. IsFiniteSet(Evictable)
  BY <1>1, <1>2, FS_Subset
<1>4. Cardinality(Alive) \in Nat /\ Cardinality(Evictable) \in Nat /\ Cardinality(Frames) \in Nat
  BY <1>1, <1>3, FS_CardinalityType, FramesAssumption
<1> QED BY <1>1, <1>3, <1>4, FramesAssumption

\* What erasing an entry of the map of tracked frames leaves.
LEMMA EraseAlive ==
  ASSUME LiveType, NEW f
  PROVE  /\ Erase(aliveMap, f) \in [Alive \ {f} -> FrameStatus]
         /\ DOMAIN Erase(aliveMap, f) = Alive \ {f}
         /\ \A g \in Alive \ {f} : Erase(aliveMap, f)[g] = aliveMap[g]
BY DEF LiveType, Erase, Alive

\* What adding an entry to it yields.
LEMMA PutAlive ==
  ASSUME LiveType, NEW f \in Frames, NEW e \in FrameStatus
  PROVE  /\ Put(aliveMap, f, e) \in [Alive \cup {f} -> FrameStatus]
         /\ DOMAIN Put(aliveMap, f, e) = Alive \cup {f}
         /\ Put(aliveMap, f, e)[f] = e
         /\ \A g \in Alive \ {f} : Put(aliveMap, f, e)[g] = aliveMap[g]
BY DEF LiveType, Put, Alive

-----------------------------------------------------------------------------
(* Every call keeps the invariant                                          *)

\* The empty replacer.
LEMMA InitIInv ==
  ASSUME Init
  PROVE  IInv /\ R!Init
<1>1. Alive = {} /\ Evictable = {}
  BY DEF Init, Alive, Evictable
<1>2. LiveType
  BY <1>1 DEF Init, LiveType
<1>3. ListsMatchMap
  BY <1>1 DEF Init, ListsMatchMap, IsInjective, Range
<1>4. CountMatches
  BY <1>1, FS_EmptySet DEF Init, CountMatches
<1> QED BY <1>1, <1>2, <1>3, <1>4 DEF Init, IInv, NeverHangs, R!Init, Done, R!Done

\* SetEvictable: the counter follows the flag, the lists are left alone.
LEMMA SetEvictableStep ==
  ASSUME IInv, NEW f \in Frames, NEW b \in BOOLEAN, SetEvictable(f, b)
  PROVE  IInv' /\ R!SetEvictable(f, b)
<1> USE DEF IInv
<1>1. CASE f \notin Alive
  <2>1. aliveMap' = aliveMap /\ currSize' = currSize /\ mru' = mru /\ mfu' = mfu
        /\ hung' = hung /\ reply' = Throws
    BY <1>1 DEF SetEvictable
  <2>2. Alive' = Alive /\ Evictable' = Evictable
    BY <2>1 DEF Alive, Evictable
  <2> QED BY <1>1, <2>1, <2>2
      DEF LiveType, ListsMatchMap, CountMatches, NeverHangs, R!SetEvictable, Throws, R!Throws
<1>2. CASE f \in Alive
  <2>1. /\ aliveMap' = [aliveMap EXCEPT ![f].evictable = b]
        /\ currSize' = CountAfter(f, b)
        /\ mru' = mru /\ mfu' = mfu /\ hung' = hung /\ reply' = Done
    BY <1>2 DEF SetEvictable
  <2>2. Alive' = Alive
    BY <2>1 DEF Alive, LiveType
  <2>3. /\ aliveMap' \in [Alive -> FrameStatus]
        /\ \A g \in Alive : aliveMap'[g].status = aliveMap[g].status
        /\ \A g \in Alive \ {f} : aliveMap'[g] = aliveMap[g]
        /\ aliveMap'[f].evictable = b
    BY <1>2, <2>1 DEF LiveType, FrameStatus
  <2>4. LiveType'
    BY <2>1, <2>2, <2>3 DEF LiveType
  <2>5. ListsMatchMap'
    BY <2>1, <2>2, <2>3 DEF ListsMatchMap
  <2>6. Evictable' = IF b THEN Evictable \cup {f} ELSE Evictable \ {f}
    BY <1>2, <2>2, <2>3 DEF Evictable
  <2>7. CountMatches'
    <3>1. IsFiniteSet(Evictable) /\ Cardinality(Evictable) \in Nat
      BY LiveFinite
    <3>2. aliveMap[f].evictable \in BOOLEAN /\ (f \in Evictable <=> aliveMap[f].evictable)
      BY <1>2 DEF LiveType, FrameStatus, Evictable
    <3>3. Cardinality(Evictable \cup {f}) =
            IF f \in Evictable THEN Cardinality(Evictable) ELSE Cardinality(Evictable) + 1
      BY <3>1, FS_AddElement
    <3>4. Cardinality(Evictable \ {f}) =
            IF f \in Evictable THEN Cardinality(Evictable) - 1 ELSE Cardinality(Evictable)
      BY <3>1, FS_RemoveElement
    <3>5. CASE b = TRUE
      BY <3>2, <3>3, <3>5, <2>1, <2>6 DEF CountMatches, CountAfter
    <3>6. CASE b = FALSE
      BY <3>2, <3>4, <3>6, <2>1, <2>6 DEF CountMatches, CountAfter
    <3> QED BY <3>5, <3>6
  <2> QED BY <1>2, <2>1, <2>2, <2>4, <2>5, <2>6, <2>7
      DEF NeverHangs, R!SetEvictable, Done, R!Done
<1> QED BY <1>1, <1>2

\* RecordAccess of a tracked frame: it moves between the lists, nothing is counted.
LEMMA RecordHitStep ==
  ASSUME IInv, NEW f \in Frames, ~hung, RecordHit(f)
  PROVE  IInv' /\ R!RecordAccess(f)
<1> USE DEF IInv
<1>1. /\ f \in Alive
      /\ mru' = IF aliveMap[f].status = "MRU" THEN Without(mru, f) ELSE mru
      /\ mfu' = <<f>> \o (IF aliveMap[f].status = "MFU" THEN Without(mfu, f) ELSE mfu)
      /\ aliveMap' = [aliveMap EXCEPT ![f].status = "MFU"]
      /\ currSize' = currSize /\ hung' = hung /\ reply' = Done
  BY DEF RecordHit
<1>2. Alive' = Alive
  BY <1>1 DEF Alive, LiveType
<1>3. /\ aliveMap' \in [Alive -> FrameStatus]
      /\ \A g \in Alive \ {f} : aliveMap'[g] = aliveMap[g]
      /\ aliveMap'[f].status = "MFU"
      /\ \A g \in Alive : aliveMap'[g].evictable = aliveMap[g].evictable
  BY <1>1 DEF LiveType, FrameStatus, Statuses
<1>4. mru' \in Seq(Frames) /\ IsInjective(mru') /\ Range(mru') = Range(mru) \ {f}
  <2>1. CASE aliveMap[f].status = "MRU"
    BY <2>1, <1>1, WithoutList DEF LiveType, ListsMatchMap
  <2>2. CASE aliveMap[f].status # "MRU"
    BY <2>2, <1>1 DEF LiveType, ListsMatchMap
  <2> QED BY <2>1, <2>2
<1>5. mfu' \in Seq(Frames) /\ IsInjective(mfu') /\ Range(mfu') = Range(mfu) \cup {f}
  <2> DEFINE rest == IF aliveMap[f].status = "MFU" THEN Without(mfu, f) ELSE mfu
  <2>1. rest \in Seq(Frames) /\ IsInjective(rest) /\ Range(rest) = Range(mfu) \ {f}
    <3>1. CASE aliveMap[f].status = "MFU"
      BY <3>1, WithoutList DEF LiveType, ListsMatchMap
    <3>2. CASE aliveMap[f].status # "MFU"
      BY <3>2 DEF LiveType, ListsMatchMap
    <3> QED BY <3>1, <3>2
  <2>2. mfu' = <<f>> \o rest
    BY <1>1
  <2> HIDE DEF rest
  <2> QED BY <2>1, <2>2, PushedList
<1>6. LiveType'
  BY <1>2, <1>3, <1>4, <1>5 DEF LiveType
<1>7. ListsMatchMap'
  <2>1. Range(mru') = {g \in Alive' : aliveMap'[g].status = "MRU"}
    BY <1>1, <1>2, <1>3, <1>4 DEF ListsMatchMap
  <2>2. Range(mfu') = {g \in Alive' : aliveMap'[g].status = "MFU"}
    BY <1>1, <1>2, <1>3, <1>5 DEF ListsMatchMap
  <2> QED BY <2>1, <2>2, <1>4, <1>5 DEF ListsMatchMap
<1>8. Evictable' = Evictable
  BY <1>2, <1>3 DEF Evictable
<1> QED BY <1>1, <1>2, <1>6, <1>7, <1>8
    DEF CountMatches, NeverHangs, R!RecordAccess, Done, R!Done

\* RecordAccess of an untracked frame, to the front of the list its status
\* names: it is not evictable yet, and there is room for it.
LEMMA TrackedStep ==
  ASSUME IInv, NEW f \in Frames, f \notin Alive, NEW p \in Pages, NEW s \in Statuses,
         aliveMap' = Put(aliveMap, f, [page |-> p, status |-> s, evictable |-> FALSE]),
         mru' = IF s = "MRU" THEN <<f>> \o mru ELSE mru,
         mfu' = IF s = "MFU" THEN <<f>> \o mfu ELSE mfu,
         currSize' = currSize, hung' = MustEvict(aliveMap'), reply' = Done
  PROVE  IInv' /\ R!RecordAccess(f)
<1> USE DEF IInv
<1> DEFINE e == [page |-> p, status |-> s, evictable |-> FALSE]
<1>1. e \in FrameStatus /\ e.status = s /\ e.evictable = FALSE
  BY DEF FrameStatus
<1> HIDE DEF e
<1>2. /\ aliveMap' \in [Alive \cup {f} -> FrameStatus]
      /\ DOMAIN aliveMap' = Alive \cup {f}
      /\ aliveMap'[f] = e
      /\ \A g \in Alive : aliveMap'[g] = aliveMap[g]
  <2>1. aliveMap' = Put(aliveMap, f, e) /\ Alive \ {f} = Alive /\ LiveType
    BY DEF e
  <2>2. /\ Put(aliveMap, f, e) \in [Alive \cup {f} -> FrameStatus]
        /\ DOMAIN Put(aliveMap, f, e) = Alive \cup {f}
        /\ Put(aliveMap, f, e)[f] = e
        /\ \A g \in Alive \ {f} : Put(aliveMap, f, e)[g] = aliveMap[g]
    BY <1>1, <2>1, PutAlive
  <2> QED BY <2>1, <2>2
<1>3. Alive' = Alive \cup {f}
  BY <1>2 DEF Alive
<1>4. f \notin Range(mru) /\ f \notin Range(mfu)
  BY DEF ListsMatchMap
<1>5. /\ mru' \in Seq(Frames) /\ IsInjective(mru')
      /\ Range(mru') = IF s = "MRU" THEN Range(mru) \cup {f} ELSE Range(mru)
  <2>1. mru \in Seq(Frames) /\ IsInjective(mru) /\ f \in Frames
    BY DEF LiveType, ListsMatchMap
  <2>2. /\ <<f>> \o mru \in Seq(Frames) /\ IsInjective(<<f>> \o mru)
        /\ Range(<<f>> \o mru) = Range(mru) \cup {f}
    BY <2>1, <1>4, PushedList
  <2> QED BY <2>1, <2>2
<1>6. /\ mfu' \in Seq(Frames) /\ IsInjective(mfu')
      /\ Range(mfu') = IF s = "MFU" THEN Range(mfu) \cup {f} ELSE Range(mfu)
  <2>1. mfu \in Seq(Frames) /\ IsInjective(mfu) /\ f \in Frames
    BY DEF LiveType, ListsMatchMap
  <2>2. /\ <<f>> \o mfu \in Seq(Frames) /\ IsInjective(<<f>> \o mfu)
        /\ Range(<<f>> \o mfu) = Range(mfu) \cup {f}
    BY <2>1, <1>4, PushedList
  <2> QED BY <2>1, <2>2
<1>7. LiveType'
  BY <1>2, <1>3, <1>5, <1>6 DEF LiveType
<1>8. ListsMatchMap'
  <2>1. Range(mru') = {g \in Alive' : aliveMap'[g].status = "MRU"}
    BY <1>1, <1>2, <1>3, <1>5 DEF ListsMatchMap
  <2>2. Range(mfu') = {g \in Alive' : aliveMap'[g].status = "MFU"}
    BY <1>1, <1>2, <1>3, <1>6 DEF ListsMatchMap
  <2> QED BY <2>1, <2>2, <1>5, <1>6 DEF ListsMatchMap
<1>9. Evictable' = Evictable
  BY <1>1, <1>2, <1>3 DEF Evictable
<1>10. NeverHangs'
  <2>1. IsFiniteSet(Alive \cup {f}) /\ Cardinality(Alive \cup {f}) <= Cardinality(Frames)
    BY FramesAssumption, FS_Subset DEF LiveType
  <2>2. Cardinality(Alive \cup {f}) \in Nat /\ Cardinality(Frames) \in Nat
    BY <2>1, FS_CardinalityType, FramesAssumption
  <2>3. ~(Cardinality(DOMAIN aliveMap') > ReplacerSize)
    BY <1>2, <2>1, <2>2, FramesAssumption
  <2> QED BY <2>3 DEF MustEvict, NeverHangs
<1> QED BY <1>3, <1>7, <1>8, <1>9, <1>10
    DEF CountMatches, R!RecordAccess, Done, R!Done

\* RecordAccess, whichever of its three cases applies.
LEMMA RecordAccessStep ==
  ASSUME IInv, NEW f \in Frames, NEW p \in Pages, RecordAccess(f, p)
  PROVE  IInv' /\ R!RecordAccess(f)
<1>1. CASE RecordHit(f)
  BY <1>1, RecordHitStep DEF RecordAccess
<1>2. CASE RecordGhostHit(f, p)
  <2>1. "MFU" \in Statuses /\ "MFU" # "MRU"
    BY DEF Statuses
  <2> QED BY <1>2, <2>1, TrackedStep DEF RecordGhostHit
<1>3. CASE RecordNew(f, p)
  <2>1. "MRU" \in Statuses /\ "MFU" # "MRU"
    BY DEF Statuses
  <2> QED BY <1>3, <2>1, TrackedStep DEF RecordNew, ghostVars
<1> QED BY <1>1, <1>2, <1>3 DEF RecordAccess

\* The early return of Evict is taken exactly when no frame is evictable.
LEMMA NothingToEvictMeans ==
  ASSUME IInv
  PROVE  NothingToEvict <=> Evictable = {}
<1> USE DEF IInv
<1>1. currSize = 0 <=> Evictable = {}
  BY LiveFinite, FS_EmptySet DEF CountMatches
<1>2. ASSUME Candidates(mru) = {}, Candidates(mfu) = {}, NEW f \in Evictable PROVE FALSE
  <2>1. f \in Alive /\ aliveMap[f].status \in Statuses /\ aliveMap[f].evictable
    BY DEF Evictable, LiveType, FrameStatus
  <2>2. f \in Range(mru) \/ f \in Range(mfu)
    BY <2>1 DEF ListsMatchMap, Statuses
  <2> QED BY <2>1, <2>2, <1>2 DEF Range, Candidates
<1> QED BY <1>1, <1>2 DEF NothingToEvict

\* The scan from the back of a list finds one of its evictable frames.
LEMMA OldestIsEvictable ==
  ASSUME NEW list \in Seq(Frames), Range(list) \subseteq Alive, Candidates(list) # {}
  PROVE  Oldest(list) \in Range(list) /\ Oldest(list) \in Evictable
<1>1. Candidates(list) \subseteq 1..Len(list) /\ Len(list) \in Nat
  BY DEF Candidates
<1>2. \E i \in Candidates(list) : \A j \in Candidates(list) : j <= i
  BY <1>1, LastPosition
<1>3. PICK i \in Candidates(list) : Oldest(list) = list[i]
  BY <1>2 DEF Oldest
<1> QED BY <1>3 DEF Candidates, Range, Evictable

\* Evict: the victim leaves its list, the map and the count together.
LEMMA EvictStep ==
  ASSUME IInv, Evict
  PROVE  IInv' /\ R!Evict
<1> USE DEF IInv
<1>1. CASE NothingToEvict
  <2>1. aliveMap' = aliveMap /\ currSize' = currSize /\ mru' = mru /\ mfu' = mfu
        /\ hung' = hung /\ reply' = Gives(NoFrame)
    BY <1>1 DEF Evict, listVars
  <2>2. Alive' = Alive /\ Evictable' = Evictable
    BY <2>1 DEF Alive, Evictable
  <2>3. Evictable = {}
    BY <1>1, NothingToEvictMeans
  <2> QED BY <2>1, <2>2, <2>3
      DEF LiveType, ListsMatchMap, CountMatches, NeverHangs, R!Evict, Gives, R!Gives
<1>2. CASE ~NothingToEvict
  <2> DEFINE f == Oldest(IF VictimList = "MRU" THEN mru ELSE mfu)
  <2>1. /\ MoveToGhost(f, VictimList) /\ reply' = Gives(f)
        /\ currSize' = currSize - 1 /\ hung' = hung
    BY <1>2 DEF Evict
  <2>2. VictimList \in {"MRU", "MFU"}
    BY DEF VictimList
  <2>3. /\ VictimList = "MRU" => Candidates(mru) # {}
        /\ VictimList = "MFU" => Candidates(mfu) # {}
    BY <1>2 DEF NothingToEvict, VictimList
  <2>4. f \in Evictable /\ aliveMap[f].status = VictimList
    <3>1. CASE VictimList = "MRU"
      BY <3>1, <2>3, OldestIsEvictable DEF LiveType, ListsMatchMap
    <3>2. CASE VictimList = "MFU"
      BY <3>2, <2>3, OldestIsEvictable DEF LiveType, ListsMatchMap
    <3> QED BY <3>1, <3>2, <2>2
  <2> HIDE DEF f
  <2>5. f \in Alive
    BY <2>4 DEF Evictable
  <2>6. /\ mru' = IF VictimList = "MRU" THEN Without(mru, f) ELSE mru
        /\ mfu' = IF VictimList = "MFU" THEN Without(mfu, f) ELSE mfu
        /\ aliveMap' = Erase(aliveMap, f)
    BY <2>1 DEF MoveToGhost
  <2>7. /\ aliveMap' \in [Alive \ {f} -> FrameStatus]
        /\ Alive' = Alive \ {f}
        /\ \A g \in Alive \ {f} : aliveMap'[g] = aliveMap[g]
    BY <2>6, EraseAlive DEF Alive
  <2>8. mru' \in Seq(Frames) /\ IsInjective(mru') /\ Range(mru') = Range(mru) \ {f}
    <3>1. CASE VictimList = "MRU"
      BY <3>1, <2>6, WithoutList DEF LiveType, ListsMatchMap
    <3>2. CASE VictimList # "MRU"
      BY <3>2, <2>4, <2>6 DEF LiveType, ListsMatchMap
    <3> QED BY <3>1, <3>2
  <2>9. mfu' \in Seq(Frames) /\ IsInjective(mfu') /\ Range(mfu') = Range(mfu) \ {f}
    <3>1. CASE VictimList = "MFU"
      BY <3>1, <2>6, WithoutList DEF LiveType, ListsMatchMap
    <3>2. CASE VictimList # "MFU"
      BY <3>2, <2>4, <2>6 DEF LiveType, ListsMatchMap
    <3> QED BY <3>1, <3>2
  <2>10. LiveType'
    BY <2>7, <2>8, <2>9 DEF LiveType
  <2>11. ListsMatchMap'
    <3>1. Range(mru') = {g \in Alive' : aliveMap'[g].status = "MRU"}
      BY <2>7, <2>8 DEF ListsMatchMap
    <3>2. Range(mfu') = {g \in Alive' : aliveMap'[g].status = "MFU"}
      BY <2>7, <2>9 DEF ListsMatchMap
    <3> QED BY <3>1, <3>2, <2>8, <2>9 DEF ListsMatchMap
  <2>12. Evictable' = Evictable \ {f}
    BY <2>7 DEF Evictable
  <2>13. CountMatches'
    BY <2>1, <2>4, <2>12, LiveFinite, FS_RemoveElement DEF CountMatches
  <2>14. NeverHangs'
    BY <2>1 DEF NeverHangs
  <2> QED BY <2>1, <2>4, <2>7, <2>10, <2>11, <2>12, <2>13, <2>14 DEF R!Evict, Gives, R!Gives
<1> QED BY <1>1, <1>2

\* Size answers the number of evictable frames and changes nothing.
LEMMA SizeStep ==
  ASSUME IInv, Size
  PROVE  IInv' /\ R!Size
<1>1. aliveMap' = aliveMap /\ currSize' = currSize /\ mru' = mru /\ mfu' = mfu
      /\ hung' = hung /\ reply' = Counts(currSize)
  BY DEF Size, listVars
<1>2. Alive' = Alive /\ Evictable' = Evictable
  BY <1>1 DEF Alive, Evictable
<1>3. R!Cardinality(Evictable) = Cardinality(Evictable)
  BY DEF R!Cardinality, Cardinality
<1> QED BY <1>1, <1>2, <1>3
    DEF IInv, LiveType, ListsMatchMap, CountMatches, NeverHangs, R!Size, Counts, R!Counts

\* A step of the replacer keeps the invariant and is a step of the contract, or
\* changes nothing.
LEMMA NextStep ==
  ASSUME IInv, [Next]_vars
  PROVE  IInv' /\ [R!Next]_(R!vars)
<1>1. ASSUME NEW f \in Frames, NEW p \in Pages, RecordAccess(f, p)
      PROVE  IInv' /\ [R!Next]_(R!vars)
  BY <1>1, RecordAccessStep DEF R!Next
<1>2. ASSUME NEW f \in Frames, NEW b \in BOOLEAN, SetEvictable(f, b)
      PROVE  IInv' /\ [R!Next]_(R!vars)
  BY <1>2, SetEvictableStep DEF R!Next
<1>3. CASE Evict
  BY <1>3, EvictStep DEF R!Next
<1>4. CASE Size
  BY <1>4, SizeStep DEF R!Next
<1>5. CASE UNCHANGED vars
  <2>1. aliveMap' = aliveMap /\ currSize' = currSize /\ mru' = mru /\ mfu' = mfu
        /\ hung' = hung /\ reply' = reply
    BY <1>5 DEF vars
  <2>2. Alive' = Alive /\ Evictable' = Evictable
    BY <2>1 DEF Alive, Evictable
  <2> QED BY <2>1, <2>2 DEF IInv, LiveType, ListsMatchMap, CountMatches, NeverHangs, R!vars
<1> QED BY <1>1, <1>2, <1>3, <1>4, <1>5 DEF Next

-----------------------------------------------------------------------------
(* The ghost lists                                                         *)

\* The first i elements of a list without p, g being the answer for fewer.
Piece(list, p, g, i) ==
    IF i = 0 THEN <<>>
    ELSE IF list[i] = p THEN g[i - 1] ELSE Append(g[i - 1], list[i])

\* The recursion of Purged ends: it goes from the back to the front.
LEMMA PurgedDefined ==
  ASSUME NEW S, NEW list \in Seq(S), NEW p
  PROVE  \E g : /\ g = [i \in 0..Len(list) |-> Piece(list, p, g, i)]
                /\ Purged(list, p) = g[Len(list)]
<1> DEFINE n == Len(list)
           D == 0..n
           Lists == Seq(S)
           rank == [i \in D |-> i]
           B == [f \in [D -> Lists] |-> [i \in D |-> Piece(list, p, f, i)]]
           Is(g) == g = [i \in D |-> Piece(list, p, g, i)]
<1>1. n \in Nat /\ Lists # {} /\ rank \in [D -> 0..n]
  <2>1. <<>> \in Lists
    OBVIOUS
  <2> QED BY <2>1
<1>2. ASSUME NEW f \in [D -> Lists], NEW i \in D
      PROVE  Piece(list, p, f, i) \in Lists
  <2>1. CASE i = 0
    BY <2>1 DEF Piece
  <2>2. CASE i # 0
    <3>1. i - 1 \in D /\ i \in 1..n
      BY <2>2
    <3>2. f[i - 1] \in Seq(S) /\ list[i] \in S
      BY <3>1
    <3>3. Append(f[i - 1], list[i]) \in Seq(S)
      BY ONLY <3>2, AppendFacts
    <3> QED BY <3>2, <3>3, <2>2 DEF Piece
  <2> QED BY <2>1, <2>2
<1>3. B \in [[D -> Lists] -> [D -> Lists]]
  BY <1>2
<1>4. ASSUME NEW f \in [D -> Lists], NEW g \in [D -> Lists], NEW i \in D, \A y \in D : rank[y] < rank[i] => f[y] = g[y]
      PROVE  B[f][i] = B[g][i]
  <2>1. i # 0 => i - 1 \in D /\ i - 1 < i
    BY <1>1
  <2>2. i # 0 => f[i - 1] = g[i - 1]
    BY <2>1, <1>4
  <2> QED BY <2>2 DEF Piece
<1> HIDE DEF B, rank, D, Lists
<1>5. Recursive(D, Lists, n, rank, B)
  BY <1>1, <1>3, <1>4 DEF Recursive
<1>6. \E f \in [D -> Lists] : f = B[f]
  BY <1>5, RankRecursion
<1>7. \E f : Is(f)
  BY <1>6 DEF B
<1>8. Is(CHOOSE g : Is(g))
  BY <1>7
<1>9. Purged(list, p) = (CHOOSE g : Is(g))[n]
  BY Zenon DEF Purged, Piece, D
<1> QED BY <1>8, <1>9 DEF D

\* Purged takes out every p and keeps the rest.
LEMMA PurgedList ==
  ASSUME NEW S, NEW list \in Seq(S), NEW p
  PROVE  /\ Purged(list, p) \in Seq(S)
         /\ Range(Purged(list, p)) = Range(list) \ {p}
<1>1. PICK n \in Nat : n = Len(list)
  OBVIOUS
<1>2. PICK g : g = [i \in 0..n |-> Piece(list, p, g, i)] /\ Purged(list, p) = g[n]
  BY <1>1, PurgedDefined
<1>3. g[0] = <<>>
  <2>1. 0 \in 0..n
    OBVIOUS
  <2>2. g[0] = Piece(list, p, g, 0)
    BY ONLY <1>2, <2>1, Zenon
  <2> QED BY <2>2 DEF Piece
<1>4. ASSUME NEW i \in 1..n
      PROVE  g[i] = IF list[i] = p THEN g[i - 1] ELSE Append(g[i - 1], list[i])
  <2>1. i \in 0..n /\ i # 0
    OBVIOUS
  <2>2. g[i] = Piece(list, p, g, i)
    BY ONLY <1>2, <2>1, Zenon
  <2> QED BY <2>1, <2>2 DEF Piece
<1> DEFINE Kept(i) == {list[j] : j \in 1..i} \ {p}
           T == {i \in Nat : i <= n => g[i] \in Seq(S) /\ Range(g[i]) = Kept(i)}
<1>5. 0 \in T
  <2>1. 1..0 = {} /\ <<>> \in Seq(S)
    OBVIOUS
  <2>2. Range(<<>>) = {}
    BY DEF Range
  <2>3. Kept(0) = {}
    BY <2>1
  <2> QED BY <2>1, <2>2, <2>3, <1>3
<1>6. ASSUME NEW i \in Nat, i \in T PROVE i + 1 \in T
  <2>1. SUFFICES ASSUME i + 1 <= n PROVE g[i + 1] \in Seq(S) /\ Range(g[i + 1]) = Kept(i + 1)
    OBVIOUS
  <2>2. g[i] \in Seq(S) /\ Range(g[i]) = Kept(i) /\ i + 1 \in 1..n /\ i + 1 - 1 = i
    BY <1>6, <2>1
  <2>3. list[i + 1] \in S
    BY <2>2, <1>1
  <2>4. Kept(i + 1) = Kept(i) \cup ({list[i + 1]} \ {p})
    <3>1. 1..(i + 1) = 1..i \cup {i + 1}
      OBVIOUS
    <3> QED BY <3>1
  <2>5. CASE list[i + 1] = p
    BY <2>2, <2>4, <2>5, <1>4
  <2>6. CASE list[i + 1] # p
    <3>1. PICK s \in Seq(S), e \in S : s = g[i] /\ e = list[i + 1]
      BY <2>2, <2>3
    <3>2. /\ Append(s, e) \in Seq(S) /\ Len(Append(s, e)) = Len(s) + 1
          /\ \A j \in 1..(Len(s) + 1) : Append(s, e)[j] = IF j <= Len(s) THEN s[j] ELSE e
      BY AppendFacts
    <3>3. PICK m \in Nat : m = Len(s)
      OBVIOUS
    <3>4. Range(s) = {s[j] : j \in 1..m}
      BY <3>3 DEF Range
    <3>5. Range(Append(s, e)) = {Append(s, e)[j] : j \in 1..(m + 1)}
      BY <3>2, <3>3 DEF Range
    <3>6. 1..(m + 1) = 1..m \cup {m + 1} /\ ~(m + 1 <= m)
      OBVIOUS
    <3>7. \A j \in 1..m : Append(s, e)[j] = s[j]
      BY ONLY <3>2, <3>3, <3>6
    <3>8. Append(s, e)[m + 1] = e
      BY ONLY <3>2, <3>3, <3>6
    <3>9. Range(Append(s, e)) = Range(s) \cup {e}
      <4>1. ASSUME NEW y \in Range(Append(s, e)) PROVE y \in Range(s) \cup {e}
        <5>1. PICK j \in 1..(m + 1) : y = Append(s, e)[j]
          BY ONLY <3>5, y \in Range(Append(s, e))
        <5>2. CASE j \in 1..m
          BY ONLY <5>1, <5>2, <3>4, <3>7
        <5>3. CASE j = m + 1
          BY ONLY <5>1, <5>3, <3>8
        <5> QED BY ONLY <5>2, <5>3, <3>6
      <4>2. ASSUME NEW y \in Range(s) PROVE y \in Range(Append(s, e))
        <5>1. PICK j \in 1..m : y = s[j]
          BY ONLY <3>4, y \in Range(s)
        <5> QED BY ONLY <5>1, <3>5, <3>6, <3>7
      <4>3. e \in Range(Append(s, e))
        BY ONLY <3>5, <3>6, <3>8
      <4> QED BY ONLY <4>1, <4>2, <4>3
    <3>10. g[i + 1] = Append(s, e)
      <4>1. PICK j \in 1..n : j = i + 1 /\ j - 1 = i
        BY ONLY <2>2, i \in Nat
      <4>2. g[j] = Append(g[j - 1], list[j])
        BY ONLY <4>1, <2>6, <1>4
      <4> QED BY ONLY <4>1, <4>2, <3>1
    <3>11. Kept(i + 1) = Kept(i) \cup {e}
      BY <3>1, <2>4, <2>6
    <3> HIDE DEF Kept
    <3> QED BY ONLY <3>1, <3>2, <3>9, <3>10, <3>11, <2>2
  <2> QED BY <2>5, <2>6
<1> HIDE DEF T
<1>7. n \in T
  BY <1>5, <1>6, SetInduction
<1>8. Range(list) = {list[j] : j \in 1..n}
  BY <1>1 DEF Range
<1> QED BY <1>2, <1>7, <1>8 DEF T
\* A page that was pushed onto a ghost list is in it.
LEMMA PushedGhost ==
  ASSUME NEW list \in Seq(Pages), NEW p \in Pages
  PROVE  <<p>> \o list \in Seq(Pages) /\ Range(<<p>> \o list) = Range(list) \cup {p}
<1> DEFINE L == <<p>> \o list
<1>1. PICK n \in Nat : n = Len(list)
  OBVIOUS
<1>2. L \in Seq(Pages) /\ DOMAIN L = 1..(n + 1) /\ L[1] = p /\ \A k \in 1..n : L[k + 1] = list[k]
  BY <1>1
<1>3. \A k \in 1..(n + 1) : k # 1 => k - 1 \in 1..n /\ L[k] = list[k - 1]
  BY <1>1
<1> HIDE DEF L
<1>4. Range(L) \subseteq Range(list) \cup {p}
  BY <1>1, <1>2, <1>3 DEF Range
<1>5. ASSUME NEW k \in 1..n PROVE list[k] \in Range(L)
  <2>1. k + 1 \in 1..(n + 1)
    OBVIOUS
  <2> QED BY <2>1, <1>2 DEF Range
<1>6. p \in Range(L)
  BY <1>2 DEF Range
<1>7. Range(list) \cup {p} \subseteq Range(L)
  BY <1>1, <1>5, <1>6 DEF Range
<1> QED BY <1>2, <1>4, <1>7 DEF L

\* The other half of the state: the types of the ghost lists and of their map,
\* which agree, of the target and of the answers.
GhostInv ==
    /\ mruGhost \in Seq(Pages) /\ mfuGhost \in Seq(Pages)
    /\ DOMAIN ghostMap \subseteq Pages
    /\ ghostMap \in [DOMAIN ghostMap -> {"MRU_GHOST", "MFU_GHOST"}]
    /\ GhostsListed
    /\ mruTargetSize \in 0..(SizeMod - 1)
    /\ reply \in Answers /\ hung \in BOOLEAN

\* A new target is a size_t.  The ghost list it divides by holds the page, so
\* it is not empty.
LEMMA TargetIsSize ==
  ASSUME GhostInv, NEW p \in DOMAIN ghostMap
  PROVE  TargetAfter(p) \in 0..(SizeMod - 1)
<1>1. PICK a \in Nat, b \in Nat, t \in Nat, m \in Nat :
         a = Len(mruGhost) /\ b = Len(mfuGhost) /\ t = mruTargetSize /\ m = SizeMod
  <2>1. Len(mruGhost) \in Nat /\ Len(mfuGhost) \in Nat
    BY DEF GhostInv
  <2>2. mruTargetSize \in Nat /\ SizeMod \in Nat
    BY NumbersAssumption DEF GhostInv
  <2> QED BY ONLY <2>1, <2>2
<1>2. m > 0 /\ ReplacerSize \in 0..(m - 1)
  BY <1>1, NumbersAssumption, FramesAssumption
<1>3. \A x \in Int : x % m \in 0..(m - 1)
  BY <1>2
<1>4. ASSUME NEW x \in Nat, NEW y \in Nat, y > 0 PROVE Ratio(x, y) \in Int
  <2>1. x \div y \in Int
    BY <1>4
  <2> QED BY <2>1 DEF Ratio
<1>5. ASSUME NEW list \in Seq(Pages), p \in Range(list) PROVE Len(list) > 0
  BY <1>5 DEF Range
<1>6. p \in Range(IF ghostMap[p] = "MRU_GHOST" THEN mruGhost ELSE mfuGhost)
  BY DEF GhostInv, GhostsListed
<1>7. CASE ghostMap[p] = "MRU_GHOST"
  <2>1. a > 0
    BY <1>1, <1>5, <1>6, <1>7 DEF GhostInv
  <2>2. PICK r \in Int : r = Ratio(b, a)
    BY <2>1, <1>4
  <2>3. (t + r) % m \in 0..(m - 1)
    BY <1>3
  <2>4. TargetAfter(p) = IF (t + r) % m < ReplacerSize THEN (t + r) % m ELSE ReplacerSize
    BY <1>1, <1>7, <2>2 DEF TargetAfter
  <2> QED BY ONLY <1>1, <1>2, <2>3, <2>4
<1>8. CASE ghostMap[p] # "MRU_GHOST"
  <2>1. b > 0
    BY <1>1, <1>5, <1>6, <1>8 DEF GhostInv
  <2>2. PICK r \in Int : r = Ratio(a, b)
    BY <2>1, <1>4
  <2>3. (t - r) % m \in 0..(m - 1)
    BY <1>3
  <2>4. TargetAfter(p) = (t - r) % m
    BY <1>1, <1>8, <2>2 DEF TargetAfter
  <2> QED BY ONLY <1>1, <2>3, <2>4
<1> QED BY <1>7, <1>8

\* A ghost hit takes the page out of the map and out of the list its entry is in.
LEMMA GhostHitKeeps ==
  ASSUME GhostInv, NEW f, NEW p, RecordGhostHit(f, p)
  PROVE  GhostInv'
<1> USE DEF GhostInv
<1>1. /\ p \in DOMAIN ghostMap /\ mruTargetSize' = TargetAfter(p)
      /\ mruGhost' = IF ghostMap[p] = "MRU_GHOST" THEN Purged(mruGhost, p) ELSE mruGhost
      /\ mfuGhost' = IF ghostMap[p] = "MFU_GHOST" THEN Purged(mfuGhost, p) ELSE mfuGhost
      /\ ghostMap' = Erase(ghostMap, p)
      /\ hung' = MustEvict(aliveMap') /\ reply' = Done
  BY DEF RecordGhostHit
<1>2. mruGhost' \in Seq(Pages) /\ Range(mruGhost) \ {p} \subseteq Range(mruGhost')
  BY <1>1, PurgedList
<1>3. mfuGhost' \in Seq(Pages) /\ Range(mfuGhost) \ {p} \subseteq Range(mfuGhost')
  BY <1>1, PurgedList
<1>4. DOMAIN ghostMap' = DOMAIN ghostMap \ {p} /\ \A q \in DOMAIN ghostMap \ {p} : ghostMap'[q] = ghostMap[q]
  BY <1>1 DEF Erase
<1>5. ghostMap' \in [DOMAIN ghostMap' -> {"MRU_GHOST", "MFU_GHOST"}]
  BY <1>1, <1>4 DEF Erase
<1>6. GhostsListed'
  <2>1. ASSUME NEW q \in DOMAIN ghostMap'
        PROVE  q \in Range(IF ghostMap'[q] = "MRU_GHOST" THEN mruGhost' ELSE mfuGhost')
    <3>1. q \in Range(IF ghostMap[q] = "MRU_GHOST" THEN mruGhost ELSE mfuGhost)
          /\ ghostMap'[q] = ghostMap[q] /\ q # p
      BY <1>4 DEF GhostsListed
    <3> QED BY ONLY <3>1, <1>2, <1>3
  <2> QED BY <2>1 DEF GhostsListed
<1>7. mruTargetSize' \in 0..(SizeMod - 1)
  BY <1>1, TargetIsSize
<1>8. reply' \in Answers /\ hung' \in BOOLEAN
  BY <1>1 DEF Answers, MustEvict
<1> QED BY <1>1, <1>2, <1>3, <1>4, <1>5, <1>6, <1>7, <1>8

\* An eviction puts the page of the victim into a ghost list and into the map.
LEMMA EvictKeepsGhosts ==
  ASSUME IInv, GhostInv, Evict
  PROVE  GhostInv'
<1>1. mruTargetSize' = mruTargetSize /\ hung' = hung
  BY DEF Evict
<1>2. CASE NothingToEvict
  <2>1. mruGhost' = mruGhost /\ mfuGhost' = mfuGhost /\ ghostMap' = ghostMap /\ reply' = Gives(NoFrame)
    BY <1>2 DEF Evict
  <2>2. reply' \in Answers
    BY <2>1 DEF Answers, Gives
  <2> QED BY <1>1, <2>1, <2>2 DEF GhostInv, GhostsListed
<1>3. CASE ~NothingToEvict
  <2>1. PICK list, f : /\ list = VictimList /\ f = Oldest(IF VictimList = "MRU" THEN mru ELSE mfu)
                       /\ MoveToGhost(f, list) /\ reply' = Gives(f)
    BY <1>3 DEF Evict
  <2>2. /\ list \in {"MRU", "MFU"}
        /\ list = "MRU" => Candidates(mru) # {}
        /\ list = "MFU" => Candidates(mfu) # {}
    BY <2>1, <1>3 DEF NothingToEvict, VictimList
  <2>3. f \in Evictable
    <3>1. CASE list = "MRU"
      BY <3>1, <2>1, <2>2, OldestIsEvictable DEF IInv, LiveType, ListsMatchMap
    <3>2. CASE list = "MFU"
      BY <3>2, <2>1, <2>2, OldestIsEvictable DEF IInv, LiveType, ListsMatchMap
    <3> QED BY <3>1, <3>2, <2>2
  <2>4. PICK page : page = aliveMap[f].page
    OBVIOUS
  <2>5. f \in Frames /\ page \in Pages
    BY <2>3, <2>4 DEF IInv, LiveType, FrameStatus, Evictable
  <2>6. /\ mruGhost' = IF list = "MRU" THEN <<page>> \o mruGhost ELSE mruGhost
        /\ mfuGhost' = IF list = "MFU" THEN <<page>> \o mfuGhost ELSE mfuGhost
        /\ ghostMap' = Put(ghostMap, page, IF list = "MRU" THEN "MRU_GHOST" ELSE "MFU_GHOST")
    BY <2>1, <2>4 DEF MoveToGhost
  <2>7. /\ mruGhost \in Seq(Pages) /\ mfuGhost \in Seq(Pages) /\ DOMAIN ghostMap \subseteq Pages
        /\ ghostMap \in [DOMAIN ghostMap -> {"MRU_GHOST", "MFU_GHOST"}]
    BY DEF GhostInv
  <2>8. /\ mruGhost' \in Seq(Pages) /\ Range(mruGhost) \subseteq Range(mruGhost')
        /\ list = "MRU" => page \in Range(mruGhost')
    BY <2>5, <2>6, <2>7, PushedGhost
  <2>9. /\ mfuGhost' \in Seq(Pages) /\ Range(mfuGhost) \subseteq Range(mfuGhost')
        /\ list = "MFU" => page \in Range(mfuGhost')
    BY <2>2, <2>5, <2>6, <2>7, PushedGhost
  <2>10. PICK v \in {"MRU_GHOST", "MFU_GHOST"} : v = IF list = "MRU" THEN "MRU_GHOST" ELSE "MFU_GHOST"
    OBVIOUS
  <2>11. /\ DOMAIN ghostMap' = DOMAIN ghostMap \cup {page}
         /\ ghostMap'[page] = v
         /\ \A q \in DOMAIN ghostMap \ {page} : ghostMap'[q] = ghostMap[q]
    BY <2>6, <2>10 DEF Put
  <2>12. ghostMap' \in [DOMAIN ghostMap' -> {"MRU_GHOST", "MFU_GHOST"}]
    BY <2>6, <2>7, <2>10, <2>11 DEF Put
  <2>13. GhostsListed'
    <3>1. ASSUME NEW q \in DOMAIN ghostMap'
          PROVE  q \in Range(IF ghostMap'[q] = "MRU_GHOST" THEN mruGhost' ELSE mfuGhost')
      <4>1. CASE q = page
        BY ONLY <4>1, <2>2, <2>8, <2>9, <2>10, <2>11
      <4>2. CASE q # page
        <5>1. q \in Range(IF ghostMap[q] = "MRU_GHOST" THEN mruGhost ELSE mfuGhost)
              /\ ghostMap'[q] = ghostMap[q]
          BY <4>2, <2>11 DEF GhostInv, GhostsListed
        <5> QED BY ONLY <5>1, <2>8, <2>9
      <4> QED BY ONLY <4>1, <4>2
    <3> QED BY <3>1 DEF GhostsListed
  <2>14. reply' \in Answers
    BY <2>1, <2>5 DEF Answers, Gives
  <2>15. DOMAIN ghostMap' \subseteq Pages
    BY <2>5, <2>7, <2>11
  <2> QED BY <1>1, <2>8, <2>9, <2>12, <2>13, <2>14, <2>15 DEF GhostInv
<1> QED BY <1>2, <1>3

\* Every call keeps the other half of the invariant.
LEMMA GhostStep ==
  ASSUME IInv, GhostInv, [Next]_vars
  PROVE  GhostInv'
<1>1. ASSUME UNCHANGED ghostVars, reply' \in Answers, hung' \in BOOLEAN
      PROVE  GhostInv'
  <2>1. mruGhost' = mruGhost /\ mfuGhost' = mfuGhost /\ ghostMap' = ghostMap /\ mruTargetSize' = mruTargetSize
    BY <1>1 DEF ghostVars
  <2> QED BY <1>1, <2>1 DEF GhostInv, GhostsListed
<1>2. Done \in Answers /\ Throws \in Answers
  BY DEF Answers
<1>3. ASSUME NEW f \in Frames, NEW p \in Pages, RecordAccess(f, p)
      PROVE  GhostInv'
  <2>1. CASE RecordHit(f)
    BY <2>1, <1>1, <1>2 DEF RecordHit, GhostInv
  <2>2. CASE RecordGhostHit(f, p)
    BY <2>2, GhostHitKeeps
  <2>3. CASE RecordNew(f, p)
    <3>1. UNCHANGED ghostVars /\ reply' = Done /\ hung' = MustEvict(aliveMap')
      BY <2>3 DEF RecordNew
    <3> QED BY <3>1, <1>1, <1>2 DEF MustEvict
  <2> QED BY <1>3, <2>1, <2>2, <2>3 DEF RecordAccess
<1>4. ASSUME NEW f \in Frames, NEW b \in BOOLEAN, SetEvictable(f, b)
      PROVE  GhostInv'
  <2>1. UNCHANGED ghostVars /\ reply' \in {Done, Throws} /\ hung' = hung
    BY <1>4 DEF SetEvictable
  <2> QED BY <2>1, <1>1, <1>2 DEF GhostInv
<1>5. CASE Evict
  BY <1>5, EvictKeepsGhosts
<1>6. CASE Size
  <2>1. UNCHANGED ghostVars /\ reply' = Counts(currSize) /\ hung' = hung
    BY <1>6 DEF Size
  <2>2. currSize \in Nat
    BY LiveFinite DEF IInv, CountMatches
  <2>3. reply' \in Answers
    BY <2>1, <2>2 DEF Answers, Counts
  <2> QED BY <2>1, <2>3, <1>1 DEF GhostInv
<1>7. CASE UNCHANGED vars
  BY <1>7, <1>1 DEF vars, ghostVars, GhostInv
<1> QED BY <1>3, <1>4, <1>5, <1>6, <1>7 DEF Next

-----------------------------------------------------------------------------
(* The theorems                                                            *)

\* The invariant holds for ever.
THEOREM Invariance == Spec => []IInv
<1>1. Init => IInv
  BY InitIInv
<1>2. IInv /\ [Next]_vars => IInv'
  BY NextStep
<1> QED BY <1>1, <1>2, PTL DEF Spec

\* The lists and the map of tracked frames always tell the same story, so that
\* Evict() only ever dereferences frames that are in alive_map_.
THEOREM ListsAlwaysMatchMap == Spec => []ListsMatchMap
<1>1. IInv => ListsMatchMap
  BY DEF IInv
<1> QED BY <1>1, Invariance, PTL

\* curr_size_ is always the number of evictable frames.
THEOREM CountAlwaysMatches == Spec => []CountMatches
<1>1. IInv => CountMatches
  BY DEF IInv
<1> QED BY <1>1, Invariance, PTL

\* No RecordAccess ever reaches the Evict() that would wait for its own latch.
THEOREM NeverHangsEver == Spec => []NeverHangs
<1>1. IInv => NeverHangs
  BY DEF IInv
<1> QED BY <1>1, Invariance, PTL

\* The adaptive replacer implements the contract the buffer pool is written
\* against: each call answers what Replacer.tla allows.
THEOREM ArcImplementsReplacer == Spec => ImplementsReplacer
<1>1. Init => R!Init
  BY InitIInv
<1>2. IInv /\ [Next]_vars => [R!Next]_(R!vars)
  BY NextStep
<1> QED BY <1>1, <1>2, Invariance, PTL DEF Spec, R!Spec, ImplementsReplacer

\* Both halves of the invariant hold for ever.
THEOREM GhostInvariance == Spec => [](IInv /\ GhostInv)
<1>1. Init => IInv /\ GhostInv
  <2> SUFFICES ASSUME Init PROVE IInv /\ GhostInv
    OBVIOUS
  <2>1. 0 \in 0..(SizeMod - 1)
    BY NumbersAssumption, FramesAssumption
  <2>2. ghostMap = [p \in {} |-> 0] /\ DOMAIN ghostMap = {} /\ ghostMap \in [{} -> {"MRU_GHOST", "MFU_GHOST"}]
    BY DEF Init
  <2>3. GhostsListed
    BY <2>2 DEF GhostsListed
  <2>4. reply \in Answers /\ hung \in BOOLEAN /\ mruTargetSize \in 0..(SizeMod - 1)
    BY <2>1 DEF Init, Answers
  <2>5. mruGhost \in Seq(Pages) /\ mfuGhost \in Seq(Pages)
    BY DEF Init
  <2>6. DOMAIN ghostMap \subseteq Pages /\ ghostMap \in [DOMAIN ghostMap -> {"MRU_GHOST", "MFU_GHOST"}]
    BY ONLY <2>2
  <2> QED BY <2>3, <2>4, <2>5, <2>6, InitIInv DEF GhostInv
<1>2. IInv /\ GhostInv /\ [Next]_vars => IInv' /\ GhostInv'
  BY NextStep, GhostStep
<1> QED BY <1>1, <1>2, PTL DEF Spec

\* Every variable has its type: the target p stays a size_t, also when it wraps.
THEOREM TypeCorrect == Spec => []TypeOK
<1>1. IInv /\ GhostInv => TypeOK
  <2> SUFFICES ASSUME IInv, GhostInv PROVE TypeOK
    OBVIOUS
  <2>1. currSize \in Nat
    BY LiveFinite DEF IInv, CountMatches
  <2> QED BY <2>1 DEF IInv, LiveType, GhostInv, TypeOK
<1> QED BY <1>1, GhostInvariance, PTL

\* A page of ghost_map_ is always in the ghost list its status names, so that a
\* ghost hit never divides by the length of an empty list.
THEOREM GhostsAlwaysListed == Spec => []GhostsListed
<1>1. GhostInv => GhostsListed
  BY DEF GhostInv
<1> QED BY <1>1, GhostInvariance, PTL
=============================================================================
