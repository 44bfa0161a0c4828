----------------------------- MODULE JoinProofs -----------------------------
(***************************************************************************)
(* Proofs about Join, for all tables, block sizes and numbers of frames:   *)
(* results_ never holds a wrong pair or a pair twice, a join that returns  *)
(* has found them all, and it is refused a page only when the frames are   *)
(* too few or the right table is empty.                                    *)
(***************************************************************************)
EXTENDS Join, FiniteSetTheorems, TLAPS

-----------------------------------------------------------------------------
(* The inductive invariant                                                 *)

\* The arguments are legal ones.
ArgumentsOK ==
    /\ left \in LeftTables /\ right \in RightTables
    /\ blockSize \in BlockSizes /\ frames \in FrameCounts

\* The position of the first row of the block.
First == curr - Len(block)

\* The block is the run of rows that ends before left_curr_rid.
BlockIsRun ==
    /\ First >= 1
    /\ \A n \in 1..Len(block) : block[n] = First + n - 1

\* The pairs the executor has compared so far.
Decided(l, r) ==
    \/ l < First
    \/ pc \in {"block", "done"} /\ l < curr
    \/ pc \in {"scan", "match"} /\ l < curr /\ r < rcurr
    \/ pc = "match" /\ r = rcurr /\ l < First + item - 1

\* Of those, the matching ones are the result.
ResultsExact ==
    pc # "threw" =>
        \A l \in 1..Len(left), r \in 1..Len(right) :
            <<l, r>> \in ToSet(results) <=> Matching(l, r) /\ Decided(l, r)

\* Where the loops are: an empty block has not turned a page, a block that is
\* joined or compared is not empty, and the join returns at the end of the left
\* table, except that with block_size zero it has nothing to do.
LoopsOK ==
    /\ pc = "load" /\ block = <<>> => count = 1 /\ curr <= Len(left)
    /\ pc = "match" => rcurr <= Len(right)
    /\ pc = "done" /\ blockSize # 0 => curr > Len(left)
    /\ blockSize = 0 =>
          results = <<>> /\ pc \notin {"scan", "match"} /\ (pc = "load" => block = <<>>)

\* The guards on the left side are no more than the pages counted.
PagesCounted ==
    /\ IsFiniteSet(kept) /\ Cardinality(kept) < count
    /\ pc \in {"block", "load"} => rightGuard = NoPage
    /\ pc = "block" => kept = {} /\ leftGuard = NoPage

IInv ==
    ArgumentsOK /\ TypeOK /\ BlockIsRun /\ PairsOnce /\ ResultsExact
    /\ LoopsOK /\ PagesCounted /\ NeverRefused

-----------------------------------------------------------------------------
(* Lemmas                                                                  *)

\* The lengths of the tables and the numbers are naturals.
LEMMA ArgumentsType ==
  ASSUME ArgumentsOK
  PROVE  Len(left) \in Nat /\ Len(right) \in Nat /\ blockSize \in Nat /\ frames \in Nat
BY TablesAssumption, SizesAssumption DEF ArgumentsOK

\* Appending an element adds it to the elements of the sequence; if it is new,
\* no element is there twice.
LEMMA AppendElement ==
  ASSUME NEW S, NEW s \in Seq(S), NEW x \in S
  PROVE  /\ Append(s, x) \in Seq(S)
         /\ Len(Append(s, x)) = Len(s) + 1
         /\ \A n \in 1..Len(s) : Append(s, x)[n] = s[n]
         /\ Append(s, x)[Len(s) + 1] = x
         /\ ToSet(Append(s, x)) = ToSet(s) \cup {x}
<1> DEFINE t == Append(s, x)
<1>1. t \in Seq(S) /\ Len(t) = Len(s) + 1 /\ Len(s) \in Nat
  OBVIOUS
<1>2. (\A n \in 1..Len(s) : t[n] = s[n]) /\ t[Len(s) + 1] = x
  OBVIOUS
<1>3. DOMAIN t = 1..(Len(s) + 1) /\ DOMAIN s = 1..Len(s)
  BY <1>1
<1> HIDE DEF t
<1>4. ToSet(t) = ToSet(s) \cup {x}
  <2>1. ASSUME NEW n \in DOMAIN t PROVE t[n] \in ToSet(s) \cup {x}
    BY <1>1, <1>2, <1>3 DEF ToSet
  <2>2. ASSUME NEW n \in DOMAIN s PROVE s[n] \in ToSet(t)
    BY <1>1, <1>2, <1>3 DEF ToSet
  <2>3. x \in ToSet(t)
    BY <1>1, <1>2, <1>3 DEF ToSet
  <2> QED BY <2>1, <2>2, <2>3 DEF ToSet
<1> QED BY <1>1, <1>2, <1>4 DEF t

\* A guard more is at most a page more.
LEMMA HeldCount ==
  ASSUME IsFiniteSet(kept)
  PROVE  /\ Cardinality(kept) \in Nat
         /\ Cardinality(kept \cup {leftGuard}) <= Cardinality(kept) + 1
         /\ IsFiniteSet(kept \cup {leftGuard}) /\ Cardinality(kept \cup {leftGuard}) \in Nat
         /\ Cardinality(Held) \in Nat
         /\ Cardinality(Held) <= Cardinality(kept) + 2
         /\ rightGuard = NoPage => Cardinality(Held) <= Cardinality(kept) + 1
<1> DEFINE L == kept \cup {leftGuard}
           B == L \cup {rightGuard}
<1>1. IsFiniteSet(L) /\ Cardinality(kept) \in Nat /\ Cardinality(L) \in Nat
      /\ Cardinality(L) <= Cardinality(kept) + 1
  BY FS_AddElement, FS_CardinalityType
<1> HIDE DEF L
<1>2. IsFiniteSet(B) /\ Cardinality(B) \in Nat /\ Cardinality(B) <= Cardinality(L) + 1
  <2>1. IsFiniteSet(B) /\ Cardinality(B) = IF rightGuard \in L THEN Cardinality(L) ELSE Cardinality(L) + 1
    BY <1>1, FS_AddElement
  <2> QED BY <1>1, <2>1, FS_CardinalityType
<1>3. Held \subseteq B /\ (rightGuard = NoPage => Held \subseteq L)
  BY DEF Held, L
<1>4. Cardinality(Held) \in Nat /\ Cardinality(Held) <= Cardinality(B)
      /\ (rightGuard = NoPage => Cardinality(Held) <= Cardinality(L))
  BY <1>1, <1>2, <1>3, FS_Subset, FS_CardinalityType
<1> QED BY <1>1, <1>2, <1>4 DEF L

\* The invariant holds initially.
LEMMA InitIInv == Init => IInv
<1> SUFFICES ASSUME Init PROVE IInv
  OBVIOUS
<1>1. ArgumentsOK
  BY DEF Init, ArgumentsOK
<1>2. Len(left) \in Nat /\ Len(right) \in Nat /\ blockSize \in Nat
  BY <1>1, ArgumentsType
<1>3. TypeOK /\ BlockIsRun /\ LoopsOK /\ NeverRefused
  BY <1>2 DEF Init, TypeOK, BlockIsRun, First, LoopsOK, NeverRefused
<1>4. PairsOnce /\ ResultsExact
  BY <1>2 DEF Init, PairsOnce, ResultsExact, Decided, First, ToSet
<1>5. PagesCounted
  BY FS_EmptySet DEF Init, PagesCounted
<1> QED BY <1>1, <1>3, <1>4, <1>5 DEF IInv

\* The exception ends the join with what was found; it needs a reason.
LEMMA ThrowStep ==
  ASSUME IInv, Throw, right = <<>> \/ frames < blockSize + 3
  PROVE  IInv'
<1> USE DEF IInv, Throw, args
<1>1. ArgumentsOK' /\ NeverRefused'
  BY DEF ArgumentsOK, NeverRefused
<1>2. TypeOK' /\ BlockIsRun'
  BY ArgumentsType DEF TypeOK, BlockIsRun, First
<1>3. PairsOnce' /\ ResultsExact'
  BY DEF PairsOnce, ResultsExact, Matching
<1>4. LoopsOK'
  BY DEF LoopsOK
<1>5. PagesCounted'
  BY FS_EmptySet DEF PagesCounted, TypeOK
<1> QED BY <1>1, <1>2, <1>3, <1>4, <1>5

-----------------------------------------------------------------------------
(* The steps                                                               *)

\* Finish, StartBlock and GiveUp decide no pair.
LEMMA FinishStep ==
  ASSUME IInv, Finish
  PROVE  IInv'
<1> USE DEF IInv, Finish, args, leftVars, rightVars
<1>1. ArgumentsOK' /\ NeverRefused'
  BY DEF ArgumentsOK, NeverRefused
<1>2. TypeOK' /\ BlockIsRun'
  BY ArgumentsType DEF TypeOK, BlockIsRun, First
<1>3. PairsOnce' /\ ResultsExact'
  BY DEF PairsOnce, ResultsExact, Matching, Decided, First
<1>4. LoopsOK' /\ PagesCounted'
  BY DEF LoopsOK, PagesCounted
<1> QED BY <1>1, <1>2, <1>3, <1>4

\* A new block starts where the last one ended, with one page guarded.
LEMMA StartBlockStep ==
  ASSUME IInv, StartBlock
  PROVE  IInv'
<1>0. Len(left) \in Nat /\ Len(right) \in Nat /\ blockSize \in Nat /\ frames \in Nat
  BY ArgumentsType DEF IInv
<1>1. Held = {} /\ Cardinality(Held) = 0
  BY FS_EmptySet DEF IInv, PagesCounted, StartBlock, Held
<1>2. CASE ~Fits(Held)
  BY <1>0, <1>1, <1>2, ThrowStep DEF StartBlock, Fits
<1>3. CASE Fits(Held)
  <2> USE <1>3 DEF IInv, StartBlock, args, rightVars
  <2>1. ArgumentsOK' /\ NeverRefused'
    BY DEF ArgumentsOK, NeverRefused
  <2>2. TypeOK' /\ BlockIsRun'
    BY <1>0 DEF TypeOK, BlockIsRun, First
  <2>3. PairsOnce'
    BY DEF PairsOnce, Matching
  <2>4. ResultsExact'
    <3> SUFFICES ASSUME NEW l \in 1..Len(left), NEW r \in 1..Len(right)
                 PROVE  Decided(l, r)' <=> Decided(l, r)
      BY DEF ResultsExact, Matching
    <3>1. Decided(l, r)' <=> l < curr
      BY <1>0 DEF Decided, First, TypeOK
    <3>2. Decided(l, r) <=> l < curr
      BY <1>0 DEF Decided, First, TypeOK, BlockIsRun
    <3> QED BY <3>1, <3>2
  <2>5. LoopsOK' /\ PagesCounted'
    BY FS_EmptySet DEF LoopsOK, PagesCounted
  <2> QED BY <2>1, <2>2, <2>3, <2>4, <2>5
<1> QED BY <1>2, <1>3

\* A block stays empty only with block_size zero.
LEMMA GiveUpStep ==
  ASSUME IInv, GiveUp
  PROVE  IInv'
<1>0. Len(left) \in Nat /\ Len(right) \in Nat /\ blockSize \in Nat /\ frames \in Nat
  BY ArgumentsType DEF IInv
<1> USE DEF IInv, GiveUp, BlockFull, NothingLoaded, DropAll, args
<1>1. ArgumentsOK' /\ NeverRefused'
  BY DEF ArgumentsOK, NeverRefused
<1>2. TypeOK' /\ BlockIsRun'
  BY <1>0 DEF TypeOK, BlockIsRun, First
<1>3. PairsOnce'
  BY DEF PairsOnce, Matching
<1>4. ResultsExact'
  <2> SUFFICES ASSUME NEW l \in 1..Len(left), NEW r \in 1..Len(right)
               PROVE  Decided(l, r)' <=> Decided(l, r)
    BY DEF ResultsExact, Matching
  <2> QED BY <1>0 DEF Decided, First, TypeOK
<1>5. LoopsOK'
  BY <1>0 DEF LoopsOK, Room, TypeOK
<1>6. PagesCounted'
  BY FS_EmptySet, <1>0 DEF PagesCounted, TypeOK
<1> QED BY <1>1, <1>2, <1>3, <1>4, <1>5, <1>6

\* The block grows by the row after it; a row is decided when it is compared.
LEMMA LoadRowStep ==
  ASSUME IInv, LoadRow
  PROVE  IInv'
<1>0. Len(left) \in Nat /\ Len(right) \in Nat /\ blockSize \in Nat /\ frames \in Nat
  BY ArgumentsType DEF IInv
<1>1. /\ pc = "load" /\ count <= blockSize /\ curr <= Len(left)
      /\ curr \in 1..Len(left) /\ count \in Nat /\ count >= 1
      /\ block \in Seq(1..Len(left)) /\ item \in Nat /\ rightGuard = NoPage
      /\ IsFiniteSet(kept) /\ Cardinality(kept) < count
  BY <1>0 DEF IInv, LoadRow, Room, TypeOK, PagesCounted
<1>2. /\ Cardinality(Held) \in Nat /\ Cardinality(Held) <= count
      /\ Cardinality(kept) \in Nat
      /\ IsFiniteSet(kept \cup {leftGuard}) /\ Cardinality(kept \cup {leftGuard}) \in Nat
      /\ Cardinality(kept \cup {leftGuard}) <= Cardinality(kept) + 1
  BY <1>1, HeldCount
<1>3. CASE Turned /\ ~Fits(Held)
  <2>1. Throw
    BY <1>3 DEF LoadRow
  <2>2. frames <= Cardinality(Held)
    BY <1>0, <1>2, <1>3 DEF Fits
  <2> QED BY <1>0, <1>1, <1>2, <2>1, <2>2, ThrowStep
<1>4. CASE ~(Turned /\ ~Fits(Held))
  <2> DEFINE c == IF Turned THEN count + 1 ELSE count
  <2>1. /\ kept' = IF Turned THEN kept \cup {leftGuard} ELSE kept
        /\ count' = c
        /\ block' = Append(block, curr)
        /\ curr' = curr + 1
        /\ UNCHANGED <<args, pc, rightVars, results>>
    BY <1>4 DEF LoadRow, Taken, NextLeft
  <2>2. /\ block' \in Seq(1..Len(left)) /\ Len(block') = Len(block) + 1
        /\ \A n \in 1..Len(block) : block'[n] = block[n]
        /\ block'[Len(block) + 1] = curr
    BY <2>1, <1>1, AppendElement
  <2>3. First' = First /\ Len(block) \in Nat
    BY <2>1, <2>2, <1>1 DEF First
  <2> USE DEF IInv, args, rightVars
  <2>4. ArgumentsOK' /\ NeverRefused'
    BY <2>1 DEF ArgumentsOK, NeverRefused
  <2>5. TypeOK'
    BY <1>0, <1>1, <2>1, <2>2 DEF TypeOK
  <2>6. BlockIsRun'
    <3>1. First >= 1 /\ curr = First + Len(block)
      BY <1>1, <2>3 DEF BlockIsRun, First
    <3>2. ASSUME NEW n \in 1..Len(block') PROVE block'[n] = First + n - 1
      <4>1. CASE n \in 1..Len(block)
        BY <4>1, <2>2 DEF BlockIsRun
      <4>2. CASE n = Len(block) + 1
        BY <4>2, <3>1, <2>2, <2>3, <1>1 DEF First
      <4> QED BY <4>1, <4>2, <2>2, <2>3
    <3> QED BY <3>1, <3>2, <2>3 DEF BlockIsRun
  <2>7. PairsOnce'
    BY <2>1 DEF PairsOnce, Matching
  <2>8. ResultsExact'
    BY <1>1, <2>1, <2>3 DEF ResultsExact, Matching, Decided
  <2>9. LoopsOK'
    <3>1. block' # <<>>
      BY <2>2, <2>3
    <3>2. blockSize # 0
      BY <1>0, <1>1
    <3> QED BY <1>1, <2>1, <3>1, <3>2 DEF LoopsOK
  <2>10. PagesCounted'
    BY <1>1, <1>2, <2>1 DEF PagesCounted
  <2> QED BY <2>4, <2>5, <2>6, <2>7, <2>8, <2>9, <2>10
<1> QED BY <1>3, <1>4

\* The scan starts with nothing compared, and only for a block with rows in it.
LEMMA StartScanStep ==
  ASSUME IInv, StartScan
  PROVE  IInv'
<1>0. Len(left) \in Nat /\ Len(right) \in Nat /\ blockSize \in Nat /\ frames \in Nat
  BY ArgumentsType DEF IInv
<1>1. pc = "load" /\ block # <<>> /\ rightGuard = NoPage /\ IsFiniteSet(kept)
      /\ Cardinality(kept) < count /\ count \in 1..(blockSize + 1)
  BY DEF IInv, StartScan, BlockFull, NothingLoaded, PagesCounted, TypeOK
<1>2. CASE ~(right # <<>> /\ Fits(Held))
  <2>1. Throw
    BY <1>2 DEF StartScan
  <2>2. Cardinality(Held) \in Nat /\ Cardinality(Held) <= blockSize + 1
    BY <1>0, <1>1, HeldCount
  <2>3. right = <<>> \/ frames < blockSize + 3
    BY <1>0, <1>2, <2>2 DEF Fits
  <2> QED BY <2>1, <2>3, ThrowStep
<1>3. CASE right # <<>> /\ Fits(Held)
  <2> USE <1>3 DEF IInv, StartScan, args, leftVars
  <2>1. ArgumentsOK' /\ NeverRefused'
    BY DEF ArgumentsOK, NeverRefused
  <2>2. TypeOK' /\ BlockIsRun'
    BY <1>0 DEF TypeOK, BlockIsRun, First
  <2>3. PairsOnce'
    BY DEF PairsOnce, Matching
  <2>4. ResultsExact'
    <3> SUFFICES ASSUME NEW l \in 1..Len(left), NEW r \in 1..Len(right)
                 PROVE  Decided(l, r)' <=> Decided(l, r)
      BY <1>1 DEF ResultsExact, Matching
    <3> QED BY <1>0, <1>1 DEF Decided, First, TypeOK
  <2>5. LoopsOK'
    BY <1>0, <1>1 DEF LoopsOK
  <2>6. PagesCounted'
    BY DEF PagesCounted
  <2> QED BY <2>1, <2>2, <2>3, <2>4, <2>5, <2>6
<1> QED BY <1>2, <1>3

\* A row of the right table is next; nothing of it has been compared yet.
LEMMA ReadRightStep ==
  ASSUME IInv, ReadRight
  PROVE  IInv'
<1>0. Len(left) \in Nat /\ Len(right) \in Nat /\ blockSize \in Nat /\ frames \in Nat
  BY ArgumentsType DEF IInv
<1>1. pc = "scan" /\ rcurr <= Len(right) /\ IsFiniteSet(kept)
      /\ Cardinality(kept) < count /\ count \in 1..(blockSize + 1)
  BY DEF IInv, ReadRight, PagesCounted, TypeOK
<1>2. CASE ~(rightGuard = right[rcurr].page \/ Fits(Held))
  <2>1. Throw
    BY <1>2 DEF ReadRight
  <2>2. Cardinality(Held) \in Nat /\ Cardinality(Held) <= blockSize + 2
    BY <1>0, <1>1, HeldCount
  <2>3. frames < blockSize + 3
    BY <1>0, <1>2, <2>2 DEF Fits
  <2> QED BY <2>1, <2>3, ThrowStep
<1>3. CASE rightGuard = right[rcurr].page \/ Fits(Held)
  <2> USE <1>3 DEF IInv, ReadRight, args, leftVars
  <2>1. ArgumentsOK' /\ NeverRefused'
    BY DEF ArgumentsOK, NeverRefused
  <2>2. TypeOK' /\ BlockIsRun'
    <3>1. Len(block) \in Nat /\ block' = block /\ item' = 1 /\ pc' = "match"
      BY DEF TypeOK
    <3>2. BlockIsRun'
      BY DEF BlockIsRun, First
    <3>3. TypeOK'
      BY <3>1 DEF TypeOK
    <3> QED BY <3>2, <3>3
  <2>3. PairsOnce'
    BY DEF PairsOnce, Matching
  <2>4. ResultsExact'
    <3> SUFFICES ASSUME NEW l \in 1..Len(left), NEW r \in 1..Len(right)
                 PROVE  Decided(l, r)' <=> Decided(l, r)
      BY <1>1 DEF ResultsExact, Matching
    <3> QED BY <1>0, <1>1 DEF Decided, First, TypeOK
  <2>5. LoopsOK' /\ PagesCounted'
    BY <1>1 DEF LoopsOK, PagesCounted
  <2> QED BY <2>1, <2>2, <2>3, <2>4, <2>5
<1> QED BY <1>2, <1>3

\* A comparison decides one pair more; if it matches it is new in the result.
LEMMA CompareStep ==
  ASSUME IInv, Compare
  PROVE  IInv'
<1>0. Len(left) \in Nat /\ Len(right) \in Nat /\ blockSize \in Nat /\ frames \in Nat
  BY ArgumentsType DEF IInv
<1> DEFINE x == First + item - 1
<1>1. /\ pc = "match" /\ item \in 1..Len(block) /\ rcurr \in 1..Len(right)
      /\ Len(block) \in Nat /\ curr \in 1..(Len(left) + 1) /\ First = curr - Len(block)
      /\ First \in 1..(Len(left) + 1) /\ blockSize # 0
  BY <1>0 DEF IInv, Compare, TypeOK, BlockIsRun, First, LoopsOK
<1>2. block[item] = x /\ x \in 1..Len(left) /\ x < curr
  BY <1>0, <1>1 DEF IInv, BlockIsRun
<1>3. /\ results' = IF Matching(x, rcurr) THEN Append(results, <<x, rcurr>>) ELSE results
      /\ item' = item + 1
      /\ UNCHANGED <<args, pc, leftVars, rcurr, rightGuard>>
  BY <1>2 DEF Compare
<1>4. ~Decided(x, rcurr)
  BY <1>0, <1>1, <1>2 DEF Decided
<1>5. <<x, rcurr>> \notin ToSet(results)
  BY <1>1, <1>2, <1>4 DEF IInv, ResultsExact
<1>6. results \in Seq((1..Len(left)) \X (1..Len(right)))
      /\ <<x, rcurr>> \in (1..Len(left)) \X (1..Len(right))
  BY <1>1, <1>2 DEF IInv, TypeOK
<1> HIDE DEF x
<1>7. Matching(x, rcurr) =>
        /\ results' \in Seq((1..Len(left)) \X (1..Len(right)))
        /\ Len(results') = Len(results) + 1
        /\ \A n \in 1..Len(results) : results'[n] = results[n]
        /\ results'[Len(results) + 1] = <<x, rcurr>>
        /\ ToSet(results') = ToSet(results) \cup {<<x, rcurr>>}
  <2> DEFINE S == (1..Len(left)) \X (1..Len(right))
             y == <<x, rcurr>>
  <2>1. results \in Seq(S) /\ y \in S
    BY <1>6
  <2> HIDE DEF S, y
  <2>2. /\ Append(results, y) \in Seq(S)
        /\ Len(Append(results, y)) = Len(results) + 1
        /\ \A n \in 1..Len(results) : Append(results, y)[n] = results[n]
        /\ Append(results, y)[Len(results) + 1] = y
        /\ ToSet(Append(results, y)) = ToSet(results) \cup {y}
    BY <2>1, AppendElement
  <2>3. Matching(x, rcurr) => results' = Append(results, y)
    BY <1>3 DEF y
  <2> QED BY <2>2, <2>3 DEF S, y
<1>a. ASSUME NEW l \in 1..Len(left), NEW r \in 1..Len(right)
      PROVE  Decided(l, r)' <=> Decided(l, r) \/ (l = x /\ r = rcurr)
  <2>1. First' = First
    BY <1>3 DEF First, leftVars
  <2>2. x = First + item - 1 /\ rcurr \in Nat /\ curr \in Nat /\ First \in Nat
        /\ item \in Nat /\ r \in Nat /\ l \in Nat
    BY <1>0, <1>1 DEF x
  <2>3. Decided(l, r)' <=> \/ l < First
                           \/ l < curr /\ r < rcurr
                           \/ r = rcurr /\ l < First + (item + 1) - 1
    BY <1>1, <1>3, <2>1 DEF Decided, leftVars
  <2>4. Decided(l, r) <=> \/ l < First
                          \/ l < curr /\ r < rcurr
                          \/ r = rcurr /\ l < First + item - 1
    BY <1>1 DEF Decided
  <2>5. l < First + (item + 1) - 1 <=> l < First + item - 1 \/ l = x
    BY <2>2
  <2> QED BY <1>2, <2>2, <2>3, <2>4, <2>5
<1> USE <1>3 DEF IInv, args, leftVars
<1>8. ArgumentsOK' /\ NeverRefused'
  BY DEF ArgumentsOK, NeverRefused
<1>9. TypeOK'
  BY <1>0, <1>1, <1>7 DEF TypeOK
<1>10. BlockIsRun'
  BY DEF BlockIsRun, First
<1>11. PairsOnce'
  <2>1. CASE ~Matching(x, rcurr)
    BY <2>1 DEF PairsOnce, Matching
  <2>2. CASE Matching(x, rcurr)
    <3>1. DOMAIN results = 1..Len(results) /\ DOMAIN results' = 1..(Len(results) + 1)
          /\ Len(results) \in Nat
      BY <1>6, <1>7, <2>2
    <3>2. \A n \in 1..Len(results) : results[n] # <<x, rcurr>>
      BY <1>5, <3>1 DEF ToSet
    <3>3. \A k, m : Matching(k, m)' <=> Matching(k, m)
      BY DEF Matching
    <3>4. ASSUME NEW n \in 1..(Len(results) + 1)
          PROVE  Matching(results'[n][1], results'[n][2])
      <4>1. CASE n \in 1..Len(results)
        <5>1. results'[n] = results[n]
          BY <4>1, <1>7, <2>2
        <5> QED BY <4>1, <5>1, <3>1 DEF PairsOnce
      <4>2. CASE n = Len(results) + 1
        <5>1. results'[n] = <<x, rcurr>>
          BY <4>2, <1>7, <2>2
        <5> QED BY <5>1, <2>2
      <4> QED BY <3>1, <4>1, <4>2
    <3>5. ASSUME NEW n \in 1..(Len(results) + 1), NEW m \in 1..(Len(results) + 1),
                 results'[n] = results'[m]
          PROVE  n = m
      <4>1. CASE n \in 1..Len(results) /\ m \in 1..Len(results)
        <5>1. results[n] = results[m]
          BY <4>1, <3>5, <1>7, <2>2
        <5> QED BY <4>1, <5>1, <3>1 DEF PairsOnce
      <4>2. CASE n \in 1..Len(results) /\ m = Len(results) + 1
        BY <4>2, <3>2, <3>5, <1>7, <2>2
      <4>3. CASE n = Len(results) + 1 /\ m \in 1..Len(results)
        BY <4>3, <3>2, <3>5, <1>7, <2>2
      <4> QED BY <3>1, <4>1, <4>2, <4>3
    <3>6. /\ \A n \in DOMAIN results' : Matching(results'[n][1], results'[n][2])
          /\ \A n, m \in DOMAIN results' : results'[n] = results'[m] => n = m
      BY <3>1, <3>4, <3>5
    <3> QED BY <3>6, <1>3 DEF PairsOnce, Matching
  <2> QED BY <2>1, <2>2
<1>12. ResultsExact'
  <2> SUFFICES ASSUME NEW l \in 1..Len(left), NEW r \in 1..Len(right)
               PROVE  <<l, r>> \in ToSet(results') <=> Matching(l, r) /\ Decided(l, r)'
    BY DEF ResultsExact, Matching
  <2>1. Decided(l, r)' <=> Decided(l, r) \/ (l = x /\ r = rcurr)
    BY <1>a
  <2>2. <<l, r>> \in ToSet(results) <=> Matching(l, r) /\ Decided(l, r)
    BY <1>1 DEF ResultsExact
  <2>3. CASE ~Matching(x, rcurr)
    BY <2>1, <2>2, <2>3
  <2>4. CASE Matching(x, rcurr)
    BY <2>1, <2>2, <2>4, <1>7
  <2> QED BY <2>3, <2>4
<1>13. LoopsOK' /\ PagesCounted'
  BY <1>1 DEF LoopsOK, PagesCounted
<1> QED BY <1>8, <1>9, <1>10, <1>11, <1>12, <1>13

\* The block has been compared with the whole row.
LEMMA NextRightStep ==
  ASSUME IInv, NextRight
  PROVE  IInv'
<1>0. Len(left) \in Nat /\ Len(right) \in Nat /\ blockSize \in Nat /\ frames \in Nat
  BY ArgumentsType DEF IInv
<1> USE DEF IInv, NextRight, args, leftVars
<1>1. ArgumentsOK' /\ NeverRefused'
  BY DEF ArgumentsOK, NeverRefused
<1>2. TypeOK' /\ BlockIsRun'
  BY <1>0 DEF TypeOK, BlockIsRun, First, LoopsOK
<1>3. PairsOnce'
  BY DEF PairsOnce, Matching
<1>4. ResultsExact'
  <2> SUFFICES ASSUME NEW l \in 1..Len(left), NEW r \in 1..Len(right)
               PROVE  Decided(l, r)' <=> Decided(l, r)
    BY DEF ResultsExact, Matching
  <2> QED BY <1>0 DEF Decided, First, TypeOK
<1>5. LoopsOK' /\ PagesCounted'
  BY DEF LoopsOK, PagesCounted
<1> QED BY <1>1, <1>2, <1>3, <1>4, <1>5

\* At the end of the scan every row of the block has met every right row.
LEMMA EndBlockStep ==
  ASSUME IInv, EndBlock
  PROVE  IInv'
<1>0. Len(left) \in Nat /\ Len(right) \in Nat /\ blockSize \in Nat /\ frames \in Nat
  BY ArgumentsType DEF IInv
<1> USE DEF IInv, EndBlock, DropAll, args
<1>1. ArgumentsOK' /\ NeverRefused'
  BY DEF ArgumentsOK, NeverRefused
<1>2. TypeOK' /\ BlockIsRun'
  BY <1>0 DEF TypeOK, BlockIsRun, First
<1>3. PairsOnce'
  BY DEF PairsOnce, Matching
<1>4. ResultsExact'
  <2> SUFFICES ASSUME NEW l \in 1..Len(left), NEW r \in 1..Len(right)
               PROVE  Decided(l, r)' <=> Decided(l, r)
    BY DEF ResultsExact, Matching
  <2> QED BY <1>0 DEF Decided, First, TypeOK
<1>5. LoopsOK'
  BY DEF LoopsOK
<1>6. PagesCounted'
  BY FS_EmptySet DEF PagesCounted, TypeOK
<1> QED BY <1>1, <1>2, <1>3, <1>4, <1>5, <1>6

-----------------------------------------------------------------------------
(* The theorems                                                            *)

\* The invariant holds in every state of every join.
THEOREM JoinInvariant == Spec => []IInv
<1>1. IInv /\ [Next]_vars => IInv'
  <2> SUFFICES ASSUME IInv, [Next]_vars PROVE IInv'
    OBVIOUS
  <2>1. CASE UNCHANGED vars
    BY <2>1 DEF vars, args, leftVars, rightVars, IInv, ArgumentsOK, TypeOK, BlockIsRun, First,
       PairsOnce, ResultsExact, Decided, Matching, LoopsOK, PagesCounted, NeverRefused
  <2>2. CASE Next
    BY <2>2, FinishStep, StartBlockStep, LoadRowStep, GiveUpStep, StartScanStep, ReadRightStep,
       CompareStep, NextRightStep, EndBlockStep DEF Next
  <2> QED BY <2>1, <2>2
<1> QED BY <1>1, InitIInv, PTL DEF Spec

\* The loops keep to the tables and guard at most one page more than the block
\* has: ExecuteJoin never reads a row that is not there.
THEOREM JoinStaysInTables == Spec => []TypeOK
<1>1. IInv => TypeOK
  BY DEF IInv
<1> QED BY <1>1, JoinInvariant, PTL

\* results_ never holds a pair whose columns differ or a pair twice.
THEOREM PairsFoundOnce == Spec => []PairsOnce
<1>1. IInv => PairsOnce
  BY DEF IInv
<1> QED BY <1>1, JoinInvariant, PTL

\* When ExecuteJoin returns, results_ holds every pair of the relational join.
THEOREM JoinFindsAll == Spec => []JoinComplete
<1>1. IInv => JoinComplete
  <2> SUFFICES ASSUME IInv, pc = "done", blockSize # 0,
                      NEW l \in 1..Len(left), NEW r \in 1..Len(right), Matching(l, r)
               PROVE  <<l, r>> \in ToSet(results)
    BY DEF JoinComplete, IInv, LoopsOK
  <2>1. l < curr
    BY ArgumentsType DEF IInv, LoopsOK, TypeOK
  <2> QED BY <2>1 DEF IInv, ResultsExact, Decided
<1> QED BY <1>1, JoinInvariant, PTL

\* block_size + 3 frames are enough for every join with a non-empty right table.
THEOREM FramesSuffice == Spec => []NeverRefused
<1>1. IInv => NeverRefused
  BY DEF IInv
<1> QED BY <1>1, JoinInvariant, PTL
=============================================================================
