-------------------------------- MODULE Join --------------------------------
(***************************************************************************)
(* BlockNestedLoopJoinExecutor (src/src/bnlj.cpp): joins two linked lists  *)
(* of rows on their first column, a block of left pages at a time.         *)
(*                                                                         *)
(* A table is the sequence of its rows in the order of next_rid, and a     *)
(* position in it stands for the RID of the row.  The executor runs in one *)
(* thread; a step is one row read or one comparison.  It keeps a guard on  *)
(* every page of the block, and each guard keeps a frame of the pool: a    *)
(* page for which no frame is left makes ReadPage throw.                   *)
(***************************************************************************)
EXTENDS Integers, Sequences, FiniteSets, SequencesExt

CONSTANTS
    LeftTables, RightTables,  \* tables: sequences of [page, col]
    BlockSizes,               \* values of the parameter block_size
    FrameCounts,              \* numbers of frames that nobody else has pinned
    NoPage                    \* INVALID_PAGE_ID, and no guard

IsTable(t) == \A n \in DOMAIN t : t[n].page # NoPage

\* The tables share no page and the left one never comes back to a page: one
\* thread would hold the rwlatch_ of a frame twice, which std::shared_mutex
\* leaves undefined.
ASSUME TablesAssumption ==
    /\ \A t \in LeftTables \cup RightTables : IsTable(t) /\ Len(t) \in Nat
    /\ \A t \in LeftTables : \A k, n \in DOMAIN t :
          t[k].page = t[n].page => \A m \in k..n : t[m].page = t[k].page
    /\ \A t \in LeftTables, u \in RightTables : \A k \in DOMAIN t, n \in DOMAIN u :
          t[k].page # u[n].page
ASSUME SizesAssumption == BlockSizes \subseteq Nat /\ FrameCounts \subseteq Nat

VARIABLES
    left, right, blockSize, frames,  \* the call's arguments; they do not change
    pc,          \* the loop the executor is in, "done", or "threw"
    curr,        \* left_curr_rid; Len(left) + 1 is the invalid RID
    block,       \* block_items: the positions, from which their columns follow
    kept,        \* the pages guarded by left_page_guards
    leftGuard,   \* the page of left_curr_guard
    count,       \* left_block_count
    rcurr,       \* right_curr_rid
    rightGuard,  \* the page of right_page_guard
    item,        \* the index of the comparison loop
    results      \* results_

args == <<left, right, blockSize, frames>>
leftVars == <<curr, block, kept, leftGuard, count>>
rightVars == <<rcurr, rightGuard, item>>
vars == <<args, pc, leftVars, rightVars, results>>

Init ==
    /\ left \in LeftTables /\ right \in RightTables
    /\ blockSize \in BlockSizes /\ frames \in FrameCounts
    /\ pc = "block" /\ results = <<>>
    /\ curr = 1 /\ block = <<>> /\ kept = {} /\ leftGuard = NoPage /\ count = 1
    /\ rcurr = 1 /\ rightGuard = NoPage /\ item = 1

-----------------------------------------------------------------------------
(* Pages                                                                   *)

Held == (kept \cup {leftGuard, rightGuard}) \ {NoPage}

\* ReadPage finds a frame for another page while these are guarded.  A guard
\* that is assigned to keeps its old page until the new one is there.
Fits(pages) == Cardinality(pages) < frames

\* ReadPage throws; the guards are dropped on the way out.
Throw ==
    /\ pc' = "threw"
    /\ kept' = {} /\ leftGuard' = NoPage /\ rightGuard' = NoPage
    /\ UNCHANGED <<args, curr, block, count, rcurr, item, results>>

-----------------------------------------------------------------------------
(* The left side: a block                                                  *)

\* Mutated form of Room: the block takes a page too many.
Room_More(c) == c <= blockSize + 1

\* There is room in the block for the row under left_curr_rid.
Room(c) == c <= blockSize

\* The end of the left table ends the join.
Finish ==
    /\ pc = "block" /\ curr > Len(left)
    /\ pc' = "done"
    /\ UNCHANGED <<args, leftVars, rightVars, results>>

\* A new block.  The page that filled the last one is read again.
StartBlock ==
    /\ pc = "block" /\ curr <= Len(left)
    /\ IF Fits(Held)
       THEN /\ leftGuard' = left[curr].page
            /\ block' = <<>> /\ count' = 1
            /\ pc' = "load"
            /\ UNCHANGED <<args, curr, kept, rightVars, results>>
       ELSE Throw

\* The row is on another page than the one before it.
Turned == leftGuard # left[curr].page

\* Mutated form of Taken: it checks for room once more, after the page was turned.
Taken_IfRoom(c) == IF Room(c) THEN Append(block, curr) ELSE block

\* The block with the row under left_curr_rid.  The first row of the page after
\* the last belongs to the block: that is how the loop notices the boundary.
Taken(c) == Append(block, curr)

\* Mutated form of NextLeft: the row that filled the block is left for the next.
NextLeft_Again(c) == IF Room(c) THEN curr + 1 ELSE curr

\* left_curr_rid = left_row->next_rid
NextLeft(c) == curr + 1

LoadRow ==
    /\ pc = "load" /\ Room(count) /\ curr <= Len(left)
    /\ LET c == IF Turned THEN count + 1 ELSE count
       IN  IF Turned /\ ~Fits(Held) THEN Throw
           ELSE /\ kept' = IF Turned THEN kept \cup {leftGuard} ELSE kept
                /\ leftGuard' = left[curr].page
                /\ count' = c
                /\ block' = Taken(c)
                /\ curr' = NextLeft(c)
                /\ UNCHANGED <<args, pc, rightVars, results>>

BlockFull == pc = "load" /\ ~(Room(count) /\ curr <= Len(left))

\* Mutated form of NothingLoaded: an empty block is joined like any other.
NothingLoaded_Never == FALSE

\* With block_size zero no row is ever loaded, and the join ends.
NothingLoaded == block = <<>>

DropAll == kept' = {} /\ leftGuard' = NoPage /\ rightGuard' = NoPage

GiveUp ==
    /\ BlockFull /\ NothingLoaded
    /\ pc' = "done"
    /\ DropAll
    /\ UNCHANGED <<args, curr, block, count, rcurr, item, results>>

-----------------------------------------------------------------------------
(* The right side: a scan for every block                                  *)

\* The first page is read before the RID is looked at: the page of an empty
\* table is INVALID_PAGE_ID, for which ReadPage throws.
StartScan ==
    /\ BlockFull /\ ~NothingLoaded
    /\ IF right # <<>> /\ Fits(Held)
       THEN /\ rcurr' = 1 /\ item' = 1
            /\ rightGuard' = right[1].page
            /\ pc' = "scan"
            /\ UNCHANGED <<args, leftVars, results>>
       ELSE Throw

ReadRight ==
    /\ pc = "scan" /\ rcurr <= Len(right)
    /\ IF rightGuard = right[rcurr].page \/ Fits(Held)
       THEN /\ rightGuard' = right[rcurr].page
            /\ item' = 1
            /\ pc' = "match"
            /\ UNCHANGED <<args, leftVars, rcurr, results>>
       ELSE Throw

Matching(l, r) == left[l].col = right[r].col

Compare ==
    /\ pc = "match" /\ item <= Len(block)
    /\ results' = IF Matching(block[item], rcurr)
                  THEN Append(results, <<block[item], rcurr>>) ELSE results
    /\ item' = item + 1
    /\ UNCHANGED <<args, pc, leftVars, rcurr, rightGuard>>

NextRight ==
    /\ pc = "match" /\ item > Len(block)
    /\ rcurr' = rcurr + 1
    /\ pc' = "scan"
    /\ UNCHANGED <<args, leftVars, rightGuard, item, results>>

\* The block's scope ends: its guards are dropped.
EndBlock ==
    /\ pc = "scan" /\ rcurr > Len(right)
    /\ pc' = "block"
    /\ DropAll
    /\ UNCHANGED <<args, curr, block, count, rcurr, item, results>>

-----------------------------------------------------------------------------
Next ==
    \/ Finish \/ StartBlock \/ LoadRow \/ GiveUp
    \/ StartScan \/ ReadRight \/ Compare \/ NextRight \/ EndBlock

Ended == pc \in {"done", "threw"}

Spec == Init /\ [][Next]_vars

\* The one thread of the executor goes on until the call returns.
FairSpec == Spec /\ WF_vars(Next)

-----------------------------------------------------------------------------
(* Properties                                                              *)

\* The positions stay within the tables, and at most one page more than
\* block_size is guarded on the left: the page that filled the block.
TypeOK ==
    /\ pc \in {"block", "load", "scan", "match", "done", "threw"}
    /\ curr \in 1..(Len(left) + 1)
    /\ block \in Seq(1..Len(left))
    /\ count \in 1..(blockSize + 1)
    /\ rcurr \in 1..(Len(right) + 1)
    /\ item \in Nat \ {0} /\ (pc = "match" => item <= Len(block) + 1)
    /\ results \in Seq((1..Len(left)) \X (1..Len(right)))

\* Whatever the pages and the blocks, results_ never holds a pair whose columns
\* differ, nor a pair twice: also not for a row at the boundary of two blocks.
PairsOnce ==
    /\ \A n \in DOMAIN results : Matching(results[n][1], results[n][2])
    /\ \A n, m \in DOMAIN results : results[n] = results[m] => n = m

\* A join that returns has found every pair of the relational join, if a block
\* has room for a page; with block_size zero it returns with nothing.
JoinComplete ==
    pc = "done" =>
        IF blockSize = 0 THEN results = <<>>
        ELSE \A l \in 1..Len(left), r \in 1..Len(right) :
                Matching(l, r) => <<l, r>> \in ToSet(results)

\* The join is refused a page only if the right table is empty or there are
\* fewer than block_size + 3 frames: the pages of the block, the one that
\* filled it, and two pages of the right table while the scan goes from one to
\* the next.
NeverRefused == pc = "threw" => right = <<>> \/ frames < blockSize + 3

\* ExecuteJoin returns, or throws.
JoinReturns == <>Ended
=============================================================================
