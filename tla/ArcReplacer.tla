---------------------------- MODULE ArcReplacer ----------------------------
(***************************************************************************)
(* The adaptive replacer of src/src/arc_replacer.cpp.                      *)
(*                                                                         *)
(* Every public method holds latch_ from its first line to its return, so  *)
(* each call is one atomic step.  The one exception is the call of Evict() *)
(* inside RecordAccess: latch_ is not recursive, and a thread that reached *)
(* that line would wait for itself forever.  `hung' records it.            *)
(*                                                                         *)
(* The client is the most general one: any thread of the pool may report   *)
(* an access to any frame for any page, because BufferPoolManager calls    *)
(* RecordAccess after it has released bpm_latch_ and its pair of frame and *)
(* page may be stale by then.                                              *)
(***************************************************************************)
EXTENDS Integers, Sequences, SequencesExt

CONSTANTS Frames,        \* frame_id_t values the pool owns
          Pages,         \* page_id_t values
          NoFrame,       \* std::nullopt
          ReplacerSize,  \* replacer_size_, the "c" of the ARC paper
          SizeMod,       \* size_t arithmetic is modulo SizeMod (2^64 in the build)
          GhostBound     \* bound of the model: entries of both ghost lists together

\* BufferPoolManager constructs the replacer with the number of frames it owns.
ASSUME FramesAssumption ==
    /\ IsFiniteSet(Frames)
    /\ ReplacerSize \in Nat
    /\ Cardinality(Frames) <= ReplacerSize
    /\ NoFrame \notin Frames

\* The numbers of the ARC policy.
ASSUME NumbersAssumption ==
    /\ SizeMod \in Nat
    /\ ReplacerSize < SizeMod
    /\ GhostBound \in Nat

VARIABLES mru, mfu,            \* lists of frames, most recent first
          mruGhost, mfuGhost,  \* lists of evicted pages, most recent first
          aliveMap,            \* frame -> FrameStatus
          ghostMap,            \* page -> which ghost list its entry is in
          currSize,            \* curr_size_, the count of evictable frames
          mruTargetSize,       \* mru_target_size_, the "p" of the paper
          reply,               \* what the last call answered
          hung                 \* latch_ is held by a thread that waits for latch_

listVars == <<mru, mfu, aliveMap>>
ghostVars == <<mruGhost, mfuGhost, ghostMap, mruTargetSize>>
vars == <<mru, mfu, mruGhost, mfuGhost, aliveMap, ghostMap, currSize,
          mruTargetSize, reply, hung>>

-----------------------------------------------------------------------------
(* Answers, as in the contract of Replacer.tla.                            *)
Done     == [ok |-> TRUE]
Throws   == [ok |-> FALSE]
Gives(f) == [frame |-> f]
Counts(n) == [size |-> n]

Statuses == {"MRU", "MFU"}
FrameStatus == [page : Pages, status : Statuses, evictable : BOOLEAN]

Alive == DOMAIN aliveMap
Evictable == {f \in Alive : aliveMap[f].evictable}

\* Mutated form of Without: the element stays where it was.
Without_Forgotten(list, f) == list

\* std::list::remove of an element that a list holds at most once, as the lists of frames do.
Without(list, f) ==
    IF f \in Range(list)
    THEN LET i == CHOOSE i \in DOMAIN list : list[i] = f
         IN  [j \in 1..(Len(list) - 1) |-> list[IF j < i THEN j ELSE j + 1]]
    ELSE list

\* std::list::remove of a page, which a ghost list may hold more than once.
Purged(list, p) ==
    LET upto[i \in 0..Len(list)] ==
            IF i = 0 THEN <<>>
            ELSE IF list[i] = p THEN upto[i - 1] ELSE Append(upto[i - 1], list[i])
    IN  upto[Len(list)]

\* Mutated form of Erase: the entry stays in the map.
Erase_Forgotten(map, k) == map

\* unordered_map::operator[] and erase.
Put(map, k, v) == [x \in (DOMAIN map) \cup {k} |-> IF x = k THEN v ELSE map[x]]
Erase(map, k)  == [x \in (DOMAIN map) \ {k} |-> map[x]]

-----------------------------------------------------------------------------
Init ==
    /\ mru = <<>> /\ mfu = <<>>
    /\ mruGhost = <<>> /\ mfuGhost = <<>>
    /\ aliveMap = [f \in {} |-> 0]
    /\ ghostMap = [p \in {} |-> 0]
    /\ currSize = 0
    /\ mruTargetSize = 0
    /\ reply = Done
    /\ hung = FALSE

-----------------------------------------------------------------------------
(* SetEvictable                                                            *)

\* Mutated form of CountAfter: the count moves even when the flag does not.
CountAfter_Unchecked(f, b) == IF b THEN currSize + 1 ELSE currSize - 1

\* curr_size_ moves only when the flag does.
CountAfter(f, b) ==
    IF aliveMap[f].evictable = b THEN currSize
    ELSE IF b THEN currSize + 1 ELSE currSize - 1

SetEvictable(f, b) ==
    /\ ~hung
    /\ \/ /\ f \in Alive
          /\ aliveMap' = [aliveMap EXCEPT ![f].evictable = b]
          /\ currSize' = CountAfter(f, b)
          /\ reply' = Done
       \/ /\ f \notin Alive
          /\ reply' = Throws
          /\ UNCHANGED <<aliveMap, currSize>>
    /\ UNCHANGED <<mru, mfu, ghostVars, hung>>

-----------------------------------------------------------------------------
(* RecordAccess                                                            *)

\* The frame is tracked: it moves to the front of the frequent list.
RecordHit(f) ==
    /\ f \in Alive
    /\ mru' = IF aliveMap[f].status = "MRU" THEN Without(mru, f) ELSE mru
    /\ mfu' = <<f>> \o (IF aliveMap[f].status = "MFU" THEN Without(mfu, f) ELSE mfu)
    /\ aliveMap' = [aliveMap EXCEPT ![f].status = "MFU"]
    /\ reply' = Done
    /\ UNCHANGED <<ghostVars, currSize, hung>>

\* How far the target moves: the ratio of the ghost lists, at least one.
Ratio(a, b) == IF a \div b > 1 THEN a \div b ELSE 1

\* The new target, in size_t arithmetic: the subtraction wraps below zero
\* before std::max looks at it.
TargetAfter(p) ==
    IF ghostMap[p] = "MRU_GHOST"
    THEN LET grown == (mruTargetSize + Ratio(Len(mfuGhost), Len(mruGhost))) % SizeMod
         IN  IF grown < ReplacerSize THEN grown ELSE ReplacerSize
    ELSE (mruTargetSize - Ratio(Len(mruGhost), Len(mfuGhost))) % SizeMod

\* Mutated form of MustEvict: off by one.
MustEvict_Early(map) == Cardinality(DOMAIN map) >= ReplacerSize

\* The nested Evict() would wait for latch_, which this thread holds.
MustEvict(map) == Cardinality(DOMAIN map) > ReplacerSize

\* The page was evicted not long ago: its entry comes back to the frequent list.
RecordGhostHit(f, p) ==
    /\ f \notin Alive
    /\ p \in DOMAIN ghostMap
    /\ mruTargetSize' = TargetAfter(p)
    /\ mruGhost' = IF ghostMap[p] = "MRU_GHOST" THEN Purged(mruGhost, p) ELSE mruGhost
    /\ mfuGhost' = IF ghostMap[p] = "MFU_GHOST" THEN Purged(mfuGhost, p) ELSE mfuGhost
    /\ ghostMap' = Erase(ghostMap, p)
    /\ aliveMap' = Put(aliveMap, f, [page |-> p, status |-> "MFU", evictable |-> FALSE])
    /\ mfu' = <<f>> \o mfu
    /\ hung' = MustEvict(aliveMap')
    /\ reply' = Done
    /\ UNCHANGED <<mru, currSize>>

\* Neither the frame nor the page is known: a new entry in the recent list.
RecordNew(f, p) ==
    /\ f \notin Alive
    /\ p \notin DOMAIN ghostMap
    /\ aliveMap' = Put(aliveMap, f, [page |-> p, status |-> "MRU", evictable |-> FALSE])
    /\ mru' = <<f>> \o mru
    /\ hung' = MustEvict(aliveMap')
    /\ reply' = Done
    /\ UNCHANGED <<mfu, ghostVars, currSize>>

RecordAccess(f, p) ==
    /\ ~hung
    /\ RecordHit(f) \/ RecordGhostHit(f, p) \/ RecordNew(f, p)

-----------------------------------------------------------------------------
(* Evict                                                                   *)

\* Mutated form of Candidates: frames in use are accepted.
Candidates_Any(list) == DOMAIN list

\* Positions of a list that try_evict accepts; it scans from the back.
Candidates(list) == {i \in DOMAIN list : aliveMap[list[i]].evictable}
Oldest(list) == list[CHOOSE i \in Candidates(list) : \A j \in Candidates(list) : j <= i]

\* The recent list is tried first when it is over its target, or when the
\* frequent list is within its own share, replacer_size_ - mru_target_size_.
MruFirst ==
    \/ Len(mru) > mruTargetSize
    \/ Len(mfu) < (ReplacerSize - mruTargetSize) % SizeMod

VictimList ==
    IF MruFirst
    THEN IF Candidates(mru) # {} THEN "MRU" ELSE "MFU"
    ELSE IF Candidates(mfu) # {} THEN "MFU" ELSE "MRU"

\* Move frame f from its list to the ghost list, where its page is remembered.
MoveToGhost(f, list) ==
    LET page == aliveMap[f].page
    IN  /\ mru' = IF list = "MRU" THEN Without(mru, f) ELSE mru
        /\ mfu' = IF list = "MFU" THEN Without(mfu, f) ELSE mfu
        /\ mruGhost' = IF list = "MRU" THEN <<page>> \o mruGhost ELSE mruGhost
        /\ mfuGhost' = IF list = "MFU" THEN <<page>> \o mfuGhost ELSE mfuGhost
        /\ ghostMap' = Put(ghostMap, page, IF list = "MRU" THEN "MRU_GHOST" ELSE "MFU_GHOST")
        /\ aliveMap' = Erase(aliveMap, f)

\* Nothing is evictable: by the count, or after both scans came back empty.
NothingToEvict == currSize = 0 \/ (Candidates(mru) = {} /\ Candidates(mfu) = {})

Evict ==
    /\ ~hung
    /\ \/ /\ NothingToEvict
          /\ reply' = Gives(NoFrame)
          /\ UNCHANGED <<listVars, mruGhost, mfuGhost, ghostMap, currSize>>
       \/ /\ ~NothingToEvict
          /\ Len(mruGhost) + Len(mfuGhost) < GhostBound
          /\ LET f == Oldest(IF VictimList = "MRU" THEN mru ELSE mfu)
             IN  MoveToGhost(f, VictimList) /\ reply' = Gives(f)
          /\ currSize' = currSize - 1
    /\ UNCHANGED <<mruTargetSize, hung>>

Size ==
    /\ ~hung
    /\ reply' = Counts(currSize)
    /\ UNCHANGED <<listVars, ghostVars, currSize, hung>>

-----------------------------------------------------------------------------
Next ==
    \/ \E f \in Frames, p \in Pages : RecordAccess(f, p)
    \/ \E f \in Frames, b \in BOOLEAN : SetEvictable(f, b)
    \/ Evict
    \/ Size

Spec == Init /\ [][Next]_vars

-----------------------------------------------------------------------------
(* Properties                                                              *)

Answers == {Done, Throws} \cup [frame : Frames \cup {NoFrame}] \cup [size : Nat]

\* Every variable has its type.
TypeOK ==
    /\ mru \in Seq(Frames) /\ mfu \in Seq(Frames)
    /\ mruGhost \in Seq(Pages) /\ mfuGhost \in Seq(Pages)
    /\ Alive \subseteq Frames
    /\ aliveMap \in [Alive -> FrameStatus]
    /\ DOMAIN ghostMap \subseteq Pages
    /\ ghostMap \in [DOMAIN ghostMap -> {"MRU_GHOST", "MFU_GHOST"}]
    /\ currSize \in Nat
    /\ mruTargetSize \in 0..(SizeMod - 1)
    /\ reply \in Answers
    /\ hung \in BOOLEAN

\* The lists and the map of tracked frames tell the same story: each frame of
\* the map is in the list its status names, once, and nothing else is listed.
\* Evict() dereferences alive_map_[*it] for every frame it scans.
ListsMatchMap ==
    /\ IsInjective(mru) /\ Range(mru) = {f \in Alive : aliveMap[f].status = "MRU"}
    /\ IsInjective(mfu) /\ Range(mfu) = {f \in Alive : aliveMap[f].status = "MFU"}

\* curr_size_ is the number of evictable frames, so that Evict() answers nullopt
\* early exactly when there is no victim, and its last line is never reached.
CountMatches == currSize = Cardinality(Evictable)

\* A page of ghost_map_ is in the ghost list its status names.  A hit divides by
\* the length of that list.
GhostsListed ==
    \A p \in DOMAIN ghostMap :
        p \in Range(IF ghostMap[p] = "MRU_GHOST" THEN mruGhost ELSE mfuGhost)

\* No call of RecordAccess reaches its nested Evict(), which would wait for the
\* latch its own thread holds.
NeverHangs == ~hung

\* The replacer keeps its promise to the pool: every call answers what the
\* contract of Replacer.tla allows, whatever the policy chose.
R == INSTANCE Replacer WITH alive <- Alive, evictable <- Evictable
ImplementsReplacer == R!Spec

\* What "p" is in the ARC paper the header cites: between 0 and c.
TargetInRange == mruTargetSize \in 0..ReplacerSize
=============================================================================
