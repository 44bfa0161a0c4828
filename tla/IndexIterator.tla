---------------------------- MODULE IndexIterator ----------------------------
(***************************************************************************)
(* IndexIterator (src/src/index_iterator.cpp) and the calls of the tree    *)
(* that make one - Begin, Begin(key) and End of src/src/b_plus_tree.cpp -  *)
(* beside the operations of BPlusTree.                                     *)
(*                                                                         *)
(* An iterator is a page id and an index; it holds no guard between two    *)
(* calls, so the tree changes under it.  The steps are what can be told    *)
(* apart from outside: Begin and End test IsEmpty under the header's guard *)
(* and take the header again for the descent, operator++ tests IsEnd under *)
(* one guard of the leaf and moves under another, operator* returns two    *)
(* references into a frame that it no longer guards, and the caller reads  *)
(* the key and then the RID through them.  Indexes count from one.         *)
(***************************************************************************)
EXTENDS BPlusTree

CONSTANTS NoIter,     \* no iterator has been made
          Gone,       \* a page that has left the tree
          DefaultRid, \* RID{}
          Unknown     \* bytes that are no part of an entry of the leaf

ASSUME IteratorAssumption ==
    /\ NoPage \notin Int /\ Gone \notin Pages \cup {NoPage}
    /\ NoIter \notin [page : Pages \cup {Gone, NoPage}, index : Nat, last : BOOLEAN]

VARIABLES it,      \* the iterator: its page_id_ and index_
          inCall,  \* "begin", "end", "key", "rid" or "move": the call that is between its
                   \* parts; in "key" and "rid" the references of operator* are still out
          seen,    \* the key the caller has read, while the RID is still to be read
          adrift,  \* history: the tree has changed since the iterator was made
          steady   \* history: the leaf is where it was, and as it was, when operator*
                   \* handed out the references that are out

refVars == <<seen, steady>>
iterVars == <<it, inCall, adrift, refVars>>
allVars == <<vars, iterVars>>

Iterator(p, i) == [page |-> p, index |-> i, last |-> FALSE]

\* The iterator IndexIterator().
Default == Iterator(NoPage, 1)

Done   == [done |-> TRUE]
Throws == [done |-> FALSE]

IterInit ==
    /\ Init
    /\ it = NoIter /\ inCall = "none" /\ adrift = FALSE
    /\ seen = DefaultKey /\ steady = TRUE

\* References are out.
Lent == inCall \in {"key", "rid"}

-----------------------------------------------------------------------------
(* The tree changes under the iterator.  A leaf that was merged away stays *)
(* on its page, empty, with its old link: the names of pages are reused in *)
(* BPlusTree, so the iterator says that its page is gone, and whether that *)
(* link was the last.                                                      *)

Carried ==
    IF it # NoIter /\ it.page \in Leaves /\ node'[it.page] = Unused
    THEN [page |-> Gone, index |-> it.index, last |-> node[it.page].next = NoPage]
    ELSE it

TreeStep ==
    /\ Next
    /\ it' = Carried
    /\ adrift' = (it # NoIter /\ (adrift \/ node' # node))
    /\ steady' = (steady /\ (Lent => node' = node))
    /\ UNCHANGED <<inCall, seen>>

-----------------------------------------------------------------------------
(* What an iterator sees of its page.                                      *)

EntriesAt(i) == IF i.page = Gone THEN <<>> ELSE node[i.page].entries
IsLast(i)    == IF i.page = Gone THEN i.last ELSE node[i.page].next = NoPage

\* Mutated form of Exhausted: it forgets that other leaves may follow.
Exhausted_Here(i) == i.index = Len(EntriesAt(i)) + 1

\* IsEnd.
Exhausted(i) == IsLast(i) /\ i.index = Len(EntriesAt(i)) + 1

\* Mutated form of Moved: the jump to the next leaf is left to the next call.
Moved_Late(i) ==
    IF i.index > Len(EntriesAt(i)) /\ ~IsLast(i)
    THEN Iterator(node[i.page].next, 1)
    ELSE [i EXCEPT !.index = @ + 1]

\* operator++ without its tests.
Moved(i) ==
    IF i.index = Len(EntriesAt(i)) /\ ~IsLast(i)
    THEN Iterator(node[i.page].next, 1)
    ELSE [i EXCEPT !.index = @ + 1]

-----------------------------------------------------------------------------
(* Begin, Begin(key), End                                                  *)

\* The outermost leaves, by way of the first and of the last child.
FirstLeaf ==
    LET down[p \in Pages] == IF node[p].kind = "internal" THEN down[Head(node[p].kids)] ELSE p
    IN  down[root]
LastLeaf ==
    LET down[p \in Pages] == IF node[p].kind = "internal" THEN down[Last(node[p].kids)] ELSE p
    IN  down[root]

EndOf == Iterator(LastLeaf, Len(node[LastLeaf].entries) + 1)

\* The program assigns the result of Begin to its iterator.
Assign(i) ==
    /\ it' = i
    /\ adrift' = FALSE
    /\ reply' = Done

Reply(r) == reply' = r /\ UNCHANGED <<it, adrift>>

\* Nobody holds the header, and the iterator's owner is in no call.
Callable == inCall = "none" /\ fix = Quiet

\* Begin tests IsEmpty and releases the header.
BeginTest ==
    /\ Callable
    /\ IF root = NoPage THEN Assign(Default) /\ UNCHANGED inCall
       ELSE inCall' = "begin" /\ UNCHANGED <<it, adrift, reply>>
    /\ UNCHANGED <<node, root, fix, refVars>>

\* It takes the header again and descends; the root may be gone by now, and
\* ReadPage(INVALID_PAGE_ID) throws.
BeginWalk ==
    /\ inCall = "begin"
    /\ fix = Quiet
    /\ IF root = NoPage THEN Reply(Throws) ELSE Assign(Iterator(FirstLeaf, 1))
    /\ inCall' = "none"
    /\ UNCHANGED <<node, root, fix, refVars>>

BeginAt(k) ==
    /\ Callable
    /\ IF root = NoPage THEN Reply(Throws)
       ELSE LET leaf == LeafFor(k) IN Assign(Iterator(leaf, KeyIndex(LeafKeys(leaf), k)))
    /\ UNCHANGED <<node, root, fix, inCall, refVars>>

\* it == End(), the same way.
EndTest ==
    /\ Callable
    /\ it # NoIter
    /\ IF root = NoPage THEN Reply(Answers(it = Default)) /\ UNCHANGED inCall
       ELSE inCall' = "end" /\ UNCHANGED <<it, adrift, reply>>
    /\ UNCHANGED <<node, root, fix, refVars>>

EndWalk ==
    /\ inCall = "end"
    /\ fix = Quiet
    /\ IF root = NoPage THEN Reply(Throws) ELSE Reply(Answers(it = EndOf))
    /\ inCall' = "none"
    /\ UNCHANGED <<node, root, fix, refVars>>

-----------------------------------------------------------------------------
(* The iterator's own calls read its leaf without the header.  A program   *)
(* does not use the iterator of an empty tree: its bpm_ is a null pointer. *)

Usable == inCall = "none" /\ it # NoIter /\ it.page # NoPage

IsEnd ==
    /\ Usable
    /\ Reply(Answers(Exhausted(it)))
    /\ UNCHANGED <<node, root, fix, inCall, refVars>>

\* operator*: the tests, which do not let a reference past the entries get out.
DerefTest ==
    /\ Usable
    /\ IF it.index \in DOMAIN EntriesAt(it)
       THEN inCall' = "key" /\ UNCHANGED <<it, adrift, reply>>
       ELSE Reply(Throws) /\ UNCHANGED inCall
    /\ UNCHANGED <<node, root, fix, refVars>>

\* The guard of operator* was the only pin: whoever fetches a page may have the
\* leaf evicted, and the references are to the bytes of another page.  A frame
\* that gets the leaf back is no different from one that kept it.
Displaced ==
    /\ Lent
    /\ steady' = FALSE
    /\ UNCHANGED <<vars, it, inCall, adrift, seen>>

\* A slot of the arrays behind the last entry: every operation clears what it vacates.
Cleared == [key |-> DefaultKey, rid |-> DefaultRid]

\* Mutated form of Slot: the RID is taken one place further on than the key.
Slot_Torn ==
    LET es == EntriesAt(it) \o <<Cleared>>
    IN  IF it.index < Len(es) THEN [key |-> es[it.index].key, rid |-> es[it.index + 1].rid]
        ELSE Cleared

\* What the slot of the iterator holds, in the frame the leaf was in.
Slot == IF it.index \in DOMAIN EntriesAt(it) THEN EntriesAt(it)[it.index] ELSE Cleared

\* What a read finds there, of a part v of the slot.
Found(v) == IF steady THEN {v} ELSE {v, Unknown}

\* The caller reads the key,
DerefKey ==
    /\ inCall = "key"
    /\ seen' \in Found(Slot.key)
    /\ inCall' = "rid"
    /\ UNCHANGED <<vars, it, adrift, steady>>

\* and then the RID.
DerefRid ==
    /\ inCall = "rid"
    /\ \E r \in Found(Slot.rid) : Reply([key |-> seen, rid |-> r])
    /\ inCall' = "none"
    /\ seen' = DefaultKey /\ steady' = TRUE
    /\ UNCHANGED <<node, root, fix>>

AdvanceTest ==
    /\ Usable
    /\ IF Exhausted(it) THEN Reply(Throws) /\ UNCHANGED inCall
       ELSE inCall' = "move" /\ UNCHANGED <<it, adrift, reply>>
    /\ UNCHANGED <<node, root, fix, refVars>>

AdvanceMove ==
    /\ inCall = "move"
    /\ IF it.index > Len(EntriesAt(it)) + 1 THEN Reply(Throws)
       ELSE it' = Moved(it) /\ reply' = Done /\ UNCHANGED adrift
    /\ inCall' = "none"
    /\ UNCHANGED <<node, root, fix, refVars>>

-----------------------------------------------------------------------------
IterNext ==
    \/ TreeStep
    \/ BeginTest \/ BeginWalk \/ \E k \in Keys : BeginAt(k)
    \/ EndTest \/ EndWalk
    \/ IsEnd
    \/ DerefTest \/ Displaced \/ DerefKey \/ DerefRid
    \/ AdvanceTest \/ AdvanceMove

IterSpec == IterInit /\ [][IterNext]_allVars

-----------------------------------------------------------------------------
(* Properties                                                              *)

\* The iterator refers to a leaf, or to a page that was one when it got there.
IteratorTypeOK ==
    /\ it = NoIter \/ it.page \in Leaves \cup {Gone, NoPage}
    /\ it # NoIter => it.index \in 1..(LeafMax + 2)
    /\ inCall \in {"none", "begin", "end", "key", "rid", "move"}
    /\ seen \in Keys \cup {DefaultKey, Unknown}
    /\ adrift \in BOOLEAN /\ steady \in BOOLEAN

\* Where the iterator is, as the contract puts it.
Position ==
    IF it = NoIter THEN [state |-> "none"]
    ELSE IF adrift THEN [state |-> "adrift"]
    ELSE IF it.page = NoPage \/ Exhausted(it) THEN [state |-> "end"]
    ELSE IF it.index \in DOMAIN EntriesAt(it)
         THEN [state |-> "at", key |-> EntriesAt(it)[it.index].key]
    ELSE [state |-> "stray"]

\* What the contract says of the references that are out.
Loan == IF ~Lent THEN "none" ELSE IF steady THEN "good" ELSE "void"

\* While nobody changes the tree the iterator visits the keys of the map in
\* order, each once, and reaches End(); beside writers it may skip and repeat.
\* What is read through its references is one entry of the map, its key and its
\* RID, if the leaf has neither changed nor lost its frame since operator*
\* returned; otherwise it may be anything.
Cursor == INSTANCE IndexCursor WITH
    content <- LET stored == UNION {ToSet(node[p].entries) : p \in Leaves}
               IN  [k \in {e.key : e \in stored} |-> (CHOOSE e \in stored : e.key = k).rid],
    cursor <- Position, loan <- Loan
ImplementsIndexCursor == Cursor!Spec

\* An iterator the tree has not changed under is at an entry or at the end: a
\* lower bound that is in the next leaf is found there (the test
\* IteratorLowerBound says of Begin(9) that it "should land at 10").
OnEntryOrEnd == Position.state # "stray"
=============================================================================
