------------------------------ MODULE TreePool ------------------------------
(***************************************************************************)
(* The buffer pool as the B+ tree uses it (src/src/b_plus_tree.cpp).       *)
(* Insert, Remove, GetValue, IsEmpty and the constructor first take the    *)
(* write guard of the header page and reach every other page while they    *)
(* hold it; GetRootPageId takes a read guard of the header page alone.     *)
(* Guards are dropped in any order: GetValue drops the header before its   *)
(* leaf when the key is not found.                                         *)
(*                                                                         *)
(* The window between the lookup of a page and its pin, which BufferPool   *)
(* shows to be unsafe for clients in general, is harmless under this       *)
(* discipline: only the holder of the header can evict, and it is not in   *)
(* the window itself when it does.  IndexIterator and the join read pages  *)
(* without the header, so they are outside this module.                    *)
(***************************************************************************)
EXTENDS BufferPool

CONSTANT HeaderPage  \* header_page_id_

ASSUME HeaderAssumption == HeaderPage \in Pages

HoldsHeader(t) == \E g \in guards[t] : g.page = HeaderPage /\ g.mode = "write"

\* Mutated form of Disciplined: other pages are reached without the header.
Disciplined_Free(t, p) == TRUE

\* Mutated form of Disciplined: the header is asked for again under a leaf's guard.
Disciplined_Back(t, p) == p = HeaderPage \/ HoldsHeader(t)

\* The header first and alone; any other page only under the header's write guard.
Disciplined(t, p) ==
    IF p = HeaderPage THEN guards[t] = {} ELSE HoldsHeader(t)

TreeNext ==
    \/ NewPage
    \/ \E t \in Threads :
          \/ \E p \in Pages, m \in Modes :
                MayFetch(t, p) /\ Disciplined(t, p) /\ Lookup(t, p, m)
          \/ Proceed(t)
          \/ \E g \in guards[t], v \in Values : Write(t, g, v)
          \/ \E g \in guards[t] : GuardFlush(t, g)
          \/ \E g \in guards[t] : Drop(t, g)

TreeSpec == Init /\ [][TreeNext]_vars
TreeFairSpec == TreeSpec /\ Fairness

-----------------------------------------------------------------------------
(* Properties.  GuardsMatch and PinFindsFrame, which the pool alone does   *)
(* not have, hold here.                                                    *)

\* pin_count_ is exactly the number of guards and of calls that rely on the frame.
PinsExact == \A f \in Frames : Cardinality(PinsOwed(f)) = pin[f]

\* No frame is lost: one that is neither free nor evictable is in use or on its
\* way to a thread, so a fetch is refused only if every frame is.
NoFrameLost ==
    \A f \in Frames \ (freeFrames \cup evictable) :
        \/ PinsOwed(f) # {}
        \/ \E t \in Threads : step[t] \in {"record", "pin"} /\ req[t].frame = f

\* A cached page that is not dirty is on disk as it is in memory: it may be
\* evicted without being written back.
CleanMatchesDisk ==
    \A p \in Cached : ~dirty[pageTable[p]] => data[pageTable[p]] = disk[p]

\* Under the discipline the pool is a store of locked pages: what is written
\* under a guard is what later guards of that page see, whatever was evicted,
\* written back and loaded in between.
Store == INSTANCE PageStore WITH
    content <- [p \in Pages |-> IF p \in Cached THEN data[pageTable[p]] ELSE disk[p]],
    holds <- [t \in Threads |-> {[page |-> g.page, mode |-> g.mode] : g \in guards[t]}]
ImplementsPageStore == Store!Spec

\* An operation under the header gets each further page it asks for: nobody it
\* waits for waits for it.
FetchUnderHeaderReturns ==
    \A t \in Threads :
        step[t] \in {"record", "pin", "latch"} /\ req[t].page # HeaderPage ~> step[t] = "idle"
=============================================================================
