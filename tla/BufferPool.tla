----------------------------- MODULE BufferPool -----------------------------
(***************************************************************************)
(* BufferPoolManager with its frames, its page guards and the threads that *)
(* use them (src/src/buffer_pool_manager.cpp, src/src/page_guard.cpp).     *)
(*                                                                         *)
(* A step is what a thread does between two points where another thread    *)
(* can get in: one critical section of bpm_latch_, one call of the         *)
(* replacer (which has its own latch), one acquisition or release of a     *)
(* frame's rwlatch_, one access to the data of a guarded frame.  A fetch   *)
(* is therefore four steps - look the page up, record the access, pin,     *)
(* latch - and dropping a guard is two: bpm_latch_ is released between     *)
(* the lookup and the pin.                                                 *)
(*                                                                         *)
(* The replacer is its contract (Replacer.tla), the disk an atomic store   *)
(* of pages: PageSwitch waits for its future, and the scheduler serves one *)
(* request at a time.                                                      *)
(***************************************************************************)
EXTENDS Naturals, FiniteSets

CONSTANTS Threads,     \* client threads
          NoThread,    \* nobody: bpm_latch_ is free
          Frames,      \* frame ids
          PageBound,   \* bound of the model: page ids run from 0 to PageBound - 1
          Values,      \* what a page can hold
          Zero,        \* the zero-filled page
          GuardLimit,  \* bound of the model: guards one thread holds at a time
          NoReq        \* an idle thread's request

ASSUME PoolAssumption ==
    /\ IsFiniteSet(Threads) /\ IsFiniteSet(Frames)
    /\ PageBound \in Nat /\ GuardLimit \in Nat
    /\ Zero \in Values
    /\ NoThread \notin Threads

Pages == 0..(PageBound - 1)
Modes == {"read", "write"}

\* A guard, and a thread's request for one.
Guard == [page : Pages, frame : Frames, mode : Modes]
ASSUME ReqAssumption == NoReq \notin Guard

VARIABLES bpmLatch,    \* who holds bpm_latch_ between two steps: only a flush does
          toFlush,     \* the pages that flush has still to visit
          nextPageId,
          pageTable,   \* page -> frame
          freeFrames,
          data, dirty, pin,   \* the FrameHeaders
          alive, evictable,   \* the replacer
          disk,
          step, req,   \* where each thread is, and with which page and frame
          guards       \* the guards each thread holds

latchVars == <<bpmLatch, toFlush>>
frameVars == <<data, dirty, pin>>
replVars == <<alive, evictable>>
tableVars == <<nextPageId, pageTable, freeFrames>>
vars == <<latchVars, tableVars, frameVars, replVars, disk, step, req, guards>>

Steps == {"idle", "record", "pin", "latch", "unpin", "flush", "threw"}

Init ==
    /\ bpmLatch = NoThread /\ toFlush = {}
    /\ nextPageId = 0
    /\ pageTable = [p \in {} |-> 0]
    /\ freeFrames = Frames
    /\ data = [f \in Frames |-> Zero]
    /\ dirty = [f \in Frames |-> FALSE]
    /\ pin = [f \in Frames |-> 0]
    /\ alive = {} /\ evictable = {}
    /\ disk = [p \in Pages |-> Zero]
    /\ step = [t \in Threads |-> "idle"]
    /\ req = [t \in Threads |-> NoReq]
    /\ guards = [t \in Threads |-> {}]

LatchFree == bpmLatch = NoThread
Cached == DOMAIN pageTable

-----------------------------------------------------------------------------
(* NewPage: an atomic counter, no latch.                                   *)
NewPage ==
    /\ nextPageId < PageBound
    /\ nextPageId' = nextPageId + 1
    /\ UNCHANGED <<latchVars, pageTable, freeFrames, frameVars, replVars, disk, step, req, guards>>

-----------------------------------------------------------------------------
(* CheckedReadPage and CheckedWritePage, the section under bpm_latch_.     *)
(* A call they refuse - a page id never issued, no frame to be had -       *)
(* changes nothing, so it is a stuttering step here.                       *)

Request(t, p, f, m) ==
    /\ step' = [step EXCEPT ![t] = "record"]
    /\ req' = [req EXCEPT ![t] = [page |-> p, frame |-> f, mode |-> m]]
    /\ UNCHANGED <<latchVars, nextPageId, guards>>

\* Mutated form of Issued: off by one.
Issued_Late(p) == p <= nextPageId

\* page_id < next_page_id_.
Issued(p) == p < nextPageId

\* Mutated form of Rebound: the page that was evicted keeps its entry.
Rebound_Kept(p, f) == [q \in {p} \cup Cached |-> IF q = p THEN f ELSE pageTable[q]]

\* page_table_ once frame f holds page p and nothing else.
Rebound(p, f) ==
    [q \in {p} \cup {q \in Cached : pageTable[q] # f} |-> IF q = p THEN f ELSE pageTable[q]]

\* Mutated form of WrittenBack: the dirty page is dropped.
WrittenBack_Never(f) == disk

\* The disk once frame f, if it is dirty, is written back to the page it holds.
WrittenBack(f) ==
    [q \in Pages |-> IF dirty[f] /\ q \in Cached /\ pageTable[q] = f THEN data[f] ELSE disk[q]]

\* Frame f is reset and page p is read into it.
Load(p, f) ==
    /\ pageTable' = Rebound(p, f)
    /\ pin' = [pin EXCEPT ![f] = 0]
    /\ data' = [data EXCEPT ![f] = disk'[p]]
    /\ dirty' = [dirty EXCEPT ![f] = FALSE]

LookupHit(t, p, m) ==
    /\ p \in Cached
    /\ Request(t, p, pageTable[p], m)
    /\ UNCHANGED <<pageTable, freeFrames, frameVars, replVars, disk>>

LookupFree(t, p, m) ==
    /\ p \notin Cached
    /\ \E f \in freeFrames :
          /\ freeFrames' = freeFrames \ {f}
          /\ disk' = disk
          /\ Load(p, f)
          /\ Request(t, p, f, m)
    /\ UNCHANGED replVars

LookupEvict(t, p, m) ==
    /\ p \notin Cached
    /\ freeFrames = {}
    /\ \E f \in evictable :
          /\ alive' = alive \ {f}
          /\ evictable' = evictable \ {f}
          /\ disk' = WrittenBack(f)
          /\ Load(p, f)
          /\ Request(t, p, f, m)
    /\ UNCHANGED freeFrames

Lookup(t, p, m) ==
    /\ step[t] = "idle"
    /\ LatchFree
    /\ Issued(p)
    /\ LookupHit(t, p, m) \/ LookupFree(t, p, m) \/ LookupEvict(t, p, m)

-----------------------------------------------------------------------------
(* The rest of a fetch: RecordAccess, then the constructor of the guard.   *)

Goto(t, s) == step' = [step EXCEPT ![t] = s]
Finish(t) == Goto(t, "idle") /\ req' = [req EXCEPT ![t] = NoReq]

\* bpm_latch_ is not held here.
Record(t) ==
    /\ step[t] = "record"
    /\ alive' = alive \cup {req[t].frame}
    /\ Goto(t, "pin")
    /\ UNCHANGED <<latchVars, tableVars, frameVars, evictable, disk, req, guards>>

\* The pin is counted before SetEvictable is called.
CountPin(t) ==
    /\ step[t] = "pin"
    /\ LatchFree
    /\ pin' = [pin EXCEPT ![req[t].frame] = @ + 1]
    /\ UNCHANGED <<latchVars, tableVars, data, dirty, alive, disk, guards>>

Pin(t) ==
    /\ CountPin(t)
    /\ req[t].frame \in alive
    /\ evictable' = evictable \ {req[t].frame}
    /\ Goto(t, "latch")
    /\ UNCHANGED req

\* SetEvictable throws std::logic_error out of the constructor: the destructor
\* of a guard that was never constructed does not run, and the pin stays.
PinThrows(t) ==
    /\ CountPin(t)
    /\ req[t].frame \notin alive
    /\ step' = [step EXCEPT ![t] = "threw"]
    /\ req' = [req EXCEPT ![t] = NoReq]
    /\ UNCHANGED evictable

\* The exception goes through the fetch to whoever asked for the page, and it is
\* the client that catches it: nothing in the pool does.
Catch(t) ==
    /\ step[t] = "threw"
    /\ Goto(t, "idle")
    /\ UNCHANGED <<latchVars, tableVars, frameVars, replVars, disk, req, guards>>

\* The rwlatch_ of frame f is held by those who have a guard on it.
Holders(f) == {t \in Threads : \E g \in guards[t] : g.frame = f}

\* Mutated form of CanLatch: a reader does not wait for a writer.
CanLatch_Reader(f, m) == \A t \in Threads : \A g \in guards[t] : g.frame = f => m = "read"

CanLatch(f, m) ==
    \A t \in Threads : \A g \in guards[t] : g.frame = f => m = "read" /\ g.mode = "read"

Latch(t) ==
    /\ step[t] = "latch"
    /\ CanLatch(req[t].frame, req[t].mode)
    /\ guards' = [guards EXCEPT ![t] = @ \cup {req[t]}]
    /\ Finish(t)
    /\ UNCHANGED <<latchVars, tableVars, frameVars, replVars, disk>>

-----------------------------------------------------------------------------
(* What a thread does with a guard.                                        *)

\* Mutated form of Marked: the frame is not marked.
Marked_Not(f) == dirty

Marked(f) == [dirty EXCEPT ![f] = TRUE]

\* GetDataMut marks the frame dirty and the caller overwrites it.
Write(t, g, v) ==
    /\ step[t] = "idle"
    /\ g.mode = "write"
    /\ data' = [data EXCEPT ![g.frame] = v]
    /\ dirty' = Marked(g.frame)
    /\ UNCHANGED <<latchVars, tableVars, pin, replVars, disk, step, req, guards>>

\* Flush of either guard: the frame's data goes to the guard's page.
GuardFlush(t, g) ==
    /\ step[t] = "idle"
    /\ disk' = [disk EXCEPT ![g.page] = data[g.frame]]
    /\ dirty' = [dirty EXCEPT ![g.frame] = FALSE]
    /\ UNCHANGED <<latchVars, tableVars, data, pin, replVars, step, req, guards>>

\* Drop, first half: rwlatch_ is released; the frame is still pinned.
Drop(t, g) ==
    /\ step[t] = "idle"
    /\ guards' = [guards EXCEPT ![t] = @ \ {g}]
    /\ req' = [req EXCEPT ![t] = g]
    /\ Goto(t, "unpin")
    /\ UNCHANGED <<latchVars, tableVars, frameVars, replVars, disk>>

\* Mutated forms of EvictableAfterUnpin: whatever the count is; or the count
\* is read before it is decremented.
EvictableAfterUnpin_Always(f) == evictable \cup {f}
EvictableAfterUnpin_Early(f) == IF pin[f] = 0 THEN evictable \cup {f} ELSE evictable

\* The last pin makes the frame evictable.
EvictableAfterUnpin(f) == IF pin[f] = 1 THEN evictable \cup {f} ELSE evictable

\* Drop, second half, under bpm_latch_.
Unpin(t) ==
    /\ step[t] = "unpin"
    /\ LatchFree
    /\ pin' = [pin EXCEPT ![req[t].frame] = @ - 1]
    /\ evictable' = EvictableAfterUnpin(req[t].frame)
    /\ Finish(t)
    /\ UNCHANGED <<latchVars, tableVars, data, dirty, alive, disk, guards>>

-----------------------------------------------------------------------------
(* FlushPage and FlushAllPages: bpm_latch_ is held from the first page to  *)
(* the last, and each frame's rwlatch_ is waited for under it.             *)

BeginFlush(t, pages) ==
    /\ step[t] = "idle"
    /\ LatchFree
    /\ pages # {}
    /\ bpmLatch' = t
    /\ toFlush' = pages
    /\ Goto(t, "flush")
    /\ UNCHANGED <<tableVars, frameVars, replVars, disk, req, guards>>

\* The rwlatch_ of the page's frame is free.
Quiet(p) == Holders(pageTable[p]) = {}

FlushOne(t) ==
    /\ step[t] = "flush"
    /\ \E p \in toFlush :
          /\ Quiet(p)
          /\ disk' = IF dirty[pageTable[p]] THEN [disk EXCEPT ![p] = data[pageTable[p]]] ELSE disk
          /\ dirty' = [dirty EXCEPT ![pageTable[p]] = FALSE]
          /\ toFlush' = toFlush \ {p}
    /\ IF toFlush' = {} THEN bpmLatch' = NoThread /\ Goto(t, "idle")
                        ELSE UNCHANGED <<bpmLatch, step>>
    /\ UNCHANGED <<tableVars, data, pin, replVars, req, guards>>

-----------------------------------------------------------------------------
(* The client: a thread never asks for a page it already guards (relocking *)
(* a shared_mutex one owns is undefined), nor flushes while it holds a     *)
(* guard.                                                                  *)

MayFetch(t, p) ==
    /\ Cardinality(guards[t]) < GuardLimit
    /\ \A g \in guards[t] : g.page # p

\* The steps of a call under way: the program takes them without the client's choice.
Proceed(t) ==
    \/ Record(t)
    \/ Pin(t)
    \/ PinThrows(t)
    \/ Catch(t)
    \/ Latch(t)
    \/ Unpin(t)
    \/ FlushOne(t)

Next ==
    \/ NewPage
    \/ \E t \in Threads :
          \/ \E p \in Pages, m \in Modes : MayFetch(t, p) /\ Lookup(t, p, m)
          \/ Proceed(t)
          \/ \E g \in guards[t], v \in Values : Write(t, g, v)
          \/ \E g \in guards[t] : GuardFlush(t, g)
          \/ \E g \in guards[t] : Drop(t, g)
          \/ guards[t] = {} /\ BeginFlush(t, Cached)
          \/ guards[t] = {} /\ \E p \in Cached : BeginFlush(t, {p})

Spec == Init /\ [][Next]_vars

\* A thread that is scheduled goes on with its call, and drops its guards in the end.
Fairness ==
    \A t \in Threads : WF_vars(Proceed(t)) /\ WF_vars(\E g \in guards[t] : Drop(t, g))
FairSpec == Spec /\ Fairness

-----------------------------------------------------------------------------
(* Properties                                                              *)

\* Every variable has its type.
TypeOK ==
    /\ bpmLatch \in Threads \cup {NoThread}
    /\ toFlush \subseteq Cached
    /\ nextPageId \in 0..PageBound
    /\ Cached \subseteq 0..(nextPageId - 1)
    /\ pageTable \in [Cached -> Frames]
    /\ freeFrames \subseteq Frames
    /\ data \in [Frames -> Values]
    /\ dirty \in [Frames -> BOOLEAN]
    /\ pin \in [Frames -> Nat]
    /\ alive \subseteq Frames /\ evictable \subseteq Frames
    /\ disk \in [Pages -> Values]
    /\ step \in [Threads -> Steps]
    /\ req \in [Threads -> Guard \cup {NoReq}]
    /\ guards \in [Threads -> SUBSET Guard]

\* A frame is either free or bound to exactly one page, whatever the threads do.
TableIsBijection ==
    /\ \A p, q \in Cached : pageTable[p] = pageTable[q] => p = q
    /\ {pageTable[p] : p \in Cached} = Frames \ freeFrames

\* The pins a thread is owed: one for each guard, one while it waits for the
\* rwlatch_ or is between the halves of a drop.
PinsOwed(f) ==
    {o \in Threads \X Guard :
        /\ o[2].frame = f
        /\ o[2] \in guards[o[1]] \/ (step[o[1]] \in {"latch", "unpin"} /\ req[o[1]] = o[2])}

\* pin_count_ never drops below the number of guards that rely on it (it may be
\* above: a constructor that threw leaves its pin).
PinsCoverGuards == \A f \in Frames : Cardinality(PinsOwed(f)) <= pin[f]

\* Only a frame nobody pins may be evicted (FILES_OVERVIEW.md:45), and the
\* replacer knows every frame a guard relies on, so the SetEvictable in a guard's
\* destructor cannot throw.
OnlyUnpinnedEvictable ==
    /\ \A f \in evictable : f \in alive /\ f \notin freeFrames /\ pin[f] = 0
    /\ \A f \in Frames : PinsOwed(f) # {} => f \in alive

\* While a thread holds a guard its frame stays bound to the page it was bound to.
GuardedFramesStay ==
    [][\A t \in Threads : \A g \in guards[t] \cap guards'[t] :
          \A p \in Cached : pageTable[p] = g.frame
              => p \in DOMAIN pageTable' /\ pageTable'[p] = g.frame]_vars

\* While a thread holds a guard the data under it changes only by that thread's
\* own write, made through a write guard.
GuardedDataStays ==
    [][\A t \in Threads : \A g \in guards[t] \cap guards'[t] :
          data'[g.frame] # data[g.frame] => \E v \in Values : Write(t, g, v)]_vars

\* A flush that holds bpm_latch_ gives it back.
FlushReturns == \A t \in Threads : bpmLatch = t ~> bpmLatch # t

\* A guard for a page is a guard on the frame that holds it (FILES_OVERVIEW.md:152).
GuardsMatch ==
    \A t \in Threads : \A g \in guards[t] : g.page \in Cached /\ pageTable[g.page] = g.frame

\* The assertion in SetEvictable: a frame about to be pinned is known to the replacer.
PinFindsFrame == \A t \in Threads : step[t] # "threw"
=============================================================================
