----------------------------- MODULE PoolProofs -----------------------------
(***************************************************************************)
(* Proofs about the pool, for any number of threads, frames and pages.     *)
(*                                                                         *)
(* First about BufferPool, whatever the threads do in the window between a *)
(* lookup and its pin: the page table stays a bijection, pins cover the    *)
(* guards, only unpinned frames are evictable, and neither the binding nor *)
(* the data of a guarded frame changes behind the guard's back.            *)
(*                                                                         *)
(* Then about TreePool: under the header-page discipline the window is     *)
(* harmless, and the pool implements the store of locked pages of          *)
(* PageStore.                                                              *)
(***************************************************************************)
EXTENDS TreePool, FiniteSetTheorems, TLAPS

-----------------------------------------------------------------------------
(* BufferPool: the inductive invariant                                     *)

\* A thread whose request names a page and a frame.
InCall(t) == step[t] \in {"record", "pin", "latch", "unpin"}

\* A thread guards a page once, and does not ask for one that it guards.
CallsOK ==
    \A t \in Threads :
        /\ InCall(t) => req[t] \in Guard /\ \A g \in guards[t] : g.page # req[t].page
        /\ \A g, h \in guards[t] : g.page = h.page => g = h

\* bpm_latch_ is kept between two steps by a flush and by nothing else.
FlushOK ==
    /\ \A t \in Threads : step[t] = "flush" <=> bpmLatch = t
    /\ LatchFree => toFlush = {}

\* Nobody has anything to do with a free frame.
FreeUnused ==
    \A f \in freeFrames :
        /\ f \notin alive
        /\ \A t \in Threads : InCall(t) => req[t].frame # f

\* A write guard is the only guard on its frame.
LatchesExclusive ==
    \A t, u \in Threads : \A g \in guards[t], h \in guards[u] :
        g.frame = h.frame => (t = u /\ g = h) \/ (g.mode = "read" /\ h.mode = "read")

\* PinsCoverGuards, with what it takes to count.
PinsCounted ==
    \A f \in Frames : IsFiniteSet(PinsOwed(f)) /\ Cardinality(PinsOwed(f)) <= pin[f]

IInv ==
    TypeOK /\ TableIsBijection /\ CallsOK /\ FlushOK /\ FreeUnused /\ LatchesExclusive
    /\ PinsCounted /\ OnlyUnpinnedEvictable

-----------------------------------------------------------------------------
(* BufferPool: lemmas                                                      *)

\* Who is owed a pin.
LEMMA OwedMember ==
  ASSUME TypeOK, NEW t \in Threads, NEW g, NEW f
  PROVE  <<t, g>> \in PinsOwed(f) <=>
            /\ g \in Guard /\ g.frame = f
            /\ g \in guards[t] \/ (step[t] \in {"latch", "unpin"} /\ req[t] = g)
BY DEF PinsOwed

\* A frame that may be given away - a free one, or an evictable one - is owed no
\* pin: no guard is on it and nobody waits for its rwlatch_.
LEMMA GivenAwayUnused ==
  ASSUME IInv, NEW f \in freeFrames \cup evictable
  PROVE  f \in Frames /\ PinsOwed(f) = {} /\ \A t \in Threads : \A g \in guards[t] : g.frame # f
<1>1. f \in Frames
  BY DEF IInv, TypeOK
<1>2. PinsOwed(f) = {}
  <2>1. CASE f \in freeFrames
    BY <2>1, <1>1 DEF IInv, FreeUnused, OnlyUnpinnedEvictable
  <2>2. CASE f \in evictable
    <3>1. IsFiniteSet(PinsOwed(f)) /\ Cardinality(PinsOwed(f)) <= 0
      BY <2>2, <1>1 DEF IInv, PinsCounted, OnlyUnpinnedEvictable
    <3>2. Cardinality(PinsOwed(f)) = 0
      BY <3>1, FS_CardinalityType
    <3> QED BY <3>1, <3>2, FS_EmptySet
  <2> QED BY <2>1, <2>2
<1>3. ASSUME NEW t \in Threads, NEW g \in guards[t], g.frame = f PROVE FALSE
  <2>1. g \in Guard
    BY DEF IInv, TypeOK
  <2>2. <<t, g>> \in PinsOwed(f)
    BY <1>3, <2>1, OwedMember DEF IInv
  <2> QED BY <1>2, <2>2
<1> QED BY <1>1, <1>2, <1>3

\* The pins owed depend on the guards and on the calls that have or had one.
LEMMA OwedSame ==
  ASSUME guards' = guards,
         \A t \in Threads : \/ UNCHANGED <<step[t], req[t]>>
                            \/ step[t] \notin {"latch", "unpin"} /\ step[t]' \notin {"latch", "unpin"}
  PROVE  \A f : PinsOwed(f)' = PinsOwed(f)
BY DEF PinsOwed

\* The invariant holds initially.
LEMMA InitIInv == Init => IInv
<1> SUFFICES ASSUME Init PROVE IInv
  OBVIOUS
<1>1. TypeOK /\ TableIsBijection /\ CallsOK /\ FreeUnused /\ LatchesExclusive
  BY PoolAssumption DEF Init, TypeOK, Cached, Steps, TableIsBijection, CallsOK, InCall, FreeUnused,
     LatchesExclusive, Pages
<1>2. FlushOK
  BY PoolAssumption DEF Init, FlushOK, LatchFree
<1>3. \A f : PinsOwed(f) = {}
  BY DEF Init, PinsOwed
<1>4. PinsCounted /\ OnlyUnpinnedEvictable
  <2>1. PinsCounted
    <3> SUFFICES ASSUME NEW f \in Frames
                 PROVE  IsFiniteSet(PinsOwed(f)) /\ Cardinality(PinsOwed(f)) <= pin[f]
      BY DEF PinsCounted
    <3>1. IsFiniteSet(PinsOwed(f)) /\ Cardinality(PinsOwed(f)) = 0
      BY <1>3, FS_EmptySet
    <3>2. pin[f] = 0
      BY DEF Init
    <3> QED BY <3>1, <3>2
  <2> QED BY <2>1, <1>3 DEF Init, OnlyUnpinnedEvictable
<1> QED BY <1>1, <1>2, <1>4 DEF IInv

-----------------------------------------------------------------------------
(* BufferPool: the steps                                                   *)

\* A new page id is beyond everything in the page table.
LEMMA NewPageStep == IInv /\ NewPage => IInv'
<1> SUFFICES ASSUME IInv, NewPage PROVE IInv'
  OBVIOUS
<1> USE DEF NewPage, latchVars, frameVars, replVars
<1>1. TypeOK'
  BY PoolAssumption DEF IInv, TypeOK, Cached
<1>2. \A f : PinsOwed(f)' = PinsOwed(f)
  BY OwedSame
<1>3. PinsCounted' /\ OnlyUnpinnedEvictable'
  BY <1>2 DEF IInv, PinsCounted, OnlyUnpinnedEvictable
<1>4. TableIsBijection' /\ CallsOK' /\ FlushOK' /\ FreeUnused' /\ LatchesExclusive'
  BY DEF IInv, TableIsBijection, Cached, CallsOK, InCall, FlushOK, LatchFree, FreeUnused,
     LatchesExclusive
<1> QED BY <1>1, <1>3, <1>4 DEF IInv

\* A hit only starts a call, on a frame that is not free.
LEMMA LookupHitStep ==
  ASSUME IInv, NEW t \in Threads, NEW p \in Pages, NEW m \in Modes,
         step[t] = "idle", LatchFree, MayFetch(t, p), LookupHit(t, p, m)
  PROVE  IInv'
<1> USE DEF LookupHit, Request, latchVars, frameVars, replVars
<1>1. pageTable[p] \in Frames /\ [page |-> p, frame |-> pageTable[p], mode |-> m] \in Guard
      /\ pageTable[p] \notin freeFrames
  BY DEF IInv, TypeOK, Guard, TableIsBijection
<1>2. TypeOK'
  BY <1>1 DEF IInv, TypeOK, Steps, Cached
<1>3. \A f : PinsOwed(f)' = PinsOwed(f)
  BY OwedSame DEF IInv, TypeOK
<1>4. PinsCounted' /\ OnlyUnpinnedEvictable'
  BY <1>3 DEF IInv, PinsCounted, OnlyUnpinnedEvictable
<1>5. TableIsBijection' /\ LatchesExclusive'
  BY DEF IInv, TableIsBijection, Cached, LatchesExclusive
<1>6. CallsOK' /\ FreeUnused'
  BY <1>1 DEF IInv, TypeOK, CallsOK, FreeUnused, InCall, MayFetch
<1>7. FlushOK'
  BY PoolAssumption DEF IInv, TypeOK, FlushOK, LatchFree
<1> QED BY <1>2, <1>4, <1>5, <1>6, <1>7 DEF IInv

\* What both kinds of miss have in common: frame f, which nobody uses, now holds
\* page p.
LEMMA LoadStep ==
  ASSUME IInv, NEW t \in Threads, NEW p \in Pages, NEW m \in Modes,
         step[t] = "idle", LatchFree, MayFetch(t, p), Issued(p), p \notin Cached,
         NEW f \in freeFrames \cup evictable,
         Load(p, f), Request(t, p, f, m),
         freeFrames' = freeFrames \ {f}, alive' = alive \ {f}, evictable' = evictable \ {f},
         disk' \in [Pages -> Values]
  PROVE  IInv'
<1> USE DEF Load, Request, latchVars
<1>1. f \in Frames /\ PinsOwed(f) = {} /\ [page |-> p, frame |-> f, mode |-> m] \in Guard
  BY GivenAwayUnused DEF Guard
<1>2. /\ DOMAIN pageTable' = {p} \cup {q \in Cached : pageTable[q] # f}
      /\ pageTable'[p] = f
      /\ \A q \in Cached : pageTable[q] # f => pageTable'[q] = pageTable[q]
      /\ pageTable' = [q \in DOMAIN pageTable' |-> pageTable'[q]]
  BY DEF Rebound
<1>3. toFlush = {}
  BY DEF IInv, FlushOK
<1>4. TypeOK'
  <2>1. Cached' \subseteq 0..(nextPageId' - 1) /\ pageTable' \in [Cached' -> Frames]
        /\ toFlush' \subseteq Cached'
    BY <1>1, <1>2, <1>3 DEF IInv, TypeOK, Cached, Issued, Pages
  <2>2. data' \in [Frames -> Values] /\ dirty' \in [Frames -> BOOLEAN] /\ pin' \in [Frames -> Nat]
    BY <1>1 DEF IInv, TypeOK
  <2>3. step' \in [Threads -> Steps] /\ req' \in [Threads -> Guard \cup {NoReq}]
    BY <1>1 DEF IInv, TypeOK, Steps
  <2> QED BY <2>1, <2>2, <2>3 DEF IInv, TypeOK
<1>5. \A h : PinsOwed(h)' = PinsOwed(h)
  BY OwedSame DEF IInv, TypeOK
<1>6. PinsCounted'
  <2> SUFFICES ASSUME NEW h \in Frames
               PROVE  IsFiniteSet(PinsOwed(h)) /\ Cardinality(PinsOwed(h)) <= pin'[h]
    BY <1>5 DEF PinsCounted
  <2>1. CASE h = f
    BY <2>1, <1>1, FS_EmptySet DEF IInv, TypeOK
  <2>2. CASE h # f
    BY <2>2 DEF IInv, TypeOK, PinsCounted
  <2> QED BY <2>1, <2>2
<1>7. OnlyUnpinnedEvictable'
  BY <1>1, <1>5 DEF IInv, TypeOK, OnlyUnpinnedEvictable
<1>8. TableIsBijection'
  <2>1. \A q, r \in Cached' : pageTable'[q] = pageTable'[r] => q = r
    BY <1>2 DEF IInv, TableIsBijection, Cached
  <2>2. {pageTable'[q] : q \in Cached'} = {pageTable[q] : q \in Cached} \cup {f}
    BY <1>2 DEF Cached
  <2>3. {pageTable[q] : q \in Cached} = Frames \ freeFrames
    BY DEF IInv, TableIsBijection
  <2> QED BY <1>1, <2>1, <2>2, <2>3 DEF TableIsBijection
<1>9. CallsOK' /\ FreeUnused'
  BY <1>1 DEF IInv, TypeOK, CallsOK, FreeUnused, InCall, MayFetch
<1>10. FlushOK' /\ LatchesExclusive'
  BY PoolAssumption DEF IInv, TypeOK, FlushOK, LatchFree, LatchesExclusive
<1> QED BY <1>4, <1>6, <1>7, <1>8, <1>9, <1>10 DEF IInv

\* The three ways a lookup goes, each reduced to a hit or to a load.
LEMMA LookupStep ==
  ASSUME IInv, NEW t \in Threads, NEW p \in Pages, NEW m \in Modes, MayFetch(t, p), Lookup(t, p, m)
  PROVE  IInv'
<1> USE DEF Lookup
<1>1. CASE LookupHit(t, p, m)
  BY <1>1, LookupHitStep
<1>2. CASE LookupFree(t, p, m)
  <2>1. PICK f \in freeFrames : /\ freeFrames' = freeFrames \ {f} /\ disk' = disk
                                /\ Load(p, f) /\ Request(t, p, f, m)
    BY <1>2 DEF LookupFree
  <2>2. f \notin alive /\ f \notin evictable
    BY DEF IInv, FreeUnused, OnlyUnpinnedEvictable
  <2>3. alive' = alive \ {f} /\ evictable' = evictable \ {f} /\ disk' \in [Pages -> Values]
    BY <1>2, <2>1, <2>2 DEF LookupFree, replVars, IInv, TypeOK
  <2> QED BY <1>2, <2>1, <2>3, LoadStep DEF LookupFree
<1>3. CASE LookupEvict(t, p, m)
  <2>1. PICK f \in evictable : /\ alive' = alive \ {f} /\ evictable' = evictable \ {f}
                               /\ disk' = WrittenBack(f)
                               /\ Load(p, f) /\ Request(t, p, f, m)
    BY <1>3 DEF LookupEvict
  <2>2. freeFrames' = freeFrames \ {f}
    BY <1>3 DEF LookupEvict
  <2>3. disk' \in [Pages -> Values]
    BY <2>1 DEF WrittenBack, IInv, TypeOK
  <2> QED BY <1>3, <2>1, <2>2, <2>3, LoadStep DEF LookupEvict
<1> QED BY <1>1, <1>2, <1>3

\* The page table and the free frames are as they were, and so is who has
\* something to do with which frame.
LEMMA RecordStep ==
  ASSUME IInv, NEW t \in Threads, Record(t)
  PROVE  IInv'
<1> USE DEF Record, Goto, latchVars, tableVars, frameVars
<1>1. req[t] \in Guard /\ req[t].frame \in Frames /\ req[t].frame \notin freeFrames
  BY DEF IInv, CallsOK, InCall, FreeUnused, Guard
<1>2. TypeOK'
  BY <1>1 DEF IInv, TypeOK, Steps, Cached
<1>3. \A f : PinsOwed(f)' = PinsOwed(f)
  BY OwedSame DEF IInv, TypeOK
<1>4. PinsCounted' /\ OnlyUnpinnedEvictable'
  BY <1>3 DEF IInv, PinsCounted, OnlyUnpinnedEvictable
<1>5. TableIsBijection' /\ LatchesExclusive'
  BY DEF IInv, TableIsBijection, Cached, LatchesExclusive
<1>6. CallsOK' /\ FreeUnused'
  BY <1>1 DEF IInv, TypeOK, CallsOK, FreeUnused, InCall
<1>7. FlushOK'
  BY PoolAssumption DEF IInv, TypeOK, FlushOK, LatchFree
<1> QED BY <1>2, <1>4, <1>5, <1>6, <1>7 DEF IInv

\* The pin is counted for the thread that now waits for the rwlatch_.
LEMMA PinStep ==
  ASSUME IInv, NEW t \in Threads, Pin(t)
  PROVE  IInv'
<1> USE DEF Pin, CountPin, Goto, latchVars, tableVars
<1>1. req[t] \in Guard /\ req[t].frame \in Frames
  BY DEF IInv, CallsOK, InCall, Guard
<1>2. TypeOK'
  BY <1>1 DEF IInv, TypeOK, Steps, Cached
<1>3. \A f : PinsOwed(f)' \subseteq IF f = req[t].frame THEN PinsOwed(f) \cup {<<t, req[t]>>} ELSE PinsOwed(f)
  BY DEF IInv, TypeOK, PinsOwed
<1>4. PinsCounted'
  <2> SUFFICES ASSUME NEW f \in Frames
               PROVE  IsFiniteSet(PinsOwed(f)') /\ Cardinality(PinsOwed(f)') <= pin'[f]
    BY DEF PinsCounted
  <2>1. IsFiniteSet(PinsOwed(f)) /\ Cardinality(PinsOwed(f)) \in Nat /\ Cardinality(PinsOwed(f)) <= pin[f]
    BY FS_CardinalityType DEF IInv, PinsCounted
  <2>2. CASE f # req[t].frame
    <3>1. PinsOwed(f)' \in SUBSET PinsOwed(f) /\ pin'[f] = pin[f]
      BY <2>2, <1>3 DEF IInv, TypeOK
    <3>2. IsFiniteSet(PinsOwed(f)') /\ Cardinality(PinsOwed(f)') <= Cardinality(PinsOwed(f))
          /\ Cardinality(PinsOwed(f)') \in Nat
      BY <2>1, <3>1, FS_Subset, FS_CardinalityType
    <3> QED BY <2>1, <3>1, <3>2 DEF IInv, TypeOK
  <2>3. CASE f = req[t].frame
    <3> DEFINE S == PinsOwed(f) \cup {<<t, req[t]>>}
    <3>1. IsFiniteSet(S) /\ Cardinality(S) <= Cardinality(PinsOwed(f)) + 1 /\ Cardinality(S) \in Nat
      <4>1. IsFiniteSet(S)
            /\ Cardinality(S) = IF <<t, req[t]>> \in PinsOwed(f) THEN Cardinality(PinsOwed(f))
                                ELSE Cardinality(PinsOwed(f)) + 1
        BY <2>1, FS_AddElement
      <4> QED BY <2>1, <4>1
    <3>2. PinsOwed(f)' \in SUBSET S /\ pin'[f] = pin[f] + 1
      BY <2>3, <1>3 DEF IInv, TypeOK
    <3> HIDE DEF S
    <3>3. IsFiniteSet(PinsOwed(f)') /\ Cardinality(PinsOwed(f)') <= Cardinality(S)
          /\ Cardinality(PinsOwed(f)') \in Nat
      BY <3>1, <3>2, FS_Subset, FS_CardinalityType
    <3> QED BY <2>1, <3>1, <3>2, <3>3 DEF IInv, TypeOK
  <2> QED BY <2>2, <2>3
<1>5. OnlyUnpinnedEvictable'
  BY <1>1, <1>3 DEF IInv, TypeOK, OnlyUnpinnedEvictable
<1>6. TableIsBijection' /\ LatchesExclusive'
  BY DEF IInv, TableIsBijection, Cached, LatchesExclusive
<1>7. CallsOK' /\ FreeUnused'
  BY <1>1 DEF IInv, TypeOK, CallsOK, FreeUnused, InCall
<1>8. FlushOK'
  BY PoolAssumption DEF IInv, TypeOK, FlushOK, LatchFree
<1> QED BY <1>2, <1>4, <1>5, <1>6, <1>7, <1>8 DEF IInv

\* The pin that is left behind makes the count too high, never too low.
LEMMA PinThrowsStep ==
  ASSUME IInv, NEW t \in Threads, PinThrows(t)
  PROVE  IInv'
<1> USE DEF PinThrows, CountPin, latchVars, tableVars
<1>1. req[t] \in Guard /\ req[t].frame \in Frames
  BY DEF IInv, CallsOK, InCall, Guard
<1>2. TypeOK'
  BY <1>1 DEF IInv, TypeOK, Steps, Cached
<1>3. \A f : PinsOwed(f)' = PinsOwed(f)
  BY OwedSame DEF IInv, TypeOK
<1>4. PinsCounted'
  <2> SUFFICES ASSUME NEW f \in Frames
               PROVE  IsFiniteSet(PinsOwed(f)) /\ Cardinality(PinsOwed(f)) <= pin'[f]
    BY <1>3 DEF PinsCounted
  <2>1. IsFiniteSet(PinsOwed(f)) /\ Cardinality(PinsOwed(f)) \in Nat /\ Cardinality(PinsOwed(f)) <= pin[f]
    BY FS_CardinalityType DEF IInv, PinsCounted
  <2>2. pin[f] \in Nat /\ pin'[f] \in {pin[f], pin[f] + 1}
    BY DEF IInv, TypeOK
  <2> QED BY <2>1, <2>2
<1>5. OnlyUnpinnedEvictable'
  BY <1>1, <1>3 DEF IInv, TypeOK, OnlyUnpinnedEvictable
<1>6. TableIsBijection' /\ LatchesExclusive'
  BY DEF IInv, TableIsBijection, Cached, LatchesExclusive
<1>7. CallsOK' /\ FreeUnused'
  BY <1>1 DEF IInv, TypeOK, CallsOK, FreeUnused, InCall
<1>8. FlushOK'
  BY PoolAssumption DEF IInv, TypeOK, FlushOK, LatchFree
<1> QED BY <1>2, <1>4, <1>5, <1>6, <1>7, <1>8 DEF IInv

\* A thread that threw is owed nothing.
LEMMA CatchStep ==
  ASSUME IInv, NEW t \in Threads, Catch(t)
  PROVE  IInv'
<1> USE DEF Catch, Goto, latchVars, tableVars, frameVars, replVars
<1>1. TypeOK'
  BY DEF IInv, TypeOK, Steps, Cached
<1>2. \A f : PinsOwed(f)' = PinsOwed(f)
  BY OwedSame DEF IInv, TypeOK
<1>3. PinsCounted' /\ OnlyUnpinnedEvictable'
  BY <1>2 DEF IInv, PinsCounted, OnlyUnpinnedEvictable
<1>4. TableIsBijection' /\ LatchesExclusive'
  BY DEF IInv, TableIsBijection, Cached, LatchesExclusive
<1>5. CallsOK' /\ FreeUnused'
  BY DEF IInv, TypeOK, CallsOK, FreeUnused, InCall
<1>6. FlushOK'
  BY PoolAssumption DEF IInv, TypeOK, FlushOK, LatchFree
<1> QED BY <1>1, <1>3, <1>4, <1>5, <1>6 DEF IInv

\* The guard takes over the pin of the call.
LEMMA LatchStep ==
  ASSUME IInv, NEW t \in Threads, Latch(t)
  PROVE  IInv'
<1> USE DEF Latch, Finish, Goto, latchVars, tableVars, frameVars, replVars
<1>1. req[t] \in Guard /\ \A g \in guards[t] : g.page # req[t].page
  BY DEF IInv, CallsOK, InCall
<1>2. TypeOK'
  BY <1>1 DEF IInv, TypeOK, Steps, Cached
<1>5. ASSUME NEW f PROVE PinsOwed(f)' = PinsOwed(f)
  <2>1. PinsOwed(f)' \subseteq PinsOwed(f)
    BY ReqAssumption, <1>1 DEF IInv, TypeOK, PinsOwed
  <2>2. PinsOwed(f) \subseteq PinsOwed(f)'
    BY ReqAssumption, <1>1 DEF IInv, TypeOK, PinsOwed
  <2> QED BY <2>1, <2>2
<1>6. PinsCounted' /\ OnlyUnpinnedEvictable'
  BY <1>5 DEF IInv, PinsCounted, OnlyUnpinnedEvictable
<1>7. LatchesExclusive'
  BY <1>1 DEF IInv, TypeOK, LatchesExclusive, CanLatch
<1>8. TableIsBijection' /\ FreeUnused'
  BY DEF IInv, TypeOK, TableIsBijection, Cached, FreeUnused, InCall
<1>9. CallsOK'
  BY <1>1 DEF IInv, TypeOK, CallsOK, InCall
<1>10. FlushOK'
  BY PoolAssumption DEF IInv, TypeOK, FlushOK, LatchFree
<1> QED BY <1>2, <1>6, <1>7, <1>8, <1>9, <1>10 DEF IInv

\* Write and the flush of a guard touch only the data, the flag and the disk.
LEMMA DataStep ==
  ASSUME IInv, UNCHANGED <<latchVars, tableVars, pin, replVars, step, req, guards>>,
         data' \in [Frames -> Values], dirty' \in [Frames -> BOOLEAN], disk' \in [Pages -> Values]
  PROVE  IInv'
<1> USE DEF latchVars, tableVars, replVars
<1>1. TypeOK'
  BY DEF IInv, TypeOK, Cached
<1>2. \A f : PinsOwed(f)' = PinsOwed(f)
  BY OwedSame
<1>3. PinsCounted' /\ OnlyUnpinnedEvictable'
  BY <1>2 DEF IInv, PinsCounted, OnlyUnpinnedEvictable
<1>4. TableIsBijection' /\ CallsOK' /\ FlushOK' /\ FreeUnused' /\ LatchesExclusive'
  BY DEF IInv, TableIsBijection, Cached, CallsOK, InCall, FlushOK, LatchFree, FreeUnused,
     LatchesExclusive
<1> QED BY <1>1, <1>3, <1>4 DEF IInv

\* A write through a guard stays within its frame.
LEMMA WriteStep ==
  ASSUME IInv, NEW t \in Threads, NEW g \in guards[t], NEW v \in Values, Write(t, g, v)
  PROVE  IInv'
<1>1. g.frame \in Frames
  BY DEF IInv, TypeOK, Guard
<1> QED BY <1>1, DataStep DEF Write, Marked, IInv, TypeOK, latchVars, tableVars, replVars

\* The flush of a guard stays within its frame and its page.
LEMMA GuardFlushStep ==
  ASSUME IInv, NEW t \in Threads, NEW g \in guards[t], GuardFlush(t, g)
  PROVE  IInv'
<1>1. g.frame \in Frames /\ g.page \in Pages
  BY DEF IInv, TypeOK, Guard
<1> QED BY <1>1, DataStep DEF GuardFlush, IInv, TypeOK, latchVars, tableVars, replVars

\* The dropped guard leaves its pin to the second half of the drop.
LEMMA DropStep ==
  ASSUME IInv, NEW t \in Threads, NEW g \in guards[t], Drop(t, g)
  PROVE  IInv'
<1> USE DEF Drop, Goto, latchVars, tableVars, frameVars, replVars
<1>1. g \in Guard /\ g.frame \in Frames /\ g.frame \notin freeFrames
  <2>1. g \in Guard /\ g.frame \in Frames
    BY DEF IInv, TypeOK, Guard
  <2> QED BY <2>1, GivenAwayUnused
<1>2. TypeOK'
  BY <1>1 DEF IInv, TypeOK, Steps, Cached
<1>5. ASSUME NEW f PROVE PinsOwed(f)' = PinsOwed(f)
  <2>1. PinsOwed(f)' \subseteq PinsOwed(f)
    BY <1>1 DEF IInv, TypeOK, PinsOwed
  <2>2. PinsOwed(f) \subseteq PinsOwed(f)'
    BY <1>1 DEF IInv, TypeOK, PinsOwed
  <2> QED BY <2>1, <2>2
<1>6. PinsCounted' /\ OnlyUnpinnedEvictable'
  BY <1>5 DEF IInv, PinsCounted, OnlyUnpinnedEvictable
<1>7. TableIsBijection' /\ LatchesExclusive'
  BY DEF IInv, TypeOK, TableIsBijection, Cached, LatchesExclusive
<1>8. CallsOK' /\ FreeUnused'
  BY <1>1 DEF IInv, TypeOK, CallsOK, FreeUnused, InCall
<1>9. FlushOK'
  BY PoolAssumption DEF IInv, TypeOK, FlushOK, LatchFree
<1> QED BY <1>2, <1>6, <1>7, <1>8, <1>9 DEF IInv

\* The pin goes with the call; the frame becomes evictable when it was the last.
LEMMA UnpinStep ==
  ASSUME IInv, NEW t \in Threads, Unpin(t)
  PROVE  IInv'
<1> DEFINE f == req[t].frame
           o == <<t, req[t]>>
<1> USE DEF Unpin, Finish, Goto, latchVars, tableVars
<1>1. req[t] \in Guard /\ f \in Frames /\ req[t] \notin guards[t]
  BY DEF IInv, CallsOK, InCall, Guard
<1>2. o \in PinsOwed(f) /\ IsFiniteSet(PinsOwed(f))
  BY <1>1, OwedMember DEF IInv, PinsCounted
<1>3. /\ Cardinality(PinsOwed(f)) \in Nat /\ Cardinality(PinsOwed(f)) >= 1
      /\ Cardinality(PinsOwed(f)) <= pin[f] /\ pin[f] \in Nat
      /\ IsFiniteSet(PinsOwed(f) \ {o})
      /\ Cardinality(PinsOwed(f) \ {o}) = Cardinality(PinsOwed(f)) - 1
  <2>1. Cardinality(PinsOwed(f)) \in Nat /\ Cardinality(PinsOwed(f)) # 0
    BY <1>2, FS_CardinalityType, FS_EmptySet
  <2>2. IsFiniteSet(PinsOwed(f) \ {o}) /\ Cardinality(PinsOwed(f) \ {o}) = Cardinality(PinsOwed(f)) - 1
    BY <1>2, FS_RemoveElement
  <2> QED BY <1>1, <2>1, <2>2 DEF IInv, PinsCounted, TypeOK
<1>4. f \in alive /\ f \notin freeFrames
  BY <1>1, <1>2 DEF IInv, OnlyUnpinnedEvictable, FreeUnused, InCall
<1>5. TypeOK'
  BY <1>1, <1>3 DEF IInv, TypeOK, Steps, Cached, EvictableAfterUnpin
<1>6. \A h : PinsOwed(h)' \subseteq IF h = f THEN PinsOwed(h) \ {o} ELSE PinsOwed(h)
  BY <1>1 DEF IInv, TypeOK, PinsOwed
<1>7. PinsCounted'
  <2> SUFFICES ASSUME NEW h \in Frames
               PROVE  IsFiniteSet(PinsOwed(h)') /\ Cardinality(PinsOwed(h)') <= pin'[h]
    BY DEF PinsCounted
  <2>1. CASE h = f
    <3>1. PinsOwed(h)' \in SUBSET (PinsOwed(f) \ {o}) /\ pin'[h] = pin[f] - 1
      BY <2>1, <1>1, <1>6 DEF IInv, TypeOK
    <3>2. IsFiniteSet(PinsOwed(h)') /\ Cardinality(PinsOwed(h)') <= Cardinality(PinsOwed(f) \ {o})
          /\ Cardinality(PinsOwed(h)') \in Nat
      BY <3>1, <1>3, FS_Subset, FS_CardinalityType
    <3> QED BY <3>1, <3>2, <1>3
  <2>2. CASE h # f
    <3>1. PinsOwed(h)' \in SUBSET PinsOwed(h) /\ pin'[h] = pin[h] /\ pin[h] \in Nat
      BY <2>2, <1>1, <1>6 DEF IInv, TypeOK
    <3>2. IsFiniteSet(PinsOwed(h)) /\ Cardinality(PinsOwed(h)) <= pin[h] /\ Cardinality(PinsOwed(h)) \in Nat
      BY FS_CardinalityType DEF IInv, PinsCounted
    <3>3. IsFiniteSet(PinsOwed(h)') /\ Cardinality(PinsOwed(h)') <= Cardinality(PinsOwed(h))
          /\ Cardinality(PinsOwed(h)') \in Nat
      BY <3>1, <3>2, FS_Subset, FS_CardinalityType
    <3> QED BY <3>1, <3>2, <3>3
  <2> QED BY <2>1, <2>2
<1>8. OnlyUnpinnedEvictable'
  <2>1. ASSUME NEW h \in evictable' PROVE h \in alive /\ h \notin freeFrames /\ pin'[h] = 0
    <3>1. CASE h = f
      <4>1. f \notin evictable
        BY <1>3 DEF IInv, OnlyUnpinnedEvictable
      <4>2. pin[f] = 1
        BY <2>1, <3>1, <4>1 DEF EvictableAfterUnpin
      <4> QED BY <3>1, <4>2, <1>1, <1>4 DEF IInv, TypeOK
    <3>2. CASE h # f
      <4>1. h \in evictable /\ h \in Frames
        BY <2>1, <3>2 DEF EvictableAfterUnpin, IInv, TypeOK
      <4> QED BY <3>2, <4>1, <1>1 DEF IInv, OnlyUnpinnedEvictable, TypeOK
    <3> QED BY <3>1, <3>2
  <2>2. ASSUME NEW h \in Frames, PinsOwed(h)' # {} PROVE h \in alive
    BY <2>2, <1>6 DEF IInv, OnlyUnpinnedEvictable
  <2> QED BY <2>1, <2>2 DEF OnlyUnpinnedEvictable
<1>9. TableIsBijection' /\ LatchesExclusive'
  BY DEF IInv, TableIsBijection, Cached, LatchesExclusive
<1>10. CallsOK' /\ FreeUnused'
  BY <1>1 DEF IInv, TypeOK, CallsOK, FreeUnused, InCall
<1>11. FlushOK'
  BY PoolAssumption DEF IInv, TypeOK, FlushOK, LatchFree
<1> QED BY <1>5, <1>7, <1>8, <1>9, <1>10, <1>11 DEF IInv

\* A flush of the pool takes bpm_latch_ and nothing else.
LEMMA BeginFlushStep ==
  ASSUME IInv, NEW t \in Threads, NEW pages, pages \subseteq Cached, BeginFlush(t, pages)
  PROVE  IInv'
<1> USE DEF BeginFlush, Goto, tableVars, frameVars, replVars
<1>1. TypeOK'
  BY DEF IInv, TypeOK, Steps, Cached
<1>2. \A f : PinsOwed(f)' = PinsOwed(f)
  BY OwedSame DEF IInv, TypeOK
<1>3. PinsCounted' /\ OnlyUnpinnedEvictable'
  BY <1>2 DEF IInv, PinsCounted, OnlyUnpinnedEvictable
<1>4. TableIsBijection' /\ LatchesExclusive'
  BY DEF IInv, TableIsBijection, Cached, LatchesExclusive
<1>5. CallsOK' /\ FreeUnused'
  BY DEF IInv, TypeOK, CallsOK, FreeUnused, InCall
<1>6. FlushOK'
  BY PoolAssumption DEF IInv, TypeOK, FlushOK, LatchFree
<1> QED BY <1>1, <1>3, <1>4, <1>5, <1>6 DEF IInv

\* A flush of the pool writes pages back and keeps or returns bpm_latch_.
LEMMA FlushOneStep ==
  ASSUME IInv, NEW t \in Threads, FlushOne(t)
  PROVE  IInv'
<1> USE DEF FlushOne, Goto, tableVars, replVars
<1>1. bpmLatch = t
  BY DEF IInv, FlushOK
<1>2. PICK p \in toFlush :
        /\ disk' = IF dirty[pageTable[p]] THEN [disk EXCEPT ![p] = data[pageTable[p]]] ELSE disk
        /\ dirty' = [dirty EXCEPT ![pageTable[p]] = FALSE]
        /\ toFlush' = toFlush \ {p}
  OBVIOUS
<1>3. p \in Pages /\ p \in Cached /\ pageTable[p] \in Frames
  BY PoolAssumption DEF IInv, TypeOK, Pages
<1>4. /\ disk' \in [Pages -> Values] /\ dirty' \in [Frames -> BOOLEAN]
      /\ bpmLatch' \in Threads \cup {NoThread} /\ step' \in [Threads -> Steps]
  BY <1>2, <1>3 DEF IInv, TypeOK, Steps
<1>5. TypeOK'
  BY <1>2, <1>4 DEF IInv, TypeOK, Cached
<1>6. \A f : PinsOwed(f)' = PinsOwed(f)
  BY OwedSame DEF IInv, TypeOK
<1>7. PinsCounted' /\ OnlyUnpinnedEvictable'
  BY <1>6 DEF IInv, PinsCounted, OnlyUnpinnedEvictable
<1>8. TableIsBijection' /\ LatchesExclusive'
  BY DEF IInv, TableIsBijection, Cached, LatchesExclusive
<1>9. CallsOK' /\ FreeUnused'
  BY DEF IInv, TypeOK, CallsOK, FreeUnused, InCall
<1>10. FlushOK'
  BY <1>1, <1>2, PoolAssumption DEF IInv, TypeOK, FlushOK, LatchFree
<1> QED BY <1>5, <1>7, <1>8, <1>9, <1>10 DEF IInv

-----------------------------------------------------------------------------
(* BufferPool: the theorems                                                *)

\* The invariant is inductive.
LEMMA NextStep == IInv /\ [Next]_vars => IInv'
<1> SUFFICES ASSUME IInv, [Next]_vars PROVE IInv'
  OBVIOUS
<1>1. CASE UNCHANGED vars
  <2>1. \A f : PinsOwed(f)' = PinsOwed(f)
    BY <1>1, OwedSame DEF vars
  <2> QED BY <1>1, <2>1, DataStep DEF vars, latchVars, tableVars, frameVars, replVars, IInv, TypeOK
<1>2. CASE NewPage
  BY <1>2, NewPageStep
<1>3. ASSUME NEW t \in Threads, NEW p \in Pages, NEW m \in Modes, MayFetch(t, p) /\ Lookup(t, p, m)
      PROVE  IInv'
  BY <1>3, LookupStep
<1>4. ASSUME NEW t \in Threads, Proceed(t) PROVE IInv'
  BY <1>4, RecordStep, PinStep, PinThrowsStep, CatchStep, LatchStep, UnpinStep, FlushOneStep
     DEF Proceed
<1>5. ASSUME NEW t \in Threads, NEW g \in guards[t],
             (\E v \in Values : Write(t, g, v)) \/ GuardFlush(t, g) \/ Drop(t, g)
      PROVE  IInv'
  BY <1>5, WriteStep, GuardFlushStep, DropStep
<1>6. ASSUME NEW t \in Threads,
             BeginFlush(t, Cached) \/ \E p \in Cached : BeginFlush(t, {p})
      PROVE  IInv'
  BY <1>6, BeginFlushStep
<1> QED BY <1>1, <1>2, <1>3, <1>4, <1>5, <1>6 DEF Next

\* The invariant behind what follows holds whatever the threads do, in the window
\* between a lookup and its pin too.
THEOREM PoolInvariant == Spec => []IInv
BY InitIInv, NextStep, PTL DEF Spec

\* Every variable has its type, whatever the threads do.
THEOREM PoolTypeCorrect == Spec => []TypeOK
<1>1. IInv => TypeOK
  BY DEF IInv
<1> QED BY <1>1, PoolInvariant, PTL

\* A frame is either free or holds exactly one page: no path of a lookup forgets
\* an update of page_table_.
THEOREM TableAlwaysBijection == Spec => []TableIsBijection
<1>1. IInv => TableIsBijection
  BY DEF IInv
<1> QED BY <1>1, PoolInvariant, PTL

\* pin_count_ covers the guards, those that are half dropped included.
THEOREM PinsAlwaysCoverGuards == Spec => []PinsCoverGuards
<1>1. IInv => PinsCoverGuards
  BY DEF IInv, PinsCounted, PinsCoverGuards
<1> QED BY <1>1, PoolInvariant, PTL

\* The replacer can be given only frames nobody pins, and knows those in use.
THEOREM EvictsOnlyUnpinned == Spec => []OnlyUnpinnedEvictable
<1>1. IInv => OnlyUnpinnedEvictable
  BY DEF IInv
<1> QED BY <1>1, PoolInvariant, PTL

\* The page table changes only where a frame is loaded that nobody guards.
LEMMA TableStep ==
  ASSUME IInv, Next, pageTable' # pageTable
  PROVE  \E p \in Pages, f \in freeFrames \cup evictable :
            p \notin Cached /\ Load(p, f) /\ guards' = guards
<1>1. PICK t \in Threads, p \in Pages, m \in Modes : Lookup(t, p, m)
  BY DEF Next, NewPage, Proceed, Record, Pin, PinThrows, CountPin, Catch, Latch, Unpin, FlushOne,
     Write, GuardFlush, Drop, BeginFlush, tableVars
<1>2. LookupFree(t, p, m) \/ LookupEvict(t, p, m)
  BY <1>1 DEF Lookup, LookupHit
<1> QED BY <1>2 DEF LookupFree, LookupEvict, Request

\* A frame somebody guards is never given to another page.
THEOREM GuardedFramesAlwaysStay == Spec => GuardedFramesStay
<1> DEFINE A == \A t \in Threads : \A g \in guards[t] \cap guards'[t] :
                   \A p \in Cached : pageTable[p] = g.frame
                       => p \in DOMAIN pageTable' /\ pageTable'[p] = g.frame
<1>1. IInv /\ [Next]_vars => [A]_vars
  <2> SUFFICES ASSUME IInv, Next, NEW t \in Threads, NEW g \in guards[t] \cap guards'[t],
                      NEW p \in Cached, pageTable[p] = g.frame
               PROVE  p \in DOMAIN pageTable' /\ pageTable'[p] = g.frame
    OBVIOUS
  <2>1. CASE pageTable' = pageTable
    BY <2>1 DEF Cached
  <2>2. CASE pageTable' # pageTable
    <3>1. PICK q \in Pages, f \in freeFrames \cup evictable : q \notin Cached /\ Load(q, f)
      BY <2>2, TableStep
    <3>2. g.frame # f
      BY GivenAwayUnused
    <3> QED BY <3>1, <3>2 DEF Load, Rebound
  <2> QED BY <2>1, <2>2
<1> QED BY <1>1, PoolInvariant, PTL DEF Spec, GuardedFramesStay

\* The data of a guarded frame changes only by a write of the guard's own thread.
THEOREM GuardedDataAlwaysStays == Spec => GuardedDataStays
<1> DEFINE A == \A t \in Threads : \A g \in guards[t] \cap guards'[t] :
                   data'[g.frame] # data[g.frame] => \E v \in Values : Write(t, g, v)
<1>1. IInv /\ [Next]_vars => [A]_vars
  <2> SUFFICES ASSUME IInv, Next, NEW t \in Threads, NEW g \in guards[t] \cap guards'[t],
                      data'[g.frame] # data[g.frame]
               PROVE  \E v \in Values : Write(t, g, v)
    OBVIOUS
  <2>1. \/ \E p \in Pages, f \in freeFrames \cup evictable : Load(p, f)
        \/ \E u \in Threads : \E h \in guards[u], v \in Values : Write(u, h, v)
    BY DEF Next, NewPage, Lookup, LookupHit, LookupFree, LookupEvict, Proceed, Record, Pin, PinThrows,
       CountPin, Catch, Latch, Unpin, FlushOne, GuardFlush, Drop, BeginFlush, frameVars
  <2>2. ASSUME NEW p \in Pages, NEW f \in freeFrames \cup evictable, Load(p, f) PROVE FALSE
    <3>1. g.frame # f
      BY GivenAwayUnused
    <3> QED BY <2>2, <3>1 DEF Load, IInv, TypeOK
  <2>3. ASSUME NEW u \in Threads, NEW h \in guards[u], NEW v \in Values, Write(u, h, v)
        PROVE  Write(t, g, v)
    <3>1. h.frame = g.frame /\ h.mode = "write"
      BY <2>3 DEF Write, IInv, TypeOK
    <3>2. u = t /\ h = g
      BY <3>1 DEF IInv, LatchesExclusive
    <3> QED BY <2>3, <3>2
  <2> QED BY <2>1, <2>2, <2>3
<1> QED BY <1>1, PoolInvariant, PTL DEF Spec, GuardedDataStays

-----------------------------------------------------------------------------
(* TreePool: the inductive invariant, beside that of the pool              *)

\* A thread between the lookup of a page and its guard.
Fetching(t) == step[t] \in {"record", "pin", "latch"}

\* The frame that the lookup found still holds the page.
CallsMatch ==
    \A t \in Threads : Fetching(t) =>
        req[t].page \in Cached /\ pageTable[req[t].page] = req[t].frame

\* Who fetches a page other than the header holds the header.
FetchesUnderHeader ==
    \A t \in Threads : Fetching(t) =>
        IF req[t].page = HeaderPage THEN guards[t] = {} ELSE HoldsHeader(t)

\* The access was recorded, so SetEvictable will know the frame; nobody flushes the pool.
Recorded ==
    \A t \in Threads : step[t] # "flush" /\ (step[t] = "pin" => req[t].frame \in alive)

TInv ==
    IInv /\ CallsMatch /\ FetchesUnderHeader /\ Recorded /\ GuardsMatch /\ PinFindsFrame
    /\ PinsExact /\ NoFrameLost /\ CleanMatchesDisk

\* The refinement mapping.
Content == [p \in Pages |-> IF p \in Cached THEN data[pageTable[p]] ELSE disk[p]]
Locks(t) == {[page |-> g.page, mode |-> g.mode] : g \in guards[t]}
Holds == [t \in Threads |-> Locks(t)]

-----------------------------------------------------------------------------
(* TreePool: lemmas                                                        *)

\* The heart of the matter: a frame that may be given away for a fetch that obeys
\* the discipline is not one that another thread has looked up and not yet pinned.
LEMMA WindowSafe ==
  ASSUME TInv, NEW u \in Threads, NEW p \in Pages, step[u] = "idle",
         Disciplined(u, p), p \notin Cached, NEW f \in freeFrames \cup evictable
  PROVE  \A t \in Threads : Fetching(t) => req[t].frame # f
<1> SUFFICES ASSUME NEW t \in Threads, Fetching(t), req[t].frame = f PROVE FALSE
  OBVIOUS
<1>1. PinsOwed(f) = {} /\ \A s \in Threads : \A g \in guards[s] : g.frame # f
  BY GivenAwayUnused DEF TInv
<1>2. req[t] \in Guard /\ t # u
  BY DEF TInv, IInv, CallsOK, InCall, Fetching
<1>3. step[t] # "latch"
  <2>1. step[t] = "latch" => <<t, req[t]>> \in PinsOwed(f)
    BY <1>2 DEF PinsOwed
  <2> QED BY <2>1, <1>1
<1>4. f \in evictable
  BY DEF TInv, IInv, FreeUnused, InCall, Fetching
<1>5. CASE p = HeaderPage
  <2>1. req[t].page # HeaderPage
    BY <1>5 DEF TInv, CallsMatch
  <2>2. PICK g \in guards[t] : g.page = HeaderPage
    BY <2>1 DEF TInv, FetchesUnderHeader, HoldsHeader
  <2> QED BY <1>5, <2>2 DEF TInv, GuardsMatch
<1>6. CASE p # HeaderPage
  <2>1. PICK g \in guards[u] : g.page = HeaderPage /\ g.mode = "write"
    BY <1>6 DEF Disciplined, HoldsHeader
  <2>2. pageTable[HeaderPage] = g.frame
    BY <2>1 DEF TInv, GuardsMatch
  <2>3. CASE req[t].page = HeaderPage
    BY <1>1, <2>1, <2>2, <2>3 DEF TInv, CallsMatch
  <2>4. CASE req[t].page # HeaderPage
    <3>1. PICK h \in guards[t] : h.page = HeaderPage /\ h.mode = "write"
      BY <2>4 DEF TInv, FetchesUnderHeader, HoldsHeader
    <3>2. h.frame = g.frame
      BY <3>1, <2>2 DEF TInv, GuardsMatch
    <3> QED BY <1>2, <2>1, <3>1, <3>2 DEF TInv, IInv, LatchesExclusive
  <2> QED BY <2>3, <2>4
<1> QED BY <1>5, <1>6

\* The invariant holds initially.
LEMMA InitTInv == Init => TInv
<1> SUFFICES ASSUME Init PROVE TInv
  OBVIOUS
<1>1. IInv
  BY InitIInv
<1>2. CallsMatch /\ FetchesUnderHeader /\ Recorded /\ GuardsMatch /\ PinFindsFrame /\ CleanMatchesDisk
  BY DEF Init, CallsMatch, Fetching, FetchesUnderHeader, Recorded, GuardsMatch, PinFindsFrame,
     CleanMatchesDisk, Cached
<1>3. \A f : PinsOwed(f) = {}
  BY DEF Init, PinsOwed
<1>4. PinsExact /\ NoFrameLost
  <2>1. ASSUME NEW f \in Frames PROVE Cardinality(PinsOwed(f)) = pin[f]
    BY <1>3, FS_EmptySet DEF Init
  <2> QED BY <2>1 DEF Init, PinsExact, NoFrameLost
<1> QED BY <1>1, <1>2, <1>4 DEF TInv

-----------------------------------------------------------------------------
(* TreePool: the steps                                                     *)

\* A new page id changes nothing that is held or stored.
LEMMA TreeNewPageStep ==
  ASSUME TInv, NewPage
  PROVE  TInv' /\ Content' = Content /\ Holds' = Holds
<1> USE DEF NewPage, latchVars, frameVars, replVars
<1>1. IInv'
  BY NewPageStep DEF TInv
<1>2. \A f : PinsOwed(f)' = PinsOwed(f)
  BY OwedSame
<1>3. PinsExact' /\ NoFrameLost'
  BY <1>2 DEF TInv, PinsExact, NoFrameLost
<1>4. CallsMatch' /\ FetchesUnderHeader' /\ Recorded' /\ GuardsMatch' /\ PinFindsFrame' /\ CleanMatchesDisk'
  BY DEF TInv, CallsMatch, Fetching, FetchesUnderHeader, HoldsHeader, Recorded, GuardsMatch,
     PinFindsFrame, CleanMatchesDisk, Cached
<1>5. Content' = Content /\ Holds' = Holds
  BY DEF Content, Holds, Locks, Cached
<1> QED BY <1>1, <1>3, <1>4, <1>5 DEF TInv

\* A hit starts a call on the frame that holds the page.
LEMMA TreeHitStep ==
  ASSUME TInv, NEW t \in Threads, NEW p \in Pages, NEW m \in Modes,
         step[t] = "idle", LatchFree, MayFetch(t, p), Disciplined(t, p), LookupHit(t, p, m)
  PROVE  TInv' /\ Content' = Content /\ Holds' = Holds
<1> USE DEF LookupHit, Request, latchVars, frameVars, replVars
<1>1. IInv'
  BY LookupHitStep DEF TInv
<1>2. \A f : PinsOwed(f)' = PinsOwed(f)
  BY OwedSame DEF TInv, IInv, TypeOK
<1>3. PinsExact'
  BY <1>2 DEF TInv, PinsExact
<1>4. NoFrameLost'
  BY <1>2 DEF TInv, IInv, TypeOK, NoFrameLost
<1>5. CallsMatch' /\ Recorded' /\ PinFindsFrame'
  BY DEF TInv, IInv, TypeOK, CallsMatch, Fetching, Recorded, PinFindsFrame, Cached
<1>6. FetchesUnderHeader'
  BY DEF TInv, IInv, TypeOK, FetchesUnderHeader, Fetching, HoldsHeader, Disciplined
<1>7. GuardsMatch' /\ CleanMatchesDisk'
  BY DEF TInv, GuardsMatch, CleanMatchesDisk, Cached
<1>8. Content' = Content /\ Holds' = Holds
  BY DEF Content, Holds, Locks, Cached
<1> QED BY <1>1, <1>3, <1>4, <1>5, <1>6, <1>7, <1>8 DEF TInv

\* A miss: the page of the victim is on disk as it was in memory.
LEMMA TreeLoadStep ==
  ASSUME TInv, NEW t \in Threads, NEW p \in Pages, NEW m \in Modes,
         step[t] = "idle", LatchFree, Issued(p), MayFetch(t, p), Disciplined(t, p), p \notin Cached,
         NEW f \in freeFrames \cup evictable,
         Load(p, f), Request(t, p, f, m),
         freeFrames' = freeFrames \ {f}, alive' = alive \ {f}, evictable' = evictable \ {f},
         disk' \in [Pages -> Values],
         \A q \in Pages : disk'[q] = IF q \in Cached /\ pageTable[q] = f THEN data[f] ELSE disk[q]
  PROVE  TInv' /\ Content' = Content /\ Holds' = Holds
<1> USE DEF Load, Request, latchVars
<1>1. IInv'
  BY LoadStep DEF TInv
<1>2. \A s \in Threads : Fetching(s) => req[s].frame # f
  BY WindowSafe
<1>3. f \in Frames /\ PinsOwed(f) = {} /\ \A s \in Threads : \A g \in guards[s] : g.frame # f
  BY GivenAwayUnused DEF TInv
<1>4. /\ Cached' = {p} \cup {q \in Cached : pageTable[q] # f}
      /\ pageTable'[p] = f
      /\ \A q \in Cached : pageTable[q] # f => pageTable'[q] = pageTable[q]
  BY DEF Rebound, Cached
<1>5. Cached \subseteq Pages /\ \A q \in Cached : pageTable[q] \in Frames
  BY PoolAssumption DEF TInv, IInv, TypeOK, Pages
<1>6. \A h : PinsOwed(h)' = PinsOwed(h)
  BY OwedSame DEF TInv, IInv, TypeOK
<1>7. PinsExact'
  <2> SUFFICES ASSUME NEW h \in Frames PROVE Cardinality(PinsOwed(h)) = pin'[h]
    BY <1>6 DEF PinsExact
  <2>1. CASE h = f
    BY <2>1, <1>3, FS_EmptySet DEF TInv, IInv, TypeOK
  <2>2. CASE h # f
    BY <2>2 DEF TInv, IInv, TypeOK, PinsExact
  <2> QED BY <2>1, <2>2
<1>8. NoFrameLost'
  <2> SUFFICES ASSUME NEW h \in Frames \ (freeFrames' \cup evictable')
               PROVE  \/ PinsOwed(h) # {}
                      \/ \E s \in Threads : step'[s] \in {"record", "pin"} /\ req'[s].frame = h
    BY <1>6 DEF NoFrameLost
  <2>1. CASE h = f
    BY <2>1 DEF TInv, IInv, TypeOK
  <2>2. CASE h # f
    <3>1. \/ PinsOwed(h) # {}
          \/ \E s \in Threads : step[s] \in {"record", "pin"} /\ req[s].frame = h
      BY <2>2 DEF TInv, NoFrameLost
    <3> QED BY <3>1 DEF TInv, IInv, TypeOK
  <2> QED BY <2>1, <2>2
<1>9. CallsMatch'
  BY <1>2, <1>4 DEF TInv, IInv, TypeOK, CallsMatch, Fetching
<1>10. Recorded' /\ PinFindsFrame'
  BY <1>2 DEF TInv, IInv, TypeOK, Recorded, Fetching, PinFindsFrame
<1>11. FetchesUnderHeader'
  BY DEF TInv, IInv, TypeOK, FetchesUnderHeader, Fetching, HoldsHeader, Disciplined
<1>12. GuardsMatch'
  BY <1>3, <1>4 DEF TInv, GuardsMatch
<1>13. CleanMatchesDisk'
  <2> SUFFICES ASSUME NEW q \in Cached', ~dirty'[pageTable'[q]]
               PROVE  data'[pageTable'[q]] = disk'[q]
    BY DEF CleanMatchesDisk
  <2>1. CASE q = p
    BY <2>1, <1>3, <1>4 DEF TInv, IInv, TypeOK
  <2>2. CASE q # p
    <3>1. q \in Cached /\ pageTable[q] # f /\ pageTable'[q] = pageTable[q]
      BY <2>2, <1>4
    <3> QED BY <3>1, <1>5 DEF TInv, IInv, TypeOK, CleanMatchesDisk
  <2> QED BY <2>1, <2>2
<1>14. Content' = Content
  <2> SUFFICES ASSUME NEW q \in Pages PROVE Content'[q] = Content[q]
    BY DEF Content
  <2>1. CASE q = p
    BY <2>1, <1>3, <1>4 DEF Content, TInv, IInv, TypeOK
  <2>2. CASE q # p /\ q \in Cached /\ pageTable[q] = f
    BY <2>2, <1>4 DEF Content
  <2>3. CASE q # p /\ q \in Cached /\ pageTable[q] # f
    BY <2>3, <1>4, <1>5 DEF Content, TInv, IInv, TypeOK
  <2>4. CASE q # p /\ q \notin Cached
    BY <2>4, <1>4 DEF Content
  <2> QED BY <2>1, <2>2, <2>3, <2>4
<1>15. Holds' = Holds
  BY DEF Holds, Locks
<1> QED BY <1>1, <1>7, <1>8, <1>9, <1>10, <1>11, <1>12, <1>13, <1>14, <1>15 DEF TInv

\* The three ways a lookup goes, each reduced to a hit or to a load.
LEMMA TreeLookupStep ==
  ASSUME TInv, NEW t \in Threads, NEW p \in Pages, NEW m \in Modes,
         MayFetch(t, p), Disciplined(t, p), Lookup(t, p, m)
  PROVE  TInv' /\ Content' = Content /\ Holds' = Holds
<1> USE DEF Lookup
<1>0. Cached \subseteq Pages /\ disk \in [Pages -> Values] /\ data \in [Frames -> Values]
      /\ evictable \subseteq Frames
  BY PoolAssumption DEF TInv, IInv, TypeOK, Pages
<1>1. CASE LookupHit(t, p, m)
  BY <1>1, TreeHitStep
<1>2. CASE LookupFree(t, p, m)
  <2>1. PICK f \in freeFrames : /\ freeFrames' = freeFrames \ {f} /\ disk' = disk
                                /\ Load(p, f) /\ Request(t, p, f, m)
    BY <1>2 DEF LookupFree
  <2>2. f \notin alive /\ f \notin evictable
    BY DEF TInv, IInv, FreeUnused, OnlyUnpinnedEvictable
  <2>3. alive' = alive \ {f} /\ evictable' = evictable \ {f} /\ disk' \in [Pages -> Values]
    BY <1>0, <1>2, <2>1, <2>2 DEF LookupFree, replVars
  <2>4. \A q \in Cached : pageTable[q] # f
    BY DEF TInv, IInv, TableIsBijection
  <2>5. \A q \in Pages : disk'[q] = IF q \in Cached /\ pageTable[q] = f THEN data[f] ELSE disk[q]
    BY <2>1, <2>4
  <2> QED BY <1>2, <2>1, <2>3, <2>5, TreeLoadStep DEF LookupFree
<1>3. CASE LookupEvict(t, p, m)
  <2>1. PICK f \in evictable : /\ alive' = alive \ {f} /\ evictable' = evictable \ {f}
                               /\ disk' = WrittenBack(f)
                               /\ Load(p, f) /\ Request(t, p, f, m)
    BY <1>3 DEF LookupEvict
  <2>2. freeFrames' = freeFrames \ {f}
    BY <1>3 DEF LookupEvict
  <2>3. disk' \in [Pages -> Values]
    BY <1>0, <2>1 DEF WrittenBack
  <2>4. \A q \in Pages : disk'[q] = IF q \in Cached /\ pageTable[q] = f THEN data[f] ELSE disk[q]
    BY <2>1 DEF WrittenBack, TInv, CleanMatchesDisk
  <2> QED BY <1>3, <2>1, <2>2, <2>3, <2>4, TreeLoadStep DEF LookupEvict
<1> QED BY <1>1, <1>2, <1>3

\* Once the access is recorded the replacer knows the frame.
LEMMA TreeRecordStep ==
  ASSUME TInv, NEW t \in Threads, Record(t)
  PROVE  TInv' /\ Content' = Content /\ Holds' = Holds
<1> USE DEF Record, Goto, latchVars, tableVars, frameVars
<1>1. IInv'
  BY RecordStep DEF TInv
<1>2. \A f : PinsOwed(f)' = PinsOwed(f)
  BY OwedSame DEF TInv, IInv, TypeOK
<1>3. PinsExact' /\ NoFrameLost'
  BY <1>2 DEF TInv, IInv, TypeOK, PinsExact, NoFrameLost
<1>4. CallsMatch' /\ FetchesUnderHeader' /\ Recorded' /\ PinFindsFrame'
  BY DEF TInv, IInv, TypeOK, CallsMatch, Fetching, FetchesUnderHeader, HoldsHeader, Recorded,
     PinFindsFrame, Cached
<1>5. GuardsMatch' /\ CleanMatchesDisk'
  BY DEF TInv, GuardsMatch, CleanMatchesDisk, Cached
<1>6. Content' = Content /\ Holds' = Holds
  BY DEF Content, Holds, Locks, Cached
<1> QED BY <1>1, <1>3, <1>4, <1>5, <1>6 DEF TInv

\* The pin is counted once, for a thread that was not owed one.
LEMMA TreePinStep ==
  ASSUME TInv, NEW t \in Threads, Pin(t)
  PROVE  TInv' /\ Content' = Content /\ Holds' = Holds
<1> DEFINE f == req[t].frame
           o == <<t, req[t]>>
<1> USE DEF Pin, CountPin, Goto, latchVars, tableVars
<1>1. IInv'
  BY PinStep DEF TInv
<1>2. req[t] \in Guard /\ f \in Frames /\ req[t] \notin guards[t]
  BY DEF TInv, IInv, CallsOK, InCall, Guard
<1>3. o \notin PinsOwed(f)
  BY <1>2, OwedMember DEF TInv, IInv
<1>4. ASSUME NEW h PROVE PinsOwed(h)' = IF h = f THEN PinsOwed(h) \cup {o} ELSE PinsOwed(h)
  <2>1. PinsOwed(h)' \subseteq IF h = f THEN PinsOwed(h) \cup {o} ELSE PinsOwed(h)
    BY DEF TInv, IInv, TypeOK, PinsOwed
  <2>2. PinsOwed(h) \subseteq PinsOwed(h)'
    BY DEF TInv, IInv, TypeOK, PinsOwed
  <2>3. h = f => o \in PinsOwed(h)'
    BY <1>2 DEF TInv, IInv, TypeOK, PinsOwed
  <2> QED BY <2>1, <2>2, <2>3
<1>5. PinsExact'
  <2> SUFFICES ASSUME NEW h \in Frames PROVE Cardinality(PinsOwed(h)') = pin'[h]
    BY DEF PinsExact
  <2>1. Cardinality(PinsOwed(h)) = pin[h] /\ IsFiniteSet(PinsOwed(h))
    BY DEF TInv, IInv, PinsCounted, PinsExact
  <2>2. CASE h = f
    <3>1. Cardinality(PinsOwed(h) \cup {o}) = Cardinality(PinsOwed(h)) + 1
      BY <2>1, <2>2, <1>3, FS_AddElement
    <3> QED BY <3>1, <2>1, <2>2, <1>2, <1>4 DEF TInv, IInv, TypeOK
  <2>3. CASE h # f
    BY <2>1, <2>3, <1>4 DEF TInv, IInv, TypeOK
  <2> QED BY <2>2, <2>3
<1>6. NoFrameLost'
  <2> SUFFICES ASSUME NEW h \in Frames \ (freeFrames \cup evictable'), h # f
               PROVE  \/ PinsOwed(h)' # {}
                      \/ \E s \in Threads : step'[s] \in {"record", "pin"} /\ req[s].frame = h
    BY <1>4 DEF NoFrameLost
  <2>1. \/ PinsOwed(h) # {}
        \/ \E s \in Threads : step[s] \in {"record", "pin"} /\ req[s].frame = h
    BY DEF TInv, NoFrameLost
  <2> QED BY <2>1, <1>4 DEF TInv, IInv, TypeOK
<1>7. CallsMatch' /\ FetchesUnderHeader' /\ Recorded' /\ PinFindsFrame'
  BY DEF TInv, IInv, TypeOK, CallsMatch, Fetching, FetchesUnderHeader, HoldsHeader, Recorded,
     PinFindsFrame, Cached
<1>8. GuardsMatch' /\ CleanMatchesDisk'
  BY DEF TInv, GuardsMatch, CleanMatchesDisk, Cached
<1>9. Content' = Content /\ Holds' = Holds
  BY DEF Content, Holds, Locks, Cached
<1> QED BY <1>1, <1>5, <1>6, <1>7, <1>8, <1>9 DEF TInv

\* The new guard is compatible with every other lock on its page, since guards
\* for one page are guards on one frame.
LEMMA TreeLatchStep ==
  ASSUME TInv, NEW t \in Threads, Latch(t)
  PROVE  /\ TInv' /\ Content' = Content
         /\ \E l \in Store!Lock :
               /\ \A u \in Threads : \A k \in Locks(u) : Store!Compatible(l, k)
               /\ Holds' = [Holds EXCEPT ![t] = @ \cup {l}]
<1> USE DEF Latch, Finish, Goto, latchVars, tableVars, frameVars, replVars
<1>1. IInv'
  BY LatchStep DEF TInv
<1>2. req[t] \in Guard /\ \A g \in guards[t] : g.page # req[t].page
  BY DEF TInv, IInv, CallsOK, InCall
<1>3. ASSUME NEW f PROVE PinsOwed(f)' = PinsOwed(f)
  <2>1. PinsOwed(f)' \subseteq PinsOwed(f)
    BY ReqAssumption, <1>2 DEF TInv, IInv, TypeOK, PinsOwed
  <2>2. PinsOwed(f) \subseteq PinsOwed(f)'
    BY ReqAssumption, <1>2 DEF TInv, IInv, TypeOK, PinsOwed
  <2> QED BY <2>1, <2>2
<1>4. PinsExact' /\ NoFrameLost'
  BY <1>3 DEF TInv, IInv, TypeOK, PinsExact, NoFrameLost
<1>5. CallsMatch' /\ FetchesUnderHeader' /\ Recorded' /\ PinFindsFrame'
  BY DEF TInv, IInv, TypeOK, CallsMatch, Fetching, FetchesUnderHeader, HoldsHeader, Recorded,
     PinFindsFrame, Cached
<1>6. GuardsMatch' /\ CleanMatchesDisk'
  BY DEF TInv, IInv, TypeOK, CallsMatch, Fetching, GuardsMatch, CleanMatchesDisk, Cached
<1>7. Content' = Content
  BY DEF Content, Cached
<1> DEFINE l == [page |-> req[t].page, mode |-> req[t].mode]
<1>8. l \in Store!Lock
  BY <1>2 DEF Store!Lock, Guard, Modes
<1>9. ASSUME NEW u \in Threads, NEW g \in guards[u], g.page = req[t].page
      PROVE  g.mode = "read" /\ req[t].mode = "read"
  BY <1>9 DEF CanLatch, TInv, GuardsMatch, CallsMatch, Fetching
<1>10. \A u \in Threads : \A k \in Locks(u) : Store!Compatible(l, k)
  BY <1>9 DEF Locks, Store!Compatible
<1>11. Holds' = [Holds EXCEPT ![t] = @ \cup {l}]
  <2>1. Locks(t)' = Locks(t) \cup {l}
    BY DEF Locks, TInv, IInv, TypeOK
  <2>2. \A u \in Threads \ {t} : Locks(u)' = Locks(u)
    BY DEF Locks, TInv, IInv, TypeOK
  <2> QED BY <2>1, <2>2 DEF Holds
<1> QED BY <1>1, <1>4, <1>5, <1>6, <1>7, <1>8, <1>10, <1>11 DEF TInv

\* A write through a guard is a write to its page in the store.
LEMMA TreeWriteStep ==
  ASSUME TInv, NEW t \in Threads, NEW g \in guards[t], NEW v \in Values, Write(t, g, v)
  PROVE  /\ TInv' /\ Holds' = Holds
         /\ [page |-> g.page, mode |-> "write"] \in Locks(t)
         /\ g.page \in Pages /\ Content' = [Content EXCEPT ![g.page] = v]
<1> USE DEF Write, latchVars, tableVars, replVars
<1>1. IInv'
  BY WriteStep DEF TInv
<1>2. g \in Guard /\ g.frame \in Frames /\ g.page \in Pages /\ g.page \in Cached
      /\ pageTable[g.page] = g.frame
  BY DEF TInv, IInv, TypeOK, GuardsMatch, Guard
<1>3. \A f : PinsOwed(f)' = PinsOwed(f)
  BY OwedSame
<1>4. PinsExact' /\ NoFrameLost'
  BY <1>3 DEF TInv, PinsExact, NoFrameLost
<1>5. CallsMatch' /\ FetchesUnderHeader' /\ Recorded' /\ PinFindsFrame' /\ GuardsMatch'
  BY DEF TInv, CallsMatch, Fetching, FetchesUnderHeader, HoldsHeader, Recorded, GuardsMatch,
     PinFindsFrame, Cached
<1>6. CleanMatchesDisk'
  BY <1>2 DEF TInv, IInv, TypeOK, CleanMatchesDisk, Marked, Cached
<1>7. Content' = [Content EXCEPT ![g.page] = v]
  BY <1>2 DEF Content, TInv, IInv, TypeOK, TableIsBijection, Cached
<1>8. Holds' = Holds
  BY DEF Holds, Locks
<1>9. [page |-> g.page, mode |-> "write"] \in Locks(t)
  BY DEF Locks
<1> QED BY <1>1, <1>2, <1>4, <1>5, <1>6, <1>7, <1>8, <1>9 DEF TInv

\* A flushed guard is on the frame of its page, so the disk gets what the page holds.
LEMMA TreeGuardFlushStep ==
  ASSUME TInv, NEW t \in Threads, NEW g \in guards[t], GuardFlush(t, g)
  PROVE  TInv' /\ Content' = Content /\ Holds' = Holds
<1> USE DEF GuardFlush, latchVars, tableVars, replVars
<1>1. IInv'
  BY GuardFlushStep DEF TInv
<1>2. g \in Guard /\ g.frame \in Frames /\ g.page \in Pages /\ g.page \in Cached
      /\ pageTable[g.page] = g.frame
  BY DEF TInv, IInv, TypeOK, GuardsMatch, Guard
<1>3. \A f : PinsOwed(f)' = PinsOwed(f)
  BY OwedSame
<1>4. PinsExact' /\ NoFrameLost'
  BY <1>3 DEF TInv, PinsExact, NoFrameLost
<1>5. CallsMatch' /\ FetchesUnderHeader' /\ Recorded' /\ PinFindsFrame' /\ GuardsMatch'
  BY DEF TInv, CallsMatch, Fetching, FetchesUnderHeader, HoldsHeader, Recorded, GuardsMatch,
     PinFindsFrame, Cached
<1>6. CleanMatchesDisk'
  BY <1>2 DEF TInv, IInv, TypeOK, CleanMatchesDisk, TableIsBijection, Cached
<1>7. Content' = Content
  BY <1>2 DEF Content, TInv, IInv, TypeOK, Cached
<1>8. Holds' = Holds
  BY DEF Holds, Locks
<1> QED BY <1>1, <1>4, <1>5, <1>6, <1>7, <1>8 DEF TInv

\* A dropped guard is a lock released in the store; its pin is still owed.
LEMMA TreeDropStep ==
  ASSUME TInv, NEW t \in Threads, NEW g \in guards[t], Drop(t, g)
  PROVE  /\ TInv' /\ Content' = Content
         /\ \E l \in Store!Lock : l \in Locks(t) /\ Holds' = [Holds EXCEPT ![t] = @ \ {l}]
<1> USE DEF Drop, Goto, latchVars, tableVars, frameVars, replVars
<1>1. IInv'
  BY DropStep DEF TInv
<1>2. g \in Guard
  BY DEF TInv, IInv, TypeOK
<1>3. ASSUME NEW f PROVE PinsOwed(f)' = PinsOwed(f)
  <2>1. PinsOwed(f)' \subseteq PinsOwed(f)
    BY <1>2 DEF TInv, IInv, TypeOK, PinsOwed
  <2>2. PinsOwed(f) \subseteq PinsOwed(f)'
    BY <1>2 DEF TInv, IInv, TypeOK, PinsOwed
  <2> QED BY <2>1, <2>2
<1>4. PinsExact' /\ NoFrameLost'
  BY <1>3 DEF TInv, IInv, TypeOK, PinsExact, NoFrameLost
<1>5. CallsMatch' /\ FetchesUnderHeader' /\ Recorded' /\ PinFindsFrame'
  BY DEF TInv, IInv, TypeOK, CallsMatch, Fetching, FetchesUnderHeader, HoldsHeader, Recorded,
     PinFindsFrame, Cached
<1>6. GuardsMatch' /\ CleanMatchesDisk'
  BY DEF TInv, IInv, TypeOK, GuardsMatch, CleanMatchesDisk, Cached
<1>7. Content' = Content
  BY DEF Content, Cached
<1> DEFINE l == [page |-> g.page, mode |-> g.mode]
<1>8. l \in Store!Lock /\ l \in Locks(t)
  BY <1>2 DEF Store!Lock, Guard, Modes, Locks
<1>9. Holds' = [Holds EXCEPT ![t] = @ \ {l}]
  <2>1. Locks(t)' = Locks(t) \ {l}
    <3>1. guards'[t] = guards[t] \ {g}
      BY DEF TInv, IInv, TypeOK
    <3>2. \A h \in guards[t] : h.page = g.page => h = g
      BY DEF TInv, IInv, CallsOK
    <3> QED BY <3>1, <3>2 DEF Locks
  <2>2. \A u \in Threads \ {t} : Locks(u)' = Locks(u)
    BY DEF Locks, TInv, IInv, TypeOK
  <2> QED BY <2>1, <2>2 DEF Holds
<1> QED BY <1>1, <1>4, <1>5, <1>6, <1>7, <1>8, <1>9 DEF TInv

\* With exact counts the last pin is the last thread that relies on the frame.
LEMMA TreeUnpinStep ==
  ASSUME TInv, NEW t \in Threads, Unpin(t)
  PROVE  TInv' /\ Content' = Content /\ Holds' = Holds
<1> DEFINE f == req[t].frame
           o == <<t, req[t]>>
<1> USE DEF Unpin, Finish, Goto, latchVars, tableVars
<1>1. IInv'
  BY UnpinStep DEF TInv
<1>2. req[t] \in Guard /\ f \in Frames /\ req[t] \notin guards[t]
  BY DEF TInv, IInv, CallsOK, InCall, Guard
<1>3. o \in PinsOwed(f)
  BY <1>2, OwedMember DEF TInv, IInv
<1>4. ASSUME NEW h PROVE PinsOwed(h)' = IF h = f THEN PinsOwed(h) \ {o} ELSE PinsOwed(h)
  <2>1. PinsOwed(h)' \subseteq IF h = f THEN PinsOwed(h) \ {o} ELSE PinsOwed(h)
    BY <1>2 DEF TInv, IInv, TypeOK, PinsOwed
  <2>2. (IF h = f THEN PinsOwed(h) \ {o} ELSE PinsOwed(h)) \subseteq PinsOwed(h)'
    BY <1>2 DEF TInv, IInv, TypeOK, PinsOwed
  <2> QED BY <2>1, <2>2
<1>5. /\ Cardinality(PinsOwed(f) \ {o}) = pin[f] - 1 /\ pin[f] \in Nat /\ pin[f] # 0
  <2>1. Cardinality(PinsOwed(f)) = pin[f] /\ IsFiniteSet(PinsOwed(f)) /\ pin[f] \in Nat
    BY <1>2 DEF TInv, IInv, TypeOK, PinsCounted, PinsExact
  <2>2. pin[f] # 0
    BY <2>1, <1>3, FS_EmptySet
  <2>3. Cardinality(PinsOwed(f) \ {o}) = Cardinality(PinsOwed(f)) - 1
    BY <2>1, <1>3, FS_RemoveElement
  <2> QED BY <2>1, <2>2, <2>3
<1>6. PinsExact'
  <2> SUFFICES ASSUME NEW h \in Frames PROVE Cardinality(PinsOwed(h)') = pin'[h]
    BY DEF PinsExact
  <2>1. CASE h = f
    BY <2>1, <1>2, <1>4, <1>5 DEF TInv, IInv, TypeOK
  <2>2. CASE h # f
    BY <2>2, <1>4 DEF TInv, IInv, TypeOK, PinsExact
  <2> QED BY <2>1, <2>2
<1>7. NoFrameLost'
  <2> SUFFICES ASSUME NEW h \in Frames \ (freeFrames \cup evictable')
               PROVE  \/ PinsOwed(h)' # {}
                      \/ \E s \in Threads : step'[s] \in {"record", "pin"} /\ req'[s].frame = h
    BY DEF NoFrameLost
  <2>1. CASE h = f
    <3>1. pin[f] # 1
      BY <2>1 DEF EvictableAfterUnpin
    <3>2. Cardinality(PinsOwed(f) \ {o}) # 0
      BY <3>1, <1>5
    <3>3. PinsOwed(f) \ {o} # {}
      BY <3>2, FS_EmptySet
    <3> QED BY <3>3, <2>1, <1>4
  <2>2. CASE h # f
    <3>1. h \notin evictable
      BY DEF EvictableAfterUnpin
    <3>2. \/ PinsOwed(h) # {}
          \/ \E s \in Threads : step[s] \in {"record", "pin"} /\ req[s].frame = h
      BY <3>1 DEF TInv, NoFrameLost
    <3> QED BY <3>2, <2>2, <1>4 DEF TInv, IInv, TypeOK
  <2> QED BY <2>1, <2>2
<1>8. CallsMatch' /\ FetchesUnderHeader' /\ Recorded' /\ PinFindsFrame'
  BY DEF TInv, IInv, TypeOK, CallsMatch, Fetching, FetchesUnderHeader, HoldsHeader, Recorded,
     PinFindsFrame, Cached
<1>9. GuardsMatch' /\ CleanMatchesDisk'
  BY DEF TInv, GuardsMatch, CleanMatchesDisk, Cached
<1>10. Content' = Content /\ Holds' = Holds
  BY DEF Content, Holds, Locks, Cached
<1> QED BY <1>1, <1>6, <1>7, <1>8, <1>9, <1>10 DEF TInv

-----------------------------------------------------------------------------
(* TreePool: the theorems                                                  *)

\* What a step of the pool does to the store it implements.
StoreStep(t) ==
    \/ \E l \in Store!Lock :
          /\ \A u \in Threads : \A k \in Locks(u) : Store!Compatible(l, k)
          /\ Holds' = [Holds EXCEPT ![t] = @ \cup {l}] /\ Content' = Content
    \/ \E l \in Store!Lock :
          l \in Locks(t) /\ Holds' = [Holds EXCEPT ![t] = @ \ {l}] /\ Content' = Content
    \/ \E p \in Pages, v \in Values :
          /\ [page |-> p, mode |-> "write"] \in Locks(t)
          /\ Content' = [Content EXCEPT ![p] = v] /\ Holds' = Holds

\* The invariant is inductive, and each step is a step of the store or none.
LEMMA TreeNextStep ==
  ASSUME TInv, [TreeNext]_vars
  PROVE  TInv' /\ ((\E t \in Threads : StoreStep(t)) \/ (Content' = Content /\ Holds' = Holds))
<1>1. CASE UNCHANGED vars
  <2>1. IInv'
    BY <1>1, NextStep DEF TInv
  <2>2. \A f : PinsOwed(f)' = PinsOwed(f)
    BY <1>1, OwedSame DEF vars
  <2>3. PinsExact' /\ NoFrameLost'
    BY <1>1, <2>2 DEF TInv, PinsExact, NoFrameLost, vars, tableVars, frameVars, replVars
  <2>4. CallsMatch' /\ FetchesUnderHeader' /\ Recorded' /\ GuardsMatch' /\ PinFindsFrame' /\ CleanMatchesDisk'
    BY <1>1 DEF TInv, CallsMatch, Fetching, FetchesUnderHeader, HoldsHeader, Recorded, GuardsMatch,
       PinFindsFrame, CleanMatchesDisk, Cached, vars, tableVars, frameVars, replVars
  <2>5. Content' = Content /\ Holds' = Holds
    BY <1>1 DEF Content, Holds, Locks, Cached, vars, tableVars, frameVars
  <2> QED BY <2>1, <2>3, <2>4, <2>5 DEF TInv
<1>2. CASE NewPage
  BY <1>2, TreeNewPageStep
<1>3. ASSUME NEW t \in Threads, NEW p \in Pages, NEW m \in Modes,
             MayFetch(t, p) /\ Disciplined(t, p) /\ Lookup(t, p, m)
      PROVE  TInv' /\ Content' = Content /\ Holds' = Holds
  BY <1>3, TreeLookupStep
<1>4. ASSUME NEW t \in Threads, Proceed(t)
      PROVE  TInv' /\ (StoreStep(t) \/ (Content' = Content /\ Holds' = Holds))
  <2>1. ~PinThrows(t) /\ ~FlushOne(t)
    BY DEF PinThrows, CountPin, FlushOne, TInv, Recorded
  <2>2. CASE Catch(t)
    <3> USE <2>2 DEF Catch, Goto, latchVars, tableVars, frameVars, replVars
    <3>1. IInv'
      BY CatchStep DEF TInv
    <3>2. \A f : PinsOwed(f)' = PinsOwed(f)
      BY OwedSame DEF TInv, IInv, TypeOK
    <3>3. PinsExact' /\ NoFrameLost'
      BY <3>2 DEF TInv, IInv, TypeOK, PinsExact, NoFrameLost
    <3>4. CallsMatch' /\ FetchesUnderHeader' /\ Recorded' /\ PinFindsFrame'
      BY DEF TInv, IInv, TypeOK, CallsMatch, Fetching, FetchesUnderHeader, HoldsHeader, Recorded,
         PinFindsFrame, Cached
    <3>5. GuardsMatch' /\ CleanMatchesDisk' /\ Content' = Content /\ Holds' = Holds
      BY DEF TInv, GuardsMatch, CleanMatchesDisk, Content, Holds, Locks, Cached
    <3> QED BY <3>1, <3>3, <3>4, <3>5 DEF TInv
  <2>3. CASE Latch(t)
    BY <2>3, TreeLatchStep DEF StoreStep
  <2> QED BY <1>4, <2>1, <2>2, <2>3, TreeRecordStep, TreePinStep, TreeUnpinStep DEF Proceed
<1>5. ASSUME NEW t \in Threads, NEW g \in guards[t], NEW v \in Values, Write(t, g, v)
      PROVE  TInv' /\ StoreStep(t)
  BY <1>5, TreeWriteStep DEF StoreStep
<1>6. ASSUME NEW t \in Threads, NEW g \in guards[t], GuardFlush(t, g)
      PROVE  TInv' /\ Content' = Content /\ Holds' = Holds
  BY <1>6, TreeGuardFlushStep
<1>7. ASSUME NEW t \in Threads, NEW g \in guards[t], Drop(t, g)
      PROVE  TInv' /\ StoreStep(t)
  BY <1>7, TreeDropStep DEF StoreStep
<1> QED BY <1>1, <1>2, <1>3, <1>4, <1>5, <1>6, <1>7 DEF TreeNext

\* The invariant behind what follows: a lookup is valid until its guard exists,
\* because only the holder of the header evicts.
THEOREM TreeInvariant == TreeSpec => []TInv
<1>1. TInv /\ [TreeNext]_vars => TInv'
  BY TreeNextStep
<1> QED BY <1>1, InitTInv, PTL DEF TreeSpec

\* Under the discipline a guard for a page is on the frame that holds the page.
THEOREM TreeGuardsMatch == TreeSpec => []GuardsMatch
<1>1. TInv => GuardsMatch
  BY DEF TInv
<1> QED BY <1>1, TreeInvariant, PTL

\* Under the discipline the constructor of a guard never makes SetEvictable throw.
THEOREM TreePinsFindFrame == TreeSpec => []PinFindsFrame
<1>1. TInv => PinFindsFrame
  BY DEF TInv
<1> QED BY <1>1, TreeInvariant, PTL

\* Under the discipline pin_count_ is the number of guards and half-made or
\* half-dropped guards: no pin leaks.
THEOREM TreePinsExact == TreeSpec => []PinsExact
<1>1. TInv => PinsExact
  BY DEF TInv
<1> QED BY <1>1, TreeInvariant, PTL

\* Under the discipline a frame that is neither free nor evictable is in use.
THEOREM TreeLosesNoFrame == TreeSpec => []NoFrameLost
<1>1. TInv => NoFrameLost
  BY DEF TInv
<1> QED BY <1>1, TreeInvariant, PTL

\* Under the discipline a clean frame holds what the disk holds, so evicting it
\* without a write loses nothing.
THEOREM TreeCleanMatchesDisk == TreeSpec => []CleanMatchesDisk
<1>1. TInv => CleanMatchesDisk
  BY DEF TInv
<1> QED BY <1>1, TreeInvariant, PTL

\* The pool under the header-page discipline is a store of locked pages: every
\* fetch, eviction, write-back and flush is invisible to the code above.
THEOREM TreeImplementsPageStore == TreeSpec => ImplementsPageStore
<1>1. Init => Store!Init
  BY DEF Init, Store!Init, Cached
<1>2. TInv /\ [TreeNext]_vars => [Store!Next]_(Store!vars)
  <2> SUFFICES ASSUME TInv, [TreeNext]_vars PROVE [Store!Next]_(Store!vars)
    OBVIOUS
  <2>1. CASE Content' = Content /\ Holds' = Holds
    BY <2>1 DEF Store!vars, Content, Holds, Locks
  <2>2. ASSUME NEW t \in Threads, StoreStep(t) PROVE Store!Next
    <3>1. ASSUME NEW l \in Store!Lock,
                 \A u \in Threads : \A k \in Locks(u) : Store!Compatible(l, k),
                 Holds' = [Holds EXCEPT ![t] = @ \cup {l}], Content' = Content
          PROVE  Store!Acquire(t, l)
      BY <3>1 DEF Store!Acquire, Content, Holds, Locks
    <3>2. ASSUME NEW l \in Store!Lock, l \in Locks(t),
                 Holds' = [Holds EXCEPT ![t] = @ \ {l}], Content' = Content
          PROVE  Store!Release(t, l)
      BY <3>2 DEF Store!Release, Content, Holds, Locks
    <3>3. ASSUME NEW p \in Pages, NEW v \in Values,
                 [page |-> p, mode |-> "write"] \in Locks(t),
                 Content' = [Content EXCEPT ![p] = v], Holds' = Holds
          PROVE  Store!Write(t, p, v)
      BY <3>3 DEF Store!Write, Content, Holds, Locks
    <3> QED BY <2>2, <3>1, <3>2, <3>3 DEF Store!Next, StoreStep
  <2> QED BY <2>1, <2>2, TreeNextStep
<1> QED BY <1>1, <1>2, TreeInvariant, PTL DEF TreeSpec, ImplementsPageStore, Store!Spec
=============================================================================
