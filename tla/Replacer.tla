------------------------------ MODULE Replacer ------------------------------
(***************************************************************************)
(* What the buffer pool is promised by its replacer, whatever the          *)
(* replacement policy: which frames it tracks, which of them may be        *)
(* evicted, and what each call answers.  The pool (BufferPool.tla) is      *)
(* written against this contract; ArcReplacer.tla implements it.           *)
(***************************************************************************)
EXTENDS Naturals, FiniteSets

CONSTANTS Frames,   \* the frame ids the pool hands to the replacer
          NoFrame   \* std::nullopt

VARIABLES alive,      \* frames the replacer tracks
          evictable,  \* those it may give away
          reply       \* what the last call answered

vars == <<alive, evictable, reply>>

Done     == [ok |-> TRUE]
Throws   == [ok |-> FALSE]
Gives(f) == [frame |-> f]
Counts(n) == [size |-> n]

Init ==
    /\ alive = {}
    /\ evictable = {}
    /\ reply = Done

\* A frame seen for the first time is tracked but not yet evictable.
RecordAccess(f) ==
    /\ alive' = alive \cup {f}
    /\ reply' = Done
    /\ UNCHANGED evictable

SetEvictable(f, b) ==
    \/ /\ f \in alive
       /\ evictable' = IF b THEN evictable \cup {f} ELSE evictable \ {f}
       /\ reply' = Done
       /\ UNCHANGED alive
    \/ /\ f \notin alive
       /\ reply' = Throws
       /\ UNCHANGED <<alive, evictable>>

\* Any evictable frame may be the victim; there is one whenever some frame is evictable.
Evict ==
    \/ \E f \in evictable :
          /\ alive' = alive \ {f}
          /\ evictable' = evictable \ {f}
          /\ reply' = Gives(f)
    \/ /\ evictable = {}
       /\ reply' = Gives(NoFrame)
       /\ UNCHANGED <<alive, evictable>>

Size ==
    /\ reply' = Counts(Cardinality(evictable))
    /\ UNCHANGED <<alive, evictable>>

Next ==
    \/ \E f \in Frames : RecordAccess(f)
    \/ \E f \in Frames, b \in BOOLEAN : SetEvictable(f, b)
    \/ Evict
    \/ Size

Spec == Init /\ [][Next]_vars
=============================================================================
