------------------------------ MODULE PageStore ------------------------------
(***************************************************************************)
(* What the storage layer promises to the code above it: a store of pages, *)
(* each with a readers-writer lock, in which frames, eviction and the disk *)
(* do not exist.  A page keeps what was last written to it.                *)
(***************************************************************************)
EXTENDS Naturals

CONSTANTS Threads, Pages, Values, Zero

VARIABLES content,  \* page -> what it holds
          holds     \* thread -> the locks it holds, each a page and a mode

vars == <<content, holds>>

Lock == [page : Pages, mode : {"read", "write"}]

Init ==
    /\ content = [p \in Pages |-> Zero]
    /\ holds = [t \in Threads |-> {}]

Compatible(l, k) == l.page = k.page => l.mode = "read" /\ k.mode = "read"

Acquire(t, l) ==
    /\ \A u \in Threads : \A k \in holds[u] : Compatible(l, k)
    /\ holds' = [holds EXCEPT ![t] = @ \cup {l}]
    /\ UNCHANGED content

Write(t, p, v) ==
    /\ [page |-> p, mode |-> "write"] \in holds[t]
    /\ content' = [content EXCEPT ![p] = v]
    /\ UNCHANGED holds

Release(t, l) ==
    /\ l \in holds[t]
    /\ holds' = [holds EXCEPT ![t] = @ \ {l}]
    /\ UNCHANGED content

Next ==
    \E t \in Threads :
        \/ \E l \in Lock : Acquire(t, l) \/ Release(t, l)
        \/ \E p \in Pages, v \in Values : Write(t, p, v)

Spec == Init /\ [][Next]_vars
=============================================================================
