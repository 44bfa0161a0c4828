---------------------------- MODULE MCArcReplacer ----------------------------
(* Model-checking instance of ArcReplacer.                                  *)
EXTENDS ArcReplacer

\* Frames and pages are interchangeable.
Symmetry == Permutations(Frames) \cup Permutations(Pages)

\* A client that never races: it reports a tracked frame with the page it
\* holds, and a new frame with a page no other frame holds.
RaceFreeNext ==
    \/ \E f \in Frames, p \in Pages :
          /\ IF f \in Alive THEN aliveMap[f].page = p
                            ELSE \A g \in Alive : aliveMap[g].page # p
          /\ RecordAccess(f, p)
    \/ \E f \in Alive, b \in BOOLEAN : SetEvictable(f, b)
    \/ Evict

RaceFreeSpec == Init /\ [][RaceFreeNext]_vars
=============================================================================
