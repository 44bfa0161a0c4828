------------------------------ MODULE IndexMap ------------------------------
(***************************************************************************)
(* What the index promises: a map from unique keys to record ids.  Each    *)
(* call takes effect, and decides its answer, at one instant.              *)
(***************************************************************************)
CONSTANTS Keys, Rids

VARIABLES content,  \* the map, a function on the keys it holds
          reply     \* what the last call answered

vars == <<content, reply>>

Answers(b) == [ok |-> b]
Finds(r)   == [rid |-> r]

Init ==
    /\ content = [k \in {} |-> 0]
    /\ reply = Answers(TRUE)

\* Only unique keys: a key that is there keeps its record.
Insert(k, r) ==
    IF k \in DOMAIN content
    THEN reply' = Answers(FALSE) /\ UNCHANGED content
    ELSE /\ reply' = Answers(TRUE)
         /\ content' = [j \in {k} \cup DOMAIN content |-> IF j = k THEN r ELSE content[j]]

Remove(k) ==
    /\ reply' = Answers(TRUE)
    /\ content' = [j \in (DOMAIN content) \ {k} |-> content[j]]

GetValue(k) ==
    /\ reply' = IF k \in DOMAIN content THEN Finds(content[k]) ELSE Answers(FALSE)
    /\ UNCHANGED content

IsEmpty ==
    /\ reply' = Answers(DOMAIN content = {})
    /\ UNCHANGED content

Next ==
    \/ \E k \in Keys, r \in Rids : Insert(k, r)
    \/ \E k \in Keys : Remove(k) \/ GetValue(k)
    \/ IsEmpty

Spec == Init /\ [][Next]_vars
=============================================================================
