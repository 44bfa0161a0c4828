---------------------------- MODULE IndexCursor ----------------------------
(***************************************************************************)
(* What the index promises to a program that walks over it with an         *)
(* iterator while others insert and remove: as long as the map does not    *)
(* change the iterator visits its keys in order, each once.  Once the map  *)
(* has changed the iterator is adrift: it may skip and repeat, and throw.  *)
(*                                                                         *)
(* What operator* yields is lent, not given: it is an entry of the map if  *)
(* it is read before the loan is void, and the change of any entry voids   *)
(* it, as does, for all that the program can know, a read by anyone.       *)
(***************************************************************************)
EXTENDS Integers

CONSTANTS Keys, Rids

VARIABLES content,  \* the map, a function on the keys it holds
          reply,    \* what the last call answered
          cursor,   \* where the iterator is
          loan      \* the references that operator* has returned: "none", "good" or "void"

vars == <<content, reply, cursor, loan>>

Map == INSTANCE IndexMap

Done   == [done |-> TRUE]
Throws == [done |-> FALSE]
Yields(k, r) == [key |-> k, rid |-> r]

None   == [state |-> "none"]    \* there is no iterator
AtEnd  == [state |-> "end"]
Stray  == [state |-> "stray"]   \* between two leaves: neither at a key nor at the end
Adrift == [state |-> "adrift"]
At(k)  == [state |-> "at", key |-> k]

\* The position of the first of the keys in S.
FirstOf(S) ==
    IF S = {} THEN AtEnd ELSE At(CHOOSE k \in S : \A j \in S : k <= j)

From(k)  == {j \in DOMAIN content : j >= k}
After(k) == {j \in DOMAIN content : j > k}

Init == Map!Init /\ cursor = None /\ loan = "none"

\* Another call changes the map, or only reads it.
MapStep ==
    /\ Map!Next
    /\ cursor' = IF content' = content \/ cursor = None THEN cursor ELSE Adrift
    /\ \/ UNCHANGED loan /\ (loan = "good" => UNCHANGED content)
       \/ loan = "good" /\ loan' = "void"

\* Somebody rearranges what is behind the map, or only fetches a page.
Displace ==
    /\ loan # "none" /\ loan' = "void"
    /\ UNCHANGED <<content, reply, cursor>>

\* Nothing is lent.
Free == loan = "none" /\ loan' = "none"

\* Begin().  It looks twice, and throws if the map was emptied in between.
Begin ==
    /\ UNCHANGED content
    /\ \/ cursor' = FirstOf(DOMAIN content) /\ reply' = Done
       \/ DOMAIN content = {} /\ reply' = Throws /\ UNCHANGED cursor

\* Begin(key): a key that is in the map is always found; for another the
\* iterator may be stray if there are keys behind it.
BeginAt(k) ==
    /\ UNCHANGED content
    /\ IF DOMAIN content = {}
       THEN reply' = Throws /\ UNCHANGED cursor
       ELSE /\ reply' = Done
            /\ \/ cursor' = FirstOf(From(k))
               \/ k \notin DOMAIN content /\ From(k) # {} /\ cursor' = Stray

\* operator* returns references,
Lend ==
    /\ loan = "none" /\ loan' = "good"
    /\ cursor.state \in {"at", "adrift"}
    /\ UNCHANGED <<content, reply, cursor>>

\* or throws.
Refuse ==
    /\ cursor.state \in {"end", "stray", "adrift"}
    /\ reply' = Throws
    /\ UNCHANGED <<content, cursor>>

\* The program has read through them.
Read ==
    /\ loan # "none" /\ loan' = "none"
    /\ UNCHANGED <<content, cursor>>
    /\ \/ loan = "void" /\ DOMAIN reply' = {"key", "rid"}
       \/ cursor.state = "at" /\ reply' = Yields(cursor.key, content[cursor.key])
       \/ cursor.state = "adrift" /\ \E k \in DOMAIN content : reply' = Yields(k, content[k])

\* operator++
Advance ==
    /\ UNCHANGED content
    /\ \/ cursor.state = "at" /\ cursor' = FirstOf(After(cursor.key)) /\ reply' = Done
       \/ cursor.state \in {"stray", "adrift"} /\ UNCHANGED cursor /\ reply' = Done
       \/ cursor.state \in {"end", "stray", "adrift"} /\ UNCHANGED cursor /\ reply' = Throws

\* IsEnd(), and the comparison with End().
IsEnd ==
    /\ cursor # None
    /\ UNCHANGED <<content, cursor>>
    /\ \/ reply' = Map!Answers(cursor = AtEnd)
       \/ cursor = Adrift /\ \E b \in BOOLEAN : reply' = Map!Answers(b)

\* End() looks twice as well.
EndThrows ==
    /\ DOMAIN content = {} /\ reply' = Throws
    /\ UNCHANGED <<content, cursor>>

\* The calls of one iterator come one after the other.
Next ==
    \/ MapStep \/ Displace
    \/ Lend \/ Read
    \/ /\ Free
       /\ \/ Begin \/ \E k \in Keys : BeginAt(k)
          \/ Refuse \/ Advance
          \/ IsEnd \/ EndThrows

Spec == Init /\ [][Next]_vars
=============================================================================
