-------------------------- MODULE MCIndexIterator --------------------------
(* Model-checking instance of IndexIterator: a program that gives each key *)
(* a RID of its own, as the tests do (RID(k, 0)), here of two in turn, so  *)
(* that the RID of an entry is not that of the next key.                   *)
EXTENDS IndexIterator

Named == \A p \in Leaves : \A e \in ToSet(node[p].entries) : e.rid = 1 + (e.key % 2)

NamedSpec == IterInit /\ [][IterNext /\ Named']_allVars
=============================================================================
