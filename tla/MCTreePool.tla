----------------------------- MODULE MCTreePool -----------------------------
(* Model-checking instance of TreePool.                                     *)
EXTENDS TreePool
=============================================================================
