----------------------------- MODULE MCBPlusTree -----------------------------
(* Model-checking instance of BPlusTree.                                    *)
EXTENDS BPlusTree
=============================================================================
