---------------------------- MODULE MCBufferPool ----------------------------
(* Model-checking instance of BufferPool.                                  *)
EXTENDS BufferPool, TLC

\* Threads and frames are interchangeable (safety runs only).
Symmetry == Permutations(Threads) \cup Permutations(Frames)
=============================================================================
