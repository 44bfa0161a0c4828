-------------------------- MODULE MCDiskScheduler --------------------------
(* Model-checking instance of DiskScheduler.                                *)
EXTENDS DiskScheduler
=============================================================================
