------------------------- MODULE MCCgroupsBackend ---------------------------
(* Instances of CgroupsBackend for TLC. *)
EXTENDS CgroupsBackend
=============================================================================
