---------------------------- MODULE MCScreencopy -----------------------------
(* Instances of Screencopy for TLC. *)
EXTENDS Screencopy
=============================================================================
