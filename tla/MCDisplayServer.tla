-------------------------- MODULE MCDisplayServer ---------------------------
(* Instances of DisplayServer for TLC. *)
EXTENDS DisplayServer

NoChildren == {}
AllKinds == {"grouped", "detached", "escaped"}
=============================================================================
