----------------------------- MODULE MCProgram ------------------------------
(* Instances of Program for TLC. *)
EXTENDS Program

NoChildren == {}
AllKinds == {"grouped", "detached", "escaped"}
=============================================================================
