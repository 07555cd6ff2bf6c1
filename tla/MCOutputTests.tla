---------------------------- MODULE MCOutputTests ----------------------------
(* Instances of OutputTests for TLC. *)
EXTENDS OutputTests
=============================================================================
