--------------------------- MODULE MCBenchmarker ----------------------------
(* Instances of Benchmarker for TLC. *)
EXTENDS Benchmarker
=============================================================================
