------------------------- MODULE MCBenchmarkServer -------------------------
(* BenchmarkClient and BenchmarkServer for TLC. *)
EXTENDS BenchmarkServer
=============================================================================
