----------------------------- MODULE MCProfiler -----------------------------
(***************************************************************************)
(* Instances of Profiler for TLC.                                          *)
(***************************************************************************)
EXTENDS Profiler, TLC

\* Workers and sources are interchangeable (safety runs only).
Symmetry == Permutations(Workers) \union Permutations(Sources)
=============================================================================
