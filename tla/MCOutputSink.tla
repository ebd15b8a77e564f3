---------------------------- MODULE MCOutputSink ----------------------------
(* Small instances of OutputSink for TLC. *)
EXTENDS OutputSink, TLC

\* Only equality of parameters matters.
Symmetry == Permutations(Confs)

============================================================================
