----------------------------- MODULE MCSwitcher -----------------------------
(* Small instances of Switcher for TLC. *)
EXTENDS Switcher, TLC

\* Only equality of parameters matters.
Symmetry == Permutations(Confs)

============================================================================
