----------------------------- MODULE MCMachine -----------------------------
(* Small instances of Machine for TLC. Platforms share nothing in Machine, so
   that one of them moves in each behaviour. To keep the one with a ladder
   small, its gate stays open and the service does not end under it; the other
   one meets both, and OutputNeedsGates treats the two switches alike.      *)
EXTENDS Machine

Created == NewMachine(TRUE, TRUE)

\* As it was created, with both switches on.
Waits(p) ==
  /\ cmds[p] = <<>> /\ ~pub[p] /\ call[p] = "none" /\ ~dropped[p]
  /\ mach[p] = Created /\ node[p] = NewPipeline

OneMoves ==
  /\ \E p \in Platforms : \A q \in Platforms \ {p} : Waits(q)
  /\ \A p \in Ladder :
       mach[p].left = Running /\ mach[p].gate
       /\ ~Contains(cmds[p], "gate_open") /\ ~Contains(cmds[p], "gate_close")

============================================================================
