----------------------------- MODULE Platform ------------------------------
(***************************************************************************)
(* What a platform promises its Manager: the moves of its state and the    *)
(* callback that reports each of them. The state machine of Machine.tla    *)
(* implements this specification; Broadcast.tla builds on it.              *)
(***************************************************************************)
CONSTANT Platforms
VARIABLES state, call

State == {"OFFLINE", "LIVE", "FALLBACK"}
Callback == {"none", "stalled", "recovered", "gave_up", "unusable"}

Init ==
  /\ state = [p \in Platforms |-> "OFFLINE"]
  /\ call = [p \in Platforms |-> "none"]

\* A move is made between callbacks only: its owner is busy until one returns.
Move(p, from, to, cb) ==
  /\ call[p] = "none"
  /\ state[p] \in from
  /\ state' = [state EXCEPT ![p] = to]
  /\ call' = [call EXCEPT ![p] = cb]

GoLive(p) == Move(p, {"OFFLINE"}, "LIVE", "none")
Drop(p) == Move(p, {"LIVE"}, "FALLBACK", "none")
Stall(p) == Move(p, {"LIVE"}, "FALLBACK", "stalled")
Return(p) == Move(p, {"FALLBACK"}, "LIVE", "recovered")
GiveUp(p) == Move(p, {"LIVE", "FALLBACK"}, "OFFLINE", "gave_up")
Unusable(p) == Move(p, {"LIVE"}, "OFFLINE", "unusable")
End(p) == Move(p, State, "OFFLINE", "none")

CallReturns(p) ==
  /\ call[p] # "none"
  /\ call' = [call EXCEPT ![p] = "none"]
  /\ UNCHANGED state

Next ==
  \E p \in Platforms :
    \/ GoLive(p) \/ Drop(p) \/ Stall(p) \/ Return(p)
    \/ GiveUp(p) \/ Unusable(p) \/ End(p) \/ CallReturns(p)

Spec == Init /\ [][Next]_<<state, call>>

============================================================================
