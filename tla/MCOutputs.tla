----------------------------- MODULE MCOutputs -----------------------------
(* The two supervisors of an output, for TLC. They keep one contract over the
   same state, so that both are checked at once: a behaviour is one of either
   kind, and Init chooses which. *)
EXTENDS PushClient

VARIABLE kind   \* "process" or "push"

MCvars == <<vars, kind>>

MCInit == Init /\ kind \in {"process", "push"}

OfProcess(A) == kind = "process" /\ A /\ UNCHANGED kind
OfPush(A) == kind = "push" /\ A /\ UNCHANGED kind

MCNext == OfProcess(Next) \/ OfPush(PushNext)

\* The fairness of both specifications.
MCSpec ==
  /\ MCInit /\ [][MCNext]_MCvars
  /\ WF_MCvars(OfProcess(Stopping)) /\ WF_MCvars(OfPush(PushStopping))
  /\ \A e \in Epochs : WF_MCvars(OfProcess(Run(e))) /\ WF_MCvars(OfPush(PushRun(e)))

\* No process outlives a stop, and there is one at most; a connection that comes late
\* is another matter, and OneInUse is about it (Supervisor).
ProcessesStop == kind = "process" => StoppedMeansDead

=============================================================================
