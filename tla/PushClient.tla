----------------------------- MODULE PushClient -----------------------------
(***************************************************************************)
(* The supervisor of a native RTMP push (egress/rtmp_push.go): the same    *)
(* contract as Supervisor, kept by other steps. A connection is made       *)
(* without the lock and may take its time, so that a run looks a second    *)
(* time whether it is wanted; Stop waits for a run that is still           *)
(* connecting, but not forever.                                            *)
(*                                                                         *)
(* The state is that of Supervisor: proc is the run whose connection       *)
(* c.conn is, child the connection a run has published.                    *)
(***************************************************************************)
EXTENDS Supervisor

\* The run looks whether it is wanted and takes the URL of the moment.
Dial(e) ==
  /\ At(e, "begin") \/ At(e, "top")
  /\ Go(e, IF Wanted(e) THEN "connecting" ELSE "over")
  /\ UNCHANGED <<proc, inHook, child, owner, sink>> /\ UNCHANGED fields /\ UNCHANGED history

\* ConnectAndPublish, or a URL that does not parse: to fail may take longer than
\* many an attempt that succeeded.
Refused(e) ==
  /\ At(e, "connecting")
  /\ \E d \in Durations :
       /\ runs' = [runs EXCEPT ![e].at = "ended", ![e].ran = d]
       /\ lasted' = IF d = "long" THEN lasted \cup {e} ELSE lasted
  /\ UNCHANGED <<proc, inHook, child, owner, sink, overlapped, reached>> /\ UNCHANGED fields

Published(e) ==
  /\ At(e, "connecting")
  /\ child' = [child EXCEPT ![e] = "alive"]
  /\ reached' = reached \cup {e}
  /\ Go(e, "published")
  /\ UNCHANGED <<proc, inHook, owner, sink, overlapped, lasted>> /\ UNCHANGED fields

\* Plausible defect: the run does not look again after it has connected.
RegisterUnseen(e) ==
  /\ At(e, "published")
  /\ proc' = e /\ child' = child /\ Go(e, "start")
  /\ UNCHANGED <<inHook, owner, sink>> /\ UNCHANGED fields /\ UNCHANGED history

\* A connection nobody wants any more is torn down before anyone has seen it.
Register(e) ==
  /\ At(e, "published")
  /\ IF Wanted(e) THEN proc' = e /\ child' = child /\ Go(e, "start")
                  ELSE proc' = proc /\ child' = [child EXCEPT ![e] = "dead"] /\ Go(e, "over")
  /\ UNCHANGED <<inHook, owner, sink>> /\ UNCHANGED fields /\ UNCHANGED history

PushStop ==
  /\ owner = Idle /\ (desired \/ proc # None)
  /\ desired' = FALSE
  /\ owner' = [at |-> "detach", victim |-> proc, done |-> epoch]
  /\ UNCHANGED <<epoch, early, everLong, proc, inHook, runs, child, sink>> /\ UNCHANGED history

\* The hook is fired whether or not there is a connection; Teardown wakes the run.
PushStopDetaches ==
  /\ owner.at = "detach"
  /\ sink' = None
  /\ owner' = [owner EXCEPT !.at = "kill"]
  /\ UNCHANGED <<proc, inHook, runs, child>> /\ UNCHANGED fields /\ UNCHANGED history

PushStopTearsDown ==
  /\ owner.at = "kill"
  /\ child' = [e \in Epochs |-> IF e = owner.victim THEN "dead" ELSE child[e]]
  /\ owner' = IF inHook THEN Idle ELSE [owner EXCEPT !.at = "join"]
  /\ UNCHANGED <<proc, inHook, runs, sink>> /\ UNCHANGED fields /\ UNCHANGED history

\* The run is over, or it is still connecting when the time is up.
PushStopJoins ==
  /\ owner.at = "join" /\ runs[owner.done].at \in {"over", "connecting"}
  /\ owner' = Idle
  /\ UNCHANGED <<proc, inHook, runs, child, sink>> /\ UNCHANGED fields /\ UNCHANGED history

Attempt(e) == Dial(e) \/ Refused(e) \/ Published(e) \/ Register(e)

\* runSupervised: the decisions after an attempt are those of Supervisor.
PushRun(e) == Attempt(e) \/ Ended(e) \/ Decide(e) \/ Again(e) \/ Hooks(e)
PushStopping == PushStopDetaches \/ PushStopTearsDown \/ PushStopJoins

PushNext ==
  \/ Start \/ PushStop \/ PushStopping
  \/ \E e \in Epochs : PushRun(e) \/ Die(e)

PushSpec ==
  /\ Init /\ [][PushNext]_vars
  /\ WF_vars(PushStopping) /\ \A e \in Epochs : WF_vars(PushRun(e))

----------------------------------------------------------------------------
(* Properties.                                                             *)

\* Once Stop has returned and until the next Start no connection is in use; one that
\* a late run has made is torn down before it is used (Stop, runSupervised).
NoneInUse ==
  owner = Idle /\ ~desired =>
    \A e \in Epochs : child[e] = "alive" => At(e, "published") /\ proc # e

\* Connections of an old run and of the new one may live side by side for a moment,
\* but only the new one's is ever registered.
OnlyCurrentRegistered == owner = Idle /\ desired /\ proc # None => proc = epoch \/ child[proc] = "dead"

\* One connection is in use, of the run that is wanted, and none when none is wanted.
OneInUse == NoneInUse /\ OnlyCurrentRegistered

\* Said of the program, and not so (see the README): an output that ran long once
\* was connected.
UpMeansConnected == everLong => epoch \in reached

============================================================================
