----------------------------- MODULE Supervisor -----------------------------
(***************************************************************************)
(* The supervisor of a long-lived process (proc/supervisor.go), of an      *)
(* output or of a relay: Start raises a goroutine (a run) that spawns the  *)
(* process, waits for its death and tries again for as long as its epoch   *)
(* is wanted; Stop kills and waits. The owner goroutine of the platform    *)
(* calls both; the hooks attach the output to its sink and detach it       *)
(* (platform/pipeline.go, onOutStart) and post the report of flapping.     *)
(*                                                                         *)
(* A step is what the code does under one lock. A hook is two: the goroutine *)
(* enters it (inHook), and what it does has happened.                      *)
(***************************************************************************)
EXTENDS Integers, Thresholds

Epochs == 1..MaxStarts
None == 0

VARIABLES
  desired, epoch, early, everLong,   \* fields of Supervisor
  proc,      \* the run whose process s.proc is
  inHook,    \* is a goroutine of the supervisor in a hook?
  runs,      \* goroutine of each epoch, with its locals
  child,     \* the process of each run
  owner,     \* the caller inside Stop, with its locals
  sink,      \* the run whose output the sink is attached to
  overlapped, \* history: has a run been raised while an earlier one went on?
  lasted,    \* history: the runs an attempt of which has lasted
  reached    \* history: the runs that have had a process (a connection)

vars == <<desired, epoch, early, everLong, proc, inHook, runs, child, owner, sink, overlapped,
          lasted, reached>>

Places == {"none", "begin", "top", "connecting", "published", "start", "starting", "wait", "ended",
           "exit", "exiting", "decide", "flap", "flapping", "again", "over"}

NewRun == [at |-> "none", ran |-> "short", wanted |-> FALSE, never |-> FALSE]
Idle == [at |-> "idle", victim |-> None, done |-> None]

TypeOK ==
  /\ desired \in BOOLEAN /\ everLong \in BOOLEAN /\ inHook \in BOOLEAN /\ overlapped \in BOOLEAN
  /\ epoch \in 0..MaxStarts /\ early \in 0..CountThreshold + 1
  /\ proc \in Epochs \cup {None} /\ sink \in Epochs \cup {None}
  /\ runs \in [Epochs -> [at : Places, ran : Durations, wanted : BOOLEAN, never : BOOLEAN]]
  /\ child \in [Epochs -> {"none", "alive", "dead"}]
  /\ owner \in [at : {"idle", "detach", "kill", "clear", "join"}, victim : Epochs \cup {None},
                done : Epochs \cup {None}]
  /\ lasted \subseteq Epochs /\ reached \subseteq Epochs
  /\ proc # None => child[proc] # "none"

Init ==
  /\ desired = FALSE /\ epoch = 0 /\ early = 0 /\ everLong = FALSE /\ proc = None
  /\ inHook = FALSE
  /\ runs = [e \in Epochs |-> NewRun]
  /\ child = [e \in Epochs |-> "none"]
  /\ owner = Idle
  /\ sink = None
  /\ overlapped = FALSE /\ lasted = {} /\ reached = {}

fields == <<desired, epoch, early, everLong>>
history == <<overlapped, lasted, reached>>

\* Plausible defect: a run goes on for as long as any run is wanted.
WantedIgnoringEpoch(e) == desired

\* wantedLocked
Wanted(e) == desired /\ epoch = e

At(e, place) == runs[e].at = place

\* The locals of an attempt mean nothing before the next one.
Go(e, place) ==
  runs' = [runs EXCEPT ![e] = IF place \in {"top", "over"} THEN [NewRun EXCEPT !.at = place]
                                                          ELSE [@ EXCEPT !.at = place]]

----------------------------------------------------------------------------
(* The goroutine of a run.                                                 *)

\* Without its log file the run is over before it has tried anything.
OpenLog(e) ==
  /\ At(e, "begin")
  /\ \/ Go(e, "top")
     \/ LogMayFail /\ Go(e, "over")
  /\ UNCHANGED <<proc, inHook, child, owner, sink>> /\ UNCHANGED fields /\ UNCHANGED history

\* Plausible defect: a run is registered before it is known to have come up.
SpawnRegistersFirst(e) ==
  /\ At(e, "top") /\ Wanted(e)
  /\ proc' = e
  /\ \/ child' = [child EXCEPT ![e] = "alive"] /\ Go(e, "start") /\ reached' = reached \cup {e}
     \/ child' = child /\ Go(e, "ended") /\ reached' = reached
  /\ UNCHANGED <<inHook, owner, sink, overlapped, lasted>> /\ UNCHANGED fields

\* Plausible defect: on_start comes with the first process of a run only.
SpawnHooksOnce(e) ==
  /\ At(e, "top") /\ Wanted(e)
  /\ \/ /\ proc' = e /\ child' = [child EXCEPT ![e] = "alive"]
        /\ Go(e, IF e \in reached THEN "wait" ELSE "start")
        /\ reached' = reached \cup {e}
     \/ /\ runs' = [runs EXCEPT ![e].at = "ended", ![e].ran = "short"]
        /\ UNCHANGED <<proc, child, reached>>
  /\ UNCHANGED <<inHook, owner, sink, overlapped, lasted>> /\ UNCHANGED fields

\* The run looks whether it is wanted and spawns, all under the lock.
Spawn(e) ==
  /\ At(e, "top") /\ Wanted(e)
  /\ \/ /\ proc' = e /\ child' = [child EXCEPT ![e] = "alive"] /\ Go(e, "start")
        /\ reached' = reached \cup {e}
     \/ /\ runs' = [runs EXCEPT ![e].at = "ended", ![e].ran = "short"]
        /\ UNCHANGED <<proc, child, reached>>
  /\ UNCHANGED <<inHook, owner, sink, overlapped, lasted>> /\ UNCHANGED fields

GiveWay(e) ==
  /\ At(e, "top") /\ ~Wanted(e)
  /\ Go(e, "over")
  /\ UNCHANGED <<proc, inHook, child, owner, sink>> /\ UNCHANGED fields /\ UNCHANGED history

\* A process ends, or a connection breaks, whenever it likes.
Die(e) ==
  /\ child[e] = "alive"
  /\ child' = [child EXCEPT ![e] = "dead"]
  /\ \E d \in Durations :
       /\ runs' = [runs EXCEPT ![e].ran = d]
       /\ lasted' = IF d = "long" THEN lasted \cup {e} ELSE lasted
  /\ UNCHANGED <<proc, inHook, owner, sink, overlapped, reached>> /\ UNCHANGED fields

\* supHook: the three hooks of a run.
EnterHook(e) ==
  /\ \E hook \in {<<"start", "starting">>, <<"exit", "exiting">>, <<"flap", "flapping">>} :
       At(e, hook[1]) /\ Go(e, hook[2])
  /\ inHook' = TRUE
  /\ UNCHANGED <<proc, child, owner, sink>> /\ UNCHANGED fields /\ UNCHANGED history

\* on_start: the sink gets the stdin of the new process.
OnStart(e) ==
  /\ At(e, "starting")
  /\ sink' = e /\ inHook' = FALSE /\ Go(e, "wait")
  /\ UNCHANGED <<proc, child, owner>> /\ UNCHANGED fields /\ UNCHANGED history

\* Plausible defect: a run that does not wait for the death of its process.
AttemptOverEarly(e) == At(e, "ended") \/ At(e, "wait")

AttemptOver(e) == At(e, "ended") \/ (At(e, "wait") /\ child[e] = "dead")

\* Plausible defect: a run that was stopped leaves the sink attached.
EndedLeavesSink(e) ==
  /\ AttemptOver(e)
  /\ runs' = [runs EXCEPT ![e].wanted = Wanted(e), ![e].at = IF Wanted(e) THEN "decide" ELSE "over"]
  /\ proc' = IF proc = e THEN None ELSE proc
  /\ UNCHANGED <<inHook, child, owner, sink>> /\ UNCHANGED fields /\ UNCHANGED history

\* The attempt is over; what the run reads here it uses after the lock.
Ended(e) ==
  /\ AttemptOver(e)
  /\ IF epoch = e THEN runs' = [runs EXCEPT ![e].wanted = Wanted(e), ![e].at = "exit"]
                   ELSE Go(e, "over")
  /\ proc' = IF proc = e THEN None ELSE proc
  /\ UNCHANGED <<inHook, child, owner, sink>> /\ UNCHANGED fields /\ UNCHANGED history

\* on_exit: the sink is detached, whosever it is by now.
OnExit(e) ==
  /\ At(e, "exiting")
  /\ sink' = None /\ inHook' = FALSE
  /\ Go(e, IF runs[e].wanted THEN "decide" ELSE "over")
  /\ UNCHANGED <<proc, child, owner>> /\ UNCHANGED fields /\ UNCHANGED history

\* Before the first attempt that lasted a single failure is reported; after it,
\* CountThreshold short ones in a row. early only matters up to the threshold.
Decide(e) ==
  LET ran == runs[e].ran
      long == everLong \/ ran = "long"
      counted == IF ~long THEN early
                 ELSE IF ran # "short" THEN 0
                 ELSE IF early > CountThreshold THEN early ELSE early + 1
      flaps == ~long \/ (ran = "short" /\ counted = CountThreshold)
  IN /\ At(e, "decide")
     /\ everLong' = long /\ early' = counted
     /\ runs' = [runs EXCEPT ![e].never = ~long, ![e].at = IF flaps THEN "flap" ELSE "again"]
     /\ UNCHANGED <<desired, epoch, proc, inHook, child, owner, sink>> /\ UNCHANGED history

\* Plausible defect: a run that has reported does not try again.
OnFlappingEnds(e) ==
  /\ At(e, "flapping")
  /\ inHook' = FALSE /\ Go(e, "over")
  /\ UNCHANGED <<proc, child, owner, sink>> /\ UNCHANGED fields /\ UNCHANGED history

\* on_flapping posts into the channel of the machine, which may answer with Stop.
OnFlapping(e) ==
  /\ At(e, "flapping")
  /\ inHook' = FALSE /\ Go(e, "again")
  /\ UNCHANGED <<proc, child, owner, sink>> /\ UNCHANGED fields /\ UNCHANGED history

\* The pause before the next attempt is the time a run may stay at the top.
Again(e) ==
  /\ At(e, "again")
  /\ Go(e, IF Wanted(e) THEN "top" ELSE "over")
  /\ child' = [child EXCEPT ![e] = "none"]
  /\ UNCHANGED <<proc, inHook, owner, sink>> /\ UNCHANGED fields /\ UNCHANGED history

----------------------------------------------------------------------------
(* The caller.                                                             *)

\* A supervisor that is wanted already keeps its run.
Start ==
  /\ owner = Idle /\ ~desired /\ epoch < MaxStarts
  /\ desired' = TRUE /\ early' = 0 /\ everLong' = FALSE
  /\ epoch' = epoch + 1
  /\ Go(epoch + 1, "begin")
  /\ overlapped' = (overlapped \/ \E e \in 1..epoch : ~At(e, "over"))
  /\ UNCHANGED <<proc, inHook, child, owner, sink, lasted, reached>>

\* Without a process Stop returns at once, and waits for nobody.
Stop ==
  /\ owner = Idle /\ (desired \/ proc # None)
  /\ desired' = FALSE
  /\ owner' = IF proc = None THEN Idle ELSE [at |-> "detach", victim |-> proc, done |-> epoch]
  /\ UNCHANGED <<epoch, early, everLong, proc, inHook, runs, child, sink>> /\ UNCHANGED history

StopDetaches ==
  /\ owner.at = "detach"
  /\ sink' = None
  /\ owner' = [owner EXCEPT !.at = "kill"]
  /\ UNCHANGED <<proc, inHook, runs, child>> /\ UNCHANGED fields /\ UNCHANGED history

\* End of input, terminate, kill: in the end the process is dead.
StopKills ==
  /\ owner.at = "kill"
  /\ child' = [child EXCEPT ![owner.victim] = "dead"]
  /\ owner' = [owner EXCEPT !.at = "clear"]
  /\ UNCHANGED <<proc, inHook, runs, sink>> /\ UNCHANGED fields /\ UNCHANGED history

\* A run that is in a hook is not waited for, it may be the one that calls.
StopClears ==
  /\ owner.at = "clear"
  /\ proc' = IF proc = owner.victim THEN None ELSE proc
  /\ owner' = IF inHook THEN Idle ELSE [owner EXCEPT !.at = "join"]
  /\ UNCHANGED <<inHook, runs, child, sink>> /\ UNCHANGED fields /\ UNCHANGED history

\* What a run has left after the death of its process are hooks, which return
\* before the time limit of the wait.
StopJoins ==
  /\ owner.at = "join" /\ At(owner.done, "over")
  /\ owner' = Idle
  /\ UNCHANGED <<proc, inHook, runs, child, sink>> /\ UNCHANGED fields /\ UNCHANGED history

----------------------------------------------------------------------------
Hooks(e) == EnterHook(e) \/ OnStart(e) \/ OnExit(e) \/ OnFlapping(e)
Run(e) ==
  OpenLog(e) \/ Spawn(e) \/ GiveWay(e) \/ Ended(e) \/ Decide(e) \/ Again(e) \/ Hooks(e)
Stopping == StopDetaches \/ StopKills \/ StopClears \/ StopJoins

Next ==
  \/ Start \/ Stop \/ Stopping
  \/ \E e \in Epochs : Run(e) \/ Die(e)

Spec == Init /\ [][Next]_vars

\* The goroutines run: a run that is not waiting for its process takes its next
\* step, and a Stop that has begun goes on.
FairSpec == Spec /\ WF_vars(Stopping) /\ \A e \in Epochs : WF_vars(Run(e))

----------------------------------------------------------------------------
(* Properties.                                                             *)

\* Once Stop has returned, nothing runs, and nothing comes up later: whatever a
\* run was doing, no process outlives the stop and no second one runs beside the
\* one of the latest Start (Stop, runSupervised).
StoppedMeansDead ==
  owner = Idle => \A e \in Epochs : child[e] = "alive" => Wanted(e) /\ proc = e

\* A running process that is wanted and whose on_start is done has the sink.
Fed ==
  (owner = Idle /\ desired /\ child[epoch] = "alive"
    /\ runs[epoch].at \notin {"published", "start", "starting"}) => sink = epoch

\* An output that runs is fed, across restarts, stops and starts, as long as no run
\* was raised beside one that was still going on (onOutStart, Detach).
FedUnlessOverlapped == epoch # 0 /\ ~overlapped => Fed

\* A sink never stays with a process that is dead, as long as no run was raised beside
\* another: it is detached in the end or given the next process (on_exit, on_start).
NoDeadSink ==
  \A e \in Epochs :
    (sink = e /\ child[e] = "dead") ~> (sink # e \/ child[e] = "alive" \/ overlapped)

\* A wanted supervisor never rests: it has a process or is about to try again,
\* whatever it has reported (runSupervised).
Trying == epoch # 0 /\ runs[epoch].at \in {"top", "connecting", "published", "start", "starting", "wait"}
KeepsTrying == desired ~> (~desired \/ Trying)

\* Said of the program, and not so (see the README): the check of the epoch keeps
\* the on_exit of an old run from the sink of the new one.
OnExitSparesNewRun == epoch # 0 => Fed

\* Said of the program, and not so (see the README): a failure is final only
\* before the first attempt that lasted.
AlarmIsTrue == \A e \in Epochs : runs[e].at \in {"flap", "flapping"} /\ runs[e].never => e \notin lasted

============================================================================
