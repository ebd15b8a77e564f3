----------------------------- MODULE Broadcast -----------------------------
(***************************************************************************)
(* The broadcast as the Manager runs it (control/session.go, hooks.go,     *)
(* contract.go, crud_platforms.go): MediaMTX hooks start probes of the     *)
(* source that publishes, a probe that succeeds starts the platforms, and  *)
(* the session of the default source opens a waiting window when it drops. *)
(* Every Manager method holds its lock and is one step; probes, the        *)
(* session timer's callback and the platforms run beside it. A platform is *)
(* what Platform.tla promises, behind the commands the Manager posted.     *)
(*                                                                         *)
(* Platforms are those whose check box and gate are on, so that each one   *)
(* on air counts as alive; Manager.Shutdown is not part of this module.    *)
(***************************************************************************)
EXTENDS Integers, Sequences, SequencesExt

CONSTANTS
  Platforms,   \* the enabled platforms
  Mixes,       \* the choices of those fed by an extra source, not the default one
  Reports,     \* what their pipelines may report by themselves
  MaxInputs,   \* bound: calls from outside (hooks, dashboard, OBS page)
  MaxStale     \* bound: fired session timers that wait for the lock

ASSUME MixesAssumption == Mixes \subseteq SUBSET Platforms
ASSUME ReportsAssumption == Reports \subseteq {"stalled", "switched", "flapping", "oracle"}
ASSUME BoundsAssumption == MaxInputs \in Nat /\ MaxStale \in Nat

VARIABLES
  aux,           \* the platforms fed by the extra source (configuration)
  state, call,   \* each platform, and the callback its owner waits in
  queue,         \* the command channel of each platform
  relay,         \* platforms whose relay is wanted
  rebuilt,       \* platforms being recreated: the old one is shutting down
  src,           \* Source.available, validated and probeGenValue
  probes,        \* validateAndStart goroutines
  session,       \* sessionState
  timer,         \* timeoutTimer: "off", "armed", or "fired": its callback waits
  stale,         \* callbacks of cancelled timers that wait for the lock
  started,       \* lastStartedObsID, 0 when empty
  halted,        \* lastHaltedObsID, 0 when empty
  graceful,      \* IsGracefulRecent
  inputs,        \* calls from outside so far
  rejoined       \* history: platforms that were recreated after the end of the session,
                 \* started by it, and have not ended since

vars == <<aux, state, call, queue, relay, rebuilt, src, probes, session, timer, stale, started,
          halted, graceful, inputs, rejoined>>

Platform == INSTANCE Platform

Sources == {"main", "extra"}
SourceOf(p) == IF p \in aux THEN "extra" ELSE "main"
PlatformsOf(s) == {p \in Platforms : SourceOf(p) = s}
Default == Platforms \ aux

Cmds == {"available", "unavailable", "halt", "graceful_stop"} \cup Reports
ObsIds == 1..2
Probe == [source : Sources, gen : Nat, phase : {"check", "start", "reject"}]

TypeOK ==
  /\ aux \in Mixes
  /\ state \in [Platforms -> Platform!State]
  /\ call \in [Platforms -> Platform!Callback]
  /\ queue \in [Platforms -> Seq(Cmds)]
  /\ relay \subseteq Platforms /\ rebuilt \subseteq Platforms
  /\ src \in [Sources -> [avail : BOOLEAN, valid : BOOLEAN, gen : Nat]]
  /\ probes \subseteq Probe
  /\ session \in Platform!State
  /\ timer \in {"off", "armed", "fired"}
  /\ stale \in 0..MaxStale
  /\ started \in {0} \cup ObsIds /\ halted \in {0} \cup ObsIds
  /\ graceful \in BOOLEAN
  /\ inputs \in 0..MaxInputs
  /\ rejoined \subseteq Platforms

Init ==
  /\ aux \in Mixes
  /\ Platform!Init
  /\ queue = [p \in Platforms |-> <<>>]
  /\ relay = {} /\ rebuilt = {}
  /\ src = [s \in Sources |-> [avail |-> FALSE, valid |-> FALSE, gen |-> 0]]
  /\ probes = {}
  /\ session = "OFFLINE"
  /\ timer = "off"
  /\ stale = 0
  /\ started = 0 /\ halted = 0
  /\ graceful = FALSE
  /\ inputs = 0
  /\ rejoined = {}

----------------------------------------------------------------------------
(* Posts and the session timer.                                            *)

Input == inputs < MaxInputs /\ inputs' = inputs + 1

\* c[p] is what the Manager posts to p, "none" when it posts nothing.
PostEach(c) ==
  queue' = [p \in Platforms |-> IF c[p] = "none" THEN queue[p] ELSE Append(queue[p], c[p])]

\* Plausible defect: the timer is forgotten and not stopped.
cancelWithoutStop ==
  /\ timer' = "off"
  /\ stale' = IF timer # "off" THEN stale + 1 ELSE stale

\* timeoutTimer.Stop does not stop a callback that is already waiting.
cancelSessionTimeout ==
  /\ timer' = "off"
  /\ stale' = IF timer = "fired" THEN stale + 1 ELSE stale

scheduleSessionTimeout ==
  /\ timer' = "armed"
  /\ stale' = IF timer = "fired" THEN stale + 1 ELSE stale

KeepTimer == UNCHANGED <<timer, stale>>

TimerFires ==
  /\ timer = "armed" /\ stale < MaxStale
  /\ timer' = "fired"
  /\ UNCHANGED <<state, call, queue, relay, rebuilt, src, probes, session, stale, started, halted,
                 graceful, inputs>>

\* Plausible defect: the platforms are left to end by themselves.
EndSessionOnly == session' = "OFFLINE" /\ UNCHANGED queue

\* The end of the window: every platform is halted.
EndSession ==
  /\ session' = "OFFLINE"
  /\ PostEach([p \in Platforms |-> "halt"])

\* The callback of the armed timer, or of one that was cancelled too late.
OnSessionTimeout ==
  /\ \/ timer = "fired" /\ timer' = "off" /\ stale' = stale
     \/ stale > 0 /\ session # "FALLBACK" /\ stale' = stale - 1 /\ timer' = timer
     \/ \* cancelSessionTimeout by the callback itself
        /\ stale > 0 /\ session = "FALLBACK"
        /\ timer' = "off" /\ stale' = IF timer = "fired" THEN stale ELSE stale - 1
  /\ IF session = "FALLBACK" THEN EndSession ELSE UNCHANGED <<session, queue>>
  /\ UNCHANGED <<state, call, relay, rebuilt, src, probes, started, halted, graceful, inputs>>

----------------------------------------------------------------------------
(* MediaMTX hooks and the probes they start.                               *)

isCurrentSessionHalted == halted # 0 /\ started = halted

OnAvailable(s) ==
  /\ Input
  /\ IF isCurrentSessionHalted
     THEN UNCHANGED <<src, probes>>
     ELSE /\ src' = [src EXCEPT ![s].avail = TRUE, ![s].gen = @ + 1]
          /\ probes' = probes \cup {[source |-> s, gen |-> src[s].gen + 1, phase |-> "check"]}
  /\ KeepTimer
  /\ UNCHANGED <<state, call, queue, relay, rebuilt, session, started, halted, graceful>>

\* Plausible defect: the drop opens no window.
OnUnavailableNoWindow(s) ==
  /\ Input
  /\ src' = [src EXCEPT ![s] = [avail |-> FALSE, valid |-> FALSE, gen |-> @.gen + 1]]
  /\ PostEach([p \in Platforms |-> IF SourceOf(p) = s THEN "unavailable" ELSE "none"])
  /\ session' = IF s = "main" /\ session = "LIVE" THEN "FALLBACK" ELSE session
  /\ KeepTimer
  /\ UNCHANGED <<state, call, relay, rebuilt, probes, started, halted, graceful>>

OnUnavailable(s) ==
  /\ Input
  /\ src' = [src EXCEPT ![s] = [avail |-> FALSE, valid |-> FALSE, gen |-> @.gen + 1]]
  /\ PostEach([p \in Platforms |-> IF SourceOf(p) = s THEN "unavailable" ELSE "none"])
  /\ IF s = "main" /\ session = "LIVE"
     THEN session' = "FALLBACK" /\ scheduleSessionTimeout
     ELSE UNCHANGED session /\ KeepTimer
  /\ UNCHANGED <<state, call, relay, rebuilt, probes, started, halted, graceful>>

\* Plausible defect: the answer of a probe is taken whatever happened since.
NeverOutdated(q) == FALSE

Outdated(q) == q.gen # src[q.source].gen \/ ~src[q.source].avail

\* checkContract has answered; a good answer is accepted before the ladders of
\* the source mint their sessions, outside the lock.
ProbeAnswers(q) ==
  /\ q.phase = "check"
  /\ \/ probes' = (probes \ {q}) \cup {[q EXCEPT !.phase = "reject"]} /\ UNCHANGED src
     \/ ~Outdated(q) /\ probes' = (probes \ {q}) \cup {[q EXCEPT !.phase = "start"]}
        /\ src' = [src EXCEPT ![q.source].valid = TRUE]
     \/ Outdated(q) /\ probes' = probes \ {q} /\ UNCHANGED src
  /\ KeepTimer
  /\ UNCHANGED <<state, call, queue, relay, rebuilt, session, started, halted, graceful, inputs>>

ProbeRejects(q) ==
  /\ q.phase = "reject"
  /\ probes' = probes \ {q}
  /\ src' = IF Outdated(q) THEN src ELSE [src EXCEPT ![q.source].valid = FALSE]
  /\ KeepTimer
  /\ UNCHANGED <<state, call, queue, relay, rebuilt, session, started, halted, graceful, inputs>>

ProbeStarts(q) ==
  /\ q.phase = "start"
  /\ probes' = probes \ {q}
  /\ IF Outdated(q) THEN UNCHANGED <<queue, session>> /\ KeepTimer
     ELSE /\ IF q.source = "main" THEN session' = "LIVE" /\ cancelSessionTimeout
                                  ELSE UNCHANGED session /\ KeepTimer
          /\ PostEach([p \in Platforms |-> IF SourceOf(p) = q.source THEN "available" ELSE "none"])
  /\ UNCHANGED <<state, call, relay, rebuilt, src, started, halted, graceful, inputs>>

----------------------------------------------------------------------------
(* The OBS page, the dashboard and the settings page.                      *)

\* Plausible defect: the platforms of extra sources are not told.
OnManualStopDefaultOnly ==
  /\ Input
  /\ started' = 0 /\ halted' = 0
  /\ graceful' = TRUE
  /\ session' = "OFFLINE" /\ cancelSessionTimeout
  /\ PostEach([p \in Platforms |-> IF p \in aux THEN "none" ELSE "halt"])
  /\ UNCHANGED <<state, call, relay, rebuilt, src, probes>>

OnManualStop ==
  /\ Input
  /\ started' = 0 /\ halted' = 0
  /\ graceful' = TRUE
  /\ session' = "OFFLINE" /\ cancelSessionTimeout
  /\ PostEach([p \in Platforms |-> IF p \in aux THEN "graceful_stop" ELSE "halt"])
  /\ UNCHANGED <<state, call, relay, rebuilt, src, probes>>

\* The latch is set only when something was on air.
OnDashboardHalt ==
  /\ Input
  /\ session' = "OFFLINE" /\ cancelSessionTimeout
  /\ PostEach([p \in Platforms |-> "halt"])
  /\ halted' = IF session # "OFFLINE" \/ \E p \in Platforms : state[p] # "OFFLINE"
               THEN started ELSE halted
  /\ UNCHANGED <<state, call, relay, rebuilt, src, probes, started, graceful>>

\* The page repeats the id of its stream, and a new stream has a new id.
ReportOBSSession ==
  /\ Input
  /\ \E id \in ObsIds : id >= started /\ id >= halted /\ started' = id
  /\ KeepTimer
  /\ UNCHANGED <<state, call, queue, relay, rebuilt, src, probes, session, halted, graceful>>

\* OracleWindowSec has passed since the last manual stop.
GracefulExpires ==
  /\ graceful
  /\ graceful' = FALSE
  /\ KeepTimer
  /\ UNCHANGED <<state, call, queue, relay, rebuilt, src, probes, session, started, halted, inputs>>

\* UpdatePlatform of another topology: the lock is released while the old
\* platform shuts down; it may still handle what is queued.
RecreateBegins(p) ==
  /\ p \notin rebuilt
  /\ Input
  /\ rebuilt' = rebuilt \cup {p}
  /\ KeepTimer
  /\ UNCHANGED <<state, call, queue, relay, src, probes, session, started, halted, graceful>>

\* The new platform joins its source if that one is publishing valid content.
RecreateEnds(p) ==
  /\ p \in rebuilt /\ call[p] = "none"
  /\ rebuilt' = rebuilt \ {p}
  /\ state' = [state EXCEPT ![p] = "OFFLINE"]
  /\ relay' = relay \ {p}
  /\ queue' = [queue EXCEPT ![p] =
                 IF src[SourceOf(p)].avail /\ src[SourceOf(p)].valid THEN <<"available">> ELSE <<>>]
  /\ KeepTimer
  /\ UNCHANGED <<call, src, probes, session, started, halted, graceful, inputs>>

----------------------------------------------------------------------------
(* Callbacks of the platforms, under the Manager's lock.                   *)

OnPlatformStalled(p) ==
  /\ call[p] = "stalled" /\ Platform!CallReturns(p)
  /\ IF p \in Default /\ session = "LIVE"
     THEN session' = "FALLBACK" /\ scheduleSessionTimeout
     ELSE UNCHANGED session /\ KeepTimer
  /\ UNCHANGED <<queue, relay, rebuilt, src, probes, started, halted, graceful, inputs>>

\* Plausible defect: the window stays open after the return.
OnPlatformRecoveredKeepsTimer(p) ==
  /\ call[p] = "recovered" /\ Platform!CallReturns(p)
  /\ session' = IF p \in Default /\ session = "FALLBACK" THEN "LIVE" ELSE session
  /\ KeepTimer
  /\ UNCHANGED <<queue, relay, rebuilt, src, probes, started, halted, graceful, inputs>>

OnPlatformRecovered(p) ==
  /\ call[p] = "recovered" /\ Platform!CallReturns(p)
  /\ IF p \in Default /\ session = "FALLBACK"
     THEN session' = "LIVE" /\ cancelSessionTimeout
     ELSE UNCHANGED session /\ KeepTimer
  /\ UNCHANGED <<queue, relay, rebuilt, src, probes, started, halted, graceful, inputs>>

\* Both only report: OBS is asked to stop, or the check box is switched off.
OnPlatformGone(p) ==
  /\ call[p] \in {"gave_up", "unusable"} /\ Platform!CallReturns(p)
  /\ KeepTimer
  /\ UNCHANGED <<queue, relay, rebuilt, src, probes, session, started, halted, graceful, inputs>>

----------------------------------------------------------------------------
(* The platforms: the moves of Platform.tla, on the Manager's commands and *)
(* on the events of their own pipelines, in the order they were posted.    *)

managerOnly == <<rebuilt, src, probes, session, timer, stale, started, halted, graceful, inputs>>

NothingToLeanOn(p) == p \in aux /\ (graceful \/ session = "OFFLINE")

Stays == UNCHANGED <<state, call>>

\* onSourceUnavailable: the backup video, or the end where there is nothing to
\* wait for or nothing to show.
LosesSource(p) ==
  \/ state[p] # "LIVE" /\ Stays
  \/ state[p] = "LIVE" /\ NothingToLeanOn(p) /\ Platform!End(p)
  \/ /\ state[p] = "LIVE" /\ ~NothingToLeanOn(p)
     /\ Platform!Drop(p) \/ Platform!GiveUp(p) \/ Platform!Unusable(p)

\* onRelayStalled
Stalls(p) ==
  \/ state[p] # "LIVE" /\ Stays
  \/ state[p] = "LIVE" /\ NothingToLeanOn(p) /\ Platform!End(p)
  \/ ~NothingToLeanOn(p) /\ (Platform!Stall(p) \/ Platform!Unusable(p))

\* What the owner goroutine of p does with the command c.
Handles(p, c) ==
  \/ c = "available" /\ (IF state[p] = "OFFLINE" THEN Platform!GoLive(p) ELSE Stays)
  \/ c = "unavailable" /\ LosesSource(p)
  \/ c = "stalled" /\ Stalls(p)
  \/ c = "switched" /\ (IF state[p] = "FALLBACK" THEN Platform!Return(p) ELSE Stays)
  \/ c = "flapping" /\ (IF state[p] # "OFFLINE" THEN Platform!GiveUp(p) ELSE Stays)
  \/ c = "halt" /\ Platform!End(p)
  \/ c = "graceful_stop" /\ (IF state[p] = "FALLBACK" THEN Platform!End(p) ELSE Stays)
  \/ c = "oracle" /\ (IF state[p] = "FALLBACK" /\ graceful THEN Platform!End(p) ELSE Stays)

HandleCmd(p) ==
  /\ queue[p] # <<>> /\ call[p] = "none"
  /\ queue' = [queue EXCEPT ![p] = Tail(@)]
  /\ Handles(p, Head(queue[p]))
  /\ relay' = IF Head(queue[p]) = "available" THEN relay \cup {p}
              ELSE IF Head(queue[p]) = "unavailable" \/ state'[p] = "OFFLINE" THEN relay \ {p}
              ELSE relay
  /\ UNCHANGED managerOnly

\* What the pipeline may report: a stalled relay, a cut back to it, an output
\* that was refused, and the recheck of a platform without a session.
Events(p) ==
  {c \in Reports :
     \/ c = "stalled" /\ p \in relay
     \/ c = "switched" /\ p \in relay /\ state[p] = "FALLBACK"
     \/ c = "flapping" /\ state[p] # "OFFLINE"
     \/ c = "oracle" /\ p \in aux /\ state[p] = "FALLBACK"}

\* Bound: one event of a kind waits in the channel at a time.
PipelineReports(p) ==
  /\ \E c \in Events(p) :
       ~Contains(queue[p], c) /\ queue' = [queue EXCEPT ![p] = Append(@, c)]
  /\ UNCHANGED <<state, call, relay>> /\ UNCHANGED managerOnly

----------------------------------------------------------------------------
Calls(p) == OnPlatformStalled(p) \/ OnPlatformRecovered(p) \/ OnPlatformGone(p)

Step ==
  \/ \E s \in Sources : OnAvailable(s) \/ OnUnavailable(s)
  \/ \E q \in probes : ProbeAnswers(q) \/ ProbeRejects(q) \/ ProbeStarts(q)
  \/ OnManualStop \/ OnDashboardHalt \/ ReportOBSSession \/ GracefulExpires
  \/ TimerFires \/ OnSessionTimeout
  \/ \E p \in Platforms :
       \/ RecreateBegins(p) \/ RecreateEnds(p) \/ Calls(p)
       \/ HandleCmd(p) \/ PipelineReports(p)

\* p is going to be halted and nothing posted later starts it again.
WillEnd(p) ==
  \E i \in 1..Len(queue[p]) :
    queue[p][i] = "halt" /\ \A j \in i..Len(queue[p]) : queue[p][j] # "available"

\* p is off, or about to be.
Over(p) == WillEnd(p) \/ (state[p] = "OFFLINE" /\ ~Contains(queue[p], "available"))

\* The configuration stays, and history is kept.
Besides ==
  /\ UNCHANGED aux
  /\ rejoined' = {p \in rejoined \cup (rebuilt \ rebuilt') : session' = "OFFLINE" /\ ~Over(p)'}

Next == Step /\ Besides

Spec == Init /\ [][Next]_vars

\* The runtime's timer fires, its callback gets the lock, and so do the owner
\* goroutines of the platforms.
Fairness ==
  /\ WF_vars(TimerFires /\ Besides)
  /\ WF_vars(OnSessionTimeout /\ Besides)
  /\ \A p \in Platforms :
       WF_vars(HandleCmd(p) /\ Besides) /\ WF_vars(Calls(p) /\ Besides)

FairSpec == Spec /\ Fairness

----------------------------------------------------------------------------
(* Properties.                                                             *)

\* A session timer is armed, or its callback waits for the lock, exactly while
\* the session waits for its source (schedule/cancelSessionTimeoutLocked).
WindowHasTimer == session = "FALLBACK" <=> timer # "off"

\* Once the session has ended, each platform of the default source is OFFLINE or
\* about to be, whatever probes, drops and returns were under way; only one that the
\* settings page has recreated since may be started by that, until it ends again
\* (OnManualStop, OnDashboardHalt, onSessionTimeout against validateAndStart;
\* joinRunningSourceLocked).
EndedMeansEnded == session = "OFFLINE" => \A p \in Default \ rejoined : Over(p)

\* A platform of an extra source does not keep playing its backup video after the
\* main session has ended (GracefulStopIfFallback, onSourceUnavailable).
AuxNotStranded ==
  session = "OFFLINE" =>
    \A p \in aux :
      state[p] = "FALLBACK" => \E c \in {"halt", "graceful_stop"} : Contains(queue[p], c)

\* The last word a platform hears of a source that is gone is that it is gone: a
\* probe that outlives the publication starts nobody (validateAndStart, probeGen).
GoneIsLastWord ==
  \A p \in Platforms :
    ~src[SourceOf(p)].avail =>
      \A i \in 1..Len(queue[p]) :
        queue[p][i] = "available" => \E j \in i..Len(queue[p]) : queue[p][j] = "unavailable"

\* The session waits for its source for a bounded time only (onSessionTimeout).
WindowCloses == session = "FALLBACK" ~> session # "FALLBACK"

\* Once the session has ended, the platforms of the default source stop unless
\* it starts anew, or they are recreated and started by that.
BroadcastEnds ==
  \A p \in Platforms :
    p \notin aux /\ session = "OFFLINE"
      ~> session # "OFFLINE" \/ p \in rejoined \/ (state[p] = "OFFLINE" /\ queue[p] = <<>>)

\* What has begun ends: the wait for a source, and the platforms of a session that is over.
SessionsEnd == WindowCloses /\ BroadcastEnds

\* Said of the program, and not so (see the README): while the default source
\* is gone the session is not LIVE, so that its deadline runs.
GoneHasDeadline == ~src["main"].avail => session # "LIVE"

\* Said of the program, and not so (see the README): a halted OBS session does
\* not start the broadcast again.
LatchHolds == isCurrentSessionHalted => session = "OFFLINE"

\* Said of the program, and not so (see the README): while the halted OBS session goes
\* on, no platform of it starts again (joinRunningSourceLocked does not ask).
HaltedStaysOff ==
  isCurrentSessionHalted /\ session = "OFFLINE" => \A p \in Default : Over(p)

\* Said of the program, and not so (see the README): with its last platform given up
\* the broadcast has ended, and nobody waits for its source (OnPlatformGaveUp).
GivingUpEnds ==
  [][\A p \in Platforms :
       call[p] = "gave_up" /\ call'[p] = "none" /\ (\A q \in Platforms : state[q] = "OFFLINE")
         => session' = "OFFLINE"]_vars

============================================================================
