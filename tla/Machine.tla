------------------------------ MODULE Machine ------------------------------
(***************************************************************************)
(* The state machine of a platform (platform/machine.go) over the nodes of *)
(* its pipeline (platform/pipeline.go, nodes.go): one owner goroutine per  *)
(* platform takes commands from a bounded channel, while the relay reader, *)
(* the switcher, the resume goroutine, the output supervisor, two timers   *)
(* and the Manager post commands from goroutines of their own.             *)
(*                                                                         *)
(* A handler is one step; the callback into the Manager that ends some of  *)
(* them is a second step (call), because the handler then waits for the    *)
(* Manager's lock with its own state already published.                    *)
(***************************************************************************)
EXTENDS Integers, Sequences, SequencesExt

CONSTANTS
  Platforms,   \* the configured platforms
  Ladder,      \* those with an Enhanced Broadcasting arm (spec.EB)
  Aux,         \* those fed by a source that is not the default one
  QueueCap,    \* capacity of the command channel (cmdQueue, 256 in the code)
  AtStart,     \* what check box and gate may be in the configuration
  Posts        \* what the dashboard, the session and the OBS page may ask for

ASSUME PlatformsAssumption == Ladder \subseteq Platforms /\ Aux \subseteq Platforms
ASSUME QueueCapAssumption == QueueCap \in Nat \ {0}
ASSUME AtStartAssumption == AtStart \subseteq BOOLEAN
ASSUME PostsAssumption ==
  Posts \subseteq {"enable", "disable", "gate_open", "gate_close", "update_credentials",
                   "apply_preset", "halt", "graceful_stop", "shutdown"}

VARIABLES
  mach,      \* fields of each owner goroutine
  node,      \* what each pipeline is doing
  cmds,      \* the command channel of each platform
  call,      \* the Manager callback a handler is still to make
  dropped,   \* has the channel of the platform ever overflowed (m.dropped > 0)
  pub        \* Manager's view: the source of the platform is publishing

vars == <<mach, node, cmds, call, dropped, pub>>

----------------------------------------------------------------------------
(* State, commands and the initial values.                                 *)

State == {"OFFLINE", "LIVE", "FALLBACK"}

ManagerCmds ==
  {"source_available", "source_unavailable", "enable", "disable", "gate_open",
   "gate_close", "update_credentials", "apply_preset", "halt", "graceful_stop"}

PipelineCmds ==
  {"relay_stalled", "relay_resumed", "switched_to_relay", "switched_params_changed",
   "out_flapping_never", "oracle_recheck", "ladder_tick"}

Callback == {"none", "stalled", "recovered", "gave_up", "unusable"}

\* left counts the commands still to be drained once the loop has seen the
\* shutdown signal; Running means that it has not.
Running == -1

MachineType ==
  [state : State, halted : BOOLEAN, enabled : BOOLEAN, gate : BOOLEAN,
   shut : BOOLEAN, left : Int, oracle : BOOLEAN, watching : BOOLEAN, tick : BOOLEAN]

NodeType ==
  [relay : BOOLEAN, reader : {"none", "flow", "stall"}, active : {"none", "relay", "backup"},
   pending : BOOLEAN, backup : BOOLEAN, resuming : BOOLEAN, outro : BOOLEAN,
   output : BOOLEAN, running : BOOLEAN, ranLong : BOOLEAN, failed : BOOLEAN, ready : BOOLEAN]

\* The fields of Machine are well typed; one platform's queue never outgrows
\* the channel.
TypeOK ==
  /\ mach \in [Platforms -> MachineType]
  /\ node \in [Platforms -> NodeType]
  /\ cmds \in [Platforms -> Seq(ManagerCmds \cup PipelineCmds)]
  /\ \A p \in Platforms : Len(cmds[p]) <= QueueCap
  /\ call \in [Platforms -> Callback]
  /\ dropped \in [Platforms -> BOOLEAN]
  /\ pub \in [Platforms -> BOOLEAN]

\* newMachine: OFFLINE, with the check box and the group gate of the config.
NewMachine(enabled, gate) ==
  [state |-> "OFFLINE", halted |-> FALSE, enabled |-> enabled, gate |-> gate, shut |-> FALSE,
   left |-> Running, oracle |-> FALSE, watching |-> FALSE, tick |-> FALSE]

NewPipeline ==
  [relay |-> FALSE, reader |-> "none", active |-> "none", pending |-> FALSE, backup |-> FALSE,
   resuming |-> FALSE, outro |-> FALSE, output |-> FALSE, running |-> FALSE, ranLong |-> FALSE,
   failed |-> FALSE, ready |-> FALSE]

Init ==
  /\ mach \in [Platforms -> {NewMachine(e, g) : e, g \in AtStart}]
  /\ node = [p \in Platforms |-> NewPipeline]
  /\ cmds = [p \in Platforms |-> <<>>]
  /\ call = [p \in Platforms |-> "none"]
  /\ dropped = [p \in Platforms |-> FALSE]
  /\ pub = [p \in Platforms |-> FALSE]

----------------------------------------------------------------------------
(* The calls a handler makes on its nodes, as functions of the node state. *)

\* reader is the reader of the latest run; a stopped run's reader may go on with
\* what is left in the pipe until it meets the end (ReaderEnds).
StartRelay(n) == [n EXCEPT !.relay = TRUE, !.reader = IF n.relay THEN @ ELSE "none"]
StopRelay(n) == [n EXCEPT !.relay = FALSE]

\* Supervisor.Start of a run that is already wanted changes nothing.
StartOutput(n) == [n EXCEPT !.failed = FALSE, !.output = TRUE, !.ranLong = @ /\ n.output]
StopOutput(n) == [n EXCEPT !.output = FALSE, !.running = FALSE]

\* Plausible defect: a bounce that only stops.
BounceOutputStops(n) == StopOutput(n)
BounceOutput(n) == [n EXCEPT !.output = TRUE, !.running = FALSE, !.ranLong = FALSE]
OutputAlive(n) == ~n.failed /\ (n.ranLong \/ n.running)

SetActive(n, source) == [n EXCEPT !.active = source, !.pending = FALSE]
ResetTimeline(n) == SetActive(n, "none")
RequestSwitch(n) == [n EXCEPT !.pending = TRUE]

BackupStart(n) == [n EXCEPT !.backup = TRUE]
BackupStop(n) == [n EXCEPT !.backup = FALSE]

\* With a prepared End segment the resume goroutine plays the outro first.
ResumeBegin(n, endReady) ==
  IF endReady THEN [n EXCEPT !.resuming = TRUE, !.outro = TRUE]
              ELSE RequestSwitch([n EXCEPT !.resuming = TRUE])
ResumeCancel(n) == [n EXCEPT !.resuming = FALSE]

ShutdownNodes(n) == StopOutput(BackupStop(StopRelay(n)))

EffectiveEnabled(m) == m.enabled /\ m.gate
OnAir(m) == m.state \in {"LIVE", "FALLBACK"}

\* Plausible defect: the teardown forgets the relay.
TeardownKeepsRelay(n) == SetActive([n EXCEPT !.backup = FALSE, !.output = FALSE, !.running = FALSE],
                                   "none")

\* The nodes and the fields that teardownClean and giveUpOnUnreachable leave.
TeardownNodes(n) == ResetTimeline(StopOutput(BackupStop(StopRelay(n))))
Offline(m) == [m EXCEPT !.oracle = FALSE, !.state = "OFFLINE"]

----------------------------------------------------------------------------
(* The command channel.                                                    *)

\* Plausible defect: the channel is not bounded.
PostUnbounded(p, c, q) == IF mach[p].shut THEN q ELSE Append(q, c)

\* post: silently lost after shutdown, dropped when the channel is full.
PostTo(p, c, q) ==
  IF mach[p].shut \/ Len(q) >= QueueCap THEN q ELSE Append(q, c)

Overflows(p, q) == ~mach[p].shut /\ Len(q) >= QueueCap

Post(p, c) ==
  /\ cmds' = [cmds EXCEPT ![p] = PostTo(p, c, @)]
  /\ dropped' = [dropped EXCEPT ![p] = @ \/ Overflows(p, cmds[p])]

\* One turn of loop: c is the command the owner goroutine receives.
Take(p, c) ==
  /\ ~mach[p].shut
  /\ mach[p].left # 0
  /\ call[p] = "none"
  /\ cmds[p] # <<>>
  /\ Head(cmds[p]) = c
  /\ cmds' = [cmds EXCEPT ![p] = Tail(@)]
  /\ UNCHANGED <<dropped, pub>>

\* What a handler leaves behind, and the callback it ends with.
Leave(p, m, n, cb) ==
  /\ mach' = [mach EXCEPT ![p] = [m EXCEPT !.left = IF @ = Running THEN @ ELSE @ - 1]]
  /\ node' = [node EXCEPT ![p] = n]
  /\ call' = [call EXCEPT ![p] = cb]

----------------------------------------------------------------------------
(* Handlers of the owner goroutine.                                        *)

OnSourceAvailable(p) ==
  LET m == [mach[p] EXCEPT !.oracle = FALSE]
      n == node[p]
      out(x) == IF EffectiveEnabled(m) THEN StartOutput(x) ELSE x
  IN /\ Take(p, "source_available")
     /\ \/ /\ m.state = "FALLBACK"
           /\ \E endReady \in BOOLEAN :
                Leave(p, m, ResumeBegin(out(StartRelay(n)), endReady), "none")
        \/ /\ m.state = "OFFLINE"
           /\ Leave(p, [m EXCEPT !.halted = FALSE, !.state = "LIVE"],
                    StartRelay(SetActive(BackupStop(out(n)), "relay")), "none")
        \/ /\ m.state = "LIVE"
           /\ Leave(p, m, StartRelay(SetActive(BackupStop(n), "relay")), "none")

\* Plausible defect: the backup video is left running after the cut.
OnSwitchedKeepsBackup(p, changed) ==
  LET back == mach[p].state = "FALLBACK"
  IN /\ Take(p, IF changed THEN "switched_params_changed" ELSE "switched_to_relay")
     /\ Leave(p, [mach[p] EXCEPT !.state = IF back THEN "LIVE" ELSE @], node[p],
              IF back THEN "recovered" ELSE "none")

\* Plausible defect: the return is not reported to the Manager.
OnSwitchedUnreported(p, changed) ==
  LET back == mach[p].state = "FALLBACK"
  IN /\ Take(p, IF changed THEN "switched_params_changed" ELSE "switched_to_relay")
     /\ Leave(p, [mach[p] EXCEPT !.state = IF back THEN "LIVE" ELSE @],
              IF back THEN BackupStop(ResumeCancel(node[p])) ELSE node[p], "none")

\* The switcher cut to the relay on a keyframe (changed: it found other codec
\* parameters and left the cut to the machine).
OnSwitchedToRelay(p, changed) ==
  LET m == mach[p]
      n == node[p]
      cut == IF ~changed THEN n
             ELSE IF EffectiveEnabled(m) /\ ~n.failed THEN BounceOutput(SetActive(n, "relay"))
             ELSE SetActive(n, "relay")
  IN /\ Take(p, IF changed THEN "switched_params_changed" ELSE "switched_to_relay")
     /\ IF m.state = "FALLBACK"
        THEN Leave(p, [m EXCEPT !.state = "LIVE"], BackupStop(ResumeCancel(cut)), "recovered")
        ELSE Leave(p, m, n, "none")

\* isAux() && (gracefulRecent() || !mainSessionLive()): the Manager is read without
\* its lock, so that a platform of an extra source may get either answer
\* (Broadcast.tla relates the answers to the session).
NothingToLeanOn(p) == IF p \in Aux THEN BOOLEAN ELSE {FALSE}

\* Plausible defect: the player is not started when no ladder is involved.
GoFallbackSilently(p, n, cb) ==
  Leave(p, [mach[p] EXCEPT !.state = "FALLBACK"], SetActive(n, "backup"), cb)

\* SetActive("backup"), beginFallbackPlayback, scheduleOracleRecheck, setState:
\* an unusable preset takes the platform off air; a ladder without a prepared
\* segment stops the output and watches the preparation.
GoFallback(p, n, cb) ==
  LET m == mach[p]
      fb == [m EXCEPT !.state = "FALLBACK", !.oracle = @ \/ p \in Aux]
      b == SetActive(n, "backup")
  IN \/ Leave(p, Offline(m), TeardownNodes(b), "unusable")
     \/ /\ p \in Ladder /\ ~n.ready
        /\ Leave(p, [fb EXCEPT !.watching = TRUE, !.tick = @ \/ ~m.watching], StopOutput(b), cb)
     \/ /\ p \notin Ladder \/ n.ready
        /\ Leave(p, fb, BackupStart(b), cb)

OnSourceUnavailable(p) ==
  LET m == mach[p]
      n == StopRelay(node[p])
  IN /\ Take(p, "source_unavailable")
     /\ \/ /\ \/ m.state = "OFFLINE"
              \/ m.state = "FALLBACK" /\ ~n.resuming
           /\ Leave(p, m, n, "none")
        \/ \* dropped again during the return: the player restarts its sequence
           /\ m.state = "FALLBACK" /\ n.resuming
           /\ Leave(p, m, SetActive(ResumeCancel(n), "backup"), "none")
        \/ /\ m.state = "LIVE" /\ TRUE \in NothingToLeanOn(p)
           /\ Leave(p, Offline(m), TeardownNodes(n), "none")
        \/ \* the platform was never reached this broadcast
           /\ m.state = "LIVE" /\ FALSE \in NothingToLeanOn(p)
           /\ EffectiveEnabled(m) /\ ~OutputAlive(n)
           /\ Leave(p, [Offline(m) EXCEPT !.halted = TRUE], TeardownNodes(n), "gave_up")
        \/ /\ m.state = "LIVE" /\ FALSE \in NothingToLeanOn(p)
           /\ ~EffectiveEnabled(m) \/ OutputAlive(n)
           /\ GoFallback(p, n, "none")

OnRelayStalled(p) ==
  LET m == mach[p]
      n == node[p]
  IN /\ Take(p, "relay_stalled")
     /\ \/ m.state # "LIVE" /\ Leave(p, m, n, "none")
        \/ /\ m.state = "LIVE" /\ TRUE \in NothingToLeanOn(p)
           /\ Leave(p, Offline(m), TeardownNodes(n), "none")
        \/ /\ m.state = "LIVE" /\ FALSE \in NothingToLeanOn(p)
           /\ GoFallback(p, n, "stalled")

OnRelayResumed(p) ==
  LET n == node[p]
  IN /\ Take(p, "relay_resumed")
     /\ Leave(p, mach[p], IF mach[p].state = "FALLBACK" THEN RequestSwitch(n) ELSE n, "none")

\* Plausible defect: a tick that finds nothing prepared does not re-arm.
LadderTickOnce(p) ==
  /\ Take(p, "ladder_tick")
  /\ Leave(p, mach[p], node[p], "none")

LadderTick(p) ==
  LET m == mach[p]
      n == SetActive(node[p], "backup")
      off == [m EXCEPT !.watching = FALSE]
  IN /\ Take(p, "ladder_tick")
     /\ \/ ~m.watching /\ Leave(p, m, node[p], "none")
        \/ m.watching /\ m.state # "FALLBACK" /\ Leave(p, off, node[p], "none")
        \/ /\ m.watching /\ m.state = "FALLBACK" /\ ~n.ready
           /\ Leave(p, [m EXCEPT !.tick = TRUE], node[p], "none")
        \/ /\ m.watching /\ m.state = "FALLBACK" /\ n.ready
           /\ Leave(p, off, BackupStart(IF EffectiveEnabled(m) THEN StartOutput(n) ELSE n), "none")

OracleRecheck(p) ==
  LET m == mach[p]
      n == node[p]
  IN /\ Take(p, "oracle_recheck")
     /\ \E graceful \in BOOLEAN :
          IF m.state = "FALLBACK" /\ ~n.pending /\ graceful
          THEN Leave(p, Offline(m), TeardownNodes(n), "none")
          ELSE Leave(p, m, n, "none")

\* teardownClean, posted by Halt and (in FALLBACK only) GracefulStopIfFallback.
Halt(p) ==
  /\ Take(p, "halt")
  /\ Leave(p, Offline(mach[p]), TeardownNodes(node[p]), "none")

GracefulStop(p) ==
  /\ Take(p, "graceful_stop")
  /\ IF mach[p].state = "FALLBACK"
     THEN Leave(p, Offline(mach[p]), TeardownNodes(node[p]), "none")
     ELSE Leave(p, mach[p], node[p], "none")

\* Plausible defect: enabling forgets the gate of the group.
SetEnabledIgnoringGate(p, active) ==
  LET m == [mach[p] EXCEPT !.enabled = active]
      n == node[p]
  IN /\ Take(p, IF active THEN "enable" ELSE "disable")
     /\ Leave(p, m, IF active /\ OnAir(m) THEN StartOutput(n) ELSE StopOutput(n), "none")

SetEnabled(p, active) ==
  LET m == [mach[p] EXCEPT !.enabled = active]
      n == node[p]
  IN /\ Take(p, IF active THEN "enable" ELSE "disable")
     /\ \/ mach[p].enabled = active /\ Leave(p, m, n, "none")
        \/ /\ mach[p].enabled # active /\ active
           /\ Leave(p, m, IF m.gate /\ OnAir(m) THEN StartOutput(n) ELSE n, "none")
        \/ /\ mach[p].enabled # active /\ ~active
           /\ Leave(p, m, StopOutput([n EXCEPT !.failed = FALSE]), "none")

\* Plausible defect: an opened gate waits for the next broadcast.
SetGateLazily(p, open) ==
  /\ Take(p, IF open THEN "gate_open" ELSE "gate_close")
  /\ Leave(p, [mach[p] EXCEPT !.gate = open], IF open THEN node[p] ELSE StopOutput(node[p]), "none")

SetGate(p, open) ==
  LET m == [mach[p] EXCEPT !.gate = open]
      n == node[p]
  IN /\ Take(p, IF open THEN "gate_open" ELSE "gate_close")
     /\ \/ mach[p].gate = open /\ Leave(p, m, n, "none")
        \/ /\ mach[p].gate # open /\ open
           /\ Leave(p, m, IF m.enabled /\ OnAir(m) THEN StartOutput(n) ELSE n, "none")
        \/ /\ mach[p].gate # open /\ ~open
           /\ Leave(p, m, StopOutput(n), "none")

\* Only credentials that really changed reconnect the platform.
UpdateCredentials(p) ==
  LET m == mach[p]
      n == node[p]
  IN /\ Take(p, "update_credentials")
     /\ \E changed \in BOOLEAN :
          Leave(p, m, IF changed /\ EffectiveEnabled(m) /\ OnAir(m) THEN BounceOutput(n) ELSE n,
                "none")

\* A new preparer has no segments; preparing them again is asynchronous.
ApplyPreset(p) ==
  /\ Take(p, "apply_preset")
  /\ Leave(p, mach[p], [node[p] EXCEPT !.ready = FALSE], "none")

\* The output never once connected: likely a wrong URL or key.
OnOutFlappingNever(p) ==
  LET m == mach[p]
      n == node[p]
  IN /\ Take(p, "out_flapping_never")
     /\ IF m.state = "OFFLINE"
        THEN Leave(p, m, n, "none")
        ELSE Leave(p, [Offline(m) EXCEPT !.halted = TRUE],
                   TeardownNodes([n EXCEPT !.failed = TRUE]), "gave_up")

Handle(p) ==
  \/ OnSourceAvailable(p) \/ OnSourceUnavailable(p)
  \/ OnRelayStalled(p) \/ OnRelayResumed(p)
  \/ \E b \in BOOLEAN : OnSwitchedToRelay(p, b) \/ SetEnabled(p, b) \/ SetGate(p, b)
  \/ LadderTick(p) \/ OracleRecheck(p)
  \/ Halt(p) \/ GracefulStop(p)
  \/ UpdateCredentials(p) \/ ApplyPreset(p) \/ OnOutFlappingNever(p)

\* The loop picks the shutdown signal: what is queued now is still handled.
SeeShutdown(p) ==
  /\ "shutdown" \in Posts
  /\ mach[p].left = Running /\ call[p] = "none"
  /\ mach' = [mach EXCEPT ![p].left = Len(cmds[p])]
  /\ UNCHANGED <<node, cmds, call, dropped, pub>>

DoShutdown(p) ==
  /\ mach[p].left = 0 /\ ~mach[p].shut /\ call[p] = "none"
  /\ mach' = [mach EXCEPT ![p].shut = TRUE, ![p].oracle = FALSE, ![p].tick = FALSE]
  /\ node' = [node EXCEPT ![p] = ShutdownNodes(@)]
  /\ UNCHANGED <<cmds, call, dropped, pub>>

----------------------------------------------------------------------------
(* The other goroutines of a platform.                                     *)

\* A relay run starts and its reader reaches the first keyframe.
RelayFlows(p) ==
  /\ node[p].relay /\ node[p].reader = "none" /\ pub[p]
  /\ node' = [node EXCEPT ![p].reader = "flow"]
  /\ UNCHANGED <<mach, cmds, call, dropped, pub>>

\* The reader meets the end of its pipe: the run was stopped, or died and will
\* be restarted by its supervisor with a new reader.
ReaderEnds(p) ==
  /\ node[p].reader # "none"
  /\ node' = [node EXCEPT ![p].reader = "none"]
  /\ UNCHANGED <<mach, cmds, call, dropped, pub>>

RelayStalls(p) ==
  /\ node[p].reader = "flow"
  /\ node' = [node EXCEPT ![p].reader = "stall"]
  /\ Post(p, "relay_stalled")
  /\ UNCHANGED <<mach, call, pub>>

RelayResumes(p) ==
  /\ node[p].reader = "stall" /\ pub[p]
  /\ node' = [node EXCEPT ![p].reader = "flow"]
  /\ Post(p, "relay_resumed")
  /\ UNCHANGED <<mach, call, pub>>

\* Plausible defect: a cut with other codec parameters is not reported.
RelayKeyframeUnreported(p) ==
  /\ node[p].reader = "flow" /\ node[p].pending
  /\ node' = [node EXCEPT ![p].pending = FALSE]
  /\ UNCHANGED <<mach, cmds, call, dropped, pub>>

\* Switcher.Process on a keyframe of the relay while a switch is pending. What
\* is still in the pipe of a stopped relay is processed as well.
RelayKeyframe(p) ==
  /\ node[p].reader = "flow" /\ node[p].pending
  /\ \/ /\ node' = [node EXCEPT ![p].pending = FALSE, ![p].active = "relay"]
        /\ Post(p, "switched_to_relay")
     \/ /\ node' = [node EXCEPT ![p].pending = FALSE]
        /\ Post(p, "switched_params_changed")
  /\ UNCHANGED <<mach, call, pub>>

\* The resume goroutine: valid reads the published snapshot of the machine.
ResumeValid(p) == node[p].resuming /\ mach[p].state = "FALLBACK" /\ ~mach[p].shut

\* It may request the switch twice: when it arms the cut and when the outro ends.
ResumeArms(p) ==
  /\ node[p].outro /\ ResumeValid(p)
  /\ \E again \in BOOLEAN :
       node' = [node EXCEPT ![p] = RequestSwitch([@ EXCEPT !.outro = again])]
  /\ UNCHANGED <<mach, cmds, call, dropped, pub>>

ResumeDies(p) ==
  /\ node[p].outro /\ ~ResumeValid(p)
  /\ node' = [node EXCEPT ![p].outro = FALSE]
  /\ UNCHANGED <<mach, cmds, call, dropped, pub>>

OutputConnects(p) ==
  /\ node[p].output /\ ~node[p].running
  /\ node' = [node EXCEPT ![p].running = TRUE]
  /\ UNCHANGED <<mach, cmds, call, dropped, pub>>

\* A run of the output ends by itself; long: it held EverSucceededThreshold.
OutputDies(p) ==
  /\ node[p].output
  /\ \E long \in {FALSE, node[p].running} :
       /\ node' = [node EXCEPT ![p].running = FALSE, ![p].ranLong = @ \/ long]
       /\ IF node[p].ranLong \/ long
          THEN UNCHANGED <<cmds, dropped>>
          ELSE Post(p, "out_flapping_never")
  /\ UNCHANGED <<mach, call, pub>>

\* The preparer finishes the segments of a ladder, or discards them for a new
\* target.
SegmentsChange(p) ==
  /\ p \in Ladder
  /\ \E r \in BOOLEAN : node' = [node EXCEPT ![p].ready = r]
  /\ UNCHANGED <<mach, cmds, call, dropped, pub>>

OracleFires(p) ==
  /\ mach[p].oracle
  /\ mach' = [mach EXCEPT ![p].oracle = FALSE]
  /\ Post(p, "oracle_recheck")
  /\ UNCHANGED <<node, call, pub>>

LadderFires(p) ==
  /\ mach[p].tick
  /\ mach' = [mach EXCEPT ![p].tick = FALSE]
  /\ Post(p, "ladder_tick")
  /\ UNCHANGED <<node, call, pub>>

----------------------------------------------------------------------------
(* The Manager, reduced to what a platform can see of it.                  *)

\* validateAndStart / joinRunningSource: the source publishes valid content.
SourceReady(p) ==
  /\ pub' = [pub EXCEPT ![p] = TRUE]
  /\ Post(p, "source_available")
  /\ UNCHANGED <<mach, node, call>>

SourceGone(p) ==
  /\ pub' = [pub EXCEPT ![p] = FALSE]
  /\ Post(p, "source_unavailable")
  /\ UNCHANGED <<mach, node, call>>

\* The dashboard, the session and the OBS page.
ManagerCommands(p) ==
  /\ \E c \in Posts \ {"shutdown"} : Post(p, c)
  /\ UNCHANGED <<mach, node, call, pub>>

CallReturns(p) ==
  /\ call[p] # "none"
  /\ call' = [call EXCEPT ![p] = "none"]
  /\ UNCHANGED <<mach, node, cmds, dropped, pub>>

----------------------------------------------------------------------------
Goroutines(p) ==
  \/ RelayFlows(p) \/ ReaderEnds(p) \/ RelayStalls(p) \/ RelayResumes(p) \/ RelayKeyframe(p)
  \/ ResumeArms(p) \/ ResumeDies(p)
  \/ OutputConnects(p) \/ OutputDies(p)
  \/ SegmentsChange(p) \/ OracleFires(p) \/ LadderFires(p)

Manager(p) ==
  \/ SourceReady(p) \/ SourceGone(p) \/ ManagerCommands(p) \/ CallReturns(p)

Next ==
  \E p \in Platforms :
    Handle(p) \/ SeeShutdown(p) \/ DoShutdown(p) \/ Goroutines(p) \/ Manager(p)

Spec == Init /\ [][Next]_vars

\* The owner goroutine runs, a Manager callback returns, and a source that keeps
\* sending sends keyframes.
Fairness ==
  \A p \in Platforms :
    WF_vars(Handle(p)) /\ WF_vars(CallReturns(p)) /\ SF_vars(RelayKeyframe(p))

FairSpec == Spec /\ Fairness

----------------------------------------------------------------------------
(* Properties.                                                             *)

\* A platform that is OFFLINE or shut down relays nothing, plays no backup
\* video and pushes nothing, whatever was queued when it went down
\* (teardownClean, giveUpOnUnreachable, doShutdown).
QuietWhenDown ==
  \A p \in Platforms :
    mach[p].state = "OFFLINE" \/ mach[p].shut =>
      ~node[p].relay /\ ~node[p].backup /\ ~node[p].output

\* In FALLBACK the backup player runs, or the watcher that will start it once
\* a ladder's segments are prepared (beginFallbackPlayback, ladderTick).
FallbackCovered ==
  \A p \in Platforms :
    mach[p].state = "FALLBACK" /\ ~mach[p].shut =>
      node[p].backup \/ (p \in Ladder /\ mach[p].watching)

\* The watcher of a ladder's segments is never left without a timer or a queued
\* tick, unless the channel overflowed (armLadderTick, ladderTick).
WatcherTicks ==
  \A p \in Platforms :
    mach[p].watching /\ ~mach[p].shut /\ ~dropped[p] =>
      mach[p].tick \/ Contains(cmds[p], "ladder_tick")

\* Never is a platform pushed whose check box or group gate is off, in any
\* order of toggles, drops, returns and reconnects (setEnabled, setGate).
OutputNeedsGates ==
  \A p \in Platforms : node[p].output => EffectiveEnabled(mach[p])

\* An enabled platform without a ladder is pushed all the time it is on air.
OutputOnAir ==
  \A p \in Platforms \ Ladder :
    OnAir(mach[p]) /\ ~mach[p].shut /\ EffectiveEnabled(mach[p]) => node[p].output

\* Check box and gate are two switches for one output: through every drop, return,
\* reconnect and teardown it is pushed only while both are
\* on, and, where there is no ladder, whenever they are and the platform is on air (setEnabled, setGate).
OutputFollowsSwitches == OutputNeedsGates /\ OutputOnAir

\* The backup player never outlives the return to live.
LiveAlone ==
  \A p \in Platforms : mach[p].state = "LIVE" => ~node[p].backup

\* A switch armed in FALLBACK takes the platform out of it as long as the relay
\* keeps flowing (RequestSwitch, Process, onSwitchedToRelay); with a ladder it need
\* not: ladderTick sets the backup active again and clears the pending switch.
ArmedSwitchHappens ==
  \A p \in Platforms :
    mach[p].state = "FALLBACK" /\ node[p].pending /\ pub[p] /\ node[p].reader = "flow"
      ~> \/ mach[p].state # "FALLBACK" \/ mach[p].shut \/ mach[p].left # Running
         \/ ~pub[p] \/ node[p].reader # "flow" \/ dropped[p]

\* Said of the program, and not so (see the README): a platform that is LIVE has a
\* relay, so that a source that is gone is covered by the backup video.
LiveHasRelay ==
  \A p \in Platforms : mach[p].state = "LIVE" /\ ~mach[p].shut /\ ~dropped[p] => node[p].relay

\* Said of the program, and not so (see the README): the platform leaves its backup
\* video once the relay flows again.
FlowEndsFallback ==
  \A p \in Platforms :
    mach[p].state = "FALLBACK" /\ node[p].relay /\ pub[p] /\ node[p].reader = "flow" /\ ~node[p].resuming
      ~> \/ mach[p].state # "FALLBACK" \/ mach[p].shut \/ mach[p].left # Running
         \/ ~node[p].relay \/ ~pub[p] \/ node[p].reader # "flow" \/ node[p].resuming \/ dropped[p]

\* Said of the program, and not so (see the README): whatever the preparation of the
\* backup did to the output, it is pushed again when the source is back.
LiveIsPushed ==
  \A p \in Platforms :
    mach[p].state = "LIVE" /\ ~mach[p].shut /\ EffectiveEnabled(mach[p]) => node[p].output

\* A platform as its Manager sees it.
View == INSTANCE Platform WITH state <- [p \in Platforms |-> mach[p].state]

\* The machine makes only the moves the Manager counts on, each with the callback
\* that reports it: backup begins from LIVE only, a return is always reported, and
\* nothing moves while the owner goroutine waits in a callback (machine.go handlers).
ImplementsPlatform == View!Spec

============================================================================
