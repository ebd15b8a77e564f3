# restream_go in TLA+

TLA+ models of the restreaming service under `src/internal`, the TLC
configurations that check them, and TLAPS proofs. The service takes one or more
streams from OBS (through MediaMTX), relays each to the platforms configured for
it, and keeps every platform on air with a backup video while its stream is away.

Parse with `tlasany M.tla`, check with `tlc -workers 2 -config X.cfg M`, prove with
`tlapm M.tla`. `PROJECT.json` maps every definition to the lines it models.

## 1. The system

| part | state | operations | talks to |
|---|---|---|---|
| **Manager**: session and hooks (`control/session.go`, `hooks.go`, `contract.go`) | sources (available, validated, probe generation), session state, window timer, halt latch, graceful-stop moment | MediaMTX hooks, probes, HALT, manual stop, timer; callbacks of platforms; one lock | posts commands to platforms; is called back by them |
| **Registry** (`control/crud_*.go`, `registry.go`, `persist.go`) | groups, platforms, sources, presets, the document on disk | create, update, rename, delete, save | builds and shuts down platforms; joins them to a running source |
| **Platform machine** (`platform/machine.go`) | OFFLINE, LIVE or FALLBACK; check box, gate; timers | 20 commands, handled one at a time by an owner goroutine from a channel of 256 | nodes of the pipeline; Manager callbacks, made after the work |
| **Pipeline** (`platform/pipeline.go`, `nodes.go`) | relay, player, resume, switcher, sink, output | start and stop of each; stall watch of the relay reader | posts stalled, resumed, flapping, switched into the machine's channel |
| **Switcher** (`timeline/switcher.go`) | active source, requested switch, headers; clock, offset, guard per track; two locks | SetActive, RequestSwitch, Reset, Process | two reader goroutines call Process; outputs get tags under `timelineMu` |
| **Output sink** (`timeline/sink.go`) | bounded queue, connection and its generation, seed headers | Offer, Attach, Detach, Close; a writer goroutine | the timeline offers, the supervisor of the output attaches and detaches |
| **Supervisors** (`proc/supervisor.go`, `egress/rtmp_push.go`) | desired, epoch, process, counters of early exits | Start, Stop, Bounce; one goroutine per epoch | hooks on start, exit, flapping |
| **Backup player and resume** (`fallback/player.go`, `resume.go`) | phase (Start, Loop, End), desired, restart, callback; generation of the return | Start, Stop, PlayEnd, Restart; Begin, Cancel | feeds the switcher; asks it for the cut |
| **Backup preparation** (`fallback/cache.go`, `preparer.go`, `warmstore.go`) | artifacts, transcodes in flight, slots, warm targets on disk | GetOrBuild, PrepareAsync, PrepareWarm, Retain | the player asks which segments are ready |
| **Enhanced Broadcasting** (`platform/ebarm.go`, `eb/`) | minted session of a publication | PushURL, LadderRungs | Twitch (external), preparer |
| **API hub** (`api/hub.go`, `ws.go`) | connections, last snapshot | Register, broadcast of deltas, control messages | snapshot of the Manager; browsers |
| **Track routing** (`route/`) | map of slots, cached headers, guard per slot | Select, Route, redeclare; facades of the backup | between demultiplexer or player and switcher |
| **Wire formats** (`wire/`) | dialogue and chunks of a connection, reader buffers, unwrapped clocks, muxer state | connect, publish, parse, write | readers, outputs, platforms |
| **MediaMTX control, media library, settings, probes, start-up** | files, an external process | see `PROJECT.json` | - |

### What is hard

* **Three kinds of clock.** A platform has an owner goroutine, and around it a relay
  reader, a player, a resume goroutine, an output supervisor and two timers, all of
  which post into one channel: what a command says may be out of date when handled.
* **Two owners of a session.** The Manager decides under its lock and posts; platforms
  work without it and call back after their work. A probe takes seconds without the
  lock, and a timer's callback may wait for the lock while its timer is cancelled.
* **One timeline, two sources, many tracks.** `Process` decides under `activeMu`, gives
  out under `timelineMu`, and holds neither in between. Offsets come from a shared
  clock, monotonicity is guarded per track, and both outlive a cut.
* **A writer that lags.** The queue of a sink is cleared when full, with whatever is in
  it; connections come and go under the writer.
* **Nothing is remembered.** A restart of the service forgets the broadcast; the
  configuration is written by one atomic rename (`control/persist.go:17`).

What makes each part correct, in a line: a *platform* never runs anything it was told
to stop, never is silent while it should cover a drop, and comes back from its backup
video; a *session* that ended stays ended, one that waits has a deadline; a *timeline*
never gives out a frame that cannot be decoded and never swallows the keyframe of a
cut; an *output* gives each connection what was meant for it; a *supervisor* has one
process and its hooks speak of that one; a *player* reports the end of its outro once;
a *cache* never serves a half-written artifact; a *hub* brings every browser to the
Manager's state.

## 2. Modules

    Platform <--- refined by --- Machine <--- MachineProofs
        ^                           |  MCMachine
        | composed in               | what the machine asks of
    Broadcast <- MCBroadcast,       v
      ^      BroadcastProofs    Switcher <- MCSwitcher, SwitcherProofs
      |                             |  what a stretch offers
      | what the hooks report       v
                                OutputSink <- MCOutputSink

    Thresholds <- Supervisor <- PushClient <- MCOutputs
    MCOutputs, OutputSink <- OutputsProofs
    Player <- Resume <- MCResume
    Cache, Preparer, Bitrate <- MCBuilds     MCBuilds, Resume <- BackupProofs
    Hub, Registry <- MCDashboard             Hub, Registry <- DashboardProofs
    EBArm, Router, Chunks <- MCWire <- WireProofs
    Switcher, Router <- SwitcherProofs       Chunks <- ChunksProofs
    Normalize in MCDashboard; Publish, Demux in MCWire (INSTANCE)

An arrow points to the module that extends. `MCBuilds`, `MCDashboard`, `MCWire` and
`MCOutputs` check modules that share no state side by side: a variable chosen in Init
says which of them moves, the others stay as they began, and the states of a run are the
sum of theirs, not the product. An invariant of one is then an invariant of the run. The
modules a proof is about are extended, so that runs and theorems speak of the same
definitions; where names would clash they are instantiated, and the proofs extend the
module of the run.

* **Platform** is the abstract specification of a platform as its Manager sees it:
  state, and the callback its owner waits in. It says which moves there are (live,
  drop, stall, return, give up, unusable backup, end), and which come with a callback.
* **Machine** is the detailed one: the fields of `Machine`, its bounded channel, and its
  nodes as a record (`node`) whose fields are what the handlers can tell apart. A
  handler is one step with every node call it makes; the Manager callback at its end
  is a second step, because the handler then waits for the Manager's lock with its new
  state published. Events of the environment (the relay flows, stalls, dies; an output
  connects or dies; the resume goroutine arms the switch; a timer fires) are actions
  that post as the code does. `post` drops a command when the channel is full, and a
  command queued before a shutdown is drained as the code drains it (`left`).
* **Broadcast** composes the Manager with platforms that are `Platform`s behind their
  command channels: hooks, `validateAndStart` goroutines (check, then start or reject),
  HALT, manual stop, the browser source's session id, the window timer with a callback
  that may be late, the recreation of a platform. A platform is fed by the default
  source or by an extra one (`aux`). `rejoined` is history: the platforms that a
  recreation has started after the end of the session.
* **Switcher** is `Process` as two steps, `Read` under `activeMu` and `Write` under
  `timelineMu`, with the tag in `hand` between them; the machine's calls; and sources
  that send runs with clock and parameters of their own. Headers are compared, stored
  and re-emitted by track. `wire` and `mishaps` are history: what the outputs were
  told and what the viewers suffered.
* **OutputSink** is the sink and its writer: `Take`, `Write` outside the lock, and the
  four calls. Tags carry, as history, the connection they were offered for.
* **Supervisor** is `proc/supervisor.go`: a goroutine (run) per epoch that spawns, calls
  the start hook, waits, calls the exit hook and counts; Start and Stop of the owner,
  which waits for the process it found. What a hook does (attach, detach) is a step after
  the one that entered it. **PushClient** keeps the same contract with
  connections instead of processes, made without the lock and possibly late.
  **Thresholds** is what both share: when a run counts as one that worked, how many
  failures are an alarm.
* **Player** is the goroutine of an episode with its phases, the commands Stop, PlayEnd
  and Restart, and the gap between a segment's start and its registration. **Resume**
  extends it with the goroutines of a return, their generation, the machine's handlers
  that begin and cancel a return, and the cut.
* **Cache** is `GetOrBuild`: look, register or wait, take a slot, write a temporary
  file, write the sidecar, rename, with failing transcodes and a service that is killed
  between any two steps. **Preparer** is a platform's builds (one goroutine per
  publication), what they make ready, and the bag of a folder the player draws from.
  **Bitrate** is the target of each session, from measurement, dead band and what was
  remembered, by the ladder of the code.
* **Registry** is every command of the dashboard that changes platforms, sources, groups
  and presets, checked under one lock and performed under another, with the lock given
  back while a runtime is shut down; sources that come and go; the service's end; the
  document on disk. `strays` is history: the platforms that were given a group that did
  not exist, since a form is checked against less than it names. **Normalize** is the repair of a configuration, item by item.
* **Hub** is the push channel: snapshots built with the lock free, registration, deltas
  against the last snapshot, writes that fail, connections that leave.
* **Publish** is the dialogue of a publication with its reader goroutine and its writer,
  on a connection that may be lost or whose server may stop reading (`stuck`), so that any
  write of setup, reader, sink and teardown may fail (`SendFails`);
  **Chunks** the chunk streams under it, unit by unit, in which the server may say an
  extended timestamp again (`again`); **Demux** the MPEG-TS demultiplexer. **Router** is what follows it: the choice of a mode (`Mode`), the slots
  each track goes to (`Mapping`), the three policies of `Route`, the facades of the
  backup, and the multiplexer of an SRT output. Of the switcher in between it has the
  stored headers only.
* **EBArm** is the go-live exchange: two threads that ask, the cached session, the
  passport of a publication, the ladder of the backup.

Each **Proofs** module holds the theorems of its component. Definitions commented
"Plausible defect" are variants of the definition next to them; nothing in a
specification uses them. They are put in its place to see that a property notices.
The action that models a Go function has its name where TLA+ allows it; comments name
the others.

## 3. What is checked

Distinct states are those of the complete exploration.

| run | question | states |
|---|---|---|
| `machine_calls` | Check box, gate, HALT, graceful stop and the end of the service in every order with drops, stalls, returns and refused outputs, for an extra source's platform and for a ladder's: does the output follow its switches, is FALLBACK covered, does a platform that went down stay quiet? | 781 807 |
| `machine_return` | HALT, new credentials and a new preset race the return: does the backup end with it, is every move one `Platform` promises, does an armed switch happen? | 225 480 |
| `broadcast_session` | Does what ended stay ended, does a waiting session have its timer, is the last word on a gone source that it is gone, is an extra source's platform left behind, do sessions end? | 239 212 |
| `switcher_timeline` | Relay and player with a rung, two parameter sets, a relay that restarts: is every frame decodable and every cut heard? | 1 354 475 |
| `sink_stream` | A short queue, two connections: does every tag reach the connection it was offered for, and can it be decoded there? | 4 363 562 |
| `outputs_restart` | Processes and connections that end, are refused or late while their owner stops and starts them: one at most, with the sink, and tried again? | 567 364 |
| `backup_returns` | Stop, restart and requests for the end at every step of an episode, returns cancelled and begun again: nothing played after Stop, no word from a cancelled return, an end to each? | 448 820 |
| `backup_builds` | Callers race for artifacts, transcodes fail, the service is killed; publications build while the player draws; sessions measure and remember: whole artifacts, built once, fitting, fair, without alternation? | 290 622 |
| `dashboard` | Connections come, stall and go between changes; one or two dashboards change everything while sources publish; every odd configuration is normalised: does the hub compare with what all have, does disk follow memory, do references resolve? | 1 255 011 |
| `wire` | A publication with a moody server; its chunks, interleaved or both ways; a demultiplexer whose clock wraps; tracks routed to slots that change; sessions of Enhanced Broadcasting: does nothing end without a reason, get lost, or go out under another's configuration? | 2 011 833 |

Two more runs end in a counterexample, a behaviour of the code that its documents
exclude; `PROJECT.json` quotes the sentence.

* `machine_dark`: `onSwitchedToRelay` takes any report of a cut in FALLBACK for the end of
  the drop. One that is handled after `source_unavailable` makes the platform LIVE with
  relay and backup stopped.
* `switcher_muted`: a relay process that its supervisor restarts while the platform is
  LIVE counts time from 0 under an unchanged `outputSource`: its frames are swallowed
  for as long as the old process had run.

### Further disagreements, stated in the modules

While the components were modelled, more properties that a comment, a log line or a page
under `src/Doc` promises turned out not to hold. They stand in their modules, and
replacing the properties of a configuration by one of them (with the constant in the third
column, where there is one) shows the counterexample. The last column says where the code
does it.

| module | property | with | what the code does |
|---|---|---|---|
| Machine | `FlowEndsFallback` | | a relay that dies while stalled: the successor's reader reports no resume, and nothing asks for the cut (`platform/pipeline.go:471`) |
| Machine | `ArmedSwitchHappens` | `Ladder` not empty | `ladderTick` sets the backup active and cancels the pending switch (`machine.go:520`) |
| Machine | `LiveIsPushed` | `Ladder` not empty | a return from a stall does not start the output a ladder without segments had stopped (`machine.go:439`) |
| Broadcast | `GoneHasDeadline` | | `OnPlatformRecovered` handled after the next drop makes the session LIVE and cancels the timer (`control/session.go:42`) |
| Broadcast | `LatchHolds` | | a HALT during a probe is undone when the probe ends (`control/contract.go:161`) |
| Broadcast | `HaltedStaysOff` | `MaxInputs = 4` | a platform recreated after a HALT joins the halted broadcast (`control/crud_platforms.go:87`) |
| Broadcast | `GivingUpEnds` | | the last platform that gives up leaves session and timer alone (`control/session.go:58`) |
| Switcher | `CutKeepsParams` | | with an outro the switch is requested after the new headers were read, and compares them with themselves (`timeline/switcher.go:195`) |
| Switcher | `NotTorn` | | a player that sends nothing between drop and cut does not open a stretch; the rungs go on torn (`switcher.go:401`) |
| OutputSink | `ResyncDecodable` | | a full queue is cleared with the headers in it (`timeline/sink.go:129`) |
| Supervisor | `OnExitSparesNewRun` | | the exit hook of a superseded run detaches the sink of the next (`proc/supervisor.go:299`) |
| Supervisor | `AlarmIsTrue` | | Start resets what a run of the epoch before is about to judge by (`supervisor.go:314`) |
| Supervisor | `KeepsTrying` | `LogMayFail` | a run that cannot open its log ends and leaves `desired` set (`supervisor.go:247`) |
| PushClient | `UpMeansConnected` | | a connection attempt that times out counts as one that worked (`egress/rtmp_push.go:273`) |
| Resume | `ReturnAlwaysEnds` | `AfterMiss` | PlayEnd while a loop segment is being started is taken back (`fallback/player.go:625`) |
| Resume | `OutroFirst` | | a stall during a return asks for the cut at once (`machine.go:600`) |
| Resume | `ResumingMeansReturn` | | a teardown does not cancel the return (`machine.go:618`) |
| Preparer | `ArtifactsFitTarget`, `PlayedFits`, `EachOnce` | | builds overlap and the bag survives a new target (`fallback/preparer.go:441,464`, `playlist.go:52`) |
| Bitrate | `BandIsOneRung`, `NoAlternation` | | the band has no lower end below the lowest rung; `prevTarget` is that of the construction (`bitrate.go:53`, `preparer.go:502`) |
| Registry | `ShutdownStopsAll`, `RemovedStaysAway`, `DefaultSourceStays` | two dashboards | the lock is given back in the middle (`control/manager.go:511`, `crud_platforms.go:250`, `crud_sources.go:62`) |
| Registry | `SourceExists` | two dashboards | the source a form was checked against is gone when the platform is made (`crud_sources.go:112`) |
| Registry | `GateFollowsGroup` | | the group a form names is not checked (`api/commands.go:382`): a platform of a group that does not exist takes the gate of the default group and does not follow it (`control/manager.go:385`) |
| Hub | `AllConverge`, `NoPartialView`, `OpenIsServed` | | registration replaces the snapshot of all; a failed write only forgets the client (`api/hub.go:208,211,180`) |
| Normalize | `OneDefaultSource`, `IdsStay` | | two default sources stay; an id that was made up may be that of a later preset (`control/normalize.go:104,313`) |
| Publish | `LiveIsPublished` | `Refusals` with `"BadName"` | an `onStatus` without `Fail` is no refusal (`wire/rtmp/conn.go:416`) |
| EBArm | `GrantedForSource` | | a session asked for before the passport is granted for the ladder before (`platform/ebarm.go:63`) |
| EBArm | `BackupFits` | | `EnsureLadderBackup` keeps the ladder it has (`platform/pipeline.go:336`) |
| Chunks | `InStep` | | an extended timestamp repeated after a type 3 header is read as payload (`conn.go:340`) |
| Demux | `Aligned` | | every stream is unwrapped from its own first value, and so are the two times of a unit (`wire/ts/demux.go:62`) |
| Router | `HeadersMatch` | | a slot that is moved away and back between a header and its frame keeps the other track's header: `prior` is that of the last frame (`route/route.go:120`) |
| Router | `SlotsAgree` | SRT, one track | the relay goes to slot 0, the backup to the slots of the map (`platform/spec.go:95`) |

Most of these have a weaker form among the checked properties, which says what is left of
the promise: it excuses just the case of the counterexample, told by a history variable, and
holds in every behaviour of the code, that case included.

| property | excuses |
|---|---|
| `EndedMeansEnded` | platforms that were recreated after the session ended and joined it, until they end again (`rejoined`) |
| `Decodable` of OutputSink | a header that came between `CurrentHeaders` and `Attach` or was cleared with a full queue (`lost`), on the connection it happened on |
| `FedUnlessOverlapped` | runs that overlap as in `OnExitSparesNewRun` |
| `StoppedUnlessMissed`, `ReturnEnds` | the segment PlayEnd missed |
| `FitUnlessOverlapped`, `FairCycle` | builds that overlap; for the second also a folder that was built twice into one pool (it excuses repetitions only: nothing is passed over in any case) |
| `RefsResolve` | commands that overlap (`crowded`), the gate of platforms in `strays` |
| `JoinedWhenLive` | commands that overlap, and a source that comes on air while its platforms are being recreated (`surprised`: they read whether it is valid before the lock is given back, `control/crud_sources.go:112`) |
| `PushFits` | generations in which somebody read the passport of the publication before (`misread`) |
| `Routed` | slots that changed after the header for them had been sent: the backup's when its map changes within a segment, the relay's when a slot changes between a header and its frame, until it is declared again (`.moved`) |
| `Faithful` of Demux | the distance of two streams first seen in different turns of the clock; the composition time of a stream whose first unit has the wrap between its two times (`since`) |
| `WholeAndInOrder` | what the server sends once it has said an extended timestamp again (`repeated`); what the program writes is never excused |

### Bounds, and why they are enough

* **Machine**: platforms share nothing but the Manager's view, which is an arbitrary input
  here, so that one moves in each behaviour (the constraint `OneMoves`). In
  `machine_calls` the gate of the platform with a ladder stays open and the service does
  not end under it; the platform without one meets both. `QueueCap = 2` in
  `machine_return`: enough for a command to be overtaken by an event, and small enough that
  the channel overflows. `machine_calls` has the widest choice of inputs and `QueueCap = 1`;
  its invariants are those proved for any capacity. `AtStart` is what check box and gate may be
  in the configuration.
* **Broadcast**: three outside calls make available, unavailable and a HALT or a return;
  one late callback (`MaxStale`) is one more than the code expects. A recreation is one of
  the outside calls.
* **Switcher**: `MaxTs = 2` frames per track and run, two relay runs, one episode, four
  machine calls: live, drop, return, and a second drop or a reset after the cut. `Step`
  is 1: the order of clock, step and guards matters, not their size. Audio tracks
  follow the same guards and are left to the proofs (`Audios` is any set there).
* **OutputSink**: a queue of 2 fills between two steps of the writer; a second
  connection is enough for a tag of the first to outlive it.
* **Supervisor, PushClient**: two starts make a run that is superseded and one that is
  current; two failures are an alarm.
* **Player, Resume**: one episode with two requests for the end, the second with the
  first cancelled, and an outro that is played once more while no cut comes.
* **Cache, Preparer, Bitrate**: three callers, two keys, one slot: one transcodes, one waits
  for it, one waits for the slot. One failure and one kill. Two publications with a target
  each, three draws of a cycle of two. The measures lie on both sides of the lowest rung, of
  a rung, of a middle between two, and of the top.
* **Registry**: `MCDashboard` names four scenarios, each with the kinds of commands that
  touch one another, three to five commands long.
* **Hub**: two connections, one change, two values: a snapshot can be older or newer than
  the last. **Normalize**: lists of up to three items, every value in and out of range.
* **Publish, Chunks, Demux**: one ping, two tags; messages of one and two chunks, three
  messages, two units under way, so that a chunk size changes between the chunks of another
  message; a clock of 32 ticks that wraps after the first units.
* **Router**: two frames per track, two events from outside, which is what it takes to
  swap two slots or to move one and restart; parameters change once.
* **EBArm**: two publications; one exchange fails, one session expires or one passport is
  misread.

### Fairness

* **Machine** (`FairSpec`): weak fairness of the owner goroutine's loop and of its
  callback, since Go schedules a runnable goroutine and the Manager's lock is released.
  Strong fairness of `RelayKeyframe`: while a relay flows its keyframes keep coming,
  although stalls and drops disable the action in between. Nothing is assumed of the
  source, the dashboard, the outputs, the timers or the resume goroutine: the switch the
  property speaks of has been armed already.
* **Broadcast** (`FairSpec`): a timer that is armed fires, its callback gets the lock, a
  platform handles its commands and makes its callbacks. Nothing is assumed of hooks,
  probes or users.
* **Supervisor, PushClient** (`MCSpec`): weak fairness of a Stop that is under way and of
  each run. A run's steps end (a process that is killed dies, a connection attempt has its
  timeout); nothing is assumed of how long a process lives.
* **Resume** (`ResumeFairSpec`): weak fairness of the player's goroutine and of a Stop that
  waits for it, of the goroutines of a return, whose waits all have deadlines, of the owner
  goroutine's loop, of the cut, and of a segment's end, since segments are files of a fixed
  length.
* **Cache** (`MCSpec`): weak fairness of each caller, strong fairness of taking a slot: the
  waiters for a Go channel are served in the order they came.
* The rest have safety properties only. `CHECK_DEADLOCK FALSE` is set where the bounds on
  inputs let the model stop; the machine runs check for deadlock.

## 4. What is proved

For every value of the constants, from the assumptions named in the modules (which TLC
evaluates in the runs):

| module | theorem | property |
|---|---|---|
| MachineProofs | `TypeCorrect` | `TypeOK`: in particular no channel outgrows its capacity |
| | `Quiet`, `Covered`, `Alone` | `QuietWhenDown`, `FallbackCovered`, `LiveAlone` |
| | `Gated`, `Pushed`, `Follows` | `OutputNeedsGates`, `OutputOnAir`, together `OutputFollowsSwitches` |
| | `Implements` | `ImplementsPlatform`: the refinement |
| BroadcastProofs | `TypeCorrect`, `WindowIsTimed` | `TypeOK`, `WindowHasTimer` |
| | `GoneStaysGone`, `SessionEnds`, `NobodyStranded` | `GoneIsLastWord`, `EndedMeansEnded`, `AuxNotStranded` |
| SwitcherProofs | `Behind` | `TracksBehind`: no track's guard is ahead of the clock |
| | `CutHeard` | `CutIsHeard`: the keyframe that opens a stretch is never swallowed |
| | `GivenIsDecodable` | `Decodable` |
| | `HeardInConfig` | `Routed` of Router |
| OutputsProofs | `TypeCorrect`, `NothingOutlivesStop`, `ProcessesAreStopped` | `TypeOK`, `StoppedMeansDead`; `ProcessesStop` of the run |
| | `NothingInUse`, `CurrentRegistered`, `OneIsInUse` | `NoneInUse`, `OnlyCurrentRegistered`, together `OneInUse` |
| | `ProcessIsFed`, `PushIsFed` | `FedUnlessOverlapped` of either supervisor |
| | `SinkTypeCorrect`, `ConnectionsApart` | `SinkTypeOK`, `RightConnection` of OutputSink |
| | `GivenDecodable` | `Decodable` of OutputSink |
| BackupProofs | `Whole`, `Once`, `NobodyWaitsInVain` | `ServedWhole`, `BuiltOnce`, `SomebodyBuilds` |
| | `Fits`, `FairToAll` | `FitUnlessOverlapped`, `FairCycle` |
| | `Settles` | `RememberedNoAlternation` |
| | `PlayerTypes`, `PlaysOnlyWhenWanted` | `TypeOK`, `StoppedUnlessMissed` |
| | `CancelledReturnsAskNothing` | `RequestsWithdrawn` |
| DashboardProofs | `HubTypes`, `NoneIsLeft`, `BaseIsShared` | `TypeOK`, `NoneLeft`, `BaseShared` of Hub |
| | `RegistryTypes`, `DiskFollows` | `RegistryTypeOK`, `DiskIsMemory` |
| | `ReferencesResolve`, `LiveIsJoined` | `RefsResolve`, `JoinedWhenLive` |
| WireProofs | `GrantFits` | `PushFits` |
| | `EndsWell` | `EndsForAReason` |
| | `ComesOutAsItWentIn` | `Faithful` of Demux |
| ChunksProofs | `ArriveWholeAndInOrder` | `WholeAndInOrder` |

No theorem assumes anything of what a server, a source, a user or the order of events may
do: where a promise is broken the property itself names the case it excuses (section 3), and
the theorem is about every behaviour. Three assumptions hold by construction in the code: the maps of a platform
have one length (`MapsAssumption`, `control/normalize.go:180`), the folder's files are
different files (`DistinctAssumption`), the ladder of bitrates ascends (`LadderAssumption`).

None of the invariants is inductive alone; the strengthenings are these.

* **Machine**: a drop may rely on the output being on, a teardown on the gate. `IInv` is
  `TypeOK` with `AllSound`, which says of each platform the five facts at once. The
  argument: `NodeCalls` and `Teardown` say what the calls on nodes preserve; `TakeType` and
  `LeaveSound` reduce a handler to the pair of records it leaves behind; then one lemma per
  handler, one step per branch. The refinement goes over the same handlers: each makes one
  of the moves of `Platform`, told apart by where it begins, where it ends and what it reports,
  or shows the Manager nothing.
* **Broadcast**: `TInv` is `TypeOK` with `FiredBelow`, that a timer which has fired leaves
  room in the bound on late callbacks. `WindowHasTimer` is inductive beside it: `StepShapes`
  says that every step has one of three shapes (`Posting`, `Handling`, `Recreating`), so that
  the proofs go over three cases instead of all handlers.
* **Switcher**: `TracksBehind` needs only that times are numbers (`IInv` adds the types of
  timeline, feeds and tags in hand). `CutIsHeard` follows: a cut anchors its keyframe a step
  after the clock, and every guard is at most the clock. That argument is what the comment
  at `timeline/switcher.go:155-156` relies on; it holds because `Reset` clears the guards
  together with the clock, and fails when it does not. For `Decodable`, `DecInv` follows a
  tag through the two locks: the headers of a run are stored when they were sent (`Stocked`),
  the tag between the locks is the last one its run sent (`LastSent`), and while a stretch is
  anchored on a run, what the run may send next (`SendsSound`) and what it has between the locks
  (`HoldsSound`) is announced and ahead of its guard.
* **OutputSink**: what is queued is for the current connection (`QueuedForCurrent`), and the
  writer's connection is the current one unless it has yet to learn of a new generation
  (`WriterCurrent`). `Rungs` is assumed finite. `Decodable` reads the queue as the writer will: after each
  prefix there are the headers it will have and the tracks it will have begun (`Whole`, by a
  witness per place in the queue), and after the last one these agree with what the timeline
  still owes (`Due`); what was cleared is news to the writer (`GapIsNews`).
* **Supervisor**: runs of later epochs have not begun (`NotRaised`), the registered process
  belongs to a run that waits for it (`Registered`), nobody is in Stop while a run is wanted
  (`WantedIsIdle`), a living process is that of the latest epoch (`AliveIsLatest`), and
  whoever is in Stop for a process knows whose it is (`VictimKnown`). **PushClient** (`PInv`)
  has the first three, and: a living connection is either just published or the registered
  one of the latest epoch, wanted or about to be closed (`AliveIsKnown`), and what was
  published is there (`PublishedIsThere`). Both are fed by one argument (`FInv`): as long as
  no run was raised beside one that was going on, the runs before the latest are over
  (`OneGoesOn`), so that none is left to detach what the latest attached (`WaitingIsFed`).
* **Cache** (`CInv`): a registration and the caller it names point to each other
  (`Registered`), an artifact's name appears after its sidecar, once, and not while somebody
  works on it (`Published`), and no more callers hold a slot than there are (`SlotsKept`).
  A kill forgets all callers at once and leaves the disk, which is why `Published` speaks of
  the disk alone where it can.
* **Preparer** (`PrInv`): while builds follow one another, what is ready was built for the
  latest target (`Follow`); if no target is built twice in a row, it comes from the places
  of the list the build has passed, hence once (`Passed`); and what the bag knows is in it or
  was played in this cycle (`Remembered`, `PlayedOnce`). **Bitrate**: every session settled
  on what `stabilize` makes of what it measured and remembered (`Settled`); the rest is a
  lemma about neighbouring rungs, for every ascending ladder (`BandTakesNeighbours`). That
  sets of numbers have a minimum comes from well-founded induction over the naturals
  (`WFMin`, `NatLessThanWellFounded`).
* **Player** (`PInv`): unless a segment was missed, the latest episode alone lives, its
  process is the known one, and while Stop waits it has been told to end and no other comes
  up (`Alone`, `Known`, `Wanted`, `Dying`). **Resume**: a request stands in FALLBACK only for a
  return that is under way or after a stall (`Withdrawn`).
* **Hub**: whoever is past the reading of the status holds one (`StatusRead`).
* **Registry**: `DiskIsMemory` is inductive with the types. For `RefsResolve` (`RefsInv`) the
  commands that are under way matter: what was checked of a form still holds when it is
  performed, and what a command needs when it has the lock back is still there
  (`FormsResolve`), because no other command is under way (`OneAtATime`). `JoinedWhenLive`
  (`JoinInv`) adds that the platforms a command has yet to recreate wait for a source that is
  not validated (`AllWaitOff`).
* **EBArm**: a generation is half a publication (`GenCounted`), so that who holds the
  generation of the moment while the source is away or before its passport holds no ladder
  of it; `AllFitting` says step by step of an exchange that what it carries under the
  generation of the moment is the ladder of the source, or was granted for it, unless the
  generation is in `misread`.
* **Router** (`RouterInv`): the router remembers the newest header of each track
  (`Remembered`), each lane was last told of the track that goes there by the last mapping
  the router has seen, or, while a selected track's header waits for its frame, of those
  that keep their slot (`AudioDeclared`, `AudioWaits`; slots in `swapped` apart), and the connection was told what the
  switcher holds for the source on the air (`ToldAll`).
* **Publish** (`Reading`): a reader that is in the middle of a message has something to read,
  or nobody is left to read it from, and before the publication is accepted there is no
  reader. Every reason to give up is then one of those `EndsForAReason` names.
* **Demux** (`DInv`): an assembler holds the newest unit of its stream, as far as it has come
  (`Holds`); the stream's clock is at the unit before, at most half a turn away, and its
  configuration is the last it was given (`Ready`), so that what the unwrapper makes of the
  unit's wrapped time is its time. `Past` says of what was handed on what `Faithful` asks of
  it, in a form that only grows: every frame has its unit's time on one line, whole turns of
  the clock before the stream was first seen left out (`since`), as many frames
  as the unit has, in order, after the parameters its stream was given last. `HandsOn` says
  what a unit leaves behind, `OthersStay` that the other streams are as they were. That a stream's clock
  never goes more than half a turn from one unit to the next is a guard of `ProducerBegins`.
* **Chunks** (`ChunksInv`, which has the chains of the server's wire only until `repeated`,
  and the types of what it says, `DownTyped`, after that too): nothing on the wire says where a chunk ends, so the invariant says
  it. A place is what one side knows between two chunks: of each chunk stream the message it
  is at and what is left of it, the chunk size, how many messages there have been. A chunk
  leads from one place to another (`Turns`), and the units under way are a chain of chunks
  (`Leads`) from the place of the reader to the place of the writer (`DownAt`, `UpAt`), each
  laid out on the wire as its header says (`Laid`). The writer lengthens the chain at one end
  (`Joined`), the reader takes the first chunk off at the other (`FirstChunk`), and because
  both agree on the place it takes just that many units (`Reads`). `DownMove` and `UpMove` say
  which chunks either side may send; what has been put together is then what was begun
  (`Settled`, `IntactOf`, `ArrivedOf`). That a message of the program is cut into such chunks
  (`MessageCarried`) goes by induction over the chunks written so far, for which the set of
  the numbers that satisfy the claim is shown to hold all of Nat (`Induction`, from
  `NatLessThanWellFounded`): a set needs no operator as a parameter.

Only model-checked: liveness (`ArmedSwitchHappens`, `SessionsEnd`, `KeepsTrying`,
`ReturnEnds`, `EveryCallReturns`), which is out of the prover's reach; `Idempotent` of
Normalize, whose repairs are folds over lists. Every other property of the passing
runs is stated by a theorem.

## 5. What the models leave out

* **Machine**: `update_tracks`, `update_audio_map`, `set_group` and `ladder_minted`,
  whose handlers change no field the properties read; a flapping output that once
  worked, which only raises toasts. Trace output and logging.
* **Broadcast**: disabled platforms, the ladder check of a contract, several extra
  sources, `Manager.Shutdown`.
* **Switcher**: `onMetaData`, the milliseconds a request waits (`due` is a free choice),
  bitrate and keyframe statistics, registration of outputs. The video tracks of a run
  are interleaved within a step with the canonical track first, as a muxer does that
  goes by time and then by stream, and a frame is
  judged only while its run is the one the stretch is anchored on.
* **OutputSink**: timestamps (they are the switcher's), `onMetaData`, the error text of a
  failed write. `Decodable` excuses a header that came between `CurrentHeaders` and
  `Attach` (`platform/pipeline.go:432`) or was cleared from the queue; the second excuse
  is the subject of `ResyncDecodable`.
* **Supervisor, PushClient, Player, Cache**: the length of back-offs and timeouts; that one
  came before another where the order matters is a free choice.
* **Registry**: fields of a platform that change nothing but themselves. **Hub**: logs,
  toasts and one-off messages.
* **Router**: payloads beyond what they are recognised by, bitrates, PCR and continuity
  counters of the multiplexer, the repetition of PAT and PMT for who comes late.
* **Wire formats**: the encodings of single values (AMF, tags, parameter sets, URLs).
* **Ingest, MediaMTX control, media library, settings, probes, application start, assets,
  web**: files, argument lists, HTTP plumbing, forms and calls of external programs, with
  no state that several steps of the service share. `PROJECT.json` gives the reason for
  each.

## 6. What may follow

1. Compositions: Machine with Switcher (what a late cut does to both), Supervisor with
   OutputSink (which run's sink is fed), Router with Switcher in full.
2. Proofs: that Registry's commands keep `RefsResolve` under a weaker condition than that
   none overlap.
3. Repetition of PAT and PMT, and the joining of a receiver in the middle of a stream
   (`wire/ts/mux.go`).
