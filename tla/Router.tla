------------------------------- MODULE Router -------------------------------
(***************************************************************************)
(* What becomes of the audio tracks and video rungs of a source on their   *)
(* way into an output: the choice of a mode (route/mode.go), the router of *)
(* the relay and the facade of the backup (route/route.go), which both     *)
(* look up the slots a track goes to while the dashboard changes them, and *)
(* the MPEG-TS multiplexer an SRT output ends in (wire/ts/mux.go).         *)
(*                                                                         *)
(* The demultiplexer hands a header over when parameters change and the    *)
(* frame right after it. Of the switcher (timeline/switcher.go) this       *)
(* module has what it keeps and emits again: the headers of each source,   *)
(* by lane. A lane is a slot of the output; an id names a track and its    *)
(* parameters.                                                             *)
(***************************************************************************)
EXTENDS Integers, Sequences

CONSTANTS
  Pipelines,   \* pairs <<[audio_tracks, rungs, eb], [type, vod_track, video]>>
  Maps,        \* what audio_map may be: sequences of tracks and Unmapped
  MaxRouted, MaxMoves, MaxSegments \* bounds: units of a track, events from outside

ASSUME PipelinesAssumption ==
  \A p \in Pipelines :
    p \in [audio_tracks : Nat, rungs : Nat, eb : BOOLEAN]
            \X [type : {"rtmp", "srt"}, vod_track : BOOLEAN, video : Int]

Unmapped == -1

\* Every map has all the slots (clampAudioMap).
ASSUME MapsAssumption ==
  \A m, n \in Maps : m \in Seq(Nat \cup {Unmapped}) /\ Len(m) = Len(n)

ASSUME RouterBoundsAssumption == {MaxRouted, MaxMoves, MaxSegments} \subseteq Nat

Nothing == <<>>

\* What f has, and g has besides.
Over(f, g) == [x \in DOMAIN f \cup DOMAIN g |-> IF x \in DOMAIN f THEN f[x] ELSE g[x]]
Only(x, e) == [y \in {x} |-> e]

VARIABLES
  source, platform,     \* of this pipeline
  picked,    \* p.audio, p.audioVOD, p.audioMap
  router,    \* lastSeq, lastTS, prior
  swapped,   \* history: slots changed between a header and its frame, not declared since
  params,    \* history: the parameters each track of the source has by now
  said,      \* the parameters the demultiplexer has made a header of
  clock,     \* units of each track so far
  held,      \* Nothing or <<role>>: its header is handed over, its frame is not
  headers,   \* seqHeaders of the switcher
  onAir,     \* outputSource of the switcher
  segment,   \* the segment of the backup that plays
  remapped,  \* history: the map has changed since it began
  link,      \* the connection of the output: see NewConn
  moves      \* events from outside so far

routing == <<router, swapped>>
demuxer == <<params, said, clock, held>>
switcher == <<headers, onAir>>
player == <<segment, remapped>>
routerVars == <<source, platform, picked, routing, demuxer, switcher, player, link, moves>>

----------------------------------------------------------------------------
(* The mode (Select, NewSpec).                                             *)

EBArm == source.eb /\ platform.type = "rtmp" /\ platform.video < 0
Chimera == platform.type = "rtmp" /\ platform.vod_track
MultitrackSRT == platform.type = "srt" /\ source.audio_tracks > 1
DualTrack == ~MultitrackSRT /\ source.audio_tracks = 2

Mode ==
  IF EBArm THEN "eb"
  ELSE IF Chimera THEN IF DualTrack THEN "chimera_select" ELSE "chimera_fixed"
  ELSE IF MultitrackSRT THEN "multitrack_select"
  ELSE IF DualTrack THEN "track_select"
  ELSE IF source.audio_tracks > 1 \/ source.eb THEN "multitrack_fixed" ELSE "plain_flv"

Policy ==
  CASE Mode \in {"track_select", "multitrack_select"} -> "select"
    [] Mode \in {"eb", "chimera_select"} -> "chimera"
    [] OTHER -> "fixed"

\* The tracks that are demultiplexed: every rung, or the only one.
Roles ==
  {<<"audio", i>> : i \in 0..source.audio_tracks - 1} \cup
  {<<"video", r>> : r \in (IF source.eb THEN 0..source.rungs - 1 ELSE {0})}

\* The rung that is wanted, where it is not the whole ladder.
VideoRole == <<"video", IF source.eb /\ platform.video >= 0 THEN platform.video ELSE 0>>

\* Where a video track goes, if it goes anywhere (Route).
VideoLane(role) ==
  IF EBArm THEN role ELSE IF role = VideoRole THEN <<"video", 0>> ELSE Nothing

\* The track each slot carries (mapping).
Mapping ==
  CASE Mode = "multitrack_select" -> picked.map
    [] Mode \in {"chimera_select", "chimera_fixed"} -> <<picked.live, picked.vod>>
    [] Mode = "eb" -> <<picked.live, IF Chimera THEN picked.vod ELSE Unmapped>>
    [] Mode \in {"track_select", "multitrack_fixed"} -> <<picked.live>>
    [] Mode = "plain_flv" -> <<0>>

----------------------------------------------------------------------------
(* The output: an RTMP connection, or the multiplexer of an SRT one.       *)

\* cfg: the headers a connection was given, by lane; known: the slots of the
\* multiplexer; listed: the lanes of its last PMT; heard: history, the last frame of
\* each lane, the header it went out under, whether it was announced, and whether the
\* lane was changed since the header was sent.
NewConn == [cfg |-> Nothing, known |-> {}, listed |-> {}, dirty |-> TRUE, heard |-> Nothing]

IsAudio(lane) == lane[1] = "audio"
Slot(i) == <<"audio", i - 1>>

\* History: the lane was changed where the source on the air is not prepared for it.
Moved(lane) == IF onAir = "backup" THEN remapped ELSE \E i \in swapped : lane = Slot(i)

\* registerSlot
Register(c, lanes) ==
  [c EXCEPT !.known = @ \cup lanes, !.dirty = @ \/ ~(lanes \subseteq c.known)]

\* Headers, by lane.
WriteHeaders(c, hs) ==
  LET n == [c EXCEPT !.cfg = Over(hs, @)]
  IN IF platform.type = "srt" THEN Register(n, {l \in DOMAIN hs : IsAudio(l)}) ELSE n

\* Frames, by lane: the multiplexer drops a slot's until it has its configuration, and
\* sends PAT and PMT first when they have changed.
WriteFrames(c, fs) ==
  LET srt == platform.type = "srt"
      out == {l \in DOMAIN fs : (srt /\ IsAudio(l)) => l \in DOMAIN c.cfg}
      n == Register(c, {l \in out : IsAudio(l)})
      listed == IF n.dirty THEN n.known \cup {<<"video", 0>>} ELSE n.listed
      Heard(l) == [of |-> fs[l], under |-> IF l \in DOMAIN c.cfg THEN c.cfg[l] ELSE Nothing,
                   announced |-> ~srt \/ l \in listed, moved |-> Moved(l)]
      heard == Over([l \in out |-> Heard(l)], c.heard)
  IN IF out = {} THEN c
     ELSE IF srt THEN [n EXCEPT !.listed = listed, !.dirty = FALSE, !.heard = heard]
     ELSE [c EXCEPT !.heard = heard]

\* The switcher gets headers, then frames, of one source in one call (Process): it
\* stores the first, and lets out what is of the source on the air.
Process(src, hs, fs) ==
  /\ headers' = [headers EXCEPT ![src] = Over(hs, @)]
  /\ link' = IF onAir = src THEN WriteFrames(WriteHeaders(link, hs), fs) ELSE link

----------------------------------------------------------------------------
(* The router.                                                             *)

NewRouter == [lastSeq |-> Nothing, lastTS |-> Nothing, prior |-> Mapping]

Carrying(track) == {i \in DOMAIN Mapping : Mapping[i] = track}

\* Plausible defect: a track that was routed anywhere needs no new header.
RedeclaredOnce ==
  {i \in DOMAIN Mapping :
     /\ Mapping # router.prior /\ Mapping[i] \in DOMAIN router.lastSeq
     /\ \A j \in DOMAIN router.prior : Mapping[i] # router.prior[j]}

\* redeclare: the slots whose header is emitted again, for their track is another one;
\* a chimera does all of them.
Redeclared ==
  {i \in DOMAIN Mapping :
     /\ Mapping # router.prior /\ Mapping[i] \in DOMAIN router.lastSeq
     /\ Policy = "select" => Mapping[i] # router.prior[i]}

At(slots, id) == [l \in {Slot(i) : i \in slots} |-> id]

\* audio, for a header of policySelect: it goes to its slots and no further.
SelectHeader(track, id) ==
  /\ router' = [router EXCEPT !.lastSeq = Over(Only(track, id), @)]
  /\ swapped' = swapped \ Carrying(track)
  /\ Process("relay", At(Carrying(track), id), Nothing)

\* audio, for all else: slots that have changed are declared again before.
RouteAudio(track, id, header) ==
  LET seq == IF header /\ Policy # "fixed" THEN Over(Only(track, id), router.lastSeq) ELSE router.lastSeq
      again == [l \in {Slot(i) : i \in Redeclared} |-> seq[Mapping[l[2] + 1]]]
      guarded == {i \in Carrying(track) : Policy = "select" /\ i \in DOMAIN router.lastTS
                                             /\ clock'[<<"audio", track>>] <= router.lastTS[i]}
      slots == Carrying(track) \ guarded
      times == IF Policy = "select" /\ ~header
               THEN Over([i \in slots |-> clock'[<<"audio", track>>]], router.lastTS) ELSE router.lastTS
  IN /\ router' = IF Policy = "fixed" THEN router
                  ELSE [lastSeq |-> seq, lastTS |-> times, prior |-> Mapping]
     /\ swapped' = swapped \ Redeclared
     /\ Process("relay", IF header THEN Over(At(slots, id), again) ELSE again,
                IF header THEN Nothing ELSE At(slots, id))

RouteVideo(role, id, header) ==
  LET to == IF VideoLane(role) = Nothing THEN Nothing ELSE Only(VideoLane(role), id)
  IN UNCHANGED routing /\ Process("relay", IF header THEN to ELSE Nothing, IF header THEN Nothing ELSE to)

Route(role, header) ==
  LET id == <<role, params[role]>>
  IN CASE role[1] = "video" -> RouteVideo(role, id, header)
       [] role[1] = "audio" ->
            IF header /\ Policy = "select" THEN SelectHeader(role[2], id)
            ELSE RouteAudio(role[2], id, header)

\* The demultiplexer finds new parameters, and makes a header of them ...
Header(role) ==
  /\ held = Nothing /\ clock[role] < MaxRouted /\ said[role] # params[role]
  /\ said' = [said EXCEPT ![role] = params[role]] /\ held' = <<role>>
  /\ UNCHANGED <<source, platform, picked, params, clock, onAir, player, moves>>
  /\ Route(role, TRUE)

\* ... or none, and then the frame. No track is more than a unit ahead of another.
Frame(role) ==
  /\ clock[role] < MaxRouted /\ said[role] = params[role]
  /\ held \in {Nothing, <<role>>} /\ \A o \in Roles : clock[role] <= clock[o]
  /\ clock' = [clock EXCEPT ![role] = @ + 1] /\ held' = Nothing
  /\ UNCHANGED <<source, platform, picked, params, said, onAir, player, moves>>
  /\ Route(role, FALSE)

----------------------------------------------------------------------------
(* The backup.                                                             *)

\* Where the audio of the backup goes (ChimeraBackupTimeline, MultitrackBackupTimeline,
\* by NewSpec).
BackupSlots ==
  LET mapped == {i \in DOMAIN picked.map : picked.map[i] # Unmapped}
  IN CASE Chimera -> {1, 2}
       [] platform.type = "srt" -> IF mapped = {} THEN {1} ELSE mapped
       [] OTHER -> {1}

BackupVideo == IF EBArm THEN {r \in Roles : r[1] = "video"} ELSE {<<"video", 0>>}

BackupTags == [l \in {Slot(i) : i \in BackupSlots} \cup BackupVideo |-> <<"backup", segment'>>]

\* A segment begins with its headers, which go where slots are mapped at the moment.
BeginSegment ==
  /\ segment < MaxSegments /\ segment' = segment + 1 /\ remapped' = FALSE
  /\ Process("backup", BackupTags, Nothing)
  /\ UNCHANGED <<source, platform, picked, routing, demuxer, onAir, moves>>

SegmentFrame ==
  /\ segment > 0
  /\ UNCHANGED <<source, platform, picked, routing, demuxer, onAir, player, moves>>
  /\ Process("backup", Nothing, BackupTags)

----------------------------------------------------------------------------
(* What comes from outside.                                                *)

\* The header of a selected track is at the slots it went to, and its frame is not.
HeaderWaits == Policy = "select" /\ held # Nothing /\ held[1][1] = "audio"

\* Whoever changes the slots then, changes them from under the header.
Swap == swapped' = IF HeaderWaits THEN swapped \cup {i \in DOMAIN Mapping : Mapping'[i] # Mapping[i]}
                   ELSE swapped

\* SetAudio stores one index, then the other; only with two tracks without a new relay.
PickLive(t) ==
  /\ DualTrack /\ moves < MaxMoves
  /\ t # picked.live /\ picked' = [picked EXCEPT !.live = t] /\ moves' = moves + 1
  /\ UNCHANGED <<source, platform, router, demuxer, switcher, player, link>> /\ Swap

PickVOD(t) ==
  /\ DualTrack /\ Chimera /\ moves < MaxMoves
  /\ t # picked.vod /\ picked' = [picked EXCEPT !.vod = t] /\ moves' = moves + 1
  /\ UNCHANGED <<source, platform, router, demuxer, switcher, player, link>> /\ Swap

\* SetAudioMap, for an SRT output.
PickMap(m) ==
  /\ platform.type = "srt" /\ moves < MaxMoves
  /\ m # picked.map /\ picked' = [picked EXCEPT !.map = m] /\ moves' = moves + 1
  /\ remapped' = TRUE
  /\ UNCHANGED <<source, platform, router, demuxer, switcher, segment, link>> /\ Swap

\* OBS changes the parameters of a track.
NewParams(role) ==
  /\ held = Nothing /\ params[role] = 1 /\ clock[role] > 0 /\ moves < MaxMoves /\ moves' = moves + 1
  /\ params' = [params EXCEPT ![role] = 2]
  /\ UNCHANGED <<source, platform, picked, routing, said, clock, held, switcher, player, link>>

\* The relay is started again: a new reader, with a new router.
RestartRelay ==
  /\ moves < MaxMoves /\ moves' = moves + 1
  /\ router' = NewRouter /\ swapped' = {} /\ said' = [r \in Roles |-> 0] /\ held' = Nothing
  /\ UNCHANGED <<source, platform, picked, params, clock, switcher, player, link>>

\* A keyframe of the other source takes the air: its headers first.
Cut ==
  LET src == IF onAir = "relay" THEN "backup" ELSE "relay"
  IN /\ held = Nothing /\ <<"video", 0>> \in DOMAIN headers[src]
     /\ onAir' = src /\ link' = WriteHeaders(link, headers[src])
     /\ UNCHANGED <<source, platform, picked, routing, demuxer, headers, player, moves>>

\* The output connects again: CurrentHeaders is all the new connection has.
Reconnect ==
  /\ moves < MaxMoves /\ moves' = moves + 1
  /\ link' = WriteHeaders(NewConn, headers[onAir])
  /\ UNCHANGED <<source, platform, picked, routing, demuxer, switcher, player>>

----------------------------------------------------------------------------

\* VOD Track needs a source with tracks for both (chimeraProblem).
RouterInit ==
  /\ \E p \in Pipelines : source = p[1] /\ platform = p[2]
  /\ Chimera => source.audio_tracks > 1 \/ source.eb
  /\ platform.video < source.rungs
  /\ picked \in [live : {0}, vod : {source.audio_tracks - 1},
                 map : IF platform.type = "srt" THEN Maps ELSE {<<0>>}]
  /\ params = [r \in Roles |-> 1] /\ said = [r \in Roles |-> 0] /\ clock = [r \in Roles |-> 0]
  /\ held = Nothing /\ router = NewRouter /\ swapped = {}
  /\ headers = [s \in {"relay", "backup"} |-> Nothing] /\ onAir = "relay"
  /\ segment = 0 /\ remapped = FALSE /\ link = NewConn /\ moves = 0

RouterNext ==
  \/ \E r \in Roles : Header(r) \/ Frame(r) \/ NewParams(r)
  \/ BeginSegment \/ SegmentFrame \/ RestartRelay \/ Cut \/ Reconnect
  \/ \E t \in 0..source.audio_tracks - 1 : PickLive(t) \/ PickVOD(t)
  \/ \E m \in Maps : PickMap(m)

RouterSpec == RouterInit /\ [][RouterNext]_routerVars

----------------------------------------------------------------------------

\* Whoever listens to a lane can decode what it carries: each frame comes under the
\* header of its own track, in its newest form, however slots are changed while relay and
\* backup run, restart, take turns and connections come and go (audio, redeclare,
\* MultitrackBackupTimeline).
HeadersMatch == \A l \in DOMAIN link.heard : link.heard[l].of = link.heard[l].under

\* It is so but for slots that were changed after their header had been sent: those of the
\* backup when the map has changed within a segment, and a slot of the relay that was
\* changed between a header and its frame, until it is declared again.
InConfig ==
  \A l \in DOMAIN link.heard : link.heard[l].moved \/ link.heard[l].of = link.heard[l].under

\* A multiplexed stream has announced whatever it carries (registerSlot, emitPATPMT).
Announced == \A l \in DOMAIN link.heard : link.heard[l].announced

Routed == InConfig /\ Announced

\* The backup is heard in the slots the relay is heard in (NewSpec); it is not where the
\* map of an SRT output does not begin with the only track of its source.
SlotsAgree ==
  LET slots == {i \in DOMAIN Mapping : Mapping[i] # Unmapped}
  IN slots = {} \/ slots = BackupSlots

=============================================================================
