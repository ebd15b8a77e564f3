------------------------------ MODULE Switcher ------------------------------
(***************************************************************************)
(* The canonical timeline of a platform (timeline/switcher.go): the relay  *)
(* reader and the backup player call Process from goroutines of their own, *)
(* the machine switches between them. Process takes activeMu and then      *)
(* timelineMu, with neither held in between: Read and Write are two steps. *)
(*                                                                         *)
(* A source sends runs (a process of the relay, an episode of the player). *)
(* Each run has a time of its own that starts at 0, and codec headers of   *)
(* its own. onMetaData, bitrate and GOP statistics are left out.           *)
(***************************************************************************)
EXTENDS Integers, FiniteSets

CONSTANTS
  Rungs,      \* video tracks beside the canonical one (a ladder has them)
  Audios,     \* audio tracks
  Confs,      \* codec parameters a run of the relay may have
  Step,       \* switchTSStepMS
  MaxTs,      \* bound: frames of a track in a run
  MaxRuns,    \* bound: runs of the relay
  MaxEpisodes,  \* bound: runs of the player
  MaxCalls    \* bound: calls of the machine

ASSUME TracksAssumption == "video" \notin Rungs \cup Audios /\ Rungs \cap Audios = {}
ASSUME ConfsAssumption == "backup" \notin Confs /\ "none" \notin Confs
ASSUME StepAssumption == Step \in Nat \ {0}
ASSUME BoundsAssumption ==
  MaxTs \in Nat /\ MaxRuns \in Nat /\ MaxEpisodes \in Nat /\ MaxCalls \in Nat

Sources == {"relay", "backup"}
Tracks == {"video"} \cup Rungs \cup Audios
BackupConf == "backup"
NoConf == "none"

VARIABLES
  feed,      \* the run each source is sending
  hand,      \* the tag each source has between activeMu and timelineMu
  active,    \* activeSource
  pending,   \* pendingSource is the relay
  prior,     \* pendingPriorHeaders
  hdr,       \* seqHeaders
  tl,        \* what timelineMu guards
  told,      \* the machine has been told of a cut with changed parameters
  calls,     \* calls of the machine so far
  wire,      \* history: what the outputs of the platform were given
  mishaps    \* history: what the viewers suffered

vars == <<feed, hand, active, pending, prior, hdr, tl, told, calls, wire, mishaps>>

NoHeaders == [k \in Tracks |-> NoConf]
NoTag == [kind |-> "none"]

Headers == [Tracks -> Confs \cup {BackupConf, NoConf}]

Tag ==
  [kind : {"header", "key", "delta"}, track : Tracks, conf : Confs \cup {BackupConf},
   ts : Nat, run : Nat]

Mishap == {"undecodable", "muted", "torn"}

\* trackOut is -1 for a track that has no frame on the timeline yet.
TypeOK ==
  /\ feed \in [Sources -> [run : Nat, conf : Confs \cup {BackupConf}, said : SUBSET Tracks,
                           keyed : SUBSET Tracks, next : [Tracks -> 0..MaxTs]]]
  /\ hand \in [Sources -> Tag \cup {NoTag}]
  /\ active \in Sources \cup {"none"}
  /\ pending \in BOOLEAN /\ told \in BOOLEAN
  /\ prior \in Headers /\ (~pending => prior = NoHeaders)
  /\ hdr \in [Sources -> Headers]
  /\ tl \in [source : Sources \cup {"none"}, last : Nat, offset : Int, wait : BOOLEAN,
             started : SUBSET Tracks, trackOut : [Tracks -> Nat \cup {-1}]]
  /\ calls \in 0..MaxCalls
  /\ wire \in [said : Headers, sound : SUBSET Tracks, anchor : Nat, relay : Confs \cup {NoConf}]
  /\ mishaps \subseteq Mishap

\* NewSwitcher, and Reset of the part that timelineMu guards.
NewTimeline ==
  [source |-> "none", last |-> 0, offset |-> 0, wait |-> FALSE, started |-> {},
   trackOut |-> [k \in Tracks |-> -1]]

\* sound: tracks that have had a keyframe since their header; anchor: the run the
\* offset was taken from; relay: parameters of the relay on this connection.
NewWire == [said |-> NoHeaders, sound |-> {}, anchor |-> 0, relay |-> NoConf]

NoRun(r) ==
  [run |-> r, conf |-> BackupConf, said |-> {}, keyed |-> {}, next |-> [k \in Tracks |-> MaxTs]]

Init ==
  /\ feed = [s \in Sources |-> NoRun(0)]
  /\ hand = [s \in Sources |-> NoTag]
  /\ active = "none" /\ pending = FALSE /\ prior = NoHeaders
  /\ hdr = [s \in Sources |-> NoHeaders]
  /\ tl = NewTimeline
  /\ told = FALSE
  /\ calls = 0
  /\ wire = NewWire
  /\ mishaps = {}

----------------------------------------------------------------------------
(* The machine.                                                            *)

Call == calls < MaxCalls /\ calls' = calls + 1

\* Plausible defect: the headers of a cancelled request stay.
SetActiveKeepsPrior(s) == active' = s /\ pending' = FALSE /\ UNCHANGED prior

SetActive(s) == active' = s /\ pending' = FALSE /\ prior' = NoHeaders

\* onSourceAvailable of an OFFLINE platform.
GoLive ==
  /\ active = "none" /\ Call
  /\ SetActive("relay")
  /\ UNCHANGED <<feed, hand, hdr, tl, told, wire, mishaps>>

\* onSourceUnavailable, onRelayStalled; during a return it cancels the request.
Fallback ==
  /\ (active = "relay" \/ pending) /\ Call
  /\ SetActive("backup")
  /\ UNCHANGED <<feed, hand, hdr, tl, told, wire, mishaps>>

\* Called when the source is back, by relay_resumed, and by the resume goroutine
\* once it has seen the relay's keyframes: prior is what the headers are now.
RequestSwitch ==
  /\ active = "backup" /\ Call
  /\ pending' = TRUE /\ prior' = hdr["relay"]
  /\ UNCHANGED <<feed, hand, active, hdr, tl, told, wire, mishaps>>

\* onSwitchedToRelay(changed): the outputs reconnect, and a connection takes frames from
\* a keyframe on (OutputSink.tla).
SwitchedParamsChanged ==
  /\ told /\ active = "backup"
  /\ told' = FALSE
  /\ SetActive("relay")
  /\ wire' = [wire EXCEPT !.relay = NoConf, !.sound = IF tl.source = "relay" THEN Tracks ELSE @]
  /\ UNCHANGED <<feed, hand, hdr, tl, calls, mishaps>>

\* A tag that outlives its broadcast counts as one of run 0: no output is there
\* to hear it.
FromBefore(t) == IF t = NoTag THEN t ELSE [t EXCEPT !.run = 0]

\* Plausible defect: the guards of the last broadcast stay.
ResetKeepsTracks ==
  /\ active # "none" /\ Call
  /\ SetActive("none")
  /\ tl' = [NewTimeline EXCEPT !.trackOut = tl.trackOut]
  /\ hdr' = [s \in Sources |-> NoHeaders]
  /\ feed' = [s \in Sources |-> NoRun(feed[s].run)]
  /\ told' = FALSE
  /\ wire' = NewWire
  /\ hand' = [s \in Sources |-> FromBefore(hand[s])]
  /\ UNCHANGED mishaps

\* teardownClean: relay and player are stopped, then the timeline is reset; a tag
\* between activeMu and timelineMu is still to be written.
Reset ==
  /\ active # "none" /\ Call
  /\ SetActive("none")
  /\ tl' = NewTimeline
  /\ hdr' = [s \in Sources |-> NoHeaders]
  /\ feed' = [s \in Sources |-> NoRun(feed[s].run)]
  /\ told' = FALSE
  /\ wire' = NewWire
  /\ hand' = [s \in Sources |-> FromBefore(hand[s])]
  /\ UNCHANGED mishaps

----------------------------------------------------------------------------
(* The sources.                                                            *)

IsVideo(k) == k \notin Audios

\* A process of the relay is (re)started by its supervisor, or the player begins
\* an episode, which it does after SetActive("backup"); ffmpeg counts time from 0
\* and may have other parameters.
StartRun(s) ==
  /\ active \in (IF s = "relay" THEN Sources ELSE {"backup"})
  /\ feed[s].run < (IF s = "relay" THEN MaxRuns ELSE MaxEpisodes)
  /\ \E c \in (IF s = "relay" THEN Confs ELSE {BackupConf}) :
       feed' = [feed EXCEPT ![s] =
         [run |-> feed[s].run + 1, conf |-> c, said |-> {}, keyed |-> {},
          next |-> [k \in Tracks |-> 0]]]
  /\ UNCHANGED <<hand, active, pending, prior, hdr, tl, told, calls, wire, mishaps>>

\* The video tracks of a run are interleaved by time within a step, of two frames of
\* one time the canonical one first (the muxer goes by stream); audio may lag or lead.
InTurn(f, k) ==
  /\ f.next[k] < MaxTs
  /\ k \in Rungs => f.next[k] < f.next["video"]
  /\ IsVideo(k) => \A j \in Rungs : f.next[k] < f.next[j] + Step

\* The tags s may send next: the header of a track, that of the canonical track
\* first, then its frames; the first frame of a video track is a keyframe.
NextTags(s) ==
  LET f == feed[s]
      tag(kind, k) == [kind |-> kind, track |-> k, conf |-> f.conf, ts |-> f.next[k], run |-> f.run]
      turn == {k \in Tracks : InTurn(f, k)}
  IN {tag("header", k) : k \in {k \in Tracks \ f.said :
                              f.next[k] < MaxTs /\ (k = "video" \/ "video" \in f.said)}}
       \cup {tag("key", k) : k \in turn \cap f.said}
       \cup {tag("delta", k) : k \in turn \cap (f.keyed \cup (f.said \cap Audios))}

Sent(f, t) ==
  IF t.kind = "header" THEN [f EXCEPT !.said = @ \cup {t.track}]
  ELSE [f EXCEPT !.keyed = IF t.kind = "key" THEN @ \cup {t.track} ELSE @,
                 !.next[t.track] = @ + 1]

\* storeHeader
Stored(t, h) == IF t.kind = "header" THEN [h EXCEPT ![t.track] = t.conf] ELSE h

\* isReadyKeyframe: only the canonical track carries a cut.
Ready(t) == t.kind = "key" /\ t.track = "video"

headersDiffer(a, b) == a # b

\* A stretch that misses a tag: the track needs a keyframe to be sound again.
Missed(w, t) == [w EXCEPT !.anchor = 0, !.sound = @ \ {t.track}]

\* Process up to the unlock of activeMu: a tag of a source that is not active is
\* dropped here, and the stretch that misses it is judged no longer.
\* A keyframe that could cut may come before notBefore.
Read(s) ==
  /\ hand[s] = NoTag
  /\ \E t \in NextTags(s) : \E cut \in {FALSE, s = "relay" /\ pending /\ Ready(t)} :
       LET h == Stored(t, hdr[s])
           seamless == cut /\ (prior = NoHeaders \/ ~headersDiffer(prior, h))
       IN /\ feed' = [feed EXCEPT ![s] = Sent(@, t)]
          /\ hdr' = [hdr EXCEPT ![s] = h]
          /\ active' = IF seamless THEN "relay" ELSE active
          /\ pending' = (pending /\ ~cut)
          /\ prior' = IF cut THEN NoHeaders ELSE prior
          /\ told' = (told \/ (cut /\ ~seamless))
          /\ hand' = [hand EXCEPT ![s] = IF active' = s THEN t ELSE NoTag]
          /\ wire' = IF active' # s /\ tl.source = s THEN Missed(wire, t) ELSE wire
  /\ UNCHANGED <<tl, calls, mishaps>>

----------------------------------------------------------------------------
(* Process under timelineMu.                                               *)

AtLeast0(n) == IF n < 0 THEN 0 ELSE n
Later(a, b) == IF a > b THEN a ELSE b

\* The timeline when a tag of s arrives: another source opens a new stretch.
Arrive(s) ==
  IF tl.source = s THEN tl
  ELSE [tl EXCEPT !.source = s, !.last = @ + Step, !.wait = TRUE]

\* Plausible defect: the new stretch starts where its source does.
AnchorAtSource(x, t) == [x EXCEPT !.wait = FALSE, !.started = {"video"}, !.offset = 0]

\* The canonical keyframe ends the wait: the frame goes one step after all that
\* was given out.
Anchor(x, t) == [x EXCEPT !.wait = FALSE, !.started = {"video"}, !.offset = x.last - t.ts + Step]

\* Plausible defect: a rung goes on with the frames of its old stretch.
NeverHeldBack(x, t) == FALSE

\* A rung enters a stretch on a keyframe of its own.
HeldBack(x, t) ==
  t.kind = "delta" /\ IsVideo(t.track) /\ t.track \notin x.started

OutTS(x, t) == AtLeast0(t.ts + x.offset)

\* The guard per track: this time was given out by the source before.
Swallowed(x, t) == t.kind # "header" /\ OutTS(x, t) < x.trackOut[t.track]

Enter(x, t) ==
  IF t.kind = "key" /\ IsVideo(t.track) THEN [x EXCEPT !.started = @ \cup {t.track}] ELSE x

Given(x, t) ==
  [x EXCEPT !.trackOut[t.track] = IF t.kind = "header" THEN @ ELSE OutTS(x, t),
            !.last = Later(@, OutTS(x, t))]

\* The outputs learn a header, and a track is sound again after its next keyframe.
Told(w, t) ==
  IF t.kind = "header" THEN [w EXCEPT !.said[t.track] = t.conf, !.sound = @ \ {t.track}]
  ELSE IF t.kind = "key" \/ ~IsVideo(t.track) THEN [w EXCEPT !.sound = @ \cup {t.track}]
  ELSE w

Heard(w, t) ==
  [Told(w, t) EXCEPT !.relay = IF t.conf = BackupConf \/ t.run = 0 THEN @ ELSE t.conf]

\* The stretch begins with the stored headers of its source.
Opened(w, s, t) ==
  [w EXCEPT !.said = [k \in Tracks |-> IF hdr[s][k] = NoConf THEN @[k] ELSE hdr[s][k]],
            !.sound = {}, !.anchor = t.run]

\* A frame the outputs cannot decode: its parameters were not announced, or no
\* keyframe came since they were. Only frames of the anchored run are judged.
Undecodable(w, t) ==
  /\ t.kind # "header" /\ t.run = w.anchor /\ t.run # 0
  /\ w.said[t.track] # t.conf \/ (t.kind = "delta" /\ IsVideo(t.track) /\ t.track \notin w.sound)

\* A frame that refers to one its stretch has missed.
Torn(w, t) == t.kind = "delta" /\ IsVideo(t.track) /\ t.run # 0 /\ w.anchor = 0 /\ t.track \notin w.sound

Write(s) ==
  LET t == hand[s]
      a == Arrive(s)
      opens == a.wait /\ Ready(t)
      x == Enter(IF opens THEN Anchor(a, t) ELSE a, t)
      w == IF opens THEN Opened(wire, s, t) ELSE wire
      swallowed == Swallowed(x, t)
  IN /\ t # NoTag
     /\ hand' = [hand EXCEPT ![s] = NoTag]
     /\ \/ /\ a.wait /\ ~Ready(t)
           /\ tl' = a
           /\ UNCHANGED <<wire, mishaps>>
        \/ /\ ~a.wait \/ Ready(t)
           /\ HeldBack(x, t)
           /\ tl' = x
           /\ UNCHANGED <<wire, mishaps>>
        \/ /\ ~a.wait \/ Ready(t)
           /\ ~HeldBack(x, t)
           /\ tl' = IF swallowed THEN x ELSE Given(x, t)
           /\ wire' = IF swallowed THEN w ELSE Heard(w, t)
           /\ mishaps' = mishaps
                \cup (IF ~swallowed /\ Undecodable(w, t) THEN {"undecodable"} ELSE {})
                \cup (IF ~swallowed /\ Torn(w, t) THEN {"torn"} ELSE {})
                \cup (IF swallowed /\ Ready(t) /\ t.run # w.anchor THEN {"muted"} ELSE {})
     /\ UNCHANGED <<feed, active, pending, prior, hdr, told, calls>>

----------------------------------------------------------------------------
Machine == GoLive \/ Fallback \/ RequestSwitch \/ SwitchedParamsChanged \/ Reset

Next == Machine \/ \E s \in Sources : StartRun(s) \/ Read(s) \/ Write(s)

Spec == Init /\ [][Next]_vars

----------------------------------------------------------------------------
(* Properties.                                                             *)

\* No track is ahead of the timeline: what keeps the keyframe of a cut from being
\* swallowed by the guard of its track (Reset, Process).
TracksBehind == \A k \in Tracks : tl.trackOut[k] <= tl.last

\* The keyframe that opens a stretch is given out: the guard of its track, which
\* outlives the cut, never swallows it (Process).
CutIsHeard ==
  \A s \in Sources :
    LET t == hand[s]
    IN t # NoTag /\ Arrive(s).wait /\ Ready(t) => ~Swallowed(Anchor(Arrive(s), t), t)

\* Whatever cuts, drops and returns do, a frame of the run a stretch is anchored
\* on is given out after its header and a keyframe of its track (Process).
Decodable == "undecodable" \notin mishaps

\* Said of the program, and not so (see the README): the running relay is heard
\* from its first keyframe on.
NotMuted == "muted" \notin mishaps

\* Said of the program, and not so (see the README): a rung that was away comes back
\* with a keyframe of its own.
NotTorn == "torn" \notin mishaps

\* Said of the program, and not so (see the README): codec parameters that
\* changed during a drop are never swapped inside a connection by a seamless cut.
CutKeepsParams ==
  [][active = "backup" /\ active' = "relay" /\ hand' # hand
       => wire.relay \in {NoConf, hdr'["relay"]["video"]}]_vars

============================================================================
