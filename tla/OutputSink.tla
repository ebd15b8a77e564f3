----------------------------- MODULE OutputSink -----------------------------
(***************************************************************************)
(* An output of a platform (timeline/sink.go): the timeline offers tags to *)
(* a bounded queue and never waits, a writer goroutine gives them to the   *)
(* connection of the moment, and the supervisor of the output attaches and *)
(* detaches connections (platform/pipeline.go, onOutStart). The mutex of   *)
(* the sink makes Offer, Attach, Detach and the writer's take single       *)
(* steps; a write is made outside of it.                                   *)
(*                                                                         *)
(* The timeline is reduced to what it offers: stretches that open with the *)
(* headers of their source and a canonical keyframe, a rung entering each  *)
(* on a keyframe of its own (Switcher.tla).                                *)
(***************************************************************************)
EXTENDS Integers, Sequences, SequencesExt, FiniteSets

CONSTANTS
  Rungs,      \* video tracks beside the canonical one
  Confs,      \* codec parameters a stretch may have
  QueueMax,   \* RestreamQueueMax, 300 in the code
  MaxConns    \* bound: connections of the output

ASSUME TracksAssumption == "video" \notin Rungs /\ IsFiniteSet(Rungs)
ASSUME ConfsAssumption == "none" \notin Confs
ASSUME BoundsAssumption == QueueMax \in Nat \ {0} /\ MaxConns \in Nat

Tracks == {"video"} \cup Rungs
NoConf == "none"
NoTag == [kind |-> "none"]
Headers == [Tracks -> Confs \cup {NoConf}]
NoHeaders == [k \in Tracks |-> NoConf]

\* for and gap are history: the connection a tag was offered for, and whether tags
\* before it were cleared from the queue.
Tag ==
  [kind : {"header", "key", "delta"}, track : Tracks, conf : Confs, for : 0..MaxConns,
   gap : BOOLEAN]

VARIABLES
  hdr,       \* headers of the source the timeline gives out (CurrentHeaders)
  entered,   \* tracks that have entered the stretch
  todo,      \* tags the timeline has still to offer under timelineMu
  conns,     \* connections so far; the latest one is the one that may be alive
  snap,      \* headers onOutStart has read for a connection not yet attached
  out,       \* connection attached to the sink, 0 when none
  seed,      \* seedHeaders
  gen,       \* the writer has to start anew (gen differs from localGen)
  queue, overflow, closed,
  writer,    \* locals of run
  wire       \* history: what the connection attached was given

outputVars == <<hdr, entered, todo, conns, snap, out, seed, gen, queue, overflow, closed, writer,
          wire>>

NoSnap == [on |-> FALSE]

SinkTypeOK ==
  /\ hdr \in Headers /\ entered \subseteq Tracks
  /\ todo \in Seq(Tag)
  /\ conns \in 0..MaxConns /\ out \in {0, conns}
  /\ snap \in {NoSnap} \cup [on : {TRUE}, headers : Headers]
  /\ seed \in Headers
  /\ queue \in Seq(Tag) /\ Len(queue) <= QueueMax
  /\ gen \in BOOLEAN /\ overflow \in BOOLEAN /\ closed \in BOOLEAN
  /\ writer \in [item : Tag \cup {NoTag}, out : 0..MaxConns, started : BOOLEAN,
                 tracks : SUBSET Tracks, headers : Headers]
  /\ wire \in [began : BOOLEAN, said : Headers, sound : SUBSET Tracks,
               lost : SUBSET {"attach", "overflow"}]

\* lost: why the connection may miss a header; "attach": it was offered after
\* CurrentHeaders and before Attach; "overflow": it was cleared from the queue.
NewWire == [began |-> FALSE, said |-> NoHeaders, sound |-> {}, lost |-> {}]

NewWriter ==
  [item |-> NoTag, out |-> 0, started |-> FALSE, tracks |-> {}, headers |-> NoHeaders]

SinkInit ==
  /\ hdr = NoHeaders /\ entered = {} /\ todo = <<>>
  /\ conns = 0 /\ snap = NoSnap
  /\ out = 0 /\ seed = NoHeaders /\ gen = FALSE
  /\ queue = <<>> /\ overflow = FALSE /\ closed = FALSE
  /\ writer = NewWriter
  /\ wire = NewWire

----------------------------------------------------------------------------
(* The timeline.                                                           *)

timelineVars == <<hdr, entered, todo>>
sinkVars == <<out, seed, gen, queue, overflow, closed>>

NewTag(kind, k, c) == [kind |-> kind, track |-> k, conf |-> c, for |-> 0, gap |-> FALSE]

\* A stretch opens: the headers of its source, then the canonical keyframe.
Open ==
  /\ todo = <<>>
  /\ \E c \in Confs :
       /\ hdr' = [k \in Tracks |-> c]
       /\ todo' = SetToSeq({NewTag("header", k, c) : k \in Tracks}) \o <<NewTag("key", "video", c)>>
  /\ entered' = {"video"}
  /\ UNCHANGED <<conns, snap, writer, wire>> /\ UNCHANGED sinkVars

\* A frame of the stretch.
Frame(k, kind) ==
  /\ todo = <<>> /\ hdr[k] # NoConf
  /\ kind = "key" \/ k \in entered
  /\ todo' = <<NewTag(kind, k, hdr[k])>>
  /\ entered' = entered \cup {k}
  /\ UNCHANGED <<hdr, conns, snap, writer, wire>> /\ UNCHANGED sinkVars

Full == Len(queue) >= QueueMax

\* Plausible defect: the queue grows with the backlog.
OfferUnbounded ==
  /\ todo # <<>>
  /\ todo' = Tail(todo)
  /\ queue' = IF out = 0 THEN queue ELSE Append(queue, [Head(todo) EXCEPT !.for = out])
  /\ UNCHANGED <<hdr, entered, conns, snap, out, seed, gen, overflow, closed, writer, wire>>

\* Never blocks: without a connection the tag is lost, and a full queue is cleared.
Offer ==
  LET t == [Head(todo) EXCEPT !.for = out, !.gap = Full]
      headersLost == \E i \in 1..Len(queue) : queue[i].kind = "header"
  IN /\ todo # <<>>
     /\ todo' = Tail(todo)
     /\ queue' = IF out = 0 THEN queue ELSE IF Full THEN <<t>> ELSE Append(queue, t)
     /\ overflow' = (overflow \/ (out # 0 /\ Full))
     /\ wire' = IF out # 0 /\ Full /\ headersLost
                THEN [wire EXCEPT !.lost = @ \cup {"overflow"}] ELSE wire
     /\ UNCHANGED <<hdr, entered, conns, snap, out, seed, gen, closed, writer>>

----------------------------------------------------------------------------
(* The supervisor of the output.                                           *)

\* onOutStart, first half: CurrentHeaders waits for the timeline.
Connect ==
  /\ out = 0 /\ ~snap.on /\ conns < MaxConns /\ todo = <<>>
  /\ snap' = [on |-> TRUE, headers |-> hdr]
  /\ conns' = conns + 1
  /\ UNCHANGED <<writer, wire>> /\ UNCHANGED timelineVars /\ UNCHANGED sinkVars

\* onOutStart, second half.
Attach ==
  /\ snap.on
  /\ snap' = NoSnap
  /\ out' = conns /\ seed' = snap.headers /\ gen' = TRUE
  /\ queue' = <<>>
  /\ wire' = IF snap.headers # hdr THEN [wire EXCEPT !.lost = @ \cup {"attach"}] ELSE wire
  /\ UNCHANGED <<overflow, closed, conns, writer>> /\ UNCHANGED timelineVars

\* The connection has ended (OnExit of the supervisor).
Detach ==
  /\ out # 0
  /\ out' = 0 /\ gen' = TRUE
  /\ queue' = <<>>
  /\ wire' = NewWire
  /\ UNCHANGED <<seed, overflow, closed, conns, snap, writer>>
  /\ UNCHANGED timelineVars

\* The platform is removed: its output was stopped, and nothing is offered to it.
Close ==
  /\ out = 0 /\ ~snap.on
  /\ closed' = TRUE
  /\ UNCHANGED <<out, seed, gen, queue, overflow, conns, snap, writer, wire>>
  /\ UNCHANGED timelineVars

----------------------------------------------------------------------------
(* The writer goroutine.                                                   *)

\* Plausible defect: the writer goes on where the queue was cleared.
RefreshedIgnoringOverflow(w) ==
  IF gen THEN [w EXCEPT !.out = out, !.headers = seed, !.started = FALSE, !.tracks = {}] ELSE w

\* Plausible defect: the writer goes on with the connection it had.
RefreshedKeepsConnection(w) ==
  IF gen \/ overflow THEN [w EXCEPT !.headers = seed, !.started = FALSE, !.tracks = {}] ELSE w

\* Another connection, or a queue that was cleared: begin with a keyframe again.
Refreshed(w) ==
  LET v == IF gen THEN [w EXCEPT !.out = out, !.headers = seed] ELSE w
  IN IF gen \/ overflow THEN [v EXCEPT !.started = FALSE, !.tracks = {}] ELSE v

Take ==
  /\ writer.item = NoTag /\ queue # <<>>
  /\ writer' = [Refreshed(writer) EXCEPT !.item = Head(queue)]
  /\ queue' = Tail(queue)
  /\ gen' = FALSE /\ overflow' = FALSE
  /\ UNCHANGED <<out, seed, closed, conns, snap, wire>> /\ UNCHANGED timelineVars

\* The header is kept whether or not the stream has begun.
Cached(w, t) == IF t.kind = "header" THEN [w EXCEPT !.headers[t.track] = t.conf] ELSE w

Begins(w, t) == ~w.started /\ t.kind = "key" /\ t.track = "video"

\* A header of a stream that has not begun, a frame before the canonical keyframe
\* and a rung before a keyframe of its own are held back.
Passes(w, t) ==
  \/ Begins(w, t)
  \/ /\ w.started
     /\ t.kind = "delta" => t.track \in w.tracks

Forwarded(w, t) ==
  [Cached(w, t) EXCEPT !.item = NoTag, !.started = @ \/ Begins(w, t),
                       !.tracks = IF t.kind = "key" /\ Passes(w, t) THEN @ \cup {t.track} ELSE @]

\* What the connection has after the tag: its file header and the cached headers
\* before the first keyframe, the tag, and no frame across a gap.
Given(x, w, t) ==
  LET begun == IF Begins(w, t)
               THEN [x EXCEPT !.began = TRUE, !.sound = {},
                              !.said = [k \in Tracks |-> IF w.headers[k] = NoConf THEN @[k]
                                                         ELSE w.headers[k]]]
               ELSE x
  IN IF t.kind = "header" THEN [begun EXCEPT !.said[t.track] = t.conf, !.sound = @ \ {t.track}]
     ELSE IF t.kind = "key" THEN [begun EXCEPT !.sound = @ \cup {t.track}] ELSE begun

\* The connection was not told the parameters of the frame, or has no keyframe to
\* decode it from.
Undecodable(x, t) ==
  t.kind # "header" /\ (x.said[t.track] # t.conf \/ t.track \notin x.sound \/ ~x.began)

\* The connection the writer writes to is still there.
Heard == writer.out = out /\ out # 0

AfterTag ==
  LET before == IF writer.item.gap THEN [wire EXCEPT !.sound = {}] ELSE wire
  IN IF Passes(writer, writer.item) THEN Given(before, writer, writer.item) ELSE before

\* forwardTag, outside the lock: a connection that has ended by now swallows it.
Write ==
  /\ writer.item # NoTag
  /\ writer' = Forwarded(writer, writer.item)
  /\ wire' = IF Heard THEN AfterTag ELSE wire
  /\ UNCHANGED <<conns, snap>> /\ UNCHANGED timelineVars /\ UNCHANGED sinkVars

----------------------------------------------------------------------------
Timeline == Open \/ Offer \/ \E k \in Tracks, kind \in {"key", "delta"} : Frame(k, kind)
Supervisor == Connect \/ Attach \/ Detach \/ Close
Writer == Take \/ Write

SinkNext == ~closed /\ (Timeline \/ Supervisor \/ Writer)

SinkSpec == SinkInit /\ [][SinkNext]_outputVars

----------------------------------------------------------------------------
(* Properties.                                                             *)

\* A tag reaches the connection it was offered for, or none: what was queued for a
\* connection that broke is never given to the next one (Attach, Detach, run).
RightConnection == writer.item # NoTag => writer.item.for = writer.out

\* The tag in the writer's hands is a frame its connection cannot decode.
GivesUndecodable ==
  /\ writer.item # NoTag /\ Heard
  /\ Passes(writer, writer.item) /\ Undecodable(AfterTag, writer.item)

\* Everything a connection is given can be decoded, through reconnects, cuts and
\* cleared queues, as long as no header was cleared from the queue and none came
\* between CurrentHeaders and Attach.
Decodable == GivesUndecodable => wire.lost # {}

\* Said of the program, and not so (see the README): after a full queue was
\* cleared the output synchronises again on the next keyframe.
ResyncDecodable == GivesUndecodable => wire.lost # {"overflow"}

============================================================================
