-------------------------------- MODULE Demux --------------------------------
(***************************************************************************)
(* The demultiplexer of the SRT read-back (wire/ts/demux.go): packets of   *)
(* several streams in, FLV tags out.                                       *)
(*                                                                         *)
(* Feed is called with what has come, in the goroutine of the reader; the  *)
(* transport neither loses nor reorders. The producer is external: tables  *)
(* now and then, and on every stream units (PES) of one or more packets    *)
(* that interleave with those of the others. A unit ends only where the    *)
(* next one of its stream begins. Time is counted modulo 2^33 ticks on the *)
(* wire, and each stream is unwrapped on its own.                          *)
(***************************************************************************)
EXTENDS Integers, Sequences, SequencesExt, FiniteSets

CONSTANTS
  Listed,      \* the PMT: a sequence of [pid, type]
  AllVideo,    \* every H.264 stream, or the first
  Wrap,        \* the ticks a timestamp on the wire can tell apart
  FirstTimes,  \* when a publication may begin, in ticks
  MaxUnits,    \* bound: units of the producer
  Shapes,      \* the units of a stream, by its type: [later, params, frames, packets]
  Steps        \* how far its clock goes from one unit to the next

Types == {"h264", "hevc", "aac", "other"}

\* What the constants are assumed to be: the PMT names each stream once, a unit of video is
\* one frame, shown when it is decoded or later, one of audio is several, none of them later.
Shape == [later : 0..(Wrap \div 2), params : Nat, frames : Nat \ {0}, packets : Nat \ {0}]
Assumptions ==
  /\ Wrap \in Nat /\ Wrap > 2 /\ Wrap % 2 = 0
  /\ FirstTimes \subseteq Nat /\ MaxUnits \in Nat /\ Steps \subseteq Nat
  /\ Listed \in Seq([pid : Nat, type : Types])
  /\ \A i, j \in DOMAIN Listed : Listed[i].pid = Listed[j].pid => i = j
  /\ Shapes \in [Types -> SUBSET Shape]
  /\ \A shape \in Shapes["h264"] : shape.frames = 1
  /\ \A shape \in Shapes["aac"] : shape.later = 0
  /\ AllVideo \in BOOLEAN

Pids == {Listed[i].pid : i \in DOMAIN Listed}
TypeOf(p) == (CHOOSE i \in DOMAIN Listed : Listed[i].pid = p)

VARIABLES
  now,         \* the producer's clock, not wrapped
  last,        \* the time of its last unit on each stream
  units,       \* its units so far: Seq of [pid, pts, dts, params, frames, packets, seen, since]
  left,        \* packets of the current unit of each stream still to come
  patParsed, pmtParsed,
  roles,       \* the streams that are demultiplexed: pid -> role
  pes,         \* the assemblers in order: Seq of [pid, buf]
  known,       \* sps and pps, aacParams: the parameters last announced, 0: none
  unwrap,      \* ptsUnwrap: key -> <<>> or <<[raw, unwrapped]>>
  base,        \* base90k: <<>> or <<tick>>
  tags,        \* the tags handed on
  flushed

producer == <<now, last, units, left>>
tables == <<patParsed, pmtParsed, roles>>
vars == <<producer, tables, pes, known, unwrap, base, tags, flushed>>

Video(p) == Listed[TypeOf(p)].type = "h264"
Keys == [pid : Pids, kind : {"p", "d"}]

Init ==
  /\ now \in FirstTimes /\ last = [p \in Pids |-> 0 - 1] /\ units = <<>>
  /\ left = [p \in Pids |-> 0]
  /\ patParsed = FALSE /\ pmtParsed = FALSE /\ roles = <<>>
  /\ pes = <<>> /\ known = [p \in Pids |-> 0] /\ unwrap = [k \in Keys |-> <<>>]
  /\ base = <<>> /\ tags = <<>> /\ flushed = FALSE

---------------------------------------------------------------------------
(* The tables *)

\* The first PAT that names a program is the one.
FeedPAT ==
  /\ ~patParsed /\ ~flushed /\ patParsed' = TRUE
  /\ UNCHANGED <<producer, pmtParsed, roles, pes, known, unwrap, base, tags, flushed>>

Before(i, t) == {j \in 1..(i - 1) : Listed[j].type = t}

\* What is demultiplexed, and under which name: video streams by their place among
\* the video streams of any codec, audio streams by their place among theirs.
Roles ==
  LET taken == {i \in DOMAIN Listed :
                  \/ Listed[i].type = "aac"
                  \/ Listed[i].type = "h264" /\ (AllVideo \/ Before(i, "h264") = {})}
      name(i) == IF Listed[i].type = "aac" THEN <<"audio", Cardinality(Before(i, "aac"))>>
                 ELSE IF AllVideo
                 THEN <<"video", Cardinality(Before(i, "h264") \cup Before(i, "hevc"))>>
                 ELSE <<"video">>
  IN [p \in {Listed[i].pid : i \in taken} |-> name(TypeOf(p))]

\* The first PMT after it; a later one changes nothing.
FeedPMT ==
  /\ patParsed /\ ~pmtParsed /\ ~flushed /\ pmtParsed' = TRUE /\ roles' = Roles
  /\ UNCHANGED <<producer, patParsed, pes, known, unwrap, base, tags, flushed>>

---------------------------------------------------------------------------
(* A unit is complete *)

\* Plausible defect: a step back is taken for a wrap.
UnwrapForward(prev, raw) ==
  IF prev = <<>> THEN raw ELSE prev[1].unwrapped + ((raw - prev[1].raw) % Wrap)

\* ptsUnwrapper: the shorter way round.
Unwrap(prev, raw) ==
  IF prev = <<>> THEN raw
  ELSE LET delta == (raw - prev[1].raw) % Wrap
       IN prev[1].unwrapped + (IF delta > Wrap \div 2 THEN delta - Wrap ELSE delta)

Unwrapped(key, raw) == Unwrap(unwrap[key], raw)
Remember(key, raw) == <<[raw |-> raw, unwrapped |-> Unwrapped(key, raw)]>>

Tag(p, what, ts, cts, unit, params) ==
  [role |-> roles[p], what |-> what, ts |-> ts, cts |-> cts, unit |-> unit, params |-> params]

\* Plausible defect: the parameter sets are announced once.
AnnouncesFirst(p, params) == params # 0 /\ known[p] = 0

\* A configuration goes out when the parameter sets are not those of before.
Announces(p, params) == params # 0 /\ params # known[p]

\* handleVideo: the base is the first decoding time; a composition offset is never
\* negative.
HandleVideo(p, u) ==
  LET unit == units[u]
      kp == [pid |-> p, kind |-> "p"]
      kd == [pid |-> p, kind |-> "d"]
      dts == Unwrapped(kd, unit.dts % Wrap)
      zero == IF base = <<>> THEN dts ELSE base[1]
      cts == Unwrapped(kp, unit.pts % Wrap) - dts
      frame == Tag(p, "frame", dts - zero, IF cts < 0 THEN 0 ELSE cts, u, 0)
  IN [unwrap |-> [unwrap EXCEPT ![kp] = Remember(kp, unit.pts % Wrap), ![kd] = Remember(kd, unit.dts % Wrap)],
      base |-> <<zero>>,
      known |-> [known EXCEPT ![p] = IF Announces(p, unit.params) THEN unit.params ELSE @],
      tags |-> (IF Announces(p, unit.params)
                THEN <<Tag(p, "config", dts - zero, 0, u, unit.params)>> ELSE <<>>) \o <<frame>>]

\* handleAudio: the frames of a unit follow one another at the sampling rate; one that
\* did not come whole is left out.
HandleAudio(p, u, came) ==
  LET unit == units[u]
      k == [pid |-> p, kind |-> "p"]
      pts == Unwrapped(k, unit.pts % Wrap)
      zero == IF base = <<>> THEN pts ELSE base[1]
      frames == IF came = unit.packets THEN unit.frames ELSE unit.frames - 1
      says == frames > 0 /\ Announces(p, unit.params)
  IN [unwrap |-> [unwrap EXCEPT ![k] = Remember(k, unit.pts % Wrap)],
      base |-> <<zero>>,
      known |-> [known EXCEPT ![p] = IF says THEN unit.params ELSE @],
      tags |-> (IF says THEN <<Tag(p, "config", pts - zero, 0, u, unit.params)>> ELSE <<>>)
               \o [i \in 1..frames |-> Tag(p, "frame", pts - zero + i - 1, 0, u, 0)]]

\* finalizePES, handleES: what was put together is one unit from its first packet on,
\* anything else is thrown away.
Finalized(e) ==
  LET u == e.buf[1].unit
      one == e.buf[1].first /\ \A i \in DOMAIN e.buf : e.buf[i].unit = u
  IN IF ~one THEN [unwrap |-> unwrap, base |-> base, known |-> known, tags |-> <<>>]
     ELSE IF Video(e.pid) THEN HandleVideo(e.pid, u) ELSE HandleAudio(e.pid, u, Len(e.buf))

Finalize(e) ==
  LET r == Finalized(e)
  IN unwrap' = r.unwrap /\ base' = r.base /\ known' = r.known /\ tags' = tags \o r.tags

Keep == UNCHANGED <<unwrap, base, known, tags>>
OpenAt(p) == {i \in DOMAIN pes : pes[i].pid = p}

\* Plausible defect: the assembler of the unit before stays in the list.
RemovedKept(i) == pes

\* removePES: out of the order of the units as well.
Removed(i) == RemoveAt(pes, i)

\* The first packet of a unit ends the one before.
BeginPES(p, piece) ==
  LET unit == [pid |-> p, buf |-> <<piece>>]
  IN IF OpenAt(p) = {} THEN Keep /\ pes' = Append(pes, unit)
     ELSE \E i \in OpenAt(p) : Finalize(pes[i]) /\ pes' = Append(Removed(i), unit)

\* Any other packet is added to the unit of its stream, if there is one.
ContinuePES(p, piece) ==
  /\ Keep
  /\ pes' = [i \in DOMAIN pes |->
               IF pes[i].pid = p THEN [pes[i] EXCEPT !.buf = Append(@, piece)] ELSE pes[i]]

\* feedPacket: only what the PMT has named is looked at.
FeedPacket(p, piece) ==
  IF p \notin DOMAIN roles THEN Keep /\ UNCHANGED pes
  ELSE IF piece.first THEN BeginPES(p, piece) ELSE ContinuePES(p, piece)

\* Plausible defect: the last unit of a stream is left where it is.
FlushNothing == FALSE

\* Flush when the reader ends, wherever that is: one stream after the other, in the
\* order their units began.
Flushing == pes # <<>>

Flush ==
  /\ (Flushing \/ ~flushed) /\ flushed' = TRUE
  /\ IF Flushing THEN Finalize(Head(pes)) /\ pes' = Tail(pes) ELSE Keep /\ UNCHANGED pes
  /\ UNCHANGED <<producer, tables>>

---------------------------------------------------------------------------
(* The producer *)

Handed(p) == {u \in DOMAIN units : units[u].pid = p /\ units[u].seen}

\* History: the whole turns of the clock, in ticks, before the first unit of its stream that
\* the demultiplexer has seen, for the two times of a unit.
Since(p, pts, dts) ==
  IF Handed(p) = {} THEN [p |-> pts - (pts % Wrap), d |-> dts - (dts % Wrap)]
  ELSE units[CHOOSE u \in Handed(p) : TRUE].since

\* A unit of stream p begins: a video frame is shown at its decoding time or later.
ProducerBegins(p) ==
  /\ ~flushed /\ left[p] = 0 /\ Len(units) < MaxUnits
  /\ now' \in {now + s : s \in Steps} /\ now' > last[p]
  /\ \E shape \in Shapes[Listed[TypeOf(p)].type] :
       /\ last[p] >= 0 => now' + shape.later - last[p] <= Wrap \div 2
       /\ LET u == [pid |-> p, pts |-> now' + shape.later, dts |-> now', params |-> shape.params,
                    frames |-> shape.frames, packets |-> shape.packets, seen |-> p \in DOMAIN roles,
                    since |-> Since(p, now' + shape.later, now')]
          IN units' = Append(units, u)
       /\ left' = [left EXCEPT ![p] = shape.packets - 1]
  /\ last' = [last EXCEPT ![p] = now']

UnitBegins(p) ==
  /\ ProducerBegins(p)
  /\ FeedPacket(p, [unit |-> Len(units'), first |-> TRUE])
  /\ UNCHANGED <<tables, flushed>>

UnitContinues(p) ==
  /\ ~flushed /\ left[p] > 0 /\ left' = [left EXCEPT ![p] = @ - 1]
  /\ LET u == CHOOSE u \in DOMAIN units :
                /\ units[u].pid = p
                /\ \A v \in DOMAIN units : units[v].pid = p => v <= u
     IN FeedPacket(p, [unit |-> u, first |-> FALSE])
  /\ UNCHANGED <<now, last, units, tables, flushed>>

Next == FeedPAT \/ FeedPMT \/ Flush \/ \E p \in Pids : UnitBegins(p) \/ UnitContinues(p)
Spec == Init /\ [][Next]_vars

---------------------------------------------------------------------------
(* Properties *)

\* Type invariant.
TypeOK ==
  /\ {patParsed, pmtParsed, flushed} \subseteq BOOLEAN /\ (pmtParsed => patParsed)
  /\ DOMAIN roles \subseteq Pids /\ (roles # <<>> => pmtParsed)
  /\ \A i, j \in DOMAIN pes : pes[i].pid = pes[j].pid => i = j
  /\ \A i \in DOMAIN pes : pes[i].pid \in DOMAIN roles /\ pes[i].buf # <<>>
  /\ Len(units) <= MaxUnits /\ Range(left) \subseteq 0..1
  /\ \A i \in DOMAIN tags : tags[i].ts \in Int /\ tags[i].cts \in Nat /\ tags[i].unit \in DOMAIN units

\* Every packet of the unit has come.
Came(u) == left[units[u].pid] = 0 \/ \E v \in DOMAIN units : v > u /\ units[v].pid = units[u].pid
Frames == {i \in DOMAIN tags : tags[i].what = "frame"}

\* Frame k among those of its unit.
Nth(k) == Cardinality({m \in Frames : m < k /\ tags[m].unit = tags[k].unit})
Apart(i, j) ==
  (tags[i].ts - Nth(i)) - (tags[j].ts - Nth(j)) = units[tags[i].unit].dts - units[tags[j].unit].dts
ShownInTime(i) == tags[i].cts = units[tags[i].unit].pts - units[tags[i].unit].dts

\* Every stream is put on one time line: two frames are as far apart as they were
\* made, whatever their streams and however often the clock has wrapped, and a frame
\* is shown when it was meant to be (demux.go: ptsUnwrapper, toMS).
Aligned == \A i, j \in Frames : Apart(i, j) /\ ShownInTime(i)

\* It is so of frames of one stream, and of two that were first seen in the same turn of the
\* clock; a frame is shown when it was meant to be unless the clock has wrapped between the
\* two times of the first unit of its stream.
AlignedInTurn ==
  \A i, j \in Frames :
    LET since == units[tags[i].unit].since
    IN /\ since.d = units[tags[j].unit].since.d => Apart(i, j)
       /\ since.p = since.d => ShownInTime(i)

\* The configuration that precedes a frame is the one of its unit's parameter sets, or
\* the last ones its stream was given (demux.go: handleVideo).
Described ==
  \A i \in Frames :
    LET u == tags[i].unit
        given == {v \in DOMAIN units : v <= u /\ units[v].pid = units[u].pid /\ units[v].seen /\ units[v].params # 0}
        said == {j \in 1..i : tags[j].what = "config" /\ tags[j].role = tags[i].role}
        latest(S) == CHOOSE x \in S : \A y \in S : y <= x
    IN given # {} =>
         said # {} /\ tags[latest(said)].params = units[latest(given)].params

\* Every unit of a stream that began after the PMT and came whole is handed on, all of
\* it and in order, at the latest when the reader ends (demux.go: feedPES, Flush).
NothingLost ==
  /\ \A u \in DOMAIN units : units[u].seen /\ Came(u) /\ flushed /\ ~Flushing =>
       Cardinality({i \in Frames : tags[i].unit = u}) = units[u].frames
  /\ \A i, j \in Frames : i < j /\ tags[i].role = tags[j].role => tags[i].unit <= tags[j].unit

\* What comes out is what went in: on one time line where the streams were first seen in one
\* turn of the clock, described, and all of it.
Faithful == AlignedInTurn /\ Described /\ NothingLost
=============================================================================
