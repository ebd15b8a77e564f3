------------------------------- MODULE MCWire -------------------------------
(* What stands between the program and the platforms and media server, for TLC:
   an RTMP publication, the chunk stream under it, the demultiplexer of the SRT
   read-back, the router behind it, the Enhanced Broadcasting exchange. They share no
   state in these modules, so that one of them moves in each behaviour and Init
   chooses which. *)
EXTENDS EBArm, Router, Chunks

CONSTANTS Servers, Refusals, MaxPings, MaxTags
VARIABLES stage, streamID, dead, closed, reader, writer, tearing, up, down, half, lost,
          stuck, kind, server, created, tags, pings, pongs, sent

Publish == INSTANCE Publish

\* A server whose replies carry no transaction is not one that answers
\* releaseStream as well.
ThreeServers == [ids : BOOLEAN, answers : BOOLEAN] \ {[ids |-> FALSE, answers |-> TRUE]}

CONSTANTS Listed, AllVideo, Wrap, FirstTimes, MaxUnits, Shapes, Steps
VARIABLES now, last, units, left, patParsed, pmtParsed, roles, pes, known, unwrap, base,
          demuxTags, flushed

Demux == INSTANCE Demux WITH tags <- demuxTags

\* A second canvas in HEVC beside the streams that are demultiplexed.
ThreeStreams == <<[pid |-> 10, type |-> "h264"], [pid |-> 11, type |-> "aac"],
                  [pid |-> 12, type |-> "hevc"]>>

Shape(later, with, frames, packets) ==
  [later |-> later, params |-> with, frames |-> frames, packets |-> packets]
SixShapes == [h264 |-> {Shape(8, 1, 1, 2), Shape(0, 0, 1, 1), Shape(0, 2, 1, 1)},
              aac |-> {Shape(0, 1, 2, 2), Shape(0, 2, 1, 1)},
              hevc |-> {Shape(8, 1, 1, 1)}, other |-> {}]

Full == [size |-> 1080, fps |-> 60]
Low == [size |-> 720, fps |-> 30]

\* A ladder, and the same upside down.
TwoLadders == {<<Full, Low>>, <<Low, Full>>}

Two == [audio_tracks |-> 2, rungs |-> 1, eb |-> FALSE]
Canvas == [audio_tracks |-> 1, rungs |-> 2, eb |-> TRUE]
To(type, vod, video) == [type |-> type, vod_track |-> vod, video |-> video]

\* One of two tracks, both of them, slots of an SRT output, a ladder and one of its rungs.
FivePipelines ==
  {<<Two, To("rtmp", FALSE, 0)>>, <<Two, To("rtmp", TRUE, 0)>>, <<Two, To("srt", FALSE, 0)>>,
   <<Canvas, To("rtmp", FALSE, -1)>>, <<Canvas, To("rtmp", FALSE, 1)>>}
TwoMaps == {<<0, Unmapped>>, <<1, 0>>}

ASSUME ConstantsAssumption == Publish!Assumptions /\ Demux!Assumptions

VARIABLES part,    \* which of them moves
          traffic  \* of the chunk streams: "interleaved", the server alone on two
                   \* streams, or "both ways", the server on one and the program

publishVars == <<stage, streamID, dead, closed, reader, writer, tearing, up, down, half, lost,
                 stuck, kind, server, created, tags, pings, pongs, sent>>
demuxVars == <<now, last, units, left, patParsed, pmtParsed, roles, pes, known, unwrap, base,
               demuxTags, flushed>>
MCvars == <<publishVars, chunksVars, demuxVars, vars, routerVars, part, traffic>>

\* The kind of a server that says nothing.
Silent == [ids |-> FALSE, answers |-> FALSE]

MCInit ==
  /\ part \in {"publish", "chunks", "demux", "eb", "router"}
  /\ Publish!Init /\ ChunksInit /\ Demux!Init /\ Init /\ RouterInit
  /\ traffic \in (IF part = "chunks" THEN {"interleaved", "both ways"} ELSE {"none"})
  /\ (part # "publish" => kind = Silent)
  /\ (part # "demux" => now = CHOOSE t \in FirstTimes : TRUE)
  /\ (part # "router" => source = Canvas /\ platform.video = 1)

Within(t) ==
  IF t = "interleaved" THEN written = <<>> ELSE \A i \in DOMAIN begun : begun[i].csid = 2

\* Of Enhanced Broadcasting one thing goes wrong: an exchange fails, a session expires or a
\* passport is misread.
MCNext ==
  /\ UNCHANGED <<part, traffic>>
  /\ \/ part = "publish" /\ Publish!Next /\ UNCHANGED <<chunksVars, demuxVars, vars, routerVars>>
     \/ part = "chunks" /\ ChunksNext /\ Within(traffic)'
        /\ UNCHANGED <<publishVars, demuxVars, vars, routerVars>>
     \/ part = "demux" /\ Demux!Next /\ UNCHANGED <<publishVars, chunksVars, vars, routerVars>>
     \/ part = "eb" /\ Next /\ fails' + expired' + Cardinality(misread') < 2
        /\ UNCHANGED <<publishVars, chunksVars, demuxVars, routerVars>>
     \/ part = "router" /\ RouterNext /\ UNCHANGED <<publishVars, chunksVars, demuxVars, vars>>

MCSpec == MCInit /\ [][MCNext]_MCvars

\* A connection ends for a reason (Publish).
EndsForAReason == Publish!EndsForAReason

\* What comes out of the demultiplexer is what went in (Demux).
Faithful == Demux!Faithful

=============================================================================
