--------------------------- MODULE SwitcherProofs ---------------------------
(***************************************************************************)
(* No cut of the timeline is swallowed by the guards that outlive it, and  *)
(* what is given out can be decoded, for every set of tracks, every step   *)
(* and every length of the runs; and behind the switcher whoever listens   *)
(* to a lane of an output can decode what the router sends there. The two  *)
(* share no state.                                                         *)
(***************************************************************************)
EXTENDS Switcher, Router, TLAPS

TlType ==
  [source : Sources \cup {"none"}, last : Nat, offset : Int, wait : BOOLEAN,
   started : SUBSET Tracks, trackOut : [Tracks -> Int]]

FeedType ==
  [run : Nat, conf : Confs \cup {BackupConf}, said : SUBSET Tracks, keyed : SUBSET Tracks,
   next : [Tracks -> Nat]]

TagType ==
  [kind : {"header", "key", "delta"}, track : Tracks, conf : Confs \cup {BackupConf},
   ts : Nat, run : Nat]

\* What TracksBehind leans on: the times of feeds and tags are natural numbers.
IInv ==
  /\ tl \in TlType
  /\ feed \in [Sources -> FeedType]
  /\ hand \in [Sources -> TagType \cup {NoTag}]
  /\ TracksBehind

\* A tag is told from its absence by its fields.
LEMMA Tags == \A t \in TagType : t # NoTag
<1> SUFFICES ASSUME NEW t \in TagType PROVE t # NoTag
  OBVIOUS
<1>1. t.kind # "none"
  BY DEF TagType
<1> QED BY <1>1 DEF NoTag

LEMMA Initially == Init => IInv
<1> SUFFICES ASSUME Init PROVE IInv
  OBVIOUS
<1> USE BoundsAssumption DEF Init, NewTimeline
<1>1. tl \in TlType
  BY DEF TlType, Sources, Tracks
<1>2. feed \in [Sources -> FeedType]
  BY DEF FeedType, NoRun
<1>3. hand \in [Sources -> TagType \cup {NoTag}]
  OBVIOUS
<1>4. TracksBehind
  BY DEF TracksBehind
<1> QED BY <1>1, <1>2, <1>3, <1>4 DEF IInv

\* Arrival of a tag at the timeline keeps the tracks behind it.
LEMMA ArriveBehind ==
  ASSUME IInv, NEW s \in Sources
  PROVE  /\ Arrive(s) \in TlType
         /\ Arrive(s).trackOut = tl.trackOut
         /\ \A k \in Tracks : Arrive(s).trackOut[k] <= Arrive(s).last
<1> USE StepAssumption
<1>1. CASE tl.source = s
  BY <1>1 DEF IInv, Arrive, TracksBehind
<1>2. CASE tl.source # s
  <2>1. Arrive(s) = [tl EXCEPT !.source = s, !.last = tl.last + Step, !.wait = TRUE]
    BY <1>2 DEF Arrive
  <2>2. tl \in TlType
    BY DEF IInv
  <2>3. Arrive(s) \in TlType
    <3>1. tl.last + Step \in Nat /\ s \in Sources \cup {"none"} /\ TRUE \in BOOLEAN
      BY <2>2 DEF TlType
    <3> QED BY <2>1, <2>2, <3>1 DEF TlType
  <2>4. Arrive(s).trackOut = tl.trackOut /\ Arrive(s).last = tl.last + Step
    BY <2>1, <2>2 DEF TlType
  <2>5. ASSUME NEW k \in Tracks PROVE tl.trackOut[k] <= tl.last + Step
    <3>1. tl.trackOut[k] <= tl.last
      BY DEF IInv, TracksBehind
    <3>2. tl.trackOut[k] \in Int /\ tl.last \in Nat
      BY <2>2 DEF TlType
    <3> QED BY <3>1, <3>2
  <2> QED BY <2>3, <2>4, <2>5
<1> QED BY <1>1, <1>2

\* What a write makes of a timeline x on which the tracks are behind.
LEMMA WriteBehind ==
  ASSUME NEW x \in TlType, NEW t \in TagType,
         \A k \in Tracks : x.trackOut[k] <= x.last
  PROVE  /\ Anchor(x, t) \in TlType
         /\ Anchor(x, t).trackOut = x.trackOut /\ Anchor(x, t).last = x.last
         /\ Enter(x, t) \in TlType
         /\ Enter(x, t).trackOut = x.trackOut /\ Enter(x, t).last = x.last
         /\ Given(x, t) \in TlType
         /\ \A k \in Tracks : Given(x, t).trackOut[k] <= Given(x, t).last
<1> USE StepAssumption
<1>1. Anchor(x, t) \in TlType
  <2>1. x.last - t.ts + Step \in Int /\ {"video"} \in SUBSET Tracks
    BY DEF TlType, TagType, Tracks
  <2> QED BY <2>1 DEF Anchor, TlType
<1>2. Anchor(x, t).trackOut = x.trackOut /\ Anchor(x, t).last = x.last
  BY DEF Anchor, TlType
<1>3. Enter(x, t) \in TlType /\ Enter(x, t).trackOut = x.trackOut /\ Enter(x, t).last = x.last
  <2>1. x.started \cup {t.track} \in SUBSET Tracks
    BY DEF TlType, TagType
  <2>2. Enter(x, t) \in {x, [x EXCEPT !.started = x.started \cup {t.track}]}
    BY DEF Enter
  <2> QED BY <2>1, <2>2 DEF TlType
<1>4. OutTS(x, t) \in Nat
  BY DEF OutTS, AtLeast0, TlType, TagType
<1> DEFINE o == OutTS(x, t)
           v == IF t.kind = "header" THEN x.trackOut[t.track] ELSE o
           f == [x.trackOut EXCEPT ![t.track] = v]
<1>5. x \in TlType /\ x.trackOut \in [Tracks -> Int] /\ x.last \in Nat /\ t.track \in Tracks
  BY DEF TlType, TagType
<1>6. Given(x, t) = [x EXCEPT !.trackOut = f, !.last = Later(x.last, o)]
  BY DEF Given
<1>7. /\ Later(x.last, o) \in Nat
      /\ Later(x.last, o) >= x.last /\ Later(x.last, o) >= o
  BY <1>4, <1>5 DEF Later
<1>8. v \in Int /\ f \in [Tracks -> Int]
  BY <1>4, <1>5
<1> HIDE DEF f
<1>9. Given(x, t).trackOut = f /\ Given(x, t).last = Later(x.last, o)
  BY <1>6 DEF TlType
<1>10. Given(x, t) \in TlType
  BY <1>6, <1>7, <1>8 DEF TlType
<1>11. ASSUME NEW k \in Tracks PROVE Given(x, t).trackOut[k] <= Given(x, t).last
  <2>1. x.trackOut[k] \in Int /\ x.trackOut[k] <= x.last
    BY <1>5
  <2>2. f[k] \in {x.trackOut[k], o}
    BY <1>5 DEF f
  <2> QED BY <2>1, <2>2, <1>4, <1>5, <1>7, <1>9
<1> QED BY <1>1, <1>2, <1>3, <1>10, <1>11

LEMMA WriteKeeps ==
  ASSUME IInv, NEW s \in Sources, Write(s)
  PROVE  IInv'
<1> DEFINE t == hand[s]
           a == Arrive(s)
           b == IF a.wait /\ Ready(t) THEN Anchor(a, t) ELSE a
           x == Enter(b, t)
<1>1. t \in TagType
  BY DEF IInv, Write
<1>2. a \in TlType /\ \A k \in Tracks : a.trackOut[k] <= a.last
  BY ArriveBehind
<1>3. b \in TlType /\ \A k \in Tracks : b.trackOut[k] <= b.last
  BY <1>1, <1>2, WriteBehind
<1>4. x \in TlType /\ \A k \in Tracks : x.trackOut[k] <= x.last
  BY <1>1, <1>3, WriteBehind
<1>5. Given(x, t) \in TlType /\ \A k \in Tracks : Given(x, t).trackOut[k] <= Given(x, t).last
  BY <1>1, <1>4, WriteBehind
<1>6. tl' \in {a, x, Given(x, t)}
  BY DEF Write
<1>7. tl' \in TlType /\ TracksBehind'
  BY <1>2, <1>4, <1>5, <1>6 DEF TracksBehind
<1>8. feed' = feed /\ hand' = [hand EXCEPT ![s] = NoTag]
  BY DEF Write
<1> QED BY <1>7, <1>8 DEF IInv

\* The tags a feed may send, and what sending one makes of it.
LEMMA Sending ==
  ASSUME IInv, NEW s \in Sources, NEW t \in NextTags(s)
  PROVE  t \in TagType /\ Sent(feed[s], t) \in FeedType
<1>1. feed[s] \in FeedType
  BY DEF IInv
<1>2. PICK kind \in {"header", "key", "delta"}, k \in Tracks :
        t = [kind |-> kind, track |-> k, conf |-> feed[s].conf, ts |-> feed[s].next[k],
             run |-> feed[s].run]
  BY DEF NextTags
<1>3. t \in TagType
  BY <1>1, <1>2 DEF FeedType, TagType
<1>4. Sent(feed[s], t) \in FeedType
  <2> DEFINE n == [feed[s].next EXCEPT ![t.track] = feed[s].next[t.track] + 1]
             y == IF t.kind = "key" THEN feed[s].keyed \cup {t.track} ELSE feed[s].keyed
  <2>1. n \in [Tracks -> Nat] /\ y \in SUBSET Tracks
    BY <1>1, <1>3 DEF FeedType, TagType
  <2>2. CASE t.kind = "header"
    <3>1. feed[s].said \cup {t.track} \in SUBSET Tracks
      BY <1>1, <1>3 DEF FeedType, TagType
    <3> QED BY <1>1, <2>2, <3>1 DEF Sent, FeedType
  <2>3. CASE t.kind # "header"
    <3>1. Sent(feed[s], t) = [feed[s] EXCEPT !.keyed = y, !.next = n]
      BY <1>1, <2>3 DEF Sent, FeedType
    <3> HIDE DEF n, y
    <3> QED BY <1>1, <2>1, <3>1 DEF FeedType
  <2> QED BY <2>2, <2>3
<1> QED BY <1>3, <1>4

LEMMA Inductive == IInv /\ [Next]_vars => IInv'
<1> SUFFICES ASSUME IInv, [Next]_vars PROVE IInv'
  OBVIOUS
<1> USE DEF IInv
<1>1. CASE GoLive
  BY <1>1 DEF GoLive, TracksBehind
<1>2. CASE Fallback
  BY <1>2 DEF Fallback, TracksBehind
<1>3. CASE RequestSwitch
  BY <1>3 DEF RequestSwitch, TracksBehind
<1>4. CASE SwitchedParamsChanged
  BY <1>4 DEF SwitchedParamsChanged, TracksBehind
<1>5. CASE Reset
  <2>1. tl' = NewTimeline
    BY <1>5 DEF Reset
  <2>2. tl' \in TlType /\ TracksBehind'
    BY <2>1 DEF NewTimeline, TlType, TracksBehind, Sources
  <2>3. feed' \in [Sources -> FeedType]
    <3>1. feed' = [s \in Sources |-> NoRun(feed[s].run)]
      BY <1>5 DEF Reset
    <3>2. \A s \in Sources : NoRun(feed[s].run) \in FeedType
      BY BoundsAssumption DEF NoRun, FeedType
    <3> QED BY <3>1, <3>2
  <2>4. hand' \in [Sources -> TagType \cup {NoTag}]
    <3>1. hand' = [s \in Sources |-> FromBefore(hand[s])]
      BY <1>5 DEF Reset
    <3>2. \A s \in Sources : FromBefore(hand[s]) \in TagType \cup {NoTag}
      BY DEF FromBefore, TagType
    <3> QED BY <3>1, <3>2
  <2> QED BY <2>2, <2>3, <2>4
<1>6. ASSUME NEW s \in Sources, StartRun(s) PROVE IInv'
  <2>1. PICK c \in (IF s = "relay" THEN Confs ELSE {BackupConf}) :
          feed' = [feed EXCEPT ![s] =
            [run |-> feed[s].run + 1, conf |-> c, said |-> {}, keyed |-> {},
             next |-> [k \in Tracks |-> 0]]]
    BY <1>6 DEF StartRun
  <2>2. feed' \in [Sources -> FeedType]
    BY <2>1 DEF FeedType
  <2> QED BY <1>6, <2>2 DEF StartRun, TracksBehind
<1>7. ASSUME NEW s \in Sources, Read(s) PROVE IInv'
  <2>1. PICK t \in NextTags(s) :
          /\ feed' = [feed EXCEPT ![s] = Sent(feed[s], t)]
          /\ hand' = [hand EXCEPT ![s] = IF active' = s THEN t ELSE NoTag]
    BY <1>7 DEF Read
  <2>2. t \in TagType /\ Sent(feed[s], t) \in FeedType
    BY <2>1, Sending
  <2>3. feed' \in [Sources -> FeedType] /\ hand' \in [Sources -> TagType \cup {NoTag}]
    BY <2>1, <2>2
  <2> QED BY <1>7, <2>3 DEF Read, TracksBehind
<1>8. ASSUME NEW s \in Sources, Write(s) PROVE IInv'
  BY <1>8, WriteKeeps
<1>9. CASE UNCHANGED vars
  BY <1>9 DEF vars, TracksBehind
<1> QED BY <1>1, <1>2, <1>3, <1>4, <1>5, <1>6, <1>7, <1>8, <1>9 DEF Next, Machine

\* The keyframe of a cut lies a step after the timeline, hence after every track.
LEMMA FirstKeyframe == IInv => CutIsHeard
<1> SUFFICES ASSUME IInv, NEW s \in Sources, hand[s] # NoTag, Arrive(s).wait, Ready(hand[s])
             PROVE  ~Swallowed(Anchor(Arrive(s), hand[s]), hand[s])
  BY DEF CutIsHeard
<1> DEFINE t == hand[s]
           a == Arrive(s)
<1> USE StepAssumption
<1>1. t \in TagType
  BY DEF IInv
<1>2. a \in TlType /\ a.trackOut[t.track] <= a.last
  BY <1>1, ArriveBehind DEF TagType
<1>3. /\ Anchor(a, t).trackOut = a.trackOut
      /\ Anchor(a, t).offset = a.last - t.ts + Step
  BY <1>2 DEF Anchor, TlType
<1>4. OutTS(Anchor(a, t), t) = a.last + Step
  BY <1>1, <1>2, <1>3 DEF OutTS, AtLeast0, TagType, TlType
<1>5. a.trackOut[t.track] \in Int /\ a.last \in Nat
  BY <1>1, <1>2 DEF TlType, TagType
<1> QED BY <1>2, <1>3, <1>4, <1>5 DEF Swallowed

\* The guards per track never run ahead of the timeline, cuts, returns and resets included
\* (Process, Reset).
THEOREM Behind == Spec => []TracksBehind
<1>1. IInv => TracksBehind
  BY DEF IInv
<1> QED BY <1>1, Initially, Inductive, PTL DEF Spec

\* The keyframe that opens a stretch passes the guard of its track, whatever was given out
\* before it (Process).
THEOREM CutHeard == Spec => []CutIsHeard
BY Initially, Inductive, FirstKeyframe, PTL DEF Spec

----------------------------------------------------------------------------
(* What is given out can be decoded.                                       *)

WireType ==
  [said : Headers, sound : SUBSET Tracks, anchor : Nat, relay : Confs \cup {BackupConf, NoConf}]

\* The headers a source sent in its run are stored, and so is that of the tag it has between
\* the two locks.
Stocked(s) ==
  /\ feed[s].keyed \subseteq feed[s].said
  /\ \A k \in feed[s].said : hdr[s][k] = feed[s].conf
  /\ hand[s] # NoTag /\ hand[s].run # 0 => hdr[s][hand[s].track] = hand[s].conf

\* The tag a source has between the locks was the last one its run sent.
LastSent(s) ==
  LET t == hand[s] f == feed[s]
  IN t # NoTag =>
       /\ t.run <= f.run
       /\ t.run # 0 /\ t.run = f.run =>
            /\ t.conf = f.conf /\ t.track \in f.said
            /\ t.kind = "header" => t.track \notin f.keyed
            /\ t.kind = "key" => t.track \in f.keyed
            /\ t.kind # "header" => t.ts < f.next[t.track]
            /\ Ready(t) => \A k \in Rungs : t.ts < f.next[k] + Step

\* The stretch is open and has missed nothing: its run is still being sent, or its last tag is
\* between the locks.
Anchored(s) == ~tl.wait /\ tl.source = s /\ wire.anchor # 0
Sends(s) == Anchored(s) /\ feed[s].run = wire.anchor
Holds(s) == Anchored(s) /\ hand[s] # NoTag /\ hand[s].run = wire.anchor

\* Whatever the run sends next can be decoded, and is not swallowed.
SendsSound(s) ==
  LET f == feed[s]
  IN /\ Anchored(s) => wire.anchor <= f.run
     /\ Sends(s) =>
          /\ hand[s] # NoTag => hand[s].run = wire.anchor
          /\ \A k \in f.said :
               wire.said[k] = f.conf \/ (hand[s] # NoTag /\ hand[s].kind = "header" /\ hand[s].track = k)
          /\ \A k \in tl.started : k \in wire.sound /\ k \in f.keyed
          /\ \A k \in {"video"} \cup Rungs : tl.trackOut[k] <= AtLeast0(f.next[k] + tl.offset)

HoldsSound(s) ==
  LET t == hand[s]
  IN Holds(s) /\ t.kind # "header" =>
       /\ wire.said[t.track] = t.conf
       /\ IsVideo(t.track) => tl.trackOut[t.track] <= OutTS(tl, t)
       /\ t.track \in tl.started => t.track \in wire.sound

\* What makes Decodable inductive: what is stored, what was sent last, what is between the locks
\* and what the run may send next.
DecInv ==
  /\ wire \in WireType /\ hdr \in [Sources -> Headers] /\ Decodable
  /\ \A s \in Sources : Stocked(s) /\ LastSent(s) /\ SendsSound(s) /\ HoldsSound(s)

LEMMA DecodesInitially == Init => DecInv
<1> SUFFICES ASSUME Init PROVE DecInv
  OBVIOUS
<1>1. wire \in WireType /\ hdr \in [Sources -> Headers] /\ Decodable
  BY DEF Init, NewWire, WireType, NoHeaders, Headers, Decodable
<1>2. ASSUME NEW s \in Sources PROVE Stocked(s) /\ LastSent(s) /\ SendsSound(s) /\ HoldsSound(s)
  BY <1>2 DEF Init, NoRun, NewWire, Stocked, LastSent, SendsSound, HoldsSound, Sends, Holds, Anchored
<1> QED BY <1>1, <1>2 DEF DecInv

\* The machine moves the switches, and lets the outputs reconnect.
LEMMA SwitchesKeep ==
  ASSUME IInv, DecInv, UNCHANGED <<feed, hand, hdr, tl, mishaps>>, wire' \in WireType,
         wire'.said = wire.said, wire'.anchor = wire.anchor, wire.sound \subseteq wire'.sound
  PROVE  DecInv'
<1>1. ASSUME NEW s \in Sources
      PROVE  Stocked(s)' /\ LastSent(s)' /\ SendsSound(s)' /\ HoldsSound(s)'
  <2>1. Stocked(s)' /\ LastSent(s)'
    BY DEF DecInv, Stocked, LastSent
  <2>2. (Anchored(s)' <=> Anchored(s)) /\ (Sends(s)' <=> Sends(s)) /\ (Holds(s)' <=> Holds(s))
    BY DEF Anchored, Sends, Holds
  <2>3. SendsSound(s)'
    BY <2>2 DEF DecInv, SendsSound
  <2>4. HoldsSound(s)'
    BY <2>2 DEF DecInv, HoldsSound, OutTS
  <2> QED BY <2>1, <2>3, <2>4
<1> QED BY <1>1 DEF DecInv, Decodable

LEMMA ResetDecodes == ASSUME IInv, DecInv, Reset PROVE DecInv'
<1>1. wire' = NewWire /\ hdr' = [s \in Sources |-> NoHeaders] /\ mishaps' = mishaps
      /\ feed' = [s \in Sources |-> NoRun(feed[s].run)]
      /\ hand' = [s \in Sources |-> FromBefore(hand[s])]
  BY DEF Reset
<1>2. wire' \in WireType /\ hdr' \in [Sources -> Headers] /\ Decodable'
  BY <1>1 DEF NewWire, WireType, NoHeaders, Headers, Decodable, DecInv
<1>3. ASSUME NEW s \in Sources
      PROVE  Stocked(s)' /\ LastSent(s)' /\ SendsSound(s)' /\ HoldsSound(s)'
  <2>1. wire'.anchor = 0
    BY <1>1 DEF NewWire
  <2>2. hand'[s] # NoTag => hand'[s].run = 0
    BY <1>1 DEF FromBefore, IInv, TagType
  <2>3. feed'[s] = NoRun(feed[s].run) /\ feed'[s].run \in Nat /\ feed'[s].said = {} /\ feed'[s].keyed = {}
    BY <1>1 DEF NoRun, IInv, FeedType
  <2> QED BY <2>1, <2>2, <2>3 DEF Stocked, LastSent, SendsSound, HoldsSound, Sends, Holds, Anchored
<1> QED BY <1>2, <1>3 DEF DecInv

LEMMA StartRunDecodes == ASSUME IInv, DecInv, NEW z \in Sources, StartRun(z) PROVE DecInv'
<1>1. PICK c \in Confs \cup {BackupConf} :
        feed' = [feed EXCEPT ![z] =
          [run |-> feed[z].run + 1, conf |-> c, said |-> {}, keyed |-> {}, next |-> [k \in Tracks |-> 0]]]
  BY DEF StartRun
<1>2. UNCHANGED <<hand, hdr, tl, wire, mishaps>>
  BY DEF StartRun
<1>3. ASSUME NEW s \in Sources
      PROVE  Stocked(s)' /\ LastSent(s)' /\ SendsSound(s)' /\ HoldsSound(s)'
  <2>1. HoldsSound(s)'
    BY <1>2 DEF DecInv, HoldsSound, Holds, Anchored, OutTS
  <2>2. Anchored(s)' <=> Anchored(s)
    BY <1>2 DEF Anchored
  <2>3. CASE s # z
    <3>1. feed'[s] = feed[s]
      BY <1>1, <2>3 DEF IInv
    <3> QED BY <1>2, <2>1, <2>2, <3>1 DEF DecInv, Stocked, LastSent, SendsSound, Sends
  <2>4. CASE s = z
    <3>1. /\ feed'[s].run = feed[s].run + 1 /\ feed'[s].said = {} /\ feed'[s].keyed = {}
          /\ feed[s].run \in Nat
      BY <1>1, <2>4 DEF IInv, FeedType
    <3>2. Stocked(s)'
      BY <1>2, <3>1 DEF DecInv, Stocked
    <3>3. hand[s] # NoTag => hand[s].run <= feed[s].run /\ hand[s].run \in Nat
      BY DEF DecInv, LastSent, IInv, TagType
    <3>4. LastSent(s)'
      BY <1>2, <3>1, <3>3 DEF LastSent
    <3>5. Anchored(s) => wire.anchor <= feed[s].run /\ wire.anchor \in Nat
      BY DEF DecInv, SendsSound, WireType
    <3>6. SendsSound(s)'
      BY <1>2, <2>2, <3>1, <3>5 DEF SendsSound, Sends
    <3> QED BY <2>1, <3>2, <3>4, <3>6
  <2> QED BY <2>3, <2>4
<1> QED BY <1>2, <1>3 DEF DecInv, Decodable

\* What a feed may send next.
LEMMA NextIs ==
  ASSUME IInv, NEW s \in Sources, feed[s].keyed \subseteq feed[s].said, NEW t \in NextTags(s)
  PROVE  /\ t.run = feed[s].run /\ t.conf = feed[s].conf
         /\ t.ts = feed[s].next[t.track]
         /\ t.kind = "header" => t.track \notin feed[s].said
         /\ t.kind # "header" => t.track \in feed[s].said
         /\ t.kind = "delta" /\ IsVideo(t.track) => t.track \in feed[s].keyed
         /\ Ready(t) => \A j \in Rungs : t.ts < feed[s].next[j] + Step
<1> DEFINE f == feed[s]
           tag(kind, k) == [kind |-> kind, track |-> k, conf |-> f.conf, ts |-> f.next[k], run |-> f.run]
<1>1. CASE \E k \in Tracks \ f.said : t = tag("header", k)
  BY <1>1 DEF Ready
<1>2. CASE \E k \in Tracks : InTurn(f, k) /\ k \in f.said /\ t = tag("key", k)
  <2>1. "video" \notin Audios
    BY TracksAssumption
  <2> QED BY <1>2, <2>1 DEF Ready, InTurn, IsVideo
<1>3. CASE \E k \in f.keyed \cup (f.said \cap Audios) : t = tag("delta", k)
  <2>1. PICK k \in f.keyed \cup (f.said \cap Audios) : t = tag("delta", k)
    BY <1>3
  <2>2. k \notin f.keyed => k \in f.said /\ ~IsVideo(k)
    BY DEF IsVideo
  <2> QED BY <2>1, <2>2 DEF Ready
<1> QED BY <1>1, <1>2, <1>3 DEF NextTags

\* What sending a tag makes of the feed.
LEMMA SentIs ==
  ASSUME NEW f \in FeedType, NEW t \in TagType
  PROVE  /\ Sent(f, t).run = f.run /\ Sent(f, t).conf = f.conf
         /\ Sent(f, t).said = IF t.kind = "header" THEN f.said \cup {t.track} ELSE f.said
         /\ Sent(f, t).keyed = IF t.kind = "key" THEN f.keyed \cup {t.track} ELSE f.keyed
         /\ Sent(f, t).next =
              IF t.kind = "header" THEN f.next ELSE [f.next EXCEPT ![t.track] = @ + 1]
BY DEF Sent, FeedType, TagType

LEMMA ReadDecodes == ASSUME IInv, DecInv, NEW z \in Sources, Read(z) PROVE DecInv'
<1> DEFINE f == feed[z]
<1>1. PICK t \in NextTags(z) :
        /\ feed' = [feed EXCEPT ![z] = Sent(f, t)]
        /\ hdr' = [hdr EXCEPT ![z] = Stored(t, hdr[z])]
        /\ hand' = [hand EXCEPT ![z] = IF active' = z THEN t ELSE NoTag]
        /\ wire' = IF active' # z /\ tl.source = z THEN Missed(wire, t) ELSE wire
  BY DEF Read
<1>2. hand[z] = NoTag /\ UNCHANGED <<tl, mishaps>>
  BY DEF Read
<1>3. f \in FeedType /\ t \in TagType /\ Sent(f, t) \in FeedType /\ f.keyed \subseteq f.said
  BY <1>1, Sending DEF IInv, DecInv, Stocked
<1>4. /\ t.run = f.run /\ t.conf = f.conf /\ t.ts = f.next[t.track]
      /\ t.kind = "header" => t.track \notin f.said
      /\ t.kind # "header" => t.track \in f.said
      /\ t.kind = "delta" /\ IsVideo(t.track) => t.track \in f.keyed
      /\ Ready(t) => \A j \in Rungs : t.ts < f.next[j] + Step
  BY <1>1, <1>3, NextIs
<1>5. t.track \in Tracks /\ t.conf \in Confs \cup {BackupConf} /\ t.ts \in Nat /\ t.run \in Nat
      /\ t # NoTag
  BY <1>3, Tags DEF TagType
<1>6. hdr' \in [Sources -> Headers] /\ wire' \in WireType
  <2>1. hdr \in [Sources -> Headers] /\ wire \in WireType
    BY DEF DecInv
  <2>2. Stored(t, hdr[z]) \in Headers
    BY <1>5, <2>1 DEF Stored, Headers
  <2>3. Missed(wire, t) \in WireType
    BY <2>1 DEF Missed, WireType
  <2> QED BY <1>1, <2>1, <2>2, <2>3
<1>7. ASSUME NEW s \in Sources, s # z
      PROVE  Stocked(s)' /\ LastSent(s)' /\ SendsSound(s)' /\ HoldsSound(s)'
  <2>1. feed'[s] = feed[s] /\ hand'[s] = hand[s] /\ hdr'[s] = hdr[s]
    BY <1>1, <1>7 DEF IInv, DecInv
  <2>2. wire' = wire \/ ~Anchored(s)'
    BY <1>1, <1>2, <1>7 DEF Anchored
  <2>3. Stocked(s)' /\ LastSent(s)'
    BY <2>1 DEF DecInv, Stocked, LastSent
  <2>4. SendsSound(s)'
    BY <1>2, <2>1, <2>2 DEF DecInv, SendsSound, Sends, Anchored
  <2>5. HoldsSound(s)'
    BY <1>2, <2>1, <2>2 DEF DecInv, HoldsSound, Holds, Anchored, OutTS
  <2> QED BY <2>3, <2>4, <2>5
<1>8. /\ feed'[z] = Sent(f, t) /\ hand'[z] \in {t, NoTag} /\ hdr'[z] = Stored(t, hdr[z])
      /\ wire' # wire => wire'.anchor = 0
      /\ hand'[z] = NoTag /\ tl.source = z => wire'.anchor = 0
  <2>1. Missed(wire, t).anchor = 0
    BY DEF Missed, DecInv, WireType
  <2> QED BY <1>1, <1>5, <2>1 DEF IInv, DecInv
<1>9. /\ feed'[z].run = f.run /\ feed'[z].conf = f.conf
      /\ feed'[z].said = IF t.kind = "header" THEN f.said \cup {t.track} ELSE f.said
      /\ feed'[z].keyed = IF t.kind = "key" THEN f.keyed \cup {t.track} ELSE f.keyed
      /\ feed'[z].next = IF t.kind = "header" THEN f.next ELSE [f.next EXCEPT ![t.track] = @ + 1]
  <2>1. /\ Sent(f, t).run = f.run /\ Sent(f, t).conf = f.conf
        /\ Sent(f, t).said = IF t.kind = "header" THEN f.said \cup {t.track} ELSE f.said
        /\ Sent(f, t).keyed = IF t.kind = "key" THEN f.keyed \cup {t.track} ELSE f.keyed
        /\ Sent(f, t).next = IF t.kind = "header" THEN f.next ELSE [f.next EXCEPT ![t.track] = @ + 1]
    BY <1>3, SentIs
  <2> HIDE DEF f
  <2> QED BY <1>8, <2>1
<1>10. \A k \in Tracks : f.next[k] \in Nat /\ feed'[z].next[k] \in Nat /\ f.next[k] <= feed'[z].next[k]
  BY <1>3, <1>9 DEF FeedType
<1>11. Stocked(z)'
  <2>1. /\ hdr'[z][t.track] = t.conf
        /\ \A k \in f.said : hdr'[z][k] = f.conf
    BY <1>3, <1>4, <1>5, <1>8 DEF Stored, DecInv, Stocked, Headers, FeedType
  <2> QED BY <1>3, <1>4, <1>8, <1>9, <2>1 DEF Stocked
<1>12. LastSent(z)'
  <2>1. t.kind # "header" => t.ts < feed'[z].next[t.track]
    BY <1>3, <1>4, <1>5, <1>9 DEF FeedType
  <2>2. Ready(t) => \A j \in Rungs : t.ts < feed'[z].next[j] + Step
    <3> SUFFICES ASSUME Ready(t), NEW j \in Rungs PROVE t.ts < feed'[z].next[j] + Step
      OBVIOUS
    <3>1. j \in Tracks
      BY DEF Tracks
    <3>2. f.next[j] \in Nat /\ feed'[z].next[j] \in Nat /\ f.next[j] <= feed'[z].next[j]
      BY <1>10, <3>1
    <3>3. t.ts < f.next[j] + Step
      BY <1>4
    <3> QED BY <1>5, <3>2, <3>3, StepAssumption
  <2> QED BY <1>3, <1>4, <1>5, <1>8, <1>9, <2>1, <2>2 DEF LastSent
<1>13. Anchored(z)' => Anchored(z) /\ wire' = wire /\ hand'[z] = t
  BY <1>2, <1>8 DEF Anchored
<1>14. SendsSound(z)'
  <2>1. Anchored(z)' => wire'.anchor <= feed'[z].run
    BY <1>9, <1>13 DEF DecInv, SendsSound
  <2>2. SUFFICES ASSUME Sends(z)'
                 PROVE  /\ hand'[z] # NoTag => hand'[z].run = wire'.anchor
                        /\ \A k \in feed'[z].said : wire'.said[k] = feed'[z].conf
                             \/ (hand'[z] # NoTag /\ hand'[z].kind = "header" /\ hand'[z].track = k)
                        /\ \A k \in tl'.started : k \in wire'.sound /\ k \in feed'[z].keyed
                        /\ \A k \in {"video"} \cup Rungs :
                             tl'.trackOut[k] <= AtLeast0(feed'[z].next[k] + tl'.offset)
    BY <2>1 DEF SendsSound
  <2>3. Sends(z) /\ wire' = wire /\ hand'[z] = t /\ tl' = tl
    BY <1>2, <1>9, <1>13, <2>2 DEF Sends
  <2>4. /\ \A k \in f.said : wire.said[k] = f.conf
        /\ \A k \in tl.started : k \in wire.sound /\ k \in f.keyed
        /\ \A k \in {"video"} \cup Rungs : tl.trackOut[k] <= AtLeast0(f.next[k] + tl.offset)
    BY <1>2, <2>3 DEF DecInv, SendsSound
  <2>5. t.run = wire.anchor
    BY <1>4, <2>3 DEF Sends
  <2>6. ASSUME NEW k \in {"video"} \cup Rungs
        PROVE  tl.trackOut[k] <= AtLeast0(feed'[z].next[k] + tl.offset)
    <3>1. k \in Tracks /\ tl.offset \in Int /\ tl.trackOut[k] \in Int
      BY DEF Tracks, IInv, TlType
    <3>2. f.next[k] \in Nat /\ feed'[z].next[k] \in Nat /\ f.next[k] <= feed'[z].next[k]
      BY <1>10, <3>1
    <3>3. tl.trackOut[k] <= AtLeast0(f.next[k] + tl.offset)
      BY <2>4
    <3> QED BY <3>1, <3>2, <3>3 DEF AtLeast0
  <2> QED BY <1>5, <1>9, <2>3, <2>4, <2>5, <2>6
<1>15. HoldsSound(z)'
  <2> SUFFICES ASSUME Holds(z)', hand'[z].kind # "header"
               PROVE  /\ wire'.said[hand'[z].track] = hand'[z].conf
                      /\ IsVideo(hand'[z].track) => tl'.trackOut[hand'[z].track] <= OutTS(tl', hand'[z])
                      /\ hand'[z].track \in tl'.started => hand'[z].track \in wire'.sound
    BY DEF HoldsSound, OutTS
  <2>1. Anchored(z) /\ wire' = wire /\ hand'[z] = t /\ tl' = tl
    BY <1>2, <1>13 DEF Holds
  <2>2. Sends(z)
    BY <1>4, <2>1 DEF Holds, Sends
  <2>3. /\ \A k \in f.said : wire.said[k] = f.conf
        /\ \A k \in tl.started : k \in wire.sound /\ k \in f.keyed
        /\ \A k \in {"video"} \cup Rungs : tl.trackOut[k] <= AtLeast0(f.next[k] + tl.offset)
    BY <1>2, <2>2 DEF DecInv, SendsSound
  <2>4. IsVideo(t.track) => t.track \in {"video"} \cup Rungs
    BY <1>5 DEF IsVideo, Tracks
  <2> QED BY <1>4, <2>1, <2>3, <2>4 DEF OutTS
<1>16. ASSUME NEW s \in Sources
       PROVE  Stocked(s)' /\ LastSent(s)' /\ SendsSound(s)' /\ HoldsSound(s)'
  BY <1>7, <1>11, <1>12, <1>14, <1>15
<1> QED BY <1>2, <1>6, <1>16 DEF DecInv, Decodable

\* What giving a tag out makes of the history of the outputs, and of the timeline.
LEMMA HeardIs ==
  ASSUME NEW w \in WireType, NEW t \in TagType
  PROVE  /\ Heard(w, t) \in WireType /\ Heard(w, t).anchor = w.anchor
         /\ t.kind = "header" => /\ Heard(w, t).said = [w.said EXCEPT ![t.track] = t.conf]
                                 /\ Heard(w, t).sound = w.sound \ {t.track}
         /\ t.kind # "header" => /\ Heard(w, t).said = w.said
                                 /\ w.sound \subseteq Heard(w, t).sound
         /\ t.kind # "header" /\ (t.kind = "key" \/ ~IsVideo(t.track)) => t.track \in Heard(w, t).sound
<1> DEFINE g == [w.said EXCEPT ![t.track] = t.conf]
           d == w.sound \cup {t.track}
           e == w.sound \ {t.track}
<1>1. t.track \in Tracks /\ t.conf \in Confs \cup {BackupConf} /\ t.run \in Nat
  BY DEF TagType
<1>2. g \in Headers /\ d \in SUBSET Tracks /\ e \in SUBSET Tracks
  BY <1>1 DEF WireType, Headers
<1>3. t.kind = "header" => Told(w, t) = [w EXCEPT !.said = g, !.sound = e]
  BY DEF Told, WireType
<1>4. t.kind # "header" => Told(w, t) \in {w, [w EXCEPT !.sound = d]}
  BY DEF Told
<1>5. t.kind # "header" /\ (t.kind = "key" \/ ~IsVideo(t.track)) => Told(w, t) = [w EXCEPT !.sound = d]
  BY DEF Told
<1> HIDE DEF g, d, e
<1>6. Told(w, t) \in WireType /\ Told(w, t).anchor = w.anchor
  BY <1>2, <1>3, <1>4 DEF WireType
<1>7. /\ t.kind = "header" => Told(w, t).said = g /\ Told(w, t).sound = e
      /\ t.kind # "header" => Told(w, t).said = w.said /\ (Told(w, t).sound = w.sound \/ Told(w, t).sound = d)
      /\ t.kind # "header" /\ (t.kind = "key" \/ ~IsVideo(t.track)) => Told(w, t).sound = d
  BY <1>3, <1>4, <1>5 DEF WireType
<1>8. /\ Heard(w, t) \in WireType
      /\ Heard(w, t).anchor = w.anchor
      /\ Heard(w, t).said = Told(w, t).said
      /\ Heard(w, t).sound = Told(w, t).sound
  <2>1. PICK r \in Confs \cup {BackupConf, NoConf} : Heard(w, t) = [Told(w, t) EXCEPT !.relay = r]
    BY <1>1, <1>6 DEF Heard, WireType
  <2> QED BY <1>6, <2>1 DEF WireType
<1> QED BY <1>7, <1>8 DEF g, d, e

LEMMA GivenIs ==
  ASSUME NEW x \in TlType, NEW t \in TagType
  PROVE  /\ Given(x, t).source = x.source /\ Given(x, t).wait = x.wait
         /\ Given(x, t).started = x.started /\ Given(x, t).offset = x.offset
         /\ t.kind = "header" => Given(x, t).trackOut = x.trackOut
         /\ t.kind # "header" => Given(x, t).trackOut = [x.trackOut EXCEPT ![t.track] = OutTS(x, t)]
<1> DEFINE o == OutTS(x, t)
           f == [x.trackOut EXCEPT ![t.track] = IF t.kind = "header" THEN x.trackOut[t.track] ELSE o]
<1>1. Given(x, t) = [x EXCEPT !.trackOut = f, !.last = Later(x.last, o)]
  BY DEF Given
<1>2. /\ t.kind = "header" => f = x.trackOut
      /\ t.kind # "header" => f = [x.trackOut EXCEPT ![t.track] = o]
  BY DEF TlType
<1> HIDE DEF f
<1> QED BY <1>1, <1>2 DEF TlType

\* A stretch opened by the keyframe t of source z.
LEMMA OpenedIs ==
  ASSUME IInv, DecInv, NEW z \in Sources, hand[z] # NoTag, Arrive(z).wait, Ready(hand[z]),
         NEW x, x = Enter(Anchor(Arrive(z), hand[z]), hand[z]),
         NEW w, w = Opened(wire, z, hand[z])
  PROVE  /\ x \in TlType /\ x.started = {"video"} /\ x.source = z
         /\ x.offset = Arrive(z).last - hand[z].ts + Step
         /\ x.last = Arrive(z).last /\ x.trackOut = Arrive(z).trackOut
         /\ ~x.wait
         /\ ~Swallowed(x, hand[z])
         /\ ~HeldBack(x, hand[z])
         /\ w \in WireType /\ w.anchor = hand[z].run
         /\ \A k \in Tracks : hdr[z][k] # NoConf => w.said[k] = hdr[z][k]
<1> DEFINE t == hand[z]
           a == Arrive(z)
           y == Anchor(a, t)
<1>1. t \in TagType /\ t.kind = "key" /\ t.track = "video" /\ t.run \in Nat
  BY DEF IInv, Ready, TagType
<1>2. a \in TlType /\ (\A k \in Tracks : a.trackOut[k] <= a.last) /\ a.source = z
  BY ArriveBehind DEF Arrive, IInv, TlType
<1>3. y \in TlType /\ y.trackOut = a.trackOut /\ y.last = a.last
      /\ Enter(y, t) \in TlType /\ Enter(y, t).trackOut = y.trackOut /\ Enter(y, t).last = y.last
  BY <1>1, <1>2, WriteBehind
<1>4. /\ y.started = {"video"} /\ y.source = z /\ ~y.wait
      /\ y.offset = a.last - t.ts + Step
  BY <1>2 DEF Anchor, TlType
<1>5. x = [y EXCEPT !.started = {"video"}]
  BY <1>1, <1>4, TracksAssumption DEF Enter, IsVideo
<1>6. /\ x \in TlType /\ x.started = {"video"} /\ x.source = z /\ ~x.wait
      /\ x.offset = a.last - t.ts + Step
      /\ x.last = a.last /\ x.trackOut = a.trackOut
  BY <1>3, <1>4, <1>5 DEF TlType
<1>7. ~Swallowed(y, t)
  BY FirstKeyframe DEF CutIsHeard
<1>8. ~Swallowed(x, t)
  BY <1>3, <1>4, <1>6, <1>7 DEF Swallowed, OutTS
<1>9. ~HeldBack(x, t)
  BY <1>1 DEF HeldBack
<1>10. w \in WireType /\ w.anchor = t.run
       /\ \A k \in Tracks : hdr[z][k] # NoConf => w.said[k] = hdr[z][k]
  <2> DEFINE g == [k \in Tracks |-> IF hdr[z][k] = NoConf THEN wire.said[k] ELSE hdr[z][k]]
  <2>1. wire \in WireType /\ hdr[z] \in Headers
    BY DEF DecInv
  <2>2. g \in Headers
    BY <2>1 DEF WireType, Headers
  <2>3. \A k \in Tracks : hdr[z][k] # NoConf => g[k] = hdr[z][k]
    OBVIOUS
  <2>4. w = [wire EXCEPT !.said = g, !.sound = {}, !.anchor = t.run]
    BY DEF Opened
  <2> HIDE DEF g
  <2> QED BY <1>1, <2>1, <2>2, <2>3, <2>4 DEF WireType
<1> QED BY <1>6, <1>8, <1>9, <1>10

\* After a write the timeline is of its source, which has no tag between the locks.
LEMMA OnlyWhoWrites ==
  ASSUME IInv, DecInv, NEW z \in Sources, UNCHANGED <<feed, hdr>>,
         hand' = [hand EXCEPT ![z] = NoTag], tl'.source = z, wire' \in WireType, Decodable',
         SendsSound(z)'
  PROVE  DecInv'
<1>1. hand'[z] = NoTag
  BY DEF IInv
<1>2. Stocked(z)' /\ LastSent(z)' /\ HoldsSound(z)'
  BY <1>1 DEF DecInv, Stocked, LastSent, HoldsSound, Holds
<1>3. ASSUME NEW s \in Sources, s # z
      PROVE  Stocked(s)' /\ LastSent(s)' /\ SendsSound(s)' /\ HoldsSound(s)'
  <2>1. hand'[s] = hand[s]
    BY <1>3 DEF IInv
  <2>2. ~Anchored(s)'
    BY <1>3 DEF Anchored
  <2> QED BY <2>1, <2>2 DEF DecInv, Stocked, LastSent, SendsSound, HoldsSound, Sends, Holds
<1>4. ASSUME NEW s \in Sources
      PROVE  Stocked(s)' /\ LastSent(s)' /\ SendsSound(s)' /\ HoldsSound(s)'
  BY <1>2, <1>3
<1> QED BY <1>4 DEF DecInv

\* The keyframe that opens a stretch: the stored headers of its run are said first.
LEMMA OpeningDecodes ==
  ASSUME IInv, DecInv, NEW z \in Sources, Write(z), Arrive(z).wait, Ready(hand[z])
  PROVE  DecInv'
<1> DEFINE t == hand[z]
           a == Arrive(z)
           f == feed[z]
<1>1. PICK x : x = Enter(Anchor(a, t), t)
  OBVIOUS
<1>2. PICK w : w = Opened(wire, z, t)
  OBVIOUS
<1>3. t # NoTag /\ t \in TagType /\ t.kind = "key" /\ t.track = "video"
  BY DEF Write, IInv, Ready
<1>4. /\ x \in TlType /\ x.started = {"video"} /\ x.source = z
      /\ x.offset = a.last - t.ts + Step
      /\ x.last = a.last /\ x.trackOut = a.trackOut
      /\ ~x.wait
      /\ ~Swallowed(x, t)
      /\ ~HeldBack(x, t)
      /\ w \in WireType /\ w.anchor = t.run
      /\ \A k \in Tracks : hdr[z][k] # NoConf => w.said[k] = hdr[z][k]
  BY <1>1, <1>2, <1>3, OpenedIs
<1>5. /\ tl' = Given(x, t) /\ wire' = Heard(w, t)
      /\ mishaps' = mishaps
           \cup (IF Undecodable(w, t) THEN {"undecodable"} ELSE {})
           \cup (IF Torn(w, t) THEN {"torn"} ELSE {})
  BY <1>1, <1>2, <1>4 DEF Write
<1>6. UNCHANGED <<feed, hdr>> /\ hand' = [hand EXCEPT ![z] = NoTag]
  BY DEF Write
<1>7. /\ t.ts \in Nat /\ t.run \in Nat /\ t.conf \in Confs \cup {BackupConf} /\ t.conf # NoConf
      /\ "video" \in Tracks
  BY <1>3, ConfsAssumption DEF TagType, NoConf, BackupConf, Tracks
<1>8. /\ wire' \in WireType /\ wire'.anchor = t.run /\ wire'.said = w.said
      /\ "video" \in wire'.sound
  <2>1. w \in WireType /\ t.kind # "header"
    BY <1>3, <1>4
  <2>2. /\ Heard(w, t) \in WireType /\ Heard(w, t).anchor = w.anchor
        /\ Heard(w, t).said = w.said
        /\ t.track \in Heard(w, t).sound
    BY <1>3, <2>1, HeardIs
  <2> QED BY <1>3, <1>4, <1>5, <2>2
<1>9. /\ tl'.source = z /\ ~tl'.wait /\ tl'.started = {"video"}
      /\ tl'.offset = a.last - t.ts + Step
      /\ tl'.trackOut = [a.trackOut EXCEPT !["video"] = OutTS(x, t)]
  BY <1>3, <1>4, <1>5, GivenIs
<1>10. ~Undecodable(w, t)
  <2>1. t.run # 0 => w.said["video"] = t.conf
    BY <1>3, <1>4, <1>7 DEF DecInv, Stocked
  <2> QED BY <1>3, <2>1 DEF Undecodable
<1>11. Decodable'
  BY <1>5, <1>10 DEF Decodable, DecInv
<1>12. SendsSound(z)'
  <2>1. Anchored(z)' => wire'.anchor <= feed'[z].run
    BY <1>3, <1>6, <1>8 DEF DecInv, LastSent
  <2>2. SUFFICES ASSUME Sends(z)'
                 PROVE  /\ hand'[z] # NoTag => hand'[z].run = wire'.anchor
                        /\ \A k \in feed'[z].said : wire'.said[k] = feed'[z].conf
                             \/ (hand'[z] # NoTag /\ hand'[z].kind = "header" /\ hand'[z].track = k)
                        /\ \A k \in tl'.started : k \in wire'.sound /\ k \in feed'[z].keyed
                        /\ \A k \in {"video"} \cup Rungs :
                             tl'.trackOut[k] <= AtLeast0(feed'[z].next[k] + tl'.offset)
    BY <2>1 DEF SendsSound
  <2>3. t.run = f.run /\ t.run # 0
    BY <1>6, <1>8, <2>2 DEF Sends, Anchored
  <2>4. /\ "video" \in f.keyed /\ t.ts < f.next["video"] 
        /\ \A k \in Rungs : t.ts < f.next[k] + Step
    BY <1>3, <2>3 DEF DecInv, LastSent
  <2>5. hand'[z] = NoTag /\ f \in FeedType
    BY <1>6 DEF IInv
  <2>6. ASSUME NEW k \in f.said PROVE wire'.said[k] = f.conf
    <3>1. hdr[z][k] = f.conf /\ f.conf # NoConf /\ k \in Tracks
      BY <2>5, ConfsAssumption DEF DecInv, Stocked, FeedType, NoConf, BackupConf
    <3> QED BY <1>4, <1>8, <3>1
  <2>7. ASSUME NEW k \in {"video"} \cup Rungs
        PROVE  tl'.trackOut[k] <= AtLeast0(f.next[k] + tl'.offset)
    <3>1. a \in TlType /\ \A j \in Tracks : a.trackOut[j] <= a.last
      BY ArriveBehind
    <3>2. k \in Tracks /\ a.trackOut[k] \in Int /\ a.last \in Nat /\ f.next[k] \in Nat
          /\ a.trackOut \in [Tracks -> Int]
      BY <2>5, <3>1 DEF Tracks, TlType, FeedType
    <3>3. a.trackOut[k] <= a.last
      BY <3>1, <3>2
    <3>4. CASE k = "video"
      <4>1. OutTS(x, t) = AtLeast0(t.ts + (a.last - t.ts + Step))
        BY <1>4 DEF OutTS
      <4>2. tl'.trackOut[k] = OutTS(x, t)
        BY <1>9, <3>2, <3>4
      <4>3. t.ts < f.next[k]
        BY <2>4, <3>4
      <4> QED BY <1>7, <1>9, <3>2, <4>1, <4>2, <4>3, StepAssumption DEF AtLeast0
    <3>5. CASE k # "video"
      <4>1. tl'.trackOut[k] = a.trackOut[k]
        BY <1>9, <3>2, <3>5
      <4>2. t.ts < f.next[k] + Step
        BY <2>4, <3>5
      <4> QED BY <1>7, <1>9, <3>2, <3>3, <4>1, <4>2, StepAssumption DEF AtLeast0
    <3> QED BY <3>4, <3>5
  <2> QED BY <1>6, <1>8, <1>9, <2>4, <2>5, <2>6, <2>7
<1> QED BY <1>6, <1>8, <1>9, <1>11, <1>12, OnlyWhoWrites

\* A tag of the stretch that is open: x is the timeline with the rung it may bring back.
LEMMA WithinIs ==
  ASSUME IInv, DecInv, NEW z \in Sources, hand[z] # NoTag, tl.source = z, ~tl.wait,
         NEW x, x = Enter(tl, hand[z])
  PROVE  /\ x \in TlType /\ x.source = tl.source /\ x.wait = tl.wait /\ x.offset = tl.offset
         /\ x.trackOut = tl.trackOut
         /\ hand[z].kind # "key" => x = tl
         /\ hand[z].kind = "key" => x.started \subseteq tl.started \cup {hand[z].track}
         /\ x.started \subseteq tl.started \/ (hand[z].kind = "key" /\ IsVideo(hand[z].track))
         /\ ~IsVideo(hand[z].track) => x = tl
         /\ OutTS(x, hand[z]) = OutTS(tl, hand[z])
<1> DEFINE t == hand[z]
           e == tl.started \cup {t.track}
<1>1. t \in TagType /\ tl \in TlType
  BY DEF IInv
<1>2. e \in SUBSET Tracks
  BY <1>1 DEF TlType, TagType
<1>3. x = IF t.kind = "key" /\ IsVideo(t.track) THEN [tl EXCEPT !.started = e] ELSE tl
  BY DEF Enter
<1> HIDE DEF e
<1>4. CASE x = tl
  BY <1>1, <1>4
<1>5. CASE t.kind = "key" /\ IsVideo(t.track) /\ x = [tl EXCEPT !.started = e]
  BY <1>1, <1>2, <1>5 DEF TlType, OutTS, e
<1> QED BY <1>3, <1>4, <1>5

\* The stretch misses nothing that the outputs hear of.
LEMMA WithinDecodes ==
  ASSUME IInv, DecInv, NEW z \in Sources, Write(z), ~Arrive(z).wait
  PROVE  DecInv'
<1> DEFINE t == hand[z]
           f == feed[z]
<1>1. tl.source = z /\ ~tl.wait /\ Arrive(z) = tl
  BY DEF Arrive, IInv, TlType
<1>2. PICK x : x = Enter(tl, t)
  OBVIOUS
<1>3. t # NoTag /\ t \in TagType /\ f \in FeedType /\ wire \in WireType
  BY DEF Write, IInv, DecInv
<1>4. /\ x \in TlType /\ x.source = tl.source /\ x.wait = tl.wait /\ x.offset = tl.offset
      /\ x.trackOut = tl.trackOut
      /\ t.kind # "key" => x = tl
      /\ t.kind = "key" => x.started \subseteq tl.started \cup {t.track}
      /\ x.started \subseteq tl.started \/ (t.kind = "key" /\ IsVideo(t.track))
      /\ ~IsVideo(t.track) => x = tl
      /\ OutTS(x, t) = OutTS(tl, t)
  BY <1>1, <1>2, <1>3, WithinIs
<1>5. UNCHANGED <<feed, hdr>> /\ hand' = [hand EXCEPT ![z] = NoTag] /\ hand'[z] = NoTag
  BY DEF Write, IInv
<1>6. /\ t.ts \in Nat /\ t.run \in Nat /\ t.conf \in Confs \cup {BackupConf} /\ t.track \in Tracks
      /\ tl.offset \in Int /\ tl.trackOut \in [Tracks -> Int]
  BY <1>3 DEF TagType, IInv, TlType
<1>7. ASSUME Sends(z)
      PROVE  /\ Holds(z)
             /\ t.run = f.run /\ t.run # 0 /\ t.conf = f.conf /\ t.track \in f.said
             /\ t.kind = "header" => t.track \notin f.keyed
             /\ t.kind = "key" => t.track \in f.keyed
             /\ t.kind # "header" => t.ts < f.next[t.track]
             /\ \A k \in f.said : wire.said[k] = f.conf \/ (t.kind = "header" /\ t.track = k)
             /\ \A k \in tl.started : k \in wire.sound /\ k \in f.keyed
             /\ \A k \in {"video"} \cup Rungs : tl.trackOut[k] <= AtLeast0(f.next[k] + tl.offset)
  <2>1. /\ t.run = wire.anchor /\ f.run = wire.anchor /\ wire.anchor # 0 /\ Anchored(z)
        /\ \A k \in f.said : wire.said[k] = f.conf \/ (t.kind = "header" /\ t.track = k)
        /\ \A k \in tl.started : k \in wire.sound /\ k \in f.keyed
        /\ \A k \in {"video"} \cup Rungs : tl.trackOut[k] <= AtLeast0(f.next[k] + tl.offset)
    BY <1>3, <1>7 DEF DecInv, SendsSound, Sends, Anchored
  <2>2. Holds(z) /\ t.run = f.run /\ t.run # 0
    BY <1>3, <2>1 DEF Holds
  <2>3. /\ t.conf = f.conf /\ t.track \in f.said
        /\ t.kind = "header" => t.track \notin f.keyed
        /\ t.kind = "key" => t.track \in f.keyed
        /\ t.kind # "header" => t.ts < f.next[t.track]
    BY <1>3, <2>2 DEF DecInv, LastSent
  <2> QED BY <2>1, <2>2, <2>3
<1>8. Anchored(z) => wire.anchor <= f.run
  BY DEF DecInv, SendsSound
<1>9. CASE HeldBack(x, t)
  <2>1. x = tl /\ t.kind = "delta"
    BY <1>4, <1>9 DEF HeldBack
  <2>2. UNCHANGED <<tl, wire, mishaps>>
    BY <1>1, <1>2, <1>9, <2>1 DEF Write
  <2>3. SendsSound(z)'
    BY <1>5, <1>7, <1>8, <2>1, <2>2 DEF SendsSound, Sends, Anchored
  <2> QED BY <1>1, <1>5, <2>2, <2>3, OnlyWhoWrites DEF DecInv, Decodable
<1>10. CASE ~HeldBack(x, t) /\ Swallowed(x, t)
  <2>1. /\ tl' = x /\ wire' = wire
        /\ mishaps' \subseteq mishaps \cup {"muted"}
    BY <1>1, <1>2, <1>10 DEF Write
  <2>2. Decodable'
    BY <2>1 DEF Decodable, DecInv
  <2>3. ASSUME Holds(z) PROVE x = tl
    <3>1. t.kind # "header" /\ OutTS(x, t) < x.trackOut[t.track]
      BY <1>10 DEF Swallowed
    <3>2. IsVideo(t.track) => tl.trackOut[t.track] <= OutTS(tl, t)
      BY <2>3, <3>1 DEF DecInv, HoldsSound
    <3>3. OutTS(tl, t) \in Int /\ tl.trackOut[t.track] \in Int
      BY <1>6 DEF OutTS, AtLeast0
    <3>4. ~IsVideo(t.track)
      BY <1>4, <3>1, <3>2, <3>3
    <3> QED BY <1>4, <3>4
  <2>4. Anchored(z)' => Anchored(z)
    BY <1>1, <1>4, <2>1 DEF Anchored
  <2>5. ASSUME Sends(z)' PROVE Sends(z) /\ x = tl /\ t.kind # "header"
    <3>1. Sends(z)
      BY <1>5, <2>1, <2>4, <2>5 DEF Sends
    <3> QED BY <1>7, <1>10, <2>3, <3>1 DEF Swallowed
  <2>6. SendsSound(z)'
    BY <1>5, <1>7, <1>8, <2>1, <2>4, <2>5 DEF SendsSound
  <2>7. tl'.source = z
    BY <1>1, <1>4, <2>1
  <2> QED BY <1>3, <1>5, <2>1, <2>2, <2>6, <2>7, OnlyWhoWrites
<1>11. CASE ~HeldBack(x, t) /\ ~Swallowed(x, t)
  <2>1. /\ tl' = Given(x, t) /\ wire' = Heard(wire, t)
        /\ mishaps' \subseteq mishaps \cup {"torn"} \cup (IF Undecodable(wire, t) THEN {"undecodable"} ELSE {})
    BY <1>1, <1>2, <1>11 DEF Write
  <2>2. /\ wire' \in WireType /\ wire'.anchor = wire.anchor
        /\ t.kind = "header" => /\ wire'.said = [wire.said EXCEPT ![t.track] = t.conf]
                                /\ wire'.sound = wire.sound \ {t.track}
        /\ t.kind # "header" => /\ wire'.said = wire.said
                                /\ wire.sound \subseteq wire'.sound
        /\ t.kind # "header" /\ (t.kind = "key" \/ ~IsVideo(t.track)) => t.track \in wire'.sound
    BY <1>3, <2>1, HeardIs
  <2>3. /\ tl'.source = z /\ ~tl'.wait /\ tl'.started = x.started /\ tl'.offset = tl.offset
        /\ t.kind = "header" => tl'.trackOut = tl.trackOut
        /\ t.kind # "header" => tl'.trackOut = [tl.trackOut EXCEPT ![t.track] = OutTS(tl, t)]
    BY <1>1, <1>3, <1>4, <2>1, GivenIs
  <2>4. ~Undecodable(wire, t)
    <3> SUFFICES ASSUME t.kind # "header", t.run = wire.anchor, t.run # 0
                 PROVE  /\ wire.said[t.track] = t.conf
                        /\ t.kind = "delta" /\ IsVideo(t.track) => t.track \in wire.sound
      BY DEF Undecodable
    <3>1. Holds(z)
      BY <1>1, <1>3 DEF Holds, Anchored
    <3>2. wire.said[t.track] = t.conf /\ (t.track \in tl.started => t.track \in wire.sound)
      BY <3>1 DEF DecInv, HoldsSound
    <3>3. t.kind = "delta" /\ IsVideo(t.track) => t.track \in tl.started
      BY <1>4, <1>11 DEF HeldBack
    <3> QED BY <3>2, <3>3
  <2>5. Decodable'
    BY <2>1, <2>4 DEF Decodable, DecInv
  <2>6. \/ Anchored(z) /\ (Sends(z)' => Sends(z))
        \/ ~Anchored(z)'
    BY <1>1, <1>5, <2>2, <2>3 DEF Anchored, Sends
  <2>7. ASSUME Sends(z)
        PROVE  /\ \A k \in f.said : wire'.said[k] = f.conf
               /\ \A k \in tl'.started : k \in wire'.sound /\ k \in f.keyed
               /\ \A k \in {"video"} \cup Rungs : tl'.trackOut[k] <= AtLeast0(f.next[k] + tl.offset)
    <3>1. /\ t.conf = f.conf /\ t.track \in f.said
          /\ t.kind = "header" => t.track \notin f.keyed
          /\ t.kind = "key" => t.track \in f.keyed
          /\ t.kind # "header" => t.ts < f.next[t.track]
          /\ \A k \in f.said : wire.said[k] = f.conf \/ (t.kind = "header" /\ t.track = k)
          /\ \A k \in tl.started : k \in wire.sound /\ k \in f.keyed
          /\ \A k \in {"video"} \cup Rungs : tl.trackOut[k] <= AtLeast0(f.next[k] + tl.offset)
      BY <1>7, <2>7
    <3>2. ASSUME NEW k \in f.said PROVE wire'.said[k] = f.conf
      <4>1. k \in Tracks /\ wire.said \in [Tracks -> Confs \cup {BackupConf, NoConf}]
        BY <1>3 DEF FeedType, WireType, Headers
      <4> QED BY <2>2, <3>1, <4>1
    <3>3. ASSUME NEW k \in tl'.started PROVE k \in wire'.sound /\ k \in f.keyed
      <4>1. CASE t.kind = "header"
        <5>1. k \in tl.started
          BY <1>4, <2>3, <4>1
        <5>2. k \in wire.sound /\ k \in f.keyed /\ t.track \notin f.keyed
          BY <3>1, <4>1, <5>1
        <5> QED BY <2>2, <4>1, <5>2
      <4>2. CASE t.kind = "key"
        <5>1. k \in tl.started \/ k = t.track
          BY <1>4, <2>3, <4>2
        <5> QED BY <2>2, <3>1, <4>2, <5>1
      <4>3. CASE t.kind = "delta"
        <5>1. k \in tl.started
          BY <1>4, <2>3, <4>3
        <5> QED BY <2>2, <3>1, <4>3, <5>1
      <4> QED BY <1>3, <4>1, <4>2, <4>3 DEF TagType
    <3>4. ASSUME NEW k \in {"video"} \cup Rungs
          PROVE  tl'.trackOut[k] <= AtLeast0(f.next[k] + tl.offset)
      <4>1. k \in Tracks /\ f.next[k] \in Nat
        BY <1>3 DEF Tracks, FeedType
      <4>2. tl.trackOut[k] <= AtLeast0(f.next[k] + tl.offset)
        BY <3>1
      <4>3. CASE t.kind = "header" \/ k # t.track
        BY <1>6, <2>3, <4>1, <4>2, <4>3
      <4>4. CASE t.kind # "header" /\ k = t.track
        <5>1. tl'.trackOut[k] = AtLeast0(t.ts + tl.offset)
          BY <1>6, <2>3, <4>1, <4>4 DEF OutTS
        <5>2. t.ts < f.next[k]
          BY <3>1, <4>4
        <5> QED BY <1>6, <4>1, <5>1, <5>2 DEF AtLeast0
      <4> QED BY <4>3, <4>4
    <3> QED BY <3>2, <3>3, <3>4
  <2>8. SendsSound(z)'
    BY <1>5, <1>8, <2>2, <2>3, <2>6, <2>7 DEF SendsSound, Sends
  <2> QED BY <1>5, <2>2, <2>3, <2>5, <2>8, OnlyWhoWrites
<1> QED BY <1>9, <1>10, <1>11

LEMMA WriteDecodes == ASSUME IInv, DecInv, NEW z \in Sources, Write(z) PROVE DecInv'
<1>1. CASE ~Arrive(z).wait
  BY <1>1, WithinDecodes
<1>2. CASE Arrive(z).wait /\ Ready(hand[z])
  BY <1>2, OpeningDecodes
<1>3. CASE Arrive(z).wait /\ ~Ready(hand[z])
  <2>1. tl' = Arrive(z) /\ UNCHANGED <<feed, hdr, wire, mishaps>>
        /\ hand' = [hand EXCEPT ![z] = NoTag]
    BY <1>3 DEF Write
  <2>2. tl'.source = z /\ tl'.wait
    BY <1>3, <2>1 DEF Arrive, IInv, TlType
  <2>3. SendsSound(z)'
    BY <2>2 DEF SendsSound, Sends, Anchored
  <2> QED BY <2>1, <2>2, <2>3, OnlyWhoWrites DEF DecInv, Decodable
<1>4. Arrive(z).wait \in BOOLEAN
  BY ArriveBehind DEF TlType
<1> QED BY <1>1, <1>2, <1>3, <1>4

LEMMA KeepsDecodable == IInv /\ DecInv /\ [Next]_vars => DecInv'
<1> SUFFICES ASSUME IInv, DecInv, [Next]_vars PROVE DecInv'
  OBVIOUS
<1>0. wire \in WireType
  BY DEF DecInv
<1>1. CASE GoLive
  BY <1>0, <1>1, SwitchesKeep DEF GoLive
<1>2. CASE Fallback
  BY <1>0, <1>2, SwitchesKeep DEF Fallback
<1>3. CASE RequestSwitch
  BY <1>0, <1>3, SwitchesKeep DEF RequestSwitch
<1>4. CASE SwitchedParamsChanged
  <2>1. UNCHANGED <<feed, hand, hdr, tl, mishaps>>
        /\ wire' = [wire EXCEPT !.relay = NoConf, !.sound = IF tl.source = "relay" THEN Tracks ELSE wire.sound]
    BY <1>4 DEF SwitchedParamsChanged
  <2>2. wire' \in WireType /\ wire'.said = wire.said /\ wire'.anchor = wire.anchor
        /\ wire.sound \subseteq wire'.sound
    BY <1>0, <2>1 DEF WireType
  <2> QED BY <2>1, <2>2, SwitchesKeep
<1>5. CASE Reset
  BY <1>5, ResetDecodes
<1>6. ASSUME NEW z \in Sources, StartRun(z) PROVE DecInv'
  BY <1>6, StartRunDecodes
<1>7. ASSUME NEW z \in Sources, Read(z) PROVE DecInv'
  BY <1>7, ReadDecodes
<1>8. ASSUME NEW z \in Sources, Write(z) PROVE DecInv'
  BY <1>8, WriteDecodes
<1>9. CASE UNCHANGED vars
  BY <1>0, <1>9, SwitchesKeep DEF vars
<1> QED BY <1>1, <1>2, <1>3, <1>4, <1>5, <1>6, <1>7, <1>8, <1>9 DEF Next, Machine

\* Whatever the machine does between the two locks of Process, and however the relay and the player
\* overlap, a frame of the run a stretch is anchored on is given out after its header and after
\* a keyframe of its track (Process).
THEOREM GivenIsDecodable == Spec => []Decodable
<1>1. Init => IInv /\ DecInv
  BY Initially, DecodesInitially
<1>2. IInv /\ DecInv /\ [Next]_vars => (IInv /\ DecInv)'
  BY Inductive, KeepsDecodable
<1>3. IInv /\ DecInv => Decodable
  BY DEF DecInv
<1> QED BY <1>1, <1>2, <1>3, PTL DEF Spec

----------------------------------------------------------------------------
(* The router.                                                             *)

\* The parameters a track of the source was last declared with, if it was.
AudioTracks == 0..source.audio_tracks - 1
Declared(t) == t \in AudioTracks /\ said[<<"audio", t>>] # 0
Id(r) == <<r, said[r]>>
Says(hs, l, id) == l \in DOMAIN hs /\ hs[l] = id

FixtureTypes ==
  /\ source \in [audio_tracks : Nat, rungs : Nat, eb : BOOLEAN]
  /\ platform \in [type : {"rtmp", "srt"}, vod_track : BOOLEAN, video : Int]
  /\ picked.live \in Int /\ picked.vod \in Int
  /\ picked.map \in Seq(Int) /\ (platform.type = "srt" => picked.map \in Maps)
  /\ picked = [live |-> picked.live, vod |-> picked.vod, map |-> picked.map]

RelayTypes ==
  /\ params \in [Roles -> {1, 2}] /\ said \in [Roles -> 0..2]
  /\ held = Nothing \/ \E r \in Roles : held = <<r>> /\ said[r] # 0
  /\ router = [lastSeq |-> router.lastSeq, lastTS |-> router.lastTS, prior |-> router.prior]
  /\ router.prior \in Seq(Int) /\ DOMAIN router.prior = DOMAIN Mapping
  /\ Policy = "fixed" => router.prior = Mapping
  /\ Policy # "fixed" => DOMAIN router.lastSeq = {t \in AudioTracks : Declared(t)}

SwitcherTypes ==
  /\ headers = [s \in {"relay", "backup"} |-> headers[s]]
  /\ onAir \in {"relay", "backup"}
  /\ segment \in Nat /\ remapped \in BOOLEAN

ConnTypes(c) ==
  /\ c = [cfg |-> c.cfg, known |-> c.known, listed |-> c.listed, dirty |-> c.dirty,
          heard |-> c.heard]
  /\ c.dirty \in BOOLEAN

LinkTypes == ConnTypes(link)

\* The router remembers the newest header of each track.
Remembered == Policy # "fixed" => \A t \in AudioTracks : Declared(t) => router.lastSeq[t] = Id(<<"audio", t>>)

\* Each lane of the relay was last told of the track that goes there: of the one that went there by the
\* last mapping the router has seen, or, while a selected track's header waits for its
\* frame, of those that keep their slot and of that track. Slots changed since are left out.
VideoDeclared ==
  \A r \in Roles : r[1] = "video" /\ said[r] # 0 /\ VideoLane(r) # Nothing
                     => Says(headers["relay"], VideoLane(r), Id(r))

Waits(t) == Policy = "select" /\ held = <<<<"audio", t>>>>

AudioDeclared ==
  (\A t \in AudioTracks : ~Waits(t)) =>
    \A i \in DOMAIN Mapping \ swapped :
      Declared(router.prior[i]) => Says(headers["relay"], Slot(i), Id(<<"audio", router.prior[i]>>))

AudioWaits ==
  \A t \in AudioTracks : Waits(t) =>
    \A i \in DOMAIN Mapping \ swapped :
      Declared(Mapping[i]) /\ (Mapping[i] = t \/ Mapping[i] = router.prior[i])
        => Says(headers["relay"], Slot(i), Id(<<"audio", Mapping[i]>>))

BackupLanes == {Slot(i) : i \in BackupSlots} \cup BackupVideo

BackupDeclared ==
  segment > 0 /\ ~remapped =>
    \A l \in BackupLanes : Says(headers["backup"], l, <<"backup", segment>>)

\* The connection was told what the switcher holds for the source on the air.
ToldAll == \A l \in DOMAIN headers[onAir] : Says(link.cfg, l, headers[onAir][l])

Lists(c) == platform.type = "srt" /\ ~c.dirty => c.known \cup {<<"video", 0>>} \subseteq c.listed

ListedAll == Lists(link)

RouterInv ==
  /\ FixtureTypes /\ RelayTypes /\ SwitcherTypes /\ LinkTypes
  /\ Remembered /\ VideoDeclared /\ AudioDeclared /\ AudioWaits /\ BackupDeclared
  /\ ToldAll /\ ListedAll /\ InConfig /\ Announced

\* Functions that take over from others.
LEMMA Merged ==
  ASSUME NEW f, NEW g
  PROVE  /\ DOMAIN Over(f, g) = DOMAIN f \cup DOMAIN g
         /\ \A x \in DOMAIN f : Over(f, g)[x] = f[x]
         /\ \A x \in DOMAIN g : x \notin DOMAIN f => Over(f, g)[x] = g[x]
BY DEF Over

LEMMA Single == ASSUME NEW d, NEW e PROVE DOMAIN Only(d, e) = {d} /\ Only(d, e)[d] = e
BY DEF Only

LEMMA NothingIsEmpty == DOMAIN Nothing = {}
BY DEF Nothing

\* The modes, by what they are chosen for.
LEMMA Modes ==
  ASSUME FixtureTypes
  PROVE  /\ Mode \in {"eb", "chimera_select", "chimera_fixed", "multitrack_select", "track_select",
                      "multitrack_fixed", "plain_flv"}
         /\ Mode = "multitrack_select" => platform.type = "srt"
         /\ Mode \in {"eb", "chimera_select", "chimera_fixed"} => platform.type = "rtmp"
         /\ Mode \in {"chimera_fixed", "multitrack_fixed", "plain_flv"} => ~DualTrack
         /\ EBArm => Mode = "eb"
<1>1. EBArm \in BOOLEAN /\ Chimera \in BOOLEAN /\ MultitrackSRT \in BOOLEAN /\ DualTrack \in BOOLEAN
  BY DEF FixtureTypes, EBArm, Chimera, MultitrackSRT, DualTrack
<1>2. CASE EBArm
  BY <1>2 DEF Mode, EBArm
<1>3. CASE ~EBArm /\ Chimera
  BY <1>1, <1>3 DEF Mode, Chimera
<1>4. CASE ~EBArm /\ ~Chimera /\ MultitrackSRT
  BY <1>4 DEF Mode, MultitrackSRT
<1>5. CASE ~EBArm /\ ~Chimera /\ ~MultitrackSRT
  BY <1>1, <1>5 DEF Mode
<1> QED BY <1>1, <1>2, <1>3, <1>4, <1>5

LEMMA Policies ==
  ASSUME FixtureTypes
  PROVE  /\ Policy \in {"select", "chimera", "fixed"}
         /\ Policy = "fixed" => ~DualTrack /\ Mode # "multitrack_select"
         /\ Mode = "multitrack_select" => Policy = "select"
<1>1. Mode \in {"track_select", "multitrack_select"} => Policy = "select"
  BY DEF Policy
<1>2. Mode \in {"eb", "chimera_select"} => Policy = "chimera"
  BY DEF Policy
<1>3. Mode \in {"chimera_fixed", "multitrack_fixed", "plain_flv"} => Policy = "fixed"
  BY DEF Policy
<1> QED BY <1>1, <1>2, <1>3, Modes

\* The slots of a mode do not change.
Slots == CASE Mode = "multitrack_select" -> DOMAIN picked.map
           [] Mode \in {"chimera_select", "chimera_fixed", "eb"} -> 1..2
           [] OTHER -> 1..1

LEMMA Mappings ==
  ASSUME FixtureTypes
  PROVE  Mapping \in Seq(Int) /\ DOMAIN Mapping = Slots /\ Slots \subseteq Nat \ {0}
<1>1. picked.map \in Seq(Int) /\ picked.live \in Int /\ picked.vod \in Int
  BY DEF FixtureTypes
<1>2. CASE Mode = "multitrack_select"
  <2>1. Mapping = picked.map /\ Slots = DOMAIN picked.map
    BY <1>2 DEF Mapping, Slots
  <2> QED BY <1>1, <2>1
<1>3. CASE Mode \in {"chimera_select", "chimera_fixed"}
  <2>1. Mapping = <<picked.live, picked.vod>> /\ Slots = 1..2
    BY <1>3 DEF Mapping, Slots
  <2> QED BY <1>1, <2>1
<1>4. CASE Mode = "eb"
  <2>1. Mapping = <<picked.live, IF Chimera THEN picked.vod ELSE Unmapped>> /\ Slots = 1..2
    BY <1>4 DEF Mapping, Slots
  <2>2. (IF Chimera THEN picked.vod ELSE Unmapped) \in Int
    BY <1>1 DEF Unmapped
  <2> QED BY <2>1, <2>2, <1>1
<1>5. CASE Mode \in {"track_select", "multitrack_fixed"}
  <2>1. Mapping = <<picked.live>> /\ Slots = 1..1
    BY <1>5 DEF Mapping, Slots
  <2> QED BY <1>1, <2>1
<1>6. CASE Mode = "plain_flv"
  <2>1. Mapping = <<0>> /\ Slots = 1..1
    BY <1>6 DEF Mapping, Slots
  <2> QED BY <2>1
<1> QED BY <1>2, <1>3, <1>4, <1>5, <1>6, Modes

\* The connection.
LEMMA Registers ==
  ASSUME NEW c, NEW lanes, ConnTypes(c), Lists(c)
  PROVE  /\ ConnTypes(Register(c, lanes)) /\ Lists(Register(c, lanes))
         /\ Register(c, lanes).cfg = c.cfg /\ Register(c, lanes).heard = c.heard
         /\ lanes \subseteq Register(c, lanes).known
         /\ Register(c, lanes).listed = c.listed
<1> DEFINE n == [cfg |-> c.cfg, known |-> c.known \cup lanes, listed |-> c.listed,
                 dirty |-> (c.dirty \/ ~(lanes \subseteq c.known)), heard |-> c.heard]
<1>1. Register(c, lanes) = n
  <2> DEFINE lanesKnown == c.known \cup lanes
             dirty == c.dirty \/ ~(lanes \subseteq c.known)
  <2>1. Register(c, lanes) = [c EXCEPT !.known = lanesKnown, !.dirty = dirty]
    BY DEF Register
  <2>2. n = [cfg |-> c.cfg, known |-> lanesKnown, listed |-> c.listed, dirty |-> dirty, heard |-> c.heard]
    OBVIOUS
  <2> HIDE DEF lanesKnown, dirty, n
  <2> QED BY <2>1, <2>2 DEF ConnTypes
<1>2. ConnTypes(n)
  BY DEF ConnTypes
<1>3. Lists(n)
  BY DEF Lists, ConnTypes
<1> HIDE DEF n
<1>4. n.cfg = c.cfg /\ n.heard = c.heard /\ lanes \subseteq n.known /\ n.listed = c.listed
  BY DEF n
<1> QED BY <1>1, <1>2, <1>3, <1>4

LEMMA HeadersWritten ==
  ASSUME NEW c, NEW hs, ConnTypes(c), Lists(c)
  PROVE  /\ ConnTypes(WriteHeaders(c, hs)) /\ Lists(WriteHeaders(c, hs))
         /\ WriteHeaders(c, hs).cfg = Over(hs, c.cfg)
         /\ WriteHeaders(c, hs).heard = c.heard
<1> DEFINE n == [cfg |-> Over(hs, c.cfg), known |-> c.known, listed |-> c.listed,
                 dirty |-> c.dirty, heard |-> c.heard]
           lanes == {l \in DOMAIN hs : IsAudio(l)}
<1>1. [c EXCEPT !.cfg = Over(hs, @)] = n
  BY DEF ConnTypes
<1>2. ConnTypes(n) /\ Lists(n) /\ n.cfg = Over(hs, c.cfg) /\ n.heard = c.heard
  BY DEF ConnTypes, Lists
<1>3. WriteHeaders(c, hs) = IF platform.type = "srt" THEN Register(n, lanes) ELSE n
  BY <1>1 DEF WriteHeaders
<1> HIDE DEF n, lanes
<1> QED BY <1>2, <1>3, Registers

\* Frames come under what the connection has been told, and are announced.
LEMMA FramesWritten ==
  ASSUME NEW c, NEW fs, ConnTypes(c), Lists(c),
         platform.type = "srt" => \A l \in DOMAIN fs : IsAudio(l) \/ l = <<"video", 0>>
  PROVE  /\ ConnTypes(WriteFrames(c, fs)) /\ Lists(WriteFrames(c, fs))
         /\ WriteFrames(c, fs).cfg = c.cfg
         /\ \A l \in DOMAIN WriteFrames(c, fs).heard :
              \/ l \in DOMAIN c.heard /\ WriteFrames(c, fs).heard[l] = c.heard[l]
              \/ /\ l \in DOMAIN fs
                 /\ WriteFrames(c, fs).heard[l] =
                      [of |-> fs[l], under |-> IF l \in DOMAIN c.cfg THEN c.cfg[l] ELSE Nothing,
                       announced |-> TRUE, moved |-> Moved(l)]
<1> DEFINE srt == platform.type = "srt"
           out == {l \in DOMAIN fs : (srt /\ IsAudio(l)) => l \in DOMAIN c.cfg}
           lanes == {l \in out : IsAudio(l)}
           n == Register(c, lanes)
           listed == IF n.dirty THEN n.known \cup {<<"video", 0>>} ELSE n.listed
           HeardOf(l) == [of |-> fs[l], under |-> IF l \in DOMAIN c.cfg THEN c.cfg[l] ELSE Nothing,
                          announced |-> ~srt \/ l \in listed,
                          moved |-> Moved(l)]
           new == [l \in out |-> HeardOf(l)]
           heard == Over(new, c.heard)
<1>1. WriteFrames(c, fs) = IF out = {} THEN c
                           ELSE IF srt THEN [n EXCEPT !.listed = listed, !.dirty = FALSE, !.heard = heard]
                           ELSE [c EXCEPT !.heard = heard]
  BY DEF WriteFrames
<1>2. ConnTypes(n) /\ Lists(n) /\ n.cfg = c.cfg /\ lanes \subseteq n.known
  BY Registers
<1>3. srt => \A l \in out : l \in listed
  <2>1. srt => n.known \cup {<<"video", 0>>} \subseteq listed
    BY <1>2 DEF Lists, ConnTypes
  <2>2. srt => \A l \in out : l \in lanes \/ l = <<"video", 0>>
    OBVIOUS
  <2> QED BY <1>2, <2>1, <2>2
<1>4. \A l \in DOMAIN heard :
        \/ l \in DOMAIN c.heard /\ heard[l] = c.heard[l]
        \/ /\ l \in DOMAIN fs
           /\ heard[l] = [of |-> fs[l], under |-> IF l \in DOMAIN c.cfg THEN c.cfg[l] ELSE Nothing,
                          announced |-> TRUE, moved |-> Moved(l)]
  <2> SUFFICES ASSUME NEW l \in DOMAIN heard
               PROVE  \/ l \in DOMAIN c.heard /\ heard[l] = c.heard[l]
                      \/ /\ l \in DOMAIN fs
                         /\ heard[l] = [of |-> fs[l],
                                        under |-> IF l \in DOMAIN c.cfg THEN c.cfg[l] ELSE Nothing,
                                        announced |-> TRUE, moved |-> Moved(l)]
    OBVIOUS
  <2>1. DOMAIN new = out
    OBVIOUS
  <2>2. CASE l \in out
    <3>0. new[l] = HeardOf(l)
      BY <2>2
    <3>1. heard[l] = new[l]
      <4> HIDE DEF new, HeardOf, out
      <4>1. \A x \in DOMAIN new : Over(new, c.heard)[x] = new[x]
        BY Merged
      <4> QED BY <2>1, <2>2, <4>1
    <3>2. (~srt \/ l \in listed) = TRUE
      BY <2>2, <1>3
    <3>3. l \in DOMAIN fs
      BY <2>2
    <3> HIDE DEF heard, listed, srt
    <3> QED BY <3>0, <3>1, <3>2, <3>3
  <2>3. CASE l \notin out
    <3>1. DOMAIN heard = DOMAIN new \cup DOMAIN c.heard
      BY Merged
    <3>2. l \in DOMAIN c.heard
      BY <2>1, <2>3, <3>1
    <3>3. heard[l] = c.heard[l]
      <4> HIDE DEF new, out
      <4>1. \A x \in DOMAIN c.heard : x \notin DOMAIN new => Over(new, c.heard)[x] = c.heard[x]
        BY Merged
      <4> QED BY <2>1, <2>3, <3>2, <4>1
    <3> QED BY <3>2, <3>3
  <2> QED BY <2>2, <2>3
<1> HIDE DEF n, listed, heard, new, out
<1>5. CASE out = {}
  BY <1>1, <1>5
<1>6. CASE out # {} /\ srt
  <2> DEFINE m == [cfg |-> n.cfg, known |-> n.known, listed |-> listed, dirty |-> FALSE, heard |-> heard]
  <2>1. WriteFrames(c, fs) = m
    BY <1>1, <1>2, <1>6 DEF ConnTypes
  <2>2. ConnTypes(m) /\ m.cfg = c.cfg /\ m.heard = heard
    BY <1>2 DEF ConnTypes
  <2>3. Lists(m)
    BY <1>2 DEF Lists, ConnTypes, listed
  <2> HIDE DEF m
  <2> QED BY <2>1, <2>2, <2>3, <1>4
<1>7. CASE out # {} /\ ~srt
  <2> DEFINE m == [cfg |-> c.cfg, known |-> c.known, listed |-> c.listed, dirty |-> c.dirty, heard |-> heard]
  <2>1. WriteFrames(c, fs) = m
    BY <1>1, <1>7 DEF ConnTypes
  <2>2. ConnTypes(m) /\ m.cfg = c.cfg /\ m.heard = heard /\ Lists(m)
    BY <1>7 DEF ConnTypes, Lists
  <2> HIDE DEF m
  <2> QED BY <2>1, <2>2, <1>4
<1> QED BY <1>5, <1>6, <1>7

\* What a source on the air sends reaches the connection.
LEMMA Processed ==
  ASSUME LinkTypes, SwitcherTypes, ToldAll, ListedAll, InConfig, Announced,
         NEW src \in {"relay", "backup"}, NEW hs, NEW fs,
         Process(src, hs, fs), UNCHANGED <<platform, onAir>>,
         \A l \in DOMAIN fs : \/ onAir # src \/ Moved(l)
                              \/ Says(Over(hs, headers[src]), l, fs[l]),
         platform.type = "srt" => \A l \in DOMAIN fs : IsAudio(l) \/ l = <<"video", 0>>
  PROVE  /\ LinkTypes' /\ ToldAll' /\ ListedAll' /\ InConfig' /\ Announced'
         /\ headers' = [s \in {"relay", "backup"} |->
                          IF s = src THEN Over(hs, headers[src]) ELSE headers[s]]
<1>1. headers' = [s \in {"relay", "backup"} |->
                    IF s = src THEN Over(hs, headers[src]) ELSE headers[s]]
  BY DEF Process, SwitcherTypes
<1>2. CASE onAir # src
  <2>1. link' = link /\ headers'[onAir'] = headers[onAir]
    BY <1>1, <1>2 DEF Process, SwitcherTypes
  <2> QED BY <1>1, <2>1 DEF LinkTypes, ConnTypes, ToldAll, ListedAll, Lists, InConfig, Announced
<1>3. CASE onAir = src
  <2> DEFINE n == WriteHeaders(link, hs)
             m == WriteFrames(n, fs)
  <2>1. link' = m
    BY <1>3 DEF Process
  <2>2. /\ ConnTypes(n) /\ Lists(n) /\ n.heard = link.heard
        /\ n.cfg = Over(hs, link.cfg)
    BY HeadersWritten DEF LinkTypes, ListedAll
  <2> HIDE DEF n
  <2>3. /\ ConnTypes(m) /\ Lists(m) /\ m.cfg = n.cfg
        /\ \A l \in DOMAIN m.heard :
             \/ l \in DOMAIN n.heard /\ m.heard[l] = n.heard[l]
             \/ /\ l \in DOMAIN fs
                /\ m.heard[l] =
                     [of |-> fs[l], under |-> IF l \in DOMAIN n.cfg THEN n.cfg[l] ELSE Nothing,
                      announced |-> TRUE, moved |-> Moved(l)]
    BY <2>2, FramesWritten
  <2> HIDE DEF m
  <2>4. headers'[onAir'] = Over(hs, headers[src])
    BY <1>1, <1>3
  <2>5. ToldAll'
    <3> SUFFICES ASSUME NEW l \in DOMAIN headers'[onAir']
                 PROVE  Says(link'.cfg, l, headers'[onAir'][l])
      BY DEF ToldAll, Says
    <3> DEFINE g == headers[src]
               k == link.cfg
    <3>1. link'.cfg = Over(hs, k)
      BY <2>1, <2>2, <2>3
    <3>2. \A x \in DOMAIN g : x \in DOMAIN k /\ k[x] = g[x]
      BY <1>3 DEF ToldAll, Says
    <3>3. l \in DOMAIN Over(hs, g)
      BY <2>4
    <3> HIDE DEF g, k
    <3>4. l \in DOMAIN Over(hs, k) /\ Over(hs, k)[l] = Over(hs, g)[l]
      BY <3>2, <3>3 DEF Over
    <3>5. headers'[onAir'] = Over(hs, g)
      BY <2>4 DEF g
    <3> QED BY <3>1, <3>4, <3>5 DEF Says
  <2>6. \A l \in DOMAIN fs : Moved(l) \/ Says(n.cfg, l, fs[l])
    <3> SUFFICES ASSUME NEW l \in DOMAIN fs, ~Moved(l)
                 PROVE  Says(n.cfg, l, fs[l])
      BY <1>3
    <3>1. Says(Over(hs, headers[src]), l, fs[l])
      BY <1>3
    <3>2. l \in DOMAIN headers'[onAir'] /\ headers'[onAir'][l] = fs[l]
      BY <3>1, <2>4 DEF Says
    <3>3. Says(link'.cfg, l, headers'[onAir'][l])
      BY <3>2, <2>5 DEF ToldAll, Says
    <3> QED BY <2>1, <2>3, <3>2, <3>3 DEF Says
  <2>7. InConfig' /\ Announced'
    <3> SUFFICES ASSUME NEW l \in DOMAIN m.heard
                 PROVE  /\ m.heard[l].moved \/ m.heard[l].of = m.heard[l].under
                        /\ m.heard[l].announced
      BY <2>1 DEF InConfig, Announced
    <3>1. CASE l \in DOMAIN n.heard /\ m.heard[l] = n.heard[l]
      BY <3>1, <2>2 DEF InConfig, Announced
    <3>2. CASE /\ l \in DOMAIN fs
               /\ m.heard[l] =
                     [of |-> fs[l], under |-> IF l \in DOMAIN n.cfg THEN n.cfg[l] ELSE Nothing,
                      announced |-> TRUE, moved |-> Moved(l)]
      <4>1. /\ m.heard[l].of = fs[l] /\ m.heard[l].announced
            /\ m.heard[l].under = IF l \in DOMAIN n.cfg THEN n.cfg[l] ELSE Nothing
            /\ m.heard[l].moved = Moved(l)
        BY <3>2
      <4> QED BY <3>2, <4>1, <2>6 DEF Says
    <3> QED BY <2>3, <3>1, <3>2
  <2>8. LinkTypes' /\ ListedAll'
    BY <2>1, <2>3 DEF LinkTypes, ListedAll, ConnTypes, Lists
  <2> QED BY <1>1, <2>5, <2>7, <2>8
<1> QED BY <1>2, <1>3

\* What does not change while the source and the platform do not.
LEMMA Fixed ==
  ASSUME UNCHANGED <<source, platform>>
  PROVE  /\ Mode' = Mode /\ Policy' = Policy /\ Roles' = Roles /\ AudioTracks' = AudioTracks
         /\ DualTrack' = DualTrack /\ Chimera' = Chimera /\ BackupVideo' = BackupVideo
         /\ \A r : VideoLane(r)' = VideoLane(r)
<1>1. EBArm' = EBArm /\ Chimera' = Chimera /\ MultitrackSRT' = MultitrackSRT /\ DualTrack' = DualTrack
  BY DEF EBArm, Chimera, MultitrackSRT, DualTrack
<1>2. Mode' = Mode
  BY <1>1 DEF Mode
<1>3. Roles' = Roles /\ VideoRole' = VideoRole /\ AudioTracks' = AudioTracks
  BY DEF Roles, VideoRole, AudioTracks
<1>4. \A r : VideoLane(r)' = VideoLane(r)
  BY <1>1, <1>3 DEF VideoLane
<1>5. Policy' = Policy
  BY <1>2 DEF Policy
<1>6. BackupVideo' = BackupVideo
  BY <1>1, <1>3 DEF BackupVideo
<1> QED BY <1>1, <1>2, <1>3, <1>4, <1>5, <1>6

LEMMA FixedMapping ==
  ASSUME UNCHANGED <<source, platform, picked>>
  PROVE  Mapping' = Mapping /\ BackupSlots' = BackupSlots /\ BackupLanes' = BackupLanes
<1>1. Mode' = Mode /\ Chimera' = Chimera /\ BackupVideo' = BackupVideo
  BY Fixed
<1>2. Mapping' = Mapping
  BY <1>1 DEF Mapping
<1>3. BackupSlots' = BackupSlots
  BY <1>1 DEF BackupSlots
<1>4. BackupLanes' = BackupLanes
  BY <1>1, <1>3 DEF BackupLanes
<1> QED BY <1>2, <1>3, <1>4

\* Lanes, apart.
LEMMA Lanes ==
  ASSUME FixtureTypes
  PROVE  /\ \A i : IsAudio(Slot(i))
         /\ \A r \in Roles : VideoLane(r) # Nothing => ~IsAudio(VideoLane(r)) \/ r[1] # "video"
         /\ \A i, j \in Int : Slot(i) = Slot(j) => i = j
         /\ \A i \in Int : Slot(i)[2] + 1 = i
         /\ \A r, q \in Roles : VideoLane(r) # Nothing /\ VideoLane(q) = VideoLane(r) => q = r
         /\ ~EBArm => \A r : VideoLane(r) \in {Nothing, <<"video", 0>>}
         /\ platform.type = "srt" => ~EBArm
BY DEF IsAudio, Slot, VideoLane, Nothing, VideoRole, Roles, EBArm

\* What is declared again, from the headers a router remembers.
Again(seq) == [l \in {Slot(i) : i \in Redeclared} |-> seq[Mapping[l[2] + 1]]]

LEMMA AgainIs ==
  ASSUME FixtureTypes, NEW seq
  PROVE  /\ DOMAIN Again(seq) = {Slot(i) : i \in Redeclared}
         /\ \A i \in Redeclared : Again(seq)[Slot(i)] = seq[Mapping[i]]
<1>1. Redeclared \subseteq Int /\ Redeclared \subseteq DOMAIN Mapping
  BY Mappings DEF Redeclared
<1>2. \A i \in Redeclared : Slot(i)[2] + 1 = i
  BY <1>1, Lanes
<1> QED BY <1>2 DEF Again

LEMMA OverSays ==
  ASSUME NEW hs, NEW g, NEW l, NEW id,
         \/ l \in DOMAIN hs /\ hs[l] = id
         \/ l \notin DOMAIN hs /\ Says(g, l, id)
  PROVE  Says(Over(hs, g), l, id)
BY DEF Over, Says

\* A slot that is not declared again has been told of the track it carries.
LEMMA OldSays ==
  ASSUME FixtureTypes, RelayTypes, AudioDeclared, AudioWaits,
         NEW i \in DOMAIN Mapping \ swapped, Declared(Mapping[i]), i \notin Redeclared
  PROVE  Says(headers["relay"], Slot(i), Id(<<"audio", Mapping[i]>>))
<1>1. Policy # "fixed" => Mapping[i] \in DOMAIN router.lastSeq
  BY DEF RelayTypes, Declared
<1>2. Mapping[i] = router.prior[i]
  <2>1. CASE Policy = "fixed"
    BY <2>1 DEF RelayTypes
  <2>2. CASE Policy # "fixed"
    BY <1>1, <2>2 DEF Redeclared
  <2> QED BY <2>1, <2>2
<1>3. CASE \A t \in AudioTracks : ~Waits(t)
  BY <1>2, <1>3 DEF AudioDeclared
<1>4. CASE \E t \in AudioTracks : Waits(t)
  BY <1>2, <1>4 DEF AudioWaits
<1> QED BY <1>3, <1>4

\* What the router does with a frame, and with a header that it does not select.
FrameGoes(track, id, times, fs) ==
  /\ router' = IF Policy = "fixed" THEN router
               ELSE [lastSeq |-> router.lastSeq, lastTS |-> times, prior |-> Mapping]
  /\ swapped' = swapped \ Redeclared /\ Process("relay", Again(router.lastSeq), fs)
  /\ \A l \in DOMAIN fs : fs[l] = id /\ \E i \in Carrying(track) : l = Slot(i)

HeaderGoes(track, id, seq, times) ==
  /\ seq = IF Policy # "fixed" THEN Over(Only(track, id), router.lastSeq) ELSE router.lastSeq
  /\ router' = IF Policy = "fixed" THEN router
               ELSE [lastSeq |-> seq, lastTS |-> times, prior |-> Mapping]
  /\ swapped' = swapped \ Redeclared
  /\ Process("relay", Over(At(Carrying(track), id), Again(seq)), Nothing)

LEMMA FrameRouted ==
  ASSUME NEW track, NEW id, RouteAudio(track, id, FALSE)
  PROVE  \E times, fs : FrameGoes(track, id, times, fs)
<1> DEFINE
      seq == router.lastSeq
      guarded == {i \in Carrying(track) : Policy = "select" /\ i \in DOMAIN router.lastTS
                                             /\ clock'[<<"audio", track>>] <= router.lastTS[i]}
      slots == Carrying(track) \ guarded
      times == IF Policy = "select"
               THEN Over([i \in slots |-> clock'[<<"audio", track>>]], router.lastTS) ELSE router.lastTS
      fs == At(slots, id)
<1>1. router' = IF Policy = "fixed" THEN router
                ELSE [lastSeq |-> seq, lastTS |-> times, prior |-> Mapping]
  BY DEF RouteAudio
<1>2. swapped' = swapped \ Redeclared /\ Process("relay", Again(seq), fs)
  BY DEF RouteAudio, Again
<1>3. \A l \in DOMAIN fs : fs[l] = id /\ \E i \in Carrying(track) : l = Slot(i)
  <2>1. slots \subseteq Carrying(track)
    OBVIOUS
  <2> HIDE DEF slots
  <2> QED BY <2>1 DEF At
<1> HIDE DEF times, fs
<1>4. FrameGoes(track, id, times, fs)
  BY <1>1, <1>2, <1>3 DEF FrameGoes
<1> QED BY <1>4

LEMMA HeaderRouted ==
  ASSUME NEW track, NEW id, RouteAudio(track, id, TRUE), Policy # "select"
  PROVE  \E seq, times : HeaderGoes(track, id, seq, times)
<1> DEFINE
      seq == IF Policy # "fixed" THEN Over(Only(track, id), router.lastSeq) ELSE router.lastSeq
      guarded == {i \in Carrying(track) : Policy = "select" /\ i \in DOMAIN router.lastTS
                                             /\ clock'[<<"audio", track>>] <= router.lastTS[i]}
      slots == Carrying(track) \ guarded
      times == router.lastTS
<1>1. router' = IF Policy = "fixed" THEN router
                ELSE [lastSeq |-> seq, lastTS |-> times, prior |-> Mapping]
  BY DEF RouteAudio
<1>2. swapped' = swapped \ Redeclared /\ Process("relay", Over(At(slots, id), Again(seq)), Nothing)
  BY DEF RouteAudio, Again
<1>3. slots = Carrying(track)
  OBVIOUS
<1> HIDE DEF seq, times, slots
<1>4. seq = IF Policy # "fixed" THEN Over(Only(track, id), router.lastSeq) ELSE router.lastSeq
  BY DEF seq
<1>5. HeaderGoes(track, id, seq, times)
  BY <1>1, <1>2, <1>3, <1>4 DEF HeaderGoes
<1> QED BY <1>5

\* Audio roles are tracks.
LEMMA AudioRoles ==
  /\ \A r \in Roles : r[1] = "audio" => r[2] \in AudioTracks /\ r = <<"audio", r[2]>>
  /\ \A t \in AudioTracks : <<"audio", t>> \in Roles
  /\ \A r \in Roles : r[1] \in {"audio", "video"}
  /\ \A t : Declared(t) => t \in AudioTracks
BY DEF Roles, AudioTracks, Declared

LEMMA FrameOfAudio ==
  ASSUME RouterInv, NEW role \in Roles, role[1] = "audio", Frame(role)
  PROVE  RouterInv'
<1> DEFINE track == role[2]
<1>1. role = <<"audio", track>> /\ track \in AudioTracks
  BY AudioRoles
<1>2. /\ UNCHANGED <<source, platform, picked, params, said, onAir, player, moves>>
      /\ held' = Nothing /\ said[role] = params[role] /\ held \in {Nothing, <<role>>}
      /\ RouteAudio(track, <<role, params[role]>>, FALSE)
  BY DEF Frame, Route
<1>3. UNCHANGED <<source, platform, picked, params, said, onAir, segment, remapped>>
  BY <1>2 DEF player
<1>4. said[role] # 0 /\ <<role, params[role]>> = Id(role) /\ Declared(track)
  <2>1. params[role] \in {1, 2}
    BY DEF RouterInv, RelayTypes
  <2>2. said[role] # 0 /\ <<role, params[role]>> = Id(role)
    BY <2>1, <1>2 DEF Id
  <2> HIDE DEF track
  <2> QED BY <2>2, <1>1 DEF Declared
<1>5. PICK times, fs : FrameGoes(track, Id(role), times, fs)
  <2>1. RouteAudio(track, Id(role), FALSE)
    BY <1>2, <1>4
  <2> HIDE DEF track
  <2> QED BY <2>1, FrameRouted, Zenon
<1>6. /\ router' = IF Policy = "fixed" THEN router
                   ELSE [lastSeq |-> router.lastSeq, lastTS |-> times, prior |-> Mapping]
      /\ swapped' = swapped \ Redeclared /\ Process("relay", Again(router.lastSeq), fs)
      /\ \A l \in DOMAIN fs : fs[l] = Id(role) /\ \E i \in Carrying(track) : l = Slot(i)
  BY <1>5 DEF FrameGoes
<1> DEFINE hs == Again(router.lastSeq)
<1>7. \A i \in DOMAIN Mapping \ swapped' : Declared(Mapping[i]) =>
       Says(Over(hs, headers["relay"]), Slot(i), Id(<<"audio", Mapping[i]>>))
  <2> SUFFICES ASSUME NEW i \in DOMAIN Mapping, i \notin swapped', Declared(Mapping[i])
               PROVE  Says(Over(hs, headers["relay"]), Slot(i), Id(<<"audio", Mapping[i]>>))
    OBVIOUS
  <2>1. CASE i \in Redeclared
    <3>1. Policy # "fixed" /\ Mapping[i] \in AudioTracks
      BY <2>1 DEF Redeclared, RouterInv, RelayTypes, Declared
    <3>2. hs[Slot(i)] = Id(<<"audio", Mapping[i]>>) /\ Slot(i) \in DOMAIN hs
      BY <2>1, <3>1, AgainIs DEF RouterInv, Remembered
    <3> QED BY <3>2, OverSays
  <2>2. CASE i \notin Redeclared
    <3>1. Says(headers["relay"], Slot(i), Id(<<"audio", Mapping[i]>>))
      BY <1>6, <2>2, OldSays DEF RouterInv
    <3>2. Slot(i) \notin DOMAIN hs
      <4>1. Redeclared \subseteq Int /\ i \in Int
        BY Mappings DEF Redeclared, RouterInv
      <4>2. DOMAIN hs = {Slot(j) : j \in Redeclared}
        BY AgainIs DEF RouterInv
      <4>3. \A j \in Redeclared : Slot(j) # Slot(i)
        BY <2>2, <4>1, Lanes DEF RouterInv
      <4> QED BY <4>2, <4>3
    <3> QED BY <3>1, <3>2, OverSays
  <2> QED BY <2>1, <2>2
<1>8. \A l \in DOMAIN fs : /\ onAir # "relay" \/ Moved(l) \/ Says(Over(hs, headers["relay"]), l, fs[l])
                           /\ IsAudio(l)
  <2> SUFFICES ASSUME NEW l \in DOMAIN fs
               PROVE  /\ onAir # "relay" \/ Moved(l) \/ Says(Over(hs, headers["relay"]), l, fs[l])
                      /\ IsAudio(l)
    OBVIOUS
  <2>1. PICK i \in Carrying(track) : l = Slot(i)
    BY <1>6
  <2>2. i \in DOMAIN Mapping /\ Mapping[i] = track
    BY DEF Carrying
  <2>3. CASE i \in swapped
    BY <2>1, <2>3, Lanes DEF RouterInv, Moved
  <2>4. CASE i \notin swapped
    BY <1>1, <1>4, <1>6, <1>7, <2>1, <2>2, <2>4, Lanes DEF RouterInv
  <2> QED BY <2>3, <2>4
<1> HIDE DEF hs
<1>9. /\ LinkTypes' /\ ToldAll' /\ ListedAll' /\ InConfig' /\ Announced'
      /\ headers' = [s \in {"relay", "backup"} |->
                       IF s = "relay" THEN Over(hs, headers["relay"]) ELSE headers[s]]
  BY <1>3, <1>6, <1>8, Processed DEF RouterInv, hs
<1>10. /\ Mode' = Mode /\ Policy' = Policy /\ Roles' = Roles /\ AudioTracks' = AudioTracks
       /\ Mapping' = Mapping /\ BackupLanes' = BackupLanes /\ \A r : VideoLane(r)' = VideoLane(r)
  BY <1>3, Fixed, FixedMapping
<1>11. (\A t : Declared(t)' = Declared(t)) /\ \A r : Id(r)' = Id(r)
  BY <1>3, <1>10 DEF Declared, Id
<1>12. FixtureTypes' /\ SwitcherTypes'
  BY <1>3, <1>9 DEF RouterInv, FixtureTypes, SwitcherTypes
<1>13. RelayTypes'
  <2>1. Mapping \in Seq(Int)
    BY Mappings DEF RouterInv
  <2>2. CASE Policy = "fixed"
    BY <1>2, <1>3, <1>6, <1>10, <1>11, <2>2 DEF RouterInv, RelayTypes
  <2>3. CASE Policy # "fixed"
    BY <1>2, <1>3, <1>6, <1>10, <1>11, <2>1, <2>3 DEF RouterInv, RelayTypes
  <2> QED BY <2>2, <2>3
<1>14. Remembered'
  BY <1>6, <1>10, <1>11 DEF RouterInv, Remembered
<1>15. VideoDeclared'
  <2> SUFFICES ASSUME NEW r \in Roles, r[1] = "video", said[r] # 0, VideoLane(r) # Nothing
               PROVE  Says(headers'["relay"], VideoLane(r), Id(r))
    BY <1>3, <1>10, <1>11 DEF VideoDeclared, Says
  <2>1. Says(headers["relay"], VideoLane(r), Id(r))
    BY DEF RouterInv, VideoDeclared
  <2>2. ~IsAudio(VideoLane(r))
    BY Lanes DEF RouterInv
  <2>3. \A l \in DOMAIN hs : IsAudio(l)
    <3>1. DOMAIN hs = {Slot(i) : i \in Redeclared}
      BY AgainIs DEF RouterInv, hs
    <3>2. \A i : IsAudio(Slot(i))
      BY Lanes DEF RouterInv
    <3> QED BY <3>1, <3>2
  <2> QED BY <1>9, <2>1, <2>2, <2>3, OverSays
<1>16. AudioDeclared'
  <2> SUFFICES ASSUME NEW i \in DOMAIN Mapping, i \notin swapped', Declared(router'.prior[i])
               PROVE  Says(headers'["relay"], Slot(i), Id(<<"audio", router'.prior[i]>>))
    BY <1>10, <1>11 DEF AudioDeclared, Says
  <2>1. router'.prior = Mapping
    BY <1>6 DEF RouterInv, RelayTypes
  <2> QED BY <1>7, <1>9, <2>1 DEF hs
<1>17. AudioWaits'
  <2>1. \A t : ~Waits(t)'
    BY <1>2 DEF Waits, Nothing
  <2> QED BY <2>1 DEF AudioWaits
<1>18. BackupDeclared'
  BY <1>3, <1>9, <1>10 DEF RouterInv, BackupDeclared, Says
<1> QED BY <1>9, <1>12, <1>13, <1>14, <1>15, <1>16, <1>17, <1>18 DEF RouterInv

\* A header of a track that is selected goes to the slots that carry it.
LEMMA HeaderOfSelected ==
  ASSUME RouterInv, NEW role \in Roles, role[1] = "audio", Header(role), Policy = "select"
  PROVE  RouterInv'
<1> DEFINE track == role[2]
           id == <<role, params[role]>>
           hs == At(Carrying(track), id)
<1>1. role = <<"audio", track>> /\ track \in AudioTracks
  BY AudioRoles
<1>2. /\ held = Nothing /\ held' = <<role>> /\ said' = [said EXCEPT ![role] = params[role]]
      /\ UNCHANGED <<source, platform, picked, params, clock, onAir, player, moves>>
      /\ SelectHeader(track, id)
  BY DEF Header, Route
<1>3. UNCHANGED <<source, platform, picked, params, onAir, segment, remapped>>
  BY <1>2 DEF player
<1>4. /\ router' = [lastSeq |-> Over(Only(track, id), router.lastSeq), lastTS |-> router.lastTS,
                    prior |-> router.prior]
      /\ swapped' = swapped \ Carrying(track) /\ Process("relay", hs, Nothing)
  BY <1>2 DEF SelectHeader, RouterInv, RelayTypes
<1>5. /\ Mode' = Mode /\ Policy' = Policy /\ Roles' = Roles /\ AudioTracks' = AudioTracks
      /\ Mapping' = Mapping /\ BackupLanes' = BackupLanes /\ \A r : VideoLane(r)' = VideoLane(r)
  BY <1>3, Fixed, FixedMapping
<1>6. said \in [Roles -> 0..2] /\ params \in [Roles -> {1, 2}] /\ params[role] \in {1, 2}
  BY DEF RouterInv, RelayTypes
<1>7. said'[role] = params[role] /\ \A r \in Roles : r # role => said'[r] = said[r]
  BY <1>2, <1>6
<1>8. Id(role)' = id /\ \A r \in Roles : r # role => Id(r)' = Id(r)
  BY <1>7 DEF Id
<1>9. Declared(track)' /\ \A t : t # track => Declared(t)' = Declared(t)
  <2>1. Declared(track)'
    BY <1>1, <1>5, <1>6, <1>7 DEF Declared
  <2>2. ASSUME NEW t, t # track PROVE Declared(t)' = Declared(t)
    <3>1. t \in AudioTracks => <<"audio", t>> \in Roles /\ <<"audio", t>> # role
      BY <1>1, <2>2, AudioRoles
    <3> QED BY <1>5, <1>7, <3>1 DEF Declared
  <2> QED BY <2>1, <2>2
<1> HIDE DEF id, hs
<1>10. /\ LinkTypes' /\ ToldAll' /\ ListedAll' /\ InConfig' /\ Announced'
       /\ headers' = [s \in {"relay", "backup"} |->
                        IF s = "relay" THEN Over(hs, headers["relay"]) ELSE headers[s]]
  BY <1>3, <1>4, NothingIsEmpty, Processed DEF RouterInv
<1>11. FixtureTypes' /\ SwitcherTypes'
  BY <1>3, <1>10 DEF RouterInv, FixtureTypes, SwitcherTypes
<1>12. /\ DOMAIN router'.lastSeq = {track} \cup DOMAIN router.lastSeq
       /\ router'.lastSeq[track] = id
       /\ \A t \in DOMAIN router.lastSeq : t # track => router'.lastSeq[t] = router.lastSeq[t]
  <2>1. router'.lastSeq = Over(Only(track, id), router.lastSeq)
    BY <1>4
  <2> HIDE DEF track
  <2>2. DOMAIN Only(track, id) = {track} /\ Only(track, id)[track] = id
    BY Single
  <2> QED BY <2>1, <2>2 DEF Over
<1>13. RelayTypes'
  <2>1. said' \in [Roles -> 0..2]
    BY <1>2, <1>6
  <2>2. held' = <<role>> /\ said'[role] # 0
    BY <1>2, <1>6, <1>7
  <2>3. /\ router' = [lastSeq |-> router'.lastSeq, lastTS |-> router'.lastTS, prior |-> router'.prior]
        /\ router'.prior = router.prior
    BY <1>4
  <2>4. DOMAIN router.lastSeq = {t \in AudioTracks : Declared(t)}
    BY DEF RouterInv, RelayTypes
  <2>5. DOMAIN router'.lastSeq = {t \in AudioTracks : Declared(t)'}
    BY <1>1, <1>9, <1>12, <2>4
  <2>6. router.prior \in Seq(Int) /\ DOMAIN router.prior = DOMAIN Mapping
    BY DEF RouterInv, RelayTypes
  <2> QED BY <1>3, <1>5, <1>6, <2>1, <2>2, <2>3, <2>5, <2>6 DEF RelayTypes
<1>14. Remembered'
  <2> SUFFICES ASSUME NEW t \in AudioTracks, Declared(t)'
               PROVE  router'.lastSeq[t] = Id(<<"audio", t>>)'
    BY <1>5 DEF Remembered
  <2>1. CASE t = track
    BY <1>1, <1>8, <1>12, <2>1
  <2>2. CASE t # track
    <3>1. Declared(t) /\ t \in DOMAIN router.lastSeq
      BY <1>9, <2>2 DEF RouterInv, RelayTypes
    <3>2. <<"audio", t>> \in Roles /\ <<"audio", t>> # role
      BY <1>1, <2>2, AudioRoles
    <3> QED BY <1>8, <1>12, <2>2, <3>1, <3>2 DEF RouterInv, Remembered
  <2> QED BY <2>1, <2>2
<1>15. DOMAIN hs = {Slot(i) : i \in Carrying(track)} /\ \A l \in DOMAIN hs : hs[l] = id
  BY DEF hs, At
<1>16. VideoDeclared'
  <2> SUFFICES ASSUME NEW r \in Roles, r[1] = "video", said'[r] # 0, VideoLane(r) # Nothing
               PROVE  Says(headers'["relay"], VideoLane(r), Id(r)')
    BY <1>5 DEF VideoDeclared, Says
  <2>1. r # role
    OBVIOUS
  <2>2. Says(headers["relay"], VideoLane(r), Id(r)')
    BY <1>7, <1>8, <2>1 DEF RouterInv, VideoDeclared
  <2>3. ~IsAudio(VideoLane(r)) /\ \A i : IsAudio(Slot(i))
    BY Lanes DEF RouterInv
  <2>4. VideoLane(r) \notin DOMAIN hs
    BY <1>15, <2>3
  <2> QED BY <1>10, <2>2, <2>4, OverSays
<1>17. AudioDeclared'
  <2>1. Waits(track)'
    BY <1>1, <1>2, <1>5 DEF Waits
  <2> QED BY <1>1, <1>5, <2>1 DEF AudioDeclared
<1>18. AudioWaits'
  <2> SUFFICES ASSUME NEW t \in AudioTracks, Waits(t)', NEW i \in DOMAIN Mapping, i \notin swapped',
                      NEW k, k = Mapping[i], Declared(k)', k = t \/ k = router.prior[i]
               PROVE  Says(headers'["relay"], Slot(i), Id(<<"audio", k>>)')
    <3>1. router'.prior = router.prior
      BY <1>4
    <3> QED BY <1>5, <3>1 DEF AudioWaits, Says
  <2>1. t = track
    BY <1>1, <1>2 DEF Waits
  <2>2. i \in Int /\ Carrying(track) \subseteq Int
    BY Mappings DEF RouterInv, Carrying
  <2>3. CASE k = track
    <3>1. Slot(i) \in DOMAIN hs
      BY <1>15, <2>3 DEF Carrying
    <3>2. Id(<<"audio", k>>)' = id
      BY <1>1, <1>8, <2>3
    <3> QED BY <1>10, <1>15, <3>1, <3>2, OverSays
  <2>4. CASE k # track
    <3>1. Declared(k) /\ k = router.prior[i]
      BY <1>9, <2>1, <2>4
    <3>2. \A u \in AudioTracks : ~Waits(u)
      BY <1>2 DEF Waits, Nothing
    <3>3. Says(headers["relay"], Slot(i), Id(<<"audio", k>>))
      <4>1. i \notin swapped
        BY <1>4, <2>4 DEF Carrying
      <4> QED BY <3>1, <3>2, <4>1 DEF RouterInv, AudioDeclared
    <3>4. <<"audio", k>> \in Roles /\ <<"audio", k>> # role
      BY <1>1, <2>4, <3>1, AudioRoles
    <3>5. Slot(i) \notin DOMAIN hs
      <4>1. \A j \in Carrying(track) : j # i
        BY <2>4 DEF Carrying
      <4>2. \A j \in Carrying(track) : Slot(j) # Slot(i)
        BY <2>2, <4>1, Lanes DEF RouterInv
      <4> QED BY <1>15, <4>2
    <3>6. Says(headers["relay"], Slot(i), Id(<<"audio", k>>)')
      BY <1>8, <3>3, <3>4
    <3> QED BY <1>10, <3>5, <3>6, OverSays
  <2> QED BY <2>3, <2>4
<1>19. BackupDeclared'
  BY <1>3, <1>5, <1>10 DEF RouterInv, BackupDeclared, Says
<1> QED BY <1>10, <1>11, <1>13, <1>14, <1>16, <1>17, <1>18, <1>19 DEF RouterInv

\* Of a track that is not selected, a header goes to its slots behind whatever is declared again.
LEMMA HeaderOfOther ==
  ASSUME RouterInv, NEW role \in Roles, role[1] = "audio", Header(role), Policy # "select"
  PROVE  RouterInv'
<1> DEFINE track == role[2]
           id == <<role, params[role]>>
<1>1. role = <<"audio", track>> /\ track \in AudioTracks
  BY AudioRoles
<1>2. /\ held = Nothing /\ held' = <<role>> /\ said' = [said EXCEPT ![role] = params[role]]
      /\ UNCHANGED <<source, platform, picked, params, clock, onAir, player, moves>>
      /\ RouteAudio(track, id, TRUE)
  BY DEF Header, Route
<1>3. UNCHANGED <<source, platform, picked, params, onAir, segment, remapped>>
  BY <1>2 DEF player
<1>4. PICK seq, times : HeaderGoes(track, id, seq, times)
  <2> HIDE DEF track, id
  <2> QED BY <1>2, HeaderRouted, Zenon
<1> DEFINE hs == Over(At(Carrying(track), id), Again(seq))
<1>5. /\ Mode' = Mode /\ Policy' = Policy /\ Roles' = Roles /\ AudioTracks' = AudioTracks
      /\ Mapping' = Mapping /\ BackupLanes' = BackupLanes /\ \A r : VideoLane(r)' = VideoLane(r)
  BY <1>3, Fixed, FixedMapping
<1>6. said \in [Roles -> 0..2] /\ params \in [Roles -> {1, 2}] /\ params[role] \in {1, 2}
  BY DEF RouterInv, RelayTypes
<1>7. said'[role] = params[role] /\ \A r \in Roles : r # role => said'[r] = said[r]
  BY <1>2, <1>6
<1>8. Id(role)' = id /\ \A r \in Roles : r # role => Id(r)' = Id(r)
  BY <1>7 DEF Id
<1>9. Declared(track)' /\ \A t : t # track => Declared(t)' = Declared(t)
  <2>1. Declared(track)'
    BY <1>1, <1>5, <1>6, <1>7 DEF Declared
  <2>2. ASSUME NEW t, t # track PROVE Declared(t)' = Declared(t)
    <3>1. t \in AudioTracks => <<"audio", t>> \in Roles /\ <<"audio", t>> # role
      BY <1>1, <2>2, AudioRoles
    <3> QED BY <1>5, <1>7, <3>1 DEF Declared
  <2> QED BY <2>1, <2>2
<1>10. /\ seq = IF Policy # "fixed" THEN Over(Only(track, id), router.lastSeq) ELSE router.lastSeq
       /\ router' = IF Policy = "fixed" THEN router
                    ELSE [lastSeq |-> seq, lastTS |-> times, prior |-> Mapping]
       /\ swapped' = swapped \ Redeclared /\ Process("relay", hs, Nothing)
  BY <1>4 DEF HeaderGoes
<1> HIDE DEF id
<1>11. \A i \in DOMAIN Mapping \ swapped' : Declared(Mapping[i]) /\ Mapping[i] # track =>
         Says(Over(hs, headers["relay"]), Slot(i), Id(<<"audio", Mapping[i]>>))
  <2> SUFFICES ASSUME NEW i \in DOMAIN Mapping, i \notin swapped', NEW k, k = Mapping[i],
                      Declared(k), k # track
               PROVE  Says(Over(hs, headers["relay"]), Slot(i), Id(<<"audio", k>>))
    OBVIOUS
  <2> DEFINE f == At(Carrying(track), id)
             g == Again(seq)
  <2>1. i \in Int /\ Carrying(track) \subseteq Int /\ Redeclared \subseteq Int /\ i \notin Carrying(track)
    BY Mappings DEF RouterInv, Carrying, Redeclared
  <2>2. DOMAIN f = {Slot(j) : j \in Carrying(track)} /\ DOMAIN g = {Slot(j) : j \in Redeclared}
    BY AgainIs DEF At, RouterInv
  <2>3. Slot(i) \notin DOMAIN f
    <3>1. \A j \in Carrying(track) : Slot(j) # Slot(i)
      BY <2>1, Lanes DEF RouterInv
    <3> QED BY <2>2, <3>1
  <2>4. CASE i \in Redeclared
    <3>1. Policy # "fixed" /\ k \in DOMAIN router.lastSeq /\ k \in AudioTracks
      BY <2>4 DEF Redeclared, RouterInv, RelayTypes, Declared
    <3>2. seq[k] = router.lastSeq[k]
      <4> HIDE DEF track
      <4>1. seq = Over(Only(track, id), router.lastSeq)
        BY <1>10, <3>1
      <4>2. DOMAIN Only(track, id) = {track}
        BY Single
      <4> QED BY <3>1, <4>1, <4>2 DEF Over
    <3>3. g[Slot(i)] = seq[k] /\ Slot(i) \in DOMAIN g
      BY <2>4, AgainIs DEF RouterInv
    <3>4. router.lastSeq[k] = Id(<<"audio", k>>)
      BY <3>1 DEF RouterInv, Remembered
    <3> HIDE DEF f, g
    <3>5. Slot(i) \in DOMAIN Over(f, g) /\ Over(f, g)[Slot(i)] = Id(<<"audio", k>>)
      BY <2>3, <3>2, <3>3, <3>4 DEF Over
    <3>6. hs = Over(f, g)
      BY DEF f, g
    <3> HIDE DEF hs
    <3> QED BY <3>5, <3>6, OverSays
  <2>5. CASE i \notin Redeclared
    <3>1. Says(headers["relay"], Slot(i), Id(<<"audio", k>>))
      BY <1>10, <2>5, OldSays DEF RouterInv
    <3>2. Slot(i) \notin DOMAIN g
      <4>1. \A j \in Redeclared : Slot(j) # Slot(i)
        BY <2>1, <2>5, Lanes DEF RouterInv
      <4> QED BY <2>2, <4>1
    <3> HIDE DEF f, g
    <3>3. Slot(i) \notin DOMAIN Over(f, g)
      BY <2>3, <3>2 DEF Over
    <3>4. hs = Over(f, g)
      BY DEF f, g
    <3> HIDE DEF hs
    <3> QED BY <3>1, <3>3, <3>4, OverSays
  <2> QED BY <2>4, <2>5
<1>12. \A i \in DOMAIN Mapping : Mapping[i] = track =>
         Says(Over(hs, headers["relay"]), Slot(i), id)
  <2> SUFFICES ASSUME NEW i \in DOMAIN Mapping, Mapping[i] = track
               PROVE  Says(Over(hs, headers["relay"]), Slot(i), id)
    OBVIOUS
  <2> DEFINE f == At(Carrying(track), id)
             g == Again(seq)
  <2>1. Slot(i) \in DOMAIN f /\ f[Slot(i)] = id
    BY DEF At, Carrying
  <2> HIDE DEF f, g
  <2>2. Slot(i) \in DOMAIN Over(f, g) /\ Over(f, g)[Slot(i)] = id
    BY <2>1 DEF Over
  <2>3. hs = Over(f, g)
    BY DEF f, g
  <2> HIDE DEF hs
  <2> QED BY <2>2, <2>3, OverSays
<1>13. \A l \in DOMAIN hs : IsAudio(l)
  <2> DEFINE f == At(Carrying(track), id)
             g == Again(seq)
  <2>1. DOMAIN f = {Slot(j) : j \in Carrying(track)} /\ DOMAIN g = {Slot(j) : j \in Redeclared}
    BY AgainIs DEF At, RouterInv
  <2>2. \A i : IsAudio(Slot(i))
    BY Lanes DEF RouterInv
  <2>3. \A l \in DOMAIN f \cup DOMAIN g : IsAudio(l)
    BY <2>1, <2>2
  <2> HIDE DEF f, g
  <2>4. DOMAIN Over(f, g) = DOMAIN f \cup DOMAIN g
    BY DEF Over
  <2>5. hs = Over(f, g)
    BY DEF f, g
  <2> HIDE DEF hs
  <2> QED BY <2>3, <2>4, <2>5
<1> HIDE DEF hs
<1>14. /\ LinkTypes' /\ ToldAll' /\ ListedAll' /\ InConfig' /\ Announced'
       /\ headers' = [s \in {"relay", "backup"} |->
                        IF s = "relay" THEN Over(hs, headers["relay"]) ELSE headers[s]]
  BY <1>3, <1>10, NothingIsEmpty, Processed DEF RouterInv
<1>15. FixtureTypes' /\ SwitcherTypes'
  BY <1>3, <1>14 DEF RouterInv, FixtureTypes, SwitcherTypes
<1>16. Policy # "fixed" =>
         /\ DOMAIN router'.lastSeq = {track} \cup DOMAIN router.lastSeq
         /\ router'.lastSeq[track] = id
         /\ \A t \in DOMAIN router.lastSeq : t # track => router'.lastSeq[t] = router.lastSeq[t]
  <2> SUFFICES ASSUME Policy # "fixed"
               PROVE  /\ DOMAIN router'.lastSeq = {track} \cup DOMAIN router.lastSeq
                      /\ router'.lastSeq[track] = id
                      /\ \A t \in DOMAIN router.lastSeq :
                           t # track => router'.lastSeq[t] = router.lastSeq[t]
    OBVIOUS
  <2>1. router'.lastSeq = Over(Only(track, id), router.lastSeq)
    BY <1>10
  <2> HIDE DEF track
  <2>2. DOMAIN Only(track, id) = {track} /\ Only(track, id)[track] = id
    BY Single
  <2> QED BY <2>1, <2>2 DEF Over
<1>17. RelayTypes'
  <2>1. said' \in [Roles -> 0..2]
    BY <1>2, <1>6
  <2>2. held' = <<role>> /\ said'[role] # 0
    BY <1>2, <1>6, <1>7
  <2>3. /\ router' = [lastSeq |-> router'.lastSeq, lastTS |-> router'.lastTS, prior |-> router'.prior]
        /\ router'.prior = Mapping
    BY <1>10 DEF RouterInv, RelayTypes
  <2>4. Policy # "fixed" => DOMAIN router.lastSeq = {t \in AudioTracks : Declared(t)}
    BY DEF RouterInv, RelayTypes
  <2>5. Policy # "fixed" => DOMAIN router'.lastSeq = {t \in AudioTracks : Declared(t)'}
    BY <1>1, <1>9, <1>16, <2>4
  <2>6. Mapping \in Seq(Int)
    BY Mappings DEF RouterInv
  <2> QED BY <1>3, <1>5, <1>6, <2>1, <2>2, <2>3, <2>5, <2>6 DEF RelayTypes
<1>18. Remembered'
  <2> SUFFICES ASSUME NEW t \in AudioTracks, Declared(t)', Policy # "fixed"
               PROVE  router'.lastSeq[t] = Id(<<"audio", t>>)'
    BY <1>5 DEF Remembered
  <2>1. CASE t = track
    BY <1>1, <1>8, <1>16, <2>1
  <2>2. CASE t # track
    <3>1. Declared(t) /\ t \in DOMAIN router.lastSeq
      BY <1>9, <2>2 DEF RouterInv, RelayTypes
    <3>2. <<"audio", t>> \in Roles /\ <<"audio", t>> # role
      BY <1>1, <2>2, AudioRoles
    <3> QED BY <1>8, <1>16, <2>2, <3>1, <3>2 DEF RouterInv, Remembered
  <2> QED BY <2>1, <2>2
<1>19. VideoDeclared'
  <2> SUFFICES ASSUME NEW r \in Roles, r[1] = "video", said'[r] # 0, VideoLane(r) # Nothing
               PROVE  Says(headers'["relay"], VideoLane(r), Id(r)')
    BY <1>5 DEF VideoDeclared, Says
  <2>1. r # role
    OBVIOUS
  <2>2. Says(headers["relay"], VideoLane(r), Id(r)')
    BY <1>7, <1>8, <2>1 DEF RouterInv, VideoDeclared
  <2>3. ~IsAudio(VideoLane(r))
    BY Lanes DEF RouterInv
  <2>4. VideoLane(r) \notin DOMAIN hs
    BY <1>13, <2>3
  <2> QED BY <1>14, <2>2, <2>4, OverSays
<1>20. AudioDeclared'
  <2>1. router'.prior = Mapping
    BY <1>10 DEF RouterInv, RelayTypes
  <2> SUFFICES ASSUME NEW i \in DOMAIN Mapping, i \notin swapped', NEW k, k = Mapping[i], Declared(k)'
               PROVE  Says(headers'["relay"], Slot(i), Id(<<"audio", k>>)')
    BY <1>5, <2>1 DEF AudioDeclared, Says
  <2>2. headers'["relay"] = Over(hs, headers["relay"])
    BY <1>14
  <2>3. CASE k = track
    BY <1>1, <1>8, <1>12, <2>2, <2>3
  <2>4. CASE k # track
    <3>1. Declared(k)
      BY <1>9, <2>4
    <3>2. Says(headers'["relay"], Slot(i), Id(<<"audio", k>>))
      BY <1>11, <2>2, <2>4, <3>1
    <3>3. <<"audio", k>> \in Roles /\ <<"audio", k>> # role
      BY <1>1, <2>4, <3>1, AudioRoles
    <3> QED BY <1>8, <3>2, <3>3
  <2> QED BY <2>3, <2>4
<1>21. AudioWaits'
  <2>1. \A t : ~Waits(t)'
    BY <1>5 DEF Waits
  <2> QED BY <2>1 DEF AudioWaits
<1>22. BackupDeclared'
  BY <1>3, <1>5, <1>14 DEF RouterInv, BackupDeclared, Says
<1> QED BY <1>14, <1>15, <1>17, <1>18, <1>19, <1>20, <1>21, <1>22 DEF RouterInv

\* A header of a rung.
LEMMA HeaderOfVideo ==
  ASSUME RouterInv, NEW role \in Roles, role[1] = "video", Header(role)
  PROVE  RouterInv'
<1> DEFINE id == <<role, params[role]>>
           lane == VideoLane(role)
           hs == IF lane = Nothing THEN Nothing ELSE Only(lane, id)
<1>1. /\ held = Nothing /\ held' = <<role>> /\ said' = [said EXCEPT ![role] = params[role]]
      /\ UNCHANGED <<source, platform, picked, params, clock, onAir, player, moves, router, swapped>>
      /\ Process("relay", hs, Nothing)
  BY DEF Header, Route, RouteVideo, routing
<1>2. UNCHANGED <<source, platform, picked, params, onAir, segment, remapped>>
  BY <1>1 DEF player
<1>3. /\ Mode' = Mode /\ Policy' = Policy /\ Roles' = Roles /\ AudioTracks' = AudioTracks
      /\ Mapping' = Mapping /\ BackupLanes' = BackupLanes /\ \A r : VideoLane(r)' = VideoLane(r)
  BY <1>2, Fixed, FixedMapping
<1>4. said \in [Roles -> 0..2] /\ params \in [Roles -> {1, 2}] /\ params[role] \in {1, 2}
  BY DEF RouterInv, RelayTypes
<1>5. said'[role] = params[role] /\ \A r \in Roles : r # role => said'[r] = said[r]
  BY <1>1, <1>4
<1>6. Id(role)' = id /\ \A r \in Roles : r # role => Id(r)' = Id(r)
  BY <1>5 DEF Id
<1>7. \A t : <<"audio", t>> # role
  OBVIOUS
<1>8. (\A t : Declared(t)' = Declared(t)) /\ \A t \in AudioTracks : Id(<<"audio", t>>)' = Id(<<"audio", t>>)
  BY <1>3, <1>5, <1>6, <1>7, AudioRoles DEF Declared
<1>9. \A l \in DOMAIN hs : l = lane /\ hs[l] = id
  BY NothingIsEmpty DEF Only
<1>10. lane # Nothing => lane \in DOMAIN hs
  BY DEF Only
<1> HIDE DEF id, hs
<1>11. /\ LinkTypes' /\ ToldAll' /\ ListedAll' /\ InConfig' /\ Announced'
       /\ headers' = [s \in {"relay", "backup"} |->
                        IF s = "relay" THEN Over(hs, headers["relay"]) ELSE headers[s]]
  BY <1>1, <1>2, NothingIsEmpty, Processed DEF RouterInv
<1>12. FixtureTypes' /\ SwitcherTypes'
  BY <1>2, <1>11 DEF RouterInv, FixtureTypes, SwitcherTypes
<1>13. RelayTypes'
  <2>1. said' \in [Roles -> 0..2] /\ held' = <<role>> /\ said'[role] # 0
    BY <1>1, <1>4, <1>5
  <2> QED BY <1>1, <1>2, <1>3, <1>8, <2>1 DEF RouterInv, RelayTypes
<1>14. Remembered'
  BY <1>1, <1>3, <1>8 DEF RouterInv, Remembered
<1>15. lane # Nothing => ~IsAudio(lane)
  BY Lanes DEF RouterInv
<1>16. VideoDeclared'
  <2> SUFFICES ASSUME NEW r \in Roles, r[1] = "video", said'[r] # 0, VideoLane(r) # Nothing
               PROVE  Says(headers'["relay"], VideoLane(r), Id(r)')
    BY <1>3 DEF VideoDeclared, Says
  <2>1. CASE r = role
    BY <1>6, <1>9, <1>10, <1>11, <2>1, OverSays
  <2>2. CASE r # role
    <3>1. VideoLane(r) # lane
      BY <2>2, Lanes DEF RouterInv
    <3>2. Says(headers["relay"], VideoLane(r), Id(r)')
      BY <1>5, <1>6, <2>2 DEF RouterInv, VideoDeclared
    <3> QED BY <1>9, <1>11, <3>1, <3>2, OverSays
  <2> QED BY <2>1, <2>2
<1>17. AudioDeclared'
  <2> SUFFICES ASSUME NEW i \in DOMAIN Mapping \ swapped, NEW k, k = router.prior[i], Declared(k)'
               PROVE  Says(headers'["relay"], Slot(i), Id(<<"audio", k>>)')
    BY <1>1, <1>3 DEF AudioDeclared, Says
  <2>1. \A t \in AudioTracks : ~Waits(t)
    BY <1>1 DEF Waits, Nothing
  <2>2. Declared(k) /\ k \in AudioTracks
    BY <1>8, AudioRoles
  <2>3. Says(headers["relay"], Slot(i), Id(<<"audio", k>>)')
    BY <1>8, <2>1, <2>2 DEF RouterInv, AudioDeclared
  <2>4. Slot(i) \notin DOMAIN hs
    BY <1>9, <1>15, Lanes, NothingIsEmpty DEF RouterInv, hs
  <2> QED BY <1>11, <2>3, <2>4, OverSays
<1>18. AudioWaits'
  <2>1. \A t : ~Waits(t)'
    BY <1>1, <1>7 DEF Waits
  <2> QED BY <2>1 DEF AudioWaits
<1>19. BackupDeclared'
  BY <1>2, <1>3, <1>11 DEF RouterInv, BackupDeclared, Says
<1> QED BY <1>11, <1>12, <1>13, <1>14, <1>16, <1>17, <1>18, <1>19 DEF RouterInv

\* A frame of a rung.
LEMMA FrameOfVideo ==
  ASSUME RouterInv, NEW role \in Roles, role[1] = "video", Frame(role)
  PROVE  RouterInv'
<1> DEFINE id == <<role, params[role]>>
           lane == VideoLane(role)
           fs == IF lane = Nothing THEN Nothing ELSE Only(lane, id)
<1>1. /\ held' = Nothing /\ held \in {Nothing, <<role>>} /\ said[role] = params[role]
      /\ UNCHANGED <<source, platform, picked, params, said, onAir, player, moves, router, swapped>>
      /\ Process("relay", Nothing, fs)
  BY DEF Frame, Route, RouteVideo, routing
<1>2. UNCHANGED <<source, platform, picked, params, said, onAir, segment, remapped, router, swapped>>
  BY <1>1 DEF player
<1>3. /\ Mode' = Mode /\ Policy' = Policy /\ Roles' = Roles /\ AudioTracks' = AudioTracks
      /\ Mapping' = Mapping /\ BackupLanes' = BackupLanes /\ \A r : VideoLane(r)' = VideoLane(r)
  BY <1>2, Fixed, FixedMapping
<1>4. said[role] # 0 /\ id = Id(role)
  <2>1. params[role] # 0
    BY DEF RouterInv, RelayTypes
  <2> QED BY <1>1, <2>1 DEF Id
<1>5. \A l \in DOMAIN fs : l = lane /\ fs[l] = id /\ lane # Nothing
  BY NothingIsEmpty DEF Only
<1> HIDE DEF id, fs
<1>6. \A l \in DOMAIN fs : Says(Over(Nothing, headers["relay"]), l, fs[l])
  <2> SUFFICES ASSUME NEW l \in DOMAIN fs
               PROVE  Says(Over(Nothing, headers["relay"]), l, fs[l])
    OBVIOUS
  <2>1. Says(headers["relay"], lane, Id(role))
    BY <1>4, <1>5 DEF RouterInv, VideoDeclared
  <2>2. Says(headers["relay"], l, fs[l])
    BY <1>4, <1>5, <2>1
  <2>3. l \notin DOMAIN Nothing
    BY NothingIsEmpty
  <2> QED BY <2>2, <2>3, OverSays
<1>7. platform.type = "srt" => \A l \in DOMAIN fs : l = <<"video", 0>>
  BY <1>5, Lanes DEF RouterInv
<1>8. /\ LinkTypes' /\ ToldAll' /\ ListedAll' /\ InConfig' /\ Announced'
      /\ headers' = [s \in {"relay", "backup"} |->
                       IF s = "relay" THEN Over(Nothing, headers["relay"]) ELSE headers[s]]
  BY <1>1, <1>2, <1>6, <1>7, Processed DEF RouterInv
<1>9. (\A t : Declared(t)' = Declared(t)) /\ \A r : Id(r)' = Id(r)
  BY <1>2, <1>3 DEF Declared, Id
<1>10. \A l, i : Says(headers["relay"], l, i) => Says(headers'["relay"], l, i)
  BY <1>8, OverSays, NothingIsEmpty
<1>11. FixtureTypes' /\ SwitcherTypes'
  BY <1>2, <1>8 DEF RouterInv, FixtureTypes, SwitcherTypes
<1>12. RelayTypes' /\ Remembered'
  BY <1>1, <1>2, <1>3, <1>9 DEF RouterInv, RelayTypes, Remembered
<1>13. VideoDeclared'
  <2> SUFFICES ASSUME NEW r \in Roles, r[1] = "video", said[r] # 0, VideoLane(r) # Nothing
               PROVE  Says(headers'["relay"], VideoLane(r), Id(r))
    BY <1>2, <1>3, <1>9 DEF VideoDeclared, Says
  <2> QED BY <1>10 DEF RouterInv, VideoDeclared
<1>14. AudioDeclared'
  <2> SUFFICES ASSUME NEW i \in DOMAIN Mapping \ swapped, NEW k, k = router.prior[i], Declared(k)
               PROVE  Says(headers'["relay"], Slot(i), Id(<<"audio", k>>))
    BY <1>2, <1>3, <1>9 DEF AudioDeclared, Says
  <2>1. \A t \in AudioTracks : ~Waits(t)
    <3> SUFFICES ASSUME NEW t \in AudioTracks, held = <<<<"audio", t>>>> PROVE FALSE
      BY DEF Waits
    <3> DEFINE x == <<"audio", t>>
    <3>1. held = <<x>> /\ x[1] = "audio"
      OBVIOUS
    <3> HIDE DEF x
    <3>2. held # Nothing /\ held[1] = x
      BY <3>1 DEF Nothing
    <3>3. held = <<role>>
      BY <1>1, <3>2
    <3>4. role = x
      BY <3>2, <3>3
    <3> QED BY <3>1, <3>4
  <2> QED BY <1>10, <2>1 DEF RouterInv, AudioDeclared
<1>15. AudioWaits'
  <2>1. \A t : ~Waits(t)'
    BY <1>1 DEF Waits, Nothing
  <2> QED BY <2>1 DEF AudioWaits
<1>16. BackupDeclared'
  BY <1>2, <1>3, <1>8 DEF RouterInv, BackupDeclared, Says
<1> QED BY <1>8, <1>11, <1>12, <1>13, <1>14, <1>15, <1>16 DEF RouterInv

\* What is said of the relay stands while nothing of it changes.
LEMMA RelayStays ==
  ASSUME RouterInv, UNCHANGED <<source, platform, picked, router, swapped, said, held>>,
         params' \in [Roles -> {1, 2}],
         headers'["relay"] = headers["relay"]
  PROVE  /\ FixtureTypes' /\ RelayTypes' /\ Remembered'
         /\ VideoDeclared' /\ AudioDeclared' /\ AudioWaits'
<1>1. /\ Mode' = Mode /\ Policy' = Policy /\ Roles' = Roles /\ AudioTracks' = AudioTracks
      /\ Mapping' = Mapping /\ \A r : VideoLane(r)' = VideoLane(r)
  BY Fixed, FixedMapping
<1>2. (\A t : Declared(t)' = Declared(t)) /\ (\A r : Id(r)' = Id(r)) /\ \A t : Waits(t)' = Waits(t)
  BY <1>1 DEF Declared, Id, Waits
<1>3. FixtureTypes' /\ RelayTypes' /\ Remembered'
  BY <1>1, <1>2 DEF RouterInv, FixtureTypes, RelayTypes, Remembered
<1>4. VideoDeclared'
  <2> SUFFICES ASSUME NEW r \in Roles, r[1] = "video", said[r] # 0, VideoLane(r) # Nothing
               PROVE  Says(headers'["relay"], VideoLane(r), Id(r))
    BY <1>1, <1>2 DEF VideoDeclared, Says
  <2> QED BY DEF RouterInv, VideoDeclared, Says
<1>5. AudioDeclared'
  <2> SUFFICES ASSUME \A t \in AudioTracks : ~Waits(t),
                      NEW i \in DOMAIN Mapping \ swapped, NEW k, k = router.prior[i], Declared(k)
               PROVE  Says(headers'["relay"], Slot(i), Id(<<"audio", k>>))
    BY <1>1, <1>2 DEF AudioDeclared, Says
  <2> QED BY DEF RouterInv, AudioDeclared, Says
<1>6. AudioWaits'
  <2> SUFFICES ASSUME NEW t \in AudioTracks, Waits(t), NEW i \in DOMAIN Mapping \ swapped,
                      NEW k, k = Mapping[i], Declared(k), k = t \/ k = router.prior[i]
               PROVE  Says(headers'["relay"], Slot(i), Id(<<"audio", k>>))
    BY <1>1, <1>2 DEF AudioWaits, Says
  <2> QED BY DEF RouterInv, AudioWaits, Says
<1> QED BY <1>3, <1>4, <1>5, <1>6

\* What is said of the connection stands while neither it nor the headers change.
LEMMA LinkStays ==
  ASSUME RouterInv, UNCHANGED <<platform, onAir, headers, link>>
  PROVE  LinkTypes' /\ ToldAll' /\ ListedAll' /\ InConfig' /\ Announced'
BY DEF RouterInv, LinkTypes, ConnTypes, ToldAll, Says, ListedAll, Lists, InConfig, Announced

LEMMA BackupTagsAre ==
  ASSUME segment' = segment \/ segment' = segment + 1
  PROVE  DOMAIN BackupTags = BackupLanes /\ \A l \in BackupLanes : BackupTags[l] = <<"backup", segment'>>
BY DEF BackupTags, BackupLanes

LEMMA BeginSegmentKeeps == ASSUME RouterInv, BeginSegment PROVE RouterInv'
<1>1. /\ segment' = segment + 1 /\ remapped' = FALSE
      /\ UNCHANGED <<source, platform, picked, router, swapped, params, said, held, onAir>>
      /\ Process("backup", BackupTags, Nothing)
  BY DEF BeginSegment, demuxer, routing
<1> DEFINE hs == BackupTags
<1>2. DOMAIN hs = BackupLanes /\ \A l \in BackupLanes : hs[l] = <<"backup", segment'>>
  BY <1>1, BackupTagsAre
<1> HIDE DEF hs
<1>3. Process("backup", hs, Nothing)
  BY <1>1 DEF hs
<1>4. /\ LinkTypes' /\ ToldAll' /\ ListedAll' /\ InConfig' /\ Announced'
      /\ headers' = [s \in {"relay", "backup"} |->
                       IF s = "backup" THEN Over(hs, headers["backup"]) ELSE headers[s]]
  BY <1>1, <1>3, NothingIsEmpty, Processed DEF RouterInv
<1>5. headers'["relay"] = headers["relay"] /\ params' \in [Roles -> {1, 2}]
  BY <1>1, <1>4 DEF RouterInv, RelayTypes
<1>6. /\ FixtureTypes' /\ RelayTypes' /\ Remembered'
      /\ VideoDeclared' /\ AudioDeclared' /\ AudioWaits'
  BY <1>1, <1>5, RelayStays
<1>7. SwitcherTypes'
  <2>0. segment \in Nat /\ onAir \in {"relay", "backup"}
    BY DEF RouterInv, SwitcherTypes
  <2>1. segment' \in Nat /\ onAir' \in {"relay", "backup"}
    BY <1>1, <2>0
  <2>3. remapped' \in BOOLEAN
    BY <1>1
  <2>2. headers' = [s \in {"relay", "backup"} |-> headers'[s]]
    BY <1>4
  <2> QED BY <2>1, <2>2, <2>3 DEF SwitcherTypes
<1>8. BackupDeclared'
  <2>1. BackupLanes' = BackupLanes
    BY <1>1, FixedMapping
  <2> SUFFICES ASSUME NEW l \in BackupLanes
               PROVE  Says(headers'["backup"], l, <<"backup", segment'>>)
    BY <2>1 DEF BackupDeclared, Says
  <2> QED BY <1>2, <1>4, OverSays
<1> QED BY <1>4, <1>6, <1>7, <1>8 DEF RouterInv

LEMMA SegmentFrameKeeps == ASSUME RouterInv, SegmentFrame PROVE RouterInv'
<1>1. /\ segment > 0
      /\ UNCHANGED <<source, platform, picked, router, swapped, params, said, held, onAir, segment, remapped>>
      /\ Process("backup", Nothing, BackupTags)
  BY DEF SegmentFrame, demuxer, player, routing
<1> DEFINE fs == BackupTags
<1>2. DOMAIN fs = BackupLanes /\ \A l \in BackupLanes : fs[l] = <<"backup", segment>>
  BY <1>1, BackupTagsAre
<1> HIDE DEF fs
<1>3. Process("backup", Nothing, fs)
  BY <1>1 DEF fs
<1>4. \A l \in DOMAIN fs :
        onAir # "backup" \/ Moved(l) \/ Says(Over(Nothing, headers["backup"]), l, fs[l])
  <2> SUFFICES ASSUME NEW l \in BackupLanes, ~remapped
               PROVE  Says(Over(Nothing, headers["backup"]), l, <<"backup", segment>>)
    BY <1>2 DEF Moved
  <2>1. Says(headers["backup"], l, <<"backup", segment>>)
    BY <1>1 DEF RouterInv, BackupDeclared
  <2> QED BY <2>1, NothingIsEmpty, OverSays
<1>5. platform.type = "srt" => \A l \in DOMAIN fs : IsAudio(l) \/ l = <<"video", 0>>
  <2> SUFFICES ASSUME platform.type = "srt", NEW l \in BackupLanes
               PROVE  IsAudio(l) \/ l = <<"video", 0>>
    BY <1>2
  <2>1. \A i : IsAudio(Slot(i))
    BY Lanes DEF RouterInv
  <2>2. BackupVideo = {<<"video", 0>>}
    BY Lanes DEF RouterInv, BackupVideo
  <2> QED BY <2>1, <2>2 DEF BackupLanes
<1>6. /\ LinkTypes' /\ ToldAll' /\ ListedAll' /\ InConfig' /\ Announced'
      /\ headers' = [s \in {"relay", "backup"} |->
                       IF s = "backup" THEN Over(Nothing, headers["backup"]) ELSE headers[s]]
  BY <1>1, <1>3, <1>4, <1>5, Processed DEF RouterInv
<1>7. headers'["relay"] = headers["relay"] /\ params' \in [Roles -> {1, 2}]
  BY <1>1, <1>6 DEF RouterInv, RelayTypes
<1>8. /\ FixtureTypes' /\ RelayTypes' /\ Remembered'
      /\ VideoDeclared' /\ AudioDeclared' /\ AudioWaits'
  BY <1>1, <1>7, RelayStays
<1>9. SwitcherTypes'
  BY <1>1, <1>6 DEF RouterInv, SwitcherTypes
<1>10. BackupDeclared'
  <2>1. BackupLanes' = BackupLanes
    BY <1>1, FixedMapping
  <2> SUFFICES ASSUME ~remapped, segment > 0, NEW l \in BackupLanes
               PROVE  Says(headers'["backup"], l, <<"backup", segment>>)
    BY <1>1, <2>1 DEF BackupDeclared, Says
  <2>2. Says(headers["backup"], l, <<"backup", segment>>)
    BY DEF RouterInv, BackupDeclared
  <2> QED BY <1>6, <2>2, NothingIsEmpty, OverSays
<1> QED BY <1>6, <1>8, <1>9, <1>10 DEF RouterInv

\* The slots of a mapping stay when what they carry changes.
LEMMA SameSlots ==
  ASSUME FixtureTypes, UNCHANGED <<source, platform>>,
         Mode = "multitrack_select" => DOMAIN picked'.map = DOMAIN picked.map
  PROVE  DOMAIN Mapping' = DOMAIN Mapping
<1>1. Mode' = Mode /\ Chimera' = Chimera
  BY Fixed
<1>2. CASE Mode = "multitrack_select"
  <2>1. Mapping = picked.map /\ Mapping' = picked'.map
    BY <1>1, <1>2 DEF Mapping
  <2> QED BY <1>2, <2>1
<1>3. CASE Mode \in {"chimera_select", "chimera_fixed"}
  <2>1. /\ Mapping = <<picked.live, picked.vod>>
        /\ Mapping' = <<picked'.live, picked'.vod>>
    BY <1>1, <1>3 DEF Mapping
  <2> QED BY <2>1
<1>4. CASE Mode = "eb"
  <2>1. /\ Mapping = <<picked.live, IF Chimera THEN picked.vod ELSE Unmapped>>
        /\ Mapping' = <<picked'.live, IF Chimera THEN picked'.vod ELSE Unmapped>>
    BY <1>1, <1>4 DEF Mapping
  <2> QED BY <2>1
<1>5. CASE Mode \in {"track_select", "multitrack_fixed"}
  <2>1. Mapping = <<picked.live>> /\ Mapping' = <<picked'.live>>
    BY <1>1, <1>5 DEF Mapping
  <2> QED BY <2>1
<1>6. CASE Mode = "plain_flv"
  <2>1. Mapping = <<0>> /\ Mapping' = <<0>>
    BY <1>1, <1>6 DEF Mapping
  <2> QED BY <2>1
<1> QED BY <1>2, <1>3, <1>4, <1>5, <1>6, Modes

\* Slots change between one unit and the next, or while a selected header waits for its frame.
LEMMA PickStays ==
  ASSUME RouterInv, FixtureTypes', DOMAIN Mapping' = DOMAIN Mapping,
         Policy = "fixed" => Mapping' = Mapping,
         UNCHANGED <<source, platform, router, demuxer, switcher, segment, link>>, Swap,
         remapped' \in BOOLEAN, BackupDeclared'
  PROVE  RouterInv'
<1>1. UNCHANGED <<source, platform, router, params, said, held, headers, onAir, segment, link>>
  BY DEF demuxer, switcher
<1>2. /\ Mode' = Mode /\ Policy' = Policy /\ Roles' = Roles /\ AudioTracks' = AudioTracks
      /\ \A r : VideoLane(r)' = VideoLane(r)
  BY <1>1, Fixed
<1>3. (\A t : Declared(t)' = Declared(t)) /\ (\A r : Id(r)' = Id(r)) /\ \A t : Waits(t)' = Waits(t)
  BY <1>1, <1>2 DEF Declared, Id, Waits
<1>4. RelayTypes'
  BY <1>1, <1>2, <1>3 DEF RouterInv, RelayTypes
<1>5. SwitcherTypes' /\ Remembered'
  BY <1>1, <1>2, <1>3 DEF RouterInv, SwitcherTypes, Remembered
<1>6. VideoDeclared'
  <2> SUFFICES ASSUME NEW r \in Roles, r[1] = "video", said[r] # 0, VideoLane(r) # Nothing
               PROVE  Says(headers["relay"], VideoLane(r), Id(r))
    BY <1>1, <1>2, <1>3 DEF VideoDeclared, Says
  <2> QED BY DEF RouterInv, VideoDeclared
<1>7. \A t : Waits(t) => HeaderWaits
  <2> SUFFICES ASSUME NEW t, Waits(t) PROVE HeaderWaits
    OBVIOUS
  <2> DEFINE x == <<"audio", t>>
  <2>1. x[1] = "audio"
    OBVIOUS
  <2>2. Policy = "select" /\ held = <<x>>
    BY DEF Waits
  <2> HIDE DEF x
  <2>3. held # Nothing /\ held[1] = x
    BY <2>2 DEF Nothing
  <2> QED BY <2>1, <2>2, <2>3 DEF HeaderWaits
<1>8. AudioDeclared'
  <2> SUFFICES ASSUME \A t \in AudioTracks : ~Waits(t),
                      NEW i \in DOMAIN Mapping, i \notin swapped', NEW k, k = router.prior[i], Declared(k)
               PROVE  Says(headers["relay"], Slot(i), Id(<<"audio", k>>))
    BY <1>1, <1>2, <1>3 DEF AudioDeclared, Says
  <2>1. i \notin swapped
    BY DEF Swap
  <2> QED BY <2>1 DEF RouterInv, AudioDeclared
<1>9. AudioWaits'
  <2> SUFFICES ASSUME NEW t \in AudioTracks, Waits(t), NEW i \in DOMAIN Mapping, i \notin swapped',
                      NEW k, k = Mapping'[i], Declared(k), k = t \/ k = router.prior[i]
               PROVE  Says(headers["relay"], Slot(i), Id(<<"audio", k>>))
    BY <1>1, <1>2, <1>3 DEF AudioWaits, Says
  <2>1. HeaderWaits
    BY <1>7
  <2>2. i \notin swapped /\ Mapping'[i] = Mapping[i]
    BY <2>1 DEF Swap
  <2> QED BY <2>2 DEF RouterInv, AudioWaits
<1>10. LinkTypes' /\ ToldAll' /\ ListedAll' /\ InConfig' /\ Announced'
  BY <1>1, LinkStays
<1> QED BY <1>4, <1>5, <1>6, <1>8, <1>9, <1>10 DEF RouterInv

LEMMA PickTrackKeeps ==
  ASSUME RouterInv, DualTrack, NEW t \in AudioTracks,
         picked' = [picked EXCEPT !.live = t] \/ picked' = [picked EXCEPT !.vod = t],
         UNCHANGED <<source, platform, router, demuxer, switcher, player, link>>, Swap
  PROVE  RouterInv'
<1>1. UNCHANGED <<source, platform, headers, segment, remapped>>
  BY DEF switcher, player
<1>2. FixtureTypes' /\ picked'.map = picked.map
  <2>1. t \in Int
    BY DEF RouterInv, FixtureTypes, AudioTracks
  <2>2. picked = [live |-> picked.live, vod |-> picked.vod, map |-> picked.map]
    BY DEF RouterInv, FixtureTypes
  <2>3. /\ picked' = [live |-> picked'.live, vod |-> picked'.vod, map |-> picked'.map]
        /\ picked'.live \in Int /\ picked'.vod \in Int /\ picked'.map = picked.map
    BY <2>1, <2>2 DEF RouterInv, FixtureTypes
  <2> QED BY <1>1, <2>3 DEF RouterInv, FixtureTypes
<1>3. Policy # "fixed"
  BY Policies DEF RouterInv
<1>4. DOMAIN Mapping' = DOMAIN Mapping
  BY <1>1, <1>2, SameSlots DEF RouterInv
<1>5. BackupDeclared'
  <2>1. Chimera' = Chimera /\ BackupVideo' = BackupVideo
    BY <1>1, Fixed
  <2>2. BackupSlots' = BackupSlots
    BY <1>1, <1>2, <2>1 DEF BackupSlots
  <2>3. BackupLanes' = BackupLanes
    BY <2>1, <2>2 DEF BackupLanes
  <2> QED BY <1>1, <2>3 DEF RouterInv, BackupDeclared, Says
<1>6. remapped' \in BOOLEAN
  BY <1>1 DEF RouterInv, SwitcherTypes
<1> QED BY <1>1, <1>2, <1>3, <1>4, <1>5, <1>6, PickStays DEF player

LEMMA PickMapKeeps ==
  ASSUME RouterInv, NEW m \in Maps, PickMap(m)
  PROVE  RouterInv'
<1>1. /\ platform.type = "srt" /\ picked' = [picked EXCEPT !.map = m] /\ remapped' = TRUE
      /\ UNCHANGED <<source, platform, router, demuxer, switcher, segment, link>> /\ Swap
  BY DEF PickMap
<1>2. /\ picked' = [live |-> picked.live, vod |-> picked.vod, map |-> m]
      /\ picked.live \in Int /\ picked.vod \in Int /\ picked.map \in Maps
  BY <1>1 DEF RouterInv, FixtureTypes
<1>3. m \in Seq(Int) /\ DOMAIN m = DOMAIN picked.map
  <2>1. m \in Seq(Nat \cup {Unmapped}) /\ picked.map \in Seq(Nat \cup {Unmapped}) /\ Len(m) = Len(picked.map)
    BY <1>2, MapsAssumption
  <2>2. Nat \cup {Unmapped} \subseteq Int
    BY DEF Unmapped
  <2> HIDE DEF Unmapped
  <2> QED BY <2>1, <2>2
<1>4. FixtureTypes'
  BY <1>1, <1>2, <1>3 DEF RouterInv, FixtureTypes
<1>5. DOMAIN Mapping' = DOMAIN Mapping
  BY <1>1, <1>2, <1>3, SameSlots DEF RouterInv
<1>6. Policy = "fixed" => Mapping' = Mapping
  <2> SUFFICES ASSUME Policy = "fixed" PROVE Mapping' = Mapping
    OBVIOUS
  <2>1. Mode \in {"track_select", "multitrack_fixed", "plain_flv"}
    BY <1>1, Modes, Policies DEF RouterInv
  <2>2. Mode' = Mode
    BY <1>1, Fixed
  <2>3. CASE Mode = "plain_flv"
    <3>1. Mapping = <<0>> /\ Mapping' = <<0>>
      BY <2>2, <2>3 DEF Mapping
    <3> QED BY <3>1
  <2>4. CASE Mode # "plain_flv"
    <3>1. Mapping = <<picked.live>> /\ Mapping' = <<picked'.live>>
      BY <2>1, <2>2, <2>4 DEF Mapping
    <3> QED BY <1>2, <3>1
  <2> QED BY <2>3, <2>4
<1>7. BackupDeclared'
  BY <1>1 DEF BackupDeclared
<1> QED BY <1>1, <1>4, <1>5, <1>6, <1>7, PickStays

LEMMA NewParamsKeeps ==
  ASSUME RouterInv, NEW role \in Roles, NewParams(role)
  PROVE  RouterInv'
<1>1. /\ UNCHANGED <<source, platform, picked, router, swapped, said, held, headers, onAir, segment, remapped, link>>
      /\ params' = [params EXCEPT ![role] = 2]
  BY DEF NewParams, switcher, player, routing
<1>2. params' \in [Roles -> {1, 2}] /\ headers'["relay"] = headers["relay"]
  BY <1>1 DEF RouterInv, RelayTypes
<1>3. /\ FixtureTypes' /\ RelayTypes' /\ Remembered'
      /\ VideoDeclared' /\ AudioDeclared' /\ AudioWaits'
  BY <1>1, <1>2, RelayStays
<1>4. LinkTypes' /\ ToldAll' /\ ListedAll' /\ InConfig' /\ Announced'
  BY <1>1, LinkStays
<1>5. SwitcherTypes' /\ BackupDeclared'
  BY <1>1, FixedMapping DEF RouterInv, SwitcherTypes, BackupDeclared, Says
<1> QED BY <1>3, <1>4, <1>5 DEF RouterInv

\* A new reader has declared nothing yet.
LEMMA RestartRelayKeeps == ASSUME RouterInv, RestartRelay PROVE RouterInv'
<1>1. /\ router' = NewRouter /\ swapped' = {} /\ said' = [r \in Roles |-> 0] /\ held' = Nothing
      /\ UNCHANGED <<source, platform, picked, params, headers, onAir, segment, remapped, link>>
  BY DEF RestartRelay, switcher, player
<1>2. /\ Mode' = Mode /\ Policy' = Policy /\ Roles' = Roles /\ AudioTracks' = AudioTracks
      /\ Mapping' = Mapping /\ BackupLanes' = BackupLanes
  BY <1>1, Fixed, FixedMapping
<1>3. \A r \in Roles : said'[r] = 0
  BY <1>1
<1>4. \A t : ~Declared(t)'
  BY <1>2, <1>3, AudioRoles DEF Declared
<1>5. \A t : ~Waits(t)'
  BY <1>1 DEF Waits, Nothing
<1>6. router' = [lastSeq |-> Nothing, lastTS |-> Nothing, prior |-> Mapping]
  BY <1>1 DEF NewRouter
<1>7. RelayTypes'
  <2>1. said' \in [Roles -> 0..2] /\ params' \in [Roles -> {1, 2}]
    BY <1>1 DEF RouterInv, RelayTypes
  <2>2. DOMAIN router'.lastSeq = {t \in AudioTracks : Declared(t)'}
    BY <1>4, <1>6, NothingIsEmpty
  <2>3. Mapping \in Seq(Int)
    BY Mappings DEF RouterInv
  <2>4. /\ router' = [lastSeq |-> router'.lastSeq, lastTS |-> router'.lastTS, prior |-> router'.prior]
        /\ router'.prior = Mapping
    BY <1>6
  <2> QED BY <1>1, <1>2, <2>1, <2>2, <2>3, <2>4 DEF RelayTypes
<1>8. FixtureTypes' /\ SwitcherTypes'
  BY <1>1 DEF RouterInv, FixtureTypes, SwitcherTypes
<1>9. Remembered' /\ VideoDeclared' /\ AudioDeclared' /\ AudioWaits'
  BY <1>2, <1>3, <1>4, <1>5 DEF Remembered, VideoDeclared, AudioDeclared, AudioWaits
<1>10. LinkTypes' /\ ToldAll' /\ ListedAll' /\ InConfig' /\ Announced'
  BY <1>1, LinkStays
<1>11. BackupDeclared'
  BY <1>1, <1>2 DEF RouterInv, BackupDeclared, Says
<1> QED BY <1>7, <1>8, <1>9, <1>10, <1>11 DEF RouterInv

\* A connection is told the headers of the source that takes the air.
LEMMA CutKeeps == ASSUME RouterInv, Cut PROVE RouterInv'
<1> DEFINE src == IF onAir = "relay" THEN "backup" ELSE "relay"
           hs == headers[src]
<1>1. /\ onAir' = src /\ link' = WriteHeaders(link, hs)
      /\ UNCHANGED <<source, platform, picked, router, swapped, params, said, held, headers, segment, remapped>>
  BY DEF Cut, demuxer, player, routing
<1>2. src \in {"relay", "backup"}
  OBVIOUS
<1>3. params' \in [Roles -> {1, 2}]
  BY <1>1 DEF RouterInv, RelayTypes
<1>4. /\ FixtureTypes' /\ RelayTypes' /\ Remembered'
      /\ VideoDeclared' /\ AudioDeclared' /\ AudioWaits'
  BY <1>1, <1>3, RelayStays
<1>5. SwitcherTypes' /\ BackupDeclared'
  BY <1>1, <1>2, FixedMapping DEF RouterInv, SwitcherTypes, BackupDeclared, Says
<1>6. headers'[onAir'] = hs
  BY <1>1
<1> HIDE DEF hs, src
<1>7. /\ ConnTypes(WriteHeaders(link, hs)) /\ Lists(WriteHeaders(link, hs))
      /\ WriteHeaders(link, hs).cfg = Over(hs, link.cfg)
      /\ WriteHeaders(link, hs).heard = link.heard
  BY HeadersWritten DEF RouterInv, LinkTypes, ListedAll
<1>8. LinkTypes' /\ ListedAll'
  BY <1>1, <1>7 DEF LinkTypes, ListedAll, ConnTypes, Lists
<1>9. ToldAll'
  <2> SUFFICES ASSUME NEW l \in DOMAIN hs PROVE Says(Over(hs, link.cfg), l, hs[l])
    BY <1>1, <1>6, <1>7 DEF ToldAll, Says
  <2> QED BY OverSays
<1>10. InConfig' /\ Announced'
  BY <1>1, <1>7 DEF RouterInv, InConfig, Announced
<1> QED BY <1>4, <1>5, <1>8, <1>9, <1>10 DEF RouterInv

\* A new connection is told the headers of the source on the air.
LEMMA ReconnectKeeps == ASSUME RouterInv, Reconnect PROVE RouterInv'
<1> DEFINE hs == headers[onAir]
<1>1. /\ link' = WriteHeaders(NewConn, hs)
      /\ UNCHANGED <<source, platform, picked, router, swapped, params, said, held, headers, onAir, segment, remapped>>
  BY DEF Reconnect, demuxer, player, switcher, routing
<1>2. params' \in [Roles -> {1, 2}]
  BY <1>1 DEF RouterInv, RelayTypes
<1>3. /\ FixtureTypes' /\ RelayTypes' /\ Remembered'
      /\ VideoDeclared' /\ AudioDeclared' /\ AudioWaits'
  BY <1>1, <1>2, RelayStays
<1>4. SwitcherTypes' /\ BackupDeclared'
  BY <1>1, FixedMapping DEF RouterInv, SwitcherTypes, BackupDeclared, Says
<1>5. headers'[onAir'] = hs
  BY <1>1
<1> HIDE DEF hs
<1>6. ConnTypes(NewConn) /\ Lists(NewConn) /\ DOMAIN NewConn.heard = {}
  BY NothingIsEmpty DEF ConnTypes, Lists, NewConn
<1>7. /\ ConnTypes(WriteHeaders(NewConn, hs)) /\ Lists(WriteHeaders(NewConn, hs))
      /\ WriteHeaders(NewConn, hs).cfg = Over(hs, NewConn.cfg)
      /\ WriteHeaders(NewConn, hs).heard = NewConn.heard
  BY <1>6, HeadersWritten
<1>8. LinkTypes' /\ ListedAll'
  BY <1>1, <1>7 DEF LinkTypes, ListedAll, ConnTypes, Lists
<1>9. ToldAll'
  <2> SUFFICES ASSUME NEW l \in DOMAIN hs PROVE Says(Over(hs, NewConn.cfg), l, hs[l])
    BY <1>1, <1>5, <1>7 DEF ToldAll, Says
  <2> QED BY OverSays
<1>10. InConfig' /\ Announced'
  BY <1>1, <1>6, <1>7 DEF InConfig, Announced
<1> QED BY <1>3, <1>4, <1>8, <1>9, <1>10 DEF RouterInv

LEMMA RouterInitInv == RouterInit => RouterInv
<1> SUFFICES ASSUME RouterInit PROVE RouterInv
  OBVIOUS
<1>1. FixtureTypes
  <2>1. PICK p \in Pipelines : source = p[1] /\ platform = p[2]
    BY DEF RouterInit
  <2>2. /\ source \in [audio_tracks : Nat, rungs : Nat, eb : BOOLEAN]
        /\ platform \in [type : {"rtmp", "srt"}, vod_track : BOOLEAN, video : Int]
    BY <2>1, PipelinesAssumption
  <2>3. picked \in [live : {0}, vod : {source.audio_tracks - 1},
                    map : IF platform.type = "srt" THEN Maps ELSE {<<0>>}]
    BY DEF RouterInit
  <2>4. /\ picked = [live |-> picked.live, vod |-> picked.vod, map |-> picked.map]
        /\ picked.live \in Int /\ picked.vod \in Int
        /\ picked.map \in (IF platform.type = "srt" THEN Maps ELSE {<<0>>})
    BY <2>2, <2>3
  <2>5. picked.map \in Seq(Int)
    <3>1. CASE platform.type = "srt"
      <4>1. picked.map \in Seq(Nat \cup {Unmapped})
        BY <2>4, <3>1, MapsAssumption
      <4>2. Nat \cup {Unmapped} \subseteq Int
        BY DEF Unmapped
      <4> HIDE DEF Unmapped
      <4> QED BY <4>1, <4>2
    <3>2. CASE platform.type # "srt"
      <4>1. picked.map = <<0>>
        BY <2>4, <3>2
      <4> QED BY <4>1
    <3> QED BY <3>1, <3>2
  <2> QED BY <2>2, <2>4, <2>5 DEF FixtureTypes
<1>2. /\ params = [r \in Roles |-> 1] /\ said = [r \in Roles |-> 0] /\ held = Nothing
      /\ router = NewRouter /\ swapped = {} /\ headers = [s \in {"relay", "backup"} |-> Nothing] /\ onAir = "relay"
      /\ segment = 0 /\ remapped = FALSE /\ link = NewConn
  BY DEF RouterInit
<1>3. \A t : ~Declared(t)
  BY <1>2, AudioRoles DEF Declared
<1>4. \A t : ~Waits(t)
  BY <1>2 DEF Waits, Nothing
<1>5. router = [lastSeq |-> Nothing, lastTS |-> Nothing, prior |-> Mapping]
  BY <1>2 DEF NewRouter
<1>6. RelayTypes
  <2>1. said \in [Roles -> 0..2] /\ params \in [Roles -> {1, 2}]
    BY <1>2
  <2>2. DOMAIN router.lastSeq = {t \in AudioTracks : Declared(t)}
    BY <1>3, <1>5, NothingIsEmpty
  <2>3. Mapping \in Seq(Int)
    BY <1>1, Mappings
  <2>4. /\ router = [lastSeq |-> router.lastSeq, lastTS |-> router.lastTS, prior |-> router.prior]
        /\ router.prior = Mapping
    BY <1>5
  <2> QED BY <1>2, <2>1, <2>2, <2>3, <2>4 DEF RelayTypes
<1>7. SwitcherTypes
  BY <1>2 DEF SwitcherTypes
<1>8. Remembered /\ VideoDeclared /\ AudioDeclared /\ AudioWaits
  <2>1. \A r \in Roles : said[r] = 0
    BY <1>2
  <2>2. \A i \in DOMAIN Mapping : ~Declared(router.prior[i])
    BY <1>3
  <2> QED BY <1>3, <1>4, <2>1, <2>2 DEF Remembered, VideoDeclared, AudioDeclared, AudioWaits
<1>9. BackupDeclared
  BY <1>2 DEF BackupDeclared
<1>10. /\ link = [cfg |-> Nothing, known |-> {}, listed |-> {}, dirty |-> TRUE, heard |-> Nothing]
       /\ headers[onAir] = Nothing
  BY <1>2 DEF NewConn
<1>11. LinkTypes /\ ToldAll /\ ListedAll /\ InConfig /\ Announced
  BY <1>10, NothingIsEmpty DEF LinkTypes, ConnTypes, ToldAll, ListedAll, Lists, InConfig, Announced
<1> QED BY <1>1, <1>6, <1>7, <1>8, <1>9, <1>11 DEF RouterInv

LEMMA RouterStutters == ASSUME RouterInv, UNCHANGED routerVars PROVE RouterInv'
<1>1. UNCHANGED <<source, platform, picked, router, swapped, params, said, held, headers, onAir, segment,
                  remapped, link>>
  BY DEF routerVars, demuxer, switcher, player, routing
<1>2. params' \in [Roles -> {1, 2}] /\ headers'["relay"] = headers["relay"]
  BY <1>1 DEF RouterInv, RelayTypes
<1>3. /\ FixtureTypes' /\ RelayTypes' /\ Remembered'
      /\ VideoDeclared' /\ AudioDeclared' /\ AudioWaits'
  BY <1>1, <1>2, RelayStays
<1>4. LinkTypes' /\ ToldAll' /\ ListedAll' /\ InConfig' /\ Announced'
  BY <1>1, LinkStays
<1>5. SwitcherTypes' /\ BackupDeclared'
  BY <1>1, FixedMapping DEF RouterInv, SwitcherTypes, BackupDeclared, Says
<1> QED BY <1>3, <1>4, <1>5 DEF RouterInv

LEMMA RouterNextInv == ASSUME RouterInv, [RouterNext]_routerVars PROVE RouterInv'
<1>1. ASSUME NEW r \in Roles, Header(r) PROVE RouterInv'
  BY <1>1, AudioRoles, HeaderOfSelected, HeaderOfOther, HeaderOfVideo
<1>2. ASSUME NEW r \in Roles, Frame(r) PROVE RouterInv'
  BY <1>2, AudioRoles, FrameOfAudio, FrameOfVideo
<1>3. ASSUME NEW r \in Roles, NewParams(r) PROVE RouterInv'
  BY <1>3, NewParamsKeeps
<1>4. ASSUME NEW t \in AudioTracks, PickLive(t) PROVE RouterInv'
  <2>1. /\ DualTrack /\ picked' = [picked EXCEPT !.live = t]
        /\ UNCHANGED <<source, platform, router, demuxer, switcher, player, link>> /\ Swap
    BY <1>4 DEF PickLive
  <2> QED BY <2>1, PickTrackKeeps
<1>5. ASSUME NEW t \in AudioTracks, PickVOD(t) PROVE RouterInv'
  <2>1. /\ DualTrack /\ picked' = [picked EXCEPT !.vod = t]
        /\ UNCHANGED <<source, platform, router, demuxer, switcher, player, link>> /\ Swap
    BY <1>5 DEF PickVOD
  <2> QED BY <2>1, PickTrackKeeps
<1>6. ASSUME NEW m \in Maps, PickMap(m) PROVE RouterInv'
  BY <1>6, PickMapKeeps
<1>7. CASE BeginSegment \/ SegmentFrame \/ RestartRelay \/ Cut \/ Reconnect
  BY <1>7, BeginSegmentKeeps, SegmentFrameKeeps, RestartRelayKeeps, CutKeeps, ReconnectKeeps
<1>8. CASE UNCHANGED routerVars
  BY <1>8, RouterStutters
<1> QED BY <1>1, <1>2, <1>3, <1>4, <1>5, <1>6, <1>7, <1>8 DEF RouterNext, AudioTracks

\* Routed (Router.tla): for any number of tracks, rungs and slots, and for any maps, whoever
\* listens to a lane of an output hears each frame under the header of its own track in its
\* newest form, and a multiplexed stream has announced what it carries (audio, redeclare,
\* registerSlot). Left out are slots of the backup within a segment the map has changed in,
\* and a slot changed between a selected header and its frame, until it is declared again.
THEOREM HeardInConfig == RouterSpec => []Routed
<1>1. RouterInv => Routed
  BY DEF RouterInv, Routed
<1>2. RouterInv /\ [RouterNext]_routerVars => RouterInv'
  BY RouterNextInv
<1> QED BY <1>1, <1>2, RouterInitInv, PTL DEF RouterSpec
=============================================================================
