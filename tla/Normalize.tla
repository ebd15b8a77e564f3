----------------------------- MODULE Normalize -----------------------------
(***************************************************************************)
(* What control/normalize.go makes of a configuration that was written by  *)
(* hand or by another version: the lists of sources, groups, platforms and *)
(* presets, each repaired item by item. A text is a sequence of parts, so  *)
(* that the suffix a slug is given can be told from its name; truthiness   *)
(* and the reading of numbers (pyval.go) are what they come to: a value    *)
(* that is no number is NotInt. A group without a name, which the code     *)
(* names after its id, is left out.                                        *)
(***************************************************************************)
EXTENDS Integers, Sequences, FiniteSets, SequencesExt, TLC

CONSTANTS Groups, Presets, Sources, Platforms,  \* the lists a configuration may hold
          MaxAudioSlots,   \* slots of a multitrack output (flv.go)
          MaxEBVideoTracks \* rungs of a ladder

\* What the constants have to satisfy, assumed where the module is instantiated.
Assumptions == {MaxAudioSlots, MaxEBVideoTracks} \subseteq Nat \ {0}

VARIABLES
  raw,    \* the configuration as it was read
  doc,    \* what it has become
  passes  \* how often it was normalised

vars == <<raw, doc, passes>>

Empty == <<>>
NotInt == -99
Nil == -1
IntOr(v, default) == IF v = NotInt THEN default ELSE v
AtLeast(v, low) == IF v < low THEN low ELSE v
AtMost(v, high) == IF v > high THEN high ELSE v

----------------------------------------------------------------------------
(* Groups and presets: items with an id.                                   *)

\* The candidates of slug: the name, then the name with a number.
Candidate(base, i) == IF i = 1 THEN base ELSE Append(base, ToString(i))

\* slug: the first one that is not taken.
Slug(name, taken, fallback) ==
  LET base == IF name = Empty THEN <<fallback>> ELSE name
      free == {i \in 1..Cardinality(taken) + 1 : Candidate(base, i) \notin taken}
  IN Candidate(base, CHOOSE i \in free : \A j \in free : i <= j)

\* Plausible defect: an id that was made up is not noted.
GroupIdUnnoted(g, taken) == IF g.id \in taken THEN Slug(g.name, {g.id}, "group") ELSE g.id

\* The id of a group: its own, unless a group before it has it.
GroupId(g, taken) == IF g.id \in taken THEN Slug(g.name, taken, "group") ELSE g.id

\* The id of a preset may also be missing.
PresetId(p, taken) ==
  IF p.id = Empty \/ p.id \in taken THEN Slug(p.name, taken, "preset") ELSE p.id

\* Plausible defect: whoever says it is the default is.
DefaultOf(items, i) == items[i].dflt

\* The first item that says so is the default one, the first of all if none does.
IsDefault(items, i) ==
  IF \E j \in DOMAIN items : items[j].dflt
  THEN items[i].dflt /\ \A j \in 1..i - 1 : ~items[j].dflt
  ELSE i = 1

DefaultGroup == [id |-> <<"default">>, name |-> <<"Default">>, dflt |-> TRUE]
DefaultPreset == [id |-> <<"default">>, name |-> <<"Default">>, dflt |-> TRUE,
                  type |-> "sequence", loop |-> TRUE]

NormalizeGroups(list) ==
  LET groups == SelectSeq(list, LAMBDA g : g.id # Empty)
      ids == FoldLeft(LAMBDA done, g : Append(done, GroupId(g, Range(done))), Empty, groups)
  IN IF groups = Empty THEN <<DefaultGroup>>
     ELSE [i \in DOMAIN groups |-> [groups[i] EXCEPT !.id = ids[i], !.dflt = IsDefault(groups, i)]]

\* A preset of an unknown type is a sequence; the default one plays backup.mp4 if it names nothing.
NormalizePresets(list) ==
  LET ids == FoldLeft(LAMBDA done, p : Append(done, PresetId(p, Range(done))), Empty, list)
      Type(t) == IF t = "folder" THEN t ELSE "sequence"
  IN IF list = Empty THEN <<DefaultPreset>>
     ELSE [i \in DOMAIN list |->
             [list[i] EXCEPT !.id = ids[i], !.dflt = IsDefault(list, i), !.type = Type(@),
                             !.loop = @ \/ (IsDefault(list, i) /\ Type(list[i].type) = "sequence")]]

----------------------------------------------------------------------------
(* Sources and platforms.                                                  *)

KnownType(t) == IF t \in {"rtmp", "srt"} THEN t ELSE "rtmp"

SourceTrackCount(s) ==
  CASE s.type = "srt" -> AtMost(AtLeast(IntOr(s.audio_tracks, 1), 1), 6)
    [] s.type = "rtmp" /\ s.vod_track -> 2
    [] OTHER -> 1

SourceVideoTracks(s) ==
  IF s.type = "rtmp" /\ s.enhanced_broadcasting /\ s.video_tracks \in 1..MaxEBVideoTracks
  THEN s.video_tracks ELSE 0

DefaultSource == [name |-> <<"Main">>, dflt |-> TRUE, type |-> "rtmp", vod_track |-> FALSE,
                  enhanced_broadcasting |-> FALSE, video_tracks |-> 0, audio_tracks |-> 1]

NormalizeSource(s) ==
  LET t == KnownType(s.type)
      u == [s EXCEPT !.type = t, !.vod_track = @ /\ t = "rtmp",
                     !.enhanced_broadcasting = @ /\ t = "rtmp"]
  IN [u EXCEPT !.video_tracks = SourceVideoTracks(u), !.audio_tracks = SourceTrackCount(u)]

\* A source is made the default one when none is; nothing is taken from those that are.
NormalizeSources(list) ==
  LET sources == SelectSeq(list, LAMBDA s : s.name # Empty)
      none == \A i \in DOMAIN sources : ~sources[i].dflt
  IN IF sources = Empty THEN <<DefaultSource>>
     ELSE [i \in DOMAIN sources |->
             NormalizeSource([sources[i] EXCEPT !.dflt = @ \/ (none /\ i = 1)])]

\* clampAudioMap: every slot carries a track of the source or nothing.
ClampAudioMap(map) ==
  LET kept == IF map = Empty THEN <<0>> ELSE SubSeq(map, 1, AtMost(Len(map), MaxAudioSlots))
  IN [i \in 1..MaxAudioSlots |->
        IF i <= Len(kept) /\ kept[i] \in 0..MaxAudioSlots - 1 THEN kept[i] ELSE Nil]

\* Plausible defect: the track is read as the form counts them.
AudioFromOne(v, default) == AtLeast(IntOr(v, default) - 1, 0)

Audio(v, default) == AtLeast(IntOr(v, default), 0)

\* Plausible defect: any platform may ask for the whole ladder.
VideoOfAnyType(v, t) == AtLeast(IntOr(v, 0), -1)

Video(v, t) == IF IntOr(v, 0) >= 0 THEN IntOr(v, 0) ELSE IF t = "rtmp" THEN -1 ELSE 0

NormalizePlatform(p) ==
  LET t == KnownType(p.type)
  IN [p EXCEPT !.type = t, !.vod_track = @ /\ t = "rtmp", !.audio = Audio(@, 0),
               !.audio_vod = Audio(@, 1), !.video = Video(@, t),
               !.audio_map = IF t = "srt" THEN ClampAudioMap(@) ELSE Empty]

NormalizePlatforms(list) ==
  LET platforms == SelectSeq(list, LAMBDA p : p.name # Empty)
  IN [i \in DOMAIN platforms |-> NormalizePlatform(platforms[i])]

----------------------------------------------------------------------------
(* A configuration is read, normalised, written, and normalised again by   *)
(* the next start of the service.                                          *)

Document(kind, list) == [kind |-> kind, list |-> list]
Documents ==
  {Document("groups", l) : l \in Groups} \cup {Document("presets", l) : l \in Presets}
  \cup {Document("sources", l) : l \in Sources} \cup {Document("platforms", l) : l \in Platforms}

Init == raw \in Documents /\ doc = raw /\ passes = 0

Normalized(d) ==
  [d EXCEPT !.list = CASE d.kind = "groups" -> NormalizeGroups(@)
                       [] d.kind = "presets" -> NormalizePresets(@)
                       [] d.kind = "sources" -> NormalizeSources(@)
                       [] d.kind = "platforms" -> NormalizePlatforms(@)]

Load == passes < 2 /\ passes' = passes + 1 /\ doc' = Normalized(doc) /\ UNCHANGED raw

Next == Load

Spec == Init /\ [][Next]_vars

----------------------------------------------------------------------------
(* Properties.                                                             *)

Defaults(list) == {i \in DOMAIN list : list[i].dflt}
HasIds(d) == d.kind \in {"groups", "presets"}

\* What is normalised stays as it is: a start of the service changes nothing that a start
\* before it wrote.
Idempotent == [][passes = 1 => UNCHANGED doc]_vars

\* No two groups, and no two presets, have one id, which would make a change by id hit
\* either (comment in NormalizeGroups).
IdsUnique ==
  passes > 0 /\ HasIds(doc) =>
    \A i, j \in DOMAIN doc.list : doc.list[i].id = doc.list[j].id => i = j

\* One group and one preset is the default, which cannot be removed (comments of
\* NormalizeGroups and NormalizePresets).
OneDefault == passes > 0 /\ HasIds(doc) => Cardinality(Defaults(doc.list)) = 1

\* So is one source (comment of NormalizeSources).
OneDefaultSource == passes > 0 /\ doc.kind = "sources" => Cardinality(Defaults(doc.list)) = 1

\* A preset whose id no other preset has keeps it: platforms refer to it by its id (comment of
\* NormalizePresets: a stable id).
IdsStay ==
  passes > 0 /\ doc.kind = "presets" =>
    \A i \in DOMAIN raw.list :
      raw.list[i].id # Empty /\ (\A j \in DOMAIN raw.list : raw.list[j].id = raw.list[i].id => j = i)
        => doc.list[i].id = raw.list[i].id

\* What the media code takes for granted of a configuration that was normalised.
TypeOK ==
  /\ passes \in 0..2
  /\ passes > 0 /\ doc.kind # "platforms" => doc.list # Empty
  /\ passes > 0 /\ doc.kind = "sources" =>
       \A i \in DOMAIN doc.list : LET s == doc.list[i] IN
         /\ s.type \in {"rtmp", "srt"} /\ s.audio_tracks \in 1..6
         /\ s.video_tracks > 0 => s.enhanced_broadcasting
         /\ s.type = "srt" => ~s.vod_track /\ ~s.enhanced_broadcasting
         /\ s.type = "rtmp" => s.audio_tracks = IF s.vod_track THEN 2 ELSE 1
  /\ passes > 0 /\ doc.kind = "platforms" =>
       \A i \in DOMAIN doc.list : LET p == doc.list[i] IN
         /\ p.audio \in Nat /\ p.audio_vod \in Nat /\ p.video >= -1
         /\ p.type = "srt" => ~p.vod_track /\ p.video >= 0 /\ Len(p.audio_map) = MaxAudioSlots
         /\ \A k \in DOMAIN p.audio_map : p.audio_map[k] \in {Nil} \cup 0..MaxAudioSlots - 1

=============================================================================
