------------------------------- MODULE Bitrate -------------------------------
(***************************************************************************)
(* The bitrate backup material is prepared for (fallback/bitrate.go, the   *)
(* measuring half of fallback/preparer.go) and the target remembered from  *)
(* one session to the next (fallback/warmstore.go). Every session measures *)
(* the live stream; what it settles on is part of the key of the cache, so *)
(* that another bitrate means another transcode of the whole preset. Video *)
(* and audio do the same with different ladders.                           *)
(***************************************************************************)
EXTENDS Integers, Sequences, FiniteSets, FiniteSetsExt, SequencesExt

CONSTANTS
  Ladder,     \* the values to settle on, in ascending order
  Step,       \* distance of the values above the ladder
  Default,    \* value of a stream that could not be measured
  Measures    \* values a measurement may have; 0: none before the timeout

ASSUME LadderAssumption ==
  /\ Ladder \in Seq(Nat \ {0}) /\ Ladder # <<>>
  /\ \A i, j \in 1..Len(Ladder) : i < j => Ladder[i] < Ladder[j]
ASSUME ValuesAssumption == Step \in Nat \ {0} /\ Default \in ToSet(Ladder) /\ Measures \subseteq Nat

Rungs == ToSet(Ladder)

----------------------------------------------------------------------------
(* The algorithms.                                                         *)

QuantizeUp(kbps) == ((kbps + Step - 1) \div Step) * Step

\* snapUp: the next value of the ladder, above it the next multiple of the step.
SnapUp(kbps) ==
  IF kbps = 0 THEN Default
  ELSE IF \E r \in Rungs : kbps <= r THEN Min({r \in Rungs : kbps <= r})
  ELSE QuantizeUp(kbps)

\* The ends of the dead band of stabilize.
Below(snapped) ==
  IF \E r \in Rungs : r < snapped THEN Max({r \in Rungs : r < snapped})
  ELSE Max({Step, snapped - Step})
Above(snapped) ==
  IF \E r \in Rungs : r > snapped THEN Min({r \in Rungs : r > snapped}) ELSE snapped + Step

\* Plausible defect: the dead band has no upper half.
StabilizeDown(snapped, previous) ==
  IF previous # 0 /\ Below(snapped) <= previous /\ previous <= snapped THEN previous ELSE snapped

\* Plausible defect: the ends of the dead band are outside.
StabilizeStrict(snapped, previous) ==
  IF previous # 0 /\ Below(snapped) < previous /\ previous < Above(snapped)
  THEN previous ELSE snapped

\* stabilize: a previous value inside the band is kept.
Stabilize(snapped, previous) ==
  IF previous # 0 /\ Below(snapped) <= previous /\ previous <= Above(snapped)
  THEN previous ELSE snapped

----------------------------------------------------------------------------
(* Sessions.                                                               *)

VARIABLES
  prev,     \* Preparer.prevTarget, 0 for none
  warm,     \* the entry of the platform in the store and in its file, 0 for none
  sessions  \* history: the last sessions, each with what it measured, remembered, chose

bitrateVars == <<prev, warm, sessions>>

Values == {SnapUp(m) : m \in Measures}

BitrateTypeOK ==
  /\ {prev, warm} \subseteq Values \cup {0}
  /\ Len(sessions) <= 3
  /\ \A i \in 1..Len(sessions) : /\ sessions[i].snapped \in Values
                                 /\ sessions[i].target \in Values
                                 /\ sessions[i].prev \in Values \cup {0}
  /\ sessions # <<>> => warm \in {0, Last(sessions).target}
  /\ warm = 0 => prev = 0

BitrateInit == prev = 0 /\ warm = 0 /\ sessions = <<>>

Remember(session) ==
  sessions' = Append(IF Len(sessions) = 3 THEN Tail(sessions) ELSE sessions, session)

\* Plausible defect: what was measured is noted, not what was settled on.
SessionNotesSnap(m) ==
  LET snapped == SnapUp(m)
  IN /\ warm' = snapped /\ UNCHANGED prev
     /\ Remember([snapped |-> snapped, prev |-> prev, target |-> Stabilize(snapped, prev)])

\* buildForLive: measure, settle, and have the store remember it (NoteBackupTarget, Put).
\* The preparer itself goes on to compare with the target it was made with.
Session(m) ==
  LET snapped == SnapUp(m) target == Stabilize(snapped, prev)
  IN /\ warm' = target /\ UNCHANGED prev
     /\ Remember([snapped |-> snapped, prev |-> prev, target |-> target])

\* The service is started again, or a preset applied: a new preparer takes its target from
\* the store (newPreparer), as the warming-up of the cache does (PrepareWarm).
NewPreparer == warm # prev /\ prev' = warm /\ UNCHANGED <<warm, sessions>>

\* The platform was renamed or removed: its entry goes at the next start (Retain), and the
\* platform that takes its name begins without one.
Retain == warm # 0 /\ warm' = 0 /\ prev' = 0 /\ sessions' = <<>>

BitrateNext == (\E m \in Measures : Session(m)) \/ NewPreparer \/ Retain

BitrateSpec == BitrateInit /\ [][BitrateNext]_bitrateVars

----------------------------------------------------------------------------
(* Properties.                                                             *)

\* Two values are neighbours when no value a measurement can snap to lies between them.
Between(a, b) == {r \in Rungs : a < r /\ r < b}
                 \cup {n \in 1..((IF b > Max(Rungs) THEN b ELSE 0) \div Step) : Max(Rungs) < n * Step
                                                             /\ a < n * Step /\ n * Step < b}
Neighbours(a, b) == Between(a, b) = {} /\ Between(b, a) = {}

\* The dead band is one rung to either side (comment of stabilize: a symmetric dead band
\* of one rung): a target is what was remembered if and only if that is a neighbour.
BandIsOneRung ==
  \A i \in 1..Len(sessions) :
    LET s == sessions[i]
    IN s.prev # 0 => s.target = (IF Neighbours(s.snapped, s.prev) THEN s.prev ELSE s.snapped)

\* It is between the lowest rung and the first value above the ladder.
BandInside ==
  \A i \in 1..Len(sessions) :
    LET s == sessions[i]
    IN /\ s.prev # 0 /\ s.snapped # Min(Rungs) /\ s.snapped <= Max(Rungs) + Step
       => s.target = (IF Neighbours(s.snapped, s.prev) THEN s.prev ELSE s.snapped)

\* Three sessions that measure neighbours do not go to and fro between two targets.
Alternates ==
  /\ Len(sessions) = 3
  /\ \A i, j \in 1..3 : Neighbours(sessions[i].snapped, sessions[j].snapped)
  /\ sessions[1].target = sessions[3].target /\ sessions[1].target # sessions[2].target

\* A stream near the limit of two rungs does not alternate between two keys of the cache,
\* two full transcodes of the preset (comment of stabilize). A preparer that outlives a
\* session compares with what it was made with, at first with nothing.
NoAlternation == ~Alternates

\* It does not when every session has a preparer that knows the target before it.
RememberedNoAlternation ==
  /\ Len(sessions) = 3 /\ \A i \in 2..3 : sessions[i].prev = sessions[i - 1].target
  /\ \A i \in 1..3 : sessions[i].snapped # Min(Rungs) /\ sessions[i].snapped <= Max(Rungs)
  => NoAlternation

=============================================================================
