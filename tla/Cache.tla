------------------------------- MODULE Cache --------------------------------
(***************************************************************************)
(* The cache of prepared backup segments (fallback/cache.go), shared by    *)
(* the preparers of all platforms. An artifact belongs to a key, made from *)
(* the identity of the source and the target, and is on disk with a        *)
(* sidecar next to it. GetOrBuild looks, registers in inflight under the   *)
(* lock or waits for whoever is registered, takes a slot, lets ffmpeg      *)
(* write a temporary file, writes the sidecar and renames. The service may *)
(* be killed between any two of these steps; the disk stays.               *)
(***************************************************************************)
EXTENDS Integers, FiniteSets

CONSTANTS
  Callers,        \* goroutines of preparers
  Keys,           \* a source file and a target
  Slots,          \* DefaultMaxConcurrentTranscodes
  MaxFailures,    \* bound: transcodes and publications that fail
  MaxKills        \* bound: times the service is killed

ASSUME CallersAssumption == IsFiniteSet(Callers) /\ IsFiniteSet(Keys)
ASSUME SlotsAssumption == Slots \in Nat \ {0}
ASSUME CacheBoundsAssumption == MaxFailures \in Nat /\ MaxKills \in Nat

Nobody == "nobody"
NoKey == "nokey"
ASSUME NobodyAssumption == Nobody \notin Callers /\ NoKey \notin Keys

VARIABLES
  disk,      \* what is there of the artifact of a key: its file and its sidecar
  inflight,  \* who builds a key
  calls,     \* the call each goroutine is in
  built,     \* history: how often the artifact of a key was published
  failures, kills

cacheVars == <<disk, inflight, calls, built, failures, kills>>

CallPlaces == {"idle", "missed", "waiting", "woken", "slot", "transcoding", "done", "named",
           "released", "closing"}
NoCall == [at |-> "idle", key |-> NoKey, leader |-> Nobody, answer |-> "none"]

\* A file is none or whole: ffmpeg writes to another name.
FileStates == {"none", "part", "whole"}

CacheTypeOK ==
  /\ disk \in [Keys -> [artifact : FileStates, tmp : FileStates, sidecar : BOOLEAN]]
  /\ inflight \in [Keys -> Callers \cup {Nobody}]
  /\ calls \in [Callers -> [at : CallPlaces, key : Keys \cup {NoKey}, leader : Callers \cup {Nobody},
                            answer : {"none", "path", "empty"}]]
  /\ built \in [Keys -> 0..(MaxKills + 1)]
  /\ failures \in 0..MaxFailures /\ kills \in 0..MaxKills
  /\ \A c \in Callers : calls[c].at = "idle" <=> calls[c].key = NoKey
  /\ \A k \in Keys : inflight[k] # Nobody => calls[inflight[k]].key = k

CacheInit ==
  /\ disk = [k \in Keys |-> [artifact |-> "none", tmp |-> "none", sidecar |-> FALSE]]
  /\ inflight = [k \in Keys |-> Nobody]
  /\ calls = [c \in Callers |-> NoCall]
  /\ built = [k \in Keys |-> 0]
  /\ failures = 0 /\ kills = 0

\* artifactValid
ArtifactValid(k) == disk[k].artifact # "none" /\ disk[k].sidecar

CallAt(c, place) == calls[c].at = place
MoveCall(c, place) == calls' = [calls EXCEPT ![c].at = place]
Return(c, answer) == calls' = [calls EXCEPT ![c] = [NoCall EXCEPT !.answer = answer]]
Fails == failures < MaxFailures /\ failures' = failures + 1
Busy == {c \in Callers : calls[c].at \in {"transcoding", "done", "named"}}

----------------------------------------------------------------------------
(* GetOrBuild.                                                             *)

\* The first look is without the lock. A source that is gone has no identity.
Look(c, k) ==
  /\ CallAt(c, "idle")
  /\ \/ ArtifactValid(k) /\ Return(c, "path")
     \/ ~ArtifactValid(k) /\ calls' = [calls EXCEPT ![c] = [NoCall EXCEPT !.at = "missed", !.key = k]]
  /\ UNCHANGED <<disk, inflight, built, failures, kills>>

\* Plausible defect: no second look under the lock.
RegisterUnseen(c) ==
  LET k == calls[c].key
  IN /\ CallAt(c, "missed")
     /\ IF inflight[k] = Nobody
        THEN inflight' = [inflight EXCEPT ![k] = c] /\ MoveCall(c, "slot")
        ELSE calls' = [calls EXCEPT ![c].at = "waiting", ![c].leader = inflight[k]] /\ UNCHANGED inflight
     /\ UNCHANGED <<disk, built, failures, kills>>

\* Under the lock: look again, then build or wait.
RegisterCall(c) ==
  LET k == calls[c].key
  IN /\ CallAt(c, "missed")
     /\ \/ ArtifactValid(k) /\ Return(c, "path") /\ UNCHANGED inflight
        \/ /\ ~ArtifactValid(k) /\ inflight[k] = Nobody
           /\ inflight' = [inflight EXCEPT ![k] = c] /\ MoveCall(c, "slot")
        \/ /\ ~ArtifactValid(k) /\ inflight[k] # Nobody
           /\ calls' = [calls EXCEPT ![c].at = "waiting", ![c].leader = inflight[k]]
           /\ UNCHANGED inflight
     /\ UNCHANGED <<disk, built, failures, kills>>

\* Plausible defect: one who waited goes on waiting until the artifact is there.
WokenInsists(c) ==
  /\ CallAt(c, "woken") /\ ArtifactValid(calls[c].key)
  /\ Return(c, "path")
  /\ UNCHANGED <<disk, inflight, built, failures, kills>>

\* One who waited looks once more, and has no try of its own.
Woken(c) ==
  /\ CallAt(c, "woken")
  /\ Return(c, IF ArtifactValid(calls[c].key) THEN "path" ELSE "empty")
  /\ UNCHANGED <<disk, inflight, built, failures, kills>>

\* Plausible defect: as many transcodes as there are callers.
TakeSlotAlways(c) ==
  /\ CallAt(c, "slot")
  /\ disk' = [disk EXCEPT ![calls[c].key].tmp = "part"]
  /\ MoveCall(c, "transcoding")
  /\ UNCHANGED <<inflight, built, failures, kills>>

\* Plausible defect: ffmpeg writes straight to the name of the artifact.
TakeSlotInPlace(c) ==
  /\ CallAt(c, "slot") /\ Cardinality(Busy) < Slots
  /\ disk' = [disk EXCEPT ![calls[c].key].tmp = "part", ![calls[c].key].artifact = "part"]
  /\ MoveCall(c, "transcoding")
  /\ UNCHANGED <<inflight, built, failures, kills>>

\* The slot is taken without the lock, in any order among those that wait.
TakeSlot(c) ==
  /\ CallAt(c, "slot") /\ Cardinality(Busy) < Slots
  /\ disk' = [disk EXCEPT ![calls[c].key].tmp = "part"]
  /\ MoveCall(c, "transcoding")
  /\ UNCHANGED <<inflight, built, failures, kills>>

\* transcode is left: the slot is free again.
Leave(c, answer) == calls' = [calls EXCEPT ![c].at = "released", ![c].answer = answer]

\* spawnTranscode: the temporary file is whole, or it is removed.
Transcode(c) ==
  /\ CallAt(c, "transcoding")
  /\ \/ disk' = [disk EXCEPT ![calls[c].key].tmp = "whole"] /\ MoveCall(c, "done") /\ UNCHANGED failures
     \/ disk' = [disk EXCEPT ![calls[c].key].tmp = "none"] /\ Leave(c, "empty") /\ Fails
  /\ UNCHANGED <<inflight, built, kills>>

\* publishArtifact, the sidecar first.
WriteSidecar(c) ==
  /\ CallAt(c, "done")
  /\ \/ disk' = [disk EXCEPT ![calls[c].key].sidecar = TRUE] /\ MoveCall(c, "named") /\ UNCHANGED failures
     \/ Leave(c, "empty") /\ Fails /\ UNCHANGED disk
  /\ UNCHANGED <<inflight, built, kills>>

Rename(c) ==
  LET k == calls[c].key
  IN /\ CallAt(c, "named")
     /\ \/ /\ disk' = [disk EXCEPT ![k].artifact = disk[k].tmp, ![k].tmp = "none"]
           /\ built' = [built EXCEPT ![k] = @ + 1]
           /\ Leave(c, "path") /\ UNCHANGED failures
        \/ Leave(c, "empty") /\ Fails /\ UNCHANGED <<disk, built>>
     /\ UNCHANGED <<inflight, kills>>

\* Plausible defect: a build stays registered when it is over.
UnlistForgotten(c) ==
  /\ CallAt(c, "released")
  /\ MoveCall(c, "closing")
  /\ UNCHANGED <<disk, inflight, built, failures, kills>>

Unlist(c) ==
  /\ CallAt(c, "released")
  /\ inflight' = [inflight EXCEPT ![calls[c].key] = Nobody]
  /\ MoveCall(c, "closing")
  /\ UNCHANGED <<disk, built, failures, kills>>

\* Closing the channel wakes all who wait for this build.
Close(c) ==
  /\ CallAt(c, "closing")
  /\ calls' = [d \in Callers |->
       CASE d = c -> [NoCall EXCEPT !.answer = calls[c].answer]
         [] calls[d].at = "waiting" /\ calls[d].leader = c
              -> [calls[d] EXCEPT !.at = "woken", !.leader = Nobody]
         [] OTHER -> calls[d]]
  /\ UNCHANGED <<disk, inflight, built, failures, kills>>

----------------------------------------------------------------------------
\* The service is killed and started again: what it knew is gone, the disk is not.
Kill ==
  /\ kills < MaxKills /\ kills' = kills + 1
  /\ calls' = [c \in Callers |-> NoCall]
  /\ inflight' = [k \in Keys |-> Nobody]
  /\ UNCHANGED <<disk, built, failures>>

Goes(c) ==
  \/ RegisterCall(c) \/ Woken(c) \/ Transcode(c) \/ WriteSidecar(c) \/ Rename(c) \/ Unlist(c) \/ Close(c)

CacheNext ==
  \/ \E c \in Callers : Goes(c) \/ TakeSlot(c) \/ \E k \in Keys : Look(c, k)
  \/ Kill

CacheSpec == CacheInit /\ [][CacheNext]_cacheVars

\* A goroutine runs, ffmpeg ends, and a channel serves its senders in turn.
CacheFairSpec == CacheSpec /\ \A c \in Callers : WF_cacheVars(Goes(c)) /\ SF_cacheVars(TakeSlot(c))

----------------------------------------------------------------------------
(* Properties.                                                             *)

\* What a caller takes for valid is whole, whatever was killed or failed before
\* (publishArtifact, artifactValid).
ServedWhole == \A k \in Keys : ArtifactValid(k) => disk[k].artifact = "whole"

\* Two never work on the same key, and the artifact of a key is built once, across
\* restarts too (GetOrBuild).
BuiltOnce ==
  /\ \A k \in Keys : built[k] <= 1
  /\ \A c, d \in Busy : calls[c].key = calls[d].key => c = d

\* The number of transcodes stays within the slots, and a key that is registered has
\* somebody at work on it: nobody waits for a build that is not there.
SomebodyBuilds ==
  /\ Cardinality(Busy) <= Slots
  /\ \A c \in Callers : CallAt(c, "waiting") =>
       calls[calls[c].leader].key = calls[c].key
         /\ calls[calls[c].leader].at \in {"slot", "transcoding", "done", "named", "released", "closing"}

\* Every call returns, whatever becomes of the build it waits for.
CallsReturn == \A c \in Callers : ~CallAt(c, "idle") ~> CallAt(c, "idle")

============================================================================
