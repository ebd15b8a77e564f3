---------------------------- MODULE BackupProofs ----------------------------
(***************************************************************************)
(* The backup: the parts that make its material (MCBuilds), for any number *)
(* of callers, keys, slots, failures and kills; what the player plays once *)
(* Stop has returned (Player), and what a return that was cancelled may    *)
(* still ask for (Resume), for any number of episodes, requests and        *)
(* repeats of the outro.                                                   *)
(***************************************************************************)
EXTENDS MCBuilds, Resume, FiniteSetTheorems, WellFoundedInduction, TLAPS

----------------------------------------------------------------------------
(* The cache (Cache.tla).                                                  *)

\* A caller has its key registered from the moment it builds until it has unlisted it.
Owns(call) == call.at \in {"slot", "transcoding", "done", "named", "released"}
Works(call) == call.at \in {"slot", "transcoding", "done", "named"}
Leads(call) == Owns(call) \/ call.at = "closing"

DiskType == [artifact : {"none", "whole"}, tmp : FileStates, sidecar : BOOLEAN]
CallType == [at : CallPlaces, key : Keys \cup {NoKey}, leader : Callers \cup {Nobody},
             answer : {"none", "path", "empty"}]

CacheTyped ==
  /\ disk \in [Keys -> DiskType]
  /\ inflight \in [Keys -> Callers \cup {Nobody}]
  /\ calls \in [Callers -> CallType]
  /\ built \in [Keys -> Nat]
  /\ \A c \in Callers : calls[c].at = "idle" <=> calls[c].key = NoKey

\* The registration and the caller that has it point to each other, and whoever waits
\* waits for somebody at work.
Registered ==
  /\ \A c \in Callers : Owns(calls[c]) => inflight[calls[c].key] = c
  /\ \A k \in Keys : inflight[k] # Nobody => calls[inflight[k]].key = k /\ Owns(calls[inflight[k]])
  /\ \A c \in Callers : calls[c].at = "waiting" =>
       /\ calls[c].leader \in Callers /\ calls[calls[c].leader].key = calls[c].key
       /\ Leads(calls[calls[c].leader])

\* The name of the artifact appears last and once; until then nobody has built it.
Published ==
  /\ \A k \in Keys : disk[k].artifact # "none" => disk[k].sidecar
  /\ \A k \in Keys : built[k] = IF disk[k].artifact = "none" THEN 0 ELSE 1
  /\ \A c \in Callers : Works(calls[c]) => disk[calls[c].key].artifact = "none"
  /\ \A c \in Callers : calls[c].at \in {"done", "named"} => disk[calls[c].key].tmp = "whole"
  /\ \A c \in Callers : calls[c].at = "named" => disk[calls[c].key].sidecar

SlotsKept == Cardinality(Busy) <= Slots

CInv == CacheTyped /\ Registered /\ Published /\ SlotsKept

LEMMA Names ==
  NoKey \notin Keys /\ Nobody \notin Callers /\ IsFiniteSet(Callers) /\ Slots \in Nat
BY NobodyAssumption, CallersAssumption, SlotsAssumption

LEMMA NoCallType == NoCall \in CallType /\ NoCall.at = "idle" /\ NoCall.key = NoKey
BY DEF NoCall, CallType, CallPlaces

LEMMA CacheInitially == CacheInit => CInv
<1> SUFFICES ASSUME CacheInit PROVE CInv
  OBVIOUS
<1>1. /\ disk = [k \in Keys |-> [artifact |-> "none", tmp |-> "none", sidecar |-> FALSE]]
      /\ inflight = [k \in Keys |-> Nobody]
      /\ calls = [c \in Callers |-> NoCall]
      /\ built = [k \in Keys |-> 0]
  BY DEF CacheInit
<1>2. \A c \in Callers : calls[c].at = "idle" /\ calls[c].key = NoKey
  BY <1>1, NoCallType
<1>3. CacheTyped
  BY <1>1, <1>2, NoCallType DEF CacheTyped, DiskType, FileStates
<1>4. Registered
  BY <1>1, <1>2 DEF Registered, Owns
<1>5. Published
  BY <1>1, <1>2 DEF Published, Works
<1>6. SlotsKept
  <2>1. Busy = {}
    BY <1>2 DEF Busy
  <2> QED BY <2>1, FS_EmptySet, Names DEF SlotsKept
<1> QED BY <1>3, <1>4, <1>5, <1>6 DEF CInv

----------------------------------------------------------------------------
(* Its steps. *)

LEMMA OneCall ==
  ASSUME CInv, NEW c \in Callers, NEW r \in CallType, calls' = [calls EXCEPT ![c] = r]
  PROVE  /\ calls' \in [Callers -> CallType] /\ calls'[c] = r
         /\ \A d \in Callers : d # c => calls'[d] = calls[d]
BY DEF CInv, CacheTyped

LEMMA BusyFinite == IsFiniteSet(Busy) /\ Cardinality(Busy) \in Nat
BY Names, FS_Subset, FS_CardinalityType DEF Busy

\* Nobody has taken a slot.
LEMMA NoMoreBusy ==
  ASSUME CInv,
         \A c \in Callers : calls'[c].at \in {"transcoding", "done", "named"}
                              => calls[c].at \in {"transcoding", "done", "named"}
  PROVE  SlotsKept'
<1>1. Busy' \in SUBSET Busy
  BY DEF Busy
<1>2. IsFiniteSet(Busy') /\ Cardinality(Busy') <= Cardinality(Busy)
  BY <1>1, BusyFinite, FS_Subset
<1>3. Cardinality(Busy') \in Nat
  BY <1>2, FS_CardinalityType
<1> QED BY <1>2, <1>3, BusyFinite, Names DEF CInv, SlotsKept

\* A caller that builds nothing looks, begins to wait or returns.
LEMMA Aside ==
  ASSUME CInv, NEW c \in Callers, NEW r \in CallType, calls' = [calls EXCEPT ![c] = r],
         UNCHANGED <<disk, inflight, built>>,
         ~Leads(calls[c]), r.at \in {"idle", "missed", "waiting", "woken"},
         r.at = "idle" <=> r.key = NoKey,
         r.at = "waiting" => /\ r.leader \in Callers /\ calls[r.leader].key = r.key
                             /\ Leads(calls[r.leader])
  PROVE  CInv'
<1>1. /\ calls' \in [Callers -> CallType] /\ calls'[c] = r
      /\ \A d \in Callers : d # c => calls'[d] = calls[d]
  BY OneCall
<1>2. CacheTyped'
  BY <1>1 DEF CInv, CacheTyped
<1>3. \A d \in Callers : /\ Owns(calls'[d]) <=> Owns(calls[d])
                         /\ Leads(calls'[d]) <=> Leads(calls[d])
                         /\ Works(calls'[d]) <=> Works(calls[d])
                         /\ Leads(calls[d]) => d # c
  BY <1>1 DEF Owns, Leads, Works
<1>4. Registered'
  <2>1. \A d \in Callers : Owns(calls'[d]) => inflight'[calls'[d].key] = d
    BY <1>1, <1>3 DEF CInv, Registered, Leads
  <2>2. \A k \in Keys : inflight'[k] # Nobody => calls'[inflight'[k]].key = k /\ Owns(calls'[inflight'[k]])
    <3> SUFFICES ASSUME NEW k \in Keys, inflight[k] # Nobody
                 PROVE  calls'[inflight[k]].key = k /\ Owns(calls'[inflight[k]])
      OBVIOUS
    <3>1. inflight[k] \in Callers /\ calls[inflight[k]].key = k /\ Owns(calls[inflight[k]])
      BY DEF CInv, CacheTyped, Registered
    <3> QED BY <1>1, <1>3, <3>1 DEF Leads
  <2>3. \A d \in Callers : calls'[d].at = "waiting" =>
          /\ calls'[d].leader \in Callers /\ calls'[calls'[d].leader].key = calls'[d].key
          /\ Leads(calls'[calls'[d].leader])
    <3> SUFFICES ASSUME NEW d \in Callers, calls'[d].at = "waiting"
                 PROVE  /\ calls'[d].leader \in Callers /\ calls'[calls'[d].leader].key = calls'[d].key
                        /\ Leads(calls'[calls'[d].leader])
      OBVIOUS
    <3>1. /\ calls'[d].leader \in Callers /\ calls[calls'[d].leader].key = calls'[d].key
          /\ Leads(calls[calls'[d].leader])
      BY <1>1 DEF CInv, Registered
    <3> QED BY <1>1, <1>3, <3>1
  <2> QED BY <2>1, <2>2, <2>3 DEF Registered, Owns, Leads
<1>5. Published'
  BY <1>1, <1>3 DEF CInv, Published, Works
<1>6. SlotsKept'
  BY <1>1, NoMoreBusy
<1> QED BY <1>2, <1>4, <1>5, <1>6 DEF CInv

LEMMA LookKeeps == ASSUME CInv, NEW c \in Callers, NEW k \in Keys, Look(c, k) PROVE CInv'
<1>1. calls[c].at = "idle" /\ ~Leads(calls[c]) /\ UNCHANGED <<disk, inflight, built>>
  BY DEF Look, CallAt, Leads, Owns
<1>2. CASE Return(c, "path")
  <2> DEFINE r == [NoCall EXCEPT !.answer = "path"]
  <2>1. r \in CallType /\ r.at = "idle" /\ r.key = NoKey
    BY NoCallType DEF CallType
  <2> QED BY <1>1, <1>2, <2>1, Aside DEF Return
<1>3. CASE calls' = [calls EXCEPT ![c] = [NoCall EXCEPT !.at = "missed", !.key = k]]
  <2> DEFINE r == [NoCall EXCEPT !.at = "missed", !.key = k]
  <2>1. r \in CallType /\ r.at = "missed" /\ r.key = k /\ k # NoKey
    BY NoCallType, Names DEF CallType, CallPlaces
  <2> QED BY <1>1, <1>3, <2>1, Aside
<1> QED BY <1>2, <1>3 DEF Look

\* A call that is under way has a key.
LEMMA HasKey ==
  ASSUME CInv, NEW c \in Callers, calls[c].at # "idle"
  PROVE  calls[c] \in CallType /\ calls[c].key \in Keys /\ calls[c].key # NoKey
<1>1. calls[c] \in CallType /\ calls[c].key # NoKey
  BY DEF CInv, CacheTyped
<1> QED BY <1>1 DEF CallType

LEMMA WokenKeeps == ASSUME CInv, NEW c \in Callers, Woken(c) PROVE CInv'
<1>1. calls[c].at = "woken" /\ ~Leads(calls[c]) /\ UNCHANGED <<disk, inflight, built>>
  BY DEF Woken, CallAt, Leads, Owns
<1>2. PICK answer \in {"path", "empty"} : Return(c, answer)
  BY DEF Woken
<1> DEFINE r == [NoCall EXCEPT !.answer = answer]
<1>3. r \in CallType /\ r.at = "idle" /\ r.key = NoKey
  BY NoCallType DEF CallType
<1> QED BY <1>1, <1>2, <1>3, Aside DEF Return

\* Under the lock: whoever finds nobody registered builds, and there is nothing yet.
LEMMA RegisterKeyKeeps == ASSUME CInv, NEW c \in Callers, RegisterCall(c) PROVE CInv'
<1> DEFINE k == calls[c].key
<1>1. calls[c].at = "missed" /\ ~Leads(calls[c]) /\ UNCHANGED <<disk, built>>
  BY DEF RegisterCall, CallAt, Leads, Owns
<1>2. calls[c] \in CallType /\ k \in Keys /\ k # NoKey
  BY <1>1, HasKey
<1>3. CASE Return(c, "path") /\ UNCHANGED inflight
  <2> DEFINE r == [NoCall EXCEPT !.answer = "path"]
  <2>1. r \in CallType /\ r.at = "idle" /\ r.key = NoKey
    BY NoCallType DEF CallType
  <2> QED BY <1>1, <1>3, <2>1, Aside DEF Return
<1>4. CASE /\ inflight[k] # Nobody /\ UNCHANGED inflight
           /\ calls' = [calls EXCEPT ![c].at = "waiting", ![c].leader = inflight[k]]
  <2>1. inflight[k] \in Callers /\ calls[inflight[k]].key = k /\ Leads(calls[inflight[k]])
    BY <1>2, <1>4 DEF CInv, CacheTyped, Registered, Leads
  <2> DEFINE f == inflight[k]
             r == [calls[c] EXCEPT !.at = "waiting", !.leader = f]
  <2>2. calls' = [calls EXCEPT ![c].at = "waiting", ![c].leader = f]
    BY <1>4
  <2>3. f \in Callers /\ calls[f].key = k /\ Leads(calls[f])
    BY <2>1
  <2> HIDE DEF f
  <2>4. r \in CallType /\ r.at = "waiting" /\ r.key = k /\ r.leader = f
    BY <1>2, <2>3 DEF CallType, CallPlaces
  <2>5. calls' = [calls EXCEPT ![c] = r]
    BY <2>2 DEF CInv, CacheTyped
  <2> HIDE DEF r
  <2> QED BY <1>1, <1>2, <1>4, <2>3, <2>4, <2>5, Aside
<1>5. CASE ~ArtifactValid(k) /\ inflight[k] = Nobody /\ inflight' = [inflight EXCEPT ![k] = c] /\ MoveCall(c, "slot")
  <2> DEFINE r == [calls[c] EXCEPT !.at = "slot"]
  <2>1. r \in CallType /\ r.at = "slot" /\ r.key = k
    BY <1>2 DEF CallType, CallPlaces
  <2>2. calls' = [calls EXCEPT ![c] = r]
    BY <1>5 DEF MoveCall, CInv, CacheTyped
  <2>3. /\ calls' \in [Callers -> CallType] /\ calls'[c] = r
        /\ \A d \in Callers : d # c => calls'[d] = calls[d]
    BY <2>1, <2>2, OneCall
  <2> HIDE DEF r
  <2>4. /\ inflight' \in [Keys -> Callers \cup {Nobody}] /\ inflight'[k] = c
        /\ \A l \in Keys : l # k => inflight'[l] = inflight[l]
    BY <1>2, <1>5 DEF CInv, CacheTyped
  <2>5. CacheTyped'
    BY <1>1, <1>2, <2>1, <2>3, <2>4 DEF CInv, CacheTyped
  <2>6. \A d \in Callers : Owns(calls[d]) => calls[d].key # k /\ d # c
    BY <1>1, <1>5, Names DEF CInv, Registered, Leads
  <2>7. Registered'
    <3>1. \A d \in Callers : Owns(calls'[d]) => inflight'[calls'[d].key] = d
      <4> SUFFICES ASSUME NEW d \in Callers, Owns(calls'[d]), d # c PROVE inflight'[calls'[d].key] = d
        BY <2>1, <2>3, <2>4
      <4>1. Owns(calls[d]) /\ calls'[d] = calls[d] /\ calls[d].at # "idle"
        BY <2>3 DEF Owns
      <4>2. calls[d].key \in Keys /\ calls[d].key # k /\ inflight[calls[d].key] = d
        BY <2>6, <4>1, HasKey DEF CInv, Registered
      <4> QED BY <2>4, <4>1, <4>2
    <3>2. \A l \in Keys : inflight'[l] # Nobody => calls'[inflight'[l]].key = l /\ Owns(calls'[inflight'[l]])
      <4> SUFFICES ASSUME NEW l \in Keys, inflight'[l] # Nobody
                   PROVE  calls'[inflight'[l]].key = l /\ Owns(calls'[inflight'[l]])
        OBVIOUS
      <4>1. CASE l = k
        BY <2>1, <2>3, <2>4, <4>1 DEF Owns
      <4>2. CASE l # k
        <5>1. inflight'[l] = inflight[l] /\ inflight[l] \in Callers
          BY <2>4, <4>2 DEF CInv, CacheTyped
        <5>2. calls[inflight[l]].key = l /\ Owns(calls[inflight[l]])
          BY <5>1, <4>2 DEF CInv, Registered
        <5>3. inflight[l] # c
          BY <2>6, <5>1, <5>2
        <5> QED BY <2>3, <5>1, <5>2, <5>3 DEF Owns
      <4> QED BY <4>1, <4>2
    <3>3. \A d \in Callers : calls'[d].at = "waiting" =>
            /\ calls'[d].leader \in Callers /\ calls'[calls'[d].leader].key = calls'[d].key
            /\ Leads(calls'[calls'[d].leader])
      <4> SUFFICES ASSUME NEW d \in Callers, calls'[d].at = "waiting"
                   PROVE  /\ calls'[d].leader \in Callers /\ calls'[calls'[d].leader].key = calls'[d].key
                          /\ Leads(calls'[calls'[d].leader])
        OBVIOUS
      <4>1. /\ calls'[d] = calls[d] /\ calls[d].leader \in Callers
            /\ calls[calls[d].leader].key = calls[d].key /\ Leads(calls[calls[d].leader])
        BY <2>1, <2>3 DEF CInv, Registered
      <4>2. calls[d].leader # c
        BY <1>1, <4>1
      <4> QED BY <2>3, <4>1, <4>2 DEF Leads, Owns
    <3> QED BY <3>1, <3>2, <3>3 DEF Registered, Owns, Leads
  <2>8. disk[k].artifact = "none"
    BY <1>2, <1>5 DEF ArtifactValid, CInv, CacheTyped, Published
  <2>9. Published'
    BY <1>1, <2>1, <2>3, <2>8 DEF CInv, Published, Works
  <2>10. SlotsKept'
    BY <2>1, <2>3, NoMoreBusy
  <2> QED BY <2>5, <2>7, <2>9, <2>10 DEF CInv
<1> QED BY <1>3, <1>4, <1>5 DEF RegisterCall

\* Two callers that have a key registered do not have the same one.
LEMMA OneOwner ==
  ASSUME CInv, NEW c \in Callers, NEW d \in Callers,
         Owns(calls[c]), Owns(calls[d]), calls[c].key = calls[d].key
  PROVE  c = d
BY DEF CInv, Registered

\* A builder goes on to its next place and keeps its registration.
LEMMA Ahead ==
  ASSUME CInv, NEW c \in Callers, NEW r \in CallType, calls' = [calls EXCEPT ![c] = r],
         UNCHANGED inflight, Owns(calls[c]), Owns(r), r.key = calls[c].key
  PROVE  Registered'
<1>1. /\ calls' \in [Callers -> CallType] /\ calls'[c] = r
      /\ \A d \in Callers : d # c => calls'[d] = calls[d]
  BY OneCall
<1>2. \A d \in Callers : /\ calls'[d].key = calls[d].key
                         /\ Owns(calls'[d]) <=> Owns(calls[d])
                         /\ Leads(calls[d]) => Leads(calls'[d])
  BY <1>1 DEF Leads
<1>3. \A d \in Callers : Owns(calls'[d]) => inflight'[calls'[d].key] = d
  BY <1>2 DEF CInv, Registered
<1>4. \A k \in Keys : inflight'[k] # Nobody => calls'[inflight'[k]].key = k /\ Owns(calls'[inflight'[k]])
  <2> SUFFICES ASSUME NEW k \in Keys, inflight[k] # Nobody
               PROVE  calls'[inflight[k]].key = k /\ Owns(calls'[inflight[k]])
    OBVIOUS
  <2>1. inflight[k] \in Callers /\ calls[inflight[k]].key = k /\ Owns(calls[inflight[k]])
    BY DEF CInv, CacheTyped, Registered
  <2> QED BY <1>2, <2>1
<1>5. \A d \in Callers : calls'[d].at = "waiting" =>
        /\ calls'[d].leader \in Callers /\ calls'[calls'[d].leader].key = calls'[d].key
        /\ Leads(calls'[calls'[d].leader])
  <2> SUFFICES ASSUME NEW d \in Callers, calls'[d].at = "waiting"
               PROVE  /\ calls'[d].leader \in Callers /\ calls'[calls'[d].leader].key = calls'[d].key
                      /\ Leads(calls'[calls'[d].leader])
    OBVIOUS
  <2>1. calls'[d] = calls[d]
    BY <1>1 DEF Owns
  <2>2. calls[d].leader \in Callers /\ calls[calls[d].leader].key = calls[d].key
        /\ Leads(calls[calls[d].leader])
    BY <2>1 DEF CInv, Registered
  <2> QED BY <1>2, <2>1, <2>2
<1> QED BY <1>3, <1>4, <1>5 DEF Registered

\* What a builder does, with its own key only: it becomes r, the key's files e, and the
\* key has been published n times.
BuilderMoves(c, r, e, n) ==
  /\ Owns(calls[c]) /\ Owns(r) /\ r.key = calls[c].key
  /\ calls' = [calls EXCEPT ![c] = r]
  /\ disk' = [disk EXCEPT ![r.key] = e]
  /\ built' = [built EXCEPT ![r.key] = n]
  /\ e.artifact # "none" => e.sidecar
  /\ n = IF e.artifact = "none" THEN 0 ELSE 1
  /\ Works(r) => e.artifact = "none"
  /\ r.at \in {"done", "named"} => e.tmp = "whole"
  /\ r.at = "named" => e.sidecar

\* The facts about everybody else stay.
LEMMA BuilderSteps ==
  ASSUME CInv, NEW c \in Callers, NEW r \in CallType, NEW e \in DiskType, NEW n \in Nat,
         BuilderMoves(c, r, e, n), UNCHANGED inflight
  PROVE  CacheTyped' /\ Registered' /\ Published'
<1> USE DEF BuilderMoves
<1> DEFINE k == r.key
<1>1. /\ calls' \in [Callers -> CallType] /\ calls'[c] = r
      /\ \A d \in Callers : d # c => calls'[d] = calls[d]
  BY OneCall
<1>2. calls[c].at # "idle" /\ k \in Keys /\ k # NoKey /\ r.at # "idle"
  BY HasKey DEF Owns
<1>3. /\ disk' \in [Keys -> DiskType] /\ disk'[k] = e
      /\ \A l \in Keys : l # k => disk'[l] = disk[l]
  BY <1>2 DEF CInv, CacheTyped
<1>4. /\ built' \in [Keys -> Nat] /\ built'[k] = n
      /\ \A l \in Keys : l # k => built'[l] = built[l]
  BY <1>2 DEF CInv, CacheTyped
<1>5. CacheTyped'
  BY <1>1, <1>2, <1>3, <1>4 DEF CInv, CacheTyped
<1>6. Registered'
  BY Ahead
<1>7. \A d \in Callers : d # c /\ Owns(calls[d]) => calls[d].key \in Keys /\ calls[d].key # k
  BY OneOwner, HasKey DEF Owns
<1>8. \A d \in Callers : Works(calls[d]) => Owns(calls[d])
  BY DEF Works, Owns
<1>9. Published'
  <2>1. \A l \in Keys : disk'[l].artifact # "none" => disk'[l].sidecar
    BY <1>3 DEF CInv, Published
  <2>2. \A l \in Keys : built'[l] = IF disk'[l].artifact = "none" THEN 0 ELSE 1
    BY <1>3, <1>4 DEF CInv, Published
  <2>3. \A d \in Callers : Works(calls'[d]) => disk'[calls'[d].key].artifact = "none"
    BY <1>1, <1>3, <1>7, <1>8 DEF CInv, Published
  <2>4. \A d \in Callers : calls'[d].at \in {"done", "named"} => disk'[calls'[d].key].tmp = "whole"
    BY <1>1, <1>3, <1>7, <1>8 DEF CInv, Published, Works
  <2>5. \A d \in Callers : calls'[d].at = "named" => disk'[calls'[d].key].sidecar
    BY <1>1, <1>3, <1>7, <1>8 DEF CInv, Published, Works
  <2> QED BY <2>1, <2>2, <2>3, <2>4, <2>5 DEF Published
<1> QED BY <1>5, <1>6, <1>9

\* What is known of a builder's key.
LEMMA Building ==
  ASSUME CInv, NEW c \in Callers, Owns(calls[c])
  PROVE  /\ calls[c] \in CallType /\ calls[c].key \in Keys
         /\ disk[calls[c].key] \in DiskType /\ built[calls[c].key] \in Nat
         /\ disk[calls[c].key].artifact # "none" => disk[calls[c].key].sidecar
         /\ built[calls[c].key] = IF disk[calls[c].key].artifact = "none" THEN 0 ELSE 1
         /\ Works(calls[c]) => disk[calls[c].key].artifact = "none"
         /\ calls[c].at \in {"done", "named"} => disk[calls[c].key].tmp = "whole"
         /\ calls[c].at = "named" => disk[calls[c].key].sidecar
<1>1. calls[c].at # "idle"
  BY DEF Owns
<1>2. calls[c] \in CallType /\ calls[c].key \in Keys
  BY <1>1, HasKey
<1> QED BY <1>2 DEF CInv, CacheTyped, Published

LEMMA TakeSlotKeeps == ASSUME CInv, NEW c \in Callers, TakeSlot(c) PROVE CInv'
<1> DEFINE k == calls[c].key
           r == [calls[c] EXCEPT !.at = "transcoding"]
           e == [disk[k] EXCEPT !.tmp = "part"]
<1>1. Owns(calls[c]) /\ Works(calls[c])
  BY DEF TakeSlot, CallAt, Owns, Works
<1>2. /\ r \in CallType /\ r.at = "transcoding" /\ r.key = k
      /\ e \in DiskType /\ e.artifact = "none" /\ built[k] = 0
  <2>1. calls[c] \in CallType /\ calls[c].key \in Keys /\ disk[k] \in DiskType /\ built[k] \in Nat
    BY <1>1, Building
  <2>2. disk[k].artifact = "none" /\ built[k] = 0
    BY <1>1, Building
  <2> QED BY <1>1, <2>1, <2>2 DEF CallType, CallPlaces, DiskType, FileStates
<1>3. /\ calls' = [calls EXCEPT ![c] = r] /\ disk' = [disk EXCEPT ![k] = e]
      /\ built' = [built EXCEPT ![k] = 0] /\ UNCHANGED inflight
  BY <1>1, <1>2, Building DEF TakeSlot, MoveCall, CInv, CacheTyped
<1> HIDE DEF k, r, e
<1>4. CacheTyped' /\ Registered' /\ Published'
  <2>1. BuilderMoves(c, r, e, 0)
    BY <1>1, <1>2, <1>3 DEF BuilderMoves, Owns, Works, k
  <2> QED BY <1>1, <1>2, <1>3, <2>1, BuilderSteps
<1>5. SlotsKept'
  <2>1. \A d \in Callers : d # c => calls'[d] = calls[d]
    BY <1>2, <1>3, OneCall
  <2>2. Busy' \in SUBSET (Busy \cup {c}) /\ c \notin Busy
    <3>1. c \notin Busy
      BY DEF TakeSlot, CallAt, Busy
    <3>2. \A d \in Busy' : d \in Busy \/ d = c
      BY <2>1 DEF Busy
    <3> QED BY <3>1, <3>2
  <2>3. IsFiniteSet(Busy \cup {c}) /\ Cardinality(Busy \cup {c}) = Cardinality(Busy) + 1
    BY <2>2, BusyFinite, FS_AddElement
  <2>4. IsFiniteSet(Busy') /\ Cardinality(Busy') <= Cardinality(Busy) + 1
    BY <2>2, <2>3, FS_Subset
  <2>5. Cardinality(Busy') \in Nat /\ Cardinality(Busy) < Slots
    BY <2>4, FS_CardinalityType DEF TakeSlot
  <2> QED BY <2>4, <2>5, BusyFinite, Names DEF SlotsKept
<1> QED BY <1>4, <1>5 DEF CInv

\* Who holds a slot goes on to a place where it holds one or none.
LEMMA NoNewSlot ==
  ASSUME CInv, NEW c \in Callers, NEW r \in CallType, calls' = [calls EXCEPT ![c] = r],
         calls[c].at \in {"transcoding", "done", "named"} \/ r.at \notin {"transcoding", "done", "named"}
  PROVE  SlotsKept'
BY OneCall, NoMoreBusy

LEMMA TranscodeKeeps == ASSUME CInv, NEW c \in Callers, Transcode(c) PROVE CInv'
<1> DEFINE k == calls[c].key
<1>1. Owns(calls[c]) /\ Works(calls[c]) /\ calls[c].at = "transcoding" /\ UNCHANGED <<inflight, built>>
  BY DEF Transcode, CallAt, Owns, Works
<1>2. disk[k].artifact = "none" /\ built[k] = 0 /\ built' = [built EXCEPT ![k] = 0]
  BY <1>1, Building DEF CInv, CacheTyped
<1>3. CASE disk' = [disk EXCEPT ![k].tmp = "whole"] /\ MoveCall(c, "done")
  <2> DEFINE r == [calls[c] EXCEPT !.at = "done"]
             e == [disk[k] EXCEPT !.tmp = "whole"]
  <2>1. /\ r \in CallType /\ r.at = "done" /\ r.key = k
        /\ e \in DiskType /\ e.artifact = "none" /\ e.tmp = "whole"
    <3>1. calls[c] \in CallType /\ calls[c].key \in Keys /\ disk[k] \in DiskType /\ built[k] \in Nat
      BY <1>1, Building
    <3>2. disk[k].artifact = "none" /\ built[k] = 0
      BY <1>1, Building
    <3> QED BY <1>1, <1>2, <3>1, <3>2 DEF CallType, CallPlaces, DiskType, FileStates
  <2>2. calls' = [calls EXCEPT ![c] = r] /\ disk' = [disk EXCEPT ![k] = e]
    BY <1>1, <1>3, Building DEF MoveCall, CInv, CacheTyped
  <2> HIDE DEF k, r, e
  <2>3. CacheTyped' /\ Registered' /\ Published'
    <3>1. BuilderMoves(c, r, e, 0)
      BY <1>1, <1>2, <2>1, <2>2 DEF BuilderMoves, Owns, Works, k
    <3> QED BY <1>1, <2>1, <3>1, BuilderSteps
  <2>4. SlotsKept'
    BY <1>1, <2>1, <2>2, NoNewSlot
  <2> QED BY <2>3, <2>4 DEF CInv
<1>4. CASE disk' = [disk EXCEPT ![k].tmp = "none"] /\ Leave(c, "empty")
  <2> DEFINE r == [calls[c] EXCEPT !.at = "released", !.answer = "empty"]
             e == [disk[k] EXCEPT !.tmp = "none"]
  <2>1. /\ r \in CallType /\ r.at = "released" /\ r.key = k
        /\ e \in DiskType /\ e.artifact = "none"
    <3>1. calls[c] \in CallType /\ calls[c].key \in Keys /\ disk[k] \in DiskType /\ built[k] \in Nat
      BY <1>1, Building
    <3>2. disk[k].artifact = "none" /\ built[k] = 0
      BY <1>1, Building
    <3> QED BY <1>1, <1>2, <3>1, <3>2 DEF CallType, CallPlaces, DiskType, FileStates
  <2>2. calls' = [calls EXCEPT ![c] = r] /\ disk' = [disk EXCEPT ![k] = e]
    BY <1>1, <1>4, Building DEF Leave, CInv, CacheTyped
  <2> HIDE DEF k, r, e
  <2>3. CacheTyped' /\ Registered' /\ Published'
    <3>1. BuilderMoves(c, r, e, 0)
      BY <1>1, <1>2, <2>1, <2>2 DEF BuilderMoves, Owns, Works, k
    <3> QED BY <1>1, <2>1, <3>1, BuilderSteps
  <2>4. SlotsKept'
    BY <1>1, <2>1, <2>2, NoNewSlot
  <2> QED BY <2>3, <2>4 DEF CInv
<1> QED BY <1>3, <1>4 DEF Transcode

LEMMA WriteSidecarKeeps == ASSUME CInv, NEW c \in Callers, WriteSidecar(c) PROVE CInv'
<1> DEFINE k == calls[c].key
<1>1. Owns(calls[c]) /\ Works(calls[c]) /\ calls[c].at = "done" /\ UNCHANGED <<inflight, built>>
  BY DEF WriteSidecar, CallAt, Owns, Works
<1>2. /\ disk[k].artifact = "none" /\ disk[k].tmp = "whole"
      /\ built[k] = 0 /\ built' = [built EXCEPT ![k] = 0]
  BY <1>1, Building DEF CInv, CacheTyped
<1>3. CASE disk' = [disk EXCEPT ![k].sidecar = TRUE] /\ MoveCall(c, "named")
  <2> DEFINE r == [calls[c] EXCEPT !.at = "named"]
             e == [disk[k] EXCEPT !.sidecar = TRUE]
  <2>1. /\ r \in CallType /\ r.at = "named" /\ r.key = k
        /\ e \in DiskType /\ e.artifact = "none" /\ e.tmp = "whole" /\ e.sidecar
    <3>1. calls[c] \in CallType /\ calls[c].key \in Keys /\ disk[k] \in DiskType /\ built[k] \in Nat
      BY <1>1, Building
    <3>2. disk[k].artifact = "none" /\ built[k] = 0
      BY <1>1, Building
    <3> QED BY <1>1, <1>2, <3>1, <3>2 DEF CallType, CallPlaces, DiskType, FileStates
  <2>2. calls' = [calls EXCEPT ![c] = r] /\ disk' = [disk EXCEPT ![k] = e]
    BY <1>1, <1>3, Building DEF MoveCall, CInv, CacheTyped
  <2> HIDE DEF k, r, e
  <2>3. CacheTyped' /\ Registered' /\ Published'
    <3>1. BuilderMoves(c, r, e, 0)
      BY <1>1, <1>2, <2>1, <2>2 DEF BuilderMoves, Owns, Works, k
    <3> QED BY <1>1, <2>1, <3>1, BuilderSteps
  <2>4. SlotsKept'
    BY <1>1, <2>1, <2>2, NoNewSlot
  <2> QED BY <2>3, <2>4 DEF CInv
<1>4. CASE UNCHANGED disk /\ Leave(c, "empty")
  <2> DEFINE r == [calls[c] EXCEPT !.at = "released", !.answer = "empty"]
             e == disk[k]
  <2>1. /\ r \in CallType /\ r.at = "released" /\ r.key = k
        /\ e \in DiskType /\ e.artifact = "none"
    <3>1. calls[c] \in CallType /\ calls[c].key \in Keys /\ disk[k] \in DiskType /\ built[k] \in Nat
      BY <1>1, Building
    <3>2. disk[k].artifact = "none" /\ built[k] = 0
      BY <1>1, Building
    <3> QED BY <1>1, <1>2, <3>1, <3>2 DEF CallType, CallPlaces
  <2>2. calls' = [calls EXCEPT ![c] = r] /\ disk' = [disk EXCEPT ![k] = e]
    BY <1>1, <1>4, Building DEF Leave, CInv, CacheTyped
  <2> HIDE DEF k, r, e
  <2>3. CacheTyped' /\ Registered' /\ Published'
    <3>1. BuilderMoves(c, r, e, 0)
      BY <1>1, <1>2, <2>1, <2>2 DEF BuilderMoves, Owns, Works, k
    <3> QED BY <1>1, <2>1, <3>1, BuilderSteps
  <2>4. SlotsKept'
    BY <1>1, <2>1, <2>2, NoNewSlot
  <2> QED BY <2>3, <2>4 DEF CInv
<1> QED BY <1>3, <1>4 DEF WriteSidecar

\* The artifact appears: it is what ffmpeg has finished, and its sidecar is there.
LEMMA RenameKeeps == ASSUME CInv, NEW c \in Callers, Rename(c) PROVE CInv'
<1> DEFINE k == calls[c].key
<1>1. Owns(calls[c]) /\ Works(calls[c]) /\ calls[c].at = "named" /\ UNCHANGED inflight
  BY DEF Rename, CallAt, Owns, Works
<1>2. disk[k].artifact = "none" /\ disk[k].tmp = "whole" /\ disk[k].sidecar /\ built[k] = 0
  BY <1>1, Building
<1>3. CASE /\ disk' = [disk EXCEPT ![k].artifact = disk[k].tmp, ![k].tmp = "none"]
           /\ built' = [built EXCEPT ![k] = @ + 1] /\ Leave(c, "path")
  <2> DEFINE r == [calls[c] EXCEPT !.at = "released", !.answer = "path"]
             e == [disk[k] EXCEPT !.artifact = "whole", !.tmp = "none"]
  <2>1. /\ r \in CallType /\ r.at = "released" /\ r.key = k
        /\ e \in DiskType /\ e.artifact = "whole" /\ e.sidecar
    <3>1. calls[c] \in CallType /\ calls[c].key \in Keys /\ disk[k] \in DiskType /\ built[k] \in Nat
      BY <1>1, Building
    <3>2. disk[k].artifact = "none" /\ built[k] = 0
      BY <1>1, Building
    <3> QED BY <1>1, <1>2, <3>1, <3>2 DEF CallType, CallPlaces, DiskType, FileStates
  <2>2. calls' = [calls EXCEPT ![c] = r]
    BY <1>1, <1>3, Building DEF Leave, CInv, CacheTyped
  <2>3. disk' = [disk EXCEPT ![k] = e] /\ built' = [built EXCEPT ![k] = 1]
    <3>1. disk \in [Keys -> DiskType] /\ built \in [Keys -> Nat] /\ k \in Keys
      BY <1>1, Building DEF CInv, CacheTyped
    <3>2. disk' = [disk EXCEPT ![k].artifact = "whole", ![k].tmp = "none"]
      BY <1>2, <1>3
    <3>3. disk' = [disk EXCEPT ![k] = e]
      BY <3>1, <3>2
    <3>4. built' = [built EXCEPT ![k] = 1]
      BY <1>2, <1>3, <3>1
    <3> QED BY <3>3, <3>4
  <2> HIDE DEF k, r, e
  <2>4. CacheTyped' /\ Registered' /\ Published'
    <3>1. BuilderMoves(c, r, e, 1)
      BY <1>1, <2>1, <2>2, <2>3 DEF BuilderMoves, Owns, Works, k
    <3> QED BY <1>1, <2>1, <3>1, BuilderSteps
  <2>5. SlotsKept'
    BY <1>1, <2>1, <2>2, NoNewSlot
  <2> QED BY <2>4, <2>5 DEF CInv
<1>4. CASE Leave(c, "empty") /\ UNCHANGED <<disk, built>>
  <2> DEFINE r == [calls[c] EXCEPT !.at = "released", !.answer = "empty"]
             e == disk[k]
  <2>1. /\ r \in CallType /\ r.at = "released" /\ r.key = k
        /\ e \in DiskType /\ e.artifact = "none"
    <3>1. calls[c] \in CallType /\ calls[c].key \in Keys /\ disk[k] \in DiskType /\ built[k] \in Nat
      BY <1>1, Building
    <3>2. disk[k].artifact = "none" /\ built[k] = 0
      BY <1>1, Building
    <3> QED BY <1>1, <1>2, <3>1, <3>2 DEF CallType, CallPlaces
  <2>2. /\ calls' = [calls EXCEPT ![c] = r]
        /\ disk' = [disk EXCEPT ![k] = e] /\ built' = [built EXCEPT ![k] = 0]
    BY <1>1, <1>2, <1>4, Building DEF Leave, CInv, CacheTyped
  <2> HIDE DEF k, r, e
  <2>3. CacheTyped' /\ Registered' /\ Published'
    <3>1. BuilderMoves(c, r, e, 0)
      BY <1>1, <2>1, <2>2 DEF BuilderMoves, Owns, Works, k
    <3> QED BY <1>1, <2>1, <3>1, BuilderSteps
  <2>4. SlotsKept'
    BY <1>1, <2>1, <2>2, NoNewSlot
  <2> QED BY <2>3, <2>4 DEF CInv
<1> QED BY <1>3, <1>4 DEF Rename

LEMMA UnlistKeeps == ASSUME CInv, NEW c \in Callers, Unlist(c) PROVE CInv'
<1> DEFINE k == calls[c].key
           r == [calls[c] EXCEPT !.at = "closing"]
<1>1. Owns(calls[c]) /\ calls[c].at = "released" /\ UNCHANGED <<disk, built>>
  BY DEF Unlist, CallAt, Owns
<1>2. k \in Keys /\ k # NoKey /\ inflight[k] = c
  BY <1>1, HasKey DEF Owns, CInv, Registered
<1>3. r \in CallType /\ r.at = "closing" /\ r.key = k
  BY <1>1, Building DEF CallType, CallPlaces
<1>4. calls' = [calls EXCEPT ![c] = r] /\ inflight' = [inflight EXCEPT ![k] = Nobody]
  BY DEF Unlist, MoveCall, CInv, CacheTyped
<1> HIDE DEF r
<1>5. /\ calls' \in [Callers -> CallType] /\ calls'[c] = r
      /\ \A d \in Callers : d # c => calls'[d] = calls[d]
  BY <1>3, <1>4, OneCall
<1>6. /\ inflight' \in [Keys -> Callers \cup {Nobody}] /\ inflight'[k] = Nobody
      /\ \A l \in Keys : l # k => inflight'[l] = inflight[l]
  BY <1>2, <1>4 DEF CInv, CacheTyped
<1>7. CacheTyped'
  BY <1>1, <1>2, <1>3, <1>5, <1>6 DEF CInv, CacheTyped
<1>8. Registered'
  <2>1. \A d \in Callers : Owns(calls'[d]) => inflight'[calls'[d].key] = d
    <3> SUFFICES ASSUME NEW d \in Callers, Owns(calls'[d]) PROVE inflight'[calls'[d].key] = d
      OBVIOUS
    <3>1. d # c /\ calls'[d] = calls[d] /\ Owns(calls[d]) /\ calls[d].at # "idle"
      BY <1>3, <1>5 DEF Owns
    <3>2. calls[d].key \in Keys /\ calls[d].key # k /\ inflight[calls[d].key] = d
      BY <1>1, <3>1, HasKey, OneOwner DEF CInv, Registered
    <3> QED BY <1>6, <3>1, <3>2
  <2>2. \A l \in Keys : inflight'[l] # Nobody => calls'[inflight'[l]].key = l /\ Owns(calls'[inflight'[l]])
    <3> SUFFICES ASSUME NEW l \in Keys, inflight'[l] # Nobody
                 PROVE  calls'[inflight'[l]].key = l /\ Owns(calls'[inflight'[l]])
      OBVIOUS
    <3>1. l # k /\ inflight'[l] = inflight[l] /\ inflight[l] \in Callers
      BY <1>6 DEF CInv, CacheTyped
    <3>2. calls[inflight[l]].key = l /\ Owns(calls[inflight[l]])
      BY <3>1 DEF CInv, Registered
    <3>3. inflight[l] # c
      BY <3>1, <3>2
    <3> QED BY <1>5, <3>1, <3>2, <3>3
  <2>3. \A d \in Callers : calls'[d].at = "waiting" =>
          /\ calls'[d].leader \in Callers /\ calls'[calls'[d].leader].key = calls'[d].key
          /\ Leads(calls'[calls'[d].leader])
    <3> SUFFICES ASSUME NEW d \in Callers, calls'[d].at = "waiting"
                 PROVE  /\ calls'[d].leader \in Callers /\ calls'[calls'[d].leader].key = calls'[d].key
                        /\ Leads(calls'[calls'[d].leader])
      OBVIOUS
    <3>1. calls'[d] = calls[d]
      BY <1>3, <1>5
    <3>2. /\ calls[d].leader \in Callers /\ calls[calls[d].leader].key = calls[d].key
          /\ Leads(calls[calls[d].leader])
      BY <3>1 DEF CInv, Registered
    <3>3. calls'[calls[d].leader].key = calls[calls[d].leader].key /\ Leads(calls'[calls[d].leader])
      BY <1>3, <1>5, <3>2 DEF Leads
    <3> QED BY <3>1, <3>2, <3>3
  <2> QED BY <2>1, <2>2, <2>3 DEF Registered
<1>9. Published'
  BY <1>1, <1>3, <1>5 DEF CInv, Published, Works
<1>10. SlotsKept'
  BY <1>3, <1>4, NoNewSlot
<1> QED BY <1>7, <1>8, <1>9, <1>10 DEF CInv

\* Whoever waited for the build that is over does not any more.
LEMMA CloseKeeps == ASSUME CInv, NEW c \in Callers, Close(c) PROVE CInv'
<1>1. calls[c].at = "closing" /\ ~Owns(calls[c]) /\ UNCHANGED <<disk, inflight, built>>
  BY DEF Close, CallAt, Owns
<1> DEFINE nobody == [NoCall EXCEPT !.answer = calls[c].answer]
           woken(d) == [calls[d] EXCEPT !.at = "woken", !.leader = Nobody]
           waits(d) == calls[d].at = "waiting" /\ calls[d].leader = c
<1>2. \A d \in Callers : calls[d] \in CallType
  BY DEF CInv, CacheTyped
<1>3. nobody \in CallType /\ nobody.at = "idle" /\ nobody.key = NoKey
  BY <1>2, NoCallType DEF CallType
<1>4. \A d \in Callers : woken(d) \in CallType /\ woken(d).at = "woken" /\ woken(d).key = calls[d].key
  BY <1>2 DEF CallType, CallPlaces
<1>5. /\ calls'[c] = nobody
      /\ \A d \in Callers : waits(d) => calls'[d] = woken(d)
      /\ \A d \in Callers : d # c /\ ~waits(d) => calls'[d] = calls[d]
  BY <1>1 DEF Close
<1>6. calls' = [d \in Callers |-> calls'[d]]
  <2> DEFINE v(d) == CASE d = c -> [NoCall EXCEPT !.answer = calls[c].answer]
                       [] calls[d].at = "waiting" /\ calls[d].leader = c
                            -> [calls[d] EXCEPT !.at = "woken", !.leader = Nobody]
                       [] OTHER -> calls[d]
  <2>1. calls' = [d \in Callers |-> v(d)]
    BY DEF Close
  <2> HIDE DEF v
  <2> QED BY <2>1
<1> HIDE DEF nobody, woken
<1>7. calls' \in [Callers -> CallType]
  BY <1>2, <1>3, <1>4, <1>5, <1>6
<1>8. \A d \in Callers : ~waits(d) /\ d # c => calls'[d] = calls[d]
  BY <1>5
<1>9. \A d \in Callers : Owns(calls[d]) => calls'[d] = calls[d] /\ d # c
  BY <1>1, <1>8 DEF Owns
<1>10. \A d \in Callers : Owns(calls'[d]) => Owns(calls[d])
  BY <1>3, <1>4, <1>5, <1>8 DEF Owns
<1>11. CacheTyped'
  <2>1. \A d \in Callers : calls'[d].at = "idle" <=> calls'[d].key = NoKey
    BY <1>3, <1>4, <1>5, <1>8 DEF CInv, CacheTyped
  <2> QED BY <1>1, <1>7, <2>1 DEF CInv, CacheTyped
<1>12. Registered'
  <2>1. \A d \in Callers : Owns(calls'[d]) => inflight'[calls'[d].key] = d
    BY <1>1, <1>9, <1>10 DEF CInv, Registered
  <2>2. \A l \in Keys : inflight'[l] # Nobody => calls'[inflight'[l]].key = l /\ Owns(calls'[inflight'[l]])
    <3> SUFFICES ASSUME NEW l \in Keys, inflight[l] # Nobody
                 PROVE  calls'[inflight[l]].key = l /\ Owns(calls'[inflight[l]])
      BY <1>1
    <3>1. inflight[l] \in Callers /\ calls[inflight[l]].key = l /\ Owns(calls[inflight[l]])
      BY DEF CInv, CacheTyped, Registered
    <3> QED BY <1>9, <3>1
  <2>3. \A d \in Callers : calls'[d].at = "waiting" =>
          /\ calls'[d].leader \in Callers /\ calls'[calls'[d].leader].key = calls'[d].key
          /\ Leads(calls'[calls'[d].leader])
    <3> SUFFICES ASSUME NEW d \in Callers, calls'[d].at = "waiting"
                 PROVE  /\ calls'[d].leader \in Callers /\ calls'[calls'[d].leader].key = calls'[d].key
                        /\ Leads(calls'[calls'[d].leader])
      OBVIOUS
    <3>1. calls'[d] = calls[d] /\ ~waits(d)
      BY <1>3, <1>4, <1>5
    <3>2. /\ calls[d].leader \in Callers /\ calls[d].leader # c
          /\ calls[calls[d].leader].key = calls[d].key /\ Leads(calls[calls[d].leader])
      BY <3>1 DEF CInv, Registered
    <3>3. ~waits(calls[d].leader)
      BY <3>2 DEF Leads, Owns
    <3> QED BY <1>8, <3>1, <3>2, <3>3
  <2> QED BY <2>1, <2>2, <2>3 DEF Registered
<1>13. \A d \in Callers : calls'[d].at \in {"slot", "transcoding", "done", "named"} =>
         calls'[d] = calls[d]
  BY <1>9, <1>10 DEF Owns
<1>14. Published'
  BY <1>1, <1>13 DEF CInv, Published, Works
<1>15. SlotsKept'
  BY <1>13, NoMoreBusy
<1> QED BY <1>11, <1>12, <1>14, <1>15 DEF CInv

\* The service is killed: nobody is at work, and the disk says as much as before.
LEMMA KillCacheKeeps == ASSUME CInv, Kill PROVE CInv'
<1>1. /\ calls' = [c \in Callers |-> NoCall] /\ inflight' = [k \in Keys |-> Nobody]
      /\ UNCHANGED <<disk, built>>
  BY DEF Kill
<1>2. \A c \in Callers : calls'[c].at = "idle" /\ calls'[c].key = NoKey
  BY <1>1, NoCallType
<1>3. CacheTyped'
  BY <1>1, <1>2, NoCallType DEF CInv, CacheTyped
<1>4. Registered'
  BY <1>1, <1>2 DEF Registered, Owns
<1>5. Published'
  BY <1>1, <1>2 DEF CInv, Published, Works
<1>6. SlotsKept'
  BY <1>2, NoMoreBusy
<1> QED BY <1>3, <1>4, <1>5, <1>6 DEF CInv

LEMMA CacheKeeps == CInv /\ [CacheNext]_cacheVars => CInv'
<1> SUFFICES ASSUME CInv, [CacheNext]_cacheVars PROVE CInv'
  OBVIOUS
<1>1. CASE UNCHANGED cacheVars
  <2>1. UNCHANGED <<disk, inflight, calls, built>>
    BY <1>1 DEF cacheVars
  <2> QED BY <2>1 DEF CInv, CacheTyped, Registered, Published, SlotsKept, Busy
<1>2. CASE Kill
  BY <1>2, KillCacheKeeps
<1>3. ASSUME NEW c \in Callers, Goes(c) PROVE CInv'
  BY <1>3, RegisterKeyKeeps, WokenKeeps, TranscodeKeeps, WriteSidecarKeeps, RenameKeeps,
     UnlistKeeps, CloseKeeps DEF Goes
<1>4. ASSUME NEW c \in Callers, TakeSlot(c) PROVE CInv'
  BY <1>4, TakeSlotKeeps
<1>5. ASSUME NEW c \in Callers, NEW k \in Keys, Look(c, k) PROVE CInv'
  BY <1>5, LookKeeps
<1> QED BY <1>1, <1>2, <1>3, <1>4, <1>5 DEF CacheNext

LEMMA CacheOften == MCSpec => []CInv
<1>1. MCInit => CInv
  BY CacheInitially DEF MCInit
<1>2. CInv /\ [MCNext]_MCvars => CInv'
  <2>1. [MCNext]_MCvars => [CacheNext]_cacheVars
    BY DEF MCNext, OfCache, OfPreparer, OfBitrate, MCvars
  <2> QED BY <2>1, CacheKeeps
<1> QED BY <1>1, <1>2, PTL DEF MCSpec

\* What a caller of the cache takes for valid is whole, whatever failed or was killed
\* before: the artifact appears under its name last and complete (publishArtifact).
THEOREM Whole == MCSpec => []ServedWhole
<1>1. CInv => ServedWhole
  BY DEF CInv, CacheTyped, DiskType, ServedWhole, ArtifactValid
<1> QED BY <1>1, CacheOften, PTL

\* Two never build the same key at a time, and the artifact of a key is built once,
\* across restarts too (GetOrBuild).
THEOREM Once == MCSpec => []BuiltOnce
<1>1. CInv => BuiltOnce
  <2> SUFFICES ASSUME CInv PROVE BuiltOnce
    OBVIOUS
  <2>1. \A k \in Keys : built[k] <= 1
    BY DEF CInv, Published
  <2>2. \A c, d \in Busy : calls[c].key = calls[d].key => c = d
    BY OneOwner DEF Busy, Owns
  <2> QED BY <2>1, <2>2 DEF BuiltOnce
<1> QED BY <1>1, CacheOften, PTL

\* No more transcodes run than there are slots, and whoever waits for a build waits for
\* somebody who is at it (GetOrBuild, DefaultMaxConcurrentTranscodes).
THEOREM NobodyWaitsInVain == MCSpec => []SomebodyBuilds
<1>1. CInv => SomebodyBuilds
  BY DEF CInv, Registered, SlotsKept, SomebodyBuilds, CallAt, Leads, Owns
<1> QED BY <1>1, CacheOften, PTL

----------------------------------------------------------------------------
(* Sequences and their items. *)

LEMMA ToSetIs ==
  ASSUME NEW T, NEW s \in Seq(T)
  PROVE  DOMAIN s = 1..Len(s) /\ Len(s) \in Nat /\ ToSet(s) = {s[i] : i \in 1..Len(s)}
BY DEF ToSet

LEMMA Items == ASSUME NEW T, NEW s \in Seq(T) PROVE ToSet(s) \in SUBSET T /\ IsFiniteSet(ToSet(s))
<1>1. ToSet(s) = {s[i] : i \in 1..Len(s)} /\ ToSet(s) \in SUBSET T
  BY DEF ToSet
<1>2. s \in Surjection(1..Len(s), ToSet(s))
  BY <1>1 DEF Surjection
<1>3. IsFiniteSet(1..Len(s))
  BY FS_Interval
<1> QED BY <1>1, <1>2, <1>3, FS_Surjection

LEMMA SetToSeqItems ==
  ASSUME NEW S, IsFiniteSet(S)
  PROVE  /\ SetToSeq(S) \in Seq(S) /\ ToSet(SetToSeq(S)) = S /\ IsInjective(SetToSeq(S))
<1> DEFINE n == Cardinality(S)
           f == SetToSeq(S)
<1>1. n \in Nat /\ ExistsBijection(1..n, S)
  BY FS_CardinalityType
<1>2. \E g \in [1..n -> S] : IsInjective(g)
  BY <1>1 DEF ExistsBijection, Bijection, Injection, Surjection, IsInjective
<1>3. f \in [1..n -> S] /\ IsInjective(f)
  BY <1>2 DEF SetToSeq
<1>4. f \in Injection(1..n, S)
  BY <1>3 DEF Injection, IsInjective
<1>5. IsFiniteSet(1..n) /\ Cardinality(1..n) = n
  BY <1>1, FS_Interval
<1>6. f \in Surjection(1..n, S)
  BY <1>4, <1>5, FS_Injection
<1> HIDE DEF f
<1>7. f \in Seq(S) /\ ToSet(f) = S
  BY <1>1, <1>3, <1>6 DEF ToSet, Surjection
<1> QED BY <1>3, <1>7 DEF f

LEMMA Joined ==
  ASSUME NEW T, NEW s \in Seq(T), NEW t \in Seq(T)
  PROVE  /\ s \o t \in Seq(T) /\ ToSet(s \o t) = ToSet(s) \cup ToSet(t)
         /\ IsInjective(s) /\ IsInjective(t) /\ ToSet(s) \cap ToSet(t) = {} => IsInjective(s \o t)
<1>1. s \o t \in Seq(T) /\ Len(s \o t) = Len(s) + Len(t) /\ DOMAIN (s \o t) = 1..(Len(s) + Len(t))
  OBVIOUS
<1>2. /\ \A i \in 1..Len(s) : (s \o t)[i] = s[i]
      /\ \A i \in 1..Len(t) : (s \o t)[Len(s) + i] = t[i]
  OBVIOUS
<1>3. \A i \in 1..(Len(s) + Len(t)) : i \in 1..Len(s) \/ (i - Len(s) \in 1..Len(t) /\ Len(s) + (i - Len(s)) = i)
  OBVIOUS
<1> DEFINE u == s \o t
<1>4. /\ u \in Seq(T) /\ Len(u) = Len(s) + Len(t) /\ DOMAIN u = 1..(Len(s) + Len(t))
      /\ \A i \in 1..Len(s) : u[i] = s[i]
      /\ \A i \in 1..Len(t) : u[Len(s) + i] = t[i]
      /\ \A i \in 1..Len(u) : i \in 1..Len(s) \/ (i - Len(s) \in 1..Len(t) /\ u[i] = t[i - Len(s)])
  <2>1. \A i \in 1..Len(u) : i \in 1..Len(s) \/ (i - Len(s) \in 1..Len(t) /\ u[i] = t[i - Len(s)])
    BY <1>1, <1>3, <1>2
  <2> QED BY <1>1, <1>2, <2>1
<1> HIDE DEF u
<1>5. \A i \in 1..Len(s) : i \in 1..Len(u)
  BY <1>4
<1>6. \A i \in 1..Len(t) : Len(s) + i \in 1..Len(u)
  BY <1>4
<1>7. ToSet(u) = ToSet(s) \cup ToSet(t)
  <2>1. \A x \in ToSet(u) : x \in ToSet(s) \/ x \in ToSet(t)
    BY <1>4 DEF ToSet
  <2>2. \A x \in ToSet(s) : x \in ToSet(u)
    BY <1>4, <1>5 DEF ToSet
  <2>3. \A x \in ToSet(t) : x \in ToSet(u)
    <3> SUFFICES ASSUME NEW i \in 1..Len(t) PROVE t[i] \in ToSet(u)
      BY ToSetIs
    <3>1. Len(s) + i \in 1..Len(u) /\ u[Len(s) + i] = t[i]
      BY <1>4, <1>6
    <3> QED BY <1>4, <3>1, ToSetIs
  <2> QED BY <2>1, <2>2, <2>3
<1>8. ASSUME IsInjective(s), IsInjective(t), ToSet(s) \cap ToSet(t) = {} PROVE IsInjective(u)
  <2> SUFFICES ASSUME NEW i \in 1..Len(u), NEW j \in 1..Len(u), u[i] = u[j] PROVE i = j
    BY <1>4 DEF IsInjective
  <2>1. CASE i \in 1..Len(s) /\ j \in 1..Len(s)
    BY <1>4, <1>8, <2>1 DEF IsInjective
  <2>2. CASE i \notin 1..Len(s) /\ j \notin 1..Len(s)
    <3>1. i - Len(s) \in 1..Len(t) /\ j - Len(s) \in 1..Len(t) /\ t[i - Len(s)] = t[j - Len(s)]
      BY <1>4, <2>2
    <3>2. i - Len(s) = j - Len(s)
      BY <1>8, <3>1 DEF IsInjective
    <3> QED BY <3>2
  <2>3. \A a \in 1..Len(s), b \in 1..Len(t) : s[a] # t[b]
    <3>1. \A a \in 1..Len(s) : s[a] \in ToSet(s)
      BY ToSetIs
    <3>2. \A b \in 1..Len(t) : t[b] \in ToSet(t)
      BY ToSetIs
    <3> QED BY <1>8, <3>1, <3>2
  <2>4. CASE i \in 1..Len(s) /\ j \notin 1..Len(s)
    BY <1>4, <2>3, <2>4
  <2>5. CASE i \notin 1..Len(s) /\ j \in 1..Len(s)
    BY <1>4, <2>3, <2>5
  <2> QED BY <2>1, <2>2, <2>4, <2>5
<1> QED BY <1>4, <1>7, <1>8 DEF u

LEMMA Appended ==
  ASSUME NEW T, NEW s \in Seq(T), NEW x \in T
  PROVE  /\ Append(s, x) \in Seq(T) /\ ToSet(Append(s, x)) = ToSet(s) \cup {x}
         /\ IsInjective(s) /\ x \notin ToSet(s) => IsInjective(Append(s, x))
<1> DEFINE t == <<x>>
<1>1. t \in Seq(T) /\ Len(t) = 1 /\ t[1] = x /\ DOMAIN t = 1..1
  OBVIOUS
<1>2. Append(s, x) = s \o t
  OBVIOUS
<1> HIDE DEF t
<1>3. ToSet(t) = {x} /\ IsInjective(t)
  BY <1>1 DEF ToSet, IsInjective
<1> QED BY <1>1, <1>2, <1>3, Joined

\* What is left when the last item is taken.
LEMMA CutSequence ==
  ASSUME NEW T, NEW s \in Seq(T), s # <<>>
  PROVE  /\ Front(s) \in Seq(T) /\ Last(s) \in T /\ ToSet(s) = ToSet(Front(s)) \cup {Last(s)}
         /\ IsInjective(s) => IsInjective(Front(s)) /\ Last(s) \notin ToSet(Front(s))
<1> DEFINE f == Front(s)
<1>1. Len(s) \in Nat /\ Len(s) >= 1
  OBVIOUS
<1>2. f \in Seq(T) /\ Len(f) = Len(s) - 1 /\ \A i \in 1..Len(f) : f[i] = s[i]
  <2>1. f = [i \in 1..(Len(s) - 1) |-> s[i]]
    BY <1>1 DEF Front
  <2>2. \A i \in 1..(Len(s) - 1) : s[i] \in T
    BY <1>1
  <2> QED BY <1>1, <2>1, <2>2
<1> HIDE DEF f
<1>3. Last(s) = s[Len(s)] /\ Last(s) \in T
  BY <1>1 DEF Last
<1>4. \A i \in 1..Len(s) : i = Len(s) \/ i \in 1..Len(f)
  BY <1>1, <1>2
<1>5. \A i \in 1..Len(f) : i \in 1..Len(s) /\ i # Len(s)
  BY <1>1, <1>2
<1>6. ToSet(s) = ToSet(f) \cup {Last(s)}
  <2>1. \A x \in ToSet(s) : x \in ToSet(f) \/ x = Last(s)
    BY <1>2, <1>3, <1>4 DEF ToSet
  <2>2. \A x \in ToSet(f) : x \in ToSet(s)
    <3>1. \A x \in ToSet(f) : \E i \in 1..Len(f) : x = f[i]
      BY <1>2 DEF ToSet
    <3>2. \A x \in ToSet(f) : \E i \in 1..Len(s) : x = s[i]
      BY <1>2, <1>5, <3>1
    <3> QED BY <3>2 DEF ToSet
  <2>3. Last(s) \in ToSet(s)
    BY <1>1, <1>3 DEF ToSet
  <2> QED BY <2>1, <2>2, <2>3
<1>7. ASSUME IsInjective(s) PROVE IsInjective(f) /\ Last(s) \notin ToSet(f)
  <2>1. \A i, j \in 1..Len(s) : s[i] = s[j] => i = j
    BY <1>7 DEF IsInjective
  <2>2. IsInjective(f)
    <3>1. DOMAIN f = 1..Len(f)
      BY <1>2
    <3> QED BY <1>2, <1>5, <2>1, <3>1 DEF IsInjective
  <2>3. ASSUME NEW i \in 1..Len(f), f[i] = Last(s) PROVE FALSE
    BY <1>1, <1>2, <1>3, <1>5, <2>1, <2>3
  <2>4. Last(s) \notin ToSet(f)
    BY <1>2, <2>3 DEF ToSet
  <2> QED BY <2>2, <2>4
<1> QED BY <1>2, <1>3, <1>6, <1>7 DEF f

\* Mixing loses nothing and doubles nothing.
LEMMA ShuffledItems ==
  ASSUME NEW T, NEW s \in Seq(T), NEW kept, NEW t \in Shuffled(s, kept)
  PROVE  /\ t \in Seq(T) /\ Len(t) = Len(s) /\ ToSet(t) = ToSet(s)
         /\ IsInjective(s) => IsInjective(t)
<1> DEFINE n == Len(s)
<1>1. PICK f \in Bijection(1..n, 1..n) : t = [i \in 1..n |-> s[f[i]]]
  BY DEF Shuffled
<1>2. f \in Bijection(1..n, 1..n) /\ f \in [1..n -> 1..n] /\ \A w \in 1..n : \E v \in 1..n : f[v] = w
  BY DEF Bijection, Surjection
<1>3. t \in Seq(T) /\ Len(t) = n /\ DOMAIN t = 1..n /\ \A i \in 1..n : t[i] = s[f[i]]
  <2>1. n \in Nat /\ \A i \in 1..n : s[f[i]] \in T
    BY <1>2
  <2> QED BY <1>1, <2>1
<1> HIDE DEF n
<1>4. /\ \A x : x \in ToSet(s) <=> \E i \in 1..n : x = s[i]
      /\ \A x : x \in ToSet(t) <=> \E i \in 1..n : x = t[i]
  <2>1. ToSet(s) = {s[i] : i \in 1..n}
    BY ToSetIs DEF n
  <2>2. ToSet(t) = {t[i] : i \in 1..n}
    BY <1>3 DEF ToSet
  <2> QED BY <2>1, <2>2
<1>5. ToSet(t) = ToSet(s)
  <2>1. ASSUME NEW i \in 1..n PROVE t[i] \in ToSet(s)
    BY <1>2, <1>3, <1>4
  <2>2. ASSUME NEW w \in 1..n PROVE s[w] \in ToSet(t)
    <3>1. PICK v \in 1..n : f[v] = w
      BY <1>2
    <3>2. t[v] = s[w]
      BY <1>3, <3>1
    <3> QED BY <1>4, <3>2
  <2> QED BY <1>4, <2>1, <2>2
<1>6. ASSUME IsInjective(s) PROVE IsInjective(t)
  <2>1. \A i, j \in 1..n : f[i] = f[j] => i = j
    BY <1>2 DEF Bijection, Injection, IsInjective
  <2>2. \A i, j \in 1..n : s[i] = s[j] => i = j
    BY <1>6, ToSetIs DEF IsInjective, n
  <2>3. \A i, j \in 1..n : t[i] = t[j] => i = j
    <3> SUFFICES ASSUME NEW i \in 1..n, NEW j \in 1..n, t[i] = t[j] PROVE i = j
      OBVIOUS
    <3>1. s[f[i]] = s[f[j]] /\ f[i] \in 1..n /\ f[j] \in 1..n
      BY <1>2, <1>3
    <3> QED BY <2>1, <2>2, <3>1
  <2> QED BY <1>3, <2>3 DEF IsInjective
<1> QED BY <1>3, <1>5, <1>6 DEF n

----------------------------------------------------------------------------
(* The preparer and its playlist (Preparer.tla). *)

BuildType == [at : {"none", "plan", "next", "normal", "built", "over"},
              target : Targets \cup {NoTarget}, next : 1..Len(Order) + 1]
PreparerTyped ==
  /\ builtTarget \in Targets \cup {NoTarget}
  /\ artifacts \in [Sources -> Targets \cup {NoTarget}]
  /\ folderReady \in Seq(Artifacts) /\ bag \in Seq(Artifacts) /\ cycle \in Seq(Artifacts)
  /\ builds \in [Builds -> BuildType]
  /\ overlapped \in BOOLEAN /\ rebuilt \in BOOLEAN
  /\ \A b \in Builds : Going(b) => builds[b].target \in Targets
  /\ \A b \in Builds : builds[b].at \in {"normal", "built"} => builds[b].next <= Len(Order)

\* As long as builds follow each other, the one at work builds for the latest target, and
\* what is ready was built for it.
Follow ==
  /\ \A b, c \in Builds : Going(b) /\ Going(c) => b = c
  /\ \A b \in Builds : Going(b) /\ builds[b].at # "plan" => builds[b].target = builtTarget
  /\ \A i \in 1..Len(folderReady) : folderReady[i].target = builtTarget
  /\ \A s \in Sources : artifacts[s] # NoTarget => artifacts[s] = builtTarget

\* If moreover no target is built twice in a row, no file is ready twice: what is ready
\* comes from the places the build has passed.
Passed ==
  /\ IsInjective(folderReady)
  /\ \A b \in Builds : builds[b].at \in {"next", "normal", "built"} =>
       \A i \in 1..Len(folderReady) :
         \E j \in 1..Len(Order) : j < builds[b].next /\ Order[j] = folderReady[i].src

\* What the bag knows is in it or was played since it was last filled, and once.
Remembered == known = ToSet(bag) \cup ToSet(cycle)
PlayedOnce == IsInjective(bag) /\ IsInjective(cycle) /\ ToSet(bag) \cap ToSet(cycle) = {}

PrInv ==
  /\ PreparerTyped
  /\ overlapped \/ Follow
  /\ overlapped \/ rebuilt \/ Passed
  /\ Remembered
  /\ overlapped \/ rebuilt \/ PlayedOnce

LEMMA Orders ==
  /\ Order \in Seq(STRING) /\ Len(Order) \in Nat
  /\ \A i, j \in 1..Len(Order) : Order[i] = Order[j] => i = j
  /\ \A i \in 1..Len(Order) : Order[i] \in Sources
  /\ NoTarget \notin Targets
<1>1. Order \in Seq(STRING)
  <2>1. CASE Files = <<>>
    BY <2>1, SequencesAssumption DEF Order
  <2>2. CASE Files # <<>>
    <3>1. Head(Files) \in STRING /\ Tail(Files) \in Seq(STRING)
      BY <2>2, SequencesAssumption
    <3>2. <<Head(Files)>> \in Seq(STRING)
      BY <3>1
    <3>3. <<Head(Files)>> \o Singles \in Seq(STRING)
      BY <3>2, SequencesAssumption
    <3> QED BY <2>2, <3>1, <3>3 DEF Order
  <2> QED BY <2>1, <2>2
<1>2. \A i, j \in 1..Len(Order) : Order[i] = Order[j] => i = j
  BY <1>1, DistinctAssumption DEF IsInjective
<1> QED BY <1>1, <1>2, NoTargetAssumption DEF Sources

LEMMA Nothing == ToSet(<<>>) = {} /\ IsInjective(<<>>)
BY DEF ToSet, IsInjective

LEMMA PreparerInitially == PreparerInit => PrInv
<1> SUFFICES ASSUME PreparerInit PROVE PrInv
  OBVIOUS
<1>1. /\ builtTarget = NoTarget /\ artifacts = [s \in Sources |-> NoTarget] /\ folderReady = <<>>
      /\ builds = [b \in Builds |-> NewBuild]
      /\ bag = <<>> /\ known = {} /\ cycle = <<>> /\ overlapped = FALSE /\ rebuilt = FALSE
  BY DEF PreparerInit
<1>2. NewBuild \in BuildType /\ NewBuild.at = "none"
  BY Orders DEF NewBuild, BuildType
<1>3. \A b \in Builds : builds[b] \in BuildType /\ builds[b].at = "none" /\ ~Going(b)
  BY <1>1, <1>2 DEF Going
<1>4. PreparerTyped
  <2>1. builds \in [Builds -> BuildType] /\ artifacts \in [Sources -> Targets \cup {NoTarget}]
    BY <1>1, <1>2
  <2>2. folderReady \in Seq(Artifacts) /\ bag \in Seq(Artifacts) /\ cycle \in Seq(Artifacts)
    BY <1>1
  <2> QED BY <1>1, <1>3, <2>1, <2>2 DEF PreparerTyped
<1>5. Follow
  BY <1>1, <1>3 DEF Follow
<1>6. Passed
  BY <1>1, <1>3, Nothing DEF Passed
<1>7. Remembered /\ PlayedOnce
  BY <1>1, Nothing DEF Remembered, PlayedOnce
<1> QED BY <1>4, <1>5, <1>6, <1>7 DEF PrInv

\* A step of a build does not touch the playlist.
LEMMA PlaylistKept ==
  ASSUME PrInv, UNCHANGED playlist, overlapped => overlapped', rebuilt => rebuilt',
         overlapped' \in BOOLEAN, rebuilt' \in BOOLEAN
  PROVE  /\ bag' \in Seq(Artifacts) /\ cycle' \in Seq(Artifacts)
         /\ Remembered'
         /\ overlapped' \/ rebuilt' \/ PlayedOnce'
<1>1. UNCHANGED <<bag, known, cycle>>
  BY DEF playlist
<1>2. bag' \in Seq(Artifacts) /\ cycle' \in Seq(Artifacts)
  BY <1>1 DEF PrInv, PreparerTyped
<1>3. Remembered'
  BY <1>1 DEF PrInv, Remembered
<1>4. overlapped' \/ rebuilt' \/ PlayedOnce'
  BY <1>1 DEF PrInv, PlayedOnce
<1> QED BY <1>2, <1>3, <1>4

\* One build changes.
LEMMA OneBuild ==
  ASSUME PrInv, NEW b \in Builds, NEW r \in BuildType, builds' = [builds EXCEPT ![b] = r]
  PROVE  /\ builds' \in [Builds -> BuildType] /\ builds'[b] = r
         /\ \A c \in Builds : c # b => builds'[c] = builds[c]
BY DEF PrInv, PreparerTyped

LEMMA StartBuildKeeps ==
  ASSUME PrInv, NEW b \in Builds, NEW t \in Targets, StartBuild(b, t) PROVE PrInv'
<1> DEFINE r == [builds[b] EXCEPT !.at = "plan", !.target = t]
<1>1. /\ builds[b].at = "none" /\ UNCHANGED <<builtTarget, artifacts, folderReady, rebuilt>>
      /\ UNCHANGED playlist
      /\ overlapped' = (overlapped \/ \E c \in Builds : Going(c))
  BY DEF StartBuild, BuildAt, preparerFields
<1>2. builds[b] \in BuildType
  BY DEF PrInv, PreparerTyped
<1>3. r \in BuildType /\ r.at = "plan" /\ r.target = t
  BY <1>2 DEF BuildType
<1>4. builds' = [builds EXCEPT ![b] = r]
  BY DEF StartBuild, PrInv, PreparerTyped
<1> HIDE DEF r
<1>5. /\ builds' \in [Builds -> BuildType] /\ builds'[b] = r
      /\ \A c \in Builds : c # b => builds'[c] = builds[c]
  BY <1>3, <1>4, OneBuild
<1>6. /\ overlapped' \in BOOLEAN /\ rebuilt' \in BOOLEAN
      /\ (overlapped => overlapped') /\ (rebuilt => rebuilt')
  BY <1>1 DEF PrInv, PreparerTyped
<1>7. /\ bag' \in Seq(Artifacts) /\ cycle' \in Seq(Artifacts)
      /\ Remembered'
      /\ overlapped' \/ rebuilt' \/ PlayedOnce'
  BY <1>1, <1>6, PlaylistKept
<1>8. \A c \in Builds : c # b => (Going(c)' <=> Going(c))
  BY <1>5 DEF Going
<1>9. PreparerTyped'
  <2>1. \A c \in Builds : Going(c)' => builds'[c].target \in Targets
    BY <1>3, <1>5, <1>8 DEF PrInv, PreparerTyped
  <2>2. \A c \in Builds : builds'[c].at \in {"normal", "built"} => builds'[c].next <= Len(Order)
    BY <1>3, <1>5 DEF PrInv, PreparerTyped
  <2> QED BY <1>1, <1>5, <1>6, <1>7, <2>1, <2>2 DEF PrInv, PreparerTyped, Going
<1>10. overlapped' \/ Follow'
  <2> SUFFICES ASSUME ~overlapped' PROVE Follow'
    OBVIOUS
  <2>1. Follow /\ \A c \in Builds : ~Going(c)
    BY <1>1 DEF PrInv
  <2>2. \A c \in Builds : Going(c)' => c = b
    BY <1>8, <2>1
  <2>3. \A c \in Builds : Going(c)' /\ builds'[c].at # "plan" => builds'[c].target = builtTarget'
    BY <1>3, <1>5, <2>2
  <2> QED BY <1>1, <2>1, <2>2, <2>3 DEF Follow, Going
<1>11. overlapped' \/ rebuilt' \/ Passed'
  <2> SUFFICES ASSUME ~overlapped', ~rebuilt' PROVE Passed'
    OBVIOUS
  <2>1. Passed
    BY <1>1 DEF PrInv
  <2> QED BY <1>1, <1>3, <1>5, <2>1 DEF Passed
<1> QED BY <1>7, <1>9, <1>10, <1>11 DEF PrInv

\* A build goes on: what it is about to build for, and how far it has come, are no news.
Advances(b, r) ==
  /\ builds' = [builds EXCEPT ![b] = r]
  /\ builds[b].at \in {"next", "normal", "built"} /\ r.at \notin {"plan", "none"}
  /\ r.at \in {"next", "normal", "built"} =>
       r.target = builds[b].target /\ builds[b].next <= r.next
  /\ r.at \in {"normal", "built"} => r.next <= Len(Order)
LEMMA GoesOn ==
  ASSUME PrInv, NEW b \in Builds, NEW r \in BuildType, Advances(b, r),
         UNCHANGED <<builtTarget, artifacts, folderReady, overlapped, rebuilt>>,
         UNCHANGED playlist
  PROVE  PrInv'
<1> USE DEF Advances
<1>1. /\ builds' \in [Builds -> BuildType] /\ builds'[b] = r
      /\ \A c \in Builds : c # b => builds'[c] = builds[c]
  BY OneBuild
<1>2. overlapped \in BOOLEAN /\ rebuilt \in BOOLEAN /\ builds[b] \in BuildType
  BY DEF PrInv, PreparerTyped
<1>3. /\ bag' \in Seq(Artifacts) /\ cycle' \in Seq(Artifacts)
      /\ Remembered'
      /\ overlapped' \/ rebuilt' \/ PlayedOnce'
  BY <1>2, PlaylistKept
<1>4. Going(b) /\ \A c \in Builds : c # b => (Going(c)' <=> Going(c))
  BY <1>1 DEF Going
<1>5. Going(b)' => r.at \in {"next", "normal", "built"}
  BY <1>1 DEF Going, BuildType
<1>6. PreparerTyped'
  <2>1. \A c \in Builds : Going(c)' => builds'[c].target \in Targets
    BY <1>1, <1>4, <1>5 DEF PrInv, PreparerTyped
  <2>2. \A c \in Builds : builds'[c].at \in {"normal", "built"} => builds'[c].next <= Len(Order)
    BY <1>1 DEF PrInv, PreparerTyped
  <2> QED BY <1>1, <1>3, <2>1, <2>2 DEF PrInv, PreparerTyped
<1>7. overlapped' \/ Follow'
  <2> SUFFICES ASSUME ~overlapped PROVE Follow'
    OBVIOUS
  <2>1. Follow
    BY DEF PrInv
  <2>2. \A c, d \in Builds : Going(c)' /\ Going(d)' => c = d
    BY <1>4, <2>1 DEF Follow
  <2>3. \A c \in Builds : Going(c)' /\ builds'[c].at # "plan" => builds'[c].target = builtTarget'
    BY <1>1, <1>4, <1>5, <2>1 DEF Follow
  <2> QED BY <2>1, <2>2, <2>3 DEF Follow
<1>8. overlapped' \/ rebuilt' \/ Passed'
  <2> SUFFICES ASSUME ~overlapped, ~rebuilt PROVE Passed'
    OBVIOUS
  <2>1. Passed
    BY DEF PrInv
  <2>2. ASSUME NEW c \in Builds, builds'[c].at \in {"next", "normal", "built"},
               NEW i \in 1..Len(folderReady)
        PROVE  \E j \in 1..Len(Order) : j < builds'[c].next /\ Order[j] = folderReady[i].src
    <3>1. CASE c # b
      BY <1>1, <2>1, <2>2, <3>1 DEF Passed
    <3>2. CASE c = b
      <4>1. PICK j \in 1..Len(Order) : j < builds[b].next /\ Order[j] = folderReady[i].src
        BY <2>1 DEF Passed
      <4>2. builds[b].next \in Nat /\ r.next \in Nat /\ builds[b].next <= r.next /\ Len(Order) \in Nat
        BY <1>1, <1>2, <2>2, <3>2, Orders DEF BuildType
      <4> QED BY <1>1, <3>2, <4>1, <4>2
    <3> QED BY <3>1, <3>2
  <2> QED BY <2>1, <2>2 DEF Passed
<1> QED BY <1>3, <1>6, <1>7, <1>8 DEF PrInv

LEMMA NextFileKeeps == ASSUME PrInv, NEW b \in Builds, NextFile(b) PROVE PrInv'
<1>1. /\ builds[b].at = "next" /\ builds[b] \in BuildType
      /\ UNCHANGED <<builtTarget, artifacts, folderReady, overlapped, rebuilt>>
      /\ UNCHANGED playlist
  BY DEF NextFile, BuildAt, preparerFields, PrInv, PreparerTyped
<1>2. CASE builds[b].next <= Len(Order) /\ builds' = [builds EXCEPT ![b].at = "normal"]
  <2> DEFINE r == [builds[b] EXCEPT !.at = "normal"]
  <2>1. /\ r \in BuildType /\ r.at = "normal" /\ r.target = builds[b].target
        /\ r.next = builds[b].next /\ r.next \in Nat
    BY <1>1, Orders DEF BuildType
  <2>2. builds' = [builds EXCEPT ![b] = r]
    BY <1>2 DEF PrInv, PreparerTyped
  <2> HIDE DEF r
  <2>3. builds[b].next <= r.next /\ r.next <= Len(Order)
    BY <1>2, <2>1
  <2>4. Advances(b, r)
    BY <1>1, <2>1, <2>2, <2>3 DEF Advances
  <2> QED BY <1>1, <2>1, <2>4, GoesOn
<1>3. CASE builds' = [builds EXCEPT ![b] = [NewBuild EXCEPT !.at = "over"]]
  <2> DEFINE r == [NewBuild EXCEPT !.at = "over"]
  <2>1. r \in BuildType /\ r.at = "over"
    BY Orders DEF BuildType, NewBuild
  <2>2. Advances(b, r)
    BY <1>1, <1>3, <2>1 DEF Advances
  <2> HIDE DEF r
  <2> QED BY <1>1, <2>1, <2>2, GoesOn
<1> QED BY <1>2, <1>3 DEF NextFile

LEMMA TrackKeeps == ASSUME PrInv, NEW b \in Builds, Track(b) PROVE PrInv'
<1>1. /\ builds[b].at = "normal" /\ builds[b] \in BuildType /\ builds[b].next <= Len(Order)
      /\ UNCHANGED <<builtTarget, artifacts, folderReady, overlapped, rebuilt>>
      /\ UNCHANGED playlist
  BY DEF Track, BuildAt, PrInv, PreparerTyped
<1>2. CASE builds' = [builds EXCEPT ![b].at = "built"]
  <2> DEFINE r == [builds[b] EXCEPT !.at = "built"]
  <2>1. /\ r \in BuildType /\ r.at = "built" /\ r.target = builds[b].target
        /\ r.next = builds[b].next /\ r.next \in Nat
    BY <1>1, Orders DEF BuildType
  <2>2. builds' = [builds EXCEPT ![b] = r]
    BY <1>2 DEF PrInv, PreparerTyped
  <2> HIDE DEF r
  <2>3. Advances(b, r)
    BY <1>1, <2>1, <2>2 DEF Advances
  <2> QED BY <1>1, <2>1, <2>3, GoesOn
<1>3. CASE builds' = [builds EXCEPT ![b].at = "next", ![b].next = @ + 1]
  <2> DEFINE n == builds[b].next + 1
             r == [builds[b] EXCEPT !.at = "next", !.next = n]
  <2>1. builds[b].next \in Nat /\ n \in 1..Len(Order) + 1
    BY <1>1, Orders DEF BuildType
  <2>2. builds' = [builds EXCEPT ![b].at = "next", ![b].next = n]
    BY <1>1, <1>3 DEF PrInv, PreparerTyped
  <2>3. builds[b].next <= n
    BY <2>1
  <2> HIDE DEF n
  <2>4. r \in BuildType /\ r.at = "next" /\ r.target = builds[b].target /\ r.next = n
    BY <1>1, <2>1 DEF BuildType
  <2>5. builds' = [builds EXCEPT ![b] = r]
    BY <1>1, <2>2 DEF PrInv, PreparerTyped
  <2> HIDE DEF r
  <2>6. Advances(b, r)
    BY <1>1, <2>3, <2>4, <2>5 DEF Advances
  <2> QED BY <1>1, <2>4, <2>6, GoesOn
<1> QED BY <1>2, <1>3 DEF Track

\* A build begins in earnest: the target it is for is the latest now, and what was ready
\* for another one is gone.
LEMMA PlanKept == ASSUME PrInv, NEW b \in Builds, Plan(b) PROVE PrInv'
<1> DEFINE t == builds[b].target
           r == [builds[b] EXCEPT !.at = "next"]
<1>1. /\ builds[b].at = "plan" /\ builds[b] \in BuildType /\ Going(b) /\ t \in Targets
      /\ UNCHANGED overlapped /\ UNCHANGED playlist
      /\ builtTarget' = t /\ rebuilt' = (rebuilt \/ builtTarget = t)
  BY DEF Plan, BuildAt, Going, PrInv, PreparerTyped
<1>2. r \in BuildType /\ r.at = "next" /\ r.target = t
  BY <1>1 DEF BuildType
<1>3. builds' = [builds EXCEPT ![b] = r]
  BY DEF Plan, PrInv, PreparerTyped
<1> HIDE DEF r
<1>4. /\ builds' \in [Builds -> BuildType] /\ builds'[b] = r
      /\ \A c \in Builds : c # b => builds'[c] = builds[c]
  BY <1>2, <1>3, OneBuild
<1>5. overlapped' \in BOOLEAN /\ rebuilt' \in BOOLEAN /\ (rebuilt => rebuilt')
  BY <1>1 DEF PrInv, PreparerTyped
<1>6. /\ bag' \in Seq(Artifacts) /\ cycle' \in Seq(Artifacts)
      /\ Remembered'
      /\ overlapped' \/ rebuilt' \/ PlayedOnce'
  BY <1>1, <1>5, PlaylistKept
<1>7. \A c \in Builds : Going(c)' <=> Going(c)
  BY <1>1, <1>2, <1>4 DEF Going
<1>8. \/ artifacts' = [s \in Sources |-> NoTarget] /\ folderReady' = <<>>
      \/ /\ artifacts' = artifacts /\ folderReady' = folderReady
         /\ builtTarget \in {NoTarget, t}
  BY DEF Plan
<1>9. /\ artifacts' \in [Sources -> Targets \cup {NoTarget}]
      /\ folderReady' \in Seq(Artifacts)
  <2>1. artifacts \in [Sources -> Targets \cup {NoTarget}] /\ folderReady \in Seq(Artifacts)
    BY DEF PrInv, PreparerTyped
  <2>2. [s \in Sources |-> NoTarget] \in [Sources -> Targets \cup {NoTarget}] /\ <<>> \in Seq(Artifacts)
    OBVIOUS
  <2> QED BY <1>8, <2>1, <2>2
<1>10. PreparerTyped'
  <2>1. \A c \in Builds : Going(c)' => builds'[c].target \in Targets
    BY <1>1, <1>2, <1>4, <1>7 DEF PrInv, PreparerTyped
  <2>2. \A c \in Builds : builds'[c].at \in {"normal", "built"} => builds'[c].next <= Len(Order)
    BY <1>2, <1>4 DEF PrInv, PreparerTyped
  <2> QED BY <1>1, <1>4, <1>5, <1>6, <1>9, <2>1, <2>2 DEF PrInv, PreparerTyped
\* Before the first target nothing is ready.
<1>11. ASSUME Follow, builtTarget = NoTarget
       PROVE  folderReady = <<>> /\ \A s \in Sources : artifacts[s] = NoTarget
  <2>1. \A i \in 1..Len(folderReady) : folderReady[i].target \in Targets
    <3>1. folderReady \in Seq(Artifacts)
      BY DEF PrInv, PreparerTyped
    <3>2. \A i \in 1..Len(folderReady) : folderReady[i] \in Artifacts
      BY <3>1
    <3> QED BY <3>2 DEF Artifacts
  <2>2. Len(folderReady) \in Nat /\ ~(\E i \in 1..Len(folderReady) : TRUE)
    BY <1>11, <2>1, Orders DEF Follow, PrInv, PreparerTyped
  <2>3. folderReady = <<>>
    BY <2>2 DEF PrInv, PreparerTyped
  <2> QED BY <1>11, <2>3 DEF Follow
<1>12. overlapped' \/ Follow'
  <2> SUFFICES ASSUME ~overlapped PROVE Follow'
    BY <1>1
  <2>1. Follow
    BY DEF PrInv
  <2>2. \A c, d \in Builds : Going(c)' /\ Going(d)' => c = d
    BY <1>7, <2>1 DEF Follow
  <2>3. \A c \in Builds : Going(c)' => c = b
    BY <1>1, <1>7, <2>1 DEF Follow
  <2>4. \A c \in Builds : Going(c)' /\ builds'[c].at # "plan" => builds'[c].target = builtTarget'
    BY <1>1, <1>2, <1>4, <2>3
  <2>5. CASE artifacts' = [s \in Sources |-> NoTarget] /\ folderReady' = <<>>
    BY <2>2, <2>4, <2>5 DEF Follow
  <2>6. CASE artifacts' = artifacts /\ folderReady' = folderReady /\ builtTarget = t
    BY <1>1, <2>1, <2>2, <2>4, <2>6 DEF Follow
  <2>7. CASE artifacts' = artifacts /\ folderReady' = folderReady /\ builtTarget = NoTarget
    BY <1>11, <2>1, <2>2, <2>4, <2>7 DEF Follow
  <2> QED BY <1>8, <2>5, <2>6, <2>7
<1>13. overlapped' \/ rebuilt' \/ Passed'
  <2> SUFFICES ASSUME ~overlapped, ~rebuilt' PROVE Passed'
    BY <1>1
  <2>1. builtTarget # t /\ Follow
    BY <1>1 DEF PrInv
  <2>2. folderReady' = <<>>
    BY <1>8, <1>11, <2>1
  <2> QED BY <2>2, Nothing DEF Passed
<1> QED BY <1>6, <1>10, <1>12, <1>13 DEF PrInv

\* What was built is stored: it is for the latest target unless builds overlap, and a file
\* that is ready already comes from another place.
LEMMA StoreKeeps == ASSUME PrInv, NEW b \in Builds, Store(b) PROVE PrInv'
<1> DEFINE n == builds[b].next
           t == builds[b].target
           src == Order[n]
           item == [src |-> src, target |-> t]
           m == n + 1
           r == [builds[b] EXCEPT !.at = "next", !.next = m]
<1>1. /\ builds[b].at = "built" /\ builds[b] \in BuildType /\ Going(b) /\ n <= Len(Order) /\ t \in Targets
      /\ UNCHANGED <<builtTarget, overlapped, rebuilt>> /\ UNCHANGED playlist
  BY DEF Store, BuildAt, Going, PrInv, PreparerTyped
<1>2. n \in 1..Len(Order) /\ n \in Nat /\ m \in Nat /\ m \in 1..Len(Order) + 1 /\ n < m /\ src \in Sources
  BY <1>1, Orders DEF BuildType
<1>3. item \in Artifacts
  BY <1>1, <1>2 DEF Artifacts
<1>4. builds' = [builds EXCEPT ![b].at = "next", ![b].next = m]
  BY <1>1 DEF Store, PrInv, PreparerTyped
<1>5. \/ folderReady' = Append(folderReady, item) /\ UNCHANGED artifacts
      \/ artifacts' = [artifacts EXCEPT ![src] = t] /\ UNCHANGED folderReady
  BY DEF Store
<1> HIDE DEF n, m, t, src, item
<1>6. r \in BuildType /\ r.at = "next" /\ r.target = t /\ r.next = m
  BY <1>1, <1>2 DEF BuildType, t
<1>7. builds' = [builds EXCEPT ![b] = r]
  BY <1>4 DEF PrInv, PreparerTyped
<1> HIDE DEF r
<1>8. /\ builds' \in [Builds -> BuildType] /\ builds'[b] = r
      /\ \A c \in Builds : c # b => builds'[c] = builds[c]
  BY <1>6, <1>7, OneBuild
<1>9. overlapped \in BOOLEAN /\ rebuilt \in BOOLEAN
  BY DEF PrInv, PreparerTyped
<1>10. /\ bag' \in Seq(Artifacts) /\ cycle' \in Seq(Artifacts)
       /\ Remembered'
       /\ overlapped' \/ rebuilt' \/ PlayedOnce'
  BY <1>1, <1>9, PlaylistKept
<1>11. \A c \in Builds : Going(c)' <=> Going(c)
  BY <1>1, <1>6, <1>8 DEF Going
<1>12. artifacts \in [Sources -> Targets \cup {NoTarget}] /\ folderReady \in Seq(Artifacts)
  BY DEF PrInv, PreparerTyped
<1>13. CASE UNCHANGED folderReady \/ folderReady' = Append(folderReady, item)
  <2>1. /\ artifacts' \in [Sources -> Targets \cup {NoTarget}] /\ folderReady' \in Seq(Artifacts)
    <3>1. [artifacts EXCEPT ![src] = t] \in [Sources -> Targets \cup {NoTarget}]
      BY <1>1, <1>12 DEF t
    <3>2. Append(folderReady, item) \in Seq(Artifacts)
      BY <1>3, <1>12
    <3> QED BY <1>5, <1>12, <3>1, <3>2
  <2>2. \A i \in 1..Len(folderReady') :
          \/ i \in 1..Len(folderReady) /\ folderReady'[i] = folderReady[i]
          \/ folderReady'[i] = item
    BY <1>3, <1>12, <1>13
  <2>3. PreparerTyped'
    <3>1. \A c \in Builds : Going(c)' => builds'[c].target \in Targets
      BY <1>1, <1>6, <1>8, <1>11 DEF PrInv, PreparerTyped
    <3>2. \A c \in Builds : builds'[c].at \in {"normal", "built"} => builds'[c].next <= Len(Order)
      BY <1>6, <1>8 DEF PrInv, PreparerTyped
    <3> QED BY <1>1, <1>8, <1>9, <1>10, <2>1, <3>1, <3>2 DEF PrInv, PreparerTyped
  <2>4. overlapped' \/ Follow'
    <3> SUFFICES ASSUME ~overlapped PROVE Follow'
      BY <1>1
    <3>1. Follow
      BY DEF PrInv
    <3>2. \A c, d \in Builds : Going(c)' /\ Going(d)' => c = d
      BY <1>11, <3>1 DEF Follow
    <3>3. t = builtTarget
      BY <1>1, <3>1 DEF Follow, t
    <3>4. \A c \in Builds : Going(c)' /\ builds'[c].at # "plan" => builds'[c].target = builtTarget'
      BY <1>1, <1>6, <1>8, <1>11, <3>1, <3>3 DEF Follow
    <3>5. \A i \in 1..Len(folderReady') : folderReady'[i].target = builtTarget'
      <4>1. item.target = t
        BY DEF item
      <4> QED BY <1>1, <2>2, <3>1, <3>3, <4>1 DEF Follow
    <3>6. \A s \in Sources : artifacts'[s] # NoTarget => artifacts'[s] = builtTarget'
      BY <1>1, <1>5, <1>12, <3>1, <3>3 DEF Follow
    <3> QED BY <3>2, <3>4, <3>5, <3>6 DEF Follow
  <2>5. overlapped' \/ rebuilt' \/ Passed'
    <3> SUFFICES ASSUME ~overlapped, ~rebuilt PROVE Passed'
      BY <1>1
    <3>1. Passed /\ Follow
      BY DEF PrInv
    <3>2. \A i \in 1..Len(folderReady) : \E j \in 1..Len(Order) : j < n /\ Order[j] = folderReady[i].src
      BY <1>1, <3>1 DEF Passed, n
    <3>3. item \notin ToSet(folderReady)
      <4> SUFFICES ASSUME NEW i \in 1..Len(folderReady), folderReady[i] = item PROVE FALSE
        BY <1>12, ToSetIs
      <4>1. PICK j \in 1..Len(Order) : j < n /\ Order[j] = src
        BY <3>2 DEF item
      <4>2. j = n
        BY <1>2, <4>1, Orders DEF src
      <4> QED BY <1>2, <4>1, <4>2
    <3>4. IsInjective(folderReady')
      <4>1. IsInjective(Append(folderReady, item)) /\ IsInjective(folderReady)
        BY <1>3, <1>12, <3>1, <3>3, Appended DEF Passed
      <4> QED BY <1>13, <4>1
    <3>5. \A c \in Builds : builds'[c].at \in {"next", "normal", "built"} => c = b
      BY <1>1, <1>8, <3>1 DEF Follow, Going
    <3>6. ASSUME NEW i \in 1..Len(folderReady')
          PROVE  \E j \in 1..Len(Order) : j < m /\ Order[j] = folderReady'[i].src
      <4>1. CASE i \in 1..Len(folderReady) /\ folderReady'[i] = folderReady[i]
        <5>1. PICK j \in 1..Len(Order) : j < n /\ Order[j] = folderReady[i].src
          BY <3>2, <4>1
        <5>2. j \in Nat /\ j < m
          BY <1>2, <5>1, Orders
        <5> QED BY <4>1, <5>1, <5>2
      <4>2. CASE folderReady'[i] = item
        BY <1>2, <4>2 DEF item, src
      <4> QED BY <2>2, <4>1, <4>2
    <3> QED BY <1>6, <1>8, <3>4, <3>5, <3>6 DEF Passed
  <2> QED BY <1>10, <2>3, <2>4, <2>5 DEF PrInv
<1> QED BY <1>5, <1>13

\* The bag is mixed or filled again, and one item is played.
LEMMA PlayKeeps == ASSUME PrInv, Play PROVE PrInv'
<1>1. UNCHANGED <<builtTarget, artifacts, folderReady, builds, overlapped, rebuilt>>
  BY DEF Play, preparerFields
<1>2. /\ folderReady \in Seq(Artifacts) /\ bag \in Seq(Artifacts) /\ cycle \in Seq(Artifacts)
      /\ known = ToSet(bag) \cup ToSet(cycle)
  BY DEF PrInv, PreparerTyped, Remembered
<1>3. /\ Arrivals \in SUBSET Artifacts /\ IsFiniteSet(Arrivals)
      /\ IsFiniteSet(ToSet(folderReady)) /\ ToSet(folderReady) \in SUBSET Artifacts
  <2>1. IsFiniteSet(ToSet(folderReady)) /\ ToSet(folderReady) \in SUBSET Artifacts
    BY <1>2, Items
  <2>2. Arrivals \in SUBSET ToSet(folderReady)
    BY DEF Arrivals
  <2> QED BY <2>1, <2>2, FS_Subset
<1> DEFINE news == SetToSeq(Arrivals)
<1>4. news \in Seq(Artifacts) /\ ToSet(news) = Arrivals /\ IsInjective(news)
  <2>1. news \in Seq(Arrivals) /\ ToSet(news) = Arrivals /\ IsInjective(news)
    BY <1>3, SetToSeqItems
  <2> QED BY <1>3, <2>1
<1> HIDE DEF news
<1>5. /\ Pool \in Seq(Artifacts) /\ ToSet(Pool) = ToSet(bag) \cup Arrivals
      /\ IsInjective(bag) /\ ToSet(bag) \cap Arrivals = {} => IsInjective(Pool)
  BY <1>2, <1>4, Joined DEF Pool, news
<1>6. ToSet(bag) \cap Arrivals = {} /\ ToSet(cycle) \cap Arrivals = {}
  BY <1>2 DEF Arrivals
\* In both cases the whole bag, what it knows and what was played before.
<1>7. ASSUME NEW s \in Seq(Artifacts), s # <<>>, NEW kept, NEW full \in Shuffled(s, kept),
             NEW c \in Seq(Artifacts), NEW k,
             bag' = Front(full), cycle' = Append(c, Last(full)), known' = k,
             k = ToSet(s) \cup ToSet(c),
             overlapped \/ rebuilt \/ (IsInjective(s) /\ IsInjective(c) /\ ToSet(s) \cap ToSet(c) = {})
      PROVE  PrInv'
  <2>1. /\ full \in Seq(Artifacts) /\ Len(full) = Len(s) /\ ToSet(full) = ToSet(s)
        /\ IsInjective(s) => IsInjective(full)
    BY <1>7, ShuffledItems
  <2>2. full # <<>>
    BY <1>7, <2>1
  <2>3. /\ Front(full) \in Seq(Artifacts) /\ Last(full) \in Artifacts
        /\ ToSet(full) = ToSet(Front(full)) \cup {Last(full)}
        /\ IsInjective(full) => IsInjective(Front(full)) /\ Last(full) \notin ToSet(Front(full))
    BY <2>1, <2>2, CutSequence
  <2>4. /\ cycle' \in Seq(Artifacts) /\ ToSet(cycle') = ToSet(c) \cup {Last(full)}
        /\ IsInjective(c) /\ Last(full) \notin ToSet(c) => IsInjective(cycle')
    BY <1>7, <2>3, Appended
  <2>5. Remembered'
    BY <1>7, <2>1, <2>3, <2>4 DEF Remembered
  <2>6. overlapped' \/ rebuilt' \/ PlayedOnce'
    BY <1>1, <1>7, <2>1, <2>3, <2>4 DEF PlayedOnce
  <2>7. PreparerTyped'
    BY <1>1, <1>7, <2>3, <2>4 DEF PrInv, PreparerTyped, Going
  <2> QED BY <1>1, <2>5, <2>6, <2>7 DEF PrInv, Follow, Passed, Going
<1>8. CASE Pool # <<>>
  <2>1. PICK full \in Mixed : /\ bag' = Front(full) /\ known' = known \cup ToSet(folderReady)
                              /\ cycle' = Append(cycle, Last(full))
    BY <1>8 DEF Play
  <2>2. full \in Shuffled(Pool, Len(bag))
    BY DEF Mixed
  <2>3. known \cup ToSet(folderReady) = ToSet(Pool) \cup ToSet(cycle)
    BY <1>2, <1>5 DEF Arrivals
  <2>4. overlapped \/ rebuilt \/ (IsInjective(Pool) /\ IsInjective(cycle) /\ ToSet(Pool) \cap ToSet(cycle) = {})
    BY <1>5, <1>6 DEF PrInv, PlayedOnce
  <2> QED BY <1>2, <1>5, <1>7, <1>8, <2>1, <2>2, <2>3, <2>4
<1>9. CASE Pool = <<>>
  <2>1. PICK full \in Refilled : /\ bag' = Front(full) /\ known' = {} \cup ToSet(folderReady)
                                 /\ cycle' = Append(<<>>, Last(full))
    BY <1>9 DEF Play
  <2>2. full \in Shuffled(folderReady, 0) /\ folderReady # <<>>
    BY <1>9 DEF Refilled, Play
  <2>3. /\ {} \cup ToSet(folderReady) = ToSet(folderReady) \cup ToSet(<<>>)
        /\ <<>> \in Seq(Artifacts)
    BY Nothing
  <2>4. overlapped \/ rebuilt \/ (IsInjective(folderReady) /\ IsInjective(<<>>) /\ ToSet(folderReady) \cap ToSet(<<>>) = {})
    BY Nothing DEF PrInv, Passed
  <2> QED BY <1>2, <1>7, <2>1, <2>2, <2>3, <2>4
<1> QED BY <1>8, <1>9

\* With nothing to play and nothing in it the bag forgets.
LEMMA PlayNothingKeeps == ASSUME PrInv, PlayNothing PROVE PrInv'
<1>1. /\ UNCHANGED <<builtTarget, artifacts, folderReady, builds, overlapped, rebuilt>>
      /\ bag' = <<>> /\ known' = {} /\ cycle' = <<>>
  BY DEF PlayNothing, preparerFields
<1>2. Remembered' /\ PlayedOnce'
  BY <1>1, Nothing DEF Remembered, PlayedOnce
<1>3. PreparerTyped'
  BY <1>1 DEF PrInv, PreparerTyped, Going
<1> QED BY <1>1, <1>2, <1>3 DEF PrInv, Follow, Passed, Going

LEMMA PreparerKeeps == PrInv /\ [PreparerNext]_preparerVars => PrInv'
<1> SUFFICES ASSUME PrInv, [PreparerNext]_preparerVars PROVE PrInv'
  OBVIOUS
<1>1. CASE UNCHANGED preparerVars
  <2>1. UNCHANGED <<builtTarget, artifacts, folderReady, builds, bag, known, cycle, overlapped, rebuilt>>
    BY <1>1 DEF preparerVars
  <2> QED BY <2>1 DEF PrInv, PreparerTyped, Follow, Passed, Remembered, PlayedOnce, Going
<1>2. CASE \E b \in Builds, t \in Targets : StartBuild(b, t)
  BY <1>2, StartBuildKeeps
<1>3. ASSUME NEW b \in Builds, Plan(b) \/ NextFile(b) \/ Track(b) \/ Store(b) PROVE PrInv'
  BY <1>3, PlanKept, NextFileKeeps, TrackKeeps, StoreKeeps
<1>4. CASE Play \/ PlayNothing
  BY <1>4, PlayKeeps, PlayNothingKeeps
<1> QED BY <1>1, <1>2, <1>3, <1>4 DEF PreparerNext

LEMMA PreparerOften == MCSpec => []PrInv
<1>1. MCInit => PrInv
  BY PreparerInitially DEF MCInit
<1>2. PrInv /\ [MCNext]_MCvars => PrInv'
  <2>1. [MCNext]_MCvars => [PreparerNext]_preparerVars
    BY DEF MCNext, OfCache, OfPreparer, OfBitrate, MCvars
  <2> QED BY <2>1, PreparerKeeps
<1> QED BY <1>1, <1>2, PTL DEF MCSpec

\* What the player may be given fits the target of the latest build, as long as no build
\* began before the one in front of it was over (buildAll, discardArtifactsLocked).
THEOREM Fits == MCSpec => []FitUnlessOverlapped
<1>1. PrInv => FitUnlessOverlapped
  <2> SUFFICES ASSUME PrInv, ~overlapped PROVE ArtifactsFitTarget
    BY DEF FitUnlessOverlapped
  <2>1. Follow /\ folderReady \in Seq(Artifacts)
    BY DEF PrInv, PreparerTyped
  <2>2. \A a \in ToSet(folderReady) : a.target = builtTarget
    BY <2>1, ToSetIs DEF Follow
  <2> QED BY <2>1, <2>2 DEF Follow, ArtifactsFitTarget, Stored
<1> QED BY <1>1, PreparerOften, PTL

\* A cycle of the playlist plays nothing twice, unless builds overlap or a target is built
\* again, and never passes over a file that is ready (ShuffleBag.Next).
THEOREM FairToAll == MCSpec => []FairCycle
<1>1. PrInv => FairCycle
  BY DEF PrInv, Remembered, PlayedOnce, FairCycle, EachOnceUnlessRebuilt, EachOnce, NothingForgotten
<1> QED BY <1>1, PreparerOften, PTL

----------------------------------------------------------------------------
(* The bitrate that is remembered (Bitrate.tla). *)

LEMMA Least ==
  ASSUME NEW S \in SUBSET Nat, S # {}
  PROVE  Min(S) \in S /\ \A x \in S : Min(S) <= x
<1> DEFINE R == OpToRel(<, Nat)
<1>1. IsWellFoundedOn(R, Nat)
  BY NatLessThanWellFounded
<1>2. \A x, y \in Nat : x < y => <<x, y>> \in R
  BY DEF OpToRel
<1> HIDE DEF R
<1>3. PICK x \in S : \A y \in S : <<y, x>> \notin R
  BY <1>1, WFMin
<1>4. \A y \in S : x <= y
  <2> SUFFICES ASSUME NEW y \in S, y < x PROVE FALSE
    OBVIOUS
  <2>1. <<y, x>> \in R
    BY <1>2
  <2> QED BY <1>3, <2>1
<1> QED BY <1>3, <1>4 DEF Min

LEMMA Greatest ==
  ASSUME NEW S \in SUBSET Nat, S # {}, NEW b \in Nat, \A x \in S : x <= b
  PROVE  Max(S) \in S /\ \A x \in S : x <= Max(S)
<1> DEFINE D == {b - x : x \in S}
<1>1. D \in SUBSET Nat /\ D # {}
  <2>1. \A x \in S : b - x \in Nat
    OBVIOUS
  <2> QED BY <2>1
<1>2. Min(D) \in D /\ \A d \in D : Min(D) <= d
  BY <1>1, Least
<1>3. PICK x \in S : Min(D) = b - x
  BY <1>2
<1>4. \A y \in S : b - x <= b - y
  BY <1>2, <1>3
<1>5. \A y \in S : x >= y
  BY <1>4
<1> QED BY <1>5 DEF Max

LEMMA RungsKnown ==
  /\ Rungs \in SUBSET (Nat \ {0}) /\ Rungs # {} /\ Default \in Rungs
  /\ Max(Rungs) \in Rungs /\ \A r \in Rungs : r <= Max(Rungs)
  /\ Step \in Nat \ {0} /\ Measures \in SUBSET Nat
<1>1. Ladder \in Seq(Nat \ {0}) /\ Ladder # <<>>
      /\ \A i, j \in 1..Len(Ladder) : i < j => Ladder[i] < Ladder[j]
  BY LadderAssumption
<1> DEFINE n == Len(Ladder)
<1>2. n \in Nat /\ n >= 1 /\ \A i \in 1..n : Ladder[i] \in Nat \ {0}
  BY <1>1
<1>3. Rungs = {Ladder[i] : i \in 1..n}
  BY <1>1 DEF Rungs, ToSet
<1>4. \A i \in 1..n : Ladder[i] <= Ladder[n]
  <2> SUFFICES ASSUME NEW i \in 1..n PROVE Ladder[i] <= Ladder[n]
    OBVIOUS
  <2>1. i < n \/ i = n
    BY <1>2
  <2>2. n \in 1..n
    BY <1>2
  <2> QED BY <1>1, <1>2, <2>1, <2>2
<1>5. Ladder[n] \in Nat /\ \A r \in Rungs : r <= Ladder[n]
  BY <1>2, <1>3, <1>4
<1>6. Rungs \in SUBSET (Nat \ {0}) /\ Rungs # {}
  BY <1>2, <1>3
<1>7. Max(Rungs) \in Rungs /\ \A r \in Rungs : r <= Max(Rungs)
  BY <1>5, <1>6, Greatest
<1> QED BY <1>6, <1>7, ValuesAssumption DEF Rungs

LEMMA RoundsUp == ASSUME NEW k \in Nat PROVE QuantizeUp(k) \in Nat /\ QuantizeUp(k) >= k
<1>1. Step \in Nat \ {0}
  BY ValuesAssumption
<1> DEFINE a == k + Step - 1
           q == a \div Step
           r == a % Step
<1>2. a \in Nat
  BY <1>1
<1>3. q \in Nat /\ r \in 0..(Step - 1) /\ a = q * Step + r
  BY <1>1, <1>2
<1>4. q * Step \in Nat
  BY <1>1, <1>3
<1> HIDE DEF q, r
<1>5. q * Step >= k
  BY <1>1, <1>3, <1>4
<1> QED BY <1>4, <1>5 DEF QuantizeUp, q

\* A measurement within the ladder settles on a rung.
LEMMA Snaps ==
  ASSUME NEW m \in Measures
  PROVE  /\ SnapUp(m) \in Nat \ {0}
         /\ SnapUp(m) <= Max(Rungs) => SnapUp(m) \in Rungs
<1>1. m \in Nat
  BY RungsKnown
<1>2. CASE m = 0
  BY <1>2, RungsKnown DEF SnapUp
<1>3. CASE m # 0 /\ \E r \in Rungs : m <= r
  <2> DEFINE S == {r \in Rungs : m <= r}
  <2>1. S \in SUBSET Nat /\ S # {} /\ S \in SUBSET Rungs
    BY <1>3, RungsKnown
  <2>2. Min(S) \in S
    BY <2>1, Least
  <2>3. SnapUp(m) = Min(S)
    BY <1>3 DEF SnapUp
  <2> QED BY <2>1, <2>2, <2>3, RungsKnown
<1>4. CASE m # 0 /\ ~(\E r \in Rungs : m <= r)
  <2>1. SnapUp(m) = QuantizeUp(m)
    BY <1>4 DEF SnapUp
  <2>2. QuantizeUp(m) \in Nat /\ QuantizeUp(m) >= m
    BY <1>1, RoundsUp
  <2>3. Max(Rungs) < m /\ Max(Rungs) \in Nat
    <3> DEFINE top == Max(Rungs)
    <3>1. top \in Rungs /\ top \in Nat
      BY RungsKnown
    <3>2. ~(m <= top)
      BY <1>4, <3>1
    <3> HIDE DEF top
    <3>3. top < m
      BY <1>1, <3>1, <3>2
    <3> QED BY <3>1, <3>3 DEF top
  <2> QED BY <1>1, <1>4, <2>1, <2>2, <2>3
<1> QED BY <1>2, <1>3, <1>4

\* Of three items the last two.
LEMMA LastTwo ==
  ASSUME NEW T, NEW s \in Seq(T), Len(s) = 3
  PROVE  /\ \A i \in 1..3 : s[i] \in T
         /\ Tail(s) \in Seq(T) /\ Len(Tail(s)) = 2 /\ \A i \in 1..2 : Tail(s)[i] = s[i + 1]
<1>1. \A i \in 1..Len(s) : s[i] \in T
  OBVIOUS
<1>2. s # <<>>
  OBVIOUS
<1>3. Tail(s) \in Seq(T) /\ Len(Tail(s)) = Len(s) - 1
  BY <1>2
<1>4. \A i \in 1..Len(Tail(s)) : Tail(s)[i] = s[i + 1]
  BY <1>2, <1>3
<1>5. 3 \in Nat /\ 3 - 1 = 2
  OBVIOUS
<1> DEFINE n == Len(s)
           t == Tail(s)
<1>6. n = 3 /\ Len(t) = 2
  BY <1>3, <1>5
<1> HIDE DEF t
<1>7. \A i \in 1..2 : t[i] = s[i + 1]
  BY <1>4, <1>6 DEF t
<1>8. \A i \in 1..3 : s[i] \in T
  BY <1>1
<1> QED BY <1>3, <1>6, <1>7, <1>8 DEF t

SessionType == [snapped : Values, prev : Nat, target : Nat]

\* Every session settled on what stabilize makes of what it measured and remembered.
Settled ==
  /\ prev \in Nat /\ warm \in Nat /\ sessions \in Seq(SessionType)
  /\ \A i \in 1..Len(sessions) : sessions[i].target = Stabilize(sessions[i].snapped, sessions[i].prev)

LEMMA BitrateKeeps == Settled /\ [BitrateNext]_bitrateVars => Settled'
<1> SUFFICES ASSUME Settled, [BitrateNext]_bitrateVars PROVE Settled'
  OBVIOUS
<1>1. CASE UNCHANGED bitrateVars
  BY <1>1 DEF bitrateVars, Settled
<1>2. CASE NewPreparer
  BY <1>2 DEF NewPreparer, Settled
<1>3. CASE Retain
  BY <1>3 DEF Retain, Settled
<1>4. ASSUME NEW m \in Measures, Session(m) PROVE Settled'
  <2> DEFINE snapped == SnapUp(m)
             target == Stabilize(snapped, prev)
             s == [snapped |-> snapped, prev |-> prev, target |-> target]
             old == IF Len(sessions) = 3 THEN Tail(sessions) ELSE sessions
  <2>1. snapped \in Values /\ snapped \in Nat /\ target \in Nat /\ prev \in Nat
    BY Snaps DEF Values, Settled, Stabilize
  <2>2. s \in SessionType /\ s.target = Stabilize(s.snapped, s.prev)
    BY <2>1 DEF SessionType
  <2>3. old \in Seq(SessionType) /\ \A i \in 1..Len(old) : old[i].target = Stabilize(old[i].snapped, old[i].prev)
    <3>1. CASE Len(sessions) = 3
      <4>1. /\ Tail(sessions) \in Seq(SessionType) /\ Len(Tail(sessions)) = 2
            /\ \A i \in 1..2 : Tail(sessions)[i] = sessions[i + 1]
        <5>1. sessions \in Seq(SessionType)
          BY DEF Settled
        <5> QED BY <3>1, <5>1, LastTwo
      <4>2. \A i \in 1..2 : i + 1 \in 1..Len(sessions)
        BY <3>1
      <4> QED BY <3>1, <4>1, <4>2 DEF Settled
    <3>2. CASE Len(sessions) # 3
      BY <3>2 DEF Settled
    <3> QED BY <3>1, <3>2
  <2>4. /\ sessions' = Append(old, s) /\ warm' = target /\ prev' = prev
    BY <1>4 DEF Session, Remember
  <2> HIDE DEF old, s, target
  <2>5. sessions' \in Seq(SessionType)
    BY <2>2, <2>3, <2>4
  <2>6. \A i \in 1..Len(sessions') : (i \in 1..Len(old) /\ sessions'[i] = old[i]) \/ sessions'[i] = s
    BY <2>2, <2>3, <2>4
  <2> QED BY <2>1, <2>2, <2>3, <2>4, <2>5, <2>6 DEF Settled
<1> QED BY <1>1, <1>2, <1>3, <1>4 DEF BitrateNext

LEMMA BitrateOften == MCSpec => []Settled
<1>1. MCInit => Settled
  BY DEF MCInit, BitrateInit, Settled
<1>2. Settled /\ [MCNext]_MCvars => Settled'
  <2>1. [MCNext]_MCvars => [BitrateNext]_bitrateVars
    BY DEF MCNext, OfCache, OfPreparer, OfBitrate, MCvars
  <2> QED BY <2>1, BitrateKeeps
<1> QED BY <1>1, <1>2, PTL DEF MCSpec

\* The dead band takes in the neighbouring rungs, except for the lowest one.
LEMMA BandTakesNeighbours ==
  ASSUME NEW a \in Rungs, NEW b \in Rungs, Neighbours(a, b), a # Min(Rungs)
  PROVE  Stabilize(a, b) = b
<1>1. a \in Nat /\ b \in Nat /\ b # 0 /\ \A r \in Rungs : r \in Nat
  BY RungsKnown
<1>2. /\ \A r \in Rungs : ~(a < r /\ r < b)
      /\ \A r \in Rungs : ~(b < r /\ r < a)
  BY DEF Neighbours, Between
<1>3. Below(a) <= b
  <2> DEFINE S == {r \in Rungs : r < a}
             x == Max(S)
  <2>1. S # {}
    <3>1. Min(Rungs) \in Rungs /\ Min(Rungs) <= a
      BY RungsKnown, Least
    <3> DEFINE lo == Min(Rungs)
    <3>2. lo \in Rungs /\ lo <= a /\ lo # a
      BY <3>1
    <3> HIDE DEF lo
    <3>3. lo < a
      BY <1>1, <3>2
    <3> QED BY <3>2, <3>3
  <2>2. S \in SUBSET Nat /\ \A r \in S : r <= a
    <3>1. \A r \in S : r \in Nat /\ r <= a
      BY <1>1
    <3> QED BY <3>1
  <2>3. x \in S
    <3> HIDE DEF S
    <3> QED BY <1>1, <2>1, <2>2, Greatest
  <2>4. Below(a) = x
    BY <2>1 DEF Below
  <2>5. x \in Rungs /\ x < a
    BY <2>3
  <2> HIDE DEF x
  <2> QED BY <1>1, <1>2, <2>4, <2>5
<1>4. b <= Above(a)
  <2> DEFINE S == {r \in Rungs : r > a}
             x == Min(S)
  <2>1. CASE S # {}
    <3>1. S \in SUBSET Nat
      BY <1>1
    <3>2. x \in S
      <4> HIDE DEF S
      <4> QED BY <2>1, <3>1, Least
    <3>3. Above(a) = x
      BY <2>1 DEF Above
    <3>4. x \in Rungs /\ a < x
      BY <1>1, <3>2
    <3> HIDE DEF x
    <3> QED BY <1>1, <1>2, <3>3, <3>4
  <2>2. CASE S = {}
    <3>1. b <= a
      BY <1>1, <2>2
    <3>2. Above(a) = a + Step /\ Step \in Nat
      BY <2>2, RungsKnown DEF Above
    <3> QED BY <1>1, <3>1, <3>2
  <2> QED BY <2>1, <2>2
<1> QED BY <1>1, <1>3, <1>4 DEF Stabilize

\* A stream near the limit of two rungs does not make the sessions alternate between two
\* targets, when every session knows the target before it: what the second session left
\* for, the third would have kept (stabilize).
THEOREM Settles == MCSpec => []RememberedNoAlternation
<1>1. Settled => RememberedNoAlternation
  <2> SUFFICES ASSUME Settled, Alternates,
                      \A i \in 2..3 : sessions[i].prev = sessions[i - 1].target,
                      \A i \in 1..3 : sessions[i].snapped # Min(Rungs)
                                     /\ sessions[i].snapped <= Max(Rungs)
               PROVE  FALSE
    BY DEF RememberedNoAlternation, NoAlternation
  <2> DEFINE s2 == sessions[2].snapped
             s3 == sessions[3].snapped
             t1 == sessions[1].target
             t2 == sessions[2].target
             t3 == sessions[3].target
  <2>1. /\ sessions \in Seq(SessionType) /\ Len(sessions) = 3
        /\ \A i \in 1..3 : sessions[i] \in SessionType
        /\ \A i \in 1..3 : sessions[i].target = Stabilize(sessions[i].snapped, sessions[i].prev)
    <3>1. sessions \in Seq(SessionType)
      BY DEF Settled
    <3>2. Len(sessions) = 3
      BY DEF Alternates
    <3>3. \A i \in 1..3 : sessions[i] \in SessionType
      BY <3>1, <3>2, LastTwo
    <3> QED BY <3>1, <3>2, <3>3 DEF Settled
  <2>2. /\ t1 = t3 /\ t1 # t2 /\ Neighbours(s2, s3) /\ Neighbours(s3, s2)
        /\ t2 = Stabilize(s2, t1) /\ t3 = Stabilize(s3, t2)
    BY <2>1 DEF Alternates
  <2>3. s2 \in Rungs /\ s3 \in Rungs /\ s2 # Min(Rungs) /\ s3 # Min(Rungs)
    BY <2>1, Snaps DEF SessionType, Values
  <2> HIDE DEF s2, s3, t1, t2, t3
  <2>4. t2 = s2 /\ t3 = s3
    BY <2>2 DEF Stabilize
  <2>5. Stabilize(s2, s3) = s3
    BY <2>2, <2>3, BandTakesNeighbours
  <2> QED BY <2>2, <2>4, <2>5
<1> QED BY <1>1, BitrateOften, PTL

----------------------------------------------------------------------------
(* The player and the return (Player.tla, Resume.tla).                     *)

Live(e) == ~At(e, "none") /\ ~At(e, "over")

RunType ==
  [at : Places, role : {"start", "loop", "end"}, looped : BOOLEAN, killed : BOOLEAN,
   second : BOOLEAN, outros : 0..MaxEndRepeats]

Kinds ==
  /\ {desired, resume, restart, interrupted, segStarted, missed} \subseteq BOOLEAN
  /\ phase \in {"", "start", "loop", "end"}
  /\ onDone \in asked \cup {None} /\ answered \subseteq asked /\ lost \subseteq asked /\ asked \subseteq Asks
  /\ {proc, latest, caller} \subseteq Episodes \cup {None}

\* The process known is one that is read, an outro is repeated while one is left, and
\* no episode has begun that was not started.
Tracked ==
  /\ runs \in [Episodes -> RunType]
  /\ proc # None => runs[proc].at = "read"
  /\ \A e \in Episodes : At(e, "repeat") => runs[e].outros > 0
  /\ \A e \in Episodes : Live(e) => e <= latest

\* No segment has been missed: the latest episode alone is live, its process is the one
\* that is known, it is wanted unless Stop waits for it, and while Stop waits its process
\* has been told to end and no other one comes up.
Alone == \A e \in Episodes : Live(e) => e = latest
Known == \A e \in Episodes : At(e, "read") => proc = e
Wanted == caller = None => \A e \in Episodes : Live(e) => desired
Dying ==
  caller # None =>
    /\ ~desired /\ caller = latest
    /\ \A e \in Episodes : /\ ~At(e, "spawn") /\ ~At(e, "toEnd")
                           /\ At(e, "read") => runs[e].killed
Sound == ~missed => Alone /\ Known /\ Wanted /\ Dying

PInv == Kinds /\ Tracked /\ Sound

LEMMA PlayerTyped == PInv => TypeOK
<1> SUFFICES ASSUME PInv PROVE TypeOK
  OBVIOUS
<1>1. onDone \in Asks \cup {None}
  BY DEF PInv, Kinds
<1> QED BY <1>1 DEF PInv, Kinds, Tracked, TypeOK, RunType

LEMMA Bounds ==
  /\ None \notin Episodes /\ MaxEndRepeats \in Nat
  /\ 0 \in 0..MaxEndRepeats /\ MaxEndRepeats \in 0..MaxEndRepeats
BY BoundsAssumption, MaxEndRepeatsAssumption DEF Episodes, None

LEMMA Fresh == NewRun \in RunType /\ NewRun.at = "none" /\ "over" \in Places
BY Bounds DEF NewRun, RunType, Places

LEMMA PlayerInitially == Init => PInv
<1> SUFFICES ASSUME Init PROVE PInv
  OBVIOUS
<1>1. Kinds
  BY DEF Init, Kinds
<1>2. runs = [e \in Episodes |-> NewRun] /\ proc = None /\ caller = None
  BY DEF Init
<1>3. \A e \in Episodes : runs[e].at = "none"
  BY <1>2, Fresh
<1>4. Tracked
  BY <1>2, <1>3, Fresh DEF Tracked, Live, At
<1>5. Sound
  BY <1>2, <1>3 DEF Sound, Alone, Known, Wanted, Dying, Live, At
<1> QED BY <1>1, <1>4, <1>5 DEF PInv

----------------------------------------------------------------------------
(* The goroutine of an episode.                                            *)

\* A run that reads no segment goes on to somewhere else, and never to a new segment
\* unless the player is wanted or it was on its way to the outro.
LEMMA Moved ==
  ASSUME PInv, NEW e \in Episodes, Live(e), ~At(e, "read"),
         NEW r \in RunType, r.at # "read",
         r.at \in {"spawn", "toEnd"} => desired \/ At(e, "toEnd"),
         r.at = "repeat" => r.outros > 0,
         runs' = [runs EXCEPT ![e] = r],
         UNCHANGED <<desired, proc, latest, caller, missed>>
  PROVE  Tracked' /\ Sound'
<1>1. /\ runs \in [Episodes -> RunType] /\ runs' \in [Episodes -> RunType]
      /\ runs'[e] = r /\ \A f \in Episodes \ {e} : runs'[f] = runs[f]
  BY DEF PInv, Tracked
<1>2. proc # None => proc # e /\ proc \in Episodes
  BY DEF PInv, Tracked, Kinds, At
<1>3. Tracked'
  BY <1>1, <1>2 DEF PInv, Tracked, Live, At
<1>4. Sound'
  <2> SUFFICES ASSUME ~missed PROVE Alone' /\ Known' /\ Wanted' /\ Dying'
    BY DEF Sound
  <2>1. Alone /\ Known /\ Wanted /\ Dying
    BY DEF PInv, Sound
  <2>2. Alone' /\ Wanted'
    BY <1>1, <2>1 DEF Alone, Wanted, Live, At
  <2>3. Known'
    BY <1>1, <2>1 DEF Known, At
  <2>4. Dying'
    <3> SUFFICES ASSUME caller # None, NEW f \in Episodes
                 PROVE  /\ ~desired /\ caller = latest
                        /\ runs'[f].at # "spawn" /\ runs'[f].at # "toEnd"
                        /\ runs'[f].at = "read" => runs'[f].killed
      BY <2>1 DEF Dying, At
    <3>1. CASE f = e
      BY <1>1, <2>1, <3>1 DEF Dying, At
    <3>2. CASE f # e
      BY <1>1, <2>1, <3>2 DEF Dying, At
    <3> QED BY <3>1, <3>2
  <2> QED BY <2>2, <2>3, <2>4
<1> QED BY <1>3, <1>4

\* A segment that was read has ended, or was never heard of.
LEMMA SegmentOver ==
  ASSUME PInv, NEW e \in Episodes, AfterSegment(e)
  PROVE  \E r \in RunType : /\ runs' = [runs EXCEPT ![e] = r]
                            /\ r.at \in {"afterStart", "body", "fire"} /\ r.outros = runs[e].outros
<1> DEFINE p == CASE runs[e].role = "start" -> "afterStart"
                  [] runs[e].role = "loop" -> "body"
                  [] runs[e].role = "end" -> "fire"
           r == [runs[e] EXCEPT !.killed = FALSE, !.looped = FALSE, !.at = p]
<1>1. runs[e] \in RunType /\ runs \in [Episodes -> RunType]
  BY DEF PInv, Tracked
<1>2. p \in {"afterStart", "body", "fire"}
  BY <1>1 DEF RunType
<1>5. runs' = [runs EXCEPT ![e].killed = FALSE, ![e].looped = FALSE, ![e].at = p]
  BY DEF AfterSegment
<1> HIDE DEF p
<1>3. runs' = [runs EXCEPT ![e] = r]
  BY <1>1, <1>5
<1>4. r \in RunType /\ r.at = p /\ r.outros = runs[e].outros
  BY <1>1, <1>2 DEF RunType, Places
<1> QED BY <1>2, <1>3, <1>4

LEMMA SegmentEndsKeeps == ASSUME PInv, NEW e \in Episodes, SegmentEnds(e) PROVE PInv'
<1>1. /\ At(e, "read") /\ proc' = IF proc = e THEN None ELSE proc
      /\ UNCHANGED <<fields, latest, caller, answered, missed, asked, lost>>
  BY DEF SegmentEnds
<1>2. PICK r \in RunType : runs' = [runs EXCEPT ![e] = r] /\ r.at \in {"afterStart", "body", "fire"}
  BY SegmentOver DEF SegmentEnds
<1>3. /\ runs \in [Episodes -> RunType] /\ runs' \in [Episodes -> RunType]
      /\ runs'[e] = r /\ \A f \in Episodes \ {e} : runs'[f] = runs[f]
  BY <1>2 DEF PInv, Tracked
<1>4. Kinds'
  BY <1>1 DEF PInv, Kinds, fields
<1>5. Tracked'
  <2>1. proc' # None => proc' = proc /\ proc # e /\ proc \in Episodes
    BY <1>1 DEF PInv, Kinds
  <2> QED BY <1>1, <1>2, <1>3, <2>1 DEF PInv, Tracked, Live, At
<1>6. Sound'
  <2> SUFFICES ASSUME ~missed PROVE Alone' /\ Known' /\ Wanted' /\ Dying'
    BY <1>1 DEF Sound
  <2>1. Alone /\ Known /\ Wanted /\ Dying
    BY DEF PInv, Sound
  <2>2. Alone' /\ Wanted'
    BY <1>1, <1>2, <1>3, <2>1 DEF Alone, Wanted, Live, At, fields
  <2>3. Known'
    BY <1>1, <1>2, <1>3, <2>1 DEF Known, At
  <2>4. Dying'
    BY <1>1, <1>2, <1>3, <2>1 DEF Dying, At, fields
  <2> QED BY <2>2, <2>3, <2>4
<1> QED BY <1>4, <1>5, <1>6 DEF PInv

\* A process that comes up is wanted, and becomes the one that is known.
LEMMA RegisterKeeps == ASSUME PInv, NEW e \in Episodes, Register(e) PROVE PInv'
<1>1. /\ At(e, "spawn") /\ Live(e) /\ ~At(e, "read") /\ ~At(e, "toEnd")
      /\ UNCHANGED <<desired, resume, restart, onDone, phase>>
      /\ UNCHANGED <<latest, caller, answered, missed, asked, lost>>
  BY DEF Register, Live, At
<1>2. CASE AfterSegment(e) /\ UNCHANGED <<proc, interrupted, segStarted>>
  <2>1. PICK r \in RunType : runs' = [runs EXCEPT ![e] = r] /\ r.at \in {"afterStart", "body", "fire"}
    BY <1>2, SegmentOver
  <2>2. Tracked' /\ Sound'
    BY <1>1, <1>2, <2>1, Moved
  <2>3. Kinds'
    BY <1>1, <1>2 DEF PInv, Kinds
  <2> QED BY <2>2, <2>3 DEF PInv
<1>3. CASE /\ proc' = e /\ interrupted' = FALSE /\ segStarted' = FALSE
           /\ runs' = [runs EXCEPT ![e].at = "read", ![e].killed = FALSE]
  <2> DEFINE r == [runs[e] EXCEPT !.at = "read", !.killed = FALSE]
  <2>1. runs[e] \in RunType /\ runs \in [Episodes -> RunType]
    BY DEF PInv, Tracked
  <2>2. r \in RunType /\ r.at = "read"
    BY <2>1 DEF RunType, Places
  <2>3. runs' = [runs EXCEPT ![e] = r]
    BY <1>3, <2>1
  <2> HIDE DEF r
  <2>4. runs' \in [Episodes -> RunType] /\ runs'[e] = r /\ \A f \in Episodes \ {e} : runs'[f] = runs[f]
    BY <2>1, <2>2, <2>3
  <2>5. Kinds'
    BY <1>1, <1>3 DEF PInv, Kinds
  <2>6. Tracked'
    BY <1>1, <1>3, <2>2, <2>4 DEF PInv, Tracked, Live, At
  <2>7. Sound'
    <3> SUFFICES ASSUME ~missed PROVE Alone' /\ Known' /\ Wanted' /\ Dying'
      BY <1>1 DEF Sound
    <3>1. Alone /\ Known /\ Wanted /\ Dying
      BY DEF PInv, Sound
    <3>2. caller = None
      BY <1>1, <3>1 DEF Dying
    <3>3. Alone' /\ Wanted'
      BY <1>1, <2>4, <3>1, <3>2 DEF Alone, Wanted, Live, At
    <3>4. Known'
      <4>1. \A f \in Episodes \ {e} : ~At(f, "read")
        BY <1>1, <3>1 DEF Alone, Live, At
      <4> QED BY <1>3, <2>4, <4>1 DEF Known, At
    <3>5. Dying'
      BY <1>1, <3>2 DEF Dying
    <3> QED BY <3>3, <3>4, <3>5
  <2> QED BY <2>5, <2>6, <2>7 DEF PInv
<1> QED BY <1>2, <1>3 DEF Register

LEMMA Placed ==
  ASSUME PInv, NEW e \in Episodes, NEW q \in Places, Move(e, q)
  PROVE  \E r \in RunType : /\ runs' = [runs EXCEPT ![e] = r] /\ r.at = q /\ r.outros = runs[e].outros
<1> DEFINE r == [runs[e] EXCEPT !.at = q]
<1>1. runs[e] \in RunType /\ runs \in [Episodes -> RunType]
  BY DEF PInv, Tracked
<1>2. r \in RunType /\ r.at = q /\ r.outros = runs[e].outros
  BY <1>1 DEF RunType
<1>3. runs' = [runs EXCEPT ![e] = r]
  BY <1>1 DEF Move
<1> QED BY <1>2, <1>3

LEMMA Finished ==
  ASSUME NEW e \in Episodes, Finish(e)
  PROVE  \E r \in RunType : runs' = [runs EXCEPT ![e] = r] /\ r.at = "over"
<1>1. [NewRun EXCEPT !.at = "over"] \in RunType /\ [NewRun EXCEPT !.at = "over"].at = "over"
  BY Fresh DEF RunType, Places
<1> QED BY <1>1 DEF Finish

\* What a run does apart from starting and ending a segment.
LEMMA MovesKeep == ASSUME PInv, NEW e \in Episodes, Moves(e) PROVE PInv'
<1> USE DEF PInv
<1> DEFINE MovesTo(r) == /\ runs' = [runs EXCEPT ![e] = r] /\ r.at # "read"
                         /\ r.at \in {"spawn", "toEnd"} => desired \/ At(e, "toEnd")
                         /\ r.at = "repeat" => r.outros > 0
<1>0. /\ runs[e] \in RunType /\ runs \in [Episodes -> RunType]
      /\ \A p \in Places : At(e, p) <=> runs[e].at = p
  BY DEF Tracked, At
<1>1. CASE OpenLog(e)
  <2>1. /\ At(e, "begin") /\ Live(e) /\ ~At(e, "read") /\ OnlyMoves
    BY <1>1 DEF OpenLog, Live, At
  <2>2. \E r \in RunType : MovesTo(r)
    <3>1. CASE Move(e, "top")
      BY <3>1, Placed DEF Places
    <3>2. CASE Finish(e)
      BY <3>2, Finished
    <3> QED BY <1>1, <3>1, <3>2 DEF OpenLog
  <2>3. Tracked' /\ Sound'
    BY <2>1, <2>2, Moved DEF OnlyMoves, fields
  <2> QED BY <2>1, <2>3 DEF OnlyMoves, fields, Kinds
<1>2. CASE Top(e)
  <2>1. /\ At(e, "top") /\ Live(e) /\ ~At(e, "read")
        /\ UNCHANGED <<desired, onDone, interrupted, segStarted>>
        /\ UNCHANGED <<proc, latest, caller, answered, missed, asked, lost>>
    BY <1>2 DEF Top, Live, At
  <2>2. \E r \in RunType : MovesTo(r)
    <3>1. CASE Finish(e)
      BY <3>1, Finished
    <3>2. ASSUME desired, NEW place \in {"spawn", "afterStart"},
                 runs' = [runs EXCEPT ![e] = [NewRun EXCEPT !.at = place]]
          PROVE  \E r \in RunType : MovesTo(r)
      <4>1. [NewRun EXCEPT !.at = place] \in RunType /\ [NewRun EXCEPT !.at = place].at = place
        BY Fresh DEF RunType, Places
      <4> QED BY <3>2, <4>1
    <3> QED BY <1>2, <3>1, <3>2 DEF Top
  <2>3. Tracked' /\ Sound'
    BY <2>1, <2>2, Moved
  <2>4. resume' \in {resume, FALSE} /\ restart' \in {restart, FALSE} /\ phase' \in {phase, "start"}
    BY <1>2 DEF Top
  <2> QED BY <2>1, <2>3, <2>4 DEF Kinds
<1>3. CASE AfterStart(e)
  <2>1. /\ At(e, "afterStart") /\ Live(e) /\ ~At(e, "read") /\ OnlyMoves
    BY <1>3 DEF AfterStart, Live, At
  <2>2. \E r \in RunType : MovesTo(r)
    <3>1. CASE Finish(e)
      BY <3>1, Finished
    <3>2. ASSUME desired, NEW place \in {"top", "toEnd", "toLoop"}, Move(e, place)
          PROVE  \E r \in RunType : MovesTo(r)
      BY <3>2, Placed DEF Places
    <3> QED BY <1>3, <3>1, <3>2 DEF AfterStart
  <2>3. Tracked' /\ Sound'
    BY <2>1, <2>2, Moved DEF OnlyMoves, fields
  <2> QED BY <2>1, <2>3 DEF OnlyMoves, fields, Kinds
<1>4. CASE ToLoop(e)
  <2>1. /\ At(e, "toLoop") /\ Live(e) /\ ~At(e, "read") /\ phase' = "loop" /\ Move(e, "body")
        /\ UNCHANGED <<desired, resume, restart, onDone, interrupted, segStarted>>
        /\ UNCHANGED <<proc, latest, caller, answered, missed, asked, lost>>
    BY <1>4 DEF ToLoop, Live, At
  <2>2. \E r \in RunType : MovesTo(r)
    BY <2>1, Placed DEF Places
  <2>3. Tracked' /\ Sound'
    BY <2>1, <2>2, Moved
  <2> QED BY <2>1, <2>3 DEF Kinds
<1>5. CASE Body(e)
  <2>1. /\ At(e, "body") /\ Live(e) /\ ~At(e, "read") /\ OnlyMoves
    BY <1>5 DEF Body, Live, At
  <2>2. \E r \in RunType : MovesTo(r)
    <3>1. CASE Move(e, "bodyOver")
      BY <3>1, Placed DEF Places
    <3>2. ASSUME desired, NEW looped \in BOOLEAN,
                 runs' = [runs EXCEPT ![e].at = "spawn", ![e].role = "loop", ![e].looped = looped]
          PROVE  \E r \in RunType : MovesTo(r)
      <4> DEFINE r == [runs[e] EXCEPT !.at = "spawn", !.role = "loop", !.looped = looped]
      <4>1. r \in RunType /\ r.at = "spawn"
        BY <1>0 DEF RunType, Places
      <4>2. runs' = [runs EXCEPT ![e] = r]
        BY <1>0, <3>2
      <4> QED BY <3>2, <4>1, <4>2
    <3> QED BY <1>5, <3>1, <3>2 DEF Body
  <2>3. Tracked' /\ Sound'
    BY <2>1, <2>2, Moved DEF OnlyMoves, fields
  <2> QED BY <2>1, <2>3 DEF OnlyMoves, fields, Kinds
<1>6. CASE BodyOver(e)
  <2>1. /\ At(e, "bodyOver") /\ Live(e) /\ ~At(e, "read") /\ OnlyMoves
    BY <1>6 DEF BodyOver, Live, At
  <2>2. \E r \in RunType : MovesTo(r)
    <3>1. CASE Finish(e)
      BY <3>1, Finished
    <3>2. ASSUME desired, NEW place \in {"top", "toEnd"}, Move(e, place)
          PROVE  \E r \in RunType : MovesTo(r)
      BY <3>2, Placed DEF Places
    <3> QED BY <1>6, <3>1, <3>2 DEF BodyOver
  <2>3. Tracked' /\ Sound'
    BY <2>1, <2>2, Moved DEF OnlyMoves, fields
  <2> QED BY <2>1, <2>3 DEF OnlyMoves, fields, Kinds
<1>7. CASE ToEnd(e)
  <2>1. /\ At(e, "toEnd") /\ Live(e) /\ ~At(e, "read") /\ phase' = "end" /\ segStarted' = FALSE
        /\ UNCHANGED <<desired, resume, restart, onDone, interrupted>>
        /\ UNCHANGED <<proc, latest, caller, answered, missed, asked, lost>>
    BY <1>7 DEF ToEnd, Live, At
  <2>2. \E r \in RunType : MovesTo(r)
    <3>1. CASE runs' = [runs EXCEPT ![e].at = "spawn", ![e].role = "end", ![e].outros = MaxEndRepeats]
      <4> DEFINE r == [runs[e] EXCEPT !.at = "spawn", !.role = "end", !.outros = MaxEndRepeats]
      <4>1. r \in RunType /\ r.at = "spawn"
        BY <1>0, Bounds DEF RunType, Places
      <4>2. runs' = [runs EXCEPT ![e] = r]
        BY <1>0, <3>1
      <4> QED BY <2>1, <4>1, <4>2
    <3>2. CASE runs' = [runs EXCEPT ![e].at = "fire", ![e].outros = 0]
      <4> DEFINE r == [runs[e] EXCEPT !.at = "fire", !.outros = 0]
      <4>1. r \in RunType /\ r.at = "fire"
        BY <1>0, Bounds DEF RunType, Places
      <4>2. runs' = [runs EXCEPT ![e] = r]
        BY <1>0, <3>2
      <4> QED BY <4>1, <4>2
    <3> QED BY <1>7, <3>1, <3>2 DEF ToEnd
  <2>3. Tracked' /\ Sound'
    BY <2>1, <2>2, Moved
  <2> QED BY <2>1, <2>3 DEF Kinds
<1>8. CASE AfterEnd(e)
  <2>1. /\ At(e, "fire") /\ Live(e) /\ ~At(e, "read")
        /\ answered' = answered \cup ({onDone} \ {None}) /\ onDone' = None
        /\ UNCHANGED <<desired, resume, restart, phase, interrupted, segStarted>>
        /\ UNCHANGED <<proc, latest, caller, missed, asked, lost>>
    BY <1>8 DEF AfterEnd, FireDone, Live, At
  <2>2. \E r \in RunType : MovesTo(r)
    <3>1. CASE runs[e].outros > 0 /\ Move(e, "repeat")
      BY <3>1, Placed DEF Places
    <3>2. CASE Move(e, "leave")
      BY <3>2, Placed DEF Places
    <3> QED BY <1>8, <3>1, <3>2 DEF AfterEnd
  <2>3. Tracked' /\ Sound'
    BY <2>1, <2>2, Moved
  <2> QED BY <2>1, <2>3 DEF Kinds
<1>9. CASE Repeat(e)
  <2>1. /\ At(e, "repeat") /\ Live(e) /\ ~At(e, "read") /\ OnlyMoves
    BY <1>9 DEF Repeat, Live, At
  <2>2. \E r \in RunType : MovesTo(r)
    <3>1. CASE Move(e, "leave")
      BY <3>1, Placed DEF Places
    <3>2. CASE desired /\ runs' = [runs EXCEPT ![e].at = "spawn", ![e].outros = @ - 1]
      <4> DEFINE n == runs[e].outros - 1
                 r == [runs[e] EXCEPT !.at = "spawn", !.outros = n]
      <4>1. n \in 0..MaxEndRepeats
        BY <1>0, <2>1, Bounds DEF Tracked, RunType
      <4>4. runs' = [runs EXCEPT ![e].at = "spawn", ![e].outros = n]
        BY <1>0, <3>2 DEF RunType
      <4> HIDE DEF n
      <4>2. r \in RunType /\ r.at = "spawn"
        BY <1>0, <4>1 DEF RunType, Places
      <4>3. runs' = [runs EXCEPT ![e] = r]
        BY <1>0, <4>4
      <4> QED BY <3>2, <4>2, <4>3
    <3> QED BY <1>9, <3>1, <3>2 DEF Repeat
  <2>3. Tracked' /\ Sound'
    BY <2>1, <2>2, Moved DEF OnlyMoves, fields
  <2> QED BY <2>1, <2>3 DEF OnlyMoves, fields, Kinds
<1>10. CASE LeaveEndPhase(e)
  <2>1. /\ At(e, "leave") /\ Live(e) /\ ~At(e, "read")
        /\ UNCHANGED <<desired, restart, onDone, interrupted, segStarted>>
        /\ UNCHANGED <<proc, latest, caller, answered, missed, asked, lost>>
    BY <1>10 DEF LeaveEndPhase, Live, At
  <2>2. \E r \in RunType : MovesTo(r)
    <3>1. CASE Finish(e)
      BY <3>1, Finished
    <3>2. CASE Move(e, "leaveFire")
      BY <3>2, Placed DEF Places
    <3> QED BY <1>10, <3>1, <3>2 DEF LeaveEndPhase
  <2>3. Tracked' /\ Sound'
    BY <2>1, <2>2, Moved
  <2>4. resume' \in {resume, FALSE} /\ phase' \in {phase, "loop"}
    BY <1>10 DEF LeaveEndPhase
  <2> QED BY <2>1, <2>3, <2>4 DEF Kinds
<1>11. CASE LateAnswer(e)
  <2>1. /\ At(e, "leaveFire") /\ Live(e) /\ ~At(e, "read")
        /\ answered' = answered \cup ({onDone} \ {None}) /\ onDone' = None
        /\ runs' = [runs EXCEPT ![e].at = "body", ![e].second = TRUE]
        /\ UNCHANGED <<desired, resume, restart, phase, interrupted, segStarted>>
        /\ UNCHANGED <<proc, latest, caller, missed, asked, lost>>
    BY <1>11 DEF LateAnswer, FireDone, Live, At
  <2>2. \E r \in RunType : MovesTo(r)
    <3> DEFINE r == [runs[e] EXCEPT !.at = "body", !.second = TRUE]
    <3>1. r \in RunType /\ r.at = "body"
      BY <1>0 DEF RunType, Places
    <3>2. runs' = [runs EXCEPT ![e] = r]
      BY <1>0, <2>1
    <3> QED BY <3>1, <3>2
  <2>3. Tracked' /\ Sound'
    BY <2>1, <2>2, Moved
  <2> QED BY <2>1, <2>3 DEF Kinds
<1>12. CASE Register(e)
  BY <1>12, RegisterKeeps
<1> QED BY <1>1, <1>2, <1>3, <1>4, <1>5, <1>6, <1>7, <1>8, <1>9, <1>10, <1>11, <1>12 DEF Moves

----------------------------------------------------------------------------
(* The calls. *)

LEMMA PlayerUnchanged == PInv /\ UNCHANGED vars => PInv'
<1> SUFFICES ASSUME PInv, UNCHANGED vars PROVE PInv'
  OBVIOUS
<1>1. UNCHANGED <<desired, resume, restart, onDone, phase, interrupted, segStarted, proc, latest,
                  runs, caller, answered, missed, asked, lost>>
  BY DEF vars, fields
<1>2. Kinds'
  BY <1>1 DEF PInv, Kinds
<1>3. Tracked' /\ Sound'
  BY <1>1 DEF PInv, Tracked, Sound, Alone, Known, Wanted, Dying, Live, At
<1> QED BY <1>2, <1>3 DEF PInv

\* Nothing moves when a process is told to end, and what was not told has been missed.
LEMMA Killed ==
  ASSUME PInv, KillLocked
  PROVE  /\ runs' \in [Episodes -> RunType] /\ missed' \in BOOLEAN /\ interrupted' = TRUE
         /\ \A e \in Episodes : /\ runs'[e].at = runs[e].at /\ runs'[e].outros = runs[e].outros
                                /\ runs[e].killed \/ e = proc => runs'[e].killed
         /\ ~missed' => ~missed /\ \A e \in Episodes : runs[e].at # "spawn" /\ runs[e].at # "toEnd"
<1>1. /\ interrupted' = TRUE
      /\ runs' = IF proc = None THEN runs ELSE [runs EXCEPT ![proc].killed = TRUE]
      /\ missed' = (missed \/ \E e \in Episodes : At(e, "spawn") \/ At(e, "toEnd"))
  BY DEF KillLocked
<1>2. runs \in [Episodes -> RunType] /\ proc \in Episodes \cup {None} /\ missed \in BOOLEAN
  BY DEF PInv, Kinds, Tracked
<1>3. missed' \in BOOLEAN
  BY <1>1
<1>4. ~missed' => ~missed /\ \A e \in Episodes : runs[e].at # "spawn" /\ runs[e].at # "toEnd"
  BY <1>1 DEF At
<1>5. CASE proc = None
  BY <1>1, <1>2, <1>3, <1>4, <1>5, Bounds
<1>6. CASE proc # None
  <2> DEFINE r == [runs[proc] EXCEPT !.killed = TRUE]
  <2>1. proc \in Episodes /\ runs[proc] \in RunType
    BY <1>2, <1>6
  <2>2. r \in RunType /\ r.at = runs[proc].at /\ r.outros = runs[proc].outros /\ r.killed
    BY <2>1 DEF RunType
  <2>3. runs' = [runs EXCEPT ![proc] = r]
    BY <1>1, <1>2, <1>6, <2>1
  <2> HIDE DEF r
  <2>4. /\ runs' \in [Episodes -> RunType] /\ runs'[proc] = r
        /\ \A f \in Episodes \ {proc} : runs'[f] = runs[f]
    BY <1>2, <2>1, <2>2, <2>3
  <2> QED BY <1>1, <1>3, <1>4, <2>2, <2>4
<1> QED BY <1>5, <1>6

LEMMA FirstTagKeeps == ASSUME PInv, NEW e \in Episodes, FirstTag(e) PROVE PInv'
<1>1. /\ segStarted' = TRUE
      /\ UNCHANGED <<desired, resume, restart, onDone, phase, interrupted>>
      /\ UNCHANGED <<proc, latest, runs, caller, answered, missed, asked, lost>>
  BY DEF FirstTag
<1>2. Kinds'
  BY <1>1 DEF PInv, Kinds
<1>3. Tracked' /\ Sound'
  BY <1>1 DEF PInv, Tracked, Sound, Alone, Known, Wanted, Dying, Live, At
<1> QED BY <1>2, <1>3 DEF PInv

\* The episode before is over when the next one starts.
LEMMA StartKeeps == ASSUME PInv, caller = None, Start PROVE PInv'
<1>1. CASE desired
  BY <1>1, PlayerUnchanged DEF Start
<1>2. CASE ~desired
  <2> DEFINE e == latest + 1
  <2>1. /\ latest < MaxStarts
        /\ desired' = TRUE /\ resume' = FALSE /\ restart' = FALSE /\ onDone' = None
        /\ latest' = e /\ runs' = [runs EXCEPT ![e].at = "begin"]
        /\ UNCHANGED <<phase, interrupted, segStarted, proc, caller, answered, missed, asked, lost>>
    BY <1>2 DEF Start, Move
  <2>10. latest \in Episodes \cup {None} /\ proc \in Episodes \cup {None}
    BY DEF PInv, Kinds
  <2>2. e \in Episodes /\ latest \in Nat /\ e = latest + 1
    BY <2>1, <2>10, BoundsAssumption DEF Episodes, None
  <2> HIDE DEF e
  <2> DEFINE r == [runs[e] EXCEPT !.at = "begin"]
  <2>3. runs[e] \in RunType /\ runs \in [Episodes -> RunType]
    BY <2>2 DEF PInv, Tracked
  <2>4. r \in RunType /\ r.at = "begin"
    BY <2>3 DEF RunType, Places
  <2>5. runs' = [runs EXCEPT ![e] = r]
    BY <2>1, <2>3
  <2> HIDE DEF r
  <2>6. runs' \in [Episodes -> RunType] /\ runs'[e] = r /\ \A f \in Episodes \ {e} : runs'[f] = runs[f]
    BY <2>2, <2>3, <2>4, <2>5
  <2>7. Kinds'
    BY <2>1, <2>2 DEF PInv, Kinds
  <2>8. CASE ~missed
    <3>1. Alone /\ Known /\ Wanted /\ Dying
      BY <2>8 DEF PInv, Sound
    <3>2. \A f \in Episodes : ~Live(f)
      BY <1>2, <3>1 DEF Wanted
    <3>3. proc = None
      BY <3>2 DEF PInv, Kinds, Tracked, Live, At
    <3>4. Tracked'
      <4>1. \A f \in Episodes : Live(f)' => f <= latest'
        BY <2>1, <2>2, <2>6, <3>2, BoundsAssumption DEF Live, At, Episodes
      <4> QED BY <2>1, <2>4, <2>6, <3>3, <4>1 DEF PInv, Tracked, At
    <3>5. Alone' /\ Known' /\ Wanted' /\ Dying'
      BY <2>1, <2>4, <2>6, <3>2 DEF Alone, Known, Wanted, Dying, Live, At
    <3> QED BY <2>7, <3>4, <3>5 DEF PInv, Sound
  <2>9. CASE missed
    <3>2. proc # None => proc # e /\ proc \in Episodes
      BY <2>2, <2>10 DEF PInv, Tracked, Live, At
    <3>3. \A f \in Episodes : Live(f)' => f <= latest'
      <4> SUFFICES ASSUME NEW f \in Episodes, Live(f)' PROVE f <= e
        BY <2>1
      <4>1. CASE f = e
        BY <2>2, <4>1
      <4>2. CASE f # e
        <5>1. f <= latest
          BY <2>6, <4>2 DEF PInv, Tracked, Live, At
        <5> QED BY <2>2, <5>1, BoundsAssumption DEF Episodes
      <4> QED BY <4>1, <4>2
    <3>4. Tracked'
      BY <2>1, <2>4, <2>6, <3>2, <3>3 DEF PInv, Tracked, At
    <3> QED BY <2>1, <2>7, <2>9, <3>4 DEF PInv, Sound
  <2> QED BY <2>8, <2>9
<1> QED BY <1>1, <1>2

\* A call that tells the process to end, apart from what it remembers of the call.
LEMMA KillKeeps ==
  ASSUME PInv, KillLocked, UNCHANGED <<proc, latest>>,
         \/ desired' = desired /\ caller' = caller
         \/ ~desired' /\ caller' = latest
  PROVE  Tracked' /\ Sound'
<1>1. /\ runs' \in [Episodes -> RunType]
      /\ \A e \in Episodes : /\ runs'[e].at = runs[e].at /\ runs'[e].outros = runs[e].outros
                             /\ runs[e].killed \/ e = proc => runs'[e].killed
      /\ ~missed' => ~missed /\ \A e \in Episodes : runs[e].at # "spawn" /\ runs[e].at # "toEnd"
  BY Killed
<1>2. Tracked'
  <2>1. proc \in Episodes \cup {None}
    BY DEF PInv, Kinds
  <2> QED BY <1>1, <2>1 DEF PInv, Tracked, Live, At
<1>3. Sound'
  <2> SUFFICES ASSUME ~missed' PROVE Alone' /\ Known' /\ Wanted' /\ Dying'
    BY DEF Sound
  <2>1. Alone /\ Known /\ Wanted /\ Dying
    BY <1>1 DEF PInv, Sound
  <2>2. Alone' /\ Known'
    BY <1>1, <2>1 DEF Alone, Known, Live, At
  <2>3. CASE desired' = desired /\ caller' = caller
    BY <1>1, <2>1, <2>2, <2>3 DEF Wanted, Dying, Live, At
  <2>4. CASE ~desired' /\ caller' = latest
    <3>1. Wanted'
      <4> SUFFICES ASSUME caller' = None, NEW e \in Episodes, Live(e)' PROVE FALSE
        BY DEF Wanted
      <4>1. e = None
        BY <2>2, <2>4 DEF Alone
      <4> QED BY <4>1, Bounds
    <3>2. Dying'
      BY <1>1, <2>1, <2>4 DEF Known, Dying, At
    <3> QED BY <2>2, <3>1, <3>2
  <2> QED BY <2>3, <2>4
<1> QED BY <1>2, <1>3

LEMMA StopKeeps == ASSUME PInv, Stop PROVE PInv'
<1>1. CASE ~desired /\ proc = None
  BY <1>1, PlayerUnchanged DEF Stop
<1>2. CASE ~(~desired /\ proc = None)
  <2>1. /\ desired' = FALSE /\ resume' = FALSE /\ restart' = FALSE /\ onDone' = None
        /\ KillLocked /\ caller' = latest
        /\ UNCHANGED <<phase, segStarted, proc, latest, answered, asked, lost>>
    BY <1>2 DEF Stop
  <2>2. Tracked' /\ Sound'
    BY <2>1, KillKeeps
  <2>3. missed' \in BOOLEAN /\ interrupted' = TRUE
    BY <2>1, Killed
  <2>4. Kinds'
    BY <2>1, <2>3 DEF PInv, Kinds
  <2> QED BY <2>2, <2>4 DEF PInv
<1> QED BY <1>1, <1>2

LEMMA RestartKeeps == ASSUME PInv, Restart PROVE PInv'
<1>1. CASE ~desired
  BY <1>1, PlayerUnchanged DEF Restart
<1>2. CASE desired
  <2>1. /\ restart' = TRUE /\ resume' = FALSE /\ onDone' = None /\ KillLocked
        /\ UNCHANGED <<desired, phase, segStarted, proc, latest, caller, answered, asked, lost>>
    BY <1>2 DEF Restart
  <2>2. Tracked' /\ Sound'
    BY <2>1, KillKeeps
  <2>3. missed' \in BOOLEAN /\ interrupted' = TRUE
    BY <2>1, Killed
  <2>4. Kinds'
    BY <2>1, <2>3 DEF PInv, Kinds
  <2> QED BY <2>2, <2>4 DEF PInv
<1> QED BY <1>1, <1>2

LEMMA PlayEndKeeps == ASSUME PInv, NEW r \in Asks, PlayEnd(r) PROVE PInv'
<1>1. CASE ~PlayEndTaken
  BY <1>1, PlayerUnchanged DEF PlayEnd
<1>2. CASE PlayEndTaken
  <2>1. /\ onDone' = r /\ asked' = asked \cup {r} /\ lost' \in {lost, lost \cup {r}}
        /\ resume' = (resume \/ phase \in {"start", "loop"})
        /\ KillLocked \/ UNCHANGED <<interrupted, runs, missed>>
        /\ UNCHANGED <<desired, restart, phase, segStarted, proc, latest, caller, answered>>
    BY <1>2 DEF PlayEnd
  <2>2. Tracked' /\ Sound'
    <3>1. CASE KillLocked
      BY <2>1, <3>1, KillKeeps
    <3>2. CASE UNCHANGED <<interrupted, runs, missed>>
      BY <2>1, <3>2 DEF PInv, Tracked, Sound, Alone, Known, Wanted, Dying, Live, At
    <3> QED BY <2>1, <3>1, <3>2
  <2>3. missed' \in BOOLEAN /\ interrupted' \in BOOLEAN
    <3>1. CASE KillLocked
      BY <3>1, Killed
    <3>2. CASE UNCHANGED <<interrupted, runs, missed>>
      BY <3>2 DEF PInv, Kinds
    <3> QED BY <2>1, <3>1, <3>2
  <2>4. resume' \in BOOLEAN
    BY <2>1
  <2>5. Kinds'
    BY <2>1, <2>3, <2>4 DEF PInv, Kinds
  <2> QED BY <2>2, <2>5 DEF PInv
<1> QED BY <1>1, <1>2

\* Stop returns when its episode is over: it never gives up waiting for one.
LEMMA StopReturnsKeeps == ASSUME PInv, StopReturns PROVE PInv'
<1>1. /\ caller # None /\ (At(caller, "over") \/ (At(caller, "read") /\ ~runs[caller].killed))
      /\ caller' = None
      /\ UNCHANGED <<fields, proc, latest, runs, answered, missed, asked, lost>>
  BY DEF StopReturns
<1>2. Kinds'
  BY <1>1 DEF PInv, Kinds, fields
<1>3. Tracked'
  BY <1>1 DEF PInv, Tracked, Live, At
<1>4. Sound'
  <2> SUFFICES ASSUME ~missed PROVE Alone' /\ Known' /\ Wanted' /\ Dying'
    BY <1>1 DEF Sound
  <2>1. Alone /\ Known /\ Wanted /\ Dying
    BY DEF PInv, Sound
  <2>2. caller \in Episodes /\ caller = latest
    BY <1>1, <2>1 DEF PInv, Kinds, Dying
  <2>3. At(caller, "over")
    BY <1>1, <2>1, <2>2 DEF Dying
  <2>4. \A e \in Episodes : ~Live(e)
    BY <2>1, <2>2, <2>3 DEF Alone, Live
  <2>5. Alone' /\ Known' /\ Wanted' /\ Dying'
    BY <1>1, <2>1, <2>4 DEF Alone, Known, Wanted, Dying, Live, At
  <2> QED BY <2>5
<1> QED BY <1>2, <1>3, <1>4 DEF PInv

----------------------------------------------------------------------------
\* What the player does by itself keeps the invariant, in any composition.
LEMMA RunsKeep ==
  ASSUME PInv,
         \/ StopReturns
         \/ \E e \in Episodes : Moves(e) \/ FirstTag(e) \/ SegmentEnds(e)
  PROVE  PInv'
<1>1. CASE StopReturns
  BY <1>1, StopReturnsKeeps
<1>2. ASSUME NEW e \in Episodes, Moves(e) \/ FirstTag(e) \/ SegmentEnds(e) PROVE PInv'
  BY <1>2, MovesKeep, FirstTagKeeps, SegmentEndsKeeps
<1> QED BY <1>1, <1>2

LEMMA StoppedInside == PInv => StoppedUnlessMissed
BY DEF PInv, Sound, Alone, Wanted, Live, StoppedUnlessMissed

\* The handlers and the goroutines of a return only use the calls of the player.
LEMMA ReturnKeepsPlayer == PInv /\ [ResumeNext]_allVars => PInv'
<1> SUFFICES ASSUME PInv, [ResumeNext]_allVars PROVE PInv'
  OBVIOUS
<1>1. CASE PlayerMoves
  BY <1>1, RunsKeep DEF PlayerMoves
<1>2. CASE Owner
  <2>1. CASE GoLive \/ TornDown
    BY <2>1, PlayerUnchanged DEF GoLive, TornDown, Player_
  <2>2. CASE OnSwitched
    BY <2>2, StopKeeps, PlayerUnchanged DEF OnSwitched, Player_
  <2> QED BY <1>2, <2>1, <2>2 DEF Owner
<1>3. CASE Source
  <2>1. CASE SourceAvailable
    <3>1. Stop \/ UNCHANGED vars
      BY <2>1 DEF SourceAvailable, Begin, Player_
    <3> QED BY <3>1, StopKeeps, PlayerUnchanged
  <2>2. CASE SourceUnavailable \/ RelayStalled
    <3>1. caller = None /\ (Start \/ Restart \/ UNCHANGED vars)
      BY <2>2 DEF SourceUnavailable, RelayStalled, EnterFallback, Player_, Idle
    <3> QED BY <3>1, StartKeeps, RestartKeeps, PlayerUnchanged
  <2>3. CASE RelayResumed
    BY <2>3, PlayerUnchanged DEF RelayResumed, Player_
  <2>4. CASE Teardown
    BY <2>4, StopKeeps DEF Teardown
  <2> QED BY <1>3, <2>1, <2>2, <2>3, <2>4 DEF Source
<1>4. CASE Cut
  BY <1>4, PlayerUnchanged DEF Cut, Player_
<1>5. ASSUME NEW g \in Asks, Returning(g) PROVE PInv'
  <2>1. PlayEnd(g) \/ UNCHANGED vars
    BY <1>5 DEF Returning, WaitOver, OutroSeen, Arm, FinishAfterEnd, Player_
  <2> QED BY <2>1, PlayEndKeeps, PlayerUnchanged
<1>6. CASE UNCHANGED allVars
  BY <1>6, PlayerUnchanged DEF allVars
<1> QED BY <1>1, <1>2, <1>3, <1>4, <1>5, <1>6 DEF ResumeNext

LEMMA PlayerInReturn == ResumeSpec => []PInv
<1>1. ResumeInit => PInv
  BY PlayerInitially DEF ResumeInit
<1> QED BY <1>1, ReturnKeepsPlayer, PTL DEF ResumeSpec

\* The fields of the player, the goroutines of its episodes and the process it knows
\* keep their types, whatever the machine and the returns ask of it (fallback/player.go).
THEOREM PlayerTypes == ResumeSpec => []TypeOK
BY PlayerInReturn, PlayerTyped, PTL

\* When Stop has returned nothing plays any more, unless it came while a segment was
\* about to be registered: for any number of episodes, and whenever the machine and the
\* returns call (Start, Stop, Restart, PlayEnd, playSegment).
THEOREM PlaysOnlyWhenWanted == ResumeSpec => []StoppedUnlessMissed
BY PlayerInReturn, StoppedInside, PTL

----------------------------------------------------------------------------
\* A cut is requested in FALLBACK only for a return that is under way or after a stall,
\* but for a platform that is being torn down.
Withdrawn == state = "FALLBACK" /\ after = "none" /\ pending /\ ~resuming => stallAsked

LEMMA WithdrawnInductive == Withdrawn /\ [ResumeNext]_allVars => Withdrawn'
<1> SUFFICES ASSUME Withdrawn, [ResumeNext]_allVars PROVE Withdrawn'
  OBVIOUS
<1>1. CASE PlayerMoves
  BY <1>1 DEF PlayerMoves, Withdrawn, Resume_, machine, switcher
<1>2. CASE Owner
  BY <1>2 DEF Owner, GoLive, TornDown, OnSwitched, SetActive, Withdrawn, Resume_, switcher
<1>3. CASE SourceAvailable
  <2>1. CASE state = "FALLBACK"
    BY <1>3, <2>1 DEF SourceAvailable, Begin, Withdrawn
  <2>2. CASE state # "FALLBACK"
    BY <1>3, <2>2 DEF SourceAvailable, Begin, Withdrawn
  <2> QED BY <2>1, <2>2
<1>4. CASE SourceUnavailable \/ RelayStalled
  BY <1>4 DEF SourceUnavailable, RelayStalled, EnterFallback, SetActive, Withdrawn, Resume_, switcher
<1>5. CASE RelayResumed
  BY <1>5 DEF RelayResumed, Withdrawn, Resume_, switcher
<1>6. CASE Teardown
  BY <1>6 DEF Teardown, Withdrawn
<1>7. CASE Cut
  BY <1>7 DEF Cut, Withdrawn
<1>8. ASSUME NEW g \in Asks, Returning(g) PROVE Withdrawn'
  <2>1. UNCHANGED <<resuming, state, after>>
    BY <1>8 DEF Returning, WaitOver, OutroSeen, Arm, FinishAfterEnd, Resume_, machine
  <2>2. UNCHANGED <<pending, stallAsked>> \/ (resuming /\ state = "FALLBACK")
    BY <1>8 DEF Returning, WaitOver, OutroSeen, Arm, FinishAfterEnd, Valid, switcher
  <2> QED BY <2>1, <2>2 DEF Withdrawn
<1>9. CASE UNCHANGED allVars
  BY <1>9 DEF allVars, machine, switcher, Withdrawn
<1> QED BY <1>1, <1>2, <1>3, <1>4, <1>5, <1>6, <1>7, <1>8, <1>9 DEF ResumeNext, Source

\* A return that is cancelled asks for nothing any more, whatever its two goroutines
\* were doing (Cancel, validLocked, finishAfterEnd).
THEOREM CancelledReturnsAskNothing == ResumeSpec => []RequestsWithdrawn
<1>1. ResumeInit => Withdrawn
  BY DEF ResumeInit, Withdrawn
<1>2. Withdrawn => RequestsWithdrawn
  BY DEF Withdrawn, RequestsWithdrawn, Idle
<1> QED BY <1>1, <1>2, WithdrawnInductive, PTL DEF ResumeSpec

=============================================================================
