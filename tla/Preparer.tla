------------------------------ MODULE Preparer ------------------------------
(***************************************************************************)
(* The preparer of a platform (fallback/preparer.go) and the playlist of a *)
(* folder (fallback/playlist.go). Every publication of the source starts a *)
(* build in a goroutine of its own: it probes, computes a target, throws   *)
(* away what fits another target, and has its files prepared one by one by *)
(* the cache, which takes its time. What is ready is what the player may   *)
(* play. An artifact is a file and the target it was built for.            *)
(***************************************************************************)
EXTENDS Integers, Sequences, FiniteSets, SequencesExt

CONSTANTS
  Singles,     \* roles with a file, in the order they are built, End for one
  Files,       \* files of the folder, in the order they are built; none for a sequence
  Targets,     \* targets a probe may lead to
  MaxBuilds,   \* bound: builds
  MaxGoing,    \* bound: builds at work at once
  MaxPlays     \* bound: items played in one cycle

ASSUME SequencesAssumption == Singles \in Seq(STRING) /\ Files \in Seq(STRING)
ASSUME PreparerBoundsAssumption == {MaxBuilds, MaxGoing, MaxPlays} \subseteq Nat

Builds == 1..MaxBuilds
NoTarget == "notarget"
ASSUME NoTargetAssumption == NoTarget \notin Targets

\* The order of buildAll: the first file of the folder is needed first, then the single
\* roles, then the rest; without a folder the single roles begin with the loop.
Order == IF Files = <<>> THEN Singles ELSE <<Head(Files)>> \o Singles \o Tail(Files)
ASSUME DistinctAssumption == IsInjective(Order)
FromFolder(src) == \E i \in 1..Len(Files) : Files[i] = src
Sources == {Order[i] : i \in 1..Len(Order)}
Artifacts == [src : Sources, target : Targets]

VARIABLES
  builtTarget, artifacts, folderReady, done, failed,  \* fields of Preparer
  builds,     \* the goroutine of each build
  bag, known, \* fields of ShuffleBag
  cycle,      \* history: what was played since the pool was last refilled
  overlapped, \* history: has a build begun while another went on?
  rebuilt     \* history: has a build of a target begun that was built before?

preparerVars == <<builtTarget, artifacts, folderReady, done, failed, builds, bag, known, cycle,
          overlapped, rebuilt>>

NewBuild == [at |-> "none", target |-> NoTarget, next |-> 1]

PreparerTypeOK ==
  /\ builtTarget \in Targets \cup {NoTarget}
  /\ artifacts \in [Sources -> Targets \cup {NoTarget}]
  /\ \A i \in 1..Len(folderReady) : folderReady[i] \in Artifacts
  /\ \A i \in 1..Len(bag) : bag[i] \in Artifacts
  /\ \A i \in 1..Len(cycle) : cycle[i] \in Artifacts
  /\ done \cup failed \subseteq Sources /\ known \subseteq Artifacts
  /\ builds \in [Builds -> [at : {"none", "plan", "next", "normal", "built", "over"},
                            target : Targets \cup {NoTarget}, next : 1..Len(Order) + 1]]
  /\ {overlapped, rebuilt} \subseteq BOOLEAN
  /\ \A s \in Sources : artifacts[s] # NoTarget => ~FromFolder(s) /\ builtTarget # NoTarget

PreparerInit ==
  /\ builtTarget = NoTarget /\ artifacts = [s \in Sources |-> NoTarget] /\ folderReady = <<>>
  /\ done = {} /\ failed = {}
  /\ builds = [b \in Builds |-> NewBuild]
  /\ bag = <<>> /\ known = {} /\ cycle = <<>> /\ overlapped = FALSE /\ rebuilt = FALSE

BuildAt(b, place) == builds[b].at = place
Going(b) == builds[b].at \notin {"none", "over"}
preparerFields == <<builtTarget, artifacts, folderReady, done, failed>>
playlist == <<bag, known, cycle>>

----------------------------------------------------------------------------
(* A build.                                                                *)

\* PrepareAsync, PrepareFromParams: the probe or the ladder may come to nothing, then
\* there is no build; otherwise the target is whatever was measured.
StartBuild(b, t) ==
  /\ BuildAt(b, "none") /\ \A c \in 1..(b - 1) : ~BuildAt(c, "none")
  /\ Cardinality({c \in Builds : Going(c)}) < MaxGoing
  /\ builds' = [builds EXCEPT ![b].at = "plan", ![b].target = t]
  /\ overlapped' = (overlapped \/ \E c \in Builds : Going(c))
  /\ UNCHANGED preparerFields /\ UNCHANGED playlist /\ UNCHANGED rebuilt

\* Plausible defect: a new target keeps what was built for the old one.
PlanKeeps(b) ==
  /\ BuildAt(b, "plan")
  /\ builtTarget' = builds[b].target
  /\ rebuilt' = (rebuilt \/ builtTarget = builds[b].target)
  /\ builds' = [builds EXCEPT ![b].at = "next"]
  /\ UNCHANGED <<artifacts, folderReady, done, failed>> /\ UNCHANGED playlist /\ UNCHANGED overlapped

\* The head of buildAll, with discardArtifactsLocked.
Plan(b) ==
  /\ BuildAt(b, "plan")
  /\ builtTarget' = builds[b].target
  /\ IF builtTarget \notin {NoTarget, builds[b].target}
     THEN /\ artifacts' = [s \in Sources |-> NoTarget] /\ folderReady' = <<>>
          /\ done' = {} /\ failed' = {}
     ELSE UNCHANGED <<artifacts, folderReady, done, failed>>
  /\ rebuilt' = (rebuilt \/ builtTarget = builds[b].target)
  /\ builds' = [builds EXCEPT ![b].at = "next"]
  /\ UNCHANGED playlist /\ UNCHANGED overlapped

\* The next file goes to normalizeSegment, or all are through. A warming-up build is
\* aborted between two files.
NextFile(b) ==
  /\ BuildAt(b, "next")
  /\ \/ builds[b].next <= Len(Order) /\ builds' = [builds EXCEPT ![b].at = "normal"]
     \/ builds' = [builds EXCEPT ![b] = [NewBuild EXCEPT !.at = "over"]]
  /\ UNCHANGED preparerFields /\ UNCHANGED playlist /\ UNCHANGED <<overlapped, rebuilt>>

\* Plausible defect: a file that cannot be prepared is tried again.
TrackRetries(b) ==
  LET src == Order[builds[b].next]
  IN /\ BuildAt(b, "normal")
     /\ \/ /\ done' = done \cup {src} /\ UNCHANGED failed
           /\ builds' = [builds EXCEPT ![b].at = "built"]
        \/ /\ failed' = failed \cup {src} /\ UNCHANGED done
           /\ builds' = [builds EXCEPT ![b].at = "next"]
     /\ UNCHANGED <<builtTarget, artifacts, folderReady, overlapped, rebuilt>> /\ UNCHANGED playlist

\* normalizeSegment and track: the file is prepared, or not.
Track(b) ==
  LET src == Order[builds[b].next]
  IN /\ BuildAt(b, "normal")
     /\ \/ /\ done' = done \cup {src} /\ UNCHANGED failed
           /\ builds' = [builds EXCEPT ![b].at = "built"]
        \/ /\ failed' = failed \cup {src} /\ UNCHANGED done
           /\ builds' = [builds EXCEPT ![b].at = "next", ![b].next = @ + 1]
     /\ UNCHANGED <<builtTarget, artifacts, folderReady, overlapped, rebuilt>> /\ UNCHANGED playlist

\* Plausible defect: the file after one that was stored is passed over.
StoreSkips(b) ==
  LET src == Order[builds[b].next]
  IN /\ BuildAt(b, "built")
     /\ IF FromFolder(src)
        THEN /\ folderReady' = Append(folderReady, [src |-> src, target |-> builds[b].target])
             /\ UNCHANGED artifacts
        ELSE artifacts' = [artifacts EXCEPT ![src] = builds[b].target] /\ UNCHANGED folderReady
     /\ builds' = [builds EXCEPT ![b].at = "next", ![b].next = @ + 2]
     /\ UNCHANGED <<builtTarget, done, failed, overlapped, rebuilt>> /\ UNCHANGED playlist

\* buildSegment, buildFolderFile: what was built is stored, for whichever target.
Store(b) ==
  LET src == Order[builds[b].next]
  IN /\ BuildAt(b, "built")
     /\ IF FromFolder(src)
        THEN /\ folderReady' = Append(folderReady, [src |-> src, target |-> builds[b].target])
             /\ UNCHANGED artifacts
        ELSE artifacts' = [artifacts EXCEPT ![src] = builds[b].target] /\ UNCHANGED folderReady
     /\ builds' = [builds EXCEPT ![b].at = "next", ![b].next = @ + 1]
     /\ UNCHANGED <<builtTarget, done, failed, overlapped, rebuilt>> /\ UNCHANGED playlist

----------------------------------------------------------------------------
(* The playlist, called by the player in a goroutine of its own.           *)

\* What is ready and new to the bag, each once.
Arrivals == ToSet(folderReady) \ known

\* What a sequence may become when its items are mixed, the first of them staying in order.
Shuffled(s, kept) ==
  {[i \in 1..Len(s) |-> s[f[i]]] :
     f \in {g \in Bijection(1..Len(s), 1..Len(s)) :
             \A i, j \in 1..Len(s) : i < j /\ g[i] <= kept /\ g[j] <= kept => g[i] < g[j]}}

\* The bag, into which every arrival is put anywhere.
Pool == bag \o SetToSeq(Arrivals)
Mixed == Shuffled(Pool, Len(bag))
Refilled == Shuffled(folderReady, 0)

\* Plausible defect: a file that was played is put back into the rest of the bag.
PlayForgets ==
  /\ Len(cycle) < MaxPlays
  /\ folderReady # <<>>
  /\ \E full \in (IF Pool # <<>> THEN Mixed ELSE Refilled) :
       /\ bag' = Front(full)
       /\ known' = (known \cup ToSet(folderReady)) \ {Last(full)}
       /\ cycle' = Append(IF Pool # <<>> THEN cycle ELSE <<>>, Last(full))
  /\ UNCHANGED preparerFields /\ UNCHANGED <<builds, overlapped, rebuilt>>

\* Plausible defect: what is known is kept when the bag is filled again.
PlayKeepsKnown ==
  /\ Pool # <<>> \/ folderReady # <<>>
  /\ \E full \in (IF Pool # <<>> THEN Mixed ELSE Refilled) :
       /\ bag' = Front(full)
       /\ known' = known \cup ToSet(folderReady)
       /\ cycle' = Append(IF Pool # <<>> THEN cycle ELSE <<>>, Last(full))
  /\ UNCHANGED preparerFields /\ UNCHANGED <<builds, overlapped, rebuilt>>

\* ShuffleBag.Next: new files are mixed in; an empty bag is filled with all that is ready
\* in any order, which begins a cycle; the last item is played.
Play ==
  /\ Len(cycle) < MaxPlays
  /\ Pool # <<>> \/ folderReady # <<>>
  /\ \E full \in (IF Pool # <<>> THEN Mixed ELSE Refilled) :
       /\ bag' = Front(full)
       /\ known' = (IF Pool # <<>> THEN known ELSE {}) \cup ToSet(folderReady)
       /\ cycle' = Append(IF Pool # <<>> THEN cycle ELSE <<>>, Last(full))
  /\ UNCHANGED preparerFields /\ UNCHANGED <<builds, overlapped, rebuilt>>

\* ShuffleBag.Next with an empty bag and nothing ready, after a discard: the player waits,
\* and what the bag knew is gone.
PlayNothing ==
  /\ Pool = <<>> /\ folderReady = <<>>
  /\ bag' = <<>> /\ known' = {} /\ cycle' = <<>>
  /\ UNCHANGED preparerFields /\ UNCHANGED <<builds, overlapped, rebuilt>>

----------------------------------------------------------------------------
(* The system.                                                             *)

PreparerNext ==
  \/ \E b \in Builds, t \in Targets : StartBuild(b, t)
  \/ \E b \in Builds : Plan(b) \/ NextFile(b) \/ Track(b) \/ Store(b)
  \/ Play \/ PlayNothing

\* The goroutine of a build runs on, every transcode ends.
PreparerSpec == PreparerInit /\ [][PreparerNext]_preparerVars
        /\ \A b \in Builds : WF_preparerVars(Plan(b) \/ NextFile(b) \/ Track(b) \/ Store(b))

----------------------------------------------------------------------------
(* Properties.                                                             *)

Stored == ToSet(folderReady)
          \cup {[src |-> s, target |-> artifacts[s]] : s \in {r \in Sources : artifacts[r] # NoTarget}}

\* What the player may be given fits the target of the latest build, whatever stream it
\* was built for (comment of discardArtifactsLocked). An earlier build that is still at
\* work stores what it builds for its own target next to it.
ArtifactsFitTarget == \A a \in Stored : a.target = builtTarget

\* As long as no build began before the one in front of it was over, it holds.
FitUnlessOverlapped == overlapped \/ ArtifactsFitTarget

\* What is played fits the target of the latest build: the bag may hold files of the
\* target before, though nothing is given out that does not fit any more.
PlayedFits == \A i \in 1..Len(bag) : bag[i].target = builtTarget

\* In one cycle every file is played once (comment of ShuffleBag). Each publication of the
\* source builds the folder again, also for the target it was built for.
EachOnce == IsInjective(cycle)
EachOnceUnlessRebuilt == overlapped \/ rebuilt \/ EachOnce

\* What is ready is new to the bag, waits in it, or was played since the bag was last
\* filled: a file the bag knows from an earlier cycle or target is not passed over.
NothingForgotten ==
  ToSet(folderReady) \cap known \subseteq ToSet(bag) \cup ToSet(cycle)

\* One cycle of the playlist is fair: nothing twice, nothing passed over.
FairCycle == EachOnceUnlessRebuilt /\ NothingForgotten

\* A build ends.
BuildsEnd == \A b \in Builds : []<>~Going(b)

============================================================================
