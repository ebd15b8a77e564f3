------------------------------- MODULE Resume -------------------------------
(***************************************************************************)
(* The smooth return from the backup video (fallback/resume.go) with the   *)
(* player it asks for the outro, the handlers of the machine that begin    *)
(* and cancel it (platform/machine.go) and the cut of the switcher.        *)
(*                                                                         *)
(* A return is known by its generation, which is also the number of its    *)
(* request to the player. Its goroutine waits for a keyframe and for the   *)
(* phase of the group of pictures, asks for the outro, waits for the first *)
(* tag of it and arms the cut; how long it waits is left open, what it     *)
(* looks at after each wait is not. A second goroutine, started by the     *)
(* callback of the player, asks for the cut when the outro is over.        *)
(***************************************************************************)
EXTENDS Player

CONSTANT EndReady   \* does every return find an End segment prepared?

VARIABLES
  resuming, gen,   \* fields of Resume
  returns,         \* the goroutine of each return
  finished,        \* the returns whose second goroutine has run
  state,           \* Machine.state
  after,           \* what the owner does when Stop has returned
  source, flows,   \* is the source published, and does its relay deliver?
  active, pending, \* Switcher: the source on air, a requested cut to the relay
  reported,        \* has a cut been posted that the machine has not handled?
  stallAsked,      \* history: was the pending cut asked for after a mere stall?
  begun            \* history: has a return begun in this FALLBACK?

machine == <<state, after, source, flows>>
switcher == <<active, pending, reported, stallAsked>>
allVars == <<vars, resuming, gen, returns, finished, machine, switcher, begun>>

ResumeTypeOK ==
  /\ {resuming, source, flows, pending, reported, stallAsked, begun} \subseteq BOOLEAN
  /\ gen \in 0..MaxAsks /\ finished \subseteq answered
  /\ returns \in [Asks -> {"none", "waiting", "starting", "arming", "over"}]
  /\ state \in {"OFFLINE", "LIVE", "FALLBACK"} /\ after \in {"none", "offline", "live"}
  /\ active \in {"none", "relay", "backup"}
  /\ \A g \in Asks : returns[g] # "none" => g <= gen
  /\ \A g \in asked : returns[g] \notin {"none", "waiting"}

ResumeInit ==
  /\ Init
  /\ resuming = FALSE /\ gen = 0 /\ finished = {} /\ returns = [g \in Asks |-> "none"]
  /\ state = "OFFLINE" /\ after = "none" /\ source = FALSE /\ flows = FALSE
  /\ active = "none" /\ pending = FALSE /\ reported = FALSE /\ stallAsked = FALSE
  /\ begun = FALSE

\* validLocked
Valid(g) == resuming /\ gen = g /\ state = "FALLBACK"
Reach(g, place) == returns' = [returns EXCEPT ![g] = place]

SetActive(s) == active' = s /\ pending' = FALSE /\ stallAsked' = FALSE
RequestSwitch == pending' = TRUE /\ UNCHANGED <<active, reported, stallAsked>>

Player_ == UNCHANGED vars
Resume_ == UNCHANGED <<resuming, gen, returns, finished>>
History == UNCHANGED begun

----------------------------------------------------------------------------
(* The goroutine of a return.                                              *)

\* Plausible defect: a refused request for the outro ends the return.
WaitOverOrRefused(g) ==
  /\ returns[g] = "waiting"
  /\ \/ ~(Valid(g) /\ PlayEndTaken) /\ Reach(g, "over") /\ Player_
     \/ Valid(g) /\ PlayEndTaken /\ PlayEnd(g) /\ Reach(g, "starting")
  /\ UNCHANGED <<resuming, gen, finished>> /\ UNCHANGED switcher /\ UNCHANGED machine /\ History

\* However long it has waited, it goes on only if its return is still under way.
WaitOver(g) ==
  /\ returns[g] = "waiting"
  /\ \/ ~Valid(g) /\ Reach(g, "over") /\ Player_ /\ UNCHANGED switcher
     \/ /\ Valid(g) /\ PlayEndTaken
        /\ PlayEnd(g) /\ Reach(g, "starting") /\ UNCHANGED switcher
     \/ /\ Valid(g) /\ ~PlayEndTaken
        /\ RequestSwitch /\ Reach(g, "over") /\ Player_
  /\ UNCHANGED <<resuming, gen, finished>> /\ UNCHANGED machine /\ History

\* The outro is heard, or it is not in time, its length is not known or the return is off.
OutroSeen(g) ==
  /\ returns[g] = "starting"
  /\ \/ Valid(g) /\ phase = "end" /\ segStarted /\ Reach(g, "arming")
     \/ Reach(g, "over")
  /\ UNCHANGED <<resuming, gen, finished>> /\ Player_ /\ UNCHANGED machine /\ UNCHANGED switcher
  /\ History

Arm(g) ==
  /\ returns[g] = "arming"
  /\ Reach(g, "over")
  /\ IF Valid(g) THEN RequestSwitch ELSE UNCHANGED switcher
  /\ UNCHANGED <<resuming, gen, finished>> /\ Player_ /\ UNCHANGED machine /\ History

\* Plausible defect: the end of an outro asks for the cut whatever happened meanwhile.
FinishUnguarded(g) ==
  /\ g \in answered \ finished
  /\ finished' = finished \cup {g}
  /\ RequestSwitch
  /\ UNCHANGED <<resuming, gen, returns>> /\ Player_ /\ UNCHANGED machine /\ History

\* finishAfterEnd: it does not look whose callback it is.
FinishAfterEnd(g) ==
  /\ g \in answered \ finished
  /\ finished' = finished \cup {g}
  /\ IF resuming /\ state = "FALLBACK" THEN RequestSwitch ELSE UNCHANGED switcher
  /\ UNCHANGED <<resuming, gen, returns>> /\ Player_ /\ UNCHANGED machine /\ History

----------------------------------------------------------------------------
(* The handlers of the machine. A handler that stops the player goes on    *)
(* when Stop has returned.                                                 *)

Idle == caller = None /\ after = "none"

\* Plausible defect: a return that reuses the generation of the last one.
BeginSameGeneration ==
  /\ gen < MaxAsks
  /\ resuming' = TRUE /\ begun' = TRUE
  /\ \/ returns' = [returns EXCEPT ![gen + 1] = "waiting"] /\ UNCHANGED switcher
     \/ ~EndReady /\ RequestSwitch /\ UNCHANGED returns
  /\ UNCHANGED <<gen, finished>> /\ Player_

\* Begin: a new generation, with the outro if it is there.
Begin ==
  /\ gen < MaxAsks
  /\ resuming' = TRUE /\ gen' = gen + 1 /\ begun' = TRUE
  /\ \/ returns' = [returns EXCEPT ![gen + 1] = "waiting"] /\ UNCHANGED switcher
     \/ ~EndReady /\ RequestSwitch /\ UNCHANGED returns
  /\ UNCHANGED finished /\ Player_

\* onSourceAvailable
SourceAvailable ==
  /\ Idle /\ ~source
  /\ source' = TRUE /\ flows' = TRUE
  /\ \/ state = "FALLBACK" /\ Begin /\ UNCHANGED <<state, after>>
     \/ /\ state # "FALLBACK" /\ after' = "live"
        /\ Stop /\ UNCHANGED state /\ Resume_ /\ UNCHANGED switcher /\ History

\* The first half of going live has stopped the player.
GoLive ==
  /\ after = "live" /\ caller = None
  /\ SetActive("relay") /\ state' = "LIVE" /\ after' = "none"
  /\ UNCHANGED <<source, flows, reported>> /\ Player_ /\ Resume_ /\ History

EnterFallback ==
  /\ state = "LIVE" /\ state' = "FALLBACK"
  /\ SetActive("backup") /\ UNCHANGED reported
  /\ Start
  /\ begun' = FALSE
  /\ Resume_

\* Plausible defect: a second drop leaves the return under way.
DropKeepsResuming ==
  /\ Idle /\ source
  /\ source' = FALSE /\ flows' = FALSE
  /\ \/ EnterFallback
     \/ /\ state = "FALLBACK" /\ resuming
        /\ SetActive("backup") /\ Restart
        /\ Resume_ /\ UNCHANGED <<state, reported>> /\ History
     \/ /\ state = "FALLBACK" /\ ~resuming
        /\ Player_ /\ Resume_ /\ UNCHANGED state /\ UNCHANGED switcher /\ History
     \/ /\ state = "OFFLINE"
        /\ Player_ /\ Resume_ /\ UNCHANGED state /\ UNCHANGED switcher /\ History
  /\ UNCHANGED after

\* onSourceUnavailable
SourceUnavailable ==
  /\ Idle /\ source
  /\ source' = FALSE /\ flows' = FALSE
  /\ \/ EnterFallback
     \/ /\ state = "FALLBACK" /\ resuming
        /\ resuming' = FALSE /\ SetActive("backup") /\ Restart
        /\ UNCHANGED <<gen, returns, finished, state, reported>> /\ History
     \/ /\ state = "FALLBACK" /\ ~resuming
        /\ Player_ /\ Resume_ /\ UNCHANGED state /\ UNCHANGED switcher /\ History
     \/ /\ state = "OFFLINE"
        /\ Player_ /\ Resume_ /\ UNCHANGED state /\ UNCHANGED switcher /\ History
  /\ UNCHANGED after

\* onRelayStalled
RelayStalled ==
  /\ Idle /\ source /\ flows
  /\ flows' = FALSE
  /\ \/ EnterFallback
     \/ state # "LIVE" /\ Player_ /\ Resume_ /\ UNCHANGED state /\ UNCHANGED switcher /\ History
  /\ UNCHANGED <<source, after>>

\* onRelayResumed asks for the cut without an outro.
RelayResumed ==
  /\ Idle /\ source /\ ~flows
  /\ flows' = TRUE
  /\ IF state = "FALLBACK" THEN pending' = TRUE /\ stallAsked' = TRUE /\ UNCHANGED <<active, reported>>
                           ELSE UNCHANGED switcher
  /\ Player_ /\ Resume_ /\ UNCHANGED <<state, after, source>> /\ History

\* A keyframe of the relay: the switcher cuts and posts.
Cut ==
  /\ source /\ flows /\ pending
  /\ active' = "relay" /\ pending' = FALSE /\ stallAsked' = FALSE /\ reported' = TRUE
  /\ Player_ /\ Resume_ /\ UNCHANGED machine /\ History

\* onSwitchedToRelay
OnSwitched ==
  /\ Idle /\ reported /\ reported' = FALSE
  /\ \/ /\ state = "FALLBACK" /\ state' = "LIVE" /\ resuming' = FALSE /\ Stop
        /\ UNCHANGED <<gen, returns, finished>>
     \/ state # "FALLBACK" /\ UNCHANGED state /\ Player_ /\ Resume_
  /\ UNCHANGED <<active, pending, stallAsked, after, source, flows>> /\ History

\* teardownClean, in two halves: nobody cancels the return.
Teardown ==
  /\ Idle /\ state # "OFFLINE"
  /\ source' = FALSE /\ flows' = FALSE /\ after' = "offline"
  /\ Stop
  /\ UNCHANGED state /\ Resume_ /\ UNCHANGED switcher /\ History

TornDown ==
  /\ after = "offline" /\ caller = None
  /\ SetActive("none") /\ state' = "OFFLINE" /\ after' = "none"
  /\ UNCHANGED <<source, flows, reported>> /\ Player_ /\ Resume_ /\ History

----------------------------------------------------------------------------
\* The player goes on by itself.
PlayerMoves ==
  /\ \/ StopReturns
     \/ \E e \in Episodes : Moves(e) \/ FirstTag(e) \/ SegmentEnds(e)
  /\ Resume_ /\ UNCHANGED machine /\ UNCHANGED switcher /\ History

Returning(g) == WaitOver(g) \/ OutroSeen(g) \/ Arm(g) \/ FinishAfterEnd(g)
Owner == GoLive \/ TornDown \/ OnSwitched
Source == SourceAvailable \/ SourceUnavailable \/ RelayStalled \/ RelayResumed \/ Teardown

ResumeNext ==
  /\ Followed
  /\ PlayerMoves \/ Owner \/ Source \/ Cut \/ \E g \in Asks : Returning(g)
ResumeSpec == ResumeInit /\ [][ResumeNext]_allVars

\* The goroutines run, the player with them, and a relay that delivers has keyframes.
ResumeFairSpec ==
  /\ ResumeSpec
  /\ \A g \in Asks : WF_allVars(Returning(g))
  /\ WF_allVars(Owner) /\ WF_allVars(Cut) /\ WF_allVars(StopReturns /\ PlayerMoves)
  /\ \A e \in Episodes : WF_allVars(Moves(e) /\ PlayerMoves) /\ WF_allVars(SegmentMustEnd(e) /\ PlayerMoves)

----------------------------------------------------------------------------
(* Properties.                                                             *)

\* A return that is cancelled asks for nothing any more: whatever its two goroutines
\* were doing, in FALLBACK without a return there is no cut requested but one for a
\* relay that had stalled (Cancel, validLocked, finishAfterEnd).
RequestsWithdrawn == state = "FALLBACK" /\ Idle /\ pending /\ ~resuming => stallAsked

\* A return that is under way ends: in a cut, or because the source goes again or
\* stalls, or the platform is torn down; unless the player was asked in a moment from
\* which it forgets (PlayEnd, OnBackupEnd, RequestSwitch).
Ends(g) == state # "FALLBACK" \/ ~flows \/ gen # g
ReturnEnds ==
  \A g \in Asks : (returns[g] # "none" /\ Valid(g) /\ flows) ~> (Ends(g) \/ g \in lost \/ missed)

\* Said of the program, and not so (see the README): a request for the end that was
\* taken is answered, so that every return has its cut.
ReturnAlwaysEnds ==
  \A g \in Asks : (returns[g] # "none" /\ Valid(g) /\ flows) ~> Ends(g)

\* Said of the program, and not so (see the README): the outro is played before the
\* cut; no cut comes while the return has not even asked for it.
OutroFirst ==
  [][active = "backup" /\ active' = "relay" => \A g \in Asks : ~(Valid(g) /\ returns[g] = "waiting")]_allVars

\* Said of the program, and not so (see the README): the sequence is played again
\* for a drop during a return only.
ResumingMeansReturn == state = "FALLBACK" /\ resuming => begun

============================================================================
