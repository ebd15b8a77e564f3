------------------------------- MODULE Player -------------------------------
(***************************************************************************)
(* The player of the backup video (fallback/player.go): one goroutine per  *)
(* episode plays Start, then the loop, and, when it is asked to, End; each *)
(* segment is a process whose output it reads. The owner goroutine of the  *)
(* platform starts, stops and restarts it; the goroutine of a return asks  *)
(* for the end and leaves a callback. A step is what the code does under   *)
(* the lock; between two of them anybody may come in, in particular while  *)
(* a process is started that the player does not know yet ("spawn").       *)
(***************************************************************************)
EXTENDS Integers, FiniteSets

CONSTANTS
  MaxEndRepeats,   \* maxEndRepeats, 3 in the code
  LogMayFail,      \* may the log file of an episode be impossible to open?
  AfterMiss,       \* is it followed what happens after a call has missed a segment?
  MaxStarts,       \* bound: episodes
  MaxAsks          \* bound: requests for the end

ASSUME MaxEndRepeatsAssumption == MaxEndRepeats \in Nat
ASSUME LogMayFailAssumption == LogMayFail \in BOOLEAN
ASSUME AfterMissAssumption == AfterMiss \in BOOLEAN
ASSUME BoundsAssumption == MaxStarts \in Nat /\ MaxAsks \in Nat

Episodes == 1..MaxStarts
Asks == 1..MaxAsks
None == 0

VARIABLES
  desired, resume, restart, onDone, phase, interrupted, segStarted,  \* fields of Player
  proc,      \* the episode whose segment p.proc is
  latest,    \* the episode p.done belongs to
  runs,      \* the goroutine of each episode
  caller,    \* the owner inside Stop: the episode it waits for
  answered,  \* the callbacks that have been called
  missed,    \* history: has a segment been told to end before it was registered?
  asked,     \* history: the requests for the end that were taken
  lost       \* history: those taken while the player was to forget them

fields == <<desired, resume, restart, onDone, phase, interrupted, segStarted>>
vars == <<fields, proc, latest, runs, caller, answered, missed, asked, lost>>

Places == {"none", "begin", "top", "spawn", "read", "afterStart", "toLoop", "body", "bodyOver",
           "toEnd", "fire", "repeat", "leave", "leaveFire", "over"}

\* role, looped, killed: the segment; second: the loop after the outro; outros: left to repeat.
NewRun == [at |-> "none", role |-> "start", looped |-> FALSE, killed |-> FALSE,
           second |-> FALSE, outros |-> 0]

TypeOK ==
  /\ {desired, resume, restart, interrupted, segStarted, missed} \subseteq BOOLEAN
  /\ phase \in {"", "start", "loop", "end"}
  /\ onDone \in Asks \cup {None} /\ answered \subseteq asked /\ lost \subseteq asked /\ asked \subseteq Asks
  /\ {proc, latest, caller} \subseteq Episodes \cup {None}
  /\ runs \in [Episodes -> [at : Places, role : {"start", "loop", "end"}, looped : BOOLEAN,
                            killed : BOOLEAN, second : BOOLEAN, outros : 0..MaxEndRepeats]]
  /\ proc # None => runs[proc].at = "read"

Init ==
  /\ desired = FALSE /\ resume = FALSE /\ restart = FALSE /\ onDone = None /\ phase = ""
  /\ interrupted = FALSE /\ segStarted = FALSE
  /\ proc = None /\ latest = None /\ caller = None
  /\ runs = [e \in Episodes |-> NewRun]
  /\ answered = {} /\ missed = FALSE /\ asked = {} /\ lost = {}

At(e, place) == runs[e].at = place
Move(e, place) == runs' = [runs EXCEPT ![e].at = place]
Finish(e) == runs' = [runs EXCEPT ![e] = [NewRun EXCEPT !.at = "over"]]
OnlyMoves == UNCHANGED <<fields, proc, latest, caller, answered, missed, asked, lost>>

----------------------------------------------------------------------------
(* The goroutine of an episode.                                            *)

OpenLog(e) ==
  /\ At(e, "begin")
  /\ \/ Move(e, "top")
     \/ LogMayFail /\ Finish(e)
  /\ OnlyMoves

\* A new round forgets what was asked before it. Start is played if it is there.
Top(e) ==
  /\ At(e, "top")
  /\ \/ ~desired /\ Finish(e) /\ UNCHANGED <<resume, restart, phase>>
     \/ /\ desired
        /\ resume' = FALSE /\ restart' = FALSE /\ phase' = "start"
        /\ \E place \in {"spawn", "afterStart"} :
             runs' = [runs EXCEPT ![e] = [NewRun EXCEPT !.at = place]]
  /\ UNCHANGED <<desired, onDone, interrupted, segStarted>>
  /\ UNCHANGED <<proc, latest, caller, answered, missed, asked, lost>>

\* Where playSegment returns to.
AfterSegment(e) ==
  runs' = [runs EXCEPT ![e].killed = FALSE, ![e].looped = FALSE,
             ![e].at = CASE runs[e].role = "start" -> "afterStart"
                         [] runs[e].role = "loop" -> "body"
                         [] runs[e].role = "end" -> "fire"]

\* The process has come up without the lock, and is registered now; or it has not.
Register(e) ==
  /\ At(e, "spawn")
  /\ \/ /\ proc' = e /\ interrupted' = FALSE /\ segStarted' = FALSE
        /\ runs' = [runs EXCEPT ![e].at = "read", ![e].killed = FALSE]
     \/ AfterSegment(e) /\ UNCHANGED <<proc, interrupted, segStarted>>
  /\ UNCHANGED <<desired, resume, restart, onDone, phase>>
  /\ UNCHANGED <<latest, caller, answered, missed, asked, lost>>

\* onTag: the first tag marks the start of the segment.
FirstTag(e) ==
  /\ At(e, "read") /\ ~interrupted /\ ~segStarted
  /\ segStarted' = TRUE
  /\ UNCHANGED <<desired, resume, restart, onDone, phase, interrupted>>
  /\ UNCHANGED <<proc, latest, runs, caller, answered, missed, asked, lost>>

\* Plausible defect: the segment that ended stays registered.
SegmentEndsStays(e) ==
  /\ At(e, "read")
  /\ AfterSegment(e)
  /\ UNCHANGED <<fields, proc, latest, caller, answered, missed, asked, lost>>

\* A process may end whenever it likes; it will if it was told to or has an end.
SegmentEnds(e) ==
  /\ At(e, "read")
  /\ AfterSegment(e)
  /\ proc' = IF proc = e THEN None ELSE proc
  /\ UNCHANGED <<fields, latest, caller, answered, missed, asked, lost>>

AfterStart(e) ==
  /\ At(e, "afterStart")
  /\ \/ ~desired /\ Finish(e)
     \/ desired /\ restart /\ Move(e, "top")
     \/ desired /\ ~restart /\ Move(e, IF resume THEN "toEnd" ELSE "toLoop")
  /\ OnlyMoves

ToLoop(e) ==
  /\ At(e, "toLoop")
  /\ phase' = "loop" /\ Move(e, "body")
  /\ UNCHANGED <<desired, resume, restart, onDone, interrupted, segStarted>>
  /\ UNCHANGED <<proc, latest, caller, answered, missed, asked, lost>>

\* Plausible defect: the body looks for a request for the end only.
BodyUnstoppable(e) ==
  /\ At(e, "body")
  /\ \/ resume /\ Move(e, "bodyOver")
     \/ /\ ~resume
        /\ \E looped \in BOOLEAN :
             runs' = [runs EXCEPT ![e].at = "spawn", ![e].role = "loop", ![e].looped = looped]
  /\ OnlyMoves

\* runLoopPhase: an item of the playlist, or the one file without end. Without
\* either the body waits and looks again, which changes nothing.
Body(e) ==
  /\ At(e, "body")
  /\ \/ (~desired \/ restart \/ resume) /\ Move(e, "bodyOver")
     \/ /\ desired /\ ~restart /\ ~resume
        /\ \E looped \in BOOLEAN :
             runs' = [runs EXCEPT ![e].at = "spawn", ![e].role = "loop", ![e].looped = looped]
  /\ OnlyMoves

BodyOver(e) ==
  /\ At(e, "bodyOver")
  /\ \/ ~desired /\ Finish(e)
     \/ desired /\ Move(e, IF restart \/ runs[e].second THEN "top" ELSE "toEnd")
  /\ OnlyMoves

\* Without an End segment the callback comes at once, and nothing is repeated.
ToEnd(e) ==
  /\ At(e, "toEnd")
  /\ phase' = "end" /\ segStarted' = FALSE
  /\ \/ runs' = [runs EXCEPT ![e].at = "spawn", ![e].role = "end", ![e].outros = MaxEndRepeats]
     \/ runs' = [runs EXCEPT ![e].at = "fire", ![e].outros = 0]
  /\ UNCHANGED <<desired, resume, restart, onDone, interrupted>>
  /\ UNCHANGED <<proc, latest, caller, answered, missed, asked, lost>>

\* The callback is taken under the lock and starts a goroutine.
FireDone ==
  /\ answered' = answered \cup ({onDone} \ {None})
  /\ onDone' = None

AfterEnd(e) ==
  /\ At(e, "fire")
  /\ FireDone
  /\ Move(e, IF runs[e].outros > 0 THEN "repeat" ELSE "leave")
  /\ UNCHANGED <<desired, resume, restart, phase, interrupted, segStarted>>
  /\ UNCHANGED <<proc, latest, caller, missed, asked, lost>>

\* As long as the cut has not come the outro is played again, a few times.
Repeat(e) ==
  /\ At(e, "repeat")
  /\ \/ (~desired \/ restart) /\ Move(e, "leave")
     \/ /\ desired /\ ~restart
        /\ runs' = [runs EXCEPT ![e].at = "spawn", ![e].outros = @ - 1]
  /\ OnlyMoves

\* leaveEndPhase, in two steps.
LeaveEndPhase(e) ==
  /\ At(e, "leave")
  /\ \/ ~desired /\ Finish(e) /\ UNCHANGED <<resume, phase>>
     \/ desired /\ phase' = "loop" /\ resume' = FALSE /\ Move(e, "leaveFire")
  /\ UNCHANGED <<desired, restart, onDone, interrupted, segStarted>>
  /\ UNCHANGED <<proc, latest, caller, answered, missed, asked, lost>>

\* Plausible defect: a request that comes after the last outro is not answered.
LateAnswerForgotten(e) ==
  /\ At(e, "leaveFire")
  /\ runs' = [runs EXCEPT ![e].at = "body", ![e].second = TRUE]
  /\ OnlyMoves

LateAnswer(e) ==
  /\ At(e, "leaveFire")
  /\ FireDone
  /\ runs' = [runs EXCEPT ![e].at = "body", ![e].second = TRUE]
  /\ UNCHANGED <<desired, resume, restart, phase, interrupted, segStarted>>
  /\ UNCHANGED <<proc, latest, caller, missed, asked, lost>>

----------------------------------------------------------------------------
(* The calls, each under the lock.                                         *)

\* Start of a player that is wanted already changes nothing.
Start ==
  IF desired THEN UNCHANGED vars
  ELSE /\ latest < MaxStarts
       /\ desired' = TRUE /\ resume' = FALSE /\ restart' = FALSE /\ onDone' = None
       /\ latest' = latest + 1
       /\ Move(latest + 1, "begin")
       /\ UNCHANGED <<phase, interrupted, segStarted, proc, caller, answered, missed, asked, lost>>

\* killLocked: only a registered process can be told to end; a run that has passed its
\* last check starts the next one all the same.
KillLocked ==
  /\ interrupted' = TRUE
  /\ runs' = IF proc = None THEN runs ELSE [runs EXCEPT ![proc].killed = TRUE]
  /\ missed' = (missed \/ \E e \in Episodes : At(e, "spawn") \/ At(e, "toEnd"))

Stop ==
  IF ~desired /\ proc = None THEN UNCHANGED vars
  ELSE /\ desired' = FALSE /\ resume' = FALSE /\ restart' = FALSE /\ onDone' = None
       /\ KillLocked
       /\ caller' = latest
       /\ UNCHANGED <<phase, segStarted, proc, latest, answered, asked, lost>>

\* Stop waits seven seconds: more than the end of a segment that was told to end
\* takes, less than one that was not.
StopReturns ==
  /\ caller # None
  /\ At(caller, "over") \/ (At(caller, "read") /\ ~runs[caller].killed)
  /\ caller' = None
  /\ UNCHANGED <<fields, proc, latest, runs, answered, missed, asked, lost>>

Restart ==
  IF ~desired THEN UNCHANGED vars
  ELSE /\ restart' = TRUE /\ resume' = FALSE /\ onDone' = None
       /\ KillLocked
       /\ UNCHANGED <<desired, phase, segStarted, proc, latest, caller, answered, asked, lost>>

\* Is the player in a place from which it forgets a request, whatever it answers?
Forgetful ==
  \/ restart
  \/ \E e \in Episodes : At(e, "begin") \/ At(e, "top") \/ runs[e].second

\* PlayEnd: Start is played to its end, the loop is broken off.
PlayEndTaken == desired /\ phase # ""
PlayEnd(r) ==
  IF ~PlayEndTaken THEN UNCHANGED vars
  ELSE /\ onDone' = r /\ asked' = asked \cup {r}
       /\ lost' = IF Forgetful THEN lost \cup {r} ELSE lost
       /\ resume' = (resume \/ phase \in {"start", "loop"})
       /\ IF phase = "loop" THEN KillLocked ELSE UNCHANGED <<interrupted, runs, missed>>
       /\ UNCHANGED <<desired, restart, phase, segStarted, proc, latest, caller, answered>>

----------------------------------------------------------------------------
RequestEnd == Cardinality(asked) < MaxAsks /\ PlayEnd(Cardinality(asked) + 1)

Moves(e) ==
  \/ OpenLog(e) \/ Top(e) \/ Register(e) \/ AfterStart(e) \/ ToLoop(e) \/ Body(e) \/ BodyOver(e)
  \/ ToEnd(e) \/ AfterEnd(e) \/ Repeat(e) \/ LeaveEndPhase(e) \/ LateAnswer(e)

\* The owner makes one call after the other; a request may come at any moment.
Followed == missed => AfterMiss

Next ==
  /\ Followed
  /\ \/ caller = None /\ (Start \/ Stop \/ Restart)
     \/ StopReturns
     \/ RequestEnd
     \/ \E e \in Episodes : Moves(e) \/ FirstTag(e) \/ SegmentEnds(e)

Spec == Init /\ [][Next]_vars

\* The goroutine of an episode runs, a process that has an end or was told to end
\* ends, and Stop does not wait longer than it has to.
SegmentMustEnd(e) == (runs[e].killed \/ ~runs[e].looped) /\ SegmentEnds(e)
FairPlay == \A e \in Episodes : WF_vars(Moves(e)) /\ WF_vars(SegmentMustEnd(e))
FairSpec == Spec /\ WF_vars(StopReturns) /\ FairPlay

----------------------------------------------------------------------------
(* Properties.                                                             *)

\* When Stop has returned nothing plays any more, unless it came while a segment was
\* about to be registered: the seven seconds it waits are never what it returns by otherwise.
StoppedUnlessMissed ==
  ~missed /\ caller = None => \A e \in Episodes :
    ~At(e, "none") /\ ~At(e, "over") => desired /\ e = latest

\* A request for the end that was taken is answered, or withdrawn by Stop or Restart,
\* whatever the player was doing; unless it came while the player was about to forget
\* requests, or a segment without end was being started (PlayEnd, leaveEndPhase).
AnsweredUnlessLost ==
  \A r \in Asks : onDone = r ~> (onDone # r \/ r \in lost \/ missed)

============================================================================
