--------------------------- MODULE BroadcastProofs ---------------------------
(***************************************************************************)
(* The end of a broadcast is its end, for every number of platforms, of    *)
(* calls from outside and of timers that fire too late.                    *)
(***************************************************************************)
EXTENDS Broadcast, TLAPS

SourceType == [avail : BOOLEAN, valid : BOOLEAN, gen : Nat]

\* A callback that gets the lock too late finds room among those that wait.
FiredBelow == timer = "fired" => stale < MaxStale

TInv == TypeOK /\ FiredBelow

----------------------------------------------------------------------------
(* What a queue says, and what of it a post or a command that is handled leaves. *)

Ends(q) == \E i \in 1..Len(q) : q[i] = "halt" /\ \A j \in i..Len(q) : q[j] # "available"
LastWord(q) ==
  \A i \in 1..Len(q) : q[i] = "available" => \E j \in i..Len(q) : q[j] = "unavailable"

LEMMA Appended ==
  ASSUME NEW q \in Seq(Cmds), NEW c \in Cmds
  PROVE  /\ Append(q, c) \in Seq(Cmds) /\ Len(Append(q, c)) = Len(q) + 1
         /\ Append(q, c)[Len(q) + 1] = c
         /\ \A i \in 1..Len(q) : Append(q, c)[i] = q[i]
OBVIOUS

LEMMA HaltEnds == ASSUME NEW q \in Seq(Cmds) PROVE Ends(Append(q, "halt"))
<1>1. "halt" \in Cmds
  BY DEF Cmds
<1>2. Len(q) \in Nat
  OBVIOUS
<1> QED BY <1>1, <1>2, Appended DEF Ends

LEMMA UnavailableIsLast == ASSUME NEW q \in Seq(Cmds) PROVE LastWord(Append(q, "unavailable"))
<1>1. "unavailable" \in Cmds
  BY DEF Cmds
<1>2. Len(q) \in Nat
  OBVIOUS
<1> QED BY <1>1, <1>2, Appended DEF LastWord

\* Whatever else is posted starts nobody.
LEMMA OtherPosted ==
  ASSUME NEW q \in Seq(Cmds), NEW c \in Cmds, c # "available"
  PROVE  /\ Ends(q) => Ends(Append(q, c))
         /\ ~Contains(q, "available") => ~Contains(Append(q, c), "available")
         /\ LastWord(q) => LastWord(Append(q, c))
<1>1. Len(q) \in Nat
  OBVIOUS
<1>2. Ends(q) => Ends(Append(q, c))
  BY <1>1, Appended DEF Ends
<1>3. ~Contains(q, "available") => ~Contains(Append(q, c), "available")
  BY <1>1, Appended DEF Contains
<1>4. LastWord(q) => LastWord(Append(q, c))
  BY <1>1, Appended DEF LastWord
<1> QED BY <1>2, <1>3, <1>4

LEMMA Handled ==
  ASSUME NEW q \in Seq(Cmds), q # <<>>
  PROVE  /\ Tail(q) \in Seq(Cmds) /\ Head(q) \in Cmds /\ Head(q) = q[1]
         /\ Len(q) \in Nat \ {0} /\ Len(Tail(q)) = Len(q) - 1
         /\ \A i \in 1..Len(Tail(q)) : Tail(q)[i] = q[i + 1]
OBVIOUS

\* A halt that is the last word is either the command handled or still to come.
LEMMA EndsHandled ==
  ASSUME NEW q \in Seq(Cmds), q # <<>>, Ends(q)
  PROVE  Ends(Tail(q)) \/ (Head(q) = "halt" /\ ~Contains(Tail(q), "available"))
<1>1. PICK i \in 1..Len(q) : q[i] = "halt" /\ \A j \in i..Len(q) : q[j] # "available"
  BY DEF Ends
<1>2. CASE i = 1
  BY <1>1, <1>2, Handled DEF Contains
<1>3. CASE i # 1
  <2>1. i - 1 \in 1..Len(Tail(q)) /\ Tail(q)[i - 1] = "halt"
    BY <1>1, <1>3, Handled
  <2>2. \A j \in (i - 1)..Len(Tail(q)) : Tail(q)[j] # "available"
    BY <1>1, <1>3, Handled
  <2> QED BY <2>1, <2>2 DEF Ends
<1> QED BY <1>2, <1>3

LEMMA QuietHandled ==
  ASSUME NEW q \in Seq(Cmds), q # <<>>, ~Contains(q, "available")
  PROVE  Head(q) # "available" /\ ~Contains(Tail(q), "available")
BY Handled DEF Contains

LEMMA LastWordHandled ==
  ASSUME NEW q \in Seq(Cmds), q # <<>>, LastWord(q) PROVE LastWord(Tail(q))
<1> SUFFICES ASSUME NEW i \in 1..Len(Tail(q)), Tail(q)[i] = "available"
             PROVE  \E j \in i..Len(Tail(q)) : Tail(q)[j] = "unavailable"
  BY DEF LastWord
<1>1. i + 1 \in 1..Len(q) /\ q[i + 1] = "available"
  BY Handled
<1>2. PICK j \in (i + 1)..Len(q) : q[j] = "unavailable"
  BY <1>1 DEF LastWord
<1>3. j - 1 \in i..Len(Tail(q)) /\ Tail(q)[j - 1] = "unavailable"
  BY <1>1, <1>2, Handled
<1> QED BY <1>3

----------------------------------------------------------------------------
(* Types, and the window against its timer. *)

LEMMA Posts ==
  ASSUME TypeOK, NEW c \in [Platforms -> Cmds \cup {"none"}], PostEach(c)
  PROVE  /\ queue' \in [Platforms -> Seq(Cmds)]
         /\ \A p \in Platforms :
              queue'[p] = IF c[p] = "none" THEN queue[p] ELSE Append(queue[p], c[p])
<1>1. \A p \in Platforms : c[p] # "none" => Append(queue[p], c[p]) \in Seq(Cmds)
  BY Appended DEF TypeOK
<1> QED BY <1>1 DEF PostEach, TypeOK

\* The timer is cancelled or armed anew.
LEMMA Timers ==
  ASSUME TInv, cancelSessionTimeout \/ scheduleSessionTimeout
  PROVE  stale' \in 0..MaxStale /\ timer' \in {"off", "armed"}
BY BoundsAssumption DEF TInv, TypeOK, FiredBelow, cancelSessionTimeout, scheduleSessionTimeout

LEMMA Initially == Init => TInv /\ WindowHasTimer
<1> SUFFICES ASSUME Init PROVE TInv /\ WindowHasTimer
  OBVIOUS
<1> USE BoundsAssumption
<1>1. /\ state \in [Platforms -> Platform!State] /\ call \in [Platforms -> Platform!Callback]
  BY DEF Init, Platform!Init, Platform!State, Platform!Callback
<1>2. /\ queue \in [Platforms -> Seq(Cmds)] /\ src \in [Sources -> SourceType] /\ stale \in 0..MaxStale
      /\ inputs \in 0..MaxInputs /\ probes \subseteq Probe
  BY DEF Init, SourceType
<1>3. TypeOK
  BY <1>1, <1>2 DEF Init, TypeOK, SourceType, Platform!State
<1> QED BY <1>3 DEF TInv, FiredBelow, WindowHasTimer, Init

LEMMA InputType == ASSUME TypeOK, Input PROVE inputs' \in 0..MaxInputs
BY BoundsAssumption DEF TypeOK, Input

LEMMA MoveType ==
  ASSUME TypeOK, NEW p \in Platforms, NEW from, NEW to \in Platform!State, NEW cb \in Platform!Callback,
         Platform!Move(p, from, to, cb)
  PROVE  /\ state' \in [Platforms -> Platform!State] /\ call' \in [Platforms -> Platform!Callback]
         /\ state'[p] = to
         /\ \A r \in Platforms \ {p} : state'[r] = state[r]
BY DEF TypeOK, Platform!Move

\* Whatever p does with a command: its state is that of the move, nobody else's changes,
\* and only "available" takes it from OFFLINE.
LEMMA HandlesMove ==
  ASSUME TypeOK, NEW p \in Platforms, NEW c \in Cmds, Handles(p, c)
  PROVE  /\ state' \in [Platforms -> Platform!State] /\ call' \in [Platforms -> Platform!Callback]
         /\ \A r \in Platforms \ {p} : state'[r] = state[r]
         /\ c = "halt" => state'[p] = "OFFLINE"
         /\ c # "available" /\ state[p] = "OFFLINE" => state'[p] = "OFFLINE"
         /\ c = "graceful_stop" => state'[p] # "FALLBACK"  \/ state[p] # "FALLBACK"
         /\ session = "OFFLINE" /\ p \in aux /\ state[p] # "FALLBACK" => state'[p] # "FALLBACK"
<1> USE DEF Platform!GoLive, Platform!Drop, Platform!Stall, Platform!Return, Platform!GiveUp,
        Platform!Unusable, Platform!End
<1> {"OFFLINE", "LIVE", "FALLBACK"} = Platform!State
  BY DEF Platform!State
<1> {"none", "stalled", "recovered", "gave_up", "unusable"} = Platform!Callback
  BY DEF Platform!Callback
<1>0. state \in [Platforms -> Platform!State] /\ call \in [Platforms -> Platform!Callback]
  BY DEF TypeOK
<1>1. CASE c = "available"
  BY <1>0, <1>1 DEF Handles, Platform!Move, Stays
<1>2. CASE c = "unavailable"
  BY <1>0, <1>2 DEF Handles, Platform!Move, Stays, LosesSource, NothingToLeanOn
<1>3. CASE c = "stalled"
  BY <1>0, <1>3 DEF Handles, Platform!Move, Stays, Stalls, NothingToLeanOn
<1>4. CASE c = "switched"
  BY <1>0, <1>4 DEF Handles, Platform!Move, Stays
<1>5. CASE c = "flapping"
  BY <1>0, <1>5 DEF Handles, Platform!Move, Stays
<1>6. CASE c = "halt"
  BY <1>0, <1>6 DEF Handles, Platform!Move, Stays
<1>7. CASE c = "graceful_stop"
  BY <1>0, <1>7 DEF Handles, Platform!Move, Stays
<1>8. CASE c = "oracle"
  BY <1>0, <1>8 DEF Handles, Platform!Move, Stays
<1> QED BY <1>1, <1>2, <1>3, <1>4, <1>5, <1>6, <1>7, <1>8, ReportsAssumption DEF Cmds

LEMMA CommandHandled ==
  ASSUME TypeOK, NEW p \in Platforms, HandleCmd(p)
  PROVE  /\ queue[p] \in Seq(Cmds) /\ queue[p] # <<>> /\ Head(queue[p]) \in Cmds
         /\ Handles(p, Head(queue[p]))
         /\ queue' \in [Platforms -> Seq(Cmds)] /\ queue'[p] = Tail(queue[p])
         /\ \A r \in Platforms \ {p} : queue'[r] = queue[r]
         /\ UNCHANGED managerOnly
BY Handled DEF TypeOK, HandleCmd

LEMMA CallReturned ==
  ASSUME TypeOK, NEW p \in Platforms, Platform!CallReturns(p)
  PROVE  state' = state /\ call' \in [Platforms -> Platform!Callback]
BY DEF TypeOK, Platform!CallReturns, Platform!Callback

----------------------------------------------------------------------------
(* What the Manager does under its lock. *)

\* A platform is started for a session that goes on or for an extra source, and only
\* while its source publishes.
Posted(p) ==
  \/ queue'[p] = queue[p]
  \/ \E c \in Cmds :
       /\ queue'[p] = Append(queue[p], c)
       /\ c = "available" => src'[SourceOf(p)].avail /\ (p \in aux \/ session' # "OFFLINE")

\* The end of the session is told to all, the end of a source to its platforms.
Told(p) ==
  /\ session # "OFFLINE" /\ session' = "OFFLINE" =>
       \/ queue'[p] = Append(queue[p], "halt")
       \/ p \in aux /\ queue'[p] = Append(queue[p], "graceful_stop")
  /\ src[SourceOf(p)].avail /\ ~src'[SourceOf(p)].avail => queue'[p] = Append(queue[p], "unavailable")

Posting == UNCHANGED state /\ \A p \in Platforms : Posted(p) /\ Told(p)

Kept == TInv' /\ WindowHasTimer'

LEMMA NothingPosted == UNCHANGED <<state, queue, session, aux>> /\
                       (\A s \in Sources : src[s].avail => src'[s].avail) => Posting
BY DEF Posting, Posted, Told, SourceOf, Sources

LEMMA HooksPost ==
  ASSUME TInv, WindowHasTimer, UNCHANGED aux, rejoined' \subseteq Platforms,
         NEW s \in Sources, OnAvailable(s) \/ OnUnavailable(s)
  PROVE  Kept /\ Posting
<1> USE DEF TInv
<1>1. inputs' \in 0..MaxInputs
  BY InputType DEF OnAvailable, OnUnavailable
<1>2. src \in [Sources -> SourceType]
  BY DEF TypeOK, SourceType
<1>3. CASE OnAvailable(s)
  <2>1. src' \in [Sources -> SourceType] /\ \A r \in Sources : src[r].avail => src'[r].avail
    BY <1>2, <1>3 DEF OnAvailable, SourceType
  <2>2. probes' \subseteq Probe
    BY <1>2, <1>3 DEF OnAvailable, TypeOK, Probe, SourceType
  <2>3. UNCHANGED <<state, call, queue, relay, rebuilt, session, started, halted, graceful, timer, stale>>
    BY <1>3 DEF OnAvailable, KeepTimer
  <2>4. Kept
    BY <1>1, <2>1, <2>2, <2>3 DEF Kept, TypeOK, SourceType, FiredBelow, WindowHasTimer
  <2> QED BY <2>1, <2>3, <2>4, NothingPosted
<1>4. CASE OnUnavailable(s)
  <2> DEFINE c == [p \in Platforms |-> IF SourceOf(p) = s THEN "unavailable" ELSE "none"]
  <2>1. src' \in [Sources -> SourceType] /\ \A r \in Sources \ {s} : src'[r] = src[r]
    BY <1>2, <1>4 DEF OnUnavailable, SourceType
  <2>2. c \in [Platforms -> Cmds \cup {"none"}] /\ PostEach(c)
    BY <1>4 DEF OnUnavailable, Cmds
  <2>3. queue' \in [Platforms -> Seq(Cmds)]
    BY <2>2, Posts
  <2>4. \A p \in Platforms : queue'[p] = IF SourceOf(p) = s THEN Append(queue[p], "unavailable") ELSE queue[p]
    <3>1. \A p \in Platforms : c[p] = IF SourceOf(p) = s THEN "unavailable" ELSE "none"
      OBVIOUS
    <3> HIDE DEF c
    <3> QED BY <2>2, <3>1, Posts
  <2>5. UNCHANGED <<state, call, relay, rebuilt, probes, started, halted, graceful>>
    BY <1>4 DEF OnUnavailable
  <2>6. /\ session' \in Platform!State /\ timer' \in {"off", "armed", "fired"} /\ stale' \in 0..MaxStale
        /\ FiredBelow' /\ WindowHasTimer' /\ (session' = "OFFLINE" => session = "OFFLINE")
    <3>1. CASE s = "main" /\ session = "LIVE"
      <4>1. session' = "FALLBACK" /\ scheduleSessionTimeout
        BY <1>4, <3>1 DEF OnUnavailable
      <4> QED BY <4>1, Timers DEF scheduleSessionTimeout, Platform!State, FiredBelow, WindowHasTimer
    <3>2. CASE ~(s = "main" /\ session = "LIVE")
      <4>1. UNCHANGED <<session, timer, stale>>
        BY <1>4, <3>2 DEF OnUnavailable, KeepTimer
      <4> QED BY <4>1 DEF TypeOK, FiredBelow, WindowHasTimer
    <3> QED BY <3>1, <3>2
  <2>7. Kept
    BY <1>1, <2>1, <2>3, <2>5, <2>6 DEF Kept, TypeOK, SourceType
  <2>8. Posting
    <3> SUFFICES ASSUME NEW p \in Platforms PROVE Posted(p) /\ Told(p)
      BY <2>5 DEF Posting
    <3>1. SourceOf(p) \in Sources /\ "unavailable" \in Cmds
      BY DEF SourceOf, Sources, Cmds
    <3>2. CASE SourceOf(p) = s
      BY <2>4, <2>6, <3>1, <3>2 DEF Posted, Told
    <3>3. CASE SourceOf(p) # s
      <4>1. queue'[p] = queue[p] /\ src'[SourceOf(p)] = src[SourceOf(p)]
        BY <2>1, <2>4, <3>1, <3>3
      <4> QED BY <2>6, <4>1 DEF Posted, Told
    <3> QED BY <3>2, <3>3
  <2> QED BY <2>7, <2>8
<1> QED BY <1>3, <1>4

LEMMA ProbesPost ==
  ASSUME TInv, WindowHasTimer, UNCHANGED aux, rejoined' \subseteq Platforms,
         NEW q \in probes,
         ProbeAnswers(q) \/ ProbeRejects(q) \/ ProbeStarts(q)
  PROVE  Kept /\ Posting
<1> USE DEF TInv
<1>1. q \in Probe /\ probes \subseteq Probe /\ src \in [Sources -> SourceType]
  BY DEF TypeOK, SourceType
<1>2. CASE ProbeAnswers(q) \/ ProbeRejects(q)
  <2>1. [q EXCEPT !.phase = "reject"] \in Probe /\ [q EXCEPT !.phase = "start"] \in Probe
    BY <1>1 DEF Probe
  <2>2. probes' \subseteq Probe
    BY <1>1, <1>2, <2>1 DEF ProbeAnswers, ProbeRejects
  <2>3. src' \in [Sources -> SourceType] /\ \A r \in Sources : src'[r].avail = src[r].avail
    <3>1. PICK v \in BOOLEAN : src' \in {src, [src EXCEPT ![q.source].valid = v]}
      BY <1>2 DEF ProbeAnswers, ProbeRejects
    <3>2. q.source \in Sources
      BY <1>1 DEF Probe
    <3> QED BY <1>1, <3>1, <3>2 DEF SourceType
  <2>4. UNCHANGED <<state, call, queue, relay, rebuilt, session, started, halted, graceful, inputs,
                    timer, stale>>
    BY <1>2 DEF ProbeAnswers, ProbeRejects, KeepTimer
  <2>5. Kept
    BY <2>2, <2>3, <2>4 DEF Kept, TypeOK, SourceType, FiredBelow, WindowHasTimer
  <2> QED BY <2>3, <2>4, <2>5, NothingPosted
<1>3. CASE ProbeStarts(q) /\ Outdated(q)
  <2>1. probes' \subseteq Probe
        /\ UNCHANGED <<state, call, queue, relay, rebuilt, src, session, started, halted, graceful, inputs,
                       timer, stale>>
    BY <1>1, <1>3 DEF ProbeStarts, KeepTimer
  <2>2. Kept
    BY <2>1 DEF Kept, TypeOK, FiredBelow, WindowHasTimer
  <2> QED BY <2>1, <2>2, NothingPosted
<1>4. CASE ProbeStarts(q) /\ ~Outdated(q)
  <2> DEFINE c == [p \in Platforms |-> IF SourceOf(p) = q.source THEN "available" ELSE "none"]
  <2>1. c \in [Platforms -> Cmds \cup {"none"}] /\ PostEach(c)
    BY <1>4 DEF ProbeStarts, Cmds
  <2>2. queue' \in [Platforms -> Seq(Cmds)]
    BY <2>1, Posts
  <2>3. \A p \in Platforms : queue'[p] = IF SourceOf(p) = q.source THEN Append(queue[p], "available") ELSE queue[p]
    <3>1. \A p \in Platforms : c[p] = IF SourceOf(p) = q.source THEN "available" ELSE "none"
      OBVIOUS
    <3> HIDE DEF c
    <3> QED BY <2>1, <3>1, Posts
  <2>4. UNCHANGED <<state, call, relay, rebuilt, src, started, halted, graceful, inputs>>
        /\ probes' \subseteq Probe /\ src[q.source].avail
    BY <1>1, <1>4 DEF ProbeStarts, Outdated
  <2>5. /\ session' \in Platform!State /\ timer' \in {"off", "armed", "fired"} /\ stale' \in 0..MaxStale
        /\ FiredBelow' /\ WindowHasTimer' /\ (session' = "OFFLINE" => session = "OFFLINE")
        /\ (q.source = "main" => session' = "LIVE")
    <3>1. CASE q.source = "main"
      <4>1. session' = "LIVE" /\ cancelSessionTimeout
        BY <1>4, <3>1 DEF ProbeStarts
      <4> QED BY <4>1, Timers DEF cancelSessionTimeout, Platform!State, FiredBelow, WindowHasTimer
    <3>2. CASE q.source # "main"
      <4>1. UNCHANGED <<session, timer, stale>>
        BY <1>4, <3>2 DEF ProbeStarts, KeepTimer
      <4> QED BY <3>2, <4>1 DEF TypeOK, FiredBelow, WindowHasTimer
    <3> QED BY <3>1, <3>2
  <2>6. Kept
    BY <2>2, <2>4, <2>5 DEF Kept, TypeOK
  <2>7. Posting
    BY <2>3, <2>4, <2>5 DEF Posting, Posted, Told, Cmds, SourceOf
  <2> QED BY <2>6, <2>7
<1> QED BY <1>2, <1>3, <1>4

\* The session ends: the dashboard, the page of OBS, or the timer.
LEMMA EndsPost ==
  ASSUME TInv, WindowHasTimer, UNCHANGED aux, rejoined' \subseteq Platforms,
         OnManualStop \/ OnDashboardHalt \/ OnSessionTimeout
  PROVE  Kept /\ Posting
<1> USE DEF TInv
<1>1. CASE OnManualStop
  <2> DEFINE c == [p \in Platforms |-> IF p \in aux THEN "graceful_stop" ELSE "halt"]
  <2>1. c \in [Platforms -> Cmds \cup {"none"}] /\ PostEach(c)
    BY <1>1 DEF OnManualStop, Cmds
  <2>2. queue' \in [Platforms -> Seq(Cmds)]
    BY <2>1, Posts
  <2>3. \A p \in Platforms : queue'[p] = Append(queue[p], IF p \in aux THEN "graceful_stop" ELSE "halt")
    <3>1. \A p \in Platforms : c[p] = IF p \in aux THEN "graceful_stop" ELSE "halt"
      OBVIOUS
    <3> HIDE DEF c
    <3> QED BY <2>1, <3>1, Posts
  <2>4. /\ UNCHANGED <<state, call, relay, rebuilt, src, probes>> /\ session' = "OFFLINE"
        /\ started' = 0 /\ halted' = 0 /\ graceful' = TRUE /\ cancelSessionTimeout /\ Input
    BY <1>1 DEF OnManualStop
  <2>5. Kept
    BY <2>2, <2>4, Timers, InputType
       DEF Kept, TypeOK, FiredBelow, WindowHasTimer, cancelSessionTimeout, Platform!State
  <2>6. Posting
    BY <2>3, <2>4 DEF Posting, Posted, Told, Cmds
  <2> QED BY <2>5, <2>6
<1>2. ASSUME PostEach([p \in Platforms |-> "halt"])
      PROVE  /\ queue' \in [Platforms -> Seq(Cmds)]
             /\ \A p \in Platforms : queue'[p] = Append(queue[p], "halt")
  <2> DEFINE c == [p \in Platforms |-> "halt"]
  <2>1. c \in [Platforms -> Cmds \cup {"none"}] /\ PostEach(c) /\ \A p \in Platforms : c[p] = "halt"
    BY <1>2 DEF Cmds
  <2> HIDE DEF c
  <2> QED BY <2>1, Posts
<1>3. CASE OnDashboardHalt
  <2>1. /\ UNCHANGED <<state, call, relay, rebuilt, src, probes, started, graceful>> /\ session' = "OFFLINE"
        /\ cancelSessionTimeout /\ Input /\ PostEach([p \in Platforms |-> "halt"])
        /\ halted' \in {started, halted}
    BY <1>3 DEF OnDashboardHalt
  <2>2. Kept
    BY <1>2, <2>1, Timers, InputType
       DEF Kept, TypeOK, FiredBelow, WindowHasTimer, cancelSessionTimeout, Platform!State
  <2>3. Posting
    BY <1>2, <2>1 DEF Posting, Posted, Told, Cmds
  <2> QED BY <2>2, <2>3
<1>4. CASE OnSessionTimeout /\ session = "FALLBACK"
  <2>1. /\ UNCHANGED <<state, call, relay, rebuilt, src, probes, started, halted, graceful, inputs>>
        /\ session' = "OFFLINE" /\ PostEach([p \in Platforms |-> "halt"])
    BY <1>4 DEF OnSessionTimeout, EndSession
  <2>2. timer' = "off" /\ stale' \in 0..MaxStale
    BY <1>4, BoundsAssumption DEF OnSessionTimeout, TypeOK
  <2>3. Kept
    BY <1>2, <2>1, <2>2 DEF Kept, TypeOK, FiredBelow, WindowHasTimer, Platform!State
  <2>4. Posting
    BY <1>2, <2>1 DEF Posting, Posted, Told, Cmds
  <2> QED BY <2>3, <2>4
<1>5. CASE OnSessionTimeout /\ session # "FALLBACK"
  <2>1. UNCHANGED <<state, call, queue, relay, rebuilt, src, probes, session, started, halted, graceful, inputs>>
    BY <1>5 DEF OnSessionTimeout
  <2>2. timer = "off"
    BY <1>5 DEF WindowHasTimer
  <2>3. timer' = "off" /\ stale' \in 0..MaxStale
    BY <1>5, <2>2, BoundsAssumption DEF OnSessionTimeout, TypeOK
  <2>4. Kept
    BY <1>5, <2>1, <2>3 DEF Kept, TypeOK, FiredBelow, WindowHasTimer
  <2> QED BY <2>1, <2>4, NothingPosted
<1> QED BY <1>1, <1>3, <1>4, <1>5

\* What neither posts nor ends anything.
LEMMA RestPosts ==
  ASSUME TInv, WindowHasTimer, UNCHANGED aux, rejoined' \subseteq Platforms,
         ReportOBSSession \/ GracefulExpires \/ TimerFires \/ \E p \in Platforms : RecreateBegins(p)
  PROVE  Kept /\ Posting
<1> USE DEF TInv
<1>1. UNCHANGED <<state, call, queue, relay, src, probes, session, halted>>
  BY DEF ReportOBSSession, GracefulExpires, TimerFires, RecreateBegins
<1>2. CASE ReportOBSSession
  <2>1. UNCHANGED <<rebuilt, graceful, timer, stale>> /\ started' \in ObsIds /\ Input
    BY <1>2 DEF ReportOBSSession, KeepTimer
  <2> QED BY <1>1, <2>1, InputType, NothingPosted DEF Kept, TypeOK, FiredBelow, WindowHasTimer
<1>3. CASE GracefulExpires
  <2>1. UNCHANGED <<rebuilt, started, inputs, timer, stale>> /\ graceful' = FALSE
    BY <1>3 DEF GracefulExpires, KeepTimer
  <2> QED BY <1>1, <2>1, NothingPosted DEF Kept, TypeOK, FiredBelow, WindowHasTimer
<1>4. CASE TimerFires
  <2>1. UNCHANGED <<rebuilt, started, inputs, graceful, stale>> /\ timer' = "fired" /\ timer = "armed"
        /\ stale < MaxStale
    BY <1>4 DEF TimerFires
  <2> QED BY <1>1, <2>1, NothingPosted DEF Kept, TypeOK, FiredBelow, WindowHasTimer
<1>5. CASE \E p \in Platforms : RecreateBegins(p)
  <2>1. UNCHANGED <<started, graceful, timer, stale>> /\ rebuilt' \subseteq Platforms /\ Input
    BY <1>5 DEF RecreateBegins, KeepTimer, TypeOK
  <2> QED BY <1>1, <2>1, InputType, NothingPosted DEF Kept, TypeOK, FiredBelow, WindowHasTimer
<1> QED BY <1>2, <1>3, <1>4, <1>5

LEMMA CallsPost ==
  ASSUME TInv, WindowHasTimer, UNCHANGED aux, rejoined' \subseteq Platforms,
         NEW p \in Platforms, Calls(p)
  PROVE  Kept /\ Posting
<1> USE DEF TInv
<1>1. UNCHANGED <<queue, relay, rebuilt, src, probes, started, halted, graceful, inputs>>
      /\ Platform!CallReturns(p)
  BY DEF Calls, OnPlatformStalled, OnPlatformRecovered, OnPlatformGone
<1>2. UNCHANGED state /\ call' \in [Platforms -> Platform!Callback]
  BY <1>1, CallReturned
<1>3. \/ UNCHANGED <<session, timer, stale>>
      \/ session = "LIVE" /\ session' = "FALLBACK" /\ scheduleSessionTimeout
      \/ session = "FALLBACK" /\ session' = "LIVE" /\ cancelSessionTimeout
  BY DEF Calls, OnPlatformStalled, OnPlatformRecovered, OnPlatformGone, KeepTimer
<1>4. /\ session' \in Platform!State /\ timer' \in {"off", "armed", "fired"} /\ stale' \in 0..MaxStale
      /\ FiredBelow' /\ WindowHasTimer' /\ (session' = "OFFLINE" => session = "OFFLINE")
  <2>1. CASE UNCHANGED <<session, timer, stale>>
    BY <2>1 DEF TypeOK, FiredBelow, WindowHasTimer
  <2>2. CASE session' = "FALLBACK" /\ scheduleSessionTimeout
    BY <2>2, Timers DEF scheduleSessionTimeout, Platform!State, FiredBelow, WindowHasTimer
  <2>3. CASE session' = "LIVE" /\ cancelSessionTimeout
    BY <2>3, Timers DEF cancelSessionTimeout, Platform!State, FiredBelow, WindowHasTimer
  <2> QED BY <1>3, <2>1, <2>2, <2>3
<1>5. Kept
  BY <1>1, <1>2, <1>4 DEF Kept, TypeOK
<1>6. Posting
  BY <1>1, <1>2, <1>4 DEF Posting, Posted, Told
<1> QED BY <1>5, <1>6

\* A report of a pipeline is a command like any other, and never a start.
LEMMA ReportsPost ==
  ASSUME TInv, WindowHasTimer, UNCHANGED aux, rejoined' \subseteq Platforms,
         NEW p \in Platforms, PipelineReports(p)
  PROVE  Kept /\ Posting
<1> USE DEF TInv
<1>1. PICK c \in Events(p) : queue' = [queue EXCEPT ![p] = Append(@, c)]
  BY DEF PipelineReports
<1>2. c \in Cmds /\ c # "available"
  BY ReportsAssumption DEF Events, Cmds
<1>3. queue[p] \in Seq(Cmds) /\ Append(queue[p], c) \in Seq(Cmds)
  BY <1>2, Appended DEF TypeOK
<1>4. queue' \in [Platforms -> Seq(Cmds)] /\ queue'[p] = Append(queue[p], c)
      /\ \A r \in Platforms \ {p} : queue'[r] = queue[r]
  BY <1>1, <1>3 DEF TypeOK
<1>5. UNCHANGED <<state, call, relay, rebuilt, src, probes, session, timer, stale, started, halted,
                  graceful, inputs>>
  BY DEF PipelineReports, managerOnly
<1>6. Kept
  BY <1>4, <1>5 DEF Kept, TypeOK, FiredBelow, WindowHasTimer
<1>7. Posting
  BY <1>2, <1>4, <1>5 DEF Posting, Posted, Told
<1> QED BY <1>6, <1>7

----------------------------------------------------------------------------
(* What the platforms do, and a platform that is made anew. *)

LEMMA HandlingKeeps ==
  ASSUME TInv, WindowHasTimer, UNCHANGED aux, rejoined' \subseteq Platforms,
         NEW p \in Platforms, HandleCmd(p) PROVE Kept
<1> USE DEF TInv
<1>1. /\ state' \in [Platforms -> Platform!State] /\ call' \in [Platforms -> Platform!Callback]
      /\ queue' \in [Platforms -> Seq(Cmds)] /\ UNCHANGED managerOnly
  BY CommandHandled, HandlesMove
<1>2. relay' \subseteq Platforms
  BY DEF HandleCmd, TypeOK
<1> QED BY <1>1, <1>2 DEF managerOnly, Kept, TypeOK, FiredBelow, WindowHasTimer

LEMMA Recreated ==
  ASSUME TInv, UNCHANGED aux, NEW p \in Platforms, RecreateEnds(p)
  PROVE  /\ queue' \in [Platforms -> Seq(Cmds)] /\ state' \in [Platforms -> Platform!State]
         /\ queue'[p] = IF src[SourceOf(p)].avail /\ src[SourceOf(p)].valid THEN <<"available">> ELSE <<>>
         /\ state'[p] = "OFFLINE"
         /\ \A r \in Platforms \ {p} : queue'[r] = queue[r] /\ state'[r] = state[r]
         /\ UNCHANGED <<call, src, probes, session, timer, stale, started, halted, graceful, inputs>>
<1> USE DEF TInv
<1>1. <<"available">> \in Seq(Cmds) /\ <<>> \in Seq(Cmds) /\ "OFFLINE" \in Platform!State
  BY DEF Cmds, Platform!State
<1> QED BY <1>1 DEF RecreateEnds, TypeOK, KeepTimer

LEMMA RecreateKeeps ==
  ASSUME TInv, WindowHasTimer, UNCHANGED aux, rejoined' \subseteq Platforms,
         NEW p \in Platforms, RecreateEnds(p) PROVE Kept
<1>1. relay' \subseteq Platforms /\ rebuilt' \subseteq Platforms
  BY DEF RecreateEnds, TInv, TypeOK
<1> QED BY <1>1, Recreated DEF Kept, TInv, TypeOK, FiredBelow, WindowHasTimer

\* Every step is one of four.
Handling == \E p \in Platforms : HandleCmd(p)
Recreating == \E p \in Platforms : RecreateEnds(p)

LEMMA StepShapes ==
  ASSUME TInv, WindowHasTimer, [Next]_vars
  PROVE  Kept /\ aux' = aux /\ (Posting \/ Handling \/ Recreating)
<1>1. CASE UNCHANGED vars
  BY <1>1, NothingPosted DEF vars, Kept, TInv, TypeOK, FiredBelow, WindowHasTimer
<1>2. CASE Next
  <2>0. aux' = aux /\ rejoined' \subseteq Platforms /\ Step
    BY <1>2 DEF Next, Besides, TInv, TypeOK
  <2>1. CASE \E s \in Sources : OnAvailable(s) \/ OnUnavailable(s)
    BY <2>0, <2>1, HooksPost
  <2>2. CASE \E q \in probes : ProbeAnswers(q) \/ ProbeRejects(q) \/ ProbeStarts(q)
    BY <2>0, <2>2, ProbesPost
  <2>3. CASE OnManualStop \/ OnDashboardHalt \/ OnSessionTimeout
    BY <2>0, <2>3, EndsPost
  <2>4. CASE ReportOBSSession \/ GracefulExpires \/ TimerFires \/ \E p \in Platforms : RecreateBegins(p)
    BY <2>0, <2>4, RestPosts
  <2>5. CASE \E p \in Platforms : RecreateEnds(p) \/ Calls(p) \/ HandleCmd(p) \/ PipelineReports(p)
    BY <2>0, <2>5, RecreateKeeps, CallsPost, HandlingKeeps, ReportsPost DEF Handling, Recreating
  <2> QED BY <2>0, <2>1, <2>2, <2>3, <2>4, <2>5 DEF Step
<1> QED BY <1>1, <1>2

----------------------------------------------------------------------------
(* The last word. *)

LEMMA LastWords == GoneIsLastWord <=> \A p \in Platforms : ~src[SourceOf(p)].avail => LastWord(queue[p])
BY DEF GoneIsLastWord, LastWord

LEMMA GoneStep ==
  ASSUME TInv, WindowHasTimer, GoneIsLastWord, [Next]_vars PROVE GoneIsLastWord'
<1>1. Kept /\ aux' = aux /\ (Posting \/ Handling \/ Recreating)
  BY StepShapes
<1>2. \A p \in Platforms : queue[p] \in Seq(Cmds)
  BY DEF TInv, TypeOK
<1> SUFFICES ASSUME NEW p \in Platforms, ~src'[SourceOf(p)].avail PROVE LastWord(queue'[p])
  BY <1>1 DEF GoneIsLastWord, LastWord, SourceOf
<1>3. CASE Posting
  <2>1. CASE src[SourceOf(p)].avail
    BY <1>2, <1>3, <2>1, UnavailableIsLast DEF Posting, Told
  <2>2. CASE ~src[SourceOf(p)].avail
    <3>1. LastWord(queue[p])
      BY <2>2, LastWords
    <3> QED BY <1>2, <1>3, <3>1, OtherPosted DEF Posting, Posted
  <2> QED BY <2>1, <2>2
<1>4. CASE Handling
  <2>1. PICK r \in Platforms : HandleCmd(r)
    BY <1>4 DEF Handling
  <2>2. src' = src /\ queue'[p] = (IF p = r THEN Tail(queue[p]) ELSE queue[p]) /\ queue[r] # <<>>
    BY <2>1, CommandHandled DEF TInv, managerOnly
  <2>3. LastWord(queue[p])
    BY <2>2, LastWords
  <2> QED BY <1>2, <2>2, <2>3, LastWordHandled
<1>5. CASE Recreating
  <2>1. PICK r \in Platforms : RecreateEnds(r)
    BY <1>5 DEF Recreating
  <2>2. src' = src /\ (p # r => queue'[p] = queue[p])
        /\ queue'[r] = IF src[SourceOf(r)].avail /\ src[SourceOf(r)].valid THEN <<"available">> ELSE <<>>
    BY <1>1, <2>1, Recreated
  <2>3. CASE p = r
    BY <2>2, <2>3 DEF LastWord
  <2>4. CASE p # r
    BY <2>2, <2>4, LastWords
  <2> QED BY <2>3, <2>4
<1> QED BY <1>1, <1>3, <1>4, <1>5

----------------------------------------------------------------------------
(* The end of the session. *)

LEMMA WillEnds == \A p \in Platforms : WillEnd(p) <=> Ends(queue[p])
BY DEF WillEnd, Ends

LEMMA EndedStep ==
  ASSUME TInv, WindowHasTimer, EndedMeansEnded, [Next]_vars
  PROVE  EndedMeansEnded'
<1>1. Kept /\ aux' = aux /\ (Posting \/ Handling \/ Recreating)
  BY StepShapes
<1>2. \A p \in Platforms : queue[p] \in Seq(Cmds)
  BY DEF TInv, TypeOK
<1>3. Default' = Default /\ Default \subseteq Platforms
  BY <1>1 DEF Default
<1> SUFFICES ASSUME session' = "OFFLINE", NEW p \in Default, p \notin rejoined'
             PROVE  Over(p)'
  BY <1>3 DEF EndedMeansEnded
<1>4. p \in Platforms /\ p \notin aux
  BY DEF Default
<1>5. Over(p)' <=> Ends(queue'[p]) \/ (state'[p] = "OFFLINE" /\ ~Contains(queue'[p], "available"))
  BY DEF Over, WillEnd, Ends
\* Who had rejoined, or was recreated in this step, is over by the definition of rejoined.
<1>6. CASE Next /\ (p \in rejoined \/ p \in rebuilt \ rebuilt')
  BY <1>6 DEF Next, Besides
<1> SUFFICES ASSUME p \notin rejoined, Next => p \notin rebuilt \ rebuilt' PROVE Over(p)'
  <2>1. CASE UNCHANGED vars
    BY <2>1 DEF vars
  <2> QED BY <1>6, <2>1
<1>7. session = "OFFLINE" => Ends(queue[p]) \/ (state[p] = "OFFLINE" /\ ~Contains(queue[p], "available"))
  BY <1>4, WillEnds DEF EndedMeansEnded, Over
<1>8. CASE Posting
  <2>1. CASE session # "OFFLINE"
    <3>1. queue'[p] = Append(queue[p], "halt")
      BY <1>4, <1>8, <2>1 DEF Posting, Told
    <3> QED BY <1>2, <1>4, <1>5, <3>1, HaltEnds
  <2>2. CASE session = "OFFLINE"
    <3>1. Ends(queue[p]) \/ (state[p] = "OFFLINE" /\ ~Contains(queue[p], "available"))
      BY <1>7, <2>2
    <3>2. state' = state
      BY <1>8 DEF Posting
    <3>3. CASE queue'[p] = queue[p]
      BY <1>5, <3>1, <3>2, <3>3
    <3>4. CASE \E c \in Cmds : queue'[p] = Append(queue[p], c) /\ c # "available"
      BY <1>2, <1>4, <1>5, <3>1, <3>2, <3>4, OtherPosted
    <3> QED BY <1>4, <1>8, <3>3, <3>4 DEF Posting, Posted
  <2> QED BY <2>1, <2>2
<1>9. CASE Handling
  <2>1. PICK r \in Platforms : HandleCmd(r)
    BY <1>9 DEF Handling
  <2>2. session = "OFFLINE"
    BY <2>1 DEF HandleCmd, managerOnly
  <2>3. Ends(queue[p]) \/ (state[p] = "OFFLINE" /\ ~Contains(queue[p], "available"))
    BY <1>7, <2>2
  <2>4. CASE p # r
    <3>1. queue'[p] = queue[p] /\ state'[p] = state[p]
      BY <1>4, <2>1, <2>4, CommandHandled, HandlesMove DEF TInv
    <3> QED BY <1>5, <2>3, <3>1
  <2>5. CASE p = r
    <3>1. /\ queue[p] # <<>> /\ queue'[p] = Tail(queue[p]) /\ Head(queue[p]) \in Cmds
          /\ Handles(p, Head(queue[p]))
      BY <2>1, <2>5, CommandHandled DEF TInv
    <3>2. /\ Head(queue[p]) = "halt" => state'[p] = "OFFLINE"
          /\ Head(queue[p]) # "available" /\ state[p] = "OFFLINE" => state'[p] = "OFFLINE"
      BY <1>4, <3>1, HandlesMove DEF TInv
    <3>3. CASE Ends(queue[p])
      BY <1>2, <1>4, <1>5, <3>1, <3>2, <3>3, EndsHandled
    <3>4. CASE state[p] = "OFFLINE" /\ ~Contains(queue[p], "available")
      BY <1>2, <1>4, <1>5, <3>1, <3>2, <3>4, QuietHandled
    <3> QED BY <2>3, <3>3, <3>4
  <2> QED BY <2>4, <2>5
<1>10. CASE Recreating
  <2>1. PICK r \in Platforms : RecreateEnds(r) /\ (r = p => Next)
    <3>1. CASE UNCHANGED vars
      <4>1. ASSUME NEW r \in Platforms PROVE ~RecreateEnds(r)
        BY <3>1 DEF vars, RecreateEnds
      <4> QED BY <1>10, <4>1 DEF Recreating
    <3> QED BY <1>10, <3>1 DEF Recreating
  <2>2. r # p
    BY <2>1 DEF RecreateEnds
  <2>3. queue'[p] = queue[p] /\ state'[p] = state[p] /\ session = "OFFLINE"
    BY <1>1, <1>4, <2>1, <2>2, Recreated
  <2> QED BY <1>5, <1>7, <2>3
<1> QED BY <1>1, <1>8, <1>9, <1>10

----------------------------------------------------------------------------
(* The platforms of extra sources. *)

LEMMA PostedStays ==
  ASSUME NEW q \in Seq(Cmds), NEW c \in Cmds, NEW d \in Cmds, Contains(q, d)
  PROVE  Contains(Append(q, c), d)
<1>1. Len(q) \in Nat
  OBVIOUS
<1> QED BY <1>1, Appended DEF Contains

LEMMA PostedIsThere ==
  ASSUME NEW q \in Seq(Cmds), NEW c \in Cmds PROVE Contains(Append(q, c), c)
<1>1. Len(q) \in Nat
  OBVIOUS
<1> QED BY <1>1, Appended DEF Contains

LEMMA StaysUntilHandled ==
  ASSUME NEW q \in Seq(Cmds), q # <<>>, NEW d \in Cmds, Contains(q, d)
  PROVE  Head(q) = d \/ Contains(Tail(q), d)
<1>1. PICK i \in 1..Len(q) : q[i] = d
  BY DEF Contains
<1>2. CASE i = 1
  BY <1>1, <1>2, Handled
<1>3. CASE i # 1
  <2>1. i - 1 \in 1..Len(Tail(q)) /\ Tail(q)[i - 1] = d
    BY <1>1, <1>3, Handled
  <2> QED BY <2>1 DEF Contains
<1> QED BY <1>2, <1>3

LEMMA AuxStep ==
  ASSUME TInv, WindowHasTimer, AuxNotStranded, [Next]_vars PROVE AuxNotStranded'
<1>0. {"halt", "graceful_stop"} \subseteq Cmds
  BY DEF Cmds
<1>1. Kept /\ aux' = aux /\ (Posting \/ Handling \/ Recreating)
  BY StepShapes
<1>2. (\A p \in Platforms : queue[p] \in Seq(Cmds)) /\ aux \subseteq Platforms
  BY MixesAssumption DEF TInv, TypeOK
<1> SUFFICES ASSUME session' = "OFFLINE", NEW p \in aux, state'[p] = "FALLBACK"
             PROVE  \E c \in {"halt", "graceful_stop"} : Contains(queue'[p], c)
  BY <1>1 DEF AuxNotStranded
<1>3. p \in Platforms
  BY <1>2
<1>4. CASE Posting
  <2>1. CASE session # "OFFLINE"
    <3>1. \E c \in {"halt", "graceful_stop"} : queue'[p] = Append(queue[p], c)
      BY <1>3, <1>4, <2>1 DEF Posting, Told
    <3> QED BY <1>0, <1>2, <1>3, <3>1, PostedIsThere
  <2>2. CASE session = "OFFLINE"
    <3>1. PICK c \in {"halt", "graceful_stop"} : Contains(queue[p], c)
      BY <1>4, <2>2 DEF Posting, AuxNotStranded
    <3>2. queue'[p] = queue[p] \/ \E d \in Cmds : queue'[p] = Append(queue[p], d)
      BY <1>3, <1>4 DEF Posting, Posted
    <3> QED BY <1>0, <1>2, <1>3, <3>1, <3>2, PostedStays
  <2> QED BY <2>1, <2>2
<1>5. CASE Handling
  <2>1. PICK r \in Platforms : HandleCmd(r)
    BY <1>5 DEF Handling
  <2>2. session = "OFFLINE"
    BY <2>1 DEF HandleCmd, managerOnly
  <2>3. CASE p # r
    <3>1. queue'[p] = queue[p] /\ state'[p] = state[p]
      BY <1>3, <2>1, <2>3, CommandHandled, HandlesMove DEF TInv
    <3> QED BY <2>2, <3>1 DEF AuxNotStranded
  <2>4. CASE p = r
    <3>1. /\ queue[p] # <<>> /\ queue'[p] = Tail(queue[p]) /\ Head(queue[p]) \in Cmds
          /\ Handles(p, Head(queue[p]))
      BY <2>1, <2>4, CommandHandled DEF TInv
    <3>2. /\ Head(queue[p]) = "halt" => state'[p] = "OFFLINE"
          /\ state[p] = "FALLBACK"
          /\ Head(queue[p]) # "graceful_stop"
      BY <1>3, <2>2, <3>1, HandlesMove DEF TInv
    <3>3. PICK c \in {"halt", "graceful_stop"} : Contains(queue[p], c)
      BY <2>2, <3>2 DEF AuxNotStranded
    <3>4. Head(queue[p]) # c
      BY <3>2
    <3> QED BY <1>0, <1>2, <1>3, <3>1, <3>3, <3>4, StaysUntilHandled
  <2> QED BY <2>3, <2>4
<1>6. CASE Recreating
  <2>1. PICK r \in Platforms : RecreateEnds(r)
    BY <1>6 DEF Recreating
  <2>2. /\ p # r => queue'[p] = queue[p] /\ state'[p] = state[p]
        /\ state'[r] = "OFFLINE" /\ session' = session
    BY <1>1, <1>3, <2>1, Recreated
  <2> QED BY <2>2 DEF AuxNotStranded
<1> QED BY <1>1, <1>4, <1>5, <1>6

----------------------------------------------------------------------------
LEMMA Begins == Init => GoneIsLastWord /\ EndedMeansEnded /\ AuxNotStranded
BY MixesAssumption DEF Init, GoneIsLastWord, EndedMeansEnded, AuxNotStranded, Default, Over, WillEnd, Contains,
                       Platform!Init

LEMMA TypesAlways == Spec => [](TInv /\ WindowHasTimer)
<1>1. TInv /\ WindowHasTimer /\ [Next]_vars => TInv' /\ WindowHasTimer'
  BY StepShapes DEF Kept
<1> QED BY <1>1, Initially, PTL DEF Spec

\* Every variable of the broadcast keeps its type (control/session.go).
THEOREM TypeCorrect == Spec => []TypeOK
<1>1. TInv => TypeOK
  BY DEF TInv
<1> QED BY <1>1, TypesAlways, PTL

\* The session waits for its source exactly while a timer is armed or its callback waits
\* for the lock (schedule/cancelSessionTimeoutLocked).
THEOREM WindowIsTimed == Spec => []WindowHasTimer
BY TypesAlways, PTL

\* A probe that outlives the publication starts nobody: the last word a platform hears of
\* a source that is gone is that it is gone (validateAndStart).
THEOREM GoneStaysGone == Spec => []GoneIsLastWord
<1>1. TInv /\ WindowHasTimer /\ GoneIsLastWord /\ [Next]_vars => GoneIsLastWord'
  BY GoneStep
<1> QED BY <1>1, TypesAlways, Begins, PTL DEF Spec

\* Once the session has ended each platform of the default source is OFFLINE or about to
\* be; only one that was recreated since may be started by that, until it ends again
\* (OnManualStop, OnDashboardHalt, onSessionTimeout, joinRunningSourceLocked).
THEOREM SessionEnds == Spec => []EndedMeansEnded
<1>1. TInv /\ WindowHasTimer /\ EndedMeansEnded /\ [Next]_vars => EndedMeansEnded'
  BY EndedStep
<1> QED BY <1>1, TypesAlways, Begins, PTL DEF Spec

\* A platform of an extra source does not keep its backup video after the main session has
\* ended (GracefulStopIfFallback, onSourceUnavailable).
THEOREM NobodyStranded == Spec => []AuxNotStranded
<1>1. TInv /\ WindowHasTimer /\ AuxNotStranded /\ [Next]_vars => AuxNotStranded'
  BY AuxStep
<1> QED BY <1>1, TypesAlways, Begins, PTL DEF Spec

=============================================================================
