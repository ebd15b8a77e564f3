---------------------------- MODULE OutputsProofs ----------------------------
(***************************************************************************)
(* The two supervisors of an output, for every number of runs and every    *)
(* threshold. Stop leaves nothing behind: no process is alive once it has  *)
(* returned, and at no time is there a process beside the one of the       *)
(* latest Start. A connection nobody wants any more is never used: a run   *)
(* that connects late finds that it is not wanted. And what runs is fed,   *)
(* as long as no run was raised beside one that was still going on.        *)
(***************************************************************************)
EXTENDS MCOutputs, OutputSink, FiniteSetTheorems, TLAPS

RunType == [at : Places, ran : Durations, wanted : BOOLEAN, never : BOOLEAN]

\* Where a run is while it has a process.
Up == {"start", "starting", "wait"}

\* A run that was not raised yet has not begun.
NotRaised == \A e \in Epochs : e > epoch => runs[e].at = "none"

\* The process of the supervisor belongs to a run that is waiting for it.
Registered == proc # None => runs[proc].at \in Up

\* A caller of Start finds nobody in Stop.
WantedIsIdle == desired => owner = Idle

\* What lives is the process of the latest run, registered, and either wanted or
\* about to be killed.
AliveIsLatest ==
  \A e \in Epochs : child[e] = "alive" =>
    /\ proc = e /\ epoch = e
    /\ desired \/ (owner.at \in {"detach", "kill"} /\ owner.victim = e)

\* Whoever is in Stop for the sake of a process knows whose it is.
VictimKnown == owner # Idle => owner.victim \in Epochs

IInv ==
  /\ TypeOK /\ NotRaised /\ Registered /\ WantedIsIdle /\ AliveIsLatest /\ VictimKnown

LEMMA Initially == Init => IInv
<1> SUFFICES ASSUME Init PROVE IInv
  OBVIOUS
<1>1. TypeOK
  <2>1. 0 \in 0..MaxStarts /\ 0 \in 0..CountThreshold + 1
    BY MaxStartsAssumption, CountThresholdAssumption
  <2>2. NewRun \in RunType
    BY DEF NewRun, RunType, Places, Durations
  <2>3. Idle \in [at : {"idle", "detach", "kill", "clear", "join"}, victim : Epochs \cup {None},
                  done : Epochs \cup {None}]
    BY DEF Idle
  <2> QED BY <2>1, <2>2, <2>3 DEF Init, TypeOK, RunType
<1>2. NotRaised /\ Registered /\ WantedIsIdle /\ AliveIsLatest /\ VictimKnown
  BY DEF Init, NotRaised, Registered, WantedIsIdle, AliveIsLatest, VictimKnown, NewRun
<1> QED BY <1>1, <1>2 DEF IInv

\* What TypeOK says of a step that touches runs, processes and what has been of them.
LEMMA TypesFollow ==
  ASSUME TypeOK, UNCHANGED <<inHook, owner, sink, overlapped, desired, epoch, early, everLong>>,
         runs' \in [Epochs -> RunType], child' \in [Epochs -> {"none", "alive", "dead"}],
         proc' \in Epochs \cup {None}, lasted' \subseteq Epochs, reached' \subseteq Epochs,
         proc' # None => child'[proc'] # "none"
  PROVE  TypeOK'
BY DEF TypeOK, RunType

\* The child of one run changes.
LEMMA ChildTypes ==
  ASSUME TypeOK, NEW e \in Epochs, NEW x \in {"none", "alive", "dead"}, child' = [child EXCEPT ![e] = x]
  PROVE  /\ child' \in [Epochs -> {"none", "alive", "dead"}] /\ child'[e] = x
         /\ \A d \in Epochs : d # e => child'[d] = child[d]
BY DEF TypeOK

\* Two fields of a run change, and no other run is touched.
LEMMA TwoFields ==
  ASSUME NEW R, NEW R2, NEW e, NEW s, R \in [Epochs -> RunType], e \in Epochs, s \in RunType,
         R2 = [R EXCEPT ![e] = s]
  PROVE  R2 \in [Epochs -> RunType] /\ R2[e] = s /\ \A d \in Epochs \ {e} : R2[d] = R[d]
OBVIOUS

LEMMA RanFields ==
  ASSUME NEW s \in RunType, NEW place \in Places, NEW d \in Durations
  PROVE  [s EXCEPT !.at = place, !.ran = d] \in RunType /\ [s EXCEPT !.at = place, !.ran = d].at = place
BY DEF RunType

LEMMA NeverFields ==
  ASSUME NEW s \in RunType, NEW n \in BOOLEAN, NEW place \in Places
  PROVE  [s EXCEPT !.never = n, !.at = place] \in RunType /\ [s EXCEPT !.never = n, !.at = place].at = place
BY DEF RunType

\* A run takes its place, and no other run is touched.
LEMMA GoPlaces ==
  ASSUME TypeOK, NEW e \in Epochs, NEW place \in Places, Go(e, place)
  PROVE  /\ runs' \in [Epochs -> RunType]
         /\ runs'[e].at = place
         /\ \A f \in Epochs \ {e} : runs'[f] = runs[f]
<1>1. runs \in [Epochs -> RunType]
  BY DEF TypeOK, RunType
<1>2. [NewRun EXCEPT !.at = place] \in RunType /\ [runs[e] EXCEPT !.at = place] \in RunType
  BY <1>1 DEF RunType, NewRun, Durations
<1>3. CASE place \in {"top", "over"}
  BY <1>1, <1>2, <1>3 DEF Go, NewRun
<1>4. CASE place \notin {"top", "over"}
  <2>1. runs' = [runs EXCEPT ![e] = [runs[e] EXCEPT !.at = place]]
    BY <1>1, <1>4 DEF Go
  <2> QED BY <1>1, <1>2, <2>1 DEF RunType
<1> QED BY <1>3, <1>4

LEMMA StartKeeps == IInv /\ Start => IInv'
<1> SUFFICES ASSUME IInv, Start PROVE IInv'
  OBVIOUS
<1> USE MaxStartsAssumption, CountThresholdAssumption DEF IInv
<1>1. epoch + 1 \in Epochs /\ "begin" \in Places
  BY DEF Start, TypeOK, Epochs, Places
<1>2. /\ runs' \in [Epochs -> RunType]
      /\ runs'[epoch + 1].at = "begin"
      /\ \A f \in Epochs \ {epoch + 1} : runs'[f] = runs[f]
  BY <1>1, GoPlaces DEF Start
<1>3. \A e \in Epochs : child[e] # "alive"
  BY DEF Start, AliveIsLatest, Idle
<1>4. proc # epoch + 1
  <2>1. epoch \in Nat
    BY DEF TypeOK
  <2>2. epoch + 1 > epoch /\ epoch + 1 # 0
    BY <2>1
  <2>3. runs[epoch + 1].at \notin Up
    BY <1>1, <2>2 DEF NotRaised, Up
  <2>4. proc # None => runs[proc].at \in Up
    BY DEF Registered
  <2> QED BY <2>2, <2>3, <2>4 DEF None
<1>5. TypeOK'
  <2>1. overlapped' \in BOOLEAN
    BY DEF Start, TypeOK
  <2>2. UNCHANGED <<proc, inHook, child, owner, sink, lasted, reached>>
        /\ desired' = TRUE /\ early' = 0 /\ everLong' = FALSE /\ epoch' = epoch + 1
    BY DEF Start
  <2>3. epoch' \in 0..MaxStarts /\ early' \in 0..CountThreshold + 1
    BY <1>1, <2>2 DEF Epochs
  <2> QED BY <1>2, <2>1, <2>2, <2>3 DEF TypeOK, RunType
<1>6. NotRaised'
  BY <1>2 DEF Start, NotRaised, TypeOK, Epochs
<1>7. Registered'
  BY <1>2, <1>4 DEF Start, Registered, TypeOK, Epochs, None
<1>8. WantedIsIdle' /\ AliveIsLatest' /\ VictimKnown'
  BY <1>3 DEF Start, WantedIsIdle, AliveIsLatest, VictimKnown
<1> QED BY <1>5, <1>6, <1>7, <1>8

LEMMA StopKeeps == IInv /\ (Stop \/ Stopping) => IInv'
<1> SUFFICES ASSUME IInv, Stop \/ Stopping PROVE IInv'
  OBVIOUS
<1> USE DEF IInv, TypeOK, NotRaised, Registered, WantedIsIdle, AliveIsLatest, VictimKnown, fields,
        history, Idle, None
<1>0. Epochs \subseteq Nat \ {0} /\ epoch \in Epochs \cup {0}
  BY MaxStartsAssumption DEF Epochs
<1>1. CASE Stop
  BY <1>0, <1>1 DEF Stop
<1>2. CASE StopDetaches
  BY <1>0, <1>2 DEF StopDetaches
<1>3. CASE StopKills
  BY <1>0, <1>3 DEF StopKills
<1>4. CASE StopClears
  BY <1>0, <1>4 DEF StopClears
<1>5. CASE StopJoins
  BY <1>0, <1>5 DEF StopJoins
<1> QED BY <1>1, <1>2, <1>3, <1>4, <1>5 DEF Stopping

\* A run that has begun goes from place to place, with or without its history.
Moves(e) ==
  /\ runs' \in [Epochs -> RunType] /\ runs'[e].at # "none"
  /\ \A f \in Epochs \ {e} : runs'[f] = runs[f]
  /\ proc = e => runs'[e].at \in Up
  /\ UNCHANGED <<desired, epoch, proc, child, owner>>
  /\ early' \in 0..CountThreshold + 1 /\ everLong' \in BOOLEAN /\ inHook' \in BOOLEAN
  /\ sink' \in Epochs \cup {None} /\ UNCHANGED <<overlapped, lasted, reached>>

LEMMA MovesKeep == ASSUME IInv, NEW e \in Epochs, runs[e].at # "none", Moves(e) PROVE IInv'
BY MaxStartsAssumption
   DEF IInv, Moves, TypeOK, RunType, NotRaised, Registered, WantedIsIdle, AliveIsLatest, VictimKnown,
       Epochs, None

\* Where its process is registered a run goes on to wait for it.
LEMMA MovesOnly ==
  ASSUME TypeOK, Registered, NEW e \in Epochs,
         OpenLog(e) \/ GiveWay(e) \/ Hooks(e) \/ Decide(e)
  PROVE  runs[e].at # "none" /\ Moves(e)
<1>0. runs \in [Epochs -> RunType] /\ e # None
  BY MaxStartsAssumption DEF TypeOK, RunType, Epochs, None
<1>1. proc = e => runs[e].at \in Up
  BY <1>0 DEF Registered
<1>2. CASE OpenLog(e)
  <2>1. PICK place \in {"top", "over"} : Go(e, place)
    BY <1>2 DEF OpenLog
  <2> QED BY <1>1, <1>2, <2>1, GoPlaces DEF OpenLog, At, Up, Moves, Places, TypeOK, fields, history
<1>3. CASE GiveWay(e)
  BY <1>1, <1>3, GoPlaces DEF GiveWay, At, Up, Moves, Places, TypeOK, fields, history
<1>4. CASE EnterHook(e)
  <2>1. PICK hook \in {<<"start", "starting">>, <<"exit", "exiting">>, <<"flap", "flapping">>} :
          At(e, hook[1]) /\ Go(e, hook[2])
    BY <1>4 DEF EnterHook
  <2>2. hook[2] \in Places /\ runs[e].at = hook[1] /\ (hook[1] \in Up => hook[2] \in Up)
    BY <2>1 DEF Places, Up, At
  <2>3. /\ runs' \in [Epochs -> RunType] /\ runs'[e].at = hook[2]
        /\ \A f \in Epochs \ {e} : runs'[f] = runs[f]
    BY <2>1, <2>2, GoPlaces
  <2>4. hook[1] # "none" /\ hook[2] # "none"
    OBVIOUS
  <2> QED BY <1>1, <1>4, <2>2, <2>3, <2>4 DEF EnterHook, Moves, TypeOK, fields, history
<1>5. CASE OnStart(e)
  BY <1>1, <1>5, GoPlaces DEF OnStart, At, Up, Moves, Places, TypeOK, fields, history
<1>6. CASE OnExit(e)
  <2>1. PICK place \in {"decide", "over"} : Go(e, place)
    BY <1>6 DEF OnExit
  <2> QED BY <1>1, <1>6, <2>1, GoPlaces DEF OnExit, At, Up, Moves, Places, TypeOK, fields, history
<1>7. CASE OnFlapping(e)
  BY <1>1, <1>7, GoPlaces DEF OnFlapping, At, Up, Moves, Places, TypeOK, fields, history
<1>8. CASE Decide(e)
  <2>1. runs[e].at = "decide" /\ UNCHANGED <<desired, epoch, proc, child, owner, inHook, sink>>
        /\ UNCHANGED <<overlapped, lasted, reached>>
    BY <1>8 DEF Decide, At, history
  <2>2. PICK never \in BOOLEAN, place \in {"flap", "again"} :
          runs' = [runs EXCEPT ![e].never = never, ![e].at = place]
    BY <1>8, <1>0 DEF Decide, RunType, TypeOK
  <2>3. /\ runs' \in [Epochs -> RunType] /\ runs'[e].at = place
        /\ \A f \in Epochs \ {e} : runs'[f] = runs[f]
    <3> DEFINE s == [runs[e] EXCEPT !.never = never, !.at = place]
    <3>1. runs' = [runs EXCEPT ![e] = s]
      BY <2>2, <1>0
    <3>2. s \in RunType /\ s.at = place
      <4>1. runs[e] \in RunType /\ place \in Places /\ never \in BOOLEAN
        BY <1>0 DEF Places
      <4> QED BY <4>1, NeverFields
    <3> HIDE DEF s
    <3> QED BY <3>1, <3>2, <1>0, TwoFields
  <2>4. everLong' \in BOOLEAN /\ early' \in 0..CountThreshold + 1
    BY <1>8, CountThresholdAssumption DEF Decide, TypeOK
  <2>5. place # "none" /\ "decide" # "none" /\ "decide" \notin Up
    BY DEF Up
  <2> QED BY <1>1, <2>1, <2>3, <2>4, <2>5 DEF Moves, TypeOK
<1> QED BY <1>2, <1>3, <1>4, <1>5, <1>6, <1>7, <1>8 DEF Hooks

LEMMA SpawnKeeps == ASSUME IInv, NEW e \in Epochs, Spawn(e) PROVE IInv'
<1> USE DEF IInv
<1>0. runs \in [Epochs -> RunType] /\ e # None /\ runs[e].at = "top"
  BY MaxStartsAssumption DEF TypeOK, RunType, Epochs, None, Spawn, At
<1>1. \A f \in Epochs : child[f] = "alive" => f = e
  BY DEF Spawn, Wanted, AliveIsLatest
<1>2. CASE proc' = e /\ child' = [child EXCEPT ![e] = "alive"] /\ Go(e, "start") /\ reached' = reached \cup {e}
  <2>1. /\ runs' \in [Epochs -> RunType] /\ runs'[e].at = "start"
        /\ \A f \in Epochs \ {e} : runs'[f] = runs[f]
    BY <1>2, GoPlaces DEF Places
  <2>2. TypeOK'
    <3>1. UNCHANGED <<inHook, owner, sink, overlapped, lasted, desired, epoch, early, everLong>>
      BY DEF Spawn, fields
    <3>2. child' \in [Epochs -> {"none", "alive", "dead"}] /\ child'[e] = "alive"
      BY <1>2, ChildTypes
    <3>3. proc' = e /\ lasted' \subseteq Epochs /\ reached' \subseteq Epochs
      BY <1>2, <3>1 DEF TypeOK
    <3> QED BY <2>1, <3>1, <3>2, <3>3, TypesFollow
  <2>3. NotRaised' /\ Registered' /\ WantedIsIdle' /\ VictimKnown'
    BY <1>0, <1>2, <2>1 DEF Spawn, NotRaised, Registered, WantedIsIdle, VictimKnown, fields, Up
  <2>4. AliveIsLatest'
    BY <1>1, <1>2 DEF Spawn, Wanted, AliveIsLatest, TypeOK, fields
  <2> QED BY <2>2, <2>3, <2>4
<1>3. CASE runs' = [runs EXCEPT ![e].at = "ended", ![e].ran = "short"] /\ UNCHANGED <<proc, child, reached>>
  <2>1. /\ runs' \in [Epochs -> RunType] /\ runs'[e].at = "ended"
        /\ \A f \in Epochs \ {e} : runs'[f] = runs[f]
    <3> DEFINE s == [runs[e] EXCEPT !.at = "ended", !.ran = "short"]
    <3>1. runs' = [runs EXCEPT ![e] = s]
      BY <1>0, <1>3
    <3>2. s \in RunType /\ s.at = "ended"
      <4>1. runs[e] \in RunType /\ "ended" \in Places /\ "short" \in Durations
        BY <1>0 DEF Places, Durations
      <4> QED BY <4>1, RanFields
    <3> HIDE DEF s
    <3> QED BY <3>1, <3>2, <1>0, TwoFields
  <2>2. proc # e
    BY <1>0 DEF Registered, Up
  <2>3. Moves(e)
    BY <1>3, <2>1, <2>2 DEF Spawn, Moves, TypeOK, fields
  <2> QED BY <1>0, <2>3, MovesKeep
<1> QED BY <1>2, <1>3 DEF Spawn

LEMMA DieKeeps == ASSUME IInv, NEW e \in Epochs, Die(e) PROVE IInv'
<1> USE DEF IInv
<1>1. runs \in [Epochs -> RunType]
  BY DEF TypeOK, RunType
<1>2. PICK d \in Durations : runs' = [runs EXCEPT ![e].ran = d]
  BY DEF Die
<1>3. runs' \in [Epochs -> RunType] /\ \A f \in Epochs : runs'[f].at = runs[f].at
  BY <1>1, <1>2 DEF RunType
<1>4. child' = [child EXCEPT ![e] = "dead"] /\ lasted' \subseteq Epochs
  BY DEF Die, TypeOK
<1> QED BY <1>3, <1>4 DEF Die, TypeOK, RunType, NotRaised, Registered, WantedIsIdle, AliveIsLatest,
                          VictimKnown, fields, None

\* An attempt that is over has no process that lives.
LEMMA EndedKeeps == ASSUME IInv, NEW e \in Epochs, Ended(e) PROVE IInv'
<1> USE DEF IInv
<1>0. runs \in [Epochs -> RunType] /\ e # None /\ runs[e].at # "none"
  BY MaxStartsAssumption DEF TypeOK, RunType, Epochs, None, Ended, AttemptOver, At
<1>1. child[e] # "alive"
  BY <1>0 DEF Ended, AttemptOver, At, AliveIsLatest, Registered, Up
<1>2. /\ runs' \in [Epochs -> RunType] /\ runs'[e].at # "none"
      /\ \A f \in Epochs \ {e} : runs'[f] = runs[f]
  <2>1. CASE epoch = e
    BY <1>0, <2>1 DEF Ended, RunType, Places, Wanted, TypeOK
  <2>2. CASE epoch # e
    BY <2>2, GoPlaces DEF Ended, Places
  <2> QED BY <2>1, <2>2
<1>3. TypeOK'
  BY <1>2 DEF Ended, TypeOK, RunType, fields, history, None
<1>4. NotRaised'
  BY <1>0, <1>2 DEF Ended, NotRaised, fields
<1>5. Registered'
  BY <1>2 DEF Ended, Registered, TypeOK, None
<1>6. AliveIsLatest' /\ WantedIsIdle' /\ VictimKnown'
  BY <1>1 DEF Ended, AliveIsLatest, WantedIsIdle, VictimKnown, fields
<1> QED BY <1>3, <1>4, <1>5, <1>6

LEMMA AgainKeeps == ASSUME IInv, NEW e \in Epochs, Again(e) PROVE IInv'
<1> USE DEF IInv
<1>0. runs \in [Epochs -> RunType] /\ e # None /\ runs[e].at = "again"
  BY MaxStartsAssumption DEF TypeOK, RunType, Epochs, None, Again, At
<1>1. proc # e
  BY <1>0 DEF Registered, Up
<1>2. PICK place \in {"top", "over"} : Go(e, place)
  BY DEF Again
<1>3. /\ runs' \in [Epochs -> RunType] /\ runs'[e].at # "none"
      /\ \A f \in Epochs \ {e} : runs'[f] = runs[f]
  BY <1>2, GoPlaces DEF Places
<1>4. TypeOK'
  <2>1. UNCHANGED <<inHook, owner, sink, overlapped, proc, lasted, reached, desired, epoch, early, everLong>>
    BY DEF Again, fields, history
  <2>2. child' = [child EXCEPT ![e] = "none"]
    BY DEF Again
  <2>3. child' \in [Epochs -> {"none", "alive", "dead"}] /\ \A d \in Epochs : d # e => child'[d] = child[d]
    BY <2>2, ChildTypes
  <2>4. proc' \in Epochs \cup {None} /\ lasted' \subseteq Epochs /\ reached' \subseteq Epochs
    BY <2>1 DEF TypeOK
  <2>5. proc' # None => child'[proc'] # "none"
    BY <1>1, <2>1, <2>3 DEF TypeOK
  <2> QED BY <1>3, <2>1, <2>3, <2>4, <2>5, TypesFollow
<1>5. NotRaised' /\ Registered' /\ WantedIsIdle' /\ AliveIsLatest' /\ VictimKnown'
  BY <1>0, <1>1, <1>3 DEF Again, NotRaised, Registered, WantedIsIdle, AliveIsLatest, VictimKnown,
     TypeOK, fields, None
<1> QED BY <1>4, <1>5

LEMMA Inductive == IInv /\ [Next]_vars => IInv'
<1> SUFFICES ASSUME IInv, [Next]_vars PROVE IInv'
  OBVIOUS
<1>1. CASE Start
  BY <1>1, StartKeeps
<1>2. CASE Stop \/ Stopping
  BY <1>2, StopKeeps
<1>3. CASE \E e \in Epochs : Run(e) \/ Die(e)
  <2>1. PICK e \in Epochs : Run(e) \/ Die(e)
    BY <1>3
  <2>2. CASE OpenLog(e) \/ GiveWay(e) \/ Hooks(e) \/ Decide(e)
    BY <2>2, MovesOnly, MovesKeep DEF IInv
  <2>3. CASE Spawn(e)
    BY <2>3, SpawnKeeps
  <2>4. CASE Ended(e)
    BY <2>4, EndedKeeps
  <2>5. CASE Again(e)
    BY <2>5, AgainKeeps
  <2>6. CASE Die(e)
    BY <2>6, DieKeeps
  <2> QED BY <2>1, <2>2, <2>3, <2>4, <2>5, <2>6 DEF Run
<1>4. CASE UNCHANGED vars
  BY <1>4 DEF vars, IInv, TypeOK, NotRaised, Registered, WantedIsIdle, AliveIsLatest, VictimKnown
<1> QED BY <1>1, <1>2, <1>3, <1>4 DEF Next

LEMMA Always == Spec => []IInv
BY Initially, Inductive, PTL DEF Spec

\* Every variable of the supervisor keeps its type, and the process it has registered
\* was spawned (proc/supervisor.go).
THEOREM TypeCorrect == Spec => []TypeOK
<1>1. IInv => TypeOK
  BY DEF IInv
<1> QED BY <1>1, Always, PTL

\* Once Stop has returned nothing runs and nothing comes up later: the only process that
\* is ever alive outside of Stop is that of the run that is wanted (Stop, runSupervised).
THEOREM NothingOutlivesStop == Spec => []StoppedMeansDead
<1>1. IInv => StoppedMeansDead
  BY DEF IInv, AliveIsLatest, StoppedMeansDead, Wanted, Idle
<1> QED BY <1>1, Always, PTL

----------------------------------------------------------------------------
(* The native push.                                                        *)

\* What lives was published a moment ago and not looked at yet, or is the connection of
\* the latest run, registered, and either wanted or about to be torn down.
AliveIsKnown ==
  \A e \in Epochs : child[e] = "alive" =>
    \/ runs[e].at = "published"
    \/ /\ proc = e /\ epoch = e
       /\ desired \/ (owner.at \in {"detach", "kill"} /\ owner.victim = e)

\* A connection that nobody has looked at is there, though it may have broken.
PublishedIsThere == \A e \in Epochs : runs[e].at = "published" => child[e] # "none"

PInv == TypeOK /\ NotRaised /\ Registered /\ WantedIsIdle /\ AliveIsKnown /\ PublishedIsThere

LEMMA PushInitially == Init => PInv
BY Initially DEF Init, IInv, PInv, AliveIsKnown, PublishedIsThere, NewRun

LEMMA PushStartKeeps == PInv /\ Start => PInv'
<1> SUFFICES ASSUME PInv, Start PROVE PInv'
  OBVIOUS
<1> USE MaxStartsAssumption, CountThresholdAssumption DEF PInv
<1>1. epoch + 1 \in Epochs /\ "begin" \in Places /\ epoch \in Nat
  BY DEF Start, TypeOK, Epochs, Places
<1>2. /\ runs' \in [Epochs -> RunType]
      /\ runs'[epoch + 1].at = "begin"
      /\ \A f \in Epochs \ {epoch + 1} : runs'[f] = runs[f]
  BY <1>1, GoPlaces DEF Start
<1>3. runs[epoch + 1].at = "none"
  BY <1>1 DEF NotRaised
<1>4. proc # epoch + 1
  BY <1>1, <1>3 DEF Registered, None, Up
<1>5. \A e \in Epochs : child[e] = "alive" => runs[e].at = "published" /\ e # epoch + 1
  BY <1>3 DEF Start, AliveIsKnown, Idle
<1>6. UNCHANGED <<proc, inHook, child, owner, sink, lasted, reached>>
      /\ desired' = TRUE /\ early' = 0 /\ everLong' = FALSE /\ epoch' = epoch + 1 /\ owner = Idle
  BY DEF Start
<1>7. TypeOK'
  <2>1. overlapped' \in BOOLEAN
    BY DEF Start, TypeOK
  <2>2. epoch' \in 0..MaxStarts /\ early' \in 0..CountThreshold + 1
    BY <1>1, <1>6 DEF Epochs
  <2> QED BY <1>2, <1>6, <2>1, <2>2 DEF TypeOK, RunType
<1>8. NotRaised'
  BY <1>1, <1>2, <1>6 DEF NotRaised, Epochs
<1>9. Registered'
  BY <1>2, <1>4, <1>6 DEF Registered, TypeOK, None
<1>10. WantedIsIdle' /\ AliveIsKnown' /\ PublishedIsThere'
  BY <1>2, <1>5, <1>6 DEF WantedIsIdle, AliveIsKnown, PublishedIsThere
<1> QED BY <1>7, <1>8, <1>9, <1>10

LEMMA PushStopKeeps == PInv /\ (PushStop \/ PushStopping) => PInv'
<1> SUFFICES ASSUME PInv, PushStop \/ PushStopping PROVE PInv'
  OBVIOUS
<1> USE DEF PInv, TypeOK, NotRaised, Registered, WantedIsIdle, AliveIsKnown, PublishedIsThere, fields,
        history, Idle, None
<1>0. Epochs \subseteq Nat \ {0} /\ epoch \in Epochs \cup {0}
  BY MaxStartsAssumption DEF Epochs
<1>1. CASE PushStop
  BY <1>0, <1>1 DEF PushStop
<1>2. CASE PushStopDetaches
  BY <1>0, <1>2 DEF PushStopDetaches
<1>3. CASE PushStopTearsDown
  BY <1>0, <1>3 DEF PushStopTearsDown
<1>4. CASE PushStopJoins
  BY <1>0, <1>4 DEF PushStopJoins
<1> QED BY <1>1, <1>2, <1>3, <1>4 DEF PushStopping

\* A run that moves is not one with a connection nobody has looked at.
LEMMA PushMovesKeep ==
  ASSUME PInv, NEW e \in Epochs, runs[e].at \notin {"none", "published"},
         runs'[e].at # "published", Moves(e)
  PROVE  PInv'
<1> USE DEF PInv, Moves
<1>1. TypeOK'
  BY DEF TypeOK, RunType
<1>2. NotRaised' /\ WantedIsIdle' /\ PublishedIsThere'
  BY DEF NotRaised, WantedIsIdle, PublishedIsThere
<1>3. Registered'
  BY DEF Registered, TypeOK, None
<1>4. AliveIsKnown'
  BY DEF AliveIsKnown
<1> QED BY <1>1, <1>2, <1>3, <1>4

LEMMA PublishedPlace ==
  ASSUME TypeOK, NEW e \in Epochs, Hooks(e) \/ Decide(e)
  PROVE  runs[e].at # "published" /\ runs'[e].at # "published"
<1>0. runs \in [Epochs -> RunType]
  BY DEF TypeOK, RunType
<1>1. CASE Decide(e)
  BY <1>0, <1>1 DEF Decide, At, RunType
<1>2. CASE Hooks(e)
  <2>1. PICK place \in {"starting", "exiting", "flapping", "wait", "decide", "over", "again"} : Go(e, place)
    BY <1>2 DEF Hooks, EnterHook, OnStart, OnExit, OnFlapping
  <2>2. runs'[e].at # "published"
    BY <2>1, GoPlaces DEF Places
  <2>3. runs[e].at # "published"
    BY <1>2 DEF Hooks, EnterHook, OnStart, OnExit, OnFlapping, At
  <2> QED BY <2>2, <2>3
<1> QED BY <1>1, <1>2

LEMMA AttemptKeeps == ASSUME PInv, NEW e \in Epochs, Attempt(e) PROVE PInv'
<1> USE DEF PInv
<1>0. runs \in [Epochs -> RunType] /\ e # None
  BY MaxStartsAssumption DEF TypeOK, RunType, Epochs, None
<1>1. CASE Dial(e)
  <2>1. PICK place \in {"connecting", "over"} : Go(e, place)
    BY <1>1 DEF Dial
  <2>2. runs[e].at \in {"begin", "top"}
    BY <1>1 DEF Dial, At
  <2>3. proc # e
    BY <1>0, <2>2 DEF Registered, Up
  <2>4. Moves(e)
    BY <1>1, <2>1, <2>3, GoPlaces DEF Dial, Moves, Places, TypeOK, fields, history
  <2>5. runs'[e].at # "published"
    BY <2>1, GoPlaces DEF Places
  <2> QED BY <2>2, <2>4, <2>5, PushMovesKeep
<1>2. CASE Refused(e)
  <2>1. PICK d \in Durations :
          /\ runs' = [runs EXCEPT ![e].at = "ended", ![e].ran = d]
          /\ lasted' = IF d = "long" THEN lasted \cup {e} ELSE lasted
    BY <1>2 DEF Refused
  <2>2. /\ runs' \in [Epochs -> RunType] /\ runs'[e].at = "ended"
        /\ \A f \in Epochs \ {e} : runs'[f] = runs[f]
    <3> DEFINE s == [runs[e] EXCEPT !.at = "ended", !.ran = d]
    <3>1. runs' = [runs EXCEPT ![e] = s]
      BY <1>0, <2>1
    <3>2. s \in RunType /\ s.at = "ended"
      <4>1. runs[e] \in RunType /\ "ended" \in Places /\ d \in Durations
        BY <1>0, <2>1 DEF Places
      <4> QED BY <4>1, RanFields
    <3> HIDE DEF s
    <3> QED BY <3>1, <3>2, <1>0, TwoFields
  <2>3. runs[e].at = "connecting"
    BY <1>2 DEF Refused, At
  <2>4. proc # e
    BY <1>0, <2>3 DEF Registered, Up
  <2>5. UNCHANGED <<proc, inHook, child, owner, sink, overlapped, reached, desired, epoch, early, everLong>>
        /\ lasted' \subseteq Epochs
    BY <1>2, <2>1 DEF Refused, fields, TypeOK
  <2>6. TypeOK'
    BY <2>2, <2>5, TypesFollow DEF TypeOK
  <2>7. NotRaised' /\ Registered' /\ WantedIsIdle'
    BY <2>2, <2>3, <2>4, <2>5 DEF TypeOK, NotRaised, Registered, WantedIsIdle, None
  <2>8. AliveIsKnown' /\ PublishedIsThere'
    BY <2>2, <2>3, <2>4, <2>5 DEF TypeOK, AliveIsKnown, PublishedIsThere
  <2> QED BY <2>6, <2>7, <2>8
<1>3. CASE Published(e)
  <2>1. /\ runs' \in [Epochs -> RunType] /\ runs'[e].at = "published"
        /\ \A f \in Epochs \ {e} : runs'[f] = runs[f]
    BY <1>3, GoPlaces DEF Published, Places
  <2>2. runs[e].at = "connecting"
    BY <1>3 DEF Published, At
  <2>3. proc # e
    BY <1>0, <2>2 DEF Registered, Up
  <2>4. /\ child' = [child EXCEPT ![e] = "alive"] /\ reached' = reached \cup {e}
        /\ UNCHANGED <<proc, inHook, owner, sink, overlapped, lasted, desired, epoch, early, everLong>>
    BY <1>3 DEF Published, fields
  <2>5. TypeOK'
    BY <2>1, <2>4 DEF TypeOK, RunType
  <2>6. NotRaised' /\ Registered' /\ WantedIsIdle'
    BY <2>1, <2>2, <2>3, <2>4 DEF NotRaised, Registered, WantedIsIdle, TypeOK, None
  <2>7. AliveIsKnown' /\ PublishedIsThere'
    BY <2>1, <2>4 DEF AliveIsKnown, PublishedIsThere, TypeOK
  <2> QED BY <2>5, <2>6, <2>7
<1>4. CASE Register(e)
  <2>1. runs[e].at = "published" /\ UNCHANGED <<inHook, owner, sink, overlapped, lasted, reached, desired, epoch,
                                               early, everLong>>
    BY <1>4 DEF Register, At, fields, history
  <2>2. proc # e
    BY <1>0, <2>1 DEF Registered, Up
  <2>3. CASE Wanted(e)
    <3>1. proc' = e /\ child' = child /\ Go(e, "start")
      BY <1>4, <2>3 DEF Register
    <3>2. /\ runs' \in [Epochs -> RunType] /\ runs'[e].at = "start"
          /\ \A f \in Epochs \ {e} : runs'[f] = runs[f]
      BY <3>1, GoPlaces DEF Places
    <3>3. \A f \in Epochs : child[f] = "alive" => f = e \/ runs[f].at = "published"
      BY <2>2, <2>3 DEF AliveIsKnown, Wanted
    <3>4. desired /\ epoch = e
      BY <2>3 DEF Wanted
    <3>5. AliveIsKnown'
      BY <2>1, <3>1, <3>2, <3>3, <3>4 DEF AliveIsKnown
    <3>6. NotRaised' /\ Registered' /\ WantedIsIdle' /\ PublishedIsThere'
      BY <2>1, <3>1, <3>2 DEF NotRaised, Registered, WantedIsIdle, PublishedIsThere, Up
    <3>7. TypeOK'
      BY <2>1, <3>1, <3>2 DEF TypeOK, RunType, PublishedIsThere
    <3> QED BY <3>5, <3>6, <3>7
  <2>4. CASE ~Wanted(e)
    <3>1. proc' = proc /\ child' = [child EXCEPT ![e] = "dead"] /\ Go(e, "over")
      BY <1>4, <2>4 DEF Register
    <3>2. /\ runs' \in [Epochs -> RunType] /\ runs'[e].at = "over"
          /\ \A f \in Epochs \ {e} : runs'[f] = runs[f]
      BY <3>1, GoPlaces DEF Places
    <3>3. TypeOK'
      <4>1. child' \in [Epochs -> {"none", "alive", "dead"}] /\ child'[e] = "dead"
            /\ \A d \in Epochs : d # e => child'[d] = child[d]
        BY <3>1, ChildTypes
      <4>2. proc' \in Epochs \cup {None} /\ lasted' \subseteq Epochs /\ reached' \subseteq Epochs
        BY <2>1, <3>1 DEF TypeOK
      <4>3. proc' # None => child'[proc'] # "none"
        BY <3>1, <4>1 DEF TypeOK
      <4> QED BY <2>1, <3>2, <4>1, <4>2, <4>3, TypesFollow
    <3>4. NotRaised' /\ Registered' /\ WantedIsIdle' /\ AliveIsKnown' /\ PublishedIsThere'
      BY <2>1, <2>2, <3>1, <3>2 DEF NotRaised, Registered, WantedIsIdle, AliveIsKnown, PublishedIsThere,
                                    TypeOK, None
    <3> QED BY <3>3, <3>4
  <2> QED BY <2>3, <2>4
<1> QED BY <1>1, <1>2, <1>3, <1>4 DEF Attempt

LEMMA PushDieKeeps == ASSUME PInv, NEW e \in Epochs, Die(e) PROVE PInv'
<1> USE DEF PInv
<1>1. runs \in [Epochs -> RunType]
  BY DEF TypeOK, RunType
<1>2. PICK d \in Durations : runs' = [runs EXCEPT ![e].ran = d]
  BY DEF Die
<1>3. runs' \in [Epochs -> RunType] /\ \A f \in Epochs : runs'[f].at = runs[f].at
  BY <1>1, <1>2 DEF RunType
<1>4. child' = [child EXCEPT ![e] = "dead"] /\ lasted' \subseteq Epochs
  BY DEF Die, TypeOK
<1> QED BY <1>3, <1>4 DEF Die, TypeOK, RunType, NotRaised, Registered, WantedIsIdle, AliveIsKnown,
                          PublishedIsThere, fields, None

LEMMA PushEndedKeeps == ASSUME PInv, NEW e \in Epochs, Ended(e) PROVE PInv'
<1> USE DEF PInv
<1>0. runs \in [Epochs -> RunType] /\ e # None /\ runs[e].at \in {"ended", "wait"}
  BY MaxStartsAssumption DEF TypeOK, RunType, Epochs, None, Ended, AttemptOver, At
<1>1. child[e] # "alive"
  BY <1>0 DEF Ended, AttemptOver, At, AliveIsKnown, Registered, Up
<1>2. /\ runs' \in [Epochs -> RunType] /\ runs'[e].at \notin {"none", "published"}
      /\ \A f \in Epochs \ {e} : runs'[f] = runs[f]
  <2>1. CASE epoch = e
    BY <1>0, <2>1 DEF Ended, RunType, Places, Wanted, TypeOK
  <2>2. CASE epoch # e
    BY <2>2, GoPlaces DEF Ended, Places
  <2> QED BY <2>1, <2>2
<1>3. TypeOK'
  BY <1>2 DEF Ended, TypeOK, RunType, fields, history, None
<1>4. NotRaised'
  BY <1>0, <1>2 DEF Ended, NotRaised, fields
<1>5. Registered'
  BY <1>2 DEF Ended, Registered, TypeOK, None
<1>6. AliveIsKnown' /\ WantedIsIdle' /\ PublishedIsThere'
  BY <1>1, <1>2 DEF Ended, AliveIsKnown, WantedIsIdle, PublishedIsThere, fields
<1> QED BY <1>3, <1>4, <1>5, <1>6

LEMMA PushAgainKeeps == ASSUME PInv, NEW e \in Epochs, Again(e) PROVE PInv'
<1> USE DEF PInv
<1>0. runs \in [Epochs -> RunType] /\ e # None /\ runs[e].at = "again"
  BY MaxStartsAssumption DEF TypeOK, RunType, Epochs, None, Again, At
<1>1. proc # e
  BY <1>0 DEF Registered, Up
<1>2. PICK place \in {"top", "over"} : Go(e, place)
  BY DEF Again
<1>3. /\ runs' \in [Epochs -> RunType] /\ runs'[e].at \notin {"none", "published"}
      /\ \A f \in Epochs \ {e} : runs'[f] = runs[f]
  BY <1>2, GoPlaces DEF Places
<1>4. TypeOK'
  <2>1. UNCHANGED <<inHook, owner, sink, overlapped, proc, lasted, reached, desired, epoch, early, everLong>>
    BY DEF Again, fields, history
  <2>2. child' = [child EXCEPT ![e] = "none"]
    BY DEF Again
  <2>3. child' \in [Epochs -> {"none", "alive", "dead"}] /\ \A d \in Epochs : d # e => child'[d] = child[d]
    BY <2>2, ChildTypes
  <2>4. proc' \in Epochs \cup {None} /\ lasted' \subseteq Epochs /\ reached' \subseteq Epochs
    BY <2>1 DEF TypeOK
  <2>5. proc' # None => child'[proc'] # "none"
    BY <1>1, <2>1, <2>3 DEF TypeOK
  <2> QED BY <1>3, <2>1, <2>3, <2>4, <2>5, TypesFollow
<1>5. NotRaised' /\ Registered' /\ WantedIsIdle' /\ AliveIsKnown' /\ PublishedIsThere'
  BY <1>0, <1>1, <1>3 DEF Again, NotRaised, Registered, WantedIsIdle, AliveIsKnown, PublishedIsThere, TypeOK,
                          fields, None
<1> QED BY <1>4, <1>5

LEMMA PushInductive == PInv /\ [PushNext]_vars => PInv'
<1> SUFFICES ASSUME PInv, [PushNext]_vars PROVE PInv'
  OBVIOUS
<1>1. CASE Start
  BY <1>1, PushStartKeeps
<1>2. CASE PushStop \/ PushStopping
  BY <1>2, PushStopKeeps
<1>3. CASE \E e \in Epochs : PushRun(e) \/ Die(e)
  <2>1. PICK e \in Epochs : PushRun(e) \/ Die(e)
    BY <1>3
  <2>2. CASE Hooks(e) \/ Decide(e)
    BY <2>2, MovesOnly, PublishedPlace, PushMovesKeep DEF PInv
  <2>3. CASE Attempt(e)
    BY <2>3, AttemptKeeps
  <2>4. CASE Ended(e)
    BY <2>4, PushEndedKeeps
  <2>5. CASE Again(e)
    BY <2>5, PushAgainKeeps
  <2>6. CASE Die(e)
    BY <2>6, PushDieKeeps
  <2> QED BY <2>1, <2>2, <2>3, <2>4, <2>5, <2>6 DEF PushRun
<1>4. CASE UNCHANGED vars
  BY <1>4 DEF vars, PInv, TypeOK, NotRaised, Registered, WantedIsIdle, AliveIsKnown, PublishedIsThere
<1> QED BY <1>1, <1>2, <1>3, <1>4 DEF PushNext

LEMMA PushAlways == PushSpec => []PInv
BY PushInitially, PushInductive, PTL DEF PushSpec

\* Once Stop has returned no connection is in use, and one that a late run has made was not
\* looked at yet (egress/rtmp_push.go: Stop, runSupervised).
THEOREM NothingInUse == PushSpec => []NoneInUse
<1>1. PInv => NoneInUse
  <2> SUFFICES ASSUME PInv, owner = Idle, ~desired, NEW e \in Epochs, child[e] = "alive"
               PROVE  runs[e].at = "published" /\ proc # e
    BY DEF NoneInUse, At
  <2>1. runs[e].at = "published"
    BY DEF PInv, AliveIsKnown, Idle
  <2>2. e # None
    BY MaxStartsAssumption DEF Epochs, None
  <2>3. proc = e => runs[e].at \in Up
    BY <2>2 DEF PInv, Registered
  <2> QED BY <2>1, <2>3 DEF Up
<1> QED BY <1>1, PushAlways, PTL

\* While it is wanted, what a push client has registered is the connection of its latest
\* run, or one that is dead (runSupervised).
THEOREM CurrentRegistered == PushSpec => []OnlyCurrentRegistered
<1>1. PInv => OnlyCurrentRegistered
  BY MaxStartsAssumption DEF PInv, TypeOK, AliveIsKnown, OnlyCurrentRegistered, Registered, Up, Idle, None
<1> QED BY <1>1, PushAlways, PTL

\* Both together: one connection is in use, of the run that is wanted, if any is
\* (runSupervised, Stop).
THEOREM OneIsInUse == PushSpec => []OneInUse
BY NothingInUse, CurrentRegistered, PTL DEF OneInUse

----------------------------------------------------------------------------
(* What both supervisors know of the sink. A hook sets or clears it without *)
(* the lock, so that two runs could undo each other's work; with one run   *)
(* going on the order of its own steps is all that counts.                 *)

\* As long as none was raised beside another, the runs before the latest are over.
OneGoesOn == ~overlapped => \A e \in Epochs : e < epoch => runs[e].at = "over"

\* The run that waits for its process has attached it.
WaitingIsFed ==
  epoch # 0 /\ ~overlapped /\ desired /\ runs[epoch].at = "wait" => sink = epoch

FInv == OneGoesOn /\ WaitingIsFed

LEMMA StartFeeds == TypeOK /\ FInv /\ Start => FInv'
<1> SUFFICES ASSUME TypeOK, FInv, Start PROVE FInv'
  OBVIOUS
<1>1. epoch + 1 \in Epochs /\ "begin" \in Places /\ epoch \in Nat /\ epoch' = epoch + 1
  BY MaxStartsAssumption DEF Start, TypeOK, Epochs, Places
<1>2. /\ runs'[epoch + 1].at = "begin"
      /\ \A f \in Epochs \ {epoch + 1} : runs'[f] = runs[f]
  BY <1>1, GoPlaces DEF Start
<1>3. ~overlapped' => \A e \in 1..epoch : runs[e].at = "over"
  BY DEF Start, At
<1>4. OneGoesOn'
  BY <1>1, <1>2, <1>3 DEF OneGoesOn, Epochs
<1>5. WaitingIsFed'
  BY <1>1, <1>2 DEF WaitingIsFed
<1> QED BY <1>4, <1>5 DEF FInv

\* A step that leaves the sink alone and takes no run to its waiting place.
LEMMA QuietFeeds ==
  ASSUME FInv, UNCHANGED <<epoch, overlapped, sink>>, desired' => desired,
         \A e \in Epochs : runs[e].at = "over" => runs'[e].at = "over",
         \A e \in Epochs : runs'[e].at = "wait" => runs[e].at = "wait",
         epoch \in Epochs \cup {0}
  PROVE  FInv'
<1>1. epoch' = epoch /\ sink' = sink /\ (~overlapped' => ~overlapped)
  OBVIOUS
<1>2. OneGoesOn'
  <2> SUFFICES ASSUME ~overlapped', NEW e \in Epochs, e < epoch PROVE runs'[e].at = "over"
    BY <1>1 DEF OneGoesOn
  <2>1. runs[e].at = "over"
    BY <1>1 DEF FInv, OneGoesOn
  <2> QED BY <2>1
<1>3. WaitingIsFed'
  <2> SUFFICES ASSUME epoch # 0, ~overlapped', desired', runs'[epoch].at = "wait"
               PROVE  sink = epoch
    BY <1>1 DEF WaitingIsFed
  <2>1. epoch \in Epochs
    OBVIOUS
  <2>2. runs[epoch].at = "wait" /\ desired
    BY <2>1
  <2> QED BY <1>1, <2>2 DEF FInv, WaitingIsFed
<1> QED BY <1>2, <1>3 DEF FInv

LEMMA StoppingFeeds ==
  ASSUME TypeOK, WantedIsIdle, FInv, Stop \/ Stopping \/ PushStop \/ PushStopping
  PROVE  FInv'
<1>0. epoch \in Epochs \cup {0}
  BY MaxStartsAssumption DEF TypeOK, Epochs
<1>1. CASE UNCHANGED <<epoch, overlapped, sink, runs>> /\ (desired' => desired)
  BY <1>0, <1>1, QuietFeeds
<1>2. CASE StopDetaches \/ PushStopDetaches
  <2>1. ~desired /\ UNCHANGED <<desired, epoch, overlapped, runs>>
    BY <1>2 DEF StopDetaches, PushStopDetaches, WantedIsIdle, Idle, fields, history
  <2> QED BY <2>1 DEF FInv, OneGoesOn, WaitingIsFed
<1> QED BY <1>1, <1>2
        DEF Stop, Stopping, StopKills, StopClears, StopJoins, PushStop, PushStopping,
            PushStopTearsDown, PushStopJoins, fields, history

\* While only one run goes on, a run in a hook is the latest.
LEMMA HookIsLatest ==
  ASSUME TypeOK, NotRaised, FInv, NEW e \in Epochs, runs[e].at \notin {"none", "over"}, ~overlapped
  PROVE  e = epoch
<1>1. e \in Nat /\ epoch \in Nat
  BY MaxStartsAssumption DEF TypeOK, Epochs
<1>2. ~(e < epoch) /\ ~(e > epoch)
  BY DEF FInv, OneGoesOn, NotRaised
<1> QED BY <1>1, <1>2

LEMMA RunFeeds ==
  ASSUME TypeOK, NotRaised, FInv, NEW e \in Epochs,
         Run(e) \/ PushRun(e) \/ Die(e)
  PROVE  FInv'
<1>0. /\ epoch \in Epochs \cup {0} /\ runs \in [Epochs -> RunType]
      /\ UNCHANGED <<desired, epoch, overlapped>>
  BY MaxStartsAssumption
  DEF TypeOK, RunType, Epochs, Run, PushRun, Attempt, Die, OpenLog, Spawn, GiveWay, Ended, Decide, Again,
      Hooks, EnterHook, OnStart, OnExit, OnFlapping, Dial, Refused, Published, Register, fields, history
<1> DEFINE Elsewhere == Places \ {"none", "wait"}
<1>1. CASE Hooks(e) /\ ~OnStart(e) /\ ~OnExit(e)
  <2>1. PICK place \in {"starting", "exiting", "flapping", "again"} : Go(e, place)
    BY <1>1 DEF Hooks, EnterHook, OnFlapping
  <2>2. runs'[e].at # "wait" /\ \A f \in Epochs \ {e} : runs'[f] = runs[f]
    BY <2>1, GoPlaces DEF Places
  <2>3. runs[e].at # "over" /\ sink' = sink
    BY <1>1 DEF Hooks, EnterHook, OnFlapping, At
  <2> QED BY <1>0, <2>2, <2>3, QuietFeeds
<1>2. CASE OnStart(e)
  <2>1. /\ runs[e].at = "starting" /\ sink' = e /\ runs'[e].at = "wait"
        /\ \A f \in Epochs \ {e} : runs'[f] = runs[f]
    BY <1>2, GoPlaces DEF OnStart, At, Places
  <2>2. OneGoesOn'
    BY <1>0, <2>1 DEF FInv, OneGoesOn
  <2>3. ~overlapped => sink' = epoch
    BY <2>1, HookIsLatest
  <2>4. WaitingIsFed'
    BY <1>0, <2>3 DEF WaitingIsFed
  <2> QED BY <2>2, <2>4 DEF FInv
<1>3. CASE OnExit(e)
  <2>1. PICK place \in {"decide", "over"} : Go(e, place)
    BY <1>3 DEF OnExit
  <2>2. /\ runs[e].at = "exiting" /\ runs'[e].at = place
        /\ \A f \in Epochs \ {e} : runs'[f] = runs[f]
    BY <1>3, <2>1, GoPlaces DEF OnExit, At, Places
  <2>3. OneGoesOn'
    BY <1>0, <2>2 DEF FInv, OneGoesOn
  <2>4. ~overlapped => runs'[epoch].at # "wait"
    BY <2>2, HookIsLatest
  <2>5. WaitingIsFed'
    BY <1>0, <2>4 DEF WaitingIsFed
  <2> QED BY <2>3, <2>5 DEF FInv
<1>4. CASE Decide(e)
  <2>1. PICK place \in {"flap", "again"}, never \in BOOLEAN :
          runs' = [runs EXCEPT ![e].never = never, ![e].at = place]
    BY <1>0, <1>4 DEF Decide, RunType, TypeOK
  <2>2. runs'[e].at = place /\ \A f \in Epochs \ {e} : runs'[f] = runs[f]
    BY <1>0, <2>1 DEF RunType
  <2>3. runs[e].at = "decide" /\ sink' = sink
    BY <1>4 DEF Decide, At
  <2> QED BY <1>0, <2>2, <2>3, QuietFeeds
<1>5. CASE Die(e)
  <2>1. sink' = sink /\ \A f \in Epochs : runs'[f].at = runs[f].at
    BY <1>0, <1>5 DEF Die, RunType
  <2> QED BY <1>0, <2>1, QuietFeeds
<1>6. CASE Ended(e)
  <2>1. PICK place \in {"exit", "over"} : runs'[e].at = place /\ \A f \in Epochs \ {e} : runs'[f] = runs[f]
    <3>1. CASE epoch = e
      BY <1>0, <1>6, <3>1 DEF Ended, RunType
    <3>2. CASE epoch # e
      BY <1>6, <3>2, GoPlaces DEF Ended, Places
    <3> QED BY <3>1, <3>2
  <2>2. runs[e].at # "over" /\ sink' = sink
    BY <1>6 DEF Ended, AttemptOver, At
  <2> QED BY <1>0, <2>1, <2>2, QuietFeeds
<1>7. CASE OpenLog(e) \/ Spawn(e) \/ GiveWay(e) \/ Again(e) \/ Attempt(e)
  <2>1. runs[e].at # "over" /\ sink' = sink
    BY <1>7 DEF OpenLog, Spawn, GiveWay, Again, Attempt, Dial, Refused, Published, Register, At
  <2>2. CASE \E place \in Elsewhere : Go(e, place)
    <3>1. runs'[e].at # "wait" /\ \A f \in Epochs \ {e} : runs'[f] = runs[f]
      BY <2>2, GoPlaces
    <3> QED BY <1>0, <2>1, <3>1, QuietFeeds
  <2>3. CASE \E d \in Durations : runs' = [runs EXCEPT ![e].at = "ended", ![e].ran = d]
    <3>1. runs'[e].at # "wait" /\ \A f \in Epochs \ {e} : runs'[f] = runs[f]
      BY <1>0, <2>3 DEF RunType
    <3> QED BY <1>0, <2>1, <3>1, QuietFeeds
  <2>4. \/ \E place \in Elsewhere : Go(e, place)
        \/ \E d \in Durations : runs' = [runs EXCEPT ![e].at = "ended", ![e].ran = d]
    BY <1>7 DEF OpenLog, Spawn, GiveWay, Again, Attempt, Dial, Refused, Published, Register, Places, Durations
  <2> QED BY <2>2, <2>3, <2>4
<1> QED BY <1>1, <1>2, <1>3, <1>4, <1>5, <1>6, <1>7 DEF Run, PushRun

LEMMA InitiallyFed == Init => FInv
BY MaxStartsAssumption DEF Init, FInv, OneGoesOn, WaitingIsFed, Epochs

LEMMA NextFeeds == TypeOK /\ NotRaised /\ WantedIsIdle /\ FInv /\ [Next \/ PushNext]_vars => FInv'
<1> SUFFICES ASSUME TypeOK, NotRaised, WantedIsIdle, FInv, [Next \/ PushNext]_vars PROVE FInv'
  OBVIOUS
<1>1. CASE UNCHANGED vars
  BY <1>1 DEF vars, FInv, OneGoesOn, WaitingIsFed
<1>2. CASE Next \/ PushNext
  BY <1>2, StartFeeds, StoppingFeeds, RunFeeds DEF Next, PushNext
<1> QED BY <1>1, <1>2

\* What is alive waits for its end, unless its hook is still to come.
LEMMA AliveWaits ==
  ASSUME TypeOK, Registered, AliveIsKnown, FInv
  PROVE  FedUnlessOverlapped
<1> SUFFICES ASSUME epoch # 0, ~overlapped, owner = Idle, desired, child[epoch] = "alive",
                    runs[epoch].at \notin {"published", "start", "starting"}
             PROVE  sink = epoch
  BY DEF FedUnlessOverlapped, Fed
<1>1. epoch \in Epochs /\ epoch # None
  BY MaxStartsAssumption DEF TypeOK, Epochs, None
<1>2. runs[epoch].at = "wait"
  BY <1>1 DEF AliveIsKnown, Registered, Up
<1> QED BY <1>2 DEF FInv, WaitingIsFed

\* An output that is a process is fed whenever it runs and its on_start is done, across
\* restarts, stops and starts, unless a run was raised beside another (onOutStart, Detach).
THEOREM ProcessIsFed == Spec => []FedUnlessOverlapped
<1>1. IInv => TypeOK /\ NotRaised /\ WantedIsIdle /\ Registered /\ AliveIsKnown
  BY DEF IInv, AliveIsLatest, AliveIsKnown
<1>2. IInv /\ FInv => FedUnlessOverlapped
  BY <1>1, AliveWaits
<1>3. IInv /\ FInv /\ [Next]_vars => FInv'
  BY <1>1, NextFeeds
<1>4. Spec => []FInv
  BY <1>3, InitiallyFed, Always, PTL DEF Spec
<1> QED BY <1>2, <1>4, Always, PTL

\* And so is one that is a native push (Stop fires the same hook whether or not there is a
\* connection).
THEOREM PushIsFed == PushSpec => []FedUnlessOverlapped
<1>1. PInv => TypeOK /\ NotRaised /\ WantedIsIdle /\ Registered /\ AliveIsKnown
  BY DEF PInv
<1>2. PInv /\ FInv => FedUnlessOverlapped
  BY <1>1, AliveWaits
<1>3. PInv /\ FInv /\ [PushNext]_vars => FInv'
  BY <1>1, NextFeeds
<1>4. PushSpec => []FInv
  BY <1>3, InitiallyFed, PushAlways, PTL DEF PushSpec
<1> QED BY <1>2, <1>4, PushAlways, PTL

\* Where a process and a push are told apart in one behaviour, it is the process that leaves
\* nothing behind: a push may still see a late connection come and go (Stop, runSupervised).
THEOREM ProcessesAreStopped == MCSpec => []ProcessesStop
<1> DEFINE KInv == kind = "process" => IInv
<1>1. MCInit => KInv
  BY Initially DEF MCInit
<1>2. KInv /\ [MCNext]_MCvars => KInv'
  <2> SUFFICES ASSUME KInv, [MCNext]_MCvars, kind' = "process" PROVE IInv'
    OBVIOUS
  <2>1. kind = "process" /\ [Next]_vars
    BY DEF MCNext, MCvars, OfProcess, OfPush
  <2> QED BY <2>1, Inductive
<1>3. KInv => ProcessesStop
  BY DEF IInv, AliveIsLatest, ProcessesStop, StoppedMeansDead, Wanted, Idle
<1> QED BY <1>1, <1>2, <1>3, PTL DEF MCSpec

----------------------------------------------------------------------------
(* The sink of an output. For every bound of the queue, every number of   *)
(* connections and every set of tracks: what was queued for a connection   *)
(* is never given to another, and what a connection is given can be        *)
(* decoded there.                                                          *)

Items == Tag \cup {NoTag}

WriterType ==
  [item : Items, out : 0..MaxConns, started : BOOLEAN, tracks : SUBSET Tracks, headers : Headers]

WireType ==
  [began : BOOLEAN, said : Headers, sound : SUBSET Tracks, lost : SUBSET {"attach", "overflow"}]

\* The queue holds what was offered for the connection of the moment, and the writer
\* will look again unless it has that one.
QueuedForCurrent == \A i \in 1..Len(queue) : queue[i].for = out
WriterCurrent == gen \/ writer.out = out

SinkIInv == SinkTypeOK /\ QueuedForCurrent /\ WriterCurrent /\ RightConnection

\* A tag is told from its absence by its fields.
LEMMA Tags == \A t \in Tag : t # NoTag
<1> SUFFICES ASSUME NEW t \in Tag PROVE t # NoTag
  OBVIOUS
<1>1. t.kind # "none"
  BY DEF Tag
<1> QED BY <1>1 DEF NoTag

\* The headers of a source can be put in some order.
LEMMA SetToSeqType == ASSUME NEW S, IsFiniteSet(S) PROVE SetToSeq(S) \in Seq(S)
<1>1. Cardinality(S) \in Nat /\ ExistsBijection(1..Cardinality(S), S)
  BY FS_CardinalityType
<1>2. \E f \in [1..Cardinality(S) -> S] : IsInjective(f)
  BY <1>1 DEF ExistsBijection, Bijection, Injection, IsInjective
<1>3. SetToSeq(S) \in [1..Cardinality(S) -> S]
  BY <1>2 DEF SetToSeq
<1> QED BY <1>1, <1>3

LEMMA SinkInitially == SinkInit => SinkIInv
<1> SUFFICES ASSUME SinkInit PROVE SinkIInv
  OBVIOUS
<1>1. NoHeaders \in Headers
  BY DEF NoHeaders, Headers
<1>2. NewWriter \in WriterType /\ NewWire \in WireType
  BY <1>1, BoundsAssumption DEF NewWriter, NewWire, WriterType, WireType, Items
<1>3. Len(queue) <= QueueMax /\ queue \in Seq(Tag) /\ todo \in Seq(Tag)
  BY BoundsAssumption DEF SinkInit
<1>4. SinkTypeOK
  <2>1. hdr \in Headers /\ seed \in Headers /\ entered \subseteq Tracks
    BY <1>1 DEF SinkInit
  <2>2. conns \in 0..MaxConns /\ out \in {0, conns}
    BY BoundsAssumption DEF SinkInit
  <2>3. snap \in {NoSnap} /\ gen \in BOOLEAN /\ overflow \in BOOLEAN /\ closed \in BOOLEAN
    BY DEF SinkInit
  <2>4. writer \in WriterType /\ wire \in WireType
    BY <1>2 DEF SinkInit
  <2> QED BY <1>3, <2>1, <2>2, <2>3, <2>4 DEF SinkTypeOK, WriterType, WireType, Items
<1>5. QueuedForCurrent /\ WriterCurrent /\ RightConnection
  BY DEF SinkInit, NewWriter, QueuedForCurrent, WriterCurrent, RightConnection
<1> QED BY <1>4, <1>5 DEF SinkIInv

----------------------------------------------------------------------------
\* What the timeline offers does not touch what is queued.
LEMMA OpenKeeps == SinkIInv /\ Open => SinkIInv'
<1> SUFFICES ASSUME SinkIInv, Open PROVE SinkIInv'
  OBVIOUS
<1> USE DEF SinkIInv
<1>1. PICK c \in Confs :
        /\ hdr' = [k \in Tracks |-> c]
        /\ todo' = SetToSeq({NewTag("header", k, c) : k \in Tracks}) \o <<NewTag("key", "video", c)>>
  BY DEF Open
<1>2. \A sort \in {"header", "key"}, k \in Tracks : NewTag(sort, k, c) \in Tag
  BY BoundsAssumption DEF NewTag, Tag
<1>3. DEFINE S == {NewTag("header", k, c) : k \in Tracks}
<1>4. IsFiniteSet(S)
  <2>1. IsFiniteSet(Tracks)
    BY TracksAssumption, FS_Singleton, FS_Union DEF Tracks
  <2>2. \A x, y \in Tracks : NewTag("header", x, c) = NewTag("header", y, c) => x = y
    BY DEF NewTag
  <2>3. [k \in Tracks |-> NewTag("header", k, c)] \in Bijection(Tracks, S)
    BY <2>2, Zenon DEF Bijection, Injection, Surjection, IsInjective
  <2> QED BY <2>1, <2>3, FS_Bijection DEF ExistsBijection
<1>5. SetToSeq(S) \in Seq(Tag)
  <2>1. S \subseteq Tag
    BY <1>2
  <2>2. SetToSeq(S) \in Seq(S)
    BY <1>4, SetToSeqType
  <2> HIDE DEF S
  <2> QED BY <2>1, <2>2
<1>6. <<NewTag("key", "video", c)>> \in Seq(Tag)
  BY <1>2 DEF Tracks
<1>7. todo' \in Seq(Tag) /\ hdr' \in Headers
  BY <1>1, <1>5, <1>6 DEF Headers
<1>8. SinkTypeOK'
  BY <1>7 DEF Open, SinkTypeOK, Tracks, sinkVars
<1> QED BY <1>8 DEF Open, QueuedForCurrent, WriterCurrent, RightConnection, sinkVars

LEMMA FrameKeeps ==
  ASSUME SinkIInv, NEW k \in Tracks, NEW sort \in {"key", "delta"}, Frame(k, sort) PROVE SinkIInv'
<1> USE DEF SinkIInv
<1>1. hdr[k] \in Confs
  BY DEF Frame, SinkTypeOK, Headers
<1>2. NewTag(sort, k, hdr[k]) \in Tag
  BY <1>1, BoundsAssumption DEF NewTag, Tag
<1>3. todo' \in Seq(Tag) /\ entered' \subseteq Tracks
  BY <1>2 DEF Frame, SinkTypeOK
<1>4. UNCHANGED <<hdr, conns, snap, writer, wire, out, seed, gen, queue, overflow, closed>>
  BY DEF Frame, sinkVars
<1>5. SinkTypeOK'
  BY <1>3, <1>4 DEF SinkTypeOK
<1> QED BY <1>5 DEF Frame, QueuedForCurrent, WriterCurrent, RightConnection, sinkVars

LEMMA OfferKeeps == SinkIInv /\ Offer => SinkIInv'
<1> SUFFICES ASSUME SinkIInv, Offer PROVE SinkIInv'
  OBVIOUS
<1> USE DEF SinkIInv
<1> DEFINE t == [Head(todo) EXCEPT !.for = out, !.gap = Full]
<1>1. Head(todo) \in Tag /\ Tail(todo) \in Seq(Tag)
  BY DEF Offer, SinkTypeOK
<1>2. t \in Tag /\ t.for = out
  <2>1. Full \in BOOLEAN /\ out \in 0..MaxConns
    BY BoundsAssumption DEF Full, SinkTypeOK
  <2> QED BY <1>1, <2>1 DEF Tag
<1>3. queue' \in Seq(Tag) /\ Len(queue') <= QueueMax /\ \A i \in 1..Len(queue') : queue'[i].for = out
  <2>1. queue \in Seq(Tag) /\ Len(queue) <= QueueMax /\ \A i \in 1..Len(queue) : queue[i].for = out
    BY DEF SinkTypeOK, QueuedForCurrent
  <2>2. CASE out = 0
    BY <2>1, <2>2 DEF Offer
  <2>3. CASE out # 0 /\ Full
    <3>1. queue' = <<t>>
      BY <2>3 DEF Offer
    <3> HIDE DEF t
    <3> QED BY <1>2, <3>1, BoundsAssumption
  <2>4. CASE out # 0 /\ ~Full
    <3>1. queue' = Append(queue, t)
      BY <2>4 DEF Offer
    <3> HIDE DEF t
    <3> QED BY <1>2, <2>1, <2>4, <3>1, BoundsAssumption DEF Full
  <2> QED BY <2>2, <2>3, <2>4
<1>4. wire' \in WireType /\ overflow' \in BOOLEAN
  <2>1. wire \in WireType /\ overflow \in BOOLEAN
    BY DEF SinkTypeOK, WireType
  <2> QED BY <2>1 DEF Offer, WireType
<1>5. SinkTypeOK'
  BY <1>1, <1>3, <1>4 DEF Offer, SinkTypeOK, WireType
<1> QED BY <1>3, <1>5 DEF Offer, QueuedForCurrent, WriterCurrent, RightConnection

----------------------------------------------------------------------------
\* The supervisor clears the queue and tells the writer whenever it changes the connection.
LEMMA SupervisorKeeps == SinkIInv /\ Supervisor => SinkIInv'
<1> SUFFICES ASSUME SinkIInv, Supervisor PROVE SinkIInv'
  OBVIOUS
<1> USE DEF SinkIInv
<1>1. CASE Connect
  <2>1. conns' \in 0..MaxConns /\ out' \in {0, conns'}
    BY <1>1, BoundsAssumption DEF Connect, SinkTypeOK, sinkVars
  <2>2. SinkTypeOK'
    BY <1>1, <2>1 DEF Connect, SinkTypeOK, sinkVars, timelineVars
  <2> QED BY <1>1, <2>2 DEF Connect, QueuedForCurrent, WriterCurrent, RightConnection, sinkVars
<1>2. CASE Attach
  <2>1. snap.headers \in Headers
    <3>1. snap.on /\ snap \in {NoSnap} \cup [on : {TRUE}, headers : Headers]
      BY <1>2 DEF Attach, SinkTypeOK
    <3>2. snap # NoSnap
      BY <3>1 DEF NoSnap
    <3> QED BY <3>1, <3>2
  <2>2. wire' \in WireType
    BY <1>2 DEF Attach, SinkTypeOK, WireType
  <2>3. queue' \in Seq(Tag) /\ Len(queue') <= QueueMax /\ Len(queue') = 0
    BY <1>2, BoundsAssumption DEF Attach
  <2>4. SinkTypeOK'
    BY <1>2, <2>1, <2>2, <2>3 DEF Attach, SinkTypeOK, WireType, timelineVars
  <2> QED BY <1>2, <2>3, <2>4 DEF Attach, QueuedForCurrent, WriterCurrent, RightConnection
<1>3. CASE Detach
  <2>1. NoHeaders \in Headers
    BY DEF NoHeaders, Headers
  <2>2. wire' \in WireType
    BY <1>3, <2>1 DEF Detach, NewWire, WireType
  <2>3. queue' \in Seq(Tag) /\ Len(queue') <= QueueMax /\ Len(queue') = 0
    BY <1>3, BoundsAssumption DEF Detach
  <2>4. SinkTypeOK'
    BY <1>3, <2>2, <2>3 DEF Detach, SinkTypeOK, WireType, timelineVars
  <2> QED BY <1>3, <2>3, <2>4 DEF Detach, QueuedForCurrent, WriterCurrent, RightConnection
<1>4. CASE Close
  BY <1>4 DEF Close, SinkTypeOK, QueuedForCurrent, WriterCurrent, RightConnection, timelineVars
<1> QED BY <1>1, <1>2, <1>3, <1>4 DEF Supervisor

----------------------------------------------------------------------------
\* A writer that looks again has the connection of the moment.
LEMMA RefreshedCurrent ==
  ASSUME SinkIInv PROVE Refreshed(writer) \in WriterType /\ Refreshed(writer).out = out
<1> USE DEF SinkIInv
<1>1. writer \in WriterType /\ seed \in Headers /\ out \in 0..MaxConns
  BY BoundsAssumption DEF SinkTypeOK, WriterType, Items
<1>2. CASE gen
  <2>1. Refreshed(writer) =
          [[writer EXCEPT !.out = out, !.headers = seed] EXCEPT !.started = FALSE, !.tracks = {}]
    BY <1>2 DEF Refreshed
  <2> QED BY <1>1, <2>1 DEF WriterType
<1>3. CASE ~gen
  <2>1. writer.out = out
    BY <1>3 DEF WriterCurrent
  <2>2. Refreshed(writer) \in {writer, [writer EXCEPT !.started = FALSE, !.tracks = {}]}
    BY <1>3 DEF Refreshed
  <2> QED BY <1>1, <2>1, <2>2 DEF WriterType
<1> QED BY <1>2, <1>3

LEMMA TakeKeeps == SinkIInv /\ Take => SinkIInv'
<1> SUFFICES ASSUME SinkIInv, Take PROVE SinkIInv'
  OBVIOUS
<1> USE DEF SinkIInv
<1>1. Head(queue) \in Tag /\ Head(queue).for = out
  <2>1. queue \in Seq(Tag) /\ queue # <<>>
    BY DEF Take, SinkTypeOK
  <2>2. Head(queue) = queue[1] /\ 1 \in 1..Len(queue)
    BY <2>1
  <2> QED BY <2>1, <2>2 DEF QueuedForCurrent
<1>2. queue' \in Seq(Tag) /\ Len(queue') <= QueueMax /\ \A i \in 1..Len(queue') : queue'[i].for = out
  <2>1. queue \in Seq(Tag) /\ queue # <<>> /\ queue' = Tail(queue) /\ Len(queue) <= QueueMax
    BY DEF Take, SinkTypeOK
  <2>2. Len(queue') = Len(queue) - 1 /\ \A i \in 1..Len(queue') : queue'[i] = queue[i + 1]
    BY <2>1
  <2>3. \A i \in 1..Len(queue') : i + 1 \in 1..Len(queue)
    BY <2>1, <2>2
  <2> QED BY <2>1, <2>2, <2>3, BoundsAssumption DEF QueuedForCurrent
<1>3. writer' \in WriterType /\ writer'.out = out /\ writer'.item = Head(queue)
  <2>1. writer' = [Refreshed(writer) EXCEPT !.item = Head(queue)]
    BY DEF Take
  <2> QED BY <1>1, <2>1, RefreshedCurrent DEF WriterType, Items
<1>4. SinkTypeOK'
  BY <1>2, <1>3 DEF Take, SinkTypeOK, WriterType, Items, timelineVars
<1> QED BY <1>1, <1>2, <1>3, <1>4 DEF Take, QueuedForCurrent, WriterCurrent, RightConnection

LEMMA GivenType ==
  ASSUME NEW x \in WireType, NEW w \in WriterType, NEW t \in Tag PROVE Given(x, w, t) \in WireType
<1> DEFINE said == [k \in Tracks |-> IF w.headers[k] = NoConf THEN x.said[k] ELSE w.headers[k]]
           begun == IF Begins(w, t) THEN [x EXCEPT !.began = TRUE, !.sound = {}, !.said = said] ELSE x
<1>1. said \in Headers
  BY DEF WireType, WriterType, Headers
<1>2. begun \in WireType
  <2> HIDE DEF said
  <2> QED BY <1>1 DEF WireType
<1>3. t.track \in Tracks /\ t.conf \in Confs
  BY DEF Tag
<1>4. Given(x, w, t) =
        IF t.kind = "header" THEN [begun EXCEPT !.said[t.track] = t.conf, !.sound = @ \ {t.track}]
        ELSE IF t.kind = "key" THEN [begun EXCEPT !.sound = @ \cup {t.track}] ELSE begun
  BY DEF Given
<1> HIDE DEF begun
<1>5. begun.said \in Headers /\ [begun.said EXCEPT ![t.track] = t.conf] \in Headers
  BY <1>2, <1>3 DEF WireType, Headers
<1>6. CASE t.kind = "header"
  <2>1. Given(x, w, t) = [begun EXCEPT !.said = [begun.said EXCEPT ![t.track] = t.conf],
                                       !.sound = begun.sound \ {t.track}]
    BY <1>2, <1>4, <1>6 DEF WireType
  <2> QED BY <1>2, <1>5, <2>1 DEF WireType
<1>7. CASE t.kind # "header"
  <2>1. Given(x, w, t) \in {begun, [begun EXCEPT !.sound = begun.sound \cup {t.track}]}
    BY <1>4, <1>7
  <2> QED BY <1>2, <1>3, <2>1 DEF WireType
<1> QED BY <1>6, <1>7

LEMMA WriteKeeps == SinkIInv /\ Write => SinkIInv'
<1> SUFFICES ASSUME SinkIInv, Write PROVE SinkIInv'
  OBVIOUS
<1> USE DEF SinkIInv
<1>1. writer \in WriterType /\ wire \in WireType /\ writer.item \in Tag
  BY DEF Write, SinkTypeOK, WriterType, WireType, Items
<1>2. Cached(writer, writer.item) \in WriterType /\ Cached(writer, writer.item).out = writer.out
  BY <1>1 DEF Cached, WriterType, Headers, Tag
<1>3. writer' \in WriterType /\ writer'.out = writer.out /\ writer'.item = NoTag
  <2>1. writer.item.track \in Tracks /\ Begins(writer, writer.item) \in BOOLEAN
    BY <1>1 DEF Tag, Begins
  <2> DEFINE v == Cached(writer, writer.item)
  <2>2. writer' = [v EXCEPT !.item = NoTag, !.started = @ \/ Begins(writer, writer.item),
                            !.tracks = IF writer.item.kind = "key" /\ Passes(writer, writer.item)
                                       THEN @ \cup {writer.item.track} ELSE @]
    BY DEF Write, Forwarded
  <2> HIDE DEF v
  <2>3. v \in WriterType /\ v.out = writer.out
    BY <1>2 DEF v
  <2>4. (v.started \/ Begins(writer, writer.item)) \in BOOLEAN
    OBVIOUS
  <2> QED BY <2>1, <2>2, <2>3, <2>4 DEF WriterType, Items
<1>4. wire' \in WireType
  <2>1. [wire EXCEPT !.sound = {}] \in WireType
    BY <1>1 DEF WireType
  <2>2. AfterTag \in WireType
    BY <1>1, <2>1, GivenType DEF AfterTag
  <2> QED BY <1>1, <2>2 DEF Write
<1>5. SinkTypeOK'
  BY <1>3, <1>4 DEF Write, SinkTypeOK, WriterType, WireType, Items, timelineVars, sinkVars
<1> QED BY <1>3, <1>5 DEF Write, QueuedForCurrent, WriterCurrent, RightConnection, sinkVars

----------------------------------------------------------------------------
LEMMA SinkInductive == SinkIInv /\ [SinkNext]_outputVars => SinkIInv'
<1> SUFFICES ASSUME SinkIInv, [SinkNext]_outputVars PROVE SinkIInv'
  OBVIOUS
<1>1. CASE Timeline
  BY <1>1, OpenKeeps, OfferKeeps, FrameKeeps DEF Timeline
<1>2. CASE Supervisor
  BY <1>2, SupervisorKeeps
<1>3. CASE Writer
  BY <1>3, TakeKeeps, WriteKeeps DEF Writer
<1>4. CASE UNCHANGED outputVars
  BY <1>4 DEF outputVars, SinkIInv, SinkTypeOK, QueuedForCurrent, WriterCurrent, RightConnection
<1> QED BY <1>1, <1>2, <1>3, <1>4 DEF SinkNext

LEMMA SinkAlways == SinkSpec => []SinkIInv
BY SinkInitially, SinkInductive, PTL DEF SinkSpec

\* Every variable of the sink keeps its type, and its queue the bound (timeline/sink.go).
THEOREM SinkTypeCorrect == SinkSpec => []SinkTypeOK
<1>1. SinkIInv => SinkTypeOK
  BY DEF SinkIInv
<1> QED BY <1>1, SinkAlways, PTL

\* A tag reaches the connection it was offered for, or none (Attach, Detach, run).
THEOREM ConnectionsApart == SinkSpec => []RightConnection
<1>1. SinkIInv => RightConnection
  BY DEF SinkIInv
<1> QED BY <1>1, SinkAlways, PTL

----------------------------------------------------------------------------
(* Decodable. A connection can decode what it is given because the queue is *)
(* whole: read from the state the writer begins with, every frame of it    *)
(* comes after the header it needs and after a keyframe. That reading is    *)
(* what the invariant says exists: what is announced before each tag (h),   *)
(* and which tracks may not go on with a delta frame there (s).             *)

\* What is announced after the tag, and which tracks need a keyframe then.
Heads(h, t) == IF t.kind = "header" THEN [h EXCEPT ![t.track] = t.conf] ELSE h
Risk(s, t) ==
  IF t.kind = "header" THEN s \cup {t.track} ELSE IF t.kind = "key" THEN s \ {t.track} ELSE s

\* h and s read the sequence q.
Reads(q, h, s) ==
  /\ h \in [1..Len(q) + 1 -> Headers] /\ s \in [1..Len(q) + 1 -> SUBSET Tracks]
  /\ \A i \in 1..Len(q) :
       /\ h[i + 1] = Heads(h[i], q[i]) /\ s[i + 1] = Risk(s[i], q[i])
       /\ q[i].kind # "header" => h[i][q[i].track] = q[i].conf
       /\ q[i].kind = "delta" => q[i].track \notin s[i]
       /\ (\A j \in i..Len(q) : q[j].kind # "header") => h[i] = h[Len(q) + 1]

LEMMA ReadTypes ==
  ASSUME NEW t \in Tag, NEW h \in Headers, NEW s \in SUBSET Tracks
  PROVE  Heads(h, t) \in Headers /\ Risk(s, t) \in SUBSET Tracks
BY DEF Heads, Risk, Tag, Headers

LEMMA ReadNone ==
  ASSUME NEW h0 \in Headers, NEW s0 \in SUBSET Tracks
  PROVE  \E h, s : Reads(<<>>, h, s) /\ h[1] = h0 /\ s[1] = s0
<1> DEFINE h == [i \in 1..1 |-> h0]
           s == [i \in 1..1 |-> s0]
<1>1. h \in [1..Len(<<>>) + 1 -> Headers] /\ s \in [1..Len(<<>>) + 1 -> SUBSET Tracks]
  OBVIOUS
<1>2. 1..Len(<<>>) = {}
  OBVIOUS
<1>3. h[1] = h0 /\ s[1] = s0
  OBVIOUS
<1> HIDE DEF h, s
<1>4. Reads(<<>>, h, s)
  BY <1>1, <1>2 DEF Reads
<1> QED BY <1>3, <1>4

\* A tag at the end of the queue.
LEMMA ReadAppend ==
  ASSUME NEW q \in Seq(Tag), NEW h, NEW s, Reads(q, h, s), NEW t \in Tag,
         t.kind # "header" => h[Len(q) + 1][t.track] = t.conf,
         t.kind = "delta" => t.track \notin s[Len(q) + 1]
  PROVE  \E g, r : /\ Reads(Append(q, t), g, r) /\ g[1] = h[1] /\ r[1] = s[1]
                  /\ g[Len(q) + 2] = Heads(h[Len(q) + 1], t)
                  /\ r[Len(q) + 2] = Risk(s[Len(q) + 1], t)
<1> DEFINE n == Len(q)
           p == Append(q, t)
           g == [i \in 1..n + 2 |-> IF i = n + 2 THEN Heads(h[n + 1], t) ELSE h[i]]
           r == [i \in 1..n + 2 |-> IF i = n + 2 THEN Risk(s[n + 1], t) ELSE s[i]]
<1>1. /\ n \in Nat /\ Len(p) = n + 1 /\ p[n + 1] = t
      /\ \A i \in 1..n : p[i] = q[i]
  OBVIOUS
<1>2. /\ h \in [1..n + 1 -> Headers] /\ s \in [1..n + 1 -> SUBSET Tracks]
      /\ h[n + 1] \in Headers /\ s[n + 1] \in SUBSET Tracks
  BY <1>1 DEF Reads
<1>3. Heads(h[n + 1], t) \in Headers /\ Risk(s[n + 1], t) \in SUBSET Tracks
  BY <1>2, ReadTypes
<1>4. /\ g \in [1..Len(p) + 1 -> Headers] /\ r \in [1..Len(p) + 1 -> SUBSET Tracks]
  BY <1>1, <1>2, <1>3
<1>5. /\ \A i \in 1..n + 1 : g[i] = h[i] /\ r[i] = s[i]
      /\ g[n + 2] = Heads(h[n + 1], t) /\ r[n + 2] = Risk(s[n + 1], t)
  BY <1>1
<1> HIDE DEF g, r, p, n
<1>6. ASSUME NEW i \in 1..Len(p)
      PROVE  /\ g[i + 1] = Heads(g[i], p[i]) /\ r[i + 1] = Risk(r[i], p[i])
             /\ p[i].kind # "header" => g[i][p[i].track] = p[i].conf
             /\ p[i].kind = "delta" => p[i].track \notin r[i]
             /\ (\A j \in i..Len(p) : p[j].kind # "header") => g[i] = g[Len(p) + 1]
  <2>1. CASE i = n + 1
    <3>1. t.kind # "header" => Heads(h[n + 1], t) = h[n + 1]
      BY DEF Heads
    <3>2. g[i] = h[n + 1] /\ r[i] = s[n + 1] /\ p[i] = t /\ i + 1 = n + 2 /\ Len(p) + 1 = n + 2 /\ i \in i..Len(p)
      BY <1>1, <1>5, <2>1
    <3> QED BY <1>5, <3>1, <3>2 DEF n
  <2>2. CASE i # n + 1
    <3>1. i \in 1..n /\ i \in 1..n + 1 /\ i + 1 \in 1..n + 1 /\ n + 1 \in i..Len(p) /\ i..n \subseteq i..Len(p)
      BY <1>1, <2>2
    <3>2. p[i] = q[i] /\ g[i] = h[i] /\ r[i] = s[i] /\ g[i + 1] = h[i + 1] /\ r[i + 1] = s[i + 1]
      BY <1>1, <1>5, <3>1
    <3>3. /\ h[i + 1] = Heads(h[i], q[i]) /\ s[i + 1] = Risk(s[i], q[i])
          /\ q[i].kind # "header" => h[i][q[i].track] = q[i].conf
          /\ q[i].kind = "delta" => q[i].track \notin s[i]
          /\ (\A j \in i..n : q[j].kind # "header") => h[i] = h[n + 1]
      BY <3>1 DEF Reads, n
    <3>4. ASSUME \A j \in i..Len(p) : p[j].kind # "header" PROVE g[i] = g[Len(p) + 1]
      <4>1. \A j \in i..n : q[j].kind # "header"
        BY <1>1, <3>1, <3>4
      <4>2. t.kind # "header"
        BY <1>1, <3>1, <3>4
      <4>3. Len(p) + 1 = n + 2
        BY <1>1
      <4> QED BY <1>5, <3>2, <3>3, <4>1, <4>2, <4>3 DEF Heads
    <3> QED BY <3>2, <3>3, <3>4
  <2> QED BY <2>1, <2>2
<1>7. Reads(p, g, r)
  BY <1>4, <1>6 DEF Reads
<1>8. g[1] = h[1] /\ r[1] = s[1]
  BY <1>1, <1>5
<1> QED BY <1>5, <1>7, <1>8 DEF n, p

\* A tag that is alone in the queue.
LEMMA ReadOne ==
  ASSUME NEW t \in Tag, NEW h0 \in Headers, NEW s0 \in SUBSET Tracks,
         t.kind # "header" => h0[t.track] = t.conf,
         t.kind = "delta" => t.track \notin s0
  PROVE  \E h, s : /\ Reads(<<t>>, h, s) /\ h[1] = h0 /\ s[1] = s0
                  /\ h[2] = Heads(h0, t) /\ s[2] = Risk(s0, t)
<1> DEFINE h == [i \in 1..2 |-> IF i = 2 THEN Heads(h0, t) ELSE h0]
           s == [i \in 1..2 |-> IF i = 2 THEN Risk(s0, t) ELSE s0]
<1>1. Heads(h0, t) \in Headers /\ Risk(s0, t) \in SUBSET Tracks
  BY ReadTypes
<1>2. h \in [1..2 -> Headers] /\ s \in [1..2 -> SUBSET Tracks]
  BY <1>1
<1>3. h[1] = h0 /\ s[1] = s0 /\ h[2] = Heads(h0, t) /\ s[2] = Risk(s0, t)
  OBVIOUS
<1>4. Len(<<t>>) = 1 /\ Len(<<t>>) + 1 = 2 /\ <<t>>[1] = t /\ 1..Len(<<t>>) = {1} /\ 1 + 1 = 2
  OBVIOUS
<1>5. t.kind # "header" => Heads(h0, t) = h0
  BY DEF Heads
<1> HIDE DEF h, s
<1>6. \A i \in 1..Len(<<t>>) :
        /\ h[i + 1] = Heads(h[i], <<t>>[i]) /\ s[i + 1] = Risk(s[i], <<t>>[i])
        /\ <<t>>[i].kind # "header" => h[i][<<t>>[i].track] = <<t>>[i].conf
        /\ <<t>>[i].kind = "delta" => <<t>>[i].track \notin s[i]
        /\ (\A j \in i..Len(<<t>>) : <<t>>[j].kind # "header") => h[i] = h[Len(<<t>>) + 1]
  BY <1>3, <1>4, <1>5
<1>7. Reads(<<t>>, h, s)
  BY <1>2, <1>4, <1>6 DEF Reads
<1> QED BY <1>3, <1>7

\* The first tag is taken.
LEMMA ReadTail ==
  ASSUME NEW q \in Seq(Tag), q # <<>>, NEW h, NEW s, Reads(q, h, s)
  PROVE  \E g, r : /\ Reads(Tail(q), g, r) /\ g[1] = h[2] /\ r[1] = s[2]
                  /\ g[Len(Tail(q)) + 1] = h[Len(q) + 1] /\ r[Len(Tail(q)) + 1] = s[Len(q) + 1]
<1> DEFINE n == Len(q)
           p == Tail(q)
           g == [i \in 1..n |-> h[i + 1]]
           r == [i \in 1..n |-> s[i + 1]]
<1>1. /\ n \in Nat /\ n >= 1 /\ Len(p) = n - 1 /\ Len(p) + 1 = n
      /\ \A i \in 1..Len(p) : p[i] = q[i + 1]
  OBVIOUS
<1>2. /\ h \in [1..n + 1 -> Headers] /\ s \in [1..n + 1 -> SUBSET Tracks]
  BY DEF Reads
<1>3. /\ g \in [1..Len(p) + 1 -> Headers] /\ r \in [1..Len(p) + 1 -> SUBSET Tracks]
  <2>1. \A i \in 1..n : i + 1 \in 1..n + 1
    BY <1>1
  <2> QED BY <1>1, <1>2, <2>1
<1>4. \A i \in 1..n : g[i] = h[i + 1] /\ r[i] = s[i + 1]
  OBVIOUS
<1> HIDE DEF g, r, p, n
<1>5. ASSUME NEW i \in 1..Len(p)
      PROVE  /\ g[i + 1] = Heads(g[i], p[i]) /\ r[i + 1] = Risk(r[i], p[i])
             /\ p[i].kind # "header" => g[i][p[i].track] = p[i].conf
             /\ p[i].kind = "delta" => p[i].track \notin r[i]
             /\ (\A j \in i..Len(p) : p[j].kind # "header") => g[i] = g[Len(p) + 1]
  <2>1. i \in 1..n /\ i + 1 \in 1..n /\ n \in 1..n /\ i \in Nat
    BY <1>1
  <2>2. /\ p[i] = q[i + 1] /\ g[i] = h[i + 1] /\ r[i] = s[i + 1] /\ g[n] = h[n + 1]
        /\ g[i + 1] = h[(i + 1) + 1] /\ r[i + 1] = s[(i + 1) + 1]
    BY <1>1, <1>4, <2>1
  <2>3. /\ h[(i + 1) + 1] = Heads(h[i + 1], q[i + 1]) /\ s[(i + 1) + 1] = Risk(s[i + 1], q[i + 1])
        /\ q[i + 1].kind # "header" => h[i + 1][q[i + 1].track] = q[i + 1].conf
        /\ q[i + 1].kind = "delta" => q[i + 1].track \notin s[i + 1]
        /\ (\A j \in (i + 1)..n : q[j].kind # "header") => h[i + 1] = h[n + 1]
    BY <2>1 DEF Reads, n
  <2>4. ASSUME \A j \in i..Len(p) : p[j].kind # "header" PROVE \A j \in (i + 1)..n : q[j].kind # "header"
    <3> SUFFICES ASSUME NEW j \in (i + 1)..n PROVE q[j].kind # "header"
      OBVIOUS
    <3>1. j - 1 \in i..Len(p) /\ j - 1 \in 1..Len(p) /\ (j - 1) + 1 = j
      BY <1>1, <2>1
    <3> QED BY <1>1, <2>4, <3>1
  <2> QED BY <1>1, <2>2, <2>3, <2>4
<1>6. Reads(p, g, r)
  BY <1>3, <1>5 DEF Reads
<1>7. g[1] = h[2] /\ r[1] = s[2] /\ g[n] = h[n + 1] /\ r[n] = s[n + 1]
  BY <1>1, <1>4
<1> QED BY <1>1, <1>6, <1>7 DEF n, p

\* The writer w and the connection x agree: what the writer knows the connection was told.
Serves(w, x) ==
  /\ w.started => x.began /\ \A k \in Tracks : w.headers[k] # NoConf => x.said[k] = w.headers[k]
  /\ ~w.started => w.tracks = {}

\* What the connection has after t, given by w (AfterTag, for any writer).
After(x, w, t) ==
  LET before == IF t.gap THEN [x EXCEPT !.sound = {}] ELSE x
  IN IF Passes(w, t) THEN Given(before, w, t) ELSE before

LEMMA ForwardedFields ==
  ASSUME NEW w \in WriterType, NEW t \in Tag
  PROVE  /\ Forwarded(w, t) \in WriterType /\ Forwarded(w, t).out = w.out
         /\ Forwarded(w, t).item = NoTag
         /\ Forwarded(w, t).headers = Heads(w.headers, t)
         /\ Forwarded(w, t).started = (w.started \/ Begins(w, t))
         /\ Forwarded(w, t).tracks =
              IF t.kind = "key" /\ Passes(w, t) THEN w.tracks \cup {t.track} ELSE w.tracks
<1> DEFINE hd == Heads(w.headers, t)
           v == Cached(w, t)
           st == w.started \/ Begins(w, t)
           tr == IF t.kind = "key" /\ Passes(w, t) THEN w.tracks \cup {t.track} ELSE w.tracks
<1>1. hd \in Headers
  BY ReadTypes DEF WriterType, Heads, Headers, Tag
<1>2. v = [w EXCEPT !.headers = hd]
  BY DEF Cached, Heads, WriterType
<1>3. st \in BOOLEAN
  BY DEF WriterType, Begins
<1>4. tr \in SUBSET Tracks
  BY DEF WriterType, Tag
<1> HIDE DEF hd, v
<1>5. /\ v \in WriterType /\ v.headers = hd /\ v.started = w.started /\ v.tracks = w.tracks
      /\ v.out = w.out
  BY <1>1, <1>2 DEF WriterType
<1>6. Forwarded(w, t) = [v EXCEPT !.item = NoTag, !.started = st, !.tracks = tr]
  BY <1>5 DEF Forwarded, v
<1> HIDE DEF st, tr
<1>7. Forwarded(w, t) \in WriterType
  BY <1>3, <1>4, <1>5, <1>6 DEF WriterType, Items
<1>8. /\ Forwarded(w, t).out = w.out /\ Forwarded(w, t).item = NoTag /\ Forwarded(w, t).headers = hd
      /\ Forwarded(w, t).started = st /\ Forwarded(w, t).tracks = tr
  BY <1>5, <1>6 DEF WriterType
<1> QED BY <1>7, <1>8 DEF hd, st, tr

\* A tag that follows what was announced and risks nothing is given as it should be.
LEMMA Passing ==
  ASSUME NEW w \in WriterType, NEW x \in WireType, NEW t \in Tag, NEW r \in SUBSET Tracks,
         Serves(w, x), w.tracks \ x.sound \subseteq r,
         t.gap => ~w.started,
         t.kind # "header" => w.headers[t.track] = t.conf,
         t.kind = "delta" => t.track \notin r
  PROVE  /\ Serves(Forwarded(w, t), After(x, w, t))
         /\ Forwarded(w, t).tracks \ After(x, w, t).sound \subseteq Risk(r, t)
         /\ Passes(w, t) => ~Undecodable(After(x, w, t), t)
         /\ After(x, w, t).lost = x.lost
<1> DEFINE b == IF t.gap THEN [x EXCEPT !.sound = {}] ELSE x
           a == After(x, w, t)
           f == Forwarded(w, t)
<1>1. /\ b \in WireType /\ b.began = x.began /\ b.said = x.said /\ b.lost = x.lost
      /\ w.tracks \ b.sound \subseteq r
  <2>1. CASE t.gap
    BY <2>1 DEF WireType, Serves
  <2>2. CASE ~t.gap
    BY <2>2
  <2> QED BY <2>1, <2>2
<1>2. /\ t.track \in Tracks /\ t.conf \in Confs /\ t.conf # NoConf
      /\ t.kind \in {"header", "key", "delta"}
  BY ConfsAssumption DEF Tag, NoConf
<1>3. a = IF Passes(w, t) THEN Given(b, w, t) ELSE b
  BY DEF After
<1> HIDE DEF a, b
<1>4. /\ f.headers = Heads(w.headers, t) /\ f.started = (w.started \/ Begins(w, t))
      /\ f.tracks = IF t.kind = "key" /\ Passes(w, t) THEN w.tracks \cup {t.track} ELSE w.tracks
  BY ForwardedFields
<1> HIDE DEF f
<1>5. w.headers \in Headers /\ b.said \in Headers /\ w.started \in BOOLEAN
  BY <1>1 DEF WriterType, WireType
<1>6. CASE ~Passes(w, t)
  <2>1. ~w.started \/ t.kind = "delta"
    BY <1>2, <1>6 DEF Passes
  <2>2. ~Begins(w, t) /\ a = b /\ f.tracks = w.tracks /\ f.started = w.started
    BY <1>3, <1>4, <1>5, <1>6 DEF Passes
  <2>3. t.kind = "delta" => f.headers = w.headers /\ Risk(r, t) = r
    BY <1>4 DEF Heads, Risk
  <2>4. Serves(f, a)
    BY <1>1, <2>1, <2>2, <2>3 DEF Serves
  <2>5. f.tracks \ a.sound \subseteq Risk(r, t)
    BY <1>1, <2>1, <2>2, <2>3 DEF Serves
  <2> QED BY <1>1, <1>6, <2>2, <2>4, <2>5 DEF a, f
<1>7. CASE Passes(w, t) /\ Begins(w, t)
  <2>1. ~w.started /\ t.kind = "key" /\ t.track = "video" /\ w.tracks = {}
    BY <1>7 DEF Begins, Serves
  <2> DEFINE said == [k \in Tracks |-> IF w.headers[k] = NoConf THEN b.said[k] ELSE w.headers[k]]
             g == [b EXCEPT !.began = TRUE, !.sound = {}, !.said = said]
  <2>2. a = [g EXCEPT !.sound = g.sound \cup {t.track}]
    BY <1>3, <1>7, <2>1 DEF Given
  <2> HIDE DEF said
  <2>3. a.began = TRUE /\ a.said = said /\ a.sound = {t.track} /\ a.lost = b.lost
    BY <1>1, <2>2 DEF WireType
  <2>4. f.headers = w.headers /\ f.started /\ f.tracks = {t.track}
    BY <1>4, <1>7, <2>1 DEF Heads
  <2>5. \A k \in Tracks : w.headers[k] # NoConf => said[k] = w.headers[k]
    BY DEF said
  <2>6. Serves(f, a)
    BY <2>3, <2>4, <2>5 DEF Serves
  <2>7. f.tracks \ a.sound \subseteq Risk(r, t)
    BY <2>3, <2>4
  <2>8. said[t.track] = t.conf
    BY <1>2, <2>1, <2>5
  <2>9. ~Undecodable(a, t)
    BY <2>3, <2>8 DEF Undecodable
  <2> QED BY <1>1, <2>3, <2>6, <2>7, <2>9 DEF a, f
<1>8. CASE Passes(w, t) /\ ~Begins(w, t)
  <2>1. w.started /\ (t.kind = "delta" => t.track \in w.tracks)
    BY <1>8 DEF Passes
  <2>2. b.began /\ ~t.gap /\ \A k \in Tracks : w.headers[k] # NoConf => b.said[k] = w.headers[k]
    BY <1>1, <2>1 DEF Serves
  <2>3. CASE t.kind = "header"
    <3> DEFINE said == [b.said EXCEPT ![t.track] = t.conf]
    <3>1. a = [b EXCEPT !.said = said, !.sound = b.sound \ {t.track}]
      BY <1>1, <1>3, <1>8, <2>3 DEF Given, WireType
    <3>2. \A k \in Tracks : said[k] = IF k = t.track THEN t.conf ELSE b.said[k]
      BY <1>5 DEF Headers
    <3> HIDE DEF said
    <3>3. /\ a.began = b.began /\ a.said = said /\ a.sound = b.sound \ {t.track}
          /\ a.lost = b.lost
      BY <1>1, <3>1 DEF WireType
    <3>4. f.headers = [w.headers EXCEPT ![t.track] = t.conf] /\ f.started /\ f.tracks = w.tracks
      BY <1>4, <2>1, <2>3 DEF Heads
    <3>5. \A k \in Tracks : f.headers[k] = IF k = t.track THEN t.conf ELSE w.headers[k]
      BY <1>5, <3>4 DEF Headers
    <3>6. Serves(f, a)
      BY <2>2, <3>2, <3>3, <3>4, <3>5 DEF Serves
    <3>7. f.tracks \ a.sound \subseteq Risk(r, t)
      BY <1>1, <2>3, <3>3, <3>4 DEF Risk
    <3>8. ~Undecodable(a, t)
      BY <2>3 DEF Undecodable
    <3> QED BY <1>1, <3>3, <3>6, <3>7, <3>8 DEF a, f
  <2>4. CASE t.kind = "key"
    <3>1. a = [b EXCEPT !.sound = b.sound \cup {t.track}]
      BY <1>3, <1>8, <2>4 DEF Given
    <3>2. /\ a.began = b.began /\ a.said = b.said /\ a.sound = b.sound \cup {t.track}
          /\ a.lost = b.lost
      BY <1>1, <3>1 DEF WireType
    <3>3. f.headers = w.headers /\ f.started /\ f.tracks = w.tracks \cup {t.track}
      BY <1>4, <1>8, <2>1, <2>4 DEF Heads
    <3>4. Serves(f, a)
      BY <2>2, <3>2, <3>3 DEF Serves
    <3>5. f.tracks \ a.sound \subseteq Risk(r, t)
      BY <1>1, <2>4, <3>2, <3>3 DEF Risk
    <3>6. ~Undecodable(a, t)
      BY <1>2, <2>2, <2>4, <3>2 DEF Undecodable
    <3> QED BY <1>1, <3>2, <3>4, <3>5, <3>6 DEF a, f
  <2>5. CASE t.kind = "delta"
    <3>1. a = b
      BY <1>3, <1>8, <2>5 DEF Given
    <3>2. f.headers = w.headers /\ f.started /\ f.tracks = w.tracks
      BY <1>4, <2>1, <2>5 DEF Heads
    <3>3. Serves(f, a)
      BY <2>2, <3>1, <3>2 DEF Serves
    <3>4. f.tracks \ a.sound \subseteq Risk(r, t)
      BY <1>1, <2>5, <3>1, <3>2 DEF Risk
    <3>5. t.track \in b.sound
      BY <1>1, <2>1, <2>5
    <3>6. ~Undecodable(a, t)
      BY <1>2, <2>2, <2>5, <3>1, <3>5 DEF Undecodable
    <3> QED BY <1>1, <3>1, <3>3, <3>4, <3>6 DEF a, f
  <2> QED BY <1>2, <2>3, <2>4, <2>5
<1> QED BY <1>6, <1>7, <1>8

----------------------------------------------------------------------------
\* The writer once it has looked again, and the connection once it has what is in the
\* writer's hands: where the reading of the queue begins.
Handed == IF writer.item = NoTag THEN writer ELSE Forwarded(writer, writer.item)
Reader == Refreshed(Handed)
Has == IF writer.item # NoTag /\ Heard THEN AfterTag ELSE wire

\* The last tag of what the timeline offers is a keyframe of k.
KeyDue(due, k) == due # <<>> /\ due[Len(due)].kind = "key" /\ due[Len(due)].track = k

\* Read to its end the queue announces what the timeline does, but for headers that are
\* due, and risks no track that has entered, but for one whose keyframe is due.
UpToDate(h, s, headers, due, in) ==
  /\ \A k \in Tracks : \/ h[k] = headers[k]
                       \/ \E i \in 1..Len(due) : due[i].kind = "header" /\ due[i].track = k
  /\ \A k \in s \cap in : KeyDue(due, k)

Whole ==
  out # 0 /\ wire.lost = {} =>
    /\ Serves(Reader, Has)
    /\ \E h, s : /\ Reads(queue, h, s) /\ UpToDate(h[Len(queue) + 1], s[Len(queue) + 1], hdr, todo, entered)
                 /\ h[1] = Reader.headers /\ Reader.tracks \ Has.sound \subseteq s[1]

\* What is due: headers, then one frame.
Due ==
  /\ \A i \in 1..Len(todo) :
       /\ todo[i].conf = hdr[todo[i].track]
       /\ todo[i].kind = "header" <=> i # Len(todo)
       /\ todo[i].kind # "header" => todo[i].track \in entered
  /\ Len(todo) > 1 => entered = {"video"} /\ KeyDue(todo, "video")

\* Tags were cleared before this one: the writer has not seen that yet.
GapIsNews == \A i \in 1..Len(queue) : queue[i].gap => i = 1 /\ overflow

\* The connections are numbered: a writer that has to look again has an earlier one.
Numbered ==
  /\ writer.out <= conns
  /\ snap.on => out = 0 /\ writer.out < conns
  /\ gen /\ out # 0 => writer.out # out

DInv == Whole /\ Due /\ GapIsNews /\ Numbered /\ Decodable

LEMMA HandedFields ==
  ASSUME SinkIInv
  PROVE  /\ Handed \in WriterType
         /\ Reader \in WriterType /\ Reader.headers = IF gen THEN seed ELSE Handed.headers
         /\ Reader.started = IF gen \/ overflow THEN FALSE ELSE Handed.started
         /\ Reader.tracks = IF gen \/ overflow THEN {} ELSE Handed.tracks
<1>1. writer \in WriterType /\ seed \in Headers /\ out \in 0..MaxConns
  BY BoundsAssumption DEF SinkIInv, SinkTypeOK, WriterType, Items
<1>2. Handed \in WriterType
  BY <1>1, ForwardedFields DEF Handed, WriterType, Items
<1> DEFINE w == Handed
           v == IF gen THEN [w EXCEPT !.out = out, !.headers = seed] ELSE w
<1>3. /\ v \in WriterType /\ v.started = w.started /\ v.tracks = w.tracks
      /\ v.headers = IF gen THEN seed ELSE w.headers
  <2> HIDE DEF w
  <2> QED BY <1>1, <1>2 DEF WriterType, w
<1>4. Reader = IF gen \/ overflow THEN [v EXCEPT !.started = FALSE, !.tracks = {}] ELSE v
  BY DEF Reader, Refreshed
<1> HIDE DEF v, w
<1> QED BY <1>2, <1>3, <1>4 DEF WriterType, w

LEMMA InitiallyWhole == SinkInit => DInv
<1> SUFFICES ASSUME SinkInit PROVE DInv
  OBVIOUS
<1>1. /\ out = 0 /\ conns = 0 /\ writer = NewWriter /\ queue = <<>> /\ todo = <<>>
      /\ ~gen /\ snap = NoSnap
  BY DEF SinkInit
<1>2. Whole /\ Due /\ GapIsNews
  BY <1>1 DEF Whole, Due, GapIsNews
<1>3. Numbered /\ Decodable
  BY <1>1 DEF Numbered, Decodable, GivesUndecodable, NewWriter, NoSnap
<1> QED BY <1>2, <1>3 DEF DInv

----------------------------------------------------------------------------
\* What the sink has is not touched while the timeline decides what to offer.
LEMMA TimelineOnly ==
  ASSUME DInv, UNCHANGED <<conns, snap, writer, wire>>, UNCHANGED <<out, seed, gen, queue, overflow>>
  PROVE  /\ Reader' = Reader /\ Has' = Has /\ queue' = queue
         /\ GapIsNews' /\ Numbered' /\ Decodable'
         /\ out' = out /\ wire' = wire
<1>1. UNCHANGED <<writer, gen, out, seed, overflow, wire, queue, conns, snap>>
  OBVIOUS
<1>2. Reader' = Reader
  BY <1>1 DEF Reader, Handed, Refreshed
<1>3. Has' = Has
  BY <1>1 DEF Has, Heard, AfterTag
<1>4. GapIsNews' /\ Numbered'
  BY <1>1 DEF DInv, GapIsNews, Numbered
<1>5. Decodable'
  BY <1>1 DEF DInv, Decodable, GivesUndecodable, Heard, AfterTag
<1> QED BY <1>1, <1>2, <1>3, <1>4, <1>5

\* All of a set is in its sequence.
LEMMA SetToSeqAll ==
  ASSUME NEW S, IsFiniteSet(S)
  PROVE  /\ Len(SetToSeq(S)) \in Nat
         /\ \A x \in S : \E i \in 1..Len(SetToSeq(S)) : SetToSeq(S)[i] = x
<1> DEFINE n == Cardinality(S)
           f == SetToSeq(S)
<1>1. n \in Nat /\ ExistsBijection(1..n, S)
  BY FS_CardinalityType
<1>2. \E g \in [1..n -> S] : IsInjective(g)
  BY <1>1 DEF ExistsBijection, Bijection, Injection, IsInjective
<1>3. f \in [1..n -> S] /\ IsInjective(f)
  BY <1>2 DEF SetToSeq
<1> HIDE DEF f
<1>4. f \in Injection(1..n, S)
  BY <1>3 DEF Injection
<1>5. Cardinality(1..n) = n
  BY <1>1, FS_Interval
<1>6. f \in Surjection(1..n, S)
  BY <1>4, <1>5, FS_Injection
<1>7. Len(f) = n
  BY <1>1, <1>3
<1>8. \A x \in S : \E i \in 1..n : f[i] = x
  BY <1>6 DEF Surjection
<1> QED BY <1>1, <1>7, <1>8 DEF f

LEMMA OpenWhole == SinkIInv /\ DInv /\ Open => DInv'
<1> SUFFICES ASSUME SinkIInv, DInv, Open PROVE DInv'
  OBVIOUS
<1>1. PICK c \in Confs :
        /\ hdr' = [k \in Tracks |-> c]
        /\ todo' = SetToSeq({NewTag("header", k, c) : k \in Tracks}) \o <<NewTag("key", "video", c)>>
  BY DEF Open
<1>2. todo = <<>> /\ entered' = {"video"} /\ UNCHANGED <<conns, snap, writer, wire>> /\ UNCHANGED sinkVars
  BY DEF Open
<1> DEFINE S == {NewTag("header", k, c) : k \in Tracks}
           z == SetToSeq(S)
           t == NewTag("key", "video", c)
           n == Len(z)
<1>3. IsFiniteSet(S)
  <2>1. IsFiniteSet(Tracks)
    BY TracksAssumption, FS_Singleton, FS_Union DEF Tracks
  <2>2. \A x, y \in Tracks : NewTag("header", x, c) = NewTag("header", y, c) => x = y
    BY DEF NewTag
  <2>3. [k \in Tracks |-> NewTag("header", k, c)] \in Bijection(Tracks, S)
    BY <2>2, Zenon DEF Bijection, Injection, Surjection, IsInjective
  <2> QED BY <2>1, <2>3, FS_Bijection DEF ExistsBijection
<1>4. z \in Seq(S) /\ n \in Nat /\ \A x \in S : \E i \in 1..n : z[i] = x
  BY <1>3, SetToSeqType, SetToSeqAll
<1>5. \A x \in S : x.kind = "header" /\ x.conf = c /\ x.track \in Tracks
  BY DEF NewTag
<1>6. t.kind = "key" /\ t.track = "video" /\ t.conf = c /\ "video" \in Tracks
  BY DEF NewTag, Tracks
<1>7. ASSUME NEW k \in Tracks PROVE \E x \in S : x.track = k
  <2>1. NewTag("header", k, c) \in S /\ NewTag("header", k, c).track = k
    BY DEF NewTag
  <2> QED BY <2>1
<1>8. todo' = z \o <<t>>
  BY <1>1
<1> HIDE DEF S, z, t, n
<1>9. Len(z) = n /\ Len(<<t>>) = 1 /\ <<t>>[1] = t
  BY DEF n
<1>10. /\ Len(todo') = n + 1 /\ todo'[n + 1] = t
      /\ \A i \in 1..n : todo'[i] = z[i] /\ z[i] \in S
  BY <1>4, <1>8, <1>9
<1>11. KeyDue(todo', "video")
  BY <1>4, <1>6, <1>10 DEF KeyDue
<1>12. Due'
  <2>1. ASSUME NEW i \in 1..Len(todo')
        PROVE  /\ todo'[i].conf = hdr'[todo'[i].track]
               /\ todo'[i].kind = "header" <=> i # Len(todo')
               /\ todo'[i].kind # "header" => todo'[i].track \in entered'
    <3>1. CASE i = n + 1
      BY <1>1, <1>2, <1>6, <1>10, <3>1
    <3>2. CASE i # n + 1
      <4>1. i \in 1..n
        BY <1>4, <1>10, <3>2
      <4> QED BY <1>1, <1>5, <1>10, <3>2, <4>1
    <3> QED BY <3>1, <3>2
  <2> QED BY <1>2, <1>11, <2>1 DEF Due
<1>13. \A h, s : UpToDate(h, s, hdr', todo', entered')
  <2>1. ASSUME NEW k \in Tracks PROVE \E i \in 1..Len(todo') : todo'[i].kind = "header" /\ todo'[i].track = k
    <3>1. PICK x \in S : x.track = k
      BY <1>7
    <3>2. PICK i \in 1..n : z[i] = x
      BY <1>4
    <3>3. i \in 1..Len(todo') /\ todo'[i] = x
      BY <1>4, <1>10, <3>2
    <3> QED BY <1>5, <3>1, <3>3
  <2> QED BY <1>2, <1>11, <2>1 DEF UpToDate
<1>14. /\ Reader' = Reader /\ Has' = Has /\ queue' = queue /\ out' = out /\ wire' = wire
       /\ GapIsNews' /\ Numbered' /\ Decodable'
  BY <1>2, TimelineOnly DEF sinkVars
<1>15. Whole'
  BY <1>13, <1>14 DEF DInv, Whole
<1> QED BY <1>12, <1>14, <1>15 DEF DInv

LEMMA FrameWhole ==
  ASSUME SinkIInv, DInv, NEW k \in Tracks, NEW sort \in {"key", "delta"}, Frame(k, sort) PROVE DInv'
<1> DEFINE t == NewTag(sort, k, hdr[k])
<1>1. /\ todo = <<>> /\ todo' = <<t>> /\ entered' = entered \cup {k} /\ hdr' = hdr
      /\ sort = "key" \/ k \in entered
      /\ UNCHANGED <<conns, snap, writer, wire>> /\ UNCHANGED sinkVars
  BY DEF Frame
<1>2. t.kind = sort /\ t.track = k /\ t.conf = hdr[k]
  BY DEF NewTag
<1> HIDE DEF t
<1>3. Len(todo') = 1 /\ todo'[1] = t /\ 1..Len(todo') = {1}
  BY <1>1
<1>4. Due'
  BY <1>1, <1>2, <1>3 DEF Due
<1>5. ASSUME NEW h, NEW s, UpToDate(h, s, hdr, todo, entered) PROVE UpToDate(h, s, hdr', todo', entered')
  <2>1. Len(todo) = 0
    BY <1>1
  <2>2. (\A j \in Tracks : h[j] = hdr[j]) /\ s \cap entered = {}
    BY <1>1, <1>5, <2>1 DEF UpToDate, KeyDue
  <2>3. \A j \in s \cap entered' : j = k /\ sort = "key"
    BY <1>1, <2>2
  <2>4. sort = "key" => KeyDue(todo', k)
    BY <1>1, <1>2, <1>3 DEF KeyDue
  <2> QED BY <1>1, <2>2, <2>3, <2>4 DEF UpToDate
<1>6. /\ Reader' = Reader /\ Has' = Has /\ queue' = queue /\ out' = out /\ wire' = wire
      /\ GapIsNews' /\ Numbered' /\ Decodable'
  BY <1>1, TimelineOnly DEF sinkVars
<1>7. Whole'
  <2> SUFFICES ASSUME out # 0, wire.lost = {}
               PROVE  /\ Serves(Reader, Has)
                      /\ \E h, s : /\ Reads(queue, h, s) /\ UpToDate(h[Len(queue) + 1], s[Len(queue) + 1], hdr', todo', entered')
                                   /\ h[1] = Reader.headers /\ Reader.tracks \ Has.sound \subseteq s[1]
    BY <1>6 DEF Whole
  <2>1. PICK h, s : /\ Reads(queue, h, s) /\ UpToDate(h[Len(queue) + 1], s[Len(queue) + 1], hdr, todo, entered)
                    /\ h[1] = Reader.headers /\ Reader.tracks \ Has.sound \subseteq s[1]
    BY DEF DInv, Whole
  <2>2. UpToDate(h[Len(queue) + 1], s[Len(queue) + 1], hdr', todo', entered')
    BY <1>5, <2>1, <1>6
  <2> QED BY <2>1, <2>2 DEF DInv, Whole
<1> QED BY <1>4, <1>6, <1>7 DEF DInv

----------------------------------------------------------------------------
\* A tag offered is what the queue, read to its end, is ready for.
LEMMA OfferWhole == SinkIInv /\ DInv /\ Offer => DInv'
<1> SUFFICES ASSUME SinkIInv, DInv, Offer PROVE DInv'
  OBVIOUS
<1> DEFINE t == [Head(todo) EXCEPT !.for = out, !.gap = Full]
           n == Len(queue)
<1>1. /\ todo # <<>> /\ todo \in Seq(Tag) /\ todo' = Tail(todo) /\ Head(todo) = todo[1] /\ todo[1] \in Tag
      /\ UNCHANGED <<hdr, entered, conns, snap, out, seed, gen, closed, writer>>
  BY DEF Offer, SinkIInv, SinkTypeOK
<1>2. /\ t \in Tag /\ t.kind = todo[1].kind /\ t.track = todo[1].track /\ t.conf = todo[1].conf
      /\ t.gap = Full
  <2>1. Full \in BOOLEAN /\ out \in 0..MaxConns
    BY BoundsAssumption DEF SinkIInv, SinkTypeOK, Full
  <2> QED BY <1>1, <2>1 DEF Tag
<1>3. /\ queue \in Seq(Tag) /\ n \in Nat /\ hdr \in Headers /\ wire \in WireType
  BY DEF SinkIInv, SinkTypeOK, WireType
<1>4. /\ Len(todo) \in Nat \ {0} /\ Len(todo') = Len(todo) - 1
      /\ \A i \in 1..Len(todo') : todo'[i] = todo[i + 1] /\ i + 1 \in 1..Len(todo)
      /\ \A i \in 2..Len(todo) : i - 1 \in 1..Len(todo') /\ todo'[i - 1] = todo[i]
  BY <1>1
<1>5. /\ t.conf = hdr[t.track]
      /\ t.kind = "header" <=> Len(todo) # 1
      /\ t.kind # "header" => t.track \in entered
  <2>1. 1 \in 1..Len(todo)
    BY <1>4
  <2> QED BY <1>2, <2>1 DEF DInv, Due
<1> HIDE DEF t, n
<1>6. Due'
  <2>1. ASSUME NEW i \in 1..Len(todo')
        PROVE  /\ todo'[i].conf = hdr'[todo'[i].track]
               /\ todo'[i].kind = "header" <=> i # Len(todo')
               /\ todo'[i].kind # "header" => todo'[i].track \in entered'
    <3>1. i + 1 \in 1..Len(todo) /\ todo'[i] = todo[i + 1] /\ (i # Len(todo') <=> i + 1 # Len(todo))
      BY <1>4
    <3> QED BY <1>1, <3>1 DEF DInv, Due
  <2>2. Len(todo') > 1 => entered' = {"video"} /\ KeyDue(todo', "video")
    <3> SUFFICES ASSUME Len(todo') > 1 PROVE entered' = {"video"} /\ KeyDue(todo', "video")
      OBVIOUS
    <3>1. Len(todo) > 1 /\ Len(todo') \in 1..Len(todo') /\ Len(todo') + 1 = Len(todo)
      BY <1>4
    <3>2. entered = {"video"} /\ KeyDue(todo, "video")
      BY <3>1 DEF DInv, Due
    <3>3. todo'[Len(todo')] = todo[Len(todo)] /\ todo' # <<>>
      BY <1>4, <3>1
    <3> QED BY <1>1, <3>2, <3>3 DEF KeyDue
  <2> QED BY <2>1, <2>2 DEF Due
<1>7. \A k \in Tracks : KeyDue(todo, k) /\ Len(todo) > 1 => KeyDue(todo', k)
  <2> SUFFICES ASSUME NEW k \in Tracks, KeyDue(todo, k), Len(todo) > 1 PROVE KeyDue(todo', k)
    OBVIOUS
  <2>1. Len(todo') \in 1..Len(todo') /\ Len(todo') + 1 = Len(todo)
    BY <1>4
  <2>2. todo'[Len(todo')] = todo[Len(todo)] /\ todo' # <<>>
    BY <1>4, <2>1
  <2> QED BY <2>2 DEF KeyDue
<1>8. ASSUME NEW h \in Headers, NEW s \in SUBSET Tracks, UpToDate(h, s, hdr, todo, entered)
      PROVE  /\ UpToDate(Heads(h, t), Risk(s, t), hdr', todo', entered')
             /\ t.kind # "header" => h[t.track] = t.conf
             /\ t.kind = "delta" => t.track \notin s
  <2>1. CASE t.kind = "header"
    <3>1. Len(todo) > 1 /\ entered = {"video"} /\ KeyDue(todo, "video")
      BY <1>4, <1>5, <2>1 DEF DInv, Due
    <3>2. Heads(h, t) = [h EXCEPT ![t.track] = t.conf]
      BY <2>1 DEF Heads
    <3>3. ASSUME NEW k \in Tracks
          PROVE  \/ Heads(h, t)[k] = hdr'[k]
                 \/ \E i \in 1..Len(todo') : todo'[i].kind = "header" /\ todo'[i].track = k
      <4>1. CASE k = t.track
        BY <1>1, <1>5, <3>2, <4>1 DEF Headers
      <4>2. CASE k # t.track /\ h[k] = hdr[k]
        BY <1>1, <3>2, <4>2 DEF Headers
      <4>3. CASE k # t.track /\ \E i \in 1..Len(todo) : todo[i].kind = "header" /\ todo[i].track = k
        <5>1. PICK i \in 1..Len(todo) : todo[i].kind = "header" /\ todo[i].track = k
          BY <4>3
        <5>2. i \in 2..Len(todo)
          BY <1>2, <1>4, <4>3, <5>1
        <5> QED BY <1>4, <5>1, <5>2
      <4> QED BY <1>8, <4>1, <4>2, <4>3 DEF UpToDate
    <3>4. \A k \in Risk(s, t) \cap entered' : KeyDue(todo', k)
      BY <1>1, <1>7, <3>1 DEF Tracks
    <3> QED BY <2>1, <3>3, <3>4 DEF UpToDate
  <2>2. CASE t.kind # "header"
    <3>1. Len(todo) = 1 /\ Len(todo') = 0 /\ 1..Len(todo') = {} /\ 1..Len(todo) = {1} /\ todo[1].kind # "header"
      BY <1>2, <1>4, <1>5, <2>2
    <3>2. \A k \in Tracks : h[k] = hdr[k]
      BY <1>8, <3>1 DEF UpToDate
    <3>3. \A k \in s \cap entered : t.kind = "key" /\ t.track = k
      BY <1>2, <1>8, <3>1 DEF UpToDate, KeyDue
    <3>4. Heads(h, t) = h
      BY <2>2 DEF Heads
    <3>5. Risk(s, t) \cap entered = {}
      BY <2>2, <3>3 DEF Risk
    <3>6. UpToDate(Heads(h, t), Risk(s, t), hdr', todo', entered')
      BY <1>1, <3>2, <3>4, <3>5 DEF UpToDate
    <3>7. t.kind = "delta" => t.track \notin s
      BY <1>5, <2>2, <3>3
    <3> QED BY <1>2, <1>5, <3>2, <3>6, <3>7 DEF Tag
  <2> QED BY <2>1, <2>2
<1>9. GapIsNews'
  <2>1. CASE out = 0
    <3>1. queue' = queue /\ (overflow => overflow')
      BY <2>1 DEF Offer
    <3> QED BY <3>1 DEF DInv, GapIsNews
  <2>2. CASE out # 0 /\ Full
    <3>1. queue' = <<t>> /\ overflow' /\ Len(<<t>>) = 1
      BY <2>2 DEF Offer, t
    <3>2. \A i \in 1..Len(queue') : i = 1
      BY <3>1
    <3> QED BY <3>1, <3>2 DEF GapIsNews
  <2>3. CASE out # 0 /\ ~Full
    <3>1. queue' = Append(queue, t) /\ (overflow => overflow')
      BY <2>3 DEF Offer, t
    <3>2. Len(queue') = n + 1 /\ queue'[n + 1] = t /\ ~t.gap /\ \A i \in 1..n : queue'[i] = queue[i]
      BY <1>2, <1>3, <2>3, <3>1 DEF n
    <3>3. \A i \in 1..Len(queue') : i = n + 1 \/ i \in 1..n
      BY <1>3, <3>2
    <3> QED BY <3>1, <3>2, <3>3 DEF DInv, GapIsNews, n
  <2> QED BY <2>1, <2>2, <2>3
<1>10. Numbered'
  BY <1>1 DEF DInv, Numbered
<1>11. /\ wire'.lost = {} => wire' = wire
       /\ wire'.lost = {} /\ out # 0 /\ Full => \A i \in 1..n : queue[i].kind # "header"
       /\ wire.lost \subseteq wire'.lost
       /\ wire'.began = wire.began /\ wire'.said = wire.said /\ wire'.sound = wire.sound
  <2>1. \/ wire' = wire /\ ~(out # 0 /\ Full /\ \E i \in 1..n : queue[i].kind = "header")
        \/ wire' = [wire EXCEPT !.lost = wire.lost \cup {"overflow"}]
    BY DEF Offer, n
  <2> QED BY <1>3, <2>1 DEF WireType
<1>12. Decodable'
  <2> SUFFICES ASSUME wire'.lost = {} PROVE ~GivesUndecodable'
    BY DEF Decodable
  <2>1. wire' = wire
    BY <1>11
  <2>2. ~GivesUndecodable
    BY <2>1 DEF DInv, Decodable
  <2> QED BY <1>1, <2>1, <2>2 DEF GivesUndecodable, Heard, AfterTag
<1>13. Whole'
  <2> SUFFICES ASSUME out # 0, wire' = wire, wire.lost = {}
               PROVE  /\ Serves(Reader', Has')
                      /\ \E h, s : /\ Reads(queue', h, s) /\ UpToDate(h[Len(queue') + 1], s[Len(queue') + 1], hdr', todo', entered')
                                   /\ h[1] = Reader'.headers /\ Reader'.tracks \ Has'.sound \subseteq s[1]
    BY <1>1, <1>11 DEF Whole
  <2>1. PICK h, s : /\ Reads(queue, h, s) /\ UpToDate(h[n + 1], s[n + 1], hdr, todo, entered)
                    /\ h[1] = Reader.headers /\ Reader.tracks \ Has.sound \subseteq s[1]
    BY DEF DInv, Whole, n
  <2>2. /\ h \in [1..n + 1 -> Headers] /\ s \in [1..n + 1 -> SUBSET Tracks]
        /\ n + 1 \in 1..n + 1 /\ 1 \in 1..n + 1
    BY <1>3, <2>1 DEF Reads, n
  <2>3. h[n + 1] \in Headers /\ s[n + 1] \in SUBSET Tracks /\ h[1] \in Headers /\ s[1] \in SUBSET Tracks
    BY <2>2
  <2>4. Has' = Has
    BY <1>1 DEF Has, Heard, AfterTag
  <2>5. CASE ~Full
    <3>1. queue' = Append(queue, t) /\ overflow' = overflow
      BY <2>5 DEF Offer, t, SinkIInv, SinkTypeOK
    <3>2. Reader' = Reader
      BY <1>1, <3>1 DEF Reader, Handed, Refreshed
    <3>3. /\ t.kind # "header" => h[n + 1][t.track] = t.conf
          /\ t.kind = "delta" => t.track \notin s[n + 1]
          /\ UpToDate(Heads(h[n + 1], t), Risk(s[n + 1], t), hdr', todo', entered')
      BY <1>8, <2>1, <2>3
    <3>4. PICK g, r : /\ Reads(Append(queue, t), g, r) /\ g[1] = h[1] /\ r[1] = s[1]
                      /\ g[n + 2] = Heads(h[n + 1], t) /\ r[n + 2] = Risk(s[n + 1], t)
      BY <1>2, <1>3, <2>1, <3>3, ReadAppend DEF n
    <3>5. Len(queue') + 1 = n + 2
      BY <1>3, <3>1 DEF n
    <3>6. /\ Reads(queue', g, r) /\ UpToDate(g[Len(queue') + 1], r[Len(queue') + 1], hdr', todo', entered')
          /\ g[1] = Reader'.headers /\ Reader'.tracks \ Has'.sound \subseteq r[1]
      BY <2>1, <2>4, <3>1, <3>2, <3>3, <3>4, <3>5
    <3> QED BY <2>4, <3>2, <3>6 DEF DInv, Whole
  <2>6. CASE Full
    <3>1. queue' = <<t>> /\ overflow' = TRUE
      BY <2>6 DEF Offer, t, SinkIInv, SinkTypeOK
    <3>2. Handed' = Handed /\ gen' = gen /\ seed' = seed /\ out' = out
      BY <1>1 DEF Handed
    <3>3. /\ Handed \in WriterType
          /\ Reader.headers = IF gen THEN seed ELSE Handed.headers
      BY HandedFields
    <3>4. /\ Reader'.headers = Reader.headers /\ Reader'.started = FALSE /\ Reader'.tracks = {}
      <4> DEFINE w == Handed
                 v == IF gen THEN [w EXCEPT !.out = out, !.headers = seed] ELSE w
      <4>1. Reader' = [v EXCEPT !.started = FALSE, !.tracks = {}]
        BY <3>1, <3>2 DEF Reader, Refreshed
      <4> HIDE DEF w
      <4> QED BY <3>3, <4>1 DEF WriterType, w
    <3>5. h[n + 1] = h[1]
      <4>1. \A i \in 1..n : queue[i].kind # "header"
        BY <1>11, <2>6
      <4>2. CASE n = 0
        BY <4>2
      <4>3. CASE n # 0
        BY <1>3, <2>1, <4>1, <4>3 DEF Reads, n
      <4> QED BY <4>2, <4>3
    <3>6. UpToDate(h[1], {}, hdr, todo, entered) /\ {} \in SUBSET Tracks
      BY <2>1, <3>5 DEF UpToDate
    <3>8. /\ t.kind # "header" => h[1][t.track] = t.conf
          /\ UpToDate(Heads(h[1], t), Risk({}, t), hdr', todo', entered')
      BY <1>8, <2>3, <3>6
    <3>9. Len(<<t>>) = 1
      OBVIOUS
    <3>10. PICK p, q : /\ Reads(<<t>>, p, q) /\ p[1] = h[1] /\ q[1] = {}
                      /\ p[2] = Heads(h[1], t) /\ q[2] = Risk({}, t)
      BY <1>2, <2>3, <3>6, <3>8, ReadOne
    <3>11. /\ Reads(queue', p, q) /\ UpToDate(p[Len(queue') + 1], q[Len(queue') + 1], hdr', todo', entered')
           /\ p[1] = Reader'.headers /\ Reader'.tracks \ Has'.sound \subseteq q[1]
      BY <2>1, <3>1, <3>4, <3>8, <3>9, <3>10
    <3>12. Serves(Reader', Has')
      BY <3>4 DEF Serves
    <3> QED BY <3>11, <3>12
  <2> QED BY <2>5, <2>6
<1> QED BY <1>6, <1>9, <1>10, <1>12, <1>13 DEF DInv

----------------------------------------------------------------------------
\* A connection is attached with what the timeline announces, unless a header came in between.
LEMMA SupervisorWhole == SinkIInv /\ DInv /\ Supervisor => DInv'
<1> SUFFICES ASSUME SinkIInv, DInv, Supervisor PROVE DInv'
  OBVIOUS
<1>1. /\ writer \in WriterType /\ wire \in WireType /\ conns \in Nat /\ writer.out \in Nat
      /\ out \in {0, conns} /\ hdr \in Headers /\ gen \in BOOLEAN /\ overflow \in BOOLEAN
  BY BoundsAssumption DEF SinkIInv, SinkTypeOK, WriterType, WireType, Items
<1>2. UNCHANGED <<hdr, entered, todo, writer, overflow>>
  BY DEF Supervisor, Connect, Attach, Detach, Close, timelineVars, sinkVars
<1>3. Due'
  BY <1>2 DEF DInv, Due
<1>4. CASE Connect
  <2>1. /\ out = 0 /\ out' = 0 /\ conns' = conns + 1 /\ UNCHANGED <<wire, gen, queue, seed>>
    BY <1>4 DEF Connect, sinkVars
  <2>2. Whole' /\ GapIsNews'
    BY <1>2, <2>1 DEF DInv, Whole, GapIsNews
  <2>3. Numbered'
    BY <1>1, <1>2, <2>1 DEF DInv, Numbered
  <2>4. Decodable'
    BY <2>1 DEF Decodable, GivesUndecodable, Heard
  <2> QED BY <1>3, <2>2, <2>3, <2>4 DEF DInv
<1>5. CASE Attach
  <2>1. /\ snap.on /\ snap' = NoSnap /\ ~snap'.on /\ out' = conns /\ seed' = snap.headers /\ gen' = TRUE /\ queue' = <<>>
        /\ conns' = conns
        /\ wire' = IF snap.headers # hdr THEN [wire EXCEPT !.lost = wire.lost \cup {"attach"}] ELSE wire
    BY <1>5 DEF Attach, NoSnap
  <2>2. writer.out < conns
    BY <2>1 DEF DInv, Numbered
  <2>3. Numbered'
    BY <1>1, <1>2, <2>1, <2>2 DEF Numbered
  <2>4. Decodable'
    BY <1>1, <1>2, <2>1, <2>2 DEF Decodable, GivesUndecodable, Heard
  <2>5. Len(queue') = 0 /\ 1..Len(queue') = {}
    BY <2>1
  <2>6. GapIsNews'
    BY <2>5 DEF GapIsNews
  <2>7. Whole'
    <3> SUFFICES ASSUME wire'.lost = {}
                 PROVE  /\ Serves(Reader', Has')
                        /\ \E h, s : /\ Reads(queue', h, s)
                                     /\ UpToDate(h[Len(queue') + 1], s[Len(queue') + 1], hdr', todo', entered')
                                     /\ h[1] = Reader'.headers /\ Reader'.tracks \ Has'.sound \subseteq s[1]
      BY DEF Whole
    <3>1. snap.headers = hdr
      BY <1>1, <2>1 DEF WireType
    <3>2. Handed \in WriterType /\ Handed' = Handed
      BY <1>2, HandedFields DEF Handed
    <3>3. Reader'.headers = hdr /\ Reader'.started = FALSE /\ Reader'.tracks = {}
      <4> DEFINE w == Handed
                 v == [w EXCEPT !.out = out', !.headers = seed']
      <4>1. Reader' = [v EXCEPT !.started = FALSE, !.tracks = {}]
        BY <2>1, <3>2 DEF Reader, Refreshed
      <4> HIDE DEF w
      <4> QED BY <2>1, <3>1, <3>2, <4>1 DEF WriterType, w
    <3>4. PICK h, s : Reads(<<>>, h, s) /\ h[1] = hdr /\ s[1] = {}
      <4>1. hdr \in Headers /\ {} \in SUBSET Tracks
        BY <1>1
      <4> QED BY <4>1, ReadNone
    <3>5. UpToDate(h[1], s[1], hdr', todo', entered')
      BY <1>2, <3>4 DEF UpToDate
    <3>6. Reads(queue', h, s)
      BY <2>1, <3>4
    <3>7. Len(queue') + 1 = 1
      BY <2>5
    <3>8. UpToDate(h[Len(queue') + 1], s[Len(queue') + 1], hdr', todo', entered')
      BY <3>5, <3>7
    <3>9. Serves(Reader', Has')
      BY <3>3 DEF Serves
    <3> QED BY <3>3, <3>4, <3>6, <3>8, <3>9
  <2> QED BY <1>3, <2>3, <2>4, <2>6, <2>7 DEF DInv
<1>6. CASE Detach
  <2>1. /\ out # 0 /\ out' = 0 /\ queue' = <<>> /\ UNCHANGED <<conns, snap>>
    BY <1>6 DEF Detach
  <2>2. Len(queue') = 0 /\ 1..Len(queue') = {}
    BY <2>1
  <2>3. Whole' /\ GapIsNews'
    BY <2>1, <2>2 DEF Whole, GapIsNews
  <2>4. Numbered'
    BY <1>2, <2>1 DEF DInv, Numbered
  <2>5. Decodable'
    BY <2>1 DEF Decodable, GivesUndecodable, Heard
  <2> QED BY <1>3, <2>3, <2>4, <2>5 DEF DInv
<1>7. CASE Close
  <2>1. UNCHANGED <<conns, snap, writer, wire>> /\ UNCHANGED <<out, seed, gen, queue, overflow>>
    BY <1>7, <1>2 DEF Close
  <2>2. /\ Reader' = Reader /\ Has' = Has /\ queue' = queue /\ out' = out /\ wire' = wire
        /\ GapIsNews' /\ Numbered' /\ Decodable'
    BY <2>1, TimelineOnly
  <2>3. Whole'
    BY <1>2, <2>2 DEF DInv, Whole
  <2> QED BY <1>3, <2>2, <2>3 DEF DInv
<1> QED BY <1>4, <1>5, <1>6, <1>7 DEF Supervisor

----------------------------------------------------------------------------
\* A tag given loses nothing.
LEMMA AfterLost ==
  ASSUME NEW x \in WireType, NEW w \in WriterType, NEW t \in Tag PROVE After(x, w, t).lost = x.lost
<1> DEFINE b == IF t.gap THEN [x EXCEPT !.sound = {}] ELSE x
           said == [k \in Tracks |-> IF w.headers[k] = NoConf THEN b.said[k] ELSE w.headers[k]]
           g == IF Begins(w, t) THEN [b EXCEPT !.began = TRUE, !.sound = {}, !.said = said] ELSE b
<1>1. b \in WireType /\ b.lost = x.lost
  BY DEF WireType
<1>2. said \in Headers
  BY <1>1 DEF WireType, WriterType, Headers
<1>3. After(x, w, t) = IF Passes(w, t) THEN Given(b, w, t) ELSE b
  BY DEF After
<1> HIDE DEF b
<1>4. Given(b, w, t) =
        IF t.kind = "header" THEN [g EXCEPT !.said[t.track] = t.conf, !.sound = @ \ {t.track}]
        ELSE IF t.kind = "key" THEN [g EXCEPT !.sound = @ \cup {t.track}] ELSE g
  BY DEF Given
<1> HIDE DEF said
<1>5. g \in WireType /\ g.lost = b.lost
  BY <1>1, <1>2 DEF WireType
<1> HIDE DEF g
<1>6. Given(b, w, t).lost = g.lost
  BY <1>4, <1>5 DEF WireType
<1> QED BY <1>1, <1>3, <1>5, <1>6

\* What the writer takes is what its connection can decode.
LEMMA TakeWhole == SinkIInv /\ DInv /\ Take => DInv'
<1> SUFFICES ASSUME SinkIInv, DInv, Take PROVE DInv'
  OBVIOUS
<1> DEFINE t == Head(queue)
           n == Len(queue)
           R == Refreshed(writer)
           w == writer'
<1>1. /\ writer.item = NoTag /\ queue # <<>> /\ w = [R EXCEPT !.item = t] /\ queue' = Tail(queue)
      /\ gen' = FALSE /\ overflow' = FALSE
      /\ UNCHANGED <<hdr, entered, todo, out, seed, closed, conns, snap, wire>>
  BY DEF Take, timelineVars
<1>2. /\ queue \in Seq(Tag) /\ wire \in WireType /\ conns \in Nat /\ writer.out \in Nat /\ out \in {0, conns}
  BY BoundsAssumption DEF SinkIInv, SinkTypeOK, WriterType, WireType, Items
<1>3. /\ t \in Tag /\ t = queue[1] /\ n \in Nat /\ n >= 1 /\ Len(queue') = n - 1
      /\ \A i \in 1..n - 1 : queue'[i] = queue[i + 1] /\ i + 1 \in 1..n /\ i + 1 # 1
  BY <1>1, <1>2
<1>4. t # NoTag
  BY <1>3, Tags
<1>5. R = Reader /\ wire = Has
  BY <1>1 DEF Reader, Handed, Has
<1>6. R \in WriterType /\ R.out = out
  BY RefreshedCurrent
<1>7. R.started = IF gen \/ overflow THEN FALSE ELSE Handed.started
  BY <1>5, HandedFields
<1> HIDE DEF t, n, R, w
<1>8. /\ w \in WriterType /\ w.item = t /\ w.out = out /\ w.started = R.started
      /\ w.tracks = R.tracks /\ w.headers = R.headers
  BY <1>1, <1>3, <1>6 DEF WriterType, Items
<1>9. Reader' = Forwarded(w, t)
  <2>1. Handed' = Forwarded(w, t)
    BY <1>4, <1>8 DEF Handed, w
  <2> QED BY <1>1, <2>1 DEF Reader, Refreshed
<1>10. out # 0 => Has' = After(wire, w, t) /\ AfterTag' = After(wire, w, t)
  BY <1>1, <1>4, <1>8 DEF Has, Heard, AfterTag, After, w
<1>11. t.gap => ~w.started
  <2> SUFFICES ASSUME t.gap PROVE ~w.started
    OBVIOUS
  <2>1. 1 \in 1..n
    BY <1>3
  <2>2. overflow
    BY <1>3, <2>1 DEF DInv, GapIsNews, n
  <2> QED BY <1>7, <1>8, <2>2
<1>12. Due'
  BY <1>1 DEF DInv, Due
<1>13. GapIsNews'
  <2> SUFFICES ASSUME NEW i \in 1..n - 1 PROVE ~queue'[i].gap
    BY <1>3 DEF GapIsNews
  <2> QED BY <1>3 DEF DInv, GapIsNews, n
<1>14. Numbered'
  BY <1>1, <1>2, <1>8 DEF DInv, Numbered, w
<1>15. ASSUME out # 0, wire.lost = {}
       PROVE  /\ Passes(w, t) => ~Undecodable(After(wire, w, t), t)
              /\ Serves(Reader', Has')
              /\ \E h, s : /\ Reads(queue', h, s)
                           /\ UpToDate(h[Len(queue') + 1], s[Len(queue') + 1], hdr', todo', entered')
                           /\ h[1] = Reader'.headers /\ Reader'.tracks \ Has'.sound \subseteq s[1]
  <2>1. Serves(R, wire)
    BY <1>5, <1>15 DEF DInv, Whole
  <2>2. Serves(w, wire)
    BY <1>8, <2>1 DEF Serves
  <2>3. PICK h, s : /\ Reads(queue, h, s) /\ UpToDate(h[n + 1], s[n + 1], hdr, todo, entered)
                    /\ h[1] = w.headers /\ w.tracks \ wire.sound \subseteq s[1]
    BY <1>5, <1>8, <1>15 DEF DInv, Whole, n
  <2>4. /\ s[1] \in SUBSET Tracks
        /\ h[2] = Heads(h[1], t) /\ s[2] = Risk(s[1], t)
        /\ t.kind # "header" => w.headers[t.track] = t.conf
        /\ t.kind = "delta" => t.track \notin s[1]
    <3>1. 1 \in 1..n /\ 1 \in 1..n + 1
      BY <1>3
    <3> QED BY <1>3, <2>3, <3>1 DEF Reads, n
  <2>5. /\ Serves(Forwarded(w, t), After(wire, w, t))
        /\ Forwarded(w, t).tracks \ After(wire, w, t).sound \subseteq Risk(s[1], t)
        /\ Passes(w, t) => ~Undecodable(After(wire, w, t), t)
    BY <1>2, <1>3, <1>8, <1>11, <2>2, <2>3, <2>4, Passing
  <2>6. Forwarded(w, t).headers = h[2]
    BY <1>3, <1>8, <2>3, <2>4, ForwardedFields
  <2>7. PICK g, r : /\ Reads(Tail(queue), g, r) /\ g[1] = h[2] /\ r[1] = s[2]
                    /\ g[Len(Tail(queue)) + 1] = h[n + 1] /\ r[Len(Tail(queue)) + 1] = s[n + 1]
    BY <1>1, <1>2, <2>3, ReadTail DEF n
  <2>8. /\ Reads(queue', g, r)
        /\ UpToDate(g[Len(queue') + 1], r[Len(queue') + 1], hdr', todo', entered')
        /\ g[1] = Reader'.headers /\ Reader'.tracks \ Has'.sound \subseteq r[1]
    BY <1>1, <1>9, <1>10, <1>15, <2>3, <2>4, <2>5, <2>6, <2>7
  <2> QED BY <1>9, <1>10, <1>15, <2>5, <2>8
<1>16. Whole'
  BY <1>1, <1>15 DEF Whole
<1>17. Decodable'
  <2> SUFFICES ASSUME wire'.lost = {}, Heard', Passes(w, t), Undecodable(AfterTag', t) PROVE FALSE
    BY <1>8 DEF Decodable, GivesUndecodable, w
  <2>1. out # 0 /\ wire.lost = {}
    BY <1>1 DEF Heard
  <2> QED BY <1>10, <1>15, <2>1
<1> QED BY <1>12, <1>13, <1>14, <1>16, <1>17 DEF DInv

\* Writing makes true what the reading already counted.
LEMMA WriteWhole == SinkIInv /\ DInv /\ Write => DInv'
<1> SUFFICES ASSUME SinkIInv, DInv, Write PROVE DInv'
  OBVIOUS
<1>1. /\ writer.item # NoTag /\ writer' = Forwarded(writer, writer.item)
      /\ wire' = IF Heard THEN AfterTag ELSE wire
      /\ UNCHANGED <<hdr, entered, todo, conns, snap, out, seed, gen, queue, overflow>>
  BY DEF Write, timelineVars, sinkVars
<1>2. writer \in WriterType /\ wire \in WireType /\ writer.item \in Tag
  BY <1>1 DEF SinkIInv, SinkTypeOK, WriterType, WireType, Items
<1>3. writer'.out = writer.out /\ writer'.item = NoTag
  BY <1>1, <1>2, ForwardedFields
<1>4. Handed' = Handed
  BY <1>1, <1>3 DEF Handed
<1>5. Reader' = Reader
  BY <1>1, <1>4 DEF Reader, Refreshed
<1>6. Has' = Has
  BY <1>1, <1>3 DEF Has
<1>7. wire'.lost = wire.lost
  <2>1. AfterTag = After(wire, writer, writer.item)
    BY DEF AfterTag, After
  <2> QED BY <1>1, <1>2, <2>1, AfterLost
<1>8. Whole'
  BY <1>1, <1>5, <1>6, <1>7 DEF DInv, Whole
<1>9. Due' /\ GapIsNews'
  BY <1>1 DEF DInv, Due, GapIsNews
<1>10. Numbered' /\ Decodable'
  BY <1>1, <1>3 DEF DInv, Numbered, Decodable, GivesUndecodable
<1> QED BY <1>8, <1>9, <1>10 DEF DInv

LEMMA WholeInductive == SinkIInv /\ DInv /\ [SinkNext]_outputVars => DInv'
<1> SUFFICES ASSUME SinkIInv, DInv, [SinkNext]_outputVars PROVE DInv'
  OBVIOUS
<1>1. CASE Timeline
  BY <1>1, OpenWhole, OfferWhole, FrameWhole DEF Timeline
<1>2. CASE Supervisor
  BY <1>2, SupervisorWhole
<1>3. CASE Writer
  BY <1>3, TakeWhole, WriteWhole DEF Writer
<1>4. CASE UNCHANGED outputVars
  <2>1. UNCHANGED <<conns, snap, writer, wire, out, seed, gen, queue, overflow, hdr, todo, entered>>
    BY <1>4 DEF outputVars
  <2>2. /\ Reader' = Reader /\ Has' = Has /\ GapIsNews' /\ Numbered' /\ Decodable'
    BY <2>1, TimelineOnly
  <2>3. Whole' /\ Due'
    BY <2>1, <2>2 DEF DInv, Whole, Due
  <2> QED BY <2>2, <2>3 DEF DInv
<1> QED BY <1>1, <1>2, <1>3, <1>4 DEF SinkNext

\* Everything a connection is given can be decoded, whatever the reconnects, the cuts
\* and the bound of the queue, as long as no header was cleared from the queue and none
\* came between CurrentHeaders and Attach (Offer, Attach, run, forwardTag).
THEOREM GivenDecodable == SinkSpec => []Decodable
<1>1. SinkInit => SinkIInv /\ DInv
  BY SinkInitially, InitiallyWhole
<1>2. SinkIInv /\ DInv /\ [SinkNext]_outputVars => (SinkIInv /\ DInv)'
  BY SinkInductive, WholeInductive
<1>3. SinkIInv /\ DInv => Decodable
  BY DEF DInv
<1> QED BY <1>1, <1>2, <1>3, PTL DEF SinkSpec

=============================================================================
