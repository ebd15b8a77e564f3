--------------------------- MODULE MachineProofs ---------------------------
(***************************************************************************)
(* Safety of the platform state machine for every set of platforms, every  *)
(* channel capacity and every behaviour of the Manager.                    *)
(***************************************************************************)
EXTENDS Machine, TLAPS

(* What holds of one platform between two commands, as a predicate on the  *)
(* fields of its machine and its nodes.                                    *)
Sound(p, m, n) ==
  /\ m.state = "OFFLINE" \/ m.shut => ~n.relay /\ ~n.backup /\ ~n.output
  /\ m.state = "FALLBACK" /\ ~m.shut => n.backup \/ (p \in Ladder /\ m.watching)
  /\ n.output => m.enabled /\ m.gate
  /\ p \notin Ladder /\ m.state # "OFFLINE" /\ ~m.shut /\ m.enabled /\ m.gate => n.output
  /\ m.state = "LIVE" => ~n.backup

AllSound == \A p \in Platforms : Sound(p, mach[p], node[p])

IInv == TypeOK /\ AllSound

\* Each node call keeps the node record well typed.
LEMMA NodeCalls ==
  ASSUME NEW n \in NodeType
  PROVE  /\ StartRelay(n) \in NodeType /\ StopRelay(n) \in NodeType
         /\ StartOutput(n) \in NodeType /\ StopOutput(n) \in NodeType
         /\ BounceOutput(n) \in NodeType
         /\ \A s \in {"none", "relay", "backup"} : SetActive(n, s) \in NodeType
         /\ RequestSwitch(n) \in NodeType
         /\ BackupStart(n) \in NodeType /\ BackupStop(n) \in NodeType
         /\ ResumeCancel(n) \in NodeType
         /\ \A b \in BOOLEAN : ResumeBegin(n, b) \in NodeType
<1>1. StartRelay(n) \in NodeType /\ StopRelay(n) \in NodeType
  BY DEF NodeType, StartRelay, StopRelay
<1>2. StartOutput(n) \in NodeType /\ StopOutput(n) \in NodeType /\ BounceOutput(n) \in NodeType
  BY DEF NodeType, StartOutput, StopOutput, BounceOutput
<1>3. \A s \in {"none", "relay", "backup"} : SetActive(n, s) \in NodeType
  BY DEF NodeType, SetActive
<1>4. /\ RequestSwitch(n) \in NodeType
      /\ BackupStart(n) \in NodeType /\ BackupStop(n) \in NodeType
      /\ ResumeCancel(n) \in NodeType
  BY DEF NodeType, RequestSwitch, BackupStart, BackupStop, ResumeCancel
<1>5. \A b \in BOOLEAN : ResumeBegin(n, b) \in NodeType
  BY DEF NodeType, RequestSwitch, ResumeBegin
<1> QED BY <1>1, <1>2, <1>3, <1>4, <1>5

\* The nodes and the fields of a platform that has been torn down.
LEMMA Teardown ==
  ASSUME NEW p, NEW m \in MachineType, NEW n \in NodeType
  PROVE  /\ Offline(m) \in MachineType
         /\ [Offline(m) EXCEPT !.halted = TRUE] \in MachineType
         /\ TeardownNodes(n) \in NodeType
         /\ Sound(p, Offline(m), TeardownNodes(n))
         /\ Sound(p, [Offline(m) EXCEPT !.halted = TRUE], TeardownNodes(n))
<1>1. /\ Offline(m) \in MachineType
      /\ [Offline(m) EXCEPT !.halted = TRUE] \in MachineType
  BY DEF MachineType, Offline, State
<1>2. TeardownNodes(n) \in NodeType
  BY DEF NodeType, TeardownNodes, ResetTimeline, SetActive, StopOutput, BackupStop, StopRelay
<1>3. /\ Offline(m).state = "OFFLINE"
      /\ [Offline(m) EXCEPT !.halted = TRUE].state = "OFFLINE"
  BY DEF MachineType, Offline
<1>4. /\ TeardownNodes(n).relay = FALSE
      /\ TeardownNodes(n).backup = FALSE
      /\ TeardownNodes(n).output = FALSE
  BY DEF NodeType, TeardownNodes, ResetTimeline, SetActive, StopOutput, BackupStop, StopRelay
<1> QED BY <1>1, <1>2, <1>3, <1>4 DEF Sound

\* A command is taken from a channel and what is left still fits.
LEMMA TakeType ==
  ASSUME IInv, NEW p \in Platforms, NEW c, Take(p, c)
  PROVE  /\ cmds' \in [Platforms -> Seq(ManagerCmds \cup PipelineCmds)]
         /\ \A q \in Platforms : Len(cmds'[q]) <= QueueCap
         /\ mach[p] \in MachineType /\ node[p] \in NodeType
         /\ Sound(p, mach[p], node[p])
         /\ mach[p].shut = FALSE
         /\ UNCHANGED <<dropped, pub>>
<1> DEFINE Cmd == ManagerCmds \cup PipelineCmds
<1>1. cmds[p] \in Seq(Cmd) /\ cmds[p] # <<>> /\ Len(cmds[p]) <= QueueCap
  BY DEF IInv, TypeOK, Take
<1> HIDE DEF Cmd
<1>2. Tail(cmds[p]) \in Seq(Cmd) /\ Len(Tail(cmds[p])) <= QueueCap
  BY <1>1, QueueCapAssumption
<1>3. cmds' = [cmds EXCEPT ![p] = Tail(cmds[p])]
  BY DEF Take
<1>4. /\ cmds' \in [Platforms -> Seq(Cmd)]
      /\ \A q \in Platforms : Len(cmds'[q]) <= QueueCap
  BY <1>2, <1>3 DEF IInv, TypeOK, Cmd
<1>5. mach[p] \in MachineType /\ node[p] \in NodeType /\ Sound(p, mach[p], node[p])
  BY DEF IInv, TypeOK, AllSound
<1>6. mach[p].shut = FALSE
  BY <1>5 DEF Take, MachineType
<1> QED BY <1>4, <1>5, <1>6 DEF Cmd, Take

\* A handler that leaves its platform sound leaves every platform sound.
LEMMA LeaveSound ==
  ASSUME IInv, NEW p \in Platforms, NEW c, Take(p, c),
         NEW m \in MachineType, NEW n \in NodeType, NEW cb \in Callback,
         Sound(p, m, n), Leave(p, m, n, cb)
  PROVE  IInv'
<1> DEFINE k == [m EXCEPT !.left = IF m.left = Running THEN m.left ELSE m.left - 1]
<1>1. k \in MachineType
  BY DEF MachineType, Running
<1>2. Sound(p, k, n)
  BY DEF Sound, MachineType
<1>3. /\ mach' = [mach EXCEPT ![p] = k]
      /\ node' = [node EXCEPT ![p] = n]
      /\ call' = [call EXCEPT ![p] = cb]
  BY DEF Leave
<1> HIDE DEF k
<1>4. TypeOK'
  BY <1>1, <1>3, TakeType DEF IInv, TypeOK
<1>5. AllSound'
  <2> SUFFICES ASSUME NEW q \in Platforms
               PROVE  Sound(q, mach'[q], node'[q])
    BY DEF AllSound
  <2>1. CASE q = p
    BY <1>2, <1>3, <2>1 DEF IInv, TypeOK
  <2>2. CASE q # p
    BY <1>3, <2>2 DEF IInv, TypeOK, AllSound
  <2> QED BY <2>1, <2>2
<1> QED BY <1>4, <1>5 DEF IInv

----------------------------------------------------------------------------
(* The handlers, one lemma each: the nodes and fields a handler leaves are *)
(* well typed and sound.                                                   *)

LEMMA OnSourceAvailableSound ==
  ASSUME IInv, NEW p \in Platforms, OnSourceAvailable(p)
  PROVE  IInv'
<1> DEFINE m == [mach[p] EXCEPT !.oracle = FALSE]
           n == node[p]
           out(x) == IF EffectiveEnabled(m) THEN StartOutput(x) ELSE x
<1>1. /\ Take(p, "source_available") /\ mach[p] \in MachineType /\ n \in NodeType
      /\ Sound(p, mach[p], n) /\ mach[p].shut = FALSE
  BY TakeType DEF OnSourceAvailable
<1>2. m \in MachineType /\ Sound(p, m, n) /\ m.shut = FALSE
  BY <1>1 DEF MachineType, Sound
<1>3. CASE /\ m.state = "FALLBACK"
           /\ \E endReady \in BOOLEAN :
                Leave(p, m, ResumeBegin(out(StartRelay(n)), endReady), "none")
  <2>1. PICK endReady \in BOOLEAN : Leave(p, m, ResumeBegin(out(StartRelay(n)), endReady), "none")
    BY <1>3
  <2>2. out(StartRelay(n)) \in NodeType
    BY <1>1, NodeCalls
  <2>3. ResumeBegin(out(StartRelay(n)), endReady) \in NodeType
    BY <2>2, NodeCalls
  <2>4. Sound(p, m, ResumeBegin(out(StartRelay(n)), endReady))
    BY <1>1, <1>2, <1>3
    DEF Sound, MachineType, NodeType, ResumeBegin, RequestSwitch, StartRelay, StartOutput,
        EffectiveEnabled
  <2> QED BY <1>1, <1>2, <2>1, <2>3, <2>4, LeaveSound DEF Callback
<1>4. CASE /\ m.state = "OFFLINE"
           /\ Leave(p, [m EXCEPT !.halted = FALSE, !.state = "LIVE"],
                    StartRelay(SetActive(BackupStop(out(n)), "relay")), "none")
  <2>1. [m EXCEPT !.halted = FALSE, !.state = "LIVE"] \in MachineType
    BY <1>2 DEF MachineType, State
  <2>2. StartRelay(SetActive(BackupStop(out(n)), "relay")) \in NodeType
    BY <1>1, NodeCalls
  <2>3. Sound(p, [m EXCEPT !.halted = FALSE, !.state = "LIVE"],
              StartRelay(SetActive(BackupStop(out(n)), "relay")))
    BY <1>1, <1>2
    DEF Sound, MachineType, NodeType, SetActive, BackupStop, StartRelay, StartOutput,
        EffectiveEnabled
  <2> QED BY <1>1, <1>4, <2>1, <2>2, <2>3, LeaveSound DEF Callback
<1>5. CASE /\ m.state = "LIVE"
           /\ Leave(p, m, StartRelay(SetActive(BackupStop(n), "relay")), "none")
  <2>1. StartRelay(SetActive(BackupStop(n), "relay")) \in NodeType
    BY <1>1, NodeCalls
  <2>2. Sound(p, m, StartRelay(SetActive(BackupStop(n), "relay")))
    BY <1>1, <1>2, <1>5 DEF Sound, MachineType, NodeType, SetActive, BackupStop, StartRelay
  <2> QED BY <1>1, <1>2, <1>5, <2>1, <2>2, LeaveSound DEF Callback
<1> QED BY <1>3, <1>4, <1>5 DEF OnSourceAvailable

LEMMA OnSwitchedToRelaySound ==
  ASSUME IInv, NEW p \in Platforms, NEW changed \in BOOLEAN, OnSwitchedToRelay(p, changed)
  PROVE  IInv'
<1> DEFINE m == mach[p]
           n == node[p]
           cut == IF ~changed THEN n
                  ELSE IF EffectiveEnabled(m) /\ ~n.failed THEN BounceOutput(SetActive(n, "relay"))
                  ELSE SetActive(n, "relay")
           c == IF changed THEN "switched_params_changed" ELSE "switched_to_relay"
<1>1. /\ Take(p, c) /\ m \in MachineType /\ n \in NodeType
      /\ Sound(p, m, n) /\ m.shut = FALSE
  BY TakeType DEF OnSwitchedToRelay
<1>2. CASE m.state = "FALLBACK" /\ Leave(p, [m EXCEPT !.state = "LIVE"],
                                        BackupStop(ResumeCancel(cut)), "recovered")
  <2>1. [m EXCEPT !.state = "LIVE"] \in MachineType
    BY <1>1 DEF MachineType, State
  <2>2. cut \in NodeType
    BY <1>1, NodeCalls
  <2>3. BackupStop(ResumeCancel(cut)) \in NodeType
    BY <2>2, NodeCalls
  <2>4. Sound(p, [m EXCEPT !.state = "LIVE"], BackupStop(ResumeCancel(cut)))
    BY <1>1, <1>2
    DEF Sound, MachineType, NodeType, SetActive, BackupStop, ResumeCancel, BounceOutput,
        EffectiveEnabled
  <2> QED BY <1>1, <1>2, <2>1, <2>3, <2>4, LeaveSound DEF Callback
<1>3. CASE Leave(p, m, n, "none")
  BY <1>1, <1>3, LeaveSound DEF Callback
<1> QED BY <1>2, <1>3 DEF OnSwitchedToRelay

\* Whatever GoFallback chooses, the platform is covered or down.
LEMMA GoFallbackSound ==
  ASSUME IInv, NEW p \in Platforms, NEW c, Take(p, c), NEW n \in NodeType,
         NEW cb \in Callback, GoFallback(p, n, cb), mach[p].state = "LIVE",
         n.output = node[p].output
  PROVE  IInv'
<1> DEFINE m == mach[p]
           o == m.oracle \/ p \in Aux
           fb == [m EXCEPT !.state = "FALLBACK", !.oracle = o]
           b == SetActive(n, "backup")
           t == fb.tick \/ ~m.watching
           w == [fb EXCEPT !.watching = TRUE, !.tick = t]
<1>1. /\ m \in MachineType /\ Sound(p, m, node[p]) /\ m.shut = FALSE
  BY TakeType
<1>2. b \in NodeType /\ b.output = node[p].output
  BY DEF SetActive, NodeType
<1>3. /\ fb \in MachineType /\ fb.shut = FALSE /\ fb.state = "FALLBACK"
      /\ fb.enabled = m.enabled /\ fb.gate = m.gate
  <2>1. o \in BOOLEAN
    OBVIOUS
  <2> HIDE DEF o
  <2> QED BY <1>1, <2>1 DEF MachineType, State
<1>4. CASE Leave(p, Offline(m), TeardownNodes(b), "unusable")
  BY <1>1, <1>2, <1>4, Teardown, LeaveSound DEF Callback
<1>5. CASE p \in Ladder /\ Leave(p, w, StopOutput(b), cb)
  <2>1. w \in MachineType /\ w.watching = TRUE /\ w.state = "FALLBACK" /\ w.shut = FALSE
    <3>1. t \in BOOLEAN
      OBVIOUS
    <3> HIDE DEF t, fb
    <3> QED BY <1>3, <3>1 DEF MachineType
  <2>2. StopOutput(b) \in NodeType /\ StopOutput(b).output = FALSE
    <3> HIDE DEF b
    <3> QED BY <1>2 DEF StopOutput, NodeType
  <2>3. Sound(p, w, StopOutput(b))
    BY <1>5, <2>1, <2>2 DEF Sound
  <2> QED BY <1>5, <2>1, <2>2, <2>3, LeaveSound
<1>6. CASE Leave(p, fb, BackupStart(b), cb)
  <2>1. BackupStart(b) \in NodeType /\ BackupStart(b).output = node[p].output
        /\ BackupStart(b).backup = TRUE
    <3> HIDE DEF b
    <3> QED BY <1>2 DEF BackupStart, NodeType
  <2>2. Sound(p, fb, BackupStart(b))
    BY <1>1, <1>3, <2>1 DEF Sound
  <2> QED BY <1>3, <1>6, <2>1, <2>2, LeaveSound
<1> QED BY <1>4, <1>5, <1>6 DEF GoFallback

LEMMA OnSourceUnavailableSound ==
  ASSUME IInv, NEW p \in Platforms, OnSourceUnavailable(p)
  PROVE  IInv'
<1> DEFINE m == mach[p]
           n == StopRelay(node[p])
           back == SetActive(ResumeCancel(n), "backup")
<1>1. /\ Take(p, "source_unavailable") /\ m \in MachineType /\ node[p] \in NodeType
      /\ Sound(p, m, node[p]) /\ m.shut = FALSE
  BY TakeType DEF OnSourceUnavailable
<1>2. n \in NodeType /\ Sound(p, m, n) /\ n.output = node[p].output
  BY <1>1 DEF Sound, StopRelay, NodeType
<1>3. back \in NodeType
  BY <1>2, NodeCalls
<1>4. Sound(p, m, back)
  <2> HIDE DEF n
  <2> QED BY <1>2 DEF Sound, SetActive, ResumeCancel, NodeType
<1>5. CASE Leave(p, m, n, "none")
  BY <1>1, <1>2, <1>5, LeaveSound DEF Callback
<1>6. CASE Leave(p, m, back, "none")
  BY <1>1, <1>3, <1>4, <1>6, LeaveSound DEF Callback
<1>7. CASE \/ Leave(p, Offline(m), TeardownNodes(n), "none")
           \/ Leave(p, [Offline(m) EXCEPT !.halted = TRUE], TeardownNodes(n), "gave_up")
  BY <1>1, <1>2, <1>7, Teardown, LeaveSound DEF Callback
<1>8. CASE m.state = "LIVE" /\ GoFallback(p, n, "none")
  BY <1>1, <1>2, <1>8, GoFallbackSound DEF Callback
<1> QED BY <1>5, <1>6, <1>7, <1>8 DEF OnSourceUnavailable

LEMMA OnRelayStalledSound ==
  ASSUME IInv, NEW p \in Platforms, OnRelayStalled(p)
  PROVE  IInv'
<1> DEFINE m == mach[p]
           n == node[p]
<1>1. /\ Take(p, "relay_stalled") /\ m \in MachineType /\ n \in NodeType
      /\ Sound(p, m, n)
  BY TakeType DEF OnRelayStalled
<1>2. CASE Leave(p, m, n, "none")
  BY <1>1, <1>2, LeaveSound DEF Callback
<1>3. CASE Leave(p, Offline(m), TeardownNodes(n), "none")
  BY <1>1, <1>3, Teardown, LeaveSound DEF Callback
<1>4. CASE m.state = "LIVE" /\ GoFallback(p, n, "stalled")
  BY <1>1, <1>4, GoFallbackSound DEF Callback
<1> QED BY <1>2, <1>3, <1>4 DEF OnRelayStalled

LEMMA OnRelayResumedSound ==
  ASSUME IInv, NEW p \in Platforms, OnRelayResumed(p)
  PROVE  IInv'
<1> DEFINE m == mach[p]
           n == node[p]
<1>1. /\ Take(p, "relay_resumed") /\ m \in MachineType /\ n \in NodeType
      /\ Sound(p, m, n)
  BY TakeType DEF OnRelayResumed
<1>2. RequestSwitch(n) \in NodeType /\ Sound(p, m, RequestSwitch(n))
  BY <1>1 DEF RequestSwitch, Sound, NodeType
<1>3. Leave(p, m, IF m.state = "FALLBACK" THEN RequestSwitch(n) ELSE n, "none")
  BY DEF OnRelayResumed
<1> QED BY <1>1, <1>2, <1>3, LeaveSound DEF Callback

LEMMA LadderTickSound ==
  ASSUME IInv, NEW p \in Platforms, LadderTick(p)
  PROVE  IInv'
<1> DEFINE m == mach[p]
           n == SetActive(node[p], "backup")
           off == [m EXCEPT !.watching = FALSE]
           on == BackupStart(IF EffectiveEnabled(m) THEN StartOutput(n) ELSE n)
<1>1. /\ Take(p, "ladder_tick") /\ m \in MachineType /\ node[p] \in NodeType
      /\ Sound(p, m, node[p]) /\ m.shut = FALSE
  BY TakeType DEF LadderTick
<1>2. off \in MachineType /\ [m EXCEPT !.tick = TRUE] \in MachineType
  BY <1>1 DEF MachineType
<1>3. CASE Leave(p, m, node[p], "none")
  BY <1>1, <1>3, LeaveSound DEF Callback
<1>4. CASE m.state # "FALLBACK" /\ Leave(p, off, node[p], "none")
  <2>1. Sound(p, off, node[p])
    BY <1>1, <1>4 DEF Sound, MachineType
  <2> QED BY <1>1, <1>2, <1>4, <2>1, LeaveSound DEF Callback
<1>5. CASE Leave(p, [m EXCEPT !.tick = TRUE], node[p], "none")
  <2>1. Sound(p, [m EXCEPT !.tick = TRUE], node[p])
    BY <1>1 DEF Sound, MachineType
  <2> QED BY <1>1, <1>2, <1>5, <2>1, LeaveSound DEF Callback
<1>6. CASE m.state = "FALLBACK" /\ Leave(p, off, on, "none")
  <2>1. n \in NodeType
    BY <1>1, NodeCalls
  <2>2. on \in NodeType
    BY <2>1, NodeCalls
  <2>3. Sound(p, off, on)
    BY <1>1, <1>6
    DEF Sound, MachineType, NodeType, BackupStart, StartOutput, SetActive, EffectiveEnabled
  <2> QED BY <1>1, <1>2, <1>6, <2>2, <2>3, LeaveSound DEF Callback
<1> QED BY <1>3, <1>4, <1>5, <1>6 DEF LadderTick

\* The handlers that either tear down or do nothing.
LEMMA StopsSound ==
  ASSUME IInv, NEW p \in Platforms, OracleRecheck(p) \/ Halt(p) \/ GracefulStop(p)
  PROVE  IInv'
<1>1. PICK c : Take(p, c)
  BY DEF OracleRecheck, Halt, GracefulStop
<1>2. mach[p] \in MachineType /\ node[p] \in NodeType /\ Sound(p, mach[p], node[p])
  BY <1>1, TakeType
<1>3. CASE Leave(p, mach[p], node[p], "none")
  BY <1>1, <1>2, <1>3, LeaveSound DEF Callback
<1>4. CASE Leave(p, Offline(mach[p]), TeardownNodes(node[p]), "none")
  BY <1>1, <1>2, <1>4, Teardown, LeaveSound DEF Callback
<1> QED BY <1>3, <1>4 DEF OracleRecheck, Halt, GracefulStop

LEMMA OnOutFlappingNeverSound ==
  ASSUME IInv, NEW p \in Platforms, OnOutFlappingNever(p)
  PROVE  IInv'
<1> DEFINE m == mach[p]
           n == [node[p] EXCEPT !.failed = TRUE]
<1>1. /\ Take(p, "out_flapping_never") /\ m \in MachineType /\ node[p] \in NodeType
      /\ Sound(p, m, node[p])
  BY TakeType DEF OnOutFlappingNever
<1>2. n \in NodeType
  BY <1>1 DEF NodeType
<1>3. CASE Leave(p, m, node[p], "none")
  BY <1>1, <1>3, LeaveSound DEF Callback
<1>4. CASE Leave(p, [Offline(m) EXCEPT !.halted = TRUE], TeardownNodes(n), "gave_up")
  BY <1>1, <1>2, <1>4, Teardown, LeaveSound DEF Callback
<1> QED BY <1>3, <1>4 DEF OnOutFlappingNever

LEMMA SetEnabledSound ==
  ASSUME IInv, NEW p \in Platforms, NEW active \in BOOLEAN, SetEnabled(p, active)
  PROVE  IInv'
<1> DEFINE c == IF active THEN "enable" ELSE "disable"
           m == [mach[p] EXCEPT !.enabled = active]
           n == node[p]
           on == IF m.gate /\ OnAir(m) THEN StartOutput(n) ELSE n
           off == StopOutput([n EXCEPT !.failed = FALSE])
<1>1. /\ Take(p, c) /\ mach[p] \in MachineType /\ n \in NodeType
      /\ Sound(p, mach[p], n) /\ mach[p].shut = FALSE
  BY TakeType DEF SetEnabled
<1>2. m \in MachineType
  BY <1>1 DEF MachineType
<1>3. CASE mach[p].enabled = active /\ Leave(p, m, n, "none")
  <2>1. m = mach[p]
    BY <1>1, <1>3 DEF MachineType
  <2> QED BY <1>1, <1>3, <2>1, LeaveSound DEF Callback
<1>4. CASE mach[p].enabled # active /\ active /\ Leave(p, m, on, "none")
  <2>1. on \in NodeType
    BY <1>1, NodeCalls
  <2>2. Sound(p, m, on)
    BY <1>1, <1>4 DEF Sound, MachineType, NodeType, StartOutput, OnAir, State
  <2> QED BY <1>1, <1>2, <1>4, <2>1, <2>2, LeaveSound DEF Callback
<1>5. CASE ~active /\ Leave(p, m, off, "none")
  <2>1. off \in NodeType
    BY <1>1 DEF NodeType, StopOutput
  <2>2. Sound(p, m, off)
    BY <1>1, <1>5 DEF Sound, MachineType, NodeType, StopOutput
  <2> QED BY <1>1, <1>2, <1>5, <2>1, <2>2, LeaveSound DEF Callback
<1> QED BY <1>3, <1>4, <1>5 DEF SetEnabled

LEMMA SetGateSound ==
  ASSUME IInv, NEW p \in Platforms, NEW open \in BOOLEAN, SetGate(p, open)
  PROVE  IInv'
<1> DEFINE c == IF open THEN "gate_open" ELSE "gate_close"
           m == [mach[p] EXCEPT !.gate = open]
           n == node[p]
           on == IF m.enabled /\ OnAir(m) THEN StartOutput(n) ELSE n
           off == StopOutput(n)
<1>1. /\ Take(p, c) /\ mach[p] \in MachineType /\ n \in NodeType
      /\ Sound(p, mach[p], n) /\ mach[p].shut = FALSE
  BY TakeType DEF SetGate
<1>2. m \in MachineType
  BY <1>1 DEF MachineType
<1>3. CASE mach[p].gate = open /\ Leave(p, m, n, "none")
  <2>1. m = mach[p]
    BY <1>1, <1>3 DEF MachineType
  <2> QED BY <1>1, <1>3, <2>1, LeaveSound DEF Callback
<1>4. CASE mach[p].gate # open /\ open /\ Leave(p, m, on, "none")
  <2>1. on \in NodeType
    BY <1>1, NodeCalls
  <2>2. Sound(p, m, on)
    BY <1>1, <1>4 DEF Sound, MachineType, NodeType, StartOutput, OnAir, State
  <2> QED BY <1>1, <1>2, <1>4, <2>1, <2>2, LeaveSound DEF Callback
<1>5. CASE ~open /\ Leave(p, m, off, "none")
  <2>1. off \in NodeType
    BY <1>1, NodeCalls
  <2>2. Sound(p, m, off)
    BY <1>1, <1>5 DEF Sound, MachineType, NodeType, StopOutput
  <2> QED BY <1>1, <1>2, <1>5, <2>1, <2>2, LeaveSound DEF Callback
<1> QED BY <1>3, <1>4, <1>5 DEF SetGate

LEMMA UpdateCredentialsSound ==
  ASSUME IInv, NEW p \in Platforms, UpdateCredentials(p)
  PROVE  IInv'
<1> DEFINE m == mach[p]
           n == node[p]
           on(b) == IF b /\ EffectiveEnabled(m) /\ OnAir(m) THEN BounceOutput(n) ELSE n
<1>1. /\ Take(p, "update_credentials") /\ m \in MachineType /\ n \in NodeType
      /\ Sound(p, m, n) /\ m.shut = FALSE
  BY TakeType DEF UpdateCredentials
<1>2. PICK b \in BOOLEAN : Leave(p, m, on(b), "none")
  BY DEF UpdateCredentials
<1>3. on(b) \in NodeType
  BY <1>1, NodeCalls
<1>4. Sound(p, m, on(b))
  BY <1>1 DEF Sound, MachineType, NodeType, BounceOutput, OnAir, EffectiveEnabled
<1> QED BY <1>1, <1>2, <1>3, <1>4, LeaveSound DEF Callback

LEMMA ApplyPresetSound ==
  ASSUME IInv, NEW p \in Platforms, ApplyPreset(p)
  PROVE  IInv'
<1> DEFINE n == [node[p] EXCEPT !.ready = FALSE]
<1>1. /\ Take(p, "apply_preset") /\ mach[p] \in MachineType /\ node[p] \in NodeType
      /\ Sound(p, mach[p], node[p])
  BY TakeType DEF ApplyPreset
<1>2. n \in NodeType /\ Sound(p, mach[p], n)
  BY <1>1 DEF NodeType, Sound
<1> QED BY <1>1, <1>2, LeaveSound DEF Callback, ApplyPreset

LEMMA HandleSound ==
  ASSUME IInv, NEW p \in Platforms, Handle(p)
  PROVE  IInv'
BY OnSourceAvailableSound, OnSourceUnavailableSound, OnRelayStalledSound, OnRelayResumedSound,
   OnSwitchedToRelaySound, SetEnabledSound, SetGateSound, LadderTickSound, StopsSound,
   UpdateCredentialsSound, ApplyPresetSound, OnOutFlappingNeverSound DEF Handle

----------------------------------------------------------------------------
(* The other goroutines and the Manager.                                   *)

\* A post never outgrows the channel.
LEMMA PostType ==
  ASSUME IInv, NEW p \in Platforms, NEW c \in ManagerCmds \cup PipelineCmds, Post(p, c)
  PROVE  /\ cmds' \in [Platforms -> Seq(ManagerCmds \cup PipelineCmds)]
         /\ \A q \in Platforms : Len(cmds'[q]) <= QueueCap
         /\ dropped' \in [Platforms -> BOOLEAN]
<1> DEFINE Cmd == ManagerCmds \cup PipelineCmds
<1>1. cmds[p] \in Seq(Cmd) /\ Len(cmds[p]) <= QueueCap /\ c \in Cmd
  BY DEF IInv, TypeOK
<1> HIDE DEF Cmd
<1>2. PostTo(p, c, cmds[p]) \in Seq(Cmd) /\ Len(PostTo(p, c, cmds[p])) <= QueueCap
  BY <1>1, QueueCapAssumption DEF PostTo
<1>3. cmds' = [cmds EXCEPT ![p] = PostTo(p, c, cmds[p])]
  BY DEF Post
<1>4. /\ cmds' \in [Platforms -> Seq(Cmd)]
      /\ \A q \in Platforms : Len(cmds'[q]) <= QueueCap
  BY <1>2, <1>3 DEF IInv, TypeOK, Cmd
<1>5. dropped' \in [Platforms -> BOOLEAN]
  <2> DEFINE d == dropped[p] \/ Overflows(p, cmds[p])
  <2>1. d \in BOOLEAN /\ dropped' = [dropped EXCEPT ![p] = d]
    BY DEF Post
  <2> HIDE DEF d
  <2> QED BY <2>1 DEF IInv, TypeOK
<1> QED BY <1>4, <1>5 DEF Cmd

\* A goroutine that touches one platform and keeps what Sound speaks of.
LEMMA OneSound ==
  ASSUME IInv, NEW p \in Platforms, NEW m \in MachineType, NEW n \in NodeType,
         mach' = [mach EXCEPT ![p] = m], node' = [node EXCEPT ![p] = n],
         Sound(p, m, n),
         cmds' \in [Platforms -> Seq(ManagerCmds \cup PipelineCmds)],
         \A q \in Platforms : Len(cmds'[q]) <= QueueCap,
         dropped' \in [Platforms -> BOOLEAN], pub' = pub, call' = call
  PROVE  IInv'
<1>1. TypeOK'
  BY DEF IInv, TypeOK
<1>2. AllSound'
  <2> SUFFICES ASSUME NEW q \in Platforms
               PROVE  Sound(q, mach'[q], node'[q])
    BY DEF AllSound
  <2>1. CASE q = p
    BY <2>1 DEF IInv, TypeOK
  <2>2. CASE q # p
    BY <2>2 DEF IInv, TypeOK, AllSound
  <2> QED BY <2>1, <2>2
<1> QED BY <1>1, <1>2 DEF IInv

\* The pieces of the state a goroutine starts from.
LEMMA At ==
  ASSUME IInv, NEW p \in Platforms
  PROVE  /\ mach[p] \in MachineType /\ node[p] \in NodeType /\ Sound(p, mach[p], node[p])
         /\ mach = [mach EXCEPT ![p] = mach[p]] /\ node = [node EXCEPT ![p] = node[p]]
         /\ cmds \in [Platforms -> Seq(ManagerCmds \cup PipelineCmds)]
         /\ \A q \in Platforms : Len(cmds[q]) <= QueueCap
         /\ dropped \in [Platforms -> BOOLEAN]
BY DEF IInv, TypeOK, AllSound

LEMMA ShutdownSound ==
  ASSUME IInv, NEW p \in Platforms, SeeShutdown(p) \/ DoShutdown(p)
  PROVE  IInv'
<1>1. CASE SeeShutdown(p)
  <2> DEFINE m == [mach[p] EXCEPT !.left = Len(cmds[p])]
  <2>1. Len(cmds[p]) \in Int
    BY At
  <2>2. m \in MachineType /\ Sound(p, m, node[p])
    BY <2>1, At DEF MachineType, Sound
  <2>3. mach' = [mach EXCEPT ![p] = m] /\ UNCHANGED <<node, cmds, call, dropped, pub>>
    BY <1>1 DEF SeeShutdown
  <2> QED BY <2>2, <2>3, At, OneSound
<1>2. CASE DoShutdown(p)
  <2> DEFINE m == [mach[p] EXCEPT !.shut = TRUE, !.oracle = FALSE, !.tick = FALSE]
             n == ShutdownNodes(node[p])
  <2>1. /\ mach' = [mach EXCEPT ![p] = m] /\ node' = [node EXCEPT ![p] = n]
        /\ UNCHANGED <<cmds, call, dropped, pub>>
    BY <1>2 DEF DoShutdown
  <2>2. m \in MachineType /\ m.shut = TRUE
    BY At DEF MachineType
  <2>3. n \in NodeType /\ n.relay = FALSE /\ n.backup = FALSE /\ n.output = FALSE
    BY At DEF NodeType, ShutdownNodes, StopRelay, BackupStop, StopOutput
  <2>4. Sound(p, m, n)
    BY <2>2, <2>3 DEF Sound, MachineType
  <2> QED BY <2>1, <2>2, <2>3, <2>4, At, OneSound
<1> QED BY <1>1, <1>2

\* A goroutine that changes only node fields Sound does not speak of.
LEMMA NodeStepSound ==
  ASSUME IInv, NEW p \in Platforms, NEW n \in NodeType,
         n.relay = node[p].relay, n.backup = node[p].backup, n.output = node[p].output,
         node' = [node EXCEPT ![p] = n], UNCHANGED <<mach, call, pub>>,
         \/ UNCHANGED <<cmds, dropped>>
         \/ \E c \in ManagerCmds \cup PipelineCmds : Post(p, c)
  PROVE  IInv'
<1>1. Sound(p, mach[p], n)
  BY At DEF Sound
<1>2. /\ cmds' \in [Platforms -> Seq(ManagerCmds \cup PipelineCmds)]
      /\ \A q \in Platforms : Len(cmds'[q]) <= QueueCap
      /\ dropped' \in [Platforms -> BOOLEAN]
  BY At, PostType
<1>3. mach' = [mach EXCEPT ![p] = mach[p]] /\ mach[p] \in MachineType
  BY At
<1>4. pub' = pub /\ call' = call
  OBVIOUS
<1> QED BY <1>1, <1>2, <1>3, <1>4, OneSound

LEMMA GoroutinesSound ==
  ASSUME IInv, NEW p \in Platforms, Goroutines(p)
  PROVE  IInv'
<1> DEFINE n == node[p]
<1>1. n \in NodeType
  BY At
<1>2. CASE RelayFlows(p) \/ ReaderEnds(p) \/ RelayStalls(p) \/ RelayResumes(p)
  <2>1. PICK r \in {"none", "flow", "stall"} : node' = [node EXCEPT ![p].reader = r]
    BY <1>2 DEF RelayFlows, ReaderEnds, RelayStalls, RelayResumes
  <2> DEFINE k == [n EXCEPT !.reader = r]
  <2>2. /\ k \in NodeType /\ node' = [node EXCEPT ![p] = k]
        /\ k.relay = n.relay /\ k.backup = n.backup /\ k.output = n.output
    BY <1>1, <2>1 DEF NodeType
  <2>3. /\ UNCHANGED <<mach, call, pub>>
        /\ \/ UNCHANGED <<cmds, dropped>>
           \/ \E c \in ManagerCmds \cup PipelineCmds : Post(p, c)
    BY <1>2 DEF RelayFlows, ReaderEnds, RelayStalls, RelayResumes, PipelineCmds
  <2> HIDE DEF k
  <2> QED BY <2>2, <2>3, NodeStepSound
<1>3. CASE RelayKeyframe(p)
  <2> DEFINE j == [n EXCEPT !.pending = FALSE, !.active = "relay"]
             k == [n EXCEPT !.pending = FALSE]
  <2>1. /\ j \in NodeType /\ j.relay = n.relay /\ j.backup = n.backup /\ j.output = n.output
        /\ k \in NodeType /\ k.relay = n.relay /\ k.backup = n.backup /\ k.output = n.output
    BY <1>1 DEF NodeType
  <2>2. node' = [node EXCEPT ![p] = j] \/ node' = [node EXCEPT ![p] = k]
    BY <1>3 DEF RelayKeyframe
  <2>3. /\ UNCHANGED <<mach, call, pub>>
        /\ \E c \in ManagerCmds \cup PipelineCmds : Post(p, c)
    BY <1>3 DEF RelayKeyframe, PipelineCmds
  <2> HIDE DEF j, k
  <2> QED BY <2>1, <2>2, <2>3, NodeStepSound
<1>4. CASE ResumeArms(p)
  <2>1. PICK again \in BOOLEAN :
          node' = [node EXCEPT ![p] = RequestSwitch([n EXCEPT !.outro = again])]
    BY <1>4 DEF ResumeArms
  <2> DEFINE k == RequestSwitch([n EXCEPT !.outro = again])
  <2>2. /\ k \in NodeType /\ k.relay = n.relay /\ k.backup = n.backup /\ k.output = n.output
    BY <1>1 DEF NodeType, RequestSwitch
  <2>3. UNCHANGED <<mach, call, pub>> /\ UNCHANGED <<cmds, dropped>>
    BY <1>4 DEF ResumeArms
  <2> HIDE DEF k
  <2> QED BY <2>1, <2>2, <2>3, NodeStepSound DEF k
<1>5. CASE ResumeDies(p) \/ OutputConnects(p) \/ SegmentsChange(p)
  <2> DEFINE j == [n EXCEPT !.outro = FALSE]
             k == [n EXCEPT !.running = TRUE]
             l(r) == [n EXCEPT !.ready = r]
  <2>1. /\ j \in NodeType /\ j.relay = n.relay /\ j.backup = n.backup /\ j.output = n.output
        /\ k \in NodeType /\ k.relay = n.relay /\ k.backup = n.backup /\ k.output = n.output
    BY <1>1 DEF NodeType
  <2>2. \A r \in BOOLEAN : /\ l(r) \in NodeType /\ l(r).relay = n.relay
                           /\ l(r).backup = n.backup /\ l(r).output = n.output
    BY <1>1 DEF NodeType
  <2>3. \/ node' = [node EXCEPT ![p] = j]
        \/ node' = [node EXCEPT ![p] = k]
        \/ \E r \in BOOLEAN : node' = [node EXCEPT ![p] = l(r)]
    BY <1>5 DEF ResumeDies, OutputConnects, SegmentsChange
  <2>4. UNCHANGED <<mach, call, pub>> /\ UNCHANGED <<cmds, dropped>>
    BY <1>5 DEF ResumeDies, OutputConnects, SegmentsChange
  <2> HIDE DEF j, k, l
  <2> QED BY <2>1, <2>2, <2>3, <2>4, NodeStepSound
<1>6. CASE OutputDies(p)
  <2>1. PICK long \in {FALSE, n.running} :
          /\ node' = [node EXCEPT ![p].running = FALSE, ![p].ranLong = @ \/ long]
          /\ IF n.ranLong \/ long
             THEN UNCHANGED <<cmds, dropped>>
             ELSE Post(p, "out_flapping_never")
    BY <1>6 DEF OutputDies
  <2> DEFINE r == n.ranLong \/ long
             k == [n EXCEPT !.running = FALSE, !.ranLong = r]
  <2>2. r \in BOOLEAN
    OBVIOUS
  <2>3. node' = [node EXCEPT ![p] = k]
    BY <2>1, <1>1 DEF NodeType
  <2> HIDE DEF r
  <2>4. /\ k \in NodeType /\ k.relay = n.relay /\ k.backup = n.backup /\ k.output = n.output
    BY <1>1, <2>2 DEF NodeType
  <2>5. UNCHANGED <<mach, call, pub>>
    BY <1>6 DEF OutputDies
  <2>6. \/ UNCHANGED <<cmds, dropped>>
        \/ \E c \in ManagerCmds \cup PipelineCmds : Post(p, c)
    BY <2>1 DEF PipelineCmds
  <2> HIDE DEF k
  <2> QED BY <2>3, <2>4, <2>5, <2>6, NodeStepSound
<1>7. CASE OracleFires(p) \/ LadderFires(p)
  <2> DEFINE j == [mach[p] EXCEPT !.oracle = FALSE]
             k == [mach[p] EXCEPT !.tick = FALSE]
  <2>1. /\ j \in MachineType /\ Sound(p, j, n)
        /\ k \in MachineType /\ Sound(p, k, n)
    BY At DEF MachineType, Sound
  <2>2. mach' = [mach EXCEPT ![p] = j] \/ mach' = [mach EXCEPT ![p] = k]
    BY <1>7 DEF OracleFires, LadderFires
  <2>3. /\ \E c \in ManagerCmds \cup PipelineCmds : Post(p, c)
        /\ UNCHANGED <<node, call, pub>>
    BY <1>7 DEF OracleFires, LadderFires, PipelineCmds
  <2>4. /\ cmds' \in [Platforms -> Seq(ManagerCmds \cup PipelineCmds)]
        /\ \A q \in Platforms : Len(cmds'[q]) <= QueueCap
        /\ dropped' \in [Platforms -> BOOLEAN]
    BY <2>3, PostType
  <2>5. /\ node' = [node EXCEPT ![p] = n] /\ call' = call
        /\ pub' = pub
    BY <2>3, At
  <2> HIDE DEF j, k
  <2> QED BY <1>1, <2>1, <2>2, <2>4, <2>5, OneSound
<1> QED BY <1>2, <1>3, <1>4, <1>5, <1>6, <1>7 DEF Goroutines

LEMMA ManagerSound ==
  ASSUME IInv, NEW p \in Platforms, Manager(p)
  PROVE  IInv'
<1>1. UNCHANGED <<mach, node>>
  BY DEF Manager, SourceReady, SourceGone, ManagerCommands, CallReturns
<1>2. AllSound'
  BY <1>1 DEF IInv, AllSound
<1>3. pub' \in [Platforms -> BOOLEAN] /\ call' \in [Platforms -> Callback]
  BY DEF Manager, SourceReady, SourceGone, ManagerCommands, CallReturns, IInv,
         TypeOK, Callback
<1>4. \/ UNCHANGED <<cmds, dropped>>
      \/ \E c \in ManagerCmds \cup PipelineCmds : Post(p, c)
  BY PostsAssumption
  DEF Manager, SourceReady, SourceGone, ManagerCommands, CallReturns, ManagerCmds
<1>5. TypeOK'
  BY <1>1, <1>3, <1>4, At, PostType DEF IInv, TypeOK
<1> QED BY <1>2, <1>5 DEF IInv

----------------------------------------------------------------------------

\* A platform is created OFFLINE with nothing running.
LEMMA InitSound == Init => IInv
<1> SUFFICES ASSUME Init PROVE IInv
  OBVIOUS
<1>1. \A p \in Platforms : \E e, g \in BOOLEAN : mach[p] = NewMachine(e, g)
  BY AtStartAssumption DEF Init
<1>2. \A e, g \in BOOLEAN : NewMachine(e, g) \in MachineType
  BY DEF NewMachine, MachineType, State, Running
<1>3. NewPipeline \in NodeType
  BY DEF NewPipeline, NodeType
<1>4. \A p, e, g : Sound(p, NewMachine(e, g), NewPipeline)
  BY DEF Sound, NewMachine, NewPipeline
<1>5. TypeOK
  <2>1. mach \in [Platforms -> MachineType] /\ node \in [Platforms -> NodeType]
    BY <1>1, <1>2, <1>3 DEF Init
  <2>2. /\ cmds \in [Platforms -> Seq(ManagerCmds \cup PipelineCmds)]
        /\ \A p \in Platforms : Len(cmds[p]) <= QueueCap
    BY QueueCapAssumption DEF Init
  <2>3. /\ call \in [Platforms -> Callback] /\ dropped \in [Platforms -> BOOLEAN]
        /\ pub \in [Platforms -> BOOLEAN]
    BY DEF Init, Callback
  <2> QED BY <2>1, <2>2, <2>3 DEF TypeOK
<1>6. AllSound
  BY <1>1, <1>4 DEF Init, AllSound
<1> QED BY <1>5, <1>6 DEF IInv

LEMMA NextSound == IInv /\ [Next]_vars => IInv'
<1> SUFFICES ASSUME IInv, [Next]_vars PROVE IInv'
  OBVIOUS
<1>1. CASE UNCHANGED vars
  BY <1>1 DEF vars, IInv, TypeOK, AllSound
<1>2. CASE \E p \in Platforms :
             Handle(p) \/ SeeShutdown(p) \/ DoShutdown(p) \/ Goroutines(p) \/ Manager(p)
  BY <1>2, HandleSound, ShutdownSound, GoroutinesSound, ManagerSound
<1> QED BY <1>1, <1>2 DEF Next

\* The inductive invariant holds in every reachable state.
THEOREM Inductive == Spec => []IInv
BY InitSound, NextSound, PTL DEF Spec

\* The fields of Machine and the command channel stay in their types, and no
\* channel outgrows its capacity, for every number of platforms.
THEOREM TypeCorrect == Spec => []TypeOK
<1>1. IInv => TypeOK
  BY DEF IInv
<1> QED BY <1>1, Inductive, PTL

\* After teardownClean, giveUpOnUnreachable or doShutdown nothing of a platform
\* runs, for every set of platforms and every order of commands.
THEOREM Quiet == Spec => []QuietWhenDown
<1>1. IInv => QuietWhenDown
  BY DEF IInv, AllSound, Sound, QuietWhenDown
<1> QED BY <1>1, Inductive, PTL

\* beginFallbackPlayback and ladderTick leave no FALLBACK without its player or
\* the watcher that starts it.
THEOREM Covered == Spec => []FallbackCovered
<1>1. IInv => FallbackCovered
  BY DEF IInv, AllSound, Sound, FallbackCovered
<1> QED BY <1>1, Inductive, PTL

\* setEnabled and setGate, in any order with everything else, never leave a
\* platform pushed against its check box or its group.
THEOREM Gated == Spec => []OutputNeedsGates
<1>1. IInv => OutputNeedsGates
  BY DEF IInv, AllSound, Sound, OutputNeedsGates, EffectiveEnabled
<1> QED BY <1>1, Inductive, PTL

\* An enabled platform without a ladder is pushed whenever it is on air.
THEOREM Pushed == Spec => []OutputOnAir
<1>1. IInv => OutputOnAir
  BY DEF IInv, AllSound, Sound, OutputOnAir, EffectiveEnabled, OnAir
<1> QED BY <1>1, Inductive, PTL

\* The output of a platform follows its two switches.
THEOREM Follows == Spec => []OutputFollowsSwitches
BY Gated, Pushed, PTL DEF OutputFollowsSwitches

\* The backup player never outlives the return to live.
THEOREM Alone == Spec => []LiveAlone
<1>1. IInv => LiveAlone
  BY DEF IInv, AllSound, Sound, LiveAlone
<1> QED BY <1>1, Inductive, PTL

----------------------------------------------------------------------------
(* The machine implements Platform: every step is a move the Manager was   *)
(* promised, with its report, or it shows the Manager nothing.             *)

\* The moves of a platform, by where they begin, where they end and the report.
Promised(from, to, cb) ==
  \/ from = to /\ cb = "none"
  \/ from = "OFFLINE" /\ to = "LIVE" /\ cb = "none"
  \/ from = "LIVE" /\ to = "FALLBACK" /\ cb \in {"none", "stalled"}
  \/ from = "FALLBACK" /\ to = "LIVE" /\ cb = "recovered"
  \/ from \in {"LIVE", "FALLBACK"} /\ to = "OFFLINE" /\ cb = "gave_up"
  \/ from = "LIVE" /\ to = "OFFLINE" /\ cb = "unusable"
  \/ to = "OFFLINE" /\ cb = "none"

\* What the Manager sees of the platforms (the mapping of View).
Seen == [p \in Platforms |-> mach[p].state]

\* A handler whose move is promised takes a step of Platform, or stutters.
LEMMA LeavePromised ==
  ASSUME IInv, NEW p \in Platforms, NEW c, Take(p, c), NEW m \in MachineType, NEW n, NEW cb,
         Leave(p, m, n, cb), Promised(mach[p].state, m.state, cb)
  PROVE  [View!Next]_<<Seen, call>>
<1> DEFINE k == [m EXCEPT !.left = IF m.left = Running THEN m.left ELSE m.left - 1]
           from == mach[p].state
           to == m.state
<1>1. k.state = to
  BY DEF MachineType
<1>2. /\ mach' = [mach EXCEPT ![p] = k] /\ call' = [call EXCEPT ![p] = cb]
      /\ call[p] = "none"
  BY DEF Leave, Take
<1>3. mach \in [Platforms -> MachineType] /\ call \in [Platforms -> Callback] /\ from \in State
  BY DEF IInv, TypeOK, MachineType
<1> HIDE DEF k
<1>4. Seen' = [Seen EXCEPT ![p] = to] /\ Seen[p] = from
  BY <1>1, <1>2, <1>3 DEF Seen
<1>5. CASE from = to /\ cb = "none"
  BY <1>2, <1>3, <1>4, <1>5 DEF Seen
<1>6. CASE ~(from = to /\ cb = "none")
  <2> HIDE DEF from, to
  <2>1. \A S : from \in S => View!Move(p, S, to, cb)
    BY <1>2, <1>4 DEF View!Move, Seen
  <2>2. \/ View!GoLive(p) \/ View!Drop(p) \/ View!Stall(p) \/ View!Return(p)
        \/ View!GiveUp(p) \/ View!Unusable(p) \/ View!End(p)
    BY <1>3, <1>6, <2>1 DEF from, to, Promised, State, View!GoLive, View!Drop, View!Stall, View!Return, View!GiveUp,
       View!Unusable, View!End, View!State
  <2> QED BY <2>2 DEF View!Next
<1> QED BY <1>5, <1>6

LEMMA GoFallbackPromised ==
  ASSUME IInv, NEW p \in Platforms, NEW c, Take(p, c), NEW n, NEW cb \in {"none", "stalled"},
         GoFallback(p, n, cb), mach[p].state = "LIVE"
  PROVE  [View!Next]_<<Seen, call>>
<1> DEFINE m == mach[p]
           o == m.oracle \/ p \in Aux
           fb == [m EXCEPT !.state = "FALLBACK", !.oracle = o]
           t == fb.tick \/ ~m.watching
           w == [fb EXCEPT !.watching = TRUE, !.tick = t]
           b == SetActive(n, "backup")
<1>1. m \in MachineType
  BY At
<1>2. o \in BOOLEAN /\ t \in BOOLEAN
  OBVIOUS
<1>3. \/ Leave(p, Offline(m), TeardownNodes(b), "unusable")
      \/ Leave(p, w, StopOutput(b), cb)
      \/ Leave(p, fb, BackupStart(b), cb)
  BY DEF GoFallback
<1>4. Offline(m) \in MachineType /\ Offline(m).state = "OFFLINE"
  BY <1>1 DEF Offline, MachineType, State
<1> HIDE DEF o
<1>5. fb \in MachineType /\ fb.state = "FALLBACK"
  BY <1>1, <1>2 DEF MachineType, State
<1> HIDE DEF fb, t
<1>6. w \in MachineType /\ w.state = "FALLBACK"
  BY <1>2, <1>5 DEF MachineType
<1>7. CASE Leave(p, Offline(m), TeardownNodes(b), "unusable")
  BY <1>4, <1>7, LeavePromised DEF Promised
<1> HIDE DEF w
<1>8. CASE Leave(p, w, StopOutput(b), cb)
  BY <1>6, <1>8, LeavePromised DEF Promised
<1>9. CASE Leave(p, fb, BackupStart(b), cb)
  BY <1>5, <1>9, LeavePromised DEF Promised
<1> QED BY <1>3, <1>7, <1>8, <1>9

\* The source comes and goes, the relay stalls and resumes.
LEMMA SourcePromised ==
  ASSUME IInv, NEW p \in Platforms,
         \/ OnSourceAvailable(p) \/ OnSourceUnavailable(p)
         \/ OnRelayStalled(p) \/ OnRelayResumed(p)
  PROVE  [View!Next]_<<Seen, call>>
<1>1. mach[p] \in MachineType
  BY At
<1>2. /\ Offline(mach[p]) \in MachineType /\ Offline(mach[p]).state = "OFFLINE"
      /\ [Offline(mach[p]) EXCEPT !.halted = TRUE] \in MachineType
      /\ [Offline(mach[p]) EXCEPT !.halted = TRUE].state = "OFFLINE"
  BY <1>1 DEF Offline, MachineType, State
<1>3. CASE OnSourceAvailable(p)
  <2> DEFINE m == [mach[p] EXCEPT !.oracle = FALSE]
             l == [m EXCEPT !.halted = FALSE, !.state = "LIVE"]
  <2>1. /\ m \in MachineType /\ m.state = mach[p].state
        /\ l \in MachineType /\ l.state = "LIVE"
    BY <1>1 DEF MachineType, State
  <2>2. /\ Take(p, "source_available")
        /\ \/ \E n : Leave(p, m, n, "none")
           \/ m.state = "OFFLINE" /\ \E n : Leave(p, l, n, "none")
    BY <1>3 DEF OnSourceAvailable
  <2> HIDE DEF m, l
  <2>3. CASE \E n : Leave(p, m, n, "none")
    BY <2>1, <2>2, <2>3, LeavePromised DEF Promised
  <2>4. CASE m.state = "OFFLINE" /\ \E n : Leave(p, l, n, "none")
    BY <2>1, <2>2, <2>4, LeavePromised DEF Promised
  <2> QED BY <2>2, <2>3, <2>4
<1>4. CASE OnSourceUnavailable(p)
  <2>1. /\ Take(p, "source_unavailable")
        /\ \/ \E n : Leave(p, mach[p], n, "none")
           \/ \E n : Leave(p, Offline(mach[p]), n, "none")
           \/ /\ mach[p].state = "LIVE"
              /\ \E n : Leave(p, [Offline(mach[p]) EXCEPT !.halted = TRUE], n, "gave_up")
           \/ mach[p].state = "LIVE" /\ \E n : GoFallback(p, n, "none")
    BY <1>4 DEF OnSourceUnavailable
  <2>2. CASE \/ \E n : Leave(p, mach[p], n, "none")
             \/ \E n : Leave(p, Offline(mach[p]), n, "none")
    BY <1>1, <1>2, <2>1, <2>2, LeavePromised DEF Promised
  <2>3. CASE /\ mach[p].state = "LIVE"
             /\ \E n : Leave(p, [Offline(mach[p]) EXCEPT !.halted = TRUE], n, "gave_up")
    BY <1>2, <2>1, <2>3, LeavePromised DEF Promised
  <2>4. CASE mach[p].state = "LIVE" /\ \E n : GoFallback(p, n, "none")
    BY <2>1, <2>4, GoFallbackPromised
  <2> QED BY <2>1, <2>2, <2>3, <2>4
<1>5. CASE OnRelayStalled(p)
  <2>1. /\ Take(p, "relay_stalled")
        /\ \/ \E n : Leave(p, mach[p], n, "none")
           \/ \E n : Leave(p, Offline(mach[p]), n, "none")
           \/ mach[p].state = "LIVE" /\ \E n : GoFallback(p, n, "stalled")
    BY <1>5 DEF OnRelayStalled
  <2>2. CASE \/ \E n : Leave(p, mach[p], n, "none")
             \/ \E n : Leave(p, Offline(mach[p]), n, "none")
    BY <1>1, <1>2, <2>1, <2>2, LeavePromised DEF Promised
  <2>3. CASE mach[p].state = "LIVE" /\ \E n : GoFallback(p, n, "stalled")
    BY <2>1, <2>3, GoFallbackPromised
  <2> QED BY <2>1, <2>2, <2>3
<1>6. CASE OnRelayResumed(p)
  <2>1. Take(p, "relay_resumed") /\ \E n : Leave(p, mach[p], n, "none")
    BY <1>6 DEF OnRelayResumed
  <2> QED BY <1>1, <2>1, LeavePromised DEF Promised
<1> QED BY <1>3, <1>4, <1>5, <1>6

\* The cut back to the relay, the two timers, the switches of the dashboard.
LEMMA CommandPromised ==
  ASSUME IInv, NEW p \in Platforms, NEW b \in BOOLEAN,
         \/ OnSwitchedToRelay(p, b) \/ SetEnabled(p, b) \/ SetGate(p, b)
         \/ LadderTick(p) \/ OracleRecheck(p) \/ Halt(p) \/ GracefulStop(p)
         \/ UpdateCredentials(p) \/ ApplyPreset(p) \/ OnOutFlappingNever(p)
  PROVE  [View!Next]_<<Seen, call>>
<1> DEFINE m == mach[p]
<1>1. m \in MachineType
  BY At
<1>2. /\ Offline(m) \in MachineType /\ Offline(m).state = "OFFLINE"
      /\ [Offline(m) EXCEPT !.halted = TRUE] \in MachineType
      /\ [Offline(m) EXCEPT !.halted = TRUE].state = "OFFLINE"
  BY <1>1 DEF Offline, MachineType, State
<1>3. CASE OnSwitchedToRelay(p, b)
  <2> DEFINE l == [m EXCEPT !.state = "LIVE"]
  <2>1. l \in MachineType /\ l.state = "LIVE"
    BY <1>1 DEF MachineType, State
  <2>2. /\ \E c : Take(p, c)
        /\ \/ m.state = "FALLBACK" /\ \E n : Leave(p, l, n, "recovered")
           \/ \E n : Leave(p, m, n, "none")
    BY <1>3 DEF OnSwitchedToRelay
  <2> HIDE DEF l
  <2>3. CASE m.state = "FALLBACK" /\ \E n : Leave(p, l, n, "recovered")
    BY <2>1, <2>2, <2>3, LeavePromised DEF Promised
  <2>4. CASE \E n : Leave(p, m, n, "none")
    BY <1>1, <2>2, <2>4, LeavePromised DEF Promised
  <2> QED BY <2>2, <2>3, <2>4
<1>4. CASE SetEnabled(p, b) \/ SetGate(p, b)
  <2> DEFINE j == [m EXCEPT !.enabled = b]
             k == [m EXCEPT !.gate = b]
  <2>1. j \in MachineType /\ j.state = m.state /\ k \in MachineType /\ k.state = m.state
    BY <1>1 DEF MachineType
  <2>2. /\ \E c : Take(p, c)
        /\ \E n : Leave(p, j, n, "none") \/ Leave(p, k, n, "none")
    BY <1>4 DEF SetEnabled, SetGate
  <2> HIDE DEF j, k
  <2> QED BY <2>1, <2>2, LeavePromised DEF Promised
<1>5. CASE LadderTick(p)
  <2> DEFINE j == [m EXCEPT !.watching = FALSE]
             k == [m EXCEPT !.tick = TRUE]
  <2>1. j \in MachineType /\ j.state = m.state /\ k \in MachineType /\ k.state = m.state
    BY <1>1 DEF MachineType
  <2>2. /\ Take(p, "ladder_tick")
        /\ \E n : \/ Leave(p, m, n, "none")
                  \/ Leave(p, j, n, "none")
                  \/ Leave(p, k, n, "none")
    BY <1>5 DEF LadderTick
  <2> HIDE DEF j, k
  <2> QED BY <1>1, <2>1, <2>2, LeavePromised DEF Promised
<1>6. CASE OracleRecheck(p) \/ Halt(p) \/ GracefulStop(p)
  <2>1. /\ \E c : Take(p, c)
        /\ \E n : Leave(p, Offline(m), n, "none") \/ Leave(p, m, n, "none")
    BY <1>6 DEF OracleRecheck, Halt, GracefulStop
  <2> QED BY <1>1, <1>2, <2>1, LeavePromised DEF Promised
<1>7. CASE UpdateCredentials(p) \/ ApplyPreset(p)
  <2>1. (\E c : Take(p, c)) /\ \E n : Leave(p, m, n, "none")
    BY <1>7 DEF UpdateCredentials, ApplyPreset
  <2> QED BY <1>1, <2>1, LeavePromised DEF Promised
<1>8. CASE OnOutFlappingNever(p)
  <2>1. /\ Take(p, "out_flapping_never")
        /\ \/ \E n : Leave(p, m, n, "none")
           \/ /\ m.state \in {"LIVE", "FALLBACK"}
              /\ \E n : Leave(p, [Offline(m) EXCEPT !.halted = TRUE], n, "gave_up")
    BY <1>1, <1>8 DEF OnOutFlappingNever, MachineType, State
  <2> QED BY <1>1, <1>2, <2>1, LeavePromised DEF Promised
<1> QED BY <1>3, <1>4, <1>5, <1>6, <1>7, <1>8

\* What is no handler shows the Manager nothing, but for the end of its own call.
LEMMA OthersPromised ==
  ASSUME IInv, NEW p \in Platforms,
         SeeShutdown(p) \/ DoShutdown(p) \/ Goroutines(p) \/ Manager(p)
  PROVE  [View!Next]_<<Seen, call>>
<1>1. mach \in [Platforms -> MachineType] /\ mach[p] \in MachineType
  BY At DEF IInv, TypeOK
<1>2. CASE SeeShutdown(p) \/ DoShutdown(p) \/ OracleFires(p) \/ LadderFires(p)
  <2>1. \A q \in Platforms : mach'[q].state = mach[q].state
    <3>1. CASE SeeShutdown(p)
      BY <1>1, <3>1 DEF SeeShutdown, MachineType
    <3>2. CASE DoShutdown(p)
      BY <1>1, <3>2 DEF DoShutdown, MachineType
    <3>3. CASE OracleFires(p)
      BY <1>1, <3>3 DEF OracleFires, MachineType
    <3>4. CASE LadderFires(p)
      BY <1>1, <3>4 DEF LadderFires, MachineType
    <3> QED BY <1>2, <3>1, <3>2, <3>3, <3>4
  <2>2. call' = call
    BY <1>2 DEF SeeShutdown, DoShutdown, OracleFires, LadderFires
  <2> QED BY <2>1, <2>2 DEF Seen
<1>3. CASE CallReturns(p)
  BY <1>3 DEF CallReturns, View!CallReturns, View!Next, Seen
<1>4. CASE UNCHANGED <<mach, call>>
  BY <1>4 DEF Seen
<1> QED BY <1>2, <1>3, <1>4
        DEF Goroutines, Manager, RelayFlows, ReaderEnds, RelayStalls, RelayResumes, RelayKeyframe,
            ResumeArms, ResumeDies, OutputConnects, OutputDies, SegmentsChange, SourceReady,
            SourceGone, ManagerCommands

\* The state machine implements what the Manager was promised: every handler, in
\* every order of commands, timers and goroutines, makes one of the moves of
\* Platform with the callback that reports it, or none.
THEOREM Implements == Spec => ImplementsPlatform
<1>1. Init => View!Init
  <2> SUFFICES ASSUME Init PROVE View!Init
    OBVIOUS
  <2>1. \A p \in Platforms : mach[p].state = "OFFLINE"
    BY DEF Init, NewMachine
  <2> QED BY <2>1 DEF Init, View!Init
<1>2. IInv /\ [Next]_vars => [View!Next]_<<Seen, call>>
  <2> SUFFICES ASSUME IInv, [Next]_vars PROVE [View!Next]_<<Seen, call>>
    OBVIOUS
  <2>1. CASE UNCHANGED vars
    BY <2>1 DEF vars, Seen
  <2>2. CASE Next
    <3>1. PICK p \in Platforms :
            Handle(p) \/ SeeShutdown(p) \/ DoShutdown(p) \/ Goroutines(p) \/ Manager(p)
      BY <2>2 DEF Next
    <3> QED BY <3>1, SourcePromised, CommandPromised, OthersPromised DEF Handle
  <2> QED BY <2>1, <2>2
<1>3. <<Seen, call>> = <<[p \in Platforms |-> mach[p].state], call>>
  BY DEF Seen
<1> QED BY <1>1, <1>2, <1>3, Inductive, PTL DEF Spec, ImplementsPlatform, View!Spec, Seen

============================================================================
