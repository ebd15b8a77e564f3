-------------------------------- MODULE Hub --------------------------------
(***************************************************************************)
(* The push channel of the dashboard (api/hub.go, serveWS of               *)
(* api/server.go, ws.go). A connection is given a full snapshot when it    *)
(* registers and afterwards what changed of the top-level keys, compared   *)
(* with the last snapshot the hub has seen. One loop builds a snapshot     *)
(* when it is notified or a second has passed; a connection builds its own.*)
(* A snapshot is built with the hub's lock free: the Manager's status is   *)
(* read first, whether OBS is connected last.                              *)
(*                                                                         *)
(* Of the keys of a snapshot two stand for all: the Manager's status and   *)
(* obs_source_connected. A write that takes longer than a second fails;    *)
(* it is modelled as one that left nothing in the socket.                  *)
(***************************************************************************)
EXTENDS Integers, FiniteSets

CONSTANTS
  Clients,     \* dashboards and OBS sources, connected one time or another
  Values,      \* values of the Manager's status
  Ticks,       \* does the timer of the loop fire?
  MayStall,    \* may a client be slow to read?
  Unnotified,  \* may the status change without on_change (load of the processes)?
  MaxChanges,  \* bound: changes of the status
  MaxJoins     \* bound: connections made

ASSUME FlagsAssumption == {Ticks, MayStall, Unnotified} \subseteq BOOLEAN
ASSUME BoundsAssumption == {MaxChanges, MaxJoins} \subseteq Nat
Loop == "loop"
Builders == Clients \cup {Loop}
None == "none"

ASSUME ValuesAssumption == Values # {} /\ None \notin Values
ASSUME ClientsAssumption == Loop \notin Clients

VARIABLES
  status,      \* what manager.Status returns
  conns, marked,   \* h.conns, h.sourceConns
  last,        \* h.last
  event,       \* h.event: a buffered notification
  at,          \* how far each builder of a snapshot is; "on" for a connection that is served
  snap,        \* the snapshot it has built so far
  stalled,     \* connections whose client does not read
  view,        \* what each client was told, None for a key it knows nothing of
  behind,      \* history: connections that were not given a change, and why is known
  changes, joins

vars == <<status, conns, marked, last, event, at, snap, stalled, view, behind, changes, joins>>

Keys == {"status", "source"}
Unknown == [k \in Keys |-> None]
Connected == IF marked # {} THEN "yes" ELSE "no"
\* The snapshot of this moment.
World == [status |-> status, source |-> Connected]

Init ==
  /\ status \in Values
  /\ conns = {} /\ marked = {} /\ last = Unknown /\ event = FALSE
  /\ at = [b \in Builders |-> IF b = Loop THEN "wait" ELSE "off"]
  /\ snap = [b \in Builders |-> Unknown]
  /\ stalled = {} /\ view = [c \in Clients |-> Unknown] /\ behind = {}
  /\ changes = 0 /\ joins = 0

\* Notify: the channel holds one notification.
Notify == event' = TRUE

\* The Manager's status changes; on_change is called for all but the load of processes.
Change ==
  /\ changes < MaxChanges /\ changes' = changes + 1
  /\ status' \in Values \ {status}
  /\ Notify \/ (Unnotified /\ UNCHANGED event)
  /\ UNCHANGED <<conns, marked, last, at, snap, stalled, view, behind, joins>>

----------------------------------------------------------------------------
(* Snapshots and connections.                                              *)

\* Status: the Manager's part of the snapshot.
ReadStatus(b) ==
  /\ \/ b = Loop /\ at[b] = "wait" /\ event /\ event' = FALSE /\ UNCHANGED joins
     \/ b = Loop /\ at[b] = "wait" /\ Ticks /\ UNCHANGED <<event, joins>>
     \/ b \in Clients /\ at[b] = "off" /\ joins < MaxJoins /\ joins' = joins + 1 /\ UNCHANGED event
  /\ at' = [at EXCEPT ![b] = "status"]
  /\ snap' = [snap EXCEPT ![b] = [Unknown EXCEPT !.status = status]]
  /\ UNCHANGED <<status, conns, marked, last, stalled, view, behind, changes>>

\* Plausible defect: the snapshot is sent without the state of OBS.
ReadCountUnset(b) ==
  /\ at[b] = "status" /\ at' = [at EXCEPT ![b] = "built"]
  /\ UNCHANGED <<status, conns, marked, last, event, snap, stalled, view, behind, changes, joins>>

\* The last line of buildSnapshot.
ReadCount(b) ==
  /\ at[b] = "status" /\ at' = [at EXCEPT ![b] = "built"]
  /\ snap' = [snap EXCEPT ![b].source = Connected]
  /\ UNCHANGED <<status, conns, marked, last, event, stalled, view, behind, changes, joins>>

\* Who was not told of a change after c registered: those served, when its snapshot shows one,
\* and c if its own could not be sent.
Behind(c) == ((behind \cup (IF snap[c] # last THEN conns ELSE {})) \ {c}) \cup (stalled \cap {c})

\* Plausible defect: the snapshot the hub has is sent instead of the new one.
RegisterStale(c) ==
  /\ at[c] = "built" /\ at' = [at EXCEPT ![c] = "on"]
  /\ last' = snap[c] /\ conns' = conns \cup {c}
  /\ view' = [view EXCEPT ![c] = IF c \in stalled THEN Unknown ELSE last]
  /\ behind' = Behind(c)
  /\ UNCHANGED <<status, marked, event, snap, stalled, changes, joins>>

\* Register: the new snapshot is the one later changes are counted from, for everybody.
Register(c) ==
  /\ at[c] = "built" /\ at' = [at EXCEPT ![c] = "on"]
  /\ last' = snap[c] /\ conns' = conns \cup {c}
  /\ view' = [view EXCEPT ![c] = IF c \in stalled THEN Unknown ELSE snap[c]]
  /\ behind' = Behind(c)
  /\ UNCHANGED <<status, marked, event, snap, stalled, changes, joins>>

\* register_source: whoever asks is counted, served or not.
MarkSource(c) ==
  /\ at[c] = "on" /\ c \notin marked
  /\ marked' = marked \cup {c} /\ Notify
  /\ UNCHANGED <<status, conns, last, at, snap, stalled, view, behind, changes, joins>>

\* Plausible defect: a connection the hub dropped before is done with.
LeaveOnlyServed(c) ==
  /\ at[c] = "on" /\ at' = [at EXCEPT ![c] = "off"]
  /\ conns' = conns \ {c} /\ marked' = (IF c \in conns THEN marked \ {c} ELSE marked)
  /\ IF c \in marked THEN Notify ELSE UNCHANGED event
  /\ stalled' = stalled \ {c} /\ view' = [view EXCEPT ![c] = Unknown] /\ behind' = behind \ {c}
  /\ UNCHANGED <<status, last, snap, changes, joins>>

\* The connection ends, and serveWS with it (Unregister).
Leave(c) ==
  /\ at[c] = "on" /\ at' = [at EXCEPT ![c] = "off"]
  /\ conns' = conns \ {c} /\ marked' = marked \ {c}
  /\ IF c \in marked THEN Notify ELSE UNCHANGED event
  /\ stalled' = stalled \ {c} /\ view' = [view EXCEPT ![c] = Unknown] /\ behind' = behind \ {c}
  /\ UNCHANGED <<status, last, snap, changes, joins>>

\* A client stops reading for longer than a write may take, and reads on.
Stall(c) ==
  /\ MayStall /\ at[c] # "off"
  /\ stalled' = IF c \in stalled THEN stalled \ {c} ELSE stalled \cup {c}
  /\ UNCHANGED <<status, conns, marked, last, event, at, snap, view, behind, changes, joins>>

\* sendAllLocked: whoever cannot be written to is dropped.
SendAll == conns' = conns \ stalled /\ marked' = marked \ (stalled \cap conns)

\* PushEvent, PushControl, PushMessage: nothing of the snapshot.
Push ==
  /\ conns # {} /\ SendAll
  /\ UNCHANGED <<status, last, event, at, snap, stalled, view, behind, changes, joins>>

\* diffSnapshots: the keys whose values changed.
Delta == {k \in Keys : last[k] # snap[Loop][k]}

\* broadcast, once the snapshot is built.
Broadcast ==
  /\ at[Loop] = "built" /\ at' = [at EXCEPT ![Loop] = "wait"]
  /\ last' = snap[Loop]
  /\ IF Delta = {} \/ conns = {} THEN UNCHANGED <<conns, marked, view>>
     ELSE SendAll /\ view' = [c \in Clients |->
            [k \in Keys |-> IF c \in conns \ stalled /\ k \in Delta THEN snap[Loop][k] ELSE view[c][k]]]
  /\ UNCHANGED <<status, event, snap, stalled, behind, changes, joins>>

LoopStep == ReadStatus(Loop) \/ ReadCount(Loop) \/ Broadcast

Next ==
  \/ Change \/ Push \/ LoopStep
  \/ \E c \in Clients :
       ReadStatus(c) \/ ReadCount(c) \/ Register(c) \/ MarkSource(c) \/ Leave(c) \/ Stall(c)

\* The loop runs for as long as the service does.
Spec == Init /\ [][Next]_vars /\ WF_vars(LoopStep)

----------------------------------------------------------------------------
(* Properties.                                                             *)

Snapshots == [status : Values \cup {None}, source : {"yes", "no", None}]

TypeOK ==
  /\ status \in Values /\ event \in BOOLEAN
  /\ {conns, marked, stalled, behind} \subseteq SUBSET Clients
  /\ last \in Snapshots /\ snap \in [Builders -> Snapshots] /\ view \in [Clients -> Snapshots]
  /\ at \in [Builders -> {"off", "wait", "status", "built", "on"}]
  /\ at[Loop] \notin {"off", "on"} /\ \A c \in Clients : at[c] # "wait"
  /\ \A b \in Builders : at[b] = "built" => None \notin {snap[b][k] : k \in Keys}

\* A connection that was given every change so far knows what the hub counts changes from:
\* its next delta makes its view the whole snapshot.
BaseShared == \A c \in conns \ behind : view[c] = last

\* A connection that has ended is neither served nor counted as OBS (Unregister).
NoneLeft == \A c \in Clients : at[c] # "on" => c \notin conns \cup marked

\* Once nothing changes any more, every such connection ends up with what is the case: a
\* snapshot that was built before another and registered after it is put right by a tick.
Converges == <>[](\A c \in conns \ behind : view[c] = World)

\* Every client that is served does, whoever else comes and goes (the badge of the dashboard
\* calls the connection live, WS_HELP of web/dashboard/shared.js).
AllConverge == <>[](\A c \in conns : view[c] = World)

\* A client that knows some of the snapshot knows all of it: the first delta removes a
\* connection the full snapshot could not be sent to (comment in Register).
NoPartialView == \A c \in Clients : view[c] # Unknown => \A k \in Keys : view[c][k] # None

\* A connection that is open and read from is served: its badge says so (WS_HELP of
\* web/dashboard/shared.js: connected, with state pushes).
OpenIsServed == \A c \in Clients : at[c] = "on" /\ c \notin stalled => c \in conns

=============================================================================
