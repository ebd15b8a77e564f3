--------------------------- MODULE DashboardProofs ---------------------------
(***************************************************************************)
(* The hub: for any number of dashboards and of changes, a connection that *)
(* has ended is neither served nor counted, and one that was given every   *)
(* change knows what the hub counts changes from.                          *)
(*                                                                         *)
(* The registry: whatever the commands are, what is in memory is on disk;  *)
(* and as long as no command is begun while another is under way, what a   *)
(* platform refers to exists, and it knows of a source that is on air.     *)
(***************************************************************************)
EXTENDS Hub, Registry, TLAPS


----------------------------------------------------------------------------
(* The hub.                                                                *)

\* The Manager's status is read before a snapshot is completed.
StatusRead == \A b \in Builders : at[b] = "status" => snap[b].status # None

HubInv == TypeOK /\ StatusRead /\ NoneLeft /\ BaseShared

LEMMA UnknownIsSnapshot == Unknown \in Snapshots
BY DEF Unknown, Snapshots, Keys

\* Snapshots are told apart by their keys.
LEMMA SnapshotEquality ==
  ASSUME NEW s \in Snapshots, NEW t \in Snapshots, \A k \in Keys : s[k] = t[k] PROVE s = t
BY DEF Snapshots, Keys

\* What a client has of one snapshot and what of another make a snapshot.
LEMMA SnapshotMix ==
  ASSUME NEW s \in Snapshots, NEW t \in Snapshots, NEW D \in SUBSET Keys
  PROVE  [k \in Keys |-> IF k \in D THEN s[k] ELSE t[k]] \in Snapshots
BY DEF Snapshots, Keys

LEMMA HubInitially == Init => HubInv
<1> SUFFICES ASSUME Init PROVE HubInv
  OBVIOUS
<1>1. TypeOK
  BY UnknownIsSnapshot, ClientsAssumption DEF Init, TypeOK, Builders
<1>2. StatusRead /\ NoneLeft /\ BaseShared
  BY DEF Init, StatusRead, NoneLeft, BaseShared, Builders
<1> QED BY <1>1, <1>2 DEF HubInv

\* Nothing of the connections changes.
LEMMA QuietKeeps == HubInv /\ (Change \/ UNCHANGED vars) => HubInv'
BY DEF HubInv, TypeOK, StatusRead, NoneLeft, BaseShared, Change, Notify, vars

LEMMA ReadStatusKeeps == ASSUME HubInv, NEW b \in Builders, ReadStatus(b) PROVE HubInv'
<1> USE DEF HubInv
<1>1. [Unknown EXCEPT !.status = status] \in Snapshots
  BY DEF Unknown, Snapshots, Keys, TypeOK
<1>2. snap' \in [Builders -> Snapshots] /\ event' \in BOOLEAN
  BY <1>1 DEF ReadStatus, TypeOK
<1>3. TypeOK'
  BY <1>2, ClientsAssumption DEF ReadStatus, TypeOK, Builders
<1>4. NoneLeft'
  BY ClientsAssumption DEF ReadStatus, NoneLeft, TypeOK, Builders
<1>5. BaseShared'
  BY DEF ReadStatus, BaseShared
<1>6. StatusRead'
  BY ValuesAssumption DEF ReadStatus, StatusRead, TypeOK, Unknown, Keys
<1> QED BY <1>3, <1>4, <1>5, <1>6

LEMMA ReadCountKeeps == ASSUME HubInv, NEW b \in Builders, ReadCount(b) PROVE HubInv'
<1> USE DEF HubInv
<1>1. Connected \in {"yes", "no"}
  BY DEF Connected
<1>2. [snap[b] EXCEPT !.source = Connected] \in Snapshots
  BY <1>1 DEF TypeOK, Snapshots
<1>3. snap' \in [Builders -> Snapshots]
  BY <1>2 DEF ReadCount, TypeOK
<1>4. None \notin {snap'[b][k] : k \in Keys}
  <2>1. snap[b].status # None /\ Connected # None
    BY <1>1 DEF ReadCount, StatusRead, None
  <2>2. snap'[b] = [snap[b] EXCEPT !.source = Connected]
    BY DEF ReadCount, TypeOK
  <2> QED BY <2>1, <2>2 DEF Keys, Snapshots, TypeOK
<1>5. TypeOK'
  BY <1>3, <1>4, ClientsAssumption DEF ReadCount, TypeOK, Builders
<1>6. NoneLeft' /\ BaseShared' /\ StatusRead'
  BY ClientsAssumption DEF ReadCount, NoneLeft, BaseShared, StatusRead, TypeOK, Builders
<1> QED BY <1>5, <1>6

\* A connection registers with the snapshot that becomes the base of the next delta.
LEMMA RegisterKeeps == ASSUME HubInv, NEW c \in Clients, Register(c) PROVE HubInv'
<1> USE DEF HubInv
<1>1. c \in Builders /\ snap[c] \in Snapshots
  BY DEF TypeOK, Builders
<1>2. behind' \subseteq Clients
  BY DEF Register, Behind, TypeOK
<1>3. view' \in [Clients -> Snapshots]
  BY <1>1, UnknownIsSnapshot DEF Register, TypeOK
<1>4. TypeOK'
  BY <1>1, <1>2, <1>3, ClientsAssumption DEF Register, TypeOK, Builders
<1>5. NoneLeft'
  BY <1>1 DEF Register, NoneLeft, TypeOK
<1>6. ASSUME NEW d \in Clients, d \in conns' \ behind' PROVE view'[d] = last'
  <2>1. CASE d = c
    BY <1>6, <2>1 DEF Register, Behind, TypeOK
  <2>2. CASE d # c
    <3>1. d \in conns \ behind /\ snap[c] = last
      BY <1>6, <2>2 DEF Register, Behind
    <3> QED BY <2>2, <3>1 DEF Register, BaseShared, TypeOK
  <2> QED BY <2>1, <2>2
<1>7. BaseShared'
  BY <1>4, <1>6 DEF BaseShared, TypeOK
<1>8. StatusRead'
  BY <1>1 DEF Register, StatusRead, TypeOK
<1> QED BY <1>4, <1>5, <1>7, <1>8

LEMMA ClientKeeps ==
  ASSUME HubInv, NEW c \in Clients, MarkSource(c) \/ Leave(c) \/ Stall(c) PROVE HubInv'
<1> USE ClientsAssumption DEF HubInv, TypeOK, StatusRead, NoneLeft, BaseShared, Builders, Notify
<1>1. CASE MarkSource(c)
  BY <1>1 DEF MarkSource
<1>2. CASE Leave(c)
  <2>1. view' \in [Clients -> Snapshots] /\ event' \in BOOLEAN
    BY <1>2, UnknownIsSnapshot DEF Leave
  <2>2. TypeOK'
    BY <1>2, <2>1 DEF Leave
  <2>3. NoneLeft' /\ StatusRead'
    BY <1>2 DEF Leave
  <2>4. BaseShared'
    BY <1>2 DEF Leave
  <2> QED BY <2>2, <2>3, <2>4
<1>3. CASE Stall(c)
  BY <1>3 DEF Stall
<1> QED BY <1>1, <1>2, <1>3

LEMMA PushKeeps == HubInv /\ Push => HubInv'
BY DEF HubInv, TypeOK, StatusRead, NoneLeft, BaseShared, Push, SendAll

\* The delta makes the views of those who are served the new snapshot.
LEMMA BroadcastKeeps == HubInv /\ Broadcast => HubInv'
<1> SUFFICES ASSUME HubInv, Broadcast PROVE HubInv'
  OBVIOUS
<1> USE DEF HubInv
<1>1. snap[Loop] \in Snapshots /\ last \in Snapshots /\ Delta \subseteq Keys
  BY DEF TypeOK, Builders, Delta
<1>2. conns' \subseteq conns /\ marked' \subseteq marked
  BY DEF Broadcast, SendAll
<1>3. ASSUME NEW c \in Clients
      PROVE  /\ view'[c] \in Snapshots
             /\ c \in conns' \ behind' => view'[c] = last'
  <2>1. CASE Delta = {} \/ conns = {}
    <3>1. view' = view /\ conns' = conns /\ behind' = behind /\ last' = snap[Loop]
      BY <2>1 DEF Broadcast
    <3>2. CASE Delta = {}
      <4>1. \A k \in Keys : last[k] = snap[Loop][k]
        BY <3>2 DEF Delta
      <4>2. last = snap[Loop]
        BY <1>1, <4>1, SnapshotEquality
      <4> QED BY <3>1, <4>2 DEF TypeOK, BaseShared
    <3>3. CASE conns = {}
      BY <3>1, <3>3 DEF TypeOK
    <3> QED BY <2>1, <3>2, <3>3
  <2>2. CASE ~(Delta = {} \/ conns = {})
    <3> DEFINE D == IF c \in conns \ stalled THEN Delta ELSE {}
    <3>0. /\ conns' = conns \ stalled /\ behind' = behind /\ last' = snap[Loop]
          /\ view' = [d \in Clients |->
               [k \in Keys |-> IF d \in conns \ stalled /\ k \in Delta THEN snap[Loop][k] ELSE view[d][k]]]
      BY <2>2 DEF Broadcast, SendAll
    <3>1. view'[c] = [k \in Keys |-> IF k \in D THEN snap[Loop][k] ELSE view[c][k]]
      BY <3>0
    <3>2. D \in SUBSET Keys /\ view[c] \in Snapshots
      BY <1>1 DEF TypeOK
    <3>3. view'[c] \in Snapshots
      BY <1>1, <3>1, <3>2, SnapshotMix, ZenonT(60)
    <3>4. ASSUME c \in conns' \ behind' PROVE view'[c] = last'
      <4>1. c \in conns \ stalled /\ c \notin behind /\ view[c] = last
        BY <3>0, <3>4 DEF BaseShared
      <4>2. \A k \in Keys : view'[c][k] = snap[Loop][k]
        BY <3>1, <4>1 DEF Delta
      <4> QED BY <1>1, <3>0, <3>3, <4>2, SnapshotEquality
    <3> QED BY <3>3, <3>4
  <2> QED BY <2>1, <2>2
<1>4. view' \in [Clients -> Snapshots]
  <2>1. view' = [c \in Clients |-> view'[c]]
    BY DEF Broadcast, TypeOK
  <2> QED BY <1>3, <2>1
<1>5. TypeOK'
  BY <1>1, <1>2, <1>4, ClientsAssumption DEF Broadcast, TypeOK, Builders
<1>6. NoneLeft'
  BY <1>2, ClientsAssumption DEF Broadcast, NoneLeft, TypeOK, Builders
<1>7. BaseShared'
  BY <1>3, <1>5 DEF BaseShared, TypeOK
<1>8. StatusRead'
  BY ClientsAssumption DEF Broadcast, StatusRead, TypeOK, Builders
<1> QED BY <1>5, <1>6, <1>7, <1>8

LEMMA HubInductive == HubInv /\ [Next]_vars => HubInv'
<1> SUFFICES ASSUME HubInv, [Next]_vars PROVE HubInv'
  OBVIOUS
<1>1. CASE Change \/ UNCHANGED vars
  BY <1>1, QuietKeeps
<1>2. CASE Push
  BY <1>2, PushKeeps
<1>3. CASE LoopStep
  BY <1>3, ReadStatusKeeps, ReadCountKeeps, BroadcastKeeps DEF LoopStep, Builders
<1>4. CASE \E c \in Clients :
             ReadStatus(c) \/ ReadCount(c) \/ Register(c) \/ MarkSource(c) \/ Leave(c) \/ Stall(c)
  BY <1>4, ReadStatusKeeps, ReadCountKeeps, RegisterKeeps, ClientKeeps DEF Builders
<1> QED BY <1>1, <1>2, <1>3, <1>4 DEF Next

LEMMA HubAlways == Spec => []HubInv
BY HubInitially, HubInductive, PTL DEF Spec

\* Every variable of the hub keeps its type, and a snapshot that was built has all its
\* keys (api/hub.go).
THEOREM HubTypes == Spec => []TypeOK
<1>1. HubInv => TypeOK
  BY DEF HubInv
<1> QED BY <1>1, HubAlways, PTL

\* A connection that has ended is neither served nor counted as OBS, however it was
\* dropped before (Unregister).
THEOREM NoneIsLeft == Spec => []NoneLeft
<1>1. HubInv => NoneLeft
  BY DEF HubInv
<1> QED BY <1>1, HubAlways, PTL

\* A connection that was given every change knows what the next delta is counted from
\* (Register, broadcast).
THEOREM BaseIsShared == Spec => []BaseShared
<1>1. HubInv => BaseShared
  BY DEF HubInv
<1> QED BY <1>1, HubAlways, PTL

----------------------------------------------------------------------------
(* The registry: its types.                                                *)

\* The number of an entry is one that was given, its record a runtime.
LEMMA RegisteredIs ==
  ASSUME EntriesTyped, NEW i \in Registered PROVE i \in Entries /\ i \in 1..created /\ entry[i] \in Runtimes
BY RegistryBoundsAssumption DEF EntriesTyped, Registered, Entries, Nobody

LEMMA CommandFields ==
  ASSUME NEW k \in Command
  PROVE  /\ k.kind \in {"add", "remove", "enable", "disable"} => k.name \in Names
         /\ k.kind = "update" => /\ k.name \in Names /\ k.to \in Names /\ k.source \in SourceNames
                                 /\ k.group \in Groups /\ k.preset \in Presets /\ k.topology \in BOOLEAN
         /\ k.kind \in {"add_source", "remove_source", "update_source"} => k.source \in SourceNames
         /\ k.kind = "update_source" => k.to \in SourceNames /\ k.contract \in BOOLEAN
         /\ k.kind \in {"add_group", "remove_group", "enable_group", "disable_group"} => k.group \in Groups
         /\ k.kind \in {"add_preset", "update_preset", "remove_preset"} => k.preset \in Presets
BY DEF Command

LEMMA FormFields ==
  ASSUME FormsTyped, NEW c \in Dashboards
  PROVE  /\ client[c].at = "idle" => client[c] = Idle
         /\ client[c].at = "act" => client[c].cmd \in Command
         /\ client[c].at = "pop" => client[c].name \in Names
         /\ client[c].at = "recreate" => client[c].name \in Names /\ client[c].cfg \in Config
         /\ client[c].at \in {"rewire", "rewired"} => client[c].todo \in SUBSET (1..created)
         /\ client[c].at = "rewired" => client[c].cfg \in Config
BY DEF FormsTyped, Forms, Idle

\* The same platform, but for its check box and what the runtime does.
Alike(d, e) ==
  /\ d.cfg.name = e.cfg.name /\ d.cfg.source = e.cfg.source /\ d.cfg.group = e.cfg.group
  /\ d.cfg.preset = e.cfg.preset /\ d.gate = e.gate

LEMMA GatedIs ==
  ASSUME NEW e \in Runtimes
  PROVE  /\ Gated(e) \in Runtimes /\ Alike(Gated(e), e)
         /\ Gated(e).up = e.up /\ Gated(e).heard = e.heard
BY DEF Gated, Runtimes, Config, Tellings, Alike

LEMMA GroupSays == \A g : GroupEnabled(g) \in BOOLEAN
<1> TAKE g
<1>1. CASE g \in groups.here
  BY <1>1 DEF GroupEnabled
<1>2. CASE g \notin groups.here
  BY <1>2 DEF GroupEnabled
<1> QED BY <1>1, <1>2

LEMMA FreshIs ==
  ASSUME NEW cfg \in Config
  PROVE  /\ Fresh(cfg) \in Runtimes /\ Fresh(cfg).cfg = cfg
         /\ Fresh(cfg).gate = GroupEnabled(cfg.group)
<1>1. GroupEnabled(cfg.group) \in BOOLEAN
  BY GroupSays
<1> QED BY <1>1 DEF Fresh, Runtimes, Told, Tellings, Config

LEMMA NewIs ==
  ASSUME NEW cfg \in Config
  PROVE  /\ New(cfg) \in Runtimes /\ Alike(New(cfg), Fresh(cfg))
         /\ Live(cfg.source) => New(cfg).heard
<1>1. Fresh(cfg) \in Runtimes
  BY FreshIs
<1>2. /\ Gated(Fresh(cfg)) \in Runtimes /\ Alike(Gated(Fresh(cfg)), Fresh(cfg))
  BY <1>1, GatedIs
<1>3. CASE Live(cfg.source)
  <2>1. New(cfg) = [Gated(Fresh(cfg)) EXCEPT !.heard = TRUE]
    BY <1>3 DEF New
  <2> QED BY <1>2, <2>1 DEF Alike, Runtimes
<1>4. CASE ~Live(cfg.source)
  BY <1>1, <1>4 DEF New, Alike
<1> QED BY <1>3, <1>4

LEMMA AppliedIs ==
  ASSUME NEW e \in Runtimes, NEW cfg \in Config
  PROVE  /\ Applied(e, cfg) \in Runtimes /\ Applied(e, cfg).cfg = cfg
         /\ Applied(e, cfg).up = e.up /\ Applied(e, cfg).heard = e.heard
         /\ Applied(e, cfg).gate = IF cfg.group = e.cfg.group THEN e.gate ELSE GroupEnabled(cfg.group)
<1> DEFINE gate == IF cfg.group = e.cfg.group THEN e.gate ELSE GroupEnabled(cfg.group)
<1>1. gate \in BOOLEAN
  BY GroupSays DEF Runtimes
<1>2. Told(cfg, gate) \in Tellings
  BY <1>1 DEF Told, Tellings, Config
<1>3. Applied(e, cfg) = [e EXCEPT !.cfg = cfg, !.gate = gate, !.told = Told(cfg, gate)]
  BY DEF Applied
<1> HIDE DEF gate
<1>4. /\ Applied(e, cfg) \in Runtimes /\ Applied(e, cfg).cfg = cfg
      /\ Applied(e, cfg).up = e.up /\ Applied(e, cfg).heard = e.heard /\ Applied(e, cfg).gate = gate
  BY <1>1, <1>2, <1>3 DEF Runtimes
<1> QED BY <1>4 DEF gate

\* Some entries are changed, none changes its name.
Keeps(e) ==
  /\ e = [i \in Entries |-> e[i]]
  /\ \A i \in Entries : i > created => e[i] = entry[i]
  /\ \A i \in 1..created : e[i] \in Runtimes /\ e[i].cfg.name = entry[i].cfg.name

LEMMA Given ==
  ASSUME EntriesTyped
  PROVE  /\ \A i \in 1..created : i \in Entries /\ i <= created /\ ~(i > created) /\ entry[i] \in Runtimes
         /\ \A i \in Entries : i <= created => i \in 1..created
         /\ \A i \in Entries : ~(i <= created) => i > created /\ entry[i] = NoEntry
<1>1. created \in Nat /\ MaxEntries \in Nat /\ created <= MaxEntries
  BY RegistryBoundsAssumption DEF EntriesTyped
<1>2. \A i \in 1..created : i \in Entries /\ i <= created /\ ~(i > created)
  BY <1>1 DEF Entries
<1>3. \A i \in Entries : /\ (i <= created => i \in 1..created)
                         /\ (~(i <= created) => i > created)
  BY <1>1 DEF Entries
<1> QED BY <1>2, <1>3 DEF EntriesTyped

LEMMA KeptEntries ==
  ASSUME EntriesTyped, Keeps(entry'), created' = created, platforms' = platforms PROVE EntriesTyped'
<1>1. created \in Nat /\ MaxEntries \in Nat /\ created <= MaxEntries
  BY RegistryBoundsAssumption DEF EntriesTyped
<1>2. ASSUME NEW i \in Entries PROVE IF i <= created THEN entry'[i] \in Runtimes ELSE entry'[i] = NoEntry
  <2>1. CASE i <= created
    BY <2>1, Given DEF Keeps
  <2>2. CASE ~(i <= created)
    BY <2>2, Given DEF Keeps
  <2> QED BY <2>1, <2>2
<1>3. ASSUME NEW n \in Names, platforms[n] # Nobody PROVE entry'[platforms[n]].cfg.name = n
  <2>1. platforms[n] \in 1..created
    BY <1>1, <1>3 DEF EntriesTyped, Nobody
  <2> QED BY <1>3, <2>1 DEF EntriesTyped, Keeps
<1> QED BY <1>1, <1>2, <1>3 DEF EntriesTyped, Keeps

\* One entry is exchanged.
Replaces(new, i, e) == new = [entry EXCEPT ![i] = e]

LEMMA ReplaceKeeps ==
  ASSUME EntriesTyped, NEW i \in 1..created, NEW e \in Runtimes, e.cfg.name = entry[i].cfg.name,
         NEW new, Replaces(new, i, e)
  PROVE  Keeps(new) /\ new[i] = e /\ \A j \in Entries : j # i => new[j] = entry[j]
<1>1. i \in Entries
  BY Given
<1>2. new = [j \in Entries |-> new[j]] /\ new[i] = e /\ \A j \in Entries : j # i => new[j] = entry[j]
  BY <1>1 DEF EntriesTyped, Replaces
<1>3. \A j \in Entries : j > created => j # i
  BY Given
<1> QED BY <1>2, <1>3, Given DEF Keeps

\* What the operations do to a platform that exists.
LEMMA ShutIs ==
  ASSUME EntriesTyped, NEW i \in 1..created
  PROVE  /\ Keeps(Shut(i))
         /\ \A j \in 1..created : /\ Alike(Shut(i)[j], entry[j]) /\ Shut(i)[j].cfg = entry[j].cfg
                                  /\ Shut(i)[j].heard = entry[j].heard
                                  /\ Shut(i)[j].up => entry[j].up
<1> DEFINE e == [entry[i] EXCEPT !.up = FALSE]
<1>1. entry[i] \in Runtimes /\ i \in Entries
  BY Given
<1>2. e \in Runtimes /\ e.cfg = entry[i].cfg /\ e.cfg.name = entry[i].cfg.name /\ e.gate = entry[i].gate /\ e.heard = entry[i].heard /\ ~e.up
  BY <1>1 DEF Runtimes
<1>3. Replaces(Shut(i), i, e)
  BY DEF Shut, Replaces
<1> HIDE DEF e
<1>4. Keeps(Shut(i)) /\ Shut(i)[i] = e /\ \A j \in Entries : j # i => Shut(i)[j] = entry[j]
  BY <1>2, <1>3, ReplaceKeeps
<1> QED BY <1>2, <1>4, Given DEF Alike

LEMMA EnabledIs ==
  ASSUME EntriesTyped, NEW i \in 1..created, NEW on \in BOOLEAN, SetEnabled(i, on)
  PROVE  /\ Keeps(entry')
         /\ \A j \in 1..created : /\ Alike(entry'[j], entry[j]) /\ entry'[j].heard = entry[j].heard
                                  /\ entry'[j].up = entry[j].up
<1> DEFINE e == [entry[i] EXCEPT !.cfg.enabled = on, !.told.enabled = on]
<1>1. entry[i] \in Runtimes /\ i \in Entries
  BY Given
<1>2. e \in Runtimes /\ Alike(e, entry[i]) /\ e.heard = entry[i].heard /\ e.up = entry[i].up
  BY <1>1 DEF Runtimes, Alike, Config, Tellings
<1>3. Replaces(entry', i, e)
  BY <1>1 DEF SetEnabled, EntriesTyped, Replaces
<1> HIDE DEF e
<1>4. Keeps(entry') /\ entry'[i] = e /\ \A j \in Entries : j # i => entry'[j] = entry[j]
  BY <1>2, <1>3, ReplaceKeeps DEF Alike
<1> QED BY <1>2, <1>4, Given DEF Alike

LEMMA ChangedKeeps ==
  ASSUME EntriesTyped, NEW new, DOMAIN new \subseteq 1..created,
         \A i \in DOMAIN new : new[i] \in Runtimes /\ new[i].cfg.name = entry[i].cfg.name
  PROVE  Keeps(Changed(new))
<1>1. created \in Nat /\ MaxEntries \in Nat /\ created <= MaxEntries
  BY RegistryBoundsAssumption DEF EntriesTyped
<1>2. Changed(new) = [i \in Entries |-> Changed(new)[i]]
  BY DEF Changed
<1>3. ASSUME NEW i \in Entries, i > created PROVE Changed(new)[i] = entry[i]
  BY <1>1, <1>3 DEF Changed
<1>4. ASSUME NEW i \in 1..created
      PROVE  Changed(new)[i] \in Runtimes /\ Changed(new)[i].cfg.name = entry[i].cfg.name
  BY <1>4, Given DEF Changed
<1> QED BY <1>2, <1>3, <1>4 DEF Keeps

\* An entry for a new platform.
LEMMA InstantiateTyped ==
  ASSUME EntriesTyped, NEW p \in [Names -> 0..created], NEW cfg \in Config, NEW new \in Runtimes,
         new.cfg.name = cfg.name, \A n \in Names : p[n] \in {Nobody, platforms[n]},
         Instantiate(p, cfg, new)
  PROVE  /\ EntriesTyped' /\ created' = created + 1 /\ created + 1 \in Entries
         /\ entry'[created + 1] = new /\ \A i \in 1..created : entry'[i] = entry[i]
         /\ platforms'[cfg.name] = created + 1
         /\ \A n \in Names : n # cfg.name => platforms'[n] = p[n]
<1>1. /\ created \in Nat /\ created < MaxEntries /\ MaxEntries \in Nat /\ cfg.name \in Names
  BY RegistryBoundsAssumption DEF EntriesTyped, Instantiate, Config
<1>2. created' = created + 1 /\ created' \in 0..MaxEntries /\ created + 1 \in Entries
  BY <1>1 DEF Instantiate, Entries
<1>3. /\ entry' = [i \in Entries |-> entry'[i]] /\ entry'[created + 1] = new
      /\ \A i \in Entries : i # created + 1 => entry'[i] = entry[i]
  BY <1>2 DEF Instantiate, EntriesTyped
<1>4. /\ platforms' \in [Names -> 0..created'] /\ platforms'[cfg.name] = created + 1
      /\ \A n \in Names : n # cfg.name => platforms'[n] = p[n]
  BY <1>1, <1>2 DEF Instantiate
<1>5. \A i \in 1..created : entry'[i] = entry[i]
  BY <1>1, <1>3 DEF Entries
<1>6. ASSUME NEW i \in Entries PROVE IF i <= created' THEN entry'[i] \in Runtimes ELSE entry'[i] = NoEntry
  BY <1>1, <1>2, <1>3 DEF EntriesTyped, Entries
<1>7. ASSUME NEW n \in Names, platforms'[n] # Nobody PROVE entry'[platforms'[n]].cfg.name = n
  <2>1. CASE n = cfg.name
    BY <1>3, <1>4, <2>1
  <2>2. CASE n # cfg.name
    <3>1. platforms'[n] = platforms[n] /\ platforms[n] \in 1..created
      BY <1>4, <1>7, <2>2 DEF EntriesTyped, Nobody
    <3> QED BY <1>5, <1>7, <3>1 DEF EntriesTyped
  <2> QED BY <2>1, <2>2
<1>8. EntriesTyped'
  BY <1>2, <1>3, <1>4, <1>6, <1>7 DEF EntriesTyped
<1> QED BY <1>2, <1>3, <1>4, <1>5, <1>8

LEMMA PopIs ==
  ASSUME EntriesTyped, NEW n \in Names
  PROVE  /\ Pop(n) \in [Names -> 0..created] /\ Pop(n)[n] = Nobody
         /\ \A m \in Names : Pop(n)[m] \in {Nobody, platforms[m]}
         /\ \A m \in Names : m # n => Pop(n)[m] = platforms[m]
BY DEF Pop, EntriesTyped, Nobody

LEMMA AppliedTo ==
  ASSUME EntriesTyped, NEW i \in 1..created, NEW cfg \in Config, cfg.name = entry[i].cfg.name,
         Replaces(entry', i, Applied(entry[i], cfg))
  PROVE  /\ Keeps(entry') /\ entry'[i] = Applied(entry[i], cfg)
         /\ \A j \in 1..created : j # i => entry'[j] = entry[j]
<1>1. entry[i] \in Runtimes
  BY Given
<1>2. Applied(entry[i], cfg) \in Runtimes /\ Applied(entry[i], cfg).cfg.name = entry[i].cfg.name
  BY <1>1, AppliedIs
<1>4. \A j \in 1..created : j \in Entries
  BY Given
<1> QED BY <1>2, <1>4, ReplaceKeeps

----------------------------------------------------------------------------
(* Types are kept.                                                         *)

LEMMA MetaKept == ASSUME MetaTyped, UNCHANGED meta PROVE MetaTyped'
BY DEF MetaTyped, meta

LEMMA EntriesKept == ASSUME EntriesTyped, UNCHANGED registry PROVE EntriesTyped'
BY DEF EntriesTyped, registry

\* A connection goes on to another form.
LEMMA Together ==
  ASSUME StateTyped, EntriesTyped', MetaTyped', NEW c \in Dashboards, NEW f \in Forms,
         client' = [client EXCEPT ![c] = f], created' \in {created, created + 1},
         f.at \in {"rewire", "rewired"} => f.todo \subseteq 1..created',
         removed' \subseteq Names, UNCHANGED rest
  PROVE  StateTyped'
<1>1. created \in Nat /\ 1..created \subseteq 1..created'
  BY RegistryBoundsAssumption DEF StateTyped, EntriesTyped
<1>2. FormsTyped'
  BY <1>1 DEF FormsTyped, StateTyped
<1>3. RestTyped'
  BY <1>1 DEF RestTyped, rest, StateTyped
<1> QED BY <1>2, <1>3 DEF StateTyped

LEMMA Finished ==
  ASSUME StateTyped, EntriesTyped', MetaTyped', NEW c \in Dashboards, Done(c),
         created' \in {created, created + 1}, removed' \subseteq Names, UNCHANGED rest
  PROVE  StateTyped'
<1>1. Idle \in Forms /\ Idle.at = "idle"
  BY DEF Idle, Forms
<1> QED BY <1>1, Together DEF Done

LEMMA RegistryInitially == RegistryInit => StateTyped
<1> SUFFICES ASSUME RegistryInit PROVE StateTyped
  OBVIOUS
<1>1. EntriesTyped
  BY RegistryBoundsAssumption DEF RegistryInit, EntriesTyped, Entries, Nobody
<1>2. MetaTyped
  BY DefaultsAssumption DEF RegistryInit, MetaTyped, NoSource
<1>3. FormsTyped
  BY DEF RegistryInit, FormsTyped, Forms, Idle
<1>4. RestTyped
  BY DEF RegistryInit, RestTyped
<1> QED BY <1>1, <1>2, <1>3, <1>4 DEF StateTyped

LEMMA AskTyped ==
  ASSUME StateTyped, NEW c \in Dashboards, Ask(c) PROVE StateTyped'
<1>1. PICK k \in Command : client' = [client EXCEPT ![c] = [at |-> "act", cmd |-> k]]
  BY DEF Ask
<1>2. EntriesTyped' /\ MetaTyped' /\ created' = created
  BY MetaKept, EntriesKept DEF Ask, registry, StateTyped
<1>3. FormsTyped'
  BY <1>1, <1>2 DEF FormsTyped, Forms, StateTyped
<1>4. crowded' \in BOOLEAN
  BY DEF Ask
<1>5. RestTyped'
  BY <1>2, <1>4 DEF RestTyped, Ask, StateTyped
<1> QED BY <1>2, <1>3, <1>5 DEF StateTyped

\* The configuration of a new platform.
LEMMA AddedConfig ==
  ASSUME StateTyped, NEW n \in Names
  PROVE  [name |-> n, source |-> defaultName, group |-> MainGroup, preset |-> MainPreset,
          enabled |-> FALSE] \in Config
BY DefaultsAssumption DEF StateTyped, MetaTyped, Config

LEMMA AddPlatformTyped ==
  ASSUME StateTyped, NEW c \in Dashboards, AddPlatform(c) PROVE StateTyped'
<1> DEFINE n == client[c].cmd.name
           cfg == [name |-> n, source |-> defaultName, group |-> MainGroup, preset |-> MainPreset,
                   enabled |-> FALSE]
<1>1. n \in Names
  BY CommandFields, FormFields DEF AddPlatform, Acts, StateTyped
<1>2. cfg \in Config /\ cfg.name = n
  BY <1>1, AddedConfig
<1>3. /\ Done(c) /\ UNCHANGED meta /\ UNCHANGED rest
      /\ \/ UNCHANGED registry /\ removed' = removed
         \/ Instantiate(platforms, cfg, New(cfg)) /\ removed' = removed \ {n}
  BY DEF AddPlatform, KeepMeta
<1>4. MetaTyped'
  BY <1>3, MetaKept DEF StateTyped
<1>5. removed' \subseteq Names
  BY <1>3 DEF RestTyped, StateTyped
<1>6. CASE UNCHANGED registry
  BY <1>3, <1>4, <1>5, <1>6, EntriesKept, Finished DEF registry, StateTyped
<1>7. CASE Instantiate(platforms, cfg, New(cfg))
  <2> HIDE DEF cfg
  <2>1. New(cfg) \in Runtimes /\ New(cfg).cfg.name = cfg.name
    BY <1>2, NewIs, FreshIs DEF Alike
  <2>2. EntriesTyped' /\ created' = created + 1
    BY <1>2, <1>7, <2>1, InstantiateTyped DEF EntriesTyped, StateTyped
  <2> QED BY <1>3, <1>4, <1>5, <2>2, Finished
<1> QED BY <1>3, <1>6, <1>7

LEMMA UpdatedConfig ==
  ASSUME StateTyped, NEW c \in Dashboards, Acts(c, "update"),
         platforms[client[c].cmd.name] # Nobody
  PROVE  /\ client[c].cmd \in Command /\ client[c].cmd.kind = "update" /\ client[c].cmd.name \in Names
         /\ platforms[client[c].cmd.name] \in 1..created
         /\ entry[platforms[client[c].cmd.name]] \in Runtimes
         /\ entry[platforms[client[c].cmd.name]].cfg.name = client[c].cmd.name
         /\ [name |-> client[c].cmd.to, source |-> client[c].cmd.source,
             group |-> client[c].cmd.group, preset |-> client[c].cmd.preset,
             enabled |-> entry[platforms[client[c].cmd.name]].cfg.enabled] \in Config
<1>1. client[c].cmd \in Command /\ client[c].cmd.kind = "update" /\ client[c].cmd.name \in Names
  BY CommandFields, FormFields DEF Acts, StateTyped
<1>2. /\ platforms[client[c].cmd.name] \in 1..created
      /\ entry[platforms[client[c].cmd.name]].cfg.name = client[c].cmd.name
  BY <1>1 DEF EntriesTyped, Nobody, StateTyped
<1>3. entry[platforms[client[c].cmd.name]] \in Runtimes
  BY <1>2, Given DEF StateTyped
<1>4. entry[platforms[client[c].cmd.name]].cfg.enabled \in BOOLEAN
  BY <1>3 DEF Runtimes, Config
<1> QED BY <1>1, <1>2, <1>3, <1>4, CommandFields DEF Config

LEMMA UpdatePlatformTyped ==
  ASSUME StateTyped, NEW c \in Dashboards, UpdatePlatform(c) PROVE StateTyped'
<1> DEFINE k == client[c].cmd
           i == platforms[k.name]
           cfg == [name |-> k.to, source |-> k.source, group |-> k.group, preset |-> k.preset,
                   enabled |-> entry[i].cfg.enabled]
<1>1. Acts(c, "update") /\ UNCHANGED meta /\ UNCHANGED rest
  BY DEF UpdatePlatform, KeepMeta
<1>2. MetaTyped'
  BY <1>1, MetaKept DEF StateTyped
<1>3. CASE i = Nobody /\ Done(c) /\ UNCHANGED registry /\ UNCHANGED removed
  BY <1>1, <1>2, <1>3, EntriesKept, Finished DEF registry, RestTyped, StateTyped
<1>4. CASE /\ i # Nobody /\ entry' = Shut(i)
           /\ client' = [client EXCEPT ![c] = [at |-> "recreate", name |-> k.name, cfg |-> cfg]]
           /\ UNCHANGED <<platforms, created, removed>>
  <2>1. k.name \in Names /\ i \in 1..created /\ cfg \in Config
    BY <1>1, <1>4, UpdatedConfig
  <2>2. EntriesTyped'
    BY <1>4, <2>1, ShutIs, KeptEntries DEF StateTyped
  <2> HIDE DEF cfg, k
  <2> DEFINE f == [at |-> "recreate", name |-> k.name, cfg |-> cfg]
  <2>3. f \in Forms /\ f.at = "recreate"
    BY <2>1 DEF Forms
  <2>4. removed' \subseteq Names /\ created' = created /\ client' = [client EXCEPT ![c] = f]
    BY <1>4 DEF RestTyped, StateTyped
  <2> HIDE DEF f
  <2> QED BY <1>1, <1>2, <2>2, <2>3, <2>4, Together
<1>5. CASE /\ i # Nobody /\ ~NeedsNewRuntime(k, entry[i])
           /\ entry' = [entry EXCEPT ![i] = Applied(entry[i], cfg)]
           /\ UNCHANGED <<platforms, created, removed>> /\ Done(c)
  <2>1. k.to = k.name
    BY <1>5 DEF NeedsNewRuntime
  <2>2. i \in 1..created /\ cfg \in Config /\ entry[i].cfg.name = cfg.name
    BY <1>1, <1>5, <2>1, UpdatedConfig
  <2>5. Replaces(entry', i, Applied(entry[i], cfg))
    BY <1>5 DEF Replaces
  <2> HIDE DEF cfg, k, i
  <2>3. EntriesTyped'
    BY <1>5, <2>2, <2>5, AppliedTo, KeptEntries DEF StateTyped
  <2>4. removed' \subseteq Names /\ created' = created
    BY <1>5 DEF RestTyped, StateTyped
  <2> QED BY <1>1, <1>2, <1>5, <2>3, <2>4, Finished
<1> QED BY <1>3, <1>4, <1>5 DEF UpdatePlatform

LEMMA RecreateTyped ==
  ASSUME StateTyped, NEW c \in Dashboards, Recreate(c)
  PROVE  /\ StateTyped'
         /\ client[c].name \in Names /\ client[c].cfg \in Config /\ created' = created + 1
         /\ entry'[created + 1] = New(client[c].cfg) /\ \A i \in 1..created : entry'[i] = entry[i]
         /\ platforms'[client[c].cfg.name] = created + 1
         /\ \A m \in Names : m # client[c].cfg.name => platforms'[m] = Pop(client[c].name)[m]
<1> DEFINE n == client[c].name
           cfg == client[c].cfg
<1>1. n \in Names /\ cfg \in Config
  BY FormFields DEF Recreate, StateTyped
<1>2. /\ Done(c) /\ UNCHANGED meta /\ UNCHANGED rest /\ Instantiate(Pop(n), cfg, New(cfg))
      /\ removed' = removed \ ({cfg.name} \ {n})
  BY DEF Recreate, KeepMeta
<1> HIDE DEF n, cfg
<1>3. New(cfg) \in Runtimes /\ New(cfg).cfg.name = cfg.name
  BY <1>1, NewIs, FreshIs DEF Alike
<1>4. /\ EntriesTyped' /\ created' = created + 1
      /\ entry'[created + 1] = New(cfg) /\ \A i \in 1..created : entry'[i] = entry[i]
      /\ platforms'[cfg.name] = created + 1
      /\ \A m \in Names : m # cfg.name => platforms'[m] = Pop(n)[m]
  BY <1>1, <1>2, <1>3, PopIs, InstantiateTyped DEF StateTyped
<1>5. MetaTyped' /\ removed' \subseteq Names
  BY <1>2, MetaKept DEF RestTyped, StateTyped
<1>6. StateTyped'
  BY <1>2, <1>4, <1>5, Finished
<1> QED BY <1>1, <1>4, <1>6 DEF n, cfg
----------------------------------------------------------------------------
(* What an operation on several platforms does to each of them.            *)

Becomes(new) == entry' = Changed(new)

LEMMA ChangedIs ==
  ASSUME EntriesTyped, NEW S \in SUBSET (1..created), NEW new, DOMAIN new = S,
         \A i \in S : new[i] \in Runtimes, \A i \in S : new[i].cfg.name = entry[i].cfg.name,
         Becomes(new)
  PROVE  /\ Keeps(entry')
         /\ \A i \in S : entry'[i] = new[i]
         /\ \A i \in 1..created : i \notin S => entry'[i] = entry[i]
<1>1. Keeps(Changed(new))
  BY ChangedKeeps
<1>2. \A i \in 1..created : Changed(new)[i] = IF i \in S THEN new[i] ELSE entry[i]
  BY Given DEF Changed
<1> QED BY <1>1, <1>2 DEF Becomes

LEMMA PlatformsOfAre ==
  ASSUME EntriesTyped, NEW s
  PROVE  /\ PlatformsOf(s) \in SUBSET (1..created)
         /\ \A i \in PlatformsOf(s) : /\ i \in Registered /\ i \in Entries /\ entry[i] \in Runtimes
                                      /\ entry[i].cfg.source = s
BY RegisteredIs DEF PlatformsOf

LEMMA RenamedIs ==
  ASSUME EntriesTyped, NEW s \in SourceNames, NEW to \in SourceNames,
         Becomes([i \in PlatformsOf(s) |-> [entry[i] EXCEPT !.cfg.source = to]])
  PROVE  /\ Keeps(entry')
         /\ \A i \in 1..created :
              /\ entry'[i].cfg.source = IF i \in PlatformsOf(s) THEN to ELSE entry[i].cfg.source
              /\ entry'[i].cfg.preset = entry[i].cfg.preset /\ entry'[i].cfg.group = entry[i].cfg.group
              /\ entry'[i].gate = entry[i].gate /\ entry'[i].heard = entry[i].heard
              /\ entry'[i].up = entry[i].up
<1> DEFINE new == [i \in PlatformsOf(s) |-> [entry[i] EXCEPT !.cfg.source = to]]
<1>1. ASSUME NEW i \in PlatformsOf(s)
      PROVE  /\ new[i] \in Runtimes /\ new[i].cfg.name = entry[i].cfg.name
             /\ new[i].cfg.source = to /\ new[i].cfg.preset = entry[i].cfg.preset
             /\ new[i].cfg.group = entry[i].cfg.group /\ new[i].gate = entry[i].gate
             /\ new[i].heard = entry[i].heard /\ new[i].up = entry[i].up
  <2>1. entry[i] \in Runtimes
    BY PlatformsOfAre
  <2> QED BY <2>1 DEF Runtimes, Config
<1>2. Becomes(new) /\ DOMAIN new = PlatformsOf(s)
  OBVIOUS
<1> HIDE DEF new
<1>3. PlatformsOf(s) \in SUBSET (1..created)
  BY PlatformsOfAre
<1>4. /\ Keeps(entry') /\ \A i \in PlatformsOf(s) : entry'[i] = new[i]
      /\ \A i \in 1..created : i \notin PlatformsOf(s) => entry'[i] = entry[i]
  BY <1>1, <1>2, <1>3, ChangedIs
<1> QED BY <1>1, <1>4

\* A source that came on air, and one that went.
LEMMA HeardIs ==
  ASSUME EntriesTyped, NEW s \in SourceNames, NEW heard \in BOOLEAN,
         \/ heard /\ Becomes([i \in PlatformsOf(s) |-> [Gated(entry[i]) EXCEPT !.heard = TRUE]])
         \/ ~heard /\ Becomes([i \in PlatformsOf(s) |-> [entry[i] EXCEPT !.heard = FALSE]])
  PROVE  /\ Keeps(entry')
         /\ \A i \in 1..created :
              /\ Alike(entry'[i], entry[i]) /\ entry'[i].up = entry[i].up
              /\ entry'[i].heard = IF i \in PlatformsOf(s) THEN heard ELSE entry[i].heard
              /\ entry'[i].cfg = IF i \in PlatformsOf(s) /\ heard THEN Gated(entry[i]).cfg ELSE entry[i].cfg
<1> DEFINE On == [i \in PlatformsOf(s) |-> [Gated(entry[i]) EXCEPT !.heard = TRUE]]
           Off == [i \in PlatformsOf(s) |-> [entry[i] EXCEPT !.heard = FALSE]]
<1>1. ASSUME NEW i \in PlatformsOf(s)
      PROVE  /\ On[i] \in Runtimes /\ Alike(On[i], entry[i]) /\ On[i].up = entry[i].up /\ On[i].heard = TRUE
             /\ Off[i] \in Runtimes /\ Alike(Off[i], entry[i]) /\ Off[i].up = entry[i].up /\ Off[i].heard = FALSE
             /\ On[i].cfg = Gated(entry[i]).cfg /\ Off[i].cfg = entry[i].cfg
  <2>1. entry[i] \in Runtimes
    BY PlatformsOfAre
  <2>2. Gated(entry[i]) \in Runtimes /\ Alike(Gated(entry[i]), entry[i]) /\ Gated(entry[i]).up = entry[i].up
    BY <2>1, GatedIs
  <2> DEFINE g == Gated(entry[i])
  <2>3. On[i] = [g EXCEPT !.heard = TRUE] /\ Off[i] = [entry[i] EXCEPT !.heard = FALSE]
    OBVIOUS
  <2> HIDE DEF g, On, Off
  <2>4. /\ On[i] \in Runtimes /\ On[i].cfg = g.cfg /\ On[i].gate = g.gate /\ On[i].up = g.up /\ On[i].heard = TRUE
        /\ Off[i] \in Runtimes /\ Off[i].cfg = entry[i].cfg /\ Off[i].gate = entry[i].gate
        /\ Off[i].up = entry[i].up /\ Off[i].heard = FALSE
    BY <2>1, <2>2, <2>3 DEF Runtimes, g
  <2> QED BY <2>2, <2>4 DEF Alike, g
<1>2. DOMAIN On = PlatformsOf(s) /\ DOMAIN Off = PlatformsOf(s)
  OBVIOUS
<1>3. (heard /\ Becomes(On)) \/ (~heard /\ Becomes(Off))
  OBVIOUS
<1> HIDE DEF On, Off
<1>4. PlatformsOf(s) \in SUBSET (1..created)
  BY PlatformsOfAre
<1>5. CASE heard /\ Becomes(On)
  <2>1. \A i \in PlatformsOf(s) : On[i].cfg.name = entry[i].cfg.name
    BY <1>1 DEF Alike
  <2>2. /\ Keeps(entry') /\ \A i \in PlatformsOf(s) : entry'[i] = On[i]
        /\ \A i \in 1..created : i \notin PlatformsOf(s) => entry'[i] = entry[i]
    BY <1>1, <1>2, <1>4, <1>5, <2>1, ChangedIs
  <2>3. heard = TRUE
    BY <1>5
  <2>4. ASSUME NEW i \in PlatformsOf(s)
        PROVE  /\ Alike(entry'[i], entry[i]) /\ entry'[i].up = entry[i].up /\ entry'[i].heard = heard
               /\ entry'[i].cfg = Gated(entry[i]).cfg
    <3>1. entry'[i] = On[i]
      BY <2>2
    <3>2. /\ Alike(On[i], entry[i]) /\ On[i].up = entry[i].up /\ On[i].heard = TRUE
          /\ On[i].cfg = Gated(entry[i]).cfg
      BY <1>1
    <3> QED BY <2>3, <3>1, <3>2
  <2>5. ASSUME NEW i \in 1..created, i \notin PlatformsOf(s)
        PROVE  /\ Alike(entry'[i], entry[i]) /\ entry'[i].up = entry[i].up
               /\ entry'[i].heard = entry[i].heard /\ entry'[i].cfg = entry[i].cfg
    BY <2>2, <2>5 DEF Alike
  <2> QED BY <2>2, <2>3, <2>4, <2>5
<1>6. CASE ~heard /\ Becomes(Off)
  <2>1. \A i \in PlatformsOf(s) : Off[i].cfg.name = entry[i].cfg.name
    BY <1>1 DEF Alike
  <2>2. /\ Keeps(entry') /\ \A i \in PlatformsOf(s) : entry'[i] = Off[i]
        /\ \A i \in 1..created : i \notin PlatformsOf(s) => entry'[i] = entry[i]
    BY <1>1, <1>2, <1>4, <1>6, <2>1, ChangedIs
  <2>3. heard = FALSE
    BY <1>6
  <2>4. ASSUME NEW i \in PlatformsOf(s)
        PROVE  /\ Alike(entry'[i], entry[i]) /\ entry'[i].up = entry[i].up /\ entry'[i].heard = heard
               /\ entry'[i].cfg = entry[i].cfg
    <3>1. entry'[i] = Off[i]
      BY <2>2
    <3>2. /\ Alike(Off[i], entry[i]) /\ Off[i].up = entry[i].up /\ Off[i].heard = FALSE
          /\ Off[i].cfg = entry[i].cfg
      BY <1>1
    <3> QED BY <2>3, <3>1, <3>2
  <2>5. ASSUME NEW i \in 1..created, i \notin PlatformsOf(s)
        PROVE  /\ Alike(entry'[i], entry[i]) /\ entry'[i].up = entry[i].up
               /\ entry'[i].heard = entry[i].heard /\ entry'[i].cfg = entry[i].cfg
    BY <2>2, <2>5 DEF Alike
  <2> QED BY <2>2, <2>3, <2>4, <2>5
<1> QED BY <1>3, <1>5, <1>6

\* The platforms of a group that is removed.
LEMMA MovedIs ==
  ASSUME EntriesTyped, NEW g \in Groups,
         Becomes([i \in Members(g) |-> Applied(entry[i], [entry[i].cfg EXCEPT !.group = MainGroup])])
  PROVE  /\ Keeps(entry')
         /\ \A i \in 1..created :
              /\ entry'[i].cfg.source = entry[i].cfg.source /\ entry'[i].cfg.preset = entry[i].cfg.preset
              /\ entry'[i].up = entry[i].up /\ entry'[i].heard = entry[i].heard
              /\ IF i \in Members(g)
                 THEN /\ entry'[i].cfg.group = MainGroup
                      /\ entry'[i].gate = IF MainGroup = g THEN entry[i].gate ELSE GroupEnabled(MainGroup)
                 ELSE entry'[i] = entry[i]
<1> DEFINE new == [i \in Members(g) |-> Applied(entry[i], [entry[i].cfg EXCEPT !.group = MainGroup])]
<1>1. ASSUME NEW i \in Members(g)
      PROVE  /\ i \in 1..created /\ new[i] \in Runtimes /\ new[i].cfg.name = entry[i].cfg.name
             /\ new[i].cfg.source = entry[i].cfg.source /\ new[i].cfg.preset = entry[i].cfg.preset
             /\ new[i].up = entry[i].up /\ new[i].heard = entry[i].heard /\ new[i].cfg.group = MainGroup
             /\ new[i].gate = IF MainGroup = g THEN entry[i].gate ELSE GroupEnabled(MainGroup)
  <2>1. i \in 1..created /\ entry[i] \in Runtimes /\ entry[i].cfg.group = g
    BY RegisteredIs DEF Members
  <2> DEFINE cfg == [entry[i].cfg EXCEPT !.group = MainGroup]
  <2>2. /\ cfg \in Config /\ cfg.group = MainGroup /\ cfg.name = entry[i].cfg.name
        /\ cfg.source = entry[i].cfg.source /\ cfg.preset = entry[i].cfg.preset
    BY <2>1, DefaultsAssumption DEF Runtimes, Config
  <2>3. new[i] = Applied(entry[i], cfg)
    OBVIOUS
  <2> HIDE DEF cfg, new
  <2> QED BY <2>1, <2>2, <2>3, AppliedIs
<1>2. DOMAIN new = Members(g) /\ Becomes(new)
  OBVIOUS
<1> HIDE DEF new
<1>3. Members(g) \in SUBSET (1..created)
  BY <1>1
<1>4. /\ Keeps(entry') /\ \A i \in Members(g) : entry'[i] = new[i]
      /\ \A i \in 1..created : i \notin Members(g) => entry'[i] = entry[i]
  BY <1>1, <1>2, <1>3, ChangedIs
<1> QED BY <1>1, <1>4

\* Those of a group that is switched.
LEMMA OpenedIs ==
  ASSUME EntriesTyped, NEW g \in Groups, NEW on \in BOOLEAN,
         Becomes([i \in Members(g) |->
           [(IF on THEN Gated(entry[i]) ELSE entry[i]) EXCEPT !.gate = on, !.told.gate = on]])
  PROVE  /\ Keeps(entry')
         /\ \A i \in 1..created :
              /\ entry'[i].cfg.source = entry[i].cfg.source /\ entry'[i].cfg.preset = entry[i].cfg.preset
              /\ entry'[i].cfg.group = entry[i].cfg.group
              /\ entry'[i].up = entry[i].up /\ entry'[i].heard = entry[i].heard
              /\ IF i \in Members(g) THEN entry'[i].gate = on ELSE entry'[i] = entry[i]
<1> DEFINE new == [i \in Members(g) |->
             [(IF on THEN Gated(entry[i]) ELSE entry[i]) EXCEPT !.gate = on, !.told.gate = on]]
<1>1. ASSUME NEW i \in Members(g)
      PROVE  /\ i \in 1..created /\ new[i] \in Runtimes /\ new[i].cfg.name = entry[i].cfg.name
             /\ new[i].cfg.source = entry[i].cfg.source /\ new[i].cfg.preset = entry[i].cfg.preset
             /\ new[i].cfg.group = entry[i].cfg.group
             /\ new[i].up = entry[i].up /\ new[i].heard = entry[i].heard /\ new[i].gate = on
  <2>1. i \in 1..created /\ entry[i] \in Runtimes
    BY RegisteredIs DEF Members
  <2> DEFINE f == IF on THEN Gated(entry[i]) ELSE entry[i]
  <2>2. f \in Runtimes /\ Alike(f, entry[i]) /\ f.up = entry[i].up /\ f.heard = entry[i].heard
    BY <2>1, GatedIs DEF Alike
  <2>3. new[i] = [f EXCEPT !.gate = on, !.told.gate = on]
    OBVIOUS
  <2> HIDE DEF f, new
  <2>4. /\ new[i] \in Runtimes /\ new[i].cfg = f.cfg /\ new[i].up = f.up /\ new[i].heard = f.heard
        /\ new[i].gate = on
    BY <2>2, <2>3, ZenonT(60) DEF Runtimes, Tellings
  <2> QED BY <2>1, <2>2, <2>4 DEF Alike
<1>2. DOMAIN new = Members(g) /\ Becomes(new)
  OBVIOUS
<1> HIDE DEF new
<1>3. Members(g) \in SUBSET (1..created)
  BY <1>1
<1>4. /\ Keeps(entry') /\ \A i \in Members(g) : entry'[i] = new[i]
      /\ \A i \in 1..created : i \notin Members(g) => entry'[i] = entry[i]
  BY <1>1, <1>2, <1>3, ChangedIs
<1> QED BY <1>1, <1>4

\* Those of a preset whose files were exchanged.
LEMMA ResetIs ==
  ASSUME EntriesTyped, NEW p \in Presets, NEW users \in SUBSET Registered,
         Becomes([i \in users |-> Applied(entry[i], [entry[i].cfg EXCEPT !.preset = p])])
  PROVE  /\ Keeps(entry')
         /\ \A i \in 1..created :
              /\ entry'[i].cfg.source = entry[i].cfg.source /\ entry'[i].cfg.group = entry[i].cfg.group
              /\ entry'[i].gate = entry[i].gate
              /\ entry'[i].up = entry[i].up /\ entry'[i].heard = entry[i].heard
              /\ entry'[i].cfg.preset = IF i \in users THEN p ELSE entry[i].cfg.preset
<1> DEFINE new == [i \in users |-> Applied(entry[i], [entry[i].cfg EXCEPT !.preset = p])]
<1>1. ASSUME NEW i \in users
      PROVE  /\ i \in 1..created /\ new[i] \in Runtimes /\ new[i].cfg.name = entry[i].cfg.name
             /\ new[i].cfg.source = entry[i].cfg.source /\ new[i].cfg.group = entry[i].cfg.group
             /\ new[i].gate = entry[i].gate
             /\ new[i].up = entry[i].up /\ new[i].heard = entry[i].heard /\ new[i].cfg.preset = p
  <2>1. i \in 1..created /\ entry[i] \in Runtimes
    BY RegisteredIs
  <2> DEFINE cfg == [entry[i].cfg EXCEPT !.preset = p]
  <2>2. /\ cfg \in Config /\ cfg.preset = p /\ cfg.name = entry[i].cfg.name
        /\ cfg.source = entry[i].cfg.source /\ cfg.group = entry[i].cfg.group
    BY <2>1 DEF Runtimes, Config
  <2>3. new[i] = Applied(entry[i], cfg)
    OBVIOUS
  <2> HIDE DEF cfg, new
  <2> QED BY <2>1, <2>2, <2>3, AppliedIs
<1>2. DOMAIN new = users /\ Becomes(new)
  OBVIOUS
<1> HIDE DEF new
<1>3. users \in SUBSET (1..created)
  BY <1>1
<1>4. /\ Keeps(entry') /\ \A i \in users : entry'[i] = new[i]
      /\ \A i \in 1..created : i \notin users => entry'[i] = entry[i]
  BY <1>1, <1>2, <1>3, ChangedIs
<1> QED BY <1>1, <1>4

----------------------------------------------------------------------------
(* Types are kept, the remaining steps.                                     *)

LEMMA SwitchTyped ==
  ASSUME StateTyped, NEW c \in Dashboards,
         RemovePlatform(c) \/ PopPlatform(c) \/ EnablePlatform(c) \/ DisablePlatform(c)
  PROVE  StateTyped'
<1> DEFINE n == client[c].cmd.name
<1>1. UNCHANGED meta /\ UNCHANGED rest /\ created' = created /\ client[c].at \in {"act", "pop"}
  BY DEF RemovePlatform, PopPlatform, EnablePlatform, DisablePlatform, KeepMeta, Acts
<1>2. MetaTyped'
  BY <1>1, MetaKept DEF StateTyped
<1>3. ASSUME client[c].at = "act", client[c].cmd.kind \in {"remove", "enable", "disable"}
      PROVE  n \in Names /\ (platforms[n] # Nobody => platforms[n] \in 1..created)
  <2>1. n \in Names
    BY <1>3, CommandFields, FormFields DEF StateTyped
  <2> QED BY <2>1 DEF StateTyped, EntriesTyped, Nobody
<1>4. CASE RemovePlatform(c)
  <2>1. removed' \subseteq Names /\ platforms' = platforms
    BY <1>4 DEF RemovePlatform, StateTyped, RestTyped
  <2>2. CASE Done(c) /\ UNCHANGED entry
    <3>1. EntriesTyped'
      BY <1>1, <2>1, <2>2, EntriesKept DEF registry, StateTyped
    <3> QED BY <1>1, <1>2, <2>1, <2>2, <3>1, Finished
  <2>3. CASE /\ platforms[n] # Nobody /\ entry' = Shut(platforms[n])
             /\ client' = [client EXCEPT ![c] = [at |-> "pop", name |-> n]]
    <3>1. n \in Names /\ platforms[n] \in 1..created
      BY <1>3, <1>4, <2>3 DEF RemovePlatform, Acts
    <3>2. EntriesTyped'
      BY <1>1, <2>1, <2>3, <3>1, ShutIs, KeptEntries DEF StateTyped
    <3> DEFINE f == [at |-> "pop", name |-> n]
    <3>3. f \in Forms /\ f.at = "pop" /\ client' = [client EXCEPT ![c] = f]
      BY <2>3, <3>1 DEF Forms
    <3> HIDE DEF f
    <3> QED BY <1>1, <1>2, <2>1, <3>2, <3>3, Together
  <2> QED BY <1>4, <2>2, <2>3 DEF RemovePlatform
<1>5. CASE PopPlatform(c)
  <2>1. client[c].name \in Names
    BY <1>5, FormFields DEF PopPlatform, StateTyped
  <2>2. platforms' = Pop(client[c].name) /\ entry' = entry /\ Done(c) /\ removed' \subseteq Names
    BY <1>5, <2>1 DEF PopPlatform, StateTyped, RestTyped
  <2>3. /\ platforms' \in [Names -> 0..created]
        /\ \A m \in Names : platforms'[m] \in {Nobody, platforms[m]}
    BY <2>1, <2>2, PopIs DEF StateTyped
  <2>4. EntriesTyped'
    BY <1>1, <2>2, <2>3 DEF StateTyped, EntriesTyped
  <2> QED BY <1>1, <1>2, <2>2, <2>4, Finished
<1>6. CASE EnablePlatform(c) \/ DisablePlatform(c)
  <2>1. /\ removed' \subseteq Names /\ platforms' = platforms /\ Done(c)
        /\ client[c].at = "act" /\ client[c].cmd.kind \in {"enable", "disable"}
    BY <1>6 DEF EnablePlatform, DisablePlatform, StateTyped, RestTyped, Acts
  <2>2. \/ UNCHANGED entry
        \/ platforms[n] # Nobody /\ \E on \in BOOLEAN : SetEnabled(platforms[n], on)
    BY <1>6 DEF EnablePlatform, DisablePlatform
  <2>3. CASE UNCHANGED entry
    BY <1>1, <1>2, <2>1, <2>3, EntriesKept, Finished DEF registry, StateTyped
  <2>4. CASE platforms[n] # Nobody /\ \E on \in BOOLEAN : SetEnabled(platforms[n], on)
    <3>1. platforms[n] \in 1..created
      BY <1>3, <2>1, <2>4
    <3>2. Keeps(entry')
      BY <2>4, <3>1, EnabledIs DEF StateTyped
    <3>3. EntriesTyped'
      BY <1>1, <2>1, <3>2, KeptEntries DEF StateTyped
    <3> QED BY <1>1, <1>2, <2>1, <3>3, Finished
  <2> QED BY <2>2, <2>3, <2>4
<1> QED BY <1>4, <1>5, <1>6

LEMMA SourceTyped ==
  ASSUME StateTyped, NEW c \in Dashboards, AddSource(c) \/ RemoveSource(c) PROVE StateTyped'
<1>1. /\ UNCHANGED registry /\ UNCHANGED removed /\ UNCHANGED rest /\ Done(c)
      /\ UNCHANGED <<defaultName, groups, presets>>
  BY DEF AddSource, RemoveSource, KeepPlatforms
<1> DEFINE s == client[c].cmd.source
           more == [NoSource EXCEPT !.here = TRUE]
<1>4. /\ more \in [here : BOOLEAN, main : BOOLEAN, avail : BOOLEAN, valid : BOOLEAN] /\ ~more.valid
      /\ NoSource \in [here : BOOLEAN, main : BOOLEAN, avail : BOOLEAN, valid : BOOLEAN] /\ ~NoSource.valid
  BY DEF NoSource
<1>5. sources' = sources \/ \E r \in {more, NoSource} : sources' = [sources EXCEPT ![s] = r]
  BY DEF AddSource, RemoveSource
<1>2. MetaTyped'
  <2> HIDE DEF more, s
  <2> QED BY <1>1, <1>4, <1>5 DEF StateTyped, MetaTyped
<1>3. EntriesTyped' /\ created' = created /\ removed' \subseteq Names
  BY <1>1, EntriesKept DEF registry, StateTyped, RestTyped
<1> QED BY <1>1, <1>2, <1>3, Finished

\* The record of a source goes to its new name.
LEMMA SourceMoves ==
  ASSUME MetaTyped, NEW s \in SourceNames, NEW to \in SourceNames,
         sources' = [sources EXCEPT ![s] = NoSource, ![to] = sources[s]]
  PROVE  /\ sources' \in [SourceNames -> [here : BOOLEAN, main : BOOLEAN, avail : BOOLEAN, valid : BOOLEAN]]
         /\ sources'[to] = sources[s]
         /\ \A x \in SourceNames : x # to => sources'[x] = IF x = s THEN NoSource ELSE sources[x]
         /\ \A x \in SourceNames : sources'[x].valid => sources'[x].avail
<1>1. NoSource \in [here : BOOLEAN, main : BOOLEAN, avail : BOOLEAN, valid : BOOLEAN] /\ ~NoSource.valid
  BY DEF NoSource
<1>2. /\ sources' \in [SourceNames -> [here : BOOLEAN, main : BOOLEAN, avail : BOOLEAN, valid : BOOLEAN]]
      /\ sources'[to] = sources[s]
      /\ \A x \in SourceNames : x # to => sources'[x] = IF x = s THEN NoSource ELSE sources[x]
  BY <1>1 DEF MetaTyped
<1> QED BY <1>1, <1>2 DEF MetaTyped

LEMMA UpdateSourceIs ==
  ASSUME StateTyped, NEW c \in Dashboards, UpdateSource(c)
  PROVE  /\ client[c].at = "act" /\ client[c].cmd.kind = "update_source" /\ client[c].cmd \in Command
         /\ client[c].cmd.source \in SourceNames /\ client[c].cmd.to \in SourceNames
         /\ UNCHANGED <<platforms, created, removed, groups, presets>> /\ UNCHANGED rest
         /\ \/ Done(c) /\ UNCHANGED <<sources, defaultName, entry, disk>>
            \/ /\ Becomes([i \in PlatformsOf(client[c].cmd.source) |->
                             [entry[i] EXCEPT !.cfg.source = client[c].cmd.to]])
               /\ sources[client[c].cmd.source].here
               /\ sources' = [sources EXCEPT ![client[c].cmd.source] = NoSource,
                                             ![client[c].cmd.to] = sources[client[c].cmd.source]]
               /\ defaultName' = IF sources[client[c].cmd.source].main THEN client[c].cmd.to ELSE defaultName
               /\ \/ persist /\ Done(c)
                  \/ /\ ~sources[client[c].cmd.source].avail
                     /\ client' = [client EXCEPT
                          ![c] = [at |-> "rewire", todo |-> PlatformsOf(client[c].cmd.source)]]
<1>1. Acts(c, "update_source") /\ client[c].cmd \in Command
  BY FormFields DEF UpdateSource, Acts, StateTyped
<1>2. client[c].cmd.source \in SourceNames /\ client[c].cmd.to \in SourceNames
  BY <1>1, CommandFields DEF Acts
<1>3. client[c].at = "act" /\ client[c].cmd.kind = "update_source"
  BY <1>1 DEF Acts
<1> DEFINE k == client[c].cmd
<1>4. /\ UNCHANGED <<platforms, created, removed, groups, presets>> /\ UNCHANGED rest
      /\ IF ~sources[k.source].here \/ (k.contract /\ sources[k.source].avail)
         THEN Done(c) /\ UNCHANGED <<sources, defaultName, entry, disk>>
         ELSE /\ sources' = [sources EXCEPT ![k.source] = NoSource, ![k.to] = sources[k.source]]
              /\ defaultName' = IF sources[k.source].main THEN k.to ELSE defaultName
              /\ Becomes([i \in PlatformsOf(k.source) |-> [entry[i] EXCEPT !.cfg.source = k.to]])
              /\ IF k.contract /\ PlatformsOf(k.source) # {}
                 THEN /\ client' = [client EXCEPT ![c] = [at |-> "rewire", todo |-> PlatformsOf(k.source)]]
                      /\ UNCHANGED disk
                 ELSE persist /\ Done(c)
  BY DEF UpdateSource, Renamed, Becomes
<1> HIDE DEF k
<1>5. CASE ~sources[k.source].here \/ (k.contract /\ sources[k.source].avail)
  BY <1>1, <1>2, <1>3, <1>4, <1>5 DEF k
<1>6. CASE ~(~sources[k.source].here \/ (k.contract /\ sources[k.source].avail))
  BY <1>1, <1>2, <1>3, <1>4, <1>6 DEF k
<1> QED BY <1>5, <1>6

LEMMA UpdateSourceTyped ==
  ASSUME StateTyped, NEW c \in Dashboards, UpdateSource(c) PROVE StateTyped'
<1> DEFINE s == client[c].cmd.source
           to == client[c].cmd.to
           f == [at |-> "rewire", todo |-> PlatformsOf(s)]
<1>1. s \in SourceNames /\ to \in SourceNames
  BY UpdateSourceIs
<1>2. /\ UNCHANGED <<platforms, created, groups, presets>> /\ UNCHANGED rest /\ removed' = removed
  BY UpdateSourceIs
<1>3. removed' \subseteq Names
  BY <1>2 DEF StateTyped, RestTyped
<1>4. CASE Done(c) /\ UNCHANGED <<sources, defaultName, entry, disk>>
  <2>1. EntriesTyped' /\ MetaTyped'
    BY <1>2, <1>4, EntriesKept, MetaKept DEF registry, meta, StateTyped
  <2> QED BY <1>2, <1>3, <1>4, <2>1, Finished
<1>5. CASE /\ Becomes([i \in PlatformsOf(s) |-> [entry[i] EXCEPT !.cfg.source = to]])
           /\ sources' = [sources EXCEPT ![s] = NoSource, ![to] = sources[s]]
           /\ defaultName' = IF sources[s].main THEN to ELSE defaultName
           /\ Done(c) \/ client' = [client EXCEPT ![c] = f]
  <2>1. Keeps(entry') /\ PlatformsOf(s) \in SUBSET (1..created)
    BY <1>1, <1>5, RenamedIs, PlatformsOfAre DEF StateTyped
  <2>2. EntriesTyped'
    BY <1>2, <2>1, KeptEntries DEF StateTyped
  <2>3. MetaTyped'
    BY <1>1, <1>2, <1>5, SourceMoves DEF StateTyped, MetaTyped
  <2>4. f \in Forms /\ f.todo \subseteq 1..created'
    BY <1>2, <2>1, Given DEF Forms, StateTyped
  <2> HIDE DEF f
  <2> QED BY <1>2, <1>3, <1>5, <2>2, <2>3, <2>4, Finished, Together
<1> QED BY <1>4, <1>5, UpdateSourceIs

LEMMA RewireTyped ==
  ASSUME StateTyped, NEW c \in Dashboards, Rewire(c) PROVE StateTyped'
<1>1. PICK i \in client[c].todo :
        /\ entry' = Shut(i)
        /\ client' = [client EXCEPT ![c] = [at |-> "rewired", todo |-> client[c].todo \ {i},
                                            cfg |-> entry[i].cfg]]
  BY DEF Rewire, StateTyped, FormsTyped
<1>2. client[c].todo \in SUBSET (1..created)
  BY FormFields DEF Rewire, StateTyped
<1>3. /\ UNCHANGED meta /\ UNCHANGED rest /\ created' = created /\ platforms' = platforms
      /\ removed' = removed
  BY DEF Rewire, KeepMeta
<1>4. EntriesTyped' /\ MetaTyped' /\ removed' \subseteq Names
  BY <1>1, <1>2, <1>3, ShutIs, KeptEntries, MetaKept DEF StateTyped, RestTyped
<1> DEFINE f == [at |-> "rewired", todo |-> client[c].todo \ {i}, cfg |-> entry[i].cfg]
<1>5. entry[i] \in Runtimes /\ \A j \in 1..created : j \in Entries
  BY <1>2, Given DEF StateTyped
<1>6. f \in Forms /\ f.todo \subseteq 1..created' /\ client' = [client EXCEPT ![c] = f]
  BY <1>1, <1>2, <1>3, <1>5 DEF Forms, Runtimes
<1> HIDE DEF f
<1> QED BY <1>3, <1>4, <1>6, Together

LEMMA RewiredTyped ==
  ASSUME StateTyped, NEW c \in Dashboards, Rewired(c)
  PROVE  /\ StateTyped'
         /\ client[c].cfg \in Config /\ created' = created + 1
         /\ entry'[created + 1] = Fresh(client[c].cfg) /\ \A i \in 1..created : entry'[i] = entry[i]
         /\ platforms'[client[c].cfg.name] = created + 1
         /\ \A m \in Names : m # client[c].cfg.name => platforms'[m] = platforms[m]
<1> DEFINE cfg == client[c].cfg
           f == [at |-> "rewire", todo |-> client[c].todo]
<1>1. cfg \in Config /\ client[c].todo \in SUBSET (1..created)
  BY FormFields DEF Rewired, StateTyped
<1>2. /\ UNCHANGED meta /\ UNCHANGED rest /\ Instantiate(Pop(cfg.name), cfg, Fresh(cfg))
      /\ removed' = removed
      /\ Done(c) \/ client' = [client EXCEPT ![c] = f]
  BY DEF Rewired, KeepMeta, StateTyped, FormsTyped
<1>3. f \in Forms /\ f.todo \subseteq 1..created
  BY <1>1, Given DEF Forms, StateTyped
<1> HIDE DEF cfg, f
<1>4. Fresh(cfg) \in Runtimes /\ Fresh(cfg).cfg.name = cfg.name /\ cfg.name \in Names
  BY <1>1, FreshIs DEF Config
<1>5. /\ EntriesTyped' /\ created' = created + 1
      /\ entry'[created + 1] = Fresh(cfg) /\ \A i \in 1..created : entry'[i] = entry[i]
      /\ platforms'[cfg.name] = created + 1
      /\ \A m \in Names : m # cfg.name => platforms'[m] = Pop(cfg.name)[m]
  BY <1>1, <1>2, <1>4, PopIs, InstantiateTyped DEF StateTyped
<1>6. MetaTyped' /\ removed' \subseteq Names /\ 1..created \subseteq 1..created'
  BY <1>2, <1>5, RegistryBoundsAssumption, MetaKept DEF StateTyped, RestTyped, EntriesTyped
<1>7. StateTyped'
  BY <1>2, <1>3, <1>5, <1>6, Finished, Together
<1>8. \A m \in Names : m # cfg.name => platforms'[m] = platforms[m]
  BY <1>4, <1>5, PopIs DEF StateTyped
<1> QED BY <1>1, <1>5, <1>7, <1>8 DEF cfg

LEMMA GroupTyped ==
  ASSUME StateTyped, NEW c \in Dashboards,
         \/ AddGroup(c) \/ RemoveGroup(c) \/ SetGroupEnabled(c, TRUE) \/ SetGroupEnabled(c, FALSE)
  PROVE  StateTyped'
<1> DEFINE g == client[c].cmd.group
<1>1. /\ UNCHANGED <<platforms, created, removed, sources, defaultName, presets>> /\ UNCHANGED rest /\ Done(c)
      /\ client[c].at = "act"
      /\ client[c].cmd.kind \in {"add_group", "remove_group", "enable_group", "disable_group"}
  BY DEF AddGroup, RemoveGroup, SetGroupEnabled, KeepPlatforms, registry, Acts
<1>2. g \in Groups
  BY <1>1, CommandFields, FormFields DEF StateTyped
<1>3. MetaTyped'
  <2>1. groups \in [here : SUBSET Groups, on : SUBSET Groups]
    BY DEF StateTyped, MetaTyped
  <2>2. /\ groups' \in [here : SUBSET Groups, on : SUBSET Groups]
        /\ MainGroup \in groups'.here /\ groups'.on \subseteq groups'.here
    <3>1. CASE AddGroup(c)
      BY <1>2, <2>1, <3>1 DEF AddGroup, StateTyped, MetaTyped
    <3>2. CASE RemoveGroup(c)
      BY <1>2, <2>1, <3>2 DEF RemoveGroup, StateTyped, MetaTyped
    <3>3. ASSUME NEW on \in BOOLEAN, SetGroupEnabled(c, on)
          PROVE  /\ groups' \in [here : SUBSET Groups, on : SUBSET Groups]
                 /\ MainGroup \in groups'.here /\ groups'.on \subseteq groups'.here
      <4>1. CASE UNCHANGED groups
        BY <2>1, <4>1 DEF StateTyped, MetaTyped
      <4>2. CASE /\ g \in groups.here
                 /\ groups' = [groups EXCEPT !.on = IF on THEN @ \cup {g} ELSE @ \ {g}]
        BY <1>2, <2>1, <4>2 DEF StateTyped, MetaTyped
      <4> QED BY <3>3, <4>1, <4>2 DEF SetGroupEnabled
    <3> QED BY <3>1, <3>2, <3>3
  <2> QED BY <1>1, <2>2 DEF StateTyped, MetaTyped
<1>4. EntriesTyped'
  <2>1. CASE UNCHANGED entry
    BY <1>1, <2>1, EntriesKept DEF registry, StateTyped
  <2>2. CASE Becomes([i \in Members(g) |-> Applied(entry[i], [entry[i].cfg EXCEPT !.group = MainGroup])])
    BY <1>1, <1>2, <2>2, MovedIs, KeptEntries DEF StateTyped
  <2>3. ASSUME NEW on \in BOOLEAN,
               Becomes([i \in Members(g) |->
                 [(IF on THEN Gated(entry[i]) ELSE entry[i]) EXCEPT !.gate = on, !.told.gate = on]])
        PROVE  EntriesTyped'
    BY <1>1, <1>2, <2>3, OpenedIs, KeptEntries DEF StateTyped
  <2>4. CASE AddGroup(c)
    BY <2>1, <2>4 DEF AddGroup, KeepPlatforms, registry
  <2>5. CASE RemoveGroup(c)
    BY <2>1, <2>2, <2>5 DEF RemoveGroup, Becomes
  <2>6. ASSUME NEW on \in BOOLEAN, SetGroupEnabled(c, on) PROVE EntriesTyped'
    BY <2>1, <2>3, <2>6 DEF SetGroupEnabled, Becomes
  <2> QED BY <2>4, <2>5, <2>6
<1>5. removed' \subseteq Names /\ created' = created
  BY <1>1 DEF StateTyped, RestTyped
<1> QED BY <1>1, <1>3, <1>4, <1>5, Finished

LEMMA PresetTyped ==
  ASSUME StateTyped, NEW c \in Dashboards, AddPreset(c) \/ UpdatePreset(c) \/ RemovePreset(c)
  PROVE  StateTyped'
<1> DEFINE p == client[c].cmd.preset
           users == {i \in Registered : ResolvePreset(entry[i].cfg.preset) = p}
<1>1. /\ UNCHANGED <<platforms, created, removed, sources, defaultName, groups>> /\ UNCHANGED rest /\ Done(c)
      /\ client[c].at = "act" /\ client[c].cmd.kind \in {"add_preset", "update_preset", "remove_preset"}
  BY DEF AddPreset, UpdatePreset, RemovePreset, KeepPlatforms, KeepMeta, meta, registry, Acts
<1>2. p \in Presets
  BY <1>1, CommandFields, FormFields DEF StateTyped
<1>3. MetaTyped'
  BY <1>1, <1>2 DEF AddPreset, UpdatePreset, RemovePreset, StateTyped, MetaTyped, KeepMeta, meta,
                    ResolvePreset
<1>4. UNCHANGED entry \/ Becomes([i \in users |-> Applied(entry[i], [entry[i].cfg EXCEPT !.preset = p])])
  BY DEF AddPreset, UpdatePreset, RemovePreset, KeepPlatforms, registry, Becomes
<1>5. users \in SUBSET Registered
  OBVIOUS
<1>6. EntriesTyped'
  <2>1. CASE UNCHANGED entry
    BY <1>1, <2>1, EntriesKept DEF registry, StateTyped
  <2>2. CASE Becomes([i \in users |-> Applied(entry[i], [entry[i].cfg EXCEPT !.preset = p])])
    <3> HIDE DEF users, p
    <3>1. Keeps(entry')
      BY <1>2, <1>5, <2>2, ResetIs DEF StateTyped
    <3> QED BY <1>1, <3>1, KeptEntries DEF StateTyped
  <2> QED BY <1>4, <2>1, <2>2
<1>7. removed' \subseteq Names /\ created' = created
  BY <1>1 DEF StateTyped, RestTyped
<1> QED BY <1>1, <1>3, <1>6, <1>7, Finished

\* What comes from outside, and the end of the service.
LEMMA HookTyped ==
  ASSUME StateTyped,
         \/ \E s \in SourceNames : OnAvailable(s) \/ Validated(s) \/ OnUnavailable(s)
         \/ \E i \in Entries : FallbackUnusable(i)
         \/ Stop \/ StopNext \/ UNCHANGED registryVars
  PROVE  StateTyped'
<1>1. UNCHANGED <<platforms, created, removed, defaultName, groups, presets, client>>
  BY DEF OnAvailable, Validated, OnUnavailable, FallbackUnusable, Stop, StopNext, KeepPlatforms, KeepMeta,
         meta, registry, registryVars
<1>2. FormsTyped'
  BY <1>1 DEF StateTyped, FormsTyped
<1>3. MetaTyped'
  <2>1. CASE UNCHANGED sources
    BY <1>1, <2>1 DEF StateTyped, MetaTyped
  <2>2. ASSUME NEW s \in SourceNames, OnAvailable(s) PROVE MetaTyped'
    <3>1. sources' = [sources EXCEPT ![s].avail = TRUE]
      BY <2>2 DEF OnAvailable
    <3> QED BY <1>1, <3>1 DEF StateTyped, MetaTyped
  <2>3. ASSUME NEW s \in SourceNames, Validated(s) PROVE MetaTyped'
    <3>1. sources[s].avail /\ sources' = [sources EXCEPT ![s].valid = TRUE]
      BY <2>3 DEF Validated
    <3> QED BY <1>1, <3>1 DEF StateTyped, MetaTyped
  <2>4. ASSUME NEW s \in SourceNames, OnUnavailable(s) PROVE MetaTyped'
    <3>1. sources' = [sources EXCEPT ![s].avail = FALSE, ![s].valid = FALSE]
      BY <2>4 DEF OnUnavailable
    <3> QED BY <1>1, <3>1, ZenonT(60) DEF StateTyped, MetaTyped
  <2> QED BY <2>1, <2>2, <2>3, <2>4 DEF FallbackUnusable, Stop, StopNext, KeepMeta, meta, registryVars
<1>4. RestTyped'
  <2>1. Registered \subseteq 1..created
    BY RegisteredIs DEF StateTyped
  <2>2. unstopped' \subseteq 1..created
    BY <2>1 DEF StateTyped, RestTyped, OnAvailable, Validated, OnUnavailable, FallbackUnusable, Stop,
                StopNext, ends, registryVars
  <2>3. {stopping', crowded', surprised'} \subseteq BOOLEAN
    BY DEF StateTyped, RestTyped, OnAvailable, Validated, OnUnavailable, FallbackUnusable, Stop,
           StopNext, ends, registryVars, Underway
  <2> QED BY <1>1, <2>2, <2>3 DEF StateTyped, RestTyped
<1>5. EntriesTyped'
  <2>1. ASSUME UNCHANGED entry PROVE EntriesTyped'
    BY <1>1, <2>1, EntriesKept DEF registry, StateTyped
  <2>2. ASSUME Keeps(entry') PROVE EntriesTyped'
    BY <1>1, <2>2, KeptEntries DEF StateTyped
  <2>3. ASSUME NEW s \in SourceNames, Validated(s) PROVE Keeps(entry')
    <3>1. Becomes([i \in PlatformsOf(s) |-> [Gated(entry[i]) EXCEPT !.heard = TRUE]])
      BY <2>3 DEF Validated, Becomes
    <3> QED BY <3>1, HeardIs DEF StateTyped
  <2>4. ASSUME NEW s \in SourceNames, OnUnavailable(s) PROVE Keeps(entry')
    <3>1. Becomes([i \in PlatformsOf(s) |-> [entry[i] EXCEPT !.heard = FALSE]])
      BY <2>4 DEF OnUnavailable, Becomes
    <3> QED BY <3>1, HeardIs DEF StateTyped
  <2>5. ASSUME NEW i \in Entries, FallbackUnusable(i) PROVE Keeps(entry')
    <3>1. i \in 1..created /\ SetEnabled(i, FALSE)
      BY <2>5, RegisteredIs DEF FallbackUnusable, StateTyped
    <3> QED BY <3>1, EnabledIs DEF StateTyped
  <2>6. ASSUME StopNext PROVE Keeps(entry')
    <3>1. PICK i \in 1..created : entry' = Shut(i)
      BY <2>6 DEF StopNext, StateTyped, RestTyped
    <3> QED BY <3>1, ShutIs DEF StateTyped
  <2>7. \/ UNCHANGED entry \/ StopNext \/ \E i \in Entries : FallbackUnusable(i)
        \/ \E s \in SourceNames : Validated(s) \/ OnUnavailable(s)
    BY DEF OnAvailable, Stop, KeepPlatforms, registry, registryVars
  <2> QED BY <2>1, <2>2, <2>3, <2>4, <2>5, <2>6, <2>7
<1> QED BY <1>2, <1>3, <1>4, <1>5 DEF StateTyped

LEMMA RegistryTyped == StateTyped /\ [RegistryNext]_registryVars => StateTyped'
<1> SUFFICES ASSUME StateTyped, [RegistryNext]_registryVars PROVE StateTyped'
  OBVIOUS
<1>1. ASSUME NEW c \in Dashboards, Ask(c) \/ PlatformCommand(c) \/ SourceCommand(c) \/ MetaCommand(c)
      PROVE  StateTyped'
  BY <1>1, AskTyped, AddPlatformTyped, UpdatePlatformTyped, RecreateTyped, SwitchTyped, SourceTyped,
     UpdateSourceTyped, RewireTyped, RewiredTyped, GroupTyped, PresetTyped
     DEF PlatformCommand, SourceCommand, MetaCommand
<1> QED BY <1>1, HookTyped DEF RegistryNext


\* The types of the registry are kept whatever the dashboards ask for: in particular every name
\* leads to an entry that was created for it, no source is valid that is not available, and
\* the default preset and group are never removed.
THEOREM RegistryTypes == RegistrySpec => []RegistryTypeOK
<1>1. RegistryInit => RegistryTypeOK
  BY RegistryInitially DEF RegistryInit, RegistryTypeOK
<1>2. RegistryTypeOK /\ [RegistryNext]_registryVars => RegistryTypeOK'
  BY RegistryTyped DEF RegistryTypeOK, RegistryNext, Strayed, registryVars
<1> QED BY <1>1, <1>2, PTL DEF RegistrySpec

LEMMA StateTypes == RegistrySpec => []StateTyped
<1>1. RegistryTypeOK => StateTyped
  BY DEF RegistryTypeOK
<1> QED BY <1>1, RegistryTypes, PTL

----------------------------------------------------------------------------
(* What is in memory is on disk.                                           *)

LEMMA SameDocument ==
  ASSUME EntriesTyped, platforms' = platforms, groups' = groups, presets' = presets,
         \A i \in 1..created : entry'[i].cfg = entry[i].cfg,
         \A s \in SourceNames : sources'[s].here = sources[s].here
  PROVE  Document(platforms, entry, sources, groups, presets)'
           = Document(platforms, entry, sources, groups, presets)
<1>1. \A n \in Names : platforms[n] # Nobody => platforms[n] \in 1..created
  BY RegistryBoundsAssumption DEF EntriesTyped, Nobody
<1>2. ConfigsOf(platforms', entry') = ConfigsOf(platforms, entry)
  BY <1>1 DEF ConfigsOf
<1>3. {n \in SourceNames : sources'[n].here} = {n \in SourceNames : sources[n].here}
  OBVIOUS
<1> QED BY <1>2, <1>3 DEF Document

LEMMA StaysUnderway ==
  ASSUME FormsTyped, NEW c \in Dashboards, client[c].at \notin {"rewire", "rewired"}, NEW f,
         client' = [client EXCEPT ![c] = f] \/ client' = client, Underway
  PROVE  Underway'
BY DEF FormsTyped, Underway

\* Nothing that is written to the disk changed.
Unwritten ==
  /\ UNCHANGED <<disk, platforms, groups, presets>>
  /\ \A i \in 1..created : entry'[i].cfg = entry[i].cfg
  /\ \A s \in SourceNames : sources'[s].here = sources[s].here

LEMMA UnwrittenKeeps ==
  ASSUME StateTyped, DiskIsMemory, Unwritten, Underway => Underway' PROVE DiskIsMemory'
BY SameDocument DEF StateTyped, Unwritten, DiskIsMemory

LEMMA CommandWrites ==
  ASSUME StateTyped, NEW c \in Dashboards,
         Ask(c) \/ PlatformCommand(c) \/ SourceCommand(c) \/ MetaCommand(c)
  PROVE  persist \/ Underway' \/ (Unwritten /\ (Underway => Underway'))
<1>1. ASSUME client[c].at \in {"idle", "act", "pop", "recreate"}, NEW f,
             client' = [client EXCEPT ![c] = f]
      PROVE  Underway => Underway'
  BY <1>1, StaysUnderway DEF StateTyped
<1>2. ASSUME UNCHANGED registry, UNCHANGED <<disk, sources, groups, presets>> PROVE Unwritten
  BY <1>2 DEF Unwritten, registry
<1>3. CASE Ask(c)
  <2>1. PICK k \in Command : client' = [client EXCEPT ![c] = [at |-> "act", cmd |-> k]]
    BY <1>3 DEF Ask
  <2>2. client[c].at = "idle" /\ Unwritten
    BY <1>2, <1>3 DEF Ask, Idle, meta
  <2> QED BY <1>1, <2>1, <2>2
<1>4. ASSUME client[c].at \in {"act", "pop", "recreate"}, Done(c),
             persist \/ (UNCHANGED registry /\ UNCHANGED <<disk, sources, groups, presets>>)
      PROVE  persist \/ (Unwritten /\ (Underway => Underway'))
  BY <1>1, <1>2, <1>4 DEF Done
<1>5. CASE AddPlatform(c) \/ Recreate(c) \/ PopPlatform(c)
  BY <1>4, <1>5 DEF AddPlatform, Recreate, PopPlatform, Acts, KeepMeta, meta
<1>6. CASE EnablePlatform(c) \/ DisablePlatform(c)
  BY <1>4, <1>6 DEF EnablePlatform, DisablePlatform, SetEnabled, Acts, KeepMeta, meta, registry
<1>7. CASE AddSource(c) \/ RemoveSource(c)
  BY <1>4, <1>7 DEF AddSource, RemoveSource, Acts, KeepPlatforms
<1>8. CASE MetaCommand(c)
  BY <1>4, <1>8 DEF MetaCommand, AddGroup, RemoveGroup, SetGroupEnabled, AddPreset, UpdatePreset,
                    RemovePreset, KeepPlatforms, KeepMeta, Acts, meta, registry
<1>9. ASSUME NEW i \in 1..created, entry' = Shut(i), UNCHANGED <<platforms, disk>>, UNCHANGED meta
      PROVE  Unwritten
  BY <1>9, ShutIs DEF Unwritten, meta, StateTyped
<1>10. CASE UpdatePlatform(c)
  <2> DEFINE k == client[c].cmd
             i == platforms[k.name]
             cfg == [name |-> k.to, source |-> k.source, group |-> k.group, preset |-> k.preset,
                     enabled |-> entry[i].cfg.enabled]
  <2>1. Acts(c, "update") /\ client[c].at = "act" /\ UNCHANGED meta
    BY <1>10 DEF UpdatePlatform, Acts, KeepMeta
  <2>2. CASE i = Nobody /\ Done(c) /\ UNCHANGED registry /\ UNCHANGED disk
    BY <1>4, <2>1, <2>2 DEF meta
  <2>3. CASE /\ i # Nobody /\ entry' = Shut(i)
             /\ client' = [client EXCEPT ![c] = [at |-> "recreate", name |-> k.name, cfg |-> cfg]]
             /\ UNCHANGED <<platforms, disk>>
    BY <1>1, <1>9, <2>1, <2>3, UpdatedConfig
  <2>4. CASE persist
    BY <2>4
  <2> QED BY <1>10, <2>2, <2>3, <2>4 DEF UpdatePlatform
<1>11. CASE RemovePlatform(c)
  <2> DEFINE n == client[c].cmd.name
  <2>1. client[c].at = "act" /\ UNCHANGED meta /\ UNCHANGED <<platforms, disk, created>> /\ n \in Names
    BY <1>11, CommandFields, FormFields DEF RemovePlatform, KeepMeta, Acts, StateTyped
  <2>2. CASE Done(c) /\ UNCHANGED entry
    BY <1>4, <2>1, <2>2 DEF meta, registry
  <2>3. CASE /\ platforms[n] # Nobody /\ entry' = Shut(platforms[n])
             /\ client' = [client EXCEPT ![c] = [at |-> "pop", name |-> n]]
    <3>1. platforms[n] \in 1..created
      BY <2>1, <2>3 DEF StateTyped, EntriesTyped, Nobody
    <3> QED BY <1>1, <1>9, <2>1, <2>3, <3>1
  <2> QED BY <1>11, <2>2, <2>3 DEF RemovePlatform
<1>12. ASSUME NEW f \in {"rewire", "rewired"}, NEW g, g.at = f, client' = [client EXCEPT ![c] = g]
       PROVE  Underway'
  BY <1>12 DEF Underway, StateTyped, FormsTyped
<1>13. CASE UpdateSource(c)
  <2>1. client[c].at = "act"
    BY <1>13 DEF UpdateSource, Acts
  <2>2. \/ Done(c) /\ UNCHANGED <<platforms, created, groups, presets, sources, entry, disk>>
        \/ persist
        \/ client' = [client EXCEPT ![c] = [at |-> "rewire", todo |-> PlatformsOf(client[c].cmd.source)]]
    BY <1>13 DEF UpdateSource
  <2> QED BY <1>4, <1>12, <2>1, <2>2 DEF registry
<1>14. CASE Rewire(c)
  <2>1. PICK g : g.at = "rewired" /\ client' = [client EXCEPT ![c] = g]
    BY <1>14 DEF Rewire
  <2> QED BY <1>12, <2>1
<1>15. CASE Rewired(c)
  <2>1. \/ persist
        \/ client' = [client EXCEPT ![c] = [at |-> "rewire", todo |-> client[c].todo]]
    BY <1>15 DEF Rewired, StateTyped, FormsTyped
  <2> QED BY <1>12, <2>1
<1> QED BY <1>3, <1>5, <1>6, <1>7, <1>8, <1>10, <1>11, <1>13, <1>14, <1>15
        DEF PlatformCommand, SourceCommand

LEMMA HookWrites ==
  ASSUME StateTyped,
         \/ \E s \in SourceNames : OnAvailable(s) \/ Validated(s) \/ OnUnavailable(s)
         \/ \E i \in Entries : FallbackUnusable(i)
         \/ Stop \/ StopNext \/ UNCHANGED registryVars
  PROVE  persist \/ (Unwritten /\ (Underway => Underway'))
<1>1. UNCHANGED <<platforms, groups, presets, client>>
  BY DEF OnAvailable, Validated, OnUnavailable, FallbackUnusable, Stop, StopNext, KeepPlatforms, KeepMeta,
         meta, registry, registryVars
<1>2. Underway => Underway'
  BY <1>1 DEF Underway
<1>3. CASE UNCHANGED <<entry, sources, disk>>
  BY <1>1, <1>2, <1>3 DEF Unwritten
<1>4. ASSUME NEW s \in SourceNames, OnAvailable(s) PROVE Unwritten
  <2>1. sources' = [sources EXCEPT ![s].avail = TRUE] /\ entry' = entry /\ disk' = disk
    BY <1>4 DEF OnAvailable, KeepPlatforms, registry
  <2> QED BY <1>1, <2>1 DEF Unwritten, StateTyped, MetaTyped
<1>5. ASSUME NEW s \in SourceNames, Validated(s) PROVE persist \/ Unwritten
  <2>1. /\ sources' = [sources EXCEPT ![s].valid = TRUE]
        /\ Becomes([i \in PlatformsOf(s) |-> [Gated(entry[i]) EXCEPT !.heard = TRUE]])
        /\ persist \/ (disk' = disk /\ \A i \in PlatformsOf(s) : Gated(entry[i]) = entry[i])
    BY <1>5 DEF Validated, Becomes
  <2>2. \A x \in SourceNames : sources'[x].here = sources[x].here
    BY <2>1 DEF StateTyped, MetaTyped
  <2>3. \A i \in 1..created : entry'[i].cfg = IF i \in PlatformsOf(s) THEN Gated(entry[i]).cfg ELSE entry[i].cfg
    BY <2>1, HeardIs DEF StateTyped
  <2> QED BY <1>1, <2>1, <2>2, <2>3 DEF Unwritten
<1>6. ASSUME NEW s \in SourceNames, OnUnavailable(s) PROVE Unwritten
  <2>1. /\ sources' = [sources EXCEPT ![s].avail = FALSE, ![s].valid = FALSE] /\ disk' = disk
        /\ Becomes([i \in PlatformsOf(s) |-> [entry[i] EXCEPT !.heard = FALSE]])
    BY <1>6 DEF OnUnavailable, Becomes
  <2>2. \A x \in SourceNames : sources'[x].here = sources[x].here
    BY <2>1 DEF StateTyped, MetaTyped
  <2>3. \A i \in 1..created : entry'[i].cfg = entry[i].cfg
    BY <2>1, HeardIs DEF StateTyped
  <2> QED BY <1>1, <2>1, <2>2, <2>3 DEF Unwritten
<1>7. ASSUME NEW i \in Entries, FallbackUnusable(i) PROVE persist
  BY <1>7 DEF FallbackUnusable, SetEnabled
<1>8. ASSUME StopNext PROVE Unwritten
  <2>1. PICK i \in 1..created : entry' = Shut(i)
    BY <1>8 DEF StopNext, StateTyped, RestTyped
  <2> QED BY <1>1, <1>8, <2>1, ShutIs DEF StopNext, Unwritten, KeepMeta, meta, StateTyped
<1> QED BY <1>2, <1>3, <1>4, <1>5, <1>6, <1>7, <1>8
        DEF Stop, KeepPlatforms, KeepMeta, meta, registry, registryVars

\* A service that is killed comes back with what the dashboards were shown (persistLocked under
\* the lock of every command): the file says what is in memory, however many commands overlap
\* and wherever they gave the lock back, except while platforms are recreated one by one.
THEOREM DiskFollows == RegistrySpec => []DiskIsMemory
<1>1. RegistryInit => DiskIsMemory
  BY DEF RegistryInit, DiskIsMemory
<1>2. StateTyped /\ DiskIsMemory /\ [RegistryNext]_registryVars => DiskIsMemory'
  <2> SUFFICES ASSUME StateTyped, DiskIsMemory, [RegistryNext]_registryVars PROVE DiskIsMemory'
    OBVIOUS
  <2>1. persist \/ Underway' \/ (Unwritten /\ (Underway => Underway'))
    BY CommandWrites, HookWrites DEF RegistryNext
  <2>2. persist \/ Underway' => DiskIsMemory'
    BY DEF persist, DiskIsMemory
  <2> QED BY <2>1, <2>2, UnwrittenKeeps
<1> QED BY <1>1, <1>2, StateTypes, PTL DEF RegistrySpec

----------------------------------------------------------------------------
(* What a platform refers to exists.                                       *)

\* What a configuration refers to exists, but for its group; and a platform that was not led
\* astray has a group, and its gate.
Resolves(cfg) == sources[cfg.source].here /\ cfg.preset \in presets
Grouped(i) == entry[i].cfg.group \in groups.here /\ entry[i].gate = GroupEnabled(entry[i].cfg.group)
Sound(i) == Resolves(entry[i].cfg) /\ (i \in strays \/ Grouped(i))

AllSound == (\A i \in Registered : Sound(i)) /\ DefaultSourceStays

OneAtATime == \A c, d \in Dashboards : client[c] # Idle /\ client[d] # Idle => c = d

\* What was checked of a command holds until it is carried out, and so does what is needed when
\* the lock is back.
FormResolves(c) ==
  /\ client[c].at = "act" => Valid(client[c].cmd)
  /\ client[c].at \in {"recreate", "rewired"} => Resolves(client[c].cfg)
  /\ client[c].at \in {"rewire", "rewired"} => \A j \in client[c].todo : Resolves(entry[j].cfg)

FormsResolve == \A c \in Dashboards : FormResolves(c)

RefsInv == crowded \/ (AllSound /\ OneAtATime /\ FormsResolve)

\* Nothing that is referred to, and no reference, changes.
Calm ==
  /\ UNCHANGED <<platforms, created, defaultName, groups, presets>>
  /\ \A s \in SourceNames : sources'[s].here = sources[s].here /\ sources'[s].main = sources[s].main
  /\ \A i \in 1..created : Alike(entry'[i], entry[i])

\* Nor does what is on air, and who knows of it.
Steady ==
  /\ sources' = sources
  /\ \A i \in 1..created : entry'[i].heard = entry[i].heard /\ (entry'[i].up => entry[i].up)

LEMMA ShutCalm ==
  ASSUME StateTyped, NEW i \in 1..created, entry' = Shut(i), UNCHANGED <<platforms, created>>,
         UNCHANGED meta
  PROVE  Calm /\ Steady
BY ShutIs DEF Calm, Steady, meta, StateTyped

LEMMA NothingCalm ==
  ASSUME UNCHANGED registry, UNCHANGED meta PROVE Calm /\ Steady
BY DEF Calm, Steady, meta, registry, Alike

LEMMA CfgTyped ==
  ASSUME StateTyped, NEW i \in 1..created
  PROVE  /\ entry[i].cfg \in Config /\ entry[i].cfg.source \in SourceNames
         /\ entry[i].cfg.group \in Groups /\ entry[i].cfg.preset \in Presets /\ entry[i].cfg.name \in Names
BY Given DEF StateTyped, Runtimes, Config

LEMMA CalmResolves ==
  ASSUME StateTyped, Calm, NEW i \in 1..created, Resolves(entry[i].cfg) PROVE Resolves(entry[i].cfg)'
BY CfgTyped DEF Calm, Alike, Resolves

\* A platform goes astray, or stays so, or the step has to give it the gate of its group.
LEMMA StraySound ==
  ASSUME Strayed, NEW i \in 1..created', Resolves(entry[i].cfg)',
         (/\ entry'[i].cfg.group \in groups'.here
          /\ i \notin strays \/ entry'[i].cfg.group # entry[i].cfg.group)
           => entry'[i].gate = GroupEnabled(entry[i].cfg.group)'
  PROVE  Sound(i)'
BY DEF Strayed, Sound, Grouped

LEMMA CalmSound ==
  ASSUME StateTyped, Calm, Strayed, AllSound PROVE AllSound'
<1>1. Registered' = Registered /\ \A i \in Registered : i \in 1..created
  BY RegisteredIs DEF Registered, Calm, StateTyped
<1>2. \A g : GroupEnabled(g)' = GroupEnabled(g)
  BY DEF GroupEnabled, Calm
<1>3. ASSUME NEW i \in Registered PROVE Sound(i)'
  <2>1. i \in 1..created /\ Resolves(entry[i].cfg)'
    BY <1>1, CalmResolves DEF AllSound, Sound
  <2>2. entry'[i].gate = entry[i].gate /\ entry'[i].cfg.group = entry[i].cfg.group /\ created' = created
    BY <2>1 DEF Calm, Alike
  <2>3. i \notin strays => entry'[i].gate = GroupEnabled(entry[i].cfg.group)'
    BY <1>2, <1>3, <2>2 DEF AllSound, Sound, Grouped, GroupEnabled, Calm
  <2> QED BY <2>1, <2>2, <2>3, StraySound
<1>4. DefaultSourceStays'
  BY DEF AllSound, DefaultSourceStays, Calm, StateTyped, MetaTyped
<1> QED BY <1>1, <1>3, <1>4 DEF AllSound

\* What was checked of a command still holds.
LEMMA CalmValid ==
  ASSUME StateTyped, Calm, NEW k \in Command, Valid(k) PROVE Valid(k)'
<1>1. Registered' = Registered /\ \A i \in Registered : i \in 1..created
  BY RegisteredIs DEF Registered, Calm, StateTyped
<1>2. \A s : PlatformsOf(s)' = PlatformsOf(s)
  BY <1>1 DEF PlatformsOf, Calm, Alike
<1>3. \A p : PresetUsed(p)' = PresetUsed(p)
  BY <1>1 DEF PresetUsed, ResolvePreset, Calm, Alike
<1>4. \A s \in SourceNames : sources'[s].here = sources[s].here
  BY DEF Calm
<1>5. UNCHANGED <<platforms, groups, presets>>
  BY DEF Calm
<1> QED BY <1>2, <1>3, <1>4, <1>5, CommandFields DEF Valid

LEMMA CalmForm ==
  ASSUME StateTyped, Calm, NEW c \in Dashboards, client'[c] = client[c], FormResolves(c)
  PROVE  FormResolves(c)'
<1>1. client[c].at = "act" => Valid(client[c].cmd)'
  BY CalmValid, FormFields DEF FormResolves, StateTyped
<1>2. client[c].at \in {"rewire", "rewired"} => \A j \in client[c].todo : Resolves(entry[j].cfg)'
  BY CalmResolves, FormFields DEF FormResolves, StateTyped
<1>3. client[c].at \in {"recreate", "rewired"} => Resolves(client[c].cfg)'
  BY FormFields DEF FormResolves, StateTyped, Calm, Resolves, Config
<1> QED BY <1>1, <1>2, <1>3 DEF FormResolves

LEMMA DoneAlone ==
  ASSUME StateTyped, OneAtATime, NEW c \in Dashboards, client[c].at # "idle", Done(c)
  PROVE  OneAtATime' /\ FormsResolve'
<1>1. \A d \in Dashboards : client'[d] = Idle
  BY DEF Done, OneAtATime, Idle, StateTyped, FormsTyped
<1> QED BY <1>1 DEF OneAtATime, FormsResolve, FormResolves, Idle

LEMMA GoesOn ==
  ASSUME StateTyped, OneAtATime, NEW c \in Dashboards, client[c].at # "idle", NEW f,
         client' = [client EXCEPT ![c] = f], FormResolves(c)'
  PROVE  OneAtATime' /\ FormsResolve'
<1>1. \A d \in Dashboards : d # c => client'[d] = Idle
  BY DEF OneAtATime, Idle, StateTyped, FormsTyped
<1> QED BY <1>1 DEF OneAtATime, FormsResolve, FormResolves, Idle

\* A platform is created, or created anew, under a name that is free or taken from another.
LEMMA CreatedSound ==
  ASSUME StateTyped, AllSound, Strayed, UNCHANGED meta, NEW cfg \in Config, Resolves(cfg),
         NEW n \in Int, n = created + 1, created' = n,
         Alike(entry'[n], Fresh(cfg)), \A i \in 1..created : entry'[i] = entry[i],
         platforms'[cfg.name] = n,
         \A m \in Names : m # cfg.name => platforms'[m] \in {Nobody, platforms[m]}
  PROVE  AllSound'
<1>2. ASSUME NEW i \in Registered PROVE Sound(i)'
  <2>1. i \in 1..created /\ i \in 1..created' /\ entry'[i] = entry[i] /\ Sound(i)
    <3>1. i \in 1..created
      BY RegisteredIs DEF StateTyped
    <3>2. created \in Nat /\ created' = created + 1
      BY RegistryBoundsAssumption DEF StateTyped, EntriesTyped
    <3>3. i \in 1..created'
      BY <3>1, <3>2
    <3> QED BY <3>1, <3>3 DEF AllSound
  <2>2. Resolves(entry[i].cfg)'
    BY <2>1 DEF Sound, Resolves, meta
  <2>3. i \notin strays => entry'[i].gate = GroupEnabled(entry[i].cfg.group)'
    BY <2>1 DEF Sound, Grouped, GroupEnabled, meta
  <2> QED BY <2>1, <2>2, <2>3, StraySound
<1>3. Sound(n)'
  <2>1. Fresh(cfg).cfg = cfg /\ Fresh(cfg).gate = GroupEnabled(cfg.group)
    BY FreshIs
  <2>2. /\ entry'[n].cfg.source = cfg.source /\ entry'[n].cfg.preset = cfg.preset
        /\ entry'[n].cfg.group = cfg.group /\ entry'[n].gate = GroupEnabled(cfg.group)
    BY <2>1 DEF Alike
  <2>3. n \in 1..created'
    BY DEF StateTyped, EntriesTyped
  <2>4. Resolves(entry[n].cfg)' /\ entry'[n].gate = GroupEnabled(entry[n].cfg.group)'
    BY <2>2 DEF Resolves, GroupEnabled, meta
  <2> QED BY <2>3, <2>4, StraySound
<1>4. Registered' \subseteq Registered \cup {n}
  BY DEF Registered
<1>5. DefaultSourceStays'
  BY DEF AllSound, DefaultSourceStays, meta
<1> QED BY <1>2, <1>3, <1>4, <1>5 DEF AllSound

LEMMA PoppedSound ==
  ASSUME StateTyped, AllSound, Strayed, UNCHANGED meta, UNCHANGED <<entry, created>>,
         \A m \in Names : platforms'[m] \in {Nobody, platforms[m]}
  PROVE  AllSound'
<1>1. Registered' \subseteq Registered
  BY DEF Registered
<1>2. ASSUME NEW i \in Registered PROVE Sound(i)'
  <2>1. i \in 1..created' /\ Sound(i)
    BY RegisteredIs DEF AllSound, StateTyped
  <2>2. Resolves(entry[i].cfg)'
    BY <2>1 DEF Sound, Resolves, meta
  <2>3. i \notin strays => entry'[i].gate = GroupEnabled(entry[i].cfg.group)'
    BY <2>1 DEF Sound, Grouped, GroupEnabled, meta
  <2> QED BY <2>1, <2>2, <2>3, StraySound
<1> QED BY <1>1, <1>2 DEF AllSound, DefaultSourceStays, meta

\* The commands on platforms.
LEMMA AddPlatformSound ==
  ASSUME StateTyped, AllSound, Strayed, NEW c \in Dashboards, AddPlatform(c) PROVE AllSound'
<1> DEFINE n == client[c].cmd.name
           cfg == [name |-> n, source |-> defaultName, group |-> MainGroup, preset |-> MainPreset,
                   enabled |-> FALSE]
<1>1. n \in Names
  BY CommandFields, FormFields DEF AddPlatform, Acts, StateTyped
<1>2. cfg \in Config /\ cfg.name = n /\ Resolves(cfg)
  BY <1>1, AddedConfig DEF AllSound, DefaultSourceStays, Resolves, StateTyped, MetaTyped
<1>3. UNCHANGED meta /\ (UNCHANGED registry \/ Instantiate(platforms, cfg, New(cfg)))
  BY DEF AddPlatform, KeepMeta
<1>4. CASE UNCHANGED registry
  BY <1>3, <1>4, NothingCalm, CalmSound
<1>5. CASE Instantiate(platforms, cfg, New(cfg))
  <2> HIDE DEF cfg
  <2>1. New(cfg) \in Runtimes /\ New(cfg).cfg.name = cfg.name /\ Alike(New(cfg), Fresh(cfg))
    BY <1>2, NewIs, FreshIs DEF Alike
  <2>2. /\ entry'[created + 1] = New(cfg) /\ \A i \in 1..created : entry'[i] = entry[i]
        /\ platforms'[cfg.name] = created + 1
        /\ \A m \in Names : m # cfg.name => platforms'[m] = platforms[m]
    BY <1>2, <1>5, <2>1, InstantiateTyped DEF EntriesTyped, StateTyped
  <2>3. created + 1 \in Int /\ created' = created + 1
    BY <1>5 DEF StateTyped, EntriesTyped, Instantiate
  <2> QED BY <1>2, <1>3, <2>1, <2>2, <2>3, CreatedSound
<1> QED BY <1>3, <1>4, <1>5

LEMMA AnewSound ==
  ASSUME StateTyped, AllSound, Strayed, NEW c \in Dashboards, Recreate(c) \/ Rewired(c), Resolves(client[c].cfg)
  PROVE  AllSound'
<1> DEFINE cfg == client[c].cfg
<1>1. created + 1 \in Int /\ created' = created + 1 /\ UNCHANGED meta
  BY DEF StateTyped, EntriesTyped, Recreate, Rewired, KeepMeta, Instantiate
<1>2. CASE Recreate(c)
  <2>1. /\ client[c].name \in Names /\ cfg \in Config
        /\ entry'[created + 1] = New(cfg) /\ \A i \in 1..created : entry'[i] = entry[i]
        /\ platforms'[cfg.name] = created + 1
        /\ \A m \in Names : m # cfg.name => platforms'[m] = Pop(client[c].name)[m]
    BY <1>2, RecreateTyped
  <2>2. \A m \in Names : Pop(client[c].name)[m] \in {Nobody, platforms[m]}
    BY <2>1, PopIs DEF StateTyped
  <2>3. Alike(New(cfg), Fresh(cfg))
    BY <2>1, NewIs
  <2> HIDE DEF cfg
  <2> QED BY <1>1, <2>1, <2>2, <2>3, CreatedSound DEF cfg
<1>3. CASE Rewired(c)
  <2>1. /\ cfg \in Config
        /\ entry'[created + 1] = Fresh(cfg) /\ \A i \in 1..created : entry'[i] = entry[i]
        /\ platforms'[cfg.name] = created + 1
        /\ \A m \in Names : m # cfg.name => platforms'[m] = platforms[m]
    BY <1>3, RewiredTyped
  <2>2. Alike(Fresh(cfg), Fresh(cfg))
    BY DEF Alike
  <2> HIDE DEF cfg
  <2> QED BY <1>1, <2>1, <2>2, CreatedSound DEF cfg
<1> QED BY <1>2, <1>3

\* The form of an update names what exists, but for the group.
LEMMA FormOfUpdate ==
  ASSUME NEW k, k.kind = "update", Valid(k), NEW cfg, cfg.source = k.source, cfg.preset = k.preset
  PROVE  Resolves(cfg)
BY DEF Valid, Resolves

LEMMA UpdatePlatformSound ==
  ASSUME StateTyped, AllSound, Strayed, OneAtATime, FormsResolve,
         NEW c \in Dashboards, UpdatePlatform(c)
  PROVE  AllSound' /\ OneAtATime' /\ FormsResolve'
<1> DEFINE k == client[c].cmd
           i == platforms[k.name]
           cfg == [name |-> k.to, source |-> k.source, group |-> k.group, preset |-> k.preset,
                   enabled |-> entry[i].cfg.enabled]
<1>1. Acts(c, "update") /\ client[c].at = "act" /\ UNCHANGED meta
  BY DEF UpdatePlatform, KeepMeta, Acts
<1>2. Resolves(cfg)
  BY <1>1, FormOfUpdate DEF Acts, FormsResolve, FormResolves
<1>3. CASE i = Nobody /\ Done(c) /\ UNCHANGED registry
  BY <1>1, <1>3, NothingCalm, CalmSound, DoneAlone
<1>4. CASE /\ i # Nobody /\ entry' = Shut(i) /\ UNCHANGED <<platforms, created>>
           /\ client' = [client EXCEPT ![c] = [at |-> "recreate", name |-> k.name, cfg |-> cfg]]
  <2>1. i \in 1..created
    BY <1>1, <1>4, UpdatedConfig
  <2>2. Calm
    BY <1>1, <1>4, <2>1, ShutCalm
  <2> DEFINE f == [at |-> "recreate", name |-> k.name, cfg |-> cfg]
  <2>3. f.at = "recreate" /\ f.cfg = cfg /\ client' = [client EXCEPT ![c] = f]
    BY <1>4
  <2> HIDE DEF f, cfg
  <2>4. client'[c] = f
    BY <2>3 DEF StateTyped, FormsTyped
  <2>5. FormResolves(c)'
    BY <1>1, <1>2, <2>3, <2>4 DEF FormResolves, Resolves, meta
  <2> QED BY <1>1, <2>2, <2>3, <2>5, CalmSound, GoesOn
<1>5. CASE /\ i # Nobody /\ ~NeedsNewRuntime(k, entry[i])
           /\ entry' = [entry EXCEPT ![i] = Applied(entry[i], cfg)]
           /\ UNCHANGED <<platforms, created>> /\ Done(c)
  <2>1. k.to = k.name
    BY <1>5 DEF NeedsNewRuntime
  <2>2. i \in 1..created /\ cfg \in Config /\ entry[i].cfg.name = cfg.name /\ entry[i] \in Runtimes
    BY <1>1, <1>5, <2>1, UpdatedConfig
  <2>3. Replaces(entry', i, Applied(entry[i], cfg)) /\ UNCHANGED platforms /\ Done(c)
    BY <1>5 DEF Replaces
  <2> HIDE DEF cfg, i, k
  <2>4. entry'[i] = Applied(entry[i], cfg) /\ \A j \in 1..created : j # i => entry'[j] = entry[j]
    BY <2>2, <2>3, AppliedTo DEF StateTyped
  <2>5. /\ entry'[i].cfg = cfg
        /\ entry'[i].gate = IF cfg.group = entry[i].cfg.group THEN entry[i].gate ELSE GroupEnabled(cfg.group)
    BY <2>2, <2>4, AppliedIs
  <2>6. ASSUME NEW j \in Registered PROVE Sound(j)'
    <3>1. j \in 1..created /\ j \in 1..created' /\ Sound(j)
      BY <1>5, RegisteredIs DEF AllSound, StateTyped
    <3>2. CASE j = i
      <4>1. /\ entry'[j].cfg = cfg
            /\ j \notin strays \/ cfg.group # entry[j].cfg.group => entry'[j].gate = GroupEnabled(cfg.group)
        BY <2>5, <3>1, <3>2 DEF Sound, Grouped
      <4>2. Resolves(entry[j].cfg)'
        BY <1>1, <1>2, <4>1 DEF Resolves, meta
      <4>3. GroupEnabled(entry[j].cfg.group)' = GroupEnabled(cfg.group)
        BY <1>1, <4>1 DEF GroupEnabled, meta
      <4> QED BY <3>1, <4>1, <4>2, <4>3, StraySound
    <3>3. CASE j # i
      <4>1. Resolves(entry[j].cfg)' /\ entry'[j].cfg.group = entry[j].cfg.group
        BY <1>1, <2>4, <3>1, <3>3 DEF Sound, Resolves, meta
      <4>2. j \notin strays => entry'[j].gate = GroupEnabled(entry[j].cfg.group)'
        BY <1>1, <2>4, <3>1, <3>3 DEF Sound, Grouped, GroupEnabled, meta
      <4> QED BY <3>1, <4>1, <4>2, StraySound
    <3> QED BY <3>2, <3>3
  <2>7. Registered' = Registered
    BY <2>3 DEF Registered
  <2>8. AllSound'
    BY <1>1, <2>6, <2>7 DEF AllSound, DefaultSourceStays, meta
  <2> QED BY <1>1, <2>3, <2>8, DoneAlone
<1> QED BY <1>3, <1>4, <1>5 DEF UpdatePlatform

LEMMA SwitchSound ==
  ASSUME StateTyped, AllSound, Strayed, OneAtATime, FormsResolve, NEW c \in Dashboards,
         RemovePlatform(c) \/ PopPlatform(c) \/ EnablePlatform(c) \/ DisablePlatform(c)
  PROVE  AllSound' /\ OneAtATime' /\ FormsResolve'
<1> DEFINE n == client[c].cmd.name
<1>1. UNCHANGED meta /\ created' = created /\ client[c].at \in {"act", "pop"}
  BY DEF RemovePlatform, PopPlatform, EnablePlatform, DisablePlatform, KeepMeta, Acts
<1>2. CASE PopPlatform(c)
  <2>1. client[c].name \in Names /\ platforms' = Pop(client[c].name) /\ UNCHANGED <<entry, created>> /\ Done(c)
    BY <1>2, FormFields DEF PopPlatform, StateTyped
  <2>2. \A m \in Names : platforms'[m] \in {Nobody, platforms[m]}
    BY <2>1, PopIs DEF StateTyped
  <2> QED BY <1>1, <2>1, <2>2, PoppedSound, DoneAlone
<1>3. CASE RemovePlatform(c) \/ EnablePlatform(c) \/ DisablePlatform(c)
  <2>1. client[c].at = "act" /\ client[c].cmd.kind \in {"remove", "enable", "disable"} /\ platforms' = platforms
    BY <1>3 DEF RemovePlatform, EnablePlatform, DisablePlatform, Acts
  <2>2. platforms[n] # Nobody => platforms[n] \in 1..created
    BY <2>1, CommandFields, FormFields DEF StateTyped, EntriesTyped, Nobody
  <2>3. CASE UNCHANGED entry /\ Done(c)
    BY <1>1, <2>1, <2>3, NothingCalm, CalmSound, DoneAlone DEF registry
  <2>4. CASE /\ platforms[n] # Nobody /\ entry' = Shut(platforms[n])
             /\ client' = [client EXCEPT ![c] = [at |-> "pop", name |-> n]]
    <3>1. Calm
      BY <1>1, <2>1, <2>2, <2>4, ShutCalm
    <3>2. FormResolves(c)'
      BY <2>4 DEF FormResolves, StateTyped, FormsTyped
    <3> QED BY <1>1, <2>4, <3>1, <3>2, CalmSound, GoesOn
  <2>5. ASSUME NEW on \in BOOLEAN, platforms[n] # Nobody, SetEnabled(platforms[n], on), Done(c)
        PROVE  AllSound' /\ OneAtATime' /\ FormsResolve'
    <3>1. Calm
      BY <1>1, <2>1, <2>2, <2>5, EnabledIs DEF Calm, meta, StateTyped
    <3> QED BY <1>1, <2>5, <3>1, CalmSound, DoneAlone
  <2> QED BY <1>3, <2>3, <2>4, <2>5 DEF RemovePlatform, EnablePlatform, DisablePlatform
<1> QED BY <1>2, <1>3

\* The commands on sources. A source goes only when nothing names it, and never the default one.
LEMMA SourceSound ==
  ASSUME StateTyped, AllSound, Strayed, NEW c \in Dashboards, AddSource(c) \/ RemoveSource(c)
  PROVE  AllSound'
<1> DEFINE s == client[c].cmd.source
           more == [NoSource EXCEPT !.here = TRUE]
<1>1. UNCHANGED registry /\ UNCHANGED <<defaultName, groups, presets>>
  BY DEF AddSource, RemoveSource, KeepPlatforms
<1>2. \/ sources' = sources
      \/ ~sources[s].here /\ sources' = [sources EXCEPT ![s] = more]
      \/ ~sources[s].main /\ PlatformsOf(s) = {} /\ sources' = [sources EXCEPT ![s] = NoSource]
  BY DEF AddSource, RemoveSource
<1>3. more.here
  BY DEF NoSource
<1> HIDE DEF s, more
<1>4. \A i \in Registered : sources[entry[i].cfg.source].here => sources'[entry[i].cfg.source].here
  <2> TAKE i \in Registered
  <2>1. i \in 1..created
    BY RegisteredIs DEF StateTyped
  <2>2. entry[i].cfg.source \in SourceNames
    BY <2>1, CfgTyped
  <2>3. PlatformsOf(s) = {} => entry[i].cfg.source # s
    BY DEF PlatformsOf
  <2> QED BY <1>2, <1>3, <2>2, <2>3 DEF StateTyped, MetaTyped
<1>5. DefaultSourceStays'
  BY <1>1, <1>2, <1>3 DEF AllSound, DefaultSourceStays, StateTyped, MetaTyped
<1>6. Registered' = Registered
  BY <1>1 DEF Registered, registry
<1>7. ASSUME NEW i \in Registered PROVE Sound(i)'
  <2>1. i \in 1..created' /\ Sound(i)
    BY <1>1, RegisteredIs DEF AllSound, StateTyped, registry
  <2>2. Resolves(entry[i].cfg)'
    BY <1>1, <1>4, <2>1 DEF Sound, Resolves, registry
  <2>3. i \notin strays => entry'[i].gate = GroupEnabled(entry[i].cfg.group)'
    BY <1>1, <2>1 DEF Sound, Grouped, GroupEnabled, registry
  <2>4. entry'[i].cfg.group = entry[i].cfg.group
    BY <1>1 DEF registry
  <2> QED BY <2>1, <2>2, <2>3, <2>4, StraySound
<1> QED BY <1>5, <1>6, <1>7 DEF AllSound

LEMMA UpdateSourceSound ==
  ASSUME StateTyped, AllSound, Strayed, OneAtATime, FormsResolve, NEW c \in Dashboards, UpdateSource(c)
  PROVE  AllSound' /\ OneAtATime' /\ FormsResolve'
<1> DEFINE s == client[c].cmd.source
           to == client[c].cmd.to
           f == [at |-> "rewire", todo |-> PlatformsOf(s)]
<1>1. /\ client[c].at = "act" /\ client[c].cmd.kind = "update_source" /\ s \in SourceNames /\ to \in SourceNames
      /\ UNCHANGED <<platforms, created, groups, presets>>
  BY UpdateSourceIs
<1>2. to = s \/ ~sources[to].here
  BY <1>1 DEF FormsResolve, FormResolves, Valid
<1>3. CASE Done(c) /\ UNCHANGED <<sources, defaultName, entry, disk>>
  BY <1>1, <1>3, NothingCalm, CalmSound, DoneAlone DEF registry, meta
<1>4. CASE /\ Becomes([i \in PlatformsOf(s) |-> [entry[i] EXCEPT !.cfg.source = to]])
           /\ sources[s].here
           /\ sources' = [sources EXCEPT ![s] = NoSource, ![to] = sources[s]]
           /\ defaultName' = IF sources[s].main THEN to ELSE defaultName
           /\ Done(c) \/ client' = [client EXCEPT ![c] = f]
  <2>1. /\ sources'[to] = sources[s]
        /\ \A x \in SourceNames : x # to => sources'[x] = IF x = s THEN NoSource ELSE sources[x]
    <3>1. MetaTyped /\ s \in SourceNames /\ to \in SourceNames
      BY <1>1 DEF StateTyped
    <3> HIDE DEF s, to
    <3> QED BY <1>4, <3>1, SourceMoves
  <2>2. \A i \in 1..created :
          /\ entry'[i].cfg.source = IF i \in PlatformsOf(s) THEN to ELSE entry[i].cfg.source
          /\ entry'[i].cfg.preset = entry[i].cfg.preset /\ entry'[i].cfg.group = entry[i].cfg.group
          /\ entry'[i].gate = entry[i].gate
    BY <1>1, <1>4, RenamedIs DEF StateTyped
  <2>3. Registered' = Registered
    BY <1>1 DEF Registered
  <2>4. ASSUME NEW i \in Registered PROVE Sound(i)'
    <3>1. i \in 1..created /\ Sound(i)
      BY RegisteredIs DEF AllSound, StateTyped
    <3>2. sources'[entry'[i].cfg.source].here
      <4>1. entry[i].cfg.source \in SourceNames
        BY <3>1, CfgTyped
      <4>2. CASE i \in PlatformsOf(s)
        BY <1>4, <2>1, <2>2, <3>1, <4>2
      <4>3. CASE i \notin PlatformsOf(s)
        <5>1. entry[i].cfg.source # s /\ entry'[i].cfg.source = entry[i].cfg.source
          BY <2>2, <2>4, <3>1, <4>3 DEF PlatformsOf
        <5> QED BY <1>4, <2>1, <3>1, <4>1, <5>1 DEF Sound, Resolves
      <4> QED BY <4>2, <4>3
    <3>3. Resolves(entry[i].cfg)' /\ entry'[i].cfg.group = entry[i].cfg.group /\ created' = created
      BY <1>1, <2>2, <3>1, <3>2 DEF Sound, Resolves
    <3>4. i \notin strays => entry'[i].gate = GroupEnabled(entry[i].cfg.group)'
      BY <1>1, <2>2, <3>1 DEF Sound, Grouped, GroupEnabled
    <3> QED BY <3>1, <3>3, <3>4, StraySound
  <2>5. DefaultSourceStays'
    BY <1>1, <1>2, <1>4, <2>1 DEF AllSound, DefaultSourceStays, StateTyped, MetaTyped
  <2>6. AllSound'
    BY <2>3, <2>4, <2>5 DEF AllSound
  <2>7. CASE Done(c)
    BY <1>1, <2>6, <2>7, DoneAlone
  <2>8. CASE client' = [client EXCEPT ![c] = f]
    <3>1. client'[c] = f
      BY <2>8 DEF StateTyped, FormsTyped
    <3>2. \A j \in PlatformsOf(s) : j \in Registered
      BY DEF PlatformsOf
    <3>3. FormResolves(c)'
      BY <2>4, <3>1, <3>2 DEF FormResolves, Sound
    <3> HIDE DEF f
    <3> QED BY <1>1, <2>6, <2>8, <3>3, GoesOn
  <2> QED BY <1>4, <2>7, <2>8
<1> QED BY <1>3, <1>4, UpdateSourceIs

LEMMA RewireSound ==
  ASSUME StateTyped, AllSound, Strayed, OneAtATime, FormsResolve, NEW c \in Dashboards, Rewire(c) \/ Rewired(c)
  PROVE  AllSound' /\ OneAtATime' /\ FormsResolve'
<1>1. client[c].todo \in SUBSET (1..created) /\ UNCHANGED meta
  BY FormFields DEF Rewire, Rewired, StateTyped, KeepMeta
<1>2. \A j \in client[c].todo : Resolves(entry[j].cfg)
  BY DEF FormsResolve, FormResolves, Rewire, Rewired
<1>3. CASE Rewire(c)
  <2>1. PICK i \in client[c].todo :
          /\ entry' = Shut(i)
          /\ client' = [client EXCEPT ![c] = [at |-> "rewired", todo |-> client[c].todo \ {i},
                                              cfg |-> entry[i].cfg]]
    BY <1>3 DEF Rewire, StateTyped, FormsTyped
  <2>2. Calm
    BY <1>1, <1>3, <2>1, ShutCalm DEF Rewire
  <2> DEFINE f == [at |-> "rewired", todo |-> client[c].todo \ {i}, cfg |-> entry[i].cfg]
  <2>3. client' = [client EXCEPT ![c] = f] /\ client'[c] = f
    BY <2>1 DEF StateTyped, FormsTyped
  <2>4. \A j \in client[c].todo : Resolves(entry[j].cfg)'
    BY <1>1, <1>2, <2>2, CalmResolves
  <2>6. FormResolves(c)'
    BY <1>1, <1>2, <2>3, <2>4 DEF FormResolves, Resolves, meta
  <2> HIDE DEF f
  <2> QED BY <1>3, <2>2, <2>3, <2>6, CalmSound, GoesOn DEF Rewire
<1>4. CASE Rewired(c)
  <2>1. AllSound'
    BY <1>4, AnewSound DEF FormsResolve, FormResolves, Rewired
  <2>2. CASE Done(c)
    BY <1>4, <2>1, <2>2, DoneAlone DEF Rewired
  <2>3. CASE client' = [client EXCEPT ![c] = [at |-> "rewire", todo |-> client[c].todo]]
    <3> DEFINE f == [at |-> "rewire", todo |-> client[c].todo]
    <3>1. client'[c] = f
      BY <2>3 DEF StateTyped, FormsTyped
    <3>2. \A i \in 1..created : entry'[i] = entry[i]
      BY <1>4, RewiredTyped
    <3>3. FormResolves(c)'
      BY <1>1, <1>2, <3>1, <3>2 DEF FormResolves, Resolves, meta
    <3>4. client' = [client EXCEPT ![c] = f]
      BY <2>3
    <3> HIDE DEF f
    <3> QED BY <1>4, <2>1, <3>3, <3>4, GoesOn DEF Rewired
  <2> QED BY <1>4, <2>2, <2>3 DEF Rewired, StateTyped, FormsTyped
<1> QED BY <1>3, <1>4

\* The commands on groups and presets.
LEMMA GroupSound ==
  ASSUME StateTyped, AllSound, Strayed, NEW c \in Dashboards,
         \/ AddGroup(c) \/ RemoveGroup(c) \/ SetGroupEnabled(c, TRUE) \/ SetGroupEnabled(c, FALSE)
  PROVE  AllSound'
<1> DEFINE g == client[c].cmd.group
<1>1. /\ UNCHANGED <<platforms, created, sources, defaultName, presets>>
      /\ client[c].at = "act"
      /\ client[c].cmd.kind \in {"add_group", "remove_group", "enable_group", "disable_group"}
  BY DEF AddGroup, RemoveGroup, SetGroupEnabled, KeepPlatforms, registry, Acts
<1>2. g \in Groups
  BY <1>1, CommandFields, FormFields DEF StateTyped
<1>3. Registered' = Registered /\ DefaultSourceStays'
  BY <1>1 DEF Registered, AllSound, DefaultSourceStays
<1>4. groups.here \subseteq Groups /\ groups.on \subseteq groups.here /\ MainGroup \in groups.here
  BY DEF StateTyped, MetaTyped
<1>5. ASSUME NEW i \in Registered
      PROVE  /\ i \in 1..created /\ entry[i] \in Runtimes
             /\ sources[entry[i].cfg.source].here /\ entry[i].cfg.preset \in presets
             /\ i \notin strays => /\ entry[i].cfg.group \in groups.here
                                  /\ entry[i].gate = (entry[i].cfg.group \in groups.on)
             /\ i \in Members(g) <=> entry[i].cfg.group = g
  BY <1>5, RegisteredIs DEF AllSound, Sound, Grouped, Resolves, GroupEnabled, Members, StateTyped
<1>6. ASSUME NEW i \in Registered, entry'[i].cfg.source = entry[i].cfg.source,
             entry'[i].cfg.preset = entry[i].cfg.preset,
             (/\ entry'[i].cfg.group \in groups'.here
              /\ i \notin strays \/ entry'[i].cfg.group # entry[i].cfg.group)
               => entry'[i].gate = (entry'[i].cfg.group \in groups'.on)
      PROVE  Sound(i)'
  <2>1. Resolves(entry[i].cfg)'
    BY <1>1, <1>5, <1>6 DEF Resolves
  <2>2. i \in 1..created'
    BY <1>1, <1>5
  <2>3. entry'[i].cfg.group \in groups'.here
          => GroupEnabled(entry[i].cfg.group)' = (entry'[i].cfg.group \in groups'.on)
    BY DEF GroupEnabled
  <2> QED BY <1>6, <2>1, <2>2, <2>3, StraySound
<1>7. CASE UNCHANGED <<groups, entry>>
  BY <1>3, <1>5, <1>6, <1>7 DEF AllSound
<1>8. CASE AddGroup(c) /\ groups' # groups
  <2>1. entry' = entry /\ g \notin groups.here
        /\ groups' = [here |-> groups.here \cup {g}, on |-> groups.on \cup {g}]
    BY <1>8 DEF AddGroup, KeepPlatforms, registry
  <2> QED BY <1>3, <1>5, <1>6, <2>1 DEF AllSound
<1>9. CASE RemoveGroup(c) /\ ~UNCHANGED <<groups, entry>>
  <2>1. /\ g # MainGroup /\ groups' = [here |-> groups.here \ {g}, on |-> groups.on \ {g}]
        /\ Becomes([i \in Members(g) |-> Applied(entry[i], [entry[i].cfg EXCEPT !.group = MainGroup])])
    BY <1>9 DEF RemoveGroup, Becomes
  <2>2. \A i \in 1..created :
          /\ entry'[i].cfg.source = entry[i].cfg.source /\ entry'[i].cfg.preset = entry[i].cfg.preset
          /\ IF i \in Members(g)
             THEN /\ entry'[i].cfg.group = MainGroup
                  /\ entry'[i].gate = IF MainGroup = g THEN entry[i].gate ELSE GroupEnabled(MainGroup)
             ELSE entry'[i] = entry[i]
    BY <1>2, <2>1, MovedIs DEF StateTyped
  <2>3. GroupEnabled(MainGroup) = (MainGroup \in groups.on)
    BY <1>4 DEF GroupEnabled
  <2>4. ASSUME NEW i \in Registered PROVE Sound(i)'
    <3>1. CASE i \in Members(g)
      BY <1>4, <1>5, <1>6, <2>1, <2>2, <2>3, <3>1
    <3>2. CASE i \notin Members(g)
      BY <1>5, <1>6, <2>1, <2>2, <3>2
    <3> QED BY <3>1, <3>2
  <2> QED BY <1>3, <2>4 DEF AllSound
<1>10. ASSUME NEW on \in BOOLEAN, SetGroupEnabled(c, on), ~UNCHANGED <<groups, entry>> PROVE AllSound'
  <2>1. /\ groups' = [groups EXCEPT !.on = IF on THEN @ \cup {g} ELSE @ \ {g}]
        /\ Becomes([i \in Members(g) |->
             [(IF on THEN Gated(entry[i]) ELSE entry[i]) EXCEPT !.gate = on, !.told.gate = on]])
    BY <1>10 DEF SetGroupEnabled, Becomes
  <2>2. groups'.here = groups.here /\ groups'.on = IF on THEN groups.on \cup {g} ELSE groups.on \ {g}
    BY <2>1 DEF StateTyped, MetaTyped
  <2>3. \A i \in 1..created :
          /\ entry'[i].cfg.source = entry[i].cfg.source /\ entry'[i].cfg.preset = entry[i].cfg.preset
          /\ entry'[i].cfg.group = entry[i].cfg.group
          /\ IF i \in Members(g) THEN entry'[i].gate = on ELSE entry'[i] = entry[i]
    BY <1>2, <2>1, OpenedIs DEF StateTyped
  <2>4. ASSUME NEW i \in Registered PROVE Sound(i)'
    <3>1. CASE i \in Members(g)
      <4>1. (g \in groups'.on) = on
        BY <2>2
      <4> QED BY <1>5, <1>6, <2>2, <2>3, <3>1, <4>1
    <3>2. CASE i \notin Members(g)
      BY <1>5, <1>6, <2>2, <2>3, <3>2
    <3> QED BY <3>1, <3>2
  <2> QED BY <1>3, <2>4 DEF AllSound
<1>11. AddGroup(c) => entry' = entry
  BY DEF AddGroup, KeepPlatforms, registry
<1> QED BY <1>7, <1>8, <1>9, <1>10, <1>11

LEMMA PresetSound ==
  ASSUME StateTyped, AllSound, Strayed, FormsResolve, NEW c \in Dashboards,
         AddPreset(c) \/ UpdatePreset(c) \/ RemovePreset(c)
  PROVE  AllSound'
<1> DEFINE p == client[c].cmd.preset
           users == {i \in Registered : ResolvePreset(entry[i].cfg.preset) = p}
<1>1. /\ UNCHANGED <<platforms, created, sources, defaultName, groups>>
      /\ client[c].at = "act" /\ client[c].cmd.kind \in {"add_preset", "update_preset", "remove_preset"}
  BY DEF AddPreset, UpdatePreset, RemovePreset, KeepPlatforms, KeepMeta, meta, registry, Acts
<1>2. p \in Presets
  BY <1>1, CommandFields, FormFields DEF StateTyped
<1>3. Registered' = Registered /\ DefaultSourceStays' /\ \A i \in Registered : i \in 1..created
  BY <1>1, RegisteredIs DEF Registered, AllSound, DefaultSourceStays, StateTyped
<1>4. ASSUME NEW i \in Registered, entry'[i].cfg.source = entry[i].cfg.source,
             entry'[i].cfg.group = entry[i].cfg.group, entry'[i].gate = entry[i].gate,
             entry'[i].cfg.preset \in presets'
      PROVE  Sound(i)'
  <2>1. i \in 1..created' /\ Sound(i)
    BY <1>1, <1>3 DEF AllSound
  <2>2. Resolves(entry[i].cfg)'
    BY <1>1, <1>4, <2>1 DEF Sound, Resolves
  <2>3. i \notin strays => entry'[i].gate = GroupEnabled(entry[i].cfg.group)'
    BY <1>1, <1>4, <2>1 DEF Sound, Grouped, GroupEnabled
  <2> QED BY <1>4, <2>1, <2>2, <2>3, StraySound
<1>5. CASE AddPreset(c)
  <2>1. entry' = entry /\ presets \subseteq presets'
    BY <1>5 DEF AddPreset, KeepPlatforms, registry
  <2> QED BY <1>3, <1>4, <2>1 DEF AllSound, Sound, Resolves
<1>6. CASE UpdatePreset(c)
  <2>1. presets' = presets
    BY <1>6 DEF UpdatePreset, KeepMeta, meta
  <2>2. CASE entry' = entry
    BY <1>3, <1>4, <2>1, <2>2 DEF AllSound, Sound, Resolves
  <2>3. CASE /\ p \in presets
             /\ Becomes([i \in users |-> Applied(entry[i], [entry[i].cfg EXCEPT !.preset = p])])
    <3>1. users \in SUBSET Registered
      OBVIOUS
    <3>2. p \in presets /\ p \in Presets
      BY <1>2, <2>3
    <3> HIDE DEF users, p
    <3>3. \A i \in 1..created :
            /\ entry'[i].cfg.source = entry[i].cfg.source /\ entry'[i].cfg.group = entry[i].cfg.group
            /\ entry'[i].gate = entry[i].gate
            /\ entry'[i].cfg.preset = IF i \in users THEN p ELSE entry[i].cfg.preset
      BY <2>3, <3>1, <3>2, ResetIs DEF StateTyped
    <3> QED BY <1>3, <1>4, <2>1, <3>2, <3>3 DEF AllSound, Sound, Resolves
  <2> QED BY <1>6, <2>2, <2>3 DEF UpdatePreset, Becomes
<1>7. CASE RemovePreset(c)
  <2>1. entry' = entry /\ presets \ {p} \subseteq presets'
    BY <1>7 DEF RemovePreset, KeepPlatforms, registry
  <2>2. ~PresetUsed(p)
    BY <1>7 DEF FormsResolve, FormResolves, Valid, RemovePreset, Acts
  <2>3. \A i \in Registered : entry[i].cfg.preset \in presets \ {p}
    BY <2>2 DEF PresetUsed, ResolvePreset, AllSound, Sound, Resolves
  <2> QED BY <1>3, <1>4, <2>1, <2>3 DEF AllSound
<1> QED BY <1>5, <1>6, <1>7

LEMMA CommandSound ==
  ASSUME StateTyped, AllSound, Strayed, OneAtATime, FormsResolve, NEW c \in Dashboards,
         PlatformCommand(c) \/ SourceCommand(c) \/ MetaCommand(c)
  PROVE  AllSound' /\ OneAtATime' /\ FormsResolve'
<1>1. ASSUME Done(c), client[c].at # "idle" PROVE OneAtATime' /\ FormsResolve'
  BY <1>1, DoneAlone
<1>2. CASE AddPlatform(c)
  BY <1>1, <1>2, AddPlatformSound DEF AddPlatform, Acts
<1>3. CASE Recreate(c)
  <2>1. Resolves(client[c].cfg)
    BY <1>3 DEF Recreate, FormsResolve, FormResolves
  <2> QED BY <1>1, <1>3, <2>1, AnewSound DEF Recreate
<1>4. CASE AddSource(c) \/ RemoveSource(c)
  BY <1>1, <1>4, SourceSound DEF AddSource, RemoveSource, Acts
<1>5. CASE MetaCommand(c)
  BY <1>1, <1>5, GroupSound, PresetSound
     DEF MetaCommand, AddGroup, RemoveGroup, SetGroupEnabled, AddPreset, UpdatePreset, RemovePreset, Acts
<1> QED BY <1>2, <1>3, <1>4, <1>5, UpdatePlatformSound, SwitchSound, UpdateSourceSound, RewireSound
        DEF PlatformCommand, SourceCommand

LEMMA AskSound ==
  ASSUME StateTyped, AllSound, Strayed, OneAtATime, FormsResolve, NEW c \in Dashboards, Ask(c), ~crowded'
  PROVE  AllSound' /\ OneAtATime' /\ FormsResolve'
<1>1. PICK k \in Command : Valid(k) /\ client' = [client EXCEPT ![c] = [at |-> "act", cmd |-> k]]
  BY DEF Ask
<1>2. Calm
  BY NothingCalm DEF Ask
<1>3. \A d \in Dashboards : d # c => client[d] = Idle /\ client'[d] = Idle
  BY <1>1 DEF Ask, StateTyped, FormsTyped
<1>4. client'[c] = [at |-> "act", cmd |-> k]
  BY <1>1 DEF StateTyped, FormsTyped
<1>5. Valid(k)'
  BY <1>1, <1>2, CalmValid
<1>6. FormsResolve'
  BY <1>3, <1>4, <1>5 DEF FormsResolve, FormResolves, Idle
<1>7. OneAtATime'
  BY <1>3 DEF OneAtATime
<1> QED BY <1>2, <1>6, <1>7, CalmSound

LEMMA HookCalm ==
  ASSUME StateTyped,
         \/ \E s \in SourceNames : OnAvailable(s) \/ Validated(s) \/ OnUnavailable(s)
         \/ \E i \in Entries : FallbackUnusable(i)
         \/ Stop \/ StopNext \/ UNCHANGED registryVars
  PROVE  Calm /\ client' = client /\ crowded' = crowded
<1>1. UNCHANGED <<platforms, created, defaultName, groups, presets, client, crowded>>
  BY DEF OnAvailable, Validated, OnUnavailable, FallbackUnusable, Stop, StopNext, KeepPlatforms, KeepMeta,
         meta, registry, registryVars, ends
<1>2. CASE Stop \/ UNCHANGED registryVars
  BY <1>1, <1>2, NothingCalm DEF Stop, KeepPlatforms, KeepMeta, registryVars, registry, meta
<1>3. CASE StopNext
  <2>1. PICK i \in 1..created : entry' = Shut(i)
    BY <1>3 DEF StopNext, StateTyped, RestTyped
  <2> QED BY <1>1, <1>3, <2>1, ShutCalm DEF StopNext, KeepMeta
<1>4. ASSUME NEW i \in Entries, FallbackUnusable(i) PROVE Calm
  <2>1. i \in 1..created /\ SetEnabled(i, FALSE)
    BY <1>4, RegisteredIs DEF FallbackUnusable, StateTyped
  <2> QED BY <1>1, <1>4, <2>1, EnabledIs DEF Calm, FallbackUnusable, KeepMeta, meta, StateTyped
<1>5. ASSUME NEW s \in SourceNames, OnAvailable(s) PROVE Calm
  <2>1. entry' = entry /\ sources' = [sources EXCEPT ![s].avail = TRUE]
    BY <1>5 DEF OnAvailable, KeepPlatforms, registry
  <2> QED BY <1>1, <2>1 DEF Calm, Alike, StateTyped, MetaTyped
<1>6. ASSUME NEW s \in SourceNames, Validated(s) PROVE Calm
  <2>1. /\ sources' = [sources EXCEPT ![s].valid = TRUE]
        /\ Becomes([i \in PlatformsOf(s) |-> [Gated(entry[i]) EXCEPT !.heard = TRUE]])
    BY <1>6 DEF Validated, Becomes
  <2>2. \A i \in 1..created : Alike(entry'[i], entry[i])
    BY <2>1, HeardIs DEF StateTyped
  <2> QED BY <1>1, <2>1, <2>2 DEF Calm, StateTyped, MetaTyped
<1>7. ASSUME NEW s \in SourceNames, OnUnavailable(s) PROVE Calm
  <2>1. /\ sources' = [sources EXCEPT ![s].avail = FALSE, ![s].valid = FALSE]
        /\ Becomes([i \in PlatformsOf(s) |-> [entry[i] EXCEPT !.heard = FALSE]])
    BY <1>7 DEF OnUnavailable, Becomes
  <2>2. \A i \in 1..created : Alike(entry'[i], entry[i])
    BY <2>1, HeardIs DEF StateTyped
  <2> QED BY <1>1, <2>1, <2>2 DEF Calm, StateTyped, MetaTyped
<1> QED BY <1>1, <1>2, <1>3, <1>4, <1>5, <1>6, <1>7

LEMMA RefsInitially == RegistryInit => RefsInv
<1> SUFFICES ASSUME RegistryInit PROVE RefsInv
  OBVIOUS
<1>1. Registered = {} /\ \A c \in Dashboards : client[c] = Idle
  BY DEF RegistryInit, Registered
<1>2. DefaultSourceStays
  BY DefaultsAssumption DEF RegistryInit, DefaultSourceStays, NoSource
<1> QED BY <1>1, <1>2 DEF RefsInv, AllSound, OneAtATime, FormsResolve, FormResolves, Idle

LEMMA StillSound ==
  ASSUME UNCHANGED registryVars, AllSound, OneAtATime, FormsResolve
  PROVE  AllSound' /\ OneAtATime' /\ FormsResolve'
<1>1. AllSound' <=> AllSound
  BY DEF registryVars, AllSound, Registered, Sound, Grouped, GroupEnabled, Resolves, DefaultSourceStays
<1>2. \A k : Valid(k)' <=> Valid(k)
  BY DEF registryVars, Valid, PlatformsOf, PresetUsed, Registered, ResolvePreset
<1>3. OneAtATime' /\ \A c \in Dashboards : FormResolves(c)'
  BY <1>2 DEF registryVars, OneAtATime, FormsResolve, FormResolves, Resolves
<1> QED BY <1>1, <1>3 DEF FormsResolve

LEMMA RefsKept == StateTyped /\ RefsInv /\ [RegistryNext]_registryVars => RefsInv'
<1> SUFFICES ASSUME StateTyped, RefsInv, [RegistryNext]_registryVars, ~crowded'
             PROVE  AllSound' /\ OneAtATime' /\ FormsResolve'
  BY DEF RefsInv
<1>4. CASE UNCHANGED registryVars
  BY <1>4, StillSound DEF RefsInv, registryVars
<1> SUFFICES ASSUME RegistryNext, Strayed PROVE AllSound' /\ OneAtATime' /\ FormsResolve'
  BY <1>4 DEF RegistryNext
<1>1. ASSUME NEW c \in Dashboards, PlatformCommand(c) \/ SourceCommand(c) \/ MetaCommand(c)
      PROVE  AllSound' /\ OneAtATime' /\ FormsResolve'
  <2>1. crowded' = crowded
    BY <1>1 DEF PlatformCommand, SourceCommand, MetaCommand, AddPlatform, UpdatePlatform, Recreate,
                RemovePlatform, PopPlatform, EnablePlatform, DisablePlatform, AddSource, UpdateSource,
                Rewire, Rewired, RemoveSource, AddGroup, RemoveGroup, SetGroupEnabled, AddPreset,
                UpdatePreset, RemovePreset, rest
  <2> QED BY <1>1, <2>1, CommandSound DEF RefsInv
<1>2. ASSUME NEW c \in Dashboards, Ask(c) PROVE AllSound' /\ OneAtATime' /\ FormsResolve'
  BY <1>2, AskSound DEF RefsInv, Ask
<1>3. ASSUME \/ \E s \in SourceNames : OnAvailable(s) \/ Validated(s) \/ OnUnavailable(s)
             \/ \E i \in Entries : FallbackUnusable(i)
             \/ Stop \/ StopNext
      PROVE  AllSound' /\ OneAtATime' /\ FormsResolve'
  <2>1. Calm /\ client' = client /\ crowded' = crowded
    BY <1>3, HookCalm
  <2>2. FormsResolve'
    BY <2>1, CalmForm DEF RefsInv, FormsResolve
  <2> QED BY <2>1, <2>2, CalmSound DEF RefsInv, OneAtATime
<1> QED BY <1>1, <1>2, <1>3 DEF RegistryNext

\* What a platform refers to exists, and its gate is that of its group: whatever is asked for and
\* whatever comes and goes in between, as long as no command is begun while another one is under way
\* (handleCommand checks with the lock given back); the gate, for the platforms that were not given a
\* group that did not exist, which no command checks.
THEOREM ReferencesResolve == RegistrySpec => []RefsResolve
<1>1. RegistryInit => RefsInv
  BY RefsInitially
<1>2. StateTyped /\ RefsInv /\ [RegistryNext]_registryVars => RefsInv'
  BY RefsKept
<1>3. StateTyped /\ RefsInv => RefsResolve
  BY RegisteredIs DEF RefsInv, AllSound, Sound, Resolves, Grouped, RefsResolve, SourceExists,
                      PresetExists, GateFollows
<1> QED BY <1>1, <1>2, <1>3, StateTypes, PTL DEF RegistrySpec

----------------------------------------------------------------------------
(* A platform knows of a source that is on air.                            *)

\* Platforms that are being recreated wait for a source whose content is not known to be right: it was
\* not on air when the command began.
WaitsOff(c) ==
  /\ client[c].at = "rewired" => ~sources[client[c].cfg.source].valid
  /\ client[c].at \in {"rewire", "rewired"} =>
       \A j \in client[c].todo : ~sources[entry[j].cfg.source].valid

AllWaitOff == \A c \in Dashboards : WaitsOff(c)

JoinInv == crowded \/ surprised \/ (AllJoined /\ AllWaitOff)

\* The one platform, in the state before and after.
Joined(i) == entry[i].up /\ Live(entry[i].cfg.source) => entry[i].heard

LEMMA SteadyJoined ==
  ASSUME StateTyped, Steady, platforms' = platforms,
         \A i \in 1..created : entry'[i].cfg.source = entry[i].cfg.source, AllJoined
  PROVE  AllJoined'
<1>1. Registered' = Registered /\ \A i \in Registered : i \in 1..created
  BY RegisteredIs DEF Registered, StateTyped
<1> QED BY <1>1 DEF AllJoined, Steady, Live

LEMMA WaitsStill ==
  ASSUME StateTyped, Calm, sources' = sources, NEW c \in Dashboards, client'[c] = client[c], WaitsOff(c)
  PROVE  WaitsOff(c)'
<1>1. client[c].at \in {"rewire", "rewired"} => client[c].todo \subseteq 1..created
  BY FormFields DEF StateTyped
<1> QED BY <1>1 DEF WaitsOff, Calm, Alike

\* The connection of a command that leaves the sources alone.
LEMMA OthersWait ==
  ASSUME StateTyped, OneAtATime, NEW c \in Dashboards, client[c].at # "idle", NEW f,
         client' = [client EXCEPT ![c] = f], WaitsOff(c)'
  PROVE  AllWaitOff'
<1>1. \A d \in Dashboards : d # c => client'[d] = Idle
  BY DEF OneAtATime, Idle, StateTyped, FormsTyped
<1> QED BY <1>1 DEF AllWaitOff, WaitsOff, Idle

LEMMA DoneWait ==
  ASSUME StateTyped, OneAtATime, NEW c \in Dashboards, client[c].at # "idle",
         NEW f, f.at \notin {"rewire", "rewired"}, client' = [client EXCEPT ![c] = f]
  PROVE  AllWaitOff'
<1>1. client'[c] = f
  BY DEF StateTyped, FormsTyped
<1>2. WaitsOff(c)'
  BY <1>1 DEF WaitsOff
<1> QED BY <1>2, OthersWait

\* A platform is created: it is told at once, or its source is not on air.
LEMMA CreatedJoined ==
  ASSUME StateTyped, AllJoined, sources' = sources, NEW cfg \in Config, NEW n \in Int, n = created + 1,
         entry'[n].cfg.source = cfg.source, Live(cfg.source) => entry'[n].heard,
         \A i \in 1..created : entry'[i] = entry[i],
         platforms'[cfg.name] = n,
         \A m \in Names : m # cfg.name => platforms'[m] \in {Nobody, platforms[m]}
  PROVE  AllJoined'
<1>1. Registered' \subseteq Registered \cup {n}
  BY DEF Registered
<1>2. \A i \in Registered : i \in 1..created
  BY RegisteredIs DEF StateTyped
<1>3. ASSUME NEW i \in Registered' PROVE Joined(i)'
  <2>1. CASE i \in Registered
    BY <1>2, <2>1 DEF AllJoined, Joined, Live
  <2>2. CASE i = n
    BY <2>2 DEF Joined, Live
  <2> QED BY <1>1, <2>1, <2>2
<1> QED BY <1>3 DEF AllJoined, Joined

LEMMA PlatformJoined ==
  ASSUME StateTyped, AllJoined, NEW c \in Dashboards,
         AddPlatform(c) \/ Recreate(c) \/ PopPlatform(c)
  PROVE  AllJoined'
<1>1. created + 1 \in Int /\ sources' = sources
  BY DEF StateTyped, EntriesTyped, AddPlatform, Recreate, PopPlatform, KeepMeta, meta
<1>2. CASE PopPlatform(c)
  <2>1. client[c].name \in Names /\ platforms' = Pop(client[c].name) /\ entry' = entry
    BY <1>2, FormFields DEF PopPlatform, StateTyped
  <2>2. Registered' \subseteq Registered
    BY <2>1, PopIs DEF Registered, StateTyped
  <2> QED BY <1>1, <2>1, <2>2 DEF AllJoined, Live
<1>3. CASE AddPlatform(c)
  <2> DEFINE n == client[c].cmd.name
             cfg == [name |-> n, source |-> defaultName, group |-> MainGroup, preset |-> MainPreset,
                     enabled |-> FALSE]
  <2>1. n \in Names
    BY <1>3, CommandFields, FormFields DEF AddPlatform, Acts, StateTyped
  <2>2. cfg \in Config
    BY <2>1, AddedConfig
  <2>3. UNCHANGED registry \/ Instantiate(platforms, cfg, New(cfg))
    BY <1>3 DEF AddPlatform
  <2>4. CASE UNCHANGED registry
    BY <1>1, <2>4 DEF AllJoined, Live, Registered, registry
  <2>5. CASE Instantiate(platforms, cfg, New(cfg))
    <3> HIDE DEF cfg
    <3>1. /\ New(cfg) \in Runtimes /\ New(cfg).cfg.name = cfg.name /\ New(cfg).cfg.source = cfg.source
          /\ Live(cfg.source) => New(cfg).heard
      BY <2>2, NewIs, FreshIs DEF Alike
    <3>2. /\ entry'[created + 1] = New(cfg) /\ \A i \in 1..created : entry'[i] = entry[i]
          /\ platforms'[cfg.name] = created + 1
          /\ \A m \in Names : m # cfg.name => platforms'[m] = platforms[m]
      BY <2>2, <2>5, <3>1, InstantiateTyped, ZenonT(60) DEF EntriesTyped, StateTyped
    <3> QED BY <1>1, <2>2, <3>1, <3>2, CreatedJoined
  <2> QED BY <2>3, <2>4, <2>5
<1>4. CASE Recreate(c)
  <2> DEFINE cfg == client[c].cfg
  <2>1. /\ client[c].name \in Names /\ cfg \in Config
        /\ entry'[created + 1] = New(cfg) /\ \A i \in 1..created : entry'[i] = entry[i]
        /\ platforms'[cfg.name] = created + 1
        /\ \A m \in Names : m # cfg.name => platforms'[m] = Pop(client[c].name)[m]
    BY <1>4, RecreateTyped
  <2>2. \A m \in Names : Pop(client[c].name)[m] \in {Nobody, platforms[m]}
    BY <2>1, PopIs DEF StateTyped
  <2>3. New(cfg).cfg.source = cfg.source /\ (Live(cfg.source) => New(cfg).heard)
    BY <2>1, NewIs, FreshIs DEF Alike
  <2> HIDE DEF cfg
  <2> QED BY <1>1, <2>1, <2>2, <2>3, CreatedJoined
<1> QED BY <1>2, <1>3, <1>4

LEMMA UpdatePlatformJoined ==
  ASSUME StateTyped, AllJoined, NEW c \in Dashboards, UpdatePlatform(c)
  PROVE  AllJoined' /\ \E f : f.at \notin {"rewire", "rewired"} /\ client' = [client EXCEPT ![c] = f]
<1> DEFINE k == client[c].cmd
           i == platforms[k.name]
           cfg == [name |-> k.to, source |-> k.source, group |-> k.group, preset |-> k.preset,
                   enabled |-> entry[i].cfg.enabled]
<1>1. Acts(c, "update") /\ UNCHANGED meta
  BY DEF UpdatePlatform, KeepMeta
<1>2. CASE i = Nobody /\ Done(c) /\ UNCHANGED registry
  BY <1>1, <1>2 DEF Done, Idle, AllJoined, Live, Registered, registry, meta
<1>3. CASE /\ i # Nobody /\ entry' = Shut(i) /\ UNCHANGED <<platforms, created>>
           /\ client' = [client EXCEPT ![c] = [at |-> "recreate", name |-> k.name, cfg |-> cfg]]
  <2>1. i \in 1..created
    BY <1>1, <1>3, UpdatedConfig
  <2>2. Calm /\ Steady
    BY <1>1, <1>3, <2>1, ShutCalm
  <2>3. AllJoined'
    BY <1>3, <2>2, SteadyJoined DEF Calm, Alike
  <2> QED BY <1>3, <2>3
<1>4. CASE /\ i # Nobody /\ ~NeedsNewRuntime(k, entry[i])
           /\ entry' = [entry EXCEPT ![i] = Applied(entry[i], cfg)]
           /\ UNCHANGED <<platforms, created>> /\ Done(c)
  <2>1. k.to = k.name /\ k.source = entry[i].cfg.source
    BY <1>4 DEF NeedsNewRuntime
  <2>2. /\ i \in 1..created /\ cfg \in Config /\ entry[i].cfg.name = cfg.name /\ entry[i] \in Runtimes
        /\ cfg.source = entry[i].cfg.source
    BY <1>1, <1>4, <2>1, UpdatedConfig
  <2>3. Replaces(entry', i, Applied(entry[i], cfg)) /\ UNCHANGED platforms /\ Done(c)
    BY <1>4 DEF Replaces
  <2> HIDE DEF cfg, i, k
  <2>4. entry'[i] = Applied(entry[i], cfg) /\ \A j \in 1..created : j # i => entry'[j] = entry[j]
    BY <2>2, <2>3, AppliedTo DEF StateTyped
  <2>5. entry'[i].cfg = cfg /\ entry'[i].up = entry[i].up /\ entry'[i].heard = entry[i].heard
    BY <2>2, <2>4, AppliedIs
  <2>6. /\ Steady
        /\ \A j \in 1..created : entry'[j].cfg.source = entry[j].cfg.source
    BY <1>1, <2>2, <2>4, <2>5 DEF Steady, meta
  <2>7. AllJoined'
    BY <2>3, <2>6, SteadyJoined
  <2> QED BY <2>3, <2>7 DEF Done, Idle
<1> QED BY <1>2, <1>3, <1>4 DEF UpdatePlatform

LEMMA SwitchSteady ==
  ASSUME StateTyped, NEW c \in Dashboards, RemovePlatform(c) \/ EnablePlatform(c) \/ DisablePlatform(c)
  PROVE  Calm /\ Steady /\ \E f : f.at \notin {"rewire", "rewired"} /\ client' = [client EXCEPT ![c] = f]
<1> DEFINE n == client[c].cmd.name
<1>1. UNCHANGED meta /\ created' = created /\ platforms' = platforms
  BY DEF RemovePlatform, EnablePlatform, DisablePlatform, KeepMeta
<1>2. client[c].at = "act" /\ client[c].cmd.kind \in {"remove", "enable", "disable"}
  BY DEF RemovePlatform, EnablePlatform, DisablePlatform, Acts
<1>3. platforms[n] # Nobody => platforms[n] \in 1..created
  BY <1>2, CommandFields, FormFields DEF StateTyped, EntriesTyped, Nobody
<1>4. CASE UNCHANGED entry /\ Done(c)
  BY <1>1, <1>4, NothingCalm DEF registry, Done, Idle
<1>5. CASE /\ platforms[n] # Nobody /\ entry' = Shut(platforms[n])
           /\ client' = [client EXCEPT ![c] = [at |-> "pop", name |-> n]]
  BY <1>1, <1>3, <1>5, ShutCalm
<1>6. ASSUME NEW on \in BOOLEAN, platforms[n] # Nobody, SetEnabled(platforms[n], on), Done(c)
      PROVE  Calm /\ Steady /\ \E f : f.at \notin {"rewire", "rewired"} /\ client' = [client EXCEPT ![c] = f]
  <2>1. Calm /\ Steady
    BY <1>1, <1>3, <1>6, EnabledIs DEF Calm, Steady, meta, StateTyped
  <2> QED BY <1>6, <2>1 DEF Done, Idle
<1> QED BY <1>4, <1>5, <1>6 DEF RemovePlatform, EnablePlatform, DisablePlatform

LEMMA SourceJoined ==
  ASSUME StateTyped, AllJoined, NEW c \in Dashboards, AddSource(c) \/ RemoveSource(c)
  PROVE  AllJoined'
<1> DEFINE s == client[c].cmd.source
           more == [NoSource EXCEPT !.here = TRUE]
<1>1. UNCHANGED registry
  BY DEF AddSource, RemoveSource, KeepPlatforms
<1>2. \/ sources' = sources \/ sources' = [sources EXCEPT ![s] = more]
      \/ sources' = [sources EXCEPT ![s] = NoSource]
  BY DEF AddSource, RemoveSource
<1>3. ~more.valid /\ ~NoSource.valid
  BY DEF NoSource
<1> HIDE DEF s, more
<1>4. \A x \in SourceNames : Live(x)' => Live(x)
  BY <1>2, <1>3 DEF Live, StateTyped, MetaTyped
<1>5. \A i \in Registered : entry[i].cfg.source \in SourceNames
  BY RegisteredIs, CfgTyped DEF StateTyped
<1> QED BY <1>1, <1>4, <1>5 DEF AllJoined, Live, Registered, registry

LEMMA UpdateSourceJoined ==
  ASSUME StateTyped, AllSound, OneAtATime, FormsResolve, AllJoined,
         NEW c \in Dashboards, UpdateSource(c)
  PROVE  AllJoined' /\ AllWaitOff'
<1> DEFINE s == client[c].cmd.source
           to == client[c].cmd.to
           f == [at |-> "rewire", todo |-> PlatformsOf(s)]
<1>1. /\ client[c].at = "act" /\ client[c].cmd.kind = "update_source" /\ s \in SourceNames /\ to \in SourceNames
      /\ UNCHANGED <<platforms, created>>
  BY UpdateSourceIs
<1>2. to = s \/ ~sources[to].here
  BY <1>1 DEF FormsResolve, FormResolves, Valid
<1>3. ASSUME Done(c) PROVE AllWaitOff'
  BY <1>1, <1>3, DoneWait DEF Done, Idle
<1>4. CASE Done(c) /\ UNCHANGED <<sources, entry>>
  BY <1>1, <1>3, <1>4 DEF AllJoined, Live, Registered
<1>5. CASE /\ Becomes([i \in PlatformsOf(s) |-> [entry[i] EXCEPT !.cfg.source = to]])
           /\ sources' = [sources EXCEPT ![s] = NoSource, ![to] = sources[s]]
           /\ \/ Done(c)
              \/ ~sources[s].avail /\ client' = [client EXCEPT ![c] = f]
  <2>1. /\ sources'[to] = sources[s]
        /\ \A x \in SourceNames : x # to => sources'[x] = IF x = s THEN NoSource ELSE sources[x]
    <3>1. sources' = [sources EXCEPT ![s] = NoSource, ![to] = sources[s]]
      BY <1>5
    <3> HIDE DEF s, to, f
    <3> QED BY <1>1, <3>1, SourceMoves DEF StateTyped
  <2>2. \A i \in 1..created :
          /\ entry'[i].cfg.source = IF i \in PlatformsOf(s) THEN to ELSE entry[i].cfg.source
          /\ entry'[i].heard = entry[i].heard /\ entry'[i].up = entry[i].up
    BY <1>1, <1>5, RenamedIs DEF StateTyped
  <2>3. Registered' = Registered
    BY <1>1 DEF Registered
  <2>4. ASSUME NEW i \in Registered PROVE Joined(i)'
    <3>1. i \in 1..created /\ Sound(i) /\ Joined(i)
      BY RegisteredIs DEF AllSound, AllJoined, Joined, StateTyped
    <3>2. entry[i].cfg.source \in SourceNames
      BY <3>1, CfgTyped
    <3>3. CASE i \in PlatformsOf(s)
      <4>1. entry[i].cfg.source = s /\ entry'[i].cfg.source = to
        BY <2>2, <3>1, <3>3 DEF PlatformsOf
      <4> QED BY <2>1, <2>2, <3>1, <4>1 DEF Joined, Live
    <3>4. CASE i \notin PlatformsOf(s)
      <4>1. entry[i].cfg.source # s /\ entry'[i].cfg.source = entry[i].cfg.source
        BY <2>2, <2>4, <3>1, <3>4 DEF PlatformsOf
      <4>2. entry[i].cfg.source # to
        BY <1>2, <3>1, <4>1 DEF Sound, Resolves
      <4>3. sources'[entry[i].cfg.source] = sources[entry[i].cfg.source]
        BY <2>1, <3>2, <4>1, <4>2
      <4> QED BY <2>2, <3>1, <4>1, <4>3 DEF Joined, Live
    <3> QED BY <3>3, <3>4
  <2>5. AllJoined'
    BY <2>3, <2>4 DEF AllJoined, Joined
  <2>6. CASE ~sources[s].avail /\ client' = [client EXCEPT ![c] = f]
    <3>1. client'[c] = f /\ ~sources'[to].valid
      BY <1>1, <2>1, <2>6 DEF StateTyped, FormsTyped, MetaTyped
    <3>2. \A j \in PlatformsOf(s) : entry'[j].cfg.source = to
      BY <2>2, PlatformsOfAre DEF StateTyped
    <3>3. WaitsOff(c)'
      BY <3>1, <3>2 DEF WaitsOff
    <3> HIDE DEF f
    <3> QED BY <1>1, <2>5, <2>6, <3>3, OthersWait
  <2> QED BY <1>3, <1>5, <2>5, <2>6
<1> QED BY <1>4, <1>5, UpdateSourceIs

LEMMA RewireJoined ==
  ASSUME StateTyped, OneAtATime, AllJoined, AllWaitOff, NEW c \in Dashboards, Rewire(c)
  PROVE  AllJoined' /\ AllWaitOff'
<1>1. /\ client[c].at = "rewire" /\ UNCHANGED meta /\ UNCHANGED <<platforms, created>>
      /\ client[c].todo \subseteq 1..created
  BY FormFields DEF Rewire, KeepMeta, StateTyped
<1>2. PICK i \in client[c].todo :
        /\ entry' = Shut(i)
        /\ client' = [client EXCEPT ![c] = [at |-> "rewired", todo |-> client[c].todo \ {i},
                                            cfg |-> entry[i].cfg]]
  BY DEF Rewire, StateTyped, FormsTyped
<1>3. Calm /\ Steady
  BY <1>1, <1>2, ShutCalm
<1>4. AllJoined'
  BY <1>1, <1>3, SteadyJoined DEF Calm, Alike
<1> DEFINE f == [at |-> "rewired", todo |-> client[c].todo \ {i}, cfg |-> entry[i].cfg]
<1>5. client' = [client EXCEPT ![c] = f] /\ client'[c] = f
  BY <1>2 DEF StateTyped, FormsTyped
<1>6. /\ \A j \in client[c].todo : ~sources'[entry'[j].cfg.source].valid
      /\ ~sources'[entry[i].cfg.source].valid
  BY <1>1, <1>3 DEF AllWaitOff, WaitsOff, Calm, Steady, Alike
<1>7. WaitsOff(c)'
  BY <1>5, <1>6 DEF WaitsOff
<1> HIDE DEF f
<1> QED BY <1>1, <1>4, <1>5, <1>7, OthersWait

LEMMA RewiredJoined ==
  ASSUME StateTyped, OneAtATime, AllJoined, AllWaitOff, NEW c \in Dashboards, Rewired(c)
  PROVE  AllJoined' /\ AllWaitOff'
<1> DEFINE cfg == client[c].cfg
<1>1. /\ client[c].at = "rewired" /\ sources' = sources /\ client[c].todo \subseteq 1..created
      /\ created + 1 \in Int
  BY FormFields DEF Rewired, KeepMeta, meta, StateTyped, EntriesTyped
<1>2. /\ cfg \in Config
      /\ entry'[created + 1] = Fresh(cfg) /\ \A i \in 1..created : entry'[i] = entry[i]
      /\ platforms'[cfg.name] = created + 1
      /\ \A m \in Names : m # cfg.name => platforms'[m] = platforms[m]
  BY RewiredTyped
<1>3. Fresh(cfg).cfg = cfg /\ ~Live(cfg.source)
  BY <1>1, <1>2, FreshIs DEF AllWaitOff, WaitsOff, Live
<1>4. AllJoined'
  <2> HIDE DEF cfg
  <2> QED BY <1>1, <1>2, <1>3, CreatedJoined
<1>5. CASE Done(c)
  BY <1>1, <1>4, <1>5, DoneWait DEF Done, Idle
<1>6. CASE client' = [client EXCEPT ![c] = [at |-> "rewire", todo |-> client[c].todo]]
  <2> DEFINE f == [at |-> "rewire", todo |-> client[c].todo]
  <2>1. client' = [client EXCEPT ![c] = f] /\ client'[c] = f
    BY <1>6 DEF StateTyped, FormsTyped
  <2>2. WaitsOff(c)'
    BY <1>1, <1>2, <2>1 DEF AllWaitOff, WaitsOff
  <2> HIDE DEF f
  <2> QED BY <1>1, <1>4, <2>1, <2>2, OthersWait
<1> QED BY <1>5, <1>6 DEF Rewired, StateTyped, FormsTyped

LEMMA MetaSteady ==
  ASSUME StateTyped, NEW c \in Dashboards, MetaCommand(c)
  PROVE  /\ Steady /\ platforms' = platforms /\ Done(c) /\ client[c].at = "act"
         /\ \A i \in 1..created : entry'[i].cfg.source = entry[i].cfg.source
<1> DEFINE g == client[c].cmd.group
           p == client[c].cmd.preset
           users == {i \in Registered : ResolvePreset(entry[i].cfg.preset) = p}
<1>1. /\ platforms' = platforms /\ sources' = sources /\ Done(c) /\ client[c].at = "act"
      /\ client[c].cmd.kind \in {"add_group", "remove_group", "enable_group", "disable_group",
                                 "add_preset", "update_preset", "remove_preset"}
  BY DEF MetaCommand, AddGroup, RemoveGroup, SetGroupEnabled, AddPreset, UpdatePreset, RemovePreset, Acts,
         KeepPlatforms, KeepMeta, meta, registry
<1>2. CASE UNCHANGED entry
  BY <1>1, <1>2 DEF Steady
<1>3. ASSUME g \in Groups,
             Becomes([i \in Members(g) |-> Applied(entry[i], [entry[i].cfg EXCEPT !.group = MainGroup])])
      PROVE  Steady /\ \A i \in 1..created : entry'[i].cfg.source = entry[i].cfg.source
  BY <1>1, <1>3, MovedIs DEF Steady, StateTyped
<1>4. ASSUME g \in Groups, NEW on \in BOOLEAN,
             Becomes([i \in Members(g) |->
               [(IF on THEN Gated(entry[i]) ELSE entry[i]) EXCEPT !.gate = on, !.told.gate = on]])
      PROVE  Steady /\ \A i \in 1..created : entry'[i].cfg.source = entry[i].cfg.source
  BY <1>1, <1>4, OpenedIs DEF Steady, StateTyped
<1>5. ASSUME p \in Presets,
             Becomes([i \in users |-> Applied(entry[i], [entry[i].cfg EXCEPT !.preset = p])])
      PROVE  Steady /\ \A i \in 1..created : entry'[i].cfg.source = entry[i].cfg.source
  <2>1. users \in SUBSET Registered
    OBVIOUS
  <2> HIDE DEF users, p
  <2> QED BY <1>1, <1>5, <2>1, ResetIs DEF Steady, StateTyped
<1>6. CASE RemoveGroup(c)
  <2>1. g \in Groups
    BY <1>1, <1>6, CommandFields, FormFields DEF StateTyped, RemoveGroup, Acts
  <2> QED BY <1>1, <1>2, <1>3, <1>6, <2>1 DEF RemoveGroup, Becomes
<1>7. ASSUME NEW on \in BOOLEAN, SetGroupEnabled(c, on)
      PROVE  Steady /\ \A i \in 1..created : entry'[i].cfg.source = entry[i].cfg.source
  <2>1. g \in Groups
    BY <1>1, <1>7, CommandFields, FormFields DEF StateTyped, SetGroupEnabled, Acts
  <2> QED BY <1>1, <1>2, <1>4, <1>7, <2>1 DEF SetGroupEnabled, Becomes
<1>8. CASE UpdatePreset(c)
  <2>1. p \in Presets
    BY <1>1, <1>8, CommandFields, FormFields DEF StateTyped, UpdatePreset, Acts
  <2> QED BY <1>1, <1>2, <1>5, <1>8, <2>1 DEF UpdatePreset, Becomes
<1>9. CASE AddGroup(c) \/ AddPreset(c) \/ RemovePreset(c)
  BY <1>2, <1>9 DEF AddGroup, AddPreset, RemovePreset, KeepPlatforms, registry
<1> QED BY <1>1, <1>6, <1>7, <1>8, <1>9 DEF MetaCommand

LEMMA CommandJoined ==
  ASSUME StateTyped, AllSound, OneAtATime, FormsResolve, AllJoined, AllWaitOff, NEW c \in Dashboards,
         PlatformCommand(c) \/ SourceCommand(c) \/ MetaCommand(c)
  PROVE  AllJoined' /\ AllWaitOff'
<1>1. ASSUME client[c].at # "idle", \E f : f.at \notin {"rewire", "rewired"} /\ client' = [client EXCEPT ![c] = f]
      PROVE  AllWaitOff'
  BY <1>1, DoneWait
<1>2. CASE AddPlatform(c) \/ Recreate(c) \/ PopPlatform(c)
  BY <1>1, <1>2, PlatformJoined DEF AddPlatform, Recreate, PopPlatform, Acts, Done, Idle
<1>3. CASE UpdatePlatform(c)
  BY <1>1, <1>3, UpdatePlatformJoined DEF UpdatePlatform, Acts
<1>4. CASE RemovePlatform(c) \/ EnablePlatform(c) \/ DisablePlatform(c)
  <2>1. AllJoined'
    BY <1>4, SwitchSteady, SteadyJoined DEF Calm, Alike
  <2> QED BY <1>1, <1>4, <2>1, SwitchSteady DEF RemovePlatform, EnablePlatform, DisablePlatform, Acts
<1>5. CASE AddSource(c) \/ RemoveSource(c)
  BY <1>1, <1>5, SourceJoined DEF AddSource, RemoveSource, Acts, Done, Idle
<1>6. CASE MetaCommand(c)
  <2>1. AllJoined'
    BY <1>6, MetaSteady, SteadyJoined
  <2> QED BY <1>1, <1>6, <2>1, MetaSteady DEF Done, Idle
<1> QED BY <1>2, <1>3, <1>4, <1>5, <1>6, UpdateSourceJoined, RewireJoined, RewiredJoined
        DEF PlatformCommand, SourceCommand

\* What comes and goes meanwhile.
LEMMA OffWait ==
  ASSUME StateTyped, Calm, client' = client, AllWaitOff,
         \A s \in SourceNames : sources'[s].valid => sources[s].valid
  PROVE  AllWaitOff'
<1> SUFFICES ASSUME NEW c \in Dashboards PROVE WaitsOff(c)'
  BY DEF AllWaitOff
<1>1. client[c].at \in {"rewire", "rewired"} =>
        \A j \in client[c].todo : j \in 1..created /\ entry[j].cfg.source \in SourceNames
  BY FormFields, CfgTyped DEF StateTyped
<1>2. client[c].at = "rewired" => client[c].cfg.source \in SourceNames
  BY FormFields DEF StateTyped, Config
<1> QED BY <1>1, <1>2 DEF AllWaitOff, WaitsOff, Calm, Alike

LEMMA HookJoined ==
  ASSUME StateTyped, AllJoined, AllWaitOff, ~surprised',
         \/ \E s \in SourceNames : OnAvailable(s) \/ Validated(s) \/ OnUnavailable(s)
         \/ \E i \in Entries : FallbackUnusable(i)
         \/ Stop \/ StopNext \/ UNCHANGED registryVars
  PROVE  AllJoined' /\ AllWaitOff'
<1>1. Calm /\ client' = client
  BY HookCalm
<1>2. Registered' = Registered /\ \A i \in Registered : i \in 1..created /\ entry[i].cfg.source \in SourceNames
  BY <1>1, RegisteredIs, CfgTyped DEF Registered, Calm, StateTyped
<1>3. ASSUME Steady PROVE AllJoined' /\ AllWaitOff'
  BY <1>1, <1>3, SteadyJoined, OffWait DEF Calm, Alike, Steady
<1>4. CASE Stop \/ UNCHANGED registryVars
  BY <1>3, <1>4, NothingCalm DEF Stop, KeepPlatforms, KeepMeta, registryVars, registry, meta
<1>5. CASE StopNext
  <2>1. PICK i \in 1..created : entry' = Shut(i)
    BY <1>5 DEF StopNext, StateTyped, RestTyped
  <2> QED BY <1>3, <1>5, <2>1, ShutCalm DEF StopNext, KeepMeta
<1>6. ASSUME NEW i \in Entries, FallbackUnusable(i) PROVE Steady
  <2>1. i \in 1..created /\ SetEnabled(i, FALSE)
    BY <1>6, RegisteredIs DEF FallbackUnusable, StateTyped
  <2> QED BY <1>6, <2>1, EnabledIs DEF Steady, FallbackUnusable, KeepMeta, meta, StateTyped
<1>7. ASSUME NEW s \in SourceNames, OnAvailable(s) PROVE AllJoined' /\ AllWaitOff'
  <2>1. ~sources[s].avail /\ entry' = entry /\ sources' = [sources EXCEPT ![s].avail = TRUE]
    BY <1>7 DEF OnAvailable, KeepPlatforms, registry
  <2>2. /\ \A x \in SourceNames : sources'[x].valid = sources[x].valid
        /\ \A x \in SourceNames : Live(x)' => Live(x)
    BY <2>1 DEF StateTyped, MetaTyped, Live
  <2>3. AllJoined'
    BY <1>2, <2>1, <2>2 DEF AllJoined, Live
  <2> QED BY <1>1, <2>2, <2>3, OffWait
<1>8. ASSUME NEW s \in SourceNames, Validated(s) PROVE AllJoined' /\ AllWaitOff'
  <2>1. /\ sources' = [sources EXCEPT ![s].valid = TRUE] /\ ~Underway
        /\ Becomes([i \in PlatformsOf(s) |-> [Gated(entry[i]) EXCEPT !.heard = TRUE]])
    BY <1>8 DEF Validated, Becomes
  <2>2. AllWaitOff'
    BY <1>1, <2>1 DEF AllWaitOff, WaitsOff, Underway
  <2>3. \A i \in 1..created :
          /\ Alike(entry'[i], entry[i]) /\ entry'[i].up = entry[i].up
          /\ entry'[i].heard = IF i \in PlatformsOf(s) THEN TRUE ELSE entry[i].heard
    BY <2>1, HeardIs DEF StateTyped
  <2>4. \A x \in SourceNames : x # s => (Live(x)' <=> Live(x))
    BY <2>1 DEF StateTyped, MetaTyped, Live
  <2>5. ASSUME NEW i \in Registered PROVE Joined(i)'
    <3>1. i \in PlatformsOf(s) <=> entry[i].cfg.source = s
      BY <2>5 DEF PlatformsOf
    <3> QED BY <1>2, <2>3, <2>4, <3>1 DEF AllJoined, Joined, Live, Alike
  <2> QED BY <1>2, <2>2, <2>5 DEF AllJoined, Joined
<1>9. ASSUME NEW s \in SourceNames, OnUnavailable(s) PROVE AllJoined' /\ AllWaitOff'
  <2>1. /\ sources' = [sources EXCEPT ![s].avail = FALSE, ![s].valid = FALSE]
        /\ Becomes([i \in PlatformsOf(s) |-> [entry[i] EXCEPT !.heard = FALSE]])
    BY <1>9 DEF OnUnavailable, Becomes
  <2>2. /\ \A x \in SourceNames : sources'[x].valid => sources[x].valid
        /\ \A x \in SourceNames : x # s => (Live(x)' <=> Live(x))
        /\ ~sources'[s].avail
    BY <2>1 DEF StateTyped, MetaTyped, Live
  <2>3. \A i \in 1..created :
          /\ Alike(entry'[i], entry[i]) /\ entry'[i].up = entry[i].up
          /\ entry'[i].heard = IF i \in PlatformsOf(s) THEN FALSE ELSE entry[i].heard
    BY <2>1, HeardIs DEF StateTyped
  <2>4. ASSUME NEW i \in Registered PROVE Joined(i)'
    <3>1. i \in PlatformsOf(s) <=> entry[i].cfg.source = s
      BY <2>4 DEF PlatformsOf
    <3> QED BY <1>2, <2>2, <2>3, <3>1 DEF AllJoined, Joined, Live, Alike
  <2>5. AllJoined'
    BY <1>2, <2>4 DEF AllJoined, Joined
  <2> QED BY <1>1, <2>2, <2>5, OffWait
<1> QED BY <1>3, <1>4, <1>5, <1>6, <1>7, <1>8, <1>9

LEMMA JoinedKept == StateTyped /\ RefsInv /\ JoinInv /\ [RegistryNext]_registryVars => JoinInv'
<1> SUFFICES ASSUME StateTyped, RefsInv, JoinInv, [RegistryNext]_registryVars, ~crowded', ~surprised'
             PROVE  AllJoined' /\ AllWaitOff'
  BY DEF JoinInv
<1>1. ASSUME NEW c \in Dashboards, PlatformCommand(c) \/ SourceCommand(c) \/ MetaCommand(c)
      PROVE  AllJoined' /\ AllWaitOff'
  <2>1. crowded' = crowded /\ surprised' = surprised
    BY <1>1 DEF PlatformCommand, SourceCommand, MetaCommand, AddPlatform, UpdatePlatform, Recreate,
                RemovePlatform, PopPlatform, EnablePlatform, DisablePlatform, AddSource, UpdateSource,
                Rewire, Rewired, RemoveSource, AddGroup, RemoveGroup, SetGroupEnabled, AddPreset,
                UpdatePreset, RemovePreset, rest
  <2> QED BY <1>1, <2>1, CommandJoined DEF RefsInv, JoinInv
<1>2. ASSUME NEW c \in Dashboards, Ask(c) PROVE AllJoined' /\ AllWaitOff'
  <2>1. ~crowded /\ ~surprised /\ Calm /\ Steady
    BY <1>2, NothingCalm DEF Ask
  <2>2. PICK k \in Command : client' = [client EXCEPT ![c] = [at |-> "act", cmd |-> k]]
    BY <1>2 DEF Ask
  <2>3. \A d \in Dashboards : d # c => client'[d] = Idle
    BY <1>2, <2>2 DEF Ask, StateTyped, FormsTyped
  <2>4. AllWaitOff'
    BY <2>2, <2>3 DEF AllWaitOff, WaitsOff, Idle, StateTyped, FormsTyped
  <2> QED BY <1>2, <2>1, <2>4, SteadyJoined DEF JoinInv, Calm, Alike
<1>3. ASSUME \/ \E s \in SourceNames : OnAvailable(s) \/ Validated(s) \/ OnUnavailable(s)
             \/ \E i \in Entries : FallbackUnusable(i)
             \/ Stop \/ StopNext \/ UNCHANGED registryVars
      PROVE  AllJoined' /\ AllWaitOff'
  <2>1. crowded' = crowded
    BY <1>3, HookCalm
  <2>2. surprised' = surprised \/ surprised' = (surprised \/ Underway)
    BY <1>3 DEF OnAvailable, Validated, OnUnavailable, FallbackUnusable, Stop, StopNext, ends, registryVars
  <2> QED BY <1>3, <2>1, <2>2, HookJoined DEF JoinInv
<1> QED BY <1>1, <1>2, <1>3 DEF RegistryNext

\* Every platform of a source that is on air knows of it, since the hook does not come again
\* (joinRunningSourceLocked): whether it was created, moved to that source, renamed with it or taken over
\* from another, as long as no two commands overlap and no source comes on air while its platforms are
\* being recreated for another type.
THEOREM LiveIsJoined == RegistrySpec => []JoinedWhenLive
<1>1. RegistryInit => RefsInv /\ JoinInv
  <2> SUFFICES ASSUME RegistryInit PROVE RefsInv /\ JoinInv
    OBVIOUS
  <2>1. Registered = {} /\ \A c \in Dashboards : client[c] = Idle
    BY DEF RegistryInit, Registered
  <2> QED BY <2>1, RefsInitially DEF JoinInv, AllJoined, AllWaitOff, WaitsOff, Idle
<1>2. StateTyped /\ RefsInv /\ JoinInv /\ [RegistryNext]_registryVars => (RefsInv /\ JoinInv)'
  BY RefsKept, JoinedKept
<1>3. JoinInv => JoinedWhenLive
  BY DEF JoinInv, JoinedWhenLive
<1> QED BY <1>1, <1>2, <1>3, StateTypes, PTL DEF RegistrySpec
=============================================================================
