------------------------------ MODULE Registry ------------------------------
(***************************************************************************)
(* The registry of the Manager (control/crud_platforms.go, crud_meta.go,   *)
(* crud_sources.go, persist.go) under the commands of several dashboards   *)
(* (api/commands.go). A command is checked with the lock taken and given   *)
(* back, then handed to the Manager; an operation that shuts a platform    *)
(* down gives the lock back for as long as that takes (blockingUnlocked).  *)
(* Sources come and go meanwhile, and the service may be stopped.          *)
(*                                                                         *)
(* A platform's configuration is its source, group, preset, check box; the *)
(* other fields either change its topology or not. Every platform that is  *)
(* created has a runtime of its own, the entry.                            *)
(***************************************************************************)
EXTENDS Integers, FiniteSets

CONSTANTS
  Dashboards,    \* connections of dashboards
  Names,         \* names of platforms
  SourceNames, MainSource,     \* names of sources; the default source's at first
  Groups, MainGroup,           \* ids of groups, and the default one
  Presets, MainPreset,         \* ids of presets, and the default one
  Broken,        \* presets whose files are missing
  Kinds,         \* commands the dashboards send
  MayStop,       \* may the service be stopped?
  MaxCommands,   \* bound: commands
  MaxEntries,    \* bound: platforms created
  MaxHooks       \* bound: hooks and probes of sources

ASSUME DefaultsAssumption ==
  MainSource \in SourceNames /\ MainGroup \in Groups /\ MainPreset \in Presets
ASSUME BrokenAssumption == Broken \subseteq Presets
ASSUME RegistryFlagsAssumption == MayStop \in BOOLEAN
ASSUME RegistryBoundsAssumption == {MaxCommands, MaxEntries, MaxHooks} \subseteq Nat

Entries == 1..MaxEntries
Nobody == 0

VARIABLES
  platforms,   \* m.platforms: the entry of each name, Nobody for none
  entry,       \* every entry that was created, its runtime with it
  created,     \* entries created so far
  sources,     \* m.sources: what is known of each name
  defaultName, \* the name of m.defaultSource
  groups,      \* m.groups: which exist, and which are switched on
  presets,     \* m.presets
  disk,        \* config.json
  client,      \* the command each connection is at
  stopping, unstopped, \* m.stopping, and the entries Shutdown has still to stop
  removed,     \* history: names whose removal was the last thing asked of them
  strays,      \* history: entries that have been given a group that did not exist
  crowded,     \* history: did two dashboards have a command under way at once?
  surprised,   \* history: did a source come on air while platforms were being recreated?
  commands, hooks      \* how many so far

registryVars == <<platforms, entry, created, sources, defaultName, groups, presets, disk,
                  client, stopping, unstopped, removed, strays, crowded, surprised, commands, hooks>>
registry == <<platforms, entry, created>>
meta == <<sources, defaultName, groups, presets>>
ends == <<stopping, unstopped, crowded, surprised, commands>>
rest == <<stopping, unstopped, crowded, surprised, commands, hooks>>

Config == [name : Names, source : SourceNames, group : Groups, preset : Presets, enabled : BOOLEAN]
NoEntry == [cfg |-> "none", gate |-> FALSE, told |-> "none", up |-> FALSE, heard |-> FALSE]
NoSource == [here |-> FALSE, main |-> FALSE, avail |-> FALSE, valid |-> FALSE]
Idle == [at |-> "idle"]

ConfigsOf(p, e) == {e[p[n]].cfg : n \in {m \in Names : p[m] # Nobody}}

\* persistLocked: sources, platforms, groups and presets as they are, written to a
\* temporary file that is renamed (Persist).
Document(p, e, s, g, r) ==
  [platforms |-> ConfigsOf(p, e), sources |-> {n \in SourceNames : s[n].here},
   groups |-> g, presets |-> r]
persist == disk' = Document(platforms', entry', sources', groups', presets')

RegistryInit ==
  /\ platforms = [n \in Names |-> Nobody] /\ entry = [i \in Entries |-> NoEntry] /\ created = 0
  /\ sources = [n \in SourceNames |->
                  IF n = MainSource THEN [NoSource EXCEPT !.here = TRUE, !.main = TRUE] ELSE NoSource]
  /\ defaultName = MainSource
  /\ groups = [here |-> {MainGroup}, on |-> {MainGroup}] /\ presets = {MainPreset}
  /\ disk = Document(platforms, entry, sources, groups, presets)
  /\ client = [c \in Dashboards |-> Idle]
  /\ stopping = FALSE /\ unstopped = {}
  /\ removed = {} /\ strays = {} /\ crowded = FALSE /\ surprised = FALSE /\ commands = 0 /\ hooks = 0

----------------------------------------------------------------------------
(* Helpers of the Manager.                                                 *)

Registered == {platforms[n] : n \in Names} \ {Nobody}
PlatformsOf(s) == {i \in Registered : entry[i].cfg.source = s}

\* groupEnabledLocked: an unknown group counts as the default one.
GroupEnabled(g) == IF g \in groups.here THEN g \in groups.on ELSE MainGroup \in groups.on

\* presetByIDLocked, resolvePresetIDLocked: so does an unknown preset.
ResolvePreset(p) == IF p \in presets THEN p ELSE MainPreset
PresetProblem(p) == ResolvePreset(p) \in Broken

Live(s) == sources[s].avail /\ sources[s].valid

\* What the runtime is told when it is created, and after every change.
Told(cfg, gate) == [enabled |-> cfg.enabled, gate |-> gate, preset |-> cfg.preset]

\* Plausible defect: a platform that is switched off is not told.
GatedQuietly(e) == IF e.cfg.enabled /\ PresetProblem(e.cfg.preset)
                   THEN [e EXCEPT !.cfg.enabled = FALSE] ELSE e

\* gateFallbackLocked: a platform that could not play its backup is switched off.
Gated(e) == IF e.cfg.enabled /\ PresetProblem(e.cfg.preset)
            THEN [e EXCEPT !.cfg.enabled = FALSE, !.told.enabled = FALSE] ELSE e

\* The runtime instantiatePlatform makes.
Fresh(cfg) ==
  [cfg |-> cfg, gate |-> GroupEnabled(cfg.group),
   told |-> Told(cfg, GroupEnabled(cfg.group)), up |-> TRUE, heard |-> FALSE]

\* Plausible defect: a platform created while its source publishes waits for the next time.
NewUnjoined(cfg) == Fresh(cfg)

\* Plausible defect: a platform that joins a source on air is not asked for its material.
NewUngated(cfg) == [Fresh(cfg) EXCEPT !.heard = Live(cfg.source)]

\* instantiatePlatform, and joinRunningSourceLocked: a platform whose source is on air
\* already is told at once.
New(cfg) == IF Live(cfg.source) THEN [Gated(Fresh(cfg)) EXCEPT !.heard = TRUE] ELSE Fresh(cfg)

Instantiate(p, cfg, new) ==
  /\ created < MaxEntries /\ created' = created + 1
  /\ entry' = [entry EXCEPT ![created + 1] = new]
  /\ platforms' = [p EXCEPT ![cfg.name] = created + 1]

Pop(n) == [platforms EXCEPT ![n] = Nobody]
Done(c) == client' = [client EXCEPT ![c] = Idle]

\* Plausible defect: a platform that waits for its source is left as it is.
ShutOnAir(i) == [entry EXCEPT ![i].up = ~entry[i].heard]

Shut(i) == [entry EXCEPT ![i].up = FALSE]

\* The entries after some of them were changed.
Changed(new) == [i \in Entries |-> IF i \in DOMAIN new THEN new[i] ELSE entry[i]]

----------------------------------------------------------------------------
(* Commands, and what the dashboard's server checks of them first.         *)

Command ==
  [kind : {"add", "remove", "enable", "disable"}, name : Names]
  \cup [kind : {"update"}, name : Names, to : Names, source : SourceNames, group : Groups,
        preset : Presets, topology : BOOLEAN]
  \cup [kind : {"add_source", "remove_source"}, source : SourceNames]
  \cup [kind : {"update_source"}, source : SourceNames, to : SourceNames, contract : BOOLEAN]
  \cup [kind : {"add_group", "remove_group", "enable_group", "disable_group"}, group : Groups]
  \cup [kind : {"add_preset", "update_preset", "remove_preset"}, preset : Presets]

\* Plausible defect: only the platforms that are switched on count.
PresetUsedByEnabled(p) ==
  \E i \in Registered : ResolvePreset(entry[i].cfg.preset) = p /\ entry[i].cfg.enabled

\* PlatformsReferencingPreset is not empty.
PresetUsed(p) == \E i \in Registered : ResolvePreset(entry[i].cfg.preset) = p

Valid(k) ==
  CASE k.kind = "add" -> platforms[k.name] = Nobody
    [] k.kind = "update" -> /\ platforms[k.name] # Nobody
                            /\ k.to = k.name \/ platforms[k.to] = Nobody
                            /\ sources[k.source].here /\ k.preset \in presets
    [] k.kind = "add_source" -> ~sources[k.source].here
    [] k.kind = "update_source" -> /\ sources[k.source].here
                                   /\ k.to = k.source \/ ~sources[k.to].here
    [] k.kind = "remove_source" -> PlatformsOf(k.source) = {}
    [] k.kind = "add_group" -> k.group \notin groups.here
    [] k.kind = "add_preset" -> k.preset \notin presets
    [] k.kind = "update_preset" -> k.preset \in presets
    [] k.kind = "remove_preset" -> ~PresetUsed(k.preset)
    [] OTHER -> TRUE

\* handleCommand as far as the check of its fields.
Ask(c) ==
  /\ client[c] = Idle /\ commands < MaxCommands /\ commands' = commands + 1
  /\ crowded' = (crowded \/ \E d \in Dashboards \ {c} : client[d] # Idle)
  /\ \E k \in {j \in Command : j.kind \in Kinds} :
       Valid(k) /\ client' = [client EXCEPT ![c] = [at |-> "act", cmd |-> k]]
  /\ UNCHANGED registry /\ UNCHANGED meta
  /\ UNCHANGED <<disk, stopping, unstopped, removed, surprised, hooks>>

\* Platforms are being recreated one by one, with the lock given back for each.
Underway == \E c \in Dashboards : client[c].at \in {"rewire", "rewired"}

Acts(c, kind) == client[c].at = "act" /\ client[c].cmd.kind = kind
\* What an operation that changes no platform leaves alone, and one that changes no meta data.
KeepPlatforms == UNCHANGED registry /\ UNCHANGED removed
KeepMeta == UNCHANGED meta

----------------------------------------------------------------------------
(* Platforms.                                                              *)

AddPlatform(c) ==
  LET n == client[c].cmd.name
      cfg == [name |-> n, source |-> defaultName, group |-> MainGroup, preset |-> MainPreset,
              enabled |-> FALSE]
  IN /\ Acts(c, "add") /\ Done(c)
     /\ KeepMeta /\ UNCHANGED rest
     /\ IF platforms[n] # Nobody THEN UNCHANGED registry /\ UNCHANGED <<disk, removed>>
        ELSE /\ Instantiate(platforms, cfg, New(cfg)) /\ persist /\ removed' = removed \ {n}

\* Plausible defect: the gate stays that of the group the platform was in.
AppliedGateKept(e, cfg) == [e EXCEPT !.cfg = cfg, !.told = Told(cfg, e.gate)]

\* The part of UpdatePlatform that needs no new runtime: group, preset, credentials.
Applied(e, cfg) ==
  LET gate == IF cfg.group = e.cfg.group THEN e.gate ELSE GroupEnabled(cfg.group)
  IN [e EXCEPT !.cfg = cfg, !.gate = gate, !.told = Told(cfg, gate)]

\* Plausible defect: a new name is applied to the platform as it stands.
NeedsNewRuntimeButNotForName(k, e) == k.topology \/ k.source # e.cfg.source

NeedsNewRuntime(k, e) == k.topology \/ k.to # k.name \/ k.source # e.cfg.source

\* UpdatePlatform: another topology shuts the old runtime down, with the lock given back.
UpdatePlatform(c) ==
  LET k == client[c].cmd i == platforms[k.name]
      cfg == [name |-> k.to, source |-> k.source, group |-> k.group, preset |-> k.preset,
              enabled |-> entry[i].cfg.enabled]
  IN /\ Acts(c, "update")
     /\ KeepMeta /\ UNCHANGED rest
     /\ \/ i = Nobody /\ Done(c) /\ UNCHANGED registry /\ UNCHANGED <<disk, removed>>
        \/ /\ i # Nobody /\ NeedsNewRuntime(k, entry[i])
           /\ entry' = Shut(i)
           /\ client' = [client EXCEPT ![c] = [at |-> "recreate", name |-> k.name, cfg |-> cfg]]
           /\ UNCHANGED <<platforms, created, disk, removed>>
        \/ /\ i # Nobody /\ ~NeedsNewRuntime(k, entry[i])
           /\ entry' = [entry EXCEPT ![i] = Applied(entry[i], cfg)]
           /\ UNCHANGED <<platforms, created, removed>> /\ persist /\ Done(c)

\* Plausible defect: the new platform is not written to the configuration.
RecreateUnsaved(c) ==
  LET n == client[c].name cfg == client[c].cfg
  IN /\ client[c].at = "recreate"
     /\ Instantiate(Pop(n), cfg, New(cfg)) /\ UNCHANGED disk /\ Done(c)
     /\ removed' = removed \ ({cfg.name} \ {n})
     /\ KeepMeta /\ UNCHANGED rest

\* The lock is back: whoever has the name is taken out, and the platform created anew.
Recreate(c) ==
  LET n == client[c].name cfg == client[c].cfg
  IN /\ client[c].at = "recreate"
     /\ KeepMeta /\ UNCHANGED rest
     /\ Instantiate(Pop(n), cfg, New(cfg)) /\ persist /\ Done(c)
     /\ removed' = removed \ ({cfg.name} \ {n})

RemovePlatform(c) ==
  LET n == client[c].cmd.name
  IN /\ Acts(c, "remove")
     /\ IF platforms[n] = Nobody THEN Done(c) /\ UNCHANGED entry
        ELSE /\ entry' = Shut(platforms[n])
             /\ client' = [client EXCEPT ![c] = [at |-> "pop", name |-> n]]
     /\ UNCHANGED <<platforms, created, disk, removed>> /\ KeepMeta /\ UNCHANGED rest

PopPlatform(c) ==
  /\ client[c].at = "pop" /\ Done(c)
  /\ platforms' = Pop(client[c].name) /\ removed' = removed \cup {client[c].name}
  /\ UNCHANGED <<entry, created>> /\ KeepMeta /\ UNCHANGED rest
  /\ persist

\* switchOn: what the check box is set to, in memory, to the runtime and on disk.
SetEnabled(i, on) ==
  /\ entry' = [entry EXCEPT ![i].cfg.enabled = on, ![i].told.enabled = on] /\ persist

\* A source whose content is wrong, or a preset without files, keeps a platform off.
MayEnable(cfg) ==
  (sources[cfg.source].avail => sources[cfg.source].valid) /\ ~PresetProblem(cfg.preset)

EnablePlatform(c) ==
  LET i == platforms[client[c].cmd.name]
  IN /\ Acts(c, "enable") /\ Done(c)
     /\ UNCHANGED <<platforms, created, removed>> /\ KeepMeta /\ UNCHANGED rest
     /\ IF i # Nobody /\ MayEnable(entry[i].cfg) THEN SetEnabled(i, TRUE) ELSE UNCHANGED <<entry, disk>>

DisablePlatform(c) ==
  LET i == platforms[client[c].cmd.name]
  IN /\ Acts(c, "disable") /\ Done(c)
     /\ UNCHANGED <<platforms, created, removed>> /\ KeepMeta /\ UNCHANGED rest
     /\ IF i # Nobody THEN SetEnabled(i, FALSE) ELSE UNCHANGED <<entry, disk>>

\* OnPlatformFallbackUnusable: the backup was needed and its preset is unusable.
FallbackUnusable(i) ==
  /\ hooks < MaxHooks /\ hooks' = hooks + 1
  /\ i \in Registered /\ entry[i].heard /\ entry[i].cfg.enabled /\ PresetProblem(entry[i].cfg.preset)
  /\ UNCHANGED <<platforms, created, client, removed>> /\ UNCHANGED ends /\ KeepMeta
  /\ SetEnabled(i, FALSE)

----------------------------------------------------------------------------
(* Sources.                                                                *)

AddSource(c) ==
  LET s == client[c].cmd.source
  IN /\ Acts(c, "add_source") /\ Done(c)
     /\ UNCHANGED <<defaultName, groups, presets>> /\ KeepPlatforms /\ UNCHANGED rest
     /\ IF sources[s].here THEN UNCHANGED <<sources, disk>>
        ELSE sources' = [sources EXCEPT ![s] = [NoSource EXCEPT !.here = TRUE]] /\ persist

\* The entries after their source got another name.
Renamed(s, to) ==
  Changed([i \in PlatformsOf(s) |-> [entry[i] EXCEPT !.cfg.source = to]])

\* Plausible defect: the platforms go on under the old name of their source.
UpdateSourceAlone(c) ==
  LET k == client[c].cmd s == k.source
  IN /\ Acts(c, "update_source")
     /\ KeepPlatforms /\ UNCHANGED <<groups, presets>> /\ UNCHANGED rest
     /\ IF ~sources[s].here \/ (k.contract /\ sources[s].avail)
        THEN Done(c) /\ UNCHANGED <<sources, defaultName, disk>>
        ELSE /\ sources' = [sources EXCEPT ![s] = NoSource, ![k.to] = sources[s]]
             /\ defaultName' = IF sources[s].main THEN k.to ELSE defaultName
             /\ persist /\ Done(c)

\* UpdateSource: a new name is passed on to the platforms; another type or track count has
\* them recreated one by one, and is refused while the source publishes.
UpdateSource(c) ==
  LET k == client[c].cmd s == k.source
  IN /\ Acts(c, "update_source")
     /\ UNCHANGED <<platforms, created, removed, groups, presets>> /\ UNCHANGED rest
     /\ IF ~sources[s].here \/ (k.contract /\ sources[s].avail)
        THEN Done(c) /\ UNCHANGED <<sources, defaultName, entry, disk>>
        ELSE /\ sources' = [sources EXCEPT ![s] = NoSource, ![k.to] = sources[s]]
             /\ defaultName' = IF sources[s].main THEN k.to ELSE defaultName
             /\ entry' = Renamed(s, k.to)
             /\ IF k.contract /\ PlatformsOf(s) # {}
                THEN /\ client' = [client EXCEPT ![c] = [at |-> "rewire", todo |-> PlatformsOf(s)]]
                     /\ UNCHANGED disk
                ELSE persist /\ Done(c)

\* The next platform of the source is shut down, with the lock given back.
Rewire(c) ==
  /\ client[c].at = "rewire"
  /\ \E i \in client[c].todo :
       /\ entry' = Shut(i)
       /\ client' = [client EXCEPT ![c] = [at |-> "rewired", todo |-> @.todo \ {i}, cfg |-> entry[i].cfg]]
  /\ UNCHANGED <<platforms, created, removed, disk>> /\ KeepMeta /\ UNCHANGED rest

\* It is created anew, from the configuration it had; nothing joins it to its source.
Rewired(c) ==
  LET cfg == client[c].cfg
  IN /\ client[c].at = "rewired"
     /\ UNCHANGED removed /\ KeepMeta /\ UNCHANGED rest
     /\ Instantiate(Pop(cfg.name), cfg, Fresh(cfg))
     /\ IF client[c].todo = {} THEN persist /\ Done(c)
        ELSE /\ client' = [client EXCEPT ![c] = [at |-> "rewire", todo |-> @.todo]]
             /\ UNCHANGED disk

\* Plausible defect: the platforms of the source are looked at by the dashboard alone.
RemoveSourceUnguarded(c) ==
  LET s == client[c].cmd.source
  IN /\ Acts(c, "remove_source") /\ Done(c)
     /\ UNCHANGED <<defaultName, groups, presets>> /\ KeepPlatforms /\ UNCHANGED rest
     /\ IF sources[s].here /\ ~sources[s].main
        THEN sources' = [sources EXCEPT ![s] = NoSource] /\ persist
        ELSE UNCHANGED <<sources, disk>>

RemoveSource(c) ==
  LET s == client[c].cmd.source
  IN /\ Acts(c, "remove_source") /\ Done(c)
     /\ UNCHANGED <<defaultName, groups, presets>> /\ KeepPlatforms /\ UNCHANGED rest
     /\ IF sources[s].here /\ ~sources[s].main /\ PlatformsOf(s) = {}
        THEN sources' = [sources EXCEPT ![s] = NoSource] /\ persist
        ELSE UNCHANGED <<sources, disk>>

\* OnAvailable; the probe it starts is of Broadcast.
OnAvailable(s) ==
  /\ hooks < MaxHooks /\ hooks' = hooks + 1 /\ ~stopping /\ sources[s].here /\ ~sources[s].avail
  /\ sources' = [sources EXCEPT ![s].avail = TRUE]
  /\ KeepPlatforms /\ UNCHANGED <<defaultName, groups, presets, disk, client>> /\ UNCHANGED ends

\* validateAndStart finds what was declared: the platforms of the source are told, those
\* without material switched off.
Validated(s) ==
  /\ hooks < MaxHooks /\ hooks' = hooks + 1
  /\ UNCHANGED <<platforms, created, removed, defaultName, groups, presets, client>>
  /\ UNCHANGED <<stopping, unstopped, crowded, commands>> /\ surprised' = (surprised \/ Underway)
  /\ ~stopping /\ sources[s].avail /\ ~sources[s].valid
  /\ sources' = [sources EXCEPT ![s].valid = TRUE]
  /\ entry' = Changed([i \in PlatformsOf(s) |-> [Gated(entry[i]) EXCEPT !.heard = TRUE]])
  /\ IF \E i \in PlatformsOf(s) : Gated(entry[i]) # entry[i] THEN persist ELSE UNCHANGED disk

OnUnavailable(s) ==
  /\ hooks < MaxHooks /\ hooks' = hooks + 1 /\ ~stopping /\ sources[s].avail
  /\ sources' = [sources EXCEPT ![s].avail = FALSE, ![s].valid = FALSE]
  /\ entry' = Changed([i \in PlatformsOf(s) |-> [entry[i] EXCEPT !.heard = FALSE]])
  /\ UNCHANGED <<platforms, created, removed, defaultName, groups, presets, disk, client>>
  /\ UNCHANGED ends

----------------------------------------------------------------------------
(* Groups and presets.                                                     *)

AddGroup(c) ==
  LET g == client[c].cmd.group
  IN /\ Acts(c, "add_group") /\ Done(c)
     /\ UNCHANGED <<sources, defaultName, presets>> /\ KeepPlatforms /\ UNCHANGED rest
     /\ IF g \in groups.here THEN UNCHANGED <<groups, disk>> \* the id would be another one
        ELSE groups' = [here |-> groups.here \cup {g}, on |-> groups.on \cup {g}] /\ persist

\* The platforms of a group.
Members(g) == {i \in Registered : entry[i].cfg.group = g}

\* The platforms of a group that is removed move to the default one.
RemoveGroup(c) ==
  LET g == client[c].cmd.group
      moved == [i \in Members(g) |-> Applied(entry[i], [entry[i].cfg EXCEPT !.group = MainGroup])]
  IN /\ Acts(c, "remove_group") /\ Done(c)
     /\ UNCHANGED <<platforms, created, removed, sources, defaultName, presets>> /\ UNCHANGED rest
     /\ IF g \notin groups.here \ {MainGroup} THEN UNCHANGED <<groups, entry, disk>>
        ELSE /\ groups' = [here |-> groups.here \ {g}, on |-> groups.on \ {g}]
             /\ entry' = Changed(moved) /\ persist

SetGroupEnabled(c, on) ==
  LET g == client[c].cmd.group
      opened == [i \in Members(g) |->
                   [(IF on THEN Gated(entry[i]) ELSE entry[i]) EXCEPT !.gate = on, !.told.gate = on]]
  IN /\ Acts(c, IF on THEN "enable_group" ELSE "disable_group") /\ Done(c)
     /\ UNCHANGED <<platforms, created, removed, sources, defaultName, presets>> /\ UNCHANGED rest
     /\ IF g \notin groups.here \/ (on <=> g \in groups.on) THEN UNCHANGED <<groups, entry, disk>>
        ELSE /\ groups' = [groups EXCEPT !.on = IF on THEN @ \cup {g} ELSE @ \ {g}]
             /\ entry' = Changed(opened) /\ persist

AddPreset(c) ==
  LET p == client[c].cmd.preset
  IN /\ Acts(c, "add_preset") /\ Done(c)
     /\ UNCHANGED <<sources, defaultName, groups>> /\ KeepPlatforms /\ UNCHANGED rest
     /\ IF p \in presets THEN UNCHANGED <<presets, disk>> \* the id would be another one
        ELSE presets' = presets \cup {p} /\ persist

\* New files: every platform that uses the preset is given them.
UpdatePreset(c) ==
  LET p == client[c].cmd.preset
      users == {i \in Registered : ResolvePreset(entry[i].cfg.preset) = p}
      reset == [i \in users |-> Applied(entry[i], [entry[i].cfg EXCEPT !.preset = p])]
  IN /\ Acts(c, "update_preset") /\ Done(c)
     /\ UNCHANGED <<platforms, created, removed>> /\ KeepMeta /\ UNCHANGED rest
     /\ IF p \notin presets THEN UNCHANGED <<entry, disk>>
        ELSE entry' = Changed(reset) /\ persist

RemovePreset(c) ==
  LET p == client[c].cmd.preset
  IN /\ Acts(c, "remove_preset") /\ Done(c)
     /\ UNCHANGED <<sources, defaultName, groups>> /\ KeepPlatforms /\ UNCHANGED rest
     /\ IF ResolvePreset(p) = MainPreset THEN UNCHANGED <<presets, disk>>
        ELSE presets' = presets \ {p} /\ persist

----------------------------------------------------------------------------
(* The end of the service.                                                 *)

\* Shutdown stops the platforms it finds one by one, with the lock given back for each.
Stop ==
  /\ MayStop /\ ~stopping
  /\ stopping' = TRUE /\ unstopped' = Registered
  /\ KeepPlatforms /\ KeepMeta
  /\ UNCHANGED <<disk, client, crowded, surprised, commands, hooks>>

StopNext ==
  /\ \E i \in unstopped : entry' = Shut(i) /\ unstopped' = unstopped \ {i}
  /\ UNCHANGED <<platforms, created, removed, disk, client, stopping>> /\ KeepMeta
  /\ UNCHANGED <<crowded, surprised, commands, hooks>>

\* The process exits.
Stopped == stopping /\ unstopped = {}

PlatformCommand(c) ==
  \/ AddPlatform(c) \/ UpdatePlatform(c) \/ Recreate(c) \/ RemovePlatform(c) \/ PopPlatform(c)
  \/ EnablePlatform(c) \/ DisablePlatform(c)
SourceCommand(c) ==
  \/ AddSource(c) \/ UpdateSource(c) \/ Rewire(c) \/ Rewired(c) \/ RemoveSource(c)
MetaCommand(c) ==
  \/ AddGroup(c) \/ RemoveGroup(c) \/ SetGroupEnabled(c, TRUE) \/ SetGroupEnabled(c, FALSE)
  \/ AddPreset(c) \/ UpdatePreset(c) \/ RemovePreset(c)

\* Nothing checks the group of a form: a platform goes astray with a group that does not exist,
\* for as long as it keeps it.
Strayed ==
  strays' = {i \in 1..created' : \/ entry'[i].cfg.group \notin groups'.here
                                 \/ i \in strays /\ entry'[i].cfg.group = entry[i].cfg.group}

RegistryNext ==
  /\ ~Stopped
  /\ \/ \E c \in Dashboards : Ask(c) \/ PlatformCommand(c) \/ SourceCommand(c) \/ MetaCommand(c)
     \/ \E s \in SourceNames : OnAvailable(s) \/ Validated(s) \/ OnUnavailable(s)
     \/ \E i \in Entries : FallbackUnusable(i)
     \/ Stop \/ StopNext
  /\ Strayed

RegistrySpec == RegistryInit /\ [][RegistryNext]_registryVars

----------------------------------------------------------------------------
(* Properties.                                                             *)

Tellings == [enabled : BOOLEAN, gate : BOOLEAN, preset : Presets]
Runtimes == [cfg : Config, gate : BOOLEAN, told : Tellings, up : BOOLEAN, heard : BOOLEAN]
\* Where a connection may be: idle, between the check of a form and its use, or in an
\* operation that gave the lock back.
Forms ==
  {Idle} \cup [at : {"act"}, cmd : Command] \cup [at : {"pop"}, name : Names]
  \cup [at : {"recreate"}, name : Names, cfg : Config]
  \cup [at : {"rewire"}, todo : SUBSET Entries]
  \cup [at : {"rewired"}, todo : SUBSET Entries, cfg : Config]

EntriesTyped ==
  /\ created \in 0..MaxEntries /\ platforms \in [Names -> 0..created]
  /\ entry = [i \in Entries |-> entry[i]]
  /\ \A i \in Entries : IF i <= created THEN entry[i] \in Runtimes ELSE entry[i] = NoEntry
  /\ \A n \in Names : platforms[n] # Nobody => entry[platforms[n]].cfg.name = n

MetaTyped ==
  /\ sources \in [SourceNames -> [here : BOOLEAN, main : BOOLEAN, avail : BOOLEAN, valid : BOOLEAN]]
  /\ \A s \in SourceNames : sources[s].valid => sources[s].avail
  /\ defaultName \in SourceNames /\ MainPreset \in presets /\ presets \subseteq Presets
  /\ groups \in [here : SUBSET Groups, on : SUBSET Groups]
  /\ MainGroup \in groups.here /\ groups.on \subseteq groups.here

FormsTyped ==
  /\ client \in [Dashboards -> Forms]
  /\ \A c \in Dashboards : client[c].at \in {"rewire", "rewired"} => client[c].todo \subseteq 1..created

RestTyped ==
  /\ unstopped \subseteq 1..created /\ removed \subseteq Names
  /\ {stopping, crowded, surprised} \subseteq BOOLEAN

StateTyped == EntriesTyped /\ MetaTyped /\ FormsTyped /\ RestTyped
RegistryTypeOK == StateTyped /\ strays \subseteq 1..created

\* Whatever was changed is on disk, except while platforms are recreated one by one: a
\* service that is killed comes back with what the dashboards were shown.
DiskIsMemory == Underway \/ disk = Document(platforms, entry, sources, groups, presets)

\* The runtime of a platform knows the check box, gate and preset the registry shows.
RuntimeKnows ==
  \A i \in Registered : entry[i].told = Told(entry[i].cfg, entry[i].gate)

\* No runtime goes on that the registry does not know: nobody could stop it, and it pushes
\* to the same key as its successor.
NoOrphan == \A i \in 1..created : entry[i].up => i \in Registered

\* A platform names a source that exists: references block the removal of a source
\* (comment of RemoveSource).
SourceExists == \A i \in Registered : sources[entry[i].cfg.source].here

\* The default source is there, under the name platforms are given: it is indestructible
\* (comment of RemoveSource).
DefaultSourceStays == sources[defaultName].here /\ sources[defaultName].main

\* A platform's preset exists (PlatformsReferencingPreset guards its removal).
PresetExists == \A i \in Registered : entry[i].cfg.preset \in presets

\* The gate of a platform is that of its group, a gate all its platforms share (head of
\* crud_meta.go).
GateFollowsGroup == \A i \in Registered : entry[i].gate = GroupEnabled(entry[i].cfg.group)

\* It is so for all that were not given a group that did not exist.
GateFollows == \A i \in Registered \ strays : entry[i].gate = GroupEnabled(entry[i].cfg.group)

\* What a platform refers to exists: its source, its preset, and its group's gate is its own;
\* as long as no command was begun while another was under way.
RefsResolve == crowded \/ (SourceExists /\ PresetExists /\ GateFollows)

\* Every platform of a source that is on air knows: one created meanwhile is told at once,
\* since the hook does not come again (comment of joinRunningSourceLocked).
AllJoined ==
  \A i \in Registered : entry[i].up /\ Live(entry[i].cfg.source) => entry[i].heard

\* It is so unless commands overlap, or the source came on air while its platforms were
\* recreated for another type (Rewired).
JoinedWhenLive == crowded \/ surprised \/ AllJoined

\* A platform on air with its check box on had material when it came on air, unless its
\* preset was changed since: no platform is told of its source with a preset that is broken.
TakenOffWithoutMaterial ==
  [][\A i \in Entries : ~entry[i].heard /\ entry'[i].heard /\ entry'[i].cfg.enabled
       => ~PresetProblem(entry'[i].cfg.preset)]_registryVars

\* A platform that was removed stays away until another command creates it (comment of
\* RemovePlatform).
RemovedStaysAway == \A n \in removed : platforms[n] = Nobody

\* What runs is stopped before the process exits (comment of Shutdown; the processes of a
\* platform outlive the service).
ShutdownStopsAll == Stopped => \A i \in 1..created : ~entry[i].up

=============================================================================
