-------------------------------- MODULE EBArm --------------------------------
(***************************************************************************)
(* The Enhanced Broadcasting arm: the go-live exchange that turns a stream *)
(* key into an ingest URL and a granted ladder (platform/ebarm.go,         *)
(* eb/eb.go), the passport of the source it reads (control/source.go,      *)
(* control/contract.go), and the backup that is encoded for the granted    *)
(* ladder (platform/pipeline.go).                                          *)
(*                                                                         *)
(* PushURL is called by the supervisor of the push client and by the       *)
(* validation of a publication, without a lock: its reads of the source    *)
(* and of the cached session are steps of their own. The hooks of the      *)
(* ingest and the machine's mailbox are theirs. Twitch is external.        *)
(***************************************************************************)
EXTENDS Naturals, Sequences, SequencesExt

CONSTANTS
  Ladders,     \* what OBS publishes and Twitch grants: sequences of rungs
  MaxPubs,     \* bound: publications
  MaxFails,    \* bound: exchanges that fail
  MaxExpired   \* bound: sessions that outlive EBSessionMaxAgeSec

None == <<>>                  \* no session, no ladder, no connection
Pubs == 1..MaxPubs
Threads == {0} \cup Pubs      \* 0: the supervisor; v: validateAndStart of publication v
Gens == 0..(2 * MaxPubs)

ASSUME LaddersAssumption == \A l \in Ladders : l \in Seq([size : Nat, fps : Nat]) /\ l # None
ASSUME BoundsAssumption == MaxPubs \in Nat /\ MaxFails \in Nat /\ MaxExpired \in Nat

VARIABLES
  available, gen, manifest, validated,   \* the source: its flags and passport
  real,        \* the ladder OBS is publishing
  accepted,    \* history: the generation the passport is of
  misread,     \* history: generations in which somebody has read the passport of another
  pubs,        \* publications so far
  session,     \* a.session: None or <<[ladder, gen, fresh]>>
  at,          \* where each thread is
  mine,        \* the generation a validation was spawned for
  info,        \* what its probe found
  asked,       \* the generation a thread has read
  seen, got,   \* the ladder it has read; the one it was granted
  mailbox,     \* the machine's events
  state,       \* the machine: "offline", "live", "fallback", and "returning" while
               \* the relay of a source that is back waits for the switch
  output,      \* the output is started
  conn,        \* None or <<[ladder, gen]>>: what the connection's URL was granted
               \* for, and in which generation it was asked for
  backup,      \* preparer.ladder
  aired,       \* the ladder last switched to
  fails, expired

sourceVars == <<available, gen, manifest, validated, real, accepted, misread, pubs>>
locals == <<mine, info, asked, seen, got>>
machine == <<mailbox, state, output, backup, aired>>
counts == <<fails, expired>>
vars == <<sourceVars, session, at, locals, machine, conn, counts>>

Init ==
  /\ available = FALSE /\ gen = 0 /\ manifest = None /\ validated = FALSE
  /\ real = None /\ accepted = 0 /\ misread = {} /\ pubs = 0 /\ session = None
  /\ at = [t \in Threads |-> "idle"] /\ mine = [v \in Pubs |-> 0]
  /\ info = [v \in Pubs |-> None] /\ asked = [t \in Threads |-> 0]
  /\ seen = [t \in Threads |-> None] /\ got = [t \in Threads |-> None]
  /\ mailbox = <<>> /\ state = "offline" /\ output = FALSE /\ conn = None
  /\ backup = None /\ aired = None /\ fails = 0 /\ expired = 0

Go(t, place) == at' = [at EXCEPT ![t] = place]

---------------------------------------------------------------------------
(* The source *)

\* The hook of a publication; its validation runs in the background.
OnAvailable ==
  /\ ~available /\ pubs < MaxPubs
  /\ available' = TRUE /\ gen' = gen + 1 /\ pubs' = pubs + 1
  /\ real' \in Ladders
  /\ Go(pubs', "probe") /\ mine' = [mine EXCEPT ![pubs'] = gen']
  /\ UNCHANGED <<manifest, validated, accepted, misread, session, info, asked, seen, got, machine, conn, counts>>

OnUnavailable ==
  /\ available /\ available' = FALSE /\ validated' = FALSE
  /\ gen' = gen + 1 /\ real' = None
  /\ mailbox' = Append(mailbox, "source_unavailable")
  /\ UNCHANGED <<manifest, accepted, misread, pubs, session, at, locals, state, output, backup, aired, conn, counts>>

\* checkContract without the lock: what is on the wire now, or nothing.
Probe(v) ==
  /\ at[v] = "probe"
  /\ \/ real # None /\ info' = [info EXCEPT ![v] = real] /\ Go(v, "accept")
     \/ info' = info /\ Go(v, "over")
  /\ UNCHANGED <<sourceVars, session, mine, asked, seen, got, machine, conn, counts>>

Current(v) == mine[v] = gen /\ available

\* acceptContractLocked, unless the publication is gone: the passport comes before
\* the exchange, which reads the ladder from it.
Accept(v) ==
  /\ at[v] = "accept"
  /\ IF Current(v)
     THEN manifest' = info[v] /\ accepted' = gen /\ validated' = TRUE /\ Go(v, "ask")
     ELSE UNCHANGED <<manifest, accepted, validated>> /\ Go(v, "over")
  /\ UNCHANGED <<available, gen, real, misread, pubs, session, locals, machine, conn, counts>>

\* With or without a session the platforms are started.
Start(v) ==
  /\ at[v] \in {"url", "nothing"} /\ Go(v, "over")
  /\ mailbox' = IF Current(v) THEN Append(mailbox, "source_available") ELSE mailbox
  /\ UNCHANGED <<sourceVars, session, locals, state, output, backup, aired, conn, counts>>

---------------------------------------------------------------------------
(* PushURL *)

ReadGen(t) ==
  /\ at[t] = "ask"
  /\ asked' = [asked EXCEPT ![t] = gen] /\ Go(t, "look")
  /\ UNCHANGED <<sourceVars, session, mine, info, seen, got, machine, conn, counts>>

\* Plausible defect: a session outlives its publication.
ServesAny(s, g) == s # None /\ s[1].fresh

\* One session for one publication, while it is not too old.
Serves(s, g) == s # None /\ s[1].gen = g /\ s[1].fresh

Look(t) ==
  /\ at[t] = "look"
  /\ IF Serves(session, asked[t])
     THEN got' = [got EXCEPT ![t] = session[1].ladder] /\ Go(t, "url")
     ELSE got' = got /\ Go(t, "observe")
  /\ UNCHANGED <<sourceVars, session, mine, info, asked, seen, machine, conn, counts>>

\* The passport as it is: of the publication before, until this one has been accepted.
Observe(t) ==
  /\ at[t] = "observe"
  /\ seen' = [seen EXCEPT ![t] = manifest] /\ Go(t, "fetch")
  /\ misread' = IF asked[t] = gen /\ accepted # gen THEN misread \cup {gen} ELSE misread
  /\ UNCHANGED <<available, gen, manifest, validated, real, accepted, pubs>>
  /\ UNCHANGED <<session, mine, info, asked, got, machine, conn, counts>>

\* Rung by rung in its place; a rate nobody knows is not compared.
CompareLadder(observed, granted) ==
  /\ granted # None /\ Len(observed) = Len(granted)
  /\ \A i \in DOMAIN observed :
       /\ observed[i].size = granted[i].size
       /\ observed[i].fps # 0 /\ granted[i].fps # 0 => observed[i].fps = granted[i].fps

\* FetchSession: what Twitch may grant; nothing is asked for when no ladder was
\* observed.
Granted(observed) == IF observed = None THEN {} ELSE Ladders

\* The exchange and the check of what it granted.
Exchange(t) ==
  /\ at[t] = "fetch"
  /\ \/ /\ \E l \in Granted(seen[t]) :
             CompareLadder(seen[t], l) /\ got' = [got EXCEPT ![t] = l]
        /\ Go(t, "store") /\ fails' = fails
     \/ /\ \/ fails < MaxFails /\ fails' = fails + 1
           \/ Granted(seen[t]) = {} /\ fails' = fails
        /\ got' = [got EXCEPT ![t] = None] /\ Go(t, "wipe")
  /\ UNCHANGED <<sourceVars, session, mine, info, asked, seen, machine, conn, expired>>

Store(t) ==
  /\ at[t] = "store"
  /\ session' = <<[ladder |-> got[t], gen |-> asked[t], fresh |-> TRUE]>>
  /\ mailbox' = Append(mailbox, "ladder_minted") /\ Go(t, "url")
  /\ UNCHANGED <<sourceVars, locals, state, output, backup, aired, conn, counts>>

\* Plausible defect: a failure is remembered like a session.
WipeKept(t) ==
  /\ at[t] = "wipe" /\ Go(t, "nothing")
  /\ session' = <<[ladder |-> None, gen |-> asked[t], fresh |-> TRUE]>>
  /\ UNCHANGED <<sourceVars, locals, machine, conn, counts>>

\* An exchange that failed forgets the session, whoever minted it.
Wipe(t) ==
  /\ at[t] = "wipe" /\ Go(t, "nothing") /\ session' = None
  /\ UNCHANGED <<sourceVars, locals, machine, conn, counts>>

Expire ==
  /\ session # None /\ session[1].fresh /\ expired < MaxExpired
  /\ session' = <<[session[1] EXCEPT !.fresh = FALSE]>> /\ expired' = expired + 1
  /\ UNCHANGED <<sourceVars, at, locals, machine, conn, fails>>

PushURL(t) == ReadGen(t) \/ Look(t) \/ Observe(t) \/ Exchange(t) \/ Store(t) \/ Wipe(t)

---------------------------------------------------------------------------
(* The supervisor of the push client and the machine *)

Attempt ==
  /\ output /\ conn = None /\ at[0] = "idle" /\ Go(0, "ask")
  /\ UNCHANGED <<sourceVars, session, locals, machine, conn, counts>>

\* A URL is connected to; an empty one, or an output stopped meanwhile, is not.
Connect ==
  /\ at[0] \in {"url", "nothing"} /\ Go(0, "idle")
  /\ conn' = IF at[0] = "url" /\ got[0] # None /\ output
             THEN <<[ladder |-> got[0], gen |-> asked[0]]>> ELSE None
  /\ UNCHANGED <<sourceVars, session, locals, machine, counts>>

Drop ==
  /\ conn # None /\ conn' = None
  /\ UNCHANGED <<sourceVars, session, at, locals, machine, counts>>

Rungs == IF session = None THEN None ELSE session[1].ladder

\* A ladder not minted is no ladder, the preparer keeps what it has.
PrepareBackup == backup' = IF Rungs = None THEN backup ELSE Rungs

\* An output that is bounced connects anew.
Bounce == conn' = None

HandleAvailable ==
  /\ mailbox # <<>> /\ Head(mailbox) = "source_available"
  /\ output' = TRUE /\ PrepareBackup
  /\ state' = IF state \in {"fallback", "returning"} THEN "returning" ELSE "live"
  /\ aired' = IF state = "offline" THEN real ELSE aired
  /\ mailbox' = Tail(mailbox)
  /\ UNCHANGED <<sourceVars, session, at, locals, conn, counts>>

\* Without a segment that is ready the output goes off with the source.
HandleUnavailable ==
  /\ mailbox # <<>> /\ Head(mailbox) = "source_unavailable"
  /\ mailbox' = Tail(mailbox)
  /\ IF state = "offline" THEN UNCHANGED <<state, output, conn>>
     ELSE /\ state' = "fallback" /\ output' \in {output, FALSE}
          /\ conn' = IF output' THEN conn ELSE None
  /\ UNCHANGED <<sourceVars, session, at, locals, backup, aired, counts>>

\* EnsureLadderBackup: once.
HandleMinted ==
  /\ mailbox # <<>> /\ Head(mailbox) = "ladder_minted"
  /\ backup' = IF state = "offline" \/ backup # None THEN backup ELSE Rungs
  /\ mailbox' = Tail(mailbox)
  /\ UNCHANGED <<sourceVars, session, at, locals, state, output, aired, conn, counts>>

\* onSwitchedToRelay: another ladder is other parameters.
SwitchedToRelay ==
  /\ state = "returning" /\ available /\ mailbox = <<>>
  /\ state' = "live" /\ aired' = real
  /\ IF real # aired THEN Bounce ELSE conn' = conn
  /\ UNCHANGED <<sourceVars, session, at, locals, mailbox, output, backup, counts>>

\* The session is over or the platform is switched off.
TeardownClean ==
  /\ state \in {"fallback", "returning"} /\ state' = "offline" /\ output' = FALSE /\ conn' = None
  /\ UNCHANGED <<sourceVars, session, at, locals, mailbox, backup, aired, counts>>

Validation(v) == Probe(v) \/ Accept(v) \/ PushURL(v) \/ Start(v)
Supervisor == Attempt \/ PushURL(0) \/ Connect
Machine == HandleAvailable \/ HandleUnavailable \/ HandleMinted

Next ==
  \/ OnAvailable \/ OnUnavailable \/ Expire \/ Drop
  \/ \E v \in Pubs : Validation(v)
  \/ Supervisor \/ Machine \/ SwitchedToRelay \/ TeardownClean

\* The goroutines run; what the outside does it need not do.
Spec == Init /\ [][Next]_vars
FairSpec ==
  /\ Spec /\ \A v \in Pubs : WF_vars(Validation(v))
  /\ WF_vars(Supervisor) /\ WF_vars(Machine)

---------------------------------------------------------------------------
(* Properties *)

MaybeLadder == Ladders \cup {None}
Places == {"idle", "probe", "accept", "ask", "look", "observe", "fetch", "store", "wipe",
           "url", "nothing", "over"}
Events == {"source_available", "source_unavailable", "ladder_minted"}

\* Type invariant, by the parts of the system.
SourceTypes ==
  /\ available \in BOOLEAN /\ validated \in BOOLEAN
  /\ gen \in Gens /\ accepted \in Gens /\ misread \subseteq Gens /\ pubs \in 0..MaxPubs
  /\ manifest \in MaybeLadder /\ real \in MaybeLadder

ThreadTypes ==
  /\ at \in [Threads -> Places] /\ asked \in [Threads -> Gens]
  /\ mine \in [Pubs -> Gens] /\ info \in [Pubs -> MaybeLadder]
  /\ seen \in [Threads -> MaybeLadder] /\ got \in [Threads -> MaybeLadder]
  /\ session = None \/ \E s \in [ladder : Ladders, gen : Gens, fresh : BOOLEAN] : session = <<s>>
  /\ fails \in 0..MaxFails /\ expired \in 0..MaxExpired

MachineTypes ==
  /\ mailbox \in Seq(Events)
  /\ state \in {"offline", "live", "fallback", "returning"}
  /\ output \in BOOLEAN
  /\ backup \in MaybeLadder /\ aired \in MaybeLadder
  /\ conn = None \/ \E c \in [ladder : Ladders, gen : Gens] : conn = <<c>>

TypeOK == SourceTypes /\ ThreadTypes /\ MachineTypes

\* Two ladders that Twitch and OBS would call the same.
Same(l, m) ==
  Len(l) = Len(m) /\ \A i \in DOMAIN l : l[i].size = m[i].size

\* The output of a platform that is live is connected with a URL of this publication.
Pushing == state = "live" /\ available /\ mailbox = <<>> /\ conn # None /\ conn[1].gen = gen

\* What is pushed goes to an ingest that was granted the very ladder the source
\* carries (ebarm.go: exchange; eb.go: CompareLadder).
GrantedForSource == Pushing => Same(real, conn[1].ladder)

\* It is so unless somebody asked on behalf of this publication and read the passport of
\* the one before.
PushFits == Pushing /\ conn[1].gen \notin misread => Same(real, conn[1].ladder)

\* The backup is encoded for the ladder the platform is connected with
\* (pipeline.go: PrepareBackup, EnsureLadderBackup).
BackupFits == Pushing /\ backup # None => Same(backup, conn[1].ladder)

\* A started output comes to a connection, an exchange that failed notwithstanding
\* (ebarm.go: PushURL, as the supervisor retries it).
Connects == state = "live" ~> conn # None \/ state # "live"
=============================================================================
