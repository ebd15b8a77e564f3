----------------------------- MODULE WireProofs -----------------------------
(***************************************************************************)
(* Proofs about EBArm, Publish and Demux: an ingest is pushed the ladder   *)
(* that it granted, a publication ends for a reason, and what comes out of *)
(* a transport stream is what went into it. They share no state.           *)
(***************************************************************************)
EXTENDS MCWire, FiniteSetTheorems, TLAPS

----------------------------------------------------------------------------
(* Enhanced Broadcasting.                                                  *)

\* A generation is half a publication: a source that is available is in an odd one.
GenCounted == gen = IF available THEN 2 * pubs - 1 ELSE 2 * pubs

\* Nobody is ahead of the generation of the moment.
NoneAhead ==
  /\ accepted <= gen
  /\ \A v \in Pubs : mine[v] <= gen
  /\ \A t \in Threads : asked[t] <= gen
  /\ session # None => session[1].gen <= gen
  /\ conn # None => conn[1].gen <= gen

\* What somebody holds for the generation g is the ladder the source carries, if the source is
\* still in that generation.
Carried(g, ladder) == g = gen /\ available => ladder = real
\* Nor is it asked any more what somebody was granted, or has read, when the passport was misread.
Read(g, ladder) == g = gen /\ available /\ g \notin misread => ladder = real
Fitting(g, ladder) == g = gen /\ available /\ g \notin misread => Same(real, ladder)

\* What each step of an exchange holds.
AllFitting ==
  /\ Carried(accepted, manifest)
  /\ \A v \in Pubs : at[v] = "accept" => Carried(mine[v], info[v])
  /\ \A t \in Threads :
       /\ at[t] = "fetch" => Read(asked[t], seen[t])
       /\ at[t] \in {"store", "url"} => got[t] # None /\ Fitting(asked[t], got[t])
  /\ session # None => Fitting(session[1].gen, session[1].ladder)
  /\ conn # None => Fitting(conn[1].gen, conn[1].ladder)

IInv == TypeOK /\ GenCounted /\ NoneAhead /\ AllFitting


LEMMA Threading == Pubs \subseteq Threads /\ 0 \in Threads /\ Pubs \subseteq Nat \ {0} /\ Gens \subseteq Nat
BY BoundsAssumption DEF Pubs, Threads, Gens

LEMMA EBInitially == Init => IInv
<1> SUFFICES ASSUME Init PROVE IInv
  OBVIOUS
<1> USE BoundsAssumption, Threading DEF Init, None
<1>1. TypeOK
  BY DEF TypeOK, SourceTypes, ThreadTypes, MachineTypes, Gens, MaybeLadder, Places
<1> QED BY <1>1 DEF IInv, GenCounted, NoneAhead, AllFitting, Carried, Read, Fitting

\* What the parts of the invariant say of generations: who is not ahead is behind the next one.
LEMMA Behind ==
  ASSUME TypeOK, NoneAhead
  PROVE  /\ gen \in Nat
         /\ accepted \in Nat /\ accepted < gen + 1
         /\ \A v \in Pubs : mine[v] \in Nat /\ mine[v] < gen + 1
         /\ \A t \in Threads : asked[t] \in Nat /\ asked[t] < gen + 1
         /\ session # None => session[1].gen \in Nat /\ session[1].gen < gen + 1
         /\ conn # None => conn[1].gen \in Nat /\ conn[1].gen < gen + 1
<1>1. gen \in Nat /\ accepted \in Nat
  BY Threading DEF TypeOK, SourceTypes
<1>2. mine \in [Pubs -> Nat] /\ asked \in [Threads -> Nat]
  BY Threading DEF TypeOK, ThreadTypes
<1>3. session # None => session[1].gen \in Nat
  <2> SUFFICES ASSUME session # None PROVE session[1].gen \in Nat
    OBVIOUS
  <2>1. PICK s \in [ladder : Ladders, gen : Gens, fresh : BOOLEAN] : session = <<s>>
    BY DEF TypeOK, ThreadTypes
  <2>2. session[1] = s
    BY <2>1
  <2> QED BY <2>2, Threading
<1>4. conn # None => conn[1].gen \in Nat
  <2> SUFFICES ASSUME conn # None PROVE conn[1].gen \in Nat
    OBVIOUS
  <2>1. PICK c \in [ladder : Ladders, gen : Gens] : conn = <<c>>
    BY DEF TypeOK, MachineTypes
  <2>2. conn[1] = c
    BY <2>1
  <2> QED BY <2>2, Threading
<1>5. /\ accepted <= gen
      /\ \A v \in Pubs : mine[v] <= gen
      /\ \A t \in Threads : asked[t] <= gen
      /\ session # None => session[1].gen <= gen
      /\ conn # None => conn[1].gen <= gen
  BY DEF NoneAhead
<1> QED BY <1>1, <1>2, <1>3, <1>4, <1>5

LEMMA AvailableKeeps == IInv /\ OnAvailable => IInv'
<1> SUFFICES ASSUME IInv, OnAvailable PROVE IInv'
  OBVIOUS
<1> USE BoundsAssumption, Threading
<1>1. /\ ~available /\ available' = TRUE /\ gen' = gen + 1 /\ pubs' = pubs + 1 /\ pubs < MaxPubs
      /\ real' \in Ladders
      /\ at' = [at EXCEPT ![pubs + 1] = "probe"] /\ mine' = [mine EXCEPT ![pubs + 1] = gen + 1]
      /\ UNCHANGED <<manifest, validated, accepted, misread, session, info, asked, seen, got, machine, conn, counts>>
  BY DEF OnAvailable, Go
<1>2. pubs \in 0..MaxPubs /\ pubs + 1 \in Pubs /\ gen = 2 * pubs /\ gen' = 2 * (pubs + 1) - 1
      /\ gen \in Nat /\ gen' \in Nat /\ gen' \in Gens
  BY <1>1 DEF IInv, TypeOK, SourceTypes, GenCounted, Pubs, Gens
<1>3. TypeOK'
  <2>1. SourceTypes'
    BY <1>1, <1>2 DEF IInv, TypeOK, SourceTypes, MaybeLadder
  <2>2. ThreadTypes'
    BY <1>1, <1>2 DEF IInv, TypeOK, ThreadTypes, counts, Places
  <2>3. MachineTypes'
    BY <1>1 DEF IInv, TypeOK, MachineTypes, machine
  <2> QED BY <2>1, <2>2, <2>3 DEF TypeOK
<1>4. GenCounted'
  BY <1>1, <1>2 DEF GenCounted
<1>5. /\ accepted # gen'
      /\ \A t \in Threads : asked[t] # gen'
      /\ \A v \in Pubs : v # pubs + 1 => mine'[v] # gen'
      /\ session # None => session[1].gen # gen'
      /\ conn # None => conn[1].gen # gen'
  BY <1>1, Behind DEF IInv, TypeOK, ThreadTypes
<1>6. NoneAhead'
  <2>1. /\ accepted <= gen'
        /\ \A t \in Threads : asked[t] <= gen'
        /\ session # None => session[1].gen <= gen'
    BY <1>1, <1>2, Behind DEF IInv
  <2>2. conn # None => conn[1].gen <= gen'
    BY <1>1, <1>2, Behind DEF IInv
  <2>3. \A v \in Pubs : mine'[v] <= gen'
    BY <1>1, <1>2, Behind DEF IInv, TypeOK, ThreadTypes
  <2> QED BY <1>1, <2>1, <2>2, <2>3 DEF NoneAhead
<1>7. AllFitting'
  <2>1. \A t \in Threads : at'[t] = at[t] \/ at'[t] = "probe"
    BY <1>1 DEF IInv, TypeOK, ThreadTypes
  <2>2. at'[pubs + 1] = "probe"
    BY <1>1, <1>2 DEF IInv, TypeOK, ThreadTypes
  <2>3. UNCHANGED <<accepted, manifest, misread, session, asked, got, conn>>
    BY <1>1
  <2>4. Carried(accepted, manifest)'
    BY <1>5, <2>3 DEF Carried
  <2>5. \A v \in Pubs : at'[v] = "accept" => Carried(mine[v], info[v])'
    BY <1>5, <2>2 DEF Carried
  <2>6. \A t \in Threads : at[t] \in {"store", "url"} => got[t] # None
    BY DEF IInv, AllFitting
  <2> QED BY <1>5, <2>1, <2>3, <2>4, <2>5, <2>6 DEF AllFitting, Carried, Read, Fitting
<1> QED BY <1>3, <1>4, <1>6, <1>7 DEF IInv

LEMMA UnavailableKeeps == IInv /\ OnUnavailable => IInv'
<1> SUFFICES ASSUME IInv, OnUnavailable PROVE IInv'
  OBVIOUS
<1> USE BoundsAssumption, Threading
<1>1. /\ available /\ available' = FALSE /\ validated' = FALSE /\ gen' = gen + 1 /\ real' = None
      /\ mailbox' = Append(mailbox, "source_unavailable")
      /\ UNCHANGED <<manifest, accepted, misread, pubs, session, at, locals, state, output, backup, aired, conn, counts>>
  BY DEF OnUnavailable
<1>2. pubs \in 0..MaxPubs /\ gen \in Nat /\ gen = 2 * pubs - 1 /\ gen' = 2 * pubs /\ gen' \in Gens
  BY <1>1 DEF IInv, TypeOK, SourceTypes, GenCounted, Gens
<1>3. TypeOK'
  <2>1. SourceTypes'
    BY <1>1, <1>2 DEF IInv, TypeOK, SourceTypes, MaybeLadder
  <2>2. ThreadTypes'
    BY <1>1 DEF IInv, TypeOK, ThreadTypes, counts, locals
  <2>3. MachineTypes'
    BY <1>1 DEF IInv, TypeOK, MachineTypes, Events
  <2> QED BY <2>1, <2>2, <2>3 DEF TypeOK
<1>4. GenCounted'
  BY <1>1, <1>2 DEF GenCounted
<1>5. accepted # gen' /\ \A t \in Threads : asked[t] # gen'
  BY <1>1, Behind DEF IInv
<1>6. NoneAhead'
  <2>1. NoneAhead /\ gen < gen'
    BY <1>1, <1>2 DEF IInv
  <2>2. \A n \in Nat : n <= gen => n <= gen'
    BY <1>1, <1>2
  <2>3. /\ accepted \in Nat
        /\ \A v \in Pubs : mine[v] \in Nat
        /\ \A t \in Threads : asked[t] \in Nat
        /\ session # None => session[1].gen \in Nat
        /\ conn # None => conn[1].gen \in Nat
    BY Behind DEF IInv
  <2>4. UNCHANGED <<accepted, mine, asked, session, conn>>
    BY <1>1 DEF locals
  <2>5. accepted <= gen' /\ \A v \in Pubs : mine[v] <= gen'
    BY <2>1, <2>2, <2>3 DEF NoneAhead
  <2>6. \A t \in Threads : asked[t] <= gen'
    BY <2>1, <2>2, <2>3 DEF NoneAhead
  <2>7. session # None => session[1].gen <= gen'
    BY <2>1, <2>2, <2>3 DEF NoneAhead
  <2>8. conn # None => conn[1].gen <= gen'
    BY <2>1, <2>2, <2>3 DEF NoneAhead
  <2> QED BY <2>4, <2>5, <2>6, <2>7, <2>8 DEF NoneAhead
<1>7. AllFitting'
  BY <1>1, <1>5 DEF IInv, AllFitting, Carried, Read, Fitting, locals
<1> QED BY <1>3, <1>4, <1>6, <1>7 DEF IInv


LEMMA ProbeKeeps == ASSUME IInv, NEW v \in Pubs, Probe(v) PROVE IInv'
<1> USE Threading
<1>1. PICK place \in {"accept", "over"} :
        /\ at[v] = "probe" /\ at' = [at EXCEPT ![v] = place]
        /\ info' = info \/ (real # None /\ info' = [info EXCEPT ![v] = real])
        /\ place = "accept" => info' = [info EXCEPT ![v] = real]
  BY DEF Probe, Go
<1>2. UNCHANGED <<sourceVars, session, mine, asked, seen, got, machine, conn, counts>>
  BY DEF Probe
<1>3. /\ at \in [Threads -> Places] /\ info \in [Pubs -> MaybeLadder] /\ real \in MaybeLadder
      /\ v \in Threads
  BY DEF IInv, TypeOK, ThreadTypes, SourceTypes
<1>4. TypeOK'
  <2>1. at' \in [Threads -> Places] /\ info' \in [Pubs -> MaybeLadder]
    BY <1>1, <1>3 DEF Places
  <2> QED BY <1>2, <2>1 DEF IInv, TypeOK, SourceTypes, ThreadTypes, MachineTypes, sourceVars, machine, counts
<1>5. GenCounted' /\ NoneAhead'
  BY <1>2 DEF IInv, GenCounted, NoneAhead, sourceVars
<1>6. AllFitting'
  <2>1. UNCHANGED <<available, gen, real, misread, accepted, manifest, session, mine, asked, seen, got, conn>>
    BY <1>2 DEF sourceVars
  <2>2. \A t \in Threads : t # v => at'[t] = at[t]
    BY <1>3, <1>1
  <2>3. \A w \in Pubs : w # v => info'[w] = info[w]
    BY <1>3, <1>1
  <2>4. at'[v] = place
    BY <1>3, <1>1
  <2>5. at'[v] = "accept" => info'[v] = real
    BY <1>3, <1>1, <2>4
  <2> QED BY <1>1, <2>1, <2>2, <2>3, <2>4, <2>5 DEF IInv, AllFitting, Carried, Read, Fitting
<1> QED BY <1>4, <1>5, <1>6 DEF IInv

LEMMA AcceptKeeps == ASSUME IInv, NEW v \in Pubs, Accept(v) PROVE IInv'
<1> USE Threading
<1>1. /\ at[v] = "accept"
      /\ UNCHANGED <<available, gen, real, misread, pubs, session, locals, machine, conn, counts>>
  BY DEF Accept
<1>2. PICK place \in {"ask", "over"} : at' = [at EXCEPT ![v] = place]
  BY DEF Accept, Go
<1>3. /\ at \in [Threads -> Places] /\ info \in [Pubs -> MaybeLadder] /\ gen \in Gens
      /\ v \in Threads
  BY DEF IInv, TypeOK, ThreadTypes, SourceTypes
<1>4. \/ Current(v) /\ manifest' = info[v] /\ accepted' = gen /\ validated' = TRUE
      \/ UNCHANGED <<manifest, accepted, validated>>
  BY DEF Accept
<1>5. TypeOK'
  <2>1. at' \in [Threads -> Places]
    BY <1>2, <1>3 DEF Places
  <2>2. manifest' \in MaybeLadder /\ accepted' \in Gens /\ validated' \in BOOLEAN
    BY <1>3, <1>4 DEF IInv, TypeOK, SourceTypes
  <2>3. SourceTypes'
    BY <1>1, <2>2 DEF IInv, TypeOK, SourceTypes
  <2>4. ThreadTypes'
    BY <1>1, <2>1 DEF IInv, TypeOK, ThreadTypes, locals, counts
  <2>5. MachineTypes'
    BY <1>1 DEF IInv, TypeOK, MachineTypes, machine, counts
  <2> QED BY <2>3, <2>4, <2>5 DEF TypeOK
<1>6. GenCounted'
  BY <1>1 DEF IInv, GenCounted
<1>7. NoneAhead'
  <2>1. NoneAhead /\ gen <= gen
    BY <1>3 DEF IInv, Gens
  <2>2. accepted' <= gen
    BY <1>4, <2>1 DEF NoneAhead
  <2>3. UNCHANGED <<gen, session, mine, asked, conn>>
    BY <1>1 DEF locals
  <2> QED BY <2>1, <2>2, <2>3 DEF NoneAhead
<1>8. AllFitting'
  <2>1. UNCHANGED <<available, gen, real, misread, session, mine, info, asked, seen, got, conn>>
    BY <1>1 DEF locals
  <2>2. \A t \in Threads : at'[t] = at[t] \/ at'[t] \in {"ask", "over"}
    BY <1>2, <1>3
  <2>3. Carried(accepted, manifest)'
    BY <1>1, <1>4, <2>1 DEF IInv, AllFitting, Carried, Current
  <2> QED BY <2>1, <2>2, <2>3 DEF IInv, AllFitting, Carried, Read, Fitting
<1> QED BY <1>5, <1>6, <1>7, <1>8 DEF IInv

LEMMA StartKeeps == ASSUME IInv, NEW v \in Pubs, Start(v) PROVE IInv'
<1> USE Threading
<1>1. /\ at' = [at EXCEPT ![v] = "over"]
      /\ mailbox' = mailbox \/ mailbox' = Append(mailbox, "source_available")
      /\ UNCHANGED <<sourceVars, session, locals, state, output, backup, aired, conn, counts>>
  BY DEF Start, Go
<1>2. at \in [Threads -> Places] /\ v \in Threads
  BY DEF IInv, TypeOK, ThreadTypes
<1>3. TypeOK'
  <2>1. at' \in [Threads -> Places]
    BY <1>1, <1>2 DEF Places
  <2>2. mailbox' \in Seq(Events)
    BY <1>1 DEF IInv, TypeOK, MachineTypes, Events
  <2> QED BY <1>1, <2>1, <2>2 DEF IInv, TypeOK, SourceTypes, ThreadTypes, MachineTypes, sourceVars, locals, counts, Events
<1>4. GenCounted' /\ NoneAhead'
  BY <1>1 DEF IInv, GenCounted, NoneAhead, sourceVars, locals
<1>5. AllFitting'
  <2>1. \A t \in Threads : at'[t] = at[t] \/ at'[t] = "over"
    BY <1>1, <1>2
  <2> QED BY <1>1, <2>1 DEF IInv, AllFitting, Carried, Read, Fitting, sourceVars, locals
<1> QED BY <1>3, <1>4, <1>5 DEF IInv


LEMMA ReadGenKeeps == ASSUME IInv, NEW t \in Threads, ReadGen(t) PROVE IInv'
<1> USE Threading
<1>1. /\ at[t] = "ask"
      /\ asked' = [asked EXCEPT ![t] = gen] /\ at' = [at EXCEPT ![t] = "look"]
      /\ UNCHANGED <<sourceVars, session, mine, info, seen, got, machine, conn, counts>>
  BY DEF ReadGen, Go
<1>2. at \in [Threads -> Places] /\ asked \in [Threads -> Gens] /\ gen \in Gens
  BY DEF IInv, TypeOK, ThreadTypes, SourceTypes
<1>3. TypeOK'
  <2>1. at' \in [Threads -> Places] /\ asked' \in [Threads -> Gens]
    BY <1>1, <1>2 DEF Places
  <2> QED BY <1>1, <2>1 DEF IInv, TypeOK, SourceTypes, ThreadTypes, MachineTypes, sourceVars, machine, counts
<1>4. GenCounted'
  BY <1>1 DEF IInv, GenCounted, sourceVars
<1>5. NoneAhead'
  <2>1. gen <= gen
    BY <1>2
  <2>2. \A u \in Threads : asked'[u] <= gen
    BY <1>1, <1>2, <2>1 DEF IInv, NoneAhead
  <2> QED BY <1>1, <2>2 DEF IInv, NoneAhead, sourceVars
<1>6. AllFitting'
  <2>1. UNCHANGED <<available, gen, real, misread, accepted, manifest, session, mine, info, seen, got, conn>>
    BY <1>1 DEF sourceVars
  <2>2. \A u \in Threads : u # t => at'[u] = at[u] /\ asked'[u] = asked[u]
    BY <1>1, <1>2
  <2>3. at'[t] = "look"
    BY <1>1, <1>2
  <2> QED BY <1>1, <2>1, <2>2, <2>3 DEF IInv, AllFitting, Carried, Read, Fitting
<1> QED BY <1>3, <1>4, <1>5, <1>6 DEF IInv

\* A session of the publication is served from the cache.
LEMMA LookKeeps == ASSUME IInv, NEW t \in Threads, Look(t) PROVE IInv'
<1> USE Threading
<1>1. /\ at[t] = "look"
      /\ UNCHANGED <<sourceVars, session, mine, info, asked, seen, machine, conn, counts>>
      /\ \/ /\ Serves(session, asked[t])
            /\ got' = [got EXCEPT ![t] = session[1].ladder] /\ at' = [at EXCEPT ![t] = "url"]
         \/ got' = got /\ at' = [at EXCEPT ![t] = "observe"]
  BY DEF Look, Go
<1>2. at \in [Threads -> Places] /\ got \in [Threads -> MaybeLadder]
  BY DEF IInv, TypeOK, ThreadTypes
<1>3. Serves(session, asked[t]) =>
        /\ session # None /\ session[1].gen = asked[t]
        /\ session[1].ladder \in Ladders
  <2> SUFFICES ASSUME Serves(session, asked[t])
               PROVE  session # None /\ session[1].gen = asked[t] /\ session[1].ladder \in Ladders
    OBVIOUS
  <2>1. session # None /\ session[1].gen = asked[t]
    BY DEF Serves
  <2>2. PICK s \in [ladder : Ladders, gen : Gens, fresh : BOOLEAN] : session = <<s>>
    BY <2>1 DEF IInv, TypeOK, ThreadTypes
  <2> QED BY <2>1, <2>2
<1>4. TypeOK'
  <2>1. at' \in [Threads -> Places] /\ got' \in [Threads -> MaybeLadder]
    BY <1>1, <1>2, <1>3 DEF Places, MaybeLadder
  <2> QED BY <1>1, <2>1 DEF IInv, TypeOK, SourceTypes, ThreadTypes, MachineTypes, sourceVars, machine, counts
<1>5. GenCounted' /\ NoneAhead'
  BY <1>1 DEF IInv, GenCounted, NoneAhead, sourceVars
<1>6. AllFitting'
  <2>1. UNCHANGED <<available, gen, real, misread, accepted, manifest, session, mine, info, asked, seen, conn>>
    BY <1>1 DEF sourceVars
  <2>2. \A u \in Threads : u # t => at'[u] = at[u] /\ got'[u] = got[u]
    BY <1>1, <1>2
  <2>3. \/ at'[t] = "observe"
        \/ at'[t] = "url" /\ Serves(session, asked[t]) /\ got'[t] = session[1].ladder
    BY <1>1, <1>2
  <2>4. at'[t] = "url" => got'[t] # None /\ Fitting(asked[t], got'[t])
    BY <1>3, <2>3, LaddersAssumption DEF IInv, AllFitting, Fitting
  <2> QED BY <2>1, <2>2, <2>3, <2>4 DEF IInv, AllFitting, Carried, Read, Fitting
<1> QED BY <1>4, <1>5, <1>6 DEF IInv

\* Who reads the passport of another publication is not believed any more.
LEMMA ObserveKeeps == ASSUME IInv, NEW t \in Threads, Observe(t) PROVE IInv'
<1> USE Threading
<1>1. /\ at[t] = "observe"
      /\ seen' = [seen EXCEPT ![t] = manifest] /\ at' = [at EXCEPT ![t] = "fetch"]
      /\ misread' = IF asked[t] = gen /\ accepted # gen THEN misread \cup {gen} ELSE misread
      /\ UNCHANGED <<available, gen, manifest, validated, real, accepted, pubs>>
      /\ UNCHANGED <<session, mine, info, asked, got, machine, conn, counts>>
  BY DEF Observe, Go
<1>2. /\ at \in [Threads -> Places] /\ seen \in [Threads -> MaybeLadder] /\ manifest \in MaybeLadder
      /\ gen \in Gens /\ misread \subseteq Gens
  BY DEF IInv, TypeOK, ThreadTypes, SourceTypes
<1>3. TypeOK'
  <2>1. at' \in [Threads -> Places] /\ seen' \in [Threads -> MaybeLadder]
    BY <1>1, <1>2 DEF Places
  <2>2. misread' \subseteq Gens
    BY <1>1, <1>2
  <2> QED BY <1>1, <2>1, <2>2 DEF IInv, TypeOK, SourceTypes, ThreadTypes, MachineTypes, machine, counts
<1>4. GenCounted' /\ NoneAhead'
  BY <1>1 DEF IInv, GenCounted, NoneAhead
<1>5. AllFitting'
  <2>1. UNCHANGED <<available, gen, real, accepted, manifest, session, mine, info, asked, got, conn>>
    BY <1>1
  <2>2. \A u \in Threads : u # t => at'[u] = at[u] /\ seen'[u] = seen[u]
    BY <1>1, <1>2
  <2>3. at'[t] = "fetch" /\ seen'[t] = manifest
    BY <1>1, <1>2
  <2>4. misread \subseteq misread'
    BY <1>1
  <2>5. Read(asked[t], seen[t])'
    BY <1>1, <2>3 DEF IInv, AllFitting, Carried, Read
  <2> QED BY <2>1, <2>2, <2>3, <2>4, <2>5 DEF IInv, AllFitting, Carried, Read, Fitting
<1> QED BY <1>3, <1>4, <1>5 DEF IInv

\* What passes the comparison has the sizes that were observed.
LEMMA ExchangeKeeps == ASSUME IInv, NEW t \in Threads, Exchange(t) PROVE IInv'
<1> USE Threading
<1>1. /\ at[t] = "fetch"
      /\ UNCHANGED <<sourceVars, session, mine, info, asked, seen, machine, conn, expired>>
  BY DEF Exchange
<1>2. \/ /\ \E l \in Ladders : CompareLadder(seen[t], l) /\ got' = [got EXCEPT ![t] = l]
         /\ at' = [at EXCEPT ![t] = "store"]
      \/ got' = [got EXCEPT ![t] = None] /\ at' = [at EXCEPT ![t] = "wipe"]
  BY DEF Exchange, Go, Granted
<1>3. at \in [Threads -> Places] /\ got \in [Threads -> MaybeLadder] /\ fails \in 0..MaxFails
  BY DEF IInv, TypeOK, ThreadTypes
<1>4. TypeOK'
  <2>1. at' \in [Threads -> Places] /\ got' \in [Threads -> MaybeLadder]
    BY <1>2, <1>3 DEF Places, MaybeLadder
  <2>2. fails' \in 0..MaxFails
    BY <1>1, <1>3, BoundsAssumption DEF Exchange
  <2> QED BY <1>1, <2>1, <2>2 DEF IInv, TypeOK, SourceTypes, ThreadTypes, MachineTypes, sourceVars, machine
<1>5. GenCounted' /\ NoneAhead'
  BY <1>1 DEF IInv, GenCounted, NoneAhead, sourceVars
<1>6. AllFitting'
  <2>1. UNCHANGED <<available, gen, real, misread, accepted, manifest, session, mine, info, asked, seen, conn>>
    BY <1>1 DEF sourceVars
  <2>2. \A u \in Threads : u # t => at'[u] = at[u] /\ got'[u] = got[u]
    BY <1>2, <1>3
  <2>3. \/ at'[t] = "wipe"
        \/ at'[t] = "store" /\ got'[t] \in Ladders /\ CompareLadder(seen[t], got'[t])
    BY <1>2, <1>3
  <2>4. at'[t] = "store" => got'[t] # None /\ Fitting(asked[t], got'[t])
    <3> SUFFICES ASSUME at'[t] = "store" PROVE got'[t] # None /\ Fitting(asked[t], got'[t])
      OBVIOUS
    <3>1. got'[t] # None /\ Same(seen[t], got'[t])
      BY <2>3 DEF CompareLadder, Same
    <3>2. Read(asked[t], seen[t])
      BY <1>1 DEF IInv, AllFitting
    <3> QED BY <3>1, <3>2 DEF Read, Fitting
  <2> QED BY <2>1, <2>2, <2>3, <2>4 DEF IInv, AllFitting, Carried, Read, Fitting
<1> QED BY <1>4, <1>5, <1>6 DEF IInv

\* The session bears the generation its exchange was asked in.
LEMMA StoreKeeps == ASSUME IInv, NEW t \in Threads, Store(t) PROVE IInv'
<1> USE Threading
<1>1. /\ at[t] = "store"
      /\ session' = <<[ladder |-> got[t], gen |-> asked[t], fresh |-> TRUE]>>
      /\ mailbox' = Append(mailbox, "ladder_minted") /\ at' = [at EXCEPT ![t] = "url"]
      /\ UNCHANGED <<sourceVars, locals, state, output, backup, aired, conn, counts>>
  BY DEF Store, Go
<1>2. /\ at \in [Threads -> Places] /\ got \in [Threads -> MaybeLadder]
      /\ asked \in [Threads -> Gens] /\ mailbox \in Seq(Events)
  BY DEF IInv, TypeOK, ThreadTypes, MachineTypes
<1>3. got[t] \in Ladders /\ Fitting(asked[t], got[t])
  BY <1>1, <1>2 DEF IInv, AllFitting, MaybeLadder
<1>4. TypeOK'
  <2>1. at' \in [Threads -> Places]
    BY <1>1, <1>2 DEF Places
  <2>2. mailbox' \in Seq(Events)
    BY <1>1, <1>2 DEF Events
  <2>3. [ladder |-> got[t], gen |-> asked[t], fresh |-> TRUE] \in [ladder : Ladders, gen : Gens, fresh : BOOLEAN]
    BY <1>2, <1>3
  <2>4. ThreadTypes'
    BY <1>1, <2>1, <2>3 DEF IInv, TypeOK, ThreadTypes, locals, counts
  <2>5. SourceTypes' /\ MachineTypes'
    BY <1>1, <2>2 DEF IInv, TypeOK, SourceTypes, MachineTypes, sourceVars
  <2> QED BY <2>4, <2>5 DEF TypeOK
<1>5. session'[1] = [ladder |-> got[t], gen |-> asked[t], fresh |-> TRUE]
  BY <1>1
<1>6. GenCounted' /\ NoneAhead'
  BY <1>1, <1>5 DEF IInv, GenCounted, NoneAhead, sourceVars, locals
<1>7. AllFitting'
  <2>1. UNCHANGED <<available, gen, real, misread, accepted, manifest, mine, info, asked, seen, got, conn>>
    BY <1>1 DEF sourceVars, locals
  <2>2. \A u \in Threads : u # t => at'[u] = at[u]
    BY <1>1, <1>2
  <2>3. at'[t] = "url"
    BY <1>1, <1>2
  <2>5. got[t] # None
    BY <1>3, LaddersAssumption
  <2> QED BY <1>3, <1>5, <2>1, <2>2, <2>3, <2>5 DEF IInv, AllFitting, Carried, Read, Fitting
<1> QED BY <1>4, <1>6, <1>7 DEF IInv

LEMMA WipeKeeps == ASSUME IInv, NEW t \in Threads, Wipe(t) PROVE IInv'
<1> USE Threading
<1>1. /\ at[t] = "wipe" /\ at' = [at EXCEPT ![t] = "nothing"] /\ session' = None
      /\ UNCHANGED <<sourceVars, locals, machine, conn, counts>>
  BY DEF Wipe, Go
<1>2. at \in [Threads -> Places]
  BY DEF IInv, TypeOK, ThreadTypes
<1>3. TypeOK'
  <2>1. at' \in [Threads -> Places]
    BY <1>1, <1>2 DEF Places
  <2> QED BY <1>1, <2>1 DEF IInv, TypeOK, SourceTypes, ThreadTypes, MachineTypes, sourceVars, locals, machine, counts
<1>4. GenCounted' /\ NoneAhead'
  BY <1>1 DEF IInv, GenCounted, NoneAhead, sourceVars, locals
<1>5. AllFitting'
  <2>1. \A u \in Threads : at'[u] = at[u] \/ at'[u] = "nothing"
    BY <1>1, <1>2
  <2> QED BY <1>1, <2>1 DEF IInv, AllFitting, Carried, Read, Fitting, sourceVars, locals
<1> QED BY <1>3, <1>4, <1>5 DEF IInv


LEMMA ExpireKeeps == ASSUME IInv, Expire PROVE IInv'
<1> USE Threading
<1>1. /\ session # None /\ expired < MaxExpired /\ expired' = expired + 1
      /\ session' = <<[session[1] EXCEPT !.fresh = FALSE]>>
      /\ UNCHANGED <<sourceVars, at, locals, machine, conn, fails>>
  BY DEF Expire
<1>2. PICK s \in [ladder : Ladders, gen : Gens, fresh : BOOLEAN] : session = <<s>>
  BY <1>1 DEF IInv, TypeOK, ThreadTypes
<1>3. session[1] = s
  BY <1>2
<1>4. session' = <<[s EXCEPT !.fresh = FALSE]>>
  BY <1>1, <1>3
<1>5. [s EXCEPT !.fresh = FALSE] \in [ladder : Ladders, gen : Gens, fresh : BOOLEAN]
  OBVIOUS
<1>6. session'[1].ladder = session[1].ladder /\ session'[1].gen = session[1].gen /\ session' # None
  BY <1>3, <1>4 DEF None
<1>7. TypeOK'
  <2>1. ThreadTypes'
    BY <1>1, <1>4, <1>5, BoundsAssumption DEF IInv, TypeOK, ThreadTypes, locals
  <2> QED BY <1>1, <2>1 DEF IInv, TypeOK, SourceTypes, MachineTypes, sourceVars, machine
<1>8. GenCounted' /\ NoneAhead'
  BY <1>1, <1>6 DEF IInv, GenCounted, NoneAhead, sourceVars, locals
<1>9. AllFitting'
  BY <1>1, <1>6 DEF IInv, AllFitting, Carried, Read, Fitting, sourceVars, locals
<1> QED BY <1>7, <1>8, <1>9 DEF IInv

\* Steps of the supervisor and the machine leave source and exchanges alone: what they may do to
\* a connection is to end it.
LEMMA MachineKeeps ==
  ASSUME IInv, UNCHANGED <<sourceVars, session, locals, counts>>, MachineTypes',
         at' \in [Threads -> Places],
         \A t \in Threads : at'[t] = at[t] \/ at'[t] \in {"idle", "ask"},
         conn' = conn \/ conn' = None
  PROVE  IInv'
<1>1. TypeOK'
  BY DEF IInv, TypeOK, SourceTypes, ThreadTypes, sourceVars, locals, counts
<1>2. GenCounted' /\ NoneAhead'
  BY DEF IInv, GenCounted, NoneAhead, sourceVars, locals
<1>3. AllFitting'
  BY Threading DEF IInv, AllFitting, Carried, Read, Fitting, sourceVars, locals
<1> QED BY <1>1, <1>2, <1>3 DEF IInv

LEMMA MachineStepKeeps ==
  ASSUME IInv, Drop \/ Machine \/ SwitchedToRelay \/ TeardownClean
  PROVE  IInv'
<1> DEFINE Kept == /\ UNCHANGED <<sourceVars, session, at, locals, counts>>
                   /\ MachineTypes'
                   /\ conn' = conn \/ conn' = None
<1>1. /\ mailbox \in Seq(Events) /\ output \in BOOLEAN
      /\ state \in {"offline", "live", "fallback", "returning"}
      /\ backup \in MaybeLadder /\ aired \in MaybeLadder /\ real \in MaybeLadder
      /\ mailbox # <<>> => Tail(mailbox) \in Seq(Events)
  BY DEF IInv, TypeOK, SourceTypes, MachineTypes
<1>2. conn = None \/ \E c \in [ladder : Ladders, gen : Gens] : conn = <<c>>
  BY DEF IInv, TypeOK, MachineTypes
<1>3. Rungs \in MaybeLadder
  <2>1. CASE session = None
    BY <2>1 DEF Rungs, MaybeLadder
  <2>2. CASE session # None
    <3>1. PICK s \in [ladder : Ladders, gen : Gens, fresh : BOOLEAN] : session = <<s>>
      BY <2>2 DEF IInv, TypeOK, ThreadTypes
    <3>2. session[1].ladder \in Ladders
      BY <3>1
    <3> QED BY <2>2, <3>2 DEF Rungs, MaybeLadder
  <2> QED BY <2>1, <2>2
<1>4. ASSUME Drop PROVE Kept
  BY <1>1, <1>4 DEF Drop, MachineTypes, machine
<1>5. ASSUME HandleAvailable PROVE Kept
  BY <1>1, <1>2, <1>3, <1>5 DEF HandleAvailable, PrepareBackup, MachineTypes
<1>6. ASSUME HandleUnavailable PROVE Kept
  BY <1>1, <1>2, <1>6 DEF HandleUnavailable, MachineTypes
<1>7. ASSUME HandleMinted PROVE Kept
  BY <1>1, <1>2, <1>3, <1>7 DEF HandleMinted, MachineTypes
<1>8. ASSUME SwitchedToRelay PROVE Kept
  BY <1>1, <1>2, <1>8 DEF SwitchedToRelay, Bounce, MachineTypes
<1>9. ASSUME TeardownClean PROVE Kept
  BY <1>1, <1>9 DEF TeardownClean, MachineTypes
<1>10. Kept
  BY <1>4, <1>5, <1>6, <1>7, <1>8, <1>9 DEF Machine
<1>11. at \in [Threads -> Places]
  BY DEF IInv, TypeOK, ThreadTypes
<1> QED BY <1>10, <1>11, MachineKeeps

LEMMA SupervisorKeeps == ASSUME IInv, Attempt \/ Connect PROVE IInv'
<1> USE Threading
<1>1. at \in [Threads -> Places]
  BY DEF IInv, TypeOK, ThreadTypes
<1>2. CASE Attempt
  <2>1. /\ at' = [at EXCEPT ![0] = "ask"]
        /\ UNCHANGED <<sourceVars, session, locals, machine, conn, counts>>
    BY <1>2 DEF Attempt, Go
  <2>2. at' \in [Threads -> Places] /\ \A t \in Threads : at'[t] = at[t] \/ at'[t] \in {"idle", "ask"}
    BY <1>1, <2>1 DEF Places
  <2>3. MachineTypes'
    BY <2>1 DEF IInv, TypeOK, MachineTypes, machine
  <2> QED BY <2>1, <2>2, <2>3, MachineKeeps
<1>3. CASE Connect
  <2>1. /\ at' = [at EXCEPT ![0] = "idle"]
        /\ UNCHANGED <<sourceVars, session, locals, machine, counts>>
        /\ \/ at[0] = "url" /\ got[0] # None /\ conn' = <<[ladder |-> got[0], gen |-> asked[0]]>>
           \/ conn' = None
    BY <1>3 DEF Connect, Go
  <2>2. at' \in [Threads -> Places] /\ \A t \in Threads : at'[t] = at[t] \/ at'[t] \in {"idle", "ask"}
    BY <1>1, <2>1 DEF Places
  <2>3. CASE conn' = None
    <3>1. MachineTypes'
      BY <2>1, <2>3 DEF IInv, TypeOK, MachineTypes, machine
    <3> QED BY <2>1, <2>2, <2>3, <3>1, MachineKeeps
  <2>4. CASE at[0] = "url" /\ conn' = <<[ladder |-> got[0], gen |-> asked[0]]>>
    <3>1. got[0] \in Ladders /\ asked[0] \in Gens /\ asked[0] <= gen /\ Fitting(asked[0], got[0])
      BY <2>4 DEF IInv, TypeOK, ThreadTypes, AllFitting, NoneAhead, MaybeLadder
    <3>2. [ladder |-> got[0], gen |-> asked[0]] \in [ladder : Ladders, gen : Gens]
      BY <3>1
    <3>3. conn'[1].ladder = got[0] /\ conn'[1].gen = asked[0]
      BY <2>4
    <3>4. MachineTypes'
      BY <2>1, <2>4, <3>2 DEF IInv, TypeOK, MachineTypes, machine
    <3>5. SourceTypes' /\ ThreadTypes'
      BY <2>1, <2>2 DEF IInv, TypeOK, SourceTypes, ThreadTypes, sourceVars, locals, counts
    <3>6. GenCounted' /\ NoneAhead'
      BY <2>1, <3>1, <3>3 DEF IInv, GenCounted, NoneAhead, sourceVars, locals
    <3>7. AllFitting'
      BY <2>1, <2>2, <3>1, <3>3 DEF IInv, AllFitting, Carried, Read, Fitting, sourceVars, locals
    <3> QED BY <3>4, <3>5, <3>6, <3>7 DEF IInv, TypeOK
  <2> QED BY <2>1, <2>3, <2>4
<1> QED BY <1>2, <1>3

LEMMA EBKeeps == IInv /\ [Next]_vars => IInv'
<1> SUFFICES ASSUME IInv, [Next]_vars PROVE IInv'
  OBVIOUS
<1>1. CASE OnAvailable \/ OnUnavailable
  BY <1>1, AvailableKeeps, UnavailableKeeps
<1>2. CASE Expire
  BY <1>2, ExpireKeeps
<1>3. ASSUME NEW t \in Threads, PushURL(t) PROVE IInv'
  BY <1>3, ReadGenKeeps, LookKeeps, ObserveKeeps, ExchangeKeeps, StoreKeeps, WipeKeeps DEF PushURL
<1>4. ASSUME NEW v \in Pubs, Validation(v) PROVE IInv'
  BY <1>3, <1>4, Threading, ProbeKeeps, AcceptKeeps, StartKeeps DEF Validation
<1>5. CASE Supervisor
  BY <1>3, <1>5, Threading, SupervisorKeeps DEF Supervisor
<1>6. CASE Drop \/ Machine \/ SwitchedToRelay \/ TeardownClean
  BY <1>6, MachineStepKeeps
<1>7. CASE UNCHANGED vars
  <2>1. MachineTypes' /\ at' \in [Threads -> Places]
    BY <1>7 DEF IInv, TypeOK, MachineTypes, ThreadTypes, vars, machine
  <2> QED BY <1>7, <2>1, MachineKeeps DEF vars
<1> QED BY <1>1, <1>2, <1>4, <1>5, <1>6, <1>7 DEF Next

\* PushFits (EBArm.tla): however publications, exchanges, failures and expiries interleave, and
\* for any ladders, what is pushed is pushed to an ingest that was granted the very ladder the
\* source carries (PushURL, sameRungs, OnSourceUnavailable), unless somebody read the passport for
\* this publication before it had one of its own.
THEOREM GrantFits == Spec => []PushFits
<1>1. IInv => PushFits
  BY DEF IInv, AllFitting, Fitting, PushFits, Pushing
<1> QED BY <1>1, EBInitially, EBKeeps, PTL DEF Spec

----------------------------------------------------------------------------
(* A publication.                                                          *)

\* A reader that is in the middle of a message has something to read, or nobody to read it from; and
\* before the publication is accepted nobody else takes messages from the connection.
Reading ==
  /\ down \in Seq(Publish!Messages)
  /\ reader # "none" => stage = "live"
  /\ reader = "message" => down # <<>> \/ half \/ lost \/ closed

\* What the server says is a message.
LEMMA Sayings ==
  /\ \A name \in {"shake", "ping", "other", "_result", "_error", "onStatus", "onFCPublish"},
        txn \in 0..4, sid \in 0..2, code \in {"none", "Start", "Failed", "BadName"} :
          Publish!Say(name, txn, sid, code) \in Publish!Messages
  /\ Publish!Ping \in Publish!Messages /\ Publish!Other \in Publish!Messages
BY DEF Publish!Say, Publish!Messages, Publish!Ping, Publish!Other

LEMMA Transactions == \A n \in 0..4 : Publish!Txn(n) \in 0..4
BY DEF Publish!Txn

LEMMA RefusalsSaid == \A txn \in 0..4 : Publish!Refusal(txn) \subseteq Publish!Messages
<1> SUFFICES ASSUME NEW txn \in 0..4, NEW m \in Publish!Refusal(txn) PROVE m \in Publish!Messages
  OBVIOUS
<1>1. Refusals \subseteq {"error", "Failed", "BadName"}
  BY ConstantsAssumption DEF Publish!Assumptions
<1>2. CASE m = Publish!Say("_error", txn, 0, "none")
  BY <1>2, Sayings
<1>3. ASSUME NEW r \in Refusals \ {"error"}, m = Publish!Say("onStatus", 0, 0, r) PROVE m \in Publish!Messages
  <2>1. r \in {"none", "Start", "Failed", "BadName"}
    BY <1>1
  <2> QED BY <1>3, <2>1, Sayings
<1> QED BY <1>2, <1>3 DEF Publish!Refusal

\* A reply leaves something to read.
LEMMA Replied ==
  ASSUME down \in Seq(Publish!Messages), NEW x \in Publish!Messages,
         down' = down \o <<x>> \/ \E y \in Publish!Messages : down' = down \o <<x, y>>
  PROVE  down' \in Seq(Publish!Messages) /\ down' # <<>>
<1>1. \A T : \A s \in Seq(T), a, b \in T : /\ s \o <<a>> \in Seq(T) /\ s \o <<a>> # <<>>
                                          /\ s \o <<a, b>> \in Seq(T) /\ s \o <<a, b>> # <<>>
  OBVIOUS
<1> QED BY <1>1

\* What neither reads nor replies leaves the reader where it is.
LEMMA ReaderStays ==
  ASSUME Reading, down' = down, half => half', lost => lost', closed => closed',
         reader' = reader, stage' = stage \/ reader = "none"
  PROVE  Reading'
BY DEF Reading

LEMMA RepliesKeep ==
  ASSUME Reading, down' \in Seq(Publish!Messages), down' # <<>>, reader' = reader, stage' = stage
  PROVE  Reading'
BY DEF Reading

LEMMA AnswersKeep == Reading /\ Publish!ServerAnswers => Reading'
<1> SUFFICES ASSUME Reading, Publish!ServerAnswers PROVE Reading'
  OBVIOUS
<1>1. reader' = reader /\ stage' = stage /\ lost' = lost /\ closed' = closed
  BY DEF Publish!ServerAnswers, Publish!client
<1>2. down \in Seq(Publish!Messages)
  BY DEF Reading
<1>3. CASE UNCHANGED <<down, half>>
  BY <1>1, <1>3, ReaderStays
<1>4. ASSUME NEW x \in Publish!Messages,
             down' = down \o <<x>> \/ \E y \in Publish!Messages : down' = down \o <<x, y>>
      PROVE  Reading'
  BY <1>1, <1>2, <1>4, Replied, RepliesKeep
<1>5. /\ Publish!Txn(1) \in 0..4 /\ Publish!Txn(2) \in 0..4 /\ Publish!Txn(4) \in 0..4
  BY Transactions
<1> DEFINE c == Head(up)
<1>6. CASE c.name = "connect" /\ Publish!Reply(<<Publish!Say("_result", Publish!Txn(1), 0, "none"), Publish!Other>>)
  <2>1. Publish!Say("_result", Publish!Txn(1), 0, "none") \in Publish!Messages /\ Publish!Other \in Publish!Messages
    BY <1>5, Sayings
  <2> QED BY <1>4, <1>6, <2>1 DEF Publish!Reply
<1>7. ASSUME NEW m \in {"_result", "onFCPublish"},
             Publish!Reply(<<Publish!Say(m, IF m = "_result" THEN Publish!Txn(2) ELSE 0, 0, "none")>>)
      PROVE  Reading'
  <2>1. (IF m = "_result" THEN Publish!Txn(2) ELSE 0) \in 0..4
    BY <1>5
  <2>2. Publish!Say(m, IF m = "_result" THEN Publish!Txn(2) ELSE 0, 0, "none") \in Publish!Messages
    BY <2>1, Sayings
  <2> QED BY <1>4, <1>7, <2>2 DEF Publish!Reply
<1>8. ASSUME NEW n \in 0..2, Publish!Reply(<<Publish!Say("_result", Publish!Txn(4), n, "none")>>)
      PROVE  Reading'
  <2>1. Publish!Say("_result", Publish!Txn(4), n, "none") \in Publish!Messages
    BY <1>5, Sayings
  <2> QED BY <1>4, <1>8, <2>1 DEF Publish!Reply
<1>9. CASE Publish!Reply(<<Publish!Say("onStatus", 0, 0, "Start")>>)
  <2>1. Publish!Say("onStatus", 0, 0, "Start") \in Publish!Messages
    BY Sayings
  <2> QED BY <1>4, <1>9, <2>1 DEF Publish!Reply
<1>10. ASSUME NEW m \in Publish!Refusal(Publish!Txn(1)), Publish!Reply(<<m>>) PROVE Reading'
  <2>1. m \in Publish!Messages
    BY <1>5, RefusalsSaid
  <2> QED BY <1>4, <1>10, <2>1 DEF Publish!Reply
<1>11. CASE /\ c.name = "create" /\ created' \in Publish!Streams
            /\ \E n \in {0, created'} :
                 (n = 0 => created' = 1) /\ Publish!Reply(<<Publish!Say("_result", Publish!Txn(4), n, "none")>>)
  <2>1. \A n \in {0, created'} : n \in 0..2
    BY <1>11 DEF Publish!Streams
  <2> QED BY <1>8, <1>11, <2>1
<1> QED BY <1>3, <1>6, <1>7, <1>9, <1>10, <1>11 DEF Publish!ServerAnswers

LEMMA ServerKeeps == Reading /\ Publish!Server => Reading'
<1> SUFFICES ASSUME Reading, Publish!Server PROVE Reading'
  OBVIOUS
<1> USE DEF Publish!client
<1>1. CASE Publish!ServerShakes
  <2>1. Publish!Say("shake", 0, 0, "none") \in Publish!Messages
    BY Sayings
  <2>2. down' \in Seq(Publish!Messages) /\ down' # <<>>
    BY <1>1, <2>1, Replied DEF Publish!ServerShakes, Publish!Reply, Reading
  <2> QED BY <1>1, <2>2, RepliesKeep DEF Publish!ServerShakes
<1>2. CASE Publish!ServerPings
  <2>1. down' \in Seq(Publish!Messages) /\ down' # <<>>
    BY <1>2, Sayings, Replied DEF Publish!ServerPings, Publish!Reply, Reading
  <2> QED BY <1>2, <2>1, RepliesKeep DEF Publish!ServerPings
<1>3. CASE Publish!ServerSays
  <2>1. PICK m \in {Publish!Other} \cup Publish!Refusal(0) : Publish!Reply(<<m>>)
    BY <1>3 DEF Publish!ServerSays
  <2>2. m \in Publish!Messages
    BY Sayings, RefusalsSaid
  <2>3. down' \in Seq(Publish!Messages) /\ down' # <<>>
    BY <2>1, <2>2, Replied DEF Publish!Reply, Reading
  <2> QED BY <1>3, <2>3, RepliesKeep DEF Publish!ServerSays
<1>4. CASE Publish!ServerBegins
  BY <1>4, ReaderStays DEF Publish!ServerBegins
<1>5. CASE Publish!ConnectionLost
  <2>1. down' \in Seq(Publish!Messages)
    <3>1. down \in Seq(Publish!Messages) /\ <<>> \in Seq(Publish!Messages)
      BY DEF Reading
    <3> QED BY <1>5, <3>1 DEF Publish!ConnectionLost
  <2> QED BY <1>5, <2>1 DEF Publish!ConnectionLost, Reading
<1>6. CASE Publish!ServerStalls
  BY <1>6, ReaderStays DEF Publish!ServerStalls
<1> QED BY <1>1, <1>2, <1>3, <1>4, <1>5, <1>6, AnswersKeep DEF Publish!Server

LEMMA ClientKeeps ==
  ASSUME Reading, Publish!Connecting \/ Publish!Reader \/ Publish!WriteBegins
                  \/ Publish!WriteTag \/ Publish!Teardown \/ Publish!Close
  PROVE  Reading'
<1>1. down # <<>> => Tail(down) \in Seq(Publish!Messages)
  BY DEF Reading
<1> USE DEF Publish!wire
<1>2. CASE Publish!Fail /\ stage # "live"
  BY <1>2 DEF Publish!Fail, Reading
<1>3. CASE Publish!GiveUp \/ Publish!WriteFails
  BY <1>2, <1>3 DEF Publish!GiveUp, Publish!WriteFails, Publish!Setup, Publish!Fail
<1>4. CASE Publish!Dial
  BY <1>4 DEF Publish!Dial, Reading
<1>5. CASE Publish!Shake
  BY <1>1, <1>5 DEF Publish!Shake, Reading
<1>6. CASE Publish!WaitCommand
  <2>1. down' = Tail(down) /\ down # <<>> /\ reader = "none"
    BY <1>6 DEF Publish!WaitCommand, Reading
  <2>2. reader' = reader \/ (reader' = "tick" /\ stage' = "live")
    BY <1>6 DEF Publish!WaitCommand, Publish!NextCommands
  <2> QED BY <1>1, <2>1, <2>2 DEF Reading
<1>7. CASE Publish!ReaderOver
  BY <1>7 DEF Publish!ReaderOver, Reading
<1>8. CASE Publish!Tick
  BY <1>8 DEF Publish!Tick, Reading
<1>9. CASE Publish!ReaderLoses \/ Publish!AckFails
  BY <1>9 DEF Publish!ReaderLoses, Publish!AckFails, Publish!ReaderDies, Publish!Lost, Reading
<1>10. CASE Publish!ReaderHandles
  <2>1. down' = Tail(down) /\ down # <<>> /\ reader = "message" /\ stage' = stage
    BY <1>10 DEF Publish!ReaderHandles
  <2>2. reader' \in {"tick", "ended"}
    BY <1>10 DEF Publish!ReaderHandles
  <2> QED BY <1>1, <2>1, <2>2 DEF Reading
<1>11. CASE Publish!WriteBegins \/ Publish!WriteTag \/ Publish!Teardown \/ Publish!Close
  <2>1. /\ down' = down /\ half' = half /\ lost' = lost /\ reader' = reader /\ stage' = stage
        /\ closed => closed'
    BY <1>11 DEF Publish!WriteBegins, Publish!WriteTag, Publish!Teardown, Publish!Close
  <2> QED BY <2>1, ReaderStays
<1> QED BY <1>3, <1>4, <1>5, <1>6, <1>7, <1>8, <1>9, <1>10, <1>11 DEF Publish!Connecting, Publish!Reader

\* Whoever ends a connection has a reason.
LEMMA ForAReason ==
  ASSUME Reading, Publish!Next, ~dead, dead'
  PROVE  \/ lost \/ stuck \/ half \/ closed'
         \/ down # <<>> /\ Publish!Refuses(Head(down))
<1> USE DEF Publish!client
<1>1. \/ dead' = dead
      \/ Publish!ReaderLoses \/ Publish!AckFails \/ Publish!ReaderHandles \/ Publish!WriteTag \/ Publish!Close
  <2>1. CASE Publish!Connecting
    BY <2>1 DEF Publish!Connecting, Publish!Dial, Publish!Shake, Publish!WaitCommand, Publish!GiveUp,
                Publish!WriteFails, Publish!Fail
  <2>2. CASE Publish!Server
    BY <2>2 DEF Publish!Server, Publish!ServerShakes, Publish!ServerAnswers, Publish!ServerPings,
                Publish!ServerSays, Publish!ServerBegins, Publish!ServerStalls, Publish!ConnectionLost
  <2>3. CASE Publish!ReaderOver \/ Publish!Tick \/ Publish!WriteBegins \/ Publish!Teardown
    BY <2>3 DEF Publish!ReaderOver, Publish!Tick, Publish!WriteBegins, Publish!Teardown
  <2> QED BY <2>1, <2>2, <2>3 DEF Publish!Next, Publish!Reader
<1>2. CASE Publish!ReaderLoses
  BY <1>2 DEF Publish!ReaderLoses, Publish!ReaderDies, Publish!Lost, Publish!Broken, Reading
<1>3. CASE Publish!AckFails \/ Publish!ReaderHandles
  BY <1>3 DEF Publish!AckFails, Publish!ReaderHandles, Publish!SendFails
<1>4. CASE Publish!WriteTag
  BY <1>4 DEF Publish!WriteTag, Publish!SendFails
<1>5. CASE Publish!Close
  BY <1>5 DEF Publish!Close
<1> QED BY <1>1, <1>2, <1>3, <1>4, <1>5

\* EndsForAReason (Publish.tla): for any servers, refusals and bounds, a connection is given
\* up only when it is gone, takes nothing more, is broken off in the middle of a message, closed
\* or refused; that the server has nothing to say is no reason, for the reader, the sink or the
\* owner (reader, WriteTag, Close).
THEOREM EndsWell == MCSpec => EndsForAReason
<1>1. MCInit => Reading
  <2>1. <<>> \in Seq(Publish!Messages)
    OBVIOUS
  <2> QED BY <2>1 DEF MCInit, Publish!Init, Reading
<1>2. [MCNext]_MCvars => [Publish!Next]_publishVars
  BY DEF MCNext, MCvars
<1>3. Reading /\ [Publish!Next]_publishVars => Reading'
  <2>1. CASE UNCHANGED publishVars
    BY <2>1 DEF publishVars, Reading
  <2> QED BY <2>1, ServerKeeps, ClientKeeps DEF Publish!Next
<1>4. Reading /\ [Publish!Next]_publishVars
        => [~dead /\ dead' =>
             \/ lost \/ stuck \/ half \/ closed'
             \/ down # <<>> /\ Publish!Refuses(Head(down))]_Publish!vars
  BY ForAReason DEF publishVars, Publish!vars, Publish!client, Publish!wire, Publish!remote, Publish!counts
<1> QED BY <1>1, <1>2, <1>3, <1>4, PTL DEF MCSpec, EndsForAReason, Publish!EndsForAReason

----------------------------------------------------------------------------
(* The demultiplexer.                                                      *)

\* Arithmetic of the clock on the wire.
LEMMA Divided ==
  ASSUME NEW W \in Nat, W > 0, NEW x \in Int
  PROVE  x % W \in 0..(W - 1) /\ x \div W \in Int /\ x = W * (x \div W) + (x % W)
BY SMT

LEMMA Quotient ==
  ASSUME NEW W \in Nat, W > 0, NEW x \in Int, NEW q \in Int, NEW r \in 0..(W - 1), x = W * q + r
  PROVE  x % W = r
BY SMT

LEMMA Products ==
  ASSUME NEW W \in Int, NEW a \in Int, NEW b \in Int
  PROVE  W * (a + b) = W * a + W * b /\ W * a \in Int
BY SMT

LEMMA Halves ==
  ASSUME NEW W \in Nat, W > 0, W % 2 = 0
  PROVE  W \div 2 \in Nat /\ W = 2 * (W \div 2)
BY SMT

\* The difference on the wire is the difference, up to a turn of the clock.
LEMMA Difference ==
  ASSUME NEW W \in Nat, W > 0, NEW x \in Int, NEW y \in Int
  PROVE  ((y % W) - (x % W)) % W = (y - x) % W
<1> DEFINE rx == x % W
           dx == x \div W
           ry == y % W
           dy == y \div W
           d == y - x
           q == d \div W
           r == d % W
<1>1. rx \in 0..(W - 1) /\ dx \in Int /\ x = W * dx + rx
  BY Divided
<1>2. ry \in 0..(W - 1) /\ dy \in Int /\ y = W * dy + ry
  BY Divided
<1>3. r \in 0..(W - 1) /\ q \in Int /\ d = W * q + r /\ d = y - x
  <2>1. d \in Int
    OBVIOUS
  <2> QED BY <2>1, Divided
<1> HIDE DEF rx, dx, ry, dy, d, q, r
<1> DEFINE k == q + (dx - dy)
<1>4. W * k = W * q + W * (dx - dy) /\ W * q \in Int /\ W * (dx - dy) \in Int
  BY <1>1, <1>2, <1>3, Products
<1>5. W * dx = W * (dx - dy) + W * dy /\ W * dx \in Int /\ W * dy \in Int
  <2>1. dx = (dx - dy) + dy /\ dx - dy \in Int
    BY <1>1, <1>2
  <2>2. W * ((dx - dy) + dy) = W * (dx - dy) + W * dy
    BY <1>1, <1>2, <2>1, Products
  <2> QED BY <1>1, <1>2, <2>1, <2>2, Products
<1>6. ry - rx = W * k + r
  BY <1>1, <1>2, <1>3, <1>4, <1>5
<1>7. ry - rx \in Int /\ k \in Int
  BY <1>1, <1>2, <1>3
<1>8. (ry - rx) % W = r
  BY <1>3, <1>6, <1>7, Quotient
<1> QED BY <1>8 DEF ry, rx, r, d

\* The shorter way round is the right one, as long as two times lie less than half a turn apart.
LEMMA ShorterWay ==
  ASSUME NEW x \in Int, NEW y \in Int, y - x <= Wrap \div 2, x - y < Wrap \div 2, NEW z \in Int,
         NEW prev, prev = <<[raw |-> x % Wrap, unwrapped |-> x - z]>>
  PROVE  Demux!Unwrap(prev, y % Wrap) = y - z
<1> DEFINE delta == ((y % Wrap) - (x % Wrap)) % Wrap
           mid == Wrap \div 2
<1>1. Wrap \in Nat /\ Wrap > 0 /\ mid \in Nat /\ Wrap = 2 * mid
  BY ConstantsAssumption, Halves DEF Demux!Assumptions
<1>2. delta = (y - x) % Wrap
  BY <1>1, Difference
<1>3. delta = IF y - x >= 0 THEN y - x ELSE y - x + Wrap
  <2>1. CASE y - x >= 0
    <3>1. y - x \in 0..(Wrap - 1)
      BY <1>1, <2>1
    <3>2. y - x = Wrap * 0 + (y - x)
      BY <1>1
    <3>3. (y - x) % Wrap = y - x
      BY <1>1, <3>1, <3>2, Quotient
    <3> QED BY <1>2, <2>1, <3>3
  <2>2. CASE ~(y - x >= 0)
    <3>1. y - x + Wrap \in 0..(Wrap - 1)
      BY <1>1, <2>2
    <3>2. y - x = Wrap * (-1) + (y - x + Wrap)
      BY <1>1
    <3>3. (y - x) % Wrap = y - x + Wrap
      BY <1>1, <3>1, <3>2, Quotient
    <3> QED BY <1>2, <2>2, <3>3
  <2> QED BY <2>1, <2>2
<1>4. prev # <<>> /\ prev[1].raw = x % Wrap /\ prev[1].unwrapped = x - z
  OBVIOUS
<1>5. Demux!Unwrap(prev, y % Wrap) = (x - z) + (IF delta > mid THEN delta - Wrap ELSE delta)
  BY <1>4 DEF Demux!Unwrap
<1> HIDE DEF delta, mid
<1> QED BY <1>1, <1>3, <1>5 DEF mid

----------------------------------------------------------------------------
LEMMA Counts ==
  ASSUME NEW S, NEW i \in Nat, NEW j \in Nat, i < j, NEW A \in SUBSET (1..(i - 1)), NEW B \in SUBSET (1..(j - 1)),
         A \subseteq B, i \in B
  PROVE  Cardinality(A) \in Nat /\ Cardinality(B) \in Nat /\ Cardinality(A) # Cardinality(B)
<1>1. IsFiniteSet(1..(j - 1))
  BY FS_Interval
<1>2. IsFiniteSet(B)
  BY <1>1, FS_Subset
<1>3. IsFiniteSet(A) /\ (Cardinality(A) = Cardinality(B) => A = B)
  BY <1>2, FS_Subset
<1>4. i \notin A
  OBVIOUS
<1> QED BY <1>2, <1>3, <1>4, FS_CardinalityType

LEMMA Typing ==
  \A i \in DOMAIN Listed : /\ Listed[i].pid \in Demux!Pids /\ Demux!TypeOf(Listed[i].pid) = i
                           /\ Listed[i].type \in Demux!Types
<1> SUFFICES ASSUME NEW i \in DOMAIN Listed
             PROVE  /\ Listed[i].pid \in Demux!Pids /\ Demux!TypeOf(Listed[i].pid) = i /\ Listed[i].type \in Demux!Types
  OBVIOUS
<1>1. Listed \in Seq([pid : Nat, type : Demux!Types])
  BY ConstantsAssumption DEF Demux!Assumptions
<1>2. \A j \in DOMAIN Listed : Listed[j].pid = Listed[i].pid => j = i
  BY ConstantsAssumption DEF Demux!Assumptions
<1>3. Demux!TypeOf(Listed[i].pid) = i
  BY <1>2 DEF Demux!TypeOf
<1>4. Listed[i].pid \in Demux!Pids
  BY DEF Demux!Pids
<1>5. \A T : \A s \in Seq(T) : \A k \in DOMAIN s : s[k] \in T
  OBVIOUS
<1>6. Listed[i] \in [pid : Nat, type : Demux!Types]
  BY <1>1, <1>5
<1> QED BY <1>3, <1>4, <1>6

\* The instance counts as the module does.
LEMMA SameCount == \A S : Demux!Cardinality(S) = Cardinality(S)
BY DEF Demux!Cardinality, Cardinality

\* Streams that are demultiplexed are video or audio, each under a name of its own.
LEMMA RolesApart ==
  /\ DOMAIN Demux!Roles \subseteq Demux!Pids
  /\ \A p \in DOMAIN Demux!Roles : Demux!Video(p) \/ Listed[Demux!TypeOf(p)].type = "aac"
  /\ \A p, q \in DOMAIN Demux!Roles : Demux!Roles[p] = Demux!Roles[q] => p = q
<1> DEFINE taken == {i \in DOMAIN Listed :
                       \/ Listed[i].type = "aac"
                       \/ Listed[i].type = "h264" /\ (AllVideo \/ Demux!Before(i, "h264") = {})}
           name(i) == IF Listed[i].type = "aac" THEN <<"audio", Cardinality(Demux!Before(i, "aac"))>>
                      ELSE IF AllVideo
                      THEN <<"video", Cardinality(Demux!Before(i, "h264") \cup Demux!Before(i, "hevc"))>>
                      ELSE <<"video">>
<1>1. Demux!Roles = [p \in {Listed[i].pid : i \in taken} |-> name(Demux!TypeOf(p))]
  BY SameCount DEF Demux!Roles
<1>2. \A p \in DOMAIN Demux!Roles : \E i \in taken : p = Listed[i].pid /\ Demux!TypeOf(p) = i /\ Demux!Roles[p] = name(i)
  BY <1>1, Typing
<1>3. DOMAIN Listed = 1..Len(Listed) /\ Len(Listed) \in Nat
  BY ConstantsAssumption DEF Demux!Assumptions
<1>4. \A i \in taken : i \in DOMAIN Listed /\ (Listed[i].type = "aac" \/ Listed[i].type = "h264")
  OBVIOUS
<1>5. \A i \in DOMAIN Listed, t \in Demux!Types : Demux!Before(i, t) \in SUBSET (1..(i - 1))
  BY DEF Demux!Before
<1>6. \A i, j \in DOMAIN Listed, t \in Demux!Types :
        i < j => Demux!Before(i, t) \subseteq Demux!Before(j, t) /\ (Listed[i].type = t => i \in Demux!Before(j, t))
  BY <1>3 DEF Demux!Before
<1>8. ASSUME NEW i \in taken, NEW j \in taken, i < j PROVE name(i) # name(j)
  <2>1. i \in Nat /\ j \in Nat
    BY <1>3
  <2>2. CASE Listed[i].type = "aac" /\ Listed[j].type = "aac"
    <3>1. Cardinality(Demux!Before(i, "aac")) # Cardinality(Demux!Before(j, "aac"))
      <4>1. Demux!Before(i, "aac") \subseteq Demux!Before(j, "aac") /\ i \in Demux!Before(j, "aac")
        BY <1>6, <1>8, <2>2 DEF Demux!Types
      <4> QED BY <1>5, <1>8, <2>1, <4>1, Counts DEF Demux!Types
    <3> QED BY <2>2, <3>1
  <2>3. CASE Listed[i].type = "h264" /\ Listed[j].type = "h264"
    <3>1. i \in Demux!Before(j, "h264")
      BY <1>6, <1>8, <2>3 DEF Demux!Types
    <3>2. AllVideo
      BY <2>3, <3>1
    <3>3. Cardinality(Demux!Before(i, "h264") \cup Demux!Before(i, "hevc")) # Cardinality(Demux!Before(j, "h264") \cup Demux!Before(j, "hevc"))
      <4> DEFINE A == Demux!Before(i, "h264") \cup Demux!Before(i, "hevc")
                 B == Demux!Before(j, "h264") \cup Demux!Before(j, "hevc")
      <4>1. A \in SUBSET (1..(i - 1)) /\ B \in SUBSET (1..(j - 1))
        BY <1>5 DEF Demux!Types
      <4>2. A \subseteq B /\ i \in B
        BY <1>6, <1>8, <3>1 DEF Demux!Types
      <4> HIDE DEF A, B
      <4>3. Cardinality(A) # Cardinality(B)
        BY <1>8, <2>1, <4>1, <4>2, Counts
      <4> QED BY <4>3 DEF A, B
    <3> QED BY <2>3, <3>2, <3>3
  <2>4. CASE Listed[i].type # Listed[j].type
    BY <1>4, <2>4
  <2> QED BY <1>4, <2>2, <2>3, <2>4
<1>9. DOMAIN Demux!Roles \subseteq Demux!Pids
  <2> SUFFICES ASSUME NEW p \in DOMAIN Demux!Roles PROVE p \in Demux!Pids
    OBVIOUS
  <2> HIDE DEF taken, name
  <2>1. PICK i \in taken : p = Listed[i].pid
    BY <1>2
  <2>2. i \in DOMAIN Listed
    BY <1>4
  <2> QED BY <2>1, <2>2, Typing
<1>10. ASSUME NEW p \in DOMAIN Demux!Roles
       PROVE  Demux!Video(p) \/ Listed[Demux!TypeOf(p)].type = "aac"
  <2>1. PICK i \in taken : p = Listed[i].pid /\ Demux!TypeOf(p) = i /\ Demux!Roles[p] = name(i)
    BY <1>2
  <2> QED BY <1>4, <2>1 DEF Demux!Video
<1>11. ASSUME NEW p \in DOMAIN Demux!Roles, NEW q \in DOMAIN Demux!Roles, Demux!Roles[p] = Demux!Roles[q] PROVE p = q
  <2>1. PICK i \in taken : p = Listed[i].pid /\ Demux!Roles[p] = name(i)
    BY <1>2
  <2>2. PICK j \in taken : q = Listed[j].pid /\ Demux!Roles[q] = name(j)
    BY <1>2
  <2>3. i \in Nat /\ j \in Nat
    BY <1>3
  <2>4. i = j
    <3> HIDE DEF name, taken
    <3> QED BY <1>8, <1>11, <2>1, <2>2, <2>3
  <2> QED BY <2>1, <2>2, <2>4
<1> QED BY <1>9, <1>10, <1>11

----------------------------------------------------------------------------
\* The types.
UnitType == [pid : Demux!Pids, pts : Nat, dts : Nat, params : Nat, frames : Nat \ {0}, packets : Nat \ {0},
             seen : BOOLEAN, since : [p : Int, d : Int]]
PacketPiece == [unit : Nat, first : BOOLEAN]
TagType == [role : {Demux!Roles[p] : p \in DOMAIN Demux!Roles}, what : {"frame", "config"}, ts : Int, cts : Int,
            unit : Nat, params : Nat]
Seen == [raw : Int, unwrapped : Int]

Typed ==
  /\ now \in Nat /\ last \in [Demux!Pids -> Int] /\ units \in Seq(UnitType) /\ left \in [Demux!Pids -> Nat]
  /\ roles \in {<<>>, Demux!Roles} /\ (~pmtParsed => roles = <<>>) /\ flushed \in BOOLEAN
  /\ pes \in Seq([pid : Demux!Pids, buf : Seq(PacketPiece)]) /\ known \in [Demux!Pids -> Nat]
  /\ unwrap \in [Demux!Keys -> Seq(Seen)] /\ base \in Seq(Int) /\ demuxTags \in Seq(TagType)

\* What the producer makes of a unit.
Made ==
  \A u \in DOMAIN units :
    LET unit == units[u]
    IN /\ unit.dts <= unit.pts /\ unit.pts - unit.dts <= Wrap \div 2
       /\ unit.seen => unit.pid \in DOMAIN roles
       /\ Demux!Video(unit.pid) => unit.frames = 1
       /\ Listed[Demux!TypeOf(unit.pid)].type = "aac" => unit.pts = unit.dts /\ unit.since.p = unit.since.d
       /\ \A v \in DOMAIN units : unit.seen /\ units[v].seen /\ units[v].pid = unit.pid => units[v].since = unit.since

\* The times of a unit as its stream is unwrapped, and how much later it is shown.
Decoded(unit) == unit.dts - unit.since.d
Shown(unit) == unit.pts - unit.since.p
Later(unit) == IF Shown(unit) - Decoded(unit) < 0 THEN 0 ELSE Shown(unit) - Decoded(unit)
FirstSeen(unit) == unit.since = [p |-> unit.pts - (unit.pts % Wrap), d |-> unit.dts - (unit.dts % Wrap)]

PK(p) == [pid |-> p, kind |-> "p"]
DK(p) == [pid |-> p, kind |-> "d"]

\* The unit an assembler holds.
UnitOf(e) == e.buf[1].unit
Open(u) == \E i \in DOMAIN pes : UnitOf(pes[i]) = u

\* A stream is unwrapped from the unit before, or has not been yet.
FreshStream(p) == unwrap[PK(p)] = <<>> /\ unwrap[DK(p)] = <<>>
From(p, v) ==
  /\ unwrap[PK(p)] = <<[raw |-> units[v].pts % Wrap, unwrapped |-> Shown(units[v])]>>
  /\ Demux!Video(p) => unwrap[DK(p)] = <<[raw |-> units[v].dts % Wrap, unwrapped |-> Decoded(units[v])]>>
Follows(v, u) ==
  /\ units[v].dts < units[u].dts /\ units[u].pts - units[v].dts <= Wrap \div 2
  /\ units[u].since = units[v].since
Clock(p, u) ==
  \/ FreshStream(p) /\ FirstSeen(units[u])
  \/ \E v \in DOMAIN units : From(p, v) /\ Follows(v, u)

\* k are the parameters stream p was given last before unit n.
Given(p, n) == {v \in DOMAIN units : v < n /\ units[v].pid = p /\ units[v].seen /\ units[v].params # 0}
Latest(p, n, k) ==
  \/ Given(p, n) = {} /\ k = 0
  \/ \E v \in Given(p, n) : (\A w \in Given(p, n) : w <= v) /\ k = units[v].params

\* k are the parameters that were announced last for stream p.
Said(p) == {j \in DOMAIN demuxTags : demuxTags[j].what = "config" /\ demuxTags[j].role = roles[p]}
SaidLast(p, k) ==
  \/ Said(p) = {} /\ k = 0
  \/ \E j \in Said(p) : (\A m \in Said(p) : m <= j) /\ k = demuxTags[j].params /\ k # 0

\* An assembler holds the newest unit of its stream as far as it has come.
Holds(e) ==
  /\ e.pid \in DOMAIN roles /\ Len(e.buf) > 0 /\ e.buf[1].first
  /\ UnitOf(e) \in DOMAIN units /\ units[UnitOf(e)].pid = e.pid /\ units[UnitOf(e)].seen
  /\ \A k \in DOMAIN e.buf : e.buf[k].unit = UnitOf(e)
  /\ \A v \in DOMAIN units : units[v].pid = e.pid => v <= UnitOf(e)
  /\ last[e.pid] = units[UnitOf(e)].dts
  /\ Len(e.buf) + left[e.pid] = units[UnitOf(e)].packets
Ready(e) == Clock(e.pid, UnitOf(e)) /\ Latest(e.pid, UnitOf(e), known[e.pid])

Opened ==
  /\ \A i \in DOMAIN pes : Holds(pes[i]) /\ Ready(pes[i])
  /\ \A i, j \in DOMAIN pes : pes[i].pid = pes[j].pid => i = j

\* A stream without an assembler has not been seen, as long as the reader is there.
Idle ==
  ~flushed => \A p \in Demux!Pids : Demux!OpenAt(p) = {} => Demux!Handed(p) = {} /\ FreshStream(p) /\ known[p] = 0

\* What has been handed on.
TagsOf ==
  \A i \in DOMAIN demuxTags :
    /\ demuxTags[i].unit \in DOMAIN units /\ units[demuxTags[i].unit].seen
    /\ demuxTags[i].role = roles[units[demuxTags[i].unit].pid]
    /\ ~Open(demuxTags[i].unit)

Nth(k) == Cardinality({m \in Demux!Frames : m < k /\ demuxTags[m].unit = demuxTags[k].unit})
TimeLine ==
  \A i \in Demux!Frames :
    LET u == units[demuxTags[i].unit]
    IN /\ base # <<>> /\ Nth(i) \in Nat
       /\ demuxTags[i].ts = (Decoded(u) - base[1]) + Nth(i) /\ demuxTags[i].cts = Later(u)

AllCounted ==
  \A u \in DOMAIN units : units[u].seen /\ Demux!Came(u) /\ ~Open(u) =>
    Cardinality({i \in Demux!Frames : demuxTags[i].unit = u}) = units[u].frames

Ordered == \A i, j \in Demux!Frames : i < j /\ demuxTags[i].role = demuxTags[j].role => demuxTags[i].unit <= demuxTags[j].unit

\* Before a frame the parameters were announced that its stream had been given last.
Before1(i) == {j \in 1..i : demuxTags[j].what = "config" /\ demuxTags[j].role = demuxTags[i].role}
DescribedWell ==
  \A i \in Demux!Frames :
    LET p == units[demuxTags[i].unit].pid
    IN \/ Given(p, demuxTags[i].unit + 1) = {}
       \/ \E j \in Before1(i) : /\ \A m \in Before1(i) : m <= j
                                /\ Latest(p, demuxTags[i].unit + 1, demuxTags[j].params)

Configs == \A p \in DOMAIN roles : SaidLast(p, known[p])

Past == TagsOf /\ TimeLine /\ AllCounted /\ Ordered /\ DescribedWell /\ Configs
DInv == Typed /\ Made /\ Opened /\ Idle /\ Past

\* What a unit that is handed on leaves: c configurations and f frames.
HandsOn(p, u, c, f) ==
  LET n == Len(demuxTags)
  IN /\ c \in 0..1 /\ f \in Nat /\ (c = 1 => f > 0)
     /\ f > 0 => (c = 1 <=> units[u].params # 0 /\ units[u].params # known[p])
     /\ base' \in Seq(Int) /\ base' # <<>> /\ (base # <<>> => base'[1] = base[1])
     /\ known' = [known EXCEPT ![p] = IF c = 1 THEN units[u].params ELSE @]
     /\ demuxTags' \in Seq(TagType) /\ Len(demuxTags') = n + c + f
     /\ \A k \in 1..n : demuxTags'[k] = demuxTags[k]
     /\ c = 1 => LET t == demuxTags'[n + 1]
                 IN t.what = "config" /\ t.role = roles[p] /\ t.unit = u /\ t.params = units[u].params
     /\ \A k \in 1..f : LET t == demuxTags'[n + c + k]
                        IN /\ t.what = "frame" /\ t.role = roles[p] /\ t.unit = u
                           /\ t.ts = (Decoded(units[u]) - base'[1]) + (k - 1)
                           /\ t.cts = Later(units[u])
     /\ unwrap' \in [Demux!Keys -> Seq(Seen)]
     /\ \A k \in Demux!Keys : k.pid # p => unwrap'[k] = unwrap[k]
     /\ unwrap'[PK(p)] = <<[raw |-> units[u].pts % Wrap, unwrapped |-> Shown(units[u])]>>
     /\ Demux!Video(p) => unwrap'[DK(p)] = <<[raw |-> units[u].dts % Wrap, unwrapped |-> Decoded(units[u])]>>
Emits(p, u) ==
  \E c \in 0..1, f \in Nat : HandsOn(p, u, c, f) /\ (left[p] = 0 => f = units[u].frames)

\* Sequences.
LEMMA Elements == ASSUME NEW T, NEW s \in Seq(T) PROVE \A k \in DOMAIN s : s[k] \in T
OBVIOUS

LEMMA Blocks == ASSUME NEW T, NEW n \in Nat, NEW g \in [1..n -> T] PROVE g \in Seq(T) /\ Len(g) = n
OBVIOUS

Joins(T, t, s, a, b) ==
  /\ t \in Seq(T) /\ Len(t) = Len(s) + Len(a) + Len(b)
  /\ \A k \in 1..Len(s) : t[k] = s[k]
  /\ \A k \in 1..Len(a) : t[Len(s) + k] = a[k]
  /\ \A k \in 1..Len(b) : t[Len(s) + Len(a) + k] = b[k]

LEMMA Joined ==
  ASSUME NEW T, NEW s \in Seq(T), NEW a \in Seq(T), NEW b \in Seq(T)
  PROVE  Joins(T, s \o (a \o b), s, a, b)
<1>1. a \o b \in Seq(T) /\ Len(a \o b) = Len(a) + Len(b)
  OBVIOUS
<1>2. \A k \in 1..Len(b) : (a \o b)[Len(a) + k] = b[k]
  OBVIOUS
<1>3. \A k \in 1..Len(a) : (a \o b)[k] = a[k]
  OBVIOUS
<1> DEFINE t == a \o b
<1> HIDE DEF t
<1>4. /\ s \o t \in Seq(T) /\ Len(s \o t) = Len(s) + Len(t)
      /\ \A k \in 1..Len(s) : (s \o t)[k] = s[k]
      /\ \A k \in 1..Len(t) : (s \o t)[Len(s) + k] = t[k]
  <2>1. t \in Seq(T)
    BY <1>1 DEF t
  <2> QED BY <2>1
<1>5. Len(s) \in Nat /\ Len(a) \in Nat /\ Len(b) \in Nat
  OBVIOUS
<1>6. \A k \in 1..Len(b) : (s \o t)[Len(s) + Len(a) + k] = b[k]
  <2> SUFFICES ASSUME NEW k \in 1..Len(b) PROVE (s \o t)[Len(s) + Len(a) + k] = b[k]
    OBVIOUS
  <2>1. Len(a) + k \in 1..Len(t) /\ Len(s) + (Len(a) + k) = Len(s) + Len(a) + k
    BY <1>1, <1>5 DEF t
  <2>2. t[Len(a) + k] = b[k]
    BY <1>2 DEF t
  <2>3. (s \o t)[Len(s) + (Len(a) + k)] = t[Len(a) + k]
    BY <1>4, <2>1
  <2> QED BY <2>1, <2>2, <2>3
<1>7. \A k \in 1..Len(a) : (s \o t)[Len(s) + k] = a[k]
  BY <1>1, <1>3, <1>4, <1>5 DEF t
<1>8. Len(t) = Len(a) + Len(b)
  BY <1>1 DEF t
<1>9. Len(s \o t) = Len(s) + Len(a) + Len(b)
  BY <1>4, <1>5, <1>8
<1> QED BY <1>4, <1>6, <1>7, <1>9 DEF t, Joins

\* The streams that are demultiplexed.
LEMMA Streams ==
  ASSUME Typed
  PROVE  /\ DOMAIN roles \subseteq Demux!Pids
         /\ \A p \in DOMAIN roles : /\ Demux!Video(p) \/ Listed[Demux!TypeOf(p)].type = "aac"
                                    /\ roles = Demux!Roles /\ roles[p] \in {Demux!Roles[q] : q \in DOMAIN Demux!Roles}
         /\ \A p, q \in DOMAIN roles : roles[p] = roles[q] => p = q
<1>1. CASE roles = <<>>
  <2>1. DOMAIN roles = {}
    BY <1>1
  <2> QED BY <2>1
<1>2. CASE roles = Demux!Roles
  BY <1>2, RolesApart
<1> QED BY <1>1, <1>2 DEF Typed

LEMMA Clocks ==
  ASSUME Typed, Made, NEW p \in Demux!Pids, NEW u \in DOMAIN units, Clock(p, u)
  PROVE  /\ Demux!Unwrapped(PK(p), units[u].pts % Wrap) = Shown(units[u])
         /\ Demux!Video(p) => Demux!Unwrapped(DK(p), units[u].dts % Wrap) = Decoded(units[u])
<1>1. Wrap \in Nat /\ Wrap > 0 /\ Wrap \div 2 \in Nat
  BY ConstantsAssumption, Halves DEF Demux!Assumptions
<1>2. \A v \in DOMAIN units : /\ units[v].pts \in Nat /\ units[v].dts \in Nat /\ units[v].dts <= units[v].pts
                              /\ units[v].pts - units[v].dts <= Wrap \div 2
                              /\ units[v].since.p \in Int /\ units[v].since.d \in Int
  <2>1. \A v \in DOMAIN units : units[v] \in UnitType
    BY Elements DEF Typed
  <2> QED BY <2>1 DEF UnitType, Made
<1>3. CASE FreshStream(p) /\ FirstSeen(units[u])
  <2>1. \A x \in Nat : Demux!Unwrap(<<>>, x % Wrap) = x - (x - (x % Wrap))
    <3> SUFFICES ASSUME NEW x \in Nat PROVE x % Wrap = x - (x - (x % Wrap))
      BY DEF Demux!Unwrap
    <3>1. x % Wrap \in Int
      BY <1>1, Divided
    <3> QED BY <3>1
  <2>2. units[u].since.p = units[u].pts - (units[u].pts % Wrap) /\ units[u].since.d = units[u].dts - (units[u].dts % Wrap)
    BY <1>3 DEF FirstSeen
  <2> QED BY <1>2, <1>3, <2>1, <2>2 DEF Demux!Unwrapped, FreshStream, Shown, Decoded
<1>4. CASE \E v \in DOMAIN units : From(p, v) /\ Follows(v, u)
  <2>1. PICK v \in DOMAIN units : From(p, v) /\ Follows(v, u)
    BY <1>4
  <2> DEFINE h == Wrap \div 2
             a == units[v]
             b == units[u]
  <2>2. /\ a.pts \in Int /\ a.dts \in Int /\ b.pts \in Int /\ b.dts \in Int /\ h \in Nat
        /\ a.dts <= a.pts /\ a.pts - a.dts <= h /\ b.dts <= b.pts
        /\ a.dts < b.dts /\ b.pts - a.dts <= h
        /\ a.since.p \in Int /\ a.since.d \in Int /\ b.since = a.since
    BY <1>1, <1>2, <2>1 DEF Follows
  <2> HIDE DEF h, a, b
  <2>3. b.pts - a.pts <= h /\ a.pts - b.pts < h /\ b.dts - a.dts <= h /\ a.dts - b.dts < h
    BY <2>2
  <2>4. Demux!Unwrap(<<[raw |-> a.pts % Wrap, unwrapped |-> a.pts - a.since.p]>>, b.pts % Wrap) = b.pts - a.since.p
    BY <2>2, <2>3, ShorterWay DEF h
  <2>5. Demux!Unwrap(<<[raw |-> a.dts % Wrap, unwrapped |-> a.dts - a.since.d]>>, b.dts % Wrap) = b.dts - a.since.d
    BY <2>2, <2>3, ShorterWay DEF h
  <2> QED BY <2>1, <2>2, <2>4, <2>5 DEF From, Demux!Unwrapped, Shown, Decoded, a, b
<1> QED BY <1>3, <1>4 DEF Clock

LEMMA OneMore == \A x, y \in Nat : (x + 1) + (y - 1) = x + y
OBVIOUS

\* A base that is set keeps the start it had.
LEMMA Pinned ==
  ASSUME NEW b, NEW b2, NEW z \in Int, b2 = <<z>>, b # <<>> => z = b[1]
  PROVE  b2 \in Seq(Int) /\ b2 # <<>> /\ b2[1] = z /\ (b # <<>> => b2[1] = b[1])
OBVIOUS

\* What is handed on is what HandsOn says.
LEMMA Emitted ==
  ASSUME DInv, NEW i \in DOMAIN pes, Demux!Finalize(pes[i])
  PROVE  Emits(pes[i].pid, UnitOf(pes[i]))
<1> DEFINE e == pes[i]
           p == e.pid
           u == UnitOf(e)
           unit == units[u]
           came == Len(e.buf)
<1>1. Holds(e) /\ Ready(e)
  BY DEF DInv, Opened
<1>2. e \in [pid : Demux!Pids, buf : Seq(PacketPiece)]
  <2>1. pes \in Seq([pid : Demux!Pids, buf : Seq(PacketPiece)])
    BY DEF DInv, Typed
  <2> QED BY <2>1, Elements
<1>3. u \in DOMAIN units /\ unit \in UnitType
  <2>1. u \in DOMAIN units
    BY <1>1 DEF Holds
  <2>2. units \in Seq(UnitType)
    BY DEF DInv, Typed
  <2> QED BY <2>1, <2>2, Elements
<1>4. p \in DOMAIN roles /\ p \in Demux!Pids /\ roles[p] \in {Demux!Roles[q] : q \in DOMAIN Demux!Roles}
  <2>1. p \in DOMAIN roles /\ Typed
    BY <1>1 DEF Holds, DInv
  <2> QED BY <2>1, Streams
<1>5. unit.pid = p /\ came + left[p] = unit.packets /\ came \in Nat /\ left[p] \in Nat
  BY <1>1, <1>2, <1>4 DEF Holds, DInv, Typed
<1>6. Demux!Finalized(e) = IF Demux!Video(p) THEN Demux!HandleVideo(p, u) ELSE Demux!HandleAudio(p, u, came)
  BY <1>1 DEF Holds, Demux!Finalized, UnitOf
<1>7. /\ Demux!Unwrapped(PK(p), unit.pts % Wrap) = Shown(unit)
      /\ Demux!Video(p) => Demux!Unwrapped(DK(p), unit.dts % Wrap) = Decoded(unit)
  BY <1>1, <1>3, <1>4, Clocks DEF Ready, DInv
<1>8. /\ unit.pts \in Nat /\ unit.dts \in Nat /\ unit.params \in Nat /\ unit.frames \in Nat \ {0}
      /\ unit.packets \in Nat /\ u \in Nat /\ Decoded(unit) \in Int /\ Shown(unit) \in Int /\ Later(unit) \in Int
      /\ Demux!Video(p) => unit.frames = 1
      /\ ~Demux!Video(p) => Shown(unit) = Decoded(unit) /\ Later(unit) = 0
  <2>1. Made /\ Typed
    BY DEF DInv
  <2>2. Demux!Video(p) \/ Listed[Demux!TypeOf(p)].type = "aac"
    BY <1>4, <1>1, <2>1, Streams DEF Holds
  <2>3. u \in Nat
    <3>1. units \in Seq(UnitType)
      BY <2>1 DEF Typed
    <3>2. \A T : \A q \in Seq(T) : DOMAIN q \subseteq Nat
      OBVIOUS
    <3> QED BY <1>3, <3>1, <3>2
  <2>4. /\ unit.pts \in Nat /\ unit.dts \in Nat /\ unit.params \in Nat /\ unit.frames \in Nat \ {0}
        /\ unit.packets \in Nat /\ unit.since.p \in Int /\ unit.since.d \in Int
    BY <1>3 DEF UnitType
  <2>5. /\ Demux!Video(p) => unit.frames = 1
        /\ ~Demux!Video(p) => unit.pts = unit.dts /\ unit.since.p = unit.since.d
    BY <1>3, <1>5, <2>1, <2>2 DEF Made
  <2>6. Decoded(unit) \in Int /\ Shown(unit) \in Int /\ (~Demux!Video(p) => Shown(unit) = Decoded(unit))
    <3> HIDE DEF unit
    <3> QED BY <2>4, <2>5 DEF Decoded, Shown
  <2>7. Later(unit) \in Int /\ (Shown(unit) = Decoded(unit) => Later(unit) = 0)
    <3> HIDE DEF unit
    <3> QED BY <2>6 DEF Later
  <2> QED BY <2>3, <2>4, <2>5, <2>6, <2>7
<1>9. /\ base \in Seq(Int) /\ demuxTags \in Seq(TagType) /\ known \in [Demux!Pids -> Nat] /\ known[p] \in Nat
      /\ unwrap \in [Demux!Keys -> Seq(Seen)] /\ PK(p) \in Demux!Keys /\ DK(p) \in Demux!Keys /\ PK(p) # DK(p)
      /\ PK(p).pid = p /\ DK(p).pid = p
  BY <1>4 DEF DInv, Typed, PK, DK, Demux!Keys
<1>10. \A what \in {"frame", "config"}, ts \in Int, cts \in Int, ps \in Nat :
         /\ Demux!Tag(p, what, ts, cts, u, ps) \in TagType
         /\ Demux!Tag(p, what, ts, cts, u, ps).what = what /\ Demux!Tag(p, what, ts, cts, u, ps).ts = ts
         /\ Demux!Tag(p, what, ts, cts, u, ps).cts = cts /\ Demux!Tag(p, what, ts, cts, u, ps).role = roles[p]
         /\ Demux!Tag(p, what, ts, cts, u, ps).unit = u /\ Demux!Tag(p, what, ts, cts, u, ps).params = ps
  BY <1>4, <1>8 DEF Demux!Tag, TagType
<1>11. CASE Demux!Video(p)
  <2> DEFINE zero == IF base = <<>> THEN Decoded(unit) ELSE base[1]
             says == Demux!Announces(p, unit.params)
             a == IF says THEN <<Demux!Tag(p, "config", Decoded(unit) - zero, 0, u, unit.params)>> ELSE <<>>
             frame == Demux!Tag(p, "frame", Decoded(unit) - zero, Later(unit), u, 0)
  <2>1. Demux!HandleVideo(p, u) =
          [unwrap |-> [unwrap EXCEPT ![PK(p)] = Demux!Remember(PK(p), unit.pts % Wrap),
                                     ![DK(p)] = Demux!Remember(DK(p), unit.dts % Wrap)],
           base |-> <<zero>>,
           known |-> [known EXCEPT ![p] = IF says THEN unit.params ELSE @],
           tags |-> a \o <<frame>>]
    <3>1. (IF Shown(unit) - Decoded(unit) < 0 THEN 0 ELSE Shown(unit) - Decoded(unit)) = Later(unit)
      BY DEF Later
    <3> QED BY <1>7, <1>11, <3>1 DEF Demux!HandleVideo, PK, DK
  <2>2. /\ unwrap' = [unwrap EXCEPT ![PK(p)] = Demux!Remember(PK(p), unit.pts % Wrap),
                                    ![DK(p)] = Demux!Remember(DK(p), unit.dts % Wrap)]
        /\ base' = <<zero>>
        /\ known' = [known EXCEPT ![p] = IF says THEN unit.params ELSE @]
        /\ demuxTags' = demuxTags \o (a \o <<frame>>)
    <3> HIDE DEF zero, says, a, frame
    <3> QED BY <1>6, <1>11, <2>1 DEF Demux!Finalize
  <2>3. zero \in Int
    BY <1>8, <1>9
  <2>4. frame \in TagType /\ a \in Seq(TagType) /\ Len(a) = (IF says THEN 1 ELSE 0)
    <3>1. Decoded(unit) - zero \in Int /\ Later(unit) \in Int /\ 0 \in Int /\ 0 \in Nat /\ unit.params \in Nat
      BY <1>8, <2>3
    <3>2. frame \in TagType /\ Demux!Tag(p, "config", Decoded(unit) - zero, 0, u, unit.params) \in TagType
      <4> HIDE DEF zero
      <4> QED BY <1>10, <3>1
    <3> HIDE DEF zero
    <3> QED BY <3>2
  <2> DEFINE b == <<frame>>
             c == Len(a)
  <2>5. b \in Seq(TagType) /\ Len(b) = 1 /\ b[1] = frame /\ c \in 0..1 /\ (c = 1 <=> says)
    <3> HIDE DEF frame, a, says
    <3> QED BY <2>4
  <2>6. /\ demuxTags' \in Seq(TagType) /\ Len(demuxTags') = Len(demuxTags) + c + 1
        /\ \A k \in 1..Len(demuxTags) : demuxTags'[k] = demuxTags[k]
        /\ \A k \in 1..c : demuxTags'[Len(demuxTags) + k] = a[k]
        /\ \A k \in 1..1 : demuxTags'[Len(demuxTags) + c + k] = b[k]
    <3>1. a \o <<frame>> = a \o b
      OBVIOUS
    <3> HIDE DEF a, b, c
    <3>2. Joins(TagType, demuxTags \o (a \o b), demuxTags, a, b)
      <4>1. demuxTags \in Seq(TagType) /\ a \in Seq(TagType) /\ b \in Seq(TagType)
        BY <1>9, <2>4, <2>5
      <4> QED BY <4>1, Joined, Zenon
    <3> QED BY <2>2, <2>5, <3>1, <3>2 DEF c, Joins
  <2>7. /\ Demux!Remember(PK(p), unit.pts % Wrap) = <<[raw |-> unit.pts % Wrap, unwrapped |-> Shown(unit)]>>
        /\ Demux!Remember(DK(p), unit.dts % Wrap) = <<[raw |-> unit.dts % Wrap, unwrapped |-> Decoded(unit)]>>
    BY <1>7, <1>11 DEF Demux!Remember
  <2>8. /\ unwrap' \in [Demux!Keys -> Seq(Seen)]
        /\ \A k \in Demux!Keys : k.pid # p => unwrap'[k] = unwrap[k]
        /\ unwrap'[PK(p)] = <<[raw |-> unit.pts % Wrap, unwrapped |-> Shown(unit)]>>
        /\ unwrap'[DK(p)] = <<[raw |-> unit.dts % Wrap, unwrapped |-> Decoded(unit)]>>
    <3>1. Wrap \in Nat /\ Wrap > 0
      BY ConstantsAssumption DEF Demux!Assumptions
    <3>2. \A x \in Nat, y \in Int : <<[raw |-> x % Wrap, unwrapped |-> y]>> \in Seq(Seen)
      <4> SUFFICES ASSUME NEW x \in Nat, NEW y \in Int PROVE <<[raw |-> x % Wrap, unwrapped |-> y]>> \in Seq(Seen)
        OBVIOUS
      <4>1. x % Wrap \in Int
        BY <3>1, Divided
      <4>2. [raw |-> x % Wrap, unwrapped |-> y] \in Seen
        BY <4>1 DEF Seen
      <4> QED BY <4>2
    <3>3. Demux!Remember(PK(p), unit.pts % Wrap) \in Seq(Seen) /\ Demux!Remember(DK(p), unit.dts % Wrap) \in Seq(Seen)
      BY <1>8, <2>7, <3>2
    <3> HIDE DEF unit, p
    <3> QED BY <1>9, <2>2, <2>7, <3>3
  <2>9. says <=> unit.params # 0 /\ unit.params # known[p]
    BY DEF Demux!Announces
  <2>10. c = 1 => a[1] = Demux!Tag(p, "config", Decoded(unit) - zero, 0, u, unit.params)
    <3> HIDE DEF zero
    <3> QED BY <2>4
  <2>11. HandsOn(p, u, c, 1)
    <3>1. base' \in Seq(Int) /\ base' # <<>> /\ base'[1] = zero /\ (base # <<>> => base'[1] = base[1])
      <4>1. base # <<>> => zero = base[1]
        OBVIOUS
      <4>2. base' = <<zero>>
        BY <2>2
      <4>3. zero \in Int
        BY <2>3
      <4> HIDE DEF zero
      <4> QED BY <4>1, <4>2, <4>3, Pinned
    <3>2. c = 1 => LET t == demuxTags'[Len(demuxTags) + 1]
                   IN t.what = "config" /\ t.role = roles[p] /\ t.unit = u /\ t.params = unit.params
      <4>1. Decoded(unit) - zero \in Int /\ 0 \in Int /\ unit.params \in Nat
        BY <1>8, <2>3
      <4>2. c = 1 => demuxTags'[Len(demuxTags) + 1] = a[1]
        <5> HIDE DEF a
        <5> QED BY <2>5, <2>6
      <4> DEFINE conf == Demux!Tag(p, "config", Decoded(unit) - zero, 0, u, unit.params)
      <4>3. conf.what = "config" /\ conf.role = roles[p] /\ conf.unit = u /\ conf.params = unit.params
        <5>1. \A x \in Int, y \in Nat : /\ Demux!Tag(p, "config", x, 0, u, y).what = "config"
                                       /\ Demux!Tag(p, "config", x, 0, u, y).role = roles[p]
                                       /\ Demux!Tag(p, "config", x, 0, u, y).unit = u
                                       /\ Demux!Tag(p, "config", x, 0, u, y).params = y
          <6> HIDE DEF p, u
          <6> QED BY <1>10
        <5> HIDE DEF zero, unit, p, u
        <5> QED BY <4>1, <5>1
      <4>4. c = 1 => demuxTags'[Len(demuxTags) + 1] = conf
        <5> HIDE DEF a, c, conf
        <5> QED BY <2>10, <4>2 DEF conf
      <4> HIDE DEF a, c, conf
      <4> QED BY <4>3, <4>4
    <3>3. \A k \in 1..1 : LET t == demuxTags'[Len(demuxTags) + c + k]
                          IN /\ t.what = "frame" /\ t.role = roles[p] /\ t.unit = u
                             /\ t.ts = (Decoded(unit) - base'[1]) + (k - 1) /\ t.cts = Later(unit)
      <4>1. Decoded(unit) - zero \in Int /\ Later(unit) \in Int /\ 0 \in Nat
        BY <1>8, <2>3
      <4>2. /\ frame.what = "frame" /\ frame.role = roles[p] /\ frame.unit = u
            /\ frame.ts = Decoded(unit) - zero /\ frame.cts = Later(unit)
        <5> HIDE DEF zero
        <5> QED BY <1>10, <4>1
      <4>3. demuxTags'[Len(demuxTags) + c + 1] = frame
        <5> HIDE DEF a, frame
        <5> QED BY <2>5, <2>6
      <4> HIDE DEF a, frame, zero, c
      <4>4. (Decoded(unit) - base'[1]) + (1 - 1) = Decoded(unit) - zero
        BY <3>1, <4>1
      <4> QED BY <4>2, <4>3, <4>4
    <3>4. known' = [known EXCEPT ![p] = IF c = 1 THEN unit.params ELSE @]
      <4> HIDE DEF a, says
      <4> QED BY <2>2, <2>5
    <3> HIDE DEF a, b, frame, zero, says, c
    <3> QED BY <2>5, <2>6, <2>8, <2>9, <3>1, <3>2, <3>3, <3>4 DEF HandsOn
  <2>12. left[p] = 0 => 1 = unit.frames
    BY <1>8, <1>11
  <2> HIDE DEF a, c
  <2> QED BY <2>5, <2>11, <2>12 DEF Emits
<1>12. CASE ~Demux!Video(p)
  <2> DEFINE zero == IF base = <<>> THEN Shown(unit) ELSE base[1]
             f == IF came = unit.packets THEN unit.frames ELSE unit.frames - 1
             says == f > 0 /\ Demux!Announces(p, unit.params)
             a == IF says THEN <<Demux!Tag(p, "config", Shown(unit) - zero, 0, u, unit.params)>> ELSE <<>>
             b == [k \in 1..f |-> Demux!Tag(p, "frame", Shown(unit) - zero + k - 1, 0, u, 0)]
  <2>1. Demux!HandleAudio(p, u, came) =
          [unwrap |-> [unwrap EXCEPT ![PK(p)] = Demux!Remember(PK(p), unit.pts % Wrap)],
           base |-> <<zero>>,
           known |-> [known EXCEPT ![p] = IF says THEN unit.params ELSE @],
           tags |-> a \o b]
    BY <1>7 DEF Demux!HandleAudio, PK
  <2>2. /\ unwrap' = [unwrap EXCEPT ![PK(p)] = Demux!Remember(PK(p), unit.pts % Wrap)]
        /\ base' = <<zero>>
        /\ known' = [known EXCEPT ![p] = IF says THEN unit.params ELSE @]
        /\ demuxTags' = demuxTags \o (a \o b)
    <3> HIDE DEF zero, says, a, b
    <3>1. /\ unwrap' = Demux!Finalized(e).unwrap /\ base' = Demux!Finalized(e).base
          /\ known' = Demux!Finalized(e).known /\ demuxTags' = demuxTags \o Demux!Finalized(e).tags
      BY DEF Demux!Finalize
    <3>2. Demux!Finalized(e) = Demux!HandleAudio(p, u, came)
      BY <1>6, <1>12
    <3> QED BY <2>1, <3>1, <3>2
  <2>3. zero \in Int /\ f \in Nat /\ (left[p] = 0 => f = unit.frames)
    <3>1. zero \in Int
      BY <1>8, <1>9
    <3>2. left[p] = 0 => came = unit.packets
      BY <1>5, <1>8
    <3>3. f \in Nat /\ (came = unit.packets => f = unit.frames)
      BY <1>8
    <3> HIDE DEF f, zero
    <3> QED BY <3>1, <3>2, <3>3
  <2>4. a \in Seq(TagType) /\ Len(a) = (IF says THEN 1 ELSE 0)
    <3>1. Shown(unit) - zero \in Int /\ 0 \in Int /\ 0 \in Nat /\ unit.params \in Nat
      BY <1>8, <2>3
    <3>2. Demux!Tag(p, "config", Shown(unit) - zero, 0, u, unit.params) \in TagType
      <4> HIDE DEF zero
      <4> QED BY <1>10, <3>1
    <3> HIDE DEF zero
    <3> QED BY <3>2
  <2> DEFINE c == Len(a)
  <2>5. c \in 0..1 /\ (c = 1 <=> says) /\ (c = 1 => f > 0)
    <3>1. says => f > 0
      OBVIOUS
    <3> HIDE DEF a, says
    <3> QED BY <2>4, <3>1
  <2>6. \A k \in 1..f : b[k] = Demux!Tag(p, "frame", Shown(unit) - zero + k - 1, 0, u, 0) /\ b[k] \in TagType
    <3> SUFFICES ASSUME NEW k \in 1..f
                 PROVE  b[k] = Demux!Tag(p, "frame", Shown(unit) - zero + k - 1, 0, u, 0) /\ b[k] \in TagType
      OBVIOUS
    <3>1. Shown(unit) - zero + k - 1 \in Int
      BY <1>8, <2>3
    <3>2. b[k] = Demux!Tag(p, "frame", Shown(unit) - zero + k - 1, 0, u, 0)
      <4> HIDE DEF zero, f
      <4> QED OBVIOUS
    <3> HIDE DEF zero, f, b
    <3> QED BY <1>10, <3>1, <3>2
  <2>7. b \in Seq(TagType) /\ Len(b) = f
    <3>1. b \in [1..f -> TagType]
      <4>1. DOMAIN b = 1..f
        OBVIOUS
      <4>2. b = [k \in DOMAIN b |-> b[k]]
        OBVIOUS
      <4> HIDE DEF b
      <4> QED BY <2>6, <4>1, <4>2
    <3> HIDE DEF b, f
    <3> QED BY <2>3, <3>1, Blocks
  <2>8. /\ demuxTags' \in Seq(TagType) /\ Len(demuxTags') = Len(demuxTags) + c + f
        /\ \A k \in 1..Len(demuxTags) : demuxTags'[k] = demuxTags[k]
        /\ \A k \in 1..c : demuxTags'[Len(demuxTags) + k] = a[k]
        /\ \A k \in 1..f : demuxTags'[Len(demuxTags) + c + k] = b[k]
    <3> HIDE DEF a, b, c, f
    <3>1. Joins(TagType, demuxTags \o (a \o b), demuxTags, a, b)
      <4>1. demuxTags \in Seq(TagType) /\ a \in Seq(TagType) /\ b \in Seq(TagType)
        BY <1>9, <2>4, <2>7
      <4> QED BY <4>1, Joined, Zenon
    <3> QED BY <2>2, <2>7, <3>1 DEF c, Joins
  <2>9. Demux!Remember(PK(p), unit.pts % Wrap) = <<[raw |-> unit.pts % Wrap, unwrapped |-> Shown(unit)]>>
    BY <1>7 DEF Demux!Remember
  <2>10. /\ unwrap' \in [Demux!Keys -> Seq(Seen)]
         /\ \A k \in Demux!Keys : k.pid # p => unwrap'[k] = unwrap[k]
         /\ unwrap'[PK(p)] = <<[raw |-> unit.pts % Wrap, unwrapped |-> Shown(unit)]>>
    <3>1. Wrap \in Nat /\ Wrap > 0
      BY ConstantsAssumption DEF Demux!Assumptions
    <3>2. unit.pts % Wrap \in Int
      BY <1>8, <3>1, Divided
    <3>3. [raw |-> unit.pts % Wrap, unwrapped |-> Shown(unit)] \in Seen
      BY <1>8, <3>2 DEF Seen
    <3>4. \A x \in Seen : <<x>> \in Seq(Seen)
      OBVIOUS
    <3>5. Demux!Remember(PK(p), unit.pts % Wrap) \in Seq(Seen)
      BY <2>9, <3>3, <3>4
    <3> HIDE DEF unit, p
    <3> QED BY <1>9, <2>2, <2>9, <3>5
  <2>11. f > 0 => (says <=> unit.params # 0 /\ unit.params # known[p])
    BY DEF Demux!Announces
  <2>12. c = 1 => a[1] = Demux!Tag(p, "config", Shown(unit) - zero, 0, u, unit.params)
    <3> HIDE DEF zero
    <3> QED BY <2>4
  <2>13. HandsOn(p, u, c, f)
    <3>1. base' \in Seq(Int) /\ base' # <<>> /\ base'[1] = zero /\ (base # <<>> => base'[1] = base[1])
      <4>1. base # <<>> => zero = base[1]
        OBVIOUS
      <4>2. base' = <<zero>>
        BY <2>2
      <4>3. zero \in Int
        BY <2>3
      <4> HIDE DEF zero
      <4> QED BY <4>1, <4>2, <4>3, Pinned
    <3>2. c = 1 => LET t == demuxTags'[Len(demuxTags) + 1]
                   IN t.what = "config" /\ t.role = roles[p] /\ t.unit = u /\ t.params = unit.params
      <4>1. Shown(unit) - zero \in Int /\ 0 \in Int /\ unit.params \in Nat
        BY <1>8, <2>3
      <4>2. c = 1 => demuxTags'[Len(demuxTags) + 1] = a[1]
        <5> HIDE DEF a
        <5> QED BY <2>5, <2>8
      <4> DEFINE conf == Demux!Tag(p, "config", Shown(unit) - zero, 0, u, unit.params)
      <4>3. conf.what = "config" /\ conf.role = roles[p] /\ conf.unit = u /\ conf.params = unit.params
        <5>1. \A x \in Int, y \in Nat : /\ Demux!Tag(p, "config", x, 0, u, y).what = "config"
                                       /\ Demux!Tag(p, "config", x, 0, u, y).role = roles[p]
                                       /\ Demux!Tag(p, "config", x, 0, u, y).unit = u
                                       /\ Demux!Tag(p, "config", x, 0, u, y).params = y
          <6> HIDE DEF p, u
          <6> QED BY <1>10
        <5> HIDE DEF zero, unit, p, u
        <5> QED BY <4>1, <5>1
      <4>4. c = 1 => demuxTags'[Len(demuxTags) + 1] = conf
        <5> HIDE DEF a, c, conf
        <5> QED BY <2>12, <4>2 DEF conf
      <4> HIDE DEF a, c, conf
      <4> QED BY <4>3, <4>4
    <3>3. \A k \in 1..f : LET t == demuxTags'[Len(demuxTags) + c + k]
                          IN /\ t.what = "frame" /\ t.role = roles[p] /\ t.unit = u
                             /\ t.ts = (Decoded(unit) - base'[1]) + (k - 1) /\ t.cts = Later(unit)
      <4> SUFFICES ASSUME NEW k \in 1..f
                   PROVE  LET t == demuxTags'[Len(demuxTags) + c + k]
                          IN /\ t.what = "frame" /\ t.role = roles[p] /\ t.unit = u
                             /\ t.ts = (Decoded(unit) - base'[1]) + (k - 1) /\ t.cts = Later(unit)
        OBVIOUS
      <4> DEFINE t == demuxTags'[Len(demuxTags) + c + k]
                 ms == Shown(unit) - zero + k - 1
      <4>1. t = Demux!Tag(p, "frame", ms, 0, u, 0)
        <5> HIDE DEF a, b, f
        <5> QED BY <2>6, <2>8
      <4>2. ms \in Int /\ ms = (Decoded(unit) - zero) + (k - 1) /\ Later(unit) = 0
        BY <1>8, <1>12, <2>3
      <4>3. t.what = "frame" /\ t.role = roles[p] /\ t.unit = u /\ t.ts = ms /\ t.cts = 0
        <5> DEFINE g == Demux!Tag(p, "frame", ms, 0, u, 0)
        <5>1. ms \in Int /\ 0 \in Int /\ 0 \in Nat
          BY <4>2
        <5>2. g.what = "frame" /\ g.role = roles[p] /\ g.unit = u /\ g.ts = ms /\ g.cts = 0
          <6>1. \A x \in Int : /\ Demux!Tag(p, "frame", x, 0, u, 0).what = "frame"
                             /\ Demux!Tag(p, "frame", x, 0, u, 0).role = roles[p]
                             /\ Demux!Tag(p, "frame", x, 0, u, 0).unit = u
                             /\ Demux!Tag(p, "frame", x, 0, u, 0).ts = x
                             /\ Demux!Tag(p, "frame", x, 0, u, 0).cts = 0
            <7> HIDE DEF p, u
            <7> QED BY <1>10
          <6> HIDE DEF ms
          <6> QED BY <5>1, <6>1
        <5>3. t = g
          BY <4>1
        <5> HIDE DEF g, t, ms
        <5> QED BY <5>2, <5>3
      <4> HIDE DEF a, b, f, zero, t, c
      <4> QED BY <3>1, <4>2, <4>3 DEF t
    <3>4. known' = [known EXCEPT ![p] = IF c = 1 THEN unit.params ELSE @]
      <4> HIDE DEF a, says
      <4> QED BY <2>2, <2>5
    <3> HIDE DEF a, b, f, zero, says, c
    <3> QED BY <1>12, <2>3, <2>5, <2>8, <2>10, <2>11, <3>1, <3>2, <3>3, <3>4 DEF HandsOn
  <2> HIDE DEF a, c, f
  <2> QED BY <2>3, <2>5, <2>13 DEF Emits
<1> QED BY <1>11, <1>12

\* What a step adds to the units.
Grown ==
  /\ units' \in Seq(UnitType) /\ DOMAIN units \subseteq DOMAIN units'
  /\ \A v \in DOMAIN units : units'[v] = units[v]
  /\ \A v \in DOMAIN units' \ DOMAIN units : units'[v].seen => Open(v)'

\* A unit that is over does not go on coming.
NoneComes == \A v \in DOMAIN units : units[v].seen /\ ~Open(v) /\ Demux!Came(v)' => Demux!Came(v)

Closes(u) == /\ \A v \in DOMAIN units : Open(v)' => Open(v) /\ v # u
             /\ \A v \in DOMAIN units : Open(v) /\ v # u => Open(v)'

LEMMA Sized ==
  ASSUME Typed
  PROVE  /\ DOMAIN demuxTags = 1..Len(demuxTags) /\ Len(demuxTags) \in Nat /\ DOMAIN units = 1..Len(units) /\ Len(units) \in Nat
         /\ \A u \in DOMAIN units : units[u] \in UnitType
         /\ \A i \in DOMAIN demuxTags : demuxTags[i] \in TagType
<1>1. demuxTags \in Seq(TagType) /\ units \in Seq(UnitType)
  BY DEF Typed
<1> QED BY <1>1, Elements

\* What a stream was given last, after one more unit.
LEMMA KnownAfter ==
  ASSUME Typed, NEW u \in DOMAIN units, NEW p \in DOMAIN roles, units[u].pid = p, units[u].seen,
         Latest(p, u, known[p]), NEW c \in 0..1, NEW f \in Nat, f > 0, HandsOn(p, u, c, f)
  PROVE  Latest(p, u + 1, known'[p])
<1>1. u \in Nat /\ DOMAIN units \subseteq Nat /\ units[u].params \in Nat
  BY Sized DEF UnitType
<1>2. p \in Demux!Pids /\ known \in [Demux!Pids -> Nat]
  BY Streams DEF Typed
<1>3. /\ known'[p] = IF c = 1 THEN units[u].params ELSE known[p]
      /\ c = 1 <=> units[u].params # 0 /\ units[u].params # known[p]
  BY <1>2 DEF HandsOn
<1>4. Given(p, u + 1) = IF units[u].params # 0 THEN Given(p, u) \cup {u} ELSE Given(p, u)
  BY <1>1 DEF Given
<1>5. \A w \in Given(p, u) : w \in DOMAIN units /\ w <= u
  BY <1>1 DEF Given
<1>6. CASE units[u].params # 0
  <2>1. known'[p] = units[u].params
    BY <1>3, <1>6
  <2>2. u \in Given(p, u + 1) /\ \A w \in Given(p, u + 1) : w <= u
    BY <1>1, <1>4, <1>5, <1>6
  <2> QED BY <2>1, <2>2 DEF Latest
<1>7. CASE units[u].params = 0
  <2>1. known'[p] = known[p] /\ Given(p, u + 1) = Given(p, u)
    BY <1>3, <1>4, <1>7
  <2> QED BY <2>1 DEF Latest
<1> QED BY <1>6, <1>7

\* A unit is handed on: what had been handed on stands, and what is added fits.
LEMMA Grows ==
  ASSUME DInv, NEW u \in DOMAIN units, NEW p \in DOMAIN roles, units[u].pid = p, units[u].seen, Open(u),
         \A v \in DOMAIN units : units[v].pid = p => v <= u,
         Latest(p, u, known[p]),
         NEW c \in 0..1, NEW f \in Nat, HandsOn(p, u, c, f),
         Grown, NoneComes, Closes(u), Demux!Came(u)' => f = units[u].frames, roles' = roles
  PROVE  Past'
<1> DEFINE n == Len(demuxTags)
           New == (n + c + 1)..(n + c + f)
<1>1. /\ Typed /\ Made /\ TagsOf /\ TimeLine /\ AllCounted /\ Ordered /\ DescribedWell /\ Configs
  BY DEF DInv, Past
<1>2. /\ DOMAIN demuxTags = 1..n /\ n \in Nat /\ DOMAIN units = 1..Len(units) /\ Len(units) \in Nat
      /\ \A v \in DOMAIN units : units[v] \in UnitType
      /\ \A i \in DOMAIN demuxTags : demuxTags[i] \in TagType
  BY <1>1, Sized
<1>3. /\ demuxTags' \in Seq(TagType) /\ Len(demuxTags') = n + c + f /\ (c = 1 => f > 0)
      /\ \A k \in 1..n : demuxTags'[k] = demuxTags[k]
      /\ c = 1 => /\ demuxTags'[n + 1].what = "config" /\ demuxTags'[n + 1].role = roles[p] /\ demuxTags'[n + 1].unit = u
                  /\ demuxTags'[n + 1].params = units[u].params
      /\ \A k \in 1..f : /\ demuxTags'[n + c + k].what = "frame" /\ demuxTags'[n + c + k].role = roles[p]
                         /\ demuxTags'[n + c + k].unit = u
                         /\ demuxTags'[n + c + k].ts = (Decoded(units[u]) - base'[1]) + (k - 1)
                         /\ demuxTags'[n + c + k].cts = Later(units[u])
  BY DEF HandsOn
<1>4. /\ base' \in Seq(Int) /\ base' # <<>> /\ (base # <<>> => base'[1] = base[1])
      /\ known' = [known EXCEPT ![p] = IF c = 1 THEN units[u].params ELSE @]
      /\ f > 0 => (c = 1 <=> units[u].params # 0 /\ units[u].params # known[p])
  BY DEF HandsOn
<1>5. DOMAIN demuxTags' = 1..(n + c + f) /\ \A i \in DOMAIN demuxTags' : demuxTags'[i] \in TagType
  BY <1>3, Elements
<1>6. \A i \in DOMAIN demuxTags' : \/ i \in DOMAIN demuxTags /\ demuxTags'[i] = demuxTags[i]
                                   \/ c = 1 /\ i = n + 1
                                   \/ i \in New
  BY <1>2, <1>3, <1>5
<1>7. \A i \in New : /\ i \in DOMAIN demuxTags' /\ i \notin DOMAIN demuxTags /\ i > n
                     /\ demuxTags'[i].what = "frame" /\ demuxTags'[i].role = roles[p] /\ demuxTags'[i].unit = u
                     /\ demuxTags'[i].ts = (Decoded(units[u]) - base'[1]) + (i - (n + c + 1))
                     /\ demuxTags'[i].cts = Later(units[u])
  <2> SUFFICES ASSUME NEW i \in New
               PROVE  /\ i \in DOMAIN demuxTags' /\ i \notin DOMAIN demuxTags /\ i > n
                      /\ demuxTags'[i].what = "frame" /\ demuxTags'[i].role = roles[p] /\ demuxTags'[i].unit = u
                      /\ demuxTags'[i].ts = (Decoded(units[u]) - base'[1]) + (i - (n + c + 1))
                      /\ demuxTags'[i].cts = Later(units[u])
    OBVIOUS
  <2> DEFINE k == i - (n + c)
  <2>1. k \in 1..f /\ i = n + c + k /\ k - 1 = i - (n + c + 1) /\ i > n /\ i \in 1..(n + c + f)
    BY <1>2
  <2>2. /\ demuxTags'[n + c + k].what = "frame" /\ demuxTags'[n + c + k].role = roles[p] /\ demuxTags'[n + c + k].unit = u
        /\ demuxTags'[n + c + k].ts = (Decoded(units[u]) - base'[1]) + (k - 1)
        /\ demuxTags'[n + c + k].cts = Later(units[u])
    BY <1>3, <2>1
  <2> HIDE DEF k
  <2> QED BY <1>2, <1>5, <2>1, <2>2
<1>8. Demux!Frames \subseteq DOMAIN demuxTags /\ Demux!Frames' = Demux!Frames \cup New
  <2>1. \A i \in DOMAIN demuxTags : i \in DOMAIN demuxTags' /\ demuxTags'[i] = demuxTags[i]
    BY <1>2, <1>3, <1>5
  <2>2. c = 1 => demuxTags'[n + 1].what # "frame"
    BY <1>3
  <2> HIDE DEF New
  <2> QED BY <1>6, <1>7, <2>1, <2>2 DEF Demux!Frames
<1>9. /\ DOMAIN units \subseteq DOMAIN units' /\ \A v \in DOMAIN units : units'[v] = units[v]
  BY DEF Grown
<1>10. \A i \in DOMAIN demuxTags : /\ demuxTags[i].unit \in DOMAIN units /\ units[demuxTags[i].unit].seen
                                   /\ demuxTags[i].role = roles[units[demuxTags[i].unit].pid] /\ ~Open(demuxTags[i].unit)
                                   /\ demuxTags[i].unit # u /\ units[demuxTags[i].unit].pid \in DOMAIN roles
  BY <1>1 DEF TagsOf, Made
<1>11. \A i \in DOMAIN demuxTags : i \in DOMAIN demuxTags' /\ demuxTags'[i] = demuxTags[i]
  BY <1>2, <1>3, <1>5
<1> HIDE DEF New
<1>12. TagsOf'
  <2> SUFFICES ASSUME NEW i \in DOMAIN demuxTags', NEW w, w = demuxTags'[i].unit
               PROVE  /\ w \in DOMAIN units' /\ units'[w].seen
                      /\ demuxTags'[i].role = roles[units'[w].pid] /\ ~Open(w)'
    BY DEF TagsOf, Open
  <2>1. CASE i \in DOMAIN demuxTags
    <3>1. w = demuxTags[i].unit /\ demuxTags'[i].role = demuxTags[i].role
      BY <1>11, <2>1
    <3>2. ~Open(w) /\ w \in DOMAIN units /\ units[w].seen /\ demuxTags[i].role = roles[units[w].pid]
      BY <1>10, <2>1, <3>1
    <3> QED BY <1>9, <3>1, <3>2 DEF Closes
  <2>2. CASE i \notin DOMAIN demuxTags
    <3>1. w = u /\ demuxTags'[i].role = roles[p]
      BY <1>3, <1>6, <1>7, <2>2
    <3>2. ~Open(u)'
      BY DEF Closes
    <3> QED BY <1>9, <3>1, <3>2
  <2> QED BY <2>1, <2>2
<1>13. Cardinality(New) = f /\ \A i \in New : Cardinality((n + c + 1)..(i - 1)) = i - (n + c + 1)
  <2>1. \A a, b \in Int : a <= b + 1 => Cardinality(a..b) = b - a + 1
    BY FS_Interval
  <2>2. Cardinality(New) = f
    BY <1>2, <2>1 DEF New
  <2> QED BY <1>2, <2>1, <2>2 DEF New
<1>14. TimeLine'
  <2>1. ASSUME NEW i \in Demux!Frames
        PROVE  Nth(i)' = Nth(i)
    <3>1. {m \in Demux!Frames : m < i /\ demuxTags[m].unit = demuxTags[i].unit}
          = {m \in Demux!Frames' : m < i /\ demuxTags'[m].unit = demuxTags'[i].unit}
      <4>1. i \in DOMAIN demuxTags /\ i <= n
        BY <1>2, <1>8
      <4>2. \A m \in New : ~(m < i)
        BY <1>2, <4>1 DEF New
      <4>3. \A m \in Demux!Frames : demuxTags'[m] = demuxTags[m]
        BY <1>8, <1>11
      <4> QED BY <1>8, <4>2, <4>3
    <3> QED BY <3>1 DEF Nth
  <2>2. ASSUME NEW i \in New
        PROVE  Nth(i)' = i - (n + c + 1)
    <3>1. {m \in Demux!Frames' : m < i /\ demuxTags'[m].unit = demuxTags'[i].unit} = (n + c + 1)..(i - 1)
      <4>1. \A m \in Demux!Frames : demuxTags'[m].unit # u
        BY <1>8, <1>10, <1>11
      <4>2. \A m \in New : m < i <=> m \in (n + c + 1)..(i - 1)
        BY <1>2 DEF New
      <4>3. (n + c + 1)..(i - 1) \subseteq New
        BY <1>2 DEF New
      <4> QED BY <1>7, <1>8, <4>1, <4>2, <4>3
    <3> QED BY <1>13, <3>1 DEF Nth
  <2> SUFFICES ASSUME NEW i \in Demux!Frames'
               PROVE  LET w == units'[demuxTags'[i].unit]
                      IN /\ base' # <<>> /\ Nth(i)' \in Nat
                         /\ demuxTags'[i].ts = (Decoded(w) - base'[1]) + Nth(i)' /\ demuxTags'[i].cts = Later(w)
    BY DEF TimeLine
  <2>3. CASE i \in Demux!Frames
    <3>1. demuxTags'[i] = demuxTags[i] /\ units'[demuxTags[i].unit] = units[demuxTags[i].unit]
      BY <1>8, <1>9, <1>10, <1>11, <2>3
    <3>2. LET w == units[demuxTags[i].unit]
          IN /\ base # <<>> /\ Nth(i) \in Nat
             /\ demuxTags[i].ts = (Decoded(w) - base[1]) + Nth(i) /\ demuxTags[i].cts = Later(w)
      BY <1>1, <2>3 DEF TimeLine
    <3> QED BY <1>4, <2>1, <2>3, <3>1, <3>2
  <2>4. CASE i \in New
    <3>1. i - (n + c + 1) \in Nat
      BY <1>2, <2>4 DEF New
    <3>2. units'[u] = units[u]
      BY <1>9
    <3> QED BY <1>4, <1>7, <2>2, <2>4, <3>1, <3>2
  <2> QED BY <1>8, <2>3, <2>4
<1>15. AllCounted'
  <2> SUFFICES ASSUME NEW v \in DOMAIN units', units'[v].seen, Demux!Came(v)', ~Open(v)'
               PROVE  Cardinality({i \in Demux!Frames' : demuxTags'[i].unit = v}) = units'[v].frames
    BY DEF AllCounted
  <2>1. v \in DOMAIN units /\ units'[v] = units[v]
    BY DEF Grown
  <2>2. CASE v = u
    <3>1. {i \in Demux!Frames' : demuxTags'[i].unit = u} = New
      BY <1>7, <1>8, <1>10, <1>11
    <3> QED BY <1>13, <2>1, <2>2, <3>1
  <2>3. CASE v # u
    <3>1. {i \in Demux!Frames' : demuxTags'[i].unit = v} = {i \in Demux!Frames : demuxTags[i].unit = v}
      BY <1>7, <1>8, <1>11, <2>3
    <3>2. ~Open(v)
      BY <2>1, <2>3 DEF Closes
    <3>3. Demux!Came(v)
      BY <2>1, <3>2 DEF NoneComes
    <3> QED BY <1>1, <2>1, <3>1, <3>2, <3>3 DEF AllCounted
  <2> QED BY <2>2, <2>3
<1>16. \A i \in DOMAIN demuxTags : demuxTags[i].role = roles[p] => units[demuxTags[i].unit].pid = p
  BY <1>1, <1>10, Streams
<1>17. Ordered'
  <2> SUFFICES ASSUME NEW i \in Demux!Frames', NEW j \in Demux!Frames', i < j, demuxTags'[i].role = demuxTags'[j].role
               PROVE  demuxTags'[i].unit <= demuxTags'[j].unit
    BY DEF Ordered
  <2>1. CASE i \in Demux!Frames /\ j \in Demux!Frames
    BY <1>1, <1>8, <1>11, <2>1 DEF Ordered
  <2>2. CASE i \in Demux!Frames /\ j \in New
    BY <1>7, <1>8, <1>10, <1>11, <1>16, <2>2
  <2>3. CASE i \in New /\ j \in Demux!Frames
    BY <1>2, <1>7, <1>8, <2>3 DEF New
  <2>4. CASE i \in New /\ j \in New
    BY <1>2, <1>7, <2>4
  <2> QED BY <1>8, <2>1, <2>2, <2>3, <2>4

<1>18. ASSUME NEW q \in Demux!Pids, NEW m \in 1..(Len(units) + 1)
       PROVE  Given(q, m)' = Given(q, m)
  <2>1. \A v \in DOMAIN units' : v < m => v \in DOMAIN units
    <3>1. DOMAIN units' = 1..Len(units')
      BY DEF Grown
    <3> QED BY <1>2, <3>1
  <2> QED BY <1>9, <2>1 DEF Given
<1>19. ASSUME NEW q \in Demux!Pids, NEW m \in 1..(Len(units) + 1), NEW k, Latest(q, m, k)
       PROVE  Latest(q, m, k)'
  <2>1. Given(q, m)' = Given(q, m) /\ Given(q, m) \subseteq DOMAIN units
    BY <1>18 DEF Given
  <2> QED BY <1>9, <1>19, <2>1 DEF Latest
<1>20. p \in Demux!Pids /\ u \in 1..Len(units) /\ u + 1 \in 1..(Len(units) + 1) /\ u \in Nat
       /\ units[u].params \in Nat /\ known[p] \in Nat /\ known'[p] = (IF c = 1 THEN units[u].params ELSE known[p])
       /\ \A q \in Demux!Pids \ {p} : known'[q] = known[q]
  <2>1. p \in Demux!Pids /\ known \in [Demux!Pids -> Nat]
    BY <1>1, Streams DEF Typed
  <2>2. u \in 1..Len(units) /\ u \in Nat /\ u + 1 \in 1..(Len(units) + 1)
    BY <1>2
  <2> QED BY <1>2, <1>4, <2>1, <2>2 DEF UnitType
<1>21. f > 0 => Latest(p, u + 1, known'[p])
  BY <1>1, KnownAfter
<1>22. Said(p)' = (IF c = 1 THEN Said(p) \cup {n + 1} ELSE Said(p)) /\ \A j \in Said(p) : j \in DOMAIN demuxTags /\ j <= n
  <2>1. Said(p) \subseteq DOMAIN demuxTags
    BY DEF Said
  <2>2. c = 1 => n + 1 \in DOMAIN demuxTags'
    BY <1>2, <1>3, <1>5
  <2>3. \A j \in DOMAIN demuxTags' : j \in Said(p)' <=> demuxTags'[j].what = "config" /\ demuxTags'[j].role = roles[p]
    BY DEF Said
  <2>4. \A j \in DOMAIN demuxTags : j \in Said(p) <=> demuxTags[j].what = "config" /\ demuxTags[j].role = roles[p]
    BY DEF Said
  <2>5. Said(p)' \subseteq DOMAIN demuxTags'
    BY DEF Said
  <2>6. \A j \in DOMAIN demuxTags : j \in Said(p)' <=> j \in Said(p)
    BY <1>11, <2>3, <2>4
  <2>7. \A j \in DOMAIN demuxTags' \ DOMAIN demuxTags : j \in Said(p)' <=> c = 1 /\ j = n + 1
    BY <1>3, <1>6, <1>7, <2>3, SMTT(30)
  <2>8. n + 1 \notin DOMAIN demuxTags
    BY <1>2
  <2>9. Said(p)' = (IF c = 1 THEN Said(p) \cup {n + 1} ELSE Said(p))
    <3>1. DOMAIN demuxTags \subseteq DOMAIN demuxTags'
      BY <1>11
    <3>2. CASE c = 1
      BY <2>1, <2>2, <2>5, <2>6, <2>7, <2>8, <3>1, <3>2
    <3>3. CASE c = 0
      <4>1. \A j : j \in Said(p)' <=> j \in Said(p)
        BY <2>1, <2>5, <2>6, <2>7, <3>1, <3>3
      <4>2. Said(p)' = Said(p)
        BY <4>1
      <4> QED BY <3>3, <4>2
    <3> QED BY <3>2, <3>3
  <2> QED BY <1>2, <2>1, <2>9
<1>23. SaidLast(p, known[p])
  BY <1>1 DEF Configs
<1>24. \/ Said(p)' = {} /\ known'[p] = 0
       \/ \E j \in Said(p)' : (\A m \in Said(p)' : m <= j) /\ known'[p] = demuxTags'[j].params /\ known'[p] # 0
  <2>1. CASE c = 1
    <3>1. n + 1 \in Said(p)' /\ (\A m \in Said(p)' : m <= n + 1)
      BY <1>2, <1>22, <2>1
    <3>2. demuxTags'[n + 1].params = units[u].params /\ known'[p] = units[u].params /\ units[u].params # 0
      BY <1>3, <1>4, <1>20, <2>1
    <3> QED BY <3>1, <3>2
  <2>2. CASE c = 0
    <3>1. Said(p)' = Said(p) /\ known'[p] = known[p]
      BY <1>20, <1>22, <2>2
    <3>2. \A j \in Said(p) : demuxTags'[j] = demuxTags[j]
      BY <1>11, <1>22
    <3> QED BY <1>23, <3>1, <3>2 DEF SaidLast
  <2> QED BY <2>1, <2>2
<1>25. Configs'
  <2> SUFFICES ASSUME NEW q \in DOMAIN roles, NEW k, k = known'[q] PROVE SaidLast(q, k)'
    BY DEF Configs, SaidLast
  <2>1. CASE q = p
    BY <1>24, <2>1 DEF SaidLast
  <2>2. CASE q # p
    <3>1. roles[q] # roles[p] /\ q \in Demux!Pids /\ k = known[q]
      BY <1>1, <1>20, <2>2, Streams
    <3>2. Said(q)' = Said(q) /\ Said(q) \subseteq DOMAIN demuxTags
      <4>1. Said(q)' = {j \in DOMAIN demuxTags' : demuxTags'[j].what = "config" /\ demuxTags'[j].role = roles[q]}
        BY DEF Said
      <4>2. \A j \in DOMAIN demuxTags' \ DOMAIN demuxTags : demuxTags'[j].role = roles[p]
        BY <1>3, <1>6, <1>7
      <4>3. Said(q) = {j \in DOMAIN demuxTags : demuxTags[j].what = "config" /\ demuxTags[j].role = roles[q]}
        BY DEF Said
      <4> QED BY <1>11, <3>1, <4>1, <4>2, <4>3
    <3>3. SaidLast(q, known[q])
      BY <1>1 DEF Configs
    <3>4. \A j \in Said(q) : demuxTags'[j] = demuxTags[j]
      BY <1>11, <3>2
    <3> QED BY <3>1, <3>2, <3>3, <3>4 DEF SaidLast
  <2> QED BY <2>1, <2>2
<1>26. DescribedWell'
  <2> SUFFICES ASSUME NEW i \in Demux!Frames', NEW w, w = demuxTags'[i].unit, NEW q, q = units'[w].pid
               PROVE  \/ Given(q, w + 1)' = {}
                      \/ \E j \in Before1(i)' : /\ \A m \in Before1(i)' : m <= j
                                                /\ \A k : k = demuxTags'[j].params => Latest(q, w + 1, k)'
    BY DEF DescribedWell, Latest, Given
  <2>1. CASE i \in Demux!Frames
    <3>1. /\ w = demuxTags[i].unit /\ w \in DOMAIN units /\ q = units[w].pid /\ q \in Demux!Pids
          /\ w + 1 \in 1..(Len(units) + 1) /\ i \in DOMAIN demuxTags
      BY <1>1, <1>2, <1>8, <1>9, <1>10, <1>11, <2>1, Streams
    <3>2. Before1(i)' = Before1(i) /\ Before1(i) \subseteq DOMAIN demuxTags
      <4>1. 1..i \subseteq DOMAIN demuxTags
        BY <1>2, <3>1
      <4> QED BY <1>11, <3>1, <4>1 DEF Before1
    <3>3. Given(q, w + 1)' = Given(q, w + 1)
      BY <1>18, <3>1
    <3>4. \/ Given(q, w + 1) = {}
          \/ \E j \in Before1(i) : (\A m \in Before1(i) : m <= j) /\ Latest(q, w + 1, demuxTags[j].params)
      BY <1>1, <2>1, <3>1 DEF DescribedWell
    <3>5. \A j \in Before1(i) : \A k : k = demuxTags'[j].params /\ Latest(q, w + 1, demuxTags[j].params) => Latest(q, w + 1, k)'
      BY <1>11, <1>19, <3>1, <3>2
    <3> QED BY <3>2, <3>3, <3>4, <3>5
  <2>2. CASE i \in New
    <3>1. w = u /\ q = p /\ f > 0 /\ demuxTags'[i].role = roles[p] /\ i \in DOMAIN demuxTags'
      BY <1>2, <1>7, <1>9, <2>2 DEF New
    <3>2. Before1(i)' = Said(p)'
      <4>1. \A j \in DOMAIN demuxTags' : demuxTags'[j].what = "config" => j <= i
        <5>1. \A j \in DOMAIN demuxTags' : demuxTags'[j].what = "config" => j <= n + c
          BY <1>2, <1>6, <1>7
        <5> QED BY <1>2, <1>5, <2>2, <5>1 DEF New
      <4>2. 1..i \subseteq DOMAIN demuxTags'
        BY <1>2, <1>5, <3>1
      <4>3. DOMAIN demuxTags' \subseteq Nat /\ \A j \in DOMAIN demuxTags' : j <= i => j \in 1..i
        BY <1>2, <1>5, <2>2 DEF New
      <4> QED BY <3>1, <4>1, <4>2, <4>3 DEF Before1, Said
    <3>3. \A k : k = known'[p] => Latest(p, u + 1, k)'
      BY <1>19, <1>20, <1>21, <3>1
    <3>4. CASE Said(p)' = {} /\ known'[p] = 0
      <4>1. Given(p, u + 1)' = {}
        <5>1. Latest(p, u + 1, 0)
          BY <1>21, <3>1, <3>4
        <5>2. Given(p, u + 1) = {}
          BY <5>1 DEF Latest, Given
        <5> QED BY <1>18, <1>20, <5>2
      <4> QED BY <3>1, <4>1
    <3>5. CASE \E j \in Said(p)' : (\A m \in Said(p)' : m <= j) /\ known'[p] = demuxTags'[j].params
      BY <3>1, <3>2, <3>3, <3>5
    <3> QED BY <1>24, <3>4, <3>5
  <2> QED BY <1>8, <2>1, <2>2
<1> QED BY <1>12, <1>14, <1>15, <1>17, <1>25, <1>26 DEF Past

\* Nothing is handed on.
LEMMA Stays ==
  ASSUME DInv, UNCHANGED <<demuxTags, base, known, roles>>, Grown, NoneComes,
         \A v \in DOMAIN units : Open(v)' <=> Open(v)
  PROVE  Past'
<1>1. /\ Typed /\ Made /\ TagsOf /\ TimeLine /\ AllCounted /\ Ordered /\ DescribedWell /\ Configs
  BY DEF DInv, Past
<1>2. DOMAIN units \subseteq DOMAIN units' /\ \A v \in DOMAIN units : units'[v] = units[v]
  BY DEF Grown
<1>3. \A i \in DOMAIN demuxTags : /\ demuxTags[i].unit \in DOMAIN units /\ units[demuxTags[i].unit].seen
                                  /\ demuxTags[i].role = roles[units[demuxTags[i].unit].pid] /\ ~Open(demuxTags[i].unit)
                                  /\ units[demuxTags[i].unit].pid \in DOMAIN roles
  BY <1>1 DEF TagsOf, Made
<1>4. TagsOf'
  <2> SUFFICES ASSUME NEW i \in DOMAIN demuxTags, NEW w, w = demuxTags[i].unit
               PROVE  /\ w \in DOMAIN units' /\ units'[w].seen
                      /\ demuxTags[i].role = roles[units'[w].pid] /\ ~Open(w)'
    BY DEF TagsOf, Open
  <2> QED BY <1>2, <1>3
<1>5. Demux!Frames' = Demux!Frames /\ Demux!Frames \subseteq DOMAIN demuxTags /\ \A i : Nth(i)' = Nth(i)
  BY DEF Demux!Frames, Nth
<1>6. TimeLine'
  <2> SUFFICES ASSUME NEW i \in Demux!Frames, NEW w, w = units'[demuxTags[i].unit]
               PROVE  /\ base # <<>> /\ Nth(i) \in Nat
                      /\ demuxTags[i].ts = (Decoded(w) - base[1]) + Nth(i) /\ demuxTags[i].cts = Later(w)
    BY <1>5 DEF TimeLine
  <2>1. w = units[demuxTags[i].unit]
    BY <1>2, <1>3, <1>5
  <2> QED BY <1>1, <2>1 DEF TimeLine
<1>7. AllCounted'
  <2> SUFFICES ASSUME NEW v \in DOMAIN units', units'[v].seen, Demux!Came(v)', ~Open(v)'
               PROVE  Cardinality({i \in Demux!Frames : demuxTags[i].unit = v}) = units'[v].frames
    BY <1>5 DEF AllCounted
  <2>1. v \in DOMAIN units /\ units'[v] = units[v]
    BY DEF Grown
  <2> QED BY <1>1, <2>1 DEF AllCounted, NoneComes
<1>8. Ordered'
  BY <1>1, <1>5 DEF Ordered
<1>9. /\ DOMAIN units = 1..Len(units) /\ Len(units) \in Nat
      /\ DOMAIN units' = 1..Len(units')
  BY <1>1, Sized DEF Grown
<1>10. DescribedWell'
  <2> SUFFICES ASSUME NEW i \in Demux!Frames, NEW w, w = demuxTags[i].unit, NEW q, q = units'[w].pid
               PROVE  \/ Given(q, w + 1)' = {}
                      \/ \E j \in Before1(i) : /\ \A m \in Before1(i) : m <= j
                                               /\ Latest(q, w + 1, demuxTags[j].params)'
    BY <1>5 DEF DescribedWell, Latest, Given, Before1
  <2>1. w \in DOMAIN units /\ q = units[w].pid
    BY <1>2, <1>3, <1>5
  <2>2. Given(q, w + 1)' = Given(q, w + 1) /\ Given(q, w + 1) \subseteq DOMAIN units
    BY <1>2, <1>9, <2>1 DEF Given
  <2>3. \A k : Latest(q, w + 1, k) => Latest(q, w + 1, k)'
    BY <1>2, <2>2 DEF Latest
  <2>4. \/ Given(q, w + 1) = {}
        \/ \E j \in Before1(i) : (\A m \in Before1(i) : m <= j) /\ Latest(q, w + 1, demuxTags[j].params)
    BY <1>1, <2>1 DEF DescribedWell
  <2>5. \A j : Latest(q, w + 1, demuxTags[j].params) => Latest(q, w + 1, demuxTags[j].params)'
    BY <1>2, <2>2 DEF Latest
  <2> QED BY <2>2, <2>4, <2>5
<1>11. Configs'
  <2>1. \A q, k : SaidLast(q, k)' <=> SaidLast(q, k)
    BY DEF SaidLast, Said
  <2> SUFFICES ASSUME NEW q \in DOMAIN roles PROVE SaidLast(q, known[q])
    BY DEF Configs, SaidLast, Said
  <2> QED BY <1>1 DEF Configs
<1> QED BY <1>4, <1>6, <1>7, <1>8, <1>10, <1>11 DEF Past

\* As long as the reader is there, what a stream has handed over before its newest unit is over.
LEMMA NotComing ==
  ASSUME DInv, ~flushed, NEW p \in Demux!Pids, Grown,
         \A q \in Demux!Pids : q # p => left'[q] = left[q],
         \A v \in DOMAIN units' \ DOMAIN units : units'[v].pid = p
  PROVE  NoneComes
<1> SUFFICES ASSUME NEW v \in DOMAIN units, units[v].seen, ~Open(v), Demux!Came(v)' PROVE Demux!Came(v)
  BY DEF NoneComes
<1>1. DOMAIN units \subseteq DOMAIN units' /\ \A w \in DOMAIN units : units'[w] = units[w]
  BY DEF Grown
<1>2. units[v].pid \in Demux!Pids /\ v \in Nat /\ DOMAIN units \subseteq Nat
  BY Sized DEF DInv, UnitType
<1>3. CASE units[v].pid = p
  <2>1. v \in Demux!Handed(p)
    BY <1>3 DEF Demux!Handed
  <2>2. PICK i \in DOMAIN pes : pes[i].pid = p
    BY <2>1 DEF DInv, Idle, Demux!OpenAt
  <2>3. Holds(pes[i])
    BY DEF DInv, Opened
  <2> DEFINE w == UnitOf(pes[i])
  <2>4. w \in DOMAIN units /\ units[w].pid = p /\ v <= w
    BY <1>3, <2>2, <2>3 DEF Holds
  <2>5. w # v
    BY DEF Open
  <2> HIDE DEF w
  <2>6. w > v
    BY <1>2, <2>4, <2>5
  <2> QED BY <1>3, <2>4, <2>6 DEF Demux!Came
<1>4. CASE units[v].pid # p
  <2>1. left'[units[v].pid] = left[units[v].pid] /\ units'[v] = units[v]
    BY <1>1, <1>2, <1>4
  <2>2. \/ left[units[v].pid] = 0
        \/ \E w \in DOMAIN units' : w > v /\ units'[w].pid = units[v].pid
    BY <2>1 DEF Demux!Came
  <2>3. \A w \in DOMAIN units' : units'[w].pid = units[v].pid => w \in DOMAIN units /\ units[w] = units'[w]
    BY <1>1, <1>4
  <2> QED BY <2>2, <2>3 DEF Demux!Came
<1> QED BY <1>3, <1>4

\* A step of stream p has no part in stream q.
Aside(q, p) ==
  /\ DOMAIN units \subseteq DOMAIN units' /\ \A v \in DOMAIN units : units'[v] = units[v]
  /\ DOMAIN units' = 1..Len(units')
  /\ \A v \in DOMAIN units' \ DOMAIN units : units'[v].pid = p
  /\ roles' = roles /\ last'[q] = last[q] /\ left'[q] = left[q] /\ known'[q] = known[q]
  /\ \A k \in Demux!Keys : k.pid # p => unwrap'[k] = unwrap[k]

\* An assembler of a stream that has no part in a step.
LEMMA OthersStay ==
  ASSUME Typed, NEW e, Holds(e), Ready(e), NEW p, e.pid # p, e.pid \in Demux!Pids, Aside(e.pid, p)
  PROVE  Holds(e)' /\ Ready(e)'
<1> USE DEF Aside
<1> DEFINE q == e.pid
           u == UnitOf(e)
<1>1. u \in DOMAIN units /\ units'[u] = units[u] /\ DOMAIN units = 1..Len(units) /\ Len(units) \in Nat
  BY Sized DEF Holds
<1>2. Holds(e)'
  <2>1. \A v \in DOMAIN units' : units'[v].pid = q => v \in DOMAIN units /\ units[v].pid = q
    OBVIOUS
  <2> QED BY <1>1, <2>1 DEF Holds, UnitOf
<1>3. PK(q) \in Demux!Keys /\ DK(q) \in Demux!Keys /\ PK(q).pid = q /\ DK(q).pid = q
  BY DEF PK, DK, Demux!Keys
<1>4. unwrap'[PK(q)] = unwrap[PK(q)] /\ unwrap'[DK(q)] = unwrap[DK(q)]
  BY <1>3
<1>5. Clock(q, u)'
  <2>1. Clock(q, u)
    BY DEF Ready
  <2>2. CASE FreshStream(q) /\ FirstSeen(units[u])
    BY <1>1, <1>4, <2>2 DEF Clock, FreshStream
  <2>3. ASSUME NEW v \in DOMAIN units, From(q, v), Follows(v, u) PROVE Clock(q, u)'
    <3>1. units'[v] = units[v] /\ v \in DOMAIN units'
      OBVIOUS
    <3>2. From(q, v)'
      BY <1>4, <2>3, <3>1 DEF From, PK, DK
    <3>3. Follows(v, u)'
      BY <1>1, <2>3, <3>1 DEF Follows
    <3> QED BY <3>1, <3>2, <3>3 DEF Clock
  <2> QED BY <2>1, <2>2, <2>3 DEF Clock
<1>6. ASSUME NEW k, Latest(q, u, k) PROVE Latest(q, u, k)'
  <2>1. Given(q, u)' = Given(q, u) /\ Given(q, u) \subseteq DOMAIN units
    BY <1>1 DEF Given
  <2> QED BY <1>6, <2>1 DEF Latest
<1>7. Latest(q, u, known'[q])
  BY DEF Ready
<1>8. Ready(e)'
  <2>1. ASSUME NEW k, k = known'[q] PROVE Latest(q, u, k)'
    BY <1>6, <1>7, <2>1
  <2>2. Latest(q, u, known[q])'
    BY <2>1 DEF Latest
  <2> QED BY <1>5, <2>2 DEF Ready
<1> QED BY <1>2, <1>8

LEMMA DemuxInitially == Demux!Init => DInv
<1> SUFFICES ASSUME Demux!Init PROVE DInv
  OBVIOUS
<1>1. /\ now \in FirstTimes /\ last = [p \in Demux!Pids |-> 0 - 1] /\ units = <<>> /\ left = [p \in Demux!Pids |-> 0]
      /\ patParsed = FALSE /\ pmtParsed = FALSE /\ roles = <<>> /\ pes = <<>> /\ known = [p \in Demux!Pids |-> 0]
      /\ unwrap = [k \in Demux!Keys |-> <<>>] /\ base = <<>> /\ demuxTags = <<>> /\ flushed = FALSE
  BY DEF Demux!Init
<1>2. DOMAIN units = {} /\ DOMAIN pes = {} /\ DOMAIN demuxTags = {} /\ DOMAIN roles = {}
  BY <1>1
<1>3. Typed
  <2>1. now \in Nat
    BY <1>1, ConstantsAssumption DEF Demux!Assumptions
  <2>2. \A T : <<>> \in Seq(T)
    OBVIOUS
  <2>3. last \in [Demux!Pids -> Int] /\ left \in [Demux!Pids -> Nat] /\ known \in [Demux!Pids -> Nat]
    BY <1>1
  <2>4. unwrap \in [Demux!Keys -> Seq(Seen)]
    BY <1>1, <2>2
  <2> QED BY <1>1, <2>1, <2>2, <2>3, <2>4 DEF Typed
<1>4. Made /\ Opened
  BY <1>2 DEF Made, Opened
<1>5. Idle
  <2> SUFFICES ASSUME NEW p \in Demux!Pids PROVE Demux!Handed(p) = {} /\ FreshStream(p) /\ known[p] = 0
    BY DEF Idle
  <2>1. PK(p) \in Demux!Keys /\ DK(p) \in Demux!Keys
    BY DEF PK, DK, Demux!Keys
  <2> QED BY <1>1, <1>2, <2>1 DEF Demux!Handed, FreshStream
<1>6. Past
  BY <1>2 DEF Past, TagsOf, TimeLine, AllCounted, Ordered, DescribedWell, Configs, Demux!Frames
<1> QED BY <1>3, <1>4, <1>5, <1>6 DEF DInv

LEMMA Assemblers ==
  ASSUME Typed
  PROVE  /\ DOMAIN pes = 1..Len(pes) /\ Len(pes) \in Nat
         /\ \A i \in DOMAIN pes : pes[i] \in [pid : Demux!Pids, buf : Seq(PacketPiece)]
<1> DEFINE T == [pid : Demux!Pids, buf : Seq(PacketPiece)]
<1>1. pes \in Seq(T)
  BY DEF Typed
<1> HIDE DEF T
<1>2. DOMAIN pes = 1..Len(pes) /\ Len(pes) \in Nat /\ \A i \in DOMAIN pes : pes[i] \in T
  BY <1>1, Elements
<1> QED BY <1>2 DEF T

LEMMA DemuxStutters ==
  ASSUME DInv, UNCHANGED <<now, last, units, left, pmtParsed, roles, pes, known, unwrap, base, demuxTags>>,
         flushed' \in {flushed, TRUE}
  PROVE  DInv'
<1>1. Typed'
  BY DEF DInv, Typed
<1>2. Made'
  BY DEF DInv, Made
<1>3. Opened'
  <2>1. \A i \in DOMAIN pes : Holds(pes[i])'
    BY DEF DInv, Opened, Holds, UnitOf
  <2>2. \A i \in DOMAIN pes : Ready(pes[i])'
    BY ZenonT(60) DEF DInv, Opened, Ready, Clock, FreshStream, From, Follows, Latest, Given, UnitOf
  <2> QED BY <2>1, <2>2 DEF DInv, Opened
<1>4. Idle'
  BY DEF DInv, Typed, Idle, Demux!OpenAt, Demux!Handed, FreshStream
<1>5. Grown
  BY DEF DInv, Typed, Grown
<1>6. NoneComes
  BY DEF NoneComes, Demux!Came
<1>7. \A v \in DOMAIN units : Open(v)' <=> Open(v)
  BY DEF Open, UnitOf
<1>8. Past'
  BY <1>5, <1>6, <1>7, Stays
<1> QED BY <1>1, <1>2, <1>3, <1>4, <1>8 DEF DInv

LEMMA PATKeeps == ASSUME DInv, Demux!FeedPAT PROVE DInv'
BY DemuxStutters DEF Demux!FeedPAT, Demux!producer

LEMMA PMTKeeps == ASSUME DInv, Demux!FeedPMT PROVE DInv'
<1>1. /\ ~pmtParsed /\ ~flushed /\ pmtParsed' = TRUE /\ roles' = Demux!Roles
      /\ UNCHANGED <<now, last, units, left, pes, known, unwrap, base, demuxTags, flushed>>
  BY DEF Demux!FeedPMT, Demux!producer
<1>2. DOMAIN roles = {}
  BY <1>1 DEF DInv, Typed
<1>3. DOMAIN pes = {}
  BY <1>2 DEF DInv, Opened, Holds
<1>4. \A u \in DOMAIN units : ~units[u].seen
  BY <1>2 DEF DInv, Made
<1>5. DOMAIN demuxTags = {}
  BY <1>4 DEF DInv, Past, TagsOf
<1>6. \A p \in Demux!Pids : known[p] = 0
  BY <1>1, <1>3 DEF DInv, Idle, Demux!OpenAt
<1>7. Typed'
  BY <1>1 DEF DInv, Typed
<1>8. Made'
  BY <1>1, <1>4 DEF DInv, Made
<1>9. Opened'
  BY <1>1, <1>3 DEF Opened
<1>10. Idle'
  BY <1>1 DEF DInv, Idle, Demux!OpenAt, Demux!Handed, FreshStream
<1>11. Past'
  <2>1. TagsOf' /\ TimeLine' /\ AllCounted' /\ Ordered' /\ DescribedWell'
    BY <1>1, <1>4, <1>5 DEF TagsOf, TimeLine, AllCounted, Ordered, DescribedWell, Demux!Frames
  <2>2. Configs'
    BY <1>1, <1>5, <1>6, RolesApart DEF Configs, SaidLast, Said
  <2> QED BY <2>1, <2>2 DEF Past
<1> QED BY <1>7, <1>8, <1>9, <1>10, <1>11 DEF DInv

\* Another packet of a unit that is being put together.
LEMMA ContinueKeeps == ASSUME DInv, NEW p \in Demux!Pids, Demux!UnitContinues(p) PROVE DInv'
<1> DEFINE u == CHOOSE u \in DOMAIN units :
                  /\ units[u].pid = p
                  /\ \A v \in DOMAIN units : units[v].pid = p => v <= u
           piece == [unit |-> u, first |-> FALSE]
<1>1. /\ ~flushed /\ left[p] > 0 /\ left' = [left EXCEPT ![p] = @ - 1]
      /\ UNCHANGED <<now, last, units, patParsed, pmtParsed, roles, flushed>>
      /\ Demux!FeedPacket(p, piece)
  BY DEF Demux!UnitContinues, Demux!tables
<1>2. Typed /\ Made /\ Opened /\ Idle
  BY DEF DInv
<1>3. UNCHANGED <<unwrap, base, known, demuxTags>>
  BY <1>1 DEF Demux!FeedPacket, Demux!ContinuePES, Demux!Keep
<1>4. left' \in [Demux!Pids -> Nat] /\ left'[p] = left[p] - 1 /\ \A q \in Demux!Pids : q # p => left'[q] = left[q]
  BY <1>1, <1>2 DEF Typed
<1>5. Grown
  BY <1>1, <1>2 DEF Grown, Typed
<1>6. NoneComes
  BY <1>1, <1>4, <1>5, NotComing
<1>7. DOMAIN pes' = DOMAIN pes /\ \A i \in DOMAIN pes :
        pes'[i] = IF pes[i].pid = p THEN [pes[i] EXCEPT !.buf = Append(@, piece)] ELSE pes[i]
  <2>1. CASE p \in DOMAIN roles
    <3>1. ~piece.first
      OBVIOUS
    <3> HIDE DEF piece
    <3>2. pes' = [i \in DOMAIN pes |->
                    IF pes[i].pid = p THEN [pes[i] EXCEPT !.buf = Append(@, piece)] ELSE pes[i]]
      BY <1>1, <2>1, <3>1 DEF Demux!FeedPacket, Demux!ContinuePES
    <3> QED BY <3>2
  <2>2. CASE p \notin DOMAIN roles
    <3>1. pes' = pes
      BY <1>1, <2>2 DEF Demux!FeedPacket
    <3>2. \A i \in DOMAIN pes : pes[i].pid # p
      BY <1>2, <2>2 DEF Opened, Holds
    <3> QED BY <3>1, <3>2
  <2> QED BY <2>1, <2>2
<1>8. /\ DOMAIN pes = 1..Len(pes) /\ Len(pes) \in Nat
      /\ \A i \in DOMAIN pes : pes[i] \in [pid : Demux!Pids, buf : Seq(PacketPiece)]
  BY <1>2, Assemblers
<1>9. ASSUME NEW i \in DOMAIN pes, pes[i].pid = p
      PROVE  /\ u = UnitOf(pes[i]) /\ piece \in PacketPiece
  <2>1. Holds(pes[i])
    BY <1>2 DEF Opened
  <2>2. DOMAIN units \subseteq Nat
    BY <1>2, Sized
  <2>3. \A w \in DOMAIN units : (units[w].pid = p /\ \A v \in DOMAIN units : units[v].pid = p => v <= w)
                                  => w = UnitOf(pes[i])
    BY <1>9, <2>1, <2>2 DEF Holds
  <2>4. /\ UnitOf(pes[i]) \in DOMAIN units /\ units[UnitOf(pes[i])].pid = p
        /\ \A v \in DOMAIN units : units[v].pid = p => v <= UnitOf(pes[i])
    BY <1>9, <2>1 DEF Holds
  <2>5. u = UnitOf(pes[i])
    BY <2>3, <2>4
  <2>6. u \in Nat
    BY <2>2, <2>4, <2>5
  <2> HIDE DEF u
  <2> QED BY <2>5, <2>6 DEF PacketPiece
<1> HIDE DEF u, piece
<1>10. ASSUME NEW i \in DOMAIN pes, pes[i].pid = p
       PROVE  /\ pes'[i].pid = p /\ pes'[i].buf \in Seq(PacketPiece) /\ pes'[i] = [pid |-> p, buf |-> pes'[i].buf]
              /\ Len(pes'[i].buf) = Len(pes[i].buf) + 1
              /\ \A k \in DOMAIN pes[i].buf : pes'[i].buf[k] = pes[i].buf[k]
              /\ pes'[i].buf[Len(pes[i].buf) + 1] = piece
              /\ DOMAIN pes'[i].buf = 1..(Len(pes[i].buf) + 1)
              /\ DOMAIN pes[i].buf = 1..Len(pes[i].buf) /\ Len(pes[i].buf) \in Nat
  <2> DEFINE b == pes[i].buf
  <2>1. pes'[i] = [pes[i] EXCEPT !.buf = Append(b, piece)]
    BY <1>7, <1>10
  <2>2. b \in Seq(PacketPiece) /\ piece \in PacketPiece
    BY <1>8, <1>9, <1>10
  <2>3. pes'[i].pid = p /\ pes'[i].buf = Append(b, piece) /\ pes'[i] = [pid |-> p, buf |-> Append(b, piece)]
    BY <1>8, <1>10, <2>1
  <2> HIDE DEF b
  <2>4. /\ Append(b, piece) \in Seq(PacketPiece) /\ Len(Append(b, piece)) = Len(b) + 1
        /\ \A k \in DOMAIN b : Append(b, piece)[k] = b[k]
        /\ Append(b, piece)[Len(b) + 1] = piece /\ DOMAIN Append(b, piece) = 1..(Len(b) + 1)
        /\ DOMAIN b = 1..Len(b) /\ Len(b) \in Nat
    BY <2>2
  <2> QED BY <2>3, <2>4 DEF b
<1>11. ASSUME NEW i \in DOMAIN pes
       PROVE  pes'[i].pid = pes[i].pid /\ UnitOf(pes'[i]) = UnitOf(pes[i])
  <2>1. CASE pes[i].pid = p
    <3>1. 1 \in DOMAIN pes[i].buf
      BY <1>2, <1>10, <2>1 DEF Opened, Holds
    <3> QED BY <1>10, <2>1, <3>1 DEF UnitOf
  <2>2. CASE pes[i].pid # p
    BY <1>7, <2>2
  <2> QED BY <2>1, <2>2
<1>12. Typed'
  <2>1. \A i \in DOMAIN pes : pes'[i] \in [pid : Demux!Pids, buf : Seq(PacketPiece)]
    BY <1>7, <1>8, <1>10
  <2>2. pes' \in [1..Len(pes) -> [pid : Demux!Pids, buf : Seq(PacketPiece)]]
    <3>1. CASE p \in DOMAIN roles
      <4>1. pes' = [i \in DOMAIN pes |->
                      IF pes[i].pid = p THEN [pes[i] EXCEPT !.buf = Append(@, piece)] ELSE pes[i]]
        BY <1>1, <3>1 DEF Demux!FeedPacket, Demux!ContinuePES, piece
      <4>2. pes' = [i \in DOMAIN pes |-> pes'[i]]
        BY <4>1
      <4> QED BY <1>8, <2>1, <4>2
    <3>2. CASE p \notin DOMAIN roles
      <4>1. pes' = pes
        BY <1>1, <3>2 DEF Demux!FeedPacket
      <4>2. pes = [i \in DOMAIN pes |-> pes[i]]
        BY <1>2 DEF Typed
      <4> QED BY <1>8, <4>1, <4>2
    <3> QED BY <3>1, <3>2
  <2>3. pes' \in Seq([pid : Demux!Pids, buf : Seq(PacketPiece)])
    BY <1>8, <2>2, Blocks
  <2> QED BY <1>1, <1>2, <1>3, <1>4, <2>3 DEF Typed
<1>13. Made'
  BY <1>1, <1>2 DEF Made
<1>14. ASSUME NEW i \in DOMAIN pes, NEW e, e = pes'[i]
       PROVE  Holds(e)' /\ Ready(e)'
  <2>1. Holds(pes[i]) /\ Ready(pes[i])
    BY <1>2 DEF Opened
  <2>2. e.pid = pes[i].pid /\ UnitOf(e) = UnitOf(pes[i])
    BY <1>11, <1>14
  <2>3. Ready(e)'
    BY <1>1, <1>3, <2>1, <2>2 DEF Ready, Clock, FreshStream, From, Follows, Latest, Given, UnitOf
  <2>4. CASE pes[i].pid = p
    <3> DEFINE b == pes[i].buf
               m == Len(b)
    <3>4. /\ Len(e.buf) = m + 1 /\ DOMAIN e.buf = 1..(m + 1) /\ DOMAIN b = 1..m /\ m \in Nat
          /\ \A k \in DOMAIN b : e.buf[k] = b[k]
          /\ e.buf[m + 1] = piece
      BY <1>10, <1>14, <2>4
    <3>1. /\ Len(e.buf) > 0 /\ e.buf[1].first /\ \A k \in DOMAIN e.buf : e.buf[k].unit = UnitOf(e)
      <4>1. 1 \in DOMAIN pes[i].buf /\ pes[i].buf[1].first
            /\ \A k \in DOMAIN pes[i].buf : pes[i].buf[k].unit = UnitOf(pes[i])
        BY <1>10, <2>1, <2>4 DEF Holds
      <4>2. piece.unit = UnitOf(pes[i])
        BY <1>9, <2>4 DEF piece
      <4>3. \A k \in DOMAIN e.buf : k \in DOMAIN b \/ k = m + 1
        <5> HIDE DEF m, b
        <5> QED BY <3>4
      <4> HIDE DEF m, b
      <4>4. Len(e.buf) > 0
        BY <3>4
      <4>5. e.buf[1].first
        BY <3>4, <4>1 DEF b
      <4>6. ASSUME NEW k \in DOMAIN e.buf PROVE e.buf[k].unit = UnitOf(e)
        <5>1. CASE k \in DOMAIN b
          BY <2>2, <3>4, <4>1, <5>1 DEF b
        <5>2. CASE k = m + 1
          BY <2>2, <3>4, <4>2, <5>2
        <5> QED BY <4>3, <5>1, <5>2 DEF b
      <4> QED BY <4>4, <4>5, <4>6
    <3>2. Len(e.buf) + left'[p] = Len(pes[i].buf) + left[p]
      <4>1. Len(e.buf) = Len(pes[i].buf) + 1 /\ Len(pes[i].buf) \in Nat /\ left[p] \in Nat
        BY <1>2, <3>4 DEF Typed
      <4>2. left'[p] = left[p] - 1
        BY <1>4
      <4> QED BY <4>1, <4>2, OneMore
    <3> QED BY <1>1, <2>1, <2>2, <2>3, <2>4, <3>1, <3>2 DEF Holds, UnitOf
  <2>5. CASE pes[i].pid # p
    <3>1. e = pes[i] /\ e.pid \in Demux!Pids
      BY <1>7, <1>8, <1>14, <2>5
    <3>2. left'[e.pid] = left[e.pid]
      BY <1>4, <2>5, <3>1
    <3> QED BY <1>1, <2>1, <2>3, <3>1, <3>2 DEF Holds, UnitOf
  <2> QED BY <2>4, <2>5
<1>15. Opened'
  <2>1. \A i \in DOMAIN pes : \A e : e = pes'[i] => Holds(e)' /\ Ready(e)'
    BY <1>14
  <2>2. \A i, j \in DOMAIN pes' : pes'[i].pid = pes'[j].pid => i = j
    BY <1>2, <1>7, <1>11 DEF Opened
  <2>3. \A i \in DOMAIN pes' : (Holds(pes[i]) /\ Ready(pes[i]))'
    <3> SUFFICES ASSUME NEW i \in DOMAIN pes' PROVE (Holds(pes[i]) /\ Ready(pes[i]))'
      OBVIOUS
    <3>1. PICK x : x = pes'[i]
      OBVIOUS
    <3>2. Holds(x)' /\ Ready(x)'
      BY <1>7, <2>1, <3>1
    <3>3. Holds(pes[i])'
      BY <3>1, <3>2 DEF Holds, UnitOf
    <3>4. Ready(pes[i])'
      BY <3>1, <3>2 DEF Ready, Clock, FreshStream, From, Follows, Latest, Given, UnitOf
    <3> QED BY <3>3, <3>4
  <2> QED BY <2>2, <2>3 DEF Opened
<1>16. Idle'
  <2> SUFFICES ASSUME NEW q \in Demux!Pids, Demux!OpenAt(q)' = {} PROVE (Demux!Handed(q) = {} /\ FreshStream(q) /\ known[q] = 0)'
    BY DEF Idle
  <2>1. Demux!OpenAt(q) = {}
    BY <1>7, <1>11 DEF Demux!OpenAt
  <2> QED BY <1>1, <1>2, <1>3, <2>1 DEF Idle, Demux!Handed, FreshStream
<1>17. \A v \in DOMAIN units : Open(v)' <=> Open(v)
  BY <1>7, <1>11 DEF Open
<1>18. Past'
  BY <1>1, <1>3, <1>5, <1>6, <1>17, Stays
<1> QED BY <1>12, <1>13, <1>15, <1>16, <1>18 DEF DInv
\* What the assemblers of the next state are known by.
LEMMA AllOpened ==
  ASSUME \A k \in DOMAIN pes' : \A e : e = pes'[k] => Holds(e)' /\ Ready(e)',
         \A k, l \in DOMAIN pes' : pes'[k].pid = pes'[l].pid => k = l
  PROVE  Opened'
<1>1. \A k \in DOMAIN pes' : Holds(pes[k])'
  BY DEF Holds, UnitOf
<1>2. \A k \in DOMAIN pes' : Ready(pes[k])'
  BY DEF Ready, Clock, FreshStream, From, Follows, Latest, Given, UnitOf
<1> QED BY <1>1, <1>2 DEF Opened

\* Unit n of the producer, of stream p, begins.
Begun(p, n) ==
  /\ ~flushed /\ left[p] = 0 /\ n = Len(units) + 1
  /\ now' \in Nat /\ last' \in [Demux!Pids -> Int] /\ last'[p] = units'[n].dts /\ last[p] < units'[n].dts
  /\ left' \in [Demux!Pids -> Nat] /\ 1 + left'[p] = units'[n].packets
  /\ \A q \in Demux!Pids : q # p => last'[q] = last[q] /\ left'[q] = left[q]
  /\ units' \in Seq(UnitType) /\ DOMAIN units' = 1..n /\ Len(units') = n
  /\ \A v \in DOMAIN units : v \in DOMAIN units' /\ v < n /\ units'[v] = units[v]
  /\ \A v \in DOMAIN units' : v \in DOMAIN units \/ v = n
  /\ units'[n].pid = p /\ units'[n].seen = (p \in DOMAIN roles)
  /\ units'[n].dts <= units'[n].pts /\ units'[n].pts - units'[n].dts <= Wrap \div 2
  /\ Demux!Video(p) => units'[n].frames = 1
  /\ Listed[Demux!TypeOf(p)].type = "aac" => units'[n].pts = units'[n].dts /\ units'[n].since.p = units'[n].since.d
  /\ Demux!Handed(p) = {} => FirstSeen(units'[n])
  /\ \A v \in Demux!Handed(p) : units'[n].since = units[v].since
  /\ last[p] >= 0 => units'[n].pts - last[p] <= Wrap \div 2

LEMMA StreamBegins == ASSUME DInv, NEW p \in Demux!Pids, Demux!ProducerBegins(p) PROVE Begun(p, Len(units) + 1)
<1> DEFINE n == Len(units) + 1
<1>1. Demux!TypeOf(p) \in DOMAIN Listed /\ Listed[Demux!TypeOf(p)].type \in Demux!Types
  <2>1. PICK i \in DOMAIN Listed : p = Listed[i].pid
    BY DEF Demux!Pids
  <2> QED BY <2>1, Typing
<1>2. PICK shape \in Shapes[Listed[Demux!TypeOf(p)].type] :
        /\ last[p] >= 0 => now' + shape.later - last[p] <= Wrap \div 2
        /\ units' = Append(units, [pid |-> p, pts |-> now' + shape.later, dts |-> now', params |-> shape.params,
                                   frames |-> shape.frames, packets |-> shape.packets,
                                   seen |-> p \in DOMAIN roles,
                                   since |-> Demux!Since(p, now' + shape.later, now')])
        /\ left' = [left EXCEPT ![p] = shape.packets - 1]
  BY DEF Demux!ProducerBegins
<1>3. /\ shape \in Demux!Shape
      /\ Listed[Demux!TypeOf(p)].type = "h264" => shape.frames = 1
      /\ Listed[Demux!TypeOf(p)].type = "aac" => shape.later = 0
  BY <1>1, <1>2, ConstantsAssumption DEF Demux!Assumptions
<1>4. now' \in Nat /\ now' > last[p] /\ last' = [last EXCEPT ![p] = now'] /\ ~flushed /\ left[p] = 0
  <2>1. now \in Nat /\ Steps \subseteq Nat
    BY ConstantsAssumption DEF DInv, Typed, Demux!Assumptions
  <2> QED BY <2>1 DEF Demux!ProducerBegins
<1> PICK since : since = Demux!Since(p, now' + shape.later, now')
  OBVIOUS
<1> DEFINE u == [pid |-> p, pts |-> now' + shape.later, dts |-> now', params |-> shape.params,
                 frames |-> shape.frames, packets |-> shape.packets, seen |-> p \in DOMAIN roles, since |-> since]
<1>5. /\ shape.later \in Nat /\ shape.later <= Wrap \div 2 /\ shape.params \in Nat
      /\ shape.frames \in Nat \ {0} /\ shape.packets \in Nat \ {0}
  <2>1. Wrap \div 2 \in Nat
    BY ConstantsAssumption, Halves DEF Demux!Assumptions
  <2> QED BY <1>3, <2>1 DEF Demux!Shape
<1>12. /\ since \in [p : Int, d : Int] /\ \A v \in Demux!Handed(p) : since = units[v].since
       /\ Demux!Handed(p) = {} => since = [p |-> (now' + shape.later) - ((now' + shape.later) % Wrap), d |-> now' - (now' % Wrap)]
       /\ Listed[Demux!TypeOf(p)].type = "aac" => since.p = since.d
  <2>1. CASE Demux!Handed(p) = {}
    <3>1. since = [p |-> (now' + shape.later) - ((now' + shape.later) % Wrap), d |-> now' - (now' % Wrap)]
      BY <2>1 DEF Demux!Since
    <3>2. now' + shape.later \in Int /\ now' \in Int
      BY <1>4, <1>5
    <3>3. Wrap \in Nat /\ Wrap > 0
      BY ConstantsAssumption DEF Demux!Assumptions
    <3>4. (now' + shape.later) % Wrap \in Int /\ now' % Wrap \in Int
      BY <3>2, <3>3, Divided
    <3>5. (now' + shape.later) - ((now' + shape.later) % Wrap) \in Int /\ now' - (now' % Wrap) \in Int
      BY <3>2, <3>4
    <3>6. Listed[Demux!TypeOf(p)].type = "aac" => now' + shape.later = now'
      BY <1>3, <1>4, <1>5
    <3> QED BY <2>1, <3>1, <3>5, <3>6
  <2>2. CASE Demux!Handed(p) # {}
    <3>1. PICK w \in Demux!Handed(p) : since = units[w].since
      BY <2>2 DEF Demux!Since
    <3>2. w \in DOMAIN units /\ units[w].seen /\ units[w].pid = p
      BY DEF Demux!Handed
    <3>3. \A v \in Demux!Handed(p) : units[v].since = units[w].since
      BY <3>2 DEF Demux!Handed, DInv, Made
    <3>4. units[w] \in UnitType
      BY <3>2, Elements DEF DInv, Typed
    <3>5. Listed[Demux!TypeOf(p)].type = "aac" => units[w].since.p = units[w].since.d
      BY <3>2 DEF DInv, Made
    <3> QED BY <2>2, <3>1, <3>3, <3>4, <3>5 DEF UnitType
  <2> QED BY <2>1, <2>2
<1>6. /\ u \in UnitType /\ u.pid = p /\ u.dts = now' /\ u.pts = now' + shape.later /\ u.frames = shape.frames
      /\ u.packets = shape.packets /\ u.seen = (p \in DOMAIN roles) /\ u.since = since
  <2>1. now' + shape.later \in Nat
    BY <1>4, <1>5
  <2> QED BY <1>4, <1>5, <1>12, <2>1 DEF UnitType
<1>7. /\ units' \in Seq(UnitType) /\ Len(units') = n /\ DOMAIN units' = 1..n /\ units'[n] = u
      /\ \A v \in DOMAIN units : v \in DOMAIN units' /\ v < n /\ units'[v] = units[v]
      /\ \A v \in DOMAIN units' : v \in DOMAIN units \/ v = n
  <2>1. units \in Seq(UnitType)
    BY DEF DInv, Typed
  <2>2. units' = Append(units, u)
    BY <1>2
  <2> HIDE DEF u
  <2> QED BY <1>6, <2>1, <2>2
<1>8. /\ last' \in [Demux!Pids -> Int] /\ last'[p] = now' /\ left' \in [Demux!Pids -> Nat] /\ left'[p] = shape.packets - 1
      /\ \A q \in Demux!Pids : q # p => last'[q] = last[q] /\ left'[q] = left[q]
  <2>1. last \in [Demux!Pids -> Int] /\ left \in [Demux!Pids -> Nat]
    BY DEF DInv, Typed
  <2>2. shape.packets - 1 \in Nat
    BY <1>5
  <2> QED BY <1>2, <1>4, <2>1, <2>2
<1>9. /\ u.dts <= u.pts /\ u.pts - u.dts <= Wrap \div 2 /\ 1 + left'[p] = u.packets
      /\ Listed[Demux!TypeOf(p)].type = "aac" => u.pts = u.dts /\ u.since.p = u.since.d
  <2>1. Wrap \div 2 \in Nat
    BY ConstantsAssumption, Halves DEF Demux!Assumptions
  <2> HIDE DEF u
  <2> QED BY <1>3, <1>4, <1>5, <1>6, <1>8, <1>12, <2>1
<1>10. Demux!Video(p) => u.frames = 1
  BY <1>3, <1>6 DEF Demux!Video
<1>11. /\ Demux!Handed(p) = {} => FirstSeen(u)
       /\ \A v \in Demux!Handed(p) : u.since = units[v].since
       /\ last[p] >= 0 => u.pts - last[p] <= Wrap \div 2
  <2>1. u.pts = now' + shape.later /\ u.dts = now' /\ u.since = since
    BY <1>6
  <2>2. last[p] >= 0 => now' + shape.later - last[p] <= Wrap \div 2
    BY <1>2
  <2> HIDE DEF u
  <2>3. last[p] >= 0 => u.pts - last[p] <= Wrap \div 2
    <3>1. now' \in Int /\ shape.later \in Int /\ last[p] \in Int
      BY <1>4, <1>5 DEF DInv, Typed
    <3> QED BY <2>1, <2>2, <3>1
  <2>4. (Demux!Handed(p) = {} => FirstSeen(u)) /\ \A v \in Demux!Handed(p) : u.since = units[v].since
    BY <1>12, <2>1 DEF FirstSeen
  <2> QED BY <2>3, <2>4
<1> HIDE DEF u
<1> QED BY <1>4, <1>6, <1>7, <1>8, <1>9, <1>10, <1>11 DEF Begun

LEMMA BegunMakes ==
  ASSUME DInv, NEW p \in Demux!Pids, NEW n, Begun(p, n), roles' = roles
  PROVE  Made'
<1>1. Typed /\ Made
  BY DEF DInv
<1> SUFFICES ASSUME NEW v \in DOMAIN units', NEW x, x = units'[v]
             PROVE  /\ x.dts <= x.pts /\ x.pts - x.dts <= Wrap \div 2
                    /\ x.seen => x.pid \in DOMAIN roles
                    /\ Demux!Video(x.pid) => x.frames = 1
                    /\ Listed[Demux!TypeOf(x.pid)].type = "aac" => x.pts = x.dts /\ x.since.p = x.since.d
                    /\ \A w \in DOMAIN units' : \A y : y = units'[w] /\ x.seen /\ y.seen /\ y.pid = x.pid => y.since = x.since
  BY DEF Made, Demux!Video
<1>4. \A w \in DOMAIN units' : (w \in DOMAIN units /\ units'[w] = units[w]) \/ w = n
  BY DEF Begun
<1>5. units'[n].pid = p /\ \A w \in DOMAIN units : units[w].pid = p /\ units[w].seen => units'[n].since = units[w].since
  BY DEF Begun, Demux!Handed
<1>6. ASSUME NEW w \in DOMAIN units', NEW y, y = units'[w], x.seen, y.seen, y.pid = x.pid PROVE y.since = x.since
  <2>1. CASE v \in DOMAIN units /\ w \in DOMAIN units
    BY <1>1, <1>6, <2>1 DEF Made, Begun
  <2>2. CASE v = n /\ w = n
    BY <1>6, <2>2
  <2>3. CASE v = n /\ w \in DOMAIN units
    <3>1. y = units[w]
      BY <1>6, <2>3 DEF Begun
    <3> QED BY <1>5, <1>6, <2>3, <3>1
  <2>4. CASE v \in DOMAIN units /\ w = n
    <3>1. x = units[v]
      BY <2>4 DEF Begun
    <3> QED BY <1>5, <1>6, <2>4, <3>1
  <2> QED BY <1>4, <2>1, <2>2, <2>3, <2>4
<1>2. CASE v \in DOMAIN units
  <2>1. x = units[v]
    BY <1>2 DEF Begun
  <2> QED BY <1>1, <1>2, <1>6, <2>1 DEF Made
<1>3. CASE v = n
  BY <1>3, <1>6, ZenonT(60) DEF Begun
<1> QED BY <1>2, <1>3 DEF Begun

\* The assembler of a unit that begins.
LEMMA BegunHolds ==
  ASSUME DInv, NEW p \in DOMAIN roles, NEW n \in Nat, Begun(p, n), roles' = roles,
         NEW e, e = [pid |-> p, buf |-> <<[unit |-> n, first |-> TRUE]>>]
  PROVE  Holds(e)' /\ UnitOf(e) = n /\ e.pid = p
<1>1. /\ e.pid = p /\ Len(e.buf) = 1 /\ DOMAIN e.buf = {1} /\ e.buf[1].unit = n /\ e.buf[1].first
  OBVIOUS
<1>2. UnitOf(e) = n
  BY <1>1 DEF UnitOf
<1>3. n \in DOMAIN units' /\ \A v \in DOMAIN units' : v <= n
  <2>1. DOMAIN units' = 1..n /\ n >= 1
    BY Sized DEF Begun, DInv
  <2> QED BY <2>1
<1>4. /\ units'[n].pid = p /\ units'[n].seen /\ last'[p] = units'[n].dts /\ 1 + left'[p] = units'[n].packets
  BY DEF Begun
<1> QED BY <1>1, <1>2, <1>3, <1>4 DEF Holds, UnitOf

LEMMA BegunOthers ==
  ASSUME DInv, NEW p \in Demux!Pids, NEW n, Begun(p, n), roles' = roles,
         \A q \in Demux!Pids : q # p => known'[q] = known[q],
         \A k \in Demux!Keys : k.pid # p => unwrap'[k] = unwrap[k],
         NEW i \in DOMAIN pes, NEW e, e = pes[i], e.pid # p
  PROVE  Holds(e)' /\ Ready(e)'
<1>1. Typed /\ Holds(e) /\ Ready(e)
  BY DEF DInv, Opened
<1>2. e.pid \in Demux!Pids
  BY <1>1, Streams DEF Holds
<1>3. /\ DOMAIN units \subseteq DOMAIN units' /\ \A v \in DOMAIN units : units'[v] = units[v]
      /\ DOMAIN units' = 1..Len(units')
      /\ \A v \in DOMAIN units' \ DOMAIN units : units'[v].pid = p
      /\ last'[e.pid] = last[e.pid] /\ left'[e.pid] = left[e.pid]
  BY <1>2 DEF Begun
<1>4. known'[e.pid] = known[e.pid]
  BY <1>2
<1>5. Aside(e.pid, p)
  BY <1>3, <1>4 DEF Aside
<1> QED BY <1>1, <1>2, <1>5, OthersStay

LEMMA BegunNotComing == ASSUME DInv, NEW p \in Demux!Pids, NEW n, Begun(p, n), Grown PROVE NoneComes
<1>1. /\ ~flushed /\ \A q \in Demux!Pids : q # p => left'[q] = left[q]
      /\ \A v \in DOMAIN units' \ DOMAIN units : units'[v].pid = p
  BY DEF Begun
<1> QED BY <1>1, NotComing

LEMMA BegunIdle ==
  ASSUME DInv, NEW p \in Demux!Pids, NEW n, Begun(p, n), roles' = roles,
         \A q \in Demux!Pids : q # p => known'[q] = known[q],
         \A k \in Demux!Keys : k.pid # p => unwrap'[k] = unwrap[k],
         \A q \in Demux!Pids : q # p /\ Demux!OpenAt(q)' = {} => Demux!OpenAt(q) = {},
         p \in DOMAIN roles => Demux!OpenAt(p)' # {},
         p \notin DOMAIN roles => known' = known /\ unwrap' = unwrap
  PROVE  Idle'
<1> SUFFICES ASSUME NEW q \in Demux!Pids, Demux!OpenAt(q)' = {}
             PROVE  Demux!Handed(q)' = {} /\ FreshStream(q)' /\ known'[q] = 0
  BY DEF Idle
<1>1. Demux!OpenAt(q) = {}
  <2>1. CASE q = p
    BY <2>1 DEF DInv, Opened, Holds, Demux!OpenAt
  <2> QED BY <2>1
<1>2. Demux!Handed(q) = {} /\ FreshStream(q) /\ known[q] = 0
  BY <1>1 DEF DInv, Idle, Begun
<1>3. PK(q) \in Demux!Keys /\ DK(q) \in Demux!Keys /\ PK(q).pid = q /\ DK(q).pid = q
  BY DEF PK, DK, Demux!Keys
<1>4. unwrap'[PK(q)] = unwrap[PK(q)] /\ unwrap'[DK(q)] = unwrap[DK(q)] /\ known'[q] = known[q]
  BY <1>3
<1>5. \A v \in DOMAIN units' : ~(units'[v].pid = q /\ units'[v].seen)
  <2> SUFFICES ASSUME NEW v \in DOMAIN units' PROVE ~(units'[v].pid = q /\ units'[v].seen)
    OBVIOUS
  <2>1. CASE v \in DOMAIN units
    <3>1. units'[v] = units[v]
      BY <2>1 DEF Begun
    <3> QED BY <1>2, <2>1, <3>1 DEF Demux!Handed
  <2>2. CASE v = n
    <3>1. units'[v].pid = p /\ units'[v].seen = (p \in DOMAIN roles)
      BY <2>2 DEF Begun
    <3> QED BY <3>1
  <2> QED BY <2>1, <2>2 DEF Begun
<1> QED BY <1>2, <1>4, <1>5 DEF Demux!Handed, FreshStream

\* One assembler goes, and one comes at the end.
Swapped(T, t, s, i, x) ==
  /\ t \in Seq(T) /\ Len(t) = Len(s) /\ t[Len(s)] = x
  /\ \A k \in 1..(Len(s) - 1) : t[k] = IF k < i THEN s[k] ELSE s[k + 1]

LEMMA Swaps ==
  ASSUME NEW T, NEW s \in Seq(T), NEW i \in DOMAIN s, NEW x \in T
  PROVE  Swapped(T, Append(Demux!RemoveAt(s, i), x), s, i, x)
<1> DEFINE a == SubSeq(s, 1, i - 1)
           b == SubSeq(s, i + 1, Len(s))
           r == a \o b
<1>1. i \in 1..Len(s) /\ Len(s) \in Nat
  OBVIOUS
<1>2. a \in Seq(T) /\ Len(a) = i - 1 /\ \A k \in 1..(i - 1) : a[k] = s[k]
  BY <1>1
<1>3. b \in Seq(T) /\ Len(b) = Len(s) - i /\ \A k \in 1..(Len(s) - i) : b[k] = s[i + k]
  <2>1. Len(b) = Len(s) - i
    BY <1>1
  <2>2. b \in Seq(T)
    BY <1>1
  <2>3. \A k \in 1..(Len(s) - i) : b[k] = s[(i + 1) + k - 1]
    BY <1>1
  <2>4. \A k \in 1..(Len(s) - i) : (i + 1) + k - 1 = i + k
    BY <1>1
  <2> HIDE DEF b
  <2> QED BY <2>1, <2>2, <2>3, <2>4
<1> HIDE DEF a, b
<1>4. /\ r \in Seq(T) /\ Len(r) = Len(a) + Len(b) /\ \A k \in 1..Len(a) : r[k] = a[k]
      /\ \A k \in 1..Len(b) : r[Len(a) + k] = b[k]
  <2>1. a \in Seq(T) /\ b \in Seq(T)
    BY <1>2, <1>3
  <2> QED BY <2>1
<1>5. Demux!RemoveAt(s, i) = r
  BY DEF Demux!RemoveAt, a, b
<1> HIDE DEF r
<1>6. Len(r) = Len(s) - 1
  BY <1>1, <1>2, <1>3, <1>4
<1>7. \A k \in 1..(Len(s) - 1) : r[k] = IF k < i THEN s[k] ELSE s[k + 1]
  <2> SUFFICES ASSUME NEW k \in 1..(Len(s) - 1) PROVE r[k] = IF k < i THEN s[k] ELSE s[k + 1]
    OBVIOUS
  <2>1. CASE k < i
    <3>1. k \in 1..(i - 1) /\ k \in 1..Len(a)
      BY <1>1, <1>2, <2>1
    <3> QED BY <1>2, <1>4, <2>1, <3>1
  <2>2. CASE ~(k < i)
    <3> DEFINE m == k - (i - 1)
    <3>1. m \in 1..(Len(s) - i) /\ m \in 1..Len(b) /\ Len(a) + m = k /\ i + m = k + 1
      <4>1. i \in Nat /\ k \in Nat /\ Len(s) \in Nat /\ i <= k /\ k <= Len(s) - 1 /\ i >= 1
        BY <1>1, <2>2
      <4>2. Len(a) = i - 1 /\ Len(b) = Len(s) - i
        BY <1>2, <1>3
      <4> HIDE DEF r
      <4>3. m \in Nat /\ m >= 1 /\ m <= Len(s) - i
        BY <4>1
      <4>4. Len(a) + m = k /\ i + m = k + 1
        BY <4>1, <4>2
      <4> HIDE DEF m
      <4> QED BY <4>1, <4>2, <4>3, <4>4
    <3> HIDE DEF m
    <3>2. r[Len(a) + m] = b[m] /\ b[m] = s[i + m]
      BY <1>3, <1>4, <3>1
    <3> QED BY <2>2, <3>1, <3>2
  <2> QED BY <2>1, <2>2
<1>8. /\ Append(r, x) \in Seq(T) /\ Len(Append(r, x)) = Len(r) + 1 /\ Append(r, x)[Len(r) + 1] = x
      /\ \A k \in 1..Len(r) : Append(r, x)[k] = r[k]
  BY <1>4
<1>9. Len(r) + 1 = Len(s)
  BY <1>1, <1>6
<1> DEFINE t == Append(r, x)
<1> HIDE DEF t
<1>10. t \in Seq(T) /\ Len(t) = Len(s) /\ t[Len(s)] = x /\ \A k \in 1..(Len(s) - 1) : t[k] = r[k]
  BY <1>6, <1>8, <1>9 DEF t
<1>11. Swapped(T, t, s, i, x)
  BY <1>7, <1>10 DEF Swapped
<1> QED BY <1>5, <1>11 DEF t

\* The state after a unit has begun: its assembler is e, at the end of the list, and the others are those of before.
LEMMA UnseenKeeps ==
  ASSUME DInv, NEW p \in Demux!Pids, NEW n, Begun(p, n), p \notin DOMAIN roles,
         UNCHANGED <<pmtParsed, roles, flushed, pes, known, unwrap, base, demuxTags>>
  PROVE  DInv'
<1>1. Typed /\ Made /\ Opened
  BY DEF DInv
<1>2. Typed'
  BY <1>1 DEF Typed, Begun
<1>3. Made'
  BY BegunMakes
<1>4. Opened'
  <2>1. ASSUME NEW k \in DOMAIN pes', NEW e, e = pes'[k] PROVE Holds(e)' /\ Ready(e)'
    <3>1. k \in DOMAIN pes /\ e = pes[k] /\ e.pid # p
      BY <1>1, <2>1 DEF Opened, Holds
    <3> QED BY <3>1, BegunOthers
  <2>2. \A k, l \in DOMAIN pes' : pes'[k].pid = pes'[l].pid => k = l
    BY <1>1 DEF Opened
  <2> QED BY <2>1, <2>2, AllOpened
<1>5. Idle'
  <2>1. \A q \in Demux!Pids : Demux!OpenAt(q)' = Demux!OpenAt(q)
    BY DEF Demux!OpenAt
  <2> QED BY <2>1, BegunIdle
<1>6. Grown
  BY DEF Grown, Begun
<1>7. NoneComes
  BY <1>6, BegunNotComing
<1>8. \A v \in DOMAIN units : Open(v)' <=> Open(v)
  BY DEF Open, UnitOf
<1>9. Past'
  BY <1>6, <1>7, <1>8, Stays
<1> QED BY <1>2, <1>3, <1>4, <1>5, <1>9 DEF DInv

LEMMA FirstKeeps ==
  ASSUME DInv, NEW p \in DOMAIN roles, NEW n \in Nat, Begun(p, n), Demux!OpenAt(p) = {},
         NEW e, e = [pid |-> p, buf |-> <<[unit |-> n, first |-> TRUE]>>], pes' = Append(pes, e),
         UNCHANGED <<pmtParsed, roles, flushed, known, unwrap, base, demuxTags>>
  PROVE  DInv'
<1>1. Typed /\ Made /\ Opened /\ Idle /\ p \in Demux!Pids
  BY Streams DEF DInv
<1>2. Holds(e)' /\ UnitOf(e) = n /\ e.pid = p
  BY BegunHolds
<1> DEFINE m == Len(pes)
<1>3. e \in [pid : Demux!Pids, buf : Seq(PacketPiece)]
  <2>1. <<[unit |-> n, first |-> TRUE]>> \in Seq(PacketPiece)
    <3>1. [unit |-> n, first |-> TRUE] \in PacketPiece
      BY DEF PacketPiece
    <3>2. \A x \in PacketPiece : <<x>> \in Seq(PacketPiece)
      OBVIOUS
    <3> QED BY <3>1, <3>2
  <2> QED BY <1>1, <2>1
<1>4. /\ pes' \in Seq([pid : Demux!Pids, buf : Seq(PacketPiece)]) /\ DOMAIN pes' = 1..(m + 1) /\ m \in Nat
      /\ DOMAIN pes = 1..m /\ \A k \in DOMAIN pes : pes'[k] = pes[k]
      /\ pes'[m + 1] = e
  <2>1. pes \in Seq([pid : Demux!Pids, buf : Seq(PacketPiece)])
    BY <1>1 DEF Typed
  <2> HIDE DEF PacketPiece
  <2> QED BY <1>3, <2>1
<1> HIDE DEF m
<1>5. \A k \in DOMAIN pes' : k \in DOMAIN pes \/ k = m + 1
  BY <1>4
<1>6. m + 1 \in DOMAIN pes' /\ DOMAIN pes \subseteq DOMAIN pes' /\ m + 1 \notin DOMAIN pes
  BY <1>4
<1>7. \A k \in DOMAIN pes : pes[k].pid # p
  BY DEF Demux!OpenAt
<1>8. Typed'
  BY <1>1, <1>4 DEF Typed, Begun
<1>9. Made'
  BY <1>1, BegunMakes
<1>10. Demux!Handed(p) = {} /\ FreshStream(p) /\ known[p] = 0
  BY <1>1 DEF Idle, Begun
<1>11. Ready(e)'
  <2>1. FreshStream(p)' /\ FirstSeen(units'[n])
    BY <1>10 DEF FreshStream, Begun
  <2>2. Clock(p, n)'
    BY <2>1 DEF Clock, FreshStream
  <2>3. Given(p, n)' = {}
    <3>1. \A v \in DOMAIN units : ~(units[v].pid = p /\ units[v].seen)
      BY <1>10 DEF Demux!Handed
    <3>2. \A v \in DOMAIN units' : v < n => v \in DOMAIN units /\ units'[v] = units[v]
      BY DEF Begun
    <3> QED BY <3>1, <3>2 DEF Given
  <2>4. Latest(p, n, known[p])'
    BY <1>10, <2>3 DEF Latest, Given
  <2> QED BY <1>2, <2>2, <2>4 DEF Ready, Clock, FreshStream, From, Follows, Latest, Given, UnitOf
<1>12. Opened'
  <2>1. ASSUME NEW k \in DOMAIN pes', NEW x, x = pes'[k] PROVE Holds(x)' /\ Ready(x)'
    <3>1. CASE k \in DOMAIN pes
      <4>1. x = pes[k] /\ x.pid # p
        BY <1>4, <1>7, <2>1, <3>1
      <4> QED BY <1>1, <3>1, <4>1, BegunOthers
    <3>2. CASE k = m + 1
      <4>1. x = e
        BY <1>4, <2>1, <3>2
      <4> QED BY <1>2, <1>11, <4>1 DEF Holds, Ready, Clock, FreshStream, From, Follows, Latest, Given, UnitOf
    <3> QED BY <1>5, <3>1, <3>2
  <2>2. \A k, l \in DOMAIN pes' : pes'[k].pid = pes'[l].pid => k = l
    BY <1>1, <1>2, <1>4, <1>5, <1>7 DEF Opened
  <2> QED BY <2>1, <2>2, AllOpened
<1>13. Idle'
  <2>1. m + 1 \in Demux!OpenAt(p)'
    BY <1>2, <1>4, <1>6 DEF Demux!OpenAt
  <2>2. \A q \in Demux!Pids : Demux!OpenAt(q)' = {} => Demux!OpenAt(q) = {}
    BY <1>4, <1>6 DEF Demux!OpenAt
  <2> QED BY <1>1, <2>1, <2>2, BegunIdle
<1>14. Open(n)'
  BY <1>2, <1>4, <1>6 DEF Open, UnitOf
<1>15. Grown
  <2>1. ASSUME NEW v \in DOMAIN units' \ DOMAIN units PROVE Open(v)'
    <3>1. v = n
      BY DEF Begun
    <3> QED BY <1>14, <3>1 DEF Open
  <2> QED BY <2>1 DEF Grown, Begun
<1>16. NoneComes
  BY <1>1, <1>15, BegunNotComing
<1>17. \A v \in DOMAIN units : Open(v)' <=> Open(v)
  <2> SUFFICES ASSUME NEW v \in DOMAIN units PROVE Open(v)' <=> Open(v)
    OBVIOUS
  <2>1. v # n
    BY <1>1, Sized DEF Begun
  <2>2. pes'[m + 1].buf[1].unit = n
    BY <1>2, <1>4 DEF UnitOf
  <2> QED BY <1>4, <1>5, <1>6, <2>1, <2>2 DEF Open, UnitOf
<1>18. Past'
  BY <1>15, <1>16, <1>17, Stays
<1> QED BY <1>8, <1>9, <1>12, <1>13, <1>18 DEF DInv

LEMMA NextKeeps ==
  ASSUME DInv, NEW p \in DOMAIN roles, NEW n \in Nat, Begun(p, n), NEW i \in Demux!OpenAt(p), Demux!Finalize(pes[i]),
         NEW e, e = [pid |-> p, buf |-> <<[unit |-> n, first |-> TRUE]>>], pes' = Append(Demux!RemoveAt(pes, i), e),
         UNCHANGED <<pmtParsed, roles, flushed>>
  PROVE  DInv'
<1>1. Typed /\ Made /\ Opened /\ Idle /\ p \in Demux!Pids
  BY Streams DEF DInv
<1>2. Holds(e)' /\ UnitOf(e) = n /\ e.pid = p
  BY BegunHolds
<1> PICK u : u = UnitOf(pes[i])
  OBVIOUS
<1> DEFINE m == Len(pes)
           Place(k) == IF k < i THEN k ELSE k + 1
<1>3. e \in [pid : Demux!Pids, buf : Seq(PacketPiece)]
  <2>1. <<[unit |-> n, first |-> TRUE]>> \in Seq(PacketPiece)
    <3>1. [unit |-> n, first |-> TRUE] \in PacketPiece
      BY DEF PacketPiece
    <3>2. \A x \in PacketPiece : <<x>> \in Seq(PacketPiece)
      OBVIOUS
    <3> QED BY <3>1, <3>2
  <2> QED BY <1>1, <2>1
<1>4. i \in DOMAIN pes /\ pes[i].pid = p /\ Holds(pes[i]) /\ Ready(pes[i])
  BY <1>1 DEF Demux!OpenAt, Opened
<1>5. /\ pes' \in Seq([pid : Demux!Pids, buf : Seq(PacketPiece)]) /\ DOMAIN pes' = 1..m /\ m \in Nat /\ DOMAIN pes = 1..m
      /\ pes'[m] = e /\ \A k \in 1..(m - 1) : pes'[k] = pes[Place(k)]
  <2> DEFINE T == [pid : Demux!Pids, buf : Seq(PacketPiece)]
  <2>1. pes \in Seq(T) /\ e \in T
    BY <1>1, <1>3 DEF Typed
  <2> HIDE DEF T
  <2>2. Swapped(T, pes', pes, i, e)
    BY <1>4, <2>1, Swaps
  <2>3. pes' \in Seq(T) /\ Len(pes') = m
    BY <2>2 DEF Swapped
  <2>4. DOMAIN pes' = 1..m /\ m \in Nat /\ DOMAIN pes = 1..m
    BY <2>1, <2>3
  <2> QED BY <2>2, <2>3, <2>4 DEF Swapped, T
<1> HIDE DEF m
<1>6. /\ \A k \in DOMAIN pes' : k = m \/ k \in 1..(m - 1)
      /\ \A k \in 1..(m - 1) : k \in DOMAIN pes' /\ Place(k) \in DOMAIN pes /\ Place(k) # i
      /\ \A k, l \in 1..(m - 1) : Place(k) = Place(l) => k = l
      /\ m \in DOMAIN pes'
  BY <1>4, <1>5, SMTT(40)
<1>7. \A j \in DOMAIN pes : j # i => \E k \in 1..(m - 1) : Place(k) = j
  <2> SUFFICES ASSUME NEW j \in DOMAIN pes, j # i PROVE \E k \in 1..(m - 1) : Place(k) = j
    OBVIOUS
  <2>1. CASE j < i
    BY <1>4, <1>5, <2>1
  <2>2. CASE j > i
    <3>1. j - 1 \in 1..(m - 1) /\ Place(j - 1) = j
      BY <1>4, <1>5, <2>2, SMTT(40)
    <3> QED BY <3>1
  <2> QED BY <1>4, <1>5, <2>1, <2>2
<1> HIDE DEF Place
<1>8. \A j \in DOMAIN pes : j # i => pes[j].pid # p
  BY <1>1, <1>4 DEF Opened
<1>9. /\ u \in DOMAIN units /\ units[u].pid = p /\ units[u].seen /\ last[p] = units[u].dts
      /\ \A v \in DOMAIN units : units[v].pid = p => v <= u
      /\ Latest(p, u, known[p])
  BY <1>4 DEF Holds, Ready
<1>10. Emits(p, u)
  BY <1>4, Emitted
<1>11. PICK c \in 0..1, f \in Nat : HandsOn(p, u, c, f) /\ (left[p] = 0 => f = units[u].frames)
  BY <1>10 DEF Emits
<1>12. f = units[u].frames /\ f > 0 /\ u \in Nat /\ units[u].dts \in Nat /\ units[u].params \in Nat
  <2>1. units[u] \in UnitType /\ u \in Nat
    BY <1>1, <1>9, Sized
  <2>2. left[p] = 0
    BY DEF Begun
  <2>3. f = units[u].frames
    BY <1>11, <2>2
  <2> QED BY <2>1, <2>3 DEF UnitType
<1>13. /\ base' \in Seq(Int) /\ demuxTags' \in Seq(TagType) /\ unwrap' \in [Demux!Keys -> Seq(Seen)]
       /\ known' = [known EXCEPT ![p] = IF c = 1 THEN units[u].params ELSE @]
       /\ \A k \in Demux!Keys : k.pid # p => unwrap'[k] = unwrap[k]
       /\ unwrap'[PK(p)] = <<[raw |-> units[u].pts % Wrap, unwrapped |-> Shown(units[u])]>>
       /\ Demux!Video(p) => unwrap'[DK(p)] = <<[raw |-> units[u].dts % Wrap, unwrapped |-> Decoded(units[u])]>>
  BY <1>11 DEF HandsOn
<1>14. known' \in [Demux!Pids -> Nat] /\ \A q \in Demux!Pids : q # p => known'[q] = known[q]
  <2>1. known \in [Demux!Pids -> Nat]
    BY <1>1 DEF Typed
  <2> QED BY <1>12, <1>13, <2>1
<1>15. Typed'
  BY <1>1, <1>5, <1>13, <1>14 DEF Typed, Begun
<1>16. Made'
  BY <1>1, BegunMakes
<1>17. Ready(e)'
  <2>1. From(p, u)'
    <3>1. units'[u] = units[u]
      BY <1>9 DEF Begun
    <3> QED BY <1>13, <3>1 DEF From, PK, DK, Demux!Video
  <2>2. Follows(u, n)'
    <3>1. units'[u] = units[u]
      BY <1>9 DEF Begun
    <3>2. units[u].dts < units'[n].dts /\ units'[n].pts - units[u].dts <= Wrap \div 2
      BY <1>9, <1>12 DEF Begun
    <3>3. units'[n].since = units[u].since
      BY <1>9 DEF Begun, Demux!Handed
    <3> QED BY <3>1, <3>2, <3>3 DEF Follows
  <2>3. Clock(p, n)'
    <3>1. u \in DOMAIN units'
      BY <1>9 DEF Begun
    <3> QED BY <2>1, <2>2, <3>1 DEF Clock
  <2>4. Latest(p, u + 1, known'[p])
    BY <1>1, <1>9, <1>11, <1>12, KnownAfter
  <2>5. Given(p, n)' = Given(p, u + 1) /\ Given(p, u + 1) \subseteq DOMAIN units
    <3>1. \A v \in DOMAIN units' : v < n => v \in DOMAIN units /\ units'[v] = units[v]
      BY DEF Begun
    <3>2. \A v \in DOMAIN units : units[v].pid = p => v < u + 1
      BY <1>1, <1>9, <1>12, Sized
    <3>3. \A v \in DOMAIN units : v \in DOMAIN units' /\ v < n /\ units'[v] = units[v]
      BY DEF Begun
    <3> QED BY <3>1, <3>2, <3>3 DEF Given
  <2>6. ASSUME NEW k, k = known'[p] PROVE Latest(p, n, k)'
    <3>1. \A v \in DOMAIN units : units'[v] = units[v]
      BY DEF Begun
    <3> QED BY <2>4, <2>5, <2>6, <3>1 DEF Latest
  <2>7. Latest(p, n, known[p])'
    BY <2>6 DEF Latest
  <2> QED BY <1>2, <2>3, <2>7 DEF Ready, Clock, FreshStream, From, Follows, Latest, Given, UnitOf
<1>18. Opened'
  <2>1. ASSUME NEW k \in DOMAIN pes', NEW x, x = pes'[k] PROVE Holds(x)' /\ Ready(x)'
    <3>1. CASE k \in 1..(m - 1)
      <4>1. x = pes[Place(k)] /\ Place(k) \in DOMAIN pes /\ x.pid # p
        BY <1>5, <1>6, <1>8, <2>1, <3>1
      <4> QED BY <1>1, <1>13, <1>14, <4>1, BegunOthers
    <3>2. CASE k = m
      <4>1. x = e
        BY <1>5, <2>1, <3>2
      <4> QED BY <1>2, <1>17, <4>1 DEF Holds, Ready, Clock, FreshStream, From, Follows, Latest, Given, UnitOf
    <3> QED BY <1>6, <3>1, <3>2
  <2>2. \A k, l \in DOMAIN pes' : pes'[k].pid = pes'[l].pid => k = l
    <3> SUFFICES ASSUME NEW k \in DOMAIN pes', NEW l \in DOMAIN pes', pes'[k].pid = pes'[l].pid PROVE k = l
      OBVIOUS
    <3>1. CASE k \in 1..(m - 1) /\ l \in 1..(m - 1)
      <4>1. pes[Place(k)].pid = pes[Place(l)].pid /\ Place(k) \in DOMAIN pes /\ Place(l) \in DOMAIN pes
        BY <1>5, <1>6, <3>1
      <4>2. Place(k) = Place(l)
        BY <1>1, <4>1 DEF Opened
      <4> QED BY <1>6, <3>1, <4>2
    <3>2. CASE k \in 1..(m - 1) /\ l = m
      BY <1>2, <1>5, <1>6, <1>8, <3>2
    <3>3. CASE k = m /\ l \in 1..(m - 1)
      BY <1>2, <1>5, <1>6, <1>8, <3>3
    <3> QED BY <1>6, <3>1, <3>2, <3>3
  <2> QED BY <2>1, <2>2, AllOpened
<1>19. Idle'
  <2>1. m \in Demux!OpenAt(p)'
    BY <1>2, <1>5, <1>6 DEF Demux!OpenAt
  <2>2. ASSUME NEW q \in Demux!Pids, q # p, NEW j \in Demux!OpenAt(q) PROVE Demux!OpenAt(q)' # {}
    <3>1. j \in DOMAIN pes /\ pes[j].pid = q /\ j # i
      BY <1>4, <2>2 DEF Demux!OpenAt
    <3>2. PICK k \in 1..(m - 1) : Place(k) = j
      BY <1>7, <3>1
    <3>3. k \in DOMAIN pes' /\ pes'[k].pid = q
      BY <1>5, <1>6, <3>1, <3>2
    <3> QED BY <3>3 DEF Demux!OpenAt
  <2>3. \A q \in Demux!Pids : q # p /\ Demux!OpenAt(q)' = {} => Demux!OpenAt(q) = {}
    BY <2>2
  <2>4. Demux!OpenAt(p)' # {}
    BY <2>1
  <2> QED BY <1>1, <1>13, <1>14, <2>3, <2>4, BegunIdle
<1>20. Open(n)'
  BY <1>2, <1>5, <1>6 DEF Open, UnitOf
<1>21. Grown
  <2>1. ASSUME NEW v \in DOMAIN units' \ DOMAIN units PROVE Open(v)'
    <3>1. v = n
      BY DEF Begun
    <3> QED BY <1>20, <3>1 DEF Open
  <2> QED BY <2>1 DEF Grown, Begun
<1>22. NoneComes
  BY <1>1, <1>21, BegunNotComing
<1>23. Closes(u)
  <2>1. \A j \in DOMAIN pes : j # i => UnitOf(pes[j]) # u
    BY <1>1, <1>8, <1>9 DEF Opened, Holds
  <2>2. ASSUME NEW v \in DOMAIN units, Open(v)' PROVE Open(v) /\ v # u
    <3>1. PICK k \in DOMAIN pes' : pes'[k].buf[1].unit = v
      BY <2>2 DEF Open, UnitOf
    <3>2. v # n
      BY <1>1, Sized DEF Begun
    <3>3. k \in 1..(m - 1)
      BY <1>2, <1>5, <1>6, <3>1, <3>2 DEF UnitOf
    <3>4. Place(k) \in DOMAIN pes /\ Place(k) # i /\ UnitOf(pes[Place(k)]) = v
      BY <1>5, <1>6, <3>1, <3>3 DEF UnitOf
    <3> QED BY <2>1, <3>4 DEF Open
  <2>3. ASSUME NEW v \in DOMAIN units, Open(v), v # u PROVE Open(v)'
    <3>1. PICK j \in DOMAIN pes : UnitOf(pes[j]) = v
      BY <2>3 DEF Open
    <3>2. j # i
      BY <2>3, <3>1
    <3>3. PICK k \in 1..(m - 1) : Place(k) = j
      BY <1>7, <3>2
    <3>4. k \in DOMAIN pes' /\ pes'[k].buf[1].unit = v
      BY <1>5, <1>6, <3>1, <3>3 DEF UnitOf
    <3> QED BY <3>4 DEF Open, UnitOf
  <2> QED BY <2>2, <2>3 DEF Closes
<1>24. Open(u)
  BY <1>4 DEF Open
<1>25. Past'
  BY <1>9, <1>11, <1>12, <1>21, <1>22, <1>23, <1>24, Grows
<1> QED BY <1>15, <1>16, <1>18, <1>19, <1>25 DEF DInv

LEMMA BeginsKeeps == ASSUME DInv, NEW p \in Demux!Pids, Demux!UnitBegins(p) PROVE DInv'
<1> PICK n : n = Len(units) + 1
  OBVIOUS
<1> DEFINE piece == [unit |-> n, first |-> TRUE]
           e == [pid |-> p, buf |-> <<piece>>]
<1>1. Begun(p, n) /\ n \in Nat
  <2>1. Len(units) \in Nat
    BY Sized DEF DInv
  <2> QED BY <2>1, StreamBegins DEF Demux!UnitBegins
<1>2. UNCHANGED <<pmtParsed, roles, flushed>> /\ Demux!FeedPacket(p, piece)
  <2>1. Len(units') = n
    BY <1>1 DEF Begun
  <2> QED BY <2>1 DEF Demux!UnitBegins, Demux!tables
<1>3. CASE p \notin DOMAIN roles
  <2>1. UNCHANGED <<pes, known, unwrap, base, demuxTags>>
    <3> HIDE DEF piece
    <3> QED BY <1>2, <1>3 DEF Demux!FeedPacket, Demux!Keep
  <2> QED BY <1>1, <1>2, <1>3, <2>1, UnseenKeeps
<1>4. CASE p \in DOMAIN roles
  <2>1. Demux!BeginPES(p, piece)
    <3>1. piece.first
      OBVIOUS
    <3> HIDE DEF piece
    <3> QED BY <1>2, <1>4, <3>1 DEF Demux!FeedPacket
  <2>2. CASE Demux!OpenAt(p) = {}
    <3>1. UNCHANGED <<known, unwrap, base, demuxTags>> /\ pes' = Append(pes, e)
      <4> HIDE DEF piece
      <4> QED BY <2>1, <2>2 DEF Demux!BeginPES, Demux!Keep
    <3> QED BY <1>1, <1>2, <1>4, <2>2, <3>1, FirstKeeps
  <2>3. CASE Demux!OpenAt(p) # {}
    <3>1. PICK i \in Demux!OpenAt(p) : Demux!Finalize(pes[i]) /\ pes' = Append(Demux!RemoveAt(pes, i), e)
      <4> HIDE DEF piece
      <4> QED BY <2>1, <2>3 DEF Demux!BeginPES, Demux!Removed
    <3> QED BY <1>1, <1>2, <1>4, <3>1, NextKeeps
  <2> QED BY <2>2, <2>3
<1> QED BY <1>3, <1>4

\* The end of the reader: the unit that began first is handed on.
LEMMA FlushKeeps == ASSUME DInv, Demux!Flush PROVE DInv'
<1>1. Typed /\ Made /\ Opened /\ flushed' = TRUE
  BY DEF DInv, Demux!Flush
<1>2. UNCHANGED <<now, last, units, left, pmtParsed, roles>>
  BY DEF Demux!Flush, Demux!producer, Demux!tables
<1>3. CASE ~Demux!Flushing
  <2>1. UNCHANGED <<pes, known, unwrap, base, demuxTags>>
    BY <1>3 DEF Demux!Flush, Demux!Keep
  <2> QED BY <1>1, <1>2, <2>1, DemuxStutters
<1>4. CASE Demux!Flushing
  <2> PICK p, u : p = pes[1].pid /\ u = UnitOf(pes[1])
    OBVIOUS
  <2> DEFINE m == Len(pes)
             T == [pid : Demux!Pids, buf : Seq(PacketPiece)]
  <2>1. /\ pes' \in Seq(T) /\ DOMAIN pes' = 1..(m - 1) /\ m \in Nat /\ m > 0 /\ DOMAIN pes = 1..m
        /\ \A k \in 1..(m - 1) : pes'[k] = pes[k + 1]
        /\ Head(pes) = pes[1]
    <3>1. pes \in Seq(T) /\ pes # <<>>
      BY <1>1, <1>4 DEF Typed, Demux!Flushing
    <3>2. pes' = Tail(pes)
      BY <1>4 DEF Demux!Flush
    <3> HIDE DEF T
    <3>3. Tail(pes) \in Seq(T) /\ Len(Tail(pes)) = m - 1 /\ m \in Nat /\ m > 0 /\ Head(pes) = pes[1]
      BY <3>1
    <3>4. \A k \in 1..(m - 1) : Tail(pes)[k] = pes[k + 1]
      BY <3>1
    <3>5. DOMAIN pes = 1..m /\ DOMAIN Tail(pes) = 1..(m - 1)
      BY <3>1, <3>3
    <3> QED BY <3>2, <3>3, <3>4, <3>5
  <2> HIDE DEF m
  <2>2. 1 \in DOMAIN pes /\ \A k \in 1..(m - 1) : k + 1 \in DOMAIN pes /\ k + 1 # 1
    BY <2>1
  <2>3. Demux!Finalize(pes[1]) /\ Holds(pes[1]) /\ Ready(pes[1])
    BY <1>1, <1>4, <2>1, <2>2 DEF Demux!Flush, Opened
  <2>4. \A j \in DOMAIN pes : j # 1 => pes[j].pid # p
    BY <1>1, <2>2 DEF Opened
  <2>5. /\ u \in DOMAIN units /\ units[u].pid = p /\ units[u].seen /\ p \in DOMAIN roles
        /\ \A v \in DOMAIN units : units[v].pid = p => v <= u
        /\ Latest(p, u, known[p])
    BY <2>3 DEF Holds, Ready
  <2>6. p \in Demux!Pids
    BY <1>1, <2>5, Streams
  <2>7. Emits(p, u)
    BY <2>2, <2>3, Emitted
  <2>8. PICK c \in 0..1, f \in Nat : HandsOn(p, u, c, f) /\ (left[p] = 0 => f = units[u].frames)
    BY <2>7 DEF Emits
  <2>9. u \in Nat /\ units[u].params \in Nat /\ DOMAIN units \subseteq Nat
    BY <1>1, <2>5, Sized DEF UnitType
  <2>10. /\ base' \in Seq(Int) /\ demuxTags' \in Seq(TagType) /\ unwrap' \in [Demux!Keys -> Seq(Seen)]
         /\ known' = [known EXCEPT ![p] = IF c = 1 THEN units[u].params ELSE @]
         /\ \A k \in Demux!Keys : k.pid # p => unwrap'[k] = unwrap[k]
    BY <2>8 DEF HandsOn
  <2>11. known' \in [Demux!Pids -> Nat] /\ \A q \in Demux!Pids : q # p => known'[q] = known[q]
    <3>1. known \in [Demux!Pids -> Nat]
      BY <1>1 DEF Typed
    <3> QED BY <2>9, <2>10, <3>1
  <2>12. Typed'
    BY <1>1, <1>2, <2>1, <2>10, <2>11 DEF Typed
  <2>13. Made'
    BY <1>1, <1>2 DEF Made
  <2>14. Opened'
    <3>1. ASSUME NEW k \in DOMAIN pes', NEW x, x = pes'[k] PROVE Holds(x)' /\ Ready(x)'
      <4>1. k \in 1..(m - 1) /\ x = pes[k + 1] /\ k + 1 \in DOMAIN pes /\ x.pid # p
        BY <2>1, <2>2, <2>4, <3>1
      <4>2. Holds(x) /\ Ready(x) /\ x.pid \in Demux!Pids
        BY <1>1, <4>1, Streams DEF Opened, Holds
      <4>3. /\ DOMAIN units \subseteq DOMAIN units' /\ \A v \in DOMAIN units : units'[v] = units[v]
            /\ DOMAIN units' = 1..Len(units') /\ last'[x.pid] = last[x.pid] /\ left'[x.pid] = left[x.pid]
            /\ \A v \in DOMAIN units' \ DOMAIN units : units'[v].pid = p
        BY <1>1, <1>2, Sized
      <4>4. known'[x.pid] = known[x.pid]
        BY <2>11, <4>1, <4>2
      <4>5. Typed /\ roles' = roles
        BY <1>1, <1>2
      <4>6. Aside(x.pid, p)
        BY <2>10, <4>3, <4>4, <4>5 DEF Aside
      <4> QED BY <4>1, <4>2, <4>5, <4>6, OthersStay
    <3>2. \A k, l \in DOMAIN pes' : pes'[k].pid = pes'[l].pid => k = l
      <4> SUFFICES ASSUME NEW k \in DOMAIN pes', NEW l \in DOMAIN pes', pes'[k].pid = pes'[l].pid PROVE k = l
        OBVIOUS
      <4>2. k \in 1..(m - 1) /\ l \in 1..(m - 1)
        BY <2>1
      <4>3. pes[k + 1].pid = pes[l + 1].pid /\ k + 1 \in DOMAIN pes /\ l + 1 \in DOMAIN pes
        BY <2>1, <2>2, <4>2
      <4>1. k + 1 = l + 1
        BY <1>1, <4>3 DEF Opened
      <4> QED BY <2>1, <4>1
    <3> QED BY <3>1, <3>2, AllOpened
  <2>15. Idle'
    BY <1>1 DEF Idle
  <2>16. Grown
    BY <1>1, <1>2 DEF Grown, Typed
  <2>17. NoneComes
    BY <1>2 DEF NoneComes, Demux!Came
  <2>18. Closes(u)
    <3>1. \A j \in DOMAIN pes : j # 1 => UnitOf(pes[j]) # u
      BY <1>1, <2>4, <2>5 DEF Opened, Holds
    <3>2. ASSUME NEW v \in DOMAIN units, Open(v)' PROVE Open(v) /\ v # u
      <4>1. PICK k \in DOMAIN pes' : pes'[k].buf[1].unit = v
        BY <3>2 DEF Open, UnitOf
      <4>2. k + 1 \in DOMAIN pes /\ k + 1 # 1 /\ UnitOf(pes[k + 1]) = v
        BY <2>1, <2>2, <4>1 DEF UnitOf
      <4> QED BY <3>1, <4>2 DEF Open
    <3>3. ASSUME NEW v \in DOMAIN units, Open(v), v # u PROVE Open(v)'
      <4>1. PICK j \in DOMAIN pes : UnitOf(pes[j]) = v
        BY <3>3 DEF Open
      <4>2. j # 1
        BY <3>3, <4>1
      <4>3. j - 1 \in 1..(m - 1) /\ (j - 1) + 1 = j
        BY <2>1, <4>2
      <4>4. j - 1 \in DOMAIN pes' /\ pes'[j - 1].buf[1].unit = v
        BY <2>1, <4>1, <4>3 DEF UnitOf
      <4> QED BY <4>4 DEF Open, UnitOf
    <3> QED BY <3>2, <3>3 DEF Closes
  <2>19. Open(u)
    BY <2>2 DEF Open
  <2>20. Demux!Came(u)' => f = units[u].frames
    <3>1. Demux!Came(u)' => left[p] = 0
      <4>1. \A v \in DOMAIN units : units[v].pid = p => ~(v > u)
        BY <2>5, <2>9
      <4> QED BY <1>2, <2>5, <4>1 DEF Demux!Came
    <3> QED BY <2>8, <3>1
  <2>21. HandsOn(p, u, c, f)
    BY <2>8
  <2>22. Past'
    BY <1>2, <2>5, <2>16, <2>17, <2>18, <2>19, <2>20, <2>21, Grows
  <2> QED BY <2>12, <2>13, <2>14, <2>15, <2>22 DEF DInv
<1> QED BY <1>3, <1>4

LEMMA DemuxStep == ASSUME DInv, Demux!Next \/ UNCHANGED demuxVars PROVE DInv'
<1>1. CASE UNCHANGED demuxVars
  BY <1>1, DemuxStutters DEF demuxVars
<1>2. CASE Demux!Next
  <2>1. CASE Demux!FeedPAT \/ Demux!FeedPMT \/ Demux!Flush
    BY <2>1, PATKeeps, PMTKeeps, FlushKeeps
  <2>2. ASSUME NEW p \in Demux!Pids, Demux!UnitBegins(p) \/ Demux!UnitContinues(p) PROVE DInv'
    BY <2>2, BeginsKeeps, ContinueKeeps
  <2> QED BY <1>2, <2>1, <2>2 DEF Demux!Next
<1> QED BY <1>1, <1>2

LEMMA Aligns == DInv => Demux!AlignedInTurn
<1> SUFFICES ASSUME DInv, NEW i \in Demux!Frames, NEW j \in Demux!Frames
             PROVE  LET u == units[demuxTags[i].unit]
                        v == units[demuxTags[j].unit]
                    IN /\ u.since.d = v.since.d =>
                            (demuxTags[i].ts - Nth(i)) - (demuxTags[j].ts - Nth(j)) = u.dts - v.dts
                       /\ u.since.p = u.since.d => demuxTags[i].cts = u.pts - u.dts
  BY SameCount DEF Demux!AlignedInTurn, Demux!Apart, Demux!ShownInTime, Demux!Nth, Nth
<1>1. Typed /\ Made /\ TagsOf /\ TimeLine
  BY DEF DInv, Past
<1>2. ASSUME NEW k \in Demux!Frames, NEW w, w = units[demuxTags[k].unit]
      PROVE  /\ base[1] \in Int /\ Nth(k) \in Nat /\ w.dts \in Nat /\ w.pts \in Nat /\ w.dts <= w.pts
             /\ w.since.d \in Int /\ w.since.p \in Int
             /\ demuxTags[k].ts = (Decoded(w) - base[1]) + Nth(k) /\ demuxTags[k].cts = Later(w)
  <2>1. base \in Seq(Int) /\ base # <<>>
    BY <1>1, <1>2 DEF Typed, TimeLine
  <2>2. base[1] \in Int
    BY <2>1
  <2>3. demuxTags[k].unit \in DOMAIN units
    BY <1>1, <1>2 DEF TagsOf, Demux!Frames
  <2>4. w \in UnitType
    BY <1>1, <1>2, <2>3, Sized
  <2>5. w.dts <= w.pts
    BY <1>1, <1>2, <2>3 DEF Made
  <2>6. w.dts \in Nat /\ w.pts \in Nat /\ w.since.d \in Int /\ w.since.p \in Int
    BY <2>4 DEF UnitType
  <2>7. Nth(k) \in Nat /\ demuxTags[k].ts = (Decoded(w) - base[1]) + Nth(k) /\ demuxTags[k].cts = Later(w)
    BY <1>1, <1>2 DEF TimeLine
  <2> QED BY <2>2, <2>5, <2>6, <2>7
<1> PICK u, v : u = units[demuxTags[i].unit] /\ v = units[demuxTags[j].unit]
  OBVIOUS
<1>3. u.since.d = v.since.d => (demuxTags[i].ts - Nth(i)) - (demuxTags[j].ts - Nth(j)) = u.dts - v.dts
  <2>1. /\ base[1] \in Int /\ Nth(i) \in Nat /\ u.dts \in Nat /\ u.since.d \in Int
        /\ demuxTags[i].ts = ((u.dts - u.since.d) - base[1]) + Nth(i)
        /\ Nth(j) \in Nat /\ v.dts \in Nat /\ v.since.d \in Int
        /\ demuxTags[j].ts = ((v.dts - v.since.d) - base[1]) + Nth(j)
    BY <1>2 DEF Decoded
  <2> QED BY <2>1
<1>4. u.since.p = u.since.d => demuxTags[i].cts = u.pts - u.dts
  <2>1. /\ u.dts \in Nat /\ u.pts \in Nat /\ u.dts <= u.pts /\ u.since.d \in Int /\ u.since.p \in Int
        /\ demuxTags[i].cts = Later(u)
    BY <1>2
  <2> QED BY <2>1 DEF Later, Shown, Decoded
<1> QED BY <1>3, <1>4

LEMMA Describes == DInv => Demux!Described
<1> SUFFICES ASSUME DInv PROVE Demux!Described
  OBVIOUS
<1>1. Typed /\ TagsOf /\ DescribedWell
  BY DEF DInv, Past
<1> DEFINE latest(S) == CHOOSE x \in S : \A y \in S : y <= x
<1>2. ASSUME NEW S \in SUBSET Int, NEW x \in S, \A y \in S : y <= x PROVE latest(S) = x
  <2>1. \A y \in S : (\A z \in S : z <= y) => y = x
    BY <1>2
  <2> QED BY <1>2, <2>1
<1> HIDE DEF latest
<1>3. ASSUME NEW i \in Demux!Frames, NEW u, u = demuxTags[i].unit, NEW p, p = units[u].pid, Given(p, u + 1) # {}
      PROVE  /\ Before1(i) # {}
             /\ demuxTags[latest(Before1(i))].params = units[latest(Given(p, u + 1))].params
  <2>1. PICK j \in Before1(i) : (\A m \in Before1(i) : m <= j) /\ Latest(p, u + 1, demuxTags[j].params)
    BY <1>1, <1>3 DEF DescribedWell
  <2>2. PICK v \in Given(p, u + 1) : (\A w \in Given(p, u + 1) : w <= v) /\ demuxTags[j].params = units[v].params
    BY <1>3, <2>1 DEF Latest
  <2>3. Given(p, u + 1) \subseteq Int /\ Before1(i) \subseteq Int
    <3>1. DOMAIN units \subseteq Int
      BY <1>1, Sized
    <3>2. i \in Int
      BY <1>1, Sized DEF Demux!Frames
    <3> QED BY <3>1, <3>2 DEF Given, Before1
  <2>4. latest(Before1(i)) = j /\ latest(Given(p, u + 1)) = v
    BY <1>2, <2>1, <2>2, <2>3
  <2> QED BY <2>1, <2>2, <2>4
<1> SUFFICES ASSUME NEW i \in Demux!Frames
             PROVE  LET u == demuxTags[i].unit
                        given == {v \in DOMAIN units : v <= u /\ units[v].pid = units[u].pid /\ units[v].seen
                                                       /\ units[v].params # 0}
                    IN given # {} => /\ Before1(i) # {}
                                     /\ demuxTags[latest(Before1(i))].params = units[latest(given)].params
  BY DEF Demux!Described, Before1, latest
<1> DEFINE u == demuxTags[i].unit
           p == units[u].pid
           given == {v \in DOMAIN units : v <= u /\ units[v].pid = p /\ units[v].seen /\ units[v].params # 0}
<1>4. Given(p, u + 1) = given
  <2>1. u \in DOMAIN units /\ DOMAIN units \subseteq Nat
    BY <1>1, Sized DEF TagsOf, Demux!Frames
  <2>2. \A v \in DOMAIN units : v < u + 1 <=> v <= u
    BY <2>1
  <2> QED BY <2>2 DEF Given
<1>5. given # {} => /\ Before1(i) # {}
                    /\ demuxTags[latest(Before1(i))].params = units[latest(given)].params
  <2> HIDE DEF given
  <2> QED BY <1>3, <1>4
<1> QED BY <1>5

LEMMA LosesNone == DInv => Demux!NothingLost
<1> SUFFICES ASSUME DInv PROVE Demux!NothingLost
  OBVIOUS
<1>1. AllCounted /\ Ordered
  BY DEF DInv, Past
<1>2. ASSUME ~Demux!Flushing, NEW u PROVE ~Open(u)
  <2>1. DOMAIN pes = {}
    BY <1>2 DEF Demux!Flushing
  <2> QED BY <2>1 DEF Open
<1> QED BY <1>1, <1>2, SameCount DEF Demux!NothingLost, AllCounted, Ordered

\* What comes out of the demultiplexer is what went in, described and all of it, for any streams,
\* clocks and bounds: on one time line the frames of one stream, and those of streams that were
\* first seen in the same turn of the clock; and shown when they were meant to be, unless the
\* clock wrapped between the two times of the first unit of their stream (demux.go: feedPES,
\* handleVideo, handleAudio, ptsUnwrapper, Flush).
THEOREM ComesOutAsItWentIn == MCSpec => []Faithful
<1>1. MCInit => DInv
  BY DemuxInitially DEF MCInit
<1>2. DInv /\ [MCNext]_MCvars => DInv'
  <2> SUFFICES ASSUME DInv, [MCNext]_MCvars PROVE DInv'
    OBVIOUS
  <2>1. Demux!Next \/ UNCHANGED demuxVars
    BY DEF MCNext, MCvars
  <2> QED BY <2>1, DemuxStep
<1>3. DInv => Faithful
  BY Aligns, Describes, LosesNone DEF Faithful, Demux!Faithful
<1> QED BY <1>1, <1>2, <1>3, PTL DEF MCSpec

=============================================================================
