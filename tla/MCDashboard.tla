---------------------------- MODULE MCDashboard ----------------------------
(* What stands behind the dashboard, for TLC: the hub that pushes the state, the
   registry the commands change, the normalisation of what is read from disk. They
   share no state in these modules, so that one of them moves in each behaviour and
   Init chooses which. The registry has four scenarios, each a few kinds of
   commands on a few names. *)
EXTENDS Hub, Registry, TLC

VARIABLES raw, doc, passes
VARIABLES part,      \* which of them moves
          scenario   \* what the dashboards do with the registry

----------------------------------------------------------------------------
(* The registry.                                                           *)

Scenarios ==
  {[clients |-> {"c1"}, stops |-> FALSE, commands |-> 4, entries |-> 4, hooks |-> 4,
    kinds |-> {"add", "update", "remove", "enable", "disable", "add_preset"},
    named |-> {"a", "b", "s1", "g1", "p1", "p2"}],
   [clients |-> {"c1"}, stops |-> FALSE, commands |-> 5, entries |-> 4, hooks |-> 4,
    kinds |-> {"add", "update", "add_source", "update_source", "remove_source"},
    named |-> {"a", "s1", "s2", "g1", "p1"}],
   [clients |-> {"c1"}, stops |-> FALSE, commands |-> 5, entries |-> 3, hooks |-> 2,
    kinds |-> {"add", "update", "add_group", "remove_group", "enable_group", "disable_group",
               "add_preset", "update_preset", "remove_preset", "enable"},
    named |-> {"a", "b", "s1", "g1", "g2", "p1", "p2"}],
   [clients |-> {"c1", "c2"}, stops |-> TRUE, commands |-> 3, entries |-> 4, hooks |-> 2,
    kinds |-> {"add", "update", "remove", "enable", "add_source", "update_source",
               "remove_source", "add_group", "remove_group", "add_preset"},
    named |-> {"a", "b", "s1", "s2", "g1", "p1"}]}

\* What a command names.
Named(k) == {k[f] : f \in DOMAIN k \cap {"name", "to", "source", "group", "preset"}}

Within(s) ==
  /\ commands <= s.commands /\ created <= s.entries /\ hooks <= s.hooks /\ (stopping => s.stops)
  /\ \A c \in DOMAIN client : client[c].at = "act" =>
       c \in s.clients /\ client[c].cmd.kind \in s.kinds /\ Named(client[c].cmd) \subseteq s.named

----------------------------------------------------------------------------
(* Configurations as they may be read.                                     *)

Lists(S, n) == UNION {[1..k -> S] : k \in 0..n}
Ids == {<<>>, <<"a">>, <<"b">>, <<"a", "2">>}

NotInt == -99
Nil == -1
Normalize == INSTANCE Normalize WITH
  Groups <- Lists([id : Ids, name : {<<>>, <<"a">>, <<"b">>}, dflt : BOOLEAN], 3),
  Presets <-
    Lists([id : Ids, name : {<<>>, <<"b">>}, dflt : BOOLEAN, type : {"sequence"}, loop : {FALSE}], 3)
    \cup Lists([id : {<<"a">>}, name : {<<"a">>}, dflt : BOOLEAN, type : {"sequence", "folder", "?"},
                loop : BOOLEAN], 2),
  Sources <-
    Lists([name : {<<>>, <<"Main">>}, dflt : BOOLEAN, type : {"srt"}, vod_track : {FALSE},
           enhanced_broadcasting : {FALSE}, video_tracks : {0}, audio_tracks : {1}], 3)
    \cup Lists([name : {<<"Main">>}, dflt : {TRUE}, type : {"rtmp", "srt", "?"}, vod_track : BOOLEAN,
                enhanced_broadcasting : BOOLEAN, video_tracks : {NotInt, -1, 0, 5, 6},
                audio_tracks : {NotInt, 0, 1, 6, 7}], 1),
  Platforms <-
    Lists([name : {<<>>, <<"p">>}, type : {"rtmp", "srt", "?"}, vod_track : BOOLEAN,
           audio : {NotInt, -1, 0, 2}, audio_vod : {NotInt, 1, 3}, video : {NotInt, -2, -1, 0, 3},
           audio_map : {<<>>, <<Nil, 1>>, <<NotInt, 6, 5>>, <<0, 1, 2, 3, 4, 5, 6>>}], 1),
  MaxAudioSlots <- 6, MaxEBVideoTracks <- 5

ASSUME NormalizeAssumption == Normalize!Assumptions

----------------------------------------------------------------------------
(* One of the three.                                                       *)

normalizeVars == <<raw, doc, passes>>
MCvars == <<vars, registryVars, normalizeVars, part, scenario>>

Some == CHOOSE v \in Values : TRUE
Quiet == [kind |-> "groups", list |-> <<>>]

MCInit ==
  /\ RegistryInit
  /\ \/ part = "hub" /\ Init /\ scenario = "none" /\ raw = Quiet
     \/ part = "registry" /\ Init /\ status = Some
        /\ scenario \in Scenarios /\ raw = Quiet
     \/ part = "normalize" /\ Init /\ status = Some
        /\ scenario = "none" /\ raw \in Normalize!Documents
  /\ doc = raw /\ passes = 0

HubMoves == part = "hub" /\ Next /\ UNCHANGED <<registryVars, normalizeVars>>
RegistryMoves ==
  part = "registry" /\ RegistryNext /\ Within(scenario)' /\ UNCHANGED <<vars, normalizeVars>>
NormalizeMoves == part = "normalize" /\ Normalize!Next /\ UNCHANGED <<vars, registryVars>>

MCNext == UNCHANGED <<part, scenario>> /\ (HubMoves \/ RegistryMoves \/ NormalizeMoves)

MCSpec == MCInit /\ [][MCNext]_MCvars

Symmetry == Permutations(Clients)

----------------------------------------------------------------------------
(* Properties.                                                             *)

\* Normalising twice is normalising once (Normalize).
Idempotent == Normalize!Idempotent

=============================================================================
