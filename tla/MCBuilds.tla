------------------------------ MODULE MCBuilds ------------------------------
(* The parts that make the backup material, for TLC: the cache of prepared
   segments, the preparer of a platform with its playlist, the bitrate that is
   remembered. They share no state in these modules, so that one of them moves in
   each behaviour and Init chooses which. *)
EXTENDS Cache, Preparer, Bitrate

\* The files of a preset with a start segment and a folder.
StartFile == <<"start">>
FolderFiles == <<"f1", "f2">>

\* videoLadder of the code.
VideoLadder == <<1000, 1500, 2000, 2500, 3000, 3500, 4000, 4500, 5000, 6000, 7000, 8000, 10000,
                 12000, 16000, 20000>>

VARIABLE part   \* which of them moves

MCvars == <<cacheVars, preparerVars, bitrateVars, part>>

MCInit ==
  /\ part \in {"cache", "preparer", "bitrate"}
  /\ CacheInit /\ PreparerInit /\ BitrateInit

OfCache(A) == part = "cache" /\ A /\ UNCHANGED <<preparerVars, bitrateVars, part>>
OfPreparer(A) == part = "preparer" /\ A /\ UNCHANGED <<cacheVars, bitrateVars, part>>
OfBitrate(A) == part = "bitrate" /\ A /\ UNCHANGED <<cacheVars, preparerVars, part>>

MCNext == OfCache(CacheNext) \/ OfPreparer(PreparerNext) \/ OfBitrate(BitrateNext)

\* With the fairness of the cache.
MCSpec ==
  /\ MCInit /\ [][MCNext]_MCvars
  /\ \A c \in Callers : WF_MCvars(OfCache(Goes(c))) /\ SF_MCvars(OfCache(TakeSlot(c)))

\* Every call of the cache returns, in the behaviours in which the cache moves.
EveryCallReturns == part = "cache" => CallsReturn

=============================================================================
