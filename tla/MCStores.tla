------------------------------- MODULE MCStores -------------------------------
(* Two components that share nothing, checked in one run: each behaviour   *)
(* moves the one chosen by its first state.                                *)
EXTENDS SnapshotCache, CandleStore

VARIABLE part

MCInit == part \in {"cache", "file"} /\ CacheInit /\ StoreInit
MCNext ==
  /\ UNCHANGED part
  /\ \/ part = "cache" /\ CacheNext /\ UNCHANGED storeVars
     \/ part = "file" /\ StoreNext /\ UNCHANGED cacheVars
MCSpec == MCInit /\ [][MCNext]_<<part, cacheVars, storeVars>> /\ (part = "file" => StoreFairness)

MCListed == {1, 2, 4}
=============================================================================
