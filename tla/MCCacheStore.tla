---------------------------- MODULE MCCacheStore ----------------------------
(* Instances of CacheStore for TLC: a short and a long content. *)
EXTENDS CacheStore, TLC

CONSTANTS short, long

MCData == {short, long}
MCSizeOf == (short :> 1) @@ (long :> 2)

\* The operations of the runs with several goroutines.
Racing == {"get", "put", "remove", "maintain"}

Symmetry == Permutations(Paths) \cup Permutations(Clients)

=============================================================================
