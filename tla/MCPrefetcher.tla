---------------------------- MODULE MCPrefetcher ----------------------------
(* Instances of Prefetcher for TLC. *)
EXTENDS Prefetcher

CONSTANTS r1, h1, h2

\* The first handler has one URL, the second has the others.
MCOwnerOf == [r \in Reqs |-> IF r = r1 THEN h1 ELSE h2]

=============================================================================
