---------------------------- MODULE BoundedCache ----------------------------
(***************************************************************************)
(* What the file cache promises to clients that take turns: a map from      *)
(* paths to contents in which a Put makes its own path readable and may     *)
(* forget others, a Get answers with the last content put, and whatever is  *)
(* forgotten to make room is forgotten in least-recently-used order.        *)
(***************************************************************************)
CONSTANTS Paths, Data, Clients, None

VARIABLES
  content,   \* what each path holds, None when it is not cached
  older,     \* the pairs of cached paths of which the first was used earlier
  reply      \* answer of each client's last Get

vars == <<content, older, reply>>

Init ==
  /\ content = [p \in Paths |-> None]
  /\ older = {}
  /\ reply = [c \in Clients |-> None]

Cached == {p \in Paths : content[p] # None}

Without(victims) == [p \in Paths |-> IF p \in victims THEN None ELSE content[p]]

\* Of the paths in S, those in V were all used before the others.
LeastUsed(V, S) == V \subseteq S /\ \A q \in V, r \in S : <<r, q>> \in older => r \in V

Among(S) == older \cap (S \X S)
\* p becomes the most recently used path of S.
Touched(S, p) == Among(S \ {p}) \cup ((S \ {p}) \X {p})

Put(p, d) ==
  /\ \E V \in SUBSET Cached :
       /\ LeastUsed(V, Cached \ {p})
       /\ content' = [Without(V) EXCEPT ![p] = d]
       /\ older' = Touched(Cached \ V, p)
  /\ UNCHANGED reply

Get(c, p) ==
  /\ reply' = [reply EXCEPT ![c] = content[p]]
  /\ older' = IF p \in Cached THEN Touched(Cached, p) ELSE older
  /\ UNCHANGED content

Forget(p) ==
  /\ content' = Without({p})
  /\ older' = Among(Cached \ {p})
  /\ UNCHANGED reply

\* A sweep by age: administrative flush, stale items, maintenance.
Evict ==
  /\ \E V \in SUBSET Cached :
       LeastUsed(V, Cached) /\ content' = Without(V) /\ older' = Among(Cached \ V)
  /\ UNCHANGED reply

Next ==
  \/ \E p \in Paths : Forget(p) \/ (\E d \in Data : Put(p, d)) \/ (\E c \in Clients : Get(c, p))
  \/ Evict

Spec == Init /\ [][Next]_vars

=============================================================================
