--------------------------- MODULE MCRequestPath ---------------------------
(* Instances of RequestPath for TLC. *)
EXTENDS RequestPath, TLC

CONSTANTS index, package

\* An index path that lives for one tick, and packages as the default setting has them.
MCSetting == [p \in Paths |-> IF p = index THEN [amount |-> 1, unit |-> "h"]
                              ELSE [amount |-> 3, unit |-> "d"]]

Symmetry == Permutations(Clients)

=============================================================================
