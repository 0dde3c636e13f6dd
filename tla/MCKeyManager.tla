---------------------------- MODULE MCKeyManager ----------------------------
(* Instances of KeyManager for TLC. *)
EXTENDS KeyManager, TLC

CONSTANTS upper, lower

\* One key in two spellings, and whatever other names there are in upper case.
MCUpper == [n \in Names |-> IF n = lower THEN upper ELSE n]

Symmetry == Permutations(Procs)

=============================================================================
