---------------------------- MODULE MCServerLife ----------------------------
(* Values for the constants of ServerLife. *)
EXTENDS ServerLife

TwoServers == {"http", "admin"}
=============================================================================
