-------------------------------- MODULE MCHub --------------------------------
(* Instances of Hub for TLC. *)
EXTENDS Hub

CONSTANTS c1, c2

TwoClients == {c1, c2}
=============================================================================
