-------------------------- MODULE MCClientSession --------------------------
(* An instance of ClientSession for TLC.                                   *)
EXTENDS ClientSession

CONSTANTS a, c1, c2
=============================================================================
