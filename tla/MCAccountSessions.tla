-------------------------- MODULE MCAccountSessions -------------------------
(* An instance of AccountSessions for TLC.                                 *)
EXTENDS AccountSessions, TLC

Interchange == Permutations(Slots) \union Permutations(Tokens) \union Permutations(Links)
=============================================================================
