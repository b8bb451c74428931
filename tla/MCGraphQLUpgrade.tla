-------------------------- MODULE MCGraphQLUpgrade --------------------------
(***************************************************************************)
(* An instance of GraphQLUpgrade for TLC: the messages of one connection,  *)
(* and another upgrade at any time before, between and after them.         *)
(***************************************************************************)
EXTENDS GraphQLUpgrade, TLC

CONSTANTS u, v, c, d

MCUpgrades == {u, v}
MCCredentials == {c, d}
MCMaxMessages == u :> 3 @@ v :> 0
Symmetry == Permutations(MCCredentials)
=============================================================================
