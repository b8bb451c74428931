---------------------------- MODULE MCGraphQLSse ----------------------------
(* Instances of GraphQLSse for TLC.                                        *)
EXTENDS GraphQLSseLifecycle, TLC

CONSTANTS t1, t2, a, b, c1, c2, p1, p2, p3

Symmetric ==
  Permutations(Tokens) \cup Permutations(OperationIds)
    \cup Permutations(Connections) \cup Permutations(Posts)
=============================================================================
