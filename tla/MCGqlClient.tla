------------------------------ MODULE MCGqlClient ------------------------------
(* Model-checking instance of GqlClient: every list of up to three GraphQL *)
(* errors, so that each message can come before and after each other one.  *)
EXTENDS GqlClient

CONSTANTS u1, u2

MCServerUris == {u1, u2}
=============================================================================
