---------------------------- MODULE MCGraphqlHttp ---------------------------
(***************************************************************************)
(* The instance of GraphqlHttp for TLC: two GETs and two POSTs of a token, *)
(* or a subscription that emits a few values.                              *)
(***************************************************************************)
EXTENDS GraphqlHttp, TLC

CONSTANTS a, b, c1, c2, s1, s2
=============================================================================
