------------------------------ MODULE MCWsProtocol ------------------------------
(***************************************************************************)
(* Instances of WsProtocol for TLC: two ids, up to three streams.          *)
(***************************************************************************)
EXTENDS WsProtocol, TLC

CONSTANTS a, b, s1, s2, s3
================================================================================
