------------------------------- MODULE MCPipeline -------------------------------
(***************************************************************************)
(* An instance of Pipeline for TLC: a chain with two or one of everything, *)
(* and every assignment of exception types to the filters.                 *)
(***************************************************************************)
EXTENDS Pipeline, TLC

CONSTANTS f1, f2, f3, e1

OfController == <<f1, f2>>
OfRoot == <<f3>>
================================================================================
