----------------------------- MODULE MCAppLifecycle -----------------------------
(***************************************************************************)
(* An instance of AppLifecycle for TLC: a root module that imports a leaf, *)
(* each with one provider.                                                 *)
(***************************************************************************)
EXTENDS AppLifecycle, TLC

CONSTANTS root, leaf, p1, p2, c1, c2, w1, w2

RootAndLeaf == <<root, leaf>>

OwnEach == root :> <<p1>> @@ leaf :> <<p2>>
================================================================================
