------------------------------- MODULE MCBootstrap -------------------------------
(***************************************************************************)
(* Instances of Bootstrap for TLC.  The set of scripts is the union of     *)
(* three families, each of which varies what one part of NewApp depends    *)
(* on: the module graph, the dependency graph, and the calls of NewApp.    *)
(***************************************************************************)
EXTENDS Bootstrap, TLC

CONSTANTS m1, m2, m3, p1, p2, p3, c1, t1, t2, t3

Place(x, where) == [m \in Module |-> IF m = where THEN <<x>> ELSE <<>>]
Both(f, g) == [m \in Module |-> f[m] \o g[m]]
Nowhere == [m \in Module |-> <<>>]
Sometimes(s) == {<<>>, s}

\* Which Provider a module sees: two construct t1, in m2 or m3, and p3 in m1
\* and the Controller ask for it.  m2 may export what it did not declare.
ModuleGraphs ==
  { [imports |-> m1 :> ia @@ m2 :> ib @@ m3 :> ic,
     providers |-> Both(Both(Place(p1, mp), Place(p2, mq)), Place(p3, m1)),
     exports |-> Both(Place(p1, ep), Place(p2, eq)),
     reexports |-> m1 :> <<>> @@ m2 :> rb @@ m3 :> rc,
     controllers |-> Place(c1, mk),
     lazy |-> [m \in Module |-> NoType],
     constructs |-> p1 :> t1 @@ p2 :> t1 @@ p3 :> t2,
     needs |-> p1 :> {} @@ p2 :> {} @@ p3 :> {t1} @@ c1 :> {t1},
     roots |-> <<m1>>] :
    ia \in {<<m2>>, <<m2, m3>>, <<m3, m2>>}, ib \in {<<>>, <<m3>>, <<m1>>, <<m3, m1>>},
    ic \in Sometimes(<<m2>>), rb \in Sometimes(<<m3>>), rc \in Sometimes(<<m2>>),
    mp \in {m2, m3}, mq \in {m2, m3}, ep \in {m2, NoModule}, eq \in {m2, m3, NoModule},
    mk \in {m1, m2} }

\* Which Providers depend on each other, in two modules that import each other.
DependencyGraphs ==
  { [imports |-> m1 :> <<m2>> @@ m2 :> <<m1>> @@ m3 :> <<>>,
     providers |-> m1 :> <<p1, p2>> @@ m2 :> <<p3>> @@ m3 :> <<>>,
     exports |-> m1 :> <<p1, p2>> @@ m2 :> <<p3>> @@ m3 :> <<>>,
     reexports |-> Nowhere, controllers |-> Nowhere,
     lazy |-> [m \in Module |-> NoType],
     constructs |-> p1 :> t1 @@ p2 :> t2 @@ p3 :> t3,
     needs |-> p1 :> np @@ p2 :> nq @@ p3 :> nr @@ c1 :> {},
     roots |-> <<m1>>] :
    np \in SUBSET {t1, t2, t3}, nq \in SUBSET {t1, t2, t3}, nr \in SUBSET {t1, t2} }

\* Calls of NewApp one after the other, on the same or on another tree, with
\* and without a Controller and a Lazy callback.
Calls ==
  { [imports |-> m1 :> <<m2>> @@ m2 :> <<>> @@ m3 :> <<m2>>,
     providers |-> m1 :> <<p1>> @@ m2 :> <<p2>> @@ m3 :> pc,
     exports |-> Place(p2, m2),
     reexports |-> Nowhere,
     controllers |-> Place(c1, mk),
     lazy |-> [m \in Module |-> IF m = ml THEN tl ELSE NoType],
     constructs |-> p1 :> t1 @@ p2 :> t2 @@ p3 :> t3,
     needs |-> p1 :> np @@ p2 :> {} @@ p3 :> {} @@ c1 :> {t2},
     roots |-> rs] :
    pc \in Sometimes(<<p1>>), mk \in {m1, m2, m3, NoModule}, ml \in {m1, m2}, tl \in {NoType, t1, t2},
    np \in {{}, {t2}}, rs \in {<<m1, m1>>, <<m1, m3>>, <<m2, m1>>} }

AllScripts == ModuleGraphs \cup DependencyGraphs \cup Calls
CallScripts == Calls
================================================================================
