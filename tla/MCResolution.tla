------------------------------ MODULE MCResolution ------------------------------
(***************************************************************************)
(* Instances of Resolution for TLC.  The providers and the edges are model *)
(* values; Init ranges over every dependency graph they can form, so the   *)
(* bounds are the number of each.                                          *)
(***************************************************************************)
EXTENDS Resolution, TLC

CONSTANTS n1, n2, n3, e1, e2

\* Symmetry reduction is unsound for liveness.  Instead, the first edge is
\* given the first names; every other graph is a renaming of one of these.
Named ==
  /\ pending[e1].owner = n1
  /\ pending[e1].target \in {n1, n2}

\* InjectAll occurs beside Inject, and overrides and Lazy values occur at the
\* first edge's target and in graphs that leave one provider alone;
\* a provider nobody injects and that injects nothing is a Singleton.
Mixed ==
  /\ pending[e1].kind = "one"
  /\ \A n \in Provider : decl[n].source # "constructor" =>
       n = pending[e1].target /\ n3 \notin {pending[e2].owner, pending[e2].target}
  /\ \A n \in Provider : decl[n].scope = "Transient" =>
       \E e \in Edge : n \in {pending[e].owner, pending[e].target}

NamedInit == Init /\ Named /\ Mixed
NamedFairSpec == NamedInit /\ [][Next]_vars /\ Fairness
================================================================================
