---------------------------- MODULE DependencyOrder ----------------------------
(***************************************************************************)
(* What Stage 3 of the bootstrap (resolver.Resolve) promises, without its  *)
(* goroutines, channels and context: a set of units of work, each built    *)
(* after the units it needs have settled, and one verdict for the whole.   *)
(* A unit settles by being built or by failing; failing needs nobody else, *)
(* because a constructor may fail and the bootstrap context may expire at  *)
(* any time.                                                               *)
(***************************************************************************)
CONSTANT Unit     \* everything that may have to be built

VARIABLES
  needs,      \* the units of this bootstrap, each with the units it needs
  status,     \* what became of each unit so far
  verdict     \* what Resolve returned, once it did

vars == <<needs, status, verdict>>

Acyclic(graph) ==
  \A S \in SUBSET DOMAIN graph :
     S # {} => \E u \in S : graph[u] \cap S = {}

Init ==
  /\ \E U \in SUBSET Unit : needs \in [U -> SUBSET U]
  /\ status = [u \in DOMAIN needs |-> "open"]
  /\ verdict = "none"

Settled(u) == status[u] # "open"

Build(u) ==
  /\ verdict = "none"
  /\ Acyclic(needs)
  /\ ~ Settled(u)
  /\ \A v \in needs[u] : Settled(v)
  /\ status' = [status EXCEPT ![u] = "built"]
  /\ UNCHANGED <<needs, verdict>>

Fail(u) ==
  /\ verdict = "none"
  /\ Acyclic(needs)
  /\ ~ Settled(u)
  /\ status' = [status EXCEPT ![u] = "failed"]
  /\ UNCHANGED <<needs, verdict>>

\* Resolve returns nil exactly when everything was built.
Succeed ==
  /\ verdict = "none"
  /\ Acyclic(needs)
  /\ \A u \in DOMAIN needs : status[u] = "built"
  /\ verdict' = "ok"
  /\ UNCHANGED <<needs, status>>

GiveUp ==
  /\ verdict = "none"
  /\ \A u \in DOMAIN needs : Settled(u)
  /\ \E u \in DOMAIN needs : status[u] = "failed"
  /\ verdict' = "error"
  /\ UNCHANGED <<needs, status>>

Reject ==
  /\ verdict = "none"
  /\ ~ Acyclic(needs)
  /\ verdict' = "cycle"
  /\ UNCHANGED <<needs, status>>

Next ==
  \/ \E u \in DOMAIN needs : Build(u) \/ Fail(u)
  \/ Succeed \/ GiveUp \/ Reject

Spec == Init /\ [][Next]_vars
================================================================================
