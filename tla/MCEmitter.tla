-------------------------------- MODULE MCEmitter --------------------------------
(***************************************************************************)
(* An instance of Emitter for TLC.  With a capacity of one, three events   *)
(* fill a subscriber's channels while its reader waits.                    *)
(***************************************************************************)
EXTENDS Emitter, TLC

CONSTANTS e1, e2, e3, l1, s1

\* Symmetry reduction is unsound for liveness.  Instead, the emissions begin in
\* the order of their names: Next, with that guard on Emit.  Every behaviour of
\* Spec is a renaming of one of these (fairness asks for no call of Emit).
InTurn(e) == (e = e2 => emission[e1] # "new") /\ (e = e3 => emission[e2] # "new")

OrderedNext ==
  \/ \E e \in Emission : (InTurn(e) /\ Emit(e)) \/ EmitStep(e)
  \/ \E e \in Emission, l \in Listener : ListenerEnds(e, l)
  \/ \E s \in Subscriber : Subscribe(s) \/ Forward(s) \/ Leave(s) \/ Read(s) \/ Finish(s)

OrderedFairSpec == Init /\ [][OrderedNext]_vars /\ Fairness
================================================================================
