---------------------------- MODULE Resolution_proofs ----------------------------
(***************************************************************************)
(* Proofs about Resolution: the invariant IInv holds of every bootstrap,   *)
(* whatever the providers, the edges, their scopes and their sources, and  *)
(* the safety properties follow from it.                                   *)
(***************************************************************************)
EXTENDS Resolution, TLAPS

\* A Stage 3 that has not begun satisfies the invariant.
LEMMA InitInvariant == Init => IInv
<1> SUFFICES ASSUME Init PROVE IInv
  OBVIOUS
<1>1. TypeOK
  BY ResolutionAssumption DEF Init, TypeOK, Values, Unit
<1>2. MainInv /\ RoutineInv /\ OrderInv
  BY DEF Init, MainInv, RoutineInv, OrderInv, Over, Unit
<1>3. SlotInv
  BY DEF Init, SlotInv, Over, Unit, Task
<1>4. ErrorInv
  BY DEF Init, ErrorInv, RootCauseReported, Unit, Task
<1> QED BY <1>1, <1>2, <1>3, <1>4 DEF IInv

\* The inputs of Stage 3 do not change, so nothing computed from them does.
LEMMA InputsFixed ==
  ASSUME UNCHANGED inputs
  PROVE  /\ \A n \in Provider : (Transient(n)' <=> Transient(n)) /\ Deps(n)' = Deps(n)
         /\ \A e \in Edge : OwnRoutine(e)' <=> OwnRoutine(e)
         /\ \A t \in Unit : Instance(t)' = Instance(t) /\ Slots(t)' = Slots(t)
         /\ Task' = Task
         /\ Acyclic' <=> Acyclic
  BY DEF inputs, Transient, Deps, OwnRoutine, Instance, Subject, Slots, Task, Acyclic

\* What a routine of the group is, whatever its control state.
LEMMA TaskFacts ==
  ASSUME IInv, NEW t \in Task
  PROVE  /\ t \in Unit
         /\ Subject(t) \in Provider
         /\ Instance(t) \in Unit
         /\ Instance(t) # NoInstance
         /\ t \in Provider => Subject(t) = t /\ t \notin Edge /\ Slots(t) \subseteq Edge
         /\ t \in Edge => /\ t \notin Provider
                          /\ Subject(t) = pending[t].target
                          /\ Transient(pending[t].target)
                          /\ pending[t].kind = "one"
                          /\ Slots(t) = {t}
BY ResolutionAssumption
   DEF IInv, TypeOK, Task, Unit, Subject, Instance, Slots, OwnRoutine

\* A routine publishes its instance and its function returns nil.
LEMMA PublishStep ==
  ASSUME IInv, NEW t \in Task,
         routine[t] \in {"waiting", "constructing"}, main = "wait",
         t \in Provider => ~ Transient(t) /\ Deps(t) \subseteq done,
         t \in Edge => pending[t].target \in done,
         Return(t, "nil"), Publish(t),
         UNCHANGED <<inputs, resolving, main, done, cancelled, timedOut, groupErr>>
  PROVE  IInv'
<1>1. UNCHANGED inputs
  BY DEF inputs
<1>2. /\ UNCHANGED <<pending, decl, resolving, main, done, cancelled, timedOut, groupErr>>
      /\ routine' = [routine EXCEPT ![t] = "finished"]
      /\ err' = [err EXCEPT ![t] = "nil"]
  BY DEF Return, Goto, inputs
<1>3. /\ t \in Unit
      /\ t \in Provider => t \notin Edge
      /\ t \in Edge => t \notin Provider
  BY TaskFacts
<1>4. TypeOK
  BY DEF IInv
<1>5. /\ holds' \in [Edge -> Values]
      /\ \A e \in Edge : holds'[e] = IF e \in Slots(t) /\ pending[e].fits
                                     THEN Instance(t) ELSE holds[e]
      /\ resolved' \in [Provider -> Values]
      /\ \A n \in Provider : resolved'[n] = IF n = Subject(t) THEN Instance(t)
                                            ELSE resolved[n]
  BY <1>4, TaskFacts DEF TypeOK, Publish, Values
<1>6. TypeOK'
  BY <1>2, <1>4, <1>5 DEF TypeOK
<1>7. MainInv'
  BY <1>1, <1>2, <1>3, <1>4, InputsFixed DEF IInv, TypeOK, MainInv
<1>8. RoutineInv'
  BY <1>1, <1>2, <1>3, <1>4, InputsFixed DEF IInv, TypeOK, RoutineInv, Over
<1>9. OrderInv'
  BY <1>1, <1>2, <1>3, <1>4, InputsFixed DEF IInv, TypeOK, OrderInv, Over, Unit
<1>10. SlotInv'
  <2>1. \A e \in Edge : holds'[e] # NoInstance =>
          IF Transient(pending[e].target)
          THEN OwnRoutine(e) /\ holds'[e] = Instance(e)
          ELSE holds'[e] = Instance(pending[e].target)
    <3> SUFFICES ASSUME NEW e \in Edge, holds'[e] # NoInstance
                 PROVE  IF Transient(pending[e].target)
                        THEN OwnRoutine(e) /\ holds'[e] = Instance(e)
                        ELSE holds'[e] = Instance(pending[e].target)
      OBVIOUS
    <3>1. CASE ~ (e \in Slots(t) /\ pending[e].fits)
      BY <1>5, <3>1 DEF IInv, SlotInv
    <3>2. CASE e \in Slots(t) /\ pending[e].fits /\ t \in Provider
      BY <1>5, <3>2 DEF Slots
    <3>3. CASE e \in Slots(t) /\ pending[e].fits /\ t \in Edge
      BY <1>5, <3>3, TaskFacts DEF OwnRoutine
    <3> QED BY <1>3, <3>1, <3>2, <3>3 DEF Unit
  <2>2. \A u \in Task : (routine'[u] \in Over /\ err'[u] = "nil") =>
          \A e \in Slots(u) :
            (pending[e].fits /\ (u \in Edge \/ ~ Transient(u))) => holds'[e] = Instance(u)
    <3> SUFFICES ASSUME NEW u \in Task, routine'[u] \in Over, err'[u] = "nil",
                        NEW e \in Slots(u), pending[e].fits, u \in Edge \/ ~ Transient(u)
                 PROVE  holds'[e] = Instance(u)
      OBVIOUS
    <3>1. e \in Edge /\ u \in Unit
      BY TaskFacts DEF Unit
    <3>2. CASE u = t
      BY <1>5, <3>1, <3>2
    <3>3. CASE u # t
      <4>1. routine[u] \in Over /\ err[u] = "nil"
        BY <1>2, <1>4, <3>1, <3>3 DEF TypeOK
      <4>2. holds[e] = Instance(u)
        BY <4>1 DEF IInv, SlotInv
      <4>3. e \notin Slots(t)
        BY <1>3, <3>1, <3>3, TaskFacts DEF Unit, Slots
      <4> QED BY <1>5, <3>1, <4>2, <4>3
    <3> QED BY <3>2, <3>3
  <2>3. \A n \in Provider : (routine'[n] \in Over /\ err'[n] = "nil" /\ ~ Transient(n)) =>
          resolved'[n] = Instance(n)
    <3> SUFFICES ASSUME NEW n \in Provider, routine'[n] \in Over, err'[n] = "nil",
                        ~ Transient(n)
                 PROVE  resolved'[n] = Instance(n)
      OBVIOUS
    <3>1. CASE n = t
      BY <1>5, <3>1, TaskFacts
    <3>2. CASE n # t
      <4>1. routine[n] \in Over /\ err[n] = "nil"
        BY <1>2, <1>4, <3>2 DEF TypeOK, Unit
      <4>2. n # Subject(t)
        BY <1>3, <3>2, TaskFacts DEF Unit
      <4> QED BY <1>5, <4>1, <4>2 DEF IInv, SlotInv
    <3> QED BY <3>1, <3>2
  <2> QED BY <1>2, <2>1, <2>2, <2>3
             DEF SlotInv, Task, Transient, OwnRoutine, Instance, Subject, Slots, Unit
<1>11. ErrorInv'
  BY <1>1, <1>2, <1>3, <1>4, InputsFixed DEF IInv, TypeOK, ErrorInv, RootCauseReported
<1> QED BY <1>6, <1>7, <1>8, <1>9, <1>10, <1>11 DEF IInv

\* A routine goes on without publishing anything: it starts its Constructor,
\* or its function returns.
LEMMA MoveStep ==
  ASSUME IInv, NEW t \in Task,
         NEW state \in {"constructing", "finished"},
         NEW e \in {"nil", "constructor", "context"},
         routine[t] \in {"waiting", "constructing"}, main = "wait",
         state = "constructing" => e = "nil",
         e = "context" => cancelled,
         e = "nil" => IF t \in Provider
                      THEN /\ Transient(t) <=> state = "finished"
                           /\ Deps(t) \subseteq done
                      ELSE pending[t].target \in done /\ state = "constructing",
         Goto(t, state), err' = [err EXCEPT ![t] = e],
         UNCHANGED <<inputs, resolving, main, done, cancelled, timedOut, groupErr,
                     holds, resolved>>
  PROVE  IInv'
<1>1. UNCHANGED inputs
  BY DEF inputs
<1>2. /\ UNCHANGED <<pending, decl, resolving, main, done, cancelled, timedOut, groupErr,
                     holds, resolved>>
      /\ routine' = [routine EXCEPT ![t] = state]
  BY DEF Goto, inputs
<1>3. /\ t \in Unit
      /\ t \in Provider => t \notin Edge
      /\ t \in Edge => t \notin Provider
  BY TaskFacts
<1>4. TypeOK
  BY DEF IInv
<1>6. TypeOK'
  BY <1>2, <1>4 DEF TypeOK
<1>7. MainInv'
  BY <1>1, <1>2, <1>3, <1>4, InputsFixed DEF IInv, TypeOK, MainInv
<1>8. RoutineInv'
  BY <1>1, <1>2, <1>3, <1>4, InputsFixed DEF IInv, TypeOK, RoutineInv, Over
<1>9. OrderInv'
  BY <1>1, <1>2, <1>3, <1>4, InputsFixed DEF IInv, TypeOK, OrderInv, Over, Unit
<1>10. SlotInv'
  <2>1. \A u \in Task : (routine'[u] \in Over /\ err'[u] = "nil"
                           /\ (u \in Edge \/ ~ Transient(u))) =>
          routine[u] \in Over /\ err[u] = "nil"
    BY <1>2, <1>3, <1>4 DEF TypeOK, Task, Over, Unit
  <2>2. Provider \subseteq Task
    BY DEF Task, Unit
  <2> QED BY <1>2, <2>1, <2>2
          DEF IInv, SlotInv, Task, Transient, OwnRoutine, Instance, Subject, Slots, Unit
<1>11. ErrorInv'
  BY <1>1, <1>2, <1>3, <1>4, InputsFixed DEF IInv, TypeOK, ErrorInv, RootCauseReported
<1> QED BY <1>6, <1>7, <1>8, <1>9, <1>10, <1>11 DEF IInv

\* A cycle ends the bootstrap before any goroutine starts.
LEMMA RejectCycleStep ==
  ASSUME IInv, RejectCycle
  PROVE  IInv'
<1> USE ResolutionAssumption DEF IInv, inputs, RejectCycle
<1>1. TypeOK'
  BY DEF TypeOK, Values, Unit, Instance, Subject, Task
<1>2. MainInv'
  <2>1. UNCHANGED inputs /\ Task \subseteq Unit
    BY DEF Task
  <2>2. (Acyclic' <=> Acyclic) /\ Task' = Task
    BY <2>1, InputsFixed
  <2> QED BY <2>1, <2>2 DEF TypeOK, MainInv, RoutineInv
<1>3. RoutineInv'
  BY DEF TypeOK, RoutineInv, MainInv, Over, Unit, Task, OwnRoutine, Transient
<1>4. OrderInv'
  BY DEF TypeOK, OrderInv, MainInv, RoutineInv, Over, Unit, Deps, Transient, Task, OwnRoutine
<1>5. SlotInv'
  BY DEF TypeOK, SlotInv, MainInv, RoutineInv, Over, Unit, Task, OwnRoutine, Transient, Slots, Instance, Subject
<1>6. ErrorInv'
  BY DEF TypeOK, ErrorInv, RootCauseReported, MainInv, RoutineInv, Over, Unit, Task, OwnRoutine, Transient
<1> QED BY <1>1, <1>2, <1>3, <1>4, <1>5, <1>6

\* The goroutines start waiting, each of them a task.
LEMMA LaunchStep ==
  ASSUME IInv, Launch
  PROVE  IInv'
<1> USE ResolutionAssumption DEF IInv, inputs, Launch
<1>1. TypeOK'
  BY DEF TypeOK, Values, Unit, Instance, Subject, Task
<1>2. MainInv'
  <2>1. UNCHANGED inputs /\ Task \subseteq Unit
    BY DEF Task
  <2>2. (Acyclic' <=> Acyclic) /\ Task' = Task
    BY <2>1, InputsFixed
  <2> QED BY <2>1, <2>2 DEF TypeOK, MainInv, RoutineInv
<1>3. RoutineInv'
  BY DEF TypeOK, RoutineInv, MainInv, Over, Unit, Task, OwnRoutine, Transient
<1>4. OrderInv'
  BY DEF TypeOK, OrderInv, MainInv, RoutineInv, Over, Unit, Deps, Transient, Task, OwnRoutine
<1>5. SlotInv'
  BY DEF TypeOK, SlotInv, MainInv, RoutineInv, Over, Unit, Task, OwnRoutine, Transient, Slots, Instance, Subject
<1>6. ErrorInv'
  BY DEF TypeOK, ErrorInv, RootCauseReported, MainInv, RoutineInv, Over, Unit, Task, OwnRoutine, Transient
<1> QED BY <1>1, <1>2, <1>3, <1>4, <1>5, <1>6

\* waitDeps returns nil: the goroutine constructs, publishes or just returns.
LEMMA DepsReadyStep ==
  ASSUME IInv, NEW n \in Provider, DepsReady(n)
  PROVE  IInv'
<1>1. n \in Task /\ main = "wait" /\ routine[n] = "waiting" /\ Deps(n) \subseteq done
  <2>1. n \in Task
    BY DEF Task, Unit
  <2> QED BY <2>1 DEF DepsReady, IInv, TypeOK, MainInv, Unit
<1>2. CASE Transient(n)
  BY <1>1, <1>2, MoveStep DEF DepsReady, Return
<1>3. CASE ~ Transient(n) /\ decl[Subject(n)].source = "constructor"
  <2>1. err' = [err EXCEPT ![n] = "nil"]
    BY <1>1, <1>3 DEF DepsReady, Proceed, IInv, TypeOK, RoutineInv, Over, Unit
  <2> QED BY <1>1, <1>3, <2>1, MoveStep DEF DepsReady, Proceed
<1>4. CASE ~ Transient(n) /\ decl[Subject(n)].source # "constructor"
  <2>1. n \notin Edge
    BY ResolutionAssumption
  <2> QED BY <1>1, <1>4, <2>1, PublishStep DEF DepsReady, Proceed
<1> QED BY <1>2, <1>3, <1>4

\* The target of a Transient edge is done: its goroutine goes on.
LEMMA TargetReadyStep ==
  ASSUME IInv, NEW e \in Edge, TargetReady(e)
  PROVE  IInv'
<1>1. /\ e \in Task /\ main = "wait" /\ routine[e] = "waiting"
      /\ pending[e].target \in done /\ e \notin Provider
  <2>1. e \in Unit /\ routine[e] = "waiting"
    BY DEF TargetReady, Unit
  <2>2. e \in Task
    BY <2>1 DEF IInv, RoutineInv
  <2> QED BY <2>1, <2>2, TaskFacts DEF TargetReady, IInv, TypeOK, MainInv
<1>2. CASE decl[Subject(e)].source = "constructor"
  <2>1. err' = [err EXCEPT ![e] = "nil"]
    BY <1>1, <1>2 DEF TargetReady, Proceed, IInv, TypeOK, RoutineInv, Over, Unit
  <2> QED BY <1>1, <1>2, <2>1, MoveStep DEF TargetReady, Proceed
<1>3. CASE decl[Subject(e)].source # "constructor"
  BY <1>1, <1>3, PublishStep DEF TargetReady, Proceed
<1> QED BY <1>2, <1>3

\* A wait that gives up returns the context's error, and the context is done.
LEMMA WaitCancelledStep ==
  ASSUME IInv, NEW t \in Unit, WaitCancelled(t)
  PROVE  IInv'
<1>1. t \in Task /\ main = "wait"
  BY DEF WaitCancelled, IInv, TypeOK, RoutineInv, MainInv, Task
<1> QED BY <1>1, MoveStep DEF WaitCancelled, Return

\* A Constructor that returns is published.
LEMMA ConstructorReturnsStep ==
  ASSUME IInv, NEW t \in Unit, ConstructorReturns(t)
  PROVE  IInv'
<1>1. t \in Task /\ main = "wait" /\ routine[t] = "constructing"
  BY DEF ConstructorReturns, IInv, TypeOK, RoutineInv, MainInv, Task
<1>2. /\ t \in Provider => ~ Transient(t) /\ Deps(t) \subseteq done
      /\ t \in Edge => pending[t].target \in done
  BY <1>1 DEF IInv, OrderInv
<1> QED BY <1>1, <1>2, PublishStep DEF ConstructorReturns

\* A Constructor that fails publishes nothing.
LEMMA ConstructorFailsStep ==
  ASSUME IInv, NEW t \in Unit, ConstructorFails(t)
  PROVE  IInv'
<1>1. t \in Task /\ main = "wait" /\ routine[t] = "constructing"
  BY DEF ConstructorFails, IInv, TypeOK, RoutineInv, MainInv, Task
<1> QED BY <1>1, MoveStep DEF ConstructorFails, Return

\* The done channel is closed by a function that is over.
LEMMA CloseDoneStep ==
  ASSUME IInv, NEW n \in Provider, CloseDone(n)
  PROVE  IInv'
<1> USE ResolutionAssumption DEF IInv, inputs, CloseDone, Goto
<1>1. TypeOK'
  BY DEF TypeOK, Values, Unit, Instance, Subject, Task
<1>2. MainInv'
  <2>1. UNCHANGED inputs /\ Task \subseteq Unit
    BY DEF Task
  <2>2. (Acyclic' <=> Acyclic) /\ Task' = Task
    BY <2>1, InputsFixed
  <2> QED BY <2>1, <2>2 DEF TypeOK, MainInv, RoutineInv
<1>3. RoutineInv'
  BY DEF TypeOK, RoutineInv, MainInv, Over, Unit, Task, OwnRoutine, Transient
<1>4. OrderInv'
  BY DEF TypeOK, OrderInv, MainInv, RoutineInv, Over, Unit, Deps, Transient, Task, OwnRoutine
<1>5. SlotInv'
  BY DEF TypeOK, SlotInv, MainInv, RoutineInv, Over, Unit, Task, OwnRoutine, Transient, Slots, Instance, Subject
<1>6. ErrorInv'
  BY DEF TypeOK, ErrorInv, RootCauseReported, MainInv, RoutineInv, Over, Unit, Task, OwnRoutine, Transient
<1> QED BY <1>1, <1>2, <1>3, <1>4, <1>5, <1>6

\* The group keeps the first error, and cancels the context with it.
LEMMA GroupRecordsStep ==
  ASSUME IInv, NEW t \in Unit, GroupRecords(t)
  PROVE  IInv'
<1> USE ResolutionAssumption DEF IInv, inputs, GroupRecords, Goto
<1>1. TypeOK'
  BY DEF TypeOK, Values, Unit, Instance, Subject, Task
<1>2. MainInv'
  <2>1. UNCHANGED inputs /\ Task \subseteq Unit
    BY DEF Task
  <2>2. (Acyclic' <=> Acyclic) /\ Task' = Task
    BY <2>1, InputsFixed
  <2> QED BY <2>1, <2>2 DEF TypeOK, MainInv, RoutineInv
<1>3. RoutineInv'
  BY DEF TypeOK, RoutineInv, MainInv, Over, Unit, Task, OwnRoutine, Transient
<1>4. OrderInv'
  BY DEF TypeOK, OrderInv, MainInv, RoutineInv, Over, Unit, Deps, Transient, Task, OwnRoutine
<1>5. SlotInv'
  BY DEF TypeOK, SlotInv, MainInv, RoutineInv, Over, Unit, Task, OwnRoutine, Transient, Slots, Instance, Subject
<1>6. ErrorInv'
  BY DEF TypeOK, ErrorInv, RootCauseReported, MainInv, RoutineInv, Over, Unit, Task, OwnRoutine, Transient
<1> QED BY <1>1, <1>2, <1>3, <1>4, <1>5, <1>6

\* The timeout cancels the context and changes nothing else.
LEMMA TimeoutStep ==
  ASSUME IInv, Timeout
  PROVE  IInv'
<1> USE ResolutionAssumption DEF IInv, inputs, Timeout
<1>1. TypeOK'
  BY DEF TypeOK, Values, Unit, Instance, Subject, Task
<1>2. MainInv'
  <2>1. UNCHANGED inputs /\ Task \subseteq Unit
    BY DEF Task
  <2>2. (Acyclic' <=> Acyclic) /\ Task' = Task
    BY <2>1, InputsFixed
  <2> QED BY <2>1, <2>2 DEF TypeOK, MainInv, RoutineInv
<1>3. RoutineInv'
  BY DEF TypeOK, RoutineInv, MainInv, Over, Unit, Task, OwnRoutine, Transient
<1>4. OrderInv'
  BY DEF TypeOK, OrderInv, MainInv, RoutineInv, Over, Unit, Deps, Transient, Task, OwnRoutine
<1>5. SlotInv'
  BY DEF TypeOK, SlotInv, MainInv, RoutineInv, Over, Unit, Task, OwnRoutine, Transient, Slots, Instance, Subject
<1>6. ErrorInv'
  BY DEF TypeOK, ErrorInv, RootCauseReported, MainInv, RoutineInv, Over, Unit, Task, OwnRoutine, Transient
<1> QED BY <1>1, <1>2, <1>3, <1>4, <1>5, <1>6

\* Resolve returns when every task has ended.
LEMMA ResolveReturnsStep ==
  ASSUME IInv, ResolveReturns
  PROVE  IInv'
<1> USE ResolutionAssumption DEF IInv, inputs, ResolveReturns
<1>1. TypeOK'
  BY DEF TypeOK, Values, Unit, Instance, Subject, Task
<1>2. MainInv'
  <2>1. UNCHANGED inputs /\ Task \subseteq Unit
    BY DEF Task
  <2>2. (Acyclic' <=> Acyclic) /\ Task' = Task
    BY <2>1, InputsFixed
  <2> QED BY <2>1, <2>2 DEF TypeOK, MainInv, RoutineInv
<1>3. RoutineInv'
  BY DEF TypeOK, RoutineInv, MainInv, Over, Unit, Task, OwnRoutine, Transient
<1>4. OrderInv'
  BY DEF TypeOK, OrderInv, MainInv, RoutineInv, Over, Unit, Deps, Transient, Task, OwnRoutine
<1>5. SlotInv'
  BY DEF TypeOK, SlotInv, MainInv, RoutineInv, Over, Unit, Task, OwnRoutine, Transient, Slots, Instance, Subject
<1>6. ErrorInv'
  BY DEF TypeOK, ErrorInv, RootCauseReported, MainInv, RoutineInv, Over, Unit, Task, OwnRoutine, Transient
<1> QED BY <1>1, <1>2, <1>3, <1>4, <1>5, <1>6

\* Every step of Next, and a stuttering step, keeps the invariant.
LEMMA NextInvariant == IInv /\ [Next]_vars => IInv'
<1> SUFFICES ASSUME IInv, [Next]_vars PROVE IInv'
  OBVIOUS
<1>1. CASE MainStep
  BY <1>1, RejectCycleStep, LaunchStep, ResolveReturnsStep DEF MainStep
<1>2. CASE \E n \in Provider : ProviderStep(n)
  BY <1>2, DepsReadyStep, CloseDoneStep DEF ProviderStep
<1>3. CASE \E e \in Edge : TargetReady(e)
  BY <1>3, TargetReadyStep
<1>4. CASE \E t \in Unit : RoutineStep(t)
  BY <1>4, WaitCancelledStep, ConstructorReturnsStep, ConstructorFailsStep,
     GroupRecordsStep DEF RoutineStep
<1>5. CASE Timeout
  BY <1>5, TimeoutStep
<1>6. CASE UNCHANGED vars
  <2>1. UNCHANGED <<inputs, resolving, main, routine, err, done, cancelled, timedOut,
                    groupErr, holds, resolved>>
    BY <1>6 DEF vars, inputs
  <2>2. TypeOK' /\ RoutineInv' /\ OrderInv'
    BY <2>1 DEF inputs, IInv, TypeOK, RoutineInv, OrderInv, Task, Transient, OwnRoutine, Deps
  <2>3. MainInv' /\ ErrorInv'
    BY <2>1, InputsFixed DEF IInv, MainInv, ErrorInv, RootCauseReported
  <2>4. SlotInv'
    BY <2>1 DEF inputs, IInv, SlotInv, Task, Transient, OwnRoutine, Instance, Subject, Slots
  <2> QED BY <2>2, <2>3, <2>4 DEF IInv
<1> QED BY <1>1, <1>2, <1>3, <1>4, <1>5, <1>6 DEF Next, Terminated

\* The inductive invariant holds of every bootstrap.
THEOREM Invariance == Spec => []IInv
<1>1. Init => IInv
  BY InitInvariant
<1>2. IInv /\ [Next]_vars => IInv'
  BY NextInvariant
<1> QED BY <1>1, <1>2, PTL DEF Spec

\* Stage 3's state stays well typed.
THEOREM TypeCorrect == Spec => []TypeOK
<1>1. IInv => TypeOK
  BY DEF IInv
<1> QED BY <1>1, Invariance, PTL

\* A Constructor runs with the instances of its dependencies in its slots
\* unless one of them failed: waitDeps, the order of copying and closing done.
THEOREM DependenciesSeen == Spec => []ConstructorSeesDependencies
<1>1. IInv => ConstructorSeesDependencies
  <2> SUFFICES ASSUME IInv, NEW t \in Unit, routine[t] = "constructing", NEW e \in Edge,
                      pending[e].owner = Subject(t), ~ Transient(pending[e].target),
                      pending[e].fits, err[pending[e].target] = "nil",
                      err[Subject(t)] = "nil"
               PROVE  holds[e] = Instance(pending[e].target)
    BY DEF ConstructorSeesDependencies
  <2> DEFINE d == pending[e].target
             n == Subject(t)
  <2>1. t \in Task
    BY DEF IInv, RoutineInv
  <2>2. n \in Provider /\ d \in Provider /\ d \in Deps(n)
    BY <2>1, TaskFacts DEF IInv, TypeOK, Deps
  <2>3. Deps(n) \subseteq done
    <3>1. CASE t \in Provider
      BY <3>1, <2>1, TaskFacts DEF IInv, OrderInv
    <3>2. CASE t \in Edge
      BY <3>2, <2>1, <2>2, TaskFacts DEF IInv, OrderInv, RoutineInv, Over
    <3> QED BY <3>1, <3>2 DEF Unit
  <2>4. d \in Task /\ routine[d] \in Over /\ e \in Slots(d)
    BY <2>2, <2>3 DEF IInv, RoutineInv, Over, Task, Unit, Slots
  <2> QED BY <2>4 DEF IInv, SlotInv
<1> QED BY <1>1, Invariance, PTL

\* When Resolve returns nil, every deliverable slot is filled and every
\* provider that is not Transient is resolved.
THEOREM Completeness == Spec => []SuccessIsComplete
<1>1. IInv => SuccessIsComplete
  <2> SUFFICES ASSUME IInv, main = "ok" PROVE SuccessIsComplete
    BY DEF SuccessIsComplete
  <2>1. \A t \in Task : routine[t] \in Over /\ err[t] = "nil"
    BY DEF IInv, MainInv, ErrorInv, Over
  <2>2. \A e \in Edge : Deliverable(e) => holds[e] # NoInstance
    <3> SUFFICES ASSUME NEW e \in Edge, Deliverable(e) PROVE holds[e] # NoInstance
      OBVIOUS
    <3>1. CASE Transient(pending[e].target)
      <4>1. e \in Task /\ e \in Slots(e) /\ pending[e].fits
        BY <3>1, ResolutionAssumption DEF Deliverable, Task, Unit, OwnRoutine, Slots
      <4>2. holds[e] = Instance(e)
        BY <2>1, <4>1 DEF IInv, SlotInv
      <4> QED BY <4>1, <4>2, TaskFacts
    <3>2. CASE ~ Transient(pending[e].target)
      <4>1. pending[e].target \in Task /\ e \in Slots(pending[e].target) /\ pending[e].fits
        BY DEF Deliverable, Task, Unit, Slots, IInv, TypeOK
      <4>2. holds[e] = Instance(pending[e].target)
        BY <2>1, <3>2, <4>1 DEF IInv, SlotInv
      <4> QED BY <4>1, <4>2, TaskFacts
    <3> QED BY <3>1, <3>2
  <2>3. \A n \in Provider : ~ Transient(n) => resolved[n] = Instance(n)
    BY <2>1 DEF IInv, SlotInv, Task, Unit
  <2> QED BY <2>2, <2>3 DEF SuccessIsComplete
<1> QED BY <1>1, Invariance, PTL

\* The error of the bootstrap is a constructor's unless the timeout expired.
THEOREM RootCause == Spec => []RootCauseReported
<1>1. IInv => RootCauseReported
  BY DEF IInv, ErrorInv
<1> QED BY <1>1, Invariance, PTL

\* A Singleton's consumers share one instance, a Transient's share none.
THEOREM ScopesRespected == Spec => []InstancesFollowScope
<1>1. IInv => InstancesFollowScope
  <2> SUFFICES ASSUME IInv, NEW e \in Edge, NEW f \in Edge,
                      pending[f].target = pending[e].target,
                      holds[e] # NoInstance, holds[f] # NoInstance
               PROVE  IF Transient(pending[e].target)
                         /\ decl[pending[e].target].source = "constructor"
                      THEN e # f => holds[e] # holds[f]
                      ELSE holds[e] = holds[f]
    BY DEF InstancesFollowScope
  <2>1. CASE Transient(pending[e].target)
    <3>1. holds[e] = Instance(e) /\ holds[f] = Instance(f)
      BY <2>1 DEF IInv, SlotInv
    <3>2. Subject(e) = pending[e].target /\ Subject(f) = pending[e].target
      BY ResolutionAssumption DEF Subject
    <3> QED BY <2>1, <3>1, <3>2 DEF Instance
  <2>2. CASE ~ Transient(pending[e].target)
    BY <2>2 DEF IInv, SlotInv
  <2> QED BY <2>1, <2>2
<1> QED BY <1>1, Invariance, PTL

--------------------------------------------------------------------------------
(* Refinement: Stage 3 implements DependencyOrder.                         *)

\* The graph and the acyclicity test mean the same on both sides.
LEMMA SameCycles == ASSUME IInv PROVE Order!Acyclic(absNeeds) <=> Acyclic
<1>1. DOMAIN absNeeds = Task /\ Provider \subseteq Task /\ Task \subseteq Unit
  BY DEF absNeeds, Task, Unit
<1>2. /\ \A n \in Provider : absNeeds[n] = Deps(n)
      /\ \A t \in Task : t \notin Provider => absNeeds[t] \subseteq Provider
  BY <1>1 DEF absNeeds, Task, Unit, OwnRoutine, IInv, TypeOK
<1>3. ASSUME Order!Acyclic(absNeeds) PROVE Acyclic
  BY <1>1, <1>2, <1>3 DEF Order!Acyclic, Acyclic
<1>4. ASSUME Acyclic, NEW S \in SUBSET Task, S # {}
      PROVE  \E u \in S : absNeeds[u] \cap S = {}
  <2>1. CASE S \cap Provider = {}
    BY <1>2, <1>4, <2>1
  <2>2. CASE S \cap Provider # {}
    <3>1. PICK n \in S \cap Provider : Deps(n) \cap (S \cap Provider) = {}
      BY <1>4, <2>2 DEF Acyclic
    <3>2. Deps(n) \subseteq Provider
      BY <3>1 DEF Deps, IInv, TypeOK
    <3> QED BY <1>2, <3>1, <3>2
  <2> QED BY <2>1, <2>2
<1> QED BY <1>1, <1>3, <1>4 DEF Order!Acyclic

\* What the abstract state looks like, in terms of the concrete one.
LEMMA AbstractState ==
  ASSUME IInv
  PROVE  /\ DOMAIN absNeeds = Task
         /\ DOMAIN absStatus = Task
         /\ \A t \in Task : Order!Settled(t) <=> absSettled(t)
         /\ \A n \in Provider : absNeeds[n] = Deps(n)
         /\ \A e \in Task \ Provider : absNeeds[e] = {pending[e].target}
         /\ Provider \subseteq Task
BY DEF absNeeds, absStatus, Order!Settled, Task, Unit

\* A step that changes none of this is invisible.
LEMMA Invisible ==
  ASSUME UNCHANGED inputs, absVerdict' = absVerdict,
         \A t \in Task : (absSettled(t)' <=> absSettled(t))
                         /\ (absSettled(t) => err'[t] = err[t])
  PROVE  UNCHANGED Order!vars
<1>1. Task' = Task
  BY InputsFixed
<1>2. absNeeds' = absNeeds
  BY DEF inputs, absNeeds, Task, OwnRoutine, Transient, Deps
<1>3. absStatus' = absStatus
  BY <1>1 DEF absStatus
<1> QED BY <1>2, <1>3 DEF Order!vars

\* A task that settles does what Build or Fail says, according to its error.
LEMMA Settles ==
  ASSUME IInv, UNCHANGED inputs, main = "wait", main' = "wait", NEW t \in Task,
         ~ absSettled(t), absSettled(t)',
         \A u \in Task \ {t} : (absSettled(u)' <=> absSettled(u)) /\ err'[u] = err[u],
         err'[t] = "nil" =>
            IF t \in Provider THEN Deps(t) \subseteq done ELSE pending[t].target \in done
  PROVE  Order!Next
<1>1. Task' = Task /\ absNeeds' = absNeeds /\ absVerdict' = absVerdict
  BY InputsFixed DEF inputs, absNeeds, Task, OwnRoutine, Transient, Deps, absVerdict, Returned
<1>2. absStatus' = [absStatus EXCEPT ![t] = IF err'[t] = "nil" THEN "built" ELSE "failed"]
  BY <1>1 DEF absStatus
<1>3. absVerdict = "none" /\ Order!Acyclic(absNeeds)
  BY SameCycles DEF absVerdict, Returned, IInv, MainInv
<1>4. t \in DOMAIN absNeeds /\ ~ Order!Settled(t)
  BY AbstractState
<1>5. CASE err'[t] = "nil"
  <2>1. \A u \in absNeeds[t] : u \in Task /\ absSettled(u)
    <3>1. CASE t \in Provider
      BY <1>5, <3>1, AbstractState DEF absSettled, IInv, TypeOK
    <3>2. CASE t \notin Provider
      BY <1>5, <3>2, AbstractState DEF absSettled, IInv, TypeOK
    <3> QED BY <3>1, <3>2
  <2>2. Order!Build(t)
    BY <1>1, <1>2, <1>3, <1>4, <1>5, <2>1, AbstractState DEF Order!Build
  <2> QED BY <1>4, <2>2 DEF Order!Next
<1>6. CASE err'[t] # "nil"
  <2>1. Order!Fail(t)
    BY <1>1, <1>2, <1>3, <1>4, <1>6 DEF Order!Fail
  <2> QED BY <1>4, <2>1 DEF Order!Next
<1> QED BY <1>5, <1>6

\* A Stage 3 that has not begun is an initial state of DependencyOrder.
LEMMA InitRefines == Init => Order!Init
<1> SUFFICES ASSUME Init PROVE Order!Init
  OBVIOUS
<1>1. IInv
  BY InitInvariant
<1>2. \A t \in Task : t \in Unit
  BY DEF Task
<1>3. absNeeds \in [Task -> SUBSET Task]
  <2>1. \A e \in Edge : pending[e].owner \in Provider /\ pending[e].target \in Provider
    BY <1>1 DEF IInv, TypeOK
  <2>2. \A t \in Task : absNeeds[t] \subseteq Task
    <3>1. \A n \in Provider : Deps(n) \subseteq Provider
      BY <2>1 DEF Deps
    <3>2. \A e \in Task \ Provider : {pending[e].target} \subseteq Provider
      BY <2>1 DEF Task, Unit
    <3> QED BY <1>1, <3>1, <3>2, AbstractState
  <2> QED BY <2>2 DEF absNeeds
<1>4. Task \in SUBSET Unit
  BY DEF Task
<1>5. absStatus = [t \in DOMAIN absNeeds |-> "open"]
  BY <1>1, <1>2, AbstractState DEF absStatus, absSettled, Init, Unit, Task
<1>6. absVerdict = "none"
  BY DEF absVerdict, Returned, Init
<1> QED BY <1>3, <1>4, <1>5, <1>6 DEF Order!Init

\* Every step of Stage 3 is a step of DependencyOrder or invisible there.
LEMMA StepRefines ==
  ASSUME IInv, IInv', [Next]_vars
  PROVE  [Order!Next]_(Order!vars)
<1>1. CASE RejectCycle
  <2>1. ~ Order!Acyclic(absNeeds) /\ absVerdict = "none" /\ absVerdict' = "cycle"
    BY <1>1, SameCycles DEF RejectCycle, absVerdict, Returned
  <2>2. absNeeds' = absNeeds /\ absStatus' = absStatus
    BY <1>1 DEF RejectCycle, inputs, absNeeds, absStatus, absSettled, Task, OwnRoutine,
       Transient, Deps
  <2> QED BY <2>1, <2>2 DEF Order!Reject, Order!Next
<1>2. CASE Launch
  <2>1. UNCHANGED inputs /\ absVerdict' = absVerdict
    BY <1>2 DEF Launch, inputs, absVerdict, Returned
  <2>2. \A t \in Task : (absSettled(t)' <=> absSettled(t)) /\ err'[t] = err[t]
    BY <1>2 DEF Launch, absSettled, IInv, MainInv, Task
  <2> QED BY <2>1, <2>2, Invisible
<1>3. ASSUME NEW n \in Provider, DepsReady(n) \/ (routine[n] \in {"waiting", "constructing"}
                    /\ (WaitCancelled(n) \/ ConstructorReturns(n) \/ ConstructorFails(n)))
      PROVE  UNCHANGED Order!vars
  <2>1. UNCHANGED inputs /\ main' = main /\ done' = done /\ n \notin done
    BY <1>3 DEF DepsReady, WaitCancelled, ConstructorReturns, ConstructorFails, inputs,
       IInv, RoutineInv
  <2>2. absVerdict' = absVerdict
    BY <2>1 DEF absVerdict, Returned
  <2>3. \A t \in Unit \ {n} : routine'[t] = routine[t] /\ err'[t] = err[t]
    BY <1>3 DEF DepsReady, WaitCancelled, ConstructorReturns, ConstructorFails, Return,
       Proceed, Goto, IInv, TypeOK
  <2>4. n \in Task /\ Task \subseteq Unit /\ ~ absSettled(n)
    BY <2>1 DEF Task, Unit, absSettled
  <2>5. \A t \in Task : (absSettled(t)' <=> absSettled(t))
                        /\ (absSettled(t) => err'[t] = err[t])
    BY <2>1, <2>3, <2>4 DEF absSettled
  <2> QED BY <2>1, <2>2, <2>5, Invisible
<1>4. ASSUME NEW e \in Edge, TargetReady(e) \/ WaitCancelled(e)
                               \/ ConstructorReturns(e) \/ ConstructorFails(e)
      PROVE  [Order!Next]_(Order!vars)
  <2>1. /\ UNCHANGED inputs /\ main' = main /\ done' = done
        /\ routine[e] \in {"waiting", "constructing"}
    BY <1>4 DEF TargetReady, WaitCancelled, ConstructorReturns, ConstructorFails, inputs
  <2>2. e \in Task /\ main = "wait" /\ e \notin Provider /\ e \in Unit
    BY <2>1, ResolutionAssumption DEF IInv, TypeOK, RoutineInv, MainInv, Task, Unit
  <2>3. \A t \in Unit \ {e} : routine'[t] = routine[t] /\ err'[t] = err[t]
    BY <1>4 DEF TargetReady, WaitCancelled, ConstructorReturns, ConstructorFails, Return,
       Proceed, Goto, IInv, TypeOK
  <2>4. ~ absSettled(e)
    BY <2>1, <2>2 DEF absSettled
  <2>5. \A u \in Task \ {e} : (absSettled(u)' <=> absSettled(u)) /\ err'[u] = err[u]
    BY <2>1, <2>3 DEF absSettled, Task
  <2>6. CASE routine'[e] = "finished"
    <3>1. absSettled(e)'
      BY <2>2, <2>6 DEF absSettled
    <3>2. err'[e] = "nil" => pending[e].target \in done
      BY <2>1, <2>6, <2>2 DEF IInv, OrderInv, Over, inputs
    <3> QED BY <2>1, <2>2, <2>4, <2>5, <3>1, <3>2, Settles
  <2>7. CASE routine'[e] # "finished"
    <3>1. routine'[e] = "constructing"
      BY <1>4, <2>2, <2>7 DEF TargetReady, WaitCancelled, ConstructorReturns,
         ConstructorFails, Return, Proceed, Goto, IInv, TypeOK
    <3>2. absSettled(e)' <=> absSettled(e)
      BY <2>2, <2>4, <3>1 DEF absSettled
    <3>3. absVerdict' = absVerdict
      BY <2>1 DEF absVerdict, Returned
    <3> QED BY <2>1, <2>4, <2>5, <3>2, <3>3, Invisible
  <2> QED BY <2>6, <2>7
<1>5. ASSUME NEW n \in Provider, CloseDone(n)
      PROVE  Order!Next
  <2>1. /\ UNCHANGED <<inputs, main, err>> /\ routine[n] = "finished" /\ done' = done \cup {n}
        /\ routine' = [routine EXCEPT ![n] = "closed"]
    BY <1>5 DEF CloseDone, Goto, inputs
  <2>2. n \in Task /\ n \in Unit /\ main = "wait" /\ n \notin done /\ n \notin Edge
    BY <2>1, ResolutionAssumption DEF IInv, TypeOK, RoutineInv, MainInv, Task, Unit
  <2>3. ~ absSettled(n) /\ absSettled(n)'
    BY <2>1, <2>2 DEF absSettled
  <2>4. \A u \in Task \ {n} : (absSettled(u)' <=> absSettled(u)) /\ err'[u] = err[u]
    BY <2>1, <2>2 DEF absSettled, IInv, TypeOK, Task
  <2>5. err'[n] = "nil" => Deps(n) \subseteq done
    BY <2>1 DEF IInv, OrderInv, Over
  <2> QED BY <2>1, <2>2, <2>3, <2>4, <2>5, Settles
<1>6. ASSUME NEW t \in Unit, GroupRecords(t)
      PROVE  UNCHANGED Order!vars
  <2>1. /\ UNCHANGED <<inputs, main, err, done>> /\ routine' = [routine EXCEPT ![t] = "ended"]
        /\ t \notin Provider => routine[t] = "finished"
    BY <1>6 DEF GroupRecords, Goto, inputs
  <2>2. \A u \in Task : absSettled(u)' <=> absSettled(u)
    BY <2>1 DEF absSettled, IInv, TypeOK, Task
  <2>3. absVerdict' = absVerdict
    BY <2>1 DEF absVerdict, Returned
  <2> QED BY <2>1, <2>2, <2>3, Invisible
<1>7. CASE Timeout
  <2>1. UNCHANGED <<inputs, main, routine, err, done>>
    BY <1>7 DEF Timeout, inputs
  <2> QED BY <2>1, Invisible DEF absVerdict, Returned, absSettled
<1>8. CASE ResolveReturns
  <2>1. /\ UNCHANGED <<inputs, routine, err, done>> /\ main = "wait"
        /\ main' = IF groupErr = "nil" THEN "ok" ELSE "error"
        /\ \A t \in Task : routine[t] = "ended"
    BY <1>8 DEF ResolveReturns, inputs
  <2>2. absNeeds' = absNeeds /\ absStatus' = absStatus
    BY <2>1 DEF inputs, absNeeds, absStatus, absSettled, Task, OwnRoutine, Transient, Deps
  <2>3. absVerdict = "none" /\ absVerdict' = main' /\ Order!Acyclic(absNeeds)
    BY <2>1, SameCycles DEF absVerdict, Returned, IInv, MainInv
  <2>4. \A t \in Task : absSettled(t)
    BY <2>1 DEF absSettled, IInv, RoutineInv
  <2>5. CASE groupErr = "nil"
    <3>1. \A t \in Task : absStatus[t] = "built"
      BY <2>1, <2>4, <2>5 DEF absStatus, IInv, ErrorInv
    <3> QED BY <2>1, <2>2, <2>3, <2>5, <3>1, AbstractState DEF Order!Succeed, Order!Next
  <2>6. CASE groupErr # "nil"
    <3>1. PICK t \in Task : err[t] # "nil"
      BY <2>6 DEF IInv, ErrorInv
    <3>2. absStatus[t] = "failed"
      BY <2>4, <3>1 DEF absStatus
    <3> QED BY <2>1, <2>2, <2>3, <2>4, <2>6, <3>1, <3>2, AbstractState
            DEF Order!GiveUp, Order!Next
  <2> QED BY <2>5, <2>6
<1>9. CASE UNCHANGED vars
  <2>1. UNCHANGED <<inputs, main, routine, err, done>>
    BY <1>9 DEF vars, inputs
  <2> QED BY <2>1, Invisible DEF absVerdict, Returned, absSettled
<1>10. ASSUME NEW t \in Unit, RoutineStep(t)
       PROVE  [Order!Next]_(Order!vars)
  <2>1. CASE GroupRecords(t)
    BY <1>6, <2>1
  <2>2. CASE WaitCancelled(t) \/ ConstructorReturns(t) \/ ConstructorFails(t)
    <3>1. CASE t \in Provider
      BY <1>3, <2>2, <3>1 DEF WaitCancelled, ConstructorReturns, ConstructorFails
    <3>2. CASE t \in Edge
      BY <1>4, <2>2, <3>2
    <3> QED BY <3>1, <3>2 DEF Unit
  <2> QED BY <1>10, <2>1, <2>2 DEF RoutineStep
<1> QED BY <1>1, <1>2, <1>3, <1>4, <1>5, <1>7, <1>8, <1>9, <1>10
        DEF Next, MainStep, ProviderStep, Terminated

\* Stage 3 builds the providers in dependency order and its one verdict is
\* success exactly when everything was built.
THEOREM Refinement == Spec => ImplementsOrder
<1>1. Init => Order!Init
  BY InitRefines
<1>2. IInv /\ IInv' /\ [Next]_vars => [Order!Next]_(Order!vars)
  BY StepRefines
<1> QED BY <1>1, <1>2, Invariance, PTL DEF Spec, ImplementsOrder, Order!Spec
================================================================================
