------------------------------- MODULE Resolution -------------------------------
(***************************************************************************)
(* Stage 3 of the bootstrap (internal/resolver/stage3.go, resolveGraph):   *)
(* every declared provider is resolved by a goroutine of one errgroup.     *)
(* Goroutines wait for each other through the done channels and are        *)
(* cancelled through the group's context.                                  *)
(*                                                                         *)
(* A Provider is a provider of the assembled module tree; an Edge is one   *)
(* slot some provider's builder fn asked for during Stage 2: the           *)
(* placeholder of one Inject call (kind "one", a PendingEdge) or one       *)
(* element of the slice of an InjectAll call (kind "all", one match of a   *)
(* PendingAllEdge).  Both are inputs of Stage 3, chosen by Init and never  *)
(* changed: Inject fails while resolving is set.                           *)
(*                                                                         *)
(* scope.Request is not Transient to isTransient, so a Request provider is *)
(* resolved like a "Singleton" here.                                       *)
(***************************************************************************)
CONSTANTS
  Provider,     \* providers registered in the module tree
  Edge,         \* slots requested with Inject and InjectAll
  Scopes,       \* provider scopes that occur
  Sources,      \* where instances come from: see decl
  Kinds,        \* kinds of edges that occur
  NoInstance    \* a slot nothing was written to

ASSUME ResolutionAssumption ==
  /\ Provider \cap Edge = {}
  /\ NoInstance \notin Provider \cup Edge
  /\ Scopes \subseteq {"Singleton", "Transient"}
  /\ Sources \subseteq {"constructor", "lazy", "override"}
  /\ Kinds \subseteq {"one", "all"}

VARIABLES
  pending,      \* inject's bookkeeping: owner, target and kind of each edge
  decl,         \* scope of each provider, and its override or Lazy value
  resolving,    \* inject.resolving: Stage 3 is running
  main,         \* the Resolve call: "start", "wait", or what it returned
  routine,      \* control state of each goroutine of the group
  err,          \* the error each goroutine's function returns
  done,         \* providers whose done channel is closed
  cancelled,    \* gctx is done
  timedOut,     \* the bootstrap timeout expired while the group ran
  groupErr,     \* errgroup's err: the error of the first function to fail
  holds,        \* the instance whose value was copied into each edge's slot
  resolved      \* Provider.resolvedValue: what FindDirect will return

vars == <<pending, decl, resolving, main, routine, err, done, cancelled,
          timedOut, groupErr, holds, resolved>>

inputs == <<pending, decl>>

--------------------------------------------------------------------------------
Transient(n) == decl[n].scope = "Transient"

\* scopedGraph(BuildGraph()): the providers n waits for.
Deps(n) == {pending[e].target : e \in {f \in Edge : pending[f].owner = n}}

\* Mutant of Acyclic: only a provider that injects itself is a cycle.
AcyclicSelf == \A n \in Provider : n \notin Deps(n)

\* DetectCycle(graph) = nil: every nonempty set of providers has a member
\* that depends on no member of it.
Acyclic ==
  \A S \in SUBSET Provider : S # {} => \E n \in S : Deps(n) \cap S = {}

\* edgesFor: an Inject call whose target is Transient has a goroutine of its
\* own; InjectAll's slots never do.
OwnRoutine(e) == pending[e].kind = "one" /\ Transient(pending[e].target)

Unit == Provider \cup Edge

\* The functions handed to group.Go.
Task == {t \in Unit : t \in Provider \/ OwnRoutine(t)}

\* The provider whose Constructor a goroutine runs.
Subject(t) == IF t \in Provider THEN t ELSE pending[t].target

\* Mutant of Instance: an override is built anew for every slot.
InstanceFresh(t) == t

\* A Constructor call makes a new instance; an override or a value that
\* Module.Lazy already built is one instance, the provider's.
Instance(t) == IF decl[Subject(t)].source = "constructor" THEN t ELSE Subject(t)

\* invokeAndCopy fills every placeholder and slice element that asked for
\* the provider, invokeAndCopyEdge only the placeholder of its own edge.
Slots(t) == IF t \in Provider THEN {e \in Edge : pending[e].target = t} ELSE {t}

Publish(t) ==
  /\ resolved' = [resolved EXCEPT ![Subject(t)] = Instance(t)]
  /\ holds' = [e \in Edge |->
                 IF e \in Slots(t) /\ pending[e].fits THEN Instance(t) ELSE holds[e]]

Goto(t, state) == routine' = [routine EXCEPT ![t] = state]

Return(t, e) ==
  /\ Goto(t, "finished")
  /\ err' = [err EXCEPT ![t] = e]

--------------------------------------------------------------------------------
\* Stage 2 left any dependency graph.  Module.Lazy refuses providers that are
\* not Singleton; an override value may have another type than a slot.
Init ==
  /\ pending \in [Edge -> [owner : Provider, target : Provider, kind : Kinds,
                           fits : BOOLEAN]]
  /\ decl \in [Provider -> [scope : Scopes, source : Sources]]
  /\ \A n \in Provider : decl[n].source = "lazy" => decl[n].scope = "Singleton"
  /\ \A e \in Edge : decl[pending[e].target].source # "override" => pending[e].fits
  /\ resolving = FALSE
  /\ main = "start"
  /\ routine = [t \in Unit |-> "none"]
  /\ err = [t \in Unit |-> "nil"]
  /\ done = {}
  /\ cancelled = FALSE
  /\ timedOut = FALSE
  /\ groupErr = "nil"
  /\ holds = [e \in Edge |-> NoInstance]
  /\ resolved = [n \in Provider |-> NoInstance]

\* DetectCycle's error is returned before any goroutine starts.
RejectCycle ==
  /\ main = "start"
  /\ ~ Acyclic
  /\ main' = "cycle"
  /\ UNCHANGED <<inputs, resolving, routine, err, done, cancelled, timedOut,
                 groupErr, holds, resolved>>

\* Mutant of Launch: the graph is not checked for cycles.
LaunchUnchecked ==
  /\ main = "start"
  /\ main' = "wait"
  /\ resolving' = TRUE
  /\ routine' = [t \in Unit |-> IF t \in Task THEN "waiting" ELSE "none"]
  /\ UNCHANGED <<inputs, err, done, cancelled, timedOut, groupErr, holds, resolved>>

\* The loop of group.Go calls.
Launch ==
  /\ main = "start"
  /\ Acyclic
  /\ main' = "wait"
  /\ resolving' = TRUE
  /\ routine' = [t \in Unit |-> IF t \in Task THEN "waiting" ELSE "none"]
  /\ UNCHANGED <<inputs, err, done, cancelled, timedOut, groupErr, holds, resolved>>

--------------------------------------------------------------------------------
\* What a goroutine whose wait is over does next: run the Constructor, or
\* publish the override or Lazy value without running it.
Proceed(t) ==
  IF decl[Subject(t)].source = "constructor"
  THEN Goto(t, "constructing") /\ UNCHANGED <<err, holds, resolved>>
  ELSE Return(t, "nil") /\ Publish(t)

\* Mutant of DepsReady: one dependency is enough.
DepsReadyAny(n) ==
  /\ routine[n] = "waiting"
  /\ Deps(n) # {} => Deps(n) \cap done # {}
  /\ ~ cancelled
  /\ IF Transient(n)
     THEN Return(n, "nil") /\ UNCHANGED <<holds, resolved>>
     ELSE Proceed(n)
  /\ UNCHANGED <<inputs, resolving, main, done, cancelled, timedOut, groupErr>>

\* A provider's goroutine: waitDeps returned nil.  A Singleton is resolved
\* now; a Transient provider has nothing more to do than close done[n].
DepsReady(n) ==
  /\ routine[n] = "waiting"
  /\ Deps(n) \subseteq done
  /\ ~ cancelled
  /\ IF Transient(n)
     THEN Return(n, "nil") /\ UNCHANGED <<holds, resolved>>
     ELSE Proceed(n)
  /\ UNCHANGED <<inputs, resolving, main, done, cancelled, timedOut, groupErr>>

\* A Transient edge's goroutine received from done[target]; its select may
\* pick that case even when gctx is done too.
TargetReady(e) ==
  /\ routine[e] = "waiting"
  /\ pending[e].target \in done
  /\ Proceed(e)
  /\ UNCHANGED <<inputs, resolving, main, done, cancelled, timedOut, groupErr>>

\* Either wait gives up with gctx.Err().
WaitCancelled(t) ==
  /\ routine[t] = "waiting"
  /\ cancelled
  /\ Return(t, "context")
  /\ UNCHANGED <<inputs, resolving, main, done, cancelled, timedOut, groupErr,
                 holds, resolved>>

ConstructorReturns(t) ==
  /\ routine[t] = "constructing"
  /\ Return(t, "nil")
  /\ Publish(t)
  /\ UNCHANGED <<inputs, resolving, main, done, cancelled, timedOut, groupErr>>

\* The Constructor returned an error or panicked (an Inject call inside it
\* ends here too: resolving is set).
ConstructorFails(t) ==
  /\ routine[t] = "constructing"
  /\ Return(t, "constructor")
  /\ UNCHANGED <<inputs, resolving, main, done, cancelled, timedOut, groupErr,
                 holds, resolved>>

\* defer close(done[n]), before errgroup sees what the function returned.
CloseDone(n) ==
  /\ routine[n] = "finished"
  /\ done' = done \cup {n}
  /\ Goto(n, "closed")
  /\ UNCHANGED <<inputs, resolving, main, err, cancelled, timedOut, groupErr,
                 holds, resolved>>

\* Mutant of GroupRecords: the last error is kept.
GroupRecordsLast(t) ==
  /\ routine[t] = IF t \in Provider THEN "closed" ELSE "finished"
  /\ Goto(t, "ended")
  /\ IF err[t] # "nil"
     THEN groupErr' = err[t] /\ cancelled' = TRUE
     ELSE UNCHANGED <<groupErr, cancelled>>
  /\ UNCHANGED <<inputs, resolving, main, err, done, timedOut, holds, resolved>>

\* errgroup: the first error is kept and cancels gctx.
GroupRecords(t) ==
  /\ routine[t] = IF t \in Provider THEN "closed" ELSE "finished"
  /\ Goto(t, "ended")
  /\ IF err[t] # "nil" /\ groupErr = "nil"
     THEN groupErr' = err[t] /\ cancelled' = TRUE
     ELSE UNCHANGED <<groupErr, cancelled>>
  /\ UNCHANGED <<inputs, resolving, main, err, done, timedOut, holds, resolved>>

\* The parent context's timeout.
Timeout ==
  /\ main = "wait"
  /\ ~ cancelled
  /\ cancelled' = TRUE
  /\ timedOut' = TRUE
  /\ UNCHANGED <<inputs, resolving, main, routine, err, done, groupErr, holds,
                 resolved>>

\* group.Wait() returns.
ResolveReturns ==
  /\ main = "wait"
  /\ \A t \in Task : routine[t] = "ended"
  /\ main' = IF groupErr = "nil" THEN "ok" ELSE "error"
  /\ resolving' = FALSE
  /\ UNCHANGED <<inputs, routine, err, done, cancelled, timedOut, groupErr,
                 holds, resolved>>

--------------------------------------------------------------------------------
ProviderStep(n) == DepsReady(n) \/ CloseDone(n)

RoutineStep(t) ==
  WaitCancelled(t) \/ ConstructorReturns(t) \/ ConstructorFails(t) \/ GroupRecords(t)

MainStep == RejectCycle \/ Launch \/ ResolveReturns

\* Resolve has returned: nothing else happens in Stage 3.
Returned == main \in {"ok", "error", "cycle"}

Terminated == Returned /\ UNCHANGED vars

Next ==
  \/ MainStep
  \/ \E n \in Provider : ProviderStep(n)
  \/ \E e \in Edge : TargetReady(e)
  \/ \E t \in Unit : RoutineStep(t)
  \/ Timeout
  \/ Terminated

Spec == Init /\ [][Next]_vars

\* The Go scheduler runs every goroutine that can run, and constructors are
\* assumed to return; nothing makes the timeout expire.
Fairness ==
  /\ WF_vars(MainStep)
  /\ \A n \in Provider : WF_vars(ProviderStep(n))
  /\ \A e \in Edge : WF_vars(TargetReady(e))
  /\ \A t \in Unit : WF_vars(RoutineStep(t))

FairSpec == Spec /\ Fairness

--------------------------------------------------------------------------------
Values == Unit \cup {NoInstance}

\* Every variable holds a value of its type.
TypeOK ==
  /\ pending \in [Edge -> [owner : Provider, target : Provider, kind : {"one", "all"},
                           fits : BOOLEAN]]
  /\ decl \in [Provider -> [scope : {"Singleton", "Transient"},
                            source : {"constructor", "lazy", "override"}]]
  /\ resolving \in BOOLEAN
  /\ main \in {"start", "wait", "ok", "error", "cycle"}
  /\ routine \in [Unit ->
                    {"none", "waiting", "constructing", "finished", "closed", "ended"}]
  /\ err \in [Unit -> {"nil", "constructor", "context"}]
  /\ done \subseteq Provider
  /\ cancelled \in BOOLEAN
  /\ timedOut \in BOOLEAN
  /\ groupErr \in {"nil", "constructor", "context"}
  /\ holds \in [Edge -> Values]
  /\ resolved \in [Provider -> Values]

--------------------------------------------------------------------------------
(* Safety.                                                                 *)

\* An edge that Stage 3 writes: its slot accepts the value, and it is not a
\* slice element of a Transient provider (those are filled by nobody).
Deliverable(e) ==
  pending[e].fits /\ (pending[e].kind = "one" \/ ~ Transient(pending[e].target))

\* While a provider's Constructor runs, each slot its builder requested from
\* a provider that is not Transient holds that provider's one instance, unless
\* that provider failed and the group has not cancelled the context yet (the
\* start-after-dependency ordering of Resolve, waitDeps and invokeAndCopy).
ConstructorSeesDependencies ==
  \A t \in Unit :
    routine[t] = "constructing" =>
      \A e \in Edge :
        LET d == pending[e].target IN
        (pending[e].owner = Subject(t) /\ ~ Transient(d) /\ pending[e].fits)
           => holds[e] = Instance(d) \/ err[d] # "nil" \/ err[Subject(t)] # "nil"

\* When Resolve returns nil, every slot Stage 3 is able to write holds an
\* instance of its target, and FindDirect finds every provider that is not
\* Transient: no goroutine was skipped, cancelled or lost.
SuccessIsComplete ==
  main = "ok" =>
    /\ \A e \in Edge : Deliverable(e) => holds[e] # NoInstance
    /\ \A n \in Provider : ~ Transient(n) => resolved[n] = Instance(n)

\* All consumers of a Singleton get the same instance, and no two Inject
\* calls of a Transient provider with a Constructor share one.
InstancesFollowScope ==
  \A e, f \in Edge :
    LET d == pending[e].target IN
    (pending[f].target = d /\ holds[e] # NoInstance /\ holds[f] # NoInstance) =>
      IF Transient(d) /\ decl[d].source = "constructor"
      THEN e # f => holds[e] # holds[f]
      ELSE holds[e] = holds[f]

\* The error Resolve returns is the one that made the bootstrap fail: a
\* goroutine that merely saw the cancelled context is reported only when the
\* context was cancelled by the timeout.
RootCauseReported ==
  groupErr = "context" => timedOut

--------------------------------------------------------------------------------
(* Liveness: Resolve returns, whatever fails: no goroutine waits for a     *)
(* done channel nobody closes.                                             *)
ResolveTerminates == <>Returned

--------------------------------------------------------------------------------
(* The inductive invariant behind the safety properties: how the control   *)
(* state of the goroutines, the done channels, the group and the slots go  *)
(* together.                                                               *)

Over == {"finished", "closed", "ended"}   \* a function that is returning

MainInv ==
  /\ main \in {"start", "cycle"} => \A t \in Unit : routine[t] = "none"
  /\ main \in {"ok", "error"} => \A t \in Task : routine[t] = "ended"
  /\ main = "ok" => groupErr = "nil"
  /\ main \in {"wait", "ok", "error"} => Acyclic
  /\ resolving <=> main = "wait"

RoutineInv ==
  /\ \A t \in Unit : routine[t] # "none" => t \in Task
  /\ \A t \in Unit : err[t] # "nil" => routine[t] \in Over
  /\ \A e \in Edge : routine[e] # "closed"
  /\ \A n \in Provider : n \in done <=> routine[n] \in {"closed", "ended"}

OrderInv ==
  /\ \A n \in Provider :
       /\ routine[n] = "constructing" => ~ Transient(n) /\ Deps(n) \subseteq done
       /\ routine[n] \in Over /\ err[n] = "nil" => Deps(n) \subseteq done
  /\ \A e \in Edge :
       /\ routine[e] = "constructing" => pending[e].target \in done
       /\ routine[e] \in Over /\ err[e] = "nil" => pending[e].target \in done

SlotInv ==
  /\ \A e \in Edge : holds[e] # NoInstance =>
       IF Transient(pending[e].target)
       THEN OwnRoutine(e) /\ holds[e] = Instance(e)
       ELSE holds[e] = Instance(pending[e].target)
  /\ \A t \in Task : routine[t] \in Over /\ err[t] = "nil" =>
       \A e \in Slots(t) :
          (pending[e].fits /\ (t \in Edge \/ ~ Transient(t))) => holds[e] = Instance(t)
  /\ \A n \in Provider : routine[n] \in Over /\ err[n] = "nil" /\ ~ Transient(n) =>
       resolved[n] = Instance(n)

ErrorInv ==
  /\ groupErr = "nil" => \A t \in Task : routine[t] = "ended" => err[t] = "nil"
  /\ groupErr # "nil" => \E t \in Task : routine[t] = "ended" /\ err[t] # "nil"
  /\ \A t \in Unit : err[t] = "context" => cancelled
  /\ cancelled => groupErr # "nil" \/ timedOut
  /\ RootCauseReported

\* The whole of it: what every step of a goroutine, of the group and of the
\* timeout preserves.
IInv == TypeOK /\ MainInv /\ RoutineInv /\ OrderInv /\ SlotInv /\ ErrorInv

--------------------------------------------------------------------------------
(* Stage 3 implements DependencyOrder.  A provider has settled when its    *)
(* done channel is closed, an edge's own goroutine when its function is    *)
(* about to return.                                                        *)
absNeeds ==
  [t \in Task |-> IF t \in Provider THEN Deps(t) ELSE {pending[t].target}]

absSettled(t) ==
  IF t \in Provider THEN t \in done ELSE routine[t] \in {"finished", "ended"}

absStatus ==
  [t \in Task |-> IF ~ absSettled(t) THEN "open"
                  ELSE IF err[t] = "nil" THEN "built" ELSE "failed"]

absVerdict == IF Returned THEN main ELSE "none"

Order == INSTANCE DependencyOrder
           WITH Unit <- Unit, needs <- absNeeds,
                status <- absStatus, verdict <- absVerdict

\* Providers are built in dependency order, one verdict, and success means
\* that everything was built.
ImplementsOrder == Order!Spec

--------------------------------------------------------------------------------
\* The acceptance criterion of the design, as it is stated there: when nothing
\* failed and nothing timed out, a provider's Constructor runs only after
\* every provider it depends on has been constructed.
DependencyConstructedFirst ==
  \A t \in Unit :
    (routine[t] = "constructing" /\ ~ timedOut
       /\ \A u \in Unit : err[u] = "nil") =>
      \A e \in Edge :
        (pending[e].owner = Subject(t) /\ Deliverable(e)) => holds[e] # NoInstance
================================================================================
