-------------------------------- MODULE Bootstrap --------------------------------
(***************************************************************************)
(* NewApp, called once or several times in one process (internal/app,      *)
(* internal/module, internal/inject, internal/resolver): module assembly,  *)
(* the Declare phases, the pending edges and the search that resolves      *)
(* them, cycle detection, direct resolution for Controllers, and route     *)
(* registration.                                                           *)
(*                                                                         *)
(* Modules, Providers and Controllers are package-level values in a gonest *)
(* program: what NewApp writes in them outlives it, and the next NewApp    *)
(* starts from it.  inject.Reset clears the rest.  Stage 3 is one step     *)
(* here; Resolution models its goroutines, AppLifecycle the hooks.         *)
(***************************************************************************)
EXTENDS Naturals, Sequences, FiniteSets, SequencesExt

CONSTANTS Module, Provider, Controller, Type, NoModule, NoType,
          Scripts      \* what the builder closures do, and the calls of NewApp

Consumer == Provider \cup Controller
Panics == {"lazy", "unexported", "unregistered", "direct"}

ASSUME NamesAssumption ==
  /\ IsFiniteSet(Module)
  /\ NoModule \notin Module /\ NoType \notin Type
  /\ Provider \cap Controller = {} /\ Provider \cap (Panics \cup {"none"}) = {}

\* What the dev's closures may declare.
Script ==
  [imports : [Module -> Seq(Module)], providers : [Module -> Seq(Provider)],
   exports : [Module -> Seq(Provider)], reexports : [Module -> Seq(Module)],
   controllers : [Module -> Seq(Controller)], lazy : [Module -> Type \cup {NoType}],
   constructs : [Provider -> Type], needs : [Consumer -> SUBSET Type], roots : Seq(Module)]

ASSUME ScriptsAssumption == Scripts \subseteq Script

(***************************************************************************)
(* script    what the dev's closures declare: imports, providers, exports, *)
(*           reexports and controllers of a module's fn, the type its Lazy *)
(*           callback injects, the types a consumer's fn injects, the type *)
(*           a Provider constructs, and the root given to each NewApp call *)
(* boot      how often NewApp was called                                   *)
(* phase     where the current call is                                     *)
(* reason    why it failed: an error or a panic                            *)
(* reg       the registrations of each Module, which its fn appends to     *)
(* owner     ownerModule of Providers and Controllers                      *)
(* declared  the call in which Declare ran fn, 0 when it has not           *)
(* built     the Controllers whose fn ran to its end                       *)
(* holds     the value in the pointer each consumer's fn got from Inject   *)
(* resolved  ResolvedValue of a Provider: the call that constructed it     *)
(* edges     inject.pendingEdges                                           *)
(* lazy      inject.lazyResolved                                           *)
(* made      how often each Constructor ran in this call                   *)
(* graph     what BuildGraph made of the edges: the Providers it found for *)
(*           each Provider that has some                                   *)
(* queue, order       the queue and the visited modules of assemble        *)
(* path, black, chain the DFS of DetectCycle and the cycle it reports      *)
(* cursor    the module declareControllers is at, the Controller in it     *)
(* routes    the routes registered on this call's adapter                  *)
(***************************************************************************)
VARIABLES script, boot, phase, reason, reg, owner, declared, built, holds,
          resolved, edges, lazy, made, graph, queue, order, path, black, chain,
          cursor, routes

registrations == <<reg, owner>>
tokens == <<declared, built, holds, resolved>>
tables == <<edges, lazy, made>>
search == <<graph, path, black, chain>>
progress == <<queue, order, cursor, routes>>
vars == <<script, boot, phase, reason, registrations, tokens, tables, search, progress>>

Empty == [by |-> "nothing", boot |-> 0]
Made(p) == [by |-> p, boot |-> boot]
Failures == {"export", "cycle", "constructor", "hook", "duplicate"}
Phases == {"idle", "assemble", "declare", "graph", "cycles",
           "resolve", "hooks", "controllers", "up", "failed"}

--------------------------------------------------------------------------------
(* The searches of internal/resolver and internal/module.                  *)

\* effectiveExports over the registrations r, in the order it finds them (where
\* the code drops a repeated Provider, its first occurrence stays first).  The
\* recursion with its shared visited set is a walk with an explicit stack, which
\* takes a module from the stack as often as one was put on it.
EffectiveExports(r, m) ==
  LET step == [st \in [visited : SUBSET Module, stack : Seq(Module), out : Seq(Provider)] |->
        IF st.stack = <<>> THEN st
        ELSE LET h == Head(st.stack) IN
             IF h \in st.visited THEN [st EXCEPT !.stack = Tail(@)]
             ELSE [visited |-> st.visited \cup {h},
                   stack |-> r[h].reexports \o Tail(st.stack),
                   out |-> st.out \o r[h].exports]]
      most == 1 + Cardinality(UNION {{x} \X DOMAIN r[x].reexports : x \in Module})
      walk[n \in 0..most] ==
        IF n = 0 THEN [visited |-> {}, stack |-> <<m>>, out |-> <<>>] ELSE step[walk[n - 1]]
  IN  walk[most].out

\* ResolvedType is nil until Declare has run the Provider's fn.
Constructing(t) == {p \in Provider : declared[p] # 0 /\ script.constructs[p] = t}

FirstIn(ps, S) == ps[SelectInSeq(ps, LAMBDA p : p \in S)]
LastIn(ps, S) == ps[SelectLastInSeq(ps, LAMBDA p : p \in S)]

\* The first of a list of Providers that constructs t.
FindIn(ps, t) ==
  IF ToSet(ps) \cap Constructing(t) = {} THEN "none" ELSE FirstIn(ps, Constructing(t))

FindOwn(m, t) == FindIn(reg[m].providers, t)
\* A mutant of FindExported: an import shows all it has.
FindAnyOf(m, t) == FindOwn(m, t)

FindExported(m, t) == FindIn(EffectiveExports(reg, m), t)

\* An import ends the search with a Provider, or with a panic over one that it
\* has but does not export.
FindImported(i, t) ==
  IF FindExported(i, t) = "none" /\ FindOwn(i, t) # "none" THEN "unexported"
  ELSE FindExported(i, t)

\* Find panics in two ways, both are left to its caller here.
Find(m, t) ==
  LET imports == reg[m].imports IN
  FirstIn(<<FindOwn(m, t)>> \o [k \in DOMAIN imports |-> FindImported(imports[k], t)]
            \o <<"unregistered">>, Provider \cup Panics)

\* candidateProviders and findDirectMatches over a Controller's scope, its owner
\* module.
Candidates(m) ==
  ToSet(reg[m].providers) \cup UNION {ToSet(EffectiveExports(reg, i)) : i \in ToSet(reg[m].imports)}

DirectMatches(m, t) == {p \in Candidates(m) \cap Constructing(t) : resolved[p] # 0}

--------------------------------------------------------------------------------
(* Shared by the phases.                                                   *)

OwnProviders == UNION {ToSet(reg[m].providers) : m \in ToSet(order)}
OwnControllers == UNION {ToSet(reg[m].controllers) : m \in ToSet(order)}

\* Declare runs a Provider's fn once in its life: each Inject in it allocates an
\* empty placeholder and appends a pending edge.
Fresh(ps) == {p \in ps : declared[p] = 0}
EdgesOf(p) == {[owner |-> p, target |-> t] : t \in script.needs[p]}
DeclareProviders(ps) ==
  /\ declared' = [p \in Consumer |-> IF p \in Fresh(ps) THEN boot ELSE declared[p]]
  /\ edges' = edges \cup UNION {EdgesOf(p) : p \in Fresh(ps)}

Fail(why) == phase' = "failed" /\ reason' = why

--------------------------------------------------------------------------------
NoRegistrations ==
  [imports |-> <<>>, providers |-> <<>>, exports |-> <<>>,
   reexports |-> <<>>, controllers |-> <<>>]

Start == [module |-> 1, at |-> 1]

Init ==
  /\ script \in Scripts
  /\ boot = 0 /\ phase = "idle" /\ reason = "none"
  /\ reg = [m \in Module |-> NoRegistrations]
  /\ owner = [x \in Consumer |-> NoModule]
  /\ declared = [x \in Consumer |-> 0] /\ built = {}
  /\ holds = [x \in Consumer |-> [t \in Type |-> Empty]]
  /\ resolved = [p \in Provider |-> 0]
  /\ edges = {} /\ lazy = {} /\ made = [p \in Provider |-> 0]
  /\ queue = <<>> /\ order = <<>>
  /\ graph = <<>> /\ path = <<>> /\ black = {} /\ chain = <<>>
  /\ cursor = Start /\ routes = {}

\* NewApp: inject.Reset, a new adapter, and assemble's queue with the root in it.
NewApp ==
  /\ phase \in {"idle", "up", "failed"} /\ boot < Len(script.roots)
  /\ boot' = boot + 1 /\ phase' = "assemble" /\ reason' = "none"
  /\ edges' = {} /\ lazy' = {} /\ made' = [p \in Provider |-> 0]
  /\ queue' = <<script.roots[boot + 1]>> /\ order' = <<>>
  /\ graph' = <<>> /\ path' = <<>> /\ black' = {} /\ chain' = <<>>
  /\ cursor' = Start /\ routes' = {}
  /\ UNCHANGED <<script, registrations, tokens>>

\* A mutant of SkipVisited: the module goes to the end of the queue instead.
Requeue ==
  /\ phase = "assemble" /\ queue # <<>> /\ Head(queue) \in ToSet(order)
  /\ queue' = Append(Tail(queue), Head(queue))
  /\ UNCHANGED <<script, boot, phase, reason, registrations, tokens, tables, search,
                 order, cursor, routes>>

\* assemble takes a module it has visited from the queue.
SkipVisited ==
  /\ phase = "assemble" /\ queue # <<>> /\ Head(queue) \in ToSet(order)
  /\ queue' = Tail(queue)
  /\ UNCHANGED <<script, boot, phase, reason, registrations, tokens, tables, search,
                 order, cursor, routes>>

\* The module's fn appends its registrations to those of earlier calls.
Registered(m) ==
  [reg EXCEPT ![m] =
     [imports |-> @.imports \o script.imports[m],
      providers |-> @.providers \o script.providers[m],
      exports |-> @.exports \o script.exports[m],
      reexports |-> @.reexports \o script.reexports[m],
      controllers |-> @.controllers \o script.controllers[m]]]

\* fn's Lazy callback, after its Providers: mustLazyByType declares them all
\* and takes the last one that constructs the type.
LazyMatches(m) == {p \in Provider : script.constructs[p] = script.lazy[m]}

RunLazy(m) ==
  IF script.lazy[m] = NoType
  THEN UNCHANGED <<phase, reason, declared, edges, lazy, made, resolved>>
  ELSE /\ DeclareProviders(ToSet(reg'[m].providers))
       /\ IF ToSet(reg'[m].providers) \cap LazyMatches(m) = {}
          THEN Fail("lazy") /\ UNCHANGED <<lazy, made, resolved>>
          ELSE LET p == LastIn(reg'[m].providers, LazyMatches(m)) IN
               /\ UNCHANGED <<phase, reason>>
               /\ lazy' = lazy \cup {p}
               /\ made' = IF p \in lazy THEN made ELSE [made EXCEPT ![p] = @ + 1]
               /\ resolved' = IF p \in lazy THEN resolved ELSE [resolved EXCEPT ![p] = boot]

\* assemble visits a module: its fn, the ownership of what it registered (the
\* last module to register a value owns it), its imports.
Visit ==
  /\ phase = "assemble" /\ queue # <<>> /\ Head(queue) \notin ToSet(order)
  /\ LET m == Head(queue) IN
       /\ reg' = Registered(m)
       /\ RunLazy(m)
       /\ order' = Append(order, m)
       /\ owner' = [x \in Consumer |->
            IF phase' # "failed" /\ x \in ToSet(reg'[m].providers) \cup ToSet(reg'[m].controllers)
            THEN m ELSE owner[x]]
       /\ queue' = IF phase' = "failed" THEN <<>> ELSE Tail(queue) \o reg'[m].imports
  /\ UNCHANGED <<script, boot, built, holds, search, cursor, routes>>

\* A mutant of ExportsDeclared: a module may re-export one it does not import.
ProvidersDeclared(m) == ToSet(reg[m].exports) \subseteq ToSet(reg[m].providers)

\* validateExports: a module exports its own Providers and re-exports its own
\* imports, nothing else.
ExportsDeclared(m) ==
  /\ ToSet(reg[m].exports) \subseteq ToSet(reg[m].providers)
  /\ ToSet(reg[m].reexports) \subseteq ToSet(reg[m].imports)

Validate ==
  /\ phase = "assemble" /\ queue = <<>>
  /\ IF \A m \in ToSet(order) : ExportsDeclared(m)
     THEN phase' = "declare" /\ UNCHANGED reason
     ELSE Fail("export")
  /\ UNCHANGED <<script, boot, registrations, tokens, tables, search, progress>>

\* declareProviders.
DeclareAll ==
  /\ phase = "declare"
  /\ DeclareProviders(OwnProviders)
  /\ phase' = "graph"
  /\ UNCHANGED <<script, boot, reason, registrations, built, holds, resolved, lazy, made,
                 search, progress>>

--------------------------------------------------------------------------------
(* Stage 3: BuildGraph, DetectCycle, resolveGraph.                         *)

Target(e) == Find(owner[e.owner], e.target)

\* scopedGraph: BuildGraph calls Find for every edge, and Find's panic ends
\* NewApp; only the Providers of this assembly are nodes.
ScopedGraph ==
  [p \in {e.owner : e \in edges} \cap OwnProviders |->
     {Target(e) : e \in {d \in edges : d.owner = p}} \cap OwnProviders]

BuildGraph ==
  /\ phase = "graph"
  /\ LET panics == {Target(e) : e \in edges} \ Provider IN
       IF panics = {}
       THEN phase' = "cycles" /\ graph' = ScopedGraph /\ UNCHANGED reason
       ELSE \E why \in panics : Fail(why) /\ UNCHANGED graph
  /\ UNCHANGED <<script, boot, registrations, tokens, tables, path, black, chain, progress>>

Deps(p) == IF p \in DOMAIN graph THEN graph[p] ELSE {}

\* DetectCycle's DFS.  path is the stack of gray nodes, with the dependencies
\* each has still to look at; black holds the finished nodes.
Gray == {path[i].node : i \in DOMAIN path}
Enter(p) == [node |-> p, left |-> Deps(p)]

StartSearch ==
  /\ phase = "cycles" /\ path = <<>>
  /\ \E p \in DOMAIN graph \ black : path' = <<Enter(p)>>
  /\ UNCHANGED <<script, boot, phase, reason, registrations, tokens, tables, graph, black, chain, progress>>

CycleError(dep) ==
  LET start == CHOOSE i \in DOMAIN path : path[i].node = dep
  IN  [i \in 1..(Len(path) - start + 1) |-> path[start + i - 1].node]

\* A mutant of LookAt: a gray dependency is passed over like a black one.
LookAtWhite ==
  /\ phase = "cycles" /\ path # <<>>
  /\ \E dep \in Last(path).left :
       LET rest == [path EXCEPT ![Len(path)].left = @ \ {dep}] IN
       path' = IF dep \in Gray \cup black THEN rest ELSE Append(rest, Enter(dep))
  /\ UNCHANGED <<script, boot, phase, reason, registrations, tokens, tables, graph, black, chain,
                 progress>>

LookAt ==
  /\ phase = "cycles" /\ path # <<>>
  /\ \E dep \in Last(path).left :
       LET rest == [path EXCEPT ![Len(path)].left = @ \ {dep}] IN
       IF dep \in Gray
       THEN chain' = CycleError(dep) /\ Fail("cycle") /\ UNCHANGED path
       ELSE /\ path' = IF dep \in black THEN rest ELSE Append(rest, Enter(dep))
            /\ UNCHANGED <<phase, reason, chain>>
  /\ UNCHANGED <<script, boot, registrations, tokens, tables, graph, black, progress>>

Leave ==
  /\ phase = "cycles" /\ path # <<>> /\ Last(path).left = {}
  /\ black' = black \cup {Last(path).node}
  /\ path' = Front(path)
  /\ UNCHANGED <<script, boot, phase, reason, registrations, tokens, tables, graph, chain, progress>>

NoCycle ==
  /\ phase = "cycles" /\ path = <<>> /\ DOMAIN graph \subseteq black
  /\ phase' = "resolve"
  /\ UNCHANGED <<script, boot, reason, registrations, tokens, tables, search, progress>>

\* A mutant of InvokeAndCopy: it does not know what Lazy constructed.
InvokeAgain(done) ==
  /\ resolved' = [p \in Provider |-> IF p \in done THEN boot ELSE resolved[p]]
  /\ made' = [p \in Provider |-> IF p \in done THEN made[p] + 1 ELSE made[p]]
  /\ holds' = [x \in Consumer |-> [t \in Type |->
       LET e == [owner |-> x, target |-> t] IN
       IF e \in edges /\ Target(e) \in done THEN Made(Target(e)) ELSE holds[x][t]]]

\* invokeAndCopy for the Providers in done: the Constructor, unless Lazy ran it,
\* SetResolvedValue, and the copy into the placeholders of its edges.
InvokeAndCopy(done) ==
  /\ resolved' = [p \in Provider |-> IF p \in done THEN boot ELSE resolved[p]]
  /\ made' = [p \in Provider |-> IF p \in done \ lazy THEN made[p] + 1 ELSE made[p]]
  /\ holds' = [x \in Consumer |-> [t \in Type |->
       LET e == [owner |-> x, target |-> t] IN
       IF e \in edges /\ Target(e) \in done THEN Made(Target(e)) ELSE holds[x][t]]]

Resolve ==
  /\ phase = "resolve"
  /\ InvokeAndCopy(OwnProviders)
  /\ phase' = "hooks"
  /\ UNCHANGED <<script, boot, reason, registrations, declared, built, edges, lazy,
                 search, progress>>

\* A Constructor returns an error or panics: some Providers were resolved, each
\* after its dependencies, the failing one and its dependents were not.
ResolveFails ==
  /\ phase = "resolve"
  /\ \E done \in SUBSET OwnProviders :
       /\ \A p \in done : Deps(p) \subseteq done
       /\ \E p \in OwnProviders \ (done \cup lazy) : Deps(p) \subseteq done
       /\ InvokeAndCopy(done)
  /\ Fail("constructor")
  /\ UNCHANGED <<script, boot, registrations, declared, built, edges, lazy, search, progress>>

\* runModuleInitPhase and runApplicationBootstrapPhase: a hook's error ends
\* NewApp before any Controller is declared.
RunHooks ==
  /\ phase = "hooks"
  /\ \/ phase' = "controllers" /\ UNCHANGED reason
     \/ Fail("hook")
  /\ UNCHANGED <<script, boot, registrations, tokens, tables, search, progress>>

--------------------------------------------------------------------------------
(* Controllers and routes.                                                 *)

Listed(m) == Len(reg[m].controllers)

\* A Controller's fn injects directly and then declares its route.  declared is
\* set before fn runs, so a fn that panics is never run again.
DeclareController ==
  /\ phase = "controllers" /\ cursor.module <= Len(order)
  /\ cursor.at <= Listed(order[cursor.module])
  /\ cursor' = [cursor EXCEPT !.at = @ + 1]
  /\ LET c == reg[order[cursor.module]].controllers[cursor.at]
         found(t) == DirectMatches(owner[c], t)
         value(t) == LET p == CHOOSE q \in found(t) : TRUE
                     IN  [by |-> p, boot |-> resolved[p]]
     IN  IF declared[c] # 0
         THEN UNCHANGED <<declared, holds, built, phase, reason>>
         ELSE /\ declared' = [declared EXCEPT ![c] = boot]
              /\ IF \A t \in script.needs[c] : Cardinality(found(t)) = 1
                 THEN /\ holds' = [holds EXCEPT ![c] = [t \in Type |->
                                     IF t \in script.needs[c] THEN value(t) ELSE @[t]]]
                      /\ built' = built \cup {c}
                      /\ UNCHANGED <<phase, reason>>
                 ELSE Fail("direct") /\ UNCHANGED <<holds, built>>
  /\ UNCHANGED <<script, boot, registrations, resolved, tables, search, queue, order, routes>>

NextModule ==
  /\ phase = "controllers" /\ cursor.module <= Len(order)
  /\ cursor.at > Listed(order[cursor.module])
  /\ cursor' = [module |-> cursor.module + 1, at |-> 1]
  /\ UNCHANGED <<script, boot, phase, reason, registrations, tokens, tables, search, queue, order,
                 routes>>

\* registerRoutes: all routes are collected before the first is registered.
\* Each Controller has one route of its own.
Collected ==
  {at \in UNION {{m} \X (1..Listed(m)) : m \in ToSet(order)} :
     reg[at[1]].controllers[at[2]] \in built}

RegisterRoutes ==
  /\ phase = "controllers" /\ cursor.module > Len(order)
  /\ LET route(at) == reg[at[1]].controllers[at[2]] IN
       IF \E a, b \in Collected : a # b /\ route(a) = route(b)
       THEN Fail("duplicate") /\ UNCHANGED routes
       ELSE phase' = "up" /\ routes' = {route(at) : at \in Collected} /\ UNCHANGED reason
  /\ UNCHANGED <<script, boot, registrations, tokens, tables, search, queue, order, cursor>>

Step ==
  \/ SkipVisited \/ Visit \/ Validate \/ DeclareAll
  \/ BuildGraph \/ StartSearch \/ LookAt \/ Leave \/ NoCycle
  \/ Resolve \/ ResolveFails \/ RunHooks
  \/ DeclareController \/ NextModule \/ RegisterRoutes

Next == NewApp \/ Step

Spec == Init /\ [][Next]_vars

\* NewApp runs in one goroutine to its end; nobody has to call it again.
FairSpec == Spec /\ WF_vars(Step)

--------------------------------------------------------------------------------
Values == [by : Provider \cup {"nothing"}, boot : 0..boot]

Registration ==
  [imports : Seq(Module), providers : Seq(Provider), exports : Seq(Provider),
   reexports : Seq(Module), controllers : Seq(Controller)]

\* Every variable holds a value of its type.
TypeOK ==
  /\ script \in Script /\ boot \in 0..Len(script.roots)
  /\ phase \in Phases /\ reason \in Failures \cup Panics \cup {"none"}
  /\ reg \in [Module -> Registration]
  /\ owner \in [Consumer -> Module \cup {NoModule}]
  /\ declared \in [Consumer -> 0..boot] /\ built \subseteq Controller
  /\ holds \in [Consumer -> [Type -> Values]]
  /\ resolved \in [Provider -> 0..boot] /\ made \in [Provider -> Nat]
  /\ edges \subseteq [owner : Provider, target : Type] /\ lazy \subseteq Provider
  /\ queue \in Seq(Module) /\ order \in Seq(Module)
  /\ DOMAIN graph \subseteq Provider /\ \A p \in DOMAIN graph : graph[p] \subseteq Provider
  /\ path \in Seq([node : Provider, left : SUBSET Provider])
  /\ black \subseteq Provider /\ chain \in Seq(Provider)
  /\ cursor \in [module : Nat \ {0}, at : Nat \ {0}] /\ routes \subseteq Controller

--------------------------------------------------------------------------------
(* What module encapsulation means, said without the searches.             *)

\* The modules reached from S along next.
Closed(D, next) == \A m \in D : next[m] \subseteq D
Closure(S, next) ==
  {m \in Module : \A D \in SUBSET Module : S \subseteq D /\ Closed(D, next) => m \in D}

Reexporting(S) == Closure(S, [m \in Module |-> ToSet(reg[m].reexports)])
Importing(S) == Closure(S, [m \in Module |-> ToSet(reg[m].imports)])

Visible(m) ==
  ToSet(reg[m].providers)
    \cup UNION {ToSet(reg[i].exports) : i \in Reexporting(ToSet(reg[m].imports))}

\* assemble visits the modules the root reaches through imports, each once,
\* whatever the imports look like; and what a validated module exports, by
\* re-exports too, belongs to itself or a module it reaches through its imports.
Assembled ==
  phase \notin {"idle", "assemble", "failed"} =>
    /\ ToSet(order) = Importing({script.roots[boot]})
    /\ Len(order) = Cardinality(ToSet(order))
    /\ \A m \in ToSet(order) :
         ToSet(EffectiveExports(reg, m)) \subseteq UNION {ToSet(reg[i].providers) : i \in Importing({m})}

\* What a consumer gets is its module's own, or exported to it by an import,
\* directly or through re-exports; never a Provider its module may not see.
OnlyVisible ==
  \A x \in Consumer, t \in Type :
    LET v == holds[x][t] IN
    v.boot = boot /\ boot > 0 =>
      v.by \in Visible(owner[x]) /\ script.constructs[v.by] = t

\* DetectCycle reports a cycle of the dependency graph, and Stage 3 never starts
\* on a graph that has one.
CyclesFound ==
  /\ reason = "cycle" =>
       /\ chain # <<>> /\ chain[1] \in Deps(Last(chain))
       /\ \A i \in 1..(Len(chain) - 1) : chain[i + 1] \in Deps(chain[i])
  /\ phase \in {"resolve", "hooks", "controllers", "up"} =>
       \A S \in SUBSET Provider : S # {} => \E p \in S : Deps(p) \cap S = {}

\* Every dependency declared in this call holds an instance this call made, and
\* no Constructor ran twice for it, Lazy or not.
FreshForNew ==
  /\ phase = "up" => \A x \in OwnProviders \cup OwnControllers :
       declared[x] = boot => \A t \in script.needs[x] : holds[x][t].boot = boot
  /\ \A p \in Provider : made[p] <= 1

\* After NewApp returned an App, everything its tree injects was made by that
\* call: calls one after the other are independent.
FreshDependencies ==
  phase = "up" => \A x \in OwnProviders \cup OwnControllers :
    \A t \in script.needs[x] : holds[x][t].boot = boot

\* NewApp returns or panics, however the imports and dependencies are tied.
BootsEnd == (phase \notin {"idle", "up", "failed"}) ~> (phase \in {"up", "failed"})
================================================================================
