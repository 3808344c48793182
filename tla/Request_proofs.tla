--------------------------- MODULE Request_proofs ---------------------------
(***************************************************************************)
(* Proofs about one request: the chain of Pipeline it goes through, the    *)
(* call of Parse its handler makes, and what the application says of its   *)
(* calls before it serves any.                                             *)
(*                                                                         *)
(* Pipeline: whatever the lengths of the chain and whatever the code of    *)
(* the dev does, nothing behind the gate runs before every guard let the   *)
(* pass through, and a panic is answered by the nearest filter that        *)
(* catches it.                                                             *)
(*                                                                         *)
(* Parsing: whatever the schemas, the dev's functions and the input, a     *)
(* text is judged as a JSON value would be, onFile sees the files of a     *)
(* form in their order, the first .env file that defines a key wins, and a *)
(* PATCH changes what its body sent.                                       *)
(*                                                                         *)
(* Contract: whatever the modules, the routes, the schemas and the         *)
(* operations, the document is whole and the GraphQL types are closed, or  *)
(* refused for a reason; the calls served then are those of Parsing.       *)
(***************************************************************************)
EXTENDS Pipeline, Contract, WellFoundedInduction, SequenceTheorems, FiniteSetTheorems, TLAPS

-----------------------------------------------------------------------------
(* Pipeline *)

\* The layers from the outside in.
LEMMA Layers ==
  /\ Adapter = 1 /\ Filtered = 2
  /\ gatedHandler \in Nat /\ Handler \in Nat
  /\ 3 <= gatedHandler /\ gatedHandler < Handler
  /\ \A d \in Continuations : d \in Nat /\ 3 <= d /\ d < Handler /\ d # gatedHandler
  /\ \A d \in interceptedHandler : d > gatedHandler
  /\ Depths = 1..Handler
  BY ChainAssumption
  DEF Adapter, Filtered, gatedHandler, Handler, Continuations, composeHandler,
      interceptedHandler, Depths

\* The controller's filters come first in the order of precedence.
LEMMA Precedence ==
  /\ NearestFirst \in Seq(Filter)
  /\ Len(NearestFirst) = Len(ControllerFilters) + Len(GlobalFilters)
  /\ \A i \in DOMAIN ControllerFilters : NearestFirst[i] = ControllerFilters[i]
  /\ \A i \in DOMAIN GlobalFilters :
       NearestFirst[Len(ControllerFilters) + i] = GlobalFilters[i]
  BY FilterAssumption DEF NearestFirst

\* The first controller filter that catches v is the nearest that does.
LEMMA ControllerIsNearest ==
  ASSUME NEW v, NEW i \in findCatch(ControllerFilters, v)
  PROVE  i \in Nearest(v) /\ NearestFirst[i] = ControllerFilters[i]
<1>1. i \in DOMAIN ControllerFilters /\ i \in DOMAIN NearestFirst
  BY Precedence, FilterAssumption DEF findCatch
<1>2. \A j \in DOMAIN NearestFirst : j < i => j \in DOMAIN ControllerFilters
  BY <1>1, Precedence, FilterAssumption
<1> QED BY <1>1, <1>2, Precedence DEF findCatch, Nearest

\* When no controller filter catches v, the first global one that does is it.
LEMMA GlobalIsNearest ==
  ASSUME NEW v, notFound(ControllerFilters, v),
         NEW i \in findCatch(GlobalFilters, v)
  PROVE  /\ Len(ControllerFilters) + i \in Nearest(v)
         /\ NearestFirst[Len(ControllerFilters) + i] = GlobalFilters[i]
<1> DEFINE n == Len(ControllerFilters)
<1>1. \A j \in DOMAIN ControllerFilters : v \notin catches[ControllerFilters[j]]
  BY DEF notFound
<1>2. i \in DOMAIN GlobalFilters /\ v \in catches[GlobalFilters[i]]
      /\ \A j \in DOMAIN GlobalFilters : j < i => v \notin catches[GlobalFilters[j]]
  BY DEF findCatch
<1>3. n \in Nat /\ i \in Nat /\ n + i \in DOMAIN NearestFirst
  BY <1>2, Precedence, FilterAssumption
<1>4. ASSUME NEW j \in DOMAIN NearestFirst, j < n + i
      PROVE  v \notin catches[NearestFirst[j]]
  <2>1. CASE j <= n
    BY <1>1, <2>1, Precedence, FilterAssumption
  <2>2. CASE j > n
    <3>1. j - n \in DOMAIN GlobalFilters /\ j - n < i /\ n + (j - n) = j
      BY <1>3, <1>4, <2>2, Precedence, FilterAssumption
    <3> QED BY <1>2, <3>1, Precedence
  <2> QED BY <2>1, <2>2, <1>3, Precedence
<1>5. NearestFirst[n + i] = GlobalFilters[i]
  BY <1>2, Precedence
<1> QED BY <1>2, <1>3, <1>4, <1>5 DEF Nearest

\* What neither pass of filteredHandler finds, no filter catches.
LEMMA NothingIsNearest ==
  ASSUME NEW v,
         notFound(ControllerFilters, v), notFound(GlobalFilters, v)
  PROVE  Nearest(v) = {}
<1> DEFINE n == Len(ControllerFilters)
<1>1. \A j \in DOMAIN ControllerFilters : v \notin catches[ControllerFilters[j]]
  BY DEF notFound
<1>2. \A j \in DOMAIN GlobalFilters : v \notin catches[GlobalFilters[j]]
  BY DEF notFound
<1>3. ASSUME NEW j \in DOMAIN NearestFirst
      PROVE  v \notin catches[NearestFirst[j]]
  <2>1. CASE j <= n
    BY <1>1, <2>1, Precedence, FilterAssumption
  <2>2. CASE j > n
    <3>1. j - n \in DOMAIN GlobalFilters /\ n + (j - n) = j
      BY <2>2, Precedence, FilterAssumption
    <3> QED BY <1>2, <3>1, Precedence
  <2> QED BY <2>1, <2>2, Precedence, FilterAssumption
<1> QED BY <1>3 DEF Nearest

\* A panic value that is no exception is caught by nobody.
LEMMA OthersUncaught ==
  ASSUME TypeOK, NEW v, v \notin Exception
  PROVE  Nearest(v) = {}
<1>1. \A i \in DOMAIN NearestFirst : catches[NearestFirst[i]] \subseteq Exception
  BY Precedence DEF TypeOK
<1> QED BY <1>1 DEF Nearest

\* A request begins outside of everything, with no panic and no answer.
LEMMA InitInvariant == Init => IInv
  BY Layers, ChainAssumption
  DEF Init, IInv, TypeOK, GateInv, AdapterInv, CaughtByNearest, Value

\* A call of the next layer inwards.
LEMMA EnterKeeps ==
  ASSUME IInv, mode = "running", at \in Nat, at < Handler, calls[at] < MaxCalls,
         at = gatedHandler => passed = Guards, Enter,
         UNCHANGED <<catches, mode, value, catcher, answer>>
  PROVE  IInv'
<1>1. at + 1 \in Depths /\ at \in Depths
  BY Layers DEF IInv, TypeOK
<1>2. TypeOK'
  <2>1. calls' \in [Depths -> 0..MaxCalls]
    BY <1>1, ChainAssumption DEF IInv, TypeOK, Enter
  <2>2. at' \in Depths /\ passed' \in 0..Guards
    BY <1>1, ChainAssumption DEF IInv, TypeOK, Enter
  <2> QED BY <2>1, <2>2 DEF IInv, TypeOK
<1>3. GateInv'
  BY Layers DEF IInv, GateInv, Enter
<1>4. AdapterInv' /\ CaughtByNearest'
  BY DEF IInv, AdapterInv, CaughtByNearest, Nearest
<1> QED BY <1>2, <1>3, <1>4 DEF IInv

\* The inward moves: a layer calls the next one, or a guard lets the pass on.
LEMMA InwardKeeps ==
  IInv /\ (CallWrapped \/ CallNext \/ GuardPasses \/ GateOpens) => IInv'
<1> SUFFICES ASSUME IInv, CallWrapped \/ CallNext \/ GuardPasses \/ GateOpens
             PROVE  IInv'
  OBVIOUS
<1>1. CASE CallWrapped
  BY <1>1, Layers, EnterKeeps, ChainAssumption DEF CallWrapped
<1>2. CASE CallNext
  BY <1>2, Layers, EnterKeeps DEF CallNext
<1>3. CASE GateOpens
  BY <1>3, Layers, EnterKeeps, ChainAssumption DEF GateOpens
<1>4. CASE GuardPasses
  BY <1>4, Layers, ChainAssumption
  DEF GuardPasses, Asking, IInv, TypeOK, GateInv, AdapterInv, CaughtByNearest, Nearest
<1> QED BY <1>1, <1>2, <1>3, <1>4

\* The outward moves: a layer returns, a panic passes through it or starts in it.
LEMMA OutwardKeeps ==
  ASSUME IInv,
         \/ Return \/ RequestEnds \/ Unwind \/ DevRecovers \/ DevResponds
         \/ GuardRefuses \/ \E v \in Value : DevPanics(v)
  PROVE  IInv'
<1>1. CASE Return
  BY <1>1, Layers
  DEF Return, IInv, TypeOK, GateInv, AdapterInv, CaughtByNearest, Nearest
<1>2. CASE RequestEnds
  BY <1>2
  DEF RequestEnds, IInv, TypeOK, GateInv, AdapterInv, CaughtByNearest, Nearest
<1>3. CASE Unwind
  BY <1>3, Layers
  DEF Unwind, IInv, TypeOK, GateInv, AdapterInv, CaughtByNearest, Nearest
<1>4. CASE DevRecovers
  BY <1>4, Layers
  DEF DevRecovers, IInv, TypeOK, GateInv, AdapterInv, CaughtByNearest, Nearest
<1>5. CASE DevResponds
  BY <1>5
  DEF DevResponds, Dev, IInv, TypeOK, GateInv, AdapterInv, CaughtByNearest, Nearest
<1>6. CASE GuardRefuses
  BY <1>6, Layers, ValueAssumption
  DEF GuardRefuses, Asking, PanicWith, Value, IInv, TypeOK, GateInv, AdapterInv,
      CaughtByNearest, Nearest
<1>7. ASSUME NEW v \in Value, DevPanics(v) PROVE IInv'
  <2>1. at # Adapter
    BY <1>7, Layers DEF DevPanics, Dev, Asking
  <2> QED BY <1>7, <2>1
      DEF DevPanics, Dev, PanicWith, IInv, TypeOK, GateInv, AdapterInv, CaughtByNearest
<1> QED BY <1>1, <1>2, <1>3, <1>4, <1>5, <1>6, <1>7

\* The filters: who catches the panic is the nearest, who passes it on had none.
LEMMA FiltersKeep == IInv /\ Filters => IInv'
<1> SUFFICES ASSUME IInv, Filters PROVE IInv'
  OBVIOUS
<1> USE DEF Nearest
<1>1. CASE CatchByController
  <2>1. PICK i \in findCatch(ControllerFilters, value) : catcher' = ControllerFilters[i]
    BY <1>1 DEF CatchByController, CatchWith
  <2>2. i \in Nearest(value) /\ NearestFirst[i] = catcher'
    BY <2>1, ControllerIsNearest
  <2>3. catcher' \in Filter
    BY <2>2, Precedence
  <2> QED BY <1>1, <2>2, <2>3
      DEF CatchByController, CatchWith, IInv, TypeOK, GateInv, AdapterInv, CaughtByNearest
<1>2. CASE CatchByGlobal
  <2>1. PICK i \in findCatch(GlobalFilters, value) : catcher' = GlobalFilters[i]
    BY <1>2 DEF CatchByGlobal, CatchWith
  <2> DEFINE n == Len(ControllerFilters) + i
  <2>2. n \in Nearest(value) /\ NearestFirst[n] = catcher'
    BY <1>2, <2>1, GlobalIsNearest DEF CatchByGlobal
  <2>3. catcher' \in Filter
    BY <2>2, Precedence
  <2> QED BY <1>2, <2>2, <2>3
      DEF CatchByGlobal, CatchWith, IInv, TypeOK, GateInv, AdapterInv, CaughtByNearest
<1>3. CASE Repanic
  <2>1. Nearest(value) = {}
    BY <1>3, NothingIsNearest, OthersUncaught DEF Repanic, IInv
  <2> QED BY <1>3, <2>1, Layers
      DEF Repanic, IInv, TypeOK, GateInv, AdapterInv, CaughtByNearest
<1> QED BY <1>1, <1>2, <1>3 DEF Filters

\* The Catch handler and the adapter's recover.
LEMMA CaughtKeeps ==
  ASSUME IInv,
         CatchResponds \/ CatchReturns \/ AdapterRecovers \/ \E v \in Value : CatchPanics(v)
  PROVE  IInv'
<1> USE DEF Nearest
<1>1. CASE CatchResponds
  BY <1>1 DEF CatchResponds, IInv, TypeOK, GateInv, AdapterInv, CaughtByNearest
<1>2. CASE CatchReturns
  BY <1>2, Layers DEF CatchReturns, IInv, TypeOK, GateInv, AdapterInv, CaughtByNearest
<1>3. CASE AdapterRecovers
  BY <1>3 DEF AdapterRecovers, IInv, TypeOK, GateInv, AdapterInv, CaughtByNearest
<1>4. ASSUME NEW v \in Value, CatchPanics(v) PROVE IInv'
  <2>1. catcher # Nothing
    BY <1>4, Precedence, FilterAssumption DEF CatchPanics, IInv, CaughtByNearest
  <2> QED BY <1>4, <2>1, Layers
      DEF CatchPanics, PanicWith, IInv, TypeOK, GateInv, AdapterInv, CaughtByNearest
<1> QED BY <1>1, <1>2, <1>3, <1>4

\* Every step keeps the invariant.
LEMMA NextKeeps == IInv /\ [Next]_vars => IInv'
<1> SUFFICES ASSUME IInv, [Next]_vars PROVE IInv'
  OBVIOUS
<1>1. CASE Moves
  BY <1>1, InwardKeeps, OutwardKeeps, FiltersKeep, CaughtKeeps DEF Moves
<1>2. CASE DevResponds \/ DevRecovers \/ CatchResponds
  BY <1>2, OutwardKeeps, CaughtKeeps
<1>3. CASE \E v \in Value : DevPanics(v) \/ CatchPanics(v)
  BY <1>3, OutwardKeeps, CaughtKeeps
<1>4. CASE UNCHANGED vars
  BY <1>4
  DEF vars, IInv, TypeOK, GateInv, AdapterInv, CaughtByNearest, Nearest
<1> QED BY <1>1, <1>2, <1>3, <1>4 DEF Next

\* The invariant holds in every reachable state.
THEOREM Invariance == Spec => []IInv
  BY InitInvariant, NextKeeps, PTL DEF Spec

\* Every variable holds a value of its type, for every chain.
THEOREM TypeCorrect == Spec => []TypeOK
<1>1. IInv => TypeOK
  BY DEF IInv
<1> QED BY <1>1, Invariance, PTL

\* gatedHandler: whatever calls next again or recovers from a refusal outside of
\* the gate, an interceptor or the handler runs only after every guard passed.
THEOREM GuardsAreFirst == Spec => []GuardsFirst
<1>1. IInv => GuardsFirst
  BY Layers DEF IInv, GateInv, GuardsFirst
<1> QED BY <1>1, Invariance, PTL

\* filteredHandler and the adapter's recover: the nearest filter catches, and the
\* default answer is for what none catches or a Catch handler panicked with.
THEOREM CaughtByTheNearest == Spec => []CaughtByNearest
<1>1. IInv => CaughtByNearest
  BY DEF IInv
<1> QED BY <1>1, Invariance, PTL

-----------------------------------------------------------------------------
(* Parsing. Lemmas about numbers, violations and keys. *)

\* Some numbers up to n have a last one.
LEMMA LastOf ==
  ASSUME NEW n \in Nat, NEW S \in SUBSET (1 .. n), S # {}
  PROVE  \E i \in S : \A j \in S : j <= i
  <1> DEFINE Rest == {n - i : i \in S}
  <1>1. Rest \subseteq Nat /\ Rest # {}
    <2>1. \A i \in S : n - i \in Nat
      OBVIOUS
    <2> QED
      BY <2>1
  <1>2. \E m \in Rest : \A k \in Rest : ~ (<<k, m>> \in OpToRel(<, Nat))
    <2> HIDE DEF Rest
    <2> QED
      BY <1>1, WFMin, NatLessThanWellFounded
  <1>3. PICK m \in Rest : \A k \in Rest : ~ (k < m)
    <2>1. \A k, m \in Nat : k < m => <<k, m>> \in OpToRel(<, Nat)
      BY DEF OpToRel
    <2> QED
      BY <1>1, <1>2, <2>1
  <1>4. PICK i \in S : m = n - i
    BY <1>3
  <1>5. \A j \in S : j <= i
    <2> TAKE j \in S
    <2>1. n - j \in Rest
      OBVIOUS
    <2> QED
      BY <1>3, <1>4, <2>1
  <1> QED
    BY <1>5

\* Facts about 0 that carry over from each number to the next hold of all.
LEMMA NatSetInduction ==
  ASSUME NEW A, 0 \in A, \A n \in Nat : n \in A => n + 1 \in A
  PROVE  Nat \subseteq A
  <1> DEFINE Outside == Nat \ A
  <1> SUFFICES ASSUME Outside # {} PROVE FALSE
    OBVIOUS
  <1>1. \E n \in Outside : \A k \in Outside : ~ (<<k, n>> \in OpToRel(<, Nat))
    <2>1. Outside \subseteq Nat
      OBVIOUS
    <2> HIDE DEF Outside
    <2> QED
      BY <2>1, WFMin, NatLessThanWellFounded
  <1>2. PICK n \in Outside : \A k \in Outside : ~ (k < n)
    <2>1. \A k, n \in Nat : k < n => <<k, n>> \in OpToRel(<, Nat)
      BY DEF OpToRel
    <2> QED
      BY <1>1, <2>1
  <1>3. n # 0 /\ n - 1 \in Nat /\ n - 1 < n /\ (n - 1) + 1 = n
    BY <1>2
  <1> QED
    BY <1>2, <1>3

\* Some positions of a sequence have a first one.
LEMMA FirstOf ==
  ASSUME NEW n \in Nat, NEW S \in SUBSET (1 .. n), S # {}
  PROVE  \E i \in S : \A j \in S : i <= j
  <1>1. S \subseteq Nat
    OBVIOUS
  <1>2. \E i \in S : \A j \in S : ~ (<<j, i>> \in OpToRel(<, Nat))
    BY <1>1, WFMin, NatLessThanWellFounded
  <1>3. \A j, i \in Nat : j < i => <<j, i>> \in OpToRel(<, Nat)
    BY DEF OpToRel
  <1>4. PICK i \in S : \A j \in S : ~ (j < i)
    BY <1>1, <1>2, <1>3
  <1> QED
    BY <1>1, <1>4

\* What a violation in a field says, and which field it names.
LEMMA WithinNames ==
  ASSUME NEW k, NEW S
  PROVE  /\ \A v \in Within(k, S) : v.field = k
         /\ Within(k, S) = {} <=> S = {}
  <1>1. \A v \in S : [field |-> k, fault |-> v] \in Within(k, S)
    BY DEF Within
  <1>2. \A v \in Within(k, S) : \E w \in S : v = [field |-> k, fault |-> w]
    BY DEF Within
  <1>3. Within(k, S) = {} => S = {}
    BY <1>1
  <1>4. S = {} => Within(k, S) = {}
    BY <1>2
  <1>5. \A v \in Within(k, S) : v.field = k
    BY <1>2
  <1> QED
    BY <1>3, <1>4, <1>5

\* The properties a walk meets are fields of the schema, each with its own key.
LEMMA OwnKeys ==
  ASSUME schema \in DOMAIN SchemaTable
  PROVE  \A p, q \in Range(SchemaTable[schema].fields) : p.key = q.key => p = q
  BY KeysAssumption DEF Range

-----------------------------------------------------------------------------
(* A text, wherever it comes from, blames the property it is for and no other. *)

Readings(p, text) == IF p.custom THEN {AsString(text)} ELSE coerceParamString(text, p.kind)
Blamed(p) == \E v \in found : v.field = p.key

LEMMA TakeBlames ==
  ASSUME schema \in DOMAIN SchemaTable, NEW p \in Properties, NEW text, Take(p, text), UNCHANGED inputs
  PROVE  \A q \in Properties :
           /\ Blamed(q)' <=> Blamed(q) \/ (q = p /\ Refuted(p, text))
           /\ q.key \in DOMAIN presence' <=> q.key \in DOMAIN presence \/ (q = p /\ Readings(p, text) # {})
  <1> DEFINE told == IF Readings(p, text) = {} THEN {Fault("coerce")}
                     ELSE UNION {Violations(v, p) : v \in Readings(p, text)}
  <1>1. /\ found' = found \cup Within(p.key, told)
        /\ presence' = IF Readings(p, text) = {} THEN presence
                       ELSE Put(presence, p.key, CHOOSE v \in Readings(p, text) : TRUE)
    BY DEF Take, Readings
  <1>2. told # {} <=> Refuted(p, text)
    BY DEF Refuted, Readings
  <1>3. DOMAIN presence' = DOMAIN presence \cup IF Readings(p, text) = {} THEN {} ELSE {p.key}
    BY <1>1 DEF Put
  <1> HIDE DEF told
  <1> TAKE q \in Properties
  <1>4. q.key = p.key <=> q = p
    BY OwnKeys DEF Properties, Visible
  <1>5. Blamed(q)' <=> Blamed(q) \/ (q = p /\ told # {})
    <2>1. Blamed(q)' <=> Blamed(q) \/ \E v \in Within(p.key, told) : v.field = q.key
      BY <1>1 DEF Blamed
    <2> QED
      BY <2>1, <1>4, WithinNames
  <1> QED
    BY <1>2, <1>3, <1>4, <1>5

-----------------------------------------------------------------------------
(* The invariant. *)

\* The call at hand is one of the cases.
CaseInv ==
  pc # "idle" =>
    /\ source \in Sources /\ schema \in DOMAIN SchemaTable
    /\ source = "form" => input \in Seq(Range(input))
    /\ source = "env" => AreFiles(paths)
    /\ pc = "synced" => source = "json" /\ ~ SchemaTable[schema].isValue

\* Before a source is asked nothing has been found, decoded, written or handed on.
StartInv ==
  /\ pc \in {"idle", "load", "resolve"} =>
       found = {} /\ presence = <<>> /\ dst = [k \in AllKeys |-> Zero] /\ files = <<>> /\ entity = Entity
  /\ pc = "load" => source = "env"
  /\ pc = "idle" \/ (pc = "resolve" /\ source # "env") => next = 1

\* Each property is blamed, as soon as the walk has come to it, for what it
\* deserves; in a form for the parts the walk has come to.
Deserves(p) ==
  \/ \E text \in Supplied(p.key) : Refuted(p, text)
  \/ p.required /\ Supplied(p.key) = {} /\ (source = "env" => p.default = {})

Walked(p) == {i \in 1 .. (next - 1) : input[i].is = "field" /\ input[i].key = p.key}
RefutedSoFar(p) == \E i \in Walked(p) : Refuted(p, input[i].text)
ReadSoFar(p) == \E i \in Walked(p) : Readings(p, input[i].text) # {}

JudgedInv ==
  /\ pc = "decode" => source \in DecodedSources
  /\ pc = "check" =>
       /\ source \in TextSources /\ pending \subseteq Properties
       /\ \A p \in Properties : Blamed(p) <=> p \notin pending /\ Deserves(p)
  /\ pc = "parts" =>
       /\ source = "form" /\ next \in 1 .. (Len(input) + 1)
       /\ \A p \in Properties :
            (Blamed(p) <=> RefutedSoFar(p)) /\ (p.key \in DOMAIN presence <=> ReadSoFar(p))
  /\ DecidesAsJson

LEMMA CaseKept == ASSUME CaseInv, ParseNext PROVE CaseInv'
  <1>1. CASE Call
    BY <1>1, CasesAssumption DEF Call, CaseInv, IsSequence
  <1>2. CASE ~ Call
    <2>1. UNCHANGED <<schema, source, input, paths>> /\ pc # "idle"
      BY <1>2 DEF ParseNext, LoadPath, LoadFails, Loaded, Resolve, MalformedBody, DecodeStruct, DecodeValue,
           VisitPresent, VisitAbsent, Checked, NextPart, BrokenPart, FilePart, FieldPart, EndOfParts, Decide,
           Populate, PopulateFails, Populated, Sync, inputs
    <2>2. pc' = "synced" => source = "json" /\ ~ SchemaTable[schema].isValue
      BY <1>2 DEF ParseNext, LoadPath, LoadFails, Loaded, Resolve, MalformedBody, DecodeStruct, DecodeValue, WriteValue,
           VisitPresent, VisitAbsent, Checked, NextPart, BrokenPart, FilePart, FieldPart, EndOfParts, Decide,
           Populate, PopulateFails, Populated, Sync, Reject
    <2> QED
      BY <2>1, <2>2 DEF CaseInv
  <1> QED
    BY <1>1, <1>2

LEMMA StartKept == ASSUME StartInv, ParseNext PROVE StartInv'
  <1>1. CASE Call
    BY <1>1 DEF Call, StartInv, result
  <1>2. CASE LoadPath \/ LoadFails \/ Loaded
    BY <1>2 DEF LoadPath, LoadFails, Loaded, StartInv, inputs, result
  <1>3. CASE ~ Call /\ ~ (LoadPath \/ LoadFails \/ Loaded)
    <2>1. pc' \notin {"idle", "load", "resolve"}
      BY <1>3 DEF ParseNext, Resolve, MalformedBody, DecodeStruct, DecodeValue, WriteValue, Reject,
           VisitPresent, VisitAbsent, Checked, NextPart, BrokenPart, FilePart, FieldPart, EndOfParts, Decide,
           Populate, PopulateFails, Populated, Sync
    <2> QED
      BY <2>1 DEF StartInv
  <1> QED
    BY <1>1, <1>2, <1>3

\* What a property deserves is settled before the walk begins.
LEMMA DesertStays ==
  ASSUME UNCHANGED <<inputs, environ>>
  PROVE  /\ Properties' = Properties
         /\ \A p, text : Refuted(p, text)' <=> Refuted(p, text)
         /\ \A k : Supplied(k)' = Supplied(k)
         /\ \A p \in Properties : Deserves(p)' <=> Deserves(p)
  <1>1. UNCHANGED <<source, schema, input>>
    BY DEF inputs
  <1>2. Properties' = Properties
    BY <1>1 DEF Properties, Visible, Tag
  <1>3. \A p, text : Refuted(p, text)' <=> Refuted(p, text)
    BY DEF Refuted
  <1>4. \A k : RawText(k)' = RawText(k)
    BY <1>1 DEF RawText
  <1>5. \A k : Supplied(k)' = Supplied(k)
    BY <1>1, <1>4 DEF Supplied
  <1>6. \A p \in Properties : Deserves(p)' <=> Deserves(p)
    BY <1>1, <1>3, <1>5 DEF Deserves
  <1> QED
    BY <1>2, <1>3, <1>5, <1>6

\* A source of texts has one text for a key, or none.
LEMMA OneText ==
  ASSUME source \in TextSources, NEW k, NEW text \in RawText(k)
  PROVE  Supplied(k) = {text}
  <1>1. \A values : Lookup(k, values) = {} \/ \E t : Lookup(k, values) = {t}
    BY DEF Lookup
  <1>2. RawText(k) = {} \/ \E t : RawText(k) = {t}
    <2>1. CASE source = "env"
      BY <1>1, <2>1 DEF RawText
    <2>2. CASE source = "header"
      BY <1>1, <2>2 DEF RawText
    <2>3. CASE source \notin {"env", "header"}
      BY <1>1, <2>3 DEF RawText
    <2> QED
      BY <2>1, <2>2, <2>3
  <1> QED
    BY <1>2 DEF Supplied, TextSources

LEMMA NoText ==
  ASSUME source \in TextSources, NEW k, RawText(k) = {}
  PROVE  Supplied(k) = {}
  BY DEF Supplied, TextSources

\* What a text reads as is up to the schema alone.
LEMMA SameTexts ==
  ASSUME input' = input, NEW p
  PROVE  /\ RefutedSoFar(p)' <=> \E i \in Walked(p)' : Refuted(p, input[i].text)
         /\ ReadSoFar(p)' <=> \E i \in Walked(p)' : Readings(p, input[i].text) # {}
  BY DEF RefutedSoFar, ReadSoFar, Refuted, Readings

LEMMA ResolveJudges == ASSUME CaseInv, StartInv, Resolve PROVE JudgedInv'
  <1>1. /\ found' = {} /\ presence' = <<>> /\ source' = source /\ input' = input /\ next' = next
        /\ schema' = schema
    BY DEF Resolve, StartInv, inputs
  <1>2. \A p : ~ Blamed(p)'
    BY <1>1 DEF Blamed
  <1>3. CASE source \in DecodedSources
    BY <1>3, <1>1 DEF Resolve, JudgedInv, DecidesAsJson, DecodedSources
  <1>4. CASE source = "form"
    <2>1. next' = 1 /\ input \in Seq(Range(input))
      BY <1>4, <1>1 DEF Resolve, StartInv, CaseInv
    <2>2. \A p : Walked(p)' = {}
      BY <2>1, <1>1 DEF Walked
    <2>3. pc' \in {"parts", "panicked"}
      BY <1>4 DEF Resolve, DecodedSources
    <2>4. \A p : p.key \notin DOMAIN presence'
      BY <1>1
    <2>5. next' \in 1 .. (Len(input') + 1) /\ source' = "form"
      BY <2>1, <1>1, <1>4
    <2> QED
      BY <2>2, <2>3, <2>4, <2>5, <1>2 DEF JudgedInv, DecidesAsJson, RefutedSoFar, ReadSoFar
  <1>5. CASE source \notin DecodedSources /\ source # "form"
    <2>1. pc' \in {"check", "panicked"}
      BY <1>5 DEF Resolve
    <2>2. source \in TextSources /\ source' \in TextSources
      BY <1>1, <1>5 DEF CaseInv, Sources, Resolve
    <2>3. pending' = Properties
      BY <2>2 DEF Resolve
    <2>4. UNCHANGED <<inputs, environ>>
      BY DEF Resolve
    <2>5. pending' = Properties'
      BY <2>3, <2>4, DesertStays
    <2> QED
      BY <2>1, <2>2, <2>5, <1>2 DEF JudgedInv, DecidesAsJson
  <1> QED
    BY <1>3, <1>4, <1>5

\* A property that has a text is blamed for it, and the others as before.
LEMMA PresentJudges ==
  ASSUME CaseInv, JudgedInv, NEW p \in pending, VisitPresent(p)
  PROVE  JudgedInv'
  <1>1. /\ pc = "check" /\ pc' = "check" /\ pending' = pending \ {p} /\ UNCHANGED <<inputs, environ>>
        /\ source \in TextSources /\ source' = source /\ p \in Properties /\ pending \subseteq Properties
        /\ schema \in DOMAIN SchemaTable
    BY DEF VisitPresent, JudgedInv, CaseInv, inputs
  <1>2. PICK text \in RawText(p.key) : Take(p, text)
    BY DEF VisitPresent
  <1>3. \A q \in Properties : Blamed(q)' <=> Blamed(q) \/ (q = p /\ Refuted(p, text))
    BY <1>1, <1>2, TakeBlames
  <1>4. Supplied(p.key) = {text}
    BY <1>1, <1>2, OneText
  <1>5. Deserves(p) <=> Refuted(p, text)
    BY <1>4 DEF Deserves
  <1>6. \A q \in Properties : Blamed(q) <=> q \notin pending /\ Deserves(q)
    BY <1>1 DEF JudgedInv
  <1>7. \A q \in Properties : Blamed(q)' <=> q \notin pending' /\ Deserves(q)
    BY <1>1, <1>3, <1>5, <1>6
  <1>8. \A q \in Properties' : Blamed(q)' <=> q \notin pending' /\ Deserves(q)'
    BY <1>1, <1>7, DesertStays
  <1>9. pending' \subseteq Properties'
    BY <1>1, DesertStays
  <1> QED
    BY <1>1, <1>8, <1>9 DEF JudgedInv, DecidesAsJson

\* A property without a text is blamed if it is required and has no default.
LEMMA AbsentJudges ==
  ASSUME CaseInv, JudgedInv, NEW p \in pending, VisitAbsent(p)
  PROVE  JudgedInv'
  <1>1. /\ pc = "check" /\ pc' = "check" /\ pending' = pending \ {p} /\ UNCHANGED <<inputs, environ>>
        /\ source \in TextSources /\ source' = source /\ p \in Properties /\ pending \subseteq Properties
        /\ schema \in DOMAIN SchemaTable
    BY DEF VisitAbsent, JudgedInv, CaseInv, inputs
  <1>2. Supplied(p.key) = {}
    BY <1>1, NoText DEF VisitAbsent
  <1>3. Deserves(p) <=> p.required /\ (source = "env" => p.default = {})
    BY <1>2 DEF Deserves
  <1> DEFINE told == IF Deserves(p) THEN {Fault("required")} ELSE {}
  <1>4. found' = found \cup Within(p.key, told)
    <2>1. CASE source = "env" /\ p.default # {}
      <3>1. found' = found /\ told = {}
        BY <2>1, <1>3 DEF VisitAbsent
      <3>2. Within(p.key, {}) = {}
        BY WithinNames
      <3> QED
        BY <3>1, <3>2
    <2>2. CASE ~ (source = "env" /\ p.default # {})
      <3>1. found' = found \cup Within(p.key, IF p.required THEN {Fault("required")} ELSE {})
        BY <2>2 DEF VisitAbsent
      <3>2. told = IF p.required THEN {Fault("required")} ELSE {}
        BY <2>2, <1>3
      <3> QED
        BY <3>1, <3>2
    <2> QED
      BY <2>1, <2>2
  <1>5. told # {} <=> Deserves(p)
    OBVIOUS
  <1> HIDE DEF told
  <1>6. \A q \in Properties : Blamed(q)' <=> Blamed(q) \/ (q = p /\ Deserves(p))
    <2> TAKE q \in Properties
    <2>1. q.key = p.key <=> q = p
      BY <1>1, OwnKeys DEF Properties, Visible
    <2>2. Blamed(q)' <=> Blamed(q) \/ \E v \in Within(p.key, told) : v.field = q.key
      BY <1>4 DEF Blamed
    <2> QED
      BY <2>1, <2>2, <1>5, WithinNames
  <1>7. \A q \in Properties : Blamed(q) <=> q \notin pending /\ Deserves(q)
    BY <1>1 DEF JudgedInv
  <1>8. \A q \in Properties : Blamed(q)' <=> q \notin pending' /\ Deserves(q)
    BY <1>1, <1>6, <1>7
  <1>9. (\A q \in Properties' : Blamed(q)' <=> q \notin pending' /\ Deserves(q)') /\ pending' \subseteq Properties'
    BY <1>1, <1>8, DesertStays
  <1> QED
    BY <1>1, <1>9 DEF JudgedInv, DecidesAsJson

LEMMA CheckedJudges == ASSUME JudgedInv, Checked PROVE JudgedInv'
  <1>1. /\ pc = "check" /\ pc' = "decide" /\ pending = {} /\ UNCHANGED <<inputs, environ, found>>
        /\ source \in TextSources /\ source' = source
    BY DEF Checked, JudgedInv, inputs
  <1>2. \A q \in Properties : Blamed(q) <=> Deserves(q)
    BY <1>1 DEF JudgedInv
  <1>3. \A q \in Properties' : Blamed(q)' <=> Deserves(q)'
    BY <1>1, <1>2, DesertStays DEF Blamed
  <1> QED
    BY <1>1, <1>3 DEF JudgedInv, DecidesAsJson, Blamed, Deserves

\* The parts of a form: a field that is declared blames its property.
LEMMA FieldJudges == ASSUME CaseInv, JudgedInv, FieldPart PROVE JudgedInv'
  <1>1. /\ pc = "parts" /\ pc' = "parts" /\ next' = next + 1 /\ UNCHANGED <<inputs, environ>>
        /\ source = "form" /\ source' = source /\ input' = input
        /\ next \in 1 .. Len(input) /\ schema \in DOMAIN SchemaTable /\ input \in Seq(Range(input))
        /\ input[next].is = "field"
    BY DEF FieldPart, NextPart, Part, JudgedInv, CaseInv, inputs
  <1>2. Properties' = Properties /\ \A p, text : Refuted(p, text)' <=> Refuted(p, text)
    BY <1>1, DesertStays
  <1>3. \A p \in Properties : Walked(p)' = IF p.key = Part.key THEN Walked(p) \cup {next} ELSE Walked(p)
    <2>1. 1 .. (next' - 1) = (1 .. (next - 1)) \cup {next}
      BY <1>1
    <2> QED
      BY <2>1, <1>1 DEF Walked, Part
  <1>4. \A p \in Properties :
          /\ Blamed(p)' <=> Blamed(p) \/ (p.key = Part.key /\ Refuted(p, Part.text))
          /\ p.key \in DOMAIN presence' <=> p.key \in DOMAIN presence \/ (p.key = Part.key /\ Readings(p, Part.text) # {})
    <2>1. CASE {p \in Properties : p.key = Part.key} = {} /\ UNCHANGED <<found, presence>>
      BY <2>1 DEF Blamed
    <2>2. CASE \E p \in {q \in Properties : q.key = Part.key} : Take(p, Part.text)
      <3>1. PICK p \in Properties : p.key = Part.key /\ Take(p, Part.text)
        BY <2>2
      <3>2. \A q \in Properties : q.key = Part.key <=> q = p
        BY <3>1, <1>1, OwnKeys DEF Properties, Visible
      <3>3. UNCHANGED inputs
        BY <1>1
      <3>4. \A q \in Properties :
              /\ Blamed(q)' <=> Blamed(q) \/ (q = p /\ Refuted(p, Part.text))
              /\ q.key \in DOMAIN presence' <=> q.key \in DOMAIN presence \/ (q = p /\ Readings(p, Part.text) # {})
        BY <3>1, <3>3, <1>1, TakeBlames
      <3> QED
        BY <3>2, <3>4
    <2> QED
      BY <2>1, <2>2 DEF FieldPart
  <1>5. \A p \in Properties :
          /\ Blamed(p) <=> \E i \in Walked(p) : Refuted(p, input[i].text)
          /\ p.key \in DOMAIN presence <=> \E i \in Walked(p) : Readings(p, input[i].text) # {}
    BY <1>1 DEF JudgedInv, RefutedSoFar, ReadSoFar
  <1>6. \A p \in Properties :
          /\ Blamed(p)' <=> \E i \in Walked(p)' : Refuted(p, input[i].text)
          /\ p.key \in DOMAIN presence' <=> \E i \in Walked(p)' : Readings(p, input[i].text) # {}
    BY <1>3, <1>4, <1>5 DEF Part
  <1>7. \A p \in Properties' :
          (Blamed(p)' <=> RefutedSoFar(p)') /\ (p.key \in DOMAIN presence' <=> ReadSoFar(p)')
    BY <1>1, <1>2, <1>6, SameTexts
  <1>8. next' \in 1 .. (Len(input') + 1)
    BY <1>1
  <1> QED
    BY <1>1, <1>7, <1>8 DEF JudgedInv, DecidesAsJson

\* A file is nobody's text.
LEMMA FileJudges == ASSUME CaseInv, JudgedInv, FilePart PROVE JudgedInv'
  <1>1. /\ pc = "parts" /\ next' = next + 1 /\ UNCHANGED <<inputs, environ, presence>>
        /\ source = "form" /\ source' = source /\ input' = input
        /\ next \in 1 .. Len(input) /\ input \in Seq(Range(input)) /\ input[next].is = "file"
        /\ pc' = "rejected" \/ (pc' = "parts" /\ found' = found)
    BY DEF FilePart, NextPart, Part, JudgedInv, CaseInv, inputs, Reject
  <1>2. Properties' = Properties /\ \A p, text : Refuted(p, text)' <=> Refuted(p, text)
    BY <1>1, DesertStays
  <1>3. \A p : Walked(p)' = Walked(p)
    <2>1. 1 .. (next' - 1) = (1 .. (next - 1)) \cup {next}
      BY <1>1
    <2> QED
      BY <2>1, <1>1 DEF Walked
  <1>4. CASE pc' = "rejected"
    BY <1>4 DEF JudgedInv, DecidesAsJson
  <1>5. CASE pc' = "parts" /\ found' = found
    <2>1. \A p \in Properties :
            /\ Blamed(p) <=> \E i \in Walked(p) : Refuted(p, input[i].text)
            /\ p.key \in DOMAIN presence <=> \E i \in Walked(p) : Readings(p, input[i].text) # {}
      BY <1>1 DEF JudgedInv, RefutedSoFar, ReadSoFar
    <2>2. \A p \in Properties' :
            (Blamed(p)' <=> RefutedSoFar(p)') /\ (p.key \in DOMAIN presence' <=> ReadSoFar(p)')
      BY <2>1, <1>1, <1>2, <1>3, <1>5, SameTexts DEF Blamed
    <2>3. next' \in 1 .. (Len(input') + 1)
      BY <1>1
    <2> QED
      BY <1>1, <1>5, <2>2, <2>3 DEF JudgedInv, DecidesAsJson
  <1> QED
    BY <1>1, <1>4, <1>5

\* At the end of a form, what is required and was not read is missing: it had no
\* text, or one that was refuted already.
LEMMA EndJudges == ASSUME CaseInv, JudgedInv, EndOfParts PROVE JudgedInv'
  <1>1. /\ pc = "parts" /\ pc' = "decide" /\ UNCHANGED <<inputs, environ, next, presence>>
        /\ source = "form" /\ source' = source /\ input' = input
        /\ next = Len(input) + 1 /\ schema \in DOMAIN SchemaTable /\ input \in Seq(Range(input))
    BY DEF EndOfParts, JudgedInv, CaseInv, inputs
  <1> DEFINE missing == {q \in Properties : q.required /\ q.key \notin DOMAIN presence}
  <1>2. found' = found \cup UNION {Within(p.key, {Fault("required")}) : p \in missing}
    BY DEF EndOfParts
  <1>3. \A p \in Properties : Walked(p) = {i \in DOMAIN input : input[i].is = "field" /\ input[i].key = p.key}
    BY <1>1 DEF Walked
  <1>4. \A p \in Properties : Supplied(p.key) = {input[i].text : i \in Walked(p)}
    BY <1>1, <1>3 DEF Supplied
  <1>5. \A p \in Properties :
          /\ Blamed(p) <=> \E i \in Walked(p) : Refuted(p, input[i].text)
          /\ p.key \in DOMAIN presence <=> \E i \in Walked(p) : Readings(p, input[i].text) # {}
    BY <1>1 DEF JudgedInv, RefutedSoFar, ReadSoFar
  <1>6. \A p \in Properties : Blamed(p)' <=> Blamed(p) \/ p \in missing
    <2> TAKE p \in Properties
    <2>1. \A q \in missing : q.key = p.key <=> q = p
      BY <1>1, OwnKeys DEF Properties, Visible
    <2>2. Blamed(p)' <=> Blamed(p) \/ \E q \in missing : \E v \in Within(q.key, {Fault("required")}) : v.field = p.key
      BY <1>2 DEF Blamed
    <2>3. \A q : Within(q.key, {Fault("required")}) # {} /\ \A v \in Within(q.key, {Fault("required")}) : v.field = q.key
      BY WithinNames
    <2> HIDE DEF missing
    <2> QED
      BY <2>1, <2>2, <2>3
  <1>7. \A p \in Properties : Blamed(p)' <=> Deserves(p)
    <2> TAKE p \in Properties
    <2>1. \A text : Readings(p, text) = {} => Refuted(p, text)
      BY DEF Refuted, Readings
    <2>2. Deserves(p) <=> (\E i \in Walked(p) : Refuted(p, input[i].text)) \/ (p.required /\ Walked(p) = {})
      <3>1. Supplied(p.key) = {input[i].text : i \in Walked(p)}
        BY <1>4
      <3>2. (\E text \in Supplied(p.key) : Refuted(p, text)) <=> \E i \in Walked(p) : Refuted(p, input[i].text)
        BY <3>1
      <3>3. Supplied(p.key) = {} <=> Walked(p) = {}
        <4>1. \A i \in Walked(p) : input[i].text \in Supplied(p.key)
          BY <3>1
        <4>2. \A text \in Supplied(p.key) : \E i \in Walked(p) : text = input[i].text
          BY <3>1
        <4> QED
          BY <4>1, <4>2
      <3> QED
        BY <1>1, <3>2, <3>3 DEF Deserves
    <2>3. p \in missing <=> p.required /\ \A i \in Walked(p) : Readings(p, input[i].text) = {}
      BY <1>5
    <2> QED
      BY <2>1, <2>2, <2>3, <1>5, <1>6
  <1>8. \A p \in Properties' : Blamed(p)' <=> Deserves(p)'
    BY <1>1, <1>7, DesertStays
  <1> QED
    BY <1>1, <1>8 DEF JudgedInv, DecidesAsJson, Blamed, Deserves

LEMMA JudgedKept == ASSUME CaseInv, StartInv, JudgedInv, ParseNext PROVE JudgedInv'
  <1>1. CASE Resolve
    BY <1>1, ResolveJudges
  <1>2. CASE \E p \in pending : VisitPresent(p) \/ VisitAbsent(p)
    BY <1>2, PresentJudges, AbsentJudges
  <1>3. CASE Checked
    BY <1>3, CheckedJudges
  <1>4. CASE FieldPart \/ FilePart \/ EndOfParts
    BY <1>4, FieldJudges, FileJudges, EndJudges
  <1>5. CASE DecodeStruct
    BY <1>5 DEF DecodeStruct, JudgedInv, DecidesAsJson, inputs
  <1>6. CASE Call \/ LoadPath \/ LoadFails \/ Loaded \/ MalformedBody \/ DecodeValue \/ BrokenPart \/ Decide
               \/ (\E p \in pending : Populate(p) \/ PopulateFails(p)) \/ Populated \/ Sync
    <2>1. pc' \notin {"decode", "check", "parts", "decide"}
      BY <1>6 DEF Call, LoadPath, LoadFails, Loaded, MalformedBody, DecodeValue, WriteValue, BrokenPart, NextPart,
           Decide, Populate, PopulateFails, Populated, Sync, Reject
    <2> QED
      BY <2>1 DEF JudgedInv, DecidesAsJson
  <1> QED
    BY <1>1, <1>2, <1>3, <1>4, <1>5, <1>6 DEF ParseNext

-----------------------------------------------------------------------------
(* The files of a form. *)

\* What ends the walk over the parts, and the files before that.
Ends(i) == input[i].is = "broken" \/ (input[i].is = "file" /\ FileFails(input[i].name))
Sent == {i \in DOMAIN input : input[i].is = "file" /\ \A j \in 1 .. (i - 1) : ~ Ends(j)}

\* The names onFile was called with are those of some parts, in their order.
CalledFor(names, parts, S) ==
  \E part \in [DOMAIN names -> S] :
    /\ Range(part) = S
    /\ \A n \in DOMAIN names : names[n] = parts[part[n]].name
    /\ \A m, n \in DOMAIN names : m < n => part[m] < part[n]

TakesFiles == source = "form" /\ setup.stream /\ setup.onFile /\ matches
FilesUpTo(n) == {i \in 1 .. (n - 1) : input[i].is = "file"}

\* While the walk goes on, nothing before `next` has ended it.
FilesInv ==
  TakesFiles /\ pc \notin {"idle", "load"} =>
    /\ files \in Seq({input[i].name : i \in DOMAIN input})
    /\ IF pc \in {"resolve", "parts"}
         THEN /\ next \in 1 .. (Len(input) + 1)
              /\ \A j \in 1 .. (next - 1) : ~ Ends(j)
              /\ CalledFor(files, input, FilesUpTo(next))
         ELSE CalledFor(files, input, Sent)

LEMMA FilesOrdered == ASSUME FilesInv PROVE FilesInOrder
  <1>1. SUFFICES ASSUME pc \in Returned \cup {"decide"}, TakesFiles PROVE CalledFor(files, input, Sent)
    BY DEF FilesInOrder, TakesFiles, CalledFor, Sent, Ends
  <1> QED
    BY <1>1 DEF FilesInv, Returned

\* One more file, one more call.
LEMMA CalledNext ==
  ASSUME NEW parts, NEW names \in Seq({parts[j].name : j \in DOMAIN parts}), NEW S,
         NEW i \in DOMAIN parts, i \in Nat, \A j \in S : j \in Nat /\ j < i,
         CalledFor(names, parts, S)
  PROVE  CalledFor(Append(names, parts[i].name), parts, S \cup {i})
  <1> DEFINE known == {parts[j].name : j \in DOMAIN parts}
             more == Append(names, parts[i].name)
             last == Len(names) + 1
  <1>1. PICK part \in [DOMAIN names -> S] :
          /\ Range(part) = S
          /\ \A n \in DOMAIN names : names[n] = parts[part[n]].name
          /\ \A m, n \in DOMAIN names : m < n => part[m] < part[n]
    BY DEF CalledFor
  <1> DEFINE longer == [n \in 1 .. last |-> IF n = last THEN i ELSE part[n]]
  <1>2. /\ Len(names) \in Nat /\ DOMAIN names = 1 .. Len(names) /\ DOMAIN more = 1 .. last
        /\ more[last] = parts[i].name /\ \A n \in 1 .. Len(names) : more[n] = names[n]
    <2>1. names \in Seq(known) /\ parts[i].name \in known
      OBVIOUS
    <2> HIDE DEF known
    <2> QED
      BY <2>1
  <1> HIDE DEF more
  <1>3. longer \in [DOMAIN more -> S \cup {i}]
    BY <1>1, <1>2
  <1>4. Range(longer) = S \cup {i}
    <2>1. \A x \in Range(longer) : x \in S \cup {i}
      BY <1>2, <1>3 DEF Range
    <2>2. last \in DOMAIN longer /\ longer[last] = i
      BY <1>2
    <2>3. \A n \in DOMAIN names : n \in DOMAIN longer /\ longer[n] = part[n]
      BY <1>2
    <2>4. \A x \in S : \E n \in DOMAIN names : part[n] = x
      BY <1>1 DEF Range
    <2> QED
      BY <2>1, <2>2, <2>3, <2>4 DEF Range
  <1>5. \A n \in DOMAIN more : more[n] = parts[longer[n]].name
    BY <1>1, <1>2
  <1>6. \A m, n \in DOMAIN more : m < n => longer[m] < longer[n]
    <2> TAKE m, n \in DOMAIN more
    <2> SUFFICES ASSUME m < n PROVE longer[m] < longer[n]
      OBVIOUS
    <2>1. m \in DOMAIN names /\ part[m] \in S /\ longer[m] = part[m]
      BY <1>1, <1>2
    <2>2. CASE n = last
      BY <2>1, <2>2
    <2>3. CASE n # last
      BY <2>1, <2>3, <1>1, <1>2
    <2> QED
      BY <2>2, <2>3
  <1> HIDE DEF longer
  <1> QED
    BY <1>3, <1>4, <1>5, <1>6 DEF CalledFor, more

\* Nothing of this changes when the call goes on to other matters.
LEMMA FilesSettled ==
  ASSUME FilesInv, UNCHANGED <<inputs, files>>, pc \notin {"idle", "load", "resolve", "parts"},
         pc' \notin {"resolve", "parts"}
  PROVE  FilesInv'
  <1>1. UNCHANGED <<source, setup, matches, input, files>>
    BY DEF inputs
  <1>2. TakesFiles' = TakesFiles /\ Sent' = Sent
    BY <1>1 DEF TakesFiles, Sent, Ends
  <1> QED
    BY <1>1, <1>2 DEF FilesInv

LEMMA ResolveFiles == ASSUME CaseInv, StartInv, FilesInv, Resolve PROVE FilesInv'
  <1> SUFFICES ASSUME TakesFiles', pc' \notin {"idle", "load"} PROVE FilesInv'
    BY DEF FilesInv
  <1>1. /\ UNCHANGED <<source, setup, matches, input, files, next>> /\ pc = "resolve"
    BY DEF Resolve, inputs, result
  <1>2. TakesFiles
    BY <1>1 DEF TakesFiles
  <1>3. pc' = "parts"
    BY <1>2 DEF Resolve, TakesFiles, DecodedSources
  <1>4. (\A i : Ends(i)' = Ends(i)) /\ FilesUpTo(next)' = FilesUpTo(next)
    BY <1>1 DEF Ends, FilesUpTo
  <1> QED
    BY <1>1, <1>2, <1>3, <1>4 DEF FilesInv

\* No call is made before a part is met.
LEMMA StartFiles == ASSUME StartInv, Call \/ Loaded PROVE FilesInv'
  <1> SUFFICES ASSUME TakesFiles', pc' \notin {"idle", "load"} PROVE FilesInv'
    BY DEF FilesInv
  <1>1. CASE Loaded
    BY <1>1 DEF Loaded, StartInv, TakesFiles, inputs
  <1>2. CASE Call
    <2>1. files' = <<>> /\ next' = 1 /\ pc' = "resolve" /\ input' \in Seq(Range(input'))
      BY <1>2, CasesAssumption DEF Call, StartInv, result, TakesFiles, IsSequence
    <2>2. FilesUpTo(next)' = {}
      BY <2>1 DEF FilesUpTo
    <2>3. CalledFor(files', input', {})
      <3>1. DOMAIN files' = {}
        BY <2>1
      <3>2. [n \in {} |-> 0] \in [DOMAIN files' -> {}] /\ Range([n \in {} |-> 0]) = {}
        BY <3>1 DEF Range
      <3> QED
        BY <3>1, <3>2 DEF CalledFor
    <2>4. files' \in Seq({input'[i].name : i \in DOMAIN input'})
      BY <2>1
    <2>5. next' \in 1 .. (Len(input') + 1)
      BY <2>1
    <2>6. \A j \in 1 .. (next' - 1) : ~ Ends(j)'
      BY <2>1
    <2> QED
      BY <2>1, <2>2, <2>3, <2>4, <2>5, <2>6 DEF FilesInv
  <1> QED
    BY <1>1, <1>2

\* A step of the walk over the parts.
LEMMA PartFiles ==
  ASSUME CaseInv, JudgedInv, FilesInv, BrokenPart \/ FilePart \/ FieldPart \/ EndOfParts
  PROVE  FilesInv'
  <1> SUFFICES ASSUME TakesFiles' PROVE FilesInv'
    BY DEF FilesInv
  <1>1. UNCHANGED inputs /\ pc = "parts"
    BY DEF BrokenPart, FilePart, FieldPart, EndOfParts, NextPart
  <1>2. UNCHANGED <<source, setup, matches, input>>
    BY <1>1 DEF inputs
  <1>3. TakesFiles
    BY <1>2 DEF TakesFiles
  <1>4. /\ files \in Seq({input[i].name : i \in DOMAIN input})
        /\ next \in 1 .. (Len(input) + 1) /\ input \in Seq(Range(input))
        /\ \A j \in 1 .. (next - 1) : ~ Ends(j)
        /\ CalledFor(files, input, FilesUpTo(next))
    BY <1>1, <1>3 DEF FilesInv, CaseInv, TakesFiles
  <1>5. \A i : Ends(i)' = Ends(i)
    BY <1>2 DEF Ends
  <1>6. \A n : FilesUpTo(n)' = {i \in 1 .. (n' - 1) : input[i].is = "file"}
    BY <1>2 DEF FilesUpTo
  <1>7. Sent' = Sent
    BY <1>2 DEF Sent, Ends
  <1>8. DOMAIN input = 1 .. Len(input) /\ Len(input) \in Nat
    BY <1>4
  <1>9. CASE FieldPart
    <2>1. /\ files' = files /\ next' = next + 1 /\ pc' = "parts" /\ next <= Len(input)
          /\ input[next].is = "field"
      BY <1>9 DEF FieldPart, NextPart, Part, result
    <2>2. FilesUpTo(next)' = FilesUpTo(next)
      <3>1. 1 .. (next' - 1) = (1 .. (next - 1)) \cup {next}
        BY <2>1, <1>4
      <3> QED
        BY <2>1, <3>1, <1>2 DEF FilesUpTo
    <2>3. CalledFor(files', input', FilesUpTo(next)')
      BY <2>1, <2>2, <1>2, <1>4
    <2>4. \A j \in 1 .. (next' - 1) : ~ Ends(j)'
      <3>1. \A j \in 1 .. (next' - 1) : j \in 1 .. (next - 1) \/ j = next
        BY <2>1, <1>4
      <3>2. ~ Ends(next)
        BY <2>1 DEF Ends
      <3> QED
        BY <3>1, <3>2, <1>4, <1>5
    <2>5. next' \in 1 .. (Len(input') + 1)
      BY <2>1, <1>2, <1>4, <1>8
    <2> QED
      BY <2>1, <2>3, <2>4, <2>5, <1>2, <1>4 DEF FilesInv
  <1>10. CASE EndOfParts
    <2>1. files' = files /\ pc' = "decide" /\ next = Len(input) + 1
      BY <1>10, <1>4, <1>8 DEF EndOfParts, result
    <2>2. Sent = FilesUpTo(next)
      BY <2>1, <1>4, <1>8 DEF Sent, FilesUpTo
    <2>3. CalledFor(files', input', Sent')
      BY <2>1, <2>2, <1>2, <1>4, <1>7
    <2> QED
      BY <2>1, <2>3, <1>2, <1>4 DEF FilesInv
  <1>11. CASE BrokenPart
    <2>1. files' = files /\ pc' = "rejected" /\ next <= Len(input) /\ input[next].is = "broken"
      BY <1>11 DEF BrokenPart, NextPart, Part, Reject, result
    <2>2. Sent = FilesUpTo(next)
      <3>1. Ends(next)
        BY <2>1 DEF Ends
      <3>2. \A i \in Sent : i < next
        BY <2>1, <3>1, <1>4, <1>8 DEF Sent
      <3> QED
        BY <3>2, <2>1, <1>4, <1>8 DEF Sent, FilesUpTo
    <2>3. CalledFor(files', input', Sent')
      BY <2>1, <2>2, <1>2, <1>4, <1>7
    <2> QED
      BY <2>1, <2>3, <1>2, <1>4 DEF FilesInv
  <1>12. CASE FilePart
    <2>1. /\ files' = Append(files, input[next].name) /\ next' = next + 1 /\ next <= Len(input)
          /\ input[next].is = "file"
          /\ IF FileFails(input[next].name) THEN pc' = "rejected" ELSE pc' = "parts"
      BY <1>12, <1>3, <1>1 DEF FilePart, NextPart, Part, TakesFiles, Reject
    <2>2. CalledFor(files', input', FilesUpTo(next) \cup {next})
      <3>1. \A j \in FilesUpTo(next) : j \in Nat /\ j < next
        BY <1>4 DEF FilesUpTo
      <3>2. next \in Nat /\ next \in DOMAIN input
        BY <2>1, <1>4, <1>8
      <3> QED
        BY <3>1, <3>2, <2>1, <1>2, <1>4, CalledNext
    <2>3. FilesUpTo(next)' = FilesUpTo(next) \cup {next}
      <3>1. 1 .. (next' - 1) = (1 .. (next - 1)) \cup {next}
        BY <2>1, <1>4
      <3> QED
        BY <2>1, <3>1, <1>2 DEF FilesUpTo
    <2>4. files' \in Seq({input'[i].name : i \in DOMAIN input'})
      BY <2>1, <1>2, <1>4, <1>8
    <2>5. CASE ~ FileFails(input[next].name)
      <3>1. \A j \in 1 .. (next' - 1) : ~ Ends(j)'
        <4>1. \A j \in 1 .. (next' - 1) : j \in 1 .. (next - 1) \/ j = next
          BY <2>1, <1>4
        <4>2. ~ Ends(next)
          BY <2>1, <2>5 DEF Ends
        <4> QED
          BY <4>1, <4>2, <1>4, <1>5
      <3>2. next' \in 1 .. (Len(input') + 1)
        BY <2>1, <1>2, <1>4, <1>8
      <3> QED
        BY <2>1, <2>2, <2>3, <2>4, <2>5, <3>1, <3>2, <1>2 DEF FilesInv
    <2>6. CASE FileFails(input[next].name)
      <3>1. Ends(next)
        BY <2>1, <2>6 DEF Ends
      <3>2. \A i \in Sent : i <= next
        BY <2>1, <3>1, <1>4, <1>8 DEF Sent
      <3>3. Sent = FilesUpTo(next) \cup {next}
        BY <3>2, <2>1, <1>4, <1>8 DEF Sent, FilesUpTo
      <3> QED
        BY <2>1, <2>2, <2>4, <2>6, <3>3, <1>2, <1>7 DEF FilesInv
    <2> QED
      BY <2>5, <2>6
  <1> QED
    BY <1>9, <1>10, <1>11, <1>12

LEMMA FilesKept == ASSUME CaseInv, StartInv, JudgedInv, FilesInv, ParseNext PROVE FilesInv'
  <1>1. CASE Call \/ Loaded
    BY <1>1, StartFiles
  <1>2. CASE Resolve
    BY <1>2, ResolveFiles
  <1>3. CASE BrokenPart \/ FilePart \/ FieldPart \/ EndOfParts
    BY <1>3, PartFiles
  <1>4. CASE LoadPath \/ LoadFails
    <2>1. source' = "env"
      BY <1>4 DEF LoadPath, LoadFails, StartInv, inputs
    <2> QED
      BY <2>1 DEF FilesInv, TakesFiles
  <1>5. CASE \/ MalformedBody \/ DecodeStruct \/ DecodeValue \/ Checked \/ Decide \/ Populated \/ Sync
             \/ \E p \in pending : VisitPresent(p) \/ VisitAbsent(p) \/ Populate(p) \/ PopulateFails(p)
    <2>1. UNCHANGED <<inputs, files>>
      BY <1>5 DEF MalformedBody, DecodeStruct, DecodeValue, Checked, Decide, Populated, Sync, VisitPresent,
           VisitAbsent, Populate, PopulateFails, result
    <2>2. pc \notin {"idle", "load", "resolve", "parts"}
      BY <1>5 DEF MalformedBody, DecodeStruct, DecodeValue, Checked, Decide, Populated, Sync, VisitPresent,
           VisitAbsent, Populate, PopulateFails
    <2>3. pc' \notin {"resolve", "parts"}
      BY <1>5, <2>2 DEF MalformedBody, DecodeStruct, DecodeValue, WriteValue, Checked, Decide, Populated, Sync,
           VisitPresent, VisitAbsent, Populate, PopulateFails, Reject
    <2> QED
      BY <2>1, <2>2, <2>3, FilesSettled
  <1> QED
    BY <1>1, <1>2, <1>3, <1>4, <1>5 DEF ParseNext

-----------------------------------------------------------------------------
(* What a JSON body writes, and what of it a PATCH takes over. *)

Struct == Range(SchemaTable[schema].fields)

\* A field holds what the body has for it, once the walk has come to it.
WrittenSoFar ==
  /\ DOMAIN dst = AllKeys
  /\ \A q \in Struct :
       dst[q.key] \in IF q \in Properties /\ q.key \in DOMAIN presence /\ q \notin pending
                        THEN Written(presence[q.key], q) ELSE {Zero}

PatchInv ==
  source = "json" /\ ~ SchemaTable[schema].isValue =>
    /\ pc \in {"decode", "decide"} => dst = [k \in AllKeys |-> Zero]
    /\ pc \in {"decide", "populate", "accepted", "synced"} => presence = Keys(input)
    /\ pc \in {"populate", "accepted", "synced"} => WrittenSoFar /\ pending \subseteq Properties
    /\ pc = "populate" => \A p \in pending : p.key \in DOMAIN presence
    /\ pc \in {"accepted", "synced"} => pending = {}
    /\ pc # "synced" => entity = Entity
    /\ pc = "synced" => entity = SyncAccessorFields(Entity, Parsed, setup.pointer)

\* A key is the name of one field, and each field has a place.
LEMMA Places ==
  ASSUME schema \in DOMAIN SchemaTable, NEW q \in Struct
  PROVE  q.key \in AllKeys
  BY DEF Struct, AllKeys

LEMMA PopulateWrites ==
  ASSUME CaseInv, PatchInv, NEW p \in pending, Populate(p), source = "json", ~ SchemaTable[schema].isValue
  PROVE  WrittenSoFar'
  <1>1. /\ pc = "populate" /\ WrittenSoFar /\ p \in Properties /\ pending' = pending \ {p}
        /\ p.key \in DOMAIN presence
        /\ presence' = presence /\ schema' = schema /\ source' = source /\ schema \in DOMAIN SchemaTable
    BY DEF Populate, PatchInv, CaseInv, inputs
  <1>2. PICK v \in Written(presence[p.key], p) : dst' = [dst EXCEPT ![p.key] = v]
    BY DEF Populate
  <1>3. Struct' = Struct /\ Properties' = Properties
    BY <1>1 DEF Struct, Properties, Visible, Tag
  <1>4. p \in Struct
    BY <1>1 DEF Struct, Properties, Visible
  <1>5. \A q \in Struct : q.key \in DOMAIN dst /\ (q.key = p.key <=> q = p)
    BY <1>1, <1>4, Places, OwnKeys DEF WrittenSoFar, Struct
  <1>6. DOMAIN dst' = AllKeys
    BY <1>1, <1>2 DEF WrittenSoFar
  <1>7. ASSUME NEW q \in Struct
        PROVE  dst'[q.key] \in IF q \in Properties /\ q.key \in DOMAIN presence /\ q \notin pending'
                                 THEN Written(presence[q.key], q) ELSE {Zero}
    <2>1. CASE q = p
      <3>1. dst'[q.key] = v
        BY <2>1, <1>2, <1>5
      <3>2. q \in Properties /\ q.key \in DOMAIN presence /\ q \notin pending'
        BY <2>1, <1>1
      <3> QED
        BY <3>1, <3>2, <2>1, <1>2
    <2>2. CASE q # p
      <3>1. dst'[q.key] = dst[q.key]
        BY <2>2, <1>2, <1>5
      <3>2. q \in pending' <=> q \in pending
        BY <2>2, <1>1
      <3> QED
        BY <3>1, <3>2, <1>1 DEF WrittenSoFar
    <2> QED
      BY <2>1, <2>2
  <1>8. \A q \in Struct' :
          dst'[q.key] \in IF q \in Properties' /\ q.key \in DOMAIN presence' /\ q \notin pending'
                            THEN Written(presence'[q.key], q) ELSE {Zero}
    BY <1>1, <1>3, <1>7
  <1> QED
    BY <1>6, <1>8 DEF WrittenSoFar

LEMMA PatchKept == ASSUME CaseInv, StartInv, JudgedInv, PatchInv, ParseNext PROVE PatchInv'
  <1> SUFFICES ASSUME source' = "json", ~ SchemaTable[schema'].isValue PROVE PatchInv'
    BY DEF PatchInv
  <1>1. CASE Call \/ Loaded \/ LoadPath \/ LoadFails
    <2>1. pc' = "resolve" /\ entity' = Entity
      BY <1>1 DEF Call, Loaded, LoadPath, LoadFails, StartInv, inputs, result
    <2> QED
      BY <2>1 DEF PatchInv
  <1>2. CASE ~ (Call \/ Loaded \/ LoadPath \/ LoadFails)
    <2>1. UNCHANGED <<inputs, environ>> /\ pc # "idle"
      BY <1>2 DEF ParseNext, Resolve, MalformedBody, DecodeStruct, DecodeValue,
           VisitPresent, VisitAbsent, Checked, NextPart, BrokenPart, FilePart, FieldPart, EndOfParts, Decide,
           Populate, PopulateFails, Populated, Sync
    <2>2. /\ source = "json" /\ ~ SchemaTable[schema].isValue /\ schema' = schema /\ input' = input /\ source' = source
          /\ setup' = setup /\ schema \in DOMAIN SchemaTable
      BY <2>1 DEF inputs, CaseInv
    <2>3. Struct' = Struct /\ Properties' = Properties
      BY <2>1, <2>2, DesertStays DEF Struct
    <2>4. CASE Resolve
      BY <2>4, <2>2 DEF Resolve, StartInv, PatchInv, DecodedSources, result
    <2>5. CASE MalformedBody
      BY <2>5, <2>2 DEF MalformedBody, Reject, PatchInv, result
    <2>6. CASE DecodeStruct
      <3>1. pc' = "decide" /\ pc = "decode" /\ presence' = Keys(input) /\ UNCHANGED result
        BY <2>6, <2>2 DEF DecodeStruct, Decoded
      <3>2. Keys(input)' = Keys(input)
        BY <2>2
      <3> QED
        BY <3>1, <3>2, <2>2 DEF PatchInv, result
    <2>7. CASE DecodeValue
      BY <2>7, <2>2 DEF DecodeValue
    <2>8. CASE \E p \in pending : VisitPresent(p) \/ VisitAbsent(p)
      BY <2>8, <2>2 DEF VisitPresent, VisitAbsent, JudgedInv, TextSources
    <2>9. CASE Checked \/ BrokenPart \/ FilePart \/ FieldPart \/ EndOfParts
      BY <2>9, <2>2 DEF Checked, BrokenPart, FilePart, FieldPart, EndOfParts, NextPart, JudgedInv, TextSources
    <2>10. CASE Decide
      <3>1. pc = "decide" /\ dst = [k \in AllKeys |-> Zero] /\ presence = Keys(input) /\ entity = Entity
            /\ UNCHANGED <<presence, dst, entity>>
        BY <2>10, <2>2 DEF Decide, PatchInv, result
      <3>2. CASE found # {}
        BY <3>1, <3>2, <2>10 DEF Decide, Reject, PatchInv
      <3>3. CASE found = {}
        <4>1. pc' = "populate" /\ pending' = {p \in Properties : p.key \in DOMAIN presence}
          BY <3>3, <2>10 DEF Decide
        <4>2. WrittenSoFar'
          <5>1. \A q \in Struct : dst[q.key] = Zero
            BY <3>1, <2>2, Places
          <5>2. \A q \in Struct : ~ (q \in Properties /\ q.key \in DOMAIN presence /\ q \notin pending')
            BY <4>1
          <5> QED
            BY <5>1, <5>2, <3>1, <2>3 DEF WrittenSoFar
        <4>3. pending' \subseteq Properties' /\ \A p \in pending' : p.key \in DOMAIN presence'
          BY <4>1, <3>1, <2>3
        <4>4. presence' = Keys(input')
          BY <3>1, <2>2
        <4> QED
          BY <4>1, <4>2, <4>3, <4>4, <3>1 DEF PatchInv
      <3> QED
        BY <3>2, <3>3
    <2>11. ASSUME NEW p \in pending, Populate(p) PROVE PatchInv'
      <3>1. WrittenSoFar'
        BY <2>11, <2>2, PopulateWrites
      <3>2. pc = "populate" /\ pc' = "populate" /\ pending' = pending \ {p} /\ UNCHANGED <<presence, entity>>
        BY <2>11 DEF Populate
      <3>3. pending' \subseteq Properties' /\ (\A q \in pending' : q.key \in DOMAIN presence') /\ presence' = Keys(input')
        BY <3>2, <2>2, <2>3 DEF PatchInv
      <3> QED
        BY <3>1, <3>2, <3>3, <2>2 DEF PatchInv
    <2>12. ASSUME NEW p \in pending, PopulateFails(p) PROVE PatchInv'
      BY <2>12, <2>2 DEF PopulateFails, Reject, PatchInv, result
    <2>13. CASE Populated
      <3>1. /\ pc = "populate" /\ pc' \in {"accepted", "rejected"} /\ pending = {} /\ pending' = {}
            /\ UNCHANGED <<presence, dst, entity>>
        BY <2>13 DEF Populated, Reject, result
      <3>2. WrittenSoFar'
        BY <3>1, <2>2, <2>3 DEF PatchInv, WrittenSoFar
      <3> QED
        BY <3>1, <3>2, <2>2 DEF PatchInv
    <2>14. CASE Sync
      <3>1. /\ pc = "accepted" /\ pc' = "synced" /\ UNCHANGED <<presence, dst, pending>>
            /\ entity' = SyncAccessorFields(entity, Parsed, setup.pointer)
        BY <2>14 DEF Sync
      <3>2. WrittenSoFar'
        BY <3>1, <2>2, <2>3 DEF PatchInv, WrittenSoFar
      <3>3. Parsed' = Parsed
        BY <3>1, <2>2 DEF Parsed
      <3> QED
        BY <3>1, <3>2, <3>3, <2>2 DEF PatchInv
    <2> QED
      BY <1>2, <2>4, <2>5, <2>6, <2>7, <2>8, <2>9, <2>10, <2>11, <2>12, <2>13, <2>14 DEF ParseNext
  <1> QED
    BY <1>1, <1>2

\* What is collected under a name is the value of a dirty field that goes by it.
LEMMA CollectedFrom ==
  ASSUME NEW n \in Nat, NEW src, DOMAIN src = 1 .. n, NEW addressable
  PROVE  LET values == collectDirtyAccessors(src, addressable)
         IN  /\ \A j \in DOMAIN src : IsDirty(src[j], addressable) => NamesOf(src[j]) \subseteq DOMAIN values
             /\ \A k \in DOMAIN values : \E j \in DOMAIN src :
                  IsDirty(src[j], addressable) /\ k \in NamesOf(src[j]) /\ values[k] = src[j].value
  <1> DEFINE dirty == {i \in DOMAIN src : IsDirty(src[i], addressable)}
             names == UNION {NamesOf(src[i]) : i \in dirty}
  <1>1. collectDirtyAccessors(src, addressable) = [k \in names |-> src[LastNamed(k, src, dirty)].value]
    BY DEF collectDirtyAccessors
  <1>2. ASSUME NEW k \in names
        PROVE  LastNamed(k, src, dirty) \in dirty /\ k \in NamesOf(src[LastNamed(k, src, dirty)])
    <2> DEFINE those == {i \in dirty : k \in NamesOf(src[i])}
    <2>1. those \in SUBSET (1 .. n) /\ those # {}
      OBVIOUS
    <2>2. \E i \in those : \A j \in those : j <= i
      <3> HIDE DEF those
      <3> QED
        BY <2>1, LastOf
    <2>3. \E i \in dirty : k \in NamesOf(src[i]) /\ \A j \in dirty : j > i => k \notin NamesOf(src[j])
      <3>1. PICK i \in those : \A j \in those : j <= i
        BY <2>2
      <3>2. \A j \in dirty : j > i => j \notin those
        BY <2>1, <3>1
      <3> QED
        BY <3>1, <3>2
    <2> HIDE DEF dirty
    <2> QED
      BY <2>3 DEF LastNamed
  <1> QED
    BY <1>1, <1>2

\* A field takes the value that one of its names has, or stays what it is.
LEMMA AppliedTo ==
  ASSUME NEW into, NEW values, NEW i \in DOMAIN into, NEW f, f = into[i], {"dirty", "value"} \subseteq DOMAIN f,
         NEW after, after = applyToDst(into, values)[i]
  PROVE  /\ NamesOf(f) \cap DOMAIN values = {} => after = f
         /\ NamesOf(f) \cap DOMAIN values # {} => \E k \in NamesOf(f) \cap DOMAIN values : after.value = values[k]
         /\ NamesOf(f) \cap DOMAIN values # {} /\ f.holds = "accessor" => after.dirty
  <1>1. after = IF f.name \in DOMAIN values THEN setTargetValue(f, values[f.name])
                ELSE IF HasTag(f) /\ f.tag \in DOMAIN values THEN setTargetValue(f, values[f.tag])
                ELSE f
    BY DEF applyToDst
  <1>2. \A v : setTargetValue(f, v).value = v /\ (f.holds = "accessor" => setTargetValue(f, v).dirty)
    BY DEF setTargetValue, Set
  <1>3. \A k : k \in NamesOf(f) <=> k = f.name \/ (HasTag(f) /\ k = f.tag)
    BY DEF NamesOf
  <1>4. CASE f.name \in DOMAIN values
    BY <1>4, <1>1, <1>2, <1>3
  <1>5. CASE f.name \notin DOMAIN values /\ HasTag(f) /\ f.tag \in DOMAIN values
    BY <1>5, <1>1, <1>2, <1>3
  <1>6. CASE f.name \notin DOMAIN values /\ ~ (HasTag(f) /\ f.tag \in DOMAIN values)
    BY <1>6, <1>1, <1>3
  <1> QED
    BY <1>4, <1>5, <1>6

\* The parsed struct has exactly the accessors dirty that the body sent.
SentIn(p) ==
  /\ p.type = "accessor" /\ p \in Properties /\ p.key \in DOMAIN Keys(input)
  /\ Prepared(input.at[p.key], p).is # "null"

LEMMA DirtyIfSent ==
  ASSUME CaseInv, PatchInv, pc = "synced", source = "json", ~ SchemaTable[schema].isValue,
         NEW j \in DOMAIN SchemaTable[schema].fields, NEW p, p = SchemaTable[schema].fields[j]
  PROVE  /\ Parsed[j].holds = "accessor" /\ Parsed[j].dirty <=> SentIn(p)
         /\ SentIn(p) => Parsed[j].value = Prepared(input.at[p.key], p)
         /\ NamesOf(Parsed[j]) = NamesOf([name |-> p.name, tag |-> p.key])
  <1> DEFINE v == dst[p.key]
  <1>1. /\ Parsed[j].name = p.name /\ Parsed[j].tag = p.key
        /\ Parsed[j].holds = "accessor" <=> p.type = "accessor"
        /\ Parsed[j].dirty <=> v.is = "accessor" /\ v.dirty
        /\ v.is = "accessor" => Parsed[j].value = v.value
    BY DEF Parsed
  <1>2. NamesOf(Parsed[j]) = NamesOf([name |-> p.name, tag |-> p.key])
    BY <1>1 DEF NamesOf, HasTag
  <1>3. v \in IF p \in Properties /\ p.key \in DOMAIN Keys(input) THEN Written(Keys(input)[p.key], p) ELSE {Zero}
    <2>1. p \in Struct
      BY DEF Struct, Range
    <2> QED
      BY <2>1 DEF PatchInv, WrittenSoFar
  <1>4. p.key \in DOMAIN Keys(input) => Keys(input) = input.at
    BY DEF Keys
  <1>5. Zero.is # "accessor"
    BY DEF Zero
  <1> HIDE DEF v
  <1>6. CASE p.type # "accessor" \/ ~ (p \in Properties /\ p.key \in DOMAIN Keys(input))
    <2>1. CASE p.type # "accessor"
      BY <2>1, <1>1, <1>2 DEF SentIn
    <2>2. CASE ~ (p \in Properties /\ p.key \in DOMAIN Keys(input))
      <3>1. v = Zero
        BY <2>2, <1>3
      <3> QED
        BY <3>1, <2>2, <1>1, <1>2, <1>5 DEF SentIn
    <2> QED
      BY <1>6, <2>1, <2>2
  <1>7. CASE p.type = "accessor" /\ p \in Properties /\ p.key \in DOMAIN Keys(input)
    <2> DEFINE given == Prepared(input.at[p.key], p)
    <2>1. v \in setField(given, p)
      BY <1>7, <1>3, <1>4 DEF Written
    <2> HIDE DEF given
    <2>2. CASE given.is = "null"
      <3>1. v = Zero
        BY <2>1, <2>2 DEF setField
      <3> QED
        BY <3>1, <2>2, <1>1, <1>2, <1>5 DEF SentIn, given
    <2>3. CASE given.is # "null"
      <3>1. v = UnmarshalJSON(given)
        BY <2>1, <2>3, <1>7 DEF setField
      <3>2. v.is = "accessor" /\ v.dirty /\ v.value = given
        BY <3>1, <2>3 DEF UnmarshalJSON
      <3> QED
        BY <3>2, <2>3, <1>1, <1>2, <1>7 DEF SentIn, given
    <2> QED
      BY <2>2, <2>3
  <1> QED
    BY <1>6, <1>7

LEMMA PatchExact == ASSUME CaseInv, PatchInv PROVE PatchTouchesOnlySent
  <1> DEFINE sentTo(i) == {p \in Properties : /\ p.type = "accessor" /\ p.key \in DOMAIN Keys(input)
                                              /\ NamesOf([name |-> p.name, tag |-> p.key]) \cap NamesOf(Entity[i]) # {}
                                              /\ Prepared(input.at[p.key], p).is # "null"}
  <1> SUFFICES ASSUME pc = "synced", NEW i \in DOMAIN Entity
               PROVE  IF sentTo(i) = {} \/ ~ setup.pointer
                        THEN entity[i] = Entity[i]
                        ELSE /\ entity[i].value \in {Prepared(input.at[p.key], p) : p \in sentTo(i)}
                             /\ Entity[i].holds = "accessor" => entity[i].dirty
    BY DEF PatchTouchesOnlySent
  <1> DEFINE fields == SchemaTable[schema].fields
             values == collectDirtyAccessors(Parsed, setup.pointer)
  <1>1. /\ schema \in DOMAIN SchemaTable /\ source = "json" /\ ~ SchemaTable[schema].isValue
        /\ entity = applyToDst(Entity, values)
    BY DEF CaseInv, PatchInv, SyncAccessorFields
  <1>2. Len(fields) \in Nat /\ DOMAIN Parsed = 1 .. Len(fields) /\ DOMAIN fields = 1 .. Len(fields)
    <2>1. fields \in Seq(Range(fields))
      BY <1>1, KeysAssumption DEF IsSequence
    <2>2. DOMAIN Parsed = DOMAIN fields
      BY DEF Parsed
    <2> HIDE DEF fields
    <2> QED
      BY <2>1, <2>2
  <1>3. \A j \in DOMAIN fields :
          /\ IsDirty(Parsed[j], setup.pointer) <=> SentIn(fields[j]) /\ setup.pointer
          /\ SentIn(fields[j]) => Parsed[j].value = Prepared(input.at[fields[j].key], fields[j])
          /\ NamesOf(Parsed[j]) = NamesOf([name |-> fields[j].name, tag |-> fields[j].key])
    BY <1>1, DirtyIfSent DEF IsDirty
  <1>4. /\ \A j \in DOMAIN Parsed : IsDirty(Parsed[j], setup.pointer) => NamesOf(Parsed[j]) \subseteq DOMAIN values
        /\ \A k \in DOMAIN values : \E j \in DOMAIN Parsed :
              IsDirty(Parsed[j], setup.pointer) /\ k \in NamesOf(Parsed[j]) /\ values[k] = Parsed[j].value
    BY <1>2, CollectedFrom
  <1>5. \A p : p \in sentTo(i) <=>
               SentIn(p) /\ NamesOf([name |-> p.name, tag |-> p.key]) \cap NamesOf(Entity[i]) # {}
    BY DEF SentIn
  <1>6. \A p \in Properties : \E j \in DOMAIN fields : p = fields[j]
    BY DEF Properties, Visible, Range
  <1> HIDE DEF values, fields, sentTo
  <1>7. /\ NamesOf(Entity[i]) \cap DOMAIN values = {} => entity[i] = Entity[i]
        /\ NamesOf(Entity[i]) \cap DOMAIN values # {} =>
              \E k \in NamesOf(Entity[i]) \cap DOMAIN values : entity[i].value = values[k]
        /\ NamesOf(Entity[i]) \cap DOMAIN values # {} /\ Entity[i].holds = "accessor" => entity[i].dirty
    <2>1. {"dirty", "value"} \subseteq DOMAIN Entity[i]
      BY CasesAssumption
    <2> QED
      BY <1>1, <2>1, AppliedTo
  <1>8. ASSUME NEW k \in NamesOf(Entity[i]) \cap DOMAIN values
        PROVE  setup.pointer /\ values[k] \in {Prepared(input.at[p.key], p) : p \in sentTo(i)}
    <2>1. PICK j \in DOMAIN fields :
            IsDirty(Parsed[j], setup.pointer) /\ k \in NamesOf(Parsed[j]) /\ values[k] = Parsed[j].value
      BY <1>2, <1>4
    <2>2. setup.pointer /\ SentIn(fields[j]) /\ values[k] = Prepared(input.at[fields[j].key], fields[j])
      BY <2>1, <1>3
    <2>3. fields[j] \in sentTo(i)
      BY <2>1, <2>2, <1>3, <1>5
    <2> QED
      BY <2>2, <2>3
  <1>9. ASSUME NEW p \in sentTo(i), setup.pointer
        PROVE  NamesOf(Entity[i]) \cap DOMAIN values # {}
    <2>1. SentIn(p)
      BY <1>5
    <2>2. PICK j \in DOMAIN fields : p = fields[j]
      BY <2>1, <1>6 DEF SentIn
    <2>3. NamesOf(Parsed[j]) \subseteq DOMAIN values
      BY <1>2, <1>3, <1>4, <1>9, <2>1, <2>2
    <2> QED
      BY <2>2, <2>3, <1>3, <1>5
  <1>10. CASE sentTo(i) = {} \/ ~ setup.pointer
    <2>1. NamesOf(Entity[i]) \cap DOMAIN values = {}
      BY <1>8, <1>10
    <2> QED
      BY <2>1, <1>7, <1>10
  <1>11. CASE sentTo(i) # {} /\ setup.pointer
    <2>1. NamesOf(Entity[i]) \cap DOMAIN values # {}
      BY <1>9, <1>11
    <2> QED
      BY <2>1, <1>7, <1>8, <1>11
  <1> QED
    BY <1>10, <1>11

-----------------------------------------------------------------------------
(* What a .env file defines, whatever the environment it is read in. *)

\* A text without variables stays the same text.
LEMMA NothingToResolve ==
  ASSUME NEW text, ~ HasVars(text), NEW r1, NEW e1, NEW r2, NEW e2
  PROVE  resolveInterpolation(text, r1, e1) = resolveInterpolation(text, r2, e2)
  <1>1. \A i \in DOMAIN text : "var" \notin DOMAIN text[i]
    BY DEF HasVars
  <1> DEFINE plain == [i \in DOMAIN text |-> <<text[i]>>]
  <1>2. resolveInterpolation(text, r1, e1) = FlattenSeq(plain)
    <2>1. [i \in DOMAIN text |-> IF "var" \in DOMAIN text[i] THEN resolveBraceExpr(text[i], r1, e1) ELSE <<text[i]>>] = plain
      BY <1>1
    <2> QED
      BY <2>1 DEF resolveInterpolation
  <1>3. resolveInterpolation(text, r2, e2) = FlattenSeq(plain)
    <2>1. [i \in DOMAIN text |-> IF "var" \in DOMAIN text[i] THEN resolveBraceExpr(text[i], r2, e2) ELSE <<text[i]>>] = plain
      BY <1>1
    <2> QED
      BY <2>1 DEF resolveInterpolation
  <1> QED
    BY <1>2, <1>3

\* Stripping a comment and joining texts add none.
LEMMA StripsToPart ==
  ASSUME NEW text, IsSequence(text), ~ HasVars(text)
  PROVE  stripBareComment(text) \in Seq({x \in Range(text) : "var" \notin DOMAIN x})
  <1> DEFINE Plain == {x \in Range(text) : "var" \notin DOMAIN x}
             comments == {i \in DOMAIN text : "hash" \in DOMAIN text[i]}
  <1>1. Len(text) \in Nat /\ DOMAIN text = 1 .. Len(text) /\ \A i \in 1 .. Len(text) : text[i] \in Range(text)
    BY LenProperties, ElementOfSeq DEF IsSequence
  <1>2. \A i \in 1 .. Len(text) : text[i] \in Plain
    BY <1>1 DEF HasVars
  <1>3. CASE comments = {}
    <2>1. text \in [1 .. Len(text) -> Plain]
      BY <1>1, <1>2, LenProperties DEF IsSequence
    <2>2. text \in Seq(Plain)
      <3> HIDE DEF Plain
      <3> QED
        BY <1>1, <2>1, SeqDef
    <2> QED
      BY <1>3, <2>2 DEF stripBareComment
  <1>4. CASE comments # {}
    <2>1. \E i \in comments : \A j \in comments : i <= j
      <3>1. comments \in SUBSET (1 .. Len(text))
        BY <1>1
      <3> HIDE DEF comments
      <3> QED
        BY <1>1, <1>4, <3>1, FirstOf
    <2> DEFINE c == CHOOSE i \in comments : \A j \in comments : i <= j
    <2>2. c \in 1 .. Len(text)
      <3>1. c \in comments
        <4> HIDE DEF comments
        <4> QED
          BY <2>1
      <3> QED
        BY <1>1, <3>1
    <2>3. stripBareComment(text) = SubSeq(text, 1, c - 1)
      BY <1>4 DEF stripBareComment
    <2> HIDE DEF c, Plain, comments
    <2>4. \A i \in 1 .. (c - 1) : text[i] \in Plain
      BY <1>1, <1>2, <2>2
    <2>5. SubSeq(text, 1, c - 1) \in Seq(Plain)
      BY <2>2, <2>4, SubSeqProperties
    <2> QED
      BY <2>3, <2>5 DEF Plain
  <1> QED
    BY <1>3, <1>4

\* A line whose texts have no variables says the same everywhere.
LEMMA SameValue ==
  ASSUME NEW line, IsSequence(line.value), IsSequence(line.rest), ~ HasVars(line.value), ~ HasVars(line.rest),
         NEW r1, NEW e1, NEW r2, NEW e2
  PROVE  parseValue(line, r1, e1) = parseValue(line, r2, e2)
  <1> DEFINE Plain == {x \in Range(line.value) \cup Range(line.rest) : "var" \notin DOMAIN x}
             content == line.value \o stripBareComment(line.rest)
             bare == stripBareComment(line.value)
  <1>1. \A s : s \in Seq(Plain) => ~ HasVars(s)
    <2>1. \A s : s \in Seq(Plain) => \A i \in DOMAIN s : s[i] \in Plain
      <3> HIDE DEF Plain
      <3> QED
        BY LenProperties, ElementOfSeq
    <2> QED
      BY <2>1 DEF HasVars
  <1>2. \A s : HasVars(applyEscapes(s)) => HasVars(s)
    <2>1. \A s : DOMAIN applyEscapes(s) = DOMAIN s /\ \A i \in DOMAIN s :
            applyEscapes(s)[i] = IF "esc" \in DOMAIN s[i] THEN [char |-> s[i].esc] ELSE s[i]
      BY DEF applyEscapes
    <2>2. \A s : \A i \in DOMAIN s : "var" \notin DOMAIN [char |-> s[i].esc]
      OBVIOUS
    <2> QED
      BY <2>1, <2>2 DEF HasVars
  <1>3. stripBareComment(line.rest) \in Seq(Plain) /\ bare \in Seq(Plain) /\ line.value \in Seq(Plain)
    <2>1. /\ stripBareComment(line.rest) \in Seq({x \in Range(line.rest) : "var" \notin DOMAIN x})
          /\ bare \in Seq({x \in Range(line.value) : "var" \notin DOMAIN x})
      BY StripsToPart
    <2>2. \A i \in DOMAIN line.value : line.value[i] \in Plain
      BY DEF HasVars, Range
    <2>3. line.value \in [1 .. Len(line.value) -> Plain] /\ Len(line.value) \in Nat
      BY <2>2, LenProperties DEF IsSequence
    <2>4. line.value \in Seq(Plain)
      <3> HIDE DEF Plain
      <3> QED
        BY <2>3, SeqDef
    <2>5. /\ {x \in Range(line.rest) : "var" \notin DOMAIN x} \subseteq Plain
          /\ {x \in Range(line.value) : "var" \notin DOMAIN x} \subseteq Plain
      OBVIOUS
    <2> HIDE DEF Plain
    <2> QED
      BY <2>1, <2>4, <2>5, SeqMonotonic
  <1>4. content \in Seq(Plain)
    <2> HIDE DEF Plain
    <2> QED
      BY <1>3, ConcatProperties
  <1>5. ~ HasVars(applyEscapes(content)) /\ ~ HasVars(bare)
    <2> HIDE DEF Plain, content, bare
    <2> QED
      BY <1>1, <1>2, <1>3, <1>4
  <1>6. \A r, e : parseValue(line, r, e) =
          CASE line.quote = "backtick" -> line.value
            [] line.quote = "single"   -> content
            [] line.quote = "double"   -> resolveInterpolation(applyEscapes(content), r, e)
            [] OTHER -> resolveInterpolation(bare, r, e)
    BY DEF parseValue
  <1> HIDE DEF content, bare
  <1>7. /\ resolveInterpolation(applyEscapes(content), r1, e1) = resolveInterpolation(applyEscapes(content), r2, e2)
        /\ resolveInterpolation(bare, r1, e1) = resolveInterpolation(bare, r2, e2)
    BY <1>5, NothingToResolve
  <1> QED
    BY <1>6, <1>7

\* The walk over the lines: what is known after each of them.
Unread == [line |-> 1, pairs |-> <<>>, resolved |-> <<>>, fails |-> FALSE]
AfterLine(lines, n, state, env) == IF state.fails THEN state ELSE ParseLine(lines, n, state, env)
IsReading(f, n, lines, env) == f = [m \in 0 .. n |-> IF m = 0 THEN Unread ELSE AfterLine(lines, m, f[m - 1], env)]

LEMMA ReadingExists ==
  ASSUME NEW lines, NEW env, NEW most \in Nat
  PROVE  \E f : IsReading(f, most, lines, env)
  <1> DEFINE Read == {k \in Nat : \E f : IsReading(f, k, lines, env)}
  <1>1. 0 \in Read
    <2> DEFINE f == [m \in 0 .. 0 |-> Unread]
    <2>1. IsReading(f, 0, lines, env)
      BY DEF IsReading
    <2> QED
      BY <2>1
  <1>2. ASSUME NEW k \in Nat, k \in Read PROVE k + 1 \in Read
    <2>1. PICK f : IsReading(f, k, lines, env)
      BY <1>2
    <2> DEFINE g == [m \in 0 .. (k + 1) |-> IF m = k + 1 THEN AfterLine(lines, k + 1, f[k], env) ELSE f[m]]
    <2>2. \A m \in 0 .. k : f[m] = IF m = 0 THEN Unread ELSE AfterLine(lines, m, f[m - 1], env)
      BY <2>1 DEF IsReading
    <2>3. ASSUME NEW m \in 0 .. (k + 1)
          PROVE  g[m] = IF m = 0 THEN Unread ELSE AfterLine(lines, m, g[m - 1], env)
      <3>1. CASE m = k + 1
        <4>1. m # 0 /\ m - 1 = k /\ g[m] = AfterLine(lines, m, f[k], env) /\ g[k] = f[k]
          BY <3>1
        <4> QED
          BY <4>1
      <3>2. CASE m # k + 1
        <4>1. m \in 0 .. k /\ g[m] = f[m] /\ (m # 0 => m - 1 \in 0 .. k /\ g[m - 1] = f[m - 1])
          BY <3>2
        <4> QED
          BY <2>2, <4>1
      <3> QED
        BY <3>1, <3>2
    <2>4. DOMAIN g = 0 .. (k + 1) /\ g = [m \in 0 .. (k + 1) |-> g[m]]
      OBVIOUS
    <2> HIDE DEF g
    <2>5. g = [m \in 0 .. (k + 1) |-> IF m = 0 THEN Unread ELSE AfterLine(lines, m, g[m - 1], env)]
      BY <2>3, <2>4
    <2>6. IsReading(g, k + 1, lines, env)
      BY <2>5 DEF IsReading
    <2> QED
      BY <2>6
  <1> HIDE DEF Read
  <1>3. most \in Read
    BY <1>1, <1>2, NatSetInduction
  <1> QED
    BY <1>3 DEF Read

LEMMA ReadsOn ==
  ASSUME NEW lines, Len(lines) \in Nat, NEW env
  PROVE  LET f == ParsedLines(lines, env)
         IN  f[0] = Unread /\ \A n \in 1 .. Len(lines) : f[n] = AfterLine(lines, n, f[n - 1], env)
  <1> DEFINE f == CHOOSE g : IsReading(g, Len(lines), lines, env)
  <1>1. ParsedLines(lines, env) = f
    BY DEF ParsedLines, IsReading, Unread, AfterLine
  <1>2. IsReading(f, Len(lines), lines, env)
    BY ReadingExists
  <1> HIDE DEF f
  <1>3. \A n \in 0 .. Len(lines) : f[n] = IF n = 0 THEN Unread ELSE AfterLine(lines, n, f[n - 1], env)
    BY <1>2 DEF IsReading
  <1>4. f[0] = Unread /\ \A n \in 1 .. Len(lines) : f[n] = AfterLine(lines, n, f[n - 1], env)
    BY <1>3
  <1> QED
    BY <1>1, <1>4

\* A key no line of a file uses variables for.
PlainIn(lines, k) == \A line \in Range(lines) : line.is = "pair" /\ line.key = k => ~ HasVars(line.value) /\ ~ HasVars(line.rest)

\* Two lists of pairs that differ in the values of other keys at most.
Alike(p1, p2, lines) ==
  /\ IsSequence(p1) /\ IsSequence(p2) /\ Len(p1) = Len(p2)
  /\ \A n \in 1 .. Len(p1) : p1[n].key = p2[n].key /\ (PlainIn(lines, p1[n].key) => p1[n].value = p2[n].value)

SameState(s1, s2, lines) ==
  /\ DOMAIN s1 = {"line", "pairs", "resolved", "fails"} /\ DOMAIN s2 = {"line", "pairs", "resolved", "fails"}
  /\ s1.line = s2.line /\ s1.fails = s2.fails
  /\ Alike(s1.pairs, s2.pairs, lines)

\* A pair more, of the same key.
LEMMA AlikeMore ==
  ASSUME NEW lines, NEW p1, NEW p2, Alike(p1, p2, lines), NEW k, NEW v1, NEW v2, PlainIn(lines, k) => v1 = v2
  PROVE  Alike(Append(p1, [key |-> k, value |-> v1]), Append(p2, [key |-> k, value |-> v2]), lines)
  <1> DEFINE q1 == [key |-> k, value |-> v1]
             q2 == [key |-> k, value |-> v2]
             a1 == Append(p1, q1)
             a2 == Append(p2, q2)
             S == Range(p1) \cup Range(p2) \cup {q1, q2}
             n == Len(p1)
  <1>1. p1 \in Seq(S) /\ p2 \in Seq(S) /\ q1 \in S /\ q2 \in S
    <2>1. Range(p1) \subseteq S /\ Range(p2) \subseteq S /\ q1 \in S /\ q2 \in S
      OBVIOUS
    <2>2. p1 \in Seq(Range(p1)) /\ p2 \in Seq(Range(p2))
      BY DEF Alike, IsSequence
    <2> HIDE DEF S
    <2> QED
      BY <2>1, <2>2, SeqMonotonic
  <1> HIDE DEF S
  <1>2. n \in Nat /\ Len(p2) = n
    BY <1>1, LenProperties DEF Alike
  <1>3. /\ a1 \in Seq(S) /\ Len(a1) = n + 1 /\ a1[n + 1] = q1 /\ \A i \in 1 .. n : a1[i] = p1[i]
        /\ a2 \in Seq(S) /\ Len(a2) = n + 1 /\ a2[n + 1] = q2 /\ \A i \in 1 .. n : a2[i] = p2[i]
    <2> HIDE DEF q1, q2
    <2> QED
      BY <1>1, <1>2, AppendProperties
  <1>4. \A a : a \in Seq(S) => IsSequence(a)
    <2> SUFFICES ASSUME NEW a \in Seq(S) PROVE a \in Seq(Range(a))
      BY DEF IsSequence
    <2>1. Len(a) \in Nat /\ DOMAIN a = 1 .. Len(a) /\ a \in [1 .. Len(a) -> S]
      BY LenProperties
    <2>2. a \in [1 .. Len(a) -> Range(a)]
      BY <2>1 DEF Range
    <2> QED
      BY <2>1, <2>2, SeqDef
  <1>5. ASSUME NEW i \in 1 .. (n + 1)
        PROVE  a1[i].key = a2[i].key /\ (PlainIn(lines, a1[i].key) => a1[i].value = a2[i].value)
    <2>1. CASE i = n + 1
      BY <2>1, <1>3
    <2>2. CASE i # n + 1
      <3>1. i \in 1 .. n
        BY <2>2, <1>2
      <3> HIDE DEF a1, a2
      <3> QED
        BY <3>1, <1>3 DEF Alike
    <2> QED
      BY <2>1, <2>2
  <1> HIDE DEF a1, a2
  <1>6. Alike(a1, a2, lines)
    BY <1>3, <1>4, <1>5 DEF Alike
  <1> QED
    BY <1>6 DEF a1, a2

LEMMA LineDefinesTheSame ==
  ASSUME NEW lines, IsSequence(lines),
         \A line \in Range(lines) : line.is = "pair" => IsSequence(line.value) /\ IsSequence(line.rest),
         NEW n \in 1 .. Len(lines), NEW s1, NEW s2, SameState(s1, s2, lines), NEW e1, NEW e2
  PROVE  SameState(AfterLine(lines, n, s1, e1), AfterLine(lines, n, s2, e2), lines)
  <1> DEFINE line == lines[n]
             ends == BlockEnd(lines, n)
             end == CHOOSE e \in ends : TRUE
             fields == {"line", "pairs", "resolved", "fails"}
  <1>1. line \in Range(lines)
    BY LenProperties DEF IsSequence, Range
  <1>2. CASE s1.fails
    BY <1>2 DEF AfterLine, SameState
  <1>3. CASE ~ s1.fails /\ n < s1.line
    BY <1>3 DEF AfterLine, ParseLine, SameState
  <1>4. CASE ~ s1.fails /\ ~ (n < s1.line)
    <2>1. /\ AfterLine(lines, n, s1, e1) = ParseLine(lines, n, s1, e1)
          /\ AfterLine(lines, n, s2, e2) = ParseLine(lines, n, s2, e2)
      BY <1>4 DEF AfterLine, SameState
    <2> DEFINE blank == line.is \in {"blank", "comment"}
               whole == line.is = "pair" /\ line.closed
               block == line.is = "pair" /\ ~ line.closed /\ line.quote = "backtick" /\ ends # {}
    <2>2. \A s, e : ~ (n < s.line) => ParseLine(lines, n, s, e) =
            CASE blank -> [s EXCEPT !.line = n + 1]
              [] whole -> Defines(s, line.key, parseValue(line, s.resolved, e), n + 1)
              [] block -> Defines(s, line.key, extractBacktickBlock(lines, n, end), end + 1)
              [] OTHER -> [s EXCEPT !.fails = TRUE]
      BY DEF ParseLine
    <2>3. ~ (n < s2.line)
      BY <1>4 DEF SameState
    <2>4. ~ (blank /\ whole) /\ ~ (blank /\ block) /\ ~ (whole /\ block)
      OBVIOUS
    <2>5. ASSUME NEW v1, NEW v2, NEW i, PlainIn(lines, line.key) => v1 = v2
          PROVE  SameState(Defines(s1, line.key, v1, i), Defines(s2, line.key, v2, i), lines)
      <3> DEFINE d1 == Defines(s1, line.key, v1, i)
                 d2 == Defines(s2, line.key, v2, i)
      <3>1. /\ d1.line = i /\ d2.line = i /\ d1.fails = s1.fails /\ d2.fails = s2.fails
            /\ DOMAIN d1 = fields /\ DOMAIN d2 = fields
            /\ d1.pairs = Append(s1.pairs, [key |-> line.key, value |-> v1])
            /\ d2.pairs = Append(s2.pairs, [key |-> line.key, value |-> v2])
        BY DEF Defines, SameState
      <3>2. Alike(d1.pairs, d2.pairs, lines)
        BY <2>5, <3>1, AlikeMore DEF SameState
      <3> HIDE DEF d1, d2
      <3>3. SameState(d1, d2, lines)
        BY <3>1, <3>2 DEF SameState
      <3> QED
        BY <3>3 DEF d1, d2
    <2> HIDE DEF blank, whole, block, end, line
    <2>6. CASE blank
      BY <2>1, <2>2, <2>3, <2>4, <2>6, <1>4 DEF SameState
    <2>7. CASE whole
      <3>1. PlainIn(lines, line.key) => parseValue(line, s1.resolved, e1) = parseValue(line, s2.resolved, e2)
        BY <1>1, <2>7, SameValue DEF PlainIn, whole
      <3>2. /\ AfterLine(lines, n, s1, e1) = Defines(s1, line.key, parseValue(line, s1.resolved, e1), n + 1)
            /\ AfterLine(lines, n, s2, e2) = Defines(s2, line.key, parseValue(line, s2.resolved, e2), n + 1)
        BY <2>1, <2>2, <2>3, <2>4, <2>7, <1>4
      <3> QED
        BY <3>1, <3>2, <2>5
    <2>8. CASE block
      <3>1. /\ AfterLine(lines, n, s1, e1) = Defines(s1, line.key, extractBacktickBlock(lines, n, end), end + 1)
            /\ AfterLine(lines, n, s2, e2) = Defines(s2, line.key, extractBacktickBlock(lines, n, end), end + 1)
        BY <2>1, <2>2, <2>3, <2>4, <2>8, <1>4
      <3> QED
        BY <3>1, <2>5
    <2>9. CASE ~ blank /\ ~ whole /\ ~ block
      <3>1. /\ AfterLine(lines, n, s1, e1) = [s1 EXCEPT !.fails = TRUE]
            /\ AfterLine(lines, n, s2, e2) = [s2 EXCEPT !.fails = TRUE]
        BY <2>1, <2>2, <2>3, <2>9, <1>4
      <3> QED
        BY <3>1 DEF SameState
    <2> QED
      BY <2>6, <2>7, <2>8, <2>9
  <1> QED
    BY <1>2, <1>3, <1>4

\* A file that parses in one environment parses in every one, and defines the
\* same keys in the same order, those without variables as the same.
LEMMA SameEverywhere ==
  ASSUME NEW lines, IsSequence(lines),
         \A line \in Range(lines) : line.is = "pair" => IsSequence(line.value) /\ IsSequence(line.rest),
         NEW e1, NEW e2
  PROVE  \/ parseFile(lines, e1) = {} /\ parseFile(lines, e2) = {}
         \/ \E p1, p2 : parseFile(lines, e1) = {p1} /\ parseFile(lines, e2) = {p2} /\ Alike(p1, p2, lines)
  <1> DEFINE f1 == ParsedLines(lines, e1)
             f2 == ParsedLines(lines, e2)
             Same == {n \in Nat : n <= Len(lines) => SameState(f1[n], f2[n], lines)}
  <1>1. Len(lines) \in Nat
    BY LenProperties DEF IsSequence
  <1>2. /\ f1[0] = Unread /\ \A n \in 1 .. Len(lines) : f1[n] = AfterLine(lines, n, f1[n - 1], e1)
        /\ f2[0] = Unread /\ \A n \in 1 .. Len(lines) : f2[n] = AfterLine(lines, n, f2[n - 1], e2)
    BY <1>1, ReadsOn
  <1> HIDE DEF f1, f2
  <1>3. 0 \in Same
    <2>1. IsSequence(<<>>) /\ Len(<<>>) = 0
      BY DEF IsSequence
    <2>2. SameState(Unread, Unread, lines)
      BY <2>1 DEF SameState, Unread, Alike
    <2> QED
      BY <1>2, <2>2
  <1>4. ASSUME NEW n \in Nat, n \in Same PROVE n + 1 \in Same
    <2> SUFFICES ASSUME n + 1 <= Len(lines) PROVE SameState(f1[n + 1], f2[n + 1], lines)
      OBVIOUS
    <2>1. n + 1 \in 1 .. Len(lines) /\ (n + 1) - 1 = n /\ SameState(f1[n], f2[n], lines)
      BY <1>1, <1>4
    <2>2. f1[n + 1] = AfterLine(lines, n + 1, f1[n], e1) /\ f2[n + 1] = AfterLine(lines, n + 1, f2[n], e2)
      BY <1>2, <2>1
    <2> QED
      BY <2>1, <2>2, LineDefinesTheSame
  <1> HIDE DEF Same
  <1>5. Len(lines) \in Same
    BY <1>1, <1>3, <1>4, NatSetInduction
  <1>6. SameState(f1[Len(lines)], f2[Len(lines)], lines)
    BY <1>1, <1>5 DEF Same
  <1>7. /\ parseFile(lines, e1) = IF f1[Len(lines)].fails THEN {} ELSE {f1[Len(lines)].pairs}
        /\ parseFile(lines, e2) = IF f2[Len(lines)].fails THEN {} ELSE {f2[Len(lines)].pairs}
    BY DEF parseFile, f1, f2
  <1> QED
    BY <1>6, <1>7 DEF SameState

-----------------------------------------------------------------------------
(* Several files: the first one wins. *)

DefinedBy(path, env) == IF path.missing THEN {} ELSE parseFile(path.lines, env)
DefiningIn(k, n, these, env) ==
  {i \in DOMAIN these : i < n /\ \E pairs \in DefinedBy(these[i], env) : \E m \in DOMAIN pairs : pairs[m].key = k}

\* Pair m of file i is the one that decides its key.
Decides(i, m, pairs, n, these, env) ==
  LET k == pairs[m].key IN
  /\ k \notin DOMAIN env
  /\ \A j \in DefiningIn(k, n, these, env) : i <= j
  /\ \A l \in 1 .. (m - 1) : pairs[l].key # k
  /\ PlainIn(these[i].lines, k)

\* The first n - 1 files are loaded into the environment env0, which is now env.
LoadedInto(n, these, env0, env) ==
  /\ \A k \in DOMAIN env0 : k \in DOMAIN env /\ env[k] = env0[k]
  /\ \A k \in DOMAIN env \ DOMAIN env0 : DefiningIn(k, n, these, env0) # {}
  /\ \A i \in DOMAIN these : i < n => \A pairs \in DefinedBy(these[i], env0) : \A m \in DOMAIN pairs :
       /\ pairs[m].key \in DOMAIN env
       /\ Decides(i, m, pairs, n, these, env0) => env[pairs[m].key] = pairs[m].value

EnvInv ==
  /\ pc = "idle" => source = "none"
  /\ source = "env" => next \in Nat \ {0} /\ LoadedInto(next, paths, before, environ)

LEMMA FirstWins == ASSUME EnvInv PROVE FirstPathWins
  <1> SUFFICES ASSUME source = "env" PROVE FirstPathWins
    BY DEF FirstPathWins
  <1> DEFINE loaded == {i \in DOMAIN paths : i < next}
             Defining(k) == {i \in loaded : \E pairs \in Definitions(paths[i]) : \E n \in DOMAIN pairs : pairs[n].key = k}
             plain(i, k) == \A line \in Range(paths[i].lines) : line.is = "pair" /\ line.key = k =>
                              ~HasVars(line.value) /\ ~HasVars(line.rest)
  <1>1. \A path : Definitions(path) = DefinedBy(path, before)
    BY DEF Definitions, DefinedBy
  <1>2. \A k : Defining(k) = DefiningIn(k, next, paths, before)
    BY <1>1 DEF DefiningIn
  <1>3. \A i, k : plain(i, k) <=> PlainIn(paths[i].lines, k)
    BY DEF PlainIn
  <1>4. /\ \A k \in DOMAIN before : k \in DOMAIN environ /\ environ[k] = before[k]
        /\ \A k \in DOMAIN environ \ DOMAIN before : Defining(k) # {}
    BY <1>2 DEF EnvInv, LoadedInto
  <1>5. ASSUME NEW i \in loaded, NEW pairs \in Definitions(paths[i]), NEW n \in DOMAIN pairs
        PROVE  /\ pairs[n].key \in DOMAIN environ
               /\ pairs[n].key \notin DOMAIN before
                  /\ ((\A j \in Defining(pairs[n].key) : i <= j) /\ (\A m \in 1 .. (n - 1) : pairs[m].key # pairs[n].key))
                  /\ plain(i, pairs[n].key)
                  => environ[pairs[n].key] = pairs[n].value
    <2>1. LoadedInto(next, paths, before, environ) /\ pairs \in DefinedBy(paths[i], before) /\ i \in DOMAIN paths /\ i < next
      BY <1>1 DEF EnvInv
    <2>2. /\ pairs[n].key \in DOMAIN environ
          /\ Decides(i, n, pairs, next, paths, before) => environ[pairs[n].key] = pairs[n].value
      BY <2>1 DEF LoadedInto
    <2> HIDE DEF Defining, plain
    <2> QED
      BY <2>2, <1>2, <1>3 DEF Decides
  <1> QED
    BY <1>4, <1>5 DEF FirstPathWins

\* One more file: what it defines and nobody before it did is set, the rest stays.
LEMMA LoadsInto ==
  ASSUME NEW these, AreFiles(these), NEW n \in Nat, n \in DOMAIN these, NEW env0, NEW env,
         LoadedInto(n, these, env0, env), NEW pairs \in DefinedBy(these[n], env)
  PROVE  LoadedInto(n + 1, these, env0, Setenv(pairs, env))
  <1> DEFINE set == Setenv(pairs, env)
             keys == {pairs[m].key : m \in DOMAIN pairs}
  <1>1. PICK own : DefinedBy(these[n], env0) = {own} /\ Alike(pairs, own, these[n].lines)
    <2>1. ~ these[n].missing /\ pairs \in parseFile(these[n].lines, env)
      BY DEF DefinedBy
    <2>2. /\ IsSequence(these[n].lines)
          /\ \A line \in Range(these[n].lines) : line.is = "pair" => IsSequence(line.value) /\ IsSequence(line.rest)
      BY DEF AreFiles
    <2>3. \E p1, p2 : /\ parseFile(these[n].lines, env) = {p1} /\ parseFile(these[n].lines, env0) = {p2}
                      /\ Alike(p1, p2, these[n].lines)
      BY <2>1, <2>2, SameEverywhere
    <2> QED
      BY <2>1, <2>3 DEF DefinedBy
  <1>2. /\ DOMAIN pairs = 1 .. Len(pairs) /\ DOMAIN own = 1 .. Len(pairs) /\ Len(pairs) \in Nat
        /\ \A m \in DOMAIN pairs : /\ pairs[m].key = own[m].key
                                   /\ PlainIn(these[n].lines, own[m].key) => pairs[m].value = own[m].value
    BY <1>1, LenProperties DEF Alike, IsSequence
  <1>3. /\ DOMAIN set = DOMAIN env \cup keys
        /\ \A k \in DOMAIN env : set[k] = env[k]
        /\ \A k \in keys \ DOMAIN env : set[k] = Given(pairs, k)
    BY DEF Setenv
  <1> HIDE DEF set
  <1>4. DOMAIN these \subseteq Int
    BY LenProperties DEF AreFiles, IsSequence
  <1>5. \A k : DefiningIn(k, n + 1, these, env0) = DefiningIn(k, n, these, env0) \cup (IF k \in keys THEN {n} ELSE {})
    <2>1. \A k : (\E p \in DefinedBy(these[n], env0) : \E m \in DOMAIN p : p[m].key = k) <=> k \in keys
      <3>1. \A k : (\E p \in DefinedBy(these[n], env0) : \E m \in DOMAIN p : p[m].key = k) <=> \E m \in DOMAIN own : own[m].key = k
        BY <1>1
      <3> QED
        BY <1>2, <3>1
    <2>2. \A i \in DOMAIN these : i < n + 1 <=> i < n \/ i = n
      BY <1>4
    <2>3. \A i \in DOMAIN these : i < n => i # n
      BY <1>4
    <2> HIDE DEF keys
    <2> QED
      BY <2>1, <2>2, <2>3 DEF DefiningIn
  <1>6. \A k \in DOMAIN env0 : k \in DOMAIN set /\ set[k] = env0[k]
    BY <1>3 DEF LoadedInto
  <1>7. \A k \in DOMAIN set \ DOMAIN env0 : DefiningIn(k, n + 1, these, env0) # {}
    <2> HIDE DEF keys
    <2> QED
      BY <1>3, <1>5 DEF LoadedInto
  <1>8. ASSUME NEW i \in DOMAIN these, i < n + 1, NEW p \in DefinedBy(these[i], env0), NEW m \in DOMAIN p
        PROVE  /\ p[m].key \in DOMAIN set
               /\ Decides(i, m, p, n + 1, these, env0) => set[p[m].key] = p[m].value
    <2> DEFINE k == p[m].key
    <2>1. CASE i < n
      <3>1. /\ k \in DOMAIN env
            /\ Decides(i, m, p, n, these, env0) => env[k] = p[m].value
        BY <2>1 DEF LoadedInto
      <3>2. Decides(i, m, p, n + 1, these, env0) => Decides(i, m, p, n, these, env0)
        BY <1>5 DEF Decides
      <3> QED
        BY <3>1, <3>2, <1>3
    <2>2. CASE i = n
      <3>1. p = own /\ m \in DOMAIN pairs /\ k = pairs[m].key /\ k \in keys
        BY <2>2, <1>1, <1>2
      <3>2. ASSUME Decides(i, m, p, n + 1, these, env0) PROVE set[k] = p[m].value
        <4>1. /\ k \notin DOMAIN env0 /\ \A j \in DefiningIn(k, n + 1, these, env0) : n <= j
              /\ \A l \in 1 .. (m - 1) : p[l].key # k
              /\ PlainIn(these[n].lines, k)
          BY <3>2, <2>2 DEF Decides
        <4>2. DefiningIn(k, n, these, env0) = {}
          <5>1. \A j \in DefiningIn(k, n, these, env0) : j < n /\ j \in Int
            BY <1>4 DEF DefiningIn
          <5>2. \A j \in DefiningIn(k, n, these, env0) : n <= j
            BY <4>1, <1>5
          <5> QED
            BY <5>1, <5>2
        <4>3. k \notin DOMAIN env
          BY <4>1, <4>2 DEF LoadedInto
        <4>4. set[k] = Given(pairs, k)
          BY <4>3, <3>1, <1>3
        <4>5. \A l \in DOMAIN pairs : (pairs[l].key = k /\ \A o \in 1 .. (l - 1) : pairs[o].key # k) <=> l = m
          <5>1. m \in 1 .. Len(pairs) /\ \A o \in 1 .. (m - 1) : pairs[o].key # k
            BY <4>1, <3>1, <1>2
          <5>2. \A l \in 1 .. Len(pairs) : l = m \/ l \in 1 .. (m - 1) \/ m \in 1 .. (l - 1)
            BY <5>1, <1>2
          <5> HIDE DEF k
          <5> QED
            BY <5>1, <5>2, <1>2, <3>1
        <4>6. Given(pairs, k) = pairs[m].value
          <5>1. (CHOOSE l \in DOMAIN pairs : pairs[l].key = k /\ \A o \in 1 .. (l - 1) : pairs[o].key # k) = m
            <6> HIDE DEF k
            <6> QED
              BY <4>5, <3>1
          <5> QED
            BY <5>1 DEF Given
        <4> QED
          BY <4>1, <4>4, <4>6, <3>1, <1>2
      <3> QED
        BY <3>1, <3>2, <1>3
    <2> QED
      BY <2>1, <2>2, <1>4, <1>8
  <1> HIDE DEF keys
  <1>9. LoadedInto(n + 1, these, env0, set)
    BY <1>6, <1>7, <1>8 DEF LoadedInto
  <1> QED
    BY <1>9 DEF set

LEMMA EnvKept == ASSUME CaseInv, StartInv, JudgedInv, EnvInv, ParseNext PROVE EnvInv'
  <1>1. CASE Call
    <2>1. pc' # "idle" /\ next' = 1 /\ environ' = before'
      BY <1>1 DEF Call, StartInv
    <2>2. ASSUME source' = "env" PROVE LoadedInto(next', paths', before', environ')
      <3>1. paths' \in Seq(Range(paths'))
        BY <1>1, <2>2, CasesAssumption DEF Call, AreFiles, IsSequence
      <3>2. \A i \in DOMAIN paths' : ~ (i < next')
        BY <2>1, <3>1, LenProperties
      <3> QED
        BY <2>1, <3>2 DEF LoadedInto
    <2> QED
      BY <2>1, <2>2 DEF EnvInv
  <1>2. CASE LoadPath
    <2>1. /\ source = "env" /\ UNCHANGED <<source, paths, before, pc>> /\ pc = "load" /\ next' = next + 1 /\ next <= Len(paths)
      BY <1>2 DEF LoadPath, StartInv, inputs
    <2>2. PICK pairs \in DefinedBy(paths[next], environ) : environ' = Setenv(pairs, environ)
      BY <1>2 DEF LoadPath, ParsedPath, DefinedBy
    <2>3. AreFiles(paths) /\ next \in Nat \ {0} /\ LoadedInto(next, paths, before, environ)
      BY <2>1 DEF CaseInv, EnvInv
    <2>4. next \in DOMAIN paths
      <3>1. DOMAIN paths = 1 .. Len(paths) /\ Len(paths) \in Nat
        BY <2>3, LenProperties DEF AreFiles, IsSequence
      <3> QED
        BY <2>1, <2>3, <3>1
    <2>5. LoadedInto(next + 1, paths, before, Setenv(pairs, environ))
      BY <2>2, <2>3, <2>4, LoadsInto
    <2> QED
      BY <2>1, <2>2, <2>3, <2>5 DEF EnvInv
  <1>3. CASE ~ Call /\ ~ LoadPath
    <2>1. /\ UNCHANGED <<source, paths, before, environ>> /\ pc' # "idle"
          /\ source = "env" => next' = next
      BY <1>3 DEF ParseNext, LoadFails, Loaded, Resolve, MalformedBody, DecodeStruct, DecodeValue, WriteValue,
           VisitPresent, VisitAbsent, Checked, NextPart, BrokenPart, FilePart, FieldPart, EndOfParts, Decide,
           Populate, PopulateFails, Populated, Sync, Reject, JudgedInv, inputs
    <2> QED
      BY <2>1 DEF EnvInv
  <1> QED
    BY <1>1, <1>2, <1>3

-----------------------------------------------------------------------------
(* The theorems. *)

ParseInv == CaseInv /\ StartInv /\ JudgedInv /\ FilesInv /\ EnvInv /\ PatchInv

\* The invariant the other results follow from: what a call has found, called
\* and written so far is what the walk behind it is due.
THEOREM CallsInvariant == ParseSpec => []ParseInv
  <1>1. ParseInit => ParseInv
    BY DEF ParseInit, ParseInv, CaseInv, StartInv, JudgedInv, DecidesAsJson, FilesInv, EnvInv, PatchInv
  <1>2. ASSUME ParseInv, ParseNext PROVE ParseInv'
    <2>1. CaseInv' /\ StartInv'
      BY <1>2, CaseKept, StartKept DEF ParseInv
    <2>2. JudgedInv'
      BY <1>2, JudgedKept DEF ParseInv
    <2>3. FilesInv' /\ EnvInv' /\ PatchInv'
      BY <1>2, FilesKept, EnvKept, PatchKept DEF ParseInv
    <2> QED
      BY <2>1, <2>2, <2>3 DEF ParseInv
  <1>3. ASSUME ParseInv, UNCHANGED parsing PROVE ParseInv'
    <2>1. CaseInv' /\ StartInv' /\ EnvInv'
      BY <1>3 DEF ParseInv, CaseInv, StartInv, EnvInv, parsing, inputs, result
    <2>2. JudgedInv' = JudgedInv
      BY <1>3 DEF JudgedInv, DecidesAsJson, Blamed, Deserves, RefutedSoFar, ReadSoFar, Walked, Properties, Visible,
           Tag, Supplied, RawText, Refuted, Readings, parsing, inputs
    <2>3. FilesInv' = FilesInv
      BY <1>3 DEF FilesInv, TakesFiles, Sent, Ends, FilesUpTo, parsing, inputs, result
    <2>4. PatchInv' = PatchInv
      BY <1>3 DEF PatchInv, WrittenSoFar, Struct, Properties, Visible, Tag, Keys, Parsed, parsing, inputs, result
    <2> QED
      BY <1>3, <2>1, <2>2, <2>3, <2>4 DEF ParseInv
  <1> QED
    BY <1>1, <1>2, <1>3, PTL DEF ParseSpec

\* Path parameters, queries, headers, environments and forms: a property is
\* blamed exactly for what a JSON body with the same keys would be blamed for,
\* in whatever order the properties are walked over and the parts come.
THEOREM JudgedAsJson == ParseSpec => []DecidesAsJson
  <1>1. ParseInv => DecidesAsJson
    BY DEF ParseInv, JudgedInv
  <1> QED
    BY <1>1, CallsInvariant, PTL

\* onFile is called for the files of a form in their order, once each, up to the
\* part that ends the walk.
THEOREM FilesAsSent == ParseSpec => []FilesInOrder
  <1>1. ParseInv => FilesInOrder
    BY FilesOrdered DEF ParseInv
  <1> QED
    BY <1>1, CallsInvariant, PTL

\* Among .env files the environment of the process wins, then the first file that
\* defines a key, then the first of its lines; each file counts as a whole.
THEOREM FirstFileWins == ParseSpec => []FirstPathWins
  <1>1. ParseInv => FirstPathWins
    BY FirstWins DEF ParseInv
  <1> QED
    BY <1>1, CallsInvariant, PTL

\* A PATCH handler that syncs the parsed struct changes exactly the accessor
\* fields its body had a value for.
THEOREM PatchedAsSent == ParseSpec => []PatchTouchesOnlySent
  <1>1. ParseInv => PatchTouchesOnlySent
    BY PatchExact DEF ParseInv
  <1> QED
    BY <1>1, CallsInvariant, PTL

-----------------------------------------------------------------------------
(* Contract. What can be reached. *)

\* The walk of Reachable: the nodes within so many steps.
WalkOf(f, n, given, behind) ==
  f = [i \in 0 .. n |-> IF i = 0 THEN given ELSE OneFurther(f[i - 1], behind)]

\* The function Reachable defines exists.
LEMMA WalkExists ==
  ASSUME NEW given, NEW behind, NEW most \in Nat
  PROVE  \E f : WalkOf(f, most, given, behind)
  <1> DEFINE Lengths == {k \in Nat : \E f : WalkOf(f, k, given, behind)}
  <1>1. 0 \in Lengths
    <2> DEFINE f == [i \in 0 .. 0 |-> given]
    <2>1. WalkOf(f, 0, given, behind)
      BY DEF WalkOf
    <2> QED
      BY <2>1
  <1>2. ASSUME NEW k \in Nat, k \in Lengths PROVE k + 1 \in Lengths
    <2>1. PICK f : WalkOf(f, k, given, behind)
      BY <1>2
    <2> DEFINE g == [i \in 0 .. (k + 1) |-> IF i = k + 1 THEN OneFurther(f[k], behind) ELSE f[i]]
    <2>2. \A i \in 0 .. k : f[i] = IF i = 0 THEN given ELSE OneFurther(f[i - 1], behind)
      BY <2>1 DEF WalkOf
    <2>3. ASSUME NEW i \in 0 .. (k + 1)
          PROVE  g[i] = IF i = 0 THEN given ELSE OneFurther(g[i - 1], behind)
      <3>1. CASE i = k + 1
        <4>1. i # 0 /\ i - 1 = k /\ g[i] = OneFurther(f[k], behind) /\ g[k] = f[k]
          BY <3>1
        <4> QED
          BY <4>1
      <3>2. CASE i # k + 1
        <4>1. i \in 0 .. k /\ g[i] = f[i] /\ (i # 0 => i - 1 \in 0 .. k /\ g[i - 1] = f[i - 1])
          BY <3>2
        <4> QED
          BY <2>2, <4>1
      <3> QED
        BY <3>1, <3>2
    <2>4. g = [i \in 0 .. (k + 1) |-> g[i]]
      OBVIOUS
    <2> HIDE DEF g
    <2>5. g = [i \in 0 .. (k + 1) |-> IF i = 0 THEN given ELSE OneFurther(g[i - 1], behind)]
      BY <2>3, <2>4
    <2>6. WalkOf(g, k + 1, given, behind)
      BY <2>5 DEF WalkOf
    <2> QED
      BY <2>6
  <1> HIDE DEF Lengths
  <1>3. most \in Lengths
    BY <1>1, <1>2, NatSetInduction
  <1> QED
    BY <1>3 DEF Lengths

\* What is reached holds what was given, goes nowhere else, and is no more than
\* that demands.
LEMMA ReachesAll ==
  ASSUME NEW S, IsFiniteSet(S), NEW behind \in [S -> SUBSET S], NEW given \in SUBSET S
  PROVE  LET reached == Reachable(given, behind) IN
         /\ given \subseteq reached /\ reached \subseteq S
         /\ \A s \in reached : behind[s] \subseteq reached
         /\ \A T : given \subseteq T /\ (\A s \in T : behind[s] \subseteq T) => reached \subseteq T
  <1> DEFINE size == Cardinality(S)
             f == CHOOSE g : WalkOf(g, size, given, behind)
             reached == Reachable(given, behind)
  <1>1. size \in Nat /\ DOMAIN behind = S
    BY FS_CardinalityType
  <1>2. WalkOf(f, size, given, behind)
    BY <1>1, WalkExists
  <1>3. reached = f[size]
    BY <1>1 DEF Reachable, WalkOf
  <1> HIDE DEF f, size, reached
  <1>4. \A i \in 0 .. size : f[i] = IF i = 0 THEN given ELSE OneFurther(f[i - 1], behind)
    BY <1>2 DEF WalkOf
  <1>5. f[0] = given /\ \A k \in Nat : k + 1 <= size => f[k + 1] = OneFurther(f[k], behind)
    BY <1>1, <1>4
  <1> DEFINE Grown(i) == /\ given \subseteq f[i] /\ f[i] \subseteq S
                         /\ OneFurther(f[i], behind) = f[i] \/ Cardinality(f[i]) >= i
             A == {i \in Nat : i <= size => Grown(i)}
  <1>6. Grown(size)
    <2>1. 0 \in A
      <3>1. IsFiniteSet(given) /\ Cardinality(given) \in Nat
        BY FS_Subset, FS_CardinalityType
      <3>2. Cardinality(f[0]) >= 0
        BY <3>1, <1>5
      <3> QED
        BY <1>5, <3>2
    <2>2. ASSUME NEW k \in Nat, k \in A PROVE k + 1 \in A
      <3> SUFFICES ASSUME k + 1 <= size PROVE Grown(k + 1)
        OBVIOUS
      <3>1. Grown(k) /\ f[k + 1] = OneFurther(f[k], behind)
        BY <1>1, <1>5, <2>2
      <3> HIDE DEF A
      <3>2. f[k] \subseteq f[k + 1] /\ f[k + 1] \subseteq S
        BY <3>1 DEF OneFurther
      <3>3. CASE OneFurther(f[k], behind) = f[k]
        <4>1. f[k + 1] = f[k]
          BY <3>1, <3>3
        <4> QED
          BY <3>1, <3>3, <4>1
      <3>4. CASE OneFurther(f[k], behind) # f[k]
        <4>1. IsFiniteSet(f[k + 1]) /\ IsFiniteSet(f[k])
          BY <3>1, <3>2, FS_Subset
        <4>2. Cardinality(f[k]) <= Cardinality(f[k + 1]) /\ Cardinality(f[k]) # Cardinality(f[k + 1])
          BY <3>1, <3>2, <3>4, <4>1, FS_Subset
        <4>3. Cardinality(f[k]) \in Nat /\ Cardinality(f[k + 1]) \in Nat
          BY <4>1, FS_CardinalityType
        <4>4. Cardinality(f[k + 1]) >= k + 1
          BY <3>1, <3>4, <4>2, <4>3
        <4> QED
          BY <3>1, <3>2, <4>4
      <3> QED
        BY <3>3, <3>4
    <2> HIDE DEF A, Grown
    <2>3. size \in A
      BY <1>1, <2>1, <2>2, NatSetInduction
    <2> QED
      BY <1>1, <2>3 DEF A
  <1>7. OneFurther(f[size], behind) = f[size]
    <2> SUFFICES ASSUME OneFurther(f[size], behind) # f[size] PROVE FALSE
      OBVIOUS
    <2>1. f[size] \subseteq S /\ Cardinality(f[size]) >= size
      BY <1>6
    <2>2. f[size] = S
      <3>1. Cardinality(f[size]) <= size /\ (size = Cardinality(f[size]) => S = f[size])
        BY <2>1, FS_Subset DEF size
      <3>2. Cardinality(f[size]) \in Nat
        BY <2>1, FS_Subset, FS_CardinalityType
      <3> QED
        BY <1>1, <2>1, <3>1, <3>2
    <2>3. OneFurther(S, behind) = S
      BY DEF OneFurther
    <2> QED
      BY <2>2, <2>3
  <1>8. \A s \in reached : behind[s] \subseteq reached
    BY <1>3, <1>7 DEF OneFurther
  <1>9. ASSUME NEW T, given \subseteq T, \A s \in T : behind[s] \subseteq T
        PROVE  reached \subseteq T
    <2> DEFINE B == {i \in Nat : i <= size => f[i] \subseteq T}
    <2>1. 0 \in B
      BY <1>5, <1>9
    <2>2. ASSUME NEW k \in Nat, k \in B PROVE k + 1 \in B
      <3> SUFFICES ASSUME k + 1 <= size PROVE f[k + 1] \subseteq T
        OBVIOUS
      <3>1. f[k] \subseteq T /\ f[k + 1] = OneFurther(f[k], behind)
        BY <1>1, <1>5, <2>2
      <3> QED
        BY <1>9, <3>1 DEF OneFurther
    <2> HIDE DEF B
    <2>3. size \in B
      BY <1>1, <2>1, <2>2, NatSetInduction
    <2> QED
      BY <1>1, <1>3, <2>3 DEF B
  <1>10. given \subseteq reached /\ reached \subseteq S
    BY <1>3, <1>6
  <1> QED
    BY <1>8, <1>9, <1>10 DEF reached

-----------------------------------------------------------------------------
(* Contract. Builders and what is behind them. *)

\* The builders of a schema's properties.
FieldsOf(s) == Range(SchemaTable[s].fields)

\* A chain of builders ends.
LEMMA Nested ==
  ASSUME NEW s \in DOMAIN SchemaTable, NEW p \in FieldsOf(s)
  PROVE  /\ IsSequence(Nesting(p)) /\ Len(Nesting(p)) \in Nat \ {0}
         /\ DOMAIN Nesting(p) = 1 .. Len(Nesting(p))
         /\ Nesting(p)[Len(Nesting(p))].kind # "array"
         /\ \A i \in DOMAIN Nesting(p) : Nesting(p)[i].ref \cup Nesting(p)[i].itemRef \subseteq DOMAIN SchemaTable
  <1> DEFINE nested == Nesting(p)
  <1>1. /\ IsSequence(nested) /\ nested # <<>>
        /\ \A i \in DOMAIN nested :
             /\ nested[i].item = IF i = Len(nested) THEN {} ELSE {nested[i + 1]}
             /\ nested[i].kind = "array" => nested[i].item # {}
             /\ nested[i].ref \cup nested[i].itemRef \subseteq DOMAIN SchemaTable
    BY NestingAssumption DEF FieldsOf
  <1> HIDE DEF nested
  <1>2. Len(nested) \in Nat \ {0} /\ DOMAIN nested = 1 .. Len(nested)
    BY <1>1, LenProperties, EmptySeq DEF IsSequence
  <1>3. Len(nested) \in DOMAIN nested
    BY <1>2
  <1> QED
    BY <1>1, <1>2, <1>3 DEF nested

\* schemaFor finds the builder it ends at.
LEMMA Deepest ==
  ASSUME NEW s \in DOMAIN SchemaTable, NEW p \in FieldsOf(s)
  PROVE  /\ Api!Depth(p) \in 1 .. Len(Nesting(p))
         /\ ~Api!OfBuilders(Api!Innermost(p))
         /\ \A i \in 1 .. (Api!Depth(p) - 1) : Api!OfBuilders(Nesting(p)[i])
  <1> DEFINE n == Len(Nesting(p))
             Stops == {i \in 1 .. n : ~Api!OfBuilders(Nesting(p)[i])}
  <1>1. n \in Nat /\ n \in Stops /\ DOMAIN Nesting(p) = 1 .. n
    BY Nested DEF Api!OfBuilders
  <1>2. PICK i \in Stops : \A j \in Stops : i <= j
    <2> HIDE DEF n
    <2>1. Stops \in SUBSET (1 .. n) /\ Stops # {}
      BY <1>1
    <2> HIDE DEF Stops
    <2> QED
      BY <1>1, <2>1, FirstOf
  <1>3. i \in DOMAIN Nesting(p) /\ ~Api!OfBuilders(Nesting(p)[i]) /\ \A j \in 1 .. (i - 1) : Api!OfBuilders(Nesting(p)[j])
    <2>1. ASSUME NEW j \in 1 .. (i - 1) PROVE j \in 1 .. n /\ ~(i <= j)
      BY <1>1, <1>2
    <2> QED
      BY <1>1, <1>2, <2>1
  <1> QED
    BY <1>1, <1>3 DEF Api!Depth, Api!Innermost

\* The same of scalarOrListType.
LEMMA LeafReached ==
  ASSUME NEW s \in DOMAIN SchemaTable, NEW p \in FieldsOf(s)
  PROVE  /\ Gql!Depth(p) \in 1 .. Len(Nesting(p))
         /\ ~Gql!OfBuilders(Gql!Leaf(p))
         /\ Gql!Leaf(p).ref \cup Gql!Leaf(p).itemRef \subseteq DOMAIN SchemaTable
  <1> DEFINE n == Len(Nesting(p))
             Stops == {i \in 1 .. n : ~Gql!OfBuilders(Nesting(p)[i])}
  <1>1. n \in Nat /\ n \in Stops /\ DOMAIN Nesting(p) = 1 .. n
    BY Nested DEF Gql!OfBuilders
  <1>2. PICK i \in Stops : \A j \in Stops : i <= j
    <2> HIDE DEF n
    <2>1. Stops \in SUBSET (1 .. n) /\ Stops # {}
      BY <1>1
    <2> HIDE DEF Stops
    <2> QED
      BY <1>1, <2>1, FirstOf
  <1>3. i \in DOMAIN Nesting(p) /\ ~Gql!OfBuilders(Nesting(p)[i]) /\ \A j \in 1 .. (i - 1) : Gql!OfBuilders(Nesting(p)[j])
    <2>1. ASSUME NEW j \in 1 .. (i - 1) PROVE j \in 1 .. n /\ ~(i <= j)
      BY <1>1, <1>2
    <2> QED
      BY <1>1, <1>2, <2>1
  <1>4. Gql!Depth(p) \in DOMAIN Nesting(p) /\ ~Gql!OfBuilders(Gql!Leaf(p))
    BY <1>1, <1>3 DEF Gql!Depth, Gql!Leaf
  <1> QED
    BY <1>1, <1>4, Nested DEF Gql!Leaf

\* What is said of one builder refers to no more than that builder does.
LEMMA DescribedRefers ==
  ASSUME NEW b
  PROVE  Api!Described(b).ref = IF b.kind = "object" /\ ~b.custom THEN {Api!NameOf(t) : t \in b.ref} ELSE {}
  <1>1. \A t : Api!Typed(t, b).ref = {} /\ DOMAIN Api!Typed(t, b) = {"types", "min", "max", "pattern", "enum", "ref"}
    BY DEF Api!Typed, Api!Anything
  <1>2. \A t : Api!Limited(t, b).ref = {} /\ DOMAIN Api!Limited(t, b) = {"types", "min", "max", "pattern", "enum", "ref"}
    BY <1>1 DEF Api!Limited
  <1>3. \A ss : Api!refSchema(ss).ref = {Api!NameOf(t) : t \in ss} /\ DOMAIN Api!refSchema(ss) = {"types", "min", "max", "pattern", "enum", "ref"}
    BY DEF Api!refSchema, Api!Anything
  <1>4. Api!Anything.ref = {}
    BY DEF Api!Anything
  <1>5. CASE b.custom
    BY <1>4, <1>5 DEF Api!Described
  <1>6. CASE ~b.custom /\ b.kind = "object"
    <2>1. CASE b.ref # {}
      <3>1. Api!Described(b) = [Api!refSchema(b.ref) EXCEPT !.types = IF b.nullable THEN {"null"} ELSE {}]
        BY <1>6, <2>1 DEF Api!Described
      <3> QED
        BY <1>3, <1>6, <3>1
    <2>2. CASE b.ref = {}
      BY <1>1, <1>6, <2>2 DEF Api!Described
    <2> QED
      BY <2>1, <2>2
  <1>7. CASE ~b.custom /\ b.kind # "object"
    BY <1>1, <1>2, <1>4, <1>7 DEF Api!Described
  <1> QED
    BY <1>5, <1>6, <1>7

\* Every name in the schema object of a property is that of a schema it
\* registers.
LEMMA NamesAreReferred ==
  ASSUME NEW s \in DOMAIN SchemaTable, NEW p \in FieldsOf(s)
  PROVE  /\ Api!Referred(p) \subseteq DOMAIN SchemaTable
         /\ NamesIn(Api!schemaFor(p)) \subseteq {Api!NameOf(t) : t \in Api!Referred(p)}
  <1> DEFINE n == Api!Depth(p)
             inner == Api!Innermost(p)
             described == [i \in 1 .. n |-> Api!Described(Nesting(p)[i])]
             names == {Api!NameOf(t) : t \in Api!Referred(p)}
  <1>1. n \in Nat /\ inner = Nesting(p)[n] /\ n \in DOMAIN Nesting(p)
    BY Deepest, Nested DEF Api!Innermost
  <1>2. Api!Referred(p) \subseteq DOMAIN SchemaTable
    <2>1. inner.ref \cup inner.itemRef \subseteq DOMAIN SchemaTable
      BY <1>1, Nested
    <2> QED
      BY <2>1 DEF Api!Referred, Api!ItemRef
  <1>3. ASSUME NEW i \in 1 .. n PROVE described[i].ref \subseteq names
    <2>1. CASE i = n
      BY <1>1, <2>1, DescribedRefers DEF Api!Referred
    <2>2. CASE i # n
      <3>1. i \in 1 .. (n - 1)
        BY <1>1, <2>2
      <3>2. Nesting(p)[i].kind = "array"
        BY <3>1, Deepest DEF Api!OfBuilders
      <3> QED
        BY <3>2, DescribedRefers
    <2> QED
      BY <2>1, <2>2
  <1>4. CASE Api!ItemRef(inner) = {}
    <2>1. Api!schemaFor(p) = described \o <<>>
      BY <1>4 DEF Api!schemaFor
    <2>2. Range(Api!schemaFor(p)) = {described[i] : i \in 1 .. n}
      <3> HIDE DEF n
      <3>1. described \in Seq({described[i] : i \in 1 .. n})
        BY <1>1, SeqDef
      <3>2. described \o <<>> = described /\ DOMAIN described = 1 .. n
        BY <3>1, ConcatEmptySeq
      <3> QED
        BY <2>1, <3>2 DEF Range
    <2> QED
      BY <1>2, <1>3, <2>2 DEF NamesIn
  <1>5. CASE Api!ItemRef(inner) # {}
    <2> DEFINE last == Api!refSchema(Api!ItemRef(inner))
    <2>1. Api!schemaFor(p) = described \o <<last>>
      BY <1>5 DEF Api!schemaFor
    <2>2. last.ref \subseteq names
      <3>1. Api!Referred(p) = Api!ItemRef(inner)
        BY <1>5 DEF Api!Referred, Api!ItemRef
      <3>2. last.ref = {Api!NameOf(t) : t \in Api!ItemRef(inner)}
        BY DEF Api!refSchema, Api!Anything
      <3> QED
        BY <3>1, <3>2
    <2>3. Range(Api!schemaFor(p)) = {described[i] : i \in 1 .. n} \cup {last}
      <3> HIDE DEF n, last
      <3>1. described \in Seq({described[i] : i \in 1 .. n} \cup {last}) /\ <<last>> \in Seq({described[i] : i \in 1 .. n} \cup {last})
        BY <1>1, SeqDef
      <3>2. DOMAIN described = 1 .. n /\ Len(described) = n /\ Len(<<last>>) = 1
        BY <1>1, <3>1, LenProperties
      <3> HIDE DEF described
      <3>3. /\ Len(described \o <<last>>) = n + 1
            /\ DOMAIN (described \o <<last>>) = 1 .. (n + 1)
            /\ \A i \in 1 .. (n + 1) : (described \o <<last>>)[i] = IF i <= n THEN described[i] ELSE last
        BY <1>1, <3>1, <3>2, ConcatProperties, LenProperties
      <3> QED
        BY <1>1, <2>1, <3>3 DEF Range
    <2> QED
      BY <1>2, <1>3, <2>2, <2>3 DEF NamesIn
  <1> QED
    BY <1>2, <1>4, <1>5

-----------------------------------------------------------------------------
(* Contract. The walk of OpenApi: what is left to do is on its call stack. *)

\* The calls there can be.
ModuleCalls == {Api!WalkModule(m) : m \in DOMAIN Modules} \cup {Api!WalkController(c) : c \in DOMAIN Controllers}
RouteCalls == {Api!WalkRoute(c, r) : c \in DOMAIN Controllers, r \in DOMAIN Routes}
              \cup {Api!BuiltRoute(c, r) : c \in DOMAIN Controllers, r \in DOMAIN Routes}
SchemaCalls == {Api!Register(ss) : ss \in SUBSET DOMAIN SchemaTable}
               \cup UNION {{Api!WalkSchema(s, ps) : ps \in SUBSET FieldsOf(s)} : s \in DOMAIN SchemaTable}
ApiCall == ModuleCalls \cup RouteCalls \cup SchemaCalls

\* The schemas that have a name, or that a call is about to give one.
Named(names, cs) == names \cup UNION {c.left : c \in {d \in cs : d.do = "register"}}

\* The controllers of the modules the root imports, and the schemas the operation
\* of a route registers.
Mounted == UNION {Range(Modules[m].controllers) : m \in Imported}
Registers(r) == UNION Range(Api!Registering(r))

\* What the call stack holds, and the names given so far.
DocTypes ==
  /\ apiWork \in Seq(ApiCall)
  /\ visited \subseteq DOMAIN Modules
  /\ DOMAIN schemaNames \subseteq DOMAIN SchemaTable
  /\ \A s \in DOMAIN schemaNames : schemaNames[s] = Api!NameOf(s)

\* Modules: the imports of a visited one are visited or waiting.
ModulesInv(seen, cs) ==
  /\ Root \in seen \/ Api!WalkModule(Root) \in cs
  /\ \A m \in seen : \A i \in Range(Modules[m].imports) : i \in seen \/ Api!WalkModule(i) \in cs
  /\ seen \subseteq Imported
  /\ \A c \in cs : c.do = "module" => c.of \in Imported

\* Routes: each of a visited module is documented, excluded or waiting.
Due(c, r, table, cs) ==
  Routes[r].excluded \/ Api!PathOf(c, r) \in DOMAIN table \/ Api!WalkRoute(c, r) \in cs \/ Api!BuiltRoute(c, r) \in cs

RoutesInv(table, seen, names, cs) ==
  /\ \A m \in seen : \A c \in Range(Modules[m].controllers) :
       Api!WalkController(c) \in cs \/ \A r \in Range(Controllers[c].routes) : Due(c, r, table, cs)
  /\ \A c \in cs : c.do = "controller" => c.of \in Mounted
  /\ \A c \in cs : c.do = "route" => c.in \in Mounted /\ c.of \in Range(Controllers[c.in].routes)
  /\ \A c \in cs : c.do = "path" => <<c.in, c.of>> \in Documented /\ Registers(c.of) \subseteq Named(names, cs)
  /\ \A k \in DOMAIN table : \E d \in Documented :
       k = Api!PathOf(d[1], d[2]) /\ table[k] = Api!Operation(d[1], d[2]) /\ Registers(d[2]) \subseteq Named(names, cs)

\* Schemas: one with a name is written down or waiting, and what its properties
\* refer to has a name or is about to get one.
SchemasInv(made, names, cs) ==
  /\ \A s \in names : Api!NameOf(s) \in DOMAIN made \/ \E c \in cs : c.do = "schema" /\ c.of = s
  /\ \A n \in DOMAIN made : \E s \in names :
       /\ Api!NameOf(s) = n /\ made[n] = Api!ObjectSchema(s, "json")
       /\ \A p \in FieldsOf(s) : Api!Referred(p) \subseteq Named(names, cs)
  /\ \A c \in cs : c.do = "schema" =>
       c.of \in names /\ \A p \in FieldsOf(c.of) \ c.left : Api!Referred(p) \subseteq Named(names, cs)

\* The invariant of the walk: what is missing of the document is on the stack.
DocInv ==
  /\ DocTypes
  /\ ModulesInv(visited, Range(apiWork))
  /\ RoutesInv(apiPaths, visited, DOMAIN schemaNames, Range(apiWork))
  /\ SchemasInv(schemas, DOMAIN schemaNames, Range(apiWork))

\* The calls of one function.
Of(do, cs) == {c \in cs : c.do = do}

\* The calls of different functions differ.
LEMMA CallsDiffer ==
  /\ \A m : Api!WalkModule(m).do = "module" /\ Api!WalkModule(m).of = m
  /\ \A c : Api!WalkController(c).do = "controller" /\ Api!WalkController(c).of = c
  /\ \A c, r : Api!WalkRoute(c, r).do = "route" /\ Api!WalkRoute(c, r).in = c /\ Api!WalkRoute(c, r).of = r
  /\ \A c, r : Api!BuiltRoute(c, r).do = "path" /\ Api!BuiltRoute(c, r).in = c /\ Api!BuiltRoute(c, r).of = r
  /\ \A ss : Api!Register(ss).do = "register" /\ Api!Register(ss).left = ss
  /\ \A s, ps : Api!WalkSchema(s, ps).do = "schema" /\ Api!WalkSchema(s, ps).of = s /\ Api!WalkSchema(s, ps).left = ps
  BY DEF Api!WalkModule, Api!WalkController, Api!WalkRoute, Api!BuiltRoute, Api!Register, Api!WalkSchema

\* What a call is, by the function it calls.
LEMMA CallIs ==
  ASSUME NEW call \in ApiCall
  PROVE  /\ call.do = "module" => call.of \in DOMAIN Modules /\ call = Api!WalkModule(call.of)
         /\ call.do = "controller" => call.of \in DOMAIN Controllers /\ call = Api!WalkController(call.of)
         /\ call.do = "route" => call.in \in DOMAIN Controllers /\ call.of \in DOMAIN Routes /\ call = Api!WalkRoute(call.in, call.of)
         /\ call.do = "path" => call.in \in DOMAIN Controllers /\ call.of \in DOMAIN Routes /\ call = Api!BuiltRoute(call.in, call.of)
         /\ call.do = "register" => call.left \in SUBSET DOMAIN SchemaTable /\ call = Api!Register(call.left)
         /\ call.do = "schema" => call.of \in DOMAIN SchemaTable /\ call.left \in SUBSET FieldsOf(call.of)
                                    /\ call = Api!WalkSchema(call.of, call.left)
  <1>1. CASE \E m \in DOMAIN Modules : call = Api!WalkModule(m)
    BY <1>1, CallsDiffer
  <1>2. CASE \E c \in DOMAIN Controllers : call = Api!WalkController(c)
    BY <1>2, CallsDiffer
  <1>3. CASE \E c \in DOMAIN Controllers, r \in DOMAIN Routes : call = Api!WalkRoute(c, r)
    BY <1>3, CallsDiffer
  <1>4. CASE \E c \in DOMAIN Controllers, r \in DOMAIN Routes : call = Api!BuiltRoute(c, r)
    BY <1>4, CallsDiffer
  <1>5. CASE \E ss \in SUBSET DOMAIN SchemaTable : call = Api!Register(ss)
    BY <1>5, CallsDiffer
  <1>6. CASE \E s \in DOMAIN SchemaTable : \E ps \in SUBSET FieldsOf(s) : call = Api!WalkSchema(s, ps)
    BY <1>6, CallsDiffer
  <1>7. CASE call \in ModuleCalls
    BY <1>1, <1>2, <1>7 DEF ModuleCalls
  <1>8. CASE call \in RouteCalls
    BY <1>3, <1>4, <1>8 DEF RouteCalls
  <1>9. CASE call \in SchemaCalls
    BY <1>5, <1>6, <1>9 DEF SchemaCalls
  <1> QED
    BY <1>7, <1>8, <1>9 DEF ApiCall

\* Each part of the invariant depends on the calls of its own functions only.
LEMMA ModulesSame ==
  ASSUME NEW seen, NEW cs, NEW ds, ModulesInv(seen, cs), Of("module", ds) = Of("module", cs)
  PROVE  ModulesInv(seen, ds)
  <1>1. \A c : c.do = "module" => (c \in ds <=> c \in cs)
    BY DEF Of
  <1> QED
    BY <1>1, CallsDiffer DEF ModulesInv

LEMMA RoutesSame ==
  ASSUME NEW table, NEW seen, NEW names, NEW cs, NEW more, NEW ds, RoutesInv(table, seen, names, cs),
         Of("controller", ds) = Of("controller", cs), Of("route", ds) = Of("route", cs), Of("path", ds) = Of("path", cs),
         Named(names, cs) \subseteq Named(more, ds)
  PROVE  RoutesInv(table, seen, more, ds)
  <1>1. \A c : c.do \in {"controller", "route", "path"} => (c \in ds <=> c \in cs)
    BY DEF Of
  <1>2. \A m \in seen : \A c \in Range(Modules[m].controllers) :
       Api!WalkController(c) \in ds \/ \A r \in Range(Controllers[c].routes) : Due(c, r, table, ds)
    BY <1>1, CallsDiffer DEF RoutesInv, Due
  <1>3. /\ \A c \in ds : c.do = "controller" => c.of \in Mounted
        /\ \A c \in ds : c.do = "route" => c.in \in Mounted /\ c.of \in Range(Controllers[c.in].routes)
    BY <1>1 DEF RoutesInv
  <1>4. \A c \in ds : c.do = "path" => <<c.in, c.of>> \in Documented /\ Registers(c.of) \subseteq Named(more, ds)
    BY <1>1 DEF RoutesInv
  <1>5. \A k \in DOMAIN table : \E d \in Documented :
       k = Api!PathOf(d[1], d[2]) /\ table[k] = Api!Operation(d[1], d[2]) /\ Registers(d[2]) \subseteq Named(more, ds)
    BY DEF RoutesInv
  <1> QED
    BY <1>2, <1>3, <1>4, <1>5 DEF RoutesInv

LEMMA SchemasSame ==
  ASSUME NEW made, NEW names, NEW cs, NEW ds, SchemasInv(made, names, cs),
         Of("schema", ds) = Of("schema", cs), Named(names, cs) \subseteq Named(names, ds)
  PROVE  SchemasInv(made, names, ds)
  <1>1. \A c : c.do = "schema" => (c \in ds <=> c \in cs)
    BY DEF Of
  <1> QED
    BY <1>1 DEF SchemasInv

\* One step of the stack: its innermost call gives way to others.
LEMMA StackStep ==
  ASSUME apiWork \in Seq(ApiCall), apiWork # <<>>, NEW new \in Seq(ApiCall), NEW after, after = new \o Tail(apiWork)
  PROVE  /\ Head(apiWork) \in ApiCall
         /\ after \in Seq(ApiCall)
         /\ Range(apiWork) = {Head(apiWork)} \cup Range(Tail(apiWork))
         /\ Range(after) = Range(new) \cup Range(Tail(apiWork))
  <1>1. Head(apiWork) \in ApiCall /\ Tail(apiWork) \in Seq(ApiCall)
    BY HeadTailProperties
  <1>2. apiWork = <<Head(apiWork)>> \o Tail(apiWork) /\ <<Head(apiWork)>> \in Seq(ApiCall)
    BY <1>1
  <1>3. Range(<<Head(apiWork)>>) = {Head(apiWork)}
    BY DEF Range
  <1>4. Range(apiWork) = {Head(apiWork)} \cup Range(Tail(apiWork))
    <2>1. Range(<<Head(apiWork)>> \o Tail(apiWork)) = Range(<<Head(apiWork)>>) \cup Range(Tail(apiWork))
      BY <1>1, <1>2, RangeConcatenation
    <2> QED
      BY <1>2, <1>3, <2>1
  <1>5. after \in Seq(ApiCall)
    BY <1>1, ConcatProperties
  <1>6. Range(after) = Range(new) \cup Range(Tail(apiWork))
    BY <1>1, RangeConcatenation
  <1> QED
    BY <1>1, <1>4, <1>5, <1>6

\* The innermost call gives way to others: what that leaves alone.
LEMMA StackFrame ==
  ASSUME DocInv, apiWork # <<>>, NEW new \in Seq(ApiCall), NEW after, after = new \o Tail(apiWork)
  PROVE  LET call == Head(apiWork)
             rest == Range(Tail(apiWork)) IN
         /\ call \in ApiCall /\ after \in Seq(ApiCall)
         /\ Range(apiWork) = {call} \cup rest
         /\ Range(after) = Range(new) \cup rest
         /\ \A do : call.do # do /\ (\A c \in Range(new) : c.do # do) => Of(do, Range(after)) = Of(do, Range(apiWork))
         /\ \A names, more : names \subseteq more /\ (call.do = "register" => call.left \subseteq Named(more, Range(after)))
                               => Named(names, Range(apiWork)) \subseteq Named(more, Range(after))
  <1> DEFINE call == Head(apiWork)
             rest == Range(Tail(apiWork))
  <1>1. /\ call \in ApiCall /\ after \in Seq(ApiCall)
        /\ Range(apiWork) = {call} \cup rest
        /\ Range(after) = Range(new) \cup rest
    BY StackStep DEF DocInv, DocTypes
  <1> HIDE DEF call, rest
  <1>2. ASSUME NEW do, call.do # do, \A c \in Range(new) : c.do # do
        PROVE  Of(do, Range(after)) = Of(do, Range(apiWork))
    BY <1>1, <1>2 DEF Of
  <1>3. ASSUME NEW names, NEW more, names \subseteq more, call.do = "register" => call.left \subseteq Named(more, Range(after))
        PROVE  Named(names, Range(apiWork)) \subseteq Named(more, Range(after))
    BY <1>1, <1>3 DEF Named
  <1> QED
    BY <1>1, <1>2, <1>3 DEF call, rest

\* Imported is the root and all it imports, and nothing else.
LEMMA ImportedIsClosed ==
  /\ Root \in Imported /\ Imported \subseteq DOMAIN Modules
  /\ \A m \in Imported : Range(Modules[m].imports) \subseteq Imported
  /\ \A T : Root \in T /\ (\A m \in T : Range(Modules[m].imports) \subseteq T) => Imported \subseteq T
  <1> DEFINE behind == [m \in DOMAIN Modules |-> Range(Modules[m].imports)]
  <1>1. /\ IsFiniteSet(DOMAIN Modules) /\ {Root} \in SUBSET DOMAIN Modules
        /\ behind \in [DOMAIN Modules -> SUBSET DOMAIN Modules]
    BY ApplicationAssumption
  <1>2. Imported = Reachable({Root}, behind)
    BY DEF Imported
  <1> HIDE DEF behind
  <1>3. /\ {Root} \subseteq Imported /\ Imported \subseteq DOMAIN Modules
        /\ \A m \in Imported : behind[m] \subseteq Imported
        /\ \A T : {Root} \subseteq T /\ (\A m \in T : behind[m] \subseteq T) => Imported \subseteq T
    BY <1>1, <1>2, ReachesAll
  <1>4. ASSUME NEW T, Root \in T, \A m \in T : Range(Modules[m].imports) \subseteq T
        PROVE  Imported \subseteq T
    <2> DEFINE U == T \cap DOMAIN Modules
    <2>1. {Root} \subseteq U
      BY <1>1, <1>4
    <2>2. \A m \in U : behind[m] \subseteq U
      BY <1>1, <1>4 DEF behind
    <2> QED
      BY <1>3, <2>1, <2>2
  <1> QED
    BY <1>3, <1>4 DEF behind

\* A module is marked, and its controllers and imports wait.
LEMMA VisitModuleKeeps == ASSUME DocInv, Api!VisitModule PROVE DocInv'
  <1> DEFINE call == Head(apiWork)
             rest == Range(Tail(apiWork))
             earlier == Range(apiWork)
             later == Range(apiWork')
             names == DOMAIN schemaNames
             m == call.of
  <1>1. /\ apiWork \in Seq(ApiCall) /\ apiWork # <<>> /\ call.do = "module"
        /\ UNCHANGED <<apiPaths, schemas, schemaNames>>
    BY DEF DocInv, DocTypes, Api!VisitModule, Api!Doing
  <1>2. m \in DOMAIN Modules /\ call = Api!WalkModule(m) /\ m \in Imported
    <2>1. call \in ApiCall /\ call \in earlier
      BY <1>1, HeadTailProperties, EmptySeq, StackFrame, ElementOfSeq
    <2> QED
      BY <1>1, <2>1, CallIs DEF DocInv, ModulesInv
  <1>3. CASE m \in visited
    <2>1. visited' = visited /\ apiWork' = <<>> \o Tail(apiWork)
      <3>1. apiWork' = Tail(apiWork) /\ visited' = visited
        BY <1>3 DEF Api!VisitModule, Api!Top
      <3> QED
        BY <1>1, <3>1, HeadTailProperties, ConcatEmptySeq
    <2>2. /\ <<>> \in Seq(ApiCall) /\ Range(<<>>) = {}
      BY DEF Range
    <2>3. /\ apiWork' \in Seq(ApiCall) /\ earlier = {call} \cup rest /\ later = rest
          /\ \A do : do # "module" => Of(do, later) = Of(do, earlier)
          /\ Named(names, earlier) \subseteq Named(names, later)
      BY <1>1, <2>1, <2>2, StackFrame
    <2> HIDE DEF rest, earlier, later, names
    <2>4. DocTypes'
      BY <1>1, <2>1, <2>3 DEF DocInv, DocTypes
    <2>5. ModulesInv(visited, later)
      BY <1>2, <1>3, <2>3, CallsDiffer DEF DocInv, ModulesInv, earlier
    <2>6. RoutesInv(apiPaths, visited, names, later)
      BY <2>3, RoutesSame DEF DocInv, earlier, names
    <2>7. SchemasInv(schemas, names, later)
      BY <2>3, SchemasSame DEF DocInv, earlier, names
    <2> QED
      BY <1>1, <2>1, <2>4, <2>5, <2>6, <2>7 DEF DocInv, later, names
  <1>4. CASE m \notin visited
    <2> DEFINE controllers == [i \in DOMAIN Modules[m].controllers |-> Api!WalkController(Modules[m].controllers[i])]
               imports == [i \in DOMAIN Modules[m].imports |-> Api!WalkModule(Modules[m].imports[i])]
               both == controllers \o imports
               new == {Api!WalkController(c) : c \in Range(Modules[m].controllers)}
                        \cup {Api!WalkModule(i) : i \in Range(Modules[m].imports)}
    <2>1. visited' = visited \cup {m} /\ apiWork' = both \o Tail(apiWork)
      BY <1>4 DEF Api!VisitModule, Api!Top
    <2>2. controllers \in Seq(ApiCall) /\ Range(controllers) = {Api!WalkController(c) : c \in Range(Modules[m].controllers)}
      <3>1. Len(Modules[m].controllers) \in Nat /\ DOMAIN Modules[m].controllers = 1 .. Len(Modules[m].controllers)
        BY <1>2, ApplicationAssumption, LenProperties DEF IsSequence
      <3>2. \A i \in DOMAIN Modules[m].controllers : Api!WalkController(Modules[m].controllers[i]) \in ApiCall
        BY <1>2, ApplicationAssumption DEF Range, ApiCall, ModuleCalls
      <3>3. controllers \in Seq(ApiCall)
        BY <3>1, <3>2, SeqDef
      <3> QED
        BY <3>3 DEF Range
    <2>3. imports \in Seq(ApiCall) /\ Range(imports) = {Api!WalkModule(i) : i \in Range(Modules[m].imports)}
      <3>1. Len(Modules[m].imports) \in Nat /\ DOMAIN Modules[m].imports = 1 .. Len(Modules[m].imports)
        BY <1>2, ApplicationAssumption, LenProperties DEF IsSequence
      <3>2. \A i \in DOMAIN Modules[m].imports : Api!WalkModule(Modules[m].imports[i]) \in ApiCall
        BY <1>2, ApplicationAssumption DEF Range, ApiCall, ModuleCalls
      <3>3. imports \in Seq(ApiCall)
        BY <3>1, <3>2, SeqDef
      <3> QED
        BY <3>3 DEF Range
    <2>4. both \in Seq(ApiCall) /\ Range(both) = new
      <3> HIDE DEF controllers, imports
      <3>1. both \in Seq(ApiCall)
        BY <2>2, <2>3, ConcatProperties
      <3>2. Range(both) = Range(controllers) \cup Range(imports)
        BY <2>2, <2>3, RangeConcatenation
      <3> QED
        BY <2>2, <2>3, <3>1, <3>2
    <2> HIDE DEF controllers, imports, both
    <2>5. \A c \in new : c.do \in {"controller", "module"}
      BY CallsDiffer
    <2>6. /\ apiWork' \in Seq(ApiCall) /\ earlier = {call} \cup rest /\ later = new \cup rest
          /\ \A do : do \notin {"module", "controller"} => Of(do, later) = Of(do, earlier)
          /\ Named(names, earlier) \subseteq Named(names, later)
      <3> HIDE DEF new
      <3>1. DocInv /\ apiWork # <<>> /\ both \in Seq(ApiCall) /\ apiWork' = both \o Tail(apiWork)
        BY <1>1, <2>1, <2>4
      <3> QED
        BY <1>1, <2>4, <2>5, <3>1, StackFrame
    <2>7. \A c \in later : c \in earlier \/ c \in new
      BY <2>6
    <2>8. \A c \in earlier : c.do # "module" => c \in later
      BY <1>1, <2>6
    <2>9. \A c \in later : c.do \in {"route", "path"} => c \in earlier
      BY <2>5, <2>7
    <2>10. /\ \A c \in Range(Modules[m].controllers) : Api!WalkController(c) \in later
           /\ \A i \in Range(Modules[m].imports) : Api!WalkModule(i) \in later
      BY <2>6
    <2>11. DocTypes'
      BY <1>1, <1>2, <2>1, <2>6 DEF DocInv, DocTypes
    <2>12. /\ ModulesInv(visited, earlier) /\ RoutesInv(apiPaths, visited, names, earlier)
      BY DEF DocInv
    <2>13. \A c \in new : /\ c.do = "module" => c.of \in Imported
                          /\ c.do = "controller" => c.of \in Mounted
      BY <1>2, ImportedIsClosed, CallsDiffer DEF Mounted
    <2>14. earlier = {Api!WalkModule(m)} \cup rest /\ rest \subseteq later
      BY <1>2, <2>6
    <2> HIDE DEF rest, earlier, later, names, new
    <2>15. ModulesInv(visited \cup {m}, later)
      <3>1. Root \in visited \cup {m} \/ Api!WalkModule(Root) \in later
        BY <2>12, <2>14, CallsDiffer DEF ModulesInv
      <3>2. \A n \in visited \cup {m} : \A i \in Range(Modules[n].imports) : i \in visited \cup {m} \/ Api!WalkModule(i) \in later
        BY <2>10, <2>12, <2>14, CallsDiffer DEF ModulesInv
      <3>3. visited \cup {m} \subseteq Imported
        BY <1>2, <2>12 DEF ModulesInv
      <3>4. \A c \in later : c.do = "module" => c.of \in Imported
        BY <2>7, <2>12, <2>13 DEF ModulesInv
      <3> QED
        BY <3>1, <3>2, <3>3, <3>4 DEF ModulesInv
    <2>16. RoutesInv(apiPaths, visited \cup {m}, names, later)
      <3>1. \A n \in visited \cup {m} : \A c \in Range(Modules[n].controllers) :
              Api!WalkController(c) \in later \/ \A r \in Range(Controllers[c].routes) : Due(c, r, apiPaths, later)
        BY <2>8, <2>10, <2>12, CallsDiffer DEF RoutesInv, Due
      <3>2. \A c \in later : c.do = "controller" => c.of \in Mounted
        BY <2>7, <2>12, <2>13 DEF RoutesInv
      <3>3. /\ \A c \in later : c.do = "route" => c.in \in Mounted /\ c.of \in Range(Controllers[c.in].routes)
            /\ \A c \in later : c.do = "path" => <<c.in, c.of>> \in Documented /\ Registers(c.of) \subseteq Named(names, later)
        BY <2>6, <2>9, <2>12 DEF RoutesInv
      <3>4. \A k \in DOMAIN apiPaths : \E d \in Documented :
              /\ k = Api!PathOf(d[1], d[2]) /\ apiPaths[k] = Api!Operation(d[1], d[2])
              /\ Registers(d[2]) \subseteq Named(names, later)
        BY <2>6, <2>12 DEF RoutesInv
      <3> QED
        BY <3>1, <3>2, <3>3, <3>4 DEF RoutesInv
    <2>17. SchemasInv(schemas, names, later)
      BY <2>6, SchemasSame DEF DocInv, earlier, names
    <2> QED
      BY <1>1, <2>1, <2>11, <2>15, <2>16, <2>17 DEF DocInv, later, names
  <1> QED
    BY <1>3, <1>4

\* The call at the head is one of those the invariant speaks of.
LEMMA HeadCall ==
  ASSUME DocInv, apiWork # <<>>
  PROVE  Head(apiWork) \in ApiCall /\ Head(apiWork) \in Range(apiWork)
  BY StackFrame, EmptySeq DEF DocInv, DocTypes

\* A controller leaves its routes on the stack.
LEMMA VisitControllerKeeps == ASSUME DocInv, Api!VisitController PROVE DocInv'
  <1> DEFINE call == Head(apiWork)
             rest == Range(Tail(apiWork))
             earlier == Range(apiWork)
             later == Range(apiWork')
             names == DOMAIN schemaNames
             c == call.of
             routes == Controllers[c].routes
             calling == [i \in DOMAIN routes |-> Api!WalkRoute(c, routes[i])]
             new == {Api!WalkRoute(c, r) : r \in Range(routes)}
  <1>1. /\ apiWork # <<>> /\ call.do = "controller"
        /\ UNCHANGED <<apiPaths, schemas, schemaNames, visited>>
        /\ apiWork' = calling \o Tail(apiWork)
    BY DEF Api!VisitController, Api!Doing, Api!Top
  <1>2. c \in DOMAIN Controllers /\ call = Api!WalkController(c) /\ c \in Mounted
    BY <1>1, HeadCall, CallIs DEF DocInv, RoutesInv
  <1>3. calling \in Seq(ApiCall) /\ Range(calling) = new
    <2>1. Len(routes) \in Nat /\ DOMAIN routes = 1 .. Len(routes)
      BY <1>2, ApplicationAssumption, LenProperties DEF IsSequence
    <2>2. \A i \in DOMAIN routes : Api!WalkRoute(c, routes[i]) \in ApiCall
      BY <1>2, ApplicationAssumption DEF Range, ApiCall, RouteCalls
    <2>3. calling \in Seq(ApiCall)
      BY <2>1, <2>2, SeqDef
    <2> QED
      BY <2>3 DEF Range
  <1>4. \A d \in new : d.do = "route" /\ d.in \in Mounted /\ d.of \in Range(Controllers[d.in].routes)
    BY <1>2, CallsDiffer
  <1> HIDE DEF calling
  <1>5. /\ apiWork' \in Seq(ApiCall) /\ earlier = {call} \cup rest /\ later = new \cup rest
        /\ \A do : do \notin {"controller", "route"} => Of(do, later) = Of(do, earlier)
        /\ Named(names, earlier) \subseteq Named(names, later)
    <2> HIDE DEF new
    <2> QED
      BY <1>1, <1>3, <1>4, StackFrame
  <1>6. \A r \in Range(routes) : Api!WalkRoute(c, r) \in later
    BY <1>5
  <1>7. RoutesInv(apiPaths, visited, names, earlier)
    BY DEF DocInv
  <1>8. earlier = {Api!WalkController(c)} \cup rest /\ rest \subseteq later /\ \A d \in later : d \in earlier \/ d \in new
    BY <1>2, <1>5
  <1> HIDE DEF rest, earlier, later, names, new, routes
  <1>9. DocTypes'
    BY <1>1, <1>5 DEF DocInv, DocTypes
  <1>10. ModulesInv(visited, later)
    BY <1>5, ModulesSame DEF DocInv, earlier
  <1>11. SchemasInv(schemas, names, later)
    BY <1>5, SchemasSame DEF DocInv, earlier, names
  <1>12. RoutesInv(apiPaths, visited, names, later)
    <2>1. ASSUME NEW m \in visited, NEW d \in Range(Modules[m].controllers)
          PROVE  Api!WalkController(d) \in later \/ \A r \in Range(Controllers[d].routes) : Due(d, r, apiPaths, later)
      <3>1. CASE d = c
        BY <1>6, <3>1 DEF Due, routes
      <3>2. CASE d # c
        <4>1. \A e \in earlier : e.do = "controller" /\ e.of = d => e \in later
          BY <1>8, <3>2, CallsDiffer
        <4>2. \A e \in earlier : e.do \in {"route", "path"} => e \in later
          BY <1>8, CallsDiffer
        <4> QED
          BY <1>7, <4>1, <4>2, CallsDiffer DEF RoutesInv, Due
      <3> QED
        BY <3>1, <3>2
    <2>2. /\ \A d \in later : d.do = "controller" => d.of \in Mounted
          /\ \A d \in later : d.do = "route" => d.in \in Mounted /\ d.of \in Range(Controllers[d.in].routes)
          /\ \A d \in later : d.do = "path" => d \in earlier
      BY <1>4, <1>7, <1>8 DEF RoutesInv
    <2>3. \A d \in later : d.do = "path" => <<d.in, d.of>> \in Documented /\ Registers(d.of) \subseteq Named(names, later)
      BY <1>5, <1>7, <2>2 DEF RoutesInv
    <2>4. \A k \in DOMAIN apiPaths : \E d \in Documented :
            /\ k = Api!PathOf(d[1], d[2]) /\ apiPaths[k] = Api!Operation(d[1], d[2])
            /\ Registers(d[2]) \subseteq Named(names, later)
      BY <1>5, <1>7 DEF RoutesInv
    <2> QED
      BY <2>1, <2>2, <2>3, <2>4 DEF RoutesInv
  <1> QED
    BY <1>1, <1>9, <1>10, <1>11, <1>12 DEF DocInv, later, names

\* An instance's ranges are the same.
LEMMA SameRange == \A f : Api!Range(f) = Range(f) /\ Gql!Range(f) = Range(f)
  BY DEF Api!Range, Gql!Range, Range

\* The schemas a route registers are schemas of the table.
LEMMA RegistersSchemas ==
  ASSUME NEW r \in DOMAIN Routes
  PROVE  /\ Len(Api!Registering(r)) = 4 /\ DOMAIN Api!Registering(r) = 1 .. 4
         /\ \A i \in 1 .. 4 : Api!Registering(r)[i] \in SUBSET DOMAIN SchemaTable
         /\ Registers(r) = UNION {Api!Registering(r)[i] : i \in 1 .. 4}
  <1> DEFINE route == Routes[r]
  <1>1. /\ route.params \cup route.query \cup route.form \cup route.body \subseteq DOMAIN SchemaTable
        /\ UNION Range(route.responses) \subseteq DOMAIN SchemaTable /\ ExceptionSchema \in DOMAIN SchemaTable
    BY ApplicationAssumption
  <1>2. \A given \in SUBSET DOMAIN SchemaTable : Api!ReferredIn(given) \subseteq DOMAIN SchemaTable
    <2>1. ASSUME NEW given \in SUBSET DOMAIN SchemaTable, NEW s \in given, NEW p \in Api!Range(SchemaTable[s].fields)
          PROVE  Api!Referred(p) \subseteq DOMAIN SchemaTable
      BY SameRange, NamesAreReferred DEF FieldsOf
    <2> QED
      BY <2>1 DEF Api!ReferredIn
  <1>3. UNION Range(Api!ResponseSchemas(r)) \subseteq DOMAIN SchemaTable
    <2>1. CASE route.responses = <<>>
      BY <2>1 DEF Api!ResponseSchemas, Range
    <2>2. CASE route.responses # <<>>
      <3>1. \A status \in DOMAIN route.responses : route.responses[status] \subseteq DOMAIN SchemaTable
        BY <1>1 DEF Range
      <3> QED
        BY <1>1, <2>2, <3>1 DEF Api!ResponseSchemas, Range
    <2> QED
      BY <2>1, <2>2
  <1>4. Api!Registering(r) = << Api!ReferredIn(route.params), Api!ReferredIn(route.query),
                                IF route.form # {} THEN Api!ReferredIn(route.form) ELSE route.body,
                                UNION Range(Api!ResponseSchemas(r)) >>
    BY SameRange DEF Api!Registering
  <1>5. /\ Api!Registering(r)[1] \subseteq DOMAIN SchemaTable /\ Api!Registering(r)[2] \subseteq DOMAIN SchemaTable
        /\ Api!Registering(r)[3] \subseteq DOMAIN SchemaTable /\ Api!Registering(r)[4] \subseteq DOMAIN SchemaTable
    BY <1>1, <1>2, <1>3, <1>4
  <1>6. Len(Api!Registering(r)) = 4 /\ DOMAIN Api!Registering(r) = 1 .. 4
    BY <1>4
  <1>7. \A i \in 1 .. 4 : i = 1 \/ i = 2 \/ i = 3 \/ i = 4
    OBVIOUS
  <1> QED
    BY <1>5, <1>6, <1>7 DEF Registers, Range

\* What waits to be documented.
LEMMA DueStays ==
  ASSUME NEW c, NEW r, NEW table, NEW more, NEW cs, NEW ds, Due(c, r, table, cs), DOMAIN table \subseteq DOMAIN more,
         Api!WalkRoute(c, r) \in cs => Routes[r].excluded \/ Api!WalkRoute(c, r) \in ds \/ Api!BuiltRoute(c, r) \in ds,
         Api!BuiltRoute(c, r) \in cs => Api!BuiltRoute(c, r) \in ds \/ Api!PathOf(c, r) \in DOMAIN more
  PROVE  Due(c, r, more, ds)
  BY DEF Due

\* A route leaves the schemas it registers on the stack, and behind them itself.
LEMMA VisitRouteKeeps == ASSUME DocInv, Api!VisitRoute PROVE DocInv'
  <1> DEFINE call == Head(apiWork)
             rest == Range(Tail(apiWork))
             earlier == Range(apiWork)
             later == Range(apiWork')
             names == DOMAIN schemaNames
             c == call.in
             r == call.of
             parts == Api!Registering(r)
             registering == [i \in DOMAIN parts |-> Api!Register(parts[i])]
             calling == registering \o <<Api!BuiltRoute(c, r)>>
             new == {Api!Register(parts[i]) : i \in 1 .. 4} \cup {Api!BuiltRoute(c, r)}
  <1>1. /\ apiWork # <<>> /\ call.do = "route"
        /\ UNCHANGED <<apiPaths, schemas, schemaNames, visited>>
        /\ apiWork' = IF Routes[r].excluded THEN Tail(apiWork) ELSE calling \o Tail(apiWork)
    BY DEF Api!VisitRoute, Api!Doing, Api!Top
  <1>2. /\ c \in DOMAIN Controllers /\ r \in DOMAIN Routes /\ call = Api!WalkRoute(c, r)
        /\ c \in Mounted /\ r \in Range(Controllers[c].routes)
    BY <1>1, HeadCall, CallIs DEF DocInv, RoutesInv
  <1>3. /\ apiWork \in Seq(ApiCall)
        /\ RoutesInv(apiPaths, visited, names, earlier) /\ SchemasInv(schemas, names, earlier) /\ ModulesInv(visited, earlier)
    BY DEF DocInv, DocTypes
  <1>4. CASE Routes[r].excluded
    <2>1. apiWork' = <<>> \o Tail(apiWork) /\ <<>> \in Seq(ApiCall) /\ Range(<<>>) = {}
      <3>1. apiWork' = Tail(apiWork)
        BY <1>1, <1>4
      <3> QED
        BY <1>1, <1>3, <3>1, HeadTailProperties, ConcatEmptySeq DEF Range
    <2>2. /\ apiWork' \in Seq(ApiCall) /\ earlier = {call} \cup rest /\ later = rest
          /\ \A do : do # "route" => Of(do, later) = Of(do, earlier)
          /\ Named(names, earlier) \subseteq Named(names, later)
      BY <1>1, <2>1, StackFrame
    <2>3. earlier = {Api!WalkRoute(c, r)} \cup rest /\ rest = later
      BY <1>2, <2>2
    <2> HIDE DEF rest, earlier, later, names, c, r
    <2>4. DocTypes'
      BY <1>1, <2>2 DEF DocInv, DocTypes
    <2>5. ModulesInv(visited, later) /\ SchemasInv(schemas, names, later)
      BY <1>3, <2>2, ModulesSame, SchemasSame
    <2>6. RoutesInv(apiPaths, visited, names, later)
      <3>1. ASSUME NEW m \in visited, NEW d \in Range(Modules[m].controllers)
            PROVE  Api!WalkController(d) \in later \/ \A x \in Range(Controllers[d].routes) : Due(d, x, apiPaths, later)
        <4>1. \A x : Api!WalkRoute(d, x) \in earlier => Routes[x].excluded \/ Api!WalkRoute(d, x) \in later
          BY <1>4, <2>3, CallsDiffer
        <4>2. \A x : Api!BuiltRoute(d, x) \in earlier => Api!BuiltRoute(d, x) \in later
          BY <2>3, CallsDiffer
        <4>3. Api!WalkController(d) \in earlier => Api!WalkController(d) \in later
          BY <2>3, CallsDiffer
        <4> QED
          BY <1>3, <4>1, <4>2, <4>3, DueStays DEF RoutesInv
      <3>2. \A x \in later : x \in earlier
        BY <2>3
      <3>3. /\ \A d \in later : d.do = "controller" => d.of \in Mounted
            /\ \A d \in later : d.do = "route" => d.in \in Mounted /\ d.of \in Range(Controllers[d.in].routes)
            /\ \A d \in later : d.do = "path" => <<d.in, d.of>> \in Documented /\ Registers(d.of) \subseteq Named(names, later)
        BY <1>3, <2>2, <3>2 DEF RoutesInv
      <3>4. \A k \in DOMAIN apiPaths : \E d \in Documented :
              /\ k = Api!PathOf(d[1], d[2]) /\ apiPaths[k] = Api!Operation(d[1], d[2])
              /\ Registers(d[2]) \subseteq Named(names, later)
        BY <1>3, <2>2 DEF RoutesInv
      <3> QED
        BY <3>1, <3>3, <3>4 DEF RoutesInv
    <2> QED
      BY <1>1, <2>4, <2>5, <2>6 DEF DocInv, later, names
  <1>5. CASE ~Routes[r].excluded
    <2>1. /\ DOMAIN parts = 1 .. 4 /\ \A i \in 1 .. 4 : parts[i] \in SUBSET DOMAIN SchemaTable
          /\ Registers(r) = UNION {parts[i] : i \in 1 .. 4}
      BY <1>2, RegistersSchemas
    <2>2. calling \in Seq(ApiCall) /\ Range(calling) = new
      <3> HIDE DEF parts
      <3>1. \A i \in 1 .. 4 : Api!Register(parts[i]) \in ApiCall
        BY <2>1 DEF ApiCall, SchemaCalls
      <3>2. Api!BuiltRoute(c, r) \in ApiCall
        BY <1>2 DEF ApiCall, RouteCalls
      <3>3. registering \in Seq(ApiCall) /\ Range(registering) = {Api!Register(parts[i]) : i \in 1 .. 4}
        BY <2>1, <3>1, SeqDef DEF Range
      <3>4. <<Api!BuiltRoute(c, r)>> \in Seq(ApiCall) /\ Range(<<Api!BuiltRoute(c, r)>>) = {Api!BuiltRoute(c, r)}
        BY <3>2 DEF Range
      <3> HIDE DEF registering
      <3> DEFINE built == <<Api!BuiltRoute(c, r)>>
      <3>5. built \in Seq(ApiCall) /\ Range(built) = {Api!BuiltRoute(c, r)}
        BY <3>4
      <3> HIDE DEF built
      <3>6. registering \o built \in Seq(ApiCall) /\ Range(registering \o built) = Range(registering) \cup Range(built)
        BY <3>3, <3>5, ConcatProperties, RangeConcatenation
      <3> QED
        BY <3>3, <3>5, <3>6 DEF built
    <2> HIDE DEF calling
    <2>3. apiWork' = calling \o Tail(apiWork)
      BY <1>1, <1>5
    <2>4. \A d \in new : d.do \in {"register", "path"} /\ (d.do = "path" => d = Api!BuiltRoute(c, r))
      BY CallsDiffer
    <2>5. /\ apiWork' \in Seq(ApiCall) /\ earlier = {call} \cup rest /\ later = new \cup rest
          /\ \A do : do \notin {"register", "route", "path"} => Of(do, later) = Of(do, earlier)
          /\ Named(names, earlier) \subseteq Named(names, later)
      <3> HIDE DEF new
      <3> QED
        BY <1>1, <2>2, <2>3, <2>4, StackFrame
    <2>6. Registers(r) \subseteq Named(names, later)
      <3> HIDE DEF parts
      <3>1. \A i \in 1 .. 4 : Api!Register(parts[i]) \in later
        BY <2>5
      <3> QED
        BY <2>1, <3>1, CallsDiffer DEF Named
    <2>7. <<c, r>> \in Documented
      BY <1>2, <1>5 DEF Documented, Mounted
    <2>8. /\ earlier = {Api!WalkRoute(c, r)} \cup rest /\ rest \subseteq later /\ Api!BuiltRoute(c, r) \in later
          /\ \A d \in later : d \in earlier \/ d \in new
      BY <1>2, <2>5
    <2> HIDE DEF rest, earlier, later, names, new, parts, c, r
    <2>9. DocTypes'
      BY <1>1, <2>5 DEF DocInv, DocTypes
    <2>10. ModulesInv(visited, later) /\ SchemasInv(schemas, names, later)
      BY <1>3, <2>5, ModulesSame, SchemasSame
    <2>11. RoutesInv(apiPaths, visited, names, later)
      <3>1. ASSUME NEW m \in visited, NEW d \in Range(Modules[m].controllers)
            PROVE  Api!WalkController(d) \in later \/ \A x \in Range(Controllers[d].routes) : Due(d, x, apiPaths, later)
        <4>1. \A x : Api!WalkRoute(d, x) \in earlier => Api!WalkRoute(d, x) \in later \/ Api!BuiltRoute(d, x) \in later
          <5>1. \A x : Api!WalkRoute(d, x) = Api!WalkRoute(c, r) => d = c /\ x = r
            BY CallsDiffer
          <5> QED
            BY <2>8, <5>1
        <4>2. \A x : Api!BuiltRoute(d, x) \in earlier => Api!BuiltRoute(d, x) \in later
          BY <2>8, CallsDiffer
        <4>3. Api!WalkController(d) \in earlier => Api!WalkController(d) \in later
          BY <2>8, CallsDiffer
        <4> QED
          BY <1>3, <4>1, <4>2, <4>3, DueStays DEF RoutesInv
      <3>2. /\ \A d \in later : d.do = "controller" => d.of \in Mounted
            /\ \A d \in later : d.do = "route" => d.in \in Mounted /\ d.of \in Range(Controllers[d.in].routes)
        BY <1>3, <2>4, <2>8 DEF RoutesInv
      <3>3. \A d \in later : d.do = "path" => <<d.in, d.of>> \in Documented /\ Registers(d.of) \subseteq Named(names, later)
        <4>1. ASSUME NEW d \in later, d.do = "path" PROVE d \in earlier \/ (d.in = c /\ d.of = r)
          BY <2>4, <2>8, <4>1, CallsDiffer
        <4> QED
          BY <1>3, <2>5, <2>6, <2>7, <4>1 DEF RoutesInv
      <3>4. \A k \in DOMAIN apiPaths : \E d \in Documented :
              /\ k = Api!PathOf(d[1], d[2]) /\ apiPaths[k] = Api!Operation(d[1], d[2])
              /\ Registers(d[2]) \subseteq Named(names, later)
        BY <1>3, <2>5 DEF RoutesInv
      <3> QED
        BY <3>1, <3>2, <3>3, <3>4 DEF RoutesInv
    <2> QED
      BY <1>1, <2>9, <2>10, <2>11 DEF DocInv, later, names
  <1> QED
    BY <1>4, <1>5

\* A call that returns.
LEMMA Returns ==
  ASSUME DocInv, apiWork # <<>>, NEW after, after = Tail(apiWork)
  PROVE  /\ after \in Seq(ApiCall)
         /\ Range(apiWork) = {Head(apiWork)} \cup Range(after)
         /\ \A do : Head(apiWork).do # do => Of(do, Range(after)) = Of(do, Range(apiWork))
         /\ \A names, more : names \subseteq more /\ (Head(apiWork).do = "register" => Head(apiWork).left = {})
                               => Named(names, Range(apiWork)) \subseteq Named(more, Range(after))
  <1>1. after = <<>> \o Tail(apiWork) /\ <<>> \in Seq(ApiCall) /\ Range(<<>>) = {}
    BY HeadTailProperties, ConcatEmptySeq DEF Range, DocInv, DocTypes
  <1> QED
    BY <1>1, StackFrame

\* The operation of a route is written down.
LEMMA SetPathKeeps == ASSUME DocInv, Api!SetPath PROVE DocInv'
  <1> DEFINE call == Head(apiWork)
             earlier == Range(apiWork)
             later == Range(apiWork')
             names == DOMAIN schemaNames
             c == call.in
             r == call.of
  <1>1. /\ apiWork # <<>> /\ call.do = "path" /\ apiWork' = Tail(apiWork)
        /\ UNCHANGED <<schemas, schemaNames, visited>>
        /\ apiPaths' = Put(apiPaths, Api!PathOf(c, r), Api!Operation(c, r))
    BY DEF Api!SetPath, Api!Doing, Api!Top, Put, Api!Put
  <1>2. /\ RoutesInv(apiPaths, visited, names, earlier) /\ SchemasInv(schemas, names, earlier) /\ ModulesInv(visited, earlier)
        /\ call \in earlier /\ call = Api!BuiltRoute(c, r)
    BY <1>1, HeadCall, CallIs DEF DocInv, DocTypes
  <1>3. <<c, r>> \in Documented /\ Registers(r) \subseteq Named(names, earlier)
    BY <1>1, <1>2 DEF RoutesInv
  <1>4. /\ apiWork' \in Seq(ApiCall) /\ earlier = {Api!BuiltRoute(c, r)} \cup later
        /\ \A do : do # "path" => Of(do, later) = Of(do, earlier)
        /\ Named(names, earlier) \subseteq Named(names, later)
    BY <1>1, <1>2, Returns
  <1> HIDE DEF earlier, later, names, c, r
  <1>5. DocTypes'
    BY <1>1, <1>4 DEF DocInv, DocTypes
  <1>6. ModulesInv(visited, later) /\ SchemasInv(schemas, names, later)
    BY <1>2, <1>4, ModulesSame, SchemasSame
  <1>7. RoutesInv(apiPaths', visited, names, later)
    <2>1. /\ DOMAIN apiPaths' = DOMAIN apiPaths \cup {Api!PathOf(c, r)}
          /\ apiPaths'[Api!PathOf(c, r)] = Api!Operation(c, r)
          /\ \A k \in DOMAIN apiPaths \ {Api!PathOf(c, r)} : apiPaths'[k] = apiPaths[k]
      BY <1>1 DEF Put
    <2>2. ASSUME NEW m \in visited, NEW d \in Range(Modules[m].controllers)
          PROVE  Api!WalkController(d) \in later \/ \A x \in Range(Controllers[d].routes) : Due(d, x, apiPaths', later)
      <3>1. \A x : Api!WalkRoute(d, x) \in earlier => Api!WalkRoute(d, x) \in later
        BY <1>4, CallsDiffer
      <3>2. \A x : Api!BuiltRoute(d, x) \in earlier => Api!BuiltRoute(d, x) \in later \/ Api!PathOf(d, x) \in DOMAIN apiPaths'
        <4>1. \A x : Api!BuiltRoute(d, x) = Api!BuiltRoute(c, r) => d = c /\ x = r
          BY CallsDiffer
        <4> QED
          BY <1>4, <2>1, <4>1
      <3>3. Api!WalkController(d) \in earlier => Api!WalkController(d) \in later
        BY <1>4, CallsDiffer
      <3>4. DOMAIN apiPaths \subseteq DOMAIN apiPaths'
        BY <2>1
      <3> QED
        BY <1>2, <3>1, <3>2, <3>3, <3>4, DueStays DEF RoutesInv
    <2>3. \A x \in later : x \in earlier
      BY <1>4
    <2>4. /\ \A d \in later : d.do = "controller" => d.of \in Mounted
          /\ \A d \in later : d.do = "route" => d.in \in Mounted /\ d.of \in Range(Controllers[d.in].routes)
          /\ \A d \in later : d.do = "path" => <<d.in, d.of>> \in Documented /\ Registers(d.of) \subseteq Named(names, later)
      BY <1>2, <1>4, <2>3 DEF RoutesInv
    <2>5. ASSUME NEW k \in DOMAIN apiPaths'
          PROVE  \E d \in Documented :
            /\ k = Api!PathOf(d[1], d[2]) /\ apiPaths'[k] = Api!Operation(d[1], d[2])
            /\ Registers(d[2]) \subseteq Named(names, later)
      <3>1. CASE k = Api!PathOf(c, r)
        <4>1. <<c, r>>[1] = c /\ <<c, r>>[2] = r
          OBVIOUS
        <4> QED
          BY <1>3, <1>4, <2>1, <3>1, <4>1
      <3>2. CASE k # Api!PathOf(c, r)
        <4>1. k \in DOMAIN apiPaths /\ apiPaths'[k] = apiPaths[k]
          BY <2>1, <3>2
        <4>2. PICK d \in Documented : k = Api!PathOf(d[1], d[2]) /\ apiPaths[k] = Api!Operation(d[1], d[2])
                                         /\ Registers(d[2]) \subseteq Named(names, earlier)
          BY <1>2, <4>1 DEF RoutesInv
        <4> QED
          BY <1>4, <4>1, <4>2
      <3> QED
        BY <3>1, <3>2
    <2> QED
      BY <2>2, <2>4, <2>5 DEF RoutesInv
  <1> QED
    BY <1>1, <1>5, <1>6, <1>7 DEF DocInv, later, names

\* A call of registerSchema that has nothing left to register returns.
LEMMA RegisteredKeeps == ASSUME DocInv, Api!Registered PROVE DocInv'
  <1> DEFINE earlier == Range(apiWork)
             later == Range(apiWork')
             names == DOMAIN schemaNames
  <1>1. /\ apiWork # <<>> /\ Head(apiWork).do = "register" /\ Head(apiWork).left = {} /\ apiWork' = Tail(apiWork)
        /\ UNCHANGED <<apiPaths, schemas, schemaNames, visited>>
    BY DEF Api!Registered, Api!Doing, Api!Top
  <1>2. /\ RoutesInv(apiPaths, visited, names, earlier) /\ SchemasInv(schemas, names, earlier) /\ ModulesInv(visited, earlier)
    BY DEF DocInv
  <1>3. /\ apiWork' \in Seq(ApiCall)
        /\ \A do : do # "register" => Of(do, later) = Of(do, earlier)
        /\ Named(names, earlier) \subseteq Named(names, later)
    BY <1>1, Returns
  <1> HIDE DEF earlier, later, names
  <1>4. DocTypes'
    BY <1>1, <1>3 DEF DocInv, DocTypes
  <1>5. /\ RoutesInv(apiPaths, visited, names, later) /\ SchemasInv(schemas, names, later) /\ ModulesInv(visited, later)
    BY <1>2, <1>3, ModulesSame, RoutesSame, SchemasSame
  <1> QED
    BY <1>1, <1>4, <1>5 DEF DocInv, later, names

\* A schema whose properties are all walked is written down.
LEMMA SetSchemaKeeps == ASSUME DocInv, Api!SetSchema PROVE DocInv'
  <1> DEFINE call == Head(apiWork)
             earlier == Range(apiWork)
             later == Range(apiWork')
             names == DOMAIN schemaNames
             s == call.of
  <1>1. /\ apiWork # <<>> /\ call.do = "schema" /\ call.left = {} /\ apiWork' = Tail(apiWork)
        /\ UNCHANGED <<apiPaths, schemaNames, visited>>
        /\ schemas' = Put(schemas, schemaNames[s], Api!ObjectSchema(s, "json"))
    BY DEF Api!SetSchema, Api!Doing, Api!Top, Put, Api!Put
  <1>2. /\ RoutesInv(apiPaths, visited, names, earlier) /\ SchemasInv(schemas, names, earlier) /\ ModulesInv(visited, earlier)
        /\ call \in earlier /\ call.left = {}
    BY <1>1, HeadCall DEF DocInv
  <1>3. s \in names /\ \A p \in FieldsOf(s) : Api!Referred(p) \subseteq Named(names, earlier)
    BY <1>1, <1>2 DEF SchemasInv
  <1>4. schemaNames[s] = Api!NameOf(s)
    BY <1>3 DEF DocInv, DocTypes
  <1>5. /\ apiWork' \in Seq(ApiCall) /\ earlier = {call} \cup later
        /\ \A do : do # "schema" => Of(do, later) = Of(do, earlier)
        /\ Named(names, earlier) \subseteq Named(names, later)
    BY <1>1, Returns
  <1> HIDE DEF earlier, later, names, s
  <1>6. DocTypes'
    BY <1>1, <1>5 DEF DocInv, DocTypes
  <1>7. RoutesInv(apiPaths, visited, names, later) /\ ModulesInv(visited, later)
    BY <1>2, <1>5, ModulesSame, RoutesSame
  <1>8. SchemasInv(schemas', names, later)
    <2>1. /\ DOMAIN schemas' = DOMAIN schemas \cup {Api!NameOf(s)}
          /\ schemas'[Api!NameOf(s)] = Api!ObjectSchema(s, "json")
          /\ \A n \in DOMAIN schemas \ {Api!NameOf(s)} : schemas'[n] = schemas[n]
      BY <1>1, <1>4 DEF Put
    <2>2. ASSUME NEW t \in names
          PROVE  Api!NameOf(t) \in DOMAIN schemas' \/ \E d \in later : d.do = "schema" /\ d.of = t
      <3>1. CASE t = s
        BY <2>1, <3>1
      <3>2. CASE t # s
        BY <1>2, <1>5, <2>1, <3>2 DEF SchemasInv, s
      <3> QED
        BY <3>1, <3>2
    <2>3. ASSUME NEW n \in DOMAIN schemas'
          PROVE  \E t \in names : /\ Api!NameOf(t) = n /\ schemas'[n] = Api!ObjectSchema(t, "json")
                                  /\ \A p \in FieldsOf(t) : Api!Referred(p) \subseteq Named(names, later)
      <3>1. CASE n = Api!NameOf(s)
        BY <1>3, <1>5, <2>1, <3>1
      <3>2. CASE n # Api!NameOf(s)
        BY <1>2, <1>5, <2>1, <3>2 DEF SchemasInv
      <3> QED
        BY <3>1, <3>2
    <2>4. ASSUME NEW d \in later, d.do = "schema"
          PROVE  d.of \in names /\ \A p \in FieldsOf(d.of) \ d.left : Api!Referred(p) \subseteq Named(names, later)
      BY <1>2, <1>5, <2>4 DEF SchemasInv
    <2> QED
      BY <2>2, <2>3, <2>4 DEF SchemasInv
  <1> QED
    BY <1>1, <1>6, <1>7, <1>8 DEF DocInv, later, names

\* A schema gets its name, and its properties wait unless it had one.
LEMMA registerSchemaKeeps == ASSUME DocInv, Api!registerSchema PROVE DocInv'
  <1> DEFINE call == Head(apiWork)
             rest == Range(Tail(apiWork))
             earlier == Range(apiWork)
             later == Range(apiWork')
             names == DOMAIN schemaNames
  <1>1. /\ apiWork # <<>> /\ call.do = "register"
        /\ UNCHANGED <<apiPaths, schemas, visited>>
    BY DEF Api!registerSchema, Api!Doing
  <1>2. PICK s \in call.left :
          IF s \in DOMAIN schemaNames
            THEN apiWork' = <<Api!Register(call.left \ {s})>> \o Tail(apiWork) /\ schemaNames' = schemaNames
            ELSE /\ schemaNames' = Put(schemaNames, s, Api!NameOf(s))
                 /\ apiWork' = <<Api!WalkSchema(s, FieldsOf(s))>> \o (<<Api!Register(call.left \ {s})>> \o Tail(apiWork))
    BY SameRange DEF Api!registerSchema, Api!Top, Put, Api!Put, FieldsOf
  <1> DEFINE again == Api!Register(call.left \ {s})
  <1>3. /\ call.left \in SUBSET DOMAIN SchemaTable /\ s \in DOMAIN SchemaTable
        /\ apiWork \in Seq(ApiCall)
        /\ RoutesInv(apiPaths, visited, names, earlier) /\ SchemasInv(schemas, names, earlier) /\ ModulesInv(visited, earlier)
    BY <1>1, HeadCall, CallIs DEF DocInv, DocTypes
  <1>4. again \in ApiCall /\ again.do = "register" /\ again.left = call.left \ {s}
    BY <1>3, CallsDiffer DEF ApiCall, SchemaCalls
  <1>5. CASE s \in names
    <2> DEFINE new == <<again>>
    <2>1. new \in Seq(ApiCall) /\ Range(new) = {again} /\ apiWork' = new \o Tail(apiWork)
      <3>1. apiWork' = new \o Tail(apiWork)
        BY <1>2, <1>5
      <3> HIDE DEF again
      <3>2. new \in Seq(ApiCall) /\ Range(new) = {again}
        BY <1>4 DEF Range
      <3> QED
        BY <3>1, <3>2
    <2>2. /\ apiWork' \in Seq(ApiCall) /\ later = {again} \cup rest
          /\ \A do : do # "register" => Of(do, later) = Of(do, earlier)
          /\ call.left \subseteq Named(names, later) => Named(names, earlier) \subseteq Named(names, later)
      <3> HIDE DEF new, again
      <3> QED
        BY <1>1, <1>4, <2>1, StackFrame
    <2>3. Named(names, earlier) \subseteq Named(names, later)
      <3>1. again \in later
        BY <2>2
      <3> HIDE DEF again
      <3>2. call.left \subseteq Named(names, later)
        BY <1>4, <1>5, <3>1 DEF Named
      <3> QED
        BY <2>2, <3>2
    <2>4. schemaNames' = schemaNames
      BY <1>2, <1>5
    <2> HIDE DEF rest, earlier, later, names, again, new
    <2>5. DocTypes'
      BY <1>1, <2>2, <2>4 DEF DocInv, DocTypes
    <2>6. /\ RoutesInv(apiPaths, visited, names, later) /\ SchemasInv(schemas, names, later) /\ ModulesInv(visited, later)
      BY <1>3, <2>2, <2>3, ModulesSame, RoutesSame, SchemasSame
    <2> QED
      BY <1>1, <2>4, <2>5, <2>6 DEF DocInv, later, names
  <1>6. CASE s \notin names
    <2> DEFINE walk == Api!WalkSchema(s, FieldsOf(s))
               new == <<walk, again>>
               more == names \cup {s}
    <2>1. walk \in ApiCall /\ walk.do = "schema" /\ walk.of = s /\ walk.left = FieldsOf(s)
      <3>1. FieldsOf(s) \in SUBSET FieldsOf(s)
        OBVIOUS
      <3> QED
        BY <1>3, <3>1, CallsDiffer DEF ApiCall, SchemaCalls
    <2>2. schemaNames' = Put(schemaNames, s, Api!NameOf(s)) /\ apiWork' = <<walk>> \o (<<again>> \o Tail(apiWork))
      BY <1>2, <1>6
    <2>3. DOMAIN schemaNames' = more /\ \A t \in more : t # s => schemaNames'[t] = schemaNames[t]
      BY <2>2 DEF Put
    <2>4. schemaNames'[s] = Api!NameOf(s)
      BY <2>2 DEF Put
    <2> HIDE DEF walk, again
    <2>5. new \in Seq(ApiCall) /\ Range(new) = {walk, again} /\ apiWork' = new \o Tail(apiWork)
      <3>1. Tail(apiWork) \in Seq(ApiCall)
        BY <1>1, <1>3, HeadTailProperties
      <3>2. <<walk>> \o (<<again>> \o Tail(apiWork)) = new \o Tail(apiWork)
        BY <1>4, <2>1, <3>1
      <3>3. new \in Seq(ApiCall) /\ Range(new) = {walk, again}
        BY <1>4, <2>1 DEF Range
      <3> QED
        BY <2>2, <3>2, <3>3
    <2>6. /\ apiWork' \in Seq(ApiCall) /\ earlier = {call} \cup rest /\ later = {walk, again} \cup rest
          /\ \A do : do \notin {"register", "schema"} => Of(do, later) = Of(do, earlier)
          /\ call.left \subseteq Named(more, later) => Named(names, earlier) \subseteq Named(more, later)
      <3> HIDE DEF new
      <3> QED
        BY <1>1, <1>4, <2>1, <2>5, StackFrame
    <2>7. Named(names, earlier) \subseteq Named(more, later)
      <3>1. again \in later
        BY <2>6
      <3>2. call.left \subseteq Named(more, later)
        BY <1>4, <3>1 DEF Named
      <3> QED
        BY <2>6, <3>2
    <2>8. walk \in later
      BY <2>6
    <2>9. \A d : d.do = "schema" => (d \in later <=> d \in earlier \/ d = walk)
      BY <1>1, <1>4, <2>6
    <2> HIDE DEF rest, earlier, later, new
    <2>10. DocTypes'
      BY <1>1, <1>3, <2>3, <2>4, <2>6 DEF DocInv, DocTypes
    <2> HIDE DEF names
    <2>11. RoutesInv(apiPaths, visited, more, later) /\ ModulesInv(visited, later)
      BY <1>3, <2>6, <2>7, ModulesSame, RoutesSame
    <2>12. SchemasInv(schemas, more, later)
      <3>1. ASSUME NEW t \in more
            PROVE  Api!NameOf(t) \in DOMAIN schemas \/ \E d \in later : d.do = "schema" /\ d.of = t
        BY <1>3, <2>1, <2>8, <2>9 DEF SchemasInv
      <3>2. ASSUME NEW n \in DOMAIN schemas
            PROVE  \E t \in more : /\ Api!NameOf(t) = n /\ schemas[n] = Api!ObjectSchema(t, "json")
                                   /\ \A p \in FieldsOf(t) : Api!Referred(p) \subseteq Named(more, later)
        BY <1>3, <2>7 DEF SchemasInv
      <3>3. ASSUME NEW d \in later, d.do = "schema"
            PROVE  d.of \in more /\ \A p \in FieldsOf(d.of) \ d.left : Api!Referred(p) \subseteq Named(more, later)
        <4>1. CASE d = walk
          BY <2>1, <4>1
        <4>2. CASE d \in earlier
          BY <1>3, <2>7, <3>3, <4>2 DEF SchemasInv
        <4> QED
          BY <2>9, <3>3, <4>1, <4>2
      <3> QED
        BY <3>1, <3>2, <3>3 DEF SchemasInv
    <2> QED
      BY <1>1, <2>3, <2>10, <2>11, <2>12 DEF DocInv, later
  <1> QED
    BY <1>5, <1>6

\* What a property refers to is registered next.
LEMMA WalkPropertyKeeps == ASSUME DocInv, Api!WalkProperty PROVE DocInv'
  <1> DEFINE call == Head(apiWork)
             rest == Range(Tail(apiWork))
             earlier == Range(apiWork)
             later == Range(apiWork')
             names == DOMAIN schemaNames
             s == call.of
  <1>1. /\ apiWork # <<>> /\ call.do = "schema"
        /\ UNCHANGED <<apiPaths, schemas, schemaNames, visited>>
    BY DEF Api!WalkProperty, Api!Doing
  <1>2. PICK p \in call.left :
          apiWork' = <<Api!Register(Api!Referred(p)), Api!WalkSchema(s, call.left \ {p})>> \o Tail(apiWork)
    BY DEF Api!WalkProperty, Api!Top
  <1> DEFINE register == Api!Register(Api!Referred(p))
             walk == Api!WalkSchema(s, call.left \ {p})
             new == <<register, walk>>
  <1>3. /\ s \in DOMAIN SchemaTable /\ call.left \in SUBSET FieldsOf(s) /\ call \in earlier
        /\ RoutesInv(apiPaths, visited, names, earlier) /\ SchemasInv(schemas, names, earlier) /\ ModulesInv(visited, earlier)
    BY <1>1, HeadCall, CallIs DEF DocInv
  <1>4. Api!Referred(p) \subseteq DOMAIN SchemaTable
    BY <1>3, NamesAreReferred
  <1>5. /\ register \in ApiCall /\ register.do = "register" /\ register.left = Api!Referred(p)
        /\ walk \in ApiCall /\ walk.do = "schema" /\ walk.of = s /\ walk.left = call.left \ {p}
    <2>1. call.left \ {p} \in SUBSET FieldsOf(s)
      BY <1>3
    <2> QED
      BY <1>3, <1>4, <2>1, CallsDiffer DEF ApiCall, SchemaCalls
  <1> HIDE DEF register, walk
  <1>6. new \in Seq(ApiCall) /\ Range(new) = {register, walk}
    BY <1>5 DEF Range
  <1>7. apiWork' = new \o Tail(apiWork)
    BY <1>2 DEF register, walk
  <1>8. /\ apiWork' \in Seq(ApiCall) /\ earlier = {call} \cup rest /\ later = {register, walk} \cup rest
        /\ \A do : do \notin {"register", "schema"} => Of(do, later) = Of(do, earlier)
        /\ Named(names, earlier) \subseteq Named(names, later)
    <2> HIDE DEF new
    <2> QED
      BY <1>1, <1>5, <1>6, <1>7, StackFrame
  <1>9. register \in later /\ walk \in later
    BY <1>8
  <1>10. \A d \in later : d.do = "schema" => d \in earlier \/ d = walk
    BY <1>5, <1>8
  <1>11. \A d \in earlier : d.do = "schema" => d \in later \/ d = call
    BY <1>8
  <1> HIDE DEF rest, earlier, later, names, new, s
  <1>12. DocTypes'
    BY <1>1, <1>8 DEF DocInv, DocTypes
  <1>13. RoutesInv(apiPaths, visited, names, later) /\ ModulesInv(visited, later)
    BY <1>3, <1>8, ModulesSame, RoutesSame
  <1>14. SchemasInv(schemas, names, later)
    <2>1. ASSUME NEW t \in names
          PROVE  Api!NameOf(t) \in DOMAIN schemas \/ \E d \in later : d.do = "schema" /\ d.of = t
      BY <1>3, <1>5, <1>9, <1>11 DEF SchemasInv, s
    <2>2. ASSUME NEW n \in DOMAIN schemas
          PROVE  \E t \in names : /\ Api!NameOf(t) = n /\ schemas[n] = Api!ObjectSchema(t, "json")
                                  /\ \A q \in FieldsOf(t) : Api!Referred(q) \subseteq Named(names, later)
      BY <1>3, <1>8 DEF SchemasInv
    <2>3. ASSUME NEW d \in later, d.do = "schema"
          PROVE  d.of \in names /\ \A q \in FieldsOf(d.of) \ d.left : Api!Referred(q) \subseteq Named(names, later)
      <3>1. CASE d = walk
        <4>1. call.of = s /\ s \in names /\ \A q \in FieldsOf(s) \ call.left : Api!Referred(q) \subseteq Named(names, later)
          BY <1>1, <1>3, <1>8 DEF SchemasInv, s
        <4>2. Api!Referred(p) \subseteq Named(names, later)
          BY <1>5, <1>9 DEF Named
        <4> QED
          BY <1>5, <3>1, <4>1, <4>2
      <3>2. CASE d \in earlier
        BY <1>3, <1>8, <2>3, <3>2 DEF SchemasInv
      <3> QED
        BY <1>10, <2>3, <3>1, <3>2
    <2> QED
      BY <2>1, <2>2, <2>3 DEF SchemasInv
  <1> QED
    BY <1>1, <1>12, <1>13, <1>14 DEF DocInv, later, names

\* The walk starts at the root.
LEMMA DocStart == ASSUME Api!Init PROVE DocInv
  <1>1. /\ apiPaths = <<>> /\ schemas = <<>> /\ schemaNames = <<>> /\ visited = {} /\ apiWork = <<Api!WalkModule(Root)>>
    BY DEF Api!Init
  <1>2. DOMAIN apiPaths = {} /\ DOMAIN schemas = {} /\ DOMAIN schemaNames = {}
    BY <1>1
  <1>3. Root \in DOMAIN Modules
    BY ApplicationAssumption
  <1> DEFINE call == Api!WalkModule(Root)
  <1>4. call \in ApiCall /\ call.do = "module" /\ call.of = Root
    BY <1>3, CallsDiffer DEF ApiCall, ModuleCalls
  <1> HIDE DEF call
  <1>5. apiWork = <<call>>
    BY <1>1 DEF call
  <1>6. apiWork \in Seq(ApiCall) /\ Range(apiWork) = {call}
    BY <1>4, <1>5 DEF Range
  <1>7. DocTypes
    BY <1>1, <1>2, <1>6 DEF DocTypes
  <1>8. ModulesInv(visited, {call})
    BY <1>1, <1>4, ImportedIsClosed DEF ModulesInv, call
  <1>9. RoutesInv(apiPaths, visited, DOMAIN schemaNames, {call})
    BY <1>1, <1>2, <1>4 DEF RoutesInv
  <1>10. SchemasInv(schemas, DOMAIN schemaNames, {call})
    BY <1>2, <1>4 DEF SchemasInv
  <1> QED
    BY <1>6, <1>7, <1>8, <1>9, <1>10 DEF DocInv

\* Every step keeps the invariant of the walk.
LEMMA DocKept == ASSUME DocInv, ContractNext \/ UNCHANGED contract PROVE DocInv'
  <1>1. CASE UNCHANGED document
    BY <1>1 DEF document, DocInv, DocTypes, ModulesInv, RoutesInv, SchemasInv, Due
  <1>2. CASE Api!Next
    BY <1>2, VisitModuleKeeps, VisitControllerKeeps, VisitRouteKeeps, SetPathKeeps, registerSchemaKeeps, RegisteredKeeps,
       WalkPropertyKeeps, SetSchemaKeeps DEF Api!Next
  <1> QED
    BY <1>1, <1>2 DEF ContractNext, Build, Generate, Serve, contract

\* The names of some schemas.
TitlesOf(ss) == {Api!NameOf(t) : t \in ss}

\* The properties of an object schema name no more than their builders refer to.
LEMMA ObjectRefers ==
  ASSUME NEW s \in DOMAIN SchemaTable, NEW context
  PROVE  LET o == Api!ObjectSchema(s, context) IN
         NamesInObject(o) \subseteq TitlesOf(Api!ReferredIn({s}))
  <1> DEFINE o == Api!ObjectSchema(s, context)
             fields == Api!Range(SchemaTable[s].fields)
             keys == {Api!tagName(p, context) : p \in fields}
             of(k) == CHOOSE p \in fields : Api!tagName(p, context) = k
  <1>1. o.properties = [k \in keys |-> Api!schemaFor(of(k))]
    BY DEF Api!ObjectSchema
  <1>2. \A k \in keys : of(k) \in FieldsOf(s)
    <2>1. \A k \in keys : of(k) \in fields
      OBVIOUS
    <2> QED
      BY <2>1, SameRange DEF FieldsOf
  <1>3. Api!ReferredIn({s}) = UNION {Api!Referred(p) : p \in FieldsOf(s)}
    BY SameRange DEF Api!ReferredIn, FieldsOf
  <1> HIDE DEF of, keys, o
  <1>4. ASSUME NEW k \in keys PROVE NamesIn(Api!schemaFor(of(k))) \subseteq TitlesOf(Api!ReferredIn({s}))
    <2>1. NamesIn(Api!schemaFor(of(k))) \subseteq {Api!NameOf(t) : t \in Api!Referred(of(k))}
      BY <1>2, NamesAreReferred
    <2> QED
      BY <1>2, <1>3, <2>1 DEF TitlesOf
  <1> QED
    BY <1>1, <1>4 DEF NamesInObject, o

\* So do the parameters made of some schemas.
LEMMA ParametersRefer ==
  ASSUME NEW given \in SUBSET DOMAIN SchemaTable, NEW in, NEW q \in Api!paramsToParameters(given, in)
  PROVE  NamesIn(q.schema) \subseteq TitlesOf(Api!ReferredIn(given))
  <1>1. PICK s \in given : \E p \in FieldsOf(s) : q.schema = Api!schemaFor(p)
    BY SameRange DEF Api!paramsToParameters, FieldsOf
  <1>2. PICK p \in FieldsOf(s) : q.schema = Api!schemaFor(p)
    BY <1>1
  <1>3. Api!Referred(p) \subseteq Api!ReferredIn(given)
    BY SameRange DEF Api!ReferredIn, FieldsOf
  <1>4. NamesIn(q.schema) \subseteq {Api!NameOf(t) : t \in Api!Referred(p)}
    BY <1>2, NamesAreReferred
  <1> QED
    BY <1>3, <1>4 DEF TitlesOf

\* A form does, its files naming nothing.
LEMMA FormRefers ==
  ASSUME NEW s \in DOMAIN SchemaTable, NEW uploads
  PROVE  LET o == Api!formBodySchemaObject(s, uploads) IN
         NamesInObject(o) \subseteq TitlesOf(Api!ReferredIn({s}))
  <1> DEFINE o == Api!formBodySchemaObject(s, uploads)
             form == Api!ObjectSchema(s, "form")
             file == [Api!Anything EXCEPT !.types = {"string"}]
  <1>1. o.properties = [k \in uploads \cup DOMAIN form.properties |-> IF k \in uploads THEN <<file>> ELSE form.properties[k]]
    BY DEF Api!formBodySchemaObject
  <1>2. NamesIn(<<file>>) = {}
    <2>1. file.ref = {}
      BY DEF Api!Anything
    <2> HIDE DEF file
    <2>2. Range(<<file>>) = {file}
      BY DEF Range
    <2> QED
      BY <2>1, <2>2 DEF NamesIn
  <1>3. \A k \in DOMAIN form.properties : NamesIn(form.properties[k]) \subseteq TitlesOf(Api!ReferredIn({s}))
    BY ObjectRefers DEF NamesInObject
  <1> HIDE DEF file, form, o
  <1> QED
    BY <1>1, <1>2, <1>3 DEF NamesInObject, o

\* An operation names schemas its route registers.
LEMMA OperationRefers ==
  ASSUME NEW c, NEW r \in DOMAIN Routes
  PROVE  NamesInOperation(Api!Operation(c, r)) \subseteq TitlesOf(Registers(r))
  <1> DEFINE op == Api!Operation(c, r)
             route == Routes[r]
             parts == Api!Registering(r)
             responses == Api!ResponseSchemas(r)
  <1>1. /\ parts[1] = Api!ReferredIn(route.params) /\ parts[2] = Api!ReferredIn(route.query)
        /\ parts[3] = IF route.form # {} THEN Api!ReferredIn(route.form) ELSE route.body
        /\ parts[4] = UNION Range(responses)
    BY SameRange DEF Api!Registering
  <1>2. Registers(r) = UNION {parts[i] : i \in 1 .. 4}
    BY RegistersSchemas
  <1>3. /\ op.parameters = Api!paramsToParameters(route.params, "param") \cup Api!paramsToParameters(route.query, "query")
        /\ op.form = {Api!formBodySchemaObject(s, route.fileFields) : s \in route.form}
        /\ op.body = IF route.form # {} THEN {} ELSE TitlesOf(route.body)
        /\ op.responses = [status \in DOMAIN responses |-> TitlesOf(responses[status])]
    BY DEF Api!Operation, TitlesOf
  <1>4. route.params \cup route.query \cup route.form \subseteq DOMAIN SchemaTable
    BY ApplicationAssumption
  <1> HIDE DEF op, route, parts, responses
  <1>5. \A i \in 1 .. 4 : TitlesOf(parts[i]) \subseteq TitlesOf(Registers(r))
    BY <1>2 DEF TitlesOf
  <1>6. op.body \subseteq TitlesOf(Registers(r))
    BY <1>1, <1>3, <1>5
  <1>7. ASSUME NEW status \in DOMAIN op.responses PROVE op.responses[status] \subseteq TitlesOf(Registers(r))
    <2>1. responses[status] \subseteq parts[4]
      BY <1>1, <1>3 DEF Range
    <2> QED
      BY <1>3, <1>5, <2>1 DEF TitlesOf
  <1>8. ASSUME NEW q \in op.parameters PROVE NamesIn(q.schema) \subseteq TitlesOf(Registers(r))
    <2>1. CASE q \in Api!paramsToParameters(route.params, "param")
      BY <1>1, <1>4, <1>5, <2>1, ParametersRefer
    <2>2. CASE q \in Api!paramsToParameters(route.query, "query")
      BY <1>1, <1>4, <1>5, <2>2, ParametersRefer
    <2> QED
      BY <1>3, <2>1, <2>2
  <1>9. ASSUME NEW o \in op.form PROVE NamesInObject(o) \subseteq TitlesOf(Registers(r))
    <2>1. PICK s \in route.form : o = Api!formBodySchemaObject(s, route.fileFields)
      BY <1>3
    <2>2. NamesInObject(o) \subseteq TitlesOf(Api!ReferredIn({s}))
      BY <1>4, <2>1, FormRefers
    <2>3. Api!ReferredIn({s}) \subseteq parts[3]
      BY <1>1, <2>1 DEF Api!ReferredIn
    <2> QED
      BY <1>5, <2>2, <2>3 DEF TitlesOf
  <1> DEFINE all == TitlesOf(Registers(r))
  <1>10. /\ op.body \subseteq all
         /\ \A status \in DOMAIN op.responses : op.responses[status] \subseteq all
         /\ \A q \in op.parameters : NamesIn(q.schema) \subseteq all
         /\ \A o \in op.form : NamesInObject(o) \subseteq all
    BY <1>6, <1>7, <1>8, <1>9
  <1> HIDE DEF all
  <1>11. NamesInOperation(op) \subseteq all
    <2>1. ASSUME NEW n \in NamesInOperation(op) PROVE n \in all
      <3>1. \/ n \in op.body
            \/ \E status \in DOMAIN op.responses : n \in op.responses[status]
            \/ \E q \in op.parameters : n \in NamesIn(q.schema)
            \/ \E o \in op.form : n \in NamesInObject(o)
        BY DEF NamesInOperation
      <3> QED
        BY <1>10, <3>1
    <2> QED
      BY <2>1
  <1> QED
    BY <1>11 DEF op, all

\* With an empty stack nothing is missing.
LEMMA DocumentWhole == ASSUME DocInv PROVE DocumentComplete
  <1> SUFFICES ASSUME apiWork = <<>>
               PROVE  /\ DOMAIN apiPaths = {Api!PathOf(d[1], d[2]) : d \in Documented}
                      /\ NamesUsed \subseteq DOMAIN schemas
                      /\ \A s \in DOMAIN schemaNames :
                           (\A t \in DOMAIN schemaNames \ {s} : Api!NameOf(t) # Api!NameOf(s))
                             => schemas[schemaNames[s]] = Api!ObjectSchema(s, "json")
    BY DEF DocumentComplete, Api!Done
  <1> DEFINE names == DOMAIN schemaNames
  <1>1. Range(apiWork) = {} /\ Named(names, {}) = names
    <2>1. Range(apiWork) = {}
      BY DEF Range
    <2>2. {d \in {} : d.do = "register"} = {}
      OBVIOUS
    <2> HIDE DEF names
    <2>3. Named(names, {}) = names
      BY <2>2 DEF Named
    <2> QED
      BY <2>1, <2>3
  <1>2. ModulesInv(visited, {}) /\ RoutesInv(apiPaths, visited, names, {}) /\ SchemasInv(schemas, names, {})
    BY <1>1 DEF DocInv
  <1>3. names \subseteq DOMAIN SchemaTable /\ \A s \in names : schemaNames[s] = Api!NameOf(s)
    BY DEF DocInv, DocTypes
  <1> HIDE DEF names
  <1>4. visited = Imported
    BY <1>2, ImportedIsClosed DEF ModulesInv
  <1>5. TitlesOf(names) \subseteq DOMAIN schemas
    BY <1>2 DEF SchemasInv, TitlesOf
  <1>6. ASSUME NEW k \in DOMAIN apiPaths
        PROVE  \E d \in Documented : k = Api!PathOf(d[1], d[2]) /\ NamesInOperation(apiPaths[k]) \subseteq TitlesOf(names)
    <2>1. PICK d \in Documented :
            k = Api!PathOf(d[1], d[2]) /\ apiPaths[k] = Api!Operation(d[1], d[2]) /\ Registers(d[2]) \subseteq names
      BY <1>1, <1>2 DEF RoutesInv
    <2>2. d[2] \in DOMAIN Routes
      <3>1. PICK m \in Imported : \E c \in Range(Modules[m].controllers) : \E r \in Range(Controllers[c].routes) : d = <<c, r>>
        BY DEF Documented
      <3>2. PICK c \in Range(Modules[m].controllers) : \E r \in Range(Controllers[c].routes) : d = <<c, r>>
        BY <3>1
      <3>3. PICK r \in Range(Controllers[c].routes) : d = <<c, r>>
        BY <3>2
      <3>4. r \in DOMAIN Routes
        BY ApplicationAssumption, ImportedIsClosed
      <3> QED
        BY <3>3, <3>4
    <2>3. TitlesOf(Registers(d[2])) \subseteq TitlesOf(names)
      BY <2>1 DEF TitlesOf
    <2>4. NamesInOperation(Api!Operation(d[1], d[2])) \subseteq TitlesOf(Registers(d[2]))
      BY <2>2, OperationRefers
    <2> QED
      BY <2>1, <2>3, <2>4
  <1>7. ASSUME NEW d \in Documented PROVE Api!PathOf(d[1], d[2]) \in DOMAIN apiPaths
    <2>1. PICK m \in Imported : \E c \in Range(Modules[m].controllers) :
            \E r \in {x \in Range(Controllers[c].routes) : ~Routes[x].excluded} : d = <<c, r>>
      BY DEF Documented
    <2>2. PICK c \in Range(Modules[m].controllers) :
            \E r \in {x \in Range(Controllers[c].routes) : ~Routes[x].excluded} : d = <<c, r>>
      BY <2>1
    <2>3. PICK r \in Range(Controllers[c].routes) : d = <<c, r>> /\ ~Routes[r].excluded
      BY <2>2
    <2>4. Due(c, r, apiPaths, {})
      BY <1>2, <1>4 DEF RoutesInv
    <2> QED
      BY <2>3, <2>4 DEF Due
  <1>8. ASSUME NEW n \in DOMAIN schemas PROVE NamesInObject(schemas[n]) \subseteq TitlesOf(names)
    <2>1. PICK s \in names : schemas[n] = Api!ObjectSchema(s, "json") /\ \A p \in FieldsOf(s) : Api!Referred(p) \subseteq names
      BY <1>1, <1>2 DEF SchemasInv
    <2>2. NamesInObject(schemas[n]) \subseteq TitlesOf(Api!ReferredIn({s}))
      BY <1>3, <2>1, ObjectRefers
    <2>3. Api!ReferredIn({s}) \subseteq names
      BY <2>1, SameRange DEF Api!ReferredIn, FieldsOf
    <2> QED
      BY <2>2, <2>3 DEF TitlesOf
  <1>9. NamesUsed \subseteq DOMAIN schemas
    <2> DEFINE all == TitlesOf(names)
    <2>1. /\ \A k \in DOMAIN apiPaths : NamesInOperation(apiPaths[k]) \subseteq all
          /\ \A n \in DOMAIN schemas : NamesInObject(schemas[n]) \subseteq all
      BY <1>6, <1>8
    <2> HIDE DEF all
    <2>2. ASSUME NEW n \in NamesUsed PROVE n \in all
      <3>1. \/ \E k \in DOMAIN apiPaths : n \in NamesInOperation(apiPaths[k])
            \/ \E m \in DOMAIN schemas : n \in NamesInObject(schemas[m])
        BY DEF NamesUsed
      <3> QED
        BY <2>1, <3>1
    <2> QED
      BY <1>5, <2>2 DEF all
  <1>10. ASSUME NEW s \in names, \A t \in names \ {s} : Api!NameOf(t) # Api!NameOf(s)
         PROVE  schemas[schemaNames[s]] = Api!ObjectSchema(s, "json")
    <2>1. schemaNames[s] = Api!NameOf(s) /\ Api!NameOf(s) \in DOMAIN schemas
      BY <1>2, <1>3 DEF SchemasInv
    <2>2. PICK t \in names : Api!NameOf(t) = Api!NameOf(s) /\ schemas[Api!NameOf(s)] = Api!ObjectSchema(t, "json")
      BY <1>2, <2>1 DEF SchemasInv
    <2>3. t = s
      BY <1>10, <2>2
    <2> QED
      BY <2>1, <2>2, <2>3
  <1> QED
    BY <1>6, <1>7, <1>9, <1>10 DEF names

-----------------------------------------------------------------------------
(* Contract. GraphqlTypes: what can be typed, and what is reached. *)

\* A builder's references are to schemas, and it has no name exactly if it is a
\* Custom nobody named.
LEMMA NamelessIsUnnamed ==
  ASSUME NEW s \in DOMAIN SchemaTable, NEW p \in FieldsOf(s)
  PROVE  /\ Gql!Reference(p) \subseteq DOMAIN SchemaTable
         /\ Gql!Nameless(p) <=> Unnamed(p)
  <1> DEFINE leaf == Gql!Leaf(p)
  <1>1. leaf.ref \cup leaf.itemRef \subseteq DOMAIN SchemaTable /\ (leaf.kind = "array" => leaf.itemRef # {})
    BY LeafReached DEF Gql!OfBuilders
  <1>2. Gql!Reference(p) = IF leaf.kind = "array" THEN leaf.itemRef ELSE IF leaf.kind = "object" THEN leaf.ref ELSE {}
    BY DEF Gql!Reference
  <1>3. Gql!Scalars(p) = IF Gql!Reference(p) # {} THEN {} ELSE IF leaf.kind = "object" THEN {"JSON"} ELSE Gql!leafScalar(leaf)
    BY DEF Gql!Scalars
  <1> HIDE DEF leaf
  <1>4. Gql!leafScalar(leaf) = {} <=> leaf.custom /\ leaf.graphqlScalar = {} /\ leaf.format \notin DOMAIN Gql!NativeScalarName
    <2>1. Gql!Declared(leaf) = {} <=> leaf.graphqlScalar = {} /\ leaf.format \notin DOMAIN Gql!NativeScalarName
      BY DEF Gql!Declared
    <2>2. CASE Gql!Declared(leaf) # {}
      BY <2>1, <2>2 DEF Gql!leafScalar
    <2>3. CASE Gql!Declared(leaf) = {}
      BY <2>1, <2>3 DEF Gql!leafScalar
    <2> QED
      BY <2>2, <2>3
  <1>5. Unnamed(p) <=> /\ leaf.custom /\ leaf.kind \notin {"array", "object"}
                       /\ leaf.graphqlScalar = {} /\ leaf.format \notin DOMAIN Gql!NativeScalarName
    BY DEF Unnamed, leaf
  <1>6. Gql!Reference(p) \subseteq DOMAIN SchemaTable
    BY <1>1, <1>2
  <1>7. Gql!Nameless(p) <=> Gql!Reference(p) = {} /\ Gql!Scalars(p) = {}
    BY DEF Gql!Nameless
  <1>8. CASE leaf.kind = "array"
    BY <1>1, <1>2, <1>5, <1>7, <1>8
  <1>9. CASE leaf.kind = "object"
    <2>1. Gql!Reference(p) # {} \/ "JSON" \in Gql!Scalars(p)
      BY <1>3, <1>9
    <2> QED
      BY <1>5, <1>6, <1>7, <1>9, <2>1
  <1>10. CASE leaf.kind \notin {"array", "object"}
    BY <1>2, <1>3, <1>4, <1>5, <1>7, <1>10
  <1> QED
    BY <1>6, <1>8, <1>9, <1>10

\* What an operation wants and what it types itself are of the table.
LEMMA OperationsRefer ==
  ASSUME NEW list \in OperationLists, NEW op \in Range(list)
  PROVE  /\ Gql!Wanted(op) \subseteq DOMAIN SchemaTable
         /\ \A p \in Gql!Direct(op) : \E s \in DOMAIN SchemaTable : p \in FieldsOf(s)
         /\ op.root \in Gql!Roots
  <1>1. /\ op.root \in Gql!Roots
        /\ op.args \cup op.returns \subseteq DOMAIN SchemaTable
        /\ \A s \in op.returns : SchemaTable[s].isValue => SchemaTable[s].fields # <<>>
    BY OperationsAssumption
  <1>2. ASSUME NEW s \in op.returns, SchemaTable[s].isValue PROVE Gql!Reference(SchemaTable[s].fields[1]) \subseteq DOMAIN SchemaTable
    <2>1. IsSequence(SchemaTable[s].fields) /\ SchemaTable[s].fields # <<>>
      BY <1>1, <1>2, KeysAssumption
    <2>2. 1 \in DOMAIN SchemaTable[s].fields
      BY <2>1, LenProperties, EmptySeq DEF IsSequence
    <2>3. SchemaTable[s].fields[1] \in FieldsOf(s)
      BY <2>2 DEF FieldsOf, Range
    <2> QED
      BY <1>1, <2>3, NamelessIsUnnamed
  <1>3. ASSUME NEW s \in op.args, NEW p \in FieldsOf(s) PROVE Gql!Reference(p) \subseteq DOMAIN SchemaTable
    BY <1>1, NamelessIsUnnamed
  <1>4. ASSUME NEW t \in Gql!Wanted(op) PROVE t \in DOMAIN SchemaTable
    <2>1. \/ t \in UNION {IF SchemaTable[s].isValue THEN Gql!Reference(SchemaTable[s].fields[1]) ELSE {s} : s \in op.returns}
          \/ t \in UNION {UNION {Gql!Reference(p) : p \in FieldsOf(s)} : s \in op.args}
      BY SameRange DEF Gql!Wanted, FieldsOf
    <2>2. CASE t \in UNION {IF SchemaTable[s].isValue THEN Gql!Reference(SchemaTable[s].fields[1]) ELSE {s} : s \in op.returns}
      BY <1>1, <1>2, <2>2
    <2>3. CASE t \in UNION {UNION {Gql!Reference(p) : p \in FieldsOf(s)} : s \in op.args}
      BY <1>3, <2>3
    <2> QED
      BY <2>1, <2>2, <2>3
  <1>5. \A p \in Gql!Direct(op) : \E s \in DOMAIN SchemaTable : p \in FieldsOf(s)
    BY <1>1, SameRange DEF Gql!Direct, FieldsOf
  <1> QED
    BY <1>1, <1>4, <1>5

\* What the first n operations want.
WantedUpTo(ops, n) == UNION {Gql!Wanted(ops[i]) : i \in 1 .. n}

\* Closure: what was given, and what its properties refer to, and no more.
LEMMA ClosureCloses ==
  ASSUME NEW given \in SUBSET DOMAIN SchemaTable
  PROVE  /\ given \subseteq Closure(given) /\ Closure(given) \subseteq DOMAIN SchemaTable
         /\ \A s \in Closure(given) : \A p \in FieldsOf(s) : Gql!Reference(p) \subseteq Closure(given)
         /\ \A T \in SUBSET DOMAIN SchemaTable :
              given \subseteq T /\ (\A s \in T : \A p \in FieldsOf(s) : Gql!Reference(p) \subseteq T) => Closure(given) \subseteq T
  <1> DEFINE behind == [s \in DOMAIN SchemaTable |-> UNION {Gql!Reference(p) : p \in FieldsOf(s)}]
  <1>1. behind \in [DOMAIN SchemaTable -> SUBSET DOMAIN SchemaTable]
    BY NamelessIsUnnamed
  <1>2. IsFiniteSet(DOMAIN SchemaTable)
    BY NestingAssumption
  <1>3. Closure(given) = Reachable(given, behind)
    BY DEF Closure, FieldsOf
  <1> HIDE DEF behind
  <1>4. /\ given \subseteq Closure(given) /\ Closure(given) \subseteq DOMAIN SchemaTable
        /\ \A s \in Closure(given) : behind[s] \subseteq Closure(given)
        /\ \A T : given \subseteq T /\ (\A s \in T : behind[s] \subseteq T) => Closure(given) \subseteq T
    BY <1>1, <1>2, <1>3, ReachesAll
  <1>5. \A s \in DOMAIN SchemaTable : behind[s] = UNION {Gql!Reference(p) : p \in FieldsOf(s)}
    BY DEF behind
  <1>6. \A s \in Closure(given) : \A p \in FieldsOf(s) : Gql!Reference(p) \subseteq Closure(given)
    BY <1>4, <1>5
  <1>7. ASSUME NEW T \in SUBSET DOMAIN SchemaTable, given \subseteq T, \A s \in T : \A p \in FieldsOf(s) : Gql!Reference(p) \subseteq T
        PROVE  Closure(given) \subseteq T
    <2>1. \A s \in T : behind[s] \subseteq T
      BY <1>5, <1>7
    <2> QED
      BY <1>4, <1>7, <2>1
  <1> QED
    BY <1>4, <1>6, <1>7

\* More operations reach no less.
LEMMA ReachedGrows ==
  ASSUME NEW ops \in OperationLists, NEW n \in 0 .. Len(ops), NEW m \in 0 .. Len(ops), n <= m
  PROVE  /\ WantedUpTo(ops, n) \in SUBSET DOMAIN SchemaTable
         /\ Closure(WantedUpTo(ops, n)) \subseteq Closure(WantedUpTo(ops, m))
  <1>1. IsSequence(ops) /\ DOMAIN ops = 1 .. Len(ops) /\ Len(ops) \in Nat
    BY OperationsAssumption, LenProperties DEF IsSequence
  <1>2. \A i \in 1 .. Len(ops) : Gql!Wanted(ops[i]) \subseteq DOMAIN SchemaTable
    <2>1. \A i \in 1 .. Len(ops) : ops[i] \in Range(ops)
      BY <1>1 DEF Range
    <2> QED
      BY <2>1, OperationsRefer
  <1>3. \A i \in 1 .. n : i \in 1 .. m /\ i \in 1 .. Len(ops)
    BY <1>1
  <1>4. \A i \in 1 .. m : i \in 1 .. Len(ops)
    BY <1>1
  <1>5. /\ WantedUpTo(ops, n) \in SUBSET DOMAIN SchemaTable
        /\ WantedUpTo(ops, m) \in SUBSET DOMAIN SchemaTable
    BY <1>2, <1>3, <1>4 DEF WantedUpTo
  <1>6. WantedUpTo(ops, n) \subseteq WantedUpTo(ops, m)
    BY <1>3 DEF WantedUpTo
  <1>7. /\ WantedUpTo(ops, n) \subseteq Closure(WantedUpTo(ops, m))
        /\ Closure(WantedUpTo(ops, m)) \in SUBSET DOMAIN SchemaTable
        /\ \A s \in Closure(WantedUpTo(ops, m)) : \A p \in FieldsOf(s) : Gql!Reference(p) \subseteq Closure(WantedUpTo(ops, m))
    BY <1>5, <1>6, ClosureCloses
  <1> QED
    BY <1>5, <1>7, ClosureCloses

-----------------------------------------------------------------------------
(* Contract. Build: its frames, its objects and its operations. *)

\* An object whose properties are being typed, and those still left.
Frames == UNION {{Gql!Frame(s, ps) : ps \in SUBSET FieldsOf(s)} : s \in DOMAIN SchemaTable}

\* A property whose type can be told, the objects known being `known`.
Settled(p, known) == Gql!Reference(p) \subseteq known /\ ~Gql!Nameless(p)

\* What the operations reach that have become fields, or are about to.
Reached(n) == Closure(WantedUpTo(operations, n))
Seen == IF done < Len(operations) THEN done + 1 ELSE done

\* What the state of Build holds.
BuildTypes ==
  /\ operations \in OperationLists /\ done \in 0 .. Len(operations)
  /\ gqlWork \in Seq(Frames) /\ (gqlWork # <<>> => Gql!Running)
  /\ failure # {} => done < Len(operations)

\* Objects: each is one an operation reaches, and everything in it is typed.
ObjectsInv ==
  /\ DOMAIN objects \subseteq Reached(Seen)
  /\ \A s \in DOMAIN objects : objects[s] = Gql!Fields(s) /\ \A p \in FieldsOf(s) : Settled(p, DOMAIN objects)

\* Frames: the properties an object has behind it are typed.
FramesInv ==
  \A f \in Range(gqlWork) : f.of \in Reached(Seen) /\ \A p \in FieldsOf(f.of) \ f.left : Settled(p, DOMAIN objects)

\* Operations: those behind are whole, and are the fields of their roots.
OperationsInv ==
  /\ \A i \in 1 .. done : /\ Gql!Wanted(operations[i]) \subseteq DOMAIN objects
                          /\ \A p \in Gql!Direct(operations[i]) : ~Gql!Nameless(p)
  /\ \A r \in Gql!Roots : DOMAIN roots[r] = {operations[i].name : i \in {j \in 1 .. done : operations[j].root = r}}
  /\ DOMAIN roots = Gql!Roots
  /\ \A i, j \in 1 .. done : i < j => operations[i].root # operations[j].root \/ operations[i].name # operations[j].name

\* Why Build may refuse: the operation it is at cannot be typed, or its name is taken.
Refused ==
  LET op == operations[done + 1] IN
  \/ \E p \in Gql!Direct(op) : Gql!Nameless(p)
  \/ \E s \in Reached(done + 1) : \E p \in FieldsOf(s) : Gql!Nameless(p)
  \/ op.name \in DOMAIN roots[op.root]

\* The invariant of Build: the objects on its stack are the only ones missing.
BuildInv ==
  /\ BuildTypes /\ ObjectsInv /\ FramesInv /\ OperationsInv
  /\ failure # {} => Refused

\* A frame is its schema and what is left of it.
LEMMA FrameIs ==
  /\ \A s, ps : Gql!Frame(s, ps).of = s /\ Gql!Frame(s, ps).left = ps
  /\ \A s : Gql!NewFrame(s) = Gql!Frame(s, FieldsOf(s))
  /\ \A f \in Frames : f.of \in DOMAIN SchemaTable /\ f.left \in SUBSET FieldsOf(f.of) /\ f = Gql!Frame(f.of, f.left)
  /\ \A s \in DOMAIN SchemaTable : \A ps \in SUBSET FieldsOf(s) : Gql!Frame(s, ps) \in Frames
  <1>1. \A s, ps : Gql!Frame(s, ps).of = s /\ Gql!Frame(s, ps).left = ps
    BY DEF Gql!Frame
  <1>2. \A s : Gql!NewFrame(s) = Gql!Frame(s, FieldsOf(s))
    BY SameRange DEF Gql!NewFrame, FieldsOf
  <1>3. ASSUME NEW f \in Frames
        PROVE  f.of \in DOMAIN SchemaTable /\ f.left \in SUBSET FieldsOf(f.of) /\ f = Gql!Frame(f.of, f.left)
    <2>1. PICK s \in DOMAIN SchemaTable : \E ps \in SUBSET FieldsOf(s) : f = Gql!Frame(s, ps)
      BY DEF Frames
    <2>2. PICK ps \in SUBSET FieldsOf(s) : f = Gql!Frame(s, ps)
      BY <2>1
    <2> QED
      BY <1>1, <2>2
  <1>4. \A s \in DOMAIN SchemaTable : \A ps \in SUBSET FieldsOf(s) : Gql!Frame(s, ps) \in Frames
    BY DEF Frames
  <1> QED
    BY <1>1, <1>2, <1>3, <1>4

\* What the operations up to the one at hand want is seen, and what that refers to.
LEMMA SeenReached ==
  ASSUME BuildTypes
  PROVE  /\ Len(operations) \in Nat /\ done \in Nat /\ Seen \in 0 .. Len(operations)
         /\ Reached(Seen) \subseteq DOMAIN SchemaTable
         /\ \A s \in Reached(Seen) : \A p \in FieldsOf(s) : Gql!Reference(p) \subseteq Reached(Seen)
         /\ done < Len(operations) => Seen = done + 1 /\ Gql!Wanted(operations[done + 1]) \subseteq Reached(Seen)
                                        /\ operations[done + 1] \in Range(operations)
  <1>1. IsSequence(operations) /\ DOMAIN operations = 1 .. Len(operations) /\ Len(operations) \in Nat
    BY OperationsAssumption, LenProperties DEF IsSequence, BuildTypes
  <1>2. done \in Nat /\ Seen \in 0 .. Len(operations)
    BY <1>1 DEF BuildTypes, Seen
  <1>3. WantedUpTo(operations, Seen) \in SUBSET DOMAIN SchemaTable
    BY <1>1, <1>2, ReachedGrows DEF BuildTypes
  <1>4. /\ WantedUpTo(operations, Seen) \subseteq Reached(Seen) /\ Reached(Seen) \subseteq DOMAIN SchemaTable
        /\ \A s \in Reached(Seen) : \A p \in FieldsOf(s) : Gql!Reference(p) \subseteq Reached(Seen)
    BY <1>3, ClosureCloses DEF Reached
  <1>5. ASSUME done < Len(operations)
        PROVE  Seen = done + 1 /\ Gql!Wanted(operations[done + 1]) \subseteq Reached(Seen) /\ operations[done + 1] \in Range(operations)
    <2>1. Seen = done + 1 /\ done + 1 \in 1 .. Seen /\ done + 1 \in DOMAIN operations
      BY <1>1, <1>2, <1>5 DEF Seen
    <2>2. Gql!Wanted(operations[done + 1]) \subseteq WantedUpTo(operations, Seen)
      BY <2>1 DEF WantedUpTo
    <2> QED
      BY <1>4, <2>1, <2>2 DEF Range
  <1> QED
    BY <1>1, <1>2, <1>4, <1>5

\* Its stack of frames: the innermost gives way to others.
LEMMA FramesStep ==
  ASSUME gqlWork \in Seq(Frames), gqlWork # <<>>
  PROVE  /\ Head(gqlWork) \in Frames /\ Head(gqlWork) \in Range(gqlWork)
         /\ Tail(gqlWork) \in Seq(Frames) /\ Range(Tail(gqlWork)) \subseteq Range(gqlWork)
         /\ \A f \in Frames : /\ <<f>> \o Tail(gqlWork) \in Seq(Frames)
                              /\ Range(<<f>> \o Tail(gqlWork)) = {f} \cup Range(Tail(gqlWork))
                              /\ <<f>> \o gqlWork \in Seq(Frames)
                              /\ Range(<<f>> \o gqlWork) = {f} \cup Range(gqlWork)
  <1>1. Head(gqlWork) \in Frames /\ Tail(gqlWork) \in Seq(Frames)
    BY HeadTailProperties
  <1>2. Head(gqlWork) \in Range(gqlWork)
    BY EmptySeq, LenProperties DEF Range
  <1>3. Range(Tail(gqlWork)) \subseteq Range(gqlWork)
    <2>1. gqlWork = <<Head(gqlWork)>> \o Tail(gqlWork) /\ <<Head(gqlWork)>> \in Seq(Frames)
      BY <1>1
    <2>2. Range(<<Head(gqlWork)>> \o Tail(gqlWork)) = Range(<<Head(gqlWork)>>) \cup Range(Tail(gqlWork))
      BY <1>1, <2>1, RangeConcatenation
    <2> QED
      BY <2>1, <2>2
  <1>4. ASSUME NEW f \in Frames, NEW t \in Seq(Frames)
        PROVE  <<f>> \o t \in Seq(Frames) /\ Range(<<f>> \o t) = {f} \cup Range(t)
    <2> DEFINE one == <<f>>
    <2>1. one \in Seq(Frames) /\ Range(one) = {f}
      BY DEF Range
    <2> HIDE DEF one
    <2>2. one \o t \in Seq(Frames) /\ Range(one \o t) = {f} \cup Range(t)
      BY <2>1, ConcatProperties, RangeConcatenation
    <2> QED
      BY <2>2 DEF one
  <1> QED
    BY <1>1, <1>2, <1>3, <1>4

\* A property is typed, refused, or waits for the object it refers to.
LEMMA WalkFieldKeeps == ASSUME BuildInv, Gql!WalkField PROVE BuildInv'
  <1> DEFINE f == Head(gqlWork)
             known == DOMAIN objects
  <1>1. /\ Gql!Running /\ gqlWork # <<>>
        /\ UNCHANGED <<objects, roots, operations, done>>
    BY DEF Gql!WalkField, Gql!Fail
  <1>2. PICK p \in f.left :
          IF Gql!Nameless(p)
            THEN failure' = {"custom"} /\ gqlWork' = <<>>
            ELSE /\ IF Gql!Missing(p) # {}
                      THEN \E s \in Gql!Missing(p) : gqlWork' = <<Gql!NewFrame(s)>> \o gqlWork
                      ELSE gqlWork' = <<Gql!Frame(f.of, f.left \ {p})>> \o Tail(gqlWork)
                 /\ failure' = failure
    BY DEF Gql!WalkField, Gql!Fail
  <1>3. /\ f \in Frames /\ f.of \in DOMAIN SchemaTable /\ f.left \in SUBSET FieldsOf(f.of) /\ p \in FieldsOf(f.of)
        /\ f.of \in Reached(Seen) /\ \A q \in FieldsOf(f.of) \ f.left : Settled(q, known)
    BY <1>1, <1>2, FramesStep, FrameIs DEF BuildInv, BuildTypes, FramesInv
  <1>4. done < Len(operations) /\ failure = {}
    BY <1>1 DEF Gql!Running
  <1>5. Seen = done + 1 /\ \A s \in Reached(Seen) : \A q \in FieldsOf(s) : Gql!Reference(q) \subseteq Reached(Seen)
    BY <1>4, SeenReached DEF BuildInv
  <1>6. Seen' = Seen /\ Reached(Seen)' = Reached(Seen)
    BY <1>1 DEF Seen, Reached
  <1>7. ObjectsInv' /\ OperationsInv'
    BY <1>1, <1>6 DEF BuildInv, ObjectsInv, OperationsInv
  <1>8. (failure' # {} => Refused') /\ gqlWork' \in Seq(Frames) /\ (gqlWork' # <<>> => failure' = {})
        /\ \A g \in Range(gqlWork') : g.of \in Reached(Seen) /\ \A q \in FieldsOf(g.of) \ g.left : Settled(q, known)
    <2>1. CASE Gql!Nameless(p)
      <3>1. failure' = {"custom"} /\ gqlWork' = <<>> /\ Range(<<>>) = {}
        BY <1>2, <2>1 DEF Range
      <3>2. \E s \in Reached(done + 1) : \E q \in FieldsOf(s) : Gql!Nameless(q)
        BY <1>3, <1>5, <2>1
      <3>3. Reached(done + 1)' = Reached(done + 1)
        BY <1>1 DEF Reached
      <3> QED
        BY <1>1, <3>1, <3>2, <3>3 DEF Refused
    <2>2. CASE ~Gql!Nameless(p) /\ Gql!Missing(p) # {}
      <3>1. PICK s \in Gql!Missing(p) : gqlWork' = <<Gql!NewFrame(s)>> \o gqlWork /\ failure' = failure
        BY <1>2, <2>2
      <3> DEFINE g == Gql!NewFrame(s)
      <3>2. s \in Gql!Reference(p)
        BY <3>1 DEF Gql!Missing
      <3>3. s \in DOMAIN SchemaTable /\ s \in Reached(Seen)
        BY <1>3, <1>5, <3>2, NamelessIsUnnamed
      <3>4. g \in Frames /\ g.of = s /\ g.left = FieldsOf(s)
        BY <3>3, FrameIs
      <3> HIDE DEF g
      <3>5. gqlWork' \in Seq(Frames) /\ Range(gqlWork') = {g} \cup Range(gqlWork)
        BY <1>1, <3>1, <3>4, FramesStep DEF BuildInv, BuildTypes, g
      <3> QED
        BY <1>4, <3>1, <3>3, <3>4, <3>5 DEF BuildInv, FramesInv
    <2>3. CASE ~Gql!Nameless(p) /\ Gql!Missing(p) = {}
      <3> DEFINE g == Gql!Frame(f.of, f.left \ {p})
      <3>1. gqlWork' = <<g>> \o Tail(gqlWork) /\ failure' = failure
        BY <1>2, <2>3
      <3>2. f.left \ {p} \in SUBSET FieldsOf(f.of)
        BY <1>3
      <3>3. g \in Frames /\ g.of = f.of /\ g.left = f.left \ {p}
        BY <1>3, <3>2, FrameIs
      <3>4. Settled(p, known)
        BY <2>3 DEF Gql!Missing, Settled
      <3> HIDE DEF g
      <3>5. gqlWork' \in Seq(Frames) /\ Range(gqlWork') = {g} \cup Range(Tail(gqlWork)) /\ Range(Tail(gqlWork)) \subseteq Range(gqlWork)
        BY <1>1, <3>1, <3>3, FramesStep DEF BuildInv, BuildTypes
      <3>6. g.of \in Reached(Seen) /\ \A q \in FieldsOf(g.of) \ g.left : Settled(q, known)
        BY <1>3, <3>3, <3>4
      <3> QED
        BY <1>4, <3>1, <3>5, <3>6 DEF BuildInv, FramesInv
    <2> QED
      BY <2>1, <2>2, <2>3
  <1>9. BuildTypes'
    BY <1>1, <1>4, <1>8 DEF BuildInv, BuildTypes, Gql!Running
  <1>10. FramesInv'
    BY <1>1, <1>6, <1>8 DEF FramesInv
  <1> QED
    BY <1>7, <1>8, <1>9, <1>10 DEF BuildInv

\* An object whose properties are all typed is known.
LEMMA ObjectBuiltKeeps == ASSUME BuildInv, Gql!ObjectBuilt PROVE BuildInv'
  <1> DEFINE f == Head(gqlWork)
             known == DOMAIN objects
             more == DOMAIN objects'
  <1>1. /\ Gql!Running /\ gqlWork # <<>> /\ f.left = {}
        /\ objects' = Put(objects, f.of, Gql!Fields(f.of)) /\ gqlWork' = Tail(gqlWork)
        /\ UNCHANGED <<roots, operations, done, failure>>
    BY DEF Gql!ObjectBuilt, Put, Gql!Put
  <1>2. /\ f.of \in Reached(Seen) /\ \A q \in FieldsOf(f.of) : Settled(q, known)
        /\ Tail(gqlWork) \in Seq(Frames) /\ Range(Tail(gqlWork)) \subseteq Range(gqlWork)
    BY <1>1, FramesStep DEF BuildInv, BuildTypes, FramesInv
  <1>3. done < Len(operations) /\ failure = {}
    BY <1>1 DEF Gql!Running
  <1>4. Seen' = Seen /\ Reached(Seen)' = Reached(Seen)
    BY <1>1 DEF Seen, Reached
  <1>5. /\ more = known \cup {f.of} /\ objects'[f.of] = Gql!Fields(f.of)
        /\ \A s \in known \ {f.of} : objects'[s] = objects[s]
    BY <1>1 DEF Put
  <1>6. \A q : Settled(q, known) => Settled(q, more)
    BY <1>5 DEF Settled
  <1> HIDE DEF f, known, more
  <1>7. BuildTypes'
    BY <1>1, <1>2, <1>3 DEF BuildInv, BuildTypes, Gql!Running
  <1>8. ObjectsInv'
    <2>1. more \subseteq Reached(Seen)
      BY <1>2, <1>5 DEF BuildInv, ObjectsInv, known
    <2>2. ASSUME NEW s \in more PROVE objects'[s] = Gql!Fields(s) /\ \A p \in FieldsOf(s) : Settled(p, more)
      <3>1. CASE s = f.of
        BY <1>2, <1>5, <1>6, <3>1
      <3>2. CASE s # f.of
        <4>1. s \in known /\ objects'[s] = objects[s]
          BY <1>5, <3>2
        <4> QED
          BY <1>6, <4>1 DEF BuildInv, ObjectsInv, known
      <3> QED
        BY <3>1, <3>2
    <2> QED
      BY <1>4, <2>1, <2>2 DEF ObjectsInv, more
  <1>9. FramesInv'
    <2>1. \A g \in Range(gqlWork') : g \in Range(gqlWork)
      BY <1>1, <1>2
    <2>2. \A g \in Range(gqlWork) : g.of \in Reached(Seen) /\ \A q \in FieldsOf(g.of) \ g.left : Settled(q, known)
      BY DEF BuildInv, FramesInv, known
    <2> QED
      BY <1>4, <1>6, <2>1, <2>2 DEF FramesInv, more
  <1>10. OperationsInv'
    <2>1. known \subseteq more
      BY <1>5
    <2> QED
      BY <1>1, <2>1 DEF BuildInv, OperationsInv, known, more
  <1> QED
    BY <1>1, <1>3, <1>7, <1>8, <1>9, <1>10 DEF BuildInv

\* An object the next operation wants is begun.
LEMMA BuildObjectKeeps == ASSUME BuildInv, Gql!BuildObject PROVE BuildInv'
  <1>1. /\ Gql!Running /\ gqlWork = <<>>
        /\ UNCHANGED <<objects, roots, operations, done, failure>>
    BY DEF Gql!BuildObject
  <1>2. PICK s \in Gql!Wanted(operations[done + 1]) : gqlWork' = <<Gql!NewFrame(s)>>
    BY DEF Gql!BuildObject, Gql!Operation
  <1>3. done < Len(operations) /\ failure = {}
    BY <1>1 DEF Gql!Running
  <1>4. s \in Reached(Seen) /\ s \in DOMAIN SchemaTable
    BY <1>2, <1>3, SeenReached DEF BuildInv
  <1> DEFINE g == Gql!NewFrame(s)
  <1>5. g \in Frames /\ g.of = s /\ g.left = FieldsOf(s)
    BY <1>4, FrameIs
  <1> HIDE DEF g
  <1>6. gqlWork' \in Seq(Frames) /\ Range(gqlWork') = {g}
    <2>1. gqlWork' = <<g>>
      BY <1>2 DEF g
    <2> QED
      BY <1>5, <2>1 DEF Range
  <1>7. Seen' = Seen /\ Reached(Seen)' = Reached(Seen)
    BY <1>1 DEF Seen, Reached
  <1>8. BuildTypes'
    BY <1>1, <1>3, <1>6 DEF BuildInv, BuildTypes, Gql!Running
  <1>9. FramesInv'
    BY <1>4, <1>5, <1>6, <1>7 DEF FramesInv
  <1>10. ObjectsInv' /\ OperationsInv'
    BY <1>1, <1>7 DEF BuildInv, ObjectsInv, OperationsInv
  <1> QED
    BY <1>1, <1>3, <1>8, <1>9, <1>10 DEF BuildInv

\* An operation becomes a field of its root, or is refused.
LEMMA BuildFieldKeeps == ASSUME BuildInv, Gql!BuildField PROVE BuildInv'
  <1> DEFINE op == operations[done + 1]
             Unsaid == \E p \in Gql!Direct(op) : Gql!Nameless(p)
             Taken == op.name \in DOMAIN roots[op.root]
  <1>1. /\ Gql!Running /\ gqlWork = <<>> /\ Gql!Wanted(op) \subseteq DOMAIN objects
        /\ UNCHANGED <<objects, operations, gqlWork>>
    BY DEF Gql!BuildField, Gql!Fail, Gql!Operation
  <1>2. done < Len(operations) /\ failure = {}
    BY <1>1 DEF Gql!Running
  <1>3. /\ done \in Nat /\ Len(operations) \in Nat /\ Seen = done + 1
        /\ op \in Range(operations) /\ op.root \in Gql!Roots
    BY <1>2, SeenReached, OperationsRefer DEF BuildInv, BuildTypes
  <1>4. CASE Unsaid \/ Taken
    <2>1. failure' # {} /\ UNCHANGED <<roots, done>>
      BY <1>4 DEF Gql!BuildField, Gql!Fail, Gql!Operation
    <2>2. Seen' = Seen /\ Reached(Seen)' = Reached(Seen)
      BY <1>1, <2>1 DEF Seen, Reached
    <2>3. Refused'
      BY <1>1, <1>4, <2>1 DEF Refused
    <2>4. BuildTypes'
      BY <1>1, <1>2, <2>1 DEF BuildInv, BuildTypes
    <2>5. ObjectsInv' /\ FramesInv' /\ OperationsInv'
      BY <1>1, <2>1, <2>2 DEF BuildInv, ObjectsInv, FramesInv, OperationsInv
    <2> QED
      BY <2>3, <2>4, <2>5 DEF BuildInv
  <1>5. CASE ~Unsaid /\ ~Taken
    <2>1. /\ failure' = failure /\ done' = done + 1
          /\ \E v : roots' = [roots EXCEPT ![op.root] = Put(roots[op.root], op.name, v)]
      BY <1>5 DEF Gql!BuildField, Gql!Operation, Put, Gql!Put
    <2>2. PICK v : roots' = [roots EXCEPT ![op.root] = Put(roots[op.root], op.name, v)]
      BY <2>1
    <2>3. BuildTypes'
      BY <1>1, <1>2, <1>3, <2>1 DEF BuildInv, BuildTypes
    <2>4. ObjectsInv'
      <3>1. Seen' \in 0 .. Len(operations) /\ Seen <= Seen' /\ Seen \in 0 .. Len(operations)
        BY <1>1, <1>2, <1>3, <2>1 DEF Seen
      <3>2. Reached(Seen) \subseteq Reached(Seen)'
        <4>1. Closure(WantedUpTo(operations, Seen)) \subseteq Closure(WantedUpTo(operations, Seen'))
          BY <3>1, ReachedGrows DEF BuildInv, BuildTypes
        <4> QED
          BY <1>1, <4>1 DEF Reached
      <3> QED
        BY <1>1, <3>2 DEF BuildInv, ObjectsInv
    <2>5. FramesInv'
      <3>1. Range(gqlWork') = {}
        BY <1>1 DEF Range
      <3> QED
        BY <3>1 DEF FramesInv
    <2>6. OperationsInv'
      <3> DEFINE names(r, n) == {operations[i].name : i \in {j \in 1 .. n : operations[j].root = r}}
      <3>1. /\ DOMAIN roots = Gql!Roots /\ \A r \in Gql!Roots : DOMAIN roots[r] = names(r, done)
            /\ \A i \in 1 .. done : /\ Gql!Wanted(operations[i]) \subseteq DOMAIN objects
                                    /\ \A p \in Gql!Direct(operations[i]) : ~Gql!Nameless(p)
            /\ \A i, j \in 1 .. done : i < j => operations[i].root # operations[j].root \/ operations[i].name # operations[j].name
        BY DEF BuildInv, OperationsInv
      <3>2. \A i \in 1 .. (done + 1) : i \in 1 .. done \/ i = done + 1
        BY <1>3
      <3>3. /\ DOMAIN roots' = Gql!Roots
            /\ DOMAIN roots'[op.root] = DOMAIN roots[op.root] \cup {op.name}
            /\ \A r \in Gql!Roots : r # op.root => roots'[r] = roots[r]
        BY <1>3, <2>2, <3>1 DEF Put
      <3>4. ASSUME NEW r \in Gql!Roots PROVE DOMAIN roots'[r] = names(r, done + 1)
        <4>1. CASE r = op.root
          <5>1. names(r, done + 1) = names(r, done) \cup {op.name}
            BY <1>3, <3>2, <4>1
          <5> HIDE DEF names, op
          <5> QED
            BY <3>1, <3>3, <4>1, <5>1
        <4>2. CASE r # op.root
          <5>1. names(r, done + 1) = names(r, done)
            BY <1>3, <3>2, <4>2
          <5> HIDE DEF names, op
          <5> QED
            BY <3>1, <3>3, <4>2, <5>1
        <4> QED
          BY <4>1, <4>2
      <3>5. ASSUME NEW i \in 1 .. (done + 1)
            PROVE  /\ Gql!Wanted(operations[i]) \subseteq DOMAIN objects
                   /\ \A p \in Gql!Direct(operations[i]) : ~Gql!Nameless(p)
        BY <1>1, <1>5, <3>1, <3>2
      <3>6. ASSUME NEW i \in 1 .. (done + 1), NEW j \in 1 .. (done + 1), i < j
            PROVE  operations[i].root # operations[j].root \/ operations[i].name # operations[j].name
        <4>1. i \in 1 .. done
          BY <1>3, <3>6
        <4>2. CASE j = done + 1
          <5>1. operations[i].root = op.root => operations[i].name \in names(op.root, done)
            BY <4>1
          <5> HIDE DEF names
          <5> QED
            BY <1>3, <1>5, <3>1, <4>2, <5>1
        <4>3. CASE j \in 1 .. done
          BY <3>1, <3>6, <4>1, <4>3
        <4> QED
          BY <3>2, <4>2, <4>3
      <3> QED
        BY <1>1, <2>1, <3>3, <3>4, <3>5, <3>6 DEF OperationsInv
    <2> QED
      BY <1>2, <2>1, <2>3, <2>4, <2>5, <2>6 DEF BuildInv
  <1> QED
    BY <1>4, <1>5

\* Build starts with nothing.
LEMMA BuildStart == ASSUME Gql!Init PROVE BuildInv
  <1>1. /\ objects = <<>> /\ roots = [r \in Gql!Roots |-> <<>>] /\ operations \in OperationLists
        /\ done = 0 /\ gqlWork = <<>> /\ failure = {}
    BY DEF Gql!Init
  <1>2. Len(operations) \in Nat
    BY <1>1, OperationsAssumption, LenProperties DEF IsSequence
  <1>3. DOMAIN objects = {} /\ Range(gqlWork) = {} /\ 1 .. done = {}
    BY <1>1 DEF Range
  <1>4. BuildTypes
    BY <1>1, <1>2 DEF BuildTypes
  <1>5. ObjectsInv /\ FramesInv
    BY <1>3 DEF ObjectsInv, FramesInv
  <1>6. OperationsInv
    BY <1>1, <1>3 DEF OperationsInv
  <1> QED
    BY <1>1, <1>4, <1>5, <1>6 DEF BuildInv

\* Every step keeps the invariant of Build.
LEMMA BuildKept == ASSUME BuildInv, ContractNext \/ UNCHANGED contract PROVE BuildInv'
  <1>1. CASE UNCHANGED types
    BY <1>1 DEF types, BuildInv, BuildTypes, ObjectsInv, FramesInv, OperationsInv, Refused, Reached, Seen, Gql!Running
  <1>2. CASE Gql!Next
    BY <1>2, WalkFieldKeeps, ObjectBuiltKeeps, BuildObjectKeeps, BuildFieldKeeps DEF Gql!Next
  <1> QED
    BY <1>1, <1>2 DEF ContractNext, Build, Generate, Serve, contract

\* What Build built is whole, and what it refused had a reason.
LEMMA BuiltIsWhole == ASSUME BuildInv PROVE BuiltOrRefused
  <1> DEFINE seen == 1 .. (done + IF failure = {} THEN 0 ELSE 1)
             walked == {operations[i] : i \in seen}
             reached == Closure(UNION {Gql!Wanted(op) : op \in walked})
             Typed == UNION ({Gql!Direct(op) : op \in walked} \cup {Range(SchemaTable[s].fields) : s \in reached})
             unnamed == \E p \in Typed : Unnamed(p)
             twice == \E i, j \in seen : i < j /\ operations[i].root = operations[j].root
                                               /\ operations[i].name = operations[j].name
  <1> SUFFICES ASSUME Gql!Done
               PROVE  /\ failure # {} <=> unnamed \/ twice
                      /\ failure = {} =>
                           /\ DOMAIN objects = reached
                           /\ \A op \in walked : op.name \in DOMAIN roots[op.root]
                           /\ UNION {UNION {objects[s][k].object : k \in DOMAIN objects[s]} : s \in DOMAIN objects}
                                \subseteq DOMAIN objects
    BY DEF BuiltOrRefused
  <1>1. /\ Len(operations) \in Nat /\ done \in Nat /\ done <= Len(operations)
        /\ (failure = {} => done = Len(operations)) /\ (failure # {} => done < Len(operations))
    BY SeenReached DEF BuildInv, BuildTypes, Gql!Done, Gql!Running
  <1>2. seen = 1 .. Seen /\ seen \subseteq 1 .. Len(operations)
    BY <1>1 DEF Seen
  <1>3. reached = Reached(Seen)
    <2>1. UNION {Gql!Wanted(op) : op \in walked} = WantedUpTo(operations, Seen)
      BY <1>2 DEF WantedUpTo
    <2> QED
      BY <2>1 DEF Reached
  <1>4. /\ ObjectsInv /\ OperationsInv /\ (failure # {} => Refused) /\ operations \in OperationLists
    BY DEF BuildInv, BuildTypes
  <1>5. reached \subseteq DOMAIN SchemaTable
    BY <1>3, SeenReached DEF BuildInv
  <1>6. \A i \in seen : operations[i] \in Range(operations) /\ operations[i].root \in Gql!Roots
    <2>1. DOMAIN operations = 1 .. Len(operations)
      BY <1>4, OperationsAssumption, LenProperties DEF IsSequence
    <2>2. \A i \in seen : operations[i] \in Range(operations)
      BY <1>2, <2>1 DEF Range
    <2> QED
      BY <1>4, <2>2, OperationsRefer
  <1>7. \A p \in Typed : Unnamed(p) <=> Gql!Nameless(p)
    <2>1. ASSUME NEW p \in Typed PROVE \E s \in DOMAIN SchemaTable : p \in FieldsOf(s)
      <3>1. CASE \E op \in walked : p \in Gql!Direct(op)
        BY <1>4, <1>6, <3>1, OperationsRefer
      <3>2. CASE \E s \in reached : p \in FieldsOf(s)
        BY <1>5, <3>2
      <3> QED
        BY <3>1, <3>2 DEF FieldsOf
    <2> QED
      BY <2>1, NamelessIsUnnamed
  <1>8. ASSUME failure # {} PROVE unnamed \/ twice
    <2>1. done + 1 \in seen /\ Seen = done + 1
      BY <1>1, <1>8 DEF Seen
    <2>2. Refused
      BY <1>4, <1>8
    <2>3. CASE \E p \in Gql!Direct(operations[done + 1]) : Gql!Nameless(p)
      BY <1>7, <2>1, <2>3
    <2>4. CASE \E s \in Reached(done + 1) : \E p \in FieldsOf(s) : Gql!Nameless(p)
      BY <1>3, <1>7, <2>1, <2>4 DEF FieldsOf
    <2>5. CASE operations[done + 1].name \in DOMAIN roots[operations[done + 1].root]
      <3>1. PICK i \in 1 .. done : /\ operations[i].root = operations[done + 1].root
                                   /\ operations[i].name = operations[done + 1].name
        BY <1>4, <1>6, <2>1, <2>5 DEF OperationsInv
      <3>2. i \in seen /\ i < done + 1
        BY <1>1, <1>8
      <3> QED
        BY <2>1, <3>1, <3>2
    <2> QED
      BY <2>2, <2>3, <2>4, <2>5 DEF Refused
  <1>9. ASSUME failure = {}
        PROVE  /\ ~unnamed /\ ~twice
               /\ DOMAIN objects = reached
               /\ \A op \in walked : op.name \in DOMAIN roots[op.root]
               /\ UNION {UNION {objects[s][k].object : k \in DOMAIN objects[s]} : s \in DOMAIN objects} \subseteq DOMAIN objects
    <2>1. seen = 1 .. done /\ Seen = done
      BY <1>1, <1>9 DEF Seen
    <2> HIDE DEF seen
    <2>2. /\ \A op \in walked : Gql!Wanted(op) \subseteq DOMAIN objects /\ \A p \in Gql!Direct(op) : ~Gql!Nameless(p)
          /\ DOMAIN objects \subseteq reached
          /\ \A s \in DOMAIN objects : objects[s] = Gql!Fields(s) /\ \A p \in FieldsOf(s) : Settled(p, DOMAIN objects)
      BY <1>3, <1>4, <2>1 DEF OperationsInv, ObjectsInv
    <2>3. reached \subseteq DOMAIN objects
      <3> DEFINE wanted == UNION {Gql!Wanted(op) : op \in walked}
      <3>1. wanted \subseteq DOMAIN objects /\ wanted \in SUBSET DOMAIN SchemaTable /\ DOMAIN objects \in SUBSET DOMAIN SchemaTable
        BY <1>5, <2>2
      <3>2. \A s \in DOMAIN objects : \A p \in FieldsOf(s) : Gql!Reference(p) \subseteq DOMAIN objects
        BY <2>2 DEF Settled
      <3>3. reached = Closure(wanted)
        OBVIOUS
      <3> HIDE DEF wanted, reached
      <3> QED
        BY <3>1, <3>2, <3>3, ClosureCloses
    <2>4. \A p \in Typed : ~Gql!Nameless(p)
      BY <2>2, <2>3 DEF Settled, FieldsOf
    <2>5. ~unnamed
      BY <1>7, <2>4
    <2>6. ~twice
      BY <1>4, <2>1 DEF OperationsInv
    <2>7. \A op \in walked : op.name \in DOMAIN roots[op.root]
      BY <1>4, <1>6, <2>1 DEF OperationsInv
    <2>8. ASSUME NEW s \in DOMAIN objects, NEW k \in DOMAIN objects[s] PROVE objects[s][k].object \subseteq DOMAIN objects
      <3> DEFINE fields == Gql!Range(SchemaTable[s].fields)
                 keys == {Gql!argKey(p) : p \in fields}
                 of == CHOOSE p \in fields : Gql!argKey(p) = k
      <3>1. objects[s] = Gql!Fields(s)
        BY <2>2
      <3>2. Gql!Fields(s) = [x \in keys |-> Gql!FieldType(CHOOSE p \in fields : Gql!argKey(p) = x)]
        BY DEF Gql!Fields
      <3>3. k \in keys /\ objects[s][k] = Gql!FieldType(of)
        BY <3>1, <3>2
      <3>4. of \in FieldsOf(s)
        BY <3>3, SameRange DEF FieldsOf
      <3> HIDE DEF of
      <3>5. Gql!FieldType(of).object = Gql!Reference(of)
        BY DEF Gql!FieldType, Gql!scalarOrListType
      <3> QED
        BY <2>2, <3>3, <3>4, <3>5 DEF Settled
    <2> HIDE DEF unnamed, twice, reached, walked
    <2>9. UNION {UNION {objects[s][k].object : k \in DOMAIN objects[s]} : s \in DOMAIN objects} \subseteq DOMAIN objects
      BY <2>8
    <2> QED
      BY <2>2, <2>3, <2>5, <2>6, <2>7, <2>9
  <1> HIDE DEF unnamed, twice, reached, walked
  <1> QED
    BY <1>8, <1>9

-----------------------------------------------------------------------------
(* The theorems about Contract. *)

ContractInv == DocInv /\ BuildInv

\* The invariant the two results below follow from: what Generate and Build still
\* have on their call stacks accounts for all that is missing from the document
\* and from the types, at every step of either.
THEOREM ContractInvariant == ContractSpec => []ContractInv
  <1>1. ContractInit => ContractInv
    BY DocStart, BuildStart DEF ContractInit, ContractInv
  <1>2. ContractInv /\ [ContractNext]_contract => ContractInv'
    BY DocKept, BuildKept DEF ContractInv
  <1> QED
    BY <1>1, <1>2, PTL DEF ContractSpec

\* Whatever the modules, however they import each other and in whatever order the
\* maps are walked: Generate ends with a document that has exactly the routes that
\* are not excluded, and behind each $ref the whole schema that was meant, also
\* where schemas refer to each other in circles.
THEOREM DocumentIsComplete == ContractSpec => []DocumentComplete
  <1>1. ContractInv => DocumentComplete
    BY DocumentWhole DEF ContractInv
  <1> QED
    BY <1>1, ContractInvariant, PTL

\* Whatever the operations and the schemas they reach: Build refuses two operations
\* of one name and a Custom without a scalar, however deep below an operation, and
\* nothing else; what it does not refuse is closed, each reachable object type
\* being there.
THEOREM BuildsOrRefuses == ContractSpec => []BuiltOrRefused
  <1>1. ContractInv => BuiltOrRefused
    BY BuiltIsWhole DEF ContractInv
  <1> QED
    BY <1>1, ContractInvariant, PTL

\* Contract implements Parsing: its calls of Parse are those of Parsing alone, so
\* that every result about a call holds of the application that has built its types
\* and its document before.
THEOREM ServesCalls == ContractSpec => ParseSpec
  <1>1. ContractInit => ParseInit
    BY DEF ContractInit
  <1>2. [ContractNext]_contract => [ParseNext]_parsing
    BY DEF ContractNext, contract, Build, Generate, Serve
  <1> QED
    BY <1>1, <1>2, PTL DEF ContractSpec, ParseSpec
=============================================================================
