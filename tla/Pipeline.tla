--------------------------------- MODULE Pipeline ---------------------------------
(***************************************************************************)
(* One request through the handler registerRoutes composes for a route     *)
(* (internal/app) under the fiber adapter's recover (internal/adapter):    *)
(*                                                                         *)
(*   adapter ( filters ( middleware ( guards ( interceptors ( handler )))))*)
(*                                                                         *)
(* The composition is a chain of closures, each of which calls the next    *)
(* one, so the call stack of a request is always a prefix of it and is     *)
(* given by its depth.  What the dev's code does is chosen freely: it may  *)
(* call next or not, or again after it returned, write the response,       *)
(* panic, and recover from a panic of what it called.  Requests share      *)
(* nothing in this code, so one request stands for all.                    *)
(***************************************************************************)
EXTENDS Naturals, Sequences, FiniteSets

CONSTANTS
  GlobalMiddleware,      \* how many the root module uses
  ControllerMiddleware,  \* how many the controller uses
  Guards,                \* how many guards the controller has
  Interceptors,          \* how many interceptors the controller has
  Filter,                \* the filters, of both levels
  ControllerFilters,     \* sequence of Filters: the controller's
  GlobalFilters,         \* sequence of Filters: the root module's
  Exception,             \* exception types, ForbiddenException among them
  Forbidden,
  PlainError,            \* a panic value that is no exception.Exception
  Nothing,
  MaxCalls               \* a bound: how often one stage calls next

ASSUME ChainAssumption ==
  /\ GlobalMiddleware \in Nat /\ ControllerMiddleware \in Nat
  /\ Guards \in Nat /\ Interceptors \in Nat /\ MaxCalls \in Nat \ {0}

ASSUME FilterAssumption ==
  /\ ControllerFilters \in Seq(Filter) /\ GlobalFilters \in Seq(Filter)
  /\ Nothing \notin Filter

ASSUME ValueAssumption ==
  /\ Forbidden \in Exception /\ PlainError \notin Exception
  /\ Nothing \notin Exception \cup {PlainError}

Value == Exception \cup {PlainError}

--------------------------------------------------------------------------------
(* The composition: the depth of each layer on the call stack.             *)

Adapter == 1
Filtered == 2
composeHandler == 3..(2 + GlobalMiddleware + ControllerMiddleware)
gatedHandler == 3 + GlobalMiddleware + ControllerMiddleware
interceptedHandler == (gatedHandler + 1)..(gatedHandler + Interceptors)
Handler == gatedHandler + Interceptors + 1

Continuations == composeHandler \cup interceptedHandler
Depths == 1..Handler

(***************************************************************************)
(* catches  the exception types each Filter has a Catch for                *)
(* at       the layer that runs: the layers above it wait for it           *)
(* mode     what it does: running, panicking (its deferred calls run), in  *)
(*          a filter's Catch handler, or the request has ended             *)
(* calls    how often each layer on the stack has called next              *)
(* passed   how many guards let this pass of the gate through              *)
(* value    the value of the panic on its way up, or the one being caught  *)
(* catcher  the Filter whose Catch handler was called                      *)
(* answer   who wrote the response last, and for which value               *)
(***************************************************************************)
VARIABLES catches, at, mode, calls, passed, value, catcher, answer

vars == <<catches, at, mode, calls, passed, value, catcher, answer>>

Init ==
  /\ catches \in [Filter -> SUBSET Exception]
  /\ at = Adapter /\ mode = "running"
  /\ calls = [d \in Depths |-> 0] /\ passed = 0
  /\ value = Nothing /\ catcher = Nothing
  /\ answer = [by |-> "nobody", to |-> Nothing]

\* Code of the dev: a layer's function, or the next guard the gate asks.
Asking == at = gatedHandler /\ passed < Guards /\ calls[at] = 0
Dev == mode = "running" /\ (at \in Continuations \cup {Handler} \/ Asking)

Enter ==
  /\ at' = at + 1
  /\ calls' = [calls EXCEPT ![at] = @ + 1, ![at + 1] = 0]
  /\ passed' = IF at + 1 = gatedHandler THEN 0 ELSE passed

\* The adapter, the filters' closure and withRoute call what they wrap, once.
CallWrapped ==
  /\ mode = "running" /\ at \in {Adapter, Filtered} /\ calls[at] = 0
  /\ Enter
  /\ UNCHANGED <<catches, mode, value, catcher, answer>>

\* A middleware or an interceptor calls next.
CallNext ==
  /\ mode = "running" /\ at \in Continuations /\ calls[at] < MaxCalls
  /\ Enter
  /\ UNCHANGED <<catches, mode, value, catcher, answer>>

\* A guard returns true; the last one's true lets the gate call what it wraps.
GuardPasses ==
  /\ mode = "running" /\ Asking
  /\ passed' = passed + 1
  /\ UNCHANGED <<catches, at, mode, calls, value, catcher, answer>>

\* Mutant: one guard's yes is enough.
GateOpensForOne ==
  /\ mode = "running" /\ at = gatedHandler /\ (passed > 0 \/ Guards = 0) /\ calls[at] = 0
  /\ Enter
  /\ UNCHANGED <<catches, mode, value, catcher, answer>>

GateOpens ==
  /\ mode = "running" /\ at = gatedHandler /\ passed = Guards /\ calls[at] = 0
  /\ Enter
  /\ UNCHANGED <<catches, mode, value, catcher, answer>>

PanicWith(v) == mode' = "panicking" /\ value' = v

\* A guard returns false: gatedHandler panics with a ForbiddenException.
GuardRefuses ==
  /\ mode = "running" /\ Asking
  /\ PanicWith(Forbidden)
  /\ UNCHANGED <<catches, at, calls, passed, catcher, answer>>

DevPanics(v) ==
  /\ Dev /\ PanicWith(v)
  /\ UNCHANGED <<catches, at, calls, passed, catcher, answer>>

DevResponds ==
  /\ Dev
  /\ answer' = [by |-> "dev", to |-> Nothing]
  /\ UNCHANGED <<catches, at, mode, calls, passed, value, catcher>>

\* A layer returns to the one above it; a guard cannot, it answers true or false.
Return ==
  /\ mode = "running"
  /\ \/ at \in Continuations \cup {Handler}
     \/ at \in {Filtered, gatedHandler} /\ calls[at] = 1
  /\ at' = at - 1
  /\ UNCHANGED <<catches, mode, calls, passed, value, catcher, answer>>

RequestEnds ==
  /\ mode = "running" /\ at = Adapter /\ calls[at] = 1
  /\ mode' = "ended"
  /\ UNCHANGED <<catches, at, calls, passed, value, catcher, answer>>

\* The panic leaves a layer that has no recover.
Unwind ==
  /\ mode = "panicking" /\ at > Filtered
  /\ at' = at - 1
  /\ UNCHANGED <<catches, mode, calls, passed, value, catcher, answer>>

\* A middleware or an interceptor of the dev's recovers from it.
DevRecovers ==
  /\ mode = "panicking" /\ at \in Continuations
  /\ mode' = "running" /\ value' = Nothing /\ at' = at - 1
  /\ UNCHANGED <<catches, calls, passed, catcher, answer>>

\* findCatch: the first filter with a Catch for exactly this type, if there is one.
findCatch(filters, v) ==
  {i \in DOMAIN filters : v \in catches[filters[i]]
     /\ \A j \in DOMAIN filters : j < i => v \notin catches[filters[j]]}

notFound(filters, v) == \A i \in DOMAIN filters : v \notin catches[filters[i]]

CatchWith(filters) ==
  /\ \E i \in findCatch(filters, value) : catcher' = filters[i]
  /\ mode' = "catching"
  /\ UNCHANGED <<catches, at, calls, passed, value, answer>>

\* filteredHandler: the controller's filters, then the root module's.
CatchByController ==
  /\ mode = "panicking" /\ at = Filtered /\ value \in Exception
  /\ CatchWith(ControllerFilters)

\* Mutant: a global filter may overrule the controller's.
CatchByAnyGlobal ==
  /\ mode = "panicking" /\ at = Filtered /\ value \in Exception
  /\ CatchWith(GlobalFilters)

CatchByGlobal ==
  /\ mode = "panicking" /\ at = Filtered /\ value \in Exception
  /\ notFound(ControllerFilters, value)
  /\ CatchWith(GlobalFilters)

\* Not caught by any Filter: panic again, for the adapter.
Repanic ==
  /\ mode = "panicking" /\ at = Filtered
  /\ value \in Exception =>
       notFound(ControllerFilters, value) /\ notFound(GlobalFilters, value)
  /\ at' = Adapter
  /\ UNCHANGED <<catches, mode, calls, passed, value, catcher, answer>>

\* The Catch handler: it runs in a deferred call, so its own panic goes to the
\* adapter and no other filter.
CatchResponds ==
  /\ mode = "catching"
  /\ answer' = [by |-> "filter", to |-> value]
  /\ UNCHANGED <<catches, at, mode, calls, passed, value, catcher>>

CatchReturns ==
  /\ mode = "catching"
  /\ mode' = "running" /\ at' = Adapter
  /\ UNCHANGED <<catches, calls, passed, value, catcher, answer>>

CatchPanics(v) ==
  /\ mode = "catching"
  /\ PanicWith(v) /\ at' = Adapter
  /\ UNCHANGED <<catches, calls, passed, catcher, answer>>

\* Mutant: the wrapper recovers exceptions only.
RecoverExceptions ==
  /\ mode = "panicking" /\ at = Adapter /\ value \in Exception
  /\ answer' = [by |-> "adapter", to |-> value]
  /\ mode' = "ended"
  /\ UNCHANGED <<catches, at, calls, passed, value, catcher>>

\* The recover of RegisterRoute's wrapper writes the default answer: the
\* exception's own status and body, or the generic 500.
AdapterRecovers ==
  /\ mode = "panicking" /\ at = Adapter
  /\ answer' = [by |-> "adapter", to |-> value]
  /\ mode' = "ended"
  /\ UNCHANGED <<catches, at, calls, passed, value, catcher>>

Filters == CatchByController \/ CatchByGlobal \/ Repanic
Moves ==
  \/ CallWrapped \/ CallNext \/ GuardPasses \/ GateOpens \/ GuardRefuses
  \/ Return \/ RequestEnds \/ Unwind \/ Filters \/ CatchReturns \/ AdapterRecovers

Next ==
  \/ Moves
  \/ DevResponds \/ DevRecovers \/ CatchResponds
  \/ \E v \in Value : DevPanics(v) \/ CatchPanics(v)

Spec == Init /\ [][Next]_vars

\* The request's goroutine runs; the dev's functions return, having called next
\* MaxCalls times at the most.
FairSpec == Spec /\ WF_vars(Moves)

--------------------------------------------------------------------------------
\* Every variable holds a value of its type.
TypeOK ==
  /\ catches \in [Filter -> SUBSET Exception]
  /\ at \in Depths
  /\ mode \in {"running", "panicking", "catching", "ended"}
  /\ calls \in [Depths -> 0..MaxCalls]
  /\ passed \in 0..Guards
  /\ value \in Value \cup {Nothing}
  /\ catcher \in Filter \cup {Nothing}
  /\ answer \in [by : {"nobody", "dev", "filter", "adapter"}, to : Value \cup {Nothing}]

\* No interceptor and no handler runs before all of the controller's guards let
\* this pass through: not on a second call of next either, and not after a
\* refusal that a middleware recovered from.
GuardsFirst ==
  mode = "running" /\ at \in interceptedHandler \cup {Handler} => passed = Guards

\* The filters as the documentation orders them, the more specific scope first,
\* and the place of the first one that catches a value.
NearestFirst == ControllerFilters \o GlobalFilters
Nearest(v) ==
  {i \in DOMAIN NearestFirst : v \in catches[NearestFirst[i]]
     /\ \A j \in DOMAIN NearestFirst : j < i => v \notin catches[NearestFirst[j]]}

\* A Catch handler that runs is the nearest filter's for the value.  The default
\* answer is the last word on a request, and only for what no filter catches or
\* what a Catch handler panicked with.
CaughtByNearest ==
  /\ mode = "catching" => \E i \in Nearest(value) : catcher = NearestFirst[i]
  /\ answer.by = "adapter" =>
       /\ mode = "ended" /\ answer.to = value
       /\ catcher = Nothing => Nearest(value) = {}

\* Every request ends with its call stack gone, whatever panics on the way.
Answered == <>(mode = "ended" /\ at = Adapter)

--------------------------------------------------------------------------------
(* The inductive invariant.                                                *)

\* Behind the gate, whatever the mode: the guards let this pass through.
GateInv == at > gatedHandler => passed = Guards

\* What the adapter receives is caught by no filter or comes from a handler.
AdapterInv ==
  mode = "panicking" /\ at = Adapter /\ catcher = Nothing => Nearest(value) = {}

IInv == TypeOK /\ GateInv /\ AdapterInv /\ CaughtByNearest
================================================================================
