---------------------------------- MODULE Emitter ----------------------------------
(***************************************************************************)
(* The event bus, for one event type (internal/emitter): Emit is called    *)
(* from many goroutines, runs every Listener in a goroutine of its own and *)
(* offers the event to every subscriber's raw channel; Subscribe's         *)
(* forwarding goroutine moves events on to the channel the caller reads.   *)
(***************************************************************************)
EXTENDS Naturals, Sequences, FiniteSets, SequencesExt

CONSTANTS
  Emission,     \* calls of Emit; each emits one event, named like the call
  Listener,     \* listeners declared at bootstrap
  Subscriber,   \* calls of Subscribe
  Capacity,     \* subscribeBufferSize: 16 in the code
  Nothing       \* no event

ASSUME EmitterAssumption ==
  /\ Capacity \in Nat \ {0}
  /\ Nothing \notin Emission

VARIABLES
  subscribers,  \* e.subscribers[t]: the raw channels, in order
  emission,     \* each Emit call: "new", "offering", "returned"
  todo,         \* the copy of subscribersFor a call still has to offer to
  task,         \* the goroutine of each listener for each event
  raw,          \* events buffered in each raw channel
  fwd,          \* each forwarding goroutine
  held,         \* the event it has taken from raw
  out,          \* events buffered in each caller-facing channel
  outClosed,    \* caller-facing channels that are closed
  done,         \* subscribers whose done channel is closed
  received,     \* events each subscriber's reader got
  dropped,      \* events Emit found no room for, per subscriber
  before        \* history: calls that had returned when each call began

vars == <<subscribers, emission, todo, task, raw, fwd, held, out, outClosed, done,
          received, dropped, before>>

emitterVars == <<subscribers, emission, todo, task, dropped, before>>
channelVars == <<raw, fwd, held, out, outClosed>>

Init ==
  /\ subscribers = <<>>
  /\ emission = [e \in Emission |-> "new"]
  /\ todo = [e \in Emission |-> <<>>]
  /\ task = [e \in Emission |-> [l \in Listener |-> "none"]]
  /\ raw = [s \in Subscriber |-> <<>>]
  /\ fwd = [s \in Subscriber |-> "none"]
  /\ held = [s \in Subscriber |-> Nothing]
  /\ out = [s \in Subscriber |-> <<>>]
  /\ outClosed = {}
  /\ done = {}
  /\ received = [s \in Subscriber |-> <<>>]
  /\ dropped = [s \in Subscriber |-> {}]
  /\ before = [e \in Emission |-> {}]

--------------------------------------------------------------------------------
(* Emit: one goroutine per listener, then a non-blocking send to each      *)
(* subscriber of a copy of the list.                                       *)
Emit(e) ==
  /\ emission[e] = "new"
  /\ emission' = [emission EXCEPT ![e] = "listeners"]
  /\ task' = [task EXCEPT ![e] = [l \in Listener |-> "running"]]
  /\ before' = [before EXCEPT ![e] = {f \in Emission : emission[f] = "returned"}]
  /\ UNCHANGED <<subscribers, todo, dropped, channelVars, done, received>>

CopySubscribers(e) ==
  /\ emission[e] = "listeners"
  /\ emission' = [emission EXCEPT ![e] = "offering"]
  /\ todo' = [todo EXCEPT ![e] = subscribers]
  /\ UNCHANGED <<subscribers, task, dropped, before, channelVars, done, received>>

\* Mutants of Offer: the last place of the buffer is never used; Emit waits for
\* room; an event goes past the forwarding goroutine.
OfferInto(e, room, queue) ==
  /\ emission[e] = "offering"
  /\ todo[e] # <<>>
  /\ LET s == Head(todo[e]) IN
       IF Len(raw[s]) < room
       THEN raw' = [raw EXCEPT ![s] = queue] /\ UNCHANGED dropped
       ELSE dropped' = [dropped EXCEPT ![s] = @ \cup {e}] /\ UNCHANGED raw
  /\ todo' = [todo EXCEPT ![e] = Tail(@)]
  /\ UNCHANGED <<subscribers, emission, task, before, fwd, held, out, outClosed, done, received>>

OfferOneTooFew(e) ==
  todo[e] # <<>> /\ OfferInto(e, Capacity - 1, Append(raw[Head(todo[e])], e))

OfferBlocks(e) ==
  /\ todo[e] # <<>> /\ Len(raw[Head(todo[e])]) < Capacity
  /\ OfferInto(e, Capacity, Append(raw[Head(todo[e])], e))

OfferStraight(e) ==
  \/ todo[e] # <<>> /\ Len(out[Head(todo[e])]) = Capacity /\ OfferInto(e, Capacity, Append(raw[Head(todo[e])], e))
  \/ /\ emission[e] = "offering"
     /\ todo[e] # <<>>
     /\ Len(out[Head(todo[e])]) < Capacity
     /\ out' = [out EXCEPT ![Head(todo[e])] = Append(@, e)]
     /\ todo' = [todo EXCEPT ![e] = Tail(@)]
     /\ UNCHANGED <<subscribers, emission, task, dropped, before, raw, fwd, held, outClosed, done, received>>

Offer(e) ==
  /\ emission[e] = "offering"
  /\ todo[e] # <<>>
  /\ LET s == Head(todo[e]) IN
       IF Len(raw[s]) < Capacity
       THEN raw' = [raw EXCEPT ![s] = Append(@, e)] /\ UNCHANGED dropped
       ELSE dropped' = [dropped EXCEPT ![s] = @ \cup {e}] /\ UNCHANGED raw
  /\ todo' = [todo EXCEPT ![e] = Tail(@)]
  /\ UNCHANGED <<subscribers, emission, task, before, fwd, held, out, outClosed, done, received>>

EmitReturns(e) ==
  /\ emission[e] = "offering"
  /\ todo[e] = <<>>
  /\ emission' = [emission EXCEPT ![e] = "returned"]
  /\ UNCHANGED <<subscribers, todo, task, dropped, before, channelVars, done, received>>

\* The handler returns, returns an error or panics: the last two are logged.
ListenerEnds(e, l) ==
  /\ task[e][l] = "running"
  /\ task' = [task EXCEPT ![e][l] = "ended"]
  /\ UNCHANGED <<subscribers, emission, todo, dropped, before, channelVars, done, received>>

--------------------------------------------------------------------------------
(* Subscribe and its forwarding goroutine.                                 *)
Subscribe(s) ==
  /\ fwd[s] = "none"
  /\ subscribers' = Append(subscribers, s)
  /\ fwd' = [fwd EXCEPT ![s] = "select"]
  /\ UNCHANGED <<emission, todo, task, dropped, before, raw, held, out, outClosed, done, received>>

Take(s) ==
  /\ fwd[s] = "select"
  /\ raw[s] # <<>>
  /\ fwd' = [fwd EXCEPT ![s] = "holding"]
  /\ held' = [held EXCEPT ![s] = Head(raw[s])]
  /\ raw' = [raw EXCEPT ![s] = Tail(@)]
  /\ UNCHANGED <<emitterVars, out, outClosed, done, received>>

\* Mutant of Pass: an event that finds out full is thrown away.
PassLoses(s) ==
  /\ fwd[s] = "holding"
  /\ fwd' = [fwd EXCEPT ![s] = "select"]
  /\ out' = [out EXCEPT ![s] = IF Len(@) < Capacity THEN Append(@, held[s]) ELSE @]
  /\ held' = [held EXCEPT ![s] = Nothing]
  /\ UNCHANGED <<emitterVars, raw, outClosed, done, received>>

Pass(s) ==
  /\ fwd[s] = "holding"
  /\ Len(out[s]) < Capacity
  /\ fwd' = [fwd EXCEPT ![s] = "select"]
  /\ out' = [out EXCEPT ![s] = Append(@, held[s])]
  /\ held' = [held EXCEPT ![s] = Nothing]
  /\ UNCHANGED <<emitterVars, raw, outClosed, done, received>>

\* Either select may pick done as soon as it is closed: removeSubscriber, and
\* the deferred close(out).  A raw channel is never closed.
Unsubscribe(s) ==
  /\ fwd[s] \in {"select", "holding"}
  /\ s \in done
  /\ fwd' = [fwd EXCEPT ![s] = "removed"]
  /\ \E i \in DOMAIN subscribers :
       subscribers[i] = s /\ subscribers' = RemoveAt(subscribers, i)
  /\ UNCHANGED <<emission, todo, task, dropped, before, raw, held, out, outClosed, done, received>>

CloseOut(s) ==
  /\ fwd[s] = "removed"
  /\ fwd' = [fwd EXCEPT ![s] = "gone"]
  /\ outClosed' = outClosed \cup {s}
  /\ UNCHANGED <<emitterVars, raw, held, out, done, received>>

--------------------------------------------------------------------------------
(* The caller of Subscribe: it reads, and it closes done.                  *)
Read(s) ==
  /\ out[s] # <<>>
  /\ received' = [received EXCEPT ![s] = Append(@, Head(out[s]))]
  /\ out' = [out EXCEPT ![s] = Tail(@)]
  /\ UNCHANGED <<emitterVars, raw, fwd, held, outClosed, done>>

Finish(s) ==
  /\ fwd[s] # "none"
  /\ s \notin done
  /\ done' = done \cup {s}
  /\ UNCHANGED <<emitterVars, channelVars, received>>

--------------------------------------------------------------------------------
EmitStep(e) == CopySubscribers(e) \/ Offer(e) \/ EmitReturns(e)
Forward(s) == Take(s) \/ Pass(s)
Leave(s) == Unsubscribe(s) \/ CloseOut(s)

Next ==
  \/ \E e \in Emission : Emit(e) \/ EmitStep(e)
  \/ \E e \in Emission, l \in Listener : ListenerEnds(e, l)
  \/ \E s \in Subscriber : Subscribe(s) \/ Forward(s) \/ Leave(s) \/ Read(s) \/ Finish(s)

Spec == Init /\ [][Next]_vars

\* Goroutines run.  A select that always has both cases ready picks each
\* sooner or later, so leaving is strongly fair; listeners are assumed to
\* return and the caller to read.
Fairness ==
  /\ \A e \in Emission : WF_vars(EmitStep(e))
  /\ \A e \in Emission, l \in Listener : WF_vars(ListenerEnds(e, l))
  /\ \A s \in Subscriber : WF_vars(Forward(s)) /\ SF_vars(Leave(s)) /\ WF_vars(Read(s))

FairSpec == Spec /\ Fairness

--------------------------------------------------------------------------------
\* Neither channel of a subscriber holds more than Capacity events.
TypeOK ==
  /\ subscribers \in Seq(Subscriber)
  /\ emission \in [Emission -> {"new", "listeners", "offering", "returned"}]
  /\ todo \in [Emission -> Seq(Subscriber)]
  /\ task \in [Emission -> [Listener -> {"none", "running", "ended"}]]
  /\ raw \in [Subscriber -> BoundedSeq(Emission, Capacity)]
  /\ fwd \in [Subscriber -> {"none", "select", "holding", "removed", "gone"}]
  /\ held \in [Subscriber -> Emission \cup {Nothing}]
  /\ out \in [Subscriber -> BoundedSeq(Emission, Capacity)]
  /\ outClosed \subseteq Subscriber
  /\ done \subseteq Subscriber
  /\ received \in [Subscriber -> Seq(Emission)]
  /\ dropped \in [Subscriber -> SUBSET Emission]
  /\ before \in [Emission -> SUBSET Emission]

--------------------------------------------------------------------------------
(* Safety.                                                                 *)

\* The events on their way to a subscriber's reader, oldest first.
Pipeline(s) ==
  received[s] \o out[s]
    \o (IF held[s] = Nothing THEN <<>> ELSE <<held[s]>>) \o raw[s]

\* An event is dropped only for a subscriber with Capacity older events that
\* its reader had not received when it was dropped.
DropOnlyWhenFull ==
  [][\A s \in Subscriber :
       dropped'[s] # dropped[s] =>
         Len(Pipeline(s)) - Len(received[s]) >= Capacity]_vars

\* Events arrive once each and in the order of the calls: an event whose Emit
\* began after another Emit had returned is never ahead of the other's
\* (concurrent calls may arrive either way), and none is both delivered and
\* dropped, whichever channel or goroutine has it.
InOrder ==
  \A s \in Subscriber :
    /\ \A i, j \in DOMAIN Pipeline(s) :
         i < j => /\ Pipeline(s)[i] # Pipeline(s)[j]
                  /\ Pipeline(s)[j] \notin before[Pipeline(s)[i]]
    /\ Range(Pipeline(s)) \cap dropped[s] = {}

--------------------------------------------------------------------------------
(* Liveness.                                                               *)

\* Every listener runs to its end for every event, and every call of Emit
\* returns although no reader has to read.
EmitReturnsAlways ==
  \A e \in Emission :
    (emission[e] # "new") ~>
      (emission[e] = "returned" /\ \A l \in Listener : task[e][l] = "ended")

\* An event that was not dropped reaches a reader that keeps reading.
Delivered ==
  \A e \in Emission, s \in Subscriber :
    (e \in Range(raw[s])) ~> (e \in Range(received[s]) \/ s \in done)
================================================================================
