------------------------------- MODULE SseDistinct -------------------------------
(***************************************************************************)
(* A Subscription over graphql-sse's distinct connections mode             *)
(* (streamSSEDistinctSubscription in internal/graphql/sse_distinct.go):    *)
(* the body of res.Stream and the goroutine of the Subscription's handler  *)
(* share the writer and two channels, done and handlerDone.                *)
(*                                                                         *)
(* A successful heartbeat changes nothing and is not a step.               *)
(***************************************************************************)
EXTENDS Naturals, Sequences

CONSTANT MaxEmits   \* bound: values the handler emits

VARIABLES
  body,         \* res.Stream's function: "loop", "completing" or "returned"
  handler,      \* the handler's goroutine: "running" or "returned"
  gone,         \* the client has dropped the connection
  done,         \* the channel behind ctx.Done() is closed
  emits,        \* values emitted so far
  sent,         \* frames that reached the client
  fault         \* a panic nobody recovers

vars == <<body, handler, gone, done, emits, sent, fault>>

Init ==
  /\ body = "loop"
  /\ handler = "running"
  /\ gone = FALSE
  /\ done = FALSE
  /\ emits = 0
  /\ sent = <<>>
  /\ fault = "none"

--------------------------------------------------------------------------------
Running == fault = "none"

\* emit: a write that fails closes done.  A write can succeed without reaching
\* a client that has just dropped; after the body returned, the writer belongs
\* to somebody else.
Emit(ok) ==
  /\ handler = "running"
  /\ emits < MaxEmits
  /\ emits' = emits + 1
  /\ ok \/ gone \/ body = "returned"
  /\ done' = (done \/ ~ ok)
  /\ sent' = IF ok /\ ~ gone /\ body # "returned" THEN Append(sent, "next") ELSE sent
  /\ UNCHANGED <<body, handler, gone, fault>>

\* The deferred close(handlerDone).
HandlerReturns ==
  /\ handler = "running"
  /\ handler' = "returned"
  /\ UNCHANGED <<body, gone, done, emits, sent, fault>>

\* The goroutine has no recover of its own.
HandlerPanics ==
  /\ handler = "running"
  /\ fault' = "handler panic"
  /\ UNCHANGED <<body, handler, gone, done, emits, sent>>

\* Mutant of HandlerDoneSeen: the body does not wait for handlerDone.
HandlerDoneNotAwaited ==
  /\ body = "loop"
  /\ body' = "completing"
  /\ done' = TRUE
  /\ UNCHANGED <<handler, gone, emits, sent, fault>>

HandlerDoneSeen ==
  /\ body = "loop"
  /\ handler = "returned"
  /\ body' = "completing"
  /\ done' = TRUE
  /\ UNCHANGED <<handler, gone, emits, sent, fault>>

\* Mutant of HeartbeatFails: the handler is not told.
HeartbeatFailsSilently ==
  /\ body = "loop"
  /\ gone
  /\ body' = "completing"
  /\ UNCHANGED <<handler, gone, done, emits, sent, fault>>

HeartbeatFails ==
  /\ body = "loop"
  /\ gone
  /\ body' = "completing"
  /\ done' = TRUE
  /\ UNCHANGED <<handler, gone, emits, sent, fault>>

\* The final frame, whose failure is ignored; then the writer is given back.
WriteComplete ==
  /\ body = "completing"
  /\ body' = "returned"
  /\ sent' = IF gone THEN sent ELSE Append(sent, "complete")
  /\ UNCHANGED <<handler, gone, done, emits, fault>>

ClientDrops ==
  /\ ~ gone
  /\ gone' = TRUE
  /\ UNCHANGED <<body, handler, done, emits, sent, fault>>

BodyStep == HandlerDoneSeen \/ HeartbeatFails \/ WriteComplete

Next ==
  /\ Running
  /\ \/ \E ok \in BOOLEAN : Emit(ok)
     \/ HandlerReturns \/ HandlerPanics
     \/ BodyStep
     \/ ClientDrops

Spec == Init /\ [][Next]_vars

\* The body runs, heartbeats come, and a handler that is told returns.
Fairness ==
  /\ WF_vars(Running /\ BodyStep)
  /\ WF_vars(Running /\ done /\ HandlerReturns)

FairSpec == Spec /\ Fairness

--------------------------------------------------------------------------------
\* The body leaves its loop only after it has closed done.
TypeOK ==
  /\ body \in {"loop", "completing", "returned"}
  /\ handler \in {"running", "returned"}
  /\ gone \in BOOLEAN
  /\ done \in IF body = "loop" THEN BOOLEAN ELSE {TRUE}
  /\ emits \in 0..MaxEmits
  /\ sent \in Seq({"next", "complete"})
  /\ fault \in {"none", "handler panic"}

\* What the client sees is a row of next frames and then one complete frame,
\* which it sees only when the handler has returned: nothing follows complete,
\* and a stream that was cut off does not look finished.
CompleteIsLast ==
  /\ \A i \in DOMAIN sent : sent[i] = "complete" => i = Len(sent) /\ handler = "returned"
  /\ Len(sent) <= emits + 1

\* A client that stays sees the end of a stream whose handler returns; a
\* client that leaves takes both goroutines with it.
StreamEnds ==
  /\ (handler = "returned" /\ ~ gone) ~> (sent # <<>> /\ sent[Len(sent)] = "complete") \/ gone
  /\ gone ~> (body = "returned" /\ handler = "returned") \/ ~ Running
================================================================================
