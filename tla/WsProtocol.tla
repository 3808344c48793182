------------------------------- MODULE WsProtocol -------------------------------
(***************************************************************************)
(* One WebSocket connection of the graphql-transport-ws protocol           *)
(* (internal/graphql/ws_protocol.go): the read loop of WSProtocolHandler,  *)
(* and the goroutine of each Subscription it started.  They share the      *)
(* connection and activeOps, the table of the done channels of the streams *)
(* that are still active, by the id the client chose.                      *)
(*                                                                         *)
(* Frames are what the client may send in any order, and the client may    *)
(* drop the connection at any time.                                        *)
(***************************************************************************)
EXTENDS Naturals

CONSTANTS
  Id,           \* operation ids the client uses
  Stream,       \* goroutines of Subscription handlers
  NoStream,
  MaxFrames     \* bound: frames the client sends

ASSUME WsAssumption ==
  /\ NoStream \notin Stream
  /\ Stream \cap {"nobody", "client", "teardown"} = {}
  /\ MaxFrames \in Nat

VARIABLES
  reader,       \* the handler: "first", "loop", "leaving" or "ended"
  conn,         \* "open" or "closed", by either side
  code,         \* the close code the server sent
  acked,        \* ConnectionInit was answered
  frames,       \* frames read so far
  activeOps,    \* the stream registered under each id
  routine,      \* each stream's goroutine
  idOf,         \* the id each stream was started with
  closedBy,     \* who closed each stream's done channel
  fault         \* a panic nobody recovers: it ends the process

vars == <<reader, conn, code, acked, frames, activeOps, routine, idOf,
          closedBy, fault>>

connection == <<conn, code, acked, frames>>

Init ==
  /\ reader = "first"
  /\ conn = "open"
  /\ code = 0
  /\ acked = FALSE
  /\ frames = 0
  /\ activeOps = [i \in Id |-> NoStream]
  /\ routine = [s \in Stream |-> "new"]
  /\ idOf \in [Stream -> Id]
  /\ closedBy = [s \in Stream |-> "nobody"]
  /\ fault = "none"

--------------------------------------------------------------------------------
\* Closing a channel again panics.
CloseDone(S, who) ==
  /\ closedBy' = [s \in Stream |-> IF s \in S THEN who ELSE closedBy[s]]
  /\ fault' = IF \E s \in S : closedBy[s] # "nobody" THEN "double close" ELSE fault

\* Mutant of StopOp: the id stays in the table.
StopOpListed(id, who) ==
  /\ UNCHANGED activeOps
  /\ CloseDone({activeOps[id]} \ {NoStream}, who)

\* stopOp: whatever stream is registered under the id is removed and told.
StopOp(id, who) ==
  /\ activeOps' = [activeOps EXCEPT ![id] = NoStream]
  /\ CloseDone({activeOps[id]} \ {NoStream}, who)

isOpActive(id) == activeOps[id] # NoStream

registerOp(id, s) == activeOps' = [activeOps EXCEPT ![id] = s]

ops == <<activeOps, routine, closedBy, fault>>

--------------------------------------------------------------------------------
(* The read loop.  A frame that was received is handled to its end before  *)
(* the next one is read.                                                   *)
Receive ==
  /\ reader \in {"first", "loop"}
  /\ frames < MaxFrames
  /\ frames' = frames + 1

\* writeJSON fails only on a connection that is closed.
WriteOutcome(ok) == ok \/ conn = "closed"

KeepReading == reader' = "loop" /\ UNCHANGED <<conn, code>>
Leave == reader' = "leaving" /\ UNCHANGED <<conn, code>>
After(ok) == WriteOutcome(ok) /\ (IF ok THEN KeepReading ELSE Leave)

\* conn.CloseWithCode, then return.
CloseWith(c) ==
  /\ conn' = "closed"
  /\ code' = c
  /\ reader' = "leaving"

ConnectionInit(ok) ==
  /\ Receive
  /\ IF acked
     THEN CloseWith(4429) /\ UNCHANGED acked
     ELSE acked' = TRUE /\ After(ok)
  /\ UNCHANGED <<ops, idOf>>

Ping(ok) ==
  /\ Receive
  /\ After(ok)
  /\ UNCHANGED <<acked, ops, idOf>>

\* A frame that is not JSON, or of a type the protocol does not have.
InvalidMessage ==
  /\ Receive
  /\ CloseWith(4400)
  /\ UNCHANGED <<acked, ops, idOf>>

\* Subscribe is refused before the ack, and for an id that is still active.
SubscribeRefused(id) ==
  /\ Receive
  /\ ~ acked \/ isOpActive(id)
  /\ CloseWith(IF acked THEN 4409 ELSE 4401)
  /\ UNCHANGED <<acked, ops, idOf>>

\* A Query or Mutation is answered by Next and Complete, a payload or query
\* that does not parse by Error: nothing is registered.
SubscribeAnswered(id, ok) ==
  /\ Receive
  /\ acked /\ ~ isOpActive(id)
  /\ After(ok)
  /\ UNCHANGED <<acked, activeOps, routine, closedBy, fault, idOf>>

\* A Subscription: its done channel is registered and its goroutine started.
SubscribeStream(s) ==
  /\ Receive
  /\ acked /\ ~ isOpActive(idOf[s])
  /\ routine[s] = "new"
  /\ registerOp(idOf[s], s)
  /\ routine' = [routine EXCEPT ![s] = "running"]
  /\ KeepReading
  /\ UNCHANGED <<acked, closedBy, fault, idOf>>

\* The client's Complete, which is taken before the ack too.
Complete(id) ==
  /\ Receive
  /\ StopOp(id, "client")
  /\ KeepReading
  /\ UNCHANGED <<acked, routine, idOf>>

\* No frame came before time.After fired.
InitTimeout ==
  /\ reader = "first"
  /\ CloseWith(4408)
  /\ UNCHANGED <<acked, frames, ops, idOf>>

\* Mutant of ReadFails: this return skips stopAllOps.
ReadFailsNoTeardown ==
  /\ reader \in {"first", "loop"}
  /\ conn = "closed"
  /\ reader' = "ended"
  /\ UNCHANGED <<connection, ops, idOf>>

ReadFails ==
  /\ reader \in {"first", "loop"}
  /\ conn = "closed"
  /\ Leave
  /\ UNCHANGED <<acked, frames, ops, idOf>>

\* Mutant of StopAllOps: the table is dropped, the channels stay open.
StopAllOpsSilently ==
  /\ reader = "leaving"
  /\ reader' = "ended"
  /\ activeOps' = [i \in Id |-> NoStream]
  /\ UNCHANGED <<connection, routine, closedBy, fault, idOf>>

\* The deferred stopAllOps of every return.
StopAllOps ==
  /\ reader = "leaving"
  /\ reader' = "ended"
  /\ activeOps' = [i \in Id |-> NoStream]
  /\ CloseDone({activeOps[i] : i \in Id} \ {NoStream}, "teardown")
  /\ UNCHANGED <<connection, routine, idOf>>

\* The client, or the network, drops the connection.
PeerDrops ==
  /\ conn = "open"
  /\ conn' = "closed"
  /\ UNCHANGED <<reader, code, acked, frames, ops, idOf>>

--------------------------------------------------------------------------------
(* The goroutine of a stream.                                              *)

\* Mutant of Emit: a failed write stops every stream of the connection.
EmitStopsAll(s, ok) ==
  /\ routine[s] = "running"
  /\ WriteOutcome(ok)
  /\ IF ok THEN UNCHANGED <<activeOps, closedBy, fault>>
     ELSE /\ activeOps' = [i \in Id |-> NoStream]
          /\ CloseDone({activeOps[i] : i \in Id} \ {NoStream}, s)
  /\ UNCHANGED <<reader, connection, routine, idOf>>

\* emit writes a Next; when that fails the stream under its id is stopped.
Emit(s, ok) ==
  /\ routine[s] = "running"
  /\ WriteOutcome(ok)
  /\ IF ok THEN UNCHANGED <<activeOps, closedBy, fault>> ELSE StopOp(idOf[s], s)
  /\ UNCHANGED <<reader, connection, routine, idOf>>

HandlerReturns(s) ==
  /\ routine[s] = "running"
  /\ routine' = [routine EXCEPT ![s] = "returned"]
  /\ UNCHANGED <<reader, connection, activeOps, closedBy, fault, idOf>>

\* defer stopOp(msg.Id)
DeferredStop(s) ==
  /\ routine[s] = "returned"
  /\ routine' = [routine EXCEPT ![s] = "over"]
  /\ StopOp(idOf[s], s)
  /\ UNCHANGED <<reader, connection, idOf>>

\* The handler panics in its goroutine, which has no recover.
HandlerPanics(s) ==
  /\ routine[s] = "running"
  /\ fault' = "handler panic"
  /\ UNCHANGED <<reader, connection, activeOps, routine, closedBy, idOf>>

--------------------------------------------------------------------------------
ReadLoop ==
  \/ \E ok \in BOOLEAN : ConnectionInit(ok) \/ Ping(ok)
  \/ InvalidMessage
  \/ \E id \in Id : SubscribeRefused(id) \/ Complete(id)
  \/ \E id \in Id, ok \in BOOLEAN : SubscribeAnswered(id, ok)
  \/ \E s \in Stream : SubscribeStream(s)

Ending == InitTimeout \/ ReadFails \/ StopAllOps

Routine(s) ==
  \/ \E ok \in BOOLEAN : Emit(s, ok)
  \/ HandlerReturns(s)
  \/ DeferredStop(s)
  \/ HandlerPanics(s)

Running == fault = "none"

Next == Running /\ (ReadLoop \/ Ending \/ PeerDrops \/ \E s \in Stream : Routine(s))

Spec == Init /\ [][Next]_vars

\* The timer fires and reads of a closed connection fail; a handler returns
\* after it was told to (Subscription.Handler's contract), and its deferred
\* call runs.  Nothing makes the client send a frame.
Fairness ==
  /\ WF_vars(Running /\ Ending)
  /\ \A s \in Stream :
       /\ WF_vars(Running /\ closedBy[s] # "nobody" /\ HandlerReturns(s))
       /\ WF_vars(Running /\ DeferredStop(s))

FairSpec == Spec /\ Fairness

--------------------------------------------------------------------------------
Codes == {0, 4400, 4401, 4408, 4409, 4429}

\* Every variable holds a value of its type.
TypeOK ==
  /\ reader \in {"first", "loop", "leaving", "ended"}
  /\ conn \in {"open", "closed"}
  /\ code \in Codes
  /\ acked \in BOOLEAN
  /\ frames \in 0..MaxFrames
  /\ activeOps \in [Id -> Stream \cup {NoStream}]
  /\ routine \in [Stream -> {"new", "running", "returned", "over"}]
  /\ idOf \in [Stream -> Id]
  /\ closedBy \in [Stream -> Stream \cup {"nobody", "client", "teardown"}]
  /\ fault \in {"none", "double close", "handler panic"}

--------------------------------------------------------------------------------
(* Safety.                                                                 *)

\* activeOps lists exactly the streams that were started and not yet told to
\* stop, each under its own id: none is lost to a client's Complete, none is
\* left behind, and two that share an id are never active together.
TableIsExact ==
  \A s \in Stream :
    (routine[s] # "new" /\ closedBy[s] = "nobody") <=> activeOps[idOf[s]] = s

\* No done channel is closed twice, whoever stops a stream first: the client's
\* Complete, the handler returning, a failed write or the connection ending.
ClosedOnce == fault # "double close"

\* When the handler of the connection has returned, every stream it started
\* was told to stop, and none starts afterwards.
NoneLeftBehind ==
  reader = "ended" => \A s \in Stream : routine[s] = "new" \/ closedBy[s] # "nobody"

\* A stream runs only on a connection that was acknowledged.
OnlyAfterAck == \A s \in Stream : routine[s] # "new" => acked

\* A stream whose id no other stream was started with is told to stop by the
\* client's Complete, by the connection's end or by its own goroutine: stopOp
\* and stopAllOps disturb no other operation.
StopsOwnStream ==
  \A s \in Stream :
    (\A t \in Stream \ {s} : routine[t] # "new" => idOf[t] # idOf[s]) =>
      closedBy[s] \in {"nobody", "client", "teardown", s}

\* The transport keeps the promise of Streams.
absStatus ==
  [s \in Stream |-> IF routine[s] = "new" THEN "new"
                    ELSE IF closedBy[s] = "nobody" THEN "live" ELSE "told"]
absTransport == IF reader = "ended" THEN "gone" ELSE "open"

Transport == INSTANCE Streams WITH status <- absStatus, transport <- absTransport

ImplementsStreams == Transport!Spec

--------------------------------------------------------------------------------
(* The inductive invariant.                                                *)
TableInv ==
  \A i \in Id : activeOps[i] # NoStream =>
    /\ idOf[activeOps[i]] = i
    /\ routine[activeOps[i]] \in {"running", "returned"}
    /\ closedBy[activeOps[i]] = "nobody"

RoutineInv ==
  \A s \in Stream :
    /\ routine[s] = "new" => closedBy[s] = "nobody"
    /\ routine[s] = "over" => closedBy[s] # "nobody"

EndInv == reader = "ended" => \A i \in Id : activeOps[i] = NoStream

\* The whole of it, with the types: what the read loop and the streams
\* preserve whatever the client sends.
IInv ==
  /\ TypeOK
  /\ TableIsExact
  /\ TableInv
  /\ RoutineInv
  /\ EndInv
  /\ OnlyAfterAck
  /\ ClosedOnce

--------------------------------------------------------------------------------
(* Liveness.                                                               *)

\* Every stream of a connection that is gone is over in the end: its handler
\* is told and returns (unless the process died).
StreamsEnd ==
  \A s \in Stream :
    (conn = "closed" /\ routine[s] = "running") ~> (routine[s] = "over" \/ ~ Running)

--------------------------------------------------------------------------------
\* handleSubscribe's comment: stopOp is a no-op if this id was already removed,
\* so a goroutine that ends never stops a stream but its own.
StopOpIsOwn ==
  \A s \in Stream : closedBy[s] \in {"nobody", "client", "teardown", s}
================================================================================
