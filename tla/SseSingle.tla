-------------------------------- MODULE SseSingle --------------------------------
(***************************************************************************)
(* graphql-sse's single connection mode: the handlers of                   *)
(* internal/graphql/sse_single.go over the registry of reservation.go, for *)
(* one reservation token (tokens share nothing).  The client reserves the  *)
(* token with PUT, opens its event stream with GET, starts operations with *)
(* POST and cancels them with DELETE; each request has a goroutine of its  *)
(* own, and each Subscription another.                                     *)
(*                                                                         *)
(* A successful heartbeat changes nothing and is not a step.               *)
(***************************************************************************)
EXTENDS Naturals

CONSTANTS
  OpId,         \* operation ids the client uses
  Conn,         \* GET requests with the token
  Stream,       \* POST requests with the token, and their goroutines
  NoConn, NoStream

ASSUME SseAssumption ==
  /\ NoStream \notin Stream
  /\ NoConn \notin Conn
  /\ Stream \cap {"nobody", "client", "teardown"} = {}

VARIABLES
  token,        \* byTok: "unknown", "reserved" or "released"
  attached,     \* reservation.write: the connection it writes to
  ops,          \* reservation.ops
  conn,         \* each GET handler
  gone,         \* connections whose client has dropped
  connDone,     \* connections whose done channel is closed
  post,         \* each POST and the goroutine it starts
  opOf, via,    \* the operation id of each POST, the connection Route gave it
  registered,   \* streams for which StartOperation returned true
  closedBy,     \* who closed each stream's done channel
  fault         \* a panic nobody recovers

vars == <<token, attached, ops, conn, gone, connDone, post, opOf, via, registered,
          closedBy, fault>>

registry == <<token, attached>>
streams == <<post, opOf, via, registered>>
connections == <<conn, gone, connDone>>

Init ==
  /\ token = "unknown"
  /\ attached = NoConn
  /\ ops = [i \in OpId |-> NoStream]
  /\ conn = [c \in Conn |-> "new"]
  /\ gone = {}
  /\ connDone = {}
  /\ post = [s \in Stream |-> "new"]
  /\ opOf \in [Stream -> OpId]
  /\ via = [s \in Stream |-> NoConn]
  /\ registered = {}
  /\ closedBy = [s \in Stream |-> "nobody"]
  /\ fault = "none"

--------------------------------------------------------------------------------
(* The registry.                                                           *)
CloseDone(S, who) ==
  /\ closedBy' = [s \in Stream |-> IF s \in S THEN who ELSE closedBy[s]]
  /\ fault' = IF \E s \in S : closedBy[s] # "nobody" THEN "double close" ELSE fault

\* Mutants of StopOperation: the operation stays listed; every operation of
\* the token is stopped.
StopOperationKeeps(id, who) ==
  UNCHANGED ops /\ CloseDone({ops[id]} \ {NoStream}, who)

StopOperationAll(id, who) ==
  /\ ops' = [i \in OpId |-> NoStream]
  /\ CloseDone({ops[i] : i \in OpId} \ {NoStream}, who)

\* Registry.StopOperation: a token that is not reserved has no operations.
StopOperation(id, who) ==
  /\ ops' = [ops EXCEPT ![id] = NoStream]
  /\ CloseDone({ops[id]} \ {NoStream}, who)

\* Registry.Attach: later operations are routed to this connection.
Attach(c) == attached' = c

Reserve ==
  /\ token = "unknown"
  /\ token' = "reserved"
  /\ UNCHANGED <<attached, ops, connections, streams, closedBy, fault>>

--------------------------------------------------------------------------------
(* GET: Attach, then the body of res.Stream.                               *)
Connect(c) ==
  /\ conn[c] = "new"
  /\ IF token = "reserved"
     THEN conn' = [conn EXCEPT ![c] = "attached"] /\ Attach(c)
     ELSE conn' = [conn EXCEPT ![c] = "refused"] /\ UNCHANGED attached
  /\ UNCHANGED <<token, ops, gone, connDone, streams, closedBy, fault>>

\* w = bw: from now on frames can be written.
StreamOpens(c) ==
  /\ conn[c] = "attached"
  /\ conn' = [conn EXCEPT ![c] = "open"]
  /\ UNCHANGED <<registry, ops, gone, connDone, streams, closedBy, fault>>

\* The loop ends when a heartbeat cannot be written, or when somebody else's
\* write failed and closed done.
LoopEnds(c) ==
  /\ conn[c] = "open"
  /\ c \in gone \cup connDone
  /\ conn' = [conn EXCEPT ![c] = "leaving"]
  /\ connDone' = connDone \cup {c}
  /\ UNCHANGED <<registry, ops, gone, streams, closedBy, fault>>

\* Mutant of Release: the channels stay open.
ReleaseSilently(c) ==
  /\ conn[c] = "leaving"
  /\ conn' = [conn EXCEPT ![c] = "closed"]
  /\ token' = "released"
  /\ attached' = NoConn
  /\ ops' = [i \in OpId |-> NoStream]
  /\ UNCHANGED <<gone, connDone, streams, closedBy, fault>>

\* defer reg.Release(token): whatever connection the token is attached to.
Release(c) ==
  /\ conn[c] = "leaving"
  /\ conn' = [conn EXCEPT ![c] = "closed"]
  /\ token' = "released"
  /\ attached' = NoConn
  /\ ops' = [i \in OpId |-> NoStream]
  /\ CloseDone({ops[i] : i \in OpId} \ {NoStream}, "teardown")
  /\ UNCHANGED <<gone, connDone, streams>>

ClientDrops(c) ==
  /\ conn[c] \in {"attached", "open"}
  /\ c \notin gone
  /\ gone' = gone \cup {c}
  /\ UNCHANGED <<registry, ops, conn, connDone, streams, closedBy, fault>>

--------------------------------------------------------------------------------
(* POST: Route, StartOperation, and the goroutine of a Subscription.       *)
Route(s) ==
  /\ post[s] = "new"
  /\ IF attached # NoConn
     THEN post' = [post EXCEPT ![s] = "routed"] /\ via' = [via EXCEPT ![s] = attached]
     ELSE post' = [post EXCEPT ![s] = "refused"] /\ UNCHANGED via
  /\ UNCHANGED <<registry, ops, connections, opOf, registered, closedBy, fault>>

\* The result of StartOperation is ignored: the goroutine starts anyway.
StartOperation(s) ==
  /\ post[s] = "routed"
  /\ post' = [post EXCEPT ![s] = "running"]
  /\ IF token = "reserved"
     THEN /\ ops' = [ops EXCEPT ![opOf[s]] = s]
          /\ registered' = registered \cup {s}
     ELSE UNCHANGED <<ops, registered>>
  /\ UNCHANGED <<registry, connections, opOf, via, closedBy, fault>>

\* write over the stream's connection: it fails before the stream is open,
\* without closing done, and when the client is gone; over a writer whose
\* stream has ended it may do either.
Write(s, ok) ==
  LET c == via[s] IN
  /\ ok => conn[c] # "attached"
  /\ ok \/ conn[c] \in {"attached", "closed"} \/ c \in gone
  /\ connDone' = IF ok \/ conn[c] = "attached" THEN connDone ELSE connDone \cup {c}

\* A Query or Mutation writes next and complete, and registers nothing.
QueryAnswered(s, ok) ==
  /\ post[s] = "routed"
  /\ Write(s, ok)
  /\ post' = [post EXCEPT ![s] = "over"]
  /\ UNCHANGED <<registry, ops, conn, gone, opOf, via, registered, closedBy, fault>>

Emit(s, ok) ==
  /\ post[s] = "running"
  /\ Write(s, ok)
  /\ IF ok THEN UNCHANGED <<ops, closedBy, fault>> ELSE StopOperation(opOf[s], s)
  /\ UNCHANGED <<registry, conn, gone, streams>>

HandlerReturns(s) ==
  /\ post[s] = "running"
  /\ post' = [post EXCEPT ![s] = "returned"]
  /\ UNCHANGED <<registry, ops, connections, opOf, via, registered, closedBy, fault>>

DeferredStop(s) ==
  /\ post[s] = "returned"
  /\ post' = [post EXCEPT ![s] = "over"]
  /\ StopOperation(opOf[s], s)
  /\ UNCHANGED <<registry, connections, opOf, via, registered>>

HandlerPanics(s) ==
  /\ post[s] = "running"
  /\ fault' = "handler panic"
  /\ UNCHANGED <<registry, ops, connections, streams, closedBy>>

\* DELETE
Cancel(id) ==
  /\ StopOperation(id, "client")
  /\ UNCHANGED <<registry, connections, streams>>

--------------------------------------------------------------------------------
Running == fault = "none"

ConnStep(c) == StreamOpens(c) \/ LoopEnds(c) \/ Release(c)

Routine(s) ==
  \/ StartOperation(s)
  \/ \E ok \in BOOLEAN : QueryAnswered(s, ok) \/ Emit(s, ok)
  \/ HandlerReturns(s) \/ DeferredStop(s) \/ HandlerPanics(s)

Next ==
  /\ Running
  /\ \/ Reserve
     \/ \E c \in Conn : Connect(c) \/ ClientDrops(c) \/ ConnStep(c)
     \/ \E s \in Stream : Route(s) \/ Routine(s)
     \/ \E id \in OpId : Cancel(id)

Spec == Init /\ [][Next]_vars

\* Handlers run, heartbeats come, and a Subscription's handler returns after
\* it was told to.
Fairness ==
  /\ \A c \in Conn : WF_vars(Running /\ ConnStep(c))
  /\ \A s \in Stream :
       /\ WF_vars(Running /\ closedBy[s] # "nobody" /\ HandlerReturns(s))
       /\ WF_vars(Running /\ DeferredStop(s))

FairSpec == Spec /\ Fairness

--------------------------------------------------------------------------------
\* Only a reserved token has a writer.
TypeOK ==
  /\ token \in {"unknown", "reserved", "released"}
  /\ attached \in (IF token = "reserved" THEN Conn ELSE {}) \cup {NoConn}
  /\ ops \in [OpId -> Stream \cup {NoStream}]
  /\ conn \in [Conn -> {"new", "refused", "attached", "open", "leaving", "closed"}]
  /\ gone \subseteq Conn
  /\ connDone \subseteq Conn
  /\ post \in [Stream -> {"new", "refused", "routed", "running", "returned", "over"}]
  /\ opOf \in [Stream -> OpId]
  /\ via \in [Stream -> Conn \cup {NoConn}]
  /\ registered \subseteq Stream
  /\ closedBy \in [Stream -> Stream \cup {"nobody", "client", "teardown"}]
  /\ fault \in {"none", "double close", "handler panic"}

--------------------------------------------------------------------------------
(* Safety.                                                                 *)

\* No done channel is closed twice, by whatever mixture of DELETE, failed
\* writes, returning handlers, disconnects and reused operation ids.
ClosedOnce == fault # "double close"

\* An operation whose id no other POST uses is listed as long as nobody told it
\* to stop, so DELETE and Release reach it, and only DELETE, Release or its own
\* goroutine tell it.
OwnId(s) == \A t \in Stream \ {s} : opOf[t] # opOf[s]

StopsOwnOperation ==
  \A s \in Stream : OwnId(s) =>
    /\ closedBy[s] \in {"nobody", "client", "teardown", s}
    /\ s \in registered /\ closedBy[s] = "nobody" => ops[opOf[s]] = s

--------------------------------------------------------------------------------
(* Liveness.                                                               *)

\* A connection whose client dropped takes everything with it: its token is
\* released, and the operations registered over it end, if no other POST used
\* their id.
DropEndsAll ==
  /\ \A c \in Conn : (c \in gone) ~> (conn[c] = "closed" \/ ~ Running)
  /\ \A s \in Stream :
       (s \in registered /\ OwnId(s) /\ via[s] \in gone) ~> (post[s] = "over" \/ ~ Running)

================================================================================
