--------------------------- MODULE GraphqlHttp_proofs ---------------------------
(***************************************************************************)
(* Proofs about GraphqlHttp: first about single connection mode, for any   *)
(* number of requests and operation ids, then that the routes of both      *)
(* modes keep what each mode promises on its own.                          *)
(***************************************************************************)
EXTENDS GraphqlHttp, Sequences, TLAPS

(* Single connection mode.                                                 *)

\* A POST is registered once its operation is started, and a channel is closed
\* only for a stream that is registered.
RegisteredInv ==
  \A s \in Stream :
    /\ s \in registered => post[s] \in {"running", "returned", "over"}
    /\ closedBy[s] # "nobody" => s \in registered

\* A POST that was let in has the connection Route gave it.
RoutedInv == \A s \in Stream : post[s] \in {"routed", "running"} => via[s] \in Conn

\* What is listed under an id is registered with that id and was not told to
\* stop: whoever takes it off the list is the first to close its channel.
ListedInv ==
  \A i \in OpId : ops[i] # NoStream =>
    /\ ops[i] \in registered
    /\ opOf[ops[i]] = i
    /\ closedBy[ops[i]] = "nobody"

\* The inductive invariant.
IInv == TypeOK /\ RoutedInv /\ RegisteredInv /\ ListedInv /\ StopsOwnOperation /\ ClosedOnce

LEMMA InitEstablishes == Init => IInv
  BY SseAssumption
  DEF Init, IInv, TypeOK, RoutedInv, RegisteredInv, ListedInv, StopsOwnOperation, ClosedOnce, OwnId

\* A step that leaves the operations alone has only types to keep, and what the
\* stage of a POST implies.
LEMMA OperationsUntouched ==
  ASSUME IInv, UNCHANGED <<ops, opOf, registered, closedBy>>, fault' # "double close",
         TypeOK', RoutedInv', \A s \in Stream : s \in registered => post'[s] \in {"running", "returned", "over"}
  PROVE  IInv'
  <1>1. RegisteredInv' /\ ListedInv' /\ ClosedOnce'
    BY DEF IInv, RegisteredInv, ListedInv, ClosedOnce
  <1>2. StopsOwnOperation' <=> StopsOwnOperation
    BY DEF StopsOwnOperation, OwnId
  <1> QED
    BY <1>1, <1>2 DEF IInv

\* PUT and GET change no stream.
LEMMA ConnectionKeeps ==
  ASSUME IInv,
         \/ Reserve
         \/ \E c \in Conn : Connect(c) \/ StreamOpens(c) \/ LoopEnds(c) \/ ClientDrops(c)
  PROVE  IInv'
  <1>1. UNCHANGED <<ops, streams, closedBy, fault>>
    BY DEF Reserve, Connect, StreamOpens, LoopEnds, ClientDrops
  <1>2. TypeOK'
    <2> USE <1>1 DEF IInv, TypeOK, registry, streams
    <2>1. CASE Reserve
      BY <2>1 DEF Reserve, connections
    <2>2. ASSUME NEW c \in Conn, Connect(c) PROVE TypeOK'
      BY <2>2 DEF Connect, Attach
    <2>3. ASSUME NEW c \in Conn, StreamOpens(c) PROVE TypeOK'
      BY <2>3 DEF StreamOpens
    <2>4. ASSUME NEW c \in Conn, LoopEnds(c) PROVE TypeOK'
      BY <2>4 DEF LoopEnds
    <2>5. ASSUME NEW c \in Conn, ClientDrops(c) PROVE TypeOK'
      BY <2>5 DEF ClientDrops
    <2> QED
      BY <2>1, <2>2, <2>3, <2>4, <2>5
  <1>3. /\ RoutedInv' /\ fault' # "double close"
        /\ \A s \in Stream : s \in registered => post'[s] \in {"running", "returned", "over"}
    BY <1>1 DEF IInv, RoutedInv, RegisteredInv, ClosedOnce, streams
  <1> QED
    BY <1>1, <1>2, <1>3, OperationsUntouched DEF streams

\* Release takes every operation off the list and tells each.
LEMMA ReleaseKeeps == ASSUME IInv, NEW c \in Conn, Release(c) PROVE IInv'
  <1> DEFINE S == {ops[i] : i \in OpId} \ {NoStream}
  <1>1. S \subseteq Stream /\ \A s \in S : closedBy[s] = "nobody" /\ s \in registered
    <2> SUFFICES ASSUME NEW s \in S PROVE s \in Stream /\ closedBy[s] = "nobody" /\ s \in registered
      OBVIOUS
    <2>1. PICK i \in OpId : s = ops[i] /\ ops[i] # NoStream
      OBVIOUS
    <2> QED
      BY <2>1 DEF IInv, TypeOK, ListedInv
  <1>2. fault' = fault
    BY <1>1 DEF Release, CloseDone
  <1>3. closedBy' = [s \in Stream |-> IF s \in S THEN "teardown" ELSE closedBy[s]]
    BY DEF Release, CloseDone
  <1>4. TypeOK'
    BY <1>2, <1>3 DEF IInv, TypeOK, Release, streams
  <1>5. RoutedInv' /\ RegisteredInv' /\ ListedInv' /\ ClosedOnce'
    BY <1>1, <1>2, <1>3 DEF IInv, RoutedInv, RegisteredInv, ListedInv, ClosedOnce, Release, streams
  <1>6. StopsOwnOperation'
    <2> SUFFICES ASSUME NEW s \in Stream, OwnId(s)'
                 PROVE  /\ closedBy'[s] \in {"nobody", "client", "teardown", s}
                        /\ ~ (s \in registered' /\ closedBy'[s] = "nobody")
      BY DEF StopsOwnOperation
    <2>1. OwnId(s) /\ registered' = registered /\ opOf[s] \in OpId
      BY DEF OwnId, Release, streams, IInv, TypeOK
    <2>2. /\ closedBy[s] \in {"nobody", "client", "teardown", s}
          /\ s \in registered /\ closedBy[s] = "nobody" => ops[opOf[s]] = s
      BY <2>1 DEF IInv, StopsOwnOperation
    <2>3. s # NoStream
      BY SseAssumption
    <2> QED
      BY <1>3, <2>1, <2>2, <2>3
  <1> QED
    BY <1>4, <1>5, <1>6 DEF IInv

\* StopOperation takes one operation off the list and tells it: it is the
\* caller's own, if no other POST uses its id.
LEMMA StopOperationTells ==
  ASSUME IInv, NEW id \in OpId, NEW who \in Stream \cup {"client"},
         StopOperation(id, who),
         who \in Stream => opOf[who] = id,
         UNCHANGED <<opOf, registered>>
  PROVE  /\ ops' \in [OpId -> Stream \cup {NoStream}]
         /\ closedBy' \in [Stream -> Stream \cup {"nobody", "client", "teardown"}]
         /\ fault' = fault
         /\ \A s \in Stream : closedBy'[s] # "nobody" => s \in registered
         /\ ListedInv'
         /\ StopsOwnOperation'
  <1> DEFINE S == {ops[id]} \ {NoStream}
  <1>1. S \subseteq Stream /\ \A s \in S : closedBy[s] = "nobody" /\ s \in registered /\ opOf[s] = id
    <2> SUFFICES ASSUME ops[id] # NoStream
                 PROVE  LET s == ops[id] IN
                        s \in Stream /\ closedBy[s] = "nobody" /\ s \in registered /\ opOf[s] = id
      OBVIOUS
    <2> QED
      BY DEF IInv, TypeOK, ListedInv
  <1>2. fault' = fault
    BY <1>1 DEF StopOperation, CloseDone
  <1>3. closedBy' = [s \in Stream |-> IF s \in S THEN who ELSE closedBy[s]]
    BY DEF StopOperation, CloseDone
  <1>4. ops' = [ops EXCEPT ![id] = NoStream]
    BY DEF StopOperation
  <1>5. ListedInv' /\ \A s \in Stream : closedBy'[s] # "nobody" => s \in registered
    BY <1>1, <1>3, <1>4 DEF IInv, TypeOK, RegisteredInv, ListedInv
  <1>6. StopsOwnOperation'
    <2> SUFFICES ASSUME NEW s \in Stream, OwnId(s)'
                 PROVE  /\ closedBy'[s] \in {"nobody", "client", "teardown", s}
                        /\ s \in registered /\ closedBy'[s] = "nobody" => ops'[opOf[s]] = s
      BY DEF StopsOwnOperation
    <2>1. OwnId(s) /\ opOf[s] \in OpId
      BY DEF OwnId, IInv, TypeOK
    <2>2. /\ closedBy[s] \in {"nobody", "client", "teardown", s}
          /\ s \in registered /\ closedBy[s] = "nobody" => ops[opOf[s]] = s
      BY <2>1 DEF IInv, StopsOwnOperation
    <2>3. s # NoStream
      BY SseAssumption
    <2>4. s \in S /\ who \in Stream => who = s
      BY <1>1, <2>1 DEF OwnId
    <2>5. s \notin S /\ ops[opOf[s]] = s => opOf[s] # id
      BY <2>3
    <2>6. CASE s \in S
      BY <1>3, <2>4, <2>6, SseAssumption
    <2>7. CASE s \notin S
      <3>1. closedBy'[s] = closedBy[s]
        BY <1>3, <2>7
      <3>2. ops[opOf[s]] = s => ops'[opOf[s]] = s
        BY <1>4, <2>1, <2>5, <2>7 DEF IInv, TypeOK
      <3> QED
        BY <2>2, <3>1, <3>2
    <2> QED
      BY <2>6, <2>7
  <1> QED
    BY <1>2, <1>3, <1>4, <1>5, <1>6 DEF IInv, TypeOK

\* The steps of a POST and of the goroutine it starts.
LEMMA PostKeeps ==
  ASSUME IInv, NEW s \in Stream, Route(s) \/ Routine(s)
  PROVE  IInv'
  <1> USE SseAssumption DEF IInv, registry, streams, connections
  <1>1. CASE Route(s)
    <2>1. TypeOK' /\ RoutedInv'
      BY <1>1 DEF Route, TypeOK, RoutedInv
    <2>2. /\ UNCHANGED <<ops, opOf, registered, closedBy, fault>>
          /\ \A t \in Stream : t \in registered => post'[t] \in {"running", "returned", "over"}
      BY <1>1 DEF Route, TypeOK, RegisteredInv
    <2> QED
      BY <2>1, <2>2, OperationsUntouched DEF ClosedOnce
  <1>2. CASE StartOperation(s)
    <2>1. TypeOK' /\ RoutedInv'
      BY <1>2 DEF StartOperation, TypeOK, RoutedInv
    <2>2. s \notin registered /\ closedBy[s] = "nobody" /\ opOf[s] \in OpId
      BY <1>2 DEF StartOperation, TypeOK, RegisteredInv
    <2>3. CASE token # "reserved"
      <3>1. /\ UNCHANGED <<ops, opOf, registered, closedBy, fault>>
            /\ \A t \in Stream : t \in registered => post'[t] \in {"running", "returned", "over"}
        BY <1>2, <2>3 DEF StartOperation, TypeOK, RegisteredInv
      <3> QED
        BY <2>1, <3>1, OperationsUntouched DEF ClosedOnce
    <2>4. CASE token = "reserved"
      <3>1. /\ ops' = [ops EXCEPT ![opOf[s]] = s]
            /\ registered' = registered \cup {s}
            /\ post' = [post EXCEPT ![s] = "running"]
            /\ UNCHANGED <<opOf, closedBy, fault>>
        BY <1>2, <2>4 DEF StartOperation
      <3>2. RegisteredInv' /\ ClosedOnce'
        BY <3>1 DEF TypeOK, RegisteredInv, ClosedOnce
      <3>3. ListedInv'
        <4> SUFFICES ASSUME NEW i \in OpId, ops'[i] # NoStream
                     PROVE  ops'[i] \in registered' /\ opOf[ops'[i]] = i /\ closedBy[ops'[i]] = "nobody"
          BY <3>1 DEF ListedInv
        <4>1. CASE i = opOf[s]
          BY <2>2, <3>1, <4>1 DEF TypeOK
        <4>2. CASE i # opOf[s]
          <5>1. ops'[i] = ops[i]
            BY <3>1, <4>2 DEF TypeOK
          <5> QED
            BY <3>1, <5>1 DEF ListedInv
        <4> QED
          BY <4>1, <4>2
      <3>4. StopsOwnOperation'
        <4> SUFFICES ASSUME NEW t \in Stream, OwnId(t)'
                     PROVE  /\ closedBy[t] \in {"nobody", "client", "teardown", t}
                            /\ t \in registered' /\ closedBy[t] = "nobody" => ops'[opOf[t]] = t
          BY <3>1 DEF StopsOwnOperation
        <4>1. OwnId(t) /\ opOf[t] \in OpId
          BY <3>1 DEF OwnId, TypeOK
        <4>2. t # s => opOf[t] # opOf[s]
          BY <4>1 DEF OwnId
        <4> QED
          BY <2>2, <3>1, <4>1, <4>2 DEF TypeOK, StopsOwnOperation
      <3> QED
        BY <2>1, <3>2, <3>3, <3>4
    <2> QED
      BY <2>3, <2>4
  <1>3. ASSUME NEW ok \in BOOLEAN, QueryAnswered(s, ok) PROVE IInv'
    <2>1. via[s] \in Conn /\ s \notin registered
      BY <1>3 DEF QueryAnswered, RoutedInv, RegisteredInv
    <2>2. TypeOK' /\ RoutedInv'
      BY <1>3, <2>1 DEF QueryAnswered, Write, TypeOK, RoutedInv
    <2>3. /\ UNCHANGED <<ops, opOf, registered, closedBy, fault>>
          /\ \A t \in Stream : t \in registered => post'[t] \in {"running", "returned", "over"}
      BY <1>3, <2>1 DEF QueryAnswered, TypeOK, RegisteredInv
    <2> QED
      BY <2>2, <2>3, OperationsUntouched DEF ClosedOnce
  <1>4. ASSUME NEW ok \in BOOLEAN, Emit(s, ok) PROVE IInv'
    <2>1. via[s] \in Conn /\ opOf[s] \in OpId
      BY <1>4 DEF Emit, RoutedInv, TypeOK
    <2>2. connDone' \subseteq Conn /\ UNCHANGED <<registry, conn, gone, streams>>
      BY <1>4, <2>1 DEF Emit, Write, TypeOK
    <2>3. CASE ok
      <3>1. UNCHANGED <<ops, closedBy, fault>>
        BY <1>4, <2>3 DEF Emit
      <3>2. TypeOK' /\ RoutedInv'
        BY <2>2, <3>1 DEF TypeOK, RoutedInv
      <3> QED
        BY <2>2, <3>1, <3>2, OperationsUntouched DEF ClosedOnce, RegisteredInv
    <2>4. CASE ~ ok
      <3>1. StopOperation(opOf[s], s)
        BY <1>4, <2>4 DEF Emit
      <3>2. /\ ops' \in [OpId -> Stream \cup {NoStream}]
            /\ closedBy' \in [Stream -> Stream \cup {"nobody", "client", "teardown"}]
            /\ fault' = fault
            /\ \A t \in Stream : closedBy'[t] # "nobody" => t \in registered
            /\ ListedInv' /\ StopsOwnOperation'
        BY <2>1, <2>2, <3>1, StopOperationTells
      <3>3. TypeOK' /\ RoutedInv'
        BY <2>2, <3>2 DEF TypeOK, RoutedInv
      <3> QED
        BY <2>2, <3>2, <3>3 DEF RegisteredInv, ClosedOnce
    <2> QED
      BY <2>3, <2>4
  <1>5. CASE HandlerReturns(s)
    <2>1. TypeOK' /\ RoutedInv'
      BY <1>5 DEF HandlerReturns, TypeOK, RoutedInv
    <2>2. /\ UNCHANGED <<ops, opOf, registered, closedBy, fault>>
          /\ \A t \in Stream : t \in registered => post'[t] \in {"running", "returned", "over"}
      BY <1>5 DEF HandlerReturns, TypeOK, RegisteredInv
    <2> QED
      BY <2>1, <2>2, OperationsUntouched DEF ClosedOnce
  <1>6. CASE DeferredStop(s)
    <2>1. StopOperation(opOf[s], s) /\ UNCHANGED <<opOf, registered>> /\ opOf[s] \in OpId
      BY <1>6 DEF DeferredStop, TypeOK
    <2>2. /\ ops' \in [OpId -> Stream \cup {NoStream}]
          /\ closedBy' \in [Stream -> Stream \cup {"nobody", "client", "teardown"}]
          /\ fault' = fault
          /\ \A t \in Stream : closedBy'[t] # "nobody" => t \in registered
          /\ ListedInv' /\ StopsOwnOperation'
      BY <2>1, StopOperationTells
    <2>3. TypeOK' /\ RoutedInv'
      BY <1>6, <2>2 DEF DeferredStop, TypeOK, RoutedInv
    <2> QED
      BY <1>6, <2>1, <2>2, <2>3 DEF DeferredStop, TypeOK, RegisteredInv, ClosedOnce
  <1>7. CASE HandlerPanics(s)
    <2>1. TypeOK' /\ RoutedInv' /\ fault' # "double close"
      BY <1>7 DEF HandlerPanics, TypeOK, RoutedInv
    <2> QED
      BY <1>7, <2>1, OperationsUntouched DEF HandlerPanics, RegisteredInv
  <1> QED
    BY <1>1, <1>2, <1>3, <1>4, <1>5, <1>6, <1>7 DEF Routine

\* DELETE tells what is listed under the id.
LEMMA CancelKeeps == ASSUME IInv, NEW id \in OpId, Cancel(id) PROVE IInv'
  <1>1. StopOperation(id, "client") /\ UNCHANGED <<registry, connections, streams>>
    BY DEF Cancel
  <1>2. /\ ops' \in [OpId -> Stream \cup {NoStream}]
        /\ closedBy' \in [Stream -> Stream \cup {"nobody", "client", "teardown"}]
        /\ fault' = fault
        /\ \A t \in Stream : closedBy'[t] # "nobody" => t \in registered
        /\ ListedInv' /\ StopsOwnOperation'
    BY <1>1, StopOperationTells, SseAssumption DEF streams
  <1>3. TypeOK'
    BY <1>1, <1>2 DEF IInv, TypeOK, registry, connections, streams
  <1> QED
    BY <1>1, <1>2, <1>3 DEF IInv, RoutedInv, RegisteredInv, ClosedOnce, streams

LEMMA SingleKeeps == IInv /\ [Next]_vars => IInv'
  <1>1. IInv /\ Next => IInv'
    BY ConnectionKeeps, ReleaseKeeps, PostKeeps, CancelKeeps DEF Next, ConnStep
  <1>2. IInv /\ UNCHANGED vars => IInv'
    <2> SUFFICES ASSUME IInv, UNCHANGED vars PROVE IInv'
      OBVIOUS
    <2>1. TypeOK' /\ RoutedInv'
      BY DEF IInv, TypeOK, RoutedInv, vars
    <2> QED
      BY <2>1, OperationsUntouched DEF IInv, RegisteredInv, ClosedOnce, vars
  <1> QED
    BY <1>1, <1>2

--------------------------------------------------------------------------------
(* Distinct connections mode.                                              *)

Frames == {"next", "complete"}

\* The types that the frames depend on.
FramesTypeInv ==
  /\ body \in {"loop", "completing", "returned"}
  /\ handler \in {"running", "returned"}
  /\ dropped \in BOOLEAN
  /\ done \in BOOLEAN
  /\ emits \in Nat
  /\ sent \in Seq(Frames)

\* The body completes for a client that stays only when the handler returned.
BodyInv == body = "completing" => dropped \/ handler = "returned"

\* Until the body returns every frame is a next, of a value of its own; then
\* nothing is appended, so at most the last one is another.
SentInv ==
  /\ body # "returned" =>
       Len(sent) <= emits /\ \A i \in 1..Len(sent) : sent[i] = "next"
  /\ Len(sent) <= emits + 1
  /\ \A i \in 1..Len(sent) : sent[i] = "complete" => i = Len(sent) /\ handler = "returned"

\* The inductive invariant of a distinct connection.
DistinctInv == FramesTypeInv /\ BodyInv /\ SentInv

\* What Append does to the frames.
LEMMA Appended ==
  ASSUME NEW s \in Seq(Frames), NEW f \in Frames
  PROVE  /\ Append(s, f) \in Seq(Frames)
         /\ Len(s) \in Nat /\ Len(Append(s, f)) = Len(s) + 1
         /\ \A i \in 1..Len(s) : Append(s, f)[i] = s[i]
         /\ Append(s, f)[Len(s) + 1] = f
  OBVIOUS

LEMMA DistinctInitEstablishes == Distinct!Init => DistinctInv
  <1> SUFFICES ASSUME Distinct!Init PROVE DistinctInv
    OBVIOUS
  <1>1. sent = <<>> /\ Len(sent) = 0
    BY DEF Distinct!Init
  <1>2. <<>> \in Seq(Frames)
    OBVIOUS
  <1>3. sent \in Seq(Frames)
    BY <1>1, <1>2
  <1>4. FramesTypeInv
    BY <1>3 DEF Distinct!Init, FramesTypeInv
  <1> QED
    BY <1>1, <1>4 DEF Distinct!Init, DistinctInv, BodyInv, SentInv

\* A value that is written is a next frame; one that is not leaves the frames.
LEMMA EmitKeeps == ASSUME DistinctInv, NEW ok \in BOOLEAN, Distinct!Emit(ok) PROVE DistinctInv'
  <1> USE DEF DistinctInv, FramesTypeInv, BodyInv, SentInv, Distinct!Emit
  <1>1. CASE ok /\ ~ dropped /\ body # "returned"
    <2>1. sent' = Append(sent, "next")
      BY <1>1
    <2> QED
      BY <1>1, <2>1, Appended DEF Frames
  <1>2. CASE ~ (ok /\ ~ dropped /\ body # "returned")
    <2>1. sent' = sent
      BY <1>2
    <2> QED
      BY <2>1
  <1> QED
    BY <1>1, <1>2

\* The complete frame finds the handler returned.
LEMMA WriteCompleteKeeps == ASSUME DistinctInv, Distinct!WriteComplete PROVE DistinctInv'
  <1> USE DEF DistinctInv, FramesTypeInv, BodyInv, SentInv, Distinct!WriteComplete
  <1>1. CASE dropped
    BY <1>1
  <1>2. CASE ~ dropped
    <2>1. sent' = Append(sent, "complete") /\ handler = "returned"
      BY <1>2
    <2> QED
      BY <1>2, <2>1, Appended DEF Frames
  <1> QED
    BY <1>1, <1>2

\* The steps that send nothing.
LEMMA SilentKeeps ==
  ASSUME DistinctInv,
         \/ Distinct!HandlerReturns \/ Distinct!HandlerPanics \/ Distinct!HandlerDoneSeen
         \/ Distinct!HeartbeatFails \/ Distinct!ClientDrops
  PROVE  DistinctInv'
  <1> USE DEF DistinctInv, FramesTypeInv, BodyInv, SentInv
  <1>1. CASE Distinct!HandlerReturns
    BY <1>1 DEF Distinct!HandlerReturns
  <1>2. CASE Distinct!HandlerPanics
    BY <1>2 DEF Distinct!HandlerPanics
  <1>3. CASE Distinct!HandlerDoneSeen
    BY <1>3 DEF Distinct!HandlerDoneSeen
  <1>4. CASE Distinct!HeartbeatFails
    BY <1>4 DEF Distinct!HeartbeatFails
  <1>5. CASE Distinct!ClientDrops
    BY <1>5 DEF Distinct!ClientDrops
  <1> QED
    BY <1>1, <1>2, <1>3, <1>4, <1>5

LEMMA DistinctKeeps == DistinctInv /\ [Distinct!Next]_(Distinct!vars) => DistinctInv'
  <1>1. DistinctInv /\ Distinct!Next => DistinctInv'
    BY EmitKeeps, WriteCompleteKeeps, SilentKeeps DEF Distinct!Next, Distinct!BodyStep
  <1>2. DistinctInv /\ UNCHANGED Distinct!vars => DistinctInv'
    BY DEF DistinctInv, FramesTypeInv, BodyInv, SentInv, Distinct!vars
  <1> QED
    BY <1>1, <1>2

--------------------------------------------------------------------------------
(* The routes.                                                             *)

\* Whatever route the first request takes, single connection mode takes a step
\* of its own or none.
THEOREM SingleInvariance == HttpSpec => []IInv
  <1>1. HttpInit => IInv
    BY InitEstablishes DEF HttpInit
  <1>2. [HttpNext]_http => [Next]_vars
    BY DEF HttpNext, Dispatch, ServeSingle, ServeDistinct, http
  <1> QED
    BY <1>1, <1>2, SingleKeeps, PTL DEF HttpSpec

\* No done channel is closed twice, by whatever mixture of DELETE, failed
\* writes, returning handlers, disconnects and reused operation ids.
THEOREM NoDoubleClose == HttpSpec => []ClosedOnce
  BY SingleInvariance, PTL DEF IInv

\* An operation whose id no other POST uses is stopped by those who may, and
\* is listed until then.
THEOREM OwnOperationStopped == HttpSpec => []StopsOwnOperation
  BY SingleInvariance, PTL DEF IInv

\* A distinct connection behaves as SseDistinct says, behind the routes, too.
THEOREM DistinctServed == HttpSpec => Distinct!Spec
  <1>1. HttpInit => Distinct!Init
    BY DEF HttpInit
  <1>2. [HttpNext]_http => [Distinct!Next]_(Distinct!vars)
    BY DEF HttpNext, Dispatch, ServeSingle, ServeDistinct, http, distinct, Distinct!vars
  <1> QED
    BY <1>1, <1>2, PTL DEF HttpSpec, Distinct!Spec

\* So its client sees a row of next frames and then one complete frame, which
\* it sees only when the handler has returned; there is never more of it than
\* was emitted and the complete frame.
THEOREM NothingFollowsComplete == HttpSpec => []CompleteIsLast
  <1>1. DistinctInv => CompleteIsLast
    <2>1. DistinctInv => DOMAIN sent = 1..Len(sent)
      BY DEF DistinctInv, FramesTypeInv
    <2> QED
      BY <2>1 DEF DistinctInv, SentInv, CompleteIsLast, Distinct!CompleteIsLast
  <1> QED
    BY <1>1, DistinctInitEstablishes, DistinctKeeps, DistinctServed, PTL DEF Distinct!Spec
================================================================================
