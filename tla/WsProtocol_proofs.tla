--------------------------- MODULE WsProtocol_proofs ---------------------------
(***************************************************************************)
(* Proofs about WsProtocol: for any number of ids, streams and frames, the *)
(* table of active operations is exact, no done channel is closed twice    *)
(* and no stream outlives the connection untold; the connection keeps the  *)
(* promise of Streams.                                                     *)
(***************************************************************************)
EXTENDS WsProtocol, TLAPS

\* A new connection has no streams.
LEMMA InitInvariant == Init => IInv
<1> SUFFICES ASSUME Init PROVE IInv
  OBVIOUS
<1>0. NoStream \notin Stream /\ MaxFrames \in Nat
  BY WsAssumption
<1>1. TypeOK
  <2>1. acked \in BOOLEAN /\ code \in Codes
    BY DEF Init, Codes
  <2>3. frames \in 0..MaxFrames
    BY <1>0 DEF Init
  <2>2. /\ activeOps \in [Id -> Stream \cup {NoStream}]
        /\ routine \in [Stream -> {"new", "running", "returned", "over"}]
        /\ closedBy \in [Stream -> Stream \cup {"nobody", "client", "teardown"}]
    BY DEF Init
  <2> QED BY <2>1, <2>2, <2>3 DEF Init, TypeOK
<1>2. TableIsExact /\ TableInv /\ RoutineInv /\ EndInv /\ OnlyAfterAck /\ ClosedOnce
  BY <1>0 DEF Init, TableIsExact, TableInv, RoutineInv, EndInv, OnlyAfterAck, ClosedOnce
<1> QED BY <1>1, <1>2 DEF IInv

\* What reading a frame may do to the connection.
ReaderTypes ==
  /\ reader' \in {"first", "loop", "leaving"}
  /\ conn' \in {"open", "closed"}
  /\ code' \in Codes
  /\ acked' \in BOOLEAN
  /\ frames' \in 0..MaxFrames
  /\ acked => acked'
  /\ reader # "ended"

\* Every frame, and every end of the loop before stopAllOps, leaves the
\* connection in a state of the protocol and keeps an acknowledgement.
LEMMA ReaderSteps ==
  ASSUME IInv,
         \/ ReadLoop
         \/ InitTimeout \/ ReadFails
  PROVE  ReaderTypes
<1>0. MaxFrames \in Nat
  BY WsAssumption
<1>1. ASSUME ReadLoop
      PROVE  reader \in {"first", "loop"} /\ frames' \in 0..MaxFrames
  <2>1. Receive
    BY <1>1 DEF ReadLoop, ConnectionInit, Ping, InvalidMessage,
                 SubscribeRefused, SubscribeAnswered, SubscribeStream, Complete
  <2>2. frames \in 0..MaxFrames
    BY DEF IInv, TypeOK
  <2>3. reader \in {"first", "loop"} /\ frames < MaxFrames /\ frames' = frames + 1
    BY <2>1 DEF Receive
  <2> QED BY <1>0, <2>2, <2>3
<1>2. ASSUME NEW c \in Codes, CloseWith(c)
      PROVE  reader' = "leaving" /\ conn' = "closed" /\ code' \in Codes
  BY <1>2 DEF CloseWith
<1>3. ASSUME KeepReading \/ Leave
      PROVE  reader' \in {"loop", "leaving"} /\ conn' = conn /\ code' = code
  BY <1>3 DEF KeepReading, Leave
<1>4. /\ conn \in {"open", "closed"} /\ code \in Codes /\ acked \in BOOLEAN
      /\ frames \in 0..MaxFrames
  BY DEF IInv, TypeOK
<1>5. {4400, 4401, 4408, 4409, 4429} \subseteq Codes
  BY DEF Codes
<1>6. CASE ReadLoop
  <2>1. KeepReading \/ Leave \/ \E c \in Codes : CloseWith(c)
    <3>1. ASSUME NEW ok \in BOOLEAN, ConnectionInit(ok) \/ Ping(ok)
          PROVE  KeepReading \/ Leave \/ \E c \in Codes : CloseWith(c)
      BY <1>5, <3>1 DEF ConnectionInit, Ping, After
    <3>2. CASE InvalidMessage
      BY <1>5, <3>2 DEF InvalidMessage
    <3>3. ASSUME NEW id \in Id, SubscribeRefused(id) \/ Complete(id)
          PROVE  KeepReading \/ \E c \in Codes : CloseWith(c)
      BY <1>5, <3>3 DEF SubscribeRefused, Complete
    <3>4. ASSUME NEW id \in Id, NEW ok \in BOOLEAN, SubscribeAnswered(id, ok)
          PROVE  KeepReading \/ Leave
      BY <3>4 DEF SubscribeAnswered, After
    <3>5. ASSUME NEW s \in Stream, SubscribeStream(s)
          PROVE  KeepReading
      BY <3>5 DEF SubscribeStream
    <3> QED BY <1>6, <3>1, <3>2, <3>3, <3>4, <3>5 DEF ReadLoop
  <2>2. acked' = acked \/ acked' = TRUE
    BY <1>6 DEF ReadLoop, ConnectionInit, Ping, InvalidMessage,
                SubscribeRefused, SubscribeAnswered, SubscribeStream, Complete
  <2>3. acked' \in BOOLEAN /\ (acked => acked')
    BY <1>4, <2>2, Zenon
  <2>4. reader' \in {"first", "loop", "leaving"} /\ conn' \in {"open", "closed"} /\ code' \in Codes
    BY <1>2, <1>3, <1>4, <2>1
  <2> QED BY <1>1, <1>6, <2>3, <2>4 DEF ReaderTypes
<1>7. CASE InitTimeout \/ ReadFails
  <2>1. reader \in {"first", "loop"} /\ UNCHANGED <<acked, frames>>
    BY <1>7 DEF InitTimeout, ReadFails
  <2>2. Leave \/ \E c \in Codes : CloseWith(c)
    BY <1>5, <1>7 DEF InitTimeout, ReadFails
  <2> QED BY <1>2, <1>3, <1>4, <2>1, <2>2 DEF ReaderTypes
<1> QED BY <1>6, <1>7

\* Steps of the read loop that leave the streams and the table alone.
LEMMA QuietSteps ==
  ASSUME IInv, ReaderTypes, UNCHANGED <<activeOps, routine, closedBy, fault, idOf>>
  PROVE  IInv'
<1>1. TypeOK'
  BY DEF IInv, TypeOK, ReaderTypes
<1>2. TableIsExact' /\ TableInv' /\ RoutineInv' /\ EndInv' /\ OnlyAfterAck' /\ ClosedOnce'
  BY DEF IInv, TableIsExact, TableInv, RoutineInv, EndInv, OnlyAfterAck, ClosedOnce,
         ReaderTypes
<1> QED BY <1>1, <1>2 DEF IInv

\* stopOp removes and tells the one stream the table names, which no one has
\* told before.
LEMMA StopOpKeeps ==
  ASSUME IInv, NEW id \in Id, NEW who \in Stream \cup {"client", "teardown"},
         StopOp(id, who)
  PROVE  /\ activeOps' \in [Id -> Stream \cup {NoStream}]
         /\ closedBy' \in [Stream -> Stream \cup {"nobody", "client", "teardown"}]
         /\ fault' = fault
         /\ \A i \in Id : activeOps'[i] = IF i = id THEN NoStream ELSE activeOps[i]
         /\ \A s \in Stream :
              closedBy'[s] = IF activeOps[id] = s THEN who ELSE closedBy[s]
         /\ who # "nobody"
<1>0. NoStream \notin Stream /\ who # "nobody"
  BY WsAssumption
<1>1. /\ activeOps \in [Id -> Stream \cup {NoStream}]
      /\ closedBy \in [Stream -> Stream \cup {"nobody", "client", "teardown"}]
  BY DEF IInv, TypeOK
<1>2. \A s \in Stream : s \in {activeOps[id]} \ {NoStream} <=> activeOps[id] = s
  BY <1>0
<1>3. \A s \in {activeOps[id]} \ {NoStream} : closedBy[s] = "nobody"
  BY <1>0 DEF IInv, TableInv
<1> QED BY <1>0, <1>1, <1>2, <1>3 DEF StopOp, CloseDone

\* Removing an id and telling its stream keeps the table exact, whatever a
\* goroutine whose stream is told does.
LEMMA TableAfterRemoval ==
  ASSUME IInv, NEW id \in Id, NEW who, who # "nobody",
         \A i \in Id : activeOps'[i] = IF i = id THEN NoStream ELSE activeOps[i],
         \A s \in Stream : closedBy'[s] = IF activeOps[id] = s THEN who ELSE closedBy[s],
         idOf' = idOf,
         \A s \in Stream :
            \/ routine'[s] = routine[s]
            \/ idOf[s] = id /\ routine[s] = "returned" /\ routine'[s] = "over"
  PROVE  TableInv' /\ TableIsExact' /\ RoutineInv'
<1>0. NoStream \notin Stream
  BY WsAssumption
<1>1. /\ \A s \in Stream : idOf[s] \in Id
      /\ \A i \in Id : activeOps[i] = NoStream \/ activeOps[i] \in Stream
  BY DEF IInv, TypeOK
<1>2. TableInv'
  <2> SUFFICES ASSUME NEW i \in Id, activeOps'[i] # NoStream
               PROVE  /\ idOf'[activeOps'[i]] = i
                      /\ routine'[activeOps'[i]] \in {"running", "returned"}
                      /\ closedBy'[activeOps'[i]] = "nobody"
    BY DEF TableInv
  <2>1. i # id /\ activeOps'[i] = activeOps[i] /\ activeOps[i] \in Stream
    BY <1>1
  <2>2. /\ idOf[activeOps[i]] = i /\ closedBy[activeOps[i]] = "nobody"
        /\ routine[activeOps[i]] \in {"running", "returned"}
    BY <2>1 DEF IInv, TableInv
  <2>3. activeOps[id] # activeOps[i]
    BY <2>1, <2>2 DEF IInv, TableInv
  <2> QED BY <2>1, <2>2, <2>3
<1>3. ASSUME NEW s \in Stream
      PROVE  (routine'[s] # "new" /\ closedBy'[s] = "nobody") <=> activeOps'[idOf'[s]] = s
  <2>1. /\ activeOps[idOf[s]] = s <=> (routine[s] # "new" /\ closedBy[s] = "nobody")
        /\ idOf[s] \in Id
    BY <1>1 DEF IInv, TableIsExact
  <2>2. routine'[s] # "new" <=> routine[s] # "new"
    OBVIOUS
  <2>3. activeOps[id] = s => idOf[s] = id
    BY <1>0 DEF IInv, TableInv
  <2>4. CASE idOf[s] = id
    BY <1>0, <2>1, <2>2, <2>3, <2>4
  <2>5. CASE idOf[s] # id
    BY <2>1, <2>2, <2>3, <2>5
  <2> QED BY <2>4, <2>5
<1>4. ASSUME NEW s \in Stream
      PROVE  /\ routine'[s] = "new" => closedBy'[s] = "nobody"
             /\ routine'[s] = "over" => closedBy'[s] # "nobody"
  <2>1. /\ routine[s] = "new" => closedBy[s] = "nobody"
        /\ routine[s] = "over" => closedBy[s] # "nobody"
        /\ idOf[s] \in Id
    BY <1>1 DEF IInv, RoutineInv
  <2>2. activeOps[id] = s => routine[s] # "new"
    BY <1>0 DEF IInv, TableInv
  <2>3. (idOf[s] = id /\ routine[s] = "returned" /\ closedBy[s] = "nobody") => activeOps[id] = s
    BY DEF IInv, TableIsExact
  <2> QED BY <2>1, <2>2, <2>3
<1> QED BY <1>2, <1>3, <1>4 DEF TableIsExact, RoutineInv

\* A client's Complete.
LEMMA CompleteKeeps ==
  ASSUME IInv, NEW id \in Id, Complete(id), ReaderTypes
  PROVE  IInv'
<1>1. StopOp(id, "client") /\ UNCHANGED <<routine, idOf>>
  BY DEF Complete
<1>2. /\ activeOps' \in [Id -> Stream \cup {NoStream}]
      /\ closedBy' \in [Stream -> Stream \cup {"nobody", "client", "teardown"}]
      /\ fault' = fault
      /\ \A i \in Id : activeOps'[i] = IF i = id THEN NoStream ELSE activeOps[i]
      /\ \A s \in Stream : closedBy'[s] = IF activeOps[id] = s THEN "client" ELSE closedBy[s]
  BY <1>1, StopOpKeeps
<1>3. TypeOK'
  BY <1>1, <1>2 DEF IInv, TypeOK, ReaderTypes
<1>4. TableInv' /\ TableIsExact' /\ RoutineInv'
  BY <1>1, <1>2, TableAfterRemoval
<1>5. EndInv' /\ OnlyAfterAck' /\ ClosedOnce'
  BY <1>1, <1>2 DEF IInv, EndInv, OnlyAfterAck, ClosedOnce, ReaderTypes
<1> QED BY <1>3, <1>4, <1>5 DEF IInv

\* A Subscription starts: its id was not in the table.
LEMMA SubscribeKeeps ==
  ASSUME IInv, NEW s \in Stream, SubscribeStream(s), ReaderTypes
  PROVE  IInv'
<1>0. NoStream \notin Stream
  BY WsAssumption
<1>1. /\ idOf[s] \in Id /\ activeOps[idOf[s]] = NoStream
      /\ routine[s] = "new" /\ acked /\ closedBy[s] = "nobody"
      /\ activeOps' = [activeOps EXCEPT ![idOf[s]] = s]
      /\ routine' = [routine EXCEPT ![s] = "running"]
      /\ UNCHANGED <<acked, closedBy, fault, idOf>>
  BY DEF SubscribeStream, registerOp, isOpActive, IInv, TypeOK, RoutineInv
<1>2. TypeOK'
  BY <1>1 DEF IInv, TypeOK, ReaderTypes
<1>5. /\ \A i \in Id : activeOps'[i] = IF i = idOf[s] THEN s ELSE activeOps[i]
      /\ \A t \in Stream : routine'[t] = IF t = s THEN "running" ELSE routine[t]
      /\ \A t \in Stream : idOf[t] \in Id
  BY <1>1 DEF IInv, TypeOK
<1>6. \A i \in Id : activeOps[i] # s
  BY <1>0, <1>1 DEF IInv, TableInv
<1>3. TableInv'
  BY <1>1, <1>5, <1>6 DEF IInv, TableInv
<1>7. TableIsExact'
  BY <1>0, <1>1, <1>5, <1>6 DEF IInv, TableIsExact
<1>4. RoutineInv' /\ EndInv' /\ OnlyAfterAck' /\ ClosedOnce'
  BY <1>1 DEF IInv, TypeOK, RoutineInv, EndInv, OnlyAfterAck, ClosedOnce, ReaderTypes
<1> QED BY <1>2, <1>3, <1>7, <1>4 DEF IInv

\* The deferred stopAllOps.
LEMMA StopAllKeeps == IInv /\ StopAllOps => IInv'
<1> SUFFICES ASSUME IInv, StopAllOps PROVE IInv'
  OBVIOUS
<1>0. NoStream \notin Stream
  BY WsAssumption
<1>1. \A s \in Stream : (s \in {activeOps[i] : i \in Id} \ {NoStream}) <=>
                           activeOps[idOf[s]] = s
  <2> TAKE s \in Stream
  <2>1. idOf[s] \in Id
    BY DEF IInv, TypeOK
  <2>2. \A i \in Id : activeOps[i] = s => idOf[s] = i
    BY <1>0 DEF IInv, TableInv
  <2> QED BY <1>0, <2>1, <2>2
<1>2. \A s \in Stream : activeOps[idOf[s]] = s => closedBy[s] = "nobody"
  BY DEF IInv, TableIsExact
<1>3. /\ \A s \in Stream :
           closedBy'[s] = IF activeOps[idOf[s]] = s THEN "teardown" ELSE closedBy[s]
      /\ closedBy' \in [Stream -> Stream \cup {"nobody", "client", "teardown"}]
      /\ fault' = fault
  <2>1. \A s \in {activeOps[i] : i \in Id} \ {NoStream} : closedBy[s] = "nobody"
    <3>1. {activeOps[i] : i \in Id} \ {NoStream} \subseteq Stream
      BY DEF IInv, TypeOK
    <3> QED BY <1>1, <1>2, <3>1
  <2> QED BY <1>1, <2>1 DEF StopAllOps, CloseDone, IInv, TypeOK
<1>4. TypeOK'
  BY <1>3 DEF IInv, TypeOK, StopAllOps, connection
<1>5. TableInv' /\ TableIsExact' /\ EndInv'
  <2>1. \A i \in Id : activeOps'[i] = NoStream
    BY DEF StopAllOps
  <2>2. \A s \in Stream : idOf'[s] \in Id /\ idOf'[s] = idOf[s] /\ routine'[s] = routine[s]
    BY DEF StopAllOps, IInv, TypeOK
  <2>3. \A s \in Stream : routine'[s] = "new" \/ closedBy'[s] # "nobody"
    BY <1>3, <2>2 DEF IInv, TableIsExact
  <2> QED BY <1>0, <2>1, <2>2, <2>3 DEF TableInv, TableIsExact, EndInv
<1>6. RoutineInv' /\ OnlyAfterAck' /\ ClosedOnce'
  BY <1>3 DEF IInv, TypeOK, TableIsExact, TableInv, RoutineInv, OnlyAfterAck, ClosedOnce,
              StopAllOps, connection
<1> QED BY <1>4, <1>5, <1>6 DEF IInv

\* The goroutine of a stream.
LEMMA RoutineKeeps ==
  ASSUME IInv, NEW s \in Stream, Routine(s)
  PROVE  IInv'
<1>0. NoStream \notin Stream /\ idOf[s] \in Id
  BY WsAssumption DEF IInv, TypeOK
<1>1. ASSUME StopOp(idOf[s], s), UNCHANGED <<reader, connection, idOf>>,
             \/ routine[s] = "running" /\ UNCHANGED routine
             \/ routine[s] = "returned" /\ routine' = [routine EXCEPT ![s] = "over"]
      PROVE  IInv'
  <2>1. TypeOK'
    BY <1>0, <1>1, StopOpKeeps DEF IInv, TypeOK, connection
  <2>2. /\ fault' = fault /\ s # "nobody"
        /\ \A i \in Id : activeOps'[i] = IF i = idOf[s] THEN NoStream ELSE activeOps[i]
        /\ \A t \in Stream : closedBy'[t] = IF activeOps[idOf[s]] = t THEN s ELSE closedBy[t]
    BY <1>0, <1>1, StopOpKeeps
  <2>3. \A t \in Stream : \/ routine'[t] = routine[t]
                          \/ idOf[t] = idOf[s] /\ routine[t] = "returned" /\ routine'[t] = "over"
    BY <1>1 DEF IInv, TypeOK
  <2>4. TableInv' /\ TableIsExact' /\ RoutineInv'
    BY <1>0, <1>1, <2>2, <2>3, TableAfterRemoval
  <2>5. EndInv' /\ ClosedOnce'
    BY <1>1, <2>2 DEF IInv, EndInv, ClosedOnce
  <2>6. OnlyAfterAck'
    BY <1>1, <2>3 DEF IInv, OnlyAfterAck, connection
  <2> QED BY <2>1, <2>4, <2>5, <2>6 DEF IInv
<1>2. ASSUME NEW ok \in BOOLEAN, Emit(s, ok)
      PROVE  IInv'
  <2>1. CASE ok
    <3>1. UNCHANGED <<reader, conn, code, acked, frames, activeOps, routine, idOf,
                      closedBy, fault>>
      BY <1>2, <2>1 DEF Emit, connection
    <3> QED BY <3>1 DEF IInv, TypeOK, TableIsExact, TableInv, RoutineInv, EndInv,
                        OnlyAfterAck, ClosedOnce
  <2>2. CASE ~ ok
    BY <1>1, <1>2, <2>2 DEF Emit
  <2> QED BY <2>1, <2>2
<1>3. CASE HandlerReturns(s)
  <2>1. /\ routine[s] = "running" /\ routine' = [routine EXCEPT ![s] = "returned"]
        /\ UNCHANGED <<reader, conn, code, acked, frames, activeOps, closedBy, fault, idOf>>
    BY <1>3 DEF HandlerReturns, connection
  <2>2. TypeOK'
    BY <2>1 DEF IInv, TypeOK
  <2>5. \A t \in Stream : routine'[t] = IF t = s THEN "returned" ELSE routine[t]
    BY <2>1 DEF IInv, TypeOK
  <2>6. \A i \in Id : activeOps[i] = NoStream \/ activeOps[i] \in Stream
    BY DEF IInv, TypeOK
  <2>7. TableInv'
    BY <2>1, <2>5, <2>6 DEF IInv, TableInv
  <2>3. TableIsExact' /\ RoutineInv'
    BY <2>1, <2>5 DEF IInv, TableIsExact, RoutineInv
  <2>4. EndInv' /\ OnlyAfterAck' /\ ClosedOnce'
    BY <2>1 DEF IInv, TypeOK, EndInv, OnlyAfterAck, ClosedOnce
  <2> QED BY <2>2, <2>3, <2>4, <2>7 DEF IInv
<1>4. CASE DeferredStop(s)
  BY <1>1, <1>4 DEF DeferredStop
<1>5. CASE HandlerPanics(s)
  BY <1>5 DEF HandlerPanics, connection, IInv, TypeOK, TableIsExact, TableInv, RoutineInv,
              EndInv, OnlyAfterAck, ClosedOnce
<1> QED BY <1>2, <1>3, <1>4, <1>5 DEF Routine

\* Every step keeps the invariant.
LEMMA NextKeeps == IInv /\ [Next]_vars => IInv'
<1> SUFFICES ASSUME IInv, [Next]_vars PROVE IInv'
  OBVIOUS
<1>1. CASE ReadLoop
  <2>0. ReaderTypes
    BY <1>1, ReaderSteps
  <2>1. ASSUME NEW ok \in BOOLEAN, ConnectionInit(ok) \/ Ping(ok)
        PROVE  IInv'
    BY <2>0, <2>1, QuietSteps DEF ConnectionInit, Ping, ops, IInv, TypeOK
  <2>2. CASE InvalidMessage
    <3>1. UNCHANGED <<activeOps, routine, closedBy, fault, idOf>>
      BY <2>2 DEF InvalidMessage, ops
    <3> QED BY <2>0, <3>1, QuietSteps
  <2>3. ASSUME NEW id \in Id, SubscribeRefused(id)
        PROVE  IInv'
    BY <2>0, <2>3, QuietSteps DEF SubscribeRefused, ops, IInv, TypeOK
  <2>4. ASSUME NEW id \in Id, NEW ok \in BOOLEAN, SubscribeAnswered(id, ok)
        PROVE  IInv'
    BY <2>0, <2>4, QuietSteps DEF SubscribeAnswered, IInv, TypeOK
  <2> QED BY <1>1, <2>0, <2>1, <2>2, <2>3, <2>4, CompleteKeeps, SubscribeKeeps DEF ReadLoop
<1>2. CASE InitTimeout \/ ReadFails
  <2>1. UNCHANGED <<activeOps, routine, closedBy, fault, idOf>>
    BY <1>2 DEF InitTimeout, ReadFails, ops
  <2>2. ReaderTypes
    BY <1>2, ReaderSteps
  <2> QED BY <2>1, <2>2, QuietSteps
<1>3. CASE StopAllOps
  BY <1>3, StopAllKeeps
<1>4. CASE PeerDrops
  BY <1>4 DEF PeerDrops, ops, IInv, TypeOK, TableIsExact, TableInv, RoutineInv, EndInv,
              OnlyAfterAck, ClosedOnce
<1>5. ASSUME NEW s \in Stream, Routine(s)
      PROVE  IInv'
  BY <1>5, RoutineKeeps
<1>6. CASE UNCHANGED vars
  BY <1>6 DEF vars, IInv, TypeOK, TableIsExact, TableInv, RoutineInv, EndInv,
              OnlyAfterAck, ClosedOnce
<1> QED BY <1>1, <1>2, <1>3, <1>4, <1>5, <1>6 DEF Next, Ending

\* The invariant holds in every state of every connection.
THEOREM Invariance == Spec => []IInv
BY InitInvariant, NextKeeps, PTL DEF Spec

\* activeOps names exactly the streams that have not been told to stop.
THEOREM ExactTable == Spec => []TableIsExact
<1>1. IInv => TableIsExact
  BY DEF IInv
<1> QED BY Invariance, <1>1, PTL

\* No done channel is closed twice.
THEOREM NoDoubleClose == Spec => []ClosedOnce
<1>1. IInv => ClosedOnce
  BY DEF IInv
<1> QED BY Invariance, <1>1, PTL

\* When the connection's handler has returned, every stream was told.
THEOREM AllTold == Spec => []NoneLeftBehind
<1>1. IInv => NoneLeftBehind
  <2> SUFFICES ASSUME IInv, reader = "ended", NEW s \in Stream,
                      routine[s] # "new", closedBy[s] = "nobody"
               PROVE  FALSE
    BY DEF NoneLeftBehind
  <2>1. idOf[s] \in Id /\ activeOps[idOf[s]] = s
    BY DEF IInv, TypeOK, TableIsExact
  <2>2. activeOps[idOf[s]] = NoStream
    BY <2>1 DEF IInv, EndInv
  <2> QED BY <2>1, <2>2, WsAssumption
<1> QED BY Invariance, <1>1, PTL

\* Whoever tells a stream to stop is the client, the connection's end or the
\* goroutine of a stream that was started with the same id; and no stream is
\* new again.
LEMMA WhoTells ==
  ASSUME IInv, [Next]_vars, NEW s \in Stream
  PROVE  /\ idOf' = idOf
         /\ routine[s] # "new" => routine'[s] # "new"
         /\ \/ closedBy'[s] = closedBy[s]
            \/ closedBy'[s] \in {"client", "teardown"}
            \/ \E t \in Stream : routine[t] # "new" /\ idOf[t] = idOf[s] /\ closedBy'[s] = t
<1>0. /\ NoStream \notin Stream /\ idOf \in [Stream -> Id]
      /\ routine \in [Stream -> {"new", "running", "returned", "over"}]
      /\ closedBy \in [Stream -> Stream \cup {"nobody", "client", "teardown"}]
  BY WsAssumption DEF IInv, TypeOK
<1>1. CASE UNCHANGED <<idOf, routine, closedBy>>
  BY <1>1
<1>2. CASE ReadLoop
  <2>1. ASSUME NEW id \in Id, Complete(id)
        PROVE  closedBy'[s] \in {closedBy[s], "client"} /\ UNCHANGED <<idOf, routine>>
    BY <2>1, StopOpKeeps DEF Complete
  <2>2. ASSUME NEW r \in Stream, SubscribeStream(r)
        PROVE  UNCHANGED <<idOf, closedBy>> /\ routine' = [routine EXCEPT ![r] = "running"]
    BY <2>2 DEF SubscribeStream
  <2>3. \/ UNCHANGED <<idOf, routine, closedBy>>
        \/ \E id \in Id : Complete(id)
        \/ \E r \in Stream : SubscribeStream(r)
    BY <1>2 DEF ReadLoop, ConnectionInit, Ping, InvalidMessage, SubscribeRefused,
                SubscribeAnswered, ops
  <2> QED BY <1>0, <2>1, <2>2, <2>3
<1>3. CASE Ending
  <2>1. CASE StopAllOps
    BY <1>0, <2>1 DEF StopAllOps, CloseDone
  <2>2. CASE InitTimeout \/ ReadFails
    BY <2>2 DEF InitTimeout, ReadFails, ops
  <2> QED BY <1>3, <2>1, <2>2 DEF Ending
<1>4. CASE PeerDrops
  BY <1>4 DEF PeerDrops, ops
<1>5. ASSUME NEW t \in Stream, Routine(t)
      PROVE  /\ idOf' = idOf /\ (routine[s] # "new" => routine'[s] # "new")
             /\ \/ closedBy'[s] = closedBy[s]
                \/ routine[t] # "new" /\ idOf[t] = idOf[s] /\ closedBy'[s] = t
  <2>1. ASSUME StopOp(idOf[t], t), routine[t] # "new"
        PROVE  \/ closedBy'[s] = closedBy[s]
               \/ routine[t] # "new" /\ idOf[t] = idOf[s] /\ closedBy'[s] = t
    <3>1. idOf[t] \in Id
      BY <1>0
    <3>2. activeOps[idOf[t]] = s => idOf[s] = idOf[t]
      BY <1>0, <3>1 DEF IInv, TableInv
    <3> QED BY <2>1, <3>1, <3>2, StopOpKeeps
  <2>2. CASE \E ok \in BOOLEAN : Emit(t, ok)
    <3>1. UNCHANGED <<idOf, routine>> /\ routine[t] # "new"
      BY <2>2 DEF Emit
    <3>2. closedBy' = closedBy \/ StopOp(idOf[t], t)
      BY <2>2 DEF Emit
    <3> QED BY <2>1, <3>1, <3>2
  <2>3. CASE DeferredStop(t)
    BY <1>0, <2>1, <2>3 DEF DeferredStop
  <2>4. CASE HandlerReturns(t) \/ HandlerPanics(t)
    BY <1>0, <2>4 DEF HandlerReturns, HandlerPanics
  <2> QED BY <1>5, <2>2, <2>3, <2>4 DEF Routine
<1>6. CASE UNCHANGED vars
  BY <1>1, <1>6 DEF vars
<1> QED BY <1>2, <1>3, <1>4, <1>5, <1>6 DEF Next

\* As long as its id is its own a stream is told to stop by the client, by the
\* end of the connection or by its own goroutine only (stopOp, stopAllOps).
THEOREM OwnStreamStopped == Spec => []StopsOwnStream
<1>1. Init => StopsOwnStream
  BY DEF Init, StopsOwnStream
<1>2. IInv /\ StopsOwnStream /\ [Next]_vars => StopsOwnStream'
  <2> SUFFICES ASSUME IInv, StopsOwnStream, [Next]_vars, NEW s \in Stream,
                      \A t \in Stream \ {s} : routine'[t] # "new" => idOf'[t] # idOf'[s]
               PROVE  closedBy'[s] \in {"nobody", "client", "teardown", s}
    BY DEF StopsOwnStream
  <2>1. \A t \in Stream \ {s} : routine[t] # "new" => idOf[t] # idOf[s]
    BY WhoTells
  <2>2. closedBy[s] \in {"nobody", "client", "teardown", s}
    BY <2>1 DEF StopsOwnStream
  <2> QED BY <2>1, <2>2, WhoTells
<1> QED BY Invariance, <1>1, <1>2, PTL DEF Spec

--------------------------------------------------------------------------------
absStep == [Transport!Next]_<<absStatus, absTransport>>

\* A step that leaves who is new, who was told and the reader's end alone is
\* not visible to Streams.
LEMMA Stutters ==
  ASSUME IInv, closedBy' = closedBy, (reader' = "ended") <=> (reader = "ended"),
         \A s \in Stream : routine'[s] = "new" <=> routine[s] = "new"
  PROVE  absStep
BY DEF absStep, absStatus, absTransport

\* stopOp tells the one stream that is registered, or nobody.
LEMMA StopOpTells ==
  ASSUME IInv, NEW id \in Id, NEW who \in Stream \cup {"client", "teardown"},
         StopOp(id, who), (reader' = "ended") <=> (reader = "ended"),
         \A s \in Stream : routine'[s] = "new" <=> routine[s] = "new"
  PROVE  absStep
<1>0. NoStream \notin Stream
  BY WsAssumption
<1>1. /\ \A s \in Stream : closedBy'[s] = IF activeOps[id] = s THEN who ELSE closedBy[s]
      /\ who # "nobody"
  BY StopOpKeeps
<1>2. absTransport' = absTransport
  BY DEF absTransport
<1>3. CASE activeOps[id] = NoStream
  <2>1. \A s \in Stream : closedBy'[s] = closedBy[s]
    BY <1>0, <1>1, <1>3
  <2> QED BY <1>2, <2>1 DEF absStep, absStatus
<1>4. CASE activeOps[id] # NoStream
  <2>1. activeOps[id] \in Stream
    BY <1>4 DEF IInv, TypeOK
  <2>2. routine[activeOps[id]] # "new" /\ closedBy[activeOps[id]] = "nobody"
    BY <1>4 DEF IInv, TableInv
  <2>3. absStatus[activeOps[id]] = "live"
    BY <2>1, <2>2 DEF absStatus
  <2>4. absStatus' = [absStatus EXCEPT ![activeOps[id]] = "told"]
    BY <1>1, <2>1, <2>2 DEF absStatus
  <2>5. Transport!Tell(activeOps[id])
    BY <1>2, <2>3, <2>4 DEF Transport!Tell
  <2> QED BY <2>1, <2>5 DEF absStep, Transport!Next
<1> QED BY <1>3, <1>4

\* A new subscription is a Start.
LEMMA SubscribeStarts ==
  ASSUME IInv, NEW s \in Stream, SubscribeStream(s)
  PROVE  absStep
<1>1. /\ routine[s] = "new" /\ closedBy[s] = "nobody" /\ closedBy' = closedBy
      /\ routine' = [routine EXCEPT ![s] = "running"]
      /\ reader # "ended" /\ reader' # "ended"
  BY DEF SubscribeStream, Receive, KeepReading, IInv, RoutineInv
<1>2. \A t \in Stream : routine'[t] = IF t = s THEN "running" ELSE routine[t]
  BY <1>1 DEF IInv, TypeOK
<1>3. /\ absStatus[s] = "new"
      /\ absStatus' = [absStatus EXCEPT ![s] = "live"]
      /\ absTransport = "open" /\ absTransport' = absTransport
  <2>1. absTransport = "open" /\ absTransport' = "open"
    BY <1>1 DEF absTransport
  <2>2. \A t \in Stream : absStatus'[t] = IF t = s THEN "live" ELSE absStatus[t]
    BY <1>1, <1>2 DEF absStatus
  <2>3. absStatus[s] = "new"
    BY <1>1 DEF absStatus
  <2>4. /\ absStatus' = [t \in Stream |-> absStatus'[t]]
        /\ absStatus = [t \in Stream |-> absStatus[t]]
    BY DEF absStatus
  <2>5. absStatus' = [absStatus EXCEPT ![s] = "live"]
    BY <2>2, <2>4
  <2> QED BY <2>1, <2>3, <2>5
<1> QED BY <1>3 DEF absStep, Transport!Next, Transport!Start

\* stopAllOps is the End of the transport.
LEMMA StopAllEnds ==
  ASSUME IInv, IInv', StopAllOps
  PROVE  absStep
<1>1. /\ absTransport = "open" /\ absTransport' = "gone"
      /\ \A s \in Stream : routine'[s] = routine[s]
  BY DEF StopAllOps, absTransport
<1>2. \A s \in Stream : closedBy'[s] = closedBy[s] \/ closedBy'[s] = "teardown"
  BY DEF StopAllOps, CloseDone
<1>3. \A s \in Stream : routine[s] # "new" => closedBy'[s] # "nobody"
  <2> SUFFICES ASSUME NEW s \in Stream, routine[s] # "new", closedBy'[s] = "nobody"
               PROVE  FALSE
    OBVIOUS
  <2>1. activeOps'[idOf'[s]] = s /\ idOf'[s] \in Id
    BY <1>1 DEF IInv, TableIsExact, TypeOK
  <2>2. activeOps'[idOf'[s]] = NoStream
    BY <2>1 DEF StopAllOps
  <2> QED BY <2>1, <2>2, WsAssumption
<1>4. \A s \in Stream : routine[s] = "new" => closedBy'[s] = "nobody" /\ closedBy[s] = "nobody"
  BY <1>1 DEF IInv, RoutineInv
<1>5. absStatus' = [s \in Stream |-> IF absStatus[s] = "live" THEN "told" ELSE absStatus[s]]
  BY <1>1, <1>3, <1>4 DEF absStatus
<1> QED BY <1>1, <1>5 DEF absStep, Transport!Next, Transport!End

\* Every step of the connection is a step of Streams or invisible to it.
LEMMA StepsRefine == IInv /\ IInv' /\ [Next]_vars => absStep
<1> SUFFICES ASSUME IInv, IInv', [Next]_vars PROVE absStep
  OBVIOUS
<1>1. CASE ReadLoop
  <2>0. reader # "ended" /\ reader' # "ended"
    BY <1>1, ReaderSteps DEF ReaderTypes
  <2>1. ASSUME NEW id \in Id, Complete(id)
        PROVE  absStep
    <3>1. StopOp(id, "client") /\ routine' = routine
      BY <2>1 DEF Complete
    <3> QED BY <2>0, <3>1, StopOpTells
  <2>2. ASSUME closedBy' = closedBy, routine' = routine
        PROVE  absStep
    BY <2>0, <2>2, Stutters
  <2>3. ASSUME NEW ok \in BOOLEAN, ConnectionInit(ok) \/ Ping(ok)
        PROVE  absStep
    BY <2>2, <2>3 DEF ConnectionInit, Ping, ops
  <2>4. CASE InvalidMessage
    BY <2>2, <2>4 DEF InvalidMessage, ops
  <2>5. ASSUME NEW id \in Id, SubscribeRefused(id)
        PROVE  absStep
    BY <2>2, <2>5 DEF SubscribeRefused, ops
  <2>6. ASSUME NEW id \in Id, NEW ok \in BOOLEAN, SubscribeAnswered(id, ok)
        PROVE  absStep
    BY <2>2, <2>6 DEF SubscribeAnswered
  <2> QED BY <1>1, <2>1, <2>3, <2>4, <2>5, <2>6, SubscribeStarts DEF ReadLoop
<1>2. CASE InitTimeout \/ ReadFails
  <2>1. reader # "ended" /\ reader' # "ended"
    BY <1>2, ReaderSteps DEF ReaderTypes
  <2>2. closedBy' = closedBy /\ routine' = routine
    BY <1>2 DEF InitTimeout, ReadFails, ops
  <2> QED BY <2>1, <2>2, Stutters
<1>3. CASE StopAllOps
  BY <1>3, StopAllEnds
<1>4. CASE PeerDrops
  <2>1. closedBy' = closedBy /\ routine' = routine /\ reader' = reader
    BY <1>4 DEF PeerDrops, ops
  <2> QED BY <2>1, Stutters
<1>5. ASSUME NEW s \in Stream, Routine(s)
      PROVE  absStep
  <2>0. reader' = reader /\ idOf[s] \in Id
    BY <1>5 DEF Routine, Emit, HandlerReturns, DeferredStop, HandlerPanics, IInv, TypeOK
  <2>1. \A t \in Stream : routine'[t] = "new" <=> routine[t] = "new"
    BY <1>5 DEF Routine, Emit, HandlerReturns, DeferredStop, HandlerPanics, IInv, TypeOK
  <2>2. closedBy' = closedBy \/ StopOp(idOf[s], s)
    BY <1>5 DEF Routine, Emit, HandlerReturns, DeferredStop, HandlerPanics
  <2> QED BY <2>0, <2>1, <2>2, Stutters, StopOpTells
<1>6. CASE UNCHANGED vars
  <2>1. closedBy' = closedBy /\ routine' = routine /\ reader' = reader
    BY <1>6 DEF vars
  <2> QED BY <2>1, Stutters
<1> QED BY <1>1, <1>2, <1>3, <1>4, <1>5, <1>6 DEF Next, Ending

\* The connection keeps the promise of Streams: no stream starts on a
\* connection that is gone, each is told once, and the end tells them all.
THEOREM Refinement == Spec => ImplementsStreams
<1>1. Init => Transport!Init
  BY DEF Init, Transport!Init, absStatus, absTransport
<1>2. IInv /\ IInv' /\ [Next]_vars => [Transport!Next]_<<absStatus, absTransport>>
  BY StepsRefine DEF absStep
<1> QED BY Invariance, <1>1, <1>2, PTL DEF Spec, ImplementsStreams, Transport!Spec
================================================================================
