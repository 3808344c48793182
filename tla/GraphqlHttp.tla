----------------------------- MODULE GraphqlHttp ----------------------------
(***************************************************************************)
(* GraphQL's four routes (internal/app/graphql.go): each request goes by   *)
(* its method, its token and its body to one handler.  What a client does  *)
(* in single connection mode (SseSingle: PUT, GET, POST and DELETE with a  *)
(* token) and one subscription in distinct connections mode (SseDistinct)  *)
(* share no state, so a behaviour here is the one or the other: `serving`  *)
(* is decided by the first request.                                        *)
(***************************************************************************)
EXTENDS SseSingle

CONSTANT MaxEmits   \* bound: values the handler of a distinct connection emits

ASSUME HttpAssumption == MaxEmits \in Nat

VARIABLES
  serving,                                           \* the handlers at work
  body, handler, dropped, done, emits, sent, broken  \* SseDistinct's

Distinct == INSTANCE SseDistinct WITH gone <- dropped, fault <- broken

distinct == <<body, handler, dropped, done, emits, sent, broken>>
http == <<vars, serving, distinct>>

\* What the dispatchers look at.
Requests ==
  [method : {"POST", "PUT", "GET", "DELETE"},
   token : BOOLEAN,           \* header or query parameter
   upgrade : BOOLEAN,         \* a WebSocket upgrade
   operationId : BOOLEAN]     \* extensions.operationId of the body

graphqlPostDispatcher(r) == IF r.token /\ r.operationId THEN "single" ELSE "plain"

graphqlGetDispatcher(r) ==
  CASE r.upgrade -> "websocket"
    [] r.token   -> "single"
    [] OTHER     -> "distinct"

Dispatched(r) ==
  CASE r.method = "POST" -> graphqlPostDispatcher(r)
    [] r.method = "GET"  -> graphqlGetDispatcher(r)
    [] OTHER             -> "single"

HttpInit == Init /\ Distinct!Init /\ serving = "nobody"

Dispatch ==
  /\ serving = "nobody"
  /\ \E r \in Requests : serving' = Dispatched(r)
  /\ UNCHANGED <<vars, distinct>>

ServeSingle == serving = "single" /\ Next /\ UNCHANGED <<serving, distinct>>

ServeDistinct == serving = "distinct" /\ Distinct!Next /\ UNCHANGED <<serving, vars>>

HttpNext == Dispatch \/ ServeSingle \/ ServeDistinct

HttpSpec == HttpInit /\ [][HttpNext]_http

\* The fairness of both; the one that is not served has no fair step enabled.
HttpFairSpec == HttpSpec /\ Fairness /\ Distinct!Fairness

-----------------------------------------------------------------------------
\* What the client of a distinct connection sees is a row of next frames and
\* then one complete frame, never before the handler has returned.
CompleteIsLast == Distinct!CompleteIsLast

\* A distinct connection ends on both sides: for the client that stays, with
\* complete, and for the goroutines of the client that leaves.
StreamEnds == Distinct!StreamEnds
=============================================================================
