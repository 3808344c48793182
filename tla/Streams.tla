--------------------------------- MODULE Streams ---------------------------------
(***************************************************************************)
(* What a transport of GraphQL subscriptions promises the handlers of its  *)
(* streams: a handler is told to stop at most once, streams start only     *)
(* while the transport is open, and when the transport is gone every       *)
(* handler that was started has been told.                                 *)
(***************************************************************************)
CONSTANT Stream

VARIABLES status,    \* of each stream: "new", "live" or "told"
          transport  \* "open" or "gone"

Init == status = [s \in Stream |-> "new"] /\ transport = "open"

Start(s) ==
  /\ transport = "open"
  /\ status[s] = "new"
  /\ status' = [status EXCEPT ![s] = "live"]
  /\ UNCHANGED transport

Tell(s) ==
  /\ status[s] = "live"
  /\ status' = [status EXCEPT ![s] = "told"]
  /\ UNCHANGED transport

\* The transport ends: every live handler is told.
End ==
  /\ transport = "open"
  /\ transport' = "gone"
  /\ status' = [s \in Stream |-> IF status[s] = "live" THEN "told" ELSE status[s]]

Next == End \/ \E s \in Stream : Start(s) \/ Tell(s)

Spec == Init /\ [][Next]_<<status, transport>>
================================================================================
