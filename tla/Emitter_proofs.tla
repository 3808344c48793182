----------------------------- MODULE Emitter_proofs -----------------------------
(***************************************************************************)
(* Proofs about Emitter: for any number of events, listeners and           *)
(* subscribers and any capacity, no event is doubled, out of order or both *)
(* delivered and dropped, and none is dropped while there is room.         *)
(***************************************************************************)
EXTENDS Emitter, SequenceTheorems, TLAPS

\* The types the channels depend on.
TypeInv ==
  /\ subscribers \in Seq(Subscriber)
  /\ emission \in [Emission -> {"new", "listeners", "offering", "returned"}]
  /\ todo \in [Emission -> Seq(Subscriber)]
  /\ raw \in [Subscriber -> Seq(Emission)]
  /\ fwd \in [Subscriber -> {"none", "select", "holding", "removed", "gone"}]
  /\ held \in [Subscriber -> Emission \cup {Nothing}]
  /\ out \in [Subscriber -> Seq(Emission)]
  /\ received \in [Subscriber -> Seq(Emission)]
  /\ dropped \in [Subscriber -> SUBSET Emission]
  /\ before \in [Emission -> SUBSET Emission]

\* A forwarding goroutine in its first select holds nothing.
HeldInv ==
  \A s \in Subscriber :
    /\ fwd[s] \in {"none", "select"} => held[s] = Nothing
    /\ fwd[s] = "holding" => held[s] # Nothing

Distinct(seq) == \A i, j \in 1..Len(seq) : seq[i] = seq[j] => i = j

\* A subscriber is listed once, so a call of Emit comes to it once.
ListInv ==
  /\ Distinct(subscribers)
  /\ \A i \in 1..Len(subscribers) : fwd[subscribers[i]] # "none"
  /\ \A e \in Emission : Distinct(todo[e])
  /\ \A e \in Emission : emission[e] # "offering" => todo[e] = <<>>

\* What has been offered to a subscriber is not going to be offered again.
Offered(e, s, em, td) ==
  /\ em[e] \in {"offering", "returned"}
  /\ \A i \in 1..Len(td[e]) : td[e][i] # s

AllOffered(P, D, s, em, td) ==
  /\ \A i \in 1..Len(P) : Offered(P[i], s, em, td)
  /\ \A e \in D : Offered(e, s, em, td)

OfferedInv == \A s \in Subscriber : AllOffered(Pipeline(s), dropped[s], s, emission, todo)

BeforeInv == \A e \in Emission : \A f \in before[e] : emission[f] = "returned"

\* InOrder, of one subscriber.
Ordered(P, D, b) ==
  /\ \A i, j \in 1..Len(P) : i < j => P[i] # P[j] /\ P[j] \notin b[P[i]]
  /\ \A i \in 1..Len(P) : P[i] \notin D

OrderInv == \A s \in Subscriber : Ordered(Pipeline(s), dropped[s], before)

\* The inductive invariant.
IInv == TypeInv /\ HeldInv /\ ListInv /\ OfferedInv /\ BeforeInv /\ OrderInv

--------------------------------------------------------------------------------
(* Sequences.                                                              *)

\* The head of a sequence moves to the end of the one in front of it.
LEMMA HeadMoves ==
  ASSUME NEW S, NEW front \in Seq(S), NEW back \in Seq(S), back # <<>>
  PROVE  /\ front \o back = Append(front, Head(back)) \o Tail(back)
         /\ Head(back) \in S /\ Tail(back) \in Seq(S)
  OBVIOUS

LEMMA AppendAndConcat ==
  ASSUME NEW S, NEW a \in Seq(S), NEW x \in S, NEW b \in Seq(S)
  PROVE  /\ a \o <<x>> = Append(a, x)
         /\ a \o Append(b, x) = Append(a \o b, x)
         /\ a \o <<>> = a
         /\ <<x>> \in Seq(S) /\ a \o b \in Seq(S) /\ Len(a \o b) = Len(a) + Len(b)
  OBVIOUS

LEMMA Appended ==
  ASSUME NEW S, NEW q \in Seq(S), NEW x \in S
  PROVE  /\ Append(q, x) \in Seq(S)
         /\ Len(q) \in Nat /\ Len(Append(q, x)) = Len(q) + 1
         /\ \A i \in 1..Len(q) : Append(q, x)[i] = q[i]
         /\ Append(q, x)[Len(q) + 1] = x
  OBVIOUS

LEMMA Behind ==
  ASSUME NEW k \in Nat, NEW a \in Nat, NEW b \in Nat, NEW c \in Nat, NEW d \in Nat, d >= k
  PROVE  (a + b + c + d) - a >= k
  OBVIOUS

LEMMA TailOf ==
  ASSUME NEW S, NEW q \in Seq(S), q # <<>>
  PROVE  /\ Tail(q) \in Seq(S) /\ Head(q) \in S /\ Head(q) = q[1]
         /\ Len(q) \in Nat /\ Len(q) > 0 /\ Len(Tail(q)) = Len(q) - 1
         /\ \A i \in 1..Len(Tail(q)) : Tail(q)[i] = q[i + 1]
  OBVIOUS

LEMMA Removed ==
  ASSUME NEW S, NEW q \in Seq(S), NEW k \in 1..Len(q)
  PROVE  /\ RemoveAt(q, k) \in Seq(S)
         /\ Len(RemoveAt(q, k)) = Len(q) - 1
         /\ \A i \in 1..(Len(q) - 1) : RemoveAt(q, k)[i] = IF i < k THEN q[i] ELSE q[i + 1]
  <1> DEFINE a == SubSeq(q, 1, k - 1)
             b == SubSeq(q, k + 1, Len(q))
  <1>1. a \in Seq(S) /\ Len(a) = k - 1 /\ \A i \in 1..(k - 1) : a[i] = q[i]
    OBVIOUS
  <1>2. b \in Seq(S) /\ Len(b) = Len(q) - k /\ \A i \in 1..(Len(q) - k) : b[i] = q[k + i]
    OBVIOUS
  <1>3. RemoveAt(q, k) = a \o b
    BY DEF RemoveAt
  <1> HIDE DEF a, b
  <1>4. a \o b \in Seq(S) /\ Len(a \o b) = Len(q) - 1
    <2>1. a \o b \in Seq(S) /\ Len(a \o b) = Len(a) + Len(b)
      BY <1>1, <1>2, ConcatProperties
    <2>2. Len(q) \in Nat /\ k \in Nat
      OBVIOUS
    <2> QED
      BY <1>1, <1>2, <2>1, <2>2
  <1>5. ASSUME NEW i \in 1..(Len(q) - 1)
        PROVE  (a \o b)[i] = IF i < k THEN q[i] ELSE q[i + 1]
    <2>1. CASE i < k
      BY <1>1, <1>2, <2>1
    <2>2. CASE ~ (i < k)
      <3>1. (a \o b)[i] = b[i - (k - 1)] /\ i - (k - 1) \in 1..(Len(q) - k)
        BY <1>1, <1>2, <2>2
      <3> QED
        BY <1>2, <2>2, <3>1
    <2> QED
      BY <2>1, <2>2
  <1> QED
    BY <1>3, <1>4, <1>5
--------------------------------------------------------------------------------
(* What a subscriber's pipeline becomes.                                   *)

\* A pipeline that does not change stays offered and in order.
LEMMA Kept ==
  ASSUME NEW P \in Seq(Emission), NEW D \in SUBSET Emission, NEW s,
         NEW em, NEW td, NEW b, NEW em2, NEW td2, NEW b2,
         AllOffered(P, D, s, em, td), Ordered(P, D, b),
         \A e \in Emission : Offered(e, s, em, td) => Offered(e, s, em2, td2) /\ b2[e] = b[e]
  PROVE  AllOffered(P, D, s, em2, td2) /\ Ordered(P, D, b2)
  <1>1. \A i \in 1..Len(P) : P[i] \in Emission
    OBVIOUS
  <1> QED
    BY <1>1 DEF AllOffered, Ordered

\* A subscriber is offered an event that it was not offered before, and that
\* returned before no other: it goes to the end, or is dropped.
LEMMA OneMore ==
  ASSUME NEW P \in Seq(Emission), NEW D \in SUBSET Emission, NEW s,
         NEW em, NEW td, NEW td2, NEW b, NEW e \in Emission,
         AllOffered(P, D, s, em, td), Ordered(P, D, b),
         ~ Offered(e, s, em, td), Offered(e, s, em, td2),
         \A f \in Emission : Offered(f, s, em, td) => Offered(f, s, em, td2),
         \A f \in Emission : e \notin b[f]
  PROVE  /\ AllOffered(Append(P, e), D, s, em, td2) /\ Ordered(Append(P, e), D, b)
         /\ AllOffered(P, D \cup {e}, s, em, td2) /\ Ordered(P, D \cup {e}, b)
  <1>1. \A i \in 1..Len(P) : P[i] \in Emission /\ P[i] # e
    BY DEF AllOffered
  <1>2. e \notin D
    BY DEF AllOffered
  <1>3. AllOffered(Append(P, e), D, s, em, td2)
    BY <1>1, Appended DEF AllOffered
  <1>4. Ordered(Append(P, e), D, b)
    BY <1>1, <1>2, Appended DEF Ordered
  <1> QED
    BY <1>1, <1>2, <1>3, <1>4 DEF AllOffered, Ordered

--------------------------------------------------------------------------------
(* The steps.                                                              *)

LEMMA PipelineType ==
  ASSUME TypeInv, NEW s \in Subscriber
  PROVE  Pipeline(s) \in Seq(Emission)
  <1>1. (IF held[s] = Nothing THEN <<>> ELSE <<held[s]>>) \in Seq(Emission)
    BY DEF TypeInv
  <1> QED
    BY <1>1 DEF TypeInv, Pipeline

LEMMA InitEstablishes == Init => IInv
  <1> SUFFICES ASSUME Init PROVE IInv
    OBVIOUS
  <1>1. TypeInv
    BY EmitterAssumption DEF Init, TypeInv
  <1>2. \A s \in Subscriber : Pipeline(s) = <<>> /\ dropped[s] = {}
    BY DEF Init, Pipeline
  <1> QED
    BY <1>1, <1>2
    DEF Init, IInv, HeldInv, ListInv, Distinct, OfferedInv, AllOffered, BeforeInv, OrderInv, Ordered

\* The steps of a subscriber move its events on and change none.
LEMMA SubscriberMoves ==
  ASSUME IInv, NEW t \in Subscriber, Take(t) \/ Pass(t) \/ Read(t)
  PROVE  TypeInv' /\ HeldInv' /\ \A s \in Subscriber : Pipeline(s)' = Pipeline(s)
  <1> USE DEF IInv
  <1>1. CASE Take(t)
    <2>1. TypeInv' /\ HeldInv'
      BY <1>1, TailOf, EmitterAssumption DEF Take, TypeInv, HeldInv, emitterVars
    <2>2. ASSUME NEW s \in Subscriber, s # t PROVE Pipeline(s)' = Pipeline(s)
      BY <1>1, <2>2 DEF Take, TypeInv, Pipeline
    <2>3. Pipeline(t)' = Pipeline(t)
      <3> DEFINE a == received[t] \o out[t]
                 q == raw[t]
      <3>1. q \in Seq(Emission) /\ q # <<>> /\ a \in Seq(Emission) /\ held[t] = Nothing
        BY <1>1 DEF Take, TypeInv, HeldInv
      <3>2. Head(q) \in Emission /\ Head(q) # Nothing
        BY <3>1, TailOf, EmitterAssumption
      <3>3. Pipeline(t) = (a \o <<>>) \o q
        BY <3>1 DEF Pipeline
      <3>4. received'[t] = received[t] /\ out'[t] = out[t] /\ held'[t] = Head(q) /\ raw'[t] = Tail(q)
        BY <1>1 DEF Take, TypeInv
      <3>5. Pipeline(t)' = (a \o <<Head(q)>>) \o Tail(q)
        BY <3>2, <3>4 DEF Pipeline
      <3> HIDE DEF a, q
      <3> QED
        BY <3>1, <3>2, <3>3, <3>5, HeadMoves, AppendAndConcat
    <2> QED
      BY <2>1, <2>2, <2>3
  <1>2. CASE Pass(t)
    <2>1. held[t] \in Emission
      BY <1>2 DEF Pass, TypeInv, HeldInv
    <2>2. TypeInv' /\ HeldInv'
      BY <1>2, <2>1 DEF Pass, TypeInv, HeldInv, emitterVars
    <2>3. ASSUME NEW s \in Subscriber, s # t PROVE Pipeline(s)' = Pipeline(s)
      BY <1>2, <2>3 DEF Pass, TypeInv, Pipeline
    <2>4. Pipeline(t)' = Pipeline(t)
      <3> DEFINE r == received[t]
                 o == out[t]
                 h == held[t]
                 q == raw[t]
      <3>1. r \in Seq(Emission) /\ o \in Seq(Emission) /\ q \in Seq(Emission) /\ h \in Emission /\ h # Nothing
        BY <1>2, <2>1 DEF Pass, TypeInv, HeldInv
      <3>2. Pipeline(t) = ((r \o o) \o <<h>>) \o q
        BY <3>1 DEF Pipeline
      <3>3. received'[t] = r /\ out'[t] = Append(o, h) /\ held'[t] = Nothing /\ raw'[t] = q
        BY <1>2 DEF Pass, TypeInv
      <3>4. Pipeline(t)' = ((r \o Append(o, h)) \o <<>>) \o q
        BY <3>3 DEF Pipeline
      <3> HIDE DEF r, o, h, q
      <3>5. (r \o o) \o <<h>> = r \o Append(o, h) /\ r \o Append(o, h) \in Seq(Emission)
        <4>1. r \o o \in Seq(Emission) /\ r \o Append(o, h) = Append(r \o o, h)
          BY <3>1, AppendAndConcat
        <4> QED
          BY <3>1, <4>1, Appended, AppendAndConcat
      <3> QED
        BY <3>1, <3>2, <3>4, <3>5, AppendAndConcat
    <2> QED
      BY <2>2, <2>3, <2>4
  <1>3. CASE Read(t)
    <2>1. TypeInv' /\ HeldInv'
      BY <1>3, TailOf DEF Read, TypeInv, HeldInv, emitterVars
    <2>2. ASSUME NEW s \in Subscriber, s # t PROVE Pipeline(s)' = Pipeline(s)
      BY <1>3, <2>2 DEF Read, TypeInv, Pipeline
    <2>3. Pipeline(t)' = Pipeline(t)
      <3> DEFINE r == received[t]
                 o == out[t]
      <3>1. r \in Seq(Emission) /\ o \in Seq(Emission) /\ o # <<>>
        BY <1>3 DEF Read, TypeInv
      <3>2. received'[t] = Append(r, Head(o)) /\ out'[t] = Tail(o) /\ held'[t] = held[t] /\ raw'[t] = raw[t]
        BY <1>3 DEF Read, TypeInv
      <3>3. r \o o = Append(r, Head(o)) \o Tail(o)
        BY <3>1, HeadMoves
      <3> QED
        BY <3>2, <3>3 DEF Pipeline
    <2> QED
      BY <2>1, <2>2, <2>3
  <1> QED
    BY <1>1, <1>2, <1>3

LEMMA SubscriberKeeps ==
  ASSUME IInv, NEW t \in Subscriber, Take(t) \/ Pass(t) \/ Read(t)
  PROVE  IInv'
  <1>1. UNCHANGED <<subscribers, emission, todo, dropped, before>>
    BY DEF Take, Pass, Read, emitterVars
  <1>2. \A s \in Subscriber : fwd[s] # "none" => fwd'[s] # "none"
    BY DEF IInv, TypeInv, Take, Pass, Read
  <1>3. ListInv' /\ BeforeInv'
    BY <1>1, <1>2 DEF IInv, TypeInv, ListInv, Distinct, BeforeInv
  <1>4. OfferedInv' /\ OrderInv'
    BY <1>1, SubscriberMoves DEF IInv, OfferedInv, OrderInv
  <1> QED
    BY <1>3, <1>4, SubscriberMoves DEF IInv

\* The steps that touch no event.
LEMMA LeavingKeeps ==
  ASSUME IInv, NEW t \in Subscriber, Subscribe(t) \/ Unsubscribe(t) \/ CloseOut(t) \/ Finish(t)
  PROVE  IInv'
  <1> USE DEF IInv, emitterVars, channelVars
  <1>1. /\ UNCHANGED <<emission, todo, dropped, before, raw, held, out, received>>
        /\ \A s \in Subscriber : Pipeline(s)' = Pipeline(s)
    BY DEF Subscribe, Unsubscribe, CloseOut, Finish, Pipeline
  <1>2. OfferedInv' /\ OrderInv' /\ BeforeInv'
    BY <1>1 DEF OfferedInv, OrderInv, BeforeInv
  <1>3. CASE Subscribe(t)
    <2>1. subscribers' = Append(subscribers, t) /\ fwd' = [fwd EXCEPT ![t] = "select"] /\ fwd[t] = "none"
      BY <1>3 DEF Subscribe
    <2>2. /\ subscribers' \in Seq(Subscriber) /\ Len(subscribers') = Len(subscribers) + 1
          /\ Len(subscribers) \in Nat
          /\ \A i \in 1..Len(subscribers) : subscribers'[i] = subscribers[i] /\ subscribers[i] \in Subscriber
          /\ subscribers'[Len(subscribers) + 1] = t
      BY <2>1, Appended DEF TypeInv
    <2>3. TypeInv' /\ HeldInv'
      BY <1>1, <2>1, <2>2 DEF TypeInv, HeldInv
    <2>4. \A i \in 1..Len(subscribers) : subscribers[i] # t
      BY <2>1 DEF ListInv
    <2>5. Distinct(subscribers')
      BY <2>2, <2>4 DEF ListInv, Distinct
    <2>6. \A i \in 1..Len(subscribers') : fwd'[subscribers'[i]] # "none"
      <3> SUFFICES ASSUME NEW i \in 1..Len(subscribers') PROVE fwd'[subscribers'[i]] # "none"
        OBVIOUS
      <3>1. CASE i = Len(subscribers) + 1
        BY <2>1, <2>2, <3>1 DEF TypeInv
      <3>2. CASE i \in 1..Len(subscribers)
        BY <2>1, <2>2, <3>2 DEF TypeInv, ListInv
      <3> QED
        BY <2>2, <3>1, <3>2
    <2>7. ListInv'
      BY <1>1, <2>5, <2>6 DEF ListInv, Distinct
    <2> QED
      BY <1>2, <2>3, <2>7
  <1>4. CASE Unsubscribe(t)
    <2>1. PICK k \in 1..Len(subscribers) : subscribers[k] = t /\ subscribers' = RemoveAt(subscribers, k)
      BY <1>4 DEF Unsubscribe, TypeInv
    <2>2. /\ subscribers' \in Seq(Subscriber) /\ Len(subscribers') = Len(subscribers) - 1
          /\ \A i \in 1..(Len(subscribers) - 1) :
               subscribers'[i] = IF i < k THEN subscribers[i] ELSE subscribers[i + 1]
          /\ Len(subscribers) \in Nat
      <3>1. subscribers \in Seq(Subscriber) /\ Len(subscribers) \in Nat
        BY DEF TypeInv
      <3>2. /\ RemoveAt(subscribers, k) \in Seq(Subscriber)
            /\ Len(RemoveAt(subscribers, k)) = Len(subscribers) - 1
            /\ \A i \in 1..(Len(subscribers) - 1) :
                 RemoveAt(subscribers, k)[i] = IF i < k THEN subscribers[i] ELSE subscribers[i + 1]
        BY <3>1, Removed
      <3> QED
        BY <2>1, <3>1, <3>2
    <2>3. fwd' = [fwd EXCEPT ![t] = "removed"]
      BY <1>4 DEF Unsubscribe
    <2>4. TypeInv' /\ HeldInv'
      BY <1>1, <2>2, <2>3 DEF TypeInv, HeldInv
    <2>5. Distinct(subscribers')
      BY <2>2 DEF ListInv, Distinct
    <2>6. \A i \in 1..Len(subscribers) : subscribers[i] \in Subscriber
      BY DEF TypeInv
    <2>7. \A i \in 1..Len(subscribers') : fwd'[subscribers'[i]] # "none"
      <3> SUFFICES ASSUME NEW i \in 1..Len(subscribers') PROVE fwd'[subscribers'[i]] # "none"
        OBVIOUS
      <3>1. PICK j \in 1..Len(subscribers) : subscribers'[i] = subscribers[j]
        <4>1. i \in 1..(Len(subscribers) - 1) /\ i \in 1..Len(subscribers) /\ i + 1 \in 1..Len(subscribers)
          BY <2>2
        <4> QED
          BY <2>2, <4>1
      <3> QED
        BY <2>3, <2>6, <3>1 DEF TypeInv, ListInv
    <2>8. ListInv'
      BY <1>1, <2>5, <2>7 DEF ListInv, Distinct
    <2> QED
      BY <1>2, <2>4, <2>8
  <1>5. CASE CloseOut(t) \/ Finish(t)
    <2>1. /\ subscribers' = subscribers
          /\ fwd' \in [Subscriber -> {"none", "select", "holding", "removed", "gone"}]
          /\ \A s \in Subscriber : fwd'[s] = fwd[s] \/ (fwd'[s] = "gone" /\ fwd[s] = "removed")
      BY <1>5 DEF CloseOut, Finish, TypeInv
    <2>2. TypeInv' /\ HeldInv'
      BY <1>1, <2>1 DEF TypeInv, HeldInv
    <2>3. ListInv'
      BY <1>1, <2>1 DEF TypeInv, ListInv, Distinct
    <2> QED
      BY <1>2, <2>2, <2>3
  <1> QED
    BY <1>3, <1>4, <1>5

\* Emit before and after its offers.
LEMMA EmitKeeps ==
  ASSUME IInv, NEW e \in Emission,
         \/ Emit(e) \/ CopySubscribers(e) \/ EmitReturns(e)
         \/ \E l \in Listener : ListenerEnds(e, l)
  PROVE  IInv'
  <1> USE DEF IInv, channelVars
  <1>1. UNCHANGED <<subscribers, dropped, raw, fwd, held, out, received>>
    BY DEF Emit, CopySubscribers, EmitReturns, ListenerEnds
  <1>2. HeldInv' /\ \A s \in Subscriber : Pipeline(s)' = Pipeline(s)
    BY <1>1 DEF HeldInv, Pipeline
  <1>3. ASSUME TypeInv',
               \A s \in Subscriber, f \in Emission :
                 Offered(f, s, emission, todo) => Offered(f, s, emission', todo') /\ before'[f] = before[f]
        PROVE  OfferedInv' /\ OrderInv'
    <2> SUFFICES ASSUME NEW s \in Subscriber
                 PROVE  /\ AllOffered(Pipeline(s), dropped[s], s, emission', todo')
                        /\ Ordered(Pipeline(s), dropped[s], before')
      BY <1>1, <1>2 DEF OfferedInv, OrderInv
    <2>1. Pipeline(s) \in Seq(Emission) /\ dropped[s] \in SUBSET Emission
      BY PipelineType DEF TypeInv
    <2>2. AllOffered(Pipeline(s), dropped[s], s, emission, todo) /\ Ordered(Pipeline(s), dropped[s], before)
      BY DEF OfferedInv, OrderInv
    <2> QED
      BY <1>3, <2>1, <2>2, Kept
  <1>4. CASE Emit(e)
    <2>1. TypeInv'
      BY <1>1, <1>4 DEF Emit, TypeInv
    <2>2. \A s \in Subscriber, f \in Emission :
            Offered(f, s, emission, todo) => Offered(f, s, emission', todo') /\ before'[f] = before[f]
      BY <1>4 DEF Emit, TypeInv, Offered
    <2>3. ListInv' /\ BeforeInv'
      BY <1>1, <1>4 DEF Emit, TypeInv, ListInv, Distinct, BeforeInv
    <2> QED
      BY <1>2, <1>3, <2>1, <2>2, <2>3
  <1>5. CASE CopySubscribers(e)
    <2>1. TypeInv'
      BY <1>1, <1>5 DEF CopySubscribers, TypeInv
    <2>2. \A s \in Subscriber, f \in Emission :
            Offered(f, s, emission, todo) => Offered(f, s, emission', todo') /\ before'[f] = before[f]
      BY <1>5 DEF CopySubscribers, TypeInv, Offered
    <2>3. ListInv' /\ BeforeInv'
      BY <1>1, <1>5 DEF CopySubscribers, TypeInv, ListInv, Distinct, BeforeInv
    <2> QED
      BY <1>2, <1>3, <2>1, <2>2, <2>3
  <1>6. CASE EmitReturns(e)
    <2>1. TypeInv'
      BY <1>1, <1>6 DEF EmitReturns, TypeInv
    <2>2. \A s \in Subscriber, f \in Emission :
            Offered(f, s, emission, todo) => Offered(f, s, emission', todo') /\ before'[f] = before[f]
      BY <1>6 DEF EmitReturns, TypeInv, Offered
    <2>3. ListInv' /\ BeforeInv'
      BY <1>1, <1>6 DEF EmitReturns, TypeInv, ListInv, Distinct, BeforeInv
    <2> QED
      BY <1>2, <1>3, <2>1, <2>2, <2>3
  <1>7. ASSUME NEW l \in Listener, ListenerEnds(e, l) PROVE IInv'
    <2>1. UNCHANGED <<emission, todo, before>>
      BY <1>7 DEF ListenerEnds
    <2> QED
      BY <1>1, <1>2, <2>1
      DEF TypeInv, ListInv, Distinct, BeforeInv, OfferedInv, OrderInv
  <1> QED
    BY <1>4, <1>5, <1>6, <1>7

\* An offer appends the event or drops it.
LEMMA OfferKeeps ==
  ASSUME IInv, NEW e \in Emission, Offer(e)
  PROVE  IInv'
  <1> USE DEF IInv
  <1> DEFINE s == Head(todo[e])
  <1>1. /\ emission[e] = "offering" /\ todo[e] \in Seq(Subscriber) /\ todo[e] # <<>>
        /\ todo' = [todo EXCEPT ![e] = Tail(todo[e])]
        /\ UNCHANGED <<subscribers, emission, before, fwd, held, out, received>>
    BY DEF Offer, TypeInv
  <1>2. s \in Subscriber /\ raw[s] \in Seq(Emission) /\ dropped[s] \in SUBSET Emission
    BY <1>1, TailOf DEF TypeInv
  <1>3. \/ raw' = [raw EXCEPT ![s] = Append(raw[s], e)] /\ dropped' = dropped
        \/ raw' = raw /\ dropped' = [dropped EXCEPT ![s] = dropped[s] \cup {e}]
    BY DEF Offer
  <1>4. /\ Tail(todo[e]) \in Seq(Subscriber) /\ s = todo[e][1] /\ Len(todo[e]) \in Nat /\ Len(todo[e]) > 0
        /\ Len(Tail(todo[e])) = Len(todo[e]) - 1
        /\ \A i \in 1..Len(Tail(todo[e])) : Tail(todo[e])[i] = todo[e][i + 1]
    BY <1>1, TailOf
  <1> HIDE DEF s
  <1>5. TypeInv' /\ HeldInv'
    <2>1. HeldInv' /\ todo' \in [Emission -> Seq(Subscriber)]
      BY <1>1, <1>4 DEF TypeInv, HeldInv
    <2>2. Append(raw[s], e) \in Seq(Emission)
      BY <1>2, Appended
    <2>3. raw' \in [Subscriber -> Seq(Emission)] /\ dropped' \in [Subscriber -> SUBSET Emission]
      <3>1. dropped[s] \cup {e} \in SUBSET Emission
        BY <1>2
      <3> QED
        BY <1>2, <1>3, <2>2, <3>1 DEF TypeInv
    <2> QED
      BY <1>1, <2>1, <2>3 DEF TypeInv
  <1>6. Distinct(Tail(todo[e])) /\ \A i \in 1..Len(Tail(todo[e])) : Tail(todo[e])[i] # s
    BY <1>4 DEF ListInv, Distinct
  <1>7. ListInv' /\ BeforeInv'
    BY <1>1, <1>6 DEF TypeInv, ListInv, Distinct, BeforeInv
  <1>8. /\ ~ Offered(e, s, emission, todo)
        /\ Offered(e, s, emission, todo')
        /\ \A t \in Subscriber, f \in Emission :
             Offered(f, t, emission, todo) => Offered(f, t, emission, todo')
        /\ \A f \in Emission : e \notin before[f]
    <2>1. todo'[e] = Tail(todo[e]) /\ \A f \in Emission : f # e => todo'[f] = todo[f]
      BY <1>1 DEF TypeInv
    <2>2. ~ Offered(e, s, emission, todo) /\ Offered(e, s, emission, todo')
      <3>1. 1 \in 1..Len(todo[e])
        BY <1>4
      <3> QED
        BY <1>1, <1>4, <1>6, <2>1, <3>1 DEF Offered
    <2>3. ASSUME NEW t \in Subscriber, NEW f \in Emission, Offered(f, t, emission, todo)
          PROVE  Offered(f, t, emission, todo')
      <3>1. CASE f # e
        BY <2>1, <2>3, <3>1 DEF Offered
      <3>2. CASE f = e
        <4>1. \A i \in 1..Len(Tail(todo[e])) : i + 1 \in 1..Len(todo[e])
          BY <1>4
        <4> QED
          BY <1>4, <2>1, <2>3, <3>2, <4>1 DEF Offered
      <3> QED
        BY <3>1, <3>2
    <2> QED
      BY <1>1, <2>2, <2>3 DEF BeforeInv
  <1>9. ASSUME NEW t \in Subscriber
        PROVE  /\ AllOffered(Pipeline(t)', dropped'[t], t, emission, todo')
               /\ Ordered(Pipeline(t)', dropped'[t], before)
    <2>1. Pipeline(t) \in Seq(Emission) /\ dropped[t] \in SUBSET Emission
      BY PipelineType DEF TypeInv
    <2>2. AllOffered(Pipeline(t), dropped[t], t, emission, todo) /\ Ordered(Pipeline(t), dropped[t], before)
      BY DEF OfferedInv, OrderInv
    <2>3. \/ Pipeline(t)' = Pipeline(t) /\ dropped'[t] = dropped[t]
          \/ t = s /\ Pipeline(t)' = Append(Pipeline(t), e) /\ dropped'[t] = dropped[t]
          \/ t = s /\ Pipeline(t)' = Pipeline(t) /\ dropped'[t] = dropped[t] \cup {e}
      <3>1. CASE t # s \/ raw' = raw
        <4>1. raw'[t] = raw[t] /\ received'[t] = received[t] /\ out'[t] = out[t] /\ held'[t] = held[t]
          BY <1>1, <1>3, <3>1 DEF TypeInv
        <4> QED
          BY <1>2, <1>3, <3>1, <4>1 DEF Pipeline, TypeInv
      <3>2. CASE t = s /\ raw' = [raw EXCEPT ![s] = Append(raw[s], e)] /\ dropped' = dropped
        <4> DEFINE front == received[t] \o out[t] \o (IF held[t] = Nothing THEN <<>> ELSE <<held[t]>>)
        <4>1. (IF held[t] = Nothing THEN <<>> ELSE <<held[t]>>) \in Seq(Emission)
          BY DEF TypeInv
        <4>2. front \in Seq(Emission)
          BY <4>1 DEF TypeInv
        <4>3. Pipeline(t) = front \o raw[t] /\ Pipeline(t)' = front \o Append(raw[t], e)
          BY <1>1, <1>2, <3>2 DEF Pipeline, TypeInv
        <4> HIDE DEF front
        <4> QED
          BY <1>2, <3>2, <4>2, <4>3, AppendAndConcat
      <3> QED
        BY <1>3, <3>1, <3>2
    <2>4. CASE Pipeline(t)' = Pipeline(t) /\ dropped'[t] = dropped[t]
      BY <1>8, <2>1, <2>2, <2>4, Kept
    <2>5. CASE t = s /\ ~ (Pipeline(t)' = Pipeline(t) /\ dropped'[t] = dropped[t])
      <3>1. /\ AllOffered(Append(Pipeline(t), e), dropped[t], t, emission, todo')
            /\ Ordered(Append(Pipeline(t), e), dropped[t], before)
            /\ AllOffered(Pipeline(t), dropped[t] \cup {e}, t, emission, todo')
            /\ Ordered(Pipeline(t), dropped[t] \cup {e}, before)
        BY <1>8, <2>1, <2>2, <2>5, OneMore
      <3> QED
        BY <2>3, <2>5, <3>1
    <2> QED
      BY <2>3, <2>4, <2>5
  <1>10. OfferedInv' /\ OrderInv'
    BY <1>1, <1>9 DEF OfferedInv, OrderInv
  <1> QED
    BY <1>5, <1>7, <1>10

\* IInv holds in every state.
THEOREM Invariance == Spec => []IInv
  <1>1. IInv /\ [Next]_vars => IInv'
    <2>1. IInv /\ Next => IInv'
      BY SubscriberKeeps, LeavingKeeps, EmitKeeps, OfferKeeps DEF Next, EmitStep, Forward, Leave
    <2>2. IInv /\ UNCHANGED vars => IInv'
      BY DEF IInv, TypeInv, HeldInv, ListInv, Distinct, OfferedInv, BeforeInv, OrderInv, Pipeline, vars
    <2> QED
      BY <2>1, <2>2
  <1> QED
    BY InitEstablishes, <1>1, PTL DEF Spec

\* A subscriber gets its events once each and in the order of the calls, and
\* none that was dropped for it.
THEOREM Order == Spec => []InOrder
  <1>1. IInv => InOrder
    <2> SUFFICES ASSUME IInv, NEW s \in Subscriber
                 PROVE  /\ \A i, j \in DOMAIN Pipeline(s) :
                             i < j => /\ Pipeline(s)[i] # Pipeline(s)[j]
                                      /\ Pipeline(s)[j] \notin before[Pipeline(s)[i]]
                        /\ Range(Pipeline(s)) \cap dropped[s] = {}
      BY DEF InOrder
    <2>1. DOMAIN Pipeline(s) = 1..Len(Pipeline(s))
      BY PipelineType DEF IInv
    <2> QED
      BY <2>1 DEF IInv, OrderInv, Ordered, Range
  <1> QED
    BY <1>1, Invariance, PTL

\* An event is dropped only for a subscriber that is Capacity events behind.
THEOREM NoNeedlessDrop == Spec => DropOnlyWhenFull
  <1>1. IInv /\ [Next]_vars =>
          [\A s \in Subscriber :
             dropped'[s] # dropped[s] => Len(Pipeline(s)) - Len(received[s]) >= Capacity]_vars
    <2> SUFFICES ASSUME IInv, Next, NEW s \in Subscriber, dropped'[s] # dropped[s]
                 PROVE  Len(Pipeline(s)) - Len(received[s]) >= Capacity
      OBVIOUS
    <2>1. PICK e \in Emission : Offer(e)
      BY DEF Next, EmitStep, Forward, Leave, Emit, CopySubscribers, EmitReturns, ListenerEnds,
             Subscribe, Take, Pass, Unsubscribe, CloseOut, Read, Finish, emitterVars
    <2>2. Len(raw[s]) >= Capacity
      BY <2>1, EmitterAssumption DEF Offer, IInv, TypeInv
    <2> DEFINE inHand == IF held[s] = Nothing THEN <<>> ELSE <<held[s]>>
    <2>3. /\ received[s] \in Seq(Emission) /\ out[s] \in Seq(Emission) /\ raw[s] \in Seq(Emission)
          /\ inHand \in Seq(Emission)
      BY DEF IInv, TypeInv
    <2>4. Pipeline(s) = ((received[s] \o out[s]) \o inHand) \o raw[s]
      BY DEF Pipeline
    <2> HIDE DEF inHand
    <2>5. Len(Pipeline(s)) = Len(received[s]) + Len(out[s]) + Len(inHand) + Len(raw[s])
      BY <2>3, <2>4, AppendAndConcat
    <2>6. Len(received[s]) \in Nat /\ Len(out[s]) \in Nat /\ Len(inHand) \in Nat /\ Len(raw[s]) \in Nat
      BY <2>3
    <2>7. Capacity \in Nat
      BY EmitterAssumption
    <2> QED
      BY <2>2, <2>5, <2>6, <2>7, Behind
  <1> QED
    BY <1>1, Invariance, PTL DEF Spec, DropOnlyWhenFull
================================================================================
