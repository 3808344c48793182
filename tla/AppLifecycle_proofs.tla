-------------------------- MODULE AppLifecycle_proofs --------------------------
(***************************************************************************)
(* Proofs about AppLifecycle: however many goroutines call Close and       *)
(* however many signals arrive, one shutdown sequence runs, and everybody  *)
(* who is told how it ended is told the same, after it ended.              *)
(***************************************************************************)
EXTENDS AppLifecycle, WellFoundedInduction, TLAPS

\* A new App satisfies the invariant: nobody has asked for a shutdown.
LEMMA InitInvariant == Init => IInv
<1> SUFFICES ASSUME Init PROVE IInv
  OBVIOUS
<1>0. MaxSignals \in Nat
  BY LifecycleAssumption
<1>1. TypeOK
  <2>1. queued \in [Watchers -> BOOLEAN]
    BY Zenon DEF Init
  <2>2. enabled \in BOOLEAN /\ doneClosed \in BOOLEAN
    BY DEF Init
  <2>3. call \in [Callers -> {"no", "watching", "calling", "running", "returned"}]
    BY DEF Init
  <2>4. ret \in [Callers -> Errors]
    BY DEF Init, Errors
  <2> QED BY <1>0, <2>1, <2>2, <2>3, <2>4 DEF Init, TypeOK, Errors, TeardownPhases
<1>2. OneRunner /\ OnceInv /\ SequenceInv
  BY DEF Init, OneRunner, OnceInv, SequenceInv, Callers
<1>3. CallerInv /\ ListenInv
  BY DEF Init, CallerInv, ListenInv, Callers
<1> QED BY <1>1, <1>2, <1>3 DEF IInv

\* The startup phases touch nothing a shutdown depends on.
LEMMA StartupKeeps == IInv /\ StartupStep => IInv'
<1> SUFFICES ASSUME IInv, StartupStep PROVE IInv'
  OBVIOUS
<1>1. UNCHANGED <<enabled, engine, listen, listenRet, signals, queued, call, once,
                  phase, seqErr, shutdownErr, doneClosed, ret>>
  BY DEF StartupStep, StartupHook, StartupPhaseEnds, shutdownVars
<1>2. boot' \in {"init", "bootstrap", "up", "failed"} /\ ran' \in Nat
  BY DEF StartupStep, StartupHook, StartupPhaseEnds, IInv, TypeOK
<1>3. TypeOK'
  BY <1>1, <1>2 DEF IInv, TypeOK
<1>4. OneRunner' /\ OnceInv' /\ SequenceInv' /\ CallerInv' /\ ListenInv'
  BY <1>1 DEF IInv, OneRunner, OnceInv, SequenceInv, CallerInv, ListenInv
<1> QED BY <1>3, <1>4 DEF IInv

\* Listen and the engine: they only read what the shutdown publishes.
LEMMA ListenKeeps == IInv /\ (ListenStart \/ ListenStep) => IInv'
<1> SUFFICES ASSUME IInv, ListenStart \/ ListenStep PROVE IInv'
  OBVIOUS
<1> USE DEF ListenStart, ListenStep, Bind, BindFails, EngineReturns, ListenDone
<1>1. UNCHANGED <<boot, ran, enabled, signals, queued, call, once, phase, seqErr,
                  shutdownErr, doneClosed, ret>>
  BY DEF startupVars
<1>2. TypeOK'
  BY <1>1 DEF IInv, TypeOK, Errors
<1>3. OneRunner' /\ OnceInv' /\ SequenceInv' /\ CallerInv'
  BY <1>1 DEF IInv, OneRunner, OnceInv, SequenceInv, CallerInv
<1>4. ListenInv'
  BY <1>1 DEF IInv, ListenInv, OnceInv, SequenceInv, TypeOK, Errors
<1> QED BY <1>2, <1>3, <1>4 DEF IInv

\* EnableShutdownHooks, signals and calls of Close: nobody runs or returns yet.
LEMMA RequestKeeps ==
  ASSUME IInv,
         \/ Signal
         \/ \E w \in Watchers : EnableShutdownHooks(w) \/ SignalReceived(w)
         \/ \E c \in Closers : Close(c)
  PROVE  IInv'
<1>1. CASE Signal
  <2>0. MaxSignals \in Nat
    BY LifecycleAssumption
  <2>1. signals' \in 0..MaxSignals /\ queued' \in [Watchers -> BOOLEAN]
    <3>1. \A w \in Watchers : (queued[w] \/ call[w] # "no") \in BOOLEAN
      OBVIOUS
    <3> QED BY <1>1, <2>0, <3>1 DEF IInv, TypeOK, Signal
  <2>3. TypeOK'
    BY <1>1, <2>1 DEF IInv, TypeOK, Signal, startupVars
  <2>2. UNCHANGED <<enabled, listen, listenRet, call, once, phase, seqErr,
                    shutdownErr, doneClosed, ret>>
    BY <1>1 DEF Signal
  <2> QED BY <2>2, <2>3
          DEF IInv, OneRunner, OnceInv, SequenceInv, CallerInv, ListenInv
<1>2. ASSUME NEW w \in Watchers, EnableShutdownHooks(w)
      PROVE  IInv'
  <2> USE DEF EnableShutdownHooks
  <2>0. w \in Callers /\ call' = [call EXCEPT ![w] = "watching"]
    BY <1>2 DEF Callers
  <2>1. TypeOK'
    BY <1>2, <2>0 DEF IInv, TypeOK, startupVars
  <2>2. OneRunner' /\ CallerInv'
    BY <1>2, <2>0 DEF IInv, TypeOK, OneRunner, CallerInv
  <2>3. OnceInv' /\ SequenceInv' /\ ListenInv'
    BY <1>2 DEF IInv, OnceInv, SequenceInv, ListenInv
  <2> QED BY <2>1, <2>2, <2>3 DEF IInv
<1>3. ASSUME NEW c \in Callers, call[c] \in {"no", "watching"},
             call' = [call EXCEPT ![c] = "calling"],
             queued' \in [Watchers -> BOOLEAN],
             UNCHANGED <<startupVars, enabled, engine, listen, listenRet, signals,
                         once, phase, seqErr, shutdownErr, doneClosed, ret>>
      PROVE  IInv'
  <2>1. TypeOK'
    BY <1>3 DEF IInv, TypeOK, startupVars
  <2>2. OneRunner' /\ CallerInv'
    BY <1>3 DEF IInv, TypeOK, OneRunner, CallerInv
  <2>3. OnceInv' /\ SequenceInv' /\ ListenInv'
    BY <1>3 DEF IInv, OnceInv, SequenceInv, ListenInv
  <2> QED BY <2>1, <2>2, <2>3 DEF IInv
<1>4. ASSUME NEW w \in Watchers, SignalReceived(w)
      PROVE  IInv'
  BY <1>3, <1>4 DEF SignalReceived, Callers, IInv, TypeOK
<1>5. ASSUME NEW c \in Closers, Close(c)
      PROVE  IInv'
  BY <1>3, <1>5 DEF Close, Callers, IInv, TypeOK
<1> QED BY <1>1, <1>2, <1>4, <1>5

\* sync.Once: who enters it, who is let through when it is done, who leaves it.
LEMMA CallerKeeps ==
  ASSUME IInv, NEW c \in Callers, CallerStep(c)
  PROVE  IInv'
<1>1. CASE OnceFirst(c)
  <2> USE DEF OnceFirst
  <2>1. TypeOK'
    BY <1>1 DEF IInv, TypeOK, startupVars
  <2>2. OneRunner' /\ CallerInv'
    BY <1>1 DEF IInv, TypeOK, OneRunner, CallerInv
  <2>3. OnceInv' /\ SequenceInv' /\ ListenInv'
    BY <1>1 DEF IInv, OnceInv, SequenceInv, ListenInv
  <2> QED BY <2>1, <2>2, <2>3 DEF IInv
<1>2. CASE OnceLater(c)
  <2> USE DEF OnceLater
  <2>0. phase = "closed" /\ shutdownErr = seqErr
    BY <1>2 DEF IInv, OnceInv, SequenceInv
  <2>1. TypeOK'
    BY <1>2 DEF IInv, TypeOK, startupVars
  <2>2. OneRunner' /\ CallerInv'
    BY <1>2, <2>0 DEF IInv, TypeOK, OneRunner, CallerInv
  <2>3. OnceInv' /\ SequenceInv' /\ ListenInv'
    BY <1>2 DEF IInv, OnceInv, SequenceInv, ListenInv
  <2> QED BY <2>1, <2>2, <2>3 DEF IInv
<1>3. CASE OnceReturns(c)
  <2> USE DEF OnceReturns
  <2>0. once = "running" /\ shutdownErr = seqErr
    BY <1>3 DEF IInv, OneRunner, SequenceInv
  <2>1. TypeOK'
    BY <1>3 DEF IInv, TypeOK, startupVars
  <2>2. OneRunner' /\ CallerInv'
    BY <1>3, <2>0 DEF IInv, TypeOK, OneRunner, CallerInv
  <2>3. OnceInv' /\ SequenceInv' /\ ListenInv'
    BY <1>3, <2>0 DEF IInv, OnceInv, SequenceInv, ListenInv
  <2> QED BY <2>1, <2>2, <2>3 DEF IInv
<1> QED BY <1>1, <1>2, <1>3 DEF CallerStep

\* The sequence itself: its result is fixed before it is published, and it is
\* published before shutdownDone is closed.
LEMMA SequenceKeeps == IInv /\ SequenceStep => IInv'
<1> SUFFICES ASSUME IInv, SequenceStep PROVE IInv'
  OBVIOUS
<1> USE DEF SequenceStep, StopAccepting, DrainReturns, TeardownHook, TeardownHookCloses,
            TeardownPhaseEnds, AssignError, CloseDone, EndSequence, NextTeardown,
            TeardownPhases
<1>1. /\ UNCHANGED <<boot, enabled, listen, listenRet, signals, queued, call, once, ret>>
      /\ phase \in {"drain", "draining", "end", "assigned"} \cup TeardownPhases
      /\ ran' \in Nat
  BY DEF startupVars, IInv, TypeOK
<1>2. /\ phase' \in {"draining", "end", "assigned", "closed", "stuck"} \cup TeardownPhases
      /\ doneClosed' = TRUE <=> phase' = "closed"
  BY DEF IInv, OnceInv, TypeOK
<1>3. /\ seqErr' \in Errors /\ shutdownErr' \in Errors /\ engine' \in {"idle", "running", "stopped"}
      /\ doneClosed' \in BOOLEAN
  BY DEF IInv, TypeOK, Errors
<1>4. TypeOK'
  BY <1>1, <1>2, <1>3 DEF IInv, TypeOK
<1>5. once = "running" /\ ~ doneClosed
  BY <1>1 DEF IInv, OnceInv, TypeOK
<1>6. OnceInv'
  BY <1>1, <1>2, <1>3, <1>5 DEF IInv, OnceInv
<1>7. SequenceInv'
  BY DEF IInv, SequenceInv, TypeOK
<1>8. OneRunner' /\ CallerInv'
  <2>1. \A c \in Callers : call[c] # "returned"
    BY <1>5 DEF IInv, OneRunner
  <2> QED BY <1>1, <2>1 DEF IInv, OneRunner, CallerInv
<1>9. ListenInv'
  BY <1>1, <1>5 DEF IInv, ListenInv
<1> QED BY <1>4, <1>6, <1>7, <1>8, <1>9 DEF IInv

\* The invariant is inductive.
LEMMA StepInvariant == IInv /\ [Next]_vars => IInv'
<1> SUFFICES ASSUME IInv, [Next]_vars PROVE IInv'
  OBVIOUS
<1>1. CASE Next
  BY <1>1, StartupKeeps, ListenKeeps, RequestKeeps, CallerKeeps, SequenceKeeps DEF Next
<1>2. CASE UNCHANGED vars
  BY <1>2 DEF vars, IInv, TypeOK, OneRunner, OnceInv, SequenceInv, CallerInv, ListenInv
<1> QED BY <1>1, <1>2

\* The invariant holds in every state of every App.
THEOREM Invariance == Spec => []IInv
BY InitInvariant, StepInvariant, PTL DEF Spec

\* Every variable keeps its type.
THEOREM TypeCorrect == Spec => []TypeOK
<1>1. IInv => TypeOK
  BY DEF IInv
<1> QED BY Invariance, <1>1, PTL

\* At most one caller is inside the shutdown sequence, and no call returns
\* while one is (sync.Once around runShutdownSequence).
THEOREM SingleRunner == Spec => []OneRunner
<1>1. IInv => OneRunner
  BY DEF IInv
<1> QED BY Invariance, <1>1, PTL

\* All calls of Close, all signal goroutines and Listen report the outcome of
\* the one sequence, and none of them before the sequence is over.
THEOREM SameOutcome == Spec => []OneOutcome
<1>1. IInv => OneOutcome
  <2> SUFFICES ASSUME IInv PROVE OneOutcome
    OBVIOUS
  <2>1. ASSUME NEW c \in Callers, ret[c] # "none"
        PROVE  phase = "closed" /\ ret[c] = seqErr
    <3>1. call[c] = "returned" /\ ret[c] = seqErr
      BY <2>1 DEF IInv, CallerInv
    <3> QED BY <3>1 DEF IInv, OneRunner, OnceInv
  <2>2. listenRet \notin {"none", "bind"} => listenRet = seqErr \/ ~ enabled
    BY DEF IInv, ListenInv, TypeOK
  <2>3. (listen = "returned" /\ enabled /\ listenRet # "bind") => doneClosed
    BY DEF IInv, ListenInv
  <2> QED BY <2>1, <2>2, <2>3 DEF OneOutcome
<1> QED BY Invariance, <1>1, PTL
--------------------------------------------------------------------------------
(* What the walks are: FlattenSeq joins sequences by recursion.            *)

\* Induction over the naturals, for a property that is membership of a set.
LEMMA NatSetInduction ==
  ASSUME NEW A, 0 \in A, \A n \in Nat : n \in A => n + 1 \in A
  PROVE  Nat \subseteq A
<1> DEFINE Outside == Nat \ A
<1> SUFFICES ASSUME Outside # {} PROVE FALSE
  OBVIOUS
<1>1. \E n \in Outside : \A k \in Outside : ~ (<<k, n>> \in OpToRel(<, Nat))
  <2>1. Outside \subseteq Nat
    OBVIOUS
  <2> HIDE DEF Outside
  <2> QED BY <2>1, WFMin, NatLessThanWellFounded
<1>2. PICK n \in Outside : \A k \in Outside : ~ (k < n)
  <2>1. \A k, n \in Nat : k < n => <<k, n>> \in OpToRel(<, Nat)
    BY DEF OpToRel
  <2> QED BY <1>1, <2>1
<1>3. n # 0 /\ n - 1 \in Nat /\ n - 1 < n /\ (n - 1) + 1 = n
  BY <1>2
<1>4. n - 1 \in A
  BY <1>2, <1>3
<1> QED BY <1>2, <1>3, <1>4

\* The partial concatenations FlattenSeq chooses from exist.
LEMMA FlattenExists ==
  ASSUME NEW P, NEW ss \in Seq(Seq(P))
  PROVE  \E f \in [1..Len(ss) -> Seq(P)] :
           f = [i \in 1..Len(ss) |-> IF i = 1 THEN ss[i] ELSE f[i - 1] \o ss[i]]
<1> DEFINE Builds(k, f) == \A i \in 1..k : f[i] = IF i = 1 THEN ss[i] ELSE f[i - 1] \o ss[i]
           Built == {k \in Nat : k > Len(ss) \/ \E f \in [1..k -> Seq(P)] : Builds(k, f)}
<1>1. 0 \in Built
  <2>1. [i \in 1..0 |-> <<>>] \in [1..0 -> Seq(P)] /\ Builds(0, [i \in 1..0 |-> <<>>])
    OBVIOUS
  <2> QED BY <2>1
<1>2. ASSUME NEW k \in Nat, k \in Built PROVE k + 1 \in Built
  <2>1. CASE k + 1 > Len(ss)
    BY <2>1
  <2>2. CASE ~ (k + 1 > Len(ss))
    <3>0. Len(ss) \in Nat
      OBVIOUS
    <3>1. PICK f \in [1..k -> Seq(P)] : Builds(k, f)
      <4>1. ~ (k > Len(ss))
        BY <2>2, <3>0
      <4> HIDE DEF Builds
      <4> QED BY <1>2, <4>1
    <3> DEFINE last == IF k = 0 THEN ss[1] ELSE f[k] \o ss[k + 1]
               g == [i \in 1..(k + 1) |-> IF i = k + 1 THEN last ELSE f[i]]
    <3>2. ss[k + 1] \in Seq(P) /\ (k # 0 => f[k] \in Seq(P))
      BY <2>2, <3>0, <3>1
    <3>3. last \in Seq(P)
      BY <3>2
    <3>4. g \in [1..(k + 1) -> Seq(P)]
      BY <3>3, <3>1
    <3>5. ASSUME NEW i \in 1..k PROVE g[i] = f[i]
      <4>1. i \in 1..(k + 1) /\ i # k + 1
        OBVIOUS
      <4> HIDE DEF last
      <4> QED BY <4>1
    <3>6. g[k + 1] = last
      OBVIOUS
    <3> HIDE DEF g
    <3>7. ASSUME NEW i \in 1..(k + 1)
          PROVE  g[i] = IF i = 1 THEN ss[i] ELSE g[i - 1] \o ss[i]
      <4>1. CASE i \in 1..k
        <5>1. i # 1 => i - 1 \in 1..k
          BY <4>1
        <5> QED BY <3>1, <3>5, <4>1, <5>1
      <4>2. CASE i = k + 1
        <5>1. i # 1 => g[i - 1] = f[k] /\ k # 0
          BY <3>5, <4>2
        <5> QED BY <3>6, <4>2, <5>1
      <4> QED BY <4>1, <4>2
    <3>8. Builds(k + 1, g)
      BY <3>7
    <3> HIDE DEF Builds
    <3> QED BY <3>4, <3>8
  <2> QED BY <2>1, <2>2
<1> HIDE DEF Built
<1>3. Nat \subseteq Built
  BY <1>1, <1>2, NatSetInduction
<1>4. Len(ss) \in Built /\ Len(ss) \in Nat
  BY <1>3
<1>5. PICK f \in [1..Len(ss) -> Seq(P)] : Builds(Len(ss), f)
  BY <1>4 DEF Built
<1>6. f = [i \in 1..Len(ss) |-> IF i = 1 THEN ss[i] ELSE f[i - 1] \o ss[i]]
  BY <1>5
<1> QED BY <1>6

\* Sequences of hooks joined are a sequence of hooks.
LEMMA FlattenType ==
  ASSUME NEW P, NEW ss \in Seq(Seq(P))
  PROVE  FlattenSeq(ss) \in Seq(P)
<1>1. CASE Len(ss) = 0
  <2>1. ss = <<>> /\ <<>> \in Seq(P)
    BY <1>1
  <2> QED BY <1>1, <2>1 DEF FlattenSeq
<1>2. CASE Len(ss) # 0
  <2> DEFINE Is(f) == f = [i \in 1..Len(ss) |-> IF i = 1 THEN ss[i] ELSE f[i - 1] \o ss[i]]
             flatten == CHOOSE f : Is(f)
  <2>1. Is(flatten)
    <3>1. \E f \in [1..Len(ss) -> Seq(P)] : Is(f)
      BY FlattenExists, Zenon
    <3> HIDE DEF Is
    <3> QED BY <3>1
  <2>2. FlattenSeq(ss) = flatten[Len(ss)]
    BY <1>2 DEF FlattenSeq
  <2> DEFINE Good == {k \in Nat : k \in 1..Len(ss) => flatten[k] \in Seq(P)}
  <2> HIDE DEF flatten
  <2>3. 0 \in Good
    OBVIOUS
  <2>4. ASSUME NEW k \in Nat, k \in Good PROVE k + 1 \in Good
    <3> SUFFICES ASSUME k + 1 \in 1..Len(ss) PROVE flatten[k + 1] \in Seq(P)
      OBVIOUS
    <3>1. ss[k + 1] \in Seq(P)
      OBVIOUS
    <3>2. CASE k = 0
      BY <2>1, <3>1, <3>2
    <3>3. CASE k # 0
      <4>1. k \in 1..Len(ss)
        BY <3>3
      <4>2. flatten[k] \in Seq(P)
        BY <2>4, <4>1
      <4>3. flatten[k + 1] = flatten[k] \o ss[k + 1]
        <5>1. k + 1 \in 1..Len(ss) /\ k + 1 # 1 /\ (k + 1) - 1 = k
          BY <3>3
        <5>2. flatten[k + 1] = IF k + 1 = 1 THEN ss[k + 1] ELSE flatten[(k + 1) - 1] \o ss[k + 1]
          BY <2>1
        <5> QED BY <5>1, <5>2
      <4> QED BY <3>1, <4>2, <4>3
    <3> QED BY <3>2, <3>3
  <2>5. Nat \subseteq Good
    <3> HIDE DEF Good
    <3> QED BY <2>3, <2>4, NatSetInduction
  <2>6. Len(ss) \in 1..Len(ss) /\ Len(ss) \in Nat
    BY <1>2
  <2> QED BY <2>2, <2>5, <2>6
<1> QED BY <1>1, <1>2

Providers == UNION {Range(Own[m]) : m \in DOMAIN Own}

\* Both walks are sequences of registered providers.
LEMMA WalkType == StartupWalk \in Seq(Providers) /\ TeardownWalk \in Seq(Providers)
<1>1. ASSUME NEW mods \in Seq(Range(Modules))
      PROVE  Walk(mods) \in Seq(Providers)
  <2>1. \A i \in DOMAIN mods : Own[mods[i]] \in Seq(Providers)
    BY LifecycleAssumption DEF Providers
  <2>2. [i \in DOMAIN mods |-> Own[mods[i]]] \in Seq(Seq(Providers))
    BY <2>1
  <2> QED BY <2>2, FlattenType DEF Walk
<1>2. Reverse(Modules) \in Seq(Range(Modules))
  BY LifecycleAssumption DEF Reverse
<1> QED BY <1>1, <1>2, LifecycleAssumption DEF StartupWalk, TeardownWalk

\* w is u and then v.
Joins(w, u, v) ==
  /\ Len(w) = Len(u) + Len(v)
  /\ \A i \in 1..Len(u) : w[i] = u[i]
  /\ \A i \in 1..Len(v) : w[Len(u) + i] = v[i]

\* The elements of two sequences joined.
LEMMA Joined ==
  ASSUME NEW E, NEW u \in Seq(E), NEW v \in Seq(E)
  PROVE  u \o v \in Seq(E) /\ Joins(u \o v, u, v)
BY DEF Joins

Hooks == {"init", "bootstrap", "destroy", "before", "final"} \X Providers

\* Where each phase lies in WholeLife, and which hook of it lies where.
LEMMA WholeLifeAt ==
  /\ WholeLife \in Seq(Hooks)
  /\ Before \in [{"init", "bootstrap", "destroy", "before", "final"} -> Nat]
  /\ Len(StartupWalk) \in Nat /\ Len(TeardownWalk) \in Nat
  /\ Before["init"] = 0 /\ Before["bootstrap"] = Len(StartupWalk)
  /\ Before["destroy"] = Len(StartupWalk) + Len(StartupWalk)
  /\ Before["before"] = Before["destroy"] + Len(TeardownWalk)
  /\ Before["final"] = Before["before"] + Len(TeardownWalk)
  /\ Len(WholeLife) = Before["final"] + Len(TeardownWalk)
  /\ \A p \in {"init", "bootstrap"}, i \in 1..Len(StartupWalk) :
       WholeLife[Before[p] + i] = <<p, StartupWalk[i]>>
  /\ \A p \in TeardownPhases, i \in 1..Len(TeardownWalk) :
       WholeLife[Before[p] + i] = <<p, TeardownWalk[i]>>
<1> DEFINE P == {"init", "bootstrap", "destroy", "before", "final"}
           E == P \X Providers
           S == StartupWalk
           T == TeardownWalk
           s1 == Tag("init", S)      s2 == Tag("bootstrap", S)
           t1 == Tag("destroy", T)   t2 == Tag("before", T)   t3 == Tag("final", T)
<1>1. S \in Seq(Providers) /\ T \in Seq(Providers)
  BY WalkType
<1>2. Len(S) \in Nat /\ Len(T) \in Nat
  BY <1>1
<1>3. ASSUME NEW w \in Seq(Providers), NEW p \in P
      PROVE  /\ Tag(p, w) \in Seq(E) /\ Len(Tag(p, w)) = Len(w)
             /\ \A i \in 1..Len(w) : Tag(p, w)[i] = <<p, w[i]>>
  BY DEF Tag
<1>4. /\ Before["init"] = 0 /\ Before["bootstrap"] = Len(S)
      /\ Before["destroy"] = Len(S) + Len(S)
      /\ Before["before"] = Before["destroy"] + Len(T)
      /\ Before["final"] = Before["before"] + Len(T)
      /\ Before \in [P -> Nat]
  BY <1>2 DEF Before
<1> HIDE DEF S, T
<1>5. /\ s1 \in Seq(E) /\ s2 \in Seq(E) /\ t1 \in Seq(E)
      /\ t2 \in Seq(E) /\ t3 \in Seq(E)
      /\ Len(s1) = Len(S) /\ Len(s2) = Len(S) /\ Len(t1) = Len(T) /\ Len(t2) = Len(T)
      /\ Len(t3) = Len(T)
  BY <1>1, <1>3
<1>6. /\ \A i \in 1..Len(S) : s1[i] = <<"init", S[i]>> /\ s2[i] = <<"bootstrap", S[i]>>
      /\ \A i \in 1..Len(T) :
           t1[i] = <<"destroy", T[i]>> /\ t2[i] = <<"before", T[i]>> /\ t3[i] = <<"final", T[i]>>
  BY <1>1, <1>3
<1>7. WholeLife = s1 \o s2 \o t1 \o t2 \o t3
  BY DEF WholeLife, S, T
<1> HIDE DEF s1, s2, t1, t2, t3, E
<1> DEFINE a == s1 \o s2   b == a \o t1   c == b \o t2   d == c \o t3
<1>8. /\ a \in Seq(E) /\ Len(a) = Before["destroy"]
      /\ \A i \in 1..Len(S) : a[i] = s1[i] /\ a[Before["bootstrap"] + i] = s2[i]
  <2>1. a \in Seq(E) /\ Joins(a, s1, s2)
    BY <1>5, Joined
  <2> HIDE DEF a
  <2> QED BY <1>2, <1>4, <1>5, <2>1 DEF Joins
<1> HIDE DEF a
<1>9. /\ b \in Seq(E) /\ Len(b) = Before["before"]
      /\ \A i \in 1..Before["destroy"] : b[i] = a[i]
      /\ \A i \in 1..Len(T) : b[Before["destroy"] + i] = t1[i]
  <2>1. b \in Seq(E) /\ Joins(b, a, t1)
    BY <1>5, <1>8, Joined
  <2> HIDE DEF b
  <2> QED BY <1>2, <1>4, <1>5, <1>8, <2>1 DEF Joins
<1> HIDE DEF b
<1>10. /\ c \in Seq(E) /\ Len(c) = Before["final"]
       /\ \A i \in 1..Before["before"] : c[i] = b[i]
       /\ \A i \in 1..Len(T) : c[Before["before"] + i] = t2[i]
  <2>1. c \in Seq(E) /\ Joins(c, b, t2)
    BY <1>5, <1>9, Joined
  <2> HIDE DEF c
  <2> QED BY <1>2, <1>4, <1>5, <1>9, <2>1 DEF Joins
<1> HIDE DEF c
<1>11. /\ d \in Seq(E) /\ Len(d) = Before["final"] + Len(T)
       /\ \A i \in 1..Before["final"] : d[i] = c[i]
       /\ \A i \in 1..Len(T) : d[Before["final"] + i] = t3[i]
  <2>1. d \in Seq(E) /\ Joins(d, c, t3)
    BY <1>5, <1>10, Joined
  <2> HIDE DEF d
  <2> QED BY <1>2, <1>4, <1>5, <1>10, <2>1 DEF Joins
<1>12. WholeLife = d
  BY <1>7 DEF a, b, c
<1> HIDE DEF d
<1>13. ASSUME NEW i \in 1..Len(S)
       PROVE  d[i] = <<"init", S[i]>> /\ d[Before["bootstrap"] + i] = <<"bootstrap", S[i]>>
  <2>1. /\ a[i] = <<"init", S[i]>> /\ a[Before["bootstrap"] + i] = <<"bootstrap", S[i]>>
    BY <1>6, <1>8
  <2>2. ASSUME NEW j \in 1..Before["destroy"] PROVE d[j] = a[j]
    <3>1. j \in 1..Before["before"] /\ j \in 1..Before["final"]
      BY <1>2, <1>4
    <3> QED BY <3>1, <1>9, <1>10, <1>11
  <2>3. i \in 1..Before["destroy"] /\ Before["bootstrap"] + i \in 1..Before["destroy"]
    BY <1>2, <1>4
  <2> QED BY <2>1, <2>2, <2>3
<1>14. ASSUME NEW i \in 1..Len(T)
       PROVE  /\ d[Before["destroy"] + i] = <<"destroy", T[i]>>
              /\ d[Before["before"] + i] = <<"before", T[i]>>
              /\ d[Before["final"] + i] = <<"final", T[i]>>
  <2>1. /\ Before["destroy"] + i \in 1..Before["before"] /\ Before["destroy"] + i \in 1..Before["final"]
        /\ Before["before"] + i \in 1..Before["final"]
    BY <1>2, <1>4
  <2> QED BY <2>1, <1>6, <1>9, <1>10, <1>11
<1>15. \A p \in {"init", "bootstrap"}, i \in 1..Len(S) : d[Before[p] + i] = <<p, S[i]>>
  <2>1. \A i \in 1..Len(S) : 0 + i = i
    BY <1>2
  <2> QED BY <1>4, <1>13, <2>1
<1>16. \A p \in TeardownPhases, i \in 1..Len(T) : d[Before[p] + i] = <<p, T[i]>>
  BY <1>14 DEF TeardownPhases
<1> QED BY <1>2, <1>4, <1>11, <1>12, <1>15, <1>16 DEF S, T, E, Hooks

\* A member of Prefixes(W) is as much of W as its length says ...
LEMMA PrefixIs ==
  ASSUME NEW s, NEW W \in Seq(s), NEW l \in Prefixes(W)
  PROVE  /\ l \in Seq(s) /\ Len(l) \in Nat /\ Len(l) <= Len(W) /\ Len(W) \in Nat
         /\ l = SubSeq(W, 1, Len(l))
<1>1. PICK n \in 0..Len(W) : l = SubSeq(W, 1, n)
  BY DEF Prefixes
<1>2. Len(W) \in Nat /\ n \in Nat /\ n <= Len(W)
  OBVIOUS
<1>3. l \in Seq(s) /\ Len(l) = n
  BY <1>1, <1>2
<1> QED BY <1>1, <1>2, <1>3

\* ... and the next element of W makes another one of it.
LEMMA NextHook ==
  ASSUME NEW s, NEW W \in Seq(s), NEW l \in Prefixes(W), Len(l) < Len(W),
         NEW x, x = W[Len(l) + 1]
  PROVE  Append(l, x) \in Prefixes(W) /\ Len(Append(l, x)) = Len(l) + 1
<1> DEFINE n == Len(l)
<1>1. l \in Seq(s) /\ n \in Nat /\ Len(W) \in Nat /\ n < Len(W) /\ l = SubSeq(W, 1, n)
  BY PrefixIs
<1> HIDE DEF n
<1>2. x = W[n + 1] /\ x \in s
  BY <1>1 DEF n
<1>3. Append(l, x) \in Seq(s) /\ Len(Append(l, x)) = n + 1
  BY <1>1, <1>2 DEF n
<1>4. SubSeq(W, 1, n + 1) \in Seq(s) /\ Len(SubSeq(W, 1, n + 1)) = n + 1
  BY <1>1
<1>5. \A i \in 1..(n + 1) : Append(l, x)[i] = SubSeq(W, 1, n + 1)[i]
  <2>1. Len(l) = n
    BY DEF n
  <2> QED BY <1>1, <1>2, <2>1
<1>6. Append(l, x) = SubSeq(W, 1, n + 1)
  BY <1>1, <1>3, <1>4, <1>5
<1>7. n + 1 \in 0..Len(W)
  BY <1>1
<1> QED BY <1>3, <1>6, <1>7 DEF Prefixes, n

\* The whole of the invariant of log.
LifeInv == IInv /\ LogInv /\ AskedInv

\* What a step that runs no hook and ends no phase leaves as it was.
LEMMA LogKept ==
  ASSUME LifeInv, UNCHANGED <<boot, ran, log>>,
         phase' = phase \/ {phase, phase'} \subseteq {"none", "drain", "draining"}
                        \/ phase' \notin TeardownPhases \cup {"none", "drain", "draining"}
  PROVE  LogInv'
<1>1. WholeLife' = WholeLife /\ Before' = Before /\ StartupWalk' = StartupWalk
      /\ TeardownWalk' = TeardownWalk
  BY DEF WholeLife, Before, StartupWalk, TeardownWalk
<1> QED BY <1>1 DEF LifeInv, LogInv, TeardownPhases

\* New's own steps: nobody else is there yet.
LEMMA StartupKeepsLog == LifeInv /\ StartupStep => LogInv' /\ AskedInv'
<1> SUFFICES ASSUME LifeInv, StartupStep PROVE LogInv' /\ AskedInv'
  OBVIOUS
<1> DEFINE n == Len(StartupWalk)
<1>1. /\ boot \in {"init", "bootstrap"} /\ phase = "none" /\ phase' = "none"
      /\ ran \in Nat /\ ran <= n /\ Len(log) = Before[boot] + ran
      /\ log \in Prefixes(WholeLife)
      /\ UNCHANGED <<call, seqErr>> /\ seqErr # "nil"
      /\ \A c \in Callers : call[c] = "no"
  BY DEF StartupStep, StartupHook, StartupPhaseEnds, shutdownVars, LifeInv, LogInv, AskedInv,
         IInv, TypeOK, Prefixes
<1>2. CASE StartupPhaseEnds
  <2>1. /\ log' = log /\ ran' = 0 /\ ran = n
        /\ boot' = IF boot = "init" THEN "bootstrap" ELSE "up"
    BY <1>2 DEF StartupPhaseEnds
  <2> QED BY <1>1, <2>1, WholeLifeAt DEF LogInv, AskedInv, TeardownPhases, Prefixes
<1>3. ASSUME NEW ok \in BOOLEAN, StartupHook(ok) PROVE LogInv' /\ AskedInv'
  <2>1. /\ ran < n /\ log' = Append(log, <<boot, StartupWalk[ran + 1]>>)
        /\ \/ ran' = ran + 1 /\ boot' = boot
           \/ ran' = ran /\ boot' = "failed"
    <3>1. CASE ok
      BY <1>3, <3>1 DEF StartupHook
    <3>2. CASE ~ ok
      BY <1>3, <3>2 DEF StartupHook
    <3> QED BY <3>1, <3>2
  <2>2. /\ ran + 1 \in 1..n /\ Before[boot] \in Nat
        /\ Before[boot] + ran < Len(WholeLife)
    BY <1>1, <2>1, WholeLifeAt
  <2>3. WholeLife[Len(log) + 1] = <<boot, StartupWalk[ran + 1]>>
    <3>1. Len(log) + 1 = Before[boot] + (ran + 1)
      <4>1. ran \in Nat /\ Len(log) = Before[boot] + ran
        BY <1>1
      <4> QED BY <2>2, <4>1
    <3> QED BY <1>1, <2>2, <3>1, WholeLifeAt
  <2>4. /\ log' \in Prefixes(WholeLife)
        /\ Len(log') = Len(log) + 1
    <3>1. log \in Prefixes(WholeLife) /\ Len(log) < Len(WholeLife)
      BY <1>1, <2>2
    <3> QED BY <2>1, <2>3, <3>1, NextHook, WholeLifeAt
  <2>5. LogInv'
    <3>1. ran' = ran + 1 /\ boot' = boot => Len(log') = Before[boot'] + ran' /\ ran' <= n
      BY <1>1, <2>1, <2>2, <2>4
    <3> QED BY <1>1, <2>1, <2>4, <3>1 DEF LogInv, TeardownPhases, Prefixes
  <2> QED BY <1>1, <2>5 DEF AskedInv
<1> QED BY <1>2, <1>3 DEF StartupStep

\* Listen, signals, Close, EnableShutdownHooks and the sync.Once around the
\* sequence: they run no hook.
LEMMA OthersKeepLog ==
  ASSUME LifeInv,
         \/ ListenStart \/ ListenStep \/ Signal
         \/ \E w \in Watchers : EnableShutdownHooks(w) \/ SignalReceived(w)
         \/ \E c \in Closers : Close(c)
         \/ \E c \in Callers : CallerStep(c)
  PROVE  LogInv' /\ AskedInv'
<1>1. UNCHANGED <<boot, ran, log, seqErr>>
  BY DEF ListenStart, ListenStep, Bind, BindFails, EngineReturns, ListenDone, Signal,
         EnableShutdownHooks, SignalReceived, Close, CallerStep, OnceFirst, OnceLater,
         OnceReturns, startupVars
<1>2. phase' = phase \/ (phase = "none" /\ phase' = "drain")
  <2>1. CASE ListenStart \/ ListenStep \/ Signal
    BY <2>1 DEF ListenStart, ListenStep, Bind, BindFails, EngineReturns, ListenDone, Signal
  <2>2. ASSUME NEW w \in Watchers, EnableShutdownHooks(w) \/ SignalReceived(w)
        PROVE  phase' = phase
    BY <2>2 DEF EnableShutdownHooks, SignalReceived
  <2>3. ASSUME NEW c \in Closers, Close(c) PROVE phase' = phase
    BY <2>3 DEF Close
  <2>4. ASSUME NEW c \in Callers, CallerStep(c)
        PROVE  phase' = phase \/ (phase = "none" /\ phase' = "drain")
    BY <2>4 DEF CallerStep, OnceFirst, OnceLater, OnceReturns, LifeInv, IInv, OnceInv
  <2> QED BY <2>1, <2>2, <2>3, <2>4
<1>3. boot = "up" \/ UNCHANGED <<call, phase>>
  <2>1. CASE ListenStart \/ ListenStep \/ Signal
    BY <2>1 DEF ListenStart, ListenStep, Bind, BindFails, EngineReturns, ListenDone, Signal
  <2>2. ASSUME NEW w \in Watchers, EnableShutdownHooks(w) \/ SignalReceived(w) PROVE boot = "up"
    BY <2>2 DEF EnableShutdownHooks, SignalReceived, LifeInv, AskedInv, Callers
  <2>3. ASSUME NEW c \in Closers, Close(c) PROVE boot = "up"
    BY <2>3 DEF Close
  <2>4. ASSUME NEW c \in Callers, CallerStep(c) PROVE boot = "up"
    BY <2>4 DEF CallerStep, OnceFirst, OnceLater, OnceReturns, LifeInv, AskedInv
  <2> QED BY <2>1, <2>2, <2>3, <2>4
<1>4. LogInv'
  BY <1>1, <1>2, LogKept
<1>5. AskedInv'
  <2>1. (phase' # "none" \/ \E c \in Callers : call'[c] # "no") => boot' = "up"
    BY <1>1, <1>3 DEF LifeInv, AskedInv
  <2>2. seqErr' = "nil" => /\ phase' \in {"end", "assigned", "closed"}
                           /\ Len(log') \in {Before["destroy"], Len(WholeLife)}
    BY <1>1, <1>2 DEF LifeInv, AskedInv
  <2> QED BY <2>1, <2>2 DEF AskedInv
<1> QED BY <1>4, <1>5

\* The shutdown sequence: its hooks come where New's ended.
LEMMA SequenceKeepsLog == LifeInv /\ SequenceStep => LogInv' /\ AskedInv'
<1> SUFFICES ASSUME LifeInv, SequenceStep PROVE LogInv' /\ AskedInv'
  OBVIOUS
<1> DEFINE m == Len(TeardownWalk)
<1>1. /\ phase \in {"drain", "draining", "end", "assigned"} \cup TeardownPhases
      /\ UNCHANGED <<boot, call>>
  BY DEF SequenceStep, StopAccepting, DrainReturns, TeardownHook, TeardownHookCloses,
         TeardownPhaseEnds, AssignError, CloseDone, startupVars
<1>2. /\ boot = "up" /\ boot' = "up" /\ ran \in Nat /\ log \in Prefixes(WholeLife)
      /\ phase \in TeardownPhases => ran <= m /\ Len(log) = Before[phase] + ran
      /\ phase \in {"drain", "draining"} => Len(log) = Before["destroy"]
      /\ Len(log) >= Before["destroy"] /\ Len(log) \in Nat
  <2>1. Len(log) \in Nat
    BY PrefixIs, WholeLifeAt DEF LifeInv, LogInv, Prefixes
  <2> QED BY <1>1, <2>1 DEF LifeInv, LogInv, AskedInv, IInv, TypeOK, TeardownPhases, Prefixes
<1>3. seqErr = "nil" => phase \in {"end", "assigned"} /\ Len(log) \in {Before["destroy"], Len(WholeLife)}
  BY <1>1 DEF LifeInv, AskedInv, TeardownPhases
<1>4. CASE StopAccepting \/ AssignError \/ CloseDone
  <2>1. /\ UNCHANGED <<ran, log, seqErr>>
        /\ \/ phase = "drain" /\ phase' = "draining"
           \/ phase = "end" /\ phase' = "assigned"
           \/ phase = "assigned" /\ phase' = "closed"
    BY <1>4 DEF StopAccepting, AssignError, CloseDone, startupVars
  <2> QED BY <1>2, <1>3, <2>1 DEF LogInv, AskedInv, TeardownPhases, Prefixes
<1>5. ASSUME NEW ok \in BOOLEAN, DrainReturns(ok) PROVE LogInv' /\ AskedInv'
  <2>1. /\ phase = "draining" /\ ran' = 0 /\ log' = log
        /\ \/ phase' = "destroy" /\ seqErr' = seqErr
           \/ phase' = "end" /\ seqErr' \in {"nil", "drain"}
    BY <1>5 DEF DrainReturns, EndSequence
  <2> QED BY <1>2, <1>3, <2>1, WholeLifeAt DEF LogInv, AskedInv, TeardownPhases, Prefixes
<1>6. ASSUME phase \in TeardownPhases, ran < m,
             log' = Append(log, <<phase, TeardownWalk[ran + 1]>>),
             \/ ran' = ran + 1 /\ phase' = phase /\ seqErr' = seqErr
             \/ ran' = ran /\ phase' = "end" /\ seqErr' = "hook"
             \/ ran' = ran /\ phase' = "stuck" /\ seqErr' = seqErr
      PROVE  LogInv' /\ AskedInv'
  <2>1. /\ ran + 1 \in 1..m /\ Before[phase] \in Nat
        /\ Before[phase] + ran < Len(WholeLife)
    <3>1. /\ ran \in Nat /\ m \in Nat /\ ran < m
          /\ Before["destroy"] \in Nat
      BY <1>2, <1>6, WholeLifeAt
    <3>2. /\ Before["before"] = Before["destroy"] + m
          /\ Before["final"] = Before["before"] + m
          /\ Len(WholeLife) = Before["final"] + m
      BY WholeLifeAt
    <3> HIDE DEF m
    <3> QED BY <1>6, <3>1, <3>2 DEF TeardownPhases
  <2>2. WholeLife[Len(log) + 1] = <<phase, TeardownWalk[ran + 1]>>
    <3>1. Len(log) + 1 = Before[phase] + (ran + 1)
      BY <1>2, <1>6, <2>1
    <3> QED BY <1>6, <2>1, <3>1, WholeLifeAt
  <2>3. log' \in Prefixes(WholeLife) /\ Len(log') = Len(log) + 1
    <3>1. log \in Prefixes(WholeLife) /\ Len(log) < Len(WholeLife)
      BY <1>2, <1>6, <2>1
    <3> QED BY <1>6, <2>2, <3>1, NextHook, WholeLifeAt
  <2>4. Len(log') >= Before["destroy"] /\ seqErr' # "nil"
    BY <1>2, <1>3, <1>6, <2>3, WholeLifeAt DEF TeardownPhases
  <2>5. ran' = ran + 1 /\ phase' = phase => ran' <= m /\ Len(log') = Before[phase'] + ran'
    <3>1. ran \in Nat /\ Len(log) = Before[phase] + ran /\ m \in Nat
      BY <1>2, <1>6, WholeLifeAt
    <3> QED BY <2>1, <2>3, <3>1
  <2> QED BY <1>2, <1>6, <2>3, <2>4, <2>5 DEF LogInv, AskedInv, TeardownPhases, Prefixes
<1>7. CASE (\E ok \in BOOLEAN : TeardownHook(ok)) \/ TeardownHookCloses
  BY <1>6, <1>7 DEF TeardownHook, TeardownHookCloses, EndSequence
<1>8. CASE TeardownPhaseEnds
  <2>1. /\ phase \in TeardownPhases /\ ran = m /\ ran' = 0 /\ log' = log
        /\ phase' = NextTeardown(phase)
        /\ seqErr' = IF phase = "final" THEN "nil" ELSE seqErr
    BY <1>8 DEF TeardownPhaseEnds
  <2>2. CASE phase = "final"
    <3>1. Len(log) = Len(WholeLife)
      BY <1>2, <2>1, <2>2, WholeLifeAt
    <3> QED BY <1>2, <2>1, <2>2, <3>1 DEF NextTeardown, LogInv, AskedInv, TeardownPhases, Prefixes
  <2>3. CASE phase # "final"
    <3>1. phase' \in {"before", "final"} /\ Before[phase'] = Before[phase] + m
      BY <2>1, <2>3, WholeLifeAt DEF NextTeardown, TeardownPhases
    <3>2. Before[phase'] \in Nat
      BY <3>1, WholeLifeAt
    <3> QED BY <1>2, <1>3, <2>1, <2>3, <3>1, <3>2, WholeLifeAt
            DEF LogInv, AskedInv, TeardownPhases, Prefixes
  <2> QED BY <2>2, <2>3
<1> QED BY <1>4, <1>5, <1>7, <1>8 DEF SequenceStep

\* What every step of an App's life preserves.
LEMMA LifeInvariance == Spec => []LifeInv
<1>1. Init => LifeInv
  <2> SUFFICES ASSUME Init PROVE LogInv /\ AskedInv
    BY InitInvariant DEF LifeInv
  <2>1. log = SubSeq(WholeLife, 1, 0) /\ 0 \in 0..Len(WholeLife)
    BY WholeLifeAt DEF Init
  <2>2. Len(log) = 0
    BY DEF Init
  <2>3. log \in Prefixes(WholeLife)
    BY <2>1 DEF Prefixes
  <2> QED BY <2>2, <2>3, WholeLifeAt DEF Init, LogInv, AskedInv, TeardownPhases, Callers
<1>2. LifeInv /\ [Next]_vars => LifeInv'
  <2> SUFFICES ASSUME LifeInv, [Next]_vars PROVE LogInv' /\ AskedInv'
    BY StepInvariant DEF LifeInv
  <2>1. CASE UNCHANGED vars
    BY <2>1, LogKept DEF vars, LifeInv, AskedInv
  <2>2. CASE Next
    BY <2>2, StartupKeepsLog, OthersKeepLog, SequenceKeepsLog DEF Next
  <2> QED BY <2>1, <2>2
<1> QED BY <1>1, <1>2, PTL DEF Spec

\* Over the whole life of an App its hooks run in WholeLife's order, each at
\* most once per registration, up to the first that fails, and an App that is
\* told the shutdown went well has run all of them
\* (runModuleInitPhase ... runShutdownSequence).
THEOREM HooksRunInOrder == Spec => []HooksInOrder
<1>1. LifeInv => HooksInOrder
  <2> SUFFICES ASSUME LifeInv PROVE HooksInOrder
    OBVIOUS
  <2>1. /\ log \in Seq(Hooks) /\ WholeLife \in Seq(Hooks) /\ Len(log) \in Nat
        /\ Len(log) <= Len(WholeLife)
        /\ log = SubSeq(WholeLife, 1, Len(log))
    BY PrefixIs, WholeLifeAt DEF LifeInv, LogInv, Prefixes
  <2>2. IsPrefix(log, WholeLife)
    <3>1. SubSeq(log, 1, Len(log)) = log
      BY <2>1
    <3> QED BY <2>1, <3>1 DEF IsPrefix
  <2>3. boot = "up" => Len(log) >= 2 * Len(StartupWalk)
    BY WholeLifeAt DEF LifeInv, LogInv
  <2>4. ASSUME doneClosed, shutdownErr = "nil", Len(log) > 2 * Len(StartupWalk)
        PROVE  log = WholeLife
    <3>1. seqErr = "nil"
      BY <2>4 DEF LifeInv, IInv, OnceInv, SequenceInv
    <3>2. Len(log) = Len(WholeLife)
      BY <2>4, <3>1, WholeLifeAt DEF LifeInv, AskedInv
    <3>3. SubSeq(WholeLife, 1, Len(WholeLife)) = WholeLife
      BY <2>1
    <3> QED BY <2>1, <3>2, <3>3
  <2> QED BY <2>2, <2>3, <2>4 DEF HooksInOrder
<1> QED BY LifeInvariance, <1>1, PTL
================================================================================
