---------------------------- MODULE Bootstrap_proofs ----------------------------
(***************************************************************************)
(* Proofs about Bootstrap, for every set of modules, Providers and         *)
(* Controllers, whatever their closures declare and however often NewApp   *)
(* is called: assembly visits what the root reaches, a consumer gets only  *)
(* what its module may see and only what this call made, and a cycle is    *)
(* reported exactly when there is one.                                     *)
(***************************************************************************)
EXTENDS Bootstrap, Integers, FiniteSetTheorems, WellFoundedInduction, TLAPS

--------------------------------------------------------------------------------
(* Sequences, and the searches over them.                                  *)

\* Induction over a set of numbers.
LEMMA NatSetInduction ==
  ASSUME NEW A, 0 \in A, \A n \in Nat : n \in A => n + 1 \in A
  PROVE  Nat \subseteq A
  <1> DEFINE Outside == Nat \ A
  <1> SUFFICES ASSUME Outside # {} PROVE FALSE
    OBVIOUS
  <1>1. \E n \in Outside : \A k \in Outside : ~ (<<k, n>> \in OpToRel(<, Nat))
    <2>1. Outside \subseteq Nat
      OBVIOUS
    <2> HIDE DEF Outside
    <2> QED
      BY <2>1, WFMin, NatLessThanWellFounded
  <1>2. PICK n \in Outside : \A k \in Outside : ~ (k < n)
    <2>1. \A k, n \in Nat : k < n => <<k, n>> \in OpToRel(<, Nat)
      BY DEF OpToRel
    <2> QED
      BY <1>1, <2>1
  <1>3. n # 0 /\ n - 1 \in Nat /\ n - 1 < n /\ (n - 1) + 1 = n
    BY <1>2
  <1>4. n - 1 \in A
    BY <1>2, <1>3
  <1> QED
    BY <1>2, <1>3, <1>4

\* A set of numbers has a smallest one, and if they are bounded a greatest one.
LEMMA Extremes ==
  ASSUME NEW n \in Nat, NEW I \in SUBSET (1..n), I # {}
  PROVE  /\ \E k \in I : \A j \in I : k <= j
         /\ \E k \in I : \A j \in I : k >= j
  <1> DEFINE Below == {k \in Nat : \A J \in SUBSET (1..k) : J # {} =>
                         /\ \E i \in J : \A j \in J : i <= j
                         /\ \E i \in J : \A j \in J : i >= j}
  <1>1. 0 \in Below
    <2>1. 1..0 = {}
      OBVIOUS
    <2> QED
      BY <2>1
  <1>2. ASSUME NEW k \in Nat, k \in Below PROVE k + 1 \in Below
    <2> SUFFICES ASSUME NEW J \in SUBSET (1..(k + 1)), J # {}
                 PROVE  /\ \E i \in J : \A j \in J : i <= j
                        /\ \E i \in J : \A j \in J : i >= j
      OBVIOUS
    <2> DEFINE K == J \ {k + 1}
    <2>1. K \in SUBSET (1..k)
      OBVIOUS
    <2>2. CASE K = {}
      <3>1. J = {k + 1}
        BY <2>2
      <3> QED
        BY <3>1
    <2>3. CASE K # {}
      <3>1. /\ \E i \in K : \A j \in K : i <= j
            /\ \E i \in K : \A j \in K : i >= j
        BY <1>2, <2>1, <2>3
      <3>2. \A j \in J : j \in K \/ j = k + 1
        OBVIOUS
      <3>3. \A i \in K : i <= k + 1 /\ i \in J /\ i \in Nat
        BY <2>1
      <3> HIDE DEF K
      <3>4. \E i \in J : \A j \in J : i <= j
        BY <3>1, <3>2, <3>3
      <3>5. \E i \in J : \A j \in J : i >= j
        <4>1. CASE k + 1 \in J
          BY <4>1, <3>2, <3>3
        <4>2. CASE k + 1 \notin J
          BY <4>2, <3>1, <3>2, <3>3
        <4> QED
          BY <4>1, <4>2
      <3> QED
        BY <3>4, <3>5
    <2> QED
      BY <2>2, <2>3
  <1>3. n \in Below
    <2> HIDE DEF Below
    <2> QED
      BY <1>1, <1>2, NatSetInduction
  <1> QED
    BY <1>3

\* A search for an element of S returns one, if there is one.
LEMMA FoundIn ==
  ASSUME NEW P, NEW s \in Seq(P), NEW S, ToSet(s) \cap S # {}
  PROVE  /\ FirstIn(s, S) \in S \cap ToSet(s)
         /\ LastIn(s, S) \in S \cap ToSet(s)
  <1> DEFINE I == {i \in 1..Len(s) : s[i] \in S}
  <1>1. Len(s) \in Nat /\ I \in SUBSET (1..Len(s)) /\ I # {}
    BY DEF ToSet
  <1>2. FirstIn(s, S) = s[CHOOSE x \in I : \A y \in I : x <= y]
    BY <1>1 DEF FirstIn, SelectInSeq, Min
  <1>3. LastIn(s, S) = s[CHOOSE x \in I : \A y \in I : x >= y]
    BY <1>1 DEF LastIn, SelectLastInSeq, Max
  <1>4. (CHOOSE x \in I : \A y \in I : x <= y) \in I /\ (CHOOSE x \in I : \A y \in I : x >= y) \in I
    <2> HIDE DEF I
    <2> QED
      BY <1>1, Extremes
  <1>5. \A i \in I : s[i] \in S \cap ToSet(s)
    BY DEF ToSet
  <1> QED
    BY <1>2, <1>3, <1>4, <1>5

\* The elements of sequences that were put together or taken apart.
LEMMA Elements ==
  ASSUME NEW P
  PROVE  /\ ToSet(<<>>) = {}
         /\ \A x \in P : ToSet(<<x>>) = {x} /\ <<x>> \in Seq(P)
         /\ \A s \in Seq(P) : /\ ToSet(s) \subseteq P
                              /\ s = <<>> <=> ToSet(s) = {}
         /\ \A s, t \in Seq(P) : s \o t \in Seq(P) /\ ToSet(s \o t) = ToSet(s) \cup ToSet(t)
         /\ \A s \in Seq(P), x \in P : Append(s, x) \in Seq(P) /\ ToSet(Append(s, x)) = ToSet(s) \cup {x}
         /\ \A s \in Seq(P) : s # <<>> =>
              /\ Head(s) \in P /\ Tail(s) \in Seq(P)
              /\ ToSet(s) = {Head(s)} \cup ToSet(Tail(s))
  <1> USE DEF ToSet
  <1>1. ToSet(<<>>) = {} /\ \A x \in P : ToSet(<<x>>) = {x} /\ <<x>> \in Seq(P)
    OBVIOUS
  <1>2. ASSUME NEW s \in Seq(P) PROVE ToSet(s) \subseteq P /\ (s = <<>> <=> ToSet(s) = {})
    OBVIOUS
  <1>3. ASSUME NEW s \in Seq(P), NEW t \in Seq(P)
        PROVE  s \o t \in Seq(P) /\ ToSet(s \o t) = ToSet(s) \cup ToSet(t)
    <2>1. /\ s \o t \in Seq(P) /\ Len(s \o t) = Len(s) + Len(t)
          /\ Len(s) \in Nat /\ Len(t) \in Nat
          /\ DOMAIN s = 1..Len(s) /\ DOMAIN t = 1..Len(t) /\ DOMAIN (s \o t) = 1..(Len(s) + Len(t))
          /\ \A i \in 1..(Len(s) + Len(t)) : (s \o t)[i] = IF i <= Len(s) THEN s[i] ELSE t[i - Len(s)]
      OBVIOUS
    <2> DEFINE u == s \o t
    <2> HIDE DEF u
    <2>2. ASSUME NEW i \in DOMAIN u PROVE u[i] \in ToSet(s) \cup ToSet(t)
      BY <2>1, <2>2 DEF u
    <2>3. ASSUME NEW i \in DOMAIN s PROVE s[i] \in ToSet(u)
      <3>1. i \in 1..(Len(s) + Len(t)) /\ u[i] = s[i]
        BY <2>1, <2>3 DEF u
      <3> QED
        BY <2>1, <3>1 DEF u
    <2>4. ASSUME NEW i \in DOMAIN t PROVE t[i] \in ToSet(u)
      <3>1. i + Len(s) \in 1..(Len(s) + Len(t)) /\ u[i + Len(s)] = t[i]
        BY <2>1, <2>4 DEF u
      <3> QED
        BY <2>1, <3>1 DEF u
    <2> QED
      BY <2>1, <2>2, <2>3, <2>4 DEF u
  <1>4. ASSUME NEW s \in Seq(P), NEW x \in P
        PROVE  Append(s, x) \in Seq(P) /\ ToSet(Append(s, x)) = ToSet(s) \cup {x}
    <2>1. /\ Append(s, x) \in Seq(P) /\ Len(s) \in Nat
          /\ DOMAIN s = 1..Len(s) /\ DOMAIN Append(s, x) = 1..(Len(s) + 1)
          /\ \A i \in 1..(Len(s) + 1) : Append(s, x)[i] = IF i = Len(s) + 1 THEN x ELSE s[i]
      OBVIOUS
    <2> QED
      BY <2>1
  <1>5. ASSUME NEW s \in Seq(P), s # <<>>
        PROVE  /\ Head(s) \in P /\ Tail(s) \in Seq(P)
               /\ ToSet(s) = {Head(s)} \cup ToSet(Tail(s))
    <2>1. /\ Head(s) = s[1] /\ Tail(s) \in Seq(P) /\ Len(s) \in Nat /\ Len(s) >= 1
          /\ DOMAIN s = 1..Len(s) /\ DOMAIN Tail(s) = 1..(Len(s) - 1)
          /\ \A i \in 1..(Len(s) - 1) : Tail(s)[i] = s[i + 1]
      BY <1>5
    <2>2. \A i \in 2..Len(s) : s[i] = Tail(s)[i - 1] /\ i - 1 \in DOMAIN Tail(s)
      BY <2>1
    <2>3. Head(s) \in P
      BY <2>1
    <2> DEFINE t == Tail(s)
    <2> HIDE DEF t
    <2>4. ASSUME NEW i \in DOMAIN s PROVE s[i] \in {Head(s)} \cup ToSet(t)
      <3>1. i = 1 \/ i \in 2..Len(s)
        BY <2>1
      <3> QED
        BY <2>1, <2>2, <3>1 DEF t
    <2>5. ASSUME NEW i \in DOMAIN t PROVE t[i] \in ToSet(s)
      BY <2>1, <2>5 DEF t
    <2>6. Head(s) \in ToSet(s)
      BY <2>1
    <2> QED
      BY <2>1, <2>3, <2>4, <2>5, <2>6 DEF t
  <1> QED
    BY <1>1, <1>2, <1>3, <1>4, <1>5

\* The function that applies a step again and again.
IsWalk(f, a, step, most) == f = [n \in 0..most |-> IF n = 0 THEN a ELSE step[f[n - 1]]]

\* A recursive walk exists: each number of steps has its value.
LEMMA WalkExists ==
  ASSUME NEW S, NEW a \in S, NEW step \in [S -> S], NEW most \in Nat
  PROVE  \E f : IsWalk(f, a, step, most)
  <1> DEFINE Steps(k, f) == \A n \in 0..k : f[n] = IF n = 0 THEN a ELSE step[f[n - 1]]
             Long == {k \in Nat : \E f \in [0..k -> S] : Steps(k, f)}
  <1>1. 0 \in Long
    <2>1. [n \in 0..0 |-> a] \in [0..0 -> S] /\ Steps(0, [n \in 0..0 |-> a])
      OBVIOUS
    <2> QED
      BY <2>1
  <1>2. ASSUME NEW k \in Nat, k \in Long PROVE k + 1 \in Long
    <2>1. PICK f \in [0..k -> S] : Steps(k, f)
      BY <1>2
    <2> DEFINE g == [n \in 0..(k + 1) |-> IF n = k + 1 THEN step[f[k]] ELSE f[n]]
    <2>2. g \in [0..(k + 1) -> S]
      <3>1. f[k] \in S
        OBVIOUS
      <3> QED
        BY <3>1
    <2>3. Steps(k + 1, g)
      <3> SUFFICES ASSUME NEW n \in 0..(k + 1)
                   PROVE  g[n] = IF n = 0 THEN a ELSE step[g[n - 1]]
        OBVIOUS
      <3>1. CASE n = k + 1
        <4>1. n # 0 /\ n - 1 = k /\ g[n] = step[f[k]] /\ g[k] = f[k]
          BY <3>1
        <4> QED
          BY <4>1
      <3>2. CASE n # k + 1
        <4>1. n \in 0..k /\ g[n] = f[n] /\ (n # 0 => n - 1 \in 0..k /\ g[n - 1] = f[n - 1])
          BY <3>2
        <4> QED
          BY <2>1, <4>1
      <3> QED
        BY <3>1, <3>2
    <2> HIDE DEF Steps, g
    <2> QED
      BY <2>2, <2>3
  <1>3. most \in Long
    <2> HIDE DEF Long
    <2> QED
      BY <1>1, <1>2, NatSetInduction
  <1>4. PICK f \in [0..most -> S] : Steps(most, f)
    BY <1>3
  <1>5. f = [n \in 0..most |-> IF n = 0 THEN a ELSE step[f[n - 1]]]
    BY <1>4
  <1> QED
    BY <1>5 DEF IsWalk

\* What every step keeps holds at the end of the walk.
LEMMA WalkKeeps ==
  ASSUME NEW S, NEW I \in SUBSET S, NEW a \in I, NEW step \in [S -> S], NEW most \in Nat,
         \A x \in I : step[x] \in I
  PROVE  (CHOOSE f : IsWalk(f, a, step, most))[most] \in I
  <1> DEFINE f == CHOOSE g : IsWalk(g, a, step, most)
  <1>1. IsWalk(f, a, step, most)
    BY WalkExists
  <1>2. \A n \in 0..most : f[n] = IF n = 0 THEN a ELSE step[f[n - 1]]
    <2> HIDE DEF f
    <2> QED
      BY <1>1 DEF IsWalk
  <1> DEFINE Kept == {n \in Nat : n <= most => f[n] \in I}
  <1> HIDE DEF f
  <1>3. 0 \in Kept
    BY <1>2
  <1>4. ASSUME NEW n \in Nat, n \in Kept PROVE n + 1 \in Kept
    <2> SUFFICES ASSUME n + 1 <= most PROVE f[n + 1] \in I
      OBVIOUS
    <2>1. f[n] \in I /\ n + 1 \in 0..most /\ (n + 1) - 1 = n /\ n + 1 # 0
      BY <1>4
    <2> QED
      BY <1>2, <2>1
  <1>5. most \in Kept
    <2> HIDE DEF Kept
    <2> QED
      BY <1>3, <1>4, NatSetInduction
  <1> QED
    BY <1>5 DEF f

\* As many steps as the walk may take is a number.
LEMMA MostType ==
  ASSUME NEW r \in [Module -> Registration]
  PROVE  1 + Cardinality(UNION {{x} \X DOMAIN r[x].reexports : x \in Module}) \in Nat
  <1> DEFINE f == [x \in Module |-> {x} \X DOMAIN r[x].reexports]
             T == {{x} \X DOMAIN r[x].reexports : x \in Module}
  <1>1. \A x \in Module : IsFiniteSet({x} \X DOMAIN r[x].reexports)
    <2> SUFFICES ASSUME NEW x \in Module PROVE IsFiniteSet({x} \X DOMAIN r[x].reexports)
      OBVIOUS
    <2>1. r[x].reexports \in Seq(Module)
      BY DEF Registration
    <2>2. Len(r[x].reexports) \in Nat /\ DOMAIN r[x].reexports = 1..Len(r[x].reexports)
      BY <2>1
    <2>3. IsFiniteSet(DOMAIN r[x].reexports)
      BY <2>2, FS_Interval
    <2>4. IsFiniteSet({x})
      BY FS_Singleton
    <2> QED
      BY <2>3, <2>4, FS_Product
  <1>2. f \in Surjection(Module, T)
    BY DEF Surjection
  <1>3. IsFiniteSet(T)
    BY <1>2, NamesAssumption, FS_Surjection
  <1>4. IsFiniteSet(UNION T)
    BY <1>1, <1>3, FS_UNION
  <1> QED
    BY <1>4, FS_CardinalityType

\* What a module exports belongs to the exports of any set of modules that it is
\* in and that re-exports do not leave.
LEMMA ExportsBound ==
  ASSUME NEW r \in [Module -> Registration], NEW D \in SUBSET Module, NEW m \in D,
         \A i \in D : ToSet(r[i].reexports) \subseteq D
  PROVE  /\ EffectiveExports(r, m) \in Seq(Provider)
         /\ ToSet(EffectiveExports(r, m)) \subseteq UNION {ToSet(r[i].exports) : i \in D}
  <1> DEFINE S == [visited : SUBSET Module, stack : Seq(Module), out : Seq(Provider)]
             E == UNION {ToSet(r[i].exports) : i \in D}
             I == {st \in S : ToSet(st.stack) \subseteq D /\ ToSet(st.out) \subseteq E}
             a == [visited |-> {}, stack |-> <<m>>, out |-> <<>>]
             step == [st \in S |->
               IF st.stack = <<>> THEN st
               ELSE LET h == Head(st.stack) IN
                    IF h \in st.visited THEN [st EXCEPT !.stack = Tail(@)]
                    ELSE [visited |-> st.visited \cup {h},
                          stack |-> r[h].reexports \o Tail(st.stack),
                          out |-> st.out \o r[h].exports]]
             most == 1 + Cardinality(UNION {{x} \X DOMAIN r[x].reexports : x \in Module})
  <1>1. most \in Nat
    BY MostType
  <1>2. a \in I
    <2>1. <<m>> \in Seq(Module) /\ ToSet(<<m>>) = {m} /\ ToSet(<<>>) = {} /\ <<>> \in Seq(Provider)
      BY Elements
    <2> QED
      BY <2>1
  <1>3. \A st \in S : step[st] \in S /\ (st \in I => step[st] \in I)
    <2> SUFFICES ASSUME NEW st \in S PROVE step[st] \in S /\ (st \in I => step[st] \in I)
      OBVIOUS
    <2>1. CASE st.stack = <<>>
      BY <2>1
    <2>2. CASE st.stack # <<>>
      <3> DEFINE h == Head(st.stack)
      <3>1. /\ h \in Module /\ Tail(st.stack) \in Seq(Module)
            /\ ToSet(st.stack) = {h} \cup ToSet(Tail(st.stack))
        BY <2>2, Elements
      <3>2. CASE h \in st.visited
        <4>1. step[st] = [st EXCEPT !.stack = Tail(st.stack)]
          BY <2>2, <3>2
        <4> QED
          BY <3>1, <4>1
      <3>3. CASE h \notin st.visited
        <4>1. step[st] = [visited |-> st.visited \cup {h},
                          stack |-> r[h].reexports \o Tail(st.stack),
                          out |-> st.out \o r[h].exports]
          BY <2>2, <3>3
        <4>2. r[h].reexports \in Seq(Module) /\ r[h].exports \in Seq(Provider)
          BY <3>1 DEF Registration
        <4>3. /\ r[h].reexports \o Tail(st.stack) \in Seq(Module)
              /\ ToSet(r[h].reexports \o Tail(st.stack)) = ToSet(r[h].reexports) \cup ToSet(Tail(st.stack))
          <5>1. \A s, t \in Seq(Module) : s \o t \in Seq(Module) /\ ToSet(s \o t) = ToSet(s) \cup ToSet(t)
            BY Elements
          <5> QED
            BY <3>1, <4>2, <5>1
        <4>4. /\ st.out \o r[h].exports \in Seq(Provider)
              /\ ToSet(st.out \o r[h].exports) = ToSet(st.out) \cup ToSet(r[h].exports)
          <5>1. \A s, t \in Seq(Provider) : s \o t \in Seq(Provider) /\ ToSet(s \o t) = ToSet(s) \cup ToSet(t)
            BY Elements
          <5> QED
            BY <4>2, <5>1
        <4>5. st \in I => h \in D /\ ToSet(r[h].exports) \subseteq E /\ ToSet(r[h].reexports) \subseteq D
          BY <3>1
        <4> QED
          BY <3>1, <4>1, <4>3, <4>4, <4>5
      <3> QED
        BY <3>2, <3>3
    <2> QED
      BY <2>1, <2>2
  <1>4. step \in [S -> S] /\ I \in SUBSET S /\ \A x \in I : step[x] \in I
    BY <1>3
  <1>5. (CHOOSE f : IsWalk(f, a, step, most))[most] \in I
    <2> HIDE DEF S, I, a, step, most
    <2> QED
      BY <1>1, <1>2, <1>4, WalkKeeps
  <1>6. EffectiveExports(r, m) = (CHOOSE f : IsWalk(f, a, step, most))[most].out
    BY DEF EffectiveExports, IsWalk
  <1> QED
    BY <1>5, <1>6

\* The closure of S is the smallest set that has S and that next does not leave.
LEMMA ClosureIsLeast ==
  ASSUME NEW S \in SUBSET Module, NEW next \in [Module -> SUBSET Module]
  PROVE  /\ S \subseteq Closure(S, next) /\ Closure(S, next) \in SUBSET Module
         /\ Closed(Closure(S, next), next)
         /\ \A D \in SUBSET Module : S \subseteq D /\ Closed(D, next) => Closure(S, next) \subseteq D
  BY DEF Closure, Closed

\* The imports and the re-exports of the registrations, as Importing and
\* Reexporting follow them.
Imports == [m \in Module |-> ToSet(reg[m].imports)]
Reexports == [m \in Module |-> ToSet(reg[m].reexports)]

\* What a module registers are sequences of modules and Providers.
LEMMA RegistrationTypes ==
  ASSUME NEW r \in [Module -> Registration], NEW m \in Module
  PROVE  /\ r[m].imports \in Seq(Module) /\ r[m].providers \in Seq(Provider)
         /\ r[m].exports \in Seq(Provider) /\ r[m].reexports \in Seq(Module)
         /\ r[m].controllers \in Seq(Controller)
         /\ ToSet(r[m].imports) \subseteq Module /\ ToSet(r[m].providers) \subseteq Provider
         /\ ToSet(r[m].exports) \subseteq Provider /\ ToSet(r[m].reexports) \subseteq Module
         /\ ToSet(r[m].controllers) \subseteq Controller
  BY DEF Registration, ToSet

\* An import shows a module no more than what Visible allows.
LEMMA ExportsVisible ==
  ASSUME reg \in [Module -> Registration], NEW m \in Module, NEW i \in ToSet(reg[m].imports)
  PROVE  /\ EffectiveExports(reg, i) \in Seq(Provider)
         /\ ToSet(EffectiveExports(reg, i)) \subseteq Visible(m)
  <1> DEFINE S == ToSet(reg[m].imports)
             D == Closure(S, Reexports)
  <1>1. S \in SUBSET Module /\ Reexports \in [Module -> SUBSET Module]
    BY RegistrationTypes DEF Reexports
  <1>2. S \subseteq D /\ D \in SUBSET Module /\ Closed(D, Reexports)
    <2> HIDE DEF S
    <2> QED
      BY <1>1, ClosureIsLeast
  <1>3. \A j \in D : ToSet(reg[j].reexports) \subseteq D
    BY <1>2 DEF Closed, Reexports
  <1>4. D = Reexporting(ToSet(reg[m].imports))
    BY DEF Reexporting, Reexports
  <1>5. i \in D
    BY <1>2
  <1> HIDE DEF D
  <1>6. /\ EffectiveExports(reg, i) \in Seq(Provider)
        /\ ToSet(EffectiveExports(reg, i)) \subseteq UNION {ToSet(reg[j].exports) : j \in D}
    BY <1>2, <1>3, <1>5, ExportsBound
  <1> QED
    BY <1>4, <1>6 DEF Visible

\* What FindIn finds is in the list and constructs the type.
LEMMA FoundByType ==
  ASSUME NEW ps \in Seq(Provider), NEW t
  PROVE  \/ FindIn(ps, t) = "none"
         \/ FindIn(ps, t) \in Provider \cap Constructing(t) \cap ToSet(ps)
  <1>1. ToSet(ps) \subseteq Provider
    BY DEF ToSet
  <1> QED
    BY <1>1, FoundIn DEF FindIn

\* Find answers with a Provider that the module sees and that constructs the
\* type, its own or one that an import exports to it; or it panics.
LEMMA FindSees ==
  ASSUME reg \in [Module -> Registration], NEW m \in Module, NEW t
  PROVE  /\ Find(m, t) \in Provider \cup Panics
         /\ Find(m, t) \in Provider =>
              /\ Find(m, t) \in Visible(m) \cap Constructing(t)
              /\ \/ Find(m, t) \in ToSet(reg[m].providers)
                 \/ \E i \in ToSet(reg[m].imports) : Find(m, t) \in ToSet(EffectiveExports(reg, i))
  <1> DEFINE imports == reg[m].imports
             A == Provider \cup Panics \cup {"none"}
             each == [k \in DOMAIN imports |-> FindImported(imports[k], t)]
             all == <<FindOwn(m, t)>> \o each \o <<"unregistered">>
  <1>1. imports \in Seq(Module) /\ reg[m].providers \in Seq(Provider)
    BY RegistrationTypes
  <1>2. \/ FindOwn(m, t) = "none"
        \/ FindOwn(m, t) \in Provider \cap Constructing(t) \cap ToSet(reg[m].providers)
    BY <1>1, FoundByType DEF FindOwn
  <1>3. ASSUME NEW i \in ToSet(imports)
        PROVE  \/ FindImported(i, t) \in {"none", "unexported"}
               \/ FindImported(i, t) \in
                    Provider \cap Constructing(t) \cap ToSet(EffectiveExports(reg, i)) \cap Visible(m)
    <2>1. /\ EffectiveExports(reg, i) \in Seq(Provider)
          /\ ToSet(EffectiveExports(reg, i)) \subseteq Visible(m)
      BY ExportsVisible
    <2>2. \/ FindExported(i, t) = "none"
          \/ FindExported(i, t) \in Provider \cap Constructing(t) \cap ToSet(EffectiveExports(reg, i))
      BY <2>1, FoundByType DEF FindExported
    <2> QED
      BY <2>1, <2>2 DEF FindImported
  <1>4. each \in Seq(A) /\ \A x \in ToSet(each) : \E i \in ToSet(imports) : x = FindImported(i, t)
    <2>1. DOMAIN imports = 1..Len(imports) /\ Len(imports) \in Nat /\ DOMAIN each = DOMAIN imports
      BY <1>1
    <2>2. \A k \in DOMAIN imports : imports[k] \in ToSet(imports) /\ each[k] = FindImported(imports[k], t)
      BY DEF ToSet
    <2>3. \A k \in DOMAIN imports : each[k] \in A
      BY <1>3, <2>2 DEF Panics
    <2>4. each = [k \in 1..Len(imports) |-> FindImported(imports[k], t)]
      BY <2>1
    <2> HIDE DEF A, each
    <2>5. each \in [1..Len(imports) -> A]
      BY <2>1, <2>2, <2>3, <2>4
    <2>6. each \in Seq(A)
      BY <2>1, <2>5
    <2> QED
      BY <2>1, <2>2, <2>6 DEF ToSet
  <1>5. FindOwn(m, t) \in A /\ "unregistered" \in A
    BY <1>2 DEF Panics
  <1>6. all \in Seq(A) /\ ToSet(all) = {FindOwn(m, t), "unregistered"} \cup ToSet(each)
    <2> HIDE DEF each, A
    <2>1. /\ <<FindOwn(m, t)>> \in Seq(A) /\ ToSet(<<FindOwn(m, t)>>) = {FindOwn(m, t)}
          /\ <<"unregistered">> \in Seq(A) /\ ToSet(<<"unregistered">>) = {"unregistered"}
      BY <1>5, Elements
    <2>2. \A u, v \in Seq(A) : u \o v \in Seq(A) /\ ToSet(u \o v) = ToSet(u) \cup ToSet(v)
      BY Elements
    <2>3. <<FindOwn(m, t)>> \o each \in Seq(A)
      BY <1>4, <2>1, <2>2
    <2>4. ToSet(<<FindOwn(m, t)>> \o each) = {FindOwn(m, t)} \cup ToSet(each)
      BY <1>4, <2>1, <2>2
    <2>5. (<<FindOwn(m, t)>> \o each) \o <<"unregistered">> \in Seq(A)
      BY <2>1, <2>2, <2>3
    <2>6. ToSet((<<FindOwn(m, t)>> \o each) \o <<"unregistered">>)
            = ToSet(<<FindOwn(m, t)>> \o each) \cup {"unregistered"}
      BY <2>1, <2>2, <2>3
    <2> QED
      BY <2>4, <2>5, <2>6
  <1>7. Find(m, t) = FirstIn(all, Provider \cup Panics)
    BY DEF Find
  <1>8. ToSet(all) \cap (Provider \cup Panics) # {}
    BY <1>6 DEF Panics
  <1>9. Find(m, t) \in (Provider \cup Panics) \cap ToSet(all)
    <2> HIDE DEF all, A
    <2> QED
      BY <1>6, <1>7, <1>8, FoundIn
  <1>10. ASSUME Find(m, t) \in Provider
         PROVE  \/ Find(m, t) = FindOwn(m, t)
                \/ \E i \in ToSet(imports) : Find(m, t) = FindImported(i, t)
    <2>1. Find(m, t) # "unregistered"
      BY <1>10, NamesAssumption DEF Panics
    <2> HIDE DEF all, each
    <2> QED
      BY <1>4, <1>6, <1>9, <2>1
  <1>11. ToSet(reg[m].providers) \subseteq Visible(m)
    BY DEF Visible
  <1> QED
    BY <1>2, <1>3, <1>9, <1>10, <1>11, NamesAssumption DEF Panics

--------------------------------------------------------------------------------
(* The invariant.                                                          *)

Early == {"assemble", "declare", "graph", "cycles", "resolve"}

\* What assemble has visited, with what is in its queue, is as much of the tree
\* as the root reaches by the imports registered so far: everything visited has
\* its imports in one of the two, and a set that the root is in and that imports
\* do not leave holds both.  Visiting is done once.
AssemblyInv ==
  phase \notin {"idle", "failed"} =>
    /\ boot > 0
    /\ script.roots[boot] \in ToSet(order) \cup ToSet(queue)
    /\ \A m \in ToSet(order) : ToSet(reg[m].imports) \subseteq ToSet(order) \cup ToSet(queue)
    /\ \A D \in SUBSET Module :
         script.roots[boot] \in D /\ Closed(D, Imports) => ToSet(order) \cup ToSet(queue) \subseteq D
    /\ IsFiniteSet(ToSet(order)) /\ Cardinality(ToSet(order)) = Len(order)
    /\ phase # "assemble" => queue = <<>> /\ \A m \in ToSet(order) : ExportsDeclared(m)

\* The consumers of the visited modules, and whoever has an edge, belong to one.
OwnerInv ==
  phase \notin {"idle", "failed"} =>
    /\ \A x \in OwnProviders \cup OwnControllers : owner[x] \in ToSet(order)
    /\ \A e \in edges : owner[e.owner] \in ToSet(order)

\* A Provider declared in this call has its edges in the table, and each edge
\* goes to a Provider of the assembly once the graph was built.
EdgesInv ==
  /\ phase \notin {"idle", "failed"} =>
       \A p \in Provider : declared[p] = boot => EdgesOf(p) \subseteq edges
  /\ phase \in {"cycles", "resolve"} => \A e \in edges : Target(e) \in OwnProviders

\* Only Lazy has run a Constructor before Stage 3 does, and none ran twice.
MadeInv ==
  /\ \A p \in Provider : made[p] <= 1
  /\ phase \in Early => \A p \in Provider : p \notin lazy => made[p] = 0

\* The placeholders are those of earlier calls until Stage 3 fills them.
StaleInv == phase \in Early => \A x \in Consumer, t \in Type : holds[x][t].boot < boot

\* Controllers are declared last; then the assembly's Providers are resolved, and
\* whoever was declared in this call holds what it made.
FilledInv ==
  /\ phase \in Early \cup {"hooks"} => \A c \in Controller : declared[c] < boot
  /\ phase \in {"hooks", "controllers", "up"} =>
       /\ \A p \in OwnProviders : resolved[p] = boot
       /\ \A x \in Consumer : declared[x] = boot =>
            \A t \in script.needs[x] : holds[x][t].boot = boot

\* The stack of the search is a chain of dependencies: what a node on it has
\* looked at is finished or the next node.  What is finished is closed and has
\* no cycle.
SearchInv ==
  phase \in {"assemble", "declare", "graph", "cycles"} =>
    /\ phase # "cycles" => path = <<>> /\ black = {}
    /\ \A i \in 1..Len(path) :
         /\ path[i].left \subseteq Deps(path[i].node)
         /\ i < Len(path) => path[i + 1].node \in Deps(path[i].node)
         /\ \A d \in Deps(path[i].node) \ path[i].left :
              d \in black \/ (i < Len(path) /\ d = path[i + 1].node)
    /\ \A p \in black : Deps(p) \subseteq black
    /\ \A S \in SUBSET black : S # {} => \E p \in S : Deps(p) \cap S = {}

\* A failure is told by its reason.
ReasonInv == reason # "none" => phase = "failed"

\* The inductive invariant.
IInv ==
  /\ TypeOK /\ ReasonInv /\ AssemblyInv /\ OwnerInv /\ EdgesInv /\ MadeInv /\ StaleInv
  /\ FilledInv /\ OnlyVisible /\ SearchInv /\ CyclesFound

--------------------------------------------------------------------------------
(* Types.                                                                  *)

\* A script's fields have the types the model reads them at.
LEMMA ScriptTypes ==
  ASSUME TypeOK
  PROVE  /\ script \in Script /\ script.roots \in Seq(Module)
         /\ \A m \in Module : /\ script.imports[m] \in Seq(Module)
                              /\ script.providers[m] \in Seq(Provider)
                              /\ script.exports[m] \in Seq(Provider)
                              /\ script.reexports[m] \in Seq(Module)
                              /\ script.controllers[m] \in Seq(Controller)
                              /\ script.lazy[m] \in Type \cup {NoType}
         /\ \A x \in Consumer : script.needs[x] \subseteq Type
  BY DEF TypeOK, Script

LEMMA InitTypes == Init => TypeOK
  <1> SUFFICES ASSUME Init PROVE TypeOK
    OBVIOUS
  <1>1. script \in Script /\ Len(script.roots) \in Nat
    <2>1. script \in Script
      BY ScriptsAssumption DEF Init
    <2> QED
      BY <2>1 DEF Script
  <1>2. reg \in [Module -> Registration]
    BY DEF Init, NoRegistrations, Registration
  <1>3. holds \in [Consumer -> [Type -> Values]]
    BY DEF Init, Values, Empty
  <1>4. queue \in Seq(Module) /\ order \in Seq(Module) /\ chain \in Seq(Provider)
        /\ path \in Seq([node : Provider, left : SUBSET Provider])
    BY DEF Init
  <1> QED
    BY <1>1, <1>2, <1>3, <1>4 DEF Init, TypeOK, Phases, Start

\* What the assembly can be made of is a set of Providers and of Controllers.
LEMMA OwnTypes ==
  ASSUME TypeOK
  PROVE  /\ ToSet(order) \subseteq Module /\ ToSet(queue) \subseteq Module
         /\ OwnProviders \subseteq Provider /\ OwnControllers \subseteq Controller
         /\ \A p \in Provider : EdgesOf(p) \subseteq [owner : Provider, target : Type]
         /\ \A p \in Provider : Deps(p) \subseteq Provider
  <1>1. ToSet(order) \subseteq Module /\ ToSet(queue) \subseteq Module
    BY DEF TypeOK, ToSet
  <1>2. OwnProviders \subseteq Provider /\ OwnControllers \subseteq Controller
    <2>1. ASSUME NEW m \in ToSet(order)
          PROVE  ToSet(reg[m].providers) \subseteq Provider /\ ToSet(reg[m].controllers) \subseteq Controller
      BY <1>1, RegistrationTypes DEF TypeOK
    <2> QED
      BY <2>1 DEF OwnProviders, OwnControllers
  <1>3. \A p \in Provider : EdgesOf(p) \subseteq [owner : Provider, target : Type]
    BY ScriptTypes DEF EdgesOf, Consumer
  <1>4. \A p \in Provider : Deps(p) \subseteq Provider
    BY DEF Deps, TypeOK
  <1> QED
    BY <1>1, <1>2, <1>3, <1>4

\* A call of NewApp empties the tables of injection and keeps the rest.
LEMMA NewAppTypes == ASSUME TypeOK, NewApp PROVE TypeOK'
  <1> USE DEF NewApp
  <1>1. script \in Script /\ script.roots \in Seq(Module) /\ Len(script.roots) \in Nat
    BY ScriptTypes
  <1>2. boot' \in 0..Len(script.roots) /\ boot' \in Nat /\ boot \in Nat /\ boot < boot'
    BY <1>1 DEF TypeOK
  <1>3. <<script.roots[boot + 1]>> \in Seq(Module)
    BY <1>1, <1>2
  <1>4. Values \subseteq Values'
    BY <1>2 DEF Values
  <1>5. holds' \in [Consumer -> [Type -> Values']]
    BY <1>4 DEF TypeOK, tokens
  <1>6. declared' \in [Consumer -> 0..boot'] /\ resolved' \in [Provider -> 0..boot']
    BY <1>2 DEF TypeOK, tokens
  <1>7. order' \in Seq(Module) /\ chain' \in Seq(Provider)
        /\ path' \in Seq([node : Provider, left : SUBSET Provider])
    OBVIOUS
  <1> QED
    BY <1>1, <1>2, <1>3, <1>5, <1>6, <1>7 DEF TypeOK, registrations, tokens, Phases, Start

\* Declaring Providers gives them this call's number and adds edges of theirs.
LEMMA DeclareTypes ==
  ASSUME TypeOK, NEW ps \in SUBSET Provider, DeclareProviders(ps)
  PROVE  /\ declared' \in [Consumer -> 0..boot]
         /\ edges' \subseteq [owner : Provider, target : Type]
         /\ \A e \in edges' : e \in edges \/ e.owner \in ps
         /\ \A p \in Provider : declared'[p] = boot => declared[p] = boot \/ EdgesOf(p) \subseteq edges'
         /\ \A c \in Controller : declared'[c] = declared[c]
         /\ edges \subseteq edges'
  <1>1. boot \in 0..boot
    BY DEF TypeOK, Script
  <1>2. declared' \in [Consumer -> 0..boot]
    BY <1>1 DEF TypeOK, DeclareProviders
  <1>3. edges' \subseteq [owner : Provider, target : Type]
    BY OwnTypes DEF TypeOK, DeclareProviders, Fresh
  <1>4. \A e \in edges' : e \in edges \/ e.owner \in ps
    BY DEF DeclareProviders, Fresh, EdgesOf
  <1>5. \A p \in Provider : declared'[p] = boot => declared[p] = boot \/ EdgesOf(p) \subseteq edges'
    BY DEF DeclareProviders, Consumer
  <1>6. \A c \in Controller : declared'[c] = declared[c]
    BY NamesAssumption DEF DeclareProviders, Consumer, Fresh
  <1> QED
    BY <1>2, <1>3, <1>4, <1>5, <1>6 DEF DeclareProviders

\* What Visit does, said without the Lazy callback's details: m is visited and
\* its fn's registrations are appended; then the callback fails, or m owns what
\* it registered and its imports are in the queue.
LEMMA VisitDoes ==
  ASSUME TypeOK, Visit
  PROVE  LET m == Head(queue) IN
         /\ m \in Module /\ m \notin ToSet(order) /\ phase = "assemble" /\ queue # <<>>
         /\ reg' = Registered(m) /\ reg' \in [Module -> Registration]
         /\ order' = Append(order, m)
         /\ \/ phase' = "failed" /\ reason' = "lazy" /\ queue' = <<>> /\ owner' = owner
            \/ /\ phase' = "assemble" /\ reason' = reason
               /\ queue' = Tail(queue) \o reg'[m].imports
               /\ owner' = [x \in Consumer |->
                    IF x \in ToSet(reg'[m].providers) \cup ToSet(reg'[m].controllers)
                    THEN m ELSE owner[x]]
         /\ \/ UNCHANGED <<declared, edges>>
            \/ DeclareProviders(ToSet(reg'[m].providers))
         /\ \/ UNCHANGED <<lazy, made, resolved>>
            \/ \E p \in Provider :
                 /\ lazy' = lazy \cup {p}
                 /\ \/ UNCHANGED <<made, resolved>>
                    \/ /\ p \notin lazy /\ made' = [made EXCEPT ![p] = @ + 1]
                       /\ resolved' = [resolved EXCEPT ![p] = boot]
         /\ UNCHANGED <<script, boot, built, holds, search, cursor, routes>>
  <1> DEFINE m == Head(queue)
  <1>1. m \in Module /\ m \notin ToSet(order) /\ phase = "assemble" /\ queue # <<>>
    BY DEF TypeOK, Visit
  <1>2. reg' = Registered(m) /\ RunLazy(m) /\ order' = Append(order, m)
    BY DEF Visit
  <1>3. reg' \in [Module -> Registration]
    <2>1. /\ reg[m].imports \o script.imports[m] \in Seq(Module)
          /\ reg[m].providers \o script.providers[m] \in Seq(Provider)
          /\ reg[m].exports \o script.exports[m] \in Seq(Provider)
          /\ reg[m].reexports \o script.reexports[m] \in Seq(Module)
          /\ reg[m].controllers \o script.controllers[m] \in Seq(Controller)
      <3>1. /\ reg[m].imports \in Seq(Module) /\ reg[m].providers \in Seq(Provider)
            /\ reg[m].exports \in Seq(Provider) /\ reg[m].reexports \in Seq(Module)
            /\ reg[m].controllers \in Seq(Controller)
        BY <1>1, RegistrationTypes DEF TypeOK
      <3>2. /\ script.imports[m] \in Seq(Module) /\ script.providers[m] \in Seq(Provider)
            /\ script.exports[m] \in Seq(Provider) /\ script.reexports[m] \in Seq(Module)
            /\ script.controllers[m] \in Seq(Controller)
        BY <1>1, ScriptTypes
      <3> QED
        BY <3>1, <3>2
    <2> QED
      BY <1>1, <1>2, <2>1 DEF Registered, TypeOK, Registration
  <1>4. reg'[m].providers \in Seq(Provider)
    BY <1>1, <1>3, RegistrationTypes
  <1>5. \/ phase' = phase /\ reason' = reason
        \/ phase' = "failed" /\ reason' = "lazy"
    BY <1>2 DEF RunLazy, Fail
  <1>6. \/ phase' = "failed" /\ reason' = "lazy" /\ queue' = <<>> /\ owner' = owner
        \/ /\ phase' = "assemble" /\ reason' = reason
           /\ queue' = Tail(queue) \o reg'[m].imports
           /\ owner' = [x \in Consumer |->
                IF x \in ToSet(reg'[m].providers) \cup ToSet(reg'[m].controllers)
                THEN m ELSE owner[x]]
    <2>1. owner = [x \in Consumer |-> owner[x]]
      BY DEF TypeOK
    <2> QED
      BY <1>1, <1>5, <2>1 DEF Visit
  <1>7. \/ UNCHANGED <<declared, edges>>
        \/ DeclareProviders(ToSet(reg'[m].providers))
    BY <1>2 DEF RunLazy
  <1>8. \/ UNCHANGED <<lazy, made, resolved>>
        \/ \E p \in Provider :
             /\ lazy' = lazy \cup {p}
             /\ \/ UNCHANGED <<made, resolved>>
                \/ /\ p \notin lazy /\ made' = [made EXCEPT ![p] = @ + 1]
                   /\ resolved' = [resolved EXCEPT ![p] = boot]
    <2> DEFINE p == LastIn(reg'[m].providers, LazyMatches(m))
    <2>1. CASE script.lazy[m] = NoType \/ ToSet(reg'[m].providers) \cap LazyMatches(m) = {}
      BY <1>2, <2>1 DEF RunLazy
    <2>2. CASE ~ (script.lazy[m] = NoType \/ ToSet(reg'[m].providers) \cap LazyMatches(m) = {})
      <3>1. p \in Provider
        BY <1>4, <2>2, FoundIn DEF LazyMatches
      <3>2. /\ lazy' = lazy \cup {p}
            /\ made' = IF p \in lazy THEN made ELSE [made EXCEPT ![p] = @ + 1]
            /\ resolved' = IF p \in lazy THEN resolved ELSE [resolved EXCEPT ![p] = boot]
        BY <1>2, <2>2 DEF RunLazy
      <3> HIDE DEF p
      <3> QED
        BY <3>1, <3>2
    <2> QED
      BY <2>1, <2>2
  <1> QED
    BY <1>1, <1>2, <1>3, <1>6, <1>7, <1>8 DEF Visit

\* assemble's steps and declareProviders keep the types.
LEMMA AssembleTypes == ASSUME TypeOK, SkipVisited \/ Visit \/ Validate \/ DeclareAll PROVE TypeOK'
  <1> USE DEF registrations, tokens, tables, search, progress
  <1>1. CASE SkipVisited
    <2>1. queue' \in Seq(Module)
      BY <1>1 DEF SkipVisited, TypeOK
    <2> QED
      BY <1>1, <2>1 DEF SkipVisited, TypeOK, Values
  <1>2. CASE Visit
    <2> DEFINE m == Head(queue)
    <2>1. /\ m \in Module /\ queue # <<>>
          /\ reg' \in [Module -> Registration]
          /\ order' = Append(order, m)
          /\ \/ phase' = "failed" /\ reason' = "lazy" /\ queue' = <<>> /\ owner' = owner
             \/ /\ phase' = "assemble" /\ reason' = reason
                /\ queue' = Tail(queue) \o reg'[m].imports
                /\ owner' = [x \in Consumer |->
                     IF x \in ToSet(reg'[m].providers) \cup ToSet(reg'[m].controllers)
                     THEN m ELSE owner[x]]
          /\ UNCHANGED <<script, boot, built, holds, search, cursor, routes>>
      BY <1>2, VisitDoes
    <2>2. order' \in Seq(Module) /\ queue' \in Seq(Module)
      <3>1. order' \in Seq(Module) /\ Tail(queue) \in Seq(Module)
        BY <2>1 DEF TypeOK
      <3>2. reg'[m].imports \in Seq(Module)
        BY <2>1, RegistrationTypes
      <3>3. Tail(queue) \o reg'[m].imports \in Seq(Module) /\ <<>> \in Seq(Module)
        BY <3>1, <3>2
      <3> HIDE DEF m
      <3> QED
        BY <2>1, <3>1, <3>3
    <2>3. owner' \in [Consumer -> Module \cup {NoModule}]
      BY <2>1 DEF TypeOK
    <2>4. declared' \in [Consumer -> 0..boot] /\ edges' \subseteq [owner : Provider, target : Type]
      <3>1. ToSet(reg'[m].providers) \subseteq Provider
        BY <2>1, RegistrationTypes
      <3>2. UNCHANGED <<declared, edges>> \/ DeclareProviders(ToSet(reg'[m].providers))
        BY <1>2, VisitDoes
      <3> QED
        BY <3>1, <3>2, DeclareTypes DEF TypeOK
    <2>5. lazy' \subseteq Provider /\ made' \in [Provider -> Nat] /\ resolved' \in [Provider -> 0..boot]
      <3>1. \/ UNCHANGED <<lazy, made, resolved>>
            \/ \E p \in Provider :
                 /\ lazy' = lazy \cup {p}
                 /\ \/ UNCHANGED <<made, resolved>>
                    \/ /\ p \notin lazy /\ made' = [made EXCEPT ![p] = @ + 1]
                       /\ resolved' = [resolved EXCEPT ![p] = boot]
        BY <1>2, VisitDoes
      <3>2. boot \in 0..boot
        BY DEF TypeOK, Script
      <3>3. CASE UNCHANGED <<lazy, made, resolved>>
        BY <3>3 DEF TypeOK
      <3>4. ASSUME NEW p \in Provider, lazy' = lazy \cup {p}, UNCHANGED <<made, resolved>>
            PROVE  lazy' \subseteq Provider /\ made' \in [Provider -> Nat] /\ resolved' \in [Provider -> 0..boot]
        BY <3>4 DEF TypeOK
      <3>5. ASSUME NEW p \in Provider, lazy' = lazy \cup {p},
                   made' = [made EXCEPT ![p] = @ + 1], resolved' = [resolved EXCEPT ![p] = boot]
            PROVE  lazy' \subseteq Provider /\ made' \in [Provider -> Nat] /\ resolved' \in [Provider -> 0..boot]
        BY <3>2, <3>5 DEF TypeOK
      <3> QED
        BY <3>1, <3>3, <3>4, <3>5
    <2>6. phase' \in Phases /\ reason' \in Failures \cup Panics \cup {"none"}
      BY <2>1 DEF TypeOK, Phases, Panics
    <2>7. Values' = Values
      BY <2>1 DEF Values
    <2>8. UNCHANGED <<script, boot, built, holds, graph, path, black, chain, cursor, routes>>
      BY <2>1
    <2> HIDE DEF m
    <2> QED
      BY <2>1, <2>2, <2>3, <2>4, <2>5, <2>6, <2>7, <2>8 DEF TypeOK
  <1>3. CASE Validate
    <2>1. phase' \in Phases /\ reason' \in Failures \cup Panics \cup {"none"}
      BY <1>3 DEF Validate, Fail, TypeOK, Phases, Failures
    <2> QED
      BY <1>3, <2>1 DEF Validate, TypeOK, Values
  <1>4. CASE DeclareAll
    <2>1. declared' \in [Consumer -> 0..boot] /\ edges' \subseteq [owner : Provider, target : Type]
      <3>1. DeclareProviders(OwnProviders) /\ OwnProviders \subseteq Provider
        BY <1>4, OwnTypes DEF DeclareAll
      <3> QED
        BY <3>1, DeclareTypes
    <2> QED
      BY <1>4, <2>1 DEF DeclareAll, TypeOK, Values, Phases
  <1> QED
    BY <1>1, <1>2, <1>3, <1>4

\* The modules of the edges are modules, so that Find answers for each.
LEMMA TargetTypes ==
  ASSUME TypeOK, OwnerInv, phase \notin {"idle", "failed"}, NEW e \in edges
  PROVE  /\ owner[e.owner] \in ToSet(order) /\ owner[e.owner] \in Module
         /\ Target(e) \in Provider \cup Panics
         /\ Target(e) \in Provider =>
              /\ Target(e) \in Visible(owner[e.owner]) \cap Constructing(e.target)
              /\ \/ Target(e) \in ToSet(reg[owner[e.owner]].providers)
                 \/ \E i \in ToSet(reg[owner[e.owner]].imports) : Target(e) \in ToSet(EffectiveExports(reg, i))
  <1>1. owner[e.owner] \in ToSet(order) /\ owner[e.owner] \in Module
    BY OwnTypes DEF OwnerInv
  <1> QED
    BY <1>1, FindSees DEF Target, TypeOK

\* Stage 3 up to the search.
LEMMA GraphTypes == ASSUME TypeOK, OwnerInv, BuildGraph PROVE TypeOK'
  <1> USE DEF registrations, tokens, tables, search, progress
  <1>1. /\ UNCHANGED <<script, boot, registrations, tokens, tables, path, black, chain, progress>>
        /\ phase = "graph"
    BY DEF BuildGraph
  <1>2. /\ phase' \in Phases /\ reason' \in Failures \cup Panics \cup {"none"}
        /\ graph' = graph \/ graph' = ScopedGraph
    <2>1. CASE {Target(e) : e \in edges} \ Provider = {}
      BY <2>1 DEF BuildGraph, TypeOK, Phases
    <2>2. CASE {Target(e) : e \in edges} \ Provider # {}
      <3>1. PICK why \in {Target(e) : e \in edges} \ Provider : Fail(why) /\ UNCHANGED graph
        BY <2>2 DEF BuildGraph
      <3>2. why \in Panics
        BY <1>1, <3>1, TargetTypes
      <3> QED
        BY <3>1, <3>2 DEF Fail, Phases
    <2> QED
      BY <2>1, <2>2
  <1>3. DOMAIN graph' \subseteq Provider /\ \A p \in DOMAIN graph' : graph'[p] \subseteq Provider
    <2>1. OwnProviders \subseteq Provider
      BY OwnTypes
    <2>2. DOMAIN ScopedGraph \subseteq Provider /\ \A p \in DOMAIN ScopedGraph : ScopedGraph[p] \subseteq Provider
      BY <2>1 DEF ScopedGraph
    <2> QED
      BY <1>2, <2>2 DEF TypeOK
  <1> QED
    BY <1>1, <1>2, <1>3 DEF TypeOK, Values

\* The search.
LEMMA SearchTypes == ASSUME TypeOK, StartSearch \/ LookAt \/ Leave \/ NoCycle PROVE TypeOK'
  <1> DEFINE Node == [node : Provider, left : SUBSET Provider]
  <1> USE DEF registrations, tokens, tables, search, progress
  <1>1. path \in Seq(Node)
    BY DEF TypeOK
  <1>0. /\ Len(path) \in Nat /\ DOMAIN path = 1..Len(path) /\ \A i \in 1..Len(path) : path[i] \in Node
        /\ path # <<>> => /\ Len(path) \in 1..Len(path) /\ Last(path) = path[Len(path)]
                          /\ Front(path) \in Seq(Node)
    <2> HIDE DEF Node
    <2>1. /\ Len(path) \in Nat /\ DOMAIN path = 1..Len(path) /\ \A i \in 1..Len(path) : path[i] \in Node
          /\ path # <<>> => Len(path) >= 1
      BY <1>1
    <2>2. Len(path) >= 1 => SubSeq(path, 1, Len(path) - 1) \in Seq(Node)
      BY <1>1, <2>1
    <2> QED
      BY <2>1, <2>2 DEF Last, Front
  <1>2. \A p \in Provider : Enter(p) \in Node
    BY OwnTypes DEF Enter
  <1>3. CASE StartSearch
    <2>1. path' \in Seq(Node)
      <3>1. PICK p \in DOMAIN graph \ black : path' = <<Enter(p)>>
        BY <1>3 DEF StartSearch
      <3>2. Enter(p) \in Node
        BY <1>2, <3>1 DEF TypeOK
      <3> HIDE DEF Node
      <3> QED
        BY <3>1, <3>2
    <2> QED
      BY <1>3, <2>1 DEF StartSearch, TypeOK, Values
  <1>4. CASE LookAt
    <2>1. PICK dep \in Last(path).left :
            LET rest == [path EXCEPT ![Len(path)].left = @ \ {dep}] IN
            IF dep \in Gray
            THEN chain' = CycleError(dep) /\ Fail("cycle") /\ UNCHANGED path
            ELSE /\ path' = IF dep \in black THEN rest ELSE Append(rest, Enter(dep))
                 /\ UNCHANGED <<phase, reason, chain>>
      BY <1>4 DEF LookAt
    <2>2. path # <<>> /\ Last(path) \in Node /\ dep \in Provider /\ Len(path) \in 1..Len(path)
      BY <1>0, <1>4 DEF LookAt
    <2>3. UNCHANGED <<script, boot, registrations, tokens, tables, graph, black, progress>>
      BY <1>4 DEF LookAt
    <2>4. CASE dep \in Gray
      <3>1. chain' = CycleError(dep) /\ UNCHANGED path /\ phase' = "failed" /\ reason' = "cycle"
        BY <2>1, <2>4 DEF Fail
      <3> DEFINE start == CHOOSE i \in DOMAIN path : path[i].node = dep
      <3>2. start \in 1..Len(path) /\ Len(path) \in Nat
        BY <1>1, <2>4 DEF Gray
      <3> HIDE DEF start
      <3>3. \A i \in 1..(Len(path) - start + 1) : path[start + i - 1] \in Node
        <4> HIDE DEF Node
        <4> QED
          BY <1>0, <3>2
      <3>4. CycleError(dep) = [i \in 1..(Len(path) - start + 1) |-> path[start + i - 1].node]
        BY DEF CycleError, start
      <3>5. Len(path) - start + 1 \in Nat
        BY <3>2
      <3>6. CycleError(dep) \in [1..(Len(path) - start + 1) -> Provider]
        BY <3>3, <3>4
      <3>7. chain' \in Seq(Provider)
        BY <3>1, <3>5, <3>6
      <3> QED
        BY <2>3, <3>1, <3>7 DEF TypeOK, Values, Phases, Failures
    <2>5. CASE dep \notin Gray
      <3> DEFINE rest == [path EXCEPT ![Len(path)].left = @ \ {dep}]
      <3>1. rest \in Seq(Node)
        <4> DEFINE seen == [path[Len(path)] EXCEPT !.left = @ \ {dep}]
        <4>1. seen \in Node
          BY <1>0, <2>2
        <4>2. rest = [path EXCEPT ![Len(path)] = seen]
          OBVIOUS
        <4> HIDE DEF Node, seen, rest
        <4>3. path \in [1..Len(path) -> Node]
          BY <1>0, <1>1
        <4>4. rest \in [1..Len(path) -> Node]
          BY <2>2, <4>1, <4>2, <4>3
        <4> QED
          BY <1>0, <4>4
      <3>2. path' = (IF dep \in black THEN rest ELSE Append(rest, Enter(dep))) /\ UNCHANGED <<phase, reason, chain>>
        BY <2>1, <2>5
      <3> HIDE DEF rest, Node
      <3>3. path' \in Seq(Node)
        BY <1>2, <2>2, <3>1, <3>2
      <3> QED
        BY <2>3, <3>2, <3>3 DEF TypeOK, Values, Node
    <2> QED
      BY <2>4, <2>5
  <1>5. CASE Leave
    <2>1. path' \in Seq(Node) /\ Last(path) \in Node
      BY <1>0, <1>5 DEF Leave
    <2> QED
      BY <1>5, <2>1 DEF Leave, TypeOK, Values
  <1>6. CASE NoCycle
    BY <1>6 DEF NoCycle, TypeOK, Values, Phases
  <1> QED
    BY <1>3, <1>4, <1>5, <1>6

\* Stage 3's instances, the hooks, the Controllers and the routes.
LEMMA InvokeTypes ==
  ASSUME TypeOK, NEW done \in SUBSET Provider, InvokeAndCopy(done)
  PROVE  /\ resolved' \in [Provider -> 0..boot] /\ made' \in [Provider -> Nat]
         /\ holds' \in [Consumer -> [Type -> Values]]
  <1>1. boot \in 0..boot /\ boot \in Nat
    BY DEF TypeOK, Script
  <1>2. resolved' \in [Provider -> 0..boot] /\ made' \in [Provider -> Nat]
    BY <1>1 DEF InvokeAndCopy, TypeOK
  <1>3. \A p \in done : Made(p) \in Values
    BY <1>1 DEF Made, Values
  <1>4. holds' = [x \in Consumer |-> [t \in Type |->
          IF [owner |-> x, target |-> t] \in edges /\ Target([owner |-> x, target |-> t]) \in done
          THEN Made(Target([owner |-> x, target |-> t])) ELSE holds[x][t]]]
    BY DEF InvokeAndCopy
  <1>5. \A x \in Consumer, t \in Type : holds[x][t] \in Values
    BY DEF TypeOK
  <1>6. holds' \in [Consumer -> [Type -> Values]]
    BY <1>3, <1>4, <1>5
  <1> QED
    BY <1>2, <1>6

\* Stage 3 fills placeholders with instances of this call.
LEMMA ResolveTypes == ASSUME TypeOK, Resolve \/ ResolveFails \/ RunHooks PROVE TypeOK'
  <1> USE DEF registrations, tokens, tables, search, progress
  <1>1. CASE Resolve
    <2>1. InvokeAndCopy(OwnProviders) /\ OwnProviders \in SUBSET Provider
      BY <1>1, OwnTypes DEF Resolve
    <2>2. /\ resolved' \in [Provider -> 0..boot] /\ made' \in [Provider -> Nat]
          /\ holds' \in [Consumer -> [Type -> Values]]
      BY <2>1, InvokeTypes
    <2> QED
      BY <1>1, <2>2 DEF Resolve, TypeOK, Values, Phases
  <1>2. CASE ResolveFails
    <2>1. PICK done \in SUBSET OwnProviders : InvokeAndCopy(done)
      BY <1>2 DEF ResolveFails
    <2>2. done \in SUBSET Provider
      BY OwnTypes
    <2>3. /\ resolved' \in [Provider -> 0..boot] /\ made' \in [Provider -> Nat]
          /\ holds' \in [Consumer -> [Type -> Values]]
      BY <2>1, <2>2, InvokeTypes
    <2>4. /\ UNCHANGED <<script, boot, registrations, declared, built, edges, lazy, search, progress>>
          /\ phase' = "failed" /\ reason' = "constructor"
      BY <1>2 DEF ResolveFails, Fail
    <2> QED
      BY <2>3, <2>4 DEF TypeOK, Values, Phases, Failures
  <1>3. CASE RunHooks
    <2>1. phase' \in Phases /\ reason' \in Failures \cup Panics \cup {"none"}
      BY <1>3 DEF RunHooks, Fail, TypeOK, Phases, Failures
    <2> QED
      BY <1>3, <2>1 DEF RunHooks, TypeOK, Values
  <1> QED
    BY <1>1, <1>2, <1>3

\* What DeclareController does: to c, a Controller of the assembly that was not
\* declared before, or to none.
LEMMA ControllerDoes ==
  ASSUME TypeOK, DeclareController
  PROVE  /\ phase = "controllers" /\ cursor' = [cursor EXCEPT !.at = @ + 1]
         /\ \/ UNCHANGED <<declared, holds, built, phase, reason>>
            \/ \E c \in OwnControllers :
                 /\ declared' = [declared EXCEPT ![c] = boot]
                 /\ \/ /\ holds' \in [Consumer -> [Type -> Values]]
                       /\ built' = built \cup {c} /\ UNCHANGED <<phase, reason>>
                       /\ \A x \in Consumer, t \in Type :
                            \/ holds'[x][t] = holds[x][t] /\ (x # c \/ t \notin script.needs[c])
                            \/ /\ x = c /\ t \in script.needs[c]
                               /\ holds'[x][t].by \in DirectMatches(owner[c], t)
                               /\ holds'[x][t].boot = resolved[holds'[x][t].by]
                    \/ phase' = "failed" /\ reason' = "direct" /\ UNCHANGED <<holds, built>>
         /\ UNCHANGED <<script, boot, registrations, resolved, tables, search, queue, order, routes>>
  <1> DEFINE m == order[cursor.module]
             c == reg[m].controllers[cursor.at]
             found(t) == DirectMatches(owner[c], t)
             pick(t) == CHOOSE q \in found(t) : TRUE
             value(t) == [by |-> pick(t), boot |-> resolved[pick(t)]]
  <1>1. m \in ToSet(order) /\ c \in OwnControllers /\ c \in Controller /\ c \in Consumer
    <2>1. /\ cursor.module \in 1..Len(order) /\ cursor.at \in 1..Len(reg[m].controllers)
          /\ Len(order) \in Nat
      <3>1. cursor.module \in Nat \ {0} /\ cursor.at \in Nat \ {0} /\ order \in Seq(Module)
        BY DEF TypeOK
      <3>2. cursor.module <= Len(order) /\ cursor.at <= Len(reg[m].controllers)
        BY DEF DeclareController, Listed
      <3>3. cursor.module \in 1..Len(order) /\ Len(order) \in Nat
        BY <3>1, <3>2
      <3>4. m \in Module
        BY <3>1, <3>3
      <3>5. Len(reg[m].controllers) \in Nat
        <4>1. reg[m].controllers \in Seq(Controller)
          BY <3>4, RegistrationTypes DEF TypeOK
        <4> QED
          BY <4>1
      <3> QED
        BY <3>1, <3>2, <3>3, <3>5
    <2>2. m \in ToSet(order) /\ m \in Module
      BY <2>1 DEF TypeOK, ToSet
    <2>3. reg[m].controllers \in Seq(Controller)
      BY <2>2, RegistrationTypes DEF TypeOK
    <2>4. c \in ToSet(reg[m].controllers) /\ c \in Controller
      BY <2>1, <2>3 DEF ToSet
    <2> HIDE DEF c, m
    <2> QED
      BY <2>2, <2>4 DEF OwnControllers, Consumer
  <1>2. /\ phase = "controllers" /\ cursor' = [cursor EXCEPT !.at = @ + 1]
        /\ UNCHANGED <<script, boot, registrations, resolved, tables, search, queue, order, routes>>
        /\ IF declared[c] # 0
           THEN UNCHANGED <<declared, holds, built, phase, reason>>
           ELSE /\ declared' = [declared EXCEPT ![c] = boot]
                /\ IF \A t \in script.needs[c] : Cardinality(found(t)) = 1
                   THEN /\ holds' = [holds EXCEPT ![c] = [t \in Type |->
                                       IF t \in script.needs[c] THEN value(t) ELSE @[t]]]
                        /\ built' = built \cup {c}
                        /\ UNCHANGED <<phase, reason>>
                   ELSE Fail("direct") /\ UNCHANGED <<holds, built>>
    BY DEF DeclareController
  <1>3. ASSUME \A t \in script.needs[c] : Cardinality(found(t)) = 1,
               holds' = [holds EXCEPT ![c] = [t \in Type |-> IF t \in script.needs[c] THEN value(t) ELSE @[t]]]
        PROVE  /\ holds' \in [Consumer -> [Type -> Values]]
               /\ \A x \in Consumer, t \in Type :
                    \/ holds'[x][t] = holds[x][t] /\ (x # c \/ t \notin script.needs[c])
                    \/ /\ x = c /\ t \in script.needs[c]
                       /\ holds'[x][t].by \in DirectMatches(owner[c], t)
                       /\ holds'[x][t].boot = resolved[holds'[x][t].by]
    <2>1. ASSUME NEW t \in script.needs[c] PROVE pick(t) \in found(t) /\ pick(t) \in Provider
      <3>1. found(t) # {}
        <4>1. Cardinality(found(t)) = 1
          BY <1>3, <2>1
        <4>2. Cardinality({}) = 0
          BY FS_EmptySet
        <4> HIDE DEF found
        <4> QED
          BY <4>1, <4>2
      <3>2. found(t) \subseteq Provider
        BY DEF DirectMatches, Constructing
      <3> HIDE DEF found
      <3> QED
        BY <3>1, <3>2
    <2>2. \A t \in script.needs[c] : value(t) \in Values
      BY <2>1 DEF Values, TypeOK
    <2>3. script.needs[c] \subseteq Type
      BY <1>1, ScriptTypes
    <2>4. \A x \in Consumer, t \in Type :
            holds'[x][t] = IF x = c /\ t \in script.needs[c] THEN value(t) ELSE holds[x][t]
      <3> HIDE DEF c, value
      <3> QED
        BY <1>1, <1>3 DEF TypeOK
    <2>5. holds' \in [Consumer -> [Type -> Values]]
      <3>1. [t \in Type |-> IF t \in script.needs[c] THEN value(t) ELSE holds[c][t]] \in [Type -> Values]
        <4> HIDE DEF c, value
        <4> QED
          BY <1>1, <2>2 DEF TypeOK
      <3> HIDE DEF c, value
      <3> QED
        BY <1>1, <1>3, <3>1 DEF TypeOK
    <2>6. \A t \in script.needs[c] : value(t).by \in found(t) /\ value(t).boot = resolved[value(t).by]
      BY <2>1
    <2> HIDE DEF value
    <2> QED
      BY <2>4, <2>5, <2>6
  <1> HIDE DEF c, found, value
  <1> QED
    BY <1>1, <1>2, <1>3 DEF Fail

\* Controllers resolve their own dependencies while they are declared.
LEMMA ControllerTypes == ASSUME TypeOK, DeclareController \/ NextModule \/ RegisterRoutes PROVE TypeOK'
  <1> USE DEF registrations, tokens, tables, search, progress
  <1>1. CASE DeclareController
    <2>1. /\ cursor' = [cursor EXCEPT !.at = @ + 1]
          /\ UNCHANGED <<script, boot, reg, owner, resolved, edges, lazy, made, graph, path, black, chain,
                         queue, order, routes>>
      BY <1>1, ControllerDoes
    <2>2. cursor' \in [module : Nat \ {0}, at : Nat \ {0}]
      <3>1. cursor \in [module : Nat \ {0}, at : Nat \ {0}]
        BY DEF TypeOK
      <3>2. cursor' = [module |-> cursor.module, at |-> cursor.at + 1] /\ cursor.at + 1 \in Nat \ {0}
        BY <2>1, <3>1
      <3> QED
        BY <3>1, <3>2
    <2>3. /\ declared' \in [Consumer -> 0..boot] /\ holds' \in [Consumer -> [Type -> Values]]
          /\ built' \subseteq Controller
          /\ phase' \in Phases /\ reason' \in Failures \cup Panics \cup {"none"}
      <3>1. CASE UNCHANGED <<declared, holds, built, phase, reason>>
        BY <3>1 DEF TypeOK
      <3>2. ASSUME NEW c \in OwnControllers,
                   declared' = [declared EXCEPT ![c] = boot],
                   \/ /\ holds' \in [Consumer -> [Type -> Values]]
                      /\ built' = built \cup {c} /\ UNCHANGED <<phase, reason>>
                   \/ phase' = "failed" /\ reason' = "direct" /\ UNCHANGED <<holds, built>>
            PROVE  /\ declared' \in [Consumer -> 0..boot] /\ holds' \in [Consumer -> [Type -> Values]]
                   /\ built' \subseteq Controller
                   /\ phase' \in Phases /\ reason' \in Failures \cup Panics \cup {"none"}
        <4>1. c \in Controller /\ boot \in 0..boot
          BY OwnTypes DEF TypeOK, Script
        <4> QED
          BY <3>2, <4>1 DEF TypeOK, Phases, Panics
      <3> QED
        BY <1>1, <3>1, <3>2, ControllerDoes
    <2> QED
      BY <2>1, <2>2, <2>3 DEF TypeOK, Values
  <1>2. CASE NextModule
    <2>1. cursor' \in [module : Nat \ {0}, at : Nat \ {0}]
      BY <1>2 DEF NextModule, TypeOK
    <2> QED
      BY <1>2, <2>1 DEF NextModule, TypeOK, Values
  <1>3. CASE RegisterRoutes
    <2>1. /\ phase' \in Phases /\ reason' \in Failures \cup Panics \cup {"none"}
          /\ UNCHANGED <<script, boot, registrations, tokens, tables, search, queue, order, cursor>>
      BY <1>3 DEF RegisterRoutes, Fail, TypeOK, Phases, Failures
    <2>2. routes' \subseteq Controller
      <3>1. ASSUME NEW at \in Collected PROVE reg[at[1]].controllers[at[2]] \in Controller
        BY DEF Collected, TypeOK
      <3>2. routes' = routes \/ routes' = {reg[at[1]].controllers[at[2]] : at \in Collected}
        BY <1>3 DEF RegisterRoutes
      <3>3. routes \subseteq Controller
        BY DEF TypeOK
      <3>4. {reg[at[1]].controllers[at[2]] : at \in Collected} \subseteq Controller
        BY <3>1
      <3> QED
        BY <3>2, <3>3, <3>4, Zenon
    <2> QED
      BY <2>1, <2>2 DEF TypeOK, Values
  <1> QED
    BY <1>1, <1>2, <1>3

\* Every step keeps the types.
LEMMA TypesKept == ASSUME TypeOK, OwnerInv, Next PROVE TypeOK'
  BY NewAppTypes, AssembleTypes, GraphTypes, SearchTypes, ResolveTypes, ControllerTypes DEF Next, Step

--------------------------------------------------------------------------------
(* Assembly.                                                               *)

\* Steps after assemble, or of it, that leave the registrations and the visited
\* modules alone; none goes back to an earlier phase.
Frame == UNCHANGED <<script, boot, reg, owner, order, queue>>

\* The steps after the assembly, which leave its result alone.
LEMMA LaterSteps ==
  ASSUME TypeOK, Step, ~ SkipVisited, ~ Visit, ~ Validate
  PROVE  /\ Frame /\ phase \notin {"idle", "assemble", "up", "failed"}
         /\ phase' \notin {"idle", "assemble"}
         /\ phase' = "declare" => phase = "declare"
  BY DEF Step, Frame, DeclareAll, BuildGraph, StartSearch, LookAt, Leave, NoCycle, Resolve, ResolveFails,
         RunHooks, DeclareController, NextModule, RegisterRoutes, Fail, registrations, progress

\* What an invariant says of the registrations and the visited modules stays.
LEMMA FrameKeeps ==
  ASSUME Frame
  PROVE  /\ Imports' = Imports /\ OwnProviders' = OwnProviders /\ OwnControllers' = OwnControllers
         /\ \A m : ExportsDeclared(m)' <=> ExportsDeclared(m)
         /\ \A m, t : EffectiveExports(reg', m) = EffectiveExports(reg, m)
         /\ \A m : Visible(m)' = Visible(m)
  BY DEF Frame, Imports, OwnProviders, OwnControllers, ExportsDeclared, Visible, Reexporting, Closure, Closed

\* Each step keeps what is said of the assembly.
LEMMA AssemblyKept == ASSUME TypeOK, AssemblyInv, Next PROVE AssemblyInv'
  <1> SUFFICES ASSUME phase' \notin {"idle", "failed"} PROVE AssemblyInv'
    BY DEF AssemblyInv
  <1>1. CASE NewApp
    <2>1. script.roots \in Seq(Module) /\ boot \in Nat /\ boot < Len(script.roots) /\ boot' = boot + 1
      BY <1>1, ScriptTypes DEF NewApp, TypeOK
    <2>2. script.roots[boot + 1] \in Module
      BY <2>1
    <2>3. queue' = <<script.roots[boot + 1]>> /\ order' = <<>> /\ script' = script /\ phase' = "assemble"
      BY <1>1 DEF NewApp
    <2>4. ToSet(queue') = {script.roots[boot + 1]} /\ ToSet(order') = {}
      BY <2>2, <2>3, Elements
    <2>5. IsFiniteSet({}) /\ Cardinality({}) = 0 /\ Len(order') = 0
      BY <2>3, FS_EmptySet
    <2>6. boot' > 0 /\ script'.roots[boot'] = script.roots[boot + 1]
      BY <2>1, <2>3
    <2> QED
      BY <2>3, <2>4, <2>5, <2>6 DEF AssemblyInv
  <1>2. CASE SkipVisited
    <2>1. ToSet(queue) = {Head(queue)} \cup ToSet(queue')
      BY <1>2, Elements DEF SkipVisited, TypeOK
    <2>2. ToSet(order) \cup ToSet(queue') = ToSet(order) \cup ToSet(queue)
      BY <1>2, <2>1 DEF SkipVisited
    <2>3. UNCHANGED <<script, boot, phase, reg, order>> /\ phase = "assemble"
      BY <1>2 DEF SkipVisited, registrations
    <2>4. Imports' = Imports
      BY <2>3 DEF Imports
    <2> QED
      BY <2>2, <2>3, <2>4 DEF AssemblyInv, Closed
  <1>3. CASE Visit
    <2> DEFINE m == Head(queue)
    <2>1. /\ m \in Module /\ m \notin ToSet(order) /\ phase = "assemble" /\ queue # <<>>
          /\ reg' = Registered(m) /\ reg' \in [Module -> Registration]
          /\ order' = Append(order, m) /\ phase' = "assemble"
          /\ queue' = Tail(queue) \o reg'[m].imports
          /\ UNCHANGED <<script, boot>>
      BY <1>3, VisitDoes
    <2>2. queue \in Seq(Module) /\ order \in Seq(Module) /\ Tail(queue) \in Seq(Module)
          /\ reg'[m].imports \in Seq(Module)
      <3>1. queue \in Seq(Module) /\ order \in Seq(Module)
        BY DEF TypeOK
      <3>2. reg'[m].imports \in Seq(Module)
        BY <2>1, RegistrationTypes
      <3> QED
        BY <2>1, <3>1, <3>2, Elements
    <2>3. ToSet(order') = ToSet(order) \cup {m}
      <3>1. \A s \in Seq(Module), x \in Module : ToSet(Append(s, x)) = ToSet(s) \cup {x}
        BY Elements
      <3> QED
        BY <2>1, <2>2, <3>1
    <2>4. ToSet(queue') = ToSet(Tail(queue)) \cup ToSet(reg'[m].imports)
      <3>1. \A s, t \in Seq(Module) : ToSet(s \o t) = ToSet(s) \cup ToSet(t)
        BY Elements
      <3> QED
        BY <2>1, <2>2, <3>1
    <2>5. ToSet(queue) = {m} \cup ToSet(Tail(queue))
      BY <2>1, <2>2, Elements
    <2>6. /\ \A i \in Module : i # m => reg'[i] = reg[i]
          /\ reg'[m].imports = reg[m].imports \o script.imports[m]
      BY <2>1 DEF Registered, TypeOK
    <2>7. ToSet(reg'[m].imports) = ToSet(reg[m].imports) \cup ToSet(script.imports[m])
      <3>1. \A s, t \in Seq(Module) : ToSet(s \o t) = ToSet(s) \cup ToSet(t)
        BY Elements
      <3>2. reg[m].imports \in Seq(Module) /\ script.imports[m] \in Seq(Module)
        BY <2>1, ScriptTypes, RegistrationTypes DEF TypeOK
      <3> QED
        BY <2>6, <3>1, <3>2
    <2>8. ToSet(order) \subseteq Module
      BY OwnTypes
    <2>9. ASSUME NEW D \in SUBSET Module, script.roots[boot] \in D, Closed(D, Imports')
          PROVE  ToSet(order') \cup ToSet(queue') \subseteq D
      <3>1. Closed(D, Imports)
        BY <2>6, <2>7, <2>9 DEF Closed, Imports
      <3>2. ToSet(order) \cup ToSet(queue) \subseteq D
        BY <2>1, <2>9, <3>1 DEF AssemblyInv
      <3>3. ToSet(reg'[m].imports) \subseteq D
        BY <2>1, <2>5, <2>9, <3>2 DEF Closed, Imports
      <3> QED
        BY <2>3, <2>4, <2>5, <3>2, <3>3
    <2>10. ASSUME NEW i \in ToSet(order') PROVE ToSet(reg'[i].imports) \subseteq ToSet(order') \cup ToSet(queue')
      <3>1. CASE i = m
        BY <2>4, <3>1
      <3>2. CASE i # m
        <4>1. i \in ToSet(order) /\ reg'[i] = reg[i]
          BY <2>3, <2>6, <2>8, <3>2
        <4>2. ToSet(reg[i].imports) \subseteq ToSet(order) \cup ToSet(queue)
          BY <2>1, <4>1 DEF AssemblyInv
        <4> QED
          BY <2>3, <2>4, <2>5, <4>1, <4>2
      <3> QED
        BY <3>1, <3>2
    <2>11. IsFiniteSet(ToSet(order')) /\ Cardinality(ToSet(order')) = Len(order')
      <3>1. IsFiniteSet(ToSet(order)) /\ Cardinality(ToSet(order)) = Len(order) /\ Len(order') = Len(order) + 1
        BY <2>1, <2>2 DEF AssemblyInv
      <3>2. m \notin ToSet(order)
        BY <2>1
      <3> HIDE DEF m
      <3>3. IsFiniteSet(ToSet(order) \cup {m}) /\ Cardinality(ToSet(order) \cup {m}) = Cardinality(ToSet(order)) + 1
        BY <3>1, <3>2, FS_AddElement
      <3> QED
        BY <2>3, <3>1, <3>3
    <2>12. boot > 0 /\ script.roots[boot] \in ToSet(order') \cup ToSet(queue')
      BY <2>1, <2>3, <2>4, <2>5 DEF AssemblyInv
    <2> HIDE DEF m
    <2> QED
      BY <2>1, <2>9, <2>10, <2>11, <2>12 DEF AssemblyInv
  <1>4. CASE Validate
    <2>1. /\ Frame /\ phase = "assemble" /\ queue = <<>>
          /\ \A m \in ToSet(order) : ExportsDeclared(m)
      BY <1>4 DEF Validate, Fail, Frame, registrations, progress
    <2> QED
      BY <2>1, FrameKeeps DEF AssemblyInv, Closed, Frame
  <1>5. CASE Step /\ ~ SkipVisited /\ ~ Visit /\ ~ Validate
    <2>1. /\ Frame /\ phase \notin {"idle", "assemble", "up", "failed"} /\ phase' \notin {"idle", "assemble"}
      BY <1>5, LaterSteps
    <2> QED
      BY <2>1, FrameKeeps DEF AssemblyInv, Closed, Frame
  <1> QED
    BY <1>1, <1>2, <1>3, <1>4, <1>5 DEF Next

\* Everything the imports of visited modules reach is visited when assembly is
\* over, and what they export is declared among them.
LEMMA AssemblyReaches ==
  ASSUME TypeOK, AssemblyInv, phase \notin {"idle", "assemble", "failed"}
  PROVE  /\ Closed(ToSet(order), Imports) /\ ToSet(order) \in SUBSET Module
         /\ ToSet(order) = Importing({script.roots[boot]})
         /\ \A m \in ToSet(order) :
              ToSet(EffectiveExports(reg, m)) \subseteq UNION {ToSet(reg[i].providers) : i \in Importing({m})}
         /\ \A m \in ToSet(order) : Importing({m}) \subseteq ToSet(order)
  <1> DEFINE V == ToSet(order)
             root == script.roots[boot]
  <1>1. V \in SUBSET Module /\ queue = <<>> /\ ToSet(queue) = {}
    BY OwnTypes, Elements DEF AssemblyInv
  <1>2. root \in V /\ Closed(V, Imports)
    BY <1>1 DEF AssemblyInv, Closed, Imports
  <1>3. Imports \in [Module -> SUBSET Module]
    BY RegistrationTypes DEF Imports, TypeOK
  <1>4. \A S : Importing(S) = Closure(S, Imports)
    BY DEF Importing, Imports
  <1>5. V = Importing({root})
    <2>1. {root} \in SUBSET Module
      BY <1>1, <1>2
    <2> HIDE DEF root, V
    <2>2. {root} \subseteq Closure({root}, Imports) /\ Closure({root}, Imports) \in SUBSET Module
          /\ Closed(Closure({root}, Imports), Imports) /\ Closure({root}, Imports) \subseteq V
      BY <1>1, <1>2, <1>3, <2>1, ClosureIsLeast
    <2>3. V \subseteq Closure({root}, Imports)
      BY <1>1, <2>2 DEF AssemblyInv, V, root
    <2> QED
      BY <1>4, <2>2, <2>3
  <1>6. ASSUME NEW m \in V
        PROVE  /\ ToSet(EffectiveExports(reg, m)) \subseteq UNION {ToSet(reg[i].providers) : i \in Importing({m})}
               /\ Importing({m}) \subseteq V
    <2> DEFINE D == Closure({m}, Imports)
    <2>1. {m} \in SUBSET Module /\ {m} \subseteq V
      BY <1>1, <1>6
    <2>2. m \in D /\ D \in SUBSET Module /\ Closed(D, Imports) /\ D \subseteq V
      <3> HIDE DEF V
      <3> QED
        BY <1>1, <1>2, <1>3, <2>1, ClosureIsLeast
    <2> HIDE DEF D
    <2>3. \A i \in D : ExportsDeclared(i)
      BY <2>2 DEF AssemblyInv
    <2>4. \A i \in D : ToSet(reg[i].reexports) \subseteq D /\ ToSet(reg[i].exports) \subseteq ToSet(reg[i].providers)
      BY <2>2, <2>3 DEF ExportsDeclared, Closed, Imports
    <2>5. reg \in [Module -> Registration]
      BY DEF TypeOK
    <2>6. ToSet(EffectiveExports(reg, m)) \subseteq UNION {ToSet(reg[i].exports) : i \in D}
      BY <2>2, <2>4, <2>5, ExportsBound
    <2>7. D = Importing({m})
      BY <1>4 DEF D
    <2> QED
      BY <2>2, <2>4, <2>6, <2>7
  <1> QED
    BY <1>1, <1>2, <1>5, <1>6

\* What a visited module sees belongs to the assembly: its own Providers, and
\* what an import exports to it.
LEMMA SeenIsOwn ==
  ASSUME TypeOK, AssemblyInv, phase \notin {"idle", "assemble", "failed"}, NEW m \in ToSet(order)
  PROVE  /\ ToSet(reg[m].providers) \subseteq OwnProviders
         /\ \A i \in ToSet(reg[m].imports) : ToSet(EffectiveExports(reg, i)) \subseteq OwnProviders
  <1>1. ToSet(reg[m].providers) \subseteq OwnProviders
    BY DEF OwnProviders
  <1>2. ASSUME NEW i \in ToSet(reg[m].imports)
        PROVE  ToSet(EffectiveExports(reg, i)) \subseteq OwnProviders
    <2>1. m \in Module /\ i \in ToSet(order)
      BY AssemblyReaches DEF Closed, Imports
    <2>2. ToSet(EffectiveExports(reg, i)) \subseteq UNION {ToSet(reg[j].providers) : j \in Importing({i})}
      BY <2>1, AssemblyReaches
    <2>3. Importing({i}) \subseteq ToSet(order)
      BY <2>1, AssemblyReaches
    <2> QED
      BY <2>2, <2>3 DEF OwnProviders
  <1> QED
    BY <1>1, <1>2

\* Owners: the module that registered a value last.
LEMMA OwnerKept == ASSUME TypeOK, OwnerInv, Next PROVE OwnerInv'
  <1> SUFFICES ASSUME phase' \notin {"idle", "failed"} PROVE OwnerInv'
    BY DEF OwnerInv
  <1>1. CASE NewApp
    <2>1. order' = <<>> /\ edges' = {}
      BY <1>1 DEF NewApp
    <2>2. ToSet(order') = {}
      BY <2>1, Elements
    <2> QED
      BY <2>1, <2>2 DEF OwnerInv, OwnProviders, OwnControllers
  <1>2. CASE Visit
    <2> DEFINE m == Head(queue)
    <2>1. /\ m \in Module /\ phase = "assemble"
          /\ reg' = Registered(m) /\ reg' \in [Module -> Registration]
          /\ order' = Append(order, m)
          /\ owner' = [x \in Consumer |->
               IF x \in ToSet(reg'[m].providers) \cup ToSet(reg'[m].controllers)
               THEN m ELSE owner[x]]
          /\ UNCHANGED <<declared, edges>> \/ DeclareProviders(ToSet(reg'[m].providers))
      BY <1>2, VisitDoes
    <2>2. ToSet(order') = ToSet(order) \cup {m}
      <3>1. \A s \in Seq(Module), x \in Module : ToSet(Append(s, x)) = ToSet(s) \cup {x}
        BY Elements
      <3> QED
        BY <2>1, <3>1 DEF TypeOK
    <2>3. ToSet(reg'[m].providers) \subseteq Provider /\ ToSet(reg'[m].controllers) \subseteq Controller
      BY <2>1, RegistrationTypes
    <2>4. \A i \in Module : i # m => reg'[i] = reg[i]
      BY <2>1 DEF Registered, TypeOK
    <2>5. ToSet(order) \subseteq Module /\ OwnProviders \subseteq Provider /\ OwnControllers \subseteq Controller
      BY OwnTypes
    <2> HIDE DEF m
    <2>6. ASSUME NEW x \in Consumer, owner[x] \in ToSet(order)
          PROVE  owner'[x] \in ToSet(order')
      BY <2>1, <2>2, <2>6
    <2>7. ASSUME NEW x \in OwnProviders' \cup OwnControllers'
          PROVE  owner'[x] \in ToSet(order')
      <3>1. PICK i \in ToSet(order') : x \in ToSet(reg'[i].providers) \cup ToSet(reg'[i].controllers)
        BY DEF OwnProviders, OwnControllers
      <3>2. CASE i = m
        BY <2>1, <2>2, <2>3, <3>1, <3>2 DEF Consumer
      <3>3. CASE i # m
        <4>1. i \in ToSet(order) /\ x \in OwnProviders \cup OwnControllers
          BY <2>2, <2>4, <2>5, <3>1, <3>3 DEF OwnProviders, OwnControllers
        <4>2. x \in Consumer /\ owner[x] \in ToSet(order)
          BY <2>1, <2>5, <4>1 DEF OwnerInv, Consumer
        <4> QED
          BY <2>6, <4>2
      <3> QED
        BY <3>2, <3>3
    <2>8. ASSUME NEW e \in edges' PROVE owner'[e.owner] \in ToSet(order')
      <3>1. CASE e \in edges
        <4>1. e.owner \in Consumer /\ owner[e.owner] \in ToSet(order)
          BY <2>1, <3>1 DEF OwnerInv, TypeOK, Consumer
        <4> QED
          BY <2>6, <4>1
      <3>2. CASE e \notin edges
        <4>1. e.owner \in ToSet(reg'[m].providers)
          BY <2>1, <2>3, <2>8, <3>2, DeclareTypes
        <4> QED
          BY <2>1, <2>2, <2>3, <4>1 DEF Consumer
      <3> QED
        BY <3>1, <3>2
    <2> QED
      BY <2>7, <2>8 DEF OwnerInv
  <1>3. CASE DeclareAll
    <2>1. Frame /\ phase = "declare" /\ DeclareProviders(OwnProviders)
      BY <1>3 DEF DeclareAll, Frame, registrations, progress
    <2>2. \A e \in edges' : e \in edges \/ e.owner \in OwnProviders
      BY <2>1, OwnTypes, DeclareTypes
    <2> QED
      BY <2>1, <2>2, FrameKeeps DEF OwnerInv, Frame
  <1>4. CASE Step /\ ~ Visit /\ ~ DeclareAll
    <2>1. UNCHANGED <<reg, owner, order, edges>> /\ phase \notin {"idle", "failed"}
      BY <1>4 DEF Step, SkipVisited, Validate, BuildGraph, StartSearch, LookAt, Leave, NoCycle, Resolve,
                  ResolveFails, RunHooks, DeclareController, NextModule, RegisterRoutes, Fail,
                  registrations, tables, progress, InvokeAndCopy
    <2>2. OwnProviders' = OwnProviders /\ OwnControllers' = OwnControllers
      BY <2>1 DEF OwnProviders, OwnControllers
    <2> QED
      BY <2>1, <2>2 DEF OwnerInv
  <1> QED
    BY <1>1, <1>2, <1>3, <1>4 DEF Next

--------------------------------------------------------------------------------
(* Injection.                                                              *)

\* The same Target and the same edges, while nothing is declared.
LEMMA TargetStays ==
  ASSUME UNCHANGED <<script, reg, owner>>, \A p \in Provider : declared'[p] = declared[p]
  PROVE  \A e : Target(e)' = Target(e)
  <1>1. \A t : Constructing(t)' = Constructing(t)
    BY DEF Constructing
  <1>2. \A ps, t : FindIn(ps, t)' = FindIn(ps, t)
    BY <1>1 DEF FindIn
  <1>3. \A m, t : FindOwn(m, t)' = FindOwn(m, t) /\ FindExported(m, t)' = FindExported(m, t)
    BY <1>2 DEF FindOwn, FindExported
  <1>4. \A m, t : Find(m, t)' = Find(m, t)
    BY <1>3 DEF Find, FindImported
  <1> QED
    BY <1>4 DEF Target

\* No edge is lost in a call, and every edge has a Provider of the assembly when
\* Find answered for all.
LEMMA EdgesKept == ASSUME TypeOK, AssemblyInv, OwnerInv, EdgesInv, Next PROVE EdgesInv'
  <1>0. boot \in Nat
    BY DEF TypeOK, Script
  <1>1. ASSUME NEW ps \in SUBSET Provider, DeclareProviders(ps), UNCHANGED <<boot, script>>,
               phase \notin {"idle", "failed"}
        PROVE  \A p \in Provider : declared'[p] = boot' => EdgesOf(p)' \subseteq edges'
    <2>1. \A p \in Provider : EdgesOf(p)' = EdgesOf(p)
      BY <1>1 DEF EdgesOf
    <2>2. \A p \in Provider : declared'[p] = boot => declared[p] = boot \/ EdgesOf(p) \subseteq edges'
      BY <1>1, DeclareTypes
    <2>3. edges \subseteq edges'
      BY <1>1, DeclareTypes
    <2> QED
      BY <1>1, <2>1, <2>2, <2>3 DEF EdgesInv
  <1>2. CASE NewApp
    <2>1. \A p \in Provider : declared'[p] # boot'
      BY <1>0, <1>2 DEF NewApp, tokens, TypeOK, Consumer
    <2>2. phase' = "assemble"
      BY <1>2 DEF NewApp
    <2> QED
      BY <2>1, <2>2 DEF EdgesInv
  <1>3. CASE Visit
    <2> DEFINE m == Head(queue)
    <2>1. /\ m \in Module /\ phase = "assemble" /\ phase' \in {"assemble", "failed"}
          /\ reg' \in [Module -> Registration] /\ UNCHANGED <<script, boot>>
          /\ UNCHANGED <<declared, edges>> \/ DeclareProviders(ToSet(reg'[m].providers))
      BY <1>3, VisitDoes
    <2>2. ToSet(reg'[m].providers) \in SUBSET Provider
      BY <2>1, RegistrationTypes
    <2>3. CASE UNCHANGED <<declared, edges>>
      BY <2>1, <2>3 DEF EdgesInv, EdgesOf
    <2>4. CASE DeclareProviders(ToSet(reg'[m].providers))
      BY <1>1, <2>1, <2>2, <2>4 DEF EdgesInv
    <2> QED
      BY <2>1, <2>3, <2>4
  <1>4. CASE DeclareAll
    <2>1. DeclareProviders(OwnProviders) /\ UNCHANGED <<boot, script>> /\ phase = "declare" /\ phase' = "graph"
      BY <1>4 DEF DeclareAll
    <2>2. OwnProviders \in SUBSET Provider
      BY OwnTypes
    <2> QED
      BY <1>1, <2>1, <2>2 DEF EdgesInv
  <1>5. CASE BuildGraph
    <2>1. UNCHANGED <<script, boot, reg, owner, declared, edges, order>> /\ phase = "graph"
      BY <1>5 DEF BuildGraph, registrations, tokens, tables, progress
    <2>2. ASSUME phase' = "cycles", NEW e \in edges PROVE Target(e) \in OwnProviders
      <3>1. Target(e) \in Provider
        BY <1>5, <2>2 DEF BuildGraph, Fail
      <3>2. /\ owner[e.owner] \in ToSet(order)
            /\ \/ Target(e) \in ToSet(reg[owner[e.owner]].providers)
               \/ \E i \in ToSet(reg[owner[e.owner]].imports) : Target(e) \in ToSet(EffectiveExports(reg, i))
        BY <2>1, <3>1, TargetTypes
      <3> QED
        BY <2>1, <3>2, SeenIsOwn
    <2>3. OwnProviders' = OwnProviders /\ \A e : Target(e)' = Target(e)
      BY <2>1, TargetStays DEF OwnProviders
    <2>4. phase' \in {"cycles", "failed"}
      BY <1>5 DEF BuildGraph, Fail
    <2> QED
      BY <2>1, <2>2, <2>3, <2>4 DEF EdgesInv, EdgesOf
  <1>6. CASE DeclareController
    <2>1. /\ phase = "controllers" /\ phase' \in {"controllers", "failed"}
          /\ UNCHANGED <<script, boot, edges>> /\ \A p \in Provider : declared'[p] = declared[p]
      <3>1. /\ phase = "controllers" /\ UNCHANGED <<script, boot, edges>>
            /\ \/ UNCHANGED <<declared, holds, built, phase, reason>>
               \/ \E c \in OwnControllers :
                    declared' = [declared EXCEPT ![c] = boot] /\ (phase' = "failed" \/ phase' = phase)
        BY <1>6, ControllerDoes DEF tables
      <3>2. \A c \in OwnControllers : c \notin Provider
        BY OwnTypes, NamesAssumption
      <3> QED
        BY <3>1, <3>2 DEF TypeOK, Consumer
    <2> QED
      BY <2>1 DEF EdgesInv, EdgesOf
  <1>7. CASE Step /\ ~ Visit /\ ~ DeclareAll /\ ~ BuildGraph /\ ~ DeclareController
    <2>1. /\ UNCHANGED <<script, boot, reg, owner, declared, edges, order>> /\ phase \notin {"idle", "failed"}
          /\ phase' \in {"cycles", "resolve"} => phase \in {"cycles", "resolve"}
      BY <1>7 DEF Step, SkipVisited, Validate, StartSearch, LookAt, Leave, NoCycle, Resolve, InvokeAndCopy,
                  ResolveFails, RunHooks, NextModule, RegisterRoutes, Fail, registrations, tokens, tables,
                  progress
    <2>2. OwnProviders' = OwnProviders /\ \A e : Target(e)' = Target(e)
      BY <2>1, TargetStays DEF OwnProviders
    <2> QED
      BY <2>1, <2>2 DEF EdgesInv, EdgesOf
  <1> QED
    BY <1>2, <1>3, <1>4, <1>5, <1>6, <1>7 DEF Next

\* A Constructor runs once, for Lazy or in Stage 3.
LEMMA MadeKept == ASSUME TypeOK, MadeInv, Next PROVE MadeInv'
  <1>1. CASE NewApp
    BY <1>1 DEF NewApp, MadeInv
  <1>2. CASE Visit
    <2>1. /\ phase = "assemble"
          /\ \/ UNCHANGED <<lazy, made, resolved>>
             \/ \E p \in Provider :
                  /\ lazy' = lazy \cup {p}
                  /\ \/ UNCHANGED <<made, resolved>>
                     \/ p \notin lazy /\ made' = [made EXCEPT ![p] = @ + 1]
      BY <1>2, VisitDoes
    <2>2. (\A p \in Provider : made'[p] <= 1) /\ (\A p \in Provider : p \notin lazy' => made'[p] = 0)
      <3>1. CASE UNCHANGED <<lazy, made>>
        BY <2>1, <3>1 DEF MadeInv, Early
      <3>2. ASSUME NEW p \in Provider, lazy' = lazy \cup {p}, made' = made
            PROVE  (\A q \in Provider : made'[q] <= 1) /\ (\A q \in Provider : q \notin lazy' => made'[q] = 0)
        BY <2>1, <3>2 DEF MadeInv, Early
      <3>3. ASSUME NEW p \in Provider \ lazy, lazy' = lazy \cup {p}, made' = [made EXCEPT ![p] = @ + 1]
            PROVE  (\A q \in Provider : made'[q] <= 1) /\ (\A q \in Provider : q \notin lazy' => made'[q] = 0)
        <4>1. \A q \in Provider : made'[q] = IF q = p THEN made[q] + 1 ELSE made[q]
          BY <3>3 DEF TypeOK
        <4>2. made[p] = 0
          BY <2>1, <3>3 DEF MadeInv, Early
        <4> QED
          BY <2>1, <3>3, <4>1, <4>2 DEF MadeInv, Early
      <3> QED
        BY <2>1, <3>1, <3>2, <3>3
    <2> QED
      BY <2>2 DEF MadeInv
  <1>3. CASE Resolve \/ ResolveFails
    <2>1. PICK done \in SUBSET OwnProviders : InvokeAndCopy(done)
      BY <1>3 DEF Resolve, ResolveFails
    <2>2. phase = "resolve" /\ phase' \notin Early
      BY <1>3 DEF Resolve, ResolveFails, Fail, Early
    <2>3. \A p \in Provider : made'[p] <= 1
      BY <2>1, <2>2 DEF InvokeAndCopy, MadeInv, Early
    <2> QED
      BY <2>2, <2>3 DEF MadeInv
  <1>4. CASE Step /\ ~ Visit /\ ~ Resolve /\ ~ ResolveFails
    <2>1. UNCHANGED <<made, lazy>> /\ (phase' \in Early => phase \in Early)
      BY <1>4 DEF Step, SkipVisited, Validate, DeclareAll, BuildGraph, StartSearch, LookAt, Leave, NoCycle,
                  RunHooks, DeclareController, NextModule, RegisterRoutes, Fail, tables, Early
    <2> QED
      BY <2>1 DEF MadeInv
  <1> QED
    BY <1>1, <1>2, <1>3, <1>4 DEF Next

\* Nothing fills a placeholder before Stage 3.
LEMMA StaleKept == ASSUME TypeOK, StaleInv, Next PROVE StaleInv'
  <1>1. CASE NewApp
    <2>1. boot' = boot + 1 /\ boot \in Nat /\ holds' = holds
      BY <1>1 DEF NewApp, tokens, TypeOK, Script
    <2>2. \A x \in Consumer, t \in Type : holds[x][t].boot \in 0..boot
      BY DEF TypeOK, Values
    <2> QED
      BY <2>1, <2>2 DEF StaleInv
  <1>2. CASE Step
    <2>1. phase' \in Early => phase \in Early /\ UNCHANGED <<holds, boot>>
      BY <1>2 DEF Step, SkipVisited, Visit, RunLazy, Validate, DeclareAll, BuildGraph, StartSearch, LookAt,
                  Leave, NoCycle, Resolve, ResolveFails, RunHooks, DeclareController, NextModule,
                  RegisterRoutes, Fail, tokens, Early
    <2> QED
      BY <2>1 DEF StaleInv
  <1> QED
    BY <1>1, <1>2 DEF Next

\* What Stage 3 leaves in a placeholder that one of the done Providers fills.
LEMMA InvokeFills ==
  ASSUME TypeOK, NEW done \in SUBSET OwnProviders, InvokeAndCopy(done)
  PROVE  /\ \A p \in Provider : resolved'[p] = IF p \in done THEN boot ELSE resolved[p]
         /\ \A x \in Consumer, t \in Type :
              \/ holds'[x][t] = holds[x][t] /\ ~ ([owner |-> x, target |-> t] \in edges
                                                  /\ Target([owner |-> x, target |-> t]) \in done)
              \/ /\ [owner |-> x, target |-> t] \in edges
                 /\ Target([owner |-> x, target |-> t]) \in done
                 /\ holds'[x][t].by = Target([owner |-> x, target |-> t])
                 /\ holds'[x][t].boot = boot
  <1>1. \A x \in Consumer, t \in Type :
          holds'[x][t] = IF [owner |-> x, target |-> t] \in edges /\ Target([owner |-> x, target |-> t]) \in done
                         THEN Made(Target([owner |-> x, target |-> t])) ELSE holds[x][t]
    BY DEF InvokeAndCopy
  <1> QED
    BY <1>1 DEF InvokeAndCopy, Made

\* After Stage 3 each consumer that was declared in this call holds what it made.
LEMMA FilledKept ==
  ASSUME TypeOK, AssemblyInv, OwnerInv, EdgesInv, FilledInv, Next PROVE FilledInv'
  <1>0. boot \in Nat
    BY DEF TypeOK, Script
  <1>1. CASE NewApp
    <2>1. (\A c \in Controller : declared'[c] < boot') /\ phase' = "assemble"
      BY <1>0, <1>1 DEF NewApp, tokens, TypeOK, Consumer
    <2> QED
      BY <2>1 DEF FilledInv
  <1>2. CASE Visit \/ DeclareAll
    <2>1. phase \in Early /\ phase' \in {"assemble", "graph", "failed"} /\ boot' = boot
      BY <1>2, VisitDoes DEF DeclareAll, Early
    <2>2. \E ps \in SUBSET Provider : UNCHANGED declared \/ DeclareProviders(ps)
      <3>1. CASE Visit
        <4>1. /\ Head(queue) \in Module /\ reg' \in [Module -> Registration]
              /\ UNCHANGED <<declared, edges>> \/ DeclareProviders(ToSet(reg'[Head(queue)].providers))
          BY <3>1, VisitDoes
        <4>2. ToSet(reg'[Head(queue)].providers) \in SUBSET Provider
          BY <4>1, RegistrationTypes
        <4> QED
          BY <4>1, <4>2
      <3>2. CASE DeclareAll
        <4>1. DeclareProviders(OwnProviders) /\ OwnProviders \in SUBSET Provider
          BY <3>2, OwnTypes DEF DeclareAll
        <4> QED
          BY <4>1
      <3> QED
        BY <1>2, <3>1, <3>2
    <2>3. \A c \in Controller : declared'[c] = declared[c]
      BY <2>2, DeclareTypes
    <2> QED
      BY <2>1, <2>3 DEF FilledInv
  <1>3. CASE Resolve
    <2>1. /\ InvokeAndCopy(OwnProviders) /\ phase = "resolve" /\ phase' = "hooks"
          /\ UNCHANGED <<script, boot, reg, order, declared>>
      BY <1>3 DEF Resolve, registrations, progress
    <2>2. OwnProviders' = OwnProviders /\ OwnProviders \subseteq Provider
      BY <2>1, OwnTypes DEF OwnProviders
    <2>3. \A p \in OwnProviders : resolved'[p] = boot
      BY <2>1, <2>2, InvokeFills
    <2>4. \A c \in Controller : declared[c] < boot
      BY <2>1 DEF FilledInv, Early
    <2>5. ASSUME NEW x \in Consumer, declared[x] = boot, NEW t \in script.needs[x]
          PROVE  holds'[x][t].boot = boot
      <3>1. x \in Provider /\ t \in Type
        BY <1>0, <2>4, <2>5, ScriptTypes DEF Consumer
      <3>2. [owner |-> x, target |-> t] \in edges
        BY <2>1, <2>5, <3>1 DEF EdgesInv, EdgesOf
      <3>3. Target([owner |-> x, target |-> t]) \in OwnProviders
        BY <2>1, <3>2 DEF EdgesInv
      <3> QED
        BY <2>1, <2>5, <3>1, <3>2, <3>3, InvokeFills
    <2> QED
      BY <2>1, <2>2, <2>3, <2>4, <2>5 DEF FilledInv
  <1>4. CASE DeclareController
    <2>1. /\ phase = "controllers" /\ phase' \in {"controllers", "failed"}
          /\ UNCHANGED <<script, boot, reg, order, resolved>>
      BY <1>4, ControllerDoes DEF registrations
    <2>2. OwnProviders' = OwnProviders
      BY <2>1 DEF OwnProviders
    <2>3. ASSUME phase' = "controllers", NEW x \in Consumer, declared'[x] = boot, NEW t \in script.needs[x]
          PROVE  holds'[x][t].boot = boot
      <3>1. CASE UNCHANGED <<declared, holds>>
        BY <2>1, <2>3, <3>1 DEF FilledInv
      <3>2. CASE ~ UNCHANGED <<declared, holds>>
        <4>1. PICK c \in OwnControllers :
                /\ declared' = [declared EXCEPT ![c] = boot]
                /\ \/ phase' = "failed"
                   \/ \A y \in Consumer, u \in Type :
                        \/ holds'[y][u] = holds[y][u] /\ (y # c \/ u \notin script.needs[c])
                        \/ /\ y = c /\ u \in script.needs[c]
                           /\ holds'[y][u].by \in DirectMatches(owner[c], u)
                           /\ holds'[y][u].boot = resolved[holds'[y][u].by]
          BY <1>4, <3>2, ControllerDoes
        <4>2. t \in Type
          BY <2>3, ScriptTypes
        <4>3. CASE x # c
          <5>1. holds'[x][t] = holds[x][t] /\ declared[x] = boot
            BY <2>3, <4>1, <4>2, <4>3 DEF TypeOK
          <5> QED
            BY <2>1, <2>3, <5>1 DEF FilledInv
        <4>4. CASE x = c
          <5>1. /\ holds'[x][t].by \in DirectMatches(owner[c], t)
                /\ holds'[x][t].boot = resolved[holds'[x][t].by]
            BY <2>3, <4>1, <4>2, <4>4
          <5>2. owner[c] \in ToSet(order)
            BY <2>1 DEF OwnerInv
          <5>3. Candidates(owner[c]) \subseteq OwnProviders
            BY <2>1, <5>2, SeenIsOwn DEF Candidates
          <5>4. holds'[x][t].by \in OwnProviders
            BY <5>1, <5>3 DEF DirectMatches
          <5> QED
            BY <2>1, <5>1, <5>4 DEF FilledInv
        <4> QED
          BY <4>3, <4>4
      <3> QED
        BY <3>1, <3>2
    <2> QED
      BY <2>1, <2>2, <2>3 DEF FilledInv, Early
  <1>5. CASE Step /\ ~ Visit /\ ~ DeclareAll /\ ~ Resolve /\ ~ DeclareController
    <2>1. /\ UNCHANGED <<script, boot, reg, order, declared>>
          /\ phase' \in Early \cup {"hooks"} => phase \in Early \cup {"hooks"}
          /\ phase' \in {"hooks", "controllers", "up"} =>
               phase \in {"hooks", "controllers", "up"} /\ UNCHANGED <<resolved, holds>>
      BY <1>5 DEF Step, SkipVisited, Validate, BuildGraph, StartSearch, LookAt, Leave, NoCycle, ResolveFails,
                  RunHooks, NextModule, RegisterRoutes, Fail, registrations, tokens, progress, Early
    <2>2. OwnProviders' = OwnProviders
      BY <2>1 DEF OwnProviders
    <2> QED
      BY <2>1, <2>2 DEF FilledInv
  <1> QED
    BY <1>1, <1>2, <1>3, <1>4, <1>5 DEF Next

\* Whatever fills a placeholder was visible to the module that asked.
LEMMA VisibleKept ==
  ASSUME TypeOK, AssemblyInv, OwnerInv, StaleInv, OnlyVisible, Next PROVE OnlyVisible'
  <1>0. boot \in Nat
    BY DEF TypeOK, Script
  <1> DEFINE Sees(x, t, v) == v.by \in Visible(owner[x]) /\ script.constructs[v.by] = t
  <1>1. CASE NewApp
    <2>1. boot' = boot + 1 /\ holds' = holds
      BY <1>1 DEF NewApp, tokens
    <2>2. \A x \in Consumer, t \in Type : holds[x][t].boot \in 0..boot
      BY DEF TypeOK, Values
    <2> QED
      BY <1>0, <2>1, <2>2 DEF OnlyVisible
  <1>2. CASE Visit
    <2>1. phase = "assemble" /\ UNCHANGED <<boot, holds>>
      BY <1>2, VisitDoes
    <2> QED
      BY <1>0, <2>1 DEF OnlyVisible, StaleInv, Early, TypeOK, Values
  <1>3. CASE Resolve \/ ResolveFails
    <2>1. PICK done \in SUBSET OwnProviders : InvokeAndCopy(done)
      BY <1>3 DEF Resolve, ResolveFails
    <2>2. Frame /\ phase = "resolve"
      BY <1>3 DEF Resolve, ResolveFails, Frame, registrations, progress
    <2>3. ASSUME NEW x \in Consumer, NEW t \in Type, holds'[x][t].boot = boot
          PROVE  Sees(x, t, holds'[x][t])
      <3> DEFINE e == [owner |-> x, target |-> t]
      <3>1. holds'[x][t] # holds[x][t]
        BY <2>2, <2>3, <1>0 DEF StaleInv, Early, TypeOK, Values
      <3>2. e \in edges /\ Target(e) \in done /\ holds'[x][t].by = Target(e)
        BY <2>1, <3>1, InvokeFills
      <3>3. Target(e) \in Provider /\ e.owner = x /\ e.target = t
        BY <3>2, OwnTypes
      <3>4. Target(e) \in Visible(owner[x]) \cap Constructing(t)
        <4> HIDE DEF e
        <4> QED
          BY <2>2, <3>2, <3>3, TargetTypes
      <3> QED
        BY <3>2, <3>4 DEF Constructing
    <2>4. \A x : Visible(owner[x])' = Visible(owner[x])
      BY <2>2, FrameKeeps DEF Frame
    <2> QED
      BY <2>2, <2>3, <2>4 DEF OnlyVisible, Frame
  <1>4. CASE DeclareController
    <2>1. /\ Frame /\ phase = "controllers"
          /\ \/ UNCHANGED holds
             \/ \E c \in OwnControllers : \A x \in Consumer, t \in Type :
                  \/ holds'[x][t] = holds[x][t]
                  \/ x = c /\ holds'[x][t].by \in DirectMatches(owner[c], t)
      BY <1>4, ControllerDoes DEF Frame, registrations
    <2>2. ASSUME NEW x \in Consumer, NEW t \in Type, holds'[x][t].boot = boot, boot > 0
          PROVE  Sees(x, t, holds'[x][t])
      <3>1. CASE holds'[x][t] = holds[x][t]
        BY <2>2, <3>1 DEF OnlyVisible
      <3>2. CASE x \in OwnControllers /\ holds'[x][t].by \in DirectMatches(owner[x], t)
        <4>1. owner[x] \in Module
          BY <2>1, <3>2, OwnTypes DEF OwnerInv
        <4>2. Candidates(owner[x]) \subseteq Visible(owner[x])
          <5>1. reg \in [Module -> Registration]
            BY DEF TypeOK
          <5>2. \A i \in ToSet(reg[owner[x]].imports) : ToSet(EffectiveExports(reg, i)) \subseteq Visible(owner[x])
            BY <4>1, <5>1, ExportsVisible
          <5>3. ToSet(reg[owner[x]].providers) \subseteq Visible(owner[x])
            BY DEF Visible
          <5> QED
            BY <5>2, <5>3 DEF Candidates
        <4> QED
          BY <3>2, <4>2 DEF DirectMatches, Constructing
      <3> QED
        BY <2>1, <3>1, <3>2
    <2>3. \A x : Visible(owner[x])' = Visible(owner[x])
      BY <2>1, FrameKeeps DEF Frame
    <2> QED
      BY <2>1, <2>2, <2>3 DEF OnlyVisible, Frame
  <1>5. CASE Step /\ ~ Visit /\ ~ Resolve /\ ~ ResolveFails /\ ~ DeclareController
    <2>1. UNCHANGED <<script, boot, reg, owner, holds>>
      BY <1>5 DEF Step, SkipVisited, Validate, DeclareAll, BuildGraph, StartSearch, LookAt, Leave, NoCycle,
                  RunHooks, NextModule, RegisterRoutes, registrations, tokens
    <2>2. \A m : Visible(m)' = Visible(m)
      BY <2>1 DEF Visible, Reexporting, Closure, Closed
    <2> QED
      BY <2>1, <2>2 DEF OnlyVisible
  <1> QED
    BY <1>1, <1>2, <1>3, <1>4, <1>5 DEF Next

--------------------------------------------------------------------------------
(* The search for cycles.                                                  *)

\* The stack as a sequence.
LEMMA PathTypes ==
  ASSUME TypeOK
  PROVE  /\ Len(path) \in Nat /\ DOMAIN path = 1..Len(path)
         /\ \A i \in 1..Len(path) : path[i].node \in Provider /\ path[i] \in [node : Provider, left : SUBSET Provider]
         /\ path # <<>> => Len(path) \in 1..Len(path) /\ Last(path) = path[Len(path)]
  <1> DEFINE Node == [node : Provider, left : SUBSET Provider]
  <1>1. path \in Seq(Node)
    BY DEF TypeOK
  <1>2. /\ Len(path) \in Nat /\ DOMAIN path = 1..Len(path)
        /\ \A i \in 1..Len(path) : path[i] \in Node
        /\ path # <<>> => Len(path) >= 1
    <2> HIDE DEF Node
    <2> QED
      BY <1>1
  <1> QED
    BY <1>2 DEF Last

\* A finished node that is added keeps what is finished free of cycles.
LEMMA BlackGrows ==
  ASSUME NEW B, NEW p,
         \A q \in B : Deps(q) \subseteq B,
         \A S \in SUBSET B : S # {} => \E q \in S : Deps(q) \cap S = {},
         Deps(p) \subseteq B
  PROVE  /\ \A q \in B \cup {p} : Deps(q) \subseteq B \cup {p}
         /\ \A S \in SUBSET (B \cup {p}) : S # {} => \E q \in S : Deps(q) \cap S = {}
  <1>1. ASSUME NEW S \in SUBSET (B \cup {p}), S # {} PROVE \E q \in S : Deps(q) \cap S = {}
    <2>1. CASE p \in B
      <3>1. S \in SUBSET B
        BY <2>1
      <3> QED
        BY <1>1, <3>1
    <2>2. CASE p \notin B /\ S \cap B = {}
      <3>1. S = {p}
        BY <1>1, <2>2
      <3> QED
        BY <2>2, <3>1
    <2>3. CASE p \notin B /\ S \cap B # {}
      <3>1. PICK q \in S \cap B : Deps(q) \cap (S \cap B) = {}
        BY <2>3
      <3>2. Deps(q) \subseteq B
        BY <3>1
      <3> QED
        BY <3>1, <3>2
    <2> QED
      BY <2>1, <2>2, <2>3
  <1> QED
    BY <1>1

\* The two ways LookAt goes on: over a finished dependency, or into a new one.
LEMMA LookAtDoes ==
  ASSUME TypeOK, LookAt, phase' # "failed"
  PROVE  /\ phase' = "cycles" /\ path # <<>> /\ UNCHANGED <<graph, black>>
         /\ \E dep \in path[Len(path)].left :
              /\ path'[Len(path)].node = path[Len(path)].node
              /\ path'[Len(path)].left = path[Len(path)].left \ {dep}
              /\ \A i \in 1..(Len(path) - 1) : path'[i] = path[i]
              /\ \/ dep \in black /\ Len(path') = Len(path)
                 \/ Len(path') = Len(path) + 1 /\ path'[Len(path) + 1] = Enter(dep)
  <1> DEFINE n == Len(path)
             Node == [node : Provider, left : SUBSET Provider]
  <1>1. /\ path # <<>> /\ phase = "cycles" /\ UNCHANGED <<graph, black>>
        /\ \E dep \in Last(path).left :
             LET rest == [path EXCEPT ![Len(path)].left = @ \ {dep}] IN
             IF dep \in Gray
             THEN chain' = CycleError(dep) /\ Fail("cycle") /\ UNCHANGED path
             ELSE /\ path' = IF dep \in black THEN rest ELSE Append(rest, Enter(dep))
                  /\ UNCHANGED <<phase, reason, chain>>
    BY DEF LookAt
  <1>2. PICK dep \in Last(path).left :
          LET rest == [path EXCEPT ![Len(path)].left = @ \ {dep}] IN
          /\ path' = IF dep \in black THEN rest ELSE Append(rest, Enter(dep))
          /\ phase' = phase
    BY <1>1 DEF Fail
  <1> DEFINE rest == [path EXCEPT ![n].left = @ \ {dep}]
  <1>3. n \in 1..n /\ n \in Nat /\ Last(path) = path[n] /\ \A i \in 1..n : path[i] \in Node
    BY <1>1, PathTypes
  <1>4. /\ \A i \in 1..(n - 1) : rest[i] = path[i]
        /\ rest[n].node = path[n].node /\ rest[n].left = path[n].left \ {dep}
        /\ rest \in Seq(Node) /\ Len(rest) = n
    <2> DEFINE seen == [path[n] EXCEPT !.left = @ \ {dep}]
    <2>1. seen \in Node /\ seen.node = path[n].node /\ seen.left = path[n].left \ {dep}
      BY <1>3
    <2>2. rest = [path EXCEPT ![n] = seen]
      OBVIOUS
    <2> HIDE DEF Node, seen, rest
    <2>3. path \in [1..n -> Node]
      <3>1. path \in Seq(Node)
        BY DEF TypeOK, Node
      <3> QED
        BY <3>1
    <2>4. rest \in [1..n -> Node]
      BY <1>3, <2>1, <2>2, <2>3
    <2>5. rest \in Seq(Node) /\ Len(rest) = n
      BY <1>3, <2>4
    <2> QED
      BY <1>3, <2>1, <2>2, <2>3, <2>5
  <1>5. path' = IF dep \in black THEN rest ELSE Append(rest, Enter(dep))
    BY <1>2
  <1>6. dep \in path[n].left /\ Enter(dep) \in Node
    <2>1. dep \in path[n].left /\ dep \in Provider
      BY <1>3
    <2> QED
      BY <2>1, OwnTypes DEF Enter
  <1> HIDE DEF rest, Node
  <1>7. CASE dep \in black
    BY <1>1, <1>2, <1>4, <1>5, <1>6, <1>7
  <1>8. CASE dep \notin black
    <2>1. path' = Append(rest, Enter(dep))
      BY <1>5, <1>8
    <2>2. /\ Len(path') = n + 1 /\ path'[n + 1] = Enter(dep)
          /\ \A i \in 1..n : path'[i] = rest[i]
      BY <1>4, <1>6, <2>1
    <2> QED
      BY <1>1, <1>2, <1>3, <1>4, <1>6, <2>2
  <1> QED
    BY <1>7, <1>8

\* Each step of DetectCycle keeps what is said of its stack and of what is finished.
LEMMA SearchKept == ASSUME TypeOK, SearchInv, Next PROVE SearchInv'
  <1>1. CASE NewApp
    <2>1. path' = <<>> /\ black' = {} /\ Len(path') = 0
      BY <1>1 DEF NewApp
    <2> QED
      BY <2>1 DEF SearchInv
  <1>2. CASE StartSearch
    <2>1. PICK p \in DOMAIN graph : path' = <<Enter(p)>>
      BY <1>2 DEF StartSearch
    <2>2. Len(path') = 1 /\ path'[1].node = p /\ path'[1].left = Deps(p)
      BY <2>1 DEF Enter
    <2>3. UNCHANGED <<graph, black>> /\ phase = "cycles" /\ phase' = "cycles"
      BY <1>2 DEF StartSearch
    <2>4. \A q : Deps(q)' = Deps(q)
      BY <2>3 DEF Deps
    <2> QED
      BY <2>2, <2>3, <2>4 DEF SearchInv
  <1>3. CASE LookAt
    <2> SUFFICES ASSUME phase' # "failed" PROVE SearchInv'
      BY DEF SearchInv
    <2> DEFINE n == Len(path)
    <2>1. phase = "cycles" /\ phase' = "cycles" /\ path # <<>> /\ UNCHANGED <<graph, black>>
      BY <1>3, LookAtDoes DEF LookAt
    <2>2. PICK dep \in path[n].left :
            /\ path'[n].node = path[n].node
            /\ path'[n].left = path[n].left \ {dep}
            /\ \A i \in 1..(n - 1) : path'[i] = path[i]
            /\ \/ dep \in black /\ Len(path') = n
               \/ Len(path') = n + 1 /\ path'[n + 1] = Enter(dep)
      BY <1>3, LookAtDoes
    <2>3. \A q : Deps(q)' = Deps(q)
      BY <2>1 DEF Deps
    <2>4. n \in Nat /\ n \in 1..n
      BY <2>1, PathTypes
    <2>5. \A i \in 1..n :
            /\ path[i].left \subseteq Deps(path[i].node)
            /\ i < n => path[i + 1].node \in Deps(path[i].node)
            /\ \A d \in Deps(path[i].node) \ path[i].left :
                 d \in black \/ (i < n /\ d = path[i + 1].node)
      BY <2>1 DEF SearchInv
    <2>6. ASSUME NEW i \in 1..n, i < n
          PROVE  path'[i] = path[i] /\ path'[i + 1].node = path[i + 1].node
      <3>1. i \in 1..(n - 1) /\ (i + 1 = n \/ i + 1 \in 1..(n - 1))
        BY <2>4, <2>6
      <3> QED
        BY <2>2, <3>1
    <2> HIDE DEF n
    <2>7. ASSUME NEW i \in 1..Len(path')
          PROVE  /\ path'[i].left \subseteq Deps(path'[i].node)
                 /\ i < Len(path') => path'[i + 1].node \in Deps(path'[i].node)
                 /\ \A d \in Deps(path'[i].node) \ path'[i].left :
                      d \in black \/ (i < Len(path') /\ d = path'[i + 1].node)
      <3>1. CASE i \in 1..n /\ i < n
        <4>1. i < Len(path') /\ path'[i] = path[i] /\ path'[i + 1].node = path[i + 1].node
          BY <2>2, <2>4, <2>6, <3>1
        <4> QED
          BY <2>5, <3>1, <4>1
      <3>2. CASE i = n /\ Len(path') = n /\ dep \in black
        BY <2>2, <2>4, <2>5, <3>2
      <3>3. CASE i = n /\ Len(path') = n + 1 /\ path'[n + 1] = Enter(dep)
        <4>1. path'[i + 1].node = dep /\ dep \in Deps(path[n].node)
          BY <2>2, <2>4, <2>5, <3>3 DEF Enter
        <4> QED
          BY <2>2, <2>4, <2>5, <3>3, <4>1
      <3>4. CASE i = n + 1 /\ Len(path') = n + 1 /\ path'[n + 1] = Enter(dep)
        BY <2>4, <3>4 DEF Enter
      <3> QED
        BY <2>2, <2>4, <3>1, <3>2, <3>3, <3>4
    <2> QED
      BY <2>1, <2>3, <2>7 DEF SearchInv
  <1>4. CASE Leave
    <2> DEFINE n == Len(path)
               p == path[n].node
    <2>1. /\ phase = "cycles" /\ phase' = "cycles" /\ path # <<>> /\ path[n].left = {}
          /\ black' = black \cup {p} /\ path' = Front(path) /\ graph' = graph
      BY <1>4, PathTypes DEF Leave
    <2>2. n \in Nat /\ n \in 1..n /\ DOMAIN path = 1..n
      BY <2>1, PathTypes
    <2>3. Len(path') = n - 1 /\ \A i \in 1..(n - 1) : path'[i] = path[i]
      <3>1. path \in Seq([node : Provider, left : SUBSET Provider])
        BY DEF TypeOK
      <3> QED
        BY <2>1, <2>2, <3>1 DEF Front
    <2>4. \A q : Deps(q)' = Deps(q)
      BY <2>1 DEF Deps
    <2>5. Deps(p) \subseteq black
      BY <2>1, <2>2 DEF SearchInv
    <2>6. /\ \A q \in black' : Deps(q) \subseteq black'
          /\ \A S \in SUBSET black' : S # {} => \E q \in S : Deps(q) \cap S = {}
      <3>1. /\ \A q \in black : Deps(q) \subseteq black
            /\ \A S \in SUBSET black : S # {} => \E q \in S : Deps(q) \cap S = {}
        BY <2>1 DEF SearchInv
      <3> HIDE DEF p
      <3> QED
        BY <2>1, <2>5, <3>1, BlackGrows
    <2>7. ASSUME NEW i \in 1..Len(path')
          PROVE  /\ path'[i].left \subseteq Deps(path'[i].node)
                 /\ i < Len(path') => path'[i + 1].node \in Deps(path'[i].node)
                 /\ \A d \in Deps(path'[i].node) \ path'[i].left :
                      d \in black' \/ (i < Len(path') /\ d = path'[i + 1].node)
      <3>1. i \in 1..n /\ i < n /\ path'[i] = path[i]
        BY <2>2, <2>3
      <3>2. /\ path[i].left \subseteq Deps(path[i].node)
            /\ path[i + 1].node \in Deps(path[i].node)
            /\ \A d \in Deps(path[i].node) \ path[i].left : d \in black \/ d = path[i + 1].node
        BY <2>1, <3>1 DEF SearchInv
      <3>3. CASE i + 1 = n
        BY <2>1, <2>2, <2>3, <3>1, <3>2, <3>3
      <3>4. CASE i + 1 # n
        <4>1. i < Len(path') /\ path'[i + 1] = path[i + 1]
          <5>1. i \in Nat /\ i >= 1 /\ i + 1 < n
            BY <2>2, <3>1, <3>4
          <5>2. i + 1 \in 1..(n - 1) /\ i < n - 1
            BY <2>2, <5>1
          <5> QED
            BY <2>3, <5>2
        <4> QED
          BY <2>1, <3>1, <3>2, <4>1
      <3> QED
        BY <3>3, <3>4
    <2> QED
      BY <2>1, <2>4, <2>6, <2>7 DEF SearchInv
  <1>5. CASE BuildGraph
    <2>1. UNCHANGED <<path, black>> /\ phase = "graph" /\ phase' # "graph"
      BY <1>5 DEF BuildGraph, Fail
    <2>2. path' = <<>> /\ black' = {} /\ Len(path') = 0
      BY <2>1 DEF SearchInv
    <2> QED
      BY <2>2 DEF SearchInv
  <1>6. CASE Step /\ ~ StartSearch /\ ~ LookAt /\ ~ Leave /\ ~ BuildGraph
    <2>1. /\ UNCHANGED <<graph, path, black>>
          /\ phase' \in {"assemble", "declare", "graph", "cycles"} =>
               phase \in {"assemble", "declare", "graph", "cycles"} /\ (phase = "cycles" <=> phase' = "cycles")
      BY <1>6 DEF Step, SkipVisited, Visit, RunLazy, Validate, DeclareAll, NoCycle, Resolve, ResolveFails,
                  RunHooks, DeclareController, NextModule, RegisterRoutes, Fail, search
    <2>2. \A q : Deps(q)' = Deps(q)
      BY <2>1 DEF Deps
    <2> QED
      BY <2>1, <2>2 DEF SearchInv
  <1> QED
    BY <1>1, <1>2, <1>3, <1>4, <1>5, <1>6 DEF Next

\* The cycle LookAt reports is one: the part of the stack from the dependency on.
LEMMA CycleIsReal ==
  ASSUME TypeOK, SearchInv, LookAt, phase' = "failed"
  PROVE  /\ chain' # <<>> /\ chain'[1] \in Deps(Last(chain'))
         /\ \A i \in 1..(Len(chain') - 1) : chain'[i + 1] \in Deps(chain'[i])
         /\ graph' = graph
  <1> DEFINE n == Len(path)
  <1>1. PICK dep \in Last(path).left : dep \in Gray /\ chain' = CycleError(dep)
    BY DEF LookAt
  <1>2. path # <<>> /\ phase = "cycles" /\ graph' = graph
    BY DEF LookAt
  <1>3. n \in Nat /\ n \in 1..n /\ DOMAIN path = 1..n /\ dep \in path[n].left
    BY <1>1, <1>2, PathTypes
  <1> DEFINE start == CHOOSE i \in DOMAIN path : path[i].node = dep
             long == n - start + 1
  <1>4. start \in 1..n /\ path[start].node = dep
    BY <1>1, <1>3 DEF Gray
  <1>5. chain' = [i \in 1..long |-> path[start + i - 1].node]
    BY <1>1 DEF CycleError
  <1>6. dep \in Deps(path[n].node)
    BY <1>2, <1>3 DEF SearchInv
  <1>7. \A i \in 1..n : i < n => path[i + 1].node \in Deps(path[i].node)
    BY <1>2 DEF SearchInv
  <1> HIDE DEF start, n
  <1>8. long \in Nat /\ long >= 1 /\ start + 1 - 1 = start /\ start + long - 1 = n
    BY <1>3, <1>4
  <1> HIDE DEF long
  <1>9. Len(chain') = long /\ chain' # <<>> /\ Last(chain') = chain'[long]
    BY <1>5, <1>8 DEF Last
  <1>10. chain'[1] = dep /\ chain'[long] = path[n].node
    BY <1>4, <1>5, <1>8
  <1>11. ASSUME NEW i \in 1..(long - 1) PROVE chain'[i + 1] \in Deps(chain'[i])
    <2> DEFINE k == start + i - 1
    <2>1. k \in 1..n /\ k < n /\ start + (i + 1) - 1 = k + 1 /\ i \in 1..long /\ i + 1 \in 1..long
      BY <1>3, <1>4, <1>8
    <2> HIDE DEF k
    <2>2. chain'[i] = path[k].node /\ chain'[i + 1] = path[k + 1].node
      BY <1>5, <2>1 DEF k
    <2> QED
      BY <1>7, <2>1, <2>2
  <1> QED
    BY <1>2, <1>6, <1>9, <1>10, <1>11

\* A reason is given by the step that fails.
LEMMA ReasonKept == ASSUME TypeOK, OwnerInv, ReasonInv, Next PROVE ReasonInv'
  <1>1. CASE NewApp
    BY <1>1 DEF NewApp, ReasonInv
  <1>2. CASE Step
    <2>1. phase' = "failed" \/ reason' = reason
      BY <1>2 DEF Step, SkipVisited, Visit, RunLazy, Validate, DeclareAll, BuildGraph, StartSearch, LookAt,
                  Leave, NoCycle, Resolve, ResolveFails, RunHooks, DeclareController, NextModule,
                  RegisterRoutes, Fail
    <2>2. phase # "failed"
      BY <1>2 DEF Step, SkipVisited, Visit, Validate, DeclareAll, BuildGraph, StartSearch, LookAt,
                  Leave, NoCycle, Resolve, ResolveFails, RunHooks, DeclareController, NextModule,
                  RegisterRoutes
    <2> QED
      BY <2>1, <2>2 DEF ReasonInv
  <1> QED
    BY <1>1, <1>2 DEF Next

\* A graph that passed the search has no cycle, and no other step says it has.
LEMMA CyclesKept ==
  ASSUME TypeOK, OwnerInv, ReasonInv, SearchInv, CyclesFound, Next PROVE CyclesFound'
  <1> DEFINE Searched == {"resolve", "hooks", "controllers", "up"}
             NoCycles == \A S \in SUBSET Provider : S # {} => \E p \in S : Deps(p) \cap S = {}
             RealChain == /\ chain # <<>> /\ chain[1] \in Deps(Last(chain))
                          /\ \A i \in 1..(Len(chain) - 1) : chain[i + 1] \in Deps(chain[i])
  <1>1. graph' = graph => \A p : Deps(p)' = Deps(p)
    BY DEF Deps
  <1>2. CASE NewApp
    BY <1>2 DEF NewApp, CyclesFound
  <1>3. CASE LookAt
    <2>1. CASE phase' = "failed"
      <3>1. /\ chain' # <<>> /\ chain'[1] \in Deps(Last(chain'))
            /\ \A i \in 1..(Len(chain') - 1) : chain'[i + 1] \in Deps(chain'[i])
            /\ graph' = graph
        BY <1>3, <2>1, CycleIsReal
      <3> QED
        BY <1>1, <2>1, <3>1 DEF CyclesFound
    <2>2. CASE phase' # "failed"
      <3>1. phase' = "cycles" /\ reason' = reason /\ reason # "cycle"
        BY <1>3, <2>2 DEF LookAt, Fail, ReasonInv
      <3> QED
        BY <3>1 DEF CyclesFound
    <2> QED
      BY <2>1, <2>2
  <1>4. CASE NoCycle
    <2>1. /\ phase = "cycles" /\ DOMAIN graph \subseteq black /\ graph' = graph /\ reason' = reason
      BY <1>4 DEF NoCycle, search
    <2>2. reason # "cycle"
      BY <2>1 DEF ReasonInv
    <2>3. ASSUME NEW S \in SUBSET Provider, S # {} PROVE \E p \in S : Deps(p) \cap S = {}
      <3>1. CASE S \subseteq DOMAIN graph
        BY <2>1, <2>3, <3>1 DEF SearchInv
      <3>2. CASE ~ (S \subseteq DOMAIN graph)
        BY <3>2 DEF Deps
      <3> QED
        BY <3>1, <3>2
    <2> QED
      BY <1>1, <2>1, <2>2, <2>3 DEF CyclesFound
  <1>5. CASE BuildGraph
    <2>1. phase' \in {"cycles", "failed"}
      BY <1>5 DEF BuildGraph, Fail
    <2>2. reason' # "cycle"
      <3>1. reason # "cycle" /\ phase = "graph"
        BY <1>5 DEF BuildGraph, ReasonInv
      <3>2. CASE reason' # reason
        <4>1. PICK why \in {Target(e) : e \in edges} \ Provider : reason' = why
          BY <1>5, <3>2 DEF BuildGraph, Fail
        <4>2. why \in Panics
          BY <3>1, <4>1, TargetTypes
        <4> QED
          BY <4>1, <4>2 DEF Panics
      <3> QED
        BY <3>1, <3>2
    <2> QED
      BY <2>1, <2>2 DEF CyclesFound
  <1>6. CASE Step /\ ~ LookAt /\ ~ NoCycle /\ ~ BuildGraph
    <2>1. /\ graph' = graph /\ phase # "failed"
          /\ phase' \in Searched => phase \in Searched
          /\ reason' = reason \/ reason' # "cycle"
      BY <1>6 DEF Step, SkipVisited, Visit, RunLazy, Validate, DeclareAll, StartSearch, Leave, Resolve,
                  ResolveFails, RunHooks, DeclareController, NextModule, RegisterRoutes, Fail, search
    <2>2. reason' # "cycle"
      BY <2>1 DEF ReasonInv
    <2> QED
      BY <1>1, <2>1, <2>2 DEF CyclesFound
  <1> QED
    BY <1>2, <1>3, <1>4, <1>5, <1>6 DEF Next

--------------------------------------------------------------------------------
(* The theorems.                                                           *)

\* The process starts with nothing registered, declared or resolved.
LEMMA InitEstablishes == Init => IInv
  <1> SUFFICES ASSUME Init PROVE IInv
    OBVIOUS
  <1>1. TypeOK
    BY InitTypes
  <1>2. /\ phase = "idle" /\ reason = "none" /\ boot = 0 /\ \A p \in Provider : made[p] = 0
    BY DEF Init
  <1> QED
    BY <1>1, <1>2
    DEF IInv, ReasonInv, AssemblyInv, OwnerInv, EdgesInv, MadeInv, StaleInv, FilledInv, OnlyVisible, SearchInv,
        CyclesFound, Early

\* A step that changes no variable keeps the invariant.
LEMMA StutterKeeps == ASSUME IInv, UNCHANGED vars PROVE IInv'
  <1> USE DEF vars, registrations, tokens, tables, search, progress
  <1>1. TypeOK'
    BY DEF IInv, TypeOK, Values
  <1>2. Frame /\ UNCHANGED <<edges, lazy, made, declared, holds, resolved, phase, reason, path, black, chain, graph>>
    BY DEF Frame
  <1>3. /\ \A p : Deps(p)' = Deps(p)
        /\ \A p : EdgesOf(p)' = EdgesOf(p)
        /\ \A e : Target(e)' = Target(e)
    BY <1>2, TargetStays DEF Deps, EdgesOf, Frame
  <1>4. ReasonInv' /\ MadeInv' /\ StaleInv' /\ SearchInv' /\ CyclesFound'
    BY <1>2, <1>3 DEF IInv, ReasonInv, MadeInv, StaleInv, SearchInv, CyclesFound, Frame
  <1>5. AssemblyInv' /\ OwnerInv' /\ EdgesInv'
    BY <1>2, <1>3, FrameKeeps DEF IInv, AssemblyInv, OwnerInv, EdgesInv, Closed, Frame
  <1>6. FilledInv' /\ OnlyVisible'
    BY <1>2, FrameKeeps DEF IInv, FilledInv, OnlyVisible, Frame
  <1> QED
    BY <1>1, <1>4, <1>5, <1>6 DEF IInv

\* IInv holds in every state, however often NewApp is called.
THEOREM Invariance == Spec => []IInv
  <1>1. IInv /\ Next => IInv'
    <2> SUFFICES ASSUME IInv, Next PROVE IInv'
      OBVIOUS
    <2>1. TypeOK' /\ ReasonInv' /\ AssemblyInv' /\ OwnerInv' /\ EdgesInv'
      BY TypesKept, ReasonKept, AssemblyKept, OwnerKept, EdgesKept DEF IInv
    <2>2. MadeInv' /\ StaleInv' /\ FilledInv' /\ OnlyVisible' /\ SearchInv' /\ CyclesFound'
      BY MadeKept, StaleKept, FilledKept, VisibleKept, SearchKept, CyclesKept DEF IInv
    <2> QED
      BY <2>1, <2>2 DEF IInv
  <1>2. IInv /\ UNCHANGED vars => IInv'
    BY StutterKeeps
  <1> QED
    BY InitEstablishes, <1>1, <1>2, PTL DEF Spec

\* Every variable holds a value of its type; so the searches are only asked
\* about modules, and what they answer is a Provider or a panic.
THEOREM TypeCorrect == Spec => []TypeOK
  <1>1. IInv => TypeOK
    BY DEF IInv
  <1> QED
    BY <1>1, Invariance, PTL

\* assemble visits exactly the modules the root reaches through imports, each
\* once, whatever cycles the imports have and whatever earlier calls registered;
\* and a validated module exports nothing that is not declared in its reach.
THEOREM TreeAssembled == Spec => []Assembled
  <1>1. IInv => Assembled
    <2> SUFFICES ASSUME IInv, phase \notin {"idle", "assemble", "failed"}
                 PROVE  /\ ToSet(order) = Importing({script.roots[boot]})
                        /\ Len(order) = Cardinality(ToSet(order))
                        /\ \A m \in ToSet(order) :
                             ToSet(EffectiveExports(reg, m))
                               \subseteq UNION {ToSet(reg[i].providers) : i \in Importing({m})}
      BY DEF Assembled
    <2>1. TypeOK /\ AssemblyInv
      BY DEF IInv
    <2> QED
      BY <2>1, AssemblyReaches DEF AssemblyInv
  <1> QED
    BY <1>1, Invariance, PTL

\* No consumer ever holds a Provider its module may not see, in the edges and in
\* the direct resolution of Controllers alike.
THEOREM Encapsulated == Spec => []OnlyVisible
  <1>1. IInv => OnlyVisible
    BY DEF IInv
  <1> QED
    BY <1>1, Invariance, PTL

\* DetectCycle reports a cycle of the graph or lets through a graph that has none.
THEOREM CycleDetection == Spec => []CyclesFound
  <1>1. IInv => CyclesFound
    BY DEF IInv
  <1> QED
    BY <1>1, Invariance, PTL

\* When a call returns an App, what was declared in it holds what it made; and
\* no Constructor ran twice in any call.
THEOREM DeclaredIsFresh == Spec => []FreshForNew
  <1>1. IInv => FreshForNew
    <2> SUFFICES ASSUME IInv PROVE FreshForNew
      OBVIOUS
    <2>1. OwnProviders \cup OwnControllers \subseteq Consumer
      BY OwnTypes DEF IInv, Consumer
    <2>2. phase = "up" => \A x \in OwnProviders \cup OwnControllers :
            declared[x] = boot => \A t \in script.needs[x] : holds[x][t].boot = boot
      BY <2>1 DEF IInv, FilledInv
    <2> QED
      BY <2>2 DEF IInv, MadeInv, FreshForNew
  <1> QED
    BY <1>1, Invariance, PTL
================================================================================
