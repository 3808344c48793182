---------------------------- MODULE Scheduler_proofs ----------------------------
(***************************************************************************)
(* Proofs about Scheduler: however many jobs, names and calls of Stop there *)
(* are and however they interleave, no goroutine ends without a reason and *)
(* no Timeout runs twice.                                                  *)
(***************************************************************************)
EXTENDS Scheduler, TLAPS

\* A call of Stop closes the channel of a job: a lookup that finds nothing
\* returns at once.
FoundInv == \A p \in Stopper : stopper[p] = "found" => handle[p] \in Job

\* How far a job is tells how often it ran: a Timeout selects before its only
\* run.
RunsInv ==
  \A j \in Job :
    /\ routine[j] = "new" => runs[j] = 0
    /\ routine[j] = "gone" => j \in stopped \/ (kind[j] = "timeout" /\ runs[j] = 1)
    /\ kind[j] = "timeout" =>
         /\ routine[j] = "select" => runs[j] = 0
         /\ routine[j] = "running" => runs[j] = 1
         /\ runs[j] <= 1

\* The inductive invariant.
IInv == TypeOK /\ FoundInv /\ RunsInv

LEMMA InitEstablishes == Init => IInv
  BY SchedulerAssumption DEF Init, IInv, TypeOK, FoundInv, RunsInv

\* The steps of a job's goroutine and of its timer.
LEMMA JobKeeps ==
  ASSUME IInv, NEW j \in Job,
         Register(j) \/ TimerFires(j) \/ Run(j) \/ RunEnds(j) \/ StopSeen(j)
  PROVE  IInv'
  <1> USE DEF IInv, TypeOK, FoundInv, RunsInv, inputs
  <1>1. CASE Register(j)
    BY <1>1 DEF Register
  <1>2. CASE TimerFires(j)
    BY <1>2 DEF TimerFires
  <1>3. CASE Run(j)
    BY <1>3 DEF Run
  <1>4. CASE RunEnds(j)
    BY <1>4 DEF RunEnds
  <1>5. CASE StopSeen(j)
    BY <1>5 DEF StopSeen
  <1> QED
    BY <1>1, <1>2, <1>3, <1>4, <1>5

\* The two steps of a call of Stop, between which the name may be taken over.
LEMMA StopKeeps ==
  ASSUME IInv, NEW p \in Stopper,
         CloseStop(p) \/ \E n \in Name : Lookup(p, n)
  PROVE  IInv'
  <1> USE DEF IInv, TypeOK, FoundInv, RunsInv, inputs
  <1>1. ASSUME NEW n \in Name, Lookup(p, n) PROVE IInv'
    BY <1>1 DEF Lookup
  <1>2. CASE CloseStop(p)
    BY <1>2 DEF CloseStop
  <1> QED
    BY <1>1, <1>2

\* IInv holds in every state.
THEOREM Invariance == Spec => []IInv
  <1>1. IInv /\ [Next]_vars => IInv'
    <2>1. IInv /\ Next => IInv'
      BY JobKeeps, StopKeeps DEF Next
    <2>2. IInv /\ UNCHANGED vars => IInv'
      BY DEF IInv, TypeOK, FoundInv, RunsInv, vars
    <2> QED
      BY <2>1, <2>2
  <1> QED
    BY InitEstablishes, <1>1, PTL DEF Spec

\* Every variable holds a value of its type.
THEOREM TypeCorrect == Spec => []TypeOK
  BY Invariance, PTL DEF IInv

\* A goroutine is gone only because its job was stopped or was a Timeout that
\* ran, and no Timeout runs twice, however Stop, the takeover of a name and the
\* timers race.
THEOREM Reasons == Spec => []GoneForAReason
  <1>1. IInv => GoneForAReason
    BY DEF IInv, RunsInv, GoneForAReason
  <1> QED
    BY <1>1, Invariance, PTL
================================================================================
