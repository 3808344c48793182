-------------------------------- MODULE Scheduler --------------------------------
(***************************************************************************)
(* The jobs of one Scheduler (internal/scheduler/scheduler.go): each call  *)
(* of Cron, Interval or Timeout starts a goroutine that selects between    *)
(* its timer and its handle's stop channel; Stop finds the handle that is  *)
(* registered under a name and closes that channel.                        *)
(***************************************************************************)
EXTENDS Naturals

CONSTANTS
  Job,          \* calls of Cron, Interval and Timeout, each with its handle
  Name,         \* job names
  Stopper,      \* calls of Stop
  NoJob

Kinds == {"cron", "interval", "timeout"}

ASSUME SchedulerAssumption == NoJob \notin Job

VARIABLES
  nameOf, kind, \* inputs: what each call was given
  jobs,         \* s.jobs: the handle under each name
  stopped,      \* handles whose stop channel is closed
  routine,      \* each job's goroutine: "new", "select", "running" or "gone"
  timer,        \* its timer: "off", "armed", or "fired" (a value is in C)
  runs,         \* how often the job ran, counted up to two
  stopper,      \* each call of Stop: "new", "found" or "returned"
  handle        \* the handle it found

vars == <<nameOf, kind, jobs, stopped, routine, timer, runs, stopper, handle>>

inputs == <<nameOf, kind>>

Init ==
  /\ nameOf \in [Job -> Name]
  /\ kind \in [Job -> Kinds]
  /\ jobs = [n \in Name |-> NoJob]
  /\ stopped = {}
  /\ routine = [j \in Job |-> "new"]
  /\ timer = [j \in Job |-> "off"]
  /\ runs = [j \in Job |-> 0]
  /\ stopper = [p \in Stopper |-> "new"]
  /\ handle = [p \in Stopper |-> NoJob]

--------------------------------------------------------------------------------
\* register, and the goroutine with its first timer.  A name that is in use is
\* taken over; the goroutine of the old job goes on.
Register(j) ==
  /\ routine[j] = "new"
  /\ jobs' = [jobs EXCEPT ![nameOf[j]] = j]
  /\ routine' = [routine EXCEPT ![j] = "select"]
  /\ timer' = [timer EXCEPT ![j] = "armed"]
  /\ UNCHANGED <<inputs, stopped, runs, stopper, handle>>

\* A Ticker ticks while the job runs, too; C holds one value.
TimerFires(j) ==
  /\ timer[j] = "armed"
  /\ timer' = [timer EXCEPT ![j] = "fired"]
  /\ UNCHANGED <<inputs, jobs, stopped, routine, runs, stopper, handle>>

\* The select takes the timer's case, whether or not stop is closed.
Run(j) ==
  /\ routine[j] = "select"
  /\ timer[j] = "fired"
  /\ routine' = [routine EXCEPT ![j] = "running"]
  /\ timer' = [timer EXCEPT ![j] = IF kind[j] = "interval" THEN "armed" ELSE "off"]
  /\ runs' = [runs EXCEPT ![j] = IF @ = 2 THEN 2 ELSE @ + 1]
  /\ UNCHANGED <<inputs, jobs, stopped, stopper, handle>>

\* Mutant of RunEnds: a Timeout is armed again.
RunEndsRearmed(j) ==
  /\ routine[j] = "running"
  /\ routine' = [routine EXCEPT ![j] = "select"]
  /\ timer' = [timer EXCEPT ![j] = "armed"]
  /\ UNCHANGED <<inputs, jobs, stopped, runs, stopper, handle>>

\* runIsolated: the function returned or panicked, which makes no difference.
\* Cron computes its next time, Timeout is over.
RunEnds(j) ==
  /\ routine[j] = "running"
  /\ routine' = [routine EXCEPT ![j] = IF kind[j] = "timeout" THEN "gone" ELSE "select"]
  /\ timer' = [timer EXCEPT ![j] = IF kind[j] = "cron" THEN "armed" ELSE @]
  /\ UNCHANGED <<inputs, jobs, stopped, runs, stopper, handle>>

\* Mutant of StopSeen: stop is looked at only when no timer runs.
StopSeenIdle(j) ==
  /\ routine[j] = "select"
  /\ timer[j] = "off"
  /\ j \in stopped
  /\ routine' = [routine EXCEPT ![j] = "gone"]
  /\ UNCHANGED <<inputs, jobs, stopped, timer, runs, stopper, handle>>

StopSeen(j) ==
  /\ routine[j] = "select"
  /\ j \in stopped
  /\ routine' = [routine EXCEPT ![j] = "gone"]
  /\ timer' = [timer EXCEPT ![j] = "off"]
  /\ UNCHANGED <<inputs, jobs, stopped, runs, stopper, handle>>

\* Stop: the lookup under the lock, then handle.Stop (once) outside it.
Lookup(p, n) ==
  /\ stopper[p] = "new"
  /\ handle' = [handle EXCEPT ![p] = jobs[n]]
  /\ stopper' = [stopper EXCEPT ![p] = IF jobs[n] = NoJob THEN "returned" ELSE "found"]
  /\ UNCHANGED <<inputs, jobs, stopped, routine, timer, runs>>

CloseStop(p) ==
  /\ stopper[p] = "found"
  /\ stopped' = stopped \cup {handle[p]}
  /\ stopper' = [stopper EXCEPT ![p] = "returned"]
  /\ UNCHANGED <<inputs, jobs, routine, timer, runs, handle>>

--------------------------------------------------------------------------------
Next ==
  \/ \E j \in Job : Register(j) \/ TimerFires(j) \/ Run(j) \/ RunEnds(j) \/ StopSeen(j)
  \/ \E p \in Stopper, n \in Name : Lookup(p, n)
  \/ \E p \in Stopper : CloseStop(p)

Spec == Init /\ [][Next]_vars

\* Timers fire, jobs return and goroutines run.  A select with both cases
\* ready picks at random: neither is passed over for ever.
Fairness ==
  /\ \A j \in Job :
       WF_vars(TimerFires(j)) /\ WF_vars(RunEnds(j)) /\ SF_vars(Run(j)) /\ SF_vars(StopSeen(j))
  /\ \A p \in Stopper : WF_vars(CloseStop(p))

FairSpec == Spec /\ Fairness

--------------------------------------------------------------------------------
\* Every variable holds a value of its type.
TypeOK ==
  /\ nameOf \in [Job -> Name]
  /\ kind \in [Job -> Kinds]
  /\ jobs \in [Name -> Job \cup {NoJob}]
  /\ stopped \subseteq Job
  /\ routine \in [Job -> {"new", "select", "running", "gone"}]
  /\ timer \in [Job -> {"off", "armed", "fired"}]
  /\ runs \in [Job -> 0..2]
  /\ stopper \in [Stopper -> {"new", "found", "returned"}]
  /\ handle \in [Stopper -> Job \cup {NoJob}]

\* A job is gone only because it was stopped or was a Timeout that ran, and a
\* Timeout runs at most once however Stop and its timer race.
GoneForAReason ==
  \A j \in Job :
    /\ routine[j] = "gone" => j \in stopped \/ (kind[j] = "timeout" /\ runs[j] = 1)
    /\ kind[j] = "timeout" => runs[j] <= 1

\* Stopping a job ends its goroutine; a Cron or Interval job nobody stops runs
\* again and again, whatever its executions do.
RunsUntilStopped ==
  \A j \in Job :
    /\ (j \in stopped) ~> (routine[j] = "gone")
    /\ (routine[j] # "new" /\ kind[j] # "timeout") ~> (routine[j] = "running" \/ j \in stopped)
================================================================================
