------------------------------ MODULE AppLifecycle ------------------------------
(***************************************************************************)
(* The life of an App after its providers are resolved: the two startup    *)
(* phases New runs, Listen, and the shutdown that Close and the signal     *)
(* goroutines of EnableShutdownHooks race for                              *)
(* (internal/app/lifecycle.go, SafeListen and New in internal/app/app.go,  *)
(* the hooks of internal/provider/lifecycle.go).                           *)
(*                                                                         *)
(* The HTTP engine behind the adapter is external: it is modelled by what  *)
(* HttpAdapter's contract lets Listen and Shutdown do.                     *)
(***************************************************************************)
EXTENDS Naturals, Sequences, SequencesExt

CONSTANTS
  Modules,      \* the assembled modules, root first (Assemble's order)
  Own,          \* the providers each module registered, in order
  Closers,      \* goroutines of the program that may call Close
  Watchers,     \* goroutines EnableShutdownHooks may start, one per call
  MaxSignals,   \* bound: signals the process receives
  Reentrant     \* providers whose teardown hooks may call app.Close

ASSUME LifecycleAssumption ==
  /\ Modules \in Seq(Range(Modules))
  /\ Own \in [Range(Modules) -> Seq(UNION {Range(Own[m]) : m \in DOMAIN Own})]
  /\ Closers \cap Watchers = {}
  /\ MaxSignals \in Nat

Callers == Closers \cup Watchers

VARIABLES
  boot,         \* New: the phase it is in, "up" or "failed"
  ran,          \* hooks run so far in the current phase (startup or teardown)
  enabled,      \* shutdownHooksEnabled
  engine,       \* the adapter: "idle", "running" or "stopped"
  listen,       \* the goroutine that called Listen
  listenRet,    \* what Listen returned
  signals,      \* signals received so far
  queued,       \* sigCh of each watcher holds a signal
  call,         \* each caller of a.shutdown
  once,         \* shutdownOnce: "fresh", "running" or "done"
  phase,        \* where runShutdownSequence is
  seqErr,       \* the value runShutdownSequence returns
  shutdownErr,  \* a.shutdownErr
  doneClosed,   \* a.shutdownDone is closed
  ret,          \* what each call of a.shutdown returned
  log           \* history: every hook run, as <<phase, provider>>

vars == <<boot, ran, enabled, engine, listen, listenRet, signals, queued, call,
          once, phase, seqErr, shutdownErr, doneClosed, ret, log>>

\* The order in which a phase visits the registered providers.
Walk(mods) == FlattenSeq([i \in DOMAIN mods |-> Own[mods[i]]])

StartupWalk == Walk(Reverse(Modules))
TeardownWalk == Walk(Modules)

TeardownPhases == {"destroy", "before", "final"}

NextTeardown(p) == CASE p = "destroy" -> "before"
                     [] p = "before"  -> "final"
                     [] p = "final"   -> "end"

Init ==
  /\ boot = "init"
  /\ ran = 0
  /\ enabled = FALSE
  /\ engine = "idle"
  /\ listen = "no"
  /\ listenRet = "none"
  /\ signals = 0
  /\ queued = [w \in Watchers |-> FALSE]
  /\ call = [c \in Callers |-> "no"]
  /\ once = "fresh"
  /\ phase = "none"
  /\ seqErr = "none"
  /\ shutdownErr = "nil"
  /\ doneClosed = FALSE
  /\ ret = [c \in Callers |-> "none"]
  /\ log = <<>>

--------------------------------------------------------------------------------
(* New: OnModuleInit of every provider, then OnApplicationBootstrap.       *)
startupVars == <<boot, ran, log>>
shutdownVars == <<engine, listen, listenRet, signals, queued, call, once, phase,
                  seqErr, shutdownErr, doneClosed, ret>>

StartupHook(ok) ==
  /\ boot \in {"init", "bootstrap"}
  /\ ran < Len(StartupWalk)
  /\ log' = Append(log, <<boot, StartupWalk[ran + 1]>>)
  /\ IF ok THEN ran' = ran + 1 /\ UNCHANGED boot
           ELSE boot' = "failed" /\ UNCHANGED ran
  /\ UNCHANGED <<enabled, shutdownVars>>

StartupPhaseEnds ==
  /\ boot \in {"init", "bootstrap"}
  /\ ran = Len(StartupWalk)
  /\ boot' = IF boot = "init" THEN "bootstrap" ELSE "up"
  /\ ran' = 0
  /\ UNCHANGED <<enabled, shutdownVars, log>>

--------------------------------------------------------------------------------
(* The main goroutine: EnableShutdownHooks, then Listen.                   *)
EnableShutdownHooks(w) ==
  /\ boot = "up"
  /\ listen = "no"
  /\ call[w] = "no"
  /\ enabled' = TRUE
  /\ call' = [call EXCEPT ![w] = "watching"]
  /\ UNCHANGED <<startupVars, engine, listen, listenRet, signals, queued, once,
                 phase, seqErr, shutdownErr, doneClosed, ret>>

ListenStart ==
  /\ boot = "up"
  /\ listen = "no"
  /\ listen' = "binding"
  /\ UNCHANGED <<startupVars, enabled, engine, listenRet, signals, queued, call,
                 once, phase, seqErr, shutdownErr, doneClosed, ret>>

\* adapter.Listen: the address is bound and the accept loop runs ...
Bind ==
  /\ listen = "binding"
  /\ listen' = "serving"
  /\ engine' = "running"
  /\ UNCHANGED <<startupVars, enabled, listenRet, signals, queued, call, once,
                 phase, seqErr, shutdownErr, doneClosed, ret>>

\* ... or it fails and Listen returns the adapter's error at once.
BindFails ==
  /\ listen = "binding"
  /\ listen' = "returned"
  /\ listenRet' = "bind"
  /\ UNCHANGED <<startupVars, enabled, engine, signals, queued, call, once, phase,
                 seqErr, shutdownErr, doneClosed, ret>>

\* adapter.Listen returned nil: with hooks enabled, Listen goes on to wait.
EngineReturns ==
  /\ listen = "serving"
  /\ engine = "stopped"
  /\ IF enabled
     THEN listen' = "waiting" /\ UNCHANGED listenRet
     ELSE listen' = "returned" /\ listenRet' = "nil"
  /\ UNCHANGED <<startupVars, enabled, engine, signals, queued, call, once, phase,
                 seqErr, shutdownErr, doneClosed, ret>>

ListenDone ==
  /\ listen = "waiting"
  /\ doneClosed
  /\ listen' = "returned"
  /\ listenRet' = shutdownErr
  /\ UNCHANGED <<startupVars, enabled, engine, signals, queued, call, once, phase,
                 seqErr, shutdownErr, doneClosed, ret>>

--------------------------------------------------------------------------------
(* Who asks for a shutdown.                                                *)

\* os/signal delivers to every channel registered with Notify, without
\* blocking; sigCh has room for one.
Signal ==
  /\ enabled
  /\ signals < MaxSignals
  /\ signals' = signals + 1
  /\ queued' = [w \in Watchers |-> queued[w] \/ call[w] # "no"]
  /\ UNCHANGED <<startupVars, enabled, engine, listen, listenRet, call, once,
                 phase, seqErr, shutdownErr, doneClosed, ret>>

SignalReceived(w) ==
  /\ call[w] = "watching"
  /\ queued[w]
  /\ queued' = [queued EXCEPT ![w] = FALSE]
  /\ call' = [call EXCEPT ![w] = "calling"]
  /\ UNCHANGED <<startupVars, enabled, engine, listen, listenRet, signals, once,
                 phase, seqErr, shutdownErr, doneClosed, ret>>

Close(c) ==
  /\ boot = "up"
  /\ call[c] = "no"
  /\ call' = [call EXCEPT ![c] = "calling"]
  /\ UNCHANGED <<startupVars, enabled, engine, listen, listenRet, signals, queued,
                 once, phase, seqErr, shutdownErr, doneClosed, ret>>

\* shutdownOnce.Do: the first caller runs the sequence, later ones block until
\* it has returned.
OnceFirst(c) ==
  /\ call[c] = "calling"
  /\ once = "fresh"
  /\ once' = "running"
  /\ call' = [call EXCEPT ![c] = "running"]
  /\ phase' = "drain"
  /\ UNCHANGED <<startupVars, enabled, engine, listen, listenRet, signals, queued,
                 seqErr, shutdownErr, doneClosed, ret>>

\* Mutant of OnceLater: later callers do not wait for the first.
OnceLaterAtOnce(c) ==
  /\ call[c] = "calling"
  /\ once # "fresh"
  /\ call' = [call EXCEPT ![c] = "returned"]
  /\ ret' = [ret EXCEPT ![c] = shutdownErr]
  /\ UNCHANGED <<startupVars, enabled, engine, listen, listenRet, signals, queued,
                 once, phase, seqErr, shutdownErr, doneClosed>>

OnceLater(c) ==
  /\ call[c] = "calling"
  /\ once = "done"
  /\ call' = [call EXCEPT ![c] = "returned"]
  /\ ret' = [ret EXCEPT ![c] = shutdownErr]
  /\ UNCHANGED <<startupVars, enabled, engine, listen, listenRet, signals, queued,
                 once, phase, seqErr, shutdownErr, doneClosed>>

--------------------------------------------------------------------------------
(* runShutdownSequence, run by the one caller inside Do.                   *)
EndSequence(e) == phase' = "end" /\ seqErr' = e

\* adapter.Shutdown closes the listener first, which lets adapter.Listen return ...
StopAccepting ==
  /\ phase = "drain"
  /\ phase' = "draining"
  /\ engine' = IF engine = "running" THEN "stopped" ELSE engine
  /\ UNCHANGED <<startupVars, enabled, listen, listenRet, signals, queued, call,
                 once, seqErr, shutdownErr, doneClosed, ret>>

\* ... and returns when the connections have drained.  A drain that hits the
\* context's deadline is an error, and an engine that was not running may
\* report one.  Only a clean drain goes on to the hooks.
DrainReturns(ok) ==
  /\ phase = "draining"
  /\ ran' = 0
  /\ IF ok /\ enabled
     THEN phase' = "destroy" /\ UNCHANGED seqErr
     ELSE EndSequence(IF ok THEN "nil" ELSE "drain")
  /\ UNCHANGED <<boot, log, engine, enabled, listen, listenRet, signals, queued,
                 call, once, shutdownErr, doneClosed, ret>>

\* One provider's hook; its error, or its panic, ends the whole sequence.
TeardownHook(ok) ==
  /\ phase \in TeardownPhases
  /\ ran < Len(TeardownWalk)
  /\ log' = Append(log, <<phase, TeardownWalk[ran + 1]>>)
  /\ IF ok THEN ran' = ran + 1 /\ UNCHANGED <<phase, seqErr>>
           ELSE EndSequence("hook") /\ UNCHANGED ran
  /\ UNCHANGED <<boot, enabled, engine, listen, listenRet, signals, queued, call,
                 once, shutdownErr, doneClosed, ret>>

\* A hook that calls app.Close enters shutdownOnce.Do again from inside Do:
\* the hook never returns.
TeardownHookCloses ==
  /\ phase \in TeardownPhases
  /\ ran < Len(TeardownWalk)
  /\ TeardownWalk[ran + 1] \in Reentrant
  /\ phase' = "stuck"
  /\ log' = Append(log, <<phase, TeardownWalk[ran + 1]>>)
  /\ UNCHANGED <<boot, ran, enabled, engine, listen, listenRet, signals, queued,
                 call, once, seqErr, shutdownErr, doneClosed, ret>>

\* Mutant of TeardownPhaseEnds: the next phase goes on where this one ended.
TeardownPhaseEndsAtEnd ==
  /\ phase \in TeardownPhases
  /\ ran = Len(TeardownWalk)
  /\ phase' = NextTeardown(phase)
  /\ seqErr' = IF phase = "final" THEN "nil" ELSE seqErr
  /\ UNCHANGED <<boot, ran, log, enabled, engine, listen, listenRet, signals, queued,
                 call, once, shutdownErr, doneClosed, ret>>

TeardownPhaseEnds ==
  /\ phase \in TeardownPhases
  /\ ran = Len(TeardownWalk)
  /\ ran' = 0
  /\ phase' = NextTeardown(phase)
  /\ seqErr' = IF phase = "final" THEN "nil" ELSE seqErr
  /\ UNCHANGED <<boot, log, enabled, engine, listen, listenRet, signals, queued,
                 call, once, shutdownErr, doneClosed, ret>>

\* shutdown's closure, after runShutdownSequence returned: assign the error,
\* then close the channel, then leave Do.
AssignError ==
  /\ phase = "end"
  /\ shutdownErr' = seqErr
  /\ phase' = "assigned"
  /\ UNCHANGED <<startupVars, enabled, engine, listen, listenRet, signals, queued,
                 call, once, seqErr, doneClosed, ret>>

\* Mutant of CloseDone: shutdownDone is never closed.
CloseDoneForgotten ==
  /\ phase = "assigned"
  /\ phase' = "closed"
  /\ UNCHANGED <<startupVars, enabled, engine, listen, listenRet, signals, queued,
                 call, once, seqErr, shutdownErr, doneClosed, ret>>

CloseDone ==
  /\ phase = "assigned"
  /\ doneClosed' = TRUE
  /\ phase' = "closed"
  /\ UNCHANGED <<startupVars, enabled, engine, listen, listenRet, signals, queued,
                 call, once, seqErr, shutdownErr, ret>>

\* Mutant of OnceReturns: later callers are never let go.
OnceReturnsLocked(c) ==
  /\ phase = "closed"
  /\ call[c] = "running"
  /\ call' = [call EXCEPT ![c] = "returned"]
  /\ ret' = [ret EXCEPT ![c] = shutdownErr]
  /\ UNCHANGED <<startupVars, enabled, engine, listen, listenRet, signals, queued,
                 once, phase, seqErr, shutdownErr, doneClosed>>

OnceReturns(c) ==
  /\ phase = "closed"
  /\ call[c] = "running"
  /\ once' = "done"
  /\ call' = [call EXCEPT ![c] = "returned"]
  /\ ret' = [ret EXCEPT ![c] = shutdownErr]
  /\ UNCHANGED <<startupVars, enabled, engine, listen, listenRet, signals, queued,
                 phase, seqErr, shutdownErr, doneClosed>>

--------------------------------------------------------------------------------
StartupStep == StartupPhaseEnds \/ \E ok \in BOOLEAN : StartupHook(ok)

ListenStep == Bind \/ BindFails \/ EngineReturns \/ ListenDone

CallerStep(c) == OnceFirst(c) \/ OnceLater(c) \/ OnceReturns(c)

SequenceStep ==
  \/ StopAccepting
  \/ \E ok \in BOOLEAN : DrainReturns(ok) \/ TeardownHook(ok)
  \/ TeardownHookCloses \/ TeardownPhaseEnds \/ AssignError \/ CloseDone

Next ==
  \/ StartupStep
  \/ ListenStart \/ ListenStep
  \/ Signal
  \/ \E w \in Watchers : EnableShutdownHooks(w) \/ SignalReceived(w)
  \/ \E c \in Closers : Close(c)
  \/ \E c \in Callers : CallerStep(c)
  \/ SequenceStep

Spec == Init /\ [][Next]_vars

\* Goroutines that can run do, and hooks return; nobody has to call Listen,
\* EnableShutdownHooks or Close, and no signal has to come.
Fairness ==
  /\ WF_vars(StartupStep)
  /\ WF_vars(ListenStep)
  /\ \A w \in Watchers : WF_vars(SignalReceived(w))
  /\ \A c \in Callers : WF_vars(CallerStep(c))
  /\ WF_vars(SequenceStep)

FairSpec == Spec /\ Fairness

--------------------------------------------------------------------------------
Errors == {"none", "nil", "drain", "hook", "bind"}

\* Every variable holds a value of its type.
TypeOK ==
  /\ boot \in {"init", "bootstrap", "up", "failed"}
  /\ ran \in Nat
  /\ enabled \in BOOLEAN
  /\ engine \in {"idle", "running", "stopped"}
  /\ listen \in {"no", "binding", "serving", "waiting", "returned"}
  /\ listenRet \in Errors
  /\ signals \in 0..MaxSignals
  /\ queued \in [Watchers -> BOOLEAN]
  /\ call \in [Callers -> {"no", "watching", "calling", "running", "returned"}]
  /\ once \in {"fresh", "running", "done"}
  /\ phase \in {"none", "drain", "draining", "end", "assigned", "closed", "stuck"} \cup TeardownPhases
  /\ seqErr \in Errors
  /\ shutdownErr \in Errors
  /\ doneClosed \in BOOLEAN
  /\ ret \in [Callers -> Errors]

--------------------------------------------------------------------------------
(* Safety.                                                                 *)

Tag(p, walk) == [i \in DOMAIN walk |-> <<p, walk[i]>>]

WholeLife ==
  Tag("init", StartupWalk) \o Tag("bootstrap", StartupWalk) \o
  Tag("destroy", TeardownWalk) \o Tag("before", TeardownWalk) \o
  Tag("final", TeardownWalk)

\* Over the whole life of an App its hooks run in one fixed order: init and
\* bootstrap leaf-first, then destroy, before and final root-first, each at
\* most once per registration, stopping at the first that fails; and whoever
\* is told the shutdown succeeded with hooks enabled knows that all have run.
HooksInOrder ==
  /\ IsPrefix(log, WholeLife)
  /\ boot = "up" => Len(log) >= 2 * Len(StartupWalk)
  /\ (doneClosed /\ shutdownErr = "nil" /\ Len(log) > 2 * Len(StartupWalk)) =>
        log = WholeLife

\* Every caller of Close, every watcher and Listen report the outcome of the
\* one shutdown sequence, and none of them before it is over (sync.Once, and
\* shutdownDone closed after shutdownErr is assigned).
OneOutcome ==
  /\ \A c \in Callers : ret[c] # "none" => phase = "closed" /\ ret[c] = seqErr
  /\ listenRet \notin {"none", "bind"} => listenRet = seqErr \/ ~ enabled
  /\ (listen = "returned" /\ enabled /\ listenRet # "bind") => doneClosed

\* At most one goroutine is ever inside the sequence, and no call of Close
\* returns while it runs.
OneRunner ==
  /\ \A c, d \in Callers : call[c] = "running" /\ call[d] = "running" => c = d
  /\ once = "running" <=> \E c \in Callers : call[c] = "running"
  /\ (\E c \in Callers : call[c] = "returned") => once = "done"

--------------------------------------------------------------------------------
(* The inductive invariant: where the sequence is decides what sync.Once,  *)
(* shutdownDone and the two error variables say.                           *)
OnceInv ==
  /\ once = "fresh" <=> phase = "none"
  /\ once = "done" => phase = "closed"
  /\ doneClosed <=> phase = "closed"

SequenceInv ==
  /\ phase \in {"end", "assigned", "closed"} => seqErr # "none"
  /\ phase \in {"assigned", "closed"} => shutdownErr = seqErr

CallerInv ==
  \A c \in Callers : IF call[c] = "returned" THEN ret[c] = seqErr ELSE ret[c] = "none"

ListenInv ==
  /\ listen = "waiting" => enabled
  /\ (listen = "returned" /\ listenRet # "bind") =>
        IF enabled THEN doneClosed /\ listenRet = seqErr ELSE listenRet = "nil"
  /\ listen # "returned" => listenRet = "none"

\* The whole of it, with the types: what every step of Close, Listen, the
\* watchers and the sequence preserves.
IInv ==
  TypeOK /\ OneRunner /\ OnceInv /\ SequenceInv /\ CallerInv /\ ListenInv

\* How much of WholeLife lies behind an App when a phase begins.
Before ==
  LET up == 2 * Len(StartupWalk)
      down == Len(TeardownWalk)
  IN  [init |-> 0, bootstrap |-> Len(StartupWalk),
       destroy |-> up, before |-> up + down, final |-> up + 2 * down]

\* What log says is decided by where New and the sequence are.
LogInv ==
  /\ log \in Prefixes(WholeLife)
  /\ boot \in {"init", "bootstrap"} =>
        ran <= Len(StartupWalk) /\ Len(log) = Before[boot] + ran
  /\ phase \in TeardownPhases =>
        ran <= Len(TeardownWalk) /\ Len(log) = Before[phase] + ran
  /\ (boot = "up" /\ phase \in {"none", "drain", "draining"}) =>
        Len(log) = Before["destroy"]
  /\ boot = "up" => Len(log) >= Before["destroy"]

\* Nobody asks an App to shut down that New has not returned, and the sequence
\* ends well after all of it, or where no hooks were enabled.
AskedInv ==
  /\ (phase # "none" \/ \E c \in Callers : call[c] # "no") => boot = "up"
  /\ seqErr = "nil" => /\ phase \in {"end", "assigned", "closed"}
                       /\ Len(log) \in {Before["destroy"], Len(WholeLife)}

--------------------------------------------------------------------------------
(* Liveness.                                                               *)

\* When the App is serving with hooks enabled and a shutdown has not begun,
\* a signal makes Listen return, unless a teardown hook waits for itself.
SignalEndsListen ==
  (engine = "running" /\ once = "fresh" /\ \E w \in Watchers : queued[w])
    ~> (listen = "returned" \/ phase = "stuck")

\* Every call of Close returns, whichever caller runs the sequence and
\* wherever it fails, unless a teardown hook called Close itself.
CloseReturns ==
  \A c \in Closers : (call[c] = "calling") ~> (call[c] = "returned" \/ phase = "stuck")
================================================================================
