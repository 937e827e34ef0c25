--------------------------- MODULE WorkerProcess ---------------------------
(***************************************************************************)
(* The graceful shutdown of a process that called background.work():       *)
(* src/background/index.ts, work, shutdownAndExit,                         *)
(* shutdownAndExitAfterFatalError, shutdownWithTimeout, shutdown and       *)
(* closeAllRedisConnections.                                               *)
(*                                                                         *)
(* Every SIGTERM, SIGINT, uncaughtException and unhandledRejection is one  *)
(* delivery of an event to the process.  A delivery may begin a shutdown   *)
(* flow of its own: nothing joins flows, so several may be in progress.  A *)
(* flow is a sequence of awaits, numbered here from 1:                     *)
(*                                                                         *)
(*   1 .. NumHooks     the workers:shutdown hooks of the application       *)
(*   DbStep            closeAllDbConnections()                             *)
(*   WorkerStep(w)     worker.close() of the w-th worker                   *)
(*   QuitStep(c)       connection.quit() of the c-th redis connection      *)
(*   EndStep           shutdown() has resolved                             *)
(*                                                                         *)
(* The initial state is the one work() leaves behind: handlers registered, *)
(* workers started, connections open.                                      *)
(***************************************************************************)
EXTENDS Integers

CONSTANTS
  Deliveries,      \* the events that may reach the process in a behaviour
  NumHooks,        \* workers:shutdown hooks of the application
  NumWorkers,      \* workers created by work()
  NumConnections,  \* entries of redisConnections
  Concurrency      \* jobs a worker may process at once

ASSUME CountsAssumption ==
  /\ NumHooks \in Nat
  /\ NumWorkers \in Nat
  /\ NumConnections \in Nat
  /\ Concurrency \in Nat

VARIABLES
  exitCode,                 \* "none" until process.exit
  fatalErrorShutdownBegun,  \* the flag of the same name
  cause,                    \* what a delivery was, "none" before it arrives
  step,                     \* the await a delivery's flow is at, 0: no flow
  failure,                  \* how the flow's shutdownWithTimeout rejected
  db,                       \* the application's database connections
  worker,                   \* the life of each worker
  active,                   \* jobs in flight on each worker
  connection                \* whether quit() was called on each connection

vars == <<exitCode, fatalErrorShutdownBegun, cause, step, failure, db,
          worker, active, connection>>

Workers     == 1 .. NumWorkers
Connections == 1 .. NumConnections
Hooks       == 1 .. NumHooks

DbStep        == NumHooks + 1
WorkerStep(w) == DbStep + w
QuitStep(c)   == DbStep + NumWorkers + c
EndStep       == DbStep + NumWorkers + NumConnections + 1

(* worker.close() has settled: it resolved, or it rejected and was caught. *)
Settled == {"closed", "closeFailed"}

TypeOK ==
  /\ exitCode \in {"none", "0", "1"}
  /\ fatalErrorShutdownBegun \in BOOLEAN
  /\ cause \in [Deliveries -> {"none", "signal", "fatal"}]
  /\ step \in [Deliveries -> 0 .. EndStep]
  /\ failure \in [Deliveries -> {"none", "rejected", "timedOut"}]
  /\ db \in {"open", "closed"}
  /\ worker \in [Workers -> {"running", "closing"} \cup Settled]
  /\ active \in [Workers -> 0 .. Concurrency]
  /\ connection \in [Connections -> {"open", "quit"}]

Init ==
  /\ exitCode = "none"
  /\ fatalErrorShutdownBegun = FALSE
  /\ cause = [d \in Deliveries |-> "none"]
  /\ step = [d \in Deliveries |-> 0]
  /\ failure = [d \in Deliveries |-> "none"]
  /\ db = "open"
  /\ worker = [w \in Workers |-> "running"]
  /\ active = [w \in Workers |-> 0]
  /\ connection = [c \in Connections |-> "open"]

Begun(d)    == step[d] # 0
Resolved(d) == step[d] = EndStep
Rejected(d) == failure[d] # "none"
Done(d)     == Resolved(d) \/ Rejected(d)

(***************************************************************************)
(* The event loop delivers something only while the process is up.  Once a *)
(* flow is done, its continuation reaches process.exit in the same run of  *)
(* the microtask queue, so no signal, error, timer or job comes between.   *)
(***************************************************************************)
Responsive == exitCode = "none" /\ \A d \in Deliveries : ~Done(d)

-----------------------------------------------------------------------------
(* The signal and error handlers registered by work(). *)

BeginShutdown(d, why) ==
  /\ cause' = [cause EXCEPT ![d] = why]
  /\ step' = [step EXCEPT ![d] = 1]
  /\ UNCHANGED <<exitCode, failure, db, worker, active, connection>>

(* SIGTERM or SIGINT: always a new flow, whatever is already in progress. *)
Signal(d) ==
  /\ Responsive
  /\ cause[d] = "none"
  /\ BeginShutdown(d, "signal")
  /\ UNCHANGED fatalErrorShutdownBegun

(* Mutant: the flag is never set. *)
FirstFatalErrorForgotten(d) ==
  /\ Responsive
  /\ cause[d] = "none"
  /\ ~fatalErrorShutdownBegun
  /\ BeginShutdown(d, "fatal")
  /\ UNCHANGED fatalErrorShutdownBegun

(* The first uncaught error begins cleanup ... *)
FirstFatalError(d) ==
  /\ Responsive
  /\ cause[d] = "none"
  /\ ~fatalErrorShutdownBegun
  /\ fatalErrorShutdownBegun' = TRUE
  /\ BeginShutdown(d, "fatal")

(* Mutant: exits 0 as shutdownAndExit would. *)
FurtherFatalErrorExitsZero(d) ==
  /\ Responsive
  /\ cause[d] = "none"
  /\ fatalErrorShutdownBegun
  /\ cause' = [cause EXCEPT ![d] = "fatal"]
  /\ exitCode' = "0"
  /\ UNCHANGED <<fatalErrorShutdownBegun, step, failure, db, worker, active,
                 connection>>

(* ... and any further one skips it. *)
FurtherFatalError(d) ==
  /\ Responsive
  /\ cause[d] = "none"
  /\ fatalErrorShutdownBegun
  /\ cause' = [cause EXCEPT ![d] = "fatal"]
  /\ exitCode' = "1"
  /\ UNCHANGED <<fatalErrorShutdownBegun, step, failure, db, worker, active,
                 connection>>

-----------------------------------------------------------------------------
(* A flow: shutdown() and closeAllRedisConnections(). *)

(* The flow goes on to its next await, which calls what it waits for.      *)
(* close() of a worker that is closing already returns the same promise.   *)
Advance(d) ==
  LET next == step[d] + 1 IN
  /\ step' = [step EXCEPT ![d] = next]
  /\ worker' = [w \in Workers |->
       IF next = WorkerStep(w) /\ worker[w] = "running" THEN "closing" ELSE worker[w]]
  /\ connection' = [c \in Connections |->
       IF next = QuitStep(c) THEN "quit" ELSE connection[c]]
  /\ UNCHANGED <<exitCode, fatalErrorShutdownBegun, cause, failure, active>>

Fail(d, how) ==
  /\ failure' = [failure EXCEPT ![d] = how]
  /\ UNCHANGED <<exitCode, fatalErrorShutdownBegun, cause, step, db, worker,
                 active, connection>>

HookResolves(d) ==
  /\ Responsive
  /\ step[d] \in Hooks
  /\ Advance(d)
  /\ UNCHANGED db

(* A hook that throws or rejects leaves the rest of shutdown() undone. *)
HookRejects(d) ==
  /\ Responsive
  /\ step[d] \in Hooks
  /\ Fail(d, "rejected")

DbCloses(d) ==
  /\ Responsive
  /\ step[d] = DbStep
  /\ db' = "closed"
  /\ Advance(d)

DbRejects(d) ==
  /\ Responsive
  /\ step[d] = DbStep
  /\ Fail(d, "rejected")

(* Mutant: worker.close() without await. *)
WorkerSettlesUnawaited(d) ==
  /\ Responsive
  /\ \E w \in Workers : step[d] = WorkerStep(w)
  /\ Advance(d)
  /\ UNCHANGED db

(* Mutant: no try/catch around worker.close(). *)
WorkerSettlesUncaught(d) ==
  /\ Responsive
  /\ \E w \in Workers :
       /\ step[d] = WorkerStep(w)
       /\ \/ worker[w] = "closed" /\ Advance(d) /\ UNCHANGED db
          \/ worker[w] = "closeFailed" /\ Fail(d, "rejected")

(* The await of worker.close() ends; a rejection is caught and logged. *)
WorkerSettles(d) ==
  /\ Responsive
  /\ \E w \in Workers : step[d] = WorkerStep(w) /\ worker[w] \in Settled
  /\ Advance(d)
  /\ UNCHANGED db

(* The await of connection.quit() ends; a rejection is caught and logged. *)
QuitSettles(d) ==
  /\ Responsive
  /\ \E c \in Connections : step[d] = QuitStep(c)
  /\ Advance(d)
  /\ UNCHANGED db

(* Mutant: only the hooks run under the timeout. *)
HooksTimeOut(d) ==
  /\ Responsive
  /\ step[d] \in Hooks
  /\ Fail(d, "timedOut")

(***************************************************************************)
(* The timer of shutdownWithTimeout wins the race.  Flows in progress have *)
(* timers of the same length, so the oldest flow's fires first; which one  *)
(* does makes no difference to the exit code and is left open.             *)
(***************************************************************************)
TimesOut(d) ==
  /\ Responsive
  /\ Begun(d)
  /\ Fail(d, "timedOut")

(* Mutant: the catch block leaves exitCode 0. *)
ExitStatusErrorsIgnored(d) == IF cause[d] = "signal" THEN "0" ELSE "1"

(* Mutant: one handler for signals and errors. *)
ExitStatusOfAnyCause(d) == IF Resolved(d) THEN "0" ELSE "1"

(* shutdownAndExit exits 0 unless shutdown rejected or timed out;          *)
(* shutdownAndExitAfterFatalError always exits 1.                          *)
ExitStatus(d) == IF cause[d] = "signal" /\ Resolved(d) THEN "0" ELSE "1"

Exit(d) ==
  /\ exitCode = "none"
  /\ Done(d)
  /\ exitCode' = ExitStatus(d)
  /\ UNCHANGED <<fatalErrorShutdownBegun, cause, step, failure, db, worker,
                 active, connection>>

-----------------------------------------------------------------------------
(* BullMQ, as work() and closeAllRedisConnections() use it. *)

(* Mutant: one job more than concurrency allows. *)
TakeJobBeyondConcurrency(w) ==
  /\ Responsive
  /\ worker[w] = "running"
  /\ active[w] <= Concurrency
  /\ active' = [active EXCEPT ![w] = @ + 1]
  /\ UNCHANGED <<exitCode, fatalErrorShutdownBegun, cause, step, failure, db,
                 worker, connection>>

(* Only a worker that was not told to close fetches jobs. *)
TakeJob(w) ==
  /\ Responsive
  /\ worker[w] = "running"
  /\ active[w] < Concurrency
  /\ active' = [active EXCEPT ![w] = @ + 1]
  /\ UNCHANGED <<exitCode, fatalErrorShutdownBegun, cause, step, failure, db,
                 worker, connection>>

(* doWork completes or throws: the job leaves the worker either way. *)
FinishJob(w) ==
  /\ Responsive
  /\ active[w] > 0
  /\ active' = [active EXCEPT ![w] = @ - 1]
  /\ UNCHANGED <<exitCode, fatalErrorShutdownBegun, cause, step, failure, db,
                 worker, connection>>

SettleClose(w, how) ==
  /\ worker' = [worker EXCEPT ![w] = how]
  /\ UNCHANGED <<exitCode, fatalErrorShutdownBegun, cause, step, failure, db,
                 active, connection>>

(* worker.close() resolves when the jobs in flight are finished. *)
WorkerDrains(w) ==
  /\ Responsive
  /\ worker[w] = "closing"
  /\ active[w] = 0
  /\ SettleClose(w, "closed")

WorkerCloseRejects(w) ==
  /\ Responsive
  /\ worker[w] = "closing"
  /\ SettleClose(w, "closeFailed")

-----------------------------------------------------------------------------
Deliver(d) == Signal(d) \/ FirstFatalError(d) \/ FurtherFatalError(d)

Shutdown(d) ==
  \/ HookResolves(d) \/ HookRejects(d)
  \/ DbCloses(d) \/ DbRejects(d)
  \/ WorkerSettles(d)
  \/ QuitSettles(d)

BullMQ(w) ==
  \/ TakeJob(w) \/ FinishJob(w)
  \/ WorkerDrains(w) \/ WorkerCloseRejects(w)

Next ==
  \/ \E d \in Deliveries : Deliver(d) \/ Shutdown(d) \/ TimesOut(d) \/ Exit(d)
  \/ \E w \in Workers : BullMQ(w)

Spec == Init /\ [][Next]_vars

(***************************************************************************)
(* Nothing is assumed of hooks, databases, jobs, workers or redis: each    *)
(* may hang.  What the runtime guarantees is that a timer fires and that a *)
(* settled promise's continuation runs.                                    *)
(***************************************************************************)
Fairness ==
  /\ WF_vars(\E d \in Deliveries : TimesOut(d))
  /\ WF_vars(\E d \in Deliveries : Exit(d))

FairSpec == Spec /\ Fairness

-----------------------------------------------------------------------------
(***************************************************************************)
(* Teardown happens in one order, however many flows interleave: no worker *)
(* is told to close while the database is open, no redis connection is     *)
(* quit while some worker's close() is outstanding (its jobs could then    *)
(* not be reported), and only a process with a flow in progress or done    *)
(* has begun any of it (shutdown, closeAllRedisConnections).               *)
(***************************************************************************)
TeardownOrder ==
  /\ (\E w \in Workers : worker[w] # "running") => db = "closed"
  /\ (\E c \in Connections : connection[c] # "open")
       => \A w \in Workers : worker[w] \in Settled
  /\ db = "closed" => \E d \in Deliveries : Begun(d)

(***************************************************************************)
(* Exit code 0 means a complete shutdown: database closed, quit() called   *)
(* on every connection, close() settled on every worker, and no job in     *)
(* flight except on a worker whose close() failed (CHANGELOG 2.4.0: "clean *)
(* shutdown still exits 0", and one failing close does not abort the rest).*)
(***************************************************************************)
CleanExitDrains ==
  exitCode = "0" =>
    /\ db = "closed"
    /\ \A c \in Connections : connection[c] = "quit"
    /\ \A w \in Workers : \/ worker[w] = "closed" /\ active[w] = 0
                          \/ worker[w] = "closeFailed"

(***************************************************************************)
(* What an orchestrator may conclude from the code: 0, some signal's       *)
(* shutdown ran to its end; 1, an error nobody caught was delivered, or    *)
(* some shutdown failed.  A process with neither does not exit             *)
(* (shutdownAndExit, shutdownAndExitAfterFatalError).                      *)
(***************************************************************************)
ExitCodeMeaning ==
  /\ exitCode = "0" => \E d \in Deliveries : cause[d] = "signal" /\ Resolved(d)
  /\ exitCode = "1" => \E d \in Deliveries : cause[d] = "fatal" \/ Rejected(d)

(***************************************************************************)
(* A shutdown rejects, other than by running out of time, only while the   *)
(* flow is at a hook or at the database.  In particular a rejecting        *)
(* worker.close() or quit() never aborts what follows it (the try/catch of *)
(* closeAllRedisConnections; CHANGELOG 2.4.0, third entry).                *)
(***************************************************************************)
RejectsBeforeWorkers ==
  \A d \in Deliveries : failure[d] = "rejected" =>
    \/ step[d] \in Hooks
    \/ step[d] = DbStep

(***************************************************************************)
(* However errors and signals overlap, at most one uncaught error runs the *)
(* cleanup, so hooks run once per signal and once for all the errors       *)
(* together (fatalErrorShutdownBegun).                                     *)
(***************************************************************************)
FatalCleanupOnce ==
  \A d, e \in Deliveries :
    cause[d] = "fatal" /\ cause[e] = "fatal" /\ Begun(d) /\ Begun(e) => d = e

(***************************************************************************)
(* Once a signal or an uncaught error was delivered the process exits,     *)
(* though a hook, a database close, a job, a worker close or a quit may    *)
(* hang for ever (SHUTDOWN_TIMEOUT_MS).                                    *)
(***************************************************************************)
ShutdownTerminates ==
  (\E d \in Deliveries : cause[d] # "none") ~> (exitCode # "none")

(***************************************************************************)
(* "attempt best-effort graceful cleanup, then exit nonzero so             *)
(* orchestrators know to restart the process": after an uncaught error the *)
(* exit code is never 0 (comment of shutdownAndExitAfterFatalError,        *)
(* CHANGELOG 2.4.0, first entry).                                          *)
(***************************************************************************)
FatalExitsNonZero ==
  exitCode = "0" => \A d \in Deliveries : cause[d] # "fatal"

(***************************************************************************)
(* The inductive strengthening the proofs use.  FlowPosition ties the step *)
(* of a flow to what was done on the way to it; the rest records what      *)
(* happened once and cannot be undone.                                     *)
(***************************************************************************)
FlowPosition(d) ==
  /\ cause[d] = "none" => step[d] = 0
  /\ step[d] = 0 => failure[d] = "none"
  /\ step[d] > DbStep => db = "closed"
  /\ \A w \in Workers :
       /\ step[d] >= WorkerStep(w) => worker[w] # "running"
       /\ step[d] > WorkerStep(w) => worker[w] \in Settled
  /\ \A c \in Connections : step[d] >= QuitStep(c) => connection[c] = "quit"

FatalRecorded ==
  /\ \A d \in Deliveries : cause[d] = "fatal" /\ Begun(d) => fatalErrorShutdownBegun
  /\ fatalErrorShutdownBegun => \E d \in Deliveries : cause[d] = "fatal"

ClosedIsDrained == \A w \in Workers : worker[w] = "closed" => active[w] = 0

IInv ==
  /\ TypeOK
  /\ \A d \in Deliveries : FlowPosition(d)
  /\ FatalRecorded
  /\ ClosedIsDrained
  /\ TeardownOrder
  /\ ExitCodeMeaning
  /\ RejectsBeforeWorkers
  /\ FatalCleanupOnce

(***************************************************************************)
(* The process keeps the contract of ExitContract: the flows, their steps  *)
(* and timers are hidden, the reasons to stop are the causes delivered.    *)
(***************************************************************************)
Contract == INSTANCE ExitContract WITH
  reasons <- {cause[d] : d \in Deliveries} \ {"none"},
  busy    <- {w \in Workers : active[w] > 0}

ImplementsContract == Contract!FairSpec
=============================================================================
