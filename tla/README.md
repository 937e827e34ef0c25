# psychic-workers in TLA+

A verification development for psychic-workers, the library that backgrounds
method calls of a Psychic application as BullMQ jobs on redis. TLC checks the
modules on small instances; TLAPS proves the theorems in the `_proofs` modules
for every value of the constants. Paths are relative to the repository; unless
another file is named, line numbers are those of `src/background/index.ts`.

## The system

| Component | State | Operations | Hard behaviour |
| --- | --- | --- | --- |
| Worker process (`work`, `shutdownAndExit`, `shutdownAndExitAfterFatalError`, `shutdownWithTimeout`, `shutdown`, `closeAllRedisConnections`) | `fatalErrorShutdownBegun`; workers and their jobs; database and redis connections; one flow of awaits per handler invocation | signal and error handlers, each await of a flow, the timer, `process.exit` | flows overlap and nothing joins them; every await may reject or hang; a timer races the flow |
| Registry (`connect`, `simpleConnect`, `nativeBullMQConnect`, `queueInstance`) | `defaultQueue`, `namedQueues`, the two transitional counterparts, `_workers`, `redisConnections` | connect from a server, from `work()`, from every enqueue | exceptions half way; `defaultQueue` doubles as "connected"; two redis servers during a migration |
| Enqueueing (`staticMethod`, `modelInstanceMethod`, `_addToQueue`) | none of its own: jobs and deduplication keys in redis | one `Queue.add` per call | several processes debounce the same id while the job is promoted and run |
| Job execution (`doWork`) | none: a job on a worker | look up the class, find the record, run the method | deploys and deletions between enqueue and run, redelivery after a crash, retries |
| Schedulers (`scheduledMethod`, `BaseScheduledService.schedule`) | schedulers in redis | upsert by `globalName:method` | what remains of an earlier deploy's schedules |
| Backgrounded services and models (`Base*.ts`, `durationToSeconds`) | none | turn a call into the arguments of the above | numeric edges of the delay |
| `PsychicAppWorkers` and its cache | options, hooks, one cached instance | `init`, `set`, `on`, `getOrFail` | code that runs while `init` awaits the application's callback; a callback that throws; a second `init` |
| `WorkerTestUtils` | none: queues of the test redis | `work`, `workScheduled`, `clean` | order of queues; jobs that enqueue jobs; what is left behind |
| `PsychicTypesDeprecation` | three files of the application | patch in place | a failure or a kill between two awaits, repetition |
| `ASTBuilder`, `ASTWorkersSchemaBuilder` | `types/workers.ts` | connect and print the names of the registry | what the registry holds by then; a failure before the files are patched |

The components meet in redis and in the process. `work()` connects the
registry, which creates the workers that a shutdown later closes. Enqueueing
goes through the registry to a queue in redis; a worker of any process takes the
job from there and hands it to `doWork`.

What makes the parts correct:

- Worker process: teardown happens in the order the code gives, exit codes mean what a
  supervisor concludes from them, jobs in flight are waited for, the process ends.
- Registry: a job goes to the queue its class names or nowhere; workers serve the queues
  jobs are in; every connection in use can be closed.
- Enqueueing: calls under one jobId leave one job to fall due, and no call is lost.
- Job execution: each job settles once; a completed one has run; attempts are bounded.
- Schedulers: the schedules of the version that is deployed are in force.
- Backgrounded services and models: jobs start no earlier than the duration asked for, and
  in the order of their priorities; a call for a queue that does not exist rejects, in tests too.
- `PsychicAppWorkers`: the other parts never read options the callback has not finished.
- `WorkerTestUtils`: no job waits in the queues asked for after `work()`, and `clean()` leaves
  nothing behind. The first is not so for a queue given by name on a cluster, the second not for
  delayed jobs: see what the violations show and what is said there of `clean()`.
- Type generation: the types offer what the live options name.
- `PsychicTypesDeprecation`: a run that says nothing leaves nothing to patch, and imports
  nothing that is not there.

PROJECT.json lists the hazards, each at the line where it bites, with the properties
that watch it, or with a note that says why none does.

## Modules

| Module | Models |
| --- | --- |
| `ExitContract` | what a worker process promises its orchestrator, without the means |
| `WorkerProcess` | the shutdown of a worker process; implements `ExitContract` |
| `WorkerProcess_proofs` | theorems about `WorkerProcess` |
| `Registry`, `MCRegistry` | the registry of every process of an application, and deployments of it for TLC |
| `Registry_proofs` | theorems about `Registry` |
| `Debounce`, `MCDebounce` | delayed calls under a `jobId`: the options `_addToQueue` gives them and what BullMQ makes of those |
| `Debounce_proofs` | theorems about `Debounce` |
| `JobContract` | what backgrounding a call promises, without queues, attempts and locks |
| `Jobs`, `MCJobs` | the life of jobs around `doWork`; implements `JobContract` |
| `Jobs_proofs` | theorems about `Jobs` |
| `Schedulers`, `MCSchedulers` | cron schedules of processes that boot, crash and are deployed |
| `Schedulers_proofs` | theorems about `Schedulers` |
| `TestUtils`, `MCTestUtils` | `WorkerTestUtils` on the queues of a test |
| `TestUtils_proofs` | theorems about `TestUtils` |
| `App` | `PsychicAppWorkers`: `init`, its callback, the cache, `set` and `on` |
| `Backgrounding` | the calls of an application, the options of their jobs and the order these start in; extends `App` |
| `TypesDeprecation` | the sync command and the files it patches; extends `App` |
| `Application`, `MCApplication` | the composition of the three, with restarts |
| `Application_proofs` | theorems about `Application` |

A definition whose comment begins with "Mutant" is a plausible bug in the
definition that follows it. No specification uses it; it is there to show that
a property would notice.

### WorkerProcess

Each SIGTERM, SIGINT, `uncaughtException` or `unhandledRejection` is one
*delivery*. `Signal`, `FirstFatalError` and `FurtherFatalError` are the handlers
registered by `work()` (573-593) up to their first await; the two branches of
`shutdownAndExitAfterFatalError` are two actions. A delivery's flow is at one
await at a time, and the awaits of `shutdown` and `closeAllRedisConnections`
(268-302) are numbered in the order of the code: hooks, database, each worker,
each connection, end. What the code calls just before an await belongs to the
action that reaches it, so a worker is `closing` from the moment a flow is at
its step. Every await has an action for each way it can end: hooks and the database
resolve or reject; workers and connections settle, because the code catches
their rejections. `TimesOut` is the timer of `shutdownWithTimeout`. `Exit` is the
continuation of a flow that resolved or rejected; it runs in the same drain of
the microtask queue as the settling, which is why nothing else is
`Responsive` between the two.

BullMQ is modelled as the code uses it: a worker takes jobs until `close()` is
called, `close()` returns the same promise every time, resolves once no job is
in flight, and may reject.

`exitCode`, `fatalErrorShutdownBegun`, `worker`, `connection` and `db` stand for
what their names say; `cause`, `step` and `failure` are the local state of the
handler invocation; `active` counts the jobs on a worker.

### Registry

`connect()` is one synchronous call. The model takes it one queue at a time,
because it may throw between two of them and what was registered stays; `call`
says where the process is, and every other action of that process waits for
it. Simple and native options have one shape (`native` tells them apart): both
register the default queue first, then named ones in order, with the same
fallbacks, and differ in the order of pushing and throwing and in where worker
counts come from. `transitionalWorkstreams` are the recursive call, with
`transitional` set. Entry points are `connect` (server start), `work`, and
`enqueue` (any `background` call) with the queue or workstream of the class's
config, which need not exist. A redis queue is identified by server and redis
name, as BullMQ identifies it: `nameToRedisQueueName` strips braces and adds
them again on a cluster.

What options may be is said by type, as in `src/psychic-app-workers/index.ts`:
`SimpleOptions`, `NativeOptions` and what they consist of. `OptionsAssumption` holds the
deployments against them.

A process that is no worker may also run the sync command (`Sync`): `build` connects and
writes what the registry names to `types/workers.ts`, formatted if prettier is there.
Only `simpleConnect` fills `workstreamNames`, and only for live workstreams; only
`nativeBullMQConnect` fills `groupNames`.

`redisConnections` is a set here; a connection that is pushed twice is quit
twice in the code, and the second `quit()` rejects and is caught.

### Debounce

`Call` is `backgroundWithDelay` up to `Queue.add`, which takes the time of the
client's clock (`created`). The call then travels, for at most `Latency` ticks;
calls may overtake each other. `Arrive` is its addition in redis: `AddPlain` when
`_addToQueue` sets no deduplication (no jobId, or a delay that is absent or 0), else
`AddFirst`, `AddReplacing` or `Join` by what the deduplication key finds.

The two times differ on purpose. The job falls due `delay` after the client's
timestamp; the key, which is set on arrival with `ttl: delay`, expires `delay`
after that. BullMQ's deduplication is modelled as the options ask for it: `replace: true` puts
the new job in place of one that is delayed, `extend: true` renews the ttl, a
job that is not delayed makes the new call go without one, and finishing a
job does not remove a key that has a ttl. A job that has started may be delayed
again, waiting for another attempt, which is why `started` jobs may be replaced
or joined.

So a call made or arriving between the due time of a job and the expiry of its
key, less than `Latency` later, gets no job of its own. `JoinWindow` says that
this is the only case, and `JoinedAreAnswered` what such a call can rely on.

### Jobs

`Start` is the worker calling the processor, `doWork` up to its first await;
`FindResolves`, `FindRejects`, `MethodReturns`, `MethodThrows` are its continuations. A
process stands for one slot of a worker's concurrency. `Complete`, `FailAttempt`
and `MissingLock` are what BullMQ does with the outcome: the lock decides
whether it counts. `Stalled` may happen to any active job, because a process that
is alive may fail to renew its lock; `Restart` stands for a crash, for the exit at
the end of `WorkerProcess` with jobs in flight, and for a deploy. `deployed` are the
processes that run the new code: `OldClass` and `NewClass` say which jobs' classes
only one of the two versions has. `kind` says of each job whether it is a service's, a
model's or of a name that is no case of the switch ("unknown"); it is chosen at the start.
`begun`, `returned` and `faults` are history. `faults` counts what goes wrong around
`doWork`: `Start` with a class that is missing, `FindRejects` and `MethodThrows` count one each,
whatever `doWork` then does. So `FailedForAReason` holds the failures of a job against the
failures of its surroundings: a `doWork` that throws where nothing failed, as it would without its
check for a record that is gone, violates it.

### Schedulers

A process calls `schedule` for what its version declares, in any order, when it
boots (`ScheduledMethod`); `todo` is what is left of that. `Reboot` and `Deploy` may come
before it is through. In redis there is one scheduler per queue and
scheduler id; an upsert replaces its pattern. Nothing in the code removes one,
so schedulers of methods that are gone or have moved to another queue stay.

### TestUtils

`op` is the call in progress, `pos` the position of its loop over
`background.queues` (line numbers here are those of
`src/test-utils/WorkerTestUtils.ts`). The options of a call come down to the jobs they
select (`scope`), beside which `asked` says which jobs the caller means. `work({ queue })`
selects by `QueueNamesMatch`: a queue is named by its options (`Name(q, "", 0)`), `Parallel`
appends the pool to that, and the connection of a cluster puts it in braces. `work()`:
`FindJob`, `FindNoJob` are `workOne` (111-125), `PassQueue` the `||=` that does not call it (43), `JobResolves` and `JobThrows` `processJob` (134-141),
`MoveToFailedRejects` the rejection of `moveToFailed` in its catch, which leaves `work()` and an
active job, `EndPass` the `while` (45). Of the calls to redis only those of `processJob` may
reject; where another does, the call rejects and the properties say nothing of it. `workScheduled()`: `ListDelayed`, then `RunListed` for each job;
`ListedThrows` is the rejection that ends it. `clean()`: three steps per queue. `FallDue` may
come between any two steps; `Enqueue` is the test, which awaits each call before
the next. `clean()` removes at most 10000 finished jobs per queue and kind; the bound
is left out.

### App, Backgrounding, TypesDeprecation, Application

One process of an application, as a server, a test or a command line process (`role`).
`BeginInit` is `init` up to the await of the callback, `CallbackSets` one `set` or `on` of the
callback, `CallbackThrows` its rejection, `FinishInit` the rest of `init`: the
handlers and the cache are one step. In between the process does whatever it does
otherwise. `cached` and `registry` are the app `getOrFail` answers with and the one the
singleton connected with; they differ after a second `init`, since `connect()` is done once.

`Call(r)` is one call of a `background` method, `backgroundWithDelay` or `schedule`, from
the getter of the global name to `Queue.add`; nothing of it but the last is asynchronous, so
it is one step. The exceptions stand in the order of the code: the name, the connection,
a Dream among the arguments, the queue; then, in a test, the job runs at once. What the
arguments of a call come down to in a job are functions of the config and the delay
(`Options`, `DurationToSeconds`, `DelayMilliseconds`). Time is BullMQ's, in milliseconds. BullMQ starts jobs of a queue without a priority first,
then by priority, and by arrival; BullMQ Pro does so within a group. `Honoured` says which
of the two reads what.

`Sync` is the handler of `cli:sync`; `Build`, `BuildFails` end its first await. `ReadFile`,
`OpenFile` and `WriteFile` are the awaits of `deprecate`; a write has two because
`fs.writeFile` empties the file before it writes. Files are abstracted to whether they exist,
how often they mention `psychicTypes`, and what they import. `Restart` ends the process at any
point: memory goes, jobs and files stay.

## Runs

| Run | Question | Bounds |
| --- | --- | --- |
| `worker_process` | Do all properties of `WorkerProcess` hold, and does it implement `ExitContract` with its fairness? | 3 deliveries (two flows that interfere and an event that meets them), 2 hooks, 2 workers, 2 connections (one before and one after the one that fails), 1 job per worker |
| `fatal_exit_code` | Is an exit code after an uncaught error nonzero? It is not | 2 deliveries, 1 of everything |
| `registry` | Do routing, closing, working and the generated types hold for five deployments? | a web server and a worker; two names with the same bare name; three redis servers, one of them a cluster; named workstreams with all, some and no connections of their own, one that is only transitional, a native queue with a group |
| `work_after_connect` | Does `work()` start the workers? Not after an earlier connect | as `registry` |
| `debounce` | Do calls under one jobId merge as they should, and is none lost? | 3 calls (one holds the key, two race for it) with delays of 0, 1 or 2 s, a second of 2 ticks (so that a ttl in seconds would differ from one in ticks), latency 1, calls until tick 3, time until 7, when the last job may fall due |
| `jobs` | Do jobs keep `JobContract` and the bounds on calls, do they fail for failures only, and are they left alone once settled? | 2 processes, a service job whose class comes with the deploy, and one whose class goes with it and which is a model's or of an unknown type, 2 attempts, 1 stall: each job can fail, retry, stall and be run by both |
| `schedulers` | Are the schedules of the last version in force after a rolling deploy? | 3 processes, 3 versions that move a method, change a pattern and declare two patterns for one method |
| `scheduler_pattern` | Are all patterns declared for a method in force? No | as `schedulers` |
| `test_utils` | Does `work()` resolve with the queues it selects empty, among them on plain redis the one it was given by name, does `workScheduled()` run all delayed jobs, does `clean()` leave only delayed ones, and active ones of a rejected `work()`? | 2 queues of which one is on a cluster, named in all four ways, in a parallel run; 4 jobs of which one enqueues another in the queue before its own and one is a scheduler's, 2 attempts |
| `application` | Are calls rejected, delayed and ordered as asked, is a half configured app never used, and does the sync leave the files in order? | 2 inits per process (a second that replaces or fails) and any number of restarts; 3 callbacks: BullMQ with manual invocation, BullMQ Pro without deprecation checks, none; 2 calls out of 10 (two jobs compete; unnamed class, Dream, unknown queue, groups, schedule; two delays, of an hour and a second and of a minute); three files of which the second needs two runs of replacing and the third may be missing |
| `cluster_names` | Does `work({ queue })` work off the queue of that name on a cluster? It works nothing | as `test_utils`, without a parallel run |
| `round_robin` | Do queues take turns? No | as `test_utils` |

Deadlock is not checked in `WorkerProcess` (the process really ends), in `Debounce` (time
is bounded by `MaxTime`, beyond which nothing is due) and in `Jobs` (all jobs may be settled).

`application` has two calls: each property relates a job to its own call or to one other
job. A third would only add jobs that wait beside the two.

### What the violations show

`fatal_exit_code`: a signal begins a flow; an uncaught error begins another; the
signal's flow resolves first and calls `process.exit(0)`. The comment at 220-222
and CHANGELOG 2.4.0 say a fatal error exits nonzero.

`work_after_connect`: `connect()` returns at once when `defaultQueue` is set
(146), so `work()` after any `connect()` or enqueue in the same process installs its
handlers and starts no worker. The comment at 570 says it starts them.

`scheduler_pattern`: the scheduler id is `globalName:method` (687), so the second of
two patterns replaces the first. The comment at 681-686 says the pattern is part
of what is unique.

`cluster_names`: `queueNamesMatch` compares with a name in braces that lacks the closing
one (WorkerTestUtils.ts:130), so on a cluster no name of the options matches, and
`work({ queue })` resolves while jobs wait in the queue it was given. The comment at
WorkerTestUtils.ts:18-21 says `work` goes on until every queue is empty, and the spec
work.spec.ts:67-76 that a queue it is given is worked off.

`round_robin`: a job of the first queue is worked, the second queue is passed
because `workWasDone` is already true, and the first has its next turn. The
comment at WorkerTestUtils.ts:18-21 says jobs are worked off round-robin.

`clean()` departs from its comment without a run of its own: `drain()` leaves delayed jobs, and
only schedulers' are removed after it, while the comment at WorkerTestUtils.ts:76-79
says all jobs, including scheduled ones. `CleanLeavesDelayed` in `test_utils` states what is left.

### Fairness

`WorkerProcess` assumes that some pending timer fires (`TimesOut`) and that the
continuation of a settled promise runs (`Exit`). Node guarantees both as long as
the event loop runs. Hooks, databases, jobs, workers and redis get no fairness:
each may hang, and `ShutdownTerminates` holds all the same.

`Registry` assumes that a synchronous call goes on once begun and that a worker
waiting on a queue gets the jobs in it (what BullMQ is for). No fairness is
assumed of whoever calls `connect`, `work`, enqueues or closes.

`Debounce` assumes that calls arrive, that due jobs are promoted and waiting ones
started, and that time passes. Calls need not be made.

`Application` states safety only and assumes nothing: any step may be the last.

`TestUtils` assumes that a call goes on once begun, including the methods it awaits. Nothing
is assumed of time and of the test.

`Jobs` assumes that some process takes a waiting job, that a backoff ends, that
the lock of an abandoned job expires, and that finds and methods settle. The last
is an assumption about the application: `doWork` has no timeout, and a method
that hangs in a live process keeps its job active for ever. Restarts have no fairness and
no bound; the limits on attempts and stalls make every job settle all the same.

## Theorems

`WorkerProcess_proofs` proves, from `CountsAssumption` alone (the numbers of
hooks, workers, connections and jobs are naturals, deliveries any set):
type correctness, the inductive invariant `IInv`, the five invariants of the run
as consequences of it, and that `Spec` implements the safety part of
`ExitContract`.

The invariants are not inductive by themselves: that a connection is quit says
nothing about the worker closes the flow went through to get there. `IInv` adds
`FlowPosition`, which says for every flow what its step number implies (past
`DbStep` the database is closed, past `WorkerStep(w)` that worker has settled, at
`QuitStep(c)` that connection is quit), `FatalRecorded`, which ties the flag to the
deliveries, and `ClosedIsDrained`. All of it is monotone while the process is up, so
a flow's facts survive the steps of every other flow: `PositionKept` is that
lemma, `AdvanceKeeps` the step of a flow itself, `MovingOn` the arithmetic of step
numbers. The refinement is one lemma per kind of action.

`Debounce_proofs` proves, from `DebounceAssumption` (ids other than `None`, delays and
latency naturals, a second at least one tick), type correctness,
`OneUndueJob`, `PlainCallsKept`, `JoinedAreAnswered` and the action property
`JoinWindow`. `IInv` is in `Debounce`. Its heart is `KeyGuards`: a key names a job of its
jobId, expires no earlier than that job falls due and less than the latency
later, and every undue job is the one its key names. `TakingKeyKeeps` is the lemma
that a call which takes the key, whether it is the first or replaces another,
restores all three. `InTransit` bounds the age of a call on its way, `RunsWhenDue` orders
due time and start, and `JoinedAreDue` carries what a call met into the future.

`Jobs_proofs` proves, from `JobsAssumption` (finitely many processes, at least one
attempt), type correctness, the three other invariants of the run, that the method of a settled job is not
called again but after a lost lock, and that `Spec` implements the safety
part of `JobContract`. `IInv` is in `Jobs`: `WorksOnJob` says what an ended `doWork`
implies, `LockedWhileActive` and `LockOrStalled` tie locks, states and processes
together (without them a lost outcome could settle a job twice), `FaultPerAttempt` and `FailedIsSpent` are the
account behind `FailedForAReason` (every attempt that counts, and every `doWork` that has thrown under
its lock, has a fault of its own), and `OncePerAttempt` keeps the account behind
`CallsBounded`: calls made, and calls that pending finds may still make, are paid
for by attempts, stalls and the run in progress. It counts a set of processes,
hence the lemmas on `Finding`.

`Schedulers_proofs` proves, from `SchedulersAssumption` (at least one process), that
`LastVersionScheduled` holds: every schedule of the last version is either in
force or still to be set by some process, because that process has it in `todo` or
does not run the last version yet (`Covers`).

`Application_proofs` proves, from `ConfsAssumption` (callbacks pass `set` and `on` what their
types allow), `RequestsAssumption` (so do calls; a config has a workstream, or a queue and a
group) and `InitialFilesAssumption` (no file imports `types/workers.js` before the first
sync), type correctness and all other properties of the run, for any number of inits, calls
and files' contents. `IInv` in `Application` is one invariant per module. `AppIInv` adds to
`NeverHalfConfigured` that the app `init` works on is the last and not complete
(`InitAtWork`): so a callback changes no app that is cached or connected. `CallIInv` says that
every job is what its call asks for (`JobsAsAsked`: queue, group, priority, and a due time that the
milliseconds of its duration have passed before, by `DurationGiven`) and
waits once; `UrgentFirst` and `NeverEarly` are then facts about one step, `Start`. It leans on
`AppIInv`, because the queue a job goes to is one of the connected app's. `SyncIInv` says where
the loop of `deprecate` is and that what it has passed is patched (`LoopPosition`).
`CallEffect` is the lemma that takes the seven ways to call apart once for all: a call ends with an
error, or it has connected, found its queue and either run or been stored.

`Registry_proofs` proves, from `ConnectionsAssumption` (`None` is none of the connections,
names, groups and what is made of them; worker processes are processes) and `OptionsAssumption`
(the options of a deployment have the shape their types give them; the named native queues are
the keys of a record, so their names differ), type correctness and the five other invariants of the
run, for any processes, names, connections and deployments. `IInv` is in `Registry`. `connect()` may
throw between any two queues and leaves what it has registered, so `ProcessInv` says of each process by
itself what the position of its call implies: past the default queue there are connections to
fall back on (`DefaultConnections`, which makes the errors for named queues dead code), every registered
queue is one of the options with the connection they give it (`RegisteredAsConfigured`), and the workers
and names so far are those of the queues before that position (`WorkersSoFar`, `LiveQueues`). These facts outlive one
`connect()`: a process that backgrounds first and calls `work()` then has no worker (`AllOrNoWorkers`
allows it), and a sync may find a registry that an earlier call filled. `OneProcessSteps` is
the lemma that a step of one process needs its own `ProcessInv` only; a job that is stored stays
where some options put it because options never change. There is one lemma for each action, and one for
each of the three ways to register a named queue.

`TestUtils_proofs` proves, from `TestUtilsAssumption` (queues in some order that has them all, jobs
with a queue, at least one attempt), type correctness and the three action properties of
the run, for any jobs that enqueue any others and any number of attempts. `IInv` in `TestUtils` says what
each loop leaves in the queues it has passed: nothing that waits, once a pass of `work()` has found
nothing so far (`WorkPosition`; a job found sets `workWasDone` and asks nothing of this pass), no
delayed job that was not run (`WorkScheduledPosition`), and nothing but delayed jobs (`CleanPosition`,
which follows the three steps at one queue). `AllPassed` turns that into the property when a loop ends;
`AskedAreSelected` says that on plain redis `queueNamesMatch` selects at least what the caller means, in
parallel runs too; on clusters it does not, which `cluster_names` shows.

Only model-checked: the liveness properties `ShutdownTerminates`, `EveryCallRuns`, `WorkResolves` and
`JobsAreWorked` and the fairness of the two refinements, which are out of the prover's reach. Every
invariant and every action property without fairness that a passing run checks is also a theorem.

## Plan

In this order, most important behaviour first:

1. `ExitContract`, `WorkerProcess` and its proofs. Done.
2. `Registry`, with the generated types, and its proofs. Done.
3. `Debounce` and its proofs. Done.
4. `JobContract`, `Jobs` and its proofs. Done.
5. `Schedulers` and its proofs. Done.
6. `TestUtils` and its proofs. Done.
7. `App`, `Backgrounding`, `TypesDeprecation` and `Application`, with proofs. Done.

## Not modelled

- Logging, the texts of errors and of the deprecation notice, TypeScript types other than
  those of the options: no state depends on them.
- `ASTBuilder` beyond `prettier` and the path of the types file: the functions that take
  TypeScript sources apart are called by nothing in the repository. How the syntax tree of
  `types/workers.ts` is put together and printed is data.
- Options handed to BullMQ unread (concurrency, rate limits, `autorun`), and what BullMQ Pro
  does with groups beyond their order.
- Inits of one process that overlap: applications await `init` when they are set up
  (test-app/src/cli/helpers/initializePsychicApp.ts).
- Clocks that disagree, in `Debounce`. A client behind redis is like one with a larger
  `Latency`, for which the theorems hold. One ahead leaves an undue job after its key
  expired, and calls that debounce then leave two; the code takes the clocks to agree.
- Two methods debounced under one `jobId`, schedulers of a queue a class has moved away from,
  jobs that are taken before the transaction of their record commits: the code does nothing
  about them and no doc promises anything a property could state.
- A named workstream with a queue connection and no worker connection of its own: its
  workers would be on the default redis. The code leaves such options to the application.
- The next job of a scheduler whose job `work()` has worked off: BullMQ adds it when the
  worker finishes, and whether it does for a job moved by hand depends on its version.
- The package's exports and the types not named above, and the test application:
  declarations, and a user of the library.
