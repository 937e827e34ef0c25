----------------------------- MODULE TestUtils -----------------------------
(***************************************************************************)
(* WorkerTestUtils (src/test-utils/WorkerTestUtils.ts): what a test does   *)
(* with the jobs it has enqueued under testInvocation=manual.  work() works *)
(* jobs off, workScheduled() runs delayed ones ahead of time, clean()      *)
(* empties the queues.  A test awaits one call before it makes the next;   *)
(* delayed jobs fall due between any two awaits.                           *)
(***************************************************************************)
EXTENDS Integers, Sequences

CONSTANTS
  Order,        \* the queues, in the order of background.queues
  Jobs,
  QueueOf,      \* the queue of each job
  ClassOf,      \* its class
  Spawns,       \* the jobs its method enqueues
  Scheduled,    \* the jobs made by a job scheduler
  Clusterings,  \* the sets of queues whose connections may be clusters
  Parallel,     \* whether VITEST_POOL_ID > 1
  None,         \* no job, no queue
  MaxAttempts   \* attempts of a job

Queues  == {Order[i] : i \in 1 .. Len(Order)}
Classes == {ClassOf[j] : j \in Jobs}

(* Jobs the test itself enqueues. *)
Roots == {j \in Jobs : \A k \in Jobs : j \notin Spawns[k]}

ASSUME TestUtilsAssumption ==
  /\ Order \in Seq(Queues)
  /\ QueueOf \in [Jobs -> Queues]
  /\ Spawns \in [Jobs -> SUBSET Jobs]
  /\ Scheduled \subseteq Roots
  /\ Clusterings \subseteq SUBSET Queues
  /\ Parallel \in BOOLEAN
  /\ None \notin Jobs \cup Queues
  /\ MaxAttempts \in Nat \ {0}

VARIABLES
  clustered,    \* the queues whose connections are clusters
  status,       \* where each job is
  attempts,     \* its failed attempts
  op,           \* the call in progress; for clean() its step
  asked,        \* the jobs its options ask for
  scope,        \* the jobs the code selects by them
  pos,          \* the position of its loop in Order
  workWasDone,  \* of work()
  current,      \* the job work() awaits
  listed,       \* what getDelayed returned and workScheduled() has not run yet
  fellDue,      \* the jobs that fell due during the call
  ranAhead,     \* the jobs workScheduled() has run
  turn          \* the queue of the last job worked, and those that had to wait

queues == <<status, attempts>>
locals == <<op, asked, scope, pos, workWasDone, current, listed>>
vars   == <<clustered, queues, locals, fellDue, ranAhead, turn>>

NoTurn == [queue |-> None, behind |-> {}]

TypeOK ==
  /\ status \in [Jobs -> {"none", "waiting", "active", "delayed", "completed", "failed", "removed"}]
  /\ attempts \in [Jobs -> 0 .. MaxAttempts]
  /\ op \in {"none", "work", "workScheduled", "drain", "finished", "schedulers"}
  /\ clustered \in Clusterings
  /\ asked \subseteq Jobs
  /\ scope \subseteq Jobs
  /\ pos \in 1 .. Len(Order) + 1
  /\ workWasDone \in BOOLEAN
  /\ current \in Jobs \cup {None}
  /\ listed \subseteq Jobs
  /\ fellDue \subseteq Jobs
  /\ ranAhead \subseteq Jobs
  /\ turn \in [queue : Queues \cup {None}, behind : SUBSET Queues]

Init ==
  /\ status = [j \in Jobs |-> "none"]
  /\ attempts = [j \in Jobs |-> 0]
  /\ clustered \in Clusterings
  /\ op = "none"
  /\ asked = Jobs
  /\ scope = Jobs
  /\ pos = 1
  /\ workWasDone = FALSE
  /\ current = None
  /\ listed = {}
  /\ fellDue = {}
  /\ ranAhead = {}
  /\ turn = NoTurn

-----------------------------------------------------------------------------
(* The test and the time. *)

InQueues(Q) == {j \in Jobs : QueueOf[j] \in Q}

(* The test calls background, backgroundWithDelay or schedule. *)
Enqueue(j) ==
  /\ op = "none"
  /\ j \in Roots
  /\ status[j] = "none"
  /\ \E s \in IF j \in Scheduled THEN {"delayed"} ELSE {"waiting", "delayed"} :
       status' = [status EXCEPT ![j] = s]
  /\ UNCHANGED <<clustered, attempts, locals, fellDue, ranAhead, turn>>

FallDue(j) ==
  /\ status[j] = "delayed"
  /\ status' = [status EXCEPT ![j] = "waiting"]
  /\ fellDue' = IF op = "none" THEN {} ELSE fellDue \cup {j}
  /\ UNCHANGED <<clustered, attempts, locals, ranAhead, turn>>

Begin(what, wanted, jobs) ==
  /\ op = "none"
  /\ op' = what
  /\ asked' = wanted
  /\ scope' = jobs
  /\ UNCHANGED <<clustered, queues, pos, workWasDone, current, listed, fellDue, ranAhead, turn>>

-----------------------------------------------------------------------------
(***************************************************************************)
(* The names of queues: the name of the options with braces, one brace or  *)
(* none, and how often "-<pool>" was put to its end.                       *)
(***************************************************************************)
Name(q, braces, suffixes) == [queue |-> q, braces |-> braces, suffixes |-> suffixes]

ParallelTestSafeQueueName(name) == IF Parallel THEN [name EXCEPT !.suffixes = @ + 1] ELSE name

NameToRedisQueueName(q) ==
  IF q \in clustered THEN Name(q, "{}", 0) ELSE ParallelTestSafeQueueName(Name(q, "", 0))

(* Mutant: the name is compared as it is. *)
QueueNamesMatchVerbatim(q, name) == NameToRedisQueueName(q) = name

(* The second form lacks its closing brace. *)
QueueNamesMatch(q, name) ==
  LET safe == ParallelTestSafeQueueName(name) IN
  NameToRedisQueueName(q) \in {safe, [safe EXCEPT !.braces = "{"]}

(* What tests may name: a queue as the options do, or as redis does. *)
Names == [queue : Queues, braces : {"", "{}"}, suffixes : {0, 1}]

(* A name of the options asks for its queue, whatever its connection is.   *)
AskedFor(name) == IF name.braces = "" /\ name.suffixes = 0 THEN {name.queue} ELSE {}

(* The call resolves or rejects: its local state is gone. *)
Ends ==
  /\ op' = "none"
  /\ asked' = Jobs
  /\ scope' = Jobs
  /\ pos' = 1
  /\ workWasDone' = FALSE
  /\ current' = None
  /\ listed' = {}
  /\ fellDue' = {}
  /\ ranAhead' = {}
  /\ turn' = NoTurn
  /\ UNCHANGED clustered

-----------------------------------------------------------------------------
(* work({ queue }) *)

Work ==
  \/ Begin("work", Jobs, Jobs)
  \/ \E name \in Names :
       Begin("work", InQueues(AskedFor(name)), InQueues({q \in Queues : QueueNamesMatch(q, name)}))

AtQueue(what) == op = what /\ current = None /\ pos <= Len(Order)

Waiting(q) == {j \in scope : QueueOf[j] = q /\ status[j] = "waiting"}

(* workWasDone ||= does not call workOne once it is true. *)
PassQueue ==
  /\ AtQueue("work")
  /\ workWasDone
  /\ pos' = pos + 1
  /\ UNCHANGED <<clustered, queues, op, asked, scope, workWasDone, current, listed, fellDue, ranAhead, turn>>

(* Mutant: workOne returns true also if there was no job. *)
FindNoJobReturnsTrue ==
  /\ AtQueue("work")
  /\ ~workWasDone
  /\ Waiting(Order[pos]) = {}
  /\ pos' = pos + 1
  /\ workWasDone' = TRUE
  /\ UNCHANGED <<clustered, queues, op, asked, scope, current, listed, fellDue, ranAhead, turn>>

FindNoJob ==
  /\ AtQueue("work")
  /\ ~workWasDone
  /\ Waiting(Order[pos]) = {}
  /\ pos' = pos + 1
  /\ UNCHANGED <<clustered, queues, op, asked, scope, workWasDone, current, listed, fellDue, ranAhead, turn>>

FindJob(j) ==
  /\ AtQueue("work")
  /\ ~workWasDone
  /\ j \in Waiting(Order[pos])
  /\ status' = [status EXCEPT ![j] = "active"]
  /\ current' = j
  /\ turn' = [queue  |-> QueueOf[j],
              behind |-> {q \in Queues \ {QueueOf[j]} : Waiting(q) # {}}]
  /\ UNCHANGED <<clustered, attempts, op, asked, scope, pos, workWasDone, listed, fellDue, ranAhead>>

(* Jobs a method has enqueued before it returned or threw. *)
WithSpawned(j, S) ==
  [k \in Jobs |-> IF k \in S \cap Spawns[j] /\ status[k] = "none" THEN "waiting" ELSE status[k]]

JobDone ==
  /\ current' = None
  /\ workWasDone' = TRUE
  /\ pos' = pos + 1
  /\ UNCHANGED <<clustered, op, asked, scope, listed, fellDue, ranAhead, turn>>

(* doWork resolves, and so does moveToCompleted. *)
JobResolves(j) ==
  /\ current = j
  /\ status' = [WithSpawned(j, Jobs) EXCEPT ![j] = "completed"]
  /\ JobDone
  /\ UNCHANGED attempts

(* Mutant: one attempt more than MaxAttempts. *)
AfterFailureOnceMore(n) == IF n <= MaxAttempts THEN {"waiting", "delayed"} ELSE {"failed"}

(* BullMQ's moveToFailed: another attempt, with or without a backoff. *)
AfterFailure(n) == IF n < MaxAttempts THEN {"waiting", "delayed"} ELSE {"failed"}

(* doWork or moveToCompleted rejects, and moveToFailed resolves. *)
JobThrows(j) ==
  /\ current = j
  /\ attempts' = [attempts EXCEPT ![j] = @ + 1]
  /\ \E S \in SUBSET Spawns[j], s \in AfterFailure(attempts'[j]) :
       status' = [WithSpawned(j, S) EXCEPT ![j] = s]
  /\ JobDone

(* moveToFailed rejects, and work() with it: the job stays active.         *)
MoveToFailedRejects(j) ==
  /\ current = j
  /\ \E S \in SUBSET Spawns[j] : status' = WithSpawned(j, S)
  /\ Ends
  /\ UNCHANGED attempts

(* Mutant: one pass is all. *)
OncePass ==
  /\ op = "work" /\ current = None /\ pos > Len(Order)
  /\ Ends
  /\ UNCHANGED queues

(* while (workWasDone) *)
EndPass ==
  /\ op = "work" /\ current = None /\ pos > Len(Order)
  /\ \/ /\ workWasDone
        /\ pos' = 1
        /\ workWasDone' = FALSE
        /\ UNCHANGED <<clustered, op, asked, scope, current, listed, fellDue, ranAhead, turn>>
     \/ ~workWasDone /\ Ends
  /\ UNCHANGED queues

-----------------------------------------------------------------------------
(* workScheduled({ queue, for }): one queue or all, one class or all *)
WorkScheduledIn(Q) ==
  \E C \in {Classes} \cup {{c} : c \in Classes} :
    LET jobs == {j \in InQueues(Q) : ClassOf[j] \in C} IN Begin("workScheduled", jobs, jobs)

(* It wants the name redis has, and throws if no queue has it. *)
WorkScheduled ==
  \/ WorkScheduledIn(Queues)
  \/ \E q \in Queues : NameToRedisQueueName(q) \in Names /\ WorkScheduledIn({q})

Delayed(q) == {j \in scope : QueueOf[j] = q /\ status[j] = "delayed"}

(* Mutant: a queue without delayed jobs ends the loop. *)
ListDelayedOrEnd ==
  /\ AtQueue("workScheduled")
  /\ listed = {}
  /\ listed' = Delayed(Order[pos])
  /\ pos' = IF listed' = {} THEN Len(Order) + 1 ELSE pos + 1
  /\ UNCHANGED <<clustered, queues, op, asked, scope, workWasDone, current, fellDue, ranAhead, turn>>

ListDelayed ==
  /\ AtQueue("workScheduled")
  /\ listed = {}
  /\ listed' = Delayed(Order[pos])
  /\ pos' = pos + 1
  /\ UNCHANGED <<clustered, queues, op, asked, scope, workWasDone, current, fellDue, ranAhead, turn>>

(* doWork resolves.  The job stays in the queue as it is. *)
RunListed(j) ==
  /\ j \in listed
  /\ listed' = listed \ {j}
  /\ ranAhead' = ranAhead \cup {j}
  /\ status' = WithSpawned(j, Jobs)
  /\ UNCHANGED <<clustered, attempts, op, asked, scope, pos, workWasDone, current, fellDue, turn>>

(* doWork throws, and workScheduled() with it. *)
ListedThrows(j) ==
  /\ j \in listed
  /\ \E S \in SUBSET Spawns[j] : status' = WithSpawned(j, S)
  /\ Ends
  /\ UNCHANGED attempts

EndWorkScheduled ==
  /\ op = "workScheduled" /\ pos > Len(Order) /\ listed = {}
  /\ Ends
  /\ UNCHANGED queues

-----------------------------------------------------------------------------
(* clean(): for each queue, one step per kind of job. *)

Clean == Begin("drain", Jobs, Jobs)

Remove(statuses, jobs) ==
  /\ status' = [j \in Jobs |->
       IF QueueOf[j] = Order[pos] /\ status[j] \in statuses /\ j \in jobs THEN "removed" ELSE status[j]]
  /\ UNCHANGED attempts

GoesOn(what, next) ==
  /\ op' = what
  /\ pos' = next
  /\ UNCHANGED <<clustered, asked, scope, workWasDone, current, listed, fellDue, ranAhead, turn>>

(* queue.drain() *)
Drain ==
  /\ op = "drain"
  /\ Remove({"waiting"}, Jobs)
  /\ GoesOn("finished", pos)

(* Mutant: failed jobs are left. *)
CleanCompleted ==
  /\ op = "finished"
  /\ Remove({"completed"}, Jobs)
  /\ GoesOn("schedulers", pos)

CleanFinished ==
  /\ op = "finished"
  /\ Remove({"completed", "failed"}, Jobs)
  /\ GoesOn("schedulers", pos)

(* A scheduler goes with the delayed job it has made. *)
RemoveSchedulers ==
  /\ op = "schedulers"
  /\ Remove({"delayed"}, Scheduled)
  /\ IF pos < Len(Order) THEN GoesOn("drain", pos + 1) ELSE Ends

-----------------------------------------------------------------------------
JobStep(j) ==
  \/ FindJob(j) \/ JobResolves(j) \/ JobThrows(j) \/ MoveToFailedRejects(j)
  \/ RunListed(j) \/ ListedThrows(j)

LoopStep ==
  \/ PassQueue \/ FindNoJob \/ EndPass
  \/ ListDelayed \/ EndWorkScheduled
  \/ Drain \/ CleanFinished \/ RemoveSchedulers

Step == LoopStep \/ \E j \in Jobs : JobStep(j)

Next ==
  \/ Work \/ WorkScheduled \/ Clean
  \/ Step
  \/ \E j \in Jobs : Enqueue(j) \/ FallDue(j)

Spec     == Init /\ [][Next]_vars
FairSpec == Spec /\ WF_vars(Step)

-----------------------------------------------------------------------------
(* A call that ends while it awaits a job has rejected. *)
Resolves(what) == op = what /\ op' = "none" /\ current = None

(* What is on plain redis. *)
Unclustered(jobs) == {j \in jobs : QueueOf[j] \notin clustered}

(***************************************************************************)
(* When work() resolves, no job waits in a queue whose name on redis       *)
(* matches the one it was given, nor, on plain redis, in the queue that    *)
(* has this name in the options, in whichever parallel run; nor in any if  *)
(* it was given none.  Whatever the jobs enqueued and however often they   *)
(* were retried, except those that fell due meanwhile ("until every queue  *)
(* is empty").  On clusters, see NamedQueueWorkedOff.                      *)
(***************************************************************************)
WorkedOff ==
  [][Resolves("work") =>
       \A j \in scope \cup Unclustered(asked) : status[j] = "waiting" => j \in fellDue]_vars

(***************************************************************************)
(* work({ queue }) works off the queue of this name, also on a cluster     *)
(* (queueNamesMatch has a form in braces, the names nameToRedisQueueName   *)
(* makes for clusters have them).                                          *)
(***************************************************************************)
NamedQueueWorkedOff ==
  [][Resolves("work") => \A j \in asked : status[j] = "waiting" => j \in fellDue]_vars

(***************************************************************************)
(* work() ends, although each job may enqueue others, fail and be retried, *)
(* and others fall due: the loop ends when a pass finds nothing.           *)
(***************************************************************************)
WorkResolves == op = "work" ~> op = "none"

(***************************************************************************)
(* When workScheduled() resolves, it has run every job its options select  *)
(* that is delayed: none enqueued before the call is passed over.          *)
(***************************************************************************)
DelayedJobsRun ==
  [][Resolves("workScheduled") /\ listed = {} =>
       \A j \in scope : status[j] = "delayed" => j \in ranAhead]_vars

(***************************************************************************)
(* What clean() leaves in the queues was delayed when it came by, though   *)
(* its comment says that it "cleans out all jobs, including completed,     *)
(* failed, and scheduled jobs" (drain() is not told to), or is active      *)
(* since a work() rejected that could not move it.                         *)
(***************************************************************************)
CleanLeavesDelayed ==
  [][Resolves("schedulers") =>
       \A j \in Jobs : \/ status'[j] \in {"none", "removed", "active"}
                       \/ status'[j] = "delayed" /\ j \notin Scheduled
                       \/ status'[j] = "waiting" /\ j \in fellDue]_vars

(***************************************************************************)
(* "The jobs are worked off in a round-robin fashion": a queue does not    *)
(* have two turns in a row while another has had a job waiting all along.  *)
(***************************************************************************)
RoundRobin ==
  [][\A j \in Jobs : status[j] = "waiting" /\ status'[j] = "active" =>
       QueueOf[j] # turn.queue \/ turn.behind = {}]_vars

-----------------------------------------------------------------------------
(***************************************************************************)
(* The inductive invariant: what each call leaves in its local state, and  *)
(* what the position of its loop says of the queues it has passed.         *)
(***************************************************************************)
Passed == {Order[i] : i \in 1 .. (pos - 1)}

AttemptsLeft ==
  \A j \in Jobs : status[j] \in {"none", "waiting", "active", "delayed"} => attempts[j] < MaxAttempts

LocalState ==
  /\ Unclustered(asked) \subseteq scope
  /\ op = "none" => pos = 1 /\ ~workWasDone /\ listed = {} /\ fellDue = {} /\ ranAhead = {}
  /\ current # None =>
       op = "work" /\ ~workWasDone /\ pos <= Len(Order) /\ status[current] = "active"
  /\ listed # {} => op = "workScheduled"

(* This pass of work() has found nothing so far. *)
WorkPosition ==
  op = "work" /\ ~workWasDone /\ current = None =>
    \A j \in scope : status[j] = "waiting" /\ QueueOf[j] \in Passed => j \in fellDue

WorkScheduledPosition ==
  op = "workScheduled" =>
    \A j \in scope : status[j] = "delayed" /\ QueueOf[j] \in Passed => j \in ranAhead \cup listed

Cleaned(j) ==
  \/ status[j] \in {"none", "removed", "active"}
  \/ status[j] = "delayed" /\ j \notin Scheduled
  \/ status[j] = "waiting" /\ j \in fellDue

CleanPosition ==
  op \in {"drain", "finished", "schedulers"} =>
    \A j \in Jobs :
      /\ QueueOf[j] \in Passed => Cleaned(j)
      /\ QueueOf[j] = Order[pos] =>
           /\ op # "drain" /\ status[j] = "waiting" => j \in fellDue
           /\ op = "schedulers" => status[j] \notin {"completed", "failed"}

IInv ==
  /\ TypeOK /\ AttemptsLeft /\ LocalState
  /\ WorkPosition /\ WorkScheduledPosition /\ CleanPosition
=============================================================================
