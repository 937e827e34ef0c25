--------------------------- MODULE Backgrounding ----------------------------
(***************************************************************************)
(* From the calls an application makes to the jobs its workers start: the  *)
(* methods of BaseBackgroundedService, BaseBackgroundedModel and           *)
(* BaseScheduledService, staticMethod, modelInstanceMethod,                *)
(* scheduledMethod and _addToQueue, with the options they give a job, and  *)
(* how BullMQ or BullMQ Pro orders the jobs of a queue by them.            *)
(*                                                                         *)
(* A call runs without interruption up to Queue.add, so it is one step.    *)
(* Deduplication is in Debounce, the queues of connect() are in Registry,  *)
(* what a started job does is in Jobs.  Time is in milliseconds, as BullMQ  *)
(* counts it, and passes from one due time to the next.                    *)
(***************************************************************************)
EXTENDS App

CONSTANTS
  MaxCalls,   \* calls made in a behaviour
  Requests,   \* what may be called: [entry, named, dream, config, delay]
  Minute      \* when the pattern of a scheduled service comes up next

Priorities == {"urgent", "default", "not_urgent", "last"}

DelayedJobDuration == [days : Nat, hours : Nat, minutes : Nat, seconds : Nat]

(* A job config has a workstream, or a queue and a group: Either.          *)
ASSUME RequestsAssumption ==
  /\ \A r \in Requests :
       /\ r.entry \in {"service", "model", "instance", "schedule"}
       /\ r.named \in BOOLEAN /\ r.dream \in BOOLEAN
       /\ r.config.priority \in Priorities \cup {None}
       /\ r.config.workstream # None => r.config.queue = None /\ r.config.groupId = None
       /\ r.delay \in DelayedJobDuration \cup {None}
       /\ r.entry = "schedule" => r.delay = None
  /\ MaxCalls \in Nat
  /\ Minute \in Nat

VARIABLES
  calls,      \* the calls made, each with how it ended, or with its job
  waiting,    \* the calls whose jobs wait, in the order they came to do so
  now         \* the time

callVars == <<calls, waiting, now>>

CallsInit ==
  /\ calls = <<>>
  /\ waiting = <<>>
  /\ now = 0

Errors ==
  {"GlobalNameNotSet", "not connected", "AttemtedToBackgroundEntireDreamModel",
   "NoQueueForSpecifiedName", "redis"}

Queues == {"default"} \cup UNION {o.names : o \in BackgroundOptions}

Groups == {None} \cup {r.config.workstream : r \in Requests} \cup {r.config.groupId : r \in Requests}

EndedCalls == [request : Requests, status : Errors \cup {"ran"}]

Jobs ==
  [request : Requests, status : {"delayed", "waiting", "started"}, queue : Queues, group : Groups,
   priority : 0 .. 4, pro : BOOLEAN, created : Nat, due : Nat]

CallsTypeOK ==
  /\ calls \in Seq(EndedCalls \cup Jobs)
  /\ Len(calls) <= MaxCalls
  /\ now \in Nat
  /\ waiting \in Seq(Nat)
  /\ {waiting[n] : n \in DOMAIN waiting} = {i \in DOMAIN calls : calls[i].status = "waiting"}

-----------------------------------------------------------------------------
(* What calls ask for, put into the options of jobs. *)

DurationToSeconds(d) == d.seconds + d.minutes * 60 + d.hours * 60 * 60 + d.days * 60 * 60 * 24

(* Mutant: BullMQ is given the seconds. *)
DelayInSeconds(delaySeconds) == delaySeconds

(* The delay BullMQ is given; 0 is none. *)
DelayMilliseconds(delaySeconds) == delaySeconds * 1000

JobConfigToPriority(config) == IF config.priority = None THEN "default" ELSE config.priority

JobConfigToGroupId(config) == IF config.workstream # None THEN config.workstream ELSE config.groupId

(* Mutant: "urgent" falls to the default of the switch. *)
PriorityNumberWithoutUrgent(word) ==
  CASE word = "not_urgent" -> 3 [] word = "last" -> 4 [] OTHER -> 2

MapPriorityWordToPriorityNumber(word) ==
  CASE word = "urgent"     -> 1
    [] word = "default"    -> 2
    [] word = "not_urgent" -> 3
    [] word = "last"       -> 4
    [] OTHER               -> 2

(* Group and priority of the job: a group takes the priority with it. *)
Options(config) ==
  LET groupId  == JobConfigToGroupId(config)
      priority == MapPriorityWordToPriorityNumber(JobConfigToPriority(config)) IN
  IF groupId # None
  THEN [groupId |-> groupId, groupPriority |-> priority, priority |-> 0]
  ELSE [groupId |-> None, groupPriority |-> 0, priority |-> priority]

(* Those of the template of a scheduler: none. *)
TemplateOptions == [groupId |-> None, groupPriority |-> 0, priority |-> 0]

(* The class the queue was made with: only BullMQ Pro knows groups. *)
Provider == apps[Connected].backgroundOptions.providers

Honoured(opts) ==
  IF opts.groupId # None /\ Provider = "pro"
  THEN [group |-> opts.groupId, priority |-> opts.groupPriority]
  ELSE [group |-> None, priority |-> opts.priority]

(* queueInstance; None stands for the exceptions it throws. *)
QueueInstance(config) ==
  LET name == IF config.workstream # None THEN config.workstream ELSE config.queue IN
  IF name = None THEN "default"
  ELSE IF name \in apps[Connected].backgroundOptions.names THEN name ELSE None

-----------------------------------------------------------------------------
CallEnds(r, status) ==
  /\ calls' = Append(calls, [request |-> r, status |-> status])
  /\ UNCHANGED <<waiting, now>>

(* Mutant: a delayed job waits with the others as well. *)
StoresAtOnce(r, queue, opts, delay) ==
  LET job == [request |-> r, status |-> IF delay = 0 THEN "waiting" ELSE "delayed",
              queue |-> queue, group |-> Honoured(opts).group, priority |-> Honoured(opts).priority,
              pro |-> Provider = "pro", created |-> now, due |-> now + delay] IN
  /\ calls' = Append(calls, job)
  /\ waiting' = Append(waiting, Len(calls) + 1)
  /\ UNCHANGED now

(* BullMQ stores the job, waiting or delayed until it is due. *)
Stores(r, queue, opts, delay) ==
  LET job == [request |-> r, status |-> IF delay = 0 THEN "waiting" ELSE "delayed",
              queue |-> queue, group |-> Honoured(opts).group, priority |-> Honoured(opts).priority,
              pro |-> Provider = "pro", created |-> now, due |-> now + delay] IN
  /\ calls' = Append(calls, job)
  /\ waiting' = IF delay = 0 THEN Append(waiting, Len(calls) + 1) ELSE waiting
  /\ UNCHANGED now

Connects == registry' = Connected /\ UNCHANGED <<role, apps, conf, cached>>

(* EnvInternal.isTest && workersApp.testInvocation === 'automatic' *)
Immediately == role = "test" /\ apps[cached].testInvocation = "automatic"

(* Mutant: tests run the job before its queue is looked up. *)
AddToQueueTestsFirst(r, delaySeconds) ==
  LET queue == QueueInstance(r.config) IN
  \/ r.dream /\ CallEnds(r, "AttemtedToBackgroundEntireDreamModel")
  \/ ~r.dream /\ Immediately /\ CallEnds(r, "ran")
  \/ ~r.dream /\ ~Immediately /\ queue = None /\ CallEnds(r, "NoQueueForSpecifiedName")
  \/ ~r.dream /\ ~Immediately /\ queue # None /\ Stores(r, queue, Options(r.config), DelayMilliseconds(delaySeconds))

(* _addToQueue: the job runs at once in tests (and the call ends as its    *)
(* method does), or is added, unless redis fails to.                       *)
AddToQueue(r, delaySeconds) ==
  LET queue == QueueInstance(r.config) IN
  \/ r.dream /\ CallEnds(r, "AttemtedToBackgroundEntireDreamModel")
  \/ ~r.dream /\ queue = None /\ CallEnds(r, "NoQueueForSpecifiedName")
  \/ ~r.dream /\ queue # None /\ Immediately /\ CallEnds(r, "ran")
  \/ /\ ~r.dream /\ queue # None /\ ~Immediately
     /\ \/ Stores(r, queue, Options(r.config), DelayMilliseconds(delaySeconds))
        \/ CallEnds(r, "redis")

(* connect(), which throws before anything is registered, then the rest. *)
ConnectAnd(r, Rest) ==
  \/ ~CanConnect /\ CallEnds(r, "not connected") /\ UNCHANGED appVars
  \/ CanConnect /\ Connects /\ Rest

StaticMethod(r, delaySeconds) == ConnectAnd(r, AddToQueue(r, delaySeconds))

ModelInstanceMethod(r, delaySeconds) == ConnectAnd(r, AddToQueue(r, delaySeconds))

(* The scheduler makes the job, from its template. *)
ScheduledMethod(r) ==
  LET queue == QueueInstance(r.config) IN
  ConnectAnd(r,
    \/ queue = None /\ CallEnds(r, "NoQueueForSpecifiedName")
    \/ queue # None /\ Stores(r, queue, TemplateOptions, Minute)
    \/ queue # None /\ CallEnds(r, "redis"))

(* The getter throws until the class was loaded. *)
WithGlobalName(r, Rest) ==
  \/ ~r.named /\ CallEnds(r, "GlobalNameNotSet") /\ UNCHANGED appVars
  \/ r.named /\ Rest

Calling(r, entry) == r.entry = entry /\ Len(calls) < MaxCalls

ServiceBackground(r) ==
  Calling(r, "service") /\ r.delay = None /\ WithGlobalName(r, StaticMethod(r, 0))

ServiceBackgroundWithDelay(r) ==
  /\ Calling(r, "service")
  /\ r.delay # None
  /\ WithGlobalName(r, StaticMethod(r, DurationToSeconds(r.delay)))

ModelBackground(r) ==
  Calling(r, "model") /\ r.delay = None /\ WithGlobalName(r, StaticMethod(r, 0))

ModelBackgroundWithDelay(r) ==
  /\ Calling(r, "model")
  /\ r.delay # None
  /\ WithGlobalName(r, StaticMethod(r, DurationToSeconds(r.delay)))

InstanceBackground(r) ==
  Calling(r, "instance") /\ r.delay = None /\ ModelInstanceMethod(r, 0)

InstanceBackgroundWithDelay(r) ==
  /\ Calling(r, "instance")
  /\ r.delay # None
  /\ ModelInstanceMethod(r, DurationToSeconds(r.delay))

Schedule(r) == Calling(r, "schedule") /\ WithGlobalName(r, ScheduledMethod(r))

Call(r) ==
  \/ ServiceBackground(r) \/ ServiceBackgroundWithDelay(r)
  \/ ModelBackground(r) \/ ModelBackgroundWithDelay(r)
  \/ InstanceBackground(r) \/ InstanceBackgroundWithDelay(r)
  \/ Schedule(r)

-----------------------------------------------------------------------------
(* BullMQ and its workers, in other processes. *)

Delayed == {i \in DOMAIN calls : calls[i].status = "delayed"}

Elapse ==
  /\ \E i \in Delayed :
       /\ now < calls[i].due
       /\ \A j \in Delayed : calls[i].due <= calls[j].due
       /\ now' = calls[i].due
  /\ UNCHANGED <<calls, waiting>>

FallDue(i) ==
  /\ i \in Delayed
  /\ calls[i].due <= now
  /\ calls' = [calls EXCEPT ![i].status = "waiting"]
  /\ waiting' = Append(waiting, i)
  /\ UNCHANGED now

(* Jobs of one group, or of none, start by priority, those without any     *)
(* first, and by the order they came in; nothing is said across groups.    *)
Rivals(i, j) == calls[i].queue = calls[j].queue /\ calls[i].group = calls[j].group

Start(n) ==
  LET i == waiting[n] IN
  /\ \A m \in DOMAIN waiting : Rivals(i, waiting[m]) =>
       LET j == waiting[m] IN
       \/ calls[i].priority < calls[j].priority
       \/ calls[i].priority = calls[j].priority /\ n <= m
  /\ calls' = [calls EXCEPT ![i].status = "started"]
  /\ waiting' = SubSeq(waiting, 1, n - 1) \o SubSeq(waiting, n + 1, Len(waiting))
  /\ UNCHANGED now

QueueStep ==
  \/ Elapse
  \/ \E i \in Delayed : FallDue(i)
  \/ \E n \in DOMAIN waiting : Start(n)

-----------------------------------------------------------------------------
Starts(i) == calls[i].status = "waiting" /\ calls'[i].status = "started"

(***************************************************************************)
(* Backgrounded jobs start in the order of the priorities their classes    *)
(* ask for, whether they were delayed or not: none starts while a more     *)
(* urgent one of the same queue and group waits (jobConfigToPriority,      *)
(* mapPriorityWordToPriorityNumber, _addToQueue).  Not so for grouped jobs *)
(* without BullMQ Pro, nor for the jobs of schedulers.                     *)
(***************************************************************************)
Urgency == [word \in Priorities |->
              CHOOSE n \in 1 .. 4 : <<"urgent", "default", "not_urgent", "last">>[n] = word]

Asked(i) == IF calls[i].request.config.priority = None THEN Urgency["default"]
            ELSE Urgency[calls[i].request.config.priority]

Comparable(i, j) ==
  LET c == calls[i].request.config
      d == calls[j].request.config IN
  /\ "schedule" \notin {calls[i].request.entry, calls[j].request.entry}
  /\ c.workstream = d.workstream /\ c.queue = d.queue /\ c.groupId = d.groupId
  /\ c.workstream # None \/ c.groupId # None => calls[i].pro /\ calls[j].pro

UrgentFirst ==
  [][\A i, j \in DOMAIN calls :
       Starts(i) /\ calls[j].status = "waiting" /\ Comparable(i, j) => Asked(i) <= Asked(j)]_callVars

(***************************************************************************)
(* No job starts before the days, hours, minutes and seconds its call      *)
(* asked for have passed on the clock of BullMQ, which counts milliseconds *)
(* (backgroundWithDelay, durationToSeconds, the delay of _addToQueue).     *)
(***************************************************************************)
Asks(d) == d.days * 86400000 + d.hours * 3600000 + d.minutes * 60000 + d.seconds * 1000

NeverEarly ==
  [][\A i \in DOMAIN calls :
       Starts(i) /\ calls[i].request.delay # None =>
         now >= calls[i].created + Asks(calls[i].request.delay)]_callVars

(***************************************************************************)
(* "mismatches will raise exceptions even in tests" (_addToQueue): a call  *)
(* that names a queue the options it runs with do not have, or passes a    *)
(* Dream, rejects wherever it is made, and whichever app tests have        *)
(* initialized since the singleton connected.                              *)
(***************************************************************************)
Mismatched(r, app) ==
  \/ r.dream /\ r.entry # "schedule"
  \/ ({r.config.workstream, r.config.queue} \ {None}) \ app.backgroundOptions.names # {}

TestsRaiseMismatches ==
  [][\A i \in DOMAIN calls' \ DOMAIN calls :
       registry' # 0 /\ Mismatched(calls'[i].request, apps[registry']) =>
         calls'[i].status \in Errors]_<<calls, registry>>

-----------------------------------------------------------------------------
(* The inductive invariant: a job is what its call asks for, and waits     *)
(* once.                                                                   *)

QueueName(config) ==
  IF config.workstream # None THEN config.workstream
  ELSE IF config.queue # None THEN config.queue ELSE "default"

AsAsked(job) ==
  LET r == job.request
      groupId == JobConfigToGroupId(r.config) IN
  /\ job.queue = QueueName(r.config)
  /\ r.entry # "schedule" /\ (groupId = None \/ job.pro) =>
       /\ job.group = groupId
       /\ job.priority = MapPriorityWordToPriorityNumber(JobConfigToPriority(r.config))
  /\ r.delay # None => job.due >= job.created + Asks(r.delay)
  /\ job.status = "waiting" => now >= job.due

JobsAsAsked ==
  \A i \in DOMAIN calls : calls[i].status \in {"delayed", "waiting", "started"} => AsAsked(calls[i])

WaitsOnce == \A m, n \in DOMAIN waiting : waiting[m] = waiting[n] => m = n

CallIInv == CallsTypeOK /\ JobsAsAsked /\ WaitsOnce
=============================================================================
