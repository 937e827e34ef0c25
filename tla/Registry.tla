------------------------------ MODULE Registry ------------------------------
(***************************************************************************)
(* The Background singleton of each process of an application: its queues, *)
(* workers and redis connections (src/background/index.ts: connect,        *)
(* simpleConnect, nativeBullMQConnect, work, queueInstance and the effect  *)
(* of closeAllRedisConnections), the redis servers the processes share,    *)
(* and the types the sync command generates from the registry              *)
(* (src/cli/ASTWorkersSchemaBuilder.ts).                                   *)
(*                                                                         *)
(* connect() registers the default queue, then the named queues in the     *)
(* order of the options, then, for simple options, the same again for the  *)
(* transitional workstreams.  It is one synchronous call, taken here one   *)
(* queue at a time: "call" says where the process is in it, and nothing    *)
(* else runs in that process meanwhile.  An exception leaves behind what   *)
(* was registered so far.                                                  *)
(***************************************************************************)
EXTENDS Integers, Sequences

CONSTANTS
  Processes,     \* web servers, workers, scripts: one singleton each
  WorkerProcesses,  \* those that call background.work()
  Connections,   \* the ioredis instances the options name
  Server,        \* the redis server or cluster behind each connection
  Clusters,      \* the connections that are instances of Cluster
  Names,         \* the names options and job configs may give a queue
  BareName,      \* each name without its braces
  DefaultName,   \* Background.defaultQueueName
  Groups,        \* the group ids of native workers
  Deployments,   \* the background options each process may run with
  None           \* an option or argument that was not given

QueueNames == [bare : {BareName[n] : n \in Names \cup {DefaultName}}, hashTag : BOOLEAN]

Queues == [queueName : QueueNames, connection : Connections]

ASSUME ConnectionsAssumption ==
  /\ None \notin Connections \cup Names \cup Groups \cup Nat
  /\ None \notin Queues
  /\ \A ids \in SUBSET Groups : ids # None
  /\ WorkerProcesses \subseteq Processes
  /\ Clusters \subseteq Connections

-----------------------------------------------------------------------------
(***************************************************************************)
(* Options, by the types that describe them                                *)
(* (src/psychic-app-workers/index.ts).  "default" stands for the default   *)
(* workstream or defaultQueueOptions with defaultWorkerCount, "named" for  *)
(* the named workstreams or queues in their order; extraWorkers is FALSE   *)
(* only for a native queue without an entry in namedQueueWorkers, and      *)
(* group is the group.id of that entry.  Concurrency, rate limits and      *)
(* BullMQ's own options do not show here.                                  *)
(***************************************************************************)
Optional(S) == {None} \cup S

(* PsychicBackgroundWorkstreamOptions *)
Workstreams ==
  [name : Names, queueConnection : Optional(Connections), workerConnection : Optional(Connections),
   extraWorkers : {TRUE}, workerCount : Optional(Nat), group : {None}]

(* Its defaultWorkstream has no connections of its own. *)
DefaultWorkstreams ==
  [name : {DefaultName}, queueConnection : {None}, workerConnection : {None},
   extraWorkers : {TRUE}, workerCount : Optional(Nat), group : {None}]

(* QueueOptionsWithConnectionInstance, with its BullMQNativeWorkerOptions *)
NativeQueues ==
  [name : Names, queueConnection : Optional(Connections), workerConnection : Optional(Connections),
   extraWorkers : BOOLEAN, workerCount : Optional(Nat), group : Optional(Groups)]

DefaultNativeQueues ==
  [name : {DefaultName}, queueConnection : Optional(Connections),
   workerConnection : Optional(Connections),
   extraWorkers : {TRUE}, workerCount : Optional(Nat), group : {None}]

(* TransitionalPsychicBackgroundSimpleOptions *)
TransitionalOptions ==
  [native : {FALSE}, defaultQueueConnection : Connections,
   defaultWorkerConnection : Optional(Connections),
   default : DefaultWorkstreams, named : Seq(Workstreams), transitional : {None}]

(* PsychicBackgroundSimpleOptions *)
SimpleOptions ==
  [native : {FALSE}, defaultQueueConnection : Connections,
   defaultWorkerConnection : Optional(Connections),
   default : DefaultWorkstreams, named : Seq(Workstreams),
   transitional : Optional(TransitionalOptions)]

(* The keys of namedQueueOptions, in their order. *)
NamedQueueOptions ==
  {named \in Seq(NativeQueues) :
     \A i, j \in 1 .. Len(named) : named[i].name = named[j].name => i = j}

(* PsychicBackgroundNativeBullMQOptions *)
NativeOptions ==
  [native : {TRUE}, defaultQueueConnection : Optional(Connections),
   defaultWorkerConnection : Optional(Connections),
   default : DefaultNativeQueues, named : NamedQueueOptions, transitional : {None}]

ASSUME OptionsAssumption == Deployments \subseteq [Processes -> SimpleOptions \cup NativeOptions]

VARIABLES
  options,       \* backgroundOptions of each process
  background,    \* the fields of each process's singleton
  call,          \* the connect() each process is in
  working,       \* how work() ended: "no", "started", "threw"
  quit,          \* the connections each process has quit
  stored,        \* the jobs waiting on the redis servers
  types          \* types/workers.ts as the sync command of each process left it

vars == <<options, background, call, working, quit, stored, types>>

-----------------------------------------------------------------------------
Or(a, b) == IF a # None THEN a ELSE b          \* a || b

(* Mutant: pushed without the test. *)
GivenOrNot(a, b) == {a, b}

(* Mutant: the worker connection is not pushed. *)
GivenQueueConnection(a, b) == {a} \ {None}

Given(a, b) == {a, b} \ {None}                \* if (a) push(a); if (b) push(b)

DefaultQueueConnection(o)  == Or(o.default.queueConnection, o.defaultQueueConnection)
DefaultWorkerConnection(o) == Or(o.default.workerConnection, o.defaultWorkerConnection)
QueueConnection(o, q)      == Or(q.queueConnection, DefaultQueueConnection(o))
(* Mutant: no fallback to the default worker connection. *)
OwnWorkerConnection(o, q)  == q.workerConnection
WorkerConnection(o, q)     == Or(q.workerConnection, DefaultWorkerConnection(o))

WorkerCount(q) ==
  IF ~q.extraWorkers THEN 0 ELSE IF q.workerCount = None THEN 1 ELSE q.workerCount

(* nameToRedisQueueName.  The braces put around the bare name on a cluster *)
(* are a hash tag: they keep all keys of the queue on one node.            *)
RedisQueueName(name, connection) ==
  [bare |-> BareName[name], hashTag |-> connection \in Clusters]

NewQueue(name, connection) ==
  [queueName |-> RedisQueueName(name, connection), connection |-> connection]

NewWorkers(queue, connection, count) ==
  {[queueName |-> queue.queueName, connection |-> connection, number |-> i]
     : i \in 1 .. count}

(* Where jobs are: two queues are the same if they agree on this. *)
Location(queue) ==
  [server |-> Server[queue.connection], queueName |-> queue.queueName]

-----------------------------------------------------------------------------
Entries == {"none", "connect", "work", "enqueue", "sync"}

NoCall == [entry |-> "none", transitional |-> FALSE, next |-> 0, target |-> None]

EmptyBackground ==
  [defaultQueue             |-> None,
   defaultTransitionalQueue |-> None,
   namedQueues              |-> [n \in Names |-> None],
   namedTransitionalQueues  |-> [n \in Names |-> None],
   workstreamNames          |-> {},
   groupNames               |-> [n \in Names |-> None],
   workers                  |-> {},
   redisConnections         |-> {}]

Init ==
  /\ options \in Deployments
  /\ background = [p \in Processes |-> EmptyBackground]
  /\ call = [p \in Processes |-> NoCall]
  /\ working = [p \in Processes |-> "no"]
  /\ quit = [p \in Processes |-> {}]
  /\ stored = {}
  /\ types = [p \in Processes |-> None]

InCall(p) == call[p].entry # "none"

(* The options the call is working through: all, or the transitional ones. *)
Section(p) == IF call[p].transitional THEN options[p].transitional ELSE options[p]

(* Mutant: activateWorkers not passed to the transitional call. *)
ActivateLiveWorkers(p) == call[p].entry = "work" /\ ~call[p].transitional

(* Only work() passes activateWorkers. *)
ActivateWorkers(p) == call[p].entry = "work"

(* An exception, "what" says which, ends the call and the entry point. *)
Throw(p, what) ==
  /\ call' = [call EXCEPT ![p] = NoCall]
  /\ working' = [working EXCEPT ![p] = IF call[p].entry = "work" THEN "threw" ELSE @]
  /\ UNCHANGED <<options, quit, stored, types>>

Continue(p) ==
  /\ call' = [call EXCEPT ![p].next = @ + 1]
  /\ UNCHANGED <<options, working, quit, stored, types>>

-----------------------------------------------------------------------------
(* Entry points. *)

Enter(p, entry, target) ==
  /\ ~InCall(p)
  /\ call' = [call EXCEPT ![p] = [NoCall EXCEPT !.entry = entry, !.target = target]]
  /\ UNCHANGED <<options, background, working, quit, stored, types>>

(* server:init:after-routes and the test utilities. *)
Connect(p) == Enter(p, "connect", None)

(* A process calls work() once. *)
Work(p) == working[p] = "no" /\ Enter(p, "work", None)

(* cli:sync: ASTWorkersSchemaBuilder#build, of a process that is no worker. *)
Sync(p) == Enter(p, "sync", None)

(* A job is backgrounded: target is the queue or workstream of its config. *)
Enqueue(p, target) == Enter(p, "enqueue", target)

(* server:shutdown, or the end of shutdown(): the registry stays as it is. *)
CloseAllRedisConnections(p) ==
  /\ ~InCall(p)
  /\ quit' = [quit EXCEPT ![p] = @ \cup background[p].redisConnections]
  /\ UNCHANGED <<options, background, call, working, stored, types>>

-----------------------------------------------------------------------------
(* connect(), simpleConnect() and nativeBullMQConnect(). *)

(* if (this.defaultQueue) return *)
AlreadyConnected(p) ==
  /\ call[p].next = 0
  /\ ~call[p].transitional
  /\ background[p].defaultQueue # None

RegisterDefaultQueue(b, transitional, queue) ==
  IF transitional
  THEN [b EXCEPT !.defaultTransitionalQueue = queue]
  ELSE [b EXCEPT !.defaultQueue = queue]

(* Mutant: transitional queues land among the live ones. *)
RegisterNamedQueueAlwaysLive(b, transitional, q, queue) ==
  [b EXCEPT !.namedQueues[q.name] = queue]

(* Mutant: transitional workstreams count among the names. *)
RegisterNamedQueueAndName(b, transitional, q, queue) ==
  IF transitional
  THEN [b EXCEPT !.namedTransitionalQueues[q.name] = queue, !.workstreamNames = @ \cup {q.name}]
  ELSE [b EXCEPT !.namedQueues[q.name] = queue, !.workstreamNames = @ \cup {q.name}]

(* simpleConnect notes the names of the live workstreams. *)
RegisterNamedQueue(b, transitional, q, queue) ==
  IF transitional
  THEN [b EXCEPT !.namedTransitionalQueues[q.name] = queue]
  ELSE [b EXCEPT !.namedQueues[q.name] = queue, !.workstreamNames = @ \cup {q.name}]

(* nativeBullMQConnect notes the group of the queue's extra workers. *)
RegisterNativeQueue(b, q, queue) ==
  [b EXCEPT !.namedQueues[q.name] = queue, !.groupNames[q.name] = {q.group} \ {None}]

PushConnections(b, connections) ==
  [b EXCEPT !.redisConnections = @ \cup connections]

PushWorkers(b, workers) == [b EXCEPT !.workers = @ \cup workers]

ConnectDefaultQueue(p) ==
  LET o == Section(p)
      queueConnection  == DefaultQueueConnection(o)
      workerConnection == DefaultWorkerConnection(o)
      queue == NewQueue(DefaultName, queueConnection)
      pushed == PushConnections(background[p], Given(queueConnection, workerConnection))
      registered == RegisterDefaultQueue(pushed, call[p].transitional, queue)
  IN
  /\ InCall(p)
  /\ ~AlreadyConnected(p)
  /\ call[p].next = 0
  /\ \/ /\ o.native
        /\ queueConnection = None
        /\ background' = [background EXCEPT ![p] = pushed]
        /\ Throw(p, "DefaultBullMQNativeOptionsMissingQueueConnection")
     \/ /\ queueConnection # None
        /\ ActivateWorkers(p)
        /\ workerConnection = None
        /\ background' = [background EXCEPT ![p] = registered]
        /\ Throw(p, "ActivatingBackgroundWorkersWithoutDefaultWorkerConnection")
     \/ /\ queueConnection # None
        /\ ActivateWorkers(p)
        /\ workerConnection # None
        /\ background' = [background EXCEPT ![p] = PushWorkers(registered,
             NewWorkers(queue, workerConnection, WorkerCount(o.default)))]
        /\ Continue(p)
     \/ /\ queueConnection # None
        /\ ~ActivateWorkers(p)
        /\ background' = [background EXCEPT ![p] = registered]
        /\ Continue(p)

ConnectNamedQueue(p) ==
  LET o == Section(p)
      q == o.named[call[p].next]
      queueConnection  == QueueConnection(o, q)
      workerConnection == WorkerConnection(o, q)
      queue == NewQueue(q.name, queueConnection)
      pushed == PushConnections(background[p], Given(q.queueConnection, q.workerConnection))
      registered == IF o.native THEN RegisterNativeQueue(pushed, q, queue)
                    ELSE RegisterNamedQueue(pushed, call[p].transitional, q, queue)
  IN
  /\ InCall(p)
  /\ call[p].next \in 1 .. Len(o.named)
  /\ \/ /\ o.native
        /\ queueConnection = None
        /\ background' = [background EXCEPT ![p] = pushed]
        /\ Throw(p, "NamedBullMQNativeOptionsMissingQueueConnection")
     \/ /\ queueConnection # None
        /\ ActivateWorkers(p)
        /\ workerConnection = None
        /\ background' = [background EXCEPT ![p] = registered]
        /\ Throw(p, "ActivatingNamedQueueBackgroundWorkersWithoutWorkerConnection")
     \/ /\ queueConnection # None
        /\ ActivateWorkers(p)
        /\ workerConnection # None
        /\ background' = [background EXCEPT ![p] = PushWorkers(registered,
             NewWorkers(queue, workerConnection, WorkerCount(q)))]
        /\ Continue(p)
     \/ /\ queueConnection # None
        /\ ~ActivateWorkers(p)
        /\ background' = [background EXCEPT ![p] = registered]
        /\ Continue(p)

SectionDone(p) == call[p].next > Len(Section(p).named)

(* simpleConnect calls itself for the transitional workstreams. *)
ConnectTransitional(p) ==
  /\ InCall(p)
  /\ SectionDone(p)
  /\ ~call[p].transitional
  /\ options[p].transitional # None
  /\ call' = [call EXCEPT ![p].transitional = TRUE, ![p].next = 0]
  /\ UNCHANGED <<options, background, working, quit, stored, types>>

Connected(p) ==
  \/ AlreadyConnected(p)
  \/ SectionDone(p) /\ (call[p].transitional \/ options[p].transitional = None)

-----------------------------------------------------------------------------
(* The entry point goes on when connect() returns. *)

Return(p) ==
  /\ call' = [call EXCEPT ![p] = NoCall]
  /\ UNCHANGED <<options, background, quit>>

ReturnFromConnect(p) ==
  /\ call[p].entry = "connect"
  /\ Connected(p)
  /\ Return(p)
  /\ UNCHANGED <<working, stored, types>>

ReturnFromWork(p) ==
  /\ call[p].entry = "work"
  /\ Connected(p)
  /\ working' = [working EXCEPT ![p] = "started"]
  /\ Return(p)
  /\ UNCHANGED <<stored, types>>

(* buildWorkersTypeConfigConst, once connect() has returned. *)
WorkersTypeConfig(b) ==
  [workstreamNames |-> b.workstreamNames,
   queueGroupMap   |-> [n \in {m \in Names : b.groupNames[m] # None} |-> b.groupNames[n]]]

(* prettier: formatted, or as it is if prettier is missing or fails. *)
Prettier(output) == {[output |-> output, formatted |-> f] : f \in BOOLEAN}

(* build: types/workers.ts is written. *)
ReturnFromSync(p) ==
  /\ call[p].entry = "sync"
  /\ Connected(p)
  /\ \E file \in Prettier(WorkersTypeConfig(background[p])) : types' = [types EXCEPT ![p] = file]
  /\ Return(p)
  /\ UNCHANGED <<working, stored>>

(* Mutant: an unknown name falls back to the default queue. *)
QueueInstanceOrDefault(p, target) ==
  LET b == background[p] IN
  IF target = None THEN b.defaultQueue
  ELSE IF b.namedQueues[target] = None THEN b.defaultQueue ELSE b.namedQueues[target]

(* queueInstance: None stands for undefined. *)
QueueInstance(p, target) ==
  LET b == background[p] IN
  IF target = None THEN b.defaultQueue ELSE b.namedQueues[target]

AddToQueue(p) ==
  LET target == call[p].target
      queue  == QueueInstance(p, target)
  IN
  /\ call[p].entry = "enqueue"
  /\ Connected(p)
  /\ \/ /\ queue = None
        /\ Throw(p, "NoQueueForSpecifiedName")
        /\ UNCHANGED background
     \/ /\ queue # None
        /\ queue.connection \in quit[p]
        /\ Throw(p, "ConnectionIsClosed")
        /\ UNCHANGED background
     \/ /\ queue # None
        /\ queue.connection \notin quit[p]
        /\ stored' = stored \cup {[target |-> target, at |-> Location(queue)]}
        /\ Return(p)
        /\ UNCHANGED <<working, types>>

(* The getter "queues": what is registered, live and transitional. *)
AllQueues(b) ==
  ({b.defaultQueue, b.defaultTransitionalQueue}
     \cup {b.namedQueues[n] : n \in Names}
     \cup {b.namedTransitionalQueues[n] : n \in Names}) \ {None}

(* A worker takes and works off a job of the queue it was created for. *)
Serves(p, w, at) ==
  /\ w \in background[p].workers
  /\ w.connection \notin quit[p]
  /\ Server[w.connection] = at.server
  /\ w.queueName = at.queueName

WorkJob(job) ==
  /\ job \in stored
  /\ \E p \in Processes : \E w \in background[p].workers : Serves(p, w, job.at)
  /\ stored' = stored \ {job}
  /\ UNCHANGED <<options, background, call, working, quit, types>>

-----------------------------------------------------------------------------
Step(p) ==
  \/ ConnectDefaultQueue(p) \/ ConnectNamedQueue(p) \/ ConnectTransitional(p)
  \/ ReturnFromConnect(p) \/ ReturnFromWork(p) \/ ReturnFromSync(p) \/ AddToQueue(p)

Next ==
  \/ \E p \in WorkerProcesses : Work(p)
  \/ \E p \in Processes \ WorkerProcesses : Sync(p)
  \/ \E p \in Processes :
       \/ Connect(p) \/ CloseAllRedisConnections(p)
       \/ \E target \in Names \cup {None} : Enqueue(p, target)
       \/ Step(p)
  \/ \E job \in stored : WorkJob(job)

Spec == Init /\ [][Next]_vars

-----------------------------------------------------------------------------
(* What the options ask for, said without connect(). *)

Sections(o) == {o} \cup (IF o.transitional = None THEN {} ELSE {o.transitional})

NamedQueuesOf(o) == {o.named[i] : i \in 1 .. Len(o.named)}

QueuesOf(o) == {o.default} \cup NamedQueuesOf(o)

ConfiguredQueue(o, q) == NewQueue(q.name, QueueConnection(o, q))

ConfiguredWorkers(o) ==
  UNION {UNION {NewWorkers(ConfiguredQueue(s, q), WorkerConnection(s, q), WorkerCount(q))
                  : q \in QueuesOf(s)} : s \in Sections(o)}

(* Where the jobs of a config belong: never on a transitional queue. *)
ConfiguredLocations(o, target) ==
  {Location(ConfiguredQueue(o, q))
     : q \in IF target = None THEN {o.default}
             ELSE {r \in NamedQueuesOf(o) : r.name = target}}

WorkedLocations(o) ==
  UNION {{Location(ConfiguredQueue(s, q)) : q \in {r \in QueuesOf(s) : WorkerCount(r) > 0}}
           : s \in Sections(o)}

(* The options have a queue connection for the default queue. *)
CanStore(o) == DefaultQueueConnection(o) # None

(* Every job that some process may store. *)
Jobs ==
  UNION {UNION {{[target |-> t, at |-> l]
                   : l \in IF CanStore(d[p]) THEN ConfiguredLocations(d[p], t) ELSE {}}
                  : p \in Processes, t \in Names \cup {None}} : d \in Deployments}

(* Nothing is assumed of who calls what; a call that was begun goes on, and *)
(* a worker that is waiting for jobs gets those in its queue.               *)
FairSpec ==
  /\ Spec
  /\ \A p \in Processes : WF_vars(Step(p))
  /\ \A job \in Jobs : WF_vars(WorkJob(job))

-----------------------------------------------------------------------------
QueueOrNone == Optional(Queues)

Backgrounds ==
  [defaultQueue             : QueueOrNone,
   defaultTransitionalQueue : QueueOrNone,
   namedQueues              : [Names -> QueueOrNone],
   namedTransitionalQueues  : [Names -> QueueOrNone],
   workstreamNames          : SUBSET Names,
   groupNames               : [Names -> Optional(SUBSET Groups)],
   workers                  : SUBSET [queueName : QueueNames, connection : Connections, number : Nat],
   redisConnections         : SUBSET Connections]

Calls == [entry : Entries, transitional : BOOLEAN, next : Nat, target : Names \cup {None}]

TypeOK ==
  /\ options \in Deployments
  /\ background \in [Processes -> Backgrounds]
  /\ call \in [Processes -> Calls]
  /\ working \in [Processes -> {"no", "started", "threw"}]
  /\ quit \in [Processes -> SUBSET Connections]
  /\ \A p \in Processes : quit[p] \subseteq background[p].redisConnections
  /\ stored \subseteq Jobs
  /\ DOMAIN types = Processes
  /\ \A p \in Processes : types[p] # None => types[p].formatted \in BOOLEAN

(***************************************************************************)
(* A job is stored where the options of a process that backgrounds it      *)
(* put its queue or workstream, whatever calls, failed calls and           *)
(* transitional workstreams came before; an unknown name never falls back  *)
(* to another queue (queueInstance, simpleConnect).                        *)
(***************************************************************************)
RoutedAsConfigured ==
  \A job \in stored : \E p \in Processes :
    CanStore(options[p]) /\ job.at \in ConfiguredLocations(options[p], job.target)

(***************************************************************************)
(* closeAllRedisConnections reaches every connection a queue or worker of  *)
(* the registry uses, also after a connect() that threw half way           *)
(* (redisConnections).                                                     *)
(***************************************************************************)
ConnectionsRegistered ==
  \A p \in Processes :
    LET b == background[p] IN
    \A user \in AllQueues(b) \cup b.workers : user.connection \in b.redisConnections

(***************************************************************************)
(* work() that returns leaves all workers the options ask for, those of    *)
(* the transitional workstreams included, or none at all (because          *)
(* connect() had been called before); never some of them.                  *)
(***************************************************************************)
AllOrNoWorkers ==
  \A p \in Processes : working[p] = "started" =>
    background[p].workers \in {{}, ConfiguredWorkers(options[p])}

(***************************************************************************)
(* The two exceptions for named queues without a connection are never      *)
(* thrown: without a default connection to fall back on, the default queue *)
(* has thrown first (simpleConnect, nativeBullMQConnect).                  *)
(***************************************************************************)
NamedErrorsUnreachable ==
  \A p \in Processes :
    LET o == Section(p)
        q == o.named[call[p].next] IN
    InCall(p) /\ call[p].next \in 1 .. Len(o.named) =>
      /\ QueueConnection(o, q) # None
      /\ ActivateWorkers(p) => WorkerConnection(o, q) # None

(***************************************************************************)
(* The types name the live workstreams of simple options and the native    *)
(* queues with their groups, as the options do, whatever the process did   *)
(* before the sync; the workstreams of a legacy redis, on which nothing    *)
(* can be backgrounded, are not among them (buildWorkersTypeConfigConst).  *)
(***************************************************************************)
TypesAsConfigured ==
  \A p \in Processes : types[p] # None =>
    LET o == options[p]
        names == {q.name : q \in NamedQueuesOf(o)} IN
    /\ types[p].output.workstreamNames = IF o.native THEN {} ELSE names
    /\ DOMAIN types[p].output.queueGroupMap = IF o.native THEN names ELSE {}
    /\ \A q \in NamedQueuesOf(o) : o.native =>
         types[p].output.queueGroupMap[q.name] = {q.group} \ {None}

(***************************************************************************)
(* A job waiting in a live or transitional queue is worked off once some   *)
(* process has started the workers its options give that queue, unless     *)
(* that process closes its connections: "jobs already added to the legacy  *)
(* Redis instance continue to be worked" (transitionalWorkstreams).        *)
(***************************************************************************)
Working(p, at) ==
  /\ working[p] = "started"
  /\ background[p].workers # {}
  /\ quit[p] = {}
  /\ at \in WorkedLocations(options[p])

JobsAreWorked ==
  \A p \in Processes : \A job \in Jobs :
    (job \in stored /\ Working(p, job.at)) ~> (job \notin stored \/ ~Working(p, job.at))

(***************************************************************************)
(* "starts background workers": work() that returns leaves the workers the *)
(* options ask for (doc comment of work; the test "reads extra workers     *)
(* from app configuration and applies them when calling work method").     *)
(***************************************************************************)
WorkStartsWorkers ==
  \A p \in Processes : working[p] = "started" =>
    background[p].workers = ConfiguredWorkers(options[p])

-----------------------------------------------------------------------------
(***************************************************************************)
(* The inductive invariant: how far connect() has come says what is        *)
(* registered, for each process by itself.                                 *)
(***************************************************************************)
CallShape(p) ==
  LET c == call[p] IN
  /\ c.entry = "none" => c = NoCall
  /\ c.transitional => options[p].transitional # None
  /\ c.next <= Len(Section(p).named) + 1
  /\ c.entry = "work" => p \in WorkerProcesses /\ working[p] = "no"
  /\ c.entry = "sync" => p \notin WorkerProcesses
  /\ (c.transitional \/ c.next > 0) => background[p].defaultQueue # None

(* A section that is past its default queue has connections to fall back on. *)
DefaultConnections(p) ==
  LET s == Section(p) IN
  call[p].next > 0 =>
    /\ DefaultQueueConnection(s) # None
    /\ ActivateWorkers(p) => DefaultWorkerConnection(s) # None
    /\ Given(DefaultQueueConnection(s), DefaultWorkerConnection(s)) \subseteq background[p].redisConnections

RegisteredAsConfigured(p) ==
  LET b == background[p]
      o == options[p] IN
  /\ b.defaultQueue # None => CanStore(o) /\ b.defaultQueue = ConfiguredQueue(o, o.default)
  /\ \A n \in Names : b.namedQueues[n] # None =>
       /\ b.defaultQueue # None
       /\ \E q \in NamedQueuesOf(o) : q.name = n /\ b.namedQueues[n] = ConfiguredQueue(o, q)

(* The workers a section has got when it is at queue "next". *)
QueueWorkers(s, q) == NewWorkers(ConfiguredQueue(s, q), WorkerConnection(s, q), WorkerCount(q))

QueuesBefore(s, next) ==
  IF next = 0 THEN {} ELSE {s.default} \cup {s.named[i] : i \in 1 .. next - 1}

SectionWorkers(s, next) == UNION {QueueWorkers(s, q) : q \in QueuesBefore(s, next)}

WorkersSoFar(p) ==
  LET o == options[p] IN
  IF call[p].transitional
  THEN SectionWorkers(o, Len(o.named) + 1) \cup SectionWorkers(o.transitional, call[p].next)
  ELSE SectionWorkers(o, call[p].next)

WorkersAsConfigured(p) ==
  /\ working[p] = "no" => background[p].workers = IF call[p].entry = "work" THEN WorkersSoFar(p) ELSE {}
  /\ working[p] = "started" => background[p].workers \in {{}, ConfiguredWorkers(options[p])}

(* The named queues registered of the live section. *)
LiveQueues(p) ==
  IF background[p].defaultQueue = None THEN {}
  ELSE 1 .. IF ~call[p].transitional /\ call[p].next > 0 THEN call[p].next - 1 ELSE Len(options[p].named)

NamesAsConfigured(p) ==
  LET b == background[p]
      o == options[p]
      names == {o.named[i].name : i \in LiveQueues(p)} IN
  /\ b.workstreamNames = IF o.native THEN {} ELSE names
  /\ {n \in Names : b.groupNames[n] # None} = IF o.native THEN names ELSE {}
  /\ o.native => \A i \in LiveQueues(p) : b.groupNames[o.named[i].name] = {o.named[i].group} \ {None}

ProcessInv(p) ==
  /\ CallShape(p)
  /\ DefaultConnections(p)
  /\ RegisteredAsConfigured(p)
  /\ WorkersAsConfigured(p)
  /\ p \notin WorkerProcesses => NamesAsConfigured(p)

IInv ==
  /\ TypeOK
  /\ RoutedAsConfigured
  /\ ConnectionsRegistered
  /\ TypesAsConfigured
  /\ \A p \in Processes : ProcessInv(p)
=============================================================================
