--------------------------- MODULE Registry_proofs ---------------------------
(***************************************************************************)
(* Proofs about Registry, for any processes, connections and options.      *)
(***************************************************************************)
EXTENDS Registry, TLAPS

(* What connect() works through: the options or their transitional part. *)
AnySection == SimpleOptions \cup NativeOptions \cup TransitionalOptions

(* The options of a queue or workstream, of whichever kind. *)
QueueOptions ==
  [name : Names \cup {DefaultName}, queueConnection : Optional(Connections),
   workerConnection : Optional(Connections),
   extraWorkers : BOOLEAN, workerCount : Optional(Nat), group : Optional(Groups)]

WorkerRecords == [queueName : QueueNames, connection : Connections, number : Nat]

LEMMA NamedQueuesTyped ==
  ASSUME NEW s \in AnySection
  PROVE  /\ Len(s.named) \in Nat
         /\ \A i \in 1 .. Len(s.named) : s.named[i] \in QueueOptions /\ s.named[i].name \in Names
<1>1. s.named \in Seq(Workstreams) \/ s.named \in Seq(NativeQueues)
  <2>1. CASE s \in SimpleOptions
    BY <2>1 DEF SimpleOptions
  <2>2. CASE s \in NativeOptions
    BY <2>2 DEF NativeOptions, NamedQueueOptions
  <2>3. CASE s \in TransitionalOptions
    BY <2>3 DEF TransitionalOptions
  <2> QED
    BY <2>1, <2>2, <2>3 DEF AnySection
<1>2. \A q \in Workstreams \cup NativeQueues : q \in QueueOptions /\ q.name \in Names
  BY DEF Workstreams, NativeQueues, QueueOptions, Optional
<1>3. ASSUME NEW T \in SUBSET (Workstreams \cup NativeQueues), s.named \in Seq(T)
      PROVE  /\ Len(s.named) \in Nat
             /\ \A i \in 1 .. Len(s.named) : s.named[i] \in QueueOptions /\ s.named[i].name \in Names
  <2>1. Len(s.named) \in Nat /\ \A i \in 1 .. Len(s.named) : s.named[i] \in T
    BY <1>3
  <2> QED
    BY <1>2, <2>1
<1> QED
  BY <1>1, <1>3

LEMMA DefaultQueueTyped ==
  ASSUME NEW s \in AnySection
  PROVE  /\ s.default \in QueueOptions /\ s.default.name = DefaultName
         /\ s.defaultQueueConnection \in Optional(Connections)
         /\ s.defaultWorkerConnection \in Optional(Connections)
         /\ s.native \in BOOLEAN
<1>1. CASE s \in SimpleOptions
  BY <1>1 DEF SimpleOptions, DefaultWorkstreams, QueueOptions, Optional
<1>2. CASE s \in NativeOptions
  BY <1>2 DEF NativeOptions, DefaultNativeQueues, QueueOptions, Optional
<1>3. CASE s \in TransitionalOptions
  BY <1>3 DEF TransitionalOptions, DefaultWorkstreams, QueueOptions, Optional
<1> QED
  BY <1>1, <1>2, <1>3 DEF AnySection

(* Only native options have groups, and their queues have distinct names. *)
LEMMA NativeNamesDiffer ==
  ASSUME NEW s \in AnySection, s.native
  PROVE  /\ s.transitional = None
         /\ \A i, j \in 1 .. Len(s.named) : s.named[i].name = s.named[j].name => i = j
  BY DEF AnySection, SimpleOptions, NativeOptions, TransitionalOptions, NamedQueueOptions

LEMMA SectionsTyped ==
  ASSUME TypeOK, NEW p \in Processes
  PROVE  /\ options[p] \in AnySection
         /\ options[p].transitional # None =>
              options[p].transitional \in AnySection /\ ~options[p].transitional.native
         /\ CallShape(p) => Section(p) \in AnySection
<1>1. options[p] \in SimpleOptions \cup NativeOptions
  BY OptionsAssumption DEF OptionsAssumption, TypeOK
<1>2. options[p].transitional \in Optional(TransitionalOptions)
  BY <1>1 DEF SimpleOptions, NativeOptions, Optional
<1>3. \A s \in TransitionalOptions : ~s.native
  BY DEF TransitionalOptions
<1> QED
  BY <1>1, <1>2, <1>3 DEF AnySection, Optional, Section, CallShape

LEMMA ConnectionsTyped ==
  ASSUME NEW s \in AnySection, NEW q \in QueueOptions
  PROVE  /\ DefaultQueueConnection(s) \in Optional(Connections)
         /\ DefaultWorkerConnection(s) \in Optional(Connections)
         /\ QueueConnection(s, q) \in Optional(Connections)
         /\ WorkerConnection(s, q) \in Optional(Connections)
         /\ DefaultQueueConnection(s) # None => QueueConnection(s, q) # None
         /\ DefaultWorkerConnection(s) # None => WorkerConnection(s, q) # None
         /\ QueueConnection(s, s.default) = DefaultQueueConnection(s)
         /\ WorkerConnection(s, s.default) = DefaultWorkerConnection(s)
         /\ QueueConnection(s, q) \in {q.queueConnection, DefaultQueueConnection(s)}
         /\ WorkerConnection(s, q) \in {q.workerConnection, DefaultWorkerConnection(s)}
         /\ Given(q.queueConnection, q.workerConnection) \subseteq Connections
         /\ Given(DefaultQueueConnection(s), DefaultWorkerConnection(s)) \subseteq Connections
<1>1. /\ s.default \in QueueOptions
      /\ s.defaultQueueConnection \in Optional(Connections)
      /\ s.defaultWorkerConnection \in Optional(Connections)
  BY DefaultQueueTyped
<1> QED
  BY <1>1 DEF QueueOptions, Optional, DefaultQueueConnection, DefaultWorkerConnection,
              QueueConnection, WorkerConnection, Or, Given

LEMMA NewQueueTyped ==
  ASSUME NEW name \in Names \cup {DefaultName}, NEW c \in Connections
  PROVE  /\ NewQueue(name, c) \in Queues
         /\ NewQueue(name, c) # None
         /\ NewQueue(name, c).connection = c
<1>1. RedisQueueName(name, c) \in QueueNames
  BY DEF RedisQueueName, QueueNames
<1>2. NewQueue(name, c) \in Queues
  BY <1>1 DEF NewQueue, Queues
<1> QED
  BY <1>2, ConnectionsAssumption DEF ConnectionsAssumption, NewQueue

LEMMA WorkerCountTyped ==
  ASSUME NEW q \in QueueOptions
  PROVE  WorkerCount(q) \in Nat
  BY DEF QueueOptions, WorkerCount, Optional

LEMMA NewWorkersTyped ==
  ASSUME NEW queue \in Queues, NEW c \in Connections, NEW count \in Nat
  PROVE  /\ NewWorkers(queue, c, count) \in SUBSET WorkerRecords
         /\ \A w \in NewWorkers(queue, c, count) : w.connection = c
  BY DEF NewWorkers, WorkerRecords, Queues

-----------------------------------------------------------------------------
(***************************************************************************)
(* What each assignment of connect() does to the fields of the singleton,  *)
(* and that no queue or worker loses its connection from redisConnections. *)
(***************************************************************************)
ConnectionsOf(b) == \A user \in AllQueues(b) \cup b.workers : user.connection \in b.redisConnections

SameQueues(b, c) ==
  /\ c.defaultQueue = b.defaultQueue /\ c.defaultTransitionalQueue = b.defaultTransitionalQueue
  /\ c.namedQueues = b.namedQueues /\ c.namedTransitionalQueues = b.namedTransitionalQueues
  /\ c.workstreamNames = b.workstreamNames /\ c.groupNames = b.groupNames

LEMMA Pushed ==
  ASSUME NEW b \in Backgrounds, ConnectionsOf(b), NEW S \in SUBSET Connections
  PROVE  /\ PushConnections(b, S) \in Backgrounds
         /\ SameQueues(b, PushConnections(b, S))
         /\ PushConnections(b, S).workers = b.workers
         /\ PushConnections(b, S).redisConnections = b.redisConnections \cup S
         /\ ConnectionsOf(PushConnections(b, S))
<1> DEFINE c == PushConnections(b, S)
<1>1. /\ c \in Backgrounds /\ SameQueues(b, c) /\ c.workers = b.workers
      /\ c.redisConnections = b.redisConnections \cup S
  BY DEF PushConnections, Backgrounds, SameQueues
<1> HIDE DEF c
<1>2. ConnectionsOf(c)
  BY <1>1 DEF ConnectionsOf, AllQueues, SameQueues
<1> QED
  BY <1>1, <1>2 DEF c

LEMMA WorkersPushed ==
  ASSUME NEW b \in Backgrounds, ConnectionsOf(b), NEW W \in SUBSET WorkerRecords,
         \A w \in W : w.connection \in b.redisConnections
  PROVE  /\ PushWorkers(b, W) \in Backgrounds
         /\ SameQueues(b, PushWorkers(b, W))
         /\ PushWorkers(b, W).workers = b.workers \cup W
         /\ PushWorkers(b, W).redisConnections = b.redisConnections
         /\ ConnectionsOf(PushWorkers(b, W))
<1> DEFINE c == PushWorkers(b, W)
<1>1. /\ c \in Backgrounds /\ SameQueues(b, c) /\ c.workers = b.workers \cup W
      /\ c.redisConnections = b.redisConnections
  BY DEF PushWorkers, Backgrounds, SameQueues, WorkerRecords
<1> HIDE DEF c
<1>2. ConnectionsOf(c)
  BY <1>1 DEF ConnectionsOf, AllQueues, SameQueues
<1> QED
  BY <1>1, <1>2 DEF c

LEMMA DefaultQueueRegistered ==
  ASSUME NEW b \in Backgrounds, ConnectionsOf(b), NEW queue \in Queues, NEW transitional \in BOOLEAN,
         queue.connection \in b.redisConnections,
         NEW c, c = RegisterDefaultQueue(b, transitional, queue)
  PROVE  /\ c \in Backgrounds
         /\ c.defaultQueue = (IF transitional THEN b.defaultQueue ELSE queue)
         /\ c.namedQueues = b.namedQueues
         /\ c.workstreamNames = b.workstreamNames /\ c.groupNames = b.groupNames
         /\ c.workers = b.workers /\ c.redisConnections = b.redisConnections
         /\ ConnectionsOf(c)
<1>1. /\ c \in Backgrounds
      /\ c.defaultQueue = (IF transitional THEN b.defaultQueue ELSE queue)
      /\ c.defaultTransitionalQueue = (IF transitional THEN queue ELSE b.defaultTransitionalQueue)
      /\ c.namedQueues = b.namedQueues /\ c.namedTransitionalQueues = b.namedTransitionalQueues
      /\ c.workstreamNames = b.workstreamNames /\ c.groupNames = b.groupNames
      /\ c.workers = b.workers /\ c.redisConnections = b.redisConnections
  BY DEF RegisterDefaultQueue, Backgrounds, QueueOrNone, Optional
<1>2. AllQueues(c) \subseteq AllQueues(b) \cup {queue}
  BY <1>1 DEF AllQueues
<1> QED
  BY <1>1, <1>2 DEF ConnectionsOf

RegisterLive(b, q, queue)         == RegisterNamedQueue(b, FALSE, q, queue)
RegisterTransitional(b, q, queue) == RegisterNamedQueue(b, TRUE, q, queue)

LiveRegistered(b, q, queue, c) ==
  /\ c \in Backgrounds
  /\ c.defaultQueue = b.defaultQueue
  /\ c.namedQueues = [b.namedQueues EXCEPT ![q.name] = queue]
  /\ c.workstreamNames = b.workstreamNames \cup {q.name}
  /\ c.groupNames = b.groupNames
  /\ c.workers = b.workers /\ c.redisConnections = b.redisConnections
  /\ ConnectionsOf(c)

LEMMA LiveQueueRegistered ==
  ASSUME NEW b \in Backgrounds, ConnectionsOf(b), NEW queue \in Queues,
         queue.connection \in b.redisConnections,
         NEW q \in QueueOptions, q.name \in Names,
         NEW c, c = RegisterLive(b, q, queue)
  PROVE  LiveRegistered(b, q, queue, c)
<1>1. /\ c.defaultQueue = b.defaultQueue /\ c.defaultTransitionalQueue = b.defaultTransitionalQueue
      /\ c.namedQueues = [b.namedQueues EXCEPT ![q.name] = queue]
      /\ c.namedTransitionalQueues = b.namedTransitionalQueues
      /\ c.workstreamNames = b.workstreamNames \cup {q.name} /\ c.groupNames = b.groupNames
      /\ c.workers = b.workers /\ c.redisConnections = b.redisConnections
  BY DEF RegisterLive, RegisterNamedQueue, Backgrounds
<1>2. c \in Backgrounds
  BY DEF RegisterLive, RegisterNamedQueue, Backgrounds, QueueOrNone, Optional
<1>3. \A n \in Names : c.namedQueues[n] \in {b.namedQueues[n], queue}
  BY <1>1 DEF Backgrounds
<1>4. AllQueues(c) \subseteq AllQueues(b) \cup {queue}
  BY <1>1, <1>3 DEF AllQueues
<1> QED
  BY <1>1, <1>2, <1>4 DEF LiveRegistered, ConnectionsOf

LEMMA TransitionalQueueRegistered ==
  ASSUME NEW b \in Backgrounds, ConnectionsOf(b), NEW queue \in Queues,
         queue.connection \in b.redisConnections,
         NEW q \in QueueOptions, q.name \in Names,
         NEW c, c = RegisterTransitional(b, q, queue)
  PROVE  /\ c \in Backgrounds
         /\ c.defaultQueue = b.defaultQueue /\ c.namedQueues = b.namedQueues
         /\ c.workstreamNames = b.workstreamNames /\ c.groupNames = b.groupNames
         /\ c.workers = b.workers /\ c.redisConnections = b.redisConnections
         /\ ConnectionsOf(c)
<1>1. /\ c.defaultQueue = b.defaultQueue /\ c.defaultTransitionalQueue = b.defaultTransitionalQueue
      /\ c.namedQueues = b.namedQueues
      /\ c.namedTransitionalQueues = [b.namedTransitionalQueues EXCEPT ![q.name] = queue]
      /\ c.workstreamNames = b.workstreamNames /\ c.groupNames = b.groupNames
      /\ c.workers = b.workers /\ c.redisConnections = b.redisConnections
  BY DEF RegisterTransitional, RegisterNamedQueue, Backgrounds
<1>2. c \in Backgrounds
  BY DEF RegisterTransitional, RegisterNamedQueue, Backgrounds, QueueOrNone, Optional
<1>3. \A n \in Names : c.namedTransitionalQueues[n] \in {b.namedTransitionalQueues[n], queue}
  BY <1>1 DEF Backgrounds
<1>4. AllQueues(c) \subseteq AllQueues(b) \cup {queue}
  BY <1>1, <1>3 DEF AllQueues
<1> QED
  BY <1>1, <1>2, <1>4 DEF ConnectionsOf

NativeRegistered(b, q, queue, c) ==
  /\ c \in Backgrounds
  /\ c.defaultQueue = b.defaultQueue
  /\ c.namedQueues = [b.namedQueues EXCEPT ![q.name] = queue]
  /\ c.workstreamNames = b.workstreamNames
  /\ c.groupNames = [b.groupNames EXCEPT ![q.name] = {q.group} \ {None}]
  /\ c.workers = b.workers /\ c.redisConnections = b.redisConnections
  /\ ConnectionsOf(c)

LEMMA NativeQueueRegistered ==
  ASSUME NEW b \in Backgrounds, ConnectionsOf(b), NEW queue \in Queues,
         queue.connection \in b.redisConnections,
         NEW q \in QueueOptions, q.name \in Names,
         NEW c, c = RegisterNativeQueue(b, q, queue)
  PROVE  NativeRegistered(b, q, queue, c)
<1>1. {q.group} \ {None} \in Optional(SUBSET Groups)
  BY DEF QueueOptions, Optional
<1>2. /\ c.defaultQueue = b.defaultQueue /\ c.defaultTransitionalQueue = b.defaultTransitionalQueue
      /\ c.namedQueues = [b.namedQueues EXCEPT ![q.name] = queue]
      /\ c.namedTransitionalQueues = b.namedTransitionalQueues
      /\ c.workstreamNames = b.workstreamNames
      /\ c.groupNames = [b.groupNames EXCEPT ![q.name] = {q.group} \ {None}]
      /\ c.workers = b.workers /\ c.redisConnections = b.redisConnections
  BY DEF RegisterNativeQueue, Backgrounds
<1>3. c \in Backgrounds
  BY <1>1 DEF RegisterNativeQueue, Backgrounds, QueueOrNone, Optional
<1>4. \A n \in Names : c.namedQueues[n] \in {b.namedQueues[n], queue}
  BY <1>2 DEF Backgrounds
<1>5. AllQueues(c) \subseteq AllQueues(b) \cup {queue}
  BY <1>2, <1>4 DEF AllQueues
<1> QED
  BY <1>2, <1>3, <1>5 DEF ConnectionsOf, NativeRegistered

-----------------------------------------------------------------------------
(***************************************************************************)
(* A step of one process changes nothing of another.                       *)
(***************************************************************************)

LEMMA NamesKeep ==
  ASSUME NEW p \in Processes, ProcessInv(p), p \notin WorkerProcesses,
         options'[p] = options[p], LiveQueues(p)' = LiveQueues(p),
         background'[p].workstreamNames = background[p].workstreamNames,
         background'[p].groupNames = background[p].groupNames
  PROVE  NamesAsConfigured(p)'
<1>1. NamesAsConfigured(p)
  BY DEF ProcessInv
<1> QED
  BY <1>1 DEF NamesAsConfigured

LEMMA NativeNames ==
  ASSUME NEW p \in Processes, NamesAsConfigured(p), options[p].native
  PROVE  /\ background[p].workstreamNames = {}
         /\ {n \in Names : background[p].groupNames[n] # None}
              = {options[p].named[i].name : i \in LiveQueues(p)}
         /\ \A i \in LiveQueues(p) :
              background[p].groupNames[options[p].named[i].name] = {options[p].named[i].group} \ {None}
  BY DEF NamesAsConfigured

LEMMA SimpleNames ==
  ASSUME NEW p \in Processes, NamesAsConfigured(p), ~options[p].native
  PROVE  /\ background[p].workstreamNames = {options[p].named[i].name : i \in LiveQueues(p)}
         /\ {n \in Names : background[p].groupNames[n] # None} = {}
  BY DEF NamesAsConfigured

LEMMA OthersKeep ==
  ASSUME NEW r \in Processes, ProcessInv(r), options' = options,
         background'[r] = background[r], call'[r] = call[r], working'[r] = working[r]
  PROVE  ProcessInv(r)'
<1>1. CallShape(r)'
  BY DEF ProcessInv, CallShape, Section
<1>2. DefaultConnections(r)'
  BY DEF ProcessInv, DefaultConnections, Section, ActivateWorkers
<1>3. RegisteredAsConfigured(r)'
  BY DEF ProcessInv, RegisteredAsConfigured
<1>4. WorkersAsConfigured(r)'
  BY DEF ProcessInv, WorkersAsConfigured, WorkersSoFar
<1>5. r \notin WorkerProcesses => NamesAsConfigured(r)'
  <2>1. LiveQueues(r)' = LiveQueues(r)
    BY DEF LiveQueues
  <2> QED
    BY <2>1, NamesKeep
<1> QED
  BY <1>1, <1>2, <1>3, <1>4, <1>5 DEF ProcessInv

LEMMA OneProcessSteps ==
  ASSUME IInv, NEW p \in Processes, NEW b \in Backgrounds, NEW c \in Calls,
         NEW w \in {"no", "started", "threw"},
         background' = [background EXCEPT ![p] = b], call' = [call EXCEPT ![p] = c],
         working' = [working EXCEPT ![p] = w], UNCHANGED <<options, quit>>,
         ConnectionsOf(b), background[p].redisConnections \subseteq b.redisConnections,
         ProcessInv(p)',
         \/ UNCHANGED <<stored, types>>
         \/ /\ stored' \subseteq Jobs /\ RoutedAsConfigured'
            /\ DOMAIN types' = Processes /\ TypesAsConfigured'
            /\ \A r \in Processes : types'[r] # None => types'[r].formatted \in BOOLEAN
  PROVE  IInv'
<1>1. \A r \in Processes \ {p} :
        background'[r] = background[r] /\ call'[r] = call[r] /\ working'[r] = working[r]
  BY DEF IInv, TypeOK
<1>2. background'[p] = b
  BY DEF IInv, TypeOK
<1>3. /\ stored' \subseteq Jobs /\ RoutedAsConfigured'
      /\ DOMAIN types' = Processes /\ TypesAsConfigured'
      /\ \A r \in Processes : types'[r] # None => types'[r].formatted \in BOOLEAN
  <2>1. /\ stored \subseteq Jobs /\ RoutedAsConfigured
        /\ DOMAIN types = Processes /\ TypesAsConfigured
        /\ \A r \in Processes : types[r] # None => types[r].formatted \in BOOLEAN
    BY DEF IInv, TypeOK
  <2>2. CASE UNCHANGED <<stored, types>>
    <3>1. RoutedAsConfigured'
      BY <2>1, <2>2 DEF RoutedAsConfigured
    <3>2. TypesAsConfigured'
      BY <2>1, <2>2 DEF TypesAsConfigured
    <3> QED
      BY <2>1, <2>2, <3>1, <3>2
  <2> QED
    BY <2>2
<1>4. TypeOK'
  <2>1. options' \in Deployments
    BY DEF IInv, TypeOK
  <2>2. background' \in [Processes -> Backgrounds]
    BY DEF IInv, TypeOK
  <2>3. call' \in [Processes -> Calls]
    BY DEF IInv, TypeOK
  <2>4. working' \in [Processes -> {"no", "started", "threw"}]
    BY DEF IInv, TypeOK
  <2>5. quit' \in [Processes -> SUBSET Connections]
    BY DEF IInv, TypeOK
  <2>6. ASSUME NEW r \in Processes
        PROVE  quit'[r] \subseteq background'[r].redisConnections
    <3>1. quit'[r] \subseteq background[r].redisConnections
      BY DEF IInv, TypeOK
    <3>2. CASE r = p
      BY <1>2, <3>1, <3>2
    <3>3. CASE r # p
      BY <1>1, <3>1, <3>3
    <3> QED
      BY <3>2, <3>3
  <2> QED
    BY <1>3, <2>1, <2>2, <2>3, <2>4, <2>5, <2>6 DEF TypeOK
<1>5. ConnectionsRegistered'
  BY <1>1, <1>2 DEF IInv, ConnectionsRegistered, ConnectionsOf
<1>6. \A r \in Processes : ProcessInv(r)'
  BY <1>1, OthersKeep DEF IInv
<1> QED
  BY <1>3, <1>4, <1>5, <1>6 DEF IInv

LEMMA InitHolds == Init => IInv
<1> SUFFICES ASSUME Init PROVE IInv
  OBVIOUS
<1> USE DEF Init
<1>1. EmptyBackground \in Backgrounds /\ NoCall \in Calls
  BY DEF EmptyBackground, Backgrounds, NoCall, Calls, Entries, QueueOrNone, Optional
<1>2. TypeOK
  BY <1>1 DEF TypeOK
<1>3. RoutedAsConfigured /\ TypesAsConfigured
  BY DEF RoutedAsConfigured, TypesAsConfigured
<1>4. ConnectionsRegistered
  BY DEF ConnectionsRegistered, AllQueues, EmptyBackground
<1>5. ASSUME NEW p \in Processes PROVE ProcessInv(p)
  <2>1. call[p] = NoCall /\ background[p] = EmptyBackground /\ working[p] = "no"
    OBVIOUS
  <2>2. options[p] \in AnySection
    BY <1>2, SectionsTyped
  <2>3. CallShape(p)
    BY <2>1, <2>2, NamedQueuesTyped DEF CallShape, NoCall, Section
  <2>4. DefaultConnections(p) /\ WorkersAsConfigured(p)
    BY <2>1 DEF DefaultConnections, WorkersAsConfigured, NoCall, EmptyBackground
  <2>5. RegisteredAsConfigured(p)
    BY <2>1 DEF RegisteredAsConfigured, EmptyBackground
  <2>6. NamesAsConfigured(p)
    <3>1. LiveQueues(p) = {} /\ background[p].workstreamNames = {}
          /\ \A n \in Names : background[p].groupNames[n] = None
      BY <2>1 DEF LiveQueues, EmptyBackground
    <3> QED
      BY <3>1 DEF NamesAsConfigured
  <2> QED
    BY <2>3, <2>4, <2>5, <2>6 DEF ProcessInv
<1> QED
  BY <1>2, <1>3, <1>4, <1>5 DEF IInv

LEMMA Unchanged == IInv /\ UNCHANGED vars => IInv'
<1> SUFFICES ASSUME IInv, UNCHANGED vars PROVE IInv'
  OBVIOUS
<1> USE DEF vars
<1>1. TypeOK' /\ RoutedAsConfigured' /\ ConnectionsRegistered' /\ TypesAsConfigured'
  BY DEF IInv, TypeOK, RoutedAsConfigured, ConnectionsRegistered, TypesAsConfigured
<1>2. \A r \in Processes : ProcessInv(r)'
  BY OthersKeep DEF IInv
<1> QED
  BY <1>1, <1>2 DEF IInv

-----------------------------------------------------------------------------
(***************************************************************************)
(* Entry points.                                                           *)
(***************************************************************************)

LEMMA EnterKeeps ==
  ASSUME IInv, NEW p \in Processes, NEW entry \in Entries \ {"none"}, NEW target \in Names \cup {None},
         entry = "work" => p \in WorkerProcesses /\ working[p] = "no",
         entry = "sync" => p \notin WorkerProcesses,
         Enter(p, entry, target)
  PROVE  IInv'
<1> DEFINE c == [NoCall EXCEPT !.entry = entry, !.target = target]
<1>1. /\ call[p].entry = "none"
      /\ call' = [call EXCEPT ![p] = c]
      /\ UNCHANGED <<options, background, working, quit, stored, types>>
  BY DEF Enter, InCall
<1>2. /\ c \in Calls /\ c.entry = entry /\ c.transitional = FALSE /\ c.next = 0
  BY DEF NoCall, Calls
<1> HIDE DEF c
<1>3. call'[p] = c
  BY <1>1 DEF IInv, TypeOK
<1>4. ProcessInv(p)
  BY DEF IInv
<1>5. call[p] = NoCall /\ call[p].transitional = FALSE /\ call[p].next = 0
  BY <1>1, <1>4 DEF ProcessInv, CallShape, NoCall
<1>6. options[p] \in AnySection
  BY SectionsTyped DEF IInv
<1>7. CallShape(p)'
  BY <1>1, <1>2, <1>3, <1>6, NamedQueuesTyped DEF CallShape, Section
<1>8. DefaultConnections(p)' /\ RegisteredAsConfigured(p)'
  BY <1>1, <1>2, <1>3, <1>4 DEF DefaultConnections, ProcessInv, RegisteredAsConfigured
<1>9. WorkersAsConfigured(p)'
  BY <1>1, <1>2, <1>3, <1>4
  DEF ProcessInv, WorkersAsConfigured, WorkersSoFar, SectionWorkers, QueuesBefore
<1>10. p \notin WorkerProcesses => NamesAsConfigured(p)'
  <2>1. LiveQueues(p)' = LiveQueues(p)
    BY <1>1, <1>2, <1>3, <1>5 DEF LiveQueues
  <2> QED
    BY <1>1, <1>4, <2>1, NamesKeep
<1>11. ProcessInv(p)'
  BY <1>7, <1>8, <1>9, <1>10 DEF ProcessInv
<1>12. /\ background' = [background EXCEPT ![p] = background[p]] /\ background[p] \in Backgrounds
       /\ working' = [working EXCEPT ![p] = working[p]] /\ working[p] \in {"no", "started", "threw"}
  BY <1>1 DEF IInv, TypeOK
<1>13. ConnectionsOf(background[p])
  BY DEF IInv, ConnectionsRegistered, ConnectionsOf
<1> QED
  BY <1>1, <1>2, <1>11, <1>12, <1>13, OneProcessSteps

LEMMA CloseAllRedisConnectionsKeeps ==
  ASSUME IInv, NEW p \in Processes, CloseAllRedisConnections(p)
  PROVE  IInv'
<1>1. /\ quit' = [quit EXCEPT ![p] = @ \cup background[p].redisConnections]
      /\ UNCHANGED <<options, background, call, working, stored, types>>
  BY DEF CloseAllRedisConnections
<1>2. TypeOK'
  BY <1>1 DEF IInv, TypeOK, Backgrounds
<1>3. RoutedAsConfigured' /\ ConnectionsRegistered' /\ TypesAsConfigured'
  BY <1>1 DEF IInv, RoutedAsConfigured, ConnectionsRegistered, TypesAsConfigured
<1>4. \A r \in Processes : ProcessInv(r)'
  BY <1>1, OthersKeep DEF IInv
<1> QED
  BY <1>2, <1>3, <1>4 DEF IInv

(***************************************************************************)
(* connect().                                                              *)
(***************************************************************************)

LEMMA ConnectTransitionalKeeps ==
  ASSUME IInv, NEW p \in Processes, ConnectTransitional(p)
  PROVE  IInv'
<1> DEFINE c == [call[p] EXCEPT !.transitional = TRUE, !.next = 0]
<1> DEFINE o == options[p]
<1>1. /\ call[p].entry # "none" /\ ~call[p].transitional /\ o.transitional # None
      /\ call[p].next > Len(o.named)
      /\ call' = [call EXCEPT ![p].transitional = TRUE, ![p].next = 0]
      /\ UNCHANGED <<options, background, working, quit, stored, types>>
  BY DEF ConnectTransitional, InCall, SectionDone, Section
<1>2. call[p] \in Calls /\ o \in AnySection /\ o.transitional \in AnySection
  BY <1>1, SectionsTyped DEF IInv, TypeOK
<1>3. c \in Calls /\ c.entry = call[p].entry /\ c.transitional = TRUE /\ c.next = 0
  BY <1>2 DEF Calls
<1>4. call' = [call EXCEPT ![p] = c] /\ call'[p] = c
  BY <1>1 DEF IInv, TypeOK, Calls
<1> HIDE DEF c
<1>5. ProcessInv(p)
  BY DEF IInv
<1>6. call[p].next = Len(o.named) + 1 /\ call[p].next > 0 /\ background[p].defaultQueue # None
      /\ Len(o.named) \in Nat
  BY <1>1, <1>2, <1>5, NamedQueuesTyped DEF ProcessInv, CallShape, Section, Calls
<1>7. CallShape(p)'
  <2>1. Len(o.transitional.named) \in Nat
    BY <1>2, NamedQueuesTyped
  <2> QED
    BY <1>1, <1>3, <1>4, <1>5, <1>6, <2>1 DEF ProcessInv, CallShape, Section
<1>8. DefaultConnections(p)' /\ RegisteredAsConfigured(p)'
  BY <1>1, <1>3, <1>4, <1>5 DEF DefaultConnections, ProcessInv, RegisteredAsConfigured
<1>9. WorkersAsConfigured(p)'
  <2>1. SectionWorkers(o.transitional, 0) = {}
    BY DEF SectionWorkers, QueuesBefore
  <2>2. WorkersSoFar(p)' = WorkersSoFar(p)
    BY <1>1, <1>3, <1>4, <1>6, <2>1 DEF WorkersSoFar
  <2> QED
    BY <1>1, <1>3, <1>4, <1>5, <2>2 DEF ProcessInv, WorkersAsConfigured
<1>10. p \notin WorkerProcesses => NamesAsConfigured(p)'
  <2>1. LiveQueues(p)' = LiveQueues(p)
    BY <1>1, <1>3, <1>4, <1>6 DEF LiveQueues
  <2> QED
    BY <1>1, <1>5, <2>1, NamesKeep
<1>11. ProcessInv(p)'
  BY <1>7, <1>8, <1>9, <1>10 DEF ProcessInv
<1>12. /\ background' = [background EXCEPT ![p] = background[p]] /\ background[p] \in Backgrounds
       /\ working' = [working EXCEPT ![p] = working[p]] /\ working[p] \in {"no", "started", "threw"}
  BY <1>1 DEF IInv, TypeOK
<1>13. ConnectionsOf(background[p])
  BY DEF IInv, ConnectionsRegistered, ConnectionsOf
<1> QED
  BY <1>1, <1>3, <1>4, <1>11, <1>12, <1>13, OneProcessSteps

(* An exception leaves what was registered, and of work() "threw". *)
LEMMA ThrowKeeps ==
  ASSUME IInv, NEW p \in Processes, NEW what, Throw(p, what),
         NEW b \in Backgrounds, background' = [background EXCEPT ![p] = b],
         ConnectionsOf(b), background[p].redisConnections \subseteq b.redisConnections,
         b.workers = background[p].workers,
         RegisteredAsConfigured(p)', p \notin WorkerProcesses => NamesAsConfigured(p)'
  PROVE  IInv'
<1> DEFINE w == IF call[p].entry = "work" THEN "threw" ELSE working[p]
<1>1. /\ call' = [call EXCEPT ![p] = NoCall]
      /\ working' = [working EXCEPT ![p] = w]
      /\ UNCHANGED <<options, quit, stored, types>>
  BY DEF Throw, IInv, TypeOK
<1>2. w \in {"no", "started", "threw"} /\ NoCall \in Calls
  BY DEF IInv, TypeOK, NoCall, Calls, Entries
<1>3. call'[p] = NoCall /\ working'[p] = w /\ background'[p] = b
  BY <1>1 DEF IInv, TypeOK
<1>4. CallShape(p)'
  <2>1. Len(options[p].named) \in Nat
    BY SectionsTyped, NamedQueuesTyped DEF IInv
  <2>2. p \notin WorkerProcesses => call[p].entry # "work"
    BY DEF IInv, ProcessInv, CallShape
  <2> QED
    BY <1>1, <1>3, <2>1, <2>2 DEF CallShape, NoCall, Section
<1>5. DefaultConnections(p)'
  BY <1>3 DEF DefaultConnections, NoCall
<1>6. WorkersAsConfigured(p)'
  BY <1>1, <1>3 DEF IInv, ProcessInv, WorkersAsConfigured, NoCall
<1>7. ProcessInv(p)'
  BY <1>4, <1>5, <1>6 DEF ProcessInv
<1> HIDE DEF w
<1> QED
  BY <1>1, <1>2, <1>7, OneProcessSteps

LEMMA OneMoreQueue ==
  ASSUME NEW s, NEW next \in Nat,
         NEW q, next = 0 => q = s.default, next # 0 => q = s.named[next]
  PROVE  SectionWorkers(s, next + 1) = SectionWorkers(s, next) \cup QueueWorkers(s, q)
<1>1. QueuesBefore(s, next + 1) = QueuesBefore(s, next) \cup {q}
  BY DEF QueuesBefore
<1> QED
  BY <1>1 DEF SectionWorkers

(* forEach goes on when its queue, and its workers for work(), are there. *)
LEMMA ContinueKeeps ==
  ASSUME IInv, NEW p \in Processes, InCall(p), Continue(p),
         NEW b \in Backgrounds, background' = [background EXCEPT ![p] = b],
         ConnectionsOf(b), background[p].redisConnections \subseteq b.redisConnections,
         call[p].next <= Len(Section(p).named),
         b.defaultQueue # None,
         DefaultQueueConnection(Section(p)) # None,
         ActivateWorkers(p) => DefaultWorkerConnection(Section(p)) # None,
         Given(DefaultQueueConnection(Section(p)), DefaultWorkerConnection(Section(p))) \subseteq b.redisConnections,
         NEW q, call[p].next = 0 => q = Section(p).default,
         call[p].next # 0 => q = Section(p).named[call[p].next],
         b.workers = background[p].workers \cup IF ActivateWorkers(p) THEN QueueWorkers(Section(p), q) ELSE {},
         RegisteredAsConfigured(p)', p \notin WorkerProcesses => NamesAsConfigured(p)'
  PROVE  IInv'
<1> DEFINE c == [call[p] EXCEPT !.next = @ + 1]
<1>1. /\ call' = [call EXCEPT ![p].next = @ + 1]
      /\ UNCHANGED <<options, working, quit, stored, types>>
  BY DEF Continue
<1>2. call[p] \in Calls /\ call[p].next \in Nat
  BY DEF IInv, TypeOK, Calls
<1>3. c \in Calls /\ c.entry = call[p].entry /\ c.transitional = call[p].transitional
      /\ c.next = call[p].next + 1
  BY <1>2 DEF Calls
<1>4. call' = [call EXCEPT ![p] = c] /\ call'[p] = c /\ background'[p] = b
  BY <1>1 DEF IInv, TypeOK, Calls
<1> HIDE DEF c
<1>5. ProcessInv(p)
  BY DEF IInv
<1>6. Section(p)' = Section(p) /\ ActivateWorkers(p)' = ActivateWorkers(p)
  BY <1>1, <1>3, <1>4 DEF Section, ActivateWorkers
<1>7. CallShape(p)'
  <2>1. Len(Section(p).named) \in Nat
    BY <1>5, SectionsTyped, NamedQueuesTyped DEF IInv, ProcessInv
  <2> QED
    BY <1>1, <1>2, <1>3, <1>4, <1>5, <1>6, <2>1 DEF ProcessInv, CallShape, InCall
<1>8. DefaultConnections(p)'
  BY <1>4, <1>6 DEF DefaultConnections
<1>9. WorkersAsConfigured(p)'
  <2>1. SectionWorkers(Section(p), call[p].next + 1) =
          SectionWorkers(Section(p), call[p].next) \cup QueueWorkers(Section(p), q)
    BY <1>2, OneMoreQueue
  <2>2. WorkersSoFar(p)' = WorkersSoFar(p) \cup QueueWorkers(Section(p), q)
    <3>1. CASE call[p].transitional
      BY <1>1, <1>3, <1>4, <2>1, <3>1 DEF WorkersSoFar, Section
    <3>2. CASE ~call[p].transitional
      BY <1>1, <1>3, <1>4, <2>1, <3>2 DEF WorkersSoFar, Section
    <3> QED
      BY <3>1, <3>2
  <2>3. CASE call[p].entry = "work"
    BY <1>1, <1>3, <1>4, <1>5, <2>2, <2>3 DEF ProcessInv, CallShape, WorkersAsConfigured, ActivateWorkers
  <2>4. CASE call[p].entry # "work"
    BY <1>1, <1>3, <1>4, <1>5, <2>4 DEF ProcessInv, WorkersAsConfigured, ActivateWorkers
  <2> QED
    BY <2>3, <2>4
<1>10. ProcessInv(p)'
  BY <1>7, <1>8, <1>9 DEF ProcessInv
<1>11. working' = [working EXCEPT ![p] = working[p]] /\ working[p] \in {"no", "started", "threw"}
  BY <1>1 DEF IInv, TypeOK
<1> QED
  BY <1>1, <1>3, <1>4, <1>10, <1>11, OneProcessSteps

LEMMA BackgroundTyped ==
  ASSUME IInv, NEW p \in Processes
  PROVE  /\ background[p] \in Backgrounds /\ ConnectionsOf(background[p])
         /\ call[p] \in Calls /\ call[p].next \in Nat /\ call[p].transitional \in BOOLEAN
         /\ ProcessInv(p)
         /\ options[p] \in AnySection /\ Section(p) \in AnySection
<1>1. ProcessInv(p)
  BY DEF IInv
<1>2. options[p] \in AnySection /\ Section(p) \in AnySection
  BY <1>1, SectionsTyped DEF IInv, ProcessInv
<1> QED
  BY <1>1, <1>2 DEF IInv, TypeOK, Calls, ConnectionsRegistered, ConnectionsOf

LEMMA ConnectDefaultQueueKeeps ==
  ASSUME IInv, NEW p \in Processes, ConnectDefaultQueue(p)
  PROVE  IInv'
<1> DEFINE b  == background[p]
           o  == Section(p)
           qc == DefaultQueueConnection(o)
           wc == DefaultWorkerConnection(o)
           queue == NewQueue(DefaultName, qc)
           pushed == PushConnections(b, Given(qc, wc))
           registered == RegisterDefaultQueue(pushed, call[p].transitional, queue)
           W == NewWorkers(queue, wc, WorkerCount(o.default))
<1>1. /\ InCall(p) /\ call[p].next = 0 /\ (~call[p].transitional => b.defaultQueue = None)
      /\ \/ background' = [background EXCEPT ![p] = pushed]
            /\ Throw(p, "DefaultBullMQNativeOptionsMissingQueueConnection")
         \/ qc # None /\ ActivateWorkers(p) /\ background' = [background EXCEPT ![p] = registered]
            /\ Throw(p, "ActivatingBackgroundWorkersWithoutDefaultWorkerConnection")
         \/ qc # None /\ ActivateWorkers(p) /\ wc # None
            /\ background' = [background EXCEPT ![p] = PushWorkers(registered, W)] /\ Continue(p)
         \/ qc # None /\ ~ActivateWorkers(p) /\ background' = [background EXCEPT ![p] = registered]
            /\ Continue(p)
  BY DEF ConnectDefaultQueue, AlreadyConnected
<1>2. /\ b \in Backgrounds /\ ConnectionsOf(b) /\ ProcessInv(p) /\ call[p].transitional \in BOOLEAN
      /\ options[p] \in AnySection /\ o \in AnySection
  BY BackgroundTyped
<1>3. /\ o.default \in QueueOptions /\ o.default.name = DefaultName
      /\ Len(o.named) \in Nat /\ Len(options[p].named) \in Nat
  BY <1>2, DefaultQueueTyped, NamedQueuesTyped
<1>4. /\ qc \in Optional(Connections) /\ wc \in Optional(Connections)
      /\ Given(qc, wc) \in SUBSET Connections
      /\ QueueConnection(o, o.default) = qc /\ WorkerConnection(o, o.default) = wc
  BY <1>2, <1>3, ConnectionsTyped
<1>5. /\ pushed \in Backgrounds /\ SameQueues(b, pushed) /\ pushed.workers = b.workers
      /\ pushed.redisConnections = b.redisConnections \cup Given(qc, wc) /\ ConnectionsOf(pushed)
  BY <1>2, <1>4, Pushed
<1>6. call[p].next <= Len(o.named)
  BY <1>1, <1>3
<1> HIDE DEF pushed
<1>7. CASE /\ background' = [background EXCEPT ![p] = pushed]
           /\ Throw(p, "DefaultBullMQNativeOptionsMissingQueueConnection")
  <2>1. background'[p] = pushed /\ options' = options /\ call'[p] = NoCall
    BY <1>7 DEF Throw, IInv, TypeOK
  <2>2. RegisteredAsConfigured(p)'
    BY <1>2, <1>5, <2>1 DEF ProcessInv, RegisteredAsConfigured, SameQueues
  <2>3. LiveQueues(p)' = LiveQueues(p)
    BY <1>1, <1>5, <2>1 DEF LiveQueues, NoCall, SameQueues
  <2>4. p \notin WorkerProcesses => NamesAsConfigured(p)'
    BY <1>2, <1>5, <2>1, <2>3, NamesKeep DEF SameQueues
  <2> QED
    BY <1>5, <1>7, <2>2, <2>4, ThrowKeeps
<1>8. CASE qc # None
  <2>1. /\ qc \in Connections /\ queue \in Queues /\ queue # None /\ queue.connection = qc
        /\ qc \in pushed.redisConnections
    <3>1. qc \in Connections
      BY <1>4, <1>8 DEF Optional
    <3>2. qc \in Given(qc, wc)
      BY <1>8 DEF Given
    <3> QED
      BY <1>5, <3>1, <3>2, NewQueueTyped
  <2>2. /\ registered \in Backgrounds
        /\ registered.defaultQueue = (IF call[p].transitional THEN b.defaultQueue ELSE queue)
        /\ registered.namedQueues = b.namedQueues
        /\ registered.workstreamNames = b.workstreamNames /\ registered.groupNames = b.groupNames
        /\ registered.workers = b.workers /\ registered.redisConnections = pushed.redisConnections
        /\ ConnectionsOf(registered)
    BY <1>2, <1>5, <2>1, DefaultQueueRegistered DEF SameQueues
  <2>3. registered.defaultQueue # None
    BY <1>2, <2>1, <2>2 DEF ProcessInv, CallShape
  <2> HIDE DEF registered
  <2>4. queue = ConfiguredQueue(o, o.default)
    BY <1>3, <1>4 DEF ConfiguredQueue
  <2> HIDE DEF queue, qc, wc
  <2>5. ASSUME SameQueues(registered, background'[p]), options' = options
        PROVE  RegisteredAsConfigured(p)'
    <3>1. background'[p].defaultQueue = registered.defaultQueue /\ background'[p].namedQueues = b.namedQueues
      BY <2>2, <2>5 DEF SameQueues
    <3>2. CanStore(options[p]) /\ registered.defaultQueue = ConfiguredQueue(options[p], options[p].default)
      <4>1. CASE call[p].transitional
        BY <1>2, <2>2, <2>3, <4>1 DEF ProcessInv, RegisteredAsConfigured
      <4>2. CASE ~call[p].transitional
        BY <1>8, <2>2, <2>4, <4>2 DEF Section, CanStore, qc
      <4> QED
        BY <4>1, <4>2
    <3> QED
      BY <1>2, <2>3, <2>5, <3>1, <3>2 DEF ProcessInv, RegisteredAsConfigured
  <2>6. ASSUME SameQueues(registered, background'[p]), Continue(p)
        PROVE  NamesAsConfigured(p) => NamesAsConfigured(p)'
    <3>1. /\ options' = options
          /\ call'[p].next = 1 /\ call'[p].transitional = call[p].transitional
      BY <1>1, <2>6 DEF Continue, IInv, TypeOK, Calls
    <3>2. background'[p].defaultQueue # None
      BY <2>3, <2>6 DEF SameQueues
    <3>3. LiveQueues(p)' = LiveQueues(p)
      <4>1. CASE call[p].transitional
        BY <1>2, <3>1, <3>2, <4>1 DEF LiveQueues, ProcessInv, CallShape
      <4>2. CASE ~call[p].transitional
        BY <1>1, <3>1, <3>2, <4>2 DEF LiveQueues
      <4> QED
        BY <4>1, <4>2
    <3> QED
      BY <2>2, <2>6, <3>1, <3>3 DEF NamesAsConfigured, SameQueues
  <2>7. CASE /\ ActivateWorkers(p) /\ background' = [background EXCEPT ![p] = registered]
             /\ Throw(p, "ActivatingBackgroundWorkersWithoutDefaultWorkerConnection")
    <3>1. p \in WorkerProcesses
      BY <1>2, <2>7 DEF ActivateWorkers, ProcessInv, CallShape
    <3>2. background'[p] = registered /\ options' = options
      BY <2>7 DEF Throw, IInv, TypeOK
    <3>3. SameQueues(registered, background'[p])
      BY <3>2 DEF SameQueues
    <3>4. RegisteredAsConfigured(p)'
      BY <2>5, <3>2, <3>3
    <3> QED
      BY <1>5, <2>2, <2>7, <3>1, <3>4, ThrowKeeps
  <2>8. CASE /\ ActivateWorkers(p) /\ wc # None
             /\ background' = [background EXCEPT ![p] = PushWorkers(registered, W)] /\ Continue(p)
    <3> DEFINE final == PushWorkers(registered, W)
    <3>1. W \in SUBSET WorkerRecords /\ \A w \in W : w.connection \in registered.redisConnections
      <4>1. wc \in Connections /\ wc \in Given(qc, wc)
        BY <1>4, <2>8 DEF Optional, Given
      <4> QED
        BY <1>3, <1>5, <2>1, <2>2, <4>1, WorkerCountTyped, NewWorkersTyped
    <3>2. W = QueueWorkers(o, o.default)
      BY <1>4, <2>4 DEF QueueWorkers
    <3> HIDE DEF W
    <3>3. /\ final \in Backgrounds /\ SameQueues(registered, final) /\ final.workers = registered.workers \cup W
          /\ final.redisConnections = registered.redisConnections /\ ConnectionsOf(final)
      BY <2>2, <3>1, WorkersPushed
    <3> HIDE DEF final
    <3>4. background' = [background EXCEPT ![p] = final] /\ background'[p] = final /\ options' = options
      BY <2>8 DEF final, Continue, IInv, TypeOK
    <3>5. RegisteredAsConfigured(p)' /\ (p \notin WorkerProcesses => NamesAsConfigured(p)')
      BY <1>2, <2>5, <2>6, <2>8, <3>3, <3>4 DEF ProcessInv
    <3>6. final.defaultQueue # None
      BY <2>3, <3>3 DEF SameQueues
    <3>7. final.workers = b.workers \cup IF ActivateWorkers(p) THEN QueueWorkers(o, o.default) ELSE {}
      BY <2>2, <2>8, <3>2, <3>3
    <3>8. b.redisConnections \cup Given(qc, wc) \subseteq final.redisConnections
      BY <1>5, <2>2, <3>3
    <3> QED
      BY <1>1, <1>6, <1>8, <2>8, <3>3, <3>4, <3>5, <3>6, <3>7, <3>8, ContinueKeeps DEF qc, wc
  <2>9. CASE /\ ~ActivateWorkers(p) /\ background' = [background EXCEPT ![p] = registered]
             /\ Continue(p)
    <3>1. background'[p] = registered /\ options' = options
      BY <2>9 DEF Continue, IInv, TypeOK
    <3>2. SameQueues(registered, background'[p])
      BY <3>1 DEF SameQueues
    <3>3. RegisteredAsConfigured(p)' /\ (p \notin WorkerProcesses => NamesAsConfigured(p)')
      BY <1>2, <2>5, <2>6, <2>9, <3>1, <3>2 DEF ProcessInv
    <3>4. registered.workers = b.workers \cup IF ActivateWorkers(p) THEN QueueWorkers(o, o.default) ELSE {}
      BY <2>2, <2>9
    <3>5. b.redisConnections \cup Given(qc, wc) \subseteq registered.redisConnections
      BY <1>5, <2>2
    <3> QED
      BY <1>1, <1>6, <1>8, <2>2, <2>3, <2>9, <3>3, <3>4, <3>5, ContinueKeeps DEF qc, wc
  <2> QED
    BY <1>1, <1>7, <2>7, <2>8, <2>9 DEF registered, queue, qc, wc
<1> QED
  BY <1>1, <1>7, <1>8

LEMMA ConnectNamedQueueKeeps ==
  ASSUME IInv, NEW p \in Processes, ConnectNamedQueue(p)
  PROVE  IInv'
<1> DEFINE b  == background[p]
           o  == Section(p)
           next == call[p].next
           q  == o.named[next]
           qc == QueueConnection(o, q)
           wc == WorkerConnection(o, q)
           queue == NewQueue(q.name, qc)
           pushed == PushConnections(b, Given(q.queueConnection, q.workerConnection))
           registered == IF o.native THEN RegisterNativeQueue(pushed, q, queue)
                         ELSE RegisterNamedQueue(pushed, call[p].transitional, q, queue)
           W == NewWorkers(queue, wc, WorkerCount(q))
<1>1. /\ InCall(p) /\ next \in 1 .. Len(o.named)
      /\ \/ qc = None
         \/ ActivateWorkers(p) /\ wc = None
         \/ qc # None /\ ActivateWorkers(p) /\ wc # None
            /\ background' = [background EXCEPT ![p] = PushWorkers(registered, W)] /\ Continue(p)
         \/ qc # None /\ ~ActivateWorkers(p) /\ background' = [background EXCEPT ![p] = registered]
            /\ Continue(p)
  BY DEF ConnectNamedQueue
<1>2. /\ b \in Backgrounds /\ ConnectionsOf(b) /\ ProcessInv(p) /\ call[p].transitional \in BOOLEAN
      /\ options[p] \in AnySection /\ o \in AnySection /\ next \in Nat
  BY BackgroundTyped
<1>3. /\ q \in QueueOptions /\ q.name \in Names
      /\ Len(o.named) \in Nat /\ Len(options[p].named) \in Nat
  BY <1>1, <1>2, NamedQueuesTyped
<1>4. /\ DefaultQueueConnection(o) # None
      /\ ActivateWorkers(p) => DefaultWorkerConnection(o) # None
      /\ Given(DefaultQueueConnection(o), DefaultWorkerConnection(o)) \subseteq b.redisConnections
      /\ b.defaultQueue # None
  BY <1>1, <1>2 DEF ProcessInv, DefaultConnections, CallShape
<1>5. /\ qc \in Connections /\ (wc # None => wc \in Connections)
      /\ Given(q.queueConnection, q.workerConnection) \in SUBSET Connections
      /\ ActivateWorkers(p) => wc # None
  BY <1>2, <1>3, <1>4, ConnectionsTyped DEF Optional
<1>6. o.native => ~call[p].transitional
  BY <1>2, SectionsTyped DEF IInv, ProcessInv, CallShape, Section
<1>7. /\ pushed \in Backgrounds /\ SameQueues(b, pushed) /\ pushed.workers = b.workers
      /\ pushed.redisConnections = b.redisConnections \cup Given(q.queueConnection, q.workerConnection)
      /\ ConnectionsOf(pushed)
  BY <1>2, <1>5, Pushed
<1> HIDE DEF pushed
<1>8. qc \in pushed.redisConnections /\ (wc # None => wc \in pushed.redisConnections)
  <2>1. qc \in {q.queueConnection, DefaultQueueConnection(o)} /\ wc \in {q.workerConnection, DefaultWorkerConnection(o)}
    BY <1>2, <1>3, ConnectionsTyped
  <2>2. qc # None
    BY <1>5, ConnectionsAssumption DEF ConnectionsAssumption
  <2> QED
    BY <1>4, <1>7, <2>1, <2>2 DEF Given
<1>9. queue \in Queues /\ queue # None /\ queue.connection = qc
  BY <1>3, <1>5, NewQueueTyped
<1>10. queue = ConfiguredQueue(o, q) /\ W = QueueWorkers(o, q)
  BY DEF ConfiguredQueue, QueueWorkers
<1> HIDE DEF queue
<1>11. /\ registered \in Backgrounds /\ registered.defaultQueue = b.defaultQueue
       /\ registered.namedQueues =
            (IF call[p].transitional THEN b.namedQueues ELSE [b.namedQueues EXCEPT ![q.name] = queue])
       /\ registered.workstreamNames =
            (IF call[p].transitional \/ o.native THEN b.workstreamNames ELSE b.workstreamNames \cup {q.name})
       /\ registered.groupNames =
            (IF o.native THEN [b.groupNames EXCEPT ![q.name] = {q.group} \ {None}] ELSE b.groupNames)
       /\ registered.workers = b.workers /\ registered.redisConnections = pushed.redisConnections
       /\ ConnectionsOf(registered)
  <2>1. CASE o.native
    <3>1. ~call[p].transitional /\ registered = RegisterNativeQueue(pushed, q, queue)
      BY <1>6, <2>1
    <3> HIDE DEF registered
    <3>2. NativeRegistered(pushed, q, queue, registered)
      BY <1>3, <1>7, <1>8, <1>9, <3>1, NativeQueueRegistered
    <3> QED
      BY <1>7, <2>1, <3>1, <3>2 DEF NativeRegistered, SameQueues
  <2>2. CASE ~o.native
    <3>1. CASE call[p].transitional
      <4>1. registered = RegisterTransitional(pushed, q, queue)
        BY <2>2, <3>1 DEF RegisterTransitional, RegisterNamedQueue
      <4> HIDE DEF registered
      <4> QED
        BY <1>3, <1>7, <1>8, <1>9, <2>2, <3>1, <4>1, TransitionalQueueRegistered DEF SameQueues
    <3>2. CASE ~call[p].transitional
      <4>1. registered = RegisterLive(pushed, q, queue)
        BY <2>2, <3>2 DEF RegisterLive, RegisterNamedQueue
      <4> HIDE DEF registered
      <4> QED
        <5>1. LiveRegistered(pushed, q, queue, registered)
          BY <1>3, <1>7, <1>8, <1>9, <4>1, LiveQueueRegistered
        <5> QED
          BY <1>7, <2>2, <3>2, <5>1 DEF LiveRegistered, SameQueues
    <3> QED
      BY <3>1, <3>2
  <2> QED
    BY <2>1, <2>2
<1> HIDE DEF registered
<1>12. ASSUME SameQueues(registered, background'[p]), Continue(p)
       PROVE  RegisteredAsConfigured(p)'
  <2>1. options' = options
    BY <1>12 DEF Continue
  <2>2. background'[p].defaultQueue = b.defaultQueue /\ background'[p].namedQueues = registered.namedQueues
    BY <1>11, <1>12 DEF SameQueues
  <2>3. ASSUME NEW n \in Names, registered.namedQueues[n] # None
        PROVE  \E r \in NamedQueuesOf(options[p]) :
                 r.name = n /\ registered.namedQueues[n] = ConfiguredQueue(options[p], r)
    <3>1. CASE registered.namedQueues[n] = b.namedQueues[n]
      BY <1>2, <2>3, <3>1 DEF ProcessInv, RegisteredAsConfigured
    <3>2. CASE registered.namedQueues[n] # b.namedQueues[n]
      <4>1. ~call[p].transitional /\ n = q.name /\ registered.namedQueues[n] = queue
        BY <1>2, <1>3, <1>11, <3>2 DEF Backgrounds
      <4>2. o = options[p]
        BY <4>1 DEF Section
      <4>3. q \in NamedQueuesOf(options[p])
        BY <1>1, <4>2 DEF NamedQueuesOf
      <4> QED
        BY <1>10, <4>1, <4>2, <4>3
    <3> QED
      BY <3>1, <3>2
  <2> QED
    BY <1>2, <1>4, <2>1, <2>2, <2>3 DEF ProcessInv, RegisteredAsConfigured
<1>13. ASSUME SameQueues(registered, background'[p]), Continue(p), p \notin WorkerProcesses
       PROVE  NamesAsConfigured(p)'
  <2>1. /\ options' = options
        /\ call'[p].next = next + 1 /\ call'[p].transitional = call[p].transitional
    BY <1>13 DEF Continue, IInv, TypeOK, Calls
  <2>2. /\ background'[p].defaultQueue # None
        /\ background'[p].workstreamNames = registered.workstreamNames
        /\ background'[p].groupNames = registered.groupNames
    BY <1>4, <1>11, <1>13 DEF SameQueues
  <2>3. NamesAsConfigured(p)
    BY <1>2, <1>13 DEF ProcessInv
  <2>4. CASE call[p].transitional
    <3>1. LiveQueues(p)' = LiveQueues(p)
      BY <1>4, <2>1, <2>2, <2>4 DEF LiveQueues
    <3>2. background'[p].workstreamNames = b.workstreamNames /\ background'[p].groupNames = b.groupNames
      BY <1>6, <1>11, <2>2, <2>4
    <3> QED
      BY <2>1, <2>3, <3>1, <3>2 DEF NamesAsConfigured
  <2>5. CASE ~call[p].transitional
    <3>1. o = options[p]
      BY <2>5 DEF Section
    <3>2. LiveQueues(p) = 1 .. (next - 1)
      BY <1>1, <1>4, <2>5 DEF LiveQueues
    <3>3. LiveQueues(p)' = LiveQueues(p) \cup {next}
      <4>1. LiveQueues(p)' = 1 .. next
        BY <1>1, <1>2, <2>1, <2>2, <2>5 DEF LiveQueues
      <4> QED
        BY <1>1, <1>2, <3>2, <4>1
    <3>4. {o.named[i].name : i \in LiveQueues(p)'} = {o.named[i].name : i \in LiveQueues(p)} \cup {q.name}
      BY <3>3
    <3>5. CASE o.native
      <4>1. {q.group} \ {None} \in SUBSET Groups /\ {q.group} \ {None} # None
        BY <1>3, ConnectionsAssumption DEF ConnectionsAssumption, QueueOptions, Optional
      <4>2. /\ registered.groupNames[q.name] = {q.group} \ {None}
            /\ \A n \in Names \ {q.name} : registered.groupNames[n] = b.groupNames[n]
        BY <1>2, <1>3, <1>11, <3>5 DEF Backgrounds
      <4>3. {n \in Names : registered.groupNames[n] # None} = {n \in Names : b.groupNames[n] # None} \cup {q.name}
        BY <1>3, <4>1, <4>2
      <4>4. \A i \in LiveQueues(p) : b.groupNames[o.named[i].name] = {o.named[i].group} \ {None}
        BY <2>3, <3>1, <3>5, NativeNames
      <4>5. ASSUME NEW i \in LiveQueues(p)'
            PROVE  registered.groupNames[o.named[i].name] = {o.named[i].group} \ {None}
        <5>1. CASE i = next
          BY <4>2, <5>1
        <5>2. CASE i # next
          <6>1. i \in LiveQueues(p) /\ i \in 1 .. Len(o.named)
            BY <1>1, <1>2, <1>3, <3>2, <3>3, <5>2
          <6>2. o.named[i].name \in Names \ {q.name}
            BY <1>1, <1>2, <3>5, <5>2, <6>1, NamedQueuesTyped, NativeNamesDiffer
          <6> QED
            BY <4>2, <4>4, <6>1, <6>2
        <5> QED
          BY <5>1, <5>2
      <4>6. background'[p].workstreamNames = {}
        BY <1>11, <2>2, <2>3, <3>1, <3>5, NativeNames
      <4>7. {n \in Names : background'[p].groupNames[n] # None} = {o.named[i].name : i \in LiveQueues(p)'}
        <5>1. {n \in Names : b.groupNames[n] # None} = {o.named[i].name : i \in LiveQueues(p)}
          BY <2>3, <3>1, <3>5, NativeNames
        <5>2. {n \in Names : background'[p].groupNames[n] # None}
                = {o.named[i].name : i \in LiveQueues(p)} \cup {q.name}
          BY <2>2, <4>3, <5>1
        <5> QED
          BY <3>4, <5>2
      <4> QED
        BY <2>1, <2>2, <3>1, <3>5, <4>5, <4>6, <4>7 DEF NamesAsConfigured
    <3>6. CASE ~o.native
      <4>1. /\ background'[p].workstreamNames = b.workstreamNames \cup {q.name}
            /\ background'[p].groupNames = b.groupNames
        BY <1>11, <2>2, <2>5, <3>6
      <4>2. /\ b.workstreamNames = {o.named[i].name : i \in LiveQueues(p)}
            /\ {n \in Names : b.groupNames[n] # None} = {}
        BY <2>3, <3>1, <3>6, SimpleNames
      <4>3. background'[p].workstreamNames = {o.named[i].name : i \in LiveQueues(p)'}
        BY <3>4, <4>1, <4>2
      <4> QED
        BY <2>1, <3>1, <3>6, <4>1, <4>2, <4>3 DEF NamesAsConfigured
    <3> QED
      BY <3>5, <3>6
  <2> QED
    BY <2>4, <2>5
<1>14. Given(DefaultQueueConnection(o), DefaultWorkerConnection(o)) \cup b.redisConnections \subseteq registered.redisConnections
  BY <1>4, <1>7, <1>11
<1>15. next <= Len(o.named) /\ next # 0
  BY <1>1, <1>3
<1> HIDE DEF qc, wc
<1>16. CASE /\ ActivateWorkers(p) /\ background' = [background EXCEPT ![p] = PushWorkers(registered, W)]
            /\ Continue(p)
  <2> DEFINE final == PushWorkers(registered, W)
  <2>1. W \in SUBSET WorkerRecords /\ \A w \in W : w.connection \in registered.redisConnections
    BY <1>3, <1>5, <1>8, <1>9, <1>11, <1>16, WorkerCountTyped, NewWorkersTyped
  <2> HIDE DEF W
  <2>2. /\ final \in Backgrounds /\ SameQueues(registered, final) /\ final.workers = registered.workers \cup W
        /\ final.redisConnections = registered.redisConnections /\ ConnectionsOf(final)
    BY <1>11, <2>1, WorkersPushed
  <2> HIDE DEF final
  <2>3. background' = [background EXCEPT ![p] = final] /\ background'[p] = final
    BY <1>16 DEF final, IInv, TypeOK
  <2>4. RegisteredAsConfigured(p)' /\ (p \notin WorkerProcesses => NamesAsConfigured(p)')
    BY <1>12, <1>13, <1>16, <2>2, <2>3
  <2>5. final.defaultQueue # None
    BY <1>4, <1>11, <2>2 DEF SameQueues
  <2>6. final.workers = b.workers \cup IF ActivateWorkers(p) THEN QueueWorkers(o, q) ELSE {}
    BY <1>10, <1>11, <1>16, <2>2
  <2>7. Given(DefaultQueueConnection(o), DefaultWorkerConnection(o)) \cup b.redisConnections \subseteq final.redisConnections
    BY <1>14, <2>2
  <2> QED
    BY <1>1, <1>4, <1>15, <1>16, <2>2, <2>3, <2>4, <2>5, <2>6, <2>7, ContinueKeeps
<1>17. CASE /\ ~ActivateWorkers(p) /\ background' = [background EXCEPT ![p] = registered]
            /\ Continue(p)
  <2>1. background'[p] = registered
    BY <1>17 DEF IInv, TypeOK
  <2>2. SameQueues(registered, background'[p])
    BY <2>1 DEF SameQueues
  <2>3. RegisteredAsConfigured(p)' /\ (p \notin WorkerProcesses => NamesAsConfigured(p)')
    BY <1>12, <1>13, <1>17, <2>2
  <2>4. registered.workers = b.workers \cup IF ActivateWorkers(p) THEN QueueWorkers(o, q) ELSE {}
    BY <1>11, <1>17
  <2> QED
    BY <1>1, <1>4, <1>11, <1>14, <1>15, <1>17, <2>3, <2>4, ContinueKeeps
<1> QED
  BY <1>1, <1>5, <1>16, <1>17, ConnectionsAssumption DEF ConnectionsAssumption

-----------------------------------------------------------------------------
(***************************************************************************)
(* connect() returns, and the entry point goes on.                         *)
(***************************************************************************)

LEMMA AllLiveQueues ==
  ASSUME IInv, NEW p \in Processes, InCall(p), Connected(p)
  PROVE  /\ LiveQueues(p) = 1 .. Len(options[p].named)
         /\ background[p].defaultQueue # None
<1>1. ProcessInv(p) /\ options[p] \in AnySection /\ call[p].next \in Nat
  BY BackgroundTyped
<1>2. Len(options[p].named) \in Nat
  BY <1>1, NamedQueuesTyped
<1>3. CASE call[p].transitional
  BY <1>1, <1>3 DEF LiveQueues, ProcessInv, CallShape
<1>4. CASE ~call[p].transitional /\ call[p].next = 0
  BY <1>1, <1>2, <1>4 DEF LiveQueues, Connected, AlreadyConnected, SectionDone, Section
<1>5. CASE ~call[p].transitional /\ call[p].next # 0
  <2>1. call[p].next > Len(options[p].named) /\ call[p].next <= Len(options[p].named) + 1
    BY <1>1, <1>5 DEF Connected, AlreadyConnected, SectionDone, Section, ProcessInv, CallShape
  <2>2. call[p].next - 1 = Len(options[p].named) /\ call[p].next > 0
    BY <1>1, <1>2, <2>1
  <2> QED
    BY <1>1, <1>5, <2>2 DEF LiveQueues, ProcessInv, CallShape
<1> QED
  BY <1>3, <1>4, <1>5

LEMMA AllQueuesBefore ==
  ASSUME NEW s \in AnySection
  PROVE  SectionWorkers(s, Len(s.named) + 1) = UNION {QueueWorkers(s, q) : q \in QueuesOf(s)}
<1>1. Len(s.named) \in Nat
  BY NamedQueuesTyped
<1>2. QueuesBefore(s, Len(s.named) + 1) = QueuesOf(s)
  <2>1. Len(s.named) + 1 # 0 /\ (Len(s.named) + 1) - 1 = Len(s.named)
    BY <1>1
  <2> QED
    BY <2>1 DEF QueuesBefore, QueuesOf, NamedQueuesOf
<1> QED
  BY <1>2 DEF SectionWorkers

(* When connect() has gone through all sections, all workers are there. *)
LEMMA AllWorkers ==
  ASSUME IInv, NEW p \in Processes, InCall(p), Connected(p)
  PROVE  WorkersSoFar(p) \in {{}, ConfiguredWorkers(options[p])}
<1> DEFINE o == options[p]
<1>1. ProcessInv(p) /\ o \in AnySection /\ Section(p) \in AnySection /\ call[p].next \in Nat
  BY BackgroundTyped
<1>2. CASE AlreadyConnected(p)
  BY <1>2 DEF AlreadyConnected, WorkersSoFar, SectionWorkers, QueuesBefore
<1>3. CASE ~AlreadyConnected(p)
  <2>1. /\ call[p].next > Len(Section(p).named) /\ call[p].next <= Len(Section(p).named) + 1
        /\ call[p].transitional \/ o.transitional = None
    BY <1>1, <1>3 DEF Connected, SectionDone, ProcessInv, CallShape
  <2>2. call[p].next = Len(Section(p).named) + 1
    BY <1>1, <2>1, NamedQueuesTyped
  <2>3. ConfiguredWorkers(o) = UNION {UNION {QueueWorkers(s, q) : q \in QueuesOf(s)} : s \in Sections(o)}
    BY DEF ConfiguredWorkers, QueueWorkers
  <2>4. CASE call[p].transitional
    <3>1. Section(p) = o.transitional /\ Sections(o) = {o, o.transitional}
      BY <1>1, <2>4 DEF Section, Sections, ProcessInv, CallShape
    <3>2. WorkersSoFar(p) = SectionWorkers(o, Len(o.named) + 1)
                              \cup SectionWorkers(o.transitional, Len(o.transitional.named) + 1)
      BY <2>2, <2>4, <3>1 DEF WorkersSoFar
    <3>3. /\ SectionWorkers(o, Len(o.named) + 1) = UNION {QueueWorkers(o, q) : q \in QueuesOf(o)}
          /\ SectionWorkers(o.transitional, Len(o.transitional.named) + 1)
               = UNION {QueueWorkers(o.transitional, q) : q \in QueuesOf(o.transitional)}
      BY <1>1, <3>1, AllQueuesBefore
    <3> QED
      BY <2>3, <3>1, <3>2, <3>3
  <2>5. CASE ~call[p].transitional
    <3>1. Section(p) = o /\ Sections(o) = {o}
      BY <2>1, <2>5 DEF Section, Sections
    <3>2. WorkersSoFar(p) = UNION {QueueWorkers(o, q) : q \in QueuesOf(o)}
      BY <1>1, <2>2, <2>5, <3>1, AllQueuesBefore DEF WorkersSoFar
    <3> QED
      BY <2>3, <3>1, <3>2
  <2> QED
    BY <2>4, <2>5
<1> QED
  BY <1>2, <1>3

LEMMA ReturnKeeps ==
  ASSUME IInv, NEW p \in Processes, InCall(p), Connected(p), Return(p),
         NEW w, w = (IF call[p].entry = "work" THEN "started" ELSE working[p]),
         working' = [working EXCEPT ![p] = w],
         \/ UNCHANGED <<stored, types>>
         \/ /\ stored' \subseteq Jobs /\ RoutedAsConfigured'
            /\ DOMAIN types' = Processes /\ TypesAsConfigured'
            /\ \A r \in Processes : types'[r] # None => types'[r].formatted \in BOOLEAN
  PROVE  IInv'
<1>1. /\ call' = [call EXCEPT ![p] = NoCall]
      /\ UNCHANGED <<options, background, quit>>
  BY DEF Return
<1>2. w \in {"no", "started", "threw"} /\ NoCall \in Calls
  BY DEF IInv, TypeOK, NoCall, Calls, Entries
<1>3. call'[p] = NoCall /\ working'[p] = w /\ NoCall.entry = "none" /\ NoCall.transitional = FALSE
      /\ NoCall.next = 0
  BY <1>1 DEF IInv, TypeOK, NoCall
<1>4. /\ ProcessInv(p) /\ options[p] \in AnySection
      /\ background[p] \in Backgrounds /\ ConnectionsOf(background[p])
  BY BackgroundTyped
<1>5. CallShape(p)'
  <2>1. Len(options[p].named) \in Nat
    BY <1>4, NamedQueuesTyped
  <2> QED
    BY <1>1, <1>3, <2>1 DEF CallShape, Section
<1>6. DefaultConnections(p)' /\ RegisteredAsConfigured(p)'
  BY <1>1, <1>3, <1>4 DEF DefaultConnections, ProcessInv, RegisteredAsConfigured
<1>7. WorkersAsConfigured(p)'
  <2>1. CASE call[p].entry = "work"
    <3>1. background[p].workers \in {{}, ConfiguredWorkers(options[p])}
      BY <1>4, <2>1, AllWorkers DEF ProcessInv, CallShape, WorkersAsConfigured
    <3> QED
      BY <1>1, <1>3, <2>1, <3>1 DEF WorkersAsConfigured
  <2>2. CASE call[p].entry # "work"
    BY <1>1, <1>3, <1>4, <2>2 DEF ProcessInv, WorkersAsConfigured
  <2> QED
    BY <2>1, <2>2
<1>8. p \notin WorkerProcesses => NamesAsConfigured(p)'
  <2>1. LiveQueues(p)' = LiveQueues(p)
    BY <1>1, <1>3, AllLiveQueues DEF LiveQueues
  <2> QED
    BY <1>1, <1>4, <2>1, NamesKeep
<1>9. ProcessInv(p)'
  BY <1>5, <1>6, <1>7, <1>8 DEF ProcessInv
<1>10. background' = [background EXCEPT ![p] = background[p]]
  BY <1>1 DEF IInv, TypeOK
<1> QED
  BY <1>1, <1>2, <1>4, <1>9, <1>10, OneProcessSteps

LEMMA ReturnFromCallKeeps ==
  ASSUME IInv, NEW p \in Processes, ReturnFromConnect(p) \/ ReturnFromWork(p)
  PROVE  IInv'
<1>1. CASE ReturnFromConnect(p)
  <2>1. /\ InCall(p) /\ Connected(p) /\ Return(p) /\ UNCHANGED <<stored, types>>
        /\ working' = [working EXCEPT ![p] = working[p]] /\ call[p].entry # "work"
    BY <1>1 DEF ReturnFromConnect, InCall, IInv, TypeOK
  <2> QED
    BY <2>1, ReturnKeeps
<1>2. CASE ReturnFromWork(p)
  <2>1. /\ InCall(p) /\ Connected(p) /\ Return(p) /\ UNCHANGED <<stored, types>>
        /\ working' = [working EXCEPT ![p] = "started"] /\ call[p].entry = "work"
    BY <1>2 DEF ReturnFromWork, InCall
  <2> QED
    BY <2>1, ReturnKeeps
<1> QED
  BY <1>1, <1>2

(* The types say of the options what TypesAsConfigured wants. *)
Describes(output, o) ==
  LET names == {q.name : q \in NamedQueuesOf(o)} IN
  /\ output.workstreamNames = IF o.native THEN {} ELSE names
  /\ DOMAIN output.queueGroupMap = IF o.native THEN names ELSE {}
  /\ \A q \in NamedQueuesOf(o) : o.native => output.queueGroupMap[q.name] = {q.group} \ {None}

(* What build writes of a registry that is complete. *)
LEMMA WrittenAsConfigured ==
  ASSUME IInv, NEW p \in Processes \ WorkerProcesses, InCall(p), Connected(p)
  PROVE  Describes(WorkersTypeConfig(background[p]), options[p])
<1> DEFINE b == background[p]
           o == options[p]
           output == WorkersTypeConfig(b)
           names == {q.name : q \in NamedQueuesOf(o)}
           grouped == {m \in Names : b.groupNames[m] # None}
<1>1. NamesAsConfigured(p)
  BY BackgroundTyped DEF ProcessInv
<1>2. LiveQueues(p) = 1 .. Len(o.named)
  BY AllLiveQueues
<1>3. names = {o.named[i].name : i \in LiveQueues(p)}
  BY <1>2 DEF NamedQueuesOf
<1>4. /\ output.workstreamNames = b.workstreamNames
      /\ DOMAIN output.queueGroupMap = grouped
      /\ \A n \in grouped : output.queueGroupMap[n] = b.groupNames[n]
  BY DEF WorkersTypeConfig
<1> HIDE DEF output
<1>5. /\ b.workstreamNames = IF o.native THEN {} ELSE names
      /\ grouped = IF o.native THEN names ELSE {}
      /\ o.native => \A i \in LiveQueues(p) : b.groupNames[o.named[i].name] = {o.named[i].group} \ {None}
  <2> HIDE DEF names
  <2> QED
    BY <1>1, <1>3 DEF NamesAsConfigured
<1>6. ASSUME NEW q \in NamedQueuesOf(o), o.native
      PROVE  output.queueGroupMap[q.name] = {q.group} \ {None}
  <2>1. PICK i \in LiveQueues(p) : q = o.named[i]
    BY <1>2 DEF NamedQueuesOf
  <2>2. q.name \in grouped
    BY <1>5, <1>6
  <2> QED
    BY <1>4, <1>5, <1>6, <2>1, <2>2
<1>7. Describes(output, o)
  BY <1>4, <1>5, <1>6 DEF Describes
<1> QED
  BY <1>7 DEF output

LEMMA ReturnFromSyncKeeps ==
  ASSUME IInv, NEW p \in Processes, ReturnFromSync(p)
  PROVE  IInv'
<1>1. PICK f \in BOOLEAN :
        types' = [types EXCEPT ![p] = [output |-> WorkersTypeConfig(background[p]), formatted |-> f]]
  BY DEF ReturnFromSync, Prettier
<1>2. /\ InCall(p) /\ Connected(p) /\ Return(p) /\ call[p].entry # "work"
      /\ UNCHANGED <<working, stored, options, background>>
  BY DEF ReturnFromSync, InCall, Return
<1>3. p \notin WorkerProcesses
  BY DEF ReturnFromSync, IInv, ProcessInv, CallShape
<1>4. /\ types'[p].output = WorkersTypeConfig(background[p]) /\ types'[p].formatted = f
      /\ \A r \in Processes \ {p} : types'[r] = types[r]
      /\ DOMAIN types' = Processes
  BY <1>1 DEF IInv, TypeOK
<1>5. \A r \in Processes : types'[r] # None => types'[r].formatted \in BOOLEAN
  BY <1>4 DEF IInv, TypeOK
<1>6. TypesAsConfigured'
  <2>1. ASSUME NEW r \in Processes, types'[r] # None
        PROVE  Describes(types'[r].output, options[r])
    <3>1. CASE r = p
      BY <1>2, <1>3, <1>4, <3>1, WrittenAsConfigured
    <3>2. CASE r # p
      BY <1>4, <2>1, <3>2 DEF IInv, TypesAsConfigured, Describes
    <3> QED
      BY <3>1, <3>2
  <2> QED
    BY <1>2, <2>1 DEF TypesAsConfigured, Describes
<1>7. stored' \subseteq Jobs /\ RoutedAsConfigured'
  BY <1>2 DEF IInv, TypeOK, RoutedAsConfigured
<1>8. working' = [working EXCEPT ![p] = working[p]]
  BY <1>2 DEF IInv, TypeOK
<1> QED
  BY <1>2, <1>4, <1>5, <1>6, <1>7, <1>8, ReturnKeeps

LEMMA AddToQueueKeeps ==
  ASSUME IInv, NEW p \in Processes, AddToQueue(p)
  PROVE  IInv'
<1> DEFINE o == options[p]
           target == call[p].target
           queue == QueueInstance(p, target)
           job == [target |-> target, at |-> Location(queue)]
<1>1. /\ InCall(p) /\ Connected(p) /\ call[p].entry # "work"
      /\ \/ \E what : Throw(p, what) /\ UNCHANGED background
         \/ queue # None /\ stored' = stored \cup {job} /\ Return(p) /\ UNCHANGED <<working, types>>
  BY DEF AddToQueue, InCall
<1>2. /\ ProcessInv(p) /\ background[p] \in Backgrounds /\ ConnectionsOf(background[p])
      /\ target \in Names \cup {None}
  BY BackgroundTyped DEF Calls
<1>3. CASE \E what : Throw(p, what) /\ UNCHANGED background
  <2>1. PICK what : Throw(p, what)
    BY <1>3
  <2>2. /\ background' = [background EXCEPT ![p] = background[p]] /\ background' = background
        /\ call'[p] = NoCall /\ options' = options
    BY <1>3, <2>1 DEF Throw, IInv, TypeOK
  <2>3. RegisteredAsConfigured(p)'
    BY <1>2, <2>2 DEF ProcessInv, RegisteredAsConfigured
  <2>4. LiveQueues(p)' = LiveQueues(p)
    BY <1>1, <2>2, AllLiveQueues DEF LiveQueues, NoCall
  <2>5. p \notin WorkerProcesses => NamesAsConfigured(p)'
    BY <1>2, <2>2, <2>4, NamesKeep
  <2> QED
    BY <1>2, <2>1, <2>2, <2>3, <2>5, ThrowKeeps
<1>4. CASE queue # None /\ stored' = stored \cup {job} /\ Return(p) /\ UNCHANGED <<working, types>>
  <2>1. CanStore(o) /\ job.at \in ConfiguredLocations(o, job.target)
    <3>1. CASE target = None
      <4>1. CanStore(o) /\ queue = ConfiguredQueue(o, o.default)
        BY <1>2, <1>4, <3>1 DEF QueueInstance, ProcessInv, RegisteredAsConfigured
      <4> QED
        BY <3>1, <4>1 DEF ConfiguredLocations
    <3>2. CASE target # None
      <4>1. PICK q \in NamedQueuesOf(o) : q.name = target /\ queue = ConfiguredQueue(o, q)
        BY <1>2, <1>4, <3>2 DEF QueueInstance, ProcessInv, RegisteredAsConfigured
      <4>2. CanStore(o)
        BY <1>1, <1>2, AllLiveQueues DEF ProcessInv, RegisteredAsConfigured
      <4> QED
        BY <3>2, <4>1, <4>2 DEF ConfiguredLocations
    <3> QED
      BY <3>1, <3>2
  <2>2. options' = options /\ options \in Deployments
    BY <1>4 DEF Return, IInv, TypeOK
  <2>3. RoutedAsConfigured'
    BY <1>4, <2>1, <2>2 DEF IInv, RoutedAsConfigured
  <2>4. job \in Jobs
    <3> DEFINE S(d, r, t) == {[target |-> t, at |-> l]
                               : l \in IF CanStore(d[r]) THEN ConfiguredLocations(d[r], t) ELSE {}}
               U(d) == UNION {S(d, r, t) : r \in Processes, t \in Names \cup {None}}
    <3>1. job \in S(options, p, target)
      BY <2>1
    <3>2. Jobs = UNION {U(d) : d \in Deployments}
      BY DEF Jobs
    <3> HIDE DEF S, job
    <3>3. job \in U(options)
      BY <1>2, <3>1
    <3> HIDE DEF U
    <3> QED
      BY <2>2, <3>2, <3>3
  <2>5. /\ stored' \subseteq Jobs /\ DOMAIN types' = Processes /\ TypesAsConfigured'
        /\ \A r \in Processes : types'[r] # None => types'[r].formatted \in BOOLEAN
    <3>1. stored' \subseteq Jobs
      BY <1>4, <2>4 DEF IInv, TypeOK
    <3> HIDE DEF job
    <3> QED
      BY <1>4, <2>2, <3>1 DEF IInv, TypeOK, TypesAsConfigured
  <2>6. working' = [working EXCEPT ![p] = working[p]]
    BY <1>4 DEF IInv, TypeOK
  <2> QED
    BY <1>1, <1>4, <2>3, <2>5, <2>6, ReturnKeeps
<1> QED
  BY <1>1, <1>3, <1>4

LEMMA WorkJobKeeps ==
  ASSUME IInv, NEW job \in stored, WorkJob(job)
  PROVE  IInv'
<1>1. stored' \subseteq stored /\ UNCHANGED <<options, background, call, working, quit, types>>
  BY DEF WorkJob
<1>2. TypeOK' /\ RoutedAsConfigured' /\ ConnectionsRegistered' /\ TypesAsConfigured'
  BY <1>1 DEF IInv, TypeOK, RoutedAsConfigured, ConnectionsRegistered, TypesAsConfigured
<1>3. \A r \in Processes : ProcessInv(r)'
  BY <1>1, OthersKeep DEF IInv
<1> QED
  BY <1>2, <1>3 DEF IInv

LEMMA NextKeeps == IInv /\ [Next]_vars => IInv'
<1> SUFFICES ASSUME IInv, [Next]_vars PROVE IInv'
  OBVIOUS
<1>1. ASSUME NEW p \in WorkerProcesses, Work(p) PROVE IInv'
  BY <1>1, EnterKeeps, ConnectionsAssumption DEF Work, Entries, ConnectionsAssumption
<1>2. ASSUME NEW p \in Processes \ WorkerProcesses, Sync(p) PROVE IInv'
  BY <1>2, EnterKeeps DEF Sync, Entries
<1>3. ASSUME NEW p \in Processes, Connect(p) PROVE IInv'
  BY <1>3, EnterKeeps DEF Connect, Entries
<1>4. ASSUME NEW p \in Processes, NEW target \in Names \cup {None}, Enqueue(p, target) PROVE IInv'
  BY <1>4, EnterKeeps DEF Enqueue, Entries
<1>5. ASSUME NEW p \in Processes, Step(p) PROVE IInv'
  BY <1>5, ConnectDefaultQueueKeeps, ConnectNamedQueueKeeps, ConnectTransitionalKeeps,
     ReturnFromCallKeeps, ReturnFromSyncKeeps, AddToQueueKeeps DEF Step
<1>6. CASE UNCHANGED vars
  BY <1>6, Unchanged
<1> QED
  BY <1>1, <1>2, <1>3, <1>4, <1>5, <1>6, CloseAllRedisConnectionsKeeps, WorkJobKeeps DEF Next

-----------------------------------------------------------------------------
(***************************************************************************)
(* How far each process has come with connect() says what is registered,   *)
(* whatever calls, exceptions and closed connections came before.          *)
(***************************************************************************)
THEOREM Inductive == Spec => []IInv
  BY InitHolds, NextKeeps, PTL DEF Spec

(***************************************************************************)
(* Every field of the singleton holds what its type says, and only         *)
(* connections of the registry are closed.                                 *)
(***************************************************************************)
THEOREM TypeCorrect == Spec => []TypeOK
<1>1. IInv => TypeOK
  BY DEF IInv
<1> QED
  BY <1>1, Inductive, PTL

(***************************************************************************)
(* No job goes to another queue than the options of its process give it,   *)
(* however many processes with whichever options share the redis servers.  *)
(***************************************************************************)
THEOREM JobsAreRouted == Spec => []RoutedAsConfigured
<1>1. IInv => RoutedAsConfigured
  BY DEF IInv
<1> QED
  BY <1>1, Inductive, PTL

(***************************************************************************)
(* closeAllRedisConnections misses no connection, at whatever queue a      *)
(* connect() has thrown.                                                   *)
(***************************************************************************)
THEOREM NoConnectionForgotten == Spec => []ConnectionsRegistered
<1>1. IInv => ConnectionsRegistered
  BY DEF IInv
<1> QED
  BY <1>1, Inductive, PTL

(***************************************************************************)
(* work() starts all workers the options ask for, or none: a connect()     *)
(* that throws between two of them makes work() throw.                     *)
(***************************************************************************)
THEOREM NeverSomeWorkers == Spec => []AllOrNoWorkers
<1>1. IInv => AllOrNoWorkers
  BY DEF IInv, ProcessInv, WorkersAsConfigured, AllOrNoWorkers
<1> QED
  BY <1>1, Inductive, PTL

(***************************************************************************)
(* The exceptions for named queues are dead code: a section that is past   *)
(* its default queue has connections to fall back on.                      *)
(***************************************************************************)
THEOREM NamedErrorsAreDeadCode == Spec => []NamedErrorsUnreachable
<1>1. ASSUME IInv, NEW p \in Processes, call[p].next \in 1 .. Len(Section(p).named),
             NEW q, q = Section(p).named[call[p].next]
      PROVE  /\ QueueConnection(Section(p), q) # None
             /\ ActivateWorkers(p) => WorkerConnection(Section(p), q) # None
  <2>1. ProcessInv(p) /\ Section(p) \in AnySection /\ call[p].next \in Nat
    BY <1>1, BackgroundTyped
  <2>2. q \in QueueOptions /\ call[p].next > 0
    BY <1>1, <2>1, NamedQueuesTyped
  <2> QED
    BY <2>1, <2>2, ConnectionsTyped DEF ProcessInv, DefaultConnections
<1>2. IInv => NamedErrorsUnreachable
  BY <1>1 DEF NamedErrorsUnreachable
<1> QED
  BY <1>2, Inductive, PTL

(***************************************************************************)
(* A sync writes the names and groups of the options, also when queues     *)
(* were registered, or failed to be, by calls before it.                   *)
(***************************************************************************)
THEOREM TypesDescribeOptions == Spec => []TypesAsConfigured
<1>1. IInv => TypesAsConfigured
  BY DEF IInv
<1> QED
  BY <1>1, Inductive, PTL
=============================================================================
