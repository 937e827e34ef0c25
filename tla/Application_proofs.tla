------------------------ MODULE Application_proofs -------------------------
(***************************************************************************)
(* Proofs about Application, for any callbacks, calls and files, and any   *)
(* number of inits and calls.                                              *)
(***************************************************************************)
EXTENDS Application, SequenceTheorems, TLAPS

(***************************************************************************)
(* PsychicAppWorkers.                                                      *)
(***************************************************************************)

LEMMA SettingIsApplied ==
  ASSUME NEW app \in Apps, NEW s \in Settings
  PROVE  Apply(app, s) \in Apps /\ Apply(app, s).complete = app.complete
<1>1. CASE s.option = "workers:shutdown"
  BY <1>1 DEF Apply, On, Apps
<1>2. CASE s.option = "background"
  <2>1. WithProviders(s.value) \in BackgroundOptions
    BY <1>2 DEF BackgroundOptions
  <2> QED
    BY <1>2, <2>1 DEF Apply, Set, Apps
<1>3. CASE s.option = "testInvocation"
  BY <1>3, ConfsAssumption DEF ConfsAssumption, Apply, Set, Apps
<1>4. CASE s.option = "bypassDeprecationChecks"
  BY <1>4, ConfsAssumption DEF ConfsAssumption, Apply, Set, Apps
<1> QED
  BY <1>1, <1>2, <1>3, <1>4, ConfsAssumption DEF ConfsAssumption

LEMMA NewAppIsApp == NewApp \in Apps /\ ~NewApp.complete
  BY DEF NewApp, Apps

LEMMA AppInitHolds == AppInit => AppIInv
  BY ConfsAssumption DEF ConfsAssumption, AppInit, AppIInv, AppTypeOK, NeverHalfConfigured, InitAtWork

(* The first connect() takes the cached app, which is complete. *)
LEMMA ConnectKeeps ==
  ASSUME AppIInv, CanConnect, Connects
  PROVE  AppIInv'
  BY DEF AppIInv, AppTypeOK, NeverHalfConfigured, InitAtWork, CanConnect, Connects, Connected, GetOrFail

(* The app that changes is not complete, or keeps its options. *)
LEMMA AppStepKeeps ==
  ASSUME AppIInv, AppStep
  PROVE  AppIInv'
<1> USE DEF AppIInv, AppTypeOK, NeverHalfConfigured, InitAtWork
<1>1. ASSUME NEW c \in Confs, BeginInit(c) PROVE AppIInv'
  <2>1. c \in Seq(Settings)
    BY ConfsAssumption DEF ConfsAssumption
  <2> QED
    BY <1>1, <2>1, NewAppIsApp, ConfsAssumption DEF ConfsAssumption, BeginInit
<1>2. CASE CallbackSets
  <2>1. Head(conf) \in Settings /\ Tail(conf) \in Seq(Settings)
    BY <1>2 DEF CallbackSets
  <2>2. apps[Len(apps)] \in Apps /\ Len(apps) \in Nat \ {0}
    BY <1>2 DEF CallbackSets
  <2> DEFINE app == Apply(apps[Len(apps)], Head(conf))
  <2>3. app \in Apps /\ ~app.complete
    BY <1>2, <2>1, <2>2, SettingIsApplied DEF CallbackSets
  <2>4. apps' = [apps EXCEPT ![Len(apps)] = app] /\ conf' = Tail(conf) /\ UNCHANGED <<role, cached, registry>>
    BY <1>2 DEF CallbackSets
  <2> HIDE DEF app
  <2>5. apps' \in Seq(Apps) /\ Len(apps') = Len(apps) /\ apps'[Len(apps)] = app
        /\ \A i \in 1 .. Len(apps) : i # Len(apps) => apps'[i] = apps[i]
    BY <2>2, <2>3, <2>4
  <2>6. conf # None /\ UNCHANGED <<cached, registry>>
    BY <1>2 DEF CallbackSets
  <2>7. AppTypeOK'
    BY <2>1, <2>4, <2>5
  <2>8. NeverHalfConfigured'
    BY <2>2, <2>5, <2>6
  <2>9. InitAtWork'
    BY <2>2, <2>3, <2>5
  <2> QED
    BY <2>7, <2>8, <2>9
<1>3. CASE CallbackThrows
  BY <1>3, NewAppIsApp DEF CallbackThrows
<1>4. CASE FinishInit
  <2>1. conf # None
    BY <1>4, ConfsAssumption DEF FinishInit, ConfsAssumption
  <2>2. Len(apps) \in Nat \ {0} /\ apps[Len(apps)] \in Apps
    BY <2>1
  <2> DEFINE app == [apps[Len(apps)] EXCEPT !.complete = TRUE]
  <2>3. app \in Apps /\ app.complete
    BY <2>2 DEF Apps
  <2>4. apps' = [apps EXCEPT ![Len(apps)] = app] /\ conf' = None /\ cached' = Len(apps) /\ UNCHANGED <<role, registry>>
    BY <1>4 DEF FinishInit
  <2> HIDE DEF app
  <2>5. apps' \in Seq(Apps) /\ Len(apps') = Len(apps) /\ apps'[Len(apps)] = app
        /\ \A i \in 1 .. Len(apps) : i # Len(apps) => apps'[i] = apps[i]
    BY <2>2, <2>3, <2>4
  <2> QED
    BY <2>1, <2>2, <2>3, <2>4, <2>5
<1>5. ASSUME NEW value \in {"automatic", "manual"}, TestSets(value) PROVE AppIInv'
  <2>1. cached \in 1 .. Len(apps) /\ apps[cached] \in Apps
    BY <1>5 DEF TestSets
  <2> DEFINE app == Set(apps[cached], "testInvocation", value)
  <2>2. app \in Apps /\ app.complete = apps[cached].complete
        /\ app.backgroundOptions = apps[cached].backgroundOptions
    BY <2>1 DEF Apps, Set
  <2>3. apps' = [apps EXCEPT ![cached] = app] /\ UNCHANGED <<role, conf, cached, registry>>
    BY <1>5 DEF TestSets
  <2> HIDE DEF app
  <2>4. apps' \in Seq(Apps) /\ Len(apps') = Len(apps) /\ apps'[cached] = app
        /\ \A i \in 1 .. Len(apps) : i # cached => apps'[i] = apps[i]
    BY <2>1, <2>2, <2>3
  <2>5. AppTypeOK'
    BY <2>3, <2>4
  <2>6. UNCHANGED <<conf, cached, registry>>
    BY <2>3
  <2>7. NeverHalfConfigured'
    BY <2>1, <2>2, <2>4, <2>6
  <2>8. InitAtWork'
    BY <2>1, <2>2, <2>4, <2>6
  <2> QED
    BY <2>5, <2>7, <2>8
<1>6. CASE AfterRoutes
  BY <1>6, ConnectKeeps DEF AfterRoutes, Connects
<1> QED
  BY <1>1, <1>2, <1>3, <1>4, <1>5, <1>6 DEF AppStep

LEMMA RestartAppKeeps ==
  ASSUME AppIInv, RestartApp
  PROVE  AppIInv'
  BY ConfsAssumption DEF ConfsAssumption, RestartApp, AppIInv, AppTypeOK, NeverHalfConfigured, InitAtWork

LEMMA AppUnchanged == AppIInv /\ UNCHANGED appVars => AppIInv'
  BY DEF appVars, AppIInv, AppTypeOK, NeverHalfConfigured, InitAtWork

(***************************************************************************)
(* The calls.  Each ends with an error, runs at once or is stored; all but *)
(* the first have connected, and found their queue.                        *)
(***************************************************************************)

LEMMA CallConnects ==
  ASSUME NEW r \in Requests, Call(r)
  PROVE  UNCHANGED appVars \/ (CanConnect /\ Connects)
  BY DEF Call, ServiceBackground, ServiceBackgroundWithDelay, ModelBackground, ModelBackgroundWithDelay,
         InstanceBackground, InstanceBackgroundWithDelay, Schedule, WithGlobalName, StaticMethod,
         ModelInstanceMethod, ScheduledMethod, ConnectAnd

Admitted(r) ==
  /\ CanConnect /\ Connects
  /\ QueueInstance(r.config) # None
  /\ r.entry # "schedule" => ~r.dream

Added(r) ==
  \E delay \in Nat, opts \in {Options(r.config), TemplateOptions} :
    /\ r.delay # None => delay = Asks(r.delay)
    /\ r.entry # "schedule" => opts = Options(r.config)
    /\ Stores(r, QueueInstance(r.config), opts, delay)

(* The delay BullMQ is given is the duration the call asks for. *)
LEMMA DurationGiven ==
  ASSUME NEW d \in DelayedJobDuration
  PROVE  /\ DurationToSeconds(d) \in Nat
         /\ DelayMilliseconds(DurationToSeconds(d)) = Asks(d)
         /\ Asks(d) \in Nat
  BY DEF DelayedJobDuration, DurationToSeconds, DelayMilliseconds, Asks

LEMMA AddToQueueEffect ==
  ASSUME NEW r \in Requests, NEW delaySeconds \in Nat, CanConnect, Connects,
         r.entry # "schedule", r.delay # None => DelayMilliseconds(delaySeconds) = Asks(r.delay),
         AddToQueue(r, delaySeconds)
  PROVE  \/ \E status \in Errors : CallEnds(r, status)
         \/ Admitted(r) /\ (CallEnds(r, "ran") \/ Added(r))
<1>1. {"AttemtedToBackgroundEntireDreamModel", "NoQueueForSpecifiedName", "redis"} \subseteq Errors
  BY DEF Errors
<1>2. CASE CallEnds(r, "AttemtedToBackgroundEntireDreamModel") \/ CallEnds(r, "NoQueueForSpecifiedName")
           \/ CallEnds(r, "redis")
  BY <1>1, <1>2
<1>3. CASE ~r.dream /\ QueueInstance(r.config) # None /\ CallEnds(r, "ran")
  BY <1>3 DEF Admitted
<1>4. CASE ~r.dream /\ QueueInstance(r.config) # None
           /\ Stores(r, QueueInstance(r.config), Options(r.config), DelayMilliseconds(delaySeconds))
  <2>1. DelayMilliseconds(delaySeconds) \in Nat
    BY DEF DelayMilliseconds
  <2> QED
    BY <1>4, <2>1 DEF Admitted, Added
<1> QED
  BY <1>2, <1>3, <1>4 DEF AddToQueue

LEMMA CallEffect ==
  ASSUME NEW r \in Requests, Call(r)
  PROVE  /\ Len(calls) < MaxCalls
         /\ \/ \E status \in Errors : CallEnds(r, status)
            \/ Admitted(r) /\ (CallEnds(r, "ran") \/ Added(r))
<1> DEFINE Goal == \/ \E status \in Errors : CallEnds(r, status)
                   \/ Admitted(r) /\ (CallEnds(r, "ran") \/ Added(r))
<1>1. {"GlobalNameNotSet", "not connected", "NoQueueForSpecifiedName", "redis"} \subseteq Errors
  BY DEF Errors
<1>2. /\ Len(calls) < MaxCalls
      /\ \/ r.entry # "schedule" /\ r.delay = None /\ (WithGlobalName(r, StaticMethod(r, 0)) \/ ModelInstanceMethod(r, 0))
         \/ /\ r.entry # "schedule" /\ r.delay # None
            /\ \/ WithGlobalName(r, StaticMethod(r, DurationToSeconds(r.delay)))
               \/ ModelInstanceMethod(r, DurationToSeconds(r.delay))
         \/ r.entry = "schedule" /\ WithGlobalName(r, ScheduledMethod(r))
  BY DEF Call, Calling, ServiceBackground, ServiceBackgroundWithDelay, ModelBackground,
         ModelBackgroundWithDelay, InstanceBackground, InstanceBackgroundWithDelay, Schedule
<1>3. CASE CallEnds(r, "GlobalNameNotSet") \/ CallEnds(r, "not connected")
  BY <1>1, <1>2, <1>3
<1>4. ASSUME r.entry # "schedule", r.delay = None, CanConnect, Connects, AddToQueue(r, 0) PROVE Goal
  BY <1>4, AddToQueueEffect
<1>5. ASSUME r.entry # "schedule", r.delay # None, CanConnect, Connects,
             AddToQueue(r, DurationToSeconds(r.delay))
      PROVE  Goal
  <2>1. /\ DurationToSeconds(r.delay) \in Nat
        /\ DelayMilliseconds(DurationToSeconds(r.delay)) = Asks(r.delay)
    BY <1>5, RequestsAssumption, DurationGiven DEF RequestsAssumption
  <2> QED
    BY <1>5, <2>1, AddToQueueEffect
<1>6. ASSUME r.entry = "schedule", CanConnect, Connects,
             \/ CallEnds(r, "NoQueueForSpecifiedName") \/ CallEnds(r, "redis")
             \/ QueueInstance(r.config) # None /\ Stores(r, QueueInstance(r.config), TemplateOptions, Minute)
      PROVE  Goal
  <2>1. r.delay = None /\ Minute \in Nat
    BY <1>6, RequestsAssumption DEF RequestsAssumption
  <2> QED
    BY <1>1, <1>6, <2>1 DEF Admitted, Added
<1>7. CASE r.entry = "schedule" /\ WithGlobalName(r, ScheduledMethod(r))
  BY <1>3, <1>2, <1>6, <1>7 DEF WithGlobalName, ScheduledMethod, ConnectAnd
<1> QED
  BY <1>2, <1>3, <1>4, <1>5, <1>7 DEF WithGlobalName, StaticMethod, ModelInstanceMethod, ConnectAnd

LEMMA OptionsOfConfig ==
  ASSUME NEW r \in Requests, NEW opts \in {Options(r.config), TemplateOptions}
  PROVE  /\ Honoured(opts).group \in Groups
         /\ Honoured(opts).priority \in 0 .. 4
<1>1. MapPriorityWordToPriorityNumber(JobConfigToPriority(r.config)) \in 0 .. 4
  BY DEF MapPriorityWordToPriorityNumber
<1>2. JobConfigToGroupId(r.config) \in Groups /\ None \in Groups
  BY DEF JobConfigToGroupId, Groups
<1> DEFINE group == JobConfigToGroupId(r.config)
           number == MapPriorityWordToPriorityNumber(JobConfigToPriority(r.config))
<1>3. Options(r.config) = IF group # None
                          THEN [groupId |-> group, groupPriority |-> number, priority |-> 0]
                          ELSE [groupId |-> None, groupPriority |-> 0, priority |-> number]
  BY DEF Options
<1> HIDE DEF group, number
<1>4. opts.groupId \in Groups /\ opts.groupPriority \in 0 .. 4 /\ opts.priority \in 0 .. 4
  <2>1. CASE opts = Options(r.config)
    BY <1>1, <1>2, <1>3, <2>1 DEF group, number
  <2>2. CASE opts = TemplateOptions
    BY <1>2, <2>2 DEF TemplateOptions
  <2> QED
    BY <2>1, <2>2
<1>5. /\ Honoured(opts).group \in {opts.groupId, None}
      /\ Honoured(opts).priority \in {opts.groupPriority, opts.priority}
  BY DEF Honoured
<1> QED
  BY <1>2, <1>4, <1>5

LEMMA AdmittedFindsQueue ==
  ASSUME AppIInv, NEW r \in Requests, Admitted(r)
  PROVE  /\ QueueInstance(r.config) \in Queues
         /\ QueueInstance(r.config) = QueueName(r.config)
         /\ r.entry # "schedule" => ~r.dream
         /\ ({r.config.workstream, r.config.queue} \ {None}) \subseteq apps[Connected].backgroundOptions.names
<1>1. Connected \in 1 .. Len(apps) /\ apps[Connected] \in Apps /\ apps[Connected].backgroundOptions # None
  BY DEF Admitted, CanConnect, GetOrFail, Connected, AppIInv, AppTypeOK, NeverHalfConfigured
<1>2. apps[Connected].backgroundOptions \in BackgroundOptions
  BY <1>1 DEF Apps
<1>3. r.config.workstream # None => r.config.queue = None
  BY RequestsAssumption DEF RequestsAssumption
<1> QED
  BY <1>2, <1>3 DEF Admitted, QueueInstance, QueueName, Queues

(* What Queue.add stores is a job, and what the call asks for. *)
LEMMA StoredJob ==
  ASSUME AppIInv, CallsTypeOK, NEW r \in Requests, Admitted(r), Added(r)
  PROVE  \E job \in Jobs :
           /\ job.request = r
           /\ job.status \in {"waiting", "delayed"}
           /\ AsAsked(job)
           /\ calls' = Append(calls, job)
           /\ waiting' = IF job.status = "waiting" THEN Append(waiting, Len(calls) + 1) ELSE waiting
           /\ now' = now
<1>1. PICK delay \in Nat, opts \in {Options(r.config), TemplateOptions} :
        /\ r.delay # None => delay = Asks(r.delay)
        /\ r.entry # "schedule" => opts = Options(r.config)
        /\ Stores(r, QueueInstance(r.config), opts, delay)
  BY DEF Added
<1> DEFINE job == [request |-> r, status |-> IF delay = 0 THEN "waiting" ELSE "delayed",
                   queue |-> QueueInstance(r.config), group |-> Honoured(opts).group,
                   priority |-> Honoured(opts).priority, pro |-> Provider = "pro",
                   created |-> now, due |-> now + delay]
<1>2. /\ calls' = Append(calls, job)
      /\ waiting' = IF delay = 0 THEN Append(waiting, Len(calls) + 1) ELSE waiting
      /\ now' = now
  BY <1>1 DEF Stores
<1>3. now \in Nat
  BY DEF CallsTypeOK
<1>4. QueueInstance(r.config) \in Queues /\ QueueInstance(r.config) = QueueName(r.config)
  BY AdmittedFindsQueue
<1>5. job \in Jobs
  BY <1>3, <1>4, OptionsOfConfig DEF Jobs
<1>6. AsAsked(job)
  <2> DEFINE groupId == JobConfigToGroupId(r.config)
             priority == MapPriorityWordToPriorityNumber(JobConfigToPriority(r.config))
  <2>1. ASSUME r.entry # "schedule", groupId = None \/ job.pro
        PROVE  job.group = groupId /\ job.priority = priority
    <3>1. Options(r.config) = IF groupId # None
                              THEN [groupId |-> groupId, groupPriority |-> priority, priority |-> 0]
                              ELSE [groupId |-> None, groupPriority |-> 0, priority |-> priority]
      BY DEF Options
    <3>2. opts = Options(r.config) /\ (groupId = None \/ Provider = "pro")
      BY <1>1, <2>1
    <3> HIDE DEF groupId, priority
    <3>3. Honoured(opts).group = groupId /\ Honoured(opts).priority = priority
      BY <3>1, <3>2 DEF Honoured
    <3> QED
      BY <3>3
  <2>2. r.delay # None => job.due >= job.created + Asks(r.delay)
    BY <1>1, <1>3
  <2>3. job.status = "waiting" => now >= job.due
    BY <1>3
  <2> HIDE DEF groupId, priority
  <2>4. job.queue = QueueName(r.config) /\ job.request = r
    BY <1>4
  <2> HIDE DEF job
  <2> QED
    BY <2>1, <2>2, <2>3, <2>4 DEF AsAsked, groupId, priority
<1>7. job.request = r /\ job.status \in {"waiting", "delayed"} /\ (job.status = "waiting" <=> delay = 0)
  OBVIOUS
<1> HIDE DEF job
<1> QED
  BY <1>2, <1>5, <1>6, <1>7

LEMMA CallsInitHolds == CallsInit => CallIInv
  BY RequestsAssumption DEF RequestsAssumption, CallsInit, CallIInv, CallsTypeOK, JobsAsAsked, WaitsOnce

LEMMA CallsUnchanged == CallIInv /\ UNCHANGED callVars => CallIInv'
<1> SUFFICES ASSUME CallIInv, UNCHANGED callVars PROVE CallIInv'
  OBVIOUS
<1>1. calls' = calls /\ waiting' = waiting /\ now' = now
  BY DEF callVars
<1> QED
  BY <1>1 DEF CallIInv, CallsTypeOK, JobsAsAsked, WaitsOnce, AsAsked

(* What a call appends: an ended call, or a job that is what it asks for. *)
LEMMA AppendKeeps ==
  ASSUME CallIInv, Len(calls) < MaxCalls, NEW c \in EndedCalls \cup Jobs,
         c.status \in {"delayed", "waiting", "started"} => AsAsked(c),
         calls' = Append(calls, c),
         waiting' = IF c.status = "waiting" THEN Append(waiting, Len(calls) + 1) ELSE waiting,
         now' = now
  PROVE  CallIInv'
<1> USE DEF CallIInv
<1>1. calls \in Seq(EndedCalls \cup Jobs) /\ Len(calls) \in Nat /\ waiting \in Seq(Nat) /\ Len(waiting) \in Nat
  BY DEF CallsTypeOK
<1> DEFINE last == Len(calls) + 1
<1>2. /\ calls' \in Seq(EndedCalls \cup Jobs) /\ Len(calls') = last /\ calls'[last] = c
      /\ \A i \in 1 .. Len(calls) : calls'[i] = calls[i]
      /\ DOMAIN calls' = 1 .. last /\ DOMAIN calls = 1 .. Len(calls)
  BY <1>1
<1>3. /\ waiting' \in Seq(Nat)
      /\ \A n \in DOMAIN waiting : n \in DOMAIN waiting' /\ waiting'[n] = waiting[n]
      /\ \A n \in DOMAIN waiting' : n \notin DOMAIN waiting => c.status = "waiting" /\ waiting'[n] = last
      /\ c.status = "waiting" => \E n \in DOMAIN waiting' : waiting'[n] = last
      /\ \A m, n \in DOMAIN waiting' : m \notin DOMAIN waiting /\ n \notin DOMAIN waiting => m = n
  <2>1. CASE c.status = "waiting"
    <3>1. /\ waiting' \in Seq(Nat) /\ Len(waiting') = Len(waiting) + 1 /\ waiting'[Len(waiting) + 1] = last
          /\ \A n \in 1 .. Len(waiting) : waiting'[n] = waiting[n]
          /\ DOMAIN waiting' = 1 .. Len(waiting) + 1 /\ DOMAIN waiting = 1 .. Len(waiting)
      BY <1>1, <2>1
    <3> QED
      BY <1>1, <2>1, <3>1
  <2>2. CASE c.status # "waiting"
    BY <1>1, <2>2
  <2> QED
    BY <2>1, <2>2
<1>4. {waiting[n] : n \in DOMAIN waiting} = {i \in DOMAIN calls : calls[i].status = "waiting"}
  BY DEF CallsTypeOK
<1>5. \A n \in DOMAIN waiting : waiting[n] \in 1 .. Len(calls) /\ calls[waiting[n]].status = "waiting"
  BY <1>2, <1>4
<1>6. {waiting'[n] : n \in DOMAIN waiting'} = {i \in DOMAIN calls' : calls'[i].status = "waiting"}
  <2>1. ASSUME NEW n \in DOMAIN waiting' PROVE waiting'[n] \in DOMAIN calls' /\ calls'[waiting'[n]].status = "waiting"
    <3>1. CASE n \in DOMAIN waiting
      BY <1>1, <1>2, <1>3, <1>5, <3>1
    <3>2. CASE n \notin DOMAIN waiting
      BY <1>1, <1>2, <1>3, <3>2
    <3> QED
      BY <3>1, <3>2
  <2>2. ASSUME NEW i \in DOMAIN calls', calls'[i].status = "waiting" PROVE \E n \in DOMAIN waiting' : waiting'[n] = i
    <3>1. CASE i = last
      BY <1>2, <1>3, <2>2, <3>1
    <3>2. CASE i # last
      <4>1. i \in 1 .. Len(calls) /\ calls[i].status = "waiting"
        BY <1>1, <1>2, <2>2, <3>2
      <4>2. PICK n \in DOMAIN waiting : waiting[n] = i
        BY <1>2, <1>4, <4>1
      <4> QED
        BY <1>3, <4>2
    <3> QED
      BY <3>1, <3>2
  <2> QED
    BY <2>1, <2>2
<1>7. CallsTypeOK'
  BY <1>1, <1>2, <1>3, <1>6, RequestsAssumption DEF CallsTypeOK, RequestsAssumption
<1>8. JobsAsAsked'
  <2> SUFFICES ASSUME NEW i \in DOMAIN calls', calls'[i].status \in {"delayed", "waiting", "started"}
               PROVE  AsAsked(calls[i])'
    BY DEF JobsAsAsked
  <2>1. AsAsked(calls'[i])
    <3>1. CASE i = last
      BY <1>2, <3>1
    <3>2. CASE i # last
      BY <1>1, <1>2, <3>2 DEF JobsAsAsked
    <3> QED
      BY <3>1, <3>2
  <2> QED
    BY <2>1 DEF AsAsked
<1>9. WaitsOnce'
  <2> SUFFICES ASSUME NEW m \in DOMAIN waiting', NEW n \in DOMAIN waiting', waiting'[m] = waiting'[n] PROVE m = n
    BY DEF WaitsOnce
  <2>1. CASE m \in DOMAIN waiting /\ n \in DOMAIN waiting
    BY <1>3, <2>1 DEF WaitsOnce
  <2>2. CASE m \notin DOMAIN waiting /\ n \notin DOMAIN waiting
    BY <1>3, <2>2
  <2>3. CASE m \in DOMAIN waiting /\ n \notin DOMAIN waiting
    BY <1>1, <1>3, <1>5, <2>3
  <2>4. CASE m \notin DOMAIN waiting /\ n \in DOMAIN waiting
    BY <1>1, <1>3, <1>5, <2>4
  <2> QED
    BY <2>1, <2>2, <2>3, <2>4
<1> QED
  BY <1>7, <1>8, <1>9

LEMMA CallKeeps ==
  ASSUME AppIInv, CallIInv, NEW r \in Requests, Call(r)
  PROVE  CallIInv'
<1>1. Len(calls) < MaxCalls
  BY CallEffect
<1>2. ASSUME NEW status \in Errors \cup {"ran"}, CallEnds(r, status) PROVE CallIInv'
  <2> DEFINE c == [request |-> r, status |-> status]
  <2>1. c \in EndedCalls /\ c.status \notin {"delayed", "waiting", "started"}
    BY DEF EndedCalls, Errors
  <2>2. calls' = Append(calls, c) /\ waiting' = waiting /\ now' = now
    BY <1>2 DEF CallEnds
  <2> HIDE DEF c
  <2> QED
    BY <1>1, <2>1, <2>2, AppendKeeps
<1>3. ASSUME Admitted(r), Added(r) PROVE CallIInv'
  BY <1>1, <1>3, StoredJob, AppendKeeps DEF CallIInv
<1> QED
  BY <1>2, <1>3, CallEffect

LEMMA IsJob ==
  ASSUME CallIInv, NEW i \in DOMAIN calls, calls[i].status \in {"delayed", "waiting", "started"}
  PROVE  calls[i] \in Jobs /\ AsAsked(calls[i])
<1>1. calls[i] \in EndedCalls \cup Jobs
  BY DEF CallIInv, CallsTypeOK
<1>2. calls[i] \notin EndedCalls
  BY DEF EndedCalls, Errors
<1> QED
  BY <1>1, <1>2 DEF CallIInv, JobsAsAsked

LEMMA StatusChanges ==
  ASSUME CallIInv, NEW i \in DOMAIN calls, calls[i].status \in {"delayed", "waiting", "started"},
         NEW status \in {"delayed", "waiting", "started"}, status = "waiting" => calls[i].due <= now,
         calls' = [calls EXCEPT ![i].status = status], now' = now
  PROVE  /\ calls' \in Seq(EndedCalls \cup Jobs) /\ Len(calls') = Len(calls)
         /\ \A j \in DOMAIN calls : calls'[j].status = IF j = i THEN status ELSE calls[j].status
         /\ JobsAsAsked'
<1>1. calls \in Seq(EndedCalls \cup Jobs) /\ now \in Nat
  BY DEF CallIInv, CallsTypeOK
<1>2. calls[i] \in Jobs /\ AsAsked(calls[i])
  BY IsJob
<1> DEFINE job == [calls[i] EXCEPT !.status = status]
<1>3. job \in Jobs /\ job.status = status
  BY <1>2 DEF Jobs
<1>4. AsAsked(job)
  <2>1. /\ job.request = calls[i].request /\ job.queue = calls[i].queue /\ job.group = calls[i].group
        /\ job.priority = calls[i].priority /\ job.pro = calls[i].pro
        /\ job.created = calls[i].created /\ job.due = calls[i].due /\ calls[i].due \in Nat
    BY <1>2 DEF Jobs
  <2> HIDE DEF job
  <2> QED
    BY <1>1, <1>2, <1>3, <2>1 DEF AsAsked
<1>5. calls' = [calls EXCEPT ![i] = job]
  OBVIOUS
<1> HIDE DEF job
<1>6. /\ calls' \in Seq(EndedCalls \cup Jobs) /\ Len(calls') = Len(calls) /\ DOMAIN calls' = DOMAIN calls
      /\ \A j \in DOMAIN calls : calls'[j] = IF j = i THEN job ELSE calls[j]
  BY <1>1, <1>3, <1>5
<1>7. JobsAsAsked'
  <2> SUFFICES ASSUME NEW j \in DOMAIN calls', calls'[j].status \in {"delayed", "waiting", "started"}
               PROVE  AsAsked(calls[j])'
    BY DEF JobsAsAsked
  <2>1. AsAsked(calls'[j])
    <3>1. CASE j = i
      BY <1>4, <1>6, <3>1
    <3>2. CASE j # i
      BY <1>6, <3>2 DEF CallIInv, JobsAsAsked
    <3> QED
      BY <3>1, <3>2
  <2> QED
    BY <2>1 DEF AsAsked
<1> QED
  BY <1>3, <1>6, <1>7

LEMMA ElapseKeeps ==
  ASSUME CallIInv, Elapse
  PROVE  CallIInv'
<1>1. PICK i \in Delayed : now < calls[i].due /\ now' = calls[i].due
  BY DEF Elapse
<1>2. calls' = calls /\ waiting' = waiting
  BY DEF Elapse
<1>3. calls[i].due \in Nat /\ now \in Nat
  BY IsJob DEF Delayed, Jobs, CallIInv, CallsTypeOK
<1>4. CallsTypeOK' /\ WaitsOnce'
  BY <1>1, <1>2, <1>3 DEF CallIInv, CallsTypeOK, WaitsOnce
<1>5. JobsAsAsked'
  <2> SUFFICES ASSUME NEW j \in DOMAIN calls', calls'[j].status \in {"delayed", "waiting", "started"}
               PROVE  AsAsked(calls[j])'
    BY DEF JobsAsAsked
  <2>1. calls[j] \in Jobs /\ AsAsked(calls[j]) /\ calls'[j] = calls[j]
    BY <1>2, IsJob
  <2>2. calls[j].due \in Nat
    BY <2>1 DEF Jobs
  <2> QED
    BY <1>1, <1>3, <2>1, <2>2 DEF AsAsked
<1> QED
  BY <1>4, <1>5 DEF CallIInv

LEMMA FallDueKeeps ==
  ASSUME CallIInv, NEW i \in Delayed, FallDue(i)
  PROVE  CallIInv'
<1>1. /\ i \in DOMAIN calls /\ calls[i].status = "delayed" /\ calls[i].due <= now
      /\ calls' = [calls EXCEPT ![i].status = "waiting"] /\ waiting' = Append(waiting, i) /\ now' = now
  BY DEF FallDue, Delayed
<1>2. /\ calls' \in Seq(EndedCalls \cup Jobs) /\ Len(calls') = Len(calls)
      /\ \A j \in DOMAIN calls : calls'[j].status = IF j = i THEN "waiting" ELSE calls[j].status
      /\ JobsAsAsked'
  BY <1>1, StatusChanges
<1>3. /\ calls \in Seq(EndedCalls \cup Jobs) /\ Len(calls) <= MaxCalls /\ now \in Nat /\ waiting \in Seq(Nat)
      /\ {waiting[n] : n \in DOMAIN waiting} = {j \in DOMAIN calls : calls[j].status = "waiting"}
  BY DEF CallIInv, CallsTypeOK
<1>4. /\ waiting' \in Seq(Nat) /\ DOMAIN waiting' = 1 .. Len(waiting) + 1 /\ DOMAIN waiting = 1 .. Len(waiting)
      /\ waiting'[Len(waiting) + 1] = i /\ \A n \in 1 .. Len(waiting) : waiting'[n] = waiting[n]
      /\ Len(waiting) \in Nat
  BY <1>1, <1>3
<1>5. DOMAIN calls' = DOMAIN calls
  BY <1>2, <1>3
<1>6. \A n \in DOMAIN waiting : waiting[n] # i
  BY <1>1, <1>3
<1>7. {waiting'[n] : n \in DOMAIN waiting'} = {j \in DOMAIN calls' : calls'[j].status = "waiting"}
  <2>1. ASSUME NEW n \in DOMAIN waiting' PROVE waiting'[n] \in DOMAIN calls /\ calls'[waiting'[n]].status = "waiting"
    <3>1. CASE n = Len(waiting) + 1
      BY <1>1, <1>2, <1>4, <3>1
    <3>2. CASE n # Len(waiting) + 1
      <4>1. n \in DOMAIN waiting /\ waiting'[n] = waiting[n]
        BY <1>4, <2>1, <3>2
      <4>2. waiting[n] \in DOMAIN calls /\ calls[waiting[n]].status = "waiting"
        BY <1>3, <4>1
      <4> QED
        BY <1>2, <4>1, <4>2
    <3> QED
      BY <3>1, <3>2
  <2>2. ASSUME NEW j \in DOMAIN calls, calls'[j].status = "waiting" PROVE \E n \in DOMAIN waiting' : waiting'[n] = j
    <3>1. CASE j = i
      BY <1>4, <3>1
    <3>2. CASE j # i
      <4>1. PICK n \in DOMAIN waiting : waiting[n] = j
        BY <1>2, <1>3, <2>2, <3>2
      <4> QED
        BY <1>4, <4>1
    <3> QED
      BY <3>1, <3>2
  <2> QED
    BY <1>5, <2>1, <2>2
<1>8. CallsTypeOK'
  BY <1>1, <1>2, <1>3, <1>4, <1>7 DEF CallsTypeOK
<1>9. WaitsOnce'
  BY <1>4, <1>6 DEF WaitsOnce, CallIInv
<1> QED
  BY <1>2, <1>8, <1>9 DEF CallIInv

LEMMA StartKeeps ==
  ASSUME CallIInv, NEW n \in DOMAIN waiting, Start(n)
  PROVE  CallIInv'
<1> DEFINE i == waiting[n]
           rest == SubSeq(waiting, 1, n - 1) \o SubSeq(waiting, n + 1, Len(waiting))
<1>1. /\ calls \in Seq(EndedCalls \cup Jobs) /\ Len(calls) <= MaxCalls /\ now \in Nat /\ waiting \in Seq(Nat)
      /\ {waiting[m] : m \in DOMAIN waiting} = {j \in DOMAIN calls : calls[j].status = "waiting"}
      /\ Len(waiting) \in Nat /\ n \in 1 .. Len(waiting) /\ DOMAIN waiting = 1 .. Len(waiting)
  BY DEF CallIInv, CallsTypeOK
<1>2. i \in DOMAIN calls /\ calls[i].status = "waiting"
  BY <1>1
<1>3. calls' = [calls EXCEPT ![i].status = "started"] /\ waiting' = rest /\ now' = now
  BY DEF Start
<1>4. /\ waiting' \in Seq(Nat) /\ DOMAIN waiting' = 1 .. Len(waiting) - 1
      /\ \A m \in DOMAIN waiting' : waiting'[m] = IF m < n THEN waiting[m] ELSE waiting[m + 1]
  <2> DEFINE before == SubSeq(waiting, 1, n - 1)
             after  == SubSeq(waiting, n + 1, Len(waiting))
  <2>0. waiting \in Seq(Nat) /\ Len(waiting) \in Nat /\ n \in 1 .. Len(waiting)
    BY <1>1
  <2>1. before \in Seq(Nat) /\ Len(before) = n - 1 /\ \A m \in 1 .. n - 1 : before[m] = waiting[m]
    BY <2>0
  <2>2. /\ after \in Seq(Nat) /\ Len(after) = Len(waiting) - n
        /\ \A m \in 1 .. Len(waiting) - n : after[m] = waiting[n + m]
    <3> DEFINE lo == n + 1
               hi == Len(waiting)
    <3>1. lo \in Int /\ hi \in Int /\ \A m \in lo .. hi : waiting[m] \in Nat
      BY <2>0
    <3>2. /\ SubSeq(waiting, lo, hi) \in Seq(Nat)
          /\ Len(SubSeq(waiting, lo, hi)) = IF lo <= hi THEN hi - lo + 1 ELSE 0
          /\ \A m \in 1 .. hi - lo + 1 : SubSeq(waiting, lo, hi)[m] = waiting[lo + m - 1]
      <4> HIDE DEF lo, hi
      <4> QED
        BY <3>1, SubSeqProperties
    <3>3. /\ after \in Seq(Nat)
          /\ Len(after) = IF lo <= hi THEN hi - lo + 1 ELSE 0
          /\ \A m \in 1 .. hi - lo + 1 : after[m] = waiting[lo + m - 1]
      BY <3>2, Zenon
    <3> HIDE DEF after
    <3>4. Len(after) = Len(waiting) - n
      BY <2>0, <3>3
    <3>5. ASSUME NEW m \in 1 .. Len(waiting) - n PROVE after[m] = waiting[n + m]
      <4>1. m \in 1 .. hi - lo + 1 /\ lo + m - 1 = n + m
        BY <2>0
      <4> HIDE DEF lo, hi
      <4> QED
        BY <3>3, <4>1
    <3> QED
      BY <3>3, <3>4, <3>5
  <2>3. waiting' = before \o after
    BY <1>3
  <2> HIDE DEF before, after
  <2>4. /\ waiting' \in Seq(Nat) /\ Len(waiting') = Len(waiting) - 1
        /\ \A m \in 1 .. Len(waiting) - 1 : waiting'[m] = IF m <= n - 1 THEN before[m] ELSE after[m - (n - 1)]
    <3>1. /\ waiting' \in Seq(Nat) /\ Len(waiting') = Len(before) + Len(after)
          /\ \A m \in 1 .. Len(before) + Len(after) :
               waiting'[m] = IF m <= Len(before) THEN before[m] ELSE after[m - Len(before)]
      BY <2>1, <2>2, <2>3, ConcatProperties, Zenon
    <3>2. Len(before) + Len(after) = Len(waiting) - 1
      BY <2>0, <2>1, <2>2
    <3>3. Len(before) = n - 1
      BY <2>1
    <3> QED
      BY <3>1, <3>2, <3>3, Zenon
  <2>5. DOMAIN waiting' = 1 .. Len(waiting) - 1
    BY <2>4
  <2>6. ASSUME NEW m \in 1 .. Len(waiting) - 1
        PROVE  waiting'[m] = IF m < n THEN waiting[m] ELSE waiting[m + 1]
    <3>1. CASE m < n
      BY <1>1, <2>1, <2>4, <3>1
    <3>2. CASE ~(m < n)
      <4>1. m - (n - 1) \in 1 .. Len(waiting) - n /\ n + (m - (n - 1)) = m + 1 /\ ~(m <= n - 1)
        BY <1>1, <3>2
      <4> QED
        BY <2>2, <2>4, <3>2, <4>1
    <3> QED
      BY <3>1, <3>2
  <2> QED
    BY <2>4, <2>5, <2>6
<1> HIDE DEF rest
<1>5. /\ calls' \in Seq(EndedCalls \cup Jobs) /\ Len(calls') = Len(calls)
      /\ \A j \in DOMAIN calls : calls'[j].status = IF j = i THEN "started" ELSE calls[j].status
      /\ JobsAsAsked'
  BY <1>2, <1>3, StatusChanges
<1>6. DOMAIN calls' = DOMAIN calls
  BY <1>1, <1>5
<1>7. \A m, l \in DOMAIN waiting : waiting[m] = waiting[l] => m = l
  BY DEF CallIInv, WaitsOnce
<1>8. {waiting'[m] : m \in DOMAIN waiting'} = {j \in DOMAIN calls' : calls'[j].status = "waiting"}
  <2>1. ASSUME NEW m \in DOMAIN waiting' PROVE waiting'[m] \in DOMAIN calls /\ calls'[waiting'[m]].status = "waiting"
    <3>1. PICK l \in DOMAIN waiting : waiting'[m] = waiting[l] /\ l # n
      <4>1. m \in 1 .. Len(waiting) - 1 /\ waiting'[m] = IF m < n THEN waiting[m] ELSE waiting[m + 1]
        BY <1>4
      <4>2. m \in DOMAIN waiting /\ m + 1 \in DOMAIN waiting
        BY <1>1, <4>1
      <4>3. CASE m < n
        BY <1>1, <4>1, <4>2, <4>3
      <4>4. CASE ~(m < n)
        BY <1>1, <4>1, <4>2, <4>4
      <4> QED
        BY <4>3, <4>4
    <3>2. waiting[l] \in DOMAIN calls /\ calls[waiting[l]].status = "waiting" /\ waiting[l] # i
      BY <1>1, <1>7, <3>1
    <3> QED
      BY <1>5, <3>1, <3>2
  <2>2. ASSUME NEW j \in DOMAIN calls, calls'[j].status = "waiting" PROVE \E m \in DOMAIN waiting' : waiting'[m] = j
    <3>1. calls[j].status = "waiting" /\ j # i
      BY <1>5, <2>2
    <3>2. PICK l \in DOMAIN waiting : waiting[l] = j
      BY <1>1, <3>1
    <3>3. l \in 1 .. Len(waiting) /\ n \in 1 .. Len(waiting) /\ Len(waiting) \in Nat /\ l # n
      BY <1>1, <3>1, <3>2
    <3>4. CASE l < n
      <4>1. l \in 1 .. Len(waiting) - 1
        BY <3>3, <3>4
      <4> QED
        BY <1>4, <3>2, <3>4, <4>1
    <3>5. CASE l > n
      <4>1. l - 1 \in 1 .. Len(waiting) - 1 /\ ~(l - 1 < n) /\ (l - 1) + 1 = l
        BY <3>3, <3>5
      <4> QED
        BY <1>4, <3>2, <4>1
    <3> QED
      BY <3>3, <3>4, <3>5
  <2> QED
    BY <1>6, <2>1, <2>2
<1>9. CallsTypeOK'
  BY <1>1, <1>3, <1>4, <1>5, <1>8 DEF CallsTypeOK
<1>10. WaitsOnce'
  <2> SUFFICES ASSUME NEW m \in DOMAIN waiting', NEW l \in DOMAIN waiting', waiting'[m] = waiting'[l] PROVE m = l
    BY DEF WaitsOnce
  <2> DEFINE from(k) == IF k < n THEN k ELSE k + 1
  <2>0. Len(waiting) \in Nat /\ n \in 1 .. Len(waiting) /\ DOMAIN waiting = 1 .. Len(waiting)
    BY <1>1
  <2>1. ASSUME NEW k \in 1 .. Len(waiting) - 1 PROVE from(k) \in DOMAIN waiting /\ waiting'[k] = waiting[from(k)]
    <3>1. waiting'[k] = IF k < n THEN waiting[k] ELSE waiting[k + 1]
      BY <1>4
    <3>2. CASE k < n
      BY <2>0, <3>1, <3>2
    <3>3. CASE ~(k < n)
      BY <2>0, <3>1, <3>3
    <3> QED
      BY <3>2, <3>3
  <2>2. m \in 1 .. Len(waiting) - 1 /\ l \in 1 .. Len(waiting) - 1
    BY <1>4
  <2>3. from(m) = from(l)
    BY <1>7, <2>1, <2>2
  <2> QED
    BY <1>1, <2>2, <2>3
<1> QED
  BY <1>5, <1>9, <1>10 DEF CallIInv

LEMMA QueueStepKeeps ==
  ASSUME CallIInv, QueueStep
  PROVE  CallIInv'
  BY ElapseKeeps, FallDueKeeps, StartKeeps DEF QueueStep

(***************************************************************************)
(* The sync command.                                                       *)
(***************************************************************************)

LEMMA ThreeFiles == DOMAIN Files = 1 .. 3 /\ Len(Files) = 3
  BY DEF Files

LEMMA PatchedContent ==
  ASSUME NEW content \in Contents
  PROVE  Patch(content) \in Contents /\ Patch(content).mentions = 0
<1> DEFINE psychic == {i \in DOMAIN content.imports : content.imports[i] = "psychic"}
           first   == CHOOSE i \in psychic : \A j \in psychic : i <= j
           imports == IF psychic = {} THEN content.imports ELSE [content.imports EXCEPT ![first] = "workers"]
<1>1. imports \in Seq({"psychic", "workers"})
  <2>1. content.imports \in Seq({"psychic", "workers"})
    BY DEF Contents
  <2> HIDE DEF first, psychic
  <2> QED
    BY <2>1
<1>2. Patch(content) = [exists |-> TRUE, mentions |-> 0, imports |-> imports]
  BY DEF Patch
<1> HIDE DEF imports
<1> QED
  BY <1>1, <1>2 DEF Contents

LEMMA SyncInitHolds == SyncInit => SyncIInv
<1> SUFFICES ASSUME SyncInit PROVE SyncIInv
  OBVIOUS
<1>1. sync.at = "none" /\ sync \in [at : Ended \cup {"build"}, file : {0}, content : {Missing}]
  BY DEF SyncInit, NoSync, Ended
<1>2. files \in [DOMAIN Files -> Contents] /\ types = FALSE
      /\ \A f \in DOMAIN Files : \A i \in DOMAIN files[f].imports : files[f].imports[i] # "workers"
  BY InitialFilesAssumption DEF SyncInit, InitialFilesAssumption
<1> QED
  BY <1>1, <1>2 DEF SyncIInv, SyncTypeOK, ImportsResolve, SilentMeansPatched, LoopPosition

LEMMA SyncUnchanged == SyncIInv /\ UNCHANGED syncVars => SyncIInv'
  BY DEF syncVars, SyncIInv, SyncTypeOK, ImportsResolve, SilentMeansPatched, LoopPosition

(* Where the command is while it has a file in its hands. *)
LEMMA InLoop ==
  ASSUME SyncIInv, sync.at \in {"read", "patch", "write"}
  PROVE  /\ sync.file \in 1 .. 3 /\ sync.content \in Contents
         /\ sync \in [at : {"read", "patch", "write"}, file : DOMAIN Files, content : Contents]
         /\ types = TRUE /\ \A f \in 1 .. 3 : f < sync.file => files[f].mentions = 0
         /\ files \in [1 .. 3 -> Contents]
<1>1. sync \in [at : {"read", "patch", "write"}, file : DOMAIN Files, content : Contents]
  BY DEF SyncIInv, SyncTypeOK, Ended
<1> QED
  BY <1>1, ThreeFiles DEF SyncIInv, SyncTypeOK, LoopPosition

(* A run that ends, silently only when every file is patched. *)
LEMMA EndKeeps ==
  ASSUME SyncIInv, NEW how \in Ended, SyncEnds(how),
         files' \in [DOMAIN Files -> Contents], types' \in BOOLEAN, ImportsResolve',
         how = "silent" => \A f \in DOMAIN files' : files'[f].mentions = 0
  PROVE  SyncIInv'
<1>1. sync'.at = how /\ sync' \in [at : Ended \cup {"build"}, file : {0}, content : {Missing}]
  BY DEF SyncEnds, NoSync
<1>2. how \notin {"read", "patch", "write"}
  BY DEF Ended
<1> QED
  BY <1>1, <1>2 DEF SyncIInv, SyncTypeOK, SilentMeansPatched, LoopPosition

(* The next file, the one before it and all before that being patched. *)
LEMMA NextFileKeeps ==
  ASSUME SyncIInv, sync.at \in {"read", "patch", "write"}, NextFile,
         files' \in [1 .. 3 -> Contents], types' = TRUE, files'[sync.file].mentions = 0,
         \A f \in 1 .. 3 : f # sync.file => files'[f] = files[f]
  PROVE  SyncIInv'
<1>1. /\ sync.file \in 1 .. 3 /\ \A f \in 1 .. 3 : f < sync.file => files[f].mentions = 0
  BY InLoop
<1>2. \A f \in 1 .. 3 : f <= sync.file => files'[f].mentions = 0
  BY <1>1
<1>3. ImportsResolve'
  BY DEF ImportsResolve
<1>4. CASE sync.file = 3
  <2>1. SyncEnds("silent") /\ \A f \in DOMAIN files' : files'[f].mentions = 0
    BY <1>2, <1>4, ThreeFiles DEF NextFile
  <2> QED
    BY <1>3, <2>1, EndKeeps, ThreeFiles DEF Ended
<1>5. CASE sync.file # 3
  <2>1. sync' = [at |-> "read", file |-> sync.file + 1, content |-> Missing]
    BY <1>5, ThreeFiles DEF NextFile, NoSync
  <2>2. sync.file + 1 \in 1 .. 3 /\ Missing \in Contents
    BY <1>1, <1>5 DEF Missing, Contents
  <2>3. SyncTypeOK'
    BY <2>1, <2>2, ThreeFiles DEF SyncTypeOK
  <2>4. SilentMeansPatched' /\ LoopPosition'
    BY <1>1, <1>2, <2>1, ThreeFiles DEF SilentMeansPatched, LoopPosition
  <2> QED
    BY <1>3, <2>3, <2>4 DEF SyncIInv
<1> QED
  BY <1>4, <1>5

LEMMA SyncStepKeeps ==
  ASSUME SyncIInv, SyncStep
  PROVE  SyncIInv'
<1>1. CASE Sync
  <2>1. files' = files /\ types' = types /\ sync.at \in Ended
    BY <1>1 DEF Sync
  <2>2. files' \in [DOMAIN Files -> Contents] /\ types' \in BOOLEAN /\ ImportsResolve'
    BY <2>1 DEF SyncIInv, SyncTypeOK, ImportsResolve
  <2>3. CASE SyncEnds("failed")
    BY <2>2, <2>3, EndKeeps DEF Ended
  <2>4. CASE sync' = [NoSync EXCEPT !.at = "build"]
    <3>1. sync' = [at |-> "build", file |-> 0, content |-> Missing]
      BY <2>4 DEF NoSync
    <3> QED
      BY <2>2, <3>1 DEF SyncIInv, SyncTypeOK, SilentMeansPatched, LoopPosition
  <2> QED
    BY <1>1, <2>3, <2>4 DEF Sync
<1>2. CASE Build
  <2>1. files' = files /\ types' = TRUE /\ sync.at = "build"
    BY <1>2 DEF Build
  <2>2. files' \in [DOMAIN Files -> Contents] /\ types' \in BOOLEAN /\ ImportsResolve'
    BY <2>1 DEF SyncIInv, SyncTypeOK, ImportsResolve
  <2>3. CASE SyncEnds("bypassed")
    BY <2>2, <2>3, EndKeeps DEF Ended
  <2>4. CASE sync' = [NoSync EXCEPT !.at = "read", !.file = 1]
    <3>1. sync' = [at |-> "read", file |-> 1, content |-> Missing]
      BY <2>4 DEF NoSync
    <3>2. Missing \in Contents
      BY DEF Missing, Contents
    <3>3. \A f \in 1 .. 3 : ~(f < 1)
      OBVIOUS
    <3> QED
      BY <2>1, <2>2, <3>1, <3>2, <3>3, ThreeFiles DEF SyncIInv, SyncTypeOK, SilentMeansPatched, LoopPosition
  <2> QED
    BY <1>2, <2>3, <2>4 DEF Build
<1>3. CASE BuildFails
  <2>1. files' = files /\ types' = types /\ SyncEnds("failed")
    BY <1>3 DEF BuildFails
  <2>2. files' \in [DOMAIN Files -> Contents] /\ types' \in BOOLEAN /\ ImportsResolve'
    BY <2>1 DEF SyncIInv, SyncTypeOK, ImportsResolve
  <2> QED
    BY <2>1, <2>2, EndKeeps DEF Ended
<1>4. CASE ReadFile
  <2>1. files' = files /\ types' = types /\ sync.at = "read"
    BY <1>4 DEF ReadFile
  <2>2. /\ sync.file \in 1 .. 3 /\ types = TRUE /\ files \in [1 .. 3 -> Contents]
        /\ \A f \in 1 .. 3 : f < sync.file => files[f].mentions = 0
    BY <2>1, InLoop
  <2>3. files' \in [DOMAIN Files -> Contents] /\ types' \in BOOLEAN /\ ImportsResolve'
    BY <2>1, <2>2, ThreeFiles DEF ImportsResolve
  <2>4. CASE Warns
    BY <2>3, <2>4, EndKeeps DEF Warns, Ended
  <2>5. CASE files[sync.file].mentions = 0 /\ NextFile
    BY <2>1, <2>2, <2>5, NextFileKeeps
  <2>6. CASE files[sync.file].mentions > 0 /\ sync' = [sync EXCEPT !.at = "patch", !.content = files[sync.file]]
    <3>1. sync' = [at |-> "patch", file |-> sync.file, content |-> files[sync.file]]
      BY <2>1, <2>6, InLoop
    <3>2. files[sync.file] \in Contents
      BY <2>2
    <3> QED
      BY <2>1, <2>2, <2>3, <2>6, <3>1, <3>2, ThreeFiles DEF SyncIInv, SyncTypeOK, SilentMeansPatched, LoopPosition
  <2> QED
    BY <1>4, <2>4, <2>5, <2>6 DEF ReadFile
<1>5. CASE OpenFile
  <2>1. types' = types /\ sync.at = "patch"
    BY <1>5 DEF OpenFile
  <2>2. /\ sync.file \in 1 .. 3 /\ types = TRUE /\ files \in [1 .. 3 -> Contents]
        /\ \A f \in 1 .. 3 : f < sync.file => files[f].mentions = 0
    BY <2>1, InLoop
  <2>3. ImportsResolve'
    BY <2>1, <2>2 DEF ImportsResolve
  <2>4. CASE UNCHANGED files /\ Warns
    BY <2>1, <2>2, <2>3, <2>4, ThreeFiles, EndKeeps DEF Warns, Ended
  <2>5. CASE files' = [files EXCEPT ![sync.file] = Cut] /\ sync' = [sync EXCEPT !.at = "write"]
    <3>1. sync' = [at |-> "write", file |-> sync.file, content |-> sync.content] /\ sync.content \in Contents
      BY <2>1, <2>5, InLoop
    <3>2. Cut \in Contents
      BY DEF Cut, Contents
    <3>3. files' \in [1 .. 3 -> Contents] /\ \A f \in 1 .. 3 : f < sync.file => files'[f].mentions = 0
      BY <2>2, <2>5, <3>2
    <3> QED
      BY <2>1, <2>2, <2>3, <3>1, <3>3, ThreeFiles DEF SyncIInv, SyncTypeOK, SilentMeansPatched, LoopPosition
  <2> QED
    BY <1>5, <2>4, <2>5 DEF OpenFile
<1>6. CASE WriteFile
  <2>1. types' = types /\ sync.at = "write"
    BY <1>6 DEF WriteFile
  <2>2. /\ sync.file \in 1 .. 3 /\ types = TRUE /\ files \in [1 .. 3 -> Contents] /\ sync.content \in Contents
    BY <2>1, InLoop
  <2>3. ImportsResolve'
    BY <2>1, <2>2 DEF ImportsResolve
  <2>4. CASE UNCHANGED files /\ Warns
    BY <2>1, <2>2, <2>3, <2>4, ThreeFiles, EndKeeps DEF Warns, Ended
  <2>5. CASE files' = [files EXCEPT ![sync.file] = Patch(sync.content)] /\ NextFile
    <3>1. /\ files' \in [1 .. 3 -> Contents] /\ files'[sync.file].mentions = 0
          /\ \A f \in 1 .. 3 : f # sync.file => files'[f] = files[f]
      BY <2>2, <2>5, PatchedContent
    <3> QED
      BY <2>1, <2>2, <2>5, <3>1, NextFileKeeps
  <2> QED
    BY <1>6, <2>4, <2>5 DEF WriteFile
<1> QED
  BY <1>1, <1>2, <1>3, <1>4, <1>5, <1>6 DEF SyncStep

(* Sync connects; the steps after it leave the app alone. *)
LEMMA SyncStepKeepsApp ==
  ASSUME AppIInv, SyncStep
  PROVE  AppIInv'
<1>1. CASE Sync /\ CanConnect
  BY <1>1, ConnectKeeps, AppUnchanged DEF Sync, Connects, appVars
<1>2. CASE Sync /\ ~CanConnect
  BY <1>2, AppUnchanged DEF Sync, appVars
<1>3. CASE UNCHANGED appVars
  BY <1>3, AppUnchanged
<1> QED
  BY <1>1, <1>2, <1>3 DEF SyncStep, Build, BuildFails, ReadFile, OpenFile, WriteFile

LEMMA SyncForgotten ==
  ASSUME SyncIInv, sync' = NoSync, UNCHANGED <<files, types>>
  PROVE  SyncIInv'
<1>1. sync'.at = "none" /\ sync' \in [at : Ended \cup {"build"}, file : {0}, content : {Missing}]
  BY DEF NoSync, Ended
<1> QED
  BY <1>1 DEF SyncIInv, SyncTypeOK, ImportsResolve, SilentMeansPatched, LoopPosition

(***************************************************************************)
(* The composition.                                                        *)
(***************************************************************************)

LEMMA InitHolds == Init => IInv
  BY AppInitHolds, CallsInitHolds, SyncInitHolds DEF Init, IInv

LEMMA CallKeepsApp ==
  ASSUME AppIInv, NEW r \in Requests, Call(r)
  PROVE  AppIInv'
  BY CallConnects, AppUnchanged, ConnectKeeps

LEMMA NextKeeps ==
  ASSUME IInv, [Next]_vars
  PROVE  IInv'
<1> USE DEF IInv
<1>1. CASE AppStep /\ UNCHANGED <<callVars, syncVars>>
  BY <1>1, AppStepKeeps, CallsUnchanged, SyncUnchanged
<1>2. ASSUME NEW r \in Requests, Call(r), UNCHANGED syncVars PROVE IInv'
  BY <1>2, CallKeepsApp, CallKeeps, SyncUnchanged
<1>3. CASE QueueStep /\ UNCHANGED <<appVars, syncVars>>
  BY <1>3, AppUnchanged, QueueStepKeeps, SyncUnchanged
<1>4. CASE SyncStep /\ UNCHANGED callVars
  BY <1>4, SyncStepKeepsApp, CallsUnchanged, SyncStepKeeps
<1>5. CASE Restart
  BY <1>5, RestartAppKeeps, CallsUnchanged, SyncForgotten DEF Restart
<1>6. CASE UNCHANGED vars
  BY <1>6, AppUnchanged, CallsUnchanged, SyncUnchanged DEF vars
<1> QED
  BY <1>1, <1>2, <1>3, <1>4, <1>5, <1>6 DEF Next

(***************************************************************************)
(* The inductive invariant holds in every state: its parts about the apps, *)
(* about the calls and about the sync command hold together.               *)
(***************************************************************************)
THEOREM Inductive == Spec => []IInv
  BY InitHolds, NextKeeps, PTL DEF Spec

(***************************************************************************)
(* The state is what the module says it is, whatever callbacks do and      *)
(* calls ask for.                                                          *)
(***************************************************************************)
THEOREM TypeCorrect == Spec => []TypeOK
<1>1. IInv => TypeOK
  BY DEF IInv, AppIInv, CallIInv, SyncIInv, TypeOK
<1> QED
  BY <1>1, Inductive, PTL

(***************************************************************************)
(* Neither getOrFail nor the singleton ever has an app whose callback has  *)
(* not returned (init).                                                    *)
(***************************************************************************)
THEOREM NothingHalfConfigured == Spec => []NeverHalfConfigured
<1>1. IInv => NeverHalfConfigured
  BY DEF IInv, AppIInv
<1> QED
  BY <1>1, Inductive, PTL

(***************************************************************************)
(* Patched files only import types/workers.js once it was built: build()   *)
(* before deprecate().                                                     *)
(***************************************************************************)
THEOREM PatchedImportsResolve == Spec => []ImportsResolve
<1>1. IInv => ImportsResolve
  BY DEF IInv, SyncIInv
<1> QED
  BY <1>1, Inductive, PTL

(***************************************************************************)
(* A sync without a warning has patched every file, by the position of the *)
(* loop of deprecate.                                                      *)
(***************************************************************************)
THEOREM SilentSyncsPatch == Spec => []SilentMeansPatched
<1>1. IInv => SilentMeansPatched
  BY DEF IInv, SyncIInv
<1> QED
  BY <1>1, Inductive, PTL

(***************************************************************************)
(* deprecate only opens a file that mentions psychicTypes.                 *)
(***************************************************************************)
THEOREM FilesPatchedOnce == Spec => PatchedOnce
<1> DEFINE Once == \A f \in DOMAIN files : files[f].exists /\ files[f].mentions = 0 /\ files'[f] # files[f] =>
                     sync.at = "write" /\ sync.file = f
<1>1. ASSUME IInv, [Next]_vars PROVE [Once]_files
  <2>1. CASE OpenFile
    <3>1. sync.at = "patch" /\ files[sync.file].mentions > 0
      BY <1>1, <2>1 DEF OpenFile, IInv, SyncIInv, LoopPosition
    <3>2. sync.file \in 1 .. 3 /\ files \in [1 .. 3 -> Contents]
      BY <1>1, <3>1, InLoop DEF IInv
    <3>3. files[sync.file].mentions # 0
      BY <3>1, <3>2 DEF Contents
    <3> QED
      BY <2>1, <3>2, <3>3 DEF OpenFile
  <2>2. CASE WriteFile
    <3>1. sync.at = "write"
      BY <2>2 DEF WriteFile
    <3>2. sync.file \in 1 .. 3 /\ files \in [1 .. 3 -> Contents]
      BY <1>1, <3>1, InLoop DEF IInv
    <3> QED
      BY <2>2, <3>1, <3>2 DEF WriteFile
  <2>3. CASE files' = files
    BY <2>3
  <2> QED
    BY <1>1, <2>1, <2>2, <2>3
       DEF Next, vars, syncVars, SyncStep, Sync, Build, BuildFails, ReadFile, Restart
<1> QED
  BY <1>1, Inductive, PTL DEF Spec, PatchedOnce

(***************************************************************************)
(* The calls.                                                              *)
(***************************************************************************)

LEMMA AskedPriority ==
  ASSUME NEW r \in Requests
  PROVE  /\ JobConfigToPriority(r.config) \in Priorities
         /\ MapPriorityWordToPriorityNumber(JobConfigToPriority(r.config)) = Urgency[JobConfigToPriority(r.config)]
<1>1. JobConfigToPriority(r.config) \in Priorities
  BY RequestsAssumption DEF RequestsAssumption, JobConfigToPriority, Priorities
<1>2. ASSUME NEW word \in Priorities PROVE MapPriorityWordToPriorityNumber(word) = Urgency[word]
  <2> DEFINE Says(n) == <<"urgent", "default", "not_urgent", "last">>[n] = word
  <2>1. Urgency[word] = CHOOSE n \in 1 .. 4 : Says(n)
    BY DEF Urgency
  <2>2. MapPriorityWordToPriorityNumber(word) \in 1 .. 4 /\ Says(MapPriorityWordToPriorityNumber(word))
    BY DEF Priorities, MapPriorityWordToPriorityNumber
  <2>3. \A m, n \in 1 .. 4 : Says(m) /\ Says(n) => m = n
    OBVIOUS
  <2> HIDE DEF Says
  <2> QED
    BY <2>1, <2>2, <2>3
<1> QED
  BY <1>1, <1>2

(* Only a worker starts a job, and it is one that waits. *)
LEMMA OnlyStarts ==
  ASSUME IInv, [Next]_vars, NEW i \in DOMAIN calls, Starts(i)
  PROVE  /\ \E n \in DOMAIN waiting : waiting[n] = i /\ Start(n)
         /\ calls[i] \in Jobs /\ AsAsked(calls[i]) /\ calls[i].status = "waiting"
<1>1. calls[i].status = "waiting" /\ calls'[i].status = "started" /\ calls' # calls
  BY DEF Starts
<1>2. calls[i] \in Jobs /\ AsAsked(calls[i])
  BY <1>1, IsJob DEF IInv
<1>3. ASSUME NEW r \in Requests, Call(r) PROVE FALSE
  <2>1. \E c : calls' = Append(calls, c)
    <3>1. CASE Admitted(r) /\ Added(r)
      BY <3>1, StoredJob DEF IInv, CallIInv
    <3>2. CASE \E status \in Errors \cup {"ran"} : CallEnds(r, status)
      BY <3>2 DEF CallEnds
    <3> QED
      BY <1>3, <3>1, <3>2, CallEffect
  <2>2. calls \in Seq(EndedCalls \cup Jobs)
    BY DEF IInv, CallIInv, CallsTypeOK
  <2>3. calls'[i] = calls[i]
    BY <2>1, <2>2
  <2> QED
    BY <1>1, <2>3
<1>4. ASSUME NEW j \in Delayed, FallDue(j) PROVE FALSE
  <2>1. calls' = [calls EXCEPT ![j].status = "waiting"] /\ j # i
    BY <1>1, <1>4 DEF FallDue, Delayed
  <2>2. calls'[i] = calls[i]
    BY <2>1
  <2> QED
    BY <1>1, <2>2
<1>5. ASSUME NEW n \in DOMAIN waiting, Start(n) PROVE waiting[n] = i
  <2> SUFFICES ASSUME waiting[n] # i PROVE FALSE
    OBVIOUS
  <2>1. calls' = [calls EXCEPT ![waiting[n]].status = "started"]
    BY <1>5 DEF Start
  <2>2. calls'[i] = calls[i]
    BY <2>1
  <2> QED
    BY <1>1, <2>2
<1>6. CASE QueueStep
  BY <1>1, <1>2, <1>4, <1>5, <1>6 DEF QueueStep, Elapse
<1>7. ~UNCHANGED callVars
  BY <1>1 DEF callVars
<1>8. ~UNCHANGED vars /\ ~Restart
  BY <1>7 DEF vars, Restart
<1> QED
  BY <1>3, <1>6, <1>7, <1>8 DEF Next

(***************************************************************************)
(* The duration a call asks for passes before its job starts: its          *)
(* milliseconds are what BullMQ is given to hold the job back for, and the *)
(* job only waits once they have passed.                                   *)
(***************************************************************************)
THEOREM JobsNeverEarly == Spec => NeverEarly
<1> DEFINE Late == \A i \in DOMAIN calls :
                     Starts(i) /\ calls[i].request.delay # None =>
                       now >= calls[i].created + Asks(calls[i].request.delay)
<1>1. ASSUME IInv, [Next]_vars PROVE Late
  <2> SUFFICES ASSUME NEW i \in DOMAIN calls, Starts(i), calls[i].request.delay # None
               PROVE  now >= calls[i].created + Asks(calls[i].request.delay)
    OBVIOUS
  <2>1. calls[i] \in Jobs /\ AsAsked(calls[i]) /\ calls[i].status = "waiting"
    BY <1>1, OnlyStarts
  <2>2. /\ calls[i].request \in Requests /\ calls[i].due \in Nat /\ calls[i].created \in Nat
        /\ now \in Nat
    BY <1>1, <2>1 DEF Jobs, IInv, CallIInv, CallsTypeOK
  <2>3. Asks(calls[i].request.delay) \in Nat
    BY <2>2, DurationGiven, RequestsAssumption DEF RequestsAssumption
  <2>4. /\ calls[i].due >= calls[i].created + Asks(calls[i].request.delay)
        /\ now >= calls[i].due
    BY <2>1 DEF AsAsked
  <2> QED
    BY <2>2, <2>3, <2>4
<1> QED
  BY <1>1, Inductive, PTL DEF Spec, NeverEarly

(***************************************************************************)
(* Among comparable jobs, which are rivals in their queue and group, those *)
(* that ask for more urgency start first.                                  *)
(***************************************************************************)
THEOREM UrgentJobsFirst == Spec => UrgentFirst
<1> DEFINE InOrder == \A i, j \in DOMAIN calls :
                        Starts(i) /\ calls[j].status = "waiting" /\ Comparable(i, j) => Asked(i) <= Asked(j)
<1>1. ASSUME IInv, [Next]_vars PROVE InOrder
  <2> SUFFICES ASSUME NEW i \in DOMAIN calls, NEW j \in DOMAIN calls,
                      Starts(i), calls[j].status = "waiting", Comparable(i, j)
               PROVE  Asked(i) <= Asked(j)
    OBVIOUS
  <2>1. PICK n \in DOMAIN waiting : waiting[n] = i /\ Start(n)
    BY <1>1, OnlyStarts
  <2>2. PICK m \in DOMAIN waiting : waiting[m] = j
    BY <1>1 DEF IInv, CallIInv, CallsTypeOK
  <2>3. calls[i] \in Jobs /\ AsAsked(calls[i]) /\ calls[j] \in Jobs /\ AsAsked(calls[j])
    BY <1>1, OnlyStarts, IsJob DEF IInv
  <2>4. ASSUME NEW k \in {i, j}
        PROVE  /\ calls[k].queue = QueueName(calls[k].request.config)
               /\ calls[k].group = JobConfigToGroupId(calls[k].request.config)
               /\ calls[k].priority = Asked(k)
    <3>1. calls[k].request \in Requests /\ AsAsked(calls[k])
      BY <2>3 DEF Jobs
    <3>2. /\ calls[k].request.entry # "schedule"
          /\ JobConfigToGroupId(calls[k].request.config) = None \/ calls[k].pro
      BY DEF Comparable, JobConfigToGroupId
    <3>3. Asked(k) = Urgency[JobConfigToPriority(calls[k].request.config)]
      BY DEF Asked, JobConfigToPriority
    <3> QED
      BY <3>1, <3>2, <3>3, AskedPriority DEF AsAsked
  <2>5. Rivals(i, j)
    BY <2>4 DEF Rivals, Comparable, QueueName, JobConfigToGroupId
  <2>6. calls[i].priority <= calls[j].priority
    <3>1. calls[i].priority \in 0 .. 4 /\ calls[j].priority \in 0 .. 4
      BY <2>3 DEF Jobs
    <3>2. \A k \in DOMAIN waiting : Rivals(waiting[n], waiting[k]) =>
            \/ calls[waiting[n]].priority < calls[waiting[k]].priority
            \/ calls[waiting[n]].priority = calls[waiting[k]].priority
      BY <2>1, Zenon DEF Start
    <3>3. calls[i].priority < calls[j].priority \/ calls[i].priority = calls[j].priority
      BY <2>1, <2>2, <2>5, <3>2, Zenon
    <3> QED
      BY <3>1, <3>3
  <2> QED
    BY <2>4, <2>6
<1> QED
  BY <1>1, Inductive, PTL DEF Spec, UrgentFirst

(***************************************************************************)
(* A mismatched call is never admitted, in tests or elsewhere.             *)
(***************************************************************************)
THEOREM MismatchesRaise == Spec => TestsRaiseMismatches
<1> DEFINE Raised == \A i \in DOMAIN calls' \ DOMAIN calls :
                       registry' # 0 /\ Mismatched(calls'[i].request, apps[registry']) =>
                         calls'[i].status \in Errors
<1>1. ASSUME IInv, [Next]_vars PROVE Raised
  <2>1. calls \in Seq(EndedCalls \cup Jobs)
    BY <1>1 DEF IInv, CallIInv, CallsTypeOK
  <2>2. ASSUME NEW r \in Requests, Call(r) PROVE Raised
    <3> SUFFICES ASSUME NEW i \in DOMAIN calls' \ DOMAIN calls, registry' # 0,
                        Mismatched(calls'[i].request, apps[registry'])
                 PROVE  calls'[i].status \in Errors
      OBVIOUS
    <3>1. ASSUME NEW status, CallEnds(r, status) PROVE calls'[i].request = r /\ calls'[i].status = status
      BY <2>1, <3>1 DEF CallEnds
    <3>2. ASSUME Admitted(r), Added(r) PROVE calls'[i].request = r
      <4>1. PICK job \in Jobs : job.request = r /\ calls' = Append(calls, job)
        BY <1>1, <3>2, StoredJob DEF IInv, CallIInv
      <4> QED
        BY <2>1, <4>1
    <3>3. ASSUME Admitted(r) PROVE ~Mismatched(r, apps[registry'])
      <4>1. registry' = Connected
        BY <3>3 DEF Admitted, Connects
      <4>2. /\ r.entry # "schedule" => ~r.dream
            /\ ({r.config.workstream, r.config.queue} \ {None}) \subseteq apps[Connected].backgroundOptions.names
        BY <1>1, <3>3, AdmittedFindsQueue DEF IInv
      <4> QED
        BY <4>1, <4>2 DEF Mismatched
    <3> QED
      BY <2>2, <3>1, <3>2, <3>3, CallEffect
  <2>3. CASE DOMAIN calls' = DOMAIN calls
    BY <2>3
  <2>4. CASE QueueStep
    BY <2>1, <2>3, <2>4 DEF QueueStep, Elapse, FallDue, Start
  <2>5. CASE UNCHANGED callVars
    BY <2>3, <2>5 DEF callVars
  <2> QED
    BY <1>1, <2>2, <2>4, <2>5 DEF Next, vars, Restart
<1> QED
  BY <1>1, Inductive, PTL DEF Spec, TestsRaiseMismatches
=============================================================================
