----------------------------- MODULE MCRegistry -----------------------------
(***************************************************************************)
(* Deployments of a web server and a worker process for TLC: simple        *)
(* options on one redis, moving to a new redis and a cluster with the old  *)
(* redis transitional, options without a worker connection, and native     *)
(* options with and without a queue connection and extra workers.          *)
(***************************************************************************)
EXTENDS Registry, TLC

CONSTANTS
  web, worker,                     \* processes
  appQueue, appWorker,             \* the current redis
  clusterQueue, clusterWorker,     \* a cluster of its own for one workstream
  legacyQueue, legacyWorker        \* the redis the application moves away from

MCConnections == {appQueue, appWorker, clusterQueue, clusterWorker, legacyQueue, legacyWorker}

MCServer ==
  [c \in MCConnections |->
     CASE c \in {appQueue, appWorker} -> "app"
       [] c \in {clusterQueue, clusterWorker} -> "cluster"
       [] c \in {legacyQueue, legacyWorker} -> "legacy"]

(* "{snazzy}" is the name of a native queue with a hash tag written out. *)
MCNames == {"snazzy", "{snazzy}"}

MCBareName == "snazzy" :> "snazzy" @@ "{snazzy}" :> "snazzy" @@ "default" :> "default"

Queue(name, queueConnection, workerConnection, extraWorkers, workerCount) ==
  [name |-> name, queueConnection |-> queueConnection,
   workerConnection |-> workerConnection, extraWorkers |-> extraWorkers,
   workerCount |-> workerCount, group |-> None]

Grouped(queue, group) == [queue EXCEPT !.group = group]

Default(workerCount) == Queue("default", None, None, TRUE, workerCount)

Simple(queueConnection, workerConnection, default, named, transitional) ==
  [native |-> FALSE, defaultQueueConnection |-> queueConnection,
   defaultWorkerConnection |-> workerConnection, default |-> default,
   named |-> named, transitional |-> transitional]

Native(queueConnection, workerConnection, default, named) ==
  [native |-> TRUE, defaultQueueConnection |-> queueConnection,
   defaultWorkerConnection |-> workerConnection, default |-> default,
   named |-> named, transitional |-> None]

Legacy ==
  Simple(legacyQueue, legacyWorker, Default(1),
         <<Queue("snazzy", None, None, TRUE, None)>>, None)

(* A second workstream, given up with the move, stays among the legacy ones. *)
WithRetired(o) == [o EXCEPT !.named = Append(@, Queue("{snazzy}", None, None, TRUE, 0))]

Moved ==
  Simple(appQueue, appWorker, Default(2),
         <<Queue("snazzy", clusterQueue, clusterWorker, TRUE, None)>>, WithRetired(Legacy))

NoWorkerConnection ==
  Simple(appQueue, None, Default(1),
         <<Queue("snazzy", None, clusterWorker, TRUE, 1),
           Queue("{snazzy}", None, None, TRUE, 1)>>, None)

NativeExtra ==
  Native(None, appWorker, Queue("default", appQueue, None, TRUE, 0),
         <<Grouped(Queue("{snazzy}", clusterQueue, clusterWorker, TRUE, 1), "rateLimited"),
           Queue("snazzy", None, None, FALSE, None)>>)

NativeNoQueueConnection ==
  Native(None, appWorker, Queue("default", None, None, TRUE, 1),
         <<Queue("snazzy", clusterQueue, clusterWorker, TRUE, 1)>>)

MCDeployments ==
  {[p \in Processes |-> o]
     : o \in {Moved, NoWorkerConnection, NativeExtra, NativeNoQueueConnection}}
  \cup {web :> Legacy @@ worker :> Moved}
=============================================================================
