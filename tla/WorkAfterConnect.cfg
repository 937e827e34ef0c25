\* work() in a process that has backgrounded a job before.
SPECIFICATION Spec
CONSTANTS
  web = web
  worker = worker
  appQueue = appQueue
  appWorker = appWorker
  clusterQueue = clusterQueue
  clusterWorker = clusterWorker
  legacyQueue = legacyQueue
  legacyWorker = legacyWorker
  None = None
  Processes = {web, worker}
  WorkerProcesses = {worker}
  Connections <- MCConnections
  Server <- MCServer
  Clusters = {clusterQueue, clusterWorker}
  Names <- MCNames
  BareName <- MCBareName
  DefaultName = "default"
  Groups = {"rateLimited"}
  Deployments <- MCDeployments
INVARIANT WorkStartsWorkers
