SPECIFICATION FairSpec
CONSTANTS
  web = web
  worker = worker
  appQueue = appQueue
  appWorker = appWorker
  clusterQueue = clusterQueue
  clusterWorker = clusterWorker
  legacyQueue = legacyQueue
  legacyWorker = legacyWorker
  None = None
  Processes = {web, worker}
  WorkerProcesses = {worker}
  Connections <- MCConnections
  Server <- MCServer
  Clusters = {clusterQueue, clusterWorker}
  Names <- MCNames
  BareName <- MCBareName
  DefaultName = "default"
  Groups = {"rateLimited"}
  Deployments <- MCDeployments
INVARIANTS
  TypeOK
  RoutedAsConfigured
  ConnectionsRegistered
  AllOrNoWorkers
  NamedErrorsUnreachable
  TypesAsConfigured
PROPERTY
  JobsAreWorked
