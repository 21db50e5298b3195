CONSTANTS
  w1 = w1
  w2 = w2
  Worker = {w1, w2}
  NoWorker = NoWorker
  Api = Api
  Task = {1}
  MaxRequeue = 2
  Serves <- MCServesAll
  Concurrency = 1
  MultiConfig = {1}
  TimelyHeartbeats = TRUE
  WorkersCrash = TRUE
SPECIFICATION FairSpec
PROPERTIES OrphanIsRecovered
