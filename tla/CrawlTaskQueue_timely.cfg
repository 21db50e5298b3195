CONSTANTS
  w1 = w1
  w2 = w2
  Worker = {w1, w2}
  NoWorker = NoWorker
  Api = Api
  Task = {1, 2}
  MaxRequeue = 3
  Serves <- MCServesFiltered
  Concurrency = 1
  MultiConfig = {}
  TimelyHeartbeats = TRUE
  WorkersCrash = TRUE
SPECIFICATION Spec
INVARIANTS ExecutorHoldsLock
PROPERTIES NoResurrection NoFalseRecovery
