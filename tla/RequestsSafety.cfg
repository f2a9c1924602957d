SPECIFICATION Spec
CONSTANTS
  a1 = a1
  s1 = s1
  w1 = w1
  w2 = w2
  NoWorker = NoWorker
  NoRequest = NoRequest
  AsyncRequests <- OneAsync
  SyncRequests <- OneSync
  Workers <- TwoWorkers
  Attempts = 3
  MaxStalled = 1
SYMMETRY WorkerSymmetry
INVARIANTS
  TypeOK
  CompletedWasProcessed
  SyncAnswerAgreesWithRow
  CompletedJobSettlesRow
  PendingIsOwed
  ErrorTellsFailure
PROPERTIES
  SettledStaysSettled
  JobsAdvance
  LifecycleSpec
