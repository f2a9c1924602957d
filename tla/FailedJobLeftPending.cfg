SPECIFICATION FairSpec
CONSTANTS
  a1 = a1
  s1 = s1
  w1 = w1
  w2 = w2
  NoWorker = NoWorker
  NoRequest = NoRequest
  AsyncRequests <- OneAsync
  SyncRequests <- NoSync
  Workers <- OneWorker
  Attempts = 1
  MaxStalled = 1
PROPERTIES
  FailedJobFailsRow
