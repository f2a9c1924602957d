SPECIFICATION FairSpec
CONSTANTS
  a1 = a1
  s1 = s1
  w1 = w1
  w2 = w2
  NoWorker = NoWorker
  NoRequest = NoRequest
  AsyncRequests <- OneAsync
  SyncRequests <- OneSync
  Workers <- OneWorker
  Attempts = 2
  MaxStalled = 1
PROPERTIES
  JobsEnd
  AcceptedSettlesUnlessJobFails
  SyncIsAnswered
