SPECIFICATION Spec
CONSTANTS
  t1 = t1  t2 = t2  j1 = j1  j2 = j2
  Threads <- TwoThreads
  Jobs <- TwoJobs
  NoJob = NoJob
  NoRequest = NoRequest
  MaxFailures = 0
INVARIANTS AcceptedReachesWorker
