SPECIFICATION FairSpec
CONSTANTS
  t1 = t1  t2 = t2  j1 = j1  j2 = j2
  Threads <- TwoThreads
  Jobs <- TwoJobs
  NoJob = NoJob
  NoRequest = NoRequest
  MaxFailures = 1
INVARIANTS AtMostOnce RebootConfirmedOnce NoOrphanedRelease AloneReachesWorker
PROPERTIES PhasesKept ReleaseUnlocked AcceptedRuns
