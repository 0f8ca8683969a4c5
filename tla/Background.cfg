SPECIFICATION MCSpec
CONSTANTS
  j1 = j1
  j2 = j2
  j3 = j3
  delete = delete
  w1 = w1
  w2 = w2
  NoJob = NoJob
  Jobs <- ThreeJobs
  Abortable <- OneAbortable
  Workers <- TwoWorkers
  Requests <- ThreeRequests
  Deletions <- OneDeletion
INVARIANTS
  TypeOK
  ScheduledJobsComplete
  AnsweredOnce
  ShutdownStartsAll
PROPERTIES
  ImplementsPool
  JobsEnd
  EachIsAnswered
  ServerExits
CHECK_DEADLOCK FALSE
