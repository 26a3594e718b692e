\* A graceful stop that takes longer than the lease; nothing stalls or crashes.
CONSTANTS
  i1 = i1  i2 = i2  j1 = j1  j2 = j2  j3 = j3  q1 = q1  q2 = q2  k1 = k1
  Instance <- Both
  Job <- OneJob
  Queue = {q1}
  Holder = {deploy}
  Null = Null
  Every = Every
  QueueOf <- OneQueue
  KeyOf <- NoKeys
  Serves <- ServesAll
  Timed <- NoJobs
  MaxAttempts = 2
  Concurrency = 1
  MaxClaims = 2
  Crashing <- NoInstances
  Stalling <- NoInstances
  Stopping <- First
  Restarting <- NoInstances
  Refused <- NoInstances
  Verbs <- NoVerbs
SPECIFICATION Spec
INVARIANT DrainKeepsItsRows
CHECK_DEADLOCK FALSE
