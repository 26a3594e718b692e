\* Pauses and drains of two queues and of every queue.
CONSTANTS
  i1 = i1  i2 = i2  j1 = j1  j2 = j2  j3 = j3  q1 = q1  q2 = q2  k1 = k1
  Instance <- Both
  Job <- Jobs
  Queue <- TwoQueues
  Holder = {deploy}
  Null = Null
  Every = Every
  QueueOf <- QueueEach
  KeyOf <- NoKeys
  Serves <- ServesAll
  Timed <- NoJobs
  MaxAttempts = 1
  Concurrency = 1
  MaxClaims = 2
  Crashing <- First
  Stalling <- NoInstances
  Stopping <- NoInstances
  Restarting <- NoInstances
  Refused <- NoInstances
  Verbs <- PauseVerbs
SPECIFICATION Spec
INVARIANT DrainedStaysQuiet
CHECK_DEADLOCK FALSE
