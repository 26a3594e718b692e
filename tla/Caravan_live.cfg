\* Handlers that may hang: those of j1 and j2, which share the one slot of q1, until
\* their timeout, and j3's on q2 for ever.  i1 crashes or drains at any moment, i2
\* stays up.  No job's claims reach their bound.
CONSTANTS
  i1 = i1  i2 = i2  j1 = j1  j2 = j2  j3 = j3  q1 = q1  q2 = q2  k1 = k1
  Instance <- Both
  Job <- ThreeJobs
  Queue <- TwoQueues
  Holder = {deploy}
  Null = Null
  Every = Every
  QueueOf <- PairApart
  KeyOf <- NoKeys
  Serves <- ServesApart
  Timed <- Jobs
  MaxAttempts = 1
  Concurrency = 1
  MaxClaims = 4
  Crashing <- First
  Stalling <- NoInstances
  Stopping <- First
  Restarting <- NoInstances
  Refused <- NoInstances
  Verbs <- CancelOnly
SPECIFICATION FairSpec
PROPERTIES Settles LostIsTold
CHECK_DEADLOCK FALSE
