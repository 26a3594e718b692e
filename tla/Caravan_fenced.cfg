\* Two instances that crash, or drain past their lease, while jobs time out,
\* are cancelled and are purged; nothing that lost a row can claim it again.
CONSTANTS
  i1 = i1  i2 = i2  j1 = j1  j2 = j2  j3 = j3  q1 = q1  q2 = q2  k1 = k1
  Instance <- Both
  Job <- Jobs
  Queue = {q1}
  Holder = {deploy}
  Null = Null
  Every = Every
  QueueOf <- OneQueue
  KeyOf <- NoKeys
  Serves <- ServesAll
  Timed <- OneJob
  MaxAttempts = 2
  Concurrency = 1
  MaxClaims = 2
  Crashing <- Both
  Stalling <- NoInstances
  Stopping <- Both
  Restarting <- NoInstances
  Refused <- NoInstances
  Verbs <- CancelAndPurge
SPECIFICATION Spec
INVARIANTS HeldOwnsRow NoDoubleRun RunningIsExecuted WithinConcurrency
PROPERTIES LandsOnOwnAttempt PastLimitByReclaim
CHECK_DEADLOCK FALSE
