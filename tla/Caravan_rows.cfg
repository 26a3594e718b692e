\* Every verb and every failure at once, over two jobs that share a unique key.
CONSTANTS
  i1 = i1  i2 = i2  j1 = j1  j2 = j2  j3 = j3  q1 = q1  q2 = q2  k1 = k1
  Instance <- Both
  Job <- Jobs
  Queue = {q1}
  Holder = {deploy}
  Null = Null
  Every = Every
  QueueOf <- OneQueue
  KeyOf <- SharedKey
  Serves <- ServesFirst
  Timed <- OneJob
  MaxAttempts = 2
  Concurrency = 1
  MaxClaims = 3
  Crashing <- First
  Stalling <- First
  Stopping <- First
  Restarting <- First
  Refused <- First
  Verbs <- RowVerbs
SPECIFICATION Spec
INVARIANTS TypeOK UniqueLive
PROPERTIES TerminalIsFinal ImplementsJobLife
CHECK_DEADLOCK FALSE
