\* One run of three stages, the second of which waits: queued or inline, with
\* two workers and one fault.
CONSTANTS
  r1 = r1  k1 = k1   w1 = w1  w2 = w2
  Run <- OneRun
  Null = Null
  Key <- OneKey
  Worker <- Workers
  Last = 3
  Waits <- Second
  MaxFaults = 1
SPECIFICATION FairSpec
INVARIANTS TypeOK OneWinnerPerWait KeyWhileWaiting NeverTwice
PROPERTIES EndedIsFinal LostStartIsFound ImplementsRunLife
CHECK_DEADLOCK FALSE
