\* The same run with no fault, and one worker: a cancel that read the run while
\* it was running, and a resume.
CONSTANTS
  r1 = r1  k1 = k1  w1 = w1  w2 = w2
  Run <- OneRun
  Null = Null
  Key <- OneKey
  Worker <- OneWorker
  Last = 2
  Waits <- First
  MaxFaults = 0
SPECIFICATION FairSpec
PROPERTY EndedStaysEnded
CHECK_DEADLOCK FALSE
