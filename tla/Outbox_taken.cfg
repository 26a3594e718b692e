\* The queue refuses one row to two passes that read it at the same time.
CONSTANTS
  r1 = r1  timer = timer  kick = kick
  Row <- OneRow
  Pass <- Both
  Null = Null
  Timer <- OnlyTimer
  Held <- NoRows
  MaxAttempts = 2
  Refusing = TRUE
  MaxPasses = 6
  MaxCrashes = 0
SPECIFICATION Spec
INVARIANT TakenIsCounted
CHECK_DEADLOCK FALSE
