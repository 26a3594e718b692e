\* A timer and a kick over a fresh row and a restored one: refusals, a crash,
\* and claims that go stale in a slow pass's hands.
CONSTANTS
  r1 = r1  timer = timer  kick = kick
  Row <- OneRow
  Pass <- Both
  Null = Null
  Timer <- OnlyTimer
  Held <- OneRow
  MaxAttempts = 2
  Refusing = TRUE
  MaxPasses = 6
  MaxCrashes = 1
SPECIFICATION FairSpec
INVARIANTS TypeOK OneRelayPerRow OneJobPerRow DeliveredWasHandedOver HeldWaits
PROPERTIES NoneForgotten ImplementsHandover
CHECK_DEADLOCK FALSE
