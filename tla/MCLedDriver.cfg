SPECIFICATION FairSpec
CONSTANTS
  Setters = {s1, s2}
  Requested = {"green_steady", "red_blinking", "red_double_blink"}
  QueueLength = 4
  MaxSets = 3
INVARIANTS
  TypeOK
  ShowsWhatWasSet
  BlinkingTimerRuns
PROPERTIES
  Blinks
CHECK_DEADLOCK FALSE
