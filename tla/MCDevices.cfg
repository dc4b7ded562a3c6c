CONSTANTS
  MaxState = 2
  OnlineTTL = 0
  MaxResubscribe = 1
  MaxRemovals = 1
  MaxQueue = 2
  Commands = {c1}
  MaxRuns = 2
SPECIFICATION MCSpec
INVARIANTS Converges OutcomeIsHonest
PROPERTIES VanishedGoesOffline ExpiredNeverFires EventuallySettled
CHECK_DEADLOCK FALSE
