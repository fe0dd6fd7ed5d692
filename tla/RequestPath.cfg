CONSTANTS
  reader = reader
  mover = mover
  Unbounded = Unbounded
  Bare = Bare
  NoBudget = Unbounded
  NoHint = Bare
  Tasks <- MCTasks
  Guarded <- MCGuarded
  Budget <- MCBudget
  Hints <- MCHints
  MaxAttempts = 2
  BaseDelay = 1
  MaxDelay = 2
  One = 2
  Capacity = 4
  FullRate = 2
  MinRate = 1
  RateStep = 1
  HttpTimeout = 2
  Horizon = 2
  MaxCancels = 1
SPECIFICATION FairSpec
INVARIANTS PathTypeOK TokensAreEarned
PROPERTIES RetryAfterIsHonoured EveryCallReturns
