CONSTANTS
  Calls = {t1, t2}
  NoCall = NoCall
  Keys = {"k"}
  MaxEntries = 1
  MaxCancels = 1
  Programs <- AllTools
SPECIFICATION FairSpec
INVARIANTS OnlyLateDropsStrand GuardsMatchWork KeyedRetryWritesNothing
PROPERTIES EveryToolReturns
CHECK_DEADLOCK FALSE
