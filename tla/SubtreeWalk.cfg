CONSTANTS
  root = root
  a = a
  b = b
  c = c
  d = d
  e = e
  f = f
  Root = root
  Nodes <- MCNodes
  Trees <- MCTrees
  Entries = {"node", "top"}
  Patience = {TRUE, FALSE}
  Aborts = {"cancelled", "timeout"}
  MaxDepth = 3
  Limits = {1, 4, 20}
  Width = 2
SPECIFICATION FairSpec
INVARIANTS CompleteIsWhole SkippedAccountsForAll DocumentOrder
PROPERTIES WalkEnds
