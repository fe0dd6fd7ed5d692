CONSTANTS
  n1 = n1  n2 = n2  srv = srv  cli = cli  Free = Free
  Ids <- OneNode
  Excluded <- NoneExcluded
  Procs <- MCProcs
  Clis <- MCClis
  Schema <- SameSchema
  MaxVersion = 2
  MaxSaves = 2
SPECIFICATION Spec
INVARIANTS StampMeansMerged DeletesStick
PROPERTY PublishesOwnSnapshot
