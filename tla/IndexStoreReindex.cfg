CONSTANTS
  n1 = n1  n2 = n2  srv = srv  cli = cli  Free = Free
  Ids <- TwoNodes
  Excluded <- NoneExcluded
  Procs <- MCProcs
  Clis <- MCProcs
  Schema <- OldAndNew
  MaxVersion = 1
  MaxSaves = 2
SPECIFICATION Spec
PROPERTIES NoClobber NoDowngrade LockIsReleased
