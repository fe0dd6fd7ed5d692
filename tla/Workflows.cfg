CONSTANTS
  a = a  b = b  c = c  d = d  e = e
  Top = Top
  Foreign = Foreign
  NoNode = NoNode
  Old <- MCOld
  Kids0 <- MCKids0
  Marked0 = {b}
  Jobs <- MCJobs
  MaxLines = 4
  MaxNodes = 3
  MaxForeign = 1
SPECIFICATION Spec
INVARIANTS InsertBuildsPayload CopyBuildsSource ReorderPlacesInOrder MirrorStatusIsTrue
