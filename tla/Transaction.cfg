CONSTANTS
  a = a  b = b  p = p
  Top = Top  NoNote = NoNote  Untouched = Untouched  Unread = Unread
  Nodes <- MCNodes
  Names <- MCNames
  Notes <- MCNotes
  Tree0 <- MCTree0
  Attempts = 2
  Programs <- MCPrograms
SPECIFICATION Spec
INVARIANT DamageIsContained
PROPERTIES ImplementsBatch Terminates
