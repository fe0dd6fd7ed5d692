CONSTANTS
  a = a  c = c  r1 = r1  w1 = w1  w2 = w2
  Root = Root  None = None
  Nodes <- MCNodes
  Parent0 <- Pair
  Unborn = {c}
  Readers = {r1}
  Writers = {w1, w2}
  Writes <- Everything
  MaxListings = 2
  MaxWrites = 2
SPECIFICATION Spec
INVARIANTS QuietListingIsCurrent MembersCover CacheBounded
