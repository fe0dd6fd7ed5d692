CONSTANTS
  a = a  b = b  x = x  y = y  z = z  u = u
  c1 = c1  c2 = c2  m1 = m1  g = g  w = w
  Topics = {"index", "reports", "ancestry", "audit", "health", "commands"}
  Ids <- MCIds
  Keys <- MCKeys
  Contents <- MCContents
  SuffixHashes <- MCHashes
  PrefixHashes <- MCHashes
  Short <- MCShort
  Prefix <- MCPrefix
  MaxCount = 3
  NoHash = NoHash
  NoKey = NoKey
  NoId = NoId
  NoTime = NoTime
  Items <- MCItems
  Texts <- MCTexts
  FirstDay = 1
  LastDay = 4
  Horizon = 1
  Back = 1
  Cap = 1
  Points <- MCPoints
  Tokens = {x}
  Base = Base
  Away = Away
  HopCap = 2
  Notes <- MCNotes
  Canonicals = {c1, c2}
  Twins = {c1, c2}
  Claims <- MCClaims
  Tags <- MCTags
  Lost = Lost
  Names = {g, w}
  Capacity = 3
  Window = 1
  LastTick = 3
  MaxWrites = 3
  Running = Running
SPECIFICATION AnswersSpec
INVARIANTS TypeOK MapsAgree HashesSound SuffixComplete ReportsAgree ExclusionFollowsChains PathsAgree FindingsAreFair WarningStands ExitZeroMeansDone RefusalsComeFirst
CHECK_DEADLOCK FALSE
