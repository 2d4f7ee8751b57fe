SPECIFICATION FairSpec
CONSTANTS
  MaxTries = 3
  Enough = 3
  Slugs <- MCSlugs
  Fields <- MCFields
  Values <- MCValues
  Absent = "absent"
  Skus <- MCSkus
  NoSku = "none"
  NoContent = NoContent
  Givens <- MCGivens
  MaxMoves = 1
  Ids = {x, y}
  MaxItems = 3
  Floor <- MCFloor
INVARIANTS
  ListedIsEmitted
  NeverGuessed
  OneVerdict
  OutageIsNotAChange
  OutagesAbsorbed
  NothingSlipsThrough
  FirstClaimDecides
  WholeEnough
PROPERTY CrawlEnds
CHECK_DEADLOCK FALSE
