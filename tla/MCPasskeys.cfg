SPECIFICATION FairSpec
CONSTANTS
  Creates = {1}
  Gets = {2, 3}
  Tab = {"left", "right"}
  TabOf <- MCTabOf
  MaxQueue = 1
  MaxCount = 2
  MaxEnds = 1
  Nobody = Nobody
  Missing = Missing
INVARIANTS
  OneResult
  PublishedStands
  ConsentOfThePage
PROPERTIES
  Settled
CHECK_DEADLOCK FALSE
