SPECIFICATION FairSpec
CONSTANTS
  Me = me
  Peer = {p1}
  role = r1
  Policy <- MCPolicy
  Permissive <- MCPermissive
  MaxMs = 2
  MaxSets = 2
  MaxNews = 1
  MaxEnds = 1
INVARIANTS
  TypeOK
  KeptUnlessCut
PROPERTIES
  StateHonest
  Converges
CHECK_DEADLOCK FALSE
