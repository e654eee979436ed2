CONSTANTS
  Documents <- MCDocuments
  MaxDepth = 2
  MaxNodes = 3
  MaxCloneDepth = 2
  MaxMembers = 3
  MaxOccurrences = 5
  MaxDecodes = 1
  MaxBodies = 5
  MaxNumber = 40
SPECIFICATION DocumentSpec
INVARIANTS
  PageTypeOK
  BoxIndexIsLeafOrdinal
  EveryKidAccountedFor
  PlainWalksAgree
  NearestResourcesDecide
  GraphicsStatesAreKnown
  FontNamesAreUnambiguous
  CloneTypeOK
  NothingLooksDifferent
  ClonesArePrivate
  StagedIsCommitted
  CountsMatchPlan
CHECK_DEADLOCK FALSE
