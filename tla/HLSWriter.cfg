SPECIFICATION FairSpec
CONSTANTS
  Masters <- MCMasters
  Media = "media"
  Variants <- MCVariants
  Window = 3
  Timeout = 2
  MaxSegment = 6
  MaxFailures = 1
INVARIANTS
  NoSegmentSkipped
  NoSegmentRepeated
PROPERTIES
  EndIsVisible
  StalledIsGivenUp
