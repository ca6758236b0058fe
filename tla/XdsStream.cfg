CONSTANTS
  Streams = {st1, st2}
  a = a
  Names = {a}
  Writers = {w1, w2}
  HintSets <- SomeHints
  MaxUpdates = 2
SPECIFICATION FairSpec
INVARIANTS
  NothingMissed
  VersionsAreHonest
PROPERTIES
  EveryStreamCatchesUp
CHECK_DEADLOCK FALSE
