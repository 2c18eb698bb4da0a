\* Two tabs that rate, clicks and digests over three days; lists and evidence
\* are read at any time.
SPECIFICATION SignalsSpec
CONSTANTS
  Items = {1, 2, 3}
  Topics = {rust}
  Touched = {1, 2}
  Tabs = {t1, t2}
  Nil = nil
  Fetched <- Ages
  Published <- Ages
  SourceWeight <- Sources
  TopicWeight <- OneTopic
  Similarity <- Cosines
  ReadWeight <- Weights
  ExcludeTop = 1
  Limit = 2
  CandidateDays = 1
  ShownDays = 1
  WindowDays = 1
  MaxTime = 1
  MaxDigests = 1
  MaxReads = 1
  MaxPosts = 3
SYMMETRY AnyTab
INVARIANTS
  EvidenceNamesItsItem
  RatingsAreOfWhatWasShown
PROPERTIES
  DislikesScoreNothing
CHECK_DEADLOCK FALSE
