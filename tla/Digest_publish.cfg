\* Two runs, the first possibly killed while it publishes; two sources have one title.
SPECIFICATION Spec
CONSTANTS
  Items <- FiveItems
  SourceOf <- FiveSources
  TitleOf <- SharedTitles
  TopicsOf <- FiveTopics
  Offered <- FiveOffered
  ForYou = 2
  BeyondRadar = 1
  PerSource = 1
  PerTopic = 2
  ReadCap = 3
  ShownDays = 0
  FatalAfter = 1
  MaxRuns = 2
  MaxCalls = 1
  MaxDay = 1
INVARIANTS
  FullIsPublishable
  NothingShownTwice
  PositionsAreRanks
CHECK_DEADLOCK FALSE
