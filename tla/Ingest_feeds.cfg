\* Two feeds of one story, two calls of the tool, a budget, pages and feeds that
\* fail, errors, another process and a second run.
SPECIFICATION FairSpec
CONSTANTS
  Feeds = {"a", "b"}
  Enabled = {"a", "b"}
  Entries <- MCEntries
  UrlOf <- MCUrlOf
  TitleOf <- MCTitleOf
  Near <- MCNear
  Content <- MCContent
  Concurrency = 2
  Window = 1
  Calls = 2
  Faults = {"fetch", "page"}
  Elsewhere = {"story"}
  MaxErrs = 1
  MaxDay = 1
INVARIANTS
  ArticlesAreStoredOnce
  ValidatorsFollowItems
  ReportIsTrue
PROPERTIES
  CallersAreAnswered
CHECK_DEADLOCK FALSE
