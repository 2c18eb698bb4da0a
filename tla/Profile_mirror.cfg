\* The topics that topics.toml lists, across the runs of a service.
SPECIFICATION Spec
CONSTANTS
  TopicIds = {"listed", "curated"}
  SourceIds = {"feed"}
  Urls = {1}
  Runs = {r1, r2}
  Weights = {1}
  MaxWeight = 2
  TopicsToml <- OneTopicListed
  FeedsToml <- OneFeedListed
  MaxProposals = 1
PROPERTY ListedTopicsStay
CHECK_DEADLOCK FALSE
