\* Two Curator runs, three proposals, decisions, and the mirrors of every run.
SPECIFICATION Spec
CONSTANTS
  TopicIds = {"listed", "curated"}
  SourceIds = {"feed", "found"}
  Urls = {1}
  Runs = {r1, r2}
  Weights = {1}
  MaxWeight = 2
  TopicsToml <- OneTopicListed
  FeedsToml <- OneFeedListed
  MaxProposals = 3
INVARIANTS
  TopicsFollowTheQueue
  SourcesFollowTheQueue
CHECK_DEADLOCK FALSE
SYMMETRY RunSymmetry
