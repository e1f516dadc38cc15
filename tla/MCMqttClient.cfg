CONSTANTS
  Backoff = 5
  Drains = 1
  Topics <- MCTopics
  NoTopic = "none"
  Configs <- MCConfigs
SPECIFICATION FairSpec
INVARIANT OpenLinkHears
PROPERTIES LinkResumes SplitWaitsForBoth
