SPECIFICATION FairSpec
CONSTANTS
  Configs <- MCConfigs
  DefaultID <- MCDefaultID
  Upper <- MCUpper
  Prefix <- MCPrefix
  URLs = {"a", "b", "page", "a2"}
  Final <- MCFinal
  Hash <- MCHash
  PlaylistURLs = {"a", "b"}
  SiteURLs = {"page"}
  Disallowed = {"page"}
  EnvOverrides <- MCOverrides
  DefaultMaxPages = 2
  MaxJobs = 2
  MaxScans = 1
  MaxRequests = 1
INVARIANTS PublishedIsFound DisabledStaysOut PlaylistFollows
PROPERTY ChangesAreServed
CHECK_DEADLOCK FALSE
