SPECIFICATION Spec
CONSTANTS
  Titles = {"a", "A", "b", "c"}
  Key <- MCKey
  MergeKey <- MCKey
  Sources = {1, 2, 10}
  StringRank <- MCRank
  Prefixed <- MCPrefixed
  Inputs <- MCInputs
  Stale <- MCStale
  ChannelMerges <- MCMerges
  ChannelRules <- MCRules
  IncludeGroups = {}
  IncludeTitles = {}
  ExcludeGroups = {{9}}
  ExcludeTitles = {}
  Known = {1, 10}
  Configurations = {{1, 2, 10}, {2, 10}, {1}}
  BufferLimit = 2
  MaxFailures = 1
INVARIANTS
  MergedOnce
  FirstStreamLeads
  EpgSourcesKept
  UrlsRestored
CHECK_DEADLOCK FALSE
