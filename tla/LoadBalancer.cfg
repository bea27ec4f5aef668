SPECIFICATION FairSpec
CONSTANTS
  Sources = {1, 2, 3}
  Max <- MaxUneven
  Streams = {c1, o1, o2}
  Calls = {c1}
  NoSource = NoSource
  Subs = {1, 2}
  UrlMaps <- Maps
  Configurations = {{1, 2}, {1}, {}}
  Discovered = {3}
  MaxRetries = {0, 2}
INVARIANTS TypeOK SlotsAccounted NoStaleVerdict
PROPERTIES SelectionSpec BalanceReturns
