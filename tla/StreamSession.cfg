SPECIFICATION Spec
CONSTANTS
  Clients = {c1, c2}
  Sources = {s1}
  N = 2
  None = None
SYMMETRY Perms
INVARIANTS
  TypeOK
  SingleWriter
  CountMatches
  PublishedWhileActive
  SetupHasOwner
  CleanWhenUnused
