SPECIFICATION FairSpec
CONSTANTS
  Clients = {c1}
  Sources = {s1}
  N = 2
  None = None
PROPERTY HeadersArrive
