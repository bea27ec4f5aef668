SPECIFICATION BoundedSpec
CONSTANTS
  Clients = {c1, c2}
  Sources = {s1}
  N = 2
  None = None
  MaxAttempts = 2
  MaxChunks = 1
PROPERTIES
  WaitersReleased
  WriterWindsDown
CHECK_DEADLOCK FALSE
