SPECIFICATION FairSpec
CONSTANTS
  Sources = {1, 2}
  Max <- MCMax
  Streams <- MCStreams
  NoSource = 0
  Clients = {c1}
  Others = {o1}
  MaxAttempts = 2
  MaxDepth = 2
  MaxChunks = 2
INVARIANTS
  SlotsAccounted
  OneSpeaker
  ChunkNotOverwritten
  ResponsesClosed
PROPERTY
  SlotReturned
CHECK_DEADLOCK FALSE
