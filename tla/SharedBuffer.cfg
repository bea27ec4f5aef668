SPECIFICATION Spec
CONSTANTS
  N = 3
  MaxSeq = 5
  Readers = {r1, r2}
SYMMETRY Perms
INVARIANTS
  TypeOK
  NoReplay
  NothingSkipped
PROPERTIES
  LogSpec
