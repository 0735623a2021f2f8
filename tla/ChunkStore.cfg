CONSTANTS
  ChunkCount = 2
  Writers = {w1, w2}
  Readers = {r1, r2}
  Unlocked = Unlocked
SPECIFICATION Spec
INVARIANTS
  TypeOK
  BitMeansVerified
  ReaderSeesVerified
  NoLostWakeup
PROPERTY Implements
