CONSTANTS
  ChunkCount = 2
  Writers = {w1, w2}
  Readers = {r1}
  Unlocked = Unlocked
SPECIFICATION Safe
INVARIANT IsCompleteExact
