\* Two blocks of two chunks and three handles, whose counters do not overflow.
CONSTANTS
  AllocNb = 2
  MaxBlocks = 2
  RefcountMax = 5
  Handle = {"p", "q", "r"}
SPECIFICATION Spec
INVARIANT ChunksAccounted
PROPERTY BlocksGrowWhenFull
