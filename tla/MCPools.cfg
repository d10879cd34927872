\* Two threads in every part. Three chunks of two blocks and as many headers: a header
\* is in use again as soon as it can be. Four exchanges of topChunk_ are what it takes
\* to bring a header back under a thread that has read it, six of top_ a node.
SPECIFICATION PoolsSpec
CONSTANTS
  Threads = {t1, t2}
  nobody = nobody
  Managers = {t1}
  Blocks = {1, 2, 3, 4, 5, 6}
  Headers = {1, 2, 3}
  null = 0
  chunkSize = 2
  chunkCount = 1
  MaxStamp = 4
  MaxInUse = 1
INVARIANT
  PoolsIntact
PROPERTY
  LifoAndFifo
\* the bounds stop every part but the sized pools
CHECK_DEADLOCK FALSE
