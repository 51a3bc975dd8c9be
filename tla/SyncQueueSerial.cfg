\* One flush at a time, batches smaller than the queue.
SPECIFICATION FairSpec
CONSTANTS
  Items = {1, 2, 3}
  Flushes = {f1}
  BatchSize = 2
  Fallback = FALSE
  MaxOutages = 1
PROPERTIES
  EveryFlushSettles
  ListedIsSettled
