SPECIFICATION FairSpec
CONSTANTS
  Requests = {r1}
  Gates = {1, 2}
  MaxQueueSize = 2
PROPERTIES QueuedIsServed
