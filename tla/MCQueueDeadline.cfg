SPECIFICATION Spec
CONSTANTS
  Requests = {r1, r2}
  Gates = {1}
  MaxQueueSize = 2
PROPERTIES NoSlotAfterTimeout
