SPECIFICATION Spec
CONSTANTS
  Requests = {"o"}
  Format <- MixedFormat
  Modes = {"passthrough"}
  Handoff = {FALSE}
  RetryAttempts = {2}
  PoolSizes = {2}
PROPERTY ClientKeyLeavesPoolAlone
