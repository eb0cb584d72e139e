SPECIFICATION Spec
CONSTANTS
  Requests = {"a"}
  Format <- MixedFormat
  Modes = {"managed"}
  Handoff = {FALSE}
  RetryAttempts = {2}
  PoolSizes = {2}
INVARIANT NoErrorAfterSuccess
