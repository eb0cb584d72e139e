SPECIFICATION Spec
CONSTANTS
  Requests = {"a"}
  Format <- MixedFormat
  Modes = {"managed"}
  Handoff = {TRUE}
  RetryAttempts = {2}
  PoolSizes = {2}
INVARIANT KeepaliveIsFollowed
