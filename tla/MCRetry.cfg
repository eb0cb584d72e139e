SPECIFICATION Spec
CONSTANTS
  Requests = {"o", "a"}
  Format <- MixedFormat
  Modes = {"managed", "smart", "passthrough"}
  Handoff = {TRUE, FALSE}
  RetryAttempts = {0, 2}
  PoolSizes = {1, 2}
INVARIANTS TypeOK CommittedIsNotRetried AnsweredOnce ThrottleMeansRefusal
PROPERTIES HoldersJudgeTheirKey RotationUsesThePool
