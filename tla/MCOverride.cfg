SPECIFICATION LimitsSpec
CONSTANTS
  Askers = {a1}
  Reports <- MCReports
  Overrides = {1, 4}
  ManualLimits = {0}
  MaxChanges = 2
INVARIANT OverrideIsApplied
CHECK_DEADLOCK FALSE
