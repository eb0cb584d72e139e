SPECIFICATION TrackerSpec
INVARIANT StreamRunsToItsEnd
