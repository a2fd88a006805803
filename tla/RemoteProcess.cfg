SPECIFICATION RemoteSpec
CONSTANT MaxPrinted = 3
INVARIANT RemoteRunsToItsEnd
CHECK_DEADLOCK FALSE
