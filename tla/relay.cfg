SPECIFICATION FairRelaySpec
CONSTANTS MaxRuns = 2  MaxCalls = 3  MaxFaults = 2
INVARIANT AnswersAreOwn
PROPERTY ChannelSpec CallsReturn ExitSeen
CHECK_DEADLOCK FALSE
