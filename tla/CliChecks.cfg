SPECIFICATION MCCommandsSpec
CONSTANTS
 Versions={"v1","v2","v3"}
 Cbns={"b1","b2"}
 ValidateTimeout=300
 FirstPoll=2
 LongestPoll=30
 MaxAttempts=6
 FirstRetry=3
 LongestRetry=15
 MaxParserCommands=2
 MaxParserChanges=1
 NoVersion=NoVersion
 NoParser=NoParser
 Budget=6
 Hedge=2
 Events={"e1","e2","e3"}
 Unnamed={"e3"}
 Times={0,2,4,7,8,9}
 Starts={0,1}
 Ends={3,10}
 Limits={1,4}
 Span=4
 Second=2
 Places={"p1","p2"}
 Concurrency=2
 Tries=2
 Boards=2
 Charts={"c1","c2","c3"}
 Titles={"a","b"}
 MaxSpecs=2
 MaxBatchRuns=2
 MaxUiMoves=1
 Unborn=Unborn
 Gone=Gone
 Programs<-CommandPrograms
INVARIANTS EffectsAccounted OutcomeTrue TwiceOnlyInDoubt
INVARIANTS ParserSettles VerdictTruth NeverSilentlyShort VerdictsSound BatchConverges
PROPERTY WaitsEnd
CHECK_DEADLOCK FALSE
