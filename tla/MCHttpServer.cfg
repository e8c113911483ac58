SPECIFICATION FairSpec
CONSTANTS
    c1 = c1
    c2 = c2
    Client = {c1, c2}
    StartArgs <- CommandLines
    RequestTimeout = 2
    Grace = 1
    Rate = 1
    Token = 2
    Second = 1
    Horizon = 2
    MaxWindow = 4
INVARIANTS TypeOK WindowBound FailClosed TokenOpens
PROPERTIES AuthBeforeTokens BackstopOnlyForSlowBodies BucketRecovers EveryRequestEnds
