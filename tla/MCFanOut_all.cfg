SPECIFICATION FairSpec
CONSTANTS
    Urls = 4
    Limits <- SomeLimits
    Wants <- SomeWants
    Pages <- SomePages
    StartArgs <- Settings
    Concurrency = 2
    Tools <- AllTools
INVARIANTS NetworkBounded BodiesBounded OneSectionEach NoLateConfigError
PROPERTIES CallEnds
CHECK_DEADLOCK FALSE
