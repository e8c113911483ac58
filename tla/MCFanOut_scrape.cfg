SPECIFICATION Spec
CONSTANTS
    Urls = 2
    Limits <- OneLimit
    Wants <- SomeWants
    Pages <- TwoResults
    StartArgs <- DefaultSettings
    Concurrency = 2
    Tools <- OnlyScrape
INVARIANTS LabelsMatch
CHECK_DEADLOCK FALSE
