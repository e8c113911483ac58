SPECIFICATION Spec
CONSTANTS
    Url <- SomeUrls
    Sitemaps <- Documents
    Links <- Pages
    Limits <- SomeLimits
    MaxMapUrls = 3
    Concurrency = 2
INVARIANTS OrderKept InScope FewLookups ParsersAgree
CHECK_DEADLOCK FALSE
