SPECIFICATION Spec
CONSTANTS
    d1 = d1
    p1 = p1
    p2 = p2
    q1 = q1
    NotWeb = NotWeb
    Domain = {d1}
    Public = {p1, p2}
    Private = {q1}
    Tools <- AllTools
    Configs <- AnyConfig
    MaxRedirects = 2
    MaxBody = 2
    BodyCap = 4
    Chunk = 2
INVARIANTS RedirectsAgree BodyWholeOrRefused
PROPERTIES OnlyValidatedContacted
CHECK_DEADLOCK FALSE
