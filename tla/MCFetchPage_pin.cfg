SPECIFICATION Spec
CONSTANTS
    d1 = d1
    p1 = p1
    p2 = p2
    q1 = q1
    NotWeb = NotWeb
    Domain = {d1}
    Public = {p1, p2}
    Private = {q1}
    Tools <- OnlyGet
    Configs <- Defaults
    MaxRedirects = 1
    MaxBody = 2
    BodyCap = 1
    Chunk = 2
INVARIANTS PinReachesHost
CHECK_DEADLOCK FALSE
