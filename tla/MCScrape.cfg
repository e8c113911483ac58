SPECIFICATION Spec
CONSTANTS
    Kinds <- AllKinds
    Formats <- FormatLists
    MaxNodes = 4
    FewNodes = 2
INVARIANTS WalkersAgree ItemsIndented EachAsAlone DomParsed
CHECK_DEADLOCK FALSE
