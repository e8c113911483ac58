SPECIFICATION Spec
CONSTANTS
    Letters <- Byte
    MaxLength = 4
    Texts <- SomeTexts
    Paths <- AllPaths
    Builds <- AnyBuild
    Lanes = 3
INVARIANTS PathsAgree
CHECK_DEADLOCK FALSE
