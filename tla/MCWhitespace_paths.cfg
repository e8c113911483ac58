SPECIFICATION Spec
CONSTANTS
    Letters <- Byte
    MaxLength = 6
    Texts <- SomeTexts
    Paths <- AllPaths
    Builds <- AnyBuild
    Lanes = 3
INVARIANTS DoneAgrees FailsOnlyOnLoneLast CleanupTidy
CHECK_DEADLOCK FALSE
