SPECIFICATION Spec
CONSTANTS
    Depends <- MCDepends
    Setscene <- MCSetscene
    HardDeps <- MCHardDeps
    Targets <- MCTargets
    Recipe <- MCRecipe
    TaskName <- MCTaskName
    StampFile <- MCStampFile
    Noexec <- MCNoexec
    HashIndex <- MCHashIndex
    MaxThreads <- MCMaxThreads
    NumberThreads = 2
    MayBeStamped <- MCMayBeStamped
    MaxAge = 2
    MayBeUnneeded <- MCMayBeUnneeded
INVARIANTS TypeOK InputsPresent SceneApart Throttled OutcomeRight KeepGoing
PROPERTY BuildEnds
CHECK_DEADLOCK FALSE
