SPECIFICATION Spec
CONSTANTS
    Calls <- AllCalls
    Roots <- AllRoots
    CallSpec <- AllTrees
    Source <- AllSources
    Args <- AllArgs
    Keys <- AllKeys
    RefToName <- AllRefs
    NameToRef <- AllPaths
    Names <- AllNames
    Cache <- Ops
    Interpretation <- InCall
    OpScope <- InOp
    Leaves <- FromContainer
    OpOutputs <- FromOp
    ScopeOfIteration <- InIteration
    Loop <- OfLoop
    Stored <- OnceStored
    Restored <- TakenBack
    None = "none of them"
INVARIANTS OpsAreScoped CallsMeanWhatTheySay DiesOnlyIfExposed ParamsAreOfTheirTypes CachedFilesAreUntouched
CHECK_DEADLOCK FALSE
