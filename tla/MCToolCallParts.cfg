SPECIFICATION PartsSpec
CONSTANTS
    t1 = t1
    t2 = t2
    p1 = p1
    p2 = p2
    nobody = nobody
    Tools = {t1, t2}
    ArgNames = {"x", "y", "z"}
    Values <- MCValues
    RuleSets <- MCRuleSets
    NoRules = NoRules
    NoPattern = "none"
    Matching <- MCMatching
    PathConfigs <- MCPathConfigs
    NoBase = NoBase
    Links <- MCLinks
    IntMax = 12
    MaxDepth = 2
    MaxBytes = 62
    MaxResponse = 3
    TicksPerMs = 2
    Durations = {0, 1, 2}
    DefaultTimeout = 2
    MaxTimeouts = 1
    MaxTime = 7
    Recorders = {p1, p2}
    NoThread = nobody
    MonitoredTools = {t1, t2}
    CpuTimes = {2}
    MemoryUses = {1, 3}
    MaxRecords = 3
    Alphabet <- MCAlphabet
    MaxText <- MCMaxText
    Actions = {read, delete_any}
    AnyActions = {delete_any}
    Owners = {u1}
    EmptyId = EmptyId
    Groups = {g1}
    ResourceIds = {r1}
    Requests <- MCRequests
    NotFound = NotFound
    Nothing = Nothing
INVARIANTS ArgumentsAreChecked PathsAreConfined ResponsesAreExact ResponsesAreClean RemainingTimeIsKept VerdictsAgree NoRecordIsLost
    RbacTypeOK RefusalWasTrue GrantWasTrue RulesAgree HigherRoleMayMore
CHECK_DEADLOCK FALSE
