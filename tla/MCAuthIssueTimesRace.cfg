SPECIFICATION Spec
CONSTANTS
    u1 = u1
    noUser = noUser
    k1 = k1
    k2 = k2
    noKey = noKey
    unsigned = unsigned
    UserIds = {u1}
    NoUser = noUser
    Secrets = {k1}
    NoSecret = noKey
    TornSecret = torn
    NoSignature = unsigned
    Strings <- MCStrings
    ManagedTokens <- MCManaged
    Empty <- EmptyString
    Configs <- MCConfigs
    DefaultConfig <- MCDefault
    Clients = {}
    NotRegistered = NotRegistered
    MaxTime = 1
    MaxFailures = 0

INVARIANTS IssueTimesReadUnderMutex
