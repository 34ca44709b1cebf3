SPECIFICATION Spec
CONSTANTS
    u1 = u1
    noUser = noUser
    k1 = k1
    noKey = noKey
    unsigned = unsigned
    UserIds = {u1}
    NoUser = noUser
    Secrets = {k1}
    NoSecret = noKey
    TornSecret = torn
    NoSignature = unsigned
    Strings <- MCStrings
    ManagedTokens <- BareForm
    Empty <- EmptyString
    Configs <- TwoConfigs
    DefaultConfig <- MCDefault
    Clients = {}
    NotRegistered = NotRegistered
    MaxTime = 1
    MaxFailures = 0
    Ids <- MCIds
    Null = null
    NoId = none
    Lines <- CredentialLines
    ToolLists <- MCToolLists
    PolicyActions = {"tools/call"}
    NoPointer = nullptr
    MaxLines = 1
INVARIANTS DocumentedTokenIsDecoded
