SPECIFICATION Spec
CONSTANTS
    u1 = u1
    noUser = noUser
    k1 = k1
    noKey = noKey
    unsigned = unsigned
    UserIds = {u1}
    NoUser = noUser
    Secrets = {k1}
    NoSecret = noKey
    TornSecret = torn
    NoSignature = unsigned
    Strings <- MCStrings
    ManagedTokens <- BareForm
    Empty <- EmptyString
    Configs <- OneConfig
    DefaultConfig <- MCDefault
    Clients = {}
    NotRegistered = NotRegistered
    MaxTime = 0
    MaxFailures = 0
    Ids <- MCIds
    Null = null
    NoId = none
    Lines <- AllLines
    ToolLists <- MCToolLists
    PolicyActions = {}
    NoPointer = nullptr
    MaxLines = 2
INVARIANTS TypeOK
PROPERTIES RpcPromise LineHandled
