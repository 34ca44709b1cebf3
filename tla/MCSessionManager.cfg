SPECIFICATION Spec
CONSTANTS
    Users = {u1, u2}
    Agents = {a1}
    NoUser = nouser
    NoAgent = noagent
    SessionIds = {s1, s2, s3}
    ZeroId = s0
    RandomnessMayFail = FALSE
    Configs <- MCConfigs
    DefaultConfig <- MCDefault
    NoSession = NoSession
    NoLogin = NoLogin
    MaxTime = 3
INVARIANTS TypeOK LoginRotates
PROPERTIES DeadStaysDead BoundForLife
SYMMETRY MCSymmetry
