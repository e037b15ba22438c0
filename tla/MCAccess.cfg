CONSTANTS
    Members = {a1, a2, a3}
    Admins = {a1, a2, a3}
    Families = {1, 2}
    Tokens = {t1, t2}
    Challenges = {c1, c2}
    Handlers = {h1, h2}
    MaxLogins = 1
    Users = {"u1", "u2"}
    TenantBudget = 2
    UserBudget = 1
    Window = 3
    Wait = 1
    Lifetime = 4
    Horizon = 7
    Keys = {"k1", "k2"}
    ForgedKeys = {"x1"}
    Ttl = 3
    Spacing = 2
    Slow = 1
    KeyTime = 3
    Credentials = {"t1", "t2", "x1"}
    ForgedCredentials = {"x1"}
    Margin = 1
    Reserve = 1
    UrlTimes = {2}
    Lifetimes = {3, 4}
    MaxCache = 1
    WorkTime = 5
SPECIFICATION EachSpec
SYMMETRY Symmetry
INVARIANTS
    LoginsAreSingle
    BudgetsHold
PROPERTIES
    CredentialsLapse
CHECK_DEADLOCK FALSE
