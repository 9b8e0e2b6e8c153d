SPECIFICATION ServicesSpec
CONSTANTS
    Requested = 4
    Items = {a, b, c}
    Zero = Zero
    Clients = {c1, c2}
    Burst = 2
    Chats = {t1, t2}
    Backends <- mcBackends
    Cooldown = 2
    MaxRetries = 1
    MaxFlips = 2
    Plugins = {1, 2, 3}
    MaxLate = 1
    Values = {"X", "x", " x", "y", "net1", "net2", "a", "b", ""}
    Lower <- mcLower
    Trim <- mcTrim
    Blank = ""
    Bits <- mcBits
    Members <- mcMembers
    Addresses = {"a", "b"}
    Marks = {"m1", "m2"}
    MaxEntries = 2
    Runs = {r1, r2}
    Plans <- mcPlans
    Blocked = {ip1, lo}
    Loopback = lo
    Files = {ax, bx}
    BaseOf <- mcBaseOf
    NamesUnder <- mcNamesUnder
    Active = 1
    MaxFaults = 1
    ip1 = ip1
    lo = lo
    ax = ax
    bx = bx
INVARIANTS
    LastIsSuffix
    CleanupIsInvisible
    AnswersAreFirst
    LateReturnsAreDropped
    IndicatorsAreFound
    FilesSurvive
    RollbackRestores
    EffectsAreAudited
PROPERTIES
    ImplementsLog
    PrimaryComesBack
CHECK_DEADLOCK FALSE
