SPECIFICATION HubSpec
CONSTANTS
    MaxCalls = 3
    Users = {u1}
    Tools = {t1, t2}
    Guarded = {t1}
    Clients = {k1}
    MaxTries = 2
    None = None
    Channels = {c1, c2}
    MaxSecrets = 2
    p1 = p1
    p2 = p2
    m1 = m1
    m2 = m2
    m3 = m3
    Providers = {p1, p2}
    Priority <- InOrder
    Fallbacks <- Names
    Models = {m1, m2, m3}
    ProviderOf <- Owner
    UseOf <- AllChat
    Builtin <- Preset
    Serves <- Served
    Lists = {p2}
    Keys = {right, wrong}
    RightKey <- RightKeys
    ToolProvider = p1
    ToolModel = Nobody
    Admins = {a1, a2}
    Nobody = Nobody
    MaxMoves = 3
    Tables = {partner}
    Common = {partner}
    OPERATIONS = {"read", "create", "update", "delete", "unlink"}
    Runs = {r1, r2}
    Rights <- AllRights
SYMMETRY Alike
INVARIANTS HubTypeOK ConnectedMeansChecked AnyProviderWillDo ConnectedIsHeard EditsSurvive
PROPERTIES OneRunPerGrant TwinsOverlapped TwoDefaultsOverlapped ObeysTheRules
CHECK_DEADLOCK FALSE
