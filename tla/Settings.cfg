CONSTANTS
    a = a
    b = b
    Client = {a, b}
    Nobody = Nobody
    Setting = {1, 2}
    Value = {0, 1}
    First = 0
    NoValue = NoValue
    Calls <- SettingsCalls
    MaxCalls <- SettingsMaxCalls
    Mortal = {b}
SPECIFICATION FairSpec
INVARIANTS
    TypeOK
    SubscribedIffWatching
PROPERTIES
    StaysCurrent
    RequestReturns
    EndedIsForgotten
CHECK_DEADLOCK FALSE
