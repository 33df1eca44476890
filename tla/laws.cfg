CONSTANTS
    CountryCode <- MCCountryCode
    SubscriberLength = 2
    ChunkSize = 2
    MaxLines = 4
    KnownZones = {1, 2, 3}
    BaseRows = {1, 2}
    WithVersion = {1}
    ListRows = {1}
    NoList = NoList
    Unit = 2
    Tolerance = 1
    MaxAllocations = 3
SPECIFICATION Spec
INVARIANTS SpellingsAgree NoLineLost PreviewAddsUp QuotasMeetTarget
CHECK_DEADLOCK FALSE
