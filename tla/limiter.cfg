CONSTANTS
    sms = sms
    ivr = ivr
    s1 = s1
    i1 = i1
    Dispatchers = {s1, i1}
    Channels = {sms, ivr}
    ChannelOf <- TheChannelOf
    Emission <- TheEmission
    Grain = 1
    KeyTTL = 3
    MaxWait = 3
    MaxClock = 4
    MaxRestarts = 1
    MaxFailures = 1
SPECIFICATION Spec
INVARIANTS NothingReserved CeilingHolds
