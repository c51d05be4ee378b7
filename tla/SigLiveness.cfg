\* Two control windows after one device whose publishing works; both may also
\* send DELETESTREAM and stay open.
SPECIFICATION FairSpec
CONSTANTS
    None = None
    d1 = d1
    d2 = d2
    c1 = c1
    c2 = c2
    c3 = c3
    k1 = k1
    k2 = k2
    s1 = s1
    s2 = s2
    s3 = s3
    Codes = {k1, k2, s1, s2, s3}
    Devices = {d1}
    Controllers = {c1, c2}
    CodesOf <- OneDeviceCodes
    TargetCodes = {k1}
    Deleters = {c1, c2}
    MaxJoinRetries = 3
    PushMayFail = FALSE
    MaxInputs = 0
PROPERTIES
    GrantedSessionStarts
    FreeDeviceStops
    AbandonedDeviceIsObtainable
CHECK_DEADLOCK FALSE
