\* One device whose publishing may fail, three control windows.
SPECIFICATION Spec
CONSTANTS
    None = None
    d1 = d1
    d2 = d2
    c1 = c1
    c2 = c2
    c3 = c3
    k1 = k1
    k2 = k2
    s1 = s1
    s2 = s2
    s3 = s3
    Codes = {k1, k2, s1, s2, s3}
    Devices = {d1}
    Controllers = {c1, c2, c3}
    CodesOf <- OneDeviceCodes
    TargetCodes = {k1}
    Deleters = {}
    MaxJoinRetries = 3
    PushMayFail = TRUE
    MaxInputs = 0
SYMMETRY Windows
INVARIANT CreateMeetsIdle
CHECK_DEADLOCK FALSE
