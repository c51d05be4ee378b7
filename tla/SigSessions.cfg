\* A device and its successor under the same code, two windows whose session
\* codes may collide.
SPECIFICATION Spec
CONSTANTS
    None = None
    d1 = d1
    d2 = d2
    c1 = c1
    c2 = c2
    c3 = c3
    k1 = k1
    k2 = k2
    s1 = s1
    s2 = s2
    s3 = s3
    Codes = {k1, k2, s1, s2, s3}
    Devices = {d1, d2}
    Controllers = {c1, c2}
    CodesOf <- SharedCodes
    TargetCodes = {k1}
    Deleters = {}
    MaxJoinRetries = 1
    PushMayFail = TRUE
    MaxInputs = 1
SYMMETRY FreeRenamings
INVARIANTS
    TypeOK
    RegistryConsistent
    SingleController
    ControlIsMutual
    InputsBelong
PROPERTIES
    ImplementsControlRight
CHECK_DEADLOCK FALSE
