CONSTANTS
    r1 = r1
    r2 = r2
    r3 = r3
    k1 = k1
    Requests = {r1, r2, r3}
    Keys = {k1}
    KeyOf <- MCKeyOf
    Fingerprint <- MCFingerprint
SPECIFICATION FairIdemSpec
INVARIANTS
    RecordedIffDone
    AnswersFit
PROPERTY ClaimsEnd
