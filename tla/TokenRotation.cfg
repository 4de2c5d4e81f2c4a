SPECIFICATION FairRotationSpec
CONSTANTS
    Tokens = {t0, t1, t2}
    First = t0
    NoToken = NoToken
    Lifetime = 1
    MaxMishaps = 2
    MaxTime = 2
INVARIANTS
    NeverLockedOut
    RunUsesActiveToken
PROPERTIES
    RotationSettles
CHECK_DEADLOCK FALSE
