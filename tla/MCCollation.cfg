CONSTANTS
    A = A
    B = B
    Accounts = {A, B}
    Endowed = {A, B}
    Endowment = 20000
    Authorities <- MCAuthorities
    Extrinsics <- MCExtrinsics
    None = None
    HooksWeight = 4
    QueueLoads = {16000}
    MaxRetractions = 1
SPECIFICATION CollationSpec
INVARIANTS CollationTypeOK AppliedOnce MoneyIsAccountedFor BlockNotOverfull SegmentInBounds ReportedIsNotLost
PROPERTIES ReadySettles
