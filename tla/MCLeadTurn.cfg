\* A lead whose answers hold up to two tool calls, and another one that shares
\* a memory of the project and one of the user.
SPECIFICATION LeadSpec
CONSTANTS
    lead = lead  other = other  s1 = s1  s2 = s2  s3 = s3  i1 = i1  i2 = i2
    Agents = {lead, other}
    Lead = lead
    Slots = {s1, s2, s3}
    Owner <- OwnerOfSlot
    Ids = {i1, i2}
    ProjectIds = {i1}
    Kinds = {"procedural"}
    Texts = {"text"}
    None = None
    MaxItems = 1
    MaxCalls = 2
    MaxHistory = 6
    MaxMessages = 4
    RecentResults = 1
    KeptByAuto = 3
    KeptByReactive = 3
    MaxRetries = 3
    Threshold = 2
SYMMETRY Symmetry
INVARIANTS
    LeadTypeOK
    DeletedStaysDeleted
    ExplicitChangeComesLast
    CallsMeetTheirResults
    RetryCutsOneAnswer
    FallbackAfterStreak
\* a conversation may be as long as the bound allows
CHECK_DEADLOCK FALSE
