\* An agent and a review at the files of one skill; two managers, of which one
\* reviews up to two conversations and the other one.
SPECIFICATION MCSpec
CONSTANTS
    Foreground = {"agent1"}
    Background = {"m1", "m2"}
    Late = {"m2"}
    Interval = 1
    MaxTurns = 1
    MaxPositions = 2
INVARIANTS
    CacheMatchesDisk
    NothingUnseenIsLost
    RvTypeOK
    AcceptedIsAccountedFor
PROPERTIES
    BackgroundKeepsToAgentSkills
    UserSkillNeedsPermission
    ClosedForGood
\* every review may be over and both managers closed
CHECK_DEADLOCK FALSE
