SPECIFICATION Spec
CONSTANTS
    NumRanks = 4
    NumStages = 2
    Groups <- MCGroups
    Members <- MCMembers
    Program <- MCProgram
    Schedules <- MCSchedules
INVARIANTS TypeOK RightTopology RoundsAgree StageStateCoherent NoDoubleIssue
PROPERTY AllFinish
CHECK_DEADLOCK FALSE
