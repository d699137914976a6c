\* Two calls of two sources each on one permit, a retry each.
SPECIFICATION Spec
CONSTANTS
    Slots = {c1, c2}
    Sources = {twse, tpex}
    Announcers = {twse, tpex}
    Tasks <- MCTasks
    MaxConcurrency = 1
    MaxAttempts = 2
INVARIANTS TypeOK AnswerIsWhole AnnouncementsRaiseWhenBothFail OnlyFailuresLeaveOrphans
PROPERTY ToolsEnd
