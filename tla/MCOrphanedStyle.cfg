SPECIFICATION CoachSpec
CONSTANTS
    Selectors = {1}
    Elements = {e1, e2}
    Amounts = {2}
    MaxSamples = 2
    WindowMs = 3
    RecentMs = 1
    PollMs = 2
    PreviewMs = 2
    GoodThreshold = 1
    PoorThreshold = 3
    TopN = 1
    MaxClock = 3
    MaxShifts = 1
    MaxMounts = 1
    MaxChanges = 1
INVARIANTS
    PageIsRestored
CHECK_DEADLOCK FALSE
