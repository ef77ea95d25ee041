\* Two backends, one of which is asked to freeze, faults of one tick or two, three
\* changes of configuration beside what quitting restores, one request of the stack
\* that fails.  Two drivers with two requests each, on at most two connections; four
\* answers over two bands.
CONSTANTS
    Services = {e1, e2}
    Freezing = {e2}
    Algorithms = {"round_robin"}
    Lasting = {1, 2}
    MaxEdits = 3
    MaxMishaps = 1
    Drivers = {d1, d2}
    MaxSends = 2
    CountedBefore = 1
    Unread = Unread
    Bands <- TwoBands
    MaxSorted = 4
SPECIFICATION SafetyTools
INVARIANTS
    QuitRestores
    ConfirmedIsApplied
    NothingLeftBehind
    ReportCountsTheRun
    FiguresHold
CHECK_DEADLOCK FALSE
