\* Two backends, three valid files.
CONSTANTS
    b1 = b1
    b2 = b2
    Addrs = {b1, b2}
    Flaky = {}
    Files <- RestartFiles
SPECIFICATION Spec
INVARIANT WarnedOfWhatRuns
CHECK_DEADLOCK FALSE
