SPECIFICATION Spec
CONSTANTS
    Threads = {t1, t2}
    Ops = {o1, o2}
    MaxAttempts = 2
    Absent = Absent
    Gone = Gone
    Faults = {"crash", "lost"}
SYMMETRY MCSymmetry
INVARIANT NothingForgotten
INVARIANT DuplicatesExplained
CHECK_DEADLOCK FALSE
