CONSTANTS
    Call = {c1, c2}
    Name = {n1}
    Local = {}
    MaxRepeats = 1
    MaxQueries = 1
    None = None
SPECIFICATION Spec
INVARIANT EachCallerHears
CHECK_DEADLOCK FALSE
