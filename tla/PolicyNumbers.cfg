SPECIFICATION PolicySpec
CONSTANTS
    Views = {"v1", "v2"}
    Native = "native"
    Offered = {"v1"}
    Span = 3
    MaxRequests = 4
    MaxChanges = 1
    Asked = {"queryRandr", "select", "geometry"}
INVARIANT NumbersNeverFall
CHECK_DEADLOCK FALSE
