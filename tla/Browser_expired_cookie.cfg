SPECIFICATION Spec
CONSTANTS
    Tabs = {tab1}
    Calls = {f1, f2}
    NULL = NULL
INVARIANTS
    ExpiredRefreshes
CHECK_DEADLOCK FALSE
