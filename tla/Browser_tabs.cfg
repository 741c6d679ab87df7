SPECIFICATION Spec
CONSTANTS
    Tabs = {tab1, tab2}
    Calls = {f1, f2, f3}
    NULL = NULL
INVARIANTS
    TypeOK
    ReuseNeedsCause
PROPERTIES
    CallsSettle
CHECK_DEADLOCK FALSE
