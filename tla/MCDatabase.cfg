CONSTANTS
    Threads = {t1, t2}
    Conns = {c1, c2, c3}
    Writes = {w1, w2}
    Plain = {t2}
    MaxRows = 1
    None = None
SPECIFICATION Spec
SYMMETRY Symm
INVARIANTS
    OwnConnection
    OutcomeMeans
    NothingLeftOpen
    RowsComplete
PROPERTY ImplementsTxStore
CHECK_DEADLOCK FALSE
