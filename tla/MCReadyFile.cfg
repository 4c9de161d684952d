CONSTANTS
    p1 = p1
    p2 = p2
    p3 = p3
    f1 = f1
    f2 = f2
    None = None
    Procs <- MCProcs
    Foreign <- MCForeign
SPECIFICATION ReadySpec
SYMMETRY Symmetry
INVARIANTS ReadyRecordStays OwnerRemovesRecord ForeignPreserved
CHECK_DEADLOCK FALSE
