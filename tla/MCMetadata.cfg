SPECIFICATION Spec
CONSTANTS
    MaxIno = 4
    Step = 2
    n1 = n1
    n2 = n2
    c1 = c1
    c2 = c2
    Names = {n1, n2}
    Calls = {c1, c2}
    Bounds <- Both
    None = None
    Idle = Idle
SYMMETRY Symmetry
INVARIANTS
    LinkCountExact
    NamespaceIsTree
    DeletionExact
    OpenFileKept
