SPECIFICATION Spec
CONSTANTS
    t1 = t1  t2 = t2
    c1 = c1  c2 = c2
    Tenants = {t1, t2}
    Keys = {"k1", "k2"}
    Calls = {c1, c2}
    Absent = Absent
    Earlier = Earlier
    Regimes <- MCRegimes
SYMMETRY MCSymmetry
INVARIANTS
    NoForeignRow
PROPERTIES
    RowKeepsItsTenant
CHECK_DEADLOCK FALSE
