SPECIFICATION Spec
CONSTANTS
    r1 = r1
    r2 = r2
    Request = {r1, r2}
    Nobody = Nobody
    MaxPages = 1
    OrphanCap = 1
    Faults <- OnlyCancel
INVARIANTS TabsBounded
