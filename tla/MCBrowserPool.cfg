SPECIFICATION FairSpec
CONSTANTS
    r1 = r1
    r2 = r2
    r3 = r3
    Request = {r1, r2, r3}
    Nobody = Nobody
    MaxPages = 2
    OrphanCap = 2
    Faults <- AllFaults
INVARIANTS TypeOK PermitConservation MutexOnlyInside PoolTellsTruth
PROPERTIES NoSecondChrome EveryCallEnds  SlotsSpec
