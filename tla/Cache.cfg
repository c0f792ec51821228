SPECIFICATION Spec
CONSTANTS
    Procs = {p1, p2}
    Versions = {v1, v2}
    None = None
    Sources = {x, y}
    Uuids = {1, 2, 3, 4, 5, 6, 7}
    Strata = 2
    MaxStarts = 3
    Files = {1, 2}
SYMMETRY Symmetry
CONSTRAINT Explored
CHECK_DEADLOCK FALSE
INVARIANTS TypeOK StoresAreSound CachedTreesMeanTheSame OwnerHasTheStoredNames OwnerNeverWaits
PROPERTIES ImplementsNameStore
