CONSTANTS
    Placements <- A30Placements
    Size <- A30Size
    GetKnownGeometries <- A30Geometries
    MaxAsked = 4
    MaxCalls = 3
    MaxFaults = 2
SPECIFICATION Spec
INVARIANTS
    CreatesAllOrNothing
    KnownGeometriesFit
    SparesOthers
    DeletesCompletely
CHECK_DEADLOCK FALSE
PROPERTY EveryCallReturns
