\* The request listener against the reference definition of what it records.
CONSTANTS
    MaxListeners = 2
    EventTypes <- MCEventTypes
    DataFields <- MCDataFields
SPECIFICATION Spec
INVARIANTS
    TypeOK
    RecordsExpectedEvents
