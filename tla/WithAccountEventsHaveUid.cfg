\* Checks the comment of the uid expect against the code.
CONSTANTS
    MaxListeners = 2
    EventTypes <- MCEventTypes
    DataFields <- MCDataFields
SPECIFICATION Spec
INVARIANTS
    WithAccountEventsHaveUid
