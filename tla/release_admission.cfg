\* Three acceptance operations, four starts of a service, three failures or deaths.
CONSTANTS
    Operations <- MCOperations
    MaxGeneration = 4
    MaxFaults = 3
SPECIFICATION Spec
INVARIANTS OpenIsEarned WorkerWasAccepted HeldReadIsPending PermitIsSpent OpeningIsOnRecord
PROPERTY PublicationCrossesNoWork
CHECK_DEADLOCK FALSE
