\* Two operations on one configuration, any three failures or deaths.
CONSTANTS
    Ops = {op1, op2}
    Old = old
    None = none
    MaxFaults = 3
SPECIFICATION Spec
INVARIANTS NewIsUndoable AnswersHold RolledBackIsOff
PROPERTY ImplementsSwitch
CHECK_DEADLOCK FALSE
