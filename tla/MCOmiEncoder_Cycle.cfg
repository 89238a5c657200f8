\* An instance whose element refers to the instance itself.
CONSTANTS
    ClassNames <- MCPlainClasses
    ElemNames <- MCNames
    Types = {"REFERENCE"}
    BaseValues <- MCGoodValues
    World <- MCCycle
    MaxElems = 1
    MaxArray = 1
    MaxDepth = 3
SPECIFICATION Spec
INVARIANT NoOverflow
\* After its one step, the model has written its instance and stops.
CHECK_DEADLOCK FALSE
