\* An element holding an MI_Interval.
CONSTANTS
    ClassNames <- MCPlainClasses
    ElemNames <- MCNames
    Types = {"DATETIME"}
    BaseValues <- MCIntervalValues
    World <- MCWorld
    MaxElems = 1
    MaxArray = 1
    MaxDepth = 3
SPECIFICATION Spec
INVARIANT OutputIsJson
\* After its one step, the model has written its instance and stops.
CHECK_DEADLOCK FALSE
