\* An element holding an embedded instance.
CONSTANTS
    ClassNames <- MCPlainClasses
    ElemNames <- MCNames
    Types = {"INSTANCE"}
    BaseValues <- MCGoodValues
    World <- MCWorld
    MaxElems = 1
    MaxArray = 1
    MaxDepth = 3
SPECIFICATION Spec
INVARIANT OutputIsJson
\* After its one step, the model has written its instance and stops.
CHECK_DEADLOCK FALSE
