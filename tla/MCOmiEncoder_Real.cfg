\* A real value of seven significant digits.
CONSTANTS
    ClassNames <- MCPlainClasses
    ElemNames <- MCNames
    Types = {"REAL64"}
    BaseValues <- MCRealValues
    World <- MCWorld
    MaxElems = 1
    MaxArray = 1
    MaxDepth = 3
SPECIFICATION Spec
INVARIANT RoundTrip
\* After its one step, the model has written its instance and stops.
CHECK_DEADLOCK FALSE
