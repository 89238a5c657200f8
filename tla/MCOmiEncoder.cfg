\* Instances of up to two elements of the scalar, string, timestamp and
\* array types, with names and strings over every escaped character, on
\* which the encoder is expected to be faithful.
CONSTANTS
    ClassNames <- MCPlainClasses
    ElemNames <- MCNames
    Types <- MCGoodTypes
    BaseValues <- MCGoodValues
    World <- MCWorld
    MaxElems = 2
    MaxArray = 2
    MaxDepth = 3
SPECIFICATION Spec
INVARIANT OutputIsJson RoundTrip
\* After its one step, the model has written its instance and stops.
CHECK_DEADLOCK FALSE
