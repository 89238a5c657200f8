\* Enumerate with well-formed instances: up to three argument entries
\* (requests or malformed entries), two instances, two pending answers per
\* operation.
CONSTANTS
    Requests = {r1}
    Malformed = Malformed
    NotArray = NotArray
    Instances = {i1, i2}
    BadInstances = {}
    NULL = NULL
    JSON_LIST_START = JSON_LIST_START
    JSON_LIST_END = JSON_LIST_END
    JSON_SEPARATOR = JSON_SEPARATOR
    MaxItems = 3
    MaxPulls = 2

SPECIFICATION Spec

INVARIANT TypeOK
INVARIANT SeparatorDiscipline
INVARIANT OperationReleased
INVARIANT ReturnsArrayShape
PROPERTY Termination
PROPERTY ImplementsAbstract

\* A call of enumerate returns: "done" is its final state.
CHECK_DEADLOCK FALSE
