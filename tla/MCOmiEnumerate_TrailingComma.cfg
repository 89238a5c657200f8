\* A request that yields nothing after one that yielded an instance: the
\* separator written before it is left dangling before the list end.
CONSTANTS
    Requests = {r1}
    Malformed = Malformed
    NotArray = NotArray
    Instances = {i1, i2}
    BadInstances = {}
    NULL = NULL
    JSON_LIST_START = JSON_LIST_START
    JSON_LIST_END = JSON_LIST_END
    JSON_SEPARATOR = JSON_SEPARATOR
    MaxItems = 3
    MaxPulls = 2

SPECIFICATION Spec

INVARIANT ReturnsJsonArray

CHECK_DEADLOCK FALSE
