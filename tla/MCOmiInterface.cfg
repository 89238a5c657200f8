\* A caller that connects only a disconnected object, makes up to three
\* connect and two enumerate calls with up to two requests each, on a
\* provider that can hold one pending result per operation.
CONSTANTS
    Requests = {r1}
    Malformed = Malformed
    NotArray = NotArray
    Instances = {i1, i2}
    BadInstances = {}
    NULL = NULL
    JSON_LIST_START = JSON_LIST_START
    JSON_LIST_END = JSON_LIST_END
    JSON_SEPARATOR = JSON_SEPARATOR
    MaxItems = 2
    MaxPulls = 1
    MaxConnects = 3
    MaxEnumerates = 2
    CallerReconnects = FALSE
    CallerAllocates = FALSE
SPECIFICATION IfaceSpec
INVARIANT NoLeak FailedConnectHoldsNothing
PROPERTY DisconnectedEnumerateEmpty FreedReleasesAll ImplementsSessionAbstract
\* A freed object is final: no method can be called on it.
CHECK_DEADLOCK FALSE
