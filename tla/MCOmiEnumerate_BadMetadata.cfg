\* An instance whose class name cannot be read is omitted by
\* instance_to_json but still counted by handle_results.
CONSTANTS
    Requests = {r1}
    Malformed = Malformed
    NotArray = NotArray
    Instances = {i1, i2}
    BadInstances = {i2}
    NULL = NULL
    JSON_LIST_START = JSON_LIST_START
    JSON_LIST_END = JSON_LIST_END
    JSON_SEPARATOR = JSON_SEPARATOR
    MaxItems = 3
    MaxPulls = 2

SPECIFICATION Spec

INVARIANT SeparatorDiscipline

CHECK_DEADLOCK FALSE
