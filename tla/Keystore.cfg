SPECIFICATION Spec
CONSTANTS
    Alias = {"a", "b"}
    Request <- MCRequest
    MaxWrap = 3
    MaxFaults = 2
INVARIANTS Readable OneStore NoTestKeys AuthorizationKept
PROPERTIES KeysKept
