SPECIFICATION Spec
CONSTANTS
    Query = {q1, q2}
    Select = {q1}
    Result = {r1, r2}
    NULL = NULL
    MaxCalls = 3
INVARIANTS TypeOK OneResult SuccessIsOfThisQuery RunsAtMostTwice
PROPERTIES EightCallsAtMost
CHECK_DEADLOCK FALSE
