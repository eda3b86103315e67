SPECIFICATION Spec
CONSTANT MaxCalls = 4
INVARIANTS
    HeadersAreSentOnce
    ResponseIsOfLatestCall
    FailureIsReported
    TraceIsOfLatestCall
PROPERTIES
    OldErrorsComeBackOnce
