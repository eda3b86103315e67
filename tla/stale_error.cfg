SPECIFICATION Spec
CONSTANT MaxCalls = 4
INVARIANT LastErrorIsOfThisCall
