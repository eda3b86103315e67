SPECIFICATION Spec
CONSTANTS
    Sessions = {s1, s2}
    Names = {n1, n2}
    UserFiles = {u1}
    MaxAttachments = 3
SYMMETRY Symmetry
INVARIANTS
    
    CleanUpIsExact
