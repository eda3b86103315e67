SPECIFICATION Spec
CONSTANTS
    Letter = {a, b}
    MaxValues = 4
INVARIANTS
    UniqueKeepsFirsts
    FilterOutIsExact
    TimesAreCounted
