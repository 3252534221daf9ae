SPECIFICATION Spec
CONSTANTS
    MaxOrder = 2
    Callers <- AnySizes
INVARIANTS
    NoOverlap
