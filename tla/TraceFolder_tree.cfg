SPECIFICATION Spec
CONSTANTS
    Simulations = {s1}
    Names = {"a"}
    MaxDepth = 2
INVARIANTS
    MissingParentsAreMade
CHECK_DEADLOCK FALSE
