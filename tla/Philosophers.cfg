SPECIFICATION Spec
CONSTANTS
    MaxPhi = 2
    MaxBorn = 3
    MaxAsked = 1
    MaxLeft = 1
    Gone = Gone
    Nobody = Nobody
    Main = Main
INVARIANTS
    NoForkInTwoHands
    OneStaysOut
PROPERTIES
    EveryoneEats
CHECK_DEADLOCK FALSE
