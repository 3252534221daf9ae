SPECIFICATION Spec
CONSTANTS
    Thread = {t1, t2, t3}
    Trays = 2
    MaxStaff = 2
    MaxRests = 1
    Nobody = Nobody
    Gone = Gone
INVARIANTS
    RestaurantExact
    OwnerUnlocks
PROPERTIES
    Serves
CHECK_DEADLOCK FALSE
