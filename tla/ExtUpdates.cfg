SPECIFICATION Spec
CONSTANTS
    Names <- Available
    Requires <- Needs
    Invalid <- Malformed
    Lists <- GivenLists
    Updates = {m1, m2}
    Faults = TRUE
INVARIANTS TypeOK PartialUpdateIsOrdered SuccessIsExact
 
CHECK_DEADLOCK FALSE
