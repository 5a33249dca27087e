SPECIFICATION Spec
CONSTANTS
    Users = {u1, u2, u3}
    Regs = {r1, r2, r3}
    Sessions = {s1}
    EventIds = {e1}
    NoUser = NoUser
    NoReg = NoReg
    NoSession = NoSession
    MaxCapacity = 2
SYMMETRY Interchangeable
INVARIANTS
    Capacity
    OneActiveRow
    NoIdleSpotButStaleDenial
PROPERTIES
    WaitlistIsFair
    RosterFrozen
    ImplementsSeatAllocation
CHECK_DEADLOCK FALSE
