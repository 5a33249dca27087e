\* One player whose two Pay calls may overlap.
SPECIFICATION FairSpec
CONSTANTS
    Users = {u1}
    Regs = {r1}
    Sessions = {s1, s2}
    EventIds = {e1}
    NoUser = NoUser
    NoReg = NoReg
    NoSession = NoSession
    MaxCapacity = 1
INVARIANTS
    TypeOK
    MoneyMatchesRow
PROPERTIES
    ChargeSettles
CHECK_DEADLOCK FALSE
