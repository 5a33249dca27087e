\* Two players for one seat, and every fact told by up to two events.
SPECIFICATION FairSpec
CONSTANTS
    Users = {u1, u2}
    Regs = {r1, r2}
    Sessions = {s1}
    EventIds = {e1, e2}
    NoUser = NoUser
    NoReg = NoReg
    NoSession = NoSession
    MaxCapacity = 1
INVARIANTS
    MoneyMatchesRow
    StaleDenialNeedsSecondPayment
PROPERTIES
    UnpaidSeatEnds
CHECK_DEADLOCK FALSE
