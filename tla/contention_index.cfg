\* Three reservations contend for two slots; only the unique index serialises them.
CONSTANTS
    u1 = u1  a1 = a1  a2 = a2  vip1 = vip1
    r1 = r1  r2 = r2  r3 = r3  q1 = q1  q2 = q2
    NoUser = NoUser  NoRes = NoRes  NoSlot = NoSlot
    NoHandler = NoHandler  NoRequest = NoRequest  Same = Same
    FirstWeekday = 5  StartHour = 8  EndHour = 10  MaxDaysAhead = 1
    Users = {u1, a1}  Admins = {a1}
    Rooms = {vip1}  Days = {0, 1, 2}  Hours = {8, 9}
    ResIds = {r1, r2, r3}  Handlers = {q1, q2}
    Instants = {7}
    Requests <- ContendRequests
    SerialTx = FALSE  UniqueIndex = TRUE  Faults = FALSE
SPECIFICATION Spec
INVARIANT NoDoubleBooking
PROPERTY ImplementsSlotBook
SYMMETRY HandlersAndKeys
