\* A request for availability while days pass, rooms are switched and two bookings move.
CONSTANTS
    v1 = v1  v2 = v2  b1 = b1  b2 = b2  c1 = c1
    NoSlot = NoSlot
    FirstWeekday = 2  StartHour = 8  EndHour = 10  MaxDaysAhead = 1
    Rooms = {v1, v2}  Days = {0, 1, 2}
    Bookings = {b1, b2}  Readers = {c1}
    Instants = {7, 8, 25, 32}
SPECIFICATION Spec
INVARIANTS TypeOK OfferHolds
SYMMETRY BookingsAndRooms
