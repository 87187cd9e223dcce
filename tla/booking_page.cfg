\* A user clicks through dates and dialogs while answers come in any order.
CONSTANTS
    d1 = d1  d2 = d2  u1 = u1  u2 = u2  x1 = x1  x2 = x2
    NoText = NoText  None = None
    Dates = {d1, d2}  FirstDate = d1  Hours = {8}
    People = {u1, u2}  Texts = {x1, x2}  Found <- FoundPeople
    MaxRequests = 2  MaxPeople = 2
SPECIFICATION Spec
INVARIANTS TypeOK OnePostInFlight PostOfItsForm PeopleOnce
PROPERTY SpinnersStop
