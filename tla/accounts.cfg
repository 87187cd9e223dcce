\* Two handlers over three accounts and two rooms, with failures and restarts.
CONSTANTS
    m0 = m0  m1 = m1  r1 = r1  r2 = r2  v1 = v1  v1pad = v1pad  v2 = v2
    q1 = q1  q2 = q2
    NoMobile = NoMobile  NoName = NoName  NoRoom = NoRoom
    MaxAccounts = 3
    Mobiles = {m0, m1}  SeedMobile = m0
    RoomIds = {r1, r2}  Names = {v1, v1pad, v2}  Trim <- Trimmed  SeedNames = {v1}
    Handlers = {q1, q2}
    Requests <- AccountRequests
SPECIFICATION Spec
INVARIANTS TypeOK MobilesUnique RoomNamesDistinct PendingKeptOut TokensHaveAccounts
PROPERTY RightsFromAdmins
SYMMETRY HandlerSymmetry
