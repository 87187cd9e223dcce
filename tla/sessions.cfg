\* Two tabs of one browser refresh, sign in and out, lose answers and are reloaded.
CONSTANTS
    u1 = u1  b1 = b1  t1 = t1  t2 = t2
    c1 = c1  c2 = c2  c3 = c3
    NoAccount = NoAccount
    Accounts = {u1}  Browsers = {b1}  Tabs = {t1, t2}  Calls = {c1, c2, c3}
    MaxPairs = 2
    BrowserOf <- OneBrowser  TabOf <- CallsOfTabs  May <- KindsOfCalls
    MaxFaults = 1
SPECIFICATION Spec
INVARIANTS TypeOK OneRefreshPerTab RotationSound NoReplay StoredTokenUsable

