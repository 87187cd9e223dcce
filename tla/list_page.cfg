\* An admin filters, turns pages, acts on rows and edits while answers overtake each other.
CONSTANTS
    MaxRows = 2  PageSize = 1  MaxRequests = 3
    Filters = {"all", "some"}  NoFilters = "all"
SPECIFICATION Spec
INVARIANTS TypeOK PageAsNumbered SpinnersHaveWork OneSaveInFlight SaveOfItsRow
