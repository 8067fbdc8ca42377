\* Runs stop and fetches fail anywhere; EDGAR adds no page, and no earlier version left copies.
CONSTANTS
    MaxPages = 2
    MaxFilings = 5
    NewPages = FALSE
    OldCopies = FALSE
SPECIFICATION ListSpec
INVARIANTS NoFilingIsLost
