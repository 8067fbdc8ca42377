SPECIFICATION Spec
CONSTANTS
    Lines <- MCLines
    Issuers <- MCIssuers
    Docket <- MCDocket
    Called <- MCCalled
    MaxFilings = 3
INVARIANTS
    OneLinePerClass
    NoFormIsLost
PROPERTY OthersFormLeavesEndings
CHECK_DEADLOCK FALSE
