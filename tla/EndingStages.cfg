CONSTANTS
    A = A
    B = B
    X = X
    Q = Q
    None = None
    LastDay = 3
    TakenOn = 3
    EightKBefore = 2
    EightKAfter = 0
    EightKGroupAfter = 1
    Effective = 1
    MidasAfter = 1
    StillTrading = 1
    HaltNear = 1
    ClosingBefore = 1
    ClosingAfter = 0
    Quiet = 1
    Evidence <- MCEvidence
SPECIFICATION Spec
\* The run ends when its tables are written.
CHECK_DEADLOCK FALSE
INVARIANTS ReadOnTheFinalDay TakerStartsAfter
PROPERTIES SuccessorStands
