SPECIFICATION PayoutsSpec
CONSTANTS
    Docket <- PayoutDocket
    MaxFilings = 4
    Worlds <- MCWorlds
    Quotes <- MCQuotes
    Tolerance = 15
INVARIANTS
    DistressNeedsEvidence
    ValueMeetsItsClose
    ParIsDoubted
    ValueFollowsItsRule
PROPERTIES
    OwnedRemovalDecides
    LateReportKeepsTheAnswer
    AnswersChangeValuesOnly
CHECK_DEADLOCK FALSE
