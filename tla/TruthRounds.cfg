\* The loop stops after its rounds, so the system does.
CONSTANTS
    checked = checked
    other = other
    Secs <- MCSecs
    Columns <- MCColumns
    Scored <- MCScored
    Brief <- MCBrief
    Runs <- MCRuns
    Base <- MCBase
    Truth0 <- MCTruth0
    Rulings <- MCRulings
    Label = "5a"
    MaxRounds = 2
    MaxExtras = 2
    CloseAgain = FALSE
SPECIFICATION Spec
CHECK_DEADLOCK FALSE
INVARIANTS CitedReportsAreKept SettledIsApplied LogExplainsTruth QuietAfterClose
PROPERTIES TruthNeverDrifts
