\* EDGAR's list has up to two older pages.
CONSTANTS
  MaxPages = 2
  MaxFilings = 5
  NewPages = TRUE
  OldCopies = TRUE
  LastDay = 3
  LastClock = 8
  WindowEnd = 2
  Late = 3
  MinTtl = 1
  MaxTtl = 3
  SearchFresh = 1
SPECIFICATION ReadsSpec
INVARIANTS UnflaggedReadIsWhole RefreshLeavesOneList UnflaggedIsFresh LateFilingsAreFound
