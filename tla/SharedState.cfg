\* Threads of two programs; the wall clock is set, and the other program may be suspended.
\* And two runs of the issuer lookup.
CONSTANTS
    program = program
    other = other
    t1 = t1
    t2 = t2
    t3 = t3
    Procs <- MCProcs
    Threads <- MCThreads
    Home <- MCHome
    Interval = 2
    MaxPause = 1
    Attempts = 2
    MaxStep = 1
    Frozen = {other}
    Companies <- MCCompanies
    Exchanges <- MCExchanges
    Fillers <- MCFillers
    Generic <- MCGeneric
    Worlds <- MCWorlds
    Todays <- MCTodays
    Asks <- MCAsks
    Pinnings <- MCPinnings
    IndexProbe = 2
    MaxCandidates = 3
    MaxAsks = 2
SPECIFICATION SharedSpec
INVARIANTS NothingDoubtfulIsSaved DegradedIsTold
PROPERTIES StartsAreSpaced ProcessStartsAreSpaced StartsGoOn
