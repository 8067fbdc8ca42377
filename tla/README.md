# Delist detection: TLA+ models and proofs

`delist_detection` takes observed tickers and finds out, from EDGAR, OpenFIGI and
other public files, which securities they were, when and how each stopped
trading, and what its holders got. This directory holds models of the parts of
that program where a wrong step is hard to see in its tables: copies of different
ages read as one, work done ahead on threads, requests of several programs under
one limit, failures that must leave a flag, rules asked in an order, rows that many
stages rewrite in turn. Paths below are relative to `src/delist_detection/` of the
repository.

Contents: 1 the system, 2 the modules and how they correspond to the code,
3 the runs, 4 the proofs, 5 observations on the code, 6 what is left out,
7 the plan.

## 1. The system

One run (`pipeline.run`) is a sequence of stages over a fixed list of
observations. Each stage reads sources through caches on disk, each item one at a
time on the main thread; before a stage that reads much from SEC a *warm pass*
fills the caches on several threads. All tables are written at the end.

| component | state it keeps | operations | what is hard | what makes it correct |
| --- | --- | --- | --- | --- |
| EDGAR client (`sources/edgar.py`) | a cached file per URL, with its fetch day; per client which URLs it fetched itself; a lock per file | `submissions`, `recent_filings`, `efts_search`, `company_search_atom`, filing texts | a filing list is several files that EDGAR keeps moving rows between; SEC indexes late; fetches fail; runs stop anywhere | an answer not flagged as resting on a failed read holds every filing |
| SEC limit (`sources/sec_limiter.py`) | per process: last start, pause, lock; per machine: a locked file with a stamp | `acquire`, `pause`, `wait_turn` | threads, processes, a wall clock that is set, suspended programs | starts are spaced over all programs of the machine; nobody stalls the rest |
| Prefetch (`sources/prefetch.py`) | a queue of items, a pool of state objects, a stop event | `warm` | a refusal or Ctrl-C on one thread while the others are anywhere | the pass ends; no item is skipped unheard; nothing is sent after a refusal |
| Issuer record (`identity/issuer_record.py`) | per CIK: profile, filing list, first filing, fetch stamp | `profile`, `filings`, `recent_days`, `first_filed`, `watch` | parts of one copy remembered apart and refreshed apart | an unflagged answer about a day comes from a copy fetched by then |
| Ticker resolver (`identity/ticker_resolver.py`) | a memo, its file, which answers are volatile or degraded | `resolve`, `flush` | an answer outlives the run that found it; lookups stop anywhere | nothing that rests on a failed read is saved; what is degraded is told |
| Identity stage (`identity/identity.py`, `security_master.py`, `observations.py`, `derived_lines.py`) | eras, their issuers, their lines, verdicts | refine, resolve issuers, resolve lines, judge, derive | names and tickers reused; placeholders; verdicts that change what they were given on | one line per placeholder; a class is not parted; lost reads are told |
| Line following (`identity/line_follow.py`) | lines, renames, what was taken in a round | find a step, follow it, fold | lines change under each other within a round | one holder of a CUSIP; renames lead to lines |
| Finder (`endings/delistings.py`, `filings/form25.py`) | none | which Form 25 removed which line | texts that fit several lines; filings that arrive | one line per class named; no form lost quietly |
| Classifier (`endings/classifier.py`, `end_of_era.py`) | none | what an ending is called | ten rules in order; filings that arrive later | a late report changes no answer it should not |
| Last trade (`endings/last_trade.py`) | none | the last day on the exchange | five sources, a ticker that passes on | the taker of a ticker starts after |
| Stages 5 to 9h (`pipeline.py`, `endings/`) | endings, closes, values, added securities | search, hand off, re-date, rewrite | each stage rewrites what earlier ones decided on | an ending is published on the day its values were read for |
| Terms and values (`terms/`, `outputs/dlret.py`, `payout_rule.py`, `price_requests.py`) | merger values, price requests | gate payouts, decide, ask, answer | a second run with the caller's answers | an unsupported amount is not used, and doubt is told |
| Sources (`ftd`, `midas`, `nasdaq_halts`, `openfigi`, `cik_lookup`, `llm_client`) | cached files, a parsed store | reads, retries | partial answers, rebuilds, outages | a cached answer is never part of one |
| Histories (`identity/history.py`, `issuer_in_force.py`) | none | ranges of tickers, CUSIPs, issuers | ranges that meet | ranges of one security are disjoint |
| Outputs (`outputs/`) | the tables | verdicts, returns, triage, contract, write | a group of files that must agree | all tables of one run |
| Measurement (`measurement/`) | truth file, legs, change log, ledger, round folders | rule, rename, flip, open and close a round, commit | changes applied again; several files changed together | a change is applied once and logged |
| Handling (`handling/`) | positions of a backtest | act on delistings | none across steps | value is conserved |

They interact by calls and by rows handed from stage to stage, and share state in
six places: the cache directory (threads, runs, and the direct and the
remembered readers), the lock file of the limit (programs), the stop
event of a warm pass, the memory of the run's issuer record, behind whose
back other code reads and refreshes the same cache, the resolver's memo file (runs), and
the files of a loop round, written by scripts, agents and the operator in turn. A refusal by
SEC (403 or 429) and an OpenFIGI outage stop the whole run; every other failure becomes a flag
on one row.

`PROJECT.json` lists every component with its files, and the hazards of the code
at the line where each bites.

## 2. The modules

Two kinds of module. The first five and TruthRounds model *processes*: threads, requests, crashes,
several writers of one file. The others model *rules over worlds*: a world (what the
outside says) is chosen at the start or when a stage reads it, the steps are those of the code, and
filings that arrive, reads that fail, callers that answer and runs made again are the actions between
them.

### FilingList: an issuer's filing list

`EdgarClient.submissions`, `recent_filings`, `_whole_list`, `_page`, `_one_list`.
EDGAR keeps an issuer's latest filings in a main file and older ones in pages;
rows move towards older pages as filings arrive, and every copy is fetched by
itself. Filings are numbered in order of arrival, so a list at one moment is the
vector of its *edges*: block `b` holds filings `edge[b+1]+1 .. edge[b]`, and a
copy of the main file, which lists each page's row count, determines it. That is
what `_list_id` hashes.

| state | code |
| --- | --- |
| `edge` | EDGAR (environment) |
| `main`, `page` | the cached copies; `page[b].tag` is `LIST_KEY` |
| `fetched` | `_fetched[url] > 0` for the main file |
| `place`, `next`, `again` | the place in `_whole_list` and its loop |
| `purpose`, `due`, `fill` | which read, whether the caller's day is later than the copy, a prefetch thread |
| `stale` | `stale_reads` counted by `_get_json` during the read |
| `mixed` | not in the code: under the cached main file its pages were wrongly taken as one list |

`FetchPage` and `TagPage` are two writes of the file, as in `_page`. `EndRun` is
the end of a run or a stop between any two steps, and any fetch may fail. `mixed` becomes true in two ways:
a second pass is cut short by either (`Cut`), or a page that EDGAR adds behind the oldest one is
overlooked (`Overlooked`); fetching the main file anew clears it. `OldCopies` says whether the first run may find the untagged
copies of an earlier version.

### EdgarSearches: the other answers the client keeps

`efts_search`, `company_search_atom`, `get_text` and `_get_json` for one answer and one filing it
should come to hold. `shown` is the day SEC's index shows the filing, up to `Late` days after it was
made; `Kept` is what the cache trusts and for how long (`_efts_ttl_days` for a window by its age, a
week for a company search, for ever for a document), `Ask` one read under a run date that may be
earlier than the clock's, `MinTtl` the shortest life of an answer, with the failures and the prefetch thread, whose answers
are thrown away. A window before 2001, a client without the disk cache and the trimming of hits are
left out.

### SecLimiter and SpacedStarts: the rate limit

`RateLimiter.acquire/pause/stop`, `MachineGate.wait_turn`, and the requests that
use them (`sec_get`, `retry_request`, the refusal in `prefetch.warm`). Several
processes, each with threads. A moment of the code is represented by the time
left until it. Sleeping holds the process's lock (`RateLimiter._lock`) and never
the file lock. `known[t]` is the comparison of `wait_turn` with the stamp it read
before sleeping. `due` is the stamp by the wall clock, `cool` the same by a clock
nobody sets, a history variable for the properties. `SpacedStarts` is what the
gate promises: a start, then no other for `Interval`, but for the first one after
the clock was set.

### PrefetchPool: a warm pass

`prefetch.warm` with its thread pool, the state objects, `Serialized` and cache
locks, the limiter's cancellation and the main thread that submits, waits and
joins. An item makes up to `MaxReads` reads, each under one of `Locks`, each a
cached answer, an answered or failed request, or a refusal. `Interrupt` is Ctrl-C
on the main thread in any state.

### IssuerRecord: the run's memory

`identity/issuer_record.py` for one issuer over the client's cache, the client's
two reads being those of FilingList at one step each: `ReadSubmissions` and
`ReadList` keep of FilingList only whether the cached list is whole and which day
the main copy is of. A copy is its fetch day; `torn` remembers that an older page has
failed in this run, for the properties. `DirectRead` is the classifier, the
finder and the extractors, which read the client and not the record. `NextRun`
is a new process with an empty memory beside the old cache.

MCEdgarReads runs FilingList, IssuerRecord and EdgarSearches beside each other; MCSharedState does so with SecLimiter and Resolver,
MCDelistingStage with PrefetchPool and DelistingStage. None of them reads the other's state, so one moves while the others rest
(`moving`, `limiting`, `warming`).

### Resolver: which company a ticker was

`ticker_resolver.py`: `resolve` in its steps (`Ask`, the pins and overrides, `Recall` from the memo,
`Rename` through the rename map, `Find` through the four searches), then `_remember` one write at a time
(`Mark`, `Keep`, `Clear`), `Return`, `Flush` to the file, `Stop` between any two, `Start` of the
next run on the file. `rests` remembers that an answer came from a failed read or an old copy; the code
has only its marks (`volatile`, `degraded`), and the properties hold one against the other. Names are sequences of words
and the name index is a set of them. At most one read of a lookup fails or is stale.

### Eras, EraIssuers, FigiLines, Identity: the identity stage

| module | code |
| --- | --- |
| Eras | `observations.py` split of a ticker's observations, `refine_eras` on fails rows, an era's CUSIPs, `cusip_handoffs` |
| EraIssuers | `_resolve_issuers`, the checks of name answers, the second pass (rules E, B, C, D) |
| FigiLines | stage 3: the tiers, `cusip_handoffs`, backfill, guard (c), `resolve_with_identity_guard` with its four rules, `split_placeholder_lines` |
| Identity | `identify` and `identify_with_lines`: passes until no verdict is new, rounds until no line is derived |

The first three are operators: what a stage makes of a world. Identity is the state machine that chains them,
`Refine`, `FindIssuers`, `FindLines`, `Judge`, `Follow`, with `verdicts` and `derive` as the state
carried from pass to pass. A name is a word and a class letter, and two names agree when their words do.
`lost` are the companies whose record no read of the run reaches; the line follow is the set of steps it would
take or refuse. The day constants are the code's.

A rule reads a company only for the eras the rules before it left without an issuer (`_resolve_issuers`), and marks
an era for those reads only. `moved` in the answer of stage 3 are the eras that the identity guard took off a composite,
which is how the properties tell a class that was parted from one that left together. `PlaceholderLines` is given every
CUSIP link of the run, as `_carrying_links` is.

### LineFollow: stage 4b

`follow_lines` with `_candidates`, `corroborate` (R1), `decide` (R2), `holders_for` and the folds. `Find` opens a
round: the step of each line still to look at, from the fails rows and its issuers' texts. `Follow` takes the
lines in order, each on what the ones before it changed, as the code does. `CloseRound` is the end of the loop's body. `out` is
`Lines` (eras, CUSIPs, line tickers, renames, successors); a read that fails or comes from an old
copy marks its issuer. `strays` is a history of what a step took on word of a line that an earlier step of its round had changed:
observations that joined a line which then folded (`behind`), ones that folded into a line already gone (`onto`), and
CUSIPs taken past a holder that had changed (`cusips`).

### EndingSearch: the finder

`endings/delistings.py` over one issuer with several lines: for each Form 25 the class match
(`form25.py`), the tie by trading, the early window, the groups, the move to the OTC market, the
fallback without a Form 25. `File` adds a filing, `Find` is a run over all of them: so a property can say what a
filing that comes later does to endings found before. The classifier is the operator `Called` of an issuer, a line and a
day; `_to_otc` asks again about a transfer, a deficiency, an unknown or a merger that only the continued filings made one
(`relabelled`). What a run says of a line is an operator of the issuer and the filings on
record, `FindEndings(i, fs, s)`, so the proofs can compare two runs. `_group` and the loop of `find` go over days in turn,
each decided by what was kept before it: `InTurn` is the set that such a loop keeps.

### Classification: what an ending is called

`classify_event` and `end_of_era`: every rule in its order with its windows; `File` adds a filing
to the record, and the answer is the operator `Classify`. A filing is its form, day, items and labels of what its text says.

### PayoutGate and Payouts: what a share became

PayoutGate is `gate_payouts` and `reconcile`: each read of the terms against the share's last close. Payouts extends
Classification and PayoutGate with `value_mergers`, 8b (the registrant's own statement), `distress`,
`dlret.decide`, `payout_rule.rule_of` and `price_requests`: `Run` makes a whole run on one
ending, `GivePrice` is the caller answering one request, and the next `Run` reads the answers. Amounts are whole units.

### LastTrade and EndingStages: the day of an ending and who moves it

LastTrade is `last_trade.py` as operators: notices, 8-Ks, volume, halts, the closing day of the deal, each
in its window, and rules 3 and 4. `Read` is what the readers of the filings and the feeds may give as evidence. EndingStages is `pipeline._run` from the dating to the tables: `DateEnding`,
`FindEnding`, `Closes`, `MergerValues`, `R1Continuations`, `Successors`, `Handoffs`, `ReadAgain`, `Notices`,
`SuccessorEndings`, `DistressEndings`, `UnexplainedEndings`, one action a stage, over an observed security `A`, a security `B`
that may take its ticker, a successor `X` and an acquirer `Q` that the run may add.

### DelistingStage: the search loop of stage 5

`pipeline._find_delistings` and `_search_security` with
`SuccessorRegistrants.of`: per security, the issuers' lists are refreshed
(`Start`), the finder and the successor search alternate until the registrants
settle (`Find`), an open security is refreshed for the run date and searched once
more (`ReadAgain`), and what is kept is written down (`Settle`). `Fail` is the
`except Exception` around one security, `Abort` the re-raised fatal errors. The
finder is represented by which Form 25s it can see, which depends on how old the
copies are; which of them is about the security is EndingSearch, and here every one
seen counts as an ending. The world (`form25`, `heir`) is chosen at the start:
every filing date, every chain of successors `MaySucceed` allows.

### TruthRounds: the truth set and its loop

`measurement/truth_set.py`, `loop_round.py`, `truth_update.py`, the judge and the
regression diff, for one sub-plan: `Rerun` gives a run of the pipeline, `Open` judges it and
writes the cases, `Diagnose` is an agent that leaves a record (or none, or one that is
not usable, or one without its report), `Close` applies the records by the
rules of `apply_round` and starts a commit; `Seed`, `Flip`, `Rule` and
`DeletePending` are the operator's.

| state | code |
| --- | --- |
| `run` | `output/`: contract rows by security, securities held |
| `truth`, `log`, `ledger` | the truth file, its change log, `diagnosed.csv`, as they are on disk |
| `kept` | the kept reports; `[round, kept]` is a citation before and after `recite` |
| `round`, `cases`, `records`, `stage` | the last round's folder and whether it is open |
| `todo`, `new` | a commit under way: what it still renames, and to what |

`CopyReports` and `Replace` are the writes of a commit in their order, `Crash` a kill between
any two. `torn` (which rounds saw a kill between two renames), `held` (values the truth file has had) and
`extras` (the count of the bound) are not in the code. One truth row per security; its `examined` cell is the day of the ending
that an `ending_moved` row refuses; a row's other columns, its legs and notes, renamed placeholders and successor chains are left out.

## 3. The runs

Twelve runs. Nine pass and state what holds. Three (`filing_list_cut`, `identity_cut`, `line_follow_cut`) state what a docstring or
comment of the code says and are violated: section 5 has what they show. Together they take about thirteen minutes on two workers, the
longest three (`shared_state`).

| run | asks | bounds, and why they are enough | states |
| --- | --- | --- | --- |
| `edgar_reads` | may a read that is not flagged miss a filing; does a profile refresh tear a list; is an unflagged answer of the record fresh; is a filing lost to a kept search | list: 2 pages, 5 filings, pages added, copies of an earlier version, a stop or a failure between any two steps: a row passes from the main file through the middle page to the oldest, and a second pass is cut between them. Record: 3 days, so a copy is older than, of or newer than the asked day, several runs. Search: 8 days, a window that ends on day 2, an index late by up to 3 days, a time to live of 1 to 3, so an answer kept before the filing shows can outlive the last day it may show | 457,594 |
| `filing_list_cut` | may a read that is not flagged miss a filing at all | the list of `edgar_reads` from the latest version on: no page is added | violated |
| `shared_state` | do stamped starts refine SpacedStarts; does a process space its own; do starts go on; is anything doubtful saved; is what rests on a failed read told | limit: 2 processes, 2+1 threads, spacing 2, 2 attempts, clock steps up to one spacing and a unit, the other process may be frozen: two threads of one process against one of another. Lookups: 5 worlds (a spin-off that took name and ticker, a Form 25 under another name, like names, two of one name, mentions only), 2 runs of up to 2 lookups, 3 pinnings; every lookup may be stopped and every read fail: the second run reads what the first left | 591,673 |
| `identity` | one line per placeholder, classes together, lost reads told, gates hold at the end | nine families of worlds (a ticker whose CUSIP changes twice, two names on one day, three overlapping lines of an issuer, a class today's holder names elsewhere, whose line is found anew, carried on or gone to another issuer, eras that share an issuer code, a chain of links through four tickers), no company or any one lost: 4,728 worlds | 37,778 |
| `identity_cut` | is an era that a lost read changed flagged itself | the worlds of `identity` | violated |
| `line_follow` | who may hold a CUSIP twice, which observations are parted from theirs, are degraded reads flagged, do renames lead to lines | a line with a second one, or with one or two placeholders, going on under its own, another or a late ticker; folds and holders that change within one round; `MaxRounds` 3 as in the code, so a fold of a fold happens; one lost read | 207,788 |
| `line_follow_cut` | is a held CUSIP ever on two lines | the worlds of `line_follow` | violated |
| `ending_search` | one line per class named, no form lost, what another line's form may take back | two lines in nine pairings, one with both long gone, and four lines whose words and tie add up; a docket of 14 filings of which 3 come, one at a time, a run between any two | 676,080 |
| `delisting_stage` | is a Form 25 missed unflagged; has the warm pass exclusive objects, at most one late request, nothing skipped, an end | stage: 2 securities sharing an issuer, 3 CIKs, chains of two reorganizations and joins, 2 days, 2 registrants. Pass: 2 threads, 3 items, 2 locks, 2 reads: one item queued while two run, and contention for either lock | 1,519,240 |
| `ending_stages` | is a row's close read on its last day; does the taker start after; does a successor stand | 3 days; evidence in five families (printed, told twice, undated, dropped, went on), every window 0 to 2 days so that each day lies inside one and outside another | 1,430,672 |
| `ending_value` (MCPayouts) | does distress rest on evidence; does a later filing change what it should not; does a value meet its close, follow its rule; is par doubted; do answers change values only | 31 filings with days on both sides of every window, up to 4 on record; worlds on the dockets that give each kind of ending: 21 answers of the model, prices that fit and do not, a close or none, foreign cash, dividends, caller's rows, statements; answers {50, 98} | 437,137 |
| `truth_rounds` | are errors settled once, answers never lost, truth changes warranted and logged, reports kept, and is a closed round's run quiet | one security with a truth row and one without, two scored columns and one not, 3 runs, 2 rounds, `MaxExtras = 2`: any two of a kill, a ruling, a seed, a deleted ledger row, which is what each property takes to break; in the last round agents and closing only | 2,601,146 |

Properties that deserve a sentence:

- `UnflaggedReadIsWhole`: every filing the main copy knows of is in the copies the
  answer is made of, wherever runs stopped and fetches failed before it, unless a stale read was counted or the copies are `mixed`.
  Without that last exception it is `NoFilingIsLost`, what a docstring promises, and is violated.
- `RefreshLeavesOneList`: refreshing the main file for a profile also refreshes the
  pages, so the next list read is not torn by it.
- `LateFilingsAreFound`: the bound is tight. One day earlier TLC finds a read that misses the filing.
- `StartsAreSpaced`: the limiter implements `SpacedStarts`, the abstract limit, in which
  a set wall clock lets one early start through and no more.
- `OneLateRequest`: after the stop event a thread sends at most the request it had
  its slot for. The docstring of `warm` says that no item starts after it; an item
  that had passed its stop check still does, and is counted here by what it sends.
- `NothingSkipped`: if `warm` returns, every item ran; otherwise it raised.
- `NothingDoubtfulIsSaved`, `DegradedIsTold`: the history field `rests` of an answer is held against the
  code's marks, in the file wherever a run was stopped, and in the memo between lookups.
- `PlaceholderHoldsOneLine`: two eras on one placeholder that trade at once share a CUSIP, or are joined through
  ones that do: first fit, by first trading day, never puts two lines together.
- `ClassesKeptTogether`: where one era of a class is on a placeholder, none of the others is on a composite that only EDGAR's names
  or a link give it, however often the identity guard took eras off and asked again. The eras that it moved are left out.
- `LossIsTold`: the issuers of a run with a lost company are compared with what they would be without the loss. Each era that differs
  is flagged, or the era that its answer rests on is, or one which that rests on in turn. That it is flagged
  itself, as a docstring promises, is `EachIsFlagged`, and is violated.
- `GatesHoldAtTheEnd`: what the last pass made would pass its own gates, though each verdict changed what later ones were given on.
- `OneHolder`: a CUSIP two lines hold is one that two observations brought, or one taken past a line that an earlier step of
  the round had changed (`strays.cusips`). `HeldOnce`, the code's comment, has no such exception and is violated.
- `ErasKeepTheirCusips` and `RenamesLeadToLines`, too, name what the code leaves to a fold in the round in which its line changed:
  an observation that joined the line stays where its CUSIPs and the rename do not.
- `OneLinePerClass`: a Form 25 ends no more of the lines that live when it is filed than the classes it names, or one more
  where its words and a broken tie add up (`TextAndTie`). Lines that do not live then are judged without each other.
- `NoFormIsLost`: a Form 25 of a living line's kind is an ending, a review item, or explained by one of four reasons.
- `OthersFormLeavesEndings`: an action property. A readable form of another line, filed later, takes no ending back that the scan or
  the early window gave.
- `IssuersFormsFound`: a Form 25 of one of the security's issuers filed by 45 days
  after its last sighting is found, or the row is flagged or an error.
- `ReadOnTheFinalDay`: five stages may move a row's day; its close and its merger value are of the day it is written with.
  Transfers and 9h's rows have no close of their own.
- `TakerStartsAfter`: once B trades under A's ticker, B's volume and halts do not date A's end, and A's row ends before B
  starts. Not when the tenure is unknown, and not when an exchange print says otherwise.
- `LateReportKeepsTheAnswer`: a periodic report half a year after the end sends the docket through the end-of-era rules; a merger stays
  one, and a deficiency never becomes a transfer, under conditions the comment names (section 5 has what happens outside them).
- `ValueMeetsItsClose`: cash, shares and dividend together stay within the tolerance, whichever read or answer gave each of them.
- `AnswersChangeValuesOnly`: the second run, with the caller's answers, is not stopped, asks the same and calls the ending the same.
  Two cases are left out in which the code decides on the gate after the answers (section 5).
- `SettledIsApplied`: wherever a process is killed, the ledger never says of an error that the
  library was right before the truth file has the value, because the ledger is renamed last.
- `LogExplainsTruth`: from the first value of each truth cell the change log's entries chain to
  the one in the file. Not after a kill between the renames of truth file and log, which
  `atomic_io` admits and `Round.close` does not repair: closing again finds no difference left to log.
- `QuietAfterClose`: once a round is closed with a record for each case, the same run has no new
  error, those of the rows the round added included.
- `TruthNeverDrifts`: a step puts a value of the run into a truth cell only if a usable record of this
  round found that value right, with a citation where it overrides the truth, or a ruling says so.

Deadlock is checked in `edgar_reads` and `shared_state`, where the lookups go on to their end (`Ended`). The others stop by design: a warm
pass ends, a stage ends after its last security or line, a run after its tables, the docket after its last
filing, the caller after its last answer, the truth loop after its last round.

### Fairness

`SecLimiter`: time passes (`WF(Tick)`), and a thread of a process that is not
frozen takes its enabled steps and its requests are answered or time out (`requests`
has a timeout on each). Nothing is fair about a frozen process, about setting the clock or
about making new requests. MCSharedState states the same fairness of the limiter's steps while the limiter is what moves. The process lock is a `threading.Lock` without a queue,
so it is not assumed that a particular thread gets it: `StartsGoOn` says that
*some* start is made, not that a waiting thread's own is.

`PrefetchPool`: every thread runs and every request ends. Interrupts, failures and
refusals are never owed. `PassEnds` then needs no fairness for a lock in particular:
there are finitely many items with finitely many reads.

The stages and rules run on one thread, each action one step of a loop that is bounded in the code
(`MaxRounds`, `MaxVerdictPasses`, the filings on record); they have no liveness property of their own.

## 4. The proofs

`tlapm` checks every theorem below for all values of the constants. What each
module assumes is its named `ASSUME`.

**SharedStateProofs.** What runs and processes share in a file, in two models.

Of SecLimiter: `TypeCorrect` with attempts bounded; `ProcessSpaced` from `SlotHeld`
(from its first look to its start a thread holds its process's lock, and no gap is left from
the gate on); `MachineSpaced`, the refinement of `SpacedStarts`, from `SleptOut`: unless the clock
was set since the last start, a stamp slept out is due and `due = cool`.

Of Resolver: `NothingDoubtfulSaved` and `DegradedTold`, for any worlds, pinnings and numbers of runs and lookups. The
invariant follows an answer through the four writes of `_remember`: from `Mark` on a key whose answer rests on a failed read is
volatile, a key in the memo that is not volatile rests on none, and the file holds what an earlier flush found there.

**EdgarReadsProofs.** What a read of EDGAR's filings may rest on, in three models.

Of FilingList: `ListTypeCorrect`, `InOrder`, `UnflaggedIsWhole` and `RefreshIsWhole`, for any number of pages and filings,
with pages added or not, a stop between any two steps and a failure of any fetch. Nothing is assumed beyond the
constants' types: what the code loses is in the properties, as `mixed`. The invariant is `CopiesInOrder`: copies are of moments in the
order of the blocks (`Dated`), pages are cached from the newest on (`Prefix`), two neighbouring
pages tagged with the present main copy lose nothing between them (`Chained`), the oldest listed page ends the list or is
about to be fetched again (`Ends`), and an
answer is given only where the list was judged one (`Judged`); `Chained` and `Ends` say nothing of mixed copies. `UnflaggedReadIsWhole` is not
inductive, since it says nothing while a read is under way; wholeness follows from
`Chained` by taking the first listed page whose lower edge lies below a filing (the
least-number lemma opens the module).

Of IssuerRecord: `TypeCorrect`, `ProfileFresh` whatever fails; `AnswersFresh` and
`RememberedCached`, which say nothing once a page has failed in the run. The invariant `IInv` adds that a copy is no newer
than today and is today's when this run fetched it (`CacheOfToday`), that memory is no newer than the cache and
a list awaited by an unflagged answer is fresh already (`MemoryOfCache`).

Of EdgarSearches: `LateFilingsFound`, for every
delay of the index and every time to live. An answer's day and what it shows are of one moment, so one that
misses a filing is older than the day the filing shows, and expires by then and its time to live. Assumed: a time
to live of a day at least, and an index at least a day late, as in the code.

**DelistingStageProofs.** The delisting stage and its warm pass. Of DelistingStage: `FormsFound`, which is
`IssuersFormsFound` for any securities, CIKs, successors, ages of the cache and failures. The invariant `FormsInv`
adds that while a security is searched its issuers' copies are fresh for it, or its watch has tripped (`CopiesFresh`).
Of PrefetchPool: `TypeCorrect`, `Exclusive` (a state object is in the queue or with one worker), `LateRequests`,
`AllRan` (a stop is always owed to the main thread as an exception).

**TruthRoundsProofs.** All five properties, for any securities, columns, runs, rulings, rounds and number of extras. The invariant
`TruthInv` speaks of the files on disk and of those a commit is renaming into place in the same words, so that a kill between
any two renames needs no case of its own: what is done so far keeps the promises, and so does what is left.

| part | says |
| --- | --- |
| `Shapes` | the types, and that a commit writes a tail of the order `_commit` writes in |
| `Underway` | what is to be renamed differs from the disk only in the round's own rows |
| `RoundRight` | the round's cases and records are of its run |
| `CitesKept` | every citation is of a kept report, or of one the commit copies first |
| `SettledFirst` | what the ledger settles is in the truth file by the time the ledger is renamed |
| `LogTraced` | the log's entries chain to the present value, where no commit was torn |
| `ErrorsKnown`, `NewWarranted` | a settled case stays known; a new value has its record or ruling |

Assumed are only that scored and unscored columns differ and that the first truth file cites no round. The proof found that,
when a round may be closed again (`CloseAgain`), the promise of a pending key holds of the pending row that is cited and not
of every row of that key.

**EndingStagesProofs.** `StagesAgree`, and from it `ReadOnTheDay` and `TakerIsAfter`; `SuccessorsStand` is the action property. For
any number of days, windows, evidence, prints, tenures, successors, handoffs and terms. None of the properties is inductive: what
stage 9c may do to a row rests on what stages 5 to 9b left in other rows. `StagesInv` says of each stage which slots are still empty
(`SlotsInTurn`), that a row which a later stage may continue names no successor before the handoffs (`OpenRowsNameNone`), that the finder's row has the finder's date
(`DatedByTheFinder`), that closes and values are of their row's day except where a handoff or a notice has moved it and
`_read_again` is to come (`ReadOnItsDay`), and that a row ends before its taker once the stage that cuts it has
run (`EndsBeforeTheTaker`). The lemma `DateIsOwn` does the dating: from no evidence can the taker's volume or halts
give the day. Assumed: the windows are days (`LastTradeAssumption`), the evidence is of the shapes the readers give
(`EvidenceAssumption`), the ticker is taken after the first day and the four securities differ (`EndingStagesAssumption`).

**LineFollowProofs.** All four properties of `line_follow`, for any lines, worlds, rounds and failed reads, on no condition
on the steps: `ErasKept`, `RenamesLead`, `DegradedFlagged` and `OneHolderKept`.

`RoundRight` says what a round works on: a line with a step was a line when the round began, and who held what was
noted of every such line. `LineInv` adds that a fold leaves nothing behind but the strays: the eras of a line still to step are those that
resolve to it (`ErasInPlace`), their CUSIPs are with it (`CusipsFollow`), and a line that is gone keeps at most strays and
leads to one that has observations (`FoldedAway`).

`HolderInv` is about who holds a CUSIP that is not loose (`Loose`: one that two observations brought, or that
was taken past a changed holder). `OneEach` is the property, at every point of a round, and `HoldersHaveEras` keeps it over folds. Amid
a round each CUSIP is explained (`HeldThrough`): its line held it when the round began, took it since, or a line that
held it folded into it; and no line that stands has lost one (`HoldersKeep`). Two holders of one CUSIP would
then be two that held it at the start, or one that took it past the other. That is refused, because a line which may still step
to a CUSIP can fold into whoever held it, as long as neither has changed (`StepsFold`), and otherwise the CUSIP is loose. The turns of a
round are reduced once to three outcomes (`Stays`, `Attaches`, `Folds`: lemma `FollowIs`), and every later step is
about those. `EarliestOf` rests on the least-number principle that opens the module. Assumed: lines differ from
`"none"`, the order names a line once, the figures of a world name lines and days (`LineFollowAssumption`,
`WorldAssumption`).

**EndingSearchProofs.** All three properties of the finder, for any lines, texts, tradings, dockets and order of filings.

The set that a loop keeps is found once: `InTurnIs` shows by the least-number principle that exactly one set decides each day by the
days kept before it, and `InTurnGrows` that a later day leaves it as it was and may join it. `HeadsAre` and `CountedAre` apply it
to the groups and to what counts after a definitive ending.

`FormsKept` is about one run: a legible form of a living line's kind is a candidate of one line or left for review (`Judging`, through the
eight refusals of `_judge` and the tie), and a candidate is in an ending or comes after a definitive one (`CandidatesEnd`).

`OthersFormsLeave` is about two runs. `KeepsOK` says of each ending of the last run what the next will make of it, and `FindingsGrow`
that it holds when one filing comes that can be read and is no 8-A12B: each choice of the finder is the same or holds the new filing,
from the candidates (`FilingsGrow`) through their groups (`HeadsGrow`), what counts (`CountedGrow`) and the endings (`TakenGrow`) to
the early window (`EarlyGrows`), which falls only to an ending of the line that holds the new filing.

`NoMoreThanClasses` counts. The classes that tell their line take one each, the claimed ones no more than are left over
(`TextTakes`), a tie gives the form to one line (`TieTakes`), and every filing of an ending was judged to be of its line
(`FormsAreJudged`). The lines that live at one form are judged on the same lines (`LivingTogether`), so text and tie together give
it to no more than its classes and the one line of `TextAndTie` (`OwnersFew`).

Assumed: finitely many lines, and classes in a form, days of filings from 0 on, and `find`'s last resort has a name of its own
(`EndingSearchAssumption`).

**PayoutsProofs.** All seven properties of `ending_value`: for any docket of filings with any days and labels, any worlds of
reads, answers, amounts and quotes, and any tolerance below the close itself. `RunsKeepTheRecord` shows that the runs implement the classifier's own
specification, so that what is proved of it carries over.

The classifier. `FilingsOnRecord` is the only invariant; the rest are facts about one answer or about two. `DistressHasEvidence` goes through
the rules of the classifier and of the end of an era one at a time (`RulesAreFounded`, `EraIsFounded`): each that gives a code of
a failure had a filing in its hand. For `RemovalDecides` and `LateReportKeeps` a filing arrives, and the lemmas `OtherFormsStay` and
`EvidenceStays` say which evidence a filing of another form leaves as it was (`SameEvidence`); then `RemovalDecides` follows
since a removal found before the revocation is asked first, and `LateReportKeeps` by answering both rule sets on that evidence.

The values. `ValuesMeetTheirClose` is proved from the inside out: `reconcile` keeps an amount near the close or nothing
(`ReconcileSettles`), so does a pass over the prices (`PassOneHolds`), so does the second pass with the terms beside it (`PassTwoHolds`), so does the
gate, which also leaves a mark whenever it kept nothing of what something states (`GateHolds`). A merger's record is made by one
such gate (`ValueIsGated`), and the table puts the parts of it together to the amount the gate held (`MergerWorth`).
`ParIsAlwaysDoubted` uses the mark. `ValuesFollowTheirRules` runs the table's and the contract's decisions side by side; for a drop
they would part over an answered print, but an answer stands only beside a request, and the print is requested
only when the rule is the print's (`PrintIsAsked`).

`AnswersMoveValuesOnly` needs an invariant of two runs. `Decided` says that a written row is what the pass on the run's
*own* closes decides, whatever was answered by then: its code, its reading of the terms and its requests are those of `EndOf` and `AskedOf`, which
read no answer. It is the proof that found the second exclusion in the property (a basket that is no package, section 5).

Assumed: the tolerance is 1 to 99 percent, quotes are positive, worlds are of the set `World`, days are integers.

Only model-checked:

- `StartsGoOn` and `PassEnds`: liveness under fairness is beyond the prover.
- Identity, over Eras, EraIssuers and FigiLines: the chains of names and links are RECURSIVE operators.

## 5. Observations on the code

What was met while modelling, at the line it concerns. Three disagreements with what the code says of itself are runs that TLC
shows violated, `filing_list_cut`, `line_follow_cut` and `identity_cut`, and findings in `PROJECT.json`. Where another property would be false of the
code, its comment names the exception, and the case is here.

**Filing lists and the record.**

- `_whole_list` tags the pages of its first look and of its second pass with the same main copy. A stop, or a failed
  page, between two pages of the second pass leaves an older page beside a newer one under one tag, and later
  reads take them for one list, without a flag (`edgar.py:875`; `filing_list_cut` shows a filing lost to a stop).
- A page that EDGAR adds behind the oldest one is overlooked when the first look fetches that one, which accepts a page shorter
  than listed (only the second pass tests it), in the second repetition, or when the page has been filled again to its count (`Overlooked`).
- After a flagged refresh, a read without a day remembers the new copy and keeps the old list, which then answers as
  fresh (`torn` in `UnflaggedIsFresh`).
- A query SEC rejects (400, 404) is an empty answer without a flag; a document found missing is never asked
  for again; `company_tickers.json` is never refreshed, though a docstring says weekly.

**Limit.** A pause is not looked at after the wait at the machine gate (`sec_limiter.py:77`).

**Resolver.**

- An answer reached through the rename map of a pinned ticker is saved as `rename`, though the pin's comment says it is never written.
- An override that was dropped stays in the memo; a saved answer whose `existed_by` check meets a lost read is replaced by a
  volatile one and leaves the file at the next flush.
- A miss remembered for one `since` answers a lookup with another: the key does not hold it.

**Identity.**

- `_fold_of` (`identity.py:877`) raises `IndexError` when the era kept no CUSIP; `resolve_with_identity_guard`
  (`security_master.py:946`) asks `is_placeholder(None)` when a detached line's last era has no issuer. The model stops there.
- A pair whose fold was refused is never judged by rule J, so the part split off can resolve back on the line.
- A detached era can come back to its composite through a sibling's link.
- An era that takes its issuer from another by a CUSIP link or an issuer code is not flagged when the read that failed was made for the other
  (`identity.py:1174`, against `:33`; run `identity_cut`). The other one is, which is `LossIsTold`.

**Line following.** Steps are found on the lines as the round began and taken on the lines as they have become:

- `holders_for` is asked again with the CUSIPs of the moment (`line_follow.py:1028`): a placeholder whose line took
  its next CUSIP earlier in the round attaches the one that the line still holds, against the comment at 1026 (run `line_follow_cut`).
- A line that took on observations and then folds in the same round passes on those it had when the round began. The others
  stay, while its CUSIPs and the rename go on (`strays.behind`).
- A placeholder that folds into a line already folded leaves its observations on a line that is gone (`strays.onto`).

The proofs show that there is no further case.

**Finder.** An ending by the older-than-window fallback is lost when any nearer Form 25, also of another class, is picked by the classifier.
One Form 25 can end more lines than it names classes in two cases. Worlds of `ending_search` have both, and `OneLinePerClass` names them:

- Two lines last sighted over 400 days before it, whose CUSIPs still settle: no line is alive, each is judged alone
  (`delistings.py:604`), and each takes it.
- The words beside a class name three of four lines without a letter, one without a hint and two whose fails rows hint at another class. The
  text gives the form to the first, and the two stay tied (`form25.py`, `_class_matches`), so that a tie broken by their trading
  gives it to one more.

**Classifier.** A lead-in by 2.04 and 3.01 becomes a transfer when the registrant keeps filing; a merger told only by a proxy or by
the scan back becomes one when a late 10-K arrives; 2.01 with 3.01 and no Form 25 is a merger before a late report and
a transfer after it. These are what `StandsFor` in `LateReportKeepsTheAnswer` leaves out. Its proof asked for two more conditions,
that the removal lies in the window around the end and that no bankruptcy came before the sale, and for a weaker conclusion:

- 2.01 with 3.01 becomes a transfer on a late report also *with* a Form 25, when that was filed more than 30 days before the end.
- A bankruptcy reported after the end and before the sale turns the late answer of a merger into a bankruptcy (470).
- A wind-down becomes a deficiency when another 8-K cites one: the end-of-era rules ask for the deficiency first.

**Stages 5 to 9h.**

- A registrant first found by the second search is read from a copy of any age (`pipeline.py:420`, whose comment
  at 416 says otherwise).
- Terms that 8b restated are lost when the handoff stage moves the day and `_read_again` values the merger again.
- An acquirer first found by `_read_again` is named in `delistings.csv` and not written to `securities.csv`.
- A continuation moved by `at_handoff` keeps the close of its old day.

**Terms and values.**

- 8b reads the flags of the gate pass *with* the caller's answers (`merger_value.py:200`, used at `pipeline.py:743`), though
  `merger_value.py:15` and `price_requests.py:5` say that a second run changes values only. An answered close can make the gate
  fail, 8b then makes the row a continuation, which asks no close, and the run stops at the answer it no longer requests.
- `price_requests.py:4` says the same of the prices asked. An answer with a further security that is no package is settled by the
  cash read beside it, which the gate holds against the answered close (`payout_gate.py:250`): when it falls the
  contract names a basket and asks for its other leg, when it did so before and the cash now stands, an answered leg
  stops the run (`LooseBasket` in `AnswersChangeValuesOnly`).
- A caller's row with a stock leg and no cash, beside a text read that fits: the table adds the text's cash, the
  contract publishes the stock leg alone.
- A failed sanity check with a close older than three days is always excused under assumed par, whose terminal value *is*
  that close (`verdict.py:63`, `dlret.py:286`); `no_acq_price` cannot apply to such a row.

**Truth rounds.** A case is skipped when all its errors are settled; with one of them
deleted from the ledger every other is settled again.

## 6. What is left out, and why

- Contents of filings, names, tickers and amounts, except where a property tells
  them apart. Formatting, parsing and logging: what a text says is a label or an input of the models.
- FilingList: one thread at a time reads the client; the sequential pass and the
  prefetch threads never run together (`warm` joins before the stage starts), and two threads
  on one URL are serialised by `_get_json`'s lock.
- IssuerRecord: the name index and SEC's ticker map, read once per run.
- EdgarSearches: a window before 2001, a search without the disk cache, the trimming of hits, `company_tickers.json`.
- Resolver: spellings of a stem, the live company search, lookups without a day, retired cache versions, the
  thread shadow, `frequency_candidates`; an unreadable ticker map raises, which is `Stop`.
- Identity: deleted symbols and settling fails rows, several composites for one CUSIP, stage 3's
  `unread` flags and the review rows; a lost company is lost for the whole run; the line follow is the steps it would take.
- LineFollow: the loop over derived lines with its memo, spellings of a symbol, the filter of three rows, an OpenFIGI
  outage; calendar and trading days are one unit.
- EndingSearch: groups of another CIK, a unit that is its issuer's stock, the dating of the last trade, exchange ranks.
- Classification: `classify_ticker`, which has no observed date, and the flags that qualify a record; a filing's report date
  is its filing day.
- PayoutGate and Payouts: one ending whose last day is known; amounts are whole units and 0 is none; how an acquirer's line is found, the
  exchange of the Shumway mark, confidence, tickers of further legs, the wording of a formula.
- LastTrade and EndingStages: days are sessions; one ticker; the Form 25s of a group are filed on one day; a feed that cannot be
  read; degraded flags, aborts, the override check. Which pair or successor a filing names is a choice.
- DelistingStage: which Form 25 is about the security (EndingSearch has it), the answer "listed today"; of the warm pass it
  keeps only that the copies it begins with are of any age.
- TruthRounds: opening the same round number twice (`records/` keeps the first
  opening's), and a rerun under an open round that is then closed; the first build of the truth file, legs, notes.
- The opening of the limiter's lock file; writers of the cache on other machines, which the code rules out.

Not modelled: file parsing and stores (`ftd_store`, MIDAS, halts), the clients of outside services (OpenFIGI, the
language model), readers of documents (`filing_search`, `listing_status`, the extractors), reports, command line tools and
the backtest's `handling`. They are pure input and output, services seen by their answers, or pure
functions with no stage that calls them; `PROJECT.json` gives the reason for each.

## 7. The plan

Modules still worth writing: History (ranges of tickers, CUSIPs and issuers in force; promise: the
ranges of a security are disjoint, cover its sightings, and a successor's begin where its predecessor's end), the table write of
stage 11 with its manifest, and the triage of review items with accepted decisions over runs.

Theorems still worth proving:

1. The four invariants of Identity, once the chains of names and links of Eras and FigiLines are stated without RECURSIVE
   operators, as the finder's loops are by `InTurn`.
2. The refinement of IssuerRecord's two reads by FilingList.
