----------------------------- MODULE TruthRounds -----------------------------
(* The diagnosis truth set and its loop of rounds (measurement/truth_set.py,
   loop_round.py, truth_update.py, diagnosis_truth.py, regression.py): a run of
   the pipeline is judged against the truth file and compared with the base
   commit's run, the errors the ledger has not seen are diagnosed by agents, and
   closing the round turns their records into truth changes, change-log entries
   and ledger rows.  The three files are replaced one rename at a time, and a
   process may be killed between two of them.

   One truth row per security, so a row's case_id is its security.  Its examined
   cell is the day of the ending that an ending_moved row refuses.  A contract
   row is a function on the compared columns, NoRow when the run has none.  The
   change log is kept per security; the legs, the notes, the seven columns of a
   row that nothing below reads, the renames of placeholders and the successors of
   a truth row's security are left out.
   A run is made while no round is open on the one before: an open round that is
   not closed first is abandoned. *)
EXTENDS Naturals, Sequences, FiniteSets

CONSTANTS
    Secs,        \* securities
    Columns,     \* the columns of contract/delistings.csv the regression report compares
    Scored,      \* SCORED: those a truth row scores
    Brief,       \* BRIEF_COLUMNS: those an agent sees of a whole row
    Runs,        \* bound: the runs the pipeline can give
    Base,        \* the base commit's run, one of them
    Truth0,      \* the truth file a sub-plan starts with
    Rulings,     \* the rulings the operator's scripts apply
    Label,       \* the sub-plan
    MaxRounds,   \* bound: the loop stops after so many rounds; in the last, the operator only closes it
    MaxExtras,   \* bound: kills, rulings, seeds and deleted ledger rows together
    CloseAgain   \* a round may be closed again after the operator deletes a ledger row

NoRow == << >>
NotScored == "*"
Cells == Scored \cup {"status", "fixed_by", "shape", "examined"}

ASSUME TruthRoundsAssumption ==
    /\ Brief \subseteq Scored /\ Scored \subseteq Columns
    /\ Columns \cap {"status", "fixed_by", "shape", "examined", "sec_id", "ending", "added", "removed"} = {}
    /\ Base \in Runs
    /\ \A r \in Runs : r.secs \subseteq Secs
                       /\ \A s \in Secs : r.rows[s] # NoRow => s \in r.secs /\ DOMAIN r.rows[s] = Columns
    /\ DOMAIN Truth0 \subseteq Secs
    /\ \A s \in DOMAIN Truth0 :
           /\ {"cells", "report"} \subseteq DOMAIN Truth0[s] /\ DOMAIN Truth0[s].cells = Cells
           /\ Truth0[s].report.round = 0     \* it cites no round of this sub-plan
    /\ \A r \in Rulings : r.sec \in DOMAIN Truth0 /\ DOMAIN r.cells \subseteq Cells
    /\ MaxRounds \in Nat /\ MaxExtras \in Nat /\ CloseAgain \in BOOLEAN

VARIABLES
    run,      \* output/: contract rows and the last ending's day by security, and the securities it holds
    truth,    \* the truth file: security -> [cells, report]
    log,      \* the change log: security -> sequence of entries [why, report, old, new]
    ledger,   \* diagnosed.csv: error key -> its rows [outcome, report], in order
    kept,     \* the kept reports, each named by its case: security and round
    round, cases, records,    \* the last round opened: its number, cases.csv, records/
    stage,    \* of the last round: "open"; "settled", closed with every case settled; "changed", the
              \* operator changed the truth set meanwhile; "idle", none is open on this run
    todo,     \* the files the running process has still to replace; none when none runs
    new,      \* what it replaces them with
    torn,     \* history: the rounds in which a process was killed between two renames
    held,     \* history: the cells the truth file has held
    extras    \* of the bound MaxExtras: how many so far

files == <<truth, log, ledger, kept>>
loop  == <<round, cases, records>>
vars  == <<run, truth, log, ledger, kept, round, cases, records, stage, todo, new, torn, held, extras>>

With(f, x, v) == [y \in DOMAIN f \cup {x} |-> IF y = x THEN v ELSE f[y]]

CellsOf(tr) == {<<s, f, tr[s].cells[f]>> : s \in DOMAIN tr, f \in Scored}

-------------------------------------------------------------------------------
(* The judge and the regression report *)

Cell(f, v) == [x \in {f} |-> v]
Restrict(row, fs) == [f \in fs |-> row[f]]

(* A ledger key: the error with both its sides, so another value is another error. *)
Mismatch(s, f, a, b)   == [kind |-> "mismatch", sec |-> s, field |-> f, a |-> a, b |-> b]
Regression(s, f, a, b) == [kind |-> "regression", sec |-> s, field |-> f, a |-> a, b |-> b]

(* judge_case: a missing security hides everything else; a no_ending row fails on
   any contract row, an ending_moved row when the last ending is the one it refuses;
   an ending row on no contract row, as any row with a scored cell, and else column by
   column. *)
Judge(s, row, r) ==
    LET found == r.rows[s]
        bad(f) == row.cells[f] \notin {NotScored, found[f]}
    IN  IF row.cells["status"] = "ruling_pending" THEN {}
        ELSE IF s \notin r.secs THEN {Mismatch(s, "sec_id", NoRow, NoRow)}
        ELSE IF row.cells["shape"] = "no_ending"
             THEN {Mismatch(s, "shape", NoRow, NoRow) : x \in {found} \ {NoRow}}
        ELSE {Mismatch(s, "shape", Cell("examined", d), NoRow) :
                  d \in {x \in {r.ends[s]} \ {""} : row.cells["shape"] = "ending_moved" /\ row.cells["examined"] = x}}
             \cup (IF found # NoRow
                   THEN {Mismatch(s, f, Cell(f, row.cells[f]), Cell(f, found[f])) : f \in {x \in Scored : bad(x)}}
                   ELSE {Mismatch(s, "ending", NoRow, NoRow) : x \in
                            {y \in {s} : row.cells["shape"] = "ending" \/ \E f \in Scored : row.cells[f] # NotScored}})

JudgeAll(tr, r) == UNION {Judge(s, tr[s], r) : s \in DOMAIN tr}

(* A regressed row the loop could not settle: it keeps showing in the report. *)
PendingRegression(row) == row.cells["status"] = "ruling_pending" /\ row.cells["fixed_by"] = "regression"

Excluded(tr) == {s \in DOMAIN tr : ~PendingRegression(tr[s])}

(* diff_contract, of one security *)
Diff(s, old, now) ==
    IF old = NoRow \/ now = NoRow
    THEN {Regression(s, "added", NoRow, Restrict(x, Brief)) : x \in {y \in {now} : old = NoRow /\ y # NoRow}}
         \cup {Regression(s, "removed", Restrict(x, Brief), NoRow) : x \in {y \in {old} : now = NoRow /\ y # NoRow}}
    ELSE {Regression(s, f, Cell(f, old[f]), Cell(f, now[f])) : f \in {x \in Columns : old[x] # now[x]}}

BuildReport(tr, r) == UNION {Diff(s, Base.rows[s], r.rows[s]) : s \in Secs \ Excluded(tr)}

NewErrors == (JudgeAll(truth, run) \cup BuildReport(truth, run)) \ DOMAIN ledger

-------------------------------------------------------------------------------
(* One round's diagnoses (truth_update.apply_round) *)

Fields(c) == {e.field : e \in c.errors}
ErrorOf(c, f) == CHOOSE e \in c.errors : e.field = f
Whole == {"added", "removed"}
Touching(c) == Fields(c) \cap (Scored \cup Whole)

(* The cases that still have an unsettled key, with and without a finished record. *)
Unsettled(c) == ~(c.errors \subseteq DOMAIN ledger)
Applied == {c \in cases : Unsettled(c) /\ c \in DOMAIN records}
Retried == {c \in cases : Unsettled(c) /\ c \notin DOMAIN records}

(* A faulty outcome: an unusable record's verdicts, and those that cite nothing, count. *)
FaultyOutcome(c, e) ==
    CASE records[c].right[e.field] = "new" -> "new_right"
      [] records[c].right[e.field] = "old" -> "old_right"
      [] records[c].right[e.field] = "truth" -> "truth_right"
      [] records[c].right[e.field] = "library" -> "library_right"
      [] OTHER -> "pending"

Outcome(c, e) ==
    LET rec == records[c]
        right == rec.right[e.field]
    IN  CASE rec.usable /\ right = "new" -> "new_right"
          [] rec.usable /\ right = "old" -> "old_right"
          [] rec.usable /\ right = "truth" -> "truth_right"
          [] rec.usable /\ right = "library" /\ e.field \in rec.cites -> "library_right"
          [] OTHER -> "pending"

SetCells(row, ch) == [row EXCEPT !.cells = [f \in Cells |-> IF f \in DOMAIN ch THEN ch[f] ELSE @[f]]]
Differing(row, ch) == {f \in DOMAIN ch : row.cells[f] # ch[f]}
MoveStatus(row, status) ==
    IF row.cells["status"] = status THEN row
    ELSE SetCells(row, [f \in {"status", "fixed_by"} |-> IF f = "status" THEN status ELSE ""])

(* A mismatch case: what the cited library values rewrite, and whether a verdict on
   the shape, the ending or the security sends the row to the operator. *)
Rewrites(c) ==
    LET right == {e \in c.errors : Outcome(c, e) = "library_right" /\ e.field \in Scored}
    IN  [f \in {e.field : e \in right} |-> ErrorOf(c, f).b[f]]
ToOperator(c) == \E e \in c.errors : Outcome(c, e) = "library_right" /\ e.field \notin Scored

MismatchRow(c) ==
    LET row == SetCells(truth[c.sec], Rewrites(c))
    IN  IF ToOperator(c) THEN MoveStatus(row, "ruling_pending") ELSE row

(* A regression case adds a row unless the security has one, no scored field or
   whole row is touched, or the run no longer holds the security. *)
Adds(c) ==
    /\ c.mode = "regression"
    /\ c.sec \notin DOMAIN truth /\ Touching(c) # {} /\ c.sec \in run.secs

Decided(c) == records[c].usable /\ \A f \in Touching(c) : records[c].right[f] \in {"old", "new"}
AllNew(c)  == \A f \in Touching(c) : records[c].right[f] = "new"

(* _regression_row: of a whole row the brief of the side found right; else the base
   run's row with each changed column on the side found right. *)
RegressionCells(c) ==
    LET old == Base.rows[c.sec]
        side == IF AllNew(c) THEN run.rows[c.sec] ELSE old
        whole == Fields(c) \cap Whole # {}
        brief(f) == IF f \in Brief /\ side # NoRow THEN side[f] ELSE NotScored
        cell(f) == IF f \notin Fields(c) THEN old[f]
                   ELSE IF records[c].right[f] = "new" THEN ErrorOf(c, f).b[f] ELSE ErrorOf(c, f).a[f]
    IN  [f \in Cells |->
            CASE f = "shape"    -> IF whole /\ side = NoRow THEN "no_ending" ELSE "ending"
              [] f = "status"   -> IF AllNew(c) THEN "pass" ELSE "known_wrong"
              [] f = "fixed_by" -> IF AllNew(c) THEN "" ELSE Label
              [] f = "examined" -> ""
              [] OTHER          -> IF whole THEN brief(f) ELSE cell(f)]

PendingCells ==
    [f \in Cells |-> CASE f = "shape"    -> "ending"
                       [] f = "status"   -> "ruling_pending"
                       [] f = "fixed_by" -> "regression"
                       [] f = "examined" -> ""
                       [] OTHER          -> NotScored]

AddedCells(c) == IF Decided(c) THEN RegressionCells(c) ELSE PendingCells

(* The reports the truth set goes on citing: of a case that changes it, and of one
   with a pending ledger row.  recite cites those where they are kept. *)
Changes(c) ==
    \/ Adds(c)
    \/ c.mode = "mismatch" /\ Differing(truth[c.sec], Rewrites(c)) # {}
    \/ c.mode = "mismatch" /\ ToOperator(c) /\ truth[c.sec].cells["status"] # "ruling_pending"

(* A faulty kept_reports: those only an open ledger row cites are left behind. *)
FaultyKeptReports == {c \in Applied : Changes(c)}

KeptReports == {c \in Applied : Changes(c) \/ \E e \in c.errors : Outcome(c, e) = "pending"}

NoReport == [round |-> 0, kept |-> TRUE]      \* cites nothing a round wrote
Cite(c)  == [round |-> round, kept |-> c \in KeptReports]

AddedRow(c) == [cells |-> AddedCells(c), report |-> Cite(c)]

(* A faulty round: only the case's own errors are settled. *)
FaultyNewRowKeys(c) == {}

(* new_row_keys: the mismatches the added row has are settled with it. *)
NewRowKeys(c) == IF Adds(c) /\ Decided(c) THEN Judge(c.sec, AddedRow(c), run) \ DOMAIN ledger ELSE {}

LedgerRows(c) ==
    [k \in c.errors \cup NewRowKeys(c) |->
        << [outcome |-> IF k \in c.errors THEN Outcome(c, k) ELSE "truth_right", report |-> Cite(c)] >>]

(* TruthSet.settle: rows are appended, each case's to its own keys. *)
Settle(lg, added) ==
    LET rows(fn, k) == IF k \in DOMAIN fn THEN fn[k] ELSE << >>
        of(k) == {a \in added : k \in DOMAIN a}
    IN  [k \in DOMAIN lg \cup UNION {DOMAIN a : a \in added} |->
            rows(lg, k) \o (IF of(k) = {} THEN << >> ELSE (CHOOSE a \in of(k) : TRUE)[k])]

(* One change-log entry: the fields one operation changed of a row. *)
Entry(why, report, row, fs, ch) ==
    IF fs = {} THEN << >>
    ELSE << [why |-> why, report |-> report, old |-> Restrict(row.cells, fs), new |-> Restrict(ch, fs)] >>
StatusEntry(why, report, row, status) ==
    LET ch == Cell("status", status) IN Entry(why, report, row, Differing(row, ch), ch)

Entries(c) ==
    IF Adds(c) THEN << [why |-> "round", report |-> Cite(c), old |-> NoRow,
                        new |-> Cell("(row)", AddedCells(c)["status"])] >>
    ELSE IF c.mode = "regression" THEN << >>
    ELSE LET row == truth[c.sec]
         IN  Entry("round", Cite(c), row, Differing(row, Rewrites(c)), Rewrites(c))
             \o (IF ToOperator(c) THEN StatusEntry("round", Cite(c), row, "ruling_pending") ELSE << >>)

CasesOf(s) == {c \in Applied : c.sec = s}
TheCase(s) == CHOOSE c \in CasesOf(s) : TRUE

RoundTruth ==
    [s \in DOMAIN truth \cup {c.sec : c \in {x \in Applied : Adds(x)}} |->
        IF CasesOf(s) = {} THEN truth[s]
        ELSE IF Adds(TheCase(s)) THEN AddedRow(TheCase(s))
        ELSE IF TheCase(s).mode = "mismatch" THEN MismatchRow(TheCase(s))
        ELSE truth[s]]
RoundLog == [s \in Secs |-> log[s] \o (IF CasesOf(s) = {} THEN << >> ELSE Entries(TheCase(s)))]
RoundLedger == Settle(ledger, {LedgerRows(c) : c \in Applied})

(* The flip rule *)
NowRight(tr) == {s \in DOMAIN tr : tr[s].cells["status"] = "known_wrong" /\ Judge(s, tr[s], run) = {}}
FlipTruth(tr) == [s \in DOMAIN tr |-> IF s \in NowRight(tr) THEN MoveStatus(tr[s], "pass") ELSE tr[s]]
(* A faulty flip: the log is left as it is. *)
FaultyFlipLog(tr, lg) == lg

FlipLog(tr, lg) ==
    [s \in Secs |-> lg[s] \o (IF s \in NowRight(tr) THEN StatusEntry("flip", NoReport, tr[s], "pass") ELSE << >>)]

-------------------------------------------------------------------------------
(* Writing (TruthSet.commit over replace_all_on_success).  Every file that changed
   is written beside its target; then they are renamed one at a time in this order.
   Before them a closing round copies the reports to keep, after them it writes its
   summary. *)

(* A faulty commit: the ledger is replaced first. *)
FaultyPlace(file) ==
    CASE file = "ledger" -> 1 [] file = "truth" -> 2 [] file = "log" -> 3 [] file = "summary" -> 4

Place(file) ==
    CASE file = "truth" -> 1 [] file = "log" -> 2 [] file = "ledger" -> 3 [] file = "summary" -> 4

First(file) == file \in todo /\ \A other \in todo : Place(file) <= Place(other)

Running == todo # {}
Extra == round < MaxRounds /\ extras < MaxExtras /\ extras' = extras + 1
Nothing == [truth |-> Truth0, log |-> [s \in Secs |-> << >>], ledger |-> << >>, kept |-> {}, stage |-> "idle", all |-> {}]

Commit(tr, lg, ld, kp, st) ==
    /\ todo' = {"summary"} \cup (IF tr # truth THEN {"truth"} ELSE {}) \cup (IF lg # log THEN {"log"} ELSE {})
                           \cup (IF ld # ledger THEN {"ledger"} ELSE {})
    /\ new' = [truth |-> tr, log |-> lg, ledger |-> ld, kept |-> kp, stage |-> st, all |-> todo']

CopyReports ==
    /\ Running /\ kept # new.kept /\ kept' = new.kept
    /\ UNCHANGED <<run, truth, log, ledger, loop, stage, todo, new, torn, held, extras>>

Replace ==
    /\ Running /\ kept = new.kept
    /\ \E file \in todo :
        /\ First(file)
        /\ todo' = todo \ {file} /\ new' = IF todo' = {} THEN Nothing ELSE new
        /\ truth'  = IF file = "truth" THEN new.truth ELSE truth
        /\ log'    = IF file = "log" THEN new.log ELSE log
        /\ ledger' = IF file = "ledger" THEN new.ledger ELSE ledger
        /\ stage'  = IF file = "summary" THEN new.stage ELSE stage
    /\ held'   = held \cup CellsOf(truth')
    /\ UNCHANGED <<run, kept, loop, torn, extras>>

(* The process is killed, or a rename fails: what it renamed stays. *)
Crash ==
    /\ Running /\ Extra
    /\ todo' = {} /\ new' = Nothing
    /\ torn' = IF todo # new.all /\ todo # {"summary"} THEN torn \cup {round} ELSE torn
    /\ UNCHANGED <<run, truth, log, ledger, kept, loop, stage, held>>

-------------------------------------------------------------------------------
(* The operator's steps *)

Before == ~Running /\ round < MaxRounds

(* A full run of the pipeline: the open round is of the run before. *)
Rerun ==
    /\ Before
    /\ run' \in Runs \ {run}
    /\ stage' = "idle" /\ cases' = {} /\ records' = << >>
    /\ UNCHANGED <<truth, log, ledger, kept, round, todo, new, torn, held, extras>>

(* Round.open *)
Open ==
    /\ Before
    /\ round' = round + 1
    /\ cases' = {[mode |-> e.kind, sec |-> e.sec,
                  errors |-> {x \in NewErrors : x.kind = e.kind /\ x.sec = e.sec}] : e \in NewErrors}
    /\ records' = << >> /\ stage' = "open"
    /\ UNCHANGED <<run, truth, log, ledger, kept, todo, new, torn, held, extras>>

(* The diagnose and verify agents finish a case; again for a report that is missing
   or, where a round may be closed again, for an error that is to be retried.  Bound:
   a record that is not usable takes every new value and cites for it, since its
   verdicts are not read; only it may lack a report; a mismatch for which neither
   side is right stays pending as one without a citation does. *)
Sides(mode) == IF mode = "mismatch" THEN {"truth", "library"} ELSE {"old", "new", "neither"}
Verdict(mode) == IF mode = "mismatch" THEN "library" ELSE "new"
Records(c) ==
    {rec \in [usable : {TRUE}, report : {TRUE}, right : [Fields(c) -> Sides(c.mode)], cites : SUBSET Fields(c)] :
        \A f \in rec.cites : rec.right[f] = "library"}
    \cup [usable : {FALSE}, report : BOOLEAN, right : [Fields(c) -> {Verdict(c.mode)}], cites : {Fields(c)}]
Diagnose ==
    /\ ~Running /\ stage # "idle"
    /\ \E c \in cases : \E rec \in Records(c) :
        /\ c \in DOMAIN records => ~records[c].report \/ (CloseAgain /\ stage = "changed")
        /\ records' = With(records, c, rec)
    /\ UNCHANGED <<run, truth, log, ledger, kept, round, cases, stage, todo, new, torn, held, extras>>

(* Round.close; it raises before writing anything when a report to keep is missing. *)
Close ==
    /\ ~Running /\ stage # "idle"
    /\ \A c \in KeptReports : records[c].report
    /\ Commit(FlipTruth(RoundTruth), FlipLog(RoundTruth, RoundLog), RoundLedger,
              kept \cup {<<c.sec, round>> : c \in KeptReports},
              IF Retried = {} /\ stage # "changed" THEN "settled" ELSE stage)
    /\ UNCHANGED <<run, files, loop, stage, torn, held, extras>>

(* scorecard.flip between rounds *)
Flip ==
    /\ Before /\ NowRight(truth) # {}
    /\ Commit(FlipTruth(truth), FlipLog(truth, log), ledger, kept, stage)
    /\ UNCHANGED <<run, files, loop, stage, torn, held, extras>>

(* Loop.seed: every present mismatch is known; before the first round. *)
Seed ==
    /\ ~Running /\ Extra /\ round = 0
    /\ LET known == [k \in JudgeAll(truth, run) \ DOMAIN ledger |-> << [outcome |-> "known", report |-> NoReport] >>]
       IN  Commit(truth, log, Settle(ledger, {known}), kept, stage)
    /\ UNCHANGED <<run, files, loop, stage, torn, held>>

(* TruthSet.rule, by a script that may be run again: a row its owner does not own
   is left alone, and so is a cell the change log records this ruling setting. *)
Owned(r) ==
    LET by == truth[r.sec].cells["fixed_by"]
    IN  \/ r.owner = "" \/ by = r.owner
        \/ "fixed_by" \in DOMAIN r.cells /\ r.cells["fixed_by"] = by
Done(r) == {f \in DOMAIN r.cells : \E i \in 1..Len(log[r.sec]) :
                LET e == log[r.sec][i]
                IN  e.why = r.id /\ f \in DOMAIN e.new /\ e.new[f] = r.cells[f]}
Rule(r) ==
    LET row == truth[r.sec]
        fs  == Differing(row, r.cells) \ Done(r)
    IN  /\ Before /\ Extra /\ Owned(r) /\ fs # {}
        /\ Commit(With(truth, r.sec, SetCells(row, Restrict(r.cells, fs))),
                  [log EXCEPT ![r.sec] = @ \o Entry(r.id, NoReport, row, fs, r.cells)], ledger, kept,
                  IF stage = "idle" THEN "idle" ELSE "changed")
        /\ stage' = IF stage = "idle" THEN "idle" ELSE "changed"
        /\ UNCHANGED <<run, files, loop, torn, held>>

Has(k, out) == \E i \in DOMAIN ledger[k] : ledger[k][i].outcome = out
Pending == {k \in DOMAIN ledger : Has(k, "pending")}

(* The operator deletes an error's pending row, to have it diagnosed again. *)
DeletePending ==
    /\ Before /\ Extra
    /\ \E k \in Pending : ledger' = [x \in DOMAIN ledger \ {k} |-> ledger[x]]
    /\ stage' = IF stage # "idle" /\ CloseAgain THEN "changed" ELSE "idle"
    /\ UNCHANGED <<run, truth, log, kept, loop, todo, new, torn, held>>

Init ==
    /\ run = Base /\ truth = Truth0 /\ log = [s \in Secs |-> << >>] /\ ledger = << >> /\ kept = {}
    /\ round = 0 /\ cases = {} /\ records = << >> /\ stage = "idle"
    /\ todo = {} /\ new = Nothing
    /\ torn = {} /\ held = CellsOf(truth) /\ extras = 0

Next ==
    \/ Rerun \/ Open \/ Diagnose \/ Close \/ Flip \/ Seed \/ DeletePending
    \/ \E r \in Rulings : Rule(r)
    \/ CopyReports \/ Replace \/ Crash

Spec == Init /\ [][Next]_vars

-------------------------------------------------------------------------------
(* Properties *)

(* A truth row, a change-log entry or a pending ledger row never cites a report that
   stays in a round's working folder, and the report it cites is there: the reports
   are copied before the commit, so also when a process is killed anywhere in it
   (Round.close, kept_reports, recite). *)
Cited(s, rep) == rep.round = 0 \/ (rep.kept /\ <<s, rep.round>> \in kept)
CitedReportsAreKept ==
    /\ \A s \in DOMAIN truth : Cited(s, truth[s].report)
    /\ \A s \in Secs : \A i \in 1..Len(log[s]) : Cited(s, log[s][i].report)
    /\ \A k \in DOMAIN ledger : \A i \in DOMAIN ledger[k] :
           ledger[k][i].outcome = "pending" => Cited(k.sec, ledger[k][i].report)

(* The ledger never runs ahead of the truth file, wherever a process is killed: an
   error settled for the library was written into the truth row, and a regression of
   a scored field that was settled has its truth row.  Otherwise the error would
   never be diagnosed again and its answer lost (the order of the renames). *)
SettledIsApplied ==
    \A k \in DOMAIN ledger : k.field \in Scored =>
        /\ Has(k, "library_right") => <<k.sec, k.field, k.b[k.field]>> \in held
        /\ k.kind = "regression" => k.sec \in DOMAIN truth

(* While no process was killed between two renames, the change log explains every
   truth cell: its entries chain from the first value to the one in the file. *)
Touches(entry, f) == f \in DOMAIN entry.old
Links(lg, f) ==
    \A i, j \in 1..Len(lg) :
        /\ i < j /\ Touches(lg[i], f) /\ Touches(lg[j], f)
        /\ \A m \in 1..Len(lg) : i < m /\ m < j => ~Touches(lg[m], f)
        => lg[i].new[f] = lg[j].old[f]
Ends(lg, f, v) ==
    \A i \in 1..Len(lg) :
        Touches(lg[i], f) /\ (\A m \in 1..Len(lg) : i < m => ~Touches(lg[m], f)) => lg[i].new[f] = v
Starts(lg, f, u, v) ==
    /\ (\A i \in 1..Len(lg) : ~Touches(lg[i], f)) => u = v
    /\ \A i \in 1..Len(lg) :
           Touches(lg[i], f) /\ (\A m \in 1..Len(lg) : m < i => ~Touches(lg[m], f)) => lg[i].old[f] = u
Explained(tr, lg) ==
    \A s \in DOMAIN tr, f \in Scored \cup {"status"} :
        /\ Links(lg[s], f) /\ Ends(lg[s], f, tr[s].cells[f])
        /\ s \in DOMAIN Truth0 => Starts(lg[s], f, Truth0[s].cells[f], tr[s].cells[f])
LogExplainsTruth == ~Running /\ torn = {} => Explained(truth, log)

(* The loop ends: after a round is closed with a record for each case, the same run
   has no error the ledger has not seen, the rows the round added included
   (new_row_keys).  A process killed between two renames of this round loses that. *)
QuietAfterClose == stage = "settled" /\ ~Running /\ round \notin torn => NewErrors = {}

(* The truth never drifts toward what the library gives: a step puts a value of this
   run into a scored cell only when a usable record of the open round found that very
   value right, citing a filing where it overrides the truth, or a ruling says so. *)
Found(s, f, v) ==
    \E c \in DOMAIN records : \E e \in c.errors :
        /\ c.sec = s /\ records[c].usable
        /\ \/ c.mode = "mismatch" /\ e.field = f /\ e.b[f] = v
              /\ records[c].right[f] = "library" /\ f \in records[c].cites
           \/ c.mode = "regression" /\ e.field \in {f} \cup Whole
              /\ f \in DOMAIN e.b /\ e.b[f] = v /\ records[c].right[e.field] = "new"
Ruled(s, f, v) == \E r \in Rulings : r.sec = s /\ f \in DOMAIN r.cells /\ r.cells[f] = v
FromBase(s, f, v) == Base.rows[s] # NoRow /\ Base.rows[s][f] = v
TruthNeverDrifts ==
    [][\A s \in DOMAIN truth', f \in Scored :
        LET v == truth'[s].cells[f]
        IN  \/ s \in DOMAIN truth /\ v = truth[s].cells[f]
            \/ s \notin DOMAIN truth /\ (v = NotScored \/ FromBase(s, f, v))
            \/ Found(s, f, v) \/ Ruled(s, f, v)]_vars

===============================================================================
