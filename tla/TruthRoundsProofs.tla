--------------------------- MODULE TruthRoundsProofs ---------------------------
(* That the truth set keeps its promises, for any securities, columns, runs, truth file,
   rulings and number of rounds, and wherever a process is killed.  One invariant holds
   both sides of a commit to them: the files on disk, and the files the running process
   is renaming into place; between two renames a promise is about the mixture only where
   the order of the renames makes it so. *)
EXTENDS TruthRounds, TLAPS

-------------------------------------------------------------------------------
(* The invariant.  First the shapes of the files, ... *)

IsSeq(l) == l \in Seq({l[i] : i \in DOMAIN l})

IsRow(row)    == {"cells", "report"} \subseteq DOMAIN row /\ DOMAIN row.cells = Cells
IsTruth(tr)   == DOMAIN tr \subseteq Secs /\ \A s \in DOMAIN tr : IsRow(tr[s])
IsLog(lg)     == DOMAIN lg = Secs /\ \A s \in Secs : IsSeq(lg[s])
IsLedger(ld)  == \A k \in DOMAIN ld : IsSeq(ld[k])

Shapes ==
    /\ run \in Runs /\ todo \subseteq {"truth", "log", "ledger", "summary"}
    /\ IsTruth(truth) /\ IsLog(log) /\ IsLedger(ledger)
    /\ DOMAIN Truth0 \subseteq DOMAIN truth

(* ... what a commit still has to do, ... *)
Underway ==
    Running =>
        /\ "summary" \in todo /\ todo \subseteq new.all
        /\ "truth" \notin todo => truth = new.truth
        /\ "log" \notin todo => log = new.log
        /\ "ledger" \notin todo => ledger = new.ledger
        /\ IsTruth(new.truth) /\ IsLog(new.log) /\ IsLedger(new.ledger)
        /\ DOMAIN truth \subseteq DOMAIN new.truth /\ kept \subseteq new.kept

(* ... and the round: one case a security, its errors one a column, as the judge and the
   report gave them, and the verdicts that a case's kind allows. *)
CaseRight(c) ==
    /\ c.mode \in {"mismatch", "regression"} /\ c.sec \in Secs /\ c.errors # {}
    /\ \A e \in c.errors : e.kind = c.mode /\ e.sec = c.sec
    /\ \A d, e \in c.errors : d.field = e.field => d = e
    /\ c.mode = "mismatch" =>
           /\ c.sec \in DOMAIN truth
           /\ \A e \in c.errors : e.field \in Scored =>
                  run.rows[c.sec] # NoRow /\ e.b = Cell(e.field, run.rows[c.sec][e.field])
    /\ c.mode = "regression" => c.errors \subseteq Diff(c.sec, Base.rows[c.sec], run.rows[c.sec])
RoundRight ==
    /\ \A c \in cases : CaseRight(c)
    /\ \A c, d \in cases : c.sec = d.sec => c = d
    /\ DOMAIN records \subseteq cases
    /\ \A c \in DOMAIN records : records[c].usable => \A f \in Fields(c) : records[c].right[f] \in Sides(c.mode)

(* What every pair of files promises.  Reports are kept before anything cites them. *)
CitedIn(kp, s, rep) == rep.round = 0 \/ (rep.kept /\ <<s, rep.round>> \in kp)
TruthCites(tr, kp)  == \A s \in DOMAIN tr : CitedIn(kp, s, tr[s].report)
LogCites(lg, kp)    == \A s \in Secs : \A i \in 1..Len(lg[s]) : CitedIn(kp, s, lg[s][i].report)
LedgerCites(ld, kp) == \A k \in DOMAIN ld : \A i \in DOMAIN ld[k] :
                           ld[k][i].outcome = "pending" => CitedIn(kp, k.sec, ld[k][i].report)
CitesKept ==
    /\ TruthCites(truth, kept) /\ LogCites(log, kept) /\ LedgerCites(ledger, kept)
    /\ Running => TruthCites(new.truth, new.kept) /\ LogCites(new.log, new.kept) /\ LedgerCites(new.ledger, new.kept)

(* What the ledger has settled is in the truth, or was. *)
SettledIn(tr, ld) ==
    \A k \in DOMAIN ld : k.field \in Scored =>
        /\ (\E i \in DOMAIN ld[k] : ld[k][i].outcome = "library_right") =>
               <<k.sec, k.field, k.b[k.field]>> \in held \cup CellsOf(tr)
        /\ k.kind = "regression" => k.sec \in DOMAIN tr
SettledFirst ==
    /\ CellsOf(truth) \subseteq held
    /\ SettledIn(truth, ledger) /\ (Running => SettledIn(new.truth, new.ledger))

(* Before the first rename the files are those of the last commit, after the last those
   of this one. *)
Untouched == ~Running \/ todo = new.all

Traced(tr, lg) == Explained(tr, lg) /\ \A s \in Secs \ DOMAIN tr : lg[s] = << >>
LogTraced ==
    torn = {} => /\ Untouched => Traced(truth, log)
                 /\ Running => Traced(new.truth, new.log)

(* Every error of this run is one of the round's, or settled. *)
Errors(tr) == JudgeAll(tr, run) \cup BuildReport(tr, run)
Known(tr, ld) == Errors(tr) \subseteq DOMAIN ld \cup UNION {c.errors : c \in cases}
AllSettled(ld) == \A c \in cases : c.errors \subseteq DOMAIN ld
Live(st) == st # "idle" /\ st # "changed"
ErrorsKnown ==
    /\ Live(stage) /\ round \notin torn => /\ Untouched => Known(truth, ledger)
                                           /\ Running => Known(new.truth, new.ledger)
    /\ stage = "settled" => AllSettled(ledger)
    /\ Running => /\ Live(new.stage) => Live(stage)
                  /\ stage = "settled" => new.stage = "settled"
                  /\ new.stage = "settled" => AllSettled(new.ledger)

(* A value about to be written has its reason. *)
Warranted(s, f, v) ==
    \/ s \in DOMAIN truth /\ v = truth[s].cells[f]
    \/ s \notin DOMAIN truth /\ (v = NotScored \/ FromBase(s, f, v))
    \/ Found(s, f, v) \/ Ruled(s, f, v)
AllWarranted(tr) == \A s \in DOMAIN tr, f \in Scored : Warranted(s, f, tr[s].cells[f])
NewWarranted == Running => AllWarranted(new.truth)

TruthInv == /\ Shapes /\ Underway /\ RoundRight
            /\ CitesKept /\ SettledFirst /\ LogTraced /\ ErrorsKnown /\ NewWarranted

-------------------------------------------------------------------------------
(* Sequences, and the part of a change log that explains one cell. *)

LEMMA Short ==
    /\ IsSeq(<< >>) /\ Len(<< >>) = 0
    /\ \A e : IsSeq(<<e>>) /\ Len(<<e>>) = 1 /\ <<e>>[1] = e
  BY DEF IsSeq

LEMMA Typed == ASSUME NEW A, NEW l \in Seq(A) PROVE IsSeq(l)
  BY DEF IsSeq

LEMMA Joined ==
    ASSUME NEW l, NEW m, IsSeq(l), IsSeq(m)
    PROVE  /\ IsSeq(l \o m) /\ Len(l) \in Nat /\ Len(m) \in Nat /\ Len(l \o m) = Len(l) + Len(m)
           /\ \A i \in 1..Len(l) : (l \o m)[i] = l[i]
           /\ \A i \in 1..Len(m) : (l \o m)[Len(l) + i] = m[i]
<1> DEFINE A == {l[i] : i \in DOMAIN l}
           B == {m[i] : i \in DOMAIN m}
<1>1. l \in Seq(A) /\ m \in Seq(B)
  BY DEF IsSeq
<1> HIDE DEF A, B
<1>2. \A S, T : S \subseteq T => \A s \in Seq(S) : s \in Seq(T)
  OBVIOUS
<1>3. l \in Seq(A \cup B) /\ m \in Seq(A \cup B)
  BY <1>1, <1>2
<1>4. l \o m \in Seq(A \cup B)
  BY <1>3
<1>5. IsSeq(l \o m)
  BY <1>4, Typed
<1>6. Len(l) \in Nat /\ Len(m) \in Nat /\ Len(l \o m) = Len(l) + Len(m)
  BY <1>3
<1>7. \A i \in 1..Len(l) : (l \o m)[i] = l[i]
  BY <1>3, <1>6
<1>8. \A i \in 1..Len(m) : (l \o m)[Len(l) + i] = m[i]
  BY <1>3, <1>6
<1> QED
  BY <1>5, <1>6, <1>7, <1>8

(* What lies in one of two joined sequences. *)
LEMMA JoinedAt ==
    ASSUME NEW l, NEW m, IsSeq(l), IsSeq(m), NEW i \in 1..Len(l \o m)
    PROVE  \/ i \in 1..Len(l) /\ (l \o m)[i] = l[i]
           \/ i - Len(l) \in 1..Len(m) /\ (l \o m)[i] = m[i - Len(l)]
<1>1. Len(l) \in Nat /\ Len(m) \in Nat /\ Len(l \o m) = Len(l) + Len(m)
  BY Joined
<1>2. CASE i <= Len(l)
  BY <1>1, <1>2, Joined
<1>3. CASE i > Len(l)
  <2>1. i - Len(l) \in 1..Len(m) /\ Len(l) + (i - Len(l)) = i
    BY <1>1, <1>3
  <2> QED
    BY <2>1, Joined
<1> QED
  BY <1>1, <1>2, <1>3

Explains(l, f, u, v) == Links(l, f) /\ Ends(l, f, v) /\ Starts(l, f, u, v)

LEMMA NothingExplains == \A f, v : Explains(<< >>, f, v, v)
  BY Short DEF Explains, Links, Ends, Starts

LEMMA OneExplains ==
    ASSUME NEW e, NEW f, NEW u, NEW v,
           Touches(e, f) => e.old[f] = u /\ e.new[f] = v,
           ~Touches(e, f) => u = v
    PROVE  Explains(<<e>>, f, u, v)
  BY Short DEF Explains, Links, Ends, Starts

(* What explains a cell up to a value, and then from it, explains it throughout. *)
LEMMA JoinedExplain ==
    ASSUME NEW l, NEW m, IsSeq(l), IsSeq(m), NEW f, NEW v, NEW w,
           Links(l, f), Ends(l, f, v), Explains(m, f, v, w)
    PROVE  /\ Links(l \o m, f) /\ Ends(l \o m, f, w)
           /\ \A u : Starts(l, f, u, v) => Starts(l \o m, f, u, w)
<1> DEFINE n == Len(l)
           k == Len(m)
           lm == l \o m
<1>1. n \in Nat /\ k \in Nat /\ Len(lm) = n + k
  BY Joined
<1>2. \A i \in 1..n : i \in 1..Len(lm) /\ lm[i] = l[i]
  BY <1>1, Joined
<1>3. \A i \in 1..k : n + i \in 1..Len(lm) /\ lm[n + i] = m[i]
  BY <1>1, Joined
<1>4. \A i \in 1..Len(lm) : i \in 1..n \/ (i - n \in 1..k /\ n + (i - n) = i)
  BY <1>1
<1> HIDE DEF n, k, lm
<1>5. Links(lm, f)
  <2> SUFFICES ASSUME NEW i \in 1..Len(lm), NEW j \in 1..Len(lm), i < j, Touches(lm[i], f), Touches(lm[j], f),
                      \A x \in 1..Len(lm) : i < x /\ x < j => ~Touches(lm[x], f)
               PROVE  lm[i].new[f] = lm[j].old[f]
    BY DEF Links
  <2>1. CASE i \in 1..n /\ j \in 1..n
    BY <2>1, <1>1, <1>2 DEF Links, n
  <2>2. CASE i \in 1..n /\ j - n \in 1..k
    <3>1. \A x \in 1..n : i < x => ~Touches(l[x], f)
      BY <2>2, <1>1, <1>2
    <3>2. l[i].new[f] = v
      BY <2>2, <3>1, <1>2 DEF Ends, n
    <3>3. \A x \in 1..k : x < j - n => ~Touches(m[x], f)
      BY <2>2, <1>1, <1>3
    <3>4. Touches(m[j - n], f) /\ lm[j] = m[j - n]
      BY <2>2, <1>1, <1>3, <1>4
    <3>5. m[j - n].old[f] = v
      BY <2>2, <3>3, <3>4 DEF Explains, Starts, k
    <3> QED
      BY <2>2, <3>2, <3>4, <3>5, <1>2
  <2>3. CASE i - n \in 1..k /\ j - n \in 1..k
    <3>1. \A x \in 1..k : i - n < x /\ x < j - n => ~Touches(m[x], f)
      BY <2>3, <1>1, <1>3
    <3>2. lm[i] = m[i - n] /\ lm[j] = m[j - n] /\ i - n < j - n
      BY <2>3, <1>1, <1>3, <1>4
    <3> QED
      BY <2>3, <3>1, <3>2 DEF Explains, Links, k
  <2> QED
    BY <2>1, <2>2, <2>3, <1>1, <1>4
<1>6. Ends(lm, f, w)
  <2> SUFFICES ASSUME NEW i \in 1..Len(lm), Touches(lm[i], f),
                      \A x \in 1..Len(lm) : i < x => ~Touches(lm[x], f)
               PROVE  lm[i].new[f] = w
    BY DEF Ends
  <2>1. CASE i \in 1..n
    <3>1. \A x \in 1..n : i < x => ~Touches(l[x], f)
      BY <2>1, <1>1, <1>2
    <3>2. \A x \in 1..k : ~Touches(m[x], f)
      BY <2>1, <1>1, <1>3
    <3> QED
      BY <2>1, <3>1, <3>2, <1>2 DEF Ends, Explains, Starts, n, k
  <2>2. CASE i - n \in 1..k
    <3>1. \A x \in 1..k : i - n < x => ~Touches(m[x], f)
      BY <2>2, <1>1, <1>3
    <3>2. lm[i] = m[i - n]
      BY <2>2, <1>1, <1>3, <1>4
    <3> QED
      BY <2>2, <3>1, <3>2 DEF Ends, Explains, k
  <2> QED
    BY <2>1, <2>2, <1>4
<1>7. ASSUME NEW u, Starts(l, f, u, v) PROVE Starts(lm, f, u, w)
  <2>1. ASSUME \A i \in 1..Len(lm) : ~Touches(lm[i], f) PROVE u = w
    <3>1. (\A i \in 1..n : ~Touches(l[i], f)) /\ (\A i \in 1..k : ~Touches(m[i], f))
      BY <2>1, <1>2, <1>3
    <3> QED
      BY <3>1, <1>7 DEF Starts, Explains, n, k
  <2>2. ASSUME NEW i \in 1..Len(lm), Touches(lm[i], f), \A x \in 1..Len(lm) : x < i => ~Touches(lm[x], f)
        PROVE  lm[i].old[f] = u
    <3>1. CASE i \in 1..n
      BY <3>1, <2>2, <1>1, <1>2, <1>7 DEF Starts, n
    <3>2. CASE i - n \in 1..k
      <4>1. \A x \in 1..n : ~Touches(l[x], f)
        BY <3>2, <2>2, <1>1, <1>2
      <4>2. u = v
        BY <4>1, <1>7 DEF Starts, n
      <4>3. \A x \in 1..k : x < i - n => ~Touches(m[x], f)
        BY <3>2, <2>2, <1>1, <1>3
      <4>4. lm[i] = m[i - n]
        BY <3>2, <1>1, <1>3, <1>4
      <4> QED
        BY <3>2, <2>2, <4>2, <4>3, <4>4 DEF Explains, Starts, k
    <3> QED
      BY <3>1, <3>2, <1>4
  <2> QED
    BY <2>1, <2>2 DEF Starts
<1> QED
  BY <1>5, <1>6, <1>7 DEF lm

-------------------------------------------------------------------------------
(* Truth rows, log entries and the ledger. *)

LEMMA Names ==
    /\ "status" \in Cells /\ "fixed_by" \in Cells /\ "shape" \in Cells /\ "examined" \in Cells
    /\ Scored \subseteq Columns
    /\ \A f \in Scored : f \in Cells /\ f # "status" /\ f # "fixed_by" /\ f # "shape" /\ f # "examined"
    /\ \A f \in Columns : f # "sec_id" /\ f # "ending" /\ f # "shape" /\ f # "added" /\ f # "removed"
<1>1. Scored \subseteq Columns
        /\ Columns \cap {"status", "fixed_by", "shape", "examined", "sec_id", "ending", "added", "removed"} = {}
  BY TruthRoundsAssumption
<1> QED
  BY <1>1 DEF Cells

LEMMA RowSet ==
    ASSUME NEW row, IsRow(row), NEW ch
    PROVE  /\ IsRow(SetCells(row, ch)) /\ SetCells(row, ch).report = row.report
           /\ \A f \in Cells : SetCells(row, ch).cells[f] = IF f \in DOMAIN ch THEN ch[f] ELSE row.cells[f]
  BY DEF IsRow, SetCells

(* A row with another status: nothing else changes but who fixed it, and nothing at all
   when the status is the same. *)
OnlyStatus(old, row, status) ==
    /\ IsRow(row) /\ row.report = old.report /\ row.cells["status"] = status
    /\ \A f \in Cells \ {"status", "fixed_by"} : row.cells[f] = old.cells[f]
    /\ old.cells["status"] = status => row = old
    /\ old.cells["status"] # status => row.cells["fixed_by"] = ""

LEMMA StatusMoved ==
    ASSUME NEW row, IsRow(row), NEW status
    PROVE  OnlyStatus(row, MoveStatus(row, status), status)
<1> DEFINE ch == [f \in {"status", "fixed_by"} |-> IF f = "status" THEN status ELSE ""]
<1>1. DOMAIN ch = {"status", "fixed_by"} /\ ch["status"] = status /\ ch["fixed_by"] = ""
  OBVIOUS
<1>2. MoveStatus(row, status) = IF row.cells["status"] = status THEN row ELSE SetCells(row, ch)
  BY DEF MoveStatus
<1> HIDE DEF ch
<1>3. CASE row.cells["status"] = status
  BY <1>2, <1>3 DEF OnlyStatus
<1>4. CASE row.cells["status"] # status
  <2>1. /\ IsRow(SetCells(row, ch)) /\ SetCells(row, ch).report = row.report
        /\ \A f \in Cells : SetCells(row, ch).cells[f] = IF f \in DOMAIN ch THEN ch[f] ELSE row.cells[f]
    BY RowSet
  <2> QED
    BY <2>1, <1>1, <1>2, <1>4, Names DEF OnlyStatus
<1> QED
  BY <1>3, <1>4

LEMMA EntryIs ==
    ASSUME NEW why, NEW rep, NEW row, NEW fs, NEW ch
    PROVE  /\ IsSeq(Entry(why, rep, row, fs, ch))
           /\ \A i \in 1..Len(Entry(why, rep, row, fs, ch)) : fs # {} /\ Entry(why, rep, row, fs, ch)[i].report = rep
  BY Short DEF Entry

LEMMA EntryExplains ==
    ASSUME NEW why, NEW rep, NEW row, NEW fs, NEW ch, NEW f, NEW v,
           v = IF f \in fs THEN ch[f] ELSE row.cells[f]
    PROVE  Explains(Entry(why, rep, row, fs, ch), f, row.cells[f], v)
<1> DEFINE e == [why |-> why, report |-> rep, old |-> Restrict(row.cells, fs), new |-> Restrict(ch, fs)]
<1>1. Touches(e, f) <=> f \in fs
  BY DEF Touches, Restrict
<1>2. f \in fs => e.old[f] = row.cells[f] /\ e.new[f] = ch[f]
  BY DEF Restrict
<1>3. Entry(why, rep, row, fs, ch) = IF fs = {} THEN << >> ELSE <<e>>
  BY DEF Entry
<1> HIDE DEF e
<1>4. CASE fs = {}
  BY <1>3, <1>4, NothingExplains
<1>5. CASE fs # {}
  <2>1. Explains(<<e>>, f, row.cells[f], v)
    BY <1>1, <1>2, OneExplains
  <2> QED
    BY <2>1, <1>3, <1>5
<1> QED
  BY <1>4, <1>5

LEMMA StatusExplains ==
    ASSUME NEW why, NEW rep, NEW row, IsRow(row), NEW status, NEW f \in Scored \cup {"status"}
    PROVE  Explains(StatusEntry(why, rep, row, status), f, row.cells[f], MoveStatus(row, status).cells[f])
<1> DEFINE ch == Cell("status", status)
           fs == Differing(row, ch)
           v == MoveStatus(row, status).cells[f]
<1>1. DOMAIN ch = {"status"} /\ ch["status"] = status
  BY DEF Cell
<1>2. fs = IF row.cells["status"] # status THEN {"status"} ELSE {}
  BY <1>1 DEF Differing
<1>3. v = IF f \in fs THEN ch[f] ELSE row.cells[f]
  <2>0. OnlyStatus(row, MoveStatus(row, status), status)
    BY StatusMoved
  <2>1. CASE f = "status"
    BY <2>0, <2>1, <1>1, <1>2 DEF OnlyStatus
  <2>2. CASE f # "status"
    <3>1. f \in Cells \ {"status", "fixed_by"}
      BY <2>2, Names
    <3>2. v = row.cells[f]
      BY <2>0, <3>1 DEF OnlyStatus
    <3>3. f \notin fs
      BY <2>2, <1>2
    <3> QED
      BY <3>2, <3>3
  <2> QED
    BY <2>1, <2>2
<1>4. StatusEntry(why, rep, row, status) = Entry(why, rep, row, fs, ch)
  BY DEF StatusEntry
<1> HIDE DEF ch, fs, v
<1>5. Explains(Entry(why, rep, row, fs, ch), f, row.cells[f], v)
  BY <1>3, EntryExplains
<1> QED
  BY <1>4, <1>5 DEF v

LEMMA LedgerSettled ==
    ASSUME NEW ld, IsLedger(ld), NEW added, \A a \in added : IsLedger(a)
    PROVE  /\ \A k : k \in DOMAIN Settle(ld, added) <=> k \in DOMAIN ld \/ \E a \in added : k \in DOMAIN a
           /\ IsLedger(Settle(ld, added))
           /\ \A k \in DOMAIN Settle(ld, added) : \A i \in DOMAIN Settle(ld, added)[k] :
                 \/ k \in DOMAIN ld /\ i \in DOMAIN ld[k] /\ Settle(ld, added)[k][i] = ld[k][i]
                 \/ \E a \in added : k \in DOMAIN a /\ \E j \in DOMAIN a[k] : Settle(ld, added)[k][i] = a[k][j]
<1>1. DOMAIN Settle(ld, added) = DOMAIN ld \cup UNION {DOMAIN a : a \in added}
  BY DEF Settle
<1>2. ASSUME NEW k \in DOMAIN Settle(ld, added)
      PROVE  /\ IsSeq(Settle(ld, added)[k])
             /\ \A i \in DOMAIN Settle(ld, added)[k] :
                  \/ k \in DOMAIN ld /\ i \in DOMAIN ld[k] /\ Settle(ld, added)[k][i] = ld[k][i]
                  \/ \E a \in added : k \in DOMAIN a /\ \E j \in DOMAIN a[k] : Settle(ld, added)[k][i] = a[k][j]
  <2> DEFINE of == {a \in added : k \in DOMAIN a}
             old == IF k \in DOMAIN ld THEN ld[k] ELSE << >>
             more == IF of = {} THEN << >> ELSE (CHOOSE a \in of : TRUE)[k]
  <2>1. Settle(ld, added)[k] = old \o more
    BY <1>1 DEF Settle
  <2>2. IsSeq(old) /\ IsSeq(more)
    BY Short DEF IsLedger
  <2>3. \A i \in 1..Len(more) : \E a \in added : k \in DOMAIN a /\ i \in DOMAIN a[k] /\ more[i] = a[k][i]
    <3>1. CASE of = {}
      BY <3>1, Short
    <3>2. CASE of # {}
      <4>1. PICK a \in of : more = a[k]
        BY <3>2
      <4>2. DOMAIN a[k] = 1..Len(a[k])
        BY <4>1 DEF IsLedger, IsSeq
      <4> QED
        BY <4>1, <4>2
    <3> QED
      BY <3>1, <3>2
  <2>4. \A i \in 1..Len(old) : k \in DOMAIN ld /\ i \in DOMAIN ld[k] /\ old[i] = ld[k][i]
    BY <2>2, Short DEF IsLedger, IsSeq
  <2> HIDE DEF of, old, more
  <2>5. IsSeq(old \o more)
    BY <2>2, Joined
  <2>6. DOMAIN (old \o more) = 1..Len(old \o more)
    BY <2>5 DEF IsSeq
  <2>7. ASSUME NEW i \in 1..Len(old \o more)
        PROVE  \/ k \in DOMAIN ld /\ i \in DOMAIN ld[k] /\ (old \o more)[i] = ld[k][i]
               \/ \E a \in added : k \in DOMAIN a /\ \E j \in DOMAIN a[k] : (old \o more)[i] = a[k][j]
    BY <2>2, <2>3, <2>4, JoinedAt
  <2> QED
    BY <2>1, <2>5, <2>6, <2>7
<1> QED
  BY <1>1, <1>2 DEF IsLedger

-------------------------------------------------------------------------------
(* The judge, and the rows that come right by themselves. *)

(* What a row is judged by beside its shape no_ending: the ending it refuses, and its
   columns. *)
Refused(s, row, r) ==
    {Mismatch(s, "shape", Cell("examined", d), NoRow) :
        d \in {x \in {r.ends[s]} \ {""} : row.cells["shape"] = "ending_moved" /\ row.cells["examined"] = x}}
Compared(s, row, r) ==
    IF r.rows[s] # NoRow
    THEN {Mismatch(s, f, Cell(f, row.cells[f]), Cell(f, r.rows[s][f])) :
             f \in {x \in Scored : row.cells[x] \notin {NotScored, r.rows[s][x]}}}
    ELSE {Mismatch(s, "ending", NoRow, NoRow) : x \in
             {y \in {s} : row.cells["shape"] = "ending" \/ \E f \in Scored : row.cells[f] # NotScored}}

(* No new error of a row, where its cells stay or come to hold what the run has. *)
LEMMA JudgedNoWorse ==
    ASSUME NEW s, NEW r, NEW a, NEW b,
           \/ b.cells["status"] = "ruling_pending"
           \/ /\ a.cells["status"] # "ruling_pending" /\ b.cells["shape"] = a.cells["shape"]
              /\ b.cells["examined"] = a.cells["examined"]
              /\ \A f \in Scored : b.cells[f] = a.cells[f]
                                  \/ (r.rows[s] # NoRow /\ b.cells[f] = r.rows[s][f])
    PROVE  Judge(s, b, r) \subseteq Judge(s, a, r)
<1>1. CASE b.cells["status"] = "ruling_pending"
  BY <1>1 DEF Judge
<1>2. ASSUME b.cells["status"] # "ruling_pending" PROVE Judge(s, b, r) \subseteq Judge(s, a, r)
  <2>1. /\ a.cells["status"] # "ruling_pending" /\ b.cells["shape"] = a.cells["shape"]
        /\ b.cells["examined"] = a.cells["examined"]
        /\ \A f \in Scored : b.cells[f] = a.cells[f] \/ (r.rows[s] # NoRow /\ b.cells[f] = r.rows[s][f])
    BY <1>2
  <2>2. CASE s \notin r.secs \/ a.cells["shape"] = "no_ending"
    BY <1>2, <2>1, <2>2 DEF Judge
  <2>3. CASE ~(s \notin r.secs \/ a.cells["shape"] = "no_ending")
    <3>1. Judge(s, a, r) = Refused(s, a, r) \cup Compared(s, a, r)
      BY <2>1, <2>3 DEF Judge, Refused, Compared
    <3>2. Judge(s, b, r) = Refused(s, b, r) \cup Compared(s, b, r)
      BY <1>2, <2>1, <2>3 DEF Judge, Refused, Compared
    <3>3. Refused(s, b, r) = Refused(s, a, r)
      BY <2>1 DEF Refused
    <3>4. CASE r.rows[s] = NoRow
      BY <2>1, <3>1, <3>2, <3>3, <3>4 DEF Compared
    <3>5. CASE r.rows[s] # NoRow
      <4>1. Compared(s, b, r) \subseteq Compared(s, a, r)
        BY <2>1, <3>5 DEF Compared
      <4> QED
        BY <3>1, <3>2, <3>3, <4>1
    <3> QED
      BY <3>4, <3>5
  <2> QED
    BY <2>2, <2>3
<1> QED
  BY <1>1, <1>2

LEMMA TruthFlipped ==
    ASSUME NEW tr, IsTruth(tr)
    PROVE  /\ IsTruth(FlipTruth(tr)) /\ DOMAIN FlipTruth(tr) = DOMAIN tr
           /\ \A s \in DOMAIN tr :
                 /\ FlipTruth(tr)[s].report = tr[s].report
                 /\ FlipTruth(tr)[s].cells["shape"] = tr[s].cells["shape"]
                 /\ FlipTruth(tr)[s].cells["examined"] = tr[s].cells["examined"]
                 /\ \A f \in Scored : FlipTruth(tr)[s].cells[f] = tr[s].cells[f]
                 /\ \/ FlipTruth(tr)[s] = tr[s]
                    \/ FlipTruth(tr)[s].cells["status"] = "pass" /\ tr[s].cells["status"] = "known_wrong"
<1>1. DOMAIN FlipTruth(tr) = DOMAIN tr
  BY DEF FlipTruth
<1>2. ASSUME NEW s \in DOMAIN tr
      PROVE  /\ IsRow(FlipTruth(tr)[s]) /\ FlipTruth(tr)[s].report = tr[s].report
             /\ FlipTruth(tr)[s].cells["shape"] = tr[s].cells["shape"]
             /\ FlipTruth(tr)[s].cells["examined"] = tr[s].cells["examined"]
             /\ \A f \in Scored : FlipTruth(tr)[s].cells[f] = tr[s].cells[f]
             /\ \/ FlipTruth(tr)[s] = tr[s]
                \/ FlipTruth(tr)[s].cells["status"] = "pass" /\ tr[s].cells["status"] = "known_wrong"
  <2>1. IsRow(tr[s])
    BY DEF IsTruth
  <2>2. CASE s \in NowRight(tr)
    <3>1. FlipTruth(tr)[s] = MoveStatus(tr[s], "pass") /\ tr[s].cells["status"] = "known_wrong"
      BY <2>2 DEF FlipTruth, NowRight
    <3>2. \A f \in Scored \cup {"shape", "examined"} : f \in Cells \ {"status", "fixed_by"}
      BY Names
    <3>0. OnlyStatus(tr[s], MoveStatus(tr[s], "pass"), "pass")
      BY <2>1, StatusMoved
    <3>3. /\ IsRow(MoveStatus(tr[s], "pass")) /\ MoveStatus(tr[s], "pass").report = tr[s].report
          /\ MoveStatus(tr[s], "pass").cells["status"] = "pass"
      BY <3>0 DEF OnlyStatus
    <3>4. \A f \in Cells \ {"status", "fixed_by"} : MoveStatus(tr[s], "pass").cells[f] = tr[s].cells[f]
      BY <3>0 DEF OnlyStatus
    <3>5. \A f \in Scored \cup {"shape", "examined"} : MoveStatus(tr[s], "pass").cells[f] = tr[s].cells[f]
      BY <3>2, <3>4
    <3> QED
      BY <3>1, <3>3, <3>5
  <2>3. CASE s \notin NowRight(tr)
    BY <2>1, <2>3 DEF FlipTruth
  <2> QED
    BY <2>2, <2>3
<1> QED
  BY <1>1, <1>2 DEF IsTruth

LEMMA FlipKeeps ==
    ASSUME NEW tr, IsTruth(tr), NEW lg, IsLog(lg)
    PROVE  /\ IsLog(FlipLog(tr, lg))
           /\ \A kp : TruthCites(tr, kp) => TruthCites(FlipTruth(tr), kp)
           /\ \A kp : LogCites(lg, kp) => LogCites(FlipLog(tr, lg), kp)
           /\ \A ld : SettledIn(tr, ld) => SettledIn(FlipTruth(tr), ld)
           /\ AllWarranted(tr) => AllWarranted(FlipTruth(tr))
<1> DEFINE more(s) == IF s \in NowRight(tr) THEN StatusEntry("flip", NoReport, tr[s], "pass") ELSE << >>
<1>1. \A s : IsSeq(more(s)) /\ \A i \in 1..Len(more(s)) : more(s)[i].report.round = 0
  BY EntryIs, Short DEF StatusEntry, NoReport
<1>2. DOMAIN FlipLog(tr, lg) = Secs /\ \A s \in Secs : FlipLog(tr, lg)[s] = lg[s] \o more(s)
  BY DEF FlipLog
<1> HIDE DEF more
<1>3. IsLog(FlipLog(tr, lg))
  <2>1. \A s \in Secs : IsSeq(lg[s] \o more(s))
    BY <1>1, Joined DEF IsLog
  <2> QED
    BY <1>2, <2>1 DEF IsLog
<1>4. ASSUME NEW kp, LogCites(lg, kp) PROVE LogCites(FlipLog(tr, lg), kp)
  <2> SUFFICES ASSUME NEW s \in Secs, NEW i \in 1..Len(lg[s] \o more(s))
               PROVE  CitedIn(kp, s, (lg[s] \o more(s))[i].report)
    BY <1>2 DEF LogCites
  <2>1. IsSeq(lg[s]) /\ IsSeq(more(s))
    BY <1>1 DEF IsLog
  <2> QED
    BY <2>1, <1>1, <1>4, JoinedAt DEF LogCites, CitedIn
<1>5. CellsOf(FlipTruth(tr)) = CellsOf(tr)
  BY TruthFlipped DEF CellsOf
<1>6. \A ld : SettledIn(tr, ld) => SettledIn(FlipTruth(tr), ld)
  BY <1>5, TruthFlipped DEF SettledIn
<1>7. \A kp : TruthCites(tr, kp) => TruthCites(FlipTruth(tr), kp)
  BY TruthFlipped DEF TruthCites
<1>8. AllWarranted(tr) => AllWarranted(FlipTruth(tr))
  BY TruthFlipped DEF AllWarranted
<1> QED
  BY <1>3, <1>4, <1>6, <1>7, <1>8

LEMMA FlipExplains ==
    ASSUME NEW tr, IsTruth(tr), NEW lg, IsLog(lg), Traced(tr, lg)
    PROVE  Traced(FlipTruth(tr), FlipLog(tr, lg))
<1> DEFINE new_tr == FlipTruth(tr)
           new_lg == FlipLog(tr, lg)
<1>1. DOMAIN new_tr = DOMAIN tr /\ DOMAIN tr \subseteq Secs
  BY TruthFlipped DEF IsTruth
<1>2. ASSUME NEW s \in DOMAIN tr, NEW f \in Scored \cup {"status"}
      PROVE  /\ Links(new_lg[s], f) /\ Ends(new_lg[s], f, new_tr[s].cells[f])
             /\ s \in DOMAIN Truth0 => Starts(new_lg[s], f, Truth0[s].cells[f], new_tr[s].cells[f])
  <2> DEFINE more == IF s \in NowRight(tr) THEN StatusEntry("flip", NoReport, tr[s], "pass") ELSE << >>
             w == new_tr[s].cells[f]
  <2>1. new_lg[s] = lg[s] \o more
    BY <1>1 DEF FlipLog
  <2>2. new_tr[s] = IF s \in NowRight(tr) THEN MoveStatus(tr[s], "pass") ELSE tr[s]
    BY DEF FlipTruth
  <2>3. Explains(more, f, tr[s].cells[f], w)
    <3>1. IsRow(tr[s])
      BY DEF IsTruth
    <3>2. CASE s \in NowRight(tr)
      BY <3>1, <3>2, <2>2, StatusExplains
    <3>3. CASE s \notin NowRight(tr)
      BY <3>3, <2>2, NothingExplains
    <3> QED
      BY <3>2, <3>3
  <2>4. IsSeq(more) /\ IsSeq(lg[s])
    BY <1>1, EntryIs, Short DEF StatusEntry, IsLog
  <2>5. /\ Links(lg[s], f) /\ Ends(lg[s], f, tr[s].cells[f])
        /\ s \in DOMAIN Truth0 => Starts(lg[s], f, Truth0[s].cells[f], tr[s].cells[f])
    BY DEF Traced, Explained
  <2> HIDE DEF more, w, new_tr, new_lg
  <2>6. /\ Links(lg[s] \o more, f) /\ Ends(lg[s] \o more, f, w)
        /\ \A u : Starts(lg[s], f, u, tr[s].cells[f]) => Starts(lg[s] \o more, f, u, w)
    BY <2>3, <2>4, <2>5, JoinedExplain
  <2> QED
    BY <2>1, <2>5, <2>6 DEF w
<1>3. ASSUME NEW s \in Secs \ DOMAIN tr PROVE new_lg[s] = << >>
  <2>1. lg[s] = << >> /\ s \notin NowRight(tr)
    BY DEF Traced, NowRight
  <2> QED
    BY <2>1 DEF FlipLog
<1> QED
  BY <1>1, <1>2, <1>3 DEF Traced, Explained

LEMMA FlipQuiet ==
    ASSUME NEW tr, IsTruth(tr)
    PROVE  Errors(FlipTruth(tr)) \subseteq Errors(tr)
<1>1. JudgeAll(FlipTruth(tr), run) \subseteq JudgeAll(tr, run)
  <2>1. ASSUME NEW s \in DOMAIN tr PROVE Judge(s, FlipTruth(tr)[s], run) \subseteq Judge(s, tr[s], run)
    <3>1. CASE FlipTruth(tr)[s] = tr[s]
      BY <3>1
    <3>2. CASE FlipTruth(tr)[s].cells["status"] = "pass" /\ tr[s].cells["status"] = "known_wrong"
      <4>1. /\ FlipTruth(tr)[s].cells["shape"] = tr[s].cells["shape"]
            /\ FlipTruth(tr)[s].cells["examined"] = tr[s].cells["examined"]
            /\ \A f \in Scored : FlipTruth(tr)[s].cells[f] = tr[s].cells[f]
        BY TruthFlipped
      <4>2. tr[s].cells["status"] # "ruling_pending"
        BY <3>2
      <4> DEFINE a == tr[s]
                 b == FlipTruth(tr)[s]
      <4> HIDE DEF a, b
      <4>3. /\ a.cells["status"] # "ruling_pending" /\ b.cells["shape"] = a.cells["shape"]
            /\ b.cells["examined"] = a.cells["examined"]
            /\ \A f \in Scored : b.cells[f] = a.cells[f] \/ (run.rows[s] # NoRow /\ b.cells[f] = run.rows[s][f])
        BY <4>1, <4>2 DEF a, b
      <4>4. Judge(s, b, run) \subseteq Judge(s, a, run)
        BY <4>3, JudgedNoWorse
      <4> QED
        BY <4>4 DEF a, b
    <3> QED
      BY <3>1, <3>2, TruthFlipped
  <2> QED
    BY <2>1, TruthFlipped DEF JudgeAll
<1>2. Excluded(tr) \subseteq Excluded(FlipTruth(tr))
  BY TruthFlipped DEF Excluded, PendingRegression
<1>3. BuildReport(FlipTruth(tr), run) \subseteq BuildReport(tr, run)
  BY <1>2 DEF BuildReport
<1> QED
  BY <1>1, <1>3 DEF Errors

-------------------------------------------------------------------------------
(* The steps of a commit.  It may begin with any files that promise what these do. *)

roundVars == <<run, round, cases, records>>

LEMMA RoundStays ==
    ASSUME RoundRight, UNCHANGED roundVars, DOMAIN truth \subseteq DOMAIN truth'
    PROVE  RoundRight'
  BY DEF RoundRight, CaseRight, roundVars, Fields

LEMMA CommitStep ==
    ASSUME TruthInv, ~Running, NEW tr, NEW lg, NEW ld, NEW kp, NEW st, Commit(tr, lg, ld, kp, st),
           UNCHANGED <<files, roundVars, torn, held>>,
           IsTruth(tr), IsLog(lg), IsLedger(ld), DOMAIN truth \subseteq DOMAIN tr, kept \subseteq kp,
           TruthCites(tr, kp), LogCites(lg, kp), LedgerCites(ld, kp), SettledIn(tr, ld),
           torn = {} => Traced(tr, lg),
           stage' = stage \/ ~Live(stage'),
           Live(stage') /\ round \notin torn => Known(tr, ld),
           Live(st) => Live(stage'), stage' = "settled" => st = "settled",
           st = "settled" => AllSettled(ld),
           AllWarranted(tr)
    PROVE  TruthInv'
<1>1. /\ new'.truth = tr /\ new'.log = lg /\ new'.ledger = ld /\ new'.kept = kp /\ new'.stage = st
      /\ new'.all = todo'
      /\ "summary" \in todo' /\ todo' \subseteq {"truth", "log", "ledger", "summary"}
      /\ ("truth" \in todo' <=> tr # truth) /\ ("log" \in todo' <=> lg # log) /\ ("ledger" \in todo' <=> ld # ledger)
  BY DEF Commit
<1>2. /\ run' = run /\ truth' = truth /\ log' = log /\ ledger' = ledger /\ kept' = kept /\ round' = round
      /\ cases' = cases /\ records' = records /\ torn' = torn /\ held' = held
  BY DEF files, roundVars
<1>3. Shapes'
  BY <1>1, <1>2 DEF TruthInv, Shapes, IsTruth, IsLog, IsLedger
<1>4. Underway'
  BY <1>1, <1>2 DEF Underway
<1>5. RoundRight'
  BY <1>2, RoundStays DEF TruthInv, roundVars
<1>6. CitesKept'
  BY <1>1, <1>2 DEF TruthInv, CitesKept
<1>7. SettledFirst'
  BY <1>1, <1>2 DEF TruthInv, SettledFirst, SettledIn
<1>8. LogTraced'
  BY <1>1, <1>2 DEF TruthInv, LogTraced, Untouched
<1>9. ErrorsKnown'
  <2>1. Untouched
    BY DEF Untouched
  <2>2. Live(stage') => stage' = stage
    OBVIOUS
  <2>3. Live(stage') /\ round' \notin torn' => Known(truth, ledger)' /\ Known(new.truth, new.ledger)'
    BY <1>1, <1>2, <2>1, <2>2 DEF TruthInv, ErrorsKnown, Known, Errors
  <2>4. stage' = "settled" => AllSettled(ledger)'
    BY <1>2, <2>2 DEF TruthInv, ErrorsKnown, AllSettled, Live
  <2>5. (Live(new.stage) => Live(stage))' /\ (stage' = "settled" => new'.stage = "settled")
        /\ (new'.stage = "settled" => AllSettled(new.ledger)')
    BY <1>1, <1>2 DEF AllSettled, Live
  <2> QED
    BY <2>3, <2>4, <2>5 DEF ErrorsKnown
<1>10. NewWarranted'
  BY <1>1, <1>2 DEF NewWarranted, AllWarranted, Warranted, Found
<1> QED
  BY <1>3, <1>4, <1>5, <1>6, <1>7, <1>8, <1>9, <1>10 DEF TruthInv

LEMMA CopyStep ==
    ASSUME TruthInv, CopyReports
    PROVE  TruthInv'
<1>1. /\ kept' = new.kept /\ kept \subseteq new.kept
      /\ run' = run /\ truth' = truth /\ log' = log /\ ledger' = ledger /\ round' = round /\ stage' = stage
      /\ cases' = cases /\ records' = records /\ torn' = torn /\ held' = held /\ todo' = todo /\ new' = new
  BY DEF CopyReports, TruthInv, Underway, loop
<1>2. Shapes' /\ Underway' /\ RoundRight'
  <2>1. RoundRight'
    BY <1>1, RoundStays DEF TruthInv, roundVars
  <2>2. Shapes'
    BY <1>1 DEF TruthInv, Shapes
  <2>3. Underway'
    BY <1>1 DEF TruthInv, Underway, Running
  <2> QED
    BY <2>1, <2>2, <2>3
<1>3. CitesKept'
  <2>1. /\ TruthCites(truth, kept) /\ LogCites(log, kept) /\ LedgerCites(ledger, kept)
        /\ Running => TruthCites(new.truth, new.kept) /\ LogCites(new.log, new.kept) /\ LedgerCites(new.ledger, new.kept)
    BY DEF TruthInv, CitesKept
  <2>2. TruthCites(truth, kept)'
    BY <1>1, <2>1 DEF TruthCites, CitedIn
  <2>3. LogCites(log, kept)'
    BY <1>1, <2>1 DEF LogCites, CitedIn
  <2>4. LedgerCites(ledger, kept)'
    BY <1>1, <2>1 DEF LedgerCites, CitedIn
  <2>5. Running' => TruthCites(new.truth, new.kept)'
    BY <1>1, <2>1 DEF TruthCites, CitedIn, Running
  <2>6. Running' => LogCites(new.log, new.kept)'
    BY <1>1, <2>1 DEF LogCites, CitedIn, Running
  <2>7. Running' => LedgerCites(new.ledger, new.kept)'
    BY <1>1, <2>1 DEF LedgerCites, CitedIn, Running
  <2> QED
    BY <2>2, <2>3, <2>4, <2>5, <2>6, <2>7 DEF CitesKept
<1>4. SettledFirst' /\ LogTraced'
  BY <1>1 DEF TruthInv, SettledFirst, SettledIn, LogTraced, Untouched, Running
<1>5. ErrorsKnown'
  BY <1>1 DEF TruthInv, ErrorsKnown, Known, Errors, AllSettled, Untouched, Running
<1>6. NewWarranted'
  BY <1>1 DEF TruthInv, NewWarranted, AllWarranted, Warranted, Found, Running
<1> QED
  BY <1>2, <1>3, <1>4, <1>5, <1>6 DEF TruthInv

(* A kill leaves the files as they are; if they are a mixture, the round is torn. *)
LEMMA CrashStep ==
    ASSUME TruthInv, Crash
    PROVE  TruthInv'
<1>1. /\ ~Running' /\ todo' = {}
      /\ run' = run /\ truth' = truth /\ log' = log /\ ledger' = ledger /\ round' = round /\ stage' = stage
      /\ cases' = cases /\ records' = records /\ kept' = kept /\ held' = held
  BY DEF Crash, Running, loop
<1>2. /\ torn \subseteq torn' /\ Running
      /\ round \notin torn' => todo = new.all \/ todo = {"summary"}
      /\ torn' = {} => todo = new.all \/ todo = {"summary"}
  BY DEF Crash
<1>3. todo = {"summary"} => truth = new.truth /\ log = new.log /\ ledger = new.ledger
  BY <1>2 DEF TruthInv, Underway
<1>4. Shapes' /\ Underway' /\ RoundRight'
  <2>1. RoundRight'
    BY <1>1, RoundStays DEF TruthInv, roundVars
  <2> QED
    BY <1>1, <2>1 DEF TruthInv, Shapes, Underway
<1>5. CitesKept' /\ SettledFirst' /\ NewWarranted'
  BY <1>1 DEF TruthInv, CitesKept, SettledFirst, SettledIn, NewWarranted
<1>6. LogTraced'
  BY <1>1, <1>2, <1>3 DEF TruthInv, LogTraced, Untouched
<1>7. ErrorsKnown'
  BY <1>1, <1>2, <1>3 DEF TruthInv, ErrorsKnown, Known, Errors, AllSettled, Untouched
<1> QED
  BY <1>4, <1>5, <1>6, <1>7 DEF TruthInv

LEMMA InOrder ==
    ASSUME Shapes, NEW file \in todo, First(file)
    PROVE  /\ file \in {"truth", "log", "ledger", "summary"}
           /\ file = "ledger" => "truth" \notin todo
           /\ file = "summary" => todo = {"summary"}
<1>1. todo \subseteq {"truth", "log", "ledger", "summary"}
  BY DEF Shapes
<1>2. ASSUME file = "ledger", "truth" \in todo PROVE FALSE
  BY <1>2 DEF First, Place
<1>3. ASSUME file = "summary", NEW other \in todo PROVE other = "summary"
  <2>1. Place("summary") <= Place(other)
    BY <1>3 DEF First
  <2>2. Place("summary") = 4 /\ Place("truth") = 1 /\ Place("log") = 2 /\ Place("ledger") = 3
    BY DEF Place
  <2> QED
    BY <1>1, <2>1, <2>2
<1> QED
  BY <1>1, <1>2, <1>3

(* A rename but the last: the files are a mixture, and each promise holds of it because
   it holds of both its parts and the reports were copied before, or the truth is
   replaced before the ledger. *)
LEMMA RenameStep ==
    ASSUME TruthInv, Replace, NEW file \in todo, First(file), file # "summary",
           todo' = todo \ {file}, new' = IF todo' = {} THEN Nothing ELSE new,
           truth' = IF file = "truth" THEN new.truth ELSE truth,
           log' = IF file = "log" THEN new.log ELSE log,
           ledger' = IF file = "ledger" THEN new.ledger ELSE ledger,
           stage' = stage
    PROVE  TruthInv'
<1>1. /\ Running /\ Running' /\ new' = new /\ kept = new.kept /\ file \in new.all /\ ~Untouched'
      /\ "summary" \in todo'
  <2>1. Running /\ kept = new.kept /\ "summary" \in todo' /\ file \in new.all
    BY DEF Replace, TruthInv, Underway
  <2>2. Running' /\ new' = new
    BY <2>1 DEF Running
  <2>3. todo' # new'.all
    BY <2>1, <2>2
  <2> QED
    BY <2>1, <2>2, <2>3 DEF Untouched
<1>2. /\ run' = run /\ kept' = kept /\ round' = round /\ cases' = cases /\ records' = records /\ torn' = torn
      /\ held' = held \cup CellsOf(truth')
  BY DEF Replace, loop
<1>3. file = "ledger" => truth = new.truth
  BY <1>1, InOrder DEF TruthInv, Underway
<1>4. DOMAIN truth \subseteq DOMAIN truth' /\ DOMAIN truth' \subseteq DOMAIN new.truth
  BY <1>1 DEF TruthInv, Underway
<1>5. Shapes'
  <2>1. IsTruth(truth') /\ IsLog(log') /\ IsLedger(ledger')
    BY <1>1 DEF TruthInv, Shapes, Underway
  <2> QED
    BY <1>2, <1>4, <2>1 DEF TruthInv, Shapes, IsTruth, IsLog, IsLedger
<1>6. Underway'
  <2>1. "truth" \notin todo' => truth' = new.truth
    BY <1>1 DEF TruthInv, Underway
  <2>2. "log" \notin todo' => log' = new.log
    BY <1>1 DEF TruthInv, Underway
  <2>3. "ledger" \notin todo' => ledger' = new.ledger
    BY <1>1 DEF TruthInv, Underway
  <2>4. IsTruth(new.truth)' /\ IsLog(new.log)' /\ IsLedger(new.ledger)'
    BY <1>1 DEF TruthInv, Underway, IsTruth, IsLog, IsLedger
  <2> QED
    BY <1>1, <1>2, <1>4, <2>1, <2>2, <2>3, <2>4 DEF TruthInv, Underway
<1>7. RoundRight'
  BY <1>2, <1>4, RoundStays DEF TruthInv, roundVars
<1>8. CitesKept'
  <2>1. TruthCites(truth', kept) /\ LogCites(log', kept) /\ LedgerCites(ledger', kept)
    BY <1>1 DEF TruthInv, CitesKept
  <2>2. TruthCites(new.truth, kept) /\ LogCites(new.log, kept) /\ LedgerCites(new.ledger, kept)
    BY <1>1 DEF TruthInv, CitesKept
  <2> QED
    <3>1. TruthCites(truth, kept)' /\ TruthCites(new.truth, new.kept)'
      BY <1>1, <1>2, <2>1, <2>2 DEF TruthCites, CitedIn
    <3>2. LogCites(log, kept)' /\ LogCites(new.log, new.kept)'
      BY <1>1, <1>2, <2>1, <2>2 DEF LogCites, CitedIn
    <3>3. LedgerCites(ledger, kept)' /\ LedgerCites(new.ledger, new.kept)'
      BY <1>1, <1>2, <2>1, <2>2 DEF LedgerCites, CitedIn
    <3> QED
      BY <3>1, <3>2, <3>3 DEF CitesKept
<1>9. SettledFirst'
  <2>1. SettledIn(truth, ledger) /\ SettledIn(new.truth, new.ledger) /\ CellsOf(truth) \subseteq held
    BY <1>1 DEF TruthInv, SettledFirst
  <2>2. SettledIn(truth, ledger)'
    <3>1. CASE file = "ledger"
      BY <3>1, <1>2, <1>3, <2>1 DEF SettledIn
    <3>2. CASE file # "ledger"
      BY <3>2, <1>2, <1>4, <2>1 DEF SettledIn
    <3> QED
      BY <3>1, <3>2
  <2>3. SettledIn(new.truth, new.ledger)'
    BY <1>1, <1>2, <2>1 DEF SettledIn
  <2>4. CellsOf(truth)' \subseteq held'
    BY <1>2 DEF CellsOf
  <2> QED
    BY <2>2, <2>3, <2>4 DEF SettledFirst
<1>10. LogTraced'
  BY <1>1, <1>2 DEF TruthInv, LogTraced
<1>11. ErrorsKnown'
  <2>1. Live(stage)' /\ round' \notin torn' => Known(new.truth, new.ledger)'
    BY <1>1, <1>2 DEF TruthInv, ErrorsKnown, Known, Errors
  <2>2. stage' = "settled" => AllSettled(ledger)'
    BY <1>1, <1>2 DEF TruthInv, ErrorsKnown, AllSettled
  <2>3. (Live(new.stage) => Live(stage))' /\ (stage' = "settled" => new'.stage = "settled")
        /\ (new'.stage = "settled" => AllSettled(new.ledger)')
    BY <1>1, <1>2 DEF TruthInv, ErrorsKnown, AllSettled, Live
  <2> QED
    BY <1>1, <2>1, <2>2, <2>3 DEF ErrorsKnown
<1>12. NewWarranted'
  <2>1. AllWarranted(new.truth)
    BY <1>1 DEF TruthInv, NewWarranted
  <2> QED
    BY <1>1, <1>2, <2>1 DEF NewWarranted, AllWarranted, Warranted, Found
<1> QED
  BY <1>5, <1>6, <1>7, <1>8, <1>9, <1>10, <1>11, <1>12 DEF TruthInv

(* The last: everything is in place, and the round takes its new stage. *)
LEMMA SummaryStep ==
    ASSUME TruthInv, Replace, NEW file \in todo, First(file), file = "summary",
           todo' = todo \ {file}, UNCHANGED <<truth, log, ledger>>, stage' = new.stage
    PROVE  TruthInv'
<1>1. /\ Running /\ ~Running' /\ todo' = {}
      /\ truth = new.truth /\ log = new.log /\ ledger = new.ledger
  <2>1. todo = {"summary"}
    BY InOrder DEF TruthInv
  <2> QED
    BY <2>1 DEF TruthInv, Underway, Running
<1>2. /\ run' = run /\ kept' = kept /\ round' = round /\ cases' = cases /\ records' = records /\ torn' = torn
      /\ held' = held \cup CellsOf(truth')
  BY DEF Replace, loop
<1>3. Shapes' /\ Underway'
  BY <1>1, <1>2 DEF TruthInv, Shapes, Underway
<1>4. RoundRight'
  BY <1>2, RoundStays DEF TruthInv, roundVars
<1>5. CitesKept' /\ NewWarranted'
  BY <1>1, <1>2 DEF TruthInv, CitesKept, NewWarranted
<1>6. SettledFirst'
  BY <1>1, <1>2 DEF TruthInv, SettledFirst, SettledIn, CellsOf
<1>7. LogTraced'
  BY <1>1, <1>2 DEF TruthInv, LogTraced
<1>8. ErrorsKnown'
  <2>1. Live(stage)' /\ round' \notin torn' => Known(truth, ledger)'
    BY <1>1, <1>2 DEF TruthInv, ErrorsKnown, Known, Errors, Live
  <2>2. stage' = "settled" => AllSettled(ledger)'
    BY <1>1, <1>2 DEF TruthInv, ErrorsKnown, AllSettled
  <2> QED
    BY <1>1, <2>1, <2>2 DEF ErrorsKnown
<1> QED
  BY <1>3, <1>4, <1>5, <1>6, <1>7, <1>8 DEF TruthInv

LEMMA ReplaceStep ==
    ASSUME TruthInv, Replace
    PROVE  TruthInv'
<1>1. PICK file \in todo :
        /\ First(file)
        /\ todo' = todo \ {file} /\ new' = IF todo' = {} THEN Nothing ELSE new
        /\ truth'  = IF file = "truth" THEN new.truth ELSE truth
        /\ log'    = IF file = "log" THEN new.log ELSE log
        /\ ledger' = IF file = "ledger" THEN new.ledger ELSE ledger
        /\ stage'  = IF file = "summary" THEN new.stage ELSE stage
  BY DEF Replace
<1>2. CASE file = "summary"
  BY <1>1, <1>2, SummaryStep
<1>3. CASE file # "summary"
  BY <1>1, <1>3, RenameStep
<1> QED
  BY <1>2, <1>3

-------------------------------------------------------------------------------
(* The operator's steps but those that commit. *)

(* Between commits the parts about one say nothing. *)
LEMMA AtRest ==
    ASSUME Shapes', RoundRight', ~Running',
           TruthCites(truth, kept)', LogCites(log, kept)', LedgerCites(ledger, kept)',
           CellsOf(truth)' \subseteq held', SettledIn(truth, ledger)',
           torn' = {} => Traced(truth, log)',
           Live(stage)' /\ round' \notin torn' => Known(truth, ledger)',
           stage' = "settled" => AllSettled(ledger)'
    PROVE  TruthInv'
  BY DEF TruthInv, Underway, CitesKept, SettledFirst, LogTraced, ErrorsKnown, NewWarranted

LEMMA RerunStep ==
    ASSUME TruthInv, Rerun
    PROVE  TruthInv'
<1>1. /\ ~Running /\ ~Running' /\ stage' = "idle" /\ cases' = {} /\ records' = << >> /\ run' \in Runs
      /\ truth' = truth /\ log' = log /\ ledger' = ledger /\ kept' = kept /\ torn' = torn /\ held' = held /\ todo' = todo
  BY DEF Rerun, Before, Running
<1>2. Shapes' /\ RoundRight'
  BY <1>1 DEF TruthInv, Shapes, RoundRight
<1>3. TruthCites(truth, kept)' /\ LogCites(log, kept)' /\ LedgerCites(ledger, kept)'
  BY <1>1 DEF TruthInv, CitesKept
<1>4. CellsOf(truth)' \subseteq held' /\ SettledIn(truth, ledger)' /\ (torn' = {} => Traced(truth, log)')
  BY <1>1 DEF TruthInv, SettledFirst, SettledIn, LogTraced, Untouched
<1> QED
  BY <1>1, <1>2, <1>3, <1>4, AtRest DEF Live

LEMMA DiagnoseStep ==
    ASSUME TruthInv, Diagnose
    PROVE  TruthInv'
<1>1. /\ ~Running /\ ~Running' /\ stage' = stage /\ cases' = cases /\ run' = run /\ round' = round
      /\ truth' = truth /\ log' = log /\ ledger' = ledger /\ kept' = kept /\ torn' = torn /\ held' = held /\ todo' = todo
  BY DEF Diagnose, Running
<1> PICK c \in cases : \E rec \in Records(c) : records' = With(records, c, rec)
  BY DEF Diagnose
<1>2. PICK rec \in Records(c) : records' = With(records, c, rec)
  OBVIOUS
<1>3. rec.usable => \A f \in Fields(c) : rec.right[f] \in Sides(c.mode)
  BY DEF Records
<1>4. DOMAIN records' = DOMAIN records \cup {c} /\ records'[c] = rec
      /\ \A d \in DOMAIN records \ {c} : records'[d] = records[d]
  BY <1>2 DEF With
<1>5. RoundRight'
  <2>1. \A d \in cases' : CaseRight(d)'
    BY <1>1 DEF TruthInv, RoundRight, CaseRight
  <2>2. \A d \in DOMAIN records' : records'[d].usable => \A f \in Fields(d) : records'[d].right[f] \in Sides(d.mode)
    BY <1>3, <1>4 DEF TruthInv, RoundRight
  <2> QED
    BY <1>1, <1>4, <2>1, <2>2 DEF TruthInv, RoundRight
<1>6. Shapes'
  BY <1>1 DEF TruthInv, Shapes
<1>7. TruthCites(truth, kept)' /\ LogCites(log, kept)' /\ LedgerCites(ledger, kept)'
  BY <1>1 DEF TruthInv, CitesKept
<1>8. CellsOf(truth)' \subseteq held' /\ SettledIn(truth, ledger)' /\ (torn' = {} => Traced(truth, log)')
  BY <1>1 DEF TruthInv, SettledFirst, SettledIn, LogTraced, Untouched
<1>9. /\ Live(stage)' /\ round' \notin torn' => Known(truth, ledger)'
      /\ stage' = "settled" => AllSettled(ledger)'
  BY <1>1 DEF TruthInv, ErrorsKnown, Known, Errors, AllSettled, Untouched
<1> QED
  BY <1>1, <1>5, <1>6, <1>7, <1>8, <1>9, AtRest

LEMMA DeleteStep ==
    ASSUME TruthInv, DeletePending
    PROVE  TruthInv'
<1>0. stage' = "changed" \/ stage' = "idle"
  BY DEF DeletePending
<1>1. /\ ~Running /\ ~Running' /\ ~Live(stage') /\ cases' = cases /\ records' = records /\ run' = run /\ round' = round
      /\ truth' = truth /\ log' = log /\ kept' = kept /\ torn' = torn /\ held' = held /\ todo' = todo
  BY <1>0 DEF DeletePending, Before, Running, Live, loop
<1>2. DOMAIN ledger' \subseteq DOMAIN ledger /\ \A k \in DOMAIN ledger' : ledger'[k] = ledger[k]
  BY DEF DeletePending
<1>3. Shapes'
  BY <1>1, <1>2 DEF TruthInv, Shapes, IsLedger
<1>4. RoundRight'
  BY <1>1, RoundStays DEF TruthInv, roundVars
<1>5. TruthCites(truth, kept)' /\ LogCites(log, kept)' /\ LedgerCites(ledger, kept)'
  BY <1>1, <1>2 DEF TruthInv, CitesKept, LedgerCites
<1>6. CellsOf(truth)' \subseteq held' /\ SettledIn(truth, ledger)' /\ (torn' = {} => Traced(truth, log)')
  BY <1>1, <1>2 DEF TruthInv, SettledFirst, SettledIn, LogTraced, Untouched
<1> QED
  BY <1>1, <1>3, <1>4, <1>5, <1>6, AtRest DEF Live

-------------------------------------------------------------------------------
(* Opening a round: what the judge and the report give becomes its cases. *)

LEMMA Judged ==
    ASSUME NEW s, NEW row, NEW r
    PROVE  /\ \A e \in Judge(s, row, r) :
                 /\ e.kind = "mismatch" /\ e.sec = s /\ row.cells["status"] # "ruling_pending"
                 /\ e.field \in Scored => r.rows[s] # NoRow /\ e.b = Cell(e.field, r.rows[s][e.field])
           /\ \A d, e \in Judge(s, row, r) : d.field = e.field => d = e
<1> DEFINE Right(js) ==
             /\ \A e \in js : /\ e.kind = "mismatch" /\ e.sec = s
                              /\ e.field \in Scored => r.rows[s] # NoRow /\ e.b = Cell(e.field, r.rows[s][e.field])
             /\ \A d, e \in js : d.field = e.field => d = e
           Apart == Refused(s, row, r) \cup Compared(s, row, r)
<1>1. \A f, a, b : /\ Mismatch(s, f, a, b).kind = "mismatch" /\ Mismatch(s, f, a, b).sec = s
                   /\ Mismatch(s, f, a, b).field = f /\ Mismatch(s, f, a, b).b = b
  BY DEF Mismatch
<1>2. \A f \in {"sec_id", "shape", "ending"} : f \notin Scored
  BY Names
<1>3. ASSUME NEW f \in {"sec_id", "shape", "ending"}, NEW js, js \subseteq {Mismatch(s, f, NoRow, NoRow)}
      PROVE  Right(js)
  BY <1>1, <1>2, <1>3
<1>4. Right(Apart)
  <2>1. \A e \in Refused(s, row, r) :
            e = Mismatch(s, "shape", Cell("examined", r.ends[s]), NoRow) /\ e.field = "shape"
    <3>1. \A e \in Refused(s, row, r) : e = Mismatch(s, "shape", Cell("examined", r.ends[s]), NoRow)
      BY DEF Refused
    <3> QED
      BY <1>1, <3>1
  <2>2. CASE r.rows[s] # NoRow
    <3>1. \A e \in Compared(s, row, r) :
              /\ e.field \in Scored
              /\ e = Mismatch(s, e.field, Cell(e.field, row.cells[e.field]), Cell(e.field, r.rows[s][e.field]))
      BY <1>1, <2>2 DEF Compared
    <3> QED
      BY <1>1, <1>2, <2>1, <2>2, <3>1
  <2>3. CASE r.rows[s] = NoRow
    <3>1. \A e \in Compared(s, row, r) : e = Mismatch(s, "ending", NoRow, NoRow) /\ e.field = "ending"
      BY <1>1, <2>3 DEF Compared
    <3> QED
      BY <1>1, <1>2, <2>1, <3>1
  <2> QED
    BY <2>2, <2>3
<1>5. \/ Judge(s, row, r) = Apart
      \/ \E f \in {"sec_id", "shape", "ending"} : Judge(s, row, r) \subseteq {Mismatch(s, f, NoRow, NoRow)}
  BY DEF Judge, Refused, Compared
<1>6. row.cells["status"] = "ruling_pending" => Judge(s, row, r) = {}
  BY DEF Judge
<1> HIDE DEF Right, Apart
<1>7. Right(Judge(s, row, r))
  BY <1>3, <1>4, <1>5
<1> QED
  BY <1>6, <1>7 DEF Right

LEMMA Reported ==
    ASSUME NEW s, NEW a, NEW b
    PROVE  /\ \A e \in Diff(s, a, b) : e.kind = "regression" /\ e.sec = s
           /\ \A d, e \in Diff(s, a, b) : d.field = e.field => d = e
<1>1. CASE a = NoRow \/ b = NoRow
  <2>1. Diff(s, a, b) \subseteq {Regression(s, "added", NoRow, Restrict(b, Brief)), Regression(s, "removed", Restrict(a, Brief), NoRow)}
    BY <1>1 DEF Diff
  <2> QED
    BY <2>1 DEF Regression
<1>2. CASE ~(a = NoRow \/ b = NoRow)
  <2>1. Diff(s, a, b) = {Regression(s, f, Cell(f, a[f]), Cell(f, b[f])) : f \in {x \in Columns : a[x] # b[x]}}
    BY <1>2 DEF Diff
  <2> QED
    BY <2>1 DEF Regression
<1> QED
  BY <1>1, <1>2

LEMMA OpenStep ==
    ASSUME TruthInv, Open
    PROVE  TruthInv'
<1> DEFINE case(e) == [mode |-> e.kind, sec |-> e.sec,
                       errors |-> {x \in NewErrors : x.kind = e.kind /\ x.sec = e.sec}]
<1>1. /\ ~Running /\ ~Running' /\ records' = << >> /\ stage' = "open" /\ run' = run
      /\ truth' = truth /\ log' = log /\ ledger' = ledger /\ kept' = kept /\ torn' = torn /\ held' = held /\ todo' = todo
      /\ cases' = {case(e) : e \in NewErrors}
  BY DEF Open, Before, Running
<1>2. NewErrors = Errors(truth) \ DOMAIN ledger
  BY DEF NewErrors, Errors
<1>3. ASSUME NEW e \in NewErrors
      PROVE  \/ e.kind = "mismatch" /\ e.sec \in DOMAIN truth /\ e \in Judge(e.sec, truth[e.sec], run)
                /\ truth[e.sec].cells["status"] # "ruling_pending"
             \/ e.kind = "regression" /\ e.sec \in Secs \ Excluded(truth)
                /\ e \in Diff(e.sec, Base.rows[e.sec], run.rows[e.sec])
  <2>1. CASE e \in JudgeAll(truth, run)
    <3>1. PICK s \in DOMAIN truth : e \in Judge(s, truth[s], run)
      BY <2>1 DEF JudgeAll
    <3> QED
      BY <3>1, Judged
  <2>2. CASE e \in BuildReport(truth, run)
    <3>1. PICK s \in Secs \ Excluded(truth) : e \in Diff(s, Base.rows[s], run.rows[s])
      BY <2>2 DEF BuildReport
    <3> QED
      BY <3>1, Reported
  <2> QED
    BY <1>2, <2>1, <2>2 DEF Errors
<1>4. \A e \in NewErrors : /\ case(e).mode = e.kind /\ case(e).sec = e.sec /\ e \in case(e).errors
                           /\ \A x \in case(e).errors : x \in NewErrors /\ x.kind = e.kind /\ x.sec = e.sec
                           /\ \A d \in NewErrors : d.kind = e.kind /\ d.sec = e.sec => case(d) = case(e)
  OBVIOUS
<1> HIDE DEF case
<1>5. ASSUME NEW e \in NewErrors, NEW c, c = case(e) PROVE CaseRight(c)'
  <2>1. CASE e.kind = "mismatch"
    <3>1. \A x \in c.errors : x \in Judge(e.sec, truth[e.sec], run)
      BY <1>3, <1>4, <1>5, <2>1
    <3>2. e.sec \in DOMAIN truth /\ e.sec \in Secs
      BY <1>3, <2>1 DEF TruthInv, Shapes, IsTruth
    <3> QED
      BY <1>1, <1>4, <1>5, <2>1, <3>1, <3>2, Judged DEF CaseRight
  <2>2. CASE e.kind = "regression"
    <3>1. \A x \in c.errors : x \in Diff(e.sec, Base.rows[e.sec], run.rows[e.sec])
      BY <1>3, <1>4, <1>5, <2>2
    <3>2. e.sec \in Secs
      BY <1>3, <2>2
    <3> QED
      BY <1>1, <1>4, <1>5, <2>2, <3>1, <3>2, Reported DEF CaseRight
  <2> QED
    BY <1>3, <2>1, <2>2
<1>6. ASSUME NEW d \in NewErrors, NEW e \in NewErrors, d.sec = e.sec PROVE case(d) = case(e)
  <2>1. ASSUME NEW x \in NewErrors, NEW y \in NewErrors, x.sec = y.sec, x.kind = "mismatch", y.kind = "regression"
        PROVE  FALSE
    BY <2>1, <1>3 DEF Excluded, PendingRegression
  <2>2. d.kind = e.kind
    BY <2>1, <1>3, <1>6
  <2> QED
    BY <2>2, <1>4, <1>6
<1>7. RoundRight'
  BY <1>1, <1>4, <1>5, <1>6 DEF RoundRight
<1>8. Shapes'
  BY <1>1 DEF TruthInv, Shapes
<1>9. TruthCites(truth, kept)' /\ LogCites(log, kept)' /\ LedgerCites(ledger, kept)'
  BY <1>1 DEF TruthInv, CitesKept
<1>10. CellsOf(truth)' \subseteq held' /\ SettledIn(truth, ledger)' /\ (torn' = {} => Traced(truth, log)')
  BY <1>1 DEF TruthInv, SettledFirst, SettledIn, LogTraced, Untouched
<1>11. Known(truth, ledger)'
  BY <1>1, <1>2, <1>4 DEF Known, Errors
<1> QED
  BY <1>1, <1>7, <1>8, <1>9, <1>10, <1>11, AtRest

-------------------------------------------------------------------------------
(* The commits between rounds. *)

(* What the files on disk promise while no process runs. *)
LEMMA Promised ==
    ASSUME TruthInv, ~Running
    PROVE  /\ IsTruth(truth) /\ IsLog(log) /\ IsLedger(ledger)
           /\ TruthCites(truth, kept) /\ LogCites(log, kept) /\ LedgerCites(ledger, kept)
           /\ CellsOf(truth) \subseteq held /\ SettledIn(truth, ledger)
           /\ torn = {} => Traced(truth, log)
           /\ Live(stage) /\ round \notin torn => Known(truth, ledger)
           /\ stage = "settled" => AllSettled(ledger)
           /\ AllWarranted(truth)
<1>1. Untouched
  BY DEF Untouched
<1>2. AllWarranted(truth)
  BY DEF AllWarranted, Warranted
<1> QED
  BY <1>1, <1>2 DEF TruthInv, Shapes, CitesKept, SettledFirst, LogTraced, ErrorsKnown

LEMMA FlipStep ==
    ASSUME TruthInv, Flip
    PROVE  TruthInv'
<1> DEFINE tr == FlipTruth(truth)
           lg == FlipLog(truth, log)
<1>1. /\ ~Running /\ Commit(tr, lg, ledger, kept, stage) /\ stage' = stage
      /\ UNCHANGED <<files, roundVars, torn, held>>
  BY DEF Flip, Before, files, roundVars, loop
<1>2. /\ IsTruth(tr) /\ IsLog(lg) /\ DOMAIN truth \subseteq DOMAIN tr
      /\ TruthCites(tr, kept) /\ LogCites(lg, kept) /\ SettledIn(tr, ledger) /\ AllWarranted(tr)
  BY <1>1, Promised, TruthFlipped, FlipKeeps
<1>3. torn = {} => Traced(tr, lg)
  BY <1>1, Promised, FlipExplains
<1>4. Live(stage) /\ round \notin torn => Known(tr, ledger)
  BY <1>1, Promised, FlipQuiet DEF Known
<1> HIDE DEF tr, lg
<1> QED
  BY <1>1, <1>2, <1>3, <1>4, Promised, CommitStep

LEMMA SeedStep ==
    ASSUME TruthInv, Seed
    PROVE  TruthInv'
<1> DEFINE known == [k \in JudgeAll(truth, run) \ DOMAIN ledger |-> << [outcome |-> "known", report |-> NoReport] >>]
           ld == Settle(ledger, {known})
<1>1. /\ ~Running /\ Commit(truth, log, ld, kept, stage) /\ stage' = stage
      /\ UNCHANGED <<files, roundVars, torn, held>>
  BY DEF Seed, files, roundVars, loop
<1>2. /\ IsLedger(known)
      /\ \A k \in DOMAIN known : k \in JudgeAll(truth, run) /\ \A j \in DOMAIN known[k] : known[k][j].outcome = "known"
  BY Short DEF IsLedger
<1> HIDE DEF known
<1>3. /\ IsLedger(ld) /\ \A k : k \in DOMAIN ld <=> k \in DOMAIN ledger \/ k \in DOMAIN known
      /\ \A k \in DOMAIN ld : \A i \in DOMAIN ld[k] :
            \/ k \in DOMAIN ledger /\ i \in DOMAIN ledger[k] /\ ld[k][i] = ledger[k][i]
            \/ k \in DOMAIN known /\ ld[k][i].outcome = "known"
  <2>1. IsLedger(ledger) /\ \A a \in {known} : IsLedger(a)
    BY <1>1, <1>2, Promised
  <2> QED
    BY <1>2, <2>1, LedgerSettled
<1>4. \A k \in DOMAIN known : k.kind = "mismatch"
  BY <1>2, Judged DEF JudgeAll
<1> HIDE DEF ld
<1>5. LedgerCites(ld, kept)
  BY <1>1, <1>3, Promised DEF LedgerCites
<1>6. SettledIn(truth, ld)
  BY <1>1, <1>3, <1>4, Promised DEF SettledIn
<1>7. Live(stage) /\ round \notin torn => Known(truth, ld)
  BY <1>1, <1>3, Promised DEF Known
<1>8. stage = "settled" => AllSettled(ld)
  BY <1>1, <1>3, Promised DEF AllSettled
<1> QED
  BY <1>1, <1>3, <1>5, <1>6, <1>7, <1>8, Promised, CommitStep

LEMMA RuleStep ==
    ASSUME TruthInv, NEW r \in Rulings, Rule(r)
    PROVE  TruthInv'
<1> DEFINE row == truth[r.sec]
           fs  == Differing(row, r.cells) \ Done(r)
           ch  == Restrict(r.cells, fs)
           e   == Entry(r.id, NoReport, row, fs, r.cells)
           tr  == With(truth, r.sec, SetCells(row, ch))
           lg  == [log EXCEPT ![r.sec] = @ \o e]
           st  == IF stage = "idle" THEN "idle" ELSE "changed"
<1>1. /\ ~Running /\ Commit(tr, lg, ledger, kept, st) /\ stage' = st
      /\ UNCHANGED <<files, roundVars, torn, held>>
  BY DEF Rule, Before, files, roundVars, loop
<1>2. r.sec \in DOMAIN truth /\ r.sec \in Secs /\ DOMAIN r.cells \subseteq Cells
  BY TruthRoundsAssumption DEF TruthInv, Shapes
<1>3. IsRow(row) /\ row = truth[r.sec]
  BY <1>2 DEF TruthInv, Shapes, IsTruth
<1>4. DOMAIN ch = fs /\ fs \subseteq DOMAIN r.cells /\ \A f \in fs : ch[f] = r.cells[f]
  BY DEF Restrict, Differing
<1>5. \A f, v : v = (IF f \in fs THEN r.cells[f] ELSE row.cells[f]) => Explains(e, f, row.cells[f], v)
  BY EntryExplains
<1>6. IsSeq(e) /\ \A i \in 1..Len(e) : e[i].report.round = 0
  BY EntryIs DEF NoReport
<1>7. /\ DOMAIN tr = DOMAIN truth /\ tr[r.sec] = SetCells(row, ch)
      /\ \A s \in DOMAIN truth \ {r.sec} : tr[s] = truth[s]
  BY <1>2 DEF With
<1>8. /\ DOMAIN lg = Secs /\ lg[r.sec] = log[r.sec] \o e
      /\ \A s \in Secs \ {r.sec} : lg[s] = log[s]
  BY <1>2 DEF TruthInv, Shapes, IsLog
<1> HIDE DEF row, fs, ch, e, tr, lg
<1>9. /\ IsRow(tr[r.sec]) /\ tr[r.sec].report = row.report
      /\ \A f \in Cells : tr[r.sec].cells[f] = IF f \in fs THEN r.cells[f] ELSE row.cells[f]
  BY <1>3, <1>4, <1>7, RowSet
<1>10. IsTruth(tr) /\ TruthCites(tr, kept)
  BY <1>1, <1>2, <1>3, <1>7, <1>9, Promised DEF IsTruth, TruthCites
<1>11. IsSeq(log[r.sec])
  BY <1>1, <1>2, Promised DEF IsLog
<1>12. IsLog(lg)
  <2>1. IsSeq(log[r.sec] \o e)
    BY <1>6, <1>11, Joined
  <2> QED
    BY <1>1, <1>8, <2>1, Promised DEF IsLog
<1>13. LogCites(lg, kept)
  <2>1. ASSUME NEW i \in 1..Len(log[r.sec] \o e) PROVE CitedIn(kept, r.sec, (log[r.sec] \o e)[i].report)
    <3>1. \A j \in 1..Len(log[r.sec]) : CitedIn(kept, r.sec, log[r.sec][j].report)
      BY <1>1, <1>2, Promised DEF LogCites
    <3>2. \A j \in 1..Len(e) : CitedIn(kept, r.sec, e[j].report)
      BY <1>6 DEF CitedIn
    <3>3. \/ i \in 1..Len(log[r.sec]) /\ (log[r.sec] \o e)[i] = log[r.sec][i]
          \/ i - Len(log[r.sec]) \in 1..Len(e) /\ (log[r.sec] \o e)[i] = e[i - Len(log[r.sec])]
      BY <2>1, <1>6, <1>11, JoinedAt
    <3> QED
      BY <3>1, <3>2, <3>3
  <2> QED
    BY <1>1, <1>8, <2>1, Promised DEF LogCites
<1>14. SettledIn(tr, ledger)
  BY <1>1, <1>7, Promised DEF SettledIn
<1>15. torn = {} => Traced(tr, lg)
  <2> SUFFICES ASSUME Traced(truth, log) PROVE Traced(tr, lg)
    BY <1>1, Promised
  <2>1. ASSUME NEW f \in Scored \cup {"status"}
        PROVE  /\ Links(lg[r.sec], f) /\ Ends(lg[r.sec], f, tr[r.sec].cells[f])
               /\ r.sec \in DOMAIN Truth0 => Starts(lg[r.sec], f, Truth0[r.sec].cells[f], tr[r.sec].cells[f])
    <3> DEFINE w == tr[r.sec].cells[f]
    <3>1. f \in Cells
      BY Names
    <3>2. Explains(e, f, row.cells[f], w)
      BY <1>5, <1>9, <3>1
    <3>3. /\ Links(log[r.sec], f) /\ Ends(log[r.sec], f, row.cells[f])
          /\ r.sec \in DOMAIN Truth0 => Starts(log[r.sec], f, Truth0[r.sec].cells[f], row.cells[f])
      BY <1>2, <1>3 DEF Traced, Explained
    <3> HIDE DEF w
    <3>4. /\ Links(log[r.sec] \o e, f) /\ Ends(log[r.sec] \o e, f, w)
          /\ \A u : Starts(log[r.sec], f, u, row.cells[f]) => Starts(log[r.sec] \o e, f, u, w)
      BY <1>6, <1>11, <3>2, <3>3, JoinedExplain
    <3> QED
      BY <1>8, <3>3, <3>4 DEF w
  <2>2. ASSUME NEW s \in DOMAIN tr, s # r.sec PROVE tr[s] = truth[s] /\ lg[s] = log[s] /\ s \in DOMAIN truth
    BY <2>2, <1>1, <1>7, <1>8, <1>10 DEF IsTruth
  <2>3. Explained(tr, lg)
    BY <2>1, <2>2 DEF Traced, Explained
  <2>4. \A s \in Secs \ DOMAIN tr : lg[s] = << >>
    BY <1>2, <1>7, <1>8 DEF Traced
  <2> QED
    BY <2>3, <2>4 DEF Traced
<1>16. AllWarranted(tr)
  <2>1. ASSUME NEW s \in DOMAIN tr, NEW f \in Scored PROVE Warranted(s, f, tr[s].cells[f])
    <3>1. f \in Cells
      BY Names
    <3>2. CASE s = r.sec /\ f \in fs
      BY <3>1, <3>2, <1>4, <1>9 DEF Warranted, Ruled
    <3>3. CASE ~(s = r.sec /\ f \in fs)
      BY <3>1, <3>3, <1>2, <1>3, <1>7, <1>9 DEF Warranted
    <3> QED
      BY <3>2, <3>3
  <2> QED
    BY <2>1 DEF AllWarranted
<1>17. ~Live(st)
  BY DEF Live
<1> HIDE DEF st
<1>18. stage' # "settled" /\ st # "settled"
  BY <1>1, <1>17 DEF Live
<1> QED
  BY <1>1, <1>7, <1>10, <1>12, <1>13, <1>14, <1>15, <1>16, <1>17, <1>18, Promised, CommitStep

-------------------------------------------------------------------------------
(* Closing a round.  What a case becomes: a row added, a row rewritten, or nothing. *)

LEMMA CaseApplied ==
    ASSUME TruthInv
    PROVE  /\ \A c \in Applied : /\ c \in cases /\ c \in DOMAIN records /\ CaseRight(c)
                                 /\ c \in CasesOf(c.sec) /\ TheCase(c.sec) = c
           /\ \A s : CasesOf(s) # {} => TheCase(s) \in Applied /\ TheCase(s).sec = s
<1>1. \A s : CasesOf(s) # {} => TheCase(s) \in Applied /\ TheCase(s).sec = s
  BY DEF CasesOf, TheCase
<1>2. \A c \in Applied : c \in cases /\ c \in DOMAIN records /\ CaseRight(c) /\ c \in CasesOf(c.sec)
  BY DEF TruthInv, RoundRight, Applied, CasesOf
<1>3. \A c, d \in cases : c.sec = d.sec => c = d
  BY DEF TruthInv, RoundRight
<1> QED
  BY <1>1, <1>2, <1>3

LEMMA LibraryRight ==
    ASSUME TruthInv, NEW c \in Applied, NEW e \in c.errors, Outcome(c, e) = "library_right"
    PROVE  /\ records[c].usable /\ records[c].right[e.field] = "library" /\ e.field \in records[c].cites
           /\ c.mode = "mismatch"
<1>1. records[c].usable /\ records[c].right[e.field] = "library" /\ e.field \in records[c].cites
  BY DEF Outcome
<1>2. records[c].right[e.field] \in Sides(c.mode)
  BY <1>1 DEF TruthInv, RoundRight, Applied, Fields
<1> QED
  BY <1>1, <1>2 DEF Sides

LEMMA RewritesAre ==
    ASSUME TruthInv, NEW c \in Applied, c.mode = "mismatch"
    PROVE  /\ DOMAIN Rewrites(c) \subseteq Scored
           /\ \A e \in c.errors : e.field \in Scored /\ Outcome(c, e) = "library_right" =>
                 e.field \in DOMAIN Rewrites(c) /\ Rewrites(c)[e.field] = e.b[e.field]
           /\ \A f \in DOMAIN Rewrites(c) :
                 /\ run.rows[c.sec] # NoRow /\ Rewrites(c)[f] = run.rows[c.sec][f]
                 /\ \E e \in c.errors : e.field = f /\ Outcome(c, e) = "library_right" /\ e.b[f] = Rewrites(c)[f]
<1> DEFINE right == {e \in c.errors : Outcome(c, e) = "library_right" /\ e.field \in Scored}
<1>1. Rewrites(c) = [f \in {e.field : e \in right} |-> ErrorOf(c, f).b[f]]
  BY DEF Rewrites
<1>2. \A e \in c.errors : ErrorOf(c, e.field) = e
  BY CaseApplied DEF CaseRight, ErrorOf
<1>3. \A e \in c.errors : e.field \in Scored =>
          run.rows[c.sec] # NoRow /\ e.b[e.field] = run.rows[c.sec][e.field]
  <2>1. CaseRight(c)
    BY CaseApplied
  <2>2. \A f, v : Cell(f, v)[f] = v
    BY DEF Cell
  <2> QED
    BY <2>1, <2>2 DEF CaseRight
<1>5. \A e \in right : e \in c.errors /\ Outcome(c, e) = "library_right" /\ e.field \in Scored
  OBVIOUS
<1>6. \A e \in c.errors : Outcome(c, e) = "library_right" /\ e.field \in Scored => e \in right
  OBVIOUS
<1> HIDE DEF right
<1>4. DOMAIN Rewrites(c) = {e.field : e \in right}
  BY <1>1
<1>7. \A e \in right : e.field \in DOMAIN Rewrites(c) /\ Rewrites(c)[e.field] = ErrorOf(c, e.field).b[e.field]
  BY <1>1, <1>4
<1>8. \A e \in right : e.field \in DOMAIN Rewrites(c) /\ Rewrites(c)[e.field] = e.b[e.field]
  BY <1>2, <1>5, <1>7
<1>9. \A f \in DOMAIN Rewrites(c) : \E e \in right : f = e.field
  BY <1>4
<1>10. \A f \in DOMAIN Rewrites(c) :
         /\ run.rows[c.sec] # NoRow /\ Rewrites(c)[f] = run.rows[c.sec][f]
         /\ \E e \in c.errors : e.field = f /\ Outcome(c, e) = "library_right" /\ e.b[f] = Rewrites(c)[f]
  BY <1>3, <1>5, <1>8, <1>9
<1>11. DOMAIN Rewrites(c) \subseteq Scored
  BY <1>5, <1>9
<1> QED
  BY <1>6, <1>8, <1>10, <1>11

LEMMA Rewritten ==
    ASSUME TruthInv, NEW c \in Applied, c.mode = "mismatch"
    PROVE  /\ c.sec \in DOMAIN truth
           /\ IsRow(MismatchRow(c)) /\ MismatchRow(c).report = truth[c.sec].report
           /\ MismatchRow(c).cells["shape"] = truth[c.sec].cells["shape"]
           /\ MismatchRow(c).cells["examined"] = truth[c.sec].cells["examined"]
           /\ \A f \in Scored : MismatchRow(c).cells[f] =
                 IF f \in DOMAIN Rewrites(c) THEN Rewrites(c)[f] ELSE truth[c.sec].cells[f]
           /\ \/ /\ MismatchRow(c).cells["status"] = truth[c.sec].cells["status"]
                 /\ MismatchRow(c).cells["fixed_by"] = truth[c.sec].cells["fixed_by"]
              \/ MismatchRow(c).cells["status"] = "ruling_pending" /\ MismatchRow(c).cells["fixed_by"] = ""
<1> DEFINE old == truth[c.sec]
           mid == SetCells(old, Rewrites(c))
<1>1. c.sec \in DOMAIN truth /\ IsRow(old)
  BY CaseApplied DEF CaseRight, TruthInv, Shapes, IsTruth
<1>2. /\ IsRow(mid) /\ mid.report = old.report
      /\ \A f \in Cells : mid.cells[f] = IF f \in DOMAIN Rewrites(c) THEN Rewrites(c)[f] ELSE old.cells[f]
  BY <1>1, RowSet
<1>3. mid.cells["status"] = old.cells["status"] /\ mid.cells["fixed_by"] = old.cells["fixed_by"]
        /\ mid.cells["shape"] = old.cells["shape"] /\ mid.cells["examined"] = old.cells["examined"]
  BY <1>2, Names, RewritesAre
<1>4. MismatchRow(c) = IF ToOperator(c) THEN MoveStatus(mid, "ruling_pending") ELSE mid
  BY DEF MismatchRow
<1> HIDE DEF old, mid
<1>5. CASE ~ToOperator(c)
  <2>1. MismatchRow(c) = mid
    BY <1>4, <1>5
  <2>2. \A f \in Scored : mid.cells[f] = IF f \in DOMAIN Rewrites(c) THEN Rewrites(c)[f] ELSE old.cells[f]
    BY <1>2, Names
  <2> QED
    BY <1>1, <1>2, <1>3, <2>1, <2>2 DEF old
<1>6. CASE ToOperator(c)
  <2> DEFINE row == MoveStatus(mid, "ruling_pending")
  <2>0. IsRow(mid)
    BY <1>2
  <2>a. OnlyStatus(mid, row, "ruling_pending")
    <3> HIDE DEF mid
    <3> QED
      BY <2>0, StatusMoved
  <2>5. row = MismatchRow(c)
    BY <1>4, <1>6
  <2> HIDE DEF row
  <2>1. IsRow(row) /\ row.report = mid.report /\ row.cells["status"] = "ruling_pending"
    BY <2>a DEF OnlyStatus
  <2>2. \A f \in Cells \ {"status", "fixed_by"} : row.cells[f] = mid.cells[f]
    BY <2>a DEF OnlyStatus
  <2>3. mid.cells["status"] = "ruling_pending" => row = mid
    BY <2>a DEF OnlyStatus
  <2>4. mid.cells["status"] # "ruling_pending" => row.cells["fixed_by"] = ""
    BY <2>a DEF OnlyStatus
  <2>6. \A f \in Scored \cup {"shape", "examined"} : row.cells[f] = mid.cells[f]
    BY <2>2, Names
  <2>7. \A f \in Scored : row.cells[f] = IF f \in DOMAIN Rewrites(c) THEN Rewrites(c)[f] ELSE old.cells[f]
    BY <1>2, <2>6, Names
  <2>8. row.cells["shape"] = old.cells["shape"] /\ row.cells["examined"] = old.cells["examined"]
    BY <1>3, <2>6
  <2>9. \/ row.cells["status"] = old.cells["status"] /\ row.cells["fixed_by"] = old.cells["fixed_by"]
        \/ row.cells["status"] = "ruling_pending" /\ row.cells["fixed_by"] = ""
    BY <1>3, <2>1, <2>3, <2>4
  <2> QED
    BY <1>1, <1>2, <2>1, <2>5, <2>7, <2>8, <2>9 DEF old
<1> QED
  BY <1>5, <1>6

LEMMA RoundRows ==
    ASSUME TruthInv
    PROVE  /\ \A s : s \in DOMAIN RoundTruth <=> s \in DOMAIN truth \/ \E c \in Applied : c.sec = s /\ Adds(c)
           /\ \A s \in DOMAIN RoundTruth :
                 \/ s \in DOMAIN truth /\ RoundTruth[s] = truth[s] /\ \A c \in Applied : c.sec = s => c.mode = "regression"
                 \/ \E c \in Applied : c.sec = s /\ Adds(c) /\ s \notin DOMAIN truth /\ RoundTruth[s] = AddedRow(c)
                 \/ \E c \in Applied : c.sec = s /\ c.mode = "mismatch" /\ s \in DOMAIN truth /\ RoundTruth[s] = MismatchRow(c)
<1> DEFINE added == {c.sec : c \in {x \in Applied : Adds(x)}}
<1>1. DOMAIN RoundTruth = DOMAIN truth \cup added
  BY DEF RoundTruth
<1>2. ASSUME NEW s \in DOMAIN RoundTruth
      PROVE  RoundTruth[s] = IF CasesOf(s) = {} THEN truth[s]
                             ELSE IF Adds(TheCase(s)) THEN AddedRow(TheCase(s))
                             ELSE IF TheCase(s).mode = "mismatch" THEN MismatchRow(TheCase(s))
                             ELSE truth[s]
  BY DEF RoundTruth
<1>3. \A s : s \in added <=> \E c \in Applied : c.sec = s /\ Adds(c)
  OBVIOUS
<1> HIDE DEF added
<1>4. \A c \in Applied : c.mode \in {"mismatch", "regression"}
  BY CaseApplied DEF CaseRight
<1>5. \A c \in Applied : Adds(c) => c.mode = "regression" /\ c.sec \notin DOMAIN truth
  BY DEF Adds
<1>6. \A c \in Applied : c.mode = "mismatch" => c.sec \in DOMAIN truth
  BY CaseApplied DEF CaseRight
<1>7. \A c \in Applied : c \in CasesOf(c.sec) /\ TheCase(c.sec) = c
  BY CaseApplied
<1>8. \A s : CasesOf(s) # {} => TheCase(s) \in Applied /\ TheCase(s).sec = s
  BY CaseApplied
<1>9. ASSUME NEW s \in DOMAIN RoundTruth
      PROVE  \/ s \in DOMAIN truth /\ RoundTruth[s] = truth[s] /\ \A c \in Applied : c.sec = s => c.mode = "regression"
             \/ \E c \in Applied : c.sec = s /\ Adds(c) /\ s \notin DOMAIN truth /\ RoundTruth[s] = AddedRow(c)
             \/ \E c \in Applied : c.sec = s /\ c.mode = "mismatch" /\ s \in DOMAIN truth /\ RoundTruth[s] = MismatchRow(c)
  <2>1. CASE CasesOf(s) = {}
    <3>1. \A c \in Applied : c.sec # s
      BY <2>1, <1>7
    <3>2. s \in DOMAIN truth
      BY <3>1, <1>1, <1>3
    <3> QED
      BY <2>1, <3>1, <3>2, <1>2
  <2>2. CASE CasesOf(s) # {} /\ Adds(TheCase(s))
    BY <2>2, <1>2, <1>5, <1>8
  <2>3. CASE CasesOf(s) # {} /\ ~Adds(TheCase(s)) /\ TheCase(s).mode = "mismatch"
    BY <2>3, <1>2, <1>6, <1>8
  <2>4. CASE CasesOf(s) # {} /\ ~Adds(TheCase(s)) /\ TheCase(s).mode # "mismatch"
    <3>1. \A c \in Applied : c.sec = s => c = TheCase(s)
      BY <1>7
    <3>2. s \in DOMAIN truth
      BY <2>4, <3>1, <1>1, <1>3
    <3> QED
      BY <2>4, <3>1, <3>2, <1>2, <1>4
  <2> QED
    BY <2>1, <2>2, <2>3, <2>4
<1> QED
  BY <1>1, <1>3, <1>9

LEMMA OwnCase ==
    ASSUME TruthInv, NEW c \in Applied, NEW d \in Applied, c.sec = d.sec
    PROVE  c = d
  BY CaseApplied

(* The reports kept, those of this round included. *)
Keeping == kept \cup {<<c.sec, round>> : c \in KeptReports}

LEMMA Recited ==
    /\ \A c \in KeptReports : CitedIn(Keeping, c.sec, Cite(c))
    /\ \A c \in Applied : Changes(c) => c \in KeptReports
    /\ \A c \in Applied : \A e \in c.errors : Outcome(c, e) = "pending" => c \in KeptReports
    /\ \A s, rep : CitedIn(kept, s, rep) => CitedIn(Keeping, s, rep)
<1>1. \A c \in KeptReports : CitedIn(Keeping, c.sec, Cite(c))
  BY DEF CitedIn, Cite, Keeping
<1>2. \A c \in Applied : Changes(c) => c \in KeptReports
  BY DEF KeptReports
<1>3. \A c \in Applied : \A e \in c.errors : Outcome(c, e) = "pending" => c \in KeptReports
  BY DEF KeptReports
<1>4. \A s, rep : CitedIn(kept, s, rep) => CitedIn(Keeping, s, rep)
  BY DEF CitedIn, Keeping
<1> QED
  BY <1>1, <1>2, <1>3, <1>4

LEMMA RowAdded ==
    ASSUME NEW c
    PROVE  /\ IsRow(AddedRow(c)) /\ AddedRow(c).report = Cite(c)
           /\ AddedRow(c).cells = IF Decided(c) THEN RegressionCells(c) ELSE PendingCells
<1>1. DOMAIN RegressionCells(c) = Cells
  BY DEF RegressionCells
<1>2. DOMAIN PendingCells = Cells
  BY DEF PendingCells
<1> QED
  BY <1>1, <1>2 DEF AddedRow, AddedCells, IsRow

LEMMA EntriesCite ==
    ASSUME TruthInv, NEW c \in Applied
    PROVE  /\ IsSeq(Entries(c))
           /\ \A i \in 1..Len(Entries(c)) : Changes(c) /\ Entries(c)[i].report = Cite(c)
<1>1. CASE Adds(c)
  <2>1. PICK e : Entries(c) = <<e>> /\ e.report = Cite(c)
    BY <1>1 DEF Entries
  <2>2. Changes(c)
    BY <1>1 DEF Changes
  <2> QED
    BY <2>1, <2>2, Short
<1>2. CASE ~Adds(c) /\ c.mode = "regression"
  BY <1>2, Short DEF Entries
<1>3. CASE ~Adds(c) /\ c.mode # "regression"
  <2> DEFINE row == truth[c.sec]
             l == Entry("round", Cite(c), row, Differing(row, Rewrites(c)), Rewrites(c))
             m == IF ToOperator(c) THEN StatusEntry("round", Cite(c), row, "ruling_pending") ELSE << >>
  <2>1. Entries(c) = l \o m
    BY <1>3 DEF Entries
  <2>2. c.mode = "mismatch"
    BY <1>3, CaseApplied DEF CaseRight
  <2>3. IsSeq(l) /\ \A i \in 1..Len(l) : Differing(row, Rewrites(c)) # {} /\ l[i].report = Cite(c)
    BY EntryIs
  <2>4. IsSeq(m) /\ \A i \in 1..Len(m) : /\ ToOperator(c) /\ row.cells["status"] # "ruling_pending"
                                         /\ m[i].report = Cite(c)
    <3> DEFINE fs == Differing(row, Cell("status", "ruling_pending"))
               k == StatusEntry("round", Cite(c), row, "ruling_pending")
    <3>1. IsSeq(k) /\ \A i \in 1..Len(k) : fs # {} /\ k[i].report = Cite(c)
      BY EntryIs DEF StatusEntry
    <3>2. fs # {} => row.cells["status"] # "ruling_pending"
      BY DEF Differing, Cell
    <3> HIDE DEF fs, k
    <3>3. m = IF ToOperator(c) THEN k ELSE << >>
      BY DEF k
    <3> HIDE DEF m
    <3> QED
      BY <3>1, <3>2, <3>3, Short
  <2>5. /\ Differing(row, Rewrites(c)) # {} => Changes(c)
        /\ ToOperator(c) /\ row.cells["status"] # "ruling_pending" => Changes(c)
    BY <2>2 DEF Changes
  <2> HIDE DEF row, l, m
  <2> QED
    BY <2>1, <2>3, <2>4, <2>5, Joined, JoinedAt
<1> QED
  BY <1>1, <1>2, <1>3

LEMMA EntriesExplain ==
    ASSUME TruthInv, NEW c \in Applied, c.mode = "mismatch", NEW f \in Scored \cup {"status"}
    PROVE  Explains(Entries(c), f, truth[c.sec].cells[f], MismatchRow(c).cells[f])
<1> DEFINE row == truth[c.sec]
           mid == SetCells(row, Rewrites(c))
           l == Entry("round", Cite(c), row, Differing(row, Rewrites(c)), Rewrites(c))
           m == IF ToOperator(c) THEN StatusEntry("round", Cite(c), mid, "ruling_pending") ELSE << >>
           w == MismatchRow(c).cells[f]
<1>1. IsRow(row) /\ f \in Cells /\ "status" \in Cells /\ "status" \notin DOMAIN Rewrites(c)
  BY Names, RewritesAre, CaseApplied DEF CaseRight, TruthInv, Shapes, IsTruth
<1>2. IsRow(mid) /\ \A x \in Cells : mid.cells[x] = IF x \in DOMAIN Rewrites(c) THEN Rewrites(c)[x] ELSE row.cells[x]
  BY <1>1, RowSet
<1>3. StatusEntry("round", Cite(c), row, "ruling_pending") = StatusEntry("round", Cite(c), mid, "ruling_pending")
  <2> DEFINE ch == Cell("status", "ruling_pending")
  <2>1. mid.cells["status"] = row.cells["status"]
    BY <1>1, <1>2
  <2>2. DOMAIN ch = {"status"}
    BY DEF Cell
  <2> HIDE DEF mid, row, ch
  <2>3. Differing(row, ch) = Differing(mid, ch) /\ Differing(row, ch) \subseteq {"status"}
    BY <2>1, <2>2 DEF Differing
  <2>4. Restrict(row.cells, Differing(row, ch)) = Restrict(mid.cells, Differing(row, ch))
    BY <2>1, <2>3 DEF Restrict
  <2> QED
    BY <2>3, <2>4 DEF StatusEntry, Entry, ch
<1>4. Entries(c) = l \o m
  BY <1>3 DEF Entries, Adds
<1>5. IsSeq(l) /\ IsSeq(m)
  BY EntryIs, Short DEF StatusEntry
<1>6. MismatchRow(c) = IF ToOperator(c) THEN MoveStatus(mid, "ruling_pending") ELSE mid
  BY DEF MismatchRow
<1>7. mid.cells[f] = IF f \in Differing(row, Rewrites(c)) THEN Rewrites(c)[f] ELSE row.cells[f]
  BY <1>1, <1>2 DEF Differing
<1>8. Explains(l, f, row.cells[f], mid.cells[f])
  BY <1>7, EntryExplains
<1> HIDE DEF row, mid, l
<1>9. Explains(m, f, mid.cells[f], w)
  BY <1>2, <1>6, StatusExplains, NothingExplains
<1> HIDE DEF m, w
<1>10. Explains(l \o m, f, row.cells[f], w)
  BY <1>5, <1>8, <1>9, JoinedExplain DEF Explains
<1> QED
  BY <1>4, <1>10 DEF row, w

(* What a round appends to the log of a security. *)
Appended(s) == IF CasesOf(s) = {} THEN << >> ELSE Entries(TheCase(s))

LEMMA LogAppended ==
    ASSUME TruthInv
    PROVE  /\ \A s : IsSeq(Appended(s))
           /\ \A s \in Secs : RoundLog[s] = log[s] \o Appended(s)
           /\ \A c \in Applied : Appended(c.sec) = Entries(c)
           /\ \A s : (\A c \in Applied : c.sec # s) => Appended(s) = << >>
           /\ \A c \in Applied : c.mode = "regression" /\ ~Adds(c) => Appended(c.sec) = << >>
<1>1. \A s \in Secs : RoundLog[s] = log[s] \o Appended(s)
  BY DEF RoundLog, Appended
<1>2. \A c \in Applied : Appended(c.sec) = Entries(c)
  BY CaseApplied DEF Appended
<1>3. \A s : CasesOf(s) # {} => TheCase(s) \in Applied /\ TheCase(s).sec = s
  BY CaseApplied
<1>4. \A s : (\A c \in Applied : c.sec # s) => Appended(s) = << >>
  BY <1>3 DEF Appended
<1>5. \A s : IsSeq(Appended(s))
  BY <1>3, EntriesCite, Short DEF Appended
<1>6. \A c \in Applied : c.mode = "regression" /\ ~Adds(c) => Appended(c.sec) = << >>
  BY <1>2 DEF Entries
<1> QED
  BY <1>1, <1>2, <1>4, <1>5, <1>6

LEMMA CloseLog ==
    ASSUME TruthInv, ~Running
    PROVE  IsLog(RoundLog) /\ LogCites(RoundLog, Keeping)
<1>1. \A s \in Secs : RoundLog[s] = log[s] \o Appended(s) /\ IsSeq(log[s]) /\ IsSeq(Appended(s))
  BY LogAppended, Promised DEF IsLog
<1>2. IsLog(RoundLog)
  <2>1. DOMAIN RoundLog = Secs
    BY DEF RoundLog
  <2>2. \A s \in Secs : IsSeq(log[s] \o Appended(s))
    BY <1>1, Joined
  <2> QED
    BY <1>1, <2>1, <2>2 DEF IsLog
<1>3. ASSUME NEW s \in Secs, NEW i \in 1..Len(log[s] \o Appended(s))
      PROVE  CitedIn(Keeping, s, (log[s] \o Appended(s))[i].report)
  <2>1. ASSUME NEW j \in 1..Len(log[s]) PROVE CitedIn(Keeping, s, log[s][j].report)
    BY Promised, Recited DEF LogCites
  <2>2. ASSUME NEW j \in 1..Len(Appended(s)) PROVE CitedIn(Keeping, s, Appended(s)[j].report)
    <3>1. PICK c \in Applied : c.sec = s
      BY LogAppended, Short
    <3>2. Appended(s) = Entries(c)
      BY <3>1, LogAppended
    <3>3. Changes(c) /\ Entries(c)[j].report = Cite(c)
      BY <3>2, EntriesCite
    <3> QED
      BY <3>1, <3>2, <3>3, Recited
  <2>3. IsSeq(log[s]) /\ IsSeq(Appended(s))
    BY <1>1
  <2>4. \/ i \in 1..Len(log[s]) /\ (log[s] \o Appended(s))[i] = log[s][i]
        \/ i - Len(log[s]) \in 1..Len(Appended(s)) /\ (log[s] \o Appended(s))[i] = Appended(s)[i - Len(log[s])]
    BY <2>3, JoinedAt
  <2> QED
    BY <2>1, <2>2, <2>4
<1> QED
  BY <1>1, <1>2, <1>3 DEF LogCites

LEMMA CloseTruth ==
    ASSUME TruthInv, ~Running
    PROVE  IsTruth(RoundTruth) /\ DOMAIN truth \subseteq DOMAIN RoundTruth /\ TruthCites(RoundTruth, Keeping)
<1>1. DOMAIN truth \subseteq DOMAIN RoundTruth /\ DOMAIN RoundTruth \subseteq Secs
  BY RoundRows, CaseApplied, Promised DEF IsTruth, CaseRight
<1>2. ASSUME NEW s \in DOMAIN RoundTruth
      PROVE  IsRow(RoundTruth[s]) /\ CitedIn(Keeping, s, RoundTruth[s].report)
  <2>1. CASE s \in DOMAIN truth /\ RoundTruth[s] = truth[s]
    BY <2>1, Promised, Recited DEF IsTruth, TruthCites
  <2>2. ASSUME NEW c \in Applied, c.sec = s, Adds(c), RoundTruth[s] = AddedRow(c)
        PROVE  IsRow(RoundTruth[s]) /\ CitedIn(Keeping, s, RoundTruth[s].report)
    <3>1. c \in KeptReports
      BY <2>2, Recited DEF Changes
    <3> QED
      BY <2>2, <3>1, RowAdded, Recited
  <2>3. ASSUME NEW c \in Applied, c.sec = s, c.mode = "mismatch", RoundTruth[s] = MismatchRow(c)
        PROVE  IsRow(RoundTruth[s]) /\ CitedIn(Keeping, s, RoundTruth[s].report)
    <3>1. IsRow(MismatchRow(c)) /\ MismatchRow(c).report = truth[s].report /\ s \in DOMAIN truth
      BY <2>3, Rewritten
    <3> QED
      BY <2>3, <3>1, Promised, Recited DEF TruthCites
  <2> QED
    BY <2>1, <2>2, <2>3, RoundRows
<1> QED
  BY <1>1, <1>2 DEF IsTruth, TruthCites

LEMMA CloseTraced ==
    ASSUME TruthInv, ~Running, Traced(truth, log)
    PROVE  Traced(RoundTruth, RoundLog)
<1>1. IsLog(log) /\ DOMAIN RoundTruth \subseteq Secs
  BY CloseTruth, Promised DEF IsTruth
<1>2. \A s \in Secs : RoundLog[s] = log[s] \o Appended(s) /\ IsSeq(log[s]) /\ IsSeq(Appended(s))
  BY <1>1, LogAppended DEF IsLog
<1>3. ASSUME NEW s \in DOMAIN truth, NEW f \in Scored \cup {"status"}
      PROVE  s \in DOMAIN RoundTruth /\ Explains(Appended(s), f, truth[s].cells[f], RoundTruth[s].cells[f])
  <2>0. s \in DOMAIN RoundTruth
    BY CloseTruth
  <2>1. CASE RoundTruth[s] = truth[s] /\ \A c \in Applied : c.sec = s => c.mode = "regression"
    <3>1. Appended(s) = << >>
      BY <2>1, LogAppended DEF Adds
    <3> QED
      BY <2>0, <2>1, <3>1, NothingExplains
  <2>2. ASSUME NEW c \in Applied, c.sec = s, c.mode = "mismatch", RoundTruth[s] = MismatchRow(c)
        PROVE  Explains(Appended(s), f, truth[s].cells[f], RoundTruth[s].cells[f])
    BY <2>2, LogAppended, EntriesExplain
  <2> QED
    BY <2>0, <2>1, <2>2, RoundRows
<1>4. ASSUME NEW s \in DOMAIN RoundTruth, s \notin DOMAIN truth, NEW f \in Scored \cup {"status"}
      PROVE  \A v : Explains(Appended(s), f, v, v)
  <2>1. PICK c \in Applied : c.sec = s /\ Adds(c)
    BY <1>4, RoundRows
  <2>2. PICK e : Entries(c) = <<e>> /\ e.old = << >>
    BY <2>1 DEF Entries, NoRow
  <2>3. ~Touches(e, f)
    BY <2>2 DEF Touches
  <2>4. Appended(s) = <<e>>
    BY <2>1, <2>2, LogAppended
  <2> QED
    BY <2>3, <2>4, OneExplains
<1>5. ASSUME NEW s \in DOMAIN RoundTruth, NEW f \in Scored \cup {"status"}
      PROVE  /\ Links(RoundLog[s], f) /\ Ends(RoundLog[s], f, RoundTruth[s].cells[f])
             /\ s \in DOMAIN Truth0 => Starts(RoundLog[s], f, Truth0[s].cells[f], RoundTruth[s].cells[f])
  <2> DEFINE w == RoundTruth[s].cells[f]
  <2>0. s \in Secs
    BY <1>1
  <2>1. CASE s \in DOMAIN truth
    <3> DEFINE v == truth[s].cells[f]
    <3>1. /\ Links(log[s], f) /\ Ends(log[s], f, v)
          /\ s \in DOMAIN Truth0 => Starts(log[s], f, Truth0[s].cells[f], v)
      BY <2>1 DEF Traced, Explained
    <3>2. Explains(Appended(s), f, v, w)
      BY <1>3, <2>1
    <3> HIDE DEF v, w
    <3>3. /\ Links(log[s] \o Appended(s), f) /\ Ends(log[s] \o Appended(s), f, w)
          /\ \A u : Starts(log[s], f, u, v) => Starts(log[s] \o Appended(s), f, u, w)
      BY <1>2, <2>0, <3>1, <3>2, JoinedExplain
    <3> QED
      BY <1>2, <2>0, <3>1, <3>3 DEF w
  <2>2. CASE s \notin DOMAIN truth
    <3>1. log[s] = << >> /\ s \notin DOMAIN Truth0
      BY <2>0, <2>2 DEF Traced, TruthInv, Shapes
    <3>2. Links(log[s], f) /\ Ends(log[s], f, w)
      BY <3>1, NothingExplains DEF Explains
    <3>3. Explains(Appended(s), f, w, w)
      BY <1>4, <2>2
    <3> HIDE DEF w
    <3>4. Links(log[s] \o Appended(s), f) /\ Ends(log[s] \o Appended(s), f, w)
      BY <1>2, <2>0, <3>2, <3>3, JoinedExplain
    <3> QED
      BY <1>2, <2>0, <3>1, <3>4 DEF w
  <2> QED
    BY <2>1, <2>2
<1>6. ASSUME NEW s \in Secs \ DOMAIN RoundTruth PROVE RoundLog[s] = << >>
  <2>1. s \notin DOMAIN truth /\ \A c \in Applied : c.sec = s => ~Adds(c)
    BY RoundRows
  <2>2. \A c \in Applied : c.sec = s => c.mode = "regression"
    BY <2>1, CaseApplied DEF CaseRight
  <2>3. Appended(s) = << >>
    BY <2>1, <2>2, LogAppended
  <2>4. log[s] = << >>
    BY <2>1 DEF Traced
  <2>5. << >> \o << >> = << >>
    OBVIOUS
  <2> QED
    BY <1>2, <2>3, <2>4, <2>5
<1> QED
  BY <1>1, <1>5, <1>6 DEF Traced, Explained

LEMMA RowsSettled ==
    ASSUME NEW c
    PROVE  /\ IsLedger(LedgerRows(c))
           /\ \A k : k \in DOMAIN LedgerRows(c) <=> k \in c.errors \/ k \in NewRowKeys(c)
           /\ \A k \in DOMAIN LedgerRows(c) : \A i \in DOMAIN LedgerRows(c)[k] :
                 /\ LedgerRows(c)[k][i].report = Cite(c)
                 /\ LedgerRows(c)[k][i].outcome = IF k \in c.errors THEN Outcome(c, k) ELSE "truth_right"
<1> DEFINE row(k) == [outcome |-> IF k \in c.errors THEN Outcome(c, k) ELSE "truth_right", report |-> Cite(c)]
<1>1. LedgerRows(c) = [k \in c.errors \cup NewRowKeys(c) |-> << row(k) >>]
  BY DEF LedgerRows
<1>2. \A k : row(k).report = Cite(c) /\ row(k).outcome = IF k \in c.errors THEN Outcome(c, k) ELSE "truth_right"
  OBVIOUS
<1> HIDE DEF row
<1>3. \A k \in DOMAIN LedgerRows(c) : LedgerRows(c)[k] = << row(k) >>
  BY <1>1
<1>4. \A k \in DOMAIN LedgerRows(c) : \A i \in DOMAIN LedgerRows(c)[k] : LedgerRows(c)[k][i] = row(k)
  BY <1>3, Short
<1>5. IsLedger(LedgerRows(c))
  BY <1>3, Short DEF IsLedger
<1>6. \A k : k \in DOMAIN LedgerRows(c) <=> k \in c.errors \/ k \in NewRowKeys(c)
  BY <1>1
<1> QED
  BY <1>2, <1>4, <1>5, <1>6

LEMMA NewKeys ==
    ASSUME NEW c, NEW k \in NewRowKeys(c)
    PROVE  Adds(c) /\ k.sec = c.sec /\ k.kind = "mismatch"
<1>1. Adds(c) /\ k \in Judge(c.sec, AddedRow(c), run)
  BY DEF NewRowKeys
<1> QED
  BY <1>1, Judged

LEMMA CloseLedger ==
    ASSUME TruthInv, ~Running
    PROVE  /\ IsLedger(RoundLedger) /\ LedgerCites(RoundLedger, Keeping)
           /\ \A k : k \in DOMAIN RoundLedger <=>
                        k \in DOMAIN ledger \/ \E c \in Applied : k \in c.errors \/ k \in NewRowKeys(c)
           /\ \A k \in DOMAIN RoundLedger : \A i \in DOMAIN RoundLedger[k] :
                 \/ k \in DOMAIN ledger /\ i \in DOMAIN ledger[k] /\ RoundLedger[k][i] = ledger[k][i]
                 \/ \E c \in Applied : k \in c.errors /\ RoundLedger[k][i].outcome = Outcome(c, k)
                 \/ \E c \in Applied : k \in NewRowKeys(c) /\ RoundLedger[k][i].outcome = "truth_right"
<1> DEFINE added == {LedgerRows(c) : c \in Applied}
<1>1. IsLedger(ledger) /\ LedgerCites(ledger, kept)
  BY Promised
<1>2. RoundLedger = Settle(ledger, added)
  BY DEF RoundLedger
<1>3. \A a \in added : IsLedger(a)
  BY RowsSettled
<1>4. \A a : a \in added <=> \E c \in Applied : a = LedgerRows(c)
  OBVIOUS
<1> HIDE DEF added
<1>5. /\ IsLedger(RoundLedger)
      /\ \A k : k \in DOMAIN RoundLedger <=> k \in DOMAIN ledger \/ \E a \in added : k \in DOMAIN a
  BY <1>1, <1>2, <1>3, LedgerSettled
<1>6. \A k \in DOMAIN RoundLedger : \A i \in DOMAIN RoundLedger[k] :
         \/ k \in DOMAIN ledger /\ i \in DOMAIN ledger[k] /\ RoundLedger[k][i] = ledger[k][i]
         \/ \E a \in added : k \in DOMAIN a /\ \E j \in DOMAIN a[k] : RoundLedger[k][i] = a[k][j]
  BY <1>1, <1>2, <1>3, LedgerSettled
<1>7. \A k : k \in DOMAIN RoundLedger <=> k \in DOMAIN ledger \/ \E c \in Applied : k \in c.errors \/ k \in NewRowKeys(c)
  <2>1. \A k : (\E a \in added : k \in DOMAIN a) <=> \E c \in Applied : k \in DOMAIN LedgerRows(c)
    BY <1>4
  <2> QED
    BY <1>5, <2>1, RowsSettled
<1>8. ASSUME NEW k \in DOMAIN RoundLedger, NEW i \in DOMAIN RoundLedger[k]
      PROVE  \/ k \in DOMAIN ledger /\ i \in DOMAIN ledger[k] /\ RoundLedger[k][i] = ledger[k][i]
             \/ \E c \in Applied : /\ k \in c.errors \/ k \in NewRowKeys(c)
                                   /\ RoundLedger[k][i].report = Cite(c)
                                   /\ RoundLedger[k][i].outcome = IF k \in c.errors THEN Outcome(c, k) ELSE "truth_right"
  <2>1. CASE k \in DOMAIN ledger /\ i \in DOMAIN ledger[k] /\ RoundLedger[k][i] = ledger[k][i]
    BY <2>1
  <2>2. ASSUME NEW a \in added, k \in DOMAIN a, NEW j \in DOMAIN a[k], RoundLedger[k][i] = a[k][j]
        PROVE  \E c \in Applied : /\ k \in c.errors \/ k \in NewRowKeys(c)
                                  /\ RoundLedger[k][i].report = Cite(c)
                                  /\ RoundLedger[k][i].outcome = IF k \in c.errors THEN Outcome(c, k) ELSE "truth_right"
    <3>1. PICK c \in Applied : a = LedgerRows(c)
      BY <1>4
    <3>2. k \in c.errors \/ k \in NewRowKeys(c)
      BY <2>2, <3>1, RowsSettled
    <3>3. a[k][j].report = Cite(c) /\ a[k][j].outcome = IF k \in c.errors THEN Outcome(c, k) ELSE "truth_right"
      BY <2>2, <3>1, RowsSettled
    <3> QED
      BY <2>2, <3>2, <3>3
  <2> QED
    BY <1>6, <2>1, <2>2
<1>9. LedgerCites(RoundLedger, Keeping)
  <2> SUFFICES ASSUME NEW k \in DOMAIN RoundLedger, NEW i \in DOMAIN RoundLedger[k],
                      RoundLedger[k][i].outcome = "pending"
               PROVE  CitedIn(Keeping, k.sec, RoundLedger[k][i].report)
    BY DEF LedgerCites
  <2>1. CASE k \in DOMAIN ledger /\ i \in DOMAIN ledger[k] /\ RoundLedger[k][i] = ledger[k][i]
    BY <1>1, <2>1, Recited DEF LedgerCites
  <2>2. ASSUME NEW c \in Applied, k \in c.errors \/ k \in NewRowKeys(c),
               RoundLedger[k][i].report = Cite(c),
               RoundLedger[k][i].outcome = IF k \in c.errors THEN Outcome(c, k) ELSE "truth_right"
        PROVE  CitedIn(Keeping, k.sec, RoundLedger[k][i].report)
    <3>1. k \in c.errors /\ Outcome(c, k) = "pending"
      BY <2>2
    <3>2. k.sec = c.sec
      BY <3>1, CaseApplied DEF CaseRight
    <3> QED
      BY <2>2, <3>1, <3>2, Recited
  <2> QED
    BY <1>8, <2>1, <2>2
<1>10. ASSUME NEW k \in DOMAIN RoundLedger, NEW i \in DOMAIN RoundLedger[k]
       PROVE  \/ k \in DOMAIN ledger /\ i \in DOMAIN ledger[k] /\ RoundLedger[k][i] = ledger[k][i]
              \/ \E c \in Applied : k \in c.errors /\ RoundLedger[k][i].outcome = Outcome(c, k)
              \/ \E c \in Applied : k \in NewRowKeys(c) /\ RoundLedger[k][i].outcome = "truth_right"
  BY <1>8
<1> QED
  BY <1>5, <1>7, <1>9, <1>10

(* What the report says of a column, and of a whole row. *)
LEMMA ReportedColumn ==
    ASSUME NEW s, NEW a, NEW b, NEW e \in Diff(s, a, b), e.field \in Columns
    PROVE  a # NoRow /\ b # NoRow /\ e.a = Cell(e.field, a[e.field]) /\ e.b = Cell(e.field, b[e.field])
<1>1. CASE a = NoRow \/ b = NoRow
  <2>1. e.field = "added" \/ e.field = "removed"
    BY <1>1 DEF Diff, Regression
  <2> QED
    BY <2>1, Names
<1>2. CASE ~(a = NoRow \/ b = NoRow)
  <2>1. PICK f \in Columns : e = Regression(s, f, Cell(f, a[f]), Cell(f, b[f]))
    BY <1>2 DEF Diff
  <2> QED
    BY <1>2, <2>1 DEF Regression
<1> QED
  BY <1>1, <1>2

LEMMA ReportedWhole ==
    ASSUME NEW s, NEW a, NEW b, NEW e \in Diff(s, a, b)
    PROVE  /\ e.field \in Columns \/ e.field \in Whole
           /\ e.field \in Whole => b = NoRow \/ (e.field = "added" /\ e.b = Restrict(b, Brief))
<1>1. CASE a = NoRow \/ b = NoRow
  <2>1. \/ e = Regression(s, "added", NoRow, Restrict(b, Brief)) /\ b # NoRow
        \/ e = Regression(s, "removed", Restrict(a, Brief), NoRow) /\ b = NoRow
    BY <1>1 DEF Diff
  <2> QED
    BY <2>1 DEF Regression, Whole
<1>2. CASE ~(a = NoRow \/ b = NoRow)
  <2>1. PICK f \in Columns : e = Regression(s, f, Cell(f, a[f]), Cell(f, b[f]))
    BY <1>2 DEF Diff
  <2>2. e.field = f
    BY <2>1 DEF Regression
  <2> QED
    BY <2>2, Names DEF Whole
<1> QED
  BY <1>1, <1>2

LEMMA RowOf ==
    ASSUME TruthInv, NEW c \in Applied, c.mode = "mismatch"
    PROVE  c.sec \in DOMAIN RoundTruth /\ RoundTruth[c.sec] = MismatchRow(c)
<1>1. c.sec \in DOMAIN truth
  BY Rewritten
<1>2. c.sec \in DOMAIN RoundTruth
  BY <1>1, RoundRows
<1>3. "mismatch" # "regression"
  OBVIOUS
<1>4. \E d \in Applied : d.sec = c.sec /\ d.mode = "mismatch" /\ RoundTruth[c.sec] = MismatchRow(d)
  BY <1>1, <1>2, <1>3, RoundRows
<1> QED
  BY <1>2, <1>4, OwnCase

LEMMA CloseSettled ==
    ASSUME TruthInv, ~Running
    PROVE  SettledIn(RoundTruth, RoundLedger)
<1> SUFFICES ASSUME NEW k \in DOMAIN RoundLedger, k.field \in Scored
             PROVE  /\ \A i \in DOMAIN RoundLedger[k] : RoundLedger[k][i].outcome = "library_right" =>
                           <<k.sec, k.field, k.b[k.field]>> \in held \cup CellsOf(RoundTruth)
                    /\ k.kind = "regression" => k.sec \in DOMAIN RoundTruth
  BY DEF SettledIn
<1>1. ASSUME NEW i \in DOMAIN RoundLedger[k], RoundLedger[k][i].outcome = "library_right"
      PROVE  <<k.sec, k.field, k.b[k.field]>> \in held \cup CellsOf(RoundTruth)
  <2>1. CASE k \in DOMAIN ledger /\ i \in DOMAIN ledger[k] /\ RoundLedger[k][i] = ledger[k][i]
    BY <1>1, <2>1, Promised DEF SettledIn
  <2>2. ASSUME NEW c \in Applied, k \in c.errors, RoundLedger[k][i].outcome = Outcome(c, k)
        PROVE  <<k.sec, k.field, k.b[k.field]>> \in CellsOf(RoundTruth)
    <3>1. Outcome(c, k) = "library_right"
      BY <1>1, <2>2
    <3>2. c.mode = "mismatch"
      BY <2>2, <3>1, LibraryRight
    <3>3. k.field \in DOMAIN Rewrites(c) /\ Rewrites(c)[k.field] = k.b[k.field]
      BY <2>2, <3>1, <3>2, RewritesAre
    <3>4. k.sec = c.sec
      BY <2>2, CaseApplied DEF CaseRight
    <3>5. MismatchRow(c).cells[k.field] = k.b[k.field]
      BY <3>2, <3>3, Rewritten
    <3>6. k.sec \in DOMAIN RoundTruth /\ RoundTruth[k.sec].cells[k.field] = k.b[k.field]
      BY <3>2, <3>4, <3>5, RowOf
    <3> QED
      BY <3>6 DEF CellsOf
  <2> QED
    BY <1>1, <2>1, <2>2, CloseLedger
<1>2. ASSUME k.kind = "regression" PROVE k.sec \in DOMAIN RoundTruth
  <2>1. CASE k \in DOMAIN ledger
    BY <1>2, <2>1, Promised, CloseTruth DEF SettledIn
  <2>2. ASSUME NEW c \in Applied, k \in c.errors
        PROVE  k.sec \in DOMAIN RoundTruth
    <3>1. CaseRight(c) /\ k.sec = c.sec /\ c.mode = "regression" /\ c.sec \in Secs
      BY <1>2, <2>2, CaseApplied DEF CaseRight
    <3>2. k \in Diff(c.sec, Base.rows[c.sec], run.rows[c.sec])
      BY <2>2, <3>1 DEF CaseRight
    <3>3. run.rows[c.sec] # NoRow
      BY <3>2, Names, ReportedColumn
    <3>4. c.sec \in run.secs
      BY <3>1, <3>3, TruthRoundsAssumption DEF TruthInv, Shapes
    <3>5. Touching(c) # {}
      BY <2>2 DEF Touching, Fields
    <3>6. c.sec \notin DOMAIN truth => Adds(c)
      BY <3>1, <3>4, <3>5 DEF Adds
    <3> QED
      BY <3>1, <3>6, RoundRows
  <2>3. ASSUME NEW c \in Applied, k \in NewRowKeys(c) PROVE FALSE
    BY <1>2, <2>3, NewKeys
  <2> QED
    BY <2>1, <2>2, <2>3, CloseLedger
<1> QED
  BY <1>1, <1>2

(* A closed round brings no error the ledger does not know. *)
LEMMA CloseKnown ==
    ASSUME TruthInv, ~Running, Known(truth, ledger)
    PROVE  Known(RoundTruth, RoundLedger)
<1>1. ASSUME NEW e, e \in Errors(truth) PROVE e \in DOMAIN RoundLedger \cup UNION {c.errors : c \in cases}
  BY <1>1, CloseLedger DEF Known
<1>2. ASSUME NEW s \in DOMAIN RoundTruth, NEW e \in Judge(s, RoundTruth[s], run)
      PROVE  e \in DOMAIN RoundLedger \/ e \in Errors(truth)
  <2>1. CASE s \in DOMAIN truth /\ RoundTruth[s] = truth[s]
    BY <2>1 DEF Errors, JudgeAll
  <2>2. ASSUME NEW c \in Applied, c.sec = s, Adds(c), RoundTruth[s] = AddedRow(c)
        PROVE  e \in DOMAIN RoundLedger \/ e \in Errors(truth)
    <3>1. CASE Decided(c)
      <4>1. e \in DOMAIN ledger \/ e \in NewRowKeys(c)
        BY <2>2, <3>1 DEF NewRowKeys
      <4> QED
        BY <4>1, CloseLedger
    <3>2. CASE ~Decided(c)
      <4>1. AddedRow(c).cells = PendingCells
        BY <3>2, RowAdded
      <4>2. PendingCells["status"] = "ruling_pending"
        BY Names DEF PendingCells
      <4>3. Judge(s, RoundTruth[s], run) = {}
        BY <2>2, <4>1, <4>2 DEF Judge
      <4> QED
        BY <4>3
    <3> QED
      BY <3>1, <3>2
  <2>3. ASSUME NEW c \in Applied, c.sec = s, c.mode = "mismatch", s \in DOMAIN truth, RoundTruth[s] = MismatchRow(c)
        PROVE  e \in Errors(truth)
    <3> DEFINE a == truth[s]
               b == MismatchRow(c)
    <3>1. /\ b.cells["shape"] = a.cells["shape"] /\ b.cells["examined"] = a.cells["examined"]
          /\ \A f \in Scored : b.cells[f] = IF f \in DOMAIN Rewrites(c) THEN Rewrites(c)[f] ELSE a.cells[f]
          /\ b.cells["status"] = a.cells["status"] \/ b.cells["status"] = "ruling_pending"
      BY <2>3, Rewritten
    <3>2. \A f \in DOMAIN Rewrites(c) : run.rows[s] # NoRow /\ Rewrites(c)[f] = run.rows[s][f]
      BY <2>3, RewritesAre
    <3> HIDE DEF a, b
    <3>3. \A f \in Scored : b.cells[f] = a.cells[f] \/ (run.rows[s] # NoRow /\ b.cells[f] = run.rows[s][f])
      <4>1. ASSUME NEW f \in Scored, f \in DOMAIN Rewrites(c)
            PROVE  run.rows[s] # NoRow /\ b.cells[f] = run.rows[s][f]
        BY <3>1, <3>2, <4>1
      <4>2. ASSUME NEW f \in Scored, f \notin DOMAIN Rewrites(c) PROVE b.cells[f] = a.cells[f]
        BY <3>1, <4>2
      <4> QED
        BY <4>1, <4>2
    <3>4. \/ b.cells["status"] = "ruling_pending"
          \/ /\ a.cells["status"] # "ruling_pending" /\ b.cells["shape"] = a.cells["shape"]
             /\ b.cells["examined"] = a.cells["examined"]
      BY <3>1
    <3>5. Judge(s, b, run) \subseteq Judge(s, a, run)
      BY <3>3, <3>4, JudgedNoWorse
    <3> QED
      BY <2>3, <3>5 DEF a, b, Errors, JudgeAll
  <2> QED
    BY <2>1, <2>2, <2>3, RoundRows
<1>3. Excluded(truth) \subseteq Excluded(RoundTruth)
  <2> SUFFICES ASSUME NEW s \in DOMAIN truth, ~PendingRegression(truth[s])
               PROVE  s \in DOMAIN RoundTruth /\ ~PendingRegression(RoundTruth[s])
    BY DEF Excluded
  <2>1. s \in DOMAIN RoundTruth
    BY RoundRows
  <2>2. ASSUME NEW c \in Applied, c.sec = s, c.mode = "mismatch", RoundTruth[s] = MismatchRow(c)
        PROVE  ~PendingRegression(RoundTruth[s])
    <3>1. \/ /\ MismatchRow(c).cells["status"] = truth[s].cells["status"]
             /\ MismatchRow(c).cells["fixed_by"] = truth[s].cells["fixed_by"]
          \/ MismatchRow(c).cells["fixed_by"] = ""
      BY <2>2, Rewritten
    <3> QED
      BY <2>2, <3>1 DEF PendingRegression
  <2> QED
    BY <2>1, <2>2, RoundRows
<1>4. BuildReport(RoundTruth, run) \subseteq BuildReport(truth, run)
  BY <1>3 DEF BuildReport
<1>5. \A e \in Errors(RoundTruth) : e \in DOMAIN RoundLedger \/ e \in Errors(truth)
  BY <1>2, <1>4 DEF Errors, JudgeAll
<1> QED
  BY <1>1, <1>5 DEF Known

LEMMA CloseAllSettled ==
    ASSUME TruthInv, ~Running
    PROVE  /\ Retried = {} => AllSettled(RoundLedger)
           /\ AllSettled(ledger) => AllSettled(RoundLedger)
<1>1. DOMAIN ledger \subseteq DOMAIN RoundLedger /\ \A c \in Applied : c.errors \subseteq DOMAIN RoundLedger
  BY CloseLedger
<1>2. Retried = {} => \A c \in cases : c.errors \subseteq DOMAIN ledger \/ c \in Applied
  BY DEF Retried, Applied, Unsettled
<1> QED
  BY <1>1, <1>2 DEF AllSettled

(* The row a regression adds holds what the base commit gave, but where a usable record
   found the new value right. *)
LEMMA AddedWarranted ==
    ASSUME TruthInv, ~Running, NEW c \in Applied, Adds(c), Decided(c), NEW f \in Scored
    PROVE  Warranted(c.sec, f, RegressionCells(c)[f])
<1> DEFINE old == Base.rows[c.sec]
           now == run.rows[c.sec]
           v == RegressionCells(c)[f]
<1>1. /\ CaseRight(c) /\ c \in DOMAIN records /\ records[c].usable /\ c.sec \notin DOMAIN truth
      /\ c.mode = "regression" /\ c.errors # {}
  BY CaseApplied DEF Adds, Decided, CaseRight
<1>2. \A e \in c.errors : e \in Diff(c.sec, old, now) /\ e.sec = c.sec /\ ErrorOf(c, e.field) = e
  BY <1>1 DEF CaseRight, ErrorOf
<1>3. \A x : x \in Fields(c) <=> \E e \in c.errors : e.field = x
  BY DEF Fields
<1>4. f \in Cells /\ f # "shape" /\ f # "examined" /\ f # "status" /\ f # "fixed_by" /\ f \in Columns
  BY Names
<1>5. v = IF Fields(c) \cap Whole # {}
          THEN IF f \in Brief /\ (IF AllNew(c) THEN now ELSE old) # NoRow
               THEN (IF AllNew(c) THEN now ELSE old)[f] ELSE NotScored
          ELSE IF f \notin Fields(c) THEN old[f]
          ELSE IF records[c].right[f] = "new" THEN ErrorOf(c, f).b[f] ELSE ErrorOf(c, f).a[f]
  BY <1>4 DEF RegressionCells
<1> HIDE DEF old, now, v
<1>6. \A u : u = NotScored \/ (old # NoRow /\ u = old[f]) => Warranted(c.sec, f, u)
  BY <1>1 DEF Warranted, FromBase, old
<1>7. ASSUME NEW e \in c.errors, e.field = f \/ e.field \in Whole, f \in DOMAIN e.b, records[c].right[e.field] = "new"
      PROVE  Warranted(c.sec, f, e.b[f])
  BY <1>1, <1>7 DEF Warranted, Found
<1>8. CASE Fields(c) \cap Whole # {}
  <2>1. CASE v = NotScored \/ (old # NoRow /\ v = old[f])
    BY <1>6, <2>1 DEF v
  <2>2. CASE AllNew(c) /\ f \in Brief /\ now # NoRow /\ v = now[f]
    <3>1. PICK e \in c.errors : e.field \in Whole
      BY <1>3, <1>8
    <3>2. e.b = Restrict(now, Brief)
      BY <1>2, <2>2, <3>1, ReportedWhole
    <3>3. f \in DOMAIN e.b /\ e.b[f] = v
      BY <2>2, <3>2 DEF Restrict
    <3>4. e.field \in Touching(c)
      BY <1>3, <3>1 DEF Touching
    <3>5. records[c].right[e.field] = "new"
      BY <2>2, <3>4 DEF AllNew
    <3> QED
      BY <1>7, <3>1, <3>3, <3>5 DEF v
  <2> QED
    BY <1>5, <1>8, <2>1, <2>2
<1>9. CASE Fields(c) \cap Whole = {}
  <2>1. old # NoRow
    <3>1. PICK e \in c.errors : TRUE
      BY <1>1
    <3>2. e.field \in Columns
      BY <1>2, <1>3, <1>9, ReportedWhole
    <3> QED
      BY <1>2, <3>2, ReportedColumn
  <2>2. CASE f \notin Fields(c)
    BY <1>5, <1>6, <1>9, <2>1, <2>2 DEF v
  <2>3. CASE f \in Fields(c)
    <3>1. PICK e \in c.errors : e.field = f
      BY <1>3, <2>3
    <3>2. ErrorOf(c, f) = e /\ e.a = Cell(f, old[f]) /\ e.b = Cell(f, now[f])
      BY <1>2, <1>4, <3>1, ReportedColumn
    <3>3. e.a[f] = old[f] /\ f \in DOMAIN e.b
      BY <3>2 DEF Cell
    <3>4. v = IF records[c].right[f] = "new" THEN e.b[f] ELSE old[f]
      BY <1>5, <1>9, <2>3, <3>2, <3>3
    <3> QED
      BY <1>6, <1>7, <2>1, <3>1, <3>3, <3>4 DEF v
  <2> QED
    BY <2>2, <2>3
<1> QED
  BY <1>8, <1>9

LEMMA CloseWarranted ==
    ASSUME TruthInv, ~Running
    PROVE  AllWarranted(RoundTruth)
<1> SUFFICES ASSUME NEW s \in DOMAIN RoundTruth, NEW f \in Scored
             PROVE  Warranted(s, f, RoundTruth[s].cells[f])
  BY DEF AllWarranted
<1>1. CASE s \in DOMAIN truth /\ RoundTruth[s] = truth[s]
  BY <1>1 DEF Warranted
<1>2. ASSUME NEW c \in Applied, c.sec = s, Adds(c), RoundTruth[s] = AddedRow(c)
      PROVE  Warranted(s, f, RoundTruth[s].cells[f])
  <2>1. CASE Decided(c)
    BY <1>2, <2>1, RowAdded, AddedWarranted
  <2>2. CASE ~Decided(c)
    <3>1. RoundTruth[s].cells = PendingCells
      BY <1>2, <2>2, RowAdded
    <3>2. PendingCells[f] = NotScored
      BY Names DEF PendingCells
    <3>3. s \notin DOMAIN truth
      BY <1>2 DEF Adds
    <3> QED
      BY <3>1, <3>2, <3>3 DEF Warranted
  <2> QED
    BY <2>1, <2>2
<1>3. ASSUME NEW c \in Applied, c.sec = s, c.mode = "mismatch", s \in DOMAIN truth, RoundTruth[s] = MismatchRow(c)
      PROVE  Warranted(s, f, RoundTruth[s].cells[f])
  <2>1. MismatchRow(c).cells[f] = IF f \in DOMAIN Rewrites(c) THEN Rewrites(c)[f] ELSE truth[s].cells[f]
    BY <1>3, Rewritten
  <2>2. CASE f \notin DOMAIN Rewrites(c)
    BY <1>3, <2>1, <2>2 DEF Warranted
  <2>3. CASE f \in DOMAIN Rewrites(c)
    <3>1. PICK e \in c.errors : e.field = f /\ Outcome(c, e) = "library_right" /\ e.b[f] = Rewrites(c)[f]
      BY <1>3, <2>3, RewritesAre
    <3>2. records[c].usable /\ records[c].right[f] = "library" /\ f \in records[c].cites
      BY <3>1, LibraryRight
    <3>3. c \in DOMAIN records
      BY CaseApplied
    <3>4. RoundTruth[s].cells[f] = e.b[f]
      BY <1>3, <2>1, <2>3, <3>1
    <3>5. Found(s, f, e.b[f])
      BY <1>3, <3>1, <3>2, <3>3 DEF Found
    <3> QED
      BY <3>4, <3>5 DEF Warranted
  <2> QED
    BY <2>2, <2>3
<1> QED
  BY <1>1, <1>2, <1>3, RoundRows

LEMMA CloseStep ==
    ASSUME TruthInv, Close
    PROVE  TruthInv'
<1> DEFINE tr == FlipTruth(RoundTruth)
           lg == FlipLog(RoundTruth, RoundLog)
           ld == RoundLedger
           kp == Keeping
           st == IF Retried = {} /\ stage # "changed" THEN "settled" ELSE stage
<1>1. /\ ~Running /\ stage # "idle" /\ Commit(tr, lg, ld, kp, st) /\ stage' = stage
      /\ UNCHANGED <<files, roundVars, torn, held>>
  BY DEF Close, Keeping, files, roundVars, loop
<1>2. /\ IsTruth(RoundTruth) /\ DOMAIN truth \subseteq DOMAIN RoundTruth /\ TruthCites(RoundTruth, kp)
      /\ IsLog(RoundLog) /\ LogCites(RoundLog, kp)
  BY <1>1, CloseTruth, CloseLog
<1>3. IsLedger(ld) /\ LedgerCites(ld, kp)
  BY <1>1, CloseLedger
<1>4. /\ IsTruth(tr) /\ DOMAIN truth \subseteq DOMAIN tr /\ IsLog(lg)
      /\ TruthCites(tr, kp) /\ LogCites(lg, kp)
  BY <1>2, TruthFlipped, FlipKeeps
<1>5. SettledIn(tr, ld)
  BY <1>1, <1>2, CloseSettled, FlipKeeps
<1>6. AllWarranted(tr)
  BY <1>1, <1>2, CloseWarranted, FlipKeeps
<1>7. torn = {} => Traced(tr, lg)
  BY <1>1, <1>2, Promised, CloseTraced, FlipExplains
<1>8. Live(stage) /\ round \notin torn => Known(tr, ld)
  BY <1>1, <1>2, Promised, CloseKnown, FlipQuiet DEF Known
<1>9. kept \subseteq kp
  BY DEF Keeping
<1>10. st = "settled" => AllSettled(ld)
  BY <1>1, Promised, CloseAllSettled
<1>11. (Live(st) => Live(stage)) /\ (stage = "settled" => st = "settled")
  BY <1>1 DEF Live
<1> HIDE DEF tr, lg, ld, kp, st
<1> QED
  BY <1>1, <1>3, <1>4, <1>5, <1>6, <1>7, <1>8, <1>9, <1>10, <1>11, CommitStep

-------------------------------------------------------------------------------
(* The invariant holds. *)

LEMMA FirstFiles == Init => TruthInv
<1> SUFFICES ASSUME Init PROVE TruthInv
  OBVIOUS
<1>1. /\ run = Base /\ truth = Truth0 /\ log = [s \in Secs |-> << >>] /\ DOMAIN ledger = {} /\ cases = {} /\ DOMAIN records = {}
      /\ stage = "idle" /\ todo = {} /\ ~Running /\ held = CellsOf(truth)
  BY DEF Init, Running
<1>2. /\ Base \in Runs /\ DOMAIN Truth0 \subseteq Secs
      /\ \A s \in DOMAIN Truth0 : IsRow(Truth0[s]) /\ Truth0[s].report.round = 0
  BY TruthRoundsAssumption DEF IsRow
<1>3. IsTruth(truth) /\ TruthCites(truth, kept)
  BY <1>1, <1>2 DEF IsTruth, TruthCites, CitedIn
<1>4. IsLog(log) /\ LogCites(log, kept)
  BY <1>1, Short DEF IsLog, LogCites
<1>5. IsLedger(ledger) /\ LedgerCites(ledger, kept) /\ SettledIn(truth, ledger)
  BY <1>1 DEF IsLedger, LedgerCites, SettledIn
<1>6. Shapes /\ Underway /\ RoundRight
  BY <1>1, <1>2, <1>3, <1>4, <1>5 DEF Shapes, Underway, RoundRight
<1>7. CitesKept /\ SettledFirst /\ ErrorsKnown /\ NewWarranted
  BY <1>1, <1>3, <1>4, <1>5 DEF CitesKept, SettledFirst, ErrorsKnown, NewWarranted, Live
<1>8. Traced(truth, log)
  <2>1. \A s \in DOMAIN truth, f \in Scored \cup {"status"} : Explains(log[s], f, Truth0[s].cells[f], truth[s].cells[f])
    BY <1>1, <1>2, NothingExplains
  <2> QED
    BY <1>1, <2>1 DEF Traced, Explained, Explains
<1> QED
  BY <1>1, <1>6, <1>7, <1>8 DEF TruthInv, LogTraced

LEMMA EveryStep == TruthInv /\ [Next]_vars => TruthInv'
<1> SUFFICES ASSUME TruthInv, [Next]_vars PROVE TruthInv'
  OBVIOUS
<1>1. CASE Rerun
  BY <1>1, RerunStep
<1>2. CASE Open
  BY <1>2, OpenStep
<1>3. CASE Diagnose
  BY <1>3, DiagnoseStep
<1>4. CASE Close
  BY <1>4, CloseStep
<1>5. CASE Flip
  BY <1>5, FlipStep
<1>6. CASE Seed
  BY <1>6, SeedStep
<1>7. CASE DeletePending
  BY <1>7, DeleteStep
<1>8. CASE \E r \in Rulings : Rule(r)
  BY <1>8, RuleStep
<1>9. CASE CopyReports
  BY <1>9, CopyStep
<1>10. CASE Replace
  BY <1>10, ReplaceStep
<1>11. CASE Crash
  BY <1>11, CrashStep
<1>12. CASE UNCHANGED vars
  <2>1. /\ run' = run /\ truth' = truth /\ log' = log /\ ledger' = ledger /\ kept' = kept /\ round' = round
        /\ cases' = cases /\ records' = records /\ stage' = stage /\ todo' = todo /\ new' = new /\ torn' = torn /\ held' = held
    BY <1>12 DEF vars
  <2>2. RoundRight'
    BY <2>1, RoundStays DEF TruthInv, roundVars
  <2>3. Shapes' /\ Underway'
    BY <2>1 DEF TruthInv, Shapes, Underway, Running
  <2>4. CitesKept' /\ SettledFirst' /\ LogTraced'
    BY <2>1 DEF TruthInv, CitesKept, SettledFirst, SettledIn, LogTraced, Untouched, Running
  <2>5. ErrorsKnown' /\ NewWarranted'
    BY <2>1 DEF TruthInv, ErrorsKnown, Known, Errors, AllSettled, Untouched, Running,
                NewWarranted, AllWarranted, Warranted, Found
  <2> QED
    BY <2>2, <2>3, <2>4, <2>5 DEF TruthInv
<1> QED
  BY <1>1, <1>2, <1>3, <1>4, <1>5, <1>6, <1>7, <1>8, <1>9, <1>10, <1>11, <1>12 DEF Next

(* The files and what is being renamed into place keep their promises (truth_set.py,
   loop_round.py, truth_update.py). *)
THEOREM PromisesKept == Spec => []TruthInv
<1>1. Init => TruthInv
  BY FirstFiles
<1>2. TruthInv /\ [Next]_vars => TruthInv'
  BY EveryStep
<1> QED
  BY <1>1, <1>2, PTL DEF Spec

-------------------------------------------------------------------------------
(* What a reader of the files may rely on. *)

(* Wherever a process is killed, the report that a truth row, a change-log entry or a
   pending ledger row cites is among the kept reports (Round.close, recite). *)
THEOREM ReportsAreThere == Spec => []CitedReportsAreKept
<1>1. TruthInv => CitedReportsAreKept
  BY DEF TruthInv, CitesKept, TruthCites, LogCites, LedgerCites, CitedReportsAreKept, Cited, CitedIn
<1> QED
  BY <1>1, PromisesKept, PTL

(* An error the ledger has settled for the library is in the truth file, or was, and a
   settled regression has its truth row: the ledger is renamed after the truth
   (TruthSet.commit). *)
THEOREM NoAnswerLost == Spec => []SettledIsApplied
<1>1. TruthInv => SettledIsApplied
  BY DEF TruthInv, SettledFirst, SettledIn, SettledIsApplied, Has
<1> QED
  BY <1>1, PromisesKept, PTL

(* The change log explains every truth cell while no commit was cut in two: each
   operation logs what it changed of a row, from what the row held (apply_round,
   TruthSet.rule, scorecard.flip). *)
THEOREM LogIsComplete == Spec => []LogExplainsTruth
<1>1. TruthInv => LogExplainsTruth
  BY DEF TruthInv, LogTraced, Traced, Untouched, LogExplainsTruth
<1> QED
  BY <1>1, PromisesKept, PTL

(* After a round is closed with a record for each of its cases, the same run brings no
   error the ledger has not seen, so the loop ends (new_row_keys, Round.close). *)
THEOREM LoopEnds == Spec => []QuietAfterClose
<1>1. TruthInv => QuietAfterClose
  <2> SUFFICES ASSUME TruthInv, stage = "settled", ~Running, round \notin torn PROVE NewErrors = {}
    BY DEF QuietAfterClose
  <2>1. Known(truth, ledger) /\ AllSettled(ledger)
    BY Promised DEF Live
  <2> QED
    BY <2>1 DEF Known, AllSettled, Errors, NewErrors
<1> QED
  BY <1>1, PromisesKept, PTL

(* No step puts a value of the run into the truth file unless a usable record found that
   value right, citing a filing where it overrides the truth, or a ruling says so
   (apply_round, _regression_row, TruthSet.rule). *)
THEOREM TruthKeepsItsReasons == Spec => TruthNeverDrifts
<1> DEFINE Kept == \A s \in DOMAIN truth', f \in Scored :
                      LET v == truth'[s].cells[f]
                      IN  \/ s \in DOMAIN truth /\ v = truth[s].cells[f]
                          \/ s \notin DOMAIN truth /\ (v = NotScored \/ FromBase(s, f, v))
                          \/ Found(s, f, v) \/ Ruled(s, f, v)
<1>1. TruthInv /\ [Next]_vars => [Kept]_vars
  <2> SUFFICES ASSUME TruthInv, Next PROVE Kept
    OBVIOUS
  <2>1. CASE truth' = truth
    BY <2>1
  <2>2. CASE truth' # truth
    <3>1. Replace
      BY <2>2 DEF Next, Rerun, Open, Diagnose, Close, Flip, Seed, DeletePending, Rule, CopyReports, Crash, files
    <3>2. Running /\ truth' = new.truth
      BY <2>2, <3>1 DEF Replace
    <3>3. AllWarranted(truth')
      BY <3>2 DEF TruthInv, NewWarranted
    <3> QED
      BY <3>3 DEF AllWarranted, Warranted
  <2> QED
    BY <2>1, <2>2
<1> QED
  BY <1>1, PromisesKept, PTL DEF Spec, TruthNeverDrifts
===============================================================================
