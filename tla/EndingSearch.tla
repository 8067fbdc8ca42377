----------------------------- MODULE EndingSearch -----------------------------
(* The delisting finder (endings/delistings.py, filings/form25.py): which Form 25 of an
   issuer removed which of its lines, what a line's endings are, and what is left for
   review.  The lines' trading is given; filings come on record in filing order, and each
   run answers from all of them.

   Everything the finder says is an operator of what is known of the issuer, i, and the
   filings on record, fs.  Days are counted.  A line's own CUSIPs trade from first to rows,
   under its own ticker to fails; it is sighted under its own ticker to last.  A Form 25
   names classes, each with a letter and the words beside it, or its class by words alone.
   What the classifier calls an ending of a line near a day is given, one answer for each:
   beside the buckets, "relabelled" is a merger that only the continued-filings rule stands
   behind, and "deficiency" a compliance failure for a listing deficiency or a late report. *)
EXTENDS Integers, FiniteSetsExt

CONSTANTS Lines, Issuers,    \* an issuer's lines, and the issuers looked at
          Docket,            \* the filings that may come on record
          Called(_, _, _),   \* the classifier: of an issuer, a line and a day
          MaxFilings

ASSUME EndingSearchAssumption ==
    /\ MaxFilings \in Nat /\ IsFiniteSet(Lines)
    /\ \A f \in Docket : f.day \in Nat /\ IsFiniteSet(f.classes)
    /\ \A i \in Issuers : i.fallback \notin {"form25", "early"}
    /\ \A i \in Issuers, s \in Lines :
          /\ i.lines[s].first \in Int /\ i.lines[s].first <= i.lines[s].last
          /\ i.lines[s].fails <= i.lines[s].rows /\ i.lines[s].fails <= i.lines[s].last

VARIABLES issuer,    \* what is known of the issuer's lines
          filings,   \* what is on record
          seen,      \* what the last run read
          found,     \* each line's endings, by the last run
          review     \* the Form 25s it left for review, of each line

vars == <<issuer, filings, seen, found, review>>

Regional  == {"PHLX"}
EndingBuckets == {"merger", "relabelled", "liquidation", "compliance_failure", "deficiency", "expiration"}
(* What a move to the OTC market overrules: nothing found, or no more than a deficiency. *)
NoMoreThanOtc == {"unknown", "exchange_transfer", "deficiency", "relabelled"}

Line(i, s) == i.lines[s]
Form25s(fs) == {f \in fs : f.form \in {"25", "25-NSE"}}
Gone(i, s) == i.listed[s] = "no"
Effective(day) == day + 10
After(f) == Effective(f.day) + 5       \* traded past this, a line went on

TradesAfter(i, s, day) == Line(i, s).rows > day
SeenAfter(i, s, day)   == Line(i, s).rows > day \/ Line(i, s).last > day
TradedWithin(i, s, day, n) == Line(i, s).first <= day /\ Line(i, s).rows >= day - n

-------------------------------------------------------------------------------
(* What the text of a Form 25 says of the lines of its kind. *)

Letters(f) == {c.letter : c \in f.classes}
Words(f)   == f.words \cup UNION {c.words : c \in f.classes}
Same(i, f, refs) == {r \in refs : Line(i, r).kind = f.kind}

(* Named by a word of its own that not every one of them has. *)
NamedBy(i, words, S) ==
    {r \in S : \E w \in Line(i, r).words \cap words : \E q \in S : w \notin Line(i, q).words}

Hits(i, c, same) ==
    LET lettered == {r \in same : Line(i, r).letter = c.letter}
    IN  IF lettered # {} THEN lettered ELSE {r \in same : Line(i, r).letter = "" /\ Line(i, r).hint = c.letter}
Picked(i, c, same) ==
    LET hits == Hits(i, c, same) IN IF Cardinality(hits) > 1 THEN NamedBy(i, c.words, hits) ELSE hits
Single(i, c, same) == Cardinality(Picked(i, c, same)) = 1
Letterless(i, c, same) == {r \in NamedBy(i, c.words, same) : Line(i, r).letter = ""}

TiedBy(i, c, same) ==
    IF Single(i, c, same) THEN {}
    ELSE IF Letterless(i, c, same) # {} THEN Letterless(i, c, same)
    ELSE IF Cardinality(Picked(i, c, same)) > 1 THEN Picked(i, c, same)
    ELSE IF Cardinality(Hits(i, c, same)) > 1 /\ NamedBy(i, c.words, same) = {} THEN Hits(i, c, same)
    ELSE {}

(* Each class takes its one line of that letter; the classes left over take the lines
   without a letter their words name, when there is a class for each. *)
Claims(i, r, open, same) == {c.letter : c \in {d \in open : r \in Letterless(i, d, same)}}

Claimed(i, open, same, taken) ==
    {r \in same \ taken : LET by == Claims(i, r, open, same) IN by # {} /\ Line(i, r).hint \in by \cup {""}}

OneEach(taken, claimed, letters) ==
    IF Cardinality(claimed) <= Cardinality(letters) THEN taken \cup claimed ELSE taken

MatchedBy(i, f, same, single) ==
    LET open  == f.classes \ single
        taken == UNION {Picked(i, c, same) : c \in single}
        claimed == Claimed(i, open, same, taken)
    IN  OneEach(taken, claimed, UNION {Claims(i, r, open, same) : r \in claimed})

ByClass(i, f, same) == MatchedBy(i, f, same, {c \in f.classes : Single(i, c, same)})

Matched(i, f, refs) ==
    LET same == Same(i, f, refs)
    IN  IF Cardinality(same) = 1 THEN same ELSE ByClass(i, f, same)

TiedAmong(i, f, same) ==
    IF Cardinality(same) < 2 THEN {} ELSE UNION {TiedBy(i, c, same) : c \in f.classes} \ ByClass(i, f, same)

Tied(i, f, refs) == TiedAmong(i, f, Same(i, f, refs))

Open(f, same, tied) == IF tied # {} THEN tied ELSE IF Letters(f) # {} \/ Cardinality(same) < 2 THEN {} ELSE same

TieCandidates(i, f, refs) == Open(f, Same(i, f, refs), Tied(i, f, refs))

(* As many classes as lines, and no line says which it is. *)
EveryClass(i, f, refs) ==
    LET same == Same(i, f, refs)
    IN  IF /\ Cardinality(Letters(f)) > 1 /\ Cardinality(same) = Cardinality(Letters(f))
           /\ \A r \in same : Line(i, r).letter = "" /\ Line(i, r).hint = ""
        THEN same ELSE {}

OtherClass(i, f, s) ==
    /\ f.kind = "common"
    /\ \/ f.solely
       \/ LET groups == {c.words \ i.words : c \in f.classes} \ {{}}
          IN  groups # {} /\ \A g \in groups : g \cap Line(i, s).words = {}

ClassConflict(i, f, s) == Letters(f) # {} /\ Line(i, s).letter # "" /\ Line(i, s).letter \notin Letters(f)

NamesOtherLetter(i, f, s) ==
    LET mine == IF Line(i, s).letter # "" THEN Line(i, s).letter ELSE Line(i, s).hint
    IN  Letters(f) # {} /\ mine \notin Letters(f)

-------------------------------------------------------------------------------
(* A tie is broken by the lines' trading. *)

(* After a removal under rule 12d2-2(b) the counter is not the listing going on. *)
GoesOn(i, s, f) == IF f.involuntary THEN Line(i, s).fails > After(f) ELSE TradesAfter(i, s, After(f))

StoppedNear(i, s, f) == Line(i, s).last >= f.day - 90

(* The line that stops at it, unless one that goes on may be the same line, under a new
   one, and no word of the text tells them apart. *)
TieBroken(i, f, cands, lines) ==
    LET going   == {s \in cands : GoesOn(i, s, f)}
        stopped == {s \in cands \ going : StoppedNear(i, s, f)}
        Relined(g, s) == /\ Line(i, g).first - Line(i, s).last \in -30..30
                         /\ Words(f) \cap (Line(i, s).words \ Line(i, g).words) = {}
    IN  IF Cardinality(cands) >= 2
        THEN IF /\ going # {} /\ Cardinality(stopped) = 1
                /\ \A g \in going, s \in stopped : ~Relined(g, s)
             THEN stopped ELSE {}
        ELSE IF \A s \in lines : /\ ~GoesOn(i, s, f)
                                 /\ StoppedNear(i, s, f) \/ TradedWithin(i, s, f.day, 90)
        THEN lines ELSE {}

(* A faulty one: several that stopped are not told from one. *)
FaultyTieOwners(i, f, refs) ==
    LET cands == TieCandidates(i, f, refs)
    IN  {s \in cands : ~GoesOn(i, s, f) /\ StoppedNear(i, s, f)}

TieOwners(i, f, refs) == TieBroken(i, f, TieCandidates(i, f, refs), EveryClass(i, f, refs))

Legible(f) == f.readable /\ f.exchange \notin Regional

Judged(i, s, f, refs, alone) ==
    /\ Legible(f) /\ f.kind # "other" /\ ~OtherClass(i, f, s)
    /\ s \in Matched(i, f, refs) \cup TieOwners(i, f, refs)
    /\ ~ClassConflict(i, f, s)
    /\ alone => ~NamesOtherLetter(i, f, s)

(* A faulty one: only what matched nothing is left. *)
FaultyUnplaced(i, s, f, refs) ==
    \/ ~f.readable
    \/ /\ Legible(f) /\ ~OtherClass(i, f, s)
       /\ Matched(i, f, refs) \cup TieOwners(i, f, refs) = {} /\ Letters(f) = {} /\ f.kind # "other"

(* What is left for review when a filing cannot be placed. *)
Unplaced(i, s, f, refs) ==
    \/ ~f.readable
    \/ Legible(f) /\ f.kind = "other"
    \/ /\ Legible(f) /\ ~OtherClass(i, f, s) /\ s \notin Matched(i, f, refs) \cup TieOwners(i, f, refs)
       /\ TieOwners(i, f, refs) \cap TieCandidates(i, f, refs) = {}
       /\ \/ Matched(i, f, refs) = {} /\ Cardinality(Same(i, f, refs)) > 1
          \/ s \in Tied(i, f, refs)

Alive(i, f) == {s \in Lines : Line(i, s).first - 30 <= f.day /\ f.day <= Line(i, s).last + 400}

JudgedEarly(i, s, f) ==
    LET refs == {s} \cup Alive(i, f) IN Judged(i, s, f, refs, refs = {s})

-------------------------------------------------------------------------------
(* Whether a line went on after a Form 25. *)

EightA(fs, f) ==
    /\ f.form = "25" /\ ~f.involuntary
    /\ \E g \in fs : g.form = "8-A12B" /\ g.day - f.day \in -10..10

Continued(i, fs, s, f) ==
    \/ i.listed[s] = "yes"
    \/ EightA(fs, f)
    \/ ~f.involuntary /\ TradesAfter(i, s, After(f))

(* Something else was removed: the old CUSIP, a second listing, another class. *)
NotThisRemoval(i, s, f) ==
    \/ Line(i, s).switch - f.day \in -7..7
    \/ f.exchange \in i.cover.after
    \/ i.cover.after \notin {{}, {f.exchange}} /\ i.cover.after \ {f.exchange} \subseteq i.cover.before

MovedOtc(i, fs, s, group) ==
    /\ Gone(i, s) /\ ~\E f \in group : EightA(fs, f)
    /\ i.cover.quoted \/ (i.cover.known /\ i.cover.after = {})

-------------------------------------------------------------------------------
(* find: the endings of a line, and what it leaves for review. *)

Floor(i, s) == Line(i, s).first - 30
EarlyFloor(i, s) == IF Gone(i, s) THEN Floor(i, s) - 365 ELSE Floor(i, s)

Late(i, s, f) == Alive(i, f) = {} /\ TradedWithin(i, s, f.day, 30)
Refs(i, s, f) == IF Late(i, s, f) THEN {s} ELSE Alive(i, f)

Looked(i, s, f) == f.day >= Floor(i, s) /\ Refs(i, s, f) # {}

Candidates(i, fs, s) ==
    {f \in Form25s(fs) : /\ Looked(i, s, f) /\ Judged(i, s, f, Refs(i, s, f), Late(i, s, f))
                         /\ ~(Continued(i, fs, s, f) /\ NotThisRemoval(i, s, f))}

Early(i, fs, s) ==
    {f \in Form25s(fs) : /\ EarlyFloor(i, s) <= f.day /\ f.day < Floor(i, s)
                         /\ JudgedEarly(i, s, f) /\ ~EightA(fs, f) /\ ~TradesAfter(i, s, After(f))}

(* A faulty one: what is another line's counts as unread. *)
FaultyUnreadEarly(i, fs, s) ==
    {f \in Form25s(fs) : EarlyFloor(i, s) <= f.day /\ f.day < Floor(i, s) /\ ~JudgedEarly(i, s, f)}

UnreadEarly(i, fs, s) ==
    {f \in Form25s(fs) : EarlyFloor(i, s) <= f.day /\ f.day < Floor(i, s) /\ ~f.readable}
Older(i, fs, s) == UnreadEarly(i, fs, s) \cup {f \in Form25s(fs) : f.day < EarlyFloor(i, s)}

First(group) == CHOOSE d \in {f.day : f \in group} : \A f \in group : d <= f.day

(* The days of D kept when each is decided in its turn, on those kept before it. *)
InTurn(D, keeps) == CHOOSE K \in SUBSET D : \A d \in D : d \in K <=> <<d, {e \in K : e < d}>> \in keeps

(* A filing opens a group unless one was opened within the thirty days before it; a group
   is what follows its earliest filing, not its latest, by thirty days. *)
Heads(S) ==
    LET D == {f.day : f \in S}
    IN  InTurn(D, {p \in D \X SUBSET D : \A e \in p[2] : p[1] - e > 30})
GroupAt(S, d) == {f \in S : f.day - d \in 0..30}

Ending(group, bucket, continued, by) ==
    [forms |-> group, day |-> Effective(First(group)), bucket |-> bucket, continued |-> continued, by |-> by]
NoEnding == [forms |-> {}, day |-> 0, bucket |-> "none", continued |-> TRUE, by |-> "none"]

(* What the classifier calls it, and what the finder makes of that. *)
Build(i, fs, s, group) ==
    LET continued == \E f \in group : Continued(i, fs, s, f)
        otc    == continued /\ MovedOtc(i, fs, s, group)
        called == Called(i, s, First(group))
        bucket == IF otc /\ called \in NoMoreThanOtc THEN "compliance_failure"
                  ELSE IF continued /\ called = "unknown" /\ \E f \in group : EightA(fs, f)
                  THEN "exchange_transfer" ELSE called
    IN  Ending(group, bucket, continued /\ ~otc, "form25")

Definitive(e) == e # NoEnding /\ (~e.continued \/ e.bucket \in EndingBuckets)

(* After a definitive ending a later Form 25 counts only for a line sighted after it. *)
StillCounts(i, s, d, ends) == ends = {} \/ SeenAfter(i, s, d) \/ \E e \in ends : d - Effective(e) <= 30

EndingAt(i, fs, s, S, d) == Build(i, fs, s, GroupAt(S, d))

Counted(i, fs, s, S) ==
    LET D == Heads(S)
        ends == {d \in D : Definitive(EndingAt(i, fs, s, S, d))}
    IN  InTurn(D, {p \in D \X SUBSET D : StillCounts(i, s, p[1], p[2] \cap ends)})

TakenFrom(i, fs, s, S) == {EndingAt(i, fs, s, S, d) : d \in Counted(i, fs, s, S)}
Taken(i, fs, s) == TakenFrom(i, fs, s, Candidates(i, fs, s))

LastGroup(S) == IF S = {} THEN {} ELSE GroupAt(S, Max(Heads(S)))

EndingBefore(i, fs, s, g) ==
    IF g = {} \/ \E u \in UnreadEarly(i, fs, s) : \A f \in g : f.day < u.day
    THEN NoEnding ELSE Ending(g, Called(i, s, First(g)), FALSE, "early")

EarlyEnding(i, fs, s) == EndingBefore(i, fs, s, LastGroup(Early(i, fs, s)))

(* The classifier's own pick, made without a word about classes: one the scan has judged
   is never revived. *)
Pick(i, fs, s) ==
    LET near == {f \in Form25s(fs) : /\ Line(i, s).last - f.day \in -45..1500
                                     /\ f.day < Line(i, s).last - 45 => ~i.reports}
        Gap(f) == IF f.day < Line(i, s).last THEN Line(i, s).last - f.day ELSE f.day - Line(i, s).last
    IN  IF near = {} THEN {} ELSE {CHOOSE f \in near : \A g \in near : Gap(f) <= Gap(g)}

Revived(i, s, group) ==
    IF group = {} \/ Line(i, s).fails > Effective(First(group)) + 5 THEN NoEnding
    ELSE Ending(group, Called(i, s, First(group)), FALSE, "older")

Fallback(i, fs, s) ==
    IF Pick(i, fs, s) # {}
    THEN LET older == Older(i, fs, s)
         IN  Revived(i, s, {f \in older : /\ \E p \in Pick(i, fs, s) \cap older : f.day - p.day \in -30..30
                                          /\ JudgedEarly(i, s, f)})
    ELSE IF i.fallback = "nothing" THEN NoEnding
    ELSE [NoEnding EXCEPT !.day = Line(i, s).last, !.continued = FALSE, !.by = i.fallback,
                          !.bucket = IF i.fallback = "midas" THEN "compliance_failure"
                                     ELSE Called(i, s, Line(i, s).last)]

EndingsOf(i, fs, s, all) ==
    LET open  == \A e \in all : ~Definitive(e)
        early == IF open THEN EarlyEnding(i, fs, s) ELSE NoEnding
        fall  == IF open /\ early = NoEnding /\ Gone(i, s) THEN Fallback(i, fs, s) ELSE NoEnding
    IN  (all \cup {early, fall}) \ {NoEnding}

FindEndings(i, fs, s) == EndingsOf(i, fs, s, Taken(i, fs, s))

Reviewed(i, fs, s) ==
    {f \in Form25s(fs) : Looked(i, s, f) /\ Unplaced(i, s, f, Refs(i, s, f))}

Init ==
    /\ issuer \in Issuers
    /\ filings = {} /\ seen = {}
    /\ found  = [s \in Lines |-> FindEndings(issuer, filings, s)]
    /\ review = [s \in Lines |-> Reviewed(issuer, filings, s)]

(* A filing comes on record; each is met by a run before the next. *)
File(f) ==
    /\ f \notin filings /\ Cardinality(filings) < MaxFilings
    /\ seen = filings /\ \A g \in filings : g.day < f.day
    /\ filings' = filings \cup {f}
    /\ UNCHANGED <<issuer, seen, found, review>>

(* A run of the finder. *)
Find ==
    /\ seen # filings
    /\ found'  = [s \in Lines |-> FindEndings(issuer, filings, s)]
    /\ review' = [s \in Lines |-> Reviewed(issuer, filings, s)]
    /\ seen' = filings
    /\ UNCHANGED <<issuer, filings>>

Next == Find \/ \E f \in Docket : File(f)

Spec == Init /\ [][Next]_vars

-------------------------------------------------------------------------------
Owns(s, f) == \E e \in found[s] : f \in e.forms /\ ~e.continued

(* The words of a Form 25 give the classes its letters leave over to a line each, and the
   trading breaks a tie between more lines they name, hinted to another class. *)
TextAndTie(i, f, refs) ==
    /\ f.classes # {} /\ Cardinality(Matched(i, f, refs)) = Cardinality(f.classes)
    /\ ~(TieOwners(i, f, refs) \subseteq Matched(i, f, refs))

(* A Form 25 ends no more of the lines that live when it is filed than the classes it names:
   the text, a broken tie and the rule of every class see the lines apart, and do not add up.
   They do in one case, by one line (TextAndTie: form25.py gives the words' lines before the
   finder breaks the tie of the rest).  Lines that do not live then are judged without each
   other, one alone after the last sighting of all (delistings.py:604), one beside those that
   live before its own first sighting, and several of them can take it. *)
OneLinePerClass ==
    \A f \in Form25s(filings) \cap seen :
        LET living == Alive(issuer, f)
        IN  Cardinality({s \in living : Owns(s, f)}) <=
                Max({1, Cardinality(f.classes)}) + (IF TextAndTie(issuer, f, living) THEN 1 ELSE 0)

(* A Form 25 that names a line's kind and is filed while it lives is some line's ending,
   or is left for review, or a removal explains it: of another class, of an old CUSIP or a
   second listing, or an earlier one that ended the line. *)
NoFormIsLost ==
    \A f \in Form25s(filings) \cap seen :
        \/ \E s \in Lines : f \in review[s] \/ \E e \in found[s] : f \in e.forms
        \/ ~Legible(f) \/ Same(issuer, f, Alive(issuer, f)) = {}
        \/ \E s \in Alive(issuer, f) :
              OtherClass(issuer, f, s) \/ ClassConflict(issuer, f, s) \/ NotThisRemoval(issuer, s, f)
        \/ \E s \in Lines : \E e \in found[s] : Definitive(e) /\ e.day < f.day

(* A readable Form 25 about another line takes from this one no ending that the scan or the
   early window gave: only one that cannot be read, or the issuer's move to another
   exchange, can. *)
OthersFormLeavesEndings ==
    [][\A s \in Lines : \A e \in found[s] :
          \/ e.by \notin {"form25", "early"} \/ \E x \in found'[s] : e.forms \subseteq x.forms
          \/ \E f \in seen' \ seen : f.form = "8-A12B" \/ ~f.readable \/ \E x \in found'[s] : f \in x.forms]_vars
=============================================================================
