---------------------------- MODULE Eras ----------------------------
(* The ticker eras of the identity stage: observations split on a pin, a name or a class
   (identity/observations.py, split_eras), then refined on the fails rows under the ticker
   (identity/identity.py, refine_eras), and what the stage reads off an era afterwards: its
   own rows, its capped date and its last sighting, its CUSIPs, and the CUSIP links between
   the eras (identity/security_master.py, cusip_handoffs).

   A name is a word and the class letter it states; two names agree when their words do. A
   fails description is a name too; one with the word NoWord names no issuer. Days are
   numbers, a trading day is a day. Rows under a deleted symbol and fails that repeat the
   last close are left out; a row under the ticker with a Q (CHKAQ) has suffix "Q". *)
EXTENDS Integers, FiniteSets, Sequences, SequencesExt, FiniteSetsExt, Functions

CONSTANTS
    None,       \* no name, no CUSIP, no composite, no answer
    NoWord      \* the word of a description that names no issuer

VARIABLES
    world       \* what the sources say in this run, and what the caller observed

Far == 100000
EraMinRun == 3
EraGapDays == 400
SwitchDays == 5
SwitchTailDays == 10
NewCusipMarginDays == 30
ConfirmDays == 30

Agree(a, b) == a.word = b.word
Says(row, names) == \E n \in names : n.word = row.word
Wordless(names) == \A n \in names : n.word = NoWord
Describes(row, names) == row.word = NoWord \/ Wordless(names) \/ Says(row, names)     \* nothing to compare: no other issuer's
Distinct(s) == FoldLeft(LAMBDA out, x : IF x \in Range(out) THEN out ELSE Append(out, x), <<>>, s)
Abs(n) == IF n < 0 THEN -n ELSE n

---------------------------------------------------------------------
(* The fails index: the rows of world, by day. *)
BySymbol(t, lo, hi) ==
    SelectSeq(world.rows, LAMBDA r : r.ticker = t /\ r.suffix = "" /\ lo <= r.day /\ r.day <= hi)
ByCusip(c) == SelectSeq(world.rows, LAMBDA r : r.cusip = c)
TradingSpan(c) == IF ByCusip(c) = <<>> THEN None ELSE <<ByCusip(c)[1].day, Last(ByCusip(c)).day>>

---------------------------------------------------------------------
(* An era: its ticker, the caller's sightings of it (seen), the CUSIPs of its own part of
   the rows (own), the unobserved parts joined to it (folds). One the library made has a
   derived sighting only, and the step it came from (origin). *)
Names(e)   == {o.name : o \in {o \in Range(e.seen) : o.name # None}}
NameOf(e)  == LET named == SelectSeq(e.seen, LAMBDA o : o.name # None)
              IN  IF named = <<>> THEN None ELSE Last(named).name
LastOr(s, none) == IF s = <<>> THEN none ELSE Last(s)
CikPin(e)  == LET pins == SelectSeq(e.seen, LAMBDA o : o.cik # None) IN IF pins = <<>> THEN None ELSE Last(pins).cik
IdPin(e)   == LET pins == SelectSeq(e.seen, LAMBDA o : o.id # None) IN IF pins = <<>> THEN None ELSE Last(pins).id
Observed(e) == {o.cusip : o \in Range(e.seen)} \ {None}
Derived(e) == \A o \in Range(e.seen) : o.derived
CusipsOf(e) == Range(e.own) \cup Observed(e)
Class(n)   == IF n = None THEN "" ELSE n.class
Key(e)     == <<e.ticker, e.first, e.seq>>

Numbered(eras) ==
    [i \in DOMAIN eras |->
        [eras[i] EXCEPT !.seq = Cardinality({j \in 1 .. i - 1 : /\ eras[j].ticker = eras[i].ticker
                                                                /\ eras[j].first = eras[i].first})]]

(* The class the era's latest sighting that states one states. *)
StatedClass(e) ==
    LET stated == SelectSeq(e.seen, LAMBDA o : Class(o.name) # "") IN IF stated = <<>> THEN "" ELSE Class(Last(stated).name)

Parts(e, o) ==
    \/ o.cik # None /\ CikPin(e) # None /\ o.cik # CikPin(e)
    \/ o.id # None /\ IdPin(e) # None /\ o.id # IdPin(e)
    \/ o.name # None /\ NameOf(e) # None /\ ~Agree(o.name, NameOf(e))
    \/ Class(o.name) # "" /\ StatedClass(e) # "" /\ Class(o.name) # StatedClass(e)

NewEra(o) == [ticker |-> o.ticker, first |-> o.day, last |-> o.day, seen |-> <<o>>, own |-> <<>>,
              folds |-> <<>>, seq |-> 0, origin |-> None]

SplitEras(obs) ==
    Numbered(FoldLeft(LAMBDA eras, o :
        IF eras = <<>> \/ Parts(Last(eras), o) THEN Append(eras, NewEra(o))
        ELSE Front(eras) \o <<[Last(eras) EXCEPT !.seen = Append(@, o), !.last = o.day]>>, <<>>, obs))

ObservedTickers == {o.ticker : o \in Range(world.obs)}
ObservationEras ==
    FoldLeft(LAMBDA eras, t : eras \o SplitEras(SelectSeq(world.obs, LAMBDA o : o.ticker = t)), <<>>, world.tickers)

---------------------------------------------------------------------
(* Consecutive rows of one CUSIP; a run of fewer than EraMinRun rows is noise. *)
RunStarts(rows) == {i \in DOMAIN rows : i = 1 \/ rows[i].cusip # rows[i - 1].cusip}
RunLength(rows, i) == Min({j \in RunStarts(rows) \cup {Len(rows) + 1} : j > i}) - i
KeptRuns(rows) ==
    SelectSeq([i \in DOMAIN rows |-> i], LAMBDA i : i \in RunStarts(rows) /\ RunLength(rows, i) >= EraMinRun)

(* The CUSIPs with such a run, most rows first. *)
Kept(rows) ==
    LET Held(c)  == {i \in DOMAIN rows : rows[i].cusip = c}
        Before(c, d) == \/ Cardinality(Held(c)) > Cardinality(Held(d))
                        \/ Cardinality(Held(c)) = Cardinality(Held(d)) /\ Min(Held(c)) < Min(Held(d))
    IN  SetToSortSeq({rows[KeptRuns(rows)[i]].cusip : i \in DOMAIN KeptRuns(rows)}, Before)

GapCuts(obs, rows) ==
    LET days == {o.day : o \in Range(obs)} \cup {r.day : r \in {r \in Range(rows) : r.cusip \in Range(Kept(rows))}}
    IN  {b \in days : /\ \E a \in days : a < b
                      /\ b - Max({a \in days : a < b}) > EraGapDays}

SwitchCuts(rows) ==
    LET kept == KeptRuns(rows)
    IN  {rows[kept[i]].day : i \in {i \in 2 .. Len(kept) : rows[kept[i]].cusip # rows[kept[i - 1]].cusip}}

(* Sightings and rows split at each cut: the day of a cut starts the next part. *)
Cut(obs, rows, cuts) ==
    LET bounds == <<-Far>> \o SetToSortSeq(cuts, LAMBDA a, b : a < b) \o <<Far>>
    IN  [i \in 1 .. Len(bounds) - 1 |->
            [obs  |-> SelectSeq(obs, LAMBDA o : bounds[i] <= o.day /\ o.day < bounds[i + 1]),
             rows |-> SelectSeq(rows, LAMBDA r : bounds[i] <= r.day /\ r.day < bounds[i + 1])]]

Described(c, rows, names) == \E r \in Range(rows) : r.cusip = c /\ Says(r, names)

(* An era of a line nobody observed: one derived sighting at its first row, named as most of
   its CUSIP's rows of the first days say. *)
DerivedEra(e, rows) ==
    LET first == rows[1].day
        own   == SelectSeq(rows, LAMBDA r : r.cusip = Kept(rows)[1] /\ r.day <= first + 30)
        said  == [i \in DOMAIN own |-> [word |-> own[i].word, class |-> own[i].class]]
        Times(n) == Cardinality({i \in DOMAIN said : said[i] = n})
        name  == IF own = <<>> THEN None ELSE SelectSeq(said, LAMBDA n : \A m \in Range(said) : Times(m) <= Times(n))[1]
    IN  [NewEra([ticker |-> e.ticker, day |-> first, name |-> name, cik |-> None, id |-> None, cusip |-> None,
                 derived |-> TRUE]) EXCEPT !.own = Kept(rows)]

(* An unobserved part joined to the era before it: the era's CUSIP it went on from. *)
FoldOf(e, groupRows, rows) ==
    LET c      == Kept(rows)[1]
        first  == SelectSeq(rows, LAMBDA r : r.cusip = c)[1].day
        before == SelectSeq(groupRows, LAMBDA r : r.day < first /\ r.cusip \in Range(e.own))
    IN  [cusip |-> c, first |-> first, earlier |-> Range(e.own),
         old   |-> IF before = <<>> THEN LastOr(e.own, None) ELSE Last(before).cusip]

(* What a split is told: the CUSIPs of the ticker's rows from the next era on (None: no next
   era), the derived CUSIPs approved, the folds refused, and whether another era of the
   ticker has sightings on the same days. *)
Joins(e, part, after, say) ==
    /\ Kept(part.rows) # <<>>
    /\ LET c == Kept(part.rows)[1]
       IN  /\ c \notin Range(e.own)
           /\ say.later = None \/ c \notin say.later
           /\ say.later # None \/ \E p \in Range(after) : p.obs # <<>>
           /\ Described(c, part.rows, Names(e))

OwnCusips(part, say) ==
    LET names == {o.name : o \in Range(part.obs)} \ {None}
    IN  IF say.contested /\ names # {} THEN SelectSeq(Kept(part.rows), LAMBDA c : Described(c, part.rows, names))
        ELSE Kept(part.rows)

(* One part of a gap group: its sightings are an era; with none it is a derived line, an
   era's fold, or dropped. The era a fold joins is the last of the group's (tail). *)
TakePart(acc, e, groupRows, part, after, say) ==
    LET c       == Kept(part.rows)[1]
        derives == acc.follows /\ Kept(part.rows) # <<>> /\ c \in say.derive
        joins   == ~derives /\ acc.tail /\ Joins(Last(acc.out), part, after, say)
    IN  IF part.obs # <<>>
        THEN [out     |-> Append(acc.out, [e EXCEPT !.first = part.obs[1].day, !.last = Last(part.obs).day,
                                                    !.seen = part.obs, !.own = OwnCusips(part, say)]),
              follows |-> TRUE, tail |-> TRUE]
        ELSE IF derives \/ (joins /\ c \in say.unfold)
        THEN [out |-> Append(acc.out, DerivedEra(e, part.rows)), follows |-> derives, tail |-> FALSE]
        ELSE IF joins
        THEN [out     |-> Front(acc.out) \o <<[Last(acc.out) EXCEPT
                              !.own = Append(@, c), !.folds = Append(@, FoldOf(Last(acc.out), groupRows, part.rows))]>>,
              follows |-> FALSE, tail |-> TRUE]
        ELSE [acc EXCEPT !.follows = FALSE]

SplitGroup(out, e, group, say) ==
    LET parts == Cut(group.obs, group.rows, SwitchCuts(group.rows))
        step(acc, i) == TakePart(acc, e, group.rows, parts[i], SubSeq(parts, i + 1, Len(parts)), say)
    IN  FoldLeft(step, [out |-> out, follows |-> FALSE, tail |-> FALSE], [i \in DOMAIN parts |-> i]).out

SplitEra(e, rows, say) ==
    FoldLeft(LAMBDA out, group : SplitGroup(out, e, group, say), <<>>,
             Cut(e.seen, rows, GapCuts(e.seen, rows)))

(* Each observation era sees the ticker's rows after the era before it and before the next
   one's first sighting. derive and unfold are (ticker, CUSIP) pairs. *)
Refined(e, eras, derive, unfold) ==
    LET others == {x \in Range(eras) : x.ticker = e.ticker}
        prev   == {o.last : o \in {o \in others : o.first < e.first}}
        next   == {o.first : o \in {o \in others : o.first > e.first}}
        later  == IF next = {} THEN None ELSE {r.cusip : r \in Range(BySymbol(e.ticker, Min(next), Far))}
        SameDay(o) == Cardinality({x \in others : \E p \in Range(x.seen) : p.day = o.day}) > 1
        say    == [later |-> later, contested |-> \E o \in Range(e.seen) : SameDay(o),
                   derive |-> {p[2] : p \in {p \in derive : p[1] = e.ticker}} \ (IF later = None THEN {} ELSE later),
                   unfold |-> {p[2] : p \in {p \in unfold : p[1] = e.ticker}}]
    IN  SplitEra(e, BySymbol(e.ticker, IF prev = {} THEN -Far ELSE Max(prev) + 1,
                                       IF next = {} THEN Far ELSE Min(next) - 1), say)

RefineEras(derive, unfold) ==
    Numbered(FoldLeft(LAMBDA out, e : out \o Refined(e, ObservationEras, derive, unfold), <<>>, ObservationEras))

---------------------------------------------------------------------
(* Those of the ticker's rows that are the era's own: of its own CUSIPs when it has them,
   else those that say one of its names. *)
OwnRows(e, rows) ==
    IF e.own # <<>> THEN SelectSeq(rows, LAMBDA r : r.cusip \in Range(e.own))
    ELSE IF Names(e) # {} THEN SelectSeq(rows, LAMBDA r : Says(r, Names(e)))
    ELSE rows

LaterOwnDays(e, after, stop) ==
    {r.day : r \in {r \in Range(OwnRows(e, BySymbol(e.ticker, after + 1, after + 400))) : r.day < stop}}

CappedSeen(e) == Max({e.last} \cup LaterOwnDays(e, e.last, Far))

(* Followed along its own CUSIPs, each step within the horizon, until the ticker's next era. *)
LastSeen(e, eras) ==
    LET next == {o.first : o \in {o \in Range(eras) : o.ticker = e.ticker /\ o.first > e.first}}
        stop == IF next = {} THEN Far ELSE Min(next)
        Reached[last \in Int] == LET more == LaterOwnDays(e, last, stop)
                                 IN  IF more = {} THEN last ELSE Reached[Max(more)]
    IN  IF e.own = <<>> THEN CappedSeen(e) ELSE Reached[CappedSeen(e)]

EraRows(e, last) == OwnRows(e, BySymbol(e.ticker, e.first, last))

(* The CUSIPs an era may be: those observed, and its own whose rows describe its issuer; an
   era with none takes those of the rows around it that say its name. *)
EraCusips(e, edgar, taken) ==
    LET names  == Names(e) \cup edgar
        around == SelectSeq(BySymbol(e.ticker, e.first - 10, e.last + 10),
                            LAMBDA r : Names(e) = {} \/ Says(r, Names(e)))
        Held(c) == {i \in DOMAIN around : around[i].cusip = c}
        most   == SetToSortSeq({r.cusip : r \in Range(around)},
                               LAMBDA c, d : \/ Cardinality(Held(c)) > Cardinality(Held(d))
                                             \/ Cardinality(Held(c)) = Cardinality(Held(d)) /\ Min(Held(c)) < Min(Held(d)))
        own    == SelectSeq(e.own, LAMBDA c : \/ c \in taken
                                              \/ \E r \in Range(ByCusip(c)) : Describes(r, names))
        seen   == Distinct(SelectSeq(Reverse([i \in DOMAIN e.seen |-> e.seen[i].cusip]), LAMBDA c : c # None))
    IN  seen \o SelectSeq(IF e.own # <<>> THEN own ELSE most, LAMBDA c : c \notin Range(seen))

(* By era, issuers the known ones and edgar their EDGAR names. An era of an unknown issuer
   also takes a CUSIP that a known issuer's era took. *)
CandidateCusips(eras, issuers, edgar) ==
    LET known == [k \in DOMAIN issuers |->
                     EraCusips(CHOOSE e \in Range(eras) : Key(e) = k, edgar[issuers[k]], {})]
        taken == UNION {Range(known[k]) : k \in DOMAIN known}
    IN  [k \in {Key(e) : e \in Range(eras)} |->
            IF k \in DOMAIN known THEN known[k]
            ELSE EraCusips(CHOOSE e \in Range(eras) : Key(e) = k, {}, taken)]

---------------------------------------------------------------------
(* The CUSIP links from one era to another: one CUSIP of both, or a switch, an era's CUSIP
   that last trades under its ticker as another era's new CUSIP begins. *)
SharedLinks(e, o) ==
    {[from |-> Key(e), to |-> Key(o), kind |-> "shared", old |-> c, new |-> c, day |-> 0, last |-> 0] :
        c \in CusipsOf(e) \cap CusipsOf(o)}

Begins(c) == ByCusip(c)[1].day
BegunInWindow(c) == ByCusip(c) # <<>> /\ Begins(c) >= world.opened + NewCusipMarginDays
UnderTicker(e, c) == SelectSeq(BySymbol(e.ticker, -Far, Far), LAMBDA r : r.cusip = c)

Switch(e, c, d) ==
    /\ UnderTicker(e, c) # <<>> /\ BegunInWindow(d)
    /\ LET last == Last(UnderTicker(e, c)).day
       IN  /\ last - SwitchDays <= Begins(d) /\ Begins(d) <= last + SwitchDays
           /\ \A r \in Range(ByCusip(c)) : r.day <= last + SwitchTailDays

SwitchLinks(e, o) ==
    {[from |-> Key(e), to |-> Key(o), kind |-> "switch", old |-> p[1], new |-> p[2], day |-> Begins(p[2]),
      last |-> Last(UnderTicker(e, p[1])).day] :
        p \in {p \in Range(e.own) \X (Range(o.own) \ CusipsOf(e)) : Switch(e, p[1], p[2])}}

CusipHandoffs(eras) ==
    UNION {SharedLinks(p[1], p[2]) \cup SwitchLinks(p[1], p[2]) :
              p \in {p \in Range(eras) \X Range(eras) : Key(p[1]) # Key(p[2])}}

(* What the old CUSIP's rows under the ticker say, each with the day it first says it. *)
Descriptions(h) ==
    LET rows == SelectSeq(BySymbol(h.from[1], -Far, Far), LAMBDA r : r.cusip = h.old)
    IN  {[word |-> r.word, class |-> r.class,
          day |-> Min({x.day : x \in {x \in Range(rows) : x.word = r.word /\ x.class = r.class}})] : r \in Range(rows)}
=====================================================================
