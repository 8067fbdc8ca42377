---------------------------- MODULE EraIssuers ----------------------------
(* The issuer of each era (identity/identity.py, _resolve_issuers): the lookup's answers at
   two or three days (the ticker resolver, here what it would answer), stage 2b's check of
   the name-search answers, and the second pass over the eras left with none, rules E, B, C
   and D, which read the run's other eras.

   lost is the set of companies whose record could not be read in this run: they have no
   names, no filings and no first filing, and an era whose answer read one is flagged. *)
EXTENDS Eras

EraMinRows == 3
GuardNameDays == 30
RenameNearDays == 90
ObservedAliveDays == 400
LaterRowsDays == 400
FilingDays == 30
SuccessorForms == {"8-K12B", "8-K12G3"}

---------------------------------------------------------------------
(* The issuer record: a company's first filing, forms and names. A former name has its
   days; the current one runs from the last rename on. *)
Companies == DOMAIN world.companies
FirstFiled(c, lost) == IF c \in lost THEN Far ELSE world.companies[c].first
Forms(c, lost)      == IF c \in lost THEN {} ELSE world.companies[c].forms
Former(c, lost)     == IF c \in lost THEN {} ELSE world.companies[c].former
Current(c, lost)    == IF c \in lost THEN {} ELSE {world.companies[c].name}
ExistedBy(c, day, lost) == FirstFiled(c, lost) <= day

Plain(n) == [word |-> n.word, class |-> n.class]
EdgarNames(c, lost) == Current(c, lost) \cup {Plain(n) : n \in Former(c, lost)}
CurrentBy(c, day, lost) == IF \A n \in Former(c, lost) : n.to <= day THEN Current(c, lost) ELSE {}
NamesUntil(c, day, lost) ==
    {Plain(n) : n \in {n \in Former(c, lost) : n.from <= day}} \cup CurrentBy(c, day, lost)
NamesBetween(c, lo, hi, lost) ==
    {Plain(n) : n \in {n \in Former(c, lost) : n.from <= hi /\ n.to >= lo}} \cup CurrentBy(c, hi, lost)

(* SEC's lists, which no failed read of a company touches. *)
IndexHolders(n) == {c \in Companies : \E m \in EdgarNames(c, {}) : Agree(m, n)} \ world.exchanges

---------------------------------------------------------------------
(* Guard G: the company existed by the first of the rows, and each description that names an
   issuer is a name it carried by shortly after the day that first says it. *)
FitsRows(c, rows, lost) ==
    LET saying == {i \in DOMAIN rows : rows[i].word # NoWord}
        First(i) == \A j \in saying : rows[j].word = rows[i].word => i <= j
    IN  /\ ExistedBy(c, rows[1].day, lost)
        /\ saying # {}
        /\ \A i \in saying : First(i) => Says(rows[i], NamesUntil(c, rows[i].day + GuardNameDays, lost))

Guard(candidates, rows, lost) ==
    LET fit == {c \in candidates : FitsRows(c, rows, lost)}
    IN  IF Cardinality(fit) = 1 THEN CHOOSE c \in fit : TRUE ELSE None

(* One of the era's names is a name of its issuer (an era, or an issuer, with none is not
   refuted). *)
Named(e, c, lost) ==
    \/ Names(e) = {} \/ EdgarNames(c, lost) = {}
    \/ \E n \in Names(e) : n.word = NoWord
    \/ \E n \in Names(e), m \in EdgarNames(c, lost) : Agree(n, m)

Answer(c, source) == IF c = None THEN None ELSE [cik |-> c, source |-> source]

---------------------------------------------------------------------
(* The eras whose ticker the fails data does not show near their days. *)
Confirming(e) == BySymbol(e.ticker, e.first - ConfirmDays, e.last + ConfirmDays)
GuardedEras(eras) == {Key(e) : e \in {e \in Range(eras) : Confirming(e) = <<>>}}

(* Stage 2b. A backfilled row's issuer: the company SEC lists the ticker under today, when
   the ticker's next rows are its own and it came to carry the observed name. *)
CarriedOver(c, n, lo, hi, lost) == \E m \in NamesBetween(c, lo, hi, lost) : Agree(m, n)

Before(e) == SelectSeq(BySymbol(e.ticker, -Far, Far), LAMBDA r : r.day < e.first)
After(e)  == SelectSeq(BySymbol(e.ticker, -Far, Far), LAMBDA r : r.day > e.last)
StaleRows(e) == SelectSeq(Before(e), LAMBDA r : r.cusip = Last(Before(e)).cusip)
LaterRows(e) == SelectSeq(After(e), LAMBDA r : r.cusip = After(e)[1].cusip /\ r.day <= After(e)[1].day + LaterRowsDays)

Listed(e, first) == world.listed[e.ticker] \notin {None, first} \cup world.exchanges /\ After(e) # <<>>
StaysStale(e, first, lost) == Len(StaleRows(e)) >= EraMinRows /\ FitsRows(first, StaleRows(e), lost)

LaterTicker(e, first, lost) ==
    LET holder == world.listed[e.ticker]
    IN  IF /\ Listed(e, first)
           /\ ~StaysStale(e, first, lost)
           /\ Len(LaterRows(e)) >= EraMinRows
           /\ ExistedBy(holder, e.first, lost)
           /\ FitsRows(holder, LaterRows(e), lost)
           /\ CarriedOver(holder, NameOf(e), e.first, Last(LaterRows(e)).day, lost)
        THEN holder ELSE None

OnlyOf(S) == IF Cardinality(S) = 1 THEN CHOOSE c \in S : TRUE ELSE None

(* The one other holder of the name that carried it over the era, or whose the rows are. *)
NameInForce(e, first, holders, last, lost) ==
    IF CarriedOver(first, NameOf(e), e.first, last, lost) THEN None
    ELSE OnlyOf({c \in holders : ExistedBy(c, e.first, lost) /\ CarriedOver(c, NameOf(e), e.first, last, lost)})

TickerRowsTie(e, first, holders, rows, lost) ==
    IF FitsRows(first, rows, lost) THEN None
    ELSE OnlyOf({c \in holders : ExistedBy(c, e.first, lost) /\ FitsRows(c, rows, lost)})

CheckedName(e, eras, answer, lost) ==
    LET holders == IndexHolders(NameOf(e)) \ {answer.cik}
        rows    == EraRows(e, LastSeen(e, eras))
        backfilled == IF Key(e) \in GuardedEras(eras) THEN LaterTicker(e, answer.cik, lost) ELSE None
    IN  IF answer.source # "name_search" \/ NameOf(e) = None \/ IdPin(e) # None THEN None
        ELSE IF backfilled # None THEN Answer(backfilled, "later_ticker")
        ELSE IF holders = {} THEN None
        ELSE IF Len(rows) >= EraMinRows THEN Answer(TickerRowsTie(e, answer.cik, holders, rows, lost), "ticker_rows")
        ELSE Answer(NameInForce(e, answer.cik, holders, LastSeen(e, eras), lost), "name_in_force")

(* The companies it read. *)
LaterReads(e, first, lost) ==
    IF ~Listed(e, first) THEN {}
    ELSE (IF Len(StaleRows(e)) >= EraMinRows THEN {first} ELSE {})
         \cup (IF StaysStale(e, first, lost) \/ Len(LaterRows(e)) < EraMinRows THEN {} ELSE {world.listed[e.ticker]})

NameReads(e, eras, first, lost) ==
    LET holders == IndexHolders(NameOf(e)) \ {first}
        rows    == EraRows(e, LastSeen(e, eras))
        refuted == IF Len(rows) >= EraMinRows THEN ~FitsRows(first, rows, lost)
                   ELSE ~CarriedOver(first, NameOf(e), e.first, LastSeen(e, eras), lost)
    IN  IF holders = {} THEN {} ELSE IF refuted THEN holders \cup {first} ELSE {first}

(* A faulty one: the check's reads are not counted. *)
FaultyCheckReads(e, eras, answer, lost) == {}

CheckReads(e, eras, answer, lost) ==
    IF answer.source # "name_search" \/ NameOf(e) = None \/ IdPin(e) # None THEN {}
    ELSE (IF Key(e) \in GuardedEras(eras) THEN LaterReads(e, answer.cik, lost) ELSE {})
         \cup (IF Key(e) \in GuardedEras(eras) /\ LaterTicker(e, answer.cik, lost) # None THEN {}
               ELSE NameReads(e, eras, answer.cik, lost))

---------------------------------------------------------------------
(* The second pass. known: era -> issuer; an era's links lead to eras that may have one. *)
LinesOf(c, known, eras) ==
    UNION {{<<d, Class(NameOf(e))>> : d \in CusipsOf(e)} :
              e \in {e \in Range(eras) : Key(e) \in DOMAIN known /\ (Key(e) \in DOMAIN known => known[Key(e)] = c)}}

(* A CUSIP whose eras all state another class than the era's. *)
OtherClass(d, lines, class) ==
    class # "" /\ \A l \in lines : l[1] = d => l[2] # "" /\ l[2] # class

(* Another line of the issuer, begun before the switch, trades at it: an acquirer that
   renamed itself, not the old company renamed. *)
TradesAtSwitch(h, cusips) ==
    LET lo == Min({h.last, h.day}) - SwitchDays
        hi == Max({h.last, h.day}) + SwitchDays
    IN  \E c \in cusips : /\ ByCusip(c) # <<>> /\ Begins(c) < lo
                          /\ \E r \in Range(ByCusip(c)) : lo <= r.day /\ r.day <= hi

(* It was renamed at the switch, from a name the old CUSIP's rows say or from one it carried
   as they began. *)
Renamed(c, h, lost) ==
    LET former == {n \in Former(c, lost) : Abs(n.to - h.day) <= RenameNearDays}
        said   == {d \in Descriptions(h) : d.word # NoWord}
    IN  /\ former # {} /\ said # {}
        /\ \A d \in said : Says(d, former \cup NamesBetween(c, d.day - GuardNameDays, d.day, lost))

SwitchIssuer(c, h, lines, class, lost) ==
    /\ ExistedBy(c, Begins(h.old), lost)
    /\ ~TradesAtSwitch(h, {l[1] : l \in {l \in lines : ~OtherClass(l[1], lines, class)}} \ {h.old, h.new})
    /\ Renamed(c, h, lost)

(* The links of the era whose issuer counts as the era's. *)
Leading(e, links, known, eras, lost) ==
    {h \in links : /\ h.from = Key(e) /\ h.to \in DOMAIN known
                   /\ h.kind = "switch" => SwitchIssuer(known[h.to], h, LinesOf(known[h.to], known, eras),
                                                        Class(NameOf(e)), lost)}
LinkedIssuers(e, links, known, eras, lost) == {known[h.to] : h \in Leading(e, links, known, eras, lost)}
LinkReads(e, links, known) == {known[h.to] : h \in {h \in links : h.from = Key(e) /\ h.to \in DOMAIN known}}

(* E: the company of a derived era's name, word for word, that filed a successor registration at its step. *)
SuccessorNamed(e) == IF e.origin = None THEN {} ELSE {c \in Companies \ world.exchanges : EdgarNames(c, {}) \cap Names(e) # {}}
SuccessorRegistrant(e, rows, lost) ==
    Guard({c \in SuccessorNamed(e) :
              \E f \in Forms(c, lost) : f.form \in SuccessorForms /\ Abs(f.day - e.origin.first) <= FilingDays},
          rows, lost)

(* B: the one candidate by 8-K frequency whose rows they are, under the era's name and
   filing at its last sighting. *)
FrequencyRenamed(e, rows, last, lost) ==
    LET c == Guard(world.frequency[e.ticker], rows, lost)
    IN  IF /\ NameOf(e) # None /\ c # None
           /\ \E m \in NamesBetween(c, last - 30, last + 30, lost) : Agree(m, NameOf(e))
           /\ \E f \in Forms(c, lost) : Abs(f.day - last) <= ObservedAliveDays
        THEN c ELSE None

(* E before B, which is asked only when E answers none. *)
Registrant(e, rows, lost) ==
    LET c == SuccessorRegistrant(e, rows, lost)
    IN  IF c # None /\ Named(e, c, lost) THEN Answer(c, "successor_registrant") ELSE None

Alone(e, rows, last, lost) ==
    LET renamed == FrequencyRenamed(e, rows, last, lost)
    IN  IF Registrant(e, rows, lost) # None THEN Registrant(e, rows, lost)
        ELSE IF renamed # None /\ Named(e, renamed, lost) THEN Answer(renamed, "efts_frequency_renamed")
        ELSE None

AloneReads(e, rows, lost) ==
    SuccessorNamed(e) \cup (IF Registrant(e, rows, lost) # None \/ NameOf(e) = None THEN {} ELSE world.frequency[e.ticker])

(* C: the one issuer its CUSIP links lead to whose rows they are. *)
Handoff(e, rows, links, known, eras, lost) ==
    LET c == Guard(LinkedIssuers(e, links, known, eras, lost), rows, lost)
    IN  IF c # None /\ Named(e, c, lost) THEN Answer(c, "handoff") ELSE None

(* D: the one issuer of the eras over its days with a CUSIP of its issuer code. *)
CodeIssuer(e, eras, known, seen) ==
    LET codes == {world.code[c] : c \in CusipsOf(e)}
    IN  OnlyOf({known[Key(o)] : o \in {o \in Range(eras) : /\ Key(o) # Key(e) /\ Key(o) \in DOMAIN known
                                                          /\ \E d \in CusipsOf(o) : world.code[d] \in codes
                                                          /\ o.first <= seen[Key(e)] /\ e.first <= seen[Key(o)]}})
IssuerCode(e, eras, known, seen, lost) ==
    LET c == CodeIssuer(e, eras, known, seen)
    IN  IF c # None /\ (c # None => ExistedBy(c, e.first, lost)) THEN Answer(c, "cusip_issuer") ELSE None

Known(first, out) == [k \in DOMAIN first \cup DOMAIN out |-> IF k \in DOMAIN first THEN first[k] ELSE out[k].cik]
Told(got) == [k \in {k \in DOMAIN got : got[k] # None} |-> got[k]]

(* Every era still open is judged against the answers known when the sweep began; sweeps
   repeat until one adds none. *)
RECURSIVE Sweep(_, _, _, _, _, _)
Sweep(out, todo, pass, first, eras, lost) ==
    LET known == Known(first, out)
        found == Told([k \in todo \ DOMAIN out |->
                          Handoff(pass.era[k], pass.rows[k], pass.links, known, eras, lost)])
    IN  IF DOMAIN found = {} THEN out ELSE Sweep(found @@ out, todo, pass, first, eras, lost)

(* Then each is checked against all it links to now, and again without those dropped. *)
Unsettled(out, pass, first, eras, lost) ==
    LET known == Known(first, out)
        Candidates(k) == LinkedIssuers(pass.era[k], pass.links, known, eras, lost)
                            \cup (IF out[k].source = "efts_frequency_renamed" THEN {out[k].cik} ELSE {})
    IN  {k \in DOMAIN out : /\ out[k].source # "successor_registrant"
                            /\ Guard(Candidates(k), pass.rows[k], lost) # out[k].cik}

RECURSIVE Settled(_, _, _, _, _)
Settled(out, pass, first, eras, lost) ==
    LET dropped == Unsettled(out, pass, first, eras, lost)
    IN  IF dropped = {} THEN out
        ELSE Settled(Restrict(out, DOMAIN out \ dropped), pass, first, eras, lost)

(* What a pass over the eras whose issuer first leaves open reads; seen is the day each is
   asked at. *)
PassOver(era, seen, first, links) ==
    LET rows == [k \in DOMAIN seen |-> EraRows(era[k], seen[k])]
    IN  [era |-> era, seen |-> seen, first |-> first, links |-> links, rows |-> rows,
         todo |-> {k \in DOMAIN seen : /\ k \notin DOMAIN first /\ CikPin(era[k]) = None /\ IdPin(era[k]) = None
                                       /\ Len(rows[k]) >= EraMinRows}]

Swept(pass, eras, lost) ==
    Sweep(Told([k \in pass.todo |-> Alone(pass.era[k], pass.rows[k], pass.seen[k], lost)]),
          pass.todo, pass, pass.first, eras, lost)

(* D rests on the answers the others made, and is asked of the eras they left. What an era
   read: an answer of E is never judged by its links; every other era's were, in the last
   sweep or in the check of the sweeps' answers, against all the sweeps made known. *)
Coded(pass, swept, linked, eras, lost) ==
    LET known == Known(pass.first, linked)
        coded == Told([k \in pass.todo \ DOMAIN linked |-> IssuerCode(pass.era[k], eras, known, pass.seen, lost)])
        byE   == {k \in DOMAIN swept : swept[k].source = "successor_registrant"}
        read(k) == AloneReads(pass.era[k], pass.rows[k], lost)
                      \cup (IF k \in byE THEN {} ELSE LinkReads(pass.era[k], pass.links, Known(pass.first, swept)))
                      \cup (IF k \in DOMAIN linked THEN {} ELSE {CodeIssuer(pass.era[k], eras, known, pass.seen)})
    IN  [answers |-> coded @@ linked, degraded |-> {k \in pass.todo : read(k) \cap lost # {}}]

InferOver(pass, swept, eras, lost) == Coded(pass, swept, Settled(swept, pass, pass.first, eras, lost), eras, lost)
InferPass(pass, eras, lost) == InferOver(pass, Swept(pass, eras, lost), eras, lost)
Infer(era, seen, first, links, eras, lost) == InferPass(PassOver(era, seen, first, links), eras, lost)
=====================================================================
