---------------------------- MODULE FigiLines ----------------------------
(* Stage 3 of the identity stage (identity/security_master.py): the line each era is on. A
   pin, then a CUSIP OpenFIGI knows, then today's holder of the ticker or the name, then a
   CUSIP handoff, then the line its issuer traded on; else the issuer's placeholder. The
   identity guard takes back the picks of today's holder that the evidence refutes, and
   asks again until it takes none back.

   st is the stage's input: the eras by key, the issuers of those that have one, the EDGAR
   names of each issuer, each era's candidate CUSIPs, the CUSIP links, the lost companies.
   A line is one of OpenFIGI's composites, or a placeholder: an issuer, a class and, when
   the issuer's eras of the class are several lines, the line's first CUSIP. *)
EXTENDS EraIssuers

MaxCusips == 3
BankruptcyDays == 365
BankruptcyLeadDays == 60
ReplacedDays == 45
RegistrationLeadDays == 180
RegistrationForms == {"10-12B", "10-12G"}
ClosingItems == {"2.01", "5.01"}
LeftBehindSettleDays == 30
OverlapDays == 60
WeakSources == {"ticker", "name"}
ConfirmedSources == {"pin", "cusip"}
Strength == <<"pin", "cusip", "ticker", "name", "handoff", "backfill", "placeholder">>

Composite(c) == [figi |-> c, cik |-> None, class |-> "", first |-> None]
Placeholder(c, class, first) == [figi |-> None, cik |-> c, class |-> class, first |-> first]
IsPlaceholder(line) == line # None /\ (line # None => line.figi = None)

Keys(st)      == DOMAIN st.era
CikOf(st, k)  == IF k \in DOMAIN st.issuers THEN st.issuers[k] ELSE None
Edgar(st, k)  == IF k \in DOMAIN st.issuers THEN st.edgar[st.issuers[k]] ELSE {}
Group(st, k)  == <<CikOf(st, k), Class(NameOf(st.era[k]))>>
Overlap(e, o) == o.first <= e.last /\ e.first <= o.last
Tried(st, k)  == SubSeq(st.cusips[k], 1, Min({MaxCusips, Len(st.cusips[k])}))

---------------------------------------------------------------------
(* The tiers. The line of an era's own evidence: its pin, or the first of its CUSIPs that
   OpenFIGI maps to a composite. *)
ConfirmingCusip(st, k) == LET known == SelectSeq(Tried(st, k), LAMBDA c : world.composite[c] # None)
                          IN  IF known = <<>> THEN None ELSE known[1]
PinnedKeys(st) == {k \in Keys(st) : IdPin(st.era[k]) # None}
CusipKeys(st)  == {k \in Keys(st) \ PinnedKeys(st) : ConfirmingCusip(st, k) # None}
Confirmed(st)  == [k \in PinnedKeys(st) \cup CusipKeys(st) |->
                      IF k \in PinnedKeys(st) THEN IdPin(st.era[k]) ELSE world.composite[ConfirmingCusip(st, k)]]

(* Another era's own evidence rules the composite out: an era of another issuer is on it, or
   one of the issuer and class is on another over the same days. *)
Contradicted(st, k, c, confirmed) ==
    \E o \in DOMAIN confirmed \ {k} :
        IF confirmed[o] = c THEN CikOf(st, o) \notin {None, CikOf(st, k)}
        ELSE Group(st, o) = Group(st, k) /\ Overlap(st.era[k], st.era[o])

(* Today's holder of the ticker, or of the name: accepted when it alone carries the ticker
   under one of the names. One that only EDGAR's names accept is weak. *)
Accepted(e, candidates, names) ==
    OnlyOf({c \in candidates : world.lines[c].ticker = e.ticker /\ Says(world.lines[c], names)})

NamedPick(st, k, candidates, source, confirmed) ==
    LET e     == st.era[k]
        own   == Accepted(e, candidates, Names(e))
        edgar == Accepted(e, candidates, Names(e) \cup Edgar(st, k))
    IN  IF own # None THEN [source |-> source, line |-> own, weak |-> FALSE]
        ELSE IF edgar # None /\ Edgar(st, k) # {} /\ ~Contradicted(st, k, edgar, confirmed)
        THEN [source |-> source, line |-> edgar, weak |-> TRUE]
        ELSE None

TierPick(st, k, confirmed) ==
    LET e        == st.era[k]
        byTicker == NamedPick(st, k, {c \in DOMAIN world.lines : world.lines[c].mapped /\ world.lines[c].ticker = e.ticker},
                              "ticker", confirmed)
    IN  IF byTicker # None THEN byTicker
        ELSE IF NameOf(e) = None THEN None
        ELSE NamedPick(st, k, {c \in DOMAIN world.lines : Agree(world.lines[c], NameOf(e))}, "name", confirmed)

(* The eras of a known issuer whose ticker's rows are all another security's. *)
ForeignEras(st) ==
    {k \in DOMAIN st.issuers :
        LET rows  == Range(Confirming(st.era[k]))
            known == Names(st.era[k]) \cup Edgar(st, k)
        IN  rows # {} /\ known # {} /\ \A r \in rows : ~Describes(r, known)}

(* The one composite the issuer and class traded on over the era's days; for an era whose
   rows are another security's also the one whose CUSIP traded then, or ended shortly before. *)
BackfillLine(st, k, confirmed) ==
    LET e        == st.era[k]
        others   == {o \in DOMAIN confirmed \ {k} : Group(st, o) = Group(st, k)}
        over     == {confirmed[o] : o \in {o \in others : Overlap(e, st.era[o])}}
        spanned  == {o \in others \ PinnedKeys(st) : TradingSpan(ConfirmingCusip(st, o)) # None}
        Span(o)  == TradingSpan(ConfirmingCusip(st, o))
        trading  == {confirmed[o] : o \in {o \in spanned : Span(o)[1] <= e.last /\ e.first <= Span(o)[2]}}
        ended    == {confirmed[o] : o \in {o \in spanned : e.first - Span(o)[2] \in 0 .. EraGapDays}}
    IN  IF k \notin DOMAIN st.issuers THEN None
        ELSE IF over # {} \/ k \notin ForeignEras(st) THEN OnlyOf(over)
        ELSE IF trading # {} THEN OnlyOf(trading) ELSE OnlyOf(ended)

---------------------------------------------------------------------
(* CUSIP handoffs between eras of one issuer and class; a switch may also pair a plain name
   with the one class letter the issuer's eras state. *)
Letters(st, c) == {Class(NameOf(st.era[k])) : k \in {k \in DOMAIN st.issuers : st.issuers[k] = c}} \ {""}
Stated(h)      == LET letters == {d.class : d \in Descriptions(h)} \ {""}
                  IN  IF Cardinality(letters) = 1 THEN letters ELSE {}

OfOneLine(st, h) ==
    LET from == Group(st, h.from)
        to   == Group(st, h.to)
    IN  /\ from[1] # None /\ from[1] = to[1]
        /\ \/ from[2] = to[2]
           \/ /\ h.kind = "switch"
              /\ IF from[2] = "" THEN Letters(st, from[1]) \cup Stated(h) = {to[2]}
                 ELSE /\ Cardinality(Letters(st, from[1])) <= 1
                      /\ to[2] = "" /\ h.to \in CusipKeys(st)
                      /\ world.lines[Confirmed(st)[h.to]].class = from[2]

(* The members of S that pairs connect to k. *)
Connected(k, S, pairs) ==
    LET Grown[T \in SUBSET S] == LET more == T \cup {b \in S : \E a \in T : {a, b} \in pairs}
                                 IN  IF more = T THEN T ELSE Grown[more]
    IN  Grown[{k}]

(* The composites the CUSIP links of an era, and of the eras it shares a CUSIP with, lead
   to; with exactly one, it joins it. *)
Reached(st, k, unpicked, links, confirmed, picks) ==
    LET linked == {h \in links : OfOneLine(st, h)}
        chain  == Connected(k, unpicked, {{h.from, h.to} : h \in {h \in linked : h.kind = "shared"}})
        strong == {p \in DOMAIN picks : picks[p].source \in WeakSources /\ ~picks[p].weak}
        from   == {h \in linked : h.from \in chain}
    IN  {confirmed[h.to] : h \in {h \in from : h.to \in DOMAIN confirmed}}
        \cup {picks[h.to].line : h \in {h \in from : h.kind = "shared" /\ h.to \in strong \ DOMAIN confirmed}}

HandoffPicks(st, links, confirmed, picks) ==
    LET unpicked == DOMAIN st.issuers \ (DOMAIN picks \cup DOMAIN confirmed)
        To(k)    == OnlyOf(Reached(st, k, unpicked, links, confirmed, picks))
    IN  [k \in {k \in unpicked : To(k) # None /\ ~Contradicted(st, k, To(k), confirmed)} |->
            [source |-> "handoff", line |-> To(k), weak |-> TRUE]]

(* Guard (c): the eras of an issuer and class with no pick follow the weak picks of the
   others onto their composite, or take them back onto the placeholder with them. *)
Siblings(st, picks, k, pinned) == {o \in DOMAIN st.issuers \ (DOMAIN picks \cup pinned) : Group(st, o) = Group(st, k)}
WeakOf(st, picks, k) == {o \in DOMAIN picks : picks[o].weak /\ Group(st, o) = Group(st, k)}

KeptTogether(st, picks, confirmed, pinned) ==
    LET Lines(k)   == {picks[o].line : o \in WeakOf(st, picks, k)}
        Follows(k) == /\ Cardinality(Lines(k)) = 1
                      /\ \A o \in Siblings(st, picks, k, pinned), c \in Lines(k) : ~Contradicted(st, o, c, confirmed)
        withdrawn  == {k \in DOMAIN picks : picks[k].weak /\ Siblings(st, picks, k, pinned) # {} /\ ~Follows(k)}
        following  == {k \in DOMAIN st.issuers \ (DOMAIN picks \cup pinned) : WeakOf(st, picks, k) # {} /\ Follows(k)}
    IN  [k \in (DOMAIN picks \ withdrawn) \cup following |->
            IF k \in DOMAIN picks THEN picks[k]
            ELSE [source |-> "handoff", line |-> CHOOSE c \in Lines(k) : TRUE, weak |-> TRUE]]

(* An era's CUSIPs that are its line's: those OpenFIGI maps to it, and its own OpenFIGI
   knows no line of. *)
LineCusips(st, k, c) ==
    {d \in Range(Tried(st, k)) : \/ world.composite[d] = c
                                \/ (world.composite[d] = None /\ d \in Range(st.era[k].own))}
FirstTried(st, k) == Range(SubSeq(Tried(st, k), 1, Min({1, Len(Tried(st, k))})))

(* resolve_many: the tiers in turn, over what the last ones picked; barred are the eras whose
   ticker and name are not asked. *)
TierPicks(st, confirmed, guarded, barred) ==
    LET asked == {k \in Keys(st) \ (DOMAIN confirmed \cup barred) :
                     k \in guarded => BackfillLine(st, k, confirmed) = None}
    IN  Told([k \in asked |-> TierPick(st, k, confirmed)])
            @@ [k \in CusipKeys(st) |-> [source |-> "cusip", line |-> confirmed[k], weak |-> FALSE]]

BackfillPicks(st, confirmed, guarded, picks) ==
    Told([k \in guarded \ (DOMAIN picks \cup PinnedKeys(st)) |->
             LET line == BackfillLine(st, k, confirmed)
             IN  IF line = None THEN None ELSE [source |-> "backfill", line |-> line, weak |-> FALSE]])
        @@ picks

Resolution(st, k, picks, confirmed) ==
    IF k \in PinnedKeys(st)
    THEN [source |-> "pin", line |-> Composite(confirmed[k]), cusips |-> FirstTried(st, k)]
    ELSE IF k \in DOMAIN picks
    THEN [source |-> picks[k].source, line |-> Composite(picks[k].line), cusips |-> LineCusips(st, k, picks[k].line)]
    ELSE IF k \in DOMAIN st.issuers
    THEN [source |-> "placeholder", line |-> Placeholder(st.issuers[k], Class(NameOf(st.era[k])), None),
          cusips |-> FirstTried(st, k)]
    ELSE [source |-> "unresolved", line |-> None, cusips |-> {}]

ByPicks(st, picks, confirmed) == [k \in Keys(st) |-> Resolution(st, k, picks, confirmed)]
WithLinks(st, links, picks, confirmed) == HandoffPicks(st, links, confirmed, picks) @@ picks
(* A faulty one: an era taken off a composite is not kept with its class. *)
FaultyByTiers(st, links, barred, confirmed, guarded) ==
    ByPicks(st, KeptTogether(st, BackfillPicks(st, confirmed, guarded,
                                     WithLinks(st, links, TierPicks(st, confirmed, guarded, barred), confirmed)),
                             confirmed, PinnedKeys(st) \cup barred), confirmed)
ByTiers(st, links, barred, confirmed, guarded) ==
    ByPicks(st, KeptTogether(st, BackfillPicks(st, confirmed, guarded,
                                     WithLinks(st, links, TierPicks(st, confirmed, guarded, barred), confirmed)),
                             confirmed, PinnedKeys(st)), confirmed)
ResolveMany(st, links, barred) ==
    ByTiers(st, links, barred, Confirmed(st), GuardedEras(st.era) \cup ForeignEras(st))

---------------------------------------------------------------------
(* The questions the guard asks of the issuers' filings. Post-bankruptcy stock is a new
   security: the old CUSIP traded with a Q, or its issuer filed an 8-K 1.03 before the new. *)
WentBankrupt(old, new, c, lost) ==
    \/ \E q, r \in Range(ByCusip(old)) : q.suffix = "Q" /\ r.suffix = "" /\ q.ticker = r.ticker
    \/ /\ c # None /\ ByCusip(new) # <<>> /\ ByCusip(old) # <<>>
       /\ (c # None) => \E f \in Forms(c, lost) :
              /\ "1.03" \in f.items
              /\ Begins(new) - BankruptcyDays <= f.day /\ f.day <= Begins(new)
              /\ f.day >= Last(ByCusip(old)).day - BankruptcyLeadDays

Filed(c, day, lead, lost) == {f \in Forms(c, lost) : day - lead <= f.day /\ f.day <= day + ReplacedDays}

(* Another registrant took the class's place at the switch, and the old one did not become
   it: its listing ended and it was bought, and the new one registered anew. *)
Replaced(old, new, oldCik, newCik, lost) ==
    /\ None \notin {oldCik, newCik} /\ oldCik # newCik /\ ByCusip(new) # <<>>
    /\ LET day == Begins(new)
       IN  /\ \E f \in Filed(oldCik, day, ReplacedDays, lost) : f.form = "25"
           /\ \E f \in Filed(oldCik, day, ReplacedDays, lost) : f.form = "8-K" /\ f.items \cap ClosingItems # {}
           /\ \E f \in Filed(newCik, day, RegistrationLeadDays, lost) : f.form \in RegistrationForms
           /\ \A f \in Filed(newCik, day, ReplacedDays, lost) : f.form \notin SuccessorForms

(* Today's holder of the ticker is another company that had filed nothing by then. *)
RegistrantAfter(ticker, c, day, lost) ==
    LET holder == world.listed[ticker]
    IN  /\ c # None /\ holder \notin {None, c} \cup lost
        /\ (holder # None) => /\ FirstFiled(holder, lost) > day
                              /\ \A f \in Forms(holder, lost) : f.form \notin SuccessorForms

(* A bankruptcy left the line behind, and its ticker went on as other shares. *)
LeftBehind(ticker, own, c, lost) ==
    LET rows  == {r \in Range(world.rows) : r.cusip \in own}
        under == {r.day : r \in {r \in rows : r.ticker = ticker /\ r.suffix = ""}}
        later == SelectSeq(BySymbol(ticker, IF under = {} THEN Far ELSE Max(under) + 1, Far), LAMBDA r : r.cusip \notin own)
    IN  /\ under # {} /\ later # <<>>
        /\ \A r \in rows : r.day <= later[1].day + LeftBehindSettleDays
        /\ \E old \in own : WentBankrupt(old, later[1].cusip, c, lost)

(* The pairs of eras whose CUSIPs are one line going on. A switch counts when it leads from
   the one to the other alone, of the eras with anything to do with each other; an era that
   is none of those given is taken to have. *)
Plausible(st, h) ==
    \/ ~({h.from, h.to} \subseteq Keys(st))
    \/ LET a == st.era[h.from]
           b == st.era[h.to]
       IN  \/ a.ticker = b.ticker
           \/ CikOf(st, h.from) # None /\ CikOf(st, h.from) = CikOf(st, h.to)
           \/ \E m \in Names(a), n \in Names(b) : Agree(m, n)

CarryingLinks(st, askReplaced) ==
    LET switches == {h \in st.links : h.kind = "switch"}
        likely   == {h \in switches : Plausible(st, h)}
        Onward(h) == {x.to : x \in {x \in likely : x.from = h.from /\ x.old = h.old}}
        Inward(h) == {x.from : x \in {x \in likely : x.to = h.to /\ x.new = h.new}}
        among == {h \in st.links : {h.from, h.to} \subseteq Keys(st)}
    IN  {{h.from, h.to} : h \in {h \in among : h.kind = "shared"}}
        \cup {{h.from, h.to} : h \in {h \in switches \cap among :
                 /\ Cardinality(Onward(h)) = 1 /\ Cardinality(Inward(h)) = 1
                 /\ ~WentBankrupt(h.old, h.new, CikOf(st, h.from), st.lost)
                 /\ askReplaced => ~Replaced(h.old, h.new, CikOf(st, h.from), CikOf(st, h.to), st.lost)}}

---------------------------------------------------------------------
(* The identity guard. A weak era is one the ticker or the name answered for. The lines of
   a composite: its weak and confirmed eras, parted by the carrying links; a line with no
   confirmed era is there by today's holder alone. *)
On(res, c)     == {k \in DOMAIN res : /\ res[k].line = c
                                     /\ res[k].source \in WeakSources \cup ConfirmedSources}
SureOn(res, c) == {k \in On(res, c) : res[k].source \in ConfirmedSources}
WeakLines(res, c, carrying) ==
    {line \in {Connected(k, On(res, c), carrying) : k \in On(res, c)} : line \cap SureOn(res, c) = {}}
Composites(res) == {res[k].line : k \in DOMAIN res} \ {None}
OwnOf(st, line) == UNION {CusipsOf(st.era[k]) : k \in line}
LastOf(st, line) == CHOOSE k \in line : \A o \in line : st.era[o].first <= st.era[k].first

(* It would carry its line's range for the ticker across another line's confirmed one. *)
Between(lo, a, b, hi) == lo < a /\ b < hi
Crosses(st, res, k) ==
    LET e == st.era[k]
        OnTicker(o) == st.era[o].ticker = e.ticker
        sure(c) == {st.era[o] : o \in {o \in SureOn(res, c) : OnTicker(o)}}
    IN  /\ res[k].source \in WeakSources
        /\ \E c \in Composites(res) \ {res[k].line} :
              /\ sure(c) # {}
              /\ LET first == Min({o.first : o \in sure(c)})
                     last  == Max({o.last : o \in sure(c)})
                 IN  \E o \in DOMAIN res \ {k} :
                        /\ res[o].line = res[k].line /\ OnTicker(o)
                        /\ \/ Between(e.last, first, last, st.era[o].first)
                           \/ Between(st.era[o].last, first, last, e.first)

(* The composite is another line's: the issuer and class go on as another line by the time
   the confirmed era begins, or a bankruptcy or another registrant came between. *)
OnAnotherLine(st, res, c, line) ==
    LET last == LastOf(st, line)
        first == Min({st.era[k].first : k \in line})
        sure == SureOn(res, c)
        goesOn == {t \in DOMAIN res : /\ res[t].source \in ConfirmedSources /\ res[t].line # c
                                      /\ Group(st, t) = Group(st, last) /\ st.era[last].last < st.era[t].first}
        later == {o \in sure : st.era[last].last < st.era[o].first}
    IN  \/ CikOf(st, last) # None /\ \E t \in goesOn, o \in later : st.era[t].first <= st.era[o].first
        \/ \E o \in {o \in sure : first < st.era[o].first} : \E x \in OwnOf(st, line), y \in CusipsOf(st.era[o]) :
               \/ WentBankrupt(x, y, CikOf(st, last), st.lost)
               \/ Replaced(x, y, CikOf(st, last), CikOf(st, o), st.lost)

(* The lines the guard takes back: each is a set of eras. *)
Refuted(st, res) ==
    LET carrying == CarryingLinks(st, TRUE)
        WeakOn(cs, links) == {<<c, line>> \in UNION {{<<c, l>> : l \in WeakLines(res, c, links)} : c \in cs} : TRUE}
        another == {p \in WeakOn({c \in Composites(res) : SureOn(res, c) # {}}, carrying) :
                       OwnOf(st, p[2]) # {} /\ OnAnotherLine(st, res, p[1], p[2])}
        behind  == {p \in WeakOn(Composites(res), CarryingLinks(st, FALSE)) :
                       \E k \in p[2] : /\ CusipsOf(st.era[k]) # {}
                                       /\ LeftBehind(st.era[k].ticker, CusipsOf(st.era[k]), CikOf(st, k), st.lost)}
        before  == {p \in WeakOn(Composites(res), carrying) :
                       \E k \in p[2] : /\ CusipsOf(st.era[k]) # {}
                                       /\ RegistrantAfter(st.era[k].ticker, CikOf(st, k), st.era[k].first, st.lost)}
    IN  <<{p[2] : p \in another}, {p[2] : p \in behind}, {p[2] : p \in before}>>

(* A detached era does not go back to the composite it left through a switch that carries
   no line on. *)
Usable(st, res, detached) ==
    LET Back(k, o) == k \in DOMAIN detached /\ o \in DOMAIN res /\ (k \in DOMAIN detached /\ o \in DOMAIN res =>
                                                                     res[o].line = detached[k])
    IN  {h \in st.links : \/ h.kind = "shared" \/ {h.from, h.to} \in CarryingLinks(st, TRUE)
                         \/ ~(Back(h.from, h.to) \/ Back(h.to, h.from))}

(* detached: era -> the line it left; lines: the detached lines, each without the eras an
   earlier rule took. *)
RECURSIVE Guarded(_, _, _, _)
RECURSIVE Detaching(_, _, _, _, _)
Detaching(st, res, detached, lines, taken) ==
    IF taken.keys = {} THEN [res |-> res, detached |-> detached, lines |-> lines]
    ELSE Guarded(st, res, [k \in taken.keys |-> res[k].line] @@ detached, taken.lines)
TakenBack(st, res, detached, lines) ==
    FoldLeft(LAMBDA acc, refuted : [keys  |-> acc.keys \cup UNION refuted,
                                    lines |-> acc.lines \cup ({l \ acc.keys : l \in refuted} \ {{}})],
             [keys |-> {k \in DOMAIN res \ DOMAIN detached : Crosses(st, res, k)}, lines |-> lines], Refuted(st, res))
GuardRound(st, res, detached, lines) == Detaching(st, res, detached, lines, TakenBack(st, res, detached, lines))
Guarded(st, before, detached, lines) ==
    GuardRound(st, ResolveMany(st, Usable(st, before, detached), DOMAIN detached), detached, lines)

(* The eras of a detached line that end on placeholders go where its last era went. When
   that one is on no line at all the program stops (is_placeholder(None)). *)
TogetherStops(st, g) ==
    \E l \in g.lines : /\ g.res[LastOf(st, l)].line = None
                       /\ \E k \in l : g.res[k].source = "placeholder"

Moved(st, g) == {k \in UNION g.lines : g.res[k].source = "placeholder"}
Together(st, g) ==
    LET LineOf(k) == CHOOSE l \in g.lines : k \in l
        Target(l) == IF g.res[LastOf(st, l)].source # "placeholder" THEN g.res[LastOf(st, l)].line
                     ELSE Placeholder(CikOf(st, LastOf(st, l)), Class(NameOf(st.era[LastOf(st, l)])), None)
    IN  [k \in DOMAIN g.res |->
            IF k \notin Moved(st, g) THEN g.res[k]
            ELSE [g.res[k] EXCEPT !.line = Target(LineOf(k)),
                                  !.source = IF IsPlaceholder(Target(LineOf(k))) THEN @ ELSE "handoff"]]

---------------------------------------------------------------------
(* A placeholder holds one line: the eras of one are parted when their CUSIPs trade at once.
   Eras that share a CUSIP, or that a switch carries on, stay together. *)
Spans(st, part) == {TradingSpan(c) : c \in UNION {Range(st.cusips[k]) : k \in part}} \ {None}
AtOnce(st, a, b) ==
    \E x \in Spans(st, a), y \in Spans(st, b) : Min({x[2], y[2]}) - Max({x[1], y[1]}) >= OverlapDays

Earliest(st, part) == Min({x[1] : x \in Spans(st, part)})
FirstCusip(st, part) ==
    CHOOSE c \in UNION {Range(st.cusips[k]) : k \in part} : TradingSpan(c) # None /\ TradingSpan(c)[1] = Earliest(st, part)

(* The lines a part may join: it trades at once with no part of them. *)
(* A faulty one: it is compared with the first part of each line alone. *)
FaultyOpenLines(st, lines, p) ==
    {i \in DOMAIN lines : ~AtOnce(st, p, CHOOSE q \in lines[i] : \A r \in lines[i] : Earliest(st, q) <= Earliest(st, r))}
OpenLines(st, lines, p) == {i \in DOMAIN lines : \A q \in lines[i] : ~AtOnce(st, p, q)}

(* Each part, by its first trading day, joins the first line none of whose parts traded at
   once with it; an era with no CUSIP that trades joins the line of its ticker, or the nearest. *)
PlaceholderLines(st, keys) ==
    LET carrying == CarryingLinks([st EXCEPT !.era = Restrict(@, keys)], TRUE)   \* given every link of the run
        shared == {{a, b} : <<a, b>> \in {p \in keys \X keys : Range(st.cusips[p[1]]) \cap Range(st.cusips[p[2]]) # {}}}
        parts == {Connected(k, keys, carrying \cup shared) : k \in keys}
        sorted == SetToSortSeq({p \in parts : Spans(st, p) # {}}, LAMBDA p, q : Earliest(st, p) < Earliest(st, q))
        Place(lines, p) ==
            IF OpenLines(st, lines, p) = {} THEN Append(lines, {p})
            ELSE [lines EXCEPT ![Min(OpenLines(st, lines, p))] = @ \cup {p}]
    IN  [lines |-> FoldLeft(Place, <<>>, sorted), rest |-> keys \ UNION Range(sorted)]

Gap(st, line, e) ==
    Max({0, Min({st.era[k].first : k \in line}) - e.last, e.first - Max({st.era[k].last : k \in line})})

WithRest(st, lines, rest) ==
    LET Join(members, k) ==
            LET e    == st.era[k]
                tied == {i \in DOMAIN members : \E o \in members[i] : st.era[o].ticker = e.ticker}
                among == IF tied = {} THEN DOMAIN members ELSE tied
                near == {i \in among : \A j \in among : Gap(st, members[i], e) <= Gap(st, members[j], e)}
            IN  [members EXCEPT ![Min(near)] = @ \cup {k}]
    IN  FoldLeft(Join, [i \in DOMAIN lines |-> UNION lines[i]],
                 SetToSortSeq(rest, LAMBDA a, b : st.era[a].first < st.era[b].first))

SplitPlaceholders(st, res) ==
    LET Held(line)  == {k \in DOMAIN res : res[k].source = "placeholder" /\ res[k].line = line}
        Parted(line) == PlaceholderLines(st, Held(line))
        Splits(line) == Cardinality(Held(line)) >= 2 /\ Len(Parted(line).lines) >= 2
        LineNames(line) == LET all == WithRest(st, Parted(line).lines, Parted(line).rest)
                        IN  [k \in Held(line) |->
                                LET i == CHOOSE i \in DOMAIN all : k \in all[i]
                                IN  [line EXCEPT !.first = FirstCusip(st, UNION Parted(line).lines[i])]]
    IN  [k \in DOMAIN res |->
            IF res[k].source = "placeholder" /\ (res[k].source = "placeholder" => Splits(res[k].line))
            THEN [res[k] EXCEPT !.line = LineNames(res[k].line)[k]] ELSE res[k]]

(* resolve_with_identity_guard. *)
ByGuard(st, g) ==
    IF TogetherStops(st, g) THEN [stops |-> TRUE, res |-> g.res, moved |-> {}]
    ELSE [stops |-> FALSE, res |-> SplitPlaceholders(st, Together(st, g)), moved |-> Moved(st, g)]
Resolved(st) == ByGuard(st, Guarded(st, <<>>, <<>>, {}))

(* build_securities: each line's issuer (its latest known one), class and eras, and the
   strongest source of them. *)
EarliestOf(st, keys) == CHOOSE k \in keys : \A o \in keys : st.era[k].first <= st.era[o].first
ClassOn(st, res, k) ==
    IF res[k].line.figi # None /\ (res[k].line.figi # None => world.lines[res[k].line.figi].class # "")
    THEN world.lines[res[k].line.figi].class ELSE Class(NameOf(st.era[k]))

Security(st, res, line) ==
    LET keys  == {k \in DOMAIN res : res[k].line = line}
        known == keys \cap DOMAIN st.issuers
        rank(k) == CHOOSE i \in DOMAIN Strength : Strength[i] = res[k].source
        best  == EarliestOf(st, {k \in keys : \A o \in keys : rank(k) <= rank(o)})
        stating == {k \in keys : ClassOn(st, res, k) # ""}
    IN  [issuer |-> IF known = {} THEN None ELSE st.issuers[LastOf(st, known)],
         class  |-> IF ClassOn(st, res, best) # "" \/ stating = {} THEN ClassOn(st, res, best)
                    ELSE ClassOn(st, res, EarliestOf(st, stating)),
         source |-> res[best].source, keys |-> keys, cusips |-> UNION {res[k].cusips : k \in keys}]

Securities(st, res) == [line \in Composites(res) |-> Security(st, res, line)]
=====================================================================
