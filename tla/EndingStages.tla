----------------------------- MODULE EndingStages -----------------------------
(* Stage 5's dating of an ending and stages 7 to 9h of a run (pipeline._run): what
   happens to the endings the finder found, before the tables are written.  Each stage reads what the earlier ones
   left in three places that must agree: the rows, the closes and the merger values
   read for them, and the securities the run adds.

   A is an observed security with at most one ending from the finder, B an observed
   security that may take A's ticker on day TakenOn, X the successor a filing or a
   new line may add, Q the acquirer a stock leg's ticker may add.  What a filing, a
   fails row or a listing says is chosen when a stage reads it.  A kind is a CRSP
   code with its bucket. *)
EXTENDS LastTrade

CONSTANTS A, B, X, Q, None,
          TakenOn           \* B's first day under A's ticker

ASSUME EndingStagesAssumption ==
    /\ TakenOn \in 2..LastDay
    /\ A \notin {B, X, Q, None} /\ B \notin {X, Q, None} /\ X \notin {Q, None} /\ Q # None

Observed == {A, B}
Kinds    == {"merger", "transfer", "bankrupt", "dropped", "price", "unknown", "expired"}
Distress == {"bankrupt", "dropped", "price", "unknown"}
Doubts   == {"no_evidence", "successor_unknown", "payout", "unchecked"}
Slots    == {"found", "handoff", "line", "unexplained"}
Stages   == <<"dating", "finding", "closes", "values", "r1", "successors", "handoffs", "again", "notices",
              "line", "distress", "history", "written">>
Decisions == {"nothing", "filing", "cik", "cusip", "takeover"}

NoRow   == [kind |-> "no row"]
NoValue == [terms |-> "no value"]
NoHandoff == [decision |-> "nothing", near |-> FALSE, elsewhere |-> FALSE]

NoEvidence == [how |-> "none"]

VARIABLES
    evidence, dated,  \* what the finder reads of A's ending, and the day it gives
    listed, tradesOn, \* is A listed today, and do its CUSIPs trade on after its ending?
    edge, known,      \* is it sighted at the fails data's last day, or at all? (9h reads them)
    stage,
    rows,             \* the endings: the finder's, the handoffs', the added line's, 9h's
    closes,           \* the day each ending's close was read on, 0 for none
    values,           \* the merger values (MergerValues.records)
    acquirers,        \* the acquirers those add (MergerValues.added)
    pending,          \* the successors 8b adds (_R1.added)
    added,            \* the securities the run will write beside the observed ones
    handed,           \* what the handoff stage decided of A and B
    redated,          \* the rows it moved that keep their kind
    review,           \* does A's ended_without_delisting item stand?
    end               \* the day A's written history ends on, 0 while it is open

facts == <<evidence, dated, listed, tradesOn>>
vars  == <<facts, edge, known, stage, rows, closes, values, acquirers, pending, added, handed, redated, review, end>>

Row(kind, succ, flags, day, print, sure) ==
    [sec |-> A, kind |-> kind, succ |-> succ, tick |-> None, flags |-> flags,
     day |-> day, print |-> print, sure |-> sure]

Live(rs) == {s \in Slots : rs[s] # NoRow}

-------------------------------------------------------------------------------
(* Rewrites: the one owner of a row's kind and successor *)

(* continuation: another kind becomes the exchange transfer. *)
Continue(r, to, mark) ==
    [r EXCEPT !.kind = "transfer", !.succ = to, !.flags = (@ \ Doubts) \cup mark]

GoOn(r) == [r EXCEPT !.succ = r.sec, !.flags = @ \ {"successor_unknown"}]

Reclassify(r, kind) == [r EXCEPT !.kind = kind, !.flags = @ \ {"no_evidence"}]

Awaits(r) == "successor_unknown" \in r.flags
IsReal(r) == r.succ # r.sec

-------------------------------------------------------------------------------
(* Last trade days around a handoff *)

HandoffDay(last) == IF last < TakenOn THEN last ELSE TakenOn - 1

(* A faulty cap: off by one. *)
FaultyBeforeSuccessor(r) ==
    IF r.day > TakenOn /\ ~r.print THEN [r EXCEPT !.day = TakenOn - 1] ELSE r

BeforeSuccessor(r) ==
    IF r.day >= TakenOn /\ ~r.print THEN [r EXCEPT !.day = TakenOn - 1] ELSE r

AtHandoff(r, last) ==
    IF r.day = 0 THEN [r EXCEPT !.day = HandoffDay(last), !.print = FALSE, !.sure = TRUE]
    ELSE BeforeSuccessor(r)

(* A day from the notice of a handoff row's Form 25, or the day it has. *)
NoticeDays == {t \in {Decide(n, NoReading, 0, 0) : n \in [day : Days, kind : NoticeKinds]} :
                  t.sure /\ t.day < TakenOn}

FromNotice(r) == {r} \cup {[r EXCEPT !.day = t.day, !.print = TRUE, !.sure = TRUE] : t \in NoticeDays}

-------------------------------------------------------------------------------
(* The history of A over the rows: which end it, and when *)

(* A row under a ticker the successor took is the successor's. *)
TradesAfter(r) ==
    /\ tradesOn /\ r.succ \in {None, A}
    /\ r.kind \in {"merger", "transfer"} \/ listed = "yes"

Ends(r) == r.sec = A /\ IsReal(r) /\ ~(r.day # 0 /\ r.sure /\ TradesAfter(r))

EndDay(r) == IF r.day # 0 THEN r.day ELSE LastDay
Final(rs) == {s \in Live(rs) : Ends(rs[s])}
Later(rs) == CHOOSE s \in Final(rs) : \A t \in Final(rs) : EndDay(rs[t]) <= EndDay(rs[s])

ListedStill(rs) == listed = "yes" /\ ~(Final(rs) # {} /\ rs[Later(rs)].succ \in {B, X})
EndOf(rs)  == IF Final(rs) # {} /\ ~ListedStill(rs) THEN EndDay(rs[Later(rs)]) ELSE 0
Open(rs, atEdge) == ListedStill(rs) \/ (Final(rs) = {} /\ atEdge)

-------------------------------------------------------------------------------
(* Merger values *)

(* What the filings and the fails rows of that day can give: terms of one share
   and no cash or of another amount, the caller's or the library's, checked against
   the close or not, and an acquirer the run adds, only for terms the gate kept. *)
ValuesOn(day, sources) ==
    {v \in [day : {day}, terms : {"share", "other", "none"}, gate : {"kept", "failed", "unchecked"},
            acq : {None, Q}, by : sources] :
        /\ v.terms = "none" => v.gate = "unchecked" /\ v.acq = None
        /\ v.acq = Q => v.gate = "kept"
        /\ v.by = "caller" => v.terms # "none"}

Valued(v) == v # NoValue
ReadTerms(v)  == Valued(v) /\ v.by # "caller" /\ v.terms # "none"
Reconciled(v) == Valued(v) /\ (v.gate = "kept" \/ v.by = "caller") /\ v.terms = "other"

Restate(v) == [v EXCEPT !.terms = "share", !.gate = "unchecked", !.acq = None, !.by = "statement"]

AddedBy(v) == IF Valued(v) /\ v.acq = Q THEN {Q} ELSE {}

(* Terms of another amount may leave a doubt on the row: a right nothing values, a
   dividend nothing states, an old price of the acquirer. *)
Flagged(r, v) == IF v.terms = "other" THEN [r EXCEPT !.flags = @ \cup {"payout"}] ELSE r

(* A row with no day has no close and says so; the fails rows have every other close. *)
CloseFlag(r) == [r EXCEPT !.flags = (@ \ {"close"}) \cup IF r.day # 0 THEN {} ELSE {"close"}]

-------------------------------------------------------------------------------
(* Handoffs *)

(* decide_handoff, on a filing of B's issuer, A living on under another ticker,
   the two sightings close together, B or its issuer older than the switch, A's
   issuer carrying on elsewhere, one issuer, and a CUSIP switch at the same price. *)
DecideHandoff(p) ==
    IF p.filing /\ ~p.livedOn THEN "filing"
    ELSE IF p.close /\ ~p.existed /\ ~p.livedOn /\ ~p.carriesOn /\ (p.same \/ p.switch)
         THEN IF p.same THEN "cik" ELSE "cusip"
    ELSE IF p.existed \/ (p.older /\ ~p.same) THEN "takeover"
    ELSE "nothing"

PairFacts == [filing : BOOLEAN, livedOn : BOOLEAN, close : BOOLEAN, existed : BOOLEAN,
              carriesOn : BOOLEAN, same : BOOLEAN, switch : BOOLEAN, older : BOOLEAN]
(* Each decision, and whether A traded on under another ticker. *)
Handoffs0 == {<<DecideHandoff(p), p.livedOn>> : p \in PairFacts}

(* A faulty test: a row that names another successor is handed over too. *)
FaultyConflict(r, v, decision, ratio) ==
    \/ r.kind = "merger" /\ (decision = "cusip" \/ (decision # "filing" /\ Reconciled(v)) \/ ratio)
    \/ r.kind \notin {"merger", "transfer", "unknown"}

(* Does the row stand against the handoff?  ratio: its own statement gives another
   number of shares than one (rule 6). *)
Conflict(r, v, decision, ratio) ==
    \/ r.succ \notin {None, B}
    \/ r.kind = "merger" /\ (decision = "cusip" \/ (decision # "filing" /\ Reconciled(v)) \/ ratio)
    \/ r.kind \notin {"merger", "transfer", "unknown"}

-------------------------------------------------------------------------------
(* What the finder leaves of a dated ending: one whose security went on after its
   Form 25 goes on as itself or is not told; a transfer awaits its successor; a drop
   without filings has the volume alone. *)
FoundBy(e, t) ==
    LET Of(kind, succ, flags) == Row(kind, succ, flags, t.day, t.source \in Prints, t.sure)
    IN IF t = NoEnding THEN {NoRow}
       ELSE IF e.how = "drop" THEN {Of("dropped", None, {})}
       ELSE {Of("unknown", None, f) : f \in {{}, {"no_evidence"}}}
            \cup IF e.goesOn THEN {Of("transfer", A, {})}
                 ELSE {Of("transfer", None, {"successor_unknown"})}
                      \cup {Of(k, None, {}) : k \in {"merger", "bankrupt", "dropped", "expired"}}

Init ==
    /\ stage = "dating"
    /\ evidence \in Evidence /\ dated = NoEnding
    /\ listed = "unknown" /\ tradesOn = FALSE
    /\ edge = FALSE /\ known = TRUE
    /\ rows = [s \in Slots |-> NoRow] /\ review = FALSE
    /\ closes = [s \in Slots |-> 0] /\ values = [s \in Slots |-> NoValue]
    /\ acquirers = {} /\ pending = {} /\ added = {}
    /\ handed = NoHandoff /\ redated = {} /\ end = 0

At(here) == stage = here
GoTo(next) == stage' = next

(* 5.  The ending's day, then the ending; an ended security that is listed nowhere and
   has no real ending is reviewed. *)
DateEnding ==
    /\ At("dating") /\ GoTo("finding")
    /\ dated' = DateOf(evidence)
    /\ UNCHANGED <<evidence, listed, tradesOn, edge, known, rows, closes, values, acquirers, pending, added,
                   handed, redated, review, end>>

FindEnding ==
    /\ At("finding") /\ GoTo("closes")
    /\ listed' \in {"yes", "no", "unknown"} /\ tradesOn' \in BOOLEAN
    /\ evidence.how = "drop" => tradesOn'
    /\ \E r \in FoundBy(evidence, dated) :
          /\ rows' = [rows EXCEPT !["found"] = r]
          /\ review' = (listed' = "no" /\ (r = NoRow \/ ~IsReal(r)))
    /\ evidence' = NoEvidence /\ dated' = NoEnding
    /\ UNCHANGED <<edge, known, closes, values, acquirers, pending, added, handed, redated, end>>

(* 7.  Each ending's close, on its last trade day. *)
LastTradeCloses(slots, rs) ==
    /\ rows' = [s \in Slots |-> IF s \in slots THEN CloseFlag(rs[s]) ELSE rs[s]]
    /\ closes' = [s \in Slots |-> IF s \in slots THEN rs[s].day ELSE closes[s]]

Closes ==
    /\ At("closes") /\ GoTo("values")
    /\ LastTradeCloses(Live(rows), rows)
    /\ UNCHANGED <<facts, edge, known, values, acquirers, pending, added, handed, redated, review, end>>

(* 8.  The merger's terms, read on its last trade day. *)
MergerValues ==
    /\ At("values") /\ GoTo("r1")
    /\ IF rows["found"].kind # "merger" THEN UNCHANGED <<rows, values, acquirers>>
       ELSE \E v \in ValuesOn(rows["found"].day, {"read", "caller"}) :
                /\ rows' = [rows EXCEPT !["found"] = Flagged(@, v)]
                /\ values' = [values EXCEPT !["found"] = v]
                /\ acquirers' = acquirers \cup AddedBy(v)
    /\ UNCHANGED <<facts, edge, known, closes, pending, added, handed, redated, review, end>>

(* 8b.  Ruling R1: terms of one share, or terms the gate refused where the registrant
   says one share.  The shares are a security of the run's, a new issuer's to be added,
   or a new issuer's the run does not hold: then the statement is the merger's terms
   if the issuer is known by a ticker, and an open continuation if not. *)
R1Applies(r, v) ==
    r.kind = "merger" /\ ReadTerms(v) /\ (v.terms = "share" \/ v.gate = "failed")
Overruled(v) == v.terms = "other"

R1Continue(to, mark) ==
    /\ rows' = [rows EXCEPT !["found"] = Continue(@, to, {"continuation"} \cup mark)]
    /\ values' = [values EXCEPT !["found"] = NoValue]

R1Continuations ==
    /\ At("r1") /\ GoTo("successors")
    /\ \/ UNCHANGED <<rows, values, pending>>
       \/ /\ R1Applies(rows["found"], values["found"])
          /\ \/ R1Continue(B, {}) /\ UNCHANGED pending
             \/ R1Continue(X, {}) /\ pending' = {X}
             \/ /\ Overruled(values["found"]) /\ UNCHANGED pending
                /\ \/ values' = [values EXCEPT !["found"] = Restate(@)] /\ UNCHANGED rows
                   \/ R1Continue(None, {"successor_unknown"})
    /\ UNCHANGED <<facts, edge, known, closes, acquirers, added, handed, redated, review, end>>

(* 9.  The successor of a row that awaits one: the line stage 4b followed it to, a
   security of the run, the line its own registration moved it to (itself, perhaps),
   the filer of an 8-K12B.  The line also decides an unknown row, and a merger whose
   payout did not reconcile. *)
LineTakes(r, v) ==
    Awaits(r) \/ r.kind = "unknown" \/ (r.kind = "merger" /\ ~Reconciled(v))

Link(r, to) ==
    Continue(r, to, IF r.kind \in {"unknown", "merger"} THEN {"continuation"} ELSE {})

Successors ==
    /\ At("successors") /\ GoTo("handoffs")
    /\ \/ /\ UNCHANGED <<rows, values>>
          /\ added' = acquirers \cup pending
       \/ \E to \in {A, B, X} :
             /\ rows["found"] # NoRow
             /\ Awaits(rows["found"]) \/ (to = X /\ LineTakes(rows["found"], values["found"]))
             /\ rows' = [rows EXCEPT !["found"] = Link(@, to)]
             /\ values' = [values EXCEPT !["found"] = NoValue]
             /\ added' = acquirers \cup pending \cup ({to} \ Observed)
    /\ UNCHANGED <<facts, edge, known, closes, acquirers, pending, handed, redated, review, end>>

(* 9b.  First the endings A traded on past go on as itself; then B's taking the
   ticker is decided and acted on. *)
MarkGoingOn(rs) ==
    [s \in Slots |-> IF s \in Live(rs) /\ rs[s].succ = None /\ ~Ends(rs[s]) THEN GoOn(rs[s]) ELSE rs[s]]

HandoffRow(last) == Row("transfer", B, {"continuation"}, HandoffDay(last), FALSE, TRUE)

BeforeTaker(r, elsewhere) == IF elsewhere THEN r ELSE BeforeSuccessor(r)

Stand(r, h, blind) ==
    BeforeTaker(IF h.decision = "takeover" THEN [r EXCEPT !.tick = B]
                ELSE IF r.succ \in {None, B} /\ r.kind = "merger" /\ h.decision = "cusip" /\ blind
                     THEN [r EXCEPT !.flags = @ \cup {"unchecked"}] ELSE r,
                h.elsewhere)

HandOver(r, last) ==
    AtHandoff(IF r.kind = "transfer" /\ r.succ = B THEN r ELSE Continue(r, B, {"continuation"}), last)

Handoffs ==
    /\ At("handoffs") /\ GoTo("again")
    /\ \E d \in Handoffs0, near, elsewhere, ratio, blind \in BOOLEAN, last \in Days :
         LET rs == MarkGoingOn(rows)
             r  == rs["found"]
             h  == IF d[1] = "nothing" THEN NoHandoff
                   ELSE [decision |-> d[1], near |-> near, elsewhere |-> elsewhere]
         IN /\ d[2] => elsewhere
            /\ blind => d[1] \notin {"filing", "cik"}
            /\ near => r # NoRow
            /\ handed' = h
            /\ \/ /\ d[1] = "nothing" \/ (d[1] = "takeover" /\ ~near)
                  /\ rows' = rs /\ UNCHANGED <<values, redated, review>>
               \/ /\ d[1] \in {"filing", "cik", "cusip"} /\ ~near
                  /\ rows' = [rs EXCEPT !["handoff"] = HandoffRow(last)]
                  /\ review' = FALSE /\ UNCHANGED <<values, redated>>
               \/ /\ near /\ d[1] # "nothing"
                  /\ d[1] = "takeover" \/ Conflict(r, values["found"], d[1], ratio)
                  /\ rows' = [rs EXCEPT !["found"] = Stand(r, h, blind)]
                  /\ redated' = IF rows'["found"].day # r.day THEN {"found"} ELSE {}
                  /\ UNCHANGED <<values, review>>
               \/ /\ near /\ d[1] \in {"filing", "cik", "cusip"}
                  /\ ~Conflict(r, values["found"], d[1], ratio)
                  /\ rows' = [rs EXCEPT !["found"] = HandOver(r, last)]
                  /\ values' = [values EXCEPT !["found"] = NoValue]
                  /\ review' = FALSE /\ UNCHANGED redated
    /\ UNCHANGED <<facts, edge, known, closes, acquirers, pending, added, end>>

(* A faulty second reading: the close alone. *)
FaultyReadAgain ==
    /\ At("again") /\ GoTo("notices")
    /\ LastTradeCloses(redated, rows)
    /\ UNCHANGED <<facts, edge, known, values, acquirers, pending, added, handed, redated, review, end>>

(* A row that stands on another day has its close and its value read again. *)
ReadAgain ==
    /\ At("again") /\ GoTo("notices")
    /\ LastTradeCloses(redated, rows)
    /\ IF redated # {} /\ Valued(values["found"])
       THEN \E v \in ValuesOn(rows["found"].day, {IF values["found"].by = "caller" THEN "caller" ELSE "read"}) :
                /\ values' = [values EXCEPT !["found"] = v]
                /\ acquirers' = acquirers \cup AddedBy(v)
       ELSE UNCHANGED <<values, acquirers>>
    /\ UNCHANGED <<facts, edge, known, pending, added, handed, redated, review, end>>

(* 9c.  A row the handoffs wrote is dated from its Form 25's notice, then closed. *)
Notices ==
    /\ At("notices") /\ GoTo("line")
    /\ IF rows["handoff"] = NoRow THEN UNCHANGED <<rows, closes>>
       ELSE \E r \in FromNotice(rows["handoff"]) : LastTradeCloses({"handoff"}, [rows EXCEPT !["handoff"] = r])
    /\ UNCHANGED <<facts, edge, known, values, acquirers, pending, added, handed, redated, review, end>>

(* 9d.  The Form 25 of a successor the run added, unless it is listed today or the
   Form 25 is its predecessor's; its close and its value. *)
LineEnding(k) ==
    [Row(k, None, IF k = "transfer" THEN {"successor_unknown"} ELSE {}, LastDay, TRUE, TRUE) EXCEPT !.sec = X]

SuccessorEndings ==
    /\ At("line") /\ GoTo("distress")
    /\ \/ UNCHANGED <<rows, closes, values, acquirers, added>>
       \/ /\ X \in added
          /\ \E k \in Kinds \ {"price"}, v \in ValuesOn(LastDay, {"read", "caller"}) :
                /\ LastTradeCloses({"line"}, [rows EXCEPT !["line"] = LineEnding(k)])
                /\ values' = IF k = "merger" THEN [values EXCEPT !["line"] = v] ELSE values
                /\ acquirers' = acquirers \cup AddedBy(values'["line"])
                /\ added' = added \cup AddedBy(values'["line"])
    /\ UNCHANGED <<facts, edge, known, pending, handed, redated, review, end>>

(* 9e.  A notice that says new shares makes an unknown ending a bankruptcy, one that
   says a price deficiency gives a drop its reason; never of a row with a successor. *)
DistressEndings ==
    /\ At("distress") /\ GoTo("history")
    /\ \E told \in SUBSET {s \in Live(rows) : rows[s].kind \in {"unknown", "dropped"} /\ rows[s].succ = None} :
          rows' = [s \in Slots |->
                      IF s \notin told THEN rows[s]
                      ELSE Reclassify(rows[s], IF rows[s].kind = "unknown" THEN "bankrupt" ELSE "price")]
    /\ UNCHANGED <<facts, edge, known, closes, values, acquirers, pending, added, handed, redated, review, end>>

(* 9h.  A history that closes with no ending gets one, and is read again over it. *)
Unexplained ==
    {Row("unknown", None, {"unexplained"}, t.day, t.source \in Prints, t.sure) :
        t \in {UnexplainedDay(e) : e \in Sighted}}

UnexplainedEndings ==
    /\ At("history") /\ GoTo("written")
    /\ edge' \in BOOLEAN /\ known' \in BOOLEAN /\ (known' \/ Live(rows) \subseteq {"line"})
    /\ LET open == Open(rows, edge')
           lost == EndOf(rows) = 0 /\ ~open /\ listed # "unknown" /\ known'
       IN /\ \/ lost /\ \E r \in Unexplained : rows' = [rows EXCEPT !["unexplained"] = r]
             \/ ~lost /\ UNCHANGED rows
          /\ review' = (review /\ ~lost /\ ~(EndOf(rows) = 0 /\ open))
    /\ end' = EndOf(rows')
    /\ UNCHANGED <<facts, closes, values, acquirers, pending, added, handed, redated>>

Next ==
    \/ DateEnding \/ FindEnding \/ Closes \/ MergerValues \/ R1Continuations \/ Successors \/ Handoffs \/ ReadAgain
    \/ Notices \/ SuccessorEndings \/ DistressEndings \/ UnexplainedEndings

Spec == Init /\ [][Next]_vars

-------------------------------------------------------------------------------
Rows == [sec : {A, X}, kind : Kinds, succ : {A, B, X, None}, tick : {B, None},
         flags : SUBSET (Doubts \cup {"close", "continuation", "unexplained"}),
         day : 0..LastDay, print : BOOLEAN, sure : BOOLEAN]
Values == [day : 0..LastDay, terms : {"share", "other", "none"}, gate : {"kept", "failed", "unchecked"},
           acq : {None, Q}, by : {"caller", "read", "statement"}]

Written == stage = "written"

(* Every ending that keeps its kind is published with the close and the merger value
   of the day it is published with, whatever stage dated it last. *)
ReadOnTheFinalDay ==
    Written => \A s \in Live(rows) :
        /\ rows[s].kind = "transfer" \/ s = "unexplained" \/ closes[s] = rows[s].day
        /\ Valued(values[s]) => values[s].day = rows[s].day

(* Once B took A's ticker, its volume and its halts under it never overrule an earlier
   day A's filings state, and A's row never ends on or after B's first day under it,
   unless an exchange print says so or A traded on under another ticker. *)
TakerStartsAfter ==
    /\ stage = "finding" /\ dated.source \in {"midas", "halt"} /\ evidence.how # "drop" =>
           \A d \in TextsOf(evidence) : d < dated.day => evidence.tenure = 0 \/ dated.day < evidence.tenure
    /\ Written /\ handed.decision # "nothing" =>
        \A s \in {"handoff"} \cup (IF handed.near THEN {"found"} ELSE {}) :
            rows[s] # NoRow /\ ~rows[s].print /\ ~(handed.elsewhere /\ handed.near) => rows[s].day < TakenOn

(* A successor once found stands: no later stage renames it. *)
SuccessorStands ==
    [][\A s \in Live(rows) : rows[s].succ # None => rows'[s].succ = rows[s].succ]_vars
===============================================================================
