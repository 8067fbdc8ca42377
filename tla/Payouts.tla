------------------------------ MODULE Payouts ------------------------------
(* What one share of an ending became (stages 7, 8, 8b, 9e, 10a, 10f, 10g of pipeline.py):
   the ending is called what Classification calls it, its close is read, a merger's
   consideration goes through PayoutGate, the registrant's own statement may overrule it,
   the distress of a drop is read, and the run writes the ending's value, the contract's
   rule for it and the prices it asks the caller's store for.  The caller answers, and the
   run is made again with the answers.

   One ending of one security; it was last traded on a day every run knows.  What a run
   reads from outside (`reads`) does not change between runs: the run's own close and its
   age in trading days, the text read of the cash (foreign: in another currency than
   dollars), the language model's answer, the price of the answer's ticker, the acquirer's
   line, the closing dividends, the caller's own row of terms, whose shares the registrant's
   statement gives (target), and what the drop's notices say. *)
EXTENDS Classification, PayoutGate

CONSTANTS Worlds,       \* of the filings on record when runs are made: what they may read
          Quotes        \* the prices the caller may answer

(* What a run may read; an amount is 0 where nothing was read. *)
World ==
    [close : Nat, age : Nat, regex : Nat, foreign : BOOLEAN, answer : Package, price : Nat,
     line : Line, closing : Nat, earlier : Nat, unstated : BOOLEAN, caller : Terms,
     target : {"none", "held", "listed", "unlisted"}, special : BOOLEAN, recovery : Nat,
     plan : Nat, notice : SUBSET {"substitutes", "bankrupt", "price_only"},
     otc : {"none", "fails", "notice"}]

ASSUME PayoutsAssumption ==
    /\ Quotes \subseteq Nat \ {0}
    /\ \A S \in DOMAIN Worlds : Worlds[S] \subseteq World

VARIABLES reads,        \* the world of this behaviour's runs, or Unread
          answers,      \* the caller's answers: request |-> price
          table         \* what the last run wrote

valued == <<reads, answers, table>>
allVars == <<issuer, filings, matched, reads, answers, table>>

Unread  == [close |-> -1]
NotRun  == [state |-> "none"]
Stopped == [state |-> "stopped"]

LastClose     == [kind |-> "last_close", ticker |-> ""]
Received(t)   == [kind |-> "received_close", ticker |-> t]
OtcPrint      == [kind |-> "otc_print", ticker |-> "OTC"]
Answered(k)   == IF k \in DOMAIN answers THEN answers[k] ELSE 0

-------------------------------------------------------------------------------
(* Stage 8: the merger's value, by the run's own reads first. *)

Given(w) == w.caller # NoTerms

(* A read in another currency is kept out of the gate, and told; a faulty one is not. *)
FaultyTellForeign(w, g) == g
TellForeign(w, g) ==
    IF w.foreign /\ w.regex > 0 /\ ~(g.cash > 0 \/ g.terms # NoTerms \/ Given(w))
    THEN [g EXCEPT !.flags = @ \cup {Flag("terms_gate_skipped", "foreign")}]
    ELSE g

(* The gate on a close, with the price an answer gives the path it belongs to. *)
Gate(w, close, path, price, dividend) ==
    TellForeign(w, GatePayouts(IF w.foreign THEN 0 ELSE w.regex, close, w.answer, w.caller,
                               IF path = "ticker" THEN price ELSE w.price,
                               IF path = "line" THEN [w.line EXCEPT !.price = price] ELSE w.line,
                               dividend))

KeptValue(g) ==
    IF g.terms = NoTerms THEN g.cash
    ELSE (IF g.terms.cash > 0 THEN g.terms.cash ELSE g.cash) + g.terms.ratio * g.terms.price

(* A value well under its close asks the earlier 8-Ks for a dividend. *)
Short(w, g, close) ==
    /\ ~Given(w) /\ KeptValue(g) > 0 /\ close > 0
    /\ 100 * KeptValue(g) < 99 * close

(* Whether the earlier filings are asked: once, of a merger with no dividend read. *)
AsksEarlier(w, pass, close) == pass.dividend = 0 /\ ~pass.asked /\ Short(w, pass.gate, close)

Again(w, close, path, price, pass) ==
    IF ~AsksEarlier(w, pass, close) THEN pass
    ELSE IF w.earlier = 0 THEN [pass EXCEPT !.asked = TRUE]
    ELSE [gate |-> Gate(w, close, path, price, w.earlier), dividend |-> w.earlier, asked |-> TRUE]

(* The gate, and again with an earlier dividend it asked for. *)
GateTwice(w, close, path, price, known, asked) ==
    Again(w, close, path, price,
          [gate |-> Gate(w, close, path, price, known), dividend |-> known, asked |-> asked])

FirstPass(w) == GateTwice(w, w.close, "", 0, w.closing, FALSE)

StockTicker(w) == IF w.answer.ratio > 0 THEN w.answer.ticker ELSE ""

(* The ticker the leg's price is asked under: the terms' own when it settled them, else
   the symbol of the acquirer's line. *)
PriceTicker(w, first) ==
    IF w.line.symbol = "" \/ (first.priced_by = "ticker" /\ ~w.line.first)
    THEN w.answer.ticker ELSE w.line.symbol

Request(w, first) ==
    IF Given(w) \/ ~StockLeg(w.answer) THEN "" ELSE PriceTicker(w, first)

AnsweredPath(w, first, asked) ==
    IF asked = "" \/ Answered(Received(asked)) = 0 THEN ""
    ELSE IF first.priced_by # "" THEN first.priced_by
    ELSE IF w.line.symbol = asked /\ asked # StockTicker(w) THEN "line"
    ELSE "ticker"

CloseOf(w) == IF Answered(LastClose) > 0 THEN Answered(LastClose) ELSE w.close

NoRecord == [cash |-> 0, source |-> "none", terms |-> NoTerms, flags |-> {}, dividend |-> 0,
             request |-> "", own |-> [cash |-> 0, terms |-> NoTerms], statement |-> FALSE,
             raw |-> 0, llm |-> NoAnswer]

(* What is said of a value that misses a part. *)
Incomplete(w, last) ==
    (IF w.answer.right /\ ~Given(w) THEN {Flag("contingent_right_unvalued", "")} ELSE {}) \cup
    (IF w.unstated /\ last.dividend = 0 /\ Short(w, last.gate, CloseOf(w))
     THEN {Flag("closing_dividend_unstated", "")} ELSE {})

(* The pass with the answers; none when no answer moves a price. *)
LastPass(w, one, path, price) ==
    IF path = "" /\ CloseOf(w) = w.close THEN one
    ELSE GateTwice(w, CloseOf(w), path, price, one.dividend, one.asked)

(* The values are the last pass's; the run's own verdict stays the first one's. *)
Record(w, first, last, asked) ==
    [cash |-> last.gate.cash, source |-> last.gate.source, terms |-> last.gate.terms,
     flags |-> last.gate.flags \cup Incomplete(w, last), dividend |-> last.gate.dividend,
     request |-> asked, own |-> [cash |-> first.cash, terms |-> first.terms],
     statement |-> FALSE, raw |-> w.regex, llm |-> w.answer]

(* A faulty one: the decisions read the pass with the answers. *)
FaultyValueBy(w, one, asked) ==
    Record(w, LastPass(w, one, AnsweredPath(w, one.gate, asked), Answered(Received(asked))).gate,
           LastPass(w, one, AnsweredPath(w, one.gate, asked), Answered(Received(asked))), asked)
ValueBy(w, one, asked) ==
    Record(w, one.gate,
           LastPass(w, one, AnsweredPath(w, one.gate, asked), Answered(Received(asked))), asked)
ValueAfter(w, one) == ValueBy(w, one, Request(w, one.gate))
ValueMerger(w)     == ValueAfter(w, FirstPass(w))

(* What one share became as the run's decisions read it; known: anything was read. *)
ReadTerms(w, v) ==
    LET t == v.own.terms
    IN  IF Given(w) THEN [known |-> FALSE, cash |-> 0, ratio |-> 0]
        ELSE IF t # NoTerms \/ v.own.cash > 0
        THEN [known |-> TRUE, cash |-> IF t.cash > 0 THEN t.cash ELSE v.own.cash, ratio |-> t.ratio]
        ELSE IF v.llm.cash > 0 \/ v.llm.ratio > 0
        THEN [known |-> TRUE, cash |-> v.llm.cash, ratio |-> v.llm.ratio]
        ELSE [known |-> v.raw > 0, cash |-> v.raw, ratio |-> 0]

GateFailed(v) ==
    \E f \in v.flags : /\ f.name \in {"payout_gate_failed", "llm_gate_failed", "terms_gate_failed"}
                       /\ f.why \notin {"no_last_close", "no_acq_price", "no_ratio"}

OneShareNoCash(ratio, cash) == ratio = 1 /\ cash = 0

Reconciled(w, v) ==
    LET t == IF Given(w) THEN w.caller ELSE v.own.terms
    IN  /\ v.own.cash > 0 \/ t # NoTerms
        /\ ~(OneShareNoCash(t.ratio, t.cash) /\ v.own.cash = 0)

-------------------------------------------------------------------------------
(* Stage 8b: the registrant says each of its shares became one share.  Terms the gate
   refused do not count against it; a new issuer no security of the run is gives the
   merger its terms, every other makes the ending a continuation. *)

Ending(code, successor, v) == [code |-> code, successor |-> successor, v |-> v]

BucketOf(code) ==
    CASE code = 0          -> "unknown"
      [] code \in 200..299 -> "merger"
      [] code \in 300..399 -> "exchange_transfer"
      [] code \in 400..499 -> "liquidation"
      [] code \in 500..599 -> "compliance_failure"
      [] code \in 600..699 -> "expiration"

NewTicker == "NEW"

(* The statement's share stands in for the terms; nothing checks it. *)
Restate(v) ==
    LET price == Answered(Received(NewTicker))
        terms == IF price = 0 THEN NoTerms
                 ELSE [ratio |-> 1, price |-> price, ticker |-> NewTicker, cash |-> 0]
        kept  == {f \in v.flags : f.name \notin {"payout_gate_failed", "llm_gate_failed",
                                                  "terms_gate_failed", "terms_gate_skipped"}}
    IN  [v EXCEPT !.cash = 0, !.source = "registrant_statement", !.terms = terms,
                  !.flags = kept \cup {Flag("terms_gate_skipped", "own_statement")},
                  !.dividend = 0, !.request = NewTicker,
                  !.own = [cash |-> 0, terms |-> terms], !.statement = TRUE]

(* A special dividend of the statement's own text is no consideration. *)
Consideration(w, cash) == IF w.special THEN 0 ELSE cash

R1(w, code, v) ==
    LET read      == ReadTerms(w, v)
        overruled == read.ratio # 1
        says      == /\ read.known /\ (overruled => GateFailed(v)) /\ OneForOne
                     /\ overruled \/ OneShareNoCash(read.ratio, Consideration(w, read.cash))
    IN  IF BucketOf(code) # "merger" \/ ~says THEN Ending(code, FALSE, v)
        ELSE IF w.target = "held" THEN Ending(304, TRUE, NoRecord)
        ELSE IF overruled /\ w.target = "listed" THEN Ending(code, FALSE, Restate(v))
        ELSE IF overruled /\ w.target = "unlisted" THEN Ending(304, FALSE, NoRecord)
        ELSE Ending(code, FALSE, v)

-------------------------------------------------------------------------------
(* Stage 9e: what a drop or a bankruptcy needs beyond its classification. *)

WindDown(code) == BucketOf(code) = "liquidation" /\ code # 470

Notices(w) == IF matched = NoFiling THEN w.notice \cap {"price_only"} ELSE w.notice

(* The notice says the class came to evidence new shares: a bankruptcy plan, unless the
   old shares went on trading off the exchange. *)
PlanExchange(w, code) ==
    /\ w.otc # "fails" /\ "substitutes" \in Notices(w)
    /\ BucketOf(code) \in {"liquidation", "unknown"}
    /\ code = 470 \/ "bankrupt" \in Notices(w)

Distress(w, e) ==
    LET planned == PlanExchange(w, e.code)
        code == IF planned /\ e.code = 0 THEN 470
                ELSE IF e.code \in {570, 580} /\ "price_only" \in Notices(w) THEN 552
                ELSE e.code
        plan == IF planned /\ BucketOf(code) = "liquidation" THEN w.plan ELSE 0
        otc  == IF plan = 0 /\ BucketOf(code) # "unknown" /\ w.otc # "none" THEN "OTC" ELSE ""
    IN  IF BucketOf(e.code) \in {"liquidation", "compliance_failure", "unknown"} /\ ~e.successor
        THEN [code |-> code, plan |-> plan, otc |-> otc]
        ELSE [code |-> e.code, plan |-> 0, otc |-> ""]

-------------------------------------------------------------------------------
(* Stage 10a: the ending's value.  Terminal is what one share became, 0 for nothing
   measured. *)

TableTerms(w, v) ==
    LET t == IF v.terms # NoTerms THEN v.terms ELSE w.caller
    IN  [cash |-> (IF t.cash > 0 THEN t.cash ELSE v.cash) + v.dividend,
         ratio |-> t.ratio, price |-> t.price, ticker |-> t.ticker]

TermsRead(w, v) == Given(w) \/ v.statement \/ v.raw > 0 \/ Published(v.llm) # NoAnswer

(* One order for the value and for the contract's rule: a recovery, a plan, a print. *)
DistressRule(bucket, recovery, plan) ==
    IF bucket = "liquidation" /\ recovery THEN "recovery"
    ELSE IF bucket = "liquidation" /\ plan THEN "plan"
    ELSE "print"

Valuation(method, terminal) == [method |-> method, terminal |-> terminal]

MergerOf(t, close) ==
    LET stock == t.ratio * t.price
    IN  IF t.cash = 0 /\ t.ratio = 0
        THEN Valuation(IF close > 0 THEN "assumed_par" ELSE "abstain_no_consideration", close)
        ELSE IF close = 0 THEN Valuation("needs_last_trade", 0)
        ELSE Valuation(IF t.ratio = 0 THEN "cash_only"
                       ELSE IF t.cash = 0 THEN "stock_only" ELSE "cash_plus_stock",
                       t.cash + stock)

(* An answered print values a drop before its plan does. *)
EndingValues(d) ==
    LET print == Answered(OtcPrint)
    IN  [print |-> print,
         plan  |-> IF print > 0 \/ d.plan = 0 THEN 0 ELSE d.plan * Answered(Received("OWN"))]

DistressOf(w, d, close) ==
    LET of   == EndingValues(d)
        rule == DistressRule(BucketOf(d.code), w.recovery > 0, of.plan > 0)
    IN  IF close = 0 THEN Valuation("unknown", 0)
        ELSE IF rule = "recovery" THEN Valuation("recovery_ratio", (w.recovery * close) \div 100)
        ELSE IF rule = "plan" THEN Valuation("plan_stock", of.plan)
        ELSE IF of.print > 0 THEN Valuation("otc_print", of.print)
        ELSE IF WindDown(d.code) THEN Valuation("pending_recovery", 0)
        ELSE Valuation("shumway", 0)

(* An unknown ending found deregistered with nothing against it is at par as well. *)
Deregistered ==
    Classify.by = "no_evidence" /\ (matched # NoFiling \/ PickForm25 # NoFiling \/ Dereg # {})

Decide(w, e, d, close) ==
    LET t == TableTerms(w, e.v)
    IN  CASE BucketOf(d.code) = "expiration" ->
               IF close > 0 THEN Valuation("assumed_par", close) ELSE Valuation("dropped_expiration", 0)
          [] BucketOf(d.code) = "exchange_transfer" -> Valuation("exchange_transfer_zero", 0)
          [] BucketOf(d.code) = "merger" ->
               IF t.cash = 0 /\ t.ratio = 0 /\ ~TermsRead(w, e.v) THEN Valuation("pending_terms", 0)
               ELSE MergerOf(t, close)
          [] BucketOf(d.code) \in {"liquidation", "compliance_failure"} -> DistressOf(w, d, close)
          [] OTHER ->
               IF close > 0 /\ Deregistered THEN Valuation("assumed_par", close)
               ELSE Valuation("unknown", 0)

Measured == {"cash_only", "stock_only", "cash_plus_stock", "recovery_ratio", "otc_print", "plan_stock"}

-------------------------------------------------------------------------------
(* Stage 10f: the doubts of the row's own value. *)

Compared(f) == f.name = "payout_gate_failed" \/ f.why \in {"", "fail_sanity"}

(* Three trading days on, a close no longer tests the terms, within a tolerance that
   widens with its age; a row whose flag names no value is held by its terminal one. *)
NearStaleClose(f, terminal, close, age) ==
    LET value == IF f.name = "payout_gate_failed" THEN f.value ELSE terminal
    IN  /\ age > 3 /\ f.name # "terms_gate_skipped" /\ Compared(f)
        /\ close > 0 /\ 100 * Miss(value, close) <= (15 + 5 * age) * close

GateFlags(flags) == {f \in flags : f.name \in {"payout_gate_failed", "llm_gate_failed",
                                               "terms_gate_failed", "terms_gate_skipped"}}

(* Every gate that failed did so for want of a price. *)
UnpricedGate(flags, terms, terminal, close, age) ==
    \A f \in GateFlags(flags) :
        \/ f.why = "no_acq_price" /\ terms.ticker # ""
        \/ NearStaleClose(f, terminal, close, age)

(* An answered close is of the day itself. *)
CloseAge(w) == IF Answered(LastClose) > 0 THEN 0 ELSE w.age

OwnReasons(w, e, d, value, close) ==
    LET flags == e.v.flags
        If(holds, reason) == IF holds THEN {reason} ELSE {}
    IN  If(d.code = 0, "unknown_exit_kind")
        \cup If(BucketOf(d.code) = "exchange_transfer" /\ ~e.successor, "exchange_without_successor")
        \cup If(/\ value.method = "assumed_par" /\ GateFlags(flags) # {}
                /\ ~UnpricedGate(flags, TableTerms(w, e.v), value.terminal, close, CloseAge(w)),
                "assumed_par_after_failed_gate")
        \cup If(value.method = "pending_recovery", "value_pending:distributions")
        \cup If(value.method = "pending_terms", "value_pending:terms")
        \cup If(Flag("contingent_right_unvalued", "") \in flags /\ ~e.successor,
                "value_incomplete:contingent_right")
        \cup If(Flag("closing_dividend_unstated", "") \in flags /\ ~e.successor,
                "value_incomplete:closing_dividend")

-------------------------------------------------------------------------------
(* Stage 10g: the contract's rule of the ending, its terms as read, and the requests. *)

Rule(name, terms, gate) ==
    [name |-> name, cash |-> terms.cash, ratio |-> terms.ratio, gate |-> gate]

(* Of terms the gate did not keep. *)
Ungated(v, close) ==
    IF \E f \in v.flags : f.name = "terms_gate_skipped" THEN "skipped"
    ELSE IF close > 0 THEN "failed" ELSE ""

MergerRule(w, v, close) ==
    LET row  == TableTerms(w, v)
        kept == row.cash > 0 \/ row.ratio > 0
        said == IF Given(w) \/ v.statement \/ kept THEN NoAnswer ELSE Published(v.llm)
        terms == IF Given(w) THEN w.caller
                 ELSE IF v.statement THEN [NoTerms EXCEPT !.ratio = 1]
                 ELSE IF kept THEN row
                 ELSE IF said # NoAnswer THEN [NoTerms EXCEPT !.cash = said.cash, !.ratio = said.ratio]
                 ELSE [NoTerms EXCEPT !.cash = v.raw]
        gate == IF Given(w) THEN "" ELSE IF v.statement THEN "skipped"
                ELSE IF kept THEN IF close > 0 THEN "passed" ELSE ""
                ELSE Ungated(v, close)
        leg  == terms.ratio > 0 \/ said.value > 0
        name == IF said.extra /\ StockLeg(said) THEN "basket"
                ELSE IF leg THEN IF terms.cash > 0 THEN "cash_plus_stock" ELSE "stock"
                ELSE "cash"
    IN  IF terms = NoTerms /\ said = NoAnswer THEN Rule("unknown", NoTerms, "")
        ELSE Rule(name, terms, gate)

(* Of an ending that is neither a continuation nor a merger. *)
PlainRule(w, d) ==
    LET by == DistressRule(BucketOf(d.code), w.recovery > 0, d.plan > 0)
    IN  CASE BucketOf(d.code) = "exchange_transfer" -> "transfer"
          [] BucketOf(d.code) = "expiration" -> "expiration"
          [] BucketOf(d.code) = "unknown" -> "unknown"
          [] by = "recovery" \/ (by = "print" /\ WindDown(d.code) /\ d.otc = "") -> "recovery"
          [] by = "plan" -> "stock"
          [] OTHER -> "otc_print"

RuleOf(w, e, d, close) ==
    LET name == PlainRule(w, d)
    IN  IF e.successor THEN Rule("continuation", NoTerms, "")
        ELSE IF BucketOf(d.code) = "merger" THEN MergerRule(w, e.v, close)
        ELSE IF name = "stock" THEN Rule(name, [NoTerms EXCEPT !.ratio = d.plan], "")
        ELSE Rule(name, NoTerms, "")

(* One last close of every ending that is no continuation; a drop's print only under its
   own symbol, and none beside a plan's shares (a faulty one asks it always); the shares'
   close; a basket's other leg. *)
FaultyPrintAsked(d, rule) == BucketOf(d.code) \in {"liquidation", "compliance_failure"}
PrintAsked(d, rule) ==
    BucketOf(d.code) \in {"liquidation", "compliance_failure"} /\ rule.name = "otc_print" /\ d.otc # ""

RequestRows(e, d, rule) ==
    LET leg == IF e.v.request # "" THEN e.v.request ELSE IF d.plan > 0 THEN "OWN" ELSE ""
    IN  IF e.successor THEN {}
        ELSE {LastClose} \cup (IF PrintAsked(d, rule) THEN {OtcPrint} ELSE {})
             \cup (IF leg # "" THEN {Received(leg)} ELSE {})
             \cup (IF rule.name = "basket" THEN {Received("LEG2")} ELSE {})

(* What a run writes, stage after stage. *)
Row(w, read, e, d, close, value, rule) ==
    [state |-> "written", code |-> d.code, successor |-> e.successor, value |-> value,
     rule |-> rule, close |-> close, age |-> CloseAge(w), terms |-> TableTerms(w, e.v),
     statement |-> e.v.statement, read |-> read, reconciled |-> Reconciled(w, e.v),
     requests |-> RequestRows(e, d, rule), doubts |-> OwnReasons(w, e, d, value, close)]

DistressStage(w, read, e, d) ==
    Row(w, read, e, d, CloseOf(w), Decide(w, e, d, CloseOf(w)), RuleOf(w, e, d, CloseOf(w)))
StatementStage(w, read, e) == DistressStage(w, read, e, Distress(w, e))
MergerStage(w, code, v)    == StatementStage(w, ReadTerms(w, v), R1(w, code, v))
Written(w, code) == MergerStage(w, code, IF BucketOf(code) = "merger" THEN ValueMerger(w) ELSE NoRecord)

(* An answer that no request of the run asks stops it. *)
Publish(row) == IF DOMAIN answers \subseteq row.requests THEN row ELSE Stopped

Run(w) ==
    /\ reads \in {Unread, w}
    /\ issuer = [equity |-> TRUE, spac |-> FALSE, renamed |-> FALSE, trading |-> FALSE]
    /\ reads' = w
    /\ table' = Publish(Written(w, Classify.code))
    /\ UNCHANGED <<issuer, filings, matched, answers>>

(* The caller answers a request, once. *)
GivePrice(k, price) ==
    /\ table.state = "written" /\ k \in table.requests \ DOMAIN answers
    /\ answers' = [a \in DOMAIN answers \cup {k} |-> IF a = k THEN price ELSE answers[a]]
    /\ UNCHANGED <<issuer, filings, matched, reads, table>>

PayoutsInit == Init /\ reads = Unread /\ answers = << >> /\ table = NotRun

Filing == reads = Unread /\ Next /\ UNCHANGED valued

PayoutsNext ==
    \/ Filing
    \/ filings \in DOMAIN Worlds /\ \E w \in Worlds[filings] : Run(w)
    \/ table.state = "written" /\ \E k \in table.requests, price \in Quotes : GivePrice(k, price)

PayoutsSpec == PayoutsInit /\ [][PayoutsNext]_allVars

-------------------------------------------------------------------------------
IsWritten == table.state = "written"
IsMerger  == IsWritten /\ BucketOf(table.code) = "merger"

(* A value measured from the library's own reads of a merger is near the close it is set
   against: cash, shares and dividend together, whichever read gave each of them, and
   whichever answer moved them. *)
ValueMeetsItsClose ==
    IsMerger /\ table.value.method \in Measured /\ ~Given(reads) /\ ~table.statement
        => Fits(table.value.terminal, table.close)

(* A merger written at par although something states its terms is doubted, unless its
   close was too old to refuse them. *)
ParIsDoubted ==
    IsMerger /\ table.value.method = "assumed_par" /\ ~Given(reads)
             /\ table.age <= 3
        => "assumed_par_after_failed_gate" \in table.doubts

(* The contract names the rule its measured value follows, with the amounts that give it
   again, and never as terms the gate refused.  A caller's row of shares alone is left
   out: the table adds a cash read beside it, the contract does not. *)
MethodRule == [cash_only |-> "cash", stock_only |-> "stock", cash_plus_stock |-> "cash_plus_stock",
               recovery_ratio |-> "recovery", otc_print |-> "otc_print", plan_stock |-> "stock"]

ValueFollowsItsRule ==
    IsWritten /\ table.value.method \in Measured /\ (Given(reads) => reads.caller.cash > 0)
        => /\ table.rule.name = MethodRule[table.value.method] /\ table.rule.gate # "failed"
           /\ IsMerger => table.value.terminal = table.rule.cash + table.rule.ratio * table.terms.price

(* Answers change values only: the run made again with them is not stopped, asks the same
   prices and calls the ending the same, on the same reading of its terms.  Where the
   registrant's own statement may overrule terms the gate refused, the code reads the gate
   after the answers, so those are left out; and so is a basket that is no package, whose
   cash read alone may stand or fall with the answered close, and its other legs' requests
   with it. *)
LooseBasket(a) == a.extra /\ StockLeg(a) /\ ~a.package
Overrulable(row) == OneForOne /\ row.read.known /\ row.read.ratio # 1

AnswersChangeValuesOnly ==
    [][(/\ table.state = "written" /\ table' # table
        /\ ~Overrulable(table) /\ ~LooseBasket(reads.answer))
       => /\ table'.state = "written" /\ table'.requests = table.requests
          /\ table'.code = table.code /\ table'.successor = table.successor
          /\ table'.read = table.read /\ table'.reconciled = table.reconciled]_allVars
=============================================================================
