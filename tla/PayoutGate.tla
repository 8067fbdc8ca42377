----------------------------- MODULE PayoutGate -----------------------------
(* Whether a merger's consideration is believed (terms/payout_gate.py): every read of
   what one share became is held against the share's own last close, and what does not
   come near it is refused.  Amounts are whole units and 0 is none; an amount the code
   holds as 0.0 beside None is not told apart.

   An answer of the language model is the package one share became: its cash and the
   currency, its number of shares of the acquirer (ratio), or their value in money
   (value), whether a further security came with it (extra), the acquirer's ticker, and
   whether the filing states the package, or only an election's alternatives. *)
EXTENDS Integers, Sequences

CONSTANT Tolerance      \* how far from the close a value may be, in percent of it

ASSUME ToleranceAssumption == Tolerance \in 1..99

NoAnswer == [deal |-> "none", cash |-> 0, ratio |-> 0, value |-> 0, extra |-> FALSE,
             currency |-> "", ticker |-> "", package |-> FALSE, no_default |-> FALSE,
             right |-> FALSE]
NoTerms  == [ratio |-> 0, price |-> 0, ticker |-> "", cash |-> 0]

Package == [deal : STRING, cash : Nat, ratio : Nat, value : Nat, extra : BOOLEAN,
            currency : STRING, ticker : STRING, package : BOOLEAN, no_default : BOOLEAN,
            right : BOOLEAN]
Terms   == [ratio : Nat, price : Nat, ticker : STRING, cash : Nat]
Line    == [symbol : STRING, price : Nat, first : BOOLEAN]

Flag(name, why) == [name |-> name, why |-> why, value |-> 0]
Refused(value)  == [name |-> "payout_gate_failed", why |-> "", value |-> value]

HasStock(a) == a.ratio > 0 \/ a.value > 0 \/ a.extra
StockLeg(a) == a.ratio > 0 \/ a.value > 0
Election(a) == a.deal = "election" /\ ~a.package     \* its legs are alternatives

(* Why nothing can hold the answer against a close in dollars. *)
SkipReason(a) ==
    IF a.cash > 0 /\ a.currency \notin {"", "USD"} THEN a.currency
    ELSE IF a.extra THEN "basket"
    ELSE IF a.value > 0 /\ a.ratio = 0 THEN "stock_value"
    ELSE ""

(* What the contract publishes of an answer the gate did not keep: of an election that
   states no package only the alternative in cash. *)
Published(a) ==
    LET legs == IF ~Election(a) \/ a.no_default THEN a
                ELSE IF a.cash > 0 THEN [a EXCEPT !.ratio = 0, !.value = 0, !.extra = FALSE]
                ELSE NoAnswer
    IN  IF legs.cash > 0 \/ HasStock(legs) THEN legs ELSE NoAnswer

-------------------------------------------------------------------------------
(* The comparison.  A dividend paid at the closing counts when the total is nearer. *)

Miss(v, close)    == IF v > close THEN v - close ELSE close - v
Fits(v, close)    == v > 0 /\ 100 * Miss(v, close) <= Tolerance * close
Counted(v, d, close) ==
    IF v > 0 /\ d > 0 /\ Miss(v + d, close) < Miss(v, close) THEN d ELSE 0
Total(v, d, close)   == v + Counted(v, d, close)
Checked(v, d, close) == Fits(Total(v, d, close), close)
SameCash(v, cash)    == v > 0 /\ cash > 0 /\ 100 * Miss(v, cash) <= cash

Kept(cash, ratio, price, source, flags, dividend) ==
    [cash |-> cash, ratio |-> ratio, price |-> price, source |-> source, flags |-> flags,
     dividend |-> dividend]

(* An election without a package: the leg nearer the close, a tie to the shares, and
   both together when neither is near (a package read as alternatives). *)
SettleElection(regex, close, a, price, d, flags) ==
    LET stock  == a.ratio * price
        stands == IF SameCash(regex, a.cash) THEN {} ELSE flags
    IN  IF Checked(stock, d, close)
           /\ (~Checked(a.cash, d, close)
               \/ Miss(Total(stock, d, close), close) <= Miss(Total(a.cash, d, close), close))
        THEN Kept(0, a.ratio, price, "llm_election_stock", stands, Counted(stock, d, close))
        ELSE IF Checked(a.cash, d, close)
        THEN Kept(a.cash, 0, 0, "llm_election_cash", stands, Counted(a.cash, d, close))
        ELSE IF stock > 0 /\ a.cash > 0 /\ Checked(a.cash + stock, d, close)
        THEN Kept(a.cash, a.ratio, price, "llm_election_package", stands,
                  Counted(a.cash + stock, d, close))
        ELSE Kept(0, 0, 0, "none", flags \cup {Flag("llm_gate_failed", "")}, 0)

SettleCash(a, d, close, flags) ==
    IF Checked(a.cash, d, close)
    THEN Kept(a.cash, 0, 0, IF a.deal = "election" THEN "llm_election_cash" ELSE "llm", flags,
              Counted(a.cash, d, close))
    ELSE Kept(0, 0, 0, "none", flags \cup {Flag("llm_gate_failed", "")}, 0)

(* One merger's cash against its close; stock that no election holds waits for PassTwo. *)
Reconcile(regex, close, a, price, d) ==
    LET flags == IF regex > 0 THEN {Refused(regex)} ELSE {}
        skip  == SkipReason(a)
    IN  IF close = 0
        THEN Kept(regex, 0, 0, IF regex > 0 THEN "regex" ELSE "none",
                  {Flag("no_last_close", "")}, 0)
        ELSE IF Checked(regex, d, close)
        THEN Kept(regex, 0, 0, "regex", {}, Counted(regex, d, close))
        ELSE IF skip # "" /\ (Election(a) \/ ~HasStock(a))
        THEN Kept(0, 0, 0, "none", flags \cup {Flag("terms_gate_skipped", skip)}, 0)
        ELSE IF Election(a) THEN SettleElection(regex, close, a, price, d, flags)
        ELSE IF a # NoAnswer /\ ~HasStock(a) THEN SettleCash(a, d, close, flags)
        ELSE Kept(0, 0, 0, "none", flags, 0)

-------------------------------------------------------------------------------
(* The two passes. *)

(* The acquirer's prices in the order they are tried: the terms' ticker's, then the
   acquirer's own line's when it differs; the line's first where the ticker's rows are
   another line's of the issuer. *)
Prices(ticker, price, line) ==
    LET own  == IF ticker # "" /\ price > 0
                THEN <<[how |-> "ticker", ticker |-> ticker, price |-> price]>> ELSE <<>>
        its  == [how |-> "line", ticker |-> line.symbol, price |-> line.price]
        other == own = <<>> \/ own[1].price # line.price
    IN  IF line.price = 0 THEN own
        ELSE IF line.first THEN <<its>> \o (IF other THEN own ELSE <<>>)
        ELSE IF other THEN Append(own, its) ELSE own

FirstOf(tried, Test(_)) ==
    CHOOSE i \in 1..Len(tried) : Test(tried[i]) /\ \A j \in 1..i - 1 : ~Test(tried[j])

Attempt(regex, close, a, p, d) ==
    [how |-> p.how, ticker |-> p.ticker, kept |-> Reconcile(regex, close, a, p.price, d)]

ByAnswer(attempt) == attempt.kept.source \notin {"none", "regex"}

(* The first price the answer reconciles at, else the first. *)
Chosen(attempts) ==
    IF \E i \in 1..Len(attempts) : ByAnswer(attempts[i]) THEN attempts[FirstOf(attempts, ByAnswer)]
    ELSE attempts[1]

(* The gate's answer: the cash it kept and where from, the terms it kept, which price
   settled them, the dividend that counts, and its flags. *)
Settled(a, p, r) ==
    [cash |-> r.cash, source |-> r.source, dividend |-> r.dividend,
     terms |-> IF r.ratio = 0 THEN NoTerms
               ELSE [ratio |-> r.ratio, price |-> r.price, ticker |-> p.ticker, cash |-> r.cash],
     priced_by |-> IF r.ratio = 0 THEN "" ELSE p.how,
     flags |-> r.flags \cup (IF a.no_default THEN {Flag("election_no_default", "")} ELSE {})]

SettledBy(a, attempt) == Settled(a, attempt, attempt.kept)

(* An election without a package tries each price in turn. *)
PassOne(regex, close, a, price, tried, d) ==
    LET prices == IF Election(a) /\ tried # <<>> THEN tried
                  ELSE <<[how |-> "ticker", ticker |-> a.ticker, price |-> price]>>
    IN  SettledBy(a, Chosen([i \in DOMAIN prices |-> Attempt(regex, close, a, prices[i], d)]))

DropPayout(g) == [g EXCEPT !.cash = 0, !.source = "none", !.dividend = 0]

(* Shares alone reconcile: a cash read beside them is wrong, and would be added again. *)
FaultyBesideTerms(g, a) == g
BesideTerms(g, a) == IF a.cash = 0 THEN DropPayout(g) ELSE g

(* Cash and stock together.  A package that holds stock never leaves the cash of one of
   its legs, or of an election's alternative, behind as the value. *)
PassTwo(g, close, a, tried, d) ==
    LET skip  == SkipReason(a)
        alone == a.package /\ (\/ a.deal = "election" \/ skip # "" \/ close = 0
                               \/ SameCash(g.cash, a.cash))
        h     == IF alone THEN DropPayout(g) ELSE g
        Near(p) == Checked(a.cash + a.ratio * p.price, d, close)
        reason == IF a.package /\ close = 0 THEN "no_last_close"
                  ELSE IF a.ratio = 0 THEN "no_ratio"
                  ELSE IF a.ticker = "" /\ tried = <<>> THEN "no_acq_ticker"
                  ELSE IF tried = <<>> THEN "no_acq_price"
                  ELSE IF close = 0 THEN "no_last_close"
                  ELSE IF \A i \in 1..Len(tried) : ~Near(tried[i]) THEN "fail_sanity"
                  ELSE ""
    IN  IF skip # "" THEN [h EXCEPT !.flags = @ \cup {Flag("terms_gate_skipped", skip)}]
        ELSE IF reason # "" THEN [h EXCEPT !.flags = @ \cup {Flag("terms_gate_failed", reason)}]
        ELSE LET p == tried[FirstOf(tried, Near)]
             IN  [BesideTerms(h, a) EXCEPT
                           !.terms = [ratio |-> a.ratio, price |-> p.price,
                                      ticker |-> p.ticker, cash |-> a.cash],
                           !.priced_by = p.how,
                           !.dividend  = Counted(a.cash + a.ratio * p.price, d, close),
                           !.source    = IF ~a.package THEN @
                                         ELSE IF a.deal = "election" THEN "llm_election_package"
                                         ELSE "llm",
                           !.flags     = {f \in @ : f.name # "payout_gate_failed"}]

(* A row the caller gave stands beside its cash; the answer is then not looked at. *)
Gated(regex, close, a, price, tried, d) ==
    IF HasStock(a) /\ ~Election(a)
    THEN PassTwo(PassOne(regex, close, a, price, tried, d), close, a, tried, d)
    ELSE PassOne(regex, close, a, price, tried, d)

GatePayouts(regex, close, a, caller, price, line, d) ==
    IF caller # NoTerms THEN PassOne(regex, close, NoAnswer, 0, <<>>, 0)
    ELSE Gated(regex, close, a, price, Prices(a.ticker, price, line), d)
=============================================================================
