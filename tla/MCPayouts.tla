------------------------------ MODULE MCPayouts ------------------------------
(* Payouts over the docket of MCClassification; the dockets an ending is valued on give
   every kind of ending, and the worlds every branch of the gate.  The close is 100. *)
EXTENDS Payouts, MCClassification, TLC

OneEach == F("8-K", 1, {"2.01", "3.01", "5.01"}, {"for_one"})

PayoutDocket == MCDocket \cup {OneEach}

Blank == [close |-> 100, age |-> 0, regex |-> 0, foreign |-> FALSE, answer |-> NoAnswer,
          price |-> 0, line |-> [symbol |-> "", price |-> 0, first |-> FALSE],
          closing |-> 0, earlier |-> 0, unstated |-> FALSE, caller |-> NoTerms,
          target |-> "none", special |-> FALSE, recovery |-> 0, plan |-> 0, notice |-> {},
          otc |-> "none"]

Cash(c)      == [NoAnswer EXCEPT !.deal = "cash", !.cash = c, !.package = TRUE]
Stock(r)     == [NoAnswer EXCEPT !.deal = "stock", !.ratio = r, !.ticker = "ACQ", !.package = TRUE]
Both(c, r)   == [Stock(r) EXCEPT !.deal = "mixed", !.cash = c]
Elect(c, r)  == [Both(c, r) EXCEPT !.deal = "election", !.package = FALSE]
OwnLine(p, f)   == [symbol |-> "LINE", price |-> p, first |-> f]

Answers ==
    {NoAnswer, Cash(98), Cash(50), [Cash(98) EXCEPT !.right = TRUE],
     [Cash(98) EXCEPT !.currency = "CAD"], [Cash(98) EXCEPT !.deal = "other", !.package = FALSE],
     Stock(2), Stock(1), [Stock(2) EXCEPT !.package = FALSE], [Stock(2) EXCEPT !.ticker = ""],
     Both(50, 1), [Both(50, 1) EXCEPT !.deal = "election"], [Both(50, 1) EXCEPT !.package = FALSE],
     [Both(50, 1) EXCEPT !.package = FALSE, !.currency = "CAD"],
     Elect(98, 2), Elect(50, 1), [Elect(98, 2) EXCEPT !.no_default = TRUE],
     [Elect(0, 2) EXCEPT !.deal = "election"],
     [Both(50, 0) EXCEPT !.value = 50], [Both(50, 1) EXCEPT !.extra = TRUE],
     [Both(50, 1) EXCEPT !.extra = TRUE, !.package = FALSE]}

Prices1 == {[price |-> 0, line |-> Blank.line], [price |-> 49, line |-> Blank.line],
            [price |-> 49, line |-> OwnLine(70, FALSE)], [price |-> 30, line |-> OwnLine(49, TRUE)],
            [price |-> 0, line |-> OwnLine(49, FALSE)], [price |-> 0, line |-> OwnLine(0, FALSE)]}

Mergers ==
    {[Blank EXCEPT !.answer = a, !.price = p.price, !.line = p.line, !.regex = r, !.close = c] :
        a \in Answers, p \in Prices1, r \in {0, 50, 98}, c \in {0, 100}}

Told ==
    {[Blank EXCEPT !.answer = a, !.regex = r, !.close = c, !.price = 49, !.foreign = f,
                   !.closing = cl, !.earlier = ea, !.unstated = cl = 0, !.age = age] :
        a \in {NoAnswer, Cash(96), Both(50, 1), Elect(96, 1)}, r \in {0, 50, 96}, c \in {0, 100},
        f \in BOOLEAN, cl \in {0, 4}, ea \in {0, 3}, age \in {0, 6}}

GivenRows ==
    {[Blank EXCEPT !.answer = Both(50, 1), !.price = 49, !.regex = 98, !.caller = t] :
        t \in {[NoTerms EXCEPT !.cash = 90], [ratio |-> 2, price |-> 45, ticker |-> "ACQ", cash |-> 0],
               [ratio |-> 1, price |-> 45, ticker |-> "ACQ", cash |-> 50]}}

Statements1 ==
    {[Blank EXCEPT !.answer = a, !.regex = r, !.price = 49, !.close = c, !.target = g, !.special = s] :
        a \in {NoAnswer, Stock(1), Both(50, 1), Both(20, 1), Stock(2), Stock(3)}, r \in {0, 50},
        c \in {0, 100}, g \in {"none", "held", "listed", "unlisted"}, s \in BOOLEAN}

Drops ==
    {[Blank EXCEPT !.close = c, !.recovery = r, !.plan = 2, !.notice = n, !.otc = o] :
        c \in {0, 100}, r \in {0, 40}, o \in {"none", "fails", "notice"},
        n \in {{}, {"substitutes"}, {"substitutes", "bankrupt"}, {"price_only"}}}

Removal == F("25-NSE", 10, {}, {"acquired"})

MCWorlds ==
    [S \in {{F("8-K", 0, {"2.01", "3.01", "5.01"}, {})}} |-> Mergers \cup Told \cup GivenRows] @@
    [S \in {{OneEach, Removal}} |-> Statements1] @@
    [S \in {{F("8-K", -15, {"3.01"}, {"deficiency"}), Removal},
            {F("8-K", -15, {"3.01"}, {"winding_down"}), Removal},
            {F("8-K", -60, {"1.03"}, {"unread"}), Removal},
            {Removal},
            {F("8-K", 2, {}, {"for_one"}), Removal}} |-> Drops]
MCQuotes == {50, 98}
=============================================================================
