---------------------------- MODULE MCEndingSearch ----------------------------
(* EndingSearch over the lines of one issuer: two in most worlds, where the other two start
   long after every filing, and four in one.  A Form 25 near day 1000 finds a and b alive, one
   or both stopped there, and the line b going on, taking over or never there; in one world
   both were last sighted five hundred days before, and their CUSIPs still settle. *)
EXTENDS EndingSearch

MCLines == {"a", "b", "c", "d"}

L(letter, hint, kind, words, first, last, rows) ==
    [letter |-> letter, hint |-> hint, kind |-> kind, words |-> words, first |-> first, last |-> last,
     rows |-> rows, fails |-> IF last < rows THEN last ELSE rows, switch |-> -9999]

Stops(letter, hint, words) == L(letter, hint, "common", words, 0, 1000, 1000)
Goes(letter, hint, words)  == L(letter, hint, "common", words, 0, 2000, 2000)

Later == L("", "", "common", {}, 5000, 5010, 5010)
Two(a, b) == [a |-> a, b |-> b, c |-> Later, d |-> Later]

Worlds ==
    {Two(Stops("", "", {"GGP"}), Goes("", "", {"PARK"})),
     Two(Stops("", "", {"LINDE"}), L("", "", "common", {"LINDE"}, 1010, 2000, 2000)),
     Two(Stops("A", "", {"FOX"}), Goes("B", "", {"FOX"})),
     Two(Stops("", "A", {"FOX"}), Stops("B", "", {"FOX"})),
     Two(Stops("", "", {"FOX"}), Stops("", "", {"FOX"})),
     Two(Stops("", "", {"LIBERTY", "LIVE"}), Stops("A", "", {"LIBERTY", "F1"})),
     Two(L("", "", "common", {"GGP"}, 1300, 1310, 90), L("", "", "preferred", {"GGP"}, 0, 1000, 1000)),
     Two(L("", "", "common", {"GGP"}, 0, 1000, 1200), [Goes("", "", {"PARK"}) EXCEPT !.switch = 1005]),
     Two(L("", "", "common", {"GGP"}, 0, 500, 1000), L("", "", "common", {"PARK"}, 0, 500, 1000)),
     [a |-> Stops("", "", {"LIVE"}), b |-> Goes("", "B", {"LIVE"}),
      c |-> Stops("", "B", {"LIVE"}), d |-> Goes("", "", {"PARK"})]}

Covers == {[known |-> FALSE, before |-> {}, after |-> {}, quoted |-> FALSE],
           [known |-> TRUE, before |-> {"NYSE"}, after |-> {}, quoted |-> FALSE],
           [known |-> TRUE, before |-> {"NYSE"}, after |-> {"NYSE"}, quoted |-> FALSE]}

(* The classifier's answers: the same for both lines and every day, or not: a merger that the
   continued-filings rule relabelled, then a deficiency; a transfer, then a liquidation. *)
Answers == [merger |-> <<"merger", "merger", "merger">>, unknown |-> <<"unknown", "unknown", "unknown">>,
            relabelled |-> <<"relabelled", "deficiency", "exchange_transfer">>,
            moved |-> <<"exchange_transfer", "liquidation", "merger">>]
MCCalled(i, s, d) == Answers[i.called][IF s # "a" THEN 3 ELSE IF d < 1005 THEN 1 ELSE 2]

MCIssuers ==
    {[lines |-> p, listed |-> [a |-> "no", b |-> l, c |-> "no", d |-> "yes"], called |-> c, cover |-> v,
      reports |-> r, fallback |-> IF r THEN "8-K" ELSE "nothing", words |-> {"LIBERTY"}] :
        p \in Worlds, l \in {"yes", "no", "unknown"}, c \in DOMAIN Answers,
        v \in Covers, r \in BOOLEAN}

F(form, day, kind, classes, words, exchange) ==
    [form |-> form, day |-> day, kind |-> kind, classes |-> classes, words |-> words, exchange |-> exchange,
     involuntary |-> FALSE, solely |-> FALSE, readable |-> TRUE]
C(letter, words) == [letter |-> letter, words |-> words]

MCDocket ==
    {F("25-NSE", 100, "common", {}, {}, "NYSE"),
     F("25-NSE", 980, "common", {}, {}, "NYSE"),
     F("25-NSE", 1002, "common", {}, {"GGP"}, "NYSE"),
     [F("25-NSE", 1003, "common", {}, {}, "NYSE") EXCEPT !.involuntary = TRUE],
     F("25-NSE", 1004, "common", {C("A", {}), C("B", {})}, {}, "NYSE"),
     F("25-NSE", 1005, "common", {C("A", {"LIVE"})}, {}, "NYSE"),
     F("25-NSE", 1006, "common", {C("A", {}), C("C", {"LIVE"})}, {}, "NYSE"),
     F("25", 1010, "common", {}, {}, "NASDAQ"),
     F("25-NSE", 1011, "preferred", {}, {}, "NYSE"),
     [F("25-NSE", 1012, "common", {}, {}, "NYSE") EXCEPT !.readable = FALSE],
     F("25-NSE", 1013, "other", {}, {}, "NYSE"),
     F("25-NSE", 1033, "common", {}, {}, "NYSE"),
     F("25-NSE", 1200, "common", {C("B", {})}, {}, "NYSE"),
     F("8-A12B", 1015, "none", {}, {}, "none")}
=============================================================================
