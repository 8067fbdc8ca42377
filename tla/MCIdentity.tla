---------------------------- MODULE MCIdentity ----------------------------
(* Identity on nine families of small worlds: a ticker whose CUSIP changes, up to twice, with
   a successor registration at the step or not; one that a snapshot gives two names on one
   day; an issuer's lines that overlap; a class whose eras today's holder names on another
   composite, its line found anew, carried on or gone to another issuer; eras that share an
   issuer code; and a chain of CUSIP links between four tickers. *)
EXTENDS Identity

CONSTANTS A, B      \* the words of two names

Tickers == {"T", "U", "V", "W"}
Cusips  == {"c1", "c2", "c3", "c4"}

Row(t, c, w, cl, day) == [ticker |-> t, suffix |-> "", cusip |-> c, day |-> day, word |-> w, class |-> cl]
Rows(t, c, w, start, step) == [i \in 1 .. 3 |-> Row(t, c, w, "", start + step * (i - 1))]
Seen(t, d, w, cl, c) ==
    [ticker |-> t, day |-> d, name |-> [word |-> w, class |-> cl], cik |-> None, id |-> None, cusip |-> c, derived |-> FALSE]
ByDay(s) == SortSeq(s, LAMBDA a, b : a.day < b.day)

Name(w) == [word |-> w, class |-> ""]
Company(w, former, forms) == [name |-> Name(w), former |-> former, first |-> 0, forms |-> forms]
RenamedCompany(from, to, w, day) == Company(to, {[word |-> from, class |-> "", from |-> 0, to |-> day]}, {})
Filing(form, day, items) == [form |-> form, day |-> day, items |-> items]

Answers(c, strong) ==
    IF c = None THEN <<>>
    ELSE <<[cik |-> c, source |-> IF strong THEN "name_search" ELSE "efts_name_mismatch", strong |-> strong]>>
Same(answers) == [cap |-> answers, end |-> answers, start |-> answers]
\* by ticker, whatever the name
Lookup(byTicker) == [k \in Tickers \X {A, B, NoWord} |-> Same(byTicker[k[1]])]
NoLookups == [t \in Tickers |-> <<>>]

Line(w, ticker) == [word |-> w, class |-> "", ticker |-> ticker, mapped |-> TRUE]
Lines == [X |-> Line(A, "T"), Y |-> Line(A, "U")]

OwnCodes == [c1 |-> 1, c2 |-> 2, c3 |-> 3, c4 |-> 4]
Base ==
    [obs |-> <<>>, rows |-> <<>>, tickers |-> <<>>, opened |-> 0, companies |-> <<>>, exchanges |-> {},
     listed |-> [t \in Tickers |-> None], frequency |-> [t \in Tickers |-> {}], code |-> OwnCodes,
     composite |-> [c \in Cusips |-> None], lines |-> Lines, lookup |-> Lookup(NoLookups),
     steps |-> {}, jumps |-> {}, refused |-> {}]
World(obs, rows, companies) ==
    [Base EXCEPT !.obs = ByDay(obs), !.rows = ByDay(rows), !.companies = companies,
                 !.tickers = SetToSortSeq({o.ticker : o \in Range(obs)}, LAMBDA s, t : <<s, t>> \in {<<"T", "U">>, <<"T", "V">>,
                                 <<"T", "W">>, <<"U", "V">>, <<"U", "W">>, <<"V", "W">>})]

---------------------------------------------------------------------
(* T trades c1, then c2, then c3, seen at the start and perhaps at the end. *)
Step(old, new, why) == [old |-> old, new |-> new, first |-> IF new = "c2" THEN 200 ELSE 300, why |-> why]
StepWorlds ==
    {[World(IF seen = None THEN <<Seen("T", 110, A, "", None)>>
            ELSE <<Seen("T", 110, A, "", None), Seen("T", 320, seen, "", None)>>,
            Rows("T", "c1", A, 100, 10) \o Rows("T", "c2", w, 200, 10) \o (IF third THEN Rows("T", "c3", A, 300, 10) ELSE <<>>),
            (1 :> Company(A, {}, {}) @@ 2 :> RenamedCompany(A, B, A, 195)))
        EXCEPT !.composite = ("c1" :> figi[1] @@ "c2" :> figi[2] @@ "c3" :> None),
               !.lookup = Lookup([NoLookups EXCEPT !["T"] = Answers(answer[1], answer[2])]),
               !.frequency = [t \in Tickers |-> IF t = "T" THEN {2} ELSE {}],
               !.listed = [t \in Tickers |-> IF t = "T" THEN 2 ELSE None],
               !.steps = {Step("c1", "c2", why), Step("c2", "c3", why)},
               !.jumps = jumps, !.refused = refused] :
        seen \in {None, A, B}, w \in {A, B}, third \in BOOLEAN,
        figi \in {<<None, None>>, <<"X", None>>, <<None, "Y">>, <<"X", "Y">>},
        answer \in {<<None, FALSE>>, <<1, TRUE>>, <<2, FALSE>>},
        why \in {"merged_out", "no_evidence"},
        jumps \in {{}, {<<"c1", "c2">>}}, refused \in {{}, {<<"c1", "c2">>}}}

(* T's line goes on under a new name, and no lookup knows its company: one named so filed a
   successor registration then, or before. *)
SuccessorWorlds ==
    {[World(<<Seen("T", 110, A, "", None)>>, Rows("T", "c1", A, 100, 10) \o Rows("T", "c2", B, 200, 10),
            (1 :> Company(A, {}, {}) @@ 2 :> Company(B, {}, {Filing(form, day, {})}) @@ 3 :> RenamedCompany(A, B, A, 195)))
        EXCEPT !.composite = ("c1" :> figi @@ "c2" :> None @@ "c3" :> None),
               !.lookup = [k \in Tickers \X {A, B, NoWord} |-> Same(IF k[2] = A THEN Answers(1, TRUE) ELSE <<>>)],
               !.frequency = [t \in Tickers |-> renamed],
               !.steps = {Step("c1", "c2", "merged_out")}] :
        figi \in {None, "X"}, form \in SuccessorForms \cup {"8-K"}, day \in {100, 200}, renamed \in {{}, {3}}}

(* A snapshot gave T two names on its first day. *)
TwoNameWorlds ==
    {[World(<<Seen("T", 100, A, "", None), Seen("T", 100, B, "", None), Seen("T", 320, A, "", None)>>,
            Rows("T", "c1", w, 100, 10) \o Rows("T", "c2", v, 200, 10),
            (1 :> Company(A, {}, {}) @@ 2 :> Company(B, {}, {})))
        EXCEPT !.lookup = [k \in Tickers \X {A, B, NoWord} |-> Same(IF k[2] = A THEN Answers(1, TRUE) ELSE Answers(2, TRUE))],
               !.composite = ("c1" :> figi @@ "c2" :> None @@ "c3" :> None)] :
        w \in {A, B}, v \in {A, B}, figi \in {None, "X"}}

(* Three tickers of one issuer, each with a CUSIP of its own no composite is known for. *)
LineWorlds ==
    {[World(<<Seen("T", 100, A, "", None), Seen("U", second, A, "", None), Seen("V", third, A, class, None)>>,
            Rows("T", "c1", A, 100, 100) \o Rows("U", "c2", A, second, 100) \o Rows("V", "c3", A, third, 100),
            (1 :> Company(A, {}, {}) @@ 2 :> Company(B, {}, bankrupt)))
        EXCEPT !.lookup = Lookup([t \in Tickers |-> Answers(1, TRUE)]),
               !.lines = [X |-> Line(B, "T"), Y |-> Line(B, "U")],
               !.composite = ("c1" :> None @@ "c2" :> figi @@ "c3" :> None)] :
        second \in {200, 303, 350}, third \in {103, 305, 400, 553}, class \in {"", "K"}, figi \in {None, "X"},
        bankrupt \in {{}, {Filing("8-K", 295, {"1.03"})}}}

(* T's era has a name only EDGAR puts on X; U's, of the same class, has none; V's CUSIP puts
   the class on Y over some of the days. *)
ClassWorlds ==
    {[World(<<Seen("T", 100, A, "", None), Seen("U", when, A, class, None), Seen("V", when, A, "", None)>>,
            Rows("V", "c3", A, when, 10) \o Rows("T", "c1", A, 90, 10) \o Rows("U", "c2", A, when - 5, 10),
            (1 :> RenamedCompany(A, B, A, 150) @@ 2 :> Company(B, {}, {})))
        EXCEPT !.lookup = Lookup([t \in Tickers |-> IF t = "V" /\ other THEN Answers(2, TRUE) ELSE Answers(1, TRUE)]),
               !.lines = [X |-> Line(word, "T"), Y |-> Line(A, "W")],
               !.composite = ("c1" :> None @@ "c2" :> None @@ "c3" :> figi),
               !.listed = [t \in Tickers |-> IF t = "T" THEN listed ELSE None]] :
        when \in {100, 300}, class \in {"", "K"}, word \in {A, B}, figi \in {None, "X", "Y"}, other \in BOOLEAN,
        listed \in {None, 2}}

(* T is seen early and late, under two CUSIPs; today's holder of it is X, which V's CUSIP
   names in between; U's puts the issuer and class on Y before that, perhaps over T's first
   days. *)
DetachedWorlds ==
    {[World(<<Seen("T", 100, first, "", None), Seen("U", 200, A, "", "c2"), Seen("V", 300, A, class, "c3"),
              Seen("T", 600, second, "", "c4")>> \o early,
            Rows("T", "c1", A, 95, 5) \o Rows("U", "c2", A, 195, 5) \o Rows("V", "c3", A, 295, 5) \o Rows("T", "c4", A, 595, 5),
            (1 :> RenamedCompany(A, B, A, 700) @@ 2 :> Company(A, {}, {})))
        EXCEPT !.lookup = Lookup([t \in Tickers |-> IF t = "V" THEN Answers(other, TRUE) ELSE Answers(1, TRUE)]),
               !.lines = [X |-> Line(word, "T"), Y |-> Line(A, "U")],
               !.composite = ("c1" :> None @@ "c2" :> "Y" @@ "c3" :> "X" @@ "c4" :> None)] :
        first \in {A, B}, second \in {A, B}, word \in {A, B}, class \in {"", "K"}, other \in {1, 2},
        early \in {<<>>, <<Seen("W", 100, A, "", "c2")>>}}

(* T's line changed its issuer; it is not X, which V's CUSIP names later, but goes on as U's
   on Y, or stops. W is of its first issuer. *)
MovedWorlds ==
    {[World(<<Seen("T", 100, A, "", "c1"), Seen("T", 600, B, "", "c1"), Seen("U", start + 5, B, "", "c2"),
              Seen("V", 800, B, "", "c3"), Seen("W", 100, A, "", None)>>,
            Rows("T", "c1", A, 95, 5) \o Rows("T", "c1", B, 595, 5) \o Rows("U", "c2", B, start, 5) \o Rows("V", "c3", B, 795, 5),
            (1 :> Company(A, {}, {}) @@ 2 :> RenamedCompany(A, B, A, 608)))
        EXCEPT !.lookup = [k \in Tickers \X {A, B, NoWord} |-> Same(IF k[2] = A THEN Answers(1, TRUE) ELSE Answers(2, TRUE))],
               !.lines = [X |-> Line(word, "T"), Y |-> Line(B, "U")],
               !.composite = ("c1" :> None @@ "c2" :> "Y" @@ "c3" :> "X" @@ "c4" :> None)] :
        start \in {608, 700}, word \in {A, B}}

(* Nobody knows T's company; U's CUSIP has T's issuer code, and two companies U's name. *)
CodeWorlds ==
    {[World(<<Seen("T", 100, B, "", None), Seen("U", 100, A, "", None)>>,
            Rows("T", "c1", B, 100, 10) \o Rows("U", "c2", w, 100, 10),
            (1 :> RenamedCompany(B, A, B, 500) @@ 2 :> Company(A, {}, {})))
        EXCEPT !.lookup = Lookup([t \in Tickers |-> IF t = "U" THEN Answers(1, TRUE) ELSE <<>>]),
               !.code["c2"] = code] :
        w \in {A, B}, code \in {1, 2}}

(* T's CUSIP is also U's, and V's; W has V's other CUSIP. The issuers of U and W are known,
   and both once had the name T's rows say. *)
ChainWorlds ==
    {[World(<<Seen("T", 100, A, "", None), Seen("U", 100, A, "", "c1"), Seen("V", 100, w, "", "c1"), Seen("W", 100, B, "", "c2")>>,
            Rows("T", "c1", A, 100, 10) \o Rows("V", "c2", w, 100, 10),
            (1 :> Company(A, {}, {}) @@ 2 :> RenamedCompany(A, B, A, 90)))
        EXCEPT !.lookup = Lookup([t \in Tickers |-> IF t = "U" THEN Answers(u, TRUE)
                                                    ELSE IF t = "W" THEN Answers(v, strong) ELSE <<>>]),
               !.composite = ("c1" :> figi @@ "c2" :> None @@ "c3" :> None), !.code = code] :
        code \in {OwnCodes, [c \in Cusips |-> 1]}, w \in {A, B}, u \in {None, 1, 2}, v \in {None, 1, 2}, strong \in BOOLEAN, figi \in {None, "X"}}

MCInit == /\ world \in StepWorlds \cup TwoNameWorlds \cup LineWorlds \cup ClassWorlds \cup ChainWorlds \cup SuccessorWorlds \cup DetachedWorlds \cup MovedWorlds \cup CodeWorlds
          /\ lost \in {{}} \cup {{c} : c \in Companies}
          /\ Start
MCSpec == MCInit /\ [][Next]_vars
=====================================================================
