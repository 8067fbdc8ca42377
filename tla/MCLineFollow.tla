----------------------------- MODULE MCLineFollow -----------------------------
(* LineFollow over one line A that stops at day 500 and, beside it, a second FIGI line B or
   one or two placeholders P and Q; new rows follow under its ticker, another, or after a
   gap.  A steps before a placeholder that its own round found folding into it, and a
   placeholder after one that folded into it. *)
EXTENDS LineFollow

MCOrder        == <<"A", "B", "X", "CIK1-P", "CIK1-Q">>
MCPlaceholders == {"CIK1-P", "CIK1-Q"}

R(c, y, lo, hi) == [cusip |-> c, symbol |-> y, from |-> lo, settled |-> hi, to |-> hi]
E(issuer, class, ticker, source, pick) ==
    [issuer |-> issuer, class |-> class, ticker |-> ticker, source |-> source, pick |-> pick]

(* OpenFIGI answers n1 with x, n2 with y; a line found by its CUSIP is what it answers for a1. *)
World(eras, held, runs, x, y, n, l, filed, texts) ==
    [eras |-> eras, held |-> held, runs |-> runs,
     figi |-> [c \in {"a1", "b1", "p1", "q1", "n1", "n2"} |->
        CASE c = "a1" /\ eras["A"].source = "cusip" -> {"A"} [] c = "n1" -> x [] c = "n2" -> y [] OTHER -> {}],
     names |-> [c \in {"a1", "b1", "p1", "q1", "n1", "n2"} |-> IF c = "n1" THEN n ELSE {1}],
     letter |-> [c \in {"a1", "b1", "p1", "q1", "n1", "n2"} |-> IF c = "n1" THEN l ELSE ""],
     figiTicker |-> [c \in {"A", "B", "X"} |-> IF c = "X" THEN "TQ" ELSE "T"], preferred |-> {},
     listed |-> [i \in {1, 2} |-> IF i = 1 THEN {"U"} ELSE {}], texts |-> texts, filed |-> filed, today |-> 1000]

Two(a, sid, b) == [s \in {"A", sid} |-> IF s = "A" THEN a ELSE b]

(* What goes on after A's last row. *)
Goings == {{R("n1", "T", 502, 900)}, {R("n1", "T", 502, 690), R("n2", "T", 692, 790), R("n2", "V", 792, 900)},
           {R("n1", "U", 502, 900)}, {R("n1", "T", 600, 900)}, {R("a1", "V", 503, 900)},
           {R("n1", "T", 502, 690), R("n1", "V", 692, 900)}}

(* The second line, with its rows and the CUSIPs it holds. *)
Beside == {[sid |-> "B", era |-> E(1, "COMMON", "T", "cusip", ""), held |-> {"b1"}, runs |-> {R("b1", "T", 0, 498)}],
           [sid |-> "B", era |-> E(2, "COMMON", "T", "cusip", ""), held |-> {"n1"}, runs |-> {}],
           [sid |-> "B", era |-> E(2, "COMMON", "Z", "cusip", ""), held |-> {"b1"}, runs |-> {R("b1", "Z", 0, 900)}],
           [sid |-> "B", era |-> E(1, "B", "U", "cusip", ""), held |-> {"b1"}, runs |-> {R("b1", "U", 0, 900)}],
           [sid |-> "CIK1-P", era |-> E(1, "COMMON", "T", "placeholder", ""), held |-> {"p1"},
            runs |-> {R("p1", "T", 0, 499)}]}

Firsts == {E(1, c, "T", src, k) : c \in {"COMMON", "A"}, src \in {"cusip", "ticker"}, k \in {"T", "S"}}

Carries == [issuer |-> 1, what |-> "periodic", day |-> 950]
Filing(what) == [issuer |-> 1, what |-> what, day |-> 500]
Filings == {{}, {Carries}} \cup
           {{Carries, Filing(w)} : w \in {"5.03", "1.03", "ends listing", "another's 8-K12B", "rename"}}
Composites == {{}, {"A"}, {"B"}, {"X"}, {"A", "X"}}

Switching ==
    {World(Two(e, b.sid, b.era), Two({"a1"}, b.sid, b.held), {R("a1", "T", 0, 500)} \cup g \cup b.runs,
           x, {"A"}, n, l, {Carries, Filing("5.03"), [issuer |-> 1, what |-> "5.03", day |-> 692]}, {}) :
        b \in Beside, e \in Firsts, g \in Goings, x \in {{"A"}, {"B"}, {"X"}}, n \in {{1}, {2}}, l \in {"", "B"}}
    \cup
    {World(Two(e, b.sid, b.era), Two({"a1"}, b.sid, b.held), {R("a1", "T", 0, 500)} \cup g \cup b.runs,
           x, {"X"}, {1}, "", f, {}) :
        b \in Beside, e \in {e \in Firsts : e.class = "COMMON"}, g \in Goings, x \in Composites, f \in Filings}

(* A new ticker or CUSIP that only an 8-K of the issuer names. *)
Named ==
    {World(Two(e, b.sid, b.era), Two({"a1"}, b.sid, b.held), {R("a1", "T", 0, 500), R("n1", "W", 502, 900)} \cup b.runs,
           x, {}, {1}, "", f, {[issuer |-> 1, day |-> 500, symbols |-> y, cusips |-> c]}) :
        b \in Beside, e \in {e \in Firsts : e.class = "COMMON"}, x \in Composites, y \in {{}, {"W"}}, c \in {{}, {"n1"}},
        f \in Filings \ {{}}}

(* A placeholder that stops where A's CUSIP starts. *)
Placed(e, going, x, f) ==
    World(Two(e, "CIK1-P", E(1, "COMMON", "S", "placeholder", "")), Two({"a1"}, "CIK1-P", {"p1"}),
          {R("p1", "S", 0, 299), R("a1", "S", 301, 310), R("a1", "T", 311, 500), R("n1", going, 502, 900)},
          x, {}, {1}, "", f, {})
Changes == {f \cup {[issuer |-> 1, what |-> "5.03", day |-> 300]} : f \in Filings}

(* A line that only its ticker found steps after the placeholder has folded into it, or in the
   same round and before it: it attaches, or folds into the line that its next CUSIP names. *)
Folding ==
    {Placed(e, y, x, f) : e \in Firsts, y \in {"S", "T"}, x \in Composites,
                          f \in {f \in Changes : \A g \in f : g.what # "rename"}}
    \cup {Placed(e, y, x, f) :
            e \in {e \in Firsts : e.source = "cusip"}, y \in {"S", "T"}, x \in Composites,
            f \in {f \in Changes : \E g \in f : g.what = "rename"}}

(* A placeholder that stops where the CUSIP of a second starts, which stops where A's does. *)
Chained ==
    {LET w == Placed(e, y, x, f)
         Q == E(1, "COMMON", "V", "placeholder", "")
     IN  [w EXCEPT !.eras = ("CIK1-Q" :> Q) @@ @, !.held = ("CIK1-Q" :> {"q1"}) @@ @,
                   !.runs = {R("p1", "S", 0, 299), R("q1", "S", 301, 305), R("q1", "V", 306, 309),
                             R("a1", "V", 311, 315), R("a1", "T", 316, 500), R("n1", y, 502, 900)}] :
        e \in Firsts, y \in {"V", "T"}, x \in Composites, f \in {f \in Changes : Cardinality(f) # 1}}

MCWorlds == Switching \cup Named \cup Folding \cup Chained

=============================================================================
