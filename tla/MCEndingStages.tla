--------------------------- MODULE MCEndingStages ---------------------------
(* What may be read for one ending: every text beside every volume and halt, with the
   ticker's next tenure known or not; endings no text and no print dates; and drops
   nothing was filed about. *)
EXTENDS EndingStages

Notices0 == {NoReading} \cup [day : Days, kind : NoticeKinds]
EightK   == [filed : Days, day : Days, kind : EightKKinds]

Base == [how |-> "group", form |-> "exchange", goesOn |-> FALSE, filed |-> LastDay, seen |-> LastDay,
         notices |-> <<>>, eightks |-> {}, volume |-> {}, halt |-> 0, tenure |-> 0, completions |-> {},
         shown |-> 0, done |-> 0, tradesOn |-> FALSE]

(* The 8-K was filed on the Form 25's day, or long before it. *)
Printed ==
    {[Base EXCEPT !.how = h, !.filed = f, !.notices = n, !.eightks = k, !.volume = v, !.halt = t, !.tenure = o] :
        <<h, n>> \in ({"group"} \X {<<x>> : x \in Notices0}) \cup {<<"fallback", <<>>>>},
        f \in {2, LastDay}, k \in {{}} \cup {{x} : x \in {y \in EightK : y.filed = 2}},
        v \in SUBSET Days, t \in {0, 2, 3}, o \in {0, TakenOn}}

(* Two 8-Ks, two notices, and no confirmation. *)
Told ==
    {[Base EXCEPT !.filed = f, !.notices = <<n, m>>, !.eightks = {k, j}] :
        f \in {2, LastDay}, n \in {NoReading, [day |-> 2, kind |-> "bare"]}, m \in {NoReading, [day |-> 1, kind |-> "stated"]},
        k \in EightK, j \in {y \in EightK : y.filed = 1}}

Undated ==
    {[Base EXCEPT !.how = h, !.form = f, !.filed = d, !.seen = s, !.completions = c, !.shown = w, !.done = x,
                  !.goesOn = g] :
        h \in {"group", "fallback"}, f \in {"exchange", "issuer"}, d \in Days, s \in {2, LastDay},
        c \in {{}} \cup {{y} : y \in [day : 2..LastDay, hour : {"none", "before", "later"}]}
              \cup {{[day |-> 2, hour |-> "before"], [day |-> LastDay, hour |-> "none"]}},
        w \in 0..LastDay, x \in {0, LastDay}, g \in BOOLEAN}

Dropped ==
    {[Base EXCEPT !.how = "drop", !.filed = f, !.volume = v, !.seen = s, !.tradesOn = o] :
        f \in 0..LastDay, v \in SUBSET Days, s \in Days, o \in BOOLEAN}

(* A second security went on trading after its Form 25, dated by its notice. *)
WentOn == {[Base EXCEPT !.goesOn = TRUE, !.notices = <<n>>, !.volume = v] : n \in Notices0, v \in SUBSET Days}

MCEvidence == Printed \cup Told \cup Undated \cup Dropped \cup WentOn
=============================================================================
