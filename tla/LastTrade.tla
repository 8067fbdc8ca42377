------------------------------ MODULE LastTrade -----------------------------
(* The last day a security traded on its exchange (last_trade.py).  No rule makes an
   issuer state it, so it is read in several places and cross-checked: the notice of
   the Form 25, the 3.01 8-Ks filed around it, the exchange's volume (MIDAS), the
   halts, the fails rows, and last the day the deal closed.  Another security may
   carry the ticker from some day on, and its volume and its halts must not date this
   one.

   Days are sessions, 0 is none.  A reading is a day and how the text said it. *)
EXTENDS Integers, Sequences

CONSTANTS LastDay,          \* the last day of the data
          Evidence,         \* what may be read for one ending
          EightKBefore, EightKAfter, EightKGroupAfter,   \* the windows, in days
          Effective, MidasAfter, StillTrading, HaltNear,
          ClosingBefore, ClosingAfter, Quiet

ASSUME LastTradeAssumption ==
    /\ LastDay \in Nat
    /\ {EightKBefore, EightKAfter, EightKGroupAfter, Effective, MidasAfter, StillTrading,
        HaltNear, ClosingBefore, ClosingAfter, Quiet} \subseteq Nat

Days == 1..LastDay

Min2(a, b) == IF a < b THEN a ELSE b
Max2(a, b) == IF a > b THEN a ELSE b
Lately(days)   == IF days = {} THEN 0 ELSE CHOOSE d \in days : \A e \in days : e <= d
Earliest(days) == IF days = {} THEN 0 ELSE CHOOSE d \in days : \A e \in days : d <= e
Apart(a, b) == IF a < b THEN b - a ELSE a - b

-------------------------------------------------------------------------------
(* What the texts say *)

NoReading   == [day |-> 0, kind |-> "none"]
NoticeKinds == {"stated", "bare", "doubtful"}
Explicit    == {"open", "last_day", "close"}       \* EXPLICIT_KINDS
HaltAtOpen  == {"open", "last_day"}                \* HALT_AT_OPEN_KINDS
EightKKinds == Explicit \cup {"suspended", "doubtful"}

(* What is read for an ending: found by its group of Form 25s, by another filing or by
   the volume's drop; 0 is a day nothing states. *)
Read == [how : {"group", "fallback", "drop"}, form : {"exchange", "issuer"}, goesOn : BOOLEAN,
         filed : 0..LastDay, seen : Days,
         notices : Seq([day : 0..LastDay, kind : {"none"} \cup NoticeKinds]),
         eightks : SUBSET [filed : Days, day : Days, kind : EightKKinds],
         volume : SUBSET Days, halt : 0..LastDay, tenure : 0..LastDay,
         completions : SUBSET [day : Days, hour : {"none", "before", "later"}],
         shown : 0..LastDay, done : 0..LastDay, tradesOn : BOOLEAN]

ASSUME EvidenceAssumption == Evidence \subseteq Read

Rank(kind) == IF kind \in Explicit THEN 0 ELSE IF kind = "suspended" THEN 1 ELSE 2

Reading(f) == [day |-> f.day, kind |-> f.kind]

(* The best reading of the 8-Ks filed from lo to hi, the nearest to the anchor first
   among equals. *)
EightKWindow(eightks, lo, hi, anchor) ==
    LET read  == {f \in eightks : f.filed \in lo..hi}
        best  == {f \in read : \A g \in read : Rank(f.kind) <= Rank(g.kind)}
    IN IF read = {} THEN NoReading
       ELSE Reading(CHOOSE f \in best : \A g \in best : Apart(f.filed, anchor) <= Apart(g.filed, anchor))

(* The first of a sequence that has a day. *)
FirstDated(told, none) ==
    LET dated == {i \in DOMAIN told : told[i].day # 0}
    IN IF dated = {} THEN none ELSE told[Earliest(dated)]

(* The first notice of the group that states a day, the exchange's own first. *)
NoticeOf(notices) == FirstDated(notices, NoReading)

TextDays(notice, eightk) == {notice.day, eightk.day} \ {0}

-------------------------------------------------------------------------------
(* The source order: the volume; a halt, unless the 8-K puts it at the open; a
   stated timing; a bare date; an unconfirmed one. *)

Dated(day, source, sure) == [day |-> day, source |-> source, sure |-> sure]
NoDay == Dated(0, "none", FALSE)
NoEnding == Dated(0, "no ending", FALSE)

Prints == {"midas", "halt", "notice", "8k"}        \* EXCHANGE_PRINTS

Sources(notice, eightk, midas, halt) ==
    LET atOpen == eightk.kind \in HaltAtOpen /\ eightk.day = halt - 1
        timed  == eightk.kind \in Explicit /\ notice.kind = "bare" /\ eightk.day # notice.day
        When(r, told, source, sure) == Dated(IF told THEN r.day ELSE 0, source, sure)
    IN << Dated(midas, "midas", TRUE),
          When(eightk, halt # 0 /\ atOpen, "8k", TRUE),
          Dated(halt, "halt", TRUE),
          When(eightk, timed, "8k", TRUE),
          When(notice, notice.kind # "doubtful", "notice", TRUE),
          When(eightk, eightk.kind # "doubtful", "8k", TRUE),
          Dated(notice.day, "notice", FALSE),
          Dated(eightk.day, "8k", FALSE) >>

Decide(notice, eightk, midas, halt) == FirstDated(Sources(notice, eightk, midas, halt), NoDay)

-------------------------------------------------------------------------------
(* The confirmations: the exchange's volume and the halts under the ticker.  A day
   after an earlier text's is the security's own only before the other security's
   first fails row under the ticker (rule 3); e.tenure is that row's day, 0 when the
   fails tell nothing of it. *)

VolumeUntil(e, until) == Lately({d \in e.volume : d <= until})

(* No last day while the volume still runs at the cut. *)
StoppedBy(day, still) == IF day < still THEN day ELSE 0

Overrun(e, texts, day) ==
    /\ texts # {} /\ Earliest(texts) < day
    /\ e.tenure # 0 /\ e.tenure <= day

MidasDay(e, texts, until, still) ==
    LET day == StoppedBy(VolumeUntil(e, until), still)
    IN IF Overrun(e, texts, day) THEN StoppedBy(VolumeUntil(e, Min2(until, e.tenure - 1)), still) ELSE day

HaltDay(e, texts, guesses) ==
    IF /\ e.halt \in (Earliest(guesses) - HaltNear)..(Lately(guesses) + HaltNear)
       /\ ~Overrun(e, texts, e.halt)
    THEN e.halt ELSE 0

(* A Form 25's texts are its group's first notice and the 8-Ks around it; without one,
   e.filed is the filing that dates the ending. *)
NoticeRead(e) == IF e.how = "group" THEN NoticeOf(e.notices) ELSE NoReading

EightKRead(e) ==
    EightKWindow(e.eightks, e.filed - EightKBefore,
                 IF e.how = "group" THEN e.filed + EightKGroupAfter ELSE Max2(e.filed, e.seen) + EightKAfter,
                 e.filed)

TextsOf(e) == TextDays(NoticeRead(e), EightKRead(e))

ReadAt(e, still, guesses) ==
    LET texts == TextsOf(e)
        midas == MidasDay(e, texts, still + MidasAfter, still)
        halt  == HaltDay(e, texts, IF texts = {} THEN guesses ELSE texts)
    IN Decide(NoticeRead(e), EightKRead(e), midas, IF midas = 0 THEN halt ELSE 0)

GroupReading(e)  == ReadAt(e, e.filed + Effective + StillTrading, {e.filed - 1, e.filed})
SingleReading(e) == ReadAt(e, e.filed + StillTrading, {e.filed - 1})

-------------------------------------------------------------------------------
(* Rule 4: the day the deal closed, the last completion the 8-Ks state within the
   window, or the day before it when every hour stated for it is before the open.
   shown: the last day the security's own fails rows show it trading. *)

NoClosing == [day |-> 0, before |-> FALSE]

ClosingRead(completions, lo, hi) ==
    LET told   == {c \in completions : c.day \in lo..hi}
        last   == Lately({c.day : c \in told})
        before == {c.hour : c \in {t \in told : t.day = last}} \ {"none"} = {"before"}
    IN IF told = {} THEN NoClosing ELSE [day |-> IF before THEN last - 1 ELSE last, before |-> before]

ClosingDay(e, lo, hi, shown) ==
    LET read == ClosingRead(e.completions, lo, hi)
    IN IF read = NoClosing THEN NoDay
       ELSE Dated(IF ~read.before /\ read.day < shown /\ shown <= hi THEN shown ELSE read.day, "closing", FALSE)

(* A removal the issuer or a rule asked for follows the last trade by weeks. *)
OfGroup(e) ==
    LET read == GroupReading(e)
        closing == ClosingDay(e, e.filed - ClosingBefore, e.filed, e.shown)
    IN IF read.day # 0 \/ e.goesOn \/ e.form # "exchange" THEN read
       ELSE IF closing.day # 0 THEN closing
       ELSE Dated(e.filed, "closing", FALSE)

(* No Form 25: e.done is the day of the merger's completion 8-K, 0 when there is none. *)
OfFallback(e) ==
    LET read == SingleReading(e)
        closing == IF e.done = 0 THEN NoDay ELSE ClosingDay(e, e.done - ClosingBefore, e.done + ClosingAfter, 0)
    IN IF read.day # 0 THEN read
       ELSE IF closing.day \in 1..e.seen THEN closing
       ELSE Dated(e.seen, "unsourced", FALSE)

(* Nothing filed: the exchange's last volume, when the issuer was silent around it and
   its shares trade on over the counter. *)
MidasLast(e) == VolumeUntil(e, e.seen)

MidasDrop(e) ==
    IF MidasLast(e) # 0 /\ (e.filed = 0 \/ Apart(e.filed, MidasLast(e)) > Quiet) /\ e.tradesOn
    THEN Dated(MidasLast(e), "midas", TRUE) ELSE NoEnding

(* No rule gave an ending: its own fails rows, unless those of its last CUSIP stand at
   one price throughout, the exchange's volume, the last sighting. *)
UnexplainedDay(e) ==
    IF e.shown # 0 /\ e.shown >= e.lastCusip THEN Dated(e.shown, "fails", FALSE)
    ELSE IF MidasLast(e) # 0 THEN Dated(MidasLast(e), "midas", FALSE)
    ELSE Dated(e.seen, "sighting", FALSE)

DateOf(e) == CASE e.how = "group"    -> OfGroup(e)
               [] e.how = "fallback" -> OfFallback(e)
               [] e.how = "drop"     -> MidasDrop(e)
               [] OTHER              -> NoEnding

Sighted == [shown : 0..LastDay, lastCusip : Days, volume : SUBSET Days, seen : Days]
=============================================================================
