---------------------------- MODULE Classification ----------------------------
(* What one delisting is called (endings/classifier.py, endings/end_of_era.py): the
   classifier reads everything the registrant has filed, so a run made later, with more
   filings on record, answers again.  Filings arrive here in filing order and the answer
   is a function of what is on record; days count from the security's last trade.

   A filing is its form, its day, the items of an 8-K and what its text says ("unread":
   the text could not be fetched).  Of the registrant the classifier asks whether it is a
   blank-check company, whether it was renamed near the end, and whether the security
   went on trading. *)
EXTENDS Integers, FiniteSets

CONSTANTS Docket,      \* the filings that may come on record
          MaxFilings   \* how many of them do, in one behaviour

Labels == {"unread", "bankruptcy", "deficiency", "transfer", "winding_down", "completed",
           "for_one", "for_another", "for_part", "acquirer", "acquired"}

ASSUME ClassificationAssumption ==
    /\ MaxFilings \in Nat
    /\ \A f \in Docket : f.day \in Int /\ f.says \subseteq Labels

VARIABLES issuer,     \* what is known of the registrant and the security beside its filings
          filings,    \* the filings on record
          matched     \* the Form 25 the finder matched to this ending, or NoFiling

vars == <<issuer, filings, matched>>

NoFiling == [form |-> "none", day |-> 0, items |-> {}, says |-> {}]

Abs(n) == IF n < 0 THEN -n ELSE n
Of(forms) == {f \in filings : f.form \in forms}
From(S, lo, hi) == {f \in S : lo <= f.day /\ f.day <= hi}
After(S, day) == {f \in S : f.day > day}
Tagged(S, item) == {f \in S : item \in f.items}
Says(S, label) == {f \in S : label \in f.says /\ "unread" \notin f.says}

(* An 8-K, and what the code reads by the prefix "8-K" or "15-". *)
EightKs   == Of({"8-K"})
AnyEightK == Of({"8-K", "8-K/A", "8-K12B"})
Dereg     == Of({"15-12B"})
Periodic  == Of({"10-K"})
Operating == Periodic \cup Tagged(EightKs, "2.02")

(* The nearest to a day; the later of two as near: EDGAR lists the newest first. *)
Nearest(S, day) ==
    IF S = {} THEN NoFiling
    ELSE CHOOSE f \in S : \A g \in S : \/ Abs(f.day - day) < Abs(g.day - day)
                                       \/ Abs(f.day - day) = Abs(g.day - day) /\ f.day >= g.day
Latest(S) == IF S = {} THEN NoFiling ELSE CHOOSE f \in S : \A g \in S : g.day <= f.day
Earliest(S) == IF S = {} THEN NoFiling ELSE CHOOSE f \in S : \A g \in S : f.day <= g.day

-------------------------------------------------------------------------------
(* The evidence. *)

(* A tag 1.03 whose text cannot be read counts: it is the SEC's own. *)
Confirms(f) == "unread" \in f.says \/ "bankruptcy" \in f.says
Bankruptcies(before, after) ==
    {f \in Tagged(From(AnyEightK, -before, after), "1.03") : Confirms(f)}

ChangeInControl(items) == "5.01" \in items \/ ("2.01" \in items /\ items \cap {"3.01", "3.03"} # {})

(* Every confirmed bankruptcy is old, and the registrant was acquired at the end. *)
EmergedBeforeMerger ==
    /\ Bankruptcies(180, 30) = {}
    /\ \E f \in From(AnyEightK, -30, 30) : ChangeInControl(f.items)

StillOperating == After(Operating, 15) # {} /\ After(Dereg, 0) = {}

RenameOrTransfer ==
    /\ \A f \in From(AnyEightK, -30, 30) : ~ChangeInControl(f.items)
    /\ issuer.renamed \/ Says(Tagged(From(AnyEightK, -30, 30), "3.01"), "transfer") # {}
    /\ StillOperating

Notice(label, on) == Says(Tagged(From(AnyEightK, on - 30, on + 120), "3.01"), label)

Delinquent(on) == From(Of({"NT 10-K"}), on - 365, on) # {}

MergerEvidence(on, before) == From(Of({"DEFM14A"}), on - before, on + 30)

(* What the security's own shares became, in the 8-Ks around the end and the notice of
   the matched Form 25: one share each of the registrant or of a new issuer, one share
   each of a party that existed before, or anything else.  Several statements are no
   answer. *)
Statements(S) == {label \in {"for_one", "for_another", "for_part"} : Says(S, label) # {}}
OwnTexts == From(AnyEightK, -3, 10) \cup {matched}
OneForOne    == Statements(OwnTexts) \in {{"for_one"}, {"for_another"}}
TargetIssuer == Statements(OwnTexts) = {"for_one"}
StakeChanged == Statements(OwnTexts) = {"for_part"}

(* A registrant that acquired another survived its deal. *)
Survived(deals) ==
    LET texts == OwnTexts \cup UNION {From(AnyEightK, d - 3, d + 10) : d \in deals}
    IN  Statements(texts) = {} /\ Says(texts, "acquirer") # {}

-------------------------------------------------------------------------------
(* The 8-K's fingerprint. *)

Code(items) ==
    IF "1.03" \in items THEN 470
    ELSE IF {"2.01", "3.01", "5.01"} \subseteq items THEN 231
    ELSE IF {"2.01", "5.01"} \subseteq items THEN 233
    ELSE IF "5.01" \in items /\ items \cap {"3.01", "3.03"} # {} THEN 231
    ELSE IF {"2.01", "3.01"} \subseteq items THEN 200
    ELSE IF {"2.04", "3.01"} \subseteq items THEN 470
    ELSE IF "3.01" \in items THEN 570
    ELSE 0

Effective(f) == IF Confirms(f) THEN f.items ELSE f.items \ {"1.03"}

Score(items) ==
    IF {"2.01", "3.01", "5.01"} \subseteq items THEN 100
    ELSE IF {"2.01", "5.01"} \subseteq items THEN 80
    ELSE IF {"2.01", "3.01"} \subseteq items THEN 70
    ELSE IF "5.01" \in items /\ items \cap {"3.01", "3.03"} # {} THEN 65
    ELSE IF {"2.04", "3.01"} \subseteq items THEN 60
    ELSE IF "3.01" \in items THEN 40
    ELSE 0

EightKNear(on) == Nearest(From(EightKs, on - 14, on + 14), on)

(* The most telling 8-K of the months before, the latest of two as telling. *)
Backscan(on) ==
    LET told == {f \in From(EightKs, on - 120, on) : Score(f.items) > 0}
    IN  Latest({f \in told : \A g \in told : Score(g.items) <= Score(f.items)})

(* The Form 25 nearest the end when the finder matched none; one long before it counts
   only beside a merger's 8-K, or when nothing was reported since. *)
PickForm25 ==
    LET Anchored(c) ==
          LET near == EightKNear(c.day)
              f    == IF near # NoFiling THEN near ELSE Backscan(c.day)
          IN  f.items \cap {"2.01", "5.01", "3.03"} # {}
    IN  Nearest({c \in From(Of({"25-NSE"}), -1500, 45) :
                    c.day < -45 => Anchored(c) \/ From(Operating, c.day + 1, -1) = {}}, 0)

-------------------------------------------------------------------------------
(* The answer: a code, 0 for none, and the rule that gave it. *)

Answer(code, by) == [code |-> code, by |-> by]

CompletionReport(form25) ==
    LET near == From(Of({"6-K", "8-K"}), form25.day - 30, form25.day + 10)
    IN  \E f \in Says(near, "completed") : "acquirer" \notin f.says

(* No fingerprint, or a 3.01 alone: distress needs evidence of its own. *)
DefaultWithoutFingerprint(eightk, form25) ==
    LET anchor == IF form25 = NoFiling THEN 0 ELSE form25.day
        notice == IF "3.01" \in eightk.items THEN {eightk} ELSE {}
        unread == "3.01" \in eightk.items /\ "unread" \in eightk.says
    IN  IF "2.01" \in eightk.items /\ Dereg # {} THEN Answer(233, "sold")
        ELSE IF issuer.spac THEN Answer(600, "spac")
        ELSE IF Says(notice, "deficiency") # {}
             THEN Answer(IF Delinquent(anchor) THEN 580 ELSE 570, "deficiency")
        ELSE IF Notice("winding_down", anchor) # {} THEN Answer(400, "winding_down")
        ELSE IF MergerEvidence(anchor, IF unread THEN 120 ELSE 400) # {} THEN Answer(231, "proxy")
        ELSE IF Delinquent(anchor) THEN Answer(580, "delinquent")
        ELSE IF OneForOne /\ TargetIssuer THEN Answer(304, "one_for_one")
        ELSE IF form25 # NoFiling /\ CompletionReport(form25) THEN Answer(231, "completion")
        ELSE Answer(0, "no_evidence")

(* Without a Form 25: the 8-K near the end alone. *)
ByEightK ==
    LET eightk == EightKNear(0)
        code   == Code(Effective(eightk))
    IN  IF eightk = NoFiling THEN Answer(0, "no_8k")
        ELSE IF code = 570 \/ (code = 0 /\ Dereg # {})
             THEN DefaultWithoutFingerprint(eightk, NoFiling)
        ELSE Answer(code, "items")

(* A faulty one: a 3.01 alone decides. *)
FaultyClassifyFilings(form25) ==
    LET eightk == EightKNear(form25.day)
        code   == Code(Effective(eightk))
    IN  IF form25 = NoFiling THEN ByEightK
        ELSE IF code = 0 THEN DefaultWithoutFingerprint(eightk, form25)
        ELSE Answer(code, "items")

ClassifyFilings(form25) ==
    LET near   == EightKNear(form25.day)
        back   == Backscan(form25.day)
        eightk == IF Code(Effective(near)) = 0 /\ back # NoFiling THEN back ELSE near
        code   == Code(Effective(eightk))
    IN  IF form25 = NoFiling THEN ByEightK
        ELSE IF code \in {0, 570} THEN DefaultWithoutFingerprint(eightk, form25)
        ELSE Answer(code, "items")

-------------------------------------------------------------------------------
(* The end of era: the registrant reported on, half a year after the end. *)

ContinuedFilings == After(Periodic, 180) # {}

EraEightKs == From(AnyEightK \ Of({"8-K12B"}), -30, 120)
EraItems   == UNION {f.items : f \in EraEightKs}
Filed(item) == Earliest(Tagged(EraEightKs, item)).day
Successor  == From(Of({"8-K12B"}), -30, 120) # {}
Completed  == /\ "2.01" \in EraItems
              /\ From(Of({"DEFM14A", "S-4"}), -540, 30) # {} \/ From(Of({"25-NSE"}), -30, 120) # {}
SurvivedDeal == ~Successor /\ Survived({Filed(i) : i \in EraItems \cap {"5.01", "2.01"}})
BankruptBefore(day) == \E f \in Bankruptcies(30, 120) :
                          f.day = Earliest(Bankruptcies(30, 120)).day /\ f.day <= day

(* A faulty one: the era is over for a completed acquisition alone. *)
FaultyResolve ==
    IF issuer.trading \/ Successor THEN Answer(304, "successor")
    ELSE IF Completed THEN Answer(231, "completed_merger")
    ELSE Answer(304, "continued_filings")

(* Its branches, in the order they decide. *)
Resolve ==
    LET merger == IF Code(EraItems) \in {200, 231, 233} THEN Code(EraItems) ELSE 231
    IN  IF issuer.trading THEN Answer(304, "trading")
        ELSE IF Successor THEN IF StakeChanged THEN Answer(231, "successor_merger")
                                               ELSE Answer(304, "successor")
        ELSE IF "5.01" \in EraItems /\ ~SurvivedDeal THEN Answer(merger, "change_in_control")
        ELSE IF Completed /\ BankruptBefore(Filed("2.01")) THEN Answer(470, "bankrupt_sale")
        ELSE IF Completed /\ ~SurvivedDeal THEN Answer(merger, "completed_merger")
        ELSE IF Notice("deficiency", 0) # {} THEN Answer(570, "delisting_notice")
        ELSE IF Notice("winding_down", 0) # {} THEN Answer(400, "liquidation")
        ELSE Answer(304, "continued_filings")

(* The matched Form 25's own notice says the class was acquired: a merger, by its path
   or by the notice. *)
ByNotice ==
    LET by == ClassifyFilings(matched)
    IN  IF by.code \in 200..299 THEN by ELSE Answer(231, "form25_notice")

EndOfEra ==
    IF /\ Resolve.by = "continued_filings"
       /\ matched # NoFiling /\ ~issuer.trading
       /\ Says({matched}, "acquired") # {}
    THEN ByNotice ELSE Resolve

-------------------------------------------------------------------------------
(* A faulty one: a revocation filed after the removal decides its row. *)
FaultyRevoked == Of({"REVOKED"}) # {}

(* A Form 25 the security did not trade past owns its row. *)
Revoked == \E f \in Of({"REVOKED"}) :
              ~(matched # NoFiling /\ ~issuer.trading /\ f.day > matched.day)

(* It beats everything below, unless the registrant emerged and was acquired. *)
Bankrupt == Bankruptcies(540, 30) # {} /\ ~EmergedBeforeMerger

(* DelistClassifier.classify_event. *)
Classify ==
    LET form25 == IF matched # NoFiling THEN matched ELSE PickForm25
    IN  IF ~issuer.equity THEN Answer(600, "scheduled")
        ELSE IF filings = {} THEN Answer(0, "no_filings")
        ELSE IF Revoked THEN Answer(573, "revoked")
        ELSE IF Bankrupt THEN Answer(470, "bankruptcy")
        ELSE IF RenameOrTransfer THEN Answer(304, "transfer")
        ELSE IF issuer.spac /\ (form25 # NoFiling \/ Dereg # {}) THEN Answer(600, "spac")
        ELSE IF ContinuedFilings THEN EndOfEra
        ELSE ClassifyFilings(form25)

Bucket == CASE Classify.code = 0          -> "unknown"
            [] Classify.code \in 200..299 -> "merger"
            [] Classify.code \in 300..399 -> "exchange_transfer"
            [] Classify.code \in 400..499 -> "liquidation"
            [] Classify.code \in 500..599 -> "compliance_failure"
            [] Classify.code \in 600..699 -> "expiration"

-------------------------------------------------------------------------------
Issuers == [equity : BOOLEAN, spac : BOOLEAN, renamed : BOOLEAN, trading : BOOLEAN]

Init ==
    /\ issuer \in {i \in Issuers : ~i.equity => ~i.spac /\ ~i.renamed /\ ~i.trading}
    /\ filings = {} /\ matched = NoFiling

(* A filing comes on record.  Two of one form are not filed on one day.  Of a Form 25
   near the end the finder may say that it removed this security. *)
File(f) ==
    /\ f \notin filings
    /\ \A g \in filings : g.day <= f.day /\ (g.day = f.day => g.form # f.form)
    /\ Cardinality(filings) < MaxFilings
    /\ filings' = filings \cup {f}
    /\ \/ matched' = matched
       \/ f.form = "25-NSE" /\ matched = NoFiling /\ f.day >= -45 /\ matched' = f
    /\ UNCHANGED issuer

Next == \E f \in Docket : File(f)

Spec == Init /\ [][Next]_vars

-------------------------------------------------------------------------------
(* A compliance failure or a liquidation rests on a filing that says so: a revocation,
   a bankruptcy whose text confirms it or cannot be read, a notice that cites a
   deficiency or announces a wind-down, an acceleration with a notice, or a late report
   in the year before the end. A 3.01 alone is none. *)
DistressNeedsEvidence ==
    Bucket \in {"compliance_failure", "liquidation"} =>
        \/ Of({"REVOKED"}) # {}
        \/ \E f \in AnyEightK : \/ "1.03" \in f.items /\ Confirms(f)
                                \/ "3.01" \in f.items /\ Says({f}, "deficiency") # {}
                                \/ "3.01" \in f.items /\ Says({f}, "winding_down") # {}
                                \/ {"2.04", "3.01"} \subseteq f.items
        \/ Of({"NT 10-K"}) # {}

(* A revocation filed after the Form 25 that removed the security never changes what
   its ending is called. *)
OwnedRemovalDecides ==
    [][\A f \in filings' \ filings :
          f.form = "REVOKED" /\ matched # NoFiling /\ ~issuer.trading /\ f.day > matched.day
              => Classify' = Classify]_vars

(* The registrant reports on, for its debt or from the counter: a merger stays one, and
   a deficiency or a wind-down never becomes a transfer, when every 8-K on record and the
   removal lie in the window around the end, no successor registered, the registrant did
   not survive its deal or go bankrupt before it, and no rename explains the report. *)
Removed == matched # NoFiling /\ ~issuer.trading
StandsFor(by) == /\ by \in {"items", "deficiency", "winding_down"} /\ Classify.code \notin {0, 470}
                 /\ Removed /\ ~Successor /\ ~SurvivedDeal /\ ~BankruptBefore(Filed("2.01"))
                 /\ AnyEightK = From(AnyEightK, -30, 120) /\ From({matched}, -30, 120) # {}

Failures == {"compliance_failure", "liquidation"}

LateReportKeepsTheAnswer ==
    [][\A f \in filings' \ filings :
          f.form = "10-K" /\ f.day > 180 /\ StandsFor(Classify.by)
              => \/ Bucket' = "merger" \/ RenameOrTransfer'
                 \/ Bucket \in Failures /\ Bucket' \in Failures]_vars
=============================================================================
