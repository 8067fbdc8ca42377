----------------------------- MODULE PayoutsProofs -----------------------------
(* What an ending is called and what a share of it became, for every docket, every
   world and every answer of the caller.  The classifier's answer is a function of the
   filings on record, so its theorems go through its rules one after the other; those
   about values rest on what the gate says of every way it can come by a value. *)
EXTENDS Payouts, SequenceTheorems, WellFoundedInduction, TLAPS

-------------------------------------------------------------------------------
(* A set of naturals that is not empty has a least element. *)

Less == {ss \in Nat \X Nat : ss[1] < ss[2]}

LEMMA LessIsWellFounded == IsWellFoundedOn(Less, Nat)
BY NatLessThanWellFounded DEF OpToRel, Less

LEMMA LeastOf ==
    ASSUME NEW T \in SUBSET Nat, T # {}
    PROVE  \E x \in T : \A y \in T : x <= y
<1>1. PICK x \in T : \A y \in T : <<y, x>> \notin Less
  BY LessIsWellFounded, WFMin
<1>2. \A y \in T : ~(y < x)
  BY <1>1 DEF Less
<1> QED
  BY <1>2

LEMMA NearestIsOneOf ==
    ASSUME NEW S, S # {}, \A f \in S : f.day \in Int, NEW day \in Int
    PROVE  Nearest(S, day) \in S
<1> DEFINE D == {Abs(f.day - day) : f \in S}
<1>1. D \in SUBSET Nat /\ D # {}
  BY DEF Abs
<1>2. PICK m \in D : \A n \in D : m <= n
  BY <1>1, LeastOf
<1>3. \A g \in S : Abs(g.day - day) \in Nat /\ m <= Abs(g.day - day)
  BY <1>1, <1>2
<1>4. PICK f \in S : Abs(f.day - day) = m
  BY <1>2
<1>5. \A g \in S : m < Abs(g.day - day) \/ m = Abs(g.day - day)
  BY <1>1, <1>2, <1>3
<1>6. \E c \in S : \A g \in S :
          \/ Abs(c.day - day) < Abs(g.day - day)
          \/ Abs(c.day - day) = Abs(g.day - day) /\ c.day >= g.day
  <2>1. CASE \E h \in S : Abs(h.day - day) = m /\ h.day > f.day
    <3>1. PICK h \in S : Abs(h.day - day) = m /\ h.day > f.day
      BY <2>1
    <3>2. ASSUME NEW g \in S, Abs(g.day - day) = m PROVE h.day >= g.day
      BY <1>4, <3>1, <3>2 DEF Abs
    <3> QED
      BY <1>5, <3>1, <3>2
  <2>2. CASE ~\E h \in S : Abs(h.day - day) = m /\ h.day > f.day
    <3>1. ASSUME NEW g \in S, Abs(g.day - day) = m PROVE f.day >= g.day
      BY <2>2, <3>1
    <3> QED
      BY <1>4, <1>5, <3>1
  <2> QED
    BY <2>1, <2>2
<1> QED
  BY <1>6 DEF Nearest

LEMMA LatestIsOneOf ==
    ASSUME NEW hi \in Int, NEW S, S # {}, \A f \in S : f.day \in Int /\ f.day <= hi
    PROVE  Latest(S) \in S
<1> DEFINE D == {hi - f.day : f \in S}
<1>1. D \in SUBSET Nat /\ D # {}
  OBVIOUS
<1>2. PICK m \in D : \A n \in D : m <= n
  BY <1>1, LeastOf
<1>3. PICK f \in S : m = hi - f.day
  BY <1>2
<1>4. \A g \in S : g.day <= f.day
  BY <1>2, <1>3
<1> QED
  BY <1>4 DEF Latest

-------------------------------------------------------------------------------
(* What is on record is of the docket, and the matched Form 25 is on record. *)
OnRecord ==
    /\ filings \subseteq Docket
    /\ matched \in {NoFiling} \cup Of({"25-NSE"})

LEMMA DaysAreDays == OnRecord => \A f \in filings : f.day \in Int
BY ClassificationAssumption DEF OnRecord

LEMMA OfIsOnRecord == \A forms : Of(forms) \subseteq filings
BY DEF Of

LEMMA NearIsEightK ==
    ASSUME OnRecord, NEW on \in Int
    PROVE  EightKNear(on) \in EightKs \cup {NoFiling}
<1> DEFINE S == From(EightKs, on - 14, on + 14)
<1>1. S \subseteq EightKs /\ \A f \in S : f.day \in Int
  BY DaysAreDays, OfIsOnRecord DEF From, EightKs
<1>2. EightKNear(on) = Nearest(S, on)
  BY DEF EightKNear
<1> HIDE DEF S
<1>3. CASE S = {}
  BY <1>2, <1>3 DEF Nearest
<1>4. CASE S # {}
  BY <1>1, <1>2, <1>4, NearestIsOneOf
<1> QED
  BY <1>3, <1>4

LEMMA BackIsEightK ==
    ASSUME OnRecord, NEW on \in Int
    PROVE  Backscan(on) \in EightKs \cup {NoFiling}
<1> DEFINE told == {f \in From(EightKs, on - 120, on) : Score(f.items) > 0}
           S == {f \in told : \A g \in told : Score(g.items) <= Score(f.items)}
<1>1. S \subseteq EightKs /\ \A f \in S : f.day \in Int /\ f.day <= on
  BY DaysAreDays, OfIsOnRecord DEF From, EightKs
<1>2. Backscan(on) = Latest(S)
  BY DEF Backscan
<1> HIDE DEF S
<1>3. CASE S = {}
  BY <1>2, <1>3 DEF Latest
<1>4. CASE S # {}
  BY <1>1, <1>2, <1>4, LatestIsOneOf
<1> QED
  BY <1>3, <1>4

LEMMA PickedIsOnRecord ==
    ASSUME OnRecord
    PROVE  PickForm25 \in filings \cup {NoFiling}
<1> DEFINE Anchored(c) ==
             LET near == EightKNear(c.day)
                 f    == IF near # NoFiling THEN near ELSE Backscan(c.day)
             IN  f.items \cap {"2.01", "5.01", "3.03"} # {}
           S == {c \in From(Of({"25-NSE"}), -1500, 45) :
                    c.day < -45 => Anchored(c) \/ From(Operating, c.day + 1, -1) = {}}
<1>1. S \subseteq filings
  BY OfIsOnRecord DEF From
<1>2. PickForm25 = Nearest(S, 0)
  BY DEF PickForm25
<1> HIDE DEF S
<1>3. CASE S = {}
  BY <1>2, <1>3 DEF Nearest
<1>4. CASE S # {}
  BY <1>1, <1>2, <1>4, DaysAreDays, NearestIsOneOf
<1> QED
  BY <1>3, <1>4

-------------------------------------------------------------------------------
(* Where each code comes from. *)

Distressing ==
    \/ Of({"REVOKED"}) # {}
    \/ \E f \in AnyEightK : \/ "1.03" \in f.items /\ Confirms(f)
                            \/ "3.01" \in f.items /\ Says({f}, "deficiency") # {}
                            \/ "3.01" \in f.items /\ Says({f}, "winding_down") # {}
                            \/ {"2.04", "3.01"} \subseteq f.items
    \/ Of({"NT 10-K"}) # {}

(* A distress code, or one of the others the classifier gives. *)
Founded(code) ==
    \/ code \in {0, 200, 231, 233, 304, 600}
    \/ code \in {400, 470, 570, 573, 580} /\ Distressing

LEMMA NoticeIsEvidence ==
    ASSUME NEW label \in {"deficiency", "winding_down"}, NEW on, Notice(label, on) # {}
    PROVE  Distressing
BY DEF Notice, Says, Tagged, From, Distressing

LEMMA LateReportIsEvidence == ASSUME NEW on, Delinquent(on) PROVE Distressing
BY DEF Delinquent, From, Distressing

LEMMA BankruptcyIsEvidence == ASSUME NEW before, NEW after, NEW f \in Bankruptcies(before, after) PROVE Distressing
BY DEF Bankruptcies, Tagged, From, Distressing

LEMMA FingerprintIsEvidence ==
    ASSUME NEW f \in EightKs \cup {NoFiling}
    PROVE  /\ Code(Effective(f)) \in {0, 200, 231, 233, 470, 570}
           /\ Code(Effective(f)) = 470 => Distressing
<1>1. Code(Effective(f)) \in {0, 200, 231, 233, 470, 570}
  BY DEF Code
<1>2. ASSUME Code(Effective(f)) = 470 PROVE Distressing
  <2>1. "1.03" \in Effective(f) \/ {"2.04", "3.01"} \subseteq Effective(f)
    BY <1>2 DEF Code
  <2>2. Effective(f) \subseteq f.items /\ ("1.03" \in Effective(f) => Confirms(f))
    BY DEF Effective
  <2>3. f \in AnyEightK
    BY <2>1, <2>2 DEF NoFiling, EightKs, AnyEightK, Of
  <2> QED
    BY <2>1, <2>2, <2>3 DEF Distressing
<1> QED
  BY <1>1, <1>2

LEMMA DefaultIsFounded ==
    ASSUME NEW eightk \in EightKs \cup {NoFiling}, NEW form25
    PROVE  Founded(DefaultWithoutFingerprint(eightk, form25).code)
<1> DEFINE anchor == IF form25 = NoFiling THEN 0 ELSE form25.day
           notice == IF "3.01" \in eightk.items THEN {eightk} ELSE {}
<1>1. Says(notice, "deficiency") # {} => Distressing
  <2> SUFFICES ASSUME Says(notice, "deficiency") # {} PROVE Distressing
    OBVIOUS
  <2>1. "3.01" \in eightk.items /\ notice = {eightk}
    BY DEF Says
  <2>2. eightk \in AnyEightK
    BY <2>1 DEF NoFiling, EightKs, AnyEightK, Of
  <2> QED
    BY <2>1, <2>2 DEF Distressing
<1>2. Notice("winding_down", anchor) # {} => Distressing
  BY NoticeIsEvidence
<1>3. Delinquent(anchor) => Distressing
  BY LateReportIsEvidence
<1> QED
  BY <1>1, <1>2, <1>3 DEF DefaultWithoutFingerprint, Answer, Founded

LEMMA RulesAreFounded ==
    ASSUME OnRecord, NEW form25 \in filings \cup {NoFiling}
    PROVE  Founded(ClassifyFilings(form25).code)
<1>1. ASSUME NEW e \in EightKs \cup {NoFiling}, NEW on
      PROVE  Founded(IF Code(Effective(e)) \in {0, 570} THEN DefaultWithoutFingerprint(e, on).code ELSE Code(Effective(e)))
  BY FingerprintIsEvidence, DefaultIsFounded DEF Founded
<1>2. CASE form25 = NoFiling
  <2>1. EightKNear(0) \in EightKs \cup {NoFiling}
    BY NearIsEightK
  <2>2. Founded(ByEightK.code)
    BY <2>1, FingerprintIsEvidence, DefaultIsFounded DEF ByEightK, Answer, Founded
  <2> QED
    BY <1>2, <2>2 DEF ClassifyFilings
<1>3. CASE form25 # NoFiling
  <2>1. form25.day \in Int
    BY <1>3, DaysAreDays
  <2>2. /\ EightKNear(form25.day) \in EightKs \cup {NoFiling}
        /\ Backscan(form25.day) \in EightKs \cup {NoFiling}
    BY <2>1, NearIsEightK, BackIsEightK
  <2> QED
    BY <1>1, <1>3, <2>2 DEF ClassifyFilings, Answer
<1> QED
  BY <1>2, <1>3

LEMMA EraIsFounded == Founded(Resolve.code)
<1>1. ASSUME NEW day, BankruptBefore(day) PROVE Distressing
  BY <1>1, BankruptcyIsEvidence DEF BankruptBefore
<1>2. \A label \in {"deficiency", "winding_down"} : Notice(label, 0) # {} => Distressing
  BY NoticeIsEvidence
<1> QED
  BY <1>1, <1>2 DEF Resolve, Answer, Founded

LEMMA CodesAreFounded ==
    ASSUME OnRecord
    PROVE  Founded(Classify.code)
<1>1. matched \in filings \cup {NoFiling}
  BY OfIsOnRecord DEF OnRecord
<1>2. \A form25 \in filings \cup {NoFiling} : Founded(ClassifyFilings(form25).code)
  BY RulesAreFounded
<1>3. Founded(ByNotice.code)
  BY <1>1, <1>2 DEF ByNotice, Answer, Founded
<1>4. Founded(EndOfEra.code)
  BY <1>3, EraIsFounded DEF EndOfEra
<1>5. Revoked => Distressing
  BY DEF Revoked, Distressing
<1>6. Bankrupt => Distressing
  BY BankruptcyIsEvidence DEF Bankrupt
<1>7. (IF matched # NoFiling THEN matched ELSE PickForm25) \in filings \cup {NoFiling}
  BY <1>1, PickedIsOnRecord
<1> QED
  BY <1>2, <1>4, <1>5, <1>6, <1>7 DEF Classify, Answer, Founded

LEMMA BucketsAre ==
    ASSUME NEW code, Founded(code)
    PROVE  /\ BucketOf(code) = IF code = 0 THEN "unknown"
                               ELSE IF code \in {200, 231, 233} THEN "merger"
                               ELSE IF code = 304 THEN "exchange_transfer"
                               ELSE IF code \in {400, 470} THEN "liquidation"
                               ELSE IF code = 600 THEN "expiration"
                               ELSE "compliance_failure"
           /\ BucketOf(code) \in {"liquidation", "compliance_failure"} => Distressing
  BY DEF Founded, BucketOf

LEMMA RecordGrows == (Init => OnRecord) /\ (OnRecord /\ [Next]_vars => OnRecord')
<1>1. Init => OnRecord
  BY DEF Init, OnRecord
<1>2. ASSUME OnRecord, NEW f \in Docket, File(f) PROVE OnRecord'
  BY <1>2 DEF File, OnRecord, Of
<1>3. OnRecord /\ UNCHANGED vars => OnRecord'
  BY DEF OnRecord, vars, Of
<1> QED
  BY <1>1, <1>2, <1>3 DEF Next

(* The runs read the docket the classifier does: whatever a run writes or the caller
   answers, filings come on record as in Classification. *)
THEOREM RunsKeepTheRecord == PayoutsSpec => Spec
<1>1. PayoutsInit => Init
  BY DEF PayoutsInit
<1>2. [PayoutsNext]_allVars => [Next]_vars
  BY DEF PayoutsNext, Filing, Run, GivePrice, allVars, vars
<1> QED
  BY <1>1, <1>2, PTL DEF PayoutsSpec, Spec

THEOREM FilingsOnRecord == Spec => []OnRecord
BY RecordGrows, PTL DEF Spec

(* No ending is called a compliance failure or a liquidation without a filing that says
   so (the rules of classify_event and end_of_era), on any docket. *)
THEOREM DistressHasEvidence == Spec => []DistressNeedsEvidence
<1>1. OnRecord => DistressNeedsEvidence
  <2> SUFFICES ASSUME OnRecord, Bucket \in {"compliance_failure", "liquidation"}
               PROVE  Distressing
    BY DEF DistressNeedsEvidence, Distressing
  <2>1. Founded(Classify.code)
    BY CodesAreFounded
  <2>2. Bucket = BucketOf(Classify.code)
    BY DEF Bucket, BucketOf
  <2> QED
    BY <2>1, <2>2, BucketsAre
<1> QED
  BY <1>1, FilingsOnRecord, PTL

-------------------------------------------------------------------------------
(* What a filing leaves as it is that no rule but one reads. *)

(* The forms every rule but the revocation and the reports reads are on record as
   before, and nothing else is known of the registrant. *)
SameEvidence ==
    /\ UNCHANGED <<issuer, matched>>
    /\ EightKs' = EightKs /\ AnyEightK' = AnyEightK /\ Dereg' = Dereg
    /\ \A form \in {"NT 10-K", "DEFM14A", "25-NSE", "8-K12B"} : Of({form})' = Of({form})
    /\ Of({"DEFM14A", "S-4"})' = Of({"DEFM14A", "S-4"}) /\ Of({"6-K", "8-K"})' = Of({"6-K", "8-K"})

LEMMA OtherFormsStay ==
    ASSUME NEW f, f.form \in {"REVOKED", "10-K"}, File(f), matched # NoFiling
    PROVE  SameEvidence
<1>1. \A forms : f.form \notin forms => Of(forms)' = Of(forms)
  BY DEF File, Of
<1>2. EightKs' = EightKs /\ AnyEightK' = AnyEightK /\ Dereg' = Dereg
  <2>1. /\ f.form \notin {"8-K"} /\ f.form \notin {"8-K", "8-K/A", "8-K12B"} /\ f.form \notin {"15-12B"}
    OBVIOUS
  <2> QED
    BY <1>1, <2>1 DEF EightKs, AnyEightK, Dereg
<1>3. \A form \in {"NT 10-K", "DEFM14A", "25-NSE", "8-K12B"} : f.form \notin {form}
  OBVIOUS
<1>4. f.form \notin {"DEFM14A", "S-4"} /\ f.form \notin {"6-K", "8-K"}
  OBVIOUS
<1>5. UNCHANGED <<issuer, matched>>
  BY DEF File
<1> QED
  BY <1>1, <1>2, <1>3, <1>4, <1>5 DEF SameEvidence

LEMMA EvidenceStays ==
    ASSUME SameEvidence
    PROVE  /\ \A on : EightKNear(on)' = EightKNear(on) /\ Backscan(on)' = Backscan(on)
           /\ \A before, after : Bankruptcies(before, after)' = Bankruptcies(before, after)
           /\ \A label, on : Notice(label, on)' = Notice(label, on)
           /\ \A on : Delinquent(on)' = Delinquent(on)
           /\ \A on, before : MergerEvidence(on, before)' = MergerEvidence(on, before)
           /\ OneForOne' = OneForOne /\ TargetIssuer' = TargetIssuer /\ StakeChanged' = StakeChanged
           /\ \A form25 : CompletionReport(form25)' = CompletionReport(form25)
           /\ EraEightKs' = EraEightKs /\ Successor' = Successor
           /\ \A days : Survived(days)' = Survived(days)
<1> USE DEF SameEvidence
<1>1. \A on : EightKNear(on)' = EightKNear(on) /\ Backscan(on)' = Backscan(on)
  BY DEF EightKNear, Backscan
<1>2. \A before, after : Bankruptcies(before, after)' = Bankruptcies(before, after)
  BY DEF Bankruptcies
<1>3. \A label, on : Notice(label, on)' = Notice(label, on)
  BY DEF Notice
<1>4. \A on : Delinquent(on)' = Delinquent(on)
  BY ZenonT(60) DEF Delinquent
<1>5. \A on, before : MergerEvidence(on, before)' = MergerEvidence(on, before)
  BY DEF MergerEvidence
<1>6. OwnTexts' = OwnTexts
  BY DEF OwnTexts
<1>7. OneForOne' = OneForOne /\ TargetIssuer' = TargetIssuer /\ StakeChanged' = StakeChanged
  BY <1>6 DEF OneForOne, TargetIssuer, StakeChanged
<1>8. \A form25 : CompletionReport(form25)' = CompletionReport(form25)
  BY DEF CompletionReport
<1>9. EraEightKs' = EraEightKs /\ Successor' = Successor
  BY DEF EraEightKs, Successor
<1>10. \A days : Survived(days)' = Survived(days)
  BY <1>6 DEF Survived
<1> QED
  BY <1>1, <1>2, <1>3, <1>4, <1>5, <1>7, <1>8, <1>9, <1>10

LEMMA AnswersStay ==
    ASSUME SameEvidence
    PROVE  /\ \A form25 : ClassifyFilings(form25)' = ClassifyFilings(form25)
           /\ ClassifyFilings(matched)' = ClassifyFilings(matched)
           /\ Resolve' = Resolve /\ EndOfEra' = EndOfEra /\ Bankrupt' = Bankrupt
           /\ SurvivedDeal' = SurvivedDeal
<1>1. matched' = matched /\ issuer' = issuer /\ Dereg' = Dereg /\ AnyEightK' = AnyEightK
  BY DEF SameEvidence
<1>2. \A e, form25 : DefaultWithoutFingerprint(e, form25)' = DefaultWithoutFingerprint(e, form25)
  BY <1>1, EvidenceStays DEF DefaultWithoutFingerprint
<1>3. /\ \A form25 : ClassifyFilings(form25)' = ClassifyFilings(form25)
      /\ ClassifyFilings(matched)' = ClassifyFilings(matched)
  <2>1. ByEightK' = ByEightK
    BY <1>1, <1>2, EvidenceStays DEF ByEightK
  <2>2. \A form25 : ClassifyFilings(form25)' = ClassifyFilings(form25)
    BY <1>2, <2>1, EvidenceStays DEF ClassifyFilings
  <2>3. ClassifyFilings(matched)' = ClassifyFilings(matched)
    BY <1>1, <1>2, <2>1, EvidenceStays DEF ClassifyFilings
  <2> QED
    BY <2>2, <2>3
<1>4. EraItems' = EraItems
  BY EvidenceStays DEF EraItems
<1>5. \A item : Filed(item)' = Filed(item)
  BY EvidenceStays DEF Filed
<1>6. SurvivedDeal' = SurvivedDeal
  BY <1>4, <1>5, EvidenceStays DEF SurvivedDeal
<1>7. Completed' = Completed
  BY <1>4, ZenonT(60) DEF Completed, SameEvidence
<1>8. \A day : BankruptBefore(day)' = BankruptBefore(day)
  BY EvidenceStays DEF BankruptBefore
<1>9. Resolve' = Resolve
  BY <1>1, <1>4, <1>5, <1>6, <1>7, <1>8, EvidenceStays DEF Resolve
<1>10. ByNotice' = ByNotice
  BY <1>3 DEF ByNotice
<1>11. EndOfEra' = EndOfEra
  BY <1>1, <1>9, <1>10 DEF EndOfEra
<1>12. Bankrupt' = Bankrupt
  BY <1>1, EvidenceStays DEF Bankrupt, EmergedBeforeMerger
<1> QED
  BY <1>3, <1>6, <1>9, <1>11, <1>12

(* A revocation filed after the Form 25 that removed the security leaves what its ending
   is called as it was (classify_event), on any docket. *)
THEOREM RemovalDecides == Spec => OwnedRemovalDecides
<1>1. ASSUME OnRecord, NEW g \in Docket, File(g), NEW f \in filings' \ filings,
             f.form = "REVOKED", matched # NoFiling, ~issuer.trading, f.day > matched.day
      PROVE  Classify' = Classify
  <2>1. f = g /\ filings' = filings \cup {f} /\ File(f)
    BY <1>1 DEF File
  <2>2. SameEvidence
    BY <1>1, <2>1, OtherFormsStay
  <2>3. matched' = matched /\ issuer' = issuer /\ Dereg' = Dereg /\ AnyEightK' = AnyEightK
    BY <2>2 DEF SameEvidence
  <2>4. EightKs' = EightKs
    BY <2>2 DEF SameEvidence
  <2>5. Periodic' = Periodic
    BY <1>1, <2>1 DEF Periodic, Of
  <2>6. Operating' = Operating
    BY <2>4, <2>5 DEF Operating
  <2>7. Of({"REVOKED"})' = Of({"REVOKED"}) \cup {f}
    BY <1>1, <2>1 DEF Of
  <2>8. Revoked' = Revoked
    BY <1>1, <2>3, <2>7 DEF Revoked
  <2>9. RenameOrTransfer' = RenameOrTransfer /\ ContinuedFilings' = ContinuedFilings
    BY <2>3, <2>5, <2>6 DEF RenameOrTransfer, ContinuedFilings, StillOperating
  <2>10. filings # {} /\ filings' # {}
    BY <1>1, <2>1, OfIsOnRecord DEF OnRecord
  <2>11. /\ ClassifyFilings(matched)' = ClassifyFilings(matched)
         /\ EndOfEra' = EndOfEra /\ Bankrupt' = Bankrupt
    BY <2>2, AnswersStay
  <2> QED
    BY <1>1, <2>3, <2>8, <2>9, <2>10, <2>11 DEF Classify
<1>2. OnRecord /\ [Next]_vars => [\A f \in filings' \ filings :
          f.form = "REVOKED" /\ matched # NoFiling /\ ~issuer.trading /\ f.day > matched.day
              => Classify' = Classify]_vars
  BY <1>1 DEF Next
<1> QED
  BY <1>2, FilingsOnRecord, PTL DEF OwnedRemovalDecides, Spec

-------------------------------------------------------------------------------
(* The late report. *)

(* The end-of-era rules on a removal that no successor and no survival explains. *)
LEMMA EraOfARemoval ==
    ASSUME OnRecord, Removed, ~Successor, ~SurvivedDeal, ~BankruptBefore(Filed("2.01")),
           AnyEightK = From(AnyEightK, -30, 120), From({matched}, -30, 120) # {}
    PROVE  /\ \A f \in EightKs : f.items \subseteq EraItems
           /\ "5.01" \in EraItems \/ "2.01" \in EraItems => EndOfEra.code \in {200, 231, 233}
           /\ \A label \in {"deficiency", "winding_down"} : \A on :
                Notice(label, on) # {} => EndOfEra.code \in {200, 231, 233, 400, 570}
<1>1. ASSUME NEW f \in EightKs PROVE f.items \subseteq EraItems
  <2>1. f \in AnyEightK /\ f.form = "8-K"
    BY DEF EightKs, AnyEightK, Of
  <2>2. f \in From(AnyEightK, -30, 120)
    BY <2>1
  <2>3. f \in EraEightKs
    BY <2>1, <2>2 DEF EraEightKs, From, Of
  <2> QED
    BY <2>3 DEF EraItems
<1>2. matched \in Of({"25-NSE"}) /\ matched \in From(Of({"25-NSE"}), -30, 120)
  BY DEF Removed, OnRecord, From
<1>3. "2.01" \in EraItems => Completed
  BY <1>2 DEF Completed
<1>4. ~issuer.trading
  BY DEF Removed
<1>5. ASSUME Resolve.by # "continued_filings" PROVE EndOfEra = Resolve
  BY <1>5 DEF EndOfEra
<1>6. ASSUME "5.01" \in EraItems \/ "2.01" \in EraItems
      PROVE  EndOfEra.code \in {200, 231, 233}
  <2>1. Resolve.by \in {"change_in_control", "completed_merger"} /\ Resolve.code \in {200, 231, 233}
    BY <1>3, <1>4, <1>6 DEF Resolve, Answer
  <2> QED
    BY <1>5, <2>1
<1>7. ASSUME NEW label \in {"deficiency", "winding_down"}, NEW on, Notice(label, on) # {}
      PROVE  EndOfEra.code \in {200, 231, 233, 400, 570}
  <2>1. PICK f \in AnyEightK : "3.01" \in f.items /\ label \in f.says /\ "unread" \notin f.says
    BY <1>7 DEF Notice, Says, Tagged, From
  <2>2. f \in From(AnyEightK, 0 - 30, 0 + 120)
    BY <2>1
  <2>3. Notice(label, 0) # {}
    BY <2>1, <2>2 DEF Notice, Says, Tagged
  <2>4. /\ Resolve.by \in {"change_in_control", "completed_merger", "delisting_notice", "liquidation"}
        /\ Resolve.code \in {200, 231, 233, 400, 570}
    BY <1>3, <1>4, <2>3 DEF Resolve, Answer
  <2> QED
    BY <1>5, <2>4
<1> QED
  BY <1>1, <1>6, <1>7

(* What the rules answer on a matched Form 25, and the answers that stand. *)
LEMMA StandingAnswers ==
    ASSUME OnRecord, matched # NoFiling, NEW a, a = ClassifyFilings(matched)
    PROVE  /\ a.by = "items" /\ a.code # 470 =>
                  /\ a.code \in {200, 231, 233}
                  /\ \E f \in EightKs : "5.01" \in f.items \/ "2.01" \in f.items
           /\ a.by \in {"deficiency", "winding_down"} =>
                  /\ a.code \in {400, 570, 580}
                  /\ \E label \in {"deficiency", "winding_down"} : \E on : Notice(label, on) # {}
           /\ a.code \in 200..299 => a.code \in {200, 231, 233}
<1> DEFINE near == EightKNear(matched.day)
           back == Backscan(matched.day)
           eightk == IF Code(Effective(near)) = 0 /\ back # NoFiling THEN back ELSE near
           code == Code(Effective(eightk))
<1>1. matched.day \in Int /\ matched \in filings
  BY DaysAreDays, OfIsOnRecord DEF OnRecord
<1>2. eightk \in EightKs \cup {NoFiling}
  BY <1>1, NearIsEightK, BackIsEightK
<1>3. a = IF code \in {0, 570} THEN DefaultWithoutFingerprint(eightk, matched) ELSE Answer(code, "items")
  BY DEF ClassifyFilings
<1> HIDE DEF eightk
<1>4. code \in {0, 200, 231, 233, 470, 570}
  BY <1>2, FingerprintIsEvidence
<1>5. CASE code \notin {0, 570}
  <2>1. a.code = code /\ a.by = "items"
    BY <1>3, <1>5 DEF Answer
  <2>2. code \in {200, 231, 233} => "5.01" \in Effective(eightk) \/ "2.01" \in Effective(eightk)
    BY DEF Code
  <2>3. Effective(eightk) \subseteq eightk.items
    BY DEF Effective
  <2>4. code \in {200, 231, 233} => eightk \in EightKs
    BY <1>2, <2>2, <2>3 DEF NoFiling
  <2> QED
    BY <1>4, <1>5, <2>1, <2>2, <2>3, <2>4
<1>6. CASE code \in {0, 570}
  <2> DEFINE anchor == matched.day
             notice == IF "3.01" \in eightk.items THEN {eightk} ELSE {}
             d == DefaultWithoutFingerprint(eightk, matched)
  <2>1. a = d
    BY <1>3, <1>6
  <2>2. /\ d.by # "items" /\ d.code \in {0, 231, 233, 304, 400, 570, 580, 600}
        /\ d.by = "deficiency" => d.code \in {570, 580} /\ Says(notice, "deficiency") # {}
        /\ d.by = "winding_down" => d.code = 400 /\ Notice("winding_down", anchor) # {}
    BY DEF DefaultWithoutFingerprint, Answer
  <2>3. ASSUME Says(notice, "deficiency") # {} PROVE \E on : Notice("deficiency", on) # {}
    <3>1. notice = {eightk} /\ eightk \in AnyEightK /\ "3.01" \in eightk.items
      BY <1>2, <2>3 DEF Says, EightKs, AnyEightK, Of, NoFiling
    <3>2. eightk.day \in Int
      BY <3>1, DaysAreDays, OfIsOnRecord DEF AnyEightK
    <3>3. eightk \in Tagged(From(AnyEightK, eightk.day - 30, eightk.day + 120), "3.01")
      BY <3>1, <3>2 DEF Tagged, From
    <3>4. Says({eightk}, "deficiency") # {}
      BY <2>3, <3>1
    <3>5. Notice("deficiency", eightk.day) # {}
      BY <3>3, <3>4 DEF Notice, Says
    <3> QED
      BY <3>5
  <2> HIDE DEF d
  <2> QED
    BY <2>1, <2>2, <2>3
<1> QED
  BY <1>5, <1>6

LEMMA BucketsOfCodes ==
    /\ \A code \in 200..299 : BucketOf(code) = "merger"
    /\ \A code \in {400, 570, 580} : BucketOf(code) \in Failures
<1>1. ASSUME NEW code \in 200..299
      PROVE  BucketOf(code) = "merger"
  <2>1. code \in Int /\ 200 <= code /\ code <= 299
    OBVIOUS
  <2>2. code # 0 /\ code \in 200..299
    BY <2>1
  <2>3. /\ code \notin 300..399 /\ code \notin 400..499
        /\ code \notin 500..599 /\ code \notin 600..699
    BY <2>1
  <2> QED
    BY <2>2, <2>3, SMTT(30) DEF BucketOf
<1>2. \A code \in {400, 570, 580} : BucketOf(code) \in {"liquidation", "compliance_failure"}
  BY DEF BucketOf
<1> QED
  BY <1>1, <1>2 DEF Failures

LEMMA BucketIsOfTheCode == Bucket = BucketOf(Classify.code)
BY DEF Bucket, BucketOf

LEMMA EraAnswers ==
    EndOfEra.by \in {"items", "deficiency", "winding_down"} => EndOfEra.code \in 200..299
<1>1. Resolve.by \notin {"items", "deficiency", "winding_down"}
  BY DEF Resolve, Answer
<1>2. ByNotice.code \in 200..299
  BY DEF ByNotice, Answer
<1> QED
  BY <1>1, <1>2 DEF EndOfEra

(* The 10-K of a registrant that reports on leaves the answer that stands one of its kind
   (classify_event, classify_end_of_era), on any docket: the end-of-era rules that take
   over read the 8-Ks the fingerprint or the notice came from. *)
THEOREM LateReportKeeps == Spec => LateReportKeepsTheAnswer
<1> DEFINE Stays == \/ Bucket' = "merger"
                    \/ RenameOrTransfer'
                    \/ Bucket \in Failures /\ Bucket' \in Failures
<1>1. ASSUME OnRecord, NEW g \in Docket, File(g), NEW f \in filings' \ filings,
             f.form = "10-K" /\ f.day > 180 /\ StandsFor(Classify.by)
      PROVE  Stays
  <2>1. f = g /\ filings' = filings \cup {f} /\ File(f)
    BY <1>1 DEF File
  <2>2. /\ matched # NoFiling /\ ~issuer.trading /\ Removed /\ ~Successor /\ ~SurvivedDeal
        /\ ~BankruptBefore(Filed("2.01")) /\ AnyEightK = From(AnyEightK, -30, 120)
        /\ From({matched}, -30, 120) # {}
        /\ Classify.by \in {"items", "deficiency", "winding_down"} /\ Classify.code \notin {0, 470}
    BY <1>1 DEF StandsFor, Removed
  <2>3. SameEvidence
    BY <1>1, <2>1, <2>2, OtherFormsStay
  <2>4. /\ matched' = matched /\ issuer' = issuer /\ Dereg' = Dereg
        /\ EndOfEra' = EndOfEra /\ Bankrupt' = Bankrupt
    BY <2>3, AnswersStay DEF SameEvidence
  <2>5. Revoked' = Revoked
    <3>1. f.form \notin {"REVOKED"}
      BY <1>1
    <3>2. Of({"REVOKED"})' = Of({"REVOKED"})
      BY <2>1, <3>1 DEF Of
    <3> QED
      BY <2>4, <3>2 DEF Revoked
  <2>6. ContinuedFilings'
    BY <1>1, <2>1 DEF ContinuedFilings, Periodic, Of, After
  <2>7. filings # {} /\ filings' # {}
    BY <1>1, <2>1, <2>2, OfIsOnRecord DEF OnRecord
  <2>8. /\ issuer.equity /\ ~Revoked /\ ~Bankrupt /\ ~issuer.spac
        /\ Classify = IF ContinuedFilings THEN EndOfEra ELSE ClassifyFilings(matched)
    BY <2>2, <2>7 DEF Classify, Answer
  <2>9. ~RenameOrTransfer' => Classify' = EndOfEra
    BY <2>4, <2>5, <2>6, <2>7, <2>8 DEF Classify
  <2>10. Bucket' = BucketOf(Classify.code)'
    BY DEF Bucket, BucketOf
  <2>11. ~RenameOrTransfer' => Bucket' = BucketOf(EndOfEra.code)
    BY <2>9, <2>10, ZenonT(60) DEF BucketOf
  <2>12. CASE ContinuedFilings
    <3>1. EndOfEra.code \in 200..299
      BY <2>2, <2>8, <2>12, EraAnswers
    <3> QED
      BY <2>11, <3>1, BucketsOfCodes
  <2>13. CASE ~ContinuedFilings
    <3>1. Classify = ClassifyFilings(matched)
      BY <2>8, <2>13
    <3> DEFINE a == ClassifyFilings(matched)
    <3>2. /\ a.by = "items" /\ a.code # 470 => \E e \in EightKs : "5.01" \in e.items \/ "2.01" \in e.items
          /\ a.by \in {"deficiency", "winding_down"} =>
                 /\ a.code \in {400, 570, 580}
                 /\ \E label \in {"deficiency", "winding_down"} : \E on : Notice(label, on) # {}
      BY <1>1, <2>2, StandingAnswers
    <3>3. /\ \A e \in EightKs : e.items \subseteq EraItems
          /\ "5.01" \in EraItems \/ "2.01" \in EraItems => EndOfEra.code \in {200, 231, 233}
          /\ \A label \in {"deficiency", "winding_down"} : \A on :
               Notice(label, on) # {} => EndOfEra.code \in {200, 231, 233, 400, 570}
      BY <1>1, <2>2, EraOfARemoval
    <3> HIDE DEF a
    <3>4. CASE a.by = "items"
      <4>1. "5.01" \in EraItems \/ "2.01" \in EraItems
        BY <2>2, <3>1, <3>2, <3>3, <3>4 DEF a
      <4> QED
        BY <2>11, <3>3, <4>1, BucketsOfCodes
    <3>5. CASE a.by \in {"deficiency", "winding_down"}
      <4>1. EndOfEra.code \in {200, 231, 233, 400, 570} /\ a.code \in {400, 570, 580}
        BY <3>2, <3>3, <3>5
      <4>2. Bucket \in Failures
        BY <3>1, <4>1, BucketsOfCodes, BucketIsOfTheCode DEF a
      <4>3. ~RenameOrTransfer' => Bucket' = "merger" \/ Bucket' \in Failures
        BY <2>11, <4>1, BucketsOfCodes
      <4> QED
        BY <4>2, <4>3
    <3> QED
      BY <2>2, <3>1, <3>4, <3>5 DEF a
  <2> QED
    BY <2>12, <2>13
<1> HIDE DEF Stays
<1>2. OnRecord /\ [Next]_vars => [\A f \in filings' \ filings :
          f.form = "10-K" /\ f.day > 180 /\ StandsFor(Classify.by) => Stays]_vars
  BY <1>1 DEF Next
<1>3. OnRecord /\ [Next]_vars => [\A f \in filings' \ filings :
          f.form = "10-K" /\ f.day > 180 /\ StandsFor(Classify.by)
              => \/ Bucket' = "merger" \/ RenameOrTransfer'
                 \/ Bucket \in Failures /\ Bucket' \in Failures]_vars
  BY <1>2 DEF Stays
<1> QED
  BY <1>3, FilingsOnRecord, PTL DEF LateReportKeepsTheAnswer, Spec

-------------------------------------------------------------------------------
(* The gate: what it keeps comes near the close, and what it refuses it flags. *)

LEMMA ProductsAreNat ==
    /\ \A m, n \in Nat : m * n \in Nat
    /\ \A n \in Nat : 0 * n = 0
OBVIOUS

LEMMA CountedIsNat ==
    ASSUME NEW v \in Nat, NEW d \in Nat, NEW close \in Nat
    PROVE  /\ Counted(v, d, close) \in Nat /\ Counted(0, d, close) = 0
           /\ Checked(v, d, close) <=> Fits(v + Counted(v, d, close), close)
           /\ Checked(v, d, close) => v > 0
<1>1. Counted(v, d, close) \in {0, d} /\ (v = 0 => Counted(v, d, close) = 0)
  BY DEF Counted
<1>2. Counted(0, d, close) = 0
  BY DEF Counted
<1> QED
  BY <1>1, <1>2 DEF Checked, Total, Fits

(* What a reconciliation keeps: nothing, cash, shares, or both, near the close. *)
NothingKept(r) == r.cash = 0 /\ r.ratio = 0 /\ r.dividend = 0
IsKept(r) == r.cash \in Nat /\ r.ratio \in Nat /\ r.dividend \in Nat
Amount(r, price) == r.cash + r.ratio * price + r.dividend
Marked(flags) == GateFlags(flags) # {}

LEMMA MarksStay ==
    /\ \A S, T : S \subseteq T /\ Marked(S) => Marked(T)
    /\ \A S, why, name : name \in {"payout_gate_failed", "llm_gate_failed",
                                    "terms_gate_failed", "terms_gate_skipped"}
           => Marked(S \cup {Flag(name, why)})
    /\ \A v : Marked({Refused(v)})
<1>1. \A S, T : S \subseteq T => GateFlags(S) \subseteq GateFlags(T)
  BY DEF GateFlags
<1>2. ASSUME NEW S, NEW why, NEW name, name \in {"payout_gate_failed", "llm_gate_failed",
                                    "terms_gate_failed", "terms_gate_skipped"}
      PROVE  Flag(name, why) \in GateFlags(S \cup {Flag(name, why)})
  BY <1>2 DEF GateFlags, Flag
<1>3. \A v : Refused(v) \in GateFlags({Refused(v)})
  BY DEF GateFlags, Refused
<1> QED
  BY <1>1, <1>2, <1>3 DEF Marked

LEMMA RefusalIsMarked ==
    ASSUME NEW flags, NEW f, NEW r, r = Kept(0, 0, 0, "none", flags \cup {f}, 0),
           Marked(flags \cup {f})
    PROVE  NothingKept(r) /\ IsKept(r) /\ r.price = 0 /\ Marked(r.flags)
<1> DEFINE more == flags \cup {f}
<1>1. r = Kept(0, 0, 0, "none", more, 0) /\ Marked(more)
  OBVIOUS
<1> HIDE DEF more
<1>2. r.cash = 0 /\ r.ratio = 0 /\ r.price = 0 /\ r.dividend = 0 /\ r.flags = more
  BY <1>1 DEF Kept
<1> QED
  BY <1>1, <1>2 DEF NothingKept, IsKept

LEMMA ElectionSettles ==
    ASSUME NEW regex \in Nat, NEW close \in Nat \ {0}, NEW a \in Package, NEW price \in Nat,
           NEW d \in Nat, NEW flags, NEW r, r = SettleElection(regex, close, a, price, d, flags)
    PROVE  /\ IsKept(r) /\ r.price \in Nat
           /\ NothingKept(r) \/ Fits(Amount(r, r.price), close)
           /\ r.cash = 0 /\ r.ratio = 0 => Marked(r.flags)
<1> DEFINE stock == a.ratio * price
           both  == a.cash + stock
           stands == IF SameCash(regex, a.cash) THEN {} ELSE flags
<1>1. /\ a.cash \in Nat /\ a.ratio \in Nat /\ stock \in Nat /\ both \in Nat
      /\ a.ratio = 0 => stock = 0
  BY ProductsAreNat DEF Package
<1>2. \/ /\ Checked(stock, d, close)
         /\ r = Kept(0, a.ratio, price, "llm_election_stock", stands, Counted(stock, d, close))
      \/ /\ Checked(a.cash, d, close)
         /\ r = Kept(a.cash, 0, 0, "llm_election_cash", stands, Counted(a.cash, d, close))
      \/ /\ Checked(both, d, close) /\ a.cash > 0
         /\ r = Kept(a.cash, a.ratio, price, "llm_election_package", stands, Counted(both, d, close))
      \/ r = Kept(0, 0, 0, "none", flags \cup {Flag("llm_gate_failed", "")}, 0)
  BY DEF SettleElection
<1> HIDE DEF both, stands
<1>3. \A v \in Nat : /\ Counted(v, d, close) \in Nat
                     /\ Checked(v, d, close) => v > 0 /\ Fits(v + Counted(v, d, close), close)
  BY CountedIsNat
<1>4. CASE /\ Checked(stock, d, close)
           /\ r = Kept(0, a.ratio, price, "llm_election_stock", stands, Counted(stock, d, close))
  <2>1. stock > 0 /\ Fits(stock + Counted(stock, d, close), close) /\ Counted(stock, d, close) \in Nat
    BY <1>1, <1>3, <1>4
  <2>2. r.cash = 0 /\ r.ratio = a.ratio /\ r.price = price /\ r.dividend = Counted(stock, d, close)
    BY <1>4 DEF Kept
  <2>3. Amount(r, r.price) = stock + r.dividend
    BY <1>1, <2>1, <2>2 DEF Amount
  <2>4. r.ratio # 0
    BY <1>1, <2>1, <2>2
  <2> HIDE DEF stock
  <2> QED
    BY <1>1, <2>1, <2>2, <2>3, <2>4 DEF IsKept
<1>5. CASE /\ Checked(a.cash, d, close)
           /\ r = Kept(a.cash, 0, 0, "llm_election_cash", stands, Counted(a.cash, d, close))
  <2>1. a.cash > 0 /\ Fits(a.cash + Counted(a.cash, d, close), close) /\ Counted(a.cash, d, close) \in Nat
    BY <1>1, <1>3, <1>5
  <2>2. r.cash = a.cash /\ r.ratio = 0 /\ r.price = 0 /\ r.dividend = Counted(a.cash, d, close)
    BY <1>5 DEF Kept
  <2>3. Amount(r, r.price) = a.cash + r.dividend
    BY <1>1, <2>1, <2>2 DEF Amount
  <2> QED
    BY <1>1, <2>1, <2>2, <2>3 DEF IsKept
<1>6. CASE /\ Checked(both, d, close) /\ a.cash > 0
           /\ r = Kept(a.cash, a.ratio, price, "llm_election_package", stands, Counted(both, d, close))
  <2>1. Fits(both + Counted(both, d, close), close) /\ Counted(both, d, close) \in Nat
    BY <1>1, <1>3, <1>6
  <2>2. r.cash = a.cash /\ r.ratio = a.ratio /\ r.price = price /\ r.dividend = Counted(both, d, close)
    BY <1>6 DEF Kept
  <2>3. Amount(r, r.price) = both + r.dividend
    BY <1>1, <2>1, <2>2 DEF Amount, both
  <2> HIDE DEF stock
  <2> QED
    BY <1>1, <1>6, <2>1, <2>2, <2>3 DEF IsKept
<1>7. CASE r = Kept(0, 0, 0, "none", flags \cup {Flag("llm_gate_failed", "")}, 0)
  <2>1. Marked(flags \cup {Flag("llm_gate_failed", "")})
    BY MarksStay
  <2>2. NothingKept(r) /\ IsKept(r) /\ r.price = 0 /\ Marked(r.flags)
    BY <1>7, <2>1, RefusalIsMarked
  <2> HIDE DEF stock
  <2> QED
    BY <2>2
<1> QED
  BY <1>2, <1>4, <1>5, <1>6, <1>7

LEMMA CashSettles ==
    ASSUME NEW close \in Nat \ {0}, NEW a \in Package, NEW d \in Nat, NEW flags,
           NEW r, r = SettleCash(a, d, close, flags)
    PROVE  /\ IsKept(r) /\ r.ratio = 0 /\ r.price = 0
           /\ NothingKept(r) \/ Fits(Amount(r, r.price), close)
           /\ r.cash = 0 => Marked(r.flags)
<1>1. /\ a.cash \in Nat /\ Counted(a.cash, d, close) \in Nat
      /\ Checked(a.cash, d, close) => a.cash > 0 /\ Fits(a.cash + Counted(a.cash, d, close), close)
  BY CountedIsNat DEF Package
<1>2. CASE Checked(a.cash, d, close)
  <2>1. r.cash = a.cash /\ r.ratio = 0 /\ r.price = 0 /\ r.dividend = Counted(a.cash, d, close)
    BY <1>2 DEF SettleCash, Kept
  <2>2. Amount(r, r.price) = a.cash + r.dividend
    BY <1>1, <2>1 DEF Amount
  <2> QED
    BY <1>1, <1>2, <2>1, <2>2 DEF IsKept
<1>3. CASE ~Checked(a.cash, d, close)
  <2>1. Marked(flags \cup {Flag("llm_gate_failed", "")})
    BY MarksStay
  <2>2. r = Kept(0, 0, 0, "none", flags \cup {Flag("llm_gate_failed", "")}, 0)
    BY <1>3 DEF SettleCash
  <2>3. NothingKept(r) /\ IsKept(r) /\ r.price = 0 /\ Marked(r.flags)
    BY <2>1, <2>2, RefusalIsMarked
  <2> QED
    BY <2>3 DEF NothingKept
<1> QED
  BY <1>2, <1>3

(* One reconciliation against a close: near it, or nothing and, of a cash or of an
   election, a flag. Only an election's may hold shares. *)
Reconciles(r, regex, close, a) ==
    /\ IsKept(r) /\ r.price \in Nat
    /\ NothingKept(r) \/ Fits(Amount(r, r.price), close)
    /\ ~Election(a) => r.ratio = 0
    /\ /\ r.cash = 0 /\ r.ratio = 0
       /\ regex > 0 \/ (a # NoAnswer /\ (Election(a) \/ ~HasStock(a)))
       => Marked(r.flags)

LEMMA ReconcileSettles ==
    ASSUME NEW regex \in Nat, NEW close \in Nat \ {0}, NEW a \in Package, NEW price \in Nat,
           NEW d \in Nat, NEW r, r = Reconcile(regex, close, a, price, d)
    PROVE  Reconciles(r, regex, close, a)
<1> SUFFICES /\ IsKept(r) /\ r.price \in Nat
             /\ NothingKept(r) \/ Fits(Amount(r, r.price), close)
             /\ ~Election(a) => r.ratio = 0
             /\ /\ r.cash = 0 /\ r.ratio = 0
                /\ regex > 0 \/ (a # NoAnswer /\ (Election(a) \/ ~HasStock(a)))
                => Marked(r.flags)
  BY Zenon DEF Reconciles
<1> DEFINE flags == IF regex > 0 THEN {Refused(regex)} ELSE {}
           skip  == SkipReason(a)
<1>1. \/ /\ Checked(regex, d, close)
         /\ r = Kept(regex, 0, 0, "regex", {}, Counted(regex, d, close))
      \/ r = Kept(0, 0, 0, "none", flags \cup {Flag("terms_gate_skipped", skip)}, 0)
      \/ Election(a) /\ r = SettleElection(regex, close, a, price, d, flags)
      \/ ~HasStock(a) /\ ~Election(a) /\ r = SettleCash(a, d, close, flags)
      \/ /\ ~(a # NoAnswer /\ (Election(a) \/ ~HasStock(a)))
         /\ r = Kept(0, 0, 0, "none", flags, 0)
  BY DEF Reconcile
<1>2. regex > 0 => Marked(flags)
  BY MarksStay
<1> HIDE DEF flags, skip
<1>3. CASE /\ Checked(regex, d, close)
           /\ r = Kept(regex, 0, 0, "regex", {}, Counted(regex, d, close))
  <2>1. regex > 0 /\ Fits(regex + Counted(regex, d, close), close) /\ Counted(regex, d, close) \in Nat
    BY <1>3, CountedIsNat
  <2>2. r.cash = regex /\ r.ratio = 0 /\ r.price = 0 /\ r.dividend = Counted(regex, d, close)
    BY <1>3 DEF Kept
  <2>3. Amount(r, r.price) = regex + r.dividend
    BY <2>1, <2>2 DEF Amount
  <2> QED
    BY <2>1, <2>2, <2>3 DEF IsKept
<1>4. CASE r = Kept(0, 0, 0, "none", flags \cup {Flag("terms_gate_skipped", skip)}, 0)
  <2>1. Marked(flags \cup {Flag("terms_gate_skipped", skip)})
    BY MarksStay
  <2>2. NothingKept(r) /\ IsKept(r) /\ r.price = 0 /\ Marked(r.flags)
    BY <1>4, <2>1, RefusalIsMarked
  <2> QED
    BY <2>2 DEF NothingKept
<1>5. CASE Election(a) /\ r = SettleElection(regex, close, a, price, d, flags)
  BY <1>5, ElectionSettles
<1>6. CASE ~HasStock(a) /\ ~Election(a) /\ r = SettleCash(a, d, close, flags)
  BY <1>6, CashSettles
<1>7. CASE /\ ~(a # NoAnswer /\ (Election(a) \/ ~HasStock(a)))
           /\ r = Kept(0, 0, 0, "none", flags, 0)
  BY <1>2, <1>7 DEF Kept, IsKept, NothingKept
<1> QED
  BY <1>1, <1>3, <1>4, <1>5, <1>6, <1>7

(* The prices an answer's shares are tried at. *)
Tried == [how : {"ticker", "line"}, ticker : STRING, price : Nat]

LEMMA ShortSequences ==
    ASSUME NEW S, NEW x \in S, NEW y \in S
    PROVE  <<>> \in Seq(S) /\ <<x>> \in Seq(S) /\ <<x>> \o <<>> \in Seq(S)
           /\ <<x>> \o <<y>> \in Seq(S) /\ Append(<<>>, x) \in Seq(S) /\ Append(<<y>>, x) \in Seq(S)
<1>1. <<>> \in Seq(S) /\ <<x>> \in Seq(S) /\ <<y>> \in Seq(S)
  OBVIOUS
<1>2. \A s, t \in Seq(S) : s \o t \in Seq(S)
  BY ConcatProperties
<1>3. \A s \in Seq(S) : Append(s, x) \in Seq(S)
  BY AppendProperties
<1> QED
  BY <1>1, <1>2, <1>3

LEMMA PricesAreTried ==
    ASSUME NEW ticker \in STRING, NEW price \in Nat, NEW line \in Line
    PROVE  Prices(ticker, price, line) \in Seq(Tried)
<1>1. PICK own : own = [how |-> "ticker", ticker |-> ticker, price |-> price]
  OBVIOUS
<1>2. PICK its : its = [how |-> "line", ticker |-> line.symbol, price |-> line.price]
  OBVIOUS
<1>3. line.symbol \in STRING /\ line.price \in Nat
  BY DEF Line
<1>4. own \in Tried /\ its \in Tried
  <2>1. \A h \in {"ticker", "line"}, t \in STRING, p \in Nat : [how |-> h, ticker |-> t, price |-> p] \in Tried
    BY DEF Tried
  <2>2. [how |-> "ticker", ticker |-> ticker, price |-> price] \in Tried
    BY <2>1
  <2>3. [how |-> "line", ticker |-> line.symbol, price |-> line.price] \in Tried
    BY <1>3, <2>1
  <2> QED
    BY <1>1, <1>2, <2>2, <2>3
<1>5. PICK first : first = IF ticker # "" /\ price > 0 THEN <<own>> ELSE <<>>
  OBVIOUS
<1>6. first = <<>> \/ first = <<own>>
  BY <1>5
<1>7. \/ Prices(ticker, price, line) = first
      \/ Prices(ticker, price, line) = <<its>> \o first
      \/ Prices(ticker, price, line) = <<its>> \o <<>>
      \/ Prices(ticker, price, line) = Append(first, its)
  BY <1>1, <1>2, <1>5, Zenon DEF Prices
<1>8. \A s \in {first, <<its>> \o first, <<its>> \o <<>>, Append(first, its)} : s \in Seq(Tried)
  BY <1>4, <1>6, ShortSequences
<1> QED
  BY <1>7, <1>8

(* The first that passes, when one does. *)
LEMMA FirstThatPasses ==
    ASSUME NEW n \in Nat, NEW T \in SUBSET (1..n), T # {}
    PROVE  \E i \in 1..n : i \in T /\ \A j \in 1..i - 1 : j \notin T
<1>1. T \in SUBSET Nat
  OBVIOUS
<1>2. PICK i \in T : \A j \in T : i <= j
  BY <1>1, LeastOf
<1>3. \A j \in 1..i - 1 : j \notin T
  BY <1>2
<1> QED
  BY <1>2, <1>3

LEMMA ChosenIsAnAttempt ==
    ASSUME NEW n \in Nat \ {0}, NEW attempts, DOMAIN attempts = 1..n, Len(attempts) = n
    PROVE  \E i \in 1..n : Chosen(attempts) = attempts[i]
<1>1. CASE \E i \in 1..n : ByAnswer(attempts[i])
  <2> DEFINE T == {i \in 1..n : ByAnswer(attempts[i])}
  <2>1. /\ T \in SUBSET (1..n) /\ T # {}
        /\ \A i \in T : ByAnswer(attempts[i])
        /\ \A i \in 1..n : i \notin T => ~ByAnswer(attempts[i])
    BY <1>1
  <2> HIDE DEF T
  <2>2. PICK i \in 1..n : i \in T /\ \A j \in 1..i - 1 : j \notin T
    BY <2>1, FirstThatPasses
  <2>3. \A j \in 1..i - 1 : ~ByAnswer(attempts[j])
    BY <2>1, <2>2
  <2>4. \E k \in 1..Len(attempts) : ByAnswer(attempts[k]) /\ \A j \in 1..k - 1 : ~ByAnswer(attempts[j])
    <3>1. ByAnswer(attempts[i]) /\ i \in 1..Len(attempts)
      BY <2>1, <2>2
    <3> QED
      BY <2>3, <3>1
  <2>5. FirstOf(attempts, ByAnswer) \in 1..Len(attempts)
    BY <2>4, Zenon DEF FirstOf
  <2>6. FirstOf(attempts, ByAnswer) \in 1..n
    BY <2>5
  <2> QED
    BY <1>1, <2>6 DEF Chosen
<1>2. CASE ~\E i \in 1..n : ByAnswer(attempts[i])
  BY <1>2 DEF Chosen
<1> QED
  BY <1>1, <1>2

(* The first pass settles by one reconciliation, at the ticker's price or at a tried one. *)
LEMMA PassOneSettles ==
    ASSUME NEW regex, NEW close, NEW a, NEW price \in Nat, NEW tried \in Seq(Tried), NEW d
    PROVE  \E p : \E at \in Nat :
               PassOne(regex, close, a, price, tried, d)
                   = Settled(a, p, Reconcile(regex, close, a, at, d))
<1> DEFINE prices == IF Election(a) /\ tried # <<>> THEN tried
                     ELSE <<[how |-> "ticker", ticker |-> a.ticker, price |-> price]>>
           attempts == [i \in DOMAIN prices |-> Attempt(regex, close, a, prices[i], d)]
<1>1. /\ DOMAIN prices = 1..Len(prices) /\ Len(prices) \in Nat \ {0}
      /\ \A i \in DOMAIN prices : prices[i].price \in Nat
  <2>1. CASE Election(a) /\ tried # <<>>
    <3>1. prices = tried /\ Len(tried) \in Nat \ {0} /\ DOMAIN tried = 1..Len(tried)
      BY <2>1, EmptySeq, LenProperties
    <3>2. \A i \in 1..Len(tried) : tried[i].price \in Nat
      <4>1. \A e \in Tried : e.price \in Nat
        BY DEF Tried
      <4> QED
        BY <4>1, ElementOfSeq
    <3> QED
      BY <3>1, <3>2
  <2>2. CASE ~(Election(a) /\ tried # <<>>)
    <3>1. PICK e : e = [how |-> "ticker", ticker |-> a.ticker, price |-> price]
      OBVIOUS
    <3>2. e.price \in Nat
      BY <3>1
    <3>3. prices = <<e>>
      BY <2>2, <3>1, Zenon
    <3> HIDE DEF prices
    <3>4. DOMAIN prices = 1..1 /\ Len(prices) = 1 /\ prices[1] = e
      BY <3>3
    <3> QED
      BY <3>2, <3>4
  <2> QED
    BY <2>1, <2>2
<1>2. PassOne(regex, close, a, price, tried, d) = SettledBy(a, Chosen(attempts))
  BY DEF PassOne
<1> HIDE DEF prices
<1>3. DOMAIN attempts = 1..Len(prices) /\ Len(attempts) = Len(prices)
  BY <1>1
<1>4. \A i \in DOMAIN prices : attempts[i] = Attempt(regex, close, a, prices[i], d)
  OBVIOUS
<1> HIDE DEF attempts
<1>5. PICK i \in 1..Len(prices) : Chosen(attempts) = attempts[i]
  BY <1>1, <1>3, ChosenIsAnAttempt
<1>6. Chosen(attempts).kept = Reconcile(regex, close, a, prices[i].price, d)
  <2>1. attempts[i] = Attempt(regex, close, a, prices[i], d)
    BY <1>1, <1>4, <1>5
  <2> HIDE DEF attempts
  <2> QED
    BY <1>5, <2>1 DEF Attempt
<1>7. PassOne(regex, close, a, price, tried, d)
          = Settled(a, Chosen(attempts), Reconcile(regex, close, a, prices[i].price, d))
  BY <1>2, <1>6 DEF SettledBy
<1> QED
  BY <1>1, <1>7

(* The gate's answer: nothing, or a worth near the close; and what was read, but not
   kept, is flagged. *)
Worth(g) == (IF g.terms.cash > 0 THEN g.terms.cash ELSE g.cash)
                + g.terms.ratio * g.terms.price + g.dividend
Nothing(g) == g.terms = NoTerms /\ g.cash = 0 /\ g.dividend = 0
IsGated(g) == /\ g.cash \in Nat /\ g.dividend \in Nat
              /\ g.terms.ratio \in Nat /\ g.terms.price \in Nat /\ g.terms.cash \in Nat
              /\ g.terms.ratio = 0 => g.terms = NoTerms
Holds(g, close) == IsGated(g) /\ (Nothing(g) \/ Fits(Worth(g), close))
Tells(g) == g.terms = NoTerms /\ g.cash = 0 => Marked(g.flags)

LEMMA NoTermsIsZero ==
    NoTerms.cash = 0 /\ NoTerms.ratio = 0 /\ NoTerms.price = 0 /\ NoTerms.ticker = ""
BY DEF NoTerms

LEMMA SettledKeeps ==
    ASSUME NEW a, NEW p, NEW r, NEW g, g = Settled(a, p, r)
    PROVE  /\ g.cash = r.cash /\ g.dividend = r.dividend
           /\ r.ratio = 0 => g.terms = NoTerms
           /\ r.ratio # 0 => g.terms.ratio = r.ratio /\ g.terms.price = r.price
                             /\ g.terms.cash = r.cash
           /\ r.flags \subseteq g.flags
<1>1. PICK flags : flags = r.flags \cup (IF a.no_default THEN {Flag("election_no_default", "")} ELSE {})
  OBVIOUS
<1>2. r.flags \subseteq flags
  BY <1>1
<1>3. PICK terms : terms = IF r.ratio = 0 THEN NoTerms
                   ELSE [ratio |-> r.ratio, price |-> r.price, ticker |-> p.ticker, cash |-> r.cash]
  OBVIOUS
<1>4. PICK how : how = IF r.ratio = 0 THEN "" ELSE p.how
  OBVIOUS
<1>5. g = [cash |-> r.cash, source |-> r.source, dividend |-> r.dividend, terms |-> terms,
           priced_by |-> how, flags |-> flags]
  BY <1>1, <1>3, <1>4, Zenon DEF Settled
<1>6. g.cash = r.cash /\ g.dividend = r.dividend /\ g.terms = terms /\ g.flags = flags
  BY <1>5
<1> QED
  BY <1>2, <1>3, <1>6

LEMMA SettledHolds ==
    ASSUME NEW regex \in Nat, NEW close \in Nat \ {0}, NEW a \in Package, NEW at \in Nat,
           NEW d \in Nat, NEW p, NEW g, g = Settled(a, p, Reconcile(regex, close, a, at, d))
    PROVE  /\ Holds(g, close)
           /\ ~Election(a) => g.terms = NoTerms
           /\ regex > 0 \/ (a # NoAnswer /\ (Election(a) \/ ~HasStock(a))) => Tells(g)
<1>3. PICK r : r = Reconcile(regex, close, a, at, d)
  OBVIOUS
<1>4. /\ IsKept(r) /\ r.price \in Nat
      /\ NothingKept(r) \/ Fits(Amount(r, r.price), close)
      /\ ~Election(a) => r.ratio = 0
      /\ /\ r.cash = 0 /\ r.ratio = 0
         /\ regex > 0 \/ (a # NoAnswer /\ (Election(a) \/ ~HasStock(a)))
         => Marked(r.flags)
  <2>1. Reconciles(r, regex, close, a)
    BY <1>3, ReconcileSettles
  <2> QED
    BY <2>1, Zenon DEF Reconciles
<1>5. r.cash \in Nat /\ r.ratio \in Nat /\ r.dividend \in Nat
  BY <1>4 DEF IsKept
<1>6. g = Settled(a, p, r)
  BY <1>3
<1>7. /\ g.cash = r.cash /\ g.dividend = r.dividend /\ r.flags \subseteq g.flags
      /\ r.ratio = 0 => g.terms = NoTerms
      /\ r.ratio # 0 => g.terms.ratio = r.ratio /\ g.terms.price = r.price /\ g.terms.cash = r.cash
  BY <1>6, SettledKeeps
<1>9. Marked(r.flags) => Marked(g.flags)
  BY <1>7, MarksStay
<1>10. CASE r.ratio = 0
  <2>1. g.terms = NoTerms
    BY <1>7, <1>10
  <2>2. Amount(r, r.price) = r.cash + r.dividend
    BY <1>4, <1>5, <1>10, ProductsAreNat DEF Amount
  <2>3. Worth(g) = r.cash + r.dividend
    <3>1. g.terms.cash = 0 /\ g.terms.ratio = 0 /\ g.terms.price = 0
      BY <2>1, NoTermsIsZero
    <3>2. g.terms.ratio * g.terms.price = 0
      BY <3>1
    <3> QED
      BY <1>5, <1>7, <3>1, <3>2 DEF Worth
  <2> QED
    BY <1>4, <1>5, <1>7, <1>9, <1>10, <2>1, <2>2, <2>3, NoTermsIsZero
       DEF Holds, IsGated, Nothing, NothingKept, Tells
<1>11. CASE r.ratio # 0
  <2>1. g.terms.ratio = r.ratio /\ g.terms.price = r.price /\ g.terms.cash = r.cash
    BY <1>7, <1>11
  <2>2. r.ratio * r.price \in Nat
    BY <1>4, <1>5, ProductsAreNat
  <2>3. Worth(g) = Amount(r, r.price)
    BY <1>4, <1>5, <1>7, <2>1, <2>2 DEF Worth, Amount
  <2>4. g.terms # NoTerms
    BY <1>11, <2>1, NoTermsIsZero
  <2> QED
    BY <1>4, <1>5, <1>7, <1>11, <2>1, <2>3, <2>4 DEF Holds, IsGated, NothingKept, Tells
<1> QED
  BY <1>10, <1>11

LEMMA PassOneHolds ==
    ASSUME NEW regex \in Nat, NEW close \in Nat \ {0}, NEW a \in Package, NEW price \in Nat,
           NEW tried \in Seq(Tried), NEW d \in Nat,
           NEW g, g = PassOne(regex, close, a, price, tried, d)
    PROVE  /\ Holds(g, close)
           /\ ~Election(a) => g.terms = NoTerms
           /\ regex > 0 \/ (a # NoAnswer /\ (Election(a) \/ ~HasStock(a))) => Tells(g)
<1>1. PICK p : \E at \in Nat : g = Settled(a, p, Reconcile(regex, close, a, at, d))
  BY PassOneSettles
<1>2. PICK at \in Nat : g = Settled(a, p, Reconcile(regex, close, a, at, d))
  BY <1>1
<1> QED
  BY <1>2, SettledHolds

(* A pass's answer is a record, and changing one field keeps the others. *)
Shaped(g) == g = [cash |-> g.cash, source |-> g.source, dividend |-> g.dividend,
                  terms |-> g.terms, priced_by |-> g.priced_by, flags |-> g.flags]

LEMMA DroppedHolds ==
    ASSUME NEW g, Shaped(g), NEW close, Holds(g, close), g.terms = NoTerms,
           NEW h, h = g \/ h = DropPayout(g)
    PROVE  Shaped(h) /\ Holds(h, close) /\ h.terms = NoTerms
<1>1. CASE h = g
  BY <1>1
<1>2. CASE h = DropPayout(g)
  <2>1. h = [cash |-> 0, source |-> "none", dividend |-> 0, terms |-> g.terms,
             priced_by |-> g.priced_by, flags |-> g.flags]
    BY <1>2 DEF DropPayout, Shaped
  <2>2. h.cash = 0 /\ h.dividend = 0 /\ h.terms = NoTerms
    BY <2>1
  <2>3. Shaped(h)
    BY <2>1 DEF Shaped
  <2> QED
    BY <2>2, <2>3, NoTermsIsZero DEF Holds, IsGated, Nothing
<1> QED
  BY <1>1, <1>2

LEMMA FlaggedHolds ==
    ASSUME NEW h, Shaped(h), NEW close, Holds(h, close), NEW why,
           NEW name \in {"terms_gate_skipped", "terms_gate_failed"},
           NEW k, k = [h EXCEPT !.flags = @ \cup {Flag(name, why)}]
    PROVE  Shaped(k) /\ Holds(k, close) /\ Tells(k)
<1>1. PICK flags : flags = h.flags \cup {Flag(name, why)}
  OBVIOUS
<1>2. Marked(flags)
  BY <1>1, MarksStay
<1>3. k = [h EXCEPT !.flags = flags]
  BY <1>1
<1>4. k = [cash |-> h.cash, source |-> h.source, dividend |-> h.dividend, terms |-> h.terms,
           priced_by |-> h.priced_by, flags |-> flags]
  BY <1>3 DEF Shaped
<1>5. k.cash = h.cash /\ k.dividend = h.dividend /\ k.terms = h.terms /\ k.flags = flags
  BY <1>4
<1>6. Shaped(k)
  BY <1>4 DEF Shaped
<1> QED
  BY <1>2, <1>5, <1>6 DEF Holds, IsGated, Nothing, Worth, Tells

LEMMA SettledIsShaped == ASSUME NEW a, NEW p, NEW r PROVE Shaped(Settled(a, p, r))
<1>1. PICK flags : flags = r.flags \cup (IF a.no_default THEN {Flag("election_no_default", "")} ELSE {})
  OBVIOUS
<1>2. PICK terms : terms = IF r.ratio = 0 THEN NoTerms
                   ELSE [ratio |-> r.ratio, price |-> r.price, ticker |-> p.ticker, cash |-> r.cash]
  OBVIOUS
<1>3. PICK how : how = IF r.ratio = 0 THEN "" ELSE p.how
  OBVIOUS
<1>4. Settled(a, p, r) = [cash |-> r.cash, source |-> r.source, dividend |-> r.dividend,
                          terms |-> terms, priced_by |-> how, flags |-> flags]
  BY <1>1, <1>2, <1>3, Zenon DEF Settled
<1> QED
  BY <1>4 DEF Shaped

(* Cash and shares together near the close, the cash of the first pass dropped beside
   shares alone. *)
LEMMA BesideKeeps ==
    ASSUME NEW h, Shaped(h), h.cash \in Nat, NEW a, NEW b, b = BesideTerms(h, a)
    PROVE  Shaped(b) /\ b.cash \in Nat /\ (a.cash = 0 => b.cash = 0)
<1>1. CASE a.cash = 0
  <2>1. b = [h EXCEPT !.cash = 0, !.source = "none", !.dividend = 0]
    BY <1>1 DEF BesideTerms, DropPayout
  <2>2. b = [cash |-> 0, source |-> "none", dividend |-> 0, terms |-> h.terms,
             priced_by |-> h.priced_by, flags |-> h.flags]
    BY <2>1 DEF Shaped
  <2>3. b.cash = 0 /\ Shaped(b)
    BY <2>2 DEF Shaped
  <2> QED
    BY <2>3
<1>2. CASE a.cash # 0
  BY <1>2 DEF BesideTerms
<1> QED
  BY <1>1, <1>2

LEMMA TogetherHolds ==
    ASSUME NEW close \in Nat \ {0}, NEW cash \in Nat, NEW stock \in Nat, NEW d \in Nat,
           NEW v \in Nat, v = cash + stock, Checked(v, d, close),
           NEW k, k.cash \in Nat, cash = 0 => k.cash = 0, k.dividend = Counted(v, d, close),
           k.terms.ratio \in Nat \ {0}, k.terms.price \in Nat, k.terms.cash = cash,
           Worth(k) = (IF k.terms.cash > 0 THEN k.terms.cash ELSE k.cash) + stock + k.dividend
    PROVE  Holds(k, close) /\ Tells(k)
<1>1. k.dividend \in Nat /\ Fits(v + k.dividend, close)
  BY CountedIsNat
<1>2. (IF k.terms.cash > 0 THEN k.terms.cash ELSE k.cash) = cash
  OBVIOUS
<1>3. Worth(k) = v + k.dividend
  BY <1>1, <1>2
<1>4. k.terms # NoTerms
  BY NoTermsIsZero
<1> QED
  BY <1>1, <1>3, <1>4 DEF Holds, IsGated, Tells

(* The second pass. *)
LEMMA PassTwoHolds ==
    ASSUME NEW close \in Nat \ {0}, NEW a \in Package, NEW tried \in Seq(Tried), NEW d \in Nat,
           NEW g, Shaped(g), Holds(g, close), g.terms = NoTerms,
           NEW k, k = PassTwo(g, close, a, tried, d)
    PROVE  Shaped(k) /\ Holds(k, close) /\ Tells(k)
<1> DEFINE alone == a.package /\ (\/ a.deal = "election" \/ SkipReason(a) # "" \/ close = 0
                                  \/ SameCash(g.cash, a.cash))
           h     == IF alone THEN DropPayout(g) ELSE g
           Near(p) == Checked(a.cash + a.ratio * p.price, d, close)
           reason == IF a.package /\ close = 0 THEN "no_last_close"
                     ELSE IF a.ratio = 0 THEN "no_ratio"
                     ELSE IF a.ticker = "" /\ tried = <<>> THEN "no_acq_ticker"
                     ELSE IF tried = <<>> THEN "no_acq_price"
                     ELSE IF close = 0 THEN "no_last_close"
                     ELSE IF \A i \in 1..Len(tried) : ~Near(tried[i]) THEN "fail_sanity"
                     ELSE ""
           p == tried[FirstOf(tried, Near)]
<1>1. Shaped(h) /\ Holds(h, close)
  <2>1. h = g \/ h = DropPayout(g)
    OBVIOUS
  <2> HIDE DEF h
  <2> QED
    BY <2>1, DroppedHolds
<1>2. \/ \E why : \E name \in {"terms_gate_skipped", "terms_gate_failed"} :
            k = [h EXCEPT !.flags = @ \cup {Flag(name, why)}]
      \/ /\ reason = ""
         /\ \E how : \E source : \E flags :
               k = [BesideTerms(h, a) EXCEPT
                        !.terms = [ratio |-> a.ratio, price |-> p.price, ticker |-> p.ticker,
                                   cash |-> a.cash],
                        !.priced_by = how,
                        !.dividend = Counted(a.cash + a.ratio * p.price, d, close),
                        !.source = source, !.flags = flags]
  BY ZenonT(60) DEF PassTwo
<1>3. CASE \E why : \E name \in {"terms_gate_skipped", "terms_gate_failed"} :
               k = [h EXCEPT !.flags = @ \cup {Flag(name, why)}]
  <2> HIDE DEF h
  <2> QED
    BY <1>1, <1>3, FlaggedHolds
<1>4. reason = "" => a.ratio # 0 /\ \E i \in 1..Len(tried) : Near(tried[i])
  OBVIOUS
<1>5. ASSUME reason = "" PROVE p.price \in Nat /\ Near(p)
  <2> DEFINE T == {i \in 1..Len(tried) : Near(tried[i])}
  <2>1. Len(tried) \in Nat
    BY LenProperties
  <2>2. T \in SUBSET (1..Len(tried)) /\ T # {}
    BY <1>4, <1>5
  <2>3. \E i \in 1..Len(tried) : i \in T /\ \A j \in 1..i - 1 : j \notin T
    <3> HIDE DEF T
    <3> QED
      BY <2>1, <2>2, FirstThatPasses
  <2> HIDE DEF Near
  <2>4. PICK i \in 1..Len(tried) : i \in T /\ \A j \in 1..i - 1 : j \notin T
    BY <2>3
  <2>5. Near(tried[i]) /\ \A j \in 1..i - 1 : ~Near(tried[j])
    BY <2>1, <2>4
  <2>6. LET f == FirstOf(tried, Near) IN f \in 1..Len(tried) /\ Near(tried[f])
    BY <2>5, Zenon DEF FirstOf
  <2>7. \A e \in Tried : e.price \in Nat
    BY DEF Tried
  <2>8. p \in Tried
    BY <2>6, ElementOfSeq
  <2> QED
    BY <2>6, <2>7, <2>8
<1> HIDE DEF h, reason, p
<1>6. ASSUME reason = "", NEW how, NEW source, NEW flags,
             k = [BesideTerms(h, a) EXCEPT
                      !.terms = [ratio |-> a.ratio, price |-> p.price, ticker |-> p.ticker,
                                 cash |-> a.cash],
                      !.priced_by = how,
                      !.dividend = Counted(a.cash + a.ratio * p.price, d, close),
                      !.source = source, !.flags = flags]
      PROVE  Shaped(k) /\ Holds(k, close) /\ Tells(k)
  <2>1. a.ratio # 0 /\ p.price \in Nat /\ Checked(a.cash + a.ratio * p.price, d, close)
    BY <1>4, <1>5, <1>6
  <2>2. PICK terms : terms = [ratio |-> a.ratio, price |-> p.price, ticker |-> p.ticker, cash |-> a.cash]
    OBVIOUS
  <2>3. PICK c : c = Counted(a.cash + a.ratio * p.price, d, close)
    OBVIOUS
  <2>4. k = [BesideTerms(h, a) EXCEPT !.terms = terms, !.priced_by = how, !.dividend = c,
                                      !.source = source, !.flags = flags]
    BY <1>6, <2>2, <2>3
  <2>5. PICK b : b = BesideTerms(h, a)
    OBVIOUS
  <2>6. h.cash \in Nat
    BY <1>1 DEF Holds, IsGated
  <2>7. Shaped(b) /\ b.cash \in Nat /\ (a.cash = 0 => b.cash = 0)
    BY <1>1, <2>5, <2>6, BesideKeeps
  <2>8. k = [b EXCEPT !.terms = terms, !.priced_by = how, !.dividend = c,
                      !.source = source, !.flags = flags]
    BY <2>4, <2>5
  <2>9. k.cash = b.cash /\ k.dividend = c /\ k.terms = terms /\ Shaped(k)
    <3>1. DOMAIN b = {"cash", "source", "dividend", "terms", "priced_by", "flags"}
      BY <2>7 DEF Shaped
    <3>2. /\ k.cash = b.cash /\ k.dividend = c /\ k.terms = terms
          /\ k.source = source /\ k.priced_by = how /\ k.flags = flags
      BY <2>8, <3>1
    <3>3. k = [cash |-> b.cash, source |-> source, dividend |-> c, terms |-> terms,
               priced_by |-> how, flags |-> flags]
      BY <2>7, <2>8 DEF Shaped
    <3> QED
      BY <3>2, <3>3 DEF Shaped
  <2>10. terms.ratio = a.ratio /\ terms.price = p.price /\ terms.cash = a.cash
    BY <2>2
  <2>11. Holds(k, close) /\ Tells(k)
    <3>1. a.cash \in Nat /\ a.ratio \in Nat \ {0}
      BY <2>1 DEF Package
    <3>2. PICK stock : stock = a.ratio * p.price
      OBVIOUS
    <3>3. PICK v : v = a.cash + stock
      OBVIOUS
    <3>4. stock \in Nat
      BY <2>1, <3>1, <3>2, ProductsAreNat
    <3>5. v \in Nat /\ Checked(v, d, close) /\ k.dividend = Counted(v, d, close)
      BY <2>1, <2>3, <2>9, <3>1, <3>2, <3>3, <3>4
    <3>6. /\ k.cash \in Nat
          /\ a.cash = 0 => k.cash = 0
          /\ k.terms.ratio \in Nat \ {0} /\ k.terms.price \in Nat /\ k.terms.cash = a.cash
      BY <2>1, <2>7, <2>9, <2>10, <3>1
    <3>7. Worth(k) = (IF k.terms.cash > 0 THEN k.terms.cash ELSE k.cash) + stock + k.dividend
      <4>1. k.terms.ratio * k.terms.price = stock
        BY <2>9, <2>10, <3>2
      <4> QED
        BY <4>1 DEF Worth
    <3> QED
      BY <3>1, <3>3, <3>4, <3>5, <3>6, <3>7, TogetherHolds, ZenonT(60)
  <2> QED
    BY <2>9, <2>11
<1> QED
  BY <1>2, <1>3, <1>6

LEMMA GatedHolds ==
    ASSUME NEW regex \in Nat, NEW close \in Nat \ {0}, NEW a \in Package, NEW price \in Nat,
           NEW tried \in Seq(Tried), NEW d \in Nat,
           NEW g, g = Gated(regex, close, a, price, tried, d)
    PROVE  /\ Shaped(g) /\ Holds(g, close)
           /\ regex > 0 \/ a # NoAnswer => Tells(g)
<1>1. PICK one : one = PassOne(regex, close, a, price, tried, d)
  OBVIOUS
<1>2. /\ Holds(one, close)
      /\ ~Election(a) => one.terms = NoTerms
      /\ regex > 0 \/ (a # NoAnswer /\ (Election(a) \/ ~HasStock(a))) => Tells(one)
  BY <1>1, PassOneHolds, SMTT(30)
<1>3. Shaped(one)
  <2>1. PICK p : \E at \in Nat : one = Settled(a, p, Reconcile(regex, close, a, at, d))
    BY <1>1, PassOneSettles
  <2> QED
    BY <2>1, SettledIsShaped
<1>4. CASE HasStock(a) /\ ~Election(a)
  <2>1. g = PassTwo(one, close, a, tried, d)
    BY <1>1, <1>4 DEF Gated
  <2> QED
    BY <1>2, <1>3, <1>4, <2>1, PassTwoHolds
<1>5. CASE ~(HasStock(a) /\ ~Election(a))
  <2>1. g = one
    BY <1>1, <1>5 DEF Gated
  <2> QED
    BY <1>2, <1>3, <1>5, <2>1
<1> QED
  BY <1>4, <1>5

LEMMA NothingPublished == Published(NoAnswer) = NoAnswer
BY DEF Published, NoAnswer, Election, HasStock

(* What the gate keeps of a world's reads is near the close it is given; of reads the
   contract would publish it keeps something or flags why not. *)
LEMMA GateHolds ==
    ASSUME NEW w \in World, ~Given(w), NEW close \in Nat \ {0}, NEW path, NEW price \in Nat,
           NEW d \in Nat, NEW g, g = Gate(w, close, path, price, d)
    PROVE  /\ Holds(g, close)
           /\ w.regex > 0 \/ Published(w.answer) # NoAnswer => Tells(g)
<1>1. PICK regex : regex = IF w.foreign THEN 0 ELSE w.regex
  OBVIOUS
<1>2. PICK at : at = IF path = "ticker" THEN price ELSE w.price
  OBVIOUS
<1>3. PICK line : line = IF path = "line" THEN [w.line EXCEPT !.price = price] ELSE w.line
  OBVIOUS
<1>4. /\ w.regex \in Nat /\ w.foreign \in BOOLEAN /\ w.answer \in Package /\ w.price \in Nat
      /\ w.line \in Line
  BY DEF World
<1>5. regex \in Nat /\ at \in Nat
  BY <1>1, <1>2, <1>4
<1>6. line \in Line
  <2>1. [w.line EXCEPT !.price = price] \in Line
    BY <1>4 DEF Line
  <2> QED
    BY <1>3, <1>4, <2>1
<1>7. w.answer.ticker \in STRING
  BY <1>4 DEF Package
<1>8. PICK tried : tried = Prices(w.answer.ticker, at, line)
  OBVIOUS
<1>9. tried \in Seq(Tried)
  BY <1>5, <1>6, <1>7, <1>8, PricesAreTried
<1>10. PICK gated : gated = Gated(regex, close, w.answer, at, tried, d)
  OBVIOUS
<1>11. /\ Shaped(gated) /\ Holds(gated, close)
       /\ regex > 0 \/ w.answer # NoAnswer => Tells(gated)
  BY <1>4, <1>5, <1>9, <1>10, GatedHolds
<1>12. g = TellForeign(w, gated)
  BY <1>1, <1>2, <1>3, <1>8, <1>10 DEF Gate, GatePayouts, Given
<1>13. Published(w.answer) # NoAnswer => w.answer # NoAnswer
  BY NothingPublished
<1>14. CASE w.foreign /\ w.regex > 0 /\ ~(gated.cash > 0 \/ gated.terms # NoTerms \/ Given(w))
  <2>1. g = [gated EXCEPT !.flags = @ \cup {Flag("terms_gate_skipped", "foreign")}]
    BY <1>12, <1>14 DEF TellForeign
  <2> QED
    BY <1>11, <2>1, FlaggedHolds
<1>15. CASE ~(w.foreign /\ w.regex > 0 /\ ~(gated.cash > 0 \/ gated.terms # NoTerms \/ Given(w)))
  <2>1. g = gated
    BY <1>12, <1>15 DEF TellForeign
  <2>2. ASSUME w.regex > 0 \/ Published(w.answer) # NoAnswer PROVE Tells(gated)
    <3>1. CASE regex > 0 \/ w.answer # NoAnswer
      BY <1>11, <3>1
    <3>2. CASE ~(regex > 0 \/ w.answer # NoAnswer)
      <4>1. w.foreign /\ w.regex > 0
        BY <1>1, <1>4, <1>13, <2>2, <3>2
      <4>2. gated.cash > 0 \/ gated.terms # NoTerms
        BY <1>15, <4>1
      <4> QED
        BY <1>11, <4>2 DEF Tells, Holds, IsGated
    <3> QED
      BY <3>1, <3>2
  <2> QED
    BY <1>11, <2>1, <2>2
<1> QED
  BY <1>14, <1>15

-------------------------------------------------------------------------------
(* The value: the gate on the close the row holds, with the answers on record. *)

AnswersAreQuotes == \A k \in DOMAIN answers : answers[k] \in Quotes

LEMMA AnsweredIsNat == AnswersAreQuotes => \A k : Answered(k) \in Nat
BY PayoutsAssumption DEF AnswersAreQuotes, Answered

LEMMA CloseIsNat ==
    ASSUME AnswersAreQuotes, NEW w \in World
    PROVE  CloseOf(w) \in Nat
<1>1. w.close \in Nat
  BY DEF World
<1> QED
  BY <1>1, AnsweredIsNat DEF CloseOf

LEMMA TwiceGated ==
    ASSUME NEW w \in World, NEW close, NEW path, NEW price, NEW known \in Nat, NEW asked,
           NEW pass, pass = GateTwice(w, close, path, price, known, asked)
    PROVE  \E d \in Nat : pass.gate = Gate(w, close, path, price, d) /\ pass.dividend = d
<1>1. w.earlier \in Nat
  BY DEF World
<1>2. PICK one : one = [gate |-> Gate(w, close, path, price, known), dividend |-> known, asked |-> asked]
  OBVIOUS
<1>3. one.gate = Gate(w, close, path, price, known) /\ one.dividend = known
  BY <1>2
<1>4. pass = Again(w, close, path, price, one)
  BY <1>2 DEF GateTwice
<1>5. \/ pass = one \/ pass = [one EXCEPT !.asked = TRUE]
      \/ pass = [gate |-> Gate(w, close, path, price, w.earlier), dividend |-> w.earlier, asked |-> TRUE]
  BY <1>4 DEF Again
<1>6. CASE pass = one
  BY <1>3, <1>6
<1>7. CASE pass = [one EXCEPT !.asked = TRUE]
  <2>1. pass = [gate |-> Gate(w, close, path, price, known), dividend |-> known, asked |-> TRUE]
    BY <1>2, <1>7
  <2> QED
    BY <2>1
<1>8. CASE pass = [gate |-> Gate(w, close, path, price, w.earlier), dividend |-> w.earlier, asked |-> TRUE]
  BY <1>1, <1>8
<1> QED
  BY <1>5, <1>6, <1>7, <1>8

(* The gate, at some reading of the terms, made the value v of world w. *)
OfTheGate(w, v) ==
    \E path : \E price \in Nat : \E d \in Nat : \E g :
        /\ g = Gate(w, CloseOf(w), path, price, d)
        /\ v.cash = g.cash /\ v.terms = g.terms /\ v.dividend = g.dividend
        /\ g.flags \subseteq v.flags
        /\ v.statement = FALSE /\ v.raw = w.regex /\ v.llm = w.answer

(* A record of a value keeps the last pass's answer; its reads are the world's. *)
LEMMA ValueIsGated ==
    ASSUME AnswersAreQuotes, NEW w \in World, NEW v, v = ValueMerger(w)
    PROVE  OfTheGate(w, v)
<1>1. PICK one : one = FirstPass(w)
  OBVIOUS
<1>2. w.closing \in Nat
  BY DEF World
<1>3. PICK d \in Nat : one.gate = Gate(w, w.close, "", 0, d) /\ one.dividend = d
  <2>1. PICK no, none, known : no = FALSE /\ none = "" /\ known = w.closing
    OBVIOUS
  <2>2. one = GateTwice(w, w.close, none, 0, known, no) /\ known \in Nat
    BY <1>1, <1>2, <2>1, Zenon DEF FirstPass
  <2>3. PICK d \in Nat : one.gate = Gate(w, w.close, none, 0, d) /\ one.dividend = d
    BY <2>2, TwiceGated
  <2> QED
    BY <2>1, <2>3
<1>4. PICK asked : asked = Request(w, one.gate)
  OBVIOUS
<1>5. PICK path : path = AnsweredPath(w, one.gate, asked)
  OBVIOUS
<1>6. PICK price \in Nat : price = Answered(Received(asked))
  BY AnsweredIsNat
<1>7. PICK last : last = LastPass(w, one, path, price)
  OBVIOUS
<1>8. v = Record(w, one.gate, last, asked)
  BY <1>1, <1>4, <1>5, <1>6, <1>7 DEF ValueMerger, ValueAfter, ValueBy
<1>9. \E at : \E p, k \in Nat : last.gate = Gate(w, CloseOf(w), at, p, k)
  <2>1. CASE path = "" /\ CloseOf(w) = w.close
    <3>1. last = one
      BY <1>7, <2>1 DEF LastPass
    <3> QED
      BY <1>3, <2>1, <3>1
  <2>2. CASE ~(path = "" /\ CloseOf(w) = w.close)
    <3>1. PICK known, before : known = one.dividend /\ before = one.asked
      OBVIOUS
    <3>2. last = GateTwice(w, CloseOf(w), path, price, known, before) /\ known \in Nat
      BY <1>3, <1>7, <2>2, <3>1 DEF LastPass
    <3>3. PICK k \in Nat : last.gate = Gate(w, CloseOf(w), path, price, k)
      BY <3>2, TwiceGated
    <3> QED
      BY <3>3
  <2> QED
    BY <2>1, <2>2
<1>10. PICK g : g = last.gate
  OBVIOUS
<1>11. PICK flags : flags = g.flags \cup Incomplete(w, last)
  OBVIOUS
<1>12. v = [cash |-> g.cash, source |-> g.source, terms |-> g.terms, flags |-> flags,
            dividend |-> g.dividend, request |-> asked,
            own |-> [cash |-> one.gate.cash, terms |-> one.gate.terms],
            statement |-> FALSE, raw |-> w.regex, llm |-> w.answer]
  BY <1>8, <1>10, <1>11 DEF Record
<1>13. /\ v.cash = g.cash /\ v.terms = g.terms /\ v.dividend = g.dividend /\ v.flags = flags
       /\ v.statement = FALSE /\ v.raw = w.regex /\ v.llm = w.answer
  BY <1>12
<1>14. g.flags \subseteq v.flags
  BY <1>11, <1>13
<1> QED
  BY <1>9, <1>10, <1>13, <1>14 DEF OfTheGate

LEMMA MergerMethods ==
    ASSUME NEW t, t.cash \in Nat, t.ratio \in Nat, t.price \in Nat, NEW close \in Nat,
           NEW m, m = MergerOf(t, close)
    PROVE  /\ m.method \in Measured =>
                  /\ close # 0 /\ (t.cash # 0 \/ t.ratio # 0)
                  /\ m.terminal = t.cash + t.ratio * t.price
                  /\ m.method = IF t.ratio = 0 THEN "cash_only"
                                ELSE IF t.cash = 0 THEN "stock_only" ELSE "cash_plus_stock"
           /\ m.method = "assumed_par" => close # 0 /\ t.cash = 0 /\ t.ratio = 0
<1>1. PICK stock : stock = t.ratio * t.price
  OBVIOUS
<1>2. CASE t.cash = 0 /\ t.ratio = 0
  <2>1. m.method = IF close > 0 THEN "assumed_par" ELSE "abstain_no_consideration"
    BY <1>2 DEF MergerOf, Valuation
  <2> QED
    BY <1>2, <2>1 DEF Measured
<1>3. CASE ~(t.cash = 0 /\ t.ratio = 0) /\ close = 0
  <2>1. m.method = "needs_last_trade"
    BY <1>3 DEF MergerOf, Valuation
  <2> QED
    BY <2>1 DEF Measured
<1>4. CASE ~(t.cash = 0 /\ t.ratio = 0) /\ close # 0
  <2>1. /\ m.method = IF t.ratio = 0 THEN "cash_only"
                      ELSE IF t.cash = 0 THEN "stock_only" ELSE "cash_plus_stock"
        /\ m.terminal = t.cash + t.ratio * t.price
    BY <1>4 DEF MergerOf, Valuation
  <2> QED
    BY <1>4, <2>1
<1> QED
  BY <1>2, <1>3, <1>4

(* A merger's terms t as the table has them: what the gate kept, the dividend added. *)
Pays(t, g) ==
    /\ t.cash = (IF g.terms.cash > 0 THEN g.terms.cash ELSE g.cash) + g.dividend
    /\ t.ratio = g.terms.ratio /\ t.price = g.terms.price /\ t.ticker = g.terms.ticker
Weighs(t, close) ==
    /\ t.cash \in Nat /\ t.ratio \in Nat /\ t.price \in Nat
    /\ t.cash # 0 \/ t.ratio # 0 => Fits(t.cash + t.ratio * t.price, close)
Void(t, g) == t.cash = 0 /\ t.ratio = 0 => t.ticker = "" /\ g.terms = NoTerms /\ g.cash = 0

LEMMA KeptWorth ==
    ASSUME NEW g, NEW close, Holds(g, close), NEW t, Pays(t, g)
    PROVE  Weighs(t, close) /\ Void(t, g)
<1>1. PICK cash : cash = IF g.terms.cash > 0 THEN g.terms.cash ELSE g.cash
  OBVIOUS
<1>2. /\ t.cash = cash + g.dividend
      /\ t.ratio = g.terms.ratio /\ t.price = g.terms.price /\ t.ticker = g.terms.ticker
  BY <1>1 DEF Pays
<1>3. /\ g.cash \in Nat /\ g.dividend \in Nat /\ cash \in Nat
      /\ g.terms.ratio \in Nat /\ g.terms.price \in Nat /\ g.terms.cash \in Nat
      /\ g.terms.ratio = 0 => g.terms = NoTerms
      /\ Nothing(g) \/ Fits(Worth(g), close)
  BY <1>1 DEF Holds, IsGated
<1>4. Worth(g) = t.cash + t.ratio * t.price
  <2>1. PICK stock : stock = g.terms.ratio * g.terms.price
    OBVIOUS
  <2>2. stock \in Nat
    BY <1>3, <2>1, ProductsAreNat
  <2>3. Worth(g) = cash + stock + g.dividend
    BY <1>1, <2>1 DEF Worth
  <2>4. t.ratio * t.price = stock
    BY <1>2, <2>1
  <2>5. t.cash = cash + g.dividend
    BY <1>2
  <2> QED
    BY <1>3, <2>2, <2>3, <2>4, <2>5
<1>5. ASSUME Nothing(g) PROVE t.cash = 0 /\ t.ratio = 0
  <2>1. g.terms = NoTerms /\ g.cash = 0 /\ g.dividend = 0
    BY <1>5 DEF Nothing
  <2>2. g.terms.cash = 0 /\ g.terms.ratio = 0
    BY <2>1, NoTermsIsZero
  <2>3. cash = 0
    BY <1>1, <2>1, <2>2
  <2>4. t.cash = cash + g.dividend /\ t.ratio = g.terms.ratio
    BY <1>2
  <2> QED
    BY <2>1, <2>2, <2>3, <2>4
<1>6. ASSUME t.cash = 0, t.ratio = 0 PROVE t.ticker = "" /\ g.terms = NoTerms /\ g.cash = 0
  <2>1. g.terms = NoTerms
    BY <1>2, <1>3, <1>6
  <2>2. g.terms.cash = 0
    BY <2>1, NoTermsIsZero
  <2>3. g.terms.ticker = ""
    BY <2>1, NoTermsIsZero
  <2>4. cash = g.cash
    BY <1>1, <2>2
  <2>5. g.cash \in Nat /\ g.dividend \in Nat /\ g.cash + g.dividend = 0
    BY <1>2, <1>3, <1>6, <2>4
  <2>6. g.cash = 0
    BY <2>5
  <2>7. t.ticker = ""
    BY <1>2, <2>3
  <2> QED
    BY <2>1, <2>6, <2>7
<1>7. t.cash \in Nat /\ t.ratio \in Nat /\ t.price \in Nat
  BY <1>2, <1>3
<1>8. t.cash # 0 \/ t.ratio # 0 => Fits(t.cash + t.ratio * t.price, close)
  BY <1>3, <1>4, <1>5
<1> QED
  BY <1>6, <1>7, <1>8 DEF Weighs, Void

LEMMA MergerWorth ==
    ASSUME AnswersAreQuotes, NEW w \in World, ~Given(w), NEW v, v = ValueMerger(w),
           CloseOf(w) # 0, NEW t, t = TableTerms(w, v)
    PROVE  /\ Weighs(t, CloseOf(w))
           /\ t.cash = 0 /\ t.ratio = 0 =>
                  /\ t.ticker = ""
                  /\ w.regex > 0 \/ Published(w.answer) # NoAnswer => Marked(v.flags)
<1>1. PICK path : \E price \in Nat : \E d \in Nat : \E g :
          /\ g = Gate(w, CloseOf(w), path, price, d)
          /\ v.cash = g.cash /\ v.terms = g.terms /\ v.dividend = g.dividend
          /\ g.flags \subseteq v.flags
          /\ v.statement = FALSE /\ v.raw = w.regex /\ v.llm = w.answer
  <2>1. OfTheGate(w, v)
    BY ValueIsGated
  <2> QED
    BY <2>1, Zenon DEF OfTheGate
<1>2. PICK price \in Nat : \E d \in Nat : \E g :
          /\ g = Gate(w, CloseOf(w), path, price, d)
          /\ v.cash = g.cash /\ v.terms = g.terms /\ v.dividend = g.dividend
          /\ g.flags \subseteq v.flags
  BY <1>1
<1>3. PICK d \in Nat : \E g :
          /\ g = Gate(w, CloseOf(w), path, price, d)
          /\ v.cash = g.cash /\ v.terms = g.terms /\ v.dividend = g.dividend
          /\ g.flags \subseteq v.flags
  BY <1>2
<1>4. PICK g :
          /\ g = Gate(w, CloseOf(w), path, price, d)
          /\ v.cash = g.cash /\ v.terms = g.terms /\ v.dividend = g.dividend
          /\ g.flags \subseteq v.flags
  BY <1>3
<1>5. CloseOf(w) \in Nat \ {0}
  BY CloseIsNat
<1>6. /\ Holds(g, CloseOf(w))
      /\ w.regex > 0 \/ Published(w.answer) # NoAnswer => Tells(g)
  BY <1>4, <1>5, GateHolds
<1>7. PICK cash : cash = IF g.terms.cash > 0 THEN g.terms.cash ELSE g.cash
  OBVIOUS
<1>8. t = [cash |-> cash + g.dividend,
           ratio |-> g.terms.ratio, price |-> g.terms.price, ticker |-> g.terms.ticker]
  <2>1. (IF v.terms # NoTerms THEN v.terms ELSE w.caller) = g.terms
    BY <1>4 DEF Given
  <2> QED
    BY <1>4, <1>7, <2>1 DEF TableTerms
<1>9. Pays(t, g)
  BY <1>7, <1>8 DEF Pays
<1>10. Weighs(t, CloseOf(w)) /\ Void(t, g)
  BY <1>6, <1>9, KeptWorth
<1>11. Marked(g.flags) => Marked(v.flags)
  BY <1>4, MarksStay
<1>12. ASSUME t.cash = 0, t.ratio = 0, w.regex > 0 \/ Published(w.answer) # NoAnswer
       PROVE  Marked(v.flags)
  <2>1. Tells(g)
    BY <1>6, <1>12
  <2>2. g.terms = NoTerms /\ g.cash = 0
    BY <1>10, <1>12 DEF Void
  <2>3. Marked(g.flags)
    BY <2>1, <2>2 DEF Tells
  <2> QED
    BY <1>11, <2>3
<1>13. t.cash = 0 /\ t.ratio = 0 => t.ticker = ""
  BY <1>10, Zenon DEF Void
<1> QED
  BY <1>10, <1>12, <1>13, Zenon

-------------------------------------------------------------------------------
(* The row: which ending a merger's row is of, and what its stages make of the value. *)

Stands(e, code, v)   == e.code = code /\ ~e.successor /\ e.v = v
Continues(e)         == e.code = 304 /\ e.v = NoRecord
Overruled(e, code, v) == BucketOf(code) = "merger" /\ Stands(e, code, Restate(v))

LEMMA StatementDecides ==
    ASSUME NEW w, NEW code, NEW v, NEW e, e = R1(w, code, v)
    PROVE  \/ Stands(e, code, v)
           \/ BucketOf(code) = "merger" /\ Continues(e)
           \/ Overruled(e, code, v)
<1>1. \/ e = [code |-> code, successor |-> FALSE, v |-> v]
      \/ /\ BucketOf(code) = "merger"
         /\ \/ e = [code |-> 304, successor |-> TRUE, v |-> NoRecord]
            \/ e = [code |-> 304, successor |-> FALSE, v |-> NoRecord]
            \/ e = [code |-> code, successor |-> FALSE, v |-> Restate(v)]
  BY ZenonT(60) DEF R1, Ending
<1>2. ASSUME NEW value, e = [code |-> code, successor |-> FALSE, v |-> value]
      PROVE  Stands(e, code, value)
  BY <1>2 DEF Stands
<1>3. ASSUME NEW b, e = [code |-> 304, successor |-> b, v |-> NoRecord]
      PROVE  Continues(e)
  BY <1>3 DEF Continues
<1> QED
  BY <1>1, <1>2, <1>3, Zenon DEF Overruled

LEMMA TransferIsNoDrop ==
    /\ BucketOf(304) = "exchange_transfer"
    /\ BucketOf(470) = "liquidation" /\ BucketOf(552) = "compliance_failure"
BY DEF BucketOf

LEMMA DistressCalls ==
    ASSUME NEW w, NEW e, NEW d, d = Distress(w, e)
    PROVE  d.code = e.code \/ d.code \in {470, 552}
<1>1. d.code = IF /\ BucketOf(e.code) \in {"liquidation", "compliance_failure", "unknown"}
                  /\ ~e.successor
               THEN IF PlanExchange(w, e.code) /\ e.code = 0 THEN 470
                    ELSE IF e.code \in {570, 580} /\ "price_only" \in Notices(w) THEN 552
                    ELSE e.code
               ELSE e.code
  BY ZenonT(60) DEF Distress
<1> QED
  BY <1>1

LEMMA MergerIsCalledOne ==
    ASSUME NEW w, NEW code, NEW v, NEW e, e = R1(w, code, v), NEW d, d = Distress(w, e),
           BucketOf(d.code) = "merger"
    PROVE  /\ BucketOf(code) = "merger" /\ d.code = code /\ ~e.successor
           /\ e.v = v \/ e.v = Restate(v)
<1>1. d.code = e.code
  BY DistressCalls, TransferIsNoDrop
<1>2. e.code # 304
  BY <1>1, TransferIsNoDrop
<1>3. Stands(e, code, v) \/ Overruled(e, code, v)
  BY <1>2, StatementDecides DEF Continues
<1> QED
  BY <1>1, <1>3 DEF Stands, Overruled

RowOf(w, v, e, d) ==
    Row(w, ReadTerms(w, v), e, d, CloseOf(w), Decide(w, e, d, CloseOf(w)), RuleOf(w, e, d, CloseOf(w)))

Staged(w, code, v, e, d) ==
    /\ v = IF BucketOf(code) = "merger" THEN ValueMerger(w) ELSE NoRecord
    /\ e = R1(w, code, v) /\ d = Distress(w, e)

LEMMA RowIsStaged ==
    ASSUME NEW w, NEW code
    PROVE  \E v, e, d : Staged(w, code, v, e, d) /\ Written(w, code) = RowOf(w, v, e, d)
BY Zenon DEF Staged, RowOf, Written, MergerStage, StatementStage, DistressStage

(* The caller's answers move the close, but never to nothing. *)
MeetsItsClose(row, w) ==
    BucketOf(row.code) = "merger" /\ row.value.method \in Measured /\ ~Given(w) /\ ~row.statement
        => Fits(row.value.terminal, row.close)

LEMMA RecordsAreNoStatement ==
    ASSUME AnswersAreQuotes, NEW w \in World
    PROVE  ValueMerger(w).statement = FALSE
<1>1. OfTheGate(w, ValueMerger(w))
  BY ValueIsGated
<1> QED
  BY <1>1, Zenon DEF OfTheGate

LEMMA RestatedIsStatement ==
    ASSUME NEW w, NEW v, v = ValueMerger(w)
    PROVE  Restate(v).statement = TRUE
<1>1. PICK one, asked, last : v = Record(w, one, last, asked)
  BY Zenon DEF ValueMerger, ValueAfter, ValueBy
<1> QED
  BY <1>1, Zenon DEF Restate, Record

LEMMA RowMeetsItsClose ==
    ASSUME AnswersAreQuotes, NEW w \in World, NEW code, NEW row, row = Written(w, code)
    PROVE  MeetsItsClose(row, w)
<1> SUFFICES ASSUME BucketOf(row.code) = "merger", row.value.method \in Measured, ~Given(w),
                    ~row.statement
             PROVE  Fits(row.value.terminal, row.close)
  BY DEF MeetsItsClose
<1>1. PICK v, e, d : Staged(w, code, v, e, d) /\ row = RowOf(w, v, e, d)
  BY RowIsStaged
<1>2. PICK close : close = CloseOf(w)
  OBVIOUS
<1>3. /\ row.code = d.code /\ row.value = Decide(w, e, d, close) /\ row.close = close
      /\ row.statement = e.v.statement
  BY <1>1, <1>2 DEF RowOf, Row
<1>4. e = R1(w, code, v) /\ d = Distress(w, e) /\ BucketOf(d.code) = "merger"
  BY <1>1, <1>3, Zenon DEF Staged
<1>5. BucketOf(code) = "merger" /\ (e.v = v \/ e.v = Restate(v))
  BY <1>4, MergerIsCalledOne
<1>6. v = ValueMerger(w)
  BY <1>1, <1>5 DEF Staged
<1>7. e.v = v
  BY <1>3, <1>5, <1>6, RestatedIsStatement
<1>8. PICK t : t = TableTerms(w, v)
  OBVIOUS
<1>9. row.value = Valuation("pending_terms", 0) \/ row.value = MergerOf(t, close)
  <2>1. "merger" # "expiration" /\ "merger" # "exchange_transfer"
    OBVIOUS
  <2> QED
    BY <1>3, <1>4, <1>7, <1>8, <2>1 DEF Decide
<1>10. row.value = MergerOf(t, close)
  BY <1>9 DEF Valuation, Measured
<1>11. close \in Nat
  BY <1>2, CloseIsNat
<1>12. close # 0
  BY <1>10 DEF MergerOf, Valuation, Measured
<1>13. Weighs(t, close)
  BY <1>2, <1>6, <1>8, <1>12, MergerWorth
<1> HIDE DEF Measured
<1>14. t.cash \in Nat /\ t.ratio \in Nat /\ t.price \in Nat
  BY <1>13, Zenon DEF Weighs
<1>15. /\ t.cash # 0 \/ t.ratio # 0
       /\ row.value.terminal = t.cash + t.ratio * t.price
  BY <1>10, <1>11, <1>14, MergerMethods
<1>16. Fits(t.cash + t.ratio * t.price, close)
  BY <1>13, <1>15, Zenon DEF Weighs
<1> QED
  BY <1>3, <1>15, <1>16, Zenon

-------------------------------------------------------------------------------
(* The behaviours: the caller answers with quotes, and a row is written by a run alone. *)

LEMMA QuotesStay ==
    /\ PayoutsInit => AnswersAreQuotes
    /\ AnswersAreQuotes /\ [PayoutsNext]_allVars => AnswersAreQuotes'
<1>1. PayoutsInit => AnswersAreQuotes
  BY DEF PayoutsInit, AnswersAreQuotes
<1>2. ASSUME AnswersAreQuotes, NEW k, NEW price \in Quotes, GivePrice(k, price)
      PROVE  AnswersAreQuotes'
  BY <1>2 DEF AnswersAreQuotes, GivePrice
<1>3. ASSUME AnswersAreQuotes, answers' = answers
      PROVE  AnswersAreQuotes'
  BY <1>3 DEF AnswersAreQuotes
<1>4. ASSUME [PayoutsNext]_allVars
      PROVE  \/ answers' = answers
             \/ \E k : \E price \in Quotes : GivePrice(k, price)
  <2>1. CASE Filing
    BY <2>1 DEF Filing, valued
  <2>2. ASSUME NEW w, Run(w)
        PROVE  answers' = answers
    BY <2>2 DEF Run
  <2>3. CASE UNCHANGED allVars
    BY <2>3 DEF allVars
  <2> QED
    BY <1>4, <2>1, <2>2, <2>3 DEF PayoutsNext
<1> QED
  BY <1>1, <1>2, <1>3, <1>4

RowStays    == table' = table /\ reads' = reads
Asked(row)  == DOMAIN answers \subseteq row.requests
RowIsRun(w) ==
    /\ reads' = w
    /\ table' = Stopped \/ (table' = Written(w, Classify.code) /\ Asked(Written(w, Classify.code)))

LEMMA RowsAreRuns ==
    ASSUME [PayoutsNext]_allVars
    PROVE  RowStays \/ \E w \in World : RowIsRun(w)
<1>1. CASE Filing
  BY <1>1 DEF Filing, valued, RowStays
<1>2. ASSUME filings \in DOMAIN Worlds, NEW w \in Worlds[filings], Run(w)
      PROVE  w \in World /\ RowIsRun(w)
  <2>1. w \in World
    BY <1>2, PayoutsAssumption
  <2>2. reads' = w /\ table' = Publish(Written(w, Classify.code))
    BY <1>2 DEF Run
  <2> QED
    BY <2>1, <2>2, Zenon DEF Publish, RowIsRun, Asked
<1>3. ASSUME NEW k, NEW price, GivePrice(k, price)
      PROVE  RowStays
  BY <1>3 DEF GivePrice, RowStays
<1>4. CASE UNCHANGED allVars
  BY <1>4 DEF allVars, RowStays
<1> QED
  BY <1>1, <1>2, <1>3, <1>4, Zenon DEF PayoutsNext

(* The price of a merger's consideration that this library read is near the close it is
   set against (decide, payout_gate.py), whatever was read and whatever was answered: the
   value a row holds is the one its own close accepted. *)
THEOREM ValuesMeetTheirClose == PayoutsSpec => []ValueMeetsItsClose
<1>1. PayoutsInit => ValueMeetsItsClose
  BY DEF PayoutsInit, NotRun, ValueMeetsItsClose, IsMerger, IsWritten
<1>2. ASSUME AnswersAreQuotes, ValueMeetsItsClose, [PayoutsNext]_allVars
      PROVE  ValueMeetsItsClose'
  <2>1. CASE RowStays
    BY <1>2, <2>1, ZenonT(60) DEF RowStays, ValueMeetsItsClose, IsMerger, IsWritten, BucketOf, Given, Measured,
                      Fits, Miss
  <2>2. ASSUME NEW w \in World, RowIsRun(w)
        PROVE  ValueMeetsItsClose'
    <3>1. CASE table' = Stopped
      BY <3>1 DEF Stopped, ValueMeetsItsClose, IsMerger, IsWritten
    <3>2. CASE table' = Written(w, Classify.code) /\ Asked(Written(w, Classify.code))
      <4>1. MeetsItsClose(table', reads')
        BY <1>2, <2>2, <3>2, RowMeetsItsClose DEF RowIsRun
      <4> QED
        BY <4>1, Zenon DEF MeetsItsClose, ValueMeetsItsClose, IsMerger, IsWritten
    <3> QED
      BY <2>2, <3>1, <3>2 DEF RowIsRun
  <2> QED
    BY <1>2, <2>1, <2>2, RowsAreRuns
<1> QED
  BY <1>1, <1>2, QuotesStay, PTL DEF PayoutsSpec

-------------------------------------------------------------------------------
(* A merger at par is one whose terms the gate refused. *)

DoubtsPar(row, w) ==
    BucketOf(row.code) = "merger" /\ row.value.method = "assumed_par" /\ ~Given(w) /\ row.age <= 3
        => "assumed_par_after_failed_gate" \in row.doubts

(* Nothing explains a refusal of terms that have no price, near a close of the day. *)
LEMMA RefusalIsUnexplained ==
    ASSUME NEW flags, Marked(flags), NEW t, t.ticker = "", NEW terminal, NEW close,
           NEW age, ~(age > 3)
    PROVE  GateFlags(flags) # {} /\ ~UnpricedGate(flags, t, terminal, close, age)
<1>1. GateFlags(flags) # {}
  BY DEF Marked
<1>2. PICK f : f \in GateFlags(flags)
  BY <1>1
<1>3. ~NearStaleClose(f, terminal, close, age)
  BY Zenon DEF NearStaleClose
<1>4. ~(f.why = "no_acq_price" /\ t.ticker # "")
  OBVIOUS
<1> QED
  BY <1>1, <1>2, <1>3, <1>4, Zenon DEF UnpricedGate

LEMMA RestatedAtPar ==
    ASSUME NEW w, ~Given(w), NEW v, v = ValueMerger(w), NEW r, r = Restate(v),
           NEW t, t = TableTerms(w, r), t.ratio = 0
    PROVE  t.ticker = "" /\ Marked(r.flags)
<1>1. PICK price : price = Answered(Received(NewTicker))
  OBVIOUS
<1>2. PICK terms : terms = IF price = 0 THEN NoTerms
                           ELSE [ratio |-> 1, price |-> price, ticker |-> NewTicker, cash |-> 0]
  OBVIOUS
<1>3. PICK kept : kept = {f \in v.flags : f.name \notin {"payout_gate_failed", "llm_gate_failed",
                                                  "terms_gate_failed", "terms_gate_skipped"}}
  OBVIOUS
<1>4. r = [v EXCEPT !.cash = 0, !.source = "registrant_statement", !.terms = terms,
                  !.flags = kept \cup {Flag("terms_gate_skipped", "own_statement")},
                  !.dividend = 0, !.request = NewTicker,
                  !.own = [cash |-> 0, terms |-> terms], !.statement = TRUE]
  BY <1>1, <1>2, <1>3, Zenon DEF Restate
<1>5. PICK flags : flags = kept \cup {Flag("terms_gate_skipped", "own_statement")}
  OBVIOUS
<1>6. PICK one, asked, last : v = Record(w, one, last, asked)
  BY Zenon DEF ValueMerger, ValueAfter, ValueBy
<1>7. r.terms = terms /\ r.flags = flags
  BY <1>4, <1>5, <1>6 DEF Record
<1>8. t.ratio = (IF terms # NoTerms THEN terms ELSE NoTerms).ratio
      /\ t.ticker = (IF terms # NoTerms THEN terms ELSE NoTerms).ticker
  BY <1>7 DEF TableTerms, Given
<1>9. terms = NoTerms
  BY <1>2, <1>8
<1>10. t.ticker = ""
  BY <1>8, <1>9, NoTermsIsZero
<1>11. Flag("terms_gate_skipped", "own_statement") \in GateFlags(flags)
  BY <1>5 DEF GateFlags, Flag
<1> QED
  BY <1>7, <1>10, <1>11 DEF Marked

LEMMA OwnReasonsTellPar ==
    ASSUME NEW w, NEW e, NEW d, NEW value, NEW close, value.method = "assumed_par",
           GateFlags(e.v.flags) # {},
           ~UnpricedGate(e.v.flags, TableTerms(w, e.v), value.terminal, close, CloseAge(w))
    PROVE  "assumed_par_after_failed_gate" \in OwnReasons(w, e, d, value, close)
BY Zenon DEF OwnReasons

LEMMA RowDoubtsPar ==
    ASSUME AnswersAreQuotes, NEW w \in World, NEW code, NEW row, row = Written(w, code)
    PROVE  DoubtsPar(row, w)
<1> SUFFICES ASSUME BucketOf(row.code) = "merger", row.value.method = "assumed_par", ~Given(w),
                    row.age <= 3
             PROVE  "assumed_par_after_failed_gate" \in row.doubts
  BY DEF DoubtsPar
<1>1. PICK v, e, d : Staged(w, code, v, e, d) /\ row = RowOf(w, v, e, d)
  BY RowIsStaged
<1>2. PICK close : close = CloseOf(w)
  OBVIOUS
<1>3. /\ row.code = d.code /\ row.value = Decide(w, e, d, close) /\ row.age = CloseAge(w)
      /\ row.doubts = OwnReasons(w, e, d, row.value, close)
  BY <1>1, <1>2 DEF RowOf, Row
<1>4. e = R1(w, code, v) /\ d = Distress(w, e) /\ BucketOf(d.code) = "merger"
  BY <1>1, <1>3, Zenon DEF Staged
<1>5. BucketOf(code) = "merger" /\ (e.v = v \/ e.v = Restate(v))
  BY <1>4, MergerIsCalledOne
<1>6. v = ValueMerger(w)
  BY <1>1, <1>5 DEF Staged
<1>7. PICK t : t = TableTerms(w, e.v)
  OBVIOUS
<1>8. row.value = IF t.cash = 0 /\ t.ratio = 0 /\ ~TermsRead(w, e.v) THEN Valuation("pending_terms", 0)
                  ELSE MergerOf(t, close)
  <2>1. "merger" # "expiration" /\ "merger" # "exchange_transfer"
    OBVIOUS
  <2> QED
    BY <1>3, <1>4, <1>7, <2>1 DEF Decide
<1>9. row.value = MergerOf(t, close) /\ (t.cash = 0 /\ t.ratio = 0 => TermsRead(w, e.v))
  BY <1>8 DEF Valuation
<1>10. close \in Nat
  BY <1>2, CloseIsNat
<1>11. t.cash = 0 /\ t.ratio = 0 /\ close # 0
  <2>1. CASE t.cash = 0 /\ t.ratio = 0
    BY <1>9, <1>10, <2>1 DEF MergerOf, Valuation
  <2>2. CASE ~(t.cash = 0 /\ t.ratio = 0)
    BY <1>9, <2>2 DEF MergerOf, Valuation
  <2> QED
    BY <2>1, <2>2
<1>12. t.ticker = "" /\ Marked(e.v.flags)
  <2>1. CASE e.v = Restate(v)
    BY <1>6, <1>7, <1>11, <2>1, RestatedAtPar
  <2>2. CASE e.v = v
    <3>1. v.statement = FALSE /\ v.raw = w.regex /\ v.llm = w.answer
      BY <1>6, ValueIsGated, Zenon DEF OfTheGate
    <3>2. w.regex > 0 \/ Published(w.answer) # NoAnswer
      BY <1>9, <1>11, <2>2, <3>1 DEF TermsRead
    <3>3. t = TableTerms(w, v)
      BY <1>7, <2>2
    <3> QED
      BY <1>2, <1>6, <1>11, <2>2, <3>2, <3>3, MergerWorth
  <2> QED
    BY <1>5, <2>1, <2>2
<1>13. ~(CloseAge(w) > 3)
  <2>1. CloseAge(w) \in Nat
    BY AnsweredIsNat DEF CloseAge, World
  <2> QED
    BY <1>3, <2>1
<1>14. GateFlags(e.v.flags) # {} /\ ~UnpricedGate(e.v.flags, t, row.value.terminal, close, CloseAge(w))
  BY <1>12, <1>13, RefusalIsUnexplained
<1> QED
  BY <1>3, <1>7, <1>14, OwnReasonsTellPar

(* A merger written at par while something states its terms goes to review (own_reasons,
   review_triage.py): with a close of the last days, some gate's refusal is on the row and
   nothing explains it away, whichever read the terms came from. *)
THEOREM ParIsAlwaysDoubted == PayoutsSpec => []ParIsDoubted
<1>1. PayoutsInit => ParIsDoubted
  BY DEF PayoutsInit, NotRun, ParIsDoubted, IsMerger, IsWritten
<1>2. ASSUME AnswersAreQuotes, ParIsDoubted, [PayoutsNext]_allVars
      PROVE  ParIsDoubted'
  <2>1. CASE RowStays
    BY <1>2, <2>1, ZenonT(60) DEF RowStays, ParIsDoubted, IsMerger, IsWritten, BucketOf, Given
  <2>2. ASSUME NEW w \in World, RowIsRun(w)
        PROVE  ParIsDoubted'
    <3>1. CASE table' = Stopped
      BY <3>1 DEF Stopped, ParIsDoubted, IsMerger, IsWritten
    <3>2. CASE table' = Written(w, Classify.code) /\ Asked(Written(w, Classify.code))
      <4>1. DoubtsPar(table', reads')
        BY <1>2, <2>2, <3>2, RowDoubtsPar DEF RowIsRun
      <4> QED
        BY <4>1, Zenon DEF DoubtsPar, ParIsDoubted, IsMerger, IsWritten
    <3> QED
      BY <2>2, <3>1, <3>2 DEF RowIsRun
  <2> QED
    BY <1>2, <2>1, <2>2, RowsAreRuns
<1> QED
  BY <1>1, <1>2, QuotesStay, PTL DEF PayoutsSpec

-------------------------------------------------------------------------------
(* A row the caller gave: the gate reads no terms beside it, and no statement overrules it. *)

LEMMA NoAnswerReconciles ==
    ASSUME NEW regex, NEW close, NEW at, NEW d, d = 0,
           NEW r, r = Reconcile(regex, close, NoAnswer, at, d)
    PROVE  r.ratio = 0 /\ r.dividend = 0
<1>1. /\ ~Election(NoAnswer) /\ ~HasStock(NoAnswer) /\ SkipReason(NoAnswer) = ""
  <2>1. /\ NoAnswer.deal = "none" /\ NoAnswer.cash = 0 /\ NoAnswer.ratio = 0 /\ NoAnswer.value = 0
        /\ NoAnswer.extra = FALSE
    BY DEF NoAnswer
  <2>2. ~Election(NoAnswer)
    BY <2>1 DEF Election
  <2>3. ~HasStock(NoAnswer)
    BY <2>1 DEF HasStock
  <2>4. ~(0 > 0)
    OBVIOUS
  <2>5. SkipReason(NoAnswer) = ""
    BY <2>1, <2>4, Zenon DEF SkipReason
  <2> QED
    BY <2>2, <2>3, <2>5
<1>2. Counted(regex, d, close) = 0
  BY DEF Counted
<1>3. \E cash, source, flags : r = Kept(cash, 0, 0, source, flags, 0)
  <2>1. PICK flags : flags = IF regex > 0 THEN {Refused(regex)} ELSE {}
    OBVIOUS
  <2>2. r = IF close = 0
            THEN Kept(regex, 0, 0, IF regex > 0 THEN "regex" ELSE "none",
                      {Flag("no_last_close", "")}, 0)
            ELSE IF Checked(regex, d, close)
            THEN Kept(regex, 0, 0, "regex", {}, Counted(regex, d, close))
            ELSE Kept(0, 0, 0, "none", flags, 0)
    BY <1>1, <2>1, Zenon DEF Reconcile
  <2> QED
    BY <1>2, <2>2, Zenon
<1> QED
  BY <1>3 DEF Kept

LEMMA GivenIsNotReread ==
    ASSUME NEW w, Given(w), NEW close, NEW path, NEW price, NEW d,
           NEW g, g = Gate(w, close, path, price, d)
    PROVE  g.terms = NoTerms /\ g.dividend = 0
<1>1. PICK regex : regex = IF w.foreign THEN 0 ELSE w.regex
  OBVIOUS
<1>2. PICK zero \in Nat, none \in Seq(Tried) : zero = 0 /\ none = <<>>
  BY EmptySeq
<1>3. g = PassOne(regex, close, NoAnswer, zero, none, zero)
  BY <1>1, <1>2 DEF Gate, GatePayouts, TellForeign, Given
<1>4. PICK p : \E at \in Nat : g = Settled(NoAnswer, p, Reconcile(regex, close, NoAnswer, at, zero))
  <2>1. PICK a : a = NoAnswer
    OBVIOUS
  <2>2. \E p : \E at \in Nat :
            PassOne(regex, close, a, zero, none, zero)
                = Settled(a, p, Reconcile(regex, close, a, at, zero))
    BY PassOneSettles
  <2> QED
    BY <1>3, <2>1, <2>2
<1>5. PICK at \in Nat : g = Settled(NoAnswer, p, Reconcile(regex, close, NoAnswer, at, zero))
  BY <1>4
<1>6. PICK r : r = Reconcile(regex, close, NoAnswer, at, zero)
  OBVIOUS
<1>7. r.ratio = 0 /\ r.dividend = 0
  BY <1>2, <1>6, NoAnswerReconciles
<1> QED
  BY <1>5, <1>6, <1>7, SettledKeeps

LEMMA GivenIsNotOverruled ==
    ASSUME NEW w, Given(w), NEW code, NEW v, NEW e, e = R1(w, code, v)
    PROVE  e.v = v
<1>1. ReadTerms(w, v).known = FALSE
  BY DEF ReadTerms
<1>2. e = Ending(code, FALSE, v)
  BY <1>1 DEF R1
<1> QED
  BY <1>2 DEF Ending

(* The caller's terms with their cash are the table's as they are. *)
LEMMA GivenRow ==
    ASSUME AnswersAreQuotes, NEW w \in World, Given(w), w.caller.cash > 0, NEW v, v = ValueMerger(w)
    PROVE  TableTerms(w, v) = [cash |-> w.caller.cash, ratio |-> w.caller.ratio,
                               price |-> w.caller.price, ticker |-> w.caller.ticker]
<1>1. OfTheGate(w, v)
  BY ValueIsGated
<1>2. PICK path, price, d, g :
          /\ g = Gate(w, CloseOf(w), path, price, d)
          /\ v.cash = g.cash /\ v.terms = g.terms /\ v.dividend = g.dividend
  BY <1>1, Zenon DEF OfTheGate
<1>3. v.terms = NoTerms /\ v.dividend = 0
  BY <1>2, GivenIsNotReread
<1>4. w.caller.cash \in Nat
  BY DEF World, Terms
<1>5. (IF w.caller.cash > 0 THEN w.caller.cash ELSE v.cash) + v.dividend = w.caller.cash
  BY <1>3, <1>4
<1> QED
  BY <1>3, <1>5 DEF TableTerms

-------------------------------------------------------------------------------
(* The contract's rule of a merger whose terms the table holds. *)

RuleName(t) == IF t.ratio = 0 THEN "cash" ELSE IF t.cash = 0 THEN "stock" ELSE "cash_plus_stock"

LEMMA MethodRules ==
    /\ MethodRule["cash_only"] = "cash" /\ MethodRule["stock_only"] = "stock"
    /\ MethodRule["cash_plus_stock"] = "cash_plus_stock"
    /\ MethodRule["recovery_ratio"] = "recovery" /\ MethodRule["otc_print"] = "otc_print"
    /\ MethodRule["plan_stock"] = "stock"
BY DEF MethodRule

LEMMA NoAnswerSaysNothing ==
    /\ NoAnswer.extra = FALSE /\ ~(NoAnswer.value > 0)
BY DEF NoAnswer

(* The name of terms alone, nothing else said. *)
LEMMA TermsName ==
    ASSUME NEW terms, terms.cash \in Nat, terms.ratio \in Nat, terms.cash # 0 \/ terms.ratio # 0, NEW name,
           name = (IF NoAnswer.extra /\ StockLeg(NoAnswer) THEN "basket"
                   ELSE IF terms.ratio > 0 \/ NoAnswer.value > 0
                   THEN IF terms.cash > 0 THEN "cash_plus_stock" ELSE "stock"
                   ELSE "cash")
    PROVE  name = RuleName(terms) /\ terms # NoTerms
<1>1. terms # NoTerms
  BY NoTermsIsZero
<1>2. name = IF terms.ratio > 0
             THEN IF terms.cash > 0 THEN "cash_plus_stock" ELSE "stock"
             ELSE "cash"
  BY NoAnswerSaysNothing
<1>3. name = RuleName(terms)
  BY <1>2 DEF RuleName
<1> QED
  BY <1>1, <1>3

LEMMA RuleOfKept ==
    ASSUME NEW w, ~Given(w), NEW v, ~v.statement, NEW close, close > 0,
           NEW t, t = TableTerms(w, v), t.cash \in Nat, t.ratio \in Nat,
           t.cash # 0 \/ t.ratio # 0, NEW r, r = MergerRule(w, v, close)
    PROVE  r.name = RuleName(t) /\ r.cash = t.cash /\ r.ratio = t.ratio /\ r.gate # "failed"
<1>1. t.cash > 0 \/ t.ratio > 0
  OBVIOUS
<1>2. PICK name : name = (IF NoAnswer.extra /\ StockLeg(NoAnswer) THEN "basket"
                          ELSE IF t.ratio > 0 \/ NoAnswer.value > 0
                          THEN IF t.cash > 0 THEN "cash_plus_stock" ELSE "stock"
                          ELSE "cash")
  OBVIOUS
<1>3. name = RuleName(t) /\ t # NoTerms
  BY <1>2, TermsName
<1>4. r = Rule(name, t, "passed")
  BY <1>1, <1>2, <1>3, Zenon DEF MergerRule
<1> QED
  BY <1>3, <1>4 DEF Rule

LEMMA RuleOfGiven ==
    ASSUME NEW w, Given(w), NEW v, NEW close, NEW r, r = MergerRule(w, v, close),
           NEW t, t = w.caller, t.cash \in Nat, t.ratio \in Nat, t.cash > 0
    PROVE  r.name = RuleName(t) /\ r.cash = t.cash /\ r.ratio = t.ratio /\ r.gate # "failed"
<1>1. t.cash # 0 \/ t.ratio # 0
  OBVIOUS
<1>2. PICK name : name = (IF NoAnswer.extra /\ StockLeg(NoAnswer) THEN "basket"
                          ELSE IF t.ratio > 0 \/ NoAnswer.value > 0
                          THEN IF t.cash > 0 THEN "cash_plus_stock" ELSE "stock"
                          ELSE "cash")
  OBVIOUS
<1>3. name = RuleName(t) /\ t # NoTerms
  BY <1>1, <1>2, TermsName
<1>4. r = Rule(name, t, "")
  BY <1>2, <1>3, Zenon DEF MergerRule
<1>5. "" # "failed"
  OBVIOUS
<1>6. PICK gate : gate = ""
  OBVIOUS
<1>7. r = Rule(name, t, gate)
  BY <1>4, <1>6
<1>8. r.name = name /\ r.cash = t.cash /\ r.ratio = t.ratio /\ r.gate = gate
  BY <1>7 DEF Rule
<1> QED
  BY <1>3, <1>5, <1>6, <1>8, Zenon

LEMMA RuleOfStatement ==
    ASSUME NEW w, ~Given(w), NEW v, v.statement, NEW close,
           NEW r, r = MergerRule(w, v, close)
    PROVE  r.name = "stock" /\ r.cash = 0 /\ r.ratio = 1 /\ r.gate # "failed"
<1>1. PICK t : t = [NoTerms EXCEPT !.ratio = 1]
  OBVIOUS
<1>2. t.cash = 0 /\ t.ratio = 1
  BY <1>1 DEF NoTerms
<1>3. t.cash \in Nat /\ t.ratio \in Nat /\ (t.cash # 0 \/ t.ratio # 0)
  BY <1>2
<1>4. PICK name : name = (IF NoAnswer.extra /\ StockLeg(NoAnswer) THEN "basket"
                          ELSE IF t.ratio > 0 \/ NoAnswer.value > 0
                          THEN IF t.cash > 0 THEN "cash_plus_stock" ELSE "stock"
                          ELSE "cash")
  OBVIOUS
<1>5. name = RuleName(t) /\ t # NoTerms
  BY <1>3, <1>4, TermsName
<1>6. r = Rule(name, t, "skipped")
  BY <1>1, <1>4, <1>5, Zenon DEF MergerRule
<1>7. RuleName(t) = "stock"
  BY <1>2 DEF RuleName
<1> QED
  BY <1>2, <1>5, <1>6, <1>7 DEF Rule

(* The statement's own share as the table has it. *)
LEMMA RestatedTerms ==
    ASSUME AnswersAreQuotes, NEW w, ~Given(w), NEW v, v = ValueMerger(w), NEW r, r = Restate(v),
           NEW t, t = TableTerms(w, r)
    PROVE  t.cash = 0 /\ t.ratio \in {0, 1} /\ t.price \in Nat
<1>1. PICK price \in Nat : price = Answered(Received(NewTicker))
  BY AnsweredIsNat
<1>2. PICK terms : terms = IF price = 0 THEN NoTerms
                           ELSE [ratio |-> 1, price |-> price, ticker |-> NewTicker, cash |-> 0]
  OBVIOUS
<1>3. PICK flags : flags = {f \in v.flags : f.name \notin {"payout_gate_failed", "llm_gate_failed",
                                                  "terms_gate_failed", "terms_gate_skipped"}}
                            \cup {Flag("terms_gate_skipped", "own_statement")}
  OBVIOUS
<1>4. r = [v EXCEPT !.cash = 0, !.source = "registrant_statement", !.terms = terms,
                  !.flags = flags, !.dividend = 0, !.request = NewTicker,
                  !.own = [cash |-> 0, terms |-> terms], !.statement = TRUE]
  BY <1>1, <1>2, <1>3, Zenon DEF Restate
<1>5. PICK one, asked, last : v = Record(w, one, last, asked)
  BY Zenon DEF ValueMerger, ValueAfter, ValueBy
<1>6. r.terms = terms /\ r.cash = 0 /\ r.dividend = 0
  BY <1>4, <1>5 DEF Record
<1>7. terms.cash = 0 /\ terms.ratio \in {0, 1} /\ terms.price \in Nat
  BY <1>1, <1>2, NoTermsIsZero
<1>8. (IF r.terms # NoTerms THEN r.terms ELSE w.caller) = terms
  BY <1>6 DEF Given
<1> QED
  BY <1>6, <1>7, <1>8 DEF TableTerms

LEMMA MergerFollows ==
    ASSUME AnswersAreQuotes, NEW w \in World, Given(w) => w.caller.cash > 0,
           NEW code, NEW v, v = ValueMerger(w), NEW e, e = R1(w, code, v),
           NEW d, d = Distress(w, e), BucketOf(d.code) = "merger",
           NEW close, close = CloseOf(w), NEW t, t = TableTerms(w, e.v),
           NEW value, value = MergerOf(t, close), value.method \in Measured,
           NEW r, r = MergerRule(w, e.v, close)
    PROVE  /\ r.name = MethodRule[value.method] /\ r.gate # "failed"
           /\ value.terminal = r.cash + r.ratio * t.price
<1>1. close \in Nat
  BY CloseIsNat
<1>2. close # 0
  BY DEF MergerOf, Valuation, Measured
<1> HIDE DEF Measured
<1>3. e.v = v \/ e.v = Restate(v)
  BY MergerIsCalledOne
<1>4. ~v.statement
  BY RecordsAreNoStatement
<1> DEFINE IsRuled ==
      /\ t.cash \in Nat /\ t.ratio \in Nat /\ t.price \in Nat
      /\ t.cash # 0 \/ t.ratio # 0
         => r.name = RuleName(t) /\ r.cash = t.cash /\ r.ratio = t.ratio /\ r.gate # "failed"
<1>5. ASSUME Given(w) PROVE IsRuled
  <2>1. e.v = v
    BY <1>5, GivenIsNotOverruled
  <2>2. t = [cash |-> w.caller.cash, ratio |-> w.caller.ratio,
             price |-> w.caller.price, ticker |-> w.caller.ticker]
    BY <1>5, <2>1, GivenRow
  <2>3. PICK c : c = w.caller
    OBVIOUS
  <2>4. c.cash \in Nat /\ c.ratio \in Nat /\ c.price \in Nat /\ c.cash > 0
    BY <1>5, <2>3 DEF World, Terms
  <2>5. r.name = RuleName(c) /\ r.cash = c.cash /\ r.ratio = c.ratio /\ r.gate # "failed"
    BY <1>5, <2>3, <2>4, RuleOfGiven
  <2>6. t.cash = c.cash /\ t.ratio = c.ratio /\ t.price = c.price
    BY <2>2, <2>3
  <2>7. RuleName(c) = RuleName(t)
    BY <2>6 DEF RuleName
  <2> QED
    BY <2>4, <2>5, <2>6, <2>7, Zenon
<1>6. ASSUME ~Given(w) /\ e.v = v PROVE IsRuled
  <2>1. t = TableTerms(w, v) /\ r = MergerRule(w, v, close)
    BY <1>6
  <2>2. Weighs(t, close)
    BY <1>2, <1>6, <2>1, MergerWorth
  <2>3. t.cash \in Nat /\ t.ratio \in Nat /\ t.price \in Nat
    BY <2>2, Zenon DEF Weighs
  <2>4. close > 0
    BY <1>1, <1>2
  <2>5. t.cash # 0 \/ t.ratio # 0
         => r.name = RuleName(t) /\ r.cash = t.cash /\ r.ratio = t.ratio /\ r.gate # "failed"
    BY <1>4, <1>6, <2>1, <2>3, <2>4, RuleOfKept
  <2> QED
    BY <2>3, <2>5, Zenon
<1>7. ASSUME ~Given(w) /\ e.v = Restate(v) PROVE IsRuled
  <2>1. t.cash = 0 /\ t.ratio \in {0, 1} /\ t.price \in Nat
    BY <1>7, RestatedTerms
  <2>2. PICK s : s = e.v
    OBVIOUS
  <2>3. s.statement
    BY <1>7, <2>2, RestatedIsStatement
  <2>4. r.name = "stock" /\ r.cash = 0 /\ r.ratio = 1 /\ r.gate # "failed"
    BY <1>7, <2>2, <2>3, RuleOfStatement
  <2>5. t.cash # 0 \/ t.ratio # 0 => t.ratio = 1 /\ RuleName(t) = "stock"
    BY <2>1 DEF RuleName
  <2>6. t.cash \in Nat /\ t.ratio \in Nat /\ t.price \in Nat
    BY <2>1
  <2> QED
    BY <2>1, <2>4, <2>5, <2>6, Zenon
<1>8. IsRuled
  BY <1>3, <1>5, <1>6, <1>7
<1>9. /\ t.cash # 0 \/ t.ratio # 0
      /\ value.terminal = t.cash + t.ratio * t.price
      /\ value.method = IF t.ratio = 0 THEN "cash_only"
                        ELSE IF t.cash = 0 THEN "stock_only" ELSE "cash_plus_stock"
  BY <1>1, <1>8, MergerMethods
<1>10. r.name = RuleName(t) /\ r.cash = t.cash /\ r.ratio = t.ratio /\ r.gate # "failed"
  BY <1>8, <1>9
<1>11. RuleName(t) = MethodRule[value.method]
  BY <1>9, MethodRules DEF RuleName
<1>12. value.terminal = r.cash + r.ratio * t.price
  BY <1>9, <1>10
<1> QED
  BY <1>10, <1>11, <1>12, Zenon

-------------------------------------------------------------------------------
(* The contract's rule of a drop: the value and the rule follow one order, and only a
   print that was asked for moves the value. *)

LEMMA OtcPrintIsItself ==
    /\ OtcPrint # LastClose
    /\ \A ticker : OtcPrint # Received(ticker)
<1>1. OtcPrint.kind = "otc_print" /\ LastClose.kind = "last_close"
  BY DEF OtcPrint, LastClose
<1>2. \A ticker : Received(ticker).kind = "received_close"
  BY DEF Received
<1> QED
  BY <1>1, <1>2

LEMMA PrintIsAsked ==
    ASSUME NEW e, NEW d, NEW r, OtcPrint \in RequestRows(e, d, r)
    PROVE  r.name = "otc_print"
<1>1. PICK leg : leg = IF e.v.request # "" THEN e.v.request ELSE IF d.plan > 0 THEN "OWN" ELSE ""
  OBVIOUS
<1>2. PICK other : other = "LEG2"
  OBVIOUS
<1>3. OtcPrint \in {LastClose} \cup (IF PrintAsked(d, r) THEN {OtcPrint} ELSE {})
             \cup (IF leg # "" THEN {Received(leg)} ELSE {})
             \cup (IF r.name = "basket" THEN {Received(other)} ELSE {})
  BY <1>1, <1>2, Zenon DEF RequestRows
<1>4. PrintAsked(d, r)
  BY <1>3, OtcPrintIsItself, Zenon
<1> QED
  BY <1>4, Zenon DEF PrintAsked

LEMMA PlanIsNat ==
    ASSUME NEW w \in World, NEW e, NEW d, d = Distress(w, e)
    PROVE  d.plan \in Nat
<1>1. w.plan \in Nat
  BY DEF World
<1>2. d.plan = w.plan \/ d.plan = 0
  BY ZenonT(60) DEF Distress
<1> QED
  BY <1>1, <1>2

LEMMA SuccessorIsNoDrop ==
    ASSUME NEW w, NEW code, NEW v, NEW e, e = R1(w, code, v), NEW d, d = Distress(w, e),
           BucketOf(d.code) \in {"liquidation", "compliance_failure"}
    PROVE  ~e.successor
<1> SUFFICES ASSUME e.successor PROVE FALSE
  OBVIOUS
<1>1. e.code = 304
  BY StatementDecides DEF Stands, Continues, Overruled
<1>2. d.code = e.code
  BY DEF Distress
<1> QED
  BY <1>1, <1>2, TransferIsNoDrop

LEMMA EndingValuesAre ==
    ASSUME AnswersAreQuotes, NEW d, d.plan \in Nat, NEW of, of = EndingValues(d)
    PROVE  /\ of.print = Answered(OtcPrint) /\ of.print \in Nat /\ of.plan \in Nat
           /\ of.plan > 0 => d.plan > 0 /\ of.print = 0
<1>1. PICK print \in Nat : print = Answered(OtcPrint)
  BY AnsweredIsNat
<1>2. PICK own : own = "OWN"
  OBVIOUS
<1>3. PICK price \in Nat : price = Answered(Received(own))
  BY AnsweredIsNat
<1>4. of = [print |-> print, plan |-> IF print > 0 \/ d.plan = 0 THEN 0 ELSE d.plan * price]
  BY <1>1, <1>2, <1>3, Zenon DEF EndingValues
<1>5. PICK plan : plan = d.plan * price
  OBVIOUS
<1>6. plan \in Nat
  BY <1>5, ProductsAreNat
<1>7. of.print = print /\ of.plan = IF print > 0 \/ d.plan = 0 THEN 0 ELSE plan
  BY <1>4, <1>5
<1> QED
  BY <1>1, <1>6, <1>7

LEMMA RuleOfDrop ==
    ASSUME NEW w, NEW e, ~e.successor, NEW d, NEW close,
           BucketOf(d.code) \in {"liquidation", "compliance_failure"},
           NEW r, r = RuleOf(w, e, d, close),
           NEW by, by = DistressRule(BucketOf(d.code), w.recovery > 0, d.plan > 0)
    PROVE  /\ by = "recovery" => r.name = "recovery"
           /\ by = "plan" => r.name = "stock"
           /\ r.gate # "failed"
<1>1. PICK bucket : bucket = BucketOf(d.code)
  OBVIOUS
<1>2. bucket \notin {"exchange_transfer", "expiration", "unknown", "merger"}
  BY <1>1
<1>3. PICK name : name = IF by = "recovery" \/ (by = "print" /\ WindDown(d.code) /\ d.otc = "") THEN "recovery"
                         ELSE IF by = "plan" THEN "stock" ELSE "otc_print"
  OBVIOUS
<1>4. \E terms : r = Rule(name, terms, "")
  <2>1. r = IF name = "stock" THEN Rule(name, [NoTerms EXCEPT !.ratio = d.plan], "")
            ELSE Rule(name, NoTerms, "")
    BY <1>1, <1>2, <1>3 DEF RuleOf, PlainRule
  <2> QED
    BY <2>1, Zenon
<1>5. PICK gate : gate = ""
  OBVIOUS
<1>6. "" # "failed"
  OBVIOUS
<1>7. r.name = name /\ r.gate = gate
  <2>1. PICK terms : r = Rule(name, terms, "")
    BY <1>4
  <2>2. r = Rule(name, terms, gate)
    BY <1>5, <2>1
  <2> QED
    BY <2>2 DEF Rule
<1>8. by = "recovery" => name = "recovery"
  BY <1>3
<1>9. by = "plan" => name = "stock"
  BY <1>3
<1> QED
  BY <1>5, <1>6, <1>7, <1>8, <1>9, Zenon

LEMMA DropFollows ==
    ASSUME AnswersAreQuotes, NEW w \in World, NEW e, ~e.successor, NEW d, d = Distress(w, e),
           BucketOf(d.code) \in {"liquidation", "compliance_failure"},
           NEW close, NEW value, value = DistressOf(w, d, close), value.method \in Measured,
           NEW r, r = RuleOf(w, e, d, close),
           Answered(OtcPrint) > 0 => OtcPrint \in RequestRows(e, d, r)
    PROVE  r.name = MethodRule[value.method] /\ r.gate # "failed"
<1>1. PICK of : of = EndingValues(d)
  OBVIOUS
<1>2. /\ of.print = Answered(OtcPrint) /\ of.print \in Nat /\ of.plan \in Nat
      /\ of.plan > 0 => d.plan > 0 /\ of.print = 0
  BY <1>1, PlanIsNat, EndingValuesAre
<1>3. PICK bucket : bucket = BucketOf(d.code)
  OBVIOUS
<1>4. PICK by, rule : /\ by = DistressRule(bucket, w.recovery > 0, d.plan > 0)
                      /\ rule = DistressRule(bucket, w.recovery > 0, of.plan > 0)
  OBVIOUS
<1>5. /\ by = "recovery" => r.name = "recovery"
      /\ by = "plan" => r.name = "stock"
      /\ r.gate # "failed"
  BY <1>3, <1>4, RuleOfDrop
<1>6. PICK m : m = value.method
  OBVIOUS
<1>7. \/ m = "recovery_ratio" /\ rule = "recovery"
      \/ m = "plan_stock" /\ rule = "plan"
      \/ m = "otc_print" /\ of.print > 0
  <2>1. value = IF close = 0 THEN Valuation("unknown", 0)
                ELSE IF rule = "recovery" THEN Valuation("recovery_ratio", (w.recovery * close) \div 100)
                ELSE IF rule = "plan" THEN Valuation("plan_stock", of.plan)
                ELSE IF of.print > 0 THEN Valuation("otc_print", of.print)
                ELSE IF WindDown(d.code) THEN Valuation("pending_recovery", 0)
                ELSE Valuation("shumway", 0)
    BY <1>1, <1>3, <1>4, Zenon DEF DistressOf
  <2>2. \A name, amount : Valuation(name, amount).method = name
    BY DEF Valuation
  <2>3. m \in Measured
    BY <1>6
  <2>4. m \notin {"unknown", "pending_recovery", "shumway"}
    BY <2>3 DEF Measured
  <2> QED
    BY <1>6, <2>1, <2>2, <2>4
<1>8. CASE m = "recovery_ratio" /\ rule = "recovery"
  <2>1. by = "recovery"
    BY <1>4, <1>8 DEF DistressRule
  <2> QED
    BY <1>5, <1>6, <1>8, <2>1, MethodRules
<1>9. CASE m = "plan_stock" /\ rule = "plan"
  <2>1. bucket = "liquidation" /\ ~(w.recovery > 0) /\ of.plan > 0
    BY <1>4, <1>9, Zenon DEF DistressRule
  <2>2. by = "plan"
    BY <1>2, <1>4, <2>1 DEF DistressRule
  <2> QED
    BY <1>5, <1>6, <1>9, <2>2, MethodRules
<1>10. CASE m = "otc_print" /\ of.print > 0
  <2>1. r.name = "otc_print"
    BY <1>2, <1>10, PrintIsAsked
  <2> QED
    BY <1>5, <1>6, <1>10, <2>1, MethodRules
<1> QED
  BY <1>7, <1>8, <1>9, <1>10

FollowsItsRule(row, w) ==
    row.value.method \in Measured /\ (Given(w) => w.caller.cash > 0)
        => /\ row.rule.name = MethodRule[row.value.method] /\ row.rule.gate # "failed"
           /\ BucketOf(row.code) = "merger" =>
                 row.value.terminal = row.rule.cash + row.rule.ratio * row.terms.price

(* No other ending has a measured value. *)
LEMMA OthersAreNotMeasured ==
    ASSUME NEW w, NEW e, NEW d, NEW close,
           BucketOf(d.code) \notin {"merger", "liquidation", "compliance_failure"}
    PROVE  Decide(w, e, d, close).method \notin Measured
<1>1. PICK bucket : bucket = BucketOf(d.code)
  OBVIOUS
<1>2. PICK value : value = Decide(w, e, d, close)
  OBVIOUS
<1>3. \E m \in {"assumed_par", "dropped_expiration", "exchange_transfer_zero", "unknown"} : \E n :
          value = Valuation(m, n)
  <2>1. CASE bucket = "expiration"
    <3>1. value = IF close > 0 THEN Valuation("assumed_par", close) ELSE Valuation("dropped_expiration", 0)
      BY <1>1, <1>2, <2>1 DEF Decide
    <3> QED
      BY <3>1
  <2>2. CASE bucket = "exchange_transfer"
    <3>1. value = Valuation("exchange_transfer_zero", 0)
      BY <1>1, <1>2, <2>2 DEF Decide
    <3> QED
      BY <3>1
  <2>3. CASE bucket \notin {"expiration", "exchange_transfer"}
    <3>1. value = IF close > 0 /\ Deregistered THEN Valuation("assumed_par", close)
                  ELSE Valuation("unknown", 0)
      BY <1>1, <1>2, <2>3 DEF Decide
    <3> QED
      BY <3>1
  <2> QED
    BY <2>1, <2>2, <2>3
<1>4. value.method \in {"assumed_par", "dropped_expiration", "exchange_transfer_zero", "unknown"}
  BY <1>3 DEF Valuation
<1> QED
  BY <1>2, <1>4 DEF Measured

LEMMA RowFollowsItsRule ==
    ASSUME AnswersAreQuotes, NEW w \in World, NEW code, NEW row, row = Written(w, code), Asked(row)
    PROVE  FollowsItsRule(row, w)
<1> SUFFICES ASSUME row.value.method \in Measured, Given(w) => w.caller.cash > 0
             PROVE  /\ row.rule.name = MethodRule[row.value.method] /\ row.rule.gate # "failed"
                    /\ BucketOf(row.code) = "merger" =>
                           row.value.terminal = row.rule.cash + row.rule.ratio * row.terms.price
  BY DEF FollowsItsRule
<1>1. PICK v, e, d : Staged(w, code, v, e, d) /\ row = RowOf(w, v, e, d)
  BY RowIsStaged
<1>2. PICK close : close = CloseOf(w)
  OBVIOUS
<1>3. PICK t : t = TableTerms(w, e.v)
  OBVIOUS
<1>4. /\ row.code = d.code /\ row.value = Decide(w, e, d, close) /\ row.terms = t
      /\ row.rule = RuleOf(w, e, d, close) /\ row.requests = RequestRows(e, d, row.rule)
  BY <1>1, <1>2, <1>3 DEF RowOf, Row
<1>5. e = R1(w, code, v) /\ d = Distress(w, e)
  BY <1>1, Zenon DEF Staged
<1>6. PICK value, r : value = row.value /\ r = row.rule
  OBVIOUS
<1>7. value.method \in Measured
  BY <1>6
<1> HIDE DEF Measured
<1>8. CASE BucketOf(d.code) = "merger"
  <2>1. BucketOf(code) = "merger" /\ ~e.successor
    BY <1>5, <1>8, MergerIsCalledOne
  <2>2. v = ValueMerger(w)
    BY <1>1, <2>1 DEF Staged
  <2>3. value = Valuation("pending_terms", 0) \/ value = MergerOf(t, close)
    <3>1. "merger" # "expiration" /\ "merger" # "exchange_transfer"
      OBVIOUS
    <3> QED
      BY <1>3, <1>4, <1>6, <1>8, <3>1 DEF Decide
  <2>4. value = MergerOf(t, close)
    BY <1>7, <2>3 DEF Valuation, Measured
  <2>5. r = MergerRule(w, e.v, close)
    BY <1>4, <1>6, <1>8, <2>1, Zenon DEF RuleOf
  <2>6. /\ r.name = MethodRule[value.method] /\ r.gate # "failed"
        /\ value.terminal = r.cash + r.ratio * t.price
    BY <1>2, <1>3, <1>5, <1>7, <1>8, <2>2, <2>4, <2>5, MergerFollows
  <2> QED
    BY <1>4, <1>6, <2>6, Zenon
<1>9. CASE BucketOf(d.code) \in {"liquidation", "compliance_failure"}
  <2>1. ~e.successor
    BY <1>5, <1>9, SuccessorIsNoDrop
  <2>2. PICK bucket : bucket = BucketOf(d.code)
    OBVIOUS
  <2>3. bucket \notin {"expiration", "exchange_transfer", "merger"}
    BY <1>9, <2>2
  <2>4. value = DistressOf(w, d, close)
    BY <1>4, <1>6, <1>9, <2>2, <2>3 DEF Decide
  <2>5. Answered(OtcPrint) > 0 => OtcPrint \in RequestRows(e, d, r)
    <3>1. OtcPrint \notin DOMAIN answers => ~(Answered(OtcPrint) > 0)
      BY DEF Answered
    <3>2. DOMAIN answers \subseteq RequestRows(e, d, r)
      BY <1>4, <1>6 DEF Asked
    <3> QED
      BY <3>1, <3>2
  <2>6. r = RuleOf(w, e, d, close)
    BY <1>4, <1>6
  <2>7. r.name = MethodRule[value.method] /\ r.gate # "failed"
    BY <1>5, <1>7, <1>9, <2>1, <2>4, <2>5, <2>6, DropFollows
  <2>8. BucketOf(row.code) # "merger"
    BY <1>4, <2>2, <2>3
  <2> QED
    BY <1>6, <2>7, <2>8, Zenon
<1>10. CASE BucketOf(d.code) \notin {"merger", "liquidation", "compliance_failure"}
  BY <1>4, <1>6, <1>7, <1>10, OthersAreNotMeasured
<1> QED
  BY <1>8, <1>9, <1>10

(* A backtest that applies the contract's rule gets the value the table measured (decide,
   contract.py): the rule's name is the method's, its amounts give the merger's value
   again, and terms the gate refused never stand behind a measured value.  A drop's rule
   follows because a print moves the value only after it was asked for, which needs the
   rule to be the print's. *)
THEOREM ValuesFollowTheirRules == PayoutsSpec => []ValueFollowsItsRule
<1>1. PayoutsInit => ValueFollowsItsRule
  BY DEF PayoutsInit, NotRun, ValueFollowsItsRule, IsWritten
<1>2. ASSUME AnswersAreQuotes, ValueFollowsItsRule, [PayoutsNext]_allVars
      PROVE  ValueFollowsItsRule'
  <2>1. CASE RowStays
    BY <1>2, <2>1, ZenonT(60) DEF RowStays, ValueFollowsItsRule, IsMerger, IsWritten, BucketOf, Given, Measured,
                      MethodRule
  <2>2. ASSUME NEW w \in World, RowIsRun(w)
        PROVE  ValueFollowsItsRule'
    <3>1. CASE table' = Stopped
      BY <3>1 DEF Stopped, ValueFollowsItsRule, IsWritten
    <3>2. CASE table' = Written(w, Classify.code) /\ Asked(Written(w, Classify.code))
      <4>1. FollowsItsRule(table', reads')
        BY <1>2, <2>2, <3>2, RowFollowsItsRule DEF RowIsRun
      <4>2. reads' = w
        BY <2>2 DEF RowIsRun
      <4> QED
        BY <4>1, Zenon DEF FollowsItsRule, ValueFollowsItsRule, IsMerger, IsWritten, Given
    <3> QED
      BY <2>2, <3>1, <3>2 DEF RowIsRun
  <2> QED
    BY <1>2, <2>1, <2>2, RowsAreRuns
<1> QED
  BY <1>1, <1>2, QuotesStay, PTL DEF PayoutsSpec

-------------------------------------------------------------------------------
(* The decisions of a row, as the pass on the run's own closes makes them: nothing in
   them reads an answer of the caller. *)

Anchored(c) ==
    (IF EightKNear(c.day) # NoFiling THEN EightKNear(c.day) ELSE Backscan(c.day)).items
        \cap {"2.01", "5.01", "3.03"} # {}

LEMMA AnswerStays ==
    ASSUME UNCHANGED <<issuer, filings, matched>>
    PROVE  Classify' = Classify /\ OneForOne' = OneForOne
<1>1. \A forms : Of(forms)' = Of(forms)
  BY DEF Of
<1>2. SameEvidence
  BY <1>1 DEF SameEvidence, EightKs, AnyEightK, Dereg
<1>3. /\ EightKs' = EightKs /\ AnyEightK' = AnyEightK /\ Dereg' = Dereg
      /\ Periodic' = Periodic /\ Operating' = Operating
  BY <1>1, <1>2 DEF SameEvidence, Periodic, Operating
<1>4. OneForOne' = OneForOne
  BY <1>2, EvidenceStays
<1>5. Revoked' = Revoked
  BY <1>1 DEF Revoked
<1>6. RenameOrTransfer' = RenameOrTransfer /\ ContinuedFilings' = ContinuedFilings
  BY <1>3 DEF RenameOrTransfer, ContinuedFilings, StillOperating
<1>7. PickForm25' = PickForm25
  <2> DEFINE Serves(c) == c.day < -45 => \/ Anchored(c)
                                       \/ From(Operating, c.day + 1, -1) = {}
             Near == From(Of({"25-NSE"}), -1500, 45)
  <2>1. \A c : Anchored(c)' <=> Anchored(c)
    BY <1>2, EvidenceStays DEF Anchored
  <2>2. \A c : Serves(c)' <=> Serves(c)
    BY <1>3, <2>1
  <2>3. Near' = Near
    BY <1>1
  <2> DEFINE Picks == {c \in Near : Serves(c)}
  <2>4. Picks' = Picks
    BY <2>2, <2>3
  <2>5. PickForm25 = Nearest(Picks, 0)
    BY Zenon DEF PickForm25, Anchored
  <2>6. PickForm25' = Nearest(Picks', 0)
    BY Zenon DEF PickForm25, Anchored
  <2> HIDE DEF Picks
  <2> QED
    BY <2>4, <2>5, <2>6
<1>8. /\ \A form25 : ClassifyFilings(form25)' = ClassifyFilings(form25)
      /\ EndOfEra' = EndOfEra /\ Bankrupt' = Bankrupt
  BY <1>2, AnswersStay
<1> QED
  BY <1>3, <1>4, <1>5, <1>6, <1>7, <1>8 DEF Classify

(* A package with a further security is no value, at any price and on any close. *)

IsDropped(g) == g.cash = 0 /\ g.terms = NoTerms /\ g.dividend = 0

LEMMA NoElectionNoShares ==
    ASSUME NEW regex, NEW close, NEW a, ~Election(a), NEW at, NEW d
    PROVE  Reconcile(regex, close, a, at, d).ratio = 0
<1>1. PICK flags : flags = IF regex > 0 THEN {Refused(regex)} ELSE {}
  OBVIOUS
<1>2. \A cash, source, told, dividend : Kept(cash, 0, 0, source, told, dividend).ratio = 0
  BY DEF Kept
<1>3. SettleCash(a, d, close, flags).ratio = 0
  BY <1>2, Zenon DEF SettleCash
<1>4. \/ \E cash, source, told, dividend :
            Reconcile(regex, close, a, at, d) = Kept(cash, 0, 0, source, told, dividend)
      \/ Reconcile(regex, close, a, at, d) = SettleCash(a, d, close, flags)
  BY <1>1, Zenon DEF Reconcile
<1> QED
  BY <1>2, <1>3, <1>4

LEMMA PackageIsDropped ==
    ASSUME NEW w \in World, ~Given(w), w.answer.extra, w.answer.package, StockLeg(w.answer),
           NEW close, NEW path, NEW price \in Nat, NEW d, NEW g, g = Gate(w, close, path, price, d)
    PROVE  IsDropped(g)
<1>1. PICK regex : regex = IF w.foreign THEN 0 ELSE w.regex
  OBVIOUS
<1>2. PICK at : at = IF path = "ticker" THEN price ELSE w.price
  OBVIOUS
<1>3. PICK line : line = IF path = "line" THEN [w.line EXCEPT !.price = price] ELSE w.line
  OBVIOUS
<1>4. w.answer \in Package /\ w.price \in Nat /\ w.line \in Line
  BY DEF World
<1>5. at \in Nat
  BY <1>2, <1>4
<1>6. line \in Line
  <2>1. [w.line EXCEPT !.price = price] \in Line
    BY <1>4 DEF Line
  <2> QED
    BY <1>3, <1>4, <2>1
<1>7. w.answer.ticker \in STRING
  BY <1>4 DEF Package
<1>8. PICK a : a = w.answer
  OBVIOUS
<1>9. PICK tried : tried = Prices(a.ticker, at, line)
  OBVIOUS
<1>10. tried \in Seq(Tried)
  BY <1>5, <1>6, <1>7, <1>8, <1>9, PricesAreTried
<1>11. PICK one : one = PassOne(regex, close, a, at, tried, d)
  OBVIOUS
<1>12. HasStock(a) /\ ~Election(a)
  BY <1>8 DEF HasStock, StockLeg, Election
<1>13. PICK skip : skip = SkipReason(a) /\ skip # ""
  <2>1. "basket" # ""
    OBVIOUS
  <2> QED
    BY <1>8, <2>1, Zenon DEF SkipReason
<1>14. g = TellForeign(w, PassTwo(one, close, a, tried, d))
  <2>1. g = TellForeign(w, Gated(regex, close, a, at, tried, d))
    BY <1>1, <1>2, <1>3, <1>8, <1>9 DEF Gate, GatePayouts, Given
  <2>2. Gated(regex, close, a, at, tried, d) = PassTwo(one, close, a, tried, d)
    BY <1>11, <1>12 DEF Gated
  <2> QED
    BY <2>1, <2>2
<1>15. Shaped(one) /\ one.terms = NoTerms
  <2>1. PICK p : \E n \in Nat : one = Settled(a, p, Reconcile(regex, close, a, n, d))
    BY <1>5, <1>10, <1>11, PassOneSettles
  <2>2. PICK n : one = Settled(a, p, Reconcile(regex, close, a, n, d))
    BY <2>1
  <2>3. PICK r : r = Reconcile(regex, close, a, n, d)
    OBVIOUS
  <2>4. r.ratio = 0
    BY <1>12, <2>3, NoElectionNoShares
  <2> QED
    BY <2>2, <2>3, <2>4, SettledIsShaped, SettledKeeps
<1>16. PICK h : h = DropPayout(one)
  OBVIOUS
<1>17. Shaped(h) /\ IsDropped(h)
  <2>1. h = [cash |-> 0, source |-> "none", dividend |-> 0, terms |-> one.terms,
             priced_by |-> one.priced_by, flags |-> one.flags]
    BY <1>15, <1>16 DEF DropPayout, Shaped
  <2>2. h.cash = 0 /\ h.dividend = 0 /\ h.terms = NoTerms
    BY <1>15, <2>1
  <2>3. Shaped(h)
    BY <2>1 DEF Shaped
  <2> QED
    BY <2>2, <2>3 DEF IsDropped
<1>18. PICK two : two = PassTwo(one, close, a, tried, d)
  OBVIOUS
<1>19. two = [h EXCEPT !.flags = @ \cup {Flag("terms_gate_skipped", skip)}]
  BY <1>8, <1>13, <1>16, <1>18, Zenon DEF PassTwo
<1>20. \A k, flags : Shaped(k) /\ IsDropped(k) => /\ Shaped([k EXCEPT !.flags = flags])
                                                  /\ IsDropped([k EXCEPT !.flags = flags])
  BY DEF Shaped, IsDropped
<1>21. Shaped(two) /\ IsDropped(two)
  <2>1. PICK flags : flags = h.flags \cup {Flag("terms_gate_skipped", skip)}
    OBVIOUS
  <2>2. two = [h EXCEPT !.flags = flags]
    BY <1>19, <2>1
  <2> QED
    BY <1>17, <1>20, <2>2
<1>22. CASE g = two
  BY <1>21, <1>22
<1>23. CASE g = [two EXCEPT !.flags = @ \cup {Flag("terms_gate_skipped", "foreign")}]
  <2>1. PICK flags : flags = two.flags \cup {Flag("terms_gate_skipped", "foreign")}
    OBVIOUS
  <2>2. g = [two EXCEPT !.flags = flags]
    BY <1>23, <2>1
  <2> QED
    BY <1>20, <1>21, <2>2
<1> QED
  BY <1>14, <1>18, <1>22, <1>23, Zenon DEF TellForeign

-------------------------------------------------------------------------------
(* The decisions without the answers: the record of the pass on the run's own closes. *)

OwnRecord(w) ==
    [own |-> [cash |-> FirstPass(w).gate.cash, terms |-> FirstPass(w).gate.terms],
     raw |-> w.regex, llm |-> w.answer, request |-> Request(w, FirstPass(w).gate)]
OwnOf(w, code) == IF BucketOf(code) = "merger" THEN OwnRecord(w) ELSE NoRecord
Alike(v, o) == v.own = o.own /\ v.raw = o.raw /\ v.llm = o.llm /\ v.request = o.request

LEMMA RecordsAreAlike ==
    ASSUME NEW w, NEW code, NEW v,
           v = IF BucketOf(code) = "merger" THEN ValueMerger(w) ELSE NoRecord
    PROVE  Alike(v, OwnOf(w, code))
<1>1. CASE BucketOf(code) = "merger"
  <2>1. PICK one, asked : one = FirstPass(w).gate /\ asked = Request(w, one)
    OBVIOUS
  <2>2. PICK last : v = Record(w, one, last, asked)
    BY <1>1, <2>1, Zenon DEF ValueMerger, ValueAfter, ValueBy
  <2>3. /\ v.own = [cash |-> one.cash, terms |-> one.terms]
        /\ v.raw = w.regex /\ v.llm = w.answer /\ v.request = asked
    BY <2>2 DEF Record
  <2>4. PICK o : o = OwnOf(w, code)
    OBVIOUS
  <2>5. o = [own |-> [cash |-> one.cash, terms |-> one.terms],
             raw |-> w.regex, llm |-> w.answer, request |-> asked]
    BY <1>1, <2>1, <2>4 DEF OwnOf, OwnRecord
  <2>6. /\ o.own = [cash |-> one.cash, terms |-> one.terms]
        /\ o.raw = w.regex /\ o.llm = w.answer /\ o.request = asked
    BY <2>5
  <2> QED
    BY <2>3, <2>4, <2>6 DEF Alike
<1>2. CASE BucketOf(code) # "merger"
  BY <1>2 DEF OwnOf, Alike
<1> QED
  BY <1>1, <1>2

LEMMA AlikeAreReadAlike ==
    ASSUME NEW w, NEW v, NEW o, Alike(v, o)
    PROVE  ReadTerms(w, v) = ReadTerms(w, o) /\ Reconciled(w, v) = Reconciled(w, o)
<1>1. v.own = o.own /\ v.raw = o.raw /\ v.llm = o.llm
  BY DEF Alike
<1>2. ReadTerms(w, v) = ReadTerms(w, o)
  BY <1>1 DEF ReadTerms
<1>3. Reconciled(w, v) = Reconciled(w, o)
  BY <1>1 DEF Reconciled
<1> QED
  BY <1>2, <1>3

ReadOf(w, code) == ReadTerms(w, OwnOf(w, code))
Continued(w, code) ==
    /\ BucketOf(code) = "merger" /\ w.target = "held" /\ ReadOf(w, code).known /\ OneForOne
    /\ OneShareNoCash(ReadOf(w, code).ratio, Consideration(w, ReadOf(w, code).cash))
Ends(w, code, v) ==
    IF Continued(w, code) THEN Ending(304, TRUE, NoRecord) ELSE Ending(code, FALSE, v)
EndOf(w, code) == Ends(w, code, OwnOf(w, code))
FirmRead(read) == ~(OneForOne /\ read.known /\ read.ratio # 1)

LEMMA EndsAsDecided ==
    ASSUME NEW w, NEW code, NEW v, ReadTerms(w, v) = ReadOf(w, code), FirmRead(ReadOf(w, code)),
           NEW e, e = R1(w, code, v)
    PROVE  e = Ends(w, code, v)
<1>1. PICK read : read = ReadTerms(w, v) /\ read = ReadOf(w, code)
  OBVIOUS
<1>2. PICK overruled \in BOOLEAN : overruled <=> read.ratio # 1
  OBVIOUS
<1>3. PICK says \in BOOLEAN :
         says <=> /\ read.known /\ (overruled => GateFailed(v)) /\ OneForOne
                  /\ overruled \/ OneShareNoCash(read.ratio, Consideration(w, read.cash))
  OBVIOUS
<1>4. e = IF BucketOf(code) # "merger" \/ ~says THEN Ending(code, FALSE, v)
          ELSE IF w.target = "held" THEN Ending(304, TRUE, NoRecord)
          ELSE IF overruled /\ w.target = "listed" THEN Ending(code, FALSE, Restate(v))
          ELSE IF overruled /\ w.target = "unlisted" THEN Ending(304, FALSE, NoRecord)
          ELSE Ending(code, FALSE, v)
  BY <1>1, <1>2, <1>3, ZenonT(60) DEF R1
<1>5. says => ~overruled
  BY <1>1, <1>2, <1>3 DEF FirmRead
<1>6. Continued(w, code) <=> BucketOf(code) = "merger" /\ w.target = "held" /\ says
  BY <1>1, <1>2, <1>3, <1>5 DEF Continued, OneShareNoCash
<1> QED
  BY <1>4, <1>5, <1>6, Zenon DEF Ends

(* A basket is the contract's rule whichever close the gate had: its package is no value. *)

BasketOf(w, d) ==
    /\ BucketOf(d.code) = "merger" /\ ~Given(w)
    /\ Published(w.answer).extra /\ StockLeg(Published(w.answer))

LEMMA OneFurtherLeg ==
    ASSUME NEW a \in Package, Published(a).extra
    PROVE  Published(a) = a /\ a # NoAnswer
<1>1. NoAnswer.extra = FALSE
  BY DEF NoAnswer
<1>2. PICK legs : legs = IF ~Election(a) \/ a.no_default THEN a
                         ELSE IF a.cash > 0 THEN [a EXCEPT !.ratio = 0, !.value = 0, !.extra = FALSE]
                         ELSE NoAnswer
  OBVIOUS
<1>3. Published(a) = legs \/ Published(a) = NoAnswer
  BY <1>2 DEF Published
<1>4. Published(a) = legs /\ legs.extra
  BY <1>1, <1>3
<1>5. ~[a EXCEPT !.ratio = 0, !.value = 0, !.extra = FALSE].extra
  BY DEF Package
<1>6. a # NoAnswer
  BY <1>1, <1>2, <1>4, <1>5
<1> QED
  BY <1>1, <1>2, <1>4, <1>5, <1>6

LEMMA DroppedRow ==
    ASSUME NEW w, ~Given(w), NEW v, v.cash = 0, v.terms = NoTerms, v.dividend = 0,
           NEW t, t = TableTerms(w, v)
    PROVE  t.cash = 0 /\ t.ratio = 0
<1>1. (IF v.terms # NoTerms THEN v.terms ELSE w.caller) = NoTerms
  BY DEF Given
<1>2. PICK cash : cash = IF NoTerms.cash > 0 THEN NoTerms.cash ELSE v.cash
  OBVIOUS
<1>3. t = [cash |-> cash + v.dividend, ratio |-> NoTerms.ratio, price |-> NoTerms.price,
           ticker |-> NoTerms.ticker]
  BY <1>1, <1>2, Zenon DEF TableTerms
<1>4. t.cash = cash + v.dividend /\ t.ratio = NoTerms.ratio
  BY <1>3
<1>5. NoTerms.cash = 0 /\ NoTerms.ratio = 0
  BY NoTermsIsZero
<1>6. cash = 0
  BY <1>2, <1>5
<1> QED
  BY <1>4, <1>5, <1>6

LEMMA BasketIsNamed ==
    ASSUME AnswersAreQuotes, NEW w \in World, ~Given(w), ~LooseBasket(w.answer), NEW v,
           v = ValueMerger(w), NEW close, NEW r, r = MergerRule(w, v, close)
    PROVE  r.name = "basket" <=> Published(w.answer).extra /\ StockLeg(Published(w.answer))
<1>1. PICK row : row = TableTerms(w, v)
  OBVIOUS
<1>2. PICK kept \in BOOLEAN : kept <=> row.cash > 0 \/ row.ratio > 0
  OBVIOUS
<1>3. v.llm = w.answer /\ v.raw = w.regex /\ ~v.statement
  BY ValueIsGated, Zenon DEF OfTheGate
<1>4. PICK told : told = Published(w.answer)
  OBVIOUS
<1>5. PICK said : said = IF kept THEN NoAnswer ELSE told
  OBVIOUS
<1>6. \/ r.name = "unknown" /\ said = NoAnswer
      \/ r.name = IF said.extra /\ StockLeg(said) THEN "basket"
                  ELSE IF r.ratio > 0 \/ said.value > 0
                  THEN IF r.cash > 0 THEN "cash_plus_stock" ELSE "stock"
                  ELSE "cash"
  <2>1. PICK terms : terms = IF kept THEN row
                 ELSE IF said # NoAnswer THEN [NoTerms EXCEPT !.cash = said.cash, !.ratio = said.ratio]
                 ELSE [NoTerms EXCEPT !.cash = v.raw]
    OBVIOUS
  <2>2. PICK gate : gate = IF kept THEN IF close > 0 THEN "passed" ELSE "" ELSE Ungated(v, close)
    OBVIOUS
  <2>3. PICK name : name = IF said.extra /\ StockLeg(said) THEN "basket"
                  ELSE IF terms.ratio > 0 \/ said.value > 0
                  THEN IF terms.cash > 0 THEN "cash_plus_stock" ELSE "stock"
                  ELSE "cash"
    OBVIOUS
  <2>4. r = IF terms = NoTerms /\ said = NoAnswer THEN Rule("unknown", NoTerms, "")
            ELSE Rule(name, terms, gate)
    BY <1>1, <1>2, <1>3, <1>4, <1>5, <2>1, <2>2, <2>3 DEF MergerRule
  <2>5. \A n, x, y : /\ Rule(n, x, y).name = n
                     /\ Rule(n, x, y).ratio = x.ratio /\ Rule(n, x, y).cash = x.cash
    BY DEF Rule
  <2>6. CASE terms = NoTerms /\ said = NoAnswer
    <3>1. PICK none, unknown : none = "" /\ unknown = "unknown"
      OBVIOUS
    <3>2. r = Rule(unknown, NoTerms, none)
      BY <2>4, <2>6, <3>1, Zenon
    <3>3. r.name = unknown
      BY <2>5, <3>2
    <3> QED
      BY <2>6, <3>1, <3>3, Zenon
  <2>7. CASE ~(terms = NoTerms /\ said = NoAnswer)
    <3>1. r = Rule(name, terms, gate)
      BY <2>4, <2>7
    <3> QED
      BY <2>3, <2>5, <3>1
  <2> QED
    BY <2>6, <2>7
<1>7. NoAnswer.extra = FALSE
  BY DEF NoAnswer
<1>8. ASSUME told.extra, StockLeg(told)
      PROVE  ~kept /\ told # NoAnswer
  <2>1. w.answer \in Package
    BY DEF World
  <2>2. told = w.answer /\ w.answer # NoAnswer
    BY <1>4, <1>8, <2>1, OneFurtherLeg
  <2>3. w.answer.extra /\ StockLeg(w.answer)
    BY <1>8, <2>2
  <2>4. w.answer.package
    BY <2>3 DEF LooseBasket
  <2>5. PICK path : \E price \in Nat : \E d \in Nat : \E g :
            /\ g = Gate(w, CloseOf(w), path, price, d)
            /\ v.cash = g.cash /\ v.terms = g.terms /\ v.dividend = g.dividend
    <3>1. OfTheGate(w, v)
      BY ValueIsGated
    <3> QED
      BY <3>1, Zenon DEF OfTheGate
  <2>6. PICK price \in Nat : \E d \in Nat : \E g :
            /\ g = Gate(w, CloseOf(w), path, price, d)
            /\ v.cash = g.cash /\ v.terms = g.terms /\ v.dividend = g.dividend
    BY <2>5
  <2>7. PICK d, g : /\ g = Gate(w, CloseOf(w), path, price, d)
                    /\ v.cash = g.cash /\ v.terms = g.terms /\ v.dividend = g.dividend
    BY <2>6
  <2>8. IsDropped(g)
    BY <2>3, <2>4, <2>7, PackageIsDropped
  <2>9. v.cash = 0 /\ v.terms = NoTerms /\ v.dividend = 0
    BY <2>7, <2>8 DEF IsDropped
  <2>10. row.cash = 0 /\ row.ratio = 0
    BY <1>1, <2>9, DroppedRow
  <2>11. ~kept
    BY <1>2, <2>10
  <2> QED
    BY <2>2, <2>11
<1>9. CASE told.extra /\ StockLeg(told)
  <2>1. said = told /\ said # NoAnswer
    BY <1>5, <1>8, <1>9
  <2> QED
    BY <1>4, <1>6, <1>9, <2>1
<1>10. CASE ~(told.extra /\ StockLeg(told))
  <2>1. ~(said.extra /\ StockLeg(said))
    BY <1>5, <1>7, <1>10
  <2>2. r.name \in {"unknown", "cash_plus_stock", "stock", "cash"}
    BY <1>6, <2>1
  <2> QED
    BY <1>4, <1>10, <2>2
<1> QED
  BY <1>9, <1>10

LEMMA OthersRuleAlike ==
    ASSUME NEW w, NEW e, NEW o, NEW d, BucketOf(d.code) # "merger", ~e.successor, ~o.successor,
           NEW close, NEW other
    PROVE  RuleOf(w, e, d, close) = RuleOf(w, o, d, other)
BY DEF RuleOf

LEMMA DistressAlike ==
    ASSUME NEW w, NEW e, NEW o, e.code = o.code, e.successor = o.successor
    PROVE  Distress(w, e) = Distress(w, o)
BY DEF Distress

LEMMA GivenHasNoBasket ==
    ASSUME NEW w, Given(w), NEW v, NEW close
    PROVE  MergerRule(w, v, close).name # "basket"
<1>1. NoAnswer.extra = FALSE
  BY DEF NoAnswer
<1>2. PICK t : t = w.caller
  OBVIOUS
<1>3. PICK name : name = (IF NoAnswer.extra /\ StockLeg(NoAnswer) THEN "basket"
                          ELSE IF t.ratio > 0 \/ NoAnswer.value > 0
                          THEN IF t.cash > 0 THEN "cash_plus_stock" ELSE "stock"
                          ELSE "cash")
  OBVIOUS
<1>4. name # "basket"
  BY <1>1, <1>3
<1>5. t # NoTerms
  BY <1>2 DEF Given
<1>6. MergerRule(w, v, close) = Rule(name, t, "")
  BY <1>2, <1>3, <1>5, Zenon DEF MergerRule
<1>7. PICK gate : gate = ""
  OBVIOUS
<1>8. MergerRule(w, v, close) = Rule(name, t, gate)
  BY <1>6, <1>7
<1> QED
  BY <1>4, <1>8 DEF Rule

RuleAsked(w, o, d) ==
    [name |-> IF BasketOf(w, d) THEN "basket"
              ELSE IF BucketOf(d.code) = "merger" THEN "" ELSE RuleOf(w, o, d, 0).name]
AskedOf(w, code) ==
    RequestRows(EndOf(w, code), Distress(w, EndOf(w, code)),
                RuleAsked(w, EndOf(w, code), Distress(w, EndOf(w, code))))
AsDecided(row, w, code) ==
    /\ row.code = Distress(w, EndOf(w, code)).code /\ row.successor = EndOf(w, code).successor
    /\ row.reconciled = Reconciled(w, EndOf(w, code).v) /\ row.requests = AskedOf(w, code)

LEMMA RequestsAlike ==
    ASSUME NEW e, NEW o, e.successor = o.successor, e.v.request = o.v.request, NEW d,
           NEW r, NEW s, PrintAsked(d, r) <=> PrintAsked(d, s), r.name = "basket" <=> s.name = "basket"
    PROVE  RequestRows(e, d, r) = RequestRows(o, d, s)
BY Zenon DEF RequestRows

Planned(w, code, v, e, o, d, close, r, s) ==
    /\ BucketOf(code) = "merger" => v = ValueMerger(w)
    /\ ~e.successor /\ e.code = code /\ e.v = v /\ ~o.successor /\ d = Distress(w, e)
    /\ r = RuleOf(w, e, d, close) /\ s = RuleAsked(w, o, d)
AskAlike(d, r, s) ==
    (PrintAsked(d, r) <=> PrintAsked(d, s)) /\ (r.name = "basket" <=> s.name = "basket")

(* What a rule asks for beside the last close, the print and the legs: as decided. *)
LEMMA RuleIsAsked ==
    ASSUME AnswersAreQuotes, NEW w \in World, ~LooseBasket(w.answer), NEW code, NEW v, NEW e,
           NEW o, NEW d, NEW close, NEW r, NEW s, Planned(w, code, v, e, o, d, close, r, s)
    PROVE  AskAlike(d, r, s)
<1>0. /\ BucketOf(code) = "merger" => v = ValueMerger(w)
      /\ ~o.successor /\ d = Distress(w, e)
      /\ r = RuleOf(w, e, d, close) /\ s = RuleAsked(w, o, d)
  BY Zenon DEF Planned
<1> SUFFICES (PrintAsked(d, r) <=> PrintAsked(d, s)) /\ (r.name = "basket" <=> s.name = "basket")
  BY Zenon DEF AskAlike
<1>1. ~e.successor /\ e.code = code /\ e.v = v
  BY Zenon DEF Planned
<1>2. d.code = code \/ BucketOf(d.code) # "merger"
  <2>1. d.code = e.code \/ d.code \in {470, 552}
    BY <1>0, DistressCalls
  <2>2. BucketOf(470) # "merger" /\ BucketOf(552) # "merger"
    BY TransferIsNoDrop
  <2> QED
    BY <1>1, <2>1, <2>2
<1>3. CASE BucketOf(d.code) = "merger"
  <2>1. v = ValueMerger(w) /\ r = MergerRule(w, v, close)
    BY <1>0, <1>1, <1>2, <1>3, Zenon DEF RuleOf
  <2>2. r.name = "basket" <=> BasketOf(w, d)
    <3>1. CASE Given(w)
      BY <2>1, <3>1, GivenHasNoBasket, Zenon DEF BasketOf
    <3>2. CASE ~Given(w)
      <4>1. r.name = "basket" <=> Published(w.answer).extra /\ StockLeg(Published(w.answer))
        BY <2>1, <3>2, BasketIsNamed
      <4> QED
        BY <1>3, <3>2, <4>1, Zenon DEF BasketOf
    <3> QED
      BY <3>1, <3>2
  <2>3. s.name = IF BasketOf(w, d) THEN "basket" ELSE ""
    <3>1. PICK name : name = IF BasketOf(w, d) THEN "basket" ELSE ""
      OBVIOUS
    <3>2. s = [name |-> name]
      BY <1>0, <1>3, <3>1, Zenon DEF RuleAsked
    <3>3. s.name = name
      BY <3>2
    <3> QED
      BY <3>1, <3>3, Zenon
  <2>4. "" # "basket"
    OBVIOUS
  <2>5. r.name = "basket" <=> s.name = "basket"
    BY <2>2, <2>3, <2>4, Zenon
  <2>6. BucketOf(d.code) \notin {"liquidation", "compliance_failure"}
    <3>1. "merger" # "liquidation" /\ "merger" # "compliance_failure"
      OBVIOUS
    <3> QED
      BY <1>3, <3>1
  <2> QED
    BY <2>5, <2>6, Zenon DEF PrintAsked
<1>4. CASE BucketOf(d.code) # "merger"
  <2>1. PICK name : name = r.name
    OBVIOUS
  <2>2. r = RuleOf(w, o, d, 0)
    BY <1>0, <1>1, <1>4, OthersRuleAlike
  <2>3. ~BasketOf(w, d)
    BY <1>4, Zenon DEF BasketOf
  <2>4. s = [name |-> name]
    BY <1>0, <1>4, <2>1, <2>2, <2>3, Zenon DEF RuleAsked
  <2>5. s.name = r.name
    BY <2>1, <2>4
  <2> QED
    BY <2>5, Zenon DEF PrintAsked
<1> QED
  BY <1>3, <1>4

LEMMA RowIsRead ==
    ASSUME NEW w, NEW code, NEW row, row = Written(w, code)
    PROVE  row.read = ReadOf(w, code) /\ row.state = "written"
<1>1. PICK v, e, d : Staged(w, code, v, e, d) /\ row = RowOf(w, v, e, d)
  BY RowIsStaged
<1>2. PICK read : read = ReadTerms(w, v)
  OBVIOUS
<1>3. row.read = read /\ row.state = "written"
  BY <1>1, <1>2 DEF RowOf, Row
<1>4. Alike(v, OwnOf(w, code))
  BY <1>1, RecordsAreAlike DEF Staged
<1>5. read = ReadOf(w, code)
  BY <1>2, <1>4, AlikeAreReadAlike DEF ReadOf
<1> QED
  BY <1>3, <1>5

LEMMA RowIsAsDecided ==
    ASSUME AnswersAreQuotes, NEW w \in World, ~LooseBasket(w.answer), NEW code,
           FirmRead(ReadOf(w, code)), NEW row, row = Written(w, code)
    PROVE  AsDecided(row, w, code)
<1>1. PICK v, e, d : Staged(w, code, v, e, d) /\ row = RowOf(w, v, e, d)
  BY RowIsStaged
<1>2. PICK close : close = CloseOf(w)
  OBVIOUS
<1>3. PICK r, sound : r = RuleOf(w, e, d, close) /\ sound = Reconciled(w, e.v)
  OBVIOUS
<1>4. /\ row.code = d.code /\ row.successor = e.successor /\ row.reconciled = sound
      /\ row.requests = RequestRows(e, d, r)
  BY <1>1, <1>2, <1>3 DEF RowOf, Row
<1>5. /\ v = IF BucketOf(code) = "merger" THEN ValueMerger(w) ELSE NoRecord
      /\ e = R1(w, code, v) /\ d = Distress(w, e)
  BY <1>1, Zenon DEF Staged
<1>6. Alike(v, OwnOf(w, code))
  BY <1>5, RecordsAreAlike
<1>7. PICK o : o = EndOf(w, code)
  OBVIOUS
<1>8. ReadTerms(w, v) = ReadOf(w, code)
  BY <1>6, AlikeAreReadAlike DEF ReadOf
<1>9. e = Ends(w, code, v)
  BY <1>5, <1>8, EndsAsDecided
<1>10. CASE Continued(w, code)
  <2>1. o = e
    BY <1>7, <1>9, <1>10, Zenon DEF EndOf, Ends
  <2>2. e.successor
    BY <1>9, <1>10 DEF Ends, Ending
  <2>3. RequestRows(e, d, r) = {} /\ AskedOf(w, code) = {}
    BY <1>7, <2>1, <2>2, Zenon DEF RequestRows, AskedOf
  <2> QED
    BY <1>3, <1>4, <1>5, <1>7, <2>1, <2>3, Zenon DEF AsDecided
<1>11. CASE ~Continued(w, code)
  <2>1. PICK own : own = OwnOf(w, code)
    OBVIOUS
  <2>2. e = Ending(code, FALSE, v) /\ o = Ending(code, FALSE, own)
    BY <1>7, <1>9, <1>11, <2>1, Zenon DEF EndOf, Ends
  <2>3. /\ e.code = o.code /\ e.successor = o.successor /\ ~o.successor
        /\ e.v = v /\ o.v = own
    BY <2>2 DEF Ending
  <2>4. d = Distress(w, o)
    BY <1>5, <2>3, DistressAlike
  <2>5. sound = Reconciled(w, o.v)
    <3>1. Reconciled(w, v) = Reconciled(w, own)
      BY <1>6, <2>1, AlikeAreReadAlike
    <3> QED
      BY <1>3, <2>3, <3>1
  <2>6. PICK s : s = RuleAsked(w, o, d)
    OBVIOUS
  <2>7. AskAlike(d, r, s)
    <3>1. BucketOf(code) = "merger" => v = ValueMerger(w)
      BY <1>5
    <3>2. Planned(w, code, v, e, o, d, close, r, s)
      <4>1. ~e.successor /\ e.code = code /\ e.v = v /\ ~o.successor
        BY <2>2 DEF Ending
      <4> QED
        BY <1>3, <1>5, <2>6, <3>1, <4>1, Zenon DEF Planned
    <3> QED
      BY <3>2, RuleIsAsked
  <2>8. e.v.request = o.v.request
    BY <1>6, <2>1, <2>3 DEF Alike
  <2>9. RequestRows(e, d, r) = RequestRows(o, d, s)
    <3>1. /\ PrintAsked(d, r) <=> PrintAsked(d, s)
          /\ r.name = "basket" <=> s.name = "basket"
      BY <2>7, Zenon DEF AskAlike
    <3> QED
      BY <2>3, <2>8, <3>1, RequestsAlike
  <2>10. AskedOf(w, code) = RequestRows(o, d, s)
    BY <1>7, <2>4, <2>6, Zenon DEF AskedOf
  <2> QED
    BY <1>4, <1>7, <2>3, <2>4, <2>5, <2>9, <2>10, Zenon DEF AsDecided
<1> QED
  BY <1>10, <1>11

(* What a written row is to the record it was written on. *)
Decided ==
    table.state = "written" =>
        /\ reads \in World /\ DOMAIN answers \subseteq table.requests
        /\ table.read = ReadOf(reads, Classify.code)
        /\ ~Overrulable(table) /\ ~LooseBasket(reads.answer)
               => AsDecided(table, reads, Classify.code)

LEMMA DecisionsStay ==
    ASSUME UNCHANGED <<issuer, filings, matched>>
    PROVE  /\ Classify' = Classify
           /\ \A w, code : ReadOf(w, code)' = ReadOf(w, code)
           /\ \A row : Overrulable(row)' <=> Overrulable(row)
           /\ \A row, w, code : AsDecided(row, w, code)' <=> AsDecided(row, w, code)
<1>1. Classify' = Classify /\ OneForOne' = OneForOne
  BY AnswerStays
<1>2. \A w, code : ReadOf(w, code)' = ReadOf(w, code)
  OBVIOUS
<1>3. \A row : Overrulable(row)' <=> Overrulable(row)
  BY <1>1 DEF Overrulable
<1>4. \A w, code : EndOf(w, code)' = EndOf(w, code)
  BY <1>1, <1>2 DEF EndOf, Ends, Continued
<1>5. \A w, e : Distress(w, e)' = Distress(w, e)
  BY DEF Distress, PlanExchange, Notices
<1>6. \A w, code : AskedOf(w, code)' = AskedOf(w, code)
  BY <1>4, <1>5 DEF AskedOf
<1>7. \A row, w, code : AsDecided(row, w, code)' <=> AsDecided(row, w, code)
  BY <1>4, <1>5, <1>6 DEF AsDecided
<1> QED
  BY <1>1, <1>2, <1>3, <1>7

LEMMA UnreadIsNoWorld == Unread \notin World
<1>1. Unread.close = -1
  BY DEF Unread
<1>2. \A w \in World : w.close \in Nat
  BY DEF World
<1>3. -1 \notin Nat
  OBVIOUS
<1> QED
  BY <1>1, <1>2, <1>3

(* One run on the record of the row before it, or on any record for the first one. *)
LEMMA RunDecides ==
    ASSUME AnswersAreQuotes, NEW w \in World, NEW row, row = Written(w, Classify.code)
    PROVE  /\ row.read = ReadOf(w, Classify.code) /\ row.state = "written"
           /\ ~Overrulable(row) /\ ~LooseBasket(w.answer) => AsDecided(row, w, Classify.code)
<1>1. PICK code : code = Classify.code
  OBVIOUS
<1>2. row.read = ReadOf(w, code) /\ row.state = "written"
  BY <1>1, RowIsRead
<1>3. ~Overrulable(row) <=> FirmRead(ReadOf(w, code))
  BY <1>2 DEF Overrulable, FirmRead
<1>4. ~Overrulable(row) /\ ~LooseBasket(w.answer) => AsDecided(row, w, code)
  BY <1>1, <1>3, RowIsAsDecided
<1> QED
  BY <1>1, <1>2, <1>4

LEMMA StepsDecide ==
    ASSUME AnswersAreQuotes, AnswersAreQuotes', Decided, [PayoutsNext]_allVars
    PROVE  /\ Decided'
           /\ table.state = "written" /\ table' # table =>
                 /\ reads' = reads /\ UNCHANGED <<issuer, filings, matched, answers>>
                 /\ table' = Publish(Written(reads, Classify.code))
<1>1. CASE Filing
  <2>1. table.state # "written" /\ table' = table
    BY <1>1, UnreadIsNoWorld DEF Filing, valued, Decided
  <2> QED
    BY <2>1 DEF Decided
<1>2. ASSUME filings \in DOMAIN Worlds, NEW w \in Worlds[filings], Run(w)
      PROVE  /\ Decided'
             /\ table.state = "written" /\ table' # table =>
                   /\ reads' = reads /\ UNCHANGED <<issuer, filings, matched, answers>>
                   /\ table' = Publish(Written(reads, Classify.code))
  <2>1. w \in World
    BY <1>2, PayoutsAssumption
  <2>2. PICK row : row = Written(w, Classify.code)
    OBVIOUS
  <2>3. /\ reads \in {Unread, w} /\ reads' = w /\ table' = Publish(row)
        /\ UNCHANGED <<issuer, filings, matched, answers>>
    BY <1>2, <2>2 DEF Run
  <2>4. table.state = "written" => reads = w
    BY <2>3, UnreadIsNoWorld DEF Decided
  <2>5. /\ row.read = ReadOf(w, Classify.code) /\ row.state = "written"
        /\ ~Overrulable(row) /\ ~LooseBasket(w.answer) => AsDecided(row, w, Classify.code)
    BY <2>1, <2>2, RunDecides
  <2>6. Decided'
    <3>1. CASE ~(DOMAIN answers \subseteq row.requests)
      <4>1. table' = Stopped
        BY <2>3, <3>1, Zenon DEF Publish
      <4>2. table'.state # "written"
        BY <4>1 DEF Stopped
      <4> QED
        BY <4>2 DEF Decided
    <3>2. CASE DOMAIN answers \subseteq row.requests
      <4>1. table' = row
        BY <2>3, <3>2, Zenon DEF Publish
      <4>2. /\ Classify' = Classify
            /\ \A x, code : ReadOf(x, code)' = ReadOf(x, code)
            /\ \A r : Overrulable(r)' <=> Overrulable(r)
            /\ \A r, x, code : AsDecided(r, x, code)' <=> AsDecided(r, x, code)
        BY <2>3, DecisionsStay
      <4>3. reads' \in World /\ DOMAIN answers' \subseteq table'.requests
        BY <2>1, <2>3, <3>2, <4>1
      <4>4. table'.read = ReadOf(reads', Classify.code')
        BY <2>3, <2>5, <4>1, <4>2
      <4>5. ~Overrulable(table)' /\ ~LooseBasket(reads.answer)'
                => AsDecided(table, reads, Classify.code)'
        BY <2>3, <2>5, <4>1, <4>2
      <4> QED
        BY <4>3, <4>4, <4>5 DEF Decided
    <3> QED
      BY <3>1, <3>2
  <2> QED
    BY <2>2, <2>3, <2>4, <2>6
<1>3. ASSUME NEW k \in table.requests, NEW price, GivePrice(k, price)
      PROVE  Decided' /\ table' = table
  <2>1. /\ table.state = "written" /\ UNCHANGED <<issuer, filings, matched, reads, table>>
        /\ DOMAIN answers' = DOMAIN answers \cup {k}
    BY <1>3 DEF GivePrice
  <2>2. /\ Classify' = Classify
        /\ \A x, code : ReadOf(x, code)' = ReadOf(x, code)
        /\ \A r : Overrulable(r)' <=> Overrulable(r)
        /\ \A r, x, code : AsDecided(r, x, code)' <=> AsDecided(r, x, code)
    BY <2>1, DecisionsStay
  <2>3. reads' \in World /\ DOMAIN answers' \subseteq table'.requests
    BY <1>3, <2>1 DEF Decided
  <2>4. table'.read = ReadOf(reads', Classify.code')
    BY <2>1, <2>2 DEF Decided
  <2>5. ~Overrulable(table)' /\ ~LooseBasket(reads.answer)'
            => AsDecided(table, reads, Classify.code)'
    BY <2>1, <2>2 DEF Decided
  <2> QED
    BY <2>1, <2>3, <2>4, <2>5 DEF Decided
<1>4. CASE UNCHANGED allVars
  <2>1. UNCHANGED <<issuer, filings, matched, reads, answers, table>>
    BY <1>4 DEF allVars
  <2>2. /\ Classify' = Classify
        /\ \A x, code : ReadOf(x, code)' = ReadOf(x, code)
        /\ \A r : Overrulable(r)' <=> Overrulable(r)
        /\ \A r, x, code : AsDecided(r, x, code)' <=> AsDecided(r, x, code)
    BY <2>1, DecisionsStay
  <2> QED
    BY <2>1, <2>2 DEF Decided
<1> QED
  BY <1>1, <1>2, <1>3, <1>4, Zenon DEF PayoutsNext, Filing, valued

(* The run made again with the caller's answers asks the same prices, so no answer stops
   it, and calls the ending the same on the same reading of its terms (run_pipeline,
   price_requests.py).  The decisions are those of the pass on the run's own closes, which
   no answer moves (Decided); what is left out is what the code decides on the gate after
   the answers. *)
THEOREM AnswersMoveValuesOnly == PayoutsSpec => AnswersChangeValuesOnly
<1> DEFINE Step ==
      (/\ table.state = "written" /\ table' # table
       /\ ~Overrulable(table) /\ ~LooseBasket(reads.answer))
       => /\ table'.state = "written" /\ table'.requests = table.requests
          /\ table'.code = table.code /\ table'.successor = table.successor
          /\ table'.read = table.read /\ table'.reconciled = table.reconciled
<1>1. PayoutsInit => Decided
  BY DEF PayoutsInit, NotRun, Decided
<1>2. ASSUME AnswersAreQuotes, AnswersAreQuotes', Decided, [PayoutsNext]_allVars
      PROVE  Decided'
  BY <1>2, StepsDecide
<1>3. ASSUME AnswersAreQuotes, AnswersAreQuotes', Decided, [PayoutsNext]_allVars
      PROVE  [Step]_allVars
  <2> SUFFICES ASSUME table.state = "written", table' # table,
                      ~Overrulable(table), ~LooseBasket(reads.answer)
               PROVE  /\ table'.state = "written" /\ table'.requests = table.requests
                      /\ table'.code = table.code /\ table'.successor = table.successor
                      /\ table'.read = table.read /\ table'.reconciled = table.reconciled
    OBVIOUS
  <2>1. PICK w, code : w = reads /\ code = Classify.code
    OBVIOUS
  <2>2. PICK row : row = Written(w, code)
    OBVIOUS
  <2>3. table' = Publish(row)
    BY <1>3, <2>1, <2>2, StepsDecide
  <2>4. /\ w \in World /\ DOMAIN answers \subseteq table.requests
        /\ table.read = ReadOf(w, code) /\ AsDecided(table, w, code)
    BY <1>3, <2>1 DEF Decided
  <2>5. /\ row.read = ReadOf(w, code) /\ row.state = "written"
        /\ ~Overrulable(row) /\ ~LooseBasket(w.answer) => AsDecided(row, w, code)
    BY <1>3, <2>1, <2>2, <2>4, RunDecides
  <2>6. row.read = table.read
    BY <2>4, <2>5
  <2>7. AsDecided(row, w, code)
    BY <2>1, <2>5, <2>6 DEF Overrulable
  <2>8. /\ row.code = table.code /\ row.successor = table.successor
        /\ row.reconciled = table.reconciled /\ row.requests = table.requests
    BY <2>4, <2>7, Zenon DEF AsDecided
  <2>9. table' = row
    BY <2>3, <2>4, <2>8, Zenon DEF Publish
  <2> QED
    BY <2>5, <2>6, <2>8, <2>9
<1>4. PayoutsSpec => [][Step]_allVars
  BY <1>1, <1>2, <1>3, QuotesStay, PTL DEF PayoutsSpec
<1> QED
  BY <1>4, PTL DEF AnswersChangeValuesOnly
===============================================================================
