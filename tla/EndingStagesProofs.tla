-------------------------- MODULE EndingStagesProofs --------------------------
(* Stages 5 to 9h for every value of the constants: one invariant says, stage by
   stage, which rows there are, what still awaits a successor, on which day each
   close and each merger value was read, and where an ending stands beside the
   security that took its ticker. *)
EXTENDS EndingStages, WellFoundedInduction, TLAPS

-------------------------------------------------------------------------------
(* The invariant *)

ToFind   == stage = "dating" \/ stage = "finding"
ToClose  == ToFind \/ stage = "closes"
ToValue  == ToClose \/ stage = "values"
ToHandOver  == ToValue \/ stage = "r1" \/ stage = "successors" \/ stage = "handoffs"
ToFollow   == ToHandOver \/ stage = "again" \/ stage = "notices" \/ stage = "line"

StageShapes ==
    /\ stage \in {"dating", "finding", "closes", "values", "r1", "successors", "handoffs", "again", "notices",
                  "line", "distress", "history", "written"}
    /\ rows \in [Slots -> Rows \cup {NoRow}]
    /\ closes \in [Slots -> 0..LastDay]
    /\ values \in [Slots -> Values \cup {NoValue}]
    /\ redated \in SUBSET {"found"}
    /\ handed \in [decision : Decisions, near : BOOLEAN, elsewhere : BOOLEAN]

(* The ending being dated, and the day the finder gave it. *)
DatedByTheFinder ==
    /\ ToFind => evidence \in Read
    /\ stage = "finding" => dated = DateOf(evidence)

(* A slot is empty until its stage. *)
SlotsInTurn ==
    /\ ToFind => rows["found"] = NoRow
    /\ ToHandOver => rows["handoff"] = NoRow /\ redated = {} /\ handed = NoHandoff
    /\ ToFollow => rows["line"] = NoRow
    /\ stage # "written" => rows["unexplained"] = NoRow
    /\ ToValue => values["found"] = NoValue
    /\ values["handoff"] = NoValue /\ values["unexplained"] = NoValue
    /\ ToFollow => values["line"] = NoValue
    /\ rows["found"] = NoRow => values["found"] = NoValue /\ redated = {}

(* Up to the handoffs a row that a later stage may continue names no successor. *)
OpenNamesNone(r) ==
    Awaits(r) \/ r.kind = "merger" \/ r.kind = "unknown" => r.succ = None

OpenRowsNameNone == ToHandOver /\ rows["found"] # NoRow => OpenNamesNone(rows["found"])

(* The close and the value of each row are those of its day; a row the handoffs moved
   is read again at once. *)
OnItsDay(s) ==
    /\ rows[s].kind = "transfer" \/ s = "unexplained" \/ closes[s] = rows[s].day
    /\ Valued(values[s]) => values[s].day = rows[s].day

ReadOnItsDay ==
    ~ToClose => \A s \in Live(rows) : (stage = "again" /\ s \in redated) \/ OnItsDay(s)

(* After the handoffs an ending stands before the security that took the ticker. *)
BeforeTheTaker(s) ==
    rows[s] # NoRow /\ ~rows[s].print /\ ~(handed.elsewhere /\ handed.near) => rows[s].day < TakenOn

EndsBeforeTheTaker ==
    ~ToHandOver /\ handed.decision # "nothing" =>
        BeforeTheTaker("handoff") /\ (handed.near => BeforeTheTaker("found"))

StagesInv ==
    /\ StageShapes
    /\ DatedByTheFinder
    /\ SlotsInTurn
    /\ OpenRowsNameNone
    /\ ReadOnItsDay
    /\ EndsBeforeTheTaker
-------------------------------------------------------------------------------
(* The least and the greatest of days *)

Less == {ss \in Nat \X Nat : ss[1] < ss[2]}

(* A set of naturals that is not empty has a least element. *)
LEMMA LeastNatural ==
    ASSUME NEW T \in SUBSET Nat, T # {}
    PROVE  \E x \in T : \A y \in T : x <= y
<1>1. IsWellFoundedOn(Less, Nat)
  BY NatLessThanWellFounded DEF OpToRel, Less
<1>2. PICK x \in T : \A y \in T : <<y, x>> \notin Less
  BY <1>1, WFMin
<1>3. \A y \in T : ~(y < x)
  BY <1>2 DEF Less
<1> QED
  BY <1>3

(* Some member of a set has the least measure. *)
LEMMA LeastMeasured ==
    ASSUME NEW S, NEW f \in [S -> Nat], S # {}
    PROVE  \E x \in S : \A y \in S : f[x] <= f[y]
<1> DEFINE T == {f[x] : x \in S}
<1>1. T \in SUBSET Nat /\ T # {}
  OBVIOUS
<1>2. PICK m \in T : \A n \in T : m <= n
  <2> HIDE DEF T
  <2> QED
    BY <1>1, LeastNatural
<1>3. PICK x \in S : m = f[x]
  OBVIOUS
<1> QED
  BY <1>2, <1>3

(* Earliest is the first of some days. *)
LEMMA EarliestIsFirst ==
    ASSUME NEW T \in SUBSET Nat, T # {}
    PROVE  Earliest(T) \in T /\ \A y \in T : Earliest(T) <= y
BY LeastNatural DEF Earliest

(* Lately is one of some days, or none. *)
LEMMA LatelyIsOneOf ==
    ASSUME NEW n \in Nat, NEW T \in SUBSET (0..n), T # {}
    PROVE  Lately(T) \in T
<1> DEFINE f == [x \in T |-> n - x]
<1>1. f \in [T -> Nat]
  OBVIOUS
<1>2. PICK x \in T : \A y \in T : f[x] <= f[y]
  <2> HIDE DEF f
  <2> QED
    BY <1>1, LeastMeasured
<1>3. \A y \in T : y <= x
  <2> TAKE y \in T
  <2>1. n - x <= n - y /\ x \in 0..n /\ y \in 0..n
    BY <1>2
  <2> QED
    BY <2>1
<1> QED
  BY <1>3 DEF Lately

LEMMA ReadFields ==
    ASSUME NEW e \in Read
    PROVE  /\ LastDay \in Nat /\ Days \subseteq 0..LastDay /\ Days \subseteq Nat /\ 0 \notin Days
           /\ e.filed \in 0..LastDay /\ e.seen \in 0..LastDay /\ e.halt \in 0..LastDay
           /\ e.tenure \in 0..LastDay /\ e.shown \in 0..LastDay /\ e.done \in 0..LastDay
<1>1. LastDay \in Nat
  BY LastTradeAssumption
<1>2. /\ e.filed \in 0..LastDay /\ e.seen \in Days /\ e.halt \in 0..LastDay
      /\ e.tenure \in 0..LastDay /\ e.shown \in 0..LastDay /\ e.done \in 0..LastDay
  BY DEF Read
<1>3. Days \subseteq 0..LastDay /\ Days \subseteq Nat /\ 0 \notin Days
  BY <1>1 DEF Days
<1> QED
  BY <1>1, <1>2, <1>3

(* The volume's last day up to some day is a day of the volume's, or none. *)
LEMMA VolumeDay ==
    ASSUME NEW e \in Read, NEW until \in Int
    PROVE  VolumeUntil(e, until) \in 0..LastDay /\ (VolumeUntil(e, until) # 0 => VolumeUntil(e, until) <= until)
<1> DEFINE T == {d \in e.volume : d <= until}
<1>1. T \in SUBSET (0..LastDay) /\ LastDay \in Nat /\ \A d \in T : d <= until
  <2>1. e.volume \subseteq Days
    BY DEF Read
  <2>2. LastDay \in Nat /\ Days \subseteq 0..LastDay
    BY ReadFields
  <2> QED
    BY <2>1, <2>2
<1>2. VolumeUntil(e, until) = Lately(T)
  BY DEF VolumeUntil
<1> HIDE DEF T
<1>3. CASE T = {}
  BY <1>1, <1>2, <1>3 DEF Lately
<1>4. CASE T # {}
  <2>1. Lately(T) \in T
    BY <1>1, <1>4, LatelyIsOneOf
  <2> QED
    BY <1>1, <1>2, <2>1
<1> QED
  BY <1>3, <1>4

-------------------------------------------------------------------------------
(* What the texts say, and the day decided from them *)

Readings  == [day : 0..LastDay, kind : {"none"} \cup NoticeKinds \cup EightKKinds]
Datings   == [day : 0..LastDay, source : {"midas", "halt", "notice", "8k", "none"}, sure : BOOLEAN]
Endings   == [day : 0..LastDay, source : {"midas", "halt", "notice", "8k", "none", "closing", "unsourced", "fails",
                                           "sighting", "no ending"}, sure : BOOLEAN]

LEMMA NoReadingType == NoReading \in Readings /\ LastDay \in Nat
BY LastTradeAssumption DEF NoReading, Readings

(* The first that has a day is one of those told. *)
LEMMA FirstDatedIsOneOf ==
    ASSUME NEW n \in Nat, NEW told, DOMAIN told = 1..n, NEW none
    PROVE  \/ FirstDated(told, none) = none
           \/ \E i \in 1..n : told[i].day # 0 /\ FirstDated(told, none) = told[i]
<1> DEFINE dayed == {i \in 1..n : told[i].day # 0}
<1>1. FirstDated(told, none) = IF dayed = {} THEN none ELSE told[Earliest(dayed)]
  BY DEF FirstDated
<1>2. dayed \in SUBSET Nat /\ \A i \in dayed : i \in 1..n /\ told[i].day # 0
  OBVIOUS
<1> HIDE DEF dayed
<1>3. CASE dayed = {}
  BY <1>1, <1>3
<1>4. CASE dayed # {}
  <2>1. Earliest(dayed) \in dayed
    BY <1>2, <1>4, EarliestIsFirst
  <2> QED
    BY <1>1, <1>2, <1>4, <2>1
<1> QED
  BY <1>3, <1>4

LEMMA NoticeType ==
    ASSUME NEW e \in Read
    PROVE  NoticeRead(e) \in Readings
<1> DEFINE Notices0 == [day : 0..LastDay, kind : {"none"} \cup NoticeKinds]
<1>1. e.notices \in Seq(Notices0)
  BY DEF Read
<1>2. Notices0 \subseteq Readings
  BY DEF Readings
<1> HIDE DEF Notices0
<1>3. DOMAIN e.notices = 1..Len(e.notices) /\ Len(e.notices) \in Nat
  BY <1>1
<1>4. \A i \in 1..Len(e.notices) : e.notices[i] \in Notices0
  BY <1>1
<1>5. \/ NoticeOf(e.notices) = NoReading
      \/ \E i \in 1..Len(e.notices) : NoticeOf(e.notices) = e.notices[i]
  BY <1>3, FirstDatedIsOneOf DEF NoticeOf
<1>6. NoticeOf(e.notices) \in Readings
  BY <1>2, <1>4, <1>5, NoReadingType
<1> QED
  BY <1>6, NoReadingType DEF NoticeRead

LEMMA EightKType ==
    ASSUME NEW eightks \in SUBSET [filed : Days, day : Days, kind : EightKKinds],
           NEW lo \in Int, NEW hi \in Int, NEW anchor \in Int
    PROVE  EightKWindow(eightks, lo, hi, anchor) \in Readings
<1> DEFINE read == {f \in eightks : f.filed \in lo..hi}
           best == {f \in read : \A g \in read : Rank(f.kind) <= Rank(g.kind)}
           nearest == CHOOSE f \in best : \A g \in best : Apart(f.filed, anchor) <= Apart(g.filed, anchor)
<1>1. EightKWindow(eightks, lo, hi, anchor) = IF read = {} THEN NoReading ELSE Reading(nearest)
  BY DEF EightKWindow
<1>2. read \subseteq eightks /\ \A f \in eightks : f.filed \in Nat
  BY DEF Days
<1>3. best \subseteq read
  OBVIOUS
<1>4. ASSUME read # {} PROVE best # {}
  <2> DEFINE rank == [f \in read |-> Rank(f.kind)]
  <2>1. rank \in [read -> Nat]
    BY DEF Rank
  <2>2. PICK f \in read : \A g \in read : rank[f] <= rank[g]
    <3> HIDE DEF rank, read
    <3> QED
      BY <1>4, <2>1, LeastMeasured
  <2> QED
    BY <2>2
<1>5. ASSUME best # {} PROVE nearest \in best
  <2> DEFINE far == [f \in best |-> Apart(f.filed, anchor)]
  <2>1. \A f \in best : f.filed \in Nat
    BY <1>2, <1>3
  <2>2. far \in [best -> Nat]
    <3> SUFFICES ASSUME NEW f \in best PROVE Apart(f.filed, anchor) \in Nat
      OBVIOUS
    <3> HIDE DEF best
    <3>1. f.filed \in Int
      BY <2>1
    <3> QED
      BY <3>1 DEF Apart
  <2>3. PICK f \in best : \A g \in best : far[f] <= far[g]
    <3> HIDE DEF far, best
    <3> QED
      BY <1>5, <2>2, LeastMeasured
  <2>4. \A g \in best : Apart(f.filed, anchor) <= Apart(g.filed, anchor)
    BY <2>3
  <2> HIDE DEF best, far
  <2> QED
    BY <2>4
<1> HIDE DEF read, best, nearest
<1>6. CASE read = {}
  BY <1>1, <1>6, NoReadingType
<1>7. CASE read # {}
  <2>1. nearest \in eightks
    BY <1>2, <1>3, <1>4, <1>5, <1>7
  <2>2. Reading(nearest) \in Readings
    BY <2>1, NoReadingType DEF Reading, Readings, Days
  <2> QED
    BY <1>1, <1>7, <2>2
<1> QED
  BY <1>6, <1>7

LEMMA EightKReadType ==
    ASSUME NEW e \in Read
    PROVE  EightKRead(e) \in Readings
<1>1. /\ e.eightks \in SUBSET [filed : Days, day : Days, kind : EightKKinds]
      /\ e.filed \in Int /\ e.seen \in Int /\ LastDay \in Nat
  BY LastTradeAssumption DEF Read, Days
<1>2. EightKBefore \in Nat /\ EightKGroupAfter \in Nat /\ EightKAfter \in Nat
  BY LastTradeAssumption
<1> DEFINE hi == IF e.how = "group" THEN e.filed + EightKGroupAfter ELSE Max2(e.filed, e.seen) + EightKAfter
<1>3. e.filed - EightKBefore \in Int /\ hi \in Int
  BY <1>1, <1>2 DEF Max2
<1>4. EightKRead(e) = EightKWindow(e.eightks, e.filed - EightKBefore, hi, e.filed)
  BY DEF EightKRead
<1> HIDE DEF hi
<1> QED
  BY <1>1, <1>3, <1>4, EightKType

(* The day decided is of its source: the volume's is the volume's day, a halt's the
   halt's. *)
LEMMA DecidedBySource ==
    ASSUME NEW n \in Readings, NEW k \in Readings, NEW midas \in 0..LastDay, NEW halt \in 0..LastDay
    PROVE  /\ Decide(n, k, midas, halt) \in Datings
           /\ Decide(n, k, midas, halt).source = "midas" => Decide(n, k, midas, halt).day = midas
           /\ Decide(n, k, midas, halt).source = "halt" => Decide(n, k, midas, halt).day = halt
<1> DEFINE told == Sources(n, k, midas, halt)
           Own(d) == /\ d \in Datings
                     /\ d.source = "midas" => d.day = midas
                     /\ d.source = "halt" => d.day = halt
<1>1. DOMAIN told = 1..8
  BY DEF Sources
<1>2. n.day \in 0..LastDay /\ k.day \in 0..LastDay /\ LastDay \in Nat
  BY LastTradeAssumption DEF Readings
<1>3. Own(told[1]) /\ Own(told[2]) /\ Own(told[3]) /\ Own(told[4])
  BY <1>2 DEF Sources, Dated, Datings
<1>4. Own(told[5]) /\ Own(told[6]) /\ Own(told[7]) /\ Own(told[8])
  BY <1>2 DEF Sources, Dated, Datings
<1>5. Own(NoDay)
  BY <1>2 DEF NoDay, Dated, Datings
<1>6. Decide(n, k, midas, halt) = FirstDated(told, NoDay)
  BY DEF Decide
<1> HIDE DEF told, Own
<1>7. \A i \in 1..8 : Own(told[i])
  BY <1>3, <1>4
<1>8. Own(Decide(n, k, midas, halt))
  <2>1. FirstDated(told, NoDay) = NoDay \/ \E i \in 1..8 : FirstDated(told, NoDay) = told[i]
    BY <1>1, FirstDatedIsOneOf, ZenonT(60)
  <2> QED
    BY <1>5, <1>6, <1>7, <2>1
<1> QED
  BY <1>8 DEF Own

-------------------------------------------------------------------------------
(* The volume and the halts under the ticker *)

LEMMA TextDaysType ==
    ASSUME NEW e \in Read
    PROVE  TextsOf(e) \in SUBSET Days
<1>1. NoticeRead(e).day \in 0..LastDay /\ EightKRead(e).day \in 0..LastDay /\ LastDay \in Nat
  BY NoticeType, EightKReadType, NoReadingType DEF Readings
<1> QED
  BY <1>1 DEF TextsOf, TextDays, Days

(* A day the texts put before it is the security's own only before the ticker's next
   tenure. *)
IsOwn(e, texts, day) == \A d \in texts : d < day => e.tenure = 0 \/ day < e.tenure

LEMMA NotOverrunIsOwn ==
    ASSUME NEW e \in Read, NEW texts \in SUBSET Days, NEW day \in 0..LastDay, ~Overrun(e, texts, day)
    PROVE  IsOwn(e, texts, day)
<1> SUFFICES ASSUME NEW d \in texts, d < day PROVE e.tenure = 0 \/ day < e.tenure
  BY DEF IsOwn
<1>1. texts \in SUBSET Nat /\ texts # {} /\ LastDay \in Nat /\ e.tenure \in 0..LastDay
  BY ReadFields
<1>2. Earliest(texts) \in Nat /\ Earliest(texts) <= d
  BY <1>1, EarliestIsFirst
<1>3. Earliest(texts) < day
  BY <1>1, <1>2
<1> QED
  BY <1>1, <1>3 DEF Overrun

LEMMA MidasIsOwn ==
    ASSUME NEW e \in Read, NEW texts \in SUBSET Days, NEW until \in Int, NEW still \in Int
    PROVE  MidasDay(e, texts, until, still) \in 0..LastDay /\ IsOwn(e, texts, MidasDay(e, texts, until, still))
<1> DEFINE day == StoppedBy(VolumeUntil(e, until), still)
           cut == Min2(until, e.tenure - 1)
           own == StoppedBy(VolumeUntil(e, cut), still)
<1>1. LastDay \in Nat /\ e.tenure \in 0..LastDay
  BY LastTradeAssumption DEF Read
<1>2. cut \in Int /\ cut <= e.tenure - 1
  BY <1>1 DEF Min2
<1>3. day \in 0..LastDay
  BY <1>1, VolumeDay DEF StoppedBy
<1>4. own \in 0..LastDay /\ (own # 0 => own < e.tenure)
  <2> HIDE DEF cut
  <2>1. VolumeUntil(e, cut) \in 0..LastDay /\ (VolumeUntil(e, cut) # 0 => VolumeUntil(e, cut) <= cut)
    BY <1>2, VolumeDay
  <2>2. own = 0 \/ own = VolumeUntil(e, cut)
    BY DEF StoppedBy
  <2> QED
    BY <1>1, <1>2, <2>1, <2>2
<1>5. MidasDay(e, texts, until, still) = IF Overrun(e, texts, day) THEN own ELSE day
  BY DEF MidasDay
<1> HIDE DEF day, own
<1>6. CASE ~Overrun(e, texts, day)
  BY <1>3, <1>5, <1>6, NotOverrunIsOwn
<1>7. CASE Overrun(e, texts, day)
  <2>1. IsOwn(e, texts, own)
    BY <1>1, <1>4 DEF IsOwn, Days
  <2> QED
    BY <1>4, <1>5, <1>7, <2>1
<1> QED
  BY <1>6, <1>7

LEMMA HaltIsOwn ==
    ASSUME NEW e \in Read, NEW texts \in SUBSET Days, NEW guesses, NEW near
    PROVE  LET halt == IF near THEN HaltDay(e, texts, guesses) ELSE 0
           IN  halt \in 0..LastDay /\ IsOwn(e, texts, halt)
<1>1. LastDay \in Nat /\ e.halt \in 0..LastDay
  BY LastTradeAssumption DEF Read
<1>2. IsOwn(e, texts, 0)
  BY <1>1 DEF IsOwn, Days
<1>3. ~Overrun(e, texts, e.halt) => IsOwn(e, texts, e.halt)
  BY <1>1, NotOverrunIsOwn
<1>4. HaltDay(e, texts, guesses) = 0 \/ (~Overrun(e, texts, e.halt) /\ HaltDay(e, texts, guesses) = e.halt)
  BY DEF HaltDay
<1> QED
  BY <1>1, <1>2, <1>3, <1>4

(* What the texts, the volume and the halts decide together. *)
LEMMA ReadIsOwn ==
    ASSUME NEW e \in Read, NEW still \in Int, NEW guesses
    PROVE  /\ ReadAt(e, still, guesses) \in Datings
           /\ ReadAt(e, still, guesses).source \in {"midas", "halt"} => IsOwn(e, TextsOf(e), ReadAt(e, still, guesses).day)
<1> DEFINE texts == TextsOf(e)
           midas == MidasDay(e, texts, still + MidasAfter, still)
           about == IF texts = {} THEN guesses ELSE texts
           halt == IF midas = 0 THEN HaltDay(e, texts, about) ELSE 0
           read == Decide(NoticeRead(e), EightKRead(e), midas, halt)
<1>1. ReadAt(e, still, guesses) = read
  BY DEF ReadAt
<1>2. texts \in SUBSET Days
  BY TextDaysType
<1>3. midas \in 0..LastDay /\ IsOwn(e, texts, midas)
  <2>1. still + MidasAfter \in Int
    BY LastTradeAssumption
  <2> HIDE DEF texts
  <2> QED
    BY <1>2, <2>1, MidasIsOwn
<1>4. halt \in 0..LastDay /\ IsOwn(e, texts, halt)
  <2> HIDE DEF texts, midas, about
  <2> QED
    BY <1>2, HaltIsOwn
<1>5. NoticeRead(e) \in Readings /\ EightKRead(e) \in Readings
  BY NoticeType, EightKReadType
<1> HIDE DEF texts, midas, halt
<1>6. /\ read \in Datings
      /\ read.source = "midas" => read.day = midas
      /\ read.source = "halt" => read.day = halt
  BY <1>3, <1>4, <1>5, DecidedBySource
<1> HIDE DEF read
<1>7. read.source \in {"midas", "halt"} => IsOwn(e, texts, read.day)
  BY <1>3, <1>4, <1>6
<1> QED
  BY <1>1, <1>6, <1>7 DEF texts

-------------------------------------------------------------------------------
(* The day of an ending *)

(* Another reading than the volume's or a halt's. *)
LEMMA ClosingType ==
    ASSUME NEW e \in Read, NEW lo \in Int, NEW hi \in Int, NEW shown \in 0..LastDay
    PROVE  ClosingDay(e, lo, hi, shown) \in
               [day : 0..LastDay, source : {"none", "closing"}, sure : BOOLEAN]
<1> DEFINE told == {c \in e.completions : c.day \in lo..hi}
           days == {c.day : c \in told}
           last == Lately(days)
           read == ClosingRead(e.completions, lo, hi)
<1>1. LastDay \in Nat /\ \A c \in e.completions : c.day \in Days
  BY LastTradeAssumption DEF Read
<1>2. days \in SUBSET Days /\ (told # {} => days # {})
  BY <1>1
<1>3. told # {} => last \in Days
  <2> HIDE DEF days, told
  <2>1. days \in SUBSET (0..LastDay)
    BY <1>1, <1>2 DEF Days
  <2>2. days # {} => Lately(days) \in days
    BY <1>1, <2>1, LatelyIsOneOf
  <2> QED
    BY <1>2, <2>2
<1>4. read = NoClosing \/ read.day \in 0..LastDay
  <2>1. \/ told = {} /\ read = NoClosing
        \/ told # {} /\ (read.day = last \/ read.day = last - 1)
    BY DEF ClosingRead
  <2> HIDE DEF told, last, read
  <2> QED
    BY <1>1, <1>3, <2>1 DEF Days
<1>5. ClosingDay(e, lo, hi, shown) =
         IF read = NoClosing THEN NoDay
         ELSE Dated(IF ~read.before /\ read.day < shown /\ shown <= hi THEN shown ELSE read.day, "closing", FALSE)
  BY DEF ClosingDay
<1> HIDE DEF read
<1> QED
  BY <1>1, <1>4, <1>5 DEF NoDay, Dated

LEMMA DateIsOwn ==
    ASSUME NEW e \in Read
    PROVE  /\ DateOf(e) \in Endings
           /\ DateOf(e).source \in {"midas", "halt"} /\ e.how # "drop" => IsOwn(e, TextsOf(e), DateOf(e).day)
<1>1. /\ LastDay \in Nat /\ e.filed \in 0..LastDay /\ e.seen \in 0..LastDay /\ e.shown \in 0..LastDay
      /\ e.done \in 0..LastDay
      /\ e.how = "group" \/ e.how = "fallback" \/ e.how = "drop"
  BY ReadFields DEF Read
<1>2. \A n \in {Effective, StillTrading, ClosingBefore, ClosingAfter} : n \in Nat
  BY LastTradeAssumption
<1> DEFINE Own(t) == t \in Endings /\ (t.source \in {"midas", "halt"} => IsOwn(e, TextsOf(e), t.day))
           Closing == [day : 0..LastDay, source : {"none", "closing"}, sure : BOOLEAN]
<1>3. \A t \in Closing : Own(t)
  BY DEF Endings
<1>4. \A d \in 0..LastDay : Own(Dated(d, "closing", FALSE)) /\ Own(Dated(d, "unsourced", FALSE))
  BY DEF Endings, Dated
<1>5. CASE e.how = "group"
  <2> DEFINE read == GroupReading(e)
             closing == ClosingDay(e, e.filed - ClosingBefore, e.filed, e.shown)
  <2>1. Own(read)
    <3>1. e.filed + Effective + StillTrading \in Int
      BY <1>1, <1>2
    <3> QED
      BY <3>1, ReadIsOwn, ZenonT(60) DEF GroupReading, Datings, Endings
  <2>2. Own(closing)
    <3>1. e.filed - ClosingBefore \in Int /\ e.filed \in Int
      BY <1>1, <1>2
    <3>2. closing \in Closing
      BY <1>1, <3>1, ClosingType
    <3> HIDE DEF closing, Own, Closing
    <3> QED
      BY <1>3, <3>2
  <2>3. Own(Dated(e.filed, "closing", FALSE))
    BY <1>1, <1>4
  <2>4. \/ DateOf(e) = read \/ DateOf(e) = closing \/ DateOf(e) = Dated(e.filed, "closing", FALSE)
    BY <1>5 DEF DateOf, OfGroup
  <2> HIDE DEF read, closing, Own
  <2>5. Own(DateOf(e))
    BY <2>1, <2>2, <2>3, <2>4
  <2> QED
    BY <2>5 DEF Own
<1>6. CASE e.how = "fallback"
  <2> DEFINE read == SingleReading(e)
             closing == IF e.done = 0 THEN NoDay ELSE ClosingDay(e, e.done - ClosingBefore, e.done + ClosingAfter, 0)
  <2>1. Own(read)
    <3>1. e.filed + StillTrading \in Int
      BY <1>1, <1>2
    <3> QED
      BY <3>1, ReadIsOwn, ZenonT(60) DEF SingleReading, Datings, Endings
  <2>2. Own(closing)
    <3>1. e.done - ClosingBefore \in Int /\ e.done + ClosingAfter \in Int /\ 0 \in 0..LastDay
      BY <1>1, <1>2
    <3>2. NoDay \in Closing
      BY <3>1 DEF NoDay, Dated
    <3>3. closing \in Closing
      BY <3>1, <3>2, ClosingType
    <3> HIDE DEF closing, Own, Closing
    <3> QED
      BY <1>3, <3>3
  <2>3. Own(Dated(e.seen, "unsourced", FALSE))
    BY <1>1, <1>4
  <2>4. \/ DateOf(e) = read \/ DateOf(e) = closing \/ DateOf(e) = Dated(e.seen, "unsourced", FALSE)
    BY <1>6 DEF DateOf, OfFallback
  <2> HIDE DEF read, closing, Own
  <2>5. Own(DateOf(e))
    BY <2>1, <2>2, <2>3, <2>4
  <2> QED
    BY <2>5 DEF Own
<1>7. CASE e.how = "drop"
  <2>1. MidasLast(e) \in 0..LastDay
    BY <1>1, VolumeDay DEF MidasLast
  <2>2. DateOf(e) = Dated(MidasLast(e), "midas", TRUE) \/ DateOf(e) = NoEnding
    BY <1>7 DEF DateOf, MidasDrop
  <2>3. \A d \in 0..LastDay : Dated(d, "midas", TRUE) \in Endings
    BY DEF Dated, Endings
  <2>4. NoEnding \in Endings
    BY <1>1 DEF NoEnding, Dated, Endings
  <2> QED
    BY <1>7, <2>1, <2>2, <2>3, <2>4
<1> QED
  BY <1>1, <1>5, <1>6, <1>7

-------------------------------------------------------------------------------
(* The rewrites of a row: what each keeps of it *)

Flags == Doubts \cup {"close", "continuation", "unexplained"}

LEMMA NoRowIsNoRow == NoRow \notin Rows /\ (\A r \in Rows : r # NoRow) /\ NoRow.kind = "no row"
<1>1. \A r \in Rows : r.kind \in Kinds
  BY DEF Rows
<1>2. NoRow.kind = "no row" /\ "no row" \notin Kinds
  BY DEF NoRow, Kinds
<1> QED
  BY <1>1, <1>2

LEMMA DayFacts ==
    /\ LastDay \in Nat /\ LastDay \in 0..LastDay /\ 0 \in 0..LastDay
    /\ TakenOn \in Nat /\ TakenOn - 1 \in 0..LastDay /\ TakenOn - 1 < TakenOn
    /\ Days \subseteq 0..LastDay
BY LastTradeAssumption, EndingStagesAssumption DEF Days

LEMMA RowType ==
    ASSUME NEW kind \in Kinds, NEW succ \in {A, B, X, None}, NEW flags \in SUBSET Flags,
           NEW day \in 0..LastDay, NEW print \in BOOLEAN, NEW sure \in BOOLEAN
    PROVE  Row(kind, succ, flags, day, print, sure) \in Rows
BY DEF Row, Rows, Flags

LEMMA ContinueType ==
    ASSUME NEW r \in Rows, NEW to \in {A, B, X, None}, NEW mark \in SUBSET Flags
    PROVE  /\ Continue(r, to, mark) \in Rows
           /\ Continue(r, to, mark).kind = "transfer" /\ Continue(r, to, mark).succ = to
           /\ Continue(r, to, mark).day = r.day /\ Continue(r, to, mark).print = r.print
           /\ Continue(r, to, mark).flags = (r.flags \ Doubts) \cup mark
BY DEF Continue, Rows, Flags, Kinds

LEMMA GoOnType ==
    ASSUME NEW r \in Rows
    PROVE  /\ GoOn(r) \in Rows /\ GoOn(r).succ = r.sec /\ GoOn(r).sec = r.sec
           /\ GoOn(r).kind = r.kind /\ GoOn(r).day = r.day /\ GoOn(r).print = r.print
BY DEF GoOn, Rows

LEMMA ReclassifyType ==
    ASSUME NEW r \in Rows, NEW kind \in Kinds
    PROVE  /\ Reclassify(r, kind) \in Rows /\ Reclassify(r, kind).kind = kind
           /\ Reclassify(r, kind).succ = r.succ /\ Reclassify(r, kind).day = r.day
           /\ Reclassify(r, kind).print = r.print
BY DEF Reclassify, Rows

LEMMA FlaggedType ==
    ASSUME NEW r \in Rows, NEW v
    PROVE  /\ Flagged(r, v) \in Rows /\ Flagged(r, v).kind = r.kind /\ Flagged(r, v).succ = r.succ
           /\ Flagged(r, v).day = r.day /\ Flagged(r, v).print = r.print
BY DEF Flagged, Rows, Doubts

LEMMA CloseFlagType ==
    ASSUME NEW r \in Rows
    PROVE  /\ CloseFlag(r) \in Rows /\ CloseFlag(r).kind = r.kind /\ CloseFlag(r).succ = r.succ
           /\ CloseFlag(r).day = r.day /\ CloseFlag(r).print = r.print
           /\ "successor_unknown" \in CloseFlag(r).flags <=> "successor_unknown" \in r.flags
BY DEF CloseFlag, Rows

(* Before the successor's first day: the cap of a day no print states. *)
LEMMA BeforeSuccessorType ==
    ASSUME NEW r \in Rows
    PROVE  /\ BeforeSuccessor(r) \in Rows
           /\ BeforeSuccessor(r).kind = r.kind /\ BeforeSuccessor(r).succ = r.succ
           /\ BeforeSuccessor(r).print \/ BeforeSuccessor(r).day < TakenOn
<1>1. r.day \in 0..LastDay /\ r.day \in Nat
  BY DayFacts DEF Rows
<1>2. CASE r.day >= TakenOn /\ ~r.print
  <2>1. BeforeSuccessor(r) = [r EXCEPT !.day = TakenOn - 1]
    BY <1>2 DEF BeforeSuccessor
  <2> QED
    BY <2>1, DayFacts DEF Rows
<1>3. CASE ~(r.day >= TakenOn /\ ~r.print)
  <2>1. BeforeSuccessor(r) = r
    BY <1>3 DEF BeforeSuccessor
  <2>2. r.print \/ r.day < TakenOn
    BY <1>1, <1>3, DayFacts
  <2> QED
    BY <2>1, <2>2
<1> QED
  BY <1>2, <1>3

LEMMA HandoffDayType ==
    ASSUME NEW last \in Days
    PROVE  HandoffDay(last) \in 0..LastDay /\ HandoffDay(last) < TakenOn
<1>1. last \in 0..LastDay
  BY DayFacts
<1> QED
  BY <1>1, DayFacts DEF HandoffDay

LEMMA AtHandoffType ==
    ASSUME NEW r \in Rows, NEW last \in Days
    PROVE  /\ AtHandoff(r, last) \in Rows
           /\ AtHandoff(r, last).kind = r.kind /\ AtHandoff(r, last).succ = r.succ
           /\ AtHandoff(r, last).print \/ AtHandoff(r, last).day < TakenOn
<1>1. CASE r.day = 0
  <2>1. AtHandoff(r, last) = [r EXCEPT !.day = HandoffDay(last), !.print = FALSE, !.sure = TRUE]
    BY <1>1 DEF AtHandoff
  <2> QED
    BY <2>1, HandoffDayType DEF Rows
<1>2. CASE r.day # 0
  BY <1>2, BeforeSuccessorType DEF AtHandoff
<1> QED
  BY <1>1, <1>2

LEMMA HandoffRowType ==
    ASSUME NEW last \in Days
    PROVE  /\ HandoffRow(last) \in Rows /\ HandoffRow(last).kind = "transfer" /\ HandoffRow(last).succ = B
           /\ HandoffRow(last).day < TakenOn
<1>1. "transfer" \in Kinds /\ {"continuation"} \in SUBSET Flags
  BY DEF Kinds, Flags
<1>2. HandoffRow(last) \in Rows
  BY <1>1, HandoffDayType, RowType DEF HandoffRow
<1> QED
  BY <1>2, HandoffDayType DEF HandoffRow, Row

LEMMA HandOverType ==
    ASSUME NEW r \in Rows, NEW last \in Days
    PROVE  /\ HandOver(r, last) \in Rows /\ HandOver(r, last).kind = "transfer" /\ HandOver(r, last).succ = B
           /\ HandOver(r, last).print \/ HandOver(r, last).day < TakenOn
<1> DEFINE c == IF r.kind = "transfer" /\ r.succ = B THEN r ELSE Continue(r, B, {"continuation"})
<1>1. {"continuation"} \in SUBSET Flags
  BY DEF Flags
<1>2. c \in Rows /\ c.kind = "transfer" /\ c.succ = B
  BY <1>1, ContinueType
<1>3. HandOver(r, last) = AtHandoff(c, last)
  BY DEF HandOver
<1> HIDE DEF c
<1> QED
  BY <1>2, <1>3, AtHandoffType

LEMMA StandType ==
    ASSUME NEW r \in Rows, NEW h, h.elsewhere \in BOOLEAN, NEW blind \in BOOLEAN
    PROVE  /\ Stand(r, h, blind) \in Rows
           /\ Stand(r, h, blind).kind = r.kind /\ Stand(r, h, blind).succ = r.succ
           /\ h.elsewhere \/ Stand(r, h, blind).print \/ Stand(r, h, blind).day < TakenOn
<1> DEFINE c == IF h.decision = "takeover" THEN [r EXCEPT !.tick = B]
                ELSE IF r.succ \in {None, B} /\ r.kind = "merger" /\ h.decision = "cusip" /\ blind
                     THEN [r EXCEPT !.flags = @ \cup {"unchecked"}] ELSE r
<1>1. c \in Rows /\ c.kind = r.kind /\ c.succ = r.succ
  BY DEF Rows, Doubts
<1>2. Stand(r, h, blind) = IF h.elsewhere THEN c ELSE BeforeSuccessor(c)
  BY DEF Stand, BeforeTaker
<1> HIDE DEF c
<1> QED
  BY <1>1, <1>2, BeforeSuccessorType

LEMMA FromNoticeType ==
    ASSUME NEW r \in Rows, NEW n \in FromNotice(r)
    PROVE  /\ n \in Rows /\ n.kind = r.kind /\ n.succ = r.succ
           /\ n.print \/ (n.print = r.print /\ n.day = r.day)
<1>1. \A t \in NoticeDays : t.day \in 0..LastDay
  <2>1. \A k \in [day : Days, kind : NoticeKinds] : Decide(k, NoReading, 0, 0) \in Datings
    <3> TAKE k \in [day : Days, kind : NoticeKinds]
    <3>1. k \in Readings
      BY DayFacts DEF Readings
    <3> QED
      BY <3>1, DayFacts, NoReadingType, DecidedBySource
  <2>2. \A t \in NoticeDays : t \in Datings
    BY <2>1 DEF NoticeDays
  <2> QED
    BY <2>2 DEF Datings
<1>2. CASE n = r
  BY <1>2
<1>3. CASE n # r
  <2>1. PICK t \in NoticeDays : n = [r EXCEPT !.day = t.day, !.print = TRUE, !.sure = TRUE]
    BY <1>3 DEF FromNotice
  <2> QED
    BY <1>1, <2>1 DEF Rows
<1> QED
  BY <1>2, <1>3

(* The finder's row names no successor while one may still be found for it. *)
LEMMA FoundByType ==
    ASSUME NEW e, NEW t \in Endings, NEW r \in FoundBy(e, t)
    PROVE  r = NoRow \/ (r \in Rows /\ OpenNamesNone(r))
<1> DEFINE Of(kind, succ, flags) == Row(kind, succ, flags, t.day, t.source \in Prints, t.sure)
<1>1. t.day \in 0..LastDay /\ t.sure \in BOOLEAN
  BY DEF Endings
<1>2. \A k \in Kinds, s \in {A, B, X, None}, f \in SUBSET Flags :
         /\ Of(k, s, f) \in Rows /\ Of(k, s, f).kind = k /\ Of(k, s, f).succ = s /\ Of(k, s, f).flags = f
  <2> TAKE k \in Kinds, s \in {A, B, X, None}, f \in SUBSET Flags
  <2>1. (t.source \in Prints) \in BOOLEAN
    OBVIOUS
  <2>2. Of(k, s, f) \in Rows
    BY <1>1, <2>1, RowType
  <2> QED
    BY <2>2 DEF Row
<1>3. Kinds = {"merger", "transfer", "bankrupt", "dropped", "price", "unknown", "expired"}
  BY DEF Kinds
<1>4. {} \in SUBSET Flags /\ {"no_evidence"} \in SUBSET Flags /\ {"successor_unknown"} \in SUBSET Flags
  BY DEF Flags, Doubts
<1>5. \/ r = NoRow
      \/ r = Of("dropped", None, {})
      \/ r = Of("unknown", None, {}) \/ r = Of("unknown", None, {"no_evidence"})
      \/ r = Of("transfer", A, {})
      \/ r = Of("transfer", None, {"successor_unknown"})
      \/ \E k \in {"merger", "bankrupt", "dropped", "expired"} : r = Of(k, None, {})
  BY DEF FoundBy
<1> HIDE DEF Of
<1> QED
  BY <1>2, <1>3, <1>4, <1>5 DEF OpenNamesNone, Awaits

LEMMA LineEndingType ==
    ASSUME NEW k \in Kinds
    PROVE  LineEnding(k) \in Rows /\ LineEnding(k).day = LastDay
<1>1. (IF k = "transfer" THEN {"successor_unknown"} ELSE {}) \in SUBSET Flags
  BY DEF Flags, Doubts
<1>2. Row(k, None, IF k = "transfer" THEN {"successor_unknown"} ELSE {}, LastDay, TRUE, TRUE) \in Rows
  BY <1>1, RowType, DayFacts
<1> QED
  BY <1>2 DEF LineEnding, Rows, Row

LEMMA UnexplainedType == Unexplained \subseteq Rows
<1> SUFFICES ASSUME NEW e \in Sighted
             PROVE  LET t == UnexplainedDay(e)
                    IN  Row("unknown", None, {"unexplained"}, t.day, t.source \in Prints, t.sure) \in Rows
  BY DEF Unexplained
<1> DEFINE t == UnexplainedDay(e)
           T == {d \in e.volume : d <= e.seen}
<1>1. /\ e.shown \in 0..LastDay /\ e.seen \in 0..LastDay /\ T \in SUBSET (0..LastDay)
  BY DayFacts DEF Sighted
<1>2. MidasLast(e) = Lately(T)
  BY DEF MidasLast, VolumeUntil
<1> HIDE DEF T
<1>3. MidasLast(e) \in 0..LastDay
  <2>1. T # {} => Lately(T) \in T
    BY <1>1, DayFacts, LatelyIsOneOf
  <2>2. T = {} => Lately(T) = 0
    BY DEF Lately
  <2> QED
    BY <1>1, <1>2, <2>1, <2>2, DayFacts
<1>4. t.day \in 0..LastDay /\ t.sure \in BOOLEAN
  BY <1>1, <1>3 DEF UnexplainedDay, Dated
<1>5. "unknown" \in Kinds /\ {"unexplained"} \in SUBSET Flags /\ (t.source \in Prints) \in BOOLEAN
  BY DEF Kinds, Flags
<1> HIDE DEF t
<1> QED
  BY <1>4, <1>5, RowType DEF t

LEMMA ValuesOnType ==
    ASSUME NEW day \in 0..LastDay, NEW sources \in SUBSET {"caller", "read"}, NEW v \in ValuesOn(day, sources)
    PROVE  v \in Values /\ v.day = day
BY DEF ValuesOn, Values

LEMMA RestateType ==
    ASSUME NEW v \in Values
    PROVE  Restate(v) \in Values /\ Restate(v).day = v.day
BY DEF Restate, Values

-------------------------------------------------------------------------------
(* Each stage keeps the invariant *)

LEMMA SlotsAre == Slots = {"found", "handoff", "line", "unexplained"}
BY DEF Slots

(* What the invariant says of the rows and the values one by one. *)
LEMMA RowsAndValues ==
    ASSUME StagesInv
    PROVE  /\ \A s \in Slots : rows[s] = NoRow \/ rows[s] \in Rows
           /\ \A s \in Slots : values[s] = NoValue \/ values[s] \in Values
           /\ \A s \in Slots : closes[s] \in 0..LastDay
           /\ \A s \in Live(rows) : s \in Slots /\ rows[s] \in Rows /\ rows[s].day \in 0..LastDay
           /\ DOMAIN rows = Slots /\ DOMAIN values = Slots /\ DOMAIN closes = Slots
<1>1. StageShapes
  BY DEF StagesInv
<1>2. /\ \A s \in Slots : rows[s] = NoRow \/ rows[s] \in Rows
      /\ \A s \in Slots : values[s] = NoValue \/ values[s] \in Values
      /\ \A s \in Slots : closes[s] \in 0..LastDay
      /\ DOMAIN rows = Slots /\ DOMAIN values = Slots /\ DOMAIN closes = Slots
  BY <1>1 DEF StageShapes
<1>3. \A s \in Live(rows) : s \in Slots /\ rows[s] \in Rows
  BY <1>2 DEF Live
<1>4. \A r \in Rows : r.day \in 0..LastDay
  BY DEF Rows
<1> QED
  BY <1>2, <1>3, <1>4

LEMMA InitHolds ==
    ASSUME Init
    PROVE  StagesInv
<1> USE DEF Init
<1>1. StageShapes
  BY DayFacts DEF StageShapes, NoHandoff, Decisions
<1>2. DatedByTheFinder
  BY EvidenceAssumption DEF DatedByTheFinder, ToFind
<1>3. SlotsInTurn
  BY SlotsAre DEF SlotsInTurn, NoRow, NoValue
<1>4. OpenRowsNameNone
  BY SlotsAre DEF OpenRowsNameNone
<1>5. ReadOnItsDay /\ EndsBeforeTheTaker
  BY DEF ReadOnItsDay, EndsBeforeTheTaker, ToClose, ToFind, ToHandOver, ToValue
<1> QED
  BY <1>1, <1>2, <1>3, <1>4, <1>5 DEF StagesInv

LEMMA DateEndingHolds ==
    ASSUME StagesInv, DateEnding
    PROVE  StagesInv'
<1>1. /\ stage = "dating" /\ stage' = "finding" /\ dated' = DateOf(evidence) /\ evidence' = evidence
      /\ UNCHANGED <<rows, closes, values, redated, handed>>
  BY DEF DateEnding, At, GoTo
<1>2. StageShapes /\ DatedByTheFinder /\ SlotsInTurn /\ OpenRowsNameNone
  BY DEF StagesInv
<1>3. StageShapes'
  BY <1>1, <1>2 DEF StageShapes
<1>4. DatedByTheFinder'
  BY <1>1, <1>2 DEF DatedByTheFinder, ToFind
<1>5. SlotsInTurn'
  BY <1>1, <1>2 DEF SlotsInTurn, ToFind, ToClose, ToValue, ToHandOver, ToFollow
<1>6. OpenRowsNameNone'
  BY <1>1, <1>2 DEF OpenRowsNameNone, ToFind, ToClose, ToValue, ToHandOver, Awaits
<1>7. ReadOnItsDay' /\ EndsBeforeTheTaker'
  BY <1>1 DEF ReadOnItsDay, EndsBeforeTheTaker, ToClose, ToFind, ToHandOver, ToValue
<1> QED
  BY <1>3, <1>4, <1>5, <1>6, <1>7 DEF StagesInv

LEMMA FindEndingHolds ==
    ASSUME StagesInv, FindEnding
    PROVE  StagesInv'
<1>1. PICK r \in FoundBy(evidence, dated) :
         /\ stage = "finding" /\ stage' = "closes" /\ rows' = [rows EXCEPT !["found"] = r]
         /\ UNCHANGED <<closes, values, redated, handed>>
  BY DEF FindEnding, At, GoTo
<1>2. StageShapes /\ DatedByTheFinder /\ SlotsInTurn
  BY DEF StagesInv
<1>3. r = NoRow \/ (r \in Rows /\ OpenNamesNone(r))
  <2>1. evidence \in Read /\ dated = DateOf(evidence)
    BY <1>1, <1>2 DEF DatedByTheFinder, ToFind
  <2>2. dated \in Endings
    BY <2>1, DateIsOwn
  <2> QED
    BY <1>1, <2>2, FoundByType
<1>4. /\ rows'["found"] = r /\ rows' \in [Slots -> Rows \cup {NoRow}]
      /\ \A s \in {"handoff", "line", "unexplained"} : rows'[s] = rows[s]
  BY <1>1, <1>2, <1>3, SlotsAre DEF StageShapes
<1>5. StageShapes'
  BY <1>1, <1>2, <1>4 DEF StageShapes
<1>6. DatedByTheFinder'
  BY <1>1 DEF DatedByTheFinder, ToFind
<1>7. SlotsInTurn'
  BY <1>1, <1>2, <1>4 DEF SlotsInTurn, ToFind, ToClose, ToValue, ToHandOver, ToFollow
<1>8. OpenRowsNameNone'
  BY <1>3, <1>4 DEF OpenRowsNameNone, OpenNamesNone, Awaits
<1>9. ReadOnItsDay' /\ EndsBeforeTheTaker'
  BY <1>1 DEF ReadOnItsDay, EndsBeforeTheTaker, ToClose, ToFind, ToHandOver, ToValue
<1> QED
  BY <1>5, <1>6, <1>7, <1>8, <1>9 DEF StagesInv

(* Reading the closes of some rows: only their flags change, and each close is of its
   row's day. *)
LEMMA ClosesRead ==
    ASSUME NEW rs \in [Slots -> Rows \cup {NoRow}], NEW slots \in SUBSET Live(rs),
           closes \in [Slots -> 0..LastDay], LastTradeCloses(slots, rs)
    PROVE  /\ rows' \in [Slots -> Rows \cup {NoRow}] /\ closes' \in [Slots -> 0..LastDay]
           /\ \A s \in Slots : rs[s] = NoRow <=> rows'[s] = NoRow
           /\ Live(rows') = Live(rs)
           /\ \A s \in Live(rs) :
                 /\ rows'[s].kind = rs[s].kind /\ rows'[s].succ = rs[s].succ /\ rows'[s].day = rs[s].day
                 /\ rows'[s].print = rs[s].print /\ (Awaits(rows'[s]) <=> Awaits(rs[s]))
           /\ \A s \in slots : closes'[s] = rs[s].day
           /\ \A s \in Slots \ slots : closes'[s] = closes[s] /\ rows'[s] = rs[s]
<1>1. \A s \in Slots : rows'[s] = (IF s \in slots THEN CloseFlag(rs[s]) ELSE rs[s])
  BY DEF LastTradeCloses
<1>2. \A s \in Slots : closes'[s] = (IF s \in slots THEN rs[s].day ELSE closes[s])
  BY DEF LastTradeCloses
<1>3. \A s \in slots : s \in Slots /\ rs[s] \in Rows /\ rs[s] # NoRow
  BY DEF Live
<1>4. \A s \in slots : CloseFlag(rs[s]) \in Rows /\ CloseFlag(rs[s]) # NoRow
  BY <1>3, CloseFlagType, NoRowIsNoRow
<1>5. rows' \in [Slots -> Rows \cup {NoRow}]
  <2>1. \A s \in Slots : (IF s \in slots THEN CloseFlag(rs[s]) ELSE rs[s]) \in Rows \cup {NoRow}
    BY <1>4
  <2> QED
    BY <2>1 DEF LastTradeCloses
<1>6. closes' \in [Slots -> 0..LastDay]
  <2>1. \A s \in slots : rs[s].day \in 0..LastDay
    BY <1>3 DEF Rows
  <2>2. \A s \in Slots : (IF s \in slots THEN rs[s].day ELSE closes[s]) \in 0..LastDay
    BY <2>1
  <2> QED
    BY <2>2 DEF LastTradeCloses
<1>7. \A s \in Slots : rs[s] = NoRow <=> rows'[s] = NoRow
  BY <1>1, <1>3, <1>4
<1>8. Live(rows') = Live(rs)
  BY <1>7 DEF Live
<1>9. ASSUME NEW s \in Live(rs)
      PROVE  /\ rows'[s].kind = rs[s].kind /\ rows'[s].succ = rs[s].succ /\ rows'[s].day = rs[s].day
             /\ rows'[s].print = rs[s].print /\ (Awaits(rows'[s]) <=> Awaits(rs[s]))
  <2>1. s \in Slots /\ rs[s] \in Rows
    BY DEF Live
  <2> QED
    BY <1>1, <2>1, CloseFlagType DEF Awaits
<1> QED
  BY <1>1, <1>2, <1>3, <1>5, <1>6, <1>7, <1>8, <1>9

LEMMA ClosesHolds ==
    ASSUME StagesInv, Closes
    PROVE  StagesInv'
<1>1. /\ stage = "closes" /\ stage' = "values" /\ LastTradeCloses(Live(rows), rows)
      /\ UNCHANGED <<values, redated, handed>>
  BY DEF Closes, At, GoTo
<1>2. StageShapes /\ SlotsInTurn /\ OpenRowsNameNone
  BY DEF StagesInv
<1>3. /\ rows' \in [Slots -> Rows \cup {NoRow}] /\ closes' \in [Slots -> 0..LastDay]
      /\ \A s \in Slots : rows[s] = NoRow <=> rows'[s] = NoRow
      /\ Live(rows') = Live(rows)
      /\ \A s \in Live(rows) :
            /\ rows'[s].kind = rows[s].kind /\ rows'[s].succ = rows[s].succ /\ rows'[s].day = rows[s].day
            /\ rows'[s].print = rows[s].print /\ (Awaits(rows'[s]) <=> Awaits(rows[s]))
      /\ \A s \in Live(rows) : closes'[s] = rows[s].day
  <2>1. rows \in [Slots -> Rows \cup {NoRow}] /\ closes \in [Slots -> 0..LastDay]
    BY <1>2 DEF StageShapes
  <2> QED
    BY <1>1, <2>1, ClosesRead
<1>4. StageShapes'
  BY <1>1, <1>2, <1>3 DEF StageShapes
<1>5. DatedByTheFinder'
  BY <1>1 DEF DatedByTheFinder, ToFind
<1>6. SlotsInTurn'
  BY <1>1, <1>2, <1>3, SlotsAre DEF SlotsInTurn, ToFind, ToClose, ToValue, ToHandOver, ToFollow
<1>7. OpenRowsNameNone'
  <2>1. "found" \in Slots /\ (rows'["found"] # NoRow => "found" \in Live(rows))
    BY <1>3, SlotsAre DEF Live
  <2>2. ToHandOver
    BY <1>1 DEF ToHandOver, ToValue, ToClose
  <2>3. rows'["found"] # NoRow =>
           /\ rows["found"] # NoRow /\ rows'["found"].kind = rows["found"].kind
           /\ rows'["found"].succ = rows["found"].succ /\ (Awaits(rows'["found"]) <=> Awaits(rows["found"]))
    BY <1>3, <2>1
  <2>4. rows["found"] # NoRow => OpenNamesNone(rows["found"])
    BY <1>2, <2>2 DEF OpenRowsNameNone
  <2>5. rows'["found"] # NoRow => OpenNamesNone(rows'["found"])
    BY <2>3, <2>4 DEF OpenNamesNone
  <2> QED
    BY <2>5 DEF OpenRowsNameNone
<1>8. ReadOnItsDay'
  <2>1. \A s \in Slots : values'[s] = NoValue
    BY <1>1, <1>2, SlotsAre DEF SlotsInTurn, ToClose, ToValue, ToHandOver, ToFollow
  <2>2. \A s \in Live(rows)' : closes'[s] = rows'[s].day /\ ~Valued(values'[s])
    BY <1>3, <2>1 DEF Live, Valued
  <2> QED
    BY <2>2 DEF ReadOnItsDay, OnItsDay
<1>9. EndsBeforeTheTaker'
  BY <1>1 DEF EndsBeforeTheTaker, ToHandOver, ToValue
<1> QED
  BY <1>4, <1>5, <1>6, <1>7, <1>8, <1>9 DEF StagesInv

(* One slot of the rows is written. *)
LEMMA SlotWritten ==
    ASSUME NEW rs \in [Slots -> Rows \cup {NoRow}], NEW slot \in Slots, NEW r \in Rows,
           rows' = [rs EXCEPT ![slot] = r]
    PROVE  /\ rows' \in [Slots -> Rows \cup {NoRow}] /\ rows'[slot] = r /\ r # NoRow
           /\ \A s \in Slots \ {slot} : rows'[s] = rs[s]
BY NoRowIsNoRow

(* Nothing is read on another day when no row, close or value changes. *)
LEMMA SameRowsStayRead ==
    ASSUME StagesInv, stage # "again", ~ToClose, UNCHANGED <<rows, closes, values>>
    PROVE  ReadOnItsDay'
BY DEF StagesInv, ReadOnItsDay, OnItsDay, Live

LEMMA MergerValuesHolds ==
    ASSUME StagesInv, MergerValues
    PROVE  StagesInv'
<1>1. /\ stage = "values" /\ stage' = "r1" /\ UNCHANGED <<closes, redated, handed>>
  BY DEF MergerValues, At, GoTo
<1>2. StageShapes /\ SlotsInTurn /\ OpenRowsNameNone /\ ReadOnItsDay
  BY DEF StagesInv
<1>3. ~ToClose /\ ToHandOver /\ ToHandOver' /\ ToFollow /\ ToFollow' /\ ~ToFind /\ ~ToFind' /\ ~ToClose' /\ ~ToValue'
  BY <1>1 DEF ToFind, ToClose, ToValue, ToHandOver, ToFollow
<1>4. DatedByTheFinder' /\ EndsBeforeTheTaker'
  BY <1>1, <1>3 DEF DatedByTheFinder, EndsBeforeTheTaker
<1>5. CASE rows["found"].kind # "merger"
  <2>1. UNCHANGED <<rows, values>>
    BY <1>5 DEF MergerValues
  <2>2. StageShapes'
    BY <1>1, <1>2, <2>1 DEF StageShapes
  <2>3. SlotsInTurn'
    BY <1>1, <1>2, <1>3, <2>1 DEF SlotsInTurn
  <2>4. OpenRowsNameNone'
    BY <1>2, <1>3, <2>1 DEF OpenRowsNameNone, OpenNamesNone, Awaits
  <2>5. ReadOnItsDay'
    BY <1>1, <1>3, <2>1, SameRowsStayRead
  <2> QED
    BY <1>4, <2>2, <2>3, <2>4, <2>5 DEF StagesInv
<1>6. CASE rows["found"].kind = "merger"
  <2>1. PICK v \in ValuesOn(rows["found"].day, {"read", "caller"}) :
           /\ rows' = [rows EXCEPT !["found"] = Flagged(@, v)]
           /\ values' = [values EXCEPT !["found"] = v]
    BY <1>6 DEF MergerValues
  <2>2. /\ "found" \in Slots /\ rows["found"] \in Rows /\ rows["found"].day \in 0..LastDay
        /\ rows["found"] # NoRow /\ "found" \in Live(rows) /\ rows \in [Slots -> Rows \cup {NoRow}]
    <3>1. rows["found"] # NoRow
      BY <1>6, NoRowIsNoRow
    <3>2. "found" \in Slots
      BY SlotsAre
    <3>3. "found" \in Live(rows)
      BY <3>1, <3>2 DEF Live
    <3> QED
      BY <1>2, <3>1, <3>2, <3>3, RowsAndValues DEF StageShapes
  <2>3. v \in Values /\ v.day = rows["found"].day
    BY <2>2, ValuesOnType
  <2> DEFINE r == Flagged(rows["found"], v)
  <2>4. /\ r \in Rows /\ r.kind = "merger" /\ r.succ = rows["found"].succ /\ r.day = rows["found"].day
    BY <1>6, <2>2, FlaggedType
  <2>5. rows' = [rows EXCEPT !["found"] = r]
    BY <2>1
  <2> HIDE DEF r
  <2>6. /\ rows' \in [Slots -> Rows \cup {NoRow}] /\ rows'["found"] = r /\ r # NoRow
        /\ \A s \in Slots \ {"found"} : rows'[s] = rows[s]
    BY <2>2, <2>4, <2>5, SlotWritten
  <2>7. /\ values' \in [Slots -> Values \cup {NoValue}] /\ values'["found"] = v
        /\ \A s \in Slots \ {"found"} : values'[s] = values[s]
    BY <1>2, <2>1, <2>2, <2>3 DEF StageShapes
  <2>8. StageShapes'
    BY <1>1, <1>2, <2>6, <2>7 DEF StageShapes
  <2>9. SlotsInTurn'
    BY <1>1, <1>2, <1>3, <2>6, <2>7, SlotsAre DEF SlotsInTurn
  <2>10. rows["found"].succ = None
    BY <1>2, <1>3, <1>6, <2>2 DEF OpenRowsNameNone, OpenNamesNone
  <2>11. OpenRowsNameNone'
    BY <2>4, <2>6, <2>10 DEF OpenRowsNameNone, OpenNamesNone
  <2>12. ReadOnItsDay'
    <3> SUFFICES ASSUME NEW s \in Slots, rows'[s] # NoRow
                 PROVE  OnItsDay(s)'
      BY DEF ReadOnItsDay, Live
    <3>1. CASE s = "found"
      <4>1. OnItsDay("found")
        BY <1>1, <1>2, <1>3, <2>2 DEF ReadOnItsDay
      <4> QED
        BY <1>1, <1>6, <2>3, <2>4, <2>6, <2>7, <3>1, <4>1 DEF OnItsDay
    <3>2. CASE s # "found"
      <4>1. OnItsDay(s)
        BY <1>1, <1>2, <1>3, <2>6, <3>2 DEF ReadOnItsDay, Live
      <4> QED
        BY <1>1, <2>6, <2>7, <3>2, <4>1 DEF OnItsDay
    <3> QED
      BY <3>1, <3>2
  <2> QED
    BY <1>4, <2>8, <2>9, <2>11, <2>12 DEF StagesInv
<1> QED
  BY <1>5, <1>6

(* A stage between the values and the handoffs that leaves the rows and the values. *)
LEMMA BetweenSame ==
    ASSUME StagesInv, stage = "r1" \/ stage = "successors", stage' = "successors" \/ stage' = "handoffs",
           UNCHANGED <<rows, closes, values, redated, handed>>
    PROVE  StagesInv'
<1>1. StageShapes /\ SlotsInTurn /\ OpenRowsNameNone
  BY DEF StagesInv
<1>2. ~ToClose /\ ToHandOver /\ ToHandOver' /\ ToFollow /\ ToFollow' /\ ~ToFind' /\ ~ToClose' /\ ~ToValue'
      /\ stage # "again" /\ stage' # "written" /\ stage' # "finding" /\ stage # "written"
  BY DEF ToFind, ToClose, ToValue, ToHandOver, ToFollow
<1>3. DatedByTheFinder' /\ EndsBeforeTheTaker'
  BY <1>2 DEF DatedByTheFinder, EndsBeforeTheTaker
<1>4. StageShapes'
  BY <1>1 DEF StageShapes
<1>5. SlotsInTurn'
  BY <1>1, <1>2 DEF SlotsInTurn
<1>6. OpenRowsNameNone'
  BY <1>1, <1>2 DEF OpenRowsNameNone, OpenNamesNone, Awaits
<1>7. ReadOnItsDay'
  BY <1>2, SameRowsStayRead
<1> QED
  BY <1>3, <1>4, <1>5, <1>6, <1>7 DEF StagesInv

(* A stage between them that makes the finder's row a continuation. *)
LEMMA BetweenContinues ==
    ASSUME StagesInv, stage = "r1" \/ stage = "successors", stage' = "successors" \/ stage' = "handoffs",
           rows["found"] # NoRow,
           NEW to \in {A, B, X, None}, NEW mark \in SUBSET Flags, "successor_unknown" \in mark => to = None,
           rows' = [rows EXCEPT !["found"] = Continue(rows["found"], to, mark)],
           values' = [values EXCEPT !["found"] = NoValue],
           UNCHANGED <<closes, redated, handed>>
    PROVE  StagesInv'
<1>1. StageShapes /\ SlotsInTurn /\ ReadOnItsDay
  BY DEF StagesInv
<1>2. ~ToClose /\ ToHandOver /\ ToHandOver' /\ ToFollow /\ ToFollow' /\ ~ToFind' /\ ~ToClose' /\ ~ToValue'
      /\ stage # "again" /\ stage' # "written" /\ stage' # "finding" /\ stage # "written"
  BY DEF ToFind, ToClose, ToValue, ToHandOver, ToFollow
<1>3. "found" \in Slots /\ rows["found"] \in Rows /\ rows \in [Slots -> Rows \cup {NoRow}]
  BY <1>1, SlotsAre, RowsAndValues DEF StageShapes
<1> DEFINE r == Continue(rows["found"], to, mark)
<1>4. /\ r \in Rows /\ r.kind = "transfer" /\ r.succ = to
      /\ r.flags = (rows["found"].flags \ Doubts) \cup mark
  BY <1>3, ContinueType
<1>5. OpenNamesNone(r)
  BY <1>4 DEF OpenNamesNone, Awaits, Doubts
<1>6. rows' = [rows EXCEPT !["found"] = r]
  OBVIOUS
<1> HIDE DEF r
<1>7. /\ rows' \in [Slots -> Rows \cup {NoRow}] /\ rows'["found"] = r /\ r # NoRow
      /\ \A s \in Slots \ {"found"} : rows'[s] = rows[s]
  BY <1>3, <1>4, <1>6, NoRowIsNoRow
<1>8. /\ values' \in [Slots -> Values \cup {NoValue}] /\ values'["found"] = NoValue
      /\ \A s \in Slots \ {"found"} : values'[s] = values[s]
  BY <1>1, <1>3 DEF StageShapes
<1>9. DatedByTheFinder' /\ EndsBeforeTheTaker'
  BY <1>2 DEF DatedByTheFinder, EndsBeforeTheTaker
<1>10. StageShapes'
  BY <1>1, <1>7, <1>8 DEF StageShapes
<1>11. SlotsInTurn'
  BY <1>1, <1>2, <1>7, <1>8, SlotsAre DEF SlotsInTurn
<1>12. OpenRowsNameNone'
  BY <1>5, <1>7 DEF OpenRowsNameNone
<1>13. ReadOnItsDay'
  <2> SUFFICES ASSUME NEW s \in Slots, rows'[s] # NoRow
               PROVE  OnItsDay(s)'
    BY DEF ReadOnItsDay, Live
  <2>1. CASE s = "found"
    BY <1>4, <1>7, <1>8, <2>1 DEF OnItsDay, Valued
  <2>2. CASE s # "found"
    <3>1. OnItsDay(s)
      BY <1>1, <1>2, <1>7, <2>2 DEF ReadOnItsDay, Live
    <3> QED
      BY <1>7, <1>8, <2>2, <3>1 DEF OnItsDay
  <2> QED
    BY <2>1, <2>2
<1> QED
  BY <1>9, <1>10, <1>11, <1>12, <1>13 DEF StagesInv

(* A merger's row names no successor before the handoffs. *)
LEMMA R1RowIsAMerger ==
    ASSUME StagesInv, R1Applies(rows["found"], values["found"])
    PROVE  rows["found"].kind = "merger" /\ rows["found"] # NoRow /\ values["found"] # NoValue
BY NoRowIsNoRow DEF R1Applies, ReadTerms, Valued

LEMMA R1ContinuationsHolds ==
    ASSUME StagesInv, R1Continuations
    PROVE  StagesInv'
<1>1. stage = "r1" /\ stage' = "successors" /\ UNCHANGED <<closes, redated, handed>>
  BY DEF R1Continuations, At, GoTo
<1>2. CASE UNCHANGED <<rows, values>>
  BY <1>1, <1>2, BetweenSame
<1>3. ASSUME NEW to \in {A, B, X, None}, NEW mark \in SUBSET Flags, "successor_unknown" \in mark => to = None,
             rows["found"] # NoRow, R1Continue(to, mark)
      PROVE  StagesInv'
  <2> DEFINE marks == {"continuation"} \cup mark
  <2>1. marks \in SUBSET Flags /\ ("successor_unknown" \in marks => to = None)
    BY <1>3 DEF Flags
  <2>2. /\ rows' = [rows EXCEPT !["found"] = Continue(rows["found"], to, marks)]
        /\ values' = [values EXCEPT !["found"] = NoValue]
    BY <1>3 DEF R1Continue
  <2> HIDE DEF marks
  <2> QED
    BY <1>1, <1>3, <2>1, <2>2, BetweenContinues
<1>4. ASSUME UNCHANGED rows, values' = [values EXCEPT !["found"] = Restate(@)],
             R1Applies(rows["found"], values["found"])
      PROVE  StagesInv'
  <2>1. StageShapes /\ SlotsInTurn /\ OpenRowsNameNone /\ ReadOnItsDay
    BY DEF StagesInv
  <2>2. ~ToClose /\ ToHandOver /\ ToHandOver' /\ ToFollow /\ ToFollow' /\ ~ToFind' /\ ~ToClose' /\ ~ToValue'
    BY <1>1 DEF ToFind, ToClose, ToValue, ToHandOver, ToFollow
  <2>3. /\ "found" \in Slots /\ values["found"] \in Values /\ rows["found"] # NoRow
        /\ values["found"] # NoValue
    BY <1>4, R1RowIsAMerger, RowsAndValues, SlotsAre
  <2> DEFINE v == Restate(values["found"])
  <2>4. v \in Values /\ v.day = values["found"].day
    BY <2>3, RestateType
  <2>5. values' = [values EXCEPT !["found"] = v]
    BY <1>4
  <2> HIDE DEF v
  <2>6. /\ values' \in [Slots -> Values \cup {NoValue}] /\ values'["found"] = v
        /\ \A s \in Slots \ {"found"} : values'[s] = values[s]
    BY <2>1, <2>3, <2>4, <2>5 DEF StageShapes
  <2>7. DatedByTheFinder' /\ EndsBeforeTheTaker'
    BY <1>1, <2>2 DEF DatedByTheFinder, EndsBeforeTheTaker
  <2>8. StageShapes'
    BY <1>1, <1>4, <2>1, <2>6 DEF StageShapes
  <2>9. SlotsInTurn'
    BY <1>1, <1>4, <2>1, <2>2, <2>3, <2>6, SlotsAre DEF SlotsInTurn
  <2>10. OpenRowsNameNone'
    BY <1>4, <2>1, <2>2 DEF OpenRowsNameNone, OpenNamesNone, Awaits
  <2>11. ReadOnItsDay'
    <3> SUFFICES ASSUME NEW s \in Slots, rows'[s] # NoRow
                 PROVE  OnItsDay(s)'
      BY DEF ReadOnItsDay, Live
    <3>1. OnItsDay(s)
      BY <1>1, <1>4, <2>1, <2>2 DEF ReadOnItsDay, Live
    <3>2. CASE s = "found"
      BY <1>1, <1>4, <2>3, <2>4, <2>6, <3>1, <3>2 DEF OnItsDay, Valued
    <3>3. CASE s # "found"
      BY <1>1, <1>4, <2>6, <3>1, <3>3 DEF OnItsDay
    <3> QED
      BY <3>2, <3>3
  <2> QED
    BY <2>7, <2>8, <2>9, <2>10, <2>11 DEF StagesInv
<1>5. CASE R1Applies(rows["found"], values["found"]) /\ ~UNCHANGED <<rows, values>>
  <2>1. rows["found"] # NoRow
    BY <1>5, R1RowIsAMerger
  <2>2. \/ R1Continue(B, {}) \/ R1Continue(X, {}) \/ R1Continue(None, {"successor_unknown"})
        \/ UNCHANGED rows /\ values' = [values EXCEPT !["found"] = Restate(@)]
    BY <1>5 DEF R1Continuations
  <2>3. {} \in SUBSET Flags /\ {"successor_unknown"} \in SUBSET Flags
    BY DEF Flags, Doubts
  <2> QED
    BY <1>3, <1>4, <1>5, <2>1, <2>2, <2>3
<1> QED
  BY <1>2, <1>5 DEF R1Continuations

LEMMA SuccessorsHolds ==
    ASSUME StagesInv, Successors
    PROVE  StagesInv'
<1>1. stage = "successors" /\ stage' = "handoffs" /\ UNCHANGED <<closes, redated, handed>>
  BY DEF Successors, At, GoTo
<1>2. CASE UNCHANGED <<rows, values>>
  BY <1>1, <1>2, BetweenSame
<1>3. CASE ~UNCHANGED <<rows, values>>
  <2>1. PICK to \in {A, B, X} :
           /\ rows["found"] # NoRow
           /\ rows' = [rows EXCEPT !["found"] = Link(@, to)]
           /\ values' = [values EXCEPT !["found"] = NoValue]
    BY <1>3 DEF Successors
  <2> DEFINE mark == IF rows["found"].kind \in {"unknown", "merger"} THEN {"continuation"} ELSE {}
  <2>2. mark \in SUBSET Flags /\ "successor_unknown" \notin mark
    BY DEF Flags
  <2>3. rows' = [rows EXCEPT !["found"] = Continue(rows["found"], to, mark)]
    BY <2>1 DEF Link
  <2> HIDE DEF mark
  <2> QED
    BY <1>1, <2>1, <2>2, <2>3, BetweenContinues
<1> QED
  BY <1>2, <1>3

(* The endings their securities traded on past name themselves. *)
LEMMA MarkedRows ==
    ASSUME StagesInv
    PROVE  LET rs == MarkGoingOn(rows)
           IN  /\ rs \in [Slots -> Rows \cup {NoRow}]
               /\ \A s \in Slots : rs[s] = NoRow <=> rows[s] = NoRow
               /\ \A s \in Live(rows) :
                     /\ rs[s] \in Rows /\ rs[s].kind = rows[s].kind /\ rs[s].day = rows[s].day
                     /\ rs[s].print = rows[s].print
                     /\ rows[s].succ # None => rs[s] = rows[s]
<1> DEFINE rs == MarkGoingOn(rows)
<1>1. \A s \in Slots : rows[s] = NoRow \/ rows[s] \in Rows
  BY RowsAndValues
<1>2. \A s \in Slots : rs[s] = rows[s] \/ (s \in Live(rows) /\ rows[s].succ = None /\ rs[s] = GoOn(rows[s]))
  BY DEF MarkGoingOn
<1>3. \A s \in Live(rows) : s \in Slots /\ rows[s] \in Rows /\ rows[s] # NoRow
  BY <1>1 DEF Live
<1>4. \A s \in Slots : rs[s] = NoRow \/ rs[s] \in Rows
  BY <1>1, <1>2, <1>3, GoOnType
<1>5. rs \in [Slots -> Rows \cup {NoRow}]
  <2>1. \A s \in Slots : (IF s \in Live(rows) /\ rows[s].succ = None /\ ~Ends(rows[s]) THEN GoOn(rows[s]) ELSE rows[s])
                             \in Rows \cup {NoRow}
    BY <1>1, <1>3, GoOnType
  <2> QED
    BY <2>1 DEF MarkGoingOn
<1>6. \A s \in Slots : rs[s] = NoRow <=> rows[s] = NoRow
  BY <1>2, <1>3, GoOnType, NoRowIsNoRow
<1> HIDE DEF rs
<1>7. \A s \in Live(rows) :
         /\ rs[s] \in Rows /\ rs[s].kind = rows[s].kind /\ rs[s].day = rows[s].day /\ rs[s].print = rows[s].print
         /\ rows[s].succ # None => rs[s] = rows[s]
  BY <1>2, <1>3, GoOnType
<1> QED
  BY <1>5, <1>6, <1>7 DEF rs

LEMMA DecisionType ==
    ASSUME NEW d \in Handoffs0
    PROVE  /\ d[1] = "nothing" \/ d[1] = "filing" \/ d[1] = "cik" \/ d[1] = "cusip" \/ d[1] = "takeover"
           /\ d[1] \in Decisions
<1>1. PICK p \in PairFacts : d = <<DecideHandoff(p), p.livedOn>>
  BY DEF Handoffs0
<1>2. d[1] = DecideHandoff(p)
  BY <1>1
<1> QED
  BY <1>2 DEF DecideHandoff, Decisions

(* What the handoffs make of the rows: no other slot than the finder's and the
   handoff's is touched; the kind of a row that stands is kept; a row B took over
   stands before B's first day. *)
LEMMA HandoffRows ==
    ASSUME StagesInv, Handoffs
    PROVE  /\ rows' \in [Slots -> Rows \cup {NoRow}] /\ handed' \in [decision : Decisions, near : BOOLEAN, elsewhere : BOOLEAN]
           /\ rows'["line"] = NoRow /\ rows'["unexplained"] = NoRow
           /\ rows'["handoff"] = NoRow \/ (rows'["handoff"].kind = "transfer" /\ rows'["handoff"].day < TakenOn)
           /\ rows'["found"] = NoRow <=> rows["found"] = NoRow
           /\ redated' \in SUBSET {"found"} /\ (rows["found"] = NoRow => redated' = {})
           /\ rows["found"] # NoRow =>
                 \/ /\ rows'["found"].kind = rows["found"].kind /\ UNCHANGED values
                    /\ "found" \in redated' \/ rows'["found"].day = rows["found"].day
                 \/ /\ rows'["found"].kind = "transfer" /\ values' = [values EXCEPT !["found"] = NoValue]
           /\ rows["found"] = NoRow => UNCHANGED values
           /\ handed'.decision # "nothing" /\ handed'.near =>
                 /\ rows'["found"] # NoRow
                 /\ handed'.elsewhere \/ rows'["found"].print \/ rows'["found"].day < TakenOn
<1> DEFINE rs == MarkGoingOn(rows)
           r == rs["found"]
           H(d, near, elsewhere) == IF d = "nothing" THEN NoHandoff
                                    ELSE [decision |-> d, near |-> near, elsewhere |-> elsewhere]
<1>1. PICK d \in Handoffs0 : \E near, elsewhere, ratio, blind \in BOOLEAN, last \in Days :
         LET h == H(d[1], near, elsewhere)
         IN /\ near => r # NoRow
            /\ handed' = h
            /\ \/ /\ d[1] = "nothing" \/ (d[1] = "takeover" /\ ~near)
                  /\ rows' = rs /\ UNCHANGED <<values, redated>>
               \/ /\ d[1] \in {"filing", "cik", "cusip"} /\ ~near
                  /\ rows' = [rs EXCEPT !["handoff"] = HandoffRow(last)]
                  /\ UNCHANGED <<values, redated>>
               \/ /\ near /\ d[1] # "nothing"
                  /\ rows' = [rs EXCEPT !["found"] = Stand(r, h, blind)]
                  /\ redated' = (IF rows'["found"].day # r.day THEN {"found"} ELSE {})
                  /\ UNCHANGED values
               \/ /\ near /\ d[1] # "nothing"
                  /\ rows' = [rs EXCEPT !["found"] = HandOver(r, last)]
                  /\ values' = [values EXCEPT !["found"] = NoValue]
                  /\ UNCHANGED redated
  BY DEF Handoffs
<1>2. PICK near \in BOOLEAN, elsewhere \in BOOLEAN, ratio \in BOOLEAN, blind \in BOOLEAN, last \in Days :
         LET h == H(d[1], near, elsewhere)
         IN /\ near => r # NoRow
            /\ handed' = h
            /\ \/ /\ d[1] = "nothing" \/ (d[1] = "takeover" /\ ~near)
                  /\ rows' = rs /\ UNCHANGED <<values, redated>>
               \/ /\ d[1] \in {"filing", "cik", "cusip"} /\ ~near
                  /\ rows' = [rs EXCEPT !["handoff"] = HandoffRow(last)]
                  /\ UNCHANGED <<values, redated>>
               \/ /\ near /\ d[1] # "nothing"
                  /\ rows' = [rs EXCEPT !["found"] = Stand(r, h, blind)]
                  /\ redated' = (IF rows'["found"].day # r.day THEN {"found"} ELSE {})
                  /\ UNCHANGED values
               \/ /\ near /\ d[1] # "nothing"
                  /\ rows' = [rs EXCEPT !["found"] = HandOver(r, last)]
                  /\ values' = [values EXCEPT !["found"] = NoValue]
                  /\ UNCHANGED redated
  BY <1>1
<1> DEFINE h == H(d[1], near, elsewhere)
<1>3. /\ h \in [decision : Decisions, near : BOOLEAN, elsewhere : BOOLEAN] /\ h.elsewhere \in BOOLEAN
      /\ h.decision = "nothing" <=> d[1] = "nothing"
      /\ d[1] # "nothing" => h.near = near /\ h.elsewhere = elsewhere
  BY <1>2, DecisionType DEF NoHandoff, Decisions
<1>4. /\ stage = "handoffs" /\ rows["handoff"] = NoRow /\ rows["line"] = NoRow /\ rows["unexplained"] = NoRow
      /\ redated = {}
  BY DEF Handoffs, At, StagesInv, SlotsInTurn, ToHandOver, ToFollow
<1>5. /\ "found" \in Slots /\ "handoff" \in Slots /\ "line" \in Slots /\ "unexplained" \in Slots
      /\ rs \in [Slots -> Rows \cup {NoRow}]
      /\ \A s \in Slots : rs[s] = NoRow <=> rows[s] = NoRow
      /\ rows["found"] # NoRow =>
            r \in Rows /\ r.kind = rows["found"].kind /\ r.day = rows["found"].day /\ r.print = rows["found"].print
  BY MarkedRows, SlotsAre DEF Live
<1> HIDE DEF rs, r, h, H
<1>6. CASE (d[1] = "nothing" \/ (d[1] = "takeover" /\ ~near)) /\ rows' = rs /\ UNCHANGED <<values, redated>>
  BY <1>2, <1>3, <1>4, <1>5, <1>6 DEF h, r
<1>7. CASE /\ ~near /\ d[1] # "nothing"
           /\ rows' = [rs EXCEPT !["handoff"] = HandoffRow(last)] /\ UNCHANGED <<values, redated>>
  <2>1. HandoffRow(last) \in Rows /\ HandoffRow(last).kind = "transfer" /\ HandoffRow(last).day < TakenOn
    BY HandoffRowType
  <2>2. /\ rows' \in [Slots -> Rows \cup {NoRow}] /\ rows'["handoff"] = HandoffRow(last)
        /\ \A s \in Slots \ {"handoff"} : rows'[s] = rs[s]
    BY <1>5, <1>7, <2>1, SlotWritten
  <2> QED
    BY <1>2, <1>3, <1>4, <1>5, <1>7, <2>1, <2>2 DEF h, r
<1>8. CASE /\ near /\ d[1] # "nothing" /\ r # NoRow
           /\ rows' = [rs EXCEPT !["found"] = Stand(r, h, blind)]
           /\ redated' = (IF rows'["found"].day # r.day THEN {"found"} ELSE {})
           /\ UNCHANGED values
  <2>1. rows["found"] # NoRow
    BY <1>5, <1>8 DEF r
  <2>2. /\ Stand(r, h, blind) \in Rows /\ Stand(r, h, blind).kind = r.kind
        /\ h.elsewhere \/ Stand(r, h, blind).print \/ Stand(r, h, blind).day < TakenOn
    BY <1>3, <1>5, <2>1, StandType
  <2>3. /\ rows' \in [Slots -> Rows \cup {NoRow}] /\ rows'["found"] = Stand(r, h, blind) /\ rows'["found"] # NoRow
        /\ \A s \in Slots \ {"found"} : rows'[s] = rs[s]
    BY <1>5, <1>8, <2>2, SlotWritten, ZenonT(60)
  <2> QED
    BY <1>2, <1>3, <1>4, <1>5, <1>8, <2>1, <2>2, <2>3 DEF h
<1>9. CASE /\ near /\ d[1] # "nothing" /\ r # NoRow
           /\ rows' = [rs EXCEPT !["found"] = HandOver(r, last)]
           /\ values' = [values EXCEPT !["found"] = NoValue]
           /\ UNCHANGED redated
  <2>1. rows["found"] # NoRow
    BY <1>5, <1>9 DEF r
  <2>2. /\ HandOver(r, last) \in Rows /\ HandOver(r, last).kind = "transfer"
        /\ HandOver(r, last).print \/ HandOver(r, last).day < TakenOn
    BY <1>5, <2>1, HandOverType
  <2>3. /\ rows' \in [Slots -> Rows \cup {NoRow}] /\ rows'["found"] = HandOver(r, last) /\ rows'["found"] # NoRow
        /\ \A s \in Slots \ {"found"} : rows'[s] = rs[s]
    BY <1>5, <1>9, <2>2, SlotWritten
  <2> QED
    BY <1>2, <1>3, <1>4, <1>5, <1>9, <2>1, <2>2, <2>3 DEF h
<1> QED
  BY <1>2, <1>6, <1>7, <1>8, <1>9 DEF h, r

LEMMA HandoffsHolds ==
    ASSUME StagesInv, Handoffs
    PROVE  StagesInv'
<1>1. stage = "handoffs" /\ stage' = "again" /\ UNCHANGED closes
  BY DEF Handoffs, At, GoTo
<1>2. StageShapes /\ SlotsInTurn /\ ReadOnItsDay
  BY DEF StagesInv
<1>3. ~ToClose /\ ToFollow /\ ToFollow' /\ ~ToFind' /\ ~ToClose' /\ ~ToValue' /\ ~ToHandOver'
  BY <1>1 DEF ToFind, ToClose, ToValue, ToHandOver, ToFollow
<1>4. /\ rows' \in [Slots -> Rows \cup {NoRow}] /\ handed' \in [decision : Decisions, near : BOOLEAN, elsewhere : BOOLEAN]
      /\ rows'["line"] = NoRow /\ rows'["unexplained"] = NoRow
      /\ rows'["handoff"] = NoRow \/ (rows'["handoff"].kind = "transfer" /\ rows'["handoff"].day < TakenOn)
      /\ rows'["found"] = NoRow <=> rows["found"] = NoRow
      /\ redated' \in SUBSET {"found"} /\ (rows["found"] = NoRow => redated' = {})
      /\ rows["found"] # NoRow =>
            \/ /\ rows'["found"].kind = rows["found"].kind /\ UNCHANGED values
               /\ "found" \in redated' \/ rows'["found"].day = rows["found"].day
            \/ /\ rows'["found"].kind = "transfer" /\ values' = [values EXCEPT !["found"] = NoValue]
      /\ rows["found"] = NoRow => UNCHANGED values
      /\ handed'.decision # "nothing" /\ handed'.near =>
            /\ rows'["found"] # NoRow
            /\ handed'.elsewhere \/ rows'["found"].print \/ rows'["found"].day < TakenOn
  BY HandoffRows
<1>5. /\ values' \in [Slots -> Values \cup {NoValue}]
      /\ \A s \in Slots \ {"found"} : values'[s] = values[s]
      /\ values'["found"] = values["found"] \/ values'["found"] = NoValue
  BY <1>2, <1>4, SlotsAre DEF StageShapes
<1>6. StageShapes'
  BY <1>1, <1>2, <1>4, <1>5 DEF StageShapes
<1>7. DatedByTheFinder' /\ OpenRowsNameNone'
  BY <1>1, <1>3 DEF DatedByTheFinder, OpenRowsNameNone
<1>8. SlotsInTurn'
  BY <1>1, <1>2, <1>3, <1>4, <1>5, SlotsAre DEF SlotsInTurn
<1>9. ReadOnItsDay'
  <2> SUFFICES ASSUME NEW s \in Slots, rows'[s] # NoRow, s \notin redated'
               PROVE  OnItsDay(s)'
    BY <1>1 DEF ReadOnItsDay, Live
  <2>1. CASE s = "found"
    <3>1. rows["found"] # NoRow
      BY <1>4, <2>1
    <3>2. OnItsDay("found")
      BY <1>1, <1>2, <1>3, <2>1, <3>1 DEF ReadOnItsDay, Live
    <3>3. \/ /\ rows'["found"].kind = rows["found"].kind /\ values'["found"] = values["found"]
             /\ rows'["found"].day = rows["found"].day
          \/ rows'["found"].kind = "transfer" /\ values'["found"] = NoValue
      BY <1>2, <1>4, <2>1, <3>1 DEF StageShapes
    <3> QED
      BY <1>1, <2>1, <3>2, <3>3 DEF OnItsDay, Valued
  <2>2. CASE s = "handoff"
    <3>1. rows'["handoff"].kind = "transfer" /\ values'["handoff"] = NoValue
      BY <1>2, <1>4, <1>5, <2>2 DEF SlotsInTurn
    <3> QED
      BY <2>2, <3>1 DEF OnItsDay, Valued
  <2> QED
    BY <1>4, <2>1, <2>2, SlotsAre
<1>10. EndsBeforeTheTaker'
  BY <1>4 DEF EndsBeforeTheTaker, BeforeTheTaker
<1> QED
  BY <1>6, <1>7, <1>8, <1>9, <1>10 DEF StagesInv

(* After the handoffs the rows stand before the taker while their days do. *)
LEMMA StillBeforeTheTaker ==
    ASSUME StagesInv, ~ToHandOver, UNCHANGED handed,
           \A s \in {"found", "handoff"} :
               \/ rows'[s] = NoRow \/ rows'[s].print
               \/ rows[s] # NoRow /\ rows'[s].print = rows[s].print /\ rows'[s].day = rows[s].day
    PROVE  EndsBeforeTheTaker'
<1>1. EndsBeforeTheTaker
  BY DEF StagesInv
<1> QED
  BY <1>1 DEF EndsBeforeTheTaker, BeforeTheTaker

LEMMA ReadAgainHolds ==
    ASSUME StagesInv, ReadAgain
    PROVE  StagesInv'
<1>1. stage = "again" /\ stage' = "notices" /\ LastTradeCloses(redated, rows) /\ UNCHANGED <<redated, handed>>
  BY DEF ReadAgain, At, GoTo
<1>2. StageShapes /\ SlotsInTurn /\ ReadOnItsDay
  BY DEF StagesInv
<1>3. ~ToClose /\ ToFollow /\ ToFollow' /\ ~ToFind' /\ ~ToClose' /\ ~ToValue' /\ ~ToHandOver' /\ ~ToHandOver
  BY <1>1 DEF ToFind, ToClose, ToValue, ToHandOver, ToFollow
<1>4. redated \in SUBSET Live(rows) /\ redated \in SUBSET {"found"}
  BY <1>2, SlotsAre DEF StageShapes, SlotsInTurn, Live
<1>5. /\ rows' \in [Slots -> Rows \cup {NoRow}] /\ closes' \in [Slots -> 0..LastDay]
      /\ \A s \in Slots : rows[s] = NoRow <=> rows'[s] = NoRow
      /\ \A s \in Live(rows) :
            /\ rows'[s].kind = rows[s].kind /\ rows'[s].succ = rows[s].succ /\ rows'[s].day = rows[s].day
            /\ rows'[s].print = rows[s].print
      /\ \A s \in redated : closes'[s] = rows[s].day
      /\ \A s \in Slots \ redated : closes'[s] = closes[s] /\ rows'[s] = rows[s]
  <2>1. rows \in [Slots -> Rows \cup {NoRow}] /\ closes \in [Slots -> 0..LastDay]
    BY <1>2 DEF StageShapes
  <2> QED
    BY <1>1, <1>4, <2>1, ClosesRead
<1>6. /\ values' \in [Slots -> Values \cup {NoValue}] /\ \A s \in Slots \ {"found"} : values'[s] = values[s]
      /\ \/ redated = {} /\ values'["found"] = values["found"]
         \/ values["found"] = NoValue /\ values'["found"] = NoValue
         \/ redated = {"found"} /\ values'["found"].day = rows["found"].day
  <2>1. CASE redated # {} /\ Valued(values["found"])
    <3>1. PICK v \in ValuesOn(rows["found"].day, {IF values["found"].by = "caller" THEN "caller" ELSE "read"}) :
             values' = [values EXCEPT !["found"] = v]
      BY <2>1 DEF ReadAgain
    <3>2. rows["found"].day \in 0..LastDay /\ redated = {"found"} /\ "found" \in Slots
      BY <1>4, <2>1, RowsAndValues
    <3>3. {IF values["found"].by = "caller" THEN "caller" ELSE "read"} \in SUBSET {"caller", "read"}
      OBVIOUS
    <3>4. v \in Values /\ v.day = rows["found"].day
      BY <3>1, <3>2, <3>3, ValuesOnType
    <3> QED
      BY <1>2, <3>1, <3>2, <3>4 DEF StageShapes
  <2>2. CASE ~(redated # {} /\ Valued(values["found"]))
    <3>1. UNCHANGED values
      BY <2>2 DEF ReadAgain
    <3> QED
      BY <1>2, <2>2, <3>1 DEF StageShapes, Valued
  <2> QED
    BY <2>1, <2>2
<1>7. StageShapes'
  BY <1>1, <1>2, <1>5, <1>6 DEF StageShapes
<1>8. DatedByTheFinder' /\ OpenRowsNameNone'
  BY <1>1, <1>3 DEF DatedByTheFinder, OpenRowsNameNone
<1>9. SlotsInTurn'
  <2>1. rows'["found"] = NoRow => redated = {} /\ values'["found"] = NoValue
    BY <1>2, <1>5, <1>6, SlotsAre DEF SlotsInTurn
  <2> QED
    BY <1>1, <1>2, <1>3, <1>5, <1>6, <2>1, SlotsAre DEF SlotsInTurn
<1>10. ReadOnItsDay'
  <2> SUFFICES ASSUME NEW s \in Slots, rows'[s] # NoRow
               PROVE  OnItsDay(s)'
    BY DEF ReadOnItsDay, Live
  <2>1. s \in Live(rows) /\ rows'[s].kind = rows[s].kind /\ rows'[s].day = rows[s].day
    BY <1>5 DEF Live
  <2>2. CASE s \in redated
    <3>1. closes'[s] = rows[s].day /\ s = "found" /\ redated # {}
      BY <1>4, <1>5, <2>2
    <3>2. values'[s].day = rows[s].day \/ values'[s] = NoValue
      BY <1>6, <3>1
    <3> QED
      BY <2>1, <3>1, <3>2 DEF OnItsDay, Valued
  <2>3. CASE s \notin redated
    <3>1. OnItsDay(s)
      BY <1>2, <1>3, <2>1, <2>3 DEF ReadOnItsDay
    <3>2. closes'[s] = closes[s] /\ values'[s] = values[s]
      BY <1>4, <1>5, <1>6, <2>3
    <3> QED
      BY <2>1, <3>1, <3>2 DEF OnItsDay
  <2> QED
    BY <2>2, <2>3
<1>11. EndsBeforeTheTaker'
  <2>1. \A s \in {"found", "handoff"} :
           \/ rows'[s] = NoRow
           \/ rows[s] # NoRow /\ rows'[s].print = rows[s].print /\ rows'[s].day = rows[s].day
    BY <1>5, SlotsAre DEF Live
  <2> QED
    BY <1>1, <1>3, <2>1, StillBeforeTheTaker
<1> QED
  BY <1>7, <1>8, <1>9, <1>10, <1>11 DEF StagesInv

LEMMA NoticesHolds ==
    ASSUME StagesInv, Notices
    PROVE  StagesInv'
<1>1. stage = "notices" /\ stage' = "line" /\ UNCHANGED <<values, redated, handed>>
  BY DEF Notices, At, GoTo
<1>2. StageShapes /\ SlotsInTurn /\ ReadOnItsDay
  BY DEF StagesInv
<1>3. ~ToClose /\ ToFollow /\ ToFollow' /\ ~ToFind' /\ ~ToClose' /\ ~ToValue' /\ ~ToHandOver' /\ ~ToHandOver
  BY <1>1 DEF ToFind, ToClose, ToValue, ToHandOver, ToFollow
<1>4. /\ rows' \in [Slots -> Rows \cup {NoRow}] /\ closes' \in [Slots -> 0..LastDay]
      /\ \A s \in Slots \ {"handoff"} : rows'[s] = rows[s] /\ closes'[s] = closes[s]
      /\ \/ rows["handoff"] = NoRow /\ rows'["handoff"] = NoRow
         \/ /\ rows["handoff"] # NoRow /\ rows'["handoff"] # NoRow
            /\ closes'["handoff"] = rows'["handoff"].day
            /\ \/ rows'["handoff"].print
               \/ rows'["handoff"].print = rows["handoff"].print /\ rows'["handoff"].day = rows["handoff"].day
  <2>1. CASE rows["handoff"] = NoRow
    <3>1. UNCHANGED <<rows, closes>>
      BY <2>1 DEF Notices
    <3> QED
      BY <1>2, <2>1, <3>1 DEF StageShapes
  <2>2. CASE rows["handoff"] # NoRow
    <3>1. PICK n \in FromNotice(rows["handoff"]) : LastTradeCloses({"handoff"}, [rows EXCEPT !["handoff"] = n])
      BY <2>2 DEF Notices
    <3>2. "handoff" \in Slots /\ rows["handoff"] \in Rows
      BY <2>2, RowsAndValues, SlotsAre
    <3>3. n \in Rows /\ (n.print \/ (n.print = rows["handoff"].print /\ n.day = rows["handoff"].day))
      BY <3>1, <3>2, FromNoticeType
    <3> DEFINE rs == [rows EXCEPT !["handoff"] = n]
    <3>4. /\ rs \in [Slots -> Rows \cup {NoRow}] /\ rs["handoff"] = n /\ n # NoRow
          /\ \A s \in Slots \ {"handoff"} : rs[s] = rows[s]
      BY <1>2, <3>2, <3>3, NoRowIsNoRow DEF StageShapes
    <3>5. LastTradeCloses({"handoff"}, rs) /\ closes \in [Slots -> 0..LastDay]
      BY <1>2, <3>1 DEF StageShapes
    <3> HIDE DEF rs
    <3>6. {"handoff"} \in SUBSET Live(rs)
      BY <3>2, <3>4 DEF Live
    <3>7. /\ rows' \in [Slots -> Rows \cup {NoRow}] /\ closes' \in [Slots -> 0..LastDay]
          /\ \A s \in Slots : rs[s] = NoRow <=> rows'[s] = NoRow
          /\ \A s \in Live(rs) :
                /\ rows'[s].kind = rs[s].kind /\ rows'[s].succ = rs[s].succ /\ rows'[s].day = rs[s].day
                /\ rows'[s].print = rs[s].print
          /\ \A s \in {"handoff"} : closes'[s] = rs[s].day
          /\ \A s \in Slots \ {"handoff"} : closes'[s] = closes[s] /\ rows'[s] = rs[s]
      BY <3>4, <3>5, <3>6, ClosesRead
    <3>8. /\ rows'["handoff"] # NoRow /\ rows'["handoff"].day = n.day /\ rows'["handoff"].print = n.print
          /\ closes'["handoff"] = n.day
      BY <3>2, <3>4, <3>6, <3>7
    <3> QED
      BY <2>2, <3>3, <3>4, <3>7, <3>8
  <2> QED
    BY <2>1, <2>2
<1>5. StageShapes'
  BY <1>1, <1>2, <1>4 DEF StageShapes
<1>6. DatedByTheFinder' /\ OpenRowsNameNone'
  BY <1>1, <1>3 DEF DatedByTheFinder, OpenRowsNameNone
<1>7. SlotsInTurn'
  BY <1>1, <1>2, <1>3, <1>4, SlotsAre DEF SlotsInTurn
<1>8. ReadOnItsDay'
  <2> SUFFICES ASSUME NEW s \in Slots, rows'[s] # NoRow
               PROVE  OnItsDay(s)'
    BY DEF ReadOnItsDay, Live
  <2>1. CASE s = "handoff"
    <3>1. closes'[s] = rows'[s].day /\ values'[s] = NoValue
      BY <1>1, <1>2, <1>4, <2>1 DEF SlotsInTurn
    <3> QED
      BY <3>1 DEF OnItsDay, Valued
  <2>2. CASE s # "handoff"
    <3>1. OnItsDay(s)
      BY <1>1, <1>2, <1>3, <1>4, <2>2 DEF ReadOnItsDay, Live
    <3> QED
      BY <1>1, <1>4, <2>2, <3>1 DEF OnItsDay
  <2> QED
    BY <2>1, <2>2
<1>9. EndsBeforeTheTaker'
  BY <1>1, <1>3, <1>4, SlotsAre, StillBeforeTheTaker
<1> QED
  BY <1>5, <1>6, <1>7, <1>8, <1>9 DEF StagesInv

(* The added line's ending is written with its close and its value. *)
LEMMA LineRows ==
    ASSUME StagesInv, SuccessorEndings, ~UNCHANGED <<rows, closes, values, acquirers, added>>
    PROVE  /\ rows' \in [Slots -> Rows \cup {NoRow}] /\ closes' \in [Slots -> 0..LastDay]
           /\ values' \in [Slots -> Values \cup {NoValue}]
           /\ \A s \in Slots \ {"line"} : rows'[s] = rows[s] /\ closes'[s] = closes[s] /\ values'[s] = values[s]
           /\ rows["line"] = NoRow /\ rows'["line"] # NoRow /\ closes'["line"] = rows'["line"].day
           /\ values'["line"] = NoValue \/ values'["line"].day = rows'["line"].day
<1>1. PICK k \in Kinds \ {"price"} : \E v \in ValuesOn(LastDay, {"read", "caller"}) :
          /\ LastTradeCloses({"line"}, [rows EXCEPT !["line"] = LineEnding(k)])
          /\ values' = IF k = "merger" THEN [values EXCEPT !["line"] = v] ELSE values
  BY DEF SuccessorEndings
<1>2. PICK v \in ValuesOn(LastDay, {"read", "caller"}) :
          /\ LastTradeCloses({"line"}, [rows EXCEPT !["line"] = LineEnding(k)])
          /\ values' = IF k = "merger" THEN [values EXCEPT !["line"] = v] ELSE values
  BY <1>1
<1>3. StageShapes /\ rows["line"] = NoRow /\ values["line"] = NoValue /\ "line" \in Slots
  BY SlotsAre DEF SuccessorEndings, At, StagesInv, SlotsInTurn, ToFollow
<1>4. v \in Values /\ v.day = LastDay
  BY <1>2, ValuesOnType, DayFacts
<1>5. LineEnding(k) \in Rows /\ LineEnding(k).day = LastDay
  BY LineEndingType
<1> DEFINE rs == [rows EXCEPT !["line"] = LineEnding(k)]
<1>6. /\ rs \in [Slots -> Rows \cup {NoRow}] /\ rs["line"] = LineEnding(k) /\ rs["line"] # NoRow
      /\ \A s \in Slots \ {"line"} : rs[s] = rows[s]
  BY <1>3, <1>5, NoRowIsNoRow DEF StageShapes
<1>7. LastTradeCloses({"line"}, rs) /\ closes \in [Slots -> 0..LastDay]
  BY <1>2, <1>3 DEF StageShapes
<1>8. /\ values' \in [Slots -> Values \cup {NoValue}]
      /\ \A s \in Slots \ {"line"} : values'[s] = values[s]
      /\ values'["line"] = NoValue \/ values'["line"].day = LastDay
  BY <1>2, <1>3, <1>4 DEF StageShapes
<1> HIDE DEF rs
<1>9. {"line"} \in SUBSET Live(rs)
  BY <1>3, <1>6 DEF Live
<1>10. /\ rows' \in [Slots -> Rows \cup {NoRow}] /\ closes' \in [Slots -> 0..LastDay]
       /\ \A s \in Slots : rs[s] = NoRow <=> rows'[s] = NoRow
       /\ \A s \in Live(rs) :
             /\ rows'[s].kind = rs[s].kind /\ rows'[s].succ = rs[s].succ /\ rows'[s].day = rs[s].day
             /\ rows'[s].print = rs[s].print
       /\ \A s \in {"line"} : closes'[s] = rs[s].day
       /\ \A s \in Slots \ {"line"} : closes'[s] = closes[s] /\ rows'[s] = rs[s]
  BY <1>6, <1>7, <1>9, ClosesRead
<1>11. rows'["line"] # NoRow /\ rows'["line"].day = LastDay /\ closes'["line"] = LastDay
  BY <1>3, <1>5, <1>6, <1>9, <1>10
<1> QED
  BY <1>3, <1>6, <1>8, <1>10, <1>11

LEMMA SuccessorEndingsHolds ==
    ASSUME StagesInv, SuccessorEndings
    PROVE  StagesInv'
<1>1. stage = "line" /\ stage' = "distress" /\ UNCHANGED <<redated, handed>>
  BY DEF SuccessorEndings, At, GoTo
<1>2. StageShapes /\ SlotsInTurn /\ ReadOnItsDay
  BY DEF StagesInv
<1>3. ~ToClose /\ ToFollow /\ ~ToFollow' /\ ~ToFind' /\ ~ToClose' /\ ~ToValue' /\ ~ToHandOver' /\ ~ToHandOver
  BY <1>1 DEF ToFind, ToClose, ToValue, ToHandOver, ToFollow
<1>4. DatedByTheFinder' /\ OpenRowsNameNone'
  BY <1>1, <1>3 DEF DatedByTheFinder, OpenRowsNameNone
<1>5. CASE UNCHANGED <<rows, closes, values>>
  <2>1. StageShapes'
    BY <1>1, <1>2, <1>5 DEF StageShapes
  <2>2. SlotsInTurn'
    BY <1>1, <1>2, <1>3, <1>5 DEF SlotsInTurn
  <2>3. ReadOnItsDay'
    BY <1>1, <1>3, <1>5, SameRowsStayRead
  <2>4. EndsBeforeTheTaker'
    BY <1>1, <1>3, <1>5, StillBeforeTheTaker
  <2> QED
    BY <1>4, <2>1, <2>2, <2>3, <2>4 DEF StagesInv
<1>6. CASE ~UNCHANGED <<rows, closes, values>>
  <2>1. /\ rows' \in [Slots -> Rows \cup {NoRow}] /\ closes' \in [Slots -> 0..LastDay]
        /\ values' \in [Slots -> Values \cup {NoValue}]
        /\ \A s \in Slots \ {"line"} : rows'[s] = rows[s] /\ closes'[s] = closes[s] /\ values'[s] = values[s]
        /\ rows["line"] = NoRow /\ rows'["line"] # NoRow /\ closes'["line"] = rows'["line"].day
        /\ values'["line"] = NoValue \/ values'["line"].day = rows'["line"].day
    BY <1>6, LineRows
  <2>2. StageShapes'
    BY <1>1, <1>2, <2>1 DEF StageShapes
  <2>3. SlotsInTurn'
    BY <1>1, <1>2, <1>3, <2>1, SlotsAre DEF SlotsInTurn
  <2>4. ReadOnItsDay'
    <3> SUFFICES ASSUME NEW s \in Slots, rows'[s] # NoRow
                 PROVE  OnItsDay(s)'
      BY DEF ReadOnItsDay, Live
    <3>1. CASE s = "line"
      BY <2>1, <3>1 DEF OnItsDay, Valued
    <3>2. CASE s # "line"
      <4>1. OnItsDay(s)
        BY <1>1, <1>2, <1>3, <2>1, <3>2 DEF ReadOnItsDay, Live
      <4> QED
        BY <2>1, <3>2, <4>1 DEF OnItsDay
    <3> QED
      BY <3>1, <3>2
  <2>5. EndsBeforeTheTaker'
    BY <1>1, <1>3, <2>1, SlotsAre, StillBeforeTheTaker
  <2> QED
    BY <1>4, <2>2, <2>3, <2>4, <2>5 DEF StagesInv
<1> QED
  BY <1>5, <1>6

(* What the notices say of a distress changes a row's kind and nothing else the
   invariant speaks of; the row says it was no exchange transfer before and is none now. *)
LEMMA DistressRows ==
    ASSUME StagesInv, DistressEndings
    PROVE  /\ rows' \in [Slots -> Rows \cup {NoRow}]
           /\ \A s \in Slots : rows'[s] = NoRow <=> rows[s] = NoRow
           /\ \A s \in Live(rows) :
                 /\ rows'[s] = rows[s] \/ rows[s].kind # "transfer"
                 /\ rows'[s].succ = rows[s].succ /\ rows'[s].day = rows[s].day /\ rows'[s].print = rows[s].print
<1>1. PICK told \in SUBSET {s \in Live(rows) : rows[s].kind \in {"unknown", "dropped"} /\ rows[s].succ = None} :
         rows' = [s \in Slots |->
                      IF s \notin told THEN rows[s]
                      ELSE Reclassify(rows[s], IF rows[s].kind = "unknown" THEN "bankrupt" ELSE "price")]
  BY DEF DistressEndings
<1>2. \A s \in told : s \in Slots /\ rows[s] \in Rows /\ rows[s] # NoRow /\ rows[s].kind # "transfer"
  BY <1>1, RowsAndValues DEF Live
<1>3. "bankrupt" \in Kinds /\ "price" \in Kinds
  BY DEF Kinds
<1>4. \A s \in Slots : rows[s] = NoRow \/ rows[s] \in Rows
  BY RowsAndValues
<1>5. ASSUME NEW s \in told
      PROVE  /\ rows'[s] \in Rows /\ rows'[s] # NoRow /\ rows'[s].succ = rows[s].succ
             /\ rows'[s].day = rows[s].day /\ rows'[s].print = rows[s].print
  <2> DEFINE kind == IF rows[s].kind = "unknown" THEN "bankrupt" ELSE "price"
  <2>1. kind \in Kinds
    BY <1>3
  <2>2. rows'[s] = Reclassify(rows[s], kind)
    BY <1>1, <1>2
  <2> HIDE DEF kind
  <2>3. rows[s] \in Rows
    BY <1>2
  <2>4. /\ Reclassify(rows[s], kind) \in Rows /\ Reclassify(rows[s], kind).succ = rows[s].succ
        /\ Reclassify(rows[s], kind).day = rows[s].day /\ Reclassify(rows[s], kind).print = rows[s].print
    BY <2>1, <2>3, ReclassifyType
  <2>5. \A r \in Rows : r # NoRow
    BY NoRowIsNoRow
  <2> QED
    BY <2>2, <2>4, <2>5
<1>6. \A s \in Slots : s \notin told => rows'[s] = rows[s]
  BY <1>1
<1>7. \A s \in Slots : rows'[s] \in Rows \cup {NoRow}
  BY <1>4, <1>5, <1>6
<1>8. rows' = [s \in Slots |-> rows'[s]]
  BY <1>1
<1>9. rows' \in [Slots -> Rows \cup {NoRow}]
  BY <1>7, <1>8
<1> QED
  BY <1>2, <1>4, <1>5, <1>6, <1>9 DEF Live

LEMMA DistressEndingsHolds ==
    ASSUME StagesInv, DistressEndings
    PROVE  StagesInv'
<1>1. stage = "distress" /\ stage' = "history" /\ UNCHANGED <<closes, values, redated, handed>>
  BY DEF DistressEndings, At, GoTo
<1>2. StageShapes /\ SlotsInTurn /\ ReadOnItsDay
  BY DEF StagesInv
<1>3. ~ToClose /\ ~ToFollow /\ ~ToFollow' /\ ~ToFind' /\ ~ToClose' /\ ~ToValue' /\ ~ToHandOver' /\ ~ToHandOver
  BY <1>1 DEF ToFind, ToClose, ToValue, ToHandOver, ToFollow
<1>4. /\ rows' \in [Slots -> Rows \cup {NoRow}]
      /\ \A s \in Slots : rows'[s] = NoRow <=> rows[s] = NoRow
      /\ \A s \in Live(rows) :
            /\ rows'[s] = rows[s] \/ rows[s].kind # "transfer"
            /\ rows'[s].succ = rows[s].succ /\ rows'[s].day = rows[s].day /\ rows'[s].print = rows[s].print
  BY DistressRows
<1>5. DatedByTheFinder' /\ OpenRowsNameNone'
  BY <1>1, <1>3 DEF DatedByTheFinder, OpenRowsNameNone
<1>6. StageShapes'
  BY <1>1, <1>2, <1>4 DEF StageShapes
<1>7. SlotsInTurn'
  BY <1>1, <1>2, <1>3, <1>4, SlotsAre DEF SlotsInTurn
<1>8. ReadOnItsDay'
  <2> SUFFICES ASSUME NEW s \in Slots, rows'[s] # NoRow
               PROVE  OnItsDay(s)'
    BY DEF ReadOnItsDay, Live
  <2>1. s \in Live(rows)
    BY <1>4 DEF Live
  <2>2. OnItsDay(s)
    BY <1>1, <1>2, <1>3, <2>1 DEF ReadOnItsDay
  <2> QED
    BY <1>1, <1>4, <2>1, <2>2 DEF OnItsDay
<1>9. EndsBeforeTheTaker'
  <2>1. \A s \in {"found", "handoff"} :
           \/ rows'[s] = NoRow
           \/ rows[s] # NoRow /\ rows'[s].print = rows[s].print /\ rows'[s].day = rows[s].day
    BY <1>4, SlotsAre DEF Live
  <2> QED
    BY <1>1, <1>3, <2>1, StillBeforeTheTaker
<1> QED
  BY <1>5, <1>6, <1>7, <1>8, <1>9 DEF StagesInv

LEMMA UnexplainedEndingsHolds ==
    ASSUME StagesInv, UnexplainedEndings
    PROVE  StagesInv'
<1>1. stage = "history" /\ stage' = "written" /\ UNCHANGED <<closes, values, redated, handed>>
  BY DEF UnexplainedEndings, At, GoTo
<1>2. StageShapes /\ SlotsInTurn /\ ReadOnItsDay
  BY DEF StagesInv
<1>3. ~ToClose /\ ~ToFollow /\ ~ToFollow' /\ ~ToFind' /\ ~ToClose' /\ ~ToValue' /\ ~ToHandOver' /\ ~ToHandOver
  BY <1>1 DEF ToFind, ToClose, ToValue, ToHandOver, ToFollow
<1>4. /\ rows' \in [Slots -> Rows \cup {NoRow}]
      /\ \A s \in Slots \ {"unexplained"} : rows'[s] = rows[s]
  <2>1. UNCHANGED rows \/ \E r \in Unexplained : rows' = [rows EXCEPT !["unexplained"] = r]
    BY DEF UnexplainedEndings
  <2> QED
    BY <1>2, <2>1, UnexplainedType, SlotsAre DEF StageShapes
<1>5. DatedByTheFinder' /\ OpenRowsNameNone'
  BY <1>1, <1>3 DEF DatedByTheFinder, OpenRowsNameNone
<1>6. StageShapes'
  BY <1>1, <1>2, <1>4 DEF StageShapes
<1>7. SlotsInTurn'
  BY <1>1, <1>2, <1>3, <1>4, SlotsAre DEF SlotsInTurn
<1>8. ReadOnItsDay'
  <2> SUFFICES ASSUME NEW s \in Slots, rows'[s] # NoRow
               PROVE  OnItsDay(s)'
    BY DEF ReadOnItsDay, Live
  <2>1. CASE s = "unexplained"
    <3>1. values'[s] = NoValue
      BY <1>1, <1>2, <2>1 DEF SlotsInTurn
    <3> QED
      BY <2>1, <3>1 DEF OnItsDay, Valued
  <2>2. CASE s # "unexplained"
    <3>1. OnItsDay(s)
      BY <1>1, <1>2, <1>3, <1>4, <2>2 DEF ReadOnItsDay, Live
    <3> QED
      BY <1>1, <1>4, <2>2, <3>1 DEF OnItsDay
  <2> QED
    BY <2>1, <2>2
<1>9. EndsBeforeTheTaker'
  BY <1>1, <1>3, <1>4, SlotsAre, StillBeforeTheTaker
<1> QED
  BY <1>5, <1>6, <1>7, <1>8, <1>9 DEF StagesInv

LEMMA StutterHolds ==
    ASSUME StagesInv, UNCHANGED vars
    PROVE  StagesInv'
<1>1. UNCHANGED <<stage, evidence, dated, rows, closes, values, redated, handed>>
  BY DEF vars, facts
<1> QED
  BY <1>1 DEF StagesInv, StageShapes, DatedByTheFinder, SlotsInTurn, OpenRowsNameNone, OpenNamesNone, Awaits,
              ReadOnItsDay, OnItsDay, EndsBeforeTheTaker, BeforeTheTaker, Live,
              ToFind, ToClose, ToValue, ToHandOver, ToFollow

(* The rows, the closes and the values of a run agree at every stage. *)
THEOREM StagesAgree == Spec => []StagesInv
<1>1. Init => StagesInv
  BY InitHolds
<1>2. StagesInv /\ [Next]_vars => StagesInv'
  <2> SUFFICES ASSUME StagesInv, [Next]_vars PROVE StagesInv'
    OBVIOUS
  <2> QED
    BY DateEndingHolds, FindEndingHolds, ClosesHolds, MergerValuesHolds, R1ContinuationsHolds, SuccessorsHolds,
       HandoffsHolds, ReadAgainHolds, NoticesHolds, SuccessorEndingsHolds, DistressEndingsHolds,
       UnexplainedEndingsHolds, StutterHolds DEF Next
<1> QED
  BY <1>1, <1>2, PTL DEF Spec

(* Every ending that keeps its kind is published with the close and the value of the
   day it is published with (_last_trade_closes, MergerValues). *)
THEOREM ReadOnTheDay == Spec => []ReadOnTheFinalDay
<1>1. StagesInv => ReadOnTheFinalDay
  <2> SUFFICES ASSUME StagesInv, stage = "written", NEW s \in Live(rows)
               PROVE  /\ rows[s].kind = "transfer" \/ s = "unexplained" \/ closes[s] = rows[s].day
                      /\ Valued(values[s]) => values[s].day = rows[s].day
    BY DEF ReadOnTheFinalDay, Written
  <2>1. ~ToClose /\ ReadOnItsDay
    BY DEF StagesInv, ToClose, ToFind
  <2>2. OnItsDay(s)
    BY <2>1 DEF ReadOnItsDay
  <2> QED
    BY <2>2 DEF OnItsDay
<1> QED
  BY <1>1, StagesAgree, PTL

(* The security that took the ticker neither dates the ending of the one before it nor
   is outlasted by it (Dating._confirmations, before_successor). *)
THEOREM TakerIsAfter == Spec => []TakerStartsAfter
<1>1. ASSUME StagesInv, stage = "finding", dated.source \in {"midas", "halt"}, evidence.how # "drop",
             NEW d \in TextsOf(evidence), d < dated.day
      PROVE  evidence.tenure = 0 \/ dated.day < evidence.tenure
  <2>1. evidence \in Read /\ dated = DateOf(evidence)
    BY <1>1 DEF StagesInv, DatedByTheFinder, ToFind
  <2> QED
    BY <1>1, <2>1, DateIsOwn DEF IsOwn
<1>2. ASSUME StagesInv, stage = "written", handed.decision # "nothing"
      PROVE  BeforeTheTaker("handoff") /\ (handed.near => BeforeTheTaker("found"))
  <2>1. ~ToHandOver /\ EndsBeforeTheTaker
    BY <1>2 DEF StagesInv, ToHandOver, ToValue, ToClose, ToFind
  <2> QED
    BY <1>2, <2>1 DEF EndsBeforeTheTaker
<1>3. StagesInv => TakerStartsAfter
  BY <1>1, <1>2 DEF TakerStartsAfter, BeforeTheTaker, Written
<1> QED
  BY <1>3, StagesAgree, PTL

-------------------------------------------------------------------------------
(* No stage renames a successor *)

SuccessorsKept == \A s \in Live(rows) : rows[s].succ # None => rows'[s].succ = rows[s].succ

(* A stage that writes one slot keeps the other rows' successors. *)
LEMMA OneSlotKeeps ==
    ASSUME NEW slot \in Slots, \A s \in Slots \ {slot} : rows'[s] = rows[s],
           rows[slot] = NoRow \/ rows[slot].succ = None \/ rows'[slot].succ = rows[slot].succ
    PROVE  SuccessorsKept
BY DEF SuccessorsKept, Live

LEMMA WrittenSlotKeeps ==
    ASSUME StagesInv, NEW slot \in Slots, NEW r, rows' = [rows EXCEPT ![slot] = r],
           rows[slot] = NoRow \/ rows[slot].succ = None \/ r.succ = rows[slot].succ
    PROVE  SuccessorsKept
<1>1. rows'[slot] = r /\ \A s \in Slots \ {slot} : rows'[s] = rows[s]
  BY RowsAndValues
<1> QED
  BY <1>1, OneSlotKeeps

LEMMA FinderStagesKeep ==
    ASSUME StagesInv, DateEnding \/ FindEnding \/ MergerValues \/ R1Continuations \/ Successors
    PROVE  SuccessorsKept
<1>1. CASE UNCHANGED rows
  BY <1>1 DEF SuccessorsKept
<1>2. "found" \in Slots
  BY SlotsAre
<1>3. CASE FindEnding
  <2>1. rows["found"] = NoRow /\ \E r \in FoundBy(evidence, dated) : rows' = [rows EXCEPT !["found"] = r]
    BY <1>3 DEF FindEnding, At, StagesInv, SlotsInTurn, ToFind
  <2> QED
    BY <1>2, <2>1, WrittenSlotKeeps
<1>4. CASE MergerValues /\ ~UNCHANGED rows
  <2>1. PICK v : rows' = [rows EXCEPT !["found"] = Flagged(rows["found"], v)]
    BY <1>4 DEF MergerValues
  <2>2. rows["found"] \in Rows => Flagged(rows["found"], v).succ = rows["found"].succ
    BY FlaggedType
  <2>3. rows["found"] = NoRow \/ rows["found"] \in Rows
    BY <1>2, RowsAndValues
  <2> QED
    BY <1>2, <2>1, <2>2, <2>3, WrittenSlotKeeps
<1>5. ASSUME ToHandOver, rows["found"] # NoRow,
             Awaits(rows["found"]) \/ rows["found"].kind = "merger" \/ rows["found"].kind = "unknown"
      PROVE  rows["found"].succ = None
  BY <1>5 DEF StagesInv, OpenRowsNameNone, OpenNamesNone
<1>6. CASE R1Continuations /\ ~UNCHANGED rows
  <2>1. ToHandOver /\ R1Applies(rows["found"], values["found"])
    BY <1>6 DEF R1Continuations, At, ToHandOver
  <2>2. \E to, mark : rows' = [rows EXCEPT !["found"] = Continue(rows["found"], to, mark)]
    <3>1. \E to, mark : R1Continue(to, mark)
      BY <1>6 DEF R1Continuations
    <3> QED
      BY <3>1 DEF R1Continue
  <2>3. rows["found"].succ = None
    BY <1>5, <2>1, R1RowIsAMerger
  <2> QED
    BY <1>2, <2>2, <2>3, WrittenSlotKeeps
<1>7. CASE Successors /\ ~UNCHANGED rows
  <2>1. PICK to \in {A, B, X} :
           /\ ToHandOver /\ rows["found"] # NoRow
           /\ Awaits(rows["found"]) \/ (to = X /\ LineTakes(rows["found"], values["found"]))
           /\ rows' = [rows EXCEPT !["found"] = Link(rows["found"], to)]
    BY <1>7 DEF Successors, At, ToHandOver
  <2>2. rows["found"].succ = None
    BY <1>5, <2>1 DEF LineTakes
  <2> QED
    BY <1>2, <2>1, <2>2, WrittenSlotKeeps
<1> QED
  BY <1>1, <1>3, <1>4, <1>6, <1>7 DEF DateEnding

(* A row that names another successor than the taker stands against the handoff. *)
LEMMA HandoffsKeep ==
    ASSUME StagesInv, Handoffs
    PROVE  SuccessorsKept
<1> DEFINE rs == MarkGoingOn(rows)
           r == rs["found"]
<1>1. PICK last \in Days, ratio \in BOOLEAN, blind \in BOOLEAN : \E d \in Decisions : \E h :
         /\ h.elsewhere \in BOOLEAN
         /\ \/ rows' = rs
            \/ rows' = [rs EXCEPT !["handoff"] = HandoffRow(last)]
            \/ r # NoRow /\ rows' = [rs EXCEPT !["found"] = Stand(r, h, blind)]
            \/ /\ r # NoRow /\ ~Conflict(r, values["found"], d, ratio)
               /\ rows' = [rs EXCEPT !["found"] = HandOver(r, last)]
  <2>1. PICK d \in Handoffs0, near \in BOOLEAN, elsewhere \in BOOLEAN, ratio \in BOOLEAN, blind \in BOOLEAN, last \in Days :
         LET h == IF d[1] = "nothing" THEN NoHandoff ELSE [decision |-> d[1], near |-> near, elsewhere |-> elsewhere]
         IN /\ near => r # NoRow
            /\ \/ rows' = rs
               \/ rows' = [rs EXCEPT !["handoff"] = HandoffRow(last)]
               \/ near /\ rows' = [rs EXCEPT !["found"] = Stand(r, h, blind)]
               \/ /\ near /\ ~Conflict(r, values["found"], d[1], ratio)
                  /\ rows' = [rs EXCEPT !["found"] = HandOver(r, last)]
    <3> HIDE DEF rs, r
    <3> QED
      BY DEF Handoffs, rs, r
  <2> DEFINE h == IF d[1] = "nothing" THEN NoHandoff ELSE [decision |-> d[1], near |-> near, elsewhere |-> elsewhere]
  <2>2. h.elsewhere \in BOOLEAN /\ d[1] \in Decisions
    BY <2>1, DecisionType DEF NoHandoff
  <2> HIDE DEF h, rs, r
  <2> QED
    BY <2>1, <2>2 DEF h
<1>1a. PICK d \in Decisions : \E h :
         /\ h.elsewhere \in BOOLEAN
         /\ \/ rows' = rs
            \/ rows' = [rs EXCEPT !["handoff"] = HandoffRow(last)]
            \/ r # NoRow /\ rows' = [rs EXCEPT !["found"] = Stand(r, h, blind)]
            \/ /\ r # NoRow /\ ~Conflict(r, values["found"], d, ratio)
               /\ rows' = [rs EXCEPT !["found"] = HandOver(r, last)]
  BY <1>1
<1>2. PICK h :
         /\ h.elsewhere \in BOOLEAN
         /\ \/ rows' = rs
            \/ rows' = [rs EXCEPT !["handoff"] = HandoffRow(last)]
            \/ r # NoRow /\ rows' = [rs EXCEPT !["found"] = Stand(r, h, blind)]
            \/ /\ r # NoRow /\ ~Conflict(r, values["found"], d, ratio)
               /\ rows' = [rs EXCEPT !["found"] = HandOver(r, last)]
  BY <1>1a
<1>3. /\ rs \in [Slots -> Rows \cup {NoRow}]
      /\ \A s \in Slots : rs[s] = NoRow <=> rows[s] = NoRow
      /\ \A s \in Live(rows) : rs[s] \in Rows /\ (rows[s].succ # None => rs[s] = rows[s])
  BY MarkedRows
<1>4. rows["handoff"] = NoRow /\ "found" \in Slots /\ "handoff" \in Slots
  BY SlotsAre DEF Handoffs, At, StagesInv, SlotsInTurn, ToHandOver
<1>5. SUFFICES ASSUME NEW s \in Live(rows), rows[s].succ # None PROVE rows'[s].succ = rows[s].succ
  BY DEF SuccessorsKept
<1>6. s \in Slots /\ s # "handoff" /\ rs[s] = rows[s] /\ rs[s] \in Rows
  BY <1>3, <1>4, <1>5 DEF Live
<1> HIDE DEF rs
<1>7. CASE rows' = rs \/ rows' = [rs EXCEPT !["handoff"] = HandoffRow(last)]
  BY <1>3, <1>6, <1>7
<1>8. CASE r # NoRow /\ rows' = [rs EXCEPT !["found"] = Stand(r, h, blind)]
  <2>1. CASE s = "found"
    <3>1. Stand(r, h, blind).succ = r.succ
      BY <1>2, <1>6, <2>1, StandType
    <3> QED
      BY <1>3, <1>4, <1>6, <1>8, <2>1, <3>1
  <2>2. CASE s # "found"
    BY <1>3, <1>6, <1>8, <2>2
  <2> QED
    BY <2>1, <2>2
<1>9. CASE /\ r # NoRow /\ ~Conflict(r, values["found"], d, ratio)
           /\ rows' = [rs EXCEPT !["found"] = HandOver(r, last)]
  <2>1. CASE s = "found"
    <3>1. r.succ = B
      BY <1>5, <1>6, <1>9, <2>1 DEF Conflict
    <3>2. HandOver(r, last).succ = B
      BY <1>6, <2>1, HandOverType
    <3> QED
      BY <1>3, <1>4, <1>6, <1>9, <2>1, <3>1, <3>2
  <2>2. CASE s # "found"
    BY <1>3, <1>6, <1>9, <2>2
  <2> QED
    BY <2>1, <2>2
<1> QED
  BY <1>2, <1>7, <1>8, <1>9

LEMMA ClosesKeep ==
    ASSUME StagesInv, Closes \/ ReadAgain
    PROVE  SuccessorsKept
<1>1. PICK slots \in SUBSET Live(rows) : LastTradeCloses(slots, rows)
  <2>1. StageShapes /\ SlotsInTurn
    BY DEF StagesInv
  <2>2. redated \in SUBSET Live(rows)
    BY <2>1, SlotsAre DEF StageShapes, SlotsInTurn, Live
  <2> QED
    BY <2>2 DEF Closes, ReadAgain
<1>2. rows \in [Slots -> Rows \cup {NoRow}] /\ closes \in [Slots -> 0..LastDay]
  BY DEF StagesInv, StageShapes
<1>3. \A s \in Live(rows) : rows'[s].succ = rows[s].succ
  BY <1>1, <1>2, ClosesRead
<1> QED
  BY <1>3 DEF SuccessorsKept

LEMMA NoticesKeep ==
    ASSUME StagesInv, Notices
    PROVE  SuccessorsKept
<1>1. CASE rows["handoff"] = NoRow
  BY <1>1 DEF Notices, SuccessorsKept
<1>2. CASE rows["handoff"] # NoRow
  <2>1. PICK n \in FromNotice(rows["handoff"]) : LastTradeCloses({"handoff"}, [rows EXCEPT !["handoff"] = n])
    BY <1>2 DEF Notices
  <2>2. "handoff" \in Slots /\ rows["handoff"] \in Rows
    BY <1>2, RowsAndValues, SlotsAre
  <2>3. n \in Rows /\ n.succ = rows["handoff"].succ
    BY <2>1, <2>2, FromNoticeType
  <2> DEFINE rs == [rows EXCEPT !["handoff"] = n]
  <2>4. /\ rs \in [Slots -> Rows \cup {NoRow}] /\ rs["handoff"] = n /\ n # NoRow
        /\ \A s \in Slots \ {"handoff"} : rs[s] = rows[s]
    BY <2>2, <2>3, NoRowIsNoRow DEF StagesInv, StageShapes
  <2>5. LastTradeCloses({"handoff"}, rs) /\ closes \in [Slots -> 0..LastDay]
    BY <2>1 DEF StagesInv, StageShapes
  <2> HIDE DEF rs
  <2>6. {"handoff"} \in SUBSET Live(rs)
    BY <2>2, <2>4 DEF Live
  <2>7. /\ \A s \in Live(rs) : rows'[s].succ = rs[s].succ
        /\ \A s \in Slots \ {"handoff"} : rows'[s] = rs[s]
    BY <2>4, <2>5, <2>6, ClosesRead
  <2>8. rows'["handoff"].succ = rows["handoff"].succ /\ \A s \in Slots \ {"handoff"} : rows'[s] = rows[s]
    BY <2>3, <2>4, <2>6, <2>7
  <2> QED
    BY <2>2, <2>8, OneSlotKeeps
<1> QED
  BY <1>1, <1>2

LEMMA LastStagesKeep ==
    ASSUME StagesInv, SuccessorEndings \/ DistressEndings \/ UnexplainedEndings
    PROVE  SuccessorsKept
<1>1. CASE UNCHANGED rows
  BY <1>1 DEF SuccessorsKept
<1>2. CASE SuccessorEndings /\ ~UNCHANGED rows
  <2>1. rows["line"] = NoRow /\ "line" \in Slots /\ \A s \in Slots \ {"line"} : rows'[s] = rows[s]
    BY <1>2, LineRows, SlotsAre
  <2> QED
    BY <2>1, OneSlotKeeps
<1>3. CASE DistressEndings
  BY <1>3, DistressRows DEF SuccessorsKept
<1>4. CASE UnexplainedEndings /\ ~UNCHANGED rows
  <2>1. rows["unexplained"] = NoRow /\ \E r \in Unexplained : rows' = [rows EXCEPT !["unexplained"] = r]
    BY <1>4 DEF UnexplainedEndings, At, StagesInv, SlotsInTurn
  <2> QED
    BY <2>1, SlotsAre, WrittenSlotKeeps
<1> QED
  BY <1>1, <1>2, <1>3, <1>4

(* A successor once found is renamed by no later stage (rewrites, successors.py,
   apply_handoffs). *)
THEOREM SuccessorsStand == Spec => SuccessorStands
<1>1. StagesInv /\ [Next]_vars => [SuccessorsKept]_vars
  BY FinderStagesKeep, HandoffsKeep, ClosesKeep, NoticesKeep, LastStagesKeep DEF Next
<1>2. Spec => [][SuccessorsKept]_vars
  BY <1>1, StagesAgree, PTL DEF Spec
<1> QED
  BY <1>2 DEF SuccessorStands, SuccessorsKept
===============================================================================
