--------------------------- MODULE LineFollowProofs ---------------------------
(* What following the lines keeps, for any lines, worlds, rounds and failed reads: what the
   runs check, of every run.  A round finds its steps before it takes the first of them; what
   a step then takes on word of a line that an earlier step changed is in strays, and an
   observation or a CUSIP that is not in it is where it should be. *)
EXTENDS LineFollow, WellFoundedInduction, TLAPS

(* The line whose step is next, its step, and what becomes of it. *)
Stepping == phase = "steps" /\ round.left # {}
Turn  == FirstOf(round.left)
St    == round.steps[Turn]
Dec   == Outcome(Turn, St)
Taker == TakerOf(Turn, Dec)

-------------------------------------------------------------------------------
(* The least-number principle for sets of naturals. *)

Less == {ss \in Nat \X Nat : ss[1] < ss[2]}

LEMMA LessIsWellFounded == IsWellFoundedOn(Less, Nat)
BY NatLessThanWellFounded DEF OpToRel, Less

(* A set of naturals that is not empty has a least element. *)
LEMMA LeastNatural ==
    ASSUME NEW T \in SUBSET Nat, T # {}
    PROVE  \E x \in T : \A y \in T : x <= y
<1>1. PICK x \in T : \A y \in T : <<y, x>> \notin Less
  BY LessIsWellFounded, WFMin
<1>2. \A y \in T : ~(y < x)
  BY <1>1 DEF Less
<1> QED
  BY <1>2

LEMMA MinIs ==
    ASSUME NEW T \in SUBSET Nat, T # {}
    PROVE  Min(T) \in T
BY LeastNatural DEF Min

(* The first of some securities, in the order of their ids, is one of them. *)
LEMMA FirstOfIs ==
    ASSUME NEW S \in SUBSET Sids, S # {}
    PROVE  FirstOf(S) \in S
<1> DEFINE I == {n \in DOMAIN Order : Order[n] \in S}
<1>1. I \in SUBSET Nat /\ I # {}
  BY LineFollowAssumption DEF Sids, ToSet
<1>2. PICK m \in I : \A n \in I : m <= n
  BY <1>1, LeastNatural
<1>3. \A t \in S \ {Order[m]} : Before(Order[m], t)
  <2> TAKE t \in S \ {Order[m]}
  <2>1. PICK n \in DOMAIN Order : Order[n] = t
    BY DEF Sids, ToSet
  <2>2. n \in I /\ n # m
    BY <2>1
  <2>3. m < n
    BY <1>1, <1>2, <2>2
  <2> QED
    BY <2>1, <2>3 DEF Before
<1>4. Order[m] \in S
  OBVIOUS
<1> HIDE DEF I
<1> QED
  BY <1>3, <1>4 DEF FirstOf

-------------------------------------------------------------------------------
(* The step of a line in the fails rows is one of those it may take. *)

Known(st) == st.kind \in {"switch", "symbol"} /\ (st.kind = "switch" => RunsOf(st.cusip) # {})

Usable(s, st, holders) ==
    Known(st) /\ st.first \in Nat /\ (st.kind = "switch" => ~HeldByOther(s, st.cusip, holders))

LEMMA RunsHaveDays ==
    ASSUME world \in Worlds, NEW c, RunsOf(c) # {}
    PROVE  First(c) \in Nat
<1> DEFINE T == {r.from : r \in RunsOf(c)}
<1>1. T \in SUBSET Nat /\ T # {}
  BY LineFollowAssumption DEF RunsOf, WorldAssumption
<1> HIDE DEF T
<1>2. Min(T) \in Nat
  BY <1>1, MinIs
<1> QED
  BY <1>2 DEF T, First

LEMMA SymbolsHaveDays ==
    ASSUME world \in Worlds, NEW c, NEW y, y \in {r.symbol : r \in RunsOf(c)}
    PROVE  FirstUnder(c, y) \in Nat
<1> DEFINE T == {r.from : r \in {r \in RunsOf(c) : r.symbol = y}}
<1>1. T \in SUBSET Nat /\ T # {}
  BY LineFollowAssumption DEF RunsOf, WorldAssumption
<1> HIDE DEF T
<1>2. Min(T) \in Nat
  BY <1>1, MinIs
<1> QED
  BY <1>2 DEF T, FirstUnder

LEMMA OneSwitchIsOne ==
    ASSUME NEW s, NEW S
    PROVE  OneSwitch(s, S) \subseteq S
BY DEF OneSwitch, OneOf, Shortest, Narrowed

LEMMA NextLineIsFree ==
    ASSUME NEW s, NEW dropped, NEW S, NEW holders
    PROVE  IssuersNextLine(s, dropped, S, holders) \subseteq {c \in S : ~HeldByOther(s, c, holders)}
<1> DEFINE free == {c \in S \ {dropped} : ~HeldByOther(s, c, holders) /\ NamesIssuer(s, c)}
<1>1. NextLineOf(s, dropped, free) \subseteq free
  <2>1. \A T : OneSwitch(s, T) \subseteq T
    BY OneSwitchIsOne
  <2> HIDE DEF free
  <2> QED
    BY <2>1 DEF NextLineOf
<1> QED
  BY <1>1 DEF IssuersNextLine

LEMMA KeptIsFree ==
    ASSUME NEW s, NEW S, NEW picks, picks \subseteq S, NEW holders
    PROVE  KeptSwitch(s, S, picks, holders) \subseteq {c \in S : ~HeldByOther(s, c, holders)}
<1>1. \A dropped : IssuersNextLine(s, dropped, S, holders) \subseteq {c \in S : ~HeldByOther(s, c, holders)}
  BY NextLineIsFree
<1> QED
  BY <1>1 DEF KeptSwitch

LEMMA SwitchesUsable ==
    ASSUME world \in Worlds, NEW s, NEW end, NEW extra, NEW named, NEW holders, NEW late,
           NEW st \in SwitchSteps(s, end, extra, named, holders, late)
    PROVE  Usable(s, st, holders)
<1> DEFINE S == Switches(s, end, extra, named)
<1> DEFINE Free(c) == RunsOf(c) # {} /\ ~HeldByOther(s, c, holders)
<1>1. \A c \in S : RunsOf(c) # {}
  BY DEF Switches
<1>2. \A c \in LateSwitch(s, end, holders) : Free(c)
  BY DEF LateSwitch, RunsOf
<1>3. \A c \in KeptSwitch(s, S, OneSwitch(s, S), holders) : Free(c)
  <2>1. OneSwitch(s, S) \subseteq S
    BY OneSwitchIsOne
  <2>2. KeptSwitch(s, S, OneSwitch(s, S), holders) \subseteq {c \in S : ~HeldByOther(s, c, holders)}
    BY <2>1, KeptIsFree
  <2> HIDE DEF S
  <2> QED
    BY <1>1, <2>2
<1> HIDE DEF S
<1>4. st \in SwitchStepsAmong(s, end, S, holders, late)
  BY DEF SwitchSteps, S
<1>5. \E c, b : st = Step("switch", c, SymbolOf(c), end, First(c), b) /\ Free(c)
  BY <1>2, <1>3, <1>4 DEF SwitchStepsAmong
<1>6. PICK c, b : st = Step("switch", c, SymbolOf(c), end, First(c), b) /\ Free(c)
  BY <1>5
<1>7. First(c) \in Nat
  BY <1>6, RunsHaveDays
<1>8. st.kind = "switch" /\ st.cusip = c /\ st.first = First(c)
  BY <1>6 DEF Step
<1> QED
  BY <1>6, <1>7, <1>8 DEF Usable, Known

LEMMA SymbolsUsable ==
    ASSUME world \in Worlds, NEW s, NEW end, NEW extra, NEW holders, NEW late,
           NEW st \in SymbolSteps(s, end, extra, holders, late)
    PROVE  Usable(s, st, holders)
<1> DEFINE named == {r.symbol : r \in RunsOf(end.cusip)}
<1>1. \A T : OneOf(T) \subseteq T
  BY DEF OneOf
<1>2. \E y, b : y \in named /\ st = Step("symbol", end.cusip, y, end, FirstUnder(end.cusip, y), b)
  BY <1>1 DEF SymbolSteps
<1>3. PICK y, b : y \in named /\ st = Step("symbol", end.cusip, y, end, FirstUnder(end.cusip, y), b)
  BY <1>2
<1>4. FirstUnder(end.cusip, y) \in Nat
  BY <1>3, SymbolsHaveDays
<1>5. st.kind = "symbol" /\ st.first = FirstUnder(end.cusip, y)
  BY <1>3 DEF Step
<1> QED
  BY <1>4, <1>5 DEF Usable, Known

(* The earliest of some steps is one of them. *)
LEMMA EarliestIs ==
    ASSUME NEW S, S # {}, \A st \in S : st.first \in Nat /\ st.kind \in {"switch", "symbol"}
    PROVE  EarliestOf(S) \in S
<1> DEFINE T == {st.first : st \in S}
<1>1. PICK m \in T : \A x \in T : m <= x
  <2>1. T \in SUBSET Nat /\ T # {}
    OBVIOUS
  <2> HIDE DEF T
  <2> QED
    BY <2>1, LeastNatural
<1>2. \E st \in S : st.first = m /\ \A q \in S : q.first = m => st.kind = "switch" \/ q.kind = "symbol"
  <2>1. CASE \E st \in S : st.first = m /\ st.kind = "switch"
    BY <2>1
  <2>2. CASE ~ \E st \in S : st.first = m /\ st.kind = "switch"
    BY <2>2
  <2> QED
    BY <2>1, <2>2
<1>3. \E st \in S : \A q \in S : /\ st.first <= q.first
                                 /\ st.first = q.first => st.kind = "switch" \/ q.kind = "symbol"
  BY <1>1, <1>2
<1> QED
  BY <1>3 DEF EarliestOf

LEMMA CandidateUsable ==
    ASSUME world \in Worlds, NEW s, NEW extra, NEW named, NEW holders, NEW late
    PROVE  LET st == CandidateStep(s, extra, named, holders, late) IN st = NoStep \/ Usable(s, st, holders)
<1> DEFINE S == StepsFrom(s, LineEnd(s), extra, named, holders, late)
<1>1. \A st \in S : Usable(s, st, holders)
  <2>1. \A end : \A st \in SwitchSteps(s, end, extra, named, holders, late) : Usable(s, st, holders)
    BY SwitchesUsable
  <2>2. \A end : \A st \in SymbolSteps(s, end, extra, holders, late) : Usable(s, st, holders)
    BY SymbolsUsable
  <2> QED
    BY <2>1, <2>2 DEF StepsFrom
<1>2. CandidateStep(s, extra, named, holders, late) = EarliestOf(S)
  BY DEF CandidateStep
<1> HIDE DEF S
<1>3. S # {} => EarliestOf(S) \in S
  BY <1>1, EarliestIs DEF Usable, Known
<1>4. S = {} => EarliestOf(S) = NoStep
  BY DEF EarliestOf
<1> QED
  BY <1>1, <1>2, <1>3, <1>4

LEMMA NextStepUsable ==
    ASSUME world \in Worlds, NEW s, NEW p, NEW holders
    PROVE  NextStep(s, p, holders) = NoStep \/ Usable(s, NextStep(s, p, holders), holders)
<1>1. \A late : LET st == CandidateStep(s, p.extra[s], p.named[s], holders, late)
                IN  st = NoStep \/ Usable(s, st, holders)
  BY CandidateUsable
<1> QED
  BY <1>1 DEF NextStep, OrLate

-------------------------------------------------------------------------------
(* What becomes of a step: a line folds into another, attaches to itself, and does so
   knowing the lines that hold the CUSIP. *)

Sound(s, st, dec) ==
    /\ dec.kind \in {"attach", "fold", "successor", "refused"}
    /\ dec.kind = "attach" => dec.to \in {"none", s}
    /\ dec.kind = "fold" => dec.to \in Sids \ {s} /\ st.kind = "switch"
    /\ dec.kind = "successor" => dec.to \in Sids \ {s} /\ s \notin Placeholders

Aware(s, st, dec) ==
    st.kind = "switch" => /\ dec.kind = "attach" => Lifted(s, st) = {}
                          /\ dec.kind = "fold" => Lifted(s, st) = {} \/ dec.to \in Lifted(s, st)

LEMMA DecideIs ==
    ASSUME world \in Worlds, NEW s, NEW st, st.kind \in {"switch", "symbol"},
           st.kind = "switch" => RunsOf(st.cusip) # {}
    PROVE  Sound(s, st, Decide(s, st))
<1> DEFINE answer == world.figi[st.cusip]
           x == CHOOSE x \in answer : TRUE
<1>1. st.kind = "switch" => answer \subseteq Sids
  BY LineFollowAssumption DEF RunsOf, WorldAssumption
<1>2. answer # {} => x \in answer
  OBVIOUS
<1>3. \/ Decide(s, st) = Decided("attach", "none", "")
      \/ \E to, why : Decide(s, st) = Decided("refused", to, why)
      \/ Decide(s, st) = Decided("attach", s, "")
      \/ /\ st.kind = "switch" /\ answer # {} /\ x # s
         /\ \/ s \in Placeholders /\ Decide(s, st) = Decided("fold", x, "")
            \/ s \notin Placeholders /\ Decide(s, st) = Decided("successor", x, "")
  BY DEF Decide
<1> HIDE DEF answer, x
<1>4. \A to, why : Sound(s, st, Decided("refused", to, why))
  BY DEF Sound, Decided
<1>5. Sound(s, st, Decided("attach", "none", "")) /\ Sound(s, st, Decided("attach", s, ""))
  BY DEF Sound, Decided
<1>6. ASSUME st.kind = "switch", x \in Sids \ {s}
      PROVE  /\ Sound(s, st, Decided("fold", x, ""))
             /\ s \notin Placeholders => Sound(s, st, Decided("successor", x, ""))
  BY <1>6 DEF Sound, Decided
<1> QED
  BY <1>1, <1>2, <1>3, <1>4, <1>5, <1>6

LEMMA LiftedAreLines ==
    ASSUME NEW s, NEW st, DOMAIN round.holders \subseteq Sids
    PROVE  /\ Lifted(s, st) \subseteq Sids \ {s}
           /\ Lifted(s, st) # {} => FirstOf(Lifted(s, st)) \in Lifted(s, st) /\ s \in Placeholders
<1>1. Lifted(s, st) \subseteq Sids \ {s}
  BY DEF Lifted, HoldersAtStart
<1>2. Lifted(s, st) # {} => s \in Placeholders
  BY DEF Lifted, FoldsInto
<1> QED
  BY <1>1, <1>2, FirstOfIs

LEMMA AsHeldIs ==
    ASSUME NEW s, NEW st, NEW dec, DOMAIN round.holders \subseteq Sids, Sound(s, st, dec)
    PROVE  /\ Sound(s, st, AsHeld(s, st, dec)) /\ Aware(s, st, AsHeld(s, st, dec))
           /\ AsHeld(s, st, dec).kind = "successor" => Lifted(s, st) = {}
BY LiftedAreLines DEF AsHeld, Sound, Aware, Decided

LEMMA TodayHolderIs ==
    ASSUME NEW s, NEW st, NEW dec, st.kind \in {"switch", "symbol"}, Sound(s, st, dec), Aware(s, st, dec),
           dec.kind = "successor" => Lifted(s, st) = {} /\ st.kind = "switch"
    PROVE  Sound(s, st, TodayHolder(s, dec)) /\ Aware(s, st, TodayHolder(s, dec))
<1>1. TodayHolder(s, dec) = dec \/ (dec.kind = "successor" /\ TodayHolder(s, dec) = Decided("fold", dec.to, ""))
  BY DEF TodayHolder
<1>2. CASE TodayHolder(s, dec) = dec
  BY <1>2
<1>3. CASE dec.kind = "successor" /\ TodayHolder(s, dec) = Decided("fold", dec.to, "")
  <2> DEFINE d == Decided("fold", dec.to, "")
  <2>1. d.kind = "fold" /\ d.to = dec.to
    BY DEF Decided
  <2> HIDE DEF d
  <2>2. Sound(s, st, d)
    BY <1>3, <2>1 DEF Sound
  <2>3. Aware(s, st, d)
    BY <1>3, <2>1 DEF Aware
  <2> QED
    BY <1>3, <2>2, <2>3 DEF d
<1> QED
  BY <1>1, <1>2, <1>3

LEMMA ClaimIs ==
    ASSUME NEW s, NEW st, NEW dec, s \in Sids, Sound(s, st, dec), st.kind = "switch", dec.kind \in {"attach", "fold"}
    PROVE  Claim(s, st, dec) = <<st.cusip, TakerOf(s, dec)>>
BY LineFollowAssumption DEF Claim, Sound, TakerOf

LEMMA OutcomeIs ==
    ASSUME world \in Worlds, NEW s \in Sids, NEW st, DOMAIN round.holders \subseteq Sids,
           st.kind \in {"switch", "symbol"}, st.kind = "switch" => RunsOf(st.cusip) # {}
    PROVE  /\ Sound(s, st, Outcome(s, st)) /\ Aware(s, st, Outcome(s, st))
           /\ st.kind = "switch" /\ Outcome(s, st).kind \in {"attach", "fold"} =>
                 /\ Claim(s, st, Outcome(s, st)) = <<st.cusip, TakerOf(s, Outcome(s, st))>>
                 /\ ~Taken(<<st.cusip, TakerOf(s, Outcome(s, st))>>)
<1> DEFINE held == AsHeld(s, st, Decide(s, st))
           dec  == TodayHolder(s, held)
<1>1. Sound(s, st, Decide(s, st))
  BY DecideIs
<1>2. Sound(s, st, held) /\ Aware(s, st, held) /\ (held.kind = "successor" => Lifted(s, st) = {})
  BY <1>1, AsHeldIs
<1>3. held.kind = "successor" => st.kind = "switch"
  BY DEF AsHeld, Decide, Decided
<1> HIDE DEF held
<1>4. Sound(s, st, dec) /\ Aware(s, st, dec)
  BY <1>2, <1>3, TodayHolderIs
<1>5. \/ \E why : Outcome(s, st) = Decided("refused", "none", why)
      \/ Outcome(s, st) = dec /\ (dec.kind # "refused" => ~Taken(Claim(s, st, dec)))
  BY DEF Outcome, held
<1> HIDE DEF dec
<1>6. CASE \E why : Outcome(s, st) = Decided("refused", "none", why)
  BY <1>6 DEF Decided, Sound, Aware
<1>7. CASE Outcome(s, st) = dec /\ (dec.kind # "refused" => ~Taken(Claim(s, st, dec)))
  <2>1. st.kind = "switch" /\ dec.kind \in {"attach", "fold"} => Claim(s, st, dec) = <<st.cusip, TakerOf(s, dec)>>
    BY <1>4, ClaimIs
  <2> QED
    BY <1>4, <1>7, <2>1
<1> QED
  BY <1>5, <1>6, <1>7

-------------------------------------------------------------------------------
(* What a step changes of the lines and of the round. *)

Shapes ==
    /\ DOMAIN out = {"resolution", "source", "secs", "cusips", "tickers", "renames", "successors", "refused"}
    /\ DOMAIN round = {"no", "todo", "left", "steps", "holders", "taken", "moved"}
    /\ DOMAIN reads = {"extra", "named", "texted", "degraded", "flagged", "lost"}

Stepped ==
    /\ DOMAIN out' = DOMAIN out /\ out'.secs = out.secs
    /\ DOMAIN round' = DOMAIN round /\ round'.left = round.left \ {Turn}
    /\ round'.holders = round.holders /\ round'.steps = round.steps
    /\ UNCHANGED <<world, phase>> /\ strays' \in {strays, Strayed(Turn, St, Dec)}

LinesStay == out'.resolution = out.resolution /\ out'.cusips = out.cusips /\ out'.renames = out.renames

Stays ==
    /\ LinesStay
    /\ round'.moved = round.moved /\ round.taken \subseteq round'.taken

Attaches ==
    /\ Dec.kind = "attach"
    /\ out'.resolution = out.resolution /\ out'.renames = out.renames
    /\ DOMAIN out'.cusips = Sids
    /\ \A h \in Sids : out'.cusips[h] = out.cusips[h] \cup IF h = Turn /\ St.kind = "switch" THEN {St.cusip} ELSE {}
    /\ round'.moved = round.moved \cup {Turn}
    /\ round.taken \subseteq round'.taken
    /\ St.kind = "switch" => <<St.cusip, Turn>> \in round'.taken
    /\ strays' = Strayed(Turn, St, Dec)

Folds ==
    /\ Dec.kind = "fold"
    /\ out'.resolution = [e \in Eras |-> IF e \in out.secs[Turn] THEN Dec.to ELSE out.resolution[e]]
    /\ DOMAIN out'.cusips = Sids /\ DOMAIN out'.renames = Sids
    /\ \A h \in Sids : out'.cusips[h] = IF h = Turn THEN {}
                                        ELSE IF h = Dec.to THEN out.cusips[h] \cup out.cusips[Turn] \cup {St.cusip}
                                        ELSE out.cusips[h]
    /\ \A q \in Sids : out'.renames[q] = IF q = Turn \/ out.renames[q] = Turn THEN Dec.to ELSE out.renames[q]
    /\ round'.moved = round.moved \cup {Dec.to}
    /\ round.taken \subseteq round'.taken /\ <<St.cusip, Dec.to>> \in round'.taken
    /\ strays' = Strayed(Turn, St, Dec)

(* A turn is one of these, whatever was read. *)
LEMMA FollowIs ==
    ASSUME Shapes, DOMAIN out.cusips = Sids, Turn \in Sids, Sound(Turn, St, Dec),
           Dec.kind \in {"attach", "fold"} /\ St.kind = "switch" => Claim(Turn, St, Dec) = <<St.cusip, Taker>>,
           NEW read, Follow(read)
    PROVE  Stepped /\ (Stays \/ Attaches \/ Folds)
<1> DEFINE claims == {Claim(Turn, St, Dec)} \ {<<>>}
           more   == CASE Dec.kind = "attach" -> {Turn} [] Dec.kind = "fold" -> {Dec.to} [] OTHER -> {}
           taken  == /\ Take(Turn, St, Dec) /\ strays' = Strayed(Turn, St, Dec)
                     /\ round' = [round EXCEPT !.left = @ \ {Turn}, !.taken = @ \cup claims, !.moved = @ \cup more]
           passed == /\ (\E why : NotFollowed(Turn, St, why)) /\ strays' = strays
                     /\ round' = [round EXCEPT !.left = @ \ {Turn}]
<1>1. UNCHANGED <<world, phase>> /\ ((Dec.kind # "refused" /\ taken) \/ passed)
  BY DEF Follow, Turn, St, Dec
<1> HIDE DEF passed
<1>2. passed => Stepped /\ Stays
  <2> SUFFICES ASSUME passed PROVE Stepped /\ Stays
    OBVIOUS
  <2>1. /\ DOMAIN round' = DOMAIN round /\ round'.left = round.left \ {Turn}
        /\ round'.holders = round.holders /\ round'.steps = round.steps
        /\ round'.moved = round.moved /\ round'.taken = round.taken
    BY DEF passed, Shapes
  <2>2. DOMAIN out' = DOMAIN out /\ out'.secs = out.secs /\ LinesStay
    BY DEF passed, NotFollowed, Shapes, LinesStay
  <2>3. strays' = strays
    BY DEF passed
  <2> QED
    BY <1>1, <2>1, <2>2, <2>3 DEF Stepped, Stays
<1>3. /\ Dec.kind = "attach" => more = {Turn}
      /\ Dec.kind = "fold" => more = {Dec.to}
      /\ Dec.kind = "successor" => more = {}
  OBVIOUS
<1>4. /\ taken /\ Dec.kind = "attach" => Attach(Turn, St)
      /\ taken /\ Dec.kind = "fold" => Fold(Turn, Dec.to, St)
      /\ taken /\ Dec.kind = "successor" => out' = [out EXCEPT !.successors[Turn] = Dec.to]
  BY DEF Take
<1>5. taken => /\ DOMAIN round' = DOMAIN round /\ round'.left = round.left \ {Turn}
               /\ round'.holders = round.holders /\ round'.steps = round.steps
               /\ round'.moved = round.moved \cup more /\ round'.taken = round.taken \cup claims
               /\ strays' = Strayed(Turn, St, Dec)
  <2> HIDE DEF more, claims
  <2> QED
    BY DEF Shapes
<1> HIDE DEF taken, more
<1>6. \A a, b : <<a, b>> # <<>>
  OBVIOUS
<1>7. CASE taken /\ Dec.kind = "successor"
  <2>1. DOMAIN out' = DOMAIN out /\ out'.secs = out.secs /\ LinesStay
    BY <1>4, <1>7 DEF Shapes, LinesStay
  <2> HIDE DEF claims
  <2>2. Stays
    BY <1>3, <1>5, <1>7, <2>1 DEF Stays
  <2> QED
    BY <1>1, <1>5, <1>7, <2>1, <2>2 DEF Stepped
<1>8. CASE taken /\ Dec.kind = "attach"
  <2>1. claims = IF St.kind = "switch" THEN {<<St.cusip, Turn>>} ELSE {}
    <3>1. St.kind = "switch" => Claim(Turn, St, Dec) = <<St.cusip, Turn>>
      BY <1>8 DEF Taker, TakerOf
    <3>2. St.kind # "switch" => Claim(Turn, St, Dec) = <<>>
      BY <1>8 DEF Claim
    <3> QED
      BY <3>1, <3>2, <1>6
  <2>2. Attach(Turn, St)
    BY <1>4, <1>8
  <2>3. /\ DOMAIN out' = DOMAIN out /\ out'.secs = out.secs
        /\ out'.resolution = out.resolution /\ out'.renames = out.renames
        /\ DOMAIN out'.cusips = Sids
        /\ \A h \in Sids :
              out'.cusips[h] = out.cusips[h] \cup IF h = Turn /\ St.kind = "switch" THEN {St.cusip} ELSE {}
    <3>1. out'.cusips = [out.cusips EXCEPT ![Turn] = IF St.kind = "switch" THEN @ \cup {St.cusip} ELSE @]
      BY <2>2 DEF Shapes, Attach
    <3>2. DOMAIN out' = DOMAIN out /\ out'.secs = out.secs
      BY <2>2 DEF Shapes, Attach
    <3>3. out'.resolution = out.resolution /\ out'.renames = out.renames
      BY <2>2 DEF Shapes, Attach
    <3> QED
      BY <3>1, <3>2, <3>3
  <2> HIDE DEF claims
  <2>4. Attaches
    BY <1>3, <1>5, <1>8, <2>1, <2>3 DEF Attaches
  <2> QED
    BY <1>1, <1>5, <1>8, <2>3, <2>4 DEF Stepped
<1>9. CASE taken /\ Dec.kind = "fold"
  <2>1. St.kind = "switch" /\ Dec.to \in Sids
    BY <1>9 DEF Sound
  <2>2. claims = {<<St.cusip, Dec.to>>}
    BY <1>9, <2>1, <1>6 DEF Taker, TakerOf
  <2>3. Fold(Turn, Dec.to, St)
    BY <1>4, <1>9
  <2>4. DOMAIN out' = DOMAIN out /\ out'.secs = out.secs
    BY <2>3 DEF Shapes, Fold
  <2>5. out'.resolution = [e \in Eras |-> IF e \in out.secs[Turn] THEN Dec.to ELSE out.resolution[e]]
    BY <2>3 DEF Shapes, Fold
  <2>6. out'.cusips = Merged(out.cusips, Turn, Dec.to, {St.cusip}) /\ out'.renames = Renamed(out.renames, Turn, Dec.to)
    BY <2>3 DEF Shapes, Fold
  <2> HIDE DEF claims
  <2>7. Folds
    <3>1. Dec.to # Turn
      BY <1>9 DEF Sound
    <3>2. DOMAIN out'.cusips = Sids /\ DOMAIN out'.renames = Sids
      BY <2>6 DEF Merged, Renamed
    <3>3. \A h \in Sids : out'.cusips[h] = IF h = Turn THEN {}
                                          ELSE IF h = Dec.to THEN out.cusips[h] \cup out.cusips[Turn] \cup {St.cusip}
                                          ELSE out.cusips[h]
      BY <2>1, <2>6, <3>1 DEF Merged
    <3>4. \A q \in Sids : out'.renames[q] = IF q = Turn \/ out.renames[q] = Turn THEN Dec.to ELSE out.renames[q]
      BY <2>6 DEF Renamed
    <3> QED
      BY <1>3, <1>5, <1>9, <2>2, <2>5, <3>2, <3>3, <3>4 DEF Folds
  <2> QED
    BY <1>1, <1>5, <1>9, <2>4, <2>7 DEF Stepped
<1> QED
  BY <1>1, <1>2, <1>7, <1>8, <1>9 DEF Sound

-------------------------------------------------------------------------------
(* The invariant: an observation is with the line it was with when the round began until that
   line steps; one that did not stay behind is with its CUSIPs; the observations of a line
   that was folded away stayed behind or came after, and its rename leads to some. *)

LineTypes ==
    /\ world \in Worlds /\ phase \in {"find", "steps", "done"} /\ Shapes
    /\ DOMAIN out.cusips = Sids /\ DOMAIN out.renames = Sids /\ out.resolution \in [Eras -> Sids]
    /\ Lines \subseteq Sids /\ \A p \in Lines : out.secs[p] # {} /\ out.secs[p] \subseteq Eras

RoundRight ==
    /\ phase = "find" => round.todo \subseteq Lines
    /\ phase = "steps" => /\ round.left \subseteq Lines /\ DOMAIN round.holders = Lines
                          /\ \A s \in round.left : Known(round.steps[s])

LineOK == LineTypes /\ RoundRight

SecuritiesBuilt == Between => out.secs = Built(out.resolution)

ErasInPlace == phase = "steps" => \A p \in round.left : \A e \in out.secs[p] : out.resolution[e] = p

CusipsFollow == \A e \in Eras \ strays.behind : world.held[e] \subseteq out.cusips[out.resolution[e]]

FoldedAway ==
    \A p \in Sids : Gone(p) =>
        /\ \A e \in Eras : out.resolution[e] = p => e \in strays.behind \cup strays.onto
        /\ \E e \in Eras : out.resolution[e] = out.renames[p]

LineInv == LineOK /\ SecuritiesBuilt /\ ErasInPlace /\ CusipsFollow /\ FoldedAway

(* The invariant on who holds a CUSIP that is not loose: no two lines; a line with one has
   observations; in a round each was held as the round began, taken in the round, or came
   with a line that folded in it; and a line that may still step to one can fold into whoever
   held it, while neither has changed. *)
Loose == Doubled \cup strays.cusips

OneEach == \A h, k \in Sids : h # k => out.cusips[h] \cap out.cusips[k] \subseteq Loose

HoldersHaveEras == \A h \in Sids : out.cusips[h] # {} => \E e \in Eras : out.resolution[e] = h

(* In the round t folded into h. *)
WentTo(t, h) == t \notin round.left /\ out.renames[t] = h

HeldThrough ==
    phase = "steps" => \A h \in Sids : \A c \in out.cusips[h] :
        \/ h \in Lines /\ c \in round.holders[h]
        \/ \E t \in Sids : <<c, t>> \in round.taken /\ (t = h \/ WentTo(t, h))
        \/ \E p \in Lines : c \in round.holders[p] /\ WentTo(p, h)

HoldersKeep == phase = "steps" => \A h \in Lines : Gone(h) \/ round.holders[h] \subseteq out.cusips[h]

StepsFold ==
    phase = "steps" => \A s \in round.left :
        round.steps[s].kind = "switch" /\ s \notin round.moved =>
            \A c \in {round.steps[s].cusip} : \A h \in HoldersAtStart(c) \ {s} : Changed(h) \/ FoldsInto(s, h, c)

HolderInv == OneEach /\ HoldersHaveEras /\ HeldThrough /\ HoldersKeep /\ StepsFold

-------------------------------------------------------------------------------
(* The invariant holds to begin with, and as a round opens or closes. *)

LEMMA LineInit == Init => LineInv
<1> SUFFICES ASSUME Init PROVE LineInv
  OBVIOUS
<1> DEFINE res == [e \in Eras |-> e]
<1>1. Eras \subseteq Sids
  BY LineFollowAssumption DEF Init, WorldAssumption, Eras
<1>2. /\ Shapes /\ world \in Worlds /\ phase = "find"
      /\ out.resolution = res /\ out.secs = Built(res)
      /\ out.cusips = [s \in Sids |-> IF s \in Eras THEN world.held[s] ELSE {}]
      /\ out.renames = [s \in Sids |-> "none"] /\ round.todo = Eras /\ strays.behind = {}
  BY DEF Init, Shapes
<1>3. Built(res) = [s \in Eras |-> {e \in Eras : res[e] = s}]
  <2>1. {res[e] : e \in Eras} = Eras
    OBVIOUS
  <2> QED
    BY <2>1 DEF Built
<1>4. Lines = Eras /\ \A s \in Eras : out.secs[s] = {s}
  BY <1>2, <1>3 DEF Lines
<1>5. LineTypes
  BY <1>1, <1>2, <1>4 DEF LineTypes
<1>6. RoundRight /\ SecuritiesBuilt /\ ErasInPlace
  BY <1>2, <1>4 DEF RoundRight, SecuritiesBuilt, ErasInPlace
<1>7. CusipsFollow
  BY <1>1, <1>2 DEF CusipsFollow
<1>8. FoldedAway
  BY <1>2 DEF FoldedAway, Gone
<1> QED
  BY <1>5, <1>6, <1>7, <1>8 DEF LineInv, LineOK

(* The securities built of what the observations resolve to. *)
LEMMA BuiltIs ==
    ASSUME LineTypes
    PROVE  /\ DOMAIN Built(out.resolution) = {out.resolution[e] : e \in Eras}
           /\ \A e \in Eras : e \in Built(out.resolution)[out.resolution[e]]
           /\ \A p \in DOMAIN Built(out.resolution) : Built(out.resolution)[p] = {e \in Eras : out.resolution[e] = p}
           /\ \A p \in DOMAIN Built(out.resolution) : p \in Sids /\ Built(out.resolution)[p] # {}
BY DEF Built, LineTypes

LEMMA FindIs ==
    ASSUME Shapes, world \in Worlds, round.todo \subseteq Sids, NEW lost, Find(lost)
    PROVE  /\ phase = "find" /\ phase' = "steps" /\ UNCHANGED <<world, out, strays>> /\ Shapes'
           /\ round'.left \subseteq round.todo /\ round'.taken = {} /\ round'.moved = {}
           /\ round'.holders = [s \in Lines |-> Held(s)]
           /\ \A s \in round'.left : Usable(s, round'.steps[s], round'.holders)
<1> DEFINE holders == [s \in Lines |-> Held(s)]
           StepsOf(p) == [s \in Sids |-> IF s \in round.todo THEN NextStep(s, p, holders) ELSE NoStep]
           Opened(steps) == [no |-> round.no + 1, todo |-> round.todo, left |-> {s \in round.todo : steps[s] # NoStep},
                             steps |-> steps, holders |-> holders, taken |-> {}, moved |-> {}]
           Read(p) == [reads EXCEPT !.extra = p.extra, !.named = p.named, !.lost = @ + Cardinality(lost),
                                    !.texted = @ \cup {<<s, LineEnd(s).cusip>> : s \in p.asked},
                                    !.degraded = @ \cup lost]
<1>1. \E p \in {Sourced(ListedToo(lost), holders, lost)} : \E steps \in {StepsOf(p)} :
         round' = Opened(steps) /\ reads' = Read(p)
  BY DEF Find
<1> HIDE DEF holders, StepsOf, Opened, Read
<1>2. PICK p, steps : steps = StepsOf(p) /\ round' = Opened(steps) /\ reads' = Read(p)
  BY <1>1
<1>3. DOMAIN reads' = DOMAIN reads
  BY <1>2 DEF Read
<1>4. phase = "find" /\ phase' = "steps" /\ UNCHANGED <<world, out, strays>>
  BY DEF Find
<1>5. Shapes'
  BY <1>2, <1>3, <1>4 DEF Shapes, Opened
<1>6. \A s : NextStep(s, p, holders) = NoStep \/ Usable(s, NextStep(s, p, holders), holders)
  BY NextStepUsable
<1>7. /\ round'.left = {s \in round.todo : steps[s] # NoStep} /\ round'.taken = {} /\ round'.moved = {}
      /\ round'.holders = holders /\ round'.steps = steps
  BY <1>2 DEF Opened
<1>8. \A s \in round.todo : steps[s] = NextStep(s, p, holders)
  BY <1>2 DEF StepsOf
<1> QED
  BY <1>4, <1>5, <1>6, <1>7, <1>8 DEF holders

LEMMA FindTypes ==
    ASSUME LineOK, NEW lost, Find(lost)
    PROVE  /\ LineOK' /\ phase = "find" /\ round.todo \subseteq Lines
           /\ phase' = "steps" /\ UNCHANGED <<world, out, strays>> /\ round'.left \subseteq round.todo
           /\ round'.taken = {} /\ round'.moved = {} /\ round'.holders = [s \in Lines |-> Held(s)]
           /\ \A s \in round'.left : Usable(s, round'.steps[s], round'.holders)
<1>1. phase = "find"
  BY DEF Find
<1>2. round.todo \subseteq Lines /\ Lines \subseteq Sids
  BY <1>1 DEF LineOK, LineTypes, RoundRight
<1>3. /\ phase' = "steps" /\ UNCHANGED <<world, out, strays>> /\ Shapes' /\ round'.left \subseteq round.todo
      /\ round'.taken = {} /\ round'.moved = {} /\ round'.holders = [s \in Lines |-> Held(s)]
      /\ \A s \in round'.left : Usable(s, round'.steps[s], round'.holders)
  BY <1>2, FindIs DEF LineOK, LineTypes
<1>4. LineTypes'
  BY <1>3 DEF LineOK, LineTypes, Lines, Eras
<1>5. RoundRight'
  BY <1>2, <1>3 DEF RoundRight, Lines, Usable, Known, RunsOf
<1> QED
  BY <1>1, <1>2, <1>3, <1>4, <1>5 DEF LineOK

LEMMA FindLine ==
    ASSUME LineInv, NEW lost, Find(lost)
    PROVE  LineInv'
<1>1. LineOK /\ LineTypes /\ RoundRight /\ SecuritiesBuilt /\ CusipsFollow /\ FoldedAway
  BY DEF LineInv, LineOK
<1>2. /\ LineOK' /\ phase = "find" /\ round.todo \subseteq Lines
      /\ phase' = "steps" /\ UNCHANGED <<world, out, strays>> /\ round'.left \subseteq round.todo
  BY <1>1, FindTypes
<1>3. round.todo \subseteq Lines /\ out.secs = Built(out.resolution)
  BY <1>1, <1>2 DEF SecuritiesBuilt, Between
<1>4. SecuritiesBuilt'
  BY <1>2 DEF SecuritiesBuilt, Between
<1>5. \A p \in Lines : out.secs[p] = {e \in Eras : out.resolution[e] = p}
  BY <1>1, <1>3, BuiltIs DEF Lines
<1>6. ErasInPlace'
  BY <1>2, <1>3, <1>5 DEF ErasInPlace, Lines, Eras
<1>7. CusipsFollow'
  BY <1>1, <1>2 DEF CusipsFollow, Eras
<1>8. FoldedAway'
  BY <1>1, <1>2 DEF FoldedAway, Gone, Eras
<1> QED
  BY <1>2, <1>4, <1>6, <1>7, <1>8 DEF LineInv

LEMMA CloseIs ==
    ASSUME Shapes, CloseRound
    PROVE  /\ phase = "steps" /\ phase' \in {"find", "done"} /\ UNCHANGED <<world, strays>> /\ Shapes' /\ LinesStay
           /\ out'.secs = Built(out.resolution) /\ round'.todo \subseteq DOMAIN Built(out.resolution)
<1> DEFINE secs == Built(out.resolution)
           todo == round.moved \cap DOMAIN secs
<1>1. /\ phase = "steps" /\ phase' \in {"find", "done"} /\ UNCHANGED <<world, strays>>
      /\ out' = [out EXCEPT !.secs = secs] /\ round' = [round EXCEPT !.todo = todo]
  BY DEF CloseRound
<1>2. DOMAIN reads' = DOMAIN reads
  BY DEF CloseRound
<1> HIDE DEF secs
<1> QED
  BY <1>1, <1>2 DEF Shapes, LinesStay, secs

LEMMA CloseTypes ==
    ASSUME LineOK, CloseRound
    PROVE  /\ LineOK' /\ phase = "steps" /\ phase' \in {"find", "done"} /\ UNCHANGED <<world, strays>> /\ LinesStay
           /\ out'.secs = Built(out.resolution) /\ Built(out.resolution)' = Built(out.resolution)
<1>1. LineTypes
  BY DEF LineOK
<1>2. /\ phase = "steps" /\ phase' \in {"find", "done"} /\ UNCHANGED <<world, strays>> /\ Shapes' /\ LinesStay
      /\ out'.secs = Built(out.resolution) /\ round'.todo \subseteq DOMAIN Built(out.resolution)
  BY <1>1, CloseIs DEF LineTypes
<1>3. Built(out.resolution)' = Built(out.resolution)
  BY <1>2 DEF Built, LinesStay, Eras
<1>4. \A p \in DOMAIN Built(out.resolution) : /\ p \in Sids /\ Built(out.resolution)[p] # {}
                                              /\ Built(out.resolution)[p] \subseteq Eras
  BY <1>1, BuiltIs
<1>5. LineTypes'
  BY <1>1, <1>2, <1>4 DEF LineTypes, LinesStay, Lines, Eras
<1>6. RoundRight'
  BY <1>2 DEF RoundRight, Lines
<1> QED
  BY <1>2, <1>3, <1>5, <1>6 DEF LineOK

LEMMA CloseLine ==
    ASSUME LineInv, CloseRound
    PROVE  LineInv'
<1>1. LineOK /\ CusipsFollow /\ FoldedAway
  BY DEF LineInv
<1>2. /\ LineOK' /\ phase = "steps" /\ phase' \in {"find", "done"} /\ UNCHANGED <<world, strays>> /\ LinesStay
      /\ out'.secs = Built(out.resolution) /\ Built(out.resolution)' = Built(out.resolution)
  BY <1>1, CloseTypes
<1>3. SecuritiesBuilt' /\ ErasInPlace'
  BY <1>2 DEF SecuritiesBuilt, ErasInPlace
<1>4. CusipsFollow' /\ FoldedAway'
  BY <1>1, <1>2 DEF CusipsFollow, FoldedAway, Gone, LinesStay, Eras
<1> QED
  BY <1>2, <1>3, <1>4 DEF LineInv

-------------------------------------------------------------------------------
(* A turn of a round keeps the invariant. *)

LEMMA TurnIs ==
    ASSUME LineOK, Stepping
    PROVE  /\ Turn \in round.left /\ Turn \in Lines /\ Turn \in Sids /\ Known(St)
           /\ Sound(Turn, St, Dec) /\ Aware(Turn, St, Dec)
           /\ St.kind = "switch" /\ Dec.kind \in {"attach", "fold"} =>
                 Claim(Turn, St, Dec) = <<St.cusip, Taker>> /\ ~Taken(<<St.cusip, Taker>>)
<1>1. /\ world \in Worlds /\ Lines \subseteq Sids /\ round.left \subseteq Lines /\ DOMAIN round.holders = Lines
      /\ \A s \in round.left : Known(round.steps[s])
  BY DEF LineOK, LineTypes, RoundRight, Stepping
<1>2. Turn \in round.left
  BY <1>1, FirstOfIs DEF Turn, Stepping
<1>3. Turn \in Lines /\ Turn \in Sids /\ Known(St)
  BY <1>1, <1>2 DEF St
<1> HIDE DEF Turn, St
<1>4. St.kind \in {"switch", "symbol"} /\ (St.kind = "switch" => RunsOf(St.cusip) # {})
  BY <1>3 DEF Known
<1>5. /\ Sound(Turn, St, Dec) /\ Aware(Turn, St, Dec)
      /\ St.kind = "switch" /\ Dec.kind \in {"attach", "fold"} =>
            Claim(Turn, St, Dec) = <<St.cusip, TakerOf(Turn, Dec)>> /\ ~Taken(<<St.cusip, TakerOf(Turn, Dec)>>)
  BY <1>1, <1>3, <1>4, OutcomeIs DEF Dec
<1> QED
  BY <1>2, <1>3, <1>5 DEF Taker

LEMMA TurnChanges ==
    ASSUME LineOK, NEW read, Follow(read)
    PROVE  Stepping /\ Stepped /\ (Stays \/ Attaches \/ Folds) /\ LineOK'
<1>1. Stepping /\ DOMAIN reads' = DOMAIN reads
  BY DEF Follow, Stepping
<1>2. LineTypes /\ RoundRight /\ Shapes /\ DOMAIN out.cusips = Sids /\ phase = "steps"
  BY <1>1 DEF LineOK, LineTypes, Stepping
<1>3. Stepped /\ (Stays \/ Attaches \/ Folds)
  BY <1>1, <1>2, TurnIs, FollowIs
<1>4. Shapes'
  BY <1>1, <1>2, <1>3 DEF Shapes, Stepped
<1>5. Lines' = Lines /\ Eras' = Eras /\ UNCHANGED <<world, phase>> /\ out'.secs = out.secs
  BY <1>3 DEF Stepped, Lines, Eras
<1>6. LineTypes'
  <2>1. DOMAIN out'.cusips = Sids /\ DOMAIN out'.renames = Sids
    BY <1>2, <1>3 DEF Stays, LinesStay, Attaches, Folds, LineTypes
  <2>2. out'.resolution \in [Eras -> Sids]
    <3>1. CASE Stays \/ Attaches
      BY <1>2, <3>1 DEF Stays, LinesStay, Attaches, LineTypes
    <3>2. CASE Folds
      <4>1. Dec.to \in Sids
        BY <1>1, <3>2, TurnIs DEF Folds, Sound
      <4> QED
        BY <1>2, <3>2, <4>1 DEF Folds, LineTypes
    <3> QED
      BY <1>3, <3>1, <3>2
  <2> QED
    BY <1>2, <1>4, <1>5, <2>1, <2>2 DEF LineTypes
<1>7. RoundRight'
  BY <1>2, <1>3, <1>5 DEF RoundRight, Stepped, Known, RunsOf
<1> QED
  BY <1>1, <1>3, <1>6, <1>7 DEF LineOK

(* What strayed before stays so. *)
LEMMA StraysGrow ==
    ASSUME Stepped
    PROVE  strays.behind \subseteq strays'.behind /\ strays.onto \subseteq strays'.onto /\ strays.cusips \subseteq strays'.cusips
BY DEF Stepped, Strayed

(* Where a turn folds, the observations that the line had as the round began go over and no
   other does; those that came since stay behind. *)
LEMMA FoldMoves ==
    ASSUME LineInv, Stepping, Folds
    PROVE  /\ Dec.to \in Sids \ {Turn} /\ "none" \notin {Turn, Dec.to}
           /\ \A e \in out.secs[Turn] : e \in Eras /\ out.resolution[e] = Turn
           /\ \A p \in round.left \ {Turn} : \A e \in out.secs[p] : e \notin out.secs[Turn]
           /\ \A e \in Eras : out'.resolution[e] = IF e \in out.secs[Turn] THEN Dec.to ELSE out.resolution[e]
           /\ DOMAIN out'.resolution = Eras /\ out.secs[Turn] # {}
           /\ \A e \in Eras : out.resolution[e] = Turn => e \in out.secs[Turn] \/ e \in strays'.behind
           /\ Gone(Dec.to) => out.secs[Turn] \subseteq strays'.onto
<1>1. Dec.to \in Sids \ {Turn} /\ Turn \in round.left /\ Turn \in Lines
  BY TurnIs DEF LineInv, Folds, Sound
<1>2. \A p \in round.left : \A e \in out.secs[p] : out.resolution[e] = p
  BY DEF LineInv, ErasInPlace, Stepping
<1>3. out.secs[Turn] # {} /\ out.secs[Turn] \subseteq Eras
  BY <1>1 DEF LineInv, LineOK, LineTypes
<1>4. "none" \notin {Turn, Dec.to}
  BY <1>1, LineFollowAssumption DEF LineInv, LineOK, LineTypes
<1>5. strays' = Strayed(Turn, St, Dec) /\ Dec.kind = "fold"
  BY DEF Folds
<1>6. \A e \in Eras : out.resolution[e] = Turn => e \in out.secs[Turn] \/ e \in strays'.behind
  BY <1>5 DEF Strayed
<1>7. Gone(Dec.to) => out.secs[Turn] \subseteq strays'.onto
  BY <1>5 DEF Strayed
<1> QED
  BY <1>1, <1>2, <1>3, <1>4, <1>6, <1>7 DEF Folds

LEMMA FollowLine ==
    ASSUME LineInv, NEW read, Follow(read)
    PROVE  LineInv'
<1>1. /\ LineTypes /\ RoundRight /\ ErasInPlace /\ CusipsFollow /\ FoldedAway /\ phase = "steps"
      /\ Stepping /\ Stepped /\ (Stays \/ Attaches \/ Folds) /\ LineOK'
  BY TurnChanges DEF LineInv, LineOK, Stepping
<1>2. /\ phase' = "steps" /\ UNCHANGED <<world, phase>> /\ out'.secs = out.secs /\ round'.left \subseteq round.left \ {Turn}
      /\ Lines' = Lines /\ Eras' = Eras
  BY <1>1 DEF Stepped, Lines, Eras
<1>3. SecuritiesBuilt'
  BY <1>2, <1>1 DEF SecuritiesBuilt, Between
<1>4. strays.behind \subseteq strays'.behind /\ strays.onto \subseteq strays'.onto
  BY <1>1, StraysGrow
<1>5. CASE Stays \/ Attaches
  <2>1. /\ out'.resolution = out.resolution /\ out'.renames = out.renames /\ DOMAIN out'.cusips = Sids
        /\ \A h \in Sids : out.cusips[h] \subseteq out'.cusips[h]
    BY <1>1, <1>5 DEF Stays, LinesStay, Attaches, LineTypes
  <2>2. ErasInPlace'
    BY <1>1, <1>2, <2>1 DEF ErasInPlace
  <2>3. CusipsFollow'
    BY <1>1, <1>2, <1>4, <2>1 DEF CusipsFollow, LineTypes
  <2>4. FoldedAway'
    BY <1>1, <1>2, <1>4, <2>1 DEF FoldedAway, Gone
  <2> QED
    BY <1>1, <1>3, <2>2, <2>3, <2>4 DEF LineInv
<1>6. CASE Folds
  <2>1. /\ Dec.to \in Sids \ {Turn} /\ "none" \notin {Turn, Dec.to}
        /\ \A e \in out.secs[Turn] : e \in Eras /\ out.resolution[e] = Turn
        /\ \A p \in round.left \ {Turn} : \A e \in out.secs[p] : e \notin out.secs[Turn]
        /\ \A e \in Eras : out'.resolution[e] = IF e \in out.secs[Turn] THEN Dec.to ELSE out.resolution[e]
        /\ DOMAIN out'.resolution = Eras /\ out.secs[Turn] # {}
        /\ \A e \in Eras : out.resolution[e] = Turn => e \in out.secs[Turn] \/ e \in strays'.behind
        /\ Gone(Dec.to) => out.secs[Turn] \subseteq strays'.onto
    BY <1>1, <1>6, FoldMoves
  <2>2. /\ DOMAIN out'.cusips = Sids /\ DOMAIN out'.renames = Sids
        /\ \A h \in Sids : h # Turn => out.cusips[h] \subseteq out'.cusips[h]
        /\ out.cusips[Turn] \subseteq out'.cusips[Dec.to]
        /\ \A q \in Sids : out'.renames[q] = IF q = Turn \/ out.renames[q] = Turn THEN Dec.to ELSE out.renames[q]
    <3>1. \A h \in Sids : out'.cusips[h] = IF h = Turn THEN {}
                                          ELSE IF h = Dec.to THEN out.cusips[h] \cup out.cusips[Turn] \cup {St.cusip}
                                          ELSE out.cusips[h]
      BY <1>6 DEF Folds
    <3>2. out'.cusips[Dec.to] = out.cusips[Dec.to] \cup out.cusips[Turn] \cup {St.cusip}
      BY <2>1, <3>1
    <3>3. \A h \in Sids : h # Turn => out.cusips[h] \subseteq out'.cusips[h]
      BY <3>1, <3>2
    <3> QED
      BY <1>6, <3>2, <3>3 DEF Folds
  <2>3. ErasInPlace'
    <3>1. \A p \in round.left : \A e \in out.secs[p] : e \in Eras /\ out.resolution[e] = p
      BY <1>1 DEF ErasInPlace, LineTypes, RoundRight
    <3> QED
      BY <1>2, <2>1, <3>1 DEF ErasInPlace
  <2>4. CusipsFollow'
    <3> SUFFICES ASSUME NEW e \in Eras, e \notin strays'.behind
                 PROVE  world.held[e] \subseteq out'.cusips[out'.resolution[e]]
      BY <1>2 DEF CusipsFollow
    <3>1. world.held[e] \subseteq out.cusips[out.resolution[e]] /\ out.resolution[e] \in Sids
      BY <1>1, <1>4 DEF CusipsFollow, LineTypes
    <3>2. CASE e \in out.secs[Turn]
      BY <2>1, <2>2, <3>1, <3>2
    <3>3. CASE e \notin out.secs[Turn]
      BY <2>1, <2>2, <3>1, <3>3
    <3> QED
      BY <3>2, <3>3
  <2>5. FoldedAway'
    <3> SUFFICES ASSUME NEW q \in Sids, out'.renames[q] # "none"
                 PROVE  /\ \A e \in Eras : out'.resolution[e] = q => e \in strays'.behind \cup strays'.onto
                        /\ \E e \in Eras : out'.resolution[e] = out'.renames[q]
      BY <1>2 DEF FoldedAway, Gone
    <3>1. CASE q = Turn
      BY <2>1, <2>2, <3>1
    <3>2. CASE q # Turn
      <4>1. Gone(q)
        BY <2>1, <2>2, <3>2 DEF Gone
      <4>2. ASSUME NEW e \in Eras, out'.resolution[e] = q
            PROVE  e \in strays'.behind \cup strays'.onto
        <5>1. CASE e \in out.secs[Turn]
          BY <2>1, <4>1, <4>2, <5>1
        <5>2. CASE e \notin out.secs[Turn]
          BY <1>1, <1>4, <2>1, <4>1, <4>2, <5>2 DEF FoldedAway
        <5> QED
          BY <5>1, <5>2
      <4>3. \E e \in Eras : out'.resolution[e] = out'.renames[q]
        <5>1. CASE out.renames[q] = Turn
          BY <2>1, <2>2, <5>1
        <5>2. CASE out.renames[q] # Turn
          <6>1. PICK e \in Eras : out.resolution[e] = out.renames[q]
            BY <1>1, <4>1 DEF FoldedAway
          <6>2. e \notin out.secs[Turn] /\ out'.renames[q] = out.renames[q]
            BY <2>1, <2>2, <3>2, <5>2, <6>1
          <6> QED
            BY <2>1, <6>1, <6>2
        <5> QED
          BY <5>1, <5>2
      <4> QED
        BY <4>2, <4>3
    <3> QED
      BY <3>1, <3>2
  <2> QED
    BY <1>1, <1>3, <2>3, <2>4, <2>5 DEF LineInv
<1> QED
  BY <1>1, <1>5, <1>6

LEMMA TypesStep == LineOK /\ [Next]_vars => LineOK'
<1> SUFFICES ASSUME LineOK, [Next]_vars PROVE LineOK'
  OBVIOUS
<1>1. CASE \E lost : Find(lost)
  BY <1>1, FindTypes
<1>2. CASE \E read : Follow(read)
  BY <1>2, TurnChanges
<1>3. CASE CloseRound
  BY <1>3, CloseTypes
<1>4. CASE UNCHANGED vars
  BY <1>4 DEF vars, LineOK, LineTypes, Shapes, RoundRight, Known, RunsOf, Eras, Lines
<1> QED
  BY <1>1, <1>2, <1>3, <1>4 DEF Next

LEMMA LineStep == LineInv /\ [Next]_vars => LineInv'
<1> SUFFICES ASSUME LineInv, [Next]_vars PROVE LineInv'
  OBVIOUS
<1>1. CASE \E lost : Find(lost)
  BY <1>1, FindLine
<1>2. CASE \E read : Follow(read)
  BY <1>2, FollowLine
<1>3. CASE CloseRound
  BY <1>3, CloseLine
<1>4. CASE UNCHANGED vars
  <2>1. LineOK'
    BY TypesStep DEF LineInv
  <2>2. Eras' = Eras /\ Lines' = Lines
    BY <1>4 DEF vars, Eras, Lines
  <2>3. SecuritiesBuilt' /\ ErasInPlace'
    BY <1>4, <2>2 DEF vars, LineInv, SecuritiesBuilt, ErasInPlace, Between, Built
  <2>4. CusipsFollow' /\ FoldedAway'
    BY <1>4, <2>2 DEF vars, LineInv, CusipsFollow, FoldedAway, Gone
  <2> QED
    BY <2>1, <2>3, <2>4 DEF LineInv
<1> QED
  BY <1>1, <1>2, <1>3, <1>4 DEF Next

LEMMA LineInvHolds == Spec => []LineInv
BY LineInit, LineStep, PTL DEF Spec

LEMMA LineInvKeeps == LineInv => ErasKeepTheirCusips /\ RenamesLeadToLines
<1> SUFFICES ASSUME LineInv PROVE ErasKeepTheirCusips /\ RenamesLeadToLines
  OBVIOUS
<1>1. ErasKeepTheirCusips
  BY DEF LineInv, CusipsFollow, ErasKeepTheirCusips, Held
<1>2. RenamesLeadToLines
  <2> SUFFICES ASSUME Between, NEW p \in Sids, Gone(p)
               PROVE  /\ out.renames[p] \in Lines
                      /\ p \in Lines => out.secs[p] \subseteq strays.behind \cup strays.onto
    BY DEF RenamesLeadToLines
  <2>1. /\ Lines = {out.resolution[e] : e \in Eras}
        /\ p \in Lines => out.secs[p] = {e \in Eras : out.resolution[e] = p}
    BY BuiltIs DEF LineInv, LineOK, SecuritiesBuilt, Lines
  <2>2. /\ \A e \in Eras : out.resolution[e] = p => e \in strays.behind \cup strays.onto
        /\ \E e \in Eras : out.resolution[e] = out.renames[p]
    BY DEF LineInv, FoldedAway
  <2> QED
    BY <2>1, <2>2
<1> QED
  BY <1>1, <1>2

(* An observation is with the CUSIPs it was known by, whatever folds into what, unless the
   line it joined in a round folded on in that round (line_follow._fold goes over the
   observations that a line had when the round began). *)
THEOREM ErasKept == Spec => []ErasKeepTheirCusips
BY LineInvHolds, LineInvKeeps, PTL

(* A rename leads at once to a line, through every chain of folds (follow_lines' renames,
   which the stages after this one follow one step), and a folded line that is a line still
   has only observations that joined it in the round it folded in. *)
THEOREM RenamesLead == Spec => []RenamesLeadToLines
BY LineInvHolds, LineInvKeeps, PTL

-------------------------------------------------------------------------------
(* What rested on a read that failed is told of. *)

LEMMA ToldStep == LineOK /\ DegradedIsFlagged /\ [Next]_vars => DegradedIsFlagged'
<1> SUFFICES ASSUME LineOK, DegradedIsFlagged, [Next]_vars PROVE DegradedIsFlagged'
  OBVIOUS
<1>1. CASE \E lost : Find(lost)
  BY <1>1 DEF Find, DegradedIsFlagged
<1>2. CASE \E read : Follow(read)
  BY <1>2 DEF Follow, DegradedIsFlagged
<1>3. CASE CloseRound
  <2> DEFINE secs == Built(out.resolution)
             more == {s \in DOMAIN secs : \E e \in secs[s] : world.eras[e].issuer \in reads.degraded}
  <2> SUFFICES ASSUME phase' = "done", NEW s \in Lines', Issuer(s)' \in reads'.degraded PROVE s \in reads'.flagged
    BY DEF DegradedIsFlagged
  <2>1. out'.secs = secs /\ world' = world
    BY <1>3, CloseTypes
  <2>2. reads' = [reads EXCEPT !.flagged = @ \cup more]
    BY <1>3 DEF CloseRound
  <2>3. reads'.degraded = reads.degraded /\ more \subseteq reads'.flagged
    <3> HIDE DEF more
    <3> QED
      BY <2>2 DEF LineOK, LineTypes, Shapes
  <2>4. s \in DOMAIN secs /\ secs[s] # {}
    BY <2>1, BuiltIs DEF LineOK, Lines
  <2>5. \E e \in secs[s] : world.eras[e].issuer \in reads.degraded
    <3> DEFINE e == CHOOSE e \in secs[s] : TRUE
    <3>1. e \in secs[s]
      BY <2>4
    <3>2. world.eras[e].issuer \in reads.degraded
      BY <2>1, <2>3 DEF Issuer
    <3> QED
      BY <3>1, <3>2
  <2> QED
    BY <2>3, <2>4, <2>5
<1>4. CASE UNCHANGED vars
  BY <1>4 DEF vars, DegradedIsFlagged, Lines, Issuer
<1> QED
  BY <1>1, <1>2, <1>3, <1>4 DEF Next

(* Every line whose issuer's record was not read whole is told of it when the stage ends,
   whenever in the round the read failed (follow_lines, its last look at what degraded). *)
THEOREM DegradedFlagged == Spec => []DegradedIsFlagged
<1>1. Init => LineOK /\ DegradedIsFlagged
  BY LineInit DEF LineInv, Init, DegradedIsFlagged
<1> QED
  BY <1>1, TypesStep, ToldStep, PTL DEF Spec

-------------------------------------------------------------------------------
(* Who holds a CUSIP. *)

LEMMA FoldsIntoStays ==
    ASSUME NEW s, NEW h, NEW c, world' = world, out'.secs = out.secs,
           out'.cusips[s] = out.cusips[s], out'.cusips[h] = out.cusips[h]
    PROVE  FoldsInto(s, h, c)' <=> FoldsInto(s, h, c)
<1>1. Lines' = Lines /\ \A t : Issuer(t)' = Issuer(t) /\ Class(t)' = Class(t)
  BY DEF Lines, Issuer, Class
<1>2. Described(s)' = Described(s) /\ Held(h)' = Held(h)
  BY DEF Described, Held
<1>3. IssuerLetters(Issuer(s))' = IssuerLetters(Issuer(s))
  BY <1>1 DEF IssuerLetters
<1>4. First(c)' = First(c)
  BY DEF First, RunsOf
<1> QED
  BY <1>1, <1>2, <1>3, <1>4 DEF FoldsInto

LEMMA HoldersInit == Init => HolderInv
<1> SUFFICES ASSUME Init PROVE HolderInv
  OBVIOUS
<1>1. /\ world \in Worlds /\ Eras \subseteq Sids /\ phase = "find"
      /\ out.cusips = [s \in Sids |-> IF s \in Eras THEN world.held[s] ELSE {}]
      /\ out.resolution = [e \in Eras |-> e]
  BY LineFollowAssumption DEF Init, WorldAssumption, Eras
<1>2. OneEach
  BY <1>1 DEF OneEach, Loose, Doubled
<1>3. HoldersHaveEras
  BY <1>1 DEF HoldersHaveEras
<1>4. HeldThrough /\ HoldersKeep /\ StepsFold
  BY <1>1 DEF HeldThrough, HoldersKeep, StepsFold
<1> QED
  BY <1>2, <1>3, <1>4 DEF HolderInv

LEMMA FindHolders ==
    ASSUME LineInv, HolderInv, NEW lost, Find(lost)
    PROVE  HolderInv'
<1>1. /\ LineInv' /\ phase = "find" /\ round.todo \subseteq Lines
      /\ phase' = "steps" /\ UNCHANGED <<world, out, strays>> /\ round'.left \subseteq round.todo
      /\ round'.taken = {} /\ round'.moved = {} /\ round'.holders = [s \in Lines |-> Held(s)]
      /\ \A s \in round'.left : Usable(s, round'.steps[s], round'.holders)
  BY FindTypes, FindLine DEF LineInv
<1>2. OneEach' /\ HoldersHaveEras'
  BY <1>1 DEF HolderInv, OneEach, HoldersHaveEras, Loose, Doubled, Eras
<1>3. Lines' = Lines
  BY <1>1 DEF Lines
<1>4. HoldersKeep'
  BY <1>1, <1>3 DEF HoldersKeep, Held
<1>5. HeldThrough'
  <2> SUFFICES ASSUME NEW h \in Sids, NEW c \in out.cusips[h] PROVE h \in Lines /\ c \in round'.holders[h]
    BY <1>1, <1>3 DEF HeldThrough
  <2>1. PICK e \in Eras : out.resolution[e] = h
    BY DEF HolderInv, HoldersHaveEras
  <2>2. Lines = {out.resolution[d] : d \in Eras}
    BY <1>1, BuiltIs DEF LineInv, LineOK, SecuritiesBuilt, Between, Lines
  <2> QED
    BY <1>1, <2>1, <2>2 DEF Held
<1>6. StepsFold'
  <2> SUFFICES ASSUME NEW s \in round'.left, round'.steps[s].kind = "switch", NEW c \in {round'.steps[s].cusip},
                      NEW h \in HoldersAtStart(c)' \ {s}
               PROVE  FoldsInto(s, h, c)'
    BY DEF StepsFold
  <2>1. h \in DOMAIN round'.holders /\ c \in round'.holders[h] /\ h # s
    BY DEF HoldersAtStart
  <2>2. ~HeldByOther(s, c, round'.holders)
    BY <1>1 DEF Usable
  <2>3. FoldsInto(s, h, c)
    BY <2>1, <2>2 DEF HeldByOther
  <2> QED
    BY <1>1, <2>3, FoldsIntoStays
<1> QED
  BY <1>2, <1>4, <1>5, <1>6 DEF HolderInv

LEMMA CloseHolders ==
    ASSUME LineInv, HolderInv, CloseRound
    PROVE  HolderInv'
<1>1. phase' \in {"find", "done"} /\ UNCHANGED <<world, strays>> /\ LinesStay
  BY CloseTypes DEF LineInv
<1>2. OneEach' /\ HoldersHaveEras'
  BY <1>1 DEF HolderInv, LinesStay, OneEach, HoldersHaveEras, Loose, Doubled, Eras
<1> QED
  BY <1>1, <1>2 DEF HolderInv, HeldThrough, HoldersKeep, StepsFold

(* What a turn leaves as it was: what another line's later step rests on. *)
LEMMA TurnKeeps ==
    ASSUME LineInv, Stepping, Stepped, Stays \/ Attaches \/ Folds
    PROVE  /\ \A h \in Sids : ~Gone(h)' => ~Gone(h) /\ out.cusips[h] \subseteq out'.cusips[h]
           /\ \A h \in Sids : h \notin round'.moved /\ (h # Turn \/ ~Gone(h)') => out'.cusips[h] = out.cusips[h]
           /\ round.moved \subseteq round'.moved /\ Loose \subseteq Loose'
<1>1. Loose \subseteq Loose'
  BY StraysGrow DEF Stepped, Loose, Doubled, Eras
<1>2. CASE Stays
  BY <1>1, <1>2 DEF Stays, LinesStay, Gone
<1>3. CASE Attaches
  <2>1. out'.renames = out.renames /\ round'.moved = round.moved \cup {Turn}
    BY <1>3 DEF Attaches
  <2>2. \A h \in Sids : out.cusips[h] \subseteq out'.cusips[h]
    BY <1>3 DEF Attaches
  <2>3. ASSUME NEW h \in Sids, h # Turn
        PROVE  out'.cusips[h] = out.cusips[h]
    <3>1. out'.cusips[h] = out.cusips[h] \cup IF h = Turn /\ St.kind = "switch" THEN {St.cusip} ELSE {}
      BY <1>3 DEF Attaches
    <3> QED
      BY <2>3, <3>1
  <2> QED
    BY <1>1, <2>1, <2>2, <2>3 DEF Gone
<1>4. CASE Folds
  <2>1. Dec.to \in Sids \ {Turn} /\ "none" \notin {Turn, Dec.to}
    BY <1>4, FoldMoves
  <2>2. /\ \A h \in Sids \ {Turn, Dec.to} : out'.cusips[h] = out.cusips[h]
        /\ out'.cusips[Dec.to] = out.cusips[Dec.to] \cup out.cusips[Turn] \cup {St.cusip}
        /\ round'.moved = round.moved \cup {Dec.to}
    BY <1>4, <2>1 DEF Folds
  <2>3. \A h \in Sids : ~Gone(h)' => h # Turn /\ ~Gone(h)
    BY <1>4, <2>1 DEF Folds, Gone
  <2>4. ASSUME NEW h \in Sids, ~Gone(h)'
        PROVE  out.cusips[h] \subseteq out'.cusips[h]
    <3>1. CASE h = Dec.to
      BY <2>2, <3>1
    <3>2. CASE h # Dec.to
      BY <2>2, <2>3, <2>4, <3>2
    <3> QED
      BY <3>1, <3>2
  <2> QED
    BY <1>1, <2>1, <2>2, <2>3, <2>4
<1> QED
  BY <1>2, <1>3, <1>4

LEMMA TurnStepsFold ==
    ASSUME LineInv, HolderInv, Stepping, Stepped, Stays \/ Attaches \/ Folds
    PROVE  StepsFold' /\ HoldersKeep'
<1>1. /\ round'.holders = round.holders /\ round'.steps = round.steps /\ round'.left = round.left \ {Turn}
      /\ UNCHANGED <<world, phase>> /\ out'.secs = out.secs /\ Lines' = Lines /\ phase = "steps"
  BY DEF Stepped, Stepping, Lines
<1>2. Lines \subseteq Sids /\ round.left \subseteq Lines /\ DOMAIN round.holders = Lines
  BY <1>1 DEF LineInv, LineOK, LineTypes, RoundRight
<1>3. /\ \A h \in Sids : ~Gone(h)' => ~Gone(h) /\ out.cusips[h] \subseteq out'.cusips[h]
      /\ \A h \in Sids : h \notin round'.moved /\ (h # Turn \/ ~Gone(h)') => out'.cusips[h] = out.cusips[h]
      /\ round.moved \subseteq round'.moved
  BY TurnKeeps
<1>4. StepsFold'
  <2> SUFFICES ASSUME NEW s \in round'.left, round'.steps[s].kind = "switch", s \notin round'.moved,
                      NEW c \in {round'.steps[s].cusip}, NEW h \in HoldersAtStart(c)' \ {s}, ~Changed(h)'
               PROVE  FoldsInto(s, h, c)'
    BY DEF StepsFold
  <2>1. /\ s \in round.left /\ s # Turn /\ s \notin round.moved /\ round.steps[s].kind = "switch"
        /\ c \in {round.steps[s].cusip} /\ h \in HoldersAtStart(c) \ {s} /\ h \in Sids /\ s \in Sids
    BY <1>1, <1>2, <1>3 DEF HoldersAtStart
  <2>2. h \notin round'.moved /\ ~Gone(h)' /\ ~Changed(h)
    BY <1>3, <2>1 DEF Changed
  <2>3. FoldsInto(s, h, c)
    BY <1>1, <2>1, <2>2 DEF HolderInv, StepsFold
  <2>4. out'.cusips[s] = out.cusips[s] /\ out'.cusips[h] = out.cusips[h]
    BY <1>3, <2>1, <2>2
  <2> QED
    BY <1>1, <2>3, <2>4, FoldsIntoStays
<1>5. HoldersKeep'
  <2> SUFFICES ASSUME NEW h \in Lines, ~Gone(h)' PROVE round.holders[h] \subseteq out'.cusips[h]
    BY <1>1 DEF HoldersKeep
  <2>1. round.holders[h] \subseteq out.cusips[h]
    BY <1>1, <1>2, <1>3 DEF HolderInv, HoldersKeep
  <2> QED
    BY <1>2, <1>3, <2>1
<1> QED
  BY <1>4, <1>5

(* A line that held the CUSIP of a switch as the round began, and is not the one that gets
   it, changed in the round or folded away, or the CUSIP is loose. *)
LEMMA HolderChanged ==
    ASSUME LineInv, HolderInv, Stepping, St.kind = "switch", Dec.kind \in {"attach", "fold"},
           Turn \notin round.moved, Dec.kind = "fold" => ~Gone(Dec.to),
           NEW h \in Lines \ {Turn, Taker}, St.cusip \in round.holders[h], St.cusip \in out.cusips[h]
    PROVE  Changed(h) \/ St.cusip \in Loose
<1> SUFFICES ASSUME ~Changed(h) PROVE St.cusip \in Loose
  OBVIOUS
<1>1. /\ Turn \in round.left /\ Aware(Turn, St, Dec) /\ phase = "steps"
      /\ DOMAIN round.holders = Lines /\ Lines \subseteq Sids
  BY TurnIs DEF LineInv, LineOK, LineTypes, RoundRight, Stepping
<1>2. h \in HoldersAtStart(St.cusip) \ {Turn}
  BY <1>1 DEF HoldersAtStart
<1>3. FoldsInto(Turn, h, St.cusip)
  BY <1>1, <1>2 DEF HolderInv, StepsFold, St
<1>4. h \in Lifted(Turn, St)
  BY <1>2, <1>3 DEF Lifted
<1>5. Dec.kind = "fold" /\ Dec.to \in Lifted(Turn, St)
  BY <1>1, <1>4 DEF Aware
<1>6. Dec.to \in Lines /\ St.cusip \in round.holders[Dec.to] /\ h # Dec.to
  BY <1>1, <1>5 DEF Lifted, HoldersAtStart, Taker, TakerOf
<1>7. St.cusip \in out.cusips[Dec.to]
  BY <1>1, <1>5, <1>6 DEF HolderInv, HoldersKeep
<1> QED
  BY <1>1, <1>6, <1>7 DEF HolderInv, OneEach

(* The CUSIP of a switch is held by no line beside the one that gets it, or it is loose. *)
LEMMA OthersLackIt ==
    ASSUME LineInv, HolderInv, Stepping, St.kind = "switch", Dec.kind \in {"attach", "fold"},
           strays' = Strayed(Turn, St, Dec), world' = world
    PROVE  \A h \in Sids \ {Turn, Taker} : St.cusip \in out.cusips[h] => St.cusip \in Loose'
<1> SUFFICES ASSUME NEW h \in Sids \ {Turn, Taker}, St.cusip \in out.cusips[h], St.cusip \notin Loose' PROVE FALSE
  OBVIOUS
<1>1. /\ Turn \in round.left /\ ~Taken(<<St.cusip, Taker>>) /\ phase = "steps"
      /\ DOMAIN round.holders = Lines /\ Lines \subseteq Sids
  BY TurnIs DEF LineInv, LineOK, LineTypes, RoundRight, Stepping
<1>2. St.cusip \notin Loose /\ ~TakenPast(Turn, St, Dec)
  BY DEF Strayed, Loose, Doubled, Eras
<1>3. /\ \A p \in HoldersAtStart(St.cusip) \ {Turn, Taker} : ~Changed(p) /\ Turn \notin round.moved
      /\ Dec.kind = "fold" => ~Gone(Dec.to)
  BY <1>2 DEF TakenPast, Taker
<1>4. \A p \in Lines : St.cusip \in round.holders[p] /\ Gone(p) => p \in {Turn, Taker}
  BY <1>1, <1>3 DEF HoldersAtStart, Changed
<1>5. \/ h \in Lines /\ St.cusip \in round.holders[h]
      \/ \E t \in Sids : <<St.cusip, t>> \in round.taken /\ (t = h \/ WentTo(t, h))
      \/ \E p \in Lines : St.cusip \in round.holders[p] /\ WentTo(p, h)
  BY <1>1 DEF HolderInv, HeldThrough
<1>6. \A p : ~(WentTo(p, h) /\ p \in {Turn, Taker})
  <2> SUFFICES ASSUME NEW p, WentTo(p, h), p \in {Turn, Taker} PROVE FALSE
    OBVIOUS
  <2>1. p # Turn /\ out.renames[p] = h
    BY <1>1 DEF WentTo
  <2>2. p = Dec.to /\ Dec.kind = "fold"
    BY <2>1 DEF Taker, TakerOf
  <2>3. h # "none"
    BY LineFollowAssumption
  <2> QED
    BY <1>3, <2>1, <2>2, <2>3 DEF Gone
<1>7. CASE h \in Lines /\ St.cusip \in round.holders[h]
  <2>1. h \in HoldersAtStart(St.cusip) \ {Turn, Taker}
    BY <1>1, <1>7 DEF HoldersAtStart
  <2>2. ~Changed(h) /\ Turn \notin round.moved
    BY <1>3, <2>1
  <2> QED
    BY <1>2, <1>3, <1>7, <2>2, HolderChanged
<1>8. CASE \E t \in Sids : <<St.cusip, t>> \in round.taken /\ (t = h \/ WentTo(t, h))
  <2>1. PICK t \in Sids : <<St.cusip, t>> \in round.taken /\ (t = h \/ WentTo(t, h))
    BY <1>8
  <2>2. t # Taker
    BY <1>6, <2>1
  <2> DEFINE x == <<St.cusip, t>>
             k == <<St.cusip, Taker>>
  <2>3. x[1] = k[1] /\ x[2] # k[2] /\ k # <<>> /\ x \in round.taken
    BY <2>1, <2>2
  <2> HIDE DEF x, k
  <2>4. Taken(k)
    BY <2>3 DEF Taken
  <2> QED
    BY <1>1, <2>4 DEF k
<1>9. CASE \E p \in Lines : St.cusip \in round.holders[p] /\ WentTo(p, h)
  <2>1. PICK p \in Lines : St.cusip \in round.holders[p] /\ WentTo(p, h)
    BY <1>9
  <2>2. Gone(p)
    BY <2>1, LineFollowAssumption DEF WentTo, Gone
  <2> QED
    BY <1>4, <1>6, <2>1, <2>2
<1> QED
  BY <1>5, <1>7, <1>8, <1>9

LEMMA AttachHolders ==
    ASSUME LineInv, HolderInv, Stepping, Stepped, Attaches
    PROVE  OneEach' /\ HoldersHaveEras' /\ HeldThrough'
<1>1. /\ Turn \in Lines /\ Turn \in Sids /\ Turn \in round.left /\ Taker = Turn /\ phase = "steps" /\ LineTypes
      /\ Lines' = Lines /\ Eras' = Eras /\ phase' = phase /\ round'.holders = round.holders /\ world' = world
      /\ round'.left = round.left \ {Turn}
  BY TurnIs DEF Attaches, Taker, TakerOf, Stepping, Stepped, Lines, Eras, LineInv, LineOK
<1>2. /\ St.kind = "switch" => \A h \in Sids \ {Turn} : St.cusip \in out.cusips[h] => St.cusip \in Loose'
      /\ Loose \subseteq Loose'
  BY <1>1, OthersLackIt, TurnKeeps DEF Attaches
<1>3. /\ \A h \in Sids : out'.cusips[h] = out.cusips[h] \cup IF h = Turn /\ St.kind = "switch" THEN {St.cusip} ELSE {}
      /\ out'.resolution = out.resolution /\ out'.renames = out.renames
      /\ round.taken \subseteq round'.taken
      /\ St.kind = "switch" => <<St.cusip, Turn>> \in round'.taken
  BY DEF Attaches
<1>4. OneEach'
  <2> SUFFICES ASSUME NEW h \in Sids, NEW k \in Sids, h # k, NEW c \in out'.cusips[h], c \in out'.cusips[k]
               PROVE  c \in Loose'
    BY DEF OneEach
  <2>1. c \in out.cusips[h] /\ c \in out.cusips[k] => c \in Loose
    BY DEF HolderInv, OneEach
  <2> QED
    BY <1>2, <1>3, <2>1
<1>5. HoldersHaveEras'
  <2>1. \E e \in Eras : out.resolution[e] = Turn
    BY <1>1 DEF LineInv, ErasInPlace, LineTypes
  <2> QED
    BY <1>1, <1>3, <2>1 DEF HolderInv, HoldersHaveEras
<1>6. HeldThrough'
  <2> SUFFICES ASSUME NEW h \in Sids, NEW c \in out'.cusips[h]
               PROVE  \/ h \in Lines /\ c \in round.holders[h]
                      \/ \E t \in Sids : <<c, t>> \in round'.taken /\ (t = h \/ WentTo(t, h)')
                      \/ \E p \in Lines : c \in round.holders[p] /\ WentTo(p, h)'
    BY <1>1 DEF HeldThrough
  <2>1. \A t : WentTo(t, h) => WentTo(t, h)'
    BY <1>1, <1>3 DEF WentTo
  <2>2. c \in out.cusips[h] =>
           \/ h \in Lines /\ c \in round.holders[h]
           \/ \E t \in Sids : <<c, t>> \in round.taken /\ (t = h \/ WentTo(t, h))
           \/ \E p \in Lines : c \in round.holders[p] /\ WentTo(p, h)
    BY <1>1 DEF HolderInv, HeldThrough
  <2>3. c \in out.cusips[h] \/ (h = Turn /\ St.kind = "switch" /\ c = St.cusip)
    BY <1>3
  <2>4. CASE c \in out.cusips[h]
    BY <1>3, <2>1, <2>2, <2>4
  <2>5. CASE h = Turn /\ St.kind = "switch" /\ c = St.cusip
    BY <1>3, <2>5
  <2> QED
    BY <2>3, <2>4, <2>5
<1> QED
  BY <1>4, <1>5, <1>6

LEMMA FoldHolders ==
    ASSUME LineInv, HolderInv, Stepping, Stepped, Folds
    PROVE  OneEach' /\ HoldersHaveEras' /\ HeldThrough'
<1>1. /\ Turn \in Lines /\ Turn \in Sids /\ Turn \in round.left /\ Taker = Dec.to /\ St.kind = "switch"
      /\ phase = "steps" /\ LineTypes
      /\ Lines' = Lines /\ Eras' = Eras /\ phase' = phase /\ round'.holders = round.holders /\ world' = world
      /\ round'.left = round.left \ {Turn}
  BY TurnIs DEF Folds, Sound, Taker, TakerOf, Stepping, Stepped, Lines, Eras, LineInv, LineOK
<1>2. /\ \A h \in Sids \ {Turn, Dec.to} : St.cusip \in out.cusips[h] => St.cusip \in Loose'
      /\ Loose \subseteq Loose'
  BY <1>1, OthersLackIt, TurnKeeps DEF Folds
<1>3. /\ Dec.to \in Sids \ {Turn}
      /\ \A e \in out.secs[Turn] : e \in Eras /\ out.resolution[e] = Turn
      /\ \A e \in Eras : out'.resolution[e] = IF e \in out.secs[Turn] THEN Dec.to ELSE out.resolution[e]
      /\ out.secs[Turn] # {}
  BY FoldMoves
<1>4. /\ \A h \in Sids : out'.cusips[h] = IF h = Turn THEN {}
                                         ELSE IF h = Dec.to THEN out.cusips[h] \cup out.cusips[Turn] \cup {St.cusip}
                                         ELSE out.cusips[h]
      /\ \A q \in Sids : out'.renames[q] = IF q = Turn \/ out.renames[q] = Turn THEN Dec.to ELSE out.renames[q]
      /\ round.taken \subseteq round'.taken /\ <<St.cusip, Dec.to>> \in round'.taken
  BY DEF Folds
<1>5. OneEach'
  <2> SUFFICES ASSUME NEW h \in Sids, NEW k \in Sids, h # k, NEW c \in out'.cusips[h], c \in out'.cusips[k]
               PROVE  c \in Loose'
    BY DEF OneEach
  <2>1. \A a, b \in Sids : a # b /\ c \in out.cusips[a] /\ c \in out.cusips[b] => c \in Loose
    BY DEF HolderInv, OneEach
  <2>2. h # Turn /\ k # Turn
    BY <1>1, <1>4
  <2>3. ASSUME NEW a \in Sids \ {Turn, Dec.to}, c \in out'.cusips[a], c \in out'.cusips[Dec.to] PROVE c \in Loose'
    <3>1. c \in out.cusips[a]
      BY <1>4, <2>3
    <3>2. c \in out.cusips[Dec.to] \/ c \in out.cusips[Turn] \/ c = St.cusip
      <4>1. out'.cusips[Dec.to] = out.cusips[Dec.to] \cup out.cusips[Turn] \cup {St.cusip}
        BY <1>3, <1>4
      <4> QED
        BY <2>3, <4>1
    <3> QED
      BY <1>1, <1>2, <1>3, <2>1, <3>1, <3>2
  <2>4. CASE h # Dec.to /\ k # Dec.to
    BY <1>2, <1>4, <2>1, <2>2, <2>4
  <2> QED
    BY <2>2, <2>3, <2>4
<1>6. HoldersHaveEras'
  <2> SUFFICES ASSUME NEW h \in Sids, out'.cusips[h] # {} PROVE \E e \in Eras : out'.resolution[e] = h
    BY <1>1 DEF HoldersHaveEras
  <2>1. CASE h = Dec.to
    BY <1>3, <2>1
  <2>2. CASE h # Dec.to
    <3>1. h # Turn /\ out.cusips[h] # {}
      BY <1>4, <2>2
    <3>2. PICK e \in Eras : out.resolution[e] = h
      BY <3>1 DEF HolderInv, HoldersHaveEras
    <3>3. e \notin out.secs[Turn]
      BY <1>3, <3>1, <3>2
    <3> QED
      BY <1>3, <3>2, <3>3
  <2> QED
    BY <2>1, <2>2
<1>7. HeldThrough'
  <2> SUFFICES ASSUME NEW h \in Sids, NEW c \in out'.cusips[h]
               PROVE  \/ h \in Lines /\ c \in round.holders[h]
                      \/ \E t \in Sids : <<c, t>> \in round'.taken /\ (t = h \/ WentTo(t, h)')
                      \/ \E p \in Lines : c \in round.holders[p] /\ WentTo(p, h)'
    BY <1>1 DEF HeldThrough
  <2>1. \A k \in Sids : c \in out.cusips[k] =>
           \/ k \in Lines /\ c \in round.holders[k]
           \/ \E t \in Sids : <<c, t>> \in round.taken /\ (t = k \/ WentTo(t, k))
           \/ \E p \in Lines : c \in round.holders[p] /\ WentTo(p, k)
    BY <1>1 DEF HolderInv, HeldThrough
  <2>2. Lines \subseteq Sids
    BY <1>1 DEF LineTypes
  <2>3. /\ \A t \in Sids : h = Dec.to /\ (t = Turn \/ WentTo(t, Turn)) => WentTo(t, h)'
        /\ \A t \in Sids : h # Turn /\ WentTo(t, h) => WentTo(t, h)'
    <3>1. \A t \in Sids : t \notin round.left => t # Turn /\ t \notin round'.left
      BY <1>1
    <3> QED
      BY <1>1, <1>4, <3>1 DEF WentTo
  <2>4. CASE c \in out.cusips[h] /\ h # Turn
    BY <1>4, <2>1, <2>2, <2>3, <2>4
  <2>5. CASE h = Dec.to /\ c \in out.cusips[Turn]
    BY <1>1, <1>4, <2>1, <2>2, <2>3, <2>5
  <2>6. CASE h = Dec.to /\ c = St.cusip
    BY <1>4, <2>6
  <2>7. h # Turn /\ (c \in out.cusips[h] \/ (h = Dec.to /\ (c \in out.cusips[Turn] \/ c = St.cusip)))
    BY <1>4
  <2> QED
    BY <2>4, <2>5, <2>6, <2>7
<1> QED
  BY <1>5, <1>6, <1>7

LEMMA HolderStep == LineInv /\ HolderInv /\ [Next]_vars => HolderInv'
<1> SUFFICES ASSUME LineInv, HolderInv, [Next]_vars PROVE HolderInv'
  OBVIOUS
<1>1. CASE \E lost : Find(lost)
  BY <1>1, FindHolders
<1>2. CASE \E read : Follow(read)
  <2>1. Stepping /\ Stepped /\ (Stays \/ Attaches \/ Folds)
    BY <1>2, TurnChanges DEF LineInv
  <2>2. StepsFold' /\ HoldersKeep'
    BY <2>1, TurnStepsFold
  <2>3. OneEach' /\ HoldersHaveEras' /\ HeldThrough'
    <3>1. CASE Stays
      <4>1. /\ LinesStay /\ Lines' = Lines /\ Eras' = Eras /\ phase' = phase /\ round'.holders = round.holders
            /\ round.taken \subseteq round'.taken /\ Loose \subseteq Loose'
            /\ \A t, h : WentTo(t, h) => WentTo(t, h)'
        BY <2>1, <3>1, TurnKeeps DEF Stays, Stepped, Lines, Eras, LinesStay, WentTo
      <4>2. OneEach' /\ HoldersHaveEras'
        BY <4>1 DEF LinesStay, HolderInv, OneEach, HoldersHaveEras
      <4>3. HeldThrough'
        BY <4>1 DEF LinesStay, HolderInv, HeldThrough
      <4> QED
        BY <4>2, <4>3
    <3>2. CASE Attaches
      BY <2>1, <3>2, AttachHolders
    <3>3. CASE Folds
      BY <2>1, <3>3, FoldHolders
    <3> QED
      BY <2>1, <3>1, <3>2, <3>3
  <2> QED
    BY <2>2, <2>3 DEF HolderInv
<1>3. CASE CloseRound
  BY <1>3, CloseHolders
<1>4. CASE UNCHANGED vars
  <2>1. OneEach' /\ HoldersHaveEras' /\ HoldersKeep'
    BY <1>4 DEF vars, HolderInv, OneEach, HoldersHaveEras, HoldersKeep, Loose, Doubled, Eras, Lines, Gone
  <2>2. HeldThrough'
    BY <1>4 DEF vars, HolderInv, HeldThrough, WentTo, Lines
  <2>3. StepsFold'
    <3>1. \A s, h, c : FoldsInto(s, h, c)' <=> FoldsInto(s, h, c)
      BY <1>4, FoldsIntoStays DEF vars
    <3> QED
      BY <1>4, <3>1 DEF vars, HolderInv, StepsFold, HoldersAtStart, Changed, Gone
  <2> QED
    BY <2>1, <2>2, <2>3 DEF HolderInv
<1> QED
  BY <1>1, <1>2, <1>3, <1>4 DEF Next

(* Two lines never hold one CUSIP, but one that two observations brought, and one that a step
   of a round took past a line that an earlier step of the round had changed (follow_lines:
   the holders it let a line step past are those of the round's start, what it took since is
   in taken). *)
THEOREM OneHolderKept == Spec => []OneHolder
<1>1. HolderInv /\ LineInv => OneHolder
  BY DEF HolderInv, LineInv, LineOK, LineTypes, OneEach, Loose, OneHolder, Held
<1> QED
  BY <1>1, HoldersInit, LineInvHolds, HolderStep, PTL DEF Spec
===============================================================================
