---------------------------- MODULE Identity ----------------------------
(* The identity stage (identity/identity.py, identify) inside its derived-line rounds
   (identity/derived_lines.py, identify_with_lines). A pass refines the eras, finds their
   issuers, finds their lines, then judges what it made of the derived eras and the folds;
   a new verdict sends it around again. When none is new the line follow refuses some steps,
   and the lines after them are derived in another round.

   The line follow is the module LineFollow; here world.steps holds the CUSIP changes it
   refuses, and why. Its own folds and successors are left out. *)
EXTENDS FigiLines

VARIABLES
    lost,       \* the companies whose record no read of this run reaches
    derive,     \* the derived (ticker, CUSIP) pairs, each with the step it came from
    round,      \* the derived-line rounds that added one
    verdicts,   \* (ticker, CUSIP) pair -> verdict
    pass,       \* the pass of this round's identity stage
    at,         \* the step to take next
    eras,       \* the pass's eras
    found,      \* their issuers, by era key
    resolved    \* their lines, by era key

vars == <<world, lost, derive, round, verdicts, pass, at, eras, found, resolved>>

MaxVerdictPasses == 3
MaxDeriveRounds == 3
NotMade == "not_made"
WithoutOldIssuer == "without_old_issuer"
FoldRefused == "fold_refused"
Derivable == {"merged_out", "other_registrant", "name"}
Given == {"manual", "cik_map"}
Nothing == <<>>

---------------------------------------------------------------------
(* Stage 1. Each era the library made carries the step it came from. *)
PairIn(e, pairs) == LET own == SelectSeq(e.own, LAMBDA c : <<e.ticker, c>> \in pairs)
                    IN  IF own = <<>> THEN None ELSE <<e.ticker, own[1]>>
PairOf(e) == PairIn(e, DOMAIN derive)
Origin(e) == IF Derived(e) /\ PairOf(e) # None THEN derive[PairOf(e)] ELSE None

(* A faulty one: a refused fold is joined again. *)
FaultyUnfolded == {}

MadePairs == {p \in DOMAIN derive : p \notin DOMAIN verdicts \/ (p \in DOMAIN verdicts => verdicts[p] # NotMade)}
Unfolded  == {p \in DOMAIN verdicts : verdicts[p] = FoldRefused}
RefinedEras == LET refined == RefineEras(MadePairs, Unfolded)
               IN  [i \in DOMAIN refined |-> [refined[i] EXCEPT !.origin = Origin(refined[i])]]

(* A fold joined to an era that kept no CUSIP stops the program (_fold_of). *)
RefineStops(refined) == \E e \in Range(refined) : \E f \in Range(e.folds) : f.old = None

(* The issuer a derived era is asked without. *)
Excluded(e) ==
    LET pair == IF e.origin = None THEN None ELSE PairOf(e)
    IN  IF pair \in DOMAIN verdicts /\ (pair \in DOMAIN verdicts => verdicts[pair] = WithoutOldIssuer)
        THEN {e.origin.cik} \ {None} ELSE {}

---------------------------------------------------------------------
(* Stage 2. The lookup's answers for an era at a day (the ticker resolver; a pin is a given
   answer): the first its tiers give of a company not excluded. *)
NoAnswer == [cik |-> None, source |-> "none", strong |-> FALSE]
WordOf(e) == IF NameOf(e) = None THEN NoWord ELSE NameOf(e).word
Ask(e, when) ==
    LET answers == SelectSeq(world.lookup[<<e.ticker, WordOf(e)>>][when], LAMBDA a : a.cik \notin Excluded(e))
    IN  IF CikPin(e) # None THEN [cik |-> CikPin(e), source |-> "cik_map", strong |-> TRUE]
        ELSE IF answers = <<>> THEN NoAnswer ELSE answers[1]

(* choose_first_pass: the answer the later passes see, and a weak one kept aside. *)
Chosen(cap, end) ==
    LET successor == end.source = "company_tickers" /\ cap.source # "company_tickers"
        both      == IF end.cik # cap.cik /\ ~successor THEN end ELSE cap
    IN  IF cap.strong /\ end.strong THEN [answer |-> both, fallback |-> NoAnswer]
        ELSE IF cap.strong \/ end.strong THEN [answer |-> IF cap.strong THEN cap ELSE end, fallback |-> NoAnswer]
        ELSE [answer |-> NoAnswer, fallback |-> IF cap.cik # None THEN cap ELSE end]

FirstPass(e, capped, last) ==
    LET cap    == Ask(e, "cap")
        chosen == Chosen(cap, IF last <= capped THEN cap ELSE Ask(e, "end"))
        start  == Ask(e, "start")
    IN  IF chosen.answer.cik # None \/ chosen.fallback.cik # None \/ e.first >= capped \/ ~start.strong
        THEN chosen ELSE [answer |-> start, fallback |-> NoAnswer]

Allowed(answers, era) == Restrict(answers, {k \in DOMAIN answers : answers[k].cik \notin Excluded(era[k])})

(* _resolve_issuers. What every step of it reads: the eras by key, their CUSIP links, the
   two days each is asked at, and the lookup's answers. *)
Opened(era) ==
    [era |-> era, links |-> CusipHandoffs(eras),
     capped |-> [k \in DOMAIN era |-> CappedSeen(era[k])], last |-> [k \in DOMAIN era |-> LastSeen(era[k], eras)]]
Asked(o) == [k \in DOMAIN o.era |-> FirstPass(o.era[k], o.capped[k], o.last[k])]

CheckedNames(o, first, unread) ==
    Allowed(Told([k \in DOMAIN o.era |-> CheckedName(o.era[k], eras, first[k].answer, unread)]), o.era)
AfterCheck(first, checked) == [k \in DOMAIN first |-> IF k \in DOMAIN checked THEN checked[k]
                                             ELSE [cik |-> first[k].answer.cik, source |-> first[k].answer.source]]

(* The second pass, asked at both days, the earlier one's answer first. *)
Inferred(o, known, unread) ==
    [cap |-> Infer(o.era, o.capped, known, o.links, eras, unread),
     end |-> Infer(o.era, o.last, known, o.links, eras, unread)]
WithIssuer(answers) == [k \in {k \in DOMAIN answers : answers[k].cik # None} |-> answers[k].cik]

(* A weak answer stands only where neither has one and the era's rows are its company's. *)
Weakly(o, k, fallback, open) == open /\ fallback.cik # None /\ Len(EraRows(o.era[k], o.last[k])) >= EraMinRows
AnswerOf(o, k, first, before, inferred, unread) ==
    IF k \in DOMAIN inferred THEN inferred[k]
    ELSE IF Weakly(o, k, first[k].fallback, before[k].cik = None)
            /\ FitsRows(first[k].fallback.cik, EraRows(o.era[k], o.last[k]), unread)
         THEN [cik |-> first[k].fallback.cik, source |-> first[k].fallback.source]
    ELSE before[k]

Issuers(o, answers, secondary, degraded, unread) ==
    LET issuers == WithIssuer(answers)
        edgar   == [c \in Companies |-> EdgarNames(c, unread)]
    IN  [era |-> o.era, links |-> o.links, lost |-> unread, answers |-> answers, issuers |-> issuers, edgar |-> edgar,
         cusips |-> CandidateCusips(eras, issuers, edgar), inferred |-> secondary,
         degraded |-> degraded \cup {k \in DOMAIN issuers : issuers[k] \in unread}]

Answered(o, first, before, second, inferred, unread) ==
    Issuers(o, [k \in DOMAIN o.era |-> AnswerOf(o, k, first, before, inferred, unread)],
            DOMAIN inferred,
            second.cap.degraded \cup second.end.degraded \cup
                {k \in DOMAIN o.era : \/ CheckReads(o.era[k], eras, first[k].answer, unread) \cap unread # {}
                                      \/ /\ k \notin DOMAIN inferred /\ first[k].fallback.cik \in unread
                                         /\ Weakly(o, k, first[k].fallback, before[k].cik = None)},
            unread)

ByBoth(o, first, before, second, unread) ==
    Answered(o, first, before, second, Allowed(second.cap.answers, o.era) @@ Allowed(second.end.answers, o.era), unread)
BySecond(o, first, before, unread) == ByBoth(o, first, before, Inferred(o, WithIssuer(before), unread), unread)
ByNames(o, first, unread) == BySecond(o, first, AfterCheck(first, CheckedNames(o, first, unread)), unread)
ByLookup(o, unread) == ByNames(o, Asked(o), unread)
ResolveIssuers(unread) == ByLookup(Opened([k \in {Key(e) : e \in Range(eras)} |-> CHOOSE e \in Range(eras) : Key(e) = k]), unread)

---------------------------------------------------------------------
(* The verdicts. Rule J: a derived era on the line its step was refused from is made only
   when the price carried over. Rule X: one that took the old issuer, merged out, on another
   composite is asked again without it. *)
PriceCarried(e) == <<e.origin.old, PairOf(e)[2]>> \notin world.jumps
TwoComposites(a, b) == b # None /\ ~IsPlaceholder(a) /\ ~IsPlaceholder(b) /\ a # b

TakesOldIssuer(e) ==
    LET k == Key(e)
    IN  /\ e.origin.why = "merged_out" /\ e.origin.cik # None
        /\ TwoComposites(e.origin.line, resolved.res[k].line)
        /\ CikOf(found, k) = e.origin.cik
        /\ CikPin(e) = None /\ IdPin(e) = None /\ found.answers[k].source \notin Given

DerivedVerdict(e) ==
    IF resolved.res[Key(e)].line = e.origin.line THEN (IF PriceCarried(e) THEN None ELSE NotMade)
    ELSE IF TakesOldIssuer(e) THEN WithoutOldIssuer ELSE None

Judged == {e \in Range(eras) : e.origin # None /\ PairOf(e) \notin DOMAIN verdicts}
DerivedVerdicts ==
    Told([p \in {PairOf(e) : e \in Judged} |-> DerivedVerdict(CHOOSE e \in Judged : PairOf(e) = p)])

(* A fold is kept when the era has no composite of its own and the line follow's own test
   follows the step; a read that failed decides nothing. *)
FoldFails(e, f) ==
    LET cik == CikOf(found, Key(e))
    IN  \/ cik = None
        \/ \E c \in Observed(e) \cup f.earlier : world.composite[c] # None
        \/ cik \notin lost /\ <<f.old, f.cusip>> \in world.refused

FoldVerdicts ==
    LET folds == UNION {{<<e, f>> : f \in Range(e.folds)} : e \in Range(eras)}
        fails == {p \in folds : /\ <<p[1].ticker, p[2].cusip>> \notin DOMAIN verdicts
                                /\ FoldFails(p[1], p[2])}
    IN  [p \in {<<x[1].ticker, x[2].cusip>> : x \in fails} |-> FoldRefused]

---------------------------------------------------------------------
(* The line follow's refused steps of a line of the run; one whose new rows still name the
   old line's issuer is derived, under each of the line's tickers. *)
OldNames(sec, step) ==
    UNION {Names(found.era[k]) : k \in sec.keys}
        \cup (IF sec.issuer = None THEN {} ELSE NamesUntil(sec.issuer, step.first - 1, lost))

Derivations ==
    LET secs    == Securities(found, resolved.res)
        refused == {x \in (DOMAIN secs) \X world.steps : x[2].old \in secs[x[1]].cusips /\ x[2].why \in Derivable}
        naming  == {x \in refused : \E r \in Range(ByCusip(x[2].new)) : r.word # NoWord /\ Says(r, OldNames(secs[x[1]], x[2]))}
        Pairs(x) == {<<found.era[k].ticker, x[2].new>> : k \in secs[x[1]].keys}
        From(p)  == CHOOSE x \in naming : p \in Pairs(x)
    IN  \* a pair two refused steps give is of either; the code takes the first step's
        [p \in UNION {Pairs(x) : x \in naming} |->
            [line |-> From(p)[1], cik |-> secs[From(p)[1]].issuer, why |-> From(p)[2].why,
             old  |-> From(p)[2].old, first |-> From(p)[2].first]]

NewDerivations ==
    Restrict(Derivations, {p \in DOMAIN Derivations : /\ p \notin DOMAIN derive
                                                      /\ p \in DOMAIN verdicts => verdicts[p] # NotMade})

---------------------------------------------------------------------
Start ==
    /\ derive = Nothing /\ round = 0 /\ verdicts = Nothing /\ pass = 0 /\ at = "refine"
    /\ eras = <<>> /\ found = Nothing /\ resolved = Nothing

Refine ==
    /\ at = "refine"
    /\ eras' = RefinedEras
    /\ at' = IF RefineStops(eras') THEN "stopped" ELSE "issuers"
    /\ UNCHANGED <<world, lost, derive, round, verdicts, pass, found, resolved>>

FindIssuers ==
    /\ at = "issuers"
    /\ found' = ResolveIssuers(lost) /\ at' = "lines"
    /\ UNCHANGED <<world, lost, derive, round, verdicts, pass, eras, resolved>>

FindLines ==
    /\ at = "lines"
    /\ resolved' = Resolved(found)
    /\ at' = IF resolved'.stops THEN "stopped" ELSE "judge"
    /\ UNCHANGED <<world, lost, derive, round, verdicts, pass, eras, found>>

(* New verdicts are applied by another pass, three times at most. *)
Judge ==
    /\ at = "judge"
    /\ LET new == FoldVerdicts @@ DerivedVerdicts
       IN  IF DOMAIN new = {} \/ pass = MaxVerdictPasses
           THEN at' = "follow" /\ UNCHANGED <<pass, verdicts>>
           ELSE at' = "refine" /\ pass' = pass + 1 /\ verdicts' = new @@ verdicts
    /\ UNCHANGED <<world, lost, derive, round, eras, found, resolved>>

Follow ==
    /\ at = "follow"
    /\ IF DOMAIN NewDerivations = {} \/ round = MaxDeriveRounds
       THEN at' = "done" /\ UNCHANGED <<derive, round, pass>>
       ELSE at' = "refine" /\ derive' = NewDerivations @@ derive /\ round' = round + 1 /\ pass' = 0
    /\ UNCHANGED <<world, lost, verdicts, eras, found, resolved>>

Next == Refine \/ FindIssuers \/ FindLines \/ Judge \/ Follow

---------------------------------------------------------------------
Final == at = "done"
Res == resolved.res
PlacedOn(line) == {k \in DOMAIN Res : Res[k].source = "placeholder" /\ Res[k].line = line}

(* A placeholder is one line: of the eras on one, two whose CUSIPs trade at once are tied by
   CUSIPs they share or switches that carry a line on (split_placeholder_lines, whose first
   fit compares an era with every part of a line). *)
Tied(k, keys) ==
    Connected(k, keys, CarryingLinks(found, TRUE) \cup
        {{p[1], p[2]} : p \in {p \in keys \X keys : Range(found.cusips[p[1]]) \cap Range(found.cusips[p[2]]) # {}}})
PlaceholderHoldsOneLine ==
    Final => \A line \in {Res[k].line : k \in DOMAIN Res} : \A a, b \in PlacedOn(line) :
                 a # b /\ AtOnce(found, {a}, {b}) => b \in Tied(a, PlacedOn(line))

(* Guard (c): an issuer's class is not parted between its placeholder and a composite that
   only EDGAR's names, or a link, put an era on, however often the identity guard took eras of
   it off a composite and asked again. The eras of a line taken off go where its last era
   went, which may be another issuer's line. *)
OnlyEdgar(k) == \/ Res[k].source = "handoff"
                \/ Res[k].source \in WeakSources /\ ~Says(world.lines[Res[k].line.figi], Names(found.era[k]))
ClassesKeptTogether ==
    Final => \A a, b \in DOMAIN Res :
                 Res[a].source = "placeholder" /\ Group(found, a) = Group(found, b) /\ b \notin resolved.moved => ~OnlyEdgar(b)

(* A company that could not be read changes an era's issuer only if the run says so of that
   era, or the answer rests on another era's that changed, which the run says it of, or
   which rests on one in turn: through the CUSIP links of rule C and the issuer codes of
   rule D, which mark the era they answer only for the companies read for it
   (EraIssuers._mark). *)
Changed(full) == {k \in DOMAIN found.era : CikOf(full, k) # CikOf(found, k)}
Codes(k) == {world.code[c] : c \in CusipsOf(found.era[k])}
Resting(keys) == {{h.from, h.to} : h \in found.links}
                     \cup {{p[1], p[2]} : p \in {p \in keys \X keys : Codes(p[1]) \cap Codes(p[2]) # {}}}
LossIsTold ==
    at = "lines" =>
        LET changed == Changed(ResolveIssuers({}))
        IN  \A k \in changed : Connected(k, changed, Resting(changed)) \cap found.degraded # {}

(* What identity.py says (33-35): an era whose answer rested on a failed request is flagged
   itself. The code marks an era for the companies read in its own turn only, so one whose
   answer another era's decides is not (run identity_cut). *)
EachIsFlagged == at = "lines" => Changed(ResolveIssuers({})) \subseteq found.degraded

(* What the last pass made stands by its own gates, unless the passes ran out: each fold has
   an era with an issuer and no composite of its own, and a step the line follow would take;
   an era derived from a refused step is not back on the line the step was refused from,
   unless the price carried over. A part whose fold was refused is never asked the latter
   (_check_folds, _check_derived). *)
RefusedFold(e) == PairOf(e) \in {p \in DOMAIN verdicts : verdicts[p] = FoldRefused}
GatesHoldAtTheEnd ==
    Final /\ pass < MaxVerdictPasses =>
        \A e \in Range(eras) :
            /\ \A f \in Range(e.folds) : ~FoldFails(e, f)
            /\ e.origin # None /\ (e.origin # None => ~RefusedFold(e) /\ Res[Key(e)].line = e.origin.line)
               => <<e.origin.old, PairOf(e)[2]>> \notin world.jumps
=====================================================================
