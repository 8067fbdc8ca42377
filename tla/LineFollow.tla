------------------------------ MODULE LineFollow ------------------------------
(* Stage 4b (identity/line_follow.py): each line of the run is followed past its
   observations through the fails rows, in rounds; a placeholder folds into the line its
   new CUSIP names, a FIGI line another composite continues gets a line successor.

   A world is what the outside says: runs of fails rows of a CUSIP under a symbol (settled
   is the row that opens the run's last price), whom a CUSIP's rows name, what OpenFIGI
   answers for it, what the issuers filed.  Rows are all read: the index follows every
   symbol and CUSIP the stage asks it to.  Days are counted. *)
EXTENDS Integers, Sequences, SequencesExt

CONSTANTS Order,          \* the sec_ids, sorted
          Placeholders,   \* those that are no FIGI
          OtcSymbols,     \* of five letters in Q, F or Y
          LongSymbols,    \* longer than an issuer's shortest ticker
          Worlds,
          MaxRounds,
          MaxLost         \* a bound of the model on the reads that fail

Sids == ToSet(Order)

(* Lines and composites are securities; a run of rows has days. *)
WorldAssumption ==
    \A w \in Worlds : /\ DOMAIN w.eras \subseteq Sids
                     /\ \A r \in w.runs : w.figi[r.cusip] \subseteq Sids /\ r.from \in Nat

ASSUME LineFollowAssumption ==
    /\ Order \in Seq(Sids) /\ IsInjective(Order) /\ Placeholders \subseteq Sids
    /\ "none" \notin Sids /\ WorldAssumption
    /\ MaxRounds \in Nat \ {0} /\ MaxLost \in Nat

Before(s, t) == \E i, j \in DOMAIN Order : i < j /\ Order[i] = s /\ Order[j] = t
FirstOf(S)   == CHOOSE s \in S : \A t \in S \ {s} : Before(s, t)

VARIABLES world,
          out,     \* Lines: era -> sec_id and its source, sec_id -> eras, CUSIPs and line tickers, renames, successors
          round,   \* its number, the lines to look at, their steps, who held what when it began, what was taken
          reads,   \* issuers' other tickers, CUSIPs their texts name, ends read, degraded issuers and flagged lines
          strays,  \* a history: what a step took on word of a line that an earlier step of the round changed
          phase

vars == <<world, out, round, reads, strays, phase>>

Eras == DOMAIN world.eras
Confirmed  == {"pin", "cusip"}
Strength   == <<"pin", "cusip", "ticker", "name", "handoff", "backfill", "placeholder">>
Letter(class) == IF class = "COMMON" THEN "" ELSE class

-------------------------------------------------------------------------------
(* The securities the eras resolve to. *)

Built(resolution) == [s \in {resolution[e] : e \in Eras} |-> {e \in Eras : resolution[e] = s}]

Lines  == DOMAIN out.secs
Rank(src) == CHOOSE i \in DOMAIN Strength : Strength[i] = src
Issuer(s) == LET e == CHOOSE e \in out.secs[s] : TRUE IN world.eras[e].issuer
Source(s) == out.source[CHOOSE e \in out.secs[s] : \A d \in out.secs[s] : Rank(out.source[e]) <= Rank(out.source[d])]
Class(s)  ==
    LET named == {world.eras[e].class : e \in out.secs[s]} \ {"COMMON"}
    IN  IF named = {} THEN "COMMON" ELSE CHOOSE c \in named : TRUE
Own(s) == {world.eras[e].ticker : e \in out.secs[s]} \cup out.tickers[s]

Held(s) == out.cusips[s]

-------------------------------------------------------------------------------
(* The fails rows. *)

RunsOf(c) == {r \in world.runs : r.cusip = c}
First(c)  == Min({r.from : r \in RunsOf(c)})
FirstUnder(c, y) == Min({r.from : r \in {r \in RunsOf(c) : r.symbol = y}})
SymbolOf(c) == (CHOOSE r \in RunsOf(c) : r.from = First(c)).symbol

NoEnd == [cusip |-> "none", settled |-> 0, last |-> 0]
LineEnd(s) ==
    LET rows == {r \in world.runs : r.cusip \in Held(s) /\ r.symbol \in Own(s)}
        end  == CHOOSE r \in rows : \A q \in rows : q.to <= r.to
    IN  IF rows = {} THEN NoEnd ELSE [cusip |-> end.cusip, settled |-> end.settled, last |-> end.to]

(* The letter the fails rows of a line's CUSIPs describe, when they name one. *)
Described(s) ==
    LET letters == {world.letter[c] : c \in Held(s)} \ {""}
    IN  IF Cardinality(letters) = 1 THEN letters ELSE {}
IssuerLetters(i) == {Letter(Class(t)) : t \in {t \in Lines : Issuer(t) = i}} \ {""}

FitsClass(own, other, letters) == own = other \/ (own = "COMMON" /\ letters = {Letter(other)})

(* A line of the placeholder's issuer and class that it would fold into does not keep it
   from a CUSIP. *)
FoldsInto(s, h, c) ==
    /\ s \in Placeholders /\ h # s /\ h \in Lines /\ Issuer(h) = Issuer(s)
    /\ FitsClass(Class(s), Class(h), Described(s) \cup IssuerLetters(Issuer(s)))
    /\ \A r \in world.runs : r.cusip \in Held(h) \ {c} => r.to <= First(c) + 10

HoldersAtStart(c) == {h \in DOMAIN round.holders : c \in round.holders[h]}
HeldByOther(s, c, holders) == \E h \in DOMAIN holders : h # s /\ c \in holders[h] /\ ~FoldsInto(s, h, c)

-------------------------------------------------------------------------------
(* candidate_steps: a line's next step in the rows. *)

Step(kind, c, symbol, end, first, late) ==
    [kind |-> kind, cusip |-> c, symbol |-> symbol, old |-> end.settled, first |-> first, late |-> late]
NoStep == [kind |-> "none", cusip |-> "none", symbol |-> "none", old |-> 0, first |-> 0, late |-> FALSE]

NamesIssuer(s, c) == Issuer(s) \in world.names[c]

(* The one under the line's ticker, else the one with the shortest symbol. *)
Narrowed(S, T) == IF Cardinality(S) > 1 /\ T # {} THEN T ELSE S
OneOf(S) == IF Cardinality(S) = 1 THEN S ELSE {}
Shortest(S) == Narrowed(S, {c \in S : SymbolOf(c) \notin LongSymbols})
OneSwitch(s, S) == OneOf(Shortest(Narrowed(S, {c \in S : SymbolOf(c) \in Own(s)})))

(* The ticker went on as a spun-off company's stock: the issuer's own next line. *)
NextLineOf(s, dropped, free) ==
    LET same == {c \in free : First(c) = First(dropped)}
    IN  IF NamesIssuer(s, dropped) THEN {} ELSE OneSwitch(s, IF same = {} THEN free ELSE same)

IssuersNextLine(s, dropped, S, holders) ==
    NextLineOf(s, dropped, {c \in S \ {dropped} : ~HeldByOther(s, c, holders) /\ NamesIssuer(s, c)})

Stopped(end) == \A r \in RunsOf(end.cusip) : r.to <= end.last + 10

Switches(s, end, extra, named) ==
    {c \in {r.cusip : r \in {r \in world.runs : /\ r.symbol \in Own(s) \cup extra
                                               /\ r.from <= end.last + 10 /\ r.to >= end.settled - 10}} \cup named :
        /\ c \notin Held(s) /\ RunsOf(c) # {} /\ First(c) \in (end.settled - 10)..(end.last + 10)
        /\ ~(end.last >= world.today - 10 /\ end.settled > First(c) + 5)}

KeptSwitch(s, S, picks, holders) ==
    LET free == {c \in picks : ~HeldByOther(s, c, holders)}
    IN  IF picks # {} /\ free = {} THEN IssuersNextLine(s, CHOOSE c \in picks : TRUE, S, holders) ELSE free

(* The first rows under the line's symbols that begin past its window. *)
LateSwitch(s, end, holders) ==
    LET after == {r \in world.runs : r.symbol \in Own(s) /\ r.to > end.last + 10 /\ r.cusip \notin Held(s)}
    IN  {r.cusip : r \in {r \in after : /\ \A q \in after : r.from <= q.from
                                        /\ First(r.cusip) > end.last + 10 /\ ~HeldByOther(s, r.cusip, holders)}}

SwitchStepsAmong(s, end, S, holders, late) ==
    {Step("switch", c, SymbolOf(c), end, First(c), FALSE) : c \in KeptSwitch(s, S, OneSwitch(s, S), holders)}
    \cup {Step("switch", c, SymbolOf(c), end, First(c), TRUE) :
             c \in IF late /\ S = {} THEN LateSwitch(s, end, holders) ELSE {}}

SwitchSteps(s, end, extra, named, holders, late) ==
    IF Stopped(end) THEN SwitchStepsAmong(s, end, Switches(s, end, extra, named), holders, late) ELSE {}

SymbolSteps(s, end, extra, holders, late) ==
    LET renamed == {r.symbol : r \in RunsOf(end.cusip)} \ (Own(s) \cup OtcSymbols)
        inside  == {y \in renamed : FirstUnder(end.cusip, y) \in (end.settled - 10)..(end.last + 10)}
        after   == {y \in renamed \cap extra : FirstUnder(end.cusip, y) > end.last + 10}
        symbols == IF inside = {} /\ late THEN after ELSE inside
    IN  {Step("symbol", end.cusip, y, end, FirstUnder(end.cusip, y), y \notin inside) :
            y \in IF HeldByOther(s, end.cusip, holders) THEN {} ELSE OneOf(symbols)}

(* The earliest, a switch before a new symbol; of two late switches of a day, one. *)
EarliestOf(steps) ==
    IF steps = {} THEN NoStep
    ELSE CHOOSE st \in steps : \A q \in steps : /\ st.first <= q.first
                                               /\ st.first = q.first => st.kind = "switch" \/ q.kind = "symbol"

StepsFrom(s, end, extra, named, holders, late) ==
    IF end = NoEnd THEN {}
    ELSE SwitchSteps(s, end, extra, named, holders, late) \cup SymbolSteps(s, end, extra, holders, late)

CandidateStep(s, extra, named, holders, late) ==
    EarliestOf(StepsFrom(s, LineEnd(s), extra, named, holders, late))

-------------------------------------------------------------------------------
(* corroborate: R1, the first of its refusals. *)

Filed(i, what, lo, hi) == \E f \in world.filed : f.issuer = i /\ f.what = what /\ f.day \in lo..hi

CarriesOn(s, st) ==
    \/ \E f \in world.filed : f.issuer = Issuer(s) /\ f.what = "periodic" /\ f.day > st.first
    \/ Filed(Issuer(s), "8-K12B", st.first - 30, st.first + 30)
    \/ world.today - st.first <= 120 /\ (Own(s) \cup {st.symbol}) \cap world.listed[Issuer(s)] # {}

Stated(s, st) ==
    \/ \E what \in {"5.03", "8-K12B"} : Filed(Issuer(s), what, st.first - 30, st.first + 30)
    \/ Filed(Issuer(s), "rename", st.first - 90, st.first + 90)
    \/ \E t \in world.texts : t.issuer = Issuer(s) /\ t.day - st.first \in -30..30 /\ st.cusip \in t.cusips

(* read: "whole", "stale" (answered from an old copy), "lost" (the issuer's record could
   not be read) or "search lost" (the search for another registrant). *)
Corroborate(s, st, read) ==
    LET since == IF st.late THEN st.old ELSE st.first
        i     == Issuer(s)
    IN  CASE read # "lost" /\ Filed(i, "1.03", since - 180, st.first + 30) -> "bankruptcy"
          [] read # "lost" /\ st.kind = "symbol" /\ Filed(i, "ends listing", since - 30, st.first + 30) -> "otc_move"
          [] st.kind = "switch" /\ (read = "lost" \/ ~NamesIssuer(s, st.cusip)) -> "name"
          [] /\ st.kind = "switch" /\ Letter(Class(s)) # "" /\ world.letter[st.cusip] \notin {"", Letter(Class(s))}
             -> "class"
          [] read = "lost" \/ ~CarriesOn(s, st) -> "merged_out"
          [] read = "search lost" -> "read_failed"
          [] Filed(i, "another's 8-K12B", st.first - 30, st.first + 30) -> "other_registrant"
          [] st.kind = "switch" /\ ~st.late /\ ~Stated(s, st) -> "no_filing"
          [] OTHER -> ""

-------------------------------------------------------------------------------
(* decide: R2, the composite OpenFIGI gives the new CUSIP. *)

Decided(kind, to, why) == [kind |-> kind, to |-> to, why |-> why]

Decide(s, st) ==
    LET answer == world.figi[st.cusip]
        x      == CHOOSE x \in answer : TRUE
    IN  IF st.kind = "symbol" \/ answer = {} THEN Decided("attach", "none", "")
        ELSE IF Cardinality(answer) > 1 THEN Decided("refused", "none", "unsettled")
        ELSE IF x = s THEN Decided("attach", s, "")
        ELSE IF x \in world.preferred THEN Decided("refused", x, "type")
        ELSE IF x \in Lines /\ Issuer(x) # Issuer(s) THEN Decided("refused", x, "other_issuer")
        ELSE IF x \in Lines /\ ~FitsClass(Class(s), Class(x), Described(s) \cup IssuerLetters(Issuer(s)))
        THEN Decided("refused", x, "class")
        ELSE Decided(IF s \in Placeholders THEN "fold" ELSE "successor", x, "")

(* Whatever OpenFIGI answers, a placeholder is the line of its issuer that holds the CUSIP. *)
Lifted(s, st) == {h \in HoldersAtStart(st.cusip) \ {s} : FoldsInto(s, h, st.cusip)}

AsHeld(s, st, dec) ==
    IF dec.kind \in {"attach", "fold"} /\ st.kind = "switch" /\ Lifted(s, st) # {}
    THEN Decided("fold", FirstOf(Lifted(s, st)), "") ELSE dec

(* A line whose composite is only today's holder of its ticker folds into the one that
   its own next CUSIP names. *)
TodayHolder(s, dec) ==
    LET picks == {e \in out.secs[s] : out.source[e] = "ticker"}
    IN  IF /\ dec.kind = "successor" /\ Source(s) = "ticker"
           /\ \A e \in picks : world.eras[e].pick \in Own(s) /\ world.figiTicker[dec.to] \notin Own(s)
        THEN Decided("fold", dec.to, "") ELSE dec

(* The line that gets a step's CUSIP. *)
TakerOf(s, dec) == IF dec.kind = "fold" THEN dec.to ELSE s

Claim(s, st, dec) ==
    IF dec.kind \in {"attach", "fold"} /\ st.kind = "switch"
    THEN <<st.cusip, TakerOf(s, dec)>>
    ELSE IF dec.kind = "successor" THEN <<dec.to, s>> ELSE <<>>

(* A faulty one: what was taken in the round is not kept. *)
FaultyTaken(claim) == FALSE

Taken(claim) == claim # <<>> /\ \E t \in round.taken : t[1] = claim[1] /\ t[2] # claim[2]

(* What becomes of a step that R1 let through. *)
Outcome(s, st) ==
    LET dec == TodayHolder(s, AsHeld(s, st, Decide(s, st)))
    IN  IF st.late /\ st.kind = "switch" /\ ~(dec.kind = "attach" /\ dec.to = s)
        THEN Decided("refused", "none", "not_own_composite")
        ELSE IF dec.kind # "refused" /\ Taken(Claim(s, st, dec)) THEN Decided("refused", "none", "taken")
        ELSE dec

-------------------------------------------------------------------------------
Attach(s, st) ==
    out' = [out EXCEPT !.cusips[s] = IF st.kind = "switch" THEN @ \cup {st.cusip} ELSE @,
                       !.tickers[s] = @ \cup {st.symbol}]

(* What the folded line had goes to x with more; every earlier rename to it too. *)
Merged(f, p, x, more) == [f EXCEPT ![p] = {}, ![x] = @ \cup f[p] \cup more]
Renamed(f, p, x) == [q \in Sids |-> IF q = p \/ f[q] = p THEN x ELSE f[q]]

(* A faulty one: the CUSIPs of the folded line are left with it. *)
FaultyFold(p, x, st) ==
    out' = [out EXCEPT !.resolution = [e \in Eras |-> IF e \in out.secs[p] THEN x ELSE @[e]],
                       !.source = [e \in Eras |-> IF e \in out.secs[p] THEN "handoff" ELSE @[e]],
                       !.cusips[x] = @ \cup {st.cusip},
                       !.tickers[x] = @ \cup out.tickers[p] \cup {st.symbol},
                       !.renames = Renamed(@, p, x)]

(* A faulty one: the earlier renames to the folded line stay with it. *)
FaultyRename(p, x, st) ==
    out' = [out EXCEPT !.resolution = [e \in Eras |-> IF e \in out.secs[p] THEN x ELSE @[e]],
                       !.source = [e \in Eras |-> IF e \in out.secs[p] THEN "handoff" ELSE @[e]],
                       !.cusips = Merged(@, p, x, {st.cusip}), !.tickers = Merged(@, p, x, {st.symbol}),
                       !.renames = [@ EXCEPT ![p] = x]]

(* The line's eras, as the round began, its CUSIPs and tickers go to x, and every earlier
   rename to it. *)
Fold(p, x, st) ==
    out' = [out EXCEPT !.resolution = [e \in Eras |-> IF e \in out.secs[p] THEN x ELSE @[e]],
                       !.source = [e \in Eras |-> IF e \in out.secs[p] THEN "handoff" ELSE @[e]],
                       !.cusips = Merged(@, p, x, {st.cusip}), !.tickers = Merged(@, p, x, {st.symbol}),
                       !.renames = Renamed(@, p, x)]

NotFollowed(s, st, why) ==
    out' = [out EXCEPT !.refused = IF st.late THEN @ ELSE @ \cup {<<s, st.cusip, why>>}]

Take(s, st, dec) ==
    CASE dec.kind = "attach"    -> Attach(s, st)
      [] dec.kind = "fold"      -> Fold(s, dec.to, st)
      [] dec.kind = "successor" -> out' = [out EXCEPT !.successors[s] = dec.to]

Init ==
    /\ world \in Worlds
    /\ LET resolution == [e \in Eras |-> e]
       IN  out = [resolution |-> resolution, source |-> [e \in Eras |-> world.eras[e].source],
                  secs |-> Built(resolution), cusips |-> [s \in Sids |-> IF s \in Eras THEN world.held[s] ELSE {}],
                  tickers |-> [s \in Sids |-> {}], renames |-> [s \in Sids |-> "none"],
                  successors |-> [s \in Sids |-> "none"], refused |-> {}]
    /\ round = [no |-> 0, todo |-> Eras, left |-> {}, steps |-> [s \in Sids |-> NoStep],
                holders |-> [s \in {} |-> {}], taken |-> {}, moved |-> {}]
    /\ reads = [extra |-> [s \in Sids |-> {}], named |-> [s \in Sids |-> {}], texted |-> {},
                degraded |-> {}, flagged |-> {}, lost |-> 0]
    /\ strays = [behind |-> {}, onto |-> {}, cusips |-> {}]
    /\ phase = "find"

(* What the 8-Ks around a line's end name, else in the first round the CUSIPs whose rows
   carry a name its issuer took then. *)
TextSources(s, end) ==
    LET near == {t \in world.texts : t.issuer = Issuer(s) /\ t.day - end.settled \in -30..30}
        symbols == UNION {t.symbols : t \in near} \ Own(s)
        cusips  == UNION {t.cusips : t \in near}
        renamed == IF round.no = 0 /\ Filed(Issuer(s), "rename", end.settled - 90, end.settled + 90)
                   THEN {c \in DOMAIN world.names : /\ c \notin Held(s) /\ RunsOf(c) # {} /\ NamesIssuer(s, c)
                                                    /\ First(c) \in (end.settled - 10)..(end.last + 10)}
                   ELSE {}
    IN  [symbols |-> symbols, cusips |-> IF symbols = {} /\ cusips = {} THEN renamed ELSE cusips]

(* The issuers' tickers of today, read once in the first round. *)
ListedToo(lost) ==
    [s \in Sids |-> IF round.no = 0 /\ s \in round.todo /\ Issuer(s) \notin lost
                    THEN world.listed[Issuer(s)] \ Own(s) ELSE reads.extra[s]]

(* The lines without a step whose text sources have not been read. *)
Asked(extra, holders) ==
    {s \in round.todo : LET end == LineEnd(s)
                        IN  /\ end # NoEnd /\ end.last < world.today - 30 /\ <<s, end.cusip>> \notin reads.texted
                            /\ CandidateStep(s, extra[s], reads.named[s], holders, FALSE) = NoStep}

Texts(s, lost) == IF Issuer(s) \in lost THEN [symbols |-> {}, cusips |-> {}] ELSE TextSources(s, LineEnd(s))

WithTexts(extra, asked, lost) ==
    [asked |-> asked,
     extra |-> [s \in Sids |-> extra[s] \cup IF s \in asked THEN Texts(s, lost).symbols ELSE {}],
     named |-> [s \in Sids |-> reads.named[s] \cup IF s \in asked THEN Texts(s, lost).cusips ELSE {}]]

Sourced(extra, holders, lost) == WithTexts(extra, Asked(extra, holders), lost)

OrLate(step, late) == IF step = NoStep THEN late ELSE step

NextStep(s, p, holders) ==
    OrLate(CandidateStep(s, p.extra[s], p.named[s], holders, FALSE),
           IF Source(s) \in Confirmed /\ s \notin Placeholders
           THEN CandidateStep(s, p.extra[s], p.named[s], holders, TRUE) ELSE NoStep)

(* A round begins: each line's step, its text sources when it has none, its late step when
   it still has none.  lost: the issuers whose record cannot be read now. *)
Find(lost) ==
    LET holders == [s \in Lines |-> Held(s)]
    IN  /\ phase = "find"
        /\ reads.lost + Cardinality(lost) <= MaxLost /\ lost \subseteq {Issuer(s) : s \in round.todo}
        /\ \E p \in {Sourced(ListedToo(lost), holders, lost)} :
           \E steps \in {[s \in Sids |-> IF s \in round.todo THEN NextStep(s, p, holders) ELSE NoStep]} :
              /\ round' = [no |-> round.no + 1, todo |-> round.todo, left |-> {s \in round.todo : steps[s] # NoStep},
                           steps |-> steps, holders |-> holders, taken |-> {}, moved |-> {}]
              /\ reads' = [reads EXCEPT !.extra = p.extra, !.named = p.named, !.lost = @ + Cardinality(lost),
                                        !.texted = @ \cup {<<s, LineEnd(s).cusip>> : s \in p.asked},
                                        !.degraded = @ \cup lost]
        /\ phase' = "steps"
        /\ UNCHANGED <<world, out, strays>>

(* The steps of a round were found before the first of them was taken.  behind: the eras that
   came to a line in the round and stay when it folds, which moves those it had before it;
   onto: the eras that fold into a line already gone; cusips: those taken past a line that held
   them and changed, or by a line gone. *)
Gone(h)    == out.renames[h] # "none"
Changed(h) == h \in round.moved \/ Gone(h)

TakenPast(s, st, dec) ==
    /\ st.kind = "switch" /\ dec.kind \in {"attach", "fold"}
    /\ \/ \E h \in HoldersAtStart(st.cusip) \ {s, TakerOf(s, dec)} : Changed(h) \/ s \in round.moved
       \/ dec.kind = "fold" /\ Gone(dec.to)

Strayed(s, st, dec) ==
    [behind |-> strays.behind \cup
                    {e \in Eras : dec.kind = "fold" /\ out.resolution[e] = s /\ e \notin out.secs[s]},
     onto   |-> strays.onto \cup {e \in out.secs[s] : dec.kind = "fold" /\ Gone(dec.to)},
     cusips |-> strays.cusips \cup {c \in {st.cusip} : TakenPast(s, st, dec)}]

(* The next line's step is checked and taken or refused. *)
Follow(read) ==
    LET s   == FirstOf(round.left)
        st  == round.steps[s]
        why == Corroborate(s, st, read)
        dec == Outcome(s, st)
        degraded == reads.degraded \cup IF read = "whole" THEN {} ELSE {Issuer(s)}
    IN  /\ phase = "steps" /\ round.left # {}
        /\ read # "whole" => reads.lost < MaxLost
        /\ reads' = [reads EXCEPT !.degraded = degraded,
                                  !.lost = IF read = "whole" THEN @ ELSE @ + 1,
                                  !.flagged = IF Issuer(s) \in degraded THEN @ \cup {s} ELSE @]
        /\ IF why = "" /\ dec.kind # "refused"
           THEN /\ Take(s, st, dec)
                /\ strays' = Strayed(s, st, dec)
                /\ round' = [round EXCEPT !.left = @ \ {s},
                                          !.taken = @ \cup ({Claim(s, st, dec)} \ {<<>>}),
                                          !.moved = @ \cup CASE dec.kind = "attach" -> {s}
                                                             [] dec.kind = "fold" -> {dec.to}
                                                             [] OTHER -> {}]
           ELSE /\ NotFollowed(s, st, IF why # "" THEN why ELSE dec.why)
                /\ round' = [round EXCEPT !.left = @ \ {s}]
                /\ UNCHANGED strays
        /\ UNCHANGED <<world, phase>>

(* A faulty one: what failed after a line's step is not told of it. *)
FaultyCloseRound ==
    LET secs == Built(out.resolution)
        todo == round.moved \cap DOMAIN secs
    IN  /\ phase = "steps" /\ round.left = {}
        /\ out' = [out EXCEPT !.secs = secs]
        /\ round' = [round EXCEPT !.todo = todo]
        /\ phase' = IF todo = {} \/ round.no = MaxRounds THEN "done" ELSE "find"
        /\ UNCHANGED <<world, reads, strays>>

(* The securities are built again; what moved is looked at again. *)
CloseRound ==
    LET secs == Built(out.resolution)
        todo == round.moved \cap DOMAIN secs
        done == todo = {} \/ round.no = MaxRounds
    IN  /\ phase = "steps" /\ round.left = {}
        /\ out' = [out EXCEPT !.secs = secs]
        /\ round' = [round EXCEPT !.todo = todo]
        /\ phase' = IF done THEN "done" ELSE "find"
        /\ reads' = IF ~done THEN reads
                    ELSE [reads EXCEPT !.flagged = @ \cup {s \in DOMAIN secs :
                            \E e \in secs[s] : world.eras[e].issuer \in reads.degraded}]
        /\ UNCHANGED <<world, strays>>

Next ==
    \/ \E lost \in SUBSET {world.eras[e].issuer : e \in Eras} : Find(lost)
    \/ \E read \in {"whole", "stale", "lost", "search lost"} : Follow(read)
    \/ CloseRound

Spec == Init /\ [][Next]_vars

-------------------------------------------------------------------------------
Between == phase \in {"find", "done"}

(* CUSIPs that two observations brought. *)
Doubled == UNION {UNION {world.held[d] \cap world.held[e] : d \in Eras \ {e}} : e \in Eras}

(* Two lines never both hold a CUSIP, but one that two observations brought, and one that a step
   took past a line which an earlier step of its round had changed: the holders a placeholder
   was let past are those of the round's start, and the test that it is one of them is made
   again on what they hold now (line_follow.py:1028). *)
OneHolder ==
    Between => \A s, t \in Lines : s # t => Held(s) \cap Held(t) \subseteq Doubled \cup strays.cusips

(* What line_follow.py says (1026-1027): a CUSIP that a security of the issuer holds goes to
   that security, as one held is never on two. The run line_follow_cut shows the exception
   above: a line of another step of the round is let past the holder, and takes the CUSIP. *)
HeldOnce ==
    Between => \A s, t \in Lines : s # t => Held(s) \cap Held(t) \subseteq Doubled

(* What a line held goes where its eras go: an observation is never parted from the CUSIPs
   it was known by, but one that joined a line in the round the line then folded in: its CUSIPs
   go on with the line, it stays (_fold moves the eras the line had as the round began). *)
ErasKeepTheirCusips ==
    Between => \A e \in Eras \ strays.behind : world.held[e] \subseteq Held(out.resolution[e])

(* Every line whose issuer's record was not read whole is told of it, also one whose step
   was taken before the read that failed. *)
DegradedIsFlagged ==
    phase = "done" => \A s \in Lines : Issuer(s) \in reads.degraded => s \in reads.flagged

(* A rename leads to a line, and the one folded is a line no more, unless an observation joined
   it in the round it folded in, before or after. *)
RenamesLeadToLines ==
    Between => \A p \in {p \in Sids : Gone(p)} :
        /\ out.renames[p] \in Lines
        /\ p \in Lines => out.secs[p] \subseteq strays.behind \cup strays.onto
=============================================================================
