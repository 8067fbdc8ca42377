------------------------------- MODULE Resolver -------------------------------
(* The issuer lookup (identity/ticker_resolver.py): which company a ticker was on a day,
   under an observed name.  A lookup is answered by a pin, an override, the memo, the
   rename map or one of four searches of SEC; the memo outlives the run, in a file.

   Names are sequences of words; SEC's name index lists every name a company has had.
   Days are counted, and SEC has on record what was filed by the day of the run. *)
EXTENDS Integers, Sequences, SequencesExt

CONSTANTS Companies,      \* CIKs
          Exchanges,      \* of those, the exchanges: they file for others
          Fillers,        \* words that are no part of a name: INC, CORP, HOLDINGS
          Generic,        \* first words too common to search for alone
          Worlds,         \* what SEC has, and the renamed tickers
          Todays,         \* the days of the runs
          Asks,           \* the lookups a run makes
          Pinnings,       \* what an operator may pin, and override, by ticker
          IndexProbe, MaxCandidates,
          MaxAsks         \* a bound of the model: lookups a run

ASSUME ResolverAssumption ==
    /\ Companies \subseteq Nat \ {0} /\ Exchanges \subseteq Companies
    /\ \A i \in DOMAIN Todays : \A a \in Asks : a.day <= Todays[i]
    /\ \A a \in Asks : \A d \in a.since : d <= a.day
    /\ IndexProbe \in Nat /\ MaxCandidates \in Nat /\ MaxAsks \in Nat

VARIABLES world,
          run,        \* its number, its pins and overrides, the lookups made
          disk,       \* the memo file: an answer for some keys
          resolver,   \* the memo, the volatile and the degraded keys, and whether it has more to save
          now         \* the lookup being answered, below it the one it is a renamed ticker of

vars == <<world, run, disk, resolver, now>>

Today == Todays[run.no]
Words(n) == ToSet(n) \ Fillers

-------------------------------------------------------------------------------
(* The issuer record: what a company filed and was called.  Nothing can be told of a
   company whose record is lost. *)

Filings(c, lost) == {f \in world.filings[c] : f.day <= Today /\ c \notin lost}
AllNames(c, lost) == {n.name : n \in {n \in world.names[c] : n.from <= Today /\ c \notin lost}}
NamesBetween(c, lo, hi, lost) ==
    {n.name : n \in {n \in world.names[c] : n.from <= Min({hi, Today}) /\ n.to >= lo /\ c \notin lost}}

ExistedBy(c, since, lost) == \A d \in since : \E f \in Filings(c, lost) : f.day <= d

Gone     == {"25", "25-NSE", "15-12G"}
Periodic == {"10-K", "10-Q"}
Filed(c, forms, lo, hi, lost) == \E f \in Filings(c, lost) : f.form \in forms /\ f.day \in lo..hi

(* They share two words, or the only one that one of them has. *)
Agree(m, n) ==
    Cardinality(Words(m) \cap Words(n)) >= Max({1, Min({2, Cardinality(Words(m)), Cardinality(Words(n))})})

SameWords(c, n, lost) == Words(n) # {} /\ \E m \in AllNames(c, lost) : Words(m) = Words(n)

Existed(c, a, lost) == ExistedBy(c, {a.day}, lost)
Agrees(c, a, lost)  == /\ c \notin lost
                       /\ a.name = <<>> \/ \E n \in NamesBetween(c, a.day - 30, a.day + 30, lost) : Agree(n, a.name)
FitsDate(c, a, lost) == Existed(c, a, lost) /\ Agrees(c, a, lost)

Validated(c, a, window, lost) == Filed(c, Gone, a.day - window, a.day + window, lost)

(* Not the acquirer, which goes on reporting. *)
StrictlyValidated(c, a, lost) ==
    Validated(c, a, 540, lost) /\ ~Filed(c, Periodic, a.day + 91, a.day + 365 * 5 - 1, lost)

LeftBefore(c, a, lost) == Filed(c, Gone, a.day - 1500, a.day + 45, lost)

Accepts(c, a, lost) ==
    \/ Validated(c, a, 540, lost)
    \/ /\ FitsDate(c, a, lost)
       /\ LeftBefore(c, a, lost) \/ \E f \in Filings(c, lost) : f.day - a.day \in -400..400

MayReplace(c, a, lost) ==
    \/ Validated(c, a, 90, lost)
    \/ /\ a.name # <<>> /\ SameWords(c, a.name, lost) /\ LeftBefore(c, a, lost)
       /\ \A f \in Filings(c, lost) : f.form \in Periodic => f.day <= a.day

-------------------------------------------------------------------------------
(* The name search, over SEC's index. *)

Stripped(n) == IF Len(n) > 1 /\ n[Len(n)] \in Fillers THEN Front(n) ELSE n

(* The name, without the company forms at its end, and its first words. *)
Spellings(n) ==
    <<n, Stripped(n), Stripped(Stripped(n)), Stripped(Stripped(Stripped(n)))>>
    \o [k \in 1..(Min({Len(n), 3}) - 1) |-> SubSeq(n, 1, k + 1)]
    \o IF n # <<>> /\ n[1] \notin Generic THEN <<<<n[1]>>>> ELSE <<>>

Listed(c) == AllNames(c, {})
Exactly(v)  == {c \in Companies \ Exchanges : v \in Listed(c)}
Matching(v) == {c \in Companies \ Exchanges : \E n \in Listed(c) : IsPrefix(v, n)}

(* Of too many, the shortest that hold every word of the name; a spelling that drops one
   finds none. *)
Shortest(S, v) ==
    LET Length(c) == Min({Len(n) : n \in {n \in Listed(c) : IsPrefix(v, n)}})
    IN  {c \in S : Cardinality({d \in S : Length(d) < Length(c) \/ (Length(d) = Length(c) /\ d < c)}) < IndexProbe}

Probe(v, n) ==
    IF Cardinality(Matching(v)) <= IndexProbe THEN Matching(v)
    ELSE Shortest({c \in Matching(v) : /\ Words(n) \subseteq Words(v)
                                       /\ \E m \in Listed(c) : IsPrefix(v, m) /\ Words(n) \subseteq Words(m)}, v)

Gap(days, day) == IF days = {} THEN 1000 ELSE Min({IF d < day THEN day - d ELSE d - day : d \in days})
FilingGap(c, a, lost) == Gap({f.day : f \in Filings(c, lost)}, a.day)
FormGap(c, form, a, lost) ==
    Gap({f.day : f \in {f \in Filings(c, lost) : f.form = form \/ (form = "25" /\ f.form = "25-NSE")}}, a.day)

(* The names it had in the five years before the day, or close to it. *)
NamesBy(c, a, near, lost) ==
    IF ~ExistedBy(c, {a.day + 30}, lost) THEN {}
    ELSE NamesBetween(c, a.day - (IF near THEN 30 ELSE 365 * 5), a.day + 30, lost)
CarriedOn(c, v, a, near, lost) == \E n \in NamesBy(c, a, near, lost) : IsPrefix(v, n)

Narrowed(S, T) == IF Cardinality(S) > 1 /\ T # {} THEN T ELSE S
Carrying(S, v, a, near, lost) == {c \in S : CarriedOn(c, v, a, near, lost)}

(* Still filing under exactly the spelling. *)
Active(S, v, a, lost) ==
    LET filing == {c \in S : FilingGap(c, a, lost) <= 365}
    IN  IF Cardinality(filing) > 1 THEN Carrying(filing, v, a, FALSE, lost) ELSE filing

(* Of several that filed the form, the one the name says. *)
OneFiler(filers, v, a, lost) ==
    LET exact == filers \cap Exactly(v)
        named == IF exact # {} THEN exact
                 ELSE {c \in filers : \E n \in NamesBy(c, a, FALSE, lost) : Words(n) = Words(a.name)}
        early == Narrowed(named, Carrying(named, v, a, FALSE, lost))
    IN  Narrowed(early, Carrying(early, v, a, TRUE, lost))

Filers(form, S, a, lost) == {c \in S : FormGap(c, form, a, lost) # 1000}

(* The first of the forms that any of them filed decides, unless its one filer gave the
   name up long before. *)
Deciding(S, v, a, lost) ==
    SelectSeq(<<"25-NSE", "25", "15-12G">>,
              LAMBDA form : LET filers == Filers(form, S, a, lost)
                            IN  filers # {} /\ (Cardinality(filers) = 1 => Carrying(filers, v, a, FALSE, lost) # {}))

Candidate(c, gap) == [cik |-> c, gap |-> gap]
OnlyOne(S) == IF Cardinality(S) = 1 THEN S ELSE {}

ByForm(form, S, v, a, lost) ==
    LET filers == Filers(form, S, a, lost)
        one    == IF Cardinality(filers) > 1 THEN OneFiler(filers, v, a, lost) ELSE filers
    IN  {Candidate(c, FormGap(c, form, a, lost)) : c \in OnlyOne(one)}

Latest(S, a, lost) == {Candidate(c, FilingGap(c, a, lost)) : c \in OnlyOne(S)}

ByFilings(S, v, a, lost) ==
    LET deciding == Deciding(S, v, a, lost)
    IN  IF deciding # <<>> THEN ByForm(deciding[1], S, v, a, lost)
        ELSE Latest(IF Cardinality(S \cap Exactly(v)) = 1 THEN S \cap Exactly(v) ELSE S, a, lost)

Chosen(S, v, a, lost) ==
    LET active == Active(S \cap Exactly(v), v, a, lost)
    IN  IF Cardinality(active) = 1 THEN Latest(active, a, lost) ELSE ByFilings(S, v, a, lost)

(* At most so many, each with its smallest gap, in the order found. *)
Added(found, new) ==
    LET held == {found[i].cik : i \in DOMAIN found}
        same == {c \in new : c.cik \in held}
        more == {c \in new : c.cik \notin held /\ Len(found) < MaxCandidates}
    IN  [i \in DOMAIN found |-> Candidate(found[i].cik,
                                          Min({found[i].gap} \cup {c.gap : c \in {c \in same : c.cik = found[i].cik}}))]
        \o SetToSeq(more)

Found(a, lost) ==
    FoldLeft(LAMBDA found, v : Added(found, Chosen(Probe(v, a.name), v, a, lost)), <<>>, Spellings(a.name))

Fit(c, n, lost) == Cardinality(UNION {Words(m) : m \in AllNames(c, lost)} \cap Words(n))

Ranked(found, n, lost) ==
    LET Better(c, d) == \/ Fit(c.cik, n, lost) > Fit(d.cik, n, lost)
                        \/ /\ Fit(c.cik, n, lost) = Fit(d.cik, n, lost)
                           /\ \/ SameWords(c.cik, n, lost) /\ ~SameWords(d.cik, n, lost)
                              \/ SameWords(c.cik, n, lost) = SameWords(d.cik, n, lost) /\ c.gap < d.gap
        order == SetToSortSeq(DOMAIN found, LAMBDA i, j : \/ Better(found[i], found[j])
                                                          \/ ~Better(found[j], found[i]) /\ i < j)
    IN  [i \in DOMAIN order |-> found[order[i]].cik]

(* The best, and the others that had an agreeing name. *)
Kept(ranked, n, lost) ==
    IF ranked = <<>> THEN <<>>
    ELSE <<Head(ranked)>> \o SelectSeq(Tail(ranked), LAMBDA c : \E m \in AllNames(c, lost) : Agree(m, n))

NameSearch(a, lost) ==
    IF a.name = <<>> THEN <<>>
    ELSE Kept(Ranked(SelectSeq(Found(a, lost), LAMBDA c : c.cik \notin a.exclude), a.name, lost), a.name, lost)

(* The same name in another order. *)
Reordered(a) ==
    {c \in Companies \ Exchanges : Words(a.name) # {} /\ \E n \in Listed(c) : Words(n) = Words(a.name)}
AgreeingIssuer(a, lost) ==
    LET found == {c \in Reordered(a) : ExistedBy(c, a.since, lost) /\ FitsDate(c, a, lost) /\ Validated(c, a, 540, lost)}
    IN  IF Cardinality(found) = 1 THEN found \ a.exclude ELSE {}

ExactHolder(a, lost) ==
    LET active == Active(Exactly(a.name), a.name, a, lost)
        near   == Narrowed(active, Carrying(active, a.name, a, TRUE, lost))
    IN  IF Cardinality(near) = 1 THEN near ELSE {}

-------------------------------------------------------------------------------
(* The searches, in order.  A read may be lost, or answered from an old copy; an answer
   that one was made for is not kept.  reads names what a search asks: companies, and the
   two full-text searches. *)

Delistings == -1
EightKs    == -2

NoAnswer == [cik |-> 0, source |-> "none", token |-> FALSE, rests |-> FALSE]
Answer(c, source) == [NoAnswer EXCEPT !.cik = c, !.source = source]

(* The company that has the ticker today. *)
FromMap(a, lost) ==
    {c \in world.holder[a.ticker] \ a.exclude : FitsDate(c, a, lost) /\ ExistedBy(c, a.since, lost)}

(* The filing of the delistings around the day that has the ticker in the filer's name,
   else under an agreeing name, else the first, as a fallback. *)
Hits(a, lost) ==
    SelectSeq(world.hits[a.ticker], LAMBDA h : /\ Delistings \notin lost /\ h.cik \notin Exchanges
                                               /\ h.day <= Today /\ h.day - a.day \in -90..90)
Hit(a, hits) ==
    LET token == SelectSeq(hits, LAMBDA h : h.token)
        named == SelectSeq(hits, LAMBDA h : Agree(h.name, a.name))
    IN  IF token # <<>> THEN {[cik |-> token[1].cik, token |-> TRUE, weak |-> FALSE]}
        ELSE IF a.name = <<>> \/ hits = <<>> THEN {}
        ELSE IF named # <<>> THEN {[cik |-> named[1].cik, token |-> FALSE, weak |-> FALSE]}
        ELSE {[cik |-> hits[1].cik, token |-> FALSE, weak |-> TRUE]}
FromDelistings(a, lost) ==
    {h \in Hit(a, Hits(a, lost)) : /\ h.cik \notin a.exclude /\ Validated(h.cik, a, 540, lost)
                                   /\ Existed(h.cik, a, lost) /\ ExistedBy(h.cik, a.since, lost)}

Found1(seq) == IF seq = <<>> THEN {} ELSE {seq[1]}

(* Its candidates, best first, are read only down to the one taken. *)
FromNames(a, weak, lost) ==
    LET ranked == SelectSeq(NameSearch(a, lost), LAMBDA c : ExistedBy(c, a.since, lost))
        taken  == Found1(SelectSeq(ranked, LAMBDA c : IF weak # {} THEN MayReplace(c, a, lost) ELSE Accepts(c, a, lost)))
    IN  IF taken = {} /\ weak = {} THEN AgreeingIssuer(a, lost) ELSE taken

(* Who filed most 8-Ks with the ticker in the months before. *)
Mentions(a, lost) ==
    SelectSeq(world.mentions[a.ticker], LAMBDA h : /\ EightKs \notin lost /\ h.cik \notin Exchanges
                                                   /\ h.day - a.day \in -120..-1)
MostOften(hits) ==
    LET ciks == {hits[i].cik : i \in DOMAIN hits}
        Weight(c) == FoldLeft(LAMBDA n, h : IF h.cik # c THEN n ELSE IF h.token THEN n + 3 ELSE n + 1, 0, hits)
        At(c) == Min({i \in DOMAIN hits : hits[i].cik = c})
    IN  SetToSortSeq(ciks, LAMBDA c, d : Weight(c) > Weight(d) \/ (Weight(c) = Weight(d) /\ At(c) < At(d)))
FromEightKs(a, ranked, lost) ==
    LET passed == {i \in DOMAIN ranked : /\ i <= 5 /\ ranked[i] \notin a.exclude /\ ExistedBy(ranked[i], a.since, lost)
                                         /\ StrictlyValidated(ranked[i], a, lost)}
        Score(i) == Fit(ranked[i], a.name, lost)
    IN  {i \in passed : \A j \in passed \ {i} : Score(i) > Score(j) \/ (Score(i) = Score(j) /\ i < j)}

MismatchOr(c, a, source, mismatch, lost) ==
    Answer(c, IF a.name # <<>> /\ Fit(c, a.name, lost) = 0 THEN mismatch ELSE source)

EightKAnswer(a, ranked, best, lost) ==
    IF best # {} THEN MismatchOr(ranked[CHOOSE i \in best : TRUE], a, "efts_frequency", "efts_frequency_name_mismatch", lost)
    ELSE [NoAnswer EXCEPT !.source = IF ranked = <<>> THEN "none" ELSE "rejected_validation"]

DelistingAnswer(h, a, lost) ==
    [Answer(h.cik, IF ~h.weak /\ Agrees(h.cik, a, lost) THEN "efts" ELSE "efts_name_mismatch") EXCEPT !.token = h.token]

(* Of a spelling, only the holders of exactly that name when one of them still files. *)
ProbeReads(v, a, lost) ==
    LET S == Probe(v, a.name)
        exact == S \cap Exactly(v)
    IN  IF Cardinality(Active(exact, v, a, lost)) = 1 THEN exact ELSE S
NameReads(a, lost) ==
    IF a.name = <<>> THEN {} ELSE UNION {ProbeReads(v, a, lost) : v \in ToSet(Spellings(a.name))}

ByEightKs(a, ranked, lost) ==
    [res |-> EightKAnswer(a, ranked, FromEightKs(a, ranked, lost), lost), reads |-> {EightKs} \cup (ToSet(ranked) \ a.exclude)]

ByNames(a, weak, taken, lost) ==
    LET res == IF taken # {} THEN [res |-> Answer(CHOOSE c \in taken : TRUE, "name_search"), reads |-> {}]
               ELSE IF weak # {} THEN [res |-> DelistingAnswer(CHOOSE h \in weak : TRUE, a, lost), reads |-> {}]
               ELSE ByEightKs(a, MostOften(Mentions(a, lost)), lost)
    IN  [res EXCEPT !.reads = @ \cup NameReads(a, lost) \cup IF taken = {} /\ weak = {} THEN Reordered(a) ELSE {}]

ByDelistings(a, hits, delisted, lost) ==
    LET weak == {h \in delisted : h.weak}
        res  == IF delisted # weak
                THEN [res |-> DelistingAnswer(CHOOSE h \in delisted : TRUE, a, lost), reads |-> {}]
                ELSE ByNames(a, weak, FromNames(a, weak, lost), lost)
    IN  [res EXCEPT !.reads = @ \cup {Delistings} \cup ({h.cik : h \in Hit(a, hits)} \ a.exclude)]

ByMap(a, taken, lost) ==
    LET res == IF taken # {}
               THEN [res |-> Answer(CHOOSE c \in taken : TRUE, "company_tickers"), reads |-> {}]
               ELSE ByDelistings(a, Hits(a, lost), FromDelistings(a, lost), lost)
    IN  [res EXCEPT !.reads = @ \cup (world.holder[a.ticker] \ a.exclude)]

(* bad: the reads that are lost and those that are stale. *)
Rested(found, bad) == [found.res EXCEPT !.rests = found.reads \cap (bad.lost \cup bad.stale) # {}]
Search(a, bad) == Rested(ByMap(a, FromMap(a, bad.lost), bad.lost), bad)

-------------------------------------------------------------------------------
(* The memo. *)

Key(a) == [ticker |-> a.ticker, day |-> a.day, name |-> a.name, exclude |-> a.exclude]

GivenSources == {"cik_map", "manual", "rename"}

(* A better answer is known today: the one active holder of exactly the name, or a company
   of the name that the ranking puts first, or one that may replace a weak answer. *)
Bettered(m, a, holder, lost) ==
    LET ranked == SelectSeq(NameSearch(a, lost), LAMBDA c : ExistedBy(c, a.since, lost))
    IN  IF m.source = "efts_name_mismatch"
        THEN ~m.token /\ \E i \in DOMAIN ranked : ranked[i] # m.cik /\ MayReplace(ranked[i], a, lost)
        ELSE IF holder # {} THEN holder # {m.cik}
        ELSE /\ ~SameWords(m.cik, a.name, lost)
             /\ \E c \in Found1(SelectSeq(ranked, LAMBDA c : Accepts(c, a, lost))) :
                   c # m.cik /\ SameWords(c, a.name, lost)

StillNamed(m, a, bad) ==
    m.source \in {"name_search", "efts_name_mismatch"} /\ a.name # <<>>
        /\ Bettered(m, a, ExactHolder(a, bad.lost), bad.lost)
    => (NameReads(a, bad.lost) \cup Exactly(a.name) \cup {m.cik}) \cap (bad.lost \cup bad.stale) # {}

Stands(m, a, bad) ==
    /\ m.cik # 0 /\ m.source \notin GivenSources => ExistedBy(m.cik, a.since, bad.lost)
    /\ StillNamed(m, a, bad)

Idle == [stack |-> <<>>, at |-> "idle", res |-> NoAnswer, failed |-> FALSE]
Asked == Head(now.stack)

Init ==
    /\ world \in Worlds
    /\ \E given \in Pinnings : run = [no |-> 1, pins |-> given.pins, overrides |-> given.overrides, asked |-> 0]
    /\ disk = [k \in {} |-> NoAnswer]
    /\ resolver = [memo |-> disk, volatile |-> {}, degraded |-> {}, dirty |-> FALSE]
    /\ now = Idle

Ask(a) ==
    /\ now = Idle /\ run.asked < MaxAsks
    /\ now' = [Idle EXCEPT !.stack = <<a>>, !.at = "look"]
    /\ run' = [run EXCEPT !.asked = @ + 1]
    /\ UNCHANGED <<world, disk, resolver>>

Pinned(a)     == run.pins[a.ticker] # {}
Overridden(a) == ~Pinned(a) /\ run.overrides[a.ticker] # {}
Recalled(a, bad) == Key(a) \in DOMAIN resolver.memo /\ Stands(resolver.memo[Key(a)], a, bad)
RenamedOf(a)  == world.renamed[a.ticker]
GivenBy(S, source) == Answer(CHOOSE c \in S : TRUE, source)

(* A pin answers before the memo is read, and is not remembered. *)
Pin ==
    /\ now.at = "look" /\ Pinned(Asked)
    /\ now' = [now EXCEPT !.at = "found", !.failed = FALSE,
                          !.res = GivenBy(run.pins[Asked.ticker], "cik_map")]
    /\ UNCHANGED <<world, run, disk, resolver>>

Override ==
    /\ now.at = "look" /\ Overridden(Asked)
    /\ now' = [now EXCEPT !.at = "mark", !.failed = FALSE, !.res = GivenBy(run.overrides[Asked.ticker], "manual")]
    /\ UNCHANGED <<world, run, disk, resolver>>

(* A faulty one: the memo is trusted. *)
FaultyRecall(bad) ==
    /\ now.at = "look" /\ ~Pinned(Asked) /\ ~Overridden(Asked) /\ Recalled(Asked, bad)
    /\ now' = [now EXCEPT !.at = "found", !.res = resolver.memo[Key(Asked)], !.failed = FALSE]
    /\ UNCHANGED <<world, run, disk, resolver>>

(* What was remembered of a failed read is that still. *)
Recall(bad) ==
    /\ now.at = "look" /\ ~Pinned(Asked) /\ ~Overridden(Asked) /\ Recalled(Asked, bad)
    /\ now' = [now EXCEPT !.at = "found", !.res = resolver.memo[Key(Asked)], !.failed = Key(Asked) \in resolver.degraded]
    /\ UNCHANGED <<world, run, disk, resolver>>

(* The new ticker is looked up, with its own pin and name. *)
Rename(bad) ==
    /\ now.at = "look" /\ ~Pinned(Asked) /\ ~Overridden(Asked) /\ ~Recalled(Asked, bad)
    /\ \E t \in RenamedOf(Asked) :
          now' = [now EXCEPT !.stack = <<[Asked EXCEPT !.ticker = t, !.name = world.observed[t], !.since = {}]>> \o @]
    /\ UNCHANGED <<world, run, disk, resolver>>

Find(bad) ==
    /\ now.at = "look" /\ ~Pinned(Asked) /\ ~Overridden(Asked) /\ ~Recalled(Asked, bad) /\ RenamedOf(Asked) = {}
    /\ \E res \in {Search(Asked, bad)} : now' = [now EXCEPT !.at = "mark", !.res = res, !.failed = res.rests]
    /\ UNCHANGED <<world, run, disk, resolver>>

-------------------------------------------------------------------------------
(* An answer is remembered.  A stop may come between the steps: a miss, or an answer that
   rests on a failed read, is marked before it is in the memo, and an earlier mark is
   taken off only after. *)

(* A faulty one: an answer in hand is kept, whatever it rests on. *)
FaultyVolatile == now.res.cik = 0

Volatile == now.res.cik = 0 \/ now.failed

With(memo, key, res) == [k \in DOMAIN memo \cup {key} |-> IF k = key THEN res ELSE memo[k]]

Mark ==
    /\ now.at = "mark"
    /\ resolver' = [resolver EXCEPT !.degraded = IF now.failed THEN @ \cup {Key(Asked)} ELSE @,
                                    !.volatile = IF Volatile THEN @ \cup {Key(Asked)} ELSE @]
    /\ now' = [now EXCEPT !.at = "keep"]
    /\ UNCHANGED <<world, run, disk>>

Keep ==
    /\ now.at = "keep"
    /\ resolver' = [resolver EXCEPT !.memo = With(@, Key(Asked), now.res)]
    /\ now' = [now EXCEPT !.at = "clear"]
    /\ UNCHANGED <<world, run, disk>>

Clear ==
    /\ now.at = "clear"
    /\ resolver' = [resolver EXCEPT !.degraded = IF now.failed THEN @ ELSE @ \ {Key(Asked)},
                                    !.volatile = IF Volatile THEN @ ELSE @ \ {Key(Asked)},
                                    !.dirty = @ \/ ~Volatile]
    /\ now' = [now EXCEPT !.at = "found"]
    /\ UNCHANGED <<world, run, disk>>

(* A renamed ticker's answer is that of the ticker it became. *)
Return ==
    /\ now.at = "found"
    /\ IF Len(now.stack) = 1
       THEN now' = Idle
       ELSE now' = [now EXCEPT !.stack = Tail(@), !.at = "mark", !.res.source = "rename"]
    /\ UNCHANGED <<world, run, disk, resolver>>

Saved == [k \in DOMAIN resolver.memo \ resolver.volatile |-> resolver.memo[k]]

(* After a stage that resolves, and on the way out of the run, however it ends. *)
Flush ==
    /\ now.at \in {"idle", "stopped"} /\ resolver.dirty
    /\ disk' = Saved
    /\ resolver' = [resolver EXCEPT !.dirty = FALSE]
    /\ UNCHANGED <<world, run, now>>

(* An exception or an interrupt, anywhere. *)
Stop ==
    /\ now.at # "stopped"
    /\ now' = [Idle EXCEPT !.at = "stopped"]
    /\ UNCHANGED <<world, run, disk, resolver>>

(* The next run, on a later day, with the pins and overrides of that day: it reads the
   file.  The last one may have ended without writing it. *)
Start(given) ==
    /\ now.at = "stopped" /\ run.no < Len(Todays)
    /\ run' = [no |-> run.no + 1, pins |-> given.pins, overrides |-> given.overrides, asked |-> 0]
    /\ resolver' = [memo |-> disk, volatile |-> {}, degraded |-> {}, dirty |-> FALSE]
    /\ now' = Idle
    /\ UNCHANGED <<world, disk>>

(* At most one read fails in a lookup. *)
Reads == {[lost |-> {}, stale |-> {}]}
         \cup {[lost |-> {r}, stale |-> {}] : r \in Companies \cup {Delistings, EightKs}}
         \cup {[lost |-> {}, stale |-> {c}] : c \in Companies}

Next ==
    \/ \E a \in Asks : Ask(a)
    \/ Pin \/ Override
    \/ \E bad \in Reads : Recall(bad) \/ Rename(bad) \/ Find(bad)
    \/ Mark \/ Keep \/ Clear \/ Return
    \/ Flush \/ Stop \/ \E given \in Pinnings : Start(given)

Spec == Init /\ [][Next]_vars

-------------------------------------------------------------------------------
(* The file holds no miss, and no answer that a failed read or an old copy led to,
   wherever the run that found it was stopped. *)
NothingDoubtfulIsSaved == \A k \in DOMAIN disk : disk[k].cik # 0 /\ ~disk[k].rests

(* Between lookups, the answers marked degraded are those that a failed read or an old copy
   led to, also through the memo or the rename map. *)
DegradedIsTold ==
    now = Idle => \A k \in DOMAIN resolver.memo : resolver.memo[k].rests <=> k \in resolver.degraded

=============================================================================
