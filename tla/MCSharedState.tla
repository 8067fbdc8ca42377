---------------------------- MODULE MCSharedState ----------------------------
(* What outlives a process in a file: the limiter's stamp, and the memo of the issuer
   lookup. Neither reads the other's, so each is explored with the other at rest. *)
EXTENDS SecLimiter, Resolver, TLC

CONSTANTS program, other, t1, t2, t3

VARIABLE limiting

(* Two processes on one machine: a run with two prefetch threads, and another program with
   one. *)
MCProcs   == {program, other}
MCThreads == {t1, t2, t3}
MCHome    == (t1 :> program) @@ (t2 :> program) @@ (t3 :> other)

(* One ticker's two holders in turn, others of like names, an exchange (9). *)
MCCompanies == 1..4 \cup {9}
MCExchanges == {9}
MCFillers   == {"INC", "CORP", "HOLDINGS"}
MCGeneric   == {"NORTH"}
MCTodays    == <<150, 700>>

Named(n, from, to) == [name |-> n, from |-> from, to |-> to]
Form(form, day)    == [form |-> form, day |-> day]
Quiet == [c \in MCCompanies |-> {Form("8-K", 600)}]
Nobody == [c \in MCCompanies |-> {Named(<<"SOME", "TRUST">>, 0, 9999)}]
Listing(cik, name, token, day) == [cik |-> cik, name |-> name, token |-> token, day |-> day]
Mention(cik, token) == [cik |-> cik, token |-> token, day |-> 60]

Ever == 9999
Acme == <<"ACME", "INC">>

World(names, filings, holder, hits, mentions) ==
    [names |-> names @@ Nobody, filings |-> filings @@ Quiet,
     holder |-> [t \in {"ACM", "NEW"} |-> IF t = "ACM" THEN holder ELSE {}],
     hits |-> [t \in {"ACM", "NEW"} |-> IF t = "ACM" THEN hits ELSE <<>>],
     mentions |-> [t \in {"ACM", "NEW"} |-> IF t = "ACM" THEN mentions ELSE <<>>],
     renamed |-> [t \in {"ACM", "NEW"} |-> IF t = "NEW" THEN {"ACM"} ELSE {}],
     observed |-> [t \in {"ACM", "NEW"} |-> Acme]]

(* 1 was ACME and left; 2, spun off on day 60, took its name and its ticker. *)
SpunOff == World(1 :> {Named(Acme, 0, 70), Named(<<"OLD", "INC">>, 71, Ever)} @@ 2 :> {Named(Acme, 60, Ever)},
                 1 :> {Form("10-K", -50), Form("25", 100)} @@ 2 :> {Form("8-K", 60), Form("10-Q", 140), Form("25-NSE", 600)},
                 {2}, <<>>, <<Mention(2, TRUE), Mention(1, FALSE)>>)

(* The delisting around the day is filed by another name, the exchange beside it; a company
   of the name comes to leave too. *)
UnderAnother == World(1 :> {Named(<<"ACME", "HOLDINGS">>, 0, Ever)} @@ 3 :> {Named(<<"BLUE", "WHALE">>, 0, Ever)},
                      1 :> {Form("10-K", -40), Form("15-12G", -30)} @@ 3 :> {Form("10-K", -20), Form("25", 110)},
                      {}, <<Listing(9, <<"EXCHANGE">>, FALSE, 110), Listing(3, <<"BLUE", "WHALE">>, FALSE, 110)>>, <<>>)

(* A subsidiary's longer name was found first; the company of exactly the name files on. *)
LikeNames == World(1 :> {Named(<<"ACME", "CORP">>, 0, Ever)} @@ 2 :> {Named(<<"ACME", "FINANCE", "CORP">>, 0, Ever)}
                       @@ 3 :> {Named(<<"INC", "ACME">>, 200, Ever)},
                   1 :> {Form("8-K", -10), Form("25", 300)} @@ 2 :> {Form("8-K", -20), Form("25-NSE", 95)}
                       @@ 3 :> {Form("10-Q", 200)},
                   {}, <<>>, <<>>)

(* Two companies of exactly the name, one of them before the other. *)
TwoOfAName == World(1 :> {Named(Acme, -900, -500), Named(<<"OLD", "INC">>, -499, Ever)} @@ 2 :> {Named(Acme, -400, Ever)},
                    1 :> {Form("10-K", -800), Form("8-K", 20), Form("25", 90)} @@ 2 :> {Form("10-Q", -300), Form("25", 105)},
                    {}, <<>>, <<>>)

(* No delisting and no company of the name: the 8-Ks around the day. *)
ByMentions == World(3 :> {Named(<<"ACME", "NORTH">>, -100, Ever)} @@ 4 :> {Named(<<"BUYER", "INC">>, -100, Ever)},
                    3 :> {Form("10-Q", -90), Form("25", -450)} @@ 4 :> {Form("10-Q", -90), Form("25", 20), Form("10-Q", 250)},
                    {}, <<>>, <<Mention(4, TRUE), Mention(3, FALSE), Mention(9, TRUE), Mention(3, FALSE)>>)

MCWorlds == {SpunOff, UnderAnother, LikeNames, TwoOfAName, ByMentions}

Lookup(t, since, exclude) == [ticker |-> t, day |-> 100, name |-> Acme, since |-> since, exclude |-> exclude]
MCAsks == {Lookup("ACM", {0}, {}), Lookup("ACM", {80}, {}), Lookup("ACM", {0}, {1, 2}), Lookup("NEW", {0}, {})}

None == [t \in {"ACM", "NEW"} |-> {}]
MCPinnings == {[pins |-> None, overrides |-> None],
               [pins |-> [None EXCEPT !["ACM"] = {4}], overrides |-> None],
               [pins |-> None, overrides |-> [None EXCEPT !["ACM"] = {1}]]}

-------------------------------------------------------------------------------
(* At rest: a limiter nobody asks, and a run that makes no lookup. *)
Unasked   == LimiterInit /\ due = 0
NoLookups == Init /\ world = SpunOff /\ run.pins = None /\ run.overrides = None

(* The last run is over, and its memo written or lost. *)
Ended == now.at = "stopped" /\ run.no = Len(Todays) /\ UNCHANGED vars

SharedInit ==
    /\ limiting \in BOOLEAN
    /\ IF limiting THEN LimiterInit /\ NoLookups ELSE Unasked /\ Init

SharedNext ==
    /\ UNCHANGED limiting
    /\ IF limiting THEN LimiterNext /\ UNCHANGED vars ELSE (Next \/ Ended) /\ UNCHANGED limiterVars

(* The limiter's own fairness (SecLimiter, Fairness). *)
SharedSpec ==
    /\ SharedInit /\ [][SharedNext]_<<limiterVars, vars, limiting>>
    /\ WF_limiterVars(limiting /\ Tick)
    /\ \A t \in Threads : Home[t] \notin Frozen =>
          WF_limiterVars(limiting /\ Acquire(t)) /\ WF_limiterVars(limiting /\ Answers(t))
===============================================================================
