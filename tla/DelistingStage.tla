---------------------------- MODULE DelistingStage ----------------------------
(* Stage 5 of a run (pipeline._find_delistings): every security is searched for its
   delistings, its issuers' filing lists being read from copies of different ages;
   an ending that goes on puts a successor registrant in force, and a security the
   search leaves open is read as of the run date and searched again.

   A CIK files at most one Form 25 here.  It ends its securities, or they go on
   under another CIK, whose successor registration is filed the same day.  Which
   Form 25 is about which security, and what kind of ending it is, is the finder's
   and is left out: every Form 25 the finder reads is an ending of the security. *)
EXTENDS Integers, SequencesExt, Functions

CONSTANTS Order,            \* the securities, in sec_id order
          IssuersOf,        \* the issuer of each, and the other CIK in force over its span
          LastSeen,         \* the day of each one's last sighting
          Ciks,
          MaySucceed,       \* the CIKs that may take over from each
          RunDate,
          FreshDays,        \* the 45 days of submissions_fresh_after
          MaxRegistrants,
          OldHits           \* may a full-text answer of an earlier run be empty and still hold?

Absent == -1
Ends   == -1
Never  == RunDate + 1
Smaller(a, b) == IF a <= b THEN a ELSE b
Securities == Range(Order)

ASSUME DelistingStageAssumption ==
    /\ Order \in Seq(Securities)
    /\ RunDate \in Nat \ {0} /\ FreshDays \in Nat /\ MaxRegistrants \in Nat \ {0}
    /\ IssuersOf \in [Securities -> SUBSET Ciks] /\ LastSeen \in [Securities -> 1..RunDate]
    /\ Ciks \subseteq Nat /\ MaySucceed \in [Ciks -> SUBSET Ciks]

VARIABLES
    form25, heir,     \* what EDGAR holds: the day of each CIK's Form 25, and who takes over, Ends for nobody
    copy,             \* the day each CIK's cached filing list was fetched, Absent for none
    hits,             \* the cached full-text answer for each CIK's successor registration
    place,            \* the security being searched, its index in Order
    doing,            \* "start", "search", "judge", "aborted"
    used, regs,       \* the registrants the last find ran with, and those in force
    tries, again,     \* finds of this search so far; is this the second search?
    found, force, degraded,
    out               \* what the stage keeps of each security searched

world == <<form25, heir>>
caches == <<copy, hits>>
search == <<used, regs, tries, found, force, again>>
stageVars == <<world, caches, place, doing, search, degraded, out>>

Sec == Order[place]
Issuers == IssuersOf[Sec]
Days == 1..RunDate
Heritages == {h \in [Ciks -> Ciks \cup {Ends}] : \A c \in Ciks : h[c] \in MaySucceed[c] \cup {Ends}}

-------------------------------------------------------------------------------
(* The reads *)

(* Each of the CIKs read with a day has a copy fetched by then, or its refresh
   fails and the answer is the old copy, or none; before: the watch so far. *)
Refresh(ciks, day, before) ==
    \E fails \in SUBSET {c \in ciks : copy[c] < day} :
        /\ copy' = [c \in Ciks |-> IF c \in ciks \ fails /\ copy[c] < day THEN RunDate ELSE copy[c]]
        /\ degraded' = (before \/ fails # {})

Earlier(c, d) == form25[c] < form25[d] \/ (form25[c] = form25[d] /\ c < d)
Heirs(on) == LET byDay == SetToSortSeq(on, Earlier)
             IN  [k \in 1..Smaller(Len(byDay), MaxRegistrants) |-> heir[byDay[k]]]

(* The successor registrants of the endings in es that go on, oldest ending first,
   each once and no more than MAX_REGISTRANTS; known: what the search answers. *)
Successors(es, known) ==
    LET on == {c \in es : heir[c] # Ends /\ known[c] = "found"}
    IN  Heirs({c \in on : ~ \E d \in on : heir[d] = heir[c] /\ Earlier(d, c)})

(* The endings of the copies read: the issuers' Form 25s, and a registrant's from
   its successor registration on. *)
Endings(read) ==
    {f \in Issuers \cup Range(regs) :
        /\ form25[f] <= read[f]
        /\ f \notin Issuers => \E c \in Range(regs) \cup Issuers : heir[c] = f /\ form25[c] <= form25[f]}

-------------------------------------------------------------------------------
(* The stage *)

StartSearch == used' = <<>> /\ regs' = <<>> /\ tries' = 0 /\ found' = {}

(* submissions_fresh_after of a security's last sighting. *)
FreshFor(s) == Smaller(LastSeen[s] + FreshDays, RunDate)

(* A faulty start: the issuers are read as they are cached. *)
FaultyStart ==
    /\ doing = "start" /\ place <= Len(Order)
    /\ degraded' = FALSE /\ UNCHANGED copy
    /\ StartSearch /\ again' = FALSE /\ force' = {} /\ doing' = "search"
    /\ UNCHANGED <<world, hits, place, out>>

(* The security's issuers are made current for its last sighting. *)
Start ==
    /\ doing = "start" /\ place <= Len(Order)
    /\ Refresh(Issuers, FreshFor(Sec), FALSE)
    /\ StartSearch /\ again' = FALSE /\ force' = {} /\ doing' = "search"
    /\ UNCHANGED <<world, hits, place, out>>

(* The loop of _search_security is over after this find. *)
LastTry == tries = MaxRegistrants

(* One find and the search for successor registrants after it; a CIK with no copy
   is read now, or its read fails and it has no filings; a search not answered yet
   is sent, or fails and finds none. *)
Find ==
    /\ doing = "search"
    /\ \E gone \in SUBSET {c \in Issuers \cup Range(regs) : copy[c] = Absent} :
       LET c2 == [c \in Ciks |-> IF c \in (Issuers \cup Range(regs)) \ gone /\ copy[c] = Absent
                                 THEN RunDate ELSE copy[c]]
           es == Endings(c2)
       IN  \E lost \in SUBSET {c \in es : heir[c] # Ends /\ hits[c] = "unasked"} :
           LET known == [c \in Ciks |-> IF c \in es \ lost /\ heir[c] # Ends /\ hits[c] = "unasked"
                                        THEN "found" ELSE hits[c]]
               later == Successors(es, known)
           IN  /\ copy' = c2 /\ hits' = known /\ found' = es
               /\ degraded' = (degraded \/ gone # {} \/ lost # {})
               /\ used' = regs /\ regs' = later
               /\ tries' = tries + 1
               /\ doing' = IF later = regs \/ LastTry THEN "judge" ELSE "search"
    /\ UNCHANGED <<world, place, again, force, out>>

(* _left_open: no ending that does not go on, dated on or after the last sighting. *)
LeftOpen(s, es) == ~ \E c \in es : heir[c] = Ends /\ form25[c] >= LastSeen[s]

ToBeReadAgain ==
    /\ ~again
    /\ LeftOpen(Sec, found)
    /\ \E c \in Issuers \cup Range(regs) : copy[c] \in 0..RunDate - 1

(* An open security is made current for the run date, with the registrants the
   search found in force, and searched again. *)
ReadAgain ==
    /\ doing = "judge" /\ ToBeReadAgain
    /\ force' = Issuers \cup Range(regs)
    /\ Refresh(Issuers \cup Range(regs), RunDate, degraded)
    /\ StartSearch /\ again' = TRUE /\ doing' = "search"
    /\ UNCHANGED <<world, hits, place, out>>

Advance ==
    /\ place' = place + 1 /\ doing' = "start"
    /\ StartSearch /\ again' = FALSE /\ force' = {} /\ degraded' = FALSE

(* read_before asks for a copy that could not be read once more. *)
AskedOnce == IF again \/ ~LeftOpen(Sec, found) THEN {}
             ELSE {c \in Issuers \cup Range(regs) : copy[c] = Absent}

Row(flag) == [kind |-> "searched", found |-> found, regs |-> regs, used |-> used,
              read |-> copy, force |-> force, degraded |-> flag]

(* The security's delistings, and the flag of a watch that tripped. *)
Settle ==
    /\ doing = "judge" /\ ~ToBeReadAgain
    /\ \E got \in SUBSET AskedOnce :
         /\ copy' = [c \in Ciks |-> IF c \in got THEN RunDate ELSE copy[c]]
         /\ out' = [out EXCEPT ![Sec] = Row(degraded \/ got # AskedOnce)]
    /\ Advance
    /\ UNCHANGED <<world, hits>>

Nothing == [kind |-> "none", found |-> {}, regs |-> <<>>, used |-> <<>>,
            read |-> [c \in Ciks |-> Absent], force |-> {}, degraded |-> FALSE]

(* An exception in one security's search is its error row, and nothing else of it. *)
Fail ==
    /\ doing # "aborted" /\ place <= Len(Order)
    /\ out' = [out EXCEPT ![Sec] = [Nothing EXCEPT !.kind = "error"]]
    /\ Advance
    /\ UNCHANGED <<world, caches>>

(* A refusal or an OpenFIGI outage stops the run. *)
Abort ==
    /\ doing # "aborted" /\ place <= Len(Order) /\ doing' = "aborted"
    /\ UNCHANGED <<world, caches, place, search, degraded, out>>

StageNext == Start \/ Find \/ ReadAgain \/ Settle \/ Fail \/ Abort

(* Any cache the run's earlier stages, its warm pass and the runs before it can have
   left, and an empty full-text answer only where one may still hold. *)
StageInit ==
    /\ form25 \in [Ciks -> Days \cup {Never}] /\ heir \in Heritages
    /\ copy \in [Ciks -> Absent..RunDate]
    /\ hits \in [Ciks -> IF OldHits THEN {"unasked", "none"} ELSE {"unasked"}]
    /\ place = 1 /\ doing = "start"
    /\ used = <<>> /\ regs = <<>> /\ tries = 0 /\ again = FALSE /\ found = {} /\ force = {}
    /\ degraded = FALSE
    /\ out = [s \in Securities |-> Nothing]

StageSpec == StageInit /\ [][StageNext]_stageVars

-------------------------------------------------------------------------------
(* Properties *)

Searched(s) == out[s].kind = "searched" /\ ~out[s].degraded

StageTypeOK ==
    /\ form25 \in [Ciks -> Days \cup {Never}] /\ heir \in Heritages
    /\ copy \in [Ciks -> Absent..RunDate] /\ hits \in [Ciks -> {"unasked", "none", "found"}]
    /\ place \in 1..Len(Order) + 1 /\ doing \in {"start", "search", "judge", "aborted"}
    /\ \A r \in {used, regs} : /\ r \in Seq(Ciks) /\ Len(r) <= MaxRegistrants /\ IsInjective(r)
    /\ tries \in 0..MaxRegistrants + 1 /\ again \in BOOLEAN
    /\ found \subseteq Ciks /\ force \subseteq Ciks /\ degraded \in BOOLEAN
    /\ \A s \in Securities :
         /\ out[s].kind \in {"none", "error", "searched"}
         /\ out[s].found \subseteq Ciks /\ out[s].force \subseteq Ciks /\ out[s].degraded \in BOOLEAN

(* A Form 25 an issuer of the security filed by 45 days after its last sighting (the
   run date at the latest) is found, or the security's row says a read failed. *)
IssuersFormsFound ==
    \A s \in Securities : Searched(s) =>
        \A c \in IssuersOf[s] :
            form25[c] <= FreshFor(s) => c \in out[s].found

===============================================================================
