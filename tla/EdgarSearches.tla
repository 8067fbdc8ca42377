---------------------------- MODULE EdgarSearches ----------------------------
(* One answer of SEC kept by the EDGAR client (sources/edgar.py): of a full-text search
   over a window of filing days, of one without a window, of a company search, or a
   filing's document.  Each kind is trusted for a time of its own, by the run date it was
   fetched under; a run may be made as of an earlier day than the clock's, and then sees
   no filing made after that day.  What SEC answers comes to hold the filing asked for
   on day shown: the index is up to Late days behind.

   A prefetch thread fills the cache only, and throws its answers away. *)
EXTENDS Integers

CONSTANTS LastClock,         \* bound: the days runs are made on
          WindowEnd, Late, MinTtl, MaxTtl, SearchFresh

ASSUME EdgarSearchesAssumption ==
    /\ {LastClock, WindowEnd, Late, MinTtl, MaxTtl, SearchFresh} \subseteq Nat
    /\ WindowEnd \in 1..LastClock /\ 0 < MinTtl /\ MinTtl <= MaxTtl /\ Late > 0

Queries == {"full text", "undated", "company", "text", "raw"}
NeverShown == LastClock + 1

NoAnswer   == [kept |-> "none"]
Unreadable == [kept |-> "unreadable"]       \* a cut-off file, or another schema's
Kept(on, sees) == [kept |-> "answer", on |-> on, sees |-> sees]

VARIABLES
    query,    \* which kind of answer this is
    shown,    \* the first day SEC's answer holds the filing
    clock,    \* the day it is
    now,      \* the run date
    file,     \* the cache file
    memo,     \* this client's memory of the query, not written to disk
    said      \* what the sequential pass was last told

searchVars == <<query, shown, clock, now, file, memo, said>>

Told(hit, sure, how) == [hit |-> hit, sure |-> sure, how |-> how]
Silent == Told(FALSE, FALSE, "nothing")

Larger2(a, b) == IF a > b THEN a ELSE b
Smaller2(a, b) == IF a < b THEN a ELSE b

-------------------------------------------------------------------------------
(* A faulty time to live, its two bounds exchanged. *)
FaultyTtlDays(fetched) == Larger2(MaxTtl, Smaller2(MinTtl, fetched - WindowEnd))

(* efts_ttl_days: the longer ago its window had closed, the longer an answer holds. *)
TtlDays(fetched) == Larger2(MinTtl, Smaller2(MaxTtl, fetched - WindowEnd))

Readable == file.kept = "answer"

(* _efts_cached, and the age company_search_atom trusts; a document is kept for good. *)
HoldsStill ==
    CASE query = "full text" -> now < file.on + TtlDays(file.on)
      [] query = "company"   -> file.on >= now - SearchFresh
      [] OTHER               -> TRUE

Recalled(filling) == Readable /\ (filling \/ HoldsStill)

(* _filed_by: the filing, made on the window's last day, is seen by a run of that day or
   a later one. *)
Seen(sees) == sees /\ now >= WindowEnd

SayTo(filling, t) == said' = IF filling THEN said ELSE t

-------------------------------------------------------------------------------
(* A request: SEC answers it, rejects the query, or does not answer. *)

Sees == clock >= shown

(* What this client keeps of a search without a window, and of a rejected one, for the
   run; a search no answer came for is empty and counted degraded. *)
SendSearch(filling) ==
    \/ /\ IF query = "undated" THEN memo' = Told(Sees, TRUE, "answered") /\ UNCHANGED file
                               ELSE file' = Kept(now, Sees) /\ UNCHANGED memo
       /\ SayTo(filling, Told(Seen(Sees), TRUE, "answered"))
    \/ /\ memo' = Told(FALSE, TRUE, "rejected") /\ UNCHANGED file
       /\ SayTo(filling, memo')
    \/ /\ UNCHANGED memo /\ file' \in {file} \cup (IF Readable THEN {} ELSE {NoAnswer})
       /\ SayTo(filling, Told(FALSE, FALSE, "failed"))

(* efts_search, under full_text_search. *)
FullTextSearch(filling) ==
    /\ query \in {"full text", "undated"}
    /\ IF memo # Silent
       THEN SayTo(filling, Told(Seen(memo.hit), memo.sure, memo.how)) /\ UNCHANGED <<file, memo>>
       ELSE IF Recalled(filling)
       THEN SayTo(filling, Told(Seen(file.sees), TRUE, "answered")) /\ UNCHANGED <<file, memo>>
       ELSE IF filling /\ file = Unreadable
       THEN UNCHANGED <<file, memo, said>>
       ELSE SendSearch(filling)
    /\ UNCHANGED <<query, shown, clock, now>>

(* company_search_atom: an old answer with a hit stands in for one that did not come, and
   is marked stale. *)
CompanySearch(filling) ==
    /\ query = "company"
    /\ IF Recalled(filling)
       THEN SayTo(filling, Told(file.sees, TRUE, "answered")) /\ UNCHANGED file
       ELSE IF filling /\ file = Unreadable
       THEN UNCHANGED <<file, said>>
       ELSE \/ /\ file' = Kept(now, Sees)
               /\ SayTo(filling, Told(Sees, TRUE, "answered"))
            \/ /\ SayTo(filling, Told(FALSE, TRUE, "rejected"))
               /\ file' \in {file} \cup (IF Readable THEN {} ELSE {NoAnswer})
            \/ /\ SayTo(filling, Told(Readable /\ file.sees, FALSE, "failed"))
               /\ file' \in {file} \cup (IF Readable THEN {} ELSE {NoAnswer})
    /\ UNCHANGED <<query, shown, clock, now, memo>>

(* fetch_filing_text, fetch_filing_raw: the document, or for good that SEC has none; a
   failed read is an empty text, kept by nobody. *)
Document(of) ==
    /\ query = of
    /\ IF Readable
       THEN said' = Told(file.sees, TRUE, "answered") /\ UNCHANGED file
       ELSE \/ file' = Kept(now, Sees) /\ said' = Told(Sees, TRUE, "answered")
            \/ said' = Told(FALSE, FALSE, "failed") /\ UNCHANGED file
    /\ UNCHANGED <<query, shown, clock, now, memo>>

FilingText == Document("text")
FilingRaw  == Document("raw")

(* The run ends, or a refusal stops it; the next one is made on a later day or the same,
   as of a day up to it. *)
NextSearchRun ==
    /\ clock' \in clock..LastClock /\ now' \in 1..clock'
    /\ memo' = Silent /\ said' = Silent
    /\ UNCHANGED <<query, shown, file>>

SearchNext ==
    \/ \E filling \in BOOLEAN : FullTextSearch(filling) \/ CompanySearch(filling)
    \/ FilingText \/ FilingRaw
    \/ NextSearchRun

SearchInit ==
    /\ query \in Queries
    /\ shown \in WindowEnd..(WindowEnd + Late) \cup {NeverShown}
    /\ clock = 1 /\ now = 1
    /\ file \in IF query \in {"full text", "company"} THEN {NoAnswer, Unreadable} ELSE {NoAnswer}
    /\ memo = Silent /\ said = Silent

SearchSpec == SearchInit /\ [][SearchNext]_searchVars

-------------------------------------------------------------------------------
(* No filing is lost to a cached answer: however early an answer was fetched and kept,
   and under whatever run date, the sequential pass is told of the filing, or that SEC
   did not answer, once an answer of the last day the index may still have lacked it has
   run out, which is the index's delay again or the shortest time to live; a company within the week SEC shows it; a search without a window at once.  (A query
   SEC rejects is an empty answer, and a document it did not have is not asked for
   again.) *)
LateFilingsAreFound ==
    said.sure /\ said.how = "answered" /\ shown # NeverShown =>
        /\ query = "full text" /\ now >= WindowEnd + Late - 1 + Larger2(MinTtl, Late - 1) => said.hit
        /\ query = "company" /\ now >= shown + SearchFresh => said.hit
        /\ query = "undated" /\ clock >= shown /\ now >= WindowEnd => said.hit
=============================================================================
