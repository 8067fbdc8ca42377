----------------------------- MODULE IssuerRecord -----------------------------
(* The run's issuer record (identity/issuer_record.py) over the EDGAR client's
   cache, for one issuer: what the record remembers of it, what the cache holds,
   and how old the copy is that an answer came from.

   A copy is the day it was fetched: 0 is a copy with no fetch day, Absent none
   at all.  A day asked for is the fresh_after of the read, 0 for a read without
   `about`, so "fresh enough" is >= in every case. *)
EXTENDS Integers

CONSTANT LastDay      \* bound: the days runs are made on

ASSUME IssuerRecordAssumption == LastDay \in Nat \ {0}

Absent == -1
Copies == Absent..LastDay

VARIABLES
    today,    \* the run date
    disk,     \* the cached submissions JSON
    whole,    \* the cached older pages are those of the cached copy (FilingList)
    own,      \* this run's client fetched the cached copy
    torn,     \* the fetch of an older page has failed in this run
    profile, list, first,     \* what the record remembers: the copy each came from
    stamp,    \* _stamps: the fetch day of the last copy remembered, 0 for none
    pc,       \* "idle", or "list" inside filings() or first_filed()
    kind, asked, day, flagged \* the answer in progress or last given

vars == <<today, disk, whole, own, torn, profile, list, first, stamp, pc, kind, asked, day, flagged>>
cache  == <<disk, whole, own, torn>>
memory == <<profile, list, first, stamp>>
answer == <<kind, asked, day, flagged>>

Outcomes == {"current", "stale", "failed"}

-------------------------------------------------------------------------------
(* The client *)

(* EdgarClient.submissions: the cached copy when it is fresh enough; else a new
   one, with the older pages when the cache holds one; else the old one as a stale copy. *)
ReadSubmissions(fresh, r) ==
    \/ disk >= fresh /\ r = "current" /\ UNCHANGED cache
    \/ /\ disk < fresh
       /\ disk' = today /\ own' = TRUE
       /\ \/ whole' \in BOOLEAN /\ torn' = torn /\ r = "current"     \* no page is held, or the list was made whole
          \/ whole' = FALSE /\ torn' = TRUE /\ r \in {"stale", "failed"}    \* a page is served stale, or has no copy
    \/ /\ disk < fresh
       /\ r = IF disk = Absent THEN "failed" ELSE "stale"
       /\ UNCHANGED cache

(* EdgarClient.recent_filings: the cached list when it is whole; else one fetched
   from the top, under the main copy when this run fetched it itself. *)
ReadList(r) ==
    \/ disk # Absent /\ whole /\ r = "current" /\ UNCHANGED cache
    \/ /\ disk = Absent \/ ~whole
       /\ disk' = IF own THEN disk ELSE today
       /\ own' = TRUE
       /\ \/ whole' = TRUE /\ torn' = torn /\ r = "current"
          \/ whole' = FALSE /\ torn' = TRUE /\ r \in {"stale", "failed"}
    \/ /\ disk = Absent \/ ~whole
       /\ ~own
       /\ r \in IF disk = Absent THEN {"failed"} ELSE {"stale", "failed"}
       /\ UNCHANGED cache

-------------------------------------------------------------------------------
(* The record *)

(* A faulty _remember: the list and the first filing of an older copy are kept. *)
FaultyRemember(fresh, r) ==
    IF r = "current"
    THEN profile' = disk' /\ stamp' = disk' /\ UNCHANGED <<list, first>>
    ELSE UNCHANGED memory

(* _remember: a current copy's profile is kept; a refreshing read that brought a
   copy of another day drops the list and first filing of the older one. *)
Remember(fresh, r) ==
    IF r = "current"
    THEN /\ profile' = disk' /\ stamp' = disk'
         /\ IF fresh > 0 /\ stamp # disk'
            THEN list' = Absent /\ first' = Absent
            ELSE UNCHANGED <<list, first>>
    ELSE UNCHANGED memory

Say(k, fresh, d, f) == kind' = k /\ asked' = fresh /\ day' = d /\ flagged' = f
CopyRead(r) == IF r = "failed" THEN Absent ELSE disk'

(* submissions_fresh_after: never later than the run date. *)
Fresh == 0..today

(* profile(about): the remembered profile when its copy is fresh enough. *)
Profile(fresh) ==
    /\ pc = "idle"
    /\ \/ /\ profile >= fresh
          /\ Say("profile", fresh, profile, FALSE)
          /\ UNCHANGED <<cache, memory>>
       \/ /\ profile < fresh
          /\ \E r \in Outcomes : /\ ReadSubmissions(fresh, r) /\ Remember(fresh, r)
                                 /\ Say("profile", fresh, CopyRead(r), r # "current")
    /\ UNCHANGED <<today, pc>>

(* recent_days(about): the client's copy each time. *)
RecentDays(fresh) ==
    /\ pc = "idle"
    /\ \E r \in Outcomes : /\ ReadSubmissions(fresh, r) /\ Remember(fresh, r)
                           /\ Say("days", fresh, CopyRead(r), r # "current")
    /\ UNCHANGED <<today, pc>>

(* filings(about): the submissions JSON is made current for the day first. *)
AskFilings(fresh) ==
    /\ pc = "idle"
    /\ pc' = "list"
    /\ IF fresh = 0 \/ profile >= fresh
       THEN Say("filings", fresh, Absent, FALSE) /\ UNCHANGED <<cache, memory>>
       ELSE \E r \in Outcomes : /\ ReadSubmissions(fresh, r) /\ Remember(fresh, r)
                                /\ Say("filings", fresh, Absent, r # "current")
    /\ UNCHANGED today

(* first_filed: the remembered one, else that of the filings without a day. *)
FirstFiled ==
    /\ pc = "idle"
    /\ IF first # Absent THEN Say("first", 0, first, FALSE) /\ UNCHANGED pc
                         ELSE Say("first", 0, Absent, FALSE) /\ pc' = "list"
    /\ UNCHANGED <<today, cache, memory>>

(* filings: the remembered list, or one read now and remembered when it rested on
   no failed or stale read; first_filed keeps its answer on the same condition. *)
AnswerList ==
    /\ pc = "list" /\ pc' = "idle"
    /\ \/ /\ list # Absent
          /\ day' = list /\ UNCHANGED <<cache, list, flagged>>
       \/ /\ list = Absent
          /\ \E r \in Outcomes : /\ ReadList(r)
                                 /\ day' = CopyRead(r)
                                 /\ flagged' = (flagged \/ r # "current")
                                 /\ list' = IF r = "current" THEN disk' ELSE list
    /\ first' = IF kind = "first" /\ ~flagged' THEN day' ELSE first
    /\ UNCHANGED <<today, profile, stamp, kind, asked>>

(* The least recently asked list is dropped at MEMO_SIZE. *)
Evict ==
    /\ pc = "idle" /\ list # Absent
    /\ list' = Absent
    /\ UNCHANGED <<today, cache, profile, first, stamp, pc, answer>>

-------------------------------------------------------------------------------
(* Around the record *)

(* The classifier, the finder and the extractors read the client themselves, as
   does a shadow of the record on a prefetch thread, which fills and refreshes
   nothing. *)
DirectRead ==
    /\ pc = "idle"
    /\ \E r \in Outcomes : ReadSubmissions(0, r) \/ ReadList(r)
    /\ UNCHANGED <<today, memory, pc, answer>>

(* The run ends, or is stopped in the middle of a read; the next one forgets. *)
NextRun ==
    /\ today' \in {today, today + 1} /\ today' <= LastDay
    /\ \/ UNCHANGED <<disk, whole>>
       \/ disk' = today /\ whole' = FALSE
    /\ own' = FALSE /\ torn' = FALSE
    /\ profile' = Absent /\ list' = Absent /\ first' = Absent /\ stamp' = 0
    /\ pc' = "idle" /\ kind' = "none" /\ asked' = 0 /\ day' = Absent /\ flagged' = FALSE

Ask == \E fresh \in Fresh : Profile(fresh) \/ RecentDays(fresh) \/ AskFilings(fresh)

Next == Ask \/ FirstFiled \/ AnswerList \/ Evict \/ DirectRead \/ NextRun

Init ==
    /\ today = 1
    /\ disk \in Absent..1 /\ whole \in BOOLEAN /\ own = FALSE /\ torn = FALSE
    /\ profile = Absent /\ list = Absent /\ first = Absent /\ stamp = 0
    /\ pc = "idle" /\ kind = "none" /\ asked = 0 /\ day = Absent /\ flagged = FALSE

Spec == Init /\ [][Next]_vars

-------------------------------------------------------------------------------
(* Properties *)

(* The days run up to the run date's bound; a copy may be absent. *)
DayTypes ==
    /\ today \in 1..LastDay
    /\ disk \in Copies
    /\ profile \in Copies /\ list \in Copies /\ first \in Copies /\ stamp \in 0..LastDay
    /\ asked \in 0..LastDay /\ day \in Copies

PointTypes ==
    /\ whole \in BOOLEAN /\ own \in BOOLEAN /\ torn \in BOOLEAN /\ flagged \in BOOLEAN
    /\ pc \in {"idle", "list"}
    /\ kind \in {"none", "profile", "days", "filings", "first"}

(* Every variable has its type: no read that failed is remembered as a copy. *)
TypeOK == DayTypes /\ PointTypes

(* The failure policy: an answer about a day whose watch is not tripped came from
   a copy fetched by the day it asks for, also when it was remembered: while no
   older page has failed in this run, ... *)
UnflaggedIsFresh ==
    (pc = "idle" /\ flagged = FALSE /\ kind # "none" /\ torn = FALSE) => day >= asked

(* ... and also then, if the answer is not read off the filing list. *)
UnflaggedProfileIsFresh ==
    (kind \in {"profile", "days"} /\ flagged = FALSE) => day >= asked

(* A list or first filing the record remembers is the one the client would read
   now: its refresh by any reader drops it, and the pages it came from are still
   in the cache. *)
RememberedIsCached ==
    torn = FALSE =>
        /\ list # Absent => (whole = TRUE /\ list = disk)
        /\ first # Absent => (whole = TRUE /\ first = disk)

-------------------------------------------------------------------------------
(* Why it holds: the cached copy was fetched by today, and today when this run
   fetched it; ... *)
CacheOfToday == disk <= today /\ (own = TRUE => disk = today)

(* ... a list is awaited by filings() and first_filed() only; ... *)
ListAwaited == pc = "list" => kind \in {"filings", "first"}

(* ... and the memory is never newer than the cache, which is fresh enough already
   when a list is awaited under an unflagged answer. *)
MemoryOfCache ==
    /\ profile <= disk
    /\ stamp <= (IF disk = Absent THEN 0 ELSE disk)
    /\ (pc = "list" /\ flagged = FALSE) => (asked = 0 \/ asked <= disk)

IInv == /\ TypeOK /\ CacheOfToday /\ ListAwaited
        /\ RememberedIsCached /\ MemoryOfCache /\ UnflaggedIsFresh
===============================================================================
