------------------------------ MODULE FilingList ------------------------------
(* An issuer's filing list as EdgarClient reads it (sources/edgar.py): a main
   file with the latest filings and older pages, served by EDGAR while filings
   keep arriving, cached copy by copy, and read only as copies of one list.

   Filings are numbered 1, 2, 3 ... as they arrive. A list is described by its
   edges: block 0 is the main file, block b >= 1 is page b, and block b holds
   the filings  e[b+1] + 1 .. e[b].  A filing that arrives pushes older rows
   towards the older blocks, so every edge only ever grows.  EDGAR lists page b
   exactly when it has rows, e[b] > 0, and its main file tells the row count of
   every page, so one copy of the main file determines (and is determined by)
   the edges of its moment: that is what _list_id hashes. *)
EXTENDS Naturals

CONSTANTS MaxPages,      \* pages a list may come to have
          MaxFilings,    \* bound: filings that ever arrive
          NewPages,      \* may EDGAR add a page behind the oldest listed one?
          OldCopies      \* may the first run find untagged copies of other moments?

ASSUME FilingListAssumption ==
    /\ MaxPages \in Nat \ {0}
    /\ MaxFilings \in Nat \ {0}
    /\ NewPages \in BOOLEAN
    /\ OldCopies \in BOOLEAN

Pages  == 1..MaxPages
Blocks == 0..MaxPages + 1      \* the last edge is always 0: nothing lies behind it

NoList == [b \in Blocks |-> 0]                      \* no copy, or no LIST_KEY
NoPage == [hi |-> 0, lo |-> 0, tag |-> NoList]      \* the cache has no file for the page

VARIABLES
    edge,     \* EDGAR: the edges of the list now
    main,     \* the cached main file: the edges of the moment it was fetched, or NoList
    page,     \* the cached pages: rows lo+1..hi and the main copy it was fetched under
    fetched,  \* this client fetched the main file itself (_fetched[url] > 0)
    place,    \* where the read in progress stands
    purpose,  \* "filings" (recent_filings) or "profile" (submissions)
    due,      \* the caller's fresh_after is later than the cached main copy
    fill,     \* the read runs on a prefetch thread (fill_only)
    next,     \* the next page the read looks at
    again,    \* _whole_list fetches the list for the second time
    stale,    \* the read rests on a failed request (a counted, flagged answer)
    mixed     \* history: under the cached main file the pages were taken as one list wrongly (Cut, Overlooked)

listVars == <<edge, main, page, fetched, place, purpose, due, fill, next, again, stale, mixed>>
client == <<fetched, purpose, due, fill>>

-------------------------------------------------------------------------------
(* Edges *)

IsEdges(e) ==
    /\ e \in [Blocks -> 0..MaxFilings]
    /\ e[MaxPages + 1] = 0
    /\ \A a, b \in Blocks : a < b => (e[b] < e[a] \/ (e[a] = 0 /\ e[b] = 0))

Edges == {e \in [Blocks -> 0..MaxFilings] : IsEdges(e)}

Listed(e)  == {b \in Pages : e[b] > 0}             \* _listed_pages
Count(e, b) == e[b] - e[b + 1]                      \* the filingCount of page b
Later(e, f) == \A b \in Blocks : e[b] <= f[b]       \* f is a later moment than e, or the same

(* No page is added behind the oldest one: the lists of e and f have the same
   pages, or e had none yet (its main file holds every filing). *)
SamePages(e, f) == Listed(e) = {} \/ Listed(e) = Listed(f)

(* One page is added, and the oldest page before it hands it rows: it keeps
   fewer than it had, as _whole_list expects of EDGAR. *)
HandsRowsOn(e, f) ==
    \E b \in Listed(e) : /\ Listed(e) = 1..b /\ Listed(f) = 1..b + 1
                         /\ Count(f, b) < Count(e, b)

PageCopy(e, b, t) == [hi |-> e[b], lo |-> e[b + 1], tag |-> t]
Rows(p) == p.hi - p.lo                              \* _rows

-------------------------------------------------------------------------------
(* EDGAR *)

(* A filing arrives: it enters the main file and rows may move to older blocks. *)
NewFiling ==
    /\ \E e \in Edges : /\ e[0] = edge[0] + 1
                        /\ Later(edge, e)
                        /\ SamePages(edge, e) \/ (NewPages /\ HandsRowsOn(edge, e))
                        /\ edge' = e
    /\ UNCHANGED <<main, page, fetched, place, purpose, due, fill, next, again, stale, mixed>>

-------------------------------------------------------------------------------
(* Decisions *)

Cached(b) == page[b] # NoPage

(* _one_list: whether the cached pages are those of the cached main copy. *)
OneList ==
    \/ \A b \in Listed(main) : page[b].tag = main
    \/ /\ Listed(main) = {1}
       /\ page[1].tag = NoList
       /\ Rows(page[1]) = Count(main, 1)

(* The point between the two writes of a page: only a client that fetched the
   main file itself tags a page with it. *)
Tagging(l) == IF l = "first" THEN "tag-first" ELSE "tag-pages"

(* The oldest listed page came back with fewer rows than the main file lists. *)
OldestIsShort ==
    \E b \in Listed(main) : /\ b + 1 \notin Listed(main)
                            /\ Rows(page[b]) < Count(main, b)

(* The second pass leaves the pages here with the tags of one list that they are not: a
   newer page before one of the first look, both fetched under the main copy, or an
   oldest page that has handed rows on. *)
Cut ==
    \/ place = "pages" /\ next \in Listed(main) /\ next > 1 /\ page[next].tag = main
    \/ place = "pages" /\ next \notin Listed(main) /\ OldestIsShort
    \/ place = "top" /\ again

(* EDGAR has put a page behind the oldest listed one when it is fetched, and nothing will
   tell: the first look asks for no count, the second repetition is the last, and a page
   filled again has its count. *)
Overlooked ==
    /\ next + 1 \in Listed(edge) \ Listed(main)
    /\ place = "first" \/ again \/ Count(edge, next) >= Count(main, next)

Goto(l) == place' = l /\ UNCHANGED <<edge, main, page, fetched, purpose, due, fill, next, again, stale, mixed>>

-------------------------------------------------------------------------------
(* The reads *)

StartRead ==
    /\ place = "idle"
    /\ purpose' \in {"filings", "profile"}
    /\ due' \in BOOLEAN
    /\ fill' \in BOOLEAN
    /\ place' = "main" /\ next' = 1 /\ again' = FALSE /\ stale' = FALSE
    /\ UNCHANGED <<edge, main, page, fetched, mixed>>

(* _get_json(main): a cached copy answers recent_filings always, submissions
   unless it is due, and a prefetch thread whatever its age. *)
ServesCached == main # NoList /\ (purpose = "filings" \/ ~due \/ fill)

ReadMain ==
    /\ place = "main"
    /\ ServesCached
    /\ Goto(IF purpose = "filings" THEN "list" ELSE "done")

(* A faulty submissions: the refetched main file is kept beside the old pages. *)
FaultyFetchMain ==
    /\ place = "main"
    /\ ~ServesCached
    /\ main' = edge
    /\ fetched' = TRUE /\ mixed' = FALSE
    /\ place' = IF purpose = "filings" THEN "list" ELSE "done"
    /\ UNCHANGED <<edge, page, purpose, due, fill, next, again, stale>>

(* A profile read that fetched the main file takes the pages the cache holds
   with it (_holds_a_page). *)
FetchMain ==
    /\ place = "main"
    /\ ~ServesCached
    /\ main' = edge
    /\ fetched' = TRUE /\ mixed' = FALSE
    /\ place' = IF purpose = "filings" \/ \E b \in Listed(edge) : Cached(b) THEN "list" ELSE "done"
    /\ UNCHANGED <<edge, page, purpose, due, fill, next, again, stale>>

FetchMainFails ==
    /\ place = "main"
    /\ ~ServesCached
    /\ stale' = TRUE
    /\ place' = IF main = NoList THEN "idle" ELSE "done"      \* raised, or the copy served stale
    /\ UNCHANGED <<edge, main, page, client, next, again, mixed>>

(* _whole_list, first look.  A list with a page missing beside another run's
   main file is fetched from the top instead of page by page. *)
StartList ==
    /\ place = "list"
    /\ Goto(IF ~fetched /\ ~fill /\ \E b \in Listed(main) : ~Cached(b) THEN "top" ELSE "first")

(* The cached copy of the next page is read as it is. *)
ReadPage ==
    /\ place \in {"first", "rest"}
    /\ next \in Listed(main) /\ Cached(next)
    /\ next' = next + 1
    /\ UNCHANGED <<edge, main, page, client, place, again, stale, mixed>>

(* _page fetches a page: one cache write by _get_json, and a second one with
   the tag when the main copy is this client's own. *)
FetchPage ==
    /\ place \in {"first", "pages", "rest"}
    /\ next \in Listed(main)
    /\ place = "pages" \/ ~Cached(next)
    /\ page' = [page EXCEPT ![next] = PageCopy(edge, next, NoList)]
    /\ IF fetched /\ place # "rest" THEN place' = Tagging(place) /\ UNCHANGED next
                                  ELSE next' = next + 1 /\ UNCHANGED place
    /\ mixed' = (mixed \/ Overlooked)
    /\ UNCHANGED <<edge, main, client, again, stale>>

TagPage ==
    /\ \E l \in {"first", "pages"} : place = Tagging(l) /\ place' = l
    /\ page' = [page EXCEPT ![next].tag = main]
    /\ next' = next + 1
    /\ UNCHANGED <<edge, main, client, again, stale, mixed>>

(* The fetch of a page fails: the cached copy is served as a stale one, or the
   read raises when there is none. *)
FetchPageFails ==
    /\ place \in {"first", "rest", "pages"}
    /\ next \in Listed(main)
    /\ place = "pages" \/ ~Cached(next)
    /\ stale' = TRUE
    /\ IF Cached(next) THEN next' = next + 1 /\ UNCHANGED place
                       ELSE place' = "idle" /\ UNCHANGED next
    /\ mixed' = (mixed \/ Cut)
    /\ UNCHANGED <<edge, main, page, client, again>>

(* Every page was looked at: a prefetch thread reads the copies as they are,
   another read only when they are one list. *)
Judge ==
    /\ place = "first" /\ next \notin Listed(main)
    /\ Goto(IF fill \/ OneList THEN "done" ELSE "top")

(* The list is fetched from the top: the main file first, unless this client
   fetched it itself and this is the first attempt. *)
KeepMain ==
    /\ place = "top" /\ ~again /\ fetched
    /\ place' = "pages" /\ next' = 1
    /\ UNCHANGED <<edge, main, page, client, again, stale, mixed>>

RefetchMain ==
    /\ place = "top" /\ (again \/ ~fetched)
    /\ main' = edge
    /\ fetched' = TRUE /\ mixed' = FALSE
    /\ place' = "pages" /\ next' = 1
    /\ UNCHANGED <<edge, page, purpose, due, fill, again, stale>>

RefetchMainFails ==
    /\ place = "top" /\ (again \/ ~fetched)
    /\ stale' = TRUE
    /\ place' = IF \A b \in Listed(main) : Cached(b) THEN "done" ELSE "rest"
    /\ next' = 1
    /\ mixed' = (mixed \/ Cut)
    /\ UNCHANGED <<edge, main, page, client, again>>

(* A faulty end: a list whose oldest page is short is taken as it is. *)
FaultyEndPages ==
    /\ place = "pages" /\ next \notin Listed(main)
    /\ Goto("done")

(* Every page was fetched: once more when the oldest has handed rows on. *)
EndPages ==
    /\ place = "pages" /\ next \notin Listed(main)
    /\ IF OldestIsShort /\ ~again
       THEN again' = TRUE /\ place' = "top"
       ELSE place' = "done" /\ UNCHANGED again
    /\ UNCHANGED <<edge, main, page, client, next, stale, mixed>>

EndRest ==
    /\ place = "rest" /\ next \notin Listed(main)
    /\ Goto("done")

Return ==
    /\ place = "done"
    /\ Goto("idle")

(* The run ends, or is killed or stopped by a refusal (403/429) between
   any two steps; the next run's client has fetched nothing yet. *)
EndRun ==
    /\ place' = "idle"
    /\ fetched' = FALSE
    /\ mixed' = (mixed \/ Cut)
    /\ UNCHANGED <<edge, main, page, purpose, due, fill, next, again, stale>>

ClientStep ==
    \/ StartRead \/ ReadMain \/ FetchMain \/ FetchMainFails \/ StartList
    \/ ReadPage \/ FetchPage \/ TagPage \/ FetchPageFails \/ Judge
    \/ KeepMain \/ RefetchMain \/ RefetchMainFails \/ EndPages \/ EndRest
    \/ Return

ListNext == NewFiling \/ ClientStep \/ EndRun

-------------------------------------------------------------------------------
(* Initial states: an empty cache, or the copies an earlier version left: the
   main file of one moment beside a run of pages of another, all untagged. *)
ListInit ==
    /\ edge \in Edges /\ edge[0] > 0
    /\ \/ main = NoList /\ page = [b \in Pages |-> NoPage]
       \/ \E e, f \in Edges :
            /\ OldCopies
            /\ e[0] > 0 /\ Later(e, edge) /\ Later(f, edge) /\ (Later(e, f) \/ Later(f, e))
            /\ SamePages(e, edge) /\ SamePages(f, edge)
            /\ main = e
            /\ \E held \in 0..MaxPages :
                 page = [b \in Pages |-> IF b \in Listed(f) /\ b <= held
                                         THEN PageCopy(f, b, NoList) ELSE NoPage]
    /\ fetched = FALSE
    /\ place = "idle" /\ purpose = "filings" /\ due = FALSE /\ fill = FALSE
    /\ next = 1 /\ again = FALSE /\ stale = FALSE /\ mixed = FALSE

ListSpec == ListInit /\ [][ListNext]_listVars

-------------------------------------------------------------------------------
(* Properties *)

Points == {"idle", "main", "list", "first", "tag-first", "top", "pages",
           "tag-pages", "rest", "done"}
PageCopies == [hi : 0..MaxFilings, lo : 0..MaxFilings, tag : Edges]

(* Every variable has its type. *)
ListTypeOK ==
    /\ edge \in Edges
    /\ main \in Edges
    /\ page \in [Pages -> PageCopies]
    /\ fetched \in BOOLEAN /\ due \in BOOLEAN /\ fill \in BOOLEAN
    /\ again \in BOOLEAN /\ stale \in BOOLEAN /\ mixed \in BOOLEAN
    /\ place \in Points
    /\ purpose \in {"filings", "profile"}
    /\ next \in 1..MaxPages + 1
    /\ place \in {"tag-first", "tag-pages"} => next \in Pages

(* The cached copies of the main file and of every page it lists hold filing f. *)
Holds(f) ==
    \/ main[1] < f /\ f <= main[0]
    \/ \E b \in Listed(main) : Cached(b) /\ page[b].lo < f /\ f <= page[b].hi

Whole == \A f \in 1..main[0] : Holds(f)

(* recent_filings: every filing of the issuer up to the main copy's moment is in an answer
   the sequential pass got without a stale read being counted, wherever runs stopped and
   fetches failed before, unless the copies are mixed: since the main file was fetched a
   second pass was cut, or a page EDGAR added was overlooked. *)
UnflaggedReadIsWhole ==
    (place = "done" /\ purpose = "filings" /\ ~fill /\ ~stale /\ ~mixed) => Whole

(* submissions: a main file fetched again for its profile alone never leaves
   the cache with a page of its list and a filing in neither copy; mixed as above. *)
RefreshLeavesOneList ==
    (/\ place = "done" /\ purpose = "profile" /\ ~fill /\ ~stale /\ ~mixed
     /\ due /\ \E b \in Listed(main) : Cached(b)) => Whole

(* _whole_list: "copies fetched in that order can hold a filing twice and never lose one",
   mixed or not. *)
NoFilingIsLost ==
    (place = "done" /\ purpose = "filings" /\ ~fill /\ ~stale) => Whole

-------------------------------------------------------------------------------
(* Why it holds. *)

(* Each copy is of a moment no later than now, and a page fetched under a main
   copy, this one or an earlier one, is of no earlier moment than it. *)
Dated ==
    /\ Later(main, edge)
    /\ \A b \in Pages :
         /\ page[b].hi <= edge[b] /\ page[b].lo <= edge[b + 1]
         /\ page[b].tag # NoList => (/\ Later(page[b].tag, main)
                                    /\ page[b].hi >= page[b].tag[b]
                                    /\ page[b].lo >= page[b].tag[b + 1])

(* The cached pages are the newest ones, and every page before the read's place
   is cached. *)
Prefix ==
    /\ \A a, b \in Pages : (a < b /\ Cached(b)) => Cached(a)
    /\ place \in {"first", "tag-first", "pages", "tag-pages", "rest"} =>
         (\A b \in Pages : b < next => Cached(b))
    /\ place \in {"main", "list"} => next = 1
    /\ place = "tag-first" => (\A b \in Pages : b > next => ~Cached(b))

(* Two neighbouring pages of the cached main copy lose nothing between them,
   but for the place a second fetch of the pages has come to. *)
Chained ==
    /\ \A b, c \in Listed(main) :
         (/\ c = b + 1 /\ ~mixed /\ main # NoList /\ page[b].tag = main /\ page[c].tag = main
          /\ ~(place = "pages" /\ c = next)) => page[b].lo <= page[c].hi
    /\ place \in {"tag-first", "tag-pages"} =>
         /\ next \in Listed(main) /\ page[next].tag = NoList
         /\ page[next].hi >= main[next] /\ page[next].lo >= main[next + 1]
         /\ (next > 1 => page[next - 1].lo <= page[next].hi)

(* The oldest listed page ends the list, or it is short of its count and will not be taken
   for a page of this main copy: it is not tagged, or the list is about to be fetched again. *)
Ends ==
    \A b \in Listed(main) :
        (~mixed /\ b + 1 \notin Listed(main) /\ page[b].lo > 0) =>
            /\ Rows(page[b]) < Count(main, b)
            /\ \/ page[b].tag # main
               \/ place = "pages" /\ next = b + 1 /\ ~again
               \/ place = "top" /\ again
            /\ ~(place = "tag-first" /\ next = b)
            /\ ~(place = "tag-pages" /\ next = b /\ again)

(* What an unflagged answer rests on. *)
Judged ==
    /\ place \in {"pages", "tag-first", "tag-pages"} => fetched
    /\ (place \in {"pages", "tag-pages"} /\ ~stale) =>
         (\A b \in Listed(main) : b < next => page[b].tag = main)
    /\ place = "rest" => stale
    /\ fill => place \in {"idle", "main", "list", "first", "tag-first", "done"}
    /\ (/\ place = "done" /\ ~fill /\ ~stale
        /\ purpose = "filings" \/ (due /\ (\E b \in Listed(main) : Cached(b)))) => OneList

(* The cached copies are in order: the invariant UnflaggedReadIsWhole and
   RefreshLeavesOneList rest on. *)
CopiesInOrder == Dated /\ Prefix /\ Chained /\ Ends /\ Judged
===============================================================================
