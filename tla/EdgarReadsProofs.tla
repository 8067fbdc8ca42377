--------------------------- MODULE EdgarReadsProofs ---------------------------
(* What the EDGAR client and the issuer record keep, for every value of the constants.
   The copies of a filing list that were not mixed are one list, so an unflagged answer
   holds every filing; the record's memory is never newer than the
   cache, and what it remembers of the list is what the client would read, so an answer
   that is not flagged is as fresh as asked; and a kept answer of a search hides no
   filing longer than it holds. *)
EXTENDS FilingList, IssuerRecord, EdgarSearches, WellFoundedInduction, TLAPS

-------------------------------------------------------------------------------
(* The least-number principle for sets of naturals, with no operator for the
   provers to instantiate. *)

Less == {ss \in Nat \X Nat : ss[1] < ss[2]}

(* The order of the naturals is well founded. *)
LEMMA LessIsWellFounded == IsWellFoundedOn(Less, Nat)
BY NatLessThanWellFounded DEF OpToRel, Less

(* A set of naturals that is not empty has a least element. *)
LEMMA LeastNatural ==
    ASSUME NEW T \in SUBSET Nat, T # {}
    PROVE  \E x \in T : \A y \in T : x <= y
<1>1. PICK x \in T : \A y \in T : <<y, x>> \notin Less
  BY LessIsWellFounded, WFMin
<1>2. \A y \in T : ~(y < x)
  BY <1>1 DEF Less
<1> QED
  BY <1>2

(* A set of naturals with an upper bound has a greatest element. *)
LEMMA GreatestNatural ==
    ASSUME NEW n \in Nat, NEW T \in SUBSET (0..n), T # {}
    PROVE  \E x \in T : \A y \in T : y <= x
<1> DEFINE U == {m \in 0..n : n - m \in T}
<1>1. PICK t \in T : TRUE
  OBVIOUS
<1>2. t \in 0..n /\ n - (n - t) = t /\ n - t \in 0..n
  BY <1>1
<1>3. n - t \in U
  BY <1>1, <1>2
<1>4. PICK u \in U : \A v \in U : u <= v
  <2>1. U \in SUBSET Nat /\ U # {}
    BY <1>3
  <2> HIDE DEF U
  <2> QED
    BY <2>1, LeastNatural
<1>5. \A y \in T : y \in 0..n /\ n - y \in U
  <2> TAKE y \in T
  <2>1. y \in 0..n /\ n - (n - y) = y /\ n - y \in 0..n
    OBVIOUS
  <2> QED
    BY <2>1
<1>6. \A y \in T : y <= n - u
  <2> TAKE y \in T
  <2>1. u <= n - y /\ u \in 0..n /\ y \in 0..n
    BY <1>4, <1>5
  <2> QED
    BY <2>1
<1> QED
  BY <1>4, <1>6

-------------------------------------------------------------------------------

(* The places a copy of a list can come from have the shape of a list. *)
LEMMA NoListIsEdges == NoList \in Edges
BY FilingListAssumption DEF NoList, Edges, IsEdges, Blocks

LEMMA EdgesType ==
    ASSUME NEW e \in Edges
    PROVE  /\ e \in [Blocks -> 0..MaxFilings]
           /\ \A b \in Blocks : e[b] \in 0..MaxFilings
           /\ e[MaxPages + 1] = 0
           /\ \A a, b \in Blocks : a <= b => e[b] <= e[a]
           /\ Listed(e) \subseteq Pages
BY FilingListAssumption DEF Edges, IsEdges, Listed, Blocks

LEMMA PageCopyType ==
    ASSUME NEW e \in Edges, NEW b \in Pages, NEW t \in Edges
    PROVE  PageCopy(e, b, t) \in PageCopies
<1>1. b \in Blocks /\ b + 1 \in Blocks
  BY FilingListAssumption DEF Pages, Blocks
<1> QED
  BY <1>1, EdgesType DEF PageCopy, PageCopies

LEMMA BlockFacts ==
    /\ Pages \subseteq Blocks /\ 0 \in Blocks /\ 1 \in Pages
    /\ \A b \in Pages : b \in Nat /\ b >= 1 /\ b + 1 \in Blocks
    /\ Blocks \subseteq Nat
BY FilingListAssumption DEF Pages, Blocks

LEMMA ListedIsPrefix ==
    ASSUME NEW e \in Edges, NEW a \in Pages, NEW b \in Listed(e), a <= b
    PROVE  a \in Listed(e)
<1>1. a \in Blocks /\ b \in Blocks /\ e[a] \in Nat /\ e[b] \in Nat /\ e[b] <= e[a] /\ e[b] > 0
  BY EdgesType, BlockFacts DEF Listed
<1> QED
  BY <1>1 DEF Listed

LEMMA NoListFacts ==
    /\ \A b \in Blocks : NoList[b] = 0
    /\ Listed(NoList) = {}
    /\ \A e \in Edges : Later(NoList, e) /\ SamePages(NoList, e)
<1>1. \A b \in Blocks : NoList[b] = 0
  BY DEF NoList
<1>2. Listed(NoList) = {}
  <2>1. \A b \in Pages : ~(NoList[b] > 0)
    BY <1>1, BlockFacts
  <2> QED
    BY <2>1 DEF Listed
<1>3. ASSUME NEW e \in Edges PROVE Later(NoList, e)
  <2>1. \A b \in Blocks : e[b] \in 0..MaxFilings
    BY EdgesType
  <2> QED
    BY <1>1, <2>1, FilingListAssumption DEF Later
<1> QED
  BY <1>1, <1>2, <1>3 DEF SamePages

(* The initial states and every step are of the right type. *)
LEMMA InitTypeOK == ListInit => ListTypeOK
<1> SUFFICES ASSUME ListInit PROVE ListTypeOK
  OBVIOUS
<1>1. \A e \in Edges, b \in Pages : PageCopy(e, b, NoList) \in PageCopies
  BY PageCopyType, NoListIsEdges
<1>2. NoPage \in PageCopies
  BY NoListIsEdges, FilingListAssumption DEF NoPage, PageCopies
<1>3. main \in Edges /\ page \in [Pages -> PageCopies]
  BY <1>1, <1>2, NoListIsEdges DEF ListInit
<1>4. /\ edge \in Edges /\ fetched \in BOOLEAN /\ due \in BOOLEAN /\ fill \in BOOLEAN
      /\ again \in BOOLEAN /\ stale \in BOOLEAN /\ mixed \in BOOLEAN /\ place \in Points
      /\ purpose \in {"filings", "profile"}
      /\ next \in 1..MaxPages + 1 /\ place = "idle"
  <2>1. 1 \in 1..MaxPages + 1
    BY FilingListAssumption
  <2> QED
    BY <2>1 DEF ListInit, Points
<1> QED
  BY <1>3, <1>4 DEF ListTypeOK

LEMMA NextTypeOK == ListTypeOK /\ [ListNext]_listVars => ListTypeOK'
<1> SUFFICES ASSUME ListTypeOK, [ListNext]_listVars PROVE ListTypeOK'
  OBVIOUS
<1> USE DEF ListTypeOK
<1>1. CASE NewFiling
  BY <1>1 DEF NewFiling
<1>2. CASE StartRead
  <2>1. next' \in 1..MaxPages + 1
    BY <1>2, FilingListAssumption DEF StartRead
  <2>2. place' = "main" /\ place' \in Points
    BY <1>2 DEF StartRead, Points
  <2> QED
    BY <1>2, <2>1, <2>2 DEF StartRead
<1>3. CASE ReadMain
  BY <1>3 DEF ReadMain, Goto, Points
<1>4. CASE FetchMain
  BY <1>4 DEF FetchMain, Points
<1>5. CASE FetchMainFails
  BY <1>5 DEF FetchMainFails, client, Points
<1>6. CASE StartList
  BY <1>6 DEF StartList, Goto, Points
<1>7. CASE ReadPage
  BY <1>7, FilingListAssumption DEF ReadPage, client, Listed, Pages
<1>8. CASE FetchPage
  <2>1. next \in Pages
    BY <1>8 DEF FetchPage, Listed
  <2>2. PageCopy(edge, next, NoList) \in PageCopies
    BY <2>1, PageCopyType, NoListIsEdges
  <2>3. page' \in [Pages -> PageCopies]
    BY <1>8, <2>2 DEF FetchPage
  <2>4. next' \in 1..MaxPages + 1 /\ place' \in Points
    BY <1>8, <2>1, FilingListAssumption DEF FetchPage, Tagging, Points, Pages
  <2> QED
    BY <1>8, <2>3, <2>4 DEF FetchPage, client
<1>9. CASE TagPage
  <2>1. next \in Pages /\ page[next] \in PageCopies
    BY <1>9 DEF TagPage, Tagging
  <2>2. [page[next] EXCEPT !.tag = main] \in PageCopies
    BY <2>1 DEF PageCopies
  <2>3. page' \in [Pages -> PageCopies]
    BY <1>9, <2>1, <2>2 DEF TagPage
  <2>4. next' \in 1..MaxPages + 1 /\ place' \in {"first", "pages"}
    BY <1>9, <2>1, FilingListAssumption DEF TagPage, Pages
  <2> QED
    BY <1>9, <2>3, <2>4 DEF TagPage, client, Points
<1>10. CASE FetchPageFails
  BY <1>10, FilingListAssumption DEF FetchPageFails, client, Listed, Pages, Points
<1>11. CASE Judge
  BY <1>11 DEF Judge, Goto, Points
<1>12. CASE KeepMain
  BY <1>12, FilingListAssumption DEF KeepMain, client, Points
<1>13. CASE RefetchMain
  <2>1. next' \in 1..MaxPages + 1
    BY <1>13, FilingListAssumption DEF RefetchMain
  <2>2. place' = "pages" /\ place' \in Points
    BY <1>13 DEF RefetchMain, Points
  <2> QED
    BY <1>13, <2>1, <2>2 DEF RefetchMain
<1>14. CASE RefetchMainFails
  BY <1>14, FilingListAssumption DEF RefetchMainFails, client, Points
<1>15. CASE EndPages
  BY <1>15 DEF EndPages, client, Points
<1>16. CASE EndRest \/ Return
  BY <1>16 DEF EndRest, Return, Goto, Points
<1>17. CASE EndRun
  BY <1>17 DEF EndRun, Points
<1>18. CASE UNCHANGED listVars
  BY <1>18 DEF listVars
<1> QED
  BY <1>1, <1>2, <1>3, <1>4, <1>5, <1>6, <1>7, <1>8, <1>9, <1>10, <1>11, <1>12,
     <1>13, <1>14, <1>15, <1>16, <1>17, <1>18 DEF ListNext, ClientStep

-------------------------------------------------------------------------------
(* Behind the oldest page a list has, nothing lies. *)
LEMMA LastEdge ==
    ASSUME NEW e \in Edges, NEW b \in Pages, b + 1 \notin Listed(e)
    PROVE  e[b + 1] = 0
<1>1. CASE b + 1 \in Pages
  <2>1. e[b + 1] \in Nat
    BY <1>1, EdgesType, BlockFacts
  <2> QED
    BY <1>1, <2>1 DEF Listed
<1>2. CASE b + 1 \notin Pages
  BY <1>2, EdgesType, FilingListAssumption DEF Pages
<1> QED
  BY <1>1, <1>2

LEMMA InitInOrder == ListInit => CopiesInOrder
<1> SUFFICES ASSUME ListInit PROVE CopiesInOrder
  OBVIOUS
<1>1. edge \in Edges /\ main \in Edges /\ place = "idle"
  BY NoListIsEdges DEF ListInit
<1>2. \E e, f \in Edges :
        /\ Later(f, edge) /\ main = e
        /\ \E held \in 0..MaxPages :
             \A b \in Pages : page[b] = IF b \in Listed(f) /\ b <= held
                                      THEN PageCopy(f, b, NoList) ELSE NoPage
  <2>1. CASE page = [b \in Pages |-> NoPage]
    <3>1. Later(NoList, edge) /\ 0 \in 0..MaxPages
      BY <1>1, NoListFacts, FilingListAssumption
    <3>2. \A b \in Pages : page[b] = IF b \in Listed(NoList) /\ b <= 0
                                     THEN PageCopy(NoList, b, NoList) ELSE NoPage
      BY <2>1, NoListFacts
    <3> QED
      BY <1>1, <3>1, <3>2, NoListIsEdges
  <2> QED
    BY <2>1 DEF ListInit
<1>3. PICK f \in Edges, held \in 0..MaxPages :
        /\ Later(f, edge)
        /\ \A b \in Pages : page[b] = IF b \in Listed(f) /\ b <= held
                                 THEN PageCopy(f, b, NoList) ELSE NoPage
  BY <1>2
<1>4. Dated
  <2>1. Later(main, edge)
    <3>1. CASE main = NoList
      BY <1>1, <3>1, NoListFacts
    <3> QED
      BY <3>1 DEF ListInit
  <2>2. ASSUME NEW b \in Pages
        PROVE  page[b].tag = NoList /\ page[b].hi <= edge[b] /\ page[b].lo <= edge[b + 1]
    <3>1. /\ b \in Blocks /\ b + 1 \in Blocks /\ edge[b] \in Nat /\ edge[b + 1] \in Nat
          /\ f[b] <= edge[b] /\ f[b + 1] <= edge[b + 1]
      BY <1>1, <1>3, EdgesType, BlockFacts DEF Later
    <3>2. page[b] = PageCopy(f, b, NoList) \/ page[b] = NoPage
      BY <1>3
    <3> QED
      BY <3>1, <3>2 DEF PageCopy, NoPage
  <2> QED
    BY <2>1, <2>2 DEF Dated
<1>5. Prefix
  <2>1. \A b \in Pages : Cached(b) <=> b \in Listed(f) /\ b <= held
    <3>1. \A b \in Listed(f) : PageCopy(f, b, NoList) # NoPage
      BY EdgesType DEF PageCopy, NoPage, Listed
    <3> QED
      BY <1>3, <3>1 DEF Cached
  <2>2. \A a \in Pages, b \in Listed(f) : a < b => a \in Listed(f)
    <3>1. \A a, b \in Pages : a < b => a <= b
      BY BlockFacts
    <3> QED
      BY <3>1, ListedIsPrefix, EdgesType
  <2> QED
    <3>1. \A a, b \in Pages : (a < b /\ Cached(b)) => Cached(a)
      BY <2>1, <2>2, BlockFacts
    <3> QED
      BY <1>1, <3>1 DEF Prefix
<1>6. Chained
  <2>1. \A b \in Pages : page[b].tag = NoList
    <3>1. \A b \in Pages : page[b] = PageCopy(f, b, NoList) \/ page[b] = NoPage
      BY <1>3
    <3>2. \A b \in Pages : PageCopy(f, b, NoList).tag = NoList /\ NoPage.tag = NoList
      BY DEF PageCopy, NoPage
    <3> QED
      BY <3>1, <3>2
  <2> QED
    BY <1>1, <2>1 DEF Chained, Listed
<1>7. Ends
  <2> SUFFICES ASSUME NEW b \in Listed(main), b + 1 \notin Listed(main), page[b].lo > 0
               PROVE  FALSE
    BY DEF Ends
  <2>1. Listed(edge) = Listed(main)
    <3>1. main # NoList
      BY NoListFacts
    <3> QED
      BY <3>1 DEF ListInit, SamePages
  <2>2. b \in Pages /\ edge[b + 1] = 0
    BY <1>1, <2>1, LastEdge DEF Listed
  <2>3. page[b].lo <= 0 /\ page[b].lo \in Nat
    <3>1. page[b] \in PageCopies
      BY <2>2, InitTypeOK DEF ListTypeOK
    <3> QED
      BY <1>4, <2>2, <3>1 DEF Dated, PageCopies
  <2> QED
    BY <2>3
<1>8. Judged
  BY <1>1 DEF ListInit, Judged
<1> QED
  BY <1>4, <1>5, <1>6, <1>7, <1>8 DEF CopiesInOrder

LEMMA NextDated == ListTypeOK /\ CopiesInOrder /\ [ListNext]_listVars => Dated'
<1> SUFFICES ASSUME ListTypeOK, Dated, Prefix, Chained, Ends, Judged, [ListNext]_listVars
             PROVE  Dated'
  BY DEF CopiesInOrder
<1>1. CASE NewFiling
  BY <1>1, BlockFacts, EdgesType DEF NewFiling, ListTypeOK, Dated, Later, PageCopies
<1>2. CASE FetchMain \/ RefetchMain
  BY <1>2, BlockFacts, EdgesType DEF FetchMain, RefetchMain, ListTypeOK, Dated, Later, PageCopies
<1>3. CASE FetchPage
  BY <1>3, BlockFacts, EdgesType DEF FetchPage, ListTypeOK, Dated, PageCopy, Listed
<1>4. CASE TagPage
  BY <1>4, BlockFacts, EdgesType DEF TagPage, Tagging, ListTypeOK, Dated, Later, PageCopies, Chained
<1>5. CASE UNCHANGED <<edge, main, page>>
  BY <1>5 DEF Dated
<1> QED
  BY <1>1, <1>2, <1>3, <1>4, <1>5
  DEF ListNext, ClientStep, StartRead, ReadMain, FetchMainFails, StartList, ReadPage,
      FetchPageFails, Judge, KeepMain, RefetchMainFails, EndPages, EndRest, Return,
      EndRun, Goto, client, listVars

LEMMA NextPrefix == ListTypeOK /\ CopiesInOrder /\ [ListNext]_listVars => Prefix'
<1> SUFFICES ASSUME ListTypeOK, Dated, Prefix, Chained, Ends, Judged, [ListNext]_listVars
             PROVE  Prefix'
  BY DEF CopiesInOrder
<1>1. CASE FetchPage
  <2>1. /\ next \in Pages /\ next \in Nat
        /\ \A b \in Pages : b < next => Cached(b)
    BY <1>1, BlockFacts DEF FetchPage, Prefix, Listed
  <2>2. /\ page'[next] = PageCopy(edge, next, NoList)
        /\ \A b \in Pages : b # next => page'[b] = page[b]
    BY <1>1, <2>1 DEF FetchPage, ListTypeOK
  <2>3. page'[next] # NoPage
    <3>1. main[next] > 0 /\ main[next] <= edge[next] /\ main[next] \in Nat /\ edge[next] \in Nat
      BY <1>1, <2>1, EdgesType, BlockFacts DEF FetchPage, Listed, Dated, Later, ListTypeOK
    <3> QED
      BY <2>2, <3>1 DEF PageCopy, NoPage
  <2>4. \A b \in Pages : Cached(b)' <=> (b = next \/ Cached(b))
    BY <2>2, <2>3 DEF Cached
  <2>5. \A b \in Pages : place = "first" => (b > next => ~Cached(b))
    BY <1>1, <2>1, BlockFacts DEF FetchPage, Prefix
  <2>6. next' \in {next, next + 1} /\ (place' = "tag-first" => place = "first" /\ next' = next)
    BY <1>1 DEF FetchPage, Tagging
  <2>7. place' \notin {"main", "list"}
    BY <1>1 DEF FetchPage, Tagging
  <2> QED
    BY <2>1, <2>4, <2>5, <2>6, <2>7, BlockFacts DEF Prefix
<1>2. CASE TagPage
  <2>1. /\ next \in Pages /\ next \in Nat /\ page[next].hi >= main[next] /\ main[next] > 0
        /\ main[next] \in Nat /\ page[next] \in PageCopies
        /\ \A b \in Pages : b < next => Cached(b)
    BY <1>2, BlockFacts, EdgesType DEF TagPage, Tagging, ListTypeOK, Chained, Listed, Prefix
  <2>2. /\ page'[next].hi = page[next].hi
        /\ \A b \in Pages : b # next => page'[b] = page[b]
    BY <1>2, <2>1 DEF TagPage, ListTypeOK, PageCopies
  <2>3. page[next].hi > 0
    BY <2>1 DEF PageCopies
  <2>4. \A b \in Pages : Cached(b)' <=> Cached(b)
    BY <2>2, <2>3 DEF Cached, NoPage
  <2>5. Cached(next)
    BY <2>3 DEF Cached, NoPage
  <2>6. next' = next + 1 /\ place' \in {"first", "pages"}
    BY <1>2 DEF TagPage
  <2>7. \A b \in Pages : b < next' => Cached(b)
    <3> TAKE b \in Pages
    <3>1. HAVE b < next'
    <3>2. b < next \/ b = next
      BY <2>1, <2>6, <3>1, BlockFacts
    <3> QED
      BY <2>1, <2>5, <3>2
  <2>8. \A a, b \in Pages : (a < b /\ Cached(b)) => Cached(a)
    BY DEF Prefix
  <2>9. /\ \A b \in Pages : b < next' => Cached(b)'
        /\ \A a, b \in Pages : (a < b /\ Cached(b)') => Cached(a)'
    BY <2>4, <2>7, <2>8
  <2> QED
    BY <2>6, <2>9 DEF Prefix
<1>3. CASE ReadPage \/ FetchPageFails
  BY <1>3, BlockFacts DEF ReadPage, FetchPageFails, ListTypeOK, Prefix, Cached, Listed, client
<1>4. CASE UNCHANGED <<place, next, page>>
  BY <1>4 DEF Prefix, Cached
<1>5. CASE /\ page' = page
           /\ \/ next' = 1 /\ place' # "tag-first"
              \/ place' \in {"idle", "done", "top"}
  BY <1>5, BlockFacts DEF Prefix, Cached
<1>6. CASE /\ page' = page /\ place \in {"main", "list"} /\ next' = next /\ place' # "tag-first"
  BY <1>6, BlockFacts DEF Prefix, Cached
<1> QED
  BY <1>1, <1>2, <1>3, <1>4, <1>5, <1>6
  DEF ListNext, ClientStep, NewFiling, StartRead, ReadMain, FetchMain, FetchMainFails, StartList,
      Judge, KeepMain, RefetchMain, RefetchMainFails, EndPages, EndRest, Return,
      EndRun, Goto, client, listVars

LEMMA NextChained == ListTypeOK /\ CopiesInOrder /\ [ListNext]_listVars => Chained'
<1> SUFFICES ASSUME ListTypeOK, Dated, Prefix, Chained, Ends, Judged, [ListNext]_listVars
             PROVE  Chained'
  BY DEF CopiesInOrder
<1>1. CASE FetchMain \/ RefetchMain
  <2>1. main' = edge /\ page' = page /\ place' \in {"list", "done", "pages"}
    BY <1>1 DEF FetchMain, RefetchMain
  <2>2. ASSUME NEW b \in Listed(edge), NEW c \in Listed(edge), c = b + 1, edge # NoList,
               page[b].tag = edge, page[c].tag = edge
        PROVE  page[b].lo <= page[c].hi
    <3>1. page[b].lo <= edge[c] /\ page[c].hi >= edge[c]
      BY <2>2 DEF Dated, Listed
    <3>2. page[b] \in PageCopies /\ page[c] \in PageCopies /\ edge[c] \in Nat
      BY BlockFacts, EdgesType DEF ListTypeOK, Listed
    <3> QED
      BY <3>1, <3>2 DEF PageCopies
  <2> QED
    BY <2>1, <2>2 DEF Chained
<1>2. CASE FetchPage
  <2>1. /\ next \in Listed(main) /\ next \in Pages /\ next \in Nat /\ main' = main
        /\ page'[next] = PageCopy(edge, next, NoList)
        /\ \A b \in Pages : b # next => page'[b] = page[b]
    BY <1>2, BlockFacts DEF FetchPage, ListTypeOK, Listed
  <2>2. \/ place' = Tagging(place) /\ next' = next
        \/ place' = place /\ place # "pages" /\ place' \notin {"tag-first", "tag-pages"}
    BY <1>2 DEF FetchPage, Judged
  <2>3. ASSUME NEW b \in Listed(main), NEW c \in Listed(main), c = b + 1, ~mixed', main # NoList,
               page'[b].tag = main, page'[c].tag = main
        PROVE  page'[b].lo <= page'[c].hi
    <3>1. ~mixed
      BY <1>2, <2>3 DEF FetchPage
    <3>2. b # next /\ c # next
      BY <2>1, <2>3 DEF PageCopy
    <3>3. place # "pages" \/ c # next
      BY <3>2
    <3> QED
      BY <2>1, <2>3, <3>1, <3>2, <3>3 DEF Chained, Listed
  <2>4. /\ page'[next].tag = NoList
        /\ page'[next].hi >= main[next] /\ page'[next].lo >= main[next + 1]
        /\ next > 1 => page'[next - 1].lo <= page'[next].hi
    <3>1. edge[next] >= main[next] /\ edge[next + 1] >= main[next + 1]
      BY <2>1, BlockFacts, EdgesType DEF Dated, Later, ListTypeOK
    <3>2. next > 1 => next - 1 \in Pages /\ (next - 1) + 1 = next
      BY <2>1, FilingListAssumption DEF Pages
    <3>3. next > 1 => page[next - 1].lo <= edge[next]
      BY <3>2 DEF Dated
    <3>4. next > 1 => page'[next - 1] = page[next - 1]
      BY <2>1, <3>2
    <3> QED
      BY <2>1, <3>1, <3>3, <3>4 DEF PageCopy
  <2> QED
    BY <2>1, <2>2, <2>3, <2>4 DEF Chained
<1>3. CASE TagPage
  <2>1. /\ next \in Listed(main) /\ next \in Pages /\ next \in Nat /\ main' = main
        /\ page'[next].hi = page[next].hi /\ page'[next].lo = page[next].lo
        /\ \A b \in Pages : b # next => page'[b] = page[b]
        /\ next > 1 => page[next - 1].lo <= page[next].hi
        /\ mixed' = mixed
    BY <1>3, BlockFacts DEF TagPage, Tagging, ListTypeOK, Listed, Chained, PageCopies
  <2>2. /\ next' = next + 1
        /\ \/ place' = "first" /\ place = "tag-first"
           \/ place' = "pages" /\ place = "tag-pages"
    BY <1>3 DEF TagPage, Tagging
  <2>3. ASSUME NEW b \in Listed(main), NEW c \in Listed(main), c = b + 1, ~mixed, main # NoList,
               page'[b].tag = main, page'[c].tag = main, ~(place' = "pages" /\ c = next')
        PROVE  page'[b].lo <= page'[c].hi
    <3>1. b \in Pages /\ c \in Pages /\ b \in Nat /\ b >= 1
      BY BlockFacts DEF Listed
    <3>2. CASE b = next
      <4>1. place = "tag-first" /\ ~Cached(c)
        BY <2>2, <2>3, <3>1, <3>2 DEF Prefix
      <4>2. page'[c] = NoPage
        BY <2>1, <2>3, <3>1, <3>2, <4>1 DEF Cached
      <4> QED
        BY <2>3, <4>2 DEF NoPage
    <3>3. CASE c = next
      BY <2>1, <2>3, <3>1, <3>3
    <3>4. CASE b # next /\ c # next
      BY <2>1, <2>2, <2>3, <3>1, <3>4 DEF Chained
    <3> QED
      BY <3>2, <3>3, <3>4
  <2> QED
    BY <2>1, <2>2, <2>3 DEF Chained
<1>4. CASE FetchPageFails \/ EndRun
  <2>1. /\ page' = page /\ main' = main /\ place' \in {"first", "rest", "pages", "idle"}
        /\ ~mixed' => (~mixed /\ ~Cut)
    BY <1>4 DEF FetchPageFails, EndRun
  <2>2. ASSUME NEW b \in Listed(main), NEW c \in Listed(main), c = b + 1, ~mixed', main # NoList,
               page[b].tag = main, page[c].tag = main
        PROVE  page[b].lo <= page[c].hi
    <3>1. ~mixed /\ ~Cut /\ b >= 1 /\ b \in Nat
      BY <2>1, <2>2, BlockFacts DEF Listed
    <3>2. ~(place = "pages" /\ c = next)
      BY <2>2, <3>1 DEF Cut
    <3> QED
      BY <2>2, <3>1, <3>2 DEF Chained
  <2> QED
    BY <2>1, <2>2 DEF Chained
<1>5. CASE EndPages
  BY <1>5 DEF EndPages, Chained
<1>6. CASE UNCHANGED <<place, next, page, main, mixed>>
  BY <1>6 DEF Chained, Listed
<1>7. CASE /\ UNCHANGED <<page, main>> /\ (~mixed' => ~mixed)
           /\ place # "pages" /\ place' \notin {"tag-first", "tag-pages"}
  BY <1>7 DEF Chained, Listed
<1>8. CASE NewFiling \/ UNCHANGED listVars
  BY <1>6, <1>8 DEF NewFiling, listVars
<1>9. CASE StartRead \/ ReadMain \/ FetchMainFails \/ StartList \/ ReadPage
  BY <1>7, <1>9 DEF StartRead, ReadMain, FetchMainFails, StartList, ReadPage, Goto, client
<1>10. CASE Judge \/ KeepMain \/ RefetchMainFails \/ EndRest \/ Return
  BY <1>7, <1>10 DEF Judge, KeepMain, RefetchMainFails, EndRest, Return, Goto, client
<1> QED
  BY <1>1, <1>2, <1>3, <1>4, <1>5, <1>8, <1>9, <1>10 DEF ListNext, ClientStep

LEMMA NextEnds == ListTypeOK /\ CopiesInOrder /\ [ListNext]_listVars => Ends'
<1> SUFFICES ASSUME ListTypeOK, Dated, Prefix, Chained, Ends, Judged, [ListNext]_listVars
             PROVE  Ends'
  BY DEF CopiesInOrder
<1>1. CASE FetchMain \/ RefetchMain
  <2>1. main' = edge /\ page' = page
    BY <1>1 DEF FetchMain, RefetchMain
  <2>2. ASSUME NEW b \in Listed(edge), b + 1 \notin Listed(edge)
        PROVE  ~(page[b].lo > 0)
    <3>1. b \in Pages /\ edge[b + 1] = 0 /\ page[b] \in PageCopies
      BY <2>2, LastEdge DEF Listed, ListTypeOK
    <3> QED
      BY <3>1 DEF Dated, PageCopies
  <2> QED
    BY <2>1, <2>2 DEF Ends
<1>2. CASE FetchPage
  <2>1. /\ next \in Listed(main) /\ next \in Pages /\ main' = main /\ again' = again
        /\ place \in {"first", "pages", "rest"} /\ place' \in {place, Tagging(place)}
        /\ place' # place => next' = next
        /\ page'[next] = PageCopy(edge, next, NoList)
        /\ \A b \in Pages : b # next => page'[b] = page[b]
        /\ ~mixed' => (~mixed /\ ~Overlooked)
    BY <1>2 DEF FetchPage, ListTypeOK, Listed
  <2> SUFFICES ASSUME NEW b \in Listed(main), ~mixed', b + 1 \notin Listed(main), page'[b].lo > 0
               PROVE  /\ Rows(page'[b]) < Count(main, b)
                      /\ page'[b].tag # main
                      /\ ~(place' = "tag-first" /\ next' = b)
                      /\ ~(place' = "tag-pages" /\ next' = b /\ again')
    BY <2>1 DEF Ends
  <2>2. CASE b = next
    <3>1. edge[b + 1] > 0 /\ b + 1 \in Listed(edge)
      <4>1. edge[b + 1] > 0
        BY <2>1, <2>2 DEF PageCopy
      <4> QED
        BY <2>1, <2>2, <4>1, LastEdge DEF ListTypeOK
    <3>2. place # "first" /\ ~again /\ ~(Count(edge, b) >= Count(main, b))
      BY <2>1, <2>2, <3>1 DEF Overlooked
    <3>3. Rows(page'[b]) = Count(edge, b) /\ page'[b].tag = NoList
      BY <2>1, <2>2 DEF PageCopy, Rows, Count
    <3>4. Count(edge, b) \in Int /\ Count(main, b) \in Int
      BY <2>1, <2>2, BlockFacts, EdgesType DEF Count, ListTypeOK
    <3>5. main # NoList
      BY NoListFacts
    <3> QED
      BY <2>1, <3>2, <3>3, <3>4, <3>5 DEF Tagging
  <2>3. CASE b # next
    <3>1. b \in Pages /\ page'[b] = page[b] /\ next # b + 1
      BY <2>1, <2>3 DEF Listed
    <3>2. Rows(page[b]) < Count(main, b) /\ page[b].tag # main
      BY <2>1, <3>1 DEF Ends
    <3> QED
      BY <2>1, <2>3, <3>1, <3>2 DEF Tagging
  <2> QED
    BY <2>2, <2>3
<1>3. CASE TagPage
  <2>1. /\ next \in Pages /\ main' = main /\ again' = again /\ mixed' = mixed
        /\ page'[next].hi = page[next].hi /\ page'[next].lo = page[next].lo
        /\ \A b \in Pages : b # next => page'[b] = page[b]
        /\ next' = next + 1
        /\ \/ place' = "first" /\ place = "tag-first"
           \/ place' = "pages" /\ place = "tag-pages"
    BY <1>3 DEF TagPage, Tagging, ListTypeOK, PageCopies
  <2>2. \A b \in Pages : Rows(page'[b]) = Rows(page[b]) /\ page'[b].lo = page[b].lo
    BY <2>1 DEF Rows
  <2> QED
    BY <2>1, <2>2 DEF Ends, Listed
<1>4. CASE EndPages
  <2>1. /\ UNCHANGED <<main, page, mixed>> /\ place = "pages"
        /\ IF OldestIsShort /\ ~again THEN place' = "top" /\ again' = TRUE
                                     ELSE place' = "done" /\ again' = again
    BY <1>4 DEF EndPages
  <2>2. ASSUME NEW b \in Listed(main), b + 1 \notin Listed(main), Rows(page[b]) < Count(main, b)
        PROVE  OldestIsShort
    BY <2>2 DEF OldestIsShort
  <2> QED
    BY <2>1, <2>2 DEF Ends
<1>5. CASE EndRun \/ FetchPageFails \/ RefetchMainFails
  <2>1. /\ UNCHANGED <<main, page>> /\ (~mixed' => (~mixed /\ ~Cut))
        /\ place' \in {"idle", "first", "pages", "rest", "done"}
    BY <1>5 DEF EndRun, FetchPageFails, RefetchMainFails
  <2>2. ASSUME NEW b \in Listed(main), ~mixed', b + 1 \notin Listed(main), page[b].lo > 0
        PROVE  Rows(page[b]) < Count(main, b) /\ page[b].tag # main
    <3>1. Rows(page[b]) < Count(main, b)
      BY <2>1, <2>2 DEF Ends
    <3>2. OldestIsShort
      BY <2>2, <3>1 DEF OldestIsShort
    <3> QED
      BY <2>1, <2>2, <3>1, <3>2 DEF Ends, Cut
  <2> QED
    BY <2>1, <2>2 DEF Ends
<1>6. CASE KeepMain
  BY <1>6 DEF KeepMain, Ends
<1>7. CASE /\ UNCHANGED <<main, page>> /\ (~mixed' => ~mixed)
           /\ place \notin {"pages", "top"} /\ place' \notin {"tag-first", "tag-pages"}
  BY <1>7 DEF Ends
<1>8. CASE StartRead \/ ReadMain \/ FetchMainFails \/ StartList
  BY <1>7, <1>8 DEF StartRead, ReadMain, FetchMainFails, StartList, Goto
<1>9. CASE ReadPage \/ Judge \/ EndRest \/ Return
  BY <1>7, <1>9 DEF ReadPage, Judge, EndRest, Return, Goto
<1>10. CASE NewFiling \/ UNCHANGED listVars
  BY <1>10 DEF NewFiling, listVars, Ends
<1> QED
  BY <1>1, <1>2, <1>3, <1>4, <1>5, <1>6, <1>8, <1>9, <1>10 DEF ListNext, ClientStep

LEMMA NextJudged == ListTypeOK /\ CopiesInOrder /\ [ListNext]_listVars => Judged'
<1> SUFFICES ASSUME ListTypeOK, Dated, Prefix, Chained, Ends, Judged, [ListNext]_listVars
             PROVE  Judged'
  BY DEF CopiesInOrder
<1>1. CASE FetchPage
  <2>1. /\ next \in Pages /\ next \in Nat
        /\ \A b \in Pages : b # next => page'[b] = page[b]
    <3>1. next \in Pages /\ page' = [page EXCEPT ![next] = PageCopy(edge, next, NoList)]
      BY <1>1 DEF FetchPage, Listed
    <3>2. page \in [Pages -> PageCopies]
      BY DEF ListTypeOK
    <3> QED
      BY <3>1, <3>2, BlockFacts
  <2>2. \A b \in Listed(main) : b < next => page'[b] = page[b]
    <3>1. \A b \in Pages : b < next => b # next
      BY <2>1, BlockFacts
    <3> QED
      BY <2>1, <3>1 DEF Listed
  <2>3. UNCHANGED <<main, fetched, purpose, due, fill, stale>> /\ place \in {"first", "pages", "rest"}
    BY <1>1 DEF FetchPage, client
  <2>4. \/ fetched /\ place' = Tagging(place) /\ next' = next
           /\ place \in {"first", "pages"}
        \/ place' = place /\ place # "pages"
    BY <1>1 DEF FetchPage, Judged
  <2> QED
    BY <2>2, <2>3, <2>4 DEF Judged, Tagging, Listed
<1>2. CASE TagPage
  <2>1. /\ next \in Pages /\ next \in Nat /\ page'[next].tag = main
        /\ \A b \in Pages : b # next => page'[b] = page[b]
    BY <1>2, BlockFacts DEF TagPage, Tagging, ListTypeOK, PageCopies
  <2>2. /\ UNCHANGED <<main, fetched, purpose, due, fill, stale>> /\ next' = next + 1
        /\ \/ place' = "first" /\ place = "tag-first"
           \/ place' = "pages" /\ place = "tag-pages"
    BY <1>2 DEF TagPage, Tagging, client
  <2>3. \A b \in Listed(main) : b < next + 1 => b < next \/ b = next
    BY <2>1, BlockFacts DEF Listed
  <2> QED
    BY <2>1, <2>2, <2>3 DEF Judged, Listed
<1>3. CASE EndPages
  <2>1. /\ UNCHANGED <<main, page, fetched, purpose, due, fill, stale>>
        /\ place = "pages" /\ place' \in {"top", "done"} /\ next \notin Listed(main)
    BY <1>3 DEF EndPages, client
  <2>2. \A b \in Listed(main) : b < next
    <3> TAKE b \in Listed(main)
    <3>1. CASE next \in Pages
      BY <2>1, <3>1, ListedIsPrefix, BlockFacts DEF ListTypeOK, Listed
    <3>2. CASE next \notin Pages
      BY <3>2, FilingListAssumption DEF ListTypeOK, Pages, Listed
    <3> QED
      BY <3>1, <3>2
  <2>3. ~stale => OneList'
    BY <2>1, <2>2 DEF Judged, OneList, Listed
  <2> QED
    BY <2>1, <2>3 DEF Judged
<1>4. CASE Judge
  BY <1>4 DEF Judge, Goto, Judged, OneList, Listed, Cached, Rows, Count
<1>5. CASE FetchMain \/ RefetchMain
  BY <1>5, BlockFacts DEF FetchMain, RefetchMain, ServesCached, Judged, Listed, Cached, ListTypeOK
<1>6. CASE ReadPage \/ FetchPageFails
  BY <1>6 DEF ReadPage, FetchPageFails, client, Judged, Listed
<1>7. CASE NewFiling \/ UNCHANGED listVars
  BY <1>7 DEF NewFiling, listVars, Judged, OneList, Listed, Cached, Rows, Count
<1>8. CASE StartRead \/ ReadMain \/ StartList \/ Return \/ EndRun
  BY <1>8 DEF StartRead, ReadMain, StartList, Return, EndRun, ServesCached, Goto, Judged
<1>9. CASE FetchMainFails \/ RefetchMainFails \/ EndRest
  BY <1>9 DEF FetchMainFails, RefetchMainFails, EndRest, Goto, client, Judged
<1>10. CASE KeepMain
  <2>1. \A b \in Listed(main) : ~(b < 1)
    BY BlockFacts DEF Listed
  <2>2. ~fill
    BY <1>10 DEF KeepMain, Judged
  <2> QED
    BY <1>10, <2>1, <2>2 DEF KeepMain, client, Judged, Listed
<1> QED
  BY <1>1, <1>2, <1>3, <1>4, <1>5, <1>6, <1>7, <1>8, <1>9, <1>10 DEF ListNext, ClientStep

-------------------------------------------------------------------------------
(* Copies that are one list, of moments in order, hold every filing: the page
   that holds filing f is the last one whose newest row is no older than f. *)
LEMMA OneListIsWhole ==
    ASSUME ListTypeOK, Dated, Chained, Ends, place = "done", ~mixed, OneList
    PROVE  Whole
<1> SUFFICES ASSUME NEW f \in 1..main[0], ~(main[1] < f)
             PROVE  \E b \in Listed(main) : Cached(b) /\ page[b].lo < f /\ f <= page[b].hi
  BY BlockFacts, EdgesType DEF Whole, Holds, ListTypeOK
<1>1. /\ main \in Edges /\ f \in Nat /\ f >= 1 /\ f <= main[1] /\ main[1] \in Nat
      /\ 1 \in Listed(main) /\ main # NoList
  BY BlockFacts, EdgesType, NoListFacts DEF ListTypeOK, Listed
<1>2. \A b \in Listed(main) : /\ b \in Pages /\ page[b].hi \in Nat /\ page[b].lo \in Nat
  BY EdgesType DEF ListTypeOK, PageCopies, Listed
<1>3. \A b \in Listed(main) : b + 1 \notin Listed(main) => page[b].lo = 0
  <2> TAKE b \in Listed(main)
  <2>1. HAVE b + 1 \notin Listed(main)
  <2> SUFFICES ASSUME page[b].lo > 0 PROVE FALSE
    BY <1>2
  <2>2. Rows(page[b]) < Count(main, b) /\ page[b].tag # main
    BY <2>1 DEF Ends
  <2>3. Rows(page[b]) \in Int /\ Count(main, b) \in Int
    <3>1. b \in Blocks /\ b + 1 \in Blocks
      BY <1>2, BlockFacts
    <3>2. main[b] \in 0..MaxFilings /\ main[b + 1] \in 0..MaxFilings
      BY <1>1, <3>1, EdgesType
    <3> QED
      BY <1>2, <3>2 DEF Rows, Count
  <2>4. Rows(page[b]) # Count(main, b)
    BY <2>2, <2>3
  <2> QED
    BY <2>2, <2>4 DEF OneList
<1>4. page[1].hi >= f
  <2>1. CASE \A b \in Listed(main) : page[b].tag = main
    BY <1>1, <1>2, <2>1, BlockFacts DEF Dated
  <2>2. CASE Listed(main) = {1} /\ Rows(page[1]) = Count(main, 1)
    <3>1. page[1].lo = 0 /\ main[1 + 1] = 0
      <4>1. 1 + 1 \notin Listed(main)
        BY <2>2
      <4>2. main[1 + 1] = 0
        <5>1. CASE 1 + 1 \in Pages
          BY <4>1, <5>1, <1>1, EdgesType, BlockFacts DEF Listed
        <5>2. CASE 1 + 1 \notin Pages
          BY <5>2, <1>1, EdgesType, FilingListAssumption DEF Pages
        <5> QED
          BY <5>1, <5>2
      <4> QED
        BY <1>1, <1>3, <4>1, <4>2
    <3> QED
      BY <1>1, <1>2, <2>2, <3>1 DEF Rows, Count
  <2> QED
    BY <2>1, <2>2 DEF OneList
<1> DEFINE T == {b \in Listed(main) : page[b].hi >= f}
<1>5. PICK k \in T : \A b \in T : b <= k
  <2>1. T # {} /\ T \in SUBSET (0..MaxPages) /\ MaxPages \in Nat
    BY <1>1, <1>2, <1>4, FilingListAssumption DEF Pages
  <2> HIDE DEF T
  <2> QED
    BY <2>1, GreatestNatural
<1>6. page[k].lo < f
  <2>1. CASE k + 1 \notin Listed(main)
    BY <1>1, <1>3, <2>1
  <2>2. CASE k + 1 \in Listed(main)
    <3>1. k \in Nat /\ page[k + 1].hi < f
      <4>1. k \in Nat /\ page[k + 1].hi \in Nat /\ ~(k + 1 <= k)
        <5>1. k \in Pages /\ k \in Nat
          BY <1>2, <1>5, BlockFacts
        <5> QED
          BY <1>2, <2>2, <5>1
      <4> QED
        BY <1>1, <1>5, <2>2, <4>1
    <3>2. page[k].tag = main /\ page[k + 1].tag = main
      BY <2>2, <3>1, <1>5 DEF OneList
    <3>3. page[k].lo <= page[k + 1].hi
      BY <1>1, <2>2, <3>2 DEF Chained
    <3> QED
      BY <1>1, <1>2, <2>2, <3>1, <3>3
  <2> QED
    BY <2>1, <2>2
<1>7. Cached(k)
  BY <1>1, <1>5 DEF Cached, NoPage
<1> QED
  BY <1>5, <1>6, <1>7

-------------------------------------------------------------------------------
(* Every variable keeps its type, whatever EDGAR, the network and the runs do. *)
THEOREM ListTypeCorrect == ListSpec => []ListTypeOK
<1>1. ListInit => ListTypeOK
  BY InitTypeOK
<1>2. ListTypeOK /\ [ListNext]_listVars => ListTypeOK'
  BY NextTypeOK
<1> QED
  BY <1>1, <1>2, PTL DEF ListSpec

(* The cached copies stay in order, wherever runs stop and fetches fail: the inductive
   invariant. *)
THEOREM InOrder == ListSpec => []CopiesInOrder
<1>1. ListInit => ListTypeOK /\ CopiesInOrder
  BY InitTypeOK, InitInOrder
<1>2. ListTypeOK /\ CopiesInOrder /\ [ListNext]_listVars => (ListTypeOK /\ CopiesInOrder)'
  BY NextTypeOK, NextDated, NextPrefix, NextChained, NextEnds, NextJudged DEF CopiesInOrder
<1> QED
  BY <1>1, <1>2, PTL DEF ListSpec

(* An unflagged answer holds every filing of the issuer up to the moment of the main file
   it rests on, for any number of pages, unless its copies were mixed. *)
THEOREM UnflaggedIsWhole == ListSpec => []UnflaggedReadIsWhole
<1>1. ListTypeOK /\ CopiesInOrder => UnflaggedReadIsWhole
  BY OneListIsWhole DEF CopiesInOrder, Judged, UnflaggedReadIsWhole
<1> QED
  BY <1>1, ListTypeCorrect, InOrder, PTL

(* And a main file fetched again for the issuer's profile is not left in the cache
   beside pages that lack a filing. *)
THEOREM RefreshIsWhole == ListSpec => []RefreshLeavesOneList
<1>1. ListTypeOK /\ CopiesInOrder => RefreshLeavesOneList
  BY OneListIsWhole DEF CopiesInOrder, Judged, RefreshLeavesOneList
<1> QED
  BY <1>1, ListTypeCorrect, InOrder, PTL

-------------------------------------------------------------------------------
(* The issuer record. *)

USE IssuerRecordAssumption

(* A read of the client leaves a copy fetched by today, and answers from one that
   is fresh enough when it says it is current. *)
LEMMA ReadDays ==
    ASSUME DayTypes, CacheOfToday, NEW fresh \in 0..today, NEW r \in Outcomes,
           ReadSubmissions(fresh, r) \/ ReadList(r)
    PROVE  /\ disk' \in Absent..today /\ disk' >= disk
           /\ own' = TRUE => disk' = today
           /\ r # "failed" => disk' >= 0
           /\ disk' # disk => disk' = today
  BY DEF DayTypes, CacheOfToday, ReadSubmissions, ReadList, Outcomes, cache, Copies, Absent

LEMMA ReadFresh ==
    ASSUME DayTypes, NEW fresh \in 0..today, NEW r \in Outcomes, ReadSubmissions(fresh, r)
    PROVE  r = "current" => disk' >= fresh
  BY DEF DayTypes, ReadSubmissions, Outcomes, cache, Copies, Absent

LEMMA ReadBooleans ==
    ASSUME PointTypes, NEW fresh, NEW r, ReadSubmissions(fresh, r) \/ ReadList(r)
    PROVE  whole' \in BOOLEAN /\ own' \in BOOLEAN /\ torn' \in BOOLEAN
  BY DEF PointTypes, ReadSubmissions, ReadList, cache

-------------------------------------------------------------------------------
(* Types *)

LEMMA PointStep == PointTypes /\ [Next]_vars => PointTypes'
<1> SUFFICES ASSUME PointTypes, [Next]_vars PROVE PointTypes'
  OBVIOUS
<1> USE DEF PointTypes
<1>1. ASSUME NEW fresh \in Fresh, Profile(fresh) \/ RecentDays(fresh) \/ AskFilings(fresh)
      PROVE  PointTypes'
  <2>1. whole' \in BOOLEAN /\ own' \in BOOLEAN /\ torn' \in BOOLEAN
    BY <1>1, ReadBooleans DEF Profile, RecentDays, AskFilings, cache
  <2>2. flagged' \in BOOLEAN /\ kind' \in {"profile", "days", "filings"}
    BY <1>1 DEF Profile, RecentDays, AskFilings, Say
  <2>3. pc' \in {"idle", "list"}
    BY <1>1 DEF Profile, RecentDays, AskFilings
  <2> QED
    BY <2>1, <2>2, <2>3
<1>2. ASSUME FirstFiled PROVE PointTypes'
  BY <1>2 DEF FirstFiled, cache, Say
<1>3. ASSUME AnswerList PROVE PointTypes'
  <2>1. whole' \in BOOLEAN /\ own' \in BOOLEAN /\ torn' \in BOOLEAN
    BY <1>3, ReadBooleans DEF AnswerList, cache
  <2>2. flagged' \in BOOLEAN
    BY <1>3 DEF AnswerList
  <2> QED
    BY <1>3, <2>1, <2>2 DEF AnswerList
<1>4. ASSUME Evict PROVE PointTypes'
  BY <1>4 DEF Evict, cache, answer
<1>5. ASSUME DirectRead PROVE PointTypes'
  <2>1. whole' \in BOOLEAN /\ own' \in BOOLEAN /\ torn' \in BOOLEAN
    BY <1>5, ReadBooleans DEF DirectRead
  <2> QED
    BY <1>5, <2>1 DEF DirectRead, answer
<1>6. ASSUME NextRun PROVE PointTypes'
  BY <1>6 DEF NextRun
<1>7. ASSUME UNCHANGED vars PROVE PointTypes'
  BY <1>7 DEF vars
<1> QED
  BY <1>1, <1>2, <1>3, <1>4, <1>5, <1>6, <1>7 DEF Next, Ask

LEMMA DayStep == DayTypes /\ CacheOfToday /\ [Next]_vars => DayTypes' /\ CacheOfToday'
<1> SUFFICES ASSUME DayTypes, CacheOfToday, [Next]_vars PROVE DayTypes' /\ CacheOfToday'
  OBVIOUS
<1> USE DEF DayTypes, CacheOfToday, Copies, Absent
<1>1. \A fresh \in 0..today, r \in Outcomes :
        (ReadSubmissions(fresh, r) \/ ReadList(r)) =>
          /\ disk' \in Absent..today
          /\ own' = TRUE => disk' = today
          /\ r # "failed" => disk' >= 0
  BY ReadDays
(* A read of the submissions JSON that the record keeps what it may of. *)
<1>2. ASSUME NEW fresh \in 0..today, NEW r \in Outcomes,
             ReadSubmissions(fresh, r), Remember(fresh, r), today' = today
      PROVE  /\ disk' \in Copies /\ disk' <= today' /\ (own' = TRUE => disk' = today')
             /\ profile' \in Copies /\ list' \in Copies /\ first' \in Copies
             /\ stamp' \in 0..LastDay
             /\ CopyRead(r) \in Copies
  <2>1. /\ disk' \in Absent..today /\ (own' = TRUE => disk' = today)
        /\ r # "failed" => disk' >= 0
    BY <1>1, <1>2
  <2>2. disk' \in Copies /\ disk' <= today' /\ CopyRead(r) \in Copies
    BY <1>2, <2>1 DEF CopyRead
  <2>3. CASE r = "current"
    <3>1. disk' \in 0..LastDay
      BY <2>1, <2>3
    <3>2. profile' = disk' /\ stamp' = disk'
      BY <1>2, <2>3 DEF Remember
    <3>3. list' \in {list, Absent} /\ first' \in {first, Absent}
      BY <1>2, <2>3 DEF Remember
    <3> QED
      BY <1>2, <2>1, <2>2, <3>1, <3>2, <3>3
  <2>4. CASE r # "current"
    BY <1>2, <2>1, <2>2, <2>4 DEF Remember, memory
  <2> QED
    BY <2>3, <2>4
<1>3. ASSUME NEW fresh \in Fresh, Profile(fresh) \/ RecentDays(fresh) \/ AskFilings(fresh)
      PROVE  DayTypes' /\ CacheOfToday'
  <2>1. CASE UNCHANGED <<cache, memory, today>> /\ asked' = fresh /\ day' \in {profile, Absent}
    BY <2>1 DEF cache, memory, Fresh
  <2>2. ASSUME NEW r \in Outcomes, ReadSubmissions(fresh, r), Remember(fresh, r),
               asked' = fresh, day' \in {CopyRead(r), Absent}, today' = today
        PROVE  DayTypes' /\ CacheOfToday'
    <3>1. fresh \in 0..today /\ fresh \in 0..LastDay
      BY DEF Fresh
    <3>2. /\ disk' \in Copies /\ disk' <= today' /\ (own' = TRUE => disk' = today')
          /\ profile' \in Copies /\ list' \in Copies /\ first' \in Copies
          /\ stamp' \in 0..LastDay /\ CopyRead(r) \in Copies
      BY <1>2, <2>2, <3>1
    <3>3. day' \in Copies
      BY <2>2, <3>2
    <3> QED
      BY <2>2, <3>1, <3>2, <3>3
  <2> QED
    BY <1>3, <2>1, <2>2 DEF Profile, RecentDays, AskFilings, Say
<1>4. ASSUME FirstFiled PROVE DayTypes' /\ CacheOfToday'
  BY <1>4 DEF FirstFiled, cache, memory, Say
<1>5. ASSUME AnswerList PROVE DayTypes' /\ CacheOfToday'
  <2>1. ASSUME list # Absent, day' = list, UNCHANGED <<cache, list, flagged>>
        PROVE  DayTypes' /\ CacheOfToday'
    BY <1>5, <2>1 DEF AnswerList, cache
  <2>2. ASSUME NEW r \in Outcomes, ReadList(r), day' = CopyRead(r),
               list' = IF r = "current" THEN disk' ELSE list
        PROVE  DayTypes' /\ CacheOfToday'
    <3>1. disk' \in Absent..today /\ (own' = TRUE => disk' = today)
      BY <1>1, <2>2
    <3>2. day' \in Copies /\ list' \in Copies
      BY <2>2, <3>1 DEF CopyRead
    <3>3. first' \in Copies
      BY <1>5, <3>2 DEF AnswerList
    <3> QED
      BY <1>5, <3>1, <3>2, <3>3 DEF AnswerList
  <2> QED
    BY <1>5, <2>1, <2>2 DEF AnswerList
<1>6. ASSUME Evict PROVE DayTypes' /\ CacheOfToday'
  BY <1>6 DEF Evict, cache, answer
<1>7. ASSUME DirectRead PROVE DayTypes' /\ CacheOfToday'
  <2>1. disk' \in Absent..today /\ (own' = TRUE => disk' = today)
    BY <1>1, <1>7 DEF DirectRead
  <2> QED
    BY <1>7, <2>1 DEF DirectRead, memory, answer
<1>8. ASSUME NextRun PROVE DayTypes' /\ CacheOfToday'
  BY <1>8 DEF NextRun
<1>9. ASSUME UNCHANGED vars PROVE DayTypes' /\ CacheOfToday'
  BY <1>9 DEF vars
<1> QED
  BY <1>3, <1>4, <1>5, <1>6, <1>7, <1>8, <1>9 DEF Next, Ask

LEMMA TypeStep == TypeOK /\ CacheOfToday /\ [Next]_vars => TypeOK' /\ CacheOfToday'
  BY PointStep, DayStep DEF TypeOK

LEMMA TypeInit == Init => TypeOK /\ CacheOfToday
<1>1. Init => DayTypes
  BY DEF Init, DayTypes, Copies, Absent
<1>2. Init => PointTypes
  BY DEF Init, PointTypes
<1>3. Init => CacheOfToday
  BY DEF Init, CacheOfToday, Absent
<1> QED
  BY <1>1, <1>2, <1>3 DEF TypeOK

(* Every variable has its type, also when the fetch of an older page fails. *)
THEOREM TypeCorrect == Spec => []TypeOK
  BY TypeInit, TypeStep, PTL DEF Spec

-------------------------------------------------------------------------------
(* The failure policy, for the answers not read off the filing list *)

LEMMA ListAwaitedStep == ListAwaited /\ [Next]_vars => ListAwaited'
  BY DEF ListAwaited, Next, Ask, Profile, RecentDays, AskFilings, FirstFiled, AnswerList,
         Evict, DirectRead, NextRun, Say, answer, vars

(* An unflagged profile, or list of recent filings, came from a copy as fresh as
   it was asked for, whatever else the run read. *)
THEOREM ProfileFresh == Spec => []UnflaggedProfileIsFresh
<1> DEFINE I == TypeOK /\ CacheOfToday /\ ListAwaited /\ UnflaggedProfileIsFresh
<1>1. Init => I
  BY TypeInit DEF Init, ListAwaited, UnflaggedProfileIsFresh
<1>2. I /\ [Next]_vars => I'
  <2> SUFFICES ASSUME I, [Next]_vars PROVE UnflaggedProfileIsFresh'
    BY TypeStep, ListAwaitedStep
  <2> USE DEF UnflaggedProfileIsFresh, Say
  <2>1. ASSUME NEW fresh \in Fresh, Profile(fresh) \/ RecentDays(fresh) PROVE UnflaggedProfileIsFresh'
    <3>1. CASE Say("profile", fresh, profile, FALSE) /\ profile >= fresh
      BY <3>1
    <3>2. ASSUME NEW r \in Outcomes, ReadSubmissions(fresh, r),
                 flagged' = (r # "current"), day' = CopyRead(r), asked' = fresh
          PROVE  UnflaggedProfileIsFresh'
      <4>1. r = "current" => disk' >= fresh
        BY <3>2, ReadFresh DEF Fresh, TypeOK
      <4> QED
        BY <3>2, <4>1 DEF CopyRead, Outcomes
    <3> QED
      BY <2>1, <3>1, <3>2 DEF Profile, RecentDays
  <2>2. ASSUME NEW fresh \in Fresh, AskFilings(fresh) PROVE UnflaggedProfileIsFresh'
    BY <2>2 DEF AskFilings
  <2>3. ASSUME FirstFiled PROVE UnflaggedProfileIsFresh'
    BY <2>3 DEF FirstFiled
  <2>4. ASSUME AnswerList PROVE UnflaggedProfileIsFresh'
    BY <2>4 DEF AnswerList, ListAwaited
  <2>5. ASSUME Evict \/ DirectRead PROVE UnflaggedProfileIsFresh'
    BY <2>5 DEF Evict, DirectRead, answer
  <2>6. ASSUME NextRun PROVE UnflaggedProfileIsFresh'
    BY <2>6 DEF NextRun
  <2>7. ASSUME UNCHANGED vars PROVE UnflaggedProfileIsFresh'
    BY <2>7 DEF vars
  <2> QED
    BY <2>1, <2>2, <2>3, <2>4, <2>5, <2>6, <2>7 DEF Next, Ask
<1> QED
  BY <1>1, <1>2, PTL DEF Spec
-------------------------------------------------------------------------------
(* The filing list, while no older page has failed in the run *)

LEMMA PagesRead ==
    ASSUME DayTypes, CacheOfToday, torn' = FALSE,
           NEW fresh \in 0..today, NEW r \in Outcomes, ReadSubmissions(fresh, r)
    PROVE  \/ UNCHANGED cache /\ (r = "current" => disk >= fresh)
           \/ r = "current" /\ disk < fresh /\ disk' = today
  BY DEF ReadSubmissions, Outcomes

LEMMA PagesList ==
    ASSUME DayTypes, PointTypes, CacheOfToday, torn' = FALSE, NEW r \in Outcomes, ReadList(r)
    PROVE  /\ disk # Absent /\ whole = TRUE => disk' = disk /\ whole' = TRUE
           /\ r = "current" => disk' # Absent /\ whole' = TRUE
<1>1. CASE disk # Absent /\ whole /\ UNCHANGED cache
  BY <1>1 DEF PointTypes, cache
<1>2. CASE /\ disk = Absent \/ ~whole
           /\ r = "current" => whole' = TRUE
           /\ disk' = IF own THEN disk ELSE today
  BY <1>2 DEF PointTypes, DayTypes, CacheOfToday, Copies, Absent
<1>3. CASE (disk = Absent \/ ~whole) /\ r # "current"
  BY <1>3 DEF PointTypes
<1> QED
  BY <1>1, <1>2, <1>3 DEF ReadList

(* A page that failed has failed for the rest of the run. *)
LEMMA TornStays == [Next]_vars /\ torn = TRUE /\ ~NextRun => torn' = TRUE
  BY DEF Next, Ask, Profile, RecentDays, AskFilings, FirstFiled, AnswerList, Evict, DirectRead,
         ReadSubmissions, ReadList, cache, vars

(* What is remembered of the list stays the cached list: a read that brings a
   newer copy finds the stamp of an older one and drops it. *)
LEMMA RememberedStep ==
    ASSUME DayTypes, PointTypes, CacheOfToday, MemoryOfCache,
           RememberedIsCached, [Next]_vars
    PROVE  RememberedIsCached'
<1> SUFFICES ASSUME torn' = FALSE, torn = FALSE \/ NextRun PROVE RememberedIsCached'
  <2>1. torn' = TRUE \/ torn' = FALSE
    BY PointStep DEF PointTypes
  <2>2. torn = FALSE \/ torn = TRUE
    BY DEF PointTypes
  <2>3. torn = TRUE /\ ~NextRun => torn' = TRUE
    BY TornStays
  <2> QED
    BY <2>1, <2>2, <2>3 DEF RememberedIsCached
<1>1. CASE NextRun
  BY <1>1 DEF NextRun, RememberedIsCached
<1> SUFFICES ASSUME torn = FALSE PROVE RememberedIsCached'
  BY <1>1
<1> USE DEF RememberedIsCached
<1>2. ASSUME NEW fresh \in 0..today, NEW r \in Outcomes,
             ReadSubmissions(fresh, r), Remember(fresh, r)
      PROVE  RememberedIsCached'
  <2>1. CASE UNCHANGED cache
    BY <1>2, <2>1 DEF Remember, cache, memory
  <2>2. CASE r = "current" /\ disk < fresh /\ disk' = today
    <3>1. CASE disk = Absent /\ fresh = 0
      BY <1>2, <3>1 DEF Remember, memory
    <3>2. CASE fresh > 0
      <4>1. stamp # disk'
        BY <2>2, <3>2 DEF DayTypes, MemoryOfCache, CacheOfToday, Copies, Absent
      <4> QED
        BY <1>2, <2>2, <3>2, <4>1 DEF Remember
    <3>3. fresh > 0 \/ (fresh = 0 /\ disk = Absent)
      BY <2>2 DEF DayTypes, Copies, Absent
    <3> QED
      BY <3>1, <3>2, <3>3
  <2> QED
    BY <1>2, <2>1, <2>2, PagesRead
<1>3. ASSUME NEW fresh \in Fresh, Profile(fresh) \/ RecentDays(fresh) \/ AskFilings(fresh)
      PROVE  RememberedIsCached'
  <2>1. fresh \in 0..today
    BY DEF Fresh
  <2>2. CASE UNCHANGED <<cache, memory>>
    BY <2>2 DEF cache, memory
  <2>3. CASE \E r \in Outcomes : ReadSubmissions(fresh, r) /\ Remember(fresh, r)
    BY <1>2, <2>1, <2>3
  <2> QED
    BY <1>3, <2>2, <2>3 DEF Profile, RecentDays, AskFilings
<1>4. ASSUME FirstFiled PROVE RememberedIsCached'
  BY <1>4 DEF FirstFiled, cache, memory
<1>5. ASSUME AnswerList PROVE RememberedIsCached'
  <2>1. ASSUME list # Absent, day' = list, UNCHANGED <<cache, list, flagged>>
        PROVE  RememberedIsCached'
    BY <1>5, <2>1 DEF AnswerList, cache
  <2>2. ASSUME NEW r \in Outcomes, ReadList(r), day' = CopyRead(r),
               flagged' = (flagged \/ r # "current"),
               list' = IF r = "current" THEN disk' ELSE list,
               list = Absent
        PROVE  RememberedIsCached'
    <3>1. /\ disk # Absent /\ whole = TRUE => disk' = disk /\ whole' = TRUE
          /\ r = "current" => disk' # Absent /\ whole' = TRUE
      BY <2>2, PagesList
    <3>2. list' # Absent => whole' = TRUE /\ list' = disk'
      BY <2>2, <3>1
    <3>3. CASE first' = first
      BY <3>1, <3>2, <3>3
    <3>4. CASE flagged' = FALSE /\ first' = day'
      <4>1. r = "current"
        BY <2>2, <3>4
      <4>2. day' = disk'
        BY <2>2, <4>1 DEF CopyRead
      <4> QED
        BY <3>1, <3>2, <3>4, <4>1, <4>2
    <3>5. flagged' = FALSE \/ flagged' = TRUE
      BY <2>2
    <3> QED
      BY <1>5, <3>3, <3>4, <3>5 DEF AnswerList
  <2> QED
    BY <1>5, <2>1, <2>2 DEF AnswerList
<1>6. ASSUME Evict PROVE RememberedIsCached'
  BY <1>6 DEF Evict, cache
<1>7. ASSUME DirectRead PROVE RememberedIsCached'
  <2>1. CASE \E r \in Outcomes : ReadSubmissions(0, r)
    <3>1. \/ UNCHANGED cache
          \/ disk < 0
      <4>1. 0 \in 0..today
        BY DEF DayTypes
      <4> QED
        BY <2>1, <4>1, PagesRead
    <3> QED
      BY <1>7, <3>1 DEF DirectRead, memory, cache, DayTypes, Copies, Absent
  <2>2. CASE \E r \in Outcomes : ReadList(r)
    <3>1. disk # Absent /\ whole = TRUE => disk' = disk /\ whole' = TRUE
      BY <2>2, PagesList
    <3> QED
      BY <1>7, <3>1 DEF DirectRead, memory
  <2> QED
    BY <1>7, <2>1, <2>2 DEF DirectRead
<1>8. ASSUME NextRun PROVE RememberedIsCached'
  BY <1>8 DEF NextRun
<1>9. ASSUME UNCHANGED vars PROVE RememberedIsCached'
  BY <1>9 DEF vars
<1> QED
  BY <1>3, <1>4, <1>5, <1>6, <1>7, <1>8, <1>9 DEF Next, Ask

(* The memory stays no newer than the cache, also when the pages of a list fail. *)
LEMMA MemoryStep ==
    ASSUME DayTypes, PointTypes, CacheOfToday, MemoryOfCache, [Next]_vars
    PROVE  MemoryOfCache'
<1> USE DEF MemoryOfCache
<1>1. ASSUME NEW fresh \in 0..today, NEW r \in Outcomes,
             ReadSubmissions(fresh, r), Remember(fresh, r)
      PROVE  /\ profile' <= disk' /\ stamp' <= (IF disk' = Absent THEN 0 ELSE disk')
             /\ r = "current" => disk' >= fresh
  <2>1. disk' \in Absent..today /\ disk' >= disk /\ (r # "failed" => disk' >= 0)
    BY <1>1, ReadDays
  <2>2. r = "current" => disk' >= fresh
    BY <1>1, ReadFresh
  <2>3. CASE profile' = disk' /\ stamp' = disk' /\ r = "current"
    BY <2>1, <2>2, <2>3 DEF Absent
  <2>4. CASE UNCHANGED memory /\ r # "current"
    BY <2>1, <2>4 DEF memory, DayTypes, Copies, Absent
  <2> QED
    BY <1>1, <2>2, <2>3, <2>4 DEF Remember
<1>2. ASSUME NEW fresh \in Fresh, Profile(fresh) \/ RecentDays(fresh) PROVE MemoryOfCache'
  <2>1. fresh \in 0..today /\ pc' = "idle"
    BY <1>2 DEF Fresh, Profile, RecentDays
  <2>2. CASE UNCHANGED <<cache, memory>>
    BY <2>1, <2>2 DEF cache, memory
  <2>3. CASE \E r \in Outcomes : ReadSubmissions(fresh, r) /\ Remember(fresh, r)
    BY <1>1, <2>1, <2>3
  <2> QED
    BY <1>2, <2>2, <2>3 DEF Profile, RecentDays
<1>3. ASSUME NEW fresh \in Fresh, AskFilings(fresh) PROVE MemoryOfCache'
  <2>1. fresh \in 0..today /\ asked' = fresh
    BY <1>3 DEF Fresh, AskFilings, Say
  <2>2. CASE UNCHANGED <<cache, memory>> /\ (fresh = 0 \/ profile >= fresh)
    BY <2>1, <2>2 DEF cache, memory, DayTypes, Copies, Absent
  <2>3. ASSUME NEW r \in Outcomes, ReadSubmissions(fresh, r), Remember(fresh, r),
               flagged' = (r # "current")
        PROVE  MemoryOfCache'
    <3>1. /\ profile' <= disk' /\ stamp' <= (IF disk' = Absent THEN 0 ELSE disk')
          /\ r = "current" => disk' >= fresh
      BY <1>1, <2>1, <2>3
    <3>2. flagged' = FALSE => r = "current"
      BY <2>3
    <3> QED
      BY <2>1, <3>1, <3>2
  <2> QED
    BY <1>3, <2>2, <2>3 DEF AskFilings, Say
<1>4. ASSUME FirstFiled PROVE MemoryOfCache'
  BY <1>4 DEF FirstFiled, cache, memory, Say
<1>5. ASSUME AnswerList \/ DirectRead PROVE MemoryOfCache'
  <2>1. disk' \in Absent..today /\ disk' >= disk
    <3>1. CASE UNCHANGED cache
      BY <3>1 DEF cache, DayTypes, CacheOfToday, Copies, Absent
    <3>2. CASE \E r \in Outcomes : ReadSubmissions(0, r) \/ ReadList(r)
      <4>1. 0 \in 0..today
        BY DEF DayTypes
      <4> QED
        BY <3>2, <4>1, ReadDays
    <3> QED
      BY <1>5, <3>1, <3>2 DEF AnswerList, DirectRead
  <2>2. UNCHANGED <<profile, stamp>>
    BY <1>5 DEF AnswerList, DirectRead, memory
  <2>3. profile' <= disk' /\ stamp' <= (IF disk' = Absent THEN 0 ELSE disk')
    BY <2>1, <2>2 DEF DayTypes, Copies, Absent
  <2>4. AnswerList => pc' = "idle"
    BY DEF AnswerList
  <2>5. CASE DirectRead
    BY <2>1, <2>3, <2>5 DEF DirectRead, answer, DayTypes, Copies, Absent
  <2> QED
    BY <1>5, <2>3, <2>4, <2>5
<1>6. ASSUME Evict PROVE MemoryOfCache'
  BY <1>6 DEF Evict, cache, answer
<1>7. ASSUME NextRun PROVE MemoryOfCache'
  <2>1. disk' \in {disk, today}
    BY <1>7 DEF NextRun
  <2> QED
    BY <1>7, <2>1 DEF NextRun, DayTypes, Copies, Absent
<1>8. ASSUME UNCHANGED vars PROVE MemoryOfCache'
  BY <1>8 DEF vars
<1> QED
  BY <1>2, <1>3, <1>4, <1>5, <1>6, <1>7, <1>8 DEF Next, Ask

(* An answer of the list is as fresh as asked: the copy it awaited was. *)
LEMMA FreshStep ==
    ASSUME DayTypes, PointTypes, CacheOfToday, MemoryOfCache,
           RememberedIsCached, UnflaggedIsFresh, [Next]_vars
    PROVE  UnflaggedIsFresh'
<1>1. CASE NextRun
  BY <1>1 DEF NextRun, UnflaggedIsFresh
<1> SUFFICES ASSUME torn' = FALSE, torn = FALSE PROVE UnflaggedIsFresh'
  <2>1. torn = FALSE \/ torn = TRUE
    BY DEF PointTypes
  <2> QED
    BY <1>1, <2>1, TornStays DEF UnflaggedIsFresh
<1> USE DEF UnflaggedIsFresh, Say
<1>2. ASSUME NEW fresh \in Fresh, Profile(fresh) \/ RecentDays(fresh) PROVE UnflaggedIsFresh'
  <2>1. CASE Say("profile", fresh, profile, FALSE) /\ profile >= fresh
    BY <2>1
  <2>2. ASSUME NEW r \in Outcomes, ReadSubmissions(fresh, r),
               flagged' = (r # "current"), day' = CopyRead(r), asked' = fresh
        PROVE  UnflaggedIsFresh'
    <3>1. r = "current" => disk' >= fresh
      BY <2>2, ReadFresh DEF Fresh
    <3> QED
      BY <2>2, <3>1 DEF CopyRead, Outcomes
  <2> QED
    BY <1>2, <2>1, <2>2 DEF Profile, RecentDays
<1>3. ASSUME NEW fresh \in Fresh, AskFilings(fresh) PROVE UnflaggedIsFresh'
  BY <1>3 DEF AskFilings
<1>4. ASSUME FirstFiled PROVE UnflaggedIsFresh'
  BY <1>4 DEF FirstFiled, DayTypes, Copies, Absent
<1>5. ASSUME AnswerList, flagged' = FALSE PROVE UnflaggedIsFresh'
  <2>1. ASSUME list # Absent, day' = list, flagged' = flagged PROVE UnflaggedIsFresh'
    BY <1>5, <2>1 DEF AnswerList, MemoryOfCache, RememberedIsCached, DayTypes, Copies, Absent
  <2>2. ASSUME NEW r \in Outcomes, ReadList(r), day' = CopyRead(r),
               flagged' = (flagged \/ r # "current")
        PROVE  UnflaggedIsFresh'
    <3>1. r = "current" /\ flagged = FALSE
      BY <1>5, <2>2 DEF PointTypes
    <3>2. day' = disk'
      BY <2>2, <3>1 DEF CopyRead
    <3>3. disk' >= disk /\ disk' >= 0 /\ disk' \in Absent..today
      <4>1. 0 \in 0..today
        BY DEF DayTypes
      <4> QED
        BY <2>2, <3>1, <4>1, ReadDays
    <3>4. asked = 0 \/ asked <= disk
      BY <1>5, <3>1 DEF AnswerList, MemoryOfCache
    <3> QED
      BY <1>5, <3>2, <3>3, <3>4 DEF AnswerList, DayTypes, Copies, Absent
  <2> QED
    BY <1>5, <2>1, <2>2 DEF AnswerList
<1>6. ASSUME Evict \/ DirectRead PROVE UnflaggedIsFresh'
  BY <1>6 DEF Evict, DirectRead, answer
<1>7. ASSUME NextRun PROVE UnflaggedIsFresh'
  BY <1>7 DEF NextRun
<1>8. ASSUME UNCHANGED vars PROVE UnflaggedIsFresh'
  BY <1>8 DEF vars
<1> QED
  BY <1>2, <1>3, <1>4, <1>5, <1>6, <1>7, <1>8 DEF Next, Ask

LEMMA Inductive == (Init => IInv) /\ (IInv /\ [Next]_vars => IInv')
<1>1. Init => IInv
  BY TypeInit DEF Init, IInv, ListAwaited, RememberedIsCached, MemoryOfCache, UnflaggedIsFresh, Absent
<1>2. ASSUME IInv, [Next]_vars PROVE IInv'
  BY <1>2, TypeStep, ListAwaitedStep, RememberedStep, MemoryStep, FreshStep DEF IInv, TypeOK
<1> QED
  BY <1>1, <1>2

(* While no older page has failed in the run, every unflagged answer, of the
   filing list too, rests on a copy as fresh as it asked for. *)
THEOREM AnswersFresh == Spec => []UnflaggedIsFresh
<1>1. IInv => UnflaggedIsFresh
  BY DEF IInv
<1> QED
  BY <1>1, Inductive, PTL DEF Spec

(* As long, what the record remembers of the filing list is what the client would
   read. *)
THEOREM RememberedCached == Spec => []RememberedIsCached
<1>1. IInv => RememberedIsCached
  BY DEF IInv
<1> QED
  BY <1>1, Inductive, PTL DEF Spec

-------------------------------------------------------------------------------
(* The searches *)

SearchTypes ==
    /\ query \in Queries
    /\ shown \in WindowEnd..(WindowEnd + Late) \cup {NeverShown}
    /\ clock \in 1..LastClock /\ now \in 1..clock

(* A kept answer is of a run date up to today, and one that lacks the filing was fetched
   before SEC showed it; of a search without a window no file is kept. *)
FileOfItsDay ==
    /\ Readable => /\ file.on \in 1..clock /\ file.sees \in BOOLEAN
                   /\ file.sees = TRUE \/ file.on < shown
    /\ query = "undated" => file = NoAnswer

(* What the client remembers is of this run: nothing, a rejected query, or what SEC
   answered today to a search without a window. *)
MemoOfThisRun ==
    \/ memo = Silent
    \/ memo = Told(FALSE, TRUE, "rejected")
    \/ query = "undated" /\ memo = Told(Sees, TRUE, "answered")

SearchInv == SearchTypes /\ FileOfItsDay /\ MemoOfThisRun /\ LateFilingsAreFound

(* What an answer says is right whatever the pass was told before. *)
Right(t) ==
    t.sure /\ t.how = "answered" /\ shown # NeverShown =>
        /\ query = "full text" /\ now >= WindowEnd + Late - 1 + Larger2(MinTtl, Late - 1) => t.hit
        /\ query = "company" /\ now >= shown + SearchFresh => t.hit
        /\ query = "undated" /\ clock >= shown /\ now >= WindowEnd => t.hit

LEMMA SearchBounds ==
    /\ LastClock \in Nat /\ WindowEnd \in 1..LastClock /\ Late \in Nat \ {0}
    /\ MinTtl \in Nat \ {0} /\ MaxTtl \in Nat /\ MinTtl <= MaxTtl /\ SearchFresh \in Nat
  BY EdgarSearchesAssumption

(* An answer is trusted for the shortest time, or as long as its window had been closed:
   one that lacks the filing runs out in the delay again. *)
LEMMA RunsOut ==
    ASSUME NEW on \in 0..(WindowEnd + Late - 1)
    PROVE  TtlDays(on) <= Larger2(MinTtl, Late - 1)
  BY SearchBounds DEF TtlDays, Larger2, Smaller2

(* What a kept answer that still holds says is right. *)
LEMMA KeptIsRight ==
    ASSUME SearchTypes, FileOfItsDay, Readable, HoldsStill
    PROVE  /\ query = "full text" => Right(Told(Seen(file.sees), TRUE, "answered"))
           /\ query = "company" => Right(Told(file.sees, TRUE, "answered"))
<1>1. file.on \in 1..clock /\ file.sees \in BOOLEAN
  BY DEF FileOfItsDay
<1>2. clock \in 1..LastClock /\ now \in 1..clock
  BY DEF SearchTypes
<1>3. shown # NeverShown => shown \in WindowEnd..(WindowEnd + Late)
  BY DEF SearchTypes
<1>4. ASSUME file.sees # TRUE, shown # NeverShown
      PROVE  file.on \in 0..(WindowEnd + Late - 1) /\ file.on < shown
  <2>1. file.on < shown
    BY <1>4 DEF FileOfItsDay
  <2> QED
    BY <1>1, <1>4, <1>2, <1>3, <2>1, SearchBounds
<1>5. ASSUME NEW T \in Int, now < file.on + T, file.on < WindowEnd + Late => T <= Larger2(MinTtl, Late - 1),
             shown # NeverShown, now >= WindowEnd + Late - 1 + Larger2(MinTtl, Late - 1)
      PROVE  file.sees = TRUE
  <2>1. ASSUME file.sees # TRUE PROVE FALSE
    <3>1. file.on < WindowEnd + Late
      BY <1>4, <1>5, <2>1, <1>1, <1>2, SearchBounds
    <3>2. T <= Larger2(MinTtl, Late - 1) /\ Larger2(MinTtl, Late - 1) \in Int
      BY <1>5, <3>1, SearchBounds DEF Larger2
    <3> QED
      BY <1>1, <1>5, <1>2, <3>1, <3>2, SearchBounds
  <2> QED
    BY <2>1
<1>6. ASSUME now >= WindowEnd + Late - 1 + Larger2(MinTtl, Late - 1) PROVE now >= WindowEnd
  BY <1>6, <1>2, SearchBounds DEF Larger2
<1>7. TtlDays(file.on) \in Int /\ (file.on < WindowEnd + Late => TtlDays(file.on) <= Larger2(MinTtl, Late - 1))
  <2>1. file.on \in Int /\ (file.on < WindowEnd + Late => file.on \in 0..(WindowEnd + Late - 1))
    BY <1>1, <1>2, SearchBounds
  <2>2. TtlDays(file.on) \in Int
    BY <2>1, SearchBounds DEF TtlDays, Larger2, Smaller2
  <2> QED
    BY <2>1, <2>2, RunsOut
<1>8. ASSUME file.on >= now - SearchFresh, shown # NeverShown, now >= shown + SearchFresh
      PROVE  file.sees = TRUE
  <2>1. ASSUME file.sees # TRUE PROVE FALSE
    <3>1. file.on < shown /\ shown \in Int
      BY <1>4, <1>8, <1>3, <2>1, SearchBounds
    <3> QED
      BY <1>1, <1>8, <1>2, <3>1, SearchBounds
  <2> QED
    BY <2>1
<1>9. CASE query = "full text"
  <2>1. now < file.on + TtlDays(file.on)
    BY <1>9 DEF HoldsStill
  <2> QED
    BY <1>5, <1>6, <1>7, <1>9, <2>1 DEF Right, Told, Seen
<1>10. CASE query = "company"
  <2>1. file.on >= now - SearchFresh
    BY <1>10 DEF HoldsStill
  <2> QED
    BY <1>8, <1>10, <2>1 DEF Right, Told
<1> QED
  BY <1>9, <1>10

(* What SEC answers today is right. *)
LEMMA FreshIsRight ==
    ASSUME SearchTypes
    PROVE  /\ query = "company" => Right(Told(Sees, TRUE, "answered"))
           /\ query \in {"full text", "undated"} => Right(Told(Seen(Sees), TRUE, "answered"))
<1>1. clock \in 1..LastClock /\ now \in 1..clock
  BY DEF SearchTypes
<1>2. shown # NeverShown => shown \in WindowEnd..(WindowEnd + Late)
  BY DEF SearchTypes
<1>3. ASSUME shown # NeverShown, now >= shown + SearchFresh PROVE Sees
  BY <1>1, <1>2, <1>3, SearchBounds DEF Sees
<1>4. ASSUME now >= WindowEnd + Late - 1 + Larger2(MinTtl, Late - 1), shown # NeverShown
      PROVE  Seen(Sees)
  <2>1. Larger2(MinTtl, Late - 1) \in Int /\ Larger2(MinTtl, Late - 1) >= 1
    BY SearchBounds DEF Larger2
  <2> QED
    BY <1>1, <1>2, <1>4, <2>1, SearchBounds DEF Sees, Seen
<1> QED
  BY <1>3, <1>4 DEF Right, Told, Seen, Sees

LEMMA SaidRight ==
    /\ LateFilingsAreFound <=> Right(said)
    /\ UNCHANGED <<query, shown, clock, now>> /\ Right(said') => LateFilingsAreFound'
  BY DEF LateFilingsAreFound, Right

(* What a query leaves of the invariant: the types, and what it was told before when it
   only fills the cache. *)
LEMMA QueryLeaves ==
    ASSUME SearchInv, UNCHANGED <<query, shown, clock, now>>
    PROVE  /\ SearchTypes'
           /\ UNCHANGED file => FileOfItsDay'
           /\ UNCHANGED memo => MemoOfThisRun'
           /\ UNCHANGED said => LateFilingsAreFound'
           /\ file' = NoAnswer => FileOfItsDay'
           /\ file' = Kept(now, Sees) /\ query # "undated" => FileOfItsDay'
<1>1. SearchTypes'
  BY DEF SearchInv, SearchTypes
<1>2. UNCHANGED file => FileOfItsDay'
  BY DEF SearchInv, FileOfItsDay, Readable
<1>3. UNCHANGED memo => MemoOfThisRun'
  BY DEF SearchInv, MemoOfThisRun, Sees
<1>4. UNCHANGED said => LateFilingsAreFound'
  BY SaidRight DEF SearchInv
<1>5. file' = NoAnswer => FileOfItsDay'
  BY DEF FileOfItsDay, NoAnswer, Readable
<1>6. ASSUME file' = Kept(now, Sees), query # "undated" PROVE FileOfItsDay'
  <2>1. file'.on = now /\ file'.sees = (clock >= shown)
    BY <1>6 DEF Kept, Sees
  <2>2. clock \in 1..LastClock /\ now \in 1..clock /\ shown \in Int
    <3>1. shown \in WindowEnd..(WindowEnd + Late) \/ shown = LastClock + 1
      BY DEF SearchInv, SearchTypes, NeverShown
    <3> QED
      BY <3>1, SearchBounds DEF SearchInv, SearchTypes
  <2>3. file'.on \in 1..clock' /\ file'.sees \in BOOLEAN
    <3>1. file'.on \in 1..clock'
      BY <2>1, <2>2
    <3>2. file'.sees \in BOOLEAN
      BY <2>1
    <3> QED
      BY <3>1, <3>2
  <2>4. file'.sees = TRUE \/ file'.on < shown'
    <3>1. CASE clock >= shown
      BY <2>1, <3>1
    <3>2. CASE ~(clock >= shown)
      <4>1. now < shown
        BY <2>2, <3>2, SearchBounds
      <4> QED
        BY <1>1, <2>1, <4>1
    <3> QED
      BY <3>1, <3>2
  <2> QED
    BY <1>6, <2>3, <2>4 DEF FileOfItsDay
<1> QED
  BY <1>1, <1>2, <1>3, <1>4, <1>5, <1>6

(* What SEC answers a search, or does not. *)
LEMMA SendStep ==
    ASSUME SearchInv, UNCHANGED <<query, shown, clock, now>>, NEW filling \in BOOLEAN,
           SendSearch(filling), query \in {"full text", "undated"}
    PROVE  FileOfItsDay' /\ MemoOfThisRun' /\ LateFilingsAreFound'
<1>1. CASE /\ IF query = "undated" THEN memo' = Told(Sees, TRUE, "answered") /\ UNCHANGED file
                                  ELSE file' = Kept(now, Sees) /\ UNCHANGED memo
           /\ SayTo(filling, Told(Seen(Sees), TRUE, "answered"))
  <2>1. FileOfItsDay' /\ MemoOfThisRun'
    BY <1>1, QueryLeaves DEF MemoOfThisRun, Sees
  <2>2. LateFilingsAreFound'
    BY <1>1, QueryLeaves, FreshIsRight, SaidRight DEF SayTo, SearchInv
  <2> QED
    BY <2>1, <2>2
<1>2. CASE /\ memo' = Told(FALSE, TRUE, "rejected") /\ UNCHANGED file
           /\ SayTo(filling, memo')
  <2>1. Right(Told(FALSE, TRUE, "rejected"))
    BY DEF Right, Told
  <2> QED
    BY <1>2, <2>1, QueryLeaves, SaidRight DEF SayTo, MemoOfThisRun
<1>3. CASE /\ UNCHANGED memo /\ file' \in {file} \cup (IF Readable THEN {} ELSE {NoAnswer})
           /\ SayTo(filling, Told(FALSE, FALSE, "failed"))
  <2>1. Right(Told(FALSE, FALSE, "failed"))
    BY DEF Right, Told
  <2> QED
    BY <1>3, <2>1, QueryLeaves, SaidRight DEF SayTo
<1> QED
  BY <1>1, <1>2, <1>3 DEF SendSearch

(* A remembered answer is right in its run. *)
LEMMA MemoIsRight ==
    ASSUME SearchInv, memo # Silent
    PROVE  Right(Told(Seen(memo.hit), memo.sure, memo.how))
<1>1. CASE memo = Told(FALSE, TRUE, "rejected")
  BY <1>1 DEF Right, Told
<1>2. CASE query = "undated" /\ memo = Told(Sees, TRUE, "answered")
  <2>1. memo.hit = Sees /\ memo.sure = TRUE /\ memo.how = "answered"
    BY <1>2 DEF Told
  <2> QED
    BY <1>2, <2>1, FreshIsRight DEF SearchInv
<1> QED
  BY <1>1, <1>2 DEF SearchInv, MemoOfThisRun

LEMMA FullTextStep ==
    ASSUME SearchInv, NEW filling \in BOOLEAN, FullTextSearch(filling)
    PROVE  SearchInv'
<1>1. UNCHANGED <<query, shown, clock, now>> /\ query \in {"full text", "undated"}
  BY DEF FullTextSearch
<1>2. CASE memo # Silent
  <2>1. SayTo(filling, Told(Seen(memo.hit), memo.sure, memo.how)) /\ UNCHANGED <<file, memo>>
    BY <1>2 DEF FullTextSearch
  <2> QED
    BY <1>1, <2>1, <1>2, MemoIsRight, QueryLeaves, SaidRight DEF SayTo, SearchInv
<1>3. CASE memo = Silent /\ Recalled(filling)
  <2>1. SayTo(filling, Told(Seen(file.sees), TRUE, "answered")) /\ UNCHANGED <<file, memo>>
    BY <1>3 DEF FullTextSearch
  <2>2. query = "full text" /\ Readable /\ (~filling => HoldsStill)
    <3>1. ~(file = NoAnswer)
      BY <1>3 DEF Recalled, Readable, NoAnswer
    <3> QED
      BY <1>1, <1>3, <3>1 DEF Recalled, SearchInv, FileOfItsDay
  <2>3. ~filling => Right(Told(Seen(file.sees), TRUE, "answered"))
    BY <2>2, KeptIsRight DEF SearchInv
  <2> QED
    BY <1>1, <2>1, <2>3, QueryLeaves, SaidRight DEF SayTo, SearchInv
<1>4. CASE memo = Silent /\ ~Recalled(filling) /\ filling /\ file = Unreadable
  <2>1. UNCHANGED <<file, memo, said>>
    BY <1>4 DEF FullTextSearch
  <2> QED
    BY <1>1, <2>1, QueryLeaves DEF SearchInv
<1>5. CASE memo = Silent /\ ~Recalled(filling) /\ ~(filling /\ file = Unreadable)
  <2>1. SendSearch(filling)
    BY <1>5 DEF FullTextSearch
  <2> QED
    BY <1>1, <2>1, SendStep, QueryLeaves DEF SearchInv
<1> QED
  BY <1>2, <1>3, <1>4, <1>5

LEMMA CompanyStep ==
    ASSUME SearchInv, NEW filling \in BOOLEAN, CompanySearch(filling)
    PROVE  SearchInv'
<1>1. UNCHANGED <<query, shown, clock, now, memo>> /\ query = "company"
  BY DEF CompanySearch
<1>2. CASE Recalled(filling)
  <2>1. SayTo(filling, Told(file.sees, TRUE, "answered")) /\ UNCHANGED file
    BY <1>2 DEF CompanySearch
  <2>2. ~filling => Right(Told(file.sees, TRUE, "answered"))
    BY <1>1, <1>2, KeptIsRight DEF SearchInv, Recalled
  <2> QED
    BY <1>1, <2>1, <2>2, QueryLeaves, SaidRight DEF SayTo, SearchInv
<1>3. CASE ~Recalled(filling) /\ filling /\ file = Unreadable
  <2>1. UNCHANGED <<file, said>>
    BY <1>3 DEF CompanySearch
  <2> QED
    BY <1>1, <2>1, QueryLeaves DEF SearchInv
<1>4. ASSUME ~Recalled(filling), ~(filling /\ file = Unreadable),
             file' = Kept(now, Sees), SayTo(filling, Told(Sees, TRUE, "answered"))
      PROVE  SearchInv'
  BY <1>1, <1>4, FreshIsRight, QueryLeaves, SaidRight DEF SayTo, SearchInv
<1>5. ASSUME SayTo(filling, Told(FALSE, TRUE, "rejected")), file' \in {file} \cup (IF Readable THEN {} ELSE {NoAnswer})
      PROVE  SearchInv'
  <2>1. Right(Told(FALSE, TRUE, "rejected"))
    BY DEF Right, Told
  <2> QED
    BY <1>1, <1>5, <2>1, QueryLeaves, SaidRight DEF SayTo, SearchInv
<1>6. ASSUME SayTo(filling, Told(Readable /\ file.sees, FALSE, "failed")),
             file' \in {file} \cup (IF Readable THEN {} ELSE {NoAnswer})
      PROVE  SearchInv'
  <2>1. Right(Told(Readable /\ file.sees, FALSE, "failed"))
    BY DEF Right, Told
  <2> QED
    BY <1>1, <1>6, <2>1, QueryLeaves, SaidRight DEF SayTo, SearchInv
<1> QED
  BY <1>2, <1>3, <1>4, <1>5, <1>6 DEF CompanySearch

(* A document is asked for by no property: only its file changes. *)
LEMMA DocumentStep ==
    ASSUME SearchInv, NEW of \in {"text", "raw"}, Document(of)
    PROVE  SearchInv'
<1>1. UNCHANGED <<query, shown, clock, now, memo>> /\ query \in {"text", "raw"}
  BY DEF Document
<1>2. LateFilingsAreFound'
  BY <1>1 DEF LateFilingsAreFound
<1>3. UNCHANGED file \/ file' = Kept(now, Sees)
  BY DEF Document
<1> QED
  BY <1>1, <1>2, <1>3, QueryLeaves DEF SearchInv

LEMMA NextSearchRunStep ==
    ASSUME SearchInv, NextSearchRun
    PROVE  SearchInv'
<1>1. clock' \in clock..LastClock /\ now' \in 1..clock' /\ memo' = Silent /\ said' = Silent
      /\ UNCHANGED <<query, shown, file>>
  BY DEF NextSearchRun
<1>2. SearchTypes'
  BY <1>1, SearchBounds DEF SearchInv, SearchTypes
<1>3. FileOfItsDay'
  <2>1. ASSUME Readable PROVE file.on \in 1..clock'
    BY <1>1, <2>1, SearchBounds DEF SearchInv, SearchTypes, FileOfItsDay
  <2> QED
    BY <1>1, <2>1 DEF SearchInv, FileOfItsDay, Readable
<1>4. MemoOfThisRun' /\ LateFilingsAreFound'
  BY <1>1 DEF MemoOfThisRun, LateFilingsAreFound, Silent, Told
<1> QED
  BY <1>2, <1>3, <1>4 DEF SearchInv

LEMMA SearchInductive == (SearchInit => SearchInv) /\ (SearchInv /\ [SearchNext]_searchVars => SearchInv')
<1>1. ASSUME SearchInit PROVE SearchInv
  <2>1. SearchTypes
    <3>1. 1 \in 1..LastClock /\ 1 \in 1..1
      BY SearchBounds
    <3> QED
      BY <1>1, <3>1 DEF SearchInit, SearchTypes
  <2>2. file \in {NoAnswer, Unreadable} /\ (query = "undated" => file = NoAnswer)
    BY <1>1 DEF SearchInit
  <2>3. FileOfItsDay
    BY <2>2 DEF FileOfItsDay, NoAnswer, Unreadable, Readable
  <2>4. MemoOfThisRun /\ LateFilingsAreFound
    BY <1>1 DEF SearchInit, MemoOfThisRun, LateFilingsAreFound, Silent, Told
  <2> QED
    BY <2>1, <2>3, <2>4 DEF SearchInv
<1>2. ASSUME SearchInv, SearchNext PROVE SearchInv'
  BY <1>2, FullTextStep, CompanyStep, DocumentStep, NextSearchRunStep DEF SearchNext, FilingText, FilingRaw
<1>3. ASSUME SearchInv, UNCHANGED searchVars PROVE SearchInv'
  BY <1>3 DEF searchVars, SearchInv, SearchTypes, FileOfItsDay, MemoOfThisRun, LateFilingsAreFound, Readable, Sees
<1> QED
  BY <1>1, <1>2, <1>3

(* No filing is lost to a cached answer, for any delay of SEC's index and any times to
   live, and wherever the run dates go. *)
THEOREM LateFilingsFound == SearchSpec => []LateFilingsAreFound
<1>1. SearchInv => LateFilingsAreFound
  BY DEF SearchInv
<1> QED
  BY <1>1, SearchInductive, PTL DEF SearchSpec
===============================================================================
