-------------------------- MODULE EndingSearchProofs --------------------------
(* What the finder of delistings keeps, for any lines, issuers and dockets.  A run is an
   operator of the issuer and the filings on record, so the proofs are about two of its
   values: what one run makes of the filings, and what the next makes of them and one
   filing more. *)
EXTENDS EndingSearch, FiniteSetTheorems, WellFoundedInduction, TLAPS

-------------------------------------------------------------------------------
(* The least-number principle for sets of naturals. *)

Less == {ss \in Nat \X Nat : ss[1] < ss[2]}

LEMMA LessIsWellFounded == IsWellFoundedOn(Less, Nat)
BY NatLessThanWellFounded DEF OpToRel, Less

LEMMA LeastNatural ==
    ASSUME NEW T \in SUBSET Nat, T # {}
    PROVE  \E x \in T : \A y \in T : x <= y
<1>1. PICK x \in T : \A y \in T : <<y, x>> \notin Less
  BY LessIsWellFounded, WFMin
<1>2. \A y \in T : ~(y < x)
  BY <1>1 DEF Less
<1> QED
  BY <1>2

-------------------------------------------------------------------------------
(* Deciding days one after another. *)

(* K is decided right on the days of D below n, and holds no others. *)
Decides(D, keeps, K, n) ==
    /\ K \in SUBSET D /\ \A e \in K : e < n
    /\ \A d \in D : d < n => (d \in K <=> <<d, {e \in K : e < d}>> \in keeps)

(* What is decided, and how, is the same below n. *)
SameBelow(D, keepsD, E, keepsE, n) ==
    \A d \in Nat : d < n =>
        /\ d \in D <=> d \in E
        /\ d \in D => \A S \in SUBSET D : <<d, {e \in S : e < d}>> \in keepsD <=> <<d, {e \in S : e < d}>> \in keepsE

(* Two that are decided right, by what is the same below n, agree below n. *)
LEMMA DecidedAlike ==
    ASSUME NEW D \in SUBSET Nat, NEW E \in SUBSET Nat, NEW n \in Nat, NEW k \in Nat, NEW m \in Nat, n <= k, n <= m,
           NEW keepsD, NEW keepsE, NEW K, NEW L, Decides(D, keepsD, K, k), Decides(E, keepsE, L, m),
           SameBelow(D, keepsD, E, keepsE, n)
    PROVE  \A d \in Nat : d < n => (d \in K <=> d \in L)
<1> DEFINE Apart == {d \in Nat : d < n /\ ~(d \in K <=> d \in L)}
<1>1. SUFFICES ASSUME Apart # {} PROVE FALSE
  OBVIOUS
<1>2. PICK d \in Apart : \A x \in Apart : d <= x
  BY <1>1, LeastNatural
<1>3. d \in D /\ d \in E /\ d < k /\ d < m
  BY <1>2 DEF Decides, SameBelow
<1>4. {e \in K : e < d} = {e \in L : e < d}
  <2>1. \A e \in Nat : e < d => (e \in K <=> e \in L)
    BY <1>2
  <2>2. K \subseteq Nat /\ L \subseteq Nat
    BY DEF Decides
  <2> QED
    BY <2>1, <2>2
<1>5. /\ d \in K <=> <<d, {e \in K : e < d}>> \in keepsD
      /\ d \in L <=> <<d, {e \in L : e < d}>> \in keepsE
  BY <1>3 DEF Decides
<1>6. <<d, {e \in K : e < d}>> \in keepsD <=> <<d, {e \in K : e < d}>> \in keepsE
  BY <1>2, <1>3 DEF Decides, SameBelow
<1> QED
  BY <1>2, <1>4, <1>5, <1>6

LEMMA SomeDecide ==
    ASSUME NEW D \in SUBSET Nat, NEW keeps, NEW n \in Nat
    PROVE  \E K : Decides(D, keeps, K, n)
<1> DEFINE Without == {m \in Nat : \A K : ~Decides(D, keeps, K, m)}
<1>1. SUFFICES ASSUME Without # {} PROVE FALSE
  OBVIOUS
<1>2. PICK m \in Without : \A x \in Without : m <= x
  BY <1>1, LeastNatural
<1>3. m # 0
  <2>1. Decides(D, keeps, {}, 0)
    BY DEF Decides
  <2> QED
    BY <1>2, <2>1
<1>4. m - 1 \in Nat /\ m - 1 \notin Without
  BY <1>2, <1>3
<1>5. PICK K : Decides(D, keeps, K, m - 1)
  BY <1>4
<1> DEFINE d == m - 1
           L == IF d \in D /\ <<d, K>> \in keeps THEN K \cup {d} ELSE K
<1>6. K \in SUBSET D /\ \A e \in K : e \in Nat /\ e < d
  BY <1>5 DEF Decides
<1>7. /\ \A x \in Nat : x <= d => {e \in L : e < x} = {e \in K : e < x}
      /\ \A x \in Nat : x < d => (x \in L <=> x \in K)
      /\ d \in L <=> d \in D /\ <<d, K>> \in keeps
  BY <1>6, <1>4
<1>8. {e \in K : e < d} = K
  BY <1>6
<1>10. L \in SUBSET D /\ \A e \in L : e < m
  BY <1>2, <1>4, <1>6
<1> HIDE DEF L
<1>9. ASSUME NEW x \in D, x < m PROVE x \in L <=> <<x, {e \in L : e < x}>> \in keeps
  <2>1. x \in Nat /\ x <= d
    BY <1>9, <1>2, <1>4
  <2>2. CASE x = d
    <3>1. {e \in L : e < d} = K
      BY <1>4, <1>7, <1>8
    <3> QED
      BY <2>2, <3>1, <1>7
  <2>3. CASE x < d
    <3>1. x \in K <=> <<x, {e \in K : e < x}>> \in keeps
      BY <1>5, <2>3 DEF Decides
    <3> QED
      BY <2>1, <2>3, <3>1, <1>7
  <2> QED
    BY <2>1, <2>2, <2>3
<1>11. Decides(D, keeps, L, m)
  BY <1>9, <1>10 DEF Decides
<1> QED
  BY <1>2, <1>11

(* Deciding in turn decides right, on every day. *)
LEMMA InTurnIs ==
    ASSUME NEW D \in SUBSET Nat, NEW keeps
    PROVE  /\ InTurn(D, keeps) \in SUBSET D
           /\ \A d \in D : d \in InTurn(D, keeps) <=> <<d, {e \in InTurn(D, keeps) : e < d}>> \in keeps
<1> DEFINE Whole == {d \in D : \E K : Decides(D, keeps, K, d + 1) /\ d \in K}
<1>1. ASSUME NEW d \in D PROVE d \in Whole <=> <<d, {e \in Whole : e < d}>> \in keeps
  <2>1. d \in Nat /\ d + 1 \in Nat /\ d < d + 1
    OBVIOUS
  <2>2. PICK L : Decides(D, keeps, L, d + 1)
    BY <2>1, SomeDecide
  <2>3. ASSUME NEW e \in D, e <= d, NEW K, Decides(D, keeps, K, e + 1)
        PROVE  e \in K <=> e \in L
    <3>1. e \in Nat /\ e + 1 \in Nat /\ e + 1 <= d + 1 /\ e < e + 1
      BY <2>1, <2>3
    <3>2. \A x \in Nat : x < e + 1 => (x \in K <=> x \in L)
      <4>1. SameBelow(D, keeps, D, keeps, e + 1)
        BY DEF SameBelow
      <4> QED
        BY <2>1, <2>2, <2>3, <3>1, <4>1, DecidedAlike
    <3> QED
      BY <3>1, <3>2
  <2>4. ASSUME NEW e \in D, e <= d PROVE e \in Whole <=> e \in L
    <3>0. e \in Nat /\ e + 1 \in Nat
      OBVIOUS
    <3>1. PICK K : Decides(D, keeps, K, e + 1)
      BY <3>0, SomeDecide
    <3> QED
      BY <2>3, <2>4, <3>1
  <2>5. {e \in Whole : e < d} = {e \in L : e < d}
    <3>1. L \subseteq D
      BY <2>2 DEF Decides
    <3>2. \A e \in D : e < d => e <= d
      BY <2>1
    <3> HIDE DEF Whole
    <3>3. Whole \subseteq D
      BY DEF Whole
    <3> QED
      BY <3>1, <3>2, <3>3, <2>4
  <2>6. d \in L <=> <<d, {e \in L : e < d}>> \in keeps
    BY <2>1, <2>2 DEF Decides
  <2> QED
    BY <2>1, <2>4, <2>5, <2>6
<1>2. Whole \in SUBSET D
  OBVIOUS
<1> HIDE DEF Whole
<1>3. \E K \in SUBSET D : \A d \in D : d \in K <=> <<d, {e \in K : e < d}>> \in keeps
  BY <1>1, <1>2
<1> QED
  BY <1>3 DEF InTurn

(* More days, all later, and the earlier ones decided alike. *)
GrowsBy(D, keepsD, E, keepsE) ==
    /\ D \subseteq E /\ \A d \in D, e \in E \ D : d < e
    /\ \A d \in D, S \in SUBSET D : <<d, {e \in S : e < d}>> \in keepsD <=> <<d, {e \in S : e < d}>> \in keepsE

LEMMA InTurnGrows ==
    ASSUME NEW D \in SUBSET Nat, NEW E \in SUBSET Nat, NEW keepsD, NEW keepsE, GrowsBy(D, keepsD, E, keepsE)
    PROVE  \A d \in D : d \in InTurn(D, keepsD) <=> d \in InTurn(E, keepsE)
<1> DEFINE K == InTurn(D, keepsD)
           L == InTurn(E, keepsE)
<1>1. /\ K \in SUBSET D /\ \A d \in D : d \in K <=> <<d, {e \in K : e < d}>> \in keepsD
      /\ L \in SUBSET E /\ \A d \in E : d \in L <=> <<d, {e \in L : e < d}>> \in keepsE
  BY InTurnIs
<1> HIDE DEF K, L
<1>2. SUFFICES ASSUME NEW d \in D PROVE d \in K <=> d \in L
  BY DEF K, L
<1> DEFINE n == d + 1
           Kn == {e \in K : e < n}
           Ln == {e \in L : e < n}
<1>3. n \in Nat /\ d < n /\ \A e \in Nat : e < n => e <= d
  OBVIOUS
<1>4. Decides(D, keepsD, Kn, n)
  <2>1. ASSUME NEW x \in D, x < n PROVE {e \in Kn : e < x} = {e \in K : e < x}
    <3>1. \A e \in K : e \in Nat /\ x \in Nat /\ (e < x => e < n)
      BY <1>1, <1>3, <2>1
    <3> QED
      BY <3>1
  <2> QED
    BY <1>1, <2>1 DEF Decides
<1>5. Decides(E, keepsE, Ln, n)
  <2>1. ASSUME NEW x \in E, x < n PROVE {e \in Ln : e < x} = {e \in L : e < x}
    <3>1. \A e \in L : e \in Nat /\ x \in Nat /\ (e < x => e < n)
      BY <1>1, <1>3, <2>1
    <3> QED
      BY <3>1
  <2> QED
    BY <1>1, <2>1 DEF Decides
<1>6. SameBelow(D, keepsD, E, keepsE, n)
  <2>1. \A x \in E : x < n => x \in D
    BY <1>3 DEF GrowsBy
  <2> HIDE DEF n
  <2> QED
    BY <2>1 DEF SameBelow, GrowsBy
<1> HIDE DEF Kn, Ln, n
<1>7. \A x \in Nat : x < n => (x \in Kn <=> x \in Ln)
  BY <1>3, <1>4, <1>5, <1>6, DecidedAlike
<1> QED
  BY <1>3, <1>7 DEF Kn, Ln

-------------------------------------------------------------------------------
(* Groups of filings, and the endings made of them. *)

Dated(S) == \A f \in S : f.day \in Nat

LEMMA HeadsAre ==
    ASSUME NEW S, Dated(S)
    PROVE  /\ Heads(S) \subseteq {f.day : f \in S} /\ Heads(S) \subseteq Nat
           /\ \A d, e \in Heads(S) : e < d => d - e > 30
           /\ \A f \in S : \E d \in Heads(S) : f.day - d \in 0..30
<1> DEFINE D == {f.day : f \in S}
           keeps == {p \in D \X SUBSET D : \A e \in p[2] : p[1] - e > 30}
           H == InTurn(D, keeps)
<1>1. D \in SUBSET Nat
  BY DEF Dated
<1>2. \A d \in D, T \in SUBSET D : <<d, T>> \in keeps <=> \A e \in T : d - e > 30
  OBVIOUS
<1>3. Heads(S) = H
  BY DEF Heads
<1> HIDE DEF keeps
<1>4. H \in SUBSET D /\ \A d \in D : d \in H <=> <<d, {e \in H : e < d}>> \in keeps
  BY <1>1, InTurnIs
<1> HIDE DEF H
<1>5. \A d \in D : {e \in H : e < d} \in SUBSET D
  BY <1>4
<1>6. \A d \in D : d \in H <=> \A e \in {x \in H : x < d} : d - e > 30
  BY <1>2, <1>4, <1>5
<1>7. ASSUME NEW f \in S PROVE \E d \in H : f.day - d \in 0..30
  <2>1. f.day \in D /\ f.day \in Nat
    BY DEF Dated
  <2>2. CASE f.day \in H
    <3>1. f.day - f.day \in 0..30
      BY <2>1
    <3> QED
      BY <2>2, <3>1
  <2>3. CASE f.day \notin H
    <3>1. PICK e \in H : e < f.day /\ ~(f.day - e > 30)
      BY <1>6, <2>1, <2>3
    <3>2. e \in Nat
      BY <1>1, <1>4
    <3> QED
      BY <2>1, <3>1, <3>2
  <2> QED
    BY <2>2, <2>3
<1>8. \A d, e \in H : e < d => d - e > 30
  BY <1>4, <1>6
<1> QED
  BY <1>1, <1>3, <1>4, <1>7, <1>8

(* A group begins with its head. *)
LEMMA GroupIs ==
    ASSUME NEW S, Dated(S), NEW d \in Heads(S)
    PROVE  GroupAt(S, d) # {} /\ First(GroupAt(S, d)) = d /\ d \in Nat
<1>1. PICK f \in S : f.day = d
  BY HeadsAre
<1>2. d \in Nat /\ f \in GroupAt(S, d)
  BY <1>1 DEF GroupAt, Dated
<1>3. \A g \in GroupAt(S, d) : g.day \in Nat /\ d <= g.day
  BY <1>2 DEF GroupAt, Dated
<1> DEFINE G == GroupAt(S, d)
<1> HIDE DEF G
<1>4. \A g \in G : g.day \in Nat /\ d <= g.day
  BY <1>3 DEF G
<1>5. d \in {g.day : g \in G} /\ \A x \in {g.day : g \in G} : x \in Nat /\ d <= x
  BY <1>1, <1>2, <1>4 DEF G
<1>6. \E x \in {g.day : g \in G} : \A g \in G : x <= g.day
  BY <1>4, <1>5
<1>7. \A x \in {g.day : g \in G} : (\A g \in G : x <= g.day) => x = d
  <2> TAKE x \in {g.day : g \in G}
  <2>1. x \in Nat /\ d <= x
    BY <1>5
  <2>2. PICK g \in G : g.day = d
    BY <1>1, <1>2 DEF G
  <2> QED
    BY <1>2, <2>1, <2>2
<1>8. First(G) = d
  BY <1>6, <1>7 DEF First
<1> QED
  BY <1>2, <1>8 DEF G

LEMMA EndingIs ==
    ASSUME NEW i, NEW fs, NEW s, NEW S, Dated(S), NEW d \in Heads(S)
    PROVE  /\ EndingAt(i, fs, s, S, d).forms = GroupAt(S, d)
           /\ EndingAt(i, fs, s, S, d).day = d + 10
           /\ EndingAt(i, fs, s, S, d).by = "form25"
           /\ EndingAt(i, fs, s, S, d) # NoEnding
<1>1. GroupAt(S, d) # {} /\ First(GroupAt(S, d)) = d
  BY GroupIs
<1> DEFINE G == GroupAt(S, d)
<1>2. \E b, c : EndingAt(i, fs, s, S, d) = Ending(G, b, c, "form25")
  BY DEF EndingAt, Build
<1>3. PICK b, c : EndingAt(i, fs, s, S, d) = Ending(G, b, c, "form25")
  BY <1>2
<1>4. NoEnding.forms = {}
  BY DEF NoEnding
<1> HIDE DEF G
<1>5. /\ Ending(G, b, c, "form25").forms = G /\ Ending(G, b, c, "form25").day = Effective(First(G))
      /\ Ending(G, b, c, "form25").by = "form25"
  BY DEF Ending
<1> QED
  BY <1>1, <1>3, <1>4, <1>5 DEF G, Effective

(* Which groups count: all, but for one that comes after a definitive ending. *)
LEMMA CountedAre ==
    ASSUME NEW i, NEW fs, NEW s, NEW S, Dated(S)
    PROVE  LET C == Counted(i, fs, s, S)
           IN  /\ C \subseteq Heads(S)
               /\ \A d \in Heads(S) : d \in C <=>
                     StillCounts(i, s, d, {e \in C : e < d /\ Definitive(EndingAt(i, fs, s, S, e))})
<1> DEFINE D == Heads(S)
           ends == {d \in D : Definitive(EndingAt(i, fs, s, S, d))}
           keeps == {p \in D \X SUBSET D : StillCounts(i, s, p[1], p[2] \cap ends)}
           C == InTurn(D, keeps)
<1>1. Counted(i, fs, s, S) = C
  BY DEF Counted
<1>2. D \in SUBSET Nat
  BY HeadsAre
<1>3. \A d \in D, T \in SUBSET D : <<d, T>> \in keeps <=> StillCounts(i, s, d, T \cap ends)
  OBVIOUS
<1> HIDE DEF D, keeps
<1>4. C \in SUBSET D /\ \A d \in D : d \in C <=> <<d, {e \in C : e < d}>> \in keeps
  BY <1>2, InTurnIs
<1> HIDE DEF C
<1>5. ASSUME NEW d \in D
      PROVE  d \in C <=> StillCounts(i, s, d, {e \in C : e < d /\ Definitive(EndingAt(i, fs, s, S, e))})
  <2>1. {e \in C : e < d} \in SUBSET D
    BY <1>4
  <2>2. {e \in C : e < d} \cap ends = {e \in C : e < d /\ Definitive(EndingAt(i, fs, s, S, e))}
    BY <1>4
  <2> QED
    BY <1>3, <1>4, <2>1, <2>2
<1> QED
  BY <1>1, <1>4, <1>5 DEF D

-------------------------------------------------------------------------------
(* What the finder makes of one Form 25. *)

LEMMA Findings ==
    ASSUME NEW i, NEW fs, NEW s
    PROVE  /\ \A e \in Taken(i, fs, s) : e # NoEnding => e \in FindEndings(i, fs, s)
           /\ \A e \in FindEndings(i, fs, s) : e # NoEnding
<1> DEFINE T == Taken(i, fs, s)
<1> HIDE DEF T
<1>1. \E a, b : EndingsOf(i, fs, s, T) = (T \cup {a, b}) \ {NoEnding}
  BY DEF EndingsOf
<1>2. FindEndings(i, fs, s) = EndingsOf(i, fs, s, T)
  BY DEF FindEndings, T
<1> QED
  BY <1>1, <1>2 DEF T

(* A filing judged to be of a line is of one of its endings, or comes after a definitive one. *)
LEMMA CandidatesEnd ==
    ASSUME NEW i, NEW fs, NEW s, Dated(fs), NEW f \in Candidates(i, fs, s)
    PROVE  \E e \in FindEndings(i, fs, s) : f \in e.forms \/ (Definitive(e) /\ e.day < f.day)
<1> DEFINE S == Candidates(i, fs, s)
           C == Counted(i, fs, s, S)
           End(d) == EndingAt(i, fs, s, S, d)
<1>1. f \in S /\ S \subseteq fs
  BY DEF Candidates, Form25s
<1>2. Dated(S) /\ f.day \in Nat
  BY <1>1 DEF Dated
<1>3. \A d \in C : End(d) \in Taken(i, fs, s)
  BY DEF Taken, TakenFrom
<1> HIDE DEF S, C
<1>4. PICK d \in Heads(S) : f.day - d \in 0..30
  BY <1>1, <1>2, HeadsAre
<1>5. d \in Nat /\ f \in GroupAt(S, d)
  BY <1>1, <1>2, <1>4, GroupIs DEF GroupAt
<1>6. /\ C \subseteq Heads(S)
      /\ d \in C <=> StillCounts(i, s, d, {e \in C : e < d /\ Definitive(End(e))})
  BY <1>2, CountedAre DEF C
<1>7. \A h \in C : End(h).forms = GroupAt(S, h) /\ End(h).day = h + 10 /\ End(h) # NoEnding
  BY <1>2, <1>6, EndingIs
<1> HIDE DEF End
<1>8. \A h \in C : End(h) \in FindEndings(i, fs, s)
  BY <1>3, <1>7, Findings
<1>9. CASE d \in C
  BY <1>5, <1>7, <1>8, <1>9
<1>10. CASE d \notin C
  <2>1. PICK e \in C : e < d /\ Definitive(End(e)) /\ ~(d - Effective(e) <= 30)
    BY <1>6, <1>10 DEF StillCounts
  <2>2. e \in Nat
    BY <1>2, <1>6, HeadsAre
  <2>3. End(e).day < f.day
    BY <1>2, <1>4, <1>5, <1>7, <2>1, <2>2 DEF Effective
  <2> QED
    BY <1>8, <2>1, <2>3
<1> QED
  BY <1>9, <1>10

(* The lines a Form 25's text or a tie can give it are lines of its kind. *)
LEMMA OwnersAmong ==
    ASSUME NEW i, NEW f, NEW refs
    PROVE  Matched(i, f, refs) \cup TieOwners(i, f, refs) \subseteq Same(i, f, refs)
<1> DEFINE same == Same(i, f, refs)
<1>1. \A c : Picked(i, c, same) \subseteq same
  BY DEF Picked, Hits, NamedBy
<1>2. \A open, taken : Claimed(i, open, same, taken) \subseteq same
  BY DEF Claimed
<1>3. \A single : MatchedBy(i, f, same, single) \subseteq same
  <2> TAKE single
  <2> DEFINE open == f.classes \ single
             taken == UNION {Picked(i, c, same) : c \in single}
             claimed == Claimed(i, open, same, taken)
             letters == UNION {Claims(i, r, open, same) : r \in claimed}
  <2>1. taken \subseteq same /\ claimed \subseteq same
    BY <1>1, <1>2
  <2>2. MatchedBy(i, f, same, single) = OneEach(taken, claimed, letters)
    BY DEF MatchedBy
  <2> HIDE DEF taken, claimed, letters
  <2> QED
    BY <2>1, <2>2 DEF OneEach
<1>4. Matched(i, f, refs) \subseteq same
  BY <1>3 DEF Matched, ByClass
<1>5. Tied(i, f, refs) \subseteq same
  <2>1. \A c : TiedBy(i, c, same) \subseteq same
    <3>1. \A c : Hits(i, c, same) \subseteq same /\ Letterless(i, c, same) \subseteq same
      BY DEF Hits, Letterless, NamedBy
    <3> QED
      BY <1>1, <3>1 DEF TiedBy
  <2> QED
    BY <2>1 DEF Tied, TiedAmong
<1>6. TieCandidates(i, f, refs) \subseteq same /\ EveryClass(i, f, refs) \subseteq same
  BY <1>5 DEF TieCandidates, Open, EveryClass
<1>7. \A cands, lines : TieBroken(i, f, cands, lines) \subseteq cands \cup lines
  BY DEF TieBroken
<1> QED
  BY <1>4, <1>6, <1>7 DEF TieOwners

(* A filing read while lines of its kind live is one of these lines', or left for review. *)
LEMMA Judging ==
    ASSUME NEW i, NEW fs, NEW f \in Form25s(fs), IsFiniteSet(Lines), Legible(f), Same(i, f, Alive(i, f)) # {},
           \A s \in Alive(i, f) : ~OtherClass(i, f, s) /\ ~ClassConflict(i, f, s) /\ ~NotThisRemoval(i, s, f)
    PROVE  \E s \in Lines : f \in Candidates(i, fs, s) \/ f \in Reviewed(i, fs, s)
<1> DEFINE A == Alive(i, f)
           same == Same(i, f, A)
           owners == Matched(i, f, A) \cup TieOwners(i, f, A)
<1>1. A \in SUBSET Lines /\ same \in SUBSET A /\ same # {} /\ A # {}
  BY DEF Alive, Same
<1>2. \A s \in A : f.day >= Floor(i, s)
  BY DEF Alive, Floor
<1>3. \A s \in A : ~Late(i, s, f) /\ Refs(i, s, f) = A /\ Looked(i, s, f)
  BY <1>1, <1>2 DEF Late, Refs, Looked
<1>4. owners \subseteq same
  BY OwnersAmong
<1>5. ASSUME NEW s \in A, s \in owners, f.kind # "other" PROVE f \in Candidates(i, fs, s)
  <2>1. Judged(i, s, f, Refs(i, s, f), Late(i, s, f))
    BY <1>3, <1>5 DEF Judged
  <2> QED
    BY <1>3, <2>1 DEF Candidates
<1>6. ASSUME NEW s \in A, Unplaced(i, s, f, A) PROVE f \in Reviewed(i, fs, s)
  BY <1>3, <1>6 DEF Reviewed
<1>7. CASE f.kind = "other"
  <2>1. \A s \in A : Unplaced(i, s, f, A)
    BY <1>7 DEF Unplaced
  <2> QED
    BY <1>1, <1>6, <2>1
<1>8. CASE f.kind # "other" /\ owners # {}
  BY <1>1, <1>4, <1>5, <1>8
<1>9. CASE f.kind # "other" /\ owners = {}
  <2>1. Cardinality(same) # 1
    BY <1>1, <1>9 DEF Matched
  <2>2. IsFiniteSet(same) /\ Cardinality(same) \in Nat /\ Cardinality(same) # 0
    <3>1. same \in SUBSET Lines
      BY <1>1
    <3>2. IsFiniteSet(same)
      BY <3>1, FS_Subset
    <3> QED
      BY <1>1, <3>2, FS_CardinalityType, FS_EmptySet
  <2>3. Cardinality(same) > 1
    BY <2>1, <2>2
  <2>4. \A s \in A : Unplaced(i, s, f, A)
    BY <1>9, <2>3 DEF Unplaced
  <2> QED
    BY <1>1, <1>6, <2>4
<1> QED
  BY <1>7, <1>8, <1>9

-------------------------------------------------------------------------------
(* No form is lost. *)

SearchOK ==
    /\ filings \subseteq Docket /\ seen \subseteq filings
    /\ DOMAIN found = Lines /\ DOMAIN review = Lines
    /\ NoFormIsLost

LEMMA RunLosesNone ==
    ASSUME SearchOK, Find
    PROVE  NoFormIsLost'
<1>1. Dated(filings) /\ IsFiniteSet(Lines)
  BY EndingSearchAssumption DEF SearchOK, Dated
<1>2. /\ issuer' = issuer /\ filings' = filings
      /\ found' = [s \in Lines |-> FindEndings(issuer, filings, s)]
      /\ review' = [s \in Lines |-> Reviewed(issuer, filings, s)]
  BY DEF Find
<1>3. SUFFICES ASSUME NEW f \in Form25s(filings), Legible(f), Same(issuer, f, Alive(issuer, f)) # {},
                      \A s \in Alive(issuer, f) : /\ ~OtherClass(issuer, f, s) /\ ~ClassConflict(issuer, f, s)
                                                  /\ ~NotThisRemoval(issuer, s, f)
               PROVE  \/ \E s \in Lines : f \in review'[s] \/ \E e \in found'[s] : f \in e.forms
                      \/ \E s \in Lines : \E e \in found'[s] : Definitive(e) /\ e.day < f.day
  BY <1>2 DEF NoFormIsLost
<1>4. PICK s \in Lines : f \in Candidates(issuer, filings, s) \/ f \in Reviewed(issuer, filings, s)
  BY <1>1, <1>3, Judging
<1>5. CASE f \in Reviewed(issuer, filings, s)
  BY <1>2, <1>5
<1>6. CASE f \in Candidates(issuer, filings, s)
  <2>1. \E e \in FindEndings(issuer, filings, s) : f \in e.forms \/ (Definitive(e) /\ e.day < f.day)
    BY <1>1, <1>6, CandidatesEnd
  <2> QED
    BY <1>2, <2>1
<1> QED
  BY <1>4, <1>5, <1>6

LEMMA SearchStep == SearchOK /\ [Next]_vars => SearchOK'
<1> SUFFICES ASSUME SearchOK, [Next]_vars PROVE SearchOK'
  OBVIOUS
<1>1. CASE Find
  <2>1. NoFormIsLost'
    BY <1>1, RunLosesNone
  <2> QED
    BY <1>1, <2>1 DEF SearchOK, Find
<1>2. ASSUME NEW f \in Docket, File(f) PROVE SearchOK'
  <2>1. /\ filings' = filings \cup {f}
        /\ UNCHANGED <<issuer, seen, found, review>>
    BY <1>2 DEF File
  <2>2. seen \subseteq filings /\ \A g \in Form25s(filings') \cap seen : g \in Form25s(filings) \cap seen
    BY DEF SearchOK, Form25s
  <2>3. NoFormIsLost'
    BY <2>1, <2>2 DEF SearchOK, NoFormIsLost
  <2> QED
    BY <2>1, <2>3 DEF SearchOK
<1>3. CASE UNCHANGED vars
  BY <1>3 DEF vars, SearchOK, NoFormIsLost
<1> QED
  BY <1>1, <1>2, <1>3 DEF Next

(* A Form 25 that names the kind of a line and is filed while the line lives is some line's
   ending, or left for review, or a removal explains it (delistings.py find, with its eight
   ways to refuse a filing): for any lines, issuers and filings. *)
THEOREM FormsKept == Spec => []NoFormIsLost
<1>1. Init => SearchOK
  BY DEF Init, SearchOK, NoFormIsLost
<1>2. SearchOK => NoFormIsLost
  BY DEF SearchOK
<1> QED
  BY <1>1, <1>2, SearchStep, PTL DEF Spec

-------------------------------------------------------------------------------
(* One filing more: a Form 25 that can be read, or another form that moves no listing. *)

OneMore(fs, f, gs) ==
    /\ gs = fs \cup {f} /\ Dated(gs) /\ \A g \in fs : g.day < f.day
    /\ f.form # "8-A12B" /\ f.readable

OneMoreOf(S, f, T) == T = S \/ T = S \cup {f}

LEMMA MovesAlike ==
    ASSUME NEW fs, NEW f, NEW gs, OneMore(fs, f, gs), NEW g
    PROVE  EightA(gs, g) <=> EightA(fs, g)
BY DEF OneMore, EightA

LEMMA BuiltAlike ==
    ASSUME NEW fs, NEW f, NEW gs, OneMore(fs, f, gs), NEW i, NEW s, NEW group
    PROVE  Build(i, gs, s, group) = Build(i, fs, s, group)
<1>1. \A g \in group : /\ EightA(gs, g) <=> EightA(fs, g)
                       /\ Continued(i, gs, s, g) <=> Continued(i, fs, s, g)
  BY MovesAlike DEF Continued
<1>2. MovedOtc(i, gs, s, group) <=> MovedOtc(i, fs, s, group)
  BY <1>1 DEF MovedOtc
<1>3. /\ (\E g \in group : Continued(i, gs, s, g)) <=> (\E g \in group : Continued(i, fs, s, g))
      /\ (\E g \in group : EightA(gs, g)) <=> (\E g \in group : EightA(fs, g))
  BY <1>1
<1> DEFINE was == \E g \in group : Continued(i, fs, s, g)
           is  == \E g \in group : Continued(i, gs, s, g)
<1>4. CASE was
  <2>1. is
    BY <1>3, <1>4
  <2> QED
    BY <1>2, <1>3, <1>4, <2>1, Zenon DEF Build
<1>5. CASE ~was
  <2>1. ~is
    BY <1>3, <1>5
  <2> QED
    BY <1>2, <1>3, <1>5, <2>1, Zenon DEF Build
<1> QED
  BY <1>4, <1>5

LEMMA FilingsGrow ==
    ASSUME NEW fs, NEW f, NEW gs, OneMore(fs, f, gs), NEW i, NEW s
    PROVE  /\ OneMoreOf(Candidates(i, fs, s), f, Candidates(i, gs, s))
           /\ OneMoreOf(Early(i, fs, s), f, Early(i, gs, s))
           /\ UnreadEarly(i, gs, s) = UnreadEarly(i, fs, s)
           /\ Candidates(i, gs, s) \subseteq gs /\ Early(i, gs, s) \subseteq gs
           /\ Candidates(i, fs, s) \subseteq fs /\ Early(i, fs, s) \subseteq fs
<1>1. /\ \A g : EightA(gs, g) <=> EightA(fs, g)
      /\ \A g : Continued(i, gs, s, g) <=> Continued(i, fs, s, g)
  BY MovesAlike DEF Continued
<1>2. gs = fs \cup {f} /\ f.readable
  BY DEF OneMore
<1>3. OneMoreOf(Candidates(i, fs, s), f, Candidates(i, gs, s))
  BY <1>1, <1>2 DEF Candidates, Form25s, OneMoreOf
<1>4. OneMoreOf(Early(i, fs, s), f, Early(i, gs, s))
  BY <1>1, <1>2 DEF Early, Form25s, OneMoreOf
<1>5. UnreadEarly(i, gs, s) = UnreadEarly(i, fs, s)
  BY <1>2 DEF UnreadEarly, Form25s
<1> QED
  BY <1>3, <1>4, <1>5 DEF Candidates, Early, Form25s

(* The heads of the groups stay, and so do all groups but, it may be, the last. *)
LEMMA HeadsGrow ==
    ASSUME NEW S, NEW f, Dated(S \cup {f}), \A g \in S : g.day < f.day
    PROVE  /\ \A d \in {g.day : g \in S} : d \in Heads(S) <=> d \in Heads(S \cup {f})
           /\ Heads(S) \subseteq Heads(S \cup {f}) /\ Heads(S \cup {f}) \subseteq Heads(S) \cup {f.day}
           /\ \A d \in Heads(S) : d \in Nat /\ d < f.day
           /\ \A d \in Heads(S), e \in Heads(S) : e < d => GroupAt(S \cup {f}, e) = GroupAt(S, e)
<1> DEFINE T == S \cup {f}
           D == {g.day : g \in S}
           E == {g.day : g \in T}
           apart(A) == {p \in A \X SUBSET A : \A e \in p[2] : p[1] - e > 30}
<1>1. Dated(S) /\ D \in SUBSET Nat /\ E \in SUBSET Nat /\ f.day \in Nat
  BY DEF Dated
<1>2. D \subseteq E /\ E = D \cup {f.day} /\ \A d \in D, e \in E \ D : d < e
  OBVIOUS
<1>3. \A d \in D, U \in SUBSET D : /\ {e \in U : e < d} \in SUBSET D /\ {e \in U : e < d} \in SUBSET E
                                    /\ d \in D /\ d \in E
  BY <1>2
<1>4. \A d \in D, U \in SUBSET D : <<d, {e \in U : e < d}>> \in apart(D) <=> <<d, {e \in U : e < d}>> \in apart(E)
  BY <1>3
<1>5. Heads(S) = InTurn(D, apart(D)) /\ Heads(T) = InTurn(E, apart(E))
  BY DEF Heads
<1> HIDE DEF apart, D, E
<1>6. \A d \in D : d \in Heads(S) <=> d \in Heads(T)
  <2>1. GrowsBy(D, apart(D), E, apart(E))
    BY <1>2, <1>4 DEF GrowsBy
  <2> QED
    BY <1>1, <1>5, <2>1, InTurnGrows
<1>7. Heads(S) \subseteq D /\ Heads(T) \subseteq E
  BY <1>1, HeadsAre DEF D, E
<1>8. \A d \in D : d \in Nat /\ d < f.day
  BY <1>1 DEF D
<1>9. ASSUME NEW d \in Heads(S), NEW e \in Heads(S), e < d PROVE GroupAt(T, e) = GroupAt(S, e)
  <2>1. d - e > 30 /\ d \in Nat /\ e \in Nat /\ d < f.day
    BY <1>1, <1>7, <1>8, <1>9, HeadsAre
  <2>2. f.day - e \notin 0..30
    BY <1>1, <2>1
  <2> QED
    BY <2>2 DEF GroupAt
<1> QED
  <2>1. \A d \in Heads(T) : d \in D => d \in Heads(S)
    BY <1>6
  <2>2. Heads(S) \subseteq Heads(T) /\ Heads(T) \subseteq Heads(S) \cup {f.day}
    BY <1>2, <1>6, <1>7, <2>1
  <2>3. \A d \in Heads(S) : d \in Nat /\ d < f.day
    BY <1>7, <1>8
  <2>4. \A d \in {g.day : g \in S} : d \in Heads(S) <=> d \in Heads(T)
    BY <1>6 DEF D
  <2> HIDE DEF T
  <2>5. /\ \A d \in {g.day : g \in S} : d \in Heads(S) <=> d \in Heads(T)
        /\ \A d \in Heads(S), e \in Heads(S) : e < d => GroupAt(T, e) = GroupAt(S, e)
    BY <1>9, <2>4
  <2> QED
    BY <2>2, <2>3, <2>5 DEF T

(* The groups that count stay those that count. *)
LEMMA CountedGrow ==
    ASSUME NEW fs, NEW f, NEW gs, OneMore(fs, f, gs), NEW i, NEW s, NEW S \in SUBSET fs
    PROVE  \A d \in Heads(S) : d \in Counted(i, fs, s, S) <=> d \in Counted(i, gs, s, S \cup {f})
<1> DEFINE T == S \cup {f}
           D == Heads(S)
           E == Heads(T)
           endsS == {d \in D : Definitive(EndingAt(i, fs, s, S, d))}
           endsT == {d \in E : Definitive(EndingAt(i, gs, s, T, d))}
           counts(A, ends) == {p \in A \X SUBSET A : StillCounts(i, s, p[1], p[2] \cap ends)}
<1>1. Dated(T) /\ Dated(S) /\ f.day \in Nat /\ \A g \in S : g.day < f.day
  BY DEF OneMore, Dated
<1>2. /\ D \subseteq E /\ E \subseteq D \cup {f.day} /\ \A d \in D : d \in Nat /\ d < f.day
      /\ \A d \in D, e \in D : e < d => GroupAt(T, e) = GroupAt(S, e)
  BY <1>1, HeadsGrow
<1>3. \A d \in D, e \in D : e < d => (e \in endsS <=> e \in endsT)
  <2> TAKE d \in D, e \in D
  <2> HAVE e < d
  <2>1. EndingAt(i, gs, s, T, e) = EndingAt(i, fs, s, S, e)
    BY <1>2, BuiltAlike DEF EndingAt
  <2> QED
    BY <1>2, <2>1
<1>4. Counted(i, fs, s, S) = InTurn(D, counts(D, endsS)) /\ Counted(i, gs, s, T) = InTurn(E, counts(E, endsT))
  BY DEF Counted
<1> HIDE DEF D, E, endsS, endsT
<1>5. ASSUME NEW d \in D, NEW U \in SUBSET D
      PROVE  <<d, {e \in U : e < d}>> \in counts(D, endsS) <=> <<d, {e \in U : e < d}>> \in counts(E, endsT)
  <2>1. {e \in U : e < d} \cap endsS = {e \in U : e < d} \cap endsT
    BY <1>3
  <2>2. {e \in U : e < d} \in SUBSET D /\ {e \in U : e < d} \in SUBSET E /\ d \in E
    BY <1>2
  <2> QED
    BY <2>1, <2>2
<1>6. D \in SUBSET Nat /\ E \in SUBSET Nat /\ D \subseteq E /\ \A d \in D, e \in E \ D : d < e
  BY <1>1, <1>2
<1> HIDE DEF counts
<1>7. \A d \in D : d \in InTurn(D, counts(D, endsS)) <=> d \in InTurn(E, counts(E, endsT))
  <2>1. GrowsBy(D, counts(D, endsS), E, counts(E, endsT))
    BY <1>5, <1>6 DEF GrowsBy
  <2> QED
    BY <1>6, <2>1, InTurnGrows
<1> QED
  BY <1>4, <1>7 DEF D

(* The endings of the scan stay, but for one the new filing is of; and no other comes. *)
LEMMA TakenGrow ==
    ASSUME NEW fs, NEW f, NEW gs, OneMore(fs, f, gs), NEW i, NEW s
    PROVE  /\ \A e \in Taken(i, fs, s) : e \in Taken(i, gs, s) \/ \E x \in Taken(i, gs, s) : f \in x.forms
           /\ \A x \in Taken(i, gs, s) : x \in Taken(i, fs, s) \/ f \in x.forms
<1> DEFINE S == Candidates(i, fs, s)
           T == Candidates(i, gs, s)
           was(d) == EndingAt(i, fs, s, S, d)
           is(d) == EndingAt(i, gs, s, T, d)
<1>1. /\ OneMoreOf(S, f, T) /\ S \subseteq fs /\ T \subseteq gs
      /\ Taken(i, fs, s) = {was(d) : d \in Counted(i, fs, s, S)}
      /\ Taken(i, gs, s) = {is(d) : d \in Counted(i, gs, s, T)}
  BY FilingsGrow DEF Taken, TakenFrom
<1>2. Dated(S) /\ Dated(T) /\ f.day \in Nat /\ \A g \in S : g.day < f.day
  BY <1>1 DEF OneMore, Dated
<1> HIDE DEF S, T
<1>3. /\ Counted(i, fs, s, S) \subseteq Heads(S) /\ Counted(i, gs, s, T) \subseteq Heads(T)
      /\ \A d \in Heads(T) : is(d).forms = GroupAt(T, d)
  BY <1>2, CountedAre, EndingIs
<1>4. \A d : GroupAt(T, d) = GroupAt(S, d) => is(d) = was(d)
  BY BuiltAlike DEF EndingAt
<1>5. \A d \in Heads(S) : d \in Heads(T) /\ (d \in Counted(i, fs, s, S) <=> d \in Counted(i, gs, s, T))
  <2>1. CASE T = S
    <3>1. Counted(i, gs, s, S) = Counted(i, fs, s, S)
      <4>1. \A d : EndingAt(i, gs, s, S, d) = EndingAt(i, fs, s, S, d)
        BY BuiltAlike DEF EndingAt
      <4>2. {d \in Heads(S) : Definitive(EndingAt(i, gs, s, S, d))}
              = {d \in Heads(S) : Definitive(EndingAt(i, fs, s, S, d))}
        BY <4>1
      <4> QED
        BY <4>2 DEF Counted
    <3> QED
      BY <2>1, <3>1
  <2>2. CASE T = S \cup {f}
    <3>1. Heads(S) \subseteq Heads(T)
      BY <1>2, <2>2, HeadsGrow
    <3>2. \A d \in Heads(S) : d \in Counted(i, fs, s, S) <=> d \in Counted(i, gs, s, T)
      BY <1>1, <2>2, CountedGrow
    <3> QED
      BY <3>1, <3>2
  <2> QED
    BY <1>1, <2>1, <2>2 DEF OneMoreOf
<1>6. \A d : f \in GroupAt(T, d) \/ GroupAt(T, d) = GroupAt(S, d)
  BY <1>1 DEF GroupAt, OneMoreOf
<1>7. \A d \in Heads(T) : d \in Heads(S) \/ f \in GroupAt(T, d)
  <2>1. CASE T = S
    BY <2>1
  <2>2. CASE T = S \cup {f}
    <3>1. Heads(T) \subseteq Heads(S) \cup {f.day}
      BY <1>2, <2>2, HeadsGrow
    <3>2. f \in GroupAt(T, f.day)
      BY <1>2, <2>2 DEF GroupAt
    <3> QED
      BY <3>1, <3>2
  <2> QED
    BY <1>1, <2>1, <2>2 DEF OneMoreOf
<1> HIDE DEF was, is
<1>8. ASSUME NEW d \in Counted(i, fs, s, S)
      PROVE  was(d) \in Taken(i, gs, s) \/ \E x \in Taken(i, gs, s) : f \in x.forms
  <2>1. d \in Counted(i, gs, s, T) /\ is(d) \in Taken(i, gs, s) /\ is(d).forms = GroupAt(T, d)
    BY <1>1, <1>3, <1>5
  <2> QED
    BY <1>4, <1>6, <2>1
<1>9. ASSUME NEW d \in Counted(i, gs, s, T)
      PROVE  is(d) \in Taken(i, fs, s) \/ f \in is(d).forms
  <2>1. CASE f \in GroupAt(T, d)
    BY <1>3, <2>1
  <2>2. CASE f \notin GroupAt(T, d)
    <3>1. d \in Heads(S) /\ is(d) = was(d)
      BY <1>3, <1>4, <1>6, <1>7, <2>2
    <3>2. d \in Counted(i, fs, s, S)
      BY <1>5, <3>1
    <3> QED
      BY <1>1, <3>1, <3>2
  <2> QED
    BY <2>1, <2>2
<1> QED
  BY <1>1, <1>8, <1>9

(* What a run finds: what the scan takes and, when nothing of it is definitive, the early
   window's ending, or what the fallback gives, which says so. *)
OpenYet(i, fs, s) == \A e \in Taken(i, fs, s) : ~Definitive(e)

LEMMA FoundAre ==
    ASSUME NEW i \in Issuers, NEW fs, NEW s
    PROVE  /\ OpenYet(i, fs, s) /\ EarlyEnding(i, fs, s) # NoEnding => EarlyEnding(i, fs, s) \in FindEndings(i, fs, s)
           /\ \A e \in FindEndings(i, fs, s) :
                 \/ e \in Taken(i, fs, s)
                 \/ OpenYet(i, fs, s) /\ e = EarlyEnding(i, fs, s) /\ e # NoEnding
                 \/ e.by \notin {"form25", "early"}
<1>1. Fallback(i, fs, s) = NoEnding \/ Fallback(i, fs, s).by \notin {"form25", "early"}
  <2>1. i.fallback \notin {"form25", "early"}
    BY EndingSearchAssumption
  <2>2. \A g : Revived(i, s, g) = NoEnding \/ Revived(i, s, g).by = "older"
    BY DEF Revived, Ending
  <2>3. CASE Pick(i, fs, s) # {}
    BY <2>2, <2>3 DEF Fallback
  <2>4. CASE Pick(i, fs, s) = {} /\ i.fallback = "nothing"
    BY <2>4 DEF Fallback
  <2>5. CASE Pick(i, fs, s) = {} /\ i.fallback # "nothing"
    <3>1. Fallback(i, fs, s).by = i.fallback
      BY <2>5 DEF Fallback, NoEnding
    <3> QED
      BY <2>1, <3>1
  <2> QED
    BY <2>3, <2>4, <2>5
<1> DEFINE T == Taken(i, fs, s)
           early == EarlyEnding(i, fs, s)
           fall == Fallback(i, fs, s)
<1>2. FindEndings(i, fs, s) = EndingsOf(i, fs, s, T)
  BY DEF FindEndings
<1>3. OpenYet(i, fs, s) <=> \A e \in T : ~Definitive(e)
  BY DEF OpenYet
<1> HIDE DEF T, early, fall
<1>4. CASE ~OpenYet(i, fs, s)
  <2>1. EndingsOf(i, fs, s, T) = T \ {NoEnding}
    BY <1>3, <1>4 DEF EndingsOf
  <2> QED
    BY <1>2, <1>4, <2>1 DEF T
<1>5. CASE OpenYet(i, fs, s)
  <2>1. EndingsOf(i, fs, s, T) \in {(T \cup {early, fall}) \ {NoEnding}, (T \cup {early, NoEnding}) \ {NoEnding}}
    BY <1>3, <1>5 DEF EndingsOf, early, fall
  <2>2. /\ early # NoEnding => early \in EndingsOf(i, fs, s, T)
        /\ \A e \in EndingsOf(i, fs, s, T) : e \in T \/ (e = early /\ e # NoEnding) \/ (e = fall /\ e # NoEnding)
    BY <2>1
  <2> QED
    BY <1>1, <1>2, <1>5, <2>2 DEF T, early, fall
<1> QED
  BY <1>4, <1>5

(* The last group of more filings holds the last filing. *)
LEMMA LastGroupHolds ==
    ASSUME NEW S, Dated(S), NEW f \in S, \A g \in S : g.day <= f.day
    PROVE  f \in LastGroup(S)
<1> DEFINE H == Heads(S)
<1>1. H \subseteq {g.day : g \in S} /\ H \subseteq Nat /\ f.day \in Nat
  BY HeadsAre DEF Dated
<1>2. PICK d \in H : f.day - d \in 0..30
  BY HeadsAre
<1> HIDE DEF H
<1>3. \E m \in H : \A x \in H : m >= x
  <2> DEFINE gaps == {f.day - x : x \in H}
  <2>1. \A x \in H : x \in Nat /\ f.day - x \in Nat
    BY <1>1
  <2>2. gaps \in SUBSET Nat /\ gaps # {}
    BY <1>2, <2>1
  <2>3. PICK q \in gaps : \A y \in gaps : q <= y
    BY <2>2, LeastNatural
  <2>4. PICK m \in H : q = f.day - m
    BY <2>3
  <2>5. \A x \in H : f.day - m <= f.day - x
    BY <2>3, <2>4
  <2> QED
    BY <1>1, <2>4, <2>5
<1>4. Max(H) \in H /\ \A x \in H : Max(H) >= x
  BY <1>3 DEF Max
<1>5. f.day - Max(H) \in 0..30
  <2>1. Max(H) \in Nat /\ d \in Nat /\ Max(H) >= d
    BY <1>1, <1>4
  <2>2. PICK g \in S : g.day = Max(H)
    BY <1>1, <1>4
  <2>3. Max(H) <= f.day
    BY <2>2
  <2> QED
    BY <1>1, <1>2, <2>1, <2>3
<1> QED
  BY <1>5 DEF LastGroup, GroupAt, H

LEMMA EarlyGrows ==
    ASSUME NEW fs, NEW f, NEW gs, OneMore(fs, f, gs), NEW i, NEW s, EarlyEnding(i, fs, s) # NoEnding
    PROVE  EarlyEnding(i, gs, s) # NoEnding
           /\ (EarlyEnding(i, gs, s) = EarlyEnding(i, fs, s) \/ f \in EarlyEnding(i, gs, s).forms)
<1> DEFINE S == Early(i, fs, s)
           T == Early(i, gs, s)
           U == UnreadEarly(i, gs, s)
<1>1. /\ OneMoreOf(S, f, T) /\ UnreadEarly(i, fs, s) = U /\ S \subseteq fs /\ T \subseteq gs
  BY FilingsGrow
<1>2. U \subseteq gs
  BY DEF UnreadEarly, Form25s
<1>3. /\ \A g : EndingBefore(i, gs, s, g) = EndingBefore(i, fs, s, g)
      /\ \A g : g # {} /\ (\A u \in U : \E h \in g : ~(h.day < u.day)) =>
                    EndingBefore(i, gs, s, g) = Ending(g, Called(i, s, First(g)), FALSE, "early")
  BY <1>1 DEF EndingBefore
<1>4. EarlyEnding(i, fs, s) = EndingBefore(i, fs, s, LastGroup(S)) /\ EarlyEnding(i, gs, s) = EndingBefore(i, gs, s, LastGroup(T))
  BY DEF EarlyEnding
<1> HIDE DEF S, T, U
<1>5. CASE T = S
  BY <1>3, <1>4, <1>5
<1>6. CASE T = S \cup {f}
  <2>1. Dated(T) /\ f \in T /\ \A g \in gs : g.day \in Nat /\ g.day <= f.day
    BY <1>1, <1>6 DEF OneMore, Dated
  <2>2. f \in LastGroup(T)
    BY <1>1, <2>1, LastGroupHolds
  <2>3. \A u \in U : ~(f.day < u.day)
    <3>1. f \in gs /\ f.day \in Nat
      BY <1>1, <2>1
    <3> QED
      BY <1>2, <2>1, <3>1
  <2>4. EarlyEnding(i, gs, s) = Ending(LastGroup(T), Called(i, s, First(LastGroup(T))), FALSE, "early")
    BY <1>3, <1>4, <2>2, <2>3
  <2>5. \A g, c : Ending(g, c, FALSE, "early").forms = g
    BY DEF Ending
  <2>6. EarlyEnding(i, gs, s).forms = LastGroup(T)
    BY <2>4, <2>5
  <2>7. NoEnding.forms = {}
    BY DEF NoEnding
  <2> QED
    BY <2>2, <2>6, <2>7
<1> QED
  BY <1>1, <1>5, <1>6 DEF OneMoreOf

(* The next run keeps an ending, or one of its endings holds the new filing. *)
LEMMA FindingsGrow ==
    ASSUME NEW fs, NEW f, NEW gs, OneMore(fs, f, gs), NEW i \in Issuers, NEW s,
           NEW e \in FindEndings(i, fs, s), e.by \in {"form25", "early"}
    PROVE  \E x \in FindEndings(i, gs, s) : e.forms \subseteq x.forms \/ f \in x.forms
<1>1. \A x \in Taken(i, gs, s) : x # NoEnding => x \in FindEndings(i, gs, s)
  BY Findings
<1>2. e # NoEnding /\ NoEnding.forms = {}
  BY Findings DEF NoEnding
<1>3. CASE e \in Taken(i, fs, s)
  <2>1. e \in Taken(i, gs, s) \/ \E x \in Taken(i, gs, s) : f \in x.forms
    BY <1>3, TakenGrow
  <2> QED
    BY <1>1, <1>2, <2>1
<1>4. CASE OpenYet(i, fs, s) /\ e = EarlyEnding(i, fs, s)
  <2>1. CASE OpenYet(i, gs, s)
    <3>1. EarlyEnding(i, gs, s) \in FindEndings(i, gs, s)
      BY <1>2, <1>4, <2>1, EarlyGrows, FoundAre
    <3> QED
      BY <1>2, <1>4, <3>1, EarlyGrows
  <2>2. CASE ~OpenYet(i, gs, s)
    <3>1. PICK x \in Taken(i, gs, s) : Definitive(x)
      BY <2>2 DEF OpenYet
    <3>2. x \notin Taken(i, fs, s)
      BY <1>4, <3>1 DEF OpenYet
    <3>3. f \in x.forms
      BY <3>2, TakenGrow
    <3> QED
      BY <1>1, <1>2, <3>3
  <2> QED
    BY <2>1, <2>2
<1> QED
  BY <1>3, <1>4, FoundAre

-------------------------------------------------------------------------------
(* No filing of another line takes an ending away. *)

Kept(s, e) ==
    \/ e.by \notin {"form25", "early"}
    \/ \E x \in FindEndings(issuer, filings, s) : e.forms \subseteq x.forms
    \/ \E f \in filings \ seen : \/ f.form = "8-A12B" \/ ~f.readable
                               \/ \E x \in FindEndings(issuer, filings, s) : f \in x.forms

KeepsOK ==
    /\ filings \subseteq Docket /\ issuer \in Issuers /\ DOMAIN found = Lines
    /\ seen = filings => found = [s \in Lines |-> FindEndings(issuer, filings, s)]
    /\ \A s \in Lines : \A e \in found[s] : Kept(s, e)

LEMMA FiledKeeps ==
    ASSUME KeepsOK, NEW f \in Docket, File(f)
    PROVE  KeepsOK'
<1>1. /\ f \notin filings /\ seen = filings /\ filings' = filings \cup {f} /\ \A g \in filings : g.day < f.day
      /\ UNCHANGED <<issuer, seen, found, review>>
  BY DEF File
<1>2. found = [s \in Lines |-> FindEndings(issuer, filings, s)]
  BY <1>1 DEF KeepsOK
<1>3. Dated(filings \cup {f})
  BY EndingSearchAssumption DEF KeepsOK, Dated
<1>4. ASSUME NEW s \in Lines, NEW e \in found[s] PROVE Kept(s, e)'
  <2>1. f \in filings' \ seen'
    BY <1>1
  <2>2. CASE f.form = "8-A12B" \/ ~f.readable
    BY <2>1, <2>2 DEF Kept
  <2>3. CASE f.form # "8-A12B" /\ f.readable /\ e.by \in {"form25", "early"}
    <3>1. OneMore(filings, f, filings \cup {f})
      BY <1>1, <1>3, <2>3 DEF OneMore
    <3>2. e \in FindEndings(issuer, filings, s) /\ issuer \in Issuers
      BY <1>2 DEF KeepsOK
    <3>3. \E x \in FindEndings(issuer, filings \cup {f}, s) : e.forms \subseteq x.forms \/ f \in x.forms
      BY <2>3, <3>1, <3>2, FindingsGrow
    <3> QED
      BY <1>1, <2>1, <3>3 DEF Kept
  <2>4. CASE e.by \notin {"form25", "early"}
    BY <2>4 DEF Kept
  <2> QED
    BY <2>2, <2>3, <2>4
<1> QED
  BY <1>1, <1>4 DEF KeepsOK

LEMMA FoundKeeps ==
    ASSUME KeepsOK, Find
    PROVE  KeepsOK'
<1>1. /\ found' = [s \in Lines |-> FindEndings(issuer, filings, s)]
      /\ seen' = filings /\ UNCHANGED <<issuer, filings>>
  BY DEF Find
<1>2. ASSUME NEW s \in Lines, NEW e \in found'[s] PROVE Kept(s, e)'
  BY <1>1 DEF Kept
<1> QED
  BY <1>1, <1>2 DEF KeepsOK

LeavesThem ==
    \A s \in Lines : \A e \in found[s] :
        \/ e.by \notin {"form25", "early"} \/ \E x \in found'[s] : e.forms \subseteq x.forms
        \/ \E f \in seen' \ seen : f.form = "8-A12B" \/ ~f.readable \/ \E x \in found'[s] : f \in x.forms

LEMMA KeepsStep == KeepsOK /\ [Next]_vars => KeepsOK' /\ [LeavesThem]_vars
<1> SUFFICES ASSUME KeepsOK, [Next]_vars PROVE KeepsOK' /\ [LeavesThem]_vars
  OBVIOUS
<1>1. CASE Find
  <2>1. LeavesThem
    BY <1>1 DEF Find, KeepsOK, Kept, LeavesThem
  <2> QED
    BY <1>1, <2>1, FoundKeeps
<1>2. ASSUME NEW f \in Docket, File(f) PROVE KeepsOK' /\ [LeavesThem]_vars
  <2>1. LeavesThem
    <3>1. found' = found
      BY <1>2 DEF File
    <3> QED
      BY <3>1 DEF LeavesThem
  <2> QED
    BY <1>2, <2>1, FiledKeeps
<1>3. CASE UNCHANGED vars
  BY <1>3 DEF vars, KeepsOK, Kept
<1> QED
  BY <1>1, <1>2, <1>3 DEF Next

(* A readable Form 25 about another line takes no ending of the scan or the early window
   from a line (delistings.py find: the groups, what a definitive ending shuts out, and the
   early group that stands only while nothing else does): for any lines and filings. *)
THEOREM OthersFormsLeave == Spec => OthersFormLeavesEndings
<1>1. Init => KeepsOK
  <2> SUFFICES ASSUME Init PROVE KeepsOK
    OBVIOUS
  <2>1. \A s \in Lines : found[s] = FindEndings(issuer, filings, s)
    BY DEF Init
  <2>2. \A s \in Lines : \A e \in found[s] : Kept(s, e)
    BY <2>1 DEF Kept
  <2> QED
    BY <2>2 DEF Init, KeepsOK
<1> QED
  BY <1>1, KeepsStep, PTL DEF Spec, OthersFormLeavesEndings, LeavesThem
-------------------------------------------------------------------------------
(* A Form 25 ends no more lines than it names classes. *)

(* The lines a Form 25 is judged on for s. *)
JudgedOn(i, s, f) == IF f.day >= Floor(i, s) THEN Refs(i, s, f) ELSE {s} \cup Alive(i, f)

(* The classes that give their line by themselves, and the lines the others claim. *)
Told(i, f, same) == {c \in f.classes : Single(i, c, same)}
TakenBy(i, f, same) == UNION {Picked(i, c, same) : c \in Told(i, f, same)}
ClaimedBy(i, f, same) == Claimed(i, f.classes \ Told(i, f, same), same, TakenBy(i, f, same))

LEMMA MaxOfTwo == \A n \in Nat : Max({1, n}) \in Nat /\ 1 <= Max({1, n}) /\ n <= Max({1, n})
<1> TAKE n \in Nat
<1>1. \E x \in {1, n} : \A y \in {1, n} : x >= y
  BY SMT
<1>2. Max({1, n}) \in {1, n} /\ \A y \in {1, n} : Max({1, n}) >= y
  BY <1>1 DEF Max
<1> QED
  BY <1>2

LEMMA OneOfEach ==
    ASSUME NEW C, IsFiniteSet(C), NEW P, \A c \in C : \E x : P[c] = {x}
    PROVE  IsFiniteSet(UNION {P[c] : c \in C}) /\ Cardinality(UNION {P[c] : c \in C}) <= Cardinality(C)
<1> DEFINE U == UNION {P[c] : c \in C}
           g == [c \in C |-> CHOOSE x : P[c] = {x}]
<1>1. \A c \in C : P[c] = {g[c]}
  OBVIOUS
<1> HIDE DEF g
<1>2. g \in [C -> U]
  BY <1>1 DEF g
<1>3. \A u \in U : \E c \in C : g[c] = u
  BY <1>1
<1> HIDE DEF U
<1>4. g \in Surjection(C, U)
  BY <1>2, <1>3 DEF Surjection
<1> QED
  BY <1>4, FS_Surjection DEF U

LEMMA LettersFew ==
    ASSUME NEW C, IsFiniteSet(C)
    PROVE  IsFiniteSet({c.letter : c \in C}) /\ Cardinality({c.letter : c \in C}) <= Cardinality(C)
<1> DEFINE U == {c.letter : c \in C}
           g == [c \in C |-> c.letter]
<1>1. g \in Surjection(C, U)
  BY DEF Surjection
<1> HIDE DEF g, U
<1> QED
  BY <1>1, FS_Surjection DEF U

(* The text takes one line at most for each class. *)
LEMMA TextTakes ==
    ASSUME NEW i, NEW f, NEW same, IsFiniteSet(same), IsFiniteSet(f.classes)
    PROVE  IsFiniteSet(ByClass(i, f, same)) /\ Cardinality(ByClass(i, f, same)) <= Cardinality(f.classes)
<1> DEFINE told == Told(i, f, same)
           open == f.classes \ told
           taken == TakenBy(i, f, same)
           claimed == ClaimedBy(i, f, same)
           letters == UNION {Claims(i, r, open, same) : r \in claimed}
<1>1. ByClass(i, f, same) = OneEach(taken, claimed, letters)
  BY DEF ByClass, MatchedBy, Told, TakenBy, ClaimedBy
<1>2. /\ IsFiniteSet(told) /\ IsFiniteSet(open) /\ Cardinality(told) \in Nat /\ Cardinality(open) \in Nat
      /\ Cardinality(told) + Cardinality(open) = Cardinality(f.classes)
  <2>1. told \subseteq f.classes /\ open \subseteq f.classes /\ told \cup open = f.classes /\ told \cap open = {}
    BY DEF Told
  <2> HIDE DEF told, open
  <2>2. IsFiniteSet(told) /\ IsFiniteSet(open)
    BY <2>1, FS_Subset
  <2>3. Cardinality(told) \in Nat /\ Cardinality(open) \in Nat /\ Cardinality({}) = 0
    BY <2>2, FS_CardinalityType, FS_EmptySet
  <2>4. Cardinality(told \cup open) = Cardinality(told) + Cardinality(open) - Cardinality(told \cap open)
    BY <2>2, FS_Union
  <2>5. Cardinality(f.classes) = Cardinality(told) + Cardinality(open) - 0
    BY <2>1, <2>3, <2>4
  <2> QED
    BY <2>2, <2>3, <2>5
<1>3. IsFiniteSet(taken) /\ Cardinality(taken) \in Nat /\ Cardinality(taken) <= Cardinality(told)
  <2> DEFINE P == [c \in told |-> Picked(i, c, same)]
  <2>1. \A c \in told : \E x : P[c] = {x}
    <3> TAKE c \in told
    <3>1. Picked(i, c, same) \subseteq same
      BY DEF Picked, Hits, NamedBy
    <3>2. Cardinality(Picked(i, c, same)) = 1
      BY DEF Told, Single
    <3>3. IsFiniteSet(Picked(i, c, same))
      BY <3>1, FS_Subset
    <3>4. \E x : Picked(i, c, same) = {x}
      BY <3>2, <3>3, FS_Singleton
    <3> QED
      BY <3>4
  <2>2. taken = UNION {P[c] : c \in told}
    BY DEF TakenBy
  <2> HIDE DEF P, told, taken
  <2> DEFINE U == UNION {P[c] : c \in told}
  <2>3. IsFiniteSet(told)
    BY <1>2
  <2>4. IsFiniteSet(U) /\ Cardinality(U) <= Cardinality(told)
    BY <2>1, <2>3, OneOfEach
  <2> HIDE DEF U
  <2>5. Cardinality(U) \in Nat
    BY <2>4, FS_CardinalityType
  <2> QED
    BY <2>2, <2>4, <2>5 DEF U
<1>4. IsFiniteSet(claimed) /\ Cardinality(claimed) \in Nat
  <2>1. claimed \subseteq same
    BY DEF ClaimedBy, Claimed
  <2>2. IsFiniteSet(claimed)
    BY <2>1, FS_Subset
  <2> QED
    BY <2>2, FS_CardinalityType
<1>5. Cardinality(letters) \in Nat /\ Cardinality(letters) <= Cardinality(open)
  <2> DEFINE L == {c.letter : c \in open}
  <2>1. letters \subseteq L
    BY DEF Claims
  <2> HIDE DEF letters, open
  <2>2. IsFiniteSet(L) /\ Cardinality(L) <= Cardinality(open)
    BY <1>2, LettersFew
  <2> HIDE DEF L
  <2>3. IsFiniteSet(letters) /\ Cardinality(letters) <= Cardinality(L)
    BY <2>1, <2>2, FS_Subset
  <2>4. Cardinality(L) \in Nat /\ Cardinality(letters) \in Nat
    BY <2>2, <2>3, FS_CardinalityType
  <2> QED
    BY <1>2, <2>2, <2>3, <2>4
<1> HIDE DEF told, taken, claimed, letters
<1>6. /\ IsFiniteSet(taken \cup claimed) /\ Cardinality(taken \cup claimed) \in Nat
      /\ Cardinality(taken \cup claimed) <= Cardinality(taken) + Cardinality(claimed)
  <2>1. Cardinality(taken \cup claimed) = Cardinality(taken) + Cardinality(claimed) - Cardinality(taken \cap claimed)
    BY <1>3, <1>4, FS_Union
  <2>2. IsFiniteSet(taken \cup claimed)
    BY <1>3, <1>4, FS_Union
  <2>3. IsFiniteSet(taken \cap claimed)
    BY <1>3, FS_Subset
  <2>4. Cardinality(taken \cup claimed) \in Nat /\ Cardinality(taken \cap claimed) \in Nat
    BY <2>2, <2>3, FS_CardinalityType
  <2> QED
    BY <1>3, <1>4, <2>1, <2>2, <2>4
<1> HIDE DEF open
<1>7. CASE OneEach(taken, claimed, letters) = taken \cup claimed /\ Cardinality(claimed) <= Cardinality(letters)
  BY <1>1, <1>2, <1>3, <1>4, <1>5, <1>6, <1>7
<1>8. CASE OneEach(taken, claimed, letters) = taken
  BY <1>1, <1>2, <1>3, <1>8
<1> QED
  BY <1>7, <1>8 DEF OneEach

(* A tie gives the form to one line; or each class has its line. *)
LEMMA TieTakes ==
    ASSUME NEW i, NEW f, NEW refs, IsFiniteSet(refs), IsFiniteSet(f.classes)
    PROVE  LET same == Same(i, f, refs)
           IN  \/ TieOwners(i, f, refs) = {}
               \/ \E r : TieOwners(i, f, refs) = {r}
               \/ TieOwners(i, f, refs) = same /\ Cardinality(same) <= Cardinality(f.classes)
<1> DEFINE same == Same(i, f, refs)
           cands == TieCandidates(i, f, refs)
           every == EveryClass(i, f, refs)
<1>1. TieOwners(i, f, refs) = TieBroken(i, f, cands, every)
  BY DEF TieOwners
<1>2. every = {} \/ (every = same /\ Cardinality(same) <= Cardinality(f.classes))
  <2>1. Cardinality(Letters(f)) <= Cardinality(f.classes)
    BY LettersFew DEF Letters
  <2> QED
    BY <2>1 DEF EveryClass
<1>3. IsFiniteSet(cands)
  <2>1. Tied(i, f, refs) \subseteq same
    <3>1. \A c : Hits(i, c, same) \subseteq same /\ Picked(i, c, same) \subseteq same /\ Letterless(i, c, same) \subseteq same
      BY DEF Hits, Picked, Letterless, NamedBy
    <3>2. \A c : TiedBy(i, c, same) \subseteq same
      BY <3>1 DEF TiedBy
    <3> QED
      BY <3>2 DEF Tied, TiedAmong
  <2>2. cands \subseteq refs
    BY <2>1 DEF TieCandidates, Open, Same
  <2> QED
    BY <2>2, FS_Subset
<1> DEFINE going == {s \in cands : GoesOn(i, s, f)}
           stopped == {s \in cands \ going : StoppedNear(i, s, f)}
<1>4. stopped \subseteq cands
  OBVIOUS
<1>5. TieOwners(i, f, refs) \in {{}, every} \/ (TieOwners(i, f, refs) = stopped /\ Cardinality(stopped) = 1)
  BY <1>1 DEF TieBroken
<1> HIDE DEF cands, every, stopped
<1>6. ASSUME Cardinality(stopped) = 1 PROVE \E r : stopped = {r}
  <2>1. IsFiniteSet(stopped)
    BY <1>3, <1>4, FS_Subset
  <2> QED
    BY <1>6, <2>1, FS_Singleton
<1> QED
  BY <1>2, <1>5, <1>6

(* The text and the tie together give it to one line at most for each class it names, and to
   one more only where each class has its line by the text and a tie finds another. *)
LEMMA OwnersFew ==
    ASSUME NEW i, NEW f, NEW refs, IsFiniteSet(refs), IsFiniteSet(f.classes)
    PROVE  LET owners == Matched(i, f, refs) \cup TieOwners(i, f, refs)
           IN  /\ IsFiniteSet(owners)
               /\ Cardinality(owners) <= Max({1, Cardinality(f.classes)}) + (IF TextAndTie(i, f, refs) THEN 1 ELSE 0)
<1> DEFINE same == Same(i, f, refs)
           text == Matched(i, f, refs)
           tie == TieOwners(i, f, refs)
           n == Cardinality(f.classes)
           m == Max({1, n})
           more == IF TextAndTie(i, f, refs) THEN 1 ELSE 0
<1>1. n \in Nat /\ m \in Nat /\ 1 <= m /\ n <= m /\ more \in {0, 1}
  BY MaxOfTwo, FS_CardinalityType
<1>2. text \cup tie \subseteq same /\ same \subseteq refs
  BY OwnersAmong DEF Same
<1>3. IsFiniteSet(same) /\ IsFiniteSet(text \cup tie) /\ IsFiniteSet(text)
  <2>1. IsFiniteSet(same)
    BY <1>2, FS_Subset
  <2> HIDE DEF same, text, tie
  <2>2. IsFiniteSet(text \cup tie) /\ IsFiniteSet(text)
    BY <1>2, <2>1, FS_Subset
  <2> QED
    BY <2>1, <2>2
<1>4. Cardinality(text \cup tie) \in Nat /\ Cardinality(text) \in Nat /\ Cardinality(same) \in Nat
      /\ Cardinality(text \cup tie) <= Cardinality(same)
  <2> HIDE DEF same, text, tie
  <2>1. Cardinality(text \cup tie) <= Cardinality(same)
    BY <1>2, <1>3, FS_Subset
  <2> QED
    BY <1>3, <2>1, FS_CardinalityType
<1>5. tie = {} \/ (\E r : tie = {r}) \/ (tie = same /\ Cardinality(same) <= n)
  BY TieTakes
<1>6. Cardinality(same) > 1 => Cardinality(text) <= n
  <2> HAVE Cardinality(same) > 1
  <2>1. text = ByClass(i, f, same)
    BY <1>4 DEF Matched
  <2> QED
    BY <1>3, <2>1, TextTakes
<1>7. f.classes = {} => n = 0
  BY FS_EmptySet
<1>8. f.classes # {} /\ Cardinality(text) = n /\ ~(tie \subseteq text) => more = 1
  BY DEF TextAndTie
<1> HIDE DEF same, text, tie, n, m, more
<1>9. CASE Cardinality(same) <= n \/ Cardinality(same) <= 1
  BY <1>1, <1>3, <1>4, <1>9 DEF same, text, tie, n, m, more
<1>10. CASE Cardinality(same) > 1 /\ Cardinality(same) > n /\ tie \subseteq text
  <2>1. text \cup tie = text
    BY <1>10
  <2>2. Cardinality(text \cup tie) = Cardinality(text)
    BY <2>1
  <2>3. Cardinality(text \cup tie) <= m + more
    BY <1>1, <1>4, <1>6, <1>10, <2>2
  <2> QED
    BY <1>3, <2>3 DEF text, tie, m, n, more
<1>11. CASE Cardinality(same) > 1 /\ Cardinality(same) > n /\ ~(tie \subseteq text)
  <2>1. PICK r : tie = {r}
    BY <1>1, <1>4, <1>5, <1>11
  <2>2. Cardinality(text \cup {r}) = Cardinality(text) + 1
    BY <1>3, <1>11, <2>1, FS_AddElement
  <2>3. Cardinality(text \cup tie) = Cardinality(text) + 1
    BY <2>1, <2>2
  <2>4. Cardinality(text) < n \/ more = 1 \/ Cardinality(text) = 0
    BY <1>1, <1>4, <1>6, <1>7, <1>8, <1>11
  <2>5. Cardinality(text \cup tie) <= m + more
    BY <1>1, <1>4, <1>6, <1>11, <2>3, <2>4
  <2> QED
    BY <1>3, <2>5 DEF text, tie, m, n, more
<1>12. \/ Cardinality(same) <= n \/ Cardinality(same) <= 1
       \/ Cardinality(same) > 1 /\ Cardinality(same) > n
  BY <1>1, <1>4
<1> QED
  BY <1>9, <1>10, <1>11, <1>12

(* The filings of an ending were judged to be of its line, on the lines of JudgedOn. *)
LEMMA FormsAreJudged ==
    ASSUME NEW i \in Issuers, NEW fs, Dated(fs), NEW s \in Lines, NEW e \in FindEndings(i, fs, s), NEW f \in e.forms
    PROVE  f \in Form25s(fs) /\ s \in Matched(i, f, JudgedOn(i, s, f)) \cup TieOwners(i, f, JudgedOn(i, s, f))
<1> DEFINE Right(g) == g \in Form25s(fs) /\ s \in Matched(i, g, JudgedOn(i, s, g)) \cup TieOwners(i, g, JudgedOn(i, s, g))
<1>1. Floor(i, s) \in Int /\ EarlyFloor(i, s) \in Int /\ EarlyFloor(i, s) <= Floor(i, s)
  <2>1. Line(i, s).first \in Int
    BY EndingSearchAssumption DEF Line
  <2> QED
    BY <2>1 DEF Floor, EarlyFloor
<1>2. \A g \in Form25s(fs) : g.day \in Nat /\ g \in fs
  BY DEF Form25s, Dated
<1>3. ASSUME NEW g \in Candidates(i, fs, s) PROVE Right(g)
  <2>1. g \in Form25s(fs) /\ Looked(i, s, g) /\ Judged(i, s, g, Refs(i, s, g), Late(i, s, g))
    BY DEF Candidates
  <2>2. JudgedOn(i, s, g) = Refs(i, s, g)
    BY <2>1 DEF Looked, JudgedOn
  <2> QED
    BY <2>1, <2>2 DEF Judged
<1>4. ASSUME NEW g \in Form25s(fs), g.day < Floor(i, s), JudgedEarly(i, s, g) PROVE Right(g)
  <2>1. JudgedOn(i, s, g) = {s} \cup Alive(i, g)
    BY <1>1, <1>2, <1>4 DEF JudgedOn
  <2> QED
    BY <1>4, <2>1 DEF JudgedEarly, Judged
<1>5. \A g \in Early(i, fs, s) : Right(g)
  BY <1>4 DEF Early
<1>6. ASSUME NEW g \in Older(i, fs, s), JudgedEarly(i, s, g) PROVE Right(g)
  <2>1. g \in Form25s(fs) /\ g.day < Floor(i, s)
    BY <1>1, <1>2 DEF Older, UnreadEarly
  <2> QED
    BY <1>4, <1>6, <2>1
<1> HIDE DEF Right
<1> DEFINE T == Taken(i, fs, s)
           early == EarlyEnding(i, fs, s)
           fall == Fallback(i, fs, s)
<1>7. NoEnding.forms = {}
  BY DEF NoEnding
<1>8. \A x \in T : \A g \in x.forms : Right(g)
  <2> TAKE x \in T
  <2> DEFINE S == Candidates(i, fs, s)
  <2>1. Dated(S)
    BY <1>2 DEF Candidates, Dated
  <2>2. PICK d \in Counted(i, fs, s, S) : x = EndingAt(i, fs, s, S, d)
    BY DEF Taken, TakenFrom
  <2>3. d \in Heads(S)
    BY <2>1, <2>2, CountedAre
  <2>4. x.forms = GroupAt(S, d)
    BY <2>1, <2>2, <2>3, EndingIs
  <2> QED
    BY <1>3, <2>4 DEF GroupAt
<1>9. \A g \in early.forms : Right(g)
  <2>1. \A g \in LastGroup(Early(i, fs, s)) : Right(g)
    BY <1>5 DEF LastGroup, GroupAt
  <2>2. EarlyEnding(i, fs, s).forms \subseteq LastGroup(Early(i, fs, s))
    BY <1>7 DEF EarlyEnding, EndingBefore, Ending
  <2> QED
    BY <2>1, <2>2
<1>10. \A g \in fall.forms : Right(g)
  <2> DEFINE near == Pick(i, fs, s)
             older == Older(i, fs, s)
             again == {g \in older : (\E p \in near \cap older : g.day - p.day \in -30..30) /\ JudgedEarly(i, s, g)}
  <2>1. \A g \in again : Right(g)
    BY <1>6
  <2>2. Revived(i, s, again).forms \subseteq again
    BY <1>7 DEF Revived, Ending
  <2>3. CASE near # {}
    <3>1. fall = Revived(i, s, again)
      BY <2>3 DEF Fallback
    <3> QED
      BY <2>1, <2>2, <3>1
  <2>4. CASE near = {}
    BY <1>7, <2>4 DEF Fallback, NoEnding
  <2> QED
    BY <2>3, <2>4
<1> HIDE DEF T, early, fall
<1>11. e \in T \/ e = early \/ e = fall
  <2>1. FindEndings(i, fs, s) = EndingsOf(i, fs, s, T)
    BY DEF FindEndings, T
  <2>2. EndingsOf(i, fs, s, T) \subseteq T \cup {early, fall}
    BY DEF EndingsOf, early, fall
  <2> QED
    BY <2>1, <2>2
<1>12. Right(f)
  BY <1>8, <1>9, <1>10, <1>11
<1> QED
  BY <1>12 DEF Right

(* What the last run found is of what it read. *)
Answered ==
    /\ issuer \in Issuers /\ filings \subseteq Docket /\ seen \subseteq filings
    /\ found = [s \in Lines |-> FindEndings(issuer, seen, s)]

LEMMA AnsweredStep == Answered /\ [Next]_vars => Answered'
<1> SUFFICES ASSUME Answered, [Next]_vars PROVE Answered'
  OBVIOUS
<1>1. CASE Find
  BY <1>1 DEF Answered, Find
<1>2. ASSUME NEW f \in Docket, File(f) PROVE Answered'
  BY <1>2 DEF Answered, File
<1>3. CASE UNCHANGED vars
  BY <1>3 DEF Answered, vars
<1> QED
  BY <1>1, <1>2, <1>3 DEF Next

(* A line that lives when a Form 25 is filed is judged beside all that do. *)
LEMMA LivingTogether ==
    ASSUME NEW i \in Issuers, NEW f, f.day \in Nat, NEW s \in Alive(i, f)
    PROVE  JudgedOn(i, s, f) = Alive(i, f)
<1>1. Line(i, s).first \in Int /\ Line(i, s).first - 30 <= f.day
  BY EndingSearchAssumption DEF Alive, Line
<1>2. f.day >= Floor(i, s)
  BY <1>1 DEF Floor
<1>3. Alive(i, f) # {}
  OBVIOUS
<1> QED
  BY <1>2, <1>3 DEF JudgedOn, Refs, Late

LEMMA FewAreEnded ==
    ASSUME Answered
    PROVE  OneLinePerClass
<1> SUFFICES ASSUME NEW f \in Form25s(filings) \cap seen
             PROVE  Cardinality({s \in Alive(issuer, f) : Owns(s, f)}) <=
                        Max({1, Cardinality(f.classes)}) + (IF TextAndTie(issuer, f, Alive(issuer, f)) THEN 1 ELSE 0)
  BY DEF OneLinePerClass
<1> DEFINE living == Alive(issuer, f)
           ended == {s \in living : Owns(s, f)}
           owners == Matched(issuer, f, living) \cup TieOwners(issuer, f, living)
           most == Max({1, Cardinality(f.classes)}) + (IF TextAndTie(issuer, f, living) THEN 1 ELSE 0)
<1>1. f \in Form25s(seen) /\ f \in Docket
  BY DEF Answered, Form25s
<1>2. Dated(seen) /\ IsFiniteSet(f.classes) /\ IsFiniteSet(Lines) /\ issuer \in Issuers /\ f.day \in Nat
  BY <1>1, EndingSearchAssumption DEF Answered, Dated
<1>3. ended \subseteq owners
  <2> SUFFICES ASSUME NEW s \in ended PROVE s \in owners
    OBVIOUS
  <2>1. s \in living /\ s \in Lines /\ Owns(s, f)
    BY DEF Alive
  <2>2. PICK e \in FindEndings(issuer, seen, s) : f \in e.forms
    BY <2>1 DEF Owns, Answered
  <2>3. s \in Matched(issuer, f, JudgedOn(issuer, s, f)) \cup TieOwners(issuer, f, JudgedOn(issuer, s, f))
    BY <1>2, <2>1, <2>2, FormsAreJudged
  <2>4. JudgedOn(issuer, s, f) = living
    BY <1>2, <2>1, LivingTogether
  <2> QED
    BY <2>3, <2>4
<1>4. living \subseteq Lines
  BY DEF Alive
<1>5. most \in Nat
  BY <1>2, FS_CardinalityType, MaxOfTwo
<1> HIDE DEF living, ended
<1>6. IsFiniteSet(living)
  BY <1>2, <1>4, FS_Subset
<1>7. IsFiniteSet(owners) /\ Cardinality(owners) <= most
  BY <1>2, <1>6, OwnersFew
<1> HIDE DEF owners, most
<1>8. IsFiniteSet(ended) /\ Cardinality(ended) <= Cardinality(owners)
  BY <1>3, <1>7, FS_Subset
<1>9. Cardinality(ended) \in Nat /\ Cardinality(owners) \in Nat
  BY <1>7, <1>8, FS_CardinalityType
<1>10. Cardinality(ended) <= most
  BY <1>5, <1>7, <1>8, <1>9
<1> QED
  BY <1>10 DEF ended, most, living

(* A Form 25 ends no more of the lines that live when it is filed than it names classes, or
   one more where the words and a tie add up (form25.py _class_matches, delistings.py
   _tie_owner and _alive_at): for any lines, texts and tradings. *)
THEOREM NoMoreThanClasses == Spec => []OneLinePerClass
<1>1. Init => Answered
  BY DEF Init, Answered
<1> QED
  BY <1>1, AnsweredStep, FewAreEnded, PTL DEF Spec

=============================================================================
