------------------------- MODULE DelistingStageProofs -------------------------
(* Stage 5, its warm pass and its searches.  What a warm pass keeps for any number of
   threads, items and locks; and that the search misses no Form 25 of a security's own
   issuers without saying so, for any securities, CIKs, ages of the cached lists and
   failures: the issuers' copies are fresh enough from the start of a security's search
   to its end, whatever the registrants, the second search and its failed reads do. *)
EXTENDS PrefetchPool, DelistingStage, TLAPS

USE PrefetchPoolAssumption DEF Items, Objects

Inv == TypeOK /\ ObjectHeld /\ TurnBeforeStop /\ FuturesInOrder /\ StopHeard
       /\ ObjectsExclusive /\ OneLateRequest

LEMMA InitInv == Init => Inv
<1> SUFFICES ASSUME Init PROVE Inv
  OBVIOUS
<1>1. TypeOK
  <2>1. main \in MainPlaces /\ submitted \in 0..Count
    BY DEF Init, MainPlaces
  <2>6. stop \in BOOLEAN
    BY DEF Init
  <2>4. future \in [Items -> Futures]
    BY DEF Init, Futures
  <2>5. free \subseteq Objects
    BY DEF Init
  <2>2. /\ pc \in [Workers -> Places] /\ obj \in [Workers -> Objects \cup {None}]
        /\ lock \in [Workers -> Locks \cup {None}]
    BY DEF Init, Places
  <2>3. /\ item \in [Workers -> 0..Count] /\ asked \in [Workers -> 0..MaxReads] /\ late \in [Workers -> Nat]
    BY DEF Init
  <2> QED
    BY <2>1, <2>2, <2>3, <2>4, <2>5, <2>6 DEF TypeOK
<1>2. ObjectHeld /\ TurnBeforeStop /\ ObjectsExclusive /\ OneLateRequest
  BY DEF Init, ObjectHeld, TurnBeforeStop, ObjectsExclusive, OneLateRequest
<1>3. FuturesInOrder /\ StopHeard
  BY DEF Init, FuturesInOrder, StopHeard
<1> QED
  BY <1>1, <1>2, <1>3 DEF Inv

(* Every variable keeps its type. *)
LEMMA TypeStep == Inv /\ [Next]_vars => TypeOK'
<1> SUFFICES ASSUME Inv, [Next]_vars PROVE TypeOK'
  OBVIOUS
<1> USE DEF TypeOK, MainPlaces, Futures, Places, Move, End
<1>0. TypeOK /\ ObjectHeld /\ FuturesInOrder
  BY DEF Inv
<1>1. ASSUME NEW w \in Workers, Pick(w) PROVE TypeOK'
  BY <1>0, <1>1 DEF Pick, pool
<1>2. ASSUME NEW w \in Workers, CheckStop(w) PROVE TypeOK'
  <2>1. pc' \in [Workers -> Places] /\ future' \in [Items -> Futures]
    BY <1>0, <1>2 DEF CheckStop
  <2> QED
    BY <1>0, <1>2, <2>1 DEF CheckStop, pool, worker
<1>3. ASSUME NEW w \in Workers, GetObject(w) PROVE TypeOK'
  <2>1. pc' \in [Workers -> Places]
    BY <1>0, <1>3 DEF GetObject
  <2>2. free' \subseteq Objects /\ obj' \in [Workers -> Objects \cup {None}]
    BY <1>0, <1>3 DEF GetObject
  <2> QED
    BY <1>0, <1>3, <2>1, <2>2 DEF GetObject, pool
<1>4. ASSUME NEW w \in Workers, Ask(w) PROVE TypeOK'
  <2>1. pc' \in [Workers -> Places] /\ lock' \in [Workers -> Locks \cup {None}]
    <3>1. pc' \in [Workers -> Places]
      BY <1>0, <1>4 DEF Ask
    <3>2. lock' \in [Workers -> Locks \cup {None}]
      BY <1>0, <1>4 DEF Ask
    <3> QED
      BY <3>1, <3>2
  <2>2. asked' \in [Workers -> 0..MaxReads]
    <3>1. asked' = [asked EXCEPT ![w] = @ + 1] /\ asked[w] < MaxReads
      BY <1>4 DEF Ask
    <3>2. asked[w] + 1 \in 0..MaxReads
      BY <1>0, <3>1
    <3> QED
      BY <1>0, <3>1, <3>2
  <2> QED
    BY <1>0, <1>4, <2>1, <2>2 DEF Ask, pool
<1>5. ASSUME NEW w \in Workers, TakeLock(w) PROVE TypeOK'
  BY <1>0, <1>5 DEF TakeLock, pool
<1>6. ASSUME NEW w \in Workers, PassLimiter(w) PROVE TypeOK'
  BY <1>0, <1>6 DEF PassLimiter, pool, worker
<1>7. ASSUME NEW w \in Workers, Send(w) PROVE TypeOK'
  BY <1>0, <1>7 DEF Send, pool
<1>8. ASSUME NEW w \in Workers, Cancelled(w) PROVE TypeOK'
  BY <1>0, <1>8 DEF Cancelled, pool
<1>9. ASSUME NEW w \in Workers, Answer(w) PROVE TypeOK'
  <2>1. pc' \in [Workers -> Places]
    BY <1>0, <1>9 DEF Answer
  <2>2. lock' \in [Workers -> Locks \cup {None}] /\ asked' \in [Workers -> 0..MaxReads]
    <3>1. CASE lock' = lock /\ asked[w] < MaxReads /\ asked' = [asked EXCEPT ![w] = @ + 1]
      BY <1>0, <3>1
    <3>2. CASE lock' = [lock EXCEPT ![w] = None] /\ asked' = asked
      BY <1>0, <3>2
    <3> QED
      BY <1>9, <3>1, <3>2 DEF Answer
  <2> QED
    BY <1>0, <1>9, <2>1, <2>2 DEF Answer, pool
<1>10. ASSUME NEW w \in Workers, TaskEnds(w) PROVE TypeOK'
  BY <1>0, <1>10 DEF TaskEnds, pool, worker
<1>11. ASSUME NEW w \in Workers, SetStop(w) PROVE TypeOK'
  BY <1>0, <1>11 DEF SetStop, pool, worker
<1>12. ASSUME NEW w \in Workers, PutObject(w) PROVE TypeOK'
  <2>1. obj[w] \in Objects
    BY <1>0, <1>12 DEF PutObject, ObjectHeld
  <2> QED
    BY <1>0, <1>12, <2>1 DEF PutObject, pool, FuturesInOrder
<1>13. CASE Submit
  BY <1>0, <1>13 DEF Submit, worker, FuturesInOrder
<1>14. CASE WaitEnds \/ Join \/ Interrupt
  BY <1>0, <1>14 DEF WaitEnds, Join, Interrupt, worker
<1>15. CASE Shutdown
  BY <1>0, <1>15 DEF Shutdown, worker
<1>16. CASE UNCHANGED vars
  BY <1>0, <1>16 DEF vars
<1> QED
  BY <1>1, <1>2, <1>3, <1>4, <1>5, <1>6, <1>7, <1>8, <1>9, <1>10, <1>11, <1>12, <1>13,
     <1>14, <1>15, <1>16 DEF Next, MainStep, WorkerStep

(* The objects and the late requests: only the worker's own steps touch them. *)
LEMMA ObjectStep ==
  Inv /\ [Next]_vars => ObjectHeld' /\ ObjectsExclusive'
<1> SUFFICES ASSUME Inv, [Next]_vars PROVE ObjectHeld' /\ ObjectsExclusive'
  OBVIOUS
<1> USE DEF ObjectHeld, ObjectsExclusive, Move, End
<1>0. TypeOK /\ ObjectHeld /\ ObjectsExclusive
  BY DEF Inv
<1>a. obj \in [Workers -> Objects \cup {None}] /\ pc \in [Workers -> Places] /\ free \subseteq Objects
  BY <1>0 DEF TypeOK
<1>1. ASSUME NEW w \in Workers, GetObject(w) PROVE ObjectHeld' /\ ObjectsExclusive'
  <2>1. PICK o \in free : free' = free \ {o} /\ obj' = [obj EXCEPT ![w] = o]
    BY <1>1 DEF GetObject
  <2>2. obj[w] = None /\ o # None
    BY <1>0, <1>1, <1>a, <2>1 DEF GetObject
  <2>3. ObjectHeld'
    BY <1>0, <1>1, <1>a, <2>1, <2>2 DEF GetObject
  <2>4. \A v \in Workers : v # w => obj'[v] = obj[v]
    BY <1>a, <2>1
  <2>5. obj'[w] = o
    BY <1>a, <2>1
  <2> QED
    BY <1>0, <1>a, <2>1, <2>2, <2>3, <2>4, <2>5
<1>2. ASSUME NEW w \in Workers, PutObject(w) PROVE ObjectHeld' /\ ObjectsExclusive'
  <2>1. obj[w] \in Objects /\ obj'[w] = None /\ pc'[w] = "idle"
    BY <1>0, <1>2, <1>a DEF PutObject
  <2>2. \A v \in Workers : v # w => obj'[v] = obj[v] /\ pc'[v] = pc[v]
    BY <1>a, <1>2 DEF PutObject
  <2>3. free' = free \cup {obj[w]}
    BY <1>2 DEF PutObject
  <2> QED
    BY <1>0, <1>a, <2>1, <2>2, <2>3
<1>3. ASSUME NEW w \in Workers, WorkerStep(w), ~GetObject(w), ~PutObject(w)
      PROVE ObjectHeld' /\ ObjectsExclusive'
  <2>1. obj' = obj /\ free' = free
    BY <1>3 DEF WorkerStep, Pick, CheckStop, Ask, TakeLock, PassLimiter, Send, Cancelled, Answer,
       TaskEnds, SetStop, worker
  <2>2. \A v \in Workers : pc'[v] \in {"idle", "picked", "get"} <=> pc[v] \in {"idle", "picked", "get"}
    BY <1>3, <1>a DEF WorkerStep, Pick, CheckStop, Ask, TakeLock, PassLimiter, Send, Cancelled, Answer,
       TaskEnds, SetStop, worker
  <2> QED
    BY <1>0, <2>1, <2>2
<1>4. CASE MainStep \/ Interrupt \/ UNCHANGED vars
  BY <1>0, <1>4 DEF MainStep, Submit, WaitEnds, Shutdown, Join, Interrupt, vars, worker
<1> QED
  BY <1>1, <1>2, <1>3, <1>4 DEF Next

LEMMA LateStep == Inv /\ [Next]_vars => TurnBeforeStop' /\ OneLateRequest'
<1> SUFFICES ASSUME Inv, [Next]_vars PROVE TurnBeforeStop' /\ OneLateRequest'
  OBVIOUS
<1> USE DEF TurnBeforeStop, OneLateRequest, Move, End
<1>0. TypeOK /\ TurnBeforeStop /\ OneLateRequest
  BY DEF Inv
<1>a. late \in [Workers -> Nat] /\ pc \in [Workers -> Places] /\ stop \in BOOLEAN
  BY <1>0 DEF TypeOK
<1>1. ASSUME NEW w \in Workers, Send(w) PROVE TurnBeforeStop' /\ OneLateRequest'
  BY <1>0, <1>1, <1>a DEF Send
<1>2. ASSUME NEW w \in Workers, PassLimiter(w) PROVE TurnBeforeStop' /\ OneLateRequest'
  <2>1. late[w] = 0 /\ late' = late /\ stop' = stop
    BY <1>0, <1>2, <1>a DEF PassLimiter, worker
  <2> QED
    BY <1>0, <1>2, <1>a, <2>1 DEF PassLimiter
<1>3. ASSUME NEW w \in Workers, WorkerStep(w), ~Send(w), ~PassLimiter(w)
      PROVE TurnBeforeStop' /\ OneLateRequest'
  <2>1. late' = late /\ (stop => stop')
    BY <1>3 DEF WorkerStep, Pick, CheckStop, GetObject, Ask, TakeLock, Cancelled, Answer,
       TaskEnds, SetStop, PutObject, worker
  <2>2. \A v \in Workers : pc'[v] = "go" => pc[v] = "go"
    BY <1>3, <1>a DEF WorkerStep, Pick, CheckStop, GetObject, Ask, TakeLock, Cancelled, Answer,
       TaskEnds, SetStop, PutObject, worker
  <2> QED
    BY <1>0, <2>1, <2>2
<1>4. CASE MainStep \/ Interrupt \/ UNCHANGED vars
  BY <1>0, <1>4 DEF MainStep, Submit, WaitEnds, Shutdown, Join, Interrupt, vars, worker
<1> QED
  BY <1>1, <1>2, <1>3, <1>4 DEF Next

LEMMA FuturesStep == Inv /\ [Next]_vars => FuturesInOrder'
<1> SUFFICES ASSUME Inv, [Next]_vars PROVE FuturesInOrder'
  OBVIOUS
<1> USE DEF FuturesInOrder, Move, End
<1>0. TypeOK /\ FuturesInOrder
  BY DEF Inv
<1>a. /\ future \in [Items -> Futures] /\ pc \in [Workers -> Places] /\ item \in [Workers -> 0..Count]
      /\ submitted \in 0..Count
  BY <1>0 DEF TypeOK
<1>1. ASSUME NEW w \in Workers, Pick(w) PROVE FuturesInOrder'
  <2>1. PICK i \in Items : /\ future[i] = "queued" /\ future' = [future EXCEPT ![i] = "running"]
                           /\ item' = [item EXCEPT ![w] = i]
    BY <1>1 DEF Pick
  <2>2. \A v \in Workers : pc[v] # "idle" => item[v] # i
    BY <1>0, <2>1
  <2>3. pc' = [pc EXCEPT ![w] = "picked"] /\ main' = main /\ submitted' = submitted
    BY <1>1 DEF Pick, pool
  <2>4. \A v \in Workers : v # w => item'[v] = item[v] /\ pc'[v] = pc[v]
    BY <1>a, <2>1, <2>3
  <2>5. item'[w] = i /\ future'[i] = "running" /\ \A j \in Items : j # i => future'[j] = future[j]
    BY <1>a, <2>1
  <2>6. main = "submit" => \A j \in Items : j > submitted => future'[j] = "none"
    BY <1>0, <2>1, <2>5
  <2> QED
    BY <1>0, <2>2, <2>3, <2>4, <2>5, <2>6
<1>2. ASSUME NEW w \in Workers, CheckStop(w) \/ PutObject(w) PROVE FuturesInOrder'
  <2>1. item' = item /\ main' = main /\ submitted' = submitted /\ pc[w] # "idle"
    BY <1>2 DEF CheckStop, PutObject, pool, worker
  <2>2. \A v \in Workers : v # w => pc'[v] = pc[v]
    BY <1>a, <1>2 DEF CheckStop, PutObject
  <2>3. \A j \in Items : j # item[w] => future'[j] = future[j]
    BY <1>a, <1>2 DEF CheckStop, PutObject
  <2>4. pc'[w] # "idle" => future' = future
    BY <1>a, <1>2 DEF CheckStop, PutObject
  <2>5. main = "submit" => \A j \in Items : j > submitted => future'[j] = "none"
    BY <1>0, <2>1, <2>3
  <2> QED
    BY <1>0, <2>1, <2>2, <2>3, <2>4, <2>5
<1>3. ASSUME NEW w \in Workers, WorkerStep(w), ~Pick(w), ~CheckStop(w), ~PutObject(w)
      PROVE  FuturesInOrder'
  <2>1. item' = item /\ future' = future /\ main' = main /\ submitted' = submitted
    BY <1>3 DEF WorkerStep, GetObject, Ask, TakeLock, PassLimiter, Send, Cancelled, Answer,
       TaskEnds, SetStop, worker, pool
  <2>2. \A v \in Workers : pc'[v] # "idle" => pc[v] # "idle"
    BY <1>3, <1>a DEF WorkerStep, GetObject, Ask, TakeLock, PassLimiter, Send, Cancelled, Answer,
       TaskEnds, SetStop
  <2> QED
    BY <1>0, <2>1, <2>2
<1>4. CASE Submit
  <2>1. /\ item' = item /\ pc' = pc /\ submitted' = submitted + 1
        /\ future' = [future EXCEPT ![submitted + 1] = "queued"]
        /\ main' = "submit" => submitted + 1 # Count
    BY <1>4 DEF Submit, worker
  <2>2. submitted + 1 \in Items /\ future[submitted + 1] = "none"
    BY <1>0, <1>4, <1>a DEF Submit
  <2>3. \A j \in Items : future[j] = "running" => future'[j] = "running"
    BY <1>a, <2>1, <2>2
  <2>4. main' = "submit" => submitted' < Count /\ \A j \in Items : j > submitted' => future'[j] = "none"
    BY <1>0, <1>4, <1>a, <2>1, <2>2 DEF Submit
  <2> QED
    BY <1>0, <2>1, <2>3, <2>4
<1>5. CASE Shutdown
  BY <1>0, <1>5, <1>a DEF Shutdown, worker
<1>6. CASE WaitEnds \/ Join \/ Interrupt \/ UNCHANGED vars
  BY <1>0, <1>6 DEF WaitEnds, Join, Interrupt, vars, worker
<1> QED
  BY <1>1, <1>2, <1>3, <1>4, <1>5, <1>6 DEF Next, MainStep

LEMMA StopStep == Inv /\ [Next]_vars => StopHeard'
<1> SUFFICES ASSUME Inv, [Next]_vars PROVE StopHeard'
  OBVIOUS
<1> USE DEF StopHeard, Raised, Move, End
<1>0. TypeOK /\ StopHeard /\ FuturesInOrder
  BY DEF Inv
<1>a. /\ future \in [Items -> Futures] /\ pc \in [Workers -> Places] /\ item \in [Workers -> 0..Count]
  BY <1>0 DEF TypeOK
<1>b. main \in {"closing", "returned"} => \A w \in Workers : pc[w] = "idle"
  BY <1>0 DEF FuturesInOrder
<1>1. ASSUME NEW w \in Workers, Pick(w) PROVE StopHeard'
  <2>1. PICK i \in Items : future[i] = "queued" /\ future' = [future EXCEPT ![i] = "running"]
    BY <1>1 DEF Pick
  <2>2. main' = main /\ stop' = stop /\ main \notin {"closing", "returned"}
    BY <1>0, <1>1, <2>1 DEF Pick, pool
  <2>3. \A v \in Workers : pc[v] = "raising" => pc'[v] = "raising"
    BY <1>1, <1>a DEF Pick
  <2>4. \A j \in Items : future[j] = "raised" => future'[j] = "raised"
    BY <2>1, <1>a
  <2> QED
    BY <1>0, <2>2, <2>3, <2>4
<1>2. ASSUME NEW w \in Workers, PutObject(w) PROVE StopHeard'
  <2>1. main' = main /\ stop' = stop /\ main \notin {"closing", "returned"}
    BY <1>b, <1>2 DEF PutObject, pool
  <2>2. item[w] \in Items /\ future[item[w]] = "running"
    BY <1>0, <1>2 DEF PutObject, FuturesInOrder
  <2>3. \A j \in Items : future[j] = "raised" => future'[j] = "raised"
    BY <1>2, <1>a, <2>2 DEF PutObject
  <2>4. \A v \in Workers : v # w => pc'[v] = pc[v]
    BY <1>2, <1>a DEF PutObject
  <2>5. pc[w] = "raising" => future'[item[w]] = "raised"
    BY <1>2, <1>a, <2>2 DEF PutObject
  <2> QED
    BY <1>0, <2>1, <2>2, <2>3, <2>4, <2>5
<1>3. ASSUME NEW w \in Workers, CheckStop(w) PROVE StopHeard'
  <2>1. main' = main /\ stop' = stop /\ main \notin {"closing", "returned"}
    BY <1>b, <1>3 DEF CheckStop, pool
  <2>2. item[w] \in Items /\ future[item[w]] = "running" /\ pc[w] = "picked"
    BY <1>0, <1>3 DEF CheckStop, FuturesInOrder
  <2>3. \A j \in Items : future[j] = "raised" => future'[j] = "raised"
    BY <1>3, <1>a, <2>2 DEF CheckStop
  <2>4. \A v \in Workers : pc[v] = "raising" => pc'[v] = "raising"
    BY <1>3, <1>a, <2>2 DEF CheckStop
  <2> QED
    BY <1>0, <2>1, <2>3, <2>4
<1>4. ASSUME NEW w \in Workers, SetStop(w) PROVE StopHeard'
  BY <1>b, <1>4, <1>a DEF SetStop, pool
<1>5. ASSUME NEW w \in Workers, WorkerStep(w), ~Pick(w), ~CheckStop(w), ~PutObject(w), ~SetStop(w)
      PROVE  StopHeard'
  <2>1. future' = future /\ main' = main /\ stop' = stop
    BY <1>5 DEF WorkerStep, GetObject, Ask, TakeLock, PassLimiter, Send, Cancelled, Answer,
       TaskEnds, worker, pool
  <2>2. \A v \in Workers : pc[v] = "raising" => pc'[v] = "raising"
    BY <1>5, <1>a DEF WorkerStep, GetObject, Ask, TakeLock, PassLimiter, Send, Cancelled, Answer,
       TaskEnds
  <2> QED
    BY <1>0, <2>1, <2>2
<1>6. CASE Submit
  <2>1. future' = [future EXCEPT ![submitted + 1] = "queued"] /\ stop' = stop /\ pc' = pc
        /\ main' \in {"submit", "wait"} /\ main = "submit"
    BY <1>6 DEF Submit, worker
  <2>2. submitted + 1 \in Items /\ future[submitted + 1] = "none"
    BY <1>0, <1>6 DEF Submit, FuturesInOrder, TypeOK
  <2>3. \A j \in Items : future[j] = "raised" => future'[j] = "raised"
    BY <1>a, <2>1, <2>2
  <2> QED
    BY <1>0, <2>1, <2>3
<1>7. CASE Shutdown
  BY <1>7, <1>a DEF Shutdown
<1>8. CASE WaitEnds
  BY <1>0, <1>8 DEF WaitEnds, Finished, worker
<1>9. CASE Join \/ Interrupt \/ UNCHANGED vars
  BY <1>0, <1>9 DEF Join, Interrupt, vars, worker
<1> QED
  BY <1>1, <1>2, <1>3, <1>4, <1>5, <1>6, <1>7, <1>8, <1>9 DEF Next, MainStep

LEMMA InvHolds == Spec => []Inv
<1>1. Inv /\ [Next]_vars => Inv'
  BY TypeStep, ObjectStep, LateStep, FuturesStep, StopStep DEF Inv
<1> QED
  BY InitInv, <1>1, PTL DEF Spec

(* The type invariant. *)
THEOREM TypeCorrect == Spec => []TypeOK
  BY InvHolds, PTL DEF Inv

(* No state object is ever used by two threads, and none is lost. *)
THEOREM Exclusive == Spec => []ObjectsExclusive
  BY InvHolds, PTL DEF Inv

(* After a stop a worker sends at most the one request it had its turn for. *)
THEOREM LateRequests == Spec => []OneLateRequest
  BY InvHolds, PTL DEF Inv

(* A pass that returns was never stopped and ran every item. *)
THEOREM AllRan == Spec => []NothingSkipped
<1>1. Inv => NothingSkipped
  <2> SUFFICES ASSUME Inv, main = "returned" PROVE ~stop /\ \A i \in Items : future[i] = "done"
    BY DEF NothingSkipped
  <2>1. \A i \in Items : future[i] = "done"
    BY DEF Inv, StopHeard
  <2>2. \A w \in Workers : pc[w] = "idle"
    BY <2>1 DEF Inv, FuturesInOrder
  <2> QED
    BY <2>1, <2>2 DEF Inv, StopHeard, Raised
<1> QED
  BY InvHolds, <1>1, PTL

-------------------------------------------------------------------------------
(* The search. *)

USE DelistingStageAssumption

(* What the argument needs of the variables' types. *)
ReadTypes ==
    /\ form25 \in [Ciks -> Days \cup {Never}]
    /\ copy \in [Ciks -> Absent..RunDate]
    /\ place \in Nat \ {0} /\ DOMAIN out = Securities
    /\ doing \in {"start", "search", "judge", "aborted"}
    /\ degraded \in BOOLEAN

Busy == doing \in {"search", "judge"}

(* A security being searched with no failed read has its issuers' copies as fresh
   as its last sighting asks, and the finds of those copies show the Form 25s. *)
CopiesFresh ==
    /\ Busy => place <= Len(Order)
    /\ (Busy /\ degraded = FALSE) => \A c \in Issuers : copy[c] >= FreshFor(Sec)
    /\ (doing = "judge" /\ degraded = FALSE) =>
         \A c \in Issuers : form25[c] <= FreshFor(Sec) => c \in found

FormsInv == ReadTypes /\ CopiesFresh /\ IssuersFormsFound

LEMMA DayTypes ==
    /\ \A s \in Securities : FreshFor(s) \in 1..RunDate \cup {LastSeen[s]} /\ FreshFor(s) <= RunDate /\ FreshFor(s) \in Nat
    /\ \A s \in Securities : IssuersOf[s] \subseteq Ciks
    /\ place \in Nat \ {0} /\ place <= Len(Order) => Sec \in Securities
<1>1. \A s \in Securities : LastSeen[s] \in 1..RunDate
  OBVIOUS
<1>2. \A s \in Securities : FreshFor(s) \in 1..RunDate
  BY <1>1 DEF FreshFor, Smaller
<1>3. ASSUME place \in Nat \ {0}, place <= Len(Order) PROVE Sec \in Securities
  <2>1. place \in 1..Len(Order) /\ DOMAIN Order = 1..Len(Order)
    BY <1>3
  <2> QED
    BY <2>1 DEF Sec, Securities, Range
<1> QED
  BY <1>2, <1>3

(* A refresh keeps the copies' type, makes none of them older, and a CIK asked for
   has a copy of the day unless the watch trips. *)
LEMMA Refreshed ==
    ASSUME copy \in [Ciks -> Absent..RunDate],
           NEW ciks, NEW day \in 0..RunDate, NEW before \in BOOLEAN, Refresh(ciks, day, before)
    PROVE  /\ copy' \in [Ciks -> Absent..RunDate] /\ degraded' \in BOOLEAN
           /\ \A c \in Ciks : copy'[c] >= copy[c]
           /\ degraded' = FALSE => before = FALSE
           /\ degraded' = FALSE => \A c \in ciks \cap Ciks : copy'[c] >= day
<1> PICK fails \in SUBSET {c \in ciks : copy[c] < day} :
           /\ copy' = [c \in Ciks |-> IF c \in ciks \ fails /\ copy[c] < day THEN RunDate ELSE copy[c]]
           /\ degraded' = (before \/ fails # {})
  BY DEF Refresh
<1>1. \A c \in Ciks : copy[c] \in Absent..RunDate /\ copy'[c] \in {copy[c], RunDate}
  OBVIOUS
<1>2. copy' \in [Ciks -> Absent..RunDate]
  BY <1>1 DEF Absent
<1>3. \A c \in Ciks : copy'[c] >= copy[c]
  BY <1>1 DEF Absent
<1>4. degraded' = FALSE => before = FALSE /\ fails = {}
  OBVIOUS
<1>5. ASSUME fails = {}, NEW c \in ciks \cap Ciks PROVE copy'[c] >= day
  <2>1. CASE copy[c] < day
    BY <1>5, <2>1
  <2>2. CASE ~(copy[c] < day)
    <3>1. copy'[c] = copy[c] /\ copy[c] \in Absent..RunDate
      BY <1>1, <2>2
    <3> QED
      BY <2>2, <3>1 DEF Absent
  <2> QED
    BY <2>1, <2>2
<1> QED
  BY <1>2, <1>3, <1>4, <1>5

LEMMA FormsInit == StageInit => FormsInv
<1> SUFFICES ASSUME StageInit PROVE FormsInv
  OBVIOUS
<1>1. ReadTypes
  <2>1. form25 \in [Ciks -> Days \cup {Never}] /\ copy \in [Ciks -> Absent..RunDate]
    BY DEF StageInit
  <2>2. place \in Nat \ {0} /\ doing = "start" /\ degraded = FALSE
    BY DEF StageInit
  <2>3. DOMAIN out = Securities
    BY DEF StageInit
  <2> QED
    BY <2>1, <2>2, <2>3 DEF ReadTypes
<1>2. CopiesFresh
  BY DEF StageInit, CopiesFresh, Busy
<1>3. IssuersFormsFound
  BY DEF StageInit, IssuersFormsFound, Searched, Nothing
<1> QED
  BY <1>1, <1>2, <1>3 DEF FormsInv

LEMMA FormsStep == FormsInv /\ [StageNext]_stageVars => FormsInv'
<1> SUFFICES ASSUME FormsInv, [StageNext]_stageVars PROVE FormsInv'
  OBVIOUS
<1> USE DEF FormsInv
<1>a. ASSUME UNCHANGED <<form25, out>> PROVE IssuersFormsFound'
  BY <1>a DEF IssuersFormsFound, Searched, FreshFor
<1>1. CASE Start
  <2>1. Sec \in Securities /\ place' = place /\ doing' = "search" /\ UNCHANGED <<form25, out>>
    BY <1>1, DayTypes DEF Start, ReadTypes, world
  <2>2. FreshFor(Sec) \in 0..RunDate /\ Issuers \subseteq Ciks
    BY <2>1, DayTypes DEF Issuers
  <2>3. /\ copy' \in [Ciks -> Absent..RunDate] /\ degraded' \in BOOLEAN
        /\ degraded' = FALSE => \A c \in Issuers \cap Ciks : copy'[c] >= FreshFor(Sec)
    BY <1>1, <2>2, Refreshed DEF Start, ReadTypes
  <2>4. ReadTypes'
    BY <1>1, <2>1, <2>3 DEF ReadTypes
  <2>5. Sec' = Sec /\ Issuers' = Issuers /\ FreshFor(Sec)' = FreshFor(Sec) /\ place' <= Len(Order)
    BY <1>1, <2>1 DEF Sec, Issuers, FreshFor, Start
  <2>6. CopiesFresh'
    BY <2>1, <2>2, <2>3, <2>5 DEF CopiesFresh, Busy
  <2> QED
    BY <2>1, <2>4, <2>6, <1>a
<1>2. CASE Find
  <2>0. Sec \in Securities /\ place' = place /\ doing' \in {"search", "judge"} /\ UNCHANGED <<form25, out>>
    BY <1>2, DayTypes DEF Find, ReadTypes, CopiesFresh, Busy, world
  <2>1. PICK gone \in SUBSET {c \in Issuers \cup Range(regs) : copy[c] = Absent} :
          /\ copy' = [c \in Ciks |-> IF c \in (Issuers \cup Range(regs)) \ gone /\ copy[c] = Absent
                                     THEN RunDate ELSE copy[c]]
          /\ found' = Endings(copy')
          /\ \E lost : degraded' = (degraded \/ gone # {} \/ lost # {})
    BY <1>2 DEF Find
  <2>2. \A c \in Ciks : copy[c] \in Absent..RunDate /\ copy'[c] \in {copy[c], RunDate}
    BY <2>1 DEF ReadTypes
  <2>3. copy' \in [Ciks -> Absent..RunDate] /\ \A c \in Ciks : copy'[c] >= copy[c]
    BY <2>1, <2>2 DEF Absent
  <2>4. degraded' \in BOOLEAN /\ (degraded' = FALSE => degraded = FALSE)
    BY <2>1 DEF ReadTypes
  <2>5. ReadTypes'
    BY <2>0, <2>3, <2>4 DEF ReadTypes
  <2>6. /\ Sec' = Sec /\ Issuers' = Issuers /\ FreshFor(Sec)' = FreshFor(Sec)
        /\ Issuers \subseteq Ciks /\ FreshFor(Sec) \in Nat /\ place <= Len(Order)
    BY <1>2, <2>0, DayTypes DEF Sec, Issuers, FreshFor, CopiesFresh, Busy, Find
  <2>7. ASSUME degraded' = FALSE, NEW c \in Issuers
        PROVE  /\ copy'[c] >= FreshFor(Sec)
               /\ form25[c] <= FreshFor(Sec) => c \in found'
    <3>1. copy[c] >= FreshFor(Sec)
      BY <1>2, <2>4, <2>7 DEF CopiesFresh, Busy, Find
    <3>2. c \in Ciks /\ copy'[c] \in Absent..RunDate /\ form25[c] \in Days \cup {Never}
      BY <2>3, <2>6 DEF ReadTypes
    <3>3. copy'[c] >= FreshFor(Sec)
      BY <2>2, <2>3, <2>6, <3>1, <3>2 DEF Absent
    <3>4. form25[c] <= FreshFor(Sec) => form25[c] <= copy'[c]
      BY <2>6, <3>2, <3>3 DEF Absent, Days, Never
    <3> QED
      BY <2>1, <3>3, <3>4 DEF Endings
  <2>8. CopiesFresh'
    BY <2>0, <2>6, <2>7 DEF CopiesFresh, Busy
  <2> QED
    BY <2>0, <2>5, <2>8, <1>a
<1>3. CASE ReadAgain
  <2>1. Sec \in Securities /\ place' = place /\ doing' = "search" /\ UNCHANGED <<form25, out>>
    BY <1>3, DayTypes DEF ReadAgain, ReadTypes, CopiesFresh, Busy, world
  <2>2. RunDate \in 0..RunDate /\ degraded \in BOOLEAN
    BY DEF ReadTypes
  <2>3. /\ copy' \in [Ciks -> Absent..RunDate] /\ degraded' \in BOOLEAN
        /\ \A c \in Ciks : copy'[c] >= copy[c]
        /\ degraded' = FALSE => degraded = FALSE
    <3>1. Refresh(Issuers \cup Range(regs), RunDate, degraded)
      BY <1>3 DEF ReadAgain
    <3>2. copy \in [Ciks -> Absent..RunDate]
      BY DEF ReadTypes
    <3> QED
      BY <2>2, <3>1, <3>2, Refreshed, ZenonT(60)
  <2>4. ReadTypes'
    BY <2>1, <2>3 DEF ReadTypes
  <2>5. /\ Sec' = Sec /\ Issuers' = Issuers /\ FreshFor(Sec)' = FreshFor(Sec)
        /\ Issuers \subseteq Ciks /\ FreshFor(Sec) \in Nat /\ place <= Len(Order)
    BY <1>3, <2>1, DayTypes DEF Sec, Issuers, FreshFor, CopiesFresh, Busy, ReadAgain
  <2>6. ASSUME degraded' = FALSE, NEW c \in Issuers PROVE copy'[c] >= FreshFor(Sec)
    <3>1. copy[c] >= FreshFor(Sec)
      BY <1>3, <2>3, <2>6 DEF CopiesFresh, Busy, ReadAgain
    <3>2. copy[c] \in Absent..RunDate /\ copy'[c] \in Absent..RunDate /\ copy'[c] >= copy[c]
      BY <2>3, <2>5 DEF ReadTypes
    <3> QED
      BY <2>5, <3>1, <3>2 DEF Absent
  <2>7. CopiesFresh'
    BY <2>1, <2>5, <2>6 DEF CopiesFresh, Busy
  <2> QED
    BY <2>1, <2>4, <2>7, <1>a
<1>4. CASE Settle
  <2>0. doing = "judge" /\ Sec \in Securities /\ place' = place + 1 /\ doing' = "start" /\ degraded' = FALSE /\ form25' = form25
    BY <1>4, DayTypes DEF Settle, Advance, ReadTypes, CopiesFresh, Busy, world
  <2>1. PICK got \in SUBSET AskedOnce :
          /\ copy' = [c \in Ciks |-> IF c \in got THEN RunDate ELSE copy[c]]
          /\ out' = [out EXCEPT ![Sec] = Row(degraded \/ got # AskedOnce)]
    BY <1>4 DEF Settle
  <2>2. ReadTypes'
    <3>1. copy' \in [Ciks -> Absent..RunDate]
      BY <2>1 DEF ReadTypes, Absent
    <3>2. DOMAIN out' = Securities
      BY <2>1 DEF ReadTypes
    <3>3. place' \in Nat \ {0}
      BY <2>0 DEF ReadTypes
    <3> QED
      BY <2>0, <3>1, <3>2, <3>3 DEF ReadTypes
  <2>3. CopiesFresh'
    BY <2>0 DEF CopiesFresh, Busy
  <2>4. ASSUME NEW s \in Securities, Searched(s)', NEW c \in IssuersOf[s], form25[c] <= FreshFor(s)
        PROVE  c \in out'[s].found
    <3>1. CASE s = Sec
      <4>1. out'[s] = Row(degraded \/ got # AskedOnce)
        BY <2>1, <3>1, <2>0 DEF ReadTypes
      <4>2. degraded = FALSE /\ out'[s].found = found
        BY <4>1, <2>4 DEF Searched, Row, ReadTypes
      <4> QED
        BY <2>0, <2>4, <3>1, <4>2 DEF CopiesFresh, Issuers
    <3>2. CASE s # Sec
      <4>1. out'[s] = out[s]
        BY <2>1, <3>2 DEF ReadTypes
      <4> QED
        BY <2>4, <4>1 DEF Searched, IssuersFormsFound
    <3> QED
      BY <3>1, <3>2
  <2>5. IssuersFormsFound'
    BY <2>0, <2>4 DEF IssuersFormsFound, FreshFor
  <2> QED
    BY <2>2, <2>3, <2>5
<1>5. CASE Fail
  <2>0. Sec \in Securities /\ place' = place + 1 /\ doing' = "start" /\ degraded' = FALSE /\ UNCHANGED <<form25, copy>>
    BY <1>5, DayTypes DEF Fail, Advance, ReadTypes, world, caches
  <2>1. out' = [out EXCEPT ![Sec] = [Nothing EXCEPT !.kind = "error"]]
    BY <1>5 DEF Fail
  <2>2. ReadTypes'
    <3>1. DOMAIN out' = Securities
      BY <2>1 DEF ReadTypes
    <3>2. place' \in Nat \ {0}
      BY <2>0 DEF ReadTypes
    <3> QED
      BY <2>0, <3>1, <3>2 DEF ReadTypes
  <2>3. CopiesFresh'
    BY <2>0 DEF CopiesFresh, Busy
  <2>4. \A s \in Securities : out'[s] = out[s] \/ out'[s].kind = "error"
    BY <2>1 DEF ReadTypes, Nothing
  <2>5. IssuersFormsFound'
    BY <2>0, <2>4 DEF IssuersFormsFound, FreshFor, Searched
  <2> QED
    BY <2>2, <2>3, <2>5
<1>6. CASE Abort
  <2>1. ReadTypes'
    BY <1>6 DEF Abort, ReadTypes, world, caches
  <2>2. CopiesFresh'
    BY <1>6 DEF Abort, CopiesFresh, Busy
  <2> QED
    BY <1>6, <2>1, <2>2, <1>a DEF Abort, world
<1>7. CASE UNCHANGED stageVars
  <2>1. ReadTypes'
    BY <1>7 DEF stageVars, ReadTypes, world, caches
  <2>2. CopiesFresh'
    BY <1>7 DEF stageVars, CopiesFresh, Busy, Sec, Issuers, FreshFor, world, caches, search
  <2> QED
    BY <1>7, <2>1, <2>2, <1>a DEF stageVars, world
<1> QED
  BY <1>1, <1>2, <1>3, <1>4, <1>5, <1>6, <1>7 DEF StageNext

(* A Form 25 an issuer of a security filed by 45 days after its last sighting is
   among its delistings, or its row says a read failed or is an error row. *)
THEOREM FormsFound == StageSpec => []IssuersFormsFound
<1>1. FormsInv => IssuersFormsFound
  BY DEF FormsInv
<1> QED
  BY <1>1, FormsInit, FormsStep, PTL DEF StageSpec
===============================================================================
