----------------------------- MODULE PrefetchPool -----------------------------
(* One warm pass (sources/prefetch.py, `warm`): items run on a thread pool under
   a stop event, each with a state object of its own, every SEC request under a
   lock (of its cache file, or of a Serialized client) and through the limiter,
   while the main thread waits for the end, a refusal or Ctrl-C. *)
EXTENDS Naturals, FiniteSets

CONSTANTS Workers,       \* the pool's threads; as many state objects are made
          Count,         \* the number of items, submitted in the order 1..Count
          Locks,         \* cache files and Serialized clients
          MaxReads,   \* bound: SEC reads, retries included, one item makes
          None

ASSUME PrefetchPoolAssumption ==
    /\ Count \in Nat \ {0} /\ MaxReads \in Nat
    /\ IsFiniteSet(Workers) /\ Workers # {}
    /\ None \notin Workers

Items   == 1..Count
Objects == Workers

VARIABLES
    main,       \* where warm stands in the main thread
    submitted,  \* items submitted so far
    future,     \* the future of each item
    stop,       \* the stop event
    free,       \* the state objects in the queue
    pc, item, obj, lock,   \* each worker: its place, its item, its object, the lock it holds or waits for
    asked,   \* SEC reads and retries of the worker's item so far
    late        \* SEC requests each worker has sent after the stop

vars == <<main, submitted, future, stop, free, pc, item, obj, lock, asked, late>>
worker == <<item, obj, lock, asked, late>>
pool   == <<main, submitted>>

Init ==
    /\ main = "submit" /\ submitted = 0
    /\ future = [i \in Items |-> "none"]
    /\ stop = FALSE
    /\ free = Objects
    /\ pc = [w \in Workers |-> "idle"]
    /\ item = [w \in Workers |-> 0]
    /\ obj = [w \in Workers |-> None]
    /\ lock = [w \in Workers |-> None]
    /\ asked = [w \in Workers |-> 0]
    /\ late = [w \in Workers |-> 0]

Move(w, l) == pc' = [pc EXCEPT ![w] = l]
Holds(w)   == pc[w] \in {"slot", "go", "flight"}      \* w holds lock[w]
Raised     == {i \in Items : future[i] = "raised"}

-------------------------------------------------------------------------------
(* A worker: run(item). *)

(* The executor hands the oldest queued item to an idle thread. *)
Pick(w) ==
    /\ pc[w] = "idle"
    /\ \E i \in Items :
         /\ future[i] = "queued" /\ \A j \in Items : j < i => future[j] # "queued"
         /\ future' = [future EXCEPT ![i] = "running"]
         /\ item' = [item EXCEPT ![w] = i]
    /\ Move(w, "picked")
    /\ asked' = [asked EXCEPT ![w] = 0]
    /\ UNCHANGED <<pool, stop, free, obj, lock, late>>

End(w, f) == future' = [future EXCEPT ![item[w]] = f] /\ Move(w, "idle")

(* The stop is looked at once, before a state object is taken. *)
CheckStop(w) ==
    /\ pc[w] = "picked"
    /\ IF stop THEN End(w, "done") ELSE Move(w, "get") /\ UNCHANGED future
    /\ UNCHANGED <<pool, stop, free, worker>>

(* A faulty pool: one object serves every worker. *)
FaultyGetObject(w) ==
    /\ pc[w] = "get"
    /\ \E o \in free : obj' = [obj EXCEPT ![w] = o]
    /\ Move(w, "task")
    /\ UNCHANGED <<pool, future, stop, free, item, lock, asked, late>>

GetObject(w) ==
    /\ pc[w] = "get"
    /\ \E o \in free : free' = free \ {o} /\ obj' = [obj EXCEPT ![w] = o]
    /\ Move(w, "task")
    /\ UNCHANGED <<pool, future, stop, item, lock, asked, late>>

(* A read that the cache does not answer: the lock of its file or client first. *)
Ask(w) ==
    /\ pc[w] = "task" /\ asked[w] < MaxReads
    /\ \E k \in Locks : lock' = [lock EXCEPT ![w] = k]
    /\ asked' = [asked EXCEPT ![w] = @ + 1]
    /\ Move(w, "lock")
    /\ UNCHANGED <<pool, future, stop, free, item, obj, late>>

(* Another thread may have filled the cache while this one waited. *)
TakeLock(w) ==
    /\ pc[w] = "lock"
    /\ \A v \in Workers : Holds(v) => lock[v] # lock[w]
    /\ \/ Move(w, "slot") /\ UNCHANGED lock
       \/ Move(w, "task") /\ lock' = [lock EXCEPT ![w] = None]
    /\ UNCHANGED <<pool, future, stop, free, item, obj, asked, late>>

(* A faulty acquire: the stop is not looked at again after the wait. *)
FaultyPassLimiter(w) ==
    /\ pc[w] = "slot"
    /\ Move(w, "go")
    /\ UNCHANGED <<pool, future, stop, free, worker>>

(* The limiter's turn comes: the last look at the stop, then the request. *)
PassLimiter(w) ==
    /\ pc[w] = "slot" /\ ~stop
    /\ Move(w, "go")
    /\ UNCHANGED <<pool, future, stop, free, worker>>

Send(w) ==
    /\ pc[w] = "go"
    /\ late' = [late EXCEPT ![w] = IF stop THEN @ + 1 ELSE @]
    /\ Move(w, "flight")
    /\ UNCHANGED <<pool, future, stop, free, item, obj, lock, asked>>

(* PrefetchCancelled leaves every `with` of the task: the lock is free again. *)
Cancelled(w) ==
    /\ pc[w] = "slot" /\ stop
    /\ lock' = [lock EXCEPT ![w] = None]
    /\ Move(w, "cancelled")
    /\ UNCHANGED <<pool, future, stop, free, item, obj, asked, late>>

(* A 5xx is tried again under the same lock; an answer, an error and a refusal
   (403/429) free it. *)
Answer(w) ==
    /\ pc[w] = "flight"
    /\ \/ /\ asked[w] < MaxReads
          /\ Move(w, "slot") /\ UNCHANGED lock
          /\ asked' = [asked EXCEPT ![w] = @ + 1]
       \/ /\ \E l \in {"task", "failed", "fatal"} : Move(w, l)
          /\ lock' = [lock EXCEPT ![w] = None] /\ UNCHANGED asked
    /\ UNCHANGED <<pool, future, stop, free, item, obj, late>>

(* The task returns, raises, or OpenFIGI refuses it. *)
TaskEnds(w) ==
    /\ pc[w] = "task"
    /\ \E l \in {"returned", "failed", "fatal"} : Move(w, l)
    /\ UNCHANGED <<pool, future, stop, free, worker>>

(* except FATAL: the stop is set before this thread takes another item. *)
SetStop(w) ==
    /\ pc[w] = "fatal"
    /\ stop' = TRUE
    /\ Move(w, "raising")
    /\ UNCHANGED <<pool, future, free, worker>>

(* A faulty run(item): an item that fails keeps its object. *)
FaultyPutOnReturn(w) ==
    /\ pc[w] \in {"returned", "cancelled", "failed", "raising"}
    /\ free' = IF pc[w] = "failed" THEN free ELSE free \cup {obj[w]}
    /\ obj' = [obj EXCEPT ![w] = None]
    /\ End(w, IF pc[w] = "raising" THEN "raised" ELSE "done")
    /\ UNCHANGED <<pool, stop, item, lock, asked, late>>

(* A faulty run(item): the refusal stops the pool and is not raised again. *)
FaultyPutSwallows(w) ==
    /\ pc[w] \in {"returned", "cancelled", "failed", "raising"}
    /\ free' = free \cup {obj[w]}
    /\ obj' = [obj EXCEPT ![w] = None]
    /\ End(w, "done")
    /\ UNCHANGED <<pool, stop, item, lock, asked, late>>

(* finally: the object goes back, however the item ended. *)
PutObject(w) ==
    /\ pc[w] \in {"returned", "cancelled", "failed", "raising"}
    /\ free' = free \cup {obj[w]}
    /\ obj' = [obj EXCEPT ![w] = None]
    /\ End(w, IF pc[w] = "raising" THEN "raised" ELSE "done")
    /\ UNCHANGED <<pool, stop, item, lock, asked, late>>

WorkerStep(w) ==
    \/ Pick(w) \/ CheckStop(w) \/ GetObject(w) \/ Ask(w) \/ TakeLock(w) \/ PassLimiter(w)
    \/ Send(w) \/ Cancelled(w) \/ Answer(w) \/ TaskEnds(w) \/ SetStop(w) \/ PutObject(w)

-------------------------------------------------------------------------------
(* The main thread. *)

Submit ==
    /\ main = "submit"
    /\ future' = [future EXCEPT ![submitted + 1] = "queued"]
    /\ submitted' = submitted + 1
    /\ main' = IF submitted + 1 = Count THEN "wait" ELSE "submit"
    /\ UNCHANGED <<stop, free, pc, worker>>

Finished == \A i \in Items : future[i] \in {"done", "raised"}

(* wait(FIRST_EXCEPTION), then the futures that have raised are looked at. *)
WaitEnds ==
    /\ main = "wait"
    /\ Raised # {} \/ Finished
    /\ main' = IF Raised # {} THEN "stopping" ELSE "closing"
    /\ UNCHANGED <<submitted, future, stop, free, pc, worker>>

(* A first Ctrl-C; a second one ends the wait for the workers. *)
Interrupt ==
    /\ \/ main \in {"submit", "wait", "closing"} /\ main' = IF main = "closing" THEN "interrupted" ELSE "stopping"
       \/ main = "shutdown" /\ main' = "interrupted"
    /\ UNCHANGED <<submitted, future, stop, free, pc, worker>>

(* except BaseException: stop, and cancel what has not started. *)
Shutdown ==
    /\ main = "stopping"
    /\ stop' = TRUE
    /\ future' = [i \in Items |-> IF future[i] = "queued" THEN "cancelled" ELSE future[i]]
    /\ main' = "shutdown"
    /\ UNCHANGED <<submitted, free, pc, worker>>

(* The threads end when the queue is empty. *)
Joined == /\ \A w \in Workers : pc[w] = "idle"
          /\ \A i \in Items : future[i] # "queued"

Join ==
    /\ Joined
    /\ \/ main = "shutdown" /\ main' = "raised"
       \/ main = "closing" /\ main' = "returned"
    /\ UNCHANGED <<submitted, future, stop, free, pc, worker>>

MainStep == Submit \/ WaitEnds \/ Shutdown \/ Join

Next == MainStep \/ Interrupt \/ \E w \in Workers : WorkerStep(w)

Spec == Init /\ [][Next]_vars

(* The threads run, and a request is answered or times out. *)
FairSpec == Spec /\ WF_vars(MainStep) /\ \A w \in Workers : WF_vars(WorkerStep(w))

-------------------------------------------------------------------------------
(* Properties *)

Places   == {"idle", "picked", "get", "task", "lock", "slot", "go", "flight",
             "returned", "cancelled", "failed", "fatal", "raising"}
Futures  == {"none", "queued", "running", "done", "raised", "cancelled"}
MainPlaces == {"submit", "wait", "closing", "stopping", "shutdown", "returned",
               "raised", "interrupted"}

(* Every variable has its type. *)
TypeOK ==
    /\ main \in MainPlaces
    /\ submitted \in 0..Count
    /\ future \in [Items -> Futures]
    /\ stop \in BOOLEAN
    /\ free \subseteq Objects
    /\ pc \in [Workers -> Places]
    /\ item \in [Workers -> 0..Count]
    /\ obj \in [Workers -> Objects \cup {None}]
    /\ lock \in [Workers -> Locks \cup {None}]
    /\ asked \in [Workers -> 0..MaxReads]
    /\ late \in [Workers -> Nat]

(* warm: a state object (a shadow resolver, a finder) is never used by two threads
   at once, and none is lost, however its item ends. *)
ObjectsExclusive ==
    /\ \A v, w \in Workers : (v # w /\ obj[v] # None) => obj[v] # obj[w]
    /\ Objects \subseteq free \cup {obj[w] : w \in Workers}
    /\ \A w \in Workers : obj[w] \notin free

(* cancelled_by: after the stop (a refusal, Ctrl-C) a running worker sends the one
   request it had its turn for, if any, and no other. *)
OneLateRequest == \A w \in Workers : late[w] <= 1

(* A pass that returns ran every item: no refusal was swallowed, and no item was
   skipped for a stop nobody hears of. *)
NothingSkipped ==
    main = "returned" => ~stop /\ \A i \in Items : future[i] = "done"

(* The pass ends, also with a client's lock between the threads and after a
   stop: the run is not left waiting for its own threads. *)
PassEnds == <>(main \in {"returned", "raised", "interrupted"})

-------------------------------------------------------------------------------
(* Why it holds. *)

(* A worker holds an object from GetObject to PutObject. *)
ObjectHeld == \A w \in Workers : obj[w] = None <=> pc[w] \in {"idle", "picked", "get"}

(* A worker that had its turn before the stop has sent nothing after it. *)
TurnBeforeStop ==
    \A w \in Workers : /\ late[w] > 0 => stop
                       /\ pc[w] = "go" => late[w] = 0

(* Each running future is one worker's, and the items are submitted in order. *)
FuturesInOrder ==
    /\ \A w \in Workers : pc[w] # "idle" =>
         /\ item[w] \in Items /\ future[item[w]] = "running"
         /\ \A v \in Workers : (v # w /\ pc[v] # "idle") => item[v] # item[w]
    /\ main = "submit" => (submitted < Count /\ \A i \in Items : i > submitted => future[i] = "none")

(* A stop is heard: the refusal is on its way to the main thread, or the main
   thread itself has stopped the pool. *)
StopHeard ==
    /\ stop => \/ \E w \in Workers : pc[w] = "raising"
               \/ Raised # {}
               \/ main \in {"shutdown", "raised", "interrupted"}
    /\ main \in {"closing", "returned"} => \A i \in Items : future[i] = "done"
===============================================================================
