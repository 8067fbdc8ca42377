--------------------------- MODULE MCDelistingStage ---------------------------
(* Stage 5 and the warm pass before it.  What a pass leaves in the caches is among what the
   stage begins with (StageInit), so each is explored by itself: a pass, and the stage
   after one that returned. *)
EXTENDS DelistingStage, PrefetchPool

CONSTANTS a, b, w1, w2, file, client

VARIABLE warming

(* Two threads, items that share a cache file and a Serialized client. *)
MCWorkers == {w1, w2}
MCLocks   == {file, client}

(* b shares a's issuer, and has another CIK in force, whose line a's may go on to. *)
TwoSecurities == <<a, b>>
TwoIssuers == a :> {0} @@ b :> {0, 1}
Seen == a :> 2 @@ b :> 1

(* A chain of two reorganizations, or two registrants replaced by one. *)
ChainOrJoin == 0 :> {1, 2} @@ 1 :> {2} @@ 2 :> {}

(* A pass one thread ran alone. *)
Returned ==
    /\ main = "returned" /\ submitted = Count /\ future = [i \in Items |-> "done"]
    /\ stop = FALSE /\ free = Objects
    /\ pc = [w \in Workers |-> "idle"] /\ item = [w \in Workers |-> IF w = w1 THEN Count ELSE 0]
    /\ obj = [w \in Workers |-> None] /\ lock = [w \in Workers |-> None]
    /\ asked = [w \in Workers |-> 0] /\ late = [w \in Workers |-> 0]

(* While the pass runs the stage has not begun: the least of its first states is enough. *)
Unbegun ==
    /\ form25 = [c \in Ciks |-> Never] /\ heir = [c \in Ciks |-> Ends]
    /\ copy = [c \in Ciks |-> Absent]

StageOrPassInit ==
    /\ warming \in BOOLEAN
    /\ StageInit /\ (warming => Unbegun)
    /\ IF warming THEN Init ELSE Returned

StageOrPassNext ==
    /\ UNCHANGED warming
    /\ IF warming THEN Next /\ UNCHANGED stageVars ELSE StageNext /\ UNCHANGED vars

StageOrPassSpec ==
    /\ StageOrPassInit /\ [][StageOrPassNext]_<<stageVars, vars, warming>>
    /\ WF_vars(MainStep) /\ \A w \in Workers : WF_vars(WorkerStep(w))
===============================================================================
