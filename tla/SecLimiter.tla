------------------------------ MODULE SecLimiter ------------------------------
(* The SEC request rate limit (sources/sec_limiter.py): in each process a
   RateLimiter with a lock, a spacing and a pause, and between processes a
   MachineGate over one lock file; with the request path that drives it
   (sec_get and retry_request of sources/edgar.py).

   Time is counted down: each variable that holds a moment of the code holds
   here what is left until it.  A thread may be delayed before any step.  A hold
   of the file lock is one step: it is released at the end of each look.  No two
   stamps, written in microseconds, are equal. *)
EXTENDS Naturals

CONSTANTS Procs, Threads,
          Home,        \* the process of each thread
          Interval,    \* RateLimiter.interval, MachineGate.interval
          MaxPause,    \* bound: the longest backoff
          Attempts,    \* RETRY_MAX_ATTEMPTS
          MaxStep,     \* bound: how far a wall-clock step may set a stamp ahead; 0: the clock is never set
          Frozen       \* processes that may be suspended for ever (Ctrl-Z, a debugger)

ASSUME SecLimiterAssumption ==
    /\ Home \in [Threads -> Procs]
    /\ Interval \in Nat \ {0} /\ MaxPause \in Nat \ {0} /\ Attempts \in Nat \ {0}
    /\ MaxStep \in Nat
    /\ Frozen \subseteq Procs
    /\ \A p \in Procs : p \notin Threads

VARIABLES
    pc,      \* where each thread stands
    left,    \* what is left of each thread's sleep
    tries,   \* the attempts each thread's request has made, 0 between requests
    known,   \* the stamp in the lock file is the one the thread has read before its last sleep
    lock,    \* RateLimiter._lock of each process: the thread that holds it, or the process itself
    gap,     \* time left until _last + interval
    pause,   \* time left until _resume_at
    stop,    \* the stop event of the process's prefetch pool is set
    due,     \* time left, by the wall clock, until the stamp in the lock file + interval
    cool,    \* time left, by a clock nobody sets, until the last start + interval
    stepped  \* the wall clock was set since the last start

limiterVars == <<pc, left, tries, known, lock, gap, pause, stop, due, cool, stepped>>
file == <<due, cool, stepped>>

Points == {"idle", "queue", "look", "sleep", "gate", "doze", "granted", "sent", "backoff"}

Smaller(a, b) == IF a <= b THEN a ELSE b
Larger(a, b)  == IF a >= b THEN a ELSE b
Less1(n)      == IF n = 0 THEN 0 ELSE n - 1

Free(p)  == lock[p] = p
Move(t, l) == pc' = [pc EXCEPT ![t] = l]
EndRequest(t) == Move(t, "idle") /\ tries' = [tries EXCEPT ![t] = 0]

LimiterInit ==
    /\ pc = [t \in Threads |-> "idle"]
    /\ left = [t \in Threads |-> 0]
    /\ tries = [t \in Threads |-> 0]
    /\ known = [t \in Threads |-> FALSE]
    /\ lock = [p \in Procs |-> p]
    /\ gap = [p \in Procs |-> 0]
    /\ pause = [p \in Procs |-> 0]
    /\ stop = [p \in Procs |-> FALSE]
    /\ due \in 0..Interval          \* the stamp of an earlier run, or none
    /\ cool = due
    /\ stepped = FALSE

-------------------------------------------------------------------------------
(* RateLimiter.acquire *)

(* sec_get asks for a slot for a new request. *)
Request(t) ==
    /\ pc[t] = "idle" /\ ~stop[Home[t]]
    /\ Move(t, "queue")
    /\ UNCHANGED <<left, tries, known, lock, gap, pause, stop, file>>

TakeLock(t) ==
    /\ pc[t] = "queue" /\ Free(Home[t])
    /\ lock' = [lock EXCEPT ![Home[t]] = t]
    /\ Move(t, "look")
    /\ UNCHANGED <<left, tries, known, gap, pause, stop, file>>

(* While the spacing or the pause is not over: sleep, holding the lock. *)
Look(t) ==
    /\ pc[t] = "look" /\ ~stop[Home[t]]
    /\ LET wait == Larger(pause[Home[t]], gap[Home[t]]) IN
         IF wait = 0 THEN /\ Move(t, "gate") /\ known' = [known EXCEPT ![t] = FALSE]
                          /\ UNCHANGED left
                     ELSE /\ Move(t, "sleep") /\ left' = [left EXCEPT ![t] = wait]
                          /\ UNCHANGED known
    /\ UNCHANGED <<tries, lock, gap, pause, stop, file>>

Wake(t) ==
    /\ \/ pc[t] = "sleep" /\ Move(t, "look") /\ UNCHANGED tries
       \/ pc[t] = "doze" /\ Move(t, "gate") /\ UNCHANGED tries
       \/ pc[t] = "backoff" /\ ~stop[Home[t]] /\ Move(t, "queue") /\ UNCHANGED tries
       \/ pc[t] = "backoff" /\ stop[Home[t]] /\ EndRequest(t)
    /\ left[t] = 0
    /\ UNCHANGED <<left, known, lock, gap, pause, stop, file>>

(* A faulty wait_turn: a thread that has slept a turn starts whatever the file
   says by then. *)
FaultyStampAfterAnySleep(t) ==
    /\ pc[t] = "gate"
    /\ due = 0 \/ known[t]
    /\ due' = Interval /\ cool' = Interval /\ stepped' = FALSE
    /\ known' = [known EXCEPT ![t] = FALSE]
    /\ Move(t, "granted")
    /\ UNCHANGED <<left, tries, lock, gap, pause, stop>>

(* A faulty wait_turn: a stamp already slept out is waited for again. *)
FaultyStampWhenDue(t) ==
    /\ pc[t] = "gate"
    /\ due = 0
    /\ due' = Interval /\ cool' = Interval /\ stepped' = FALSE
    /\ known' = [u \in Threads |-> FALSE]
    /\ Move(t, "granted")
    /\ UNCHANGED <<left, tries, lock, gap, pause, stop>>

(* MachineGate.wait_turn, one hold of the file lock: the start is stamped when
   the turn is due or the stamp has been slept out, else the thread sleeps with
   the file unlocked. *)
Stamp(t) ==
    /\ pc[t] = "gate"
    /\ due = 0 \/ known[t]
    /\ due' = Interval /\ cool' = Interval /\ stepped' = FALSE
    /\ known' = [u \in Threads |-> FALSE]
    /\ Move(t, "granted")
    /\ UNCHANGED <<left, tries, lock, gap, pause, stop>>

(* A faulty acquire: a thread gives the process's lock up while it waits for the
   machine's turn. *)
FaultyDozeUnlocked(t) ==
    /\ pc[t] = "gate"
    /\ due > 0 /\ ~known[t]
    /\ left' = [left EXCEPT ![t] = Smaller(due, Interval)]
    /\ known' = [known EXCEPT ![t] = TRUE]
    /\ lock' = [lock EXCEPT ![Home[t]] = Home[t]]
    /\ Move(t, "doze")
    /\ UNCHANGED <<tries, gap, pause, stop, file>>

Doze(t) ==
    /\ pc[t] = "gate"
    /\ due > 0 /\ ~known[t]
    /\ left' = [left EXCEPT ![t] = Smaller(due, Interval)]
    /\ known' = [known EXCEPT ![t] = TRUE]
    /\ Move(t, "doze")
    /\ UNCHANGED <<tries, lock, gap, pause, stop, file>>

(* The start: the spacing runs from here and the lock is released. *)
Launch(t) ==
    /\ pc[t] = "granted" /\ ~stop[Home[t]]
    /\ gap' = [gap EXCEPT ![Home[t]] = Interval]
    /\ lock' = [lock EXCEPT ![Home[t]] = Home[t]]
    /\ tries' = [tries EXCEPT ![t] = @ + 1]
    /\ Move(t, "sent")
    /\ UNCHANGED <<left, known, pause, stop, file>>

(* PrefetchCancelled: raised before the lock is asked for, at each look and
   after the gate; the slot goes unused. *)
Cancelled(t) ==
    /\ pc[t] \in {"look", "granted"} /\ stop[Home[t]]
    /\ lock' = [lock EXCEPT ![Home[t]] = Home[t]]
    /\ EndRequest(t)
    /\ UNCHANGED <<left, known, gap, pause, stop, file>>

-------------------------------------------------------------------------------
(* sec_get and retry_request *)

Answered(t) ==
    /\ pc[t] = "sent"
    /\ EndRequest(t)
    /\ UNCHANGED <<left, known, lock, gap, pause, stop, file>>

(* A 5xx or a dropped connection: the process's next starts are held for the
   backoff, which this thread sleeps before its next attempt. *)
Failed(t) ==
    /\ pc[t] = "sent"
    /\ \E seconds \in 1..MaxPause :
         /\ pause' = [pause EXCEPT ![Home[t]] = Larger(@, seconds)]
         /\ IF tries[t] < Attempts
            THEN Move(t, "backoff") /\ left' = [left EXCEPT ![t] = seconds] /\ UNCHANGED tries
            ELSE EndRequest(t) /\ UNCHANGED left
    /\ UNCHANGED <<known, lock, gap, stop, file>>

(* A 403 or 429 is never retried and stops the process's pool (prefetch.warm). *)
Refused(t) ==
    /\ pc[t] = "sent"
    /\ EndRequest(t)
    /\ stop' = [stop EXCEPT ![Home[t]] = TRUE]
    /\ UNCHANGED <<left, known, lock, gap, pause, file>>

(* A stopped run ends once its threads have; the next one is a new process, with
   a new RateLimiter beside the old lock file. *)
NewRun(p) ==
    /\ stop[p] /\ \A t \in Threads : Home[t] = p => pc[t] = "idle"
    /\ stop' = [stop EXCEPT ![p] = FALSE]
    /\ gap' = [gap EXCEPT ![p] = 0] /\ pause' = [pause EXCEPT ![p] = 0]
    /\ UNCHANGED <<pc, left, tries, known, lock, file>>

-------------------------------------------------------------------------------
(* Time *)

Tick ==
    /\ left' = [t \in Threads |-> Less1(left[t])]
    /\ gap' = [p \in Procs |-> Less1(gap[p])]
    /\ pause' = [p \in Procs |-> Less1(pause[p])]
    /\ due' = Less1(due) /\ cool' = Less1(cool)
    /\ UNCHANGED <<pc, tries, known, lock, stop, stepped>>

(* The wall clock is set: the stamp may now lie in the past or the future. *)
StepClock ==
    /\ MaxStep > 0
    /\ due' \in 0..Interval + MaxStep
    /\ stepped' = TRUE
    /\ UNCHANGED <<pc, left, tries, known, lock, gap, pause, stop, cool>>

Acquire(t) == TakeLock(t) \/ Look(t) \/ Wake(t) \/ Stamp(t) \/ Doze(t) \/ Launch(t) \/ Cancelled(t)
Answers(t)  == Answered(t) \/ Failed(t) \/ Refused(t)

LimiterNext ==
    \/ \E t \in Threads : Request(t) \/ Acquire(t) \/ Answers(t)
    \/ \E p \in Procs : NewRun(p)
    \/ Tick \/ StepClock

LimiterSpec == LimiterInit /\ [][LimiterNext]_limiterVars

(* Threads of a process that is not suspended run, a request is answered or
   times out, and time passes. *)
Fairness ==
    /\ WF_limiterVars(Tick)
    /\ \A t \in Threads : Home[t] \notin Frozen => WF_limiterVars(Acquire(t)) /\ WF_limiterVars(Answers(t))

FairSpec == LimiterSpec /\ Fairness

-------------------------------------------------------------------------------
(* Properties *)

(* Every variable has its type. *)
TypeOK ==
    /\ pc \in [Threads -> Points]
    /\ left \in [Threads -> 0..Larger(Interval, MaxPause)]
    /\ tries \in [Threads -> 0..Attempts]
    /\ known \in [Threads -> BOOLEAN]
    /\ lock \in [Procs -> Procs \cup Threads]
    /\ gap \in [Procs -> 0..Interval] /\ pause \in [Procs -> 0..MaxPause]
    /\ stop \in [Procs -> BOOLEAN]
    /\ due \in 0..Interval + MaxStep /\ cool \in 0..Interval /\ stepped \in BOOLEAN

(* The machine-wide limit: the starts stamped in the lock file are Interval apart,
   over all processes, and a step of the wall clock lets one early start through
   and no burst. *)
Machine == INSTANCE SpacedStarts WITH Interval <- Interval, cool <- cool, stepped <- stepped
StartsAreSpaced == Machine!Spec

(* RateLimiter: the starts of one process are Interval apart on its own clock,
   whatever the wall clock does and however long a thread waits at the gate. *)
ProcessStartsAreSpaced ==
    [][\A t \in Threads : (pc[t] = "granted" /\ pc'[t] = "sent") => gap[Home[t]] = 0]_limiterVars

(* No process stalls the others: while a thread of a running process waits for a
   slot, some start is made, also when another process is suspended or the wall
   clock keeps being set back. *)
Waiting(t) == pc[t] \in {"queue", "look", "sleep", "gate", "doze"}
StartsGoOn ==
    \A t \in Threads : Home[t] \notin Frozen =>
        (Waiting(t) ~> (cool = Interval \/ stop[Home[t]]))

-------------------------------------------------------------------------------
(* Why it holds. *)

(* A request that waits for a slot has an attempt left. *)
AttemptLeft == \A t \in Threads : pc[t] # "sent" => tries[t] < Attempts

(* From its first look to its start a thread holds its process's lock, and no
   other thread starts after it has found the spacing over. *)
SlotHeld ==
    \A t \in Threads :
        /\ pc[t] \in {"look", "sleep", "gate", "doze", "granted"} => lock[Home[t]] = t
        /\ pc[t] \in {"gate", "doze", "granted"} => gap[Home[t]] = 0

(* Unless the clock was set since the last start, a stamp slept out is due. *)
SleptOut ==
    stepped = FALSE =>
        /\ due = cool
        /\ \A t \in Threads :
             /\ (pc[t] = "doze" /\ known[t]) => due <= left[t]
             /\ (pc[t] = "gate" /\ known[t]) => due = 0
===============================================================================
