----------------------------- MODULE SpacedStarts -----------------------------
(* What the machine-wide SEC rate limit promises (sources/sec_limiter.py): two
   request starts, whichever process makes them, are Interval apart, but for the
   first start after somebody has set the wall clock.  `cool` is the time left
   until the next start may be made. *)
EXTENDS Naturals

CONSTANT Interval     \* the time between two starts, 1 / SEC_MAX_RATE

VARIABLES cool, stepped     \* stepped: the wall clock was set since the last start

Init  == cool \in 0..Interval /\ stepped = FALSE
Start == (cool = 0 \/ stepped) /\ cool' = Interval /\ stepped' = FALSE
Pass  == cool > 0 /\ cool' = cool - 1 /\ UNCHANGED stepped      \* one unit of time passes
SetClock == stepped' = TRUE /\ UNCHANGED cool
Next  == Start \/ Pass \/ SetClock
Spec  == Init /\ [][Next]_<<cool, stepped>>
===============================================================================
