-------------------------- MODULE SharedStateProofs --------------------------
(* What runs and processes share in a file.  Of the limiter's stamp: what is kept for any
   number of processes and threads, any spacing and any delay of a thread.  Of the memo of
   the issuer lookup, for any companies, lookups, pins, worlds and failed reads, and
   wherever a run is stopped: the file never holds a miss or an answer that a failed read
   led to, and the answers marked degraded are those that one led to.  An answer in hand
   carries its mark before it is in the memo, and an earlier mark is taken off only after:
   that order is the argument. *)
EXTENDS SecLimiter, Resolver, TLAPS

USE SecLimiterAssumption

LEMMA Arithmetic ==
    /\ \A a, b \in Nat : Larger(a, b) \in Nat /\ Larger(a, b) >= a /\ Larger(a, b) >= b
    /\ \A a, b \in Nat : Smaller(a, b) \in Nat /\ Smaller(a, b) <= a /\ Smaller(a, b) <= b
    /\ \A n \in Nat : Less1(n) \in Nat /\ Less1(n) <= n
    /\ \A a, b \in Nat : a <= b => Less1(a) <= Less1(b)
  BY DEF Larger, Smaller, Less1

(* No wait is longer than the spacing or the longest backoff. *)
LEMMA WaitBound ==
    /\ \A a \in 0..Interval, b \in 0..MaxPause : Larger(b, a) \in 0..Larger(Interval, MaxPause)
    /\ \A a \in Nat : Smaller(a, Interval) \in 0..Larger(Interval, MaxPause)
    /\ \A s \in 1..MaxPause : s \in 0..Larger(Interval, MaxPause)
    /\ \A a \in 0..MaxPause, s \in 1..MaxPause : Larger(a, s) \in 0..MaxPause
    /\ \A a \in Nat : \A b \in 0..a : Less1(b) \in 0..a
    /\ 0 \in 0..Larger(Interval, MaxPause)
  BY DEF Larger, Smaller, Less1

(* Every variable keeps its type: no request makes more attempts than it may and
   no wait is longer than the spacing or the longest backoff. *)
LEMMA TypeStep == TypeOK /\ AttemptLeft /\ [LimiterNext]_limiterVars => TypeOK'
<1> SUFFICES ASSUME TypeOK, AttemptLeft, [LimiterNext]_limiterVars PROVE TypeOK'
  OBVIOUS
<1> USE DEF TypeOK, Points, Move, EndRequest
<1>0. \A t \in Threads : /\ Home[t] \in Procs /\ Home[t] \in Procs \cup Threads
                         /\ pause[Home[t]] \in 0..MaxPause /\ gap[Home[t]] \in 0..Interval
  OBVIOUS
<1>1. ASSUME NEW t \in Threads, Request(t) PROVE TypeOK'
  BY <1>1 DEF Request, file
<1>2. ASSUME NEW t \in Threads, TakeLock(t) PROVE TypeOK'
  BY <1>2 DEF TakeLock, file
<1>3. ASSUME NEW t \in Threads, Look(t) PROVE TypeOK'
  <2>1. left' \in [Threads -> 0..Larger(Interval, MaxPause)]
    <3>1. CASE left' = left
      BY <3>1
    <3>2. CASE left' = [left EXCEPT ![t] = Larger(pause[Home[t]], gap[Home[t]])]
      <4>1. Larger(pause[Home[t]], gap[Home[t]]) \in 0..Larger(Interval, MaxPause)
        BY <1>0, WaitBound
      <4> QED
        BY <3>2, <4>1
    <3> QED
      BY <1>3, <3>1, <3>2 DEF Look
  <2>2. pc' \in [Threads -> Points] /\ known' \in [Threads -> BOOLEAN]
    BY <1>3, ZenonT(60) DEF Look
  <2> QED
    BY <1>3, <2>1, <2>2 DEF Look, file
<1>4. ASSUME NEW t \in Threads, Wake(t) PROVE TypeOK'
  BY <1>4 DEF Wake, file
<1>5. ASSUME NEW t \in Threads, Stamp(t) PROVE TypeOK'
  <2>1. due' \in 0..Interval + MaxStep /\ cool' \in 0..Interval
    BY <1>5 DEF Stamp
  <2>2. pc' \in [Threads -> Points] /\ known' \in [Threads -> BOOLEAN]
    BY <1>5 DEF Stamp
  <2> QED
    BY <1>5, <2>1, <2>2 DEF Stamp
<1>6. ASSUME NEW t \in Threads, Doze(t) PROVE TypeOK'
  <2>1. left' \in [Threads -> 0..Larger(Interval, MaxPause)]
    BY <1>6, WaitBound DEF Doze
  <2>2. pc' \in [Threads -> Points] /\ known' \in [Threads -> BOOLEAN]
    BY <1>6 DEF Doze
  <2> QED
    BY <1>6, <2>1, <2>2 DEF Doze, file
<1>7. ASSUME NEW t \in Threads, Launch(t) PROVE TypeOK'
  <2>1. tries[t] + 1 \in 0..Attempts
    BY <1>7 DEF Launch, AttemptLeft
  <2> QED
    BY <1>0, <1>7, <2>1 DEF Launch, file
<1>8. ASSUME NEW t \in Threads, Cancelled(t) PROVE TypeOK'
  BY <1>8, <1>0 DEF Cancelled, file
<1>9. ASSUME NEW t \in Threads, Answered(t) \/ Refused(t) PROVE TypeOK'
  <2>1. CASE Answered(t)
    BY <2>1 DEF Answered, file
  <2>2. CASE Refused(t)
    BY <2>2, <1>0 DEF Refused, file
  <2> QED
    BY <1>9, <2>1, <2>2
<1>14. ASSUME NEW t \in Threads, Failed(t) PROVE TypeOK'
  <2>1. left' \in [Threads -> 0..Larger(Interval, MaxPause)]
    <3>1. PICK seconds \in 1..MaxPause : left' = [left EXCEPT ![t] = seconds] \/ left' = left
      BY <1>14 DEF Failed
    <3>2. seconds \in 0..Larger(Interval, MaxPause)
      BY WaitBound
    <3> QED
      BY <3>1, <3>2
  <2>2. pause' \in [Procs -> 0..MaxPause]
    BY <1>0, <1>14, WaitBound DEF Failed
  <2>3. pc' \in [Threads -> Points]
    BY <1>14 DEF Failed
  <2> QED
    BY <1>14, <2>1, <2>2, <2>3 DEF Failed, file
<1>10. ASSUME NEW p \in Procs, NewRun(p) PROVE TypeOK'
  BY <1>10 DEF NewRun, file
<1>11. CASE Tick
  <2>1. left' \in [Threads -> 0..Larger(Interval, MaxPause)]
    <3>1. Larger(Interval, MaxPause) \in Nat
      BY Arithmetic
    <3> QED
      BY <1>11, <3>1, WaitBound DEF Tick
  <2>2. gap' \in [Procs -> 0..Interval] /\ pause' \in [Procs -> 0..MaxPause]
    BY <1>11, WaitBound DEF Tick
  <2>3. due' \in 0..Interval + MaxStep /\ cool' \in 0..Interval
    BY <1>11, WaitBound DEF Tick
  <2> QED
    BY <1>11, <2>1, <2>2, <2>3 DEF Tick
<1>12. CASE StepClock
  BY <1>12 DEF StepClock
<1>13. CASE UNCHANGED limiterVars
  BY <1>13 DEF limiterVars, file
<1> QED
  BY <1>1, <1>2, <1>3, <1>4, <1>5, <1>6, <1>7, <1>8, <1>9, <1>10, <1>11, <1>12, <1>13, <1>14
     DEF LimiterNext, Acquire, Answers

LEMMA AttemptStep == TypeOK /\ AttemptLeft /\ [LimiterNext]_limiterVars => AttemptLeft'
<1> SUFFICES ASSUME TypeOK, AttemptLeft, [LimiterNext]_limiterVars, NEW t \in Threads,
                    pc'[t] # "sent"
             PROVE  tries'[t] < Attempts
  BY DEF AttemptLeft
<1> USE DEF TypeOK, AttemptLeft, Move, EndRequest
<1>1. ASSUME NEW u \in Threads, Request(u) PROVE tries'[t] < Attempts
  BY <1>1 DEF Request
<1>2. ASSUME NEW u \in Threads, Acquire(u) PROVE tries'[t] < Attempts
  BY <1>2 DEF Acquire, TakeLock, Look, Wake, Stamp, Doze, Launch, Cancelled
<1>3. ASSUME NEW u \in Threads, Answers(u) PROVE tries'[t] < Attempts
  BY <1>3 DEF Answers, Answered, Failed, Refused
<1>4. CASE (\E p \in Procs : NewRun(p)) \/ Tick \/ StepClock \/ UNCHANGED limiterVars
  BY <1>4 DEF NewRun, Tick, StepClock, limiterVars
<1> QED
  BY <1>1, <1>2, <1>3, <1>4 DEF LimiterNext

LEMMA InitTyped == LimiterInit => TypeOK /\ AttemptLeft /\ SlotHeld
<1> SUFFICES ASSUME LimiterInit PROVE TypeOK /\ AttemptLeft /\ SlotHeld
  OBVIOUS
<1>1. AttemptLeft /\ SlotHeld
  BY DEF LimiterInit, AttemptLeft, SlotHeld
<1>2. left \in [Threads -> 0..Larger(Interval, MaxPause)]
  BY WaitBound DEF LimiterInit
<1>3. due \in 0..Interval + MaxStep /\ cool \in 0..Interval
  BY DEF LimiterInit
<1>4. pc \in [Threads -> Points] /\ known \in [Threads -> BOOLEAN] /\ tries \in [Threads -> 0..Attempts]
  BY DEF LimiterInit, Points
<1>5. /\ lock \in [Procs -> Procs \cup Threads] /\ stop \in [Procs -> BOOLEAN]
      /\ gap \in [Procs -> 0..Interval] /\ pause \in [Procs -> 0..MaxPause]
  BY DEF LimiterInit
<1>6. stepped \in BOOLEAN
  BY DEF LimiterInit
<1> QED
  BY <1>1, <1>2, <1>3, <1>4, <1>5, <1>6 DEF TypeOK

(* The type invariant of the whole limiter, for any number of threads. *)
THEOREM TypeCorrect == LimiterSpec => []TypeOK
<1>1. TypeOK /\ AttemptLeft /\ [LimiterNext]_limiterVars => (TypeOK /\ AttemptLeft)'
  BY TypeStep, AttemptStep
<1> QED
  BY InitTyped, <1>1, PTL DEF LimiterSpec

-----------------------------------------------------------------------------
(* The threads of one process. *)

LEMMA SlotStep == TypeOK /\ SlotHeld /\ [LimiterNext]_limiterVars => SlotHeld'
<1> SUFFICES ASSUME TypeOK, SlotHeld, [LimiterNext]_limiterVars, NEW t \in Threads
             PROVE  /\ pc'[t] \in {"look", "sleep", "gate", "doze", "granted"} => lock'[Home[t]] = t
                    /\ pc'[t] \in {"gate", "doze", "granted"} => gap'[Home[t]] = 0
  BY DEF SlotHeld
<1> DEFINE HoldsOn == /\ pc'[t] \in {"look", "sleep", "gate", "doze", "granted"} => lock'[Home[t]] = t
                      /\ pc'[t] \in {"gate", "doze", "granted"} => gap'[Home[t]] = 0
<1> USE DEF TypeOK, SlotHeld, Move, EndRequest
<1>0. \A u \in Threads : Home[u] \in Procs /\ Home[u] # u /\ gap[Home[u]] \in 0..Interval
                         /\ pause[Home[u]] \in 0..MaxPause
  OBVIOUS
<1>1. ASSUME NEW u \in Threads, Request(u) PROVE HoldsOn
  BY <1>1 DEF Request
<1>2. ASSUME NEW u \in Threads, TakeLock(u) PROVE HoldsOn
  <2>1. Home[t] = Home[u] => pc[t] \notin {"look", "sleep", "gate", "doze", "granted"}
    BY <1>0, <1>2 DEF TakeLock, Free
  <2> QED
    BY <1>0, <1>2, <2>1 DEF TakeLock
<1>3. ASSUME NEW u \in Threads, Look(u) PROVE HoldsOn
  <2>1. Larger(pause[Home[u]], gap[Home[u]]) = 0 => gap[Home[u]] = 0
    BY <1>0 DEF Larger
  <2> QED
    BY <1>3, <2>1 DEF Look
<1>4. ASSUME NEW u \in Threads, Wake(u) \/ Stamp(u) \/ Doze(u) PROVE HoldsOn
  BY <1>4 DEF Wake, Stamp, Doze
<1>5. ASSUME NEW u \in Threads, Launch(u) \/ Cancelled(u) PROVE HoldsOn
  <2>1. lock[Home[u]] = u
    BY <1>5 DEF Launch, Cancelled
  <2>2. t # u /\ pc[t] \in {"look", "sleep", "gate", "doze", "granted"} => Home[t] # Home[u]
    BY <2>1
  <2> QED
    BY <1>0, <1>5, <2>2 DEF Launch, Cancelled
<1>6. ASSUME NEW u \in Threads, Answers(u) PROVE HoldsOn
  BY <1>6 DEF Answers, Answered, Failed, Refused
<1>7. ASSUME NEW p \in Procs, NewRun(p) PROVE HoldsOn
  BY <1>0, <1>7 DEF NewRun
<1>8. CASE Tick
  BY <1>0, <1>8 DEF Tick, Less1
<1>9. CASE StepClock \/ UNCHANGED limiterVars
  BY <1>9 DEF StepClock, limiterVars
<1> HIDE DEF TypeOK, SlotHeld, Move, EndRequest
<1>10. ASSUME NEW u \in Threads, Acquire(u) PROVE HoldsOn
  BY <1>2, <1>3, <1>4, <1>5, <1>10 DEF Acquire
<1>11. CASE \E u \in Threads : Request(u) \/ Acquire(u) \/ Answers(u)
  BY <1>1, <1>6, <1>10, <1>11
<1>12. CASE \E p \in Procs : NewRun(p)
  BY <1>7, <1>12
<1> QED
  BY <1>8, <1>9, <1>11, <1>12 DEF LimiterNext

(* The threads of one process start their requests Interval apart, however long
   each of them is delayed and whatever the wall clock does. *)
THEOREM ProcessSpaced == LimiterSpec => ProcessStartsAreSpaced
<1> DEFINE P == \A t \in Threads : (pc[t] = "granted" /\ pc'[t] = "sent") => gap[Home[t]] = 0
<1>1. TypeOK /\ SlotHeld /\ [LimiterNext]_limiterVars => (SlotHeld)' /\ [P]_limiterVars
  BY SlotStep DEF SlotHeld
<1>2. LimiterSpec => []TypeOK
  BY TypeCorrect
<1> QED
  BY InitTyped, <1>1, <1>2, PTL DEF LimiterSpec, ProcessStartsAreSpaced

-----------------------------------------------------------------------------
(* All processes of the machine. *)

LEMMA SleptOutStep ==
  TypeOK /\ SleptOut /\ [LimiterNext]_limiterVars => SleptOut' /\ [Machine!Next]_<<cool, stepped>>
<1> SUFFICES ASSUME TypeOK, SleptOut, [LimiterNext]_limiterVars
             PROVE  SleptOut' /\ [Machine!Next]_<<cool, stepped>>
  OBVIOUS
<1> USE DEF TypeOK, SleptOut, Move, EndRequest
<1>1. ASSUME NEW u \in Threads, Request(u) \/ TakeLock(u) \/ Launch(u) \/ Cancelled(u) \/ Answers(u)
      PROVE  SleptOut' /\ [Machine!Next]_<<cool, stepped>>
  BY <1>1 DEF Request, TakeLock, Launch, Cancelled, Answers, Answered, Failed, Refused, file
<1>2. ASSUME NEW u \in Threads, Look(u) PROVE SleptOut' /\ [Machine!Next]_<<cool, stepped>>
  BY <1>2 DEF Look, file
<1>3. ASSUME NEW u \in Threads, Wake(u) PROVE SleptOut' /\ [Machine!Next]_<<cool, stepped>>
  BY <1>3 DEF Wake, file
<1>4. ASSUME NEW u \in Threads, Stamp(u) PROVE SleptOut' /\ [Machine!Next]_<<cool, stepped>>
  BY <1>4 DEF Stamp, Machine!Next, Machine!Start
<1>5. ASSUME NEW u \in Threads, Doze(u) PROVE SleptOut' /\ [Machine!Next]_<<cool, stepped>>
  <2>1. stepped = FALSE => Smaller(due, Interval) = due
    BY DEF Smaller
  <2> QED
    BY <1>5, <2>1 DEF Doze, file
<1>6. ASSUME NEW p \in Procs, NewRun(p) PROVE SleptOut' /\ [Machine!Next]_<<cool, stepped>>
  BY <1>6 DEF NewRun, file
<1>7. CASE Tick
  <2>1. SleptOut'
    <3>1. \A t \in Threads : left[t] \in Nat
      BY Arithmetic
    <3>2. \A t \in Threads : due <= left[t] => due' <= left'[t]
      BY <1>7, <3>1, Arithmetic DEF Tick
    <3>3. due = 0 => due' = 0
      BY <1>7 DEF Tick, Less1
    <3> QED
      BY <1>7, <3>2, <3>3 DEF Tick
  <2>2. [Machine!Next]_<<cool, stepped>>
    BY <1>7 DEF Tick, Less1, Machine!Next, Machine!Pass
  <2> QED
    BY <2>1, <2>2
<1>8. CASE StepClock \/ UNCHANGED limiterVars
  BY <1>8 DEF StepClock, limiterVars, file, Machine!Next, Machine!SetClock
<1> HIDE DEF TypeOK, SleptOut, Move, EndRequest
<1> QED
  BY <1>1, <1>2, <1>3, <1>4, <1>5, <1>6, <1>7, <1>8 DEF LimiterNext, Acquire

(* The starts stamped in the lock file by all processes of the machine are Interval
   apart, but for the first one after the wall clock was set: the limiter
   implements SpacedStarts. *)
THEOREM MachineSpaced == LimiterSpec => StartsAreSpaced
<1>1. LimiterInit => SleptOut /\ Machine!Init
  BY DEF LimiterInit, SleptOut, Machine!Init
<1>2. TypeOK /\ SleptOut /\ [LimiterNext]_limiterVars => SleptOut' /\ [Machine!Next]_<<cool, stepped>>
  BY SleptOutStep
<1>3. LimiterSpec => []TypeOK
  BY TypeCorrect
<1> QED
  BY <1>1, <1>2, <1>3, PTL DEF LimiterSpec, StartsAreSpaced, Machine!Spec

-------------------------------------------------------------------------------
(* The memo *)

(* Every answer has the fields the memo reads. *)
IsAnswer(r) == {"cik", "source", "token", "rests"} \subseteq DOMAIN r /\ r.rests \in BOOLEAN

Shapes ==
    /\ {"stack", "at", "res", "failed"} \subseteq DOMAIN now
    /\ now.failed \in BOOLEAN /\ IsAnswer(now.res)
    /\ {"memo", "volatile", "degraded", "dirty"} \subseteq DOMAIN resolver
    /\ \A k \in DOMAIN resolver.memo : IsAnswer(resolver.memo[k])
    /\ \A k \in DOMAIN disk : IsAnswer(disk[k])

InHand == now.at = "mark" \/ now.at = "keep" \/ now.at = "clear" \/ now.at = "found"
Marked == now.at = "keep" \/ now.at = "clear"

(* What the next save of the memo would write is sure. *)
SavableIsSure ==
    \A k \in DOMAIN resolver.memo \ resolver.volatile : resolver.memo[k].cik # 0 /\ ~resolver.memo[k].rests

(* An answer in hand that rests on a failed read is one that failed, and the other way
   round; once marked, its key is; once kept, it is the memo's. *)
AnswerInHand ==
    /\ InHand => (now.failed <=> now.res.rests)
    /\ Marked => /\ Volatile => Key(Asked) \in resolver.volatile
                 /\ now.failed => Key(Asked) \in resolver.degraded
    /\ now.at = "clear" => Key(Asked) \in DOMAIN resolver.memo /\ resolver.memo[Key(Asked)] = now.res

(* The marks say what the memo holds, but for the key being written. *)
MarksAreRight ==
    now.at # "stopped" =>
        \A k \in DOMAIN resolver.memo :
            \/ Marked /\ k = Key(Asked)
            \/ resolver.memo[k].rests <=> k \in resolver.degraded

MemoInv == Shapes /\ SavableIsSure /\ AnswerInHand /\ MarksAreRight /\ NothingDoubtfulIsSaved

-------------------------------------------------------------------------------
(* The searches give answers. *)

LEMMA AnswersAre ==
    /\ IsAnswer(NoAnswer) /\ NoAnswer.rests = FALSE
    /\ \A c, s : IsAnswer(Answer(c, s)) /\ Answer(c, s).rests = FALSE
  BY DEF IsAnswer, NoAnswer, Answer

LEMMA SearchAnswers ==
    ASSUME NEW a, NEW bad
    PROVE  IsAnswer(Search(a, bad))
<1>1. \A ranked, best, lost : IsAnswer(EightKAnswer(a, ranked, best, lost))
  BY AnswersAre DEF EightKAnswer, MismatchOr, IsAnswer
<1>2. \A h, lost : IsAnswer(DelistingAnswer(h, a, lost))
  BY AnswersAre DEF DelistingAnswer, IsAnswer
<1>3. \A ranked, lost : IsAnswer(ByEightKs(a, ranked, lost).res)
  BY <1>1 DEF ByEightKs
<1>4. \A weak, taken, lost : IsAnswer(ByNames(a, weak, taken, lost).res)
  BY <1>2, <1>3, AnswersAre DEF ByNames
<1>5. \A hits, delisted, lost : IsAnswer(ByDelistings(a, hits, delisted, lost).res)
  BY <1>2, <1>4, AnswersAre DEF ByDelistings
<1>6. \A taken, lost : IsAnswer(ByMap(a, taken, lost).res)
  BY <1>5, AnswersAre DEF ByMap
<1> QED
  BY <1>6 DEF Search, Rested, IsAnswer

-------------------------------------------------------------------------------
(* The steps.  One lemma for those that only move the lookup on, then one for each
   that writes the memo, its marks or its file. *)

LEMMA MoveStep ==
    ASSUME MemoInv, UNCHANGED <<disk, resolver>>, ~Marked, ~(now'.at = "keep" \/ now'.at = "clear"),
           {"stack", "at", "res", "failed"} \subseteq DOMAIN now', now'.failed \in BOOLEAN, IsAnswer(now'.res),
           InHand' => (now'.failed <=> now'.res.rests),
           now.at # "stopped"
    PROVE  MemoInv'
<1>1. Shapes'
  BY DEF MemoInv, Shapes, IsAnswer
<1>2. SavableIsSure' /\ NothingDoubtfulIsSaved'
  BY DEF MemoInv, SavableIsSure, NothingDoubtfulIsSaved
<1>3. AnswerInHand'
  BY DEF AnswerInHand, InHand, Marked
<1>4. MarksAreRight'
  BY DEF MemoInv, MarksAreRight, Marked
<1> QED
  BY <1>1, <1>2, <1>3, <1>4 DEF MemoInv

LEMMA LookSteps ==
    ASSUME MemoInv,
           \/ \E a \in Asks : Ask(a)
           \/ Pin \/ Override
           \/ \E bad \in Reads : Recall(bad) \/ Rename(bad) \/ Find(bad)
           \/ Return
    PROVE  MemoInv'
<1>1. ASSUME NEW a \in Asks, Ask(a) PROVE MemoInv'
  BY <1>1, MoveStep, AnswersAre DEF Ask, Idle, Marked, InHand
<1>2. CASE Pin
  BY <1>2, MoveStep, AnswersAre DEF Pin, MemoInv, Shapes, Marked, InHand, GivenBy
<1>3. CASE Override
  BY <1>3, MoveStep, AnswersAre DEF Override, MemoInv, Shapes, Marked, InHand, GivenBy
<1>4. ASSUME NEW bad, Recall(bad) PROVE MemoInv'
  <2> DEFINE k == Key(Asked)
  <2>1. k \in DOMAIN resolver.memo /\ now.at = "look"
    BY <1>4 DEF Recall, Recalled
  <2>2. resolver.memo[k].rests <=> k \in resolver.degraded
    BY <2>1 DEF MemoInv, MarksAreRight, Marked
  <2>3. IsAnswer(resolver.memo[k])
    BY <2>1 DEF MemoInv, Shapes
  <2>4. /\ DOMAIN now' = DOMAIN now /\ now'.at = "found" /\ now'.res = resolver.memo[k]
        /\ now'.failed = (k \in resolver.degraded)
    BY <1>4 DEF Recall, MemoInv, Shapes
  <2> HIDE DEF k
  <2> QED
    BY <1>4, <2>1, <2>2, <2>3, <2>4, MoveStep DEF Recall, MemoInv, Shapes, Marked, InHand, IsAnswer
<1>5. ASSUME NEW bad, Rename(bad) PROVE MemoInv'
  BY <1>5, MoveStep DEF Rename, MemoInv, Shapes, Marked, InHand
<1>6. ASSUME NEW bad, Find(bad) PROVE MemoInv'
  <2>1. PICK res : IsAnswer(res) /\ now' = [now EXCEPT !.at = "mark", !.res = res, !.failed = res.rests]
    BY <1>6, SearchAnswers DEF Find
  <2>2. now'.res = res /\ now'.failed = res.rests /\ now'.at = "mark" /\ DOMAIN now' = DOMAIN now
    BY <2>1 DEF MemoInv, Shapes
  <2>3. now'.failed \in BOOLEAN
    BY <2>1, <2>2 DEF IsAnswer
  <2> QED
    BY <1>6, <2>1, <2>2, <2>3, MoveStep DEF Find, MemoInv, Shapes, Marked, InHand
<1>7. CASE Return
  <2>1. now.at = "found" /\ UNCHANGED <<disk, resolver>>
    BY <1>7 DEF Return
  <2>2. CASE now' = Idle
    BY <2>1, <2>2, MoveStep, AnswersAre DEF Idle, Marked, InHand
  <2>3. CASE now' = [now EXCEPT !.stack = Tail(@), !.at = "mark", !.res.source = "rename"]
    <3>1. /\ DOMAIN now' = DOMAIN now /\ now'.at = "mark" /\ now'.failed = now.failed
          /\ now'.res = [now.res EXCEPT !.source = "rename"]
      BY <2>3 DEF MemoInv, Shapes
    <3>2. IsAnswer(now'.res) /\ now'.res.rests = now.res.rests
      BY <3>1 DEF MemoInv, Shapes, IsAnswer
    <3>3. now.failed <=> now.res.rests
      BY <2>1 DEF MemoInv, AnswerInHand, InHand
    <3> QED
      BY <2>1, <3>1, <3>2, <3>3, MoveStep DEF MemoInv, Shapes, Marked, InHand
  <2> QED
    BY <1>7, <2>2, <2>3 DEF Return
<1> QED
  BY <1>1, <1>2, <1>3, <1>4, <1>5, <1>6, <1>7

LEMMA MarkStep ==
    ASSUME MemoInv, Mark
    PROVE  MemoInv'
<1> DEFINE k == Key(Asked)
<1>1. /\ now.at = "mark" /\ now'.at = "keep" /\ DOMAIN now' = DOMAIN now /\ now'.stack = now.stack
      /\ now'.res = now.res /\ now'.failed = now.failed /\ UNCHANGED disk
  BY DEF Mark, MemoInv, Shapes
<1>2. /\ DOMAIN resolver' = DOMAIN resolver /\ resolver'.memo = resolver.memo
      /\ resolver'.degraded = IF now.failed THEN resolver.degraded \cup {k} ELSE resolver.degraded
      /\ resolver'.volatile = IF Volatile THEN resolver.volatile \cup {k} ELSE resolver.volatile
  BY DEF Mark, MemoInv, Shapes
<1>3. Key(Asked)' = k /\ (Volatile' <=> Volatile)
  BY <1>1 DEF Key, Asked, Volatile
<1> HIDE DEF k
<1>4. Shapes'
  BY <1>1, <1>2 DEF MemoInv, Shapes, IsAnswer
<1>5. SavableIsSure' /\ NothingDoubtfulIsSaved'
  BY <1>1, <1>2 DEF MemoInv, SavableIsSure, NothingDoubtfulIsSaved
<1>6. AnswerInHand'
  BY <1>1, <1>2, <1>3 DEF MemoInv, AnswerInHand, InHand, Marked
<1>7. MarksAreRight'
  BY <1>1, <1>2, <1>3 DEF MemoInv, MarksAreRight, Marked
<1> QED
  BY <1>4, <1>5, <1>6, <1>7 DEF MemoInv

LEMMA KeepStep ==
    ASSUME MemoInv, Keep
    PROVE  MemoInv'
<1> DEFINE k == Key(Asked)
<1>1. /\ now.at = "keep" /\ now'.at = "clear" /\ DOMAIN now' = DOMAIN now /\ now'.stack = now.stack
      /\ now'.res = now.res /\ now'.failed = now.failed /\ UNCHANGED disk
  BY DEF Keep, MemoInv, Shapes
<1>2. /\ DOMAIN resolver' = DOMAIN resolver
      /\ resolver'.memo = With(resolver.memo, k, now.res)
      /\ resolver'.degraded = resolver.degraded /\ resolver'.volatile = resolver.volatile
  BY DEF Keep, MemoInv, Shapes
<1>3. Key(Asked)' = k /\ (Volatile' <=> Volatile)
  BY <1>1 DEF Key, Asked, Volatile
<1> HIDE DEF k
<1>4. /\ DOMAIN resolver'.memo = DOMAIN resolver.memo \cup {k} /\ resolver'.memo[k] = now.res
      /\ \A x \in DOMAIN resolver.memo \ {k} : resolver'.memo[x] = resolver.memo[x]
  BY <1>2 DEF With
<1>5. now.failed <=> now.res.rests
  BY <1>1 DEF MemoInv, AnswerInHand, InHand
<1>6. Volatile => k \in resolver.volatile
  BY <1>1 DEF MemoInv, AnswerInHand, Marked, k
<1>7. Shapes'
  BY <1>1, <1>2, <1>4 DEF MemoInv, Shapes
<1>8. SavableIsSure' /\ NothingDoubtfulIsSaved'
  BY <1>1, <1>2, <1>4, <1>5, <1>6 DEF MemoInv, SavableIsSure, NothingDoubtfulIsSaved, Volatile
<1>9. AnswerInHand'
  BY <1>1, <1>2, <1>3, <1>4 DEF MemoInv, AnswerInHand, InHand, Marked, k
<1>10. MarksAreRight'
  BY <1>1, <1>2, <1>3, <1>4 DEF MemoInv, MarksAreRight, Marked, k
<1> QED
  BY <1>7, <1>8, <1>9, <1>10 DEF MemoInv

LEMMA ClearStep ==
    ASSUME MemoInv, Clear
    PROVE  MemoInv'
<1> DEFINE k == Key(Asked)
<1>1. /\ now.at = "clear" /\ now'.at = "found" /\ DOMAIN now' = DOMAIN now
      /\ now'.res = now.res /\ now'.failed = now.failed /\ UNCHANGED disk
  BY DEF Clear, MemoInv, Shapes
<1>2. /\ DOMAIN resolver' = DOMAIN resolver /\ resolver'.memo = resolver.memo
      /\ resolver'.degraded = IF now.failed THEN resolver.degraded ELSE resolver.degraded \ {k}
      /\ resolver'.volatile = IF Volatile THEN resolver.volatile ELSE resolver.volatile \ {k}
  BY DEF Clear, MemoInv, Shapes
<1>3. k \in DOMAIN resolver.memo /\ resolver.memo[k] = now.res /\ (now.failed <=> now.res.rests)
      /\ (now.failed => k \in resolver.degraded)
  BY <1>1 DEF MemoInv, AnswerInHand, InHand, Marked
<1>4. \A x \in DOMAIN resolver.memo \ {k} : resolver.memo[x].rests <=> x \in resolver.degraded
  BY <1>1 DEF MemoInv, MarksAreRight
<1> HIDE DEF k
<1>5. Shapes'
  BY <1>1, <1>2 DEF MemoInv, Shapes, IsAnswer
<1>6. SavableIsSure' /\ NothingDoubtfulIsSaved'
  BY <1>1, <1>2, <1>3 DEF MemoInv, SavableIsSure, NothingDoubtfulIsSaved, Volatile
<1>7. AnswerInHand'
  BY <1>1, <1>3 DEF AnswerInHand, InHand, Marked
<1>8. MarksAreRight'
  BY <1>2, <1>3, <1>4 DEF MarksAreRight
<1> QED
  BY <1>5, <1>6, <1>7, <1>8 DEF MemoInv

(* What a save writes is the memo less its marked keys; a new run's memo is the file. *)
LEMMA FlushStep ==
    ASSUME MemoInv, Flush
    PROVE  MemoInv'
<1>1. /\ disk' = Saved /\ UNCHANGED now /\ DOMAIN resolver' = DOMAIN resolver
      /\ resolver'.memo = resolver.memo /\ resolver'.volatile = resolver.volatile
      /\ resolver'.degraded = resolver.degraded
  BY DEF Flush, MemoInv, Shapes
<1>2. DOMAIN disk' = DOMAIN resolver.memo \ resolver.volatile
      /\ \A k \in DOMAIN disk' : disk'[k] = resolver.memo[k]
  BY <1>1 DEF Saved
<1>3. Shapes' /\ NothingDoubtfulIsSaved'
  BY <1>1, <1>2 DEF MemoInv, Shapes, SavableIsSure, NothingDoubtfulIsSaved, IsAnswer
<1>4. SavableIsSure' /\ AnswerInHand' /\ MarksAreRight'
  BY <1>1 DEF MemoInv, SavableIsSure, AnswerInHand, MarksAreRight, InHand, Marked, Volatile, Key, Asked
<1> QED
  BY <1>3, <1>4 DEF MemoInv

LEMMA StopStep ==
    ASSUME MemoInv, Stop
    PROVE  MemoInv'
<1>1. /\ DOMAIN now' = DOMAIN Idle /\ now'.at = "stopped" /\ now'.res = NoAnswer /\ now'.failed = FALSE
      /\ UNCHANGED <<disk, resolver>>
  BY DEF Stop, Idle
<1>2. Shapes'
  BY <1>1, AnswersAre DEF MemoInv, Shapes, Idle
<1>3. SavableIsSure' /\ NothingDoubtfulIsSaved'
  BY <1>1 DEF MemoInv, SavableIsSure, NothingDoubtfulIsSaved
<1>4. AnswerInHand' /\ MarksAreRight'
  BY <1>1 DEF AnswerInHand, MarksAreRight, InHand, Marked
<1> QED
  BY <1>2, <1>3, <1>4 DEF MemoInv

LEMMA StartStep ==
    ASSUME MemoInv, NEW given, Start(given)
    PROVE  MemoInv'
<1>1. /\ resolver' = [memo |-> disk, volatile |-> {}, degraded |-> {}, dirty |-> FALSE]
      /\ now' = Idle /\ UNCHANGED disk
  BY DEF Start
<1>2. Shapes'
  BY <1>1, AnswersAre DEF MemoInv, Shapes, Idle
<1>3. SavableIsSure' /\ NothingDoubtfulIsSaved'
  BY <1>1 DEF MemoInv, SavableIsSure, NothingDoubtfulIsSaved
<1>4. AnswerInHand'
  BY <1>1 DEF AnswerInHand, InHand, Marked, Idle
<1>5. MarksAreRight'
  BY <1>1 DEF MemoInv, NothingDoubtfulIsSaved, MarksAreRight
<1> QED
  BY <1>2, <1>3, <1>4, <1>5 DEF MemoInv

LEMMA MemoInductive == (Init => MemoInv) /\ (MemoInv /\ [Next]_vars => MemoInv')
<1>1. ASSUME Init PROVE MemoInv
  <2>1. now = Idle /\ DOMAIN disk = {} /\ resolver = [memo |-> disk, volatile |-> {}, degraded |-> {}, dirty |-> FALSE]
    BY <1>1 DEF Init
  <2> QED
    BY <2>1, AnswersAre DEF MemoInv, Shapes, SavableIsSure, AnswerInHand, MarksAreRight, NothingDoubtfulIsSaved,
       Idle, InHand, Marked
<1>2. ASSUME MemoInv, Next PROVE MemoInv'
  BY <1>2, LookSteps, MarkStep, KeepStep, ClearStep, FlushStep, StopStep, StartStep DEF Next
<1>3. ASSUME MemoInv, UNCHANGED vars PROVE MemoInv'
  BY <1>3 DEF vars, MemoInv, Shapes, SavableIsSure, AnswerInHand, MarksAreRight, NothingDoubtfulIsSaved,
     InHand, Marked, Volatile, Key, Asked
<1> QED
  BY <1>1, <1>2, <1>3

(* The file of the memo holds no miss and no answer that a failed read or an old copy led
   to, wherever any run was stopped. *)
THEOREM NothingDoubtfulSaved == Spec => []NothingDoubtfulIsSaved
<1>1. MemoInv => NothingDoubtfulIsSaved
  BY DEF MemoInv
<1> QED
  BY <1>1, MemoInductive, PTL DEF Spec

(* Between lookups the marked answers of the memo are those that a failed read or an old
   copy led to. *)
THEOREM DegradedTold == Spec => []DegradedIsTold
<1>1. MemoInv => DegradedIsTold
  BY DEF MemoInv, MarksAreRight, DegradedIsTold, Idle, Marked
<1> QED
  BY <1>1, MemoInductive, PTL DEF Spec
==============================================================================
