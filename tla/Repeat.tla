-------------------------------- MODULE Repeat --------------------------------
(* The loops that run an effect by a schedule: repeatOrElseEither, retry-  *)
(* OrElseEither and scheduleFrom of src/src/internal/schedule.ts with the  *)
(* driver they step, and retryN, repeatN, repeatUntil and retryUntil, which *)
(* need none.  One fiber runs one loop; the effect takes its time and      *)
(* succeeds or fails, the clock goes on between any two steps, and a timer *)
(* may fire late.                                                          *)
EXTENDS Schedule

CONSTANTS Plans,     \* the loops to run, by name
          Plan,      \* name -> [loop, schedule], [loop, n] or [loop, accepted]
          Promise,   \* name -> what its schedule promises, see the properties
          Bounded,   \* the plans that end, whatever the effect does
          Values,    \* name -> what the effect succeeds or fails with
          Longest,   \* how long the effect may take
          Late,      \* how long the clock may go on before a fiber that can run does
          MaxRuns    \* bound: how often the effect is run

Driven == {"repeat", "retry", "schedule"}
Retries == {"retry", "retryN", "retryUntil"}

(* The loops. *)
Repeat(s) == [loop |-> "repeat", schedule |-> s]
Retry(s) == [loop |-> "retry", schedule |-> s]
Scheduled(s) == [loop |-> "schedule", schedule |-> s]
RepeatN(n) == [loop |-> "repeatN", n |-> n]
RetryN(n) == [loop |-> "retryN", n |-> n]
RepeatUntil(accepted) == [loop |-> "repeatUntil", accepted |-> accepted]
RepeatUntilEquals(v) == RepeatUntil({v})
RepeatWhile(goesOn, values) == RepeatUntil(values \ goesOn)
RepeatWhileEquals(v, values) == RepeatWhile({v}, values)
RetryUntil(accepted) == [loop |-> "retryUntil", accepted |-> accepted]
RetryUntilEquals(e) == RetryUntil({e})
RetryWhile(goesOn, errors) == RetryUntil(errors \ goesOn)
RetryWhileEquals(e, errors) == RetryWhile({e}, errors)

VARIABLES plan, now, pc,
          since,     \* the time of the last step, for the bounds on the clock
          ref,       \* the driver's Ref: the last output, the schedule's state
          value,     \* what the effect last ended with
          left,      \* the repetitions left to retryN and repeatN
          wake,      \* how long to sleep, or when the sleep ends
          result, runs, asks

vars == <<plan, now, pc, since, ref, value, left, wake, result, runs, asks>>

This == Plan[plan]
None == <<>>

InitialRef == IF This.loop \in Driven THEN [last |-> None, state |-> Initial(This.schedule)]
              ELSE [last |-> None, state |-> None]

Init ==
    /\ plan \in Plans
    /\ now = 0 /\ since = 0
    /\ pc = IF This.loop = "schedule" THEN "next" ELSE "run"
    /\ ref = InitialRef
    /\ value \in IF This.loop = "schedule" THEN Values[plan] ELSE {0}
    /\ left = IF "n" \in DOMAIN This THEN This.n ELSE 0
    /\ wake = 0
    /\ result = None
    /\ runs = <<>> /\ asks = <<>>

Goto(label) == pc' = label /\ since' = now
Finish(r) == Goto("done") /\ result' = r

Tick ==
    /\ now - since < CASE pc = "running" -> Longest
                       [] pc = "sleeping" -> Larger(wake - since, 0) + Late
                       [] pc = "decided" -> Late
                       [] OTHER -> 0
    /\ now' = now + 1
    /\ UNCHANGED <<plan, pc, since, ref, value, left, wake, result, runs, asks>>

RunEffect ==
    /\ pc = "run" /\ Len(runs) < MaxRuns
    /\ runs' = Append(runs, [begin |-> now])
    /\ Goto("running")
    /\ UNCHANGED <<plan, now, ref, value, left, wake, result, asks>>

(* The effect ends: its success or its failure is what the loop looks at.  *)
Ends(ok, v) ==
    /\ pc = "running"
    /\ value' = v
    /\ runs' = [runs EXCEPT ![Len(runs)] = @ @@ [ok |-> ok, value |-> v]]
    /\ UNCHANGED <<plan, now, ref, wake, asks>>

(* A success ends a retry and a failure any other loop: orElse of         *)
(* repeatOrElseEither gets the last output if there is one.                *)
EndsLoop(v) ==
    /\ Ends(This.loop \in Retries, v)
    /\ Finish(IF This.loop \in Retries THEN [right |-> v] ELSE [error |-> v, last |-> ref.last])
    /\ UNCHANGED left


(* Otherwise the driver decides, or the loop itself: retryN and repeatN    *)
(* count down, the others look for a value.                                *)
RetriedEnough == left < 0
RepeatedEnough == left <= 0

Enough(v) ==
    CASE This.loop = "retryN" -> RetriedEnough
      [] This.loop = "repeatN" -> RepeatedEnough
      [] OTHER -> v \in This.accepted

AsksDriver(v) ==
    /\ This.loop \in Driven
    /\ Ends(This.loop # "retry", v)
    /\ Goto("next")
    /\ UNCHANGED <<left, result>>

StopsByItself(v) ==
    /\ This.loop \notin Driven /\ Enough(v)
    /\ Ends(This.loop \notin Retries, v)
    /\ Finish(IF This.loop \in Retries THEN [error |-> v, last |-> None] ELSE [right |-> v])
    /\ UNCHANGED left

GoesOn(v) ==
    /\ This.loop \notin Driven /\ ~Enough(v)
    /\ Ends(This.loop \notin Retries, v)
    /\ Goto("run")
    /\ left' = IF "n" \in DOMAIN This THEN left - 1 ELSE left
    /\ UNCHANGED result

-----------------------------------------------------------------------------
(* The driver.                                                             *)

(* driver.next reads the state and the clock, steps, and stores the output *)
(* and the state before it sleeps or fails; a loop whose driver fails takes *)
(* the last output for its result, a retry passes it to orElse.            *)
NextStep ==
    /\ pc = "next"
    /\ LET r == Step(This.schedule, now, value, ref.state) IN
       /\ ref' = [last |-> <<r.out>>, state |-> r.state]
       /\ asks' = Append(asks, [at |-> now, input |-> value])
       /\ IF IsDone(r.decision)
          THEN /\ Finish(IF This.loop = "retry" THEN [error |-> value, last |-> ref'.last]
                         ELSE [right |-> Head(ref'.last)])
               /\ UNCHANGED wake
          ELSE /\ Goto("decided")
               /\ wake' = StartOf(r.decision.intervals) - now
               /\ UNCHANGED result
    /\ UNCHANGED <<plan, now, value, left, runs>>

(* Mutant: the time to wake at is taken for a time to sleep. *)
SleepBriefly ==
    /\ pc = "decided"
    /\ Goto("sleeping")
    /\ UNCHANGED <<plan, now, ref, value, left, wake, result, runs, asks>>

Sleep ==
    /\ pc = "decided"
    /\ wake' = now + wake
    /\ Goto("sleeping")
    /\ UNCHANGED <<plan, now, ref, value, left, result, runs, asks>>

(* Mutant: a sleep is over at one time only. *)
WakeExactly ==
    /\ pc = "sleeping" /\ now = wake
    /\ Goto("run")
    /\ UNCHANGED <<plan, now, ref, value, left, wake, result, runs, asks>>

Wake ==
    /\ pc = "sleeping" /\ now >= wake
    /\ Goto("run")
    /\ UNCHANGED <<plan, now, ref, value, left, wake, result, runs, asks>>

Next ==
    \/ Tick \/ RunEffect \/ NextStep \/ Sleep \/ Wake
    \/ \E v \in Values[plan] : EndsLoop(v) \/ AsksDriver(v) \/ StopsByItself(v) \/ GoesOn(v)

Spec == Init /\ [][Next]_vars

(* The clock goes on, and a fiber that can run runs: the timer of a sleep  *)
(* fires, the effect ends.                                                 *)
FairSpec == Spec /\ WF_vars(Next)

-----------------------------------------------------------------------------
(* Promise[plan] says what a driven plan has promised after some questions *)
(* to its driver (asked at a time, with an input): whether it recurs, the  *)
(* earliest start and the output; stated without states and steps.         *)

AsksBefore(k) == IF This.loop = "schedule" THEN k ELSE k - 1
Asked(k) == SubSeq(asks, 1, AsksBefore(k))
Exhausted == pc = "done" /\ Len(asks) = AsksBefore(Len(runs) + 1)

(* The effect never runs again before the start of the interval its        *)
(* schedule gave (Schedule.ts:50-52), however late fibers and timers are   *)
(* and however long the runs took.                                         *)
NeverEarly ==
    This.loop \in Driven =>
        \A k \in DOMAIN runs :
            AsksBefore(k) > 0 => runs[k].begin >= Promise[plan].start[Asked(k)]

(* It runs exactly as often as promised: again if the schedule recurs, and *)
(* a loop that its driver ended had no recurrence left.  repeatN(n) repeats *)
(* n times; retryN(n) retries n + 1 times, though Effect.ts:3217 has it    *)
(* retry "the specified number of times".                                  *)
RunsAreCounted ==
    /\ This.loop \in Driven =>
          /\ \A k \in DOMAIN runs : AsksBefore(k) > 0 => Promise[plan].recurs[Asked(k)]
          /\ Exhausted => ~Promise[plan].recurs[asks]
    /\ This.loop \in {"repeatN", "retryN"} =>
          LET most == This.n + IF This.loop = "repeatN" THEN 1 ELSE 2 IN
          /\ Len(runs) <= most
          /\ pc = "done" => \/ Len(runs) = most
                            \/ runs[Len(runs)].ok <=> This.loop = "retryN"

(* A loop ends with what it is about: the last output of its schedule if   *)
(* that ended it; otherwise the last run decides, with the last output for *)
(* orElse if there was one.                                                *)
ResultIsLast ==
    pc = "done" =>
        LET last == runs[Len(runs)]
            out == IF asks = <<>> THEN None ELSE <<Promise[plan].out[asks]>>
        IN IF This.loop \in Driven /\ Exhausted
           THEN IF This.loop = "retry" THEN result = [error |-> last.value, last |-> out]
                ELSE result = [right |-> Head(out)]
           ELSE IF last.ok THEN result = [right |-> last.value]
           ELSE result = [error |-> last.value,
                          last |-> IF This.loop \in Driven THEN out ELSE None]


(* A loop whose schedule recurs a bounded number of times ends: it neither *)
(* sleeps for ever nor starts its schedule again.                          *)
LoopEnds == plan \in Bounded => <>(pc = "done")

===============================================================================
