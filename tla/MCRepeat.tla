------------------------------- MODULE MCRepeat -------------------------------
(* Instances of Repeat for TLC, with what each schedule promises; and the  *)
(* laws of schedules, against definitions that do not step: over every     *)
(* sequence of Steps lengths of the action between one start and the next  *)
(* decision.  A trace holds, for each step, the time it was taken at and   *)
(* what was decided; the action runs again at the start of the interval    *)
(* and takes as long as the next length says.                              *)
EXTENDS Repeat, FiniteSetsExt

Plan_ ==
    [recurs |-> Repeat(Recurs(2)),
     upTo |-> Repeat(UpTo(Spaced(1), 3)),
     andThen |-> Repeat(AndThenEither(Recurs(1), FromDelay(2))),
     windowed |-> Retry(ZipLeft(Windowed(3), Recurs(2))),
     either |-> Retry(Union(Recurs(1), FromDelays(<<1, 2>>))),
     cron |-> Scheduled(ZipRight(Cron(1, 3, 1), Recurs(2))),
     while |-> Repeat(RecurWhile({1})),
     repeatN |-> RepeatN(2),
     retryN |-> RetryN(1),
     repeatUntil |-> RepeatUntilEquals(1),
     retryUntil |-> RetryWhileEquals(0, {0, 1})]

Months_ == <<4, 2, 3>>

AllPlans == DOMAIN Plan_
Ending == AllPlans \ {"while", "repeatUntil", "retryUntil"}
Values_ ==
    [p \in AllPlans |-> IF p \in {"while", "repeatUntil", "retryUntil"} THEN {0, 1} ELSE {0}]

At(asks_) == Last(asks_).at
Times(n) == [asks_ \in Seq([at : Nat, input : Nat]) |-> Len(asks_) <= n]
Delay(delays) == [asks_ \in Seq([at : Nat, input : Nat]) |-> At(asks_) + delays[Len(asks_)]]
Counted == [asks_ \in Seq([at : Nat, input : Nat]) |-> Len(asks_) - 1]
Outputs(outs) == [asks_ \in Seq([at : Nat, input : Nat]) |-> outs[Len(asks_)]]

Promise_ ==
    [recurs |-> [recurs |-> Times(2), start |-> Delay(<<0, 0>>), out |-> Counted],
     upTo |-> [recurs |-> [a \in Seq([at : Nat, input : Nat]) |-> At(a) - a[1].at < 3],
               start |-> [a \in Seq([at : Nat, input : Nat]) |-> At(a) + 1],
               out |-> Counted],
     andThen |-> [recurs |-> Times(2), start |-> Delay(<<0, 2>>),
                  out |-> Outputs(<<[left |-> 0], [right |-> 2], [right |-> 0]>>)],
     windowed |-> [recurs |-> Times(2), out |-> Counted,
                   start |-> [a \in Seq([at : Nat, input : Nat]) |->
                                Min({t \in (At(a) + 1) .. (At(a) + 3) : (t - a[1].at) % 3 = 0})]],
     either |-> [recurs |-> Times(2), start |-> Delay(<<0, 2>>),
                 out |-> Outputs(<< <<0, 1>>, <<1, 2>>, <<2, 0>> >>)],
     cron |-> [recurs |-> Times(2), out |-> Counted,
               start |-> [a \in Seq([at : Nat, input : Nat]) |->
                            Min({t \in At(a) .. (At(a) + 3) :
                                    t % 3 = 1 /\ (t > At(a) \/ Len(a) = 1)})]],
     while |-> [recurs |-> [a \in Seq([at : Nat, input : Nat]) |-> Last(a).input = 1],
                start |-> [a \in Seq([at : Nat, input : Nat]) |-> At(a)],
                out |-> [a \in Seq([at : Nat, input : Nat]) |-> Last(a).input]]]

-----------------------------------------------------------------------------
(* Traces of schedules.                                                    *)

CONSTANTS Steps, Slowest

Lengths == [1 .. Steps -> 0 .. Slowest]

RECURSIVE Trace(_, _, _, _, _)
Trace(s, clock, input, lengths, st) ==
    LET r == Step(s, clock, input, st) IN
    <<[now |-> clock, out |-> r.out, done |-> IsDone(r.decision),
       start |-> IF IsDone(r.decision) THEN clock ELSE StartOf(r.decision.intervals)]>>
    \o IF IsDone(r.decision) \/ lengths = <<>> THEN <<>>
       ELSE Trace(s, Larger(clock, StartOf(r.decision.intervals)) + Head(lengths), input,
                  Tail(lengths), r.state)

Traces(s, begin) == {Trace(s, begin, 0, lengths, Initial(s)) : lengths \in Lengths}

Holds(s, begin, P(_, _)) == \A tr \in Traces(s, begin) : \A i \in DOMAIN tr : P(tr, i)

-----------------------------------------------------------------------------

(* windowed sleeps to the nearest boundary of windows counted from the     *)
(* first step (Schedule.ts, the diagram of windowed).                      *)
ASSUME WindowsAreAligned ==
    \A d \in 1 .. 3 :
        Holds(Windowed(d), 5, LAMBDA tr, i :
            /\ (tr[i].start - 5) % d = 0
            /\ tr[i].start \in (tr[i].now + 1) .. (tr[i].now + d))

(* fixed recurs at multiples of its interval counted from the first step,  *)
(* unless the action overran: then at once, and the run after it is at a   *)
(* multiple again, so late runs do not pile up.                            *)
ASSUME FixedKeepsPace ==
    \A d \in 1 .. 3 :
        Holds(Fixed(d), 5, LAMBDA tr, i :
            \/ (tr[i].start - 5) % d = 0 /\ tr[i].start \in tr[i].now .. (tr[i].now + d)
            \/ i > 1 /\ tr[i].start = tr[i].now /\ tr[i].now > tr[i - 1].start + d)

(* An action that takes exactly the interval is run every second interval: *)
(* its end is a boundary, and the next run waits for the one after.        *)
ASSUME FixedSkipsABoundary ==
    LET tr == Trace(Fixed(2), 0, 0, <<2, 2>>, Initial(Fixed(2))) IN
    [i \in DOMAIN tr |-> tr[i].start] = <<2, 6, 10>>

(* The recurrences of a schedule of delays. *)
ASSUME DelaysGrow ==
    LET Gap(tr, i) == tr[i].start - tr[i].now IN
    /\ Holds(Spaced(2), 0, LAMBDA tr, i : Gap(tr, i) = 2)
    /\ Holds(Linear(2), 0, LAMBDA tr, i : Gap(tr, i) = 2 * i)
    /\ Holds(Exponential(2), 0, LAMBDA tr, i : Gap(tr, i) = 2 ^ i)
    /\ Holds(Fibonacci(1), 0, LAMBDA tr, i : i > 2 => Gap(tr, i) = Gap(tr, i - 1) + Gap(tr, i - 2))
    /\ Holds(FromDelays(<<2, 1>>), 0, LAMBDA tr, i : IF i > 2 THEN tr[i].done ELSE Gap(tr, i) = <<2, 1>>[i])
    /\ Holds(FromDelay(2), 0, LAMBDA tr, i : IF i > 1 THEN tr[i].done ELSE Gap(tr, i) = 2)
    /\ Holds(Delays(Linear(1)), 0, LAMBDA tr, i : tr[i].out = i)

(* recurs(n) recurs n times; upTo, as long as less than d has passed since *)
(* the first step.                                                         *)
ASSUME RecursAsOften ==
    /\ \A n \in 0 .. Steps : Holds(Recurs(n), 0, LAMBDA tr, i : tr[i].done <=> i > n)
    /\ Holds(Repetitions(Recurs(2)), 0, LAMBDA tr, i : tr[i].out = Smaller(i - 1, 2))
    /\ \A d \in 1 .. 4 : Holds(UpTo(Spaced(1), d), 3, LAMBDA tr, i : tr[i].done <=> tr[i].now - 3 >= d)

(* A cron-like schedule recurs at the first unit of its field that begins  *)
(* after clock, or in the current one the first time.                      *)
NextUnit(s, clock, initial) ==
    Min({t \in 0 .. (clock + (s.cycle + 1) * s.unit) :
            /\ t % s.unit = 0
            /\ FieldOf(s, t) = s.field
            /\ IF initial THEN t + s.unit > clock ELSE t > clock})

Crons == {Cron(u, 3, f) : u \in {1, 2}, f \in 0 .. 2}

ASSUME CronIsNext ==
    \A s \in Crons, begin \in 0 .. 6 :
        Holds(s, begin, LAMBDA tr, i : tr[i].start = NextUnit(s, tr[i].now, i = 1))

-----------------------------------------------------------------------------
(* Compositions.                                                           *)

Simple == {Windowed(2), Fixed(3), Spaced(1), Recurs(2), FromDelays(<<3, 1>>), UpTo(Forever, 3)}

(* A union recurs while one of the two does, at the earlier of the two     *)
(* starts; an intersection while both do, at the later.  Stated step by    *)
(* step from the decisions of the two, whose states it threads.            *)
ASSUME CombinesDecisions ==
    \A s \in Simple, t \in Simple, clock \in 0 .. 3, later \in 3 .. 6 :
        LET First(x) == Step(x, clock, 0, Initial(x))
            start(d) == StartOf(d.intervals)
            l == Step(s, later, 0, First(s).state).decision
            r == Step(t, later, 0, First(t).state).decision
            u == Step(Union(s, t), later, 0, First(Union(s, t)).state).decision
            n == Step(Intersect(s, t), later, 0, First(Intersect(s, t)).state).decision
            c == Step(Compose(s, t), later, 0, First(Compose(s, t)).state).decision
        IN /\ IsDone(u) <=> IsDone(l) /\ IsDone(r)
           /\ IsDone(n) <=> IsDone(l) \/ IsDone(r)
           /\ IsDone(c) <=> IsDone(l) \/ IsDone(r)
           /\ ~IsDone(l) /\ ~IsDone(r) =>
                /\ start(u) = Smaller(start(l), start(r))
                /\ start(n) = Larger(start(l), start(r))
                /\ start(c) = Larger(start(l), start(r))

(* A schedule after another: the first to its end, then the second, which  *)
(* starts at the time of the step that found the first done.               *)
ASSUME SequencesSchedules ==
    \A n \in 0 .. 2 :
        Holds(AndThenEither(Recurs(n), Windowed(2)), 0, LAMBDA tr, i :
            IF i <= n THEN tr[i].out = [left |-> i - 1] /\ tr[i].start = tr[i].now
            ELSE /\ tr[i].out = [right |-> i - n - 1]
                 /\ (tr[i].start - tr[n + 1].now) % 2 = 0)

(* Two cron-like schedules intersect at the next time both fields match    *)
(* (test/Schedule.ts "intersection of schedules recurring in bounded       *)
(* intervals").                                                            *)
ASSUME CronsIntersect ==
    \A hour \in 0 .. 2, minute \in 0 .. 2, begin \in {0, 4, 11} :
        LET h == Cron(3, 3, hour)
            m == Cron(1, 3, minute)
        IN Holds(Intersect(h, m), begin, LAMBDA tr, i :
              /\ FieldOf(h, tr[i].start) = hour /\ FieldOf(m, tr[i].start) = minute
              /\ i > 1 => tr[i].start \in (tr[i].now + 1) .. (tr[i].now + 9 + 3 * 3))

(* repeatForever starts over when its schedule is done; resetAfter, when   *)
(* the time since the first step has reached the duration, however active  *)
(* the schedule was meanwhile: recurs(3), reset after 2 and run each       *)
(* millisecond, never ends, though Schedule.ts:955-956 speaks of "some     *)
(* time of inactivity".                                                    *)
ASSUME StartsOver ==
    /\ Holds(RepeatForever(Recurs(2)), 0, LAMBDA tr, i : tr[i].out = (i - 1) % 2)
    /\ \A i \in 1 .. 6 :
          ~Trace(ResetAfter(Recurs(3), 2), 0, 0, [j \in 1 .. 6 |-> 1],
                 Initial(ResetAfter(Recurs(3), 2)))[i].done

-----------------------------------------------------------------------------
(* Inputs and outputs.                                                     *)

(* collectAllOutputs gives what came before the step, so the output that   *)
(* ended the schedule is never collected (Schedule.ts:280 speaks of the    *)
(* outputs, without exception).                                            *)
ASSUME LastIsNotCollected ==
    \A n \in 0 .. 2 : Holds(CollectAllOutputs(Recurs(n)), 0, LAMBDA tr, i :
        tr[i].out = [k \in 1 .. Smaller(i - 1, n) |-> k - 1])

(* collectWhile gives the inputs before the first it does not accept.      *)
ASSUME CollectsPrefix ==
    \A inputs \in [1 .. 4 -> 0 .. 1] :
        LET outs == RunAll(CollectWhile({1}), 0, inputs)
            stop == {i \in 1 .. 4 : inputs[i] = 0}
        IN /\ Len(outs) = IF stop = {} THEN 4 ELSE Min(stop)
           /\ \A i \in DOMAIN outs : outs[i] = SubSeq(inputs, 1, i - 1)
           /\ outs = RunAll(CollectUntil({0}), 0, inputs)

(* Changing inputs and outputs changes no decision; a schedule that is     *)
(* reconsidered recurs when it is told to, but not once it is done.        *)
ASSUME OnlyOutputsChange ==
    LET twice == [n \in Nat |-> 2 * n]
        told == [out \in Nat, done \in BOOLEAN |->
                    IF out = 2 THEN [left |-> 7] ELSE [right |-> <<out, MakeInterval(100, 101)>>]]
        Starts(s) == {[i \in DOMAIN tr |-> <<tr[i].start, tr[i].done>>] : tr \in Traces(s, 0)}
        schedules == <<Recurs(2), Linear(1), UpTo(Spaced(1), 3)>>
    IN /\ \A k \in DOMAIN schedules :
             LET s == schedules[k] IN
             /\ Starts(Dimap(s, twice, twice)) = Starts(s)
             /\ Starts(Passthrough(s)) = Starts(s)
             /\ Holds(Passthrough(s), 0, LAMBDA tr, i : tr[i].out = 0)
       /\ RunAll(Dimap(Identity, twice, twice), 0, <<1, 2>>) = <<4, 8>>
       /\ RunAll(Reconsider(Forever, told), 0, <<0, 0, 0, 0>>) = <<0, 1, 7>>
       /\ RunAll(Reconsider(Recurs(1), told), 0, <<0, 0, 0, 0>>) = <<0, 1>>

(* A driver that is reset does what a new one does. *)
ASSUME ResetForgets ==
    LET schedules == <<Recurs(2), Linear(1), Windowed(3), AndThenEither(Recurs(1), Forever)>>
        Seen(next) == <<next.out, next.sleep, next.driver.last, next.driver.state>>
    IN \A i \in DOMAIN schedules, clock \in 0 .. 3 :
          LET new == Driver(schedules[i])
              used == DriverNext(DriverNext(new, 0, 0).driver, 2, 0).driver
          IN Seen(DriverNext(DriverReset(used), clock, 0)) = Seen(DriverNext(new, clock, 0))

-----------------------------------------------------------------------------
(* Days.                                                                   *)

(* The first day after clock that is as asked, or today the first time.    *)
NextAsked(clock, initial, IsAsked(_)) ==
    DayLength * Min({d \in DayNumber(clock) .. (DayNumber(clock) + 9) :
                        IsAsked(d * DayLength) /\ (initial \/ d > DayNumber(clock))})

(* dayOfWeek finds each day by the number it has in a JavaScript date. *)
ASSUME WeekDaysAreNext ==
    \A day \in {0, 2, 6}, begin \in {0, 1, 2 * DayLength, 6 * DayLength} :
        Holds(DayOfWeek(day), begin, LAMBDA tr, i :
            tr[i].start = NextAsked(tr[i].now, i = 1, LAMBDA t : WeekDay(t) = day))

(* But Sunday, which Schedule.ts calls 7, is a week away on a Sunday.      *)
ASSUME SundayIsAWeekAway ==
    Trace(DayOfWeek(7), 0, 0, <<>>, Initial(DayOfWeek(7)))[1].start = 7 * DayLength

(* dayOfMonth finds the next such date, and skips the months that do not   *)
(* have it (Schedule.ts:372-373); but not the month it begins in, where    *)
(* the date overflows into the next month.                                 *)
ASSUME DatesAreNext ==
    \A day \in ToSet(Months), begin \in 0 .. (6 * DayLength) :
        Holds(DayOfMonth(day), begin, LAMBDA tr, i :
            LET clock == tr[i].now IN
            tr[i].start =
                IF MonthLength(MonthOf(clock)) >= day
                THEN NextAsked(clock, i = 1, LAMBDA t : DateOf(t) = day)
                ELSE BeginningOf(DayOfMonth(day), SetDate(clock, MonthOf(clock), day)))

-----------------------------------------------------------------------------
(* Sets of intervals.                                                      *)

Bounds == {[start |-> a, end |-> b] : a \in 0 .. 3, b \in 0 .. 4}
Proper == {i \in Bounds : i.start < i.end}
Disjoint == {<<i>> : i \in Proper} \cup {<<i, j>> : i \in Proper, j \in Proper}
Ordered == {is \in Disjoint : Len(is) = 2 => is[1].end < is[2].start}
Points(is) == UNION {is[k].start .. (is[k].end - 1) : k \in DOMAIN is}

(* An intersection never has a time that is not in both; of two intervals  *)
(* it has them all.  A union begins with the earlier start and never has a *)
(* time that is in neither.                                                *)
ASSUME IntervalsAreSound ==
    \A is \in Ordered, js \in Ordered :
        LET both == Points(IntersectIntervals(is, js))
            any == Points(UnionIntervals(is, js))
        IN /\ both \subseteq Points(is) \cap Points(js)
           /\ Len(is) = 1 /\ Len(js) = 1 => both = Points(is) \cap Points(js)
           /\ StartOf(UnionIntervals(is, js)) = Smaller(StartOf(is), StartOf(js))
           /\ any \subseteq Points(is) \cup Points(js)

(* But both may lose times: a union that meets an interval inside the last *)
(* one takes the end of the inner one, and an intersection drops the       *)
(* interval that starts first, though it may reach into the next one.      *)
ASSUME IntervalsGetLost ==
    LET I(a, b) == MakeInterval(a, b) IN
    /\ UnionIntervals(<<I(0, 10)>>, <<I(1, 2)>>) = <<I(0, 2)>>
    /\ IntersectIntervals(<<I(0, 10)>>, <<I(1, 2), I(3, 4)>>) = <<I(1, 2)>>
    /\ EndOf(<<I(1, 2), I(3, 4)>>) = 2

===============================================================================
