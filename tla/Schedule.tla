------------------------------- MODULE Schedule -------------------------------
(* src/src/internal/schedule.ts and schedule/interval*.ts: what a schedule *)
(* decides.  A schedule is a term, Initial is the state it starts in, and  *)
(* Step what its step function returns for a time, an input and a state:   *)
(* the next state, an output and a decision, which is Done or the          *)
(* intervals in which to recur.                                            *)
(* A function the caller supplies is a TLA+ function, or the set of the    *)
(* values a predicate accepts; the effectful variants (addDelayEffect,     *)
(* checkEffect...) differ in nothing a schedule decides.                   *)
EXTENDS Integers, Sequences, SequencesExt

CONSTANTS Infinite,     \* later than every time of an instance
          DayLength,    \* of every day
          Months        \* the days of the months of every year

-----------------------------------------------------------------------------
(* Intervals of time and sequences of them (interval.ts, intervals.ts).  A *)
(* time is a number of milliseconds; Infinite stands for POSITIVE_INFINITY *)
(* and for MAX_SAFE_INTEGER.                                               *)

ASSUME InfiniteIsLate == Infinite \in Nat

Larger(m, n) == IF m < n THEN n ELSE m
Smaller(m, n) == IF m < n THEN m ELSE n

EmptyInterval == [start |-> 0, end |-> 0]

MakeInterval(start, end) ==
    IF start > end THEN EmptyInterval ELSE [start |-> start, end |-> end]

After(t) == MakeInterval(t, Infinite)

IsEmptyInterval(a) == a.start >= a.end
Width(a) == a.end - a.start

(* The interval that comes first; of two that start together, the shorter. *)
MinInterval(self, that) ==
    CASE self.end <= that.start -> self
      [] that.end <= self.start /\ ~self.end <= that.start -> that
      [] OTHER ->
            IF self.start # that.start
            THEN IF self.start < that.start THEN self ELSE that
            ELSE IF self.end <= that.end THEN self ELSE that

(* Of two intervals with the same bounds min returns self, so comparing    *)
(* values decides what `===` decides.                                      *)
IntervalLess(self, that) == MinInterval(self, that) = self
MaxInterval(self, that) == IF IntervalLess(self, that) THEN that ELSE self

IntersectInterval(self, that) ==
    MakeInterval(Larger(self.start, that.start), Smaller(self.end, that.end))

(* An Option: none when the two overlap. *)
UnionInterval(self, that) ==
    LET start == Larger(self.start, that.start)
        end == Smaller(self.end, that.end)
    IN IF start < end THEN <<>> ELSE <<MakeInterval(start, end)>>

-----------------------------------------------------------------------------
(* Sequences of intervals.                                                 *)

FirstOf(is) == IF is = <<>> THEN EmptyInterval ELSE Head(is)
StartOf(is) == FirstOf(is).start
EndOf(is) == FirstOf(is).end

IntervalsLess(self, that) == StartOf(self) < StartOf(that)
MaxIntervals(self, that) == IF IntervalsLess(self, that) THEN that ELSE self

(* The next interval, the head of one of the two sequences, either starts  *)
(* after the last of the union so far or gives it its own end.             *)
Extend(acc, next) ==
    LET last == Last(acc) IN
    IF last.end < next.start THEN Append(acc, next)
    ELSE [acc EXCEPT ![Len(acc)] = MakeInterval(last.start, next.end)]

RECURSIVE UnionLoop(_, _, _)
UnionLoop(self, that, acc) ==
    IF self = <<>> /\ that = <<>> THEN acc
    ELSE IF that = <<>> \/ (self # <<>> /\ Head(self).start < Head(that).start)
         THEN UnionLoop(Tail(self), that, Extend(acc, Head(self)))
         ELSE UnionLoop(self, Tail(that), Extend(acc, Head(that)))

UnionIntervals(self, that) ==
    IF that = <<>> THEN self
    ELSE IF self = <<>> THEN that
    ELSE IF StartOf(self) < StartOf(that)
         THEN UnionLoop(Tail(self), that, <<Head(self)>>)
         ELSE UnionLoop(self, Tail(that), <<Head(that)>>)

RECURSIVE IntersectLoop(_, _, _)
IntersectLoop(left, right, acc) ==
    IF left = <<>> \/ right = <<>> THEN acc
    ELSE LET both == IntersectInterval(Head(left), Head(right))
             taken == IF IsEmptyInterval(both) THEN acc ELSE Append(acc, both)
         IN IF IntervalLess(Head(left), Head(right))
            THEN IntersectLoop(Tail(left), right, taken)
            ELSE IntersectLoop(left, Tail(right), taken)

IntersectIntervals(self, that) == IntersectLoop(self, that, <<>>)

FromIntervals(is) == FoldLeft(LAMBDA acc, i : UnionIntervals(acc, <<i>>), <<>>, is)

-----------------------------------------------------------------------------
(* Decisions. *)

Done == [tag |-> "Done"]
Continue(is) == [tag |-> "Continue", intervals |-> is]
ContinueWith(i) == Continue(<<i>>)
IsDone(decision) == decision.tag = "Done"
Decided(state, out, decision) == [state |-> state, out |-> out, decision |-> decision]

(* The terms. *)
Unfold(first, f) == [op |-> "unfold", first |-> first, f |-> f]
Forever == [op |-> "forever"]
Identity == [op |-> "identity"]
Elapsed == [op |-> "elapsed"]
FromDelays(delays) == [op |-> "fromDelays", delays |-> delays]
FromDelay(d) == [op |-> "duration", duration |-> d]
Fixed(d) == [op |-> "fixed", interval |-> d]
Windowed(d) == [op |-> "windowed", interval |-> d]
Day(next, day) == [op |-> "day", unit |-> DayLength, next |-> next, day |-> day]
DayOfWeek(day) == Day("week", day)
DayOfMonth(day) == Day("month", day)
Cron(unit, cycle, field) == [op |-> "cron", unit |-> unit, cycle |-> cycle, field |-> field]
Mapped(s, f) == [op |-> "map", self |-> s, f |-> f]
ModifyDelay(s, f) == [op |-> "modifyDelay", self |-> s, f |-> f]
Check(s, on, accepted) == [op |-> "check", self |-> s, on |-> on, accepted |-> accepted]
Reduced(s, zero, f) == [op |-> "reduce", self |-> s, zero |-> zero, f |-> f]
ResetWhen(s, accepted) == [op |-> "resetWhen", self |-> s, accepted |-> accepted]
RepeatForever(s) == [op |-> "repeatForever", self |-> s]
Contramap(s, f) == [op |-> "contramap", self |-> s, f |-> f]
Passthrough(s) == [op |-> "passthrough", self |-> s]
Reconsider(s, f) == [op |-> "reconsider", self |-> s, f |-> f]
Watched(s) == [op |-> "watched", self |-> s]
Side(s, i) == [op |-> "side", self |-> s, i |-> i]
Delays(s) == [op |-> "delays", self |-> s]
Ensuring(s) == [op |-> "ensuring", self |-> s]
Combined(op, s, t) == [op |-> op, self |-> s, that |-> t]
AndThenEither(s, t) == Combined("andThenEither", s, t)
Union(s, t) == Combined("union", s, t)
Intersect(s, t) == Combined("intersect", s, t)
BothInOut(s, t) == Combined("bothInOut", s, t)
Choose(s, t) == Combined("choose", s, t)
Compose(s, t) == Combined("compose", s, t)

Combinations == {"andThenEither", "union", "intersect", "bothInOut", "choose", "compose"}

RECURSIVE Initial(_)
Initial(s) ==
    CASE s.op = "unfold" -> s.first
      [] s.op \in {"forever", "identity", "windowed", "fixed", "cron", "day"} -> [n |-> 0]
      [] s.op = "elapsed" -> [n |-> 0]
      [] s.op = "duration" -> TRUE
      [] s.op = "fromDelays" -> [delays |-> s.delays, cont |-> TRUE]
      [] s.op = "reduce" -> [of |-> Initial(s.self), z |-> s.zero]
      [] s.op \in Combinations -> [of |-> <<Initial(s.self), Initial(s.that)>>, left |-> TRUE]
      [] OTHER -> Initial(s.self)

-----------------------------------------------------------------------------
(* Schedules by themselves.                                                *)

UnfoldStep(s, now, st) == Decided(s.f[st], st, ContinueWith(After(now)))

ForeverStep(now, st) == Decided([n |-> st.n + 1], st.n, ContinueWith(After(now)))

IdentityStep(now, input, st) == Decided(st, input, ContinueWith(After(now)))

ElapsedStep(now, st) ==
    LET since == IF "since" \in DOMAIN st THEN st.since ELSE now IN
    Decided([n |-> 0, since |-> since], now - since, ContinueWith(After(now)))

DurationStep(s, now, st) ==
    IF st THEN Decided(FALSE, s.duration, ContinueWith(After(now + s.duration)))
    ELSE Decided(FALSE, 0, Done)

FromDelaysStep(now, st) ==
    LET x == Head(st.delays) IN
    IF ~st.cont THEN Decided(st, 0, Done)
    ELSE Decided(IF Len(st.delays) >= 2 THEN [st EXCEPT !.delays = Tail(@)]
                 ELSE [st EXCEPT !.cont = FALSE],
                 x, ContinueWith(After(now + x)))

(* The first run starts the clock of the schedule. *)
FixedStep(s, now, st) ==
    LET d == s.interval
        started == "start" \in DOMAIN st
        runningBehind == now > st.lastRun + d
        boundary == IF d = 0 THEN d ELSE d - ((now - st.start) % d)
        sleepTime == IF boundary = 0 THEN d ELSE boundary
        nextRun == IF ~started THEN now + d
                   ELSE IF runningBehind THEN now ELSE now + sleepTime
        state == [n |-> st.n + 1,
                  start |-> IF started THEN st.start ELSE now,
                  lastRun |-> nextRun]
    IN Decided(state, st.n, ContinueWith(After(nextRun)))

WindowedStep(s, now, st) ==
    LET start == IF "start" \in DOMAIN st THEN st.start ELSE now IN
    Decided([n |-> st.n + 1, start |-> start], st.n,
            ContinueWith(After(now + (s.interval - ((now - start) % s.interval)))))

-----------------------------------------------------------------------------
(* secondOfMinute, minuteOfHour, hourOfDay: the field `unit` of a cycle of *)
(* `cycle` units (the second of 60, the minute of 60, the hour of 24).     *)
(* Calendars and time zones are left out: every cycle is as long.          *)

FieldOf(s, t) == (t \div s.unit) % s.cycle
BeginningOf(s, t) == t - (t % s.unit)
EndOfUnit(s, t) == BeginningOf(s, t) + s.unit

NextOccurrence(s, now, initial) ==
    LET field == FieldOf(s, now) IN
    IF field = s.field /\ initial THEN now
    ELSE now + (s.field - field) * s.unit
             + IF field < s.field THEN 0 ELSE s.cycle * s.unit

CronStep(s, now, st) ==
    LET next == NextOccurrence(s, now, st.n = 0) IN
    Decided([n |-> st.n + 1], st.n,
            ContinueWith(MakeInterval(BeginningOf(s, next), EndOfUnit(s, next))))

(* Days: day 0 is a Sunday and the first of a month.  A date beyond the    *)
(* end of its month is one of the next.                                    *)
DayNumber(t) == t \div DayLength
WeekDay(t) == DayNumber(t) % 7
MonthLength(m) == Months[(m % Len(Months)) + 1]
DaysBefore[m \in Nat] == IF m = 0 THEN 0 ELSE DaysBefore[m - 1] + MonthLength(m - 1)
MonthOf(t) == CHOOSE m \in 0 .. DayNumber(t) : DayNumber(t) \in DaysBefore[m] .. (DaysBefore[m + 1] - 1)
DateOf(t) == DayNumber(t) - DaysBefore[MonthOf(t)] + 1
SetDate(t, m, day) == (DaysBefore[m] + day - 1) * DayLength + (t % DayLength)

NextDay(now, day, initial) ==
    LET ahead == (7 + day - WeekDay(now)) % 7 IN
    IF WeekDay(now) = day /\ initial THEN now
    ELSE now + (IF ahead = 0 THEN 7 ELSE ahead) * DayLength

RECURSIVE FindNextMonth(_, _, _)
FindNextMonth(now, day, months) ==
    LET there == SetDate(now, MonthOf(now) + months, day) IN
    IF DateOf(there) = day THEN there ELSE FindNextMonth(now, day, months + 1)

NextDayOfMonth(now, day, initial) ==
    IF DateOf(now) = day /\ initial THEN now
    ELSE IF DateOf(now) < day THEN SetDate(now, MonthOf(now), day)
    ELSE FindNextMonth(now, day, 1)

DayStep(s, now, st) ==
    LET next == IF s.next = "week" THEN NextDay(now, s.day, st.n = 0)
                ELSE NextDayOfMonth(now, s.day, st.n = 0)
    IN Decided([n |-> st.n + 1], st.n,
               ContinueWith(MakeInterval(BeginningOf(s, next), EndOfUnit(s, next))))

-----------------------------------------------------------------------------
(* Schedules of schedules.                                                 *)

RECURSIVE Step(_, _, _, _), IntersectWithLoop(_, _, _, _, _)

MapStep(s, now, input, st) ==
    LET r == Step(s.self, now, input, st) IN [r EXCEPT !.out = s.f[r.out]]

ContramapStep(s, now, input, st) == Step(s.self, now, s.f[input], st)

PassthroughStep(s, now, input, st) ==
    LET r == Step(s.self, now, input, st) IN [r EXCEPT !.out = input]

(* f sees the output and whether the schedule is done, and either ends it  *)
(* or gives another output and, unless it is done, another interval.       *)
ReconsiderStep(s, now, input, st) ==
    LET r == Step(s.self, now, input, st)
        told == s.f[r.out, IsDone(r.decision)]
    IN IF "left" \in DOMAIN told THEN Decided(r.state, told.left, Done)
       ELSE Decided(r.state, told.right[1],
                    IF IsDone(r.decision) THEN Done ELSE ContinueWith(told.right[2]))

SideStep(s, now, input, st) ==
    LET r == Step(s.self, now, input, st) IN [r EXCEPT !.out = @[s.i]]

DelaysStep(s, now, input, st) ==
    LET r == Step(s.self, now, input, st) IN
    [r EXCEPT !.out = IF IsDone(r.decision) THEN 0 ELSE StartOf(r.decision.intervals) - now]

(* f maps an output and a delay to the delay to wait instead. *)
ModifyDelayStep(s, now, input, st) ==
    LET r == Step(s.self, now, input, st)
        oldStart == StartOf(r.decision.intervals)
        newStart == now + s.f[r.out, Width(MakeInterval(now, oldStart))]
        newEnd == Smaller(Larger(0, EndOf(r.decision.intervals) + newStart - oldStart), Infinite)
    IN IF IsDone(r.decision) THEN r
       ELSE [r EXCEPT !.decision = ContinueWith(MakeInterval(newStart, newEnd))]

CheckStep(s, now, input, st) ==
    LET r == Step(s.self, now, input, st)
        tested == IF s.on = "input" THEN input ELSE r.out
    IN IF IsDone(r.decision) \/ tested \in s.accepted THEN r
       ELSE [r EXCEPT !.decision = Done]

(* The output is the value before this step's output was folded in. *)
ReduceStep(s, now, input, st) ==
    LET r == Step(s.self, now, input, st.of) IN
    Decided([of |-> r.state, z |-> IF IsDone(r.decision) THEN st.z ELSE s.f[st.z, r.out]],
            st.z, r.decision)

ResetWhenStep(s, now, input, st) ==
    LET r == Step(s.self, now, input, st) IN
    IF r.out \in s.accepted THEN Step(s.self, now, input, Initial(s.self)) ELSE r

(* Diverges, as the code does, on a schedule that is done at once. *)
RepeatForeverStep(s, now, input, st) ==
    LET r == Step(s.self, now, input, st) IN
    IF IsDone(r.decision) THEN Step(s, now, input, Initial(s.self)) ELSE r

AndThenEitherStep(s, now, input, st) ==
    LET l == Step(s.self, now, input, st.of[1])
        r == Step(s.that, now, input, st.of[2])
        InThat(first) == Decided([of |-> <<first, r.state>>, left |-> FALSE],
                                 [right |-> r.out], r.decision)
    IN IF ~st.left THEN InThat(st.of[1])
       ELSE IF IsDone(l.decision) THEN InThat(l.state)
       ELSE Decided([st EXCEPT !.of[1] = l.state], [left |-> l.out], l.decision)

ChooseStep(s, now, input, st) ==
    IF "left" \in DOMAIN input
    THEN LET l == Step(s.self, now, input.left, st.of[1]) IN
         Decided([st EXCEPT !.of[1] = l.state], [left |-> l.out], l.decision)
    ELSE LET r == Step(s.that, now, input.right, st.of[2]) IN
         Decided([st EXCEPT !.of[2] = r.state], [right |-> r.out], r.decision)

ComposeStep(s, now, input, st) ==
    LET l == Step(s.self, now, input, st.of[1])
        r == Step(s.that, now, l.out, st.of[2])
    IN Decided([st EXCEPT !.of = <<l.state, r.state>>], r.out,
               IF IsDone(l.decision) \/ IsDone(r.decision) THEN Done
               ELSE Continue(MaxIntervals(l.decision.intervals, r.decision.intervals)))

Pair(st, l, r, decision) ==
    Decided([st EXCEPT !.of = <<l.state, r.state>>], <<l.out, r.out>>, decision)

BothInOutStep(s, now, input, st) ==
    LET l == Step(s.self, now, input[1], st.of[1])
        r == Step(s.that, now, input[2], st.of[2])
    IN Pair(st, l, r, IF IsDone(l.decision) \/ IsDone(r.decision) THEN Done
                      ELSE Continue(UnionIntervals(l.decision.intervals, r.decision.intervals)))

UnionStep(s, now, input, st) ==
    LET l == Step(s.self, now, input, st.of[1])
        r == Step(s.that, now, input, st.of[2])
    IN Pair(st, l, r,
            IF IsDone(l.decision) THEN r.decision
            ELSE IF IsDone(r.decision) THEN l.decision
            ELSE Continue(UnionIntervals(l.decision.intervals, r.decision.intervals)))

(* Intervals that do not meet: the schedule whose intervals start first is *)
(* stepped, at the time its first interval ends, until they meet.          *)
IntersectWithLoop(s, input, st, l, r) ==
    LET li == l.decision.intervals
        ri == r.decision.intervals
    IN IF IsDone(l.decision) \/ IsDone(r.decision) THEN Pair(st, l, r, Done)
       ELSE IF IntersectIntervals(li, ri) # <<>>
            THEN Pair(st, l, r, Continue(IntersectIntervals(li, ri)))
       ELSE IF IntervalsLess(li, ri)
            THEN IntersectWithLoop(s, input, st, Step(s.self, EndOf(li), input, l.state), r)
       ELSE IntersectWithLoop(s, input, st, l, Step(s.that, EndOf(ri), input, r.state))

IntersectStep(s, now, input, st) ==
    IntersectWithLoop(s, input, st, Step(s.self, now, input, st.of[1]),
                                    Step(s.that, now, input, st.of[2]))

Step(s, now, input, st) ==
    CASE s.op = "unfold" -> UnfoldStep(s, now, st)
      [] s.op = "forever" -> ForeverStep(now, st)
      [] s.op = "identity" -> IdentityStep(now, input, st)
      [] s.op = "elapsed" -> ElapsedStep(now, st)
      [] s.op = "duration" -> DurationStep(s, now, st)
      [] s.op = "fromDelays" -> FromDelaysStep(now, st)
      [] s.op = "fixed" -> FixedStep(s, now, st)
      [] s.op = "windowed" -> WindowedStep(s, now, st)
      [] s.op = "cron" -> CronStep(s, now, st)
      [] s.op = "day" -> DayStep(s, now, st)
      [] s.op = "map" -> MapStep(s, now, input, st)
      [] s.op = "side" -> SideStep(s, now, input, st)
      [] s.op = "delays" -> DelaysStep(s, now, input, st)
      [] s.op = "modifyDelay" -> ModifyDelayStep(s, now, input, st)
      [] s.op = "check" -> CheckStep(s, now, input, st)
      [] s.op = "reduce" -> ReduceStep(s, now, input, st)
      [] s.op = "resetWhen" -> ResetWhenStep(s, now, input, st)
      [] s.op = "repeatForever" -> RepeatForeverStep(s, now, input, st)
      [] s.op \in {"ensuring", "watched"} -> Step(s.self, now, input, st)
      [] s.op = "contramap" -> ContramapStep(s, now, input, st)
      [] s.op = "passthrough" -> PassthroughStep(s, now, input, st)
      [] s.op = "reconsider" -> ReconsiderStep(s, now, input, st)
      [] s.op = "andThenEither" -> AndThenEitherStep(s, now, input, st)
      [] s.op = "choose" -> ChooseStep(s, now, input, st)
      [] s.op = "compose" -> ComposeStep(s, now, input, st)
      [] s.op = "bothInOut" -> BothInOutStep(s, now, input, st)
      [] s.op = "union" -> UnionStep(s, now, input, st)
      [] s.op = "intersect" -> IntersectStep(s, now, input, st)

-----------------------------------------------------------------------------
(* Schedules made of these.  A function of outputs has Nat for its domain. *)

Count == Forever
As(s, value) == Mapped(s, [out \in Nat |-> value])
AsUnit(s) == As(s, "unit")
Succeed(value) == As(Forever, value)
FromFunction(f) == Mapped(Identity, f)
Dimap(s, f, g) == Mapped(Contramap(s, f), g)
TapInput(s) == Watched(s)
TapOutput(s) == Watched(s)
OnDecision(s) == Watched(s)

WhileInput(s, accepted) == Check(s, "input", accepted)
UntilInput(s, refused) == Check(s, "input", Nat \ refused)
WhileOutput(s, accepted) == Check(s, "output", accepted)
UntilOutput(s, refused) == Check(s, "output", Nat \ refused)
Recurs(n) == WhileOutput(Forever, 0 .. (n - 1))
Once == AsUnit(Recurs(1))
Stop == AsUnit(Recurs(0))
RecurWhile(accepted) == WhileInput(Identity, accepted)
RecurUntil(refused) == UntilInput(Identity, refused)
(* pf gives <<>> or <<value>>, the latter for the inputs it accepts. *)
RecurUntilOption(pf) == Check(FromFunction(pf), "output", {<<>>})
RecurUpTo(d) == Check(Elapsed, "output", 0 .. (d - 1))

AddDelay(s, f) == ModifyDelay(s, [out \in DOMAIN f, delay \in Nat |-> f[out] + delay])
Spaced(d) == AddDelay(Forever, [n \in Nat |-> d])
DelayedSchedule(s) == AddDelay(s, [d \in Nat |-> d])
Linear(base) == DelayedSchedule(Mapped(Forever, [i \in Nat |-> base * (i + 1)]))
Exponential(base) == DelayedSchedule(Mapped(Forever, [i \in Nat |-> base * 2 ^ i]))
Fibonacci(one) ==
    DelayedSchedule(Mapped(Unfold(<<one, one>>, [p \in Nat \X Nat |-> <<p[2], p[1] + p[2]>>]),
                           [p \in Nat \X Nat |-> p[1]]))

Delayed(s, f) == ModifyDelay(s, [out \in Nat, delay \in Nat |-> f[delay]])
CollectAllOutputs(s) == Reduced(s, <<>>, [outs \in Seq(Nat), out \in Nat |-> Append(outs, out)])
CollectAllInputs == CollectAllOutputs(Identity)
CollectWhile(accepted) == CollectAllOutputs(RecurWhile(accepted))
CollectUntil(refused) == CollectAllOutputs(RecurUntil(refused))
LeftOnly(s) == Choose(s, Identity)
RightOnly(s) == Choose(Identity, s)
Either(s, t) == Union(s, t)
EitherWith(s, t, f) == Mapped(Union(s, t), f)
ZipWith(s, t, f) == Mapped(Intersect(s, t), f)
Repetitions(s) == Reduced(s, 0, [n \in Nat, out \in Nat |-> n + 1])
ZipLeft(s, t) == Side(Intersect(s, t), 1)
ZipRight(s, t) == Side(Intersect(s, t), 2)
UpTo(s, d) == ZipLeft(s, RecurUpTo(d))
ResetAfter(s, d) == Side(ResetWhen(Intersect(s, Elapsed), Nat \X {t \in Nat : t >= d}), 1)

(* Schedule.run: the outputs for a sequence of inputs, each step taken at  *)
(* the time the one before it asked for.                                   *)
RECURSIVE RunLoop(_, _, _, _, _)
RunLoop(s, now, inputs, st, acc) ==
    IF inputs = <<>> THEN acc
    ELSE LET r == Step(s, now, Head(inputs), st) IN
         IF IsDone(r.decision) THEN Append(acc, r.out)
         ELSE RunLoop(s, StartOf(r.decision.intervals), Tail(inputs), r.state, Append(acc, r.out))

RunAll(s, now, inputs) == RunLoop(s, now, inputs, Initial(s), <<>>)

-----------------------------------------------------------------------------
(* A driver: a schedule, its state and the last output, <<>> before one.   *)

Driver(s) == [schedule |-> s, last |-> <<>>, state |-> Initial(s)]
DriverNext(driver, now, input) ==
    LET r == Step(driver.schedule, now, input, driver.state) IN
    [driver |-> [driver EXCEPT !.last = <<r.out>>, !.state = r.state],
     out |-> r.out,
     sleep |-> IF IsDone(r.decision) THEN <<>> ELSE <<StartOf(r.decision.intervals) - now>>]
DriverReset(driver) == Driver(driver.schedule)

===============================================================================
