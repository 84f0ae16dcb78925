------------------------------- MODULE TestClock -------------------------------
(***************************************************************************)
(* The test clock (internal/testing/testClock.ts) as functions on its      *)
(* state: what each of its operations does to the time, to the sleepers,   *)
(* and to the two warnings, one operator per stretch that no other fiber   *)
(* interrupts.  A sleeper is the fiber that awaits the deferred.           *)
(***************************************************************************)
EXTENDS Integers, Sequences, FiniteSets, SequencesExt

CONSTANT NoTime  \* what run returns when it has woken nobody

(* A clock: its time, the sleepers with their ends, and, as histories, the *)
(* wakes with their times and the warnings that a test was given.          *)
NewClock == [instant |-> 0, sleeps |-> <<>>, warning |-> "start", suspended |-> "start",
             woken |-> <<>>, warned |-> {}]

CurrentTimeMillis(clock) == clock.instant

(* sleeps, as times. *)
Sleeps(clock) == [i \in DOMAIN clock.sleeps |-> clock.sleeps[i].end]

-----------------------------------------------------------------------------
(* The warning that a test uses time without advancing it: started by the  *)
(* first sleep, given five seconds of live time later, and off for good    *)
(* once a test moved the clock.                                            *)

WarningStart(clock) ==
    [clock EXCEPT !.warning = IF @ = "start" THEN "pending" ELSE @]

WarningDone(clock) == [clock EXCEPT !.warning = "done"]

(* The forked fiber logs it; the state stays pending. *)
Warn(clock) ==
    [clock EXCEPT !.warned = IF clock.warning = "pending" THEN @ \cup {"sleeping"} ELSE @]

(* The warning that a fiber does not suspend: as often as the clock is     *)
(* adjusted, but given once.                                               *)
SuspendedWarningStart(clock) ==
    [clock EXCEPT !.suspended = IF @ = "start" THEN "pending" ELSE @]

SuspendedWarningDone(clock) ==
    [clock EXCEPT !.suspended = IF @ = "pending" THEN "start" ELSE @]

SuspendedWarn(clock) ==
    IF clock.suspended # "pending" THEN clock
    ELSE [clock EXCEPT !.warned = @ \cup {"running"}, !.suspended = "done"]

(* The finalizer of the layer. *)
Finalize(clock) == SuspendedWarningDone(WarningDone(clock))

-----------------------------------------------------------------------------
(* sleep: a fiber that sleeps for nothing goes on at once. *)

Wake(clock, who) == [clock EXCEPT !.woken = Append(@, [who |-> who, at |-> clock.instant])]

Sleep(clock, who, millis) ==
    LET end == clock.instant + millis IN
    IF end <= clock.instant THEN Wake(clock, who)
    ELSE WarningStart([clock EXCEPT !.sleeps = <<[end |-> end, who |-> who]>> \o @])

(* The sort of the sleepers is stable. *)
Earliest(sleeps) ==
    CHOOSE i \in DOMAIN sleeps :
        \A j \in DOMAIN sleeps :
            sleeps[j].end >= sleeps[i].end /\ (j < i => sleeps[j].end > sleeps[i].end)

ByTime(sleeps) ==
    LET sorted[left \in 0 .. Len(sleeps)] ==
            IF left = 0 THEN [taken |-> <<>>, rest |-> sleeps]
            ELSE LET before == sorted[left - 1]
                     i == Earliest(before.rest)
                 IN  [taken |-> Append(before.taken, before.rest[i]),
                      rest |-> RemoveAt(before.rest, i)]
    IN  sorted[Len(sleeps)].taken

(* One round of run(f), once the fibers are suspended: it moves the clock  *)
(* to the first sleeper that is due and wakes it, or to the end.  The next *)
(* round is run(() => end), after a yield.                                 *)
Round(clock, f) ==
    LET end == f[clock.instant]
        sorted == ByTime(clock.sleeps)
    IN  IF sorted # <<>> /\ sorted[1].end <= end
        THEN [clock |-> Wake([clock EXCEPT !.instant = sorted[1].end, !.sleeps = Tail(sorted)],
                             sorted[1].who),
              end |-> end]
        ELSE [clock |-> [clock EXCEPT !.instant = end], end |-> NoTime]

(* All rounds, when nobody else uses the clock. *)
Run(clock, f) ==
    LET start == WarningDone(clock)
        rounds[n \in 0 .. Len(clock.sleeps) + 1] ==
            IF n = 0 THEN Round(start, f)
            ELSE LET before == rounds[n - 1] IN
                 IF before.end = NoTime THEN before
                 ELSE Round(before.clock, [instant \in Int |-> before.end])
    IN  rounds[Len(clock.sleeps) + 1].clock

Adjust(clock, millis) == Run(clock, [instant \in Int |-> instant + millis])
SetTime(clock, instant) == Run(clock, [now \in Int |-> instant])

(* save, and the effect it returns: the whole state is put back. *)
Save(clock) == [instant |-> clock.instant, sleeps |-> clock.sleeps]
Restore(clock, saved) == [clock EXCEPT !.instant = saved.instant, !.sleeps = saved.sleeps]

-----------------------------------------------------------------------------
(* awaitSuspended.  A moment gives every supervised fiber its status.      *)

StatusEquals(a, b) ==
    /\ a.tag = b.tag
    /\ a.tag = "suspended" => a.blockingOn = b.blockingOn

(* freeze fails while a fiber runs. *)
Frozen(moment) == \A fiber \in DOMAIN moment : moment[fiber].tag # "running"

SameSnapshot(a, b) ==
    /\ DOMAIN a = DOMAIN b
    /\ \A fiber \in DOMAIN a : StatusEquals(a[fiber], b[fiber])

(* suspended: two snapshots, five milliseconds of live time apart. *)
Suspended(first, last) == Frozen(first) /\ Frozen(last) /\ SameSnapshot(first, last)

(* awaitSuspended: two of these, ten milliseconds apart, with one result;  *)
(* it tries again until they have.                                         *)
Settled(moments, i) ==
    /\ Suspended(moments[i], moments[i + 1])
    /\ Suspended(moments[i + 2], moments[i + 3])
    /\ SameSnapshot(moments[i], moments[i + 2])

(* The fibers of a test (annotations.ts): those of the annotation, but for *)
(* the one that asks; none while the annotation is a number.               *)
SupervisedFibers(annotation, asking) ==
    IF annotation.kind = "left" THEN {} ELSE UNION ToSet(annotation.fibers) \ {asking}

(* How two such annotations combine (testAnnotation.ts): numbers are added *)
(* up and fibers collected, but a second one of another kind wins.         *)
Compose(left, right) ==
    IF left.kind # right.kind THEN right
    ELSE IF left.kind = "left" THEN [left EXCEPT !.count = @ + right.count]
    ELSE [left EXCEPT !.fibers = @ \o right.fibers]

(* annotate and get of the annotation map: a key that has no value yet has *)
(* the initial one of its annotation.                                      *)
GetAnnotation(map, key) == IF key.id \in DOMAIN map THEN map[key.id] ELSE key.initial
Annotate(map, key, value) ==
    [id \in DOMAIN map \cup {key.id} |->
        IF id = key.id THEN key.combine[<<GetAnnotation(map, key), value>>] ELSE map[id]]

(* combine: the annotations of two maps. *)
CombineAnnotations(map, that, keys) ==
    [id \in DOMAIN map \cup DOMAIN that |->
        IF id \notin DOMAIN that THEN map[id]
        ELSE IF id \notin DOMAIN map THEN that[id]
        ELSE keys[id].combine[<<map[id], that[id]>>]]
===============================================================================
