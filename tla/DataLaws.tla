------------------------------- MODULE DataLaws -------------------------------
(* Laws of the parts of the library that no fiber interleaves: metrics and *)
(* the buffers of hubs.  Each is checked against a definition that shares  *)
(* nothing with the code.                                                  *)
EXTENDS Integers, Sequences, FiniteSets, FiniteSetsExt, SequencesExt, TLC

CONSTANTS Missing, NotANumber

LOCAL Lists(S, n) == UNION {[1 .. k -> S] : k \in 0 .. n}
LOCAL Ascending(S) == SetToSortSeq(S, <)

-----------------------------------------------------------------------------
(* Metrics.                                                                *)

AtMost(a, b) == a <= b
M == INSTANCE Metrics WITH
        MaxValue <- 1000, Hole <- Missing, NaN <- NotANumber, Inputs <- Any, WithinAge <- AtMost

Fed(metric, inputs) == FoldLeft(LAMBDA reg, x : metric.update[reg, x, {}], <<>>, inputs)

(* hook.ts, histogram: the binary search finds the first bucket whose      *)
(* boundary is not below the value.                                        *)
ASSUME BucketsAreFound ==
    \A bounds \in SUBSET (1 .. 4) \ {{}}, value \in 0 .. 5 :
        M!Bucket(Ascending(bounds), value) = Cardinality({b \in bounds : b < value})

(* hook.ts, histogram: count and maximum follow the updates; but the array *)
(* of buckets starts with holes, so that what a bucket counts is never a   *)
(* number (Metric.ts:194-195 speaks of the number of values that fall into *)
(* the buckets).                                                           *)
ASSUME HistogramsTally ==
    \A inputs \in Lists({0, 1, 2, 5}, 3) :
        LET metric == M!HistogramMetric("h", M!LinearBoundaries(0, 2, 2))
            state == M!ValueOf(metric, Fed(metric, inputs), {}, 0)[1]
        IN  /\ state.tally.count = Len(inputs)
            /\ state.tally.max = Max({0} \cup ToSet(inputs))
            /\ \A i \in DOMAIN state.buckets : state.buckets[i][2] = NotANumber

(* hook.ts, summary: the samples are the last maxSize observations, but for *)
(* those in the ring's last slot, which snapshot does not look at.         *)
ASSUME SummariesForgetASlot ==
    \A size \in 1 .. 4, n \in 0 .. 6 :
        LET key == M!MetricKey("s", M!SummaryType(100, size, 0, <<50>>))
            metric == M!SummaryTimestamp("s", 100, size, 0, <<50>>)
            reg == Fed(metric, [i \in 1 .. n |-> <<i, i>>])
        IN  M!SummarySamples(M!GetHook(reg, key), 10)
                = Ascending({i \in 1 .. n : i > n - size /\ i % size # size - 1})

(* hook.ts, summary: a sample older than maxAge is not seen. *)
ASSUME SummariesAge ==
    \A age \in 0 .. 4 :
        LET key == M!MetricKey("s", M!SummaryType(age, 8, 0, <<50>>))
            metric == M!SummaryTimestamp("s", age, 8, 0, <<50>>)
            reg == Fed(metric, [i \in 1 .. 5 |-> <<i, i>>])
        IN  M!SummarySamples(M!GetHook(reg, key), 6) = Ascending({i \in 1 .. 5 : 6 - i <= age})

(* hook.ts, resolveQuantile without error: the greatest sample that at most *)
(* the quantile's part of the samples reaches.  But where it is reached    *)
(* exactly, the step back compares a count with a value (prevError), so    *)
(* that the sample before is given if its value happens to be the count.   *)
Quantile(q, samples) ==
    LET UpTo(v) == Cardinality({i \in DOMAIN samples : samples[i] <= v})
        few == {v \in ToSet(samples) : 100 * UpTo(v) <= q * Len(samples)}
        v == Max(few)
        before == few \ {v}
    IN  IF few = {} THEN <<>>
        ELSE IF UpTo(v) < Len(samples) /\ 100 * UpTo(v) = q * Len(samples)
                /\ before # {} /\ Max(before) = UpTo(v)
             THEN <<Max(before)>> ELSE <<v>>

ASSUME QuantilesOfSamples ==
    \A samples \in {s \in Lists(1 .. 4, 6) : s # <<>> /\ \A i \in 2 .. Len(s) : s[i - 1] <= s[i]} :
        LET results == M!CalculateQuantiles(0, <<0, 25, 50, 75, 100>>, samples) IN
        /\ \A i \in 1 .. 4 : results[i][2] = Quantile(results[i][1], samples)
        /\ results[5][2] = <<Last(samples)>>

(* metric.ts: zip updates both metrics and reads both; a label added to a  *)
(* metric keeps its numbers apart from those of the metric without it.     *)
ASSUME MetricsCompose ==
    LET hits == M!CounterMetric("hits")
        last == M!GaugeMetric("last")
        both == M!ZipMetric(hits, last)
        here == M!MetricTagged(hits, "here")
        reg == here.update[Fed(both, <<<<1, 5>>, <<2, 7>>>>), 4, {}]
    IN  /\ M!ValueOf(both, reg, {}, 0)[1] = <<[sum |-> 3], [value |-> 7]>>
        /\ M!ValueOf(here, reg, {}, 0)[1] = [sum |-> 4]
        /\ M!ValueOf(hits, reg, {"here"}, 0)[1] = [sum |-> 4]
        /\ Cardinality(M!UnsafeSnapshot(reg, 0)) = 3

(* metric.ts: the metrics of an effect count what they say, but the labels *)
(* of the place where it runs reach only two of them: errors and successes *)
(* are counted under these labels, everything else (the effect itself,     *)
(* defects, durations) under none.                                         *)
ASSUME TrackersCountTheirs ==
    LET Succeeds == [tag |-> "Success", value |-> 2]
        Fails(failures, defects) == [tag |-> "Failure", failures |-> failures, defects |-> defects]
        id == [x \in 0 .. 9 |-> x]
        hits == M!CounterMetric("hits")
        Sum(reg, tags) == M!ValueOf(hits, reg, tags, 0)[1].sum
    IN  \A outcome \in {Succeeds} \cup {Fails(f, d) : f, d \in Lists({1, 3}, 2)} :
        LET won == outcome.tag = "Success"
            defects == IF won THEN <<>> ELSE outcome.defects
            Counts(reg, here, anywhere) == Sum(reg, {"here"}) = here /\ Sum(reg, {}) = anywhere
        IN  /\ Counts(M!TrackSuccessWith(hits, id, <<>>, outcome, {"here"}), IF won THEN 2 ELSE 0, 0)
            /\ Counts(M!TrackErrorWith(hits, id, <<>>, outcome, {"here"}),
                      IF won \/ outcome.failures = <<>> THEN 0 ELSE outcome.failures[1], 0)
            /\ Counts(M!Applied(hits, <<>>, outcome), 0, IF won THEN 2 ELSE 0)
            /\ Counts(M!TrackAll(hits, <<>>, 5, outcome), 0, 5)
            /\ Counts(M!TrackDefectWith(hits, id, <<>>, outcome), 0,
                      Cardinality({i \in DOMAIN defects : defects[i] = 1})
                          + 3 * Cardinality({i \in DOMAIN defects : defects[i] = 3}))
            /\ Counts(M!TrackDurationWith(hits, id, <<>>, outcome, 3, 7), 0, IF won THEN 4 ELSE 0)
            /\ Counts(M!Increment(hits, M!IncrementBy(hits, <<>>, 3, {"here"}), {}), 3, 1)

-----------------------------------------------------------------------------
(* The buffers of hubs, against one that holds each value with the         *)
(* subscriptions that have still to take it, over every sequence of        *)
(* operations of some length.                                              *)

Watchers == {"s", "t"}
H == INSTANCE HubBuffers WITH Subscribers <- Watchers

Mine(ref, s) == SelectSeq(ref.buffer, LAMBDA m : s \in m.needs)
(* s needs m no more, or nothing if m is <<>>. *)
Forget(ref, s, m) ==
    [ref EXCEPT !.buffer = SelectSeq(
        [i \in DOMAIN @ |-> IF m = <<>> \/ @[i] = Head(m) THEN [@[i] EXCEPT !.needs = @ \ {s}]
                            ELSE @[i]],
        LAMBDA x : x.needs # {})]

(* What the operations lead to, in the hub and in the reference. *)
HubSteps(g, capacity, slides, Pub(_, _), Slide(_), Sub(_, _), Poll(_, _), Unsub(_, _)) ==
    LET h == g.hub
        ref == g.ref
        Took(s) == IF Mine(ref, s) = <<>> THEN <<>> ELSE <<Head(Mine(ref, s)).value>>
    IN  {[g EXCEPT !.n = @ + 1, !.hub = Pub(h, g.n),
                   !.ref.buffer = IF Len(@) = capacity \/ ref.live = {} THEN @
                                  ELSE Append(@, [value |-> g.n, needs |-> ref.live])]}
        \cup {[g EXCEPT !.hub = Slide(h), !.ref.buffer = IF @ = <<>> THEN @ ELSE Tail(@)] :
                 x \in {x \in {TRUE} : slides}}
        \cup {[g EXCEPT !.hub = Sub(h, s), !.ref.live = @ \cup {s}, !.made = @ \cup {s}] :
                 s \in Watchers \ g.made}
        \cup {[g EXCEPT !.hub = Unsub(h, s), !.ref = [Forget(ref, s, <<>>) EXCEPT !.live = @ \ {s}]] :
                 s \in ref.live}
        \cup {LET m == Mine(ref, s) IN
              [g EXCEPT !.hub = Poll(h, s).hub, !.ok = Poll(h, s).got = Took(s),
                        !.ref = IF m = <<>> THEN ref ELSE Forget(ref, s, m)] : s \in g.made}

Explored(new, capacity, slides, depth, Pub(_, _), Slide(_), Sub(_, _), Poll(_, _), Unsub(_, _)) ==
    LET first == [hub |-> new, ref |-> [buffer |-> <<>>, live |-> {}], made |-> {}, n |-> 0,
                  ok |-> TRUE]
        after[n \in 0 .. depth] ==
            IF n = 0 THEN {first}
            ELSE UNION {HubSteps(g, capacity, slides, Pub, Slide, Sub, Poll, Unsub) : g \in after[n - 1]}
    IN  UNION {after[n] : n \in 0 .. depth}

IsBuffer(reached, Size(_), SizeFor(_, _), EmptyFor(_, _)) ==
    \A g \in reached :
        /\ g.ok
        /\ Size(g.hub) = Len(g.ref.buffer)
        /\ \A s \in Watchers : /\ SizeFor(g.hub, s) = Len(Mine(g.ref, s))
                               /\ EmptyFor(g.hub, s) <=> Mine(g.ref, s) = <<>>

(* hub.ts: every value goes once to each subscription that was there when  *)
(* it was published, in order, and frees its place with the last of them,  *)
(* whatever slides and whoever leaves; only the single slot must not slide *)
(* (hub.ts:646 makes it give a value again).                               *)
ASSUME BuffersBroadcast ==
    /\ IsBuffer(Explored(H!Ring(2), 2, TRUE, 7, H!RingPublish, H!RingSlide, H!RingSubscribe,
                         H!RingPoll, H!RingUnsubscribe),
                H!RingSize, H!RingSizeFor, H!RingIsEmptyFor)
    /\ IsBuffer(Explored(H!SingleSlot, 1, FALSE, 8, H!SinglePublish, H!SingleSlide,
                         H!SingleSubscribe, H!SinglePoll, H!SingleUnsubscribe),
                H!SingleSize, H!SingleSizeFor, H!SingleIsEmptyFor)
    /\ IsBuffer(Explored(H!Unbounded, 100, TRUE, 6, H!UnboundedPublish, H!UnboundedSlide,
                         H!UnboundedSubscribe, H!UnboundedPoll, H!UnboundedUnsubscribe),
                H!UnboundedSize, H!UnboundedSizeFor, H!UnboundedIsEmptyFor)

(* BoundedHubSingle.slide (hub.ts:603): the slot that slides loses its     *)
(* value but not the place of who had not taken it: of two subscriptions   *)
(* one may take the next value twice, and the other never does.            *)
ASSUME SlidingSlotRepeats ==
    LET new == H!SingleSubscribe(H!SingleSubscribe(H!SingleSlot, "s"), "t")
        slid == H!SinglePublish(H!SingleSlide(H!SinglePublish(new, 1)), 2)
        once == H!SinglePoll(slid, "s")
        twice == H!SinglePoll(once.hub, "s")
    IN  once.got = <<2>> /\ twice.got = <<2>> /\ H!SinglePoll(twice.hub, "t").got = <<>>

(* BoundedHubPow2.publishAll (hub.ts:435): of the elements that do not fit *)
(* it gives back the last one that did too, so the strategy sees it again. *)
ASSUME PublishAllGivesBackOneTooMany ==
    \A n \in 0 .. 4 :
        LET h == H!RingSubscribe(H!Ring(2), "s")
            values == [i \in 1 .. n |-> i]
            done == H!RingPublishAll(h, values)
        IN  /\ H!RingPollUpTo(done.hub, "s", 4).got = SubSeq(values, 1, Min({n, 2}))
            /\ done.rest = IF n = 0 THEN <<>> ELSE SubSeq(values, Min({n, 2}), n)

-----------------------------------------------------------------------------
(* Fibers: their refs, supervisors and ids, and fibers made of fibers.     *)

LOCAL C == INSTANCE Cause
Fs == INSTANCE Fibers WITH
         Bits <- {"Interruption", "WindDown", "OpSupervision"},
         Interruption <- "Interruption", WindDown <- "WindDown",
         FailWith <- C!FailWith, Die <- C!Die, InterruptedBy <- C!InterruptedBy,
         Sequential <- C!Sequential, Parallel <- C!Parallel, Failures <- C!Failures,
         IsInterrupted <- C!IsInterrupted, FlatMapCause <- C!FlatMapCause, Values <- Any

(* A parent, its child and its grandchild; what each may set a ref to.     *)
LOCAL P == [id |-> 1, start |-> 5]
LOCAL Ch == [id |-> 2, start |-> 5]
LOCAL G == [id |-> 3, start |-> 6]
LOCAL Keep == <<>>
LOCAL Settings(ref) ==
    {Keep} \cup {<<v>> : v \in IF ref.kind = "set" THEN SUBSET {1, 2} ELSE 0 .. 2}
LOCAL ValueRef == Fs!MakeRef("v", 0)
LOCAL SetRef == Fs!MakeHashSetRef("s", {1})
LOCAL Set(refs, fiber, ref, choice) ==
    IF choice = Keep THEN refs ELSE Fs!UpdatedAs(refs, fiber, ref, choice[1])
LOCAL Or(choice, value) == IF choice = Keep THEN value ELSE choice[1]
Merge3(ref, base, mine, theirs) ==
    IF ref.kind = "set" THEN (mine \cup (theirs \ base)) \ (base \ theirs)
    ELSE IF theirs = base THEN mine ELSE theirs

(* fiberRefs.ts, forkAs and joinAs: whoever sets a ref before and after a  *)
(* fork, a join is the three-way merge of the two values against the value *)
(* at the fork, through a grandchild too.                                  *)
ASSUME JoinsMerge ==
    \A ref \in {ValueRef, SetRef} : \A c0, c1, c2, c3, c4 \in Settings(ref) :
        LET p0 == Set(<<>>, P, ref, c0)
            child == Set(Fs!ForkAs(p0, Ch), Ch, ref, c2)
            grand == Set(Fs!ForkAs(child, G), G, ref, c3)
            joined == Fs!JoinAs(Set(child, Ch, ref, c4), Ch, grand)
            atFork == Or(c0, ref.initial)
            atFork2 == Or(c2, atFork)
            theirs == Merge3(ref, atFork2, Or(c4, atFork2), Or(c3, atFork2))
        IN  /\ Fs!GetOrDefault(joined, ref) = theirs
            /\ Fs!GetOrDefault(Fs!JoinAs(Set(p0, P, ref, c1), P, joined), ref)
                   = Merge3(ref, atFork, Or(c1, atFork), theirs)

(* The same where a clock that stepped back makes a child look older than  *)
(* its parent: the value at the fork is not found, and the ref's initial   *)
(* value stands for it.                                                    *)
ASSUME OlderChildrenMergeWithInitial ==
    \A ref \in {ValueRef, SetRef} : \A c0, c1, c2 \in Settings(ref) \ {Keep} :
        LET older == [id |-> 2, start |-> 4]
            p0 == Set(<<>>, P, ref, c0)
            child == Set(Fs!ForkAs(p0, older), older, ref, c2)
        IN  Fs!GetOrDefault(Fs!JoinAs(Set(p0, P, ref, c1), P, child), ref)
                = Merge3(ref, ref.initial, c1[1], c2[1])

(* joinAs: a ref that a fiber inherited and deletes after it forked comes   *)
(* back with a child that never touched it, unless it had its initial      *)
(* value; one that the fiber had set itself does not.                      *)
ASSUME DeletedComesBack ==
    \A setter \in {P, [id |-> 0, start |-> 5]}, value \in 0 .. 2 :
        LET p0 == Fs!ForkAs(Set(<<>>, setter, ValueRef, <<value>>), P)
            after == Fs!JoinAs(Fs!DeleteRef(p0, ValueRef), P, Fs!ForkAs(p0, Ch))
        IN  Fs!GetOption(after, ValueRef)
                = IF setter = P \/ value = 0 THEN Fs!None ELSE Fs!Some(value)

(* joinAs twice (Fiber.join of one fiber by two calls): the child's change *)
(* is made again, over what the parent set in between.                     *)
ASSUME JoinedAgain ==
    \A c0, c1, c2 \in 0 .. 2 :
        LET p0 == Set(<<>>, P, ValueRef, <<c0>>)
            child == Set(Fs!ForkAs(p0, Ch), Ch, ValueRef, <<c1>>)
            once == Fs!JoinAs(p0, P, child)
        IN  /\ Fs!JoinAs(once, P, child) = once
            /\ Fs!GetOrDefault(Fs!JoinAs(Set(once, P, ValueRef, <<c2>>), P, child), ValueRef)
                   = IF c1 = c0 THEN c2 ELSE c1

(* core.ts, forkScopeOverride and interruptedCause: a child starts without *)
(* the value and gives none back; but a parent that never had it then has  *)
(* the initial value (test/FiberRefs.ts "interruptedCause").               *)
ASSUME OwnRefsStayOwn ==
    LET ref == Fs!MakeOwnRef("own", 0) IN
    \A c0, c1 \in {Keep, <<0>>, <<1>>, <<2>>} :
        LET p0 == Set(<<>>, P, ref, c0)
            child == Fs!ForkAs(p0, Ch)
            joined == Fs!JoinAs(p0, P, Set(child, Ch, ref, c1))
        IN  /\ Fs!GetOrDefault(child, ref) = 0
            /\ Fs!GetOrDefault(joined, ref) = Or(c0, 0)
            /\ c0 = Keep /\ c1 \in {<<1>>, <<2>>} => Fs!GetOption(joined, ref) = Fs!Some(0)

(* fiberRefs/patch.ts: the patch between the refs of two fibers gives the  *)
(* one the values of the other, and only them.                             *)
ASSUME RefsPatchesApply ==
    LET Both(a, b) == Set(Set(<<>>, P, ValueRef, a), Ch, SetRef, b) IN
    \A a, a2 \in Settings(ValueRef), b, b2 \in Settings(SetRef) :
        LET old == Both(a, b)
            new == Both(a2, b2)
            got == Fs!RefsPatch(Fs!RefsDiff(old, new), G, old)
        IN  /\ DOMAIN got = DOMAIN new
            /\ \A ref \in DOMAIN new : Fs!GetOption(got, ref) = Fs!GetOption(new, ref)

(* fiberRuntime.ts, inheritAll: whatever flags the two fibers have, a      *)
(* fiber's Interruption and WindDown are not changed by the child it       *)
(* joins, and the flag that the child changed is.                          *)
ASSUME FlagsAreInherited ==
    LET ref == Fs!MakeFlagsRef("flags", {})
        Words == SUBSET {"Interruption", "WindDown", "OpSupervision"}
    IN  \A before, now, theirs \in Words :
            LET p0 == Fs!UpdatedAs(<<>>, P, ref, before)
                child == Fs!UpdatedAs(Fs!ForkAs(p0, Ch), Ch, ref, theirs)
                after == Fs!InheritAll(Fs!UpdatedAs(p0, P, ref, now), P, now, child, ref).flags
            IN  /\ after \ {"OpSupervision"} = now \ {"OpSupervision"}
                /\ LET Has(word) == "OpSupervision" \in word IN
                   Has(after) <=> Has(IF Has(before) # Has(theirs) THEN theirs ELSE now)

(* fiberId.ts: an option of an id stands for the same fibers, in whatever  *)
(* order the hash set gives them; but isNone has an answer for ids of no   *)
(* fiber only: it asks itself about every runtime id, that one included.   *)
ASSUME IdsOfFibers ==
    LET leaves == {Fs!NoId, Fs!RuntimeId(1, 5), Fs!RuntimeId(2, 5)}
        pairs == {Fs!CompositeId(a, b) : a \in leaves, b \in leaves}
        ids == leaves \cup pairs \cup {Fs!CompositeId(a, b) : a \in pairs, b \in leaves}
    IN  \A id \in ids :
            /\ \A option \in Fs!IdToOption(id) :
                   IF option = Fs!None THEN Fs!ToSetOfIds(id) = {}
                   ELSE Fs!ToSetOfIds(option.value) = Fs!ToSetOfIds(id)
            /\ Fs!IsNoneAnswers(id) = {} <=> Fs!ToSetOfIds(id) # {}
            /\ \A that \in ids :
                   Fs!Ids(Fs!CombineIds(id, that)) = Fs!Ids(id) \cup Fs!Ids(that)

(* supervisor/patch.ts: the patch between two supervisors gives the one    *)
(* the members of the other, so that both are told of the same fibers.     *)
ASSUME SupervisorsPatch ==
    LET leaves == {Fs!NoSupervisor, Fs!Const("c"), Fs!Track("t"), Fs!FibersIn("u"),
                   Fs!Proxy(Fs!Track("t"), "f")}
        pairs == {Fs!ZipSupervisors(a, b) : a \in leaves, b \in leaves}
        deep == {Fs!ZipSupervisors(a, b) : a \in pairs, b \in {Fs!Track("t"), Fs!FibersIn("u")}}
        supervisors == leaves \cup pairs \cup deep
        nobody == [t \in {"t", "u"} |-> {}]
    IN  \A old, new \in supervisors :
            LET got == Fs!SupervisorPatch(Fs!SupervisorDiff(old, new), old) IN
            /\ Fs!ToSupervisors(got) = Fs!ToSupervisors(new)
            /\ Fs!OnStart(got, "fiber", nobody) = Fs!OnStart(new, "fiber", nobody)
            /\ Fs!OnEnd(got, "fiber", Fs!OnStart(new, "fiber", nobody)) = nobody

(* Fibers to combine: running, ended, never to end.                        *)
LOCAL Exits_ == {Fs!Success("a"), Fs!ExitFail("e"), Fs!ExitDie("d")}
LOCAL Running(name, exits) ==
    [ids |-> {Fs!RuntimeId(1, 5)}, await |-> {}, children |-> Fs!Said(<<>>, TRUE),
     inheritAll |-> Fs!Said(<<name>>, TRUE), poll |-> Fs!None,
     interruptAsFork |-> Fs!Said(<<name>>, TRUE)]
LOCAL Some_ == {Running("r", Exits_), Fs!NeverFiber} \cup {Fs!DoneFiber(exit) : exit \in Exits_}

(* fiber.ts, orElse and effect/circular.ts, zipWith: orElse, polled or     *)
(* awaited, waits for both fibers though the first has succeeded, unless   *)
(* it is only polled; zip, awaited, ends with the first failure, and       *)
(* polled not before both have ended; interrupting orElse in the           *)
(* background waits for the fibers, of which zip does not.                 *)
ASSUME FibersOfTwo ==
    \A a, b \in Some_ :
        LET orElse == Fs!OrElseFiber(a, b)
            zip == Fs!ZipFiber(a, b, C!Empty)
            Failed(fiber) == fiber.await # {} /\ \A exit \in fiber.await : ~Fs!IsSuccess(exit)
            Ended(fiber) == fiber.await # {}
        IN  /\ Ended(orElse) <=> (Ended(a) /\ Ended(b))
            /\ Ended(orElse) => orElse.await = {orElse.poll.value}
            /\ orElse.poll # Fs!None <=> (Ended(a) /\ (Failed(a) => Ended(b)))
            /\ Ended(zip) <=> (Failed(a) \/ Failed(b) \/ (Ended(a) /\ Ended(b)))
            /\ zip.poll # Fs!None <=> (Ended(a) /\ Ended(b))
            /\ orElse.interruptAsFork.returns
                   <=> /\ a.interruptAsFork.returns /\ Ended(a)
                       /\ b.interruptAsFork.returns /\ Ended(b)
            /\ zip.interruptAsFork.returns
                   <=> (a.interruptAsFork.returns /\ b.interruptAsFork.returns)

(* fiberRuntime.ts, fiberCollectAll: what a poll gives tells what await    *)
(* gives: the values of all in their order, or a failure.                  *)
ASSUME CollectedFibers ==
    \A fibers \in Lists(Some_, 3) :
        LET all == Fs!CollectAllFibers(fibers, C!Empty)
            ended == \A i \in DOMAIN fibers : fibers[i].poll # Fs!None
        IN  /\ all.poll # Fs!None <=> ended
            /\ ended => \A exit \in all.await : Fs!IsSuccess(exit) <=> Fs!IsSuccess(all.poll.value)
            /\ ended /\ Fs!IsSuccess(all.poll.value)
                   => all.await = {all.poll.value}
                        /\ all.poll.value.value = [i \in DOMAIN fibers |-> "a"]
            /\ ~ended /\ all.await # {}
                   => \E i \in DOMAIN fibers : fibers[i].poll # Fs!None

-----------------------------------------------------------------------------
(* Flags.  What the theorems of Flags say, and what does not hold.         *)

LOCAL Bits_ == 0 .. 2
Fl == INSTANCE Flags WITH Bits <- Bits_
ASSUME FlagPatches ==
    \A p, q \in Fl!Patches, word \in Fl!Words :
        LET then == Fl!Apply(q, Fl!Apply(p, word)) IN
        /\ Fl!Apply(p, word) = (word \ Fl!DisabledSet(p)) \cup Fl!EnabledSet(p)
        /\ Fl!Apply(Fl!AndThen(p, q), word)
               = then \cup (Fl!EnabledSet(p) \cap Fl!DisabledSet(q))
        (* both enables what both enable, and disables what else they touch; *)
        (* either disables what either touches and neither enables.          *)
        /\ Fl!Apply(Fl!Both(p, q), word)
               = (word \ (p.active \cup q.active)) \cup (Fl!EnabledSet(p) \cap Fl!EnabledSet(q))
        /\ Fl!Apply(Fl!Either(p, q), word)
               = (word \ (p.active \cup q.active)) \cup Fl!EnabledSet(p) \cup Fl!EnabledSet(q)
        /\ Fl!Apply(Fl!Inverse(p), Fl!Apply(p, word)) = word \ p.active
        /\ \A flag \in Bits_ :
               Fl!Apply(Fl!Exclude(flag, p), word) \ {flag} = Fl!Apply(p, word) \ {flag}

-----------------------------------------------------------------------------
(* Configuration: texts of one and of two parts, and one that is no number; *)
(* only texts spread, to their characters, which "c" stands for.            *)

Cf == INSTANCE Config WITH
         Values <- Any, Undefined <- Missing, Spread <- LAMBDA v : IF v \in {"one", "two"} THEN <<>> ELSE << <<"c">> >>
LOCAL Texts == {<<"1">>, <<"1", "2">>, <<"x">>}
LOCAL Paths == {<<"a">>, <<"b">>, <<"n", "a">>, <<"n", "b">>}
LOCAL Maps == UNION {[keys -> Texts] : keys \in SUBSET Paths}
LOCAL Numbers == ("1" :> "one") @@ ("2" :> "two")
LOCAL Nth == <<"one", "two">>
LOCAL Number(name) == Cf!Parsed(<<name>>, Numbers)
LOCAL Pair == Cf!Struct(<< <<"a", Number("a")>>, <<"b", Number("b")>> >>)

(* configError.ts: the reducer's two stacks compute what recursion would. *)
ASSUME ReducersRecurse ==
    LET leaves == {Cf!InvalidData(<<>>), Cf!MissingData(<<>>)}
        pairs == {Cf!And(a, b) : a \in leaves, b \in leaves}
                     \cup {Cf!Or(a, b) : a \in leaves, b \in leaves}
        all == leaves \cup pairs
    IN  \A a, b \in all :
            /\ Cf!ReduceMissing(Cf!And(a, b)) = Cf!IsMissingDataOnly(Cf!And(a, b))
            /\ Cf!ReduceMissing(Cf!Or(a, b)) = Cf!IsMissingDataOnly(Cf!Or(a, b))

(* configProvider.ts: a struct is loaded exactly if every field is there,  *)
(* each text is one of numbers, and the texts have the same number of      *)
(* parts; then its fields are the first parts, and only a list of structs  *)
(* sees the others.                                                        *)
ASSUME StructsLoad ==
    \A map \in Maps :
        LET flat == Cf!FromMap(map)
            one == Cf!Load(flat, Pair)
            list == Cf!Load(flat, Cf!ChunkOf(Pair, <<>>))
            good == /\ {<<"a">>, <<"b">>} \subseteq DOMAIN map
                    /\ \A key \in {<<"a">>, <<"b">>} : map[key] # <<"x">>
                    /\ Len(map[<<"a">>]) = Len(map[<<"b">>])
        IN  /\ Cf!IsRight(one) <=> good
            /\ Cf!IsRight(list) <=> good
            /\ good => one.value = [key \in {"a", "b"} |-> "one"]
                       /\ list.value = [i \in 1 .. Len(map[<<"a">>]) |-> [key \in {"a", "b"} |-> Nth[i]]]

(* A text with the sequence delimiter in it is cut at it even where a      *)
(* single value is asked for: a string or a secret of two parts is its     *)
(* first part (configProvider.ts, parsePrimitive).                         *)
ASSUME OnlyFirstPart ==
    \A map \in Maps :
        LET got == Cf!Load(Cf!FromMap(map), Cf!Text(<<"a">>, {"1", "2", "x"})) IN
        /\ Cf!IsRight(got) <=> <<"a">> \in DOMAIN map
        /\ Cf!IsRight(got) => got.value = map[<<"a">>][1]

(* A provider nested at a name gives what the same description nested at   *)
(* the name gives without (test/ConfigProvider.ts "nested").               *)
ASSUME NestingAgrees ==
    \A map \in Maps :
        \A config \in {Number("a"), Pair, Cf!ChunkOf(Pair, <<>>), Cf!Table(Cf!Parsed(<<>>, Numbers), <<>>),
                       Cf!WithDefault(Pair, <<>>), Cf!Validate(Number("b"), [n \in Any |-> n = "two"])} :
            LET inside == Cf!Load(Cf!NestedFlat("n", Cf!FromMap(map)), config)
                outside == Cf!Load(Cf!FromMap(map), Cf!Nested("n", config))
            IN  IF Cf!IsRight(inside) THEN outside = inside ELSE Cf!IsLeft(outside)

(* withDefault hides data that is missing, never data that is invalid;     *)
(* but a description that tried both, orElse, hides the invalid too, and   *)
(* Config.fail counts as missing.                                          *)
ASSUME DefaultsHideMissing ==
    \A map \in Maps :
        LET flat == Cf!FromMap(map)
            Bad(key) == key \in DOMAIN map /\ map[key] = <<"x">>
            Absent(key) == key \notin DOMAIN map
            a == <<"a">>
            b == <<"b">>
            plain == Cf!Load(flat, Cf!WithDefault(Number("a"), "default"))
            both == Cf!Load(flat, Cf!WithDefault(Cf!ZipPair(Number("a"), Number("b")), "default"))
            either == Cf!Load(flat, Cf!WithDefault(Cf!OrElse(Number("a"), Number("b")), "default"))
        IN  /\ plain = IF Absent(a) THEN Cf!Right("default")
                       ELSE IF Bad(a) THEN Cf!Left(Cf!InvalidData(a)) ELSE Cf!Right("one")
            /\ Bad(a) \/ Bad(b) => ~Cf!IsRight(both)
            /\ Bad(a) /\ Absent(b) => either = Cf!Right("default")
            /\ Cf!Load(flat, Cf!WithDefault(Cf!Fail, "default")) = Cf!Right("default")

(* orElse of providers: each path is taken from the first provider that    *)
(* gives it, also where the other one's data is invalid; the children are  *)
(* those of both.                                                          *)
ASSUME ProvidersFallBack ==
    LET small == UNION {[keys -> {<<"1">>, <<"2">>, <<"x">>}] : keys \in SUBSET {<<"a">>, <<"b">>}}
        Good(map, key) == key \in DOMAIN map /\ map[key] # <<"x">>
    IN  \A one, two \in small :
            LET flat == Cf!OrElseFlat(Cf!FromMap(one), Cf!FromMap(two))
                Of(key) == IF Good(one, key) THEN Numbers[one[key][1]] ELSE Numbers[two[key][1]]
                table == Cf!Load(flat, Cf!Table(Cf!Parsed(<<>>, Numbers), <<>>))
                keys == DOMAIN one \cup DOMAIN two
                good == \A key \in keys : Good(one, key) \/ Good(two, key)
            IN  /\ Cf!IsRight(table) <=> good
                /\ good => table.value = [name \in {key[1] : key \in keys} |-> Of(<<name>>)]

(* A list of tables has as many as the first key's list has elements: what *)
(* another key has more is dropped, what it has less is undefined.         *)
ASSUME TablesFollowFirstKey ==
    \A texts \in [{<<"a">>, <<"b">>} -> {<<"1">>, <<"1", "2">>}] :
        LET list == Cf!Load(Cf!FromMap(texts),
                            Cf!ChunkOf(Cf!Table(Cf!Parsed(<<>>, Numbers), <<>>), <<>>))
        IN  \E first \in {"a", "b"} :
                /\ Len(list.value) = Len(texts[<<first>>])
                /\ \A i \in DOMAIN list.value : \A key \in {"a", "b"} :
                       list.value[i][key] = IF i <= Len(texts[<<key>>]) THEN Nth[i] ELSE Missing

(* config.ts, tuple: the first value is spread and not kept, so that a     *)
(* tuple that starts with a number dies and one that starts with a text    *)
(* holds its characters.                                                   *)
ASSUME TuplesSpreadTheFirst ==
    LET flat == Cf!FromMap([key \in {<<"a">>, <<"b">>} |-> <<"1">>])
        text == Cf!Text(<<"a">>, {"1"})
    IN  /\ Cf!Load(flat, Cf!Tuple(<<Number("a"), Number("b")>>)) = Cf!Dies
        /\ Cf!Load(flat, Cf!Tuple(<<text, Number("b")>>)) = Cf!Right(<<"c", "one">>)

-----------------------------------------------------------------------------
(* Parallel combinators.                                                   *)

Px == INSTANCE Parallels WITH
         Unbounded <- 0, StripFailures <- C!StripFailures,
         FailWith <- C!FailWith, Die <- C!Die, InterruptedBy <- C!InterruptedBy,
         Sequential <- C!Sequential, Parallel <- C!Parallel, Failures <- C!Failures,
         IsInterrupted <- C!IsInterrupted, FlatMapCause <- C!FlatMapCause, Values <- Any

(* Three elements, each of which is good, fails or dies; and how many      *)
(* fibers run them.                                                        *)
LOCAL Elements == <<1, 2, 3>>
LOCAL Named == <<"1", "2", "3">>
LOCAL Names(list) == [i \in DOMAIN list |-> Named[list[i]]]
LOCAL Fates == [1 .. 3 -> {"yes", "no", "fail", "die"}]
LOCAL Fate(fates, a) ==
    CASE fates[a] \in {"yes", "no"} -> Px!Success(fates[a] = "yes")
      [] fates[a] = "fail" -> Px!ExitFail(Named[a])
      [] fates[a] = "die" -> Px!ExitDie(Named[a])
LOCAL Worded(fates, a) ==
    IF fates[a] \in {"yes", "no"} THEN Px!Success(fates[a]) ELSE Fate(fates, a)
LOCAL Having(fates, kinds) == SelectSeq(Elements, LAMBDA a : fates[a] \in kinds)
LOCAL Widths == {0, 1, 2}
LOCAL Errors(exits) == {C!Failures(exit.cause) : exit \in {x \in exits : ~Px!IsSuccess(x)}}

(* forEachPar, any number of fibers: a success has every result in the     *)
(* order of the elements; a failure has errors and defects of elements     *)
(* only, at least one and none twice; of unbounded fibers every such set   *)
(* of reasons can come about, in the elements' order.                      *)
ASSUME ForEachParGathers ==
    \A fates \in Fates, n \in Widths :
        LET exits == Px!ForEachPar(n, Elements, [a \in 1 .. 3 |-> Fate(fates, a)])
            wrong == ToSet(Names(Having(fates, {"fail", "die"})))
            Blamed(exit) == C!Failures(exit.cause) \o C!Defects(exit.cause)
        IN  IF wrong = {}
            THEN exits = {Px!Success([a \in 1 .. 3 |-> fates[a] = "yes"])}
            ELSE /\ \A exit \in exits :
                        /\ ~Px!IsSuccess(exit)
                        /\ Blamed(exit) # <<>> /\ IsInjective(Blamed(exit))
                        /\ ToSet(Blamed(exit)) \subseteq wrong
                 /\ n = 0 => {ToSet(Blamed(exit)) : exit \in exits} = SUBSET wrong \ {{}}

(* existsPar: without an error it tells whether there is one; with an      *)
(* error too, it may be found, and it may fail although it was found.  A   *)
(* defect never lets it say that there is none.                            *)
ASSUME ExistsParMayFail ==
    \A fates \in Fates, n \in Widths :
        LET exits == Px!ExistsPar(n, Elements, [a \in 1 .. 3 |-> Fate(fates, a)])
            found == Having(fates, {"yes"}) # <<>>
            fine == Having(fates, {"fail", "die"}) = <<>>
        IN  /\ Px!Success(FALSE) \in exits <=> fine /\ ~found
            /\ fine => exits = {Px!Success(found)}
            /\ n = 0 => (Px!Success(TRUE) \in exits <=> found)
            /\ n = 0 /\ Having(fates, {"fail"}) # <<>> => Errors(exits) # {}

(* filterPar and filterNotPar split the elements, in order. *)
ASSUME FilterParSplits ==
    \A fates \in [1 .. 3 -> {"yes", "no"}], n \in Widths :
        LET P1 == [a \in 1 .. 3 |-> Fate(fates, a)] IN
        /\ Px!FilterPar(n, Elements, P1) = {Px!Success(Having(fates, {"yes"}))}
        /\ Px!FilterNotPar(n, Elements, P1) = {Px!Success(Having(fates, {"no"}))}

(* The combinators that make results of failures lose no error, and only   *)
(* defects stop them: validateAllPar fails with the errors of all          *)
(* elements, partitionPar tells them apart, and collectAllSuccessesPar     *)
(* keeps every success, whatever happens to the others.                    *)
ASSUME ValidationIsComplete ==
    \A fates \in Fates, n \in Widths :
        LET F == [a \in 1 .. 3 |-> Worded(fates, a)]
            answers == Having(fates, {"yes", "no"})
            good == [i \in DOMAIN answers |-> fates[answers[i]]]
            bad == Names(Having(fates, {"fail"}))
            dies == Having(fates, {"die"}) # <<>>
            Only(exits, exit) == IF dies THEN \A x \in exits : ~Px!IsSuccess(x) /\ C!IsDie(x.cause)
                                 ELSE exits = {exit}
        IN  /\ Only(Px!PartitionPar(n, Elements, F), Px!Success(<<bad, good>>))
            /\ Only(Px!ValidateAllPar(n, Elements, F),
                    IF bad = <<>> THEN Px!Success(good) ELSE Px!ExitFail(bad))
            /\ Only(Px!ValidateAllParDiscard(n, Elements, F),
                    IF bad = <<>> THEN Px!Success("unit") ELSE Px!ExitFail(bad))
            /\ Px!CollectAllSuccessesPar(n, F) = {Px!Success(good)}

(* validateFirstPar succeeds if an element does; else it fails, and with   *)
(* unbounded fibers its errors are all of them.                            *)
ASSUME ValidateFirstFinds ==
    \A fates \in [1 .. 3 -> {"yes", "fail"}], n \in Widths :
        LET exits == Px!ValidateFirstPar(n, Elements, [a \in 1 .. 3 |-> Worded(fates, a)]) IN
        exits = IF Having(fates, {"yes"}) # <<>> THEN {Px!Success("yes")}
                ELSE {Px!ExitFail(Named)}

(* collectPar leaves out the elements that fail with none. *)
ASSUME CollectParLeavesOut ==
    \A fates \in [1 .. 3 -> {"yes", "fail"}], n \in Widths :
        Px!CollectPar(n, Elements, [a \in 1 .. 3 |-> IF fates[a] = "yes" THEN Px!Success(a)
                                                     ELSE Px!ExitFail(Px!None)])
            = {Px!Success(Having(fates, {"yes"}))}

(* reduceAllPar: the first value, zero, is one effect of the many, so that *)
(* the values meet in any order: for a function that is not commutative    *)
(* the result is not determined.                                           *)
ASSUME ReduceAllParShuffles ==
    LET exits == [a \in 1 .. 2 |-> Px!Success(<<a>>)] IN
    /\ Px!ReduceAllPar(0, exits, Px!Success(<<0>>), [acc \in Any, a \in Any |-> acc \o a])
           = {Px!Success(order) : order \in SetToSeqs({0, 1, 2})}
    /\ \A n \in Widths :
          Px!MergeAllPar(n, <<Px!Success(2), Px!Success(3)>>, 1, [acc \in Int, a \in Int |-> acc + a])
              = {Px!Success(6)}

(* structPar and tuplePar are collectAllPar under names. *)
ASSUME StructParNames ==
    \A fates \in Fates, n \in Widths :
        LET tuple == Px!TuplePar(n, [a \in 1 .. 3 |-> Fate(fates, a)])
            struct == Px!StructPar(n, <<3, 1, 2>>, [a \in 1 .. 3 |-> Fate(fates, a)])
        IN  /\ {exit \in tuple : Px!IsSuccess(exit)} = {exit \in struct : Px!IsSuccess(exit)}
            /\ Px!ForEachExec("parallel", Elements, [a \in 1 .. 3 |-> Fate(fates, a)]) = Px!TuplePar(0, [a \in 1 .. 3 |-> Fate(fates, a)])

(* zipPar and validatePar: validatePar always tells both failures, zipPar  *)
(* at least one; a race fails only with both, raceFirst with whoever ends  *)
(* first, so that a timeout may be late and never hides a failure.         *)
ASSUME TwoEffects ==
    LET ends == {Px!Success(1), Px!ExitFail("e"), Px!ExitDie("d")} IN
    \A one, two \in ends :
        LET both == Px!Success(<<1, 1>>)
            good == Px!IsSuccess(one) /\ Px!IsSuccess(two)
            Leaves(exit) == ToSet(C!Failures(exit.cause)) \cup ToSet(C!Defects(exit.cause))
            Told(exit) == IF Px!IsSuccess(exit) THEN {} ELSE Leaves(exit)
        IN  /\ Px!ValidatePar(one, two)
                   = IF good THEN {both}
                     ELSE {IF Px!IsSuccess(one) THEN two ELSE IF Px!IsSuccess(two) THEN one
                           ELSE Px!Failure(C!Parallel(one.cause, two.cause))}
            /\ IF good THEN Px!ZipPar(one, two) = {both}
               ELSE {Leaves(exit) : exit \in Px!ZipPar(one, two)}
                        = {m \in {Told(one), Told(two), Told(one) \cup Told(two)} : m # {}}
            /\ \A exit \in Px!RaceEither(one, two) :
                   ~Px!IsSuccess(exit) => ~Px!IsSuccess(one) /\ ~Px!IsSuccess(two)
                                          /\ Leaves(exit) = Told(one) \cup Told(two)
            /\ Px!RaceFirst(one, two) = {one, two}
            /\ Px!TimeoutFail(one, "late") = {one, Px!ExitFail("late")}


-----------------------------------------------------------------------------
(* The test clock.                                                         *)

TC == INSTANCE TestClock WITH NoTime <- Missing

(* Fiber i sleeps for the i-th duration. *)
LOCAL Sleeping(durations) ==
    FoldLeft(LAMBDA clock, i : TC!Sleep(clock, i, durations[i]), TC!NewClock,
             [i \in DOMAIN durations |-> i])
LOCAL WhoWoke(clock) == [i \in DOMAIN clock.woken |-> clock.woken[i].who]

(* testClock.ts, adjust: "any effects that were scheduled to occur on or   *)
(* before the new time will be run in order": each wakes at its own time,  *)
(* those of one time from the last that went to sleep to the first.        *)
ASSUME SleepersWakeInOrder ==
    \A durations \in Lists(1 .. 3, 4), millis \in 0 .. 3 :
        LET clock == TC!Adjust(Sleeping(durations), millis)
            due == {i \in DOMAIN durations : durations[i] <= millis}
        IN  /\ clock.instant = millis
            /\ ToSet(WhoWoke(clock)) = due /\ Len(clock.woken) = Cardinality(due)
            /\ \A i \in DOMAIN clock.woken : clock.woken[i].at = durations[clock.woken[i].who]
            /\ \A i, j \in DOMAIN clock.woken :
                  i < j => LET a == clock.woken[i] b == clock.woken[j] IN
                           a.at < b.at \/ (a.at = b.at /\ a.who > b.who)
            /\ {clock.sleeps[i].who : i \in DOMAIN clock.sleeps} = DOMAIN durations \ due

(* Adjusting twice is adjusting by the sum. *)
ASSUME AdjustsAddUp ==
    \A durations \in Lists(1 .. 3, 3), a, b \in 0 .. 2 :
        LET twice == TC!Adjust(TC!Adjust(Sleeping(durations), a), b)
            once == TC!Adjust(Sleeping(durations), a + b)
        IN  twice.instant = once.instant /\ twice.woken = once.woken

(* But only one after the other: run goes on with the end that it computed *)
(* in its first round, so that an adjust of another fiber between its      *)
(* rounds is undone, and the clock goes back.                              *)
ASSUME AdjustsUndoEachOther ==
    \A sleep, a, b \in 1 .. 3 :
        sleep <= a =>
            LET first == TC!Round(Sleeping(<<sleep>>), [instant \in Int |-> instant + a])
                other == TC!Adjust(first.clock, b)
                last == TC!Round(other, [instant \in Int |-> first.end])
            IN  other.instant = sleep + b /\ last.clock.instant = a

(* save keeps the sleepers with the time: restoring it forgets whoever     *)
(* went to sleep since, for good, and lists whoever woke since again.      *)
ASSUME RestoringForgetsSleepers ==
    \A before, since \in 1 .. 3 :
        LET saved == TC!Save(Sleeping(<<before>>))
            clock == TC!Restore(TC!Adjust(TC!Sleep(Sleeping(<<before>>), 2, since), 1), saved)
        IN  /\ TC!Sleeps(clock) = <<before>>
            /\ since > 1 => 2 \notin ToSet(WhoWoke(TC!Adjust(clock, 9)))

(* A test that moved its clock once is never told that it sleeps without   *)
(* moving it, and told at most once that a fiber does not suspend.         *)
ASSUME WarningsEnd ==
    \A steps \in Lists({"sleep", "warn", "suspend", "suspended", "slow"}, 4) :
        LET step(clock, name) ==
                CASE name = "sleep" -> TC!Sleep(clock, 1, 5)
                  [] name = "warn" -> TC!Warn(clock)
                  [] name = "suspend" -> TC!SuspendedWarningStart(clock)
                  [] name = "suspended" -> TC!SuspendedWarningDone(clock)
                  [] name = "slow" -> TC!SuspendedWarn(clock)
            run(clock) == FoldLeft(step, clock, steps)
            told == run([TC!NewClock EXCEPT !.suspended = "done"])
        IN  /\ "sleeping" \notin run(TC!Adjust(TC!NewClock, 1)).warned
            /\ told.suspended = "done" /\ "running" \notin told.warned

(* awaitSuspended is content with four equal looks at the fibers, none of  *)
(* them running; what they did in between it does not see.                 *)
ASSUME SettledFibersMayRun ==
    LET Statuses == {[tag |-> "done"], [tag |-> "running"]}
                        \cup {[tag |-> "suspended", blockingOn |-> on] : on \in {"x", "y"}}
        moments == [1 .. 5 -> [{1} -> Statuses]]
    IN  /\ \A ms \in moments :
              TC!Settled(ms, 1) <=> \A i \in 1 .. 4 : ms[i] = ms[1] /\ ms[i][1].tag # "running"
        /\ \E ms \in moments : ms[3][1].tag = "running" /\ TC!Settled(<<ms[1], ms[2], ms[4], ms[5]>>, 1)

(* testAnnotation.ts, compose: annotations of one kind add up in any       *)
(* grouping, but a number after fibers forgets the fibers.                 *)
ASSUME FibersAreForgotten ==
    LET left(n) == [kind |-> "left", count |-> n]
        right(s) == [kind |-> "right", fibers |-> s]
        All == {left(n) : n \in 0 .. 2} \cup {right(<<{f}>>) : f \in {1, 2}}
    IN  /\ \A a, b, c \in All :
              a.kind = b.kind /\ b.kind = c.kind =>
                  TC!Compose(TC!Compose(a, b), c) = TC!Compose(a, TC!Compose(b, c))
        /\ \A f \in {1, 2} :
              LET both == TC!Compose(right(<<{f}>>), left(0)) IN
              TC!SupervisedFibers(both, 3) = {} /\ TC!SupervisedFibers(right(<<{f, 3}>>), 3) = {f}

-----------------------------------------------------------------------------
(* Deferreds and caches.                                                   *)

Cc == INSTANCE Caches WITH Nothing <- Missing

(* core.ts: whatever the order of awaits, interrupts and completions, the  *)
(* first completion wins and says so; it calls every joiner that waits,    *)
(* once and with its effect, and a later await gets that effect at once.   *)
ASSUME DeferredsCompleteOnce ==
    \A steps \in UNION {[1 .. n -> {"1", "2", "out", "a", "b", "c"}] : n \in 0 .. 5} :
        (\A i, j \in DOMAIN steps : steps[i] = steps[j] /\ steps[i] \in {"1", "2"} => i = j) =>
        LET does(d, name) ==
                CASE name \in {"1", "2"} -> Cc!Await(d, name)
                  [] name = "out" -> Cc!Does(Cc!InterruptJoiner(d, "1"), Missing, <<>>)
                  [] name \in {"a", "b"} -> Cc!CompleteExit(d, name)
                  [] name = "c" -> Cc!UnsafeDone(d, Cc!ExitOf("c"))
            next(state, name) ==
                LET done == does(state.deferred, name) IN
                [deferred |-> done.deferred, called |-> state.called \o done.called,
                 results |-> Append(state.results, done.result)]
            last == FoldLeft(next, [deferred |-> Cc!DeferredMake, called |-> <<>>, results |-> <<>>],
                             steps)
            ends == {i \in DOMAIN steps : steps[i] \in {"a", "b", "c"}}
            waits(i, who) == i \in DOMAIN steps /\ steps[i] = who /\ \A e \in ends : i < e
            left(i, who) == who = "1" /\ \E j \in DOMAIN steps :
                                  j > i /\ steps[j] = "out" /\ \A e \in ends : j < e
        IN  /\ Cc!IsDone(last.deferred) <=> (ends # {})
            /\ ends # {} => Cc!Poll(last.deferred) = Cc!ExitOf(steps[Min(ends)])
            /\ \A i \in DOMAIN steps :
                  steps[i] \in {"a", "b"} => (last.results[i] <=> i = Min(ends))
            /\ IsInjective(last.called)
            /\ ToSet(last.called) =
                  {who \in {"1", "2"} : ends # {} /\ \E i \in DOMAIN steps : waits(i, who) /\ ~left(i, who)}
            /\ \A i \in DOMAIN steps :
                  steps[i] \in {"1", "2"} =>
                      last.results[i] = (IF \E e \in ends : e < i THEN Cc!ExitOf(steps[Min(ends)])
                                         ELSE Missing)

(* Calls i of a cached effect read the clock at read[i] and get the lock   *)
(* at got[i], in this order.                                               *)
LOCAL Calls(read, timeToLive) ==
    LET cache[n \in 0 .. Len(read)] ==
            IF n = 0 THEN Cc!EmptyCache
            ELSE Cc!GetCachedValue(cache[n - 1], read[n], timeToLive, n)
    IN  [n \in DOMAIN read |-> cache[n].exit]

(* circular.ts, getCachedValue: a call gets what a call that started less  *)
(* than the time to live before it, or after it, computed; one that waited *)
(* for the lock judges by the time it read before, so that it may get a    *)
(* value that expired while it waited.                                     *)
ASSUME CachedValuesAreRecent ==
    \A read \in Lists(0 .. 4, 4), timeToLive \in 0 .. 3 :
        LET got == Calls(read, timeToLive) IN
        \A n \in DOMAIN read :
            /\ got[n] <= n
            /\ got[n] = n \/ read[n] < read[got[n]] + timeToLive
            /\ n > 1 /\ got[n] = n => read[n] >= read[got[n - 1]] + timeToLive

(* A failure is cached like a value; invalidating forgets both.            *)
ASSUME FailuresAreCached ==
    \A exit \in {"success", "failure"}, time \in 0 .. 3 :
        LET cache == Cc!GetCachedValue(Cc!EmptyCache, 0, 3, exit) IN
        /\ Cc!GetCachedValue(cache, time, 3, "other").exit = (IF time < 3 THEN exit ELSE "other")
        /\ Cc!GetCachedValue(Cc!InvalidateCache(cache), time, 3, "other").exit = "other"

(* circular.ts, memoizeFunction: the first caller computes; if it ends     *)
(* before, every later caller gets the interruption, for good.             *)
ASSUME MemosMayStayInterrupted ==
    \A callers \in Lists({"p", "q"}, 3) \ {<<>>} :
        LET memo == FoldLeft(LAMBDA m, c : Cc!Memoized(m, "x", c), <<>>, callers)
            ended == Cc!Computed(Cc!CallerEnds(memo, "p"), "x", "value")
            exit == Cc!Poll(ended["x"].deferred).exit
        IN  exit = (IF callers[1] = "p" THEN "interrupted" ELSE "value")

(* A reloadable has open the resources of its value and no others, however *)
(* its reloads end.  A cached value that is refreshed leaves the resources *)
(* of every refresh to the outer scope, those of failed ones included.     *)
ASSUME RefreshesPileUp ==
    \A exits \in Lists({<<"success", 1>>, <<"failure", 2>>}, 3) :
        LET first == <<"success", 0>>
            reloaded == Cc!ReloadableAuto(Cc!ReloadableManual(first, 1), exits)
            refreshed == FoldLeft(LAMBDA c, n : Cc!CachedRefresh(c, exits[n], n + 1),
                                  Cc!CachedManual(first, 1), [n \in DOMAIN exits |-> n])
            won == {n \in DOMAIN exits : Cc!IsSuccess(exits[n])}
        IN  /\ reloaded.outer = {}
            /\ reloaded.inner = {IF won = {} THEN 1 ELSE Max(won) + 1}
            /\ refreshed.outer = {n + 1 : n \in DOMAIN exits}
            /\ refreshed.exit = reloaded.exit
            /\ refreshed.inner = (IF won = {} THEN {1} ELSE {})

(* And it is refreshed automatically only until a refresh fails. *)
ASSUME FailedRefreshesEndAuto ==
    \A exits \in Lists({<<"success", 1>>, <<"failure", 2>>}, 3) :
        LET failed == {n \in DOMAIN exits : ~Cc!IsSuccess(exits[n])}
            last == Cc!CachedAuto(Cc!CachedManual(<<"success", 0>>, 1), exits)
        IN  Cardinality(last.outer) = (IF failed = {} THEN Len(exits) ELSE Min(failed))

(* ref.ts: the forms of an operation that give the value before it, the    *)
(* one after it, or none leave the same value; where a partial function is *)
(* not defined nothing changes.                                            *)
ASSUME RefsKeepOneValue ==
    \A v \in 0 .. 2, pf \in [0 .. 2 -> 0 .. 2 \cup {Missing}] :
        LET f == [x \in 0 .. 2 |-> IF pf[x] = Missing THEN x ELSE pf[x]]
            pairs == [x \in 0 .. 2 |-> IF pf[x] = Missing THEN Missing ELSE Cc!Gives(<<x>>, pf[x])]
            asked == Cc!RefModifySome(v, "fallback", pairs)
        IN  /\ {Cc!RefUpdate(v, f), Cc!RefUpdateSome(v, pf)} = {[result |-> "unit", value |-> f[v]]}
            /\ {Cc!RefGetAndUpdate(v, f), Cc!RefGetAndUpdateSome(v, pf), Cc!RefGetAndSet(v, f[v])}
                  = {[result |-> v, value |-> f[v]]}
            /\ {Cc!RefUpdateAndGet(v, f), Cc!RefUpdateSomeAndGet(v, pf), Cc!RefSetAndGet(v, f[v])}
                  = {[result |-> f[v], value |-> f[v]]}
            /\ Cc!RefSet(v, f[v]).value = Cc!RefGet(f[v]).result
            /\ asked.value = f[v] /\ asked.result = (IF pf[v] = Missing THEN "fallback" ELSE <<v>>)
            /\ pf[v] # Missing => asked = Cc!RefModify(v, pairs)

(* synchronizedRef.ts: an effect that succeeds makes of the ref what the   *)
(* plain operation does with its value; one that fails is the answer, and  *)
(* the ref keeps its value.                                                *)
ASSUME FailedUpdatesLeaveTheRef ==
    \A v \in 0 .. 1, pf \in [0 .. 1 -> {<<"success", 0>>, <<"success", 1>>, <<"failure", 7>>, Missing}] :
        LET failed == pf[v] # Missing /\ ~Cc!IsSuccess(pf[v])
            total == [x \in 0 .. 1 |-> IF pf[x] = Missing THEN <<"success", x>> ELSE pf[x]]
            Value(exit) == IF exit = Missing THEN Missing ELSE exit[2]
            plain == [x \in 0 .. 1 |-> Value(pf[x])]
            pairs == [x \in 0 .. 1 |-> IF pf[x] = Missing \/ ~Cc!IsSuccess(pf[x]) THEN pf[x]
                                       ELSE <<"success", Cc!Gives(<<x>>, pf[x][2])>>]
            Agrees(sync, ref) == IF failed THEN sync = [result |-> pf[v], value |-> v]
                                 ELSE sync = [result |-> <<"success", ref.result>>, value |-> ref.value]
        IN  /\ \A update \in {Cc!SyncUpdateEffect(v, total), Cc!SyncUpdateSomeEffect(v, pf)} :
                  Agrees(update, Cc!RefUpdateSome(v, plain))
            /\ \A update \in {Cc!SyncGetAndUpdateEffect(v, total), Cc!SyncGetAndUpdateSomeEffect(v, pf)} :
                  Agrees(update, Cc!RefGetAndUpdateSome(v, plain))
            /\ \A update \in {Cc!SyncUpdateAndGetEffect(v, total), Cc!SyncUpdateSomeAndGetEffect(v, pf)} :
                  Agrees(update, Cc!RefUpdateSomeAndGet(v, plain))
            /\ Agrees(Cc!SyncModifySomeEffect(v, "fallback", pairs),
                      Cc!RefModifySome(v, "fallback", [x \in 0 .. 1 |-> Value(pairs[x])]))
            /\ Cc!SyncModify(v, [x \in 0 .. 1 |-> Cc!Gives("r", 1 - x)])
                  = [result |-> <<"success", "r">>, value |-> 1 - v]
==============================================================================
