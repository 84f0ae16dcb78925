------------------------------- MODULE Metrics -------------------------------
(* Metrics (src/src/internal/metric.ts and metric/): the hooks that gather *)
(* numbers, the registry that has one hook for each key, and what is made  *)
(* of metrics.  Numbers are integers: the least positive number, where a   *)
(* maximum starts, is 0 among them.  Quantiles and errors are percentages. *)
(* A hole of an array is Hole, and a sum with it is NaN.              *)
EXTENDS Integers, Sequences, SequencesExt, TLC

CONSTANTS MaxValue, Hole, NaN,
          Inputs,            \* what metrics are updated with, and sets of labels
          WithinAge(_, _)    \* how durations compare with <= (external)

Infinity == MaxValue + 1
Least(a, b) == IF b < a THEN b ELSE a
Greatest(a, b) == IF b > a THEN b ELSE a
Plus(a, b) == IF Hole \in {a, b} \/ NaN \in {a, b} THEN NaN ELSE a + b
Distance(a, b) == IF a < b THEN b - a ELSE a - b
Sorted(numbers) == SortSeq(numbers, <)

-----------------------------------------------------------------------------
(* Boundaries, key types and keys.                                         *)

Boundaries(numbers) ==
    FoldLeft(LAMBDA kept, n : IF n \in ToSet(kept) THEN kept ELSE Append(kept, n),
             <<>>, Append(numbers, Infinity))
LinearBoundaries(start, width, count) ==
    Boundaries([i \in 1 .. count |-> start + (i - 1) * width])
ExponentialBoundaries(start, factor, count) ==
    Boundaries([i \in 1 .. count |-> start * factor ^ (i - 1)])

CounterType == [kind |-> "Counter"]
FrequencyType == [kind |-> "Frequency"]
GaugeType == [kind |-> "Gauge"]
HistogramType(boundaries) == [kind |-> "Histogram", boundaries |-> boundaries]
SummaryType(maxAge, maxSize, error, quantiles) ==
    [kind |-> "Summary", maxAge |-> maxAge, maxSize |-> maxSize, error |-> error,
     quantiles |-> quantiles]

MetricKey(name, keyType) == [name |-> name, keyType |-> keyType, tags |-> {}]
KeyTagged(key, labels) == [key EXCEPT !.tags = @ \cup labels]

-----------------------------------------------------------------------------
(* Hooks.                                                                  *)

CounterHook == [sum |-> 0]
FrequencyHook == [occurrences |-> <<>>]
GaugeHook == [value |-> 0]
Tally == [count |-> 0, sum |-> 0, min |-> MaxValue, max |-> 0]
HistogramHook(keyType) ==
    [tally |-> Tally, boundaries |-> Sorted(keyType.boundaries),
     values |-> [i \in 0 .. Len(keyType.boundaries) |-> Hole]]
SummaryHook(keyType) ==
    [tally |-> Tally, head |-> 0, config |-> keyType,
     values |-> [i \in 0 .. (keyType.maxSize - 1) |-> Hole]]

NewHook(keyType) ==
    CASE keyType.kind = "Counter" -> CounterHook
      [] keyType.kind = "Frequency" -> FrequencyHook
      [] keyType.kind = "Gauge" -> GaugeHook
      [] keyType.kind = "Histogram" -> HistogramHook(keyType)
      [] keyType.kind = "Summary" -> SummaryHook(keyType)

Observed(tally, value) ==
    [count |-> tally.count + 1, sum |-> tally.sum + value,
     min |-> Least(tally.min, value), max |-> Greatest(tally.max, value)]

(* The binary search for the bucket of a value, in boundaries from 0. *)
Bucket(boundaries, value) ==
    LET Bound(i) == boundaries[i + 1]
        size == Len(boundaries)
        Search[from \in 0 .. size, to \in 0 .. size] ==
            LET mid == from + ((to - from) \div 2)
                half == IF value <= Bound(mid) THEN <<from, mid>> ELSE <<mid, to>>
            IN  IF from = to THEN from
                ELSE IF half[2] # half[1] + 1 THEN Search[half[1], half[2]]
                ELSE IF value <= Bound(half[1]) THEN half[1] ELSE half[2]
    IN  Search[0, size]

HistogramUpdate(hook, value) ==
    [hook EXCEPT !.tally = Observed(@, value),
                 !.values[Bucket(hook.boundaries, value)] = Plus(@, 1)]

(* The counts up to each boundary. *)
HistogramBuckets(hook) ==
    LET upTo[i \in 0 .. Len(hook.boundaries)] ==
            IF i = 0 THEN 0 ELSE Plus(upTo[i - 1], hook.values[i - 1])
    IN  [i \in DOMAIN hook.boundaries |-> <<hook.boundaries[i], upTo[i]>>]

(* A ring for the last observations, each with its time. *)
SummaryUpdate(hook, value, timestamp) ==
    [hook EXCEPT !.tally = Observed(@, value), !.head = @ + 1,
                 !.values[(hook.head + 1) % hook.config.maxSize] = <<timestamp, value>>]

(* What is in the ring when it is looked at: its last slot is not. *)
SummarySamples(hook, now) ==
    LET Slot(i) == hook.values[i - 1]
        seen == SelectSeq([i \in 1 .. (hook.config.maxSize - 1) |-> i],
                          LAMBDA i : Slot(i) # Hole
                                        /\ now >= Slot(i)[1]
                                        /\ WithinAge(now - Slot(i)[1], hook.config.maxAge))
    IN  Sorted([k \in DOMAIN seen |-> Slot(seen[k])[2]])

(* Every comparison is of products with 20000, the common denominator. *)
RECURSIVE ResolveQuantile(_, _, _, _, _, _)
ResolveQuantile(error, count, current, consumed, quantile, rest) ==
    LET Resolved(value, used, left) ==
            [quantile |-> quantile, value |-> value, consumed |-> used, rest |-> left]
        more == SelectInSeq(rest, LAMBDA n : n > Head(rest))
        same == IF more = 0 THEN Len(rest) ELSE more - 1
        desired == 200 * quantile * count
        allowed == error * quantile * count
        taken == 20000 * (consumed + same)
        next == ResolveQuantile(error, count, <<Head(rest)>>, consumed + same, quantile,
                                SubSeq(rest, same + 1, Len(rest)))
    IN  CASE rest = <<>> -> Resolved(<<>>, consumed, <<>>)
          [] rest # <<>> /\ quantile = 100 ->
                Resolved(<<Last(rest)>>, consumed + Len(rest), <<>>)
          [] rest # <<>> /\ quantile # 100 /\ taken < desired - allowed -> next
          [] rest # <<>> /\ quantile # 100 /\ taken > desired + allowed ->
                Resolved(current, consumed, rest)
          [] OTHER ->
                IF current = <<>>
                    \/ Distance(taken, desired) < Distance(desired, 20000 * current[1])
                THEN next ELSE Resolved(current, consumed, rest)

(* Every quantile goes on from where the first of them ended. *)
CalculateQuantiles(error, quantiles, samples) ==
    LET Resolve(current, consumed, quantile, rest) ==
            ResolveQuantile(error, Len(samples), current, consumed, quantile, rest)
        first == Resolve(<<>>, 0, Head(quantiles), samples)
        resolved == [i \in DOMAIN quantiles |->
                        IF i = 1 THEN first
                        ELSE Resolve(first.value, first.consumed, quantiles[i], first.rest)]
    IN  [i \in DOMAIN quantiles |-> <<quantiles[i], resolved[i].value>>]

HookUpdate(key, hook, input) ==
    CASE key.keyType.kind = "Counter" -> [hook EXCEPT !.sum = @ + input]
      [] key.keyType.kind = "Frequency" ->
            [hook EXCEPT !.occurrences =
                (input :> (IF input \in DOMAIN @ THEN @[input] ELSE 0) + 1) @@ @]
      [] key.keyType.kind = "Gauge" -> [hook EXCEPT !.value = input]
      [] key.keyType.kind = "Histogram" -> HistogramUpdate(hook, input)
      [] key.keyType.kind = "Summary" -> SummaryUpdate(hook, input[1], input[2])

(* The state of a metric, that its hook gives. *)
HookState(key, hook, now) ==
    CASE key.keyType.kind = "Histogram" ->
            [tally |-> hook.tally, buckets |-> HistogramBuckets(hook)]
      [] key.keyType.kind = "Summary" ->
            [tally |-> hook.tally,
             quantiles |-> CalculateQuantiles(key.keyType.error, Sorted(key.keyType.quantiles),
                                              SummarySamples(hook, now))]
      [] OTHER -> hook

-----------------------------------------------------------------------------
(* The registry: a hook is made when its key is first asked for.           *)

GetHook(registry, key) ==
    IF key \in DOMAIN registry THEN registry[key] ELSE NewHook(key.keyType)
Registered(registry, key) == (key :> GetHook(registry, key)) @@ registry
UnsafeSnapshot(registry, now) ==
    {<<key, HookState(key, registry[key], now)>> : key \in DOMAIN registry}

-----------------------------------------------------------------------------
(* Metrics: how one updates the registry, and the value it reads there, at *)
(* a time and with the labels of the place.                                *)

(* reads: the keys it asks for, out: what it makes of their states. *)
MakeMetric(update, reads, out) == [update |-> update, reads |-> reads, out |-> out]

FromMetricKey(key) ==
    MakeMetric([registry \in Inputs, input \in Inputs, tags \in Inputs |->
                    LET full == KeyTagged(key, tags) IN
                    (full :> HookUpdate(full, GetHook(registry, full), input)) @@ registry],
               [tags \in Inputs |-> <<KeyTagged(key, tags)>>],
               [states \in Inputs |-> states[1]])
CounterMetric(name) == FromMetricKey(MetricKey(name, CounterType))
FrequencyMetric(name) == FromMetricKey(MetricKey(name, FrequencyType))
GaugeMetric(name) == FromMetricKey(MetricKey(name, GaugeType))
HistogramMetric(name, boundaries) == FromMetricKey(MetricKey(name, HistogramType(boundaries)))
SummaryTimestamp(name, maxAge, maxSize, error, quantiles) ==
    FromMetricKey(MetricKey(name, SummaryType(maxAge, maxSize, error, quantiles)))
SucceedMetric(value) ==
    MakeMetric([registry \in Inputs, input \in Inputs, tags \in Inputs |-> registry],
               [tags \in Inputs |-> <<>>], [states \in Inputs |-> value])

(* The value of a metric, and the registry that has its hooks. *)
ValueOf(metric, registry, tags, now) ==
    LET keys == metric.reads[tags]
        full == FoldLeft(Registered, registry, keys)
    IN  <<metric.out[[i \in DOMAIN keys |-> HookState(keys[i], full[keys[i]], now)]], full>>

Contramap(self, f) ==
    [self EXCEPT !.update = [registry \in Inputs, input \in Inputs, tags \in Inputs |->
                                self.update[registry, f[input], tags]]]
FromConst(self, value) == Contramap(self, [input \in Inputs |-> value])
MapMetric(self, f) == [self EXCEPT !.out = [states \in Inputs |-> f[self.out[states]]]]
WithNow(self, now) == Contramap(self, [input \in Inputs |-> <<input, now>>])
SummaryMetric(name, maxAge, maxSize, error, quantiles, now) ==
    WithNow(SummaryTimestamp(name, maxAge, maxSize, error, quantiles), now)

MetricTaggedWithLabelSet(self, labels) ==
    MakeMetric([registry \in Inputs, input \in Inputs, tags \in Inputs |->
                    self.update[registry, input, labels \cup tags]],
               [tags \in Inputs |-> self.reads[labels \cup tags]], self.out)
MetricTagged(self, label) == MetricTaggedWithLabelSet(self, {label})
(* The labels that f gives are added by updates only; no value is read. *)
MetricTaggedWith(self, f) ==
    MapMetric([self EXCEPT !.update =
                  [registry \in Inputs, input \in Inputs, tags \in Inputs |->
                      self.update[registry, input, f[input] \cup tags]]],
              [value \in Inputs |-> "unit"])
ZipMetric(self, that) ==
    MakeMetric([registry \in Inputs, input \in Inputs, tags \in Inputs |->
                    that.update[self.update[registry, input[1], tags], input[2], tags]],
               [tags \in Inputs |-> self.reads[tags] \o that.reads[tags]],
               [states \in Inputs |->
                   LET n == Len(self.reads[{}]) IN
                   <<self.out[SubSeq(states, 1, n)],
                     that.out[SubSeq(states, n + 1, Len(states))]>>])
Timer(name) ==
    MetricTagged(HistogramMetric(name, ExponentialBoundaries(1, 2, 100)), "milliseconds")

-----------------------------------------------------------------------------
(* Metrics that follow an effect: what its outcome does to the registry.   *)
(* An outcome is a success with a value or a failure with the failures and *)
(* the defects of its cause.                                               *)

UpdateMetric(self, registry, input, tags) == self.update[registry, input, tags]
IncrementBy(counter, registry, amount, tags) == UpdateMetric(counter, registry, amount, tags)
Increment(counter, registry, tags) == IncrementBy(counter, registry, 1, tags)
SetGauge(gauge, registry, value, tags) == UpdateMetric(gauge, registry, value, tags)

(* The labels of the place, tags, reach only the trackers that go through  *)
(* update; the others give none.                                           *)
TrackSuccessWith(self, f, registry, outcome, tags) ==
    IF outcome.tag = "Success" THEN UpdateMetric(self, registry, f[outcome.value], tags)
    ELSE registry
TrackErrorWith(self, f, registry, outcome, tags) ==
    IF outcome.tag = "Failure" /\ outcome.failures # <<>>
    THEN UpdateMetric(self, registry, f[Head(outcome.failures)], tags)
    ELSE registry

Applied(self, registry, outcome) ==
    IF outcome.tag = "Success" THEN UpdateMetric(self, registry, outcome.value, {}) ELSE registry
TrackAll(self, registry, input, outcome) == UpdateMetric(self, registry, input, {})
TrackDefectWith(self, f, registry, outcome) ==
    IF outcome.tag = "Success" THEN registry
    ELSE FoldLeft(LAMBDA reg, defect : UpdateMetric(self, reg, f[defect], {}),
                  registry, outcome.defects)
TrackDurationWith(self, f, registry, outcome, start, end) ==
    IF outcome.tag = "Success" THEN UpdateMetric(self, registry, f[end - start], {})
    ELSE registry
==============================================================================
