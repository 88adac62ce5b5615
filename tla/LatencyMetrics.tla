---------------------------- MODULE LatencyMetrics ----------------------------
(***************************************************************************)
(* The percentiles the measurements report, and the thresholds they check  *)
(* them against.  A latency is a number; percentiles are in percent.       *)
(***************************************************************************)
EXTENDS Integers, SequencesExt

\* What a function that returned an error reports.
Failed == << >>

Sorted(values) == SortSeq(values, LAMBDA a, b : a < b)

\* Faulty variant: the rank is rounded down.
AtRank_Floor(values, p) == Sorted(values)[Max({1, (Len(values) * p) \div 100})]

\* sorted[int(math.Ceil(float64(length*p)/100))-1], counted from 0 in the code.
AtRank(values, p) == Sorted(values)[(Len(values) * p + 99) \div 100]

Percentiles(values, ps) == [p \in ps |-> IF values = <<>> THEN 0 ELSE AtRank(values, p)]

NewLatencyMetric(latencies) == Percentiles(latencies, {50, 90, 99})

\* The latencies of the objects that match and went through both phases, in any
\* order; times[o][phase] is -1 for a phase that was not seen.
CalculateTransitionsLatency(times, matches, from, to) ==
    LET lag(o) == times[o][to] - times[o][from]
        seen == {o \in matches : times[o][from] # -1 /\ times[o][to] # -1}
    IN  NewLatencyMetric([i \in 1 .. Cardinality(seen) |->
            LET o == SetToSeq(seen)[i] IN IF lag(o) < 0 THEN 0 ELSE lag(o)])

\* Whether an error is returned.
VerifyThresholdByPercentile(metric, thresholds) == \E p \in {50, 90, 99} : metric[p] > thresholds[p]

VerifyThreshold(metric, threshold) == \E p \in {50, 90, 99} : metric[p] > threshold

\* samples: a sequence of [quantile, value]; a quantile of 0 is a missing label.
SetQuantile(metric, sample) ==
    IF sample.quantile \in {50, 90, 99} THEN [metric EXCEPT ![sample.quantile] = sample.value]
    ELSE metric

NewLatencyMetricPrometheus(samples) ==
    IF \E i \in DOMAIN samples : samples[i].quantile = 0 THEN Failed
    ELSE FoldLeft(SetQuantile, NewLatencyMetric(<<>>), samples)
=============================================================================
