-------------------------- MODULE PercentileReports --------------------------
(***************************************************************************)
(* Measurements that end in percentiles of what they collected and compare *)
(* them with thresholds.  The input is chosen, the report is one step:     *)
(*   "pods"        slos/pod_startup_latency.go                             *)
(*   "throughput"  scheduling_throughput.go                                *)
(*   "usage"       resource_usage.go, for one container                    *)
(*   "network"     network_performance_measurement.go                      *)
(*   "queries"     nodelocaldns_latency_prometheus.go and                  *)
(*                 metrics_server_prometheus.go, a query per percentile    *)
(*   "quantiles"   slos/network_programming.go, one query for all          *)
(***************************************************************************)
EXTENDS LatencyMetrics

CONSTANTS
    Pods, Times,        \* pods and clock values of "pods"
    Lengths,            \* of the series: those where a rank moves to the next value
    MaxSamples          \* bound: samples of an answer of Prometheus

VARIABLE st

\* A series of n values, k of them high, in an order that needs the sort.  The
\* percentiles depend on no more than how many values are on which side.
Series == UNION {{[i \in 1 .. n |-> IF i <= k THEN high ELSE 1] : k \in 0 .. n, high \in {0, 2}}
                 : n \in Lengths}

Samples == SeqOf([quantile : {0, 50, 90, 99}, value : {0, 2}], MaxSamples)
Answers == SeqOf({0, 2}, 2)

Given(inputs) == \E in \in inputs : st = [in |-> in, out |-> Failed, verdict |-> "none"]

Init ==
    \/ Given([kind : {"pods"}, stateless : SUBSET Pods, threshold : {0, 1},
              times : [Pods -> [{"create", "watch"} -> Times \cup {-1}]]])
    \/ Given([kind : {"throughput", "usage"}, values : Series, threshold : {0, 1, 2}])
    \/ Given([kind : {"network"}, values : Series, latency : BOOLEAN])
    \/ Given([kind : {"queries"}, answers : [{50, 90, 99} -> Answers], threshold : {1}])
    \/ Given([kind : {"quantiles"}, samples : Samples, threshold : {1}, enableViolations : BOOLEAN])

in == st.in
Report(out, violated) ==
    st' = [st EXCEPT !.out = out, !.verdict = IF violated THEN "violation" ELSE "ok"]
Error == st' = [st EXCEPT !.verdict = "error"]
Running(kind) == st.verdict = "none" /\ in.kind = kind

-----------------------------------------------------------------------------
\* gather of pod_startup_latency.go: all the pods, the stateless and the stateful.
Populations == <<Pods, in.stateless, Pods \ in.stateless>>

gatherPodStartup ==
    LET latency == [i \in 1 .. 3 |->
            CalculateTransitionsLatency(in.times, Populations[i], "create", "watch")]
    IN  /\ Running("pods")
        /\ Report(latency, \E i \in 1 .. 3 :
               VerifyThresholdByPercentile(latency[i], [p \in {50, 90, 99} |-> in.threshold]))

gatherThroughput ==
    LET max == IF in.values = <<>> THEN 0 ELSE Sorted(in.values)[Len(in.values)]
    IN  /\ Running("throughput")
        /\ Report(NewLatencyMetric(in.values), in.threshold > 0 /\ max < in.threshold)

\* ComputePercentiles over the probes that saw the container, which is in the
\* summary only if one did; verifySummary checks the 99th.
ComputePercentiles == Percentiles(in.values, {50, 90, 99, 100})

verifySummary ==
    /\ Running("usage")
    /\ Report(ComputePercentiles, in.values # <<>> /\ ComputePercentiles[99] > in.threshold)

\* Negative latencies count as 0.
calculateMetricDataValue ==
    LET value(v) == IF in.latency /\ v < 0 THEN 0 ELSE v
    IN  [i \in DOMAIN in.values |-> value(in.values[i] - 1)]

getPercentile ==
    /\ Running("network")
    /\ Report(Percentiles(calculateMetricDataValue, {5, 50, 95}), FALSE)

\* Every query must give exactly one sample, or the gathering fails.
getPercentileLatencies ==
    IF \E p \in {50, 90, 99} : Len(in.answers[p]) # 1 THEN Failed
    ELSE [p \in {50, 90, 99} |-> in.answers[p][1]]

validateResult ==
    /\ Running("queries")
    /\ IF getPercentileLatencies = Failed THEN Error
       ELSE Report(getPercentileLatencies, getPercentileLatencies[99] > in.threshold)

\* Three samples, whatever their quantiles.
gatherNetworkProgramming ==
    LET latency == NewLatencyMetricPrometheus(in.samples)
    IN  /\ Running("quantiles")
        /\ IF Len(in.samples) # 3 \/ latency = Failed THEN Error
           ELSE Report(latency, in.enableViolations /\ VerifyThreshold(latency, in.threshold))

Next ==
    \/ gatherPodStartup \/ gatherThroughput \/ verifySummary
    \/ getPercentile \/ validateResult \/ gatherNetworkProgramming

-----------------------------------------------------------------------------
CountOf(values, Test(_)) == Cardinality({i \in DOMAIN values : Test(values[i])})

\* v is the p-th percentile of the values: it is one of them, fewer than p
\* percent are smaller, and at least p percent are not larger.
IsPercentile(v, values, p) ==
    /\ \E i \in DOMAIN values : values[i] = v
    /\ 100 * CountOf(values, LAMBDA x : x < v) < p * Len(values)
    /\ 100 * CountOf(values, LAMBDA x : x <= v) >= p * Len(values)

\* The pods of a population that took longer than the threshold, of those whose
\* start-up was seen from the creation to the watch.
Late(pods) == {o \in pods : /\ in.times[o]["create"] # -1 /\ in.times[o]["watch"] # -1
                            /\ in.times[o]["watch"] - in.times[o]["create"] > in.threshold}
Started(pods) == {o \in pods : in.times[o]["create"] # -1 /\ in.times[o]["watch"] # -1}

\* Every percentile that is reported is one, for a series of any length; pod
\* start-up is violated exactly if in one of the three populations more than one
\* percent of the pods were late; what Prometheus answers for a percentile is
\* never lost or taken for another one, unless a quantile was reported twice.
PercentilesAreExact ==
    /\ in.kind \in {"throughput", "usage"} /\ st.verdict # "none" /\ in.values # <<>> =>
           \A p \in DOMAIN st.out : IsPercentile(st.out[p], in.values, p)
    /\ in.kind = "network" /\ st.verdict # "none" /\ in.values # <<>> =>
           \A p \in DOMAIN st.out : IsPercentile(st.out[p], calculateMetricDataValue, p)
    /\ in.kind = "pods" /\ st.verdict # "none" =>
           (st.verdict = "violation") =
               \E i \in 1 .. 3 : 100 * Cardinality(Late(Populations[i])) > Cardinality(Started(Populations[i]))
    /\ in.kind = "quantiles" /\ st.verdict \in {"ok", "violation"}
       /\ (\A i, j \in 1 .. 3 : in.samples[i].quantile = in.samples[j].quantile => i = j) =>
           \A i \in 1 .. 3 : st.out[in.samples[i].quantile] = in.samples[i].value
=============================================================================
