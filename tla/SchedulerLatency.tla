--------------------------- MODULE SchedulerLatency ---------------------------
(***************************************************************************)
(* Latencies from a cumulative histogram of a process that counts on while *)
(* it is measured and may restart, which sets its counters to zero:        *)
(*   "scheduler"   scheduler_latency.go reads the kube-scheduler at start  *)
(*                 and at gather and subtracts;                            *)
(*   "ksm"         kube_state_metrics_measurement.go does the same with    *)
(*                 kube-state-metrics, once;                               *)
(*   "prometheus"  prometheus_scheduler_latency.go asks Prometheus for the *)
(*                 increase since start.                                   *)
(***************************************************************************)
EXTENDS Integers, Sequences, FiniteSetsExt

CONSTANTS
    NumBuckets,     \* upper bounds 1 .. NumBuckets, the last one is +Inf
    Series,         \* label sets the process counts under
    Width,          \* bits of the unsigned counters (64 in the code)
    MaxSeen,        \* bound: observations of the process
    MaxRestarts

VARIABLE st

Buckets == 1 .. NumBuckets
NewHistogram == [le \in Buckets |-> 0]

Init ==
    \E kind \in {"scheduler", "ksm", "prometheus"} :
        st = [kind |-> kind,
              counters |-> [s \in Series |-> NewHistogram],
              initial |-> NewHistogram,     \* initialLatency
              running |-> FALSE,            \* isRunning (ksm), a startTime (prometheus)
              cancelled |-> FALSE,          \* the context of ksm
              result |-> << >>,
              seen |-> <<>>,                \* history: observations since start
              total |-> 0, restarts |-> 0,
              spoilt |-> FALSE]     \* history: a restart or a failed start since start

Observe(s, le) ==
    /\ st.total < MaxSeen
    /\ st' = [st EXCEPT !.total = @ + 1, !.seen = Append(@, le),
                        !.counters[s] = [b \in Buckets |-> IF b >= le THEN @[b] + 1 ELSE @[b]]]

Restart ==
    /\ st.restarts < MaxRestarts
    /\ st' = [st EXCEPT !.restarts = @ + 1, !.spoilt = st.kind # "prometheus",
                        !.counters = [s \in Series |-> NewHistogram]]

-----------------------------------------------------------------------------
\* Faulty variant: a series overwrites the others.
ConvertSampleToHistogram_Overwrites(le) == st.counters[CHOOSE s \in Series : TRUE][le]

\* Every sample is the cumulative count of one bucket of one series; the
\* histogram is keyed by the bucket alone.
ConvertSampleToHistogram(le) == MapThenSumSet(LAMBDA s : st.counters[s][le], Series)

getSchedulingMetrics == [le \in Buckets |-> ConvertSampleToHistogram(le)]

AtMost(le) == Len(SelectSeq(st.seen, LAMBDA x : x <= le))

\* increase() of Prometheus adds up what was counted before and after a reset.
queryHistogram == [le \in Buckets |-> AtMost(le)]

\* "start" and "reset" of the scheduler; if it does not answer, what was read so
\* far, an empty histogram, is stored all the same.
Starting(answered) ==
    [st EXCEPT !.initial = IF answered THEN getSchedulingMetrics ELSE NewHistogram,
               !.seen = IF answered THEN <<>> ELSE @,
               !.spoilt = ~answered]

getSchedulingInitialLatency ==
    /\ st.kind = "scheduler"
    /\ \E answered \in BOOLEAN : st' = Starting(answered)

\* "start" of kube-state-metrics does nothing when it is running, which it stays;
\* the query loop it spawns only asks and forgets.  A cancelled context answers
\* no request.
startQuerying ==
    /\ st.kind = "ksm" /\ ~st.running
    /\ \E answered \in BOOLEAN :
           /\ answered => ~st.cancelled
           /\ st' = [Starting(answered) EXCEPT !.running = TRUE]

startPrometheus ==
    /\ st.kind = "prometheus"
    /\ st' = [Starting(TRUE) EXCEPT !.running = TRUE]

-----------------------------------------------------------------------------
HistogramSub(final, initial) == [b \in Buckets |-> final[b] - initial[b]]

\* The first bucket, but the last, that holds the rank of the quantile p (in
\* percent); a rank in the last bucket gives the bound of the one before it.
\* The counters are converted to unsigned.
Quantile(hist, p) ==
    LET count(b) == hist[b] % 2^Width
        holds == {b \in 1 .. NumBuckets - 1 : 100 * count(b) >= p * count(NumBuckets)}
    IN  IF holds = {} THEN NumBuckets - 1
        ELSE CHOOSE b \in holds : \A c \in holds : b <= c

\* Without observations the quantile is NaN and the latency stays 0.
SetQuantileFromHistogram(hist) ==
    [p \in {50, 90, 99} |-> IF hist[NumBuckets] = 0 THEN 0 ELSE Quantile(hist, p)]

\* "gather"; without an answer there is no summary.
getSchedulingLatency ==
    /\ st.kind = "scheduler"
    /\ st' = [st EXCEPT !.result = SetQuantileFromHistogram(HistogramSub(getSchedulingMetrics, st.initial))]

\* stop refuses what was never started; gather cancels the context in any case.
createKSMLatencySummary ==
    /\ st.kind = "ksm"
    /\ \/ /\ ~st.cancelled /\ st.running
          /\ st' = [st EXCEPT !.cancelled = TRUE,
                              !.result = SetQuantileFromHistogram(HistogramSub(getSchedulingMetrics, st.initial))]
       \/ st' = [st EXCEPT !.cancelled = TRUE]

GatherPrometheus ==
    /\ st.kind = "prometheus" /\ st.running
    /\ st' = [st EXCEPT !.result = SetQuantileFromHistogram(queryHistogram)]

Next ==
    \/ \E s \in Series, le \in Buckets : Observe(s, le)
    \/ Restart
    \/ getSchedulingInitialLatency \/ startQuerying \/ startPrometheus
    \/ getSchedulingLatency \/ createKSMLatencySummary \/ GatherPrometheus

-----------------------------------------------------------------------------
\* The nearest rank among the observations, with the last finite bound for what
\* lies beyond it.
Nearest(p) ==
    IF st.seen = <<>> THEN 0
    ELSE CHOOSE le \in 1 .. NumBuckets - 1 :
            /\ le = NumBuckets - 1 \/ 100 * AtMost(le) >= p * Len(st.seen)
            /\ \A x \in 1 .. le - 1 : 100 * AtMost(x) < p * Len(st.seen)

\* What gather reports are the quantiles of exactly what was observed since the
\* last start that took effect, however the series split it and however often the
\* measurement is started and gathered, unless the measured process restarted (or
\* that start failed) in between: then old and new counters are mixed.  The
\* Prometheus variant is right across restarts too.
QuantilesCoverTheTest ==
    st'.result # st.result /\ ~st.spoilt =>
        \A p \in {50, 90, 99} : st'.result[p] = Nearest(p)
=============================================================================
