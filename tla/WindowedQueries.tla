--------------------------- MODULE WindowedQueries ---------------------------
(***************************************************************************)
(* Gatherers that cut the measured time into windows, query Prometheus for *)
(* the buckets of each and judge the share of events in the SLO's bucket:  *)
(* cilium_endpoint_propagation_delay.go ("cilium", one histogram for every *)
(* window) and neg_latency_measurement.go ("neg", one histogram in all).   *)
(***************************************************************************)
EXTENDS Integers, Sequences

CONSTANTS
    QueryInterval, MaxEnd,
    MaxCount,           \* bound: events of a window
    Percentiles,        \* percentileSLO parameters, 0 if missing or invalid
    DefaultPercentile

VARIABLE st

\* What a query may answer: cumulative counts, in the SLO's bucket and in all.
Answers == {a \in [accepted : 0 .. MaxCount, total : 0 .. MaxCount] : a.accepted <= a.total}

\* The loop starts with the first window, cut at the end of the measurement.
Init ==
    \E kind \in {"cilium", "neg"}, end \in 0 .. MaxEnd, slo \in Percentiles, inBuckets \in BOOLEAN :
        st = [kind |-> kind, end |-> end, slo |-> slo,
              inBuckets |-> inBuckets,      \* the SLO is the bound of a bucket
              prev |-> 0, curr |-> IF QueryInterval > end THEN end ELSE QueryInterval,
              result |-> << >>, pc |-> "query", verdict |-> "none",
              windows |-> <<>>, answers |-> <<>>]   \* history

\* Where the samples of a window go: result[timestamp] or result[metricName];
\* both overwrite what is there.
Store(answer) ==
    IF st.kind = "cilium" THEN Append(st.result, answer) ELSE <<answer>>

\* Faulty variant: the next window begins where the last one did.
Advance_KeepsPrev(s) ==
    [s EXCEPT !.curr = IF @ + QueryInterval > st.end THEN st.end ELSE @ + QueryInterval]

Advance(s) ==
    [s EXCEPT !.prev = st.curr,
              !.curr = IF @ + QueryInterval > st.end THEN st.end ELSE @ + QueryInterval]

\* A window that the query executor gives up on is logged and left out, and a
\* window without samples adds nothing.
Query ==
    /\ st.pc = "query"
    /\ \E answered \in BOOLEAN, answer \in Answers :
        LET s == [st EXCEPT !.windows = Append(@, <<st.prev, st.curr>>),
                            !.answers = IF answered THEN Append(@, answer) ELSE @,
                            !.result = IF answered THEN Store(answer) ELSE @]
        IN  st' = IF st.curr = st.end THEN [s EXCEPT !.pc = "validate"] ELSE Advance(s)

Percentile == IF st.slo = 0 THEN DefaultPercentile ELSE st.slo

\* A bucket that is not reported counts 0.
Below(buckets) ==
    /\ buckets.total # 0
    /\ 100 * (IF st.inBuckets THEN buckets.accepted ELSE 0) < Percentile * buckets.total

Validate ==
    /\ st.pc = "validate"
    /\ st' = [st EXCEPT !.pc = "done",
                        !.verdict = IF \E i \in DOMAIN st.result : Below(st.result[i])
                                    THEN "violation" ELSE "ok"]

Next == Query \/ Validate

-----------------------------------------------------------------------------
\* Every moment of the measurement is in exactly one window, whatever its length;
\* the verdict on Cilium endpoints is a violation exactly if some window that was
\* answered is below the SLO, and the one on network endpoint groups exactly if
\* the last one is, for each window overwrites the one before.
WindowsCoverTheTest ==
    st.pc = "done" =>
        LET w == st.windows
            n == Len(st.answers)
            judged == IF st.kind = "cilium" THEN 1 .. n ELSE {n} \ {0}
        IN  /\ w[1][1] = 0 /\ w[Len(w)][2] = st.end
            /\ \A i \in 1 .. Len(w) - 1 : w[i][2] = w[i + 1][1] /\ w[i][1] < w[i][2]
            /\ (st.verdict = "violation") = (\E i \in judged : Below(st.answers[i]))
=============================================================================
