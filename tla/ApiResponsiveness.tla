-------------------------- MODULE ApiResponsiveness --------------------------
(***************************************************************************)
(* slos/api_responsiveness_prometheus.go: the calls to the API server, as  *)
(* Prometheus counted them, are put together from the samples of several   *)
(* queries and every kind of call is checked against its threshold.  The   *)
(* calls that were made are chosen, gathering is one step.                 *)
(***************************************************************************)
EXTENDS LatencyMetrics

CONSTANTS
    Latencies, MaxCalls,    \* latencies (seconds) and bound on the calls of a key
    Allowed,                \* values of allowedSlowCalls
    Custom                  \* custom thresholds: 0 is an invalid one, -1 is none

VARIABLE st

\* A key stands for resource, subresource, verb and scope.
Keys == {"get", "namespaceList", "clusterList", "watchList"}

\* Calls made, with the latency of each; the order does not matter.
Calls == {<<>>} \cup UNION {{s \in [1 .. n -> Latencies] : \A i \in 1 .. n - 1 : s[i] <= s[i + 1]}
                            : n \in 1 .. MaxCalls}

Init ==
    \E calls \in [Keys -> Calls], simple \in BOOLEAN, allowed \in Allowed, custom \in Custom :
        st = [calls |-> calls, useSimple |-> simple, allowedSlowCalls |-> allowed,
              custom |-> custom,                    \* of the key "get"
              metrics |-> <<>>, verdict |-> "none", bad |-> {}]

\* The bucket whose calls are not slow: filterGetAndMutating, filterNamespaceList
\* and filterClusterList.  No query counts the fast calls of a watch list.
FastBound == [get |-> 1, namespaceList |-> 5, clusterList |-> 30]

singleResourceThreshold == 1
multipleResourcesThreshold == 30
getSLOThreshold(key) ==
    IF key = "get" THEN singleResourceThreshold ELSE multipleResourcesThreshold

-----------------------------------------------------------------------------
\* What Prometheus answers: a sample for every key that has calls, except that
\* the latencies of watch lists are queried in the simple form only.
LatencySamples == {key \in Keys : st.calls[key] # <<>> /\ (key = "watchList" => st.useSimple)}
CountSamples == {key \in Keys : st.calls[key] # <<>>}
CountFastSamples == DOMAIN FastBound \cap CountSamples
FastCount(key) == Len(SelectSeq(st.calls[key], LAMBDA l : l <= FastBound[key]))

\* Faulty variant: the fast count is subtracted before the count is set.
newFromSamples_FastFirst ==
    [key \in LatencySamples \cup CountSamples \cup CountFastSamples |->
        [latency |-> IF key \in LatencySamples THEN NewLatencyMetric(st.calls[key]) ELSE NewLatencyMetric(<<>>),
         slowCount |-> IF key \in CountFastSamples THEN 0 - FastCount(key) ELSE 0]]

\* getAPICall makes an entry for a key when its first sample is seen; a count of
\* 0 is not set.
newFromSamples ==
    [key \in LatencySamples \cup CountSamples \cup CountFastSamples |->
        [latency |-> IF key \in LatencySamples THEN NewLatencyMetric(st.calls[key]) ELSE NewLatencyMetric(<<>>),
         slowCount |-> IF key \in CountFastSamples THEN Len(st.calls[key]) - FastCount(key) ELSE 0]]

\* A threshold for a key that has no entry is logged and ignored.
Threshold(key) ==
    IF key = "get" /\ st.custom # -1 THEN st.custom ELSE getSLOThreshold(key)

Validate(call, threshold) ==
    /\ ~(st.allowedSlowCalls > 0 /\ call.slowCount <= st.allowedSlowCalls)
    /\ VerifyThreshold(call.latency, threshold)

validateAPICalls(metrics) == {key \in DOMAIN metrics : Validate(metrics[key], Threshold(key))}

\* A failed query or a custom threshold of 0 ends the gathering without a
\* summary or a verdict.
Gather ==
    /\ st.verdict = "none"
    /\ \/ st' = [st EXCEPT !.verdict = "error"]
       \/ /\ st.custom # 0
          /\ st' = [st EXCEPT !.metrics = newFromSamples, !.bad = validateAPICalls(newFromSamples),
                              !.verdict = IF validateAPICalls(newFromSamples) = {} THEN "ok" ELSE "violation"]

Next == Gather

-----------------------------------------------------------------------------
Slower(key, bound) == Len(SelectSeq(st.calls[key], LAMBDA l : l > bound))

\* A kind of call is reported exactly if more than one percent of its calls took
\* longer than its threshold and, where slow calls are allowed, more of them than
\* that took longer than the bound of the fast ones.  Watch lists are the
\* exception: their slow calls are not counted, so one slow call allowed exempts
\* them all, and only the simple query sees them in the first place.
SlowCallsAreReported ==
    st.verdict \in {"ok", "violation"} =>
        \A key \in Keys :
            key \in st.bad <=>
                /\ 100 * Slower(key, Threshold(key)) > Len(st.calls[key])
                /\ key # "watchList" /\ st.allowedSlowCalls > 0 =>
                       Slower(key, FastBound[key]) > st.allowedSlowCalls
                /\ key = "watchList" => st.useSimple /\ st.allowedSlowCalls = 0
=============================================================================
