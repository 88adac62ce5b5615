---------------------------- MODULE RestartCounts ----------------------------
(***************************************************************************)
(* Two measurements that judge container restarts: system_pod_metrics.go   *)
(* ("system") lists the system pods at start and at gather, from the API   *)
(* server's cache, and subtracts; container_restarts.go ("containers")     *)
(* asks Prometheus how often a container's start time changed since start. *)
(* The pods restart, and may be replaced under their name, all the while.  *)
(***************************************************************************)
EXTENDS Integers

CONSTANTS
    Pods,               \* names, each with one container
    Overridden,         \* pod whose container or name an override is for
    Limits,             \* values of the default and of the override
    MaxRestarts, MaxRecreations

VARIABLE st

\* A limit of -1 stands for one that is not configured.
Init ==
    \E kind \in {"system", "containers"}, default, override \in Limits \cup {-1} :
        st = [kind |-> kind, default |-> default, override |-> override,
              count |-> [p \in Pods |-> 0],         \* RestartCount of the pod now
              cache |-> [p \in Pods |-> 0],         \* what a list from the cache shows
              init |-> <<>>,                        \* initSnapshot, or when start was
              result |-> <<>>, verdict |-> "none",
              restarts |-> 0, recreations |-> 0,
              since |-> [p \in Pods |-> 0],         \* history: restarts since start
              blurred |-> {}]       \* history: recreated, or not fresh at start

Restart(p) ==
    /\ st.restarts < MaxRestarts
    /\ st' = [st EXCEPT !.count[p] = @ + 1, !.since[p] = @ + 1, !.restarts = @ + 1]

Recreate(p) ==
    /\ st.recreations < MaxRecreations
    /\ st' = [st EXCEPT !.count[p] = 0, !.recreations = @ + 1, !.blurred = @ \cup {p}]

CacheCatchesUp(p) ==
    /\ st.cache[p] # st.count[p]
    /\ st' = [st EXCEPT !.cache[p] = st.count[p]]

-----------------------------------------------------------------------------
\* getPodList with resource version "0", and extractMetrics.
getPodMetrics == st.cache

Start ==
    st' = [st EXCEPT !.init = getPodMetrics, !.since = [p \in Pods |-> 0],
                     !.blurred = {p \in Pods : st.cache[p] # st.count[p]}]

\* Faulty variant: the pod of the initial count is ignored.
subtractInitialRestartCounts_ByContainer(metrics) ==
    [p \in Pods |-> metrics[p] - st.init[Overridden]]

subtractInitialRestartCounts(metrics) == [p \in Pods |-> metrics[p] - st.init[p]]

gatherContainerRestarts == st.since

\* An override replaces the default of the system pods, and without either no
\* restart is allowed; ...
getMaxAllowedRestarts(p) ==
    IF p = Overridden /\ st.override # -1 THEN st.override
    ELSE IF st.default # -1 THEN st.default ELSE 0

\* ... it can only raise that of the containers.
Allowed(p) ==
    LET default == IF st.default = -1 THEN 0 ELSE st.default
    IN  IF p = Overridden /\ default < st.override THEN st.override ELSE default

\* The system pods' check is a plain error, the containers' a metric violation.
Gather ==
    LET counts == IF st.kind = "system" THEN subtractInitialRestartCounts(getPodMetrics)
                  ELSE gatherContainerRestarts
        limit(p) == IF st.kind = "system" THEN getMaxAllowedRestarts(p) ELSE Allowed(p)
    IN  /\ st.init # <<>>
        /\ st' = [st EXCEPT !.result = counts,
                            !.verdict = IF \A p \in Pods : counts[p] <= limit(p) THEN "ok"
                                        ELSE IF st.kind = "system" THEN "error" ELSE "violation"]

Next ==
    \/ \E p \in Pods : Restart(p) \/ Recreate(p) \/ CacheCatchesUp(p)
    \/ Start \/ Gather

-----------------------------------------------------------------------------
\* For a pod that was not replaced since start and whose state the cache knew
\* then and knows now, gather reports the restarts since start and nothing else.
\* When all the pods are such and the override is not below the default, both
\* measurements judge the same restarts alike.
RestartsAreCounted ==
    st'.result # st.result =>
        LET clear == {p \in Pods : p \notin st.blurred /\ st.cache[p] = st.count[p]}
        IN  /\ \A p \in clear : st'.result[p] = st.since[p]
            /\ clear = Pods /\ st.override >= st.default =>
                   (st'.verdict = "ok") =
                       \A p \in Pods : st.since[p] <= IF p = Overridden THEN Allowed(p)
                                                      ELSE IF st.default = -1 THEN 0 ELSE st.default
=============================================================================
