-------------------------- MODULE MeasurementManager --------------------------
(***************************************************************************)
(* pkg/measurement: the manager that creates the measurements and collects *)
(* their summaries, the executor that runs the instances of a wrapper in   *)
(* goroutines, and the measurements made of others: TestMetrics, the SLO   *)
(* measurement and the wrapper of the Prometheus gatherers.                *)
(***************************************************************************)
EXTENDS Integers, Sequences, FiniteSets

CONSTANTS
    Steps,      \* the measurement steps: sequences of <<method, identifier>>
    Known       \* methods with a registered constructor

VARIABLE st

Keys == UNION {{Steps[i][j] : j \in DOMAIN Steps[i]} : i \in DOMAIN Steps}

\* A part of TestMetrics that Dispose reaches, and one it does not.
Parts == {"usage", "ooms"}

\* What a call of Execute gives: the summaries that come back, and whether it is
\* an error, from the results of the parts or of the gatherer.
\* TestMetrics returns the summaries it has;
BundleResults == {[got |-> Parts \ bad, err |-> bad # {}] : bad \in SUBSET Parts}

\* the SLO measurement drops them all on an error;
SLOResults ==
    {[got |-> IF bad = {} THEN Parts ELSE {}, err |-> bad # {}] : bad \in SUBSET Parts}

\* a gatherer's metric violation comes with its summary and is no error unless
\* violations are enabled; any other error drops the summary.
PrometheusResults ==
    {[got |-> {"usage"}, err |-> e] : e \in BOOLEAN} \cup {[got |-> {}, err |-> TRUE]}

Results(method) ==
    CASE method = "bundle" -> BundleResults
      [] method = "slo" -> SLOResults
      [] method = "prometheus" -> PrometheusResults
      [] OTHER -> {[got |-> {}, err |-> FALSE]}

\* createMeasurement finds a constructor that init() of its package registered.
Registered(method) == method \in Known

Task(key) == [key |-> key, pc |-> "get", got |-> {}, err |-> FALSE, saw |-> {}]

Init ==
    st = [step |-> 0, tasks |-> <<>>,
          instances |-> [k \in Keys |-> 0], created |-> 0,
          running |-> {},           \* parts at work: <<instance, part>>
          summaries |-> {}, errList |-> 0,
          produced |-> {}, failed |-> 0,    \* history: returned by the instances
          overlapped |-> FALSE,             \* history: two appends at once
          disposed |-> {}]

\* Execute: a goroutine for each instance of the wrapper, or the call itself.
Execute ==
    /\ \A t \in DOMAIN st.tasks : st.tasks[t].pc = "done"
    /\ st.step < Len(Steps)
    /\ st' = [st EXCEPT !.step = @ + 1,
                        !.tasks = [j \in DOMAIN Steps[st.step + 1] |-> Task(Steps[st.step + 1][j])]]

\* Faulty variant: a call never finds an earlier instance.
getMeasurementInstance_AlwaysCreates(t) ==
    LET k == st.tasks[t].key
    IN  st' = [st EXCEPT !.tasks[t].pc = "execute", !.created = @ + 1,
                         !.instances[k] = st.created + 1]

\* getMeasurementInstance, under the lock.
getMeasurementInstance(t) ==
    LET k == st.tasks[t].key
    IN  st' = CASE st.instances[k] # 0 -> [st EXCEPT !.tasks[t].pc = "execute"]
                [] ~Registered(k[1]) ->
                        [st EXCEPT !.tasks[t].pc = "done", !.errList = @ + 1, !.failed = @ + 1]
                [] OTHER -> [st EXCEPT !.tasks[t].pc = "execute", !.created = @ + 1,
                                       !.instances[k] = st.created + 1]

Get(t) == st.tasks[t].pc = "get" /\ getMeasurementInstance(t)

\* The version request fails, or the instance runs; a bundle starts its parts.
Run(t) ==
    LET k == st.tasks[t].key
        i == st.instances[k]
    IN  /\ st.tasks[t].pc = "execute"
        /\ \/ st' = [st EXCEPT !.tasks[t].pc = "done", !.errList = @ + 1, !.failed = @ + 1]
           \/ \E r \in Results(k[1]) :
                  LET out == {<<st.step, t, p>> : p \in r.got}
                  IN  st' = [st EXCEPT !.tasks[t] = [@ EXCEPT !.pc = "append", !.got = out, !.err = r.err],
                                       !.produced = @ \cup out,
                                       !.failed = IF r.err THEN @ + 1 ELSE @,
                                       !.running = @ \cup (IF k[1] = "bundle" THEN {i} \X Parts ELSE {})]

\* append(mm.summaries, ...): read and written back without the lock.
AppendSummaries(t) ==
    \/ /\ st.tasks[t].pc = "append"
       /\ st' = [st EXCEPT !.tasks[t].pc = "write", !.tasks[t].saw = st.summaries,
                           !.overlapped = @ \/ \E u \in DOMAIN st.tasks : st.tasks[u].pc = "write"]
    \/ /\ st.tasks[t].pc = "write"
       /\ st' = [st EXCEPT !.tasks[t].pc = "done",
                           !.summaries = st.tasks[t].saw \cup st.tasks[t].got,
                           !.errList = IF st.tasks[t].err THEN @ + 1 ELSE @]

\* Dispose calls every instance; a bundle passes it to its parts, without the
\* pod metrics and the OOM tracker.
Dispose ==
    /\ st.step = Len(Steps) /\ \A t \in DOMAIN st.tasks : st.tasks[t].pc = "done"
    /\ st' = [st EXCEPT !.step = @ + 1, !.disposed = {st.instances[k] : k \in Keys} \ {0},
                        !.running = {r \in @ : r[2] = "ooms"}]

Next ==
    \/ Execute \/ Dispose
    \/ \E t \in DOMAIN st.tasks : Get(t) \/ Run(t) \/ AppendSummaries(t)

-----------------------------------------------------------------------------
\* When a step has returned, every error of an instance is in its list, and the
\* manager has every summary the instances gave it, unless two goroutines of a
\* wrapper appended at the same time, which may lose some.  Instances are
\* created once for each method and identifier, however many goroutines ask for
\* them, so that in the end all of them, and nothing of a bundle but the OOM
\* tracker, are disposed of.
ManagerLosesNothing ==
    /\ (\A t \in DOMAIN st.tasks : st.tasks[t].pc = "done") =>
           /\ st.errList = st.failed
           /\ st.summaries = st.produced \/ st.overlapped
    /\ st.step > Len(Steps) =>
           st.disposed = 1 .. st.created /\ \A r \in st.running : r[2] = "ooms"
=============================================================================
