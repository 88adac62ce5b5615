---------------------------- MODULE PrometheusStack ----------------------------
(***************************************************************************)
(* pkg/prometheus: the controller that sets the monitoring stack up, takes *)
(* a snapshot of its disk and tears it down, in the order cmd/             *)
(* clusterloader.go calls it, against a goroutine that takes the snapshot  *)
(* and exits on an interrupt.                                              *)
(***************************************************************************)
EXTENDS Integers, Sequences

CONSTANTS
    Optional,       \* optional steps of the setup that are enabled
    MaxFaults,      \* bound: failing calls
    MaxRuns         \* bound: executions of clusterloader on the same clusters

VARIABLE
    st              \* the controller, the main goroutine, the clusters

\* SetUpPrometheusStack, in order.
AllSteps == <<"namespace", "token", "storageClass", "core", "nodeExporter", "windows",
              "serviceMonitors", "kubeStateMetrics", "metricsServer", "rbac",
              "masterMonitors", "pushgateway", "additional", "healthy">>
Steps == SelectSeq(AllSteps, LAMBDA s : 
            s \in Optional \cup {"namespace", "token", "storageClass", "core", "healthy"})

\* What lives outside the namespace of the stack and survives its deletion.
Lasting == {"serviceAccount", "rbac", "storageClass", "nodeExporter"}

NewController ==
    [pc |-> "setup", step |-> 1, diskKnown |-> FALSE, snapshotted |-> FALSE,
     snapshotLock |-> "free", interrupt |-> "off", failed |-> FALSE]

Init ==
    \E enabled \in BOOLEAN :
        st = [c |-> NewController, enabled |-> enabled, runs |-> 1, faults |-> 0,
              have |-> {},                  \* what exists in the clusters
              disk |-> "none",
              attempts |-> 0, snapshots |-> 0,  \* history: of this execution
              clean |-> TRUE]               \* history: no failing call in this execution

Fault == st.faults < MaxFaults
WithFault(s) == [s EXCEPT !.faults = @ + 1, !.clean = FALSE]
Fail == WithFault([st EXCEPT !.c.pc = "exited", !.c.failed = TRUE])

-----------------------------------------------------------------------------
\* createToken: the account is created unless it exists; with an account the
\* secret is created or updated, without one it is only created.
createToken ==
    IF "serviceAccount" \notin st.have /\ "secret" \in st.have
    THEN [st EXCEPT !.have = @ \cup {"serviceAccount"}, !.c.pc = "exited", !.c.failed = TRUE]
    ELSE [st EXCEPT !.have = @ \cup {"serviceAccount", "secret"}, !.c.step = @ + 1]

\* One step of SetUpPrometheusStack; creating what exists is no error, and the
\* storage class is deleted before the core manifests create it again.
SetUpStep ==
    /\ st.c.pc = "setup" /\ st.c.step <= Len(Steps)
    /\ LET s == Steps[st.c.step]
       IN  \/ s = "token" /\ st' = createToken
           \/ s = "token" /\ Fault        \* between the account and its token
              /\ st' = [Fail EXCEPT !.have = @ \cup {"serviceAccount"}]
           \/ s # "token" /\ st' = [st EXCEPT !.have = @ \cup {s}, !.c.step = @ + 1,
                                              !.disk = IF s = "core" /\ @ = "none" THEN "bound" ELSE @]
           \/ Fault /\ st' = Fail         \* klog.Exitf in main

\* cachePrometheusDiskMetadataIfEnabled: an error is logged, and a volume that
\* is not bound (yet) is not found, which is no error.
CacheDisk(s, found) ==
    IF s.enabled /\ found /\ s.disk = "bound" THEN [s EXCEPT !.c.diskKnown = TRUE] ELSE s

SetUpDone ==
    /\ st.c.pc = "setup" /\ st.c.step > Len(Steps)
    /\ \/ st' = [CacheDisk(st, TRUE) EXCEPT !.c.pc = "tests", !.c.interrupt = "armed"]
       \/ Fault /\ st' = WithFault([st EXCEPT !.c.pc = "tests", !.c.interrupt = "armed"])

-----------------------------------------------------------------------------
\* TearDownPrometheusStack: the namespace is deleted; whatever happens to that,
\* the deferred function takes the snapshot and deletes the disk.
TearDown ==
    /\ st.c.pc = "tests"
    /\ LET s == [CacheDisk(st, TRUE) EXCEPT !.c.pc = "snapshot"]
           gone == [s EXCEPT !.have = @ \cap Lasting,
                             !.disk = IF st.enabled THEN @ ELSE "none"]  \* RetainPD
       IN  \/ st' = gone
           \/ Fault /\ st' = WithFault([s EXCEPT !.c.failed = TRUE])
           \/ Fault /\ st' = WithFault([gone EXCEPT !.c.diskKnown = st.c.diskKnown])

Lock(who, s) == st.c.snapshotLock = "free" /\ st' = [s EXCEPT !.c.snapshotLock = who]

\* Faulty variant: the second caller does not see the first.
Snapshot_Again(who, done) ==
    /\ st.c.snapshotLock = who
    /\ \E ok \in BOOLEAN :
           st' = [done EXCEPT !.c.snapshotLock = "free", !.c.snapshotted = TRUE,
                              !.attempts = @ + 1, !.snapshots = IF ok THEN @ + 1 ELSE @]

\* snapshotPrometheusDiskIfEnabledSynchronized, for either goroutine: the first
\* caller makes the attempt, with retries; the other one waits for its result.
Snapshot(who, done) ==
    /\ st.c.snapshotLock = who
    /\ \/ st.c.snapshotted /\ st' = [done EXCEPT !.c.snapshotLock = "free"]
       \/ /\ ~st.c.snapshotted
          /\ \E ok \in BOOLEAN :
                 /\ ok => st.enabled /\ st.c.diskKnown
                 /\ ~ok /\ st.enabled /\ st.c.diskKnown => Fault
                 /\ st' = [done EXCEPT !.c.snapshotLock = "free", !.c.snapshotted = TRUE,
                                       !.faults = IF ~ok /\ st.enabled /\ st.c.diskKnown
                                                  THEN @ + 1 ELSE @,
                                       !.attempts = IF st.enabled /\ st.c.diskKnown
                                                    THEN @ + 1 ELSE @,
                                       !.snapshots = IF ok THEN @ + 1 ELSE @]

MainSnapshots ==
    \/ st.c.pc = "snapshot" /\ Lock("main", [st EXCEPT !.c.pc = "snapshotting"])
    \/ st.c.pc = "snapshotting" /\ Snapshot("main", [st EXCEPT !.c.pc = "deleteDisk"])

\* deletePrometheusDiskIfEnabled, whatever the snapshot's result; a disk that
\* is in use, because the namespace is still there, cannot be deleted.
DeleteDisk ==
    /\ st.c.pc = "deleteDisk"
    /\ \/ st' = [st EXCEPT !.c.pc = "exited",
                           !.disk = IF st.enabled /\ st.c.diskKnown /\ "core" \notin st.have
                                    THEN "deleted" ELSE @]
       \/ Fault /\ st' = WithFault([st EXCEPT !.c.pc = "exited"])

\* The goroutine of EnableTearDownPrometheusStackOnInterrupt ends the process.
Interrupt ==
    \/ st.c.interrupt = "armed" /\ st.c.pc # "exited"
       /\ st' = [st EXCEPT !.c.interrupt = "caught"]
    \/ st.c.interrupt = "caught" /\ st.c.pc # "exited"
       /\ Lock("interrupt", [st EXCEPT !.c.interrupt = "snapshotting"])
    \/ st.c.interrupt = "snapshotting" /\ st.c.pc # "exited"
       /\ Snapshot("interrupt", [st EXCEPT !.c.pc = "exited"])

\* clusterloader is run again; the test cluster of kubemark, which has the
\* service account, may have been replaced.
NextRun ==
    /\ st.c.pc = "exited" /\ st.runs < MaxRuns
    /\ \E replaced \in BOOLEAN :
           st' = [st EXCEPT !.c = NewController, !.runs = @ + 1, !.clean = TRUE,
                            !.attempts = 0, !.snapshots = 0,
                            !.disk = IF "core" \in st.have THEN @ ELSE "none",
                            !.have = IF replaced THEN @ \ {"serviceAccount", "rbac"} ELSE @]

Next ==
    \/ SetUpStep \/ SetUpDone \/ TearDown \/ MainSnapshots \/ DeleteDisk \/ Interrupt \/ NextRun

-----------------------------------------------------------------------------
\* The disk is deleted only when its snapshot has been taken, or has been tried
\* and failed, and it is tried at most once, whichever of the two goroutines
\* comes first.  If no call fails, nothing is lost: the disk is deleted after a
\* snapshot that succeeded.
SnapshotBeforeDeletion ==
    /\ st.attempts <= 1
    /\ st.disk = "deleted" => st.c.snapshotted /\ st.attempts = 1
    /\ st.disk = "deleted" /\ st.faults = 0 => st.snapshots = 1

\* "This method is idempotent" (prometheus.go:225): without failing calls the
\* setup succeeds on clusters an earlier execution has left in any state, except
\* where the secret is still there and the service account is not.
SetUpIsIdempotent ==
    st'.c.pc = "exited" /\ st.c.pc = "setup" /\ st'.clean =>
        "secret" \in st.have /\ "serviceAccount" \notin st.have

\* The stack may be set up again and loses no data when it is removed: both of
\* the above.
SetUpAndSnapshotAreSafe == SnapshotBeforeDeletion /\ SetUpIsIdempotent
=============================================================================
