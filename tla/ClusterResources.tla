--------------------------- MODULE ClusterResources ---------------------------
(***************************************************************************)
(* What four components create in the cluster, call by call, and what      *)
(* their clean-up removes again: the probes, the network policy            *)
(* enforcement measurement, the exec service and the DNS performance test. *)
(***************************************************************************)
EXTENDS Integers, Sequences

CONSTANTS Kinds, MaxFaults, MaxSetUps

VARIABLE st

\* The calls that follow each other when the component is set up.  Each creates
\* the resource it is named after, or is a wait, and its error ends the call.
\* First probesMeasurement.start:
ProbesCalls == <<"client", "namespace", "objects", "ready">>

\* the policies that keep the API server and the target pods reachable, and deny
\* the rest,
AllowPolicies == <<"apiserverPolicy", "podPolicy", "denyPolicy">>

\* setup of the network policy measurement, which reads its parameters and the
\* target namespaces first,
PolicySetup(baseline) ==
    <<"client", "targets", "namespace">> \o IF baseline THEN <<>> ELSE AllowPolicies

createPermissionResources == <<"serviceAccount", "clusterRole", "clusterRoleBinding">>

\* SetUpExecService,
ExecCalls == <<"namespace", "deployment", "store", "ready">>

\* and Execute of the DNS performance test, which cleans up itself after the
\* clients have run.
DnsCalls == <<"client", "namespace">> \o createPermissionResources \o <<"deployment">>

Calls(kind, baseline) ==
    CASE kind = "probes" -> ProbesCalls
      [] kind = "policy" -> PolicySetup(baseline) \o createPermissionResources
      [] kind = "exec" -> ExecCalls
      [] kind = "dns" -> DnsCalls

\* Fields of the measurement, pod stores and cluster-wide objects are not
\* removed with the namespace.
Outside == {"client", "targets", "ready", "clusterRole", "clusterRoleBinding", "store", "runStore"}

Init ==
    \E kind \in Kinds, baseline \in BOOLEAN :
        st = [kind |-> kind, baseline |-> baseline, pc |-> "idle", step |-> 1,
              after |-> "disposed",     \* where the clean-up returns to
              held |-> {}, stores |-> 0, setUps |-> 0, faults |-> 0,
              broken |-> FALSE]     \* history: a call of the clean-up failed

Fault == st.faults < MaxFaults

\* start refuses when the probes are ready, setup when the framework is set; the
\* exec service only logs that it is running.
Begin ==
    /\ st.pc = "idle" /\ st.setUps < MaxSetUps
    /\ st' = IF \/ st.kind = "probes" /\ "ready" \in st.held
                \/ st.kind = "policy" /\ "client" \in st.held
             THEN [st EXCEPT !.setUps = @ + 1]
             ELSE [st EXCEPT !.setUps = @ + 1, !.pc = "setup", !.step = 1]

Call ==
    /\ st.pc = "setup"
    /\ LET calls == Calls(st.kind, st.baseline)
           c == calls[st.step]
           next == [st EXCEPT !.step = @ + 1, !.held = @ \cup {c},
                              !.stores = IF c = "store" THEN @ + 1 ELSE @]
       IN  \/ /\ st.step < Len(calls)
              /\ st' = next
           \/ /\ st.step = Len(calls)
              /\ st' = IF st.kind = "dns"
                       THEN [next EXCEPT !.pc = "dispose", !.step = 1, !.after = "idle"]
                       ELSE [next EXCEPT !.pc = "idle"]
           \/ /\ Fault        \* the client is a field: setting it cannot fail
              /\ c # "client"
              /\ st' = [st EXCEPT !.pc = "idle", !.faults = @ + 1]

\* run of the network policy measurement: a client deployment for each target
\* namespace; the policy creation test also waits on a pod store it never stops,
\* and divides the load policies by the number of target namespaces.
Run ==
    LET targets == "targets" \in st.held
        possible == targets => "namespace" \in st.held
        made == st.held \cup IF targets THEN {"deployment"} ELSE {}
    IN  /\ st.kind = "policy" /\ st.pc = "idle" /\ "client" \in st.held /\ possible
        /\ \/ st' = [st EXCEPT !.held = made]
           \/ ~st.baseline /\ st' = [st EXCEPT !.held = made \cup {"runStore"},
                                               !.pc = IF targets THEN @ ELSE "panic"]

\* complete deletes the deployments, with the client that setup has set.
Complete ==
    /\ st.kind = "policy" /\ st.pc = "idle"
    /\ st' = IF "client" \in st.held THEN [st EXCEPT !.held = @ \ {"deployment"}]
             ELSE [st EXCEPT !.pc = "panic"]

-----------------------------------------------------------------------------
\* Faulty variant: cleanUp forgets the binding.
PolicyRemovals_KeepsBinding == <<"clusterRole", "namespace">>

\* The removals of the probes' Dispose, of cleanUp, of TearDownExecService and
\* of the DNS test's cleanUp.
ProbesRemovals == <<"namespace">>
PolicyRemovals == <<"clusterRole", "clusterRoleBinding", "namespace">>
ExecRemovals == <<"store", "namespace">>
DnsRemovals == createPermissionResources \o <<"namespace">>

Removals(kind) ==
    CASE kind = "probes" -> ProbesRemovals
      [] kind = "policy" -> PolicyRemovals
      [] kind = "exec" -> ExecRemovals
      [] kind = "dns" -> DnsRemovals

Dispose ==
    /\ st.pc = "idle"
    /\ st' = IF st.kind # "exec" /\ "client" \notin st.held
             THEN [st EXCEPT !.pc = "disposed"]
             ELSE [st EXCEPT !.pc = "dispose", !.step = 1, !.after = "disposed"]

\* Deleting an account, a role or a binding that does not exist is an error,
\* which ends cleanUp; a missing namespace is none.
Remove ==
    LET r == Removals(st.kind)[st.step]
        gone == IF r = "namespace" THEN st.held \cap Outside ELSE st.held \ {r}
        end == IF st.step = Len(Removals(st.kind)) THEN st.after ELSE "dispose"
    IN  \/ r \in {"namespace", "store"} \cup st.held
           /\ st' = [st EXCEPT !.held = gone, !.pc = end, !.step = @ + 1,
                               !.stores = IF r = "store" /\ r \in st.held THEN @ - 1 ELSE @]
        \/ r \notin {"namespace", "store"} \cup st.held
           /\ st' = [st EXCEPT !.pc = st.after]
        \/ Fault /\ r # "store"
           /\ st' = [st EXCEPT !.pc = st.after, !.faults = @ + 1, !.broken = TRUE]

Next == Begin \/ Call \/ Run \/ Complete \/ Dispose \/ (st.pc = "dispose" /\ Remove)

-----------------------------------------------------------------------------
\* "Dispose cleans up after the measurement": unless one of its own calls fails,
\* the clean-up leaves no namespace and no cluster-wide object behind, whichever
\* call of the set-up had failed.  One case escapes it: a network policy setup
\* or a DNS test that failed after the namespace and before the binding leaves
\* the namespace, because the deletion of the missing account, role or binding
\* ends the clean-up; the role itself is gone even then.  The exec service
\* keeps one pod store for each set-up beyond the first; run divides by zero
\* only if it follows a setup that found no target namespaces, and complete fails
\* on a nil client only if no setup came before it.
CleanupIsComplete ==
    /\ st.pc = "disposed" /\ ~st.broken =>
           \/ st.held \subseteq {"client", "targets", "ready", "runStore"}
           \/ st.kind \in {"policy", "dns"} /\ st.faults > 0
              /\ {"clusterRole", "clusterRoleBinding"} \cap st.held = {}
    /\ st.stores <= st.setUps
    /\ st.kind = "exec" /\ st.pc = "disposed" /\ st.setUps <= 1 => st.stores = 0
    /\ st.pc = "panic" => "targets" \notin st.held /\ (st.faults > 0 \/ st.setUps = 0)
=============================================================================
