----------------------------- MODULE MCTestSuite -----------------------------
(***************************************************************************)
(* Two tests.  The first one takes over an existing namespace and has two  *)
(* dependencies, one of them with a timeout.  The prefix of the second one *)
(* is the ending of the first one's prefix, so it is refused if the first  *)
(* one leaves a namespace; it deletes stale namespaces and reuses a        *)
(* dependency of the first test.  Both have a chaos monkey.                *)
(***************************************************************************)
EXTENDS TestSuite

MCPrefixes == {"ba", "a", "test-qwerty"}
MCContaining == [p \in MCPrefixes |-> IF p = "a" THEN {"a", "ba"} ELSE {p}]

D1 == [name |-> "d1", timeout |-> TRUE]
D2 == [name |-> "d2", timeout |-> FALSE]

First ==
    [prefix |-> "ba", number |-> 2, existing |-> TRUE, stale |-> FALSE, delete |-> TRUE,
     chaos |-> TRUE, dependencies |-> <<D1, D2>>,
     steps |-> <<[kind |-> "measurements", parts |-> 2], [kind |-> "phases", parts |-> 1]>>]

Second ==
    [prefix |-> "a", number |-> 1, existing |-> FALSE, stale |-> TRUE, delete |-> TRUE,
     chaos |-> TRUE, dependencies |-> <<D1>>, steps |-> <<[kind |-> "phases", parts |-> 2]>>]

MCTests == <<First, Second>>
\* With the namespaces of an earlier execution present, the second test is refused.
RefusedTests == <<Second, First>>
MCOldNamespaces == {<<"ba", 1>>, <<"test-qwerty", 1>>}
MCServices == {"prometheus", "exec", "preload"}

=============================================================================
