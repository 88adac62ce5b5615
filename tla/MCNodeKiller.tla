----------------------------- MODULE MCNodeKiller -----------------------------
EXTENDS NodeKiller

CONSTANTS n1, n2, n3, n4

AllNodes == {n1, n2, n3, n4}
WithPrometheus == {n4}
TwoStarts == {1, 2}

\* FailureRate 0.5
Half(n) == (n + 1) \div 2
=============================================================================
