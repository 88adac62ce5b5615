--------------------------- MODULE MCPhaseExecutor ---------------------------
(***************************************************************************)
(* Instance of PhaseExecutor for TLC: three steps.  The first creates the  *)
(* bundle <<a, b, e>> (the template of e renders to nothing); the second   *)
(* scales `a' alone and, in parallel, takes over the unknown objects u in  *)
(* the other namespace; the third works on the bundle <<a, b>> in both     *)
(* namespaces, in one of which the counts of a and b may have come apart.  *)
(***************************************************************************)
EXTENDS PhaseExecutor, TLC

CONSTANTS p1, p2, p3, p4, n1, n2, a, b, e, u

MCPhases == {p1, p2, p3, p4}
MCNamespaceList == p1 :> <<n1>> @@ p2 :> <<n1>> @@ p3 :> <<n2>> @@ p4 :> <<n2, n1>>
MCObjectBundle == p1 :> <<a, b, e>> @@ p2 :> <<a>> @@ p3 :> <<u>> @@ p4 :> <<a, b>>
MCSteps == << {p1}, {p2, p3}, {p4} >>

=============================================================================
