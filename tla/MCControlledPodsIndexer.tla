----------------------- MODULE MCControlledPodsIndexer -----------------------
(***************************************************************************)
(* Instance of ControlledPodsIndexer for TLC: the pods, ReplicaSets and    *)
(* Deployments are interchangeable.                                        *)
(***************************************************************************)
EXTENDS ControlledPodsIndexer, TLC

Symmetry == Permutations(Pods) \cup Permutations(ReplicaSets)

=============================================================================
