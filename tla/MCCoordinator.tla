--------------------------- MODULE MCCoordinator ---------------------------
(* Instances of Coordinator for TLC. *)
EXTENDS Coordinator, TLC

\* Containers are interchangeable: nothing in Coordinator orders or names them.
ContainerSymmetry == Permutations(Containers)

=============================================================================
