------------------------- MODULE MCContainerManager -------------------------
(* Instances of ContainerManager for TLC. *)
EXTENDS ContainerManager, TLC

\* Workers are interchangeable, and so are container names.
Symmetry == Permutations(Workers) \cup Permutations(Names)
=============================================================================
