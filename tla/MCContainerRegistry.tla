------------------------- MODULE MCContainerRegistry -------------------------
(* Instances of ContainerRegistry for TLC. *)
EXTENDS ContainerRegistry, TLC

RegistrySymmetry == Permutations(Threads) \cup Permutations(Ids) \cup Permutations(Objs)
=============================================================================
