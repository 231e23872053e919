-------------------------- MODULE MCContainerStart --------------------------
(* Small instances of ContainerStart for TLC. *)
EXTENDS ContainerStart, TLC

\* Ids, networks and processes are interchangeable.
Symmetry == Permutations(Ids) \cup Permutations(Nets) \cup Permutations(Procs)

\* Everything that can go wrong before the container runs.
EarlyFaults == {"list", "images", "pull", "pullLost", "create", "remove", "start",
                "exit"}
=============================================================================
