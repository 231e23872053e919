------------------------- MODULE MCDaemonLifecycle -------------------------
(* Small instances of DaemonLifecycle for TLC. *)
EXTENDS DaemonLifecycle, TLC

\* CLI processes and working directories are interchangeable.
Symmetry == Permutations(Clis) \cup Permutations(Dirs)
=============================================================================
