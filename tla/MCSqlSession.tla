---------------------------- MODULE MCSqlSession ----------------------------
(* Small instances of SqlSession for TLC. *)
EXTENDS SqlSession, TLC

CONSTANT ShellClis  \* bound: the processes that may run a shell

Symmetry == Permutations(Ids) \cup Permutations(Clis)

\* The other processes run queries only.  What a session does to the container
\* of another does not depend on its mode.
MCNext == Next /\ \A p \in Clis \ ShellClis : mode'[p] # "shell"

MCFairSpec == Init /\ [][MCNext]_vars /\ Fairness
=============================================================================
