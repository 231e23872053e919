------------------------------ MODULE MCPrune ------------------------------
(***************************************************************************)
(* Small instances of Prune for TLC.  The variable plan, which never       *)
(* changes, divides the states: either two clients start bblfshd, each     *)
(* with a daemon first, or one client runs web or sql commands, whose      *)
(* requests go through four containers.                                    *)
(***************************************************************************)
EXTENDS Prune, TLC

VARIABLE plan

Symmetry == Permutations(Clients)

Together == {<<"start", "bblfshd">>}

WebRequests == {<<"web", "gitbase-web">>, <<"logs", "daemon">>}

SqlRequests == {<<"sql", "mysql">>}

AllRequests == Together \cup WebRequests \cup SqlRequests

Planned ==
  /\ \A p \in Clients : req[p] \in plan \cup {Nil}
  /\ plan # Together =>
       /\ Cardinality({p \in Clients : pc[p] # "idle" \/ step[p] # "none"}) <= 1
       /\ \A c \in Containers : ctr[c].net # "cut"

\* What follows a prune that failed is not explored, nor what a new daemon does
\* once a prune has succeeded: nobody removes anything for prune by then.
Bounded ==
  /\ Planned
  /\ prune \notin {"failed", "stopped"}
  /\ restarted => prune \notin {"ok", "images", "okImages"}

MCInit == PruneInit /\ plan \in {Together, WebRequests, SqlRequests}

MCNext == Next /\ UNCHANGED plan

MCSpec == MCInit /\ [][MCNext]_<<allVars, plan>>
=============================================================================
