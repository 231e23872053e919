----------------------- MODULE DaemonLifecycleProofs -----------------------
(***************************************************************************)
(* Proofs about DaemonLifecycle, for any number of CLI processes and any   *)
(* working directories and configurations.  The invariants say how far an  *)
(* init has come (Written, Doomed) and that no other command holds options *)
(* of its own once an init has ended (Settling).                           *)
(***************************************************************************)
EXTENDS DaemonLifecycle, TLAPS

\* The least component in the order of the code is one of them.
LEMMA FirstInSet ==
  ASSUME NEW S \in SUBSET Components, S # {}
  PROVE  First(S) \in S
<1>1. \E c \in S : \A d \in S : Rank[c] <= Rank[d]
  <2>1. CASE "bblfshd" \in S
    BY <2>1 DEF Rank, Components
  <2>2. CASE "bblfshd" \notin S /\ "daemon" \in S
    BY <2>2 DEF Rank, Components
  <2>3. CASE "bblfshd" \notin S /\ "daemon" \notin S /\ "gitbase" \in S
    BY <2>3 DEF Rank, Components
  <2>4. CASE "web" \in S /\ S \subseteq {"web"}
    BY <2>4 DEF Rank
  <2>. QED  BY <2>1, <2>2, <2>3, <2>4 DEF Components
<1>. QED  BY <1>1 DEF First

\* What runs for a component is made of components other than the daemon.
LEMMA NeedsComponents ==
  ASSUME NEW S \in SUBSET (Components \ {"daemon"})
  PROVE  UNION {Needs(c) : c \in S} \subseteq Components \ {"daemon"}
  BY DEF Needs, Components

-----------------------------------------------------------------------------
(* Types, and where each command can be. *)

Saving == {"create", "encode", "isRunning", "start"}

Shape ==
  \A p \in Clis :
    /\ pc[p] = "idle" <=> cmd[p] = "none"
    /\ pc[p] \in {"look", "kill"} => cmd[p] = "init"
    /\ pc[p] \in Saving => cmd[p] \in {"init", "client"}
    /\ pc[p] \in {"ensure", "stat", "read", "call", "wait"} => cmd[p] = "client"
    /\ pc[p] \in {"list", "remove", "cleanUp"} => cmd[p] \in {"stop", "prune"}

Holding == \A p \in Clis : cmd[p] \in {"init", "client"} => opts[p] \in StartOptions

Inv0 == TypeOK /\ Shape /\ Holding

\* The initial state has its type.
LEMMA InitTyped == Init => Inv0
  BY LifecycleAssumption
  DEF Init, Inv0, TypeOK, Shape, Holding, Saving, Components, Labels

\* Every step leaves each command at one of its own labels.
LEMMA StepShape ==
  ASSUME TypeOK, Shape, [Next]_vars
  PROVE  Shape'
<1>. USE LifecycleAssumption DEF TypeOK, Shape, Saving, cli, handlers, history,
         Goto, At, Begin, MayBegin, End, Fails
<1>1. ASSUME NEW p \in Clis, NEW d \in Dirs, InitCmd(p, d) PROVE Shape'
  BY <1>1 DEF InitCmd
<1>2. ASSUME NEW p \in Clis, NEW d \in Dirs, NEW c \in Wanted, ClientCmd(p, d, c)
     PROVE  Shape'
  BY <1>2 DEF ClientCmd
<1>3. ASSUME NEW p \in Clis, NEW c \in Commands, RemoveCmd(p, c) PROVE Shape'
  BY <1>3 DEF RemoveCmd
<1>4. ASSUME NEW p \in Clis, Look(p) PROVE Shape'
  BY <1>4 DEF Look
<1>5. ASSUME NEW p \in Clis, Looked(p) PROVE Shape'
  BY <1>5 DEF Looked
<1>6. ASSUME NEW p \in Clis, Kill(p) PROVE Shape'
  BY <1>6 DEF Kill
<1>7. ASSUME NEW p \in Clis, Killed(p) PROVE Shape'
  BY <1>7 DEF Killed
<1>8. ASSUME NEW p \in Clis, SaveCreate(p) PROVE Shape'
  BY <1>8 DEF SaveCreate
<1>9. ASSUME NEW p \in Clis, SaveEncode(p) PROVE Shape'
  BY <1>9 DEF SaveEncode
<1>10. ASSUME NEW p \in Clis, IsRunning(p) PROVE Shape'
  BY <1>10 DEF IsRunning, Started
<1>11. ASSUME NEW p \in Clis, StartDaemon(p) PROVE Shape'
  BY <1>11 DEF StartDaemon, Started
<1>12. ASSUME NEW p \in Clis, EnsureStarted(p) PROVE Shape'
  BY <1>12 DEF EnsureStarted
<1>13. ASSUME NEW p \in Clis, Stat(p) PROVE Shape'
  BY <1>13 DEF Stat
<1>14. ASSUME NEW p \in Clis, Read(p) PROVE Shape'
  BY <1>14 DEF Read
<1>15. ASSUME NEW p \in Clis, Call(p) PROVE Shape'
  BY <1>15 DEF Call
<1>16. ASSUME NEW p \in Clis, Answered(p) PROVE Shape'
  BY <1>16 DEF Answered
<1>17. ASSUME NEW p \in Clis, List(p) PROVE Shape'
  BY <1>17 DEF List
<1>18. ASSUME NEW p \in Clis, RemoveOne(p) PROVE Shape'
  BY <1>18 DEF RemoveOne
<1>19. ASSUME NEW p \in Clis, RemoveFails(p) PROVE Shape'
  BY <1>19 DEF RemoveFails
<1>20. ASSUME NEW p \in Clis, Removed(p) PROVE Shape'
  BY <1>20 DEF Removed
<1>21. ASSUME NEW p \in Clis, CleanUp(p) PROVE Shape'
  BY <1>21 DEF CleanUp
<1>22. ASSUME NEW p \in Clis, RunCheck(p) PROVE Shape'
  BY <1>22 DEF RunCheck
<1>23. ASSUME NEW p \in Clis, RunStart(p) PROVE Shape'
  BY <1>23 DEF RunStart
<1>24. ASSUME NEW p \in Clis, RunDone(p) PROVE Shape'
  BY <1>24 DEF RunDone
<1>25. ASSUME NEW p \in Clis, Crash(p) PROVE Shape'
  BY <1>25 DEF Crash
<1>26. ASSUME NEW k \in Confs, EditConfig(k) PROVE Shape'
  BY <1>26 DEF EditConfig
<1>27. ASSUME NEW c \in Components, Exit(c) PROVE Shape'
  BY <1>27 DEF Exit
<1>28. CASE UNCHANGED vars
  BY <1>28 DEF vars
<1>. QED
  BY <1>1, <1>2, <1>3, <1>4, <1>5, <1>6, <1>7, <1>8, <1>9, <1>10, <1>11, <1>12,
     <1>13, <1>14, <1>15, <1>16, <1>17, <1>18, <1>19, <1>20, <1>21, <1>22, <1>23,
     <1>24, <1>25, <1>26, <1>27, <1>28 DEF Next, CliStep, HandlerStep

\* Every step leaves the options at hand with whoever needs them.
LEMMA StepHolding ==
  ASSUME TypeOK, Shape, Holding, [Next]_vars
  PROVE  Holding'
<1>. USE LifecycleAssumption DEF TypeOK, Shape, Holding, Saving, cli, handlers,
         history, Goto, At, Begin, MayBegin, End, Fails
<1>1. ASSUME NEW p \in Clis, NEW d \in Dirs, InitCmd(p, d) PROVE Holding'
  BY <1>1 DEF InitCmd, StartOptions
<1>2. ASSUME NEW p \in Clis, NEW d \in Dirs, NEW c \in Wanted, ClientCmd(p, d, c)
     PROVE  Holding'
  BY <1>2 DEF ClientCmd, StartOptions
<1>3. ASSUME NEW p \in Clis, NEW c \in Commands, RemoveCmd(p, c) PROVE Holding'
  BY <1>3 DEF RemoveCmd
<1>4. ASSUME NEW p \in Clis, Look(p) PROVE Holding'
  BY <1>4 DEF Look
<1>5. ASSUME NEW p \in Clis, Looked(p) PROVE Holding'
  BY <1>5 DEF Looked
<1>6. ASSUME NEW p \in Clis, Kill(p) PROVE Holding'
  BY <1>6 DEF Kill
<1>7. ASSUME NEW p \in Clis, Killed(p) PROVE Holding'
  BY <1>7 DEF Killed
<1>8. ASSUME NEW p \in Clis, SaveCreate(p) PROVE Holding'
  BY <1>8 DEF SaveCreate
<1>9. ASSUME NEW p \in Clis, SaveEncode(p) PROVE Holding'
  BY <1>9 DEF SaveEncode
<1>10. ASSUME NEW p \in Clis, IsRunning(p) PROVE Holding'
  BY <1>10 DEF IsRunning, Started
<1>11. ASSUME NEW p \in Clis, StartDaemon(p) PROVE Holding'
  BY <1>11 DEF StartDaemon, Started
<1>12. ASSUME NEW p \in Clis, EnsureStarted(p) PROVE Holding'
  BY <1>12 DEF EnsureStarted
<1>13. ASSUME NEW p \in Clis, Stat(p) PROVE Holding'
  BY <1>13 DEF Stat
<1>14. ASSUME NEW p \in Clis, Read(p) PROVE Holding'
  BY <1>14 DEF Read
<1>15. ASSUME NEW p \in Clis, Call(p) PROVE Holding'
  BY <1>15 DEF Call
<1>16. ASSUME NEW p \in Clis, Answered(p) PROVE Holding'
  BY <1>16 DEF Answered
<1>17. ASSUME NEW p \in Clis, List(p) PROVE Holding'
  BY <1>17 DEF List
<1>18. ASSUME NEW p \in Clis, RemoveOne(p) PROVE Holding'
  BY <1>18 DEF RemoveOne
<1>19. ASSUME NEW p \in Clis, RemoveFails(p) PROVE Holding'
  BY <1>19 DEF RemoveFails
<1>20. ASSUME NEW p \in Clis, Removed(p) PROVE Holding'
  BY <1>20 DEF Removed
<1>21. ASSUME NEW p \in Clis, CleanUp(p) PROVE Holding'
  BY <1>21 DEF CleanUp
<1>22. ASSUME NEW p \in Clis, RunCheck(p) PROVE Holding'
  BY <1>22 DEF RunCheck
<1>23. ASSUME NEW p \in Clis, RunStart(p) PROVE Holding'
  BY <1>23 DEF RunStart
<1>24. ASSUME NEW p \in Clis, RunDone(p) PROVE Holding'
  BY <1>24 DEF RunDone
<1>25. ASSUME NEW p \in Clis, Crash(p) PROVE Holding'
  BY <1>25 DEF Crash
<1>26. ASSUME NEW k \in Confs, EditConfig(k) PROVE Holding'
  BY <1>26 DEF EditConfig
<1>27. ASSUME NEW c \in Components, Exit(c) PROVE Holding'
  BY <1>27 DEF Exit
<1>28. CASE UNCHANGED vars
  BY <1>28 DEF vars
<1>. QED
  BY <1>1, <1>2, <1>3, <1>4, <1>5, <1>6, <1>7, <1>8, <1>9, <1>10, <1>11, <1>12,
     <1>13, <1>14, <1>15, <1>16, <1>17, <1>18, <1>19, <1>20, <1>21, <1>22, <1>23,
     <1>24, <1>25, <1>26, <1>27, <1>28 DEF Next, CliStep, HandlerStep

\* Every step keeps the types.
LEMMA StepTyped ==
  ASSUME Inv0, [Next]_vars
  PROVE  TypeOK'
<1>. USE LifecycleAssumption DEF Inv0, TypeOK, Labels, cli, handlers, history,
         Goto, At, Begin, MayBegin, End, Fails, Replace, HandlerEnds
<1>1. ASSUME NEW p \in Clis, NEW d \in Dirs, InitCmd(p, d) PROVE TypeOK'
  BY <1>1, LifecycleAssumption DEF InitCmd, StartOptions, AllCommands, WorkDirDependants
<1>2. ASSUME NEW p \in Clis, NEW d \in Dirs, NEW c \in Wanted, ClientCmd(p, d, c)
     PROVE  TypeOK'
  BY <1>2 DEF ClientCmd, StartOptions
<1>3. ASSUME NEW p \in Clis, NEW c \in Commands, RemoveCmd(p, c) PROVE TypeOK'
  BY <1>3 DEF RemoveCmd
<1>4. ASSUME NEW p \in Clis, Look(p) PROVE TypeOK'
  BY <1>4, FirstInSet DEF Look, WorkDirDependants, Components
<1>5. ASSUME NEW p \in Clis, Looked(p) PROVE TypeOK'
  BY <1>5 DEF Looked
<1>6. ASSUME NEW p \in Clis, Kill(p) PROVE TypeOK'
  BY <1>6 DEF Kill
<1>7. ASSUME NEW p \in Clis, Killed(p) PROVE TypeOK'
  BY <1>7 DEF Killed
<1>8. ASSUME NEW p \in Clis, SaveCreate(p) PROVE TypeOK'
  BY <1>8 DEF SaveCreate
<1>9. ASSUME NEW p \in Clis, SaveEncode(p) PROVE TypeOK'
  <2>1. opts[p] \in StartOptions
    BY <1>9 DEF SaveEncode, Shape, Holding, Saving
  <2>. QED  BY <1>9, <2>1 DEF SaveEncode
<1>10. ASSUME NEW p \in Clis, IsRunning(p) PROVE TypeOK'
  <2>1. CASE Running("daemon") /\ Started(p)
    <3>1. CASE cmd[p] = "init"
      BY <1>10, <2>1, <3>1 DEF IsRunning, Started
    <3>2. CASE cmd[p] # "init"
      BY <1>10, <2>1, <3>2 DEF IsRunning, Started
    <3>. QED  BY <3>1, <3>2
  <2>2. CASE ~ Running("daemon") /\ Goto(p, "start")
    BY <1>10, <2>2 DEF IsRunning
  <2>3. CASE Fails(p, "list") /\ UNCHANGED history
    BY <1>10, <2>3 DEF IsRunning
  <2>. QED  BY <1>10, <2>1, <2>2, <2>3 DEF IsRunning
<1>11. ASSUME NEW p \in Clis, StartDaemon(p) PROVE TypeOK'
  <2>1. up' \in [Components -> StartOptions \cup {Down}]
    BY <1>11 DEF StartDaemon
  <2>2. srv' \in [Clis -> {"none", "check", "start"}] /\ left' \in [Clis -> SUBSET Components]
    BY <1>11 DEF StartDaemon
  <2>3. CASE Replace("daemon", opts[p]) /\ Started(p)
    <3>1. CASE cmd[p] = "init"
      BY <1>11, <2>1, <2>2, <2>3, <3>1 DEF StartDaemon, Started
    <3>2. CASE cmd[p] # "init"
      BY <1>11, <2>1, <2>2, <2>3, <3>2 DEF StartDaemon, Started
    <3>. QED  BY <3>1, <3>2
  <2>4. CASE Fails(p, "start") /\ UNCHANGED history
    BY <1>11, <2>1, <2>2, <2>4 DEF StartDaemon
  <2>. QED  BY <1>11, <2>3, <2>4 DEF StartDaemon
<1>12. ASSUME NEW p \in Clis, EnsureStarted(p) PROVE TypeOK'
  BY <1>12 DEF EnsureStarted
<1>13. ASSUME NEW p \in Clis, Stat(p) PROVE TypeOK'
  BY <1>13 DEF Stat
<1>14. ASSUME NEW p \in Clis, Read(p) PROVE TypeOK'
  BY <1>14 DEF Read
<1>15. ASSUME NEW p \in Clis, Call(p) PROVE TypeOK'
  BY <1>15, NeedsComponents DEF Call, Needs, Components
<1>16. ASSUME NEW p \in Clis, Answered(p) PROVE TypeOK'
  BY <1>16 DEF Answered
<1>17. ASSUME NEW p \in Clis, List(p) PROVE TypeOK'
  BY <1>17 DEF List
<1>18. ASSUME NEW p \in Clis, RemoveOne(p) PROVE TypeOK'
  BY <1>18 DEF RemoveOne
<1>19. ASSUME NEW p \in Clis, RemoveFails(p) PROVE TypeOK'
  BY <1>19 DEF RemoveFails
<1>20. ASSUME NEW p \in Clis, Removed(p) PROVE TypeOK'
  BY <1>20 DEF Removed
<1>21. ASSUME NEW p \in Clis, CleanUp(p) PROVE TypeOK'
  BY <1>21 DEF CleanUp
<1>22. ASSUME NEW p \in Clis, RunCheck(p) PROVE TypeOK'
  BY <1>22 DEF RunCheck
<1>23. ASSUME NEW p \in Clis, RunStart(p) PROVE TypeOK'
  BY <1>23 DEF RunStart, Components
<1>24. ASSUME NEW p \in Clis, RunDone(p) PROVE TypeOK'
  BY <1>24 DEF RunDone
<1>25. ASSUME NEW p \in Clis, Crash(p) PROVE TypeOK'
  BY <1>25 DEF Crash
<1>26. ASSUME NEW k \in Confs, EditConfig(k) PROVE TypeOK'
  BY <1>26 DEF EditConfig
<1>27. ASSUME NEW c \in Components, Exit(c) PROVE TypeOK'
  BY <1>27 DEF Exit
<1>28. CASE UNCHANGED vars
  BY <1>28 DEF vars
<1>. QED
  BY <1>1, <1>2, <1>3, <1>4, <1>5, <1>6, <1>7, <1>8, <1>9, <1>10, <1>11, <1>12,
     <1>13, <1>14, <1>15, <1>16, <1>17, <1>18, <1>19, <1>20, <1>21, <1>22, <1>23,
     <1>24, <1>25, <1>26, <1>27, <1>28 DEF Next, CliStep, HandlerStep

-----------------------------------------------------------------------------
(* init runs alone: while it runs nobody else touches the state file, and  *)
(* when it has ended nobody else holds options of its own.                 *)

Exclusive ==
  \A p, q \in Clis : p # q /\ cmd[p] = "init" => cmd[q] = "none"

Pending == \A p \in Clis : cmd[p] = "init" => inited = Down

Written ==
  \A p \in Clis : cmd[p] = "init" /\ pc[p] \in {"isRunning", "start"} => file = opts[p]

Settling ==
  inited # Down =>
    \A p \in Clis : cmd[p] = "client" =>
      /\ pc[p] \notin {"create", "encode"}
      /\ pc[p] \in {"isRunning", "start"} => opts[p] = inited

Inv1 == Inv0 /\ Exclusive /\ Pending /\ Written /\ Settling /\ RecordsInit

\* No command begins while an init runs, and no init while a command does.
LEMMA StepExclusive ==
  ASSUME "init" \in Alone, TypeOK, Shape, Exclusive, [Next]_vars
  PROVE  Exclusive'
<1>. USE DEF Exclusive, cli, handlers, history, Goto, At, Begin, MayBegin, End,
         Fails, TypeOK, Shape, Saving
<1>1. ASSUME NEW p \in Clis, NEW d \in Dirs, InitCmd(p, d) PROVE Exclusive'
  BY <1>1 DEF InitCmd
<1>2. ASSUME NEW p \in Clis, NEW d \in Dirs, NEW c \in Wanted, ClientCmd(p, d, c)
     PROVE  Exclusive'
  BY <1>2 DEF ClientCmd
<1>3. ASSUME NEW p \in Clis, NEW c \in Commands, RemoveCmd(p, c) PROVE Exclusive'
  BY <1>3 DEF RemoveCmd
<1>4. ASSUME NEW p \in Clis, Look(p) PROVE Exclusive'
  BY <1>4 DEF Look
<1>5. ASSUME NEW p \in Clis, Looked(p) PROVE Exclusive'
  BY <1>5 DEF Looked
<1>6. ASSUME NEW p \in Clis, Kill(p) PROVE Exclusive'
  BY <1>6 DEF Kill
<1>7. ASSUME NEW p \in Clis, Killed(p) PROVE Exclusive'
  BY <1>7 DEF Killed
<1>8. ASSUME NEW p \in Clis, SaveCreate(p) PROVE Exclusive'
  BY <1>8 DEF SaveCreate
<1>9. ASSUME NEW p \in Clis, SaveEncode(p) PROVE Exclusive'
  BY <1>9 DEF SaveEncode
<1>10. ASSUME NEW p \in Clis, IsRunning(p) PROVE Exclusive'
  BY <1>10 DEF IsRunning, Started
<1>11. ASSUME NEW p \in Clis, StartDaemon(p) PROVE Exclusive'
  BY <1>11 DEF StartDaemon, Started
<1>12. ASSUME NEW p \in Clis, EnsureStarted(p) PROVE Exclusive'
  BY <1>12 DEF EnsureStarted
<1>13. ASSUME NEW p \in Clis, Stat(p) PROVE Exclusive'
  BY <1>13 DEF Stat
<1>14. ASSUME NEW p \in Clis, Read(p) PROVE Exclusive'
  BY <1>14 DEF Read
<1>15. ASSUME NEW p \in Clis, Call(p) PROVE Exclusive'
  BY <1>15 DEF Call
<1>16. ASSUME NEW p \in Clis, Answered(p) PROVE Exclusive'
  BY <1>16 DEF Answered
<1>17. ASSUME NEW p \in Clis, List(p) PROVE Exclusive'
  BY <1>17 DEF List
<1>18. ASSUME NEW p \in Clis, RemoveOne(p) PROVE Exclusive'
  BY <1>18 DEF RemoveOne
<1>19. ASSUME NEW p \in Clis, RemoveFails(p) PROVE Exclusive'
  BY <1>19 DEF RemoveFails
<1>20. ASSUME NEW p \in Clis, Removed(p) PROVE Exclusive'
  BY <1>20 DEF Removed
<1>21. ASSUME NEW p \in Clis, CleanUp(p) PROVE Exclusive'
  BY <1>21 DEF CleanUp
<1>22. ASSUME NEW p \in Clis, RunCheck(p) PROVE Exclusive'
  BY <1>22 DEF RunCheck
<1>23. ASSUME NEW p \in Clis, RunStart(p) PROVE Exclusive'
  BY <1>23 DEF RunStart
<1>24. ASSUME NEW p \in Clis, RunDone(p) PROVE Exclusive'
  BY <1>24 DEF RunDone
<1>25. ASSUME NEW p \in Clis, Crash(p) PROVE Exclusive'
  BY <1>25 DEF Crash
<1>26. ASSUME NEW k \in Confs, EditConfig(k) PROVE Exclusive'
  BY <1>26 DEF EditConfig
<1>27. ASSUME NEW c \in Components, Exit(c) PROVE Exclusive'
  BY <1>27 DEF Exit
<1>28. CASE UNCHANGED vars
  BY <1>28 DEF vars
<1>. QED
  BY <1>1, <1>2, <1>3, <1>4, <1>5, <1>6, <1>7, <1>8, <1>9, <1>10, <1>11, <1>12,
     <1>13, <1>14, <1>15, <1>16, <1>17, <1>18, <1>19, <1>20, <1>21, <1>22, <1>23,
     <1>24, <1>25, <1>26, <1>27, <1>28 DEF Next, CliStep, HandlerStep

\* Whatever runs beside an init that has ended agrees with it.
LEMMA StepRecords ==
  ASSUME Inv1, [Next]_vars
  PROVE  (Pending /\ Written /\ Settling /\ RecordsInit)'
<1>. USE DEF Inv1, Inv0, Exclusive, Pending, Written, Settling, RecordsInit,
         Holding, cli, handlers, history, Goto, At, Begin, MayBegin, End, Fails,
         TypeOK, Shape, Saving
<1>1. ASSUME NEW p \in Clis, NEW d \in Dirs, InitCmd(p, d)
     PROVE  (Pending /\ Written /\ Settling /\ RecordsInit)'
  BY <1>1 DEF InitCmd
<1>2. ASSUME NEW p \in Clis, NEW d \in Dirs, NEW c \in Wanted, ClientCmd(p, d, c)
     PROVE  (Pending /\ Written /\ Settling /\ RecordsInit)'
  BY <1>2 DEF ClientCmd
<1>3. ASSUME NEW p \in Clis, NEW c \in Commands, RemoveCmd(p, c)
     PROVE  (Pending /\ Written /\ Settling /\ RecordsInit)'
  BY <1>3 DEF RemoveCmd
<1>4. ASSUME NEW p \in Clis, Look(p)
     PROVE  (Pending /\ Written /\ Settling /\ RecordsInit)'
  BY <1>4 DEF Look
<1>5. ASSUME NEW p \in Clis, Looked(p)
     PROVE  (Pending /\ Written /\ Settling /\ RecordsInit)'
  BY <1>5 DEF Looked
<1>6. ASSUME NEW p \in Clis, Kill(p)
     PROVE  (Pending /\ Written /\ Settling /\ RecordsInit)'
  BY <1>6 DEF Kill
<1>7. ASSUME NEW p \in Clis, Killed(p)
     PROVE  (Pending /\ Written /\ Settling /\ RecordsInit)'
  BY <1>7 DEF Killed
<1>8. ASSUME NEW p \in Clis, SaveCreate(p)
     PROVE  (Pending /\ Written /\ Settling /\ RecordsInit)'
  BY <1>8 DEF SaveCreate
<1>9. ASSUME NEW p \in Clis, SaveEncode(p)
     PROVE  (Pending /\ Written /\ Settling /\ RecordsInit)'
  BY <1>9 DEF SaveEncode
<1>10. ASSUME NEW p \in Clis, IsRunning(p)
     PROVE  (Pending /\ Written /\ Settling /\ RecordsInit)'
  BY <1>10 DEF IsRunning, Started
<1>11. ASSUME NEW p \in Clis, StartDaemon(p)
     PROVE  (Pending /\ Written /\ Settling /\ RecordsInit)'
  BY <1>11 DEF StartDaemon, Started
<1>12. ASSUME NEW p \in Clis, EnsureStarted(p)
     PROVE  (Pending /\ Written /\ Settling /\ RecordsInit)'
  BY <1>12 DEF EnsureStarted
<1>13. ASSUME NEW p \in Clis, Stat(p)
     PROVE  (Pending /\ Written /\ Settling /\ RecordsInit)'
  BY <1>13, NotOptionsAssumption DEF Stat
<1>14. ASSUME NEW p \in Clis, Read(p)
     PROVE  (Pending /\ Written /\ Settling /\ RecordsInit)'
  BY <1>14, NotOptionsAssumption DEF Read
<1>15. ASSUME NEW p \in Clis, Call(p)
     PROVE  (Pending /\ Written /\ Settling /\ RecordsInit)'
  BY <1>15 DEF Call
<1>16. ASSUME NEW p \in Clis, Answered(p)
     PROVE  (Pending /\ Written /\ Settling /\ RecordsInit)'
  BY <1>16 DEF Answered
<1>17. ASSUME NEW p \in Clis, List(p)
     PROVE  (Pending /\ Written /\ Settling /\ RecordsInit)'
  BY <1>17 DEF List
<1>18. ASSUME NEW p \in Clis, RemoveOne(p)
     PROVE  (Pending /\ Written /\ Settling /\ RecordsInit)'
  BY <1>18 DEF RemoveOne
<1>19. ASSUME NEW p \in Clis, RemoveFails(p)
     PROVE  (Pending /\ Written /\ Settling /\ RecordsInit)'
  BY <1>19 DEF RemoveFails
<1>20. ASSUME NEW p \in Clis, Removed(p)
     PROVE  (Pending /\ Written /\ Settling /\ RecordsInit)'
  BY <1>20 DEF Removed
<1>21. ASSUME NEW p \in Clis, CleanUp(p)
     PROVE  (Pending /\ Written /\ Settling /\ RecordsInit)'
  BY <1>21 DEF CleanUp
<1>22. ASSUME NEW p \in Clis, RunCheck(p)
     PROVE  (Pending /\ Written /\ Settling /\ RecordsInit)'
  BY <1>22 DEF RunCheck
<1>23. ASSUME NEW p \in Clis, RunStart(p)
     PROVE  (Pending /\ Written /\ Settling /\ RecordsInit)'
  BY <1>23 DEF RunStart
<1>24. ASSUME NEW p \in Clis, RunDone(p)
     PROVE  (Pending /\ Written /\ Settling /\ RecordsInit)'
  BY <1>24 DEF RunDone
<1>25. ASSUME NEW p \in Clis, Crash(p)
     PROVE  (Pending /\ Written /\ Settling /\ RecordsInit)'
  BY <1>25 DEF Crash
<1>26. ASSUME NEW k \in Confs, EditConfig(k)
     PROVE  (Pending /\ Written /\ Settling /\ RecordsInit)'
  BY <1>26 DEF EditConfig
<1>27. ASSUME NEW c \in Components, Exit(c)
     PROVE  (Pending /\ Written /\ Settling /\ RecordsInit)'
  BY <1>27 DEF Exit
<1>28. CASE UNCHANGED vars
  BY <1>28 DEF vars
<1>. QED
  BY <1>1, <1>2, <1>3, <1>4, <1>5, <1>6, <1>7, <1>8, <1>9, <1>10, <1>11, <1>12,
     <1>13, <1>14, <1>15, <1>16, <1>17, <1>18, <1>19, <1>20, <1>21, <1>22, <1>23,
     <1>24, <1>25, <1>26, <1>27, <1>28 DEF Next, CliStep, HandlerStep

-----------------------------------------------------------------------------
(* What runs when init begins is killed before init saves.                 *)

\* A container that an init has seen, or has yet to look at, is killed.
Doomed(c) ==
  \A p \in Clis : cmd[p] = "init" =>
    \/ up[c] = Down
    \/ pc[p] = "look" /\ c \in check[p] \cup todo[p]
    \/ pc[p] = "kill" /\ c \in todo[p]

\* Handlers run other components, never the daemon.
Handling ==
  \A p \in Clis :
    /\ left[p] \subseteq Components \ {"daemon"}
    /\ srv[p] = "start" => left[p] # {}

\* What clients ask for.
Asking ==
  \A p \in Clis : cmd[p] = "client" => todo[p] \subseteq Components \ {"daemon"}

\* If no command is broken off, a handler works for a client that waits.
Waiting == \A p \in Clis : srv[p] # "none" => pc[p] = "wait"

Inv2 == Inv1 /\ Handling /\ Asking

\* What clients ask for stays.
LEMMA StepAsking ==
  ASSUME TypeOK, Shape, Asking, [Next]_vars
  PROVE  Asking'
<1>. USE DEF Asking, cli, handlers, history, Goto, At, Begin, MayBegin, End,
         Fails, TypeOK, Shape, Saving
<1>1. ASSUME NEW p \in Clis, NEW d \in Dirs, InitCmd(p, d) PROVE Asking'
  BY <1>1 DEF InitCmd
<1>2. ASSUME NEW p \in Clis, NEW d \in Dirs, NEW c \in Wanted, ClientCmd(p, d, c)
     PROVE  Asking'
  BY <1>2, LifecycleAssumption DEF ClientCmd
<1>3. ASSUME NEW p \in Clis, NEW c \in Commands, RemoveCmd(p, c) PROVE Asking'
  BY <1>3 DEF RemoveCmd
<1>4. ASSUME NEW p \in Clis, Look(p) PROVE Asking'
  BY <1>4 DEF Look
<1>5. ASSUME NEW p \in Clis, Looked(p) PROVE Asking'
  BY <1>5 DEF Looked
<1>6. ASSUME NEW p \in Clis, Kill(p) PROVE Asking'
  BY <1>6 DEF Kill
<1>7. ASSUME NEW p \in Clis, Killed(p) PROVE Asking'
  BY <1>7 DEF Killed
<1>8. ASSUME NEW p \in Clis, SaveCreate(p) PROVE Asking'
  BY <1>8 DEF SaveCreate
<1>9. ASSUME NEW p \in Clis, SaveEncode(p) PROVE Asking'
  BY <1>9 DEF SaveEncode
<1>10. ASSUME NEW p \in Clis, IsRunning(p) PROVE Asking'
  BY <1>10 DEF IsRunning, Started
<1>11. ASSUME NEW p \in Clis, StartDaemon(p) PROVE Asking'
  BY <1>11 DEF StartDaemon, Started
<1>12. ASSUME NEW p \in Clis, EnsureStarted(p) PROVE Asking'
  BY <1>12 DEF EnsureStarted
<1>13. ASSUME NEW p \in Clis, Stat(p) PROVE Asking'
  BY <1>13 DEF Stat
<1>14. ASSUME NEW p \in Clis, Read(p) PROVE Asking'
  BY <1>14 DEF Read
<1>15. ASSUME NEW p \in Clis, Call(p) PROVE Asking'
  BY <1>15 DEF Call
<1>16. ASSUME NEW p \in Clis, Answered(p) PROVE Asking'
  BY <1>16 DEF Answered
<1>17. ASSUME NEW p \in Clis, List(p) PROVE Asking'
  BY <1>17 DEF List
<1>18. ASSUME NEW p \in Clis, RemoveOne(p) PROVE Asking'
  BY <1>18 DEF RemoveOne
<1>19. ASSUME NEW p \in Clis, RemoveFails(p) PROVE Asking'
  BY <1>19 DEF RemoveFails
<1>20. ASSUME NEW p \in Clis, Removed(p) PROVE Asking'
  BY <1>20 DEF Removed
<1>21. ASSUME NEW p \in Clis, CleanUp(p) PROVE Asking'
  BY <1>21 DEF CleanUp
<1>22. ASSUME NEW p \in Clis, RunCheck(p) PROVE Asking'
  BY <1>22 DEF RunCheck
<1>23. ASSUME NEW p \in Clis, RunStart(p) PROVE Asking'
  BY <1>23 DEF RunStart
<1>24. ASSUME NEW p \in Clis, RunDone(p) PROVE Asking'
  BY <1>24 DEF RunDone
<1>25. ASSUME NEW p \in Clis, Crash(p) PROVE Asking'
  BY <1>25 DEF Crash
<1>26. ASSUME NEW k \in Confs, EditConfig(k) PROVE Asking'
  BY <1>26 DEF EditConfig
<1>27. ASSUME NEW c \in Components, Exit(c) PROVE Asking'
  BY <1>27 DEF Exit
<1>28. CASE UNCHANGED vars
  BY <1>28 DEF vars
<1>. QED
  BY <1>1, <1>2, <1>3, <1>4, <1>5, <1>6, <1>7, <1>8, <1>9, <1>10, <1>11, <1>12,
     <1>13, <1>14, <1>15, <1>16, <1>17, <1>18, <1>19, <1>20, <1>21, <1>22, <1>23,
     <1>24, <1>25, <1>26, <1>27, <1>28 DEF Next, CliStep, HandlerStep

\* Handlers keep off the daemon.
LEMMA StepHandling ==
  ASSUME TypeOK, Shape, Asking, Handling, [Next]_vars
  PROVE  Handling'
<1>. USE DEF Handling, Asking, cli, handlers, history, Goto, At, Begin, MayBegin,
         End, Fails, TypeOK, Shape, Saving, Replace, HandlerEnds
<1>1. ASSUME NEW p \in Clis, NEW d \in Dirs, InitCmd(p, d) PROVE Handling'
  BY <1>1 DEF InitCmd
<1>2. ASSUME NEW p \in Clis, NEW d \in Dirs, NEW c \in Wanted, ClientCmd(p, d, c)
     PROVE  Handling'
  BY <1>2 DEF ClientCmd
<1>3. ASSUME NEW p \in Clis, NEW c \in Commands, RemoveCmd(p, c) PROVE Handling'
  BY <1>3 DEF RemoveCmd
<1>4. ASSUME NEW p \in Clis, Look(p) PROVE Handling'
  BY <1>4 DEF Look
<1>5. ASSUME NEW p \in Clis, Looked(p) PROVE Handling'
  BY <1>5 DEF Looked
<1>6. ASSUME NEW p \in Clis, Kill(p) PROVE Handling'
  BY <1>6 DEF Kill
<1>7. ASSUME NEW p \in Clis, Killed(p) PROVE Handling'
  BY <1>7 DEF Killed
<1>8. ASSUME NEW p \in Clis, SaveCreate(p) PROVE Handling'
  BY <1>8 DEF SaveCreate
<1>9. ASSUME NEW p \in Clis, SaveEncode(p) PROVE Handling'
  BY <1>9 DEF SaveEncode
<1>10. ASSUME NEW p \in Clis, IsRunning(p) PROVE Handling'
  BY <1>10 DEF IsRunning
<1>11. ASSUME NEW p \in Clis, StartDaemon(p) PROVE Handling'
  BY <1>11 DEF StartDaemon
<1>12. ASSUME NEW p \in Clis, EnsureStarted(p) PROVE Handling'
  BY <1>12 DEF EnsureStarted
<1>13. ASSUME NEW p \in Clis, Stat(p) PROVE Handling'
  BY <1>13 DEF Stat
<1>14. ASSUME NEW p \in Clis, Read(p) PROVE Handling'
  BY <1>14 DEF Read
<1>15. ASSUME NEW p \in Clis, Call(p) PROVE Handling'
  BY <1>15, NeedsComponents DEF Call
<1>16. ASSUME NEW p \in Clis, Answered(p) PROVE Handling'
  BY <1>16 DEF Answered
<1>17. ASSUME NEW p \in Clis, List(p) PROVE Handling'
  BY <1>17 DEF List
<1>18. ASSUME NEW p \in Clis, RemoveOne(p) PROVE Handling'
  BY <1>18 DEF RemoveOne
<1>19. ASSUME NEW p \in Clis, RemoveFails(p) PROVE Handling'
  BY <1>19 DEF RemoveFails
<1>20. ASSUME NEW p \in Clis, Removed(p) PROVE Handling'
  BY <1>20 DEF Removed
<1>21. ASSUME NEW p \in Clis, CleanUp(p) PROVE Handling'
  BY <1>21 DEF CleanUp
<1>22. ASSUME NEW p \in Clis, RunCheck(p) PROVE Handling'
  BY <1>22 DEF RunCheck
<1>23. ASSUME NEW p \in Clis, RunStart(p) PROVE Handling'
  BY <1>23 DEF RunStart
<1>24. ASSUME NEW p \in Clis, RunDone(p) PROVE Handling'
  BY <1>24 DEF RunDone
<1>25. ASSUME NEW p \in Clis, Crash(p) PROVE Handling'
  BY <1>25 DEF Crash
<1>26. ASSUME NEW k \in Confs, EditConfig(k) PROVE Handling'
  BY <1>26 DEF EditConfig
<1>27. ASSUME NEW c \in Components, Exit(c) PROVE Handling'
  BY <1>27 DEF Exit
<1>28. CASE UNCHANGED vars
  BY <1>28 DEF vars
<1>. QED
  BY <1>1, <1>2, <1>3, <1>4, <1>5, <1>6, <1>7, <1>8, <1>9, <1>10, <1>11, <1>12,
     <1>13, <1>14, <1>15, <1>16, <1>17, <1>18, <1>19, <1>20, <1>21, <1>22, <1>23,
     <1>24, <1>25, <1>26, <1>27, <1>28 DEF Next, CliStep, HandlerStep

\* Without crashes, handlers stay with their clients.
LEMMA StepWaiting ==
  ASSUME "crash" \notin Faulty, TypeOK, Shape, Waiting, [Next]_vars
  PROVE  Waiting'
<1>. USE DEF Waiting, cli, handlers, history, Goto, At, Begin, MayBegin, End,
         Fails, TypeOK, Shape, Saving, Replace, HandlerEnds
<1>1. ASSUME NEW p \in Clis, NEW d \in Dirs, InitCmd(p, d) PROVE Waiting'
  BY <1>1 DEF InitCmd
<1>2. ASSUME NEW p \in Clis, NEW d \in Dirs, NEW c \in Wanted, ClientCmd(p, d, c)
     PROVE  Waiting'
  BY <1>2 DEF ClientCmd
<1>3. ASSUME NEW p \in Clis, NEW c \in Commands, RemoveCmd(p, c) PROVE Waiting'
  BY <1>3 DEF RemoveCmd
<1>4. ASSUME NEW p \in Clis, Look(p) PROVE Waiting'
  BY <1>4 DEF Look
<1>5. ASSUME NEW p \in Clis, Looked(p) PROVE Waiting'
  BY <1>5 DEF Looked
<1>6. ASSUME NEW p \in Clis, Kill(p) PROVE Waiting'
  BY <1>6 DEF Kill
<1>7. ASSUME NEW p \in Clis, Killed(p) PROVE Waiting'
  BY <1>7 DEF Killed
<1>8. ASSUME NEW p \in Clis, SaveCreate(p) PROVE Waiting'
  BY <1>8 DEF SaveCreate
<1>9. ASSUME NEW p \in Clis, SaveEncode(p) PROVE Waiting'
  BY <1>9 DEF SaveEncode
<1>10. ASSUME NEW p \in Clis, IsRunning(p) PROVE Waiting'
  BY <1>10 DEF IsRunning, Started
<1>11. ASSUME NEW p \in Clis, StartDaemon(p) PROVE Waiting'
  BY <1>11 DEF StartDaemon, Started
<1>12. ASSUME NEW p \in Clis, EnsureStarted(p) PROVE Waiting'
  BY <1>12 DEF EnsureStarted
<1>13. ASSUME NEW p \in Clis, Stat(p) PROVE Waiting'
  BY <1>13 DEF Stat
<1>14. ASSUME NEW p \in Clis, Read(p) PROVE Waiting'
  BY <1>14 DEF Read
<1>15. ASSUME NEW p \in Clis, Call(p) PROVE Waiting'
  BY <1>15 DEF Call
<1>16. ASSUME NEW p \in Clis, Answered(p) PROVE Waiting'
  BY <1>16 DEF Answered
<1>17. ASSUME NEW p \in Clis, List(p) PROVE Waiting'
  BY <1>17 DEF List
<1>18. ASSUME NEW p \in Clis, RemoveOne(p) PROVE Waiting'
  BY <1>18 DEF RemoveOne
<1>19. ASSUME NEW p \in Clis, RemoveFails(p) PROVE Waiting'
  BY <1>19 DEF RemoveFails
<1>20. ASSUME NEW p \in Clis, Removed(p) PROVE Waiting'
  BY <1>20 DEF Removed
<1>21. ASSUME NEW p \in Clis, CleanUp(p) PROVE Waiting'
  BY <1>21 DEF CleanUp
<1>22. ASSUME NEW p \in Clis, RunCheck(p) PROVE Waiting'
  BY <1>22 DEF RunCheck
<1>23. ASSUME NEW p \in Clis, RunStart(p) PROVE Waiting'
  BY <1>23 DEF RunStart
<1>24. ASSUME NEW p \in Clis, RunDone(p) PROVE Waiting'
  BY <1>24 DEF RunDone
<1>25. ASSUME NEW p \in Clis, Crash(p) PROVE Waiting'
  BY <1>25 DEF Crash
<1>26. ASSUME NEW k \in Confs, EditConfig(k) PROVE Waiting'
  BY <1>26 DEF EditConfig
<1>27. ASSUME NEW c \in Components, Exit(c) PROVE Waiting'
  BY <1>27 DEF Exit
<1>28. CASE UNCHANGED vars
  BY <1>28 DEF vars
<1>. QED
  BY <1>1, <1>2, <1>3, <1>4, <1>5, <1>6, <1>7, <1>8, <1>9, <1>10, <1>11, <1>12,
     <1>13, <1>14, <1>15, <1>16, <1>17, <1>18, <1>19, <1>20, <1>21, <1>22, <1>23,
     <1>24, <1>25, <1>26, <1>27, <1>28 DEF Next, CliStep, HandlerStep

\* What an init has seen does not come back.
LEMMA StepDoomed ==
  ASSUME "filter" \notin Faulty, NEW x \in WorkDirDependants, Inv2, x = "daemon" \/ Waiting,
         Doomed(x), [Next]_vars
  PROVE  Doomed(x)'
<1>. USE DEF Inv2, Inv1, Inv0, Exclusive, Doomed, cli, handlers, history, Goto,
         At, Begin, MayBegin, End, Fails, TypeOK, Shape, Saving, Replace,
         HandlerEnds
<1>1. ASSUME NEW p \in Clis, NEW d \in Dirs, InitCmd(p, d) PROVE Doomed(x)'
  BY <1>1 DEF InitCmd
<1>2. ASSUME NEW p \in Clis, NEW d \in Dirs, NEW c \in Wanted, ClientCmd(p, d, c)
     PROVE  Doomed(x)'
  BY <1>2 DEF ClientCmd
<1>3. ASSUME NEW p \in Clis, NEW c \in Commands, RemoveCmd(p, c) PROVE Doomed(x)'
  BY <1>3 DEF RemoveCmd
<1>4. ASSUME NEW p \in Clis, Look(p) PROVE Doomed(x)'
  <2>1. PICK c : /\ check' = [check EXCEPT ![p] = check[p] \ {c}]
                 /\ todo' = [todo EXCEPT ![p] = IF Running(c) THEN todo[p] \cup {c} ELSE todo[p]]
    BY <1>4 DEF Look
  <2>2. pc[p] = "look" /\ cmd[p] = "init" /\ UNCHANGED <<up, cmd, pc>>
    BY <1>4 DEF Look
  <2>3. up[x] = Down \/ x \in check[p] \cup todo[p]
    BY <2>2
  <2>4. up[x] = Down \/ x \in check'[p] \cup todo'[p]
    BY <2>1, <2>3 DEF Running
  <2>. QED  BY <2>2, <2>4
<1>5. ASSUME NEW p \in Clis, Looked(p) PROVE Doomed(x)'
  BY <1>5 DEF Looked
<1>6. ASSUME NEW p \in Clis, Kill(p) PROVE Doomed(x)'
  <2>1. PICK c : \/ /\ Replace(c, Down)
                    /\ todo' = [todo EXCEPT ![p] = todo[p] \ {c}]
                    /\ UNCHANGED <<cmd, pc, opts, check>>
                 \/ /\ Fails(p, "kill")
                    /\ UNCHANGED <<up, handlers>> \/ Replace(c, Down)
    BY <1>6 DEF Kill
  <2>2. pc[p] = "kill" /\ cmd[p] = "init" /\ (up[x] = Down \/ x \in todo[p])
    BY <1>6 DEF Kill
  <2>3. x \in Components
    BY DEF WorkDirDependants, Components
  <2>. QED  BY <2>1, <2>2, <2>3
<1>7. ASSUME NEW p \in Clis, Killed(p) PROVE Doomed(x)'
  BY <1>7 DEF Killed
<1>8. ASSUME NEW p \in Clis, SaveCreate(p) PROVE Doomed(x)'
  BY <1>8 DEF SaveCreate
<1>9. ASSUME NEW p \in Clis, SaveEncode(p) PROVE Doomed(x)'
  BY <1>9 DEF SaveEncode
<1>10. ASSUME NEW p \in Clis, IsRunning(p) PROVE Doomed(x)'
  BY <1>10 DEF IsRunning, Started
<1>11. ASSUME NEW p \in Clis, StartDaemon(p) PROVE Doomed(x)'
  BY <1>11 DEF StartDaemon, Started
<1>12. ASSUME NEW p \in Clis, EnsureStarted(p) PROVE Doomed(x)'
  BY <1>12 DEF EnsureStarted
<1>13. ASSUME NEW p \in Clis, Stat(p) PROVE Doomed(x)'
  BY <1>13 DEF Stat
<1>14. ASSUME NEW p \in Clis, Read(p) PROVE Doomed(x)'
  BY <1>14 DEF Read
<1>15. ASSUME NEW p \in Clis, Call(p) PROVE Doomed(x)'
  BY <1>15 DEF Call
<1>16. ASSUME NEW p \in Clis, Answered(p) PROVE Doomed(x)'
  BY <1>16 DEF Answered
<1>17. ASSUME NEW p \in Clis, List(p) PROVE Doomed(x)'
  BY <1>17 DEF List
<1>18. ASSUME NEW p \in Clis, RemoveOne(p) PROVE Doomed(x)'
  BY <1>18 DEF RemoveOne
<1>19. ASSUME NEW p \in Clis, RemoveFails(p) PROVE Doomed(x)'
  BY <1>19 DEF RemoveFails
<1>20. ASSUME NEW p \in Clis, Removed(p) PROVE Doomed(x)'
  BY <1>20 DEF Removed
<1>21. ASSUME NEW p \in Clis, CleanUp(p) PROVE Doomed(x)'
  BY <1>21 DEF CleanUp
<1>22. ASSUME NEW p \in Clis, RunCheck(p) PROVE Doomed(x)'
  BY <1>22 DEF RunCheck
<1>23. ASSUME NEW p \in Clis, RunStart(p) PROVE Doomed(x)'
  <2>1. PICK c \in left[p] : \A d \in Components : d # c => up'[d] = up[d]
    <3>1. left[p] # {} /\ left[p] \in SUBSET Components
      BY <1>23 DEF RunStart, Handling
    <3>2. First(left[p]) \in left[p]
      BY <3>1, FirstInSet
    <3>. QED  BY <1>23, <3>1, <3>2 DEF RunStart
  <2>2. UNCHANGED cli
    BY <1>23 DEF RunStart
  <2>3. CASE x = "daemon"
    <3>1. up'[x] = up[x]
      BY <2>1, <2>3 DEF Handling, Components
    <3>. QED  BY <2>2, <3>1
  <2>4. CASE Waiting
    <3>1. cmd[p] = "client"
      BY <1>23, <2>4 DEF RunStart, Waiting
    <3>. QED  BY <2>2, <3>1
  <2>. QED  BY <2>3, <2>4
<1>24. ASSUME NEW p \in Clis, RunDone(p) PROVE Doomed(x)'
  BY <1>24 DEF RunDone
<1>25. ASSUME NEW p \in Clis, Crash(p) PROVE Doomed(x)'
  BY <1>25 DEF Crash
<1>26. ASSUME NEW k \in Confs, EditConfig(k) PROVE Doomed(x)'
  BY <1>26 DEF EditConfig
<1>27. ASSUME NEW c \in Components, Exit(c) PROVE Doomed(x)'
  BY <1>27 DEF Exit
<1>28. CASE UNCHANGED vars
  BY <1>28 DEF vars
<1>. QED
  BY <1>1, <1>2, <1>3, <1>4, <1>5, <1>6, <1>7, <1>8, <1>9, <1>10, <1>11, <1>12,
     <1>13, <1>14, <1>15, <1>16, <1>17, <1>18, <1>19, <1>20, <1>21, <1>22, <1>23,
     <1>24, <1>25, <1>26, <1>27, <1>28 DEF Next, CliStep, HandlerStep

\* After an init a daemon has the options of that init.
LEMMA StepHonors ==
  ASSUME Inv2, Doomed("daemon"), HonorsInit, [Next]_vars
  PROVE  HonorsInit'
<1>. USE DEF Inv2, Inv1, Inv0, Exclusive, Pending, Settling, Doomed, HonorsInit,
         cli, handlers, history, Goto, At, Begin, MayBegin, End, Fails, TypeOK,
         Shape, Saving, Replace, HandlerEnds
<1>1. ASSUME NEW p \in Clis, NEW d \in Dirs, InitCmd(p, d) PROVE HonorsInit'
  BY <1>1 DEF InitCmd
<1>2. ASSUME NEW p \in Clis, NEW d \in Dirs, NEW c \in Wanted, ClientCmd(p, d, c)
     PROVE  HonorsInit'
  BY <1>2 DEF ClientCmd
<1>3. ASSUME NEW p \in Clis, NEW c \in Commands, RemoveCmd(p, c) PROVE HonorsInit'
  BY <1>3 DEF RemoveCmd
<1>4. ASSUME NEW p \in Clis, Look(p) PROVE HonorsInit'
  BY <1>4 DEF Look
<1>5. ASSUME NEW p \in Clis, Looked(p) PROVE HonorsInit'
  BY <1>5 DEF Looked
<1>6. ASSUME NEW p \in Clis, Kill(p) PROVE HonorsInit'
  BY <1>6 DEF Kill
<1>7. ASSUME NEW p \in Clis, Killed(p) PROVE HonorsInit'
  BY <1>7 DEF Killed
<1>8. ASSUME NEW p \in Clis, SaveCreate(p) PROVE HonorsInit'
  BY <1>8 DEF SaveCreate
<1>9. ASSUME NEW p \in Clis, SaveEncode(p) PROVE HonorsInit'
  BY <1>9 DEF SaveEncode
<1>10. ASSUME NEW p \in Clis, IsRunning(p) PROVE HonorsInit'
  BY <1>10 DEF IsRunning, Started
<1>11. ASSUME NEW p \in Clis, StartDaemon(p) PROVE HonorsInit'
  BY <1>11 DEF StartDaemon, Started
<1>12. ASSUME NEW p \in Clis, EnsureStarted(p) PROVE HonorsInit'
  BY <1>12 DEF EnsureStarted
<1>13. ASSUME NEW p \in Clis, Stat(p) PROVE HonorsInit'
  BY <1>13 DEF Stat
<1>14. ASSUME NEW p \in Clis, Read(p) PROVE HonorsInit'
  BY <1>14 DEF Read
<1>15. ASSUME NEW p \in Clis, Call(p) PROVE HonorsInit'
  BY <1>15 DEF Call
<1>16. ASSUME NEW p \in Clis, Answered(p) PROVE HonorsInit'
  BY <1>16 DEF Answered
<1>17. ASSUME NEW p \in Clis, List(p) PROVE HonorsInit'
  BY <1>17 DEF List
<1>18. ASSUME NEW p \in Clis, RemoveOne(p) PROVE HonorsInit'
  <2>1. \A x \in Components : up'[x] \in {up[x], Down}
    BY <1>18 DEF RemoveOne
  <2>2. UNCHANGED inited
    BY <1>18 DEF RemoveOne
  <2>. QED  BY <2>1, <2>2 DEF Components
<1>19. ASSUME NEW p \in Clis, RemoveFails(p) PROVE HonorsInit'
  <2>1. \A x \in Components : up'[x] \in {up[x], Down}
    BY <1>19 DEF RemoveFails
  <2>2. UNCHANGED inited
    BY <1>19 DEF RemoveFails
  <2>. QED  BY <2>1, <2>2 DEF Components
<1>20. ASSUME NEW p \in Clis, Removed(p) PROVE HonorsInit'
  BY <1>20 DEF Removed
<1>21. ASSUME NEW p \in Clis, CleanUp(p) PROVE HonorsInit'
  BY <1>21 DEF CleanUp
<1>22. ASSUME NEW p \in Clis, RunCheck(p) PROVE HonorsInit'
  BY <1>22 DEF RunCheck
<1>23. ASSUME NEW p \in Clis, RunStart(p) PROVE HonorsInit'
  <2>1. First(left[p]) \in left[p]
    BY <1>23, FirstInSet DEF RunStart, Handling
  <2>2. First(left[p]) # "daemon"
    BY <2>1 DEF Handling
  <2>3. up'["daemon"] = up["daemon"] /\ UNCHANGED inited
    BY <1>23, <2>2 DEF RunStart, Components
  <2>. QED  BY <2>3
<1>24. ASSUME NEW p \in Clis, RunDone(p) PROVE HonorsInit'
  BY <1>24 DEF RunDone
<1>25. ASSUME NEW p \in Clis, Crash(p) PROVE HonorsInit'
  BY <1>25 DEF Crash
<1>26. ASSUME NEW k \in Confs, EditConfig(k) PROVE HonorsInit'
  BY <1>26 DEF EditConfig
<1>27. ASSUME NEW c \in Components, Exit(c) PROVE HonorsInit'
  BY <1>27 DEF Exit
<1>28. CASE UNCHANGED vars
  BY <1>28 DEF vars
<1>. QED
  BY <1>1, <1>2, <1>3, <1>4, <1>5, <1>6, <1>7, <1>8, <1>9, <1>10, <1>11, <1>12,
     <1>13, <1>14, <1>15, <1>16, <1>17, <1>18, <1>19, <1>20, <1>21, <1>22, <1>23,
     <1>24, <1>25, <1>26, <1>27, <1>28 DEF Next, CliStep, HandlerStep

\* After an init what depends on the working directory has the options of that init.
LEMMA StepAgrees ==
  ASSUME Inv2, \A x \in WorkDirDependants : Doomed(x), Waiting, ComponentsAgree, [Next]_vars
  PROVE  ComponentsAgree'
<1>. USE DEF Inv2, Inv1, Inv0, Exclusive, Pending, Settling, Doomed,
         ComponentsAgree, cli, handlers, history, Goto, At, Begin, MayBegin, End,
         Fails, TypeOK, Shape, Saving, Replace, HandlerEnds
<1>1. ASSUME NEW p \in Clis, NEW d \in Dirs, InitCmd(p, d) PROVE ComponentsAgree'
  BY <1>1 DEF InitCmd
<1>2. ASSUME NEW p \in Clis, NEW d \in Dirs, NEW c \in Wanted, ClientCmd(p, d, c)
     PROVE  ComponentsAgree'
  BY <1>2 DEF ClientCmd
<1>3. ASSUME NEW p \in Clis, NEW c \in Commands, RemoveCmd(p, c)
     PROVE  ComponentsAgree'
  BY <1>3 DEF RemoveCmd
<1>4. ASSUME NEW p \in Clis, Look(p) PROVE ComponentsAgree'
  BY <1>4 DEF Look
<1>5. ASSUME NEW p \in Clis, Looked(p) PROVE ComponentsAgree'
  BY <1>5 DEF Looked
<1>6. ASSUME NEW p \in Clis, Kill(p) PROVE ComponentsAgree'
  BY <1>6 DEF Kill
<1>7. ASSUME NEW p \in Clis, Killed(p) PROVE ComponentsAgree'
  BY <1>7 DEF Killed
<1>8. ASSUME NEW p \in Clis, SaveCreate(p) PROVE ComponentsAgree'
  BY <1>8 DEF SaveCreate
<1>9. ASSUME NEW p \in Clis, SaveEncode(p) PROVE ComponentsAgree'
  BY <1>9 DEF SaveEncode
<1>10. ASSUME NEW p \in Clis, IsRunning(p) PROVE ComponentsAgree'
  BY <1>10 DEF IsRunning, Started
<1>11. ASSUME NEW p \in Clis, StartDaemon(p) PROVE ComponentsAgree'
  <2>1. CASE Replace("daemon", opts[p]) /\ Started(p)
    <3>1. up' = [up EXCEPT !["daemon"] = opts[p]]
      BY <2>1
    <3>2. CASE cmd[p] = "init"
      <4>1. inited' = opts[p]
        BY <2>1, <3>2 DEF Started
      <4>2. \A x \in WorkDirDependants : up[x] = Down
        BY <1>11, <3>2 DEF StartDaemon
      <4>. QED  BY <3>1, <4>1, <4>2 DEF WorkDirDependants, Components
    <3>3. CASE cmd[p] # "init"
      <4>1. UNCHANGED inited
        BY <2>1, <3>3 DEF Started
      <4>2. inited # Down => opts[p] = inited
        BY <1>11, <3>3 DEF StartDaemon
      <4>. QED  BY <3>1, <4>1, <4>2 DEF WorkDirDependants, Components
    <3>. QED  BY <3>2, <3>3
  <2>2. CASE /\ Fails(p, "start") /\ UNCHANGED history
             /\ UNCHANGED <<up, handlers>> \/ \E o \in {Down, opts[p]} : Replace("daemon", o)
    <3>1. \A x \in Components : up'[x] \in {up[x], Down} \/ up'[x] = opts[p]
      BY <1>11, <2>2 DEF StartDaemon
    <3>2. inited # Down => opts[p] = inited
      BY <1>11 DEF StartDaemon
    <3>. QED  BY <2>2, <3>1, <3>2 DEF WorkDirDependants, Components
  <2>. QED  BY <1>11, <2>1, <2>2 DEF StartDaemon
<1>12. ASSUME NEW p \in Clis, EnsureStarted(p) PROVE ComponentsAgree'
  BY <1>12 DEF EnsureStarted
<1>13. ASSUME NEW p \in Clis, Stat(p) PROVE ComponentsAgree'
  BY <1>13 DEF Stat
<1>14. ASSUME NEW p \in Clis, Read(p) PROVE ComponentsAgree'
  BY <1>14 DEF Read
<1>15. ASSUME NEW p \in Clis, Call(p) PROVE ComponentsAgree'
  BY <1>15 DEF Call
<1>16. ASSUME NEW p \in Clis, Answered(p) PROVE ComponentsAgree'
  BY <1>16 DEF Answered
<1>17. ASSUME NEW p \in Clis, List(p) PROVE ComponentsAgree'
  BY <1>17 DEF List
<1>18. ASSUME NEW p \in Clis, RemoveOne(p) PROVE ComponentsAgree'
  <2>1. \A x \in Components : up'[x] \in {up[x], Down}
    BY <1>18 DEF RemoveOne
  <2>2. UNCHANGED inited
    BY <1>18 DEF RemoveOne
  <2>. QED  BY <2>1, <2>2 DEF Components, WorkDirDependants
<1>19. ASSUME NEW p \in Clis, RemoveFails(p) PROVE ComponentsAgree'
  <2>1. \A x \in Components : up'[x] \in {up[x], Down}
    BY <1>19 DEF RemoveFails
  <2>2. UNCHANGED inited
    BY <1>19 DEF RemoveFails
  <2>. QED  BY <2>1, <2>2 DEF Components, WorkDirDependants
<1>20. ASSUME NEW p \in Clis, Removed(p) PROVE ComponentsAgree'
  BY <1>20 DEF Removed
<1>21. ASSUME NEW p \in Clis, CleanUp(p) PROVE ComponentsAgree'
  BY <1>21 DEF CleanUp
<1>22. ASSUME NEW p \in Clis, RunCheck(p) PROVE ComponentsAgree'
  BY <1>22 DEF RunCheck
<1>23. ASSUME NEW p \in Clis, RunStart(p) PROVE ComponentsAgree'
  <2>1. \A x \in Components : up'[x] \in {up[x], up["daemon"], Down}
    BY <1>23 DEF RunStart
  <2>2. UNCHANGED inited
    BY <1>23 DEF RunStart
  <2>. QED  BY <2>1, <2>2 DEF Components, WorkDirDependants
<1>24. ASSUME NEW p \in Clis, RunDone(p) PROVE ComponentsAgree'
  BY <1>24 DEF RunDone
<1>25. ASSUME NEW p \in Clis, Crash(p) PROVE ComponentsAgree'
  BY <1>25 DEF Crash
<1>26. ASSUME NEW k \in Confs, EditConfig(k) PROVE ComponentsAgree'
  BY <1>26 DEF EditConfig
<1>27. ASSUME NEW c \in Components, Exit(c) PROVE ComponentsAgree'
  BY <1>27 DEF Exit
<1>28. CASE UNCHANGED vars
  BY <1>28 DEF vars
<1>. QED
  BY <1>1, <1>2, <1>3, <1>4, <1>5, <1>6, <1>7, <1>8, <1>9, <1>10, <1>11, <1>12,
     <1>13, <1>14, <1>15, <1>16, <1>17, <1>18, <1>19, <1>20, <1>21, <1>22, <1>23,
     <1>24, <1>25, <1>26, <1>27, <1>28 DEF Next, CliStep, HandlerStep

-----------------------------------------------------------------------------
(* The theorems. *)

\* Inv0 is an invariant: types, labels and options at hand.
LEMMA Inv0Always == Spec => []Inv0
<1>1. Inv0 /\ [Next]_vars => Inv0'
  BY StepShape, StepHolding, StepTyped DEF Inv0
<1>. QED  BY <1>1, InitTyped, PTL DEF Spec

\* Inv1 is an invariant when init runs alone.
LEMMA Inv1Always == ASSUME "init" \in Alone PROVE Spec => []Inv1
<1>1. Init => Inv1
  BY InitTyped DEF Init, Inv1, Exclusive, Pending, Written, Settling, RecordsInit
<1>2. Inv1 /\ [Next]_vars => Inv1'
  BY StepShape, StepHolding, StepTyped, StepExclusive, StepRecords DEF Inv1, Inv0
<1>. QED  BY <1>1, <1>2, PTL DEF Spec

\* Inv2 is an invariant when init runs alone.
LEMMA Inv2Always == ASSUME "init" \in Alone PROVE Spec => []Inv2
<1>1. Init => Inv2
  BY InitTyped
  DEF Init, Inv2, Inv1, Exclusive, Pending, Written, Settling, RecordsInit,
      Handling, Asking
<1>2. Inv2 /\ [Next]_vars => Inv2'
  BY StepShape, StepHolding, StepTyped, StepExclusive, StepRecords, StepHandling,
     StepAsking
  DEF Inv2, Inv1, Inv0
<1>. QED  BY <1>1, <1>2, PTL DEF Spec

\* The state of every command, handler, file and container has its type,
\* whatever runs at once and whatever fails.
THEOREM TypeCorrect == Spec => []TypeOK
<1>1. Inv0 => TypeOK
  BY DEF Inv0
<1>. QED  BY <1>1, Inv0Always, PTL

\* If init runs alone, the state file holds what the last init recorded, for
\* any number of other commands and under every fault.
THEOREM RecordsInitAlways ==
  ASSUME "init" \in Alone
  PROVE  Spec => []RecordsInit
<1>1. Inv1 => RecordsInit
  BY DEF Inv1
<1>. QED  BY <1>1, Inv1Always, PTL

\* If, besides, Kill sees what runs, no daemon has other options than those of
\* the last init, under every other fault, broken-off commands included.
THEOREM HonorsInitAlways ==
  ASSUME "init" \in Alone, "filter" \notin Faulty
  PROVE  Spec => []HonorsInit
<1> DEFINE Inv == Inv2 /\ Doomed("daemon") /\ HonorsInit
<1>1. Init => Doomed("daemon") /\ HonorsInit
  BY DEF Init, Doomed, HonorsInit, Components
<1>2. Inv /\ [Next]_vars => (Doomed("daemon") /\ HonorsInit)'
  BY StepDoomed, StepHonors DEF WorkDirDependants
<1>3. Spec => []Inv2
  BY Inv2Always
<1>. QED  BY <1>1, <1>2, <1>3, PTL DEF Spec

\* If, besides, no command is broken off, everything that depends on the
\* working directory runs with the options of the last init.
THEOREM ComponentsAgreeAlways ==
  ASSUME "init" \in Alone, {"filter", "crash"} \cap Faulty = {}
  PROVE  Spec => []ComponentsAgree
<1> DEFINE AllDoomed == \A x \in WorkDirDependants : Doomed(x)
           Inv == AllDoomed /\ Waiting /\ ComponentsAgree
<1>1. Init => Inv
  BY DEF Init, Doomed, Waiting, ComponentsAgree, Components, WorkDirDependants
<1>2. Inv2 /\ Inv /\ [Next]_vars => Inv'
  <2> SUFFICES ASSUME Inv2, Inv, [Next]_vars PROVE Inv'
    OBVIOUS
  <2>1. AllDoomed'
    <3>1. ASSUME NEW x \in WorkDirDependants PROVE Doomed(x)'
      BY StepDoomed
    <3>. QED  BY <3>1 DEF WorkDirDependants
  <2>2. Waiting'
    BY StepWaiting DEF Inv2, Inv1, Inv0
  <2>3. ComponentsAgree'
    BY StepAgrees
  <2>. QED  BY <2>1, <2>2, <2>3
<1>3. Spec => []Inv2
  BY Inv2Always
<1>. QED  BY <1>1, <1>2, <1>3, PTL DEF Spec

-----------------------------------------------------------------------------
(* The refinement of InitPromise. *)

\* What a step does to what init has promised and to what runs.
OneChange ==
  \/ UNCHANGED up
  \/ \E c \in Components, o \in StartOptions \cup {Down} : up' = [up EXCEPT ![c] = o]

DaemonUp(o) ==
  \/ up' = [up EXCEPT !["daemon"] = o]
  \/ UNCHANGED up /\ up["daemon"] # Down

\* Every step changes at most one container; only the end of an init gives a
\* promise, with a daemon up, and its beginning and prune void it.
LEMMA PromiseEffect ==
  ASSUME Inv2, [Next]_vars
  PROVE  \/ UNCHANGED inited /\ OneChange
         \/ inited' = Down /\ UNCHANGED up
         \/ \E o \in StartOptions : inited = Down /\ inited' = o /\ DaemonUp(o)
<1>0. TypeOK /\ Shape /\ Holding /\ Pending /\ Handling
  BY DEF Inv2, Inv1, Inv0
<1> USE DEF history
<1>1. CASE \/ \E p \in Clis, d \in Dirs : InitCmd(p, d)
           \/ \E p \in Clis : CleanUp(p)
  BY <1>1 DEF InitCmd, CleanUp
<1>2. CASE \/ \E p \in Clis, d \in Dirs, c \in Wanted : ClientCmd(p, d, c)
           \/ \E p \in Clis, c \in Commands : RemoveCmd(p, c)
           \/ \E k \in Confs : EditConfig(k)
           \/ UNCHANGED vars
  BY <1>2 DEF ClientCmd, RemoveCmd, EditConfig, vars, OneChange
<1>3. ASSUME NEW p \in Clis,
             \/ Look(p) \/ Looked(p) \/ Killed(p) \/ SaveCreate(p) \/ SaveEncode(p)
             \/ EnsureStarted(p) \/ Stat(p) \/ Read(p) \/ Call(p) \/ Answered(p)
             \/ List(p) \/ Removed(p) \/ RunCheck(p) \/ RunDone(p) \/ Crash(p)
      PROVE  UNCHANGED <<inited, up>>
  BY <1>3 DEF Look, Looked, Killed, SaveCreate, SaveEncode, EnsureStarted, Stat, Read, Call,
              Answered, List, Removed, RunCheck, RunDone, Crash
<1>4. ASSUME NEW p \in Clis, Kill(p) PROVE UNCHANGED inited /\ OneChange
  <2>1. First(todo[p]) \in Components
    BY <1>0, <1>4, FirstInSet DEF Kill, TypeOK
  <2> QED
    BY <1>4, <2>1 DEF Kill, Replace, OneChange
<1>5. ASSUME NEW p \in Clis, RemoveOne(p) \/ RemoveFails(p)
      PROVE  UNCHANGED inited /\ OneChange
  <2>1. todo[p] \subseteq Components
    BY <1>0 DEF TypeOK
  <2> QED
    BY <1>5, <2>1 DEF RemoveOne, RemoveFails, Replace, OneChange
<1>6. ASSUME NEW p \in Clis, RunStart(p) PROVE UNCHANGED inited /\ OneChange
  <2>1. First(left[p]) \in Components /\ up["daemon"] \in StartOptions \cup {Down}
    BY <1>0, <1>6, FirstInSet DEF RunStart, Handling, TypeOK, Components
  <2> QED
    BY <1>6, <2>1 DEF RunStart, OneChange
<1>7. ASSUME NEW c \in Components, Exit(c) PROVE UNCHANGED inited /\ OneChange
  BY <1>7 DEF Exit, Replace, OneChange
<1>8. ASSUME NEW p \in Clis, IsRunning(p) \/ StartDaemon(p)
      PROVE  \/ UNCHANGED inited /\ OneChange
             \/ \E o \in StartOptions : inited = Down /\ inited' = o /\ DaemonUp(o)
  <2>1. cmd[p] \in {"init", "client"}
    BY <1>0, <1>8 DEF IsRunning, StartDaemon, At, Shape, Saving
  <2>2. opts[p] \in StartOptions
    BY <1>0, <2>1 DEF Holding
  <2>3. CASE Started(p) /\ DaemonUp(opts[p]) /\ cmd[p] = "init"
    BY <1>0, <2>2, <2>3 DEF Started, Pending
  <2>4. CASE Started(p) /\ DaemonUp(opts[p]) /\ cmd[p] # "init"
    BY <2>2, <2>4 DEF Started, DaemonUp, OneChange, Components
  <2>5. CASE /\ UNCHANGED inited
             /\ UNCHANGED up \/ \E o \in {Down, opts[p]} : Replace("daemon", o)
    BY <2>2, <2>5 DEF Replace, OneChange, Components
  <2>6. \/ Started(p) /\ DaemonUp(opts[p])
        \/ /\ UNCHANGED inited
           /\ UNCHANGED up \/ \E o \in {Down, opts[p]} : Replace("daemon", o)
    BY <1>8 DEF IsRunning, StartDaemon, Running, DaemonUp, Replace
  <2> QED
    BY <2>3, <2>4, <2>5, <2>6
<1> QED
  BY <1>1, <1>2, <1>3, <1>4, <1>5, <1>6, <1>7, <1>8
     DEF Next, CliStep, HandlerStep, OneChange

\* Every step is a step of InitPromise or leaves promise and containers alone.
LEMMA PromiseStep ==
  ASSUME Inv2, ComponentsAgree, ComponentsAgree', [Next]_vars
  PROVE  Promise!PromiseNext \/ UNCHANGED <<inited, serving>>
<1>0. up \in [Components -> StartOptions \cup {Down}]
  BY DEF Inv2, Inv1, Inv0, TypeOK
<1>1. "daemon" \in WorkDirDependants /\ WorkDirDependants \subseteq Components
  BY DEF WorkDirDependants, Components
<1>2. ASSUME NEW c \in Components, NEW o \in StartOptions \cup {Down},
             up' = [up EXCEPT ![c] = o]
      PROVE  /\ c \in WorkDirDependants => serving' = [serving EXCEPT ![c] = o]
             /\ c \notin WorkDirDependants => UNCHANGED serving
  BY <1>0, <1>1, <1>2 DEF serving
<1>3. CASE UNCHANGED inited /\ OneChange
  <2>1. CASE UNCHANGED up
    BY <1>3, <2>1 DEF serving
  <2>2. ASSUME NEW c \in Components, NEW o \in StartOptions \cup {Down},
               up' = [up EXCEPT ![c] = o]
        PROVE  Promise!PromiseNext \/ UNCHANGED <<inited, serving>>
    <3>1. CASE c \in WorkDirDependants
      <4>1. inited # Down => o \in {inited, Down}
        BY <1>0, <1>3, <2>2, <3>1 DEF ComponentsAgree
      <4>2. Promise!Change(c, o)
        BY <1>2, <1>3, <2>2, <3>1, <4>1 DEF Promise!Change
      <4> QED
        BY <3>1, <4>2 DEF Promise!PromiseNext
    <3> QED
      BY <1>2, <1>3, <2>2, <3>1
  <2> QED
    BY <1>3, <2>1, <2>2 DEF OneChange
<1>4. CASE inited' = Down /\ UNCHANGED up
  BY <1>4 DEF Promise!PromiseNext, Promise!Void, serving
<1>5. ASSUME NEW o \in StartOptions, inited = Down, inited' = o, DaemonUp(o)
      PROVE  Promise!PromiseNext
  <2>1. o # Down
    BY NotOptionsAssumption
  <2>2. \A c \in WorkDirDependants : up'[c] \in {o, Down}
    BY <1>5, <2>1 DEF ComponentsAgree
  <2>3. up' = [up EXCEPT !["daemon"] = o]
    BY <1>0, <1>1, <1>5, <2>2 DEF DaemonUp
  <2>4. serving' = [serving EXCEPT !["daemon"] = o]
    BY <1>1, <1>2, <2>3
  <2>5. \A c \in WorkDirDependants : serving'[c] \in {o, Down}
    BY <2>2 DEF serving
  <2>6. Promise!Give(o)
    BY <1>5, <2>4, <2>5 DEF Promise!Give
  <2> QED
    BY <2>6 DEF Promise!PromiseNext
<1> QED
  BY <1>3, <1>4, <1>5, PromiseEffect

\* Under the conditions of ComponentsAgreeAlways all commands together keep the
\* promise of init: it succeeds with its own daemon up, and until the next init
\* or prune nothing runs with other options.
THEOREM InitPromiseKept ==
  ASSUME "init" \in Alone, {"filter", "crash"} \cap Faulty = {}
  PROVE  Spec => KeepsPromise
<1>1. Init => Promise!PromiseInit
  BY DEF Init, Promise!PromiseInit, serving, WorkDirDependants, Components
<1>2. Inv2 /\ ComponentsAgree /\ ComponentsAgree' /\ [Next]_vars
        => [Promise!PromiseNext]_<<inited, serving>>
  BY PromiseStep
<1>3. Spec => []Inv2
  BY Inv2Always
<1>4. Spec => []ComponentsAgree
  BY ComponentsAgreeAlways
<1> QED
  BY <1>1, <1>2, <1>3, <1>4, PTL DEF Spec, KeepsPromise, Promise!PromiseSpec
=============================================================================
