-------------------------- MODULE SqlSessionProofs --------------------------
(***************************************************************************)
(* What sessions that share one container name may rely on, for any number *)
(* of them and whatever fails.                                             *)
(***************************************************************************)
EXTENDS SqlSession, DockerEngineProofs

Early == {"idle", "create", "conflict", "forceRemove", "recreate"}

\* A session has no container before its create succeeded, it runs in one of
\* the modes, and only a shell gets to the select of attachStdio.
Shape ==
  \A p \in Clis :
    /\ pc[p] \in Early => own[p] = Nil
    /\ pc[p] \in {"select", "output"} => mode[p] # "query"
    /\ pc[p] = "idle" => result[p] = "none"
    /\ pc[p] # "idle" => mode[p] \in Modes

\* There is at most one container, as they all have one name; and no id is
\* given to two sessions.
OneName ==
  /\ \A i \in Ids : Exists(i) => ctr[i].name = MysqlCli
  /\ \A i, j \in Ids : Exists(i) /\ Exists(j) => i = j
  /\ \A p, q \in Clis : own[p] # Nil /\ own[p] = own[q] => p = q

\* The container that the deferred stop is about to remove is the session's
\* own, or that does not exist any more.
StopsOwn ==
  \A p \in Clis : pc[p] = "stopRemove" => target[p] = own[p] \/ ~ Exists(own[p])

\* mysql's status comes after its start, and a container that ended is not
\* started again.
EndsOnce ==
  \A p \in Clis :
    /\ pc[p] \in Attaching \cup {"idle"} => status[p] = "none" /\ ~ Up(p)
    /\ status[p] # "none" => ~ Up(p)

\* Nobody but Attach touches the container it has made, short of removing it.
Untouched ==
  \A p \in Clis : pc[p] \in {"connect", "attach", "start"} /\ Exists(own[p]) =>
    /\ ctr[own[p]].state = "created"
    /\ pc[p] = "connect" => ctr[own[p]].net = Nil

SessionInv == TypeOK /\ Shape /\ OneName /\ StopsOwn /\ EndsOnce /\ Untouched

-----------------------------------------------------------------------------
(* Types. *)

\* What TypeOK says of the processes.
ProcTypes ==
  /\ pc \in [Clis -> {"idle", "notify"} \cup Attaching \cup Running \cup Stopping]
  /\ mode \in [Clis -> Modes \cup {Nil}]
  /\ own \in [Clis -> IdOrNil]
  /\ target \in [Clis -> IdOrNil]
  /\ sig \in [Clis -> {"off", "armed", "info", "remove", "done", "failed"}]
  /\ sigId \in [Clis -> IdOrNil]
  /\ inp \in [Clis -> {"none", "copying", "eof", "error"}]
  /\ out \in [Clis -> {"none", "copying", "eof", "error"}]
  /\ status \in [Clis -> {"none", "zero", "nonzero"}]
  /\ result \in [Clis -> {"none", "ok", "failed"}]
  /\ \A p \in Clis :
       /\ pc[p] \in {"forceRemove", "stopRemove"} => target[p] # Nil
       /\ sig[p] = "remove" => sigId[p] # Nil

\* TypeOK in three parts.
LEMMA TypeParts == TypeOK <=> EngineTypeOK /\ ProcTypes /\ left \in SUBSET Ids
  BY DEF TypeOK, ProcTypes

\* A process that ends is as one that never ran.
LEMMA EndsTypes ==
  ASSUME ProcTypes, NEW p \in Clis, Ends(p)
  PROVE  ProcTypes'
  BY DEF ProcTypes, Ends, Set, Attaching, Running, Stopping, IdOrNil

\* The engine and what was left there keep their types in every step.
LEMMA EngineTypes == TypeOK /\ [Next]_vars => EngineTypeOK' /\ left' \in SUBSET Ids
<1> SUFFICES ASSUME TypeOK, [Next]_vars PROVE EngineTypeOK' /\ left' \in SUBSET Ids
  OBVIOUS
<1> USE SessionAssumption DEF TypeOK, EngineTypeOK, engine, main, signal, streams, IdOrNil
<1>0. CASE UNCHANGED vars
  BY <1>0 DEF vars, engine
<1>1. ASSUME NEW p \in Clis, \E m \in Modes : Execute(p, m) PROVE EngineTypeOK' /\ left' \in
      SUBSET Ids
  BY <1>1 DEF Execute, Goto
<1>2. ASSUME NEW p \in Clis, Create(p) PROVE EngineTypeOK' /\ left' \in SUBSET Ids
  BY <1>2, CreateEffect DEF Create, Created, MadeUnseen
<1>3. ASSUME NEW p \in Clis, Conflict(p) PROVE EngineTypeOK' /\ left' \in SUBSET Ids
  BY <1>3 DEF Conflict, Ends, Named
<1>4. ASSUME NEW p \in Clis, ForceRemove(p) PROVE EngineTypeOK' /\ left' \in SUBSET Ids
  BY <1>4, RemoveEffect DEF ForceRemove, Ends, Removes
<1>5. ASSUME NEW p \in Clis, Recreate(p) PROVE EngineTypeOK' /\ left' \in SUBSET Ids
  BY <1>5, CreateEffect DEF Recreate, Created, MadeUnseen, Ends
<1>6. ASSUME NEW p \in Clis, Connect(p) PROVE EngineTypeOK' /\ left' \in SUBSET Ids
  BY <1>6, ConnectEffect DEF Connect, Fails, Leaves, Ends
<1>7. ASSUME NEW p \in Clis, AttachStreams(p) PROVE EngineTypeOK' /\ left' \in SUBSET Ids
  BY <1>7 DEF AttachStreams, Fails, Leaves, Ends
<1>8. ASSUME NEW p \in Clis, Start(p) PROVE EngineTypeOK' /\ left' \in SUBSET Ids
  BY <1>8, StartEffect DEF Start, Fails, Leaves, Ends
<1>9. ASSUME NEW p \in Clis, Notify(p) PROVE EngineTypeOK' /\ left' \in SUBSET Ids
  BY <1>9 DEF Notify, Query, Shell, NoShell, Goto
<1>10. ASSUME NEW p \in Clis, Copied(p) PROVE EngineTypeOK' /\ left' \in SUBSET Ids
  BY <1>10 DEF Copied, Moves, Returns, Goto
<1>11. ASSUME NEW p \in Clis, ExitCode(p) PROVE EngineTypeOK' /\ left' \in SUBSET Ids
  BY <1>11 DEF ExitCode, Returns, Goto
<1>12. ASSUME NEW p \in Clis, Select(p) PROVE EngineTypeOK' /\ left' \in SUBSET Ids
  BY <1>12 DEF Select, Moves, ShellReturns, Returns, OutputResult, Goto
<1>13. ASSUME NEW p \in Clis, Output(p) PROVE EngineTypeOK' /\ left' \in SUBSET Ids
  BY <1>13 DEF Output, ShellReturns, Returns, OutputResult, Goto
<1>14. ASSUME NEW p \in Clis, StopInfo(p) PROVE EngineTypeOK' /\ left' \in SUBSET Ids
  BY <1>14 DEF StopInfo, Ends, Leaves, Named
<1>15. ASSUME NEW p \in Clis, StopRemove(p) PROVE EngineTypeOK' /\ left' \in SUBSET Ids
  BY <1>15, RemoveEffect DEF StopRemove, Ends, Leaves, Removes
<1>16. ASSUME NEW p \in Clis, OutputEnds(p) PROVE EngineTypeOK' /\ left' \in SUBSET Ids
  BY <1>16 DEF OutputEnds
<1>17. ASSUME NEW p \in Clis, InputEnds(p) PROVE EngineTypeOK' /\ left' \in SUBSET Ids
  BY <1>17 DEF InputEnds
<1>18. ASSUME NEW p \in Clis, Interrupt(p) PROVE EngineTypeOK' /\ left' \in SUBSET Ids
  BY <1>18 DEF Interrupt, Leaves, Ends
<1>19. ASSUME NEW p \in Clis, SigInfo(p) PROVE EngineTypeOK' /\ left' \in SUBSET Ids
  BY <1>19 DEF SigInfo, Named
<1>20. ASSUME NEW p \in Clis, SigRemove(p) PROVE EngineTypeOK' /\ left' \in SUBSET Ids
  BY <1>20, RemoveEffect DEF SigRemove, Removes
<1>21. ASSUME NEW p \in Clis, Crash(p) PROVE EngineTypeOK' /\ left' \in SUBSET Ids
  BY <1>21 DEF Crash, Leaves, Ends
<1>22. ASSUME NEW p \in Clis, MysqlExits(p) PROVE EngineTypeOK' /\ left' \in SUBSET Ids
  <2>1. own[p] \in Ids
    BY <1>22 DEF MysqlExits, Up
  <2> QED
    BY <1>22, <2>1, ExitEffect DEF MysqlExits
<1>23. ASSUME NEW i \in Ids, Stopped(i) PROVE EngineTypeOK' /\ left' \in SUBSET Ids
  BY <1>23, RemoveEffect DEF Stopped, Removes
<1> QED
  BY <1>0, <1>1, <1>2, <1>3, <1>4, <1>5, <1>6, <1>7, <1>8, <1>9, <1>10, <1>11, <1>12, <1>13,
     <1>14, <1>15, <1>16, <1>17, <1>18, <1>19, <1>20, <1>21, <1>22, <1>23 DEF Next, Main

\* So do the variables of the processes.
LEMMA ProcessTypes == TypeOK /\ [Next]_vars => ProcTypes'
<1> SUFFICES ASSUME TypeOK, [Next]_vars PROVE ProcTypes'
  OBVIOUS
<1> USE SessionAssumption, EngineAssumption, EndsTypes, TypeParts DEF ProcTypes, engine, main,
        signal, streams, IdOrNil, Set, Attaching, Running, Stopping, Goto
<1>0. CASE UNCHANGED vars
  BY <1>0 DEF vars, engine
<1>1. ASSUME NEW p \in Clis, \E m \in Modes : Execute(p, m) PROVE ProcTypes'
  BY <1>1 DEF Execute, Goto
<1>2. ASSUME NEW p \in Clis, Create(p) PROVE ProcTypes'
  BY <1>2 DEF Create, Created, MadeUnseen
<1>3. ASSUME NEW p \in Clis, Conflict(p) PROVE ProcTypes'
  BY <1>3 DEF Conflict, Ends, Named
<1>4. ASSUME NEW p \in Clis, ForceRemove(p) PROVE ProcTypes'
  BY <1>4 DEF ForceRemove, Ends, Removes
<1>5. ASSUME NEW p \in Clis, Recreate(p) PROVE ProcTypes'
  BY <1>5 DEF Recreate, Created, MadeUnseen, Ends
<1>6. ASSUME NEW p \in Clis, Connect(p) PROVE ProcTypes'
  BY <1>6 DEF Connect, Fails, Leaves, Ends
<1>7. ASSUME NEW p \in Clis, AttachStreams(p) PROVE ProcTypes'
  BY <1>7 DEF AttachStreams, Fails, Leaves, Ends
<1>8. ASSUME NEW p \in Clis, Start(p) PROVE ProcTypes'
  BY <1>8 DEF Start, Fails, Leaves, Ends
<1>9. ASSUME NEW p \in Clis, Notify(p) PROVE ProcTypes'
  BY <1>9 DEF Notify, Query, Shell, NoShell, Goto
<1>10. ASSUME NEW p \in Clis, Copied(p) PROVE ProcTypes'
  BY <1>10 DEF Copied, Moves, Returns, Goto
<1>11. ASSUME NEW p \in Clis, ExitCode(p) PROVE ProcTypes'
  BY <1>11 DEF ExitCode, Returns, Goto
<1>12. ASSUME NEW p \in Clis, Select(p) PROVE ProcTypes'
  BY <1>12 DEF Select, Moves, ShellReturns, Returns, OutputResult, Goto
<1>13. ASSUME NEW p \in Clis, Output(p) PROVE ProcTypes'
  BY <1>13 DEF Output, ShellReturns, Returns, OutputResult, Goto
<1>14. ASSUME NEW p \in Clis, StopInfo(p) PROVE ProcTypes'
  <2>1. CASE Ends(p)
    <3>1. ProcTypes
      BY TypeParts
    <3> QED  BY ONLY <3>1, <2>1, EndsTypes
  <2>2. ASSUME NEW i \in Named(MysqlCli), pc' = Set(pc, p, "stopRemove"),
               target' = Set(target, p, i),
               UNCHANGED <<mode, own, result, left, signal, status, streams>>
        PROVE  ProcTypes'
    <3>1. i \in Ids /\ i # Nil
      BY <2>2 DEF Named
    <3> QED  BY <2>2, <3>1
  <2> QED  BY <1>14, <2>1, <2>2 DEF StopInfo, Leaves
<1>15. ASSUME NEW p \in Clis, StopRemove(p) PROVE ProcTypes'
  BY <1>15 DEF StopRemove, Ends, Leaves, Removes
<1>16. ASSUME NEW p \in Clis, OutputEnds(p) PROVE ProcTypes'
  BY <1>16 DEF OutputEnds
<1>17. ASSUME NEW p \in Clis, InputEnds(p) PROVE ProcTypes'
  BY <1>17 DEF InputEnds
<1>18. ASSUME NEW p \in Clis, Interrupt(p) PROVE ProcTypes'
  BY <1>18 DEF Interrupt, Leaves, Ends
<1>19. ASSUME NEW p \in Clis, SigInfo(p) PROVE ProcTypes'
  BY <1>19 DEF SigInfo, Named
<1>20. ASSUME NEW p \in Clis, SigRemove(p) PROVE ProcTypes'
  BY <1>20 DEF SigRemove, Removes
<1>21. ASSUME NEW p \in Clis, Crash(p) PROVE ProcTypes'
  BY <1>21 DEF Crash, Leaves, Ends
<1>22. ASSUME NEW p \in Clis, MysqlExits(p) PROVE ProcTypes'
  BY <1>22 DEF MysqlExits
<1>23. ASSUME NEW i \in Ids, Stopped(i) PROVE ProcTypes'
  BY <1>23 DEF Stopped, Removes
<1> QED
  BY <1>0, <1>1, <1>2, <1>3, <1>4, <1>5, <1>6, <1>7, <1>8, <1>9, <1>10, <1>11, <1>12, <1>13,
     <1>14, <1>15, <1>16, <1>17, <1>18, <1>19, <1>20, <1>21, <1>22, <1>23 DEF Next, Main
\* Types are kept by every goroutine of every session.
LEMMA TypeStep == TypeOK /\ [Next]_vars => TypeOK'
<1>1. ProcTypes' /\ EngineTypeOK' /\ left' \in SUBSET Ids => TypeOK'
  BY DEF TypeOK, ProcTypes
<1> QED
  BY <1>1, EngineTypes, ProcessTypes

-----------------------------------------------------------------------------
(* The parts of SessionInv. *)

\* A session that makes its container finds none, and gets an id of its own.
LEMMA CreatedEffect ==
  ASSUME SessionInv, NEW p \in Clis, Created(p)
  PROVE  \E i \in Ids :
           /\ \A q \in Clis : i # own[q] /\ i # target[q]
           /\ \A j \in Ids : ~ Exists(j)
           /\ ctr'[i].name = MysqlCli /\ ctr'[i].state = "created" /\ ctr'[i].net = Nil
           /\ \A j \in Ids \ {i} : ctr'[j].state = "absent"
           /\ own' = Set(own, p, i) /\ pc' = Set(pc, p, "connect")
           /\ UNCHANGED <<mode, target, result, left, status>>
<1>1. PICK i \in Ids :
        /\ FreshId(i)
        /\ ContainerCreate(i, MysqlCli, mode[p])
        /\ own' = Set(own, p, i) /\ pc' = Set(pc, p, "connect")
        /\ UNCHANGED <<mode, target, result, left, status>>
  BY DEF Created
<1>2. mode[p] \in Confs \cup {Nil}
  BY SessionAssumption DEF SessionInv, TypeOK
<1>3. /\ Named(MysqlCli) = {}
      /\ ctr'[i].name = MysqlCli /\ ctr'[i].state = "created" /\ ctr'[i].net = Nil
      /\ \A j \in Ids \ {i} : ctr'[j] = ctr[j]
  <2>1. EngineTypeOK /\ MysqlCli \in Names
    BY SessionAssumption DEF SessionInv, TypeOK
  <2> QED
    BY <1>1, <1>2, <2>1, CreateEffect
<1>4. \A j \in Ids : ~ Exists(j)
  BY <1>3 DEF SessionInv, OneName, Exists, Named
<1> QED
  BY <1>1, <1>3, <1>4 DEF FreshId, Exists

\* One whose answer is lost makes it all the same, and nobody knows its id.
LEMMA UnseenEffect ==
  ASSUME SessionInv, NEW p \in Clis, pc[p] # "idle", MadeUnseen(p)
  PROVE  \E i \in Ids :
           /\ \A q \in Clis : i # own[q] /\ i # target[q]
           /\ \A j \in Ids : ~ Exists(j)
           /\ ctr'[i].name = MysqlCli /\ ctr'[i].state = "created" /\ ctr'[i].net = Nil
           /\ \A j \in Ids \ {i} : ctr'[j].state = "absent"
           /\ left' = left \cup {i}
           /\ UNCHANGED <<nets, images>>
<1>1. PICK i \in Ids :
        /\ FreshId(i)
        /\ ContainerCreate(i, MysqlCli, mode[p])
        /\ left' = left \cup {i}
        /\ UNCHANGED <<nets, images>>
  BY DEF MadeUnseen
<1>2. mode[p] \in Confs \cup {Nil} /\ EngineTypeOK /\ MysqlCli \in Names
  BY SessionAssumption DEF SessionInv, TypeOK
<1>3. /\ Named(MysqlCli) = {}
      /\ ctr'[i].name = MysqlCli /\ ctr'[i].state = "created" /\ ctr'[i].net = Nil
      /\ \A j \in Ids \ {i} : ctr'[j] = ctr[j]
  BY <1>1, <1>2, CreateEffect
<1>4. \A j \in Ids : ~ Exists(j)
  BY <1>3 DEF SessionInv, OneName, Exists, Named
<1> QED
  BY <1>1, <1>3, <1>4 DEF FreshId, Exists

\* Where a session is agrees with what it has, whatever the others do.
LEMMA ShapeStep == SessionInv /\ [Next]_vars => Shape'
<1> SUFFICES ASSUME SessionInv, [Next]_vars PROVE Shape'
  OBVIOUS
<1> USE SessionAssumption, EngineAssumption DEF Shape, Early, engine, main, signal, streams,
        IdOrNil, Set, Attaching, Running, Stopping, Goto, Exists, EngineTypeOK, TypeOK,
        SessionInv
<1>0. CASE UNCHANGED vars
  BY <1>0 DEF vars, engine
<1>1. ASSUME NEW p \in Clis, \E m \in Modes : Execute(p, m) PROVE Shape'
  BY <1>1 DEF Execute, Goto
<1>2. ASSUME NEW p \in Clis, Create(p) PROVE Shape'
  BY <1>2, CreateEffect DEF Create, Created, MadeUnseen
<1>3. ASSUME NEW p \in Clis, Conflict(p) PROVE Shape'
  BY <1>3 DEF Conflict, Ends, Named
<1>4. ASSUME NEW p \in Clis, ForceRemove(p) PROVE Shape'
  BY <1>4, RemoveEffect DEF ForceRemove, Ends, Removes
<1>5. ASSUME NEW p \in Clis, Recreate(p) PROVE Shape'
  BY <1>5, CreateEffect DEF Recreate, Created, MadeUnseen, Ends
<1>6. ASSUME NEW p \in Clis, Connect(p) PROVE Shape'
  BY <1>6, ConnectEffect DEF Connect, Fails, Leaves, Ends
<1>7. ASSUME NEW p \in Clis, AttachStreams(p) PROVE Shape'
  BY <1>7 DEF AttachStreams, Fails, Leaves, Ends
<1>8. ASSUME NEW p \in Clis, Start(p) PROVE Shape'
  BY <1>8, StartEffect DEF Start, Fails, Leaves, Ends
<1>9. ASSUME NEW p \in Clis, Notify(p) PROVE Shape'
  BY <1>9 DEF Notify, Query, Shell, NoShell, Goto
<1>10. ASSUME NEW p \in Clis, Copied(p) PROVE Shape'
  BY <1>10 DEF Copied, Moves, Returns, Goto
<1>11. ASSUME NEW p \in Clis, ExitCode(p) PROVE Shape'
  BY <1>11 DEF ExitCode, Returns, Goto
<1>12. ASSUME NEW p \in Clis, Select(p) PROVE Shape'
  BY <1>12 DEF Select, Moves, ShellReturns, Returns, OutputResult, Goto
<1>13. ASSUME NEW p \in Clis, Output(p) PROVE Shape'
  BY <1>13 DEF Output, ShellReturns, Returns, OutputResult, Goto
<1>14. ASSUME NEW p \in Clis, StopInfo(p) PROVE Shape'
  BY <1>14 DEF StopInfo, Ends, Leaves, Named
<1>15. ASSUME NEW p \in Clis, StopRemove(p) PROVE Shape'
  BY <1>15, RemoveEffect DEF StopRemove, Ends, Leaves, Removes
<1>16. ASSUME NEW p \in Clis, OutputEnds(p) PROVE Shape'
  BY <1>16 DEF OutputEnds
<1>17. ASSUME NEW p \in Clis, InputEnds(p) PROVE Shape'
  BY <1>17 DEF InputEnds
<1>18. ASSUME NEW p \in Clis, Interrupt(p) PROVE Shape'
  BY <1>18 DEF Interrupt, Leaves, Ends
<1>19. ASSUME NEW p \in Clis, SigInfo(p) PROVE Shape'
  BY <1>19 DEF SigInfo, Named
<1>20. ASSUME NEW p \in Clis, SigRemove(p) PROVE Shape'
  BY <1>20, RemoveEffect DEF SigRemove, Removes
<1>21. ASSUME NEW p \in Clis, Crash(p) PROVE Shape'
  BY <1>21 DEF Crash, Leaves, Ends
<1>22. ASSUME NEW p \in Clis, MysqlExits(p) PROVE Shape'
  BY <1>22, ExitEffect DEF MysqlExits, Up
<1>23. ASSUME NEW i \in Ids, Stopped(i) PROVE Shape'
  BY <1>23, RemoveEffect DEF Stopped, Removes
<1> QED
  BY <1>0, <1>1, <1>2, <1>3, <1>4, <1>5, <1>6, <1>7, <1>8, <1>9, <1>10, <1>11, <1>12, <1>13,
     <1>14, <1>15, <1>16, <1>17, <1>18, <1>19, <1>20, <1>21, <1>22, <1>23 DEF Next, Main

\* No step makes a second container, nor gives an id away twice.
LEMMA OneNameStep == SessionInv /\ [Next]_vars => OneName'
<1> SUFFICES ASSUME SessionInv, [Next]_vars PROVE OneName'
  OBVIOUS
<1> USE SessionAssumption, EngineAssumption DEF Shape, Early, OneName, engine, main, signal,
        streams, IdOrNil, Set, Attaching, Running, Stopping, Goto, Exists, EngineTypeOK, TypeOK,
        SessionInv
<1>0. CASE UNCHANGED vars
  BY <1>0 DEF vars, engine
<1>1. ASSUME NEW p \in Clis, \E m \in Modes : Execute(p, m) PROVE OneName'
  BY <1>1 DEF Execute, Goto
<1>2. ASSUME NEW p \in Clis, Create(p) PROVE OneName'
  <2>1. CASE Created(p)
    BY <2>1, CreatedEffect
  <2>2. CASE MadeUnseen(p) /\ ~ Created(p)
    <3>1. pc[p] # "idle" /\ UNCHANGED own
      BY <1>2, <2>2 DEF Create
    <3>2. PICK i \in Ids :
            /\ ctr'[i].name = MysqlCli
            /\ \A j \in Ids \ {i} : ctr'[j].state = "absent"
      BY <2>2, <3>1, UnseenEffect
    <3> QED
      BY <3>1, <3>2
  <2>3. CASE ~ Created(p) /\ ~ MadeUnseen(p)
    BY <1>2, <2>3 DEF Create
  <2> QED
    BY <2>1, <2>2, <2>3
<1>3. ASSUME NEW p \in Clis, Conflict(p) PROVE OneName'
  BY <1>3 DEF Conflict, Ends, Named
<1>4. ASSUME NEW p \in Clis, ForceRemove(p) PROVE OneName'
  BY <1>4, RemoveEffect DEF ForceRemove, Ends, Removes
<1>5. ASSUME NEW p \in Clis, Recreate(p) PROVE OneName'
  <2>1. CASE Created(p)
    BY <2>1, CreatedEffect
  <2>2. CASE MadeUnseen(p) /\ ~ Created(p)
    <3>1. pc[p] # "idle" /\ own' = Set(own, p, Nil)
      BY <1>5, <2>2 DEF Recreate, Ends
    <3>2. PICK i \in Ids :
            /\ ctr'[i].name = MysqlCli
            /\ \A j \in Ids \ {i} : ctr'[j].state = "absent"
      BY <2>2, <3>1, UnseenEffect
    <3> QED
      BY <3>1, <3>2
  <2>3. CASE ~ Created(p) /\ ~ MadeUnseen(p)
    BY <1>5, <2>3 DEF Recreate, Ends
  <2> QED
    BY <2>1, <2>2, <2>3
<1>6. ASSUME NEW p \in Clis, Connect(p) PROVE OneName'
  <2>1. \A j \in Ids : ctr'[j].name = ctr[j].name /\ ctr'[j].state = ctr[j].state
    BY <1>6, ConnectEffect DEF Connect, Fails, Leaves
  <2>2. own' = own \/ own' = Set(own, p, Nil)
    BY <1>6 DEF Connect, Fails, Leaves, Ends
  <2> QED
    BY <2>1, <2>2
<1>7. ASSUME NEW p \in Clis, AttachStreams(p) PROVE OneName'
  BY <1>7 DEF AttachStreams, Fails, Leaves, Ends
<1>8. ASSUME NEW p \in Clis, Start(p) PROVE OneName'
  BY <1>8, StartEffect DEF Start, Fails, Leaves, Ends
<1>9. ASSUME NEW p \in Clis, Notify(p) PROVE OneName'
  BY <1>9 DEF Notify, Query, Shell, NoShell, Goto
<1>10. ASSUME NEW p \in Clis, Copied(p) PROVE OneName'
  BY <1>10 DEF Copied, Moves, Returns, Goto
<1>11. ASSUME NEW p \in Clis, ExitCode(p) PROVE OneName'
  BY <1>11 DEF ExitCode, Returns, Goto
<1>12. ASSUME NEW p \in Clis, Select(p) PROVE OneName'
  BY <1>12 DEF Select, Moves, ShellReturns, Returns, OutputResult, Goto
<1>13. ASSUME NEW p \in Clis, Output(p) PROVE OneName'
  BY <1>13 DEF Output, ShellReturns, Returns, OutputResult, Goto
<1>14. ASSUME NEW p \in Clis, StopInfo(p) PROVE OneName'
  BY <1>14 DEF StopInfo, Ends, Leaves, Named
<1>15. ASSUME NEW p \in Clis, StopRemove(p) PROVE OneName'
  <2>1. \/ UNCHANGED ctr
        \/ /\ ctr'[target[p]].state = "absent"
           /\ \A j \in Ids : j # target[p] => ctr'[j] = ctr[j]
    BY <1>15, RemoveEffect DEF StopRemove, Removes
  <2>2. Ends(p)
    BY <1>15 DEF StopRemove, Leaves
  <2> QED
    BY <2>1, <2>2 DEF Ends
<1>16. ASSUME NEW p \in Clis, OutputEnds(p) PROVE OneName'
  BY <1>16 DEF OutputEnds
<1>17. ASSUME NEW p \in Clis, InputEnds(p) PROVE OneName'
  BY <1>17 DEF InputEnds
<1>18. ASSUME NEW p \in Clis, Interrupt(p) PROVE OneName'
  BY <1>18 DEF Interrupt, Leaves, Ends
<1>19. ASSUME NEW p \in Clis, SigInfo(p) PROVE OneName'
  BY <1>19 DEF SigInfo, Named
<1>20. ASSUME NEW p \in Clis, SigRemove(p) PROVE OneName'
  BY <1>20, RemoveEffect DEF SigRemove, Removes
<1>21. ASSUME NEW p \in Clis, Crash(p) PROVE OneName'
  BY <1>21 DEF Crash, Leaves, Ends
<1>22. ASSUME NEW p \in Clis, MysqlExits(p) PROVE OneName'
  <2>1. own[p] \in Ids
    BY <1>22 DEF MysqlExits, Up
  <2> QED
    BY <1>22, <2>1, ExitEffect DEF MysqlExits
<1>23. ASSUME NEW i \in Ids, Stopped(i) PROVE OneName'
  BY <1>23, RemoveEffect DEF Stopped, Removes
<1> QED
  BY <1>0, <1>1, <1>2, <1>3, <1>4, <1>5, <1>6, <1>7, <1>8, <1>9, <1>10, <1>11, <1>12, <1>13,
     <1>14, <1>15, <1>16, <1>17, <1>18, <1>19, <1>20, <1>21, <1>22, <1>23 DEF Next, Main

\* What a session stops stays its own: another session's create takes a new id.
LEMMA StopsOwnStep == SessionInv /\ [Next]_vars => StopsOwn'
<1> SUFFICES ASSUME SessionInv, [Next]_vars PROVE StopsOwn'
  OBVIOUS
<1> USE SessionAssumption, EngineAssumption DEF Shape, Early, OneName, StopsOwn, Named, engine,
        main, signal, streams, IdOrNil, Set, Attaching, Running, Stopping, Goto, Exists,
        EngineTypeOK, TypeOK, SessionInv
<1>0. CASE UNCHANGED vars
  BY <1>0 DEF vars, engine
<1>1. ASSUME NEW p \in Clis, \E m \in Modes : Execute(p, m) PROVE StopsOwn'
  BY <1>1 DEF Execute, Goto
<1>2. ASSUME NEW p \in Clis, Create(p) PROVE StopsOwn'
  <2>1. CASE Created(p)
    BY <2>1, CreatedEffect
  <2>2. CASE MadeUnseen(p)
    BY <1>2, <2>2, UnseenEffect DEF Create, Created
  <2>3. CASE ~ Created(p) /\ ~ MadeUnseen(p)
    BY <1>2, <2>3 DEF Create
  <2> QED
    BY <2>1, <2>2, <2>3
<1>3. ASSUME NEW p \in Clis, Conflict(p) PROVE StopsOwn'
  BY <1>3 DEF Conflict, Ends, Named
<1>4. ASSUME NEW p \in Clis, ForceRemove(p) PROVE StopsOwn'
  BY <1>4, RemoveEffect DEF ForceRemove, Ends, Removes
<1>5. ASSUME NEW p \in Clis, Recreate(p) PROVE StopsOwn'
  <2>1. CASE Created(p)
    BY <2>1, CreatedEffect
  <2>2. CASE MadeUnseen(p)
    BY <1>5, <2>2, UnseenEffect DEF Recreate, Created, Ends
  <2>3. CASE ~ Created(p) /\ ~ MadeUnseen(p)
    BY <1>5, <2>3 DEF Recreate, Ends
  <2> QED
    BY <2>1, <2>2, <2>3
<1>6. ASSUME NEW p \in Clis, Connect(p) PROVE StopsOwn'
  BY <1>6, ConnectEffect DEF Connect, Fails, Leaves, Ends
<1>7. ASSUME NEW p \in Clis, AttachStreams(p) PROVE StopsOwn'
  BY <1>7 DEF AttachStreams, Fails, Leaves, Ends
<1>8. ASSUME NEW p \in Clis, Start(p) PROVE StopsOwn'
  BY <1>8, StartEffect DEF Start, Fails, Leaves, Ends
<1>9. ASSUME NEW p \in Clis, Notify(p) PROVE StopsOwn'
  BY <1>9 DEF Notify, Query, Shell, NoShell, Goto
<1>10. ASSUME NEW p \in Clis, Copied(p) PROVE StopsOwn'
  BY <1>10 DEF Copied, Moves, Returns, Goto
<1>11. ASSUME NEW p \in Clis, ExitCode(p) PROVE StopsOwn'
  BY <1>11 DEF ExitCode, Returns, Goto
<1>12. ASSUME NEW p \in Clis, Select(p) PROVE StopsOwn'
  BY <1>12 DEF Select, Moves, ShellReturns, Returns, OutputResult, Goto
<1>13. ASSUME NEW p \in Clis, Output(p) PROVE StopsOwn'
  BY <1>13 DEF Output, ShellReturns, Returns, OutputResult, Goto
<1>14. ASSUME NEW p \in Clis, StopInfo(p) PROVE StopsOwn'
  BY <1>14 DEF StopInfo, Ends, Leaves, Named
<1>15. ASSUME NEW p \in Clis, StopRemove(p) PROVE StopsOwn'
  BY <1>15, RemoveEffect DEF StopRemove, Ends, Leaves, Removes
<1>16. ASSUME NEW p \in Clis, OutputEnds(p) PROVE StopsOwn'
  BY <1>16 DEF OutputEnds
<1>17. ASSUME NEW p \in Clis, InputEnds(p) PROVE StopsOwn'
  BY <1>17 DEF InputEnds
<1>18. ASSUME NEW p \in Clis, Interrupt(p) PROVE StopsOwn'
  BY <1>18 DEF Interrupt, Leaves, Ends
<1>19. ASSUME NEW p \in Clis, SigInfo(p) PROVE StopsOwn'
  BY <1>19 DEF SigInfo, Named
<1>20. ASSUME NEW p \in Clis, SigRemove(p) PROVE StopsOwn'
  BY <1>20, RemoveEffect DEF SigRemove, Removes
<1>21. ASSUME NEW p \in Clis, Crash(p) PROVE StopsOwn'
  BY <1>21 DEF Crash, Leaves, Ends
<1>22. ASSUME NEW p \in Clis, MysqlExits(p) PROVE StopsOwn'
  <2>1. own[p] \in Ids
    BY <1>22 DEF MysqlExits, Up
  <2> QED
    BY <1>22, <2>1, ExitEffect DEF MysqlExits
<1>23. ASSUME NEW i \in Ids, Stopped(i) PROVE StopsOwn'
  BY <1>23, RemoveEffect DEF Stopped, Removes
<1> QED
  BY <1>0, <1>1, <1>2, <1>3, <1>4, <1>5, <1>6, <1>7, <1>8, <1>9, <1>10, <1>11, <1>12, <1>13,
     <1>14, <1>15, <1>16, <1>17, <1>18, <1>19, <1>20, <1>21, <1>22, <1>23 DEF Next, Main

\* A container runs once.
LEMMA EndsOnceStep == SessionInv /\ [Next]_vars => EndsOnce'
<1> SUFFICES ASSUME SessionInv, [Next]_vars PROVE EndsOnce'
  OBVIOUS
<1> USE SessionAssumption, EngineAssumption DEF Shape, Early, OneName, EndsOnce, IsUp, Up,
        engine, main, signal, streams, IdOrNil, Set, Attaching, Running, Stopping, Goto, Exists,
        EngineTypeOK, TypeOK, SessionInv
<1>0. CASE UNCHANGED vars
  BY <1>0 DEF vars, engine
<1>1. ASSUME NEW p \in Clis, \E m \in Modes : Execute(p, m) PROVE EndsOnce'
  BY <1>1 DEF Execute, Goto
<1>2. ASSUME NEW p \in Clis, Create(p) PROVE EndsOnce'
  <2>1. CASE Created(p)
    <3>1. pc[p] = "create"
      BY <1>2 DEF Create
    <3> QED
      BY <2>1, <3>1, CreatedEffect
  <2>2. CASE MadeUnseen(p)
    BY <1>2, <2>2, UnseenEffect DEF Create, Created
  <2>3. CASE ~ Created(p) /\ ~ MadeUnseen(p)
    BY <1>2, <2>3 DEF Create
  <2> QED
    BY <2>1, <2>2, <2>3
<1>3. ASSUME NEW p \in Clis, Conflict(p) PROVE EndsOnce'
  BY <1>3 DEF Conflict, Ends, Named
<1>4. ASSUME NEW p \in Clis, ForceRemove(p) PROVE EndsOnce'
  BY <1>4, RemoveEffect DEF ForceRemove, Ends, Removes
<1>5. ASSUME NEW p \in Clis, Recreate(p) PROVE EndsOnce'
  <2>1. CASE Created(p)
    <3>1. pc[p] = "recreate"
      BY <1>5 DEF Recreate, Ends
    <3> QED
      BY <2>1, <3>1, CreatedEffect
  <2>2. CASE MadeUnseen(p)
    BY <1>5, <2>2, UnseenEffect DEF Recreate, Created, Ends
  <2>3. CASE ~ Created(p) /\ ~ MadeUnseen(p)
    BY <1>5, <2>3 DEF Recreate, Ends
  <2> QED
    BY <2>1, <2>2, <2>3
<1>6. ASSUME NEW p \in Clis, Connect(p) PROVE EndsOnce'
  BY <1>6, ConnectEffect DEF Connect, Fails, Leaves, Ends
<1>7. ASSUME NEW p \in Clis, AttachStreams(p) PROVE EndsOnce'
  BY <1>7 DEF AttachStreams, Fails, Leaves, Ends
<1>8. ASSUME NEW p \in Clis, Start(p) PROVE EndsOnce'
  BY <1>8, StartEffect DEF Start, Fails, Leaves, Ends
<1>9. ASSUME NEW p \in Clis, Notify(p) PROVE EndsOnce'
  BY <1>9 DEF Notify, Query, Shell, NoShell, Goto
<1>10. ASSUME NEW p \in Clis, Copied(p) PROVE EndsOnce'
  BY <1>10 DEF Copied, Moves, Returns, Goto
<1>11. ASSUME NEW p \in Clis, ExitCode(p) PROVE EndsOnce'
  BY <1>11 DEF ExitCode, Returns, Goto
<1>12. ASSUME NEW p \in Clis, Select(p) PROVE EndsOnce'
  BY <1>12 DEF Select, Moves, ShellReturns, Returns, OutputResult, Goto
<1>13. ASSUME NEW p \in Clis, Output(p) PROVE EndsOnce'
  BY <1>13 DEF Output, ShellReturns, Returns, OutputResult, Goto
<1>14. ASSUME NEW p \in Clis, StopInfo(p) PROVE EndsOnce'
  BY <1>14 DEF StopInfo, Ends, Leaves, Named
<1>15. ASSUME NEW p \in Clis, StopRemove(p) PROVE EndsOnce'
  BY <1>15, RemoveEffect DEF StopRemove, Ends, Leaves, Removes
<1>16. ASSUME NEW p \in Clis, OutputEnds(p) PROVE EndsOnce'
  BY <1>16 DEF OutputEnds
<1>17. ASSUME NEW p \in Clis, InputEnds(p) PROVE EndsOnce'
  BY <1>17 DEF InputEnds
<1>18. ASSUME NEW p \in Clis, Interrupt(p) PROVE EndsOnce'
  BY <1>18 DEF Interrupt, Leaves, Ends
<1>19. ASSUME NEW p \in Clis, SigInfo(p) PROVE EndsOnce'
  BY <1>19 DEF SigInfo, Named
<1>20. ASSUME NEW p \in Clis, SigRemove(p) PROVE EndsOnce'
  BY <1>20, RemoveEffect DEF SigRemove, Removes
<1>21. ASSUME NEW p \in Clis, Crash(p) PROVE EndsOnce'
  BY <1>21 DEF Crash, Leaves, Ends
<1>22. ASSUME NEW p \in Clis, MysqlExits(p) PROVE EndsOnce'
  <2>1. own[p] \in Ids
    BY <1>22 DEF MysqlExits, Up
  <2> QED
    BY <1>22, <2>1, ExitEffect DEF MysqlExits
<1>23. ASSUME NEW i \in Ids, Stopped(i) PROVE EndsOnce'
  BY <1>23, RemoveEffect DEF Stopped, Removes
<1> QED
  BY <1>0, <1>1, <1>2, <1>3, <1>4, <1>5, <1>6, <1>7, <1>8, <1>9, <1>10, <1>11, <1>12, <1>13,
     <1>14, <1>15, <1>16, <1>17, <1>18, <1>19, <1>20, <1>21, <1>22, <1>23 DEF Next, Main
\* Ids are not shared, so nobody else starts or connects the container that
\* Attach has made.
LEMMA UntouchedStep == SessionInv /\ [Next]_vars => Untouched'
<1> SUFFICES ASSUME SessionInv, [Next]_vars PROVE Untouched'
  OBVIOUS
<1> USE SessionAssumption, EngineAssumption DEF Shape, Early, OneName, EndsOnce, Untouched, IsUp, Up,
        engine, main, signal, streams, IdOrNil, Set, Attaching, Running, Stopping, Goto, Exists,
        EngineTypeOK, TypeOK, SessionInv
<1>0. CASE UNCHANGED vars
  BY <1>0 DEF vars, engine
<1>1. ASSUME NEW p \in Clis, \E m \in Modes : Execute(p, m) PROVE Untouched'
  BY <1>1 DEF Execute, Goto
<1>2. ASSUME NEW p \in Clis, Create(p) PROVE Untouched'
  <2>1. CASE Created(p)
    <3>1. pc[p] = "create"
      BY <1>2 DEF Create
    <3> QED
      BY <2>1, <3>1, CreatedEffect
  <2>2. CASE MadeUnseen(p)
    BY <1>2, <2>2, UnseenEffect DEF Create, Created
  <2>3. CASE ~ Created(p) /\ ~ MadeUnseen(p)
    BY <1>2, <2>3 DEF Create
  <2> QED
    BY <2>1, <2>2, <2>3
<1>3. ASSUME NEW p \in Clis, Conflict(p) PROVE Untouched'
  BY <1>3 DEF Conflict, Ends, Named
<1>4. ASSUME NEW p \in Clis, ForceRemove(p) PROVE Untouched'
  BY <1>4, RemoveEffect DEF ForceRemove, Ends, Removes
<1>5. ASSUME NEW p \in Clis, Recreate(p) PROVE Untouched'
  <2>1. CASE Created(p)
    <3>1. pc[p] = "recreate"
      BY <1>5 DEF Recreate, Ends
    <3> QED
      BY <2>1, <3>1, CreatedEffect
  <2>2. CASE MadeUnseen(p)
    BY <1>5, <2>2, UnseenEffect DEF Recreate, Created, Ends
  <2>3. CASE ~ Created(p) /\ ~ MadeUnseen(p)
    BY <1>5, <2>3 DEF Recreate, Ends
  <2> QED
    BY <2>1, <2>2, <2>3
<1>6. ASSUME NEW p \in Clis, Connect(p) PROVE Untouched'
  BY <1>6, ConnectEffect DEF Connect, Fails, Leaves, Ends
<1>7. ASSUME NEW p \in Clis, AttachStreams(p) PROVE Untouched'
  BY <1>7 DEF AttachStreams, Fails, Leaves, Ends
<1>8. ASSUME NEW p \in Clis, Start(p) PROVE Untouched'
  BY <1>8, StartEffect DEF Start, Fails, Leaves, Ends
<1>9. ASSUME NEW p \in Clis, Notify(p) PROVE Untouched'
  BY <1>9 DEF Notify, Query, Shell, NoShell, Goto
<1>10. ASSUME NEW p \in Clis, Copied(p) PROVE Untouched'
  BY <1>10 DEF Copied, Moves, Returns, Goto
<1>11. ASSUME NEW p \in Clis, ExitCode(p) PROVE Untouched'
  BY <1>11 DEF ExitCode, Returns, Goto
<1>12. ASSUME NEW p \in Clis, Select(p) PROVE Untouched'
  BY <1>12 DEF Select, Moves, ShellReturns, Returns, OutputResult, Goto
<1>13. ASSUME NEW p \in Clis, Output(p) PROVE Untouched'
  BY <1>13 DEF Output, ShellReturns, Returns, OutputResult, Goto
<1>14. ASSUME NEW p \in Clis, StopInfo(p) PROVE Untouched'
  BY <1>14 DEF StopInfo, Ends, Leaves, Named
<1>15. ASSUME NEW p \in Clis, StopRemove(p) PROVE Untouched'
  BY <1>15, RemoveEffect DEF StopRemove, Ends, Leaves, Removes
<1>16. ASSUME NEW p \in Clis, OutputEnds(p) PROVE Untouched'
  BY <1>16 DEF OutputEnds
<1>17. ASSUME NEW p \in Clis, InputEnds(p) PROVE Untouched'
  BY <1>17 DEF InputEnds
<1>18. ASSUME NEW p \in Clis, Interrupt(p) PROVE Untouched'
  BY <1>18 DEF Interrupt, Leaves, Ends
<1>19. ASSUME NEW p \in Clis, SigInfo(p) PROVE Untouched'
  BY <1>19 DEF SigInfo, Named
<1>20. ASSUME NEW p \in Clis, SigRemove(p) PROVE Untouched'
  BY <1>20, RemoveEffect DEF SigRemove, Removes
<1>21. ASSUME NEW p \in Clis, Crash(p) PROVE Untouched'
  BY <1>21 DEF Crash, Leaves, Ends
<1>22. ASSUME NEW p \in Clis, MysqlExits(p) PROVE Untouched'
  <2>1. own[p] \in Ids
    BY <1>22 DEF MysqlExits, Up
  <2> QED
    BY <1>22, <2>1, ExitEffect DEF MysqlExits
<1>23. ASSUME NEW i \in Ids, Stopped(i) PROVE Untouched'
  BY <1>23, RemoveEffect DEF Stopped, Removes
<1> QED
  BY <1>0, <1>1, <1>2, <1>3, <1>4, <1>5, <1>6, <1>7, <1>8, <1>9, <1>10, <1>11, <1>12, <1>13,
     <1>14, <1>15, <1>16, <1>17, <1>18, <1>19, <1>20, <1>21, <1>22, <1>23 DEF Next, Main

-----------------------------------------------------------------------------
(* The properties. *)

\* A query ends well on status 0 only, and the status stays what it is.
LEMMA HonestStep == SessionInv /\ QueryIsHonest /\ [Next]_vars => QueryIsHonest'
<1> SUFFICES ASSUME SessionInv /\ QueryIsHonest, [Next]_vars PROVE QueryIsHonest'
  OBVIOUS
<1> USE SessionAssumption, EngineAssumption DEF Shape, Early, EndsOnce, Up, QueryIsHonest,
        engine, main, signal, streams, IdOrNil, Set, Attaching, Running, Stopping, Goto, Exists,
        EngineTypeOK, TypeOK, SessionInv
<1>0. CASE UNCHANGED vars
  BY <1>0 DEF vars, engine
<1>1. ASSUME NEW p \in Clis, \E m \in Modes : Execute(p, m) PROVE QueryIsHonest'
  BY <1>1 DEF Execute, Goto
<1>2. ASSUME NEW p \in Clis, Create(p) PROVE QueryIsHonest'
  <2>1. CASE Created(p)
    <3>1. pc[p] = "create"
      BY <1>2 DEF Create
    <3> QED
      BY <2>1, <3>1, CreatedEffect
  <2>2. CASE MadeUnseen(p)
    BY <1>2, <2>2, UnseenEffect DEF Create, Created
  <2>3. CASE ~ Created(p) /\ ~ MadeUnseen(p)
    BY <1>2, <2>3 DEF Create
  <2> QED
    BY <2>1, <2>2, <2>3
<1>3. ASSUME NEW p \in Clis, Conflict(p) PROVE QueryIsHonest'
  BY <1>3 DEF Conflict, Ends, Named
<1>4. ASSUME NEW p \in Clis, ForceRemove(p) PROVE QueryIsHonest'
  BY <1>4, RemoveEffect DEF ForceRemove, Ends, Removes
<1>5. ASSUME NEW p \in Clis, Recreate(p) PROVE QueryIsHonest'
  <2>1. CASE Created(p)
    <3>1. pc[p] = "recreate"
      BY <1>5 DEF Recreate, Ends
    <3> QED
      BY <2>1, <3>1, CreatedEffect
  <2>2. CASE MadeUnseen(p)
    BY <1>5, <2>2, UnseenEffect DEF Recreate, Created, Ends
  <2>3. CASE ~ Created(p) /\ ~ MadeUnseen(p)
    BY <1>5, <2>3 DEF Recreate, Ends
  <2> QED
    BY <2>1, <2>2, <2>3
<1>6. ASSUME NEW p \in Clis, Connect(p) PROVE QueryIsHonest'
  BY <1>6, ConnectEffect DEF Connect, Fails, Leaves, Ends
<1>7. ASSUME NEW p \in Clis, AttachStreams(p) PROVE QueryIsHonest'
  BY <1>7 DEF AttachStreams, Fails, Leaves, Ends
<1>8. ASSUME NEW p \in Clis, Start(p) PROVE QueryIsHonest'
  BY <1>8, StartEffect DEF Start, Fails, Leaves, Ends
<1>9. ASSUME NEW p \in Clis, Notify(p) PROVE QueryIsHonest'
  BY <1>9 DEF Notify, Query, Shell, NoShell, Goto
<1>10. ASSUME NEW p \in Clis, Copied(p) PROVE QueryIsHonest'
  BY <1>10 DEF Copied, Moves, Returns, Goto
<1>11. ASSUME NEW p \in Clis, ExitCode(p) PROVE QueryIsHonest'
  BY <1>11 DEF ExitCode, Returns, Goto
<1>12. ASSUME NEW p \in Clis, Select(p) PROVE QueryIsHonest'
  BY <1>12 DEF Select, Moves, ShellReturns, Returns, OutputResult, Goto
<1>13. ASSUME NEW p \in Clis, Output(p) PROVE QueryIsHonest'
  BY <1>13 DEF Output, ShellReturns, Returns, OutputResult, Goto
<1>14. ASSUME NEW p \in Clis, StopInfo(p) PROVE QueryIsHonest'
  BY <1>14 DEF StopInfo, Ends, Leaves, Named
<1>15. ASSUME NEW p \in Clis, StopRemove(p) PROVE QueryIsHonest'
  BY <1>15, RemoveEffect DEF StopRemove, Ends, Leaves, Removes
<1>16. ASSUME NEW p \in Clis, OutputEnds(p) PROVE QueryIsHonest'
  BY <1>16 DEF OutputEnds
<1>17. ASSUME NEW p \in Clis, InputEnds(p) PROVE QueryIsHonest'
  BY <1>17 DEF InputEnds
<1>18. ASSUME NEW p \in Clis, Interrupt(p) PROVE QueryIsHonest'
  BY <1>18 DEF Interrupt, Leaves, Ends
<1>19. ASSUME NEW p \in Clis, SigInfo(p) PROVE QueryIsHonest'
  BY <1>19 DEF SigInfo, Named
<1>20. ASSUME NEW p \in Clis, SigRemove(p) PROVE QueryIsHonest'
  BY <1>20, RemoveEffect DEF SigRemove, Removes
<1>21. ASSUME NEW p \in Clis, Crash(p) PROVE QueryIsHonest'
  BY <1>21 DEF Crash, Leaves, Ends
<1>22. ASSUME NEW p \in Clis, MysqlExits(p) PROVE QueryIsHonest'
  BY <1>22 DEF MysqlExits, Up
<1>23. ASSUME NEW i \in Ids, Stopped(i) PROVE QueryIsHonest'
  BY <1>23, RemoveEffect DEF Stopped, Removes
<1> QED
  BY <1>0, <1>1, <1>2, <1>3, <1>4, <1>5, <1>6, <1>7, <1>8, <1>9, <1>10, <1>11, <1>12, <1>13,
     <1>14, <1>15, <1>16, <1>17, <1>18, <1>19, <1>20, <1>21, <1>22, <1>23 DEF Next, Main

\* Whoever ends has removed its container, or leaves it.
LEMMA NoClientLeftStep == SessionInv /\ NoClientLeft /\ [Next]_vars => NoClientLeft'
<1> SUFFICES ASSUME SessionInv /\ NoClientLeft, [Next]_vars PROVE NoClientLeft'
  OBVIOUS
<1> USE SessionAssumption, EngineAssumption DEF Shape, Early, OneName, StopsOwn, Named,
        NoClientLeft, engine, main, signal, streams, IdOrNil, Set, Attaching, Running, Stopping,
        Goto, Exists, EngineTypeOK, TypeOK, SessionInv
<1>0. CASE UNCHANGED vars
  BY <1>0 DEF vars, engine
<1>1. ASSUME NEW p \in Clis, \E m \in Modes : Execute(p, m) PROVE NoClientLeft'
  BY <1>1 DEF Execute, Goto
<1>2. ASSUME NEW p \in Clis, Create(p) PROVE NoClientLeft'
  <2>1. CASE Created(p)
    <3>1. pc[p] = "create"
      BY <1>2 DEF Create
    <3> QED
      BY <2>1, <3>1, CreatedEffect
  <2>2. CASE MadeUnseen(p)
    BY <1>2, <2>2, UnseenEffect DEF Create, Created
  <2>3. CASE ~ Created(p) /\ ~ MadeUnseen(p)
    BY <1>2, <2>3 DEF Create
  <2> QED
    BY <2>1, <2>2, <2>3
<1>3. ASSUME NEW p \in Clis, Conflict(p) PROVE NoClientLeft'
  BY <1>3 DEF Conflict, Ends, Named
<1>4. ASSUME NEW p \in Clis, ForceRemove(p) PROVE NoClientLeft'
  BY <1>4, RemoveEffect DEF ForceRemove, Ends, Removes
<1>5. ASSUME NEW p \in Clis, Recreate(p) PROVE NoClientLeft'
  <2>1. CASE Created(p)
    <3>1. pc[p] = "recreate"
      BY <1>5 DEF Recreate, Ends
    <3> QED
      BY <2>1, <3>1, CreatedEffect
  <2>2. CASE MadeUnseen(p)
    BY <1>5, <2>2, UnseenEffect DEF Recreate, Created, Ends
  <2>3. CASE ~ Created(p) /\ ~ MadeUnseen(p)
    BY <1>5, <2>3 DEF Recreate, Ends
  <2> QED
    BY <2>1, <2>2, <2>3
<1>6. ASSUME NEW p \in Clis, Connect(p) PROVE NoClientLeft'
  BY <1>6, ConnectEffect DEF Connect, Fails, Leaves, Ends
<1>7. ASSUME NEW p \in Clis, AttachStreams(p) PROVE NoClientLeft'
  BY <1>7 DEF AttachStreams, Fails, Leaves, Ends
<1>8. ASSUME NEW p \in Clis, Start(p) PROVE NoClientLeft'
  BY <1>8, StartEffect DEF Start, Fails, Leaves, Ends
<1>9. ASSUME NEW p \in Clis, Notify(p) PROVE NoClientLeft'
  BY <1>9 DEF Notify, Query, Shell, NoShell, Goto
<1>10. ASSUME NEW p \in Clis, Copied(p) PROVE NoClientLeft'
  BY <1>10 DEF Copied, Moves, Returns, Goto
<1>11. ASSUME NEW p \in Clis, ExitCode(p) PROVE NoClientLeft'
  BY <1>11 DEF ExitCode, Returns, Goto
<1>12. ASSUME NEW p \in Clis, Select(p) PROVE NoClientLeft'
  BY <1>12 DEF Select, Moves, ShellReturns, Returns, OutputResult, Goto
<1>13. ASSUME NEW p \in Clis, Output(p) PROVE NoClientLeft'
  BY <1>13 DEF Output, ShellReturns, Returns, OutputResult, Goto
<1>14. ASSUME NEW p \in Clis, StopInfo(p) PROVE NoClientLeft'
  BY <1>14 DEF StopInfo, Ends, Leaves, Named
<1>15. ASSUME NEW p \in Clis, StopRemove(p) PROVE NoClientLeft'
  BY <1>15, RemoveEffect DEF StopRemove, Ends, Leaves, Removes
<1>16. ASSUME NEW p \in Clis, OutputEnds(p) PROVE NoClientLeft'
  BY <1>16 DEF OutputEnds
<1>17. ASSUME NEW p \in Clis, InputEnds(p) PROVE NoClientLeft'
  BY <1>17 DEF InputEnds
<1>18. ASSUME NEW p \in Clis, Interrupt(p) PROVE NoClientLeft'
  BY <1>18 DEF Interrupt, Leaves, Ends
<1>19. ASSUME NEW p \in Clis, SigInfo(p) PROVE NoClientLeft'
  BY <1>19 DEF SigInfo, Named
<1>20. ASSUME NEW p \in Clis, SigRemove(p) PROVE NoClientLeft'
  BY <1>20, RemoveEffect DEF SigRemove, Removes
<1>21. ASSUME NEW p \in Clis, Crash(p) PROVE NoClientLeft'
  BY <1>21 DEF Crash, Leaves, Ends
<1>22. ASSUME NEW p \in Clis, MysqlExits(p) PROVE NoClientLeft'
  <2>1. own[p] \in Ids
    BY <1>22 DEF MysqlExits, Up
  <2> QED
    BY <1>22, <2>1, ExitEffect DEF MysqlExits
<1>23. ASSUME NEW i \in Ids, Stopped(i) PROVE NoClientLeft'
  BY <1>23, RemoveEffect DEF Stopped, Removes
<1> QED
  BY <1>0, <1>1, <1>2, <1>3, <1>4, <1>5, <1>6, <1>7, <1>8, <1>9, <1>10, <1>11, <1>12, <1>13,
     <1>14, <1>15, <1>16, <1>17, <1>18, <1>19, <1>20, <1>21, <1>22, <1>23 DEF Next, Main

\* SessionInv holds in every reachable state, and the properties with it.
LEMMA SessionInvariant == Spec => [](SessionInv /\ QueryIsHonest /\ NoClientLeft)
<1>1. Init => SessionInv /\ QueryIsHonest /\ NoClientLeft
  <2> SUFFICES ASSUME Init PROVE SessionInv /\ QueryIsHonest /\ NoClientLeft
    OBVIOUS
  <2>1. Absent \in Container /\ Absent.state = "absent"
    BY DEF Absent, Container
  <2>2. TypeOK
    BY <2>1, SessionAssumption DEF Init, TypeOK, EngineTypeOK, IdOrNil
  <2>3. \A i \in Ids : ~ Exists(i)
    BY <2>1 DEF Init, Exists
  <2>4. Shape /\ StopsOwn /\ EndsOnce /\ Untouched
    BY DEF Init, Shape, StopsOwn, EndsOnce, Untouched, Up
  <2>5. OneName
    BY <2>3 DEF Init, OneName
  <2>6. QueryIsHonest
    BY DEF Init, QueryIsHonest
  <2>7. NoClientLeft
    BY <2>3 DEF NoClientLeft
  <2> QED
    BY <2>2, <2>4, <2>5, <2>6, <2>7 DEF SessionInv
<1>2. SessionInv /\ QueryIsHonest /\ NoClientLeft /\ [Next]_vars
        => (SessionInv /\ QueryIsHonest /\ NoClientLeft)'
  <2> SUFFICES ASSUME SessionInv, QueryIsHonest, NoClientLeft, [Next]_vars
               PROVE  (SessionInv /\ QueryIsHonest /\ NoClientLeft)'
    OBVIOUS
  <2>1. TypeOK'
    BY TypeStep DEF SessionInv
  <2> QED
    BY <2>1, ShapeStep, OneNameStep, StopsOwnStep, EndsOnceStep, UntouchedStep,
        HonestStep, NoClientLeftStep DEF SessionInv
<1> QED
  BY <1>1, <1>2, PTL DEF Spec

\* The processes, their goroutines and the engine keep to what the code can do,
\* and a removal has an id to remove.
THEOREM TypeCorrect == Spec => []TypeOK
<1>1. SessionInv => TypeOK
  BY DEF SessionInv
<1> QED
  BY <1>1, SessionInvariant, PTL

\* A query succeeds only if its own mysql ended by itself with status 0.
THEOREM QueryIsHonestAlways == Spec => []QueryIsHonest
  BY SessionInvariant, PTL

\* However many sessions take the name from each other, none of them leaves a
\* container behind but for a failed Attach or stop, or a death.
THEOREM NoClientLeftAlways == Spec => []NoClientLeft
  BY SessionInvariant, PTL

-----------------------------------------------------------------------------
(* The refinement of ComponentSlot. *)

\* The engine has at most the one container, and that one bears MysqlCli.
LEMMA EngineFacts == SessionInv => EngineTypeOK /\ UniqueNames /\ NamesValid
  BY SessionAssumption DEF SessionInv, TypeOK, OneName, UniqueNames, NamesValid

\* A session that makes its container fills the slot, whatever the answer.
LEMMA CreatedMakes ==
  ASSUME SessionInv, SessionInv', NEW p \in Clis, Created(p) \/ MadeUnseen(p), pc[p] # "idle"
  PROVE  \E n \in Names : Slot!Make(n)
<1>1. mode[p] \in Confs /\ MysqlCli \in Names
  BY SessionAssumption DEF SessionInv, Shape
<1>2. PICK i \in Ids : ContainerCreate(i, MysqlCli, mode[p])
  BY DEF Created, MadeUnseen
<1>3. EngineTypeOK /\ UniqueNames /\ UniqueNames'
  BY EngineFacts DEF SessionInv, OneName, UniqueNames, Exists
<1> QED
  BY <1>1, <1>2, <1>3, CreateShows DEF Slot!Make, Slot!Empty, NoSlot

\* Every step of every session, and of who stops or ends mysql, is a step of
\* ComponentSlot or leaves the slot alone.
LEMMA SlotStep ==
  ASSUME SessionInv, SessionInv', [Next]_vars
  PROVE  Slot!SlotNext \/ UNCHANGED slotOf
<1>0. EngineTypeOK /\ UniqueNames /\ UniqueNames' /\ NamesValid
  BY EngineFacts DEF SessionInv, OneName, UniqueNames, Exists
<1>1. CASE UNCHANGED ctr
  BY <1>1 DEF slotOf, Named
<1>2. ASSUME NEW p \in Clis, Create(p) \/ Recreate(p), ~ UNCHANGED ctr
      PROVE  \E n \in Names : Slot!Make(n)
  BY <1>2, CreatedMakes DEF Create, Recreate, engine
<1>3. ASSUME NEW i, ContainerRemove(i) PROVE \E n \in Names : Slot!Remove(n)
  BY <1>0, <1>3, RemoveShows DEF Slot!Remove, Slot!Empty, NoSlot
<1>4. ASSUME NEW p \in Clis, Connect(p), ~ UNCHANGED ctr
      PROVE  \E n \in Names : Slot!Join(n)
  <2>1. PICK k \in Nets : NetworkConnect(k, own[p])
    BY <1>4 DEF Connect, Fails
  <2>2. ctr[own[p]].state = "created" /\ ctr[own[p]].net = Nil
    BY <1>4, <2>1 DEF Connect, NetworkConnect, SessionInv, Untouched
  <2> QED
    BY <1>0, <2>1, <2>2, ConnectShows DEF Slot!Join
<1>5. ASSUME NEW p \in Clis, Start(p), ~ UNCHANGED ctr
      PROVE  \E n \in Names : Slot!Start(n)
  <2>1. pc[p] = "start" /\ ContainerStart(own[p])
    BY <1>5 DEF Start, Fails
  <2>2. ctr[own[p]].state = "created"
    BY <2>1 DEF ContainerStart, SessionInv, Untouched
  <2>3. PICK n \in Names : /\ slotOf[n] = ViewOf(own[p])
                           /\ slotOf' = [slotOf EXCEPT ![n].state = "running"]
    BY <1>0, <2>1, StartShows
  <2>4. slotOf[n].state = "created"
    BY <2>2, <2>3 DEF ViewOf
  <2> QED
    BY <2>3, <2>4 DEF Slot!Start
<1>6. ASSUME NEW p \in Clis, MysqlExits(p) PROVE \E n \in Names : Slot!End(n)
  <2>1. own[p] \in Ids /\ ContainerExit(own[p])
    BY <1>6 DEF MysqlExits, Up, SessionInv, TypeOK, IdOrNil
  <2> QED
    BY <1>0, <2>1, ExitShows DEF Slot!End
<1>7. ASSUME NEW p \in Clis,
             ForceRemove(p) \/ StopRemove(p) \/ SigRemove(p), ~ UNCHANGED ctr
      PROVE  \E n \in Names : Slot!Remove(n)
  BY <1>3, <1>7 DEF ForceRemove, StopRemove, SigRemove, Removes
<1>8. ASSUME NEW i \in Ids, Stopped(i) PROVE \E n \in Names : Slot!Remove(n)
  BY <1>3, <1>8 DEF Stopped, Removes
<1>9. ASSUME NEW p \in Clis,
             \/ \E m \in Modes : Execute(p, m)
             \/ Conflict(p) \/ AttachStreams(p) \/ Notify(p) \/ Copied(p)
             \/ ExitCode(p) \/ Select(p) \/ Output(p) \/ StopInfo(p)
             \/ OutputEnds(p) \/ InputEnds(p)
             \/ Interrupt(p) \/ SigInfo(p) \/ Crash(p)
      PROVE  UNCHANGED ctr
  BY <1>9 DEF Execute, Conflict, AttachStreams, Fails, Notify, Copied, ExitCode, Select,
              Output, StopInfo, OutputEnds, InputEnds, Interrupt, SigInfo, Crash,
              Moves, Returns, ShellReturns, engine
<1>10. CASE UNCHANGED vars
  BY <1>1, <1>10 DEF vars, engine
<1> QED
  BY <1>1, <1>2, <1>4, <1>5, <1>6, <1>7, <1>8, <1>9, <1>10 DEF Next, Main, Slot!SlotNext

\* The containers of all sessions together keep the promise of ComponentSlot:
\* each is made, joined once, started once and then only goes away.
THEOREM SlotRefinement == Spec => ImplementsSlot
<1>1. Init => Slot!SlotInit
  <2> SUFFICES ASSUME Init PROVE slotOf = [n \in Names |-> Slot!Empty]
    BY DEF Slot!SlotInit
  <2>1. \A n \in Names : Named(n) = {}
    BY DEF Init, Absent, Named
  <2> QED
    BY <2>1 DEF slotOf, Slot!Empty
<1>2. SessionInv /\ SessionInv' /\ [Next]_vars => [Slot!SlotNext]_slotOf
  BY SlotStep
<1>3. SessionInv /\ QueryIsHonest /\ NoClientLeft => SessionInv
  OBVIOUS
<1> QED
  BY <1>1, <1>2, <1>3, SessionInvariant, PTL DEF Spec, ImplementsSlot, Slot!SlotSpec
=============================================================================
