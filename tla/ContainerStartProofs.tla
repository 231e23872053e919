------------------------ MODULE ContainerStartProofs ------------------------
(***************************************************************************)
(* Proofs about ContainerStart, for any number of processes, names, ids,   *)
(* networks and configurations.                                            *)
(*                                                                         *)
(* The first part says what each primitive of an action (Goto, Hold) does  *)
(* to the entry it changes and to the others, as DockerEngineProofs does   *)
(* for the requests; the invariant proofs then use these facts and no      *)
(* EXCEPT.                                                                 *)
(***************************************************************************)
EXTENDS ContainerStart, DockerEngineProofs

Label == {"idle"} \cup Starting \cup Removing \cup Ended

\* Moving one process leaves the others where they are.
LEMMA GotoEffect ==
  ASSUME TypeOK, NEW p \in Procs, NEW l \in Label, Goto(p, l)
  PROVE  /\ pc' \in [Procs -> Label]
         /\ pc'[p] = l
         /\ \A q \in Procs : q # p => pc'[q] = pc[q]
  BY DEF TypeOK, Goto, Label

\* A process that takes hold of an id keeps its arguments.
LEMMA HoldEffect ==
  ASSUME TypeOK, NEW p \in Procs, NEW i \in Ids \cup {Nil}, Hold(p, i)
  PROVE  /\ call' \in [Procs -> Call]
         /\ call'[p].id = i
         /\ call'[p].name = call[p].name
         /\ call'[p].conf = call[p].conf
         /\ \A q \in Procs : q # p => call'[q] = call[q]
<1>. DEFINE r == [call[p] EXCEPT !.id = i]
<1>1. call \in [Procs -> Call] /\ call[p] \in Call
  BY DEF TypeOK
<1>2. r \in Call /\ r.id = i /\ r.name = call[p].name /\ r.conf = call[p].conf
  BY <1>1 DEF Call
<1>3. call' = [call EXCEPT ![p] = r]
  BY DEF Hold
<1>. HIDE DEF r
<1> QED
  BY <1>1, <1>2, <1>3

\* A call that begins or ends replaces the arguments of its process.
LEMMA CallEffect ==
  ASSUME TypeOK, NEW p \in Procs, NEW n \in Names \cup {Nil},
         NEW c \in Confs \cup {Nil},
         call' = [call EXCEPT ![p] = [name |-> n, conf |-> c, id |-> Nil]]
  PROVE  /\ call' \in [Procs -> Call]
         /\ call'[p].id = Nil
         /\ call'[p].name = n
         /\ call'[p].conf = c
         /\ \A q \in Procs : q # p => call'[q] = call[q]
<1>. DEFINE r == [name |-> n, conf |-> c, id |-> Nil]
<1>1. r \in Call /\ r.id = Nil /\ r.name = n /\ r.conf = c
  BY DEF Call
<1>2. call \in [Procs -> Call]
  BY DEF TypeOK
<1>3. call' = [call EXCEPT ![p] = r]
  OBVIOUS
<1>. HIDE DEF r
<1> QED
  BY <1>1, <1>2, <1>3

\* A fault, an exit or a removal clears what was asked for under one name.
LEMMA ForgetEffect ==
  ASSUME TypeOK, NEW n, Forget(n)
  PROVE  /\ asked' \in [Names -> BOOLEAN]
         /\ n \in Names => ~ asked'[n]
         /\ \A m \in Names : m # n => (asked'[m] <=> asked[m])
  BY DEF TypeOK, Forget

\* The engine keeps its types.
LEMMA EngineTyped == TypeOK => EngineTypeOK
  BY DEF TypeOK

-----------------------------------------------------------------------------
(* Types. *)

\* The arguments and the id a call needs are there.
CallsValid ==
  \A p \in Procs :
    /\ pc[p] \in Starting => call[p].name \in Names /\ call[p].conf \in Confs
    /\ pc[p] \in Removing => call[p].name \in Names
    /\ pc[p] \in Owning \cup {"forceRemove", "rmRemove"} => call[p].id \in Ids

USE DEF Label, Starting, Removing, Ended, AfterStart, Owning

\* Both ways a ContainerCreate may go leave containers in ctr.
LEMMA CreatedType ==
  ASSUME TypeOK, NEW p \in Procs, Created(p)
  PROVE  TypeOK'
<1>1. PICK i \in Ids :
        /\ ContainerCreate(i, call[p].name, call[p].conf)
        /\ Hold(p, i)
        /\ Goto(p, "start")
        /\ UNCHANGED <<nets, images, asked>>
  BY DEF Created
<1>2. call[p].name \in Names \cup {Nil} /\ call[p].conf \in Confs \cup {Nil}
  BY DEF TypeOK, Call
<1>3. ctr' \in [Ids -> Container]
  BY <1>1, <1>2, CreateEffect, EngineTyped
<1> QED
  BY <1>1, <1>3, HoldEffect, GotoEffect DEF TypeOK, EngineTypeOK

\* A container made by an attempt that reported an error is a well-typed one.
LEMMA MadeUnseenType ==
  ASSUME TypeOK, NEW p \in Procs, MadeUnseen(p)
  PROVE  ctr' \in [Ids -> Container]
<1>1. PICK i \in Ids : ContainerCreate(i, call[p].name, call[p].conf)
  BY DEF MadeUnseen
<1>2. call[p].name \in Names \cup {Nil} /\ call[p].conf \in Confs \cup {Nil}
  BY DEF TypeOK, Call
<1> QED
  BY <1>1, <1>2, CreateEffect, EngineTyped

\* Every step keeps every variable in its type.
LEMMA TypeStep == TypeOK /\ CallsValid /\ [Next]_vars => TypeOK'
<1> SUFFICES ASSUME TypeOK, CallsValid, [Next]_vars PROVE TypeOK'
  OBVIOUS
<1> USE DEF Fault, engine
<1>1. ASSUME NEW p \in Procs, NEW n \in Names, NEW c \in Confs,
             InfoOrStart(p, n, c)
      PROVE TypeOK'
  BY <1>1, GotoEffect, CallEffect DEF InfoOrStart, TypeOK, EngineTypeOK
<1>2. ASSUME NEW p \in Procs, NEW n \in Names, RemoveContainer(p, n)
      PROVE TypeOK'
  BY <1>2, GotoEffect, CallEffect DEF RemoveContainer, TypeOK, EngineTypeOK
<1>3. ASSUME NEW p \in Procs, IsRunning(p) PROVE TypeOK'
  BY <1>3, GotoEffect, ForgetEffect DEF IsRunning, TypeOK, EngineTypeOK
<1>4. ASSUME NEW p \in Procs, IsInstalled(p) PROVE TypeOK'
  BY <1>4, GotoEffect, ForgetEffect DEF IsInstalled, TypeOK, EngineTypeOK
<1>5. ASSUME NEW p \in Procs, Pull(p) PROVE TypeOK'
  <2>1. call[p].name \in Names
    BY <1>5 DEF Pull, CallsValid
  <2> QED
    BY <1>5, <2>1, GotoEffect, ForgetEffect
       DEF Pull, ImagePull, TypeOK, EngineTypeOK
<1>6. ASSUME NEW p \in Procs, Create(p) PROVE TypeOK'
  <2>1. CASE Created(p)
    BY <2>1, CreatedType
  <2>2. CASE ~ Created(p)
    BY <1>6, <2>2, GotoEffect, ForgetEffect, MadeUnseenType
       DEF Create, TypeOK, EngineTypeOK
  <2> QED
    BY <2>1, <2>2
<1>7. ASSUME NEW p \in Procs, Conflict(p) PROVE TypeOK'
  BY <1>7, GotoEffect, HoldEffect, ForgetEffect
     DEF Conflict, Named, TypeOK, EngineTypeOK
<1>8. ASSUME NEW p \in Procs, ForceRemove(p) PROVE TypeOK'
  BY <1>8, GotoEffect, HoldEffect, ForgetEffect, RemoveEffect
     DEF ForceRemove, ContainerRemove, Exists, TypeOK, EngineTypeOK
<1>9. ASSUME NEW p \in Procs, Recreate(p) PROVE TypeOK'
  <2>1. CASE Created(p)
    BY <2>1, CreatedType
  <2>2. CASE ~ Created(p)
    BY <1>9, <2>2, GotoEffect, ForgetEffect, MadeUnseenType
       DEF Recreate, TypeOK, EngineTypeOK
  <2> QED
    BY <2>1, <2>2
<1>10. ASSUME NEW p \in Procs, StartContainer(p) PROVE TypeOK'
  BY <1>10, GotoEffect, ForgetEffect, StartEffect
     DEF StartContainer, ContainerStart, Exists, TypeOK, EngineTypeOK
<1>11. ASSUME NEW p \in Procs, NetworkInspect(p) PROVE TypeOK'
  BY <1>11, GotoEffect, ForgetEffect DEF NetworkInspect, TypeOK, EngineTypeOK
<1>12. ASSUME NEW p \in Procs, CreateNetwork(p) PROVE TypeOK'
  BY <1>12, GotoEffect, ForgetEffect
     DEF CreateNetwork, NetworkCreate, TypeOK, EngineTypeOK
<1>13. ASSUME NEW p \in Procs, ConnectToNetwork(p) PROVE TypeOK'
  BY <1>13, GotoEffect, ForgetEffect, ConnectEffect
     DEF ConnectToNetwork, NetworkConnect, Exists, TypeOK, EngineTypeOK
<1>14. ASSUME NEW p \in Procs, Info(p) PROVE TypeOK'
  BY <1>14, GotoEffect, HoldEffect, ForgetEffect
     DEF Info, Named, TypeOK, EngineTypeOK
<1>15. ASSUME NEW p \in Procs, RemoveInfo(p) PROVE TypeOK'
  BY <1>15, GotoEffect, HoldEffect, ForgetEffect
     DEF RemoveInfo, Named, TypeOK, EngineTypeOK
<1>16. ASSUME NEW p \in Procs, Remove(p) PROVE TypeOK'
  BY <1>16, GotoEffect, HoldEffect, ForgetEffect, RemoveEffect
     DEF Remove, ContainerRemove, Exists, TypeOK, EngineTypeOK
<1>17. ASSUME NEW p \in Procs, Return(p) PROVE TypeOK'
  BY <1>17, GotoEffect, CallEffect DEF Return, NoCall, TypeOK, EngineTypeOK
<1>18. ASSUME NEW p \in Procs, Crash(p) PROVE TypeOK'
  BY <1>18, GotoEffect, CallEffect, ForgetEffect
     DEF Crash, NoCall, TypeOK, EngineTypeOK
<1>19. ASSUME NEW i \in Ids, Exit(i) PROVE TypeOK'
  BY <1>19, ExitEffect, ForgetEffect DEF Exit, TypeOK, EngineTypeOK
<1>20. CASE UNCHANGED vars
  BY <1>20 DEF vars, TypeOK, EngineTypeOK
<1> QED
  BY <1>1, <1>2, <1>3, <1>4, <1>5, <1>6, <1>7, <1>8, <1>9, <1>10, <1>11,
     <1>12, <1>13, <1>14, <1>15, <1>16, <1>17, <1>18, <1>19, <1>20
     DEF Next, Step

-----------------------------------------------------------------------------
(* The invariant behind the safety properties. *)

\* An id found by name still means that name: ids are not reused.
HeldByName ==
  \A p \in Procs : pc[p] \in {"forceRemove", "rmRemove"} /\ Exists(call[p].id) =>
    ctr[call[p].id].name = call[p].name

\* A container its call is about to connect has been started.
StartedFirst ==
  \A p \in Procs : pc[p] \in AfterStart /\ Exists(call[p].id) =>
    ctr[call[p].id].state \in {"running", "exited"}

SafeInv ==
  /\ TypeOK
  /\ CallsValid
  /\ UniqueNames
  /\ NamesValid
  /\ HeldByName
  /\ StartsItsOwn
  /\ StartedFirst

-----------------------------------------------------------------------------
(* What the steps do to the invariant, by the kind of their effect. *)

\* A step that leaves the containers alone: the process ends up holding
\* nothing, or an id it just found under its name, or what it held before.
LEMMA MoveSafe ==
  ASSUME SafeInv, TypeOK', NEW p \in Procs, UNCHANGED ctr,
         \A q \in Procs : q # p => pc'[q] = pc[q] /\ call'[q] = call[q],
         pc'[p] \in Starting => call'[p].name \in Names /\ call'[p].conf \in Confs,
         pc'[p] \in Removing => call'[p].name \in Names,
         \/ pc'[p] \notin Owning \cup {"forceRemove", "rmRemove"}
         \/ pc'[p] \in {"forceRemove", "rmRemove"} /\ call'[p].id \in Named(call'[p].name)
         \/ pc[p] \in AfterStart /\ pc'[p] \in AfterStart /\ call'[p] = call[p]
  PROVE  SafeInv'
<1>1. CallsValid' /\ HeldByName' /\ StartedFirst'
  BY DEF SafeInv, CallsValid, HeldByName, StartedFirst, Exists, Named
<1>2. UniqueNames' /\ NamesValid'
  BY DEF SafeInv, UniqueNames, NamesValid, Exists
<1>3. StartsItsOwn'
  BY DEF SafeInv, StartsItsOwn, Exists
<1> QED
  BY <1>1, <1>2, <1>3 DEF SafeInv

\* A step that removes a container: its process lets go of the id.
LEMMA RemovalSafe ==
  ASSUME SafeInv, TypeOK', NEW p \in Procs, NEW i \in Ids, ContainerRemove(i),
         \A q \in Procs : q # p => pc'[q] = pc[q] /\ call'[q] = call[q],
         pc'[p] \in {"recreate", "failed", "ok"},
         pc'[p] = "recreate" => call'[p].name \in Names /\ call'[p].conf \in Confs
  PROVE  SafeInv'
<1>1. /\ ctr'[i].state = "absent"
      /\ \A j \in Ids : j # i => ctr'[j] = ctr[j]
  BY RemoveEffect, EngineTyped DEF SafeInv
<1>2. \A j : Exists(j)' => Exists(j) /\ ctr'[j] = ctr[j]
  BY <1>1 DEF Exists
<1>3. CallsValid' /\ HeldByName' /\ StartedFirst'
  BY <1>2 DEF SafeInv, CallsValid, HeldByName, StartedFirst
<1>4. UniqueNames' /\ NamesValid'
  BY <1>2 DEF SafeInv, UniqueNames, NamesValid
<1>5. StartsItsOwn'
  BY <1>2 DEF SafeInv, StartsItsOwn
<1> QED
  BY <1>3, <1>4, <1>5 DEF SafeInv

\* A step that makes a container under a free name: either its process holds
\* the new id and starts the container next, or nobody knows the id.
LEMMA CreationSafe ==
  ASSUME SafeInv, TypeOK', NEW p \in Procs, NEW i \in Ids, FreshId(i),
         pc[p] \in {"create", "recreate"},
         ContainerCreate(i, call[p].name, call[p].conf),
         \A q \in Procs : q # p => pc'[q] = pc[q] /\ call'[q] = call[q],
         call'[p].name = call[p].name, call'[p].conf = call[p].conf,
         \/ pc'[p] = "start" /\ call'[p].id = i
         \/ pc'[p] \in {"conflict", "failed"}
  PROVE  SafeInv'
<1>1. call[p].name \in Names /\ call[p].conf \in Confs
  BY DEF SafeInv, CallsValid
<1>2. /\ Named(call[p].name) = {}
      /\ ~ Exists(i)
      /\ ctr'[i].name = call[p].name
      /\ ctr'[i].state = "created"
      /\ ctr'[i].conf = call[p].conf
      /\ ctr'[i].net = Nil
      /\ \A j \in Ids : j # i => ctr'[j] = ctr[j]
  BY <1>1, CreateEffect, EngineTyped DEF SafeInv
<1>3. \A j : Exists(j)' => j = i \/ (Exists(j) /\ ctr'[j] = ctr[j])
  BY <1>2 DEF Exists
<1>4. \A q \in Procs : q # p => call'[q].id # i
  BY DEF FreshId
<1>5. CallsValid' /\ HeldByName' /\ StartedFirst'
  BY <1>1, <1>3, <1>4 DEF SafeInv, CallsValid, HeldByName, StartedFirst
<1>6. UniqueNames'
  BY <1>2, <1>3 DEF SafeInv, UniqueNames, Named, Exists
<1>7. NamesValid'
  BY <1>1, <1>2, <1>3 DEF SafeInv, NamesValid
<1>8. StartsItsOwn'
  BY <1>2, <1>3, <1>4 DEF SafeInv, StartsItsOwn
<1> QED
  BY <1>5, <1>6, <1>7, <1>8 DEF SafeInv

\* A step that changes the state or the network of one container, not its
\* name or configuration.
LEMMA ChangeSafe ==
  ASSUME SafeInv, TypeOK', NEW i \in Ids, Exists(i),
         \A j \in Ids : j # i => ctr'[j] = ctr[j],
         ctr'[i].name = ctr[i].name, ctr'[i].conf = ctr[i].conf,
         ctr'[i].state \in {"running", "exited"},
         call' = call,
         \A q \in Procs : pc'[q] \in Starting => pc[q] \in Starting,
         \A q \in Procs : pc'[q] \in Removing => pc[q] \in Removing,
         \A q \in Procs : pc'[q] \in Owning => pc[q] \in Owning,
         \A q \in Procs : pc'[q] \in {"forceRemove", "rmRemove"} => pc'[q] = pc[q],
         \A q \in Procs : pc'[q] \in Owning /\ call[q].id = i =>
           pc'[q] # "start" /\ ctr'[i].net = Nil,
         \A q \in Procs : pc'[q] = "start" => pc[q] = "start",
         \A q \in Procs : pc'[q] \in AfterStart /\ call[q].id # i => pc[q] \in AfterStart
  PROVE  SafeInv'
<1>1. \A j : Exists(j)' => Exists(j) /\ ctr'[j].name = ctr[j].name
                            /\ ctr'[j].conf = ctr[j].conf
  BY DEF Exists
<1>2. CallsValid' /\ HeldByName' /\ StartedFirst'
  BY <1>1 DEF SafeInv, CallsValid, HeldByName, StartedFirst, Exists
<1>3. UniqueNames' /\ NamesValid'
  BY <1>1 DEF SafeInv, UniqueNames, NamesValid
<1>4. StartsItsOwn'
  BY <1>1 DEF SafeInv, StartsItsOwn, Exists
<1> QED
  BY <1>2, <1>3, <1>4 DEF SafeInv

-----------------------------------------------------------------------------
(* Every step preserves the invariant. *)

\* Every step of InfoOrStart, RemoveContainer, a crash or an exit keeps SafeInv.
LEMMA SafeStep == SafeInv /\ [Next]_vars => SafeInv'
<1> SUFFICES ASSUME SafeInv, [Next]_vars PROVE SafeInv'
  OBVIOUS
<1>0. TypeOK /\ CallsValid /\ TypeOK'
  BY TypeStep DEF SafeInv
<1> USE DEF Fault, engine
<1>1. ASSUME NEW p \in Procs, NEW n \in Names, NEW c \in Confs,
             InfoOrStart(p, n, c)
      PROVE SafeInv'
  <2>1. call'[p].name = n /\ call'[p].conf = c
    BY <1>0, <1>1, CallEffect DEF InfoOrStart
  <2>2. \A q \in Procs : q # p => pc'[q] = pc[q] /\ call'[q] = call[q]
    BY <1>0, <1>1, CallEffect, GotoEffect DEF InfoOrStart
  <2> QED
    BY <1>0, <1>1, <2>1, <2>2, MoveSafe, GotoEffect DEF InfoOrStart
<1>2. ASSUME NEW p \in Procs, NEW n \in Names, RemoveContainer(p, n)
      PROVE SafeInv'
  <2>1. call'[p].name = n
    BY <1>0, <1>2, CallEffect DEF RemoveContainer
  <2>2. \A q \in Procs : q # p => pc'[q] = pc[q] /\ call'[q] = call[q]
    BY <1>0, <1>2, CallEffect, GotoEffect DEF RemoveContainer
  <2> QED
    BY <1>0, <1>2, <2>1, <2>2, MoveSafe, GotoEffect DEF RemoveContainer
<1>3. ASSUME NEW p \in Procs, IsRunning(p) PROVE SafeInv'
  BY <1>0, <1>3, MoveSafe, GotoEffect DEF IsRunning, CallsValid
<1>4. ASSUME NEW p \in Procs, IsInstalled(p) PROVE SafeInv'
  BY <1>0, <1>4, MoveSafe, GotoEffect DEF IsInstalled, CallsValid
<1>5. ASSUME NEW p \in Procs, Pull(p) PROVE SafeInv'
  BY <1>0, <1>5, MoveSafe, GotoEffect DEF Pull, CallsValid
<1>6. ASSUME NEW p \in Procs, Create(p) PROVE SafeInv'
  <2>1. CASE Created(p)
    BY <1>0, <1>6, <2>1, CreationSafe, GotoEffect, HoldEffect
       DEF Create, Created
  <2>2. CASE UNCHANGED ctr /\ ~ Created(p)
    BY <1>0, <1>6, <2>2, MoveSafe, GotoEffect DEF Create, CallsValid
  <2>3. CASE MadeUnseen(p) /\ ~ Created(p) /\ ~ UNCHANGED ctr
    BY <1>0, <1>6, <2>3, CreationSafe, GotoEffect DEF Create, MadeUnseen
  <2> QED
    BY <1>6, <2>1, <2>2, <2>3 DEF Create
<1>7. ASSUME NEW p \in Procs, Conflict(p) PROVE SafeInv'
  <2>1. CASE pc'[p] = "forceRemove"
    <3>1. PICK i \in Named(call[p].name) : Hold(p, i) /\ Goto(p, "forceRemove")
      BY <1>0, <1>7, <2>1, GotoEffect DEF Conflict
    <3>2. i \in Ids
      BY DEF Named
    <3>3. UNCHANGED ctr /\ Named(call[p].name)' = Named(call'[p].name)
      BY <1>0, <1>7, <3>1, <3>2, HoldEffect DEF Conflict, Named
    <3> QED
      BY <1>0, <1>7, <3>1, <3>2, <3>3, MoveSafe, GotoEffect, HoldEffect
         DEF Conflict, CallsValid, Named
  <2>2. CASE pc'[p] # "forceRemove"
    BY <1>0, <1>7, <2>2, MoveSafe, GotoEffect DEF Conflict, TypeOK, Label
  <2> QED
    BY <2>1, <2>2
<1>8. ASSUME NEW p \in Procs, ForceRemove(p) PROVE SafeInv'
  <2>1. /\ pc[p] = "forceRemove" /\ call[p].id \in Ids
        /\ call[p].name \in Names /\ call[p].conf \in Confs
    BY <1>0, <1>8 DEF ForceRemove, CallsValid
  <2>2. /\ \A q \in Procs : q # p => pc'[q] = pc[q] /\ call'[q] = call[q]
        /\ pc'[p] \in {"recreate", "failed"}
        /\ call'[p].name = call[p].name /\ call'[p].conf = call[p].conf
    BY <1>0, <1>8, GotoEffect, HoldEffect DEF ForceRemove
  <2>3. CASE ContainerRemove(call[p].id)
    BY <1>0, <2>1, <2>2, <2>3, RemovalSafe
  <2>4. CASE UNCHANGED ctr
    BY <1>0, <2>1, <2>2, <2>4, MoveSafe
  <2> QED
    BY <1>8, <2>3, <2>4 DEF ForceRemove
<1>9. ASSUME NEW p \in Procs, Recreate(p) PROVE SafeInv'
  <2>1. CASE Created(p)
    BY <1>0, <1>9, <2>1, CreationSafe, GotoEffect, HoldEffect
       DEF Recreate, Created
  <2>2. CASE UNCHANGED ctr /\ ~ Created(p)
    BY <1>0, <1>9, <2>2, MoveSafe, GotoEffect DEF Recreate, CallsValid
  <2>3. CASE MadeUnseen(p) /\ ~ Created(p) /\ ~ UNCHANGED ctr
    BY <1>0, <1>9, <2>3, CreationSafe, GotoEffect DEF Recreate, MadeUnseen
  <2> QED
    BY <1>9, <2>1, <2>2, <2>3 DEF Recreate
<1>10. ASSUME NEW p \in Procs, StartContainer(p) PROVE SafeInv'
  <2>1. /\ pc[p] = "start" /\ call[p].id \in Ids /\ UNCHANGED call
        /\ \A q \in Procs : q # p => pc'[q] = pc[q]
        /\ pc'[p] \in {"netInspect", "failed"}
    BY <1>0, <1>10, GotoEffect DEF StartContainer, CallsValid
  <2>2. CASE ContainerStart(call[p].id)
    <3>1. /\ Exists(call[p].id)
          /\ ctr'[call[p].id].name = ctr[call[p].id].name
          /\ ctr'[call[p].id].state = "running"
          /\ ctr'[call[p].id].conf = ctr[call[p].id].conf
          /\ ctr'[call[p].id].net = ctr[call[p].id].net
          /\ \A j \in Ids : j # call[p].id => ctr'[j] = ctr[j]
      BY <1>0, <2>1, <2>2, StartEffect, EngineTyped
    <3>2. \A q \in Procs : pc'[q] \in Owning /\ call[q].id = call[p].id => q = p
      BY <2>1, <3>1 DEF SafeInv, StartsItsOwn
    <3>3. ctr[call[p].id].net = Nil
      BY <2>1, <3>1 DEF SafeInv, StartsItsOwn
    <3> QED
      BY <1>0, <2>1, <3>1, <3>2, <3>3, ChangeSafe
  <2>3. CASE UNCHANGED ctr /\ pc'[p] = "failed"
    BY <1>0, <2>1, <2>3, MoveSafe
  <2> QED
    BY <1>0, <1>10, <2>2, <2>3, GotoEffect DEF StartContainer
<1>11. ASSUME NEW p \in Procs, NetworkInspect(p) PROVE SafeInv'
  BY <1>0, <1>11, MoveSafe, GotoEffect DEF NetworkInspect, CallsValid
<1>12. ASSUME NEW p \in Procs, CreateNetwork(p) PROVE SafeInv'
  BY <1>0, <1>12, MoveSafe, GotoEffect DEF CreateNetwork, CallsValid
<1>13. ASSUME NEW p \in Procs, ConnectToNetwork(p) PROVE SafeInv'
  <2>1. /\ pc[p] = "netConnect" /\ call[p].id \in Ids /\ UNCHANGED call
        /\ \A q \in Procs : q # p => pc'[q] = pc[q]
        /\ pc'[p] \in {"info", "failed"}
        /\ call[p].name \in Names /\ call[p].conf \in Confs
    BY <1>0, <1>13, GotoEffect DEF ConnectToNetwork, CallsValid
  <2>2. ASSUME NEW k \in Nets, NetworkConnect(k, call[p].id) PROVE SafeInv'
    <3>1. /\ Exists(call[p].id)
          /\ ctr'[call[p].id].name = ctr[call[p].id].name
          /\ ctr'[call[p].id].state = ctr[call[p].id].state
          /\ ctr'[call[p].id].conf = ctr[call[p].id].conf
          /\ \A j \in Ids : j # call[p].id => ctr'[j] = ctr[j]
      BY <1>0, <2>1, <2>2, ConnectEffect, EngineTyped
    <3>2. \A q \in Procs : pc'[q] \in Owning => call[q].id # call[p].id
      BY <2>1, <3>1 DEF SafeInv, StartsItsOwn
    <3>3. ctr[call[p].id].state \in {"running", "exited"}
      BY <2>1, <3>1 DEF SafeInv, StartedFirst
    <3> QED
      BY <1>0, <2>1, <3>1, <3>2, <3>3, ChangeSafe
  <2>3. CASE UNCHANGED ctr
    BY <1>0, <2>1, <2>3, MoveSafe
  <2> QED
    BY <1>13, <2>2, <2>3 DEF ConnectToNetwork
<1>14. ASSUME NEW p \in Procs, Info(p) PROVE SafeInv'
  BY <1>0, <1>14, MoveSafe, GotoEffect, HoldEffect DEF Info, CallsValid, Named
<1>15. ASSUME NEW p \in Procs, RemoveInfo(p) PROVE SafeInv'
  <2>1. CASE pc'[p] = "rmRemove"
    <3>1. PICK i \in Named(call[p].name) : Hold(p, i) /\ Goto(p, "rmRemove")
      BY <1>0, <1>15, <2>1, GotoEffect DEF RemoveInfo
    <3>2. i \in Ids
      BY DEF Named
    <3> QED
      BY <1>0, <1>15, <3>1, <3>2, MoveSafe, GotoEffect, HoldEffect
         DEF RemoveInfo, CallsValid, Named
  <2>2. CASE pc'[p] # "rmRemove"
    BY <1>0, <1>15, <2>2, MoveSafe, GotoEffect DEF RemoveInfo
  <2> QED
    BY <2>1, <2>2
<1>16. ASSUME NEW p \in Procs, Remove(p) PROVE SafeInv'
  <2>1. call[p].id \in Ids
    BY <1>0, <1>16 DEF Remove, CallsValid
  <2>2. /\ \A q \in Procs : q # p => pc'[q] = pc[q] /\ call'[q] = call[q]
        /\ pc'[p] \in {"ok", "failed"}
    BY <1>0, <1>16, GotoEffect, HoldEffect DEF Remove
  <2>3. CASE ContainerRemove(call[p].id)
    BY <1>0, <2>1, <2>2, <2>3, RemovalSafe
  <2>4. CASE UNCHANGED ctr
    BY <1>0, <2>1, <2>2, <2>4, MoveSafe
  <2> QED
    BY <1>16, <2>3, <2>4 DEF Remove
<1>17. ASSUME NEW p \in Procs, Return(p) PROVE SafeInv'
  BY <1>0, <1>17, MoveSafe, GotoEffect, CallEffect DEF Return, NoCall
<1>18. ASSUME NEW p \in Procs, Crash(p) PROVE SafeInv'
  BY <1>0, <1>18, MoveSafe, GotoEffect, CallEffect DEF Crash, NoCall
<1>19. ASSUME NEW i \in Ids, Exit(i) PROVE SafeInv'
  <2>1. /\ IsUp(i)
        /\ ctr'[i].name = ctr[i].name /\ ctr'[i].state = "exited"
        /\ ctr'[i].conf = ctr[i].conf /\ ctr'[i].net = ctr[i].net
        /\ \A j \in Ids : j # i => ctr'[j] = ctr[j]
        /\ UNCHANGED <<pc, call>>
    BY <1>0, <1>19, ExitEffect, EngineTyped DEF Exit
  <2>2. Exists(i)
    BY <2>1 DEF IsUp, Exists
  <2>3. \A q \in Procs : pc[q] \in Owning /\ call[q].id = i =>
          pc[q] # "start" /\ ctr[i].net = Nil
    BY <2>1, <2>2 DEF SafeInv, StartsItsOwn, IsUp
  <2> QED
    BY <1>0, <2>1, <2>2, <2>3, ChangeSafe
<1>20. CASE UNCHANGED vars
  BY <1>0, <1>20
     DEF vars, SafeInv, CallsValid, UniqueNames, NamesValid, HeldByName,
         StartsItsOwn, StartedFirst, Exists
<1> QED
  BY <1>1, <1>2, <1>3, <1>4, <1>5, <1>6, <1>7, <1>8, <1>9, <1>10, <1>11,
     <1>12, <1>13, <1>14, <1>15, <1>16, <1>17, <1>18, <1>19, <1>20
     DEF Next, Step

-----------------------------------------------------------------------------
(* Safety, whatever fails. *)

\* SafeInv holds before the first call.
LEMMA InitSafe == Init => SafeInv
<1> SUFFICES ASSUME Init PROVE SafeInv
  OBVIOUS
<1>1. /\ \A i \in Ids : ctr[i].state = "absent"
      /\ \A p \in Procs : pc[p] = "idle"
  BY DEF Init, EngineInit, Absent
<1>2. TypeOK
  BY DEF Init, TypeOK, EngineInit, EngineTypeOK, Container, Absent, Call, NoCall
<1> QED
  BY <1>1, <1>2 DEF SafeInv, CallsValid, UniqueNames, NamesValid, HeldByName,
                    StartsItsOwn, StartedFirst, Exists

\* SafeInv holds in every reachable state.
LEMMA SafeInvariant == Spec => []SafeInv
  BY InitSafe, SafeStep, PTL DEF Spec

\* The variables only ever hold values of their types, and every id and name
\* a step uses is there when it is used.
THEOREM TypeCorrect == Spec => []TypeOK
  BY SafeInvariant, PTL DEF SafeInv

\* docker.Start starts and connects the container its own call created, with
\* its own configuration, however many calls race and whatever fails.
THEOREM StartsItsOwnAlways == Spec => []StartsItsOwn
  BY SafeInvariant, PTL DEF SafeInv

-----------------------------------------------------------------------------
(* Convergence, without late faults. *)

\* p is on its way to give n a container that runs and is on the network.
Pursues(p, n) ==
  /\ call[p].name = n
  /\ \/ pc[p] \in {"isRunning", "isInstalled", "pull"}
     \/ pc[p] = "create" /\ n \in images
     \/ pc[p] = "conflict" /\ Named(n) # {}
     \/ pc[p] = "recreate" /\ Named(n) = {} /\ n \in images
     \/ pc[p] \in {"forceRemove", "start"} /\ Exists(call[p].id)
     \/ pc[p] \in AfterStart /\ Exists(call[p].id) /\ IsUp(call[p].id)

\* What was asked for is there or somebody is on the way to it.
Pursued ==
  \A n \in Names : asked[n] => Served(n) \/ \E p \in Procs : Pursues(p, n)

\* A container was made from an installed image, which stays installed.
Imaged == \A i \in Ids : Exists(i) => ctr[i].name \in images

ConvergenceInv == SafeInv /\ NoStrayContainer /\ Pursued /\ Imaged

\* Nothing uninstalls an image, and the image of a container is installed.
LEMMA ImagesStay ==
  ASSUME SafeInv, Imaged, [Next]_vars
  PROVE  images \subseteq images' /\ Imaged'
<1>0. TypeOK /\ CallsValid
  BY DEF SafeInv
<1>1. images \subseteq images'
  <2>1. ASSUME NEW p \in Procs, Step(p) PROVE images \subseteq images'
    BY <2>1 DEF Step, IsRunning, IsInstalled, Pull, ImagePull, Create, Conflict,
       ForceRemove, Recreate, Created, StartContainer, NetworkInspect,
       CreateNetwork, ConnectToNetwork, Info, RemoveInfo, Remove, Return, engine
  <2> QED
    BY <2>1 DEF Next, InfoOrStart, RemoveContainer, Crash, Exit, engine, vars
<1>2. \/ UNCHANGED ctr
      \/ \E i \in Ids, n \in Names, c \in Confs : ContainerCreate(i, n, c)
      \/ \E i \in Ids : ContainerRemove(i)
      \/ \E i \in Ids : ContainerStart(i)
      \/ \E i \in Ids : ContainerExit(i)
      \/ \E i \in Ids, k \in Nets : NetworkConnect(k, i)
  <2>1. ASSUME NEW p \in Procs, Create(p) \/ Recreate(p)
        PROVE  \/ UNCHANGED ctr
               \/ \E i \in Ids, n \in Names, c \in Confs : ContainerCreate(i, n, c)
    BY <1>0, <2>1 DEF Create, Recreate, Created, MadeUnseen, CallsValid, engine
  <2>2. ASSUME NEW p \in Procs, ForceRemove(p) \/ Remove(p)
        PROVE  UNCHANGED ctr \/ \E i \in Ids : ContainerRemove(i)
    BY <1>0, <2>2 DEF ForceRemove, Remove, CallsValid
  <2>3. ASSUME NEW p \in Procs, StartContainer(p)
        PROVE  UNCHANGED ctr \/ \E i \in Ids : ContainerStart(i)
    BY <1>0, <2>3 DEF StartContainer, CallsValid
  <2>4. ASSUME NEW p \in Procs, ConnectToNetwork(p)
        PROVE  UNCHANGED ctr \/ \E i \in Ids, k \in Nets : NetworkConnect(k, i)
    BY <1>0, <2>4 DEF ConnectToNetwork, CallsValid
  <2>5. ASSUME NEW p \in Procs,
               \/ IsRunning(p) \/ IsInstalled(p) \/ Pull(p) \/ Conflict(p)
               \/ NetworkInspect(p) \/ CreateNetwork(p) \/ Info(p)
               \/ RemoveInfo(p) \/ Return(p) \/ Crash(p)
        PROVE  UNCHANGED ctr
    BY <2>5 DEF IsRunning, IsInstalled, Pull, Conflict, NetworkInspect,
       CreateNetwork, Info, RemoveInfo, Return, Crash, engine
  <2>6. ASSUME NEW p \in Procs, Step(p) \/ Crash(p)
        PROVE  \/ UNCHANGED ctr
               \/ \E i \in Ids, n \in Names, c \in Confs : ContainerCreate(i, n, c)
               \/ \E i \in Ids : ContainerRemove(i)
               \/ \E i \in Ids : ContainerStart(i)
               \/ \E i \in Ids, k \in Nets : NetworkConnect(k, i)
    BY <2>1, <2>2, <2>3, <2>4, <2>5, <2>6 DEF Step
  <2> QED
    BY <2>6 DEF Next, InfoOrStart, RemoveContainer, Exit, engine, vars
<1>3. ASSUME NEW i \in Ids, \/ ContainerStart(i) \/ ContainerExit(i)
                            \/ \E k \in Nets : NetworkConnect(k, i)
      PROVE  Imaged'
  <2>1. /\ Exists(i) /\ ctr'[i].name = ctr[i].name
        /\ \A j \in Ids : j # i => ctr'[j] = ctr[j]
    BY <1>0, <1>3, StartEffect, ExitEffect, ConnectEffect, EngineTyped
       DEF ContainerExit, IsUp, Exists
  <2> QED
    BY <1>1, <2>1 DEF Imaged, Exists
<1>4. ASSUME NEW i \in Ids, NEW n \in Names, NEW c \in Confs, ContainerCreate(i, n, c)
      PROVE  Imaged'
  <2>1. /\ ctr'[i].name = n /\ n \in images
        /\ \A j \in Ids : j # i => ctr'[j] = ctr[j]
    BY <1>0, <1>4, CreateEffect, EngineTyped DEF ContainerCreate
  <2> QED
    BY <1>1, <2>1 DEF Imaged, Exists
<1>5. ASSUME NEW i \in Ids, ContainerRemove(i)
      PROVE  Imaged'
  <2>1. /\ ctr'[i].state = "absent"
        /\ \A j \in Ids : j # i => ctr'[j] = ctr[j]
    BY <1>0, <1>5, RemoveEffect, EngineTyped
  <2> QED
    BY <1>1, <2>1 DEF Imaged, Exists
<1> QED
  BY <1>1, <1>2, <1>3, <1>4, <1>5 DEF Imaged, Exists

\* A step that leaves the containers alone keeps what is asked for pursued if
\* its process does not give up, or somebody else goes on.
LEMMA MovePursued ==
  ASSUME SafeInv, Pursued, NEW p \in Procs, UNCHANGED ctr,
         images \subseteq images',
         \A q \in Procs : q # p => pc'[q] = pc[q] /\ call'[q] = call[q],
         \A n \in Names : asked'[n] => asked[n] \/ Pursues(p, n)',
         \A n \in Names : asked'[n] /\ Pursues(p, n) =>
           \/ Pursues(p, n)'
           \/ Served(n)
           \/ \E q \in Procs : q # p /\ Pursues(q, n)
  PROVE  Pursued'
<1>1. ASSUME NEW n \in Names
      PROVE  Served(n)' = Served(n) /\ Named(n)' = Named(n)
  BY DEF Served, Named, IsUp
<1>2. ASSUME NEW n \in Names, NEW q \in Procs, q # p, Pursues(q, n)
      PROVE  Pursues(q, n)'
  BY <1>1, <1>2 DEF Pursues, Exists, IsUp
<1> QED
  BY <1>1, <1>2 DEF Pursued

\* ... and makes no stray container if its process keeps what it started.
LEMMA MoveNoStray ==
  ASSUME NoStrayContainer, NEW p \in Procs, UNCHANGED ctr,
         \A q \in Procs : q # p => pc'[q] = pc[q] /\ call'[q] = call[q],
         pc[p] \in AfterStart =>
           \/ pc'[p] \in AfterStart /\ call'[p] = call[p]
           \/ call[p].id \in Ids => ~ IsUp(call[p].id)
  PROVE  NoStrayContainer'
  BY DEF NoStrayContainer, IsUp

\* A step that changes the container of one name leaves the others' alone.
LEMMA OtherNames ==
  ASSUME SafeInv, NEW i \in Ids, NEW n \in Names, NEW m \in Names, m # n,
         images \subseteq images',
         Exists(i) => ctr[i].name = n,
         Exists(i)' => ctr'[i].name = n,
         \A j \in Ids : j # i => ctr'[j] = ctr[j]
  PROVE  /\ Served(m) => Served(m)'
         /\ \A q \in Procs : pc'[q] = pc[q] /\ call'[q] = call[q]
              /\ Pursues(q, m) => Pursues(q, m)'
<1>1. Named(m)' = Named(m) /\ i \notin Named(m)
  BY DEF Named, Exists
<1>2. Served(m) => Served(m)'
  BY <1>1 DEF Served, IsUp, Named
<1>3. ASSUME NEW q \in Procs, pc'[q] = pc[q], call'[q] = call[q], Pursues(q, m)
      PROVE  Pursues(q, m)'
  <2>1. CASE pc[q] \in {"forceRemove", "start"} \cup AfterStart
    <3>1. Exists(call[q].id) /\ ctr[call[q].id].name = m
      BY <1>3, <2>1 DEF Pursues, SafeInv, HeldByName, StartsItsOwn
    <3>2. call[q].id # i /\ call[q].id \in Ids
      BY <3>1 DEF Exists
    <3> QED
      BY <1>3, <2>1, <3>1, <3>2 DEF Pursues, Exists, IsUp
  <2>2. CASE pc[q] \notin {"forceRemove", "start"} \cup AfterStart
    BY <1>1, <1>3, <2>2 DEF Pursues
  <2> QED
    BY <2>1, <2>2
<1> QED
  BY <1>2, <1>3

\* A step that makes a container.
LEMMA CreationPursued ==
  ASSUME SafeInv, NoStrayContainer, Pursued, NEW p \in Procs, NEW i \in Ids,
         pc[p] \in {"create", "recreate"}, images \subseteq images',
         ContainerCreate(i, call[p].name, call[p].conf),
         \A q \in Procs : q # p => pc'[q] = pc[q] /\ call'[q] = call[q],
         \/ /\ pc'[p] = "start" /\ call'[p].id = i
            /\ call'[p].name = call[p].name
         \/ ~ asked'[call[p].name],
         \A m \in Names : m # call[p].name => (asked'[m] <=> asked[m])
  PROVE  NoStrayContainer' /\ Pursued'
<1>1. /\ call[p].name \in Names /\ call[p].conf \in Confs
      /\ TypeOK
  BY DEF SafeInv, CallsValid
<1>2. /\ ~ Exists(i)
      /\ ctr'[i].name = call[p].name
      /\ ctr'[i].state = "created"
      /\ \A j \in Ids : j # i => ctr'[j] = ctr[j]
  BY <1>1, CreateEffect, EngineTyped
<1>3. NoStrayContainer'
  BY <1>2 DEF NoStrayContainer, IsUp
<1>4. ASSUME asked'[call[p].name] PROVE Pursues(p, call[p].name)'
  BY <1>2, <1>4 DEF Pursues, Exists
<1>5. ASSUME NEW m \in Names, m # call[p].name, asked'[m]
      PROVE  Served(m)' \/ \E q \in Procs : Pursues(q, m)'
  <2>1. Served(m) \/ \E q \in Procs : q # p /\ Pursues(q, m)
    BY <1>5 DEF Pursued, Pursues
  <2>2. /\ Served(m) => Served(m)'
        /\ \A q \in Procs : pc'[q] = pc[q] /\ call'[q] = call[q]
             /\ Pursues(q, m) => Pursues(q, m)'
    <3>1. PICK n \in Names : n = call[p].name
      BY <1>1
    <3>2. /\ ~ Exists(i) /\ ctr'[i].name = n /\ m # n
          /\ images \subseteq images'
      BY <1>2, <1>5, <3>1
    <3> QED
      BY <1>2, <3>2, OtherNames
  <2> QED
    BY <2>1, <2>2
<1> QED
  BY <1>1, <1>3, <1>4, <1>5 DEF Pursued

\* A step that removes one, and then makes another or clears what was asked.
LEMMA RemovalPursued ==
  ASSUME SafeInv, NoStrayContainer, Pursued, Imaged, NEW p \in Procs,
         images \subseteq images',
         pc[p] \in {"forceRemove", "rmRemove"}, ContainerRemove(call[p].id),
         \A q \in Procs : q # p => pc'[q] = pc[q] /\ call'[q] = call[q],
         \/ pc'[p] = "recreate" /\ call'[p].name = call[p].name
         \/ ~ asked'[call[p].name],
         \A m \in Names : m # call[p].name => (asked'[m] <=> asked[m])
  PROVE  NoStrayContainer' /\ Pursued'
<1>1. /\ call[p].name \in Names /\ call[p].id \in Ids /\ TypeOK
  BY DEF SafeInv, CallsValid
<1>. PICK i \in Ids, n \in Names : i = call[p].id /\ n = call[p].name
  BY <1>1
<1>2. /\ Exists(i) /\ ctr[i].name = call[p].name
      /\ ctr'[i].state = "absent"
      /\ \A j \in Ids : j # i => ctr'[j] = ctr[j]
  BY <1>1, RemoveEffect, EngineTyped DEF SafeInv, HeldByName
<1>3. NoStrayContainer'
  BY <1>2 DEF NoStrayContainer, IsUp
<1>4. Named(n)' = {}
  <2> SUFFICES \A j \in Ids : ctr'[j].state # "absent" => ctr'[j].name # n
    BY DEF Named
  <2> QED
    BY <1>1, <1>2 DEF SafeInv, UniqueNames, Exists
<1>5. ASSUME asked'[n] PROVE Pursues(p, n)'
  BY <1>2, <1>4, <1>5 DEF Pursues, Imaged
<1>6. ASSUME NEW m \in Names, m # n, asked'[m]
      PROVE  Served(m)' \/ \E q \in Procs : Pursues(q, m)'
  <2>1. Served(m) \/ \E q \in Procs : q # p /\ Pursues(q, m)
    BY <1>6 DEF Pursued, Pursues
  <2>2. ~ Exists(i)'
    BY <1>2 DEF Exists
  <2>3. /\ Served(m) => Served(m)'
        /\ \A q \in Procs : pc'[q] = pc[q] /\ call'[q] = call[q]
             /\ Pursues(q, m) => Pursues(q, m)'
    BY <1>2, <1>6, <2>2, OtherNames
  <2> QED
    BY <2>1, <2>3
<1> QED
  BY <1>1, <1>3, <1>5, <1>6 DEF Pursued

\* A process whose request fails gives up its own name only.
LEMMA FaultPursued ==
  ASSUME SafeInv, Pursued, NEW p \in Procs, NEW f, Fault(p, f), UNCHANGED ctr,
         images \subseteq images',
         \A q \in Procs : q # p => pc'[q] = pc[q] /\ call'[q] = call[q]
  PROVE  Pursued'
<1>1. /\ TypeOK
      /\ Forget(call[p].name)
  BY DEF SafeInv, Fault
<1>2. \A n \in Names : asked'[n] => asked[n] /\ n # call[p].name
  BY <1>1, ForgetEffect
<1>3. \A n \in Names : asked'[n] => ~ Pursues(p, n)
  BY <1>2 DEF Pursues
<1> QED
  BY <1>2, <1>3, MovePursued

\* Without late faults every step keeps what is asked for pursued, and starts
\* nothing that it does not connect.
LEMMA ConvergenceStep ==
  ASSUME Faulty \cap LateFaults = {}, ConvergenceInv, [Next]_vars
  PROVE  ConvergenceInv'
<1>0. /\ SafeInv /\ NoStrayContainer /\ Pursued /\ Imaged /\ TypeOK /\ CallsValid
      /\ SafeInv' /\ Imaged' /\ images \subseteq images'
  BY SafeStep, ImagesStay DEF ConvergenceInv, SafeInv
<1> SUFFICES NoStrayContainer' /\ Pursued'
  BY <1>0 DEF ConvergenceInv
<1>1. ASSUME NEW p \in Procs, NEW n \in Names, NEW c \in Confs,
             InfoOrStart(p, n, c)
      PROVE NoStrayContainer' /\ Pursued'
  <2>1. call'[p].name = n /\ \A q \in Procs : q # p => call'[q] = call[q]
    BY <1>0, <1>1, CallEffect DEF InfoOrStart
  <2>2. /\ UNCHANGED ctr /\ pc[p] = "idle" /\ pc'[p] = "isRunning"
        /\ \A q \in Procs : q # p => pc'[q] = pc[q]
        /\ \A m \in Names : m # n => (asked'[m] <=> asked[m])
    BY <1>0, <1>1, GotoEffect DEF InfoOrStart, TypeOK, engine
  <2>3. Pursues(p, n)' /\ \A m \in Names : ~ Pursues(p, m)
    BY <2>1, <2>2 DEF Pursues
  <2> QED
    BY <1>0, <2>1, <2>2, <2>3, MovePursued, MoveNoStray
<1>2. ASSUME NEW p \in Procs, NEW n \in Names, RemoveContainer(p, n)
      PROVE NoStrayContainer' /\ Pursued'
  <2>1. /\ UNCHANGED <<ctr, asked>> /\ pc[p] = "idle"
        /\ \A q \in Procs : q # p => pc'[q] = pc[q] /\ call'[q] = call[q]
    BY <1>0, <1>2, CallEffect, GotoEffect DEF RemoveContainer, engine
  <2> QED
    BY <1>0, <2>1, MovePursued, MoveNoStray DEF Pursues
<1>3. ASSUME NEW p \in Procs, IsRunning(p)
      PROVE NoStrayContainer' /\ Pursued'
  <2>1. /\ UNCHANGED <<ctr, call>> /\ pc[p] = "isRunning"
        /\ \A q \in Procs : q # p => pc'[q] = pc[q]
        /\ call[p].name \in Names
    BY <1>0, <1>3, GotoEffect DEF IsRunning, engine, CallsValid
  <2>2. NoStrayContainer'
    BY <1>0, <2>1, MoveNoStray
  <2>3. CASE Fault(p, "list")
    BY <1>0, <2>1, <2>2, <2>3, FaultPursued
  <2>4. CASE pc'[p] = "isInstalled" /\ UNCHANGED asked
    BY <1>0, <2>1, <2>2, <2>4, MovePursued DEF Pursues
  <2>5. CASE UNCHANGED asked /\ \E i \in Named(call[p].name) : IsUp(i)
    <3>1. PICK i \in Ids : /\ Exists(i) /\ ctr[i].name = call[p].name
                           /\ IsUp(i) /\ i \in Named(call[p].name)
      BY <2>5 DEF Named, Exists
    <3>2. CASE ctr[i].net # Nil
      <4>1. Served(call[p].name)
        BY <3>1, <3>2 DEF Served
      <4> QED
        BY <1>0, <2>1, <2>2, <2>5, <4>1, MovePursued DEF Pursues
    <3>3. CASE ctr[i].net = Nil
      <4>1. PICK q \in Procs : pc[q] \in AfterStart /\ call[q].id = i
        BY <1>0, <3>1, <3>3 DEF NoStrayContainer
      <4>2. Pursues(q, call[p].name) /\ q # p
        BY <1>0, <2>1, <3>1, <4>1 DEF Pursues, SafeInv, StartsItsOwn
      <4> QED
        BY <1>0, <2>1, <2>2, <2>5, <4>1, <4>2, MovePursued DEF Pursues
    <3> QED
      BY <3>2, <3>3
  <2> QED
    BY <1>0, <1>3, <2>2, <2>3, <2>4, <2>5, GotoEffect DEF IsRunning
<1>4. ASSUME NEW p \in Procs, IsInstalled(p)
      PROVE NoStrayContainer' /\ Pursued'
  <2>1. /\ UNCHANGED <<ctr, call>> /\ pc[p] = "isInstalled"
        /\ \A q \in Procs : q # p => pc'[q] = pc[q]
    BY <1>0, <1>4, GotoEffect DEF IsInstalled, engine
  <2>2. CASE Fault(p, "images")
    BY <1>0, <2>1, <2>2, FaultPursued, MoveNoStray
  <2>3. CASE pc'[p] = "pull" /\ UNCHANGED asked
    BY <1>0, <2>1, <2>3, MovePursued, MoveNoStray DEF Pursues
  <2>4. CASE pc'[p] = "create" /\ UNCHANGED asked /\ call[p].name \in images
    BY <1>0, <2>1, <2>4, MovePursued, MoveNoStray DEF Pursues
  <2> QED
    BY <1>0, <1>4, <2>2, <2>3, <2>4, GotoEffect DEF IsInstalled
<1>5. ASSUME NEW p \in Procs, Pull(p)
      PROVE NoStrayContainer' /\ Pursued'
  <2>1. /\ UNCHANGED <<ctr, call>> /\ pc[p] = "pull"
        /\ \A q \in Procs : q # p => pc'[q] = pc[q]
    BY <1>0, <1>5, GotoEffect DEF Pull
  <2>2. CASE Fault(p, "pull")
    BY <1>0, <2>1, <2>2, FaultPursued, MoveNoStray
  <2>3. CASE pc'[p] = "create" /\ UNCHANGED asked /\ call[p].name \in images'
    BY <1>0, <2>1, <2>3, MovePursued, MoveNoStray DEF Pursues
  <2>4. CASE Fault(p, "pullLost")
    BY <1>0, <2>1, <2>4, FaultPursued, MoveNoStray
  <2> QED
    BY <1>0, <1>5, <2>2, <2>3, <2>4, GotoEffect DEF Pull, ImagePull
<1>6. ASSUME NEW p \in Procs, Create(p)
      PROVE NoStrayContainer' /\ Pursued'
  <2>1. /\ pc[p] = "create" /\ call[p].name \in Names
        /\ \A q \in Procs : q # p => pc'[q] = pc[q] /\ call'[q] = call[q]
    BY <1>0, <1>6, GotoEffect, HoldEffect DEF Create, Created, CallsValid
  <2>2. CASE Created(p)
    <3>1. PICK i \in Ids :
            /\ ContainerCreate(i, call[p].name, call[p].conf)
            /\ Hold(p, i) /\ Goto(p, "start") /\ UNCHANGED asked
      BY <2>2 DEF Created
    <3>2. /\ pc'[p] = "start" /\ call'[p].id = i
          /\ call'[p].name = call[p].name
      BY <1>0, <3>1, GotoEffect, HoldEffect
    <3> QED
      BY <1>0, <2>1, <3>1, <3>2, CreationPursued
  <2>3. CASE /\ CreateRefused(p) /\ Goto(p, "conflict")
             /\ UNCHANGED <<engine, call, asked>>
    BY <1>0, <2>1, <2>3, MovePursued, MoveNoStray, GotoEffect
       DEF Pursues, engine, Named, CreateRefused
  <2>4. CASE Fault(p, "create") /\ UNCHANGED ctr
    BY <1>0, <2>1, <2>4, FaultPursued, MoveNoStray
  <2>5. CASE Fault(p, "create") /\ MadeUnseen(p)
    <3>1. PICK i \in Ids : ContainerCreate(i, call[p].name, call[p].conf)
      BY <2>5 DEF MadeUnseen
    <3>2. /\ ~ asked'[call[p].name]
          /\ \A m \in Names : m # call[p].name => (asked'[m] <=> asked[m])
      BY <1>0, <2>1, <2>5, ForgetEffect DEF Fault
    <3> QED
      BY <1>0, <2>1, <3>1, <3>2, CreationPursued
  <2> QED
    BY <1>6, <2>2, <2>3, <2>4, <2>5 DEF Create
<1>7. ASSUME NEW p \in Procs, Conflict(p)
      PROVE NoStrayContainer' /\ Pursued'
  <2>1. /\ UNCHANGED ctr /\ pc[p] = "conflict"
        /\ \A q \in Procs : q # p => pc'[q] = pc[q] /\ call'[q] = call[q]
    BY <1>0, <1>7, GotoEffect, HoldEffect DEF Conflict, engine, Named
  <2>2. NoStrayContainer'
    BY <1>0, <2>1, MoveNoStray
  <2>3. CASE Fault(p, "list")
    BY <1>0, <2>1, <2>2, <2>3, FaultPursued
  <2>4. CASE Named(call[p].name) = {} /\ UNCHANGED asked
    BY <1>0, <2>1, <2>2, <2>4, MovePursued DEF Pursues
  <2>5. ASSUME NEW i \in Named(call[p].name), Hold(p, i),
               Goto(p, "forceRemove"), UNCHANGED asked
        PROVE  Pursued'
    <3>1. /\ pc'[p] = "forceRemove" /\ call'[p].id = i
          /\ call'[p].name = call[p].name /\ Exists(i)
      BY <1>0, <2>5, GotoEffect, HoldEffect DEF Named, Exists
    <3>2. \A n \in Names : Pursues(p, n) => Pursues(p, n)'
      BY <2>1, <3>1 DEF Pursues, Exists
    <3> QED
      BY <1>0, <2>1, <2>5, <3>2, MovePursued
  <2> QED
    BY <1>7, <2>2, <2>3, <2>4, <2>5 DEF Conflict
<1>8. ASSUME NEW p \in Procs, ForceRemove(p)
      PROVE NoStrayContainer' /\ Pursued'
  <2>1. /\ pc[p] = "forceRemove" /\ call'[p].name = call[p].name
        /\ \A q \in Procs : q # p => pc'[q] = pc[q] /\ call'[q] = call[q]
    BY <1>0, <1>8, GotoEffect, HoldEffect DEF ForceRemove
  <2>2. CASE ContainerRemove(call[p].id)
    <3>1. \/ pc'[p] = "recreate" /\ UNCHANGED asked
          \/ Forget(call[p].name)
      BY <1>0, <1>8, <2>2, GotoEffect DEF ForceRemove, Fault, ContainerRemove
    <3>2. call[p].name \in Names
      BY <1>0, <2>1 DEF CallsValid
    <3> QED
      BY <1>0, <2>1, <2>2, <3>1, <3>2, RemovalPursued, ForgetEffect
  <2>3. CASE ~ Exists(call[p].id) /\ UNCHANGED <<ctr, asked>>
    BY <1>0, <2>1, <2>3, MovePursued, MoveNoStray DEF Pursues
  <2>4. CASE Fault(p, "remove") /\ UNCHANGED ctr
    BY <1>0, <2>1, <2>4, FaultPursued, MoveNoStray
  <2> QED
    BY <1>8, <2>2, <2>3, <2>4 DEF ForceRemove
<1>9. ASSUME NEW p \in Procs, Recreate(p)
      PROVE NoStrayContainer' /\ Pursued'
  <2>1. /\ pc[p] = "recreate" /\ call[p].name \in Names
        /\ \A q \in Procs : q # p => pc'[q] = pc[q] /\ call'[q] = call[q]
    BY <1>0, <1>9, GotoEffect, HoldEffect DEF Recreate, Created, CallsValid
  <2>2. CASE Created(p)
    <3>1. PICK i \in Ids :
            /\ ContainerCreate(i, call[p].name, call[p].conf)
            /\ Hold(p, i) /\ Goto(p, "start") /\ UNCHANGED asked
      BY <2>2 DEF Created
    <3>2. /\ pc'[p] = "start" /\ call'[p].id = i
          /\ call'[p].name = call[p].name
      BY <1>0, <3>1, GotoEffect, HoldEffect
    <3> QED
      BY <1>0, <2>1, <3>1, <3>2, CreationPursued
  <2>3. CASE /\ CreateRefused(p) /\ UNCHANGED <<engine, call, asked>>
    BY <1>0, <2>1, <2>3, MovePursued, MoveNoStray DEF Pursues, engine, CreateRefused
  <2>4. CASE Fault(p, "create") /\ UNCHANGED ctr
    BY <1>0, <2>1, <2>4, FaultPursued, MoveNoStray
  <2>5. CASE Fault(p, "create") /\ MadeUnseen(p)
    <3>1. PICK i \in Ids : ContainerCreate(i, call[p].name, call[p].conf)
      BY <2>5 DEF MadeUnseen
    <3>2. /\ ~ asked'[call[p].name]
          /\ \A m \in Names : m # call[p].name => (asked'[m] <=> asked[m])
      BY <1>0, <2>1, <2>5, ForgetEffect DEF Fault
    <3> QED
      BY <1>0, <2>1, <3>1, <3>2, CreationPursued
  <2> QED
    BY <1>9, <2>2, <2>3, <2>4, <2>5 DEF Recreate
<1>10. ASSUME NEW p \in Procs, StartContainer(p)
       PROVE NoStrayContainer' /\ Pursued'
  <2>1. /\ pc[p] = "start" /\ call[p].id \in Ids /\ UNCHANGED call
        /\ call[p].name \in Names
        /\ \A q \in Procs : q # p => pc'[q] = pc[q]
    BY <1>0, <1>10, GotoEffect DEF StartContainer, CallsValid
  <2>2. CASE ContainerStart(call[p].id) /\ Goto(p, "netInspect") /\ UNCHANGED asked
    <3>1. PICK i \in Ids, n \in Names : i = call[p].id /\ n = call[p].name
      BY <2>1
    <3>2. /\ Exists(i)
          /\ ctr'[i].name = ctr[i].name
          /\ ctr'[i].state = "running"
          /\ \A j \in Ids : j # i => ctr'[j] = ctr[j]
      BY <1>0, <2>2, <3>1, StartEffect, EngineTyped
    <3>3. ctr[i].name = n /\ pc'[p] = "netInspect"
      BY <1>0, <2>1, <2>2, <3>1, <3>2, GotoEffect DEF SafeInv, StartsItsOwn
    <3>4. NoStrayContainer'
      BY <1>0, <2>1, <3>1, <3>2, <3>3 DEF NoStrayContainer, IsUp
    <3>5. Pursues(p, n)'
      BY <2>1, <3>1, <3>2, <3>3 DEF Pursues, Exists, IsUp
    <3>6. ASSUME NEW m \in Names, m # n, asked'[m]
          PROVE  Served(m)' \/ \E q \in Procs : Pursues(q, m)'
      <4>1. Served(m) \/ \E q \in Procs : q # p /\ Pursues(q, m)
        BY <1>0, <2>2, <3>1, <3>6 DEF Pursued, Pursues
      <4>2. /\ Served(m) => Served(m)'
            /\ \A q \in Procs : pc'[q] = pc[q] /\ call'[q] = call[q]
                 /\ Pursues(q, m) => Pursues(q, m)'
        BY <1>0, <3>2, <3>3, <3>6, OtherNames
      <4> QED
        BY <2>1, <4>1, <4>2
    <3> QED
      BY <3>4, <3>5, <3>6 DEF Pursued
  <2>3. CASE ~ Exists(call[p].id) /\ UNCHANGED <<ctr, asked>>
    BY <1>0, <2>1, <2>3, MovePursued, MoveNoStray DEF Pursues
  <2>4. CASE Fault(p, "start") /\ UNCHANGED ctr
    BY <1>0, <2>1, <2>4, FaultPursued, MoveNoStray
  <2>5. ~ Fault(p, "startLost")
    BY DEF Fault, LateFaults
  <2> QED
    BY <1>10, <2>2, <2>3, <2>4, <2>5 DEF StartContainer
<1>11. ASSUME NEW p \in Procs, NetworkInspect(p)
       PROVE NoStrayContainer' /\ Pursued'
  <2>1. /\ UNCHANGED <<ctr, call>> /\ pc[p] = "netInspect"
        /\ \A q \in Procs : q # p => pc'[q] = pc[q]
        /\ pc'[p] \in AfterStart
    BY <1>0, <1>11, GotoEffect DEF NetworkInspect, engine
  <2>2. CASE Fault(p, "netInspect")
    BY <1>0, <2>1, <2>2, FaultPursued, MoveNoStray
  <2>3. CASE UNCHANGED asked
    BY <1>0, <2>1, <2>3, MovePursued, MoveNoStray DEF Pursues, Exists, IsUp
  <2> QED
    BY <1>11, <2>2, <2>3 DEF NetworkInspect
<1>12. ASSUME NEW p \in Procs, CreateNetwork(p)
       PROVE NoStrayContainer' /\ Pursued'
  <2>1. /\ UNCHANGED <<ctr, call, asked>> /\ pc[p] = "netCreate"
        /\ \A q \in Procs : q # p => pc'[q] = pc[q]
        /\ pc'[p] = "netConnect"
    BY <1>0, <1>12, GotoEffect DEF CreateNetwork, Fault, LateFaults
  <2> QED
    BY <1>0, <2>1, MovePursued, MoveNoStray DEF Pursues, Exists, IsUp
<1>13. ASSUME NEW p \in Procs, ConnectToNetwork(p)
       PROVE NoStrayContainer' /\ Pursued'
  <2>1. /\ pc[p] = "netConnect" /\ call[p].id \in Ids /\ UNCHANGED <<call, asked>>
        /\ call[p].name \in Names
        /\ \A q \in Procs : q # p => pc'[q] = pc[q]
    BY <1>0, <1>13, GotoEffect DEF ConnectToNetwork, CallsValid, Fault, LateFaults
  <2>2. ASSUME NEW k \in Nets, NetworkConnect(k, call[p].id)
        PROVE  NoStrayContainer' /\ Pursued'
    <3>1. PICK i \in Ids, n \in Names : i = call[p].id /\ n = call[p].name
      BY <2>1
    <3>2. /\ Exists(i)
          /\ ctr'[i].name = ctr[i].name
          /\ ctr'[i].state = ctr[i].state
          /\ ctr'[i].net = k /\ k # Nil
          /\ \A j \in Ids : j # i => ctr'[j] = ctr[j]
      BY <1>0, <2>2, <3>1, ConnectEffect, EngineTyped, EngineAssumption
    <3>3. ctr[i].name = n
      BY <1>0, <2>1, <3>1, <3>2 DEF SafeInv, StartsItsOwn
    <3>4. NoStrayContainer'
      BY <1>0, <2>1, <3>1, <3>2 DEF NoStrayContainer, IsUp
    <3>5. ASSUME NEW m \in Names
          PROVE  /\ Named(m)' = Named(m)
                 /\ Served(m) => Served(m)'
                 /\ \A q \in Procs : q # p /\ Pursues(q, m) => Pursues(q, m)'
      <4>1. Named(m)' = Named(m)
        BY <3>2 DEF Named
      <4>2. Served(m) => Served(m)'
        BY <3>2, <4>1 DEF Served, IsUp, Named
      <4>3. ASSUME NEW q \in Procs, q # p, Pursues(q, m)
            PROVE  Pursues(q, m)'
        BY <1>0, <2>1, <3>2, <4>1, <4>3 DEF Pursues, Exists, IsUp
      <4> QED
        BY <4>1, <4>2, <4>3
    <3>6. ASSUME NEW m \in Names, Pursues(p, m) PROVE Served(m)'
      <4>1. m = n /\ IsUp(i)
        BY <2>1, <3>1, <3>6 DEF Pursues
      <4> QED
        BY <3>2, <3>3, <4>1 DEF Served, Named, IsUp, Exists
    <3> QED
      BY <1>0, <2>1, <3>4, <3>5, <3>6 DEF Pursued
  <2>3. CASE ~ Exists(call[p].id) /\ UNCHANGED ctr
    BY <1>0, <1>13, <2>1, <2>3, MovePursued, MoveNoStray, GotoEffect
       DEF Pursues, Exists, IsUp, SafeInv
  <2> QED
    BY <1>13, <2>2, <2>3 DEF ConnectToNetwork, Fault, LateFaults
<1>14. ASSUME NEW p \in Procs, Info(p)
       PROVE NoStrayContainer' /\ Pursued'
  <2>1. /\ UNCHANGED ctr /\ pc[p] = "info"
        /\ \A q \in Procs : q # p => pc'[q] = pc[q] /\ call'[q] = call[q]
    BY <1>0, <1>14, GotoEffect, HoldEffect DEF Info, engine, Named
  <2>2. CASE Fault(p, "list")
    BY <1>0, <2>1, <2>2, FaultPursued, MoveNoStray
  <2>3. CASE UNCHANGED asked
    BY <1>0, <2>1, <2>3, MovePursued, MoveNoStray DEF Pursues
  <2> QED
    BY <1>14, <2>2, <2>3 DEF Info
<1>15. ASSUME NEW p \in Procs, RemoveInfo(p)
       PROVE NoStrayContainer' /\ Pursued'
  <2>1. /\ UNCHANGED ctr /\ pc[p] = "rmInfo"
        /\ \A q \in Procs : q # p => pc'[q] = pc[q] /\ call'[q] = call[q]
    BY <1>0, <1>15, GotoEffect, HoldEffect DEF RemoveInfo, engine, Named
  <2>2. CASE Fault(p, "list")
    BY <1>0, <2>1, <2>2, FaultPursued, MoveNoStray
  <2>3. CASE UNCHANGED asked
    BY <1>0, <2>1, <2>3, MovePursued, MoveNoStray DEF Pursues
  <2> QED
    BY <1>15, <2>2, <2>3 DEF RemoveInfo
<1>16. ASSUME NEW p \in Procs, Remove(p)
       PROVE NoStrayContainer' /\ Pursued'
  <2>1. /\ pc[p] = "rmRemove" /\ call[p].name \in Names
        /\ \A q \in Procs : q # p => pc'[q] = pc[q] /\ call'[q] = call[q]
    BY <1>0, <1>16, GotoEffect, HoldEffect DEF Remove, CallsValid
  <2>2. CASE ContainerRemove(call[p].id)
    <3>1. Forget(call[p].name)
      BY <1>16, <2>2 DEF Remove, Fault, ContainerRemove
    <3>2. /\ ~ asked'[call[p].name]
          /\ \A m \in Names : m # call[p].name => (asked'[m] <=> asked[m])
      BY <1>0, <2>1, <3>1, ForgetEffect
    <3> QED
      BY <1>0, <2>1, <2>2, <3>2, RemovalPursued
  <2>3. CASE ~ Exists(call[p].id) /\ UNCHANGED <<ctr, asked>>
    BY <1>0, <2>1, <2>3, MovePursued, MoveNoStray DEF Pursues
  <2>4. CASE Fault(p, "remove") /\ UNCHANGED ctr
    BY <1>0, <2>1, <2>4, FaultPursued, MoveNoStray
  <2> QED
    BY <1>16, <2>2, <2>3, <2>4 DEF Remove
<1>17. ASSUME NEW p \in Procs, Return(p)
       PROVE NoStrayContainer' /\ Pursued'
  <2>1. /\ UNCHANGED <<ctr, asked>> /\ pc[p] \in Ended
        /\ \A q \in Procs : q # p => pc'[q] = pc[q] /\ call'[q] = call[q]
    BY <1>0, <1>17, GotoEffect, CallEffect DEF Return, NoCall, engine
  <2> QED
    BY <1>0, <2>1, MovePursued, MoveNoStray DEF Pursues
<1>18. ASSUME NEW p \in Procs, Crash(p)
       PROVE NoStrayContainer' /\ Pursued'
  BY <1>18 DEF Crash, Fault, LateFaults
<1>19. ASSUME NEW i \in Ids, Exit(i)
       PROVE NoStrayContainer' /\ Pursued'
  <2>1. PICK n \in Names : n = ctr[i].name
    BY <1>0, <1>19 DEF Exit, ContainerExit, SafeInv, NamesValid, IsUp, Exists
  <2>2. /\ IsUp(i) /\ UNCHANGED <<pc, call>>
        /\ ctr'[i].name = n /\ ctr'[i].state = "exited"
        /\ \A j \in Ids : j # i => ctr'[j] = ctr[j]
    BY <1>0, <1>19, <2>1, ExitEffect, EngineTyped DEF Exit
  <2>3. NoStrayContainer'
    BY <1>0, <2>2 DEF NoStrayContainer, IsUp
  <2>4. \A m \in Names : asked'[m] => asked[m] /\ m # n
    BY <1>0, <1>19, <2>1, ForgetEffect DEF Exit
  <2>5. ASSUME NEW m \in Names, asked'[m]
        PROVE  Served(m)' \/ \E q \in Procs : Pursues(q, m)'
    <3>1. m # n /\ (Served(m) \/ \E q \in Procs : Pursues(q, m))
      BY <1>0, <2>4, <2>5 DEF Pursued
    <3>2. /\ Served(m) => Served(m)'
          /\ \A q \in Procs : pc'[q] = pc[q] /\ call'[q] = call[q]
               /\ Pursues(q, m) => Pursues(q, m)'
      BY <1>0, <2>1, <2>2, <3>1, OtherNames
    <3> QED
      BY <2>2, <3>1, <3>2
  <2> QED
    BY <2>3, <2>5 DEF Pursued
<1>20. CASE UNCHANGED vars
  BY <1>0, <1>20 DEF vars, engine, NoStrayContainer, Pursued, Pursues, Served,
                     Named, IsUp, Exists
<1> QED
  BY <1>1, <1>2, <1>3, <1>4, <1>5, <1>6, <1>7, <1>8, <1>9, <1>10, <1>11,
     <1>12, <1>13, <1>14, <1>15, <1>16, <1>17, <1>18, <1>19, <1>20
     DEF Next, Step

\* ConvergenceInv holds in every reachable state.
LEMMA ConvergenceInvariant ==
  ASSUME Faulty \cap LateFaults = {}
  PROVE  Spec => []ConvergenceInv
<1>1. Init => ConvergenceInv
  <2>1. Init => SafeInv
    BY InitSafe
  <2> QED
    BY <2>1 DEF ConvergenceInv, Init, EngineInit, Absent, NoStrayContainer,
                Pursued, Imaged, Exists, IsUp
<1>2. ConvergenceInv /\ [Next]_vars => ConvergenceInv'
  BY ConvergenceStep
<1> QED
  BY <1>1, <1>2, PTL DEF Spec

\* If nothing fails once a container runs, then however many calls race for a
\* component, a component that was asked for is running and on the network
\* when the last call for it is done.
THEOREM ConvergesAlways ==
  ASSUME Faulty \cap LateFaults = {}
  PROVE  Spec => []Converges
<1>1. ConvergenceInv => Converges
  BY DEF ConvergenceInv, Converges, Pursued, Pursues, Quiet
<1> QED
  BY <1>1, ConvergenceInvariant, PTL

\* Under the same assumption no container is left running off the network.
THEOREM NoStrayContainerAlways ==
  ASSUME Faulty \cap LateFaults = {}
  PROVE  Spec => []NoStrayContainer
BY ConvergenceInvariant, PTL DEF ConvergenceInv

-----------------------------------------------------------------------------
(* The refinement of ComponentSlot. *)

\* Every step of the code is a step of ComponentSlot or leaves every slot alone.
LEMMA SlotStep ==
  ASSUME SafeInv, SafeInv', [Next]_vars
  PROVE  Slot!SlotNext \/ UNCHANGED slotOf
<1>0. /\ CallsValid /\ EngineTypeOK
      /\ UniqueNames /\ UniqueNames' /\ NamesValid
  BY DEF SafeInv, TypeOK
<1>1. CASE UNCHANGED ctr
  BY <1>1 DEF slotOf, Named
<1>2. ASSUME NEW p \in Procs, Create(p), ~ UNCHANGED ctr
      PROVE  \E n \in Names : Slot!Make(n)
  <2>1. call[p].name \in Names /\ call[p].conf \in Confs
    BY <1>0, <1>2 DEF Create, CallsValid, Starting
  <2>2. PICK i \in Ids : ContainerCreate(i, call[p].name, call[p].conf)
    BY <1>2 DEF Create, Created, MadeUnseen, engine
  <2> QED
    BY <1>0, <2>1, <2>2, CreateShows DEF Slot!Make, Slot!Empty, NoSlot
<1>3. ASSUME NEW p \in Procs, Recreate(p), ~ UNCHANGED ctr
      PROVE  \E n \in Names : Slot!Make(n)
  <2>1. call[p].name \in Names /\ call[p].conf \in Confs
    BY <1>0, <1>3 DEF Recreate, CallsValid, Starting
  <2>2. PICK i \in Ids : ContainerCreate(i, call[p].name, call[p].conf)
    BY <1>3 DEF Recreate, Created, MadeUnseen, engine
  <2> QED
    BY <1>0, <2>1, <2>2, CreateShows DEF Slot!Make, Slot!Empty, NoSlot
<1>4. ASSUME NEW p \in Procs, ForceRemove(p) \/ Remove(p), ~ UNCHANGED ctr
      PROVE  \E n \in Names : Slot!Remove(n)
  <2>1. ContainerRemove(call[p].id)
    BY <1>4 DEF ForceRemove, Remove
  <2> QED
    BY <1>0, <2>1, RemoveShows DEF Slot!Remove, Slot!Empty, NoSlot
<1>5. ASSUME NEW p \in Procs, StartContainer(p), ~ UNCHANGED ctr
      PROVE  \E n \in Names : Slot!Start(n)
  <2>1. pc[p] = "start" /\ ContainerStart(call[p].id)
    BY <1>5 DEF StartContainer
  <2>2. ctr[call[p].id].state = "created"
    BY <2>1 DEF SafeInv, StartsItsOwn, ContainerStart, Owning, AfterStart
  <2>3. PICK n \in Names : /\ slotOf[n] = ViewOf(call[p].id)
                           /\ slotOf' = [slotOf EXCEPT ![n].state = "running"]
    BY <1>0, <2>1, StartShows
  <2>4. slotOf[n].state = "created"
    BY <2>2, <2>3 DEF ViewOf
  <2> QED
    BY <2>3, <2>4 DEF Slot!Start
<1>6. ASSUME NEW p \in Procs, ConnectToNetwork(p), ~ UNCHANGED ctr
      PROVE  \E n \in Names : Slot!Join(n)
  <2>1. pc[p] = "netConnect"
    BY <1>6 DEF ConnectToNetwork
  <2>2. PICK k \in Nets : NetworkConnect(k, call[p].id)
    BY <1>6 DEF ConnectToNetwork
  <2>3. ctr[call[p].id].state \in {"running", "exited"} /\ ctr[call[p].id].net = Nil
    BY <2>1, <2>2 DEF SafeInv, StartsItsOwn, StartedFirst, NetworkConnect, Owning, AfterStart
  <2> QED
    BY <1>0, <2>2, <2>3, ConnectShows DEF Slot!Join
<1>7. ASSUME NEW i \in Ids, Exit(i) PROVE \E n \in Names : Slot!End(n)
  BY <1>0, <1>7, ExitShows DEF Exit, Slot!End
<1>8. ASSUME NEW p \in Procs,
             \/ IsRunning(p) \/ IsInstalled(p) \/ Pull(p) \/ Conflict(p)
             \/ NetworkInspect(p) \/ CreateNetwork(p) \/ Info(p)
             \/ RemoveInfo(p) \/ Return(p) \/ Crash(p)
             \/ \E n \in Names, c \in Confs : InfoOrStart(p, n, c)
             \/ \E n \in Names : RemoveContainer(p, n)
      PROVE  UNCHANGED ctr
  BY <1>8 DEF IsRunning, IsInstalled, Pull, Conflict, NetworkInspect,
              CreateNetwork, Info, RemoveInfo, Return, Crash, InfoOrStart,
              RemoveContainer, engine
<1>9. CASE UNCHANGED vars
  BY <1>1, <1>9 DEF vars, engine
<1> QED
  BY <1>1, <1>2, <1>3, <1>4, <1>5, <1>6, <1>7, <1>8, <1>9
     DEF Next, Step, Slot!SlotNext

\* docker.go as a whole keeps the promise of ComponentSlot: a component's
\* container is made, started once, joined once and then only goes away, for
\* any number of racing calls and whatever fails.
THEOREM SlotRefinement == Spec => ImplementsSlot
<1>1. Init => Slot!SlotInit
  <2> SUFFICES ASSUME Init PROVE slotOf = [n \in Names |-> Slot!Empty]
    BY DEF Slot!SlotInit
  <2>1. \A n \in Names : Named(n) = {}
    BY DEF Init, EngineInit, Absent, Named
  <2> QED
    BY <2>1 DEF slotOf, Slot!Empty
<1>2. SafeInv /\ SafeInv' /\ [Next]_vars => [Slot!SlotNext]_slotOf
  BY SlotStep
<1> QED
  BY <1>1, <1>2, SafeInvariant, PTL DEF Spec, ImplementsSlot, Slot!SlotSpec
=============================================================================
