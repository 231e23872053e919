--------------------------- MODULE ContainerStart ---------------------------
(***************************************************************************)
(* docker/docker.go: how a component's container is started and removed.   *)
(* Any number of processes (the handlers of the daemon, which gRPC runs    *)
(* concurrently, and the CLI processes of one host) run InfoOrStart and    *)
(* RemoveContainer at the same time.  Nothing in the code serialises them: *)
(* they meet in the Docker engine only.                                    *)
(*                                                                         *)
(* A call of InfoOrStart inlines everything it runs: the StartFunc of the  *)
(* component (EnsureInstalled, then Start), forceContainerCreate and       *)
(* connectToNetwork.  One step is one request to the engine.               *)
(***************************************************************************)
EXTENDS DockerEngine

CONSTANTS
  Procs,   \* goroutines and CLI processes that call this package
  Faulty   \* the requests that may fail, and "exit", "crash" (see below)

\* What can go wrong.  "startLost": the deadline of the context passes after
\* the engine has started the container; "exit": a container ends by itself;
\* "crash": the calling process dies (killed daemon, Ctrl-C in the CLI).
\* "pullLost": the pull breaks off while its output is read, which Pull does
\* not notice.
Faults == {"list", "images", "pull", "pullLost", "create", "remove", "start", "startLost",
           "netInspect", "netCreate", "netConnect", "exit", "crash"}

ASSUME FaultyAssumption == Faulty \subseteq Faults

\* The faults that leave a container running and not on the network.
LateFaults == {"startLost", "netCreate", "netConnect", "crash"}

VARIABLES
  pc,      \* pc[p]: the request p makes next
  call,    \* call[p]: the arguments of p's call and the container id it holds
  asked    \* history: n was asked for, and since then no fault hit a call for
           \* n, n's container did not end and nobody removed it

vars == <<engine, pc, call, asked>>

Starting == {"isRunning", "isInstalled", "pull", "create", "conflict",
             "forceRemove", "recreate", "start", "netInspect", "netCreate",
             "netConnect", "info"}

Removing == {"rmInfo", "rmRemove"}

Ended == {"ok", "failed", "notFound"}

NoCall == [name |-> Nil, conf |-> Nil, id |-> Nil]

Call == [name : Names \cup {Nil}, conf : Confs \cup {Nil}, id : Ids \cup {Nil}]

TypeOK ==
  /\ EngineTypeOK
  /\ pc \in [Procs -> {"idle"} \cup Starting \cup Removing \cup Ended]
  /\ call \in [Procs -> Call]
  /\ asked \in [Names -> BOOLEAN]

Init ==
  /\ EngineInit
  /\ pc = [p \in Procs |-> "idle"]
  /\ call = [p \in Procs |-> NoCall]
  /\ asked = [n \in Names |-> FALSE]

-----------------------------------------------------------------------------
Goto(p, l) == pc' = [pc EXCEPT ![p] = l]

Hold(p, i) == call' = [call EXCEPT ![p].id = i]

Forget(n) == asked' = [asked EXCEPT ![n] = FALSE]

\* A request p makes fails.
Fault(p, f) ==
  /\ f \in Faulty
  /\ Forget(call[p].name)

\* Docker never gives an id twice; an id nobody holds stands for a new one.
FreshId(i) == i \in Ids /\ \A p \in Procs : call[p].id # i

\* ContainerCreate answered with a new container: p holds its id.
Created(p) ==
  \E i \in Ids :
    /\ FreshId(i)
    /\ ContainerCreate(i, call[p].name, call[p].conf)
    /\ Hold(p, i)
    /\ Goto(p, "start")
    /\ UNCHANGED <<nets, images, asked>>

-----------------------------------------------------------------------------
(* InfoOrStart and the StartFunc it runs. *)

InfoOrStart(p, n, c) ==
  /\ pc[p] = "idle"
  /\ Goto(p, "isRunning")
  /\ call' = [call EXCEPT ![p] = [name |-> n, conf |-> c, id |-> Nil]]
  /\ asked' = [asked EXCEPT ![n] = TRUE]
  /\ UNCHANGED engine

\* A wrong IsRunning: a container that stopped is started again as it is.
IsRunningRestarts(p) ==
  /\ pc[p] = "isRunning"
  /\ \/ /\ \E i \in Named(call[p].name) :
             Hold(p, i) /\ Goto(p, IF IsUp(i) THEN "info" ELSE "start")
        /\ UNCHANGED asked
     \/ /\ Named(call[p].name) = {}
        /\ Goto(p, "isInstalled")
        /\ UNCHANGED <<call, asked>>
     \/ /\ Fault(p, "list")
        /\ Goto(p, "failed")
        /\ UNCHANGED call
  /\ UNCHANGED engine

IsRunning(p) ==
  /\ pc[p] = "isRunning"
  /\ \/ /\ \E i \in Named(call[p].name) : IsUp(i)
        /\ Goto(p, "info")
        /\ UNCHANGED asked
     \/ /\ ~ \E i \in Named(call[p].name) : IsUp(i)
        /\ Goto(p, "isInstalled")
        /\ UNCHANGED asked
     \/ /\ Fault(p, "list")
        /\ Goto(p, "failed")
  /\ UNCHANGED <<engine, call>>

IsInstalled(p) ==
  /\ pc[p] = "isInstalled"
  /\ \/ /\ call[p].name \in images
        /\ Goto(p, "create")
        /\ UNCHANGED asked
     \/ /\ call[p].name \notin images
        /\ Goto(p, "pull")
        /\ UNCHANGED asked
     \/ /\ Fault(p, "images")
        /\ Goto(p, "failed")
  /\ UNCHANGED <<engine, call>>

Pull(p) ==
  /\ pc[p] = "pull"
  /\ \/ /\ ImagePull(call[p].name)
        /\ Goto(p, "create")
        /\ UNCHANGED asked
     \/ /\ Fault(p, "pull")
        /\ Goto(p, "failed")
        /\ UNCHANGED images
     \/ /\ Fault(p, "pullLost")
        /\ Goto(p, "create")
        /\ UNCHANGED images
  /\ UNCHANGED <<ctr, nets, call>>

-----------------------------------------------------------------------------
(* forceContainerCreate.  Whatever the error of the first attempt, the     *)
(* container that bears the name is removed and a second attempt is made.  *)
(* A failed attempt may have made the container all the same.              *)

CreateRefused(p) == Named(call[p].name) # {} \/ call[p].name \notin images

MadeUnseen(p) ==
  \E i \in Ids : FreshId(i) /\ ContainerCreate(i, call[p].name, call[p].conf)

Create(p) ==
  /\ pc[p] = "create"
  /\ \/ Created(p)
     \/ /\ CreateRefused(p)
        /\ Goto(p, "conflict")
        /\ UNCHANGED <<engine, call, asked>>
     \/ /\ Fault(p, "create")
        /\ ctr' = ctr \/ MadeUnseen(p)
        /\ Goto(p, "conflict")
        /\ UNCHANGED <<nets, images, call>>

\* Two wrong ways to handle a conflict: take over the container that is
\* there, remove it by name.
ConflictReuses(p) ==
  /\ pc[p] = "conflict"
  /\ \/ \E i \in Named(call[p].name) : Hold(p, i) /\ Goto(p, "start")
     \/ Named(call[p].name) = {} /\ Goto(p, "failed") /\ UNCHANGED call
  /\ UNCHANGED <<engine, asked>>

ConflictByName(p) ==
  /\ pc[p] = "conflict"
  /\ Hold(p, call[p].name)
  /\ Goto(p, "forceRemove")
  /\ UNCHANGED <<engine, asked>>

Conflict(p) ==
  /\ pc[p] = "conflict"
  /\ \/ \E i \in Named(call[p].name) :
          /\ Hold(p, i)
          /\ Goto(p, "forceRemove")
          /\ UNCHANGED asked
     \/ /\ Named(call[p].name) = {}
        /\ Goto(p, "failed")
        /\ UNCHANGED <<call, asked>>
     \/ /\ Fault(p, "list")
        /\ Goto(p, "failed")
        /\ UNCHANGED call
  /\ UNCHANGED engine

\* A wrong forceContainerCreate: no second attempt after the removal.
ForceRemoveOnly(p) ==
  /\ pc[p] = "forceRemove"
  /\ \/ ContainerRemove(call[p].id)
     \/ ~ Exists(call[p].id) /\ UNCHANGED ctr
  /\ Goto(p, "failed")
  /\ Hold(p, Nil)
  /\ UNCHANGED <<nets, images, asked>>

ForceRemove(p) ==
  /\ pc[p] = "forceRemove"
  /\ \/ /\ ContainerRemove(call[p].id)
        /\ Goto(p, "recreate")
        /\ UNCHANGED asked
     \/ /\ ~ Exists(call[p].id)
        /\ Goto(p, "failed")
        /\ UNCHANGED <<ctr, asked>>
     \/ /\ Fault(p, "remove")
        /\ ctr' = ctr \/ ContainerRemove(call[p].id)
        /\ Goto(p, "failed")
  /\ Hold(p, Nil)
  /\ UNCHANGED <<nets, images>>

Recreate(p) ==
  /\ pc[p] = "recreate"
  /\ \/ Created(p)
     \/ /\ CreateRefused(p)
        /\ Goto(p, "failed")
        /\ UNCHANGED <<engine, call, asked>>
     \/ /\ Fault(p, "create")
        /\ ctr' = ctr \/ MadeUnseen(p)
        /\ Goto(p, "failed")
        /\ UNCHANGED <<nets, images, call>>

-----------------------------------------------------------------------------
(* The rest of Start: ContainerStart, connectToNetwork, both by id. *)

StartContainer(p) ==
  /\ pc[p] = "start"
  /\ \/ /\ ContainerStart(call[p].id)
        /\ Goto(p, "netInspect")
        /\ UNCHANGED asked
     \/ /\ ~ Exists(call[p].id)
        /\ Goto(p, "failed")
        /\ UNCHANGED <<ctr, asked>>
     \/ /\ Fault(p, "start")
        /\ Goto(p, "failed")
        /\ UNCHANGED ctr
     \/ /\ Fault(p, "startLost")
        /\ ContainerStart(call[p].id)
        /\ Goto(p, "failed")
  /\ UNCHANGED <<nets, images, call>>

\* Every error of the inspection is taken for "there is no such network".
NetworkInspect(p) ==
  /\ pc[p] = "netInspect"
  /\ \/ /\ nets # {}
        /\ Goto(p, "netConnect")
        /\ UNCHANGED asked
     \/ /\ nets = {}
        /\ Goto(p, "netCreate")
        /\ UNCHANGED asked
     \/ /\ Fault(p, "netInspect")
        /\ Goto(p, "netCreate")
  /\ UNCHANGED <<engine, call>>

\* A wrong connectToNetwork: it returns once it has created the network.
CreateNetworkOnly(p) ==
  /\ pc[p] = "netCreate"
  /\ \E k \in Nets : NetworkCreate(k)
  /\ Goto(p, "info")
  /\ UNCHANGED <<ctr, images, call, asked>>

CreateNetwork(p) ==
  /\ pc[p] = "netCreate"
  /\ \/ /\ \E k \in Nets : NetworkCreate(k)
        /\ Goto(p, "netConnect")
        /\ UNCHANGED asked
     \/ /\ Fault(p, "netCreate")
        /\ Goto(p, "failed")
        /\ UNCHANGED nets
  /\ UNCHANGED <<ctr, images, call>>

ConnectToNetwork(p) ==
  /\ pc[p] = "netConnect"
  /\ \/ /\ \E k \in Nets : NetworkConnect(k, call[p].id)
        /\ Goto(p, "info")
        /\ UNCHANGED asked
     \/ /\ ~ Exists(call[p].id)
        /\ Goto(p, "failed")
        /\ UNCHANGED <<ctr, asked>>
     \/ /\ Fault(p, "netConnect")
        /\ Goto(p, "failed")
        /\ UNCHANGED ctr
  /\ UNCHANGED <<nets, images, call>>

\* The answer of InfoOrStart: the container that bears the name by now.
Info(p) ==
  /\ pc[p] = "info"
  /\ \/ \E i \in Named(call[p].name) :
          /\ Hold(p, i)
          /\ Goto(p, "ok")
          /\ UNCHANGED asked
     \/ /\ Named(call[p].name) = {}
        /\ Goto(p, "failed")
        /\ UNCHANGED <<call, asked>>
     \/ /\ Fault(p, "list")
        /\ Goto(p, "failed")
        /\ UNCHANGED call
  /\ UNCHANGED engine

-----------------------------------------------------------------------------
(* RemoveContainer. *)

RemoveContainer(p, n) ==
  /\ pc[p] = "idle"
  /\ Goto(p, "rmInfo")
  /\ call' = [call EXCEPT ![p] = [name |-> n, conf |-> Nil, id |-> Nil]]
  /\ UNCHANGED <<engine, asked>>

RemoveInfo(p) ==
  /\ pc[p] = "rmInfo"
  /\ \/ \E i \in Named(call[p].name) :
          /\ Hold(p, i)
          /\ Goto(p, "rmRemove")
          /\ UNCHANGED asked
     \/ /\ Named(call[p].name) = {}
        /\ Goto(p, "notFound")
        /\ UNCHANGED <<call, asked>>
     \/ /\ Fault(p, "list")
        /\ Goto(p, "failed")
        /\ UNCHANGED call
  /\ UNCHANGED engine

Remove(p) ==
  /\ pc[p] = "rmRemove"
  /\ \/ /\ ContainerRemove(call[p].id)
        /\ Forget(call[p].name)
        /\ Goto(p, "ok")
     \/ /\ ~ Exists(call[p].id)
        /\ Goto(p, "failed")
        /\ UNCHANGED <<ctr, asked>>
     \/ /\ Fault(p, "remove")
        /\ ctr' = ctr \/ ContainerRemove(call[p].id)
        /\ Goto(p, "failed")
  /\ Hold(p, Nil)
  /\ UNCHANGED <<nets, images>>

-----------------------------------------------------------------------------
(* Around the calls. *)

Return(p) ==
  /\ pc[p] \in Ended
  /\ Goto(p, "idle")
  /\ call' = [call EXCEPT ![p] = NoCall]
  /\ UNCHANGED <<engine, asked>>

Crash(p) ==
  /\ pc[p] \in Starting \cup Removing
  /\ Fault(p, "crash")
  /\ Goto(p, "idle")
  /\ call' = [call EXCEPT ![p] = NoCall]
  /\ UNCHANGED engine

Exit(i) ==
  /\ "exit" \in Faulty
  /\ ContainerExit(i)
  /\ Forget(ctr[i].name)
  /\ UNCHANGED <<nets, images, pc, call>>

Step(p) ==
  \/ IsRunning(p) \/ IsInstalled(p) \/ Pull(p)
  \/ Create(p) \/ Conflict(p) \/ ForceRemove(p) \/ Recreate(p)
  \/ StartContainer(p) \/ NetworkInspect(p) \/ CreateNetwork(p)
  \/ ConnectToNetwork(p) \/ Info(p)
  \/ RemoveInfo(p) \/ Remove(p) \/ Return(p)

Next ==
  \/ \E p \in Procs :
       \/ \E n \in Names, c \in Confs : InfoOrStart(p, n, c)
       \/ \E n \in Names : RemoveContainer(p, n)
       \/ Step(p)
       \/ Crash(p)
  \/ \E i \in Ids : Exit(i)

Spec == Init /\ [][Next]_vars

-----------------------------------------------------------------------------
(* Properties. *)

AfterStart == {"netInspect", "netCreate", "netConnect"}

Owning == {"start"} \cup AfterStart

\* Up and on the network: what a caller of InfoOrStart wants.
Served(n) == \E i \in Named(n) : IsUp(i) /\ ctr[i].net # Nil

\* Nobody is in the middle of starting n.
Quiet(n) == \A p \in Procs : pc[p] \in Starting => call[p].name # n

\* Callers of InfoOrStart that race for one name make each other fail: the
\* second one removes the container of the first, whose ContainerStart or
\* NetworkConnect then fails.  Still they never all fail: when the last of
\* them is done, a component that was asked for (and that no fault, exit or
\* RemoveContainer hit since) is running and on the network.  It holds as
\* long as there are no LateFaults.
Converges == \A n \in Names : asked[n] /\ Quiet(n) => Served(n)

\* A running container that is not on the network is one whose starter is
\* still on its way to connectToNetwork.  InfoOrStart takes any running
\* container as it is, so a stray one would never be connected.  It holds as
\* long as there are no LateFaults.
NoStrayContainer ==
  \A i \in Ids : IsUp(i) /\ ctr[i].net = Nil =>
    \E p \in Procs : pc[p] \in AfterStart /\ call[p].id = i

\* What Start starts and connects is the container its own call created,
\* with its own configuration, never one found under the name or one that
\* another call is starting.
StartsItsOwn ==
  \A p \in Procs : pc[p] \in Owning /\ Exists(call[p].id) =>
    /\ ctr[call[p].id].name = call[p].name
    /\ ctr[call[p].id].conf = call[p].conf
    /\ ctr[call[p].id].net = Nil
    /\ pc[p] = "start" => ctr[call[p].id].state = "created"
    /\ \A q \in Procs \ {p} : pc[q] \in Owning => call[q].id # call[p].id

\* Start joins a container to the network after it started it.
Slot == INSTANCE ComponentSlot WITH slot <- slotOf, Joinable <- {"running", "exited"}

\* Start, forceContainerCreate and RemoveContainer, interleaved in any way and
\* failing in any way, treat each name as ComponentSlot says.
ImplementsSlot == Slot!SlotSpec
=============================================================================
