---------------------------- MODULE ComponentRun ----------------------------
(***************************************************************************)
(* cmd/srcd-server/engine: the daemon's handlers StartComponent and        *)
(* StopComponent with run and the StartFuncs, and the CLI commands that    *)
(* call them.  Each command starts the daemon first if there is none       *)
(* (cmd/srcd/daemon): components start, web, which stops on Ctrl-C what it *)
(* has asked for, sql, which makes the container of the mysql client       *)
(* itself, and logs, which stands for the reader of the daemon's log.      *)
(*                                                                         *)
(* A handler whose client dies goes on, with a context that is done; only  *)
(* the StartFunc of bblfshd heeds it.  Handlers end with the daemon.       *)
(*                                                                         *)
(* Module ContainerStart has the races of docker.Start in detail.  Of the  *)
(* ports only the difference between an answer with one and 0 is left.     *)
(***************************************************************************)
EXTENDS Sequences, FiniteSets, Naturals

CONSTANTS
  Clients,   \* CLI processes; each may run one command after the other
  Requests,  \* the pairs <<command, container>> they run
  Vols,      \* the volumes called srcd-cli-gitbase-<hash of a workdir>
  IndexVol,  \* the one of the working directory that every daemon here has
  Faulty,    \* what may go wrong, see Faults
  Nil

\* The daemon makes these containers; the CLI makes its own.
Components == {"bblfshd", "gitbase", "gitbase-web", "bblfsh-web"}

WebComponents == {"gitbase-web", "bblfsh-web"}

CliContainers == {"daemon", "mysql"}

Containers == Components \cup CliContainers

\* "volume": CreateVolume or HostPath fails; "list", "pull", "create", "start",
\* "stop", "prune": that request fails; "connect": one of connectToNetwork
\* does, or the time of the StartFunc is over; "ready": ensureConnReady fails;
\* "exit": the daemon ends; "kill": a client does.
Faults == {"volume", "list", "pull", "create", "start", "connect", "stop", "prune",
           "ready", "exit", "kill"}

ASSUME ComponentAssumption ==
  /\ Requests \subseteq ({"logs"} \X {"daemon"}) \cup ({"start"} \X Components)
                          \cup ({"web"} \X WebComponents) \cup ({"sql"} \X {"mysql"})
  /\ IndexVol \in Vols
  /\ Faulty \subseteq Faults
  /\ Nil \notin Clients /\ Nil \notin Requests

VARIABLES
  ctr,      \* ctr[c]: the container of c
  vols,     \* the volumes that exist
  net,      \* how many networks have the name, 2 standing for several
  images,   \* the containers whose image is installed
  pc,       \* pc[p]: where the command of p is
  req,      \* req[p]: the command and the container
  step,     \* step[p]: what the CLI, or the handler of its request, does next
  todo,     \* todo[p]: the containers that it has still to go through
  gone,     \* gone[p]: the client has died, the handler's context is done
  reply,    \* reply[p]: what has come out
  seen      \* history: the containers that were found running or started

docker == <<ctr, vols, net, images>>
client == <<pc, req>>
handler == <<step, todo, gone, reply, seen>>

vars == <<docker, client, handler>>

\* by: the client for which it is being connected (mysql: and started), or Nil.
\* "down" is made and not started, or ended.  "cut" is history: Docker has
\* refused to connect or start it, or the daemon ended before.
Container == [state : {"none", "down", "up"}, by : Clients \cup {Nil},
              net : {"off", "on", "cut"}]

NoContainer == [state |-> "none", by |-> Nil, net |-> "off"]

New(s, p) == [state |-> s, by |-> p, net |-> "off"]

GivenUp(s) == [state |-> s, by |-> Nil, net |-> "cut"]

Steps == {"none", "inspect", "volume", "look", "install", "create", "recreate",
          "network", "createNetwork", "connect", "run", "info", "stop"}

TypeOK ==
  /\ ctr \in [Containers -> Container]
  /\ vols \subseteq Vols
  /\ net \in 0..2
  /\ images \subseteq Containers
  /\ pc \in [Clients -> {"idle", "client", "gitbase", "start", "open", "stop"}]
  /\ req \in [Clients -> Requests \cup {Nil}]
  /\ step \in [Clients -> Steps]
  /\ todo \in [Clients -> Seq(Containers)]
  /\ gone \in [Clients -> BOOLEAN]
  /\ reply \in [Clients -> {"none", "port", "zero", "stopped", "error"}]
  /\ seen \in [Clients -> SUBSET Containers]
  /\ \A p \in Clients : step[p] = "none" <=> todo[p] = <<>>

Set(f, p, v) == [f EXCEPT ![p] = v]

Exists(c) == ctr[c].state # "none"

Up(c) == ctr[c].state = "up"

-----------------------------------------------------------------------------
(* Dependencies, and the order in which run goes through them.  No component *)
(* has two, so nothing comes up that is in the map seen of run already.      *)

DependsOn == [c \in Containers |->
  IF c = "gitbase-web" THEN {"gitbase"}
  ELSE IF c \in {"gitbase", "bblfsh-web"} THEN {"bblfshd"} ELSE {}]

\* A wrong run: a component comes before what it depends on.
DependenciesLast(c) ==
  IF c = "gitbase-web" THEN <<c, "gitbase", "bblfshd">>
  ELSE IF c = "bblfshd" THEN <<c>> ELSE <<c, "bblfshd">>

RunOrder(c) ==
  IF c = "gitbase-web" THEN <<"bblfshd", "gitbase", c>>
  ELSE IF c = "bblfshd" THEN <<c>> ELSE <<"bblfshd", c>>

\* For these gitbaseComponent makes the volume and asks for the host's path.
OnGitbase(c) == c \in {"gitbase", "gitbase-web"}

\* Nothing is there but volumes of other working directories.
Init ==
  /\ ctr = [c \in Containers |-> NoContainer]
  /\ vols = Vols \ {IndexVol} /\ net = 0 /\ images = {}
  /\ pc = [p \in Clients |-> "idle"] /\ req = [p \in Clients |-> Nil]
  /\ step = [p \in Clients |-> "none"] /\ todo = [p \in Clients |-> <<>>]
  /\ gone = [p \in Clients |-> FALSE] /\ reply = [p \in Clients |-> "none"]
  /\ seen = [p \in Clients |-> {}]

-----------------------------------------------------------------------------
(* Steps of p: of the CLI itself when they are about one of its containers,   *)
(* else of the daemon's handler.                                              *)

At(p, s) == step[p] = s

Handled(p) == step[p] # "none" /\ Head(todo[p]) \in Components

Goto(p, s) ==
  /\ step' = Set(step, p, s)
  /\ UNCHANGED <<client, todo, gone, reply>>

\* A wrong run: it leaves what it had still to start to the next request.
AnswerKeeps(p, r) ==
  /\ step' = Set(step, p, "none")
  /\ reply' = Set(reply, p, IF gone[p] THEN "none" ELSE r)
  /\ gone' = Set(gone, p, FALSE)
  /\ UNCHANGED <<client, todo>>

\* Nobody takes the answer to a client that has died.
Answer(p, r) ==
  /\ step' = Set(step, p, "none") /\ todo' = Set(todo, p, <<>>)
  /\ reply' = Set(reply, p, IF gone[p] THEN "none" ELSE r)
  /\ gone' = Set(gone, p, FALSE)
  /\ UNCHANGED client

\* What has been seen matters until the answer is taken.
Forget(p) == seen' = IF gone[p] THEN Set(seen, p, {}) ELSE seen

Saw(p) == seen' = [seen EXCEPT ![p] = @ \cup {Head(todo[p])}]

Fails(p) == Answer(p, "error") /\ Forget(p)

\* The daemon's container becomes d, and its handlers end with it.
DaemonBecomes(d) ==
  /\ ctr' = [c \in Containers |->
               IF c = "daemon" THEN d
               ELSE IF c \in Components /\ ctr[c].by # Nil THEN GivenUp(ctr[c].state)
               ELSE ctr[c]]
  /\ todo' = [q \in Clients |-> IF Handled(q) THEN <<>> ELSE todo[q]]
  /\ gone' = [q \in Clients |-> FALSE]
  /\ reply' = [q \in Clients |-> IF Handled(q) /\ ~ gone[q] THEN "error" ELSE reply[q]]
  /\ seen' = [q \in Clients |-> IF gone[q] THEN {} ELSE seen[q]]
  /\ UNCHANGED <<client, vols, net, images>>

\* What is left of the steps then.
Survivors == [q \in Clients |-> IF Handled(q) THEN "none" ELSE step[q]]

DaemonEnds(d) == DaemonBecomes(d) /\ step' = Survivors

-----------------------------------------------------------------------------
(* gitbaseComponent comes first, where it is needed. *)

\* An error of CreateVolume or HostPath is assigned to the err of the case, and
\* the one that is returned is nil.
NoVolume(p) ==
  /\ "volume" \in Faulty
  /\ Answer(p, "zero") /\ Forget(p)

VolumeInspect(p) ==
  /\ At(p, "inspect")
  /\ \/ IndexVol \notin vols /\ Goto(p, "volume") /\ UNCHANGED seen
     \/ IndexVol \in vols /\ Goto(p, "look") /\ UNCHANGED seen
     \/ IndexVol \in vols /\ NoVolume(p)
  /\ UNCHANGED docker

\* VolumeCreate of a name that exists answers with that volume.
VolumeCreate(p) ==
  /\ At(p, "volume")
  /\ \/ vols' = vols \cup {IndexVol} /\ Goto(p, "look") /\ UNCHANGED seen
     \/ vols' \in {vols, vols \cup {IndexVol}} /\ NoVolume(p)
  /\ UNCHANGED <<ctr, net, images>>

-----------------------------------------------------------------------------
(* InfoOrStart, for each component that run goes through and for the daemon. *)

IsRunning(p) ==
  /\ At(p, "look")
  /\ \/ Up(Head(todo[p])) /\ Goto(p, "info") /\ Saw(p)
     \/ ~ Up(Head(todo[p])) /\ Goto(p, "install") /\ UNCHANGED seen
     \/ "list" \in Faulty /\ Fails(p)
  /\ UNCHANGED docker

\* sql then waits for gitbase, through the daemon, before it makes its client.
NotReady(c) == c = "mysql" /\ (~ Up("daemon") \/ "ready" \in Faulty)

EnsureInstalled(p) ==
  LET c == Head(todo[p]) IN
  /\ At(p, "install")
  /\ \/ /\ images' = images \cup {c}
        /\ \/ /\ c # "mysql" \/ Up("daemon")
              /\ Goto(p, "create") /\ UNCHANGED seen
           \/ NotReady(c) /\ Fails(p)
     \/ "pull" \in Faulty /\ Fails(p) /\ UNCHANGED images
  /\ UNCHANGED <<ctr, vols, net>>

\* A wrong StartFunc: all of them use the context of the request.
CanceledAlways(p) == gone[p]

\* The others make their context from context.Background().
Canceled(p) == gone[p] /\ Head(todo[p]) = "bblfshd"

\* A name that is taken is removed, once, and with a daemon its handlers.
ForceRemove(p) ==
  LET c == Head(todo[p]) IN
  /\ At(p, "create") /\ Exists(c) /\ ~ Canceled(p)
  /\ \/ /\ c = "daemon"
        /\ DaemonBecomes(NoContainer)
        /\ step' = Set(Survivors, p, "recreate")
     \/ /\ c # "daemon"
        /\ ctr' = Set(ctr, c, NoContainer)
        /\ Goto(p, "recreate")
        /\ UNCHANGED <<vols, net, images, seen>>

\* Docker makes a volume that is mounted and missing.
Mounted(c) == IF c = "gitbase" THEN vols \cup {IndexVol} ELSE vols

\* ContainerCreate and ContainerStart; the mysql client is started later.  What
\* was not started in time may be left up or down, as may one whose creation
\* was not answered.
Create(p) ==
  LET c == Head(todo[p])
      may == ~ Canceled(p) /\ c \in images /\ ~ Exists(c)
  IN
  /\ step[p] \in {"create", "recreate"}
  /\ \/ /\ may /\ c # "mysql"
        /\ ctr' = Set(ctr, c, New("up", p)) /\ vols' = Mounted(c)
        /\ Goto(p, "network") /\ Saw(p)
     \/ /\ may /\ c = "mysql"
        /\ ctr' = Set(ctr, c, New("down", p))
        /\ Goto(p, "network") /\ UNCHANGED <<vols, seen>>
     \/ /\ may /\ "start" \in Faulty
        /\ \E s \in {"down", "up"} : ctr' = Set(ctr, c, GivenUp(s))
        /\ vols' = Mounted(c)
        /\ Fails(p)
     \/ /\ \/ Canceled(p) \/ "create" \in Faulty
           \/ IF Exists(c) THEN step[p] = "recreate" ELSE c \notin images
        /\ Fails(p)
        /\ UNCHANGED <<ctr, vols>>
  /\ UNCHANGED <<net, images>>

-----------------------------------------------------------------------------
(* connectToNetwork.  Docker refuses a name that several networks have. *)

\* The error is returned, and the container left as it is.
GiveUp(p) ==
  LET c == Head(todo[p]) IN
  /\ ctr' = IF ctr[c].by # p THEN ctr
            ELSE Set(ctr, c, IF Canceled(p) THEN New(ctr[c].state, Nil)
                                            ELSE GivenUp(ctr[c].state))
  /\ Fails(p)

\* Any error of the inspection counts as a network that is not there.
NetworkInspect(p) ==
  /\ At(p, "network")
  /\ \/ net = 1 /\ ~ Canceled(p) /\ Goto(p, "connect")
     \/ (net # 1 \/ Canceled(p) \/ "connect" \in Faulty) /\ Goto(p, "createNetwork")
  /\ UNCHANGED <<docker, seen>>

NetworkCreate(p) ==
  LET more == IF net = 0 THEN 1 ELSE 2 IN
  /\ At(p, "createNetwork")
  /\ \/ /\ ~ Canceled(p)
        /\ net' = more
        /\ Goto(p, "connect") /\ UNCHANGED <<ctr, seen>>
     \/ /\ Canceled(p) \/ "connect" \in Faulty
        /\ GiveUp(p) /\ net' \in {net, more}
  /\ UNCHANGED <<vols, images>>

\* By id: a container that somebody has replaced is not there any more.
NetworkConnect(p) ==
  LET c == Head(todo[p])
      may == net = 1 /\ ctr[c].by = p /\ ~ Canceled(p)
      on(q) == [state |-> ctr[c].state, by |-> q, net |-> "on"]
  IN
  /\ At(p, "connect")
  /\ \/ /\ may /\ c # "mysql"
        /\ ctr' = Set(ctr, c, on(Nil)) /\ Goto(p, "info") /\ UNCHANGED seen
     \/ /\ may /\ c = "mysql"
        /\ ctr' = Set(ctr, c, on(p)) /\ Goto(p, "run") /\ UNCHANGED seen
     \/ (~ may \/ "connect" \in Faulty) /\ GiveUp(p)
  /\ UNCHANGED <<vols, net, images>>

\* Attach: the mysql client is started last, on the network it was connected to.
Run(p) ==
  LET c == Head(todo[p])
      may == ctr[c].by = p /\ ctr[c].net = "on"
  IN
  /\ At(p, "run")
  /\ \/ /\ may
        /\ ctr' = Set(ctr, c, [state |-> "up", by |-> Nil, net |-> "on"])
        /\ Answer(p, "port") /\ Saw(p)
     \/ (~ may \/ "start" \in Faulty) /\ GiveUp(p)
  /\ UNCHANGED <<vols, net, images>>

Info(p) ==
  LET there == Exists(Head(todo[p])) IN
  /\ At(p, "info")
  /\ \/ /\ there /\ Len(todo[p]) > 1
        /\ step' = Set(step, p, "look") /\ todo' = Set(todo, p, Tail(todo[p]))
        /\ UNCHANGED <<client, gone, reply, seen>>
     \/ there /\ Len(todo[p]) = 1 /\ Answer(p, "port") /\ Forget(p)
     \/ (~ there \/ "list" \in Faulty) /\ Fails(p)
  /\ UNCHANGED docker

\* RemoveContainer, for which a container that is not there is an error; the
\* handler StopComponent calls it, and sql for its client.
StopComponent(p) ==
  LET c == Head(todo[p]) IN
  /\ At(p, "stop")
  /\ \/ /\ Exists(c)
        /\ ctr' = Set(ctr, c, NoContainer)
        /\ Answer(p, "stopped")
     \/ /\ ~ Exists(c) \/ "stop" \in Faulty
        /\ Answer(p, "error")
        /\ UNCHANGED ctr
  /\ UNCHANGED <<vols, net, images, seen>>

-----------------------------------------------------------------------------
(* The commands. *)

\* What p starts now: the daemon, gitbase before it is used, or what it is for.
Asked(p) ==
  IF pc[p] = "client" THEN "daemon"
  ELSE IF pc[p] = "gitbase" THEN "gitbase" ELSE req[p][2]

\* The web command asks for gitbase before it asks for gitbase-web, and sql
\* before it runs its client.
GitbaseFirst(r) == r \in {<<"web", "gitbase-web">>, <<"sql", "mysql">>}

\* StartComponent of component c.
Request(p, c) ==
  /\ step' = Set(step, p, IF OnGitbase(c) THEN "inspect" ELSE "look")
  /\ todo' = Set(todo, p, RunOrder(c))
  /\ seen' = Set(seen, p, {})

\* ensureStarted.
Begin(p, r) ==
  /\ pc[p] = "idle" /\ step[p] = "none"
  /\ pc' = Set(pc, p, "client") /\ req' = Set(req, p, r)
  /\ step' = Set(step, p, "look") /\ todo' = Set(todo, p, <<"daemon">>)
  /\ seen' = Set(seen, p, {})
  /\ UNCHANGED <<docker, gone, reply>>

Ok(p) == reply[p] \in {"port", "zero"}

Done(p) ==
  /\ pc' = Set(pc, p, "idle") /\ req' = Set(req, p, Nil)
  /\ seen' = Set(seen, p, {})
  /\ UNCHANGED <<step, todo>>

\* web waits for gitbase to be ready (module ConnReady) before the next request.
\* In the end it prints the address and waits for Ctrl-C, and sql for the end of
\* its client (module SqlSession), where components start is done.
Answered(p) ==
  LET r == req[p]
      needs == IF GitbaseFirst(r) THEN "gitbase" ELSE r[2]
  IN
  /\ reply[p] # "none"
  /\ reply' = Set(reply, p, "none")
  /\ \/ /\ Ok(p) /\ pc[p] = "client" /\ r[1] # "logs" /\ Up("daemon")
        /\ pc' = Set(pc, p, IF GitbaseFirst(r) THEN "gitbase" ELSE "start")
        /\ Request(p, needs) /\ UNCHANGED req
     \/ /\ Ok(p) /\ pc[p] = "gitbase" /\ r[1] = "web" /\ Up("daemon")
        /\ pc' = Set(pc, p, "start")
        /\ Request(p, r[2]) /\ UNCHANGED req
     \/ /\ Ok(p) /\ pc[p] = "gitbase" /\ r[1] = "sql"
        /\ pc' = Set(pc, p, "start")
        /\ step' = Set(step, p, "install") /\ todo' = Set(todo, p, <<"mysql">>)
        /\ seen' = Set(seen, p, {}) /\ UNCHANGED req
     \/ /\ Ok(p) /\ pc[p] = "start" /\ r[1] \in {"web", "sql"}
        /\ pc' = Set(pc, p, "open")
        /\ seen' = Set(seen, p, {})
        /\ UNCHANGED <<req, step, todo>>
     \/ /\ \/ ~ Ok(p)
           \/ pc[p] = "client" /\ (r[1] = "logs" \/ ~ Up("daemon"))
           \/ pc[p] = "gitbase" /\ r[1] = "web" /\ (~ Up("daemon") \/ "ready" \in Faulty)
           \/ pc[p] = "start" /\ r[1] = "start"
        /\ Done(p)
  /\ UNCHANGED <<docker, gone>>

\* Ctrl-C, or the mysql client has ended: web asks the daemon for StopComponent,
\* and sql removes its client itself.
Close(p) ==
  /\ pc[p] = "open"
  /\ pc' = Set(pc, p, "stop")
  /\ \/ /\ req[p][1] = "sql" \/ Up("daemon")
        /\ step' = Set(step, p, "stop") /\ todo' = Set(todo, p, <<req[p][2]>>)
        /\ UNCHANGED reply
     \/ /\ req[p][1] = "web" /\ ~ Up("daemon")
        /\ reply' = Set(reply, p, "error") /\ UNCHANGED <<step, todo>>
  /\ UNCHANGED <<docker, req, gone, seen>>

\* The CLI is killed, or the time of its request is over.  A handler goes on.
ClientDies(p) ==
  /\ "kill" \in Faulty
  /\ pc[p] # "idle"
  /\ pc' = Set(pc, p, "idle") /\ req' = Set(req, p, Nil)
  /\ reply' = Set(reply, p, "none")
  /\ gone' = Set(gone, p, Handled(p))
  /\ \/ Handled(p) /\ UNCHANGED <<ctr, step, todo, seen>>
     \/ /\ ~ Handled(p)
        /\ ctr' = [c \in Containers |->
                     IF ctr[c].by # p THEN ctr[c]
                     ELSE [state |-> ctr[c].state, by |-> Nil, net |-> ctr[c].net]]
        /\ step' = Set(step, p, "none") /\ todo' = Set(todo, p, <<>>)
        /\ seen' = Set(seen, p, {})
  /\ UNCHANGED <<vols, net, images>>

-----------------------------------------------------------------------------
Starting(p) ==
  \/ VolumeInspect(p) \/ VolumeCreate(p)
  \/ IsRunning(p) \/ EnsureInstalled(p) \/ ForceRemove(p) \/ Create(p)
  \/ NetworkInspect(p) \/ NetworkCreate(p) \/ NetworkConnect(p) \/ Run(p) \/ Info(p)
  \/ StopComponent(p)

Command(p) ==
  \/ \E r \in Requests : Begin(p, r)
  \/ Answered(p) \/ Close(p) \/ ClientDies(p)

RunNext == \E p \in Clients : Starting(p) \/ Command(p)

-----------------------------------------------------------------------------
(* Properties. *)

OnItsWay == {"network", "createNetwork", "connect"}

\* run: a component is started when what it depends on was found running or
\* started by the same request, and StartComponent answers with a port when all
\* of it was; whoever else stops, replaces and starts components meanwhile.
DependenciesFirst ==
  \A p \in Clients :
    /\ step[p] \in {"create", "recreate"} \cup OnItsWay =>
         DependsOn[Head(todo[p])] \subseteq seen[p]
    /\ reply[p] = "port" => {Asked(p)} \cup DependsOn[Asked(p)] \subseteq seen[p]

\* Unless Docker has refused, or the daemon has ended meanwhile, a component
\* that runs is on the network or about to be connected, whichever clients die;
\* except bblfshd, if its client died while it was started.
OnlyBblfshdStrays ==
  \A c \in Components \ {"bblfshd"} :
    Up(c) /\ ctr[c].net = "off" =>
      \E p \in Clients : ctr[c].by = p /\ step[p] \in OnItsWay /\ Head(todo[p]) = c

\* components.go:73 (cmd/srcd-server/engine): "startComponentAtPort starts the
\* container with the given public port binding".  An answer without an error
\* says that it was found running or started.
OkMeansStarted ==
  \A p \in Clients : Ok(p) => Asked(p) \in seen[p]
=============================================================================
