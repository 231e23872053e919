---------------------------- MODULE PruneProofs ----------------------------
(***************************************************************************)
(* What the commands that start, stop and prune components may rely on,    *)
(* for any number of clients and requests, whatever fails, and however     *)
(* often the daemon ends and is started again.                             *)
(***************************************************************************)
EXTENDS Prune, TLAPS

-----------------------------------------------------------------------------
(* Requests in order. *)

RunSteps == Steps \ {"none", "stop"}

\* What run takes before container c, and what may be left of a request for c.
Before == [c \in Containers |->
  IF c = "gitbase-web" THEN {"bblfshd", "gitbase"}
  ELSE IF c \in {"gitbase", "bblfsh-web"} THEN {"bblfshd"} ELSE {}]

Rests == [c \in Containers |->
  IF c = "gitbase-web" THEN {<<"bblfshd", "gitbase", c>>, <<"gitbase", c>>, <<c>>}
  ELSE IF c \in {"gitbase", "bblfsh-web"} THEN {<<"bblfshd", c>>, <<c>>} ELSE {<<c>>}]

\* A client and what is done for it are at places that go together; a handler
\* without a client is that of a client that died.
PairedAt(p) ==
  /\ pc[p] # "idle" => req[p] \in Requests
  /\ pc[p] = "gitbase" => GitbaseFirst(req[p])
  /\ pc[p] = "open" => req[p][1] \in {"web", "sql"} /\ step[p] = "none"
  /\ reply[p] # "none" => pc[p] \notin {"idle", "open"} /\ step[p] = "none"
  /\ step[p] = "stop" => pc[p] \in {"idle", "stop"}
  /\ step[p] \in RunSteps => pc[p] \in {"idle", "client", "gitbase", "start"}
  /\ gone[p] <=> pc[p] = "idle" /\ step[p] # "none"
  /\ gone[p] => Handled(p)

Paired == \A p \in Clients : PairedAt(p)

\* What is left to do is the rest of one request, everything before it has been
\* seen, and each step is one for the container that is next.
InOrderAt(p) ==
  /\ step[p] = "stop" => \E c \in Containers \ {"daemon"} : todo[p] = <<c>>
  /\ step[p] \in RunSteps =>
       \E c \in Containers :
         /\ todo[p] \in Rests[c]
         /\ pc[p] # "idle" => c = Asked(p)
         /\ Before[Head(todo[p])] \subseteq seen[p]
         /\ step[p] \in OnItsWay \cup {"info"} /\ Head(todo[p]) # "mysql" =>
              Head(todo[p]) \in seen[p]
  /\ step[p] \in {"inspect", "volume"} => Head(todo[p]) \in Components
  /\ step[p] \in {"look", "info"} => Head(todo[p]) # "mysql"
  /\ step[p] = "run" => Head(todo[p]) = "mysql"
  /\ reply[p] = "port" => {Asked(p)} \cup Before[Asked(p)] \subseteq seen[p]

InOrder == \A p \in Clients : InOrderAt(p)

\* The variables of the clients and of what is done for them.
ClientTypes ==
  /\ pc \in [Clients -> {"idle", "client", "gitbase", "start", "open", "stop"}]
  /\ req \in [Clients -> Requests \cup {Nil}]
  /\ step \in [Clients -> Steps]
  /\ todo \in [Clients -> Seq(Containers)]
  /\ gone \in [Clients -> BOOLEAN]
  /\ reply \in [Clients -> {"none", "port", "zero", "stopped", "error"}]
  /\ seen \in [Clients -> SUBSET Containers]
  /\ \A p \in Clients : step[p] = "none" <=> todo[p] = <<>>

\* Those of Docker, and those of prune.
DockerTypes ==
  /\ ctr \in [Containers -> Container] /\ vols \subseteq Vols
  /\ net \in 0..2 /\ images \subseteq Containers

PruneTypes ==
  /\ prune \in {"idle", "containers", "stopped", "volumes", "ok", "images", "okImages",
                "failed"}
  /\ snap \subseteq Containers \cup Vols
  /\ before \in Stock
  /\ restarted \in BOOLEAN

RunInv == PruneTypeOK /\ Paired /\ InOrder

-----------------------------------------------------------------------------
(* Containers, and whoever connects them. *)

\* Handlers run in the daemon.
NoHandlers == ~ Up("daemon") => \A p \in Clients : ~ Handled(p)

\* Whoever connects a container is on its way to it.
Owned ==
  \A c \in Containers, p \in Clients :
    ctr[c].by = p => step[p] \in OnItsWay \cup {"run"} /\ Head(todo[p]) = c

\* What runs unconnected is being connected.
Unconnected ==
  \A c \in Components \ {"bblfshd"} : Up(c) /\ ctr[c].net = "off" => ctr[c].by # Nil

\* A container that runs keeps its image, and gitbase its volume.
Holds ==
  /\ \A c \in Components : Up(c) => c \in images
  /\ Exists("gitbase") => IndexVol \in vols

-----------------------------------------------------------------------------
(* How far prune has got. *)

Succeeded == {"ok", "images", "okImages"}

\* What prune met goes, part by part.
Cleared ==
  /\ prune = "containers" => before.containers \subseteq snap
  /\ prune \in {"volumes"} \cup Succeeded => before.containers = {}
  /\ prune = "volumes" => before.volumes \subseteq snap
  /\ prune \in Succeeded => before.volumes = {} /\ ~ before.network

\* With no daemon since its removal, nothing comes behind what prune has listed.
Orphaned ==
  ~ restarted =>
    /\ prune # "idle" /\ (prune = "containers" => "daemon" \notin snap) => ~ Up("daemon")
    /\ prune = "volumes" => vols \subseteq snap
    /\ prune \in Succeeded => vols = {} /\ \A c \in Components : ctr[c].net # "on"
    /\ prune = "images" => images \cap Components \subseteq snap
    /\ prune = "okImages" => images \cap Components = {}

PruneInv ==
  RunInv /\ NoHandlers /\ Owned /\ Unconnected /\ Holds /\ Cleared /\ Orphaned

-----------------------------------------------------------------------------
(* Sequences of containers. *)

\* What run has left stays the rest of its request: behind the first component
\* comes the next one, and at the end the one that was asked for.
LEMMA RestFacts ==
  ASSUME NEW c \in Containers, NEW t \in Rests[c]
  PROVE  /\ t \in Seq(Containers) /\ t # <<>>
         /\ Head(t) \in Containers
         /\ Len(t) = 1 => Head(t) = c
         /\ Head(t) = "mysql" => c = "mysql"
         /\ Len(t) > 1 => /\ Tail(t) \in Rests[c] /\ Tail(t) \in Seq(Containers)
                          /\ Tail(t) # <<>>
                          /\ Head(t) \in Components /\ Head(Tail(t)) \in Components
                          /\ Before[Head(Tail(t))] \subseteq Before[Head(t)] \cup {Head(t)}
<1> USE DEF Containers, CliContainers, Components, Rests, Before
<1>1. CASE c \in {"bblfshd", "daemon", "mysql"}
  <2>1. t = <<c>>
    BY <1>1
  <2> QED
    BY <1>1, <2>1
<1>2. CASE c = "gitbase-web"
  <2>1. CASE t = <<"bblfshd", "gitbase", "gitbase-web">>
    <3>1. Tail(t) = <<"gitbase", "gitbase-web">> /\ Head(t) = "bblfshd" /\ Len(t) = 3
      BY <2>1
    <3> QED
      BY <1>2, <2>1, <3>1
  <2>2. CASE t = <<"gitbase", "gitbase-web">>
    <3>1. Tail(t) = <<"gitbase-web">> /\ Head(t) = "gitbase" /\ Len(t) = 2
      BY <2>2
    <3> QED
      BY <1>2, <2>2, <3>1
  <2>3. CASE t = <<"gitbase-web">>
    BY <1>2, <2>3
  <2> QED
    BY <1>2, <2>1, <2>2, <2>3
<1>3. CASE c \in {"gitbase", "bblfsh-web"}
  <2>1. CASE t = <<"bblfshd", c>>
    <3>1. Tail(t) = <<c>> /\ Head(t) = "bblfshd" /\ Len(t) = 2
      BY <2>1
    <3> QED
      BY <1>3, <2>1, <3>1
  <2>2. CASE t = <<c>>
    BY <1>3, <2>2
  <2> QED
    BY <1>3, <2>1, <2>2
<1> QED
  BY <1>1, <1>2, <1>3

\* A request begins with nothing to wait for.
LEMMA OrderFacts ==
  ASSUME NEW c \in Components
  PROVE  /\ RunOrder(c) \in Rests[c]
         /\ Before[Head(RunOrder(c))] = {}
         /\ Head(RunOrder(c)) \in Components
  BY DEF Containers, CliContainers, Components, RunOrder, Rests, Before

\* What a container depends on comes before it.
LEMMA DependsFacts ==
  /\ \A c \in Containers : DependsOn[c] \subseteq Before[c]
  /\ "mysql" \in Containers /\ "daemon" \in Containers /\ "gitbase" \in Components
  /\ "mysql" \notin Components /\ "daemon" \notin Components
  /\ Components \subseteq Containers
  /\ Before["mysql"] = {} /\ Before["daemon"] = {}
  /\ Rests["mysql"] = {<<"mysql">>} /\ Rests["daemon"] = {<<"daemon">>}
  BY DEF Containers, CliContainers, Components, Before, Rests, DependsOn

-----------------------------------------------------------------------------
(* The containers. *)

\* What the constants are made of.
LEMMA ContainerTypes ==
  /\ NoContainer \in Container /\ NoContainer.state = "none" /\ NoContainer.by = Nil
  /\ \A s \in {"none", "down", "up"} :
       LET cut == GivenUp(s) IN
         cut \in Container /\ cut.state = s /\ cut.by = Nil /\ cut.net = "cut"
  /\ \A s \in {"none", "down", "up"}, q \in Clients \cup {Nil} :
       LET new == New(s, q) IN
         new \in Container /\ new.state = s /\ new.by = q /\ new.net = "off"
  /\ \A s \in {"none", "down", "up"}, q \in Clients \cup {Nil}, n \in {"off", "on", "cut"} :
       LET some == [state |-> s, by |-> q, net |-> n] IN
         some \in Container /\ some.state = s /\ some.by = q /\ some.net = n
  BY DEF NoContainer, GivenUp, New, Container

\* And what every container is.
LEMMA ContainerParts ==
  ASSUME TypeOK, NEW c \in Containers
  PROVE  /\ ctr \in [Containers -> Container]
         /\ ctr[c].state \in {"none", "down", "up"}
         /\ ctr[c].by \in Clients \cup {Nil}
         /\ ctr[c].net \in {"off", "on", "cut"}
<1>1. ctr \in [Containers -> Container]
  BY DEF TypeOK
<1>2. ctr[c] \in Container
  BY <1>1
<1> QED
  BY <1>1, <1>2 DEF Container

\* The types, by what they are of.
LEMMA TypeParts ==
  /\ TypeOK <=> DockerTypes /\ ClientTypes
  /\ PruneTypeOK <=> TypeOK /\ PruneTypes
<1>1. TypeOK <=> DockerTypes /\ ClientTypes
  BY DEF TypeOK, DockerTypes, ClientTypes
<1>2. PruneTypeOK <=> TypeOK /\ PruneTypes
  BY DEF PruneTypeOK, PruneTypes
<1> QED
  BY <1>1, <1>2

-----------------------------------------------------------------------------
(* Who is moved by a step. *)

\* The daemon goes, by prune, by itself, or by whoever replaces it.
DaemonGoes ==
  \E d \in Container :
    /\ d.state # "up"
    /\ d.by \in {Nil, ctr["daemon"].by}
    /\ DaemonBecomes(d)
    /\ \/ step' = Survivors
       \/ \E p \in Clients : /\ step[p] = "create" /\ Head(todo[p]) = "daemon"
                             /\ d.by = Nil
                             /\ step' = Set(Survivors, p, "recreate")

\* Nothing changes for q.
Same(q) ==
  /\ pc'[q] = pc[q] /\ req'[q] = req[q] /\ step'[q] = step[q] /\ todo'[q] = todo[q]
  /\ gone'[q] = gone[q] /\ reply'[q] = reply[q] /\ seen'[q] = seen[q]

\* So it does when it ends by itself.
LEMMA ExitGoes ==
  ASSUME TypeOK, DaemonExits
  PROVE  DaemonGoes
<1> DEFINE d == [state |-> "down", by |-> ctr["daemon"].by, net |-> ctr["daemon"].net]
<1>1. d \in Container /\ d.state # "up" /\ d.by = ctr["daemon"].by
  <2>1. "daemon" \in Containers
    BY DependsFacts
  <2>2. ctr["daemon"].by \in Clients \cup {Nil} /\ ctr["daemon"].net \in {"off", "on", "cut"}
    BY <2>1, ContainerParts
  <2> QED
    BY <2>2 DEF Container
<1>2. DaemonBecomes(d) /\ step' = Survivors
  BY DEF DaemonExits, DaemonEnds
<1> HIDE DEF d
<1> QED
  BY <1>1, <1>2 DEF DaemonGoes

\* A step of prune changes no client, and ends handlers only with the daemon.
LEMMA PruneFrame ==
  ASSUME TypeOK, PruneStep \/ DaemonExits
  PROVE  (UNCHANGED <<client, handler>>) \/ DaemonGoes
<1> USE DEF vars
<1>1. CASE ListContainers \/ Stopped \/ ListVolumes \/ ListInstalled \/ ImagesRemoved
           \/ PruneFails \/ RemoveNetwork
  BY <1>1 DEF ListContainers, Stopped, ListVolumes, ListInstalled, ImagesRemoved, PruneFails,
              RemoveNetwork
<1>2. CASE DaemonExits
  BY <1>2, ExitGoes
<1>3. ASSUME NEW c \in Containers, RemoveContainer(c)
      PROVE  (UNCHANGED <<client, handler>>) \/ DaemonGoes
  BY <1>3, ContainerTypes DEF RemoveContainer, DaemonEnds, DaemonGoes
<1>4. ASSUME NEW v \in Vols, RemoveVolume(v)
      PROVE  UNCHANGED <<client, handler>>
  BY <1>4 DEF RemoveVolume
<1>5. ASSUME NEW i \in 1..6, RemoveImage(i)
      PROVE  UNCHANGED <<client, handler>>
  BY <1>5 DEF RemoveImage
<1> QED
  BY <1>1, <1>2, <1>3, <1>4, <1>5 DEF PruneStep

\* A step of p moves nobody else, unless it replaces the daemon.
LEMMA OthersStay ==
  ASSUME TypeOK, NEW p \in Clients, Starting(p) \/ Command(p)
  PROVE  DaemonGoes \/ \A q \in Clients \ {p} : Same(q)
<1>types. ClientTypes
  BY TypeParts
<1> USE DEF ClientTypes, Set, Same, client
<1>1. CASE VolumeInspect(p) \/ VolumeCreate(p) \/ IsRunning(p) \/ EnsureInstalled(p)
  BY <1>1, <1>types DEF VolumeInspect, VolumeCreate, NoVolume, IsRunning, EnsureInstalled,
                        Goto, Fails, Answer, Forget, Saw
<1>2. CASE ForceRemove(p)
  <2>1. CASE Head(todo[p]) = "daemon"
    BY <1>2, <2>1, ContainerTypes DEF ForceRemove, DaemonGoes, At
  <2>2. CASE Head(todo[p]) # "daemon"
    BY <1>2, <2>2, <1>types DEF ForceRemove, Goto
  <2> QED
    BY <2>1, <2>2
<1>3. CASE Create(p) \/ NetworkInspect(p) \/ NetworkCreate(p)
  BY <1>3, <1>types DEF Create, NetworkInspect, NetworkCreate, GiveUp, Goto, Fails, Answer,
                        Forget, Saw
<1>4. CASE NetworkConnect(p) \/ Run(p)
  BY <1>4, <1>types DEF NetworkConnect, Run, GiveUp, Goto, Fails, Answer, Forget, Saw
<1>5. CASE Info(p) \/ StopComponent(p)
  BY <1>5, <1>types DEF Info, StopComponent, Fails, Answer, Forget, handler
<1>6. CASE (\E r \in Requests : Begin(p, r)) \/ Close(p) \/ ClientDies(p)
  BY <1>6, <1>types DEF Begin, Close, ClientDies
<1>7. CASE Answered(p)
  BY <1>7, <1>types DEF Answered, Request, Done
<1> QED
  BY <1>1, <1>2, <1>3, <1>4, <1>5, <1>6, <1>7 DEF Starting, Command

-----------------------------------------------------------------------------
(* Clients and handlers. *)

\* Something is under way at a container.
LEMMA HeadFacts ==
  ASSUME RunInv, NEW p \in Clients, step[p] # "none"
  PROVE  Head(todo[p]) \in Containers /\ todo[p] # <<>>
<1>1. CASE step[p] = "stop"
  BY <1>1 DEF RunInv, InOrder, InOrderAt
<1>2. CASE step[p] \in RunSteps
  BY <1>2, RestFacts DEF RunInv, InOrder, InOrderAt
<1> QED
  BY <1>1, <1>2 DEF RunInv, PruneTypeOK, TypeOK, RunSteps

\* And a command asks for one.
LEMMA AskedFacts ==
  ASSUME RunInv, NEW p \in Clients, pc[p] # "idle"
  PROVE  /\ req[p] \in Requests /\ req[p][2] \in Containers
         /\ req[p][1] # "logs" => req[p][2] # "daemon"
         /\ req[p][1] = "sql" => req[p][2] = "mysql"
         /\ req[p][1] \in {"start", "web"} => req[p][2] \in Components
         /\ Asked(p) \in Containers
<1>1. req[p] \in Requests
  BY DEF RunInv, Paired, PairedAt
<1>2. \A r \in Requests : /\ r[1] = "sql" => r[2] = "mysql"
                          /\ r[1] \in {"start", "web"} => r[2] \in Components
                          /\ r[1] # "logs" => r[2] # "daemon"
                          /\ r[2] \in Containers
  BY ComponentAssumption DEF WebComponents, Components, Containers, CliContainers
<1> QED
  BY <1>1, <1>2, DependsFacts DEF Asked

\* When the daemon goes, handlers end, and what the CLI does itself goes on.
LEMMA DaemonGoesFacts ==
  ASSUME RunInv, DaemonGoes, NEW q \in Clients
  PROVE  /\ pc'[q] = pc[q] /\ req'[q] = req[q] /\ gone'[q] = FALSE
         /\ Handled(q) => /\ step'[q] = "none" /\ todo'[q] = <<>>
                          /\ reply'[q] = IF gone[q] THEN "none" ELSE "error"
                          /\ seen'[q] = IF gone[q] THEN {} ELSE seen[q]
         /\ ~ Handled(q) => /\ todo'[q] = todo[q] /\ reply'[q] = reply[q]
                            /\ seen'[q] = seen[q] /\ gone[q] = FALSE
                            /\ \/ step'[q] = step[q]
                               \/ /\ step[q] = "create" /\ Head(todo[q]) = "daemon"
                                  /\ step'[q] = "recreate"
<1>types. ClientTypes /\ PairedAt(q)
  BY TypeParts DEF RunInv, Paired
<1>1. PICK d \in Container : DaemonBecomes(d)
  BY DEF DaemonGoes
<1>2. /\ pc' = pc /\ req' = req /\ gone'[q] = FALSE
      /\ todo'[q] = IF Handled(q) THEN <<>> ELSE todo[q]
      /\ reply'[q] = IF Handled(q) /\ ~ gone[q] THEN "error" ELSE reply[q]
      /\ seen'[q] = IF gone[q] THEN {} ELSE seen[q]
  BY <1>1 DEF DaemonBecomes, client
<1>3. Survivors[q] = IF Handled(q) THEN "none" ELSE step[q]
  BY DEF Survivors
<1>4. \/ step'[q] = Survivors[q]
      \/ step[q] = "create" /\ Head(todo[q]) = "daemon" /\ step'[q] = "recreate"
  <2>1. CASE step' = Survivors
    BY <2>1
  <2>2. ASSUME NEW p \in Clients, step[p] = "create", Head(todo[p]) = "daemon",
               step' = Set(Survivors, p, "recreate")
        PROVE  \/ step'[q] = Survivors[q]
               \/ step[q] = "create" /\ Head(todo[q]) = "daemon" /\ step'[q] = "recreate"
    BY <2>2 DEF Set, Survivors
  <2> QED
    BY <2>1, <2>2 DEF DaemonGoes
<1>5. Handled(q) => ~ (Head(todo[q]) = "daemon")
  BY DependsFacts DEF Handled
<1>6. gone[q] => Handled(q) /\ pc[q] = "idle" /\ reply[q] = "none"
  BY <1>types DEF PairedAt
<1>7. gone[q] \in BOOLEAN
  BY <1>types DEF ClientTypes
<1> QED
  BY <1>2, <1>3, <1>4, <1>5, <1>6, <1>7

-----------------------------------------------------------------------------
(* Types. *)

\* Going on keeps the types.
LEMMA GotoTypes ==
  ASSUME ClientTypes, NEW p \in Clients, NEW s \in Steps \ {"none"}, step[p] # "none",
         Goto(p, s), seen' \in [Clients -> SUBSET Containers]
  PROVE  ClientTypes'
  BY DEF ClientTypes, Goto, Set, client

\* So does an answer.
LEMMA AnswerTypes ==
  ASSUME ClientTypes, NEW p \in Clients, NEW r \in {"port", "zero", "stopped", "error"},
         Answer(p, r), seen' \in [Clients -> SUBSET Containers]
  PROVE  ClientTypes'
<1> USE DEF ClientTypes
<1>1. reply' \in [Clients -> {"none", "port", "zero", "stopped", "error"}]
  <2>1. CASE gone[p]
    BY <2>1 DEF Answer, Set
  <2>2. CASE ~ gone[p]
    BY <2>2 DEF Answer, Set
  <2> QED
    BY <2>1, <2>2
<1>2. step' \in [Clients -> Steps] /\ todo' \in [Clients -> Seq(Containers)]
  BY DEF Answer, Set, Steps
<1>3. \A q \in Clients : step'[q] = "none" <=> todo'[q] = <<>>
  BY DEF Answer, Set
<1>4. gone' \in [Clients -> BOOLEAN]
  BY DEF Answer, Set
<1> QED
  BY <1>1, <1>2, <1>3, <1>4 DEF Answer, client

\* What has been seen are containers.
LEMMA SeenTypes ==
  ASSUME ClientTypes, NEW p \in Clients
  PROVE  /\ UNCHANGED seen \/ Forget(p) => seen' \in [Clients -> SUBSET Containers]
         /\ Saw(p) /\ Head(todo[p]) \in Containers => seen' \in [Clients -> SUBSET Containers]
<1>1. seen \in [Clients -> SUBSET Containers]
  BY DEF ClientTypes
<1>2. Forget(p) => seen' = seen \/ seen' = [seen EXCEPT ![p] = {}]
  BY DEF Forget, Set
<1>3. ASSUME Saw(p), Head(todo[p]) \in Containers
      PROVE  seen' \in [Clients -> SUBSET Containers]
  <2>1. seen[p] \cup {Head(todo[p])} \in SUBSET Containers
    BY <1>1, <1>3
  <2> QED
    BY <1>1, <1>3, <2>1 DEF Saw
<1> QED
  BY <1>1, <1>2, <1>3

\* And giving up.
LEMMA FailsTypes ==
  ASSUME ClientTypes, NEW p \in Clients, Fails(p)
  PROVE  ClientTypes'
  BY AnswerTypes, SeenTypes DEF Fails

\* What a command starts for itself keeps the types.
LEMMA BeginTypes ==
  ASSUME ClientTypes, NEW p \in Clients, NEW s \in Steps \ {"none"},
         NEW t \in Seq(Containers), t # <<>>,
         step' = Set(step, p, s), todo' = Set(todo, p, t),
         seen' = Set(seen, p, {}) \/ UNCHANGED seen,
         NEW at \in {"client", "gitbase", "start", "stop"}, pc' = Set(pc, p, at),
         NEW r \in Requests, req' = Set(req, p, r) \/ UNCHANGED req,
         reply' = Set(reply, p, "none") \/ UNCHANGED reply, UNCHANGED gone
  PROVE  ClientTypes'
<1> USE DEF ClientTypes, Set
<1>1. pc' \in [Clients -> {"idle", "client", "gitbase", "start", "open", "stop"}]
  OBVIOUS
<1>2. req' \in [Clients -> Requests \cup {Nil}] /\ gone' \in [Clients -> BOOLEAN]
  OBVIOUS
<1>3. reply' \in [Clients -> {"none", "port", "zero", "stopped", "error"}]
  OBVIOUS
<1>4. seen' \in [Clients -> SUBSET Containers]
  OBVIOUS
<1>5. step' \in [Clients -> Steps] /\ todo' \in [Clients -> Seq(Containers)]
  OBVIOUS
<1>6. \A q \in Clients : step'[q] = "none" <=> todo'[q] = <<>>
  OBVIOUS
<1> QED
  BY <1>1, <1>2, <1>3, <1>4, <1>5, <1>6

\* The types of clients and of what is done for them stay.
LEMMA ClientTypesStep == RunInv /\ [Next]_allVars => ClientTypes'
<1> SUFFICES ASSUME RunInv, [Next]_allVars PROVE ClientTypes'
  OBVIOUS
<1>types. TypeOK /\ ClientTypes
  BY TypeParts DEF RunInv
<1>0. CASE UNCHANGED <<client, handler>>
  BY <1>types, <1>0 DEF ClientTypes, client, handler
<1>1. CASE DaemonGoes
  <2>1. PICK d \in Container : DaemonBecomes(d)
    BY <1>1 DEF DaemonGoes
  <2>2. /\ pc' = pc /\ req' = req /\ gone' \in [Clients -> BOOLEAN]
        /\ todo' \in [Clients -> Seq(Containers)]
        /\ seen' \in [Clients -> SUBSET Containers]
    BY <1>types, <2>1 DEF DaemonBecomes, ClientTypes, client
  <2>3. reply' \in [Clients -> {"none", "port", "zero", "stopped", "error"}]
    BY <1>types, <2>1 DEF DaemonBecomes, ClientTypes
  <2>4. Survivors \in [Clients -> Steps]
    BY <1>types DEF Survivors, ClientTypes, Steps
  <2>5. step' \in [Clients -> Steps]
    BY <1>1, <2>4 DEF DaemonGoes, Set, Steps
  <2>6. \A q \in Clients : step'[q] = "none" <=> todo'[q] = <<>>
    BY <1>types, <1>1, DaemonGoesFacts DEF ClientTypes
  <2> QED
    BY <1>types, <2>2, <2>3, <2>5, <2>6 DEF ClientTypes
<1>2. ASSUME NEW p \in Clients, VolumeInspect(p) PROVE ClientTypes'
  BY <1>types, <1>2, GotoTypes, AnswerTypes, SeenTypes DEF VolumeInspect, NoVolume, At, Steps
<1>3. ASSUME NEW p \in Clients, VolumeCreate(p) PROVE ClientTypes'
  BY <1>types, <1>3, GotoTypes, AnswerTypes, SeenTypes DEF VolumeCreate, NoVolume, At, Steps
<1>4. ASSUME NEW p \in Clients, IsRunning(p) PROVE ClientTypes'
  BY <1>types, <1>4, HeadFacts, GotoTypes, FailsTypes, SeenTypes DEF IsRunning, At, Steps
<1>5. ASSUME NEW p \in Clients, EnsureInstalled(p) PROVE ClientTypes'
  BY <1>types, <1>5, GotoTypes, FailsTypes, SeenTypes DEF EnsureInstalled, At, Steps
<1>6. ASSUME NEW p \in Clients, ForceRemove(p), ~ DaemonGoes PROVE ClientTypes'
  <2>1. Goto(p, "recreate") /\ UNCHANGED seen
    BY <1>6, ContainerTypes DEF ForceRemove, DaemonGoes, At
  <2> QED
    BY <1>types, <1>6, <2>1, GotoTypes, SeenTypes DEF ForceRemove, At, Steps
<1>7. ASSUME NEW p \in Clients, Create(p) PROVE ClientTypes'
  BY <1>types, <1>7, HeadFacts, GotoTypes, FailsTypes, SeenTypes DEF Create, At, Steps
<1>8. ASSUME NEW p \in Clients, NetworkInspect(p) \/ NetworkCreate(p) \/ NetworkConnect(p)
      PROVE  ClientTypes'
  BY <1>types, <1>8, GotoTypes, FailsTypes, SeenTypes
  DEF NetworkInspect, NetworkCreate, NetworkConnect, GiveUp, At, Steps
<1>9. ASSUME NEW p \in Clients, Run(p) PROVE ClientTypes'
  BY <1>types, <1>9, HeadFacts, AnswerTypes, FailsTypes, SeenTypes DEF Run, GiveUp, At
<1>10. ASSUME NEW p \in Clients, Info(p) PROVE ClientTypes'
  <2>1. Len(todo[p]) > 1 => Tail(todo[p]) \in Seq(Containers) /\ Tail(todo[p]) # <<>>
    BY <1>10, RestFacts DEF Info, At, RunInv, InOrder, InOrderAt, RunSteps, Steps
  <2>2. CASE /\ Len(todo[p]) > 1
             /\ step' = Set(step, p, "look") /\ todo' = Set(todo, p, Tail(todo[p]))
             /\ UNCHANGED <<client, gone, reply, seen>>
    BY <1>types, <2>1, <2>2 DEF ClientTypes, client, Set, Steps
  <2> QED
    BY <1>types, <1>10, <2>2, AnswerTypes, FailsTypes, SeenTypes DEF Info, At
<1>11. ASSUME NEW p \in Clients, StopComponent(p) PROVE ClientTypes'
  BY <1>types, <1>11, AnswerTypes, SeenTypes DEF StopComponent
<1>12. ASSUME NEW p \in Clients, NEW r \in Requests, Begin(p, r) PROVE ClientTypes'
  <2>1. <<"daemon">> \in Seq(Containers)
    BY DependsFacts
  <2> QED
    BY <1>types, <1>12, <2>1, BeginTypes DEF Begin, Steps
<1>13. ASSUME NEW p \in Clients, Answered(p) PROVE ClientTypes'
  <2>1. pc[p] # "idle"
    BY <1>13 DEF Answered, RunInv, Paired, PairedAt
  <2>r. req[p] \in Requests
    BY <2>1, AskedFacts
  <2>3. ASSUME NEW c \in Components, Request(p, c), NEW at \in {"gitbase", "start"},
               pc' = Set(pc, p, at), UNCHANGED req
        PROVE  ClientTypes'
    <3>1. RunOrder(c) \in Seq(Containers) /\ RunOrder(c) # <<>>
      BY OrderFacts, RestFacts, DependsFacts
    <3> QED
      BY <1>types, <1>13, <2>r, <2>3, <3>1, BeginTypes DEF Request, OnGitbase, Steps, Answered
  <2>4. CASE /\ pc' = Set(pc, p, "start") /\ step' = Set(step, p, "install")
             /\ todo' = Set(todo, p, <<"mysql">>) /\ seen' = Set(seen, p, {}) /\ UNCHANGED req
    <3>1. <<"mysql">> \in Seq(Containers)
      BY DependsFacts
    <3> QED
      BY <1>types, <1>13, <2>r, <2>4, <3>1, BeginTypes DEF Answered, Steps
  <2>5. CASE pc' = Set(pc, p, "open") /\ seen' = Set(seen, p, {}) /\ UNCHANGED <<req, step, todo>>
    BY <1>types, <1>13, <2>5 DEF Answered, ClientTypes, Set
  <2>6. CASE Done(p)
    BY <1>types, <1>13, <2>6 DEF Answered, ClientTypes, Done, Set
  <2>7. \A r \in Requests : (r[1] # "logs" /\ ~ GitbaseFirst(r)) \/ r[1] = "web"
                            => r[2] \in Components
    BY ComponentAssumption DEF GitbaseFirst, WebComponents, Components
  <2> QED
    BY <1>13, <2>r, <2>3, <2>4, <2>5, <2>6, <2>7, DependsFacts DEF Answered
<1>14. ASSUME NEW p \in Clients, Close(p) PROVE ClientTypes'
  <2>1. req[p] \in Requests /\ req[p][2] \in Containers
    BY <1>14, AskedFacts DEF Close
  <2> DEFINE t == <<req[p][2]>>
  <2>2. t \in Seq(Containers) /\ t # <<>>
    BY <2>1
  <2> HIDE DEF t
  <2>3. CASE step' = Set(step, p, "stop") /\ todo' = Set(todo, p, t) /\ UNCHANGED reply
    BY <1>types, <1>14, <2>1, <2>2, <2>3, BeginTypes DEF Close, Steps
  <2>4. CASE reply' = Set(reply, p, "error") /\ UNCHANGED <<step, todo>>
    BY <1>types, <1>14, <2>4 DEF Close, ClientTypes, Set
  <2> QED
    BY <1>14, <2>3, <2>4 DEF Close, t
<1>15. ASSUME NEW p \in Clients, ClientDies(p) PROVE ClientTypes'
  <2>1. gone' \in [Clients -> BOOLEAN]
    BY <1>types, <1>15 DEF ClientDies, ClientTypes, Set, Handled
  <2>2. /\ pc' \in [Clients -> {"idle", "client", "gitbase", "start", "open", "stop"}]
        /\ req' \in [Clients -> Requests \cup {Nil}]
        /\ reply' \in [Clients -> {"none", "port", "zero", "stopped", "error"}]
    BY <1>types, <1>15 DEF ClientDies, ClientTypes, Set
  <2>3. /\ step' \in [Clients -> Steps] /\ todo' \in [Clients -> Seq(Containers)]
        /\ seen' \in [Clients -> SUBSET Containers]
        /\ \A q \in Clients : step'[q] = "none" <=> todo'[q] = <<>>
    <3>1. CASE UNCHANGED <<step, todo, seen>>
      BY <1>types, <3>1 DEF ClientTypes
    <3>2. CASE step' = Set(step, p, "none") /\ todo' = Set(todo, p, <<>>) /\ seen' = Set(seen, p, {})
      BY <1>types, <3>2 DEF ClientTypes, Set, Steps
    <3> QED
      BY <1>15, <3>1, <3>2 DEF ClientDies
  <2> QED
    BY <2>1, <2>2, <2>3 DEF ClientTypes
<1> QED
  BY <1>0, <1>1, <1>2, <1>3, <1>4, <1>5, <1>6, <1>7, <1>8, <1>9, <1>10, <1>11, <1>12, <1>13,
     <1>14, <1>15, <1>types, PruneFrame DEF Next, RunNext, Starting, Command, allVars, vars

\* A container that is set is one.
LEMMA SetTypes ==
  ASSUME TypeOK, NEW c \in Containers, NEW r \in Container, ctr' = Set(ctr, c, r)
  PROVE  /\ ctr' \in [Containers -> Container]
         /\ ctr'[c] = r
         /\ \A e \in Containers \ {c} : ctr'[e] = ctr[e]
  BY DEF TypeOK, Set

\* To give up, or to forget who connects a container, keeps its state; what was
\* not connected is not.
LEMMA GiveUpEffect ==
  ASSUME TypeOK, NEW p \in Clients, Head(todo[p]) \in Containers, GiveUp(p),
         NEW e \in Containers
  PROVE  /\ ctr' \in [Containers -> Container]
         /\ ctr'[e].state = ctr[e].state
         /\ e # Head(todo[p]) => ctr'[e] = ctr[e]
         /\ ctr'[e] = ctr[e] \/ (ctr'[e].by = Nil /\ ctr'[e].net # "on")
         /\ ctr'[e] = ctr[e] \/ Canceled(p) \/ ctr'[e].net = "cut"
         /\ ctr'[Head(todo[p])].by # p
<1> DEFINE c == Head(todo[p])
<1>1. CASE ctr[c].by # p
  <2>1. ctr' = ctr
    BY <1>1 DEF GiveUp
  <2> QED
    BY <1>1, <2>1, ContainerParts
<1>2. CASE ctr[c].by = p /\ Canceled(p)
  <2> DEFINE r == New(ctr[c].state, Nil)
  <2>1. r \in Container /\ r.state = ctr[c].state /\ r.by = Nil /\ r.net = "off"
    BY ContainerParts, ContainerTypes
  <2>2. ctr' = Set(ctr, c, r)
    BY <1>2 DEF GiveUp
  <2> HIDE DEF r
  <2> QED
    BY <1>2, <2>1, <2>2, SetTypes, ComponentAssumption
<1>3. CASE ctr[c].by = p /\ ~ Canceled(p)
  <2> DEFINE r == GivenUp(ctr[c].state)
  <2>1. r \in Container /\ r.state = ctr[c].state /\ r.by = Nil /\ r.net = "cut"
    BY ContainerParts, ContainerTypes
  <2>2. ctr' = Set(ctr, c, r)
    BY <1>3 DEF GiveUp
  <2> HIDE DEF r
  <2> QED
    BY <1>3, <2>1, <2>2, SetTypes, ComponentAssumption
<1> QED
  BY <1>1, <1>2, <1>3

\* The death of a client that does something itself is noted where it was at.
LEMMA ClientDiesEffect ==
  ASSUME TypeOK, NEW p \in Clients, ClientDies(p), NEW e \in Containers
  PROVE  /\ ctr' \in [Containers -> Container]
         /\ ctr'[e].state = ctr[e].state /\ ctr'[e].net = ctr[e].net
         /\ ctr'[e] = ctr[e] \/ (~ Handled(p) /\ ctr[e].by = p /\ ctr'[e].by = Nil)
         /\ ctr'[e].by = p => Handled(p)
<1>1. CASE Handled(p)
  <2>1. ctr' = ctr
    BY <1>1 DEF ClientDies
  <2> QED
    BY <1>1, <2>1, ContainerParts
<1>2. CASE ~ Handled(p)
  <2>1. ctr' = [c \in Containers |->
                  IF ctr[c].by # p THEN ctr[c]
                  ELSE [state |-> ctr[c].state, by |-> Nil, net |-> ctr[c].net]]
    BY <1>2 DEF ClientDies
  <2>2. ASSUME NEW c \in Containers
        PROVE  [state |-> ctr[c].state, by |-> Nil, net |-> ctr[c].net] \in Container
    BY ContainerParts DEF Container
  <2>3. \A c \in Containers : ctr[c] \in Container
    BY DEF TypeOK
  <2>4. ctr' \in [Containers -> Container]
    BY <2>1, <2>2, <2>3
  <2> QED
    BY <1>2, <2>1, <2>4, ComponentAssumption
<1> QED
  BY <1>1, <1>2

\* With the daemon go the handlers that connect something.
LEMMA DaemonGoesEffect ==
  ASSUME TypeOK, DaemonGoes, NEW e \in Containers
  PROVE  /\ ctr' \in [Containers -> Container]
         /\ e # "daemon" => ctr'[e].state = ctr[e].state
         /\ e \in Components => \/ ctr'[e] = ctr[e] /\ ctr[e].by = Nil
                                \/ ctr'[e].by = Nil /\ ctr'[e].net = "cut"
         /\ e \notin Components \cup {"daemon"} => ctr'[e] = ctr[e]
         /\ ctr'["daemon"].state # "up"
         /\ ctr'["daemon"].by \in {Nil, ctr["daemon"].by}
         /\ UNCHANGED <<vols, net, images>>
<1>1. PICK d \in Container : d.state # "up" /\ d.by \in {Nil, ctr["daemon"].by} /\ DaemonBecomes(d)
  BY DEF DaemonGoes
<1>2. /\ UNCHANGED <<vols, net, images>>
      /\ ctr' = [c \in Containers |->
               IF c = "daemon" THEN d
               ELSE IF c \in Components /\ ctr[c].by # Nil THEN GivenUp(ctr[c].state)
               ELSE ctr[c]]
  BY <1>1 DEF DaemonBecomes
<1>3. \A c \in Containers : ctr[c] \in Container
  BY DEF TypeOK
<1>4. ASSUME NEW c \in Containers
      PROVE  LET cut == GivenUp(ctr[c].state) IN
               cut \in Container /\ cut.state = ctr[c].state /\ cut.by = Nil /\ cut.net = "cut"
  BY ContainerParts, ContainerTypes
<1>5. ctr' \in [Containers -> Container]
  BY <1>2, <1>3, <1>4
<1>6. "daemon" \in Containers /\ "daemon" \notin Components
  BY DependsFacts
<1> QED
  BY <1>1, <1>2, <1>4, <1>5, <1>6

\* A network that is lost leaves the state of a container and who connects it,
\* or nobody.
LEMMA UnpluggedEffect ==
  ASSUME TypeOK, ctr' = Unplugged, NEW e \in Containers
  PROVE  /\ ctr' \in [Containers -> Container]
         /\ ctr'[e].state = ctr[e].state
         /\ ctr'[e] = ctr[e] \/ (ctr'[e].by = Nil /\ ctr'[e].net = "cut")
         /\ ctr'[e].net # "on"
<1>1. ASSUME NEW c \in Containers
      PROVE  LET cut == GivenUp(ctr[c].state) IN
               cut \in Container /\ cut.state = ctr[c].state /\ cut.by = Nil /\ cut.net = "cut"
  BY ContainerParts, ContainerTypes
<1>2. \A c \in Containers : ctr[c] \in Container
  BY DEF TypeOK
<1> QED
  BY <1>1, <1>2 DEF Unplugged

\* A container that is made, and what is made of one that is being connected.
LEMMA MadeEffect ==
  ASSUME TypeOK, NEW p \in Clients, Head(todo[p]) \in Containers, Create(p)
  PROVE  \/ UNCHANGED ctr /\ vols' = vols /\ Fails(p)
         \/ \E r \in Container :
              /\ ctr' = Set(ctr, Head(todo[p]), r)
              /\ ~ Exists(Head(todo[p])) /\ Head(todo[p]) \in images
              /\ r.net # "on" /\ r.state # "none"
              /\ \/ /\ r.by = p /\ r.net = "off" /\ Goto(p, "network")
                    /\ Saw(p) \/ (Head(todo[p]) = "mysql" /\ UNCHANGED seen)
                 \/ r.by = Nil /\ r.net = "cut" /\ Fails(p)
              /\ vols' = Mounted(Head(todo[p])) \/ (Head(todo[p]) = "mysql" /\ vols' = vols)
<1> DEFINE c == Head(todo[p])
<1>1. ASSUME NEW s \in {"down", "up"}
      PROVE  /\ New(s, p) \in Container /\ New(s, p).state = s
             /\ New(s, p).by = p /\ New(s, p).net = "off"
             /\ GivenUp(s) \in Container /\ GivenUp(s).state = s
             /\ GivenUp(s).by = Nil /\ GivenUp(s).net = "cut"
  BY ContainerTypes
<1> QED
  BY <1>1 DEF Create

\* Connected, or connected and started.
LEMMA ConnectEffect ==
  ASSUME TypeOK, NEW p \in Clients, Head(todo[p]) \in Containers,
         NetworkConnect(p) \/ Run(p)
  PROVE  \/ GiveUp(p)
         \/ \E r \in Container :
              /\ ctr' = Set(ctr, Head(todo[p]), r)
              /\ ctr[Head(todo[p])].by = p /\ r.net = "on"
              /\ \/ /\ NetworkConnect(p) /\ Head(todo[p]) # "mysql" /\ UNCHANGED seen
                    /\ r.by = Nil /\ Goto(p, "info") /\ r.state = ctr[Head(todo[p])].state
                 \/ /\ NetworkConnect(p) /\ Head(todo[p]) = "mysql" /\ UNCHANGED seen
                    /\ r.by = p /\ Goto(p, "run") /\ r.state = ctr[Head(todo[p])].state
                 \/ Run(p) /\ r.by = Nil /\ Answer(p, "port") /\ Saw(p)
<1> DEFINE c == Head(todo[p])
<1>1. ASSUME NEW q \in Clients \cup {Nil}
      PROVE  LET on == [state |-> ctr[c].state, by |-> q, net |-> "on"] IN
               on \in Container /\ on.state = ctr[c].state /\ on.by = q /\ on.net = "on"
  BY ContainerParts, ContainerTypes
<1>2. LET up == [state |-> "up", by |-> Nil, net |-> "on"] IN
        up \in Container /\ up.by = Nil /\ up.net = "on"
  BY ContainerTypes
<1>3. CASE NetworkConnect(p)
  BY <1>1, <1>3 DEF NetworkConnect
<1>4. CASE Run(p)
  BY <1>2, <1>4 DEF Run
<1> QED
  BY <1>3, <1>4

\* The types of what Docker has stay.
LEMMA DockerTypesStep == RunInv /\ [Next]_allVars => DockerTypes'
<1> SUFFICES ASSUME RunInv, [Next]_allVars PROVE DockerTypes'
  OBVIOUS
<1>types. TypeOK /\ DockerTypes /\ PruneTypes
  BY TypeParts DEF RunInv
<1>head. \A p \in Clients : step[p] # "none" => Head(todo[p]) \in Containers
  BY HeadFacts
<1> USE DEF DockerTypes
<1>0. CASE UNCHANGED docker
  BY <1>types, <1>0 DEF docker
<1>1. CASE DaemonGoes
  BY <1>types, <1>1, DaemonGoesEffect, DependsFacts
<1>2. ASSUME NEW p \in Clients, VolumeCreate(p) \/ EnsureInstalled(p) PROVE DockerTypes'
  BY <1>types, <1>2, <1>head, ComponentAssumption DEF VolumeCreate, EnsureInstalled, At
<1>3. ASSUME NEW p \in Clients, ForceRemove(p), ~ DaemonGoes PROVE DockerTypes'
  <2>1. /\ ctr' = Set(ctr, Head(todo[p]), NoContainer) /\ UNCHANGED <<vols, net, images>>
        /\ step[p] # "none"
    BY <1>3, ContainerTypes DEF ForceRemove, DaemonGoes, At
  <2> QED
    BY <1>types, <1>head, <2>1, ContainerTypes, SetTypes
<1>4. ASSUME NEW p \in Clients, Create(p) PROVE DockerTypes'
  <2>1. Head(todo[p]) \in Containers /\ UNCHANGED <<net, images>>
    BY <1>4, <1>head DEF Create
  <2>2. ctr' \in [Containers -> Container] /\ vols' \subseteq vols \cup {IndexVol}
    BY <1>types, <1>4, <2>1, MadeEffect, SetTypes DEF Mounted
  <2> QED
    BY <1>types, <2>1, <2>2, ComponentAssumption
<1>5. ASSUME NEW p \in Clients, NetworkCreate(p) PROVE DockerTypes'
  BY <1>types, <1>5, <1>head, GiveUpEffect, DependsFacts DEF NetworkCreate, At
<1>6. ASSUME NEW p \in Clients, NetworkConnect(p) \/ Run(p) PROVE DockerTypes'
  <2>1. Head(todo[p]) \in Containers /\ UNCHANGED <<vols, net, images>>
    BY <1>6, <1>head DEF NetworkConnect, Run, At
  <2> QED
    BY <1>types, <1>6, <2>1, ConnectEffect, SetTypes, GiveUpEffect
<1>7. ASSUME NEW p \in Clients, StopComponent(p) PROVE DockerTypes'
  BY <1>types, <1>7, <1>head, ContainerTypes, SetTypes DEF StopComponent, At
<1>8. ASSUME NEW p \in Clients, ClientDies(p) PROVE DockerTypes'
  BY <1>types, <1>8, ClientDiesEffect, DependsFacts DEF ClientDies
<1>9. ASSUME NEW p \in Clients,
             \/ VolumeInspect(p) \/ IsRunning(p) \/ NetworkInspect(p) \/ Info(p)
             \/ (\E r \in Requests : Begin(p, r)) \/ Answered(p) \/ Close(p)
      PROVE  DockerTypes'
  BY <1>0, <1>9 DEF VolumeInspect, IsRunning, NetworkInspect, Info, Begin, Answered, Close
<1>10. ASSUME NEW c \in Containers, RemoveContainer(c), ~ DaemonGoes PROVE DockerTypes'
  <2>1. CASE ctr' = Set(ctr, c, NoContainer) /\ UNCHANGED <<vols, net, images>>
    BY <1>types, <2>1, ContainerTypes, SetTypes
  <2> QED
    BY <1>0, <1>10, <2>1, ContainerTypes DEF RemoveContainer, DaemonEnds, DaemonGoes, vars
<1>11. ASSUME NEW v \in Vols, RemoveVolume(v) PROVE DockerTypes'
  BY <1>types, <1>11 DEF RemoveVolume
<1>12. ASSUME NEW i \in 1..6, RemoveImage(i) PROVE DockerTypes'
  BY <1>types, <1>12 DEF RemoveImage
<1>13. CASE RemoveNetwork
  BY <1>types, <1>13, UnpluggedEffect, DependsFacts DEF RemoveNetwork
<1>14. CASE DaemonExits
  BY <1>types, <1>1, <1>14, ExitGoes
<1>15. CASE ListContainers \/ Stopped \/ ListVolumes \/ ListInstalled \/ ImagesRemoved \/ PruneFails
  BY <1>0, <1>15 DEF ListContainers, Stopped, ListVolumes, ListInstalled, ImagesRemoved,
                     PruneFails, vars
<1> QED
  BY <1>0, <1>1, <1>2, <1>3, <1>4, <1>5, <1>6, <1>7, <1>8, <1>9, <1>10, <1>11, <1>12, <1>13,
     <1>14, <1>15 DEF Next, RunNext, Starting, Command, PruneStep, allVars, vars

\* And those of prune, and of what is remembered for it.
LEMMA PruneTypesStep == RunInv /\ [Next]_allVars => PruneTypes'
<1> SUFFICES ASSUME RunInv, [Next]_allVars PROVE PruneTypes'
  OBVIOUS
<1>types. TypeOK /\ DockerTypes /\ PruneTypes /\ DockerTypes'
  BY TypeParts, DockerTypesStep DEF RunInv
<1>0. CASE UNCHANGED allVars
  BY <1>types, <1>0 DEF allVars, vars, pruneVars, history, PruneTypes
<1>1. CASE Next
  <2> DEFINE places == {"idle", "containers", "stopped", "volumes", "ok", "images", "okImages",
                        "failed"}
             stock  == Containers \cup Vols
  <2>1. prune' \in places /\ snap' \subseteq stock
    <3> USE <1>types DEF PruneTypes, PruneGoes, GivesUp
    <3>1. CASE UNCHANGED pruneVars
      BY <3>1 DEF pruneVars
    <3>2. CASE \/ ListContainers \/ Stopped \/ ListVolumes \/ ListInstalled \/ ImagesRemoved
               \/ PruneFails \/ RemoveNetwork
      BY <3>2 DEF ListContainers, Stopped, ListVolumes, ListInstalled, ImagesRemoved,
                  PruneFails, RemoveNetwork, DockerTypes
    <3>3. ASSUME NEW c \in Containers, RemoveContainer(c)
          PROVE  prune' \in places /\ snap' \subseteq stock
      BY <3>3 DEF RemoveContainer
    <3>4. ASSUME NEW v \in Vols, RemoveVolume(v)
          PROVE  prune' \in places /\ snap' \subseteq stock
      BY <3>4 DEF RemoveVolume
    <3>5. ASSUME NEW i \in 1..6, RemoveImage(i)
          PROVE  prune' \in places /\ snap' \subseteq stock
      BY <3>5 DEF RemoveImage
    <3> QED
      BY <1>1, <3>1, <3>2, <3>3, <3>4, <3>5 DEF Next, PruneStep, DaemonExits
  <2>2. before' \in Stock
    <3>1. Present \in Stock
      BY <1>types DEF Present, Stock, DockerTypes
    <3>2. before.containers \subseteq Containers /\ before.volumes \subseteq Vols
      BY <1>types DEF PruneTypes, Stock
    <3>3. Left \in Stock
      BY <3>2 DEF Left, Stock
    <3> QED
      BY <1>1, <3>1, <3>3 DEF Next, Remember
  <2>3. restarted' \in BOOLEAN
    BY <1>1 DEF Next, Remember
  <2> QED
    BY <2>1, <2>2, <2>3 DEF PruneTypes
<1> QED
  BY <1>0, <1>1

\* All types together.
LEMMA TypeStep == RunInv /\ [Next]_allVars => PruneTypeOK'
<1>1. DockerTypes' /\ ClientTypes' /\ PruneTypes' => PruneTypeOK'
  BY DEF DockerTypes, ClientTypes, PruneTypes, PruneTypeOK, TypeOK
<1> QED
  BY <1>1, ClientTypesStep, DockerTypesStep, PruneTypesStep

-----------------------------------------------------------------------------
(* Order. *)

\* For whom nothing changes, nothing has to be shown.
LEMMA SameFacts ==
  ASSUME RunInv, NEW q \in Clients, Same(q)
  PROVE  PairedAt(q)' /\ InOrderAt(q)'
<1>1. PairedAt(q) /\ InOrderAt(q)
  BY DEF RunInv, Paired, InOrder
<1>2. PairedAt(q)'
  BY <1>1 DEF PairedAt, Same, Handled
<1>3. InOrderAt(q)'
  BY <1>1 DEF InOrderAt, Same, Asked
<1> QED
  BY <1>2, <1>3

\* What a step does with p itself.
LEMMA GotoFacts ==
  ASSUME ClientTypes, NEW p \in Clients, NEW s, Goto(p, s)
  PROVE  /\ step'[p] = s /\ todo'[p] = todo[p] /\ pc'[p] = pc[p] /\ req'[p] = req[p]
         /\ gone'[p] = gone[p] /\ reply'[p] = reply[p]
  BY DEF ClientTypes, Goto, Set, client

LEMMA AnswerFacts ==
  ASSUME ClientTypes, NEW p \in Clients, NEW r, Answer(p, r)
  PROVE  /\ step'[p] = "none" /\ todo'[p] = <<>> /\ pc'[p] = pc[p] /\ req'[p] = req[p]
         /\ gone'[p] = FALSE /\ reply'[p] = IF gone[p] THEN "none" ELSE r
  BY DEF ClientTypes, Answer, Set, client

\* What clients are at, and what is done for them, agrees, whoever dies.
LEMMA PairedStep == RunInv /\ [Next]_allVars => Paired'
<1> SUFFICES ASSUME RunInv, [Next]_allVars PROVE Paired'
  OBVIOUS
<1>types. TypeOK /\ ClientTypes /\ Paired
  BY TypeParts DEF RunInv
<1>0. CASE UNCHANGED <<client, handler>>
  BY <1>0, SameFacts DEF Same, client, handler, Paired
<1>1. CASE DaemonGoes
  <2>1. ASSUME NEW q \in Clients PROVE PairedAt(q)'
    <3>1. PairedAt(q)
      BY <1>types DEF Paired
    <3>2. CASE Handled(q)
      <4>1. step[q] # "none"
        BY <3>2 DEF Handled
      <4>2. reply'[q] # "none" => pc[q] # "idle"
        BY <1>1, <3>1, <3>2, <4>1, DaemonGoesFacts DEF PairedAt
      <4> QED
        BY <1>1, <3>1, <3>2, <4>1, <4>2, DaemonGoesFacts DEF PairedAt, RunSteps
    <3>3. CASE ~ Handled(q)
      BY <1>1, <3>1, <3>3, DaemonGoesFacts DEF PairedAt, Handled, RunSteps, Steps
    <3> QED
      BY <3>2, <3>3
  <2> QED
    BY <2>1 DEF Paired
<1>2. ASSUME NEW p \in Clients, Starting(p) \/ Command(p), ~ DaemonGoes PROVE Paired'
  <2> SUFFICES PairedAt(p)'
    BY <1>types, <1>2, OthersStay, SameFacts DEF Paired
  <2>at. PairedAt(p)
    BY <1>types DEF Paired
  <2>goes. ASSUME NEW s \in RunSteps, step[p] \in RunSteps, Goto(p, s) PROVE PairedAt(p)'
    BY <1>types, <2>at, <2>goes, GotoFacts DEF PairedAt, Handled, RunSteps
  <2>answers. ASSUME NEW r \in {"port", "zero", "stopped", "error"},
                     step[p] # "none", Answer(p, r)
        PROVE  PairedAt(p)'
    BY <1>types, <2>at, <2>answers, AnswerFacts DEF PairedAt, Handled, RunSteps, Steps, ClientTypes
  <2>1. CASE VolumeInspect(p) \/ VolumeCreate(p) \/ IsRunning(p) \/ EnsureInstalled(p)
    BY <2>1, <2>goes, <2>answers DEF VolumeInspect, VolumeCreate, NoVolume, IsRunning,
                                     EnsureInstalled, Fails, At, RunSteps, Steps
  <2>2. CASE ForceRemove(p) \/ Create(p)
    BY <1>2, <2>2, <2>goes, <2>answers, ContainerTypes
       DEF ForceRemove, Create, Fails, At, RunSteps, Steps, DaemonGoes
  <2>3. CASE NetworkInspect(p) \/ NetworkCreate(p) \/ NetworkConnect(p) \/ Run(p)
    BY <2>3, <2>goes, <2>answers DEF NetworkInspect, NetworkCreate, NetworkConnect, Run, GiveUp,
                                     Fails, At, RunSteps, Steps
  <2>4. CASE StopComponent(p)
    BY <2>4, <2>answers DEF StopComponent, At
  <2>5. CASE Info(p)
    <3>1. CASE /\ step' = Set(step, p, "look") /\ todo' = Set(todo, p, Tail(todo[p]))
               /\ Len(todo[p]) > 1 /\ UNCHANGED <<client, gone, reply>>
      <4>1. Head(Tail(todo[p])) \in Components
        BY <2>5, <3>1, RestFacts DEF Info, At, RunInv, InOrder, InOrderAt, RunSteps, Steps
      <4>2. /\ step'[p] = "look" /\ step[p] = "info" /\ todo'[p] = Tail(todo[p])
            /\ UNCHANGED <<pc, req, gone, reply>>
        BY <1>types, <2>5, <3>1 DEF Info, At, Set, ClientTypes, client
      <4> QED
        BY <2>at, <4>1, <4>2 DEF PairedAt, Handled, RunSteps, Steps
    <3> QED
      BY <2>5, <3>1, <2>answers DEF Info, Fails, At
  <2>6. ASSUME NEW r \in Requests, Begin(p, r) PROVE PairedAt(p)'
    <3>1. /\ pc'[p] = "client" /\ req'[p] = r /\ step'[p] = "look" /\ step[p] = "none"
          /\ gone'[p] = gone[p] /\ reply'[p] = reply[p] /\ pc[p] = "idle"
      BY <1>types, <2>6 DEF Begin, Set, ClientTypes
    <3> QED
      BY <2>at, <3>1 DEF PairedAt
  <2>7. CASE Answered(p)
    <3>1. /\ pc[p] \notin {"idle", "open"} /\ step[p] = "none" /\ req[p] \in Requests
          /\ reply'[p] = "none" /\ gone'[p] = gone[p] /\ gone[p] = FALSE
      BY <1>types, <2>at, <2>7 DEF Answered, PairedAt, Set, ClientTypes
    <3>2. CASE pc[p] = "client" /\ pc' = Set(pc, p, IF GitbaseFirst(req[p]) THEN "gitbase" ELSE "start")
               /\ UNCHANGED req /\ \E c \in {"gitbase", req[p][2]} : Request(p, c)
      BY <1>types, <3>1, <3>2 DEF Request, Set, ClientTypes, PairedAt
    <3>3. CASE /\ pc' = Set(pc, p, "start") /\ UNCHANGED req
               /\ Request(p, req[p][2]) \/ step' = Set(step, p, "install")
      BY <1>types, <3>1, <3>3 DEF Request, Set, ClientTypes, PairedAt
    <3>4. CASE pc' = Set(pc, p, "open") /\ req[p][1] \in {"web", "sql"} /\ UNCHANGED <<req, step, todo>>
      BY <1>types, <3>1, <3>4 DEF Set, ClientTypes, PairedAt, RunSteps
    <3>5. CASE Done(p)
      BY <1>types, <3>1, <3>5 DEF Done, Set, ClientTypes, PairedAt, RunSteps
    <3> QED
      BY <2>7, <3>2, <3>3, <3>4, <3>5 DEF Answered
  <2>8. CASE Close(p)
    <3>1. pc'[p] = "stop" /\ req'[p] = req[p] /\ gone'[p] = gone[p] /\ pc[p] = "open"
      BY <1>types, <2>8 DEF Close, Set, ClientTypes
    <3>2. \/ step'[p] = "stop" /\ reply'[p] = reply[p]
          \/ step'[p] = step[p] /\ reply'[p] = "error"
      BY <1>types, <2>8 DEF Close, Set, ClientTypes
    <3> QED
      BY <2>at, <3>1, <3>2 DEF PairedAt, RunSteps
  <2>9. CASE ClientDies(p)
    <3>1. /\ pc'[p] = "idle" /\ reply'[p] = "none" /\ gone'[p] = Handled(p)
          /\ IF Handled(p) THEN step'[p] = step[p] /\ todo'[p] = todo[p] ELSE step'[p] = "none"
      BY <1>types, <2>9 DEF ClientDies, Set, ClientTypes
    <3> QED
      BY <3>1 DEF PairedAt, Handled, RunSteps
  <2> QED
    BY <1>2, <2>1, <2>2, <2>3, <2>4, <2>5, <2>6, <2>7, <2>8, <2>9 DEF Starting, Command
<1> QED
  BY <1>0, <1>1, <1>2, <1>types, PruneFrame DEF Next, RunNext, allVars, vars

\* A handler that goes on at the container it is at, and what it has seen only
\* grows.
LEMMA GotoInOrder ==
  ASSUME RunInv, NEW p \in Clients, NEW s \in RunSteps, step[p] \in RunSteps, Goto(p, s),
         UNCHANGED seen \/ Saw(p),
         s \in OnItsWay \cup {"info"} =>
           step[p] \in OnItsWay \cup {"info"} \/ Saw(p) \/ Head(todo[p]) = "mysql",
         s = "volume" => step[p] = "inspect", s # "inspect",
         s \in {"look", "info"} => Head(todo[p]) # "mysql",
         s = "run" => Head(todo[p]) = "mysql"
  PROVE  InOrderAt(p)'
<1>types. ClientTypes /\ InOrderAt(p) /\ PairedAt(p)
  BY TypeParts DEF RunInv, InOrder, Paired
<1>1. Head(todo[p]) \in Containers
  BY HeadFacts DEF RunSteps
<1>2. seen[p] \subseteq seen'[p] /\ (Saw(p) => Head(todo[p]) \in seen'[p])
  BY <1>types DEF ClientTypes, Saw
<1>3. /\ step'[p] = s /\ todo'[p] = todo[p] /\ pc'[p] = pc[p] /\ reply'[p] = "none"
      /\ Asked(p)' = Asked(p)
  BY <1>types, GotoFacts DEF PairedAt, RunSteps, Asked
<1> QED
  BY <1>types, <1>2, <1>3 DEF InOrderAt, RunSteps, OnItsWay

\* One that answers, with a port only at the end of its list.
LEMMA AnswerInOrder ==
  ASSUME RunInv, NEW p \in Clients, NEW r \in {"port", "zero", "stopped", "error"},
         step[p] # "none", Answer(p, r),
         \/ r # "port"
         \/ r = "port" /\ step[p] = "info" /\ Len(todo[p]) = 1 /\ Forget(p)
         \/ r = "port" /\ step[p] = "run" /\ Saw(p)
  PROVE  InOrderAt(p)'
<1>types. ClientTypes /\ InOrderAt(p) /\ PairedAt(p)
  BY TypeParts DEF RunInv, InOrder, Paired
<1>1. /\ step'[p] = "none" /\ pc'[p] = pc[p] /\ Asked(p)' = Asked(p)
      /\ reply'[p] = IF gone[p] THEN "none" ELSE r
  BY <1>types, AnswerFacts DEF Asked
<1>2. ASSUME ~ gone[p], r = "port" PROVE {Asked(p)} \cup Before[Asked(p)] \subseteq seen'[p]
  <2>1. pc[p] # "idle"
    BY <1>types, <1>2 DEF PairedAt
  <2>2. PICK c \in Containers :
          /\ todo[p] \in Rests[c] /\ c = Asked(p)
          /\ Before[Head(todo[p])] \subseteq seen[p]
          /\ step[p] = "info" => Head(todo[p]) \in seen[p]
          /\ step[p] = "run" => Head(todo[p]) = "mysql"
    BY <1>types, <1>2, <2>1 DEF InOrderAt, RunSteps, Steps
  <2>3. CASE step[p] = "info" /\ Len(todo[p]) = 1 /\ Forget(p)
    <3>1. Head(todo[p]) = c /\ seen' = seen
      BY <1>2, <2>2, <2>3, RestFacts DEF Forget
    <3> QED
      BY <2>2, <2>3, <3>1
  <2>4. CASE step[p] = "run" /\ Saw(p)
    <3>1. Head(todo[p]) = "mysql" /\ c = "mysql"
      BY <2>2, <2>4, RestFacts
    <3>2. "mysql" \in seen'[p]
      BY <1>types, <2>4, <3>1 DEF Saw, ClientTypes
    <3> QED
      BY <2>2, <3>1, <3>2, DependsFacts
  <2> QED
    BY <1>2, <2>3, <2>4
<1> QED
  BY <1>1, <1>2 DEF InOrderAt, RunSteps

\* A request begins in front of everything it needs.
LEMMA BeginInOrder ==
  ASSUME ClientTypes, NEW p \in Clients, NEW c \in Containers, Asked(p)' = c,
         reply'[p] = "none", todo'[p] \in Rests[c], Before[Head(todo'[p])] = {},
         \/ step'[p] \in {"inspect", "look"} /\ Head(todo'[p]) \in Components
         \/ step'[p] = "look" /\ Head(todo'[p]) = "daemon"
         \/ step'[p] = "install"
  PROVE  InOrderAt(p)'
  BY DependsFacts DEF InOrderAt, RunSteps, OnItsWay

\* Whatever happens, what is left to do is in order.
LEMMA InOrderStep == RunInv /\ [Next]_allVars => InOrder'
<1> SUFFICES ASSUME RunInv, [Next]_allVars PROVE InOrder'
  OBVIOUS
<1>types. TypeOK /\ ClientTypes /\ InOrder /\ Paired
  BY TypeParts DEF RunInv
<1>0. CASE UNCHANGED <<client, handler>>
  BY <1>0, SameFacts DEF Same, client, handler, InOrder
<1>1. CASE DaemonGoes
  <2>1. ASSUME NEW q \in Clients PROVE InOrderAt(q)'
    <3>1. InOrderAt(q) /\ PairedAt(q) /\ Asked(q)' = Asked(q)
      BY <1>types, <1>1, DaemonGoesFacts DEF Asked, InOrder, Paired
    <3>2. CASE Handled(q)
      <4>1. step'[q] = "none" /\ reply'[q] # "port"
        BY <1>1, <3>2, DaemonGoesFacts
      <4> QED
        BY <4>1 DEF InOrderAt, RunSteps
    <3>3. CASE ~ Handled(q)
      BY <1>1, <3>1, <3>3, DaemonGoesFacts DEF InOrderAt, RunSteps, Steps, OnItsWay
    <3> QED
      BY <3>2, <3>3
  <2> QED
    BY <2>1 DEF InOrder
<1>2. ASSUME NEW p \in Clients, Starting(p) \/ Command(p), ~ DaemonGoes PROVE InOrder'
  <2> SUFFICES InOrderAt(p)'
    BY <1>types, <1>2, OthersStay, SameFacts DEF InOrder
  <2>at. InOrderAt(p) /\ PairedAt(p)
    BY <1>types DEF InOrder, Paired
  <2>mysql. Head(todo[p]) \in Components => Head(todo[p]) # "mysql"
    BY DependsFacts
  <2>1. CASE VolumeInspect(p) \/ VolumeCreate(p)
    <3>1. step[p] \in {"inspect", "volume"} /\ Head(todo[p]) \in Components
      BY <2>at, <2>1 DEF VolumeInspect, VolumeCreate, At, InOrderAt
    <3> QED
      BY <2>1, <2>mysql, <3>1, GotoInOrder, AnswerInOrder
         DEF VolumeInspect, VolumeCreate, NoVolume, At, RunSteps, Steps, OnItsWay
  <2>2. CASE IsRunning(p)
    <3>1. Head(todo[p]) # "mysql"
      BY <2>at, <2>2 DEF IsRunning, At, InOrderAt
    <3> QED
      BY <2>2, <3>1, GotoInOrder, AnswerInOrder DEF IsRunning, Fails, At, RunSteps, Steps, OnItsWay
  <2>3. CASE EnsureInstalled(p)
    BY <2>3, GotoInOrder, AnswerInOrder DEF EnsureInstalled, Fails, At, RunSteps, Steps, OnItsWay
  <2>4. CASE ForceRemove(p)
    <3>1. Goto(p, "recreate") /\ UNCHANGED seen /\ step[p] = "create"
      BY <1>2, <2>4, ContainerTypes DEF ForceRemove, DaemonGoes, At
    <3> QED
      BY <3>1, GotoInOrder DEF RunSteps, Steps, OnItsWay
  <2>5. CASE Create(p)
    BY <2>5, GotoInOrder, AnswerInOrder DEF Create, Fails, RunSteps, Steps, OnItsWay
  <2>6. CASE NetworkInspect(p) \/ NetworkCreate(p)
    BY <2>6, GotoInOrder, AnswerInOrder DEF NetworkInspect, NetworkCreate, GiveUp, Fails, At,
                                            RunSteps, Steps, OnItsWay
  <2>7. CASE NetworkConnect(p)
    BY <2>7, GotoInOrder, AnswerInOrder DEF NetworkConnect, GiveUp, Fails, At, RunSteps, Steps,
                                            OnItsWay
  <2>8. CASE Run(p)
    BY <2>8, AnswerInOrder DEF Run, GiveUp, Fails, At
  <2>9. CASE StopComponent(p)
    BY <2>9, AnswerInOrder DEF StopComponent, At
  <2>10. CASE Info(p)
    <3>1. CASE /\ step' = Set(step, p, "look") /\ todo' = Set(todo, p, Tail(todo[p]))
               /\ Len(todo[p]) > 1 /\ UNCHANGED <<client, gone, reply, seen>>
      <4>1. PICK c \in Containers :
              /\ todo[p] \in Rests[c]
              /\ pc[p] # "idle" => c = Asked(p)
              /\ Before[Head(todo[p])] \subseteq seen[p]
              /\ Head(todo[p]) \in seen[p]
        BY <2>at, <2>10 DEF Info, At, InOrderAt, RunSteps, Steps
      <4>2. /\ Tail(todo[p]) \in Rests[c] /\ Before[Head(Tail(todo[p]))] \subseteq seen[p]
            /\ Head(Tail(todo[p])) # "mysql"
        <5>1. /\ Tail(todo[p]) \in Rests[c] /\ Head(Tail(todo[p])) \in Components
              /\ Before[Head(Tail(todo[p]))] \subseteq Before[Head(todo[p])] \cup {Head(todo[p])}
          BY <3>1, <4>1, RestFacts
        <5> QED
          BY <4>1, <5>1, DependsFacts
      <4>3. /\ step'[p] = "look" /\ todo'[p] = Tail(todo[p]) /\ Asked(p)' = Asked(p)
            /\ pc' = pc /\ seen' = seen
        BY <1>types, <3>1 DEF Set, ClientTypes, Asked, client
      <4>4. reply'[p] = "none"
        BY <2>at, <2>10, <3>1 DEF Info, At, PairedAt
      <4> QED
        BY <4>1, <4>2, <4>3, <4>4 DEF InOrderAt, OnItsWay
    <3>2. CASE Answer(p, "port") /\ Len(todo[p]) = 1 /\ Forget(p)
      BY <2>10, <3>2, AnswerInOrder DEF Info, At
    <3>3. CASE Fails(p)
      BY <2>10, <3>3, AnswerInOrder DEF Info, At, Fails
    <3> QED
      BY <2>10, <3>1, <3>2, <3>3 DEF Info
  <2>11. ASSUME NEW r \in Requests, Begin(p, r) PROVE InOrderAt(p)'
    <3>1. /\ pc'[p] = "client" /\ step'[p] = "look" /\ todo'[p] = <<"daemon">>
          /\ reply'[p] = "none"
      BY <1>types, <2>at, <2>11 DEF Begin, Set, ClientTypes, PairedAt
    <3>2. Asked(p)' = "daemon"
      BY <3>1 DEF Asked
    <3>3. /\ todo'[p] \in Rests["daemon"] /\ Head(todo'[p]) = "daemon"
          /\ Before[Head(todo'[p])] = {} /\ "daemon" \in Containers
      BY <3>1, DependsFacts
    <3> QED
      BY <1>types, <3>1, <3>2, <3>3, BeginInOrder
  <2>12. CASE Answered(p)
    <3>1. /\ step[p] = "none" /\ req[p] \in Requests /\ reply'[p] = "none" /\ pc[p] # "idle"
      BY <1>types, <2>at, <2>12 DEF Answered, PairedAt, Set, ClientTypes
    <3>2. ASSUME NEW c \in Components, Request(p, c), Asked(p)' = c PROVE InOrderAt(p)'
      <4>1. step'[p] \in {"inspect", "look"} /\ todo'[p] = RunOrder(c)
        BY <1>types, <3>2 DEF Request, Set, ClientTypes
      <4>2. /\ todo'[p] \in Rests[c] /\ Head(todo'[p]) \in Components
            /\ Before[Head(todo'[p])] = {} /\ c \in Containers
        BY <4>1, OrderFacts, DependsFacts
      <4> QED
        BY <1>types, <3>1, <3>2, <4>1, <4>2, BeginInOrder
    <3>3. CASE /\ pc[p] = "client" /\ req[p][1] # "logs" /\ UNCHANGED req
               /\ pc' = Set(pc, p, IF GitbaseFirst(req[p]) THEN "gitbase" ELSE "start")
               /\ Request(p, IF GitbaseFirst(req[p]) THEN "gitbase" ELSE req[p][2])
      <4> DEFINE c == IF GitbaseFirst(req[p]) THEN "gitbase" ELSE req[p][2]
      <4>1. c \in Components
        BY <3>1, <3>3, ComponentAssumption DEF GitbaseFirst, WebComponents, Components
      <4>2. Asked(p)' = c
        BY <1>types, <3>3 DEF Asked, Set, ClientTypes
      <4> HIDE DEF c
      <4> QED
        BY <3>2, <3>3, <4>1, <4>2 DEF c
    <3>4. CASE /\ pc' = Set(pc, p, "start") /\ UNCHANGED req /\ req[p][1] = "web"
               /\ Request(p, req[p][2])
      <4>1. req[p][2] \in Components
        BY <3>1, <3>4, AskedFacts
      <4>2. Asked(p)' = req[p][2]
        BY <1>types, <3>4 DEF Asked, Set, ClientTypes
      <4> QED
        BY <3>2, <3>4, <4>1, <4>2
    <3>5. CASE /\ pc' = Set(pc, p, "start") /\ UNCHANGED req /\ req[p][1] = "sql"
               /\ step' = Set(step, p, "install") /\ todo' = Set(todo, p, <<"mysql">>)
      <4>1. req[p][2] = "mysql"
        BY <3>1, <3>5, AskedFacts
      <4>2. Asked(p)' = "mysql" /\ step'[p] = "install" /\ todo'[p] = <<"mysql">>
        BY <1>types, <3>5, <4>1 DEF Asked, Set, ClientTypes
      <4>3. /\ todo'[p] \in Rests["mysql"] /\ Before[Head(todo'[p])] = {}
            /\ "mysql" \in Containers
        BY <4>2, DependsFacts
      <4> QED
        BY <1>types, <3>1, <4>2, <4>3, BeginInOrder
    <3>6. CASE UNCHANGED <<step, todo>>
      BY <3>1, <3>6 DEF InOrderAt, RunSteps
    <3> QED
      BY <2>12, <3>3, <3>4, <3>5, <3>6 DEF Answered, Done
  <2>13. CASE Close(p)
    <3>1. req[p][2] \in Containers \ {"daemon"}
      BY <2>at, <2>13, AskedFacts DEF Close, PairedAt
    <3>2. \/ step'[p] = "stop" /\ todo'[p] = <<req[p][2]>> /\ reply'[p] = reply[p]
          \/ step'[p] = "none" /\ reply'[p] = "error"
      BY <1>types, <2>at, <2>13 DEF Close, Set, ClientTypes, PairedAt
    <3>3. reply[p] = "none"
      BY <2>at, <2>13 DEF Close, PairedAt
    <3> QED
      BY <3>1, <3>2, <3>3 DEF InOrderAt, RunSteps
  <2>14. CASE ClientDies(p)
    <3>1. /\ pc'[p] = "idle" /\ reply'[p] = "none"
          /\ IF Handled(p) THEN step'[p] = step[p] /\ todo'[p] = todo[p] /\ seen'[p] = seen[p]
                           ELSE step'[p] = "none"
      BY <1>types, <2>14 DEF ClientDies, Set, ClientTypes
    <3> QED
      BY <2>at, <3>1 DEF InOrderAt, RunSteps
  <2> QED
    BY <1>2, <2>1, <2>2, <2>3, <2>4, <2>5, <2>6, <2>7, <2>8, <2>9, <2>10, <2>11, <2>12, <2>13,
       <2>14 DEF Starting, Command
<1> QED
  BY <1>0, <1>1, <1>2, <1>types, PruneFrame DEF Next, RunNext, allVars, vars

-----------------------------------------------------------------------------
(* Containers, and whoever connects them. *)

\* What a step of p leaves of the daemon, and whom it makes a handler.
LEMMA DaemonStays ==
  ASSUME RunInv, NEW p \in Clients, Starting(p) \/ Command(p), ~ DaemonGoes
  PROVE  /\ Up("daemon") => Up("daemon")'
         /\ Handled(p)' => Handled(p) \/ Up("daemon")
<1>types. TypeOK /\ ClientTypes /\ InOrderAt(p)
  BY TypeParts DEF RunInv, InOrder
<1>daemon. "daemon" \in Containers
  BY DependsFacts
<1>head. step[p] # "none" => Head(todo[p]) \in Containers
  BY HeadFacts
<1>goes. ASSUME NEW s, Goto(p, s), step[p] # "none" PROVE Handled(p)' => Handled(p)
  BY <1>types, <1>goes, GotoFacts DEF Handled
<1>answers. ASSUME NEW r, Answer(p, r) PROVE ~ Handled(p)'
  BY <1>types, <1>answers, AnswerFacts DEF Handled
<1> USE DEF Up
<1>1. CASE VolumeInspect(p) \/ VolumeCreate(p) \/ IsRunning(p) \/ EnsureInstalled(p)
  BY <1>1, <1>goes, <1>answers DEF VolumeInspect, VolumeCreate, NoVolume, IsRunning,
                                   EnsureInstalled, Fails, At, docker
<1>2. CASE ForceRemove(p)
  <2>1. /\ ctr' = Set(ctr, Head(todo[p]), NoContainer) /\ Head(todo[p]) # "daemon"
        /\ Goto(p, "recreate") /\ step[p] # "none"
    BY <1>2, ContainerTypes DEF ForceRemove, DaemonGoes, At
  <2> QED
    BY <1>types, <1>head, <1>daemon, <1>goes, <2>1, ContainerTypes, SetTypes
<1>3. CASE Create(p)
  <2>1. Head(todo[p]) \in Containers /\ step[p] # "none"
    BY <1>3, <1>head DEF Create
  <2>2. Handled(p)' => Handled(p)
    BY <1>3, <2>1, <1>goes, <1>answers DEF Create, Fails
  <2>3. Up("daemon") => Up("daemon")'
    BY <1>types, <1>3, <1>daemon, <2>1, MadeEffect, SetTypes DEF Exists
  <2> QED
    BY <2>2, <2>3
<1>4. CASE NetworkInspect(p) \/ NetworkCreate(p)
  <2>1. Handled(p)' => Handled(p)
    BY <1>4, <1>goes, <1>answers DEF NetworkInspect, NetworkCreate, GiveUp, Fails, At
  <2>2. Up("daemon") => Up("daemon")'
    BY <1>types, <1>4, <1>daemon, <1>head, GiveUpEffect DEF NetworkInspect, NetworkCreate, At, docker
  <2> QED
    BY <2>1, <2>2
<1>5. CASE NetworkConnect(p) \/ Run(p)
  <2>1. Head(todo[p]) \in Containers /\ step[p] # "none"
    BY <1>5, <1>head DEF NetworkConnect, Run, At
  <2>2. Handled(p)' => Handled(p)
    BY <1>5, <2>1, <1>goes, <1>answers DEF NetworkConnect, Run, GiveUp, Fails
  <2>3. Run(p) => Head(todo[p]) # "daemon"
    BY <1>types, DependsFacts DEF Run, At, InOrderAt
  <2>4. Up("daemon") => Up("daemon")'
    BY <1>types, <1>5, <1>daemon, <2>1, <2>3, ConnectEffect, GiveUpEffect, SetTypes
  <2> QED
    BY <2>2, <2>4
<1>6. CASE Info(p)
  <2>1. CASE step' = Set(step, p, "look") /\ todo' = Set(todo, p, Tail(todo[p])) /\ Len(todo[p]) > 1
    <3>1. Head(todo[p]) \in Components /\ step[p] # "none"
      BY <1>types, <1>6, <2>1, RestFacts DEF Info, At, InOrderAt, RunSteps, Steps
    <3> QED
      BY <1>6, <3>1 DEF Info, Handled, docker
  <2> QED
    BY <1>6, <2>1, <1>answers DEF Info, Fails, docker
<1>7. CASE StopComponent(p)
  <2>1. Head(todo[p]) \in Containers \ {"daemon"}
    BY <1>types, <1>7 DEF StopComponent, At, InOrderAt
  <2> QED
    BY <1>types, <1>7, <1>daemon, <1>answers, <2>1, ContainerTypes, SetTypes DEF StopComponent
<1>8. ASSUME NEW r \in Requests, Begin(p, r)
      PROVE  (Up("daemon") => Up("daemon")') /\ ~ Handled(p)'
  BY <1>types, <1>8, DependsFacts DEF Begin, Set, ClientTypes, Handled, docker
<1>9. CASE Answered(p)
  <2>1. \/ Up("daemon")
        \/ step' = Set(step, p, "install") /\ todo' = Set(todo, p, <<"mysql">>)
        \/ UNCHANGED <<step, todo>>
    BY <1>9 DEF Answered, Done
  <2>2. Handled(p)' => Handled(p) \/ Up("daemon")
    BY <1>types, <2>1, DependsFacts DEF Set, ClientTypes, Handled
  <2> QED
    BY <1>9, <2>2 DEF Answered, docker
<1>10. CASE Close(p)
  <2>1. req[p][1] = "sql" => req[p][2] = "mysql"
    BY <1>10, AskedFacts DEF Close
  <2>2. Handled(p)' => Handled(p) \/ Up("daemon")
    BY <1>types, <1>10, <2>1, DependsFacts DEF Close, Set, ClientTypes, Handled
  <2> QED
    BY <1>10, <2>2 DEF Close, docker
<1>11. CASE ClientDies(p)
  <2>1. Handled(p)' => Handled(p)
    BY <1>types, <1>11 DEF ClientDies, Set, ClientTypes, Handled
  <2> QED
    BY <1>types, <1>11, <1>daemon, <2>1, ClientDiesEffect
<1> QED
  BY <1>1, <1>2, <1>3, <1>4, <1>5, <1>6, <1>7, <1>8, <1>9, <1>10, <1>11 DEF Starting, Command

\* A step of prune that leaves the daemon moves no handler, and no container but
\* one that it removes and those that lose the network.
LEMMA PruneEffect ==
  ASSUME TypeOK, PruneStep \/ DaemonExits, ~ DaemonGoes, NEW e \in Containers
  PROVE  /\ UNCHANGED <<client, handler>>
         /\ \/ ctr'[e] = ctr[e]
            \/ e # "daemon" /\ ctr'[e] = NoContainer
            \/ ctr'[e].state = ctr[e].state /\ ctr'[e].by = Nil /\ ctr'[e].net = "cut"
<1>1. UNCHANGED <<client, handler>>
  BY PruneFrame
<1>2. CASE UNCHANGED ctr
  BY <1>1, <1>2
<1>3. ASSUME NEW c \in Containers, RemoveContainer(c)
      PROVE  ctr'[e] = ctr[e] \/ (e # "daemon" /\ ctr'[e] = NoContainer)
  <2>1. ctr' = ctr \/ (c # "daemon" /\ ctr' = Set(ctr, c, NoContainer))
    BY <1>3, ContainerTypes DEF RemoveContainer, DaemonEnds, DaemonGoes, vars, docker
  <2> QED
    BY <2>1, ContainerTypes, SetTypes
<1>4. CASE RemoveNetwork
  BY <1>1, <1>2, <1>4, UnpluggedEffect DEF RemoveNetwork
<1>5. CASE \/ ListContainers \/ Stopped \/ ListVolumes \/ ListInstalled \/ ImagesRemoved
           \/ PruneFails \/ (\E v \in Vols : RemoveVolume(v)) \/ (\E i \in 1..6 : RemoveImage(i))
  BY <1>2, <1>5 DEF ListContainers, Stopped, ListVolumes, ListInstalled, ImagesRemoved,
                    PruneFails, RemoveVolume, RemoveImage, vars, docker
<1> QED
  BY <1>1, <1>3, <1>4, <1>5, ExitGoes DEF PruneStep

\* Handlers end with the daemon, and only a daemon that runs starts them.
LEMMA NoHandlersStep == RunInv /\ NoHandlers /\ [Next]_allVars => NoHandlers'
<1> SUFFICES ASSUME RunInv, NoHandlers, [Next]_allVars, NEW q \in Clients, Handled(q)'
             PROVE  Up("daemon")'
  BY DEF NoHandlers
<1>types. TypeOK /\ "daemon" \in Containers
  BY TypeParts, DependsFacts DEF RunInv
<1>0. CASE UNCHANGED <<ctr, step, todo>>
  BY <1>0 DEF NoHandlers, Handled, Up
<1>1. CASE DaemonGoes
  BY <1>1, DaemonGoesFacts, DependsFacts DEF Handled
<1>2. ASSUME NEW p \in Clients, Starting(p) \/ Command(p), ~ DaemonGoes PROVE Up("daemon")'
  <2>1. q # p => Same(q)
    BY <1>types, <1>2, OthersStay
  <2>2. Handled(q) \/ Up("daemon")
    BY <1>2, <2>1, DaemonStays DEF Same, Handled
  <2> QED
    BY <1>2, <2>2, DaemonStays DEF NoHandlers
<1>3. CASE (PruneStep \/ DaemonExits) /\ ~ DaemonGoes
  <2>1. Handled(q)
    BY <1>types, <1>3, PruneEffect DEF Handled, handler
  <2> QED
    BY <1>types, <1>3, <2>1, PruneEffect DEF NoHandlers, Up
<1> QED
  BY <1>0, <1>1, <1>2, <1>3 DEF Next, RunNext, allVars, vars, docker, handler

\* Whoever connects a container leaves its way to it only when it is connected
\* or given up.
LEMMA OwnedStep == RunInv /\ Owned /\ [Next]_allVars => Owned'
<1> SUFFICES ASSUME RunInv, Owned, [Next]_allVars,
                    NEW c \in Containers, NEW q \in Clients, ctr'[c].by = q
             PROVE  step'[q] \in OnItsWay \cup {"run"} /\ Head(todo'[q]) = c
  BY DEF Owned
<1>types. TypeOK /\ ClientTypes /\ q # Nil
  BY TypeParts, ComponentAssumption DEF RunInv
<1>0. CASE UNCHANGED <<ctr, step, todo>>
  BY <1>0 DEF Owned
<1>1. CASE DaemonGoes
  <2>1. c \notin Components /\ ctr[c].by = q
    BY <1>types, <1>1, DaemonGoesEffect
  <2>2. step[q] \in OnItsWay \cup {"run"} /\ Head(todo[q]) = c /\ ~ Handled(q)
    BY <2>1 DEF Owned, Handled
  <2> QED
    BY <1>1, <2>2, DaemonGoesFacts DEF OnItsWay
<1>2. ASSUME NEW p \in Clients, Starting(p) \/ Command(p), ~ DaemonGoes
      PROVE  step'[q] \in OnItsWay \cup {"run"} /\ Head(todo'[q]) = c
  <2> DEFINE h == Head(todo[p])
  <2>head. step[p] # "none" => h \in Containers
    BY HeadFacts
  <2>others. ASSUME q # p, ctr[c].by = q
        PROVE  step'[q] \in OnItsWay \cup {"run"} /\ Head(todo'[q]) = c
    BY <1>types, <1>2, <2>others, OthersStay DEF Owned, Same
  <2>off. step[p] \notin OnItsWay \cup {"run"} => ctr[c].by # p
    BY DEF Owned
  <2>1. CASE \/ VolumeInspect(p) \/ VolumeCreate(p) \/ IsRunning(p) \/ EnsureInstalled(p)
             \/ Info(p)
    BY <2>1, <2>others, <2>off DEF VolumeInspect, VolumeCreate, IsRunning, EnsureInstalled, Info,
                                   At, docker, OnItsWay
  <2>2. CASE (\E r \in Requests : Begin(p, r)) \/ Answered(p) \/ Close(p)
    <3>1. step[p] = "none" /\ ctr' = ctr
      BY <2>2 DEF Begin, Answered, Close, docker, RunInv, Paired, PairedAt
    <3> QED
      BY <2>others, <2>off, <3>1 DEF OnItsWay
  <2>3. CASE ForceRemove(p) \/ StopComponent(p)
    <3>1. /\ ctr' = ctr \/ ctr' = Set(ctr, h, NoContainer)
          /\ step[p] \in {"create", "stop"} /\ h \in Containers
      BY <1>2, <2>3, <2>head, ContainerTypes DEF ForceRemove, StopComponent, DaemonGoes, At
    <3>2. ctr[c].by = q
      BY <1>types, <3>1, ContainerTypes, SetTypes
    <3> QED
      BY <2>others, <2>off, <3>1, <3>2 DEF OnItsWay
  <2>4. CASE Create(p)
    <3>1. step[p] \in {"create", "recreate"} /\ h \in Containers
      BY <2>4, <2>head DEF Create
    <3>2. CASE ctr' = ctr
      BY <2>others, <2>off, <3>1, <3>2 DEF OnItsWay
    <3>3. ASSUME NEW r \in Container, ctr' = Set(ctr, h, r),
                 (r.by = p /\ Goto(p, "network")) \/ r.by = Nil
          PROVE  step'[q] \in OnItsWay \cup {"run"} /\ Head(todo'[q]) = c
      <4>1. CASE c = h
        <5>1. q = p /\ Goto(p, "network")
          BY <1>types, <3>1, <3>3, <4>1, SetTypes
        <5> QED
          BY <1>types, <4>1, <5>1, GotoFacts DEF OnItsWay
      <4>2. CASE c # h
        BY <1>types, <3>1, <3>3, <4>2, <2>others, <2>off, SetTypes DEF OnItsWay
      <4> QED
        BY <4>1, <4>2
    <3> QED
      BY <1>types, <2>4, <3>1, <3>2, <3>3, MadeEffect
  <2>gives. ASSUME GiveUp(p), step[p] \in OnItsWay \cup {"run"}
        PROVE  step'[q] \in OnItsWay \cup {"run"} /\ Head(todo'[q]) = c
    <3>1. h \in Containers
      BY <2>head, <2>gives DEF OnItsWay
    <3>2. ctr[c].by = q
      BY <1>types, <2>gives, <3>1, GiveUpEffect
    <3>3. q # p
      <4>1. c = h => ctr'[c].by # p
        BY <1>types, <2>gives, <3>1, GiveUpEffect
      <4>2. ctr[c].by = p => c = h
        BY DEF Owned
      <4> QED
        BY <3>2, <4>1, <4>2
    <3> QED
      BY <2>others, <3>2, <3>3
  <2>5. CASE NetworkInspect(p) \/ NetworkCreate(p)
    <3>1. CASE UNCHANGED ctr /\ \E s \in OnItsWay : Goto(p, s)
      <4>1. q = p => step'[q] \in OnItsWay /\ Head(todo'[q]) = c
        BY <1>types, <3>1, GotoFacts DEF Owned
      <4> QED
        BY <2>others, <3>1, <4>1
    <3>2. CASE GiveUp(p)
      BY <2>5, <2>gives, <3>2 DEF NetworkInspect, NetworkCreate, At, OnItsWay
    <3> QED
      BY <2>5, <3>1, <3>2 DEF NetworkInspect, NetworkCreate, docker, OnItsWay
  <2>6. CASE NetworkConnect(p) \/ Run(p)
    <3>1. h \in Containers /\ step[p] \in OnItsWay \cup {"run"}
      BY <2>6, <2>head DEF NetworkConnect, Run, At, OnItsWay
    <3>2. ASSUME NEW r \in Container, ctr' = Set(ctr, h, r),
                 r.by = Nil \/ (r.by = p /\ Goto(p, "run"))
          PROVE  step'[q] \in OnItsWay \cup {"run"} /\ Head(todo'[q]) = c
      <4>1. CASE c = h
        <5>1. q = p /\ Goto(p, "run")
          BY <1>types, <3>1, <3>2, <4>1, SetTypes
        <5> QED
          BY <1>types, <4>1, <5>1, GotoFacts
      <4>2. CASE c # h
        <5>1. ctr[c].by = q /\ q # p
          BY <1>types, <3>1, <3>2, <4>2, SetTypes DEF Owned
        <5> QED
          BY <2>others, <5>1
      <4> QED
        BY <4>1, <4>2
    <3> QED
      BY <1>types, <2>6, <3>1, <3>2, <2>gives, ConnectEffect
  <2>7. CASE ClientDies(p)
    <3>1. ctr[c].by = q /\ (q = p => Handled(p))
      BY <1>types, <2>7, ClientDiesEffect
    <3>2. q = p => step'[q] = step[q] /\ todo'[q] = todo[q]
      BY <2>7, <3>1 DEF ClientDies
    <3> QED
      BY <2>others, <3>1, <3>2 DEF Owned
  <2> QED
    BY <1>2, <2>1, <2>2, <2>3, <2>4, <2>5, <2>6, <2>7 DEF Starting, Command
<1>3. CASE (PruneStep \/ DaemonExits) /\ ~ DaemonGoes
  <2>1. ctr[c].by = q
    BY <1>types, <1>3, PruneEffect, ContainerTypes
  <2> QED
    BY <1>types, <1>3, <2>1, PruneEffect DEF Owned, handler
<1> QED
  BY <1>0, <1>1, <1>2, <1>3 DEF Next, RunNext, allVars, vars, docker, handler

\* No step leaves a component but bblfshd running and unconnected, unless it was
\* refused.
LEMMA UnconnectedStep == RunInv /\ Owned /\ Unconnected /\ [Next]_allVars => Unconnected'
<1> SUFFICES ASSUME RunInv, Owned, Unconnected, [Next]_allVars,
                    NEW c \in Components \ {"bblfshd"}, ctr'[c].state = "up", ctr'[c].net = "off"
             PROVE  ctr'[c].by # Nil
  BY DEF Unconnected, Up
<1>types. TypeOK /\ c \in Containers /\ c # "daemon" /\ c # "mysql"
  BY TypeParts, DependsFacts DEF RunInv
<1>0. CASE ctr'[c] = ctr[c]
  BY <1>0 DEF Unconnected, Up
<1>1. CASE DaemonGoes
  BY <1>0, <1>1, <1>types, DaemonGoesEffect
<1>2. ASSUME NEW p \in Clients, Starting(p) \/ Command(p), ~ DaemonGoes PROVE ctr'[c].by # Nil
  <2> DEFINE h == Head(todo[p])
  <2>head. step[p] # "none" => h \in Containers
    BY HeadFacts
  <2>1. CASE ctr' = ctr
    BY <1>0, <2>1
  <2>2. CASE ForceRemove(p) \/ StopComponent(p)
    <3>1. ctr' = ctr \/ (ctr' = Set(ctr, h, NoContainer) /\ h \in Containers)
      BY <1>2, <2>2, <2>head, ContainerTypes DEF ForceRemove, StopComponent, DaemonGoes, At
    <3> QED
      BY <1>0, <1>types, <3>1, ContainerTypes, SetTypes
  <2>3. CASE Create(p)
    <3>1. h \in Containers
      BY <2>3, <2>head DEF Create
    <3>2. ASSUME NEW r \in Container, ctr' = Set(ctr, h, r), r.by = p \/ r.net = "cut"
          PROVE  ctr'[c].by # Nil
      <4>1. CASE c = h
        BY <1>types, <3>1, <3>2, <4>1, SetTypes, ComponentAssumption
      <4>2. CASE c # h
        BY <1>0, <1>types, <3>1, <3>2, <4>2, SetTypes
      <4> QED
        BY <4>1, <4>2
    <3> QED
      BY <1>types, <2>1, <2>3, <3>1, <3>2, MadeEffect
  <2>4. CASE GiveUp(p) /\ step[p] # "none"
    <3>1. Canceled(p) => h = "bblfshd"
      BY DEF Canceled
    <3> QED
      BY <1>0, <1>types, <2>head, <2>4, <3>1, GiveUpEffect
  <2>5. CASE NetworkConnect(p) \/ Run(p)
    <3>1. h \in Containers /\ step[p] # "none"
      BY <2>5, <2>head DEF NetworkConnect, Run, At
    <3>2. ASSUME NEW r \in Container, ctr' = Set(ctr, h, r), r.net = "on"
          PROVE  ctr'[c].by # Nil
      BY <1>0, <1>types, <3>1, <3>2, SetTypes
    <3> QED
      BY <1>types, <2>4, <2>5, <3>1, <3>2, ConnectEffect
  <2>6. CASE ClientDies(p)
    <3>1. ctr'[c] = ctr[c] \/ (~ Handled(p) /\ ctr[c].by = p)
      BY <1>types, <2>6, ClientDiesEffect
    <3>2. ctr[c].by = p => Handled(p)
      BY <1>types DEF Owned, Handled, OnItsWay
    <3> QED
      BY <1>0, <3>1, <3>2
  <2>7. CASE \/ VolumeInspect(p) \/ VolumeCreate(p) \/ IsRunning(p) \/ EnsureInstalled(p)
             \/ NetworkInspect(p) \/ NetworkCreate(p) \/ Info(p)
             \/ (\E r \in Requests : Begin(p, r)) \/ Answered(p) \/ Close(p)
    BY <2>1, <2>4, <2>7 DEF VolumeInspect, VolumeCreate, IsRunning, EnsureInstalled, Info, Begin,
                            NetworkInspect, NetworkCreate, Answered, Close, At, docker
  <2> QED
    BY <1>2, <2>2, <2>3, <2>5, <2>6, <2>7 DEF Starting, Command
<1>3. CASE (PruneStep \/ DaemonExits) /\ ~ DaemonGoes
  BY <1>0, <1>types, <1>3, PruneEffect, ContainerTypes
<1> QED
  BY <1>0, <1>1, <1>2, <1>3 DEF Next, RunNext, allVars, vars, docker

\* What a step can do to the state of a container: remove it, or make it with
\* its image, and gitbase with its volume.
LEMMA StateEffect ==
  ASSUME RunInv, [Next]_allVars, NEW c \in Components
  PROVE  \/ ctr'[c].state = ctr[c].state
         \/ ctr'[c].state = "none"
         \/ /\ c \in images /\ images' = images /\ vols \subseteq vols'
            /\ c = "gitbase" => IndexVol \in vols'
<1>types. TypeOK /\ c \in Containers /\ c # "daemon" /\ c # "mysql"
  BY TypeParts, DependsFacts DEF RunInv
<1>1. CASE DaemonGoes
  BY <1>1, <1>types, DaemonGoesEffect
<1>2. ASSUME NEW p \in Clients, Starting(p) \/ Command(p), ~ DaemonGoes
      PROVE  \/ ctr'[c].state = ctr[c].state
             \/ ctr'[c].state = "none"
             \/ /\ c \in images /\ images' = images /\ vols \subseteq vols'
                /\ c = "gitbase" => IndexVol \in vols'
  <2> DEFINE h == Head(todo[p])
  <2>head. step[p] # "none" => h \in Containers
    BY HeadFacts
  <2>2. CASE ForceRemove(p) \/ StopComponent(p)
    <3>1. ctr' = ctr \/ (ctr' = Set(ctr, h, NoContainer) /\ h \in Containers)
      BY <1>2, <2>2, <2>head, ContainerTypes DEF ForceRemove, StopComponent, DaemonGoes, At
    <3> QED
      BY <1>types, <3>1, ContainerTypes, SetTypes
  <2>3. CASE Create(p)
    <3>1. h \in Containers /\ images' = images
      BY <2>3, <2>head DEF Create
    <3>2. CASE c # h
      BY <1>types, <2>3, <3>1, <3>2, MadeEffect, SetTypes
    <3>3. CASE c = h
      BY <1>types, <2>3, <3>1, <3>3, MadeEffect DEF Mounted
    <3> QED
      BY <3>2, <3>3
  <2>4. CASE GiveUp(p) /\ step[p] # "none"
    BY <1>types, <2>head, <2>4, GiveUpEffect
  <2>5. CASE NetworkConnect(p) \/ Run(p)
    <3>1. h \in Containers /\ step[p] # "none" /\ (Run(p) => h = "mysql")
      BY <2>5, <2>head DEF NetworkConnect, Run, At, RunInv, InOrder, InOrderAt
    <3>2. CASE c # h
      BY <1>types, <2>4, <2>5, <3>1, <3>2, ConnectEffect, SetTypes
    <3>3. CASE c = h
      BY <1>types, <2>4, <2>5, <3>1, <3>3, ConnectEffect, SetTypes
    <3> QED
      BY <3>2, <3>3
  <2>6. CASE ClientDies(p)
    BY <1>types, <2>6, ClientDiesEffect
  <2>7. CASE \/ VolumeInspect(p) \/ VolumeCreate(p) \/ IsRunning(p) \/ EnsureInstalled(p)
             \/ NetworkInspect(p) \/ NetworkCreate(p) \/ Info(p)
             \/ (\E r \in Requests : Begin(p, r)) \/ Answered(p) \/ Close(p)
    BY <2>4, <2>7 DEF VolumeInspect, VolumeCreate, IsRunning, EnsureInstalled, Info, Begin,
                      NetworkInspect, NetworkCreate, Answered, Close, At, docker
  <2> QED
    BY <1>2, <2>2, <2>3, <2>5, <2>6, <2>7 DEF Starting, Command
<1>3. CASE (PruneStep \/ DaemonExits) /\ ~ DaemonGoes
  BY <1>types, <1>3, PruneEffect, ContainerTypes
<1>4. CASE UNCHANGED allVars
  BY <1>4 DEF allVars, vars, docker
<1> QED
  BY <1>1, <1>2, <1>3, <1>4 DEF Next, RunNext

\* What is taken away is not needed: an image of a container that runs, a volume
\* that gitbase mounts.
LEMMA NeededStays ==
  ASSUME RunInv, [Next]_allVars
  PROVE  /\ \A c \in Components : Up(c) /\ c \in images => c \in images'
         /\ Exists("gitbase") /\ IndexVol \in vols => IndexVol \in vols'
<1>types. TypeOK /\ (\A p \in Clients : step[p] # "none" => Head(todo[p]) \in Containers)
  BY TypeParts, HeadFacts DEF RunInv
<1>0. CASE UNCHANGED <<vols, images>>
  BY <1>0
<1>1. CASE DaemonGoes
  BY <1>0, <1>1, <1>types, DaemonGoesEffect, DependsFacts
<1>2. ASSUME NEW p \in Clients, Starting(p) \/ Command(p), ~ DaemonGoes
      PROVE  vols \subseteq vols' /\ images \subseteq images'
  <2>1. CASE Create(p)
    <3>1. Head(todo[p]) \in Containers /\ images' = images
      BY <2>1, <1>types DEF Create
    <3> QED
      BY <1>types, <2>1, <3>1, MadeEffect DEF Mounted
  <2>2. CASE VolumeCreate(p) \/ EnsureInstalled(p)
    BY <2>2 DEF VolumeCreate, EnsureInstalled
  <2>3. CASE ForceRemove(p)
    BY <1>2, <2>3, ContainerTypes DEF ForceRemove, DaemonGoes, At
  <2>4. CASE \/ VolumeInspect(p) \/ IsRunning(p) \/ NetworkInspect(p) \/ NetworkCreate(p)
             \/ NetworkConnect(p) \/ Run(p) \/ Info(p) \/ StopComponent(p)
             \/ (\E r \in Requests : Begin(p, r)) \/ Answered(p) \/ Close(p) \/ ClientDies(p)
    BY <2>4 DEF VolumeInspect, IsRunning, NetworkInspect, NetworkCreate, NetworkConnect, Run,
                Info, StopComponent, Begin, Answered, Close, ClientDies, docker
  <2> QED
    BY <1>2, <2>1, <2>2, <2>3, <2>4 DEF Starting, Command
<1>3. ASSUME NEW v \in Vols, RemoveVolume(v)
      PROVE  images' = images /\ (Exists("gitbase") /\ IndexVol \in vols => IndexVol \in vols')
  BY <1>3 DEF RemoveVolume, InUse
<1>4. ASSUME NEW i \in 1..6, RemoveImage(i)
      PROVE  vols' = vols /\ \A c \in Components : Up(c) /\ c \in images => c \in images'
  BY <1>4 DEF RemoveImage
<1>5. CASE \/ ListContainers \/ Stopped \/ ListVolumes \/ ListInstalled \/ ImagesRemoved
           \/ PruneFails \/ RemoveNetwork \/ DaemonExits \/ (\E c \in Containers : RemoveContainer(c))
  <2>1. CASE DaemonExits
    BY <1>1, <1>types, <2>1, ExitGoes
  <2>2. ASSUME NEW c \in Containers, RemoveContainer(c) PROVE UNCHANGED <<vols, images>>
    BY <2>2 DEF RemoveContainer, DaemonEnds, DaemonBecomes, vars, docker
  <2> QED
    BY <1>0, <1>5, <2>1, <2>2 DEF ListContainers, Stopped, ListVolumes, ListInstalled,
                            ImagesRemoved, PruneFails, RemoveNetwork, vars, docker
<1> QED
  BY <1>0, <1>1, <1>2, <1>3, <1>4, <1>5 DEF Next, RunNext, PruneStep, allVars, vars, docker

\* What runs keeps its image, and gitbase its volume.
LEMMA HoldsStep == RunInv /\ Holds /\ [Next]_allVars => Holds'
<1> SUFFICES ASSUME RunInv, Holds, [Next]_allVars PROVE Holds'
  OBVIOUS
<1>1. ASSUME NEW c \in Components, ctr'[c].state = "up" PROVE c \in images'
  <2>1. CASE ctr[c].state = "up"
    BY <2>1, NeededStays DEF Holds, Up
  <2>2. CASE ctr[c].state # "up"
    BY <1>1, <2>2, StateEffect
  <2> QED
    BY <2>1, <2>2
<1>2. ASSUME ctr'["gitbase"].state # "none" PROVE IndexVol \in vols'
  <2>1. CASE ctr["gitbase"].state # "none"
    BY <2>1, NeededStays DEF Holds, Exists
  <2>2. CASE ctr["gitbase"].state = "none"
    BY <1>2, <2>2, StateEffect, DependsFacts
  <2> QED
    BY <2>1, <2>2
<1> QED
  BY <1>1, <1>2 DEF Holds, Up, Exists

-----------------------------------------------------------------------------
(* What prune finds and leaves. *)

\* What prune met only goes away, and each part ends with what it listed gone.
LEMMA ClearedStep == RunInv /\ Cleared /\ [Next]_allVars => Cleared'
<1> SUFFICES ASSUME RunInv, Cleared, [Next]_allVars PROVE Cleared'
  OBVIOUS
<1>types. TypeOK /\ PruneTypes /\ before \in Stock
  BY TypeParts DEF RunInv, PruneTypes
<1>0. CASE UNCHANGED allVars
  BY <1>0 DEF Cleared, allVars, pruneVars, history
<1>1. CASE Next
  <2>left. prune # "idle" =>
             /\ before'.containers = {c \in before.containers : Exists(c)'}
             /\ before'.volumes = before.volumes \cap vols'
             /\ before'.network = (before.network /\ net' > 0)
    BY <1>1 DEF Next, Remember, Left
  <2>0. CASE UNCHANGED prune /\ snap \subseteq snap'
    <3>1. CASE prune = "idle"
      BY <2>0, <3>1 DEF Cleared, Succeeded
    <3>2. CASE prune # "idle"
      BY <2>0, <2>left, <3>2 DEF Cleared, Succeeded
    <3> QED
      BY <3>1, <3>2
  <2>1. CASE ListContainers
    <3>1. before' = Present /\ snap' = {c \in Containers : Exists(c)} /\ prune' = "containers"
      BY <1>1, <2>1 DEF Next, Remember, ListContainers, PruneGoes
    <3> QED
      BY <3>1 DEF Cleared, Present, Succeeded
  <2>2. ASSUME NEW c \in Containers, RemoveContainer(c) PROVE Cleared'
    <3>1. CASE prune' = "failed"
      BY <3>1 DEF Cleared, Succeeded
    <3>2. CASE prune' # "failed"
      <4>1. /\ prune = "containers" /\ prune' = prune /\ snap' = snap \ {c}
            /\ ctr' = Set(ctr, c, NoContainer) \/ (c = "daemon" /\ DaemonBecomes(NoContainer))
        BY <2>2, <3>2 DEF RemoveContainer, DaemonEnds, GivesUp
      <4>2. ctr'[c] = NoContainer
        BY <1>types, <4>1, ContainerTypes, SetTypes DEF DaemonBecomes
      <4> QED
        BY <2>left, <4>1, <4>2, ContainerTypes DEF Cleared, Succeeded, Exists
    <3> QED
      BY <3>1, <3>2
  <2>3. CASE ListVolumes
    BY <2>left, <2>3 DEF ListVolumes, PruneGoes, Cleared, Succeeded, vars, docker
  <2>4. ASSUME NEW v \in Vols, RemoveVolume(v) PROVE Cleared'
    BY <2>left, <2>4 DEF RemoveVolume, GivesUp, Cleared, Succeeded
  <2>5. CASE RemoveNetwork
    <3>1. prune = "volumes" /\ snap = {} /\ prune' \in {"ok", "failed"}
      BY <2>5 DEF RemoveNetwork
    <3>2. prune' = "ok" => ~ (net' > 0)
      BY <2>5 DEF RemoveNetwork
    <3>3. before'.containers = {} /\ before'.volumes = {}
      BY <2>left, <3>1 DEF Cleared
    <3>4. prune' = "ok" => ~ before'.network
      BY <2>left, <3>1, <3>2
    <3> QED
      BY <3>1, <3>3, <3>4 DEF Cleared, Succeeded
  <2>6. CASE ListInstalled \/ ImagesRemoved \/ \E i \in 1..6 : RemoveImage(i)
    BY <2>left, <2>6 DEF ListInstalled, ImagesRemoved, RemoveImage, PruneGoes, GivesUp,
                         Cleared, Succeeded
  <2>7. CASE Stopped \/ PruneFails
    BY <2>7 DEF Stopped, PruneFails, PruneGoes, GivesUp, Cleared, Succeeded
  <2> QED
    BY <1>1, <2>0, <2>1, <2>2, <2>3, <2>4, <2>5, <2>6, <2>7 DEF Next, PruneStep, DaemonExits,
                                                                pruneVars
<1> QED
  BY <1>0, <1>1

\* With no daemon there are no handlers, and the CLI makes and uses nothing that
\* belongs to a component.
LEMMA NothingMade ==
  ASSUME RunInv, NoHandlers, Owned, ~ Up("daemon"),
         NEW p \in Clients, Starting(p) \/ Command(p), NEW c \in Components
  PROVE  /\ vols' = vols /\ images' \cap Components = images \cap Components
         /\ ctr'[c].net \in {ctr[c].net, "cut"}
<1>types. TypeOK /\ InOrderAt(p) /\ c \in Containers /\ c \notin {"daemon", "mysql"}
  BY TypeParts, DependsFacts DEF RunInv, InOrder
<1> DEFINE h == Head(todo[p])
<1>head. step[p] # "none" => h \in Containers \ Components
  BY HeadFacts DEF NoHandlers, Handled
<1>0. CASE UNCHANGED docker
  BY <1>0 DEF docker
<1>1. CASE DaemonGoes
  BY <1>1, <1>types, DaemonGoesEffect
<1>2. CASE VolumeInspect(p) \/ VolumeCreate(p)
  BY <1>types, <1>2, <1>head DEF VolumeInspect, VolumeCreate, At, InOrderAt
<1>3. CASE EnsureInstalled(p)
  BY <1>3, <1>head DEF EnsureInstalled, At
<1>4. CASE (ForceRemove(p) \/ StopComponent(p)) /\ ~ DaemonGoes
  <2>1. /\ ctr' = ctr \/ ctr' = Set(ctr, h, NoContainer)
        /\ UNCHANGED <<vols, images>> /\ step[p] # "none"
    BY <1>4, ContainerTypes DEF ForceRemove, StopComponent, DaemonGoes, At
  <2> QED
    BY <1>types, <1>head, <2>1, ContainerTypes, SetTypes
<1>5. CASE Create(p)
  <2>1. h \in Containers \ Components /\ images' = images
    BY <1>5, <1>head DEF Create
  <2>2. h # "gitbase"
    BY <2>1, DependsFacts
  <2>3. vols' = vols /\ ctr'[c] = ctr[c]
    BY <1>types, <1>5, <2>1, <2>2, MadeEffect, SetTypes DEF Mounted
  <2> QED
    BY <2>1, <2>3
<1>6. CASE NetworkCreate(p)
  <2>1. h \in Containers \ Components /\ UNCHANGED <<vols, images>>
    BY <1>6, <1>head DEF NetworkCreate, At
  <2> QED
    BY <1>types, <1>6, <2>1, GiveUpEffect DEF NetworkCreate
<1>7. CASE NetworkConnect(p) \/ Run(p)
  <2>1. h \in Containers \ Components /\ UNCHANGED <<vols, images>>
    BY <1>7, <1>head DEF NetworkConnect, Run, At
  <2>2. ctr'[c] = ctr[c]
    BY <1>types, <1>7, <2>1, GiveUpEffect, ConnectEffect, SetTypes
  <2> QED
    BY <2>1, <2>2
<1>8. CASE ClientDies(p)
  BY <1>types, <1>8, ClientDiesEffect DEF ClientDies
<1>9. CASE \/ IsRunning(p) \/ NetworkInspect(p) \/ Info(p)
           \/ (\E r \in Requests : Begin(p, r)) \/ Answered(p) \/ Close(p)
  BY <1>0, <1>9 DEF IsRunning, NetworkInspect, Info, Begin, Answered, Close
<1> QED
  BY <1>1, <1>2, <1>3, <1>4, <1>5, <1>6, <1>7, <1>8, <1>9 DEF Starting, Command

\* Unless a daemon is started again, nothing comes behind what prune has listed.
LEMMA OrphanedStep ==
  RunInv /\ NoHandlers /\ Owned /\ Orphaned /\ [Next]_allVars => Orphaned'
<1> SUFFICES ASSUME RunInv, NoHandlers, Owned, Orphaned, [Next]_allVars PROVE Orphaned'
  OBVIOUS
<1>types. TypeOK /\ DockerTypes /\ PruneTypes
  BY TypeParts DEF RunInv
<1>0. CASE UNCHANGED allVars
  BY <1>0 DEF Orphaned, Up, allVars, vars, docker, pruneVars, history
<1>1. CASE Next
  <2> SUFFICES ASSUME ~ restarted' PROVE Orphaned'
    BY DEF Orphaned
  <2>1. prune' # "idle" /\ (prune' = "containers" => "daemon" \notin snap') =>
          ~ restarted /\ ~ Up("daemon")'
    BY <1>1 DEF Next, Remember
  <2>2. CASE prune' \notin {"volumes"} \cup Succeeded
    BY <2>1, <2>2 DEF Orphaned, Succeeded, Up
  <2>3. CASE prune' \in {"volumes"} \cup Succeeded
    <3>1. ~ restarted /\ ctr'["daemon"].state # "up"
      BY <2>1, <2>3 DEF Succeeded, Up
    <3> SUFFICES /\ prune' = "volumes" => vols' \subseteq snap'
                 /\ prune' \in Succeeded =>
                      vols' = {} /\ \A c \in Components : ctr'[c].net # "on"
                 /\ prune' = "images" => images' \cap Components \subseteq snap'
                 /\ prune' = "okImages" => images' \cap Components = {}
      BY <3>1 DEF Orphaned, Up
    <3>2. CASE UNCHANGED pruneVars /\ \E p \in Clients : Starting(p) \/ Command(p)
      <4>1. ~ Up("daemon") /\ UNCHANGED <<prune, snap>>
        BY <2>3, <3>1, <3>2 DEF Orphaned, Succeeded, pruneVars
      <4>2. PICK p \in Clients : Starting(p) \/ Command(p)
        BY <3>2
      <4>3. vols' = vols /\ images' \cap Components = images \cap Components
        BY <4>1, <4>2, NothingMade, DependsFacts
      <4>4. \A c \in Components : ctr'[c].net \in {ctr[c].net, "cut"}
        BY <4>1, <4>2, NothingMade
      <4> QED
        BY <3>1, <4>1, <4>3, <4>4 DEF Orphaned
    <3>3. CASE DaemonExits
      BY <2>3, <3>1, <3>3 DEF Orphaned, DaemonExits, Succeeded, pruneVars
    <3>4. CASE ListVolumes
      BY <3>4 DEF ListVolumes, PruneGoes, Succeeded, vars, docker
    <3>5. ASSUME NEW v \in Vols, RemoveVolume(v)
          PROVE  prune' = "failed" \/ (prune' = "volumes" /\ vols' \subseteq snap')
      BY <3>1, <3>5 DEF RemoveVolume, GivesUp, Orphaned
    <3>6. CASE RemoveNetwork
      <4>1. prune' # "volumes" /\ prune' # "images" /\ prune' # "okImages"
        BY <3>6 DEF RemoveNetwork
      <4>2. CASE prune' = "ok"
        <5>1. vols \subseteq {} /\ vols' = vols /\ ctr' = Unplugged
          BY <3>1, <3>6, <4>2 DEF RemoveNetwork, Orphaned
        <5>2. \A c \in Components : ctr'[c].net # "on"
          BY <1>types, <5>1, UnpluggedEffect, DependsFacts
        <5> QED
          BY <4>1, <5>1, <5>2
      <4> QED
        BY <3>6, <4>1, <4>2 DEF RemoveNetwork, Succeeded
    <3>7. CASE ListInstalled \/ ImagesRemoved
      BY <3>1, <3>7 DEF ListInstalled, ImagesRemoved, PruneGoes, Orphaned, Succeeded, vars, docker
    <3>8. ASSUME NEW i \in 1..6, RemoveImage(i)
          PROVE  \/ prune' = "failed"
                 \/ /\ prune' = "images" /\ vols' = {}
                    /\ \A c \in Components : ctr'[c].net # "on"
                    /\ images' \cap Components \subseteq snap'
      BY <3>1, <3>8 DEF RemoveImage, GivesUp, Orphaned, Succeeded
    <3>9. CASE \/ ListContainers \/ Stopped \/ PruneFails
               \/ \E c \in Containers : RemoveContainer(c)
      BY <2>3, <3>9 DEF ListContainers, Stopped, PruneFails, RemoveContainer, PruneGoes, GivesUp,
                        Succeeded
    <3> QED
      BY <1>1, <2>3, <3>2, <3>3, <3>4, <3>5, <3>6, <3>7, <3>8, <3>9 DEF Next, RunNext, PruneStep,
         Succeeded
  <2> QED
    BY <2>2, <2>3
<1> QED
  BY <1>0, <1>1

-----------------------------------------------------------------------------
(* The theorems. *)

\* The invariant holds before any command.
LEMMA InitInv == PruneInit => PruneInv
<1> SUFFICES ASSUME PruneInit PROVE PruneInv
  OBVIOUS
<1> USE ContainerTypes, ComponentAssumption, DependsFacts DEF PruneInit, Init
<1>1. DockerTypes
  BY DEF DockerTypes
<1>2. ClientTypes
  BY DEF ClientTypes, Steps
<1>3. PruneTypes
  BY DEF PruneTypes, Stock, Nothing
<1>4. Paired /\ InOrder
  BY DEF Paired, PairedAt, InOrder, InOrderAt, RunSteps, OnItsWay, Handled
<1>5. NoHandlers
  BY DEF NoHandlers, Handled
<1>6. Owned /\ Unconnected /\ Holds
  BY DEF Owned, Unconnected, Holds, Up, Exists
<1>7. Cleared
  BY DEF Cleared, Succeeded
<1>8. Orphaned
  BY DEF Orphaned, Succeeded
<1> QED
  BY <1>1, <1>2, <1>3, <1>4, <1>5, <1>6, <1>7, <1>8, TypeParts DEF PruneInv, RunInv

\* And always.
LEMMA PruneInvariant == Spec => []PruneInv
<1>1. PruneInv /\ [Next]_allVars => PruneInv'
  BY TypeStep, PairedStep, InOrderStep, NoHandlersStep, OwnedStep, UnconnectedStep, HoldsStep,
     ClearedStep, OrphanedStep DEF PruneInv, RunInv
<1> QED
  BY InitInv, <1>1, PTL DEF Spec

\* Types of clients, handlers, Docker and prune, for any number of clients.
THEOREM TypeCorrect == Spec => []PruneTypeOK
<1>1. PruneInv => PruneTypeOK
  BY DEF PruneInv, RunInv
<1> QED
  BY <1>1, PruneInvariant, PTL

\* run (cmd/srcd-server/engine) starts nothing before what it depends on,
\* whatever others stop, replace and remove meanwhile.
THEOREM DependenciesFirstAlways == Spec => []DependenciesFirst
<1>1. ASSUME PruneInv PROVE DependenciesFirst
  <2>1. RunInv
    BY <1>1 DEF PruneInv
  <2>2. ASSUME NEW p \in Clients, step[p] \in {"create", "recreate"} \cup OnItsWay
        PROVE  DependsOn[Head(todo[p])] \subseteq seen[p]
    <3>1. Before[Head(todo[p])] \subseteq seen[p]
      BY <2>1, <2>2 DEF RunInv, InOrder, InOrderAt, RunSteps, Steps, OnItsWay
    <3>2. Head(todo[p]) \in Containers
      BY <2>1, <2>2, HeadFacts DEF OnItsWay
    <3> QED
      BY <3>1, <3>2, DependsFacts
  <2>3. ASSUME NEW p \in Clients, reply[p] = "port"
        PROVE  {Asked(p)} \cup DependsOn[Asked(p)] \subseteq seen[p]
    <3>1. pc[p] # "idle" /\ {Asked(p)} \cup Before[Asked(p)] \subseteq seen[p]
      BY <2>1, <2>3 DEF RunInv, Paired, PairedAt, InOrder, InOrderAt
    <3>2. Asked(p) \in Containers
      BY <2>1, <3>1, AskedFacts
    <3> QED
      BY <3>1, <3>2, DependsFacts
  <2> QED
    BY <2>2, <2>3 DEF DependenciesFirst
<1> QED
  BY <1>1, PruneInvariant, PTL

\* Whatever clients die and daemons end: a component that runs unconnected, and
\* was not refused, is being connected, except bblfshd.
THEOREM OnlyBblfshdStraysAlways == Spec => []OnlyBblfshdStrays
<1>1. ASSUME PruneInv PROVE OnlyBblfshdStrays
  <2> SUFFICES ASSUME NEW c \in Components \ {"bblfshd"}, Up(c), ctr[c].net = "off"
               PROVE  \E p \in Clients : ctr[c].by = p /\ step[p] \in OnItsWay /\ Head(todo[p]) = c
    BY DEF OnlyBblfshdStrays
  <2>1. c \in Containers /\ c # "mysql"
    BY DependsFacts
  <2>2. ctr[c].by \in Clients
    BY <1>1, <2>1, ContainerParts, TypeParts DEF PruneInv, RunInv, Unconnected
  <2>3. step[ctr[c].by] \in OnItsWay \cup {"run"} /\ Head(todo[ctr[c].by]) = c
    BY <1>1, <2>1, <2>2 DEF PruneInv, Owned
  <2>4. step[ctr[c].by] # "run"
    BY <1>1, <2>1, <2>2, <2>3 DEF PruneInv, RunInv, InOrder, InOrderAt
  <2> QED
    BY <2>2, <2>3, <2>4
<1> QED
  BY <1>1, PruneInvariant, PTL

\* A prune that succeeds has removed all that it met, whoever starts the daemon
\* and its components again meanwhile; and if nobody does, what handlers made
\* behind its listing too, but for containers that were never connected.
THEOREM PruneIsThoroughAlways == Spec => []PruneIsThorough
<1>1. ASSUME PruneInv PROVE PruneIsThorough
  <2> SUFFICES ASSUME prune \in Succeeded
               PROVE  /\ before = Nothing
                      /\ ~ restarted =>
                           /\ vols = {}
                           /\ \A c \in Components :
                                /\ Exists(c) => c # "gitbase" /\ ctr[c].net # "on"
                                /\ prune = "okImages" => ~ Up(c) /\ c \notin images
    BY DEF PruneIsThorough, Succeeded
  <2>1. before = Nothing
    <3>1. before \in Stock
      BY <1>1, TypeParts DEF PruneInv, RunInv, PruneTypes
    <3>2. before.containers = {} /\ before.volumes = {} /\ before.network = FALSE
      BY <1>1, <3>1 DEF PruneInv, Cleared, Stock
    <3> QED
      BY <3>1, <3>2 DEF Stock, Nothing
  <2>2. ASSUME ~ restarted
        PROVE  /\ vols = {}
               /\ \A c \in Components :
                    /\ Exists(c) => c # "gitbase" /\ ctr[c].net # "on"
                    /\ prune = "okImages" => ~ Up(c) /\ c \notin images
    <3>1. vols = {} /\ \A c \in Components : ctr[c].net # "on"
      BY <1>1, <2>2 DEF PruneInv, Orphaned
    <3>2. ~ Exists("gitbase") /\ \A c \in Components : Up(c) => c \in images
      BY <1>1, <3>1 DEF PruneInv, Holds
    <3>3. prune = "okImages" => images \cap Components = {}
      BY <1>1, <2>2 DEF PruneInv, Orphaned
    <3> QED
      BY <3>1, <3>2, <3>3
  <2> QED
    BY <2>1, <2>2
<1> QED
  BY <1>1, PruneInvariant, PTL
=============================================================================
