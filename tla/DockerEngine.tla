---------------------------- MODULE DockerEngine ----------------------------
(***************************************************************************)
(* The Docker engine as the rest of the system sees it through the client  *)
(* library: containers, the networks called srcd-cli-network and the       *)
(* images present on the host.  The engine is not part of the repository:  *)
(* each operator below is one API call, modelled from how docker/docker.go *)
(* uses it.  An operator changes the engine's variables only; whoever      *)
(* makes the call owns the rest of the step.                               *)
(***************************************************************************)
EXTENDS FiniteSets

CONSTANTS
  Names,   \* container names, one per component (srcd-cli-gitbase, ...)
  Ids,     \* container ids
  Nets,    \* ids of networks that carry the name srcd-cli-network
  Confs,   \* configurations a container is created with (port, workdir, ...)
  Nil      \* "none of these"

ASSUME EngineAssumption == Nil \notin Names \cup Ids \cup Nets \cup Confs

VARIABLES
  ctr,     \* ctr[i]: the container with id i, Absent when there is none
  nets,    \* the networks that exist
  images   \* the names whose image is installed

engine == <<ctr, nets, images>>

Container == [name  : Names \cup {Nil},
              state : {"absent", "created", "running", "exited"},
              conf  : Confs \cup {Nil},
              net   : Nets \cup {Nil}]

Absent == [name |-> Nil, state |-> "absent", conf |-> Nil, net |-> Nil]

EngineTypeOK ==
  /\ ctr \in [Ids -> Container]
  /\ nets \in SUBSET Nets
  /\ images \in SUBSET Names

EngineInit ==
  /\ ctr = [i \in Ids |-> Absent]
  /\ nets = {}
  /\ images = {}

-----------------------------------------------------------------------------
(* What a ContainerList shows. *)

Exists(i) == i \in Ids /\ ctr[i].state # "absent"

Named(n) == {i \in Ids : ctr[i].state # "absent" /\ ctr[i].name = n}

IsUp(i) == ctr[i].state = "running"

\* The container of a name, as ComponentSlot sees it.
slotOf ==
  [n \in Names |->
     IF Named(n) = {} THEN [state |-> "absent", conf |-> Nil, net |-> "off"]
     ELSE LET i == CHOOSE i \in Named(n) : TRUE
          IN [state |-> ctr[i].state, conf |-> ctr[i].conf,
              net |-> IF ctr[i].net = Nil THEN "off" ELSE "on"]]

-----------------------------------------------------------------------------
(* The calls that change the engine. *)

\* A name in use is refused ("Conflict. The container name is already in
\* use"), and so is an image that is not there.  The id is a new one.
ContainerCreate(i, n, c) ==
  /\ Named(n) = {}
  /\ n \in images
  /\ ctr[i].state = "absent"
  /\ ctr' = [ctr EXCEPT ![i] =
               [name |-> n, state |-> "created", conf |-> c, net |-> Nil]]

ContainerStart(i) ==
  /\ Exists(i)
  /\ ctr' = [ctr EXCEPT ![i].state = "running"]

\* Force: true, so a running container is killed as well.
ContainerRemove(i) ==
  /\ Exists(i)
  /\ ctr' = [ctr EXCEPT ![i] = Absent]

\* The main process of the container ends, by itself or by a crash.
ContainerExit(i) ==
  /\ IsUp(i)
  /\ ctr' = [ctr EXCEPT ![i].state = "exited"]

\* CheckDuplicate is left false: a second network of the same name is made.
NetworkCreate(k) ==
  /\ k \in Nets \ nets
  /\ nets' = nets \cup {k}

\* By name: with several networks of that name, one of them.
NetworkConnect(k, i) ==
  /\ k \in nets
  /\ Exists(i)
  /\ ctr' = [ctr EXCEPT ![i].net = k]

ImagePull(n) == images' = images \cup {n}
=============================================================================
