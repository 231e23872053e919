---------------------------- MODULE ComponentSlot ----------------------------
(***************************************************************************)
(* What docker/docker.go promises of the container of a name, of a         *)
(* component or of the SQL client, however many processes start and remove *)
(* containers at once.  A name is a slot for one container.  A container   *)
(* is made with one configuration, started once, joined to the network at  *)
(* most once and then only goes away: one that stopped is never started    *)
(* again and none is ever reconfigured, it is replaced ("if container      *)
(* already exists but stopped it removes it first to make sure it has      *)
(* correct configuration", docker.go:409).                                 *)
(***************************************************************************)
CONSTANTS
  Names, Confs, Nil,
  Joinable   \* the states a container may be in when it is joined

VARIABLE slot   \* slot[n]: the container that bears the name n

Empty == [state |-> "absent", conf |-> Nil, net |-> "off"]

SlotInit == slot = [n \in Names |-> Empty]

Make(n) ==
  /\ slot[n] = Empty
  /\ \E c \in Confs :
       slot' = [slot EXCEPT ![n] =
                  [state |-> "created", conf |-> c, net |-> "off"]]

Start(n) ==
  /\ slot[n].state = "created"
  /\ slot' = [slot EXCEPT ![n].state = "running"]

Join(n) ==
  /\ slot[n].state \in Joinable
  /\ slot[n].net = "off"
  /\ slot' = [slot EXCEPT ![n].net = "on"]

End(n) ==
  /\ slot[n].state = "running"
  /\ slot' = [slot EXCEPT ![n].state = "exited"]

Remove(n) ==
  /\ slot[n] # Empty
  /\ slot' = [slot EXCEPT ![n] = Empty]

SlotNext == \E n \in Names : Make(n) \/ Start(n) \/ Join(n) \/ End(n) \/ Remove(n)

SlotSpec == SlotInit /\ [][SlotNext]_slot
=============================================================================
