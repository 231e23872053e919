------------------------- MODULE DockerEngineProofs -------------------------
(***************************************************************************)
(* What each request to the engine does to the container it is about, to   *)
(* the others, and to the slots that ComponentSlot shows.  The proofs      *)
(* about the clients of the engine use these facts and no EXCEPT.          *)
(***************************************************************************)
EXTENDS DockerEngine, TLAPS

\* Two containers never bear the same name.
UniqueNames ==
  \A i, j \in Ids : Exists(i) /\ Exists(j) /\ ctr[i].name = ctr[j].name => i = j

\* A container that exists bears a name.
NamesValid == \A i \in Ids : Exists(i) => ctr[i].name \in Names

-----------------------------------------------------------------------------
(* Containers. *)

\* ContainerCreate makes one container, of a name that had none.
LEMMA CreateEffect ==
  ASSUME EngineTypeOK, NEW i \in Ids, NEW n \in Names \cup {Nil},
         NEW c \in Confs \cup {Nil}, ContainerCreate(i, n, c)
  PROVE  /\ Named(n) = {}
         /\ ~ Exists(i)
         /\ ctr' \in [Ids -> Container]
         /\ ctr'[i].name = n
         /\ ctr'[i].state = "created"
         /\ ctr'[i].conf = c
         /\ ctr'[i].net = Nil
         /\ \A j \in Ids : j # i => ctr'[j] = ctr[j]
<1>. DEFINE r == [name |-> n, state |-> "created", conf |-> c, net |-> Nil]
<1>1. /\ r \in Container
      /\ r.name = n /\ r.state = "created" /\ r.conf = c /\ r.net = Nil
  BY DEF Container
<1>2. ctr' = [ctr EXCEPT ![i] = r] /\ Named(n) = {} /\ ctr[i].state = "absent"
  BY DEF ContainerCreate
<1>. HIDE DEF r
<1> QED
  BY <1>1, <1>2 DEF EngineTypeOK, Exists

\* ContainerStart changes the state of one container.
LEMMA StartEffect ==
  ASSUME EngineTypeOK, NEW i, ContainerStart(i)
  PROVE  /\ Exists(i) /\ i \in Ids
         /\ ctr' \in [Ids -> Container]
         /\ ctr'[i].name = ctr[i].name
         /\ ctr'[i].state = "running"
         /\ ctr'[i].conf = ctr[i].conf
         /\ ctr'[i].net = ctr[i].net
         /\ \A j \in Ids : j # i => ctr'[j] = ctr[j]
<1>. DEFINE r == [ctr[i] EXCEPT !.state = "running"]
<1>1. Exists(i) /\ i \in Ids /\ ctr[i] \in Container
  BY DEF ContainerStart, Exists, EngineTypeOK
<1>2. /\ r \in Container
      /\ r.name = ctr[i].name /\ r.state = "running"
      /\ r.conf = ctr[i].conf /\ r.net = ctr[i].net
  BY <1>1 DEF Container
<1>3. ctr' = [ctr EXCEPT ![i] = r]
  BY DEF ContainerStart
<1>. HIDE DEF r
<1> QED
  BY <1>1, <1>2, <1>3 DEF EngineTypeOK

\* So does the end of a container's process.
LEMMA ExitEffect ==
  ASSUME EngineTypeOK, NEW i \in Ids, ContainerExit(i)
  PROVE  /\ IsUp(i) /\ Exists(i)
         /\ ctr' \in [Ids -> Container]
         /\ ctr'[i].name = ctr[i].name
         /\ ctr'[i].state = "exited"
         /\ ctr'[i].conf = ctr[i].conf
         /\ ctr'[i].net = ctr[i].net
         /\ \A j \in Ids : j # i => ctr'[j] = ctr[j]
<1>. DEFINE r == [ctr[i] EXCEPT !.state = "exited"]
<1>1. IsUp(i) /\ Exists(i) /\ ctr[i] \in Container
  BY DEF ContainerExit, IsUp, Exists, EngineTypeOK
<1>2. /\ r \in Container
      /\ r.name = ctr[i].name /\ r.state = "exited"
      /\ r.conf = ctr[i].conf /\ r.net = ctr[i].net
  BY <1>1 DEF Container
<1>3. ctr' = [ctr EXCEPT ![i] = r]
  BY DEF ContainerExit
<1>. HIDE DEF r
<1> QED
  BY <1>1, <1>2, <1>3 DEF EngineTypeOK

\* NetworkConnect changes the network of one container.
LEMMA ConnectEffect ==
  ASSUME EngineTypeOK, NEW k \in Nets, NEW i, NetworkConnect(k, i)
  PROVE  /\ Exists(i) /\ i \in Ids
         /\ ctr' \in [Ids -> Container]
         /\ ctr'[i].name = ctr[i].name
         /\ ctr'[i].state = ctr[i].state
         /\ ctr'[i].conf = ctr[i].conf
         /\ ctr'[i].net = k
         /\ \A j \in Ids : j # i => ctr'[j] = ctr[j]
<1>. DEFINE r == [ctr[i] EXCEPT !.net = k]
<1>1. Exists(i) /\ i \in Ids /\ ctr[i] \in Container
  BY DEF NetworkConnect, Exists, EngineTypeOK
<1>2. /\ r \in Container
      /\ r.name = ctr[i].name /\ r.state = ctr[i].state
      /\ r.conf = ctr[i].conf /\ r.net = k
  BY <1>1 DEF Container
<1>3. ctr' = [ctr EXCEPT ![i] = r]
  BY DEF NetworkConnect
<1>. HIDE DEF r
<1> QED
  BY <1>1, <1>2, <1>3 DEF EngineTypeOK

\* ContainerRemove leaves nothing of one container.
LEMMA RemoveEffect ==
  ASSUME EngineTypeOK, NEW i, ContainerRemove(i)
  PROVE  /\ Exists(i) /\ i \in Ids
         /\ ctr' \in [Ids -> Container]
         /\ ctr'[i].state = "absent"
         /\ \A j \in Ids : j # i => ctr'[j] = ctr[j]
<1>1. Absent \in Container /\ Absent.state = "absent"
  BY DEF Absent, Container
<1>2. ctr' = [ctr EXCEPT ![i] = Absent] /\ Exists(i) /\ i \in Ids
  BY DEF ContainerRemove, Exists
<1> QED
  BY <1>1, <1>2 DEF EngineTypeOK

-----------------------------------------------------------------------------
(* Slots. *)

NoSlot == [state |-> "absent", conf |-> Nil, net |-> "off"]

\* The slot of a name that container i bears.
ViewOf(i) == [state |-> ctr[i].state,
              conf  |-> ctr[i].conf,
              net   |-> IF ctr[i].net = Nil THEN "off" ELSE "on"]

\* A name nobody bears is an empty slot, and any container that bears a name
\* is the one that its slot shows.
SlotsShown ==
  \A n \in Names :
    /\ Named(n) = {} => slotOf[n] = NoSlot
    /\ \A i \in Named(n) : slotOf[n] = ViewOf(i)

\* Names are unique, so the slot of a container's name shows that container.
LEMMA SlotView == UniqueNames => SlotsShown
<1> SUFFICES ASSUME UniqueNames, NEW n \in Names
             PROVE  /\ Named(n) = {} => slotOf[n] = NoSlot
                    /\ \A i \in Named(n) : slotOf[n] = ViewOf(i)
  BY DEF SlotsShown
<1>1. Named(n) = {} => slotOf[n] = NoSlot
  BY DEF slotOf, NoSlot
<1>2. ASSUME NEW i \in Named(n) PROVE slotOf[n] = ViewOf(i)
  <2>1. i = CHOOSE j \in Named(n) : TRUE
    BY DEF UniqueNames, Named, Exists
  <2> QED
    BY <1>2, <2>1 DEF slotOf, ViewOf
<1> QED
  BY <1>1, <1>2

\* The same of the state after a step.
LEMMA SlotViewNext == UniqueNames' => SlotsShown'
<1> SUFFICES ASSUME UniqueNames', NEW n \in Names
             PROVE  /\ Named(n)' = {} => slotOf'[n] = NoSlot
                    /\ \A i \in Named(n)' : slotOf'[n] = ViewOf(i)'
  BY DEF SlotsShown, NoSlot
<1>1. Named(n)' = {} => slotOf'[n] = NoSlot
  BY DEF slotOf, NoSlot
<1>2. ASSUME NEW i \in Named(n)' PROVE slotOf'[n] = ViewOf(i)'
  <2>1. i = (CHOOSE j \in Named(n) : TRUE)'
    BY DEF UniqueNames, Named, Exists
  <2> QED
    BY <1>2, <2>1 DEF slotOf, ViewOf
<1> QED
  BY <1>1, <1>2

\* A step that changes the container of n at most leaves the other slots.
LEMMA SlotFrame ==
  ASSUME UniqueNames, UniqueNames', NEW i \in Ids, NEW n \in Names,
         Exists(i) => ctr[i].name = n,
         Exists(i)' => ctr'[i].name = n,
         \A j \in Ids : j # i => ctr'[j] = ctr[j],
         NEW r, slotOf'[n] = r
  PROVE  slotOf' = [slotOf EXCEPT ![n] = r]
<1>1. ASSUME NEW m \in Names, m # n PROVE slotOf'[m] = slotOf[m]
  <2>1. Named(m)' = Named(m) /\ i \notin Named(m)
    BY <1>1 DEF Named, Exists
  <2>2. CASE Named(m) = {}
    BY <2>1, <2>2, SlotView, SlotViewNext DEF SlotsShown, NoSlot
  <2>3. ASSUME NEW j \in Named(m) PROVE slotOf'[m] = slotOf[m]
    <3>1. ctr'[j] = ctr[j]
      BY <2>1, <2>3 DEF Named
    <3>2. slotOf[m] = ViewOf(j) /\ slotOf'[m] = ViewOf(j)'
      BY <2>1, <2>3, SlotView, SlotViewNext DEF SlotsShown
    <3> QED
      BY <3>1, <3>2 DEF ViewOf
  <2> QED
    BY <2>2, <2>3
<1>2. slotOf = [m \in Names |-> slotOf[m]] /\ slotOf' = [m \in Names |-> slotOf'[m]]
  BY DEF slotOf
<1> QED
  BY <1>1, <1>2

\* A creation fills the slot of its name.
LEMMA CreateShows ==
  ASSUME EngineTypeOK, UniqueNames, UniqueNames',
         NEW i \in Ids, NEW n \in Names, NEW c \in Confs, ContainerCreate(i, n, c)
  PROVE  /\ slotOf[n] = NoSlot
         /\ slotOf' = [slotOf EXCEPT ![n] = [state |-> "created", conf |-> c, net |-> "off"]]
<1>1. /\ Named(n) = {} /\ ~ Exists(i)
      /\ ctr'[i].name = n /\ ctr'[i].state = "created"
      /\ ctr'[i].conf = c /\ ctr'[i].net = Nil
      /\ \A j \in Ids : j # i => ctr'[j] = ctr[j]
  BY CreateEffect
<1>. DEFINE r == [state |-> "created", conf |-> c, net |-> "off"]
<1>2. slotOf[n] = NoSlot
  BY <1>1, SlotView DEF SlotsShown
<1>3. slotOf'[n] = r
  <2>1. slotOf'[n] = ViewOf(i)'
    BY <1>1, SlotViewNext DEF SlotsShown, Named
  <2> QED
    BY <1>1, <2>1 DEF ViewOf
<1>4. slotOf' = [slotOf EXCEPT ![n] = r]
  BY <1>1, <1>3, SlotFrame
<1> QED
  BY <1>2, <1>4

\* A removal empties the slot of its container.
LEMMA RemoveShows ==
  ASSUME EngineTypeOK, UniqueNames, UniqueNames', NamesValid,
         NEW i, ContainerRemove(i)
  PROVE  \E n \in Names : slotOf[n] # NoSlot /\ slotOf' = [slotOf EXCEPT ![n] = NoSlot]
<1>1. /\ i \in Ids /\ Exists(i) /\ ctr'[i].state = "absent"
      /\ \A j \in Ids : j # i => ctr'[j] = ctr[j]
  BY RemoveEffect
<1>. PICK n \in Names : n = ctr[i].name
  BY <1>1 DEF NamesValid
<1>2. slotOf[n] # NoSlot
  <2>1. slotOf[n] = ViewOf(i) /\ ctr[i].state # "absent"
    BY <1>1, SlotView DEF SlotsShown, Named, Exists
  <2>2. slotOf[n].state = ctr[i].state
    BY <2>1 DEF ViewOf
  <2> QED
    BY <2>1, <2>2 DEF NoSlot
<1>3. slotOf'[n] = NoSlot
  <2>1. Named(n)' = {}
    BY <1>1 DEF UniqueNames, Named, Exists
  <2> QED
    BY <2>1, SlotViewNext DEF SlotsShown, NoSlot
<1>4. slotOf' = [slotOf EXCEPT ![n] = NoSlot]
  BY <1>1, <1>3, SlotFrame DEF Exists
<1> QED
  BY <1>2, <1>4

\* A step that changes the state or the network of container i shows in the
\* slot of its name as the same change.
LEMMA ChangeShows ==
  ASSUME UniqueNames, UniqueNames', NamesValid, NEW i \in Ids, Exists(i),
         ctr'[i].name = ctr[i].name, ctr'[i].state # "absent",
         \A j \in Ids : j # i => ctr'[j] = ctr[j]
  PROVE  \E n \in Names :
           /\ slotOf[n] = ViewOf(i)
           /\ slotOf' = [slotOf EXCEPT ![n] = ViewOf(i)']
<1>. PICK n \in Names : n = ctr[i].name
  BY DEF NamesValid
<1>1. slotOf[n] = ViewOf(i)
  BY SlotView DEF SlotsShown, Named, Exists
<1>2. slotOf'[n] = ViewOf(i)'
  BY SlotViewNext DEF SlotsShown, Named, Exists
<1>3. slotOf' = [slotOf EXCEPT ![n] = ViewOf(i)']
  BY <1>2, SlotFrame
<1> QED
  BY <1>1, <1>3

\* A start shows as a start.
LEMMA StartShows ==
  ASSUME EngineTypeOK, UniqueNames, UniqueNames', NamesValid,
         NEW i, ContainerStart(i)
  PROVE  \E n \in Names :
           /\ slotOf[n] = ViewOf(i)
           /\ slotOf' = [slotOf EXCEPT ![n].state = "running"]
<1>1. /\ i \in Ids /\ Exists(i) /\ ctr'[i].name = ctr[i].name /\ ctr'[i].state = "running"
      /\ ctr'[i].conf = ctr[i].conf /\ ctr'[i].net = ctr[i].net
      /\ \A j \in Ids : j # i => ctr'[j] = ctr[j]
  BY StartEffect
<1>2. PICK n \in Names : /\ slotOf[n] = ViewOf(i)
                         /\ slotOf' = [slotOf EXCEPT ![n] = ViewOf(i)']
  BY <1>1, ChangeShows
<1>3. ViewOf(i)' = [slotOf[n] EXCEPT !.state = "running"]
  BY <1>1, <1>2 DEF ViewOf
<1> QED
  BY <1>2, <1>3

\* The end of a container shows as an end.
LEMMA ExitShows ==
  ASSUME EngineTypeOK, UniqueNames, UniqueNames', NamesValid,
         NEW i \in Ids, ContainerExit(i)
  PROVE  \E n \in Names :
           /\ slotOf[n].state = "running"
           /\ slotOf' = [slotOf EXCEPT ![n].state = "exited"]
<1>1. /\ IsUp(i) /\ Exists(i) /\ ctr'[i].name = ctr[i].name /\ ctr'[i].state = "exited"
      /\ ctr'[i].conf = ctr[i].conf /\ ctr'[i].net = ctr[i].net
      /\ \A j \in Ids : j # i => ctr'[j] = ctr[j]
  BY ExitEffect
<1>2. PICK n \in Names : /\ slotOf[n] = ViewOf(i)
                         /\ slotOf' = [slotOf EXCEPT ![n] = ViewOf(i)']
  BY <1>1, ChangeShows
<1>3. ViewOf(i)' = [slotOf[n] EXCEPT !.state = "exited"]
  BY <1>1, <1>2 DEF ViewOf
<1>4. slotOf[n].state = "running"
  BY <1>1, <1>2 DEF ViewOf, IsUp
<1> QED
  BY <1>2, <1>3, <1>4

\* A connect shows as a join.
LEMMA ConnectShows ==
  ASSUME EngineTypeOK, UniqueNames, UniqueNames', NamesValid,
         NEW i, NEW k \in Nets, NetworkConnect(k, i), ctr[i].net = Nil
  PROVE  \E n \in Names :
           /\ slotOf[n].state = ctr[i].state /\ slotOf[n].net = "off"
           /\ slotOf' = [slotOf EXCEPT ![n].net = "on"]
<1>1. /\ i \in Ids /\ Exists(i) /\ ctr'[i].name = ctr[i].name
      /\ ctr'[i].state = ctr[i].state /\ ctr'[i].state # "absent"
      /\ ctr'[i].conf = ctr[i].conf /\ ctr'[i].net = k /\ k # Nil
      /\ \A j \in Ids : j # i => ctr'[j] = ctr[j]
  BY ConnectEffect, EngineAssumption DEF Exists
<1>2. PICK n \in Names : /\ slotOf[n] = ViewOf(i)
                         /\ slotOf' = [slotOf EXCEPT ![n] = ViewOf(i)']
  BY <1>1, ChangeShows
<1>3. ViewOf(i)' = [slotOf[n] EXCEPT !.net = "on"]
  BY <1>1, <1>2 DEF ViewOf
<1>4. slotOf[n].state = ctr[i].state /\ slotOf[n].net = "off"
  BY <1>2 DEF ViewOf
<1> QED
  BY <1>2, <1>3, <1>4
=============================================================================
