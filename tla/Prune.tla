------------------------------- MODULE Prune -------------------------------
(***************************************************************************)
(* srcd prune: Prune of components/components.go, against the handlers of  *)
(* the daemon and the commands of other users of it (ComponentRun), which  *)
(* may start the daemon again at any time.  It lists the containers and    *)
(* removes them one by one, the daemon among them, then the volumes in the *)
(* same way, then the network, then, with --with-images, the images.  srcd *)
(* stop is its first part.                                                 *)
(***************************************************************************)
EXTENDS ComponentRun

VARIABLES
  prune,     \* where prune is
  snap,      \* the containers, volumes or images that are still to be removed
  before,    \* history: what there was when prune listed, and still is
  restarted  \* history: a daemon has run since prune removed it or found none

pruneVars == <<prune, snap>>

history == <<before, restarted>>

allVars == <<vars, pruneVars, history>>

Stock == [containers : SUBSET Containers, volumes : SUBSET Vols, network : BOOLEAN]

Nothing == [containers |-> {}, volumes |-> {}, network |-> FALSE]

\* "ok": prune has ended, or goes on with the images.

PruneTypeOK ==
  /\ TypeOK
  /\ prune \in {"idle", "containers", "stopped", "volumes", "ok", "images", "okImages",
                "failed"}
  /\ snap \subseteq Containers \cup Vols
  /\ before \in Stock
  /\ restarted \in BOOLEAN

PruneInit ==
  /\ Init
  /\ prune = "idle" /\ snap = {}
  /\ before = Nothing /\ restarted = FALSE

PruneGoes(from, to) == prune = from /\ prune' = to

\* Any error ends prune.
GivesUp == prune' = "failed" /\ snap' = {}

PruneFails ==
  /\ "prune" \in Faulty
  /\ prune \in {"containers", "volumes", "images"}
  /\ GivesUp
  /\ UNCHANGED vars

ListContainers ==
  /\ PruneGoes("idle", "containers")
  /\ snap' = {c \in Containers : Exists(c)}
  /\ UNCHANGED vars

\* A container that somebody else has removed is ErrNotFound.
RemoveContainer(c) ==
  /\ prune = "containers" /\ c \in snap
  /\ \/ /\ Exists(c) /\ c # "daemon"
        /\ ctr' = Set(ctr, c, NoContainer)
        /\ snap' = snap \ {c}
        /\ UNCHANGED <<vols, net, images, client, handler, prune>>
     \/ /\ Exists(c) /\ c = "daemon"
        /\ DaemonEnds(NoContainer)
        /\ snap' = snap \ {c}
        /\ UNCHANGED prune
     \/ ~ Exists(c) /\ GivesUp /\ UNCHANGED vars

\* srcd stop ends here.
Stopped ==
  /\ snap = {}
  /\ PruneGoes("containers", "stopped")
  /\ UNCHANGED <<vars, snap>>

ListVolumes ==
  /\ snap = {}
  /\ PruneGoes("containers", "volumes")
  /\ snap' = vols
  /\ UNCHANGED vars

\* A container mounts the index volume as long as it exists.
InUse(v) == v = IndexVol /\ Exists("gitbase")

RemoveVolume(v) ==
  /\ prune = "volumes" /\ v \in snap
  /\ \/ /\ ~ InUse(v)
        /\ vols' = vols \ {v} /\ snap' = snap \ {v}
        /\ UNCHANGED prune
     \/ InUse(v) /\ GivesUp /\ UNCHANGED vols
  /\ UNCHANGED <<ctr, net, images, client, handler>>

\* Docker refuses to remove a network with a running container on it, and to
\* choose among several of the name.
InNetwork == {c \in Containers : Up(c) /\ ctr[c].net = "on"}

\* What does not run loses its place on the network.
Unplugged == [c \in Containers |->
  IF ctr[c].net = "on" THEN GivenUp(ctr[c].state) ELSE ctr[c]]

\* A wrong RemoveNetwork: every error counts as "no such network".
RemoveNetworkQuiet ==
  /\ snap = {}
  /\ PruneGoes("volumes", "ok")
  /\ \/ /\ net # 2 /\ InNetwork = {}
        /\ net' = 0 /\ ctr' = Unplugged
     \/ /\ net = 2 \/ InNetwork # {}
        /\ UNCHANGED <<net, ctr>>
  /\ UNCHANGED <<vols, images, client, handler, snap>>

RemoveNetwork ==
  /\ prune = "volumes" /\ snap = {}
  /\ \/ /\ net # 2 /\ InNetwork = {}
        /\ prune' = "ok"
        /\ net' = 0 /\ ctr' = Unplugged
     \/ /\ net = 2 \/ InNetwork # {}
        /\ prune' = "failed"
        /\ UNCHANGED <<net, ctr>>
  /\ UNCHANGED <<vols, images, client, handler, snap>>

\* --with-images.
ListInstalled ==
  /\ PruneGoes("ok", "images")
  /\ snap' = images
  /\ UNCHANGED vars

\* By image and version.
ImageOrder == <<"bblfshd", "bblfsh-web", "mysql", "daemon", "gitbase-web", "gitbase">>

\* Force does not help against a running container.
RemoveImage(i) ==
  LET c == ImageOrder[i] IN
  /\ prune = "images" /\ c \in snap
  /\ \A j \in 1..(i - 1) : ImageOrder[j] \notin snap
  /\ \/ /\ ~ Up(c)
        /\ images' = images \ {c} /\ snap' = snap \ {c}
        /\ UNCHANGED prune
     \/ Up(c) /\ GivesUp /\ UNCHANGED images
  /\ UNCHANGED <<ctr, vols, net, client, handler>>

ImagesRemoved ==
  /\ snap = {}
  /\ PruneGoes("images", "okImages")
  /\ UNCHANGED <<vars, snap>>

-----------------------------------------------------------------------------
PruneStep ==
  \/ ListContainers \/ Stopped \/ ListVolumes
  \/ RemoveNetwork
  \/ ListInstalled \/ ImagesRemoved
  \/ PruneFails
  \/ \E c \in Containers : RemoveContainer(c)
  \/ \E v \in Vols : RemoveVolume(v)
  \/ \E i \in 1..6 : RemoveImage(i)

DaemonExits ==
  /\ "exit" \in Faulty
  /\ Up("daemon")
  /\ DaemonEnds([state |-> "down", by |-> ctr["daemon"].by, net |-> ctr["daemon"].net])
  /\ UNCHANGED pruneVars

\* What there is, and what is left of what there was.
Present == [containers |-> {c \in Containers : Exists(c)}, volumes |-> vols,
            network |-> net > 0]

Left == [containers |-> {c \in before.containers : Exists(c)'},
         volumes    |-> before.volumes \cap vols',
         network    |-> before.network /\ net' > 0]

Remember ==
  /\ before' = IF prune = "idle" /\ prune' # "idle" THEN Present ELSE Left
  /\ restarted' = (/\ prune' # "idle"
                   /\ ~ (prune' = "containers" /\ "daemon" \in snap')
                   /\ restarted \/ Up("daemon")')

Next ==
  /\ \/ RunNext /\ UNCHANGED pruneVars
     \/ PruneStep
     \/ DaemonExits
  /\ Remember

Spec == PruneInit /\ [][Next]_allVars

-----------------------------------------------------------------------------
(* Properties. *)

\* When prune has succeeded, no container, volume or network that it met is
\* left, whoever makes new ones meanwhile.  And if no daemon was started again,
\* the handlers that went on until prune removed it have left nothing either,
\* but containers without the index volume that were not connected when the
\* daemon went; with --with-images none that runs, and no image.
PruneIsThorough ==
  prune \in {"ok", "images", "okImages"} =>
    /\ before = Nothing
    /\ ~ restarted =>
         /\ vols = {}
         /\ \A c \in Components :
              /\ Exists(c) => c # "gitbase" /\ ctr[c].net # "on"
              /\ prune = "okImages" => ~ Up(c) /\ c \notin images
=============================================================================
