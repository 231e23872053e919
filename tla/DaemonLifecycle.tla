-------------------------- MODULE DaemonLifecycle --------------------------
(***************************************************************************)
(* The life of the daemon: cmd/srcd/daemon, the commands init, stop, prune *)
(* and those that call the daemon, and the daemon's handlers that start    *)
(* components (cmd/srcd-server/engine).  A component's container carries   *)
(* the working directory and the configuration (the ports) of whoever      *)
(* started it; init kills what depends on them, records them in the state  *)
(* file and starts a daemon with them.  The state file, the config file    *)
(* and the containers are all that the processes share.                    *)
(*                                                                         *)
(* Start of a container is one step here: ContainerStart shows what racing *)
(* and failing starts of one component do to each other.  A container that *)
(* has exited counts as none, as every start replaces it.                  *)
(***************************************************************************)
EXTENDS FiniteSets, Naturals

CONSTANTS
  Clis,        \* CLI processes that may run at once
  Commands,    \* the commands they run, see AllCommands
  Alone,       \* the commands a user runs only while no other one runs
  Dirs,        \* working directories
  Confs,       \* contents of the config file
  DefaultConf, \* what SetDefaults makes of an empty configuration
  Wanted,      \* the components that commands ask the daemon for
  Faulty,      \* what may go wrong, see Faults
  Down,        \* instead of start options: no container, nothing at hand
  NoFile,      \* no state file
  Torn         \* a state file that os.Create has emptied

AllCommands == {"init", "client", "stop", "prune"}

\* "filter": a Docker request of the filters of Kill fails; "list": one that
\* looks for containers elsewhere; "start", "kill", "save": the step fails;
\* "exit": a container ends by itself; "crash": a CLI process dies (Ctrl-C),
\* its request goes on.
Faults == {"filter", "list", "start", "kill", "save", "exit", "crash"}

\* Every component but the mysql client and bblfsh-web, which only differs
\* from "web" (gitbase-web) in what it needs.
Components == {"bblfshd", "daemon", "gitbase", "web"}

ASSUME LifecycleAssumption ==
  /\ Commands \subseteq AllCommands /\ Alone \subseteq AllCommands
  /\ DefaultConf \in Confs
  /\ Wanted \subseteq Components \ {"daemon"}
  /\ Faulty \subseteq Faults

\* List sorts by image, and so Kill goes; run takes dependencies first.
Rank == [bblfshd |-> 1, daemon |-> 2, gitbase |-> 3, web |-> 4]

First(S) == CHOOSE c \in S : \A d \in S : Rank[c] <= Rank[d]

WorkDirDependants == {"bblfshd", "daemon", "gitbase"}

\* A component with everything it depends on.
Needs(c) ==
  {c} \cup (IF c \in {"gitbase", "web"} THEN {"bblfshd"} ELSE {})
      \cup (IF c = "web" THEN {"gitbase"} ELSE {})

StartOptions == [wd : Dirs, cf : Confs]

ASSUME NotOptionsAssumption ==
  {Down, NoFile, Torn} \cap StartOptions = {} /\ NoFile # Torn

VARIABLES
  config,  \* the user's config.yml
  file,    \* .state.json
  up,      \* up[c]: the options c was started with, Down if it does not run
  cmd,     \* cmd[p]: the command that CLI process p runs
  pc,      \* pc[p]: what it does next
  opts,    \* opts[p]: the startOptions it holds
  check,   \* check[p]: the components Kill has yet to look at
  todo,    \* todo[p]: the components to kill, or to ask the daemon for
  srv,     \* srv[p]: what the daemon's handler of p's request does next
  left,    \* left[p]: the components that handler has still to run
  inited   \* history: the options of the last init, if it came to an end

vars == <<config, file, up, cmd, pc, opts, check, todo, srv, left, inited>>

cli == <<cmd, pc, opts, check, todo>>
handlers == <<srv, left>>
history == <<inited>>

Labels == {"idle", "look", "kill", "create", "encode", "isRunning", "start",
           "ensure", "stat", "read", "call", "wait", "list", "remove", "cleanUp"}

TypeOK ==
  /\ config \in Confs
  /\ file \in StartOptions \cup {NoFile, Torn}
  /\ up \in [Components -> StartOptions \cup {Down}]
  /\ cmd \in [Clis -> Commands \cup {"none"}]
  /\ pc \in [Clis -> Labels]
  /\ opts \in [Clis -> StartOptions \cup {Down}]
  /\ check \in [Clis -> SUBSET WorkDirDependants]
  /\ todo \in [Clis -> SUBSET Components]
  /\ srv \in [Clis -> {"none", "check", "start"}]
  /\ left \in [Clis -> SUBSET Components]
  /\ inited \in StartOptions \cup {Down}

Init ==
  /\ config = DefaultConf
  /\ file = NoFile
  /\ up = [c \in Components |-> Down]
  /\ cmd = [p \in Clis |-> "none"]
  /\ pc = [p \in Clis |-> "idle"]
  /\ opts = [p \in Clis |-> Down]
  /\ check = [p \in Clis |-> {}]
  /\ todo = [p \in Clis |-> {}]
  /\ srv = [p \in Clis |-> "none"]
  /\ left = [p \in Clis |-> {}]
  /\ inited = Down

-----------------------------------------------------------------------------
Running(c) == up[c] # Down

At(p, l) == pc[p] = l

Goto(p, l) == pc' = [pc EXCEPT ![p] = l]

\* Commands the user runs alone begin and go on while no other command runs.
MayBegin(p, c) ==
  /\ c \in Commands
  /\ At(p, "idle")
  /\ \A q \in Clis \ {p} : cmd[q] = "none" \/ {c, cmd[q]} \cap Alone = {}

Begin(p, c, l, o, k, t) ==
  /\ MayBegin(p, c)
  /\ cmd' = [cmd EXCEPT ![p] = c]
  /\ Goto(p, l)
  /\ opts' = [opts EXCEPT ![p] = o]
  /\ check' = [check EXCEPT ![p] = k]
  /\ todo' = [todo EXCEPT ![p] = t]

\* The command ends, with or without an error.
End(p) ==
  /\ cmd' = [cmd EXCEPT ![p] = "none"]
  /\ Goto(p, "idle")
  /\ opts' = [opts EXCEPT ![p] = Down]
  /\ check' = [check EXCEPT ![p] = {}]
  /\ todo' = [todo EXCEPT ![p] = {}]

Fails(p, f) == f \in Faulty /\ End(p)

\* Container c goes, or another one takes its place.  With the daemon's
\* container go the handlers that run in it.
Replace(c, o) ==
  /\ up' = [up EXCEPT ![c] = o]
  /\ IF c = "daemon"
     THEN /\ srv' = [p \in Clis |-> "none"]
          /\ left' = [p \in Clis |-> {}]
     ELSE UNCHANGED handlers

-----------------------------------------------------------------------------
(* srcd init: read the config file, Kill, save the state, start.           *)

InitCmd(p, d) ==
  /\ Begin(p, "init", "look", [wd |-> d, cf |-> config], WorkDirDependants, {})
  /\ inited' = Down
  /\ UNCHANGED <<config, file, up, handlers>>

\* A wrong list of what depends on the working directory: the daemon only.
LookDaemonOnly(p) ==
  /\ At(p, "look") /\ check[p] # {}
  /\ LET c == First(check[p]) IN
       /\ check' = [check EXCEPT ![p] = @ \ {c}]
       /\ todo' = [todo EXCEPT ![p] =
                     IF c = "daemon" /\ Running(c) THEN @ \cup {c} ELSE @]
  /\ UNCHANGED <<config, file, up, cmd, pc, opts, handlers, history>>

\* The filters of Kill.  An error of IsRunning counts as "not running".
Look(p) ==
  /\ At(p, "look") /\ check[p] # {}
  /\ LET c == First(check[p]) IN
       /\ check' = [check EXCEPT ![p] = @ \ {c}]
       /\ \/ todo' = [todo EXCEPT ![p] = IF Running(c) THEN @ \cup {c} ELSE @]
          \/ "filter" \in Faulty /\ UNCHANGED todo
  /\ UNCHANGED <<config, file, up, cmd, pc, opts, handlers, history>>

Looked(p) ==
  /\ At(p, "look") /\ check[p] = {}
  /\ \/ Goto(p, "kill") /\ UNCHANGED <<cmd, opts, check, todo>>
     \/ Fails(p, "list")
  /\ UNCHANGED <<config, file, up, handlers, history>>

\* Component.Kill removes what bears the name by now, and does not mind if
\* nothing does.
Kill(p) ==
  /\ At(p, "kill") /\ todo[p] # {}
  /\ LET c == First(todo[p]) IN
       \/ /\ Replace(c, Down)
          /\ todo' = [todo EXCEPT ![p] = @ \ {c}]
          /\ UNCHANGED <<cmd, pc, opts, check>>
       \/ /\ Fails(p, "kill")
          /\ UNCHANGED <<up, handlers>> \/ Replace(c, Down)
  /\ UNCHANGED <<config, file, history>>

Killed(p) ==
  /\ At(p, "kill") /\ todo[p] = {}
  /\ Goto(p, "create")
  /\ UNCHANGED <<config, file, up, cmd, opts, check, todo, handlers, history>>

-----------------------------------------------------------------------------
(* saveState: os.Create empties the file, Encode fills it.                 *)

\* A wrong save: a state file that is there stays as it is.
SaveCreateOnce(p) ==
  /\ At(p, "create")
  /\ \/ /\ file = NoFile
        /\ file' = Torn
        /\ Goto(p, "encode")
     \/ /\ file # NoFile
        /\ Goto(p, "isRunning")
        /\ UNCHANGED file
  /\ UNCHANGED <<config, up, cmd, opts, check, todo, handlers, history>>

SaveCreate(p) ==
  /\ At(p, "create")
  /\ \/ /\ file' = Torn
        /\ Goto(p, "encode")
        /\ UNCHANGED <<cmd, opts, check, todo>>
     \/ Fails(p, "save") /\ UNCHANGED file
  /\ UNCHANGED <<config, up, handlers, history>>

SaveEncode(p) ==
  /\ At(p, "encode")
  /\ \/ /\ file' = opts[p]
        /\ Goto(p, "isRunning")
        /\ UNCHANGED <<cmd, opts, check, todo>>
     \/ Fails(p, "save") /\ UNCHANGED file
  /\ UNCHANGED <<config, up, handlers, history>>

-----------------------------------------------------------------------------
(* start: InfoOrStart of the daemon with the options at hand.              *)

\* The daemon runs: init is at its end, another command calls it.
Started(p) ==
  IF cmd[p] = "init"
  THEN /\ inited' = opts[p]
       /\ End(p)
  ELSE /\ UNCHANGED <<cmd, opts, check, todo, history>>
       /\ Goto(p, "call")

IsRunning(p) ==
  /\ At(p, "isRunning")
  /\ \/ Running("daemon") /\ Started(p)
     \/ /\ ~ Running("daemon")
        /\ Goto(p, "start")
        /\ UNCHANGED <<cmd, opts, check, todo, history>>
     \/ Fails(p, "list") /\ UNCHANGED history
  /\ UNCHANGED <<config, file, up, handlers>>

\* A wrong start: the error of InfoOrStart is dropped.
StartDaemonUnchecked(p) ==
  /\ At(p, "start")
  /\ \/ Replace("daemon", opts[p])
     \/ "start" \in Faulty /\ UNCHANGED <<up, handlers>>
  /\ Started(p)
  /\ UNCHANGED <<config, file>>

\* createDaemon.  It replaces a daemon that was started in the meantime; when
\* it fails it may have removed that one, and even have started its own.
StartDaemon(p) ==
  /\ At(p, "start")
  /\ \/ Replace("daemon", opts[p]) /\ Started(p)
     \/ /\ Fails(p, "start")
        /\ UNCHANGED <<up, handlers>> \/ \E o \in {Down, opts[p]} : Replace("daemon", o)
        /\ UNCHANGED history
  /\ UNCHANGED <<config, file>>

-----------------------------------------------------------------------------
(* A command that calls the daemon: Client, ensureStarted, StartComponent. *)

ClientCmd(p, d, c) ==
  /\ Begin(p, "client", "ensure", [wd |-> d, cf |-> DefaultConf], {}, {c})
  /\ UNCHANGED <<config, file, up, handlers, history>>

EnsureStarted(p) ==
  /\ At(p, "ensure")
  /\ \/ /\ Goto(p, IF Running("daemon") THEN "call" ELSE "stat")
        /\ UNCHANGED <<cmd, opts, check, todo>>
     \/ Fails(p, "list")
  /\ UNCHANGED <<config, file, up, handlers, history>>

\* The daemon before there was a state file: always the current directory.
StatIgnored(p) ==
  /\ At(p, "stat")
  /\ Goto(p, "create")
  /\ UNCHANGED <<config, file, up, cmd, opts, check, todo, handlers, history>>

\* Without a state file: the current directory and, as nobody has read the
\* config file, the default configuration.
Stat(p) ==
  /\ At(p, "stat")
  /\ Goto(p, IF file = NoFile THEN "create" ELSE "read")
  /\ UNCHANGED <<config, file, up, cmd, opts, check, todo, handlers, history>>

\* A wrong ensureStarted: the error of decoding the file is dropped.
ReadUnchecked(p) ==
  /\ At(p, "read")
  /\ opts' = [opts EXCEPT ![p] = file]
  /\ Goto(p, "isRunning")
  /\ UNCHANGED <<config, file, up, cmd, check, todo, handlers, history>>

Read(p) ==
  /\ At(p, "read")
  /\ \/ /\ file \notin {NoFile, Torn}
        /\ opts' = [opts EXCEPT ![p] = file]
        /\ Goto(p, "isRunning")
        /\ UNCHANGED <<cmd, check, todo>>
     \/ file \in {NoFile, Torn} /\ End(p)
  /\ UNCHANGED <<config, file, up, handlers, history>>

\* The request arrives at whichever daemon runs.  (One request of each CLI
\* process is followed; an earlier one may still be served after a crash.)
Call(p) ==
  /\ At(p, "call") /\ srv[p] = "none"
  /\ \/ /\ Running("daemon")
        /\ srv' = [srv EXCEPT ![p] = "check"]
        /\ left' = [left EXCEPT ![p] = UNION {Needs(c) : c \in todo[p]}]
        /\ Goto(p, "wait")
        /\ UNCHANGED <<cmd, opts, check, todo>>
     \/ /\ ~ Running("daemon")
        /\ End(p)
        /\ UNCHANGED handlers
  /\ UNCHANGED <<config, file, up, history>>

Answered(p) ==
  /\ At(p, "wait") /\ srv[p] = "none"
  /\ End(p)
  /\ UNCHANGED <<config, file, up, handlers, history>>

-----------------------------------------------------------------------------
(* The handler: run, which takes every component through InfoOrStart.      *)

HandlerEnds(p) ==
  /\ srv' = [srv EXCEPT ![p] = "none"]
  /\ left' = [left EXCEPT ![p] = {}]

RunCheck(p) ==
  /\ srv[p] = "check" /\ left[p] # {}
  /\ LET c == First(left[p]) IN
       \/ Running(c) /\ left' = [left EXCEPT ![p] = @ \ {c}] /\ UNCHANGED srv
       \/ ~ Running(c) /\ srv' = [srv EXCEPT ![p] = "start"] /\ UNCHANGED left
       \/ "list" \in Faulty /\ HandlerEnds(p)
  /\ UNCHANGED <<config, file, up, cli, history>>

\* The container gets the working directory and the configuration of the
\* daemon that the handler runs in.  Only the start of bblfshd minds that the
\* client has gone: the others run under a context of their own.  A start that
\* fails late leaves the container up.
RunStart(p) ==
  /\ srv[p] = "start"
  /\ LET c == First(left[p]) IN
       \/ /\ up' = [up EXCEPT ![c] = up["daemon"]]
          /\ srv' = [srv EXCEPT ![p] = "check"]
          /\ left' = [left EXCEPT ![p] = @ \ {c}]
       \/ /\ "start" \in Faulty \/ (c = "bblfshd" /\ ~ At(p, "wait"))
          /\ \/ UNCHANGED up
             \/ \E o \in {Down, up["daemon"]} : up' = [up EXCEPT ![c] = o]
          /\ HandlerEnds(p)
  /\ UNCHANGED <<config, file, cli, history>>

RunDone(p) ==
  /\ srv[p] = "check" /\ left[p] = {}
  /\ HandlerEnds(p)
  /\ UNCHANGED <<config, file, up, cli, history>>

-----------------------------------------------------------------------------
(* srcd stop and prune: removeContainers, then CleanUp.                    *)

RemoveCmd(p, c) ==
  /\ c \in {"stop", "prune"}
  /\ Begin(p, c, "list", Down, {}, {})
  /\ UNCHANGED <<config, file, up, handlers, history>>

List(p) ==
  /\ At(p, "list")
  /\ \/ /\ todo' = [todo EXCEPT ![p] = {c \in Components : Running(c)}]
        /\ Goto(p, "remove")
        /\ UNCHANGED <<cmd, opts, check>>
     \/ Fails(p, "list")
  /\ UNCHANGED <<config, file, up, handlers, history>>

\* In the order Docker lists them.  One that is not there any more is an
\* error here, and the rest stays; one that has exited is still there.
RemoveOne(p) ==
  /\ At(p, "remove")
  /\ \E c \in todo[p] :
       \/ /\ Running(c)
          /\ Replace(c, Down)
          /\ todo' = [todo EXCEPT ![p] = @ \ {c}]
          /\ UNCHANGED <<cmd, pc, opts, check>>
       \/ /\ ~ Running(c)
          /\ End(p)
          /\ UNCHANGED <<up, handlers>>
       \/ /\ ~ Running(c) /\ "exit" \in Faulty
          /\ todo' = [todo EXCEPT ![p] = @ \ {c}]
          /\ UNCHANGED <<up, handlers, cmd, pc, opts, check>>
  /\ UNCHANGED <<config, file, history>>

RemoveFails(p) ==
  /\ At(p, "remove") /\ todo[p] # {}
  /\ Fails(p, "kill")
  /\ UNCHANGED <<up, handlers>> \/ \E c \in todo[p] : Replace(c, Down)
  /\ UNCHANGED <<config, file, history>>

\* What prune removes next, volumes, network and images, may fail as well.
Removed(p) ==
  /\ At(p, "remove") /\ todo[p] = {}
  /\ \/ cmd[p] = "stop" /\ End(p)
     \/ cmd[p] = "prune" /\ Fails(p, "kill")
     \/ /\ cmd[p] = "prune"
        /\ Goto(p, "cleanUp")
        /\ UNCHANGED <<cmd, opts, check, todo>>
  /\ UNCHANGED <<config, file, up, handlers, inited>>

CleanUp(p) ==
  /\ At(p, "cleanUp")
  /\ file' = NoFile
  /\ inited' = Down
  /\ End(p)
  /\ UNCHANGED <<config, up, handlers>>

-----------------------------------------------------------------------------
(* Around the commands. *)

EditConfig(k) ==
  /\ \A p \in Clis : cmd[p] = "none"
  /\ k \in Confs \ {config}
  /\ config' = k
  /\ UNCHANGED <<file, up, cli, handlers, inited>>

Exit(c) ==
  /\ "exit" \in Faulty
  /\ Running(c)
  /\ Replace(c, Down)
  /\ UNCHANGED <<config, file, cli, history>>

Crash(p) ==
  /\ ~ At(p, "idle")
  /\ Fails(p, "crash")
  /\ UNCHANGED <<config, file, up, handlers, history>>

CliStep(p) ==
  \/ Look(p) \/ Looked(p) \/ Kill(p) \/ Killed(p)
  \/ SaveCreate(p) \/ SaveEncode(p)
  \/ IsRunning(p) \/ StartDaemon(p)
  \/ EnsureStarted(p) \/ Stat(p) \/ Read(p) \/ Call(p) \/ Answered(p)
  \/ List(p) \/ RemoveOne(p) \/ RemoveFails(p) \/ Removed(p) \/ CleanUp(p)

HandlerStep(p) == RunCheck(p) \/ RunStart(p) \/ RunDone(p)

Next ==
  \/ \E p \in Clis :
       \/ \E d \in Dirs : InitCmd(p, d)
       \/ \E d \in Dirs, c \in Wanted : ClientCmd(p, d, c)
       \/ \E c \in Commands : RemoveCmd(p, c)
       \/ CliStep(p)
       \/ HandlerStep(p)
       \/ Crash(p)
  \/ \E k \in Confs : EditConfig(k)
  \/ \E c \in Components : Exit(c)

Spec == Init /\ [][Next]_vars

-----------------------------------------------------------------------------
(* Properties. *)

\* commands.md:58: init "records the what directory to use".  From the end of an
\* init to the next init or prune the state file holds what init recorded,
\* whatever else runs, fails or is broken off.  It holds if init runs alone.
RecordsInit == inited # Down => file = inited

\* CHANGELOG.md:86: a daemon that crashed or was stopped is restarted with the
\* working directory of srcd init, not with the current one.  From the end of
\* an init to the next init or prune no daemon has other options.  It holds if,
\* besides, Kill sees what runs (no "filter").
HonorsInit == inited # Down => up["daemon"] \in {inited, Down}

\* From the end of an init on, everything that depends on the working
\* directory runs with the options of that init: nothing is left over from
\* the previous one.  It holds if, besides, no command is broken off, whose
\* handler would go on.
ComponentsAgree ==
  inited # Down => \A c \in WorkDirDependants : up[c] \in {inited, Down}

\* The options that what depends on the working directory runs with.
serving == [c \in WorkDirDependants |-> up[c]]

Promise == INSTANCE InitPromise WITH
  Dependants <- WorkDirDependants, Options <- StartOptions, promise <- inited

\* commands.md:55: init is "starting (or restarting)" the daemon.  All commands,
\* handlers and faults together do what InitPromise says: an init succeeds only
\* with a daemon up that has its own options, and what depends on these then
\* comes and goes with no others.  It holds if init runs alone, Kill sees what
\* runs and no command is broken off.
KeepsPromise == Promise!PromiseSpec
=============================================================================
