# source{d} Engine in TLA+

Specifications of the parts of source{d} Engine whose correctness depends on
the order in which processes, goroutines and Docker requests happen, the TLC
runs that check them on small instances, and proofs for instances of any size.
Paths below are relative to the repository.

## The system

`srcd` is a CLI; `srcd-server`, the *daemon*, is a gRPC server in a container;
everything else (gitbase, bblfshd, the mysql client, the web UIs) is a
container too, a *component*. Nothing but three things is shared: the Docker
engine, which both the CLI and the daemon talk to, and in `~/.srcd` the state
file and the config file. No lock protects any of them, and the engine
serialises single requests only.

| Component | State | Operations | Hard parts | What makes it correct |
|---|---|---|---|---|
| Container start and removal, `docker/docker.go` | containers, networks and images of the engine | `InfoOrStart`, `Start`, `forceContainerCreate`, `connectToNetwork`, `EnsureInstalled`, `RemoveContainer` | check-then-act in every step; racing callers; failed and late requests; crashes of the caller | racing callers do not all fail; a call starts its own container only; no running container stays off the network |
| Version choice, `docker/dockerhub.go` | loop variables | `GetCompatibleTag` | tags come in no order, 0.x, pre-releases | the newest compatible tag, whatever the order; tells of breaking releases |
| Deferred messages, `cmd/srcd/cmd/defered.go`, `readDaemonLogs` in `root.go` | four channels, four goroutines, one log stream | `Print`, its cancel function, `InputFn` | rendezvous between goroutines that may have gone; a timer that races stop | cancel returns; nothing is printed after it; the stream is closed |
| Daemon client, `cmd/srcd/daemon` | `.state.json`, the daemon's container | `Kill`, `Start`, `ensureStarted`, `Client`, `CleanUp` | the file and the daemon change under a command; broken-off writes | the daemon has the options of the last `init` |
| Components registry, `components/components.go` | containers, volumes, images and the network, all in Docker | `List` with filters, `Stop`, `Prune`, `Component.Kill` | works through snapshots; an error of a filter counts as "no" | nothing of the previous `init` stays; a `prune` that succeeds has removed all it says |
| Daemon handlers, `cmd/srcd-server/engine` | the daemon's options; per handler, how far it got | `StartComponent`, `StopComponent`, `run`, the StartFuncs, `SQL` | handlers run concurrently and outlive their client | dependencies first, with the daemon's options; nothing is left running off the network unless Docker refused it |
| Waiting for gitbase, `ensureConnReady` and `pingDB` in `sql.go` | a goroutine and a channel for each ping, one for the wait | the two timeouts, the pings, the daemon's handler of each | answers after their timeout; handlers that overlap and start gitbase; goroutines left at their send | "ready" means that gitbase answered; the wait ends |
| SQL session, `sql.go` and `Attach` in `docker.go` | the mysql client's container, one name for all of them; four goroutines a process | `runMysqlCli`, `attachStdio`, `stopMysqlClient`, the handler of SIGINT | sessions remove each other's container; a signal races the deferred stop; input that stays open | a query that was cut off fails; no client stays behind; a session ends |
| Commands, `cmd/srcd/cmd` | the process | `init`, `stop`, `prune`, `components`, `sql`, `web`, `parse`, `version` | two CLI processes at once, Ctrl-C, clients that die while their handler goes on | what the documents say of each |

A command calls `daemon.Client`, which starts the daemon if none runs, and so
does every reader of the daemon's log, in a command that is under way; the
daemon's handler starts the component and its dependencies through
`docker.InfoOrStart`, each with the working directory and the configuration
that the daemon was started with. `sql` has gitbase started, pings it until it
answers, and attaches a mysql client to it; `web` has gitbase and then the web
component started and stops the latter on Ctrl-C. `stop` and `prune` talk to
Docker only and take the daemon down with the rest. `init` kills what depends on
the working directory, records directory and configuration in the state file and starts a
daemon with them; any later command that finds no daemon starts it from that
file.

## Modules

| Module | Models | Used by |
|---|---|---|
| `DockerEngine` | the engine as this code uses it (external): one action per request | `ContainerStart`, `SqlSession` |
| `ContainerStart` | `docker.go`: every call of `InfoOrStart` and `RemoveContainer`, one request per step | `MCContainerStart` |
| `ComponentSlot` | abstract: what `docker.go` promises of the container of a name | instantiated by `ContainerStart` and `SqlSession` |
| `CompatibleTag` | `dockerhub.go` with the comparison of `blang/semver` | `MCCompatibleTag` |
| `Defered` | `defered.go` and `readDaemonLogs` | its own runs |
| `DaemonLifecycle` | `cmd/srcd/daemon`, the commands `init`, `stop`, `prune` and any that calls the daemon, the daemon's handlers | `MCDaemonLifecycle` |
| `InitPromise` | abstract: what `init` promises of the daemon and of what depends on the working directory | instantiated by `DaemonLifecycle` |
| `ConnReady` | `ensureConnReady` and `pingDB` of `sql.go`, and the handler `SQL` of `engine/sql.go` up to the first row | its own run |
| `SqlSession` | the `sql` command once gitbase is ready, with `Attach` of `docker.go` | `MCSqlSession` |
| `ComponentRun` | `engine/components.go`, the StartFuncs, `CreateVolume`, and the commands `components start`, `web`, `sql` and the reader of the daemon's log, each with the start of the daemon | `Prune` |
| `Prune` | `Prune` of `components.go` with the removals of `docker.go`, composed with `ComponentRun` | `MCPrune` |
| `*Proofs` | theorems about the module they are named after (`PruneProofs`: about `ComponentRun` too; `DockerEngineProofs`: lemmas about requests, for `ContainerStartProofs` and `SqlSessionProofs`) | |

Operators that start with "A wrong ..." are plausible bugs, next to the action
they belong to. `Next` never uses them: they show that a property notices.

### ComponentSlot and InitPromise

Abstract specifications. `slotOf[n]` (`DockerEngine`) shows the container of
name `n`, as `ContainerStart` and `SqlSession` refine it. `Joinable` is where
they differ: `Start` connects a container once it runs, `Attach` before.
`InitPromise` sees the options that the last `init` that succeeded was given
(`inited`) and what runs with which options (`serving`). Crashes of commands,
errors of filters and two `init` at once break the promise; the runs and the
theorem are without these (see the disagreements).

### ContainerStart

`pc[p]` is the request that process `p` makes next, `call[p]` what it was
called with and the container id it holds. `InfoOrStart` with its StartFunc is
one chain: `IsRunning`, `IsInstalled`, `Pull`, `Create`, on any error
`Conflict`, `ForceRemove`, `Recreate`, then `StartContainer`,
`NetworkInspect`, `CreateNetwork`, `ConnectToNetwork`, `Info`. Requests go by
name where the code's do and by id where they go by id; that difference is
what the races are about. `Faulty` selects what may fail: each request, the
lost answer of a request that took effect (`startLost`, and
`MadeUnseen`: a container made by a create that reported an error), a pull
that breaks off unseen, a container that exits, a caller that dies. An id
nobody holds may be given again, which stands for Docker's fresh ids.
`asked[n]` is history for `Converges`.

### CompatibleTag

The loop meets the tags one by one in any order, any number of times, which
stands for the list of the registry; one that does not parse changes nothing.
A version 0.0.0 is excluded (`VersionsAssumption`): the code uses the zero
value of `semver.Version` for "none".

### Defered

One location for each goroutine. A send on an unbuffered channel and its
receive are one step of both sides. `settings` are chosen at the start: the
form of the message, the log level, and whether there is a terminal.
`readDaemonLogs` gets a stream or an error from `GetLogs`. `SilentAfterCancel` is
about the message and the lines; what the reader itself logs of an error of the
scan (`root.go:92`) is not modelled and may come after cancel.

### DaemonLifecycle

`up[c]` holds the options that a component's container was started with,
`file` and `config` the two files, `cmd`, `pc`, `opts`, `check`, `todo` the CLI
process, `srv` and `left` the handler of its request. A handler goes on when
its client has died, but not when the daemon's container goes. Saving is two
steps: `os.Create` empties the file, `Encode` fills it. A start that fails may
have removed what bore the name and may have left its own container up
(`docker.Start` returns the error of the connection), and a `prune` whose
containers are gone may fail at the volumes, the network or the images before
`CleanUp`.

What it assumes of its surroundings:

- the start of one container is one step; a container that has exited counts as
  none, since every start replaces it (`ContainerStart` has both in detail);
- `Alone` is the set of commands a user runs while nothing else runs. `init` is
  in it for the properties about `init`: see the disagreements below;
- the config file is edited while no command runs;
- one request per CLI process is followed; the mysql client, which no
  configuration reaches, and `bblfsh-web`, which is as `gitbase-web` with fewer
  dependencies, are left out here (`SqlSession` and `ComponentRun` have them).

### ConnReady

`outer` is the select of `ensureConnReady`, `loop` its goroutine, and for each
ping there are a `worker` (the goroutine of `pingDB`), a context (`over`), a
`handler` in the daemon and what it sent (`reply`). `Pings` is a set of slots:
a slot is taken again when nothing of its last ping can move any more, so the
number of pings is not bounded, only how many are under way. A worker whose
ping is over stays at its send; one whose error was received goes on to a
second send, or, if `client.SQL` itself failed, to a call on a nil stream, which
ends the process (`Panic`). Handlers do not heed the context of a ping: they
look for gitbase, start it (which replaces what bears the name) and query it. A
start is one step.

### SqlSession

`pc[p]` is the main goroutine from `Attach` to the deferred `stopMysqlClient`,
`sig[p]` the one that waits for SIGINT, `inp[p]` and `out[p]` the two that copy,
`own[p]` the id that Docker gave `p`. All clients have the name `MysqlCli`, so
`Conflict` and `StopInfo` find whatever bears it, another session's container
included. `status[p]` is how mysql ended by itself, as opposed to being removed.
`MadeUnseen` is a container that Docker made although the create reported an
error. `Interrupt` is a SIGINT; before `signal.Notify` it ends the process at
once. In a query it is Ctrl-C. A shell on a terminal is in raw mode
(`sql.go:224`), where Ctrl-C is a byte that is copied to mysql: its SIGINT is
one that another process sends. `NoShell` is a terminal that cannot be set to
that mode; a shell whose input is an empty pipe has none. In a shell the
error is overwritten by that of `RestoreTerminal`, hence the choice in
`ShellReturns`; with a query it is not. `left` is history: what a session left
whose `Attach` or stop failed or that was killed, as nothing in the code would
remove it.

### ComponentRun

`ctr[c]` is the container of each component and of the two that the CLI makes
itself, the daemon and the mysql client. A command begins with `ensureStarted`,
which starts a daemon if none is up; then it goes by its request: `start` is
`components start`, `sql` and `web` of gitbase-web ask for gitbase first, and `logs` is the
reader of the daemon's log, which wants nothing but the daemon. `step[p]` is what
is done next for `p`, by the CLI if it is about one of its own containers
and else by the handler of `p`'s request; `todo[p]` has the containers `run` has yet
to go through in the order of dependencies. A client that dies leaves its handler
behind (`gone[p]`); only the StartFunc of bblfshd hands the context of the
request to Docker (`Canceled`), the others make one of their own. Handlers end
with the daemon, whoever removes or replaces it (`DaemonEnds`).

`InfoOrStart` is eight steps: look, install, create, remove and create again,
three for the network, and info; `docker.Start`'s creation and start are one. `connectToNetwork` inspects, creates
if any error came back, and connects; each request may fail, or the time of
the StartFunc be over, which is the fault `"connect"`. `net` counts the networks of
the name up to two: two starts may each create one, and Docker then refuses
the name, which is ambiguous. (`ContainerStart` lets Docker take any of them; a
refusal is its fault `"connect"`.) `ctr[c].by` is the client for which a
container is being connected, and `ctr[c].net` = `"cut"` is history: Docker has
refused to connect or to start it, or the daemon ended before it could.
The mysql client is connected first and started last, as `Attach` does
(`Run`).

`CreateVolume` inspects and then creates; `HostPath` after it only fails or not,
which the fault `"volume"` covers. The errors of both are shadowed
(`NoVolume`): the answer is port 0 and no error. `ensureConnReady` is one step
that succeeds or not. Of the containers only the daemon ends by itself
(`DaemonExits` of `Prune`); that others do is in `ContainerStart`. `seen[p]` is
history for `DependenciesFirst`.

### Prune

Extends `ComponentRun` by one `prune` that runs against all of its commands and
handlers: each of containers, volumes and images is listed (`snap`) and removed
one by one, the network in between. The inspection of the network and
its removal are one step. Whether `--with-images` was given is decided where it
first matters. `stop` is the part up to `"stopped"`. The daemon is one of the
containers: when it goes all handlers go, wherever they are; but any
command, and any reader of the log, may start it again at any time.
`before` is history: what `prune` met when it listed the containers and what of
it is still there. So is `restarted`: that a daemon has run since `prune` removed
it, or found none.

## Runs

| Run | Shows | Bounds |
|---|---|---|
| `faults` | `Converges`, `NoStrayContainer` when everything up to the start may fail | 3 processes, 1 name, 4 ids, 3 networks |
| `all_faults` | `TypeOK`, `StartsItsOwn`, `ImplementsSlot` under every fault | 2 processes, 1 name, 2 configurations, 3 ids, 2 networks |
| `defered` | `TypeOK`, `SilentAfterCancel`, `SpinnerIsEnded`, `CancelReturnsBut`, `LogsReleased` for every form, level and answer of `GetLogs` | none: all states |
| `tag` | `TypeOK`, `NewestCompatible`, `TellsReleases` | 11 versions |
| `life_all` | `TypeOK`, `RecordsInit` under every fault | 2 CLI processes, 2 directories, 1 configuration |
| `life_agree` | `HonorsInit`, `ComponentsAgree`, `KeepsPromise` without filter errors and broken-off commands | 2 CLI processes, 2 directories, 2 configurations |
| `conn` | `TypeOK`, `ReadyIsAnswered`, `PingsLeaveItRunning`, `WaitEnds` under every fault | 3 pings under way |
| `session` | `TypeOK`, `QueryIsHonest`, `NoClientLeft`, `ImplementsSlot` under every fault | 2 CLI processes, 3 ids |
| `session_live` | `SessionEnds`, `InterruptEnds` without faults | 2 CLI processes, of which one runs queries only, 2 ids |
| `resources` | `PruneTypeOK`, `DependenciesFirst`, `OnlyBblfshdStrays`, `PruneIsThorough` under every fault | 2 clients, 3 plans of commands, 2 volumes, constraint `Bounded` |
| `vspinner`, `vshadow` | a statement of the repository that the code violates, see below | as small as the case allows |

Why the bounds are enough. A call touches one name and holds one id; two
processes give every interleaving of a pair, a third one the case where one
process removes what the second made for the third's benefit, and there is one
id more than there are processes, so that a fresh one can always be had.
Names do not interact except through images and networks; the theorems hold
for any number of them. The eleven versions lie on both sides of every boundary:
patch, minor and major, below and above 1.0.0, with two pre-releases in a row.
In `DaemonLifecycle` a second directory is all it takes to tell "the last
`init`" from anything else; two CLI processes give a command that is broken off
or stuck while the next one runs, and each process may go through any number of
commands. In `ConnReady` three slots give a ping that is waited for, a late
handler that starts gitbase and another that has just looked. Two sessions in
`SqlSession` remove each other's container in every order, and each process
runs one session after the other, so that a third one may come in between; a
third id lets a session create while two containers that are gone are still
held by id. The liveness run has two queries, or a query and a shell, which has
the more goroutines and the input that stays open; what a session does to the
container of another does not depend on its mode. It leaves faults out to keep
it small.

`resources` explores three plans, chosen at the start: two clients that start
bblfshd, each with the daemon first, which is where they meet in every step;
one client at a time that runs `web` commands and the log reader; and one
at a time that runs `sql`, both of which go through four containers and leave the
handlers of dead clients behind until the next begins. `MCPrune` names what
is cut off: in the plans of one client a container that Docker has refused ends
the behaviour, and in all of them so does a `prune` that has failed or was a
`stop`, and a daemon that was started again when `prune` has succeeded, as
nothing is claimed there any more. All other behaviours are explored, which is
1.2 million states. What is not gitbase's volume stands for those of other
directories. `PruneProofs` has the invariants for any number of
clients and any commands.

No other run has a constraint and none has a counter: TLC explores all of each
instance. Symmetry is used in runs of invariants, and for the refinements,
which are properties of single steps: as no definition tells one id, process or
directory from another, a step satisfies them exactly if its permutations do.

Where deadlock is not checked the system does stop: in `defered` and `vspinner`
cancel blocks for good, which is what `CancelReturnsBut` and the violation are
about; `tag` ends when the function returns; in `conn` the process has ended.

### Fairness

Go runs every goroutine that can run, and Docker answers requests: weak fairness
for each goroutine, stated once per goroutine and not per action.

**Defered.** `select` chooses at random among ready cases, so a reader
that gets to its `select` again and again with stop closed takes it (strong
fairness of `ReaderStops`; without it a daemon that never stops logging could
starve it). Nothing obliges the timer to fire or the scan of an open stream to
return: `LogsReleased` holds for a daemon that logs nothing more. `InputFn`
is fair as `GetLogs` is assumed to answer.

**ConnReady.** The workers, the goroutine of the wait and the handlers are
fair, and a sleep ends. The timeouts are not obliged to win. gitbase need not
serve: `WaitEnds` says what follows if it does in the end and if from some time
on no ping times out or fails, for with pings that time out for ever the wait
does end only by its own timeout.

**SqlSession.** The main goroutine, the copying of the output and the goroutine
of the signal are fair. Nothing obliges mysql to exit, the user to close the
input or anybody to send a SIGINT, so `SessionEnds` is about a session whose
client has gone, and `InterruptEnds` about one that caught a SIGINT.

Racing callers of `InfoOrStart` can remove each other's containers for as long
as new calls come, so "a call gets through" is not claimed; `Converges` says
what holds when they stop.

## Proofs

All for any values of the constants that satisfy the named assumptions.

- **ContainerStart.** `SafeInv`, inductive under every fault: types, names are
  unique, a process at a label of `Starting` has its arguments, and an id a
  process owns (between create and connect) is its own: nobody else owns it and
  while it exists it has that call's name and configuration. `StartsItsOwn`
  follows. `StartsItsOwn` alone is not inductive, as it does not say that the
  container about to be removed bears the name of the call that removes it
  (`HeldByName`) and that names are unique. For `Converges` and
  `NoStrayContainer`, with `Faulty \cap LateFaults = {}`, the invariant is
  `ConvergenceInv`: a name that was asked for is served, or some process
  pursues it (`Pursues`): it is at a step with what the rest of its way needs, so that
  only another process can make it fail. Whoever makes it fail pursues the name
  itself by then. `Imaged` adds that the image of a container is installed,
  without which a second create could fail with nobody left.
- **ComponentSlot.** `SlotRefinement`, of `ContainerStart` and of `SqlSession`:
  each step changes at most one slot, as one of `Make`, `Start`, `Join`, `End`,
  `Remove`, under every fault. `DockerEngineProofs` has a lemma for each request:
  what it does to the containers (`CreateEffect`, ...) and what of it the slots
  show (`CreateShows`, ...). All rest on names being unique, so that the slot of
  a name shows its one container. `ContainerStart` has that in `SafeInv`;
  `SqlSession` in `OneName`, and `Untouched` says that what a session is about to
  connect or to start is as it was created.
- **CompatibleTag.** The order of versions is transitive, total and asymmetric,
  and `breakingV` separates the versions of one line from those after it. The
  invariant says what `newestV` and `hasNew` are of the tags seen so far.
- **Defered.** `SilentAfterCancel`, `SpinnerIsEnded`, with an invariant that ties
  the place of the printer to that of its caller (`PrinterEnds`) and to what was
  shown (`SpinnerLoop`).
- **ConnReady.** `ConnInv`: a slot with an answer has no handler
  (`AnsweredOnce`), so that a `row` is not overwritten; a worker at its `nil` has
  read a row while its ping is the one waited for (`NilIsRow`), as the `nil` that
  follows an error comes when the goroutine has moved on; and as long as gitbase
  did not exit no handler is about to start it (`NeverDown`). `ReadyIsAnswered`
  alone is not inductive: it says nothing of the answers that are on their way.
- **SqlSession.** `SessionInv`: there is at most one container and no id belongs
  to two sessions (`OneName`); a session without a container has no id of its
  own (`Shape`); what the deferred stop is about to remove is its own, or its own
  is gone already (`StopsOwn`), which is why a session that removes "whatever
  bears the name" cannot leave its own behind; a container that ended is not
  started again (`EndsOnce`); nor does anyone but its session connect or start it
  (`Untouched`). `QueryIsHonest` and `NoClientLeft` are conjuncts of
  the induction too, under every fault.
- **DaemonLifecycle.** Three layers. `Inv0`: types, which labels a command can be
  at, that it holds options where it needs them; under every fault. `Inv1`, if
  `init` runs alone: after `init` saved, the file holds its options
  (`Written`), no other command writes while `init` runs (`Exclusive`,
  `Pending`), and one that restarts the daemon has read the file (`Settling`);
  this gives `RecordsInit`. `Inv2`: whatever runs with other options while an
  `init` goes on is `Doomed`, that is, still among what `Kill` has to look at
  or to remove (`Handling`, `Asking` bound where handlers can be). With it and
  without filter errors, `HonorsInit`; without crashes besides, when no handler
  is left while `init` kills (`Waiting`), `ComponentsAgree`. From that,
  `InitPromiseKept`: each step changes at most one of the containers
  (`OneChange`), and `init` succeeds only when its daemon was started or found up
  (`DaemonUp`), which is a `Give`; every other step is a `Change`, a `Void` or a
  stutter.
- **ComponentRun and Prune.** One invariant for the composition, under every
  fault, so that what it says of `ComponentRun` holds with a `prune` going on.
  `Paired` ties the place of a client to that of its handler, `InOrder` what a
  handler has left (`Rests`) to what it has seen (`Before`): with them
  `DependenciesFirst`, which alone does not say that the rest of the list is
  in order. For `OnlyBblfshdStrays`, what runs unconnected is being connected
  (`Unconnected`), and whoever connects a container is at a step on the way to
  it (`Owned`): a handler loses a container it has started only to one that replaces
  it, to Docker's refusal, to the end of the daemon, or, with bblfshd, to the
  death of its client.
  For `PruneIsThorough`: what `prune` met goes part by part (`Cleared`), whoever
  makes new ones meanwhile, as a name is listed at most once and what has
  been removed is no longer what was met. The rest is about a `prune` after which no
  daemon was started: handlers go with the daemon (`NoHandlers`), so nothing
  comes behind what has been listed (`Orphaned`). `Holds` relates what Docker
  does not let go to what uses it: gitbase its volume, what runs its
  image; `prune` removing the former shows that the latter is gone.

`HonorsInit` is checked by TLC without `"crash"` and proved with it.

Only model-checked: `CancelReturnsBut`, `LogsReleased`, `WaitEnds`, `SessionEnds`
and `InterruptEnds`, since liveness under fairness is out of reach of the
prover.

## Disagreements between code and documents

Files are named without their directory here; `PROJECT.json` has full paths and
the sentences the runs refute. Kept as runs that end with a counterexample:

- `vspinner`: a spinner below the info level returns without a send on `done`,
  and the command hangs in cancel (`defered.go:107`).
- `vshadow`: when the volume of gitbase cannot be made, `StartComponent` answers
  without an error and nothing was started: each case of the switch declares an
  `err` of its own, and the outer one, which is returned, is nil
  (`engine/components.go:85`; the comment at `:73` says that it starts the
  container).

Known disagreements, met while modelling and not kept as runs:

- A start whose connection to the network fails, or takes longer than the 60 s
  of its StartFunc, leaves the container up and off the network for good, as
  `InfoOrStart` takes any running container as it is (`docker.go:428`;
  `docs/architecture.md:115` says the network holds all containers). Hence
  `NoStrayContainer` without late faults, and `OnlyBblfshdStrays` without what
  Docker refused.
- When `GetLogs` fails the printing goroutine ranges over a nil channel and the
  command hangs in cancel (`root.go:70`): one of the two exceptions of
  `CancelReturnsBut`.
- An error of Docker in the filters of `Kill` counts as "not running"; `init`
  then reports success with the old daemon (`components.go:209`). Hence
  `HonorsInit` without `"filter"`.
- A CLI that dies between `os.Create` and `Encode` leaves a state file that no
  command can decode: all that would start the daemon fail until the next `init`
  or `prune` (`daemon.go:120`). `RecordsInit` says only that the file is not
  torn once an `init` has ended.
- After a change of the config file, `stop` is not enough: the next command
  starts the daemon with the configuration in the state file, or with the
  defaults (`daemon.go:174`; `config.go:19` says "init (or stop)").
- A ping whose `client.SQL` fails is followed by a call on the nil stream: `sql`
  and `web` panic where they would try again (`sql.go:157`;
  `CHANGELOG.md:139` says the engine waits until it is ready). `WaitEnds` counts
  the end of the process as an end of the wait.
- After gitbase has exited, the handler of an earlier ping may replace the one
  that was meanwhile started again and reported ready (`engine/sql.go:28`;
  `PingsLeaveItRunning` is stated for a gitbase that did not exit).
- The end of a session removes the client of the session that took the name
  (`sql.go:266`), and the Ctrl-C of one `web` stops the component of another
  (`web.go:114`). No document says how two of them share.
- A container that a handler makes after the listing of `prune` and before the
  daemon goes is left, not connected (`components.go:327`;
  `docs/commands.md:76` says "all containers"). And a command or a reader of the
  log that finds no daemon starts one while `prune` goes on
  (`daemon.go:151`): if it is not connected yet when `prune` comes to the
  network, `prune` succeeds, the daemon stays and makes the network again. Hence
  `PruneIsThorough` speaks of what `prune` met, and of more only if no daemon
  was started again.
- A `components start` that is broken off while bblfshd is started leaves
  it up and off the network (`engine/parse.go:123`), the exception of
  `OnlyBblfshdStrays`.
- `forceContainerCreate` removes whatever bears the name, a running container of
  another caller included, where `docker.go:409` says "stopped"
  (`docker.go:452`).
- Two first starts at once make two networks of one name (`docker.go:557`;
  `architecture.md:115` says "a single bridge network"). If Docker takes one of
  them for the name, as in `ContainerStart`, each container still joins one; if it
  refuses the name as ambiguous, as in `ComponentRun`, later starts fail to
  connect, and `prune` fails too.
- A pre-release CLI is told of breaking changes when there is only its own final
  release or a later pre-release (`dockerhub.go:107`; `dockerhub.go:15`).
- An `init` that runs together with a command that is about to start the daemon
  reports success with that command's directory (`daemon.go:206`;
  `CHANGELOG.md:86`). Hence `Alone`.
- The handler of a command that was broken off may start gitbase with the old
  directory while `init` kills (`daemon.go:59`; `cmdtests/init_test.go:201`).
  Hence `ComponentsAgree` without `"crash"`.
- A web component that runs keeps its ports over an `init`
  (`components.go:137`; `config.go:19`).

## Not modelled, and what comes next

All parts of the system where processes, goroutines or requests meet have a
module, and every safety property that a run checks has a proof. What ties the
modules to each other is argued above and not proved: that a start, one step in
`DaemonLifecycle` and `ConnReady` and eight in `ComponentRun`, is the chain of
requests of `ContainerStart`. A refinement could say it of an abstract slot
that is replaced in one step; `ComponentSlot` makes and starts a container in
steps of their own, and the start of `ComponentRun` does both in one.

Not modelled:

- ports: that the daemon answers with the port asked for and not with the one a
  running component has (`engine/components.go:90`), and that `daemon.Client`
  takes the first port of whatever container bears the daemon's name
  (`daemon.go:89`). A port is only printed or dialled: it changes no state.
- `parse`, `version`, `parse drivers`, `components list` and `install`: one
  request, or none, and its output. What they share with others, the start of
  the daemon and of bblfshd, is in `DaemonLifecycle` and `ComponentRun`.
- the streaming of rows after the first, UASTs, the table writer, the resizing
  of the terminal, `Linify`, HTTP to the registry, YAML and the editor: no
  state that two parties share.
- the gRPC code generated from the API, the command tests, and the vendored
  libraries except for the order of versions.
