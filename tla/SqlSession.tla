----------------------------- MODULE SqlSession -----------------------------
(***************************************************************************)
(* The sql command once gitbase is ready: Attach of docker/docker.go and   *)
(* runMysqlCli, attachStdio and stopMysqlClient of cmd/srcd/cmd/sql.go.    *)
(* Each CLI process runs mysql in a container, and all of these containers *)
(* have one name.  So the processes meet: a session that starts removes    *)
(* the container of one that runs, and one that ends removes whatever      *)
(* bears the name.  In a process there are the main goroutine, the one     *)
(* that waits for a signal, the one that waits for the exit code, and, in  *)
(* a shell, one that copies the input and one that copies the output.      *)
(***************************************************************************)
EXTENDS DockerEngine

CONSTANTS
  Clis,      \* CLI processes; each may run one session after the other
  MysqlCli,  \* components.MysqlCli.Name
  Modes,     \* with a query (from the command line or a pipe), or a shell
  Faulty     \* what may fail, see Faults

\* The requests to Docker that fail; "copy": the terminal cannot be set, the
\* output not be copied or the input not be written; "crash": the process is
\* killed.
Faults == {"create", "list", "remove", "connect", "attach", "start", "wait", "copy", "crash"}

ASSUME SessionAssumption ==
  /\ MysqlCli \in Names
  /\ Modes \subseteq {"query", "shell"} /\ Modes \subseteq Confs
  /\ Faulty \subseteq Faults

VARIABLES
  pc,      \* pc[p]: where the main goroutine of p is
  mode,    \* mode[p]: what p runs
  own,     \* own[p]: the id that ContainerCreate gave p
  target,  \* target[p]: the id that p's main goroutine is about to remove
  sig,     \* sig[p]: the goroutine that waits for a signal
  sigId,   \* sigId[p]: the id that goroutine is about to remove
  inp,     \* inp[p]: what io.Copy of the input returned
  out,     \* out[p]: what io.Copy of the output returned
  status,  \* status[p]: how mysql in p's container ended by itself
  result,  \* result[p]: what p is about to return
  left     \* history: the containers that their sessions did not remove

vars == <<engine, pc, mode, own, target, sig, sigId, inp, out, status, result, left>>

main == <<pc, mode, own, target, result>>
signal == <<sig, sigId>>
streams == <<inp, out>>

Attaching == {"create", "conflict", "forceRemove", "recreate", "connect", "attach", "start"}
Running == {"copy", "exitCode", "select", "output"}
Stopping == {"stopInfo", "stopRemove"}

\* Where p's main goroutine will still come by the deferred stopMysqlClient.
OnDuty == {"notify"} \cup Running \cup Stopping

IdOrNil == Ids \cup {Nil}

TypeOK ==
  /\ EngineTypeOK
  /\ pc \in [Clis -> {"idle", "notify"} \cup Attaching \cup Running \cup Stopping]
  /\ mode \in [Clis -> Modes \cup {Nil}]
  /\ own \in [Clis -> IdOrNil]
  /\ target \in [Clis -> IdOrNil]
  /\ sig \in [Clis -> {"off", "armed", "info", "remove", "done", "failed"}]
  /\ sigId \in [Clis -> IdOrNil]
  /\ inp \in [Clis -> {"none", "copying", "eof", "error"}]
  /\ out \in [Clis -> {"none", "copying", "eof", "error"}]
  /\ status \in [Clis -> {"none", "zero", "nonzero"}]
  /\ result \in [Clis -> {"none", "ok", "failed"}]
  /\ left \in SUBSET Ids
  /\ \A p \in Clis :
       /\ pc[p] \in {"forceRemove", "stopRemove"} => target[p] # Nil
       /\ sig[p] = "remove" => sigId[p] # Nil

\* The image was installed and the network made when gitbase was started.
Init ==
  /\ ctr = [i \in Ids |-> Absent] /\ nets = Nets /\ images = {MysqlCli}
  /\ pc = [p \in Clis |-> "idle"] /\ mode = [p \in Clis |-> Nil]
  /\ own = [p \in Clis |-> Nil] /\ target = [p \in Clis |-> Nil]
  /\ sig = [p \in Clis |-> "off"] /\ sigId = [p \in Clis |-> Nil]
  /\ status = [p \in Clis |-> "none"]
  /\ inp = [p \in Clis |-> "none"] /\ out = [p \in Clis |-> "none"]
  /\ result = [p \in Clis |-> "none"]
  /\ left = {}

-----------------------------------------------------------------------------
Set(f, p, v) == [f EXCEPT ![p] = v]

Goto(p, from, to) == pc[p] = from /\ pc' = Set(pc, p, to)

\* The client's container is up, so its output stays open.
Up(p) == own[p] # Nil /\ IsUp(own[p])

\* The process of p ends, and its goroutines with it.
Ends(p) ==
  /\ pc' = Set(pc, p, "idle") /\ mode' = Set(mode, p, Nil)
  /\ own' = Set(own, p, Nil) /\ target' = Set(target, p, Nil)
  /\ sig' = Set(sig, p, "off") /\ sigId' = Set(sigId, p, Nil)
  /\ status' = Set(status, p, "none")
  /\ inp' = Set(inp, p, "none") /\ out' = Set(out, p, "none")
  /\ result' = Set(result, p, "none")

\* It ends and will not have removed its container.
Leaves(p) ==
  /\ Ends(p)
  /\ left' = left \cup ({own[p]} \cap {i \in Ids : Exists(i)})

Removes(i) == ContainerRemove(i) /\ left' = left \ {i}

Execute(p, m) ==
  /\ Goto(p, "idle", "create")
  /\ mode' = Set(mode, p, m)
  /\ UNCHANGED <<engine, own, target, result, left, signal, status, streams>>

-----------------------------------------------------------------------------
(* forceContainerCreate. *)

FreshId(i) ==
  \A p \in Clis : i # own[p] /\ i # target[p] /\ i # sigId[p]

Created(p) ==
  \E i \in Ids :
    /\ FreshId(i)
    /\ ContainerCreate(i, MysqlCli, mode[p])
    /\ own' = Set(own, p, i)
    /\ pc' = Set(pc, p, "connect")
    /\ UNCHANGED <<nets, images, mode, target, result, left, signal, status, streams>>

\* Docker makes the container, and the answer is an error all the same.
MadeUnseen(p) ==
  \E i \in Ids :
    /\ FreshId(i)
    /\ ContainerCreate(i, MysqlCli, mode[p])
    /\ left' = left \cup {i}
    /\ UNCHANGED <<nets, images>>

CreateRefused == Named(MysqlCli) # {} \/ "create" \in Faulty

Create(p) ==
  /\ pc[p] = "create"
  /\ \/ Created(p)
     \/ /\ CreateRefused
        /\ pc' = Set(pc, p, "conflict")
        /\ UNCHANGED <<engine, mode, own, target, result, left, signal, status, streams>>
     \/ /\ "create" \in Faulty
        /\ MadeUnseen(p)
        /\ pc' = Set(pc, p, "conflict")
        /\ UNCHANGED <<mode, own, target, result, signal, status, streams>>

\* A wrong forceContainerCreate: the container it finds will do.
ConflictReuses(p) ==
  /\ pc[p] = "conflict"
  /\ pc' = Set(pc, p, "connect")
  /\ \E i \in Named(MysqlCli) : own' = Set(own, p, i)
  /\ UNCHANGED <<engine, mode, target, result, left, signal, status, streams>>

\* A wrong forceContainerCreate: it uses the answer of Info without a look at
\* the error.
ConflictUnchecked(p) ==
  /\ pc[p] = "conflict"
  /\ pc' = Set(pc, p, "forceRemove")
  /\ \/ \E i \in Named(MysqlCli) : target' = Set(target, p, i)
     \/ Named(MysqlCli) = {} /\ UNCHANGED target
  /\ UNCHANGED <<engine, mode, own, result, left, signal, status, streams>>

Conflict(p) ==
  /\ pc[p] = "conflict"
  /\ UNCHANGED engine
  /\ \/ \E i \in Named(MysqlCli) :
          /\ pc' = Set(pc, p, "forceRemove")
          /\ target' = Set(target, p, i)
          /\ UNCHANGED <<mode, own, result, left, signal, status, streams>>
     \/ /\ Named(MysqlCli) = {} \/ "list" \in Faulty
        /\ Ends(p)
        /\ UNCHANGED left

ForceRemove(p) ==
  /\ pc[p] = "forceRemove"
  /\ \/ /\ Removes(target[p])
        /\ pc' = Set(pc, p, "recreate")
        /\ target' = Set(target, p, Nil)
        /\ UNCHANGED <<mode, own, result, signal, status, streams>>
     \/ /\ ~ Exists(target[p]) \/ "remove" \in Faulty
        /\ Ends(p)
        /\ UNCHANGED <<ctr, left>>
  /\ UNCHANGED <<nets, images>>

Recreate(p) ==
  /\ pc[p] = "recreate"
  /\ \/ Created(p)
     \/ /\ CreateRefused
        /\ Ends(p)
        /\ UNCHANGED <<engine, left>>
     \/ /\ "create" \in Faulty
        /\ MadeUnseen(p)
        /\ Ends(p)

-----------------------------------------------------------------------------
(* The rest of Attach.  When it fails nobody stops the client. *)

Fails(p, f) ==
  /\ f \in Faulty \/ ~ Exists(own[p])
  /\ Leaves(p)
  /\ UNCHANGED ctr

Connect(p) ==
  /\ pc[p] = "connect"
  /\ \/ /\ \E k \in Nets : NetworkConnect(k, own[p])
        /\ Goto(p, "connect", "attach")
        /\ UNCHANGED <<mode, own, target, result, left, signal, status, streams>>
     \/ Fails(p, "connect")
  /\ UNCHANGED <<nets, images>>

AttachStreams(p) ==
  /\ pc[p] = "attach"
  /\ \/ /\ Exists(own[p])
        /\ Goto(p, "attach", "start")
        /\ UNCHANGED <<ctr, mode, own, target, result, left, signal, status, streams>>
     \/ Fails(p, "attach")
  /\ UNCHANGED <<nets, images>>

Start(p) ==
  /\ pc[p] = "start"
  /\ \/ /\ ContainerStart(own[p])
        /\ Goto(p, "start", "notify")
        /\ UNCHANGED <<mode, own, target, result, left, signal, status, streams>>
     \/ Fails(p, "start")
  /\ UNCHANGED <<nets, images>>

-----------------------------------------------------------------------------
(* Execute after runMysqlCli.  SIGINT is caught from here on. *)

Query(p) ==
  /\ mode[p] = "query"
  /\ Goto(p, "notify", "copy")
  /\ out' = Set(out, p, "copying")
  /\ UNCHANGED <<inp, result>>

Shell(p) ==
  /\ mode[p] # "query"
  /\ Goto(p, "notify", "select")
  /\ out' = Set(out, p, "copying") /\ inp' = Set(inp, p, "copying")
  /\ UNCHANGED result

\* The terminal cannot be set to raw mode: nothing is copied.
NoShell(p) ==
  /\ mode[p] # "query" /\ "copy" \in Faulty
  /\ Goto(p, "notify", "stopInfo")
  /\ result' = Set(result, p, "failed")
  /\ UNCHANGED streams

Notify(p) ==
  /\ Query(p) \/ Shell(p) \/ NoShell(p)
  /\ sig' = Set(sig, p, "armed")
  /\ UNCHANGED <<engine, mode, own, target, left, sigId, status>>

\* Once the main goroutine has left, what they return is received by nobody.
OutputEnds(p) ==
  /\ out[p] = "copying"
  /\ \/ ~ Up(p) /\ out' = Set(out, p, "eof")
     \/ "copy" \in Faulty /\ out' = Set(out, p, "error")
  /\ UNCHANGED <<engine, main, left, signal, status, inp>>

\* The user ends the input; a write to a client that is gone fails.
InputEnds(p) ==
  /\ inp[p] = "copying"
  /\ \/ inp' = Set(inp, p, "eof")
     \/ (~ Up(p) \/ "copy" \in Faulty) /\ inp' = Set(inp, p, "error")
  /\ UNCHANGED <<engine, main, left, signal, status, out>>

Returns(p, from, res) ==
  /\ Goto(p, from, "stopInfo")
  /\ result' = Set(result, p, res)
  /\ out' = Set(out, p, "none") /\ inp' = Set(inp, p, "none")
  /\ UNCHANGED <<engine, mode, own, target, left, signal, status>>

Moves(p, from, to) ==
  /\ Goto(p, from, to)
  /\ UNCHANGED <<engine, mode, own, target, result, left, signal, status, streams>>

Copied(p) ==
  \/ out[p] = "eof" /\ Moves(p, "copy", "exitCode")
  \/ out[p] = "error" /\ Returns(p, "copy", "failed")

\* A wrong Attach: code keeps its zero value when ContainerWait fails.
ExitCodeZero(p) ==
  \/ /\ status[p] = "zero" \/ ~ Exists(own[p]) \/ "wait" \in Faulty
     /\ Returns(p, "exitCode", "ok")
  \/ status[p] # "zero" /\ Returns(p, "exitCode", "failed")

\* A wrong query: the status is handed on with os.Exit, which skips the
\* deferred calls.
ExitCodeExits(p) ==
  \/ ~ Up(p) /\ status[p] = "zero" /\ Returns(p, "exitCode", "ok")
  \/ /\ pc[p] = "exitCode"
     /\ status[p] # "zero" \/ ~ Exists(own[p]) \/ "wait" \in Faulty
     /\ Ends(p)
     /\ UNCHANGED <<engine, left>>

\* The goroutine behind ContainerWait sends and Execute receives.  A container
\* that is gone by then is an error, which counts as status 1; one that was
\* killed has a status other than 0, and one that exited may have been waited
\* for before it was removed.
ExitCode(p) ==
  \/ ~ Up(p) /\ status[p] = "zero" /\ Returns(p, "exitCode", "ok")
  \/ /\ status[p] # "zero" \/ ~ Exists(own[p]) \/ "wait" \in Faulty
     /\ Returns(p, "exitCode", "failed")

\* What attachStdio returns does not depend on how mysql ended.  On a terminal
\* the error is overwritten by what RestoreTerminal returns.
ShellReturns(p, from, res) == \E r \in {"ok", res} : Returns(p, from, r)

OutputResult(p) == IF out[p] = "eof" THEN "ok" ELSE "failed"

\* A wrong attachStdio: it waits for the input first.
SelectInput(p) ==
  \/ inp[p] = "eof" /\ Moves(p, "select", "output")
  \/ inp[p] = "error" /\ ShellReturns(p, "select", "failed")

Select(p) ==
  \/ out[p] \in {"eof", "error"} /\ ShellReturns(p, "select", OutputResult(p))
  \/ inp[p] = "eof" /\ Moves(p, "select", "output")
  \/ inp[p] = "error" /\ ShellReturns(p, "select", "failed")

Output(p) == out[p] \in {"eof", "error"} /\ ShellReturns(p, "output", OutputResult(p))

-----------------------------------------------------------------------------
(* stopMysqlClient, deferred in Execute.  Its errors are logged only. *)

StopInfo(p) ==
  /\ pc[p] = "stopInfo"
  /\ UNCHANGED engine
  /\ \/ \E i \in Named(MysqlCli) :
          /\ pc' = Set(pc, p, "stopRemove")
          /\ target' = Set(target, p, i)
          /\ UNCHANGED <<mode, own, result, left, signal, status, streams>>
     \/ Named(MysqlCli) = {} /\ Ends(p) /\ UNCHANGED left
     \/ "list" \in Faulty /\ Leaves(p)

StopRemove(p) ==
  /\ pc[p] = "stopRemove"
  /\ \/ Removes(target[p]) /\ Ends(p)
     \/ ~ Exists(target[p]) /\ Ends(p) /\ UNCHANGED <<ctr, left>>
     \/ "remove" \in Faulty /\ Leaves(p) /\ UNCHANGED ctr
  /\ UNCHANGED <<nets, images>>

-----------------------------------------------------------------------------
(* SIGINT.  Before Notify it ends the process at once; afterwards the      *)
(* first one has the client stopped, and the others are swallowed.  It is  *)
(* Ctrl-C, but for a shell on a terminal, which attachStdio sets to raw    *)
(* mode: Ctrl-C is then a byte of the input, and a SIGINT one that another *)
(* process sends.                                                          *)

Interrupt(p) ==
  \/ /\ sig[p] = "armed"
     /\ sig' = Set(sig, p, "info")
     /\ UNCHANGED <<engine, main, left, sigId, status, streams>>
  \/ /\ sig[p] = "off" /\ pc[p] # "idle"
     /\ Leaves(p)
     /\ UNCHANGED engine

\* A wrong goroutine: it waits for the signal and stops nothing.
SigInfoNothing(p) ==
  /\ sig[p] = "info"
  /\ sig' = Set(sig, p, "done")
  /\ UNCHANGED <<engine, main, left, sigId, status, streams>>

SigInfo(p) ==
  /\ sig[p] = "info"
  /\ \/ \E i \in Named(MysqlCli) : sigId' = Set(sigId, p, i) /\ sig' = Set(sig, p, "remove")
     \/ Named(MysqlCli) = {} /\ sig' = Set(sig, p, "done") /\ UNCHANGED sigId
     \/ "list" \in Faulty /\ sig' = Set(sig, p, "failed") /\ UNCHANGED sigId
  /\ UNCHANGED <<engine, main, left, status, streams>>

SigRemove(p) ==
  /\ sig[p] = "remove"
  /\ \/ Removes(sigId[p]) /\ sig' = Set(sig, p, "done")
     \/ ~ Exists(sigId[p]) /\ sig' = Set(sig, p, "done") /\ UNCHANGED <<ctr, left>>
     \/ "remove" \in Faulty /\ sig' = Set(sig, p, "failed") /\ UNCHANGED <<ctr, left>>
  /\ sigId' = Set(sigId, p, Nil)
  /\ UNCHANGED <<nets, images, main, status, streams>>

Crash(p) ==
  /\ "crash" \in Faulty
  /\ pc[p] # "idle"
  /\ Leaves(p)
  /\ UNCHANGED engine

-----------------------------------------------------------------------------
(* mysql, and srcd stop or prune of another process. *)

MysqlExits(p) ==
  /\ Up(p)
  /\ ContainerExit(own[p])
  /\ \E s \in {"zero", "nonzero"} : status' = Set(status, p, s)
  /\ UNCHANGED <<nets, images, main, left, signal, streams>>

Stopped(i) ==
  /\ Removes(i)
  /\ UNCHANGED <<nets, images, main, signal, status, streams>>

-----------------------------------------------------------------------------
Main(p) ==
  \/ Create(p) \/ Conflict(p) \/ ForceRemove(p) \/ Recreate(p)
  \/ Connect(p) \/ AttachStreams(p) \/ Start(p)
  \/ Notify(p) \/ Copied(p) \/ ExitCode(p) \/ Select(p) \/ Output(p)
  \/ StopInfo(p) \/ StopRemove(p)

Next ==
  \/ \E p \in Clis :
       \/ \E m \in Modes : Execute(p, m)
       \/ Main(p)
       \/ OutputEnds(p) \/ InputEnds(p)
       \/ Interrupt(p) \/ SigInfo(p) \/ SigRemove(p) \/ Crash(p)
       \/ MysqlExits(p)
  \/ \E i \in Ids : Stopped(i)

Spec == Init /\ [][Next]_vars

\* A goroutine that can run runs, and Docker answers.  Nothing obliges mysql to
\* exit, the user to end the input or anybody to send a SIGINT.
Fairness ==
  \A p \in Clis :
    /\ WF_vars(Main(p))
    /\ WF_vars(OutputEnds(p))
    /\ WF_vars(SigInfo(p) \/ SigRemove(p))

FairSpec == Spec /\ Fairness

-----------------------------------------------------------------------------
(* Properties. *)

\* sql with a query succeeds only if mysql in its own container ended by itself
\* with status 0: not if another session, srcd stop or its own SIGINT removed the
\* container, and not if ContainerWait failed.
QueryIsHonest ==
  \A p \in Clis : mode[p] = "query" /\ result[p] = "ok" => status[p] = "zero"

\* A client's container does not outlive its session, whoever else creates and
\* removes containers of that name meanwhile; except for what a session left
\* whose Attach failed, that was killed, or that could not stop its client.
NoClientLeft ==
  \A i \in Ids :
    Exists(i) => i \in left \/ \E p \in Clis : own[p] = i /\ pc[p] # "idle"

\* Attach joins a container to the network before it starts it.
Slot == INSTANCE ComponentSlot WITH slot <- slotOf, Joinable <- {"created"}

\* Attach, the stops and mysql itself, of all sessions together, treat the one
\* name as ComponentSlot says: whoever takes it from whom, no container is
\* joined or started a second time or started anew after mysql ended.
ImplementsSlot == Slot!SlotSpec

\* When its client is gone a session ends, also one whose input stays open.
SessionEnds ==
  \A p \in Clis : (pc[p] \in Running /\ ~ Up(p)) ~> (pc[p] = "idle")

\* The first SIGINT ends the session, unless Docker fails to list or to remove
\* the client's container: a query, where it is Ctrl-C, and a shell, to whose
\* terminal Ctrl-C means something else.
InterruptEnds ==
  \A p \in Clis : (sig[p] = "info") ~> (pc[p] = "idle" \/ sig[p] = "failed")
=============================================================================
