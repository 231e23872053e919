----------------------------- MODULE ConnReady -----------------------------
(***************************************************************************)
(* cmd/srcd/cmd/sql.go, ensureConnReady and pingDB: sql and web sql ask    *)
(* gitbase for "SELECT 1" again and again until it answers.  Each ping has *)
(* a goroutine (the worker) of its own, a channel and a timeout of a       *)
(* second; a worker whose ping is over is left behind at its send.  On the *)
(* daemon's side each ping has a handler, which looks whether gitbase runs *)
(* and starts it otherwise, and goes on when the ping has timed out.       *)
(*                                                                         *)
(* Pings is a set of slots: a slot is used again when nothing of its last  *)
(* ping can move any more.  So any number of pings is made, with at most   *)
(* Cardinality(Pings) handlers under way.                                  *)
(***************************************************************************)

CONSTANTS
  Pings,    \* slots for pings under way
  Faults,   \* what may happen, see AllFaults
  Nil

AllFaults == {"conn",    \* client.SQL reports an error: no connection
              "docker",  \* the handler fails before gitbase was started
              "exit"}    \* gitbase exits

ASSUME ConnAssumption ==
  /\ Nil \notin Pings
  /\ Faults \subseteq AllFaults

VARIABLES
  outer,    \* the select of ensureConnReady and what it returned
  loop,     \* its goroutine, which pings
  ping,     \* the slot of the ping it made last
  over,     \* over[s]: the context of ping s is done
  worker,   \* worker[s]: the goroutine of ping s
  reply,    \* reply[s]: what the handler of ping s sent
  handler,  \* handler[s]: the daemon's handler of ping s
  db,       \* gitbase
  exited    \* history: gitbase has exited at some time

vars == <<outer, loop, ping, over, worker, reply, handler, db, exited>>

waiting == <<outer, loop, ping>>    \* ensureConnReady
gitbase == <<db, exited>>

\* At "errCall", "errRecv" and "nil" the worker is at a send on done, at
\* "nilStream" it is about to call Recv on the stream that client.SQL did not
\* return.
Sends == {"errCall", "errRecv", "nil"}

TypeOK ==
  /\ outer \in {"wait", "ready", "timeout", "panicked"}
  /\ loop \in {"start", "select", "sleep", "report", "gone"}
  /\ ping \in Pings \cup {Nil}
  /\ over \in [Pings -> BOOLEAN]
  /\ worker \in [Pings -> {"none", "call", "recv", "nilStream", "gone"} \cup Sends]
  /\ reply \in [Pings -> {"none", "row", "error"}]
  /\ handler \in [Pings -> {"none", "look", "start", "query"}]
  /\ db \in {"down", "starting", "serving"}
  /\ exited \in BOOLEAN
  /\ \A s \in Pings : worker[s] = "call" => reply[s] = "none" /\ handler[s] = "none"

\* StartComponent has answered: gitbase runs, and may not serve yet.
Init ==
  /\ outer = "wait" /\ loop = "start" /\ ping = Nil
  /\ over = [s \in Pings |-> TRUE]
  /\ worker = [s \in Pings |-> "none"]
  /\ reply = [s \in Pings |-> "none"]
  /\ handler = [s \in Pings |-> "none"]
  /\ db \in {"starting", "serving"}
  /\ exited = FALSE

Alive == outer \in {"wait", "ready"}    \* otherwise the process has ended

\* Nobody receives from the worker of s, and its handler is done.
Spent(s) ==
  /\ worker[s] \in {"none", "gone"} \cup Sends
  /\ handler[s] = "none"

WorkerGoes(s, from, to) ==
  /\ Alive
  /\ worker[s] = from
  /\ worker' = [worker EXCEPT ![s] = to]

-----------------------------------------------------------------------------
(* The goroutine of ensureConnReady, and pingDB. *)

\* A wrong pingDB: the stream of the ping before is read again.
StartPingStale(s) ==
  /\ Alive /\ loop = "start"
  /\ Spent(s)
  /\ loop' = "select" /\ ping' = s
  /\ over' = [over EXCEPT ![s] = FALSE]
  /\ worker' = [worker EXCEPT ![s] = "call"]
  /\ UNCHANGED <<outer, reply, handler, gitbase>>

StartPing(s) ==
  /\ Alive /\ loop = "start"
  /\ Spent(s)
  /\ loop' = "select" /\ ping' = s
  /\ over' = [over EXCEPT ![s] = FALSE]
  /\ worker' = [worker EXCEPT ![s] = "call"]
  /\ reply' = [reply EXCEPT ![s] = "none"]
  /\ UNCHANGED <<outer, handler, gitbase>>

\* pingDB's select takes what the worker of s sends.  After an error the
\* worker goes on: there is no return behind the send.
Receive(s) ==
  /\ Alive /\ loop = "select"
  /\ \/ /\ worker[s] = "nil"
        /\ loop' = "report"
        /\ worker' = [worker EXCEPT ![s] = "gone"]
     \/ /\ worker[s] = "errRecv"
        /\ loop' = "sleep"
        /\ worker' = [worker EXCEPT ![s] = "nil"]
     \/ /\ worker[s] = "errCall"
        /\ loop' = "sleep"
        /\ worker' = [worker EXCEPT ![s] = "nilStream"]
  /\ over' = [over EXCEPT ![ping] = TRUE]
  /\ UNCHANGED <<outer, ping, reply, handler, gitbase>>

\* A wrong pingDB: one channel for all pings, so that any worker's send is
\* received.
TakeAnyAnswer == \E s \in Pings : Receive(s)

TakeAnswer == ping # Nil /\ Receive(ping)

\* When both are ready the select may take either.
TakeTimeout ==
  /\ Alive /\ loop = "select"
  /\ over[ping]
  /\ loop' = "sleep"
  /\ UNCHANGED <<outer, ping, over, worker, reply, handler, gitbase>>

\* A wrong loop: it gives up at the first error.
GiveUp ==
  /\ Alive /\ loop = "sleep"
  /\ loop' = "gone"
  /\ UNCHANGED <<outer, ping, over, worker, reply, handler, gitbase>>

Wake ==
  /\ Alive /\ loop = "sleep"
  /\ loop' = "start"
  /\ UNCHANGED <<outer, ping, over, worker, reply, handler, gitbase>>

Timeout(s) ==
  /\ ~ over[s]
  /\ over' = [over EXCEPT ![s] = TRUE]
  /\ UNCHANGED <<waiting, worker, reply, handler, gitbase>>

-----------------------------------------------------------------------------
(* The select of ensureConnReady.  Its timeout does not reach the goroutine, *)
(* which was given the context without one; when it wins, the command        *)
(* returns an error and the process ends.                                    *)

Report ==
  /\ outer = "wait" /\ loop = "report"
  /\ outer' = "ready" /\ loop' = "gone"
  /\ UNCHANGED <<ping, over, worker, reply, handler, gitbase>>

GlobalTimeout ==
  /\ outer = "wait"
  /\ outer' = "timeout"
  /\ UNCHANGED <<loop, ping, over, worker, reply, handler, gitbase>>

-----------------------------------------------------------------------------
(* The worker. *)

Call(s) ==
  /\ \/ /\ WorkerGoes(s, "call", "recv")
        /\ handler' = [handler EXCEPT ![s] = "look"]
     \/ /\ "conn" \in Faults
        /\ WorkerGoes(s, "call", "errCall")
        /\ UNCHANGED handler
  /\ UNCHANGED <<waiting, over, reply, gitbase>>

\* Recv returns the row, or the error of the handler or of the context.
Recv(s) ==
  /\ \/ reply[s] = "row" /\ WorkerGoes(s, "recv", "nil")
     \/ (reply[s] = "error" \/ over[s]) /\ WorkerGoes(s, "recv", "errRecv")
  /\ UNCHANGED <<waiting, over, reply, handler, gitbase>>

\* A method call on a nil interface ends the whole process.
Panic(s) ==
  /\ Alive /\ worker[s] = "nilStream"
  /\ outer' = "panicked"
  /\ UNCHANGED <<loop, ping, over, worker, reply, handler, gitbase>>

-----------------------------------------------------------------------------
(* The daemon's handler SQL.  The start of gitbase does not heed the context *)
(* of the request, and replaces whatever container has the name.             *)

\* A wrong handler: it starts gitbase without looking.
LookNot(s) ==
  /\ handler[s] = "look"
  /\ handler' = [handler EXCEPT ![s] = "start"]
  /\ UNCHANGED <<waiting, over, worker, reply, gitbase>>

Look(s) ==
  /\ handler[s] = "look"
  /\ handler' = [handler EXCEPT ![s] = IF db = "down" THEN "start" ELSE "query"]
  /\ UNCHANGED <<waiting, over, worker, reply, gitbase>>

StartGitbase(s) ==
  /\ handler[s] = "start"
  /\ handler' = [handler EXCEPT ![s] = "query"]
  /\ db' = "starting"
  /\ UNCHANGED <<waiting, over, worker, reply, exited>>

StartFails(s) ==
  /\ "docker" \in Faults
  /\ handler[s] \in {"look", "start"}
  /\ handler' = [handler EXCEPT ![s] = "none"]
  /\ reply' = [reply EXCEPT ![s] = "error"]
  /\ UNCHANGED <<waiting, over, worker, gitbase>>

Query(s) ==
  /\ handler[s] = "query"
  /\ handler' = [handler EXCEPT ![s] = "none"]
  /\ reply' = [reply EXCEPT ![s] = IF db = "serving" THEN "row" ELSE "error"]
  /\ UNCHANGED <<waiting, over, worker, gitbase>>

Serve ==
  /\ db = "starting"
  /\ db' = "serving"
  /\ UNCHANGED <<waiting, over, worker, reply, handler, exited>>

Exit ==
  /\ "exit" \in Faults
  /\ db # "down"
  /\ db' = "down" /\ exited' = TRUE
  /\ UNCHANGED <<waiting, over, worker, reply, handler>>

-----------------------------------------------------------------------------
Answer(s) == Look(s) \/ StartGitbase(s) \/ Query(s)

Work(s) == Call(s) \/ Recv(s) \/ Panic(s)

Next ==
  \/ TakeAnswer \/ TakeTimeout \/ Wake \/ Report \/ GlobalTimeout
  \/ Serve \/ Exit
  \/ \E s \in Pings :
       \/ StartPing(s) \/ Timeout(s)
       \/ Work(s)
       \/ Answer(s) \/ StartFails(s)

Spec == Init /\ [][Next]_vars

\* Goroutines and handlers that can run do.  The timers, which may or may not
\* win, are under no obligation but one: a sleep ends.
FairSpec ==
  /\ Spec
  /\ WF_vars(TakeAnswer \/ TakeTimeout)
  /\ WF_vars(Wake) /\ WF_vars(Report)
  /\ WF_vars(\E s \in Pings : StartPing(s))
  /\ \A s \in Pings : WF_vars(Work(s)) /\ WF_vars(Answer(s) \/ StartFails(s))

-----------------------------------------------------------------------------
(* Properties. *)

\* ensureConnReady returns nil only when gitbase has answered the query of the
\* last ping: what the workers of earlier pings send late, the nil among it
\* with which a worker follows up its error, is never taken for an answer.
ReadyIsAnswered == outer = "ready" => ping # Nil /\ reply[ping] = "row"

\* Pings that overlap, as the handlers of those that timed out go on, do not
\* start gitbase anew while it runs, as long as it has not exited by itself.
PingsLeaveItRunning == [][~ exited /\ db = "serving" => db' # "starting"]_vars

\* However slow the start of gitbase was and however many pings were lost: once
\* gitbase serves and pings are answered in time, for good, ensureConnReady
\* returns, also without the help of its own timeout.
WaitEnds ==
  /\ <>[](db = "serving")
  /\ <>[][\A s \in Pings : ~ Timeout(s) /\ ~ StartFails(s)]_vars
  => <>(outer # "wait")
=============================================================================
