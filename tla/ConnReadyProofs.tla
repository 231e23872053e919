--------------------------- MODULE ConnReadyProofs ---------------------------
(***************************************************************************)
(* What the wait for gitbase and the handlers of its pings may rely on,    *)
(* for any number of pings under way and whatever fails.                   *)
(***************************************************************************)
EXTENDS ConnReady, TLAPS

\* A handler answers once, and then it is done.
AnsweredOnce == \A s \in Pings : reply[s] # "none" => handler[s] = "none"

\* A nil that the ping under way can receive stands for a row; one that a
\* worker sends after its error comes when its ping is over.
NilIsRow ==
  /\ loop \in {"select", "report"} => ping # Nil
  /\ loop = "select" => (worker[ping] = "nil" => reply[ping] = "row")
  /\ loop = "report" => reply[ping] = "row"
  /\ outer = "ready" => loop = "gone" /\ ping # Nil /\ reply[ping] = "row"

\* Only a handler that found gitbase down starts it.
NeverDown == ~ exited => db # "down" /\ \A s \in Pings : handler[s] # "start"

ConnInv == TypeOK /\ AnsweredOnce /\ NilIsRow /\ NeverDown

\* Types are kept by every goroutine, handler and timer.
LEMMA TypeStep == ConnInv /\ [Next]_vars => TypeOK'
<1> SUFFICES ASSUME ConnInv, [Next]_vars PROVE TypeOK'
  OBVIOUS
<1> USE ConnAssumption DEF ConnInv, AnsweredOnce, TypeOK, Sends, waiting, gitbase, WorkerGoes
<1>1. CASE UNCHANGED vars
  BY <1>1 DEF vars
<1>2. CASE TakeAnswer
  BY <1>2 DEF TakeAnswer, Receive
<1>3. CASE TakeTimeout \/ Wake \/ Report \/ GlobalTimeout \/ Serve \/ Exit
  BY <1>3 DEF TakeTimeout, Wake, Report, GlobalTimeout, Serve, Exit
<1>4. ASSUME NEW s \in Pings, StartPing(s) \/ Timeout(s) PROVE TypeOK'
  BY <1>4 DEF StartPing, Spent, Timeout
<1>5. ASSUME NEW s \in Pings, Work(s) PROVE TypeOK'
  BY <1>5 DEF Work, Call, Recv, Panic
<1>6. ASSUME NEW s \in Pings, Answer(s) \/ StartFails(s) PROVE TypeOK'
  BY <1>6 DEF Answer, Look, StartGitbase, Query, StartFails
<1> QED
  BY <1>1, <1>2, <1>3, <1>4, <1>5, <1>6 DEF Next

\* No handler of a slot is under way when the slot has an answer.
LEMMA AnsweredOnceStep == ConnInv /\ [Next]_vars => AnsweredOnce'
<1> SUFFICES ASSUME ConnInv, [Next]_vars PROVE AnsweredOnce'
  OBVIOUS
<1> USE DEF ConnInv, TypeOK, AnsweredOnce, waiting, gitbase, WorkerGoes
<1>1. CASE UNCHANGED vars
  BY <1>1 DEF vars
<1>2. CASE TakeAnswer
  BY <1>2 DEF TakeAnswer, Receive
<1>3. CASE TakeTimeout \/ Wake \/ Report \/ GlobalTimeout \/ Serve \/ Exit
  BY <1>3 DEF TakeTimeout, Wake, Report, GlobalTimeout, Serve, Exit
<1>4. ASSUME NEW s \in Pings, StartPing(s) \/ Timeout(s) PROVE AnsweredOnce'
  BY <1>4 DEF StartPing, Spent, Timeout
<1>5. ASSUME NEW s \in Pings, Work(s) PROVE AnsweredOnce'
  BY <1>5 DEF Work, Call, Recv, Panic
<1>6. ASSUME NEW s \in Pings, Answer(s) \/ StartFails(s) PROVE AnsweredOnce'
  BY <1>6 DEF Answer, Look, StartGitbase, Query, StartFails
<1> QED
  BY <1>1, <1>2, <1>3, <1>4, <1>5, <1>6 DEF Next

\* Whoever sends, what the select of the ping under way takes for success is.
LEMMA NilIsRowStep == ConnInv /\ [Next]_vars => NilIsRow'
<1> SUFFICES ASSUME ConnInv, [Next]_vars PROVE NilIsRow'
  OBVIOUS
<1> USE ConnAssumption DEF ConnInv, TypeOK, AnsweredOnce, NilIsRow, waiting, gitbase, WorkerGoes
<1>1. CASE UNCHANGED vars
  BY <1>1 DEF vars
<1>2. CASE TakeAnswer
  BY <1>2 DEF TakeAnswer, Receive, Alive
<1>3. CASE TakeTimeout \/ Wake \/ Report \/ GlobalTimeout \/ Serve \/ Exit
  BY <1>3 DEF TakeTimeout, Wake, Report, GlobalTimeout, Serve, Exit, Alive
<1>4. ASSUME NEW s \in Pings, StartPing(s) \/ Timeout(s) PROVE NilIsRow'
  BY <1>4 DEF StartPing, Spent, Timeout
<1>5. ASSUME NEW s \in Pings, Work(s) PROVE NilIsRow'
  BY <1>5 DEF Work, Call, Recv, Panic
<1>6. ASSUME NEW s \in Pings, Answer(s) \/ StartFails(s) PROVE NilIsRow'
  BY <1>6 DEF Answer, Look, StartGitbase, Query, StartFails
<1> QED
  BY <1>1, <1>2, <1>3, <1>4, <1>5, <1>6 DEF Next

\* Until gitbase exits no handler comes to start it.
LEMMA NeverDownStep == ConnInv /\ [Next]_vars => NeverDown'
<1> SUFFICES ASSUME ConnInv, [Next]_vars PROVE NeverDown'
  OBVIOUS
<1> USE DEF ConnInv, TypeOK, NeverDown, waiting, gitbase, WorkerGoes
<1>1. CASE UNCHANGED vars
  BY <1>1 DEF vars
<1>2. CASE TakeAnswer
  BY <1>2 DEF TakeAnswer, Receive
<1>3. CASE TakeTimeout \/ Wake \/ Report \/ GlobalTimeout \/ Serve \/ Exit
  BY <1>3 DEF TakeTimeout, Wake, Report, GlobalTimeout, Serve, Exit
<1>4. ASSUME NEW s \in Pings, StartPing(s) \/ Timeout(s) PROVE NeverDown'
  BY <1>4 DEF StartPing, Timeout
<1>5. ASSUME NEW s \in Pings, Work(s) PROVE NeverDown'
  BY <1>5 DEF Work, Call, Recv, Panic
<1>6. ASSUME NEW s \in Pings, Answer(s) \/ StartFails(s) PROVE NeverDown'
  BY <1>6 DEF Answer, Look, StartGitbase, Query, StartFails
<1> QED
  BY <1>1, <1>2, <1>3, <1>4, <1>5, <1>6 DEF Next

\* ConnInv holds in every reachable state.
LEMMA ConnInvariant == Spec => []ConnInv
<1>1. Init => ConnInv
  BY ConnAssumption DEF Init, ConnInv, TypeOK, AnsweredOnce, NilIsRow, NeverDown
<1>2. ConnInv /\ [Next]_vars => ConnInv'
  BY TypeStep, AnsweredOnceStep, NilIsRowStep, NeverDownStep DEF ConnInv
<1> QED
  BY <1>1, <1>2, PTL DEF Spec

\* Pings, workers and handlers stay where the code can take them; a worker
\* that is about to call has neither an answer nor a handler yet.
THEOREM TypeCorrect == Spec => []TypeOK
<1>1. ConnInv => TypeOK
  BY DEF ConnInv
<1> QED
  BY <1>1, ConnInvariant, PTL

\* ensureConnReady returns nil only after gitbase answered the last ping.
THEOREM ReadyIsAnsweredAlways == Spec => []ReadyIsAnswered
<1>1. ConnInv => ReadyIsAnswered
  BY DEF ConnInv, NilIsRow, ReadyIsAnswered
<1> QED
  BY <1>1, ConnInvariant, PTL

\* Overlapping pings do not start a gitbase anew that serves.
THEOREM PingsLeaveItRunningAlways == Spec => PingsLeaveItRunning
<1>1. ConnInv /\ [Next]_vars => [~ exited /\ db = "serving" => db' # "starting"]_vars
  <2> SUFFICES ASSUME ConnInv, Next, ~ exited, db = "serving"
               PROVE  db' # "starting"
    BY DEF vars
  <2> USE DEF ConnInv, NeverDown, waiting, gitbase
  <2>1. CASE TakeAnswer \/ TakeTimeout \/ Wake \/ Report \/ GlobalTimeout \/ Serve \/ Exit
    BY <2>1 DEF TakeAnswer, Receive, TakeTimeout, Wake, Report, GlobalTimeout, Serve, Exit
  <2>2. ASSUME NEW s \in Pings, StartPing(s) \/ Timeout(s) \/ Work(s) PROVE db' # "starting"
    BY <2>2 DEF StartPing, Timeout, Work, Call, Recv, Panic
  <2>3. ASSUME NEW s \in Pings, Answer(s) \/ StartFails(s) PROVE db' # "starting"
    BY <2>3 DEF Answer, Look, StartGitbase, Query, StartFails
  <2> QED
    BY <2>1, <2>2, <2>3 DEF Next
<1> QED
  BY <1>1, ConnInvariant, PTL DEF Spec, PingsLeaveItRunning
=============================================================================
