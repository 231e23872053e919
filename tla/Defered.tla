------------------------------ MODULE Defered ------------------------------
(***************************************************************************)
(* cmd/srcd/cmd/defered.go and readDaemonLogs of cmd/srcd/cmd/root.go: the *)
(* message a command shows when it takes long, with a spinner or with the  *)
(* daemon's log lines.  Print starts a goroutine and hands the caller a    *)
(* cancel function.  Up to four goroutines meet on four unbuffered         *)
(* channels: stop (ch), done, the lines readDaemonLogs sends, and the      *)
(* results of its scan goroutine.  One send and its receive are one step.  *)
(***************************************************************************)

CONSTANTS
  Kinds,       \* the forms of message to look at, see AllKinds
  Levels,      \* log levels the CLI may run with, see AllLevels
  LogsResults  \* what daemon.GetLogs may answer

AllKinds == {"plain", "spinner", "logs"}
AllLevels == {"info", "warning"}   \* debug is as info; error, as warning

ASSUME DeferedAssumption ==
  /\ Kinds \subseteq AllKinds
  /\ Levels \subseteq AllLevels
  /\ LogsResults \subseteq {"stream", "error"}

VARIABLES
  kind,      \* which form of message this is
  level,     \* log.DefaultFactory.Level
  output,    \* d.isTerminal with the text format, or anything else
  caller,    \* where the goroutine that called Print is
  printer,   \* where the goroutine that prints is: of Print, then of print
  reader,    \* where the goroutine of readDaemonLogs is
  scan,      \* its scan goroutine: reading, or offering what it read
  lines,     \* the channel readDaemonLogs returns
  logs,      \* the log stream of the daemon
  shown      \* history: what was printed so far

vars == <<kind, level, output, caller, printer, reader, scan, lines, logs, shown>>

settings == <<kind, level, output>>
logging == <<reader, scan, lines, logs>>

Offers == {"line", "noise", "end"}

TypeOK ==
  /\ kind \in Kinds /\ level \in Levels /\ output \in {"terminal", "other"}
  /\ caller \in {"work", "cancelling", "returned"}
  /\ printer \in {"wait", "print", "spinner", "untilStop", "spin", "sleep",
                  "inputFn", "range", "rangeNil", "line", "signal", "gone"}
  /\ reader \in {"none", "select", "send", "report", "closeLogs", "gone"}
  /\ scan \in {"none", "scanning"} \cup Offers
  /\ lines \in {"none", "open", "closed"}
  /\ logs \in {"none", "open", "closed"}
  /\ shown \subseteq {"msg", "line", "done", "error"}

Init ==
  /\ kind \in Kinds /\ level \in Levels /\ output \in {"terminal", "other"}
  /\ caller = "work"
  /\ printer = "wait"
  /\ reader = "none" /\ scan = "none" /\ lines = "none" /\ logs = "none"
  /\ shown = {}

Stopped == caller # "work"    \* the channel ch is closed

Visible == level = "info"

\* Infof: nothing is printed below the level of the logger.
Show(what) == shown' = IF Visible THEN shown \cup {what} ELSE shown

PrinterGoes(from, to) == printer = from /\ printer' = to

-----------------------------------------------------------------------------
(* The cancel function: close(ch), then <-done. *)

\* A wrong cancel: it closes ch and does not wait for done.
CancelNoWait ==
  /\ caller = "work"
  /\ caller' = "returned"
  /\ UNCHANGED <<settings, printer, logging, shown>>

Cancel ==
  /\ caller = "work"
  /\ caller' = "cancelling"
  /\ UNCHANGED <<settings, printer, logging, shown>>

Done ==
  /\ caller = "cancelling"
  /\ caller' = "returned"
  /\ PrinterGoes("signal", "gone")
  /\ UNCHANGED <<settings, logging, shown>>

-----------------------------------------------------------------------------
(* The goroutine of Print, and print. *)

\* The timer may win although ch is closed: select takes any ready case.
Timeout ==
  /\ PrinterGoes("wait", "print")
  /\ UNCHANGED <<settings, caller, logging, shown>>

StopBeforeTimeout ==
  /\ Stopped
  /\ PrinterGoes("wait", "signal")
  /\ UNCHANGED <<settings, caller, logging, shown>>

PrintMsg ==
  /\ \/ kind = "spinner" /\ PrinterGoes("print", "spinner") /\ UNCHANGED shown
     \/ kind = "plain" /\ PrinterGoes("print", "signal") /\ Show("msg")
     \/ kind = "logs" /\ PrinterGoes("print", "inputFn") /\ Show("msg")
  /\ UNCHANGED <<settings, caller, logging>>

-----------------------------------------------------------------------------
(* spinner.  Below the info level it returns and nobody ever sends done. *)

\* A wrong spinner: it looks at the stop channel only.
SpinnerStopFirst ==
  /\ \/ ~ Visible /\ PrinterGoes("spinner", "gone")
     \/ Visible /\ Stopped /\ PrinterGoes("spinner", "signal")
     \/ Visible /\ ~ Stopped /\ PrinterGoes("spinner", IF output = "terminal" THEN "spin" ELSE "untilStop")
  /\ IF Visible THEN shown' = shown \cup {"msg"} ELSE UNCHANGED shown
  /\ UNCHANGED <<settings, caller, logging>>

Spinner ==
  /\ \/ ~ Visible /\ PrinterGoes("spinner", "gone") /\ UNCHANGED shown
     \/ Visible /\ output = "other" /\ PrinterGoes("spinner", "untilStop") /\ Show("msg")
     \/ Visible /\ output = "terminal" /\ PrinterGoes("spinner", "spin") /\ UNCHANGED shown
  /\ UNCHANGED <<settings, caller, logging>>

Spin ==
  /\ ~ Stopped
  /\ PrinterGoes("spin", "sleep")
  /\ Show("msg")
  /\ UNCHANGED <<settings, caller, logging>>

Sleep ==
  /\ PrinterGoes("sleep", "spin")
  /\ UNCHANGED <<settings, caller, logging, shown>>

SpinnerDone ==
  /\ Stopped
  /\ \/ PrinterGoes("untilStop", "signal")
     \/ PrinterGoes("spin", "signal")
  /\ Show("done")
  /\ UNCHANGED <<settings, caller, logging>>

-----------------------------------------------------------------------------
(* The goroutine that ranges over InputFn(ch). *)

\* readDaemonLogs: on an error it returns a nil channel, over which range
\* blocks forever.
InputFn ==
  /\ \/ /\ "stream" \in LogsResults
        /\ PrinterGoes("inputFn", "range")
        /\ reader' = "select" /\ scan' = "scanning"
        /\ lines' = "open" /\ logs' = "open"
        /\ UNCHANGED shown
     \/ /\ "error" \in LogsResults
        /\ PrinterGoes("inputFn", "rangeNil")
        /\ shown' = shown \cup {"error"}
        /\ UNCHANGED logging
  /\ UNCHANGED <<settings, caller>>

\* ch <- match[1], received by the range, and the next scan.
SendLine ==
  /\ reader = "send"
  /\ PrinterGoes("range", "line")
  /\ reader' = "select" /\ scan' = "scanning"
  /\ UNCHANGED <<settings, caller, lines, logs, shown>>

PrintLine ==
  /\ PrinterGoes("line", "range")
  /\ Show("line")
  /\ UNCHANGED <<settings, caller, logging>>

RangeEnds ==
  /\ lines = "closed"
  /\ PrinterGoes("range", "signal")
  /\ UNCHANGED <<settings, caller, logging, shown>>

-----------------------------------------------------------------------------
(* The goroutine of readDaemonLogs and its scan goroutine. *)

\* A wrong scan: a read that was cut off is handed on as a result of its own.
ScanCut ==
  /\ scan = "scanning"
  /\ scan' \in Offers \cup {"cut"}
  /\ UNCHANGED <<settings, caller, printer, reader, lines, logs, shown>>

\* scanner.Scan returns.  On an open stream nothing says that it ever does.
Scan ==
  /\ scan = "scanning"
  /\ scan' \in Offers
  /\ UNCHANGED <<settings, caller, printer, reader, lines, logs, shown>>

\* A wrong reader: it closes the stream and leaves its channel open.
ReaderStopsNoClose ==
  /\ reader = "select" /\ Stopped
  /\ reader' = "closeLogs"
  /\ UNCHANGED <<settings, caller, printer, scan, lines, logs, shown>>

ReaderStops ==
  /\ reader = "select" /\ Stopped
  /\ reader' = "closeLogs"
  /\ lines' = "closed"
  /\ UNCHANGED <<settings, caller, printer, scan, logs, shown>>

ReaderScans ==
  /\ reader = "select"
  /\ \/ scan = "line" /\ reader' = "send" /\ scan' = "none" /\ UNCHANGED lines
     \/ scan = "noise" /\ scan' = "scanning" /\ UNCHANGED <<reader, lines>>
     \/ scan = "end" /\ reader' = "report" /\ scan' = "none" /\ lines' = "closed"
  /\ UNCHANGED <<settings, caller, printer, logs, shown>>

\* The error of the scanner is reported after the channel was closed.
ReportError ==
  /\ reader = "report"
  /\ reader' = "closeLogs"
  /\ shown' \in {shown, shown \cup {"error"}}
  /\ UNCHANGED <<settings, caller, printer, scan, lines, logs>>

\* A wrong reader: it returns without logs.Close().
ReaderLeaks ==
  /\ reader = "closeLogs"
  /\ reader' = "gone"
  /\ UNCHANGED <<settings, caller, printer, scan, lines, logs, shown>>

CloseLogs ==
  /\ reader = "closeLogs"
  /\ reader' = "gone"
  /\ logs' = "closed"
  /\ UNCHANGED <<settings, caller, printer, scan, lines, shown>>

-----------------------------------------------------------------------------
PrinterStep ==
  \/ StopBeforeTimeout \/ PrintMsg
  \/ Spinner \/ Spin \/ Sleep \/ SpinnerDone
  \/ InputFn \/ PrintLine \/ RangeEnds

ReaderStep == ReaderScans \/ ReportError \/ CloseLogs

\* The command goes on and the defered message is over.
Over ==
  /\ caller = "returned" /\ printer = "gone"
  /\ UNCHANGED vars

Next ==
  \/ Cancel \/ Done \/ Timeout
  \/ PrinterStep
  \/ SendLine \/ Scan \/ ReaderStops \/ ReaderStep
  \/ Over

Spec == Init /\ [][Next]_vars

\* A goroutine that can run runs.  GetLogs answers.  select is fair: a daemon
\* that logs without a pause cannot keep the reader from seeing stop.  Neither
\* the timer nor a scan of an open stream is under any obligation.
FairSpec ==
  /\ Spec
  /\ WF_vars(Done)
  /\ WF_vars(PrinterStep)
  /\ WF_vars(SendLine)
  /\ WF_vars(ReaderStep)
  /\ SF_vars(ReaderStops)

-----------------------------------------------------------------------------
(* Properties. *)

\* Once cancel has returned, the goroutine that prints is gone and so is
\* whatever could hand it another line: the command's own output is never
\* mixed with the message, the spinner or a log line.
SilentAfterCancel ==
  caller = "returned" => printer = "gone" /\ (reader # "none" => lines = "closed")

\* A spinner that was shown is ended with ", done" before cancel returns.
SpinnerIsEnded ==
  kind = "spinner" /\ caller = "returned" /\ "msg" \in shown => "done" \in shown

\* defered.go:59: "returns cancel function that should be called to cancel
\* printing".  Every command calls it before it prints its result: it returns,
\* whatever the timer, the spinner and the log stream do.
CancelReturns == (caller = "cancelling") ~> (caller = "returned")

\* The two ways in which cancel never returns are the only ones: an InputFn
\* that answered nil, and a spinner below the info level.  A timer that fires
\* with cancel, a stream that is silent, ends or never pauses are none.
CancelReturnsBut ==
  (caller = "cancelling") ~>
    \/ caller = "returned"
    \/ printer = "rangeNil"
    \/ kind = "spinner" /\ ~ Visible /\ printer = "gone"

\* After cancel the log stream is closed, also when the daemon goes on logging
\* or logs nothing more.
LogsReleased == (Stopped /\ logs = "open") ~> (logs = "closed")
=============================================================================
