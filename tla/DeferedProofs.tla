--------------------------- MODULE DeferedProofs ---------------------------
(***************************************************************************)
(* What a command may rely on once cancel has returned, for every form of  *)
(* message, log level and answer of GetLogs.                               *)
(***************************************************************************)
EXTENDS Defered, TLAPS

\* The printing goroutine ends its work before it sends done, and it is what
\* cancel waits for.
PrinterEnds ==
  /\ caller = "returned" => printer = "gone"
  /\ printer \in {"wait", "print", "spinner", "inputFn"} => reader = "none"
  /\ printer = "inputFn" => kind = "logs"
  /\ printer \in {"spinner", "untilStop", "spin", "sleep"} => kind = "spinner"
  /\ reader # "none" => kind = "logs" /\ lines # "none"
  /\ printer \in {"signal", "gone"} /\ reader # "none" => lines = "closed"

\* The spinner shows nothing before it starts nor below the info level, and it
\* leaves its loop over ", done" only.
SpinnerLoop ==
  kind = "spinner" =>
    /\ printer \in {"wait", "print", "spinner"} => "msg" \notin shown
    /\ printer \in {"wait", "print", "spinner", "untilStop", "spin", "sleep", "signal", "gone"}
    /\ ~ Visible => "msg" \notin shown
    /\ printer \in {"signal", "gone"} /\ "msg" \in shown => "done" \in shown

DeferedInv == TypeOK /\ PrinterEnds /\ SpinnerLoop

\* Types are kept by every goroutine.
LEMMA TypeStep == TypeOK /\ [Next]_vars => TypeOK'
<1> SUFFICES ASSUME TypeOK, [Next]_vars PROVE TypeOK'
  OBVIOUS
<1> USE DEF TypeOK, settings, logging, PrinterGoes, Show, Offers
<1>1. CASE UNCHANGED vars
  BY <1>1 DEF vars
<1>2. CASE Cancel \/ Done \/ Timeout
  BY <1>2 DEF Cancel, Done, Timeout
<1>3. CASE PrinterStep
  <2>1. CASE StopBeforeTimeout \/ Sleep \/ RangeEnds
    BY <2>1 DEF StopBeforeTimeout, Sleep, RangeEnds
  <2>2. CASE PrintMsg
    <3>1. printer' \in {"spinner", "signal", "inputFn"}
      BY <2>2 DEF PrintMsg
    <3>2. shown' \in {shown, shown \cup {"msg"}}
      BY <2>2 DEF PrintMsg
    <3>3. UNCHANGED <<kind, level, output, caller, reader, scan, lines, logs>>
      BY <2>2 DEF PrintMsg
    <3> QED
      BY <3>1, <3>2, <3>3
  <2>3. CASE Spinner \/ Spin \/ SpinnerDone
    <3>1. printer' \in {"gone", "untilStop", "spin", "sleep", "signal"}
      BY <2>3 DEF Spinner, Spin, SpinnerDone
    <3>2. shown' \in {shown, shown \cup {"msg"}, shown \cup {"done"}}
      BY <2>3 DEF Spinner, Spin, SpinnerDone
    <3>3. UNCHANGED <<kind, level, output, caller, reader, scan, lines, logs>>
      BY <2>3 DEF Spinner, Spin, SpinnerDone
    <3> QED
      BY <3>1, <3>2, <3>3
  <2>4. CASE InputFn
    BY <2>4 DEF InputFn
  <2>5. CASE PrintLine
    BY <2>5 DEF PrintLine
  <2> QED
    BY <1>3, <2>1, <2>2, <2>3, <2>4, <2>5 DEF PrinterStep
<1>4. CASE SendLine \/ Scan \/ ReaderStops
  BY <1>4 DEF SendLine, Scan, ReaderStops
<1>5. CASE ReaderStep
  <2>1. CASE ReaderScans \/ CloseLogs
    BY <2>1 DEF ReaderScans, CloseLogs
  <2>2. CASE ReportError
    BY <2>2 DEF ReportError
  <2> QED
    BY <1>5, <2>1, <2>2 DEF ReaderStep
<1>6. CASE Over
  BY <1>6 DEF Over, vars
<1> QED
  BY <1>1, <1>2, <1>3, <1>4, <1>5, <1>6 DEF Next

\* The order of the printer's last steps is kept by every goroutine.
LEMMA PrinterEndsStep == DeferedInv /\ [Next]_vars => PrinterEnds'
<1> SUFFICES ASSUME DeferedInv, [Next]_vars PROVE PrinterEnds'
  OBVIOUS
<1> USE DEF DeferedInv, TypeOK, PrinterEnds, settings, logging, PrinterGoes
<1>1. CASE UNCHANGED vars
  BY <1>1 DEF vars
<1>2. CASE Cancel \/ Done \/ Timeout
  BY <1>2 DEF Cancel, Done, Timeout
<1>3. CASE PrinterStep
  <2>1. CASE StopBeforeTimeout \/ Sleep \/ RangeEnds
    BY <2>1 DEF StopBeforeTimeout, Sleep, RangeEnds
  <2>2. CASE PrintMsg
    BY <2>2 DEF PrintMsg
  <2>3. CASE Spinner \/ Spin \/ SpinnerDone
    BY <2>3 DEF Spinner, Spin, SpinnerDone
  <2>4. CASE InputFn
    BY <2>4 DEF InputFn
  <2>5. CASE PrintLine
    BY <2>5 DEF PrintLine
  <2> QED
    BY <1>3, <2>1, <2>2, <2>3, <2>4, <2>5 DEF PrinterStep
<1>4. CASE SendLine \/ Scan \/ ReaderStops
  BY <1>4 DEF SendLine, Scan, ReaderStops
<1>5. CASE ReaderStep
  <2>1. CASE ReaderScans \/ CloseLogs
    BY <2>1 DEF ReaderScans, CloseLogs
  <2>2. CASE ReportError
    BY <2>2 DEF ReportError
  <2> QED
    BY <1>5, <2>1, <2>2 DEF ReaderStep
<1>6. CASE Over
  BY <1>6 DEF Over, vars
<1> QED
  BY <1>1, <1>2, <1>3, <1>4, <1>5, <1>6 DEF Next

\* So is what the spinner has shown.
LEMMA SpinnerLoopStep == DeferedInv /\ [Next]_vars => SpinnerLoop'
<1> SUFFICES ASSUME DeferedInv, [Next]_vars PROVE SpinnerLoop'
  OBVIOUS
<1> USE DEF DeferedInv, TypeOK, PrinterEnds, SpinnerLoop, Visible, settings, logging, PrinterGoes, Show
<1>1. CASE UNCHANGED vars
  BY <1>1 DEF vars
<1>2. CASE Cancel \/ Done \/ Timeout
  BY <1>2 DEF Cancel, Done, Timeout
<1>3. CASE PrinterStep
  <2>1. CASE StopBeforeTimeout \/ Sleep \/ RangeEnds
    BY <2>1 DEF StopBeforeTimeout, Sleep, RangeEnds
  <2>2. CASE PrintMsg
    BY <2>2 DEF PrintMsg
  <2>3. CASE Spinner \/ Spin \/ SpinnerDone
    BY <2>3 DEF Spinner, Spin, SpinnerDone
  <2>4. CASE InputFn
    BY <2>4 DEF InputFn
  <2>5. CASE PrintLine
    BY <2>5 DEF PrintLine
  <2> QED
    BY <1>3, <2>1, <2>2, <2>3, <2>4, <2>5 DEF PrinterStep
<1>4. CASE SendLine \/ Scan \/ ReaderStops
  BY <1>4 DEF SendLine, Scan, ReaderStops
<1>5. CASE ReaderStep
  <2>1. CASE ReaderScans \/ CloseLogs
    BY <2>1 DEF ReaderScans, CloseLogs
  <2>2. CASE ReportError
    BY <2>2 DEF ReportError
  <2> QED
    BY <1>5, <2>1, <2>2 DEF ReaderStep
<1>6. CASE Over
  BY <1>6 DEF Over, vars
<1> QED
  BY <1>1, <1>2, <1>3, <1>4, <1>5, <1>6 DEF Next

\* DeferedInv holds in every reachable state.
LEMMA DeferedInvariant == Spec => []DeferedInv
<1>1. Init => DeferedInv
  BY DeferedAssumption DEF Init, DeferedInv, TypeOK, PrinterEnds, SpinnerLoop
<1>2. DeferedInv /\ [Next]_vars => DeferedInv'
  BY TypeStep, PrinterEndsStep, SpinnerLoopStep DEF DeferedInv
<1> QED
  BY <1>1, <1>2, PTL DEF Spec

\* After cancel has returned, nothing of the message is printed any more.
THEOREM SilentAfterCancelAlways == Spec => []SilentAfterCancel
<1>1. DeferedInv => SilentAfterCancel
  BY DEF DeferedInv, PrinterEnds, SilentAfterCancel
<1> QED
  BY <1>1, DeferedInvariant, PTL

\* A spinner the user has seen is ended before cancel returns.
THEOREM SpinnerIsEndedAlways == Spec => []SpinnerIsEnded
<1>1. DeferedInv => SpinnerIsEnded
  BY DEF DeferedInv, PrinterEnds, SpinnerLoop, SpinnerIsEnded
<1> QED
  BY <1>1, DeferedInvariant, PTL

\* The goroutines of a message are where the code can take them; the scan only
\* hands on whole results.
THEOREM TypeCorrect == Spec => []TypeOK
<1>1. DeferedInv => TypeOK
  BY DEF DeferedInv
<1> QED
  BY <1>1, DeferedInvariant, PTL
=============================================================================
