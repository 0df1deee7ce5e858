------------------------ MODULE FtraceSessionProofs ------------------------
(* Theorems about FtraceSession, for every set of controllers, any number   *)
(* of runs and whatever writes of cleanup() fail.                           *)
EXTENDS FtraceSession, TLAPS

\* The tracefs of a machine on which nothing ran is well typed.
LEMMA InitType == Init => TypeOK
<1> SUFFICES ASSUME Init PROVE TypeOK
  OBVIOUS
<1>1. session \in 0..MaxSessions
  BY SessionAssumption DEF Init
<1>2. filter \in [Events -> Ctrls \cup {All}]
  BY DEF Init
<1> QED
  BY <1>1, <1>2 DEF Init, TypeOK, Phases

\* No write to tracefs leaves the types.
LEMMA NextType ==
    ASSUME TypeOK, [Next]_vars
    PROVE  TypeOK'
<1> USE SessionAssumption DEF TypeOK, Phases, SetupPhases, Events, CleanupFiles,
        processVars, traceVars, userVars
<1>1. ASSUME NEW c \in Ctrls, NEW e \in Events, Fire(c, e) PROVE TypeOK'
  BY <1>1 DEF Fire, EventRecord
<1>2. ASSUME NEW a \in Ctrls \cup {All}, Begin(a) PROVE TypeOK'
  BY <1>2 DEF Begin
<1>3. CASE TracerOff \/ EventsOff \/ TracingOff \/ SizeBuffer \/ NoOverwrite \/ ClearBuffer
  BY <1>3 DEF TracerOff, EventsOff, TracingOff, SizeBuffer, NoOverwrite, ClearBuffer, Step
<1>4. CASE ReadMetadata
  BY <1>4 DEF ReadMetadata, Step
<1>5. CASE SetFilters
  BY <1>5 DEF SetFilters, SetFilter, Step
<1>6. CASE EnableEvents
  BY <1>6 DEF EnableEvents, Enable, Step
<1>7. CASE Start \/ Stop
  BY <1>7 DEF Start, Stop, Step
<1>8. CASE StopFails
  BY <1>8 DEF StopFails, Step
<1>9. CASE ReadBuffers
  BY <1>9 DEF ReadBuffers
<1>10. CASE CleanupAndReturn
  <2>1. \A e \in Events : Reset(e, All, filter[e]) \in Ctrls \cup {All}
    BY DEF Reset
  <2>2. overwrite' \in BOOLEAN /\ sized' \in BOOLEAN
    BY <1>10 DEF CleanupAndReturn, Reset
  <2> QED
    BY <1>10, <2>1, <2>2 DEF CleanupAndReturn
<1>11. CASE EndEarly
  BY <1>11 DEF EndEarly
<1>12. CASE UNCHANGED vars
  BY <1>12 DEF vars
<1> QED
  BY <1>1, <1>2, <1>3, <1>4, <1>5, <1>6, <1>7, <1>8, <1>9, <1>10, <1>11, <1>12
     DEF Next, Process, Setup

\* Every file and every variable of the process keeps its type.
THEOREM TypeCorrect == Spec => []TypeOK
<1> QED
  BY InitType, NextType, PTL DEF Spec

-----------------------------------------------------------------------------
(* A run's output is its own.                                              *)

\* Before the first run no file holds anything.
LEMMA InitIsolation == Init => Isolation
BY DEF Init, Isolation, OwnOutput, OwnBuffer, OwnFilter, SetupPhases

\* No step lets a record of another run or controller into the output.
LEMMA NextIsolation ==
    ASSUME TypeOK, Isolation, [Next]_vars
    PROVE  Isolation'
<1> USE SessionAssumption
    DEF Isolation, OwnOutput, OwnBuffer, OwnFilter, Wanted, SetupPhases, processVars, traceVars, userVars
<1>1. ASSUME NEW c \in Ctrls, NEW e \in Events, Fire(c, e) PROVE Isolation'
  <2>1. phase \in {"idle", "tracer", "events_off", "tracing_off", "capture", "failing"}
    BY <1>1 DEF Fire, TypeOK, Phases
  <2>2. CASE phase \in {"capture", "failing"}
    <3> DEFINE r == [session |-> session, ctrl |-> c, event |-> e]
    <3>1. Wanted(r)
      BY <1>1, <2>2 DEF Fire, Passes, Events, TypeOK
    <3> QED
      BY <1>1, <2>2, <3>1 DEF Fire
  <2>3. CASE phase \in {"idle", "tracer", "events_off", "tracing_off"}
    BY <1>1, <2>3 DEF Fire
  <2> QED
    BY <2>1, <2>2, <2>3
<1>2. ASSUME NEW a \in Ctrls \cup {All}, Begin(a) PROVE Isolation'
  BY <1>2 DEF Begin
<1>3. CASE TracerOff \/ EventsOff \/ TracingOff \/ SizeBuffer \/ NoOverwrite \/ ClearBuffer
  BY <1>3 DEF TracerOff, EventsOff, TracingOff, SizeBuffer, NoOverwrite, ClearBuffer, Step
<1>4. CASE ReadMetadata
  BY <1>4 DEF ReadMetadata, Step
<1>5. CASE SetFilters
  BY <1>5 DEF SetFilters, SetFilter, Step, TypeOK, Events
<1>6. CASE EnableEvents
  BY <1>6 DEF EnableEvents, Enable, Step
<1>7. CASE Start \/ Stop
  BY <1>7 DEF Start, Stop, Step
<1>8. CASE StopFails
  BY <1>8 DEF StopFails, Step
<1>9. CASE ReadBuffers
  BY <1>9 DEF ReadBuffers
<1>10. CASE CleanupAndReturn
  BY <1>10 DEF CleanupAndReturn
<1>11. CASE EndEarly
  BY <1>11 DEF EndEarly
<1>12. CASE UNCHANGED vars
  BY <1>12 DEF vars
<1> QED
  BY <1>1, <1>2, <1>3, <1>4, <1>5, <1>6, <1>7, <1>8, <1>9, <1>10, <1>11, <1>12
     DEF Next, Process, Setup

\* Whatever earlier runs left behind, and however they ended, a run writes only
\* events of its own time and of the controller it asked for.
THEOREM OutputIsOwn == Spec => []Isolation
<1>1. TypeOK /\ Isolation /\ [Next]_vars => (TypeOK /\ Isolation)'
  BY NextType, NextIsolation
<1> QED
  BY InitType, InitIsolation, <1>1, PTL DEF Spec

\* In particular what a run writes is its own.
THEOREM OutputIsOwnEvents == Spec => []OwnOutput
<1>1. Isolation => OwnOutput
  BY DEF Isolation
<1> QED
  BY <1>1, OutputIsOwn, PTL

-----------------------------------------------------------------------------
(* A run that returns Ok leaves tracefs clean.                             *)

\* What a run has switched off stays off: the tracer and the events of others by
\* setup(), tracing and its own events by stop().
Off ==
    /\ phase \notin {"idle", "tracer"} => tracer = "nop"
    /\ phase \notin {"idle", "tracer", "events_off"} => ~others
    /\ phase = "stopped" => enabled = {} /\ ~tracingOn

Cleaned == Off /\ CleanAfterOk

\* cleanup() sets each file back that it can write, whatever becomes of the others.
LEMMA CleanupSetsBack ==
    ASSUME TypeOK, Cleaned, CleanupAndReturn
    PROVE  Cleaned'
<1>1. SwitchedOff'
  BY DEF Cleaned, Off, CleanupAndReturn, SwitchedOff, userVars
<1>2. ASSUME NEW file \in (CleanupFiles \ unwritten)' PROVE SetBack(file)'
  <2>1. file \in CleanupFiles /\ file \notin unwritten'
    BY <1>2 DEF CleanupFiles, Events
  <2>2. CASE file = "trace_options"
    BY <2>1, <2>2 DEF CleanupAndReturn, Reset, SetBack
  <2>3. CASE file = "buffer_size_kb"
    BY <2>1, <2>3 DEF CleanupAndReturn, Reset, SetBack
  <2>4. CASE file \in Events
    BY <2>1, <2>4 DEF CleanupAndReturn, Reset, SetBack, Events
  <2> QED
    BY <2>1, <2>2, <2>3, <2>4 DEF CleanupFiles
<1>3. CleanAfterOk'
  BY <1>1, <1>2 DEF CleanAfterOk
<1>4. Off'
  BY DEF CleanupAndReturn, Off
<1> QED
  BY <1>3, <1>4 DEF Cleaned

\* No other step ends a run with Ok, and between runs nothing but events changes.
LEMMA NextCleaned ==
    ASSUME TypeOK, Cleaned, [Next]_vars
    PROVE  Cleaned'
<1> USE DEF Cleaned, Off, CleanAfterOk, processVars, traceVars, userVars
<1>1. ASSUME NEW c \in Ctrls, NEW e \in Events, Fire(c, e) PROVE Cleaned'
  BY <1>1 DEF Fire, SwitchedOff
<1>2. ASSUME NEW a \in Ctrls \cup {All}, Begin(a) PROVE Cleaned'
  BY <1>2 DEF Begin
<1>3. CASE TracerOff \/ EventsOff \/ TracingOff \/ SizeBuffer \/ NoOverwrite \/ ClearBuffer
  BY <1>3 DEF TracerOff, EventsOff, TracingOff, SizeBuffer, NoOverwrite, ClearBuffer, Step
<1>4. CASE ReadMetadata \/ SetFilters \/ EnableEvents
  BY <1>4 DEF ReadMetadata, SetFilters, SetFilter, EnableEvents, Enable, Step
<1>5. CASE Start \/ Stop \/ StopFails
  BY <1>5 DEF Start, Stop, StopFails, Step
<1>6. CASE ReadBuffers
  BY <1>6 DEF ReadBuffers
<1>7. CASE EndEarly
  BY <1>7 DEF EndEarly
<1>8. CASE UNCHANGED vars
  BY <1>8 DEF vars, SwitchedOff, SetBack, CleanupFiles, Events
<1> QED
  BY <1>1, <1>2, <1>3, <1>4, <1>5, <1>6, <1>7, <1>8, CleanupSetsBack DEF Next, Process, Setup

\* After a run that returned Ok nothing is traced, no event of anyone is enabled and
\* the buffers are empty, and every file that cleanup() could write is at its default,
\* for any set of controllers and any number of runs before it.
THEOREM OkLeavesClean == Spec => []CleanAfterOk
<1>1. Init => Cleaned
  BY DEF Init, Cleaned, Off, CleanAfterOk
<1>2. Cleaned => CleanAfterOk
  BY DEF Cleaned
<1> QED
  BY InitType, NextType, NextCleaned, <1>1, <1>2, PTL DEF Spec

\* A run without --ctrl-id finds no filter but those whose reset failed, as long as the
\* run before it returned Ok; it sets none itself.
NoFilterLeft ==
    /\ phase \in {"filter_submit", "filter_complete"} => arg # All
    /\ result \in {"none", "ok"} /\ (phase = "idle" \/ arg = All) =>
          \A e \in Events \ unwritten : filter[e] = All

\* A run without --ctrl-id after a run that returned Ok captures every controller, if
\* cleanup() could reset the filters, for any set of controllers and any number of runs.
THEOREM OkLeavesNoFilter == Spec => []SeesAllAfterOk
<1>1. Init => NoFilterLeft
  BY DEF Init, NoFilterLeft
<1>2. ASSUME TypeOK, NoFilterLeft, [Next]_vars PROVE NoFilterLeft'
  <2> USE DEF NoFilterLeft, processVars, traceVars, userVars
  <2>1. ASSUME NEW c \in Ctrls, NEW e \in Events, Fire(c, e) PROVE NoFilterLeft'
    BY <1>2, <2>1 DEF Fire
  <2>2. ASSUME NEW a \in Ctrls \cup {All}, Begin(a) PROVE NoFilterLeft'
    BY <1>2, <2>2 DEF Begin
  <2>3. CASE TracerOff \/ EventsOff \/ TracingOff \/ SizeBuffer \/ NoOverwrite \/ ClearBuffer
    BY <1>2, <2>3 DEF TracerOff, EventsOff, TracingOff, SizeBuffer, NoOverwrite, ClearBuffer, Step
  <2>4. CASE ReadMetadata \/ SetFilters \/ EnableEvents
    BY <1>2, <2>4 DEF ReadMetadata, SetFilters, SetFilter, EnableEvents, Enable, Step
  <2>5. CASE Start \/ Stop \/ StopFails \/ ReadBuffers
    BY <1>2, <2>5 DEF Start, Stop, StopFails, ReadBuffers, Step
  <2>6. CASE CleanupAndReturn
    BY <2>6 DEF CleanupAndReturn, Reset
  <2>7. CASE EndEarly
    BY <2>7 DEF EndEarly
  <2>8. CASE UNCHANGED vars
    BY <1>2, <2>8 DEF vars
  <2> QED
    BY <1>2, <2>1, <2>2, <2>3, <2>4, <2>5, <2>6, <2>7, <2>8 DEF Next, Process, Setup
<1>3. NoFilterLeft => SeesAllAfterOk
  BY DEF NoFilterLeft, SeesAllAfterOk
<1> QED
  BY InitType, NextType, <1>1, <1>2, <1>3, PTL DEF Spec

=============================================================================
