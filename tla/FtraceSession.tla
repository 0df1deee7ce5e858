---------------------------- MODULE FtraceSession ----------------------------
(***************************************************************************)
(* The tracefs files that FtraceCapture (ftrace.rs) writes, over a series  *)
(* of `nvme-trace capture` runs.  The files outlive the process: a run     *)
(* that returns early, or is killed, leaves them as they are for the next. *)
(* Threads and pages are those of Capture; here a run reads the buffers in *)
(* one step and what matters is which events reach it.                     *)
(***************************************************************************)
EXTENDS Naturals

CONSTANTS
    Ctrls,        \* NVMe controllers
    All,          \* no filter: every controller
    MaxSessions   \* bound: runs of the program

ASSUME SessionAssumption ==
    /\ All \notin Ctrls
    /\ MaxSessions \in Nat

Events == {"submit", "complete"}

VARIABLES
    \* tracefs
    tracer,      \* current_tracer: "nop", or "other" when someone uses another one
    others,      \* events of other subsystems are enabled
    tracingOn,   \* tracing_on
    enabled,     \* the nvme events whose enable file is 1
    filter,      \* [Events -> Ctrls or All]: the filter files
    overwrite,   \* trace_options: FALSE for nooverwrite
    sized,       \* buffer_size_kb is not the 1408 that cleanup() restores
    buffer,      \* events in the ring buffers
    \* the process
    session,     \* number of the current or last run
    arg,         \* its --ctrl-id, All when omitted
    phase,       \* the next step of the run, "idle" between runs
    output,      \* events the run has written
    result,      \* of the last run: "none", "ok", or "err" for every other end
    unwritten    \* history: the files that the last cleanup() could not write

userVars    == <<tracer, others>>
traceVars   == <<userVars, tracingOn, enabled, filter, overwrite, sized, buffer>>
processVars == <<session, arg, phase, output, result, unwritten>>
vars        == <<traceVars, processVars>>

\* The files of cleanup() that still hold a setting of the run; an event stands for its filter.
CleanupFiles == {"trace_options", "buffer_size_kb"} \cup Events

SetupPhases == {"tracer", "events_off", "tracing_off", "size", "nooverwrite", "clear", "metadata",
                "filter_submit", "filter_complete", "enable_submit", "enable_complete"}
Phases == SetupPhases \cup {"idle", "spawn", "capture", "stopped", "failing"}

EventRecord == [session : 0..MaxSessions, ctrl : Ctrls, event : Events]

\* Others may have used tracefs before.
Init ==
    /\ tracer \in {"nop", "other"}
    /\ others \in BOOLEAN
    /\ tracingOn \in BOOLEAN
    /\ enabled = {}
    /\ filter = [e \in Events |-> All]
    /\ overwrite = TRUE
    /\ sized = FALSE
    /\ buffer = {}
    /\ session = 0
    /\ arg = All
    /\ phase = "idle"
    /\ output = {}
    /\ result = "none"
    /\ unwritten = {}

-----------------------------------------------------------------------------
(* The kernel: an event of controller c passes the filter that the event's *)
(* own file holds.                                                         *)

Passes(e, c) == filter[e] \in {All, c}

Fire(c, e) ==
    /\ tracingOn
    /\ e \in enabled
    /\ Passes(e, c)
    /\ buffer' = buffer \cup {[session |-> session, ctrl |-> c, event |-> e]}
    /\ UNCHANGED <<userVars, tracingOn, enabled, filter, overwrite, sized, processVars>>

-----------------------------------------------------------------------------
(* setup(): one file per step, in the order of the code.                   *)

Step(from, to) ==
    /\ phase = from
    /\ phase' = to
    /\ UNCHANGED <<session, arg, output, result, unwritten>>

\* The command line is parsed and the CPUs are known.
Begin(a) ==
    /\ phase = "idle"
    /\ session < MaxSessions
    /\ session' = session + 1
    /\ arg' = a
    /\ output' = {}
    /\ phase' = "tracer"
    /\ UNCHANGED <<traceVars, result, unwritten>>

\* Whatever tracer was in use, it is nop from now on.
TracerOff ==
    /\ Step("tracer", "events_off")
    /\ tracer' = "nop"
    /\ UNCHANGED <<others, tracingOn, enabled, filter, overwrite, sized, buffer>>

\* Bug: 1 is written to events/enable, and every other event of the kernel with it.
BugEventsOff ==
    /\ Step("events_off", "tracing_off")
    /\ enabled' = {"all"}
    /\ others' = TRUE
    /\ UNCHANGED <<tracer, tracingOn, filter, overwrite, sized, buffer>>

\* events/enable: every event of the kernel, not only those of nvme.
EventsOff ==
    /\ Step("events_off", "tracing_off")
    /\ enabled' = {}
    /\ others' = FALSE
    /\ UNCHANGED <<tracer, tracingOn, filter, overwrite, sized, buffer>>

TracingOff ==
    /\ Step("tracing_off", "size")
    /\ tracingOn' = FALSE
    /\ UNCHANGED <<userVars, enabled, filter, overwrite, sized, buffer>>

SizeBuffer ==
    /\ Step("size", "nooverwrite")
    /\ sized' = TRUE
    /\ UNCHANGED <<userVars, tracingOn, enabled, filter, overwrite, buffer>>

NoOverwrite ==
    /\ Step("nooverwrite", "clear")
    /\ overwrite' = FALSE
    /\ UNCHANGED <<userVars, tracingOn, enabled, filter, sized, buffer>>

\* Bug: the trace file is opened without truncating it.
BugClearBuffer ==
    /\ Step("clear", "metadata")
    /\ UNCHANGED traceVars

ClearBuffer ==
    /\ Step("clear", "metadata")
    /\ buffer' = {}
    /\ UNCHANGED <<userVars, tracingOn, enabled, filter, overwrite, sized>>

\* Event ids and formats; without --ctrl-id the filter files are not touched.
ReadMetadata ==
    /\ Step("metadata", IF arg = All THEN "enable_submit" ELSE "filter_submit")
    /\ UNCHANGED traceVars

SetFilter(e, from, to) ==
    /\ Step(from, to)
    /\ filter' = [filter EXCEPT ![e] = arg]
    /\ UNCHANGED <<userVars, tracingOn, enabled, overwrite, sized, buffer>>

\* Bug: only the submit events are filtered.
BugSetFilters == \/ SetFilter("submit", "filter_submit", "filter_complete")
                 \/ Step("filter_complete", "enable_submit") /\ UNCHANGED traceVars

SetFilters == \/ SetFilter("submit", "filter_submit", "filter_complete")
              \/ SetFilter("complete", "filter_complete", "enable_submit")

Enable(e, from, to) ==
    /\ Step(from, to)
    /\ enabled' = enabled \cup {e}
    /\ UNCHANGED <<userVars, tracingOn, filter, overwrite, sized, buffer>>

EnableEvents == \/ Enable("submit", "enable_submit", "enable_complete")
                \/ Enable("complete", "enable_complete", "spawn")

Setup == \/ TracerOff \/ EventsOff \/ TracingOff \/ SizeBuffer \/ NoOverwrite \/ ClearBuffer
         \/ ReadMetadata \/ SetFilters \/ EnableEvents

-----------------------------------------------------------------------------
(* capture() after setup().                                                *)

\* The handler is installed, the readers are spawned, start() succeeds.
Start ==
    /\ Step("spawn", "capture")
    /\ tracingOn' = TRUE
    /\ UNCHANGED <<userVars, enabled, filter, overwrite, sized, buffer>>

\* The reader threads empty the buffers into the files while they run.
ReadBuffers ==
    /\ phase \in {"capture", "stopped", "failing"}
    /\ buffer # {}
    /\ output' = output \cup buffer
    /\ buffer' = {}
    /\ UNCHANGED <<userVars, tracingOn, enabled, filter, overwrite, sized,
                   session, arg, phase, result, unwritten>>

Stop ==
    /\ Step("capture", "stopped")
    /\ tracingOn' = FALSE
    /\ enabled' = {}
    /\ UNCHANGED <<userVars, filter, overwrite, sized, buffer>>

\* One of the three writes of stop() fails and the later ones are not made; the
\* readers still drain before capture() returns the error.
StopFails ==
    /\ Step("capture", "failing")
    /\ \/ UNCHANGED <<tracingOn, enabled>>
       \/ /\ tracingOn' = FALSE
          /\ enabled' \in {enabled, enabled \ {"submit"}}
    /\ UNCHANGED <<userVars, filter, overwrite, sized, buffer>>

\* Bug: cleanup() returns at the first write that fails and does not say so.
BugReset(file, new, old) == IF unwritten' # {} THEN old ELSE new

\* What a write of cleanup() leaves in its file; an error is ignored.
Reset(file, new, old) == IF file \in unwritten' THEN old ELSE new

\* Bug: the filter of nvme_pci_complete is not reset.
BugCleanupAndReturn ==
    /\ phase = "stopped"
    /\ buffer = {}
    /\ unwritten' = {}
    /\ overwrite' = TRUE
    /\ sized' = FALSE
    /\ filter' = [filter EXCEPT !["submit"] = All]
    /\ phase' = "idle" /\ result' = "ok"
    /\ UNCHANGED <<userVars, tracingOn, enabled, buffer, session, arg, output>>

\* Drained, joined, checked: cleanup(), then Ok or the overrun error.  Its last write,
\* which clears the buffers, finds them empty.
CleanupAndReturn ==
    /\ phase = "stopped"
    /\ buffer = {}
    /\ unwritten' \in SUBSET CleanupFiles
    /\ overwrite' = Reset("trace_options", TRUE, overwrite)
    /\ sized' = Reset("buffer_size_kb", FALSE, sized)
    /\ filter' = [e \in Events |-> Reset(e, All, filter[e])]
    /\ phase' = "idle"
    /\ result' \in {"ok", "err"}
    /\ UNCHANGED <<userVars, tracingOn, enabled, buffer, session, arg, output>>

\* A `?` of setup() or of capture() up to the overrun check (a setup step, the
\* output directory, start, stop, a reader, the stats directory), SIGINT before
\* its handler is installed, SIGKILL or a panic anywhere: tracefs stays as it is.
EndEarly ==
    /\ phase # "idle"
    /\ phase' = "idle"
    /\ result' = "err"
    /\ UNCHANGED <<traceVars, session, arg, output, unwritten>>

Process == \/ \E a \in Ctrls \cup {All} : Begin(a)
           \/ Setup
           \/ Start
           \/ ReadBuffers
           \/ Stop \/ StopFails
           \/ CleanupAndReturn
           \/ EndEarly

Next == \/ \E c \in Ctrls, e \in Events : Fire(c, e)
        \/ Process

Spec == Init /\ [][Next]_vars

-----------------------------------------------------------------------------
(* Properties.                                                             *)

TypeOK ==
    /\ tracer \in {"nop", "other"}
    /\ others \in BOOLEAN
    /\ tracingOn \in BOOLEAN
    /\ enabled \subseteq Events
    /\ filter \in [Events -> Ctrls \cup {All}]
    /\ overwrite \in BOOLEAN
    /\ sized \in BOOLEAN
    /\ buffer \subseteq EventRecord
    /\ session \in 0..MaxSessions
    /\ arg \in Ctrls \cup {All}
    /\ phase \in Phases
    /\ output \subseteq EventRecord
    /\ result \in {"none", "ok", "err"}
    /\ unwritten \subseteq CleanupFiles

Wanted(r) == r.session = session /\ arg \in {All, r.ctrl}

\* A run writes events of its own time only, and with --ctrl-id of that controller
\* only, whatever earlier runs left in the buffers and in the filters: setup()
\* disables, stops and clears before it enables (ftrace.rs:110-137).
OwnOutput == \A r \in output : Wanted(r)

\* What the buffers may hold while a run goes on: nothing of an earlier run once
\* they are cleared, and nothing at all before start().
OwnBuffer ==
    /\ phase \in SetupPhases \ {"tracer", "events_off", "tracing_off"} => ~tracingOn
    /\ phase \in {"spawn", "stopped"} => ~tracingOn
    /\ phase \in {"metadata", "filter_submit", "filter_complete", "enable_submit",
                  "enable_complete", "spawn"} => buffer = {}
    /\ phase \in {"capture", "stopped", "failing"} => \A r \in buffer : Wanted(r)

\* Both filters are those of this run when it traces one controller.
OwnFilter ==
    arg # All =>
        /\ phase \in {"filter_complete", "enable_submit", "enable_complete", "spawn",
                      "capture", "failing"} => filter["submit"] = arg
        /\ phase \in {"enable_submit", "enable_complete", "spawn", "capture",
                      "failing"} => filter["complete"] = arg

\* Why the output is the run's own: the buffers and the filters already are.
Isolation == OwnOutput /\ OwnBuffer /\ OwnFilter

\* "Restore ftrace to a clean state" (cleanup, ftrace.rs:189): clean, and not as it was.
\* The tracer and the events of others that setup() switched off stay off.
SwitchedOff == tracer = "nop" /\ ~others /\ ~tracingOn /\ enabled = {} /\ buffer = {}

SetBack(file) ==
    CASE file = "trace_options"  -> overwrite
      [] file = "buffer_size_kb" -> ~sized
      [] file \in Events         -> filter[file] = All

\* After a run that returned Ok tracefs is in this state, but for the files that
\* cleanup() could not write: one write that fails, which nobody learns of, keeps no
\* other file from being set back, and what is switched off does not depend on any.
CleanAfterOk ==
    phase = "idle" /\ result = "ok" =>
        SwitchedOff /\ \A file \in CleanupFiles \ unwritten : SetBack(file)

AllPass == \A e \in Events : filter[e] = All

\* A run without --ctrl-id sees every controller if the run before it returned Ok and
\* could reset the filters.
SeesAllAfterOk ==
    phase = "capture" /\ arg = All /\ result \in {"none", "ok"} =>
        \A e \in Events \ unwritten : filter[e] = All

\* "Omit to capture all controllers" (main.rs:22-23): a run without --ctrl-id sees
\* every controller, whatever the run before it did.
SeesAllControllers == phase = "capture" /\ arg = All => AllPass

=============================================================================
