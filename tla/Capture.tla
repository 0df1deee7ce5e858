------------------------------- MODULE Capture -------------------------------
(***************************************************************************)
(* `nvme-trace capture` (capture.rs, with FtraceCapture of ftrace.rs) from *)
(* the moment setup() has returned: the main thread, one reader thread per *)
(* CPU, SIGINT, and the kernel's per-CPU ring buffers in no-overwrite mode.*)
(*                                                                         *)
(* An event is its number on its CPU.  A page is a sequence of events; the *)
(* conversion of page bytes to records is left to the page parser, and     *)
(* one event stands for the one record it becomes.                         *)
(***************************************************************************)
EXTENDS Naturals, Sequences

CONSTANTS
    Cpus,         \* online CPUs, one reader thread and one ring buffer each
    BufCap,       \* events a ring buffer holds
    PageCap,      \* events one read_one_page returns at most
    MaxEvents,    \* bound: events that fire on a CPU in one session
    CountedAs,    \* the stats line that counts an event refused by a full buffer
    DrainCovers,  \* TRUE iff an event being recorded at stop() lands within drain_ms
    Faults        \* the system calls that may fail

FaultKinds == {"start", "stop", "open", "poll", "read", "write", "stats", "stats_file"}

ASSUME CaptureAssumption ==
    /\ Cpus # {}
    /\ BufCap \in Nat \ {0}
    /\ PageCap \in Nat \ {0}
    /\ MaxEvents \in Nat
    /\ CountedAs \in {"overrun", "dropped events"}
    /\ DrainCovers \in BOOLEAN
    /\ Faults \subseteq FaultKinds

VARIABLES
    \* kernel
    tracingOn,    \* the tracing_on file
    fired,        \* [Cpus -> Nat]: events that reached the tracepoint while tracing
    recording,    \* CPUs with an event reserved in the buffer and not yet committed
    ring,         \* [Cpus -> Seq]: committed, unread events
    lost,         \* [Cpus -> Nat]: events refused because the buffer was full
    \* reader threads
    pc,           \* [Cpus -> PCs]
    page,         \* [Cpus -> Seq]: records read and not yet written
    out,          \* [Cpus -> Seq]: records in cpu{N}.bin
    \* main thread
    mpc,          \* where capture() is; "ok" and "err": it has returned
    stop,         \* the AtomicBool the readers poll
    sigint,       \* SIGINT_SEEN
    stopOk,       \* stop_result is Ok
    lossSeen      \* overruns > 0

kernelVars == <<tracingOn, fired, recording, ring, lost>>
readerVars == <<pc, page, out>>
mainVars   == <<mpc, stop, sigint, stopOk, lossSeen>>
vars       == <<kernelVars, readerVars, mainVars>>

\* "drain" and "drain_write" are "read" and "write" inside drain_pipe.
PCs  == {"unspawned", "open", "loop", "poll", "read", "write",
         "drain", "drain_write", "done", "failed"}
MPCs == {"spawn", "wait", "stop", "sleep", "join", "check", "cleanup", "ok", "err"}

Returned == mpc \in {"ok", "err"}
MayFail(call) == call \in Faults

Init ==
    /\ tracingOn = FALSE
    /\ fired = [c \in Cpus |-> 0]
    /\ recording = {}
    /\ ring = [c \in Cpus |-> <<>>]
    /\ lost = [c \in Cpus |-> 0]
    /\ pc = [c \in Cpus |-> "unspawned"]
    /\ page = [c \in Cpus |-> <<>>]
    /\ out = [c \in Cpus |-> <<>>]
    /\ mpc = "spawn"
    /\ stop = FALSE
    /\ sigint = FALSE
    /\ stopOk = TRUE
    /\ lossSeen = FALSE

-----------------------------------------------------------------------------
(* The kernel.  A tracepoint checks tracing_on and reserves room, then     *)
(* commits; with nooverwrite a full buffer refuses the event.              *)

Fits(c) == Len(ring[c]) < BufCap

Reserve(c) ==
    /\ tracingOn
    /\ c \notin recording
    /\ fired[c] < MaxEvents
    /\ Fits(c)
    /\ fired' = [fired EXCEPT ![c] = @ + 1]
    /\ recording' = recording \cup {c}
    /\ UNCHANGED <<tracingOn, ring, lost, readerVars, mainVars>>

Refuse(c) ==
    /\ tracingOn
    /\ c \notin recording
    /\ fired[c] < MaxEvents
    /\ ~Fits(c)
    /\ fired' = [fired EXCEPT ![c] = @ + 1]
    /\ lost' = [lost EXCEPT ![c] = @ + 1]
    /\ UNCHANGED <<tracingOn, recording, ring, readerVars, mainVars>>

Commit(c) ==
    /\ c \in recording
    /\ ring' = [ring EXCEPT ![c] = Append(@, fired[c])]
    /\ recording' = recording \ {c}
    /\ UNCHANGED <<tracingOn, fired, lost, readerVars, mainVars>>

Kernel(c) == Reserve(c) \/ Refuse(c) \/ Commit(c)

-----------------------------------------------------------------------------
(* A reader thread, read_cpu_pipe.  It dies with the process.              *)

Goto(c, l) == pc' = [pc EXCEPT ![c] = l]

Open(c) ==
    /\ pc[c] = "open"
    /\ Goto(c, "loop")
    /\ UNCHANGED <<kernelVars, page, out, mainVars>>

\* Bug: on the stop flag the thread leaves without draining.
BugTestStop(c) ==
    /\ pc[c] = "loop"
    /\ Goto(c, IF stop THEN "done" ELSE "poll")
    /\ UNCHANGED <<kernelVars, page, out, mainVars>>

\* The stop flag is tested once per iteration, before poll.
TestStop(c) ==
    /\ pc[c] = "loop"
    /\ Goto(c, IF stop THEN "drain" ELSE "poll")
    /\ UNCHANGED <<kernelVars, page, out, mainVars>>

\* poll may report POLLIN only once the kernel's watermark is reached, so a
\* time-out, EINTR or a missing POLLIN says nothing about the buffer.
Poll(c) ==
    /\ pc[c] = "poll"
    /\ \/ /\ ring[c] # <<>>
          /\ Goto(c, "read")
       \/ Goto(c, "loop")
    /\ UNCHANGED <<kernelVars, page, out, mainVars>>

\* Bug: the read goes on until EAGAIN, past the end of the page buffer.
BugReadOnePage(c) ==
    /\ ring[c] # <<>>
    /\ page' = [page EXCEPT ![c] = ring[c]]
    /\ ring' = [ring EXCEPT ![c] = <<>>]

\* A page with committed events: read_one_page returns Some.
ReadOnePage(c) ==
    \E n \in 1..Len(ring[c]) :
        /\ n <= PageCap
        /\ page' = [page EXCEPT ![c] = SubSeq(ring[c], 1, n)]
        /\ ring' = [ring EXCEPT ![c] = SubSeq(@, n + 1, Len(@))]

ReadSome(c) ==
    /\ \/ pc[c] = "read"  /\ Goto(c, "write")
       \/ pc[c] = "drain" /\ Goto(c, "drain_write")
    /\ ReadOnePage(c)
    /\ UNCHANGED <<tracingOn, fired, recording, lost, out, mainVars>>

\* Bug: drain_pipe returns to the loop instead of leaving the thread.
BugReadNone(c) ==
    /\ pc[c] \in {"read", "drain"}
    /\ ring[c] = <<>>
    /\ Goto(c, "loop")
    /\ UNCHANGED <<kernelVars, page, out, mainVars>>

\* EAGAIN or end of file at once: read_one_page returns None.
ReadNone(c) ==
    /\ ring[c] = <<>>
    /\ \/ pc[c] = "read"  /\ Goto(c, "loop")
       \/ pc[c] = "drain" /\ Goto(c, "done")
    /\ UNCHANGED <<kernelVars, page, out, mainVars>>

Write(c) ==
    /\ \/ pc[c] = "write" /\ Goto(c, "loop")
       \/ pc[c] = "drain_write" /\ Goto(c, "drain")
    /\ out' = [out EXCEPT ![c] = @ \o page[c]]
    /\ page' = [page EXCEPT ![c] = <<>>]
    /\ UNCHANGED <<kernelVars, mainVars>>

\* Each `?` of the thread.  open covers the pipe and the output file.
FailOpenOrPoll(c) ==
    /\ \/ pc[c] = "open" /\ MayFail("open")
       \/ pc[c] = "poll" /\ MayFail("poll")
    /\ Goto(c, "failed")
    /\ UNCHANGED <<kernelVars, page, out, mainVars>>

\* A read that fails after part of a page, or a panic in parse_page, has taken
\* events out of the buffer and writes none of them.
FailRead(c) ==
    /\ pc[c] \in {"read", "drain"}
    /\ MayFail("read")
    /\ Goto(c, "failed")
    /\ \/ UNCHANGED <<ring, page>>
       \/ ReadOnePage(c)
    /\ UNCHANGED <<tracingOn, fired, recording, lost, out, mainVars>>

\* Bug: the error of write_all is dropped.
BugFailWrite(c) ==
    /\ pc[c] \in {"write", "drain_write"}
    /\ MayFail("write")
    /\ Goto(c, IF pc[c] = "write" THEN "loop" ELSE "drain")
    /\ page' = [page EXCEPT ![c] = <<>>]
    /\ UNCHANGED <<kernelVars, out, mainVars>>

\* write_all may have written a prefix when it fails.
FailWrite(c) ==
    /\ pc[c] \in {"write", "drain_write"}
    /\ MayFail("write")
    /\ Goto(c, "failed")
    /\ \E n \in 0..Len(page[c]) :
          out' = [out EXCEPT ![c] = @ \o SubSeq(page[c], 1, n)]
    /\ UNCHANGED <<kernelVars, page, mainVars>>

Reader(c) ==
    /\ ~Returned
    /\ \/ Open(c) \/ TestStop(c) \/ Poll(c) \/ ReadSome(c) \/ ReadNone(c) \/ Write(c)
       \/ FailOpenOrPoll(c) \/ FailRead(c) \/ FailWrite(c)

-----------------------------------------------------------------------------
(* The main thread, capture(), after setup and install_sigint_handler.     *)

\* The order of the CPUs is immaterial: no step depends on it.
SpawnReader(c) ==
    /\ mpc = "spawn"
    /\ pc[c] = "unspawned"
    /\ Goto(c, "open")
    /\ UNCHANGED <<kernelVars, page, out, mainVars>>

AllSpawned == \A c \in Cpus : pc[c] # "unspawned"

StartTracing ==
    /\ mpc = "spawn"
    /\ AllSpawned
    /\ tracingOn' = TRUE
    /\ mpc' = "wait"
    /\ UNCHANGED <<fired, recording, ring, lost, readerVars, stop, sigint, stopOk, lossSeen>>

StartFails ==
    /\ mpc = "spawn"
    /\ AllSpawned
    /\ MayFail("start")
    /\ mpc' = "err"
    /\ UNCHANGED <<kernelVars, readerVars, stop, sigint, stopOk, lossSeen>>

\* Bug: the drain time starts without stop().
BugSeeSigint ==
    /\ mpc = "wait"
    /\ sigint
    /\ mpc' = "sleep"
    /\ UNCHANGED <<kernelVars, readerVars, stop, sigint, stopOk, lossSeen>>

SeeSigint ==
    /\ mpc = "wait"
    /\ sigint
    /\ mpc' = "stop"
    /\ UNCHANGED <<kernelVars, readerVars, stop, sigint, stopOk, lossSeen>>

StopTracing ==
    /\ mpc = "stop"
    /\ tracingOn' = FALSE
    /\ mpc' = "sleep"
    /\ UNCHANGED <<fired, recording, ring, lost, readerVars, stop, sigint, stopOk, lossSeen>>

\* The write to tracing_on failed, or it succeeded and disabling an event failed.
\* Either way capture() keeps the error and goes on.
StopFails ==
    /\ mpc = "stop"
    /\ MayFail("stop")
    /\ tracingOn' \in BOOLEAN
    /\ stopOk' = FALSE
    /\ mpc' = "sleep"
    /\ UNCHANGED <<fired, recording, ring, lost, readerVars, stop, sigint, lossSeen>>

Settled == tracingOn \/ recording = {}

\* Bug: the readers are joined without being told to stop.
BugRaiseStop ==
    /\ mpc = "sleep"
    /\ DrainCovers => Settled
    /\ mpc' = "join"
    /\ UNCHANGED <<kernelVars, readerVars, stop, sigint, stopOk, lossSeen>>

\* sleep(drain_ms), then stop.store(true).
RaiseStop ==
    /\ mpc = "sleep"
    /\ DrainCovers => Settled
    /\ stop' = TRUE
    /\ mpc' = "join"
    /\ UNCHANGED <<kernelVars, readerVars, sigint, stopOk, lossSeen>>

\* Bug: the join errors are printed and forgotten.
BugJoin ==
    /\ mpc = "join"
    /\ \A c \in Cpus : pc[c] \in {"done", "failed"}
    /\ mpc' = IF stopOk THEN "check" ELSE "err"
    /\ UNCHANGED <<kernelVars, readerVars, stop, sigint, stopOk, lossSeen>>

\* Bug: the result of stop() is not looked at again.
BugStopIgnored ==
    /\ mpc = "join"
    /\ \A c \in Cpus : pc[c] \in {"done", "failed"}
    /\ mpc' = IF \A c \in Cpus : pc[c] = "done" THEN "check" ELSE "err"
    /\ UNCHANGED <<kernelVars, readerVars, stop, sigint, stopOk, lossSeen>>

\* All handles joined; then `stop_result?` and the first join error.
Join ==
    /\ mpc = "join"
    /\ \A c \in Cpus : pc[c] \in {"done", "failed"}
    /\ mpc' = IF stopOk /\ \A c \in Cpus : pc[c] = "done" THEN "check" ELSE "err"
    /\ UNCHANGED <<kernelVars, readerVars, stop, sigint, stopOk, lossSeen>>

\* What the "overrun:" line of per_cpu/cpu{c}/stats shows.
Overrun(c) == IF CountedAs = "overrun" THEN lost[c] ELSE 0

\* check_overruns skips a stats file it cannot read and fails only on read_dir.
CheckOverruns ==
    /\ mpc = "check"
    /\ \E readable \in SUBSET Cpus :
          /\ readable = Cpus \/ MayFail("stats_file")
          /\ lossSeen' = \E c \in readable : Overrun(c) > 0
    /\ mpc' = "cleanup"
    /\ UNCHANGED <<kernelVars, readerVars, stop, sigint, stopOk>>

CheckFails ==
    /\ mpc = "check"
    /\ MayFail("stats")
    /\ mpc' = "err"
    /\ UNCHANGED <<kernelVars, readerVars, stop, sigint, stopOk, lossSeen>>

\* Bug: overruns are a warning only.
BugCleanupAndReturn ==
    /\ mpc = "cleanup"
    /\ ring' = [c \in Cpus |-> <<>>]
    /\ mpc' = "ok"
    /\ UNCHANGED <<tracingOn, fired, recording, lost, readerVars, stop, sigint, stopOk, lossSeen>>

\* cleanup() clears the buffers and returns nothing; then the verdict.
CleanupAndReturn ==
    /\ mpc = "cleanup"
    /\ ring' = [c \in Cpus |-> <<>>]
    /\ mpc' = IF lossSeen THEN "err" ELSE "ok"
    /\ UNCHANGED <<tracingOn, fired, recording, lost, readerVars, stop, sigint, stopOk, lossSeen>>

Main == \/ \E c \in Cpus : SpawnReader(c)
        \/ StartTracing \/ StartFails
        \/ SeeSigint
        \/ StopTracing \/ StopFails
        \/ RaiseStop
        \/ Join
        \/ CheckOverruns \/ CheckFails
        \/ CleanupAndReturn

\* handle_sigint runs on any thread, once the handler is installed.
Sigint ==
    /\ ~Returned
    /\ ~sigint
    /\ sigint' = TRUE
    /\ UNCHANGED <<kernelVars, readerVars, mpc, stop, stopOk, lossSeen>>

Exited == Returned /\ UNCHANGED vars

Next == \/ \E c \in Cpus : Kernel(c) \/ Reader(c)
        \/ Main
        \/ Sigint
        \/ Exited

\* Threads are scheduled and an event that was reserved is committed; nobody
\* promises that events fire or that Ctrl-C is pressed.
Fairness == /\ WF_vars(Main)
            /\ \A c \in Cpus : WF_vars(Reader(c)) /\ WF_vars(Commit(c))

Spec == Init /\ [][Next]_vars
FairSpec == Spec /\ Fairness

-----------------------------------------------------------------------------
(* Properties.                                                             *)

TypeOK ==
    /\ tracingOn \in BOOLEAN
    /\ fired \in [Cpus -> Nat]
    /\ recording \subseteq Cpus
    /\ ring \in [Cpus -> Seq(Nat)]
    /\ lost \in [Cpus -> Nat]
    /\ pc \in [Cpus -> PCs]
    /\ page \in [Cpus -> Seq(Nat)]
    /\ \A c \in Cpus : Len(page[c]) <= PageCap
    /\ out \in [Cpus -> Seq(Nat)]
    /\ mpc \in MPCs
    /\ stop \in BOOLEAN
    /\ sigint \in BOOLEAN
    /\ stopOk \in BOOLEAN
    /\ lossSeen \in BOOLEAN

\* Everything of CPU c that was recorded: in the file, in the thread, in the kernel.
Trail(c) == out[c] \o page[c] \o ring[c]

InFlight(c) == IF c \in recording THEN 1 ELSE 0

\* No event is duplicated, reordered or lost between the tracepoint and the
\* output file while the CPU's reader has not failed (read_cpu_pipe,
\* read_one_page, drain_pipe): what is missing is what the kernel refused or has
\* not committed yet, and each gap in the numbers is accounted for by a refused
\* event.  When capture() returns an error it may have cleared the buffers.
Account(c) ==
    /\ Len(Trail(c)) + lost[c] + InFlight(c) = fired[c]
    /\ \A i, j \in 1..Len(Trail(c)) : i < j => Trail(c)[i] < Trail(c)[j]
    /\ \A i \in 1..Len(Trail(c)) : Trail(c)[i] \in i..(i + lost[c])

Conservation ==
    \A c \in Cpus : pc[c] # "failed" /\ mpc # "err" => Account(c)

\* The order of the shutdown (capture.rs:79-101): the readers drain only after the
\* flag, the flag is raised only after stop(), and once a successful stop() has
\* been waited for no event is recorded or on its way.  The overrun check and the
\* cleanup wait for a successful stop() and for every reader to end well.
StopProtocol ==
    /\ mpc \in {"join", "check", "cleanup", "ok"} => stop
    /\ mpc \in {"spawn", "wait", "stop", "sleep"} => ~stop
    /\ (mpc = "sleep" \/ stop) /\ stopOk => ~tracingOn
    /\ stop /\ stopOk => recording = {}
    /\ mpc \in {"check", "cleanup", "ok"} => stopOk /\ \A c \in Cpus : pc[c] = "done"
    /\ \A c \in Cpus : pc[c] \in {"drain", "drain_write", "done"} => stop

\* A reader that drained its pipe left nothing behind, and nothing can arrive
\* later: stop() came first ("Stop new events first, then let threads drain").
\* The one exception is a stop() that failed, and capture() reports that.
DrainedStaysDrained ==
    \A c \in Cpus :
        /\ page[c] # <<>> => pc[c] \in {"write", "drain_write", "failed"}
        /\ pc[c] = "done" /\ stopOk => ring[c] = <<>> /\ c \notin recording

\* Ok(()) from capture() means that every reader finished and that its file holds what
\* the kernel took of its CPU, once and in order: all that fired but what a full buffer
\* refused, and without such a loss exactly the events 1, 2, ... that fired.
SuccessIsComplete ==
    mpc = "ok" =>
        \A c \in Cpus :
            /\ pc[c] = "done"
            /\ Len(out[c]) + lost[c] = fired[c]
            /\ \A i, j \in 1..Len(out[c]) : i < j => out[c][i] < out[c][j]
            /\ lost[c] = 0 => out[c] = [i \in 1..fired[c] |-> i]

\* "Check for dropped events; fail if any were lost" (capture.rs:102).
OkMeansNoLoss == mpc = "ok" => \A c \in Cpus : lost[c] = 0

\* The verdict is final when it is reached: from the overrun check to the return of Ok
\* nothing is recorded, refused or written any more, so that no line of the stats files,
\* whichever is read, is outdated when it is read, and cleanup() clears no event
\* ("Must be called after reader threads have drained", ftrace.rs:166-167).
Final == UNCHANGED <<fired, recording, lost, ring, out>>

CheckIsFinal == [][(mpc \in {"check", "cleanup"}) => Final]_vars

\* "Start tracing only after all reader threads are ready" (capture.rs:71): once
\* tracing is on, every thread has its pipe open or has failed.
ReadersReady == tracingOn => \A c \in Cpus : pc[c] # "open"

\* Ctrl-C ends the capture: the main thread wakes up, the readers see the flag,
\* drain and exit, and all are joined.
SigintReturns == sigint ~> Returned

\* The steps a reader has left once the flag is up and nothing new can be recorded:
\* two for each event still to come and those from where it is.
StepsAt == [unspawned |-> 0, open |-> 3, loop |-> 2, poll |-> 5, read |-> 4, write |-> 3,
            drain |-> 1, drain_write |-> 2, done |-> 0, failed |-> 0]

StepsLeft(c) == 2 * (Len(ring[c]) + InFlight(c)) + StepsAt[pc[c]]

\* The drain ends, with no fairness asked of the kernel: after a successful stop() no
\* step of any thread gives a reader more to do, each of its own brings it nearer to
\* its end, and a full buffer is the worst that waits for it (drain_pipe, capture.rs:236).
DrainEnds ==
    [][stop /\ stopOk => \A c \in Cpus :
          /\ StepsLeft(c) <= 2 * BufCap + 5
          /\ StepsLeft(c)' <= StepsLeft(c)
          /\ Reader(c) => StepsLeft(c)' < StepsLeft(c)]_vars

\* A refused event reaches the verdict.  Of the code as built this is false: setup()
\* chooses nooverwrite, under which the kernel counts "dropped events".
LossesAreCounted == CountedAs = "overrun" /\ ~MayFail("stats_file")

\* The refinement mapping: what is in the thread, in the buffer or on its way is
\* pending, until the reader fails or the session ends.
Unread(c) == page[c] \o ring[c] \o (IF c \in recording THEN <<fired[c]>> ELSE <<>>)

Pending == [c \in Cpus |-> IF Returned \/ pc[c] = "failed" THEN <<>> ELSE Unread(c)]
Broken == {c \in Cpus : pc[c] = "failed"}
Phase == IF Returned THEN mpc ELSE "open"

Channel == INSTANCE TraceChannel WITH
    LossCounted <- LossesAreCounted, pending <- Pending, delivered <- out,
    broken <- Broken, phase <- Phase

\* The threads, pages and buffers implement the lossy channel of TraceChannel.
ImplementsChannel == Channel!Spec

=============================================================================
