# Verification of gds-traces

TLA+ models, TLC runs and TLAPS proofs for the programs in `src/`: the NVMe
tracer `nvme-trace` (Rust, `src/tracing/nvme-trace`), the relay race reproducer
(`src/reproducer`) and the task harness (`src/tasks`).

## 1. The system

`nvme-trace capture` programs the kernel's ftrace through tracefs, reads the raw
per-CPU ring buffers with one thread per CPU, converts the events of the NVMe
driver to binary records and writes one file per CPU. `splice` merges such files,
`print` shows them and `analyze` computes throughput and queue depths.

    kernel tracepoints -> ring buffers -> capture threads -> cpuN.bin -> splice -> analyze
                 ^                            |                             print
                 +------ tracefs files -------+

| component | source | state | operations | what is hard |
|---|---|---|---|---|
| capture: session and reader threads | `capture.rs` | `SIGINT_SEEN`, the stop flag, a page and an output file per thread, `stop_result`, the statistics | spawn, start, wait, stop, sleep, raise the flag, join, check overruns, clean up; per thread: poll, read a page, write, drain | threads against the kernel and each other, the order of the shutdown, every call may fail, a signal at any time, a full buffer |
| ftrace session control | `ftrace.rs` 99-260 | the tracefs files; they survive the process | `setup`, `start`, `stop`, `check_overruns`, `cleanup` | files left behind by a run that failed or was killed |
| page parser and encoder | `ftrace.rs` 28-47, 345-619 | position and running time stamp on a page | `parse_page_events`, `dispatch_event`, `encode_*` | a variable-length format, lengths that wrap, a write cut short |
| record format and reader | `lib.rs` 9-386, 509-620 | offset in the file | `next_record`, `parse_record_bytes` | truncation, lengths that contradict each other |
| splice | `lib.rs` 388-507, `splice.rs` | heap with a record per input, last time stamp per controller | `splice_streams_with_names` | an order with two keys, errors in mid-merge |
| analyze | `analyze.rs` | commands in flight, buckets, depths, distributions | three analyses of one stream | missing and repeated records, sampling boundaries, several files |
| print | `print.rs` | none | formatting | none |
| command line | `main.rs` | none | argument parsing, directory expansion | none |
| relay reproducer, module and clients | `src/reproducer` | relay sub-buffers; last sequence number and toggle; the log channel | writer thread; duplicate detection; log thread | a kernel race, wrap-around, a full ring, a full channel, how the threads end |
| harness | `src/tasks/common.py` | the capture process, the ready event, mounts | the `nvme_trace` and mount context managers | time-outs, processes that exit early, clean-up |
| workload tasks, packaging | `src/tasks`, `src/nix`, `src/images` | none | external commands | none |

The components meet in few places. The capture's main thread and its readers
share the stop flag and the join handles. The capture and the kernel share the
ring buffers (data) and tracefs (control). One run and the next share tracefs.
Capture, splice, print and analyze share the files. The harness and the capture
share a line on stderr ("capturing;"), SIGINT and the exit status.

What makes each part correct:

* capture: Ok means that the files hold every event, once and in order; an error
  loses no more than it must; Ctrl-C ends it; the shutdown order leaves nothing in
  a buffer that has been drained.
* session: a run's output is its own, whatever earlier runs left behind, and a
  successful run leaves the files it has set clean.
* parser, encoder and reader: what is read back is what was recorded, and the
  parser never takes data for a header.
* splice: the output interleaves the inputs, completely when the result is Ok; it
  is in order; a step back in time is reported exactly when there is one.
* relay reproducer: an alarm stands for a lost race and a repetition raises one; what
  the client has not read is not overwritten; what the log channel took is in the log;
  Ctrl-C ends the client.
* analyze: each result is what the trace says by a definition that does not
  mention the tables of the program; the warnings are true.

## 2. The modules

| module | what it is | extends or instantiates |
|---|---|---|
| `TraceChannel` | abstract specification: what a capture promises | |
| `Capture` | `capture.rs` after `setup()`: threads, pages, buffers, signal | refines `TraceChannel` |
| `MCCapture` | symmetry of the CPUs | `Capture` |
| `EventSequences` | lemmas several proofs use: cutting sequences, least and greatest numbers, quotients and remainders | |
| `CaptureProofs` | types, drain protocol, conservation, Ok means complete, the length of the drain | `Capture`, `EventSequences` |
| `CaptureRefinement` | the refinement of `TraceChannel` | `CaptureProofs` |
| `FtraceSession` | tracefs over a series of runs | |
| `MCFtraceSession` | symmetry of the controllers | `FtraceSession` |
| `FtraceSessionProofs` | types, isolation, what an Ok run leaves | `FtraceSession` |
| `PageParse` | page -> records -> file -> reader | |
| `PageParseProofs` | types, the parser keeps in step with the page, the round trip | `PageParse`, `EventSequences` |
| `OrderedMerge` | abstract specification: what a splice promises | |
| `Splice`, `MCSplice` | the k-way merge; the captures it is checked on | refines `OrderedMerge` |
| `SpliceProofs` | types, nothing lost or repeated, the order of the output, the warnings, the refinement | `Splice` |
| `Analyze`, `MCAnalyze` | the three analyses; three commands on two queues | |
| `AnalyzeProofs` | types, the depth counters, the warnings, the distributions, the samples, the throughput | `Analyze`, `EventSequences` |
| `RelayRepro` | the kernel module's writer, the relay ring, both clients, the log thread | |
| `RelayReproProofs` | types, the log, nothing unread is overwritten, alarms and repetitions, the way to the end | `RelayRepro`, `EventSequences` |

### Capture

The variables of the kernel are `tracingOn`, `fired`, `recording` (an event with
room reserved and not yet committed), `ring` and `lost`; those of a reader thread
are `pc`, `page` and `out`; those of the main thread are `mpc`, `stop`, `sigint`,
`stopOk` and `lossSeen`. Each program counter value is a place in `capture()` or
`read_cpu_pipe()` between two calls that another actor can observe.

| action | code |
|---|---|
| `SpawnReader`, `StartTracing`, `StartFails` | `capture.rs` 60-73 |
| `SeeSigint`, `StopTracing`, `StopFails`, `RaiseStop` | 75-82 |
| `Join`, `CheckOverruns`, `CheckFails`, `CleanupAndReturn` | 84-122 |
| `Open`, `TestStop`, `Poll`, `ReadSome`, `ReadNone`, `Write` | 134-187, 191-249 |
| `FailOpenOrPoll`, `FailRead`, `FailWrite` | each `?` of the thread; a panic is a failed read |
| `Sigint` | 251-267 |
| `Reserve`, `Refuse`, `Commit` | the kernel's ring buffer in no-overwrite mode (external) |

Abstractions. An event is its number on its CPU and becomes one record; pages with
bytes are in `PageParse`. `poll` may time out with events in the buffer, because the
kernel reports input only from a watermark on. A panic of a reader is a failure of
its thread. The reader threads die with the process when `capture()` returns.
`DrainEnds` gives each reader a number, `StepsLeft`, of the steps it can still take once
`stop()` has succeeded: those left in its loop and those that carry what its buffer and an
event in flight hold. `CountedAs` is the line of the kernel's per-CPU statistics that
counts an event refused by a full buffer, and `DrainCovers` says that `drain_ms` is longer
than the time an event takes from its check of `tracing_on` to its commit.

### FtraceSession

`Capture` starts where `setup()` ends. `FtraceSession` models the files `setup()`,
`start()`, `stop()` and `cleanup()` write, one action per file that matters, over
several runs with and without `--ctrl-id`. Any step may be the run's last
(`EndEarly`: an error, a signal before its handler is there, SIGKILL), which leaves
the files as they are. The threads are one action that empties the buffers.

Each write of `cleanup()` may fail without anyone learning of it; `unwritten` remembers
which did. `CleanAfterOk` says what is left after Ok all the same: what `setup()` and
`stop()` have switched off is off, and every file but the unwritten ones is at its default.
Clean is not as it was: `setup()` sets `current_tracer` to nop (`TracerOff`) and switches
off the events of all subsystems (`EventsOff`), and nothing puts either back. No doc
promises that, so it is said here and is not a finding.

### PageParse

Words instead of bytes, small numbers instead of 27 and 32 bits, in the same order
of magnitude: `Short` < a descriptor list, `DeltaBase` < some gaps, a record fits
its length field. The kernel's page writer (`Happen`, `Pad`) is external and follows
the comment above `parse_page_events` (ftrace.rs:362-382). `Parse*` and `Leave` are
the arms of the parser's `match`, `Dispatch` and `Encode*` the encoder, `WritePage`
and `WriteFails` the write of a page's records, `Scan*` the reader. `written` is the
history of the events of the two kinds that are captured, which is what the output is
compared with; events of other kinds are on the pages too, and `events` counts all of
them. The
clock is a u64 and does not wrap: `Happen` stops at `U64`, after 584 years.

Three properties of the real kernel format cannot be read off this repository and
deserve a look beside a kernel tree: whether the length word of `type_len` 0 counts
itself, how many words follow a TIME_STAMP header, and that padding with a non-zero
delta is one discarded event and not the rest of the page. The model takes the
comment's word for all three, as the code does. Nor does the model have pages with
the kernel's "missed events" flag in the commit word, which the code would drop as
too long (ftrace.rs:394); no-overwrite mode should not set it. The version byte, which the
reader checks too (lib.rs:518), is left out: there is one version, and every record is
written with it.

### Splice

`OpenFails` and `CreateOutput` are `splice.rs`: the inputs are open before the output is
created, so that an output path that names an input empties it first (`emptied`), and the
command then succeeds without that input's records. `streams` and `tail` are what the files
held before the command, and never change. No doc says that an output may not be an input,
so the loss is a hazard and not a finding, and `OkIsComplete` leaves that input out in so
many words. `Prime`, `Merge` and `Finish` are the two loops; `NextRecord` is the reader, which
may find the end of the file or a record that does not parse after any record.
`WriteFails` is a `write_all` that fails: by then the record has left the heap, its time has
been compared and noted, and a warning may be out (`Note`); part of it may be in the output,
which `out` does not count.

`Before` is `record_order`, `Beats` adds the tie-breakers of `HeapItem::cmp`.
`BinaryHeap` is a set of which `Greatest` says what may be popped: an item that no other
beats, where the order is total, or with two inputs. Beyond that the standard library
promises nothing, and any item may be. `record_order` is total on ftrace captures (no
sequence numbers) and on relay captures of one controller; on relay captures of two
controllers it need not be transitive. `splice_two_controllers` has two inputs, for which
the model of the heap is exact.

`OrderedMerge` says what the command promises without readers, heap or names: queues of
records, whose heads go to the output one at a time; where age orders the records
(`AgeIsAnOrder`) never past an older head that waits. In the mapping a record waits until
it is in the output (`Waiting`), whether it is still in the file or in the heap; priming is
then a stutter, unless it ends the merge. An input whose reader failed stays `broken`, so
that the result cannot be ok.

### Analyze

A trace is any sequence of submissions and completions, so records may be missing
or repeated. The analyses only start when every file has been parsed
(`analyze_records` collects first), so one action per record is enough. A submission carries
the direction of its opcode, and a key may come back with another one (`Opcodes`). Rates are
kept as bytes and a duration, percentages as counts. The properties define depth,
bytes and distributions from the trace alone (`OpenSubmits`).

### RelayRepro

A record is its index and carries `seq`, the index modulo `Period`, and `toggle`. The ring
is the sequence of all records written, of which `Mem` shows the part that is not yet
overwritten. The writer is the kernel thread: `Write` into the current sub-buffer,
`Publish` when it is full, `SubbufStart` when the callback has decided. Between the last
two the race of the module's header comment (relay_repro.c:5-25) is open: `ReadStale`
sees the new production count and `CopyStale` takes the whole of the recycled
sub-buffer for data, while the writer may go on.

| action | code |
|---|---|
| `Write`, `SubbufStart` | `relay_repro.c` 77-119 |
| `Publish`, `ReadStale`, `CopyStale` | the kernel's `relay_switch_subbuf` and its reader (external) |
| `TestStop`, `ReadNothing`, `ReadFails`, `Read`, `ReadCut`, `Join` | `run`, main.rs 149-253; the loop of `relay_repro_client.c` |
| `Scan`, `IsDup`, `TrySend` | main.rs 187-242 |
| `CreateLog`, `Receive`, `WriteChunk`, `LogEnd` | `log_writer`, main.rs 94-105 |
| `Signal` | main.rs 256-265 |

Abstractions. Reads happen at any time, so polling and the client's mode without it are
the same. A read that fills the buffer cuts its last record, because the buffer is
no multiple of a record (`ReadCut`); the cut bytes are `Garbage`, which has no magic. The
client is fixed for a behaviour: the Rust client with and without `--log`, or the C
client, which has no log and takes the largest number for "no record yet". Sequence
numbers are long-lived: `InPeriod` says that what is in the ring, and what was dropped in
between, spans less than a wraparound of `seq`, which with 2^64 numbers is no
restriction. `StopSettles` counts the steps that the client, the log thread and the chunks in
the channel have left after a signal, by their places in `run` and `log_writer`. A write of the
log that fails may leave part of a chunk (`torn`). Loading
and unloading the module are not modelled.

## 3. The runs

Sizes are distinct states; all runs finish within some two minutes on two cores.

| run | bounds | states | shows |
|---|---|---|---|
| `capture_safety` | 2 CPUs, buffer 3, page 2, 5 events per CPU, every call may fail but reading a stats file; refused events show as overruns | 884k | `TypeOK`, `Conservation`, `DrainedStaysDrained`, `SuccessIsComplete`, `StopProtocol`, `CheckIsFinal`, `DrainEnds`, refinement of `TraceChannel` |
| `capture_as_built` | 2 CPUs, buffer 1, page 1, 3 events, refused events show as "dropped events", unreadable stats files | 66k | `SigintReturns` under fairness; the refinement still holds, of a channel that does not count losses |
| `capture_lossy` | 1 CPU, nothing fails | violation | `OkMeansNoLoss` is false: finding 1 |
| `capture_ready` | 1 CPU, nothing fails | violation | tracing starts before a reader is ready: finding 2 |
| `session_safety` | 2 controllers, 3 runs, any writes of `cleanup()` fail | 253k | `OwnOutput`, `Isolation`, `CleanAfterOk`, `SeesAllAfterOk` |
| `session_stale_filter` | 2 controllers, 2 runs | violation | a stale filter hides a controller: finding 3 |
| `page_roundtrip` | 3 events, 2 pages of 22 words, gaps below, at and above the delta field, PRP and SGL lists of 0 and 1, other events, padding, writes cut at any word | 3.4M | `InSync`, `RoundTrip` |
| `splice_order` | 3 inputs of up to 2 records, ftrace (two controllers) and relay (one and two), names in another order than inputs, an output that is an input, open, parse and write errors | 2.5M | `Interleaves`, `OkIsComplete`, `TimestampOrder`, `OneControllerSeqOrder`, `WarnedExactly`, refinement of `OrderedMerge` |
| `splice_two_controllers` | 2 inputs of up to 2 relay records of two controllers | violation | the order of `seq` is lost: finding 4 |
| `analyze_one_file` | traces of up to 4 records, 3 commands on 2 queues, one of them read and written, times 0..3, scale 2 | 1.8M | `DepthsCount`, `SamplesRight`, `ThroughputRight`, `PercentRight`, `WarningsTrue` |
| `relay_client` | 8 records, a ring of 2 sub-buffers of 2, `seq` modulo 6, reads of 2 records, a log channel of 1, 2 lost races, a log cut anywhere | 1.0M | `OneAlarmPerRace`, `RepetitionsReported`, `NothingOverwritten`, `LogKeepsAccepted`, `StopSettles`; `StopReturns` under fairness |
| `analyze_per_cpu_files` | 2 files, 3 records | violation | untrue warnings for unmerged files: finding 5 |

Why the bounds are enough. In a capture the buffer is smaller than the number of events,
so that it fills, is emptied and fills again, while a page holds all of it or less; two
readers are enough for one to fail or lag while the other is done, and no step involves
three. Three runs let a run inherit from one that itself inherited. Three inputs are the
fewest for which the heap has a choice after a pop, and two controllers let one record
hide a step back of another. Two pages and three events put each kind of entry first, last
and in the middle of a page. Four records allow a duplicate submission, its completion and
a second completion that is unmatched. Eight records go through the ring twice and past a
wraparound of `seq`, whose period is longer than the ring and no multiple of it; with two
sub-buffers a race recycles the one the reader has just left. A channel of one chunk is
full as soon as the log thread lags. Each theorem of section 5 holds without the bounds.

Deadlock is checked in the capture runs, where a returned `capture()` has the
stuttering action `Exited`. The other models stop when the work is done
(`CHECK_DEADLOCK FALSE`).

Fairness (`Capture!Fairness`): the operating system schedules the main thread and
each reader, and a tracepoint that has reserved room commits. That is weak fairness
on `Main`, on each `Reader` and on each `Commit`. Nothing promises events or
Ctrl-C. `SigintReturns` needs no more: after the signal a drain ends because, after
a successful `stop()`, no new event arrives. If `stop()` fails with tracing still on,
the drain ends only when the readers outpace the tracepoints; a bounded number of
events would make that look certain, so `capture_as_built` leaves "stop" out of
`Faults`. `DrainEnds` is the part of `SigintReturns` that needs no fairness: it speaks of
a successful `stop()` only, and nothing here covers a drain after a failed one.

`RelayRepro` assumes weak fairness of its two threads, `Client` and `Logger`: both are
runnable while an action of theirs is enabled, and the operating system schedules them.
Nothing is asked of the writer or of the user. `StopReturns` needs the log thread too,
since `run` joins it: it ends because the sender is dropped before the join
(main.rs 245), and the channel is then drained.

## 4. Findings

1. `capture_lossy`. `setup()` selects `nooverwrite`, under which the kernel counts a
   refused event as "dropped events:", while `check_overruns` (ftrace.rs:178) sums
   the "overrun:" lines. `capture()` then returns Ok although events were lost, in
   spite of "fail if any were lost" (capture.rs:102). `Conservation` still bounds
   the damage: the record at place i of a file is event i at the earliest and event
   i + lost at the latest.
2. `capture_ready`. "Start tracing only after all reader threads are ready"
   (capture.rs:71): the threads are spawned, not ready. This costs buffer room only.
3. `session_stale_filter`. Without `--ctrl-id` the filter files are not written, and
   only `cleanup()` resets them, so a run after a failed run with `--ctrl-id` misses
   the other controllers.
4. `splice_two_controllers`. `record_order` runs in a circle: A of controller 0 (seq 2,
   time 1) comes before X of controller 1 (time 2), X before B of controller 0 (seq 1,
   time 3), and B before A. With A in one file and X and B in another, A is written first,
   against its sequence number.
5. `analyze_per_cpu_files`. Unmerged per-CPU files give completions "without matching
   submit" whose submissions are in a later file; their bytes are not counted.

Seen while reading, and not a matter of a model: the harness passes `--controller`
and `--trace-dir` (tasks/common.py:144-158), which the program does not accept.

## 5. What is proved

For every value of the constants that satisfies the `ASSUME` of the module, the
bounds included, so for any of them.

* `Capture` (`CaptureProofs`). `Inductive` is the conjunction of `TypeOK`, `StopProtocol`,
  `Conservation`, `DrainedStaysDrained` and, for the refinement only, `LossesSeen`, and
  needs `DrainCovers`. `DrainedStaysDrained` is not inductive alone: that nothing arrives
  after a drain follows from the flag, which follows from `stop()` and the wait
  (`StopProtocol`). `Conservation` (`Account`) relates the concatenation of file, page and
  buffer to the number of events: the length accounts for refused events and one in
  flight, the numbers increase, and the i-th is between i and i + `lost`. The last bound
  is what makes a trace without losses exactly 1, 2, ... n. Results: `TypeCorrect` (no
  further assumption), `ShutdownInOrder`, `DrainIsFinal`, `NothingUnaccounted`,
  `SuccessMeansComplete` and `VerdictIsFinal`. None of them assumes anything about the
  line on which the kernel counts a refused event: `SuccessIsComplete` says that a file
  holds what the buffer took and all that fired where nothing was refused, and
  `CheckIsFinal` that nothing is recorded, refused or written from the check on, so that
  what the check reads, whichever line it is, is the whole story. That Ok means no loss
  (`OkMeansNoLoss`) is false of the code: finding 1. `DrainTakesFewSteps` (`DrainEnds`):
  once `stop()` has succeeded no step, of the kernel, the main thread or another reader,
  gives a reader more steps to take, each step of its own takes one away, and there are at
  most `2 * BufCap + 5`. `DrainInv` needs that tracing stays off (`OffAfterStop`) and that
  what a buffer holds and what is on its way fit in it (`Load`); it does not need
  `DrainCovers`, for an event that arrives late had its room reserved.
* `CaptureRefinement`. Every step of `Capture` is a step of `TraceChannel` or a stutter
  under the mapping at the end of `Capture`: a reserved event is accepted, a page that
  is written is delivered, a reader that fails breaks its channel. It needs
  `DrainCovers`. Whether the channel promises that a loss is an error depends on
  `LossesAreCounted`, which is false of the code as built: `capture_as_built` and the
  theorem then show the channel without that promise.
* `FtraceSession` (`FtraceSessionProofs`). `TypeCorrect`; `OutputIsOwn`: `OwnOutput`
  strengthened by what the buffers and the filters hold in each phase (`OwnBuffer`,
  `OwnFilter`), with `OutputIsOwnEvents` for the output alone; `OkLeavesClean`: `CleanAfterOk`
  strengthened by what `setup()` and `stop()` have switched off in each phase (`Off`), with
  no assumption on the writes of `cleanup()`; `OkLeavesNoFilter`: the filters that were
  reset do not stay in the next run's way, so that finding 3 needs a run before it that did
  not return Ok.
* `Analyze` (`AnalyzeProofs`). `DepthsAlwaysCount`: the counters are the cardinalities of
  the table of commands in flight and of its parts, for any trace and any number of files.
  `Typed` and `Counted` are the inductive invariant. Assumes finitely many keys. The other
  results are about one file: `InStep` says that the records analysed are the first m of
  the trace, that the table holds the commands they leave open (`TableAfter`), and what
  the warnings and the distributions are after m (`WarnedAfter`, `CountedAfter`). One
  lemma says what a record does to the open submissions of a command (`OpenStep`), another
  that a distribution grows by one (`BumpHistogram`). This gives `WarningsAreTrue` and
  `DistributionsAreRight`. `SamplesAreRight`: `InTime` says that the times of the trace do
  not go back and that the first m records have been read, with times that count from the
  first (`ReadUpTo`); `SampledUpTo` that after m records `next_sample` is the first
  multiple of the scale that is not before the time of record m, and that there is a
  sample for each multiple below it, showing the depths of the records up to its time
  (`AllRight`). A sample is emitted before the record that makes it due is counted, and
  the records it counts are the first m because none of the later ones is older.
  `ThroughputIsRight`: `SummedUpTo` says that after m records each bucket holds the bytes
  of the completions matched so far, in the direction of the submission of each. The
  property counts those bytes as the elements of a set, a byte of a completion being a
  pair, so that the sum over the trace needs no recursion: a completion adds pairs that no
  other has (`BytesStep`). `TypeCorrect` needs that a sample that is due ends before the
  record's time, so that `next_sample` stays a u64 (`AfterType`).
* `PageParse` (`PageParseProofs`). `ParserInSync`: `Chained` says that after the entry at
  a header comes another header or the end of the page, which the kernel's steps keep by
  appending whole entries (`AddEntry`), and the parser's steps follow the chain because
  each arm of the `match` skips the size of its entry (`EntryInStep`). `OutputIsRight`
  (`RoundTrip`) and `TypeCorrect` need what the words mean. `PageSays` gives each header
  of the page the time before its entry and the number of captured events before it: a
  time entry moves the time, an event's entry moves it by its delta and is the next
  captured event at that time, or of another kind. An entry says the same wherever it is
  copied (`SameEntry`), so that the kernel's steps add one more (`PageMore`), and the
  parser's time at a header is the one the page says there (`EntryMeans`), a sum below
  2^64 that does not wrap. Each event is encoded as words that the reader accepts and
  decodes to the event (`RecordSays`): the length stays below 2^16 because an event fits
  on a page, and the offset in `__data_loc` below its half of the word. Records lie one
  after the other (`Laid`): those of the page go after those of the file (`LaidJoin`), and
  the parser leaves a page only at its end (`LeavesAtTheEnd`: none of the `break`s on an
  entry cut short is ever taken). `FileHolds` says of the reader that it is where one of
  these records begins, or that the file was cut. Assumed: `Short >= Fixed`, `Fixed <
  WordBase`, and `SubmitFixed + PageWords < U16`, which hold of 28, 2^16 and 100 + 4080 in
  the code's terms.
* `RelayRepro` (`RelayReproProofs`). `TypeCorrect`, with the bound of the channel;
  `LogIsKept`: the chunks in the file, in the thread's hand and in the channel are, in
  this order, 1 to `accepted`, and a thread that ended well had an empty channel, no
  sender and no chunk cut short (`LogParts`); `NothingIsOverwritten`: without a lost race
  the reader is at most a ring behind the writer (`WithinRing`), because the callback
  refuses a sub-buffer when the ring is full, so that each place it reads still holds its
  record (`UnreadIsIntact`). Two places share a slot when their remainders agree, for
  which there are lemmas on quotients and remainders. `AlarmsAreRaces` (`OneAlarmPerRace`)
  has to do without that: after a race the reader takes a whole sub-buffer of records that
  are not the next ones. `RingInv` says what the ring holds whether or not a race was
  lost, and `RecordsParts` that records ascend in number as they are written, two that are
  at most a ring and one apart by less than a period. Either the last record read is at
  most a ring before the reader (`InOrder`), or a race has thrown the reader back before
  it (`Behind`). A chunk scanned in order reports nothing, and one scanned when behind at
  most one line, after which the scan is in order again (`ScanOn`); so `AlarmParts` keeps
  the alarms at most the races lost, and fewer while a race is still to be noticed.
  `RepetitionsAreReported`: as long as nothing is reported and the number does not wrap,
  what the scan has met ascends up to `last` (`RepParts`), so a record met again would
  have been reported. `StopTakesFewSteps` (`StopSettles`) follows from the types: a chunk
  weighs as many steps as the log thread needs for it, so that sending one moves steps and
  adds none, and what the writer does is not counted at all.
* `Splice` (`SpliceProofs`). `Merging` carries `OutputInterleaves` and `OkMeansComplete`:
  the counters count the records written (`Interleaves`), and an input leaves the heap
  only at its end (`HeapComplete`), which makes an empty heap mean that nothing is
  left. `Ordered` adds that nothing still in the heap belongs before what is written:
  by timestamp for ftrace files (`Sorted`), by number for the relay files of one
  controller (`Numbered`). It rests on two facts: the item popped is least, because
  `record_order` is a single total key in both cases, and the next record of the same
  input is not less, because each file is as it was recorded (`AsRecorded`, in
  `Init`). Results: `FtraceOutputIsSorted`, `OneControllerIsInSequence`. For two
  controllers with numbers there is no such key, which is finding 4. `ReportIsExact`
  (`WarnedExactly`) follows from naming the record whose time stamp `lastTs` holds: the
  last one of its controller that left the heap (`LastKept`), which a failed write does
  not undo (`PopCompares`). `TypeCorrect` is the first part
  of `Merging`. `SpliceImplementsMerge`: every step of `Splice` is a step of
  `OrderedMerge` or a stutter. What the heap holds is the head of each queue that is not
  empty (`HeapHoldsHeads`), so the item popped is one that no waiting head is older than
  (`OlderBeats`, `MergeTakes`), and an empty heap at the end of the loop means that nothing
  waits (`NothingWaits`). This holds without `IsFtrace` or `IsOneController`, because it
  compares heads only; where age does not order the records (`AgeOrders` says when it
  does), neither the heap nor `OrderedMerge` promises which head is next. `FtraceIsTotal` and
  `OneControllerIsTotal` show that the order results above need no such case.

Together the theorems of three components make a chain, each link of which is an
assumption of the next. `OutputIsRight` says that a file of one CPU holds what was
recorded there, in the order of recording, which is the order of the kernel's clock, and
that for ftrace files is what `AsRecorded` asks of the inputs of `Splice`;
`FtraceOutputIsSorted` says that the spliced file is in time order, which is what the
samples of `Analyze` ask of their trace (`Ordered`). The links are compared by a reader,
not by the prover: the modules have no variables in common.

Only model-checked: `SigintReturns` and `StopReturns`, since liveness under fairness and
ENABLED are out of the prover's reach. Their safety halves, a number of steps that is
bounded and only goes down (`DrainEnds`, `StopSettles`), are theorems; what stays with TLC
is that one of those steps is always enabled until the end, and that fairness takes it.
Every other property of a passing run is a theorem. Where a proof looks like induction
over data, the induction is over the steps: the invariants speak of the first m records of
a trace or the first n events of a file, and each step adds one.

## 6. What is not modelled

* `print` and the text output of `analyze`: formatting without state. `print` loops over
  `next_record`, which is in `PageParse`.
* The accessors that decode the NVMe command in a record, the discovery of CPUs and
  of field offsets in the format files: parsing of text, one line at a time.
* `main.rs`: argument parsing and the expansion of directories.
* Loading and unloading the kernel module, and its statistics.
* The harness. It starts the capture with options the program does not know (end of
  section 4), so that at this commit no task gets past the start of its capture: a
  composition would model a system that does not run. What its time-out can do to a
  capture, a SIGINT before the handler is installed, is `EndEarly` of `FtraceSession`.
  The mount context is a list of shell commands.
* Workload tasks, packaging and images: command lines of external programs.
* `emit_due_samples` near 2^64: the branch is in `After`, and the runs do not reach it.

## 7. Plan

Done in this order: `TraceChannel` and `Capture` with proofs and refinement, since
the capture is where the program can lose data; `FtraceSession`; `Splice`;
`Analyze`; `PageParse`; `RelayRepro`; then the proofs of every safety property the passing
runs check; `OrderedMerge` and the links between the components.

What is left, by importance:

1. One abstract specification of the way from the kernel's pages through the capture files
   and the merge to the analysis, with `TraceChannel` and `OrderedMerge` as its parts, so
   that the chain at the end of section 5 becomes a theorem.
2. `Harness`, once its options match the program's: the `nvme_trace` context manager
   around an abstract capture process (early exit, no readiness within the time-out,
   exit status 130), with the property that a task that ends without an error has a
   trace from a capture that returned Ok.
