------------------------------- MODULE Analyze -------------------------------
(***************************************************************************)
(* `nvme-trace analyze` (analyze.rs): throughput, queue-depth and          *)
(* queue-depth percent.  Each reads the records of its input files one     *)
(* file after the other and keeps a table of the commands in flight.       *)
(*                                                                         *)
(* A trace is first recorded: any sequence of records, for the capture may *)
(* have begun after a submission and may have lost records.  A record goes *)
(* to the file of the CPU it happened on.  The analyses only start when    *)
(* every file has been parsed, so a record can be taken from its file when *)
(* it is needed.                                                           *)
(***************************************************************************)
EXTENDS Integers, Sequences, FiniteSets, FiniteSetsExt

CONSTANTS
    Keys,        \* CommandKey: controller, queue and command id
    Queues,      \* QueueKey
    QueueOf,     \* [Keys -> Queues]
    Opcodes,     \* [Keys -> SUBSET Directions]: the directions of the opcodes used with a key
    Files,       \* the inputs are 1..Files, in the order they are read
    Scale,       \* --scale
    MaxU64,      \* the largest u64
    MaxTs,       \* bound: timestamps
    MaxRecords   \* bound: records of a trace

Directions == {"read", "write", "other"}

ASSUME AnalyzeAssumption ==
    /\ IsFiniteSet(Keys)
    /\ QueueOf \in [Keys -> Queues]
    /\ Opcodes \in [Keys -> SUBSET Directions]
    /\ Files \in Nat
    /\ Scale \in Nat \ {0}
    /\ MaxTs \in Nat
    /\ MaxU64 \in Nat
    /\ MaxTs <= MaxU64 /\ Scale <= MaxU64
    /\ MaxRecords \in Nat

VARIABLES
    trace,        \* the records in the order in which they were recorded
    analysis,     \* "none", "throughput", "depth" or "percent"
    phase,        \* "record", "read", "done" or "err"
    unread,       \* the records not yet analysed, as positions of `trace`
    base,         \* first_ts
    inFlight,     \* in_flight: the position of the submission, for each key in the table
    duplicate,    \* records that were reported as a duplicate outstanding submit
    unmatched,    \* records that were reported as a completion without matching submit
    \* throughput
    last,         \* last_offset, 0 before the first record
    buckets,      \* bytes_by_bucket
    rows,         \* the output
    \* queue depth; the depths also in percent
    globalDepth,
    queueDepth,   \* queue_depths, 0 where the map has no entry
    known,        \* known_queues
    current,      \* current_offset
    nextSample,
    samples,      \* the output
    \* percent
    globalDist,   \* global_distribution
    queueDist     \* queue_distributions, empty where the map has no entry

readVars       == <<unread, base, inFlight, duplicate, unmatched>>
throughputVars == <<last, buckets, rows>>
depthVars      == <<globalDepth, queueDepth>>
sampleVars     == <<known, current, nextSample, samples>>
percentVars    == <<globalDist, queueDist>>
vars == <<trace, analysis, phase, readVars, throughputVars, depthVars, sampleVars, percentVars>>

None == -1
Empty == [x \in {} |-> 0]

\* A completion has no opcode; its direction is not looked at.
Record == [kind : {"submit", "complete"}, key : Keys, direction : Directions,
           file : 1..Files, ts : 0..MaxTs, len : Nat]

Init ==
    /\ trace = <<>>
    /\ analysis = "none"
    /\ phase = "record"
    /\ unread = {}
    /\ base = None
    /\ inFlight = Empty
    /\ duplicate = {}
    /\ unmatched = {}
    /\ last = 0
    /\ buckets = Empty
    /\ rows = {}
    /\ globalDepth = 0
    /\ queueDepth = [q \in Queues |-> 0]
    /\ known = {}
    /\ current = None
    /\ nextSample = 0
    /\ samples = <<>>
    /\ globalDist = Empty
    /\ queueDist = [q \in Queues |-> Empty]

-----------------------------------------------------------------------------
(* The trace, and how it is read.                                          *)

\* The length identifies the submission.
RecordOf(kind, key, d, file, ts) ==
    [kind |-> kind, key |-> key, direction |-> d, file |-> file, ts |-> ts, len |-> Len(trace) + 1]

\* The clock does not go back.
Happen(r) ==
    /\ phase = "record"
    /\ Len(trace) < MaxRecords
    /\ \A i \in 1..Len(trace) : trace[i].ts <= r.ts
    /\ trace' = Append(trace, r)
    /\ UNCHANGED <<analysis, phase, readVars, throughputVars, depthVars, sampleVars, percentVars>>

\* A command is submitted or completed.
HappenNext ==
    \E key \in Keys, file \in 1..Files, ts \in 0..MaxTs :
        \/ \E d \in Opcodes[key] : Happen(RecordOf("submit", key, d, file, ts))
        \/ Happen(RecordOf("complete", key, "other", file, ts))

\* Bug: one record too many.
BugLoad(a) ==
    /\ phase = "record"
    /\ analysis' = a
    /\ phase' = "read"
    /\ unread' = 0..Len(trace)
    /\ UNCHANGED <<trace, base, inFlight, duplicate, unmatched, throughputVars, depthVars,
                   sampleVars, percentVars>>

\* Every file has been opened and parsed to its end.
Load(a) ==
    /\ phase = "record"
    /\ analysis' = a
    /\ phase' = "read"
    /\ unread' = 1..Len(trace)
    /\ UNCHANGED <<trace, base, inFlight, duplicate, unmatched, throughputVars, depthVars,
                   sampleVars, percentVars>>

\* No input, or one that does not open or parse.
LoadFails ==
    /\ phase = "record"
    /\ phase' = "err"
    /\ UNCHANGED <<trace, analysis, readVars, throughputVars, depthVars, sampleVars, percentVars>>

\* The files in the order of the inputs, each from its beginning.
ReadBefore(i, j) ==
    \/ trace[i].file < trace[j].file
    \/ trace[i].file = trace[j].file /\ i < j

FirstUnread(i) == i \in unread /\ \A j \in unread \ {i} : ReadBefore(i, j)

Minus(a, b) == IF a < b THEN 0 ELSE a - b   \* saturating_sub

Base(i) == IF base = None THEN trace[i].ts ELSE base
Offset(i) == Minus(trace[i].ts, Base(i))

\* What the three loops have in common: the record is consumed and warned about.
Consume(a, i) ==
    /\ phase = "read"
    /\ analysis = a
    /\ FirstUnread(i)
    /\ unread' = unread \ {i}
    /\ base' = Base(i)
    /\ UNCHANGED <<trace, analysis, phase>>

IsSubmit(i) == trace[i].kind = "submit"
Found(i) == trace[i].key \in DOMAIN inFlight

\* Bug: the table is looked up after the submission was inserted.
BugWarn(i) ==
    /\ duplicate' = IF IsSubmit(i) THEN duplicate \cup {i} ELSE duplicate
    /\ unmatched' = IF ~IsSubmit(i) /\ ~Found(i) THEN unmatched \cup {i} ELSE unmatched

Warn(i) ==
    /\ duplicate' = IF IsSubmit(i) /\ Found(i) THEN duplicate \cup {i} ELSE duplicate
    /\ unmatched' = IF ~IsSubmit(i) /\ ~Found(i) THEN unmatched \cup {i} ELSE unmatched

\* Bug: a duplicate submission leaves the first one in the table.
BugTrack(i) ==
    LET key == trace[i].key IN
        inFlight' = IF IsSubmit(i)
                    THEN [k \in DOMAIN inFlight \cup {key} |-> IF k \in DOMAIN inFlight THEN inFlight[k] ELSE i]
                    ELSE [k \in DOMAIN inFlight \ {key} |-> inFlight[k]]

\* Inserting replaces the submission the table held.  The two depth analyses keep a
\* set of keys, for which it makes no difference.
Track(i) ==
    LET key == trace[i].key IN
        inFlight' = IF IsSubmit(i)
                    THEN [k \in DOMAIN inFlight \cup {key} |-> IF k = key THEN i ELSE inFlight[k]]
                    ELSE [k \in DOMAIN inFlight \ {key} |-> inFlight[k]]

-----------------------------------------------------------------------------
(* analyze_throughput_records.                                             *)

NoBytes == [read |-> 0, write |-> 0]
BytesOf(b) == IF b \in DOMAIN buckets THEN buckets[b] ELSE NoBytes

\* ThroughputBucket::add: the bytes of submission s.
Add(bytes, s) ==
    LET d == trace[s].direction IN
        IF d = "other" THEN bytes ELSE [bytes EXCEPT ![d] = @ + trace[s].len]

ThroughputRecord(i) ==
    LET b == (Offset(i) \div Scale) * Scale
        key == trace[i].key
    IN  /\ Consume("throughput", i)
        /\ Warn(i)
        /\ Track(i)
        /\ last' = IF last < Offset(i) THEN Offset(i) ELSE last
        /\ buckets' = IF IsSubmit(i) \/ ~Found(i) THEN buckets
                      ELSE [c \in DOMAIN buckets \cup {b} |->
                               IF c = b THEN Add(BytesOf(b), inFlight[key]) ELSE buckets[c]]
        /\ UNCHANGED <<rows, depthVars, sampleVars, percentVars>>

\* throughput_bucket_duration_ns: a rate is bytes over this time.
Duration(b) ==
    LET d == Minus(last, b) IN IF d < 1 THEN 1 ELSE IF d > Scale THEN Scale ELSE d

ThroughputDone ==
    /\ phase = "read"
    /\ analysis = "throughput"
    /\ unread = {}
    /\ phase' = "done"
    /\ rows' = {[time |-> b, bytes |-> buckets[b], duration |-> Duration(b)] : b \in DOMAIN buckets}
    /\ UNCHANGED <<trace, analysis, readVars, last, buckets, depthVars, sampleVars, percentVars>>

-----------------------------------------------------------------------------
(* analyze_queue_depth_records.                                            *)

\* How often the loop of emit_due_samples runs, and where it leaves next_sample:
\* when the next time is not a u64, on the last one it has written.
Due(next, limit, inclusive) ==
    IF next < limit \/ (inclusive /\ next = limit)
    THEN (limit - next - (IF inclusive THEN 0 ELSE 1)) \div Scale + 1
    ELSE 0

After(next, n) ==
    IF n = 0 \/ next + n * Scale <= MaxU64 THEN next + n * Scale ELSE next + (n - 1) * Scale

Rows(next, n) ==
    [k \in 1..n |-> [time |-> next + (k - 1) * Scale, global |-> globalDepth,
                     queues |-> [q \in known |-> queueDepth[q]]]]

\* Bug: the samples up to the new offset are written with the old one included.
BugSampleUpTo(o) ==
    LET n == IF current = None \/ o = current THEN 0 ELSE Due(nextSample, o, TRUE)
    IN  /\ samples' = samples \o Rows(nextSample, n)
        /\ nextSample' = After(nextSample, n)

\* The samples due up to the previous offset, then those before the new one.
SampleUpTo(o) ==
    LET moved == current # None /\ o # current
        n1 == IF moved THEN Due(nextSample, current, TRUE) ELSE 0
        next == After(nextSample, n1)
        n2 == IF moved THEN Due(next, o, FALSE) ELSE 0
    IN  /\ samples' = samples \o Rows(nextSample, n1) \o Rows(next, n2)
        /\ nextSample' = After(next, n2)

\* Bug: a duplicate submission counts again.
BugCount(i) ==
    LET q == QueueOf[trace[i].key] IN
    IF IsSubmit(i)
    THEN /\ globalDepth' = globalDepth + 1
         /\ queueDepth' = [queueDepth EXCEPT ![q] = @ + 1]
    ELSE IF Found(i)
    THEN /\ globalDepth' = Minus(globalDepth, 1)
         /\ queueDepth' = [queueDepth EXCEPT ![q] = Minus(@, 1)]
    ELSE UNCHANGED depthVars

\* The depths change only when the table of commands in flight does.
Count(i) ==
    LET q == QueueOf[trace[i].key] IN
    \/ /\ IsSubmit(i) /\ ~Found(i)
       /\ globalDepth' = globalDepth + 1
       /\ queueDepth' = [queueDepth EXCEPT ![q] = @ + 1]
    \/ /\ ~IsSubmit(i) /\ Found(i)
       /\ globalDepth' = Minus(globalDepth, 1)
       /\ queueDepth' = [queueDepth EXCEPT ![q] = Minus(@, 1)]
    \/ /\ IsSubmit(i) = Found(i)
       /\ UNCHANGED depthVars

\* QueueDepthState::apply_record, after the samples that are due.
DepthRecord(i) ==
    /\ Consume("depth", i)
    /\ Warn(i)
    /\ Track(i)
    /\ Count(i)
    /\ SampleUpTo(Offset(i))
    /\ current' = Offset(i)
    /\ known' = IF IsSubmit(i) THEN known \cup {QueueOf[trace[i].key]} ELSE known
    /\ UNCHANGED <<throughputVars, percentVars>>

DepthDone ==
    /\ phase = "read"
    /\ analysis = "depth"
    /\ unread = {}
    /\ phase' = "done"
    /\ LET n == IF current = None THEN 0 ELSE Due(nextSample, current, TRUE)
       IN  /\ samples' = samples \o Rows(nextSample, n)
           /\ nextSample' = After(nextSample, n)
    /\ UNCHANGED <<trace, analysis, readVars, throughputVars, depthVars, known, current, percentVars>>

-----------------------------------------------------------------------------
(* analyze_queue_depth_percent_records.                                    *)

Bump(dist, d) ==
    [x \in DOMAIN dist \cup {d} |->
        (IF x \in DOMAIN dist THEN dist[x] ELSE 0) + (IF x = d THEN 1 ELSE 0)]

\* Bug: the depth is sampled after the submission is counted.
BugPercentRecord(i) ==
    LET q == QueueOf[trace[i].key] IN
    /\ Consume("percent", i)
    /\ Warn(i)
    /\ Track(i)
    /\ Count(i)
    /\ globalDist' = IF IsSubmit(i) THEN Bump(globalDist, globalDepth') ELSE globalDist
    /\ queueDist' = IF IsSubmit(i) THEN [queueDist EXCEPT ![q] = Bump(@, queueDepth'[q])] ELSE queueDist
    /\ UNCHANGED <<throughputVars, sampleVars>>

\* Each submission, a duplicate one too, samples the depths it finds.
PercentRecord(i) ==
    LET q == QueueOf[trace[i].key] IN
    /\ Consume("percent", i)
    /\ Warn(i)
    /\ Track(i)
    /\ Count(i)
    /\ globalDist' = IF IsSubmit(i) THEN Bump(globalDist, globalDepth) ELSE globalDist
    /\ queueDist' = IF IsSubmit(i) THEN [queueDist EXCEPT ![q] = Bump(@, queueDepth[q])] ELSE queueDist
    /\ UNCHANGED <<throughputVars, sampleVars>>

PercentDone ==
    /\ phase = "read"
    /\ analysis = "percent"
    /\ unread = {}
    /\ phase' = "done"
    /\ UNCHANGED <<trace, analysis, readVars, throughputVars, depthVars, sampleVars, percentVars>>

Analyse(i) == ThroughputRecord(i) \/ DepthRecord(i) \/ PercentRecord(i)

Next ==
    \/ HappenNext
    \/ \E a \in {"throughput", "depth", "percent"} : Load(a)
    \/ LoadFails
    \/ \E i \in unread : Analyse(i)
    \/ ThroughputDone \/ DepthDone \/ PercentDone

Spec == Init /\ [][Next]_vars

-----------------------------------------------------------------------------
(* What the trace says, by itself.                                         *)

Read == IF phase \in {"read", "done"} THEN (1..Len(trace)) \ unread ELSE {}
SubmitOfAt(k, i) == trace[i].kind = "submit" /\ trace[i].key = k
CompleteOfAt(k, i) == trace[i].kind = "complete" /\ trace[i].key = k

\* The submission that command k still has open after the first n records.
OpenSubmits(k, n) ==
    {s \in 1..n : SubmitOfAt(k, s) /\ \A j \in (s + 1)..n : ~CompleteOfAt(k, j)}
OpenKeys(n) == {k \in Keys : OpenSubmits(k, n) # {}}
OpenIn(q, n) == {k \in OpenKeys(n) : QueueOf[k] = q}

\* Times are relative to the first record; how many records happened up to t.
Time(i) == trace[i].ts - trace[1].ts
UpTo(t) == Cardinality({i \in 1..Len(trace) : Time(i) <= t})

-----------------------------------------------------------------------------
(* Properties.                                                             *)

TypeOK ==
    /\ trace \in Seq(Record)
    /\ analysis \in {"none", "throughput", "depth", "percent"}
    /\ phase \in {"record", "read", "done", "err"}
    /\ unread \subseteq 1..Len(trace)
    /\ base \in Nat \cup {None}
    /\ DOMAIN inFlight \subseteq Keys
    /\ \A k \in DOMAIN inFlight : inFlight[k] \in 1..Len(trace)
    /\ duplicate \subseteq 1..Len(trace)
    /\ unmatched \subseteq 1..Len(trace)
    /\ last \in Nat
    /\ DOMAIN buckets \subseteq Nat
    /\ \A b \in DOMAIN buckets : buckets[b] \in [read : Nat, write : Nat]
    /\ globalDepth \in Nat
    /\ queueDepth \in [Queues -> Nat]
    /\ known \subseteq Queues
    /\ current \in Nat \cup {None}
    /\ nextSample \in 0..MaxU64
    /\ DOMAIN globalDist \subseteq Nat
    /\ DOMAIN queueDist = Queues

\* The counters are those of the table of commands in flight, so that a subtraction
\* never saturates, whatever the trace repeats or misses.
DepthsCount ==
    analysis \in {"depth", "percent"} =>
        /\ globalDepth = Cardinality(DOMAIN inFlight)
        /\ \A q \in Queues :
              queueDepth[q] = Cardinality({k \in DOMAIN inFlight : QueueOf[k] = q})

\* One file: the samples are the depth of the trace at 0, Scale, 2 * Scale ... up to
\* the last record: each counts the commands open once every record of that
\* time has happened.  Of the times that are no u64 nothing is said.
SamplesRight ==
    Files = 1 /\ MaxTs + Scale <= MaxU64 =>
        /\ \A n \in 1..Len(samples) :
              LET t == (n - 1) * Scale IN
              /\ samples[n].time = t
              /\ samples[n].global = Cardinality(OpenKeys(UpTo(t)))
              /\ DOMAIN samples[n].queues = {QueueOf[trace[i].key] : i \in {j \in 1..UpTo(t) : IsSubmit(j)}}
              /\ \A q \in DOMAIN samples[n].queues : samples[n].queues[q] = Cardinality(OpenIn(q, UpTo(t)))
        /\ phase = "done" /\ analysis = "depth" /\ trace # <<>> =>
              Len(samples) = Time(Len(trace)) \div Scale + 1

\* The submission that completion j belongs to: the latest that was open.
Submission(j) == trace[Max(OpenSubmits(trace[j].key, j - 1))]

\* Completions of the trace that belong to a submission, by its direction and by bucket.
Matched(d, b) ==
    {j \in 1..Len(trace) :
        /\ ~IsSubmit(j)
        /\ OpenSubmits(trace[j].key, j - 1) # {}
        /\ Submission(j).direction = d
        /\ (Time(j) \div Scale) * Scale = b}

\* Their bytes, each byte of each of them one.
BytesDone(d, b) ==
    Cardinality(UNION {{j} \X (1..Submission(j).len) : j \in Matched(d, b)})

\* One file: a row for each bucket with a matched completion, its bytes are those of
\* the latest submissions, each counted in the direction of its own opcode, and the
\* time they are divided by ends with the trace.
ThroughputRight ==
    Files = 1 /\ phase = "done" /\ analysis = "throughput" =>
        /\ {r.time : r \in rows} =
              {b \in 0..MaxTs : \E d \in Directions : Matched(d, b) # {}}
        /\ \A r \in rows :
              /\ r.bytes = [d \in {"read", "write"} |-> BytesDone(d, r.time)]
              /\ r.duration \in 1..Scale
              /\ r.duration = 1 \/ r.time + r.duration <= Time(Len(trace))

\* One file: the distributions count the submissions by the depth they found.
PercentRight ==
    Files = 1 /\ phase = "done" /\ analysis = "percent" =>
        LET Submits == {i \in 1..Len(trace) : IsSubmit(i)} IN
        /\ globalDist = [d \in {Cardinality(OpenKeys(i - 1)) : i \in Submits} |->
              Cardinality({i \in Submits : Cardinality(OpenKeys(i - 1)) = d})]
        /\ \A q \in Queues :
              LET Of == {i \in Submits : QueueOf[trace[i].key] = q} IN
              queueDist[q] = [d \in {Cardinality(OpenIn(q, i - 1)) : i \in Of} |->
                  Cardinality({i \in Of : Cardinality(OpenIn(q, i - 1)) = d})]

\* "completion without matching submit" (analyze.rs:485) is said of a completion
\* whose submission is not in the trace, and "duplicate outstanding submit" of a
\* submission of a command that was open; and of each of them.
WarningsTrue ==
    \A i \in Read :
        /\ i \in unmatched <=> ~IsSubmit(i) /\ OpenSubmits(trace[i].key, i - 1) = {}
        /\ i \in duplicate <=> IsSubmit(i) /\ OpenSubmits(trace[i].key, i - 1) # {}

=============================================================================
