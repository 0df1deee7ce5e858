----------------------------- MODULE RelayRepro -----------------------------
(***************************************************************************)
(* The reproducer of the relay_switch_subbuf race: the kernel module       *)
(* (relay_repro.c) whose thread writes numbered records into a relay ring, *)
(* and the two programs that read the ring and report the records that     *)
(* come twice: the Rust client, with its log thread, and the C client.     *)
(*                                                                         *)
(* A record is its index: 0 is the first one the thread makes.  It carries *)
(* seq, the index modulo Period (2^64 in the code), and toggle, which      *)
(* flips with every wraparound of seq.  The ring is the sequence of all    *)
(* records written; a place of it is overwritten NSubbufs * SubbufSize     *)
(* places later.                                                           *)
(***************************************************************************)
EXTENDS Integers, Sequences, FiniteSets, Functions, FiniteSetsExt

CONSTANTS
    SubbufSize,  \* records in a sub-buffer (170 in the module)
    NSubbufs,    \* sub-buffers (4 in the module)
    Period,      \* the numbers seq has (2^64)
    ReadCap,     \* whole records that fit the client's read buffer
    LogCap,      \* chunks the log channel holds (64)
    MaxRecords,  \* bound: records the thread makes
    MaxRaces     \* bound: reads that lose the race with a switch

ASSUME RelayAssumption ==
    /\ {SubbufSize, NSubbufs, Period, ReadCap, LogCap} \subseteq Nat \ {0}
    /\ {MaxRecords, MaxRaces} \subseteq Nat

Ring == SubbufSize * NSubbufs

VARIABLES
    next,      \* the index of the next record the thread makes
    written,   \* Seq(Nat): the record at each place written so far
    switch,    \* relay_switch_subbuf: "none", "published" or "refused"
    pos,       \* places the reader has passed
    client,    \* "rust", "rust_log" (with --log) or "c"
    pc,        \* the client: "loop", "read", "copy", "join", "ok" or "err"
    stop,      \* the flag the signal handler sets
    last,      \* <<>>, or the record read last: last_seq and last_toggle
    dups,      \* DUP lines printed
    corrupt,   \* a read was not a whole number of records, or a record had no magic
    logger,    \* the log thread: "none", "create", "recv", "write", "done" or "failed"
    channel,   \* chunks sent to the log thread
    held,      \* the chunk the log thread is writing: at most one
    logFile,   \* whole chunks in the log
    torn,      \* part of a chunk follows them
    accepted,  \* chunks try_send took; the i-th of them is the number i
    seen,      \* records the scan has met
    again,     \* the scan has met one of them twice
    races      \* reads that lost the race

ringVars == <<next, written, switch>>
scanVars == <<last, dups, corrupt, seen, again>>
logVars  == <<channel, accepted>>
fileVars == <<logger, held, logFile, torn>>
vars == <<ringVars, pos, client, pc, stop, scanVars, logVars, fileVars, races>>

Garbage == -1  \* bytes that are no record

SeqNo(n)  == n % Period
Toggle(n) == (n \div Period) % 2

-----------------------------------------------------------------------------
(* The kernel's relay ring, as relay_repro.c describes it.                 *)

\* The last record fills its sub-buffer.
AtEnd == written # <<>> /\ Len(written) % SubbufSize = 0

\* The production count, which a full sub-buffer enters with Publish.
Produced == (Len(written) \div SubbufSize) - (IF AtEnd /\ switch = "none" THEN 1 ELSE 0)

\* What place k holds: the last record written there.
Mem(k) ==
    LET J == {j \in DOMAIN written : j % Ring = k % Ring /\ Len(written) < j + Ring}
    IN  IF J = {} THEN Garbage ELSE written[CHOOSE j \in J : TRUE]

\* Bug: the callback never refuses (overwrite mode).
BugFull == FALSE

\* repro_subbuf_start: relay_buf_full.
Full == Produced - (pos \div SubbufSize) >= NSubbufs

\* The ring and what was dropped between its records span less than a Period.
InPeriod ==
    written # <<>> => next - written[Max({1, Len(written) - Ring})] < Period

\* writer_fn makes a record and relay_write has room for it.
Make == next < MaxRecords /\ InPeriod /\ next' = next + 1
Put  == written' = Append(written, next)

RingUnchanged == UNCHANGED <<pos, client, pc, stop, scanVars, logVars, fileVars, races>>

Write == switch = "none" /\ ~AtEnd /\ Make /\ Put /\ UNCHANGED switch /\ RingUnchanged

\* The sub-buffer has no room: the production count is visible before the
\* new sub-buffer is in place.
Publish ==
    /\ switch = "none" /\ AtEnd
    /\ switch' = "published"
    /\ UNCHANGED <<next, written>> /\ RingUnchanged

\* The callback decides: the record opens the new sub-buffer, or is dropped
\* and the next one asks again.
SubbufStart ==
    /\ switch # "none"
    /\ Make
    /\ \/ Full  /\ switch' = "refused" /\ UNCHANGED written
       \/ ~Full /\ switch' = "none"    /\ Put
    /\ RingUnchanged

Writer == Write \/ Publish \/ SubbufStart

-----------------------------------------------------------------------------
(* The client's scan of what a read returned.                              *)

\* Bug: the toggle is not compared.
BugIsDup(prev, n) == SeqNo(n) <= SeqNo(prev)

\* A DUP line for n after prev.  The C client takes the largest number for
\* "no record yet".
IsDup(prev, n) ==
    /\ SeqNo(n) <= SeqNo(prev)
    /\ Toggle(n) = Toggle(prev)
    /\ client = "c" => SeqNo(prev) # Period - 1

\* Bug: every read starts anew, with no record before it.
BugBefore(chunk) == chunk

\* What a read returned, after the record that was last.
Before(chunk) == last \o chunk

\* The scan skips bytes that are no record and compares each record with the
\* one it met before.
Scan(chunk) ==
    LET run  == Before(chunk)
        good == {i \in DOMAIN run : run[i] # Garbage}
        Follows(j, i) == i < j /\ \A k \in good : k <= i \/ j <= k
        new  == Range(chunk) \ {Garbage}
    IN  /\ dups' = dups + Cardinality({j \in good : \E i \in good : Follows(j, i) /\ IsDup(run[i], run[j])})
        /\ \/ good = {} /\ UNCHANGED last
           \/ \E i \in good : (\A k \in good : k <= i) /\ last' = <<run[i]>>
        /\ corrupt' = (corrupt \/ Garbage \in Range(chunk))
        /\ seen' = seen \cup new
        /\ again' = (again \/ new \cap seen # {} \/ \E i, j \in good : i < j /\ run[i] = run[j])

\* Bug: the channel has no limit.
BugTrySend ==
    IF client = "rust_log" /\ logger # "failed"
    THEN channel' = Append(channel, accepted + 1) /\ accepted' = accepted + 1
    ELSE UNCHANGED logVars

\* try_send: the chunk is dropped when the channel is full or its reader gone.
TrySend ==
    IF client = "rust_log" /\ logger # "failed" /\ Len(channel) < LogCap
    THEN channel' = Append(channel, accepted + 1) /\ accepted' = accepted + 1
    ELSE UNCHANGED logVars

GotChunk(chunk) == TrySend /\ Scan(chunk) /\ pc' = "loop"

-----------------------------------------------------------------------------
(* The client's loop.                                                      *)

ReaderOnly == UNCHANGED <<ringVars, client, fileVars>>

\* Bug: the flag is tested when a read had nothing, not before each one.
BugTestStop ==
    /\ pc = "loop"
    /\ pc' = IF ~stop \/ Len(written) > pos THEN "read" ELSE IF client = "c" THEN "ok" ELSE "join"
    /\ UNCHANGED <<pos, stop, scanVars, logVars, races>> /\ ReaderOnly

\* while !stop.
TestStop ==
    /\ pc = "loop"
    /\ pc' = IF ~stop THEN "read" ELSE IF client = "c" THEN "ok" ELSE "join"
    /\ UNCHANGED <<pos, stop, scanVars, logVars, races>> /\ ReaderOnly

\* poll times out or is interrupted, or read has nothing.
ReadNothing ==
    /\ pc = "read"
    /\ pc' = "loop"
    /\ UNCHANGED <<pos, stop, scanVars, logVars, races>> /\ ReaderOnly

\* poll or read fails: run returns the error; the C client prints its totals.
ReadFails ==
    /\ pc = "read"
    /\ pc' = IF client = "c" THEN "ok" ELSE "err"
    /\ UNCHANGED <<pos, stop, scanVars, logVars, races>> /\ ReaderOnly

Available == Len(written) - pos

\* A read that does not fill the buffer.
Read ==
    /\ pc = "read"
    /\ \E n \in 1..ReadCap :
          /\ n <= Available
          /\ GotChunk([j \in 1..n |-> Mem(pos + j)])
          /\ pos' = pos + n
    /\ UNCHANGED <<stop, races>> /\ ReaderOnly

\* A read that fills the buffer, whose size is not a whole number of records:
\* the last record is cut and its rest opens the next read.
ReadCut ==
    /\ pc = "read"
    /\ Available > ReadCap
    /\ GotChunk(Append([j \in 1..ReadCap |-> Mem(pos + j)], Garbage))
    /\ pos' = pos + ReadCap + 1
    /\ UNCHANGED <<stop, races>> /\ ReaderOnly

\* The reader has seen all of the old sub-buffer and sees the new production
\* count before the new sub-buffer is in place: it takes the whole of the
\* recycled sub-buffer for data.
ReadStale ==
    /\ pc = "read"
    /\ switch = "published" /\ pos = Len(written) /\ races < MaxRaces
    /\ pc' = "copy"
    /\ races' = races + 1
    /\ UNCHANGED <<pos, stop, scanVars, logVars>> /\ ReaderOnly

\* Where the reader goes on: after the sub-buffer it counts as read, or, when
\* that puts it before the writer, at the oldest sub-buffer of the ring.
Oldest == IF Produced < NSubbufs THEN 0 ELSE Produced - NSubbufs + 1
Resume == {pos + SubbufSize, Oldest * SubbufSize}

\* The writer may have been at work in the sub-buffer meanwhile.
CopyStale ==
    /\ pc = "copy"
    /\ GotChunk([j \in 1..SubbufSize |-> Mem(pos + j)])
    /\ pos' \in Resume
    /\ UNCHANGED <<stop, races>> /\ ReaderOnly

LogEnded == logger \in {"done", "failed"}

\* The sender is dropped, then the log thread is joined, if there is one.
Join ==
    /\ pc = "join"
    /\ client = "rust_log" => LogEnded
    /\ pc' = IF logger = "failed" THEN "err" ELSE "ok"
    /\ UNCHANGED <<pos, stop, scanVars, logVars, races>> /\ ReaderOnly

Client == TestStop \/ ReadNothing \/ ReadFails \/ Read \/ ReadCut \/ ReadStale \/ CopyStale \/ Join

\* SIGINT or SIGTERM.
Signal ==
    /\ ~stop /\ stop' = TRUE
    /\ UNCHANGED <<ringVars, pos, client, pc, scanVars, logVars, fileVars, races>>

-----------------------------------------------------------------------------
(* log_writer.  It may fail at every call on the file.                     *)

LoggerOnly == UNCHANGED <<ringVars, pos, client, pc, stop, scanVars, accepted, races>>

CreateLog ==
    /\ logger = "create"
    /\ logger' \in {"recv", "failed"}
    /\ UNCHANGED <<channel, held, logFile, torn>> /\ LoggerOnly

Receive ==
    /\ logger = "recv" /\ channel # <<>>
    /\ logger' = "write"
    /\ held' = <<Head(channel)>> /\ channel' = Tail(channel)
    /\ UNCHANGED <<logFile, torn>> /\ LoggerOnly

\* A header and then the bytes: a write that fails may leave part of the chunk.
WriteChunk ==
    /\ logger = "write"
    /\ \/ logger' = "recv" /\ logFile' = logFile \o held /\ UNCHANGED torn
       \/ logger' = "failed" /\ torn' \in BOOLEAN /\ UNCHANGED logFile
    /\ held' = <<>>
    /\ UNCHANGED channel /\ LoggerOnly

\* Bug: the sender lives until run has joined the log thread.
BugSenderDropped == pc \in {"ok", "err"}

\* drop(log_tx), or the return of an error.
SenderDropped == pc \in {"join", "ok", "err"}

\* Bug: the thread ends as soon as the sender is gone.
BugLogEnd ==
    /\ logger = "recv" /\ SenderDropped
    /\ logger' \in {"done", "failed"}
    /\ UNCHANGED <<channel, held, logFile, torn>> /\ LoggerOnly

\* The channel is drained and has no sender: flush.
LogEnd ==
    /\ logger = "recv" /\ channel = <<>> /\ SenderDropped
    /\ logger' \in {"done", "failed"}
    /\ UNCHANGED <<channel, held, logFile, torn>> /\ LoggerOnly

Logger == CreateLog \/ Receive \/ WriteChunk \/ LogEnd

-----------------------------------------------------------------------------

\* The input is open, the log thread started.
Init ==
    /\ next = 0 /\ written = <<>> /\ switch = "none" /\ pos = 0
    /\ client \in {"rust", "rust_log", "c"}
    /\ pc = "loop" /\ stop = FALSE
    /\ last = <<>> /\ dups = 0 /\ corrupt = FALSE
    /\ logger = IF client = "rust_log" THEN "create" ELSE "none"
    /\ channel = <<>> /\ held = <<>> /\ logFile = <<>> /\ torn = FALSE /\ accepted = 0
    /\ seen = {} /\ again = FALSE /\ races = 0

Next == Writer \/ Client \/ Signal \/ Logger

\* Both threads of the client are scheduled; nothing is asked of the writer.
Spec == Init /\ [][Next]_vars /\ WF_vars(Client) /\ WF_vars(Logger)

-----------------------------------------------------------------------------

\* Types, and the bound of the log channel.
TypeOK ==
    /\ next \in Nat /\ pos \in Nat /\ written \in Seq(Nat)
    /\ switch \in {"none", "published", "refused"}
    /\ client \in {"rust", "rust_log", "c"}
    /\ pc \in {"loop", "read", "copy", "join", "ok", "err"}
    /\ stop \in BOOLEAN /\ corrupt \in BOOLEAN /\ again \in BOOLEAN
    /\ last \in Seq(Nat) /\ Len(last) <= 1
    /\ dups \in Nat /\ accepted \in Nat /\ races \in Nat
    /\ logger \in {"none", "create", "recv", "write", "done", "failed"}
    /\ channel \in Seq(Nat) /\ Len(channel) <= LogCap
    /\ held \in Seq(Nat) /\ logFile \in Seq(Nat) /\ torn \in BOOLEAN
    /\ seen \subseteq Nat

\* A DUP line stands for a lost race and each race is reported at most once,
\* whatever is dropped, cut or skipped, and however often seq wraps around
\* (rec.seq <= ls with the same fill, main.rs 218).
OneAlarmPerRace == dups <= races

SamePeriod ==
    /\ \A a, b \in seen : a \div Period = b \div Period
    /\ client = "c" => Period - 1 \notin {SeqNo(n) : n \in seen}

\* A record the client read twice is reported, as long as seq does not wrap
\* around (and, for the C client, has not reached its mark for "no record").
RepetitionsReported == again /\ SamePeriod => dups > 0

\* Without a lost race and with no corruption reported, the client has read
\* every record of every place it passed: the writer drops records rather
\* than overwrite what is not read (repro_subbuf_start).
NothingOverwritten ==
    races = 0 /\ ~corrupt => seen = {written[j] : j \in 1..pos}

\* The log holds the chunks try_send took, in order and without a hole, and
\* exactly these when run returns Ok: the sender is dropped before the join, the
\* thread drains the channel first, and an error that cut a chunk short is
\* returned by the join (main.rs 98, 245).
LogKeepsAccepted ==
    /\ logFile = [i \in 1..Len(logFile) |-> i]
    /\ pc = "ok" => Len(logFile) = accepted /\ ~torn

\* The steps the client and its log thread have left after a signal: two for each
\* chunk in the channel, which a read may still add one to.
ClientSteps == [loop |-> 2, read |-> 6, copy |-> 5, join |-> 1, ok |-> 0, err |-> 0]
LoggerSteps == [none |-> 0, create |-> 2, recv |-> 1, write |-> 2, done |-> 0, failed |-> 0]

StepsLeft == ClientSteps[pc] + LoggerSteps[logger] + 2 * Len(channel)

\* The end comes in a bounded number of steps: after a signal no step, of the writer
\* least of all, gives the client more to do, and each of its own brings it nearer to
\* its end, which a full channel delays the most (main.rs 149, 245).
StopSettles ==
    [][stop => /\ StepsLeft <= 2 * LogCap + 8
               /\ StepsLeft' <= StepsLeft
               /\ Client \/ Logger => StepsLeft' < StepsLeft]_vars

\* After a signal the client ends, whatever the writer and the log thread do.
StopReturns == stop ~> pc \in {"ok", "err"}
=============================================================================
