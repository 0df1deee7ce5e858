------------------------------ MODULE PageParse ------------------------------
(***************************************************************************)
(* From a ring buffer page to a record of the output file and back: the    *)
(* page parser and the encoder of ftrace.rs, and RecordReader of lib.rs.   *)
(*                                                                         *)
(* Pages and files are sequences of words, which are numbers: nothing but  *)
(* its position makes a word a header or data, as in the bytes they stand  *)
(* for.  The sizes are small but keep the order the code relies on.  The   *)
(* page layout is the one in the comment of parse_page_events.             *)
(***************************************************************************)
EXTENDS Naturals, Sequences

CONSTANTS
    Short,       \* the longest event whose length is its type_len (28)
    DeltaBase,   \* a time delta of the header is below it (2^27)
    WordBase,    \* each half of a number kept in two parts is below it
    U16,         \* one more than the largest u16
    U64,         \* one more than the largest u64
    PageWords,   \* room for events on a page (PAGE_SIZE - PAGE_DATA_OFFSET)
    MaxPages,    \* bound: pages read
    MaxEvents,   \* bound: events recorded
    Steps,       \* bound: how far the clock may move between two events
    Tails        \* bound: the lengths of descriptor lists

\* type_len, and what it says when it is not a length.
TimeExtend == Short + 1
TimeStamp  == Short + 2
Padding    == Short + 3
Types      == Short + 4

\* Lengths: the record header, a submit record without tail, a complete record.
HeaderLen   == 5
SubmitFixed == 7
CompleteLen == 5
Magic       == 9

\* Event ids, and the words of a submission before its descriptors.
SubmitId   == 1
CompleteId == 2
OtherId    == 3
Fixed      == 4

EntryLen(sgl) == IF sgl = 1 THEN 2 ELSE 1

ASSUME PageAssumption ==
    /\ {Short, DeltaBase, WordBase, U16, U64} \subseteq Nat \ {0}
    /\ {PageWords, MaxEvents} \subseteq Nat
    /\ MaxPages \in Nat \ {0}
    /\ Steps \subseteq Nat /\ Tails \subseteq Nat
    /\ Short >= Fixed
    /\ Fixed < WordBase                 \* the offset in a __data_loc
    /\ SubmitFixed + PageWords < U16    \* 100 + 4080 < 2^16

VARIABLES
    \* kernel
    now,      \* the trace clock
    events,   \* events recorded
    written,  \* history: those of the two kinds that are captured
    start,    \* the page's time stamp
    page,     \* the committed words of the page
    heads,    \* history: the positions of the headers on the page
    pages,    \* pages begun
    \* parser and reader
    phase,    \* "fill", "parse", "scan", "done" or "err"
    pos,      \* words of the page consumed
    ts,
    records,  \* the words encoded from the page so far
    file,     \* the words written to cpu{N}.bin
    cut,      \* a write stopped half way, and the capture with it
    offset,   \* words of the file consumed
    got       \* the records next_record has returned

kernelVars == <<now, events, written, start, page, heads, pages>>
parseVars  == <<pos, ts, records>>
fileVars   == <<file, cut>>
scanVars   == <<offset, got>>
vars       == <<kernelVars, phase, parseVars, fileVars, scanVars>>

Init ==
    /\ now = 0
    /\ events = 0
    /\ written = <<>>
    /\ start = 0
    /\ page = <<>>
    /\ heads = {}
    /\ pages = 1
    /\ phase = "fill"
    /\ pos = 0
    /\ ts = 0
    /\ records = <<>>
    /\ file = <<>>
    /\ cut = FALSE
    /\ offset = 0
    /\ got = <<>>

-----------------------------------------------------------------------------
(* The kernel writes a page.                                               *)

Header(type, delta) == delta * Types + type

\* The words of an event: the id, the command, the __data_loc of the descriptors
\* (length and offset in one word), use_sgl, the descriptors.
Data(e) ==
    IF e.id = SubmitId
    THEN <<SubmitId, e.cmd, e.tail * WordBase + Fixed, e.sgl>> \o [k \in 1..e.tail |-> e.cmd + k]
    ELSE <<e.id, e.cmd>>

\* A long gap takes an entry of its own; which of the two is the kernel's choice.
Gap(dt, t) ==
    IF dt < DeltaBase THEN {<<>>}
    ELSE {<<Header(TimeExtend, dt % DeltaBase), dt \div DeltaBase>>,
          <<Header(TimeStamp, 0), t % WordBase, t \div WordBase>>}

Entry(data, delta) ==
    IF Len(data) <= Short THEN <<Header(Len(data), delta)>> \o data
    ELSE <<Header(0, delta), Len(data)>> \o data

IsOurs(e) == e.id \in {SubmitId, CompleteId}

\* The first event of a page has the page's time stamp.  The clock is a u64.
Happen(e, dt) ==
    /\ phase = "fill"
    /\ events < MaxEvents
    /\ events' = events + 1
    /\ now + dt < U64
    /\ now' = now + dt
    /\ LET first == page = <<>> IN
       /\ start' = IF first THEN now' ELSE start
       /\ \E gap \in IF first THEN {<<>>} ELSE Gap(dt, now') :
             LET delta == IF first \/ gap # <<>> THEN 0 ELSE dt
                 at == Len(page) + 1
             IN  /\ page' = page \o gap \o Entry(Data(e), delta)
                 /\ heads' = heads \cup {at, at + Len(gap)}
    /\ Len(page') <= PageWords
    /\ written' = IF IsOurs(e) THEN Append(written, [event |-> e, ts |-> now']) ELSE written
    /\ UNCHANGED <<pages, phase, parseVars, fileVars, scanVars>>

\* read_one_page clears the records and parses the page it has read.
Parse ==
    /\ phase' = "parse"
    /\ pos' = 0
    /\ ts' = start
    /\ records' = <<>>

\* What follows padding is whatever the page held before: here, an event.
Pad ==
    /\ phase = "fill"
    /\ page # <<>>
    /\ LET at == Len(page) + 1 IN
       /\ page' = page \o <<Header(Padding, 0)>> \o Entry(<<CompleteId, 0>>, 0)
       /\ Len(page') <= PageWords
       /\ heads' = heads \cup {at}
    /\ Parse
    /\ UNCHANGED <<now, events, written, start, pages, fileVars, scanVars>>

\* A page is read before it is full; one without committed words yields nothing.
ReadPage ==
    /\ phase = "fill"
    /\ Parse
    /\ UNCHANGED <<kernelVars, fileVars, scanVars>>

-----------------------------------------------------------------------------
(* encode_submit and encode_complete.                                      *)

Descriptors(data) ==
    LET len == data[3] \div WordBase
        off == data[3] % WordBase
    IN  IF len > 0 /\ off + len <= Len(data) THEN SubSeq(data, off + 1, off + len) ELSE <<>>

\* A record's words: magic, type, length, time and command, then the payload.
EncodeSubmit(data, t) ==
    LET tail == Descriptors(data) IN
        <<Magic, SubmitId, (SubmitFixed + Len(tail)) % U16, t, data[2],
          data[4], (Len(tail) \div EntryLen(data[4])) % U16>> \o tail

EncodeComplete(data, t) == <<Magic, CompleteId, CompleteLen, t, data[2]>>

\* dispatch_event: an event that is too short or not ours adds nothing.
Dispatch(data, t) ==
    IF data[1] = SubmitId /\ Len(data) >= Fixed THEN EncodeSubmit(data, t)
    ELSE IF data[1] = CompleteId /\ Len(data) >= 2 THEN EncodeComplete(data, t)
    ELSE <<>>

-----------------------------------------------------------------------------
(* parse_page_events, one entry per step.                                  *)

Word(k) == page[pos + k]
Type == Word(1) % Types
Delta == Word(1) \div Types
Later(d) == (ts + d) % U64
Has(n) == pos + n <= Len(page)

\* The records of the page are written; then another page, or the capture is over.
WritePage ==
    /\ file' = file \o records
    /\ \/ phase' = "scan" /\ UNCHANGED <<page, heads, pages>>
       \/ /\ pages < MaxPages
          /\ phase' = "fill"
          /\ page' = <<>>
          /\ heads' = {}
          /\ pages' = pages + 1
    /\ UNCHANGED cut

\* write_all fails after some of the words (the disk is full): the reader returns.
WriteFails ==
    /\ \E n \in 0..(Len(records) - 1) : file' = file \o SubSeq(records, 1, n)
    /\ cut' = TRUE
    /\ phase' = "scan"
    /\ UNCHANGED <<page, heads, pages>>

\* The loop's condition, the padding, and each `break` on an entry cut short.
Leave ==
    /\ phase = "parse"
    /\ \/ ~Has(1)
       \/ /\ Has(1)
          /\ \/ Type = Padding
             \/ Type = TimeStamp  /\ ~Has(3)
             \/ Type = TimeExtend /\ ~Has(2)
             \/ Type = 0 /\ (~Has(2) \/ Word(2) = 0 \/ ~Has(2 + Word(2)))
             \/ Type \in 1..Short /\ ~Has(1 + Type)
    /\ WritePage \/ WriteFails
    /\ UNCHANGED <<now, events, written, start, parseVars, scanVars>>

ParseTimeStamp ==
    /\ phase = "parse"
    /\ Has(1) /\ Type = TimeStamp /\ Has(3)
    /\ ts' = Word(2) + Word(3) * WordBase
    /\ pos' = pos + 3
    /\ UNCHANGED <<kernelVars, phase, records, fileVars, scanVars>>

\* Bug: the upper bits are added without being shifted.
BugParseTimeExtend ==
    /\ phase = "parse"
    /\ Has(1) /\ Type = TimeExtend /\ Has(2)
    /\ ts' = Later(Word(2) + Delta)
    /\ pos' = pos + 2
    /\ UNCHANGED <<kernelVars, phase, records, fileVars, scanVars>>

ParseTimeExtend ==
    /\ phase = "parse"
    /\ Has(1) /\ Type = TimeExtend /\ Has(2)
    /\ ts' = Later(Word(2) * DeltaBase + Delta)
    /\ pos' = pos + 2
    /\ UNCHANGED <<kernelVars, phase, records, fileVars, scanVars>>

\* Bug: the length word is counted as part of the data.
BugParseLong ==
    /\ phase = "parse"
    /\ Has(1) /\ Type = 0 /\ Has(2)
    /\ Word(2) # 0 /\ Has(2 + Word(2))
    /\ ts' = Later(Delta)
    /\ records' = records \o Dispatch(SubSeq(page, pos + 3, pos + 2 + Word(2)), ts')
    /\ pos' = pos + 1 + Word(2)
    /\ UNCHANGED <<kernelVars, phase, fileVars, scanVars>>

\* The length is in a word of its own.
ParseLong ==
    /\ phase = "parse"
    /\ Has(1) /\ Type = 0 /\ Has(2)
    /\ Word(2) # 0 /\ Has(2 + Word(2))
    /\ ts' = Later(Delta)
    /\ records' = records \o Dispatch(SubSeq(page, pos + 3, pos + 2 + Word(2)), ts')
    /\ pos' = pos + 2 + Word(2)
    /\ UNCHANGED <<kernelVars, phase, fileVars, scanVars>>

ParseShort ==
    /\ phase = "parse"
    /\ Has(1) /\ Type \in 1..Short /\ Has(1 + Type)
    /\ ts' = Later(Delta)
    /\ records' = records \o Dispatch(SubSeq(page, pos + 2, pos + 1 + Type), ts')
    /\ pos' = pos + 1 + Type
    /\ UNCHANGED <<kernelVars, phase, fileVars, scanVars>>

-----------------------------------------------------------------------------
(* RecordReader::next_record and parse_record_bytes.                       *)

Rest == Len(file) - offset
Field(k) == file[offset + k]

\* What next_record demands before it returns a record, but for the version: there is
\* one, and every record is written with it.
SubmitLength == Field(3) >= SubmitFixed /\ Field(3) - SubmitFixed = Field(7) * EntryLen(Field(6))

Parses ==
    /\ Rest >= HeaderLen
    /\ Field(1) = Magic
    /\ Field(3) >= HeaderLen
    /\ Rest >= Field(3)
    /\ \/ Field(2) = SubmitId /\ SubmitLength
       \/ Field(2) = CompleteId /\ Field(3) = CompleteLen

Truncated ==
    \/ Rest < HeaderLen
    \/ Field(1) = Magic /\ Field(3) >= HeaderLen /\ Rest < Field(3)

\* What a record says: the tail is empty in a completion.
Decode(words) ==
    [id |-> words[2], ts |-> words[4], cmd |-> words[5],
     sgl |-> IF words[2] = SubmitId THEN words[6] ELSE 0,
     tail |-> IF words[2] = SubmitId THEN SubSeq(words, SubmitFixed + 1, Len(words)) ELSE <<>>]

\* Bug: the offset moves by the header too.
BugScanRecord ==
    /\ phase = "scan"
    /\ Rest > 0 /\ Parses
    /\ got' = Append(got, Decode(SubSeq(file, offset + 1, offset + Field(3))))
    /\ offset' = offset + HeaderLen + Field(3)
    /\ UNCHANGED <<kernelVars, phase, parseVars, fileVars>>

ScanRecord ==
    /\ phase = "scan"
    /\ Rest > 0 /\ Parses
    /\ got' = Append(got, Decode(SubSeq(file, offset + 1, offset + Field(3))))
    /\ offset' = offset + Field(3)
    /\ UNCHANGED <<kernelVars, phase, parseVars, fileVars>>

\* A record cut short uses up the rest of the file; the other errors leave the offset.
ScanFails ==
    /\ phase = "scan"
    /\ Rest > 0 /\ ~Parses
    /\ phase' = "err"
    /\ offset' = IF Truncated THEN Len(file) ELSE offset
    /\ UNCHANGED <<kernelVars, parseVars, fileVars, got>>

ScanEnds ==
    /\ phase = "scan"
    /\ Rest = 0
    /\ phase' = "done"
    /\ UNCHANGED <<kernelVars, parseVars, fileVars, scanVars>>

\* The commands are numbered; a list of SGL descriptors holds whole descriptors.
EventOf(n) ==
    {[id |-> i, cmd |-> n, sgl |-> 0, tail |-> 0] : i \in {CompleteId, OtherId}} \cup
    {[id |-> SubmitId, cmd |-> n, sgl |-> g, tail |-> t * EntryLen(g)] : g \in {0, 1}, t \in Tails}

Next ==
    \/ \E e \in EventOf(events + 1), dt \in Steps : Happen(e, dt)
    \/ Pad
    \/ ReadPage
    \/ Leave \/ ParseTimeStamp \/ ParseTimeExtend \/ ParseLong \/ ParseShort
    \/ ScanRecord \/ ScanFails \/ ScanEnds

Spec == Init /\ [][Next]_vars

-----------------------------------------------------------------------------
(* Properties.                                                             *)

TypeOK ==
    /\ now \in 0..(U64 - 1) /\ start \in 0..now
    /\ events \in Nat
    /\ page \in Seq(Nat) /\ Len(page) <= PageWords
    /\ heads \subseteq 1..Len(page)
    /\ pages \in 1..MaxPages
    /\ phase \in {"fill", "parse", "scan", "done", "err"}
    /\ pos \in 0..PageWords
    /\ ts \in 0..(U64 - 1)
    /\ records \in Seq(Nat) /\ file \in Seq(Nat)
    /\ cut \in BOOLEAN
    /\ offset \in 0..Len(file)

\* The parser takes no word for a header that was not written as one: every arm of
\* the match skips exactly the words of its entry (parse_page_events).
InSync == phase = "parse" /\ pos < Len(page) => pos + 1 \in heads

Expected(w) == [id |-> w.event.id, ts |-> w.ts, cmd |-> w.event.cmd, sgl |-> w.event.sgl,
                tail |-> [k \in 1..w.event.tail |-> w.event.cmd + k]]

\* What the readers of the output get is what the kernel recorded: every NVMe event
\* in order, with its time, command and descriptors, and nothing else.  A write that
\* was cut short costs the records after it, and never yields a wrong one.
RoundTrip ==
    /\ Len(got) <= Len(written)
    /\ \A n \in 1..Len(got) : got[n] = Expected(written[n])
    /\ phase = "err" => cut
    /\ phase = "done" /\ ~cut => Len(got) = Len(written)

=============================================================================
