------------------------------- MODULE Splice -------------------------------
(***************************************************************************)
(* `nvme-trace splice`: the command opens the per-CPU files and creates    *)
(* the output (splice.rs); splice_streams_with_names (lib.rs) merges them  *)
(* with a binary heap that holds one record of each input.                 *)
(*                                                                         *)
(* A record is what record_order looks at: timestamp, sequence number,     *)
(* controller, and one number for the pair (qid, cid).  An input is a      *)
(* sequence of records and what its reader finds after the last one.       *)
(***************************************************************************)
EXTENDS Naturals, Sequences

CONSTANTS
    Inputs,      \* the inputs are 1..Inputs, in the order of the command line's expansion
    NameRank,    \* [1..Inputs -> Nat]: the order of their names as strings
    RecordSets,  \* each the records one kind of capture can hold
    MaxLen,      \* bound: records per input
    IOFaults     \* TRUE iff writing the output may fail

Rec == [ts : Nat, seq : Nat, ctrl : Nat, q : Nat]

ASSUME SpliceAssumption ==
    /\ Inputs \in Nat
    /\ NameRank \in [1..Inputs -> Nat]
    /\ \A R \in RecordSets : R \subseteq Rec
    /\ MaxLen \in Nat
    /\ IOFaults \in BOOLEAN

In == 1..Inputs

VARIABLES
    streams,  \* [In -> Seq(Rec)]: the parsable records of each input, as the capture left them
    tail,     \* [In -> {"eof", "error"}]: end of file, or a record that does not parse
    emptied,  \* the input that the output file is too, if there is one
    phase,    \* "open", "prime", "merge", "ok" or "err"
    turn,     \* the input to prime next
    read,     \* [In -> Nat]: records read
    heap,     \* the inputs whose last record read is in the heap
    out,      \* the output's whole records: which record of which input
    unwritten,\* the input whose record left the heap and could not be written, if any
    lastTs,   \* last_ts_by_ctrl, a function on the controllers written so far
    warned    \* a backwards timestamp was reported

sourceVars == <<streams, tail, emptied>>
vars == <<streams, tail, emptied, phase, turn, read, heap, out, unwritten, lastTs, warned>>

-----------------------------------------------------------------------------
(* record_order and the order of HeapItem.                                 *)

SeqComparable(a, b) == a.ctrl = b.ctrl /\ a.seq # 0 /\ b.seq # 0

\* Bug: the timestamp decides, whatever the sequence numbers.
BugBefore(a, b) ==
    \/ a.ts < b.ts
    \/ a.ts = b.ts /\ a.ctrl < b.ctrl
    \/ a.ts = b.ts /\ a.ctrl = b.ctrl /\ a.q < b.q

\* record_order(a, b) is Less.
Before(a, b) ==
    IF SeqComparable(a, b)
    THEN \/ a.seq < b.seq
         \/ a.seq = b.seq /\ a.q < b.q
    ELSE \/ a.ts < b.ts
         \/ a.ts = b.ts /\ a.ctrl < b.ctrl
         \/ a.ts = b.ts /\ a.ctrl = b.ctrl /\ a.q < b.q

HeadOf(i) == streams[i][read[i]]

\* The heap prefers i's record to j's: record order, then source name, then offset.
Beats(i, j) ==
    \/ Before(HeadOf(i), HeadOf(j))
    \/ /\ ~Before(HeadOf(j), HeadOf(i))
       /\ \/ NameRank[i] < NameRank[j]
          \/ NameRank[i] = NameRank[j] /\ read[i] < read[j]

\* What the reader of input i finds: its records, or an empty file.
Size(i)  == IF i \in emptied THEN 0 ELSE Len(streams[i])
EndOf(i) == IF i \in emptied THEN "eof" ELSE tail[i]

\* Whether record_order orders the records of the inputs: with the sequence numbers of
\* one controller and the timestamps of others in between, it may run in a circle.
Records == UNION {{streams[i][k] : k \in 1..Size(i)} : i \in In}
OrderIsTotal == \A a, b, c \in Records : Before(a, c) => Before(a, b) \/ Before(b, c)

\* Bug: the order is not reversed for the max-heap.
BugGreatest(i) == i \in heap /\ \A j \in heap \ {i} : ~Beats(i, j)

\* BinaryHeap::pop may return i's item.  It is one that no other beats where the order
\* is total, and with two items for any order; beyond that the standard library
\* promises nothing about which item it is.
Greatest(i) ==
    /\ i \in heap
    /\ (\E j \in heap : Beats(j, i)) => Inputs > 2 /\ ~OrderIsTotal

-----------------------------------------------------------------------------
(* A per-CPU file is written in the order of recording: its timestamps do  *)
(* not decrease, and the kernel's sequence numbers increase for each       *)
(* controller and are given once.                                          *)

Positions(s) == {p \in In \X (1..MaxLen) : p[2] <= Len(s[p[1]])}

AsRecorded(s) ==
    /\ \A i \in In : \A k, l \in 1..Len(s[i]) :
          k < l => /\ s[i][k].ts <= s[i][l].ts
                   /\ SeqComparable(s[i][k], s[i][l]) => s[i][k].seq < s[i][l].seq
    /\ \A x, y \in Positions(s) :
          LET a == s[x[1]][x[2]]
              b == s[y[1]][y[2]]
          IN  x # y /\ SeqComparable(a, b) => a.seq # b.seq

Sources(R) == UNION {[1..n -> R] : n \in 0..MaxLen}

Init ==
    /\ \E R \in RecordSets : streams \in [In -> Sources(R)]
    /\ AsRecorded(streams)
    /\ tail \in [In -> {"eof", "error"}]
    /\ emptied = {}
    /\ phase = "open"
    /\ turn = 1
    /\ read = [i \in In |-> 0]
    /\ heap = {}
    /\ out = <<>>
    /\ unwritten = {}
    /\ lastTs = <<>>
    /\ warned = FALSE

\* splice finds no input, cannot open one, or cannot create the output.
OpenFails ==
    /\ phase = "open"
    /\ phase' = "err"
    /\ UNCHANGED <<sourceVars, turn, read, heap, out, unwritten, lastTs, warned>>

\* The inputs are open; then the output is created, a file of its own or input i,
\* whose records are gone from now on.
CreateOutput ==
    /\ phase = "open"
    /\ phase' = "prime"
    /\ \/ UNCHANGED emptied
       \/ \E i \in In : emptied' = {i}
    /\ UNCHANGED <<streams, tail, turn, read, heap, out, unwritten, lastTs, warned>>

\* Bug: a record that does not parse ends its input like the end of the file.
BugNextRecord(i, rest, whenRead) ==
    /\ phase' = whenRead
    /\ \/ /\ read[i] < Size(i)
          /\ read' = [read EXCEPT ![i] = @ + 1]
          /\ heap' = rest \cup {i}
       \/ /\ read[i] = Size(i)
          /\ heap' = rest
          /\ UNCHANGED read

\* next_record of input i; the heap without i's old item is `rest`.
NextRecord(i, rest, whenRead) ==
    \/ /\ read[i] < Size(i)
       /\ read' = [read EXCEPT ![i] = @ + 1]
       /\ heap' = rest \cup {i}
       /\ phase' = whenRead
    \/ /\ read[i] = Size(i)
       /\ EndOf(i) = "eof"
       /\ heap' = rest
       /\ phase' = whenRead
       /\ UNCHANGED read
    \/ /\ read[i] = Size(i)
       /\ EndOf(i) = "error"
       /\ heap' = rest
       /\ phase' = "err"
       /\ UNCHANGED read

\* Bug: every other input is skipped.
BugPrime ==
    /\ phase = "prime"
    /\ turn <= Inputs
    /\ NextRecord(turn, heap, "prime")
    /\ turn' = turn + 2
    /\ UNCHANGED <<sourceVars, out, unwritten, lastTs, warned>>

Prime ==
    /\ phase = "prime"
    /\ turn <= Inputs
    /\ NextRecord(turn, heap, "prime")
    /\ turn' = turn + 1
    /\ UNCHANGED <<sourceVars, out, unwritten, lastTs, warned>>

\* Bug: the merge starts before the last input is primed.
BugPrimed ==
    /\ phase = "prime"
    /\ turn >= Inputs
    /\ phase' = "merge"
    /\ UNCHANGED <<sourceVars, turn, read, heap, out, unwritten, lastTs, warned>>

Primed ==
    /\ phase = "prime"
    /\ turn > Inputs
    /\ phase' = "merge"
    /\ UNCHANGED <<sourceVars, turn, read, heap, out, unwritten, lastTs, warned>>

\* Bug: one last timestamp for all controllers.
BugNote(r) ==
    /\ warned' = (warned \/ \E c \in DOMAIN lastTs : r.ts < lastTs[c])
    /\ lastTs' = [c \in {0} |-> r.ts]

Backwards(r) == r.ctrl \in DOMAIN lastTs /\ r.ts < lastTs[r.ctrl]

\* The controller's last timestamp is replaced; a step back from it is reported.
Note(r) ==
    /\ warned' = (warned \/ Backwards(r))
    /\ lastTs' = [c \in DOMAIN lastTs \cup {r.ctrl} |->
                      IF c = r.ctrl THEN r.ts ELSE lastTs[c]]

\* Bug: the record written is the one just read for the refill.
BugMerge(i) ==
    /\ phase = "merge"
    /\ Greatest(i)
    /\ Note(HeadOf(i))
    /\ NextRecord(i, heap \ {i}, "merge")
    /\ out' = Append(out, [input |-> i, index |-> read'[i]])
    /\ UNCHANGED <<sourceVars, turn, unwritten>>

\* Pop, compare with the controller's last timestamp, write, refill.
Merge(i) ==
    /\ phase = "merge"
    /\ Greatest(i)
    /\ Note(HeadOf(i))
    /\ out' = Append(out, [input |-> i, index |-> read[i]])
    /\ NextRecord(i, heap \ {i}, "merge")
    /\ UNCHANGED <<sourceVars, turn, unwritten>>

\* write_all fails: the record has left the heap and has been compared, and the output
\* may end in a part of it.
WriteFails(i) ==
    /\ phase = "merge"
    /\ IOFaults
    /\ Greatest(i)
    /\ Note(HeadOf(i))
    /\ heap' = heap \ {i}
    /\ unwritten' = {i}
    /\ phase' = "err"
    /\ UNCHANGED <<sourceVars, turn, read, out>>

Finish ==
    /\ phase = "merge"
    /\ heap = {}
    /\ phase' = "ok"
    /\ UNCHANGED <<sourceVars, turn, read, heap, out, unwritten, lastTs, warned>>

Next ==
    \/ OpenFails \/ CreateOutput \/ Prime \/ Primed \/ Finish
    \/ \E i \in In : Merge(i) \/ WriteFails(i)

Spec == Init /\ [][Next]_vars

-----------------------------------------------------------------------------
(* Properties.                                                             *)

TypeOK ==
    /\ streams \in [In -> Seq(Rec)]
    /\ tail \in [In -> {"eof", "error"}]
    /\ phase \in {"open", "prime", "merge", "ok", "err"}
    /\ turn \in 1..(Inputs + 1)
    /\ read \in [In -> Nat]
    /\ \A i \in In : read[i] <= Size(i)
    /\ heap \subseteq In
    /\ emptied \subseteq In
    /\ unwritten \subseteq In
    /\ out \in Seq([input : In, index : Nat \ {0}])
    /\ warned \in BOOLEAN

At(p) == streams[out[p].input][out[p].index]

\* How many records of input i are in the output.
Written(i) == IF i \in heap \cup unwritten THEN read[i] - 1 ELSE read[i]

\* The output interleaves the inputs: of each input a prefix, once each, in the
\* input's order, on the error paths too (where a part of one more may follow).
Interleaves ==
    /\ \A p \in 1..Len(out) : out[p].index \in 1..Written(out[p].input)
    /\ \A p, r \in 1..Len(out) :
          p < r /\ out[p].input = out[r].input => out[p].index < out[r].index
    /\ \A i \in In : \A k \in 1..Written(i) :
          \E p \in 1..Len(out) : out[p] = [input |-> i, index |-> k]

\* Ok means that nothing is missing of any input but the one the output was written
\* over: every record the file held before the command is in the output, and the file
\* did not end in bytes that do not parse.
OkIsComplete ==
    phase = "ok" => \A i \in In \ emptied : Written(i) = Len(streams[i]) /\ tail[i] = "eof"

IsFtrace == \A i \in In : \A k \in 1..Len(streams[i]) : streams[i][k].seq = 0
IsOneController ==
    \A i, j \in In : \A k \in 1..Len(streams[i]), l \in 1..Len(streams[j]) :
        SeqComparable(streams[i][k], streams[j][l])

\* Files of an ftrace capture ("seq is always 0", lib.rs:394) are merged by
\* timestamp: the output goes backwards nowhere and nothing is reported.
TimestampOrder ==
    IsFtrace =>
        /\ \A p, r \in 1..Len(out) : p < r => At(p).ts <= At(r).ts
        /\ ~warned

InSeqOrder(p, r) == SeqComparable(At(p), At(r)) => At(p).seq < At(r).seq

\* The sequence number decides between records of one controller "even when
\* timestamps have small cross-CPU skew" (lib.rs:389-392): true of relay files of
\* one controller, whatever their timestamps.
OneControllerSeqOrder ==
    IsOneController => \A p, r \in 1..Len(out) : p < r => InSeqOrder(p, r)

\* The same for any number of controllers.
SeqOrder == \A p, r \in 1..Len(out) : p < r => InSeqOrder(p, r)

Output == [p \in 1..Len(out) |-> At(p)]

\* The records compared with the last of their controller: those written, and then the
\* one that could not be.
Compared ==
    IF unwritten = {} THEN Output ELSE Append(Output, HeadOf(CHOOSE i \in unwritten : TRUE))

\* A record of s is older than the one of its controller before it.
StepsBack(s) ==
    \E p, r \in 1..Len(s) :
        /\ p < r
        /\ s[p].ctrl = s[r].ctrl
        /\ s[r].ts < s[p].ts
        /\ \A m \in (p + 1)..(r - 1) : s[m].ctrl # s[p].ctrl

\* A backwards timestamp is reported exactly when a record is older than the record
\* of its own controller that was taken just before it, written or not.
WarnedExactly == warned <=> StepsBack(Compared)

\* The refinement mapping: a record waits until it is in the output, whether it is in
\* the file or in the heap.
Waiting == [i \in In |-> SubSeq(streams[i], Written(i) + 1, Size(i))]

Unparsed == {i \in In : EndOf(i) = "error"}
Stage    == IF phase = "prime" THEN "merge" ELSE phase

Merged == INSTANCE OrderedMerge WITH
    left <- Waiting, broken <- Unparsed, merged <- Output, phase <- Stage

\* Readers and heap implement the merge of OrderedMerge: where age orders the records,
\* what is written is never past an older record of another input, although the heap
\* knows one of each only, and although the inputs are primed one by one
\* (splice_streams_with_names, lib.rs:435).
ImplementsMerge == Merged!Spec

=============================================================================
