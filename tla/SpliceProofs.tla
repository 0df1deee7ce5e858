---------------------------- MODULE SpliceProofs ----------------------------
(***************************************************************************)
(* Theorems about Splice, for any number of inputs of any length, whatever *)
(* they hold and wherever they stop parsing.                               *)
(***************************************************************************)
EXTENDS Splice, SequenceTheorems, TLAPS

\* A record of the heap has been read, and an input not yet primed has not.
HeapRead ==
    /\ \A i \in heap \cup unwritten : read[i] >= 1
    /\ phase # "err" => unwritten = {}
    /\ phase = "open" => heap = {} /\ emptied = {} /\ turn = 1 /\ \A i \in In : read[i] = 0
    /\ phase \in {"open", "prime"} => out = <<>> /\ unwritten = {} /\ lastTs = <<>> /\ ~warned
    /\ phase = "prime" =>
          /\ \A i \in In : i >= turn => i \notin heap /\ read[i] = 0
          /\ \A i \in heap : read[i] = 1

\* An input has left the heap only at its end.
Exhausted(i) == read[i] = Size(i) /\ EndOf(i) = "eof"
HeapComplete ==
    /\ phase = "prime" => \A i \in In : i < turn /\ i \notin heap => Exhausted(i)
    /\ phase = "merge" => \A i \in In : i \notin heap => Exhausted(i)
    /\ phase = "ok" => heap = {} /\ \A i \in In : Exhausted(i)

\* The inductive invariant of the merge.
Merging == TypeOK /\ HeapRead /\ HeapComplete /\ Interleaves

\* Before priming, the heap and the output are empty.
LEMMA InitMerging == Init => Merging
<1> SUFFICES ASSUME Init PROVE Merging
  OBVIOUS
<1>1. streams \in [In -> Seq(Rec)]
  <2>1. PICK R \in RecordSets : streams \in [In -> Sources(R)]
    BY DEF Init
  <2>2. Sources(R) \subseteq Seq(Rec)
    BY <2>1, SpliceAssumption DEF Sources
  <2> QED
    BY <2>1, <2>2
<1>2. TypeOK
  <2>1. \A i \in In : Len(streams[i]) \in Nat
    BY <1>1
  <2>2. turn \in 1..(Inputs + 1)
    BY SpliceAssumption DEF Init
  <2>3. /\ read \in [In -> Nat]
        /\ heap \subseteq In /\ emptied \subseteq In /\ unwritten \subseteq In
        /\ \A i \in In : read[i] <= Size(i)
    BY <2>1 DEF Init, Size
  <2>4. out \in Seq([input : In, index : Nat \ {0}])
    BY DEF Init
  <2> QED
    BY <1>1, <2>2, <2>3, <2>4 DEF Init, TypeOK
<1>3. HeapRead /\ HeapComplete
  BY <1>2, SpliceAssumption DEF Init, HeapRead, HeapComplete, Exhausted, In
<1>4. Interleaves
  BY <1>2 DEF Init, Interleaves, Written
<1> QED
  BY <1>2, <1>3, <1>4 DEF Merging

-----------------------------------------------------------------------------
(* Priming and refilling: one call of next_record.                         *)

\* The reader of input i only moves its own counter, within the input.
LEMMA NextRecordType ==
    ASSUME TypeOK, NEW i \in In, NEW rest \in SUBSET In, NEW whenRead \in {"prime", "merge"},
           NextRecord(i, rest, whenRead), UNCHANGED sourceVars
    PROVE  /\ read' \in [In -> Nat] /\ heap' \subseteq In
           /\ phase' \in {whenRead, "err"}
           /\ \A j \in In : read'[j] <= Size(j)'
           /\ \A j \in In \ {i} : read'[j] = read[j]
           /\ \/ i \in heap' /\ heap' = rest \cup {i} /\ read'[i] = read[i] + 1
              \/ /\ heap' = rest /\ read'[i] = read[i]
                 /\ phase' = whenRead => Exhausted(i)
<1>1. read[i] \in Nat /\ Size(i) \in Nat /\ read[i] <= Size(i)
  BY DEF TypeOK, Size
<1>2. \A j \in In : Size(j)' = Size(j) /\ EndOf(j)' = EndOf(j)
  BY DEF sourceVars, Size, EndOf
<1>3. CASE read[i] < Size(i) /\ read' = [read EXCEPT ![i] = @ + 1]
           /\ heap' = rest \cup {i} /\ phase' = whenRead
  BY <1>1, <1>2, <1>3 DEF TypeOK
<1>4. CASE read[i] = Size(i) /\ EndOf(i) = "eof" /\ heap' = rest
           /\ phase' = whenRead /\ UNCHANGED read
  BY <1>1, <1>2, <1>4 DEF TypeOK, Exhausted
<1>5. CASE heap' = rest /\ phase' = "err" /\ UNCHANGED read
  BY <1>1, <1>2, <1>5 DEF TypeOK
<1> QED
  BY <1>3, <1>4, <1>5 DEF NextRecord

\* The inputs stay what they are while sourceVars does.
LEMMA SameInputs ==
    ASSUME UNCHANGED sourceVars
    PROVE  /\ UNCHANGED <<streams, tail, emptied>>
           /\ \A i \in In : Size(i)' = Size(i) /\ EndOf(i)' = EndOf(i)
BY DEF sourceVars, Size, EndOf

\* Priming an input puts its first record in the heap, or finds the input at its end.
LEMMA PrimeMerging ==
    ASSUME Merging, Prime
    PROVE  Merging'
<1> USE DEF Merging
<1>1. turn \in In /\ turn \notin heap /\ read[turn] = 0 /\ phase = "prime"
  BY SpliceAssumption DEF Prime, TypeOK, HeapRead, In
<1>2. /\ read' \in [In -> Nat] /\ heap' \subseteq In
      /\ phase' \in {"prime", "err"}
      /\ \A j \in In : read'[j] <= Size(j)'
      /\ \A j \in In \ {turn} : read'[j] = read[j]
      /\ \/ turn \in heap' /\ heap' = heap \cup {turn} /\ read'[turn] = read[turn] + 1
         \/ /\ heap' = heap /\ read'[turn] = read[turn]
            /\ phase' = "prime" => Exhausted(turn)
  BY <1>1, NextRecordType DEF Prime, TypeOK
<1>3. /\ turn' = turn + 1 /\ UNCHANGED <<streams, tail, emptied, out, unwritten, lastTs, warned>>
      /\ \A j \in In : Size(j)' = Size(j) /\ EndOf(j)' = EndOf(j)
      /\ unwritten = {}
  BY <1>1, SameInputs DEF Prime, HeapRead
<1>4. TypeOK'
  <2>1. turn' \in 1..(Inputs + 1)
    BY <1>1, <1>3, SpliceAssumption DEF TypeOK, In
  <2> QED
    BY <1>2, <1>3, <2>1 DEF TypeOK
<1>5. HeapRead'
  BY <1>1, <1>2, <1>3 DEF HeapRead, TypeOK, In
<1>6. HeapComplete'
  <2>1. ASSUME phase' = "prime", NEW i \in In, i < turn', i \notin heap'
        PROVE  Exhausted(i)'
    <3>1. CASE i = turn
      BY <1>1, <1>2, <1>3, <2>1, <3>1 DEF Exhausted
    <3>2. CASE i # turn
      <4>1. i < turn /\ i \notin heap
        BY <1>1, <1>2, <1>3, <2>1, <3>2 DEF In
      <4>2. Exhausted(i)
        BY <1>1, <4>1 DEF HeapComplete
      <4> QED
        BY <1>2, <1>3, <3>2, <4>2 DEF Exhausted
    <3> QED
      BY <3>1, <3>2
  <2> QED
    BY <1>2, <2>1 DEF HeapComplete
<1>7. Interleaves'
  <2>1. out' = <<>>
    BY <1>1, <1>3 DEF HeapRead
  <2>2. \A i \in In : Written(i) = 0
    <3> TAKE i \in In
    <3>1. \A k \in 1..Written(i) : FALSE
      BY <1>1 DEF Interleaves, HeapRead
    <3> QED
      BY <3>1, <1>1, <1>3 DEF Written, TypeOK, HeapRead
  <2>3. \A i \in In : Written(i)' = Written(i)
    BY <1>1, <1>2, <1>3 DEF Written, TypeOK
  <2> QED
    BY <2>1, <2>2, <2>3 DEF Interleaves
<1> QED
  BY <1>4, <1>5, <1>6, <1>7

\* A merge step writes one record of one input and moves that input's reader alone.
LEMMA MergeMerging ==
    ASSUME Merging, NEW i \in In, Merge(i)
    PROVE  Merging'
<1> USE DEF Merging
<1>1. i \in heap /\ read[i] >= 1 /\ phase = "merge"
  BY DEF Merge, Greatest, HeapRead
<1>2. /\ read' \in [In -> Nat] /\ heap' \subseteq In
      /\ phase' \in {"merge", "err"}
      /\ \A j \in In : read'[j] <= Size(j)'
      /\ \A j \in In \ {i} : read'[j] = read[j]
      /\ \/ i \in heap' /\ heap' = (heap \ {i}) \cup {i} /\ read'[i] = read[i] + 1
         \/ /\ heap' = heap \ {i} /\ read'[i] = read[i]
            /\ phase' = "merge" => Exhausted(i)
  BY <1>1, NextRecordType DEF Merge, TypeOK
<1>3. /\ out' = Append(out, [input |-> i, index |-> read[i]])
      /\ UNCHANGED <<streams, tail, emptied, turn, unwritten>> /\ unwritten = {}
      /\ \A j \in In : Size(j)' = Size(j) /\ EndOf(j)' = EndOf(j)
  BY <1>1, SameInputs DEF Merge, HeapRead
<1>4. TypeOK'
  <2>1. out' \in Seq([input : In, index : Nat \ {0}])
    BY <1>1, <1>3 DEF TypeOK
  <2>2. warned' \in BOOLEAN
    BY DEF Merge, Note, Backwards, TypeOK
  <2> QED
    BY <1>2, <1>3, <2>1, <2>2 DEF TypeOK
<1>5. HeapRead'
  <2>1. ASSUME NEW j \in heap' PROVE read'[j] >= 1
    <3>1. CASE j = i
      BY <1>1, <1>2, <2>1, <3>1 DEF TypeOK
    <3>2. CASE j # i
      <4>1. j \in heap /\ j \in In
        BY <1>2, <2>1, <3>2 DEF TypeOK
      <4> QED
        BY <1>2, <3>2, <4>1 DEF HeapRead
    <3> QED
      BY <3>1, <3>2
  <2> QED
    BY <1>2, <1>3, <2>1 DEF HeapRead
<1>6. HeapComplete'
  <2>1. ASSUME phase' = "merge", NEW j \in In, j \notin heap' PROVE Exhausted(j)'
    BY <1>1, <1>2, <1>3, <2>1 DEF HeapComplete, Exhausted
  <2> QED
    BY <1>2, <2>1 DEF HeapComplete
<1>7. Interleaves'
  <2>1. Written(i) = read[i] - 1 /\ Written(i)' = read[i]
    BY <1>1, <1>2, <1>3 DEF Written, TypeOK
  <2>2. \A j \in In \ {i} : Written(j)' = Written(j)
    BY <1>2, <1>3 DEF Written, TypeOK
  <2> DEFINE new == [input |-> i, index |-> read[i]]
  <2>3. /\ out \in Seq([input : In, index : Nat \ {0}])
        /\ Len(out) \in Nat
        /\ Len(out') = Len(out) + 1
        /\ \A p \in 1..Len(out) : out'[p] = out[p]
        /\ out'[Len(out) + 1] = new
    BY <1>3 DEF TypeOK
  <2>7. ASSUME NEW p \in 1..Len(out) PROVE out[p].input \in In /\ out[p].index \in Nat
    <3>1. out[p] \in [input : In, index : Nat \ {0}]
      BY <2>3, ElementOfSeq
    <3> QED
      BY <3>1
  <2>8. \A p \in 1..Len(out') : p # Len(out) + 1 => p \in 1..Len(out) /\ out'[p] = out[p]
    BY <2>3
  <2>4. ASSUME NEW p \in 1..Len(out')
        PROVE  (out[p].index \in 1..Written(out[p].input))'
    <3>1. CASE p = Len(out) + 1
      <4>1. out'[p].index = read[i] /\ out'[p].input = i
        BY <2>3, <3>1
      <4>2. Written(out[p].input)' = read[i]
        BY <2>1, <4>1 DEF Written
      <4> QED
        BY <1>1, <4>1, <4>2 DEF TypeOK
    <3>2. CASE p # Len(out) + 1
      <4>1. p \in 1..Len(out) /\ out'[p] = out[p]
        BY <2>8, <3>2
      <4>2. out[p].input \in In /\ out[p].index \in 1..Written(out[p].input)
        BY <2>7, <4>1 DEF Interleaves
      <4>3. CASE out[p].input = i
        <5>1. Written(out[p].input)' = read[i]
          BY <2>1, <4>1, <4>3 DEF Written
        <5> QED
          <6>1. read[i] \in Nat /\ out[p].index \in 1..(read[i] - 1) /\ out'[p] = out[p]
            BY <1>1, <2>1, <4>1, <4>2, <4>3 DEF TypeOK
          <6> QED
            BY <5>1, <6>1
      <4>4. CASE out[p].input # i
        <5>1. Written(out[p].input)' = Written(out[p].input)
          BY <2>2, <4>1, <4>2, <4>4 DEF Written
        <5> QED
          BY <4>1, <4>2, <5>1
      <4> QED
        BY <4>3, <4>4
    <3> QED
      BY <3>1, <3>2
  <2>5. ASSUME NEW p \in 1..Len(out'), NEW r \in 1..Len(out'),
               p < r, out'[p].input = out'[r].input
        PROVE  out'[p].index < out'[r].index
    <3>1. p \in 1..Len(out) /\ out'[p] = out[p]
      BY <2>3, <2>5
    <3>2. CASE r = Len(out) + 1
      <4>1. out'[r].input = i /\ out'[r].index = read[i]
        BY <2>3, <3>2
      <4>2. out[p].index \in 1..Written(i)
        BY <2>5, <3>1, <4>1 DEF Interleaves
      <4>3. read[i] \in Nat /\ Written(i) = read[i] - 1
        BY <1>1, <2>1 DEF TypeOK
      <4> QED
        BY <3>1, <4>1, <4>2, <4>3
    <3>3. CASE r # Len(out) + 1
      <4>1. r \in 1..Len(out) /\ out'[r] = out[r]
        BY <2>8, <3>3
      <4> QED
        BY <2>5, <3>1, <4>1 DEF Interleaves
    <3> QED
      BY <3>2, <3>3
  <2>6. ASSUME NEW j \in In, NEW k \in 1..(Written(j)')
        PROVE  \E p \in 1..Len(out') : out'[p] = [input |-> j, index |-> k]
    <3>1. CASE j = i /\ k = read[i]
      <4>1. Len(out) + 1 \in 1..Len(out') /\ out'[Len(out) + 1] = [input |-> j, index |-> k]
        BY <2>3, <3>1
      <4> QED
        BY <4>1
    <3>2. CASE ~(j = i /\ k = read[i])
      <4>1. k \in 1..Written(j)
        BY <1>1, <2>1, <2>2, <2>6, <3>2 DEF TypeOK
      <4>2. PICK p \in 1..Len(out) : out[p] = [input |-> j, index |-> k]
        BY <4>1 DEF Interleaves
      <4> QED
        BY <4>2, <2>3
    <3> QED
      BY <3>1, <3>2
  <2> QED
    BY <2>4, <2>5, <2>6 DEF Interleaves
<1> QED
  BY <1>4, <1>5, <1>6, <1>7

\* The merge starts with nothing read and nothing written, whatever becomes of
\* an input that is the output too.
LEMMA OpenMerging ==
    ASSUME Merging, OpenFails \/ CreateOutput
    PROVE  Merging'
<1> USE DEF Merging
<1>1. /\ phase = "open" /\ phase' \in {"prime", "err"}
      /\ UNCHANGED <<streams, tail, turn, read, heap, out, unwritten, lastTs, warned>>
  BY DEF OpenFails, CreateOutput, sourceVars
<1>2. /\ heap = {} /\ turn = 1 /\ \A i \in In : read[i] = 0
      /\ out = <<>> /\ unwritten = {} /\ lastTs = <<>> /\ ~warned
  BY <1>1 DEF HeapRead
<1>3. emptied' \subseteq In /\ (phase' = "err" => emptied' = emptied)
  BY DEF OpenFails, CreateOutput, sourceVars, TypeOK
<1>4. TypeOK'
  <2>1. \A i \in In : Size(i)' \in Nat
    BY <1>1 DEF TypeOK, Size
  <2> QED
    BY <1>1, <1>2, <1>3, <2>1 DEF TypeOK
<1>5. HeapRead'
  BY <1>1, <1>2 DEF HeapRead
<1>6. HeapComplete'
  BY <1>1, <1>2 DEF HeapComplete, In
<1>7. Interleaves'
  BY <1>1, <1>2 DEF Interleaves, Written
<1> QED
  BY <1>4, <1>5, <1>6, <1>7

\* A record that cannot be written leaves the heap, and the output as it was.
LEMMA WriteFailsMerging ==
    ASSUME Merging, NEW i \in In, WriteFails(i)
    PROVE  Merging' /\ i \in heap /\ UNCHANGED out /\ \A j \in In : Written(j)' = Written(j)
<1> USE DEF Merging
<1>1. /\ i \in heap /\ phase = "merge" /\ phase' = "err" /\ unwritten = {} /\ unwritten' = {i}
      /\ heap' = heap \ {i} /\ UNCHANGED <<streams, tail, emptied, turn, read, out>>
      /\ warned' \in BOOLEAN
  BY DEF WriteFails, Greatest, HeapRead, sourceVars, Note, Backwards, TypeOK
<1>2. \A j \in In : Written(j)' = Written(j)
  BY <1>1 DEF Written
<1>3. TypeOK'
  BY <1>1 DEF TypeOK, Size
<1>4. HeapRead' /\ HeapComplete'
  BY <1>1 DEF HeapRead, HeapComplete
<1>5. Interleaves'
  <2>1. ASSUME NEW p \in 1..Len(out) PROVE out[p].input \in In
    <3>1. out[p] \in [input : In, index : Nat \ {0}]
      BY ElementOfSeq DEF TypeOK
    <3> QED
      BY <3>1
  <2> QED
    BY <1>1, <1>2, <2>1 DEF Interleaves
<1> QED
  BY <1>1, <1>2, <1>3, <1>4, <1>5

\* No step loses, repeats or reorders a record of an input.
LEMMA NextMerging ==
    ASSUME Merging, [Next]_vars
    PROVE  Merging'
<1> USE DEF Merging
<1>0. CASE OpenFails \/ CreateOutput
  BY <1>0, OpenMerging
<1>1. CASE Prime
  BY <1>1, PrimeMerging
<1>2. CASE Primed
  <2>1. \A i \in In : i < turn
    BY <1>2, SpliceAssumption DEF Primed, TypeOK, In
  <2>2. /\ UNCHANGED <<streams, tail, emptied, turn, read, heap, out, unwritten, lastTs, warned>>
        /\ phase = "prime" /\ phase' = "merge"
    BY <1>2 DEF Primed, sourceVars
  <2>3. HeapRead' /\ HeapComplete'
    BY <2>1, <2>2 DEF HeapRead, HeapComplete, Exhausted, Size, EndOf
  <2>4. TypeOK' /\ Interleaves'
    BY <2>2 DEF TypeOK, Interleaves, Written, Size
  <2> QED
    BY <2>3, <2>4
<1>3. ASSUME NEW i \in In, Merge(i) \/ WriteFails(i) PROVE Merging'
  BY <1>3, MergeMerging, WriteFailsMerging
<1>4. CASE Finish
  <2>1. /\ UNCHANGED <<streams, tail, emptied, turn, read, heap, out, unwritten, lastTs, warned>>
        /\ phase = "merge" /\ phase' = "ok" /\ heap = {}
    BY <1>4 DEF Finish, sourceVars
  <2>2. HeapRead' /\ HeapComplete'
    BY <2>1 DEF HeapRead, HeapComplete, Exhausted, Size, EndOf
  <2>3. TypeOK' /\ Interleaves'
    BY <2>1 DEF TypeOK, Interleaves, Written, Size
  <2> QED
    BY <2>2, <2>3
<1>5. CASE UNCHANGED vars
  BY <1>5 DEF vars, TypeOK, HeapRead, HeapComplete, Exhausted, Interleaves, Written, Size, EndOf
<1> QED
  BY <1>0, <1>1, <1>2, <1>3, <1>4, <1>5 DEF Next

\* The merge keeps account of every record read.
LEMMA MergingIsInvariant == Spec => []Merging
<1> QED
  BY InitMerging, NextMerging, PTL DEF Spec

\* Of each input the output holds a prefix, once and in the input's order, at every
\* moment and on every error path.
THEOREM OutputInterleaves == Spec => []Interleaves
<1>1. Merging => Interleaves
  BY DEF Merging
<1> QED
  BY <1>1, MergingIsInvariant, PTL

\* Ok means that every record of every input was written and that every input was
\* parsed to the end of its file, but for an input that is the output file too.
THEOREM OkMeansComplete == Spec => []OkIsComplete
<1>1. ASSUME Merging PROVE OkIsComplete
  <2>1. ASSUME phase = "ok", NEW i \in In \ emptied
        PROVE  Written(i) = Len(streams[i]) /\ tail[i] = "eof"
    BY <1>1, <2>1 DEF Merging, HeapRead, HeapComplete, Exhausted, Written, Size, EndOf
  <2> QED
    BY <2>1 DEF OkIsComplete
<1> QED
  BY <1>1, MergingIsInvariant, PTL

-----------------------------------------------------------------------------
(* The order of the output.                                                *)

\* The inputs are as they were recorded.
Recorded == AsRecorded(streams) /\ \A i \in In : Len(streams[i]) <= MaxLen

\* ftrace: whatever is still to come is not older than what has been written.
Sorted ==
    /\ ~warned
    /\ \A p, r \in 1..Len(out) : p < r => At(p).ts <= At(r).ts
    /\ \A p \in 1..Len(out), i \in heap : At(p).ts <= HeadOf(i).ts
    /\ phase # "err" => \A c \in DOMAIN lastTs : \E p \in 1..Len(out) : lastTs[c] = At(p).ts

\* One controller: whatever is still to come has a higher number.
Numbered ==
    /\ \A p, r \in 1..Len(out) : p < r => At(p).seq < At(r).seq
    /\ \A p \in 1..Len(out), i \in heap : At(p).seq < HeadOf(i).seq

\* A record in the output or at the head of an input is a record of that input.
LEMMA OutputAndHeads ==
    ASSUME Merging
    PROVE  /\ \A p \in 1..Len(out) :
                 /\ out[p].input \in In /\ out[p].index \in 1..Len(streams[out[p].input])
                 /\ At(p) \in Rec
           /\ \A i \in heap : /\ i \in In /\ read[i] \in 1..Size(i)
                              /\ read[i] \in 1..Len(streams[i]) /\ HeadOf(i) \in Rec
<1> USE DEF Merging
<1>1. ASSUME NEW p \in 1..Len(out)
      PROVE  /\ out[p].input \in In /\ out[p].index \in 1..Len(streams[out[p].input])
             /\ At(p) \in Rec
  <2>1. out[p] \in [input : In, index : Nat \ {0}]
    BY ElementOfSeq DEF TypeOK
  <2>2. out[p].input \in In /\ streams[out[p].input] \in Seq(Rec)
    BY <2>1 DEF TypeOK
  <2>3. out[p].index \in 1..Written(out[p].input)
    BY DEF Interleaves
  <2>4. Written(out[p].input) <= Len(streams[out[p].input]) /\ Written(out[p].input) \in Int
    <3> DEFINE i == out[p].input
    <3>1. i \in In /\ read[i] \in Nat /\ Len(streams[i]) \in Nat /\ read[i] <= Len(streams[i])
      BY <2>2 DEF TypeOK, Size
    <3> HIDE DEF i
    <3>2. Written(i) <= Len(streams[i]) /\ Written(i) \in Int
      BY <3>1 DEF Written
    <3> QED
      BY <3>2 DEF i
  <2>5. out[p].index \in 1..Len(streams[out[p].input])
    BY <2>2, <2>3, <2>4
  <2> QED
    BY <2>2, <2>5, ElementOfSeq DEF At
<1>2. ASSUME NEW i \in heap
      PROVE  /\ i \in In /\ read[i] \in 1..Size(i)
             /\ read[i] \in 1..Len(streams[i]) /\ HeadOf(i) \in Rec
  <2>1. /\ i \in In /\ streams[i] \in Seq(Rec)
        /\ read[i] \in 1..Size(i) /\ read[i] \in 1..Len(streams[i])
    BY DEF TypeOK, HeapRead, Size
  <2> QED
    BY <2>1, ElementOfSeq DEF HeadOf
<1> QED
  BY <1>1, <1>2

\* What a merge step does to the output and to the heads.
LEMMA MergeShape ==
    ASSUME Merging, NEW i \in In, Merge(i)
    PROVE  /\ i \in heap
           /\ Len(out') = Len(out) + 1 /\ Len(out) \in Nat
           /\ \A p \in 1..Len(out) : At(p)' = At(p)
           /\ \A n \in Nat : n = Len(out) + 1 => At(n)' = HeadOf(i)
           /\ \A p \in 1..Len(out') : p \in 1..Len(out) \/ p = Len(out) + 1
           /\ \A j \in heap' \ {i} : j \in heap /\ HeadOf(j)' = HeadOf(j)
           /\ i \in heap' => /\ read[i] + 1 \in 1..Len(streams[i])
                             /\ HeadOf(i)' = streams[i][read[i] + 1]
<1> USE DEF Merging
<1>1. i \in heap /\ streams' = streams /\ out' = Append(out, [input |-> i, index |-> read[i]])
  BY DEF Merge, Greatest, sourceVars
<1>2. /\ Len(out') = Len(out) + 1 /\ Len(out) \in Nat
      /\ \A p \in 1..Len(out) : out'[p] = out[p]
      /\ out'[Len(out) + 1] = [input |-> i, index |-> read[i]]
  BY <1>1 DEF TypeOK
<1>3. \A p \in 1..Len(out) : At(p)' = At(p)
  BY <1>1, <1>2 DEF At
<1>4. \A n \in Nat : n = Len(out) + 1 => At(n)' = HeadOf(i)
  BY <1>1, <1>2 DEF At, HeadOf
<1>5. \A p \in 1..Len(out') : p \in 1..Len(out) \/ p = Len(out) + 1
  BY <1>2
<1>6. /\ \A j \in In : read'[j] <= Size(j)'
      /\ \A j \in In \ {i} : read'[j] = read[j]
      /\ heap' \subseteq In
      /\ \/ i \in heap' /\ heap' = (heap \ {i}) \cup {i} /\ read'[i] = read[i] + 1
         \/ heap' = heap \ {i}
  BY <1>1, NextRecordType DEF Merge, TypeOK
<1>7. \A j \in heap' \ {i} : j \in heap /\ HeadOf(j)' = HeadOf(j)
  BY <1>1, <1>6 DEF HeadOf
<1>8. ASSUME i \in heap'
      PROVE  read[i] + 1 \in 1..Len(streams[i]) /\ HeadOf(i)' = streams[i][read[i] + 1]
  <2>1. read'[i] = read[i] + 1 /\ read'[i] <= Len(streams[i])
    <3>1. read'[i] = read[i] + 1 /\ read'[i] <= Size(i)'
      BY <1>1, <1>6, <1>8
    <3>2. Size(i)' = Size(i)
      BY SameInputs DEF Merge
    <3>3. read[i] \in Nat /\ Len(streams[i]) \in Nat
      BY DEF TypeOK
    <3>4. Size(i) \in Nat /\ Size(i) <= Len(streams[i])
      BY <3>3 DEF Size
    <3> QED
      BY <3>1, <3>2, <3>3, <3>4
  <2>2. read[i] + 1 \in 1..Len(streams[i])
    BY <2>1 DEF TypeOK
  <2> QED
    BY <1>1, <2>1, <2>2 DEF HeadOf
<1> QED
  BY <1>1, <1>2, <1>3, <1>4, <1>5, <1>7, <1>8

\* Records are read from the files.
LEMMA RecordsAre ==
    ASSUME Merging, NEW a \in Records
    PROVE  /\ a \in Rec
           /\ \E i \in In : \E k \in 1..Len(streams[i]) : a = streams[i][k]
<1>0. PICK i \in In : a \in {streams[i][k] : k \in 1..Size(i)}
  BY DEF Records
<1>1. PICK k \in 1..Size(i) : a = streams[i][k]
  BY <1>0
<1>2. streams[i] \in Seq(Rec) /\ k \in 1..Len(streams[i])
  BY <1>1 DEF Merging, TypeOK, Size
<1> QED
  BY <1>1, <1>2, ElementOfSeq

\* Timestamps order the records of an ftrace capture.
LEMMA FtraceIsTotal ==
    ASSUME Merging, IsFtrace
    PROVE  OrderIsTotal
<1> SUFFICES ASSUME NEW a \in Records, NEW b \in Records, NEW c \in Records, Before(a, c)
             PROVE  Before(a, b) \/ Before(b, c)
  BY DEF OrderIsTotal
<1>1. a \in Rec /\ b \in Rec /\ c \in Rec
  BY RecordsAre
<1>2. a.seq = 0 /\ b.seq = 0 /\ c.seq = 0
  BY RecordsAre DEF IsFtrace
<1> QED
  BY <1>1, <1>2 DEF Before, SeqComparable, Rec

\* Sequence numbers order the records of one controller.
LEMMA OneControllerIsTotal ==
    ASSUME Merging, IsOneController
    PROVE  OrderIsTotal
<1> SUFFICES ASSUME NEW a \in Records, NEW b \in Records, NEW c \in Records, Before(a, c)
             PROVE  Before(a, b) \/ Before(b, c)
  BY DEF OrderIsTotal
<1>1. a \in Rec /\ b \in Rec /\ c \in Rec
  BY RecordsAre
<1>2. SeqComparable(a, b) /\ SeqComparable(b, c) /\ SeqComparable(a, c)
  BY RecordsAre DEF IsOneController
<1> QED
  BY <1>1, <1>2 DEF Before, Rec

\* Where the order is total the heap gives an item that no other beats.
LEMMA GreatestIsUnbeaten ==
    ASSUME OrderIsTotal, NEW i, Greatest(i), NEW j \in heap
    PROVE  i \in heap /\ ~Beats(j, i) /\ ~Before(HeadOf(j), HeadOf(i))
BY DEF Greatest, Beats

\* Without sequence numbers the greatest item of the heap has the oldest record.
LEMMA GreatestIsOldest ==
    ASSUME Merging, IsFtrace, NEW i \in In, Greatest(i), NEW j \in heap
    PROVE  HeadOf(i).ts <= HeadOf(j).ts
<1>1. /\ i \in heap
      /\ HeadOf(i) \in Rec /\ HeadOf(j) \in Rec
      /\ read[j] \in 1..Len(streams[j]) /\ j \in In
  BY OutputAndHeads DEF Greatest
<1>2. HeadOf(j).seq = 0
  BY <1>1 DEF IsFtrace, HeadOf
<1>3. ~Before(HeadOf(j), HeadOf(i))
  BY FtraceIsTotal, GreatestIsUnbeaten
<1>4. ~(HeadOf(j).ts < HeadOf(i).ts)
  BY <1>2, <1>3 DEF Before, SeqComparable
<1> QED
  BY <1>1, <1>4 DEF Rec

\* Without sequence numbers nothing is reported.
LEMMA OldestIsNotBackwards ==
    ASSUME Merging, IsFtrace, Sorted, phase = "merge", NEW i \in heap
    PROVE  ~Backwards(HeadOf(i))
<1>1. SUFFICES ASSUME HeadOf(i).ctrl \in DOMAIN lastTs, HeadOf(i).ts < lastTs[HeadOf(i).ctrl]
               PROVE  FALSE
  BY DEF Backwards
<1>2. PICK p \in 1..Len(out) : lastTs[HeadOf(i).ctrl] = At(p).ts
  BY <1>1 DEF Sorted
<1>3. At(p).ts <= HeadOf(i).ts
  BY DEF Sorted
<1>4. At(p).ts \in Nat /\ HeadOf(i).ts \in Nat
  BY OutputAndHeads DEF Rec
<1> QED
  BY <1>1, <1>2, <1>3, <1>4

\* One merge step of ftrace files keeps the output in order.
LEMMA MergeSorted ==
    ASSUME Merging, Recorded, IsFtrace, Sorted, NEW i \in In, Merge(i)
    PROVE  Sorted'
<1>0. PICK n \in Nat : n = Len(out) + 1
  BY DEF Merging, TypeOK
<1>1. /\ i \in heap
      /\ Len(out') = n /\ Len(out) \in Nat
      /\ \A p \in 1..Len(out) : At(p)' = At(p)
      /\ At(n)' = HeadOf(i)
      /\ \A p \in 1..Len(out') : p \in 1..Len(out) \/ p = n
      /\ \A j \in heap' \ {i} : j \in heap /\ HeadOf(j)' = HeadOf(j)
      /\ i \in heap' => /\ read[i] + 1 \in 1..Len(streams[i])
                        /\ HeadOf(i)' = streams[i][read[i] + 1]
  BY <1>0, MergeShape
<1>2. /\ \A p \in 1..Len(out) : At(p).ts \in Nat
      /\ \A j \in heap : HeadOf(j).ts \in Nat
      /\ read[i] \in 1..Len(streams[i])
  BY <1>1, OutputAndHeads DEF Rec
<1>3. \A j \in heap : HeadOf(i).ts <= HeadOf(j).ts
  BY GreatestIsOldest DEF Merge
<1>4. \A p \in 1..Len(out) : At(p).ts <= HeadOf(i).ts
  BY <1>1 DEF Sorted
<1>5. i \in heap' => HeadOf(i)'.ts \in Nat /\ HeadOf(i).ts <= HeadOf(i)'.ts
  <2>1. HeadOf(i) = streams[i][read[i]]
    BY DEF HeadOf
  <2>2. ASSUME i \in heap' PROVE HeadOf(i)'.ts \in Nat /\ HeadOf(i).ts <= HeadOf(i)'.ts
    <3>1. streams[i][read[i] + 1] \in Rec
      BY <1>1, <2>2, ElementOfSeq DEF Merging, TypeOK
    <3>2. read[i] < read[i] + 1
      BY <1>2
    <3>3. HeadOf(i).ts <= streams[i][read[i] + 1].ts
      BY <1>1, <1>2, <2>1, <2>2, <3>2 DEF Recorded, AsRecorded
    <3> QED
      BY <1>1, <2>2, <3>1, <3>3 DEF Rec
  <2> QED
    BY <2>2
<1>6. ~warned'
  <2>1. ~Backwards(HeadOf(i))
    BY <1>1, OldestIsNotBackwards DEF Merge
  <2> QED
    BY <2>1 DEF Merge, Note, Sorted
<1>7. ASSUME NEW p \in 1..Len(out'), NEW r \in 1..Len(out'), p < r
      PROVE  At(p)'.ts <= At(r)'.ts
  <2>1. p \in 1..Len(out)
    BY <1>1, <1>7
  <2>2. CASE r = n
    BY <1>1, <1>4, <2>1, <2>2
  <2>3. CASE r \in 1..Len(out)
    BY <1>1, <1>7, <2>1, <2>3 DEF Sorted
  <2> QED
    BY <1>1, <2>2, <2>3
<1>8. ASSUME NEW p \in 1..Len(out'), NEW j \in heap'
      PROVE  At(p)'.ts <= HeadOf(j)'.ts
  <2>1. At(p)'.ts \in Nat /\ At(p)'.ts <= HeadOf(i).ts
    BY <1>1, <1>2, <1>4
  <2>2. CASE j = i
    BY <1>1, <1>2, <1>5, <2>1, <2>2
  <2>3. CASE j # i
    <3>1. j \in heap /\ HeadOf(j)' = HeadOf(j)
      BY <1>1, <2>3
    <3> QED
      BY <1>1, <1>2, <1>3, <2>1, <3>1
  <2> QED
    BY <2>2, <2>3
<1>9. ASSUME NEW c \in DOMAIN lastTs'
      PROVE  \E p \in 1..Len(out') : lastTs'[c] = At(p)'.ts
  <2>1. /\ c \in DOMAIN lastTs \cup {HeadOf(i).ctrl}
        /\ lastTs'[c] = IF c = HeadOf(i).ctrl THEN HeadOf(i).ts ELSE lastTs[c]
        /\ phase # "err"
    BY DEF Merge, Note
  <2>2. n \in 1..Len(out')
    BY <1>0, <1>1
  <2>3. CASE c = HeadOf(i).ctrl
    BY <1>1, <2>1, <2>2, <2>3
  <2>4. CASE c # HeadOf(i).ctrl
    <3>1. PICK p \in 1..Len(out) : lastTs[c] = At(p).ts
      BY <2>1, <2>4 DEF Sorted
    <3>2. p \in 1..Len(out')
      BY <1>0, <1>1
    <3> QED
      BY <1>1, <2>1, <2>4, <3>1, <3>2
  <2> QED
    BY <2>3, <2>4
<1> QED
  BY <1>6, <1>7, <1>8, <1>9 DEF Sorted

\* With a number in every record of one controller the greatest item of the heap has
\* the lowest.
LEMMA GreatestIsLowest ==
    ASSUME Merging, Recorded, IsOneController, NEW i \in In, Greatest(i), NEW j \in heap, j # i
    PROVE  HeadOf(i).seq < HeadOf(j).seq
<1>1. /\ i \in heap /\ j \in In
      /\ HeadOf(i) \in Rec /\ HeadOf(j) \in Rec
      /\ read[i] \in 1..Len(streams[i]) /\ read[j] \in 1..Len(streams[j])
  BY OutputAndHeads DEF Greatest
<1>2. SeqComparable(HeadOf(i), HeadOf(j)) /\ SeqComparable(HeadOf(j), HeadOf(i))
  BY <1>1 DEF IsOneController, HeadOf
<1>3. ~(HeadOf(j).seq < HeadOf(i).seq)
  BY <1>2, OneControllerIsTotal, GreatestIsUnbeaten DEF Before
<1>4. HeadOf(i).seq # HeadOf(j).seq
  <2>1. Len(streams[i]) \in Nat /\ Len(streams[j]) \in Nat
    BY <1>1 DEF Merging, TypeOK
  <2>2. <<i, read[i]>> \in Positions(streams) /\ <<j, read[j]>> \in Positions(streams)
    BY <1>1, <2>1, SpliceAssumption DEF Positions, Recorded
  <2> QED
    BY <1>2, <2>2 DEF Recorded, AsRecorded, HeadOf
<1> QED
  BY <1>1, <1>3, <1>4 DEF Rec

\* One merge step of one controller's files keeps the output in the order of the numbers.
LEMMA MergeNumbered ==
    ASSUME Merging, Recorded, IsOneController, Numbered, NEW i \in In, Merge(i)
    PROVE  Numbered'
<1>0. PICK n \in Nat : n = Len(out) + 1
  BY DEF Merging, TypeOK
<1>1. /\ i \in heap
      /\ Len(out') = n /\ Len(out) \in Nat
      /\ \A p \in 1..Len(out) : At(p)' = At(p)
      /\ At(n)' = HeadOf(i)
      /\ \A p \in 1..Len(out') : p \in 1..Len(out) \/ p = n
      /\ \A j \in heap' \ {i} : j \in heap /\ HeadOf(j)' = HeadOf(j)
      /\ i \in heap' => /\ read[i] + 1 \in 1..Len(streams[i])
                        /\ HeadOf(i)' = streams[i][read[i] + 1]
  BY <1>0, MergeShape
<1>2. /\ \A p \in 1..Len(out) : At(p).seq \in Nat
      /\ \A j \in heap : HeadOf(j).seq \in Nat
      /\ read[i] \in 1..Len(streams[i])
  BY <1>1, OutputAndHeads DEF Rec
<1>3. \A j \in heap \ {i} : HeadOf(i).seq < HeadOf(j).seq
  BY GreatestIsLowest DEF Merge
<1>4. \A p \in 1..Len(out) : At(p).seq < HeadOf(i).seq
  BY <1>1 DEF Numbered
<1>5. ASSUME i \in heap' PROVE HeadOf(i)'.seq \in Nat /\ HeadOf(i).seq < HeadOf(i)'.seq
  <2>1. HeadOf(i) = streams[i][read[i]]
    BY DEF HeadOf
  <2>2. streams[i][read[i] + 1] \in Rec
    BY <1>1, <1>5, ElementOfSeq DEF Merging, TypeOK
  <2>3. SeqComparable(streams[i][read[i]], streams[i][read[i] + 1])
    BY <1>1, <1>2, <1>5 DEF IsOneController
  <2>4. read[i] < read[i] + 1
    BY <1>2
  <2>5. HeadOf(i).seq < streams[i][read[i] + 1].seq
    BY <1>1, <1>2, <1>5, <2>1, <2>3, <2>4 DEF Recorded, AsRecorded
  <2> QED
    BY <1>1, <1>5, <2>2, <2>5 DEF Rec
<1>6. ASSUME NEW p \in 1..Len(out'), NEW r \in 1..Len(out'), p < r
      PROVE  At(p)'.seq < At(r)'.seq
  <2>1. p \in 1..Len(out)
    BY <1>0, <1>1, <1>6
  <2>2. CASE r = n
    BY <1>1, <1>4, <2>1, <2>2
  <2>3. CASE r \in 1..Len(out)
    BY <1>1, <1>6, <2>1, <2>3 DEF Numbered
  <2> QED
    BY <1>1, <2>2, <2>3
<1>7. ASSUME NEW p \in 1..Len(out'), NEW j \in heap'
      PROVE  At(p)'.seq < HeadOf(j)'.seq
  <2>1. At(p)'.seq \in Nat /\ At(p)'.seq <= HeadOf(i).seq
    BY <1>1, <1>2, <1>4
  <2>2. HeadOf(i).seq < HeadOf(j)'.seq /\ HeadOf(j)'.seq \in Nat
    <3>1. CASE j = i
      BY <1>5, <3>1
    <3>2. CASE j # i
      BY <1>1, <1>2, <1>3, <3>2
    <3> QED
      BY <3>1, <3>2
  <2> QED
    BY <1>1, <1>2, <2>1, <2>2
<1> QED
  BY <1>6, <1>7 DEF Numbered

-----------------------------------------------------------------------------
(* The invariant of the order: what the files hold decides which half.     *)

Ordered ==
    /\ Merging
    /\ Recorded
    /\ IsFtrace => Sorted
    /\ IsOneController => Numbered

\* Before anything is written both orders hold.
LEMMA NothingWritten ==
    ASSUME out = <<>>, lastTs = <<>>, ~warned
    PROVE  Sorted /\ Numbered
<1>1. 1..Len(out) = {} /\ DOMAIN lastTs = {}
  OBVIOUS
<1> QED
  BY <1>1 DEF Sorted, Numbered

\* Before priming the inputs are as recorded and no order is broken.
LEMMA InitOrdered == Init => Ordered
<1> SUFFICES ASSUME Init PROVE Ordered
  OBVIOUS
<1>1. Merging
  BY InitMerging
<1>2. Recorded
  <2>1. PICK R \in RecordSets : streams \in [In -> Sources(R)]
    BY DEF Init
  <2>2. \A q \in Sources(R) : Len(q) <= MaxLen
    BY SpliceAssumption DEF Sources
  <2> QED
    BY <2>1, <2>2 DEF Init, Recorded
<1>3. Sorted /\ Numbered
  BY NothingWritten DEF Init
<1> QED
  BY <1>1, <1>2, <1>3 DEF Ordered

\* A record that cannot be written changes nothing in the order of the output.
LEMMA WriteFailsOrdered ==
    ASSUME Ordered, NEW i \in In, WriteFails(i)
    PROVE  (IsFtrace => Sorted') /\ (IsOneController => Numbered')
<1>1. /\ i \in heap /\ heap' = heap \ {i} /\ UNCHANGED <<streams, read, out>>
      /\ phase = "merge" /\ phase' = "err" /\ warned' = (warned \/ Backwards(HeadOf(i)))
      /\ Merging
  BY DEF WriteFails, Greatest, sourceVars, Note, Ordered
<1>2. \A p \in 1..Len(out) : At(p)' = At(p)
  BY <1>1 DEF At
<1>3. \A j \in heap' : j \in heap /\ HeadOf(j)' = HeadOf(j)
  BY <1>1 DEF HeadOf
<1>4. ASSUME IsFtrace PROVE Sorted'
  <2>1. ~warned'
    BY <1>1, <1>4, OldestIsNotBackwards DEF Ordered, Sorted
  <2> QED
    BY <1>1, <1>2, <1>3, <1>4, <2>1 DEF Ordered, Sorted
<1>5. ASSUME IsOneController PROVE Numbered'
  BY <1>1, <1>2, <1>3, <1>5 DEF Ordered, Numbered
<1> QED
  BY <1>4, <1>5

\* Every step keeps the order, and none changes what the inputs held.
LEMMA NextOrdered ==
    ASSUME Ordered, [Next]_vars
    PROVE  Ordered'
<1>1. Merging /\ Merging' /\ Recorded
  BY NextMerging DEF Ordered
<1>2. streams' = streams
  BY DEF Next, OpenFails, CreateOutput, Prime, Primed, Merge, WriteFails, Finish, vars, sourceVars
<1>3. Recorded' /\ (IsFtrace' <=> IsFtrace) /\ (IsOneController' <=> IsOneController)
  BY <1>1, <1>2 DEF Recorded, AsRecorded, Positions, IsFtrace, IsOneController
<1>4. SUFFICES (IsFtrace => Sorted') /\ (IsOneController => Numbered')
  BY <1>1, <1>3 DEF Ordered
<1>5. CASE OpenFails \/ CreateOutput \/ Prime
  <2>1. out' = <<>> /\ lastTs' = <<>> /\ ~warned'
    BY <1>1, <1>5 DEF OpenFails, CreateOutput, Prime, Merging, HeapRead
  <2>2. 1..Len(out') = {} /\ DOMAIN lastTs' = {}
    BY <2>1
  <2> QED
    BY <2>1, <2>2 DEF Sorted, Numbered
<1>6. ASSUME NEW i \in In, Merge(i)
      PROVE  (IsFtrace => Sorted') /\ (IsOneController => Numbered')
  BY <1>1, <1>6, MergeSorted, MergeNumbered DEF Ordered
<1>7. ASSUME NEW i \in In, WriteFails(i)
      PROVE  (IsFtrace => Sorted') /\ (IsOneController => Numbered')
  BY <1>7, WriteFailsOrdered
<1>8. CASE Primed \/ Finish \/ UNCHANGED vars
  <2>1. /\ UNCHANGED <<streams, read, heap, out, lastTs, warned>>
        /\ phase # "err" \/ phase' = "err"
    BY <1>8 DEF Primed, Finish, vars, sourceVars
  <2>2. (Sorted => Sorted') /\ (Numbered => Numbered')
    BY <2>1 DEF Sorted, Numbered, At, HeadOf
  <2> QED
    BY <2>2 DEF Ordered
<1> QED
  BY <1>5, <1>6, <1>7, <1>8 DEF Next

\* The output is in order as long as the files are as they were recorded.
LEMMA OrderedIsInvariant == Spec => []Ordered
<1> QED
  BY InitOrdered, NextOrdered, PTL DEF Spec

\* The files of an ftrace capture are merged by timestamp, and splice reports nothing.
THEOREM FtraceOutputIsSorted == Spec => []TimestampOrder
<1>1. Ordered => TimestampOrder
  BY DEF Ordered, Sorted, TimestampOrder
<1> QED
  BY <1>1, OrderedIsInvariant, PTL

\* The relay files of one controller are merged by sequence number, however their
\* timestamps are skewed.
THEOREM OneControllerIsInSequence == Spec => []OneControllerSeqOrder
<1>1. Ordered => OneControllerSeqOrder
  BY DEF Ordered, Numbered, OneControllerSeqOrder, InSeqOrder
<1> QED
  BY <1>1, OrderedIsInvariant, PTL

-----------------------------------------------------------------------------
(* The report of a backwards timestamp.                                    *)

\* Every variable keeps its type, for any number of inputs.
THEOREM TypeCorrect == Spec => []TypeOK
<1>1. Merging => TypeOK
  BY DEF Merging
<1> QED
  BY <1>1, MergingIsInvariant, PTL

\* A merge step appends the head of an input to the output.
LEMMA MergeOutput ==
    ASSUME Merging, NEW i \in In, Merge(i)
    PROVE  Output' = Append(Output, HeadOf(i))
<1>0. PICK n \in Nat : n = Len(out) + 1
  BY DEF Merging, TypeOK
<1>1. /\ Len(out') = n /\ Len(out) \in Nat
      /\ \A p \in 1..Len(out) : At(p)' = At(p)
      /\ At(n)' = HeadOf(i)
  BY <1>0, MergeShape
<1>2. /\ Output \in Seq(Rec) /\ Len(Output) = Len(out)
      /\ \A p \in 1..Len(out) : Output[p] = At(p)
  BY <1>1, OutputAndHeads DEF Output
<1>3. \A p \in 1..n : Output'[p] = At(p)'
  BY <1>0, <1>1 DEF Output
<1>4. HeadOf(i) \in Rec
  BY MergeShape, OutputAndHeads
<1>5. /\ \A p \in 1..Len(out) : Output'[p] = Output[p]
      /\ Output'[n] = HeadOf(i)
  BY <1>0, <1>1, <1>2, <1>3
<1> DEFINE o == Output  oo == Output'  h == HeadOf(i)
<1>6. oo \in Seq(Rec) /\ Len(oo) = n
  <2>1. \A p \in 1..n : oo[p] \in Rec
    BY <1>0, <1>1, <1>2, <1>4, <1>5, ElementOfSeq
  <2>2. oo = [p \in 1..n |-> oo[p]]
    BY <1>1 DEF Output
  <2> HIDE DEF oo
  <2> QED
    BY <2>1, <2>2
<1>7. /\ Append(o, h) \in Seq(Rec) /\ Len(Append(o, h)) = Len(o) + 1
      /\ \A p \in 1..Len(o) : Append(o, h)[p] = o[p]
      /\ Append(o, h)[Len(o) + 1] = h
  <2>1. o \in Seq(Rec) /\ h \in Rec
    BY <1>2, <1>4
  <2> HIDE DEF o, h
  <2> QED
    BY <2>1, AppendProperties
<1>8. Len(o) = Len(out) /\ Len(out) \in Nat
  BY <1>1, <1>2
<1>9. /\ \A p \in 1..Len(out) : oo[p] = o[p]
      /\ oo[n] = h
  BY <1>5
<1> HIDE DEF o, oo, h
<1>10. \A p \in 1..n : oo[p] = Append(o, h)[p]
  BY <1>0, <1>7, <1>8, <1>9
<1>11. Len(Append(o, h)) = n
  BY <1>0, <1>7, <1>8
<1>12. oo = Append(o, h)
  BY <1>6, <1>7, <1>10, <1>11, SeqEqual
<1> QED
  BY <1>2, <1>12 DEF o, oo, h

\* `last` has the timestamp of the last record of each controller in s.
LastKept(s, last) ==
    /\ \A p \in 1..Len(s) : s[p].ctrl \in DOMAIN last
    /\ \A c \in DOMAIN last : \E p \in 1..Len(s) :
          /\ s[p].ctrl = c /\ last[c] = s[p].ts
          /\ \A m \in 1..Len(s) : p < m => s[m].ctrl # c

Reporting == Merging /\ LastKept(Compared, lastTs) /\ WarnedExactly

\* What comes before a record of its controller is what `last` holds.
LEMMA StepBackIsFromLast ==
    ASSUME NEW s \in Seq(Rec), NEW last, LastKept(s, last), NEW r \in Rec
    PROVE  (r.ctrl \in DOMAIN last /\ r.ts < last[r.ctrl]) <=>
              \E p \in 1..Len(s) :
                 /\ s[p].ctrl = r.ctrl /\ r.ts < s[p].ts
                 /\ \A m \in (p + 1)..Len(s) : s[m].ctrl # r.ctrl
<1>1. Len(s) \in Nat
  OBVIOUS
<1>2. ASSUME r.ctrl \in DOMAIN last, r.ts < last[r.ctrl]
      PROVE  \E p \in 1..Len(s) : /\ s[p].ctrl = r.ctrl /\ r.ts < s[p].ts
                                   /\ \A m \in (p + 1)..Len(s) : s[m].ctrl # r.ctrl
  <2>1. PICK p \in 1..Len(s) : /\ s[p].ctrl = r.ctrl /\ last[r.ctrl] = s[p].ts
                               /\ \A m \in 1..Len(s) : p < m => s[m].ctrl # r.ctrl
    BY <1>2 DEF LastKept
  <2>2. \A m \in (p + 1)..Len(s) : m \in 1..Len(s) /\ p < m
    BY <1>1
  <2> QED
    BY <1>2, <2>1, <2>2
<1>3. ASSUME NEW p \in 1..Len(s), s[p].ctrl = r.ctrl, r.ts < s[p].ts,
             \A m \in (p + 1)..Len(s) : s[m].ctrl # r.ctrl
      PROVE  r.ctrl \in DOMAIN last /\ r.ts < last[r.ctrl]
  <2>1. r.ctrl \in DOMAIN last
    BY <1>3 DEF LastKept
  <2>2. PICK q \in 1..Len(s) : /\ s[q].ctrl = r.ctrl /\ last[r.ctrl] = s[q].ts
                               /\ \A m \in 1..Len(s) : q < m => s[m].ctrl # r.ctrl
    BY <2>1 DEF LastKept
  <2>3. ~(q < p)
    BY <1>3, <2>2
  <2>4. ~(p < q)
    <3> SUFFICES ASSUME p < q PROVE FALSE
      OBVIOUS
    <3>1. q \in (p + 1)..Len(s)
      BY <1>1
    <3> QED
      BY <1>3, <2>2, <3>1
  <2>5. p = q
    BY <1>1, <2>3, <2>4
  <2> QED
    BY <1>3, <2>1, <2>2, <2>5
<1> QED
  BY <1>2, <1>3

\* One record more steps back exactly when it is older than its controller's last.
LEMMA OneRecordMore ==
    ASSUME NEW s \in Seq(Rec), NEW last, LastKept(s, last), NEW r \in Rec
    PROVE  /\ LastKept(Append(s, r), [c \in DOMAIN last \cup {r.ctrl} |->
                                         IF c = r.ctrl THEN r.ts ELSE last[c]])
           /\ StepsBack(Append(s, r)) <=>
                 (StepsBack(s) \/ (r.ctrl \in DOMAIN last /\ r.ts < last[r.ctrl]))
<1> DEFINE t == Append(s, r)
           next == [c \in DOMAIN last \cup {r.ctrl} |-> IF c = r.ctrl THEN r.ts ELSE last[c]]
<1>1. PICK n \in Nat : n = Len(s) + 1
  OBVIOUS
<1>2. Len(s) \in Nat /\ Len(t) = n /\ t[n] = r /\ \A p \in 1..Len(s) : t[p] = s[p]
  BY <1>1, AppendProperties
<1>3. /\ DOMAIN next = DOMAIN last \cup {r.ctrl} /\ next[r.ctrl] = r.ts
      /\ \A c \in DOMAIN last : c # r.ctrl => next[c] = last[c]
  OBVIOUS
<1> HIDE DEF t, next
<1>4. /\ n \in 1..Len(t)
      /\ \A p \in 1..Len(s) : p \in 1..Len(t) /\ p < n /\ p \in Nat
      /\ \A p \in 1..Len(t) : p \in 1..Len(s) \/ p = n
  BY <1>1, <1>2
<1>5. LastKept(t, next)
  <2>1. \A p \in 1..Len(t) : t[p].ctrl \in DOMAIN next
    BY <1>2, <1>3, <1>4 DEF LastKept
  <2>2. ASSUME NEW c \in DOMAIN next
        PROVE  \E p \in 1..Len(t) : /\ t[p].ctrl = c /\ next[c] = t[p].ts
                                     /\ \A m \in 1..Len(t) : p < m => t[m].ctrl # c
    <3>1. CASE c = r.ctrl
      <4>1. \A m \in 1..Len(t) : ~(n < m)
        BY <1>1, <1>2
      <4> QED
        BY <1>2, <1>3, <1>4, <3>1, <4>1
    <3>2. CASE c # r.ctrl
      <4>1. c \in DOMAIN last /\ next[c] = last[c]
        BY <1>3, <3>2
      <4>2. PICK p \in 1..Len(s) : /\ s[p].ctrl = c /\ last[c] = s[p].ts
                                   /\ \A m \in 1..Len(s) : p < m => s[m].ctrl # c
        BY <4>1 DEF LastKept
      <4> QED
        BY <1>2, <1>4, <3>2, <4>1, <4>2
    <3> QED
      BY <3>1, <3>2
  <2> QED
    BY <2>1, <2>2 DEF LastKept
<1>6. StepsBack(t) <=> StepsBack(s) \/ (r.ctrl \in DOMAIN last /\ r.ts < last[r.ctrl])
  <2> DEFINE Pair(u, p, q) == /\ p < q /\ u[p].ctrl = u[q].ctrl /\ u[q].ts < u[p].ts
                              /\ \A m \in (p + 1)..(q - 1) : u[m].ctrl # u[p].ctrl
  <2>1. /\ StepsBack(s) <=> \E p, q \in 1..Len(s) : Pair(s, p, q)
        /\ StepsBack(t) <=> \E p, q \in 1..Len(t) : Pair(t, p, q)
    BY DEF StepsBack
  <2>2. ASSUME NEW p \in 1..Len(s), NEW q \in 1..Len(s)
        PROVE  Pair(t, p, q) <=> Pair(s, p, q)
    <3>1. \A m \in (p + 1)..(q - 1) : m \in 1..Len(s)
      BY <1>2
    <3> QED
      BY <1>2, <3>1
  <2>3. ASSUME NEW p \in 1..Len(s)
        PROVE  Pair(t, p, n) <=> /\ s[p].ctrl = r.ctrl /\ r.ts < s[p].ts
                                 /\ \A m \in (p + 1)..Len(s) : s[m].ctrl # r.ctrl
    <3>1. n - 1 = Len(s)
      BY <1>1, <1>2
    <3>2. \A m \in (p + 1)..Len(s) : m \in 1..Len(s)
      BY <1>2
    <3> QED
      BY <1>2, <1>4, <3>1, <3>2
  <2>4. ASSUME NEW q \in 1..Len(t)
        PROVE  ~Pair(t, n, q)
    BY <1>1, <1>2
  <2>5. (\E p \in 1..Len(s) : Pair(t, p, n)) <=> (r.ctrl \in DOMAIN last /\ r.ts < last[r.ctrl])
    <3> HIDE DEF Pair
    <3> QED
      BY <2>3, StepBackIsFromLast
  <2> HIDE DEF Pair
  <2> QED
    BY <1>4, <2>1, <2>2, <2>4, <2>5
<1> QED
  BY <1>5, <1>6 DEF t, next

\* With nothing written there is nothing to report.
LEMMA NothingToReport ==
    ASSUME out = <<>>, unwritten = {}, lastTs = <<>>, ~warned
    PROVE  LastKept(Compared, lastTs) /\ WarnedExactly
<1>1. Compared = <<>> /\ DOMAIN lastTs = {}
  BY DEF Compared, Output
<1>2. 1..Len(Compared) = {}
  BY <1>1
<1> QED
  BY <1>1, <1>2 DEF LastKept, WarnedExactly, StepsBack

LEMMA InitReporting == Init => Reporting
<1> SUFFICES ASSUME Init PROVE Reporting
  OBVIOUS
<1>1. out = <<>> /\ unwritten = {} /\ lastTs = <<>> /\ ~warned
  BY DEF Init
<1> QED
  BY <1>1, InitMerging, NothingToReport DEF Reporting

\* The record that leaves the heap is compared, whether it can be written or not.
LEMMA PopCompares ==
    ASSUME Merging, NEW i \in In, Merge(i) \/ WriteFails(i)
    PROVE  /\ i \in heap /\ Note(HeadOf(i))
           /\ Compared \in Seq(Rec) /\ Compared' = Append(Compared, HeadOf(i))
<1>1. i \in heap /\ Note(HeadOf(i)) /\ Compared = Output
  BY DEF Merge, WriteFails, Greatest, Merging, HeapRead, Compared
<1>2. Output \in Seq(Rec)
  BY OutputAndHeads DEF Output, Merging, TypeOK
<1>3. CASE Merge(i)
  <2>1. Compared' = Output'
    BY <1>3 DEF Merge, Merging, HeapRead, Compared
  <2> QED
    BY <1>1, <1>2, <1>3, <2>1, MergeOutput
<1>4. CASE WriteFails(i)
  <2>1. unwritten' = {i} /\ HeadOf(i)' = HeadOf(i) /\ UNCHANGED <<streams, out>>
    BY <1>4 DEF WriteFails, HeadOf, sourceVars
  <2>2. Output' = Output
    BY <2>1 DEF Output, At
  <2>3. Compared' = Append(Output', HeadOf(i)')
    BY <2>1 DEF Compared
  <2> QED
    BY <1>1, <1>2, <2>1, <2>2, <2>3
<1> QED
  BY <1>3, <1>4

\* What is compared does not change while nothing leaves the heap.
LEMMA NextReporting ==
    ASSUME Reporting, [Next]_vars
    PROVE  Reporting'
<1>1. Merging /\ Merging'
  BY NextMerging DEF Reporting
<1>2. ASSUME NEW i \in In, Merge(i) \/ WriteFails(i) PROVE Reporting'
  <2>1. PICK s \in Seq(Rec) : s = Compared
    BY <1>1, <1>2, PopCompares
  <2>2. PICK r \in Rec : r = HeadOf(i)
    BY <1>1, <1>2, PopCompares, OutputAndHeads
  <2>3. PICK last : last = lastTs
    OBVIOUS
  <2>4. LastKept(s, last)
    BY <2>1, <2>3 DEF Reporting
  <2>5. /\ Compared' = Append(s, r)
        /\ warned' = (warned \/ Backwards(r))
        /\ lastTs' = [c \in DOMAIN last \cup {r.ctrl} |-> IF c = r.ctrl THEN r.ts ELSE last[c]]
    BY <1>1, <1>2, <2>1, <2>2, <2>3, PopCompares DEF Note
  <2>6. LastKept(Compared, lastTs)'
    BY <2>4, <2>5, OneRecordMore
  <2>7. StepsBack(Append(s, r)) <=> (StepsBack(s) \/ Backwards(r))
    BY <2>3, <2>4, OneRecordMore DEF Backwards
  <2>8. WarnedExactly'
    BY <2>1, <2>5, <2>7 DEF Reporting, WarnedExactly
  <2> QED
    BY <1>1, <2>6, <2>8 DEF Reporting
<1>3. CASE OpenFails \/ CreateOutput \/ Prime
  <2>1. out' = <<>> /\ unwritten' = {} /\ lastTs' = <<>> /\ ~warned'
    BY <1>1, <1>3 DEF OpenFails, CreateOutput, Prime, Merging, HeapRead
  <2>2. Compared' = <<>> /\ DOMAIN lastTs' = {}
    BY <2>1 DEF Compared, Output
  <2>3. 1..Len(Compared') = {}
    BY <2>2
  <2>4. LastKept(Compared, lastTs)' /\ WarnedExactly'
    BY <2>1, <2>2, <2>3 DEF LastKept, WarnedExactly, StepsBack
  <2> QED
    BY <1>1, <2>4 DEF Reporting
<1>4. CASE Primed \/ Finish \/ UNCHANGED vars
  <2>1. UNCHANGED <<streams, read, out, unwritten, lastTs, warned>>
    BY <1>4 DEF Primed, Finish, vars, sourceVars
  <2>2. Compared' = Compared
    BY <2>1 DEF Compared, Output, At, HeadOf
  <2> QED
    BY <1>1, <2>1, <2>2 DEF Reporting, WarnedExactly
<1> QED
  BY <1>2, <1>3, <1>4 DEF Next

\* A backwards timestamp is reported exactly when there is one, for any number of
\* inputs and controllers, and also for the record whose write fails.
THEOREM ReportIsExact == Spec => []WarnedExactly
<1>1. Reporting => WarnedExactly
  BY DEF Reporting
<1> QED
  BY <1>1, InitReporting, NextReporting, PTL DEF Spec

-----------------------------------------------------------------------------
(* Readers and heap implement the merge of OrderedMerge.                   *)

\* What waits of an input is what its reader has not put in the output.
LEMMA WaitingIs ==
    ASSUME NEW i \in In
    PROVE  Waiting[i] = SubSeq(streams[i], Written(i) + 1, Size(i))
BY DEF Waiting

\* The first to wait of an input in the heap is the record the heap knows of it.
LEMMA HeapHoldsHeads ==
    ASSUME Merging, NEW i \in heap
    PROVE  /\ Waiting[i] # <<>> /\ Head(Waiting[i]) = HeadOf(i)
           /\ Tail(Waiting[i]) = SubSeq(streams[i], read[i] + 1, Size(i))
<1>1. /\ i \in In /\ streams[i] \in Seq(Rec) /\ Len(streams[i]) \in Nat
      /\ read[i] \in 1..Size(i) /\ Size(i) = Len(streams[i])
  BY OutputAndHeads DEF Merging, TypeOK, Size
<1>2. Written(i) + 1 = read[i]
  BY <1>1 DEF Written
<1>3. Waiting[i] = SubSeq(streams[i], read[i], Len(streams[i]))
  BY <1>1, <1>2, WaitingIs
<1> DEFINE s == streams[i]  k == read[i]  w == SubSeq(s, k, Len(s))
           u == SubSeq(s, k + 1, Len(s))
<1>4. /\ w \in Seq(Rec) /\ Len(w) = Len(s) - k + 1
      /\ \A p \in 1..Len(w) : w[p] = s[k + p - 1]
  <2> HIDE DEF s, k
  <2>1. s \in Seq(Rec) /\ k \in 1..Len(s) /\ Len(s) \in 1..Len(s)
    BY <1>1 DEF s, k
  <2> QED
    BY <2>1
<1>5. /\ u \in Seq(Rec) /\ Len(u) = Len(s) - k
      /\ \A p \in 1..Len(u) : u[p] = s[k + p]
  <2> HIDE DEF s, k
  <2>1. s \in Seq(Rec) /\ k \in 1..Len(s) /\ Len(s) \in Nat
    BY <1>1 DEF s, k
  <2> QED
    BY <2>1
<1>6. /\ s \in Seq(Rec) /\ k \in 1..Len(s) /\ Len(s) \in Nat
      /\ Tail(Waiting[i]) = Tail(w) /\ SubSeq(streams[i], read[i] + 1, Size(i)) = u
  BY <1>1, <1>3
<1> HIDE DEF s, k, w, u
<1>7. w # <<>> /\ Head(w) = s[k]
  BY <1>4, <1>6
<1>8. Tail(w) = u
  <2> DEFINE t == Tail(w)
  <2>1. /\ t \in Seq(Rec) /\ Len(t) = Len(w) - 1
        /\ \A p \in 1..Len(t) : t[p] = w[p + 1]
    BY <1>4, <1>7
  <2> HIDE DEF t
  <2>2. Len(t) = Len(u)
    BY <1>4, <1>5, <1>6, <2>1
  <2>3. ASSUME NEW p \in 1..Len(u) PROVE t[p] = u[p]
    <3>1. p + 1 \in 1..Len(w) /\ p \in 1..Len(t) /\ k + (p + 1) - 1 = k + p
      BY <1>4, <1>5, <1>6, <2>2
    <3>2. w[p + 1] = s[k + p]
      BY <1>4, <3>1
    <3>3. u[p] = s[k + p] /\ t[p] = w[p + 1]
      BY <1>5, <2>1, <3>1
    <3> QED
      BY <3>2, <3>3
  <2>4. t = u
    BY <1>5, <2>1, <2>2, <2>3, SeqEqual
  <2> QED
    BY <2>4 DEF t
<1> QED
  BY <1>3, <1>6, <1>7, <1>8 DEF s, k, w, HeadOf

\* Nothing waits of an input whose records are all written.
LEMMA NothingWaits ==
    ASSUME Merging, NEW i \in In, Written(i) = Size(i)
    PROVE  Waiting[i] = <<>>
<1>1. streams[i] \in Seq(Rec) /\ Size(i) \in Nat
  BY DEF Merging, TypeOK, Size
<1>2. Waiting[i] = SubSeq(streams[i], Size(i) + 1, Size(i))
  BY WaitingIs
<1>3. SubSeq(streams[i], Size(i) + 1, Size(i)) = <<>>
  BY <1>1
<1> QED
  BY <1>2, <1>3

\* An input that has left the heap at its end is written.
LEMMA ExhaustedIsWritten ==
    ASSUME NEW i \in In, i \notin heap \cup unwritten, Exhausted(i)
    PROVE  Written(i) = Size(i)
BY Zenon DEF Written, Exhausted

\* An older record beats a younger one.
LEMMA OlderBeats ==
    ASSUME NEW i \in In, NEW j \in In, Merged!Older(HeadOf(j), HeadOf(i))
    PROVE  Beats(j, i)
BY DEF Merged!Older, Beats, Before, SeqComparable

\* Every record that can be read is in the output or waits.
LEMMA RecordsAreMerged ==
    ASSUME Merging, NEW a \in Records
    PROVE  a \in Merged!Records
<1>0. PICK i \in In : a \in {streams[i][k] : k \in 1..Size(i)}
  BY DEF Records
<1>1. PICK k \in 1..Size(i) : a = streams[i][k]
  BY <1>0
<1>2. /\ streams[i] \in Seq(Rec) /\ Len(streams[i]) \in Nat /\ Size(i) \in 0..Len(streams[i])
      /\ Written(i) \in 0..Size(i)
  BY DEF Merging, TypeOK, HeapRead, Size, Written
<1>3. CASE k \in 1..Written(i)
  <2>1. PICK p \in 1..Len(out) : out[p] = [input |-> i, index |-> k]
    BY <1>3 DEF Merging, Interleaves
  <2>2. Len(out) \in Nat
    BY DEF Merging, TypeOK
  <2>3. Output[p] = a /\ p \in 1..Len(Output)
    BY <1>1, <2>1, <2>2 DEF Output, At
  <2> QED
    BY <2>3 DEF Merged!Records
<1>4. CASE k \notin 1..Written(i)
  <2> DEFINE s == streams[i]  m == Written(i)  n == Size(i)  w == SubSeq(s, m + 1, n)
  <2>1. PICK x : x = k - m
    OBVIOUS
  <2>2. x \in 1..Len(w) /\ w[x] = s[k]
    <3>1. s \in Seq(Rec) /\ Len(s) \in Nat /\ n \in 0..Len(s) /\ m \in 0..n /\ k \in (m + 1)..n
      BY <1>2, <1>4
    <3> HIDE DEF s, m, n
    <3> QED
      BY <2>1, <3>1
  <2>3. Waiting[i] = w
    BY WaitingIs
  <2>4. x \in 1..Len(Waiting[i]) /\ Waiting[i][x] = a
    BY <1>1, <2>2, <2>3
  <2>5. a \in {Waiting[i][y] : y \in 1..Len(Waiting[i])}
    BY <2>4
  <2> HIDE DEF w
  <2> QED
    BY <2>5 DEF Merged!Records
<1> QED
  BY <1>3, <1>4

\* Where age orders the records record_order does: it only decides between records of
\* the same age.
LEMMA AgeOrders ==
    ASSUME Merging, Merged!AgeIsAnOrder
    PROVE  OrderIsTotal
<1> SUFFICES ASSUME NEW a \in Records, NEW b \in Records, NEW c \in Records,
                    ~Before(a, b), ~Before(b, c)
             PROVE  ~Before(a, c)
  BY DEF OrderIsTotal
<1>1. a \in Rec /\ b \in Rec /\ c \in Rec
  BY RecordsAre
<1>2. a \in Merged!Records /\ b \in Merged!Records /\ c \in Merged!Records
  BY RecordsAreMerged
<1>3. ~Merged!Older(a, b) /\ ~Merged!Older(b, c)
  BY DEF Merged!Older, Before, SeqComparable
<1>4. ~Merged!Older(a, c)
  BY <1>2, <1>3 DEF Merged!AgeIsAnOrder
<1>5. CASE Merged!Older(c, a)
  BY <1>1, <1>5 DEF Merged!Older, Before, SeqComparable, Rec
<1>6. CASE ~Merged!Older(c, a)
  <2>1. ~Merged!Older(b, a) /\ ~Merged!Older(c, b)
    BY <1>2, <1>3, <1>6 DEF Merged!AgeIsAnOrder
  <2> QED
    BY <1>1, <1>3, <1>4, <1>6, <2>1 DEF Merged!Older, Before, SeqComparable, Rec
<1> QED
  BY <1>5, <1>6

\* A merge step takes the head of one queue, and none that waits is older.
LEMMA MergeTakes ==
    ASSUME Merging, NEW i \in In, Merge(i)
    PROVE  Merged!Take(i)
<1>1. /\ i \in heap /\ phase = "merge" /\ UNCHANGED <<streams, tail, emptied, unwritten>>
      /\ unwritten = {}
      /\ \A j \in In : Size(j)' = Size(j) /\ EndOf(j)' = EndOf(j)
  BY SameInputs DEF Merge, Greatest, Merging, HeapRead
<1>2. /\ Waiting[i] # <<>> /\ Head(Waiting[i]) = HeadOf(i)
      /\ Tail(Waiting[i]) = SubSeq(streams[i], read[i] + 1, Size(i))
  BY <1>1, HeapHoldsHeads
<1>3. Stage = "merge" /\ Unparsed' = Unparsed
  BY <1>1 DEF Stage, Unparsed
<1>4. ASSUME NEW j \in In, Waiting[j] # <<>>, Merged!Older(Head(Waiting[j]), Head(Waiting[i])),
             Merged!AgeIsAnOrder
      PROVE  FALSE
  <2>1. j \in heap
    BY <1>1, <1>4, ExhaustedIsWritten, NothingWaits DEF Merging, HeapComplete
  <2>2. Head(Waiting[j]) = HeadOf(j)
    BY <2>1, HeapHoldsHeads
  <2>3. ~Beats(j, i)
    BY <1>4, <2>1, AgeOrders, GreatestIsUnbeaten DEF Merge
  <2> QED
    BY <1>2, <1>4, <2>2, <2>3, OlderBeats
<1>5. /\ phase' \in {"merge", "err"}
      /\ \A j \in In \ {i} : read'[j] = read[j] /\ (j \in heap' <=> j \in heap)
      /\ Written(i)' = read[i]
  <2>1. /\ phase' \in {"merge", "err"}
        /\ \A j \in In \ {i} : read'[j] = read[j]
        /\ \/ i \in heap' /\ heap' = (heap \ {i}) \cup {i} /\ read'[i] = read[i] + 1
           \/ heap' = heap \ {i} /\ read'[i] = read[i]
    BY <1>1, NextRecordType DEF Merge, Merging, TypeOK
  <2>2. \A j \in In \ {i} : j \in heap' <=> j \in heap
    BY <2>1
  <2>3. Written(i)' = read[i]
    <3>1. read[i] \in Nat
      BY DEF Merging, TypeOK
    <3> QED
      BY <1>1, <2>1, <3>1 DEF Written
  <2> QED
    BY <2>1, <2>2, <2>3
<1>6. Stage' \in {"merge", "err"}
  BY <1>5 DEF Stage
<1>7. Waiting' = [Waiting EXCEPT ![i] = Tail(@)]
  <2>1. \A j \in In \ {i} : Written(j)' = Written(j)
    BY <1>1, <1>5 DEF Written
  <2>2. \A j \in In \ {i} : Waiting'[j] = Waiting[j]
    BY <1>1, <2>1 DEF Waiting
  <2>3. Waiting'[i] = Tail(Waiting[i])
    BY <1>1, <1>2, <1>5 DEF Waiting
  <2>4. Waiting = [j \in In |-> Waiting[j]] /\ Waiting' = [j \in In |-> Waiting'[j]]
    BY DEF Waiting
  <2> HIDE DEF Waiting
  <2> QED
    BY <2>2, <2>3, <2>4
<1>8. Output' = Append(Output, Head(Waiting[i]))
  BY <1>2, MergeOutput
<1> QED
  BY <1>2, <1>3, <1>4, <1>6, <1>7, <1>8 DEF Merged!Take

\* Creating the output empties the queue of an input that is the output too.
LEMMA CreateMerges ==
    ASSUME Merging, CreateOutput
    PROVE  Merged!Create
<1>1. /\ phase = "open" /\ phase' = "prime"
      /\ UNCHANGED <<streams, tail, read, heap, out, unwritten>>
  BY DEF CreateOutput
<1>2. Stage = "open" /\ Stage' = "merge"
  BY <1>1 DEF Stage
<1>3. Output' = Output
  <2>1. out = <<>> /\ out' = <<>>
    BY <1>1 DEF Merging, HeapRead
  <2>2. 1..Len(out) = {} /\ 1..Len(out') = {}
    BY <2>1
  <2> QED
    BY <2>2 DEF Output
<1>4. \A i \in In : Written(i) = 0 /\ Written(i)' = 0 /\ Size(i) = Len(streams[i])
  BY <1>1 DEF Merging, HeapRead, Written, Size
<1>5. Waiting = [i \in In |-> Waiting[i]] /\ Waiting' = [i \in In |-> Waiting'[i]]
  BY DEF Waiting
<1>6. CASE UNCHANGED emptied
  <2>1. \A i \in In : Waiting'[i] = Waiting[i]
    BY <1>1, <1>4, <1>6 DEF Waiting, Size
  <2>2. Waiting' = Waiting
    <3> HIDE DEF Waiting
    <3> QED BY <1>5, <2>1
  <2>3. Unparsed' = Unparsed
    BY <1>1, <1>6 DEF Unparsed, EndOf
  <2> QED
    BY <1>2, <1>3, <2>2, <2>3 DEF Merged!Create
<1>7. ASSUME NEW i \in In, emptied' = {i}
      PROVE  Merged!Create
  <2>1. /\ \A j \in In \ {i} : Size(j)' = Size(j) /\ EndOf(j)' = EndOf(j)
        /\ Size(i)' = 0 /\ EndOf(i)' = "eof"
    BY <1>1, <1>7 DEF Size, EndOf, Merging, HeapRead
  <2>2. \A j \in In \ {i} : Waiting'[j] = Waiting[j]
    BY <1>1, <1>4, <2>1 DEF Waiting
  <2>3. Waiting'[i] = <<>>
    <3>1. Waiting'[i] = SubSeq(streams[i], 1, 0)
      BY <1>1, <1>4, <2>1 DEF Waiting
    <3>2. streams[i] \in Seq(Rec)
      BY DEF Merging, TypeOK
    <3> QED
      BY <3>1, <3>2
  <2>4. Waiting' = [Waiting EXCEPT ![i] = <<>>]
    <3> HIDE DEF Waiting
    <3> QED BY <1>5, <2>2, <2>3
  <2>5. Unparsed' = Unparsed \ {i}
    BY <2>1 DEF Unparsed
  <2> QED
    BY <1>2, <1>3, <2>4, <2>5 DEF Merged!Create
<1> QED
  BY <1>6, <1>7 DEF CreateOutput

\* What waits, what does not parse and what is written depend on the inputs, on what is
\* written of them and on the output.
LEMMA SameQueues ==
    ASSUME \A i \in In : Written(i)' = Written(i), UNCHANGED <<sourceVars, out>>
    PROVE  UNCHANGED <<Waiting, Unparsed, Output>>
BY SameInputs DEF Waiting, Unparsed, Output, At

\* Priming shows nothing of the heap: it is invisible, or it fails.
LEMMA PrimeMerges ==
    ASSUME Merging, Prime
    PROVE  Merged!GiveUp \/ UNCHANGED Merged!mergeVars
<1>1. turn \in In /\ turn \notin heap /\ read[turn] = 0 /\ phase = "prime"
  BY SpliceAssumption DEF Prime, Merging, TypeOK, HeapRead, In
<1>2. /\ phase' \in {"prime", "err"}
      /\ \A j \in In \ {turn} : read'[j] = read[j]
      /\ \/ turn \in heap' /\ heap' = heap \cup {turn} /\ read'[turn] = read[turn] + 1
         \/ heap' = heap /\ read'[turn] = read[turn]
  BY <1>1, NextRecordType DEF Prime, Merging, TypeOK
<1>3. UNCHANGED <<sourceVars, out, unwritten>> /\ unwritten = {}
  BY <1>1 DEF Prime, Merging, HeapRead
<1>4. ASSUME NEW i \in In PROVE Written(i)' = Written(i)
  <2>1. CASE i = turn
    BY <1>1, <1>2, <1>3, <2>1 DEF Written
  <2>2. CASE i # turn
    <3>1. read'[i] = read[i] /\ (i \in heap' <=> i \in heap)
      BY <1>2, <2>2
    <3> QED
      BY <1>3, <3>1 DEF Written
  <2> QED
    BY <2>1, <2>2
<1>5. UNCHANGED <<Waiting, Unparsed, Output>>
  BY <1>3, <1>4, SameQueues
<1>6. Stage = "merge" /\ Stage' \in {"merge", "err"}
  BY <1>1, <1>2 DEF Stage
<1> QED
  BY <1>5, <1>6 DEF Merged!GiveUp, Merged!mergeVars

\* Every step of splice is a step of the merge or a stutter.
LEMMA NextMerges ==
    ASSUME Merging, [Next]_vars
    PROVE  [Merged!Next]_(Merged!mergeVars)
<1>1. CASE CreateOutput
  BY <1>1, CreateMerges DEF Merged!Next
<1>2. CASE Prime
  BY <1>2, PrimeMerges DEF Merged!Next
<1>3. ASSUME NEW i \in In, Merge(i) PROVE Merged!Next
  BY <1>3, MergeTakes DEF Merged!Next
<1>4. ASSUME UNCHANGED <<sourceVars, read, heap, out, unwritten>>
      PROVE  UNCHANGED <<Waiting, Unparsed, Output>>
  <2>1. \A i \in In : Written(i)' = Written(i)
    BY <1>4 DEF Written
  <2> QED
    BY <1>4, <2>1, SameQueues
<1>5. CASE Primed \/ UNCHANGED vars
  <2>1. UNCHANGED <<sourceVars, read, heap, out, unwritten>> /\ Stage' = Stage
    BY <1>5 DEF Primed, vars, sourceVars, Stage
  <2> QED
    BY <1>4, <2>1 DEF Merged!mergeVars
<1>6. CASE OpenFails
  <2>1. /\ UNCHANGED <<sourceVars, read, heap, out, unwritten>>
        /\ Stage = "open" /\ Stage' = "err"
    BY <1>6 DEF OpenFails, Stage
  <2> QED
    BY <1>4, <2>1 DEF Merged!Next, Merged!GiveUp
<1>7. ASSUME NEW i \in In, WriteFails(i) PROVE Merged!Next
  <2>1. UNCHANGED sourceVars /\ Stage = "merge" /\ Stage' = "err"
    BY <1>7 DEF WriteFails, Stage
  <2> QED
    BY <1>7, <2>1, WriteFailsMerging, SameQueues DEF Merged!Next, Merged!GiveUp
<1>8. CASE Finish
  <2>1. /\ UNCHANGED <<sourceVars, read, heap, out, unwritten>>
        /\ heap = {} /\ unwritten = {} /\ phase = "merge" /\ Stage = "merge" /\ Stage' = "ok"
    BY <1>8 DEF Finish, Stage, Merging, HeapRead
  <2>2. \A i \in In : Exhausted(i) /\ i \notin heap \cup unwritten
    BY <2>1 DEF Merging, HeapComplete
  <2>3. \A i \in In : Waiting[i] = <<>>
    BY <2>2, ExhaustedIsWritten, NothingWaits
  <2>4. Unparsed = {}
    BY <2>2 DEF Unparsed, Exhausted
  <2> QED
    BY <1>4, <2>1, <2>3, <2>4 DEF Merged!Next, Merged!Finish
<1> QED
  BY <1>1, <1>2, <1>3, <1>5, <1>6, <1>7, <1>8 DEF Next

\* All records wait when the command starts.
LEMMA InitMerges == Init => Merged!Init
<1> SUFFICES ASSUME Init PROVE Merged!Init
  OBVIOUS
<1>1. out = <<>> /\ phase = "open"
  BY DEF Init
<1>2. Output = <<>>
  BY <1>1 DEF Output
<1>3. DOMAIN Waiting = In /\ Unparsed \subseteq In
  BY DEF Waiting, Unparsed
<1>4. Stage = "open"
  BY <1>1 DEF Stage
<1> QED
  BY <1>2, <1>3, <1>4 DEF Merged!Init

\* Readers and heap implement the merge for any number of inputs, whatever they hold,
\* wherever they stop parsing and whichever of them is the output: Ok means that nothing
\* waits, and where age orders the records nothing is written past an older record that
\* waits in another input.  Where it does not (two controllers whose numbers and
\* timestamps contradict each other) the heap may give any of its items, and the theorem
\* says only that each input keeps its order.
THEOREM SpliceImplementsMerge == Spec => ImplementsMerge
<1> QED
  BY InitMerges, MergingIsInvariant, NextMerges, PTL
     DEF Spec, ImplementsMerge, Merged!Spec

=============================================================================
