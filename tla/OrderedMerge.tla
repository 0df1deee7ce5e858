---------------------------- MODULE OrderedMerge ----------------------------
(***************************************************************************)
(* What `nvme-trace splice` promises, without readers, a heap or names.    *)
(* Every input is a queue of records.  The merge moves the head of one     *)
(* queue at a time to the output, never past an older head that waits if   *)
(* the records can be ordered by age.  It ends once: with "ok" only when   *)
(* every queue is empty and none of them ended in bytes that do not parse; *)
(* with "err" otherwise, and then the output is what was moved so far.     *)
(***************************************************************************)
EXTENDS Naturals, Sequences

CONSTANT In           \* the inputs

VARIABLES left,       \* [In -> Seq of records]: not yet in the output
          broken,     \* the inputs that end in bytes that do not parse
          merged,     \* the output
          phase       \* "open", "merge", "ok" or "err"

mergeVars == <<left, broken, merged, phase>>

\* The records of one controller are ordered by their number where they have one,
\* all others by their time stamp.
Older(a, b) ==
    IF a.ctrl = b.ctrl /\ a.seq # 0 /\ b.seq # 0 THEN a.seq < b.seq ELSE a.ts < b.ts

\* Numbers and time stamps may contradict each other, by way of the records of another
\* controller: a is older than c, and a third record tells neither of them apart from it
\* in the same direction.
Records == {merged[p] : p \in 1..Len(merged)}
           \cup UNION {{left[i][k] : k \in 1..Len(left[i])} : i \in In}
AgeIsAnOrder == \A a, b, c \in Records : Older(a, c) => Older(a, b) \/ Older(b, c)

Init ==
    /\ DOMAIN left = In
    /\ broken \subseteq In
    /\ merged = <<>>
    /\ phase = "open"

\* The output may be one of the inputs, which then holds nothing.
Create ==
    /\ phase = "open"
    /\ phase' = "merge"
    /\ \/ UNCHANGED <<left, broken>>
       \/ \E i \in In : left' = [left EXCEPT ![i] = <<>>] /\ broken' = broken \ {i}
    /\ UNCHANGED merged

\* The head of queue i is written; reading on may fail.  Records that age does not order
\* are written in any order that keeps each queue's own.
Take(i) ==
    /\ phase = "merge"
    /\ left[i] # <<>>
    /\ (\E j \in In : left[j] # <<>> /\ Older(Head(left[j]), Head(left[i]))) => ~AgeIsAnOrder
    /\ merged' = Append(merged, Head(left[i]))
    /\ left' = [left EXCEPT ![i] = Tail(@)]
    /\ phase' \in {"merge", "err"}
    /\ UNCHANGED broken

GiveUp ==
    /\ phase \in {"open", "merge"}
    /\ phase' = "err"
    /\ UNCHANGED <<left, broken, merged>>

Finish ==
    /\ phase = "merge"
    /\ broken = {} /\ \A i \in In : left[i] = <<>>
    /\ phase' = "ok"
    /\ UNCHANGED <<left, broken, merged>>

Next == Create \/ (\E i \in In : Take(i)) \/ GiveUp \/ Finish

Spec == Init /\ [][Next]_mergeVars

=============================================================================
