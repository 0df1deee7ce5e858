------------------------------ MODULE MCSplice ------------------------------
(* Model checking Splice on small captures.                                 *)
EXTENDS Splice, TLC

\* "cpu10.bin" sorts before "cpu2.bin" as a string: the order of the names is not
\* the order of the inputs.
Names == <<2, 1, 3>>

\* ftrace: no sequence numbers, two controllers.
FtraceRecords == [ts : 1..2, seq : {0}, ctrl : 0..1, q : {1}]

\* relay, one controller: sequence numbers, and clocks that may disagree.
RelayRecords == [ts : 1..2, seq : 1..3, ctrl : {0}, q : {1}]

\* relay, two controllers: either may step back in time between the other's records.
TwoControllerRecords == [ts : 1..2, seq : 1..2, ctrl : 0..1, q : {1}]

OneKindOfCapture == {FtraceRecords, RelayRecords, TwoControllerRecords}

TwoNames == <<1, 2>>

\* Two controllers whose records never have the same time stamp.
TwoControllers == {{r \in [ts : 1..3, seq : 1..2, ctrl : 0..1, q : {1}] : r.ts = 2 <=> r.ctrl = 1}}

=============================================================================
