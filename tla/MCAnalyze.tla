------------------------------ MODULE MCAnalyze ------------------------------
(* Two commands of one queue and one of another.  The id of the first is    *)
(* used again with another opcode.                                          *)
EXTENDS Analyze

Commands == {"a", "b", "c"}
CommandQueue == [k \in Commands |-> IF k = "c" THEN 2 ELSE 1]
CommandOpcodes ==
    [k \in Commands |-> IF k = "a" THEN {"read", "write"} ELSE IF k = "b" THEN {"write"} ELSE {"other"}]

==============================================================================
