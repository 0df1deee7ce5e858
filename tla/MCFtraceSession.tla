-------------------------- MODULE MCFtraceSession --------------------------
(* Model checking FtraceSession: the controllers are symmetric.             *)
EXTENDS FtraceSession, TLC

Symmetry == Permutations(Ctrls)

=============================================================================
