------------------------------ MODULE MCCapture ------------------------------
(* Model checking Capture: symmetric CPUs for the runs without liveness.    *)
EXTENDS Capture, TLC

Symmetry == Permutations(Cpus)

=============================================================================
