--------------------------- MODULE MCJobLifecycle ---------------------------
(* Model checking JobLifecycle: threads are interchangeable. *)
EXTENDS JobLifecycle, TLC

Symmetry == Permutations(Thread)
=============================================================================
