--------------------------- MODULE MCManualControl ---------------------------
(* ManualControl for TLC: jobs are small numbers, threads and processes model values. *)
EXTENDS ManualControl, TLC

Symmetry == Permutations(Thread) \cup Permutations(Worker)

\* Bounds a run: where something fails and the operator's tab shows a sign of life too,
\* one thread or one process of the hub is left at work.
FailsOrVisited ==
    faults + visits > 1 =>
        Cardinality({t \in Thread : pc[t] # "idle"} \cup {p \in Worker : at[p] # "idle"}) <= 1
=============================================================================
