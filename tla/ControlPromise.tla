--------------------------- MODULE ControlPromise ---------------------------
(***************************************************************************)
(* What manual control promises of one game account, as the operator and   *)
(* the automation see it: the four states of control_state(), and whether  *)
(* a job of the account is being executed.  Control is granted only when   *)
(* no job is being executed, and no job starts before it is given back.    *)
(***************************************************************************)
VARIABLES state, working

promise == <<state, working>>

PInit == state = "automation" /\ working = FALSE

Move(from, to) == state \in from /\ state' = to /\ UNCHANGED working

Ask == Move({"automation"}, "pausing")
Grant == ~working /\ Move({"pausing"}, "manual")
GiveBack == Move({"pausing", "manual"}, "resuming")
Resume == Move({"resuming"}, "automation")

StartJob == ~working /\ state # "manual" /\ working' = TRUE /\ UNCHANGED state
StopJob == working /\ working' = FALSE /\ UNCHANGED state

PNext == Ask \/ Grant \/ GiveBack \/ Resume \/ StartJob \/ StopJob

Promised == PInit /\ [][PNext]_promise
=============================================================================
