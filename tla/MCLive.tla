------------------------------- MODULE MCLive -------------------------------
(***************************************************************************)
(* What must come to pass under manual control (Control) and in a campaign *)
(* of two targets that share one safehouse (Spies), for TLC.  A behaviour  *)
(* is of one subject, and the other's variables stay as they begin.        *)
(***************************************************************************)
EXTENDS Naturals

CONSTANTS t1, w1, x1, x2, h1, NoThread, Manual, NoRound, NoSource

VARIABLES
    subject, faults,
    \* ManualControl
    status, lease, msgs, held, session, expired, asked, answer, at, ses, todo, ready,
    rows, pc, job, lock, reqs, handlers, entries, dropped, unchecked, visits,
    \* CampaignMailbox
    row, ptr, runner, child, read, trouble

controlVars == <<status, lease, msgs, held, session, expired, asked, answer, at, ses, todo,
                 ready, rows, pc, job, lock, reqs, handlers, entries, dropped, unchecked, visits>>
spiesVars == <<row, ptr, runner, child, read, trouble>>

Control == INSTANCE ManualControl WITH
    Job <- {1}, MaxSessions <- 1, Thread <- {t1}, Worker <- {w1},
    Transport <- "https", MaxFaults <- 1, MaxVisits <- 0
Spies == INSTANCE CampaignMailbox WITH
    Campaign <- {1}, Target <- {x1, x2}, Safehouse <- {h1}, MaxRounds <- 5,
    Transport <- "redis", Repeats <- FALSE, MaxFaults <- 1

Init ==
    /\ subject \in {"control", "spies"}
    /\ Control!Init /\ Spies!CampaignInit

Next ==
    /\ UNCHANGED subject
    /\ \/ subject = "control" /\ Control!Next /\ UNCHANGED spiesVars
       \/ subject = "spies" /\ Spies!CampaignNext /\ UNCHANGED controlVars

LiveSpec == Init /\ [][Next]_<<subject, faults, controlVars, spiesVars>>

-----------------------------------------------------------------------------
(* Each property has the fairness its module states for a hypothesis. *)

\* Every waiting job starts or is cancelled.
EveryJobStarts == subject = "control" /\ Control!Fairness => Control!EveryJobStarts

\* Every session ends.
ControlGivenBack == subject = "control" /\ Control!Fairness => Control!ControlGivenBack

\* Every target is read in the end.
EveryTargetRead == subject = "spies" /\ Spies!CampaignFairness => Spies!EveryTargetRead
=============================================================================
