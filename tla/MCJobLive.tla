------------------------------ MODULE MCJobLive ------------------------------
(***************************************************************************)
(* JobLifecycle's liveness for TLC, over either transport: a node with one *)
(* worker thread on the broker (Redis), or with two threads over HTTPS     *)
(* (Https).  A behaviour is of one of them (subject), and the other's      *)
(* variables stay as they begin.                                           *)
(***************************************************************************)
EXTENDS Naturals

CONSTANTS t1, t2, NoThread

VARIABLES
    subject, faults,
    status, parent, trigger, patched, age, lease, began, older,
    lock, inflight, tainted, stopped, acts, beats,
    msgs, pc, job, outcome, followup, beating,          \* of Redis
    hmsgs, hpc, hjob, houtcome, hfollowup, hbeating     \* of Https

table == <<status, parent, trigger, patched, age, lease, began, older,
           lock, inflight, tainted, stopped, acts, beats>>
redisVars == <<msgs, pc, job, outcome, followup, beating>>
httpsVars == <<hmsgs, hpc, hjob, houtcome, hfollowup, hbeating>>

Redis == INSTANCE JobLifecycle WITH
    Thread <- {t1}, Transport <- "redis", SafeRequeue <- TRUE,
    MaxJobs <- 3, SpareRows <- 2, Result <- {"finished"},
    MaxCopies <- 1, MaxFaults <- 1, MaxActs <- 0, MaxBeats <- 0
Https == INSTANCE JobLifecycle WITH
    Thread <- {t1, t2}, Transport <- "https", SafeRequeue <- FALSE,
    MaxJobs <- 3, SpareRows <- 2, Result <- {"finished"},
    MaxCopies <- 1, MaxFaults <- 1, MaxActs <- 0, MaxBeats <- 0,
    msgs <- hmsgs, pc <- hpc, job <- hjob, outcome <- houtcome,
    followup <- hfollowup, beating <- hbeating

Init == subject \in {"redis", "https"} /\ Redis!Init /\ Https!Init

Next ==
    /\ UNCHANGED subject
    /\ \/ subject = "redis" /\ Redis!Next /\ UNCHANGED httpsVars
       \/ subject = "https" /\ Https!Next /\ UNCHANGED redisVars

LiveSpec == Init /\ [][Next]_<<subject, faults, table, redisVars, httpsVars>>

\* Every dispatched job ends, over either transport; the fairness its module states is
\* the hypothesis.
EveryJobEnds ==
    /\ subject = "redis" /\ Redis!Fairness => Redis!EveryJobEnds
    /\ subject = "https" /\ Https!Fairness => Https!EveryJobEnds
=============================================================================
