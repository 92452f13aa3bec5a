---------------------------- MODULE JobLifecycle ----------------------------
(***************************************************************************)
(* The life of the jobs of one chain: the rows of the hub's Job table, the *)
(* two ways a job reaches its agent (a broker message, or a claim over     *)
(* HTTPS), the agent's executor with its per-account lock and heartbeat    *)
(* thread, and the hub's recovery of what got stuck.                       *)
(*                                                                         *)
(* A chain is a root job and the jobs created from it (source_job): one    *)
(* workflow, one action code, one game account.  Due times are not kept: a *)
(* message may arrive, and an overdue job may be dispatched again, at any  *)
(* moment.  Of the clock only the order is kept: which job started first,  *)
(* which lease runs out first.  Manual control is not in force (module     *)
(* ManualControl), so hold_job() lets every job start.                     *)
(***************************************************************************)
EXTENDS Naturals, FiniteSets

CONSTANTS
    MaxJobs,        \* bound: the rows the table has room for
    Thread,         \* the worker threads of the node's agent
    NoThread,
    Transport,      \* Node.transport: "redis" or "https"
    SafeRequeue,    \* the action code is in SAFE_REQUEUE_ACTIONS
    SpareRows,      \* bound: a runner goes on only while so many rows are left
    Result,         \* bound: what a runner may return, as the status it leads to
    MaxCopies,      \* bound: no redispatch while this many messages of a job wait
    MaxFaults,      \* bound: crashes, lost messages and network failures
    MaxActs,        \* bound: operator actions
    MaxBeats        \* bound: heartbeats that other steps may overtake

ASSUME ConstantsAssumption ==
    /\ MaxJobs \in Nat \ {0}
    /\ NoThread \notin Thread
    /\ Transport \in {"redis", "https"}
    /\ SafeRequeue \in BOOLEAN
    /\ Result \subseteq {"finished", "error"} /\ Result # {}
    /\ SpareRows \in Nat \ {0}
    /\ MaxCopies \in Nat \ {0}
    /\ MaxFaults \in Nat
    /\ MaxActs \in Nat
    /\ MaxBeats \in Nat

\* Rows are numbered as they are created.
Job == 1 .. MaxJobs
NoJob == 0

VARIABLES
    \* the Job table
    status, parent, trigger, patched, age, lease,
    began,      \* the jobs that had started when this one did, itself included
    older,      \* the jobs whose running lease runs out before this one's
    \* the broker: messages waiting for the agent, per job
    msgs,
    \* the agent: its threads, their heartbeats and the account's lock
    pc, job, outcome, followup, beating, lock,
    \* status reports the hub has checked and not yet saved
    inflight,
    \* history: jobs that may get a second follow-up, and why the chain may end
    tainted, stopped,
    \* counters of the bounds
    faults, acts, beats

clock == <<lease, began, older>>
table == <<status, parent, trigger, patched, age, clock>>
agent == <<pc, job, outcome, followup, beating, lock>>
history == <<tainted, stopped>>
bounds == <<faults, acts, beats>>
vars == <<table, msgs, agent, inflight, history, bounds>>

-----------------------------------------------------------------------------
Waiting == {"queued", "scheduled"}
ActiveStatus == Waiting \cup {"running"}
TerminalStatus == {"finished", "error", "cancelled"}

Active(j) == status[j] \in ActiveStatus
Terminal(j) == status[j] \in TerminalStatus
Free == {j \in Job : status[j] = "absent"}
NextRow == {c \in Free : \A k \in Free : c <= k}

Triggers == {"root", "agent_reschedule", "recovery_requeue", "operator"}
\* The jobs the agent and the recovery created to go on after j.
FollowUps(j) ==
    {c \in Job : parent[c] = j /\ trigger[c] \in {"agent_reschedule", "recovery_requeue"}}
HasActiveFollowUp(j) == \E c \in FollowUps(j) : Active(c)

Holding == {"starting", "running", "rescheduling", "retrying", "reporting", "closing"}

Report == [thread : Thread, job : Job, kind : {"start"}, status : {"running"}]
            \cup [thread : Thread, job : Job, kind : {"beat"}, status : {"running"}]
            \cup [thread : Thread, job : Job, kind : {"final"}, status : {"finished", "error"}]
ReportOf(t, kind, st) == [thread |-> t, job |-> job[t], kind |-> kind, status |-> st]
Sent(t, kind) == \E r \in inflight : r.thread = t /\ r.kind = kind

\* A failure of the environment uses one unit of the bound.
Fault == faults < MaxFaults /\ faults' = faults + 1 /\ UNCHANGED <<acts, beats>>
Act == acts < MaxActs /\ acts' = acts + 1 /\ UNCHANGED <<faults, beats>>

-----------------------------------------------------------------------------
(* The hub: rows and dispatch *)

\* create_job_with_workflow(): row c comes from src.
NewRow(c, src, trig, isPatched) ==
    /\ parent' = [parent EXCEPT ![c] = src]
    /\ trigger' = [trigger EXCEPT ![c] = trig]
    /\ patched' = [patched EXCEPT ![c] = isPatched]
    /\ age' = [age EXCEPT ![c] = "fresh"]
    /\ stopped' = FALSE

\* lease_expires_at of the jobs in S: cleared, or in the past.
EndLease(S, now) ==
    /\ lease' = [j \in Job |-> IF j \in S THEN now ELSE lease[j]]
    /\ older' = [j \in Job |-> IF j \in S THEN {} ELSE older[j] \ S]

\* dispatch_job(): a node over HTTPS gets nothing through the broker.
Dispatch(j, copies) ==
    msgs' = IF Transport = "redis" THEN [msgs EXCEPT ![j] = @ + copies] ELSE msgs

\* On commit (signals.py); a broker that does not take the message fails the request.
DispatchCreated(c) == Dispatch(c, 1) \/ (faults' = faults + 1 /\ UNCHANGED msgs)

\* The recent children _reschedule() takes for the same request.
Equivalent(j, isPatched) ==
    {c \in Job : /\ parent[c] = j
                 /\ trigger[c] = "agent_reschedule"
                 /\ age[c] = "fresh"
                 /\ patched[c] = isPatched}

\* RescheduleJobView._reschedule() of a job that has not ended.
RescheduleJob(j, isPatched) ==
    /\ ~Terminal(j)
    /\ \/ /\ Equivalent(j, isPatched) # {}
          /\ UNCHANGED <<table, msgs, stopped>>
       \/ /\ Equivalent(j, isPatched) = {}
          /\ \E c \in NextRow :
                /\ NewRow(c, j, "agent_reschedule", isPatched)
                /\ status' = [status EXCEPT ![c] = "scheduled",
                                            ![j] = IF @ = "scheduled" THEN "cancelled" ELSE @]
                /\ DispatchCreated(c)
                /\ UNCHANGED clock

Init ==
    /\ \E st \in Waiting : status = [j \in Job |-> IF j = 1 THEN st ELSE "absent"]
    /\ trigger = [j \in Job |-> IF j = 1 THEN "root" ELSE "none"]
    /\ msgs = [j \in Job |-> IF j = 1 /\ Transport = "redis" THEN 1 ELSE 0]
    /\ parent = [j \in Job |-> NoJob]
    /\ patched = [j \in Job |-> FALSE]
    /\ age = [j \in Job |-> "none"]
    /\ lease = [j \in Job |-> "none"]
    /\ began = [j \in Job |-> {}]
    /\ older = [j \in Job |-> {}]
    /\ pc = [t \in Thread |-> "idle"]
    /\ job = [t \in Thread |-> NoJob]
    /\ outcome = [t \in Thread |-> "none"]
    /\ followup = [t \in Thread |-> "none"]
    /\ beating = [t \in Thread |-> FALSE]
    /\ lock = NoThread
    /\ inflight = {}
    /\ tainted = {}
    /\ stopped = FALSE
    /\ faults = 0
    /\ acts = 0
    /\ beats = 0

-----------------------------------------------------------------------------
(* Operators of the web interface *)

\* JobCancelView: every active job of the chain.
JobCancel ==
    /\ Act
    /\ \E j \in Job : Active(j)
    /\ status' = [j \in Job |-> IF Active(j) THEN "cancelled" ELSE status[j]]
    /\ EndLease({j \in Job : Active(j)}, "none")
    /\ stopped' = TRUE
    /\ UNCHANGED <<parent, trigger, patched, age, began, msgs, agent, inflight, tainted>>

\* JobRunNowView, JobRetryView, JobRestartView, JobUnstuckView: the new row is
\* dispatched by the post_save signal and once more by the view.
OperatorJob(j, c, trig) ==
    /\ NewRow(c, j, trig, FALSE)
    /\ Dispatch(c, 2)
    /\ UNCHANGED <<agent, inflight>>

(* Mutant: the row is not looked at again under its lock. *)
RunNowUnchecked(j) ==
    /\ Act
    /\ status[j] # "absent"
    /\ \E c \in NextRow :
          /\ OperatorJob(j, c, "operator")
          /\ status' = [status EXCEPT ![j] = "cancelled", ![c] = "queued"]
    /\ UNCHANGED <<clock, tainted>>

JobRunNow(j) ==
    /\ Act
    /\ status[j] = "scheduled"
    /\ \E c \in NextRow :
          /\ OperatorJob(j, c, "operator")
          /\ status' = [status EXCEPT ![j] = "cancelled", ![c] = "queued"]
    /\ UNCHANGED <<clock, tainted>>

JobRetry(j) ==
    /\ Act
    /\ status[j] = "error"
    /\ \E c \in NextRow :
          /\ OperatorJob(j, c, "operator")
          /\ status' = [status EXCEPT ![c] = "queued"]
    /\ UNCHANGED <<clock, tainted>>

JobRestart(j) ==
    /\ Act
    /\ status[j] \in {"cancelled", "finished"}
    /\ \A k \in Job : ~Active(k)
    /\ \E c \in NextRow :
          /\ OperatorJob(j, c, "operator")
          /\ status' = [status EXCEPT ![c] = "queued"]
    /\ UNCHANGED <<clock, tainted>>

\* start_new_run=False: the new row stays in j's run, with its trigger_type; it
\* is created whether or not j already went on.
JobUnstuck(j) ==
    /\ Act
    /\ status[j] = "running" /\ lease[j] = "expired"
    /\ \E c \in NextRow :
          /\ OperatorJob(j, c, trigger[j])
          /\ status' = [status EXCEPT ![j] = "cancelled", ![c] = "scheduled"]
    /\ EndLease({j}, "none")
    /\ UNCHANGED began
    /\ tainted' = IF HasActiveFollowUp(j) THEN tainted \cup {j} ELSE tainted

-----------------------------------------------------------------------------
(* The hub's recovery, run by every node heartbeat *)

(* Mutants: a requeue that looks at no other job, a recovery that only cancels. *)
RequeueAlways(j) ==
    \E c \in NextRow :
        /\ NewRow(c, j, "recovery_requeue", FALSE)
        /\ status' = [status EXCEPT ![j] = "cancelled", ![c] = "scheduled"]
        /\ Dispatch(c, 1)
DropOrphan(j) ==
    /\ status' = [status EXCEPT ![j] = "cancelled"]
    /\ UNCHANGED <<parent, trigger, patched, age, msgs, stopped>>

\* recover_stale_running_jobs(), one job.
CancelOrphan(j) ==
    /\ \/ \E k \in Job \ {j} : Active(k)
       \/ \E c \in Job : /\ parent[c] = j
                         /\ trigger[c] = "agent_reschedule"
                         /\ age[c] \in {"fresh", "recent"}
    /\ status' = [status EXCEPT ![j] = "cancelled"]
    /\ UNCHANGED <<parent, trigger, patched, age, msgs, stopped>>

RequeueOrphan(j) ==
    /\ \A k \in Job \ {j} : ~Active(k)
    /\ \A c \in Job : parent[c] = j /\ trigger[c] = "agent_reschedule" => age[c] = "old"
    /\ \E c \in NextRow :
          /\ NewRow(c, j, "recovery_requeue", FALSE)
          /\ status' = [status EXCEPT ![j] = "cancelled", ![c] = "scheduled"]
          /\ Dispatch(c, 1)

FailOrphan(j) ==
    /\ status' = [status EXCEPT ![j] = "error"]
    /\ stopped' = TRUE
    /\ UNCHANGED <<parent, trigger, patched, age, msgs>>

Stale(j) == status[j] = "running" /\ lease[j] = "expired"

RecoverStaleRunningJob(j) ==
    /\ Stale(j)
    /\ \A k \in began[j] \ {j} : ~Stale(k)        \* order_by("started_at")
    /\ IF SafeRequeue THEN CancelOrphan(j) \/ RequeueOrphan(j) ELSE FailOrphan(j)
    /\ EndLease({j}, "none")
    /\ UNCHANGED <<began, agent, inflight, tainted, bounds>>

(* Mutant: only the queued jobs are dispatched again. *)
RecoverQueuedOnly(j) ==
    /\ Transport = "redis"
    /\ status[j] = "queued"
    /\ msgs[j] < MaxCopies
    /\ Dispatch(j, 1)
    /\ UNCHANGED <<table, agent, inflight, history, bounds>>

\* recover_stale_scheduled_jobs(), one job: dispatched again, nothing else changes.
RecoverStaleScheduledJob(j) ==
    /\ Transport = "redis"
    /\ status[j] \in Waiting
    /\ msgs[j] < MaxCopies
    /\ Dispatch(j, 1)
    /\ UNCHANGED <<table, agent, inflight, history, bounds>>

\* Time: a lease runs out.  The lease of a job some thread works on runs out only
\* when its reports do not reach the hub for that long (180 s); a report the hub
\* has read is saved sooner than that (the agent's timeout is 15 s).
LeaseExpires(j) ==
    /\ lease[j] = "live"
    /\ inflight = {}
    /\ older[j] = {}
    /\ EndLease({j}, "expired")
    /\ IF \E t \in Thread : pc[t] \in Holding /\ job[t] = j THEN Fault ELSE UNCHANGED bounds
    /\ UNCHANGED <<status, parent, trigger, patched, age, began, msgs, agent, inflight, history>>

\* A child is "fresh" for 120 s (_reschedule) and "recent" until 300 s (recovery):
\* looked at only while the job it continues is active.
ChildAges(c) ==
    /\ trigger[c] = "agent_reschedule" /\ parent[c] # NoJob
    /\ Active(parent[c])
    /\ age[c] \in {"fresh", "recent"}
    /\ age' = [age EXCEPT ![c] = IF @ = "fresh" THEN "recent" ELSE "old"]
    /\ UNCHANGED <<status, parent, trigger, patched, clock, msgs, agent, inflight, history, bounds>>

\* The broker restarts without its messages.
LoseMessages ==
    /\ Fault
    /\ \E j \in Job : msgs[j] > 0
    /\ msgs' = [j \in Job |-> 0]
    /\ UNCHANGED <<table, agent, inflight, history>>

-----------------------------------------------------------------------------
(* A job reaches the agent *)

Assign(t, j) ==
    /\ pc[t] = "idle"
    /\ \A r \in inflight : r.thread # t
    /\ pc' = [pc EXCEPT ![t] = "waiting"]
    /\ job' = [job EXCEPT ![t] = j]
    /\ UNCHANGED <<outcome, followup, beating, lock>>

(* Mutant: more deliveries than messages. *)
DeliverAgain(t, j) ==
    /\ msgs' = [msgs EXCEPT ![j] = @ - 1]
    /\ Assign(t, j)
    /\ UNCHANGED <<table, inflight, history, bounds>>

\* The Celery worker takes a message and starts execute_job(): acknowledged now.
Deliver(t, j) ==
    /\ msgs[j] > 0
    /\ msgs' = [msgs EXCEPT ![j] = @ - 1]
    /\ Assign(t, j)
    /\ UNCHANGED <<table, inflight, history, bounds>>

(* Mutant: a claimed job is never offered again. *)
ClaimableOnce(j) == Transport = "https" /\ status[j] \in Waiting /\ lease[j] = "none"

Claimable(j) == Transport = "https" /\ status[j] \in Waiting /\ lease[j] # "live"

\* JobClaimView.post() and the worker's pool.submit().
JobClaim(t, j) ==
    /\ Claimable(j)
    /\ lease' = [lease EXCEPT ![j] = "live"]
    /\ Assign(t, j)
    /\ UNCHANGED <<status, parent, trigger, patched, age, began, older, msgs, inflight,
                   history, bounds>>

\* The claim's answer does not arrive.
JobClaimLost(j) ==
    /\ Fault
    /\ Claimable(j)
    /\ lease' = [lease EXCEPT ![j] = "live"]
    /\ UNCHANGED <<status, parent, trigger, patched, age, began, older, msgs, agent, inflight,
                   history>>

-----------------------------------------------------------------------------
(* The agent: execute_job_payload() *)

SetPc(t, to) == pc' = [pc EXCEPT ![t] = to]

\* The payload's end, by return or by exception: the lock is released.
Leave(t) ==
    /\ SetPc(t, "idle")
    /\ lock' = NoThread
    /\ beating' = [beating EXCEPT ![t] = FALSE]
    /\ job' = [job EXCEPT ![t] = NoJob]
    /\ outcome' = [outcome EXCEPT ![t] = "none"]
    /\ followup' = [followup EXCEPT ![t] = "none"]

(* Mutant: the lock is not waited for. *)
StartUnlocked(t) ==
    /\ pc[t] = "waiting"
    /\ lock' = t
    /\ SetPc(t, "starting")
    /\ UNCHANGED <<table, msgs, job, outcome, followup, beating, inflight, history, bounds>>

AcquireLock(t) ==
    /\ pc[t] = "waiting" /\ lock = NoThread
    /\ lock' = t
    /\ SetPc(t, "starting")
    /\ UNCHANGED <<table, msgs, job, outcome, followup, beating, inflight, history, bounds>>

(* Mutant: no 409 for a job that ended. *)
ReadUnchecked(t, kind, st) ==
    /\ ~Sent(t, kind)
    /\ inflight' = inflight \cup {ReportOf(t, kind, st)}
    /\ UNCHANGED <<table, msgs, agent, history, faults, acts>>

\* JobStatusView.post() reads the row and checks it; the row is saved later,
\* without a lock or a transaction between the two.
ReadReport(t, kind, st) ==
    /\ ~Sent(t, kind)
    /\ ~Terminal(job[t])
    /\ inflight' = inflight \cup {ReportOf(t, kind, st)}
    /\ UNCHANGED <<table, msgs, agent, history, faults, acts>>

StartRead(t) == pc[t] = "starting" /\ ReadReport(t, "start", "running") /\ UNCHANGED beats

\* 409: somebody ended the job; it is skipped.
StartRefused(t) ==
    /\ pc[t] = "starting" /\ ~Sent(t, "start")
    /\ Terminal(job[t])
    /\ Leave(t)
    /\ UNCHANGED <<table, msgs, inflight, history, bounds>>

\* The request fails on the way there or back: the payload is dropped.
StartFails(t) ==
    /\ Fault
    /\ pc[t] = "starting"
    /\ Leave(t)
    /\ UNCHANGED <<table, msgs, inflight, history>>

(* Mutant: the lease is not set. *)
NoLease(j) ==
    /\ began' = IF began[j] = {} THEN [began EXCEPT ![j] = {k \in Job : began[k] # {}} \cup {j}]
                ELSE began
    /\ UNCHANGED <<lease, older>>

\* The lease is set again, and started_at if the job never started.
RenewLease(j) ==
    /\ lease' = [lease EXCEPT ![j] = "live"]
    /\ older' = [k \in Job |->
                   IF k = j THEN {i \in Job \ {j} : status[i] = "running" /\ lease[i] = "live"}
                            ELSE older[k] \ {j}]
    /\ began' = IF began[j] = {} THEN [began EXCEPT ![j] = {k \in Job : began[k] # {}} \cup {j}]
                ELSE began

\* job.save(): what the row says by now is not read again.
SaveRunning(r) ==
    /\ inflight' = inflight \ {r}
    /\ status' = [status EXCEPT ![r.job] = "running"]
    /\ RenewLease(r.job)
    /\ UNCHANGED <<parent, trigger, patched, age, msgs, stopped, bounds>>

\* A row brought back: it may go on twice, and so may the job it continues.
Revived(r) ==
    IF Terminal(r.job) THEN tainted \cup ({r.job, parent[r.job]} \ {NoJob}) ELSE tainted

StartSave(r) ==
    /\ r \in inflight /\ r.kind = "start"
    /\ SaveRunning(r)
    /\ \/ /\ pc[r.thread] = "starting"
          /\ SetPc(r.thread, "running")
          /\ beating' = [beating EXCEPT ![r.thread] = TRUE]
          /\ tainted' = IF HasActiveFollowUp(r.job) THEN Revived(r) \cup {r.job} ELSE Revived(r)
          /\ UNCHANGED <<job, outcome, followup, lock>>
       \/ /\ pc[r.thread] # "starting"
          /\ tainted' = Revived(r)
          /\ UNCHANGED agent

\* JobHeartbeatThread: the same report every 45 s, until it is refused.
BeatRead(t) ==
    /\ beating[t]
    /\ beats < MaxBeats /\ beats' = beats + 1
    /\ ReadReport(t, "beat", "running")

BeatRefused(t) ==
    /\ beating[t] /\ ~Sent(t, "beat")
    /\ Terminal(job[t])
    /\ beating' = [beating EXCEPT ![t] = FALSE]
    /\ UNCHANGED <<table, msgs, pc, job, outcome, followup, lock, inflight, history, bounds>>

BeatSave(r) ==
    /\ r \in inflight /\ r.kind = "beat"
    /\ SaveRunning(r)
    /\ tainted' = Revived(r)
    /\ UNCHANGED agent

\* What runner.execute() ends with.  Every way out stops the heartbeat thread; a
\* report of it that is already at the hub is still saved.
RunnerEnds(t, to, st) ==
    /\ pc[t] = "running"
    /\ SetPc(t, to)
    /\ outcome' = [outcome EXCEPT ![t] = st]
    /\ beating' = [beating EXCEPT ![t] = FALSE]
    /\ UNCHANGED <<table, msgs, job, followup, lock, inflight, tainted>>

\* result.reschedule_seconds; a runner that made its own follow-up returns none.
RunnerReschedules(t) ==
    /\ followup[t] = "none"
    /\ Cardinality(Free) >= SpareRows
    /\ \E st \in Result : RunnerEnds(t, "rescheduling", st)
    /\ UNCHANGED <<stopped, bounds>>

RunnerReturns(t) ==
    /\ \E st \in Result : RunnerEnds(t, "reporting", st)
    /\ stopped' = (stopped \/ (followup[t] = "none" /\ ~Terminal(job[t])))
    /\ UNCHANGED bounds

RunnerRaises(t) ==
    /\ RunnerEnds(t, "closing", "error")
    /\ stopped' = (stopped \/ (followup[t] = "none" /\ ~Terminal(job[t])))
    /\ UNCHANGED bounds

\* LoginCooldownActive, or a transient network error.
RunnerCoolsDown(t) ==
    /\ Cardinality(Free) >= SpareRows
    /\ RunnerEnds(t, "retrying", "finished")
    /\ UNCHANGED <<stopped, bounds>>

RunnerLosesNetwork(t) ==
    /\ Fault
    /\ RunnerEnds(t, "retrying", "error")
    /\ UNCHANGED stopped

\* A runner that reschedules its job itself and goes on (market, world_spy).
RunnerFollowsUp(t) ==
    /\ pc[t] = "running"
    /\ followup[t] = "none"
    /\ Cardinality(Free) >= SpareRows
    /\ UNCHANGED bounds
    /\ RescheduleJob(job[t], TRUE)
    /\ followup' = [followup EXCEPT ![t] = "own"]
    /\ UNCHANGED <<pc, job, outcome, beating, lock, inflight, tainted>>

\* hub.reschedule_job() of the executor: answered, answer lost, never sent, refused, failed.
Reschedule(t) ==
    /\ pc[t] = "rescheduling"
    /\ UNCHANGED bounds
    /\ \E isPatched \in BOOLEAN : RescheduleJob(job[t], isPatched)
    /\ SetPc(t, "reporting")
    /\ followup' = [followup EXCEPT ![t] = "executor"]
    /\ UNCHANGED <<job, outcome, beating, lock, inflight, tainted>>

RescheduleReplyLost(t) ==
    /\ Fault
    /\ pc[t] = "rescheduling"
    /\ \E isPatched \in BOOLEAN : RescheduleJob(job[t], isPatched)
    /\ SetPc(t, "retrying")
    /\ outcome' = [outcome EXCEPT ![t] = "error"]
    /\ tainted' = tainted \cup {job[t]}
    /\ UNCHANGED <<job, followup, beating, lock, inflight>>

RescheduleUnsent(t) ==
    /\ Fault
    /\ pc[t] = "rescheduling"
    /\ SetPc(t, "retrying")
    /\ outcome' = [outcome EXCEPT ![t] = "error"]
    /\ UNCHANGED <<table, msgs, job, followup, beating, lock, inflight, history>>

RescheduleRefused(t) ==
    /\ pc[t] = "rescheduling"
    /\ Terminal(job[t])
    /\ SetPc(t, "closing")
    /\ outcome' = [outcome EXCEPT ![t] = "error"]
    /\ UNCHANGED <<table, msgs, job, followup, beating, lock, inflight, history, bounds>>

\* Another error of the hub, with the follow-up created or not: reported as an error.
RescheduleFails(t) ==
    /\ Fault
    /\ pc[t] = "rescheduling"
    /\ \/ \E isPatched \in BOOLEAN : RescheduleJob(job[t], isPatched)
       \/ ~Terminal(job[t]) /\ stopped' = TRUE /\ UNCHANGED <<table, msgs>>
    /\ SetPc(t, "closing")
    /\ outcome' = [outcome EXCEPT ![t] = "error"]
    /\ UNCHANGED <<job, followup, beating, lock, inflight, tainted>>

\* The except branches: reschedule with the job's own inputs, then report; any
\* failure ends the payload and leaves the row to the recovery.
RetryTaint(t) ==
    tainted' = IF followup[t] = "own" THEN tainted \cup {job[t]} ELSE tainted

RetryReschedule(t) ==
    /\ pc[t] = "retrying"
    /\ UNCHANGED bounds
    /\ RescheduleJob(job[t], FALSE)
    /\ SetPc(t, "closing")
    /\ RetryTaint(t)
    /\ UNCHANGED <<job, outcome, followup, beating, lock, inflight>>

RetryReplyLost(t) ==
    /\ Fault
    /\ pc[t] = "retrying"
    /\ RescheduleJob(job[t], FALSE)
    /\ Leave(t)
    /\ RetryTaint(t)
    /\ UNCHANGED inflight

RetryUnsent(t) ==
    /\ Fault
    /\ pc[t] = "retrying"
    /\ Leave(t)
    /\ UNCHANGED <<table, msgs, inflight, history>>

RetryRefused(t) ==
    /\ pc[t] = "retrying"
    /\ Terminal(job[t])
    /\ Leave(t)
    /\ UNCHANGED <<table, msgs, inflight, history, bounds>>

\* The last report.
FinalRead(t) ==
    /\ pc[t] \in {"reporting", "closing"}
    /\ ReadReport(t, "final", outcome[t])
    /\ UNCHANGED beats

FinalRefused(t) ==
    /\ pc[t] \in {"reporting", "closing"} /\ ~Sent(t, "final")
    /\ Terminal(job[t])
    /\ Leave(t)
    /\ UNCHANGED <<table, msgs, inflight, history, bounds>>

FinalSave(r) ==
    /\ r \in inflight /\ r.kind = "final"
    /\ inflight' = inflight \ {r}
    /\ status' = [status EXCEPT ![r.job] = r.status]
    /\ EndLease({r.job}, "none")
    /\ IF pc[r.thread] \in {"reporting", "closing"} THEN Leave(r.thread) ELSE UNCHANGED agent
    /\ UNCHANGED <<parent, trigger, patched, age, began, msgs, history, bounds>>

\* A network failure of the last report: with the follow-up committed the job is
\* left as it is; without, it is rescheduled as after any network error.  Another error
\* of the hub: an error is reported instead.
FinalFails(t) ==
    /\ Fault
    /\ \/ /\ pc[t] = "reporting"
          /\ \/ followup[t] # "executor" /\ SetPc(t, "retrying")
             \/ SetPc(t, "closing")
          /\ outcome' = [outcome EXCEPT ![t] = "error"]
          /\ UNCHANGED <<job, followup, beating, lock>>
       \/ /\ pc[t] \in {"reporting", "closing"}
          /\ pc[t] = "reporting" => followup[t] = "executor"
          /\ Leave(t)
    /\ UNCHANGED <<table, msgs, inflight, history>>

\* The agent's process dies and starts again: its threads, their jobs and the
\* lock are gone; a report the hub has read is still saved.
Crash ==
    /\ Fault
    /\ pc' = [t \in Thread |-> "idle"]
    /\ beating' = [t \in Thread |-> FALSE]
    /\ lock' = NoThread
    /\ job' = [t \in Thread |-> NoJob]
    /\ outcome' = [t \in Thread |-> "none"]
    /\ followup' = [t \in Thread |-> "none"]
    /\ UNCHANGED <<table, msgs, inflight, history>>

-----------------------------------------------------------------------------
Operators ==
    \/ JobCancel
    \/ \E j \in Job : JobRunNow(j) \/ JobRetry(j) \/ JobRestart(j) \/ JobUnstuck(j)

Recovery(j) == RecoverStaleRunningJob(j) \/ RecoverStaleScheduledJob(j)
Arrival(t, j) == Deliver(t, j) \/ JobClaim(t, j)

RunnerStep(t) ==
    \/ RunnerReschedules(t) \/ RunnerReturns(t) \/ RunnerRaises(t) \/ RunnerCoolsDown(t)

\* What a thread does by itself when nothing fails.
ThreadStep(t) ==
    \/ StartRead(t) \/ StartRefused(t)
    \/ RunnerStep(t)
    \/ Reschedule(t) \/ RescheduleRefused(t)
    \/ RetryReschedule(t) \/ RetryRefused(t)
    \/ FinalRead(t) \/ FinalRefused(t)

ThreadFault(t) ==
    \/ StartFails(t) \/ RunnerLosesNetwork(t)
    \/ RescheduleReplyLost(t) \/ RescheduleUnsent(t) \/ RescheduleFails(t)
    \/ RetryReplyLost(t) \/ RetryUnsent(t) \/ FinalFails(t)

HubSave(r) == StartSave(r) \/ BeatSave(r) \/ FinalSave(r)

Next ==
    \/ Operators
    \/ \E j \in Job : Recovery(j) \/ LeaseExpires(j) \/ ChildAges(j) \/ JobClaimLost(j)
    \/ LoseMessages
    \/ \E t \in Thread, j \in Job : Arrival(t, j)
    \/ \E t \in Thread : AcquireLock(t) \/ BeatRead(t) \/ BeatRefused(t) \/ RunnerFollowsUp(t)
    \/ \E t \in Thread : ThreadStep(t) \/ ThreadFault(t)
    \/ \E r \in inflight : HubSave(r)
    \/ Crash

Spec == Init /\ [][Next]_vars

\* The worker takes what arrived, every payload goes on and ends, the hub saves
\* what it read, leases without heartbeats run out, and every node heartbeat
\* runs both recoveries.  Operators, failures, heartbeats of jobs and the
\* runners' own follow-ups are not owed.
Fairness ==
    /\ \A t \in Thread :
          /\ WF_vars(ThreadStep(t))
          /\ SF_vars(AcquireLock(t))
          /\ WF_vars(BeatRefused(t))
    /\ \A j \in Job :
          /\ SF_vars(\E t \in Thread : Arrival(t, j))
          /\ WF_vars(LeaseExpires(j))
          /\ WF_vars(RecoverStaleRunningJob(j))
          /\ WF_vars(RecoverStaleScheduledJob(j))
    /\ \A t \in Thread, kind \in {"start", "beat", "final"} :
          WF_vars(\E r \in inflight : r.thread = t /\ r.kind = kind /\ HubSave(r))

FairSpec == Spec /\ Fairness

-----------------------------------------------------------------------------
(* Properties *)

RowsOK ==
    /\ status \in [Job -> ActiveStatus \cup TerminalStatus \cup {"absent"}]
    /\ parent \in [Job -> Job \cup {NoJob}]
    /\ trigger \in [Job -> Triggers \cup {"none"}]
    /\ patched \in [Job -> BOOLEAN]
    /\ age \in [Job -> {"none", "fresh", "recent", "old"}]
    /\ msgs \in [Job -> Nat]

ClockOK ==
    /\ lease \in [Job -> {"none", "live", "expired"}]
    /\ began \in [Job -> SUBSET Job]
    /\ older \in [Job -> SUBSET Job]

AgentOK ==
    /\ pc \in [Thread -> Holding \cup {"idle", "waiting"}]
    /\ job \in [Thread -> Job \cup {NoJob}]
    /\ \A t \in Thread :
          /\ pc[t] # "idle" => job[t] \in Job
          /\ beating[t] => pc[t] = "running"
          /\ pc[t] \in Holding \ {"starting", "running"} => outcome[t] # "none"
    /\ outcome \in [Thread -> {"none", "finished", "error"}]
    /\ followup \in [Thread -> {"none", "own", "executor"}]
    /\ beating \in [Thread -> BOOLEAN]
    /\ lock \in Thread \cup {NoThread}

HistoryOK == tainted \subseteq Job /\ stopped \in BOOLEAN

BoundsOK ==
    /\ faults \in 0 .. MaxFaults
    /\ acts \in 0 .. MaxActs
    /\ beats \in 0 .. MaxBeats

TypeOK ==
    /\ RowsOK /\ ClockOK /\ AgentOK
    /\ inflight \subseteq Report
    /\ HistoryOK /\ BoundsOK

\* sessions.get_lock() around the whole payload: one job of the account at a time
\* is in the game, through crashes, refusals and exceptions.
OneRunnerPerAccount ==
    \A t, u \in Thread : pc[t] \in Holding /\ pc[u] \in Holding => t = u

\* _is_job_stale() never has to fall back on last_heartbeat_at or started_at: every
\* running row has the lease that its recovery waits for.
RunningHasLease == \A j \in Job : status[j] = "running" => lease[j] # "none"

\* The idempotency of _reschedule(), the terminal check it makes under the row's
\* lock, the guards of the recovery and the executor's followup_committed leave a
\* job at most one follow-up that is still to run, outside the named causes.
OneFollowUp ==
    \A j \in Job \ tainted :
        \A c, d \in FollowUps(j) : Active(c) /\ Active(d) => c = d

\* A chain of a SAFE_REQUEUE action survives one failure: until it ends by itself or
\* is cancelled, some job of it is active, whatever the recovery, the executor and one
\* crash, lost answer or lost message do.  A second failure can drop it: the recovery
\* takes any recent agent_reschedule child for the job's continuation, also one that it
\* has cancelled itself.
ChainGoesOn ==
    SafeRequeue /\ tainted = {} /\ faults <= 1 => stopped \/ \E j \in Job : Active(j)

\* A job that ended leaves its terminal status only by a "running" report whose
\* check was made before it ended.
EndedStaysEnded ==
    [][\A j \in Job :
          Terminal(j) /\ status'[j] # status[j]
            => \E r \in inflight : r.job = j]_vars

\* A copy of a job's message, a claim repeated after its lease, or the second
\* dispatch of an operator's job never runs the job twice: the executor's first
\* report is refused, unless a failure or an overtaken heartbeat left it running.
RunsOnce ==
    [][\A t \in Thread :
          faults = 0 /\ beats = 0 /\ pc[t] = "starting" /\ pc'[t] = "running"
            => began[job[t]] = {}]_vars

\* What the executor's comment ("evitando reschedule duplicado do job original") and
\* its test promise after a network failure: not kept when the follow-up is the runner's
\* own, or when only the answer of the reschedule is lost.
NotRescheduledTwice ==
    \A c, d \in Job :
        /\ parent[c] = parent[d] /\ parent[c] # NoJob
        /\ trigger[c] = "agent_reschedule" /\ trigger[d] = "agent_reschedule"
        /\ Active(c) /\ Active(d)
        => c = d

\* Every dispatched job ends: executed, refused, recovered or failed.
EveryJobEnds == \A j \in Job : Active(j) ~> ~Active(j)

=============================================================================
