--------------------------- MODULE WorkflowStatus ----------------------------
(***************************************************************************)
(* One workflow: the status stored in its row and in the rows of its runs, *)
(* against the jobs that belong to it.  The status is written from four    *)
(* sides: a job that is created (create_job_with_workflow), a job's final  *)
(* report (reconcile_workflow_for_job), the operator's buttons             *)
(* (WorkflowActionView), and nothing else: JobCancelView and the recovery  *)
(* end jobs without it, and the receiver that should follow them           *)
(* (update_workflow_status_on_terminal) selects for update outside a       *)
(* transaction, which Django refuses on the production database.           *)
(*                                                                         *)
(* A creation reads the workflow when it begins and writes its status when *)
(* it commits; a button saves the workflow and then the jobs; a final      *)
(* report saves the job and then reconciles.  Jobs are numbered as they    *)
(* are created; one branch of the plan and its spawned children are kept.  *)
(***************************************************************************)
EXTENDS Naturals, FiniteSets, FiniteSetsExt

CONSTANTS
    MaxJobs,        \* bound: jobs of the workflow
    MaxEvents       \* bound: the operator's buttons, threads and hub processes that die

ASSUME WorkflowAssumption ==
    MaxJobs \in Nat \ {0} /\ MaxEvents \in Nat

WorkflowJob == 1 .. MaxJobs

VARIABLES
    workflow,       \* Workflow.status
    jobs,           \* the jobs: status, run, action of the plan, rank in which they ended
    runs,           \* WorkflowRun.status, by sequence
    call,           \* the request in flight of each job, and the status it has read
    button,         \* the operator's request in flight
    unsettled,      \* history: a job ended and nobody reconciled since
    events

workflowVars == <<workflow, jobs, runs, call, button, unsettled, events>>

Live == {"queued", "scheduled", "running"}
Ended == {"finished", "error", "cancelled"}
Over == {"finished", "cancelled", "problem"}
NoCall == [does |-> "none", paused |-> FALSE]
NoButton == [does |-> "none", saved |-> FALSE]
Unborn == [status |-> "none", run |-> 0, plan |-> FALSE, ended |-> 0]

Jobs == {j \in WorkflowJob : jobs[j].status # "none"}
With(statuses) == {j \in Jobs : jobs[j].status \in statuses}
NextJob == Cardinality(Jobs) + 1
NextRun == Cardinality({r \in WorkflowJob : runs[r] # "none"}) + 1
NextRank == Max({jobs[j].ended : j \in WorkflowJob}) + 1

\* A first job, queued by the user, in its run.
WorkflowInit ==
    /\ workflow = "active"
    /\ jobs = [j \in WorkflowJob |->
                IF j = 1 THEN [status |-> "queued", run |-> 1, plan |-> TRUE, ended |-> 0] ELSE Unborn]
    /\ runs = [r \in WorkflowJob |-> IF r = 1 THEN "scheduled" ELSE "none"]
    /\ call = [j \in WorkflowJob |-> NoCall]
    /\ button = NoButton
    /\ unsettled = FALSE
    /\ events = 0

Event == events < MaxEvents /\ events' = events + 1

-----------------------------------------------------------------------------
(* services/workflows.py *)

\* _workflow_status_from_job() and _run_status_from_job(), for the statuses a job is created with.
StatusFromJob(status) == IF status = "scheduled" THEN "waiting" ELSE "active"

\* _derive_run_status_from_jobs()
LastEnded(js, of) ==
    CHOOSE j \in js : \A k \in js : of[k].ended < of[j].ended \/ (of[k].ended = of[j].ended /\ k <= j)
DeriveRun(r) ==
    LET mine == {j \in Jobs : jobs[j].run = r}
        statuses == {jobs[j].status : j \in mine}
        last == jobs[LastEnded(mine, jobs)].status
    IN  IF "running" \in statuses THEN "running"
        ELSE IF statuses \cap {"queued", "scheduled"} # {} THEN "scheduled"
        ELSE IF last = "error" THEN "problem"
        ELSE IF statuses = {"cancelled"} THEN "cancelled"
        ELSE "finished"

(* Mutants: scheduled jobs are forgotten; a run that was cancelled or failed closes nothing. *)
DeriveSleepless(runsNow) ==
    LET latest == runsNow[NextRun - 1] IN
    IF With({"queued", "running"}) # {} THEN "active"
    ELSE IF workflow = "paused" THEN "paused"
    ELSE IF latest \in {"problem", "cancelled"} THEN latest
    ELSE "finished"
DeriveUnclosed(runsNow) ==
    IF With({"queued", "running"}) # {} THEN "active"
    ELSE IF With({"scheduled"}) # {} THEN "waiting"
    ELSE IF runsNow[NextRun - 1] \in {"problem", "cancelled"} THEN workflow
    ELSE "finished"

\* _derive_workflow_status_from_jobs(), after the run of the job has been written.
Derive(runsNow) ==
    LET latest == runsNow[NextRun - 1] IN
    IF With({"queued", "running"}) # {} THEN "active"
    ELSE IF With({"scheduled"}) # {} THEN "waiting"
    ELSE IF workflow = "paused" THEN "paused"
    ELSE IF latest \in {"problem", "cancelled"} THEN latest
    ELSE "finished"

\* What create_job_with_workflow() commits: the job, its run (a new one or its
\* source's), and the status, from the workflow as it was read.
Create(source, status, plan, newRun, readPaused, byUser) ==
    LET run == IF newRun THEN NextRun ELSE jobs[source].run IN
    /\ jobs' = [jobs EXCEPT ![NextJob] = [status |-> status, run |-> run, plan |-> plan, ended |-> 0]]
    /\ runs' = [runs EXCEPT ![run] = "scheduled"]
    /\ workflow' = IF readPaused /\ ~byUser THEN "paused" ELSE StatusFromJob(status)

\* queryset.update(): no signal, no reconcile.
CancelAll(statuses) ==
    jobs' = [j \in WorkflowJob |->
                IF j \in With(statuses) THEN [jobs[j] EXCEPT !.status = "cancelled", !.ended = NextRank]
                                        ELSE jobs[j]]

-----------------------------------------------------------------------------
(* The agent's jobs *)

StartWorkflowJob(j) ==
    /\ jobs[j].status \in {"queued", "scheduled"}
    /\ jobs' = [jobs EXCEPT ![j].status = "running"]
    /\ UNCHANGED <<workflow, runs, call, button, unsettled, events>>

\* RescheduleJobView and SpawnJobView: the workflow is read.
BeginCreate(j, does) ==
    /\ jobs[j].status = "running" /\ call[j] = NoCall
    /\ NextJob <= MaxJobs
    /\ call' = [call EXCEPT ![j] = [does |-> does, paused |-> workflow = "paused"]]
    /\ UNCHANGED <<workflow, jobs, runs, button, unsettled, events>>

CommitCreate(j) ==
    /\ call[j].does \in {"reschedule", "spawn"}
    /\ IF NextJob <= MaxJobs
         THEN /\ IF call[j].does = "reschedule"
                   THEN Create(j, "scheduled", jobs[j].plan, TRUE, call[j].paused, FALSE)
                   ELSE Create(j, "queued", FALSE, FALSE, call[j].paused, FALSE)
              /\ unsettled' = FALSE
         ELSE UNCHANGED <<workflow, jobs, runs, unsettled>>
    /\ call' = [call EXCEPT ![j] = NoCall]
    /\ UNCHANGED <<button, events>>

\* JobStatusView: the job is saved (a job that is over is refused), ...
ReportEnd(j, outcome) ==
    /\ jobs[j].status = "running" /\ call[j] = NoCall
    /\ jobs' = [jobs EXCEPT ![j].status = outcome, ![j].ended = NextRank]
    /\ call' = [call EXCEPT ![j] = [does |-> "report", paused |-> FALSE]]
    /\ unsettled' = TRUE
    /\ UNCHANGED <<workflow, runs, button, events>>

\* ... then reconcile_workflow_for_job(), with the workflow locked.
Reconcile(j) ==
    LET runsNow == [runs EXCEPT ![jobs[j].run] = DeriveRun(jobs[j].run)] IN
    /\ call[j].does = "report"
    /\ runs' = runsNow
    /\ workflow' = Derive(runsNow)
    /\ call' = [call EXCEPT ![j] = NoCall]
    /\ unsettled' = FALSE
    /\ UNCHANGED <<jobs, button, events>>

\* The hub's process dies between the two; the agent's retry is refused.
ReconcileLost(j) ==
    /\ call[j].does = "report"
    /\ Event
    /\ call' = [call EXCEPT ![j] = NoCall]
    /\ UNCHANGED <<workflow, jobs, runs, button, unsettled>>

\* recover_stale_running_jobs(), whose lease may have run out under an agent still at
\* work (a reschedule holds the row meanwhile): an error, cancelled when a follow-up
\* is there already, or a new job in place of a repeatable one.
RecoverWorkflowJob(j) ==
    /\ jobs[j].status = "running" /\ call[j].does # "reschedule"
    /\ Event
    /\ \/ /\ \E status \in {"error", "cancelled"} :
                /\ status = "cancelled" => Jobs # {j}
                /\ jobs' = [jobs EXCEPT ![j].status = status, ![j].ended = NextRank]
          /\ unsettled' = TRUE
          /\ UNCHANGED <<workflow, runs>>
       \/ /\ NextJob <= MaxJobs
          /\ LET run == NextRun IN
             /\ jobs' = [jobs EXCEPT ![j].status = "cancelled", ![j].ended = NextRank,
                                     ![NextJob] = [status |-> "scheduled", run |-> run,
                                                   plan |-> jobs[j].plan, ended |-> 0]]
             /\ runs' = [runs EXCEPT ![run] = "scheduled"]
             /\ workflow' = IF workflow = "paused" THEN "paused" ELSE "waiting"
          /\ unsettled' = FALSE
    /\ UNCHANGED <<call, button>>

-----------------------------------------------------------------------------
(* The operator *)

\* WorkflowActionView reads the workflow, ...
PressButton(does) ==
    /\ \/ does = "pause" /\ workflow \in {"active", "waiting"}
       \/ does = "resume" /\ workflow = "paused"
       \/ does = "cancel" /\ workflow \in {"active", "paused", "waiting", "problem"}
    /\ button = NoButton /\ Event
    /\ button' = [does |-> does, saved |-> FALSE]
    /\ UNCHANGED <<workflow, jobs, runs, call, unsettled>>

\* ... saves its new status, ...
SaveWorkflow ==
    /\ button.does \in {"pause", "resume", "cancel"} /\ ~button.saved
    /\ workflow' = CASE button.does = "pause" -> "paused"
                     [] button.does = "resume" -> "active"
                     [] OTHER -> "cancelled"
    /\ button' = [button EXCEPT !.saved = TRUE]
    /\ UNCHANGED <<jobs, runs, call, unsettled, events>>

\* ... and goes on with the jobs.  A reschedule holds its source's row meanwhile.
PauseJobs ==
    /\ button.does = "pause" /\ button.saved
    /\ CancelAll({"scheduled"})
    /\ button' = NoButton
    /\ unsettled' = TRUE
    /\ UNCHANGED <<workflow, runs, call, events>>

CancelJobs ==
    /\ button.does = "cancel" /\ button.saved
    /\ \A j \in Jobs : call[j].does # "reschedule"
    /\ CancelAll(Live)
    /\ button' = NoButton
    /\ unsettled' = TRUE
    /\ UNCHANGED <<workflow, runs, call, events>>

\* The plan's last job starts again, in its own run.
ResumeJobs ==
    /\ button.does = "resume" /\ button.saved
    /\ IF NextJob <= MaxJobs
         THEN /\ Create(Max({j \in Jobs : jobs[j].plan}), "scheduled", TRUE, FALSE, FALSE, TRUE)
              /\ unsettled' = FALSE
         ELSE unsettled' = TRUE /\ UNCHANGED <<workflow, jobs, runs>>
    /\ button' = NoButton
    /\ UNCHANGED <<call, events>>

\* JobRetryView: what the user starts sets the status, whatever it was.
RetryJob(j) ==
    /\ jobs[j].status = "error"
    /\ NextJob <= MaxJobs
    /\ Event
    /\ Create(j, "queued", jobs[j].plan, TRUE, FALSE, TRUE)
    /\ unsettled' = FALSE
    /\ UNCHANGED <<call, button>>

\* JobCancelView cancels the chain and leaves the workflow alone.
CancelChain ==
    /\ Event
    /\ With(Live) # {}
    /\ \A j \in Jobs : call[j].does # "reschedule"
    /\ CancelAll(Live)
    /\ unsettled' = TRUE
    /\ UNCHANGED <<workflow, runs, call, button>>

-----------------------------------------------------------------------------
WorkflowProgress ==
    \/ \E j \in WorkflowJob : CommitCreate(j) \/ Reconcile(j)
    \/ SaveWorkflow \/ PauseJobs \/ CancelJobs \/ ResumeJobs

WorkflowNext ==
    \/ WorkflowProgress
    \/ \E j \in WorkflowJob :
        \/ StartWorkflowJob(j)
        \/ \E does \in {"reschedule", "spawn"} : BeginCreate(j, does)
        \/ \E outcome \in {"finished", "error"} : ReportEnd(j, outcome)
        \/ ReconcileLost(j) \/ RecoverWorkflowJob(j) \/ RetryJob(j)
    \/ \E does \in {"pause", "resume", "cancel"} : PressButton(does)
    \/ CancelChain

WorkflowSpec == WorkflowInit /\ [][WorkflowNext]_workflowVars

-----------------------------------------------------------------------------
Calls == {"none", "reschedule", "spawn", "report"}
Buttons == {"none", "pause", "resume", "cancel"}
WorkflowStatusValue == {"active", "waiting", "paused"} \cup Over

WorkflowTypeOK ==
    /\ workflow \in WorkflowStatusValue
    /\ jobs \in [WorkflowJob -> [status : Live \cup Ended \cup {"none"}, run : 0 .. MaxJobs,
                                 plan : BOOLEAN, ended : 0 .. MaxJobs]]
    /\ runs \in [WorkflowJob -> {"none", "scheduled", "running"} \cup Over]
    /\ call \in [WorkflowJob -> [does : Calls, paused : BOOLEAN]]
    /\ button \in [does : Buttons, saved : BOOLEAN]
    /\ unsettled \in BOOLEAN
    /\ events \in 0 .. MaxEvents

Quiet == button = NoButton /\ \A j \in WorkflowJob : call[j] = NoCall

\* Once every request has ended, neither a workflow nor a run stored as over has a
\* job that is queued, scheduled or running: the unlocked writes of creations,
\* buttons and reports never leave live work behind a closed status.
NothingHidden ==
    Quiet =>
        /\ workflow \in Over => With(Live) = {}
        /\ \A j \in With(Live) : runs[jobs[j].run] \notin Over

\* What the user starts is queued at once; so is what a job spawns.
Starting == \E j \in WorkflowJob : jobs[j].status = "none" /\ jobs'[j].status = "queued"
Creating == \E j \in WorkflowJob : call[j].does \in {"reschedule", "spawn"}

\* tests_n135.py:1, "a paused workflow stays paused": only what the operator does
\* takes it out of the pause (a creation that read the status before the pause is
\* left aside).
PauseKept ==
    [][workflow = "paused" /\ workflow' # "paused" =>
            button # NoButton \/ Starting \/ Creating]_workflowVars

\* A workflow whose jobs are all over, the last one's end reconciled, is stored as over
\* (or paused) once every request has ended, whatever creations and buttons went on
\* beside the report.
StatusSettled ==
    Quiet /\ With(Live) = {} /\ ~unsettled => workflow \in Over \cup {"paused"}
=============================================================================
