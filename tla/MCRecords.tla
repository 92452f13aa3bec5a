----------------------------- MODULE MCRecords ------------------------------
(***************************************************************************)
(* What operators change while jobs run, for TLC: the status of a          *)
(* workflow, the steps of a construction plan and the agent of a node.     *)
(* They share no state: one of them is chosen at the start (record), and   *)
(* the others stay as they begin.                                          *)
(***************************************************************************)
EXTENDS WorkflowStatus, ConstructionPlan, AgentRollout, TLC

VARIABLE record

Init ==
    /\ record \in {"workflow", "plan", "rollout"}
    /\ WorkflowInit
    /\ PlanInit /\ (record # "plan" => \A b \in Building : asked[b] = MaxLevel)
    /\ RolloutInit /\ (record # "rollout" => node.platform)

Workflow == record = "workflow" /\ UNCHANGED <<record, planVars, rolloutVars>>
Plan == record = "plan" /\ UNCHANGED <<record, workflowVars, rolloutVars>>
Rollout == record = "rollout" /\ UNCHANGED <<record, workflowVars, planVars>>

\* The actions are listed again, so that a run's statistics tell them apart.
WorkflowMoves ==
    \/ \E j \in WorkflowJob :
        \/ Workflow /\ CommitCreate(j)
        \/ Workflow /\ Reconcile(j)
        \/ Workflow /\ StartWorkflowJob(j)
        \/ \E does \in {"reschedule", "spawn"} : Workflow /\ BeginCreate(j, does)
        \/ \E outcome \in {"finished", "error"} : Workflow /\ ReportEnd(j, outcome)
        \/ Workflow /\ ReconcileLost(j)
        \/ Workflow /\ RecoverWorkflowJob(j)
        \/ Workflow /\ RetryJob(j)
    \/ \E does \in {"pause", "resume", "cancel"} : Workflow /\ PressButton(does)
    \/ Workflow /\ SaveWorkflow
    \/ Workflow /\ PauseJobs
    \/ Workflow /\ CancelJobs
    \/ Workflow /\ ResumeJobs
    \/ Workflow /\ CancelChain

PlanMoves ==
    \/ \E j \in Cycle :
        \/ Plan /\ StartPlanCycle(j)
        \/ Plan /\ RecoverPlanCycle(j)
        \/ Plan /\ RunPlanNow(j)
        \/ Plan /\ UnstickPlan(j)
    \/ \E b \in Building :
        \/ Plan /\ BuildLevel(b)
        \/ Plan /\ StepRefused(b)
        \/ Plan /\ StepFoundDone(b)
    \/ Plan /\ CycleWaits
    \/ Plan /\ PlanComplete
    \/ Plan /\ SyncReservations
    \/ Plan /\ SyncFails
    \/ Plan /\ ReschedulePlan
    \/ Plan /\ EndPlanCycle
    \/ Plan /\ PlanFails
    \/ Plan /\ BuilderDies
    \/ \E b \in Building, to \in Level :
        \/ Plan /\ MergeReads(b, to)
        \/ \E j \in 1 .. NextCycle - 1 : Plan /\ CutReads(j, b, to)
    \/ Plan /\ CutSaves
    \/ Plan /\ MergeSaves
    \/ Plan /\ Reserve
    \/ Plan /\ CancelPlan

RolloutMoves ==
    \/ Rollout /\ RequestUpdate
    \/ Rollout /\ EndPlatformAgent
    \/ Rollout /\ JobsComeAndGo
    \/ Rollout /\ UpdateNext
    \/ Rollout /\ UpdateNextLost
    \/ Rollout /\ ReportUpdate
    \/ Rollout /\ ReportUpdateLost
    \/ Rollout /\ StopOld
    \/ Rollout /\ RenameOld
    \/ Rollout /\ CreateNew
    \/ Rollout /\ StartNew
    \/ Rollout /\ NewStays
    \/ Rollout /\ NewFails
    \/ Rollout /\ RemoveOld
    \/ Rollout /\ UndoNew
    \/ Rollout /\ RestoreOld
    \/ Rollout /\ RestartOld
    \/ Rollout /\ SupervisorDies
    \/ Rollout /\ ProvisionNext
    \/ Rollout /\ ProvisionNextLost
    \/ Rollout /\ CreatePlatformAgent
    \/ Rollout /\ RemovePlatformAgent

RecordsSpec ==
    Init /\ [][WorkflowMoves \/ PlanMoves \/ RolloutMoves]_<<record, workflowVars, planVars, rolloutVars>>

RecordsTypeOK ==
    CASE record = "workflow" -> WorkflowTypeOK
      [] record = "plan" -> PlanTypeOK
      [] record = "rollout" -> RolloutTypeOK

\* Buildings are interchangeable.
Symmetry == Permutations(Building)
=============================================================================
