# ikabot-web in TLA+

Models, model checks and proofs of the parts of ikabot-web that decide *whether a
job runs, how often, and who may play an account meanwhile*: the hub's job table and
recovery, the agent's executor, manual control; and of the parts that live on jobs:
espionage campaigns, workflows, construction plans, the internal market, and the
replacement of agents. Paths below are relative to the
repository root (`src/` here).

## 1. The system

ikabot-web has a **hub** (Django, MariaDB, Redis; `hub_v2`) and **agents**
(`agent_v2`), one per node. The hub keeps accounts and jobs. An agent executes the
jobs of its node in the game: it is given them through a Redis/Celery queue
(transport `redis`) or asks for them (transport `https`). A **supervisor** updates
agents' containers; a separate telemetry service collects statistics.

### Inventory

| Component | State it keeps | Operations | Interacts with | What is hard |
|---|---|---|---|---|
| Job table: `jobs/models.py`, `signals.py`, `services/workflows.py` (create) | status, lease, started_at, parent (`source_job_id`), trigger of the run | create and dispatch on commit | broker, operators, agent | dispatch after commit may fail |
| Agent API: `jobs/api/agent.py` | the same rows | status report, reschedule, spawn, retime, notify, reservations | executor, heartbeat thread | the report checks a row it saves later, unlocked; idempotency of reschedule |
| Claim: `jobs/api/transport.py` | claim lease (90 s) | claim due jobs | HTTPS worker | lost answers, leases shorter than waits |
| Recovery: `jobs/services/recovery.py` | - | recover stale running / stale waiting jobs, on every node heartbeat | all of the above | must go on with a chain exactly once |
| Operators' views: `jobs/views/jobs.py` | - | cancel, run now, retry, restart, unstuck, bulk actions, plan edits | rows an agent is executing | the agent is not told |
| Executor: `job_executor.py`, `tasks.py`, `celery_app.py`, `https_worker.py`, `sessions/session_manager.py` | threads, one lock per account, a heartbeat thread per job | execute a payload, report, reschedule | agent API, runners | timeouts after the hub committed, crashes, duplicate deliveries |
| Manual control, hub: `apps/manual_control` | session (pausing, active, resuming, ended), its lease, `HeldJob` rows | request, advance, touch, serve/forward, end, sweep, the gate `hold_job` | job reports, node heartbeats, the agent's service | many hub processes, no transaction around most of it |
| Manual control, agent: `services/manual_control.py` | open game sessions, a pool of 8 | open, request, close, drop idle | the account's lock | requests handled out of order |
| Campaigns: `NotifyParentView`, `services/campaigns.py`, `runners/world_spy.py`, `spy.py` | `current_runner_id` of the root, inboxes, claims in a round's inputs | ask targets, fallback, spawn, sync claims, notify, revive | job table, worldintel (busy targets and safehouses) | mailbox of a round that has started, lost replies, claims of dead children |
| Workflow status: `services/workflows.py`, `WorkflowActionView` | status of workflow and runs | create, reconcile, pause, resume, cancel, retry | job table | written from four sides, most without a lock |
| Construction plans: `runners/city.py`, `views/create.py`, `services/plan_edit.py` | plan and `__pending_patch` in the inputs, indices put aside, reservation rows | cycle, cut, merge, reschedule, synchronise, cancel | job table, preview | read-modify-write of inputs beside a running cycle |
| Reservation amounts, retiming, priorities | amounts per city and resource | refresh, arrival | transports | old readings over newer ones |
| Login cooldown, game sessions | `login_blocked_until`, back-off | record, clear | runners, proxy maintenance | back-off against a login that works |
| Internal market: `market/services.py`, `market/api.py`, `runners/market.py`, `runners/resources.py` | orders; their jobs 802, 801, 2 and the cleanup; the branch office's total in the game | place, publish, tell, buy a leg, monitor, redistribute, clean up, cancel, reconcile | job table, game | jobs that end without the order, totals read and written back |
| Generals bank | deposits | - | market | check then create |
| Supervisor: `supervisor_v1`; update and provision requests in `apps/accounts` | Docker containers; request rows | next, report, replace with rollback, create, remove | node, jobs of the node | a call that raises after it took effect, death in the middle |
| Proxy maintenance | proxies lent | probe, replace | nodes | death in the middle |
| Billing, organisations, Telegram, captcha, audit, pages, telemetry, game client and runners | their own tables | - | - | data rules, parsing, presentation |

Correctness, per component in scope: *jobs* - an account has one runner; a chain of
jobs is neither dropped nor doubled; what ended stays ended; every job ends. *Manual
control* - no job is executed while the operator plays; no held job is forgotten; the
account is given back. *Campaigns* - a campaign has one round to come, children can
always reach one, every target is read. *Workflows* - no live job behind a closed
status; a finished workflow is shown as such. *Plans* - what the operator changed is in
the next cycle; what is put aside was refused; resources are reserved once and released.
*Market* - an open order has a job that ends it; a completed one was bought and has
arrived; a cleanup leaves the others theirs. *Replacement* - never two agents of a node, never none after a
rollback that could work. `PROJECT.json` lists the hazards one by one, at their lines,
with the properties that watch them.

## 2. Modules

| Module | Models |
|---|---|
| `JobLifecycle` | one chain of jobs: rows, reports, reschedules, operators, recovery, both transports, the executor's threads |
| `MCJobLifecycle` | the above for TLC (symmetry of the threads) |
| `ControlPromise` | abstract: what manual control promises |
| `ManualControl` | the sessions of one account, the gate, the release, the agent's service; refines `ControlPromise` |
| `CampaignMailbox` | rounds, children, claims, notifications, fallbacks and revival of spy campaigns |
| `WorkflowStatus` | one workflow: stored status of workflow and runs against its jobs, with the operator's buttons |
| `ConstructionPlan` | cycles of one city's plan, cuts and merges of the operator, pending patches, reservations |
| `InternalMarket` | orders on one branch office: sell job, purchase legs, monitors, the redistribution with its parts and retries, cleanup |
| `AgentRollout` | agent of a node: update and provision requests, the supervisor and Docker |
| `MCManualControl` | `ManualControl` for TLC, with a state constraint |
| `MCJobLive`, `MCLive` | two instances each, for liveness (`INSTANCE ... WITH`) |
| `MCChains` | `CampaignMailbox` and `InternalMarket` for TLC |
| `MCRecords` | `WorkflowStatus`, `ConstructionPlan` and `AgentRollout` for TLC |
| `JobLifecycle_proofs`, `ManualControl_proofs`, `CampaignMailbox_proofs`, `WorkflowStatus_proofs`, `ConstructionPlan_proofs`, `InternalMarket_proofs`, `AgentRollout_proofs` | the theorems of each module and their proofs |
| `NumberLemmas` | least and greatest numbers, sums over finite sets: lemmas that several proofs cite |

`ManualControl` keeps of a job's life only what meets the gate; `JobLifecycle` assumes
no session is open. They share the start of a payload (`execute_job_payload`, lines
46-69) and `JobStatusView.post`. The five modules after them see a job as its status and
the calls of its runner: that a chain goes on once is `JobLifecycle`'s matter. They
share no state with one another in the code, except the job table; so `MCChains` and
`MCRecords` put several of them into one run, *one of them moving in a behaviour*: the
reachable states are the sum of the components', not the product.

### JobLifecycle

*Rows.* `status`, `parent` (`source_job_id`), `trigger` (the run's `trigger_type`),
`patched` (inputs differ from the parent's: all that the idempotency of
`_reschedule()` tells apart), `age` (younger than 120 s, than 300 s, older), `lease`
(none, live, expired). Rows are numbered as created. A chain is one workflow, action
and account, so "an active job of the same workflow and action" is "another active job".

*Time* is an order only. `began` says who started before whom (`order_by("started_at")`),
`older` whose running lease runs out first; due times are dropped: a message may arrive
and an overdue job may be dispatched at any moment.

*Reports are two steps.* `JobStatusView.post` reads the row, checks it, and saves it
later without lock or transaction: `ReadReport` puts a report into `inflight`,
`StartSave`, `BeatSave` and `FinalSave` save it whatever the row says by then. Refusals
(404/409) are steps of their own. `_reschedule()` locks the row and is one step.

*Executor.* `pc`: idle, waiting (for the account's lock), starting, running, then
rescheduling and reporting (the normal way out), retrying (the branches that reschedule
after a cooldown or a network error), closing (the last report after which nothing
follows). `followup` says whether the job was rescheduled by its runner (`market.py`,
`world_spy.py`, `spy.py` do) or by the executor. Every call to the hub may be answered,
refused, lost on the way there or lost on the way back; or fail otherwise in the hub, and then
the executor reports an error (`RescheduleFails`, `FinalFails`). A broker that does not
take the message of a new row fails the request that created it (`DispatchCreated`).

| Code | Actions |
|---|---|
| `execute_job_payload` | `AcquireLock`, `StartRead/Save/Refused/Fails`, `Runner*`, `Reschedule*`, `Retry*`, `Final*` |
| `JobHeartbeatThread.run` | `BeatRead`, `BeatSave`, `BeatRefused` |
| Celery worker, `JobClaimView`, `https_worker.run` | `Deliver`, `JobClaim`, `JobClaimLost` |
| `recover_stale_running_jobs`, `recover_stale_scheduled_jobs` | `RecoverStaleRunningJob` (`CancelOrphan`, `RequeueOrphan`, `FailOrphan`), `RecoverStaleScheduledJob` |
| the operators' views | `JobCancel`, `JobRunNow`, `JobRetry`, `JobRestart`, `JobUnstuck` |
| environment | `LeaseExpires`, `ChildAges`, `LoseMessages`, `Crash`, the `...Lost`, `...Unsent`, `...Fails` actions |

`tainted` and `stopped` are history: `tainted` names the jobs that may rightly get a
second follow-up (a lost answer, the runner's own follow-up, a row revived by an
overtaken report, the unstuck view), so that `OneFollowUp` states that there is *no
other* cause; `stopped` says that the chain ended by itself or was cancelled.

### ManualControl

A hub process is a place (`at`) and what it has read (`ses`, `todo`, `ready`, `rows`).
A job's first report is answered by a process named as its thread; sessions are ended,
swept and visited by `Worker` processes. Steps split where the code has no transaction:

* gate: `GateRead` (row) - `HoldJob` (open session, expiry) - `RememberHeld` or `Save`;
* `end()`: `EndBegins` (resuming, close sent) - `ListHeld` - per row `DispatchHeld` or
  `DispatchFails`, then `DeleteHeld` - `EndFinishes`; any number of processes at once, and
  `HubProcessDies` anywhere in between;
* `advance()`: `AdvanceOpens`, `AdvanceAnswered` (its transaction makes each one step);
  its error outcomes end the session: `CallsEnd`;
* gateway: `GatewayServes` (check) - `GatewayForwards` (request sent, later);
* agent: `TakeRequest` in order, then each handler on its own: `FindEntry`, `LockToOpen`,
  `OpenBusy`, `OpenDone`, `OpenRefused`, `CloseEntry`, `RequestDone`; `DropIdle`.

`held` is the `HeldJob` row of a job (unique per job, moved to a new session by
`hold_job`); `rows` remembers which listed row objects still exist, since
`item.delete()` deletes by key whichever session the row names by now.

### CampaignMailbox

`row` are the jobs of action 16 (rounds), `ptr` the root's `current_runner_id`, `runner`
the round an agent executes and what it has read, `child` the jobs of action 15 with the
notification each is sending. A row keeps the notifications of its inbox that nobody has
read (`inbox`) and those in the payload the broker already carries (`sent`): over HTTPS
the payload is made when the round is claimed. Rows that are over and that nothing names
any more serve again (`FreeRows`), so `MaxRounds` bounds what is named at a time and not
the length of a campaign.

| Code | Actions |
|---|---|
| `WorldSpyRunner.execute` | `StartRound`, `AskTargets`, `AskFails`, `Complete`, `CreateFallback`, `FallbackUnknown`, `FallbackRefused`, `GiveUp`, `Spawn`, `SpawnFails`, `SyncClaims`, `EndRound` |
| `SpyRunner` and its notification | `ChildWorks`, `NoticeLost`, `ChildEnds`, `ChildLost` |
| `NotifyParentView` (three requests to the database) | `NotifyReads`, `NotifyAppends`, `NotifyFindsItOver` |
| `revive_campaign` | `ReviveCampaign` (`ReviveWakes`, `ReviveCreates`) |
| recovery, operator | `RoundLost`, `RecoverRound`, `CancelRound` |

`trouble` is history: a fallback the agent does not know of, a cancelled round, a lost
round. A property that excludes one of them shows that it is the only cause.

### WorkflowStatus

A creation reads the workflow when it begins (`BeginCreate`) and writes the status when it
commits (`CommitCreate`); a button saves the workflow (`SaveWorkflow`) and then the jobs
(`PauseJobs`, `CancelJobs`, `ResumeJobs`); a final report saves the job (`ReportEnd`) and
then reconciles (`Reconcile`, `Derive`, `DeriveRun`). `RecoverWorkflowJob`, `RetryJob` and
`CancelChain` are the recovery and two job views, which run beside the calls of agents
(only a reschedule holds the row the recovery wants); what they end is not reconciled
(`unsettled`), because the signal receiver that should do so fails on the production
database (section 3, finding 9).

### ConstructionPlan

`level` is the game's truth. A job's `inputs` hold the goals, the index of each step, the
indices put aside and the pending patch; `sent` is the payload fixed at creation (Redis).
`builder` is the cycle the agent executes: `StartPlanCycle`, `BuildLevel`, `StepRefused`,
`StepFoundDone`, `CycleWaits`, `PlanComplete`, then `SyncReservations` or `SyncFails`,
`ReschedulePlan`, `EndPlanCycle`; or `PlanFails`, `BuilderDies`. The operator's requests
have a reading and a writing step (`CutReads`/`CutSaves`, `MergeReads`/`MergeSaves`, then
`Reserve`); `RunPlanNow`, `UnstickPlan`, `CancelPlan` and `RecoverPlanCycle` are one step.
`UnstickPlan` asks only whether the cycle is stuck, as `JobUnstuckView` does: one that has
rescheduled itself already gets a second follow-up (`planTrouble` names it "forked").
Of the reservation rows only *which jobs have active ones* is kept. `asked` is what the
operator was told the plan is; `planTrouble` names what went wrong on the way. A cut drops
a building when its new goal is not above a floor, the greater of the level the page
posted and the one the preview started from (`plan_edit.py:114`): both may be stale, so
`CutReads` takes any level the building has had.

### InternalMarket

`order` is the stored status; `sell`, `leg`, `haul`, `cleanup` its jobs with the place of
their runner; `office` the total on sale in the game. The runner of 802 reads the total
(`SellStarts`), writes the sum (`SellPosts`), tells the hub (`SellTells`, `CreateBuyJob`)
and reports. A leg buys what is there (`LegBuys`), leaves a monitor or finishes
(`LegMonitored`, `LegWaits`, `LegArrives`), runs out of gold or fails; a leg may wait also
after its purchase was submitted, and then buys again.

The goods of an order in `Hauled` go on in jobs of action 2, each a row of `haul`. The
first is `order.redistribution_job`; it may wait for ships (`HaulWaits`), send all or a
part (`HaulShips`), leave a monitor of what it sent (`HaulWatched`) and reschedule the rest
(`HaulGoesOn`), lose the network (`HaulLosesNetwork`) or fail. What it reschedules ("rest")
is neither `order.redistribution_job` nor a monitor. A monitor looks again (`HaulWaits`) or
sees the goods (`HaulArrives`, counted in `landed`).

Every final report goes through `reconcile_internal_order_for_job` (`SellReports`,
`LegReports`, `HaulReports`): the sell job's error and the first transport's fail the
order, a leg's end completes it or starts the redistribution, a monitor's end completes or
fails it, and the end of a "rest" is not heeded. `JobsEndUntold` is a chain cancelled from
the job list or ended by the recovery, whose agent is dead or only silent and still at
work; `HaulRecovered` is the recovery of a job 2, which it creates again. A report that
times out runs the job once more (`SellReportLost` and `SellAgain`, `LegReportLost`,
`HaulReportLost`). `severed` has the orders one of whose jobs ended without the market's
knowledge or ran twice.

### AgentRollout

`containers` is Docker, `updateRow` and `provision` the hub's request rows, `supervisor`
the place in `replace_agent()`. Each Docker call may raise before or after it took effect
(operator `Docker`), which leads to `UndoNew`, `RestoreOld`, `RestartOld`, and the rollback's
own calls may raise both ways too; requests may be lost on either way; the supervisor may die anywhere. `hurt` is history: which calls raised.

## 3. Runs

| Run | Instance | Distinct states | Shows |
|---|---|---|---|
| `JobRedis` | 3 rows, 2 threads, 1 failure, 1 operator action, error results | 1 874 786 | `TypeOK`, `OneRunnerPerAccount`, `RunningHasLease`, `OneFollowUp`, `ChainGoesOn`, `EndedStaysEnded`, `RunsOnce` |
| `JobHttps` | claims, 1 failure, 1 overtaken heartbeat | 1 380 741 | `OneFollowUp`, `ChainGoesOn` |
| `JobLive` | fair; Redis with 1 thread, HTTPS with 2 threads and an action without requeue; 3 rows + 2 spare, 1 failure | 73 953 | `EveryJobEnds` |
| `JobTwice` | 3 rows, 2 threads, 1 failure | violated | `NotRescheduledTwice` does not hold |
| `ControlSafe` | 1 session, 1 job, 2 threads, 1 failure, 1 visit of the tab | 2 541 762 | `ControlTypeOK`, `ControlExclusive`, `NobodyForgotten`, `KeepsPromise` (refinement) |
| `ControlSessions` | 2 sessions, 1 job, 1 thread | 1 996 402 | `NobodyForgotten`, `KeepsPromise` (refinement) |
| `ControlLeak` | 1 visit, no failure | violated | `NoJobWhileOpenHere` does not hold |
| `Live` | fair; control: 1 session, 1 job, HTTPS, 1 failure; campaign: 2 targets, 1 safehouse, 5 rounds, 1 failure | 202 962 | `EveryJobStarts`, `ControlGivenBack`, `EveryTargetRead` |
| `Chains` | campaign: 2 targets, 2 safehouses, 6 rounds, 1 failure; market: 2 plain orders of 2 units with 2 legs, or one redistributed with 3 legs and 4 transports or monitors, 1 mishap | 1 377 876 | `ChainsTypeOK`, `CampaignReachable`, `OneRoundToCome`, `CampaignAlive`, `NoSecondSpy`, `OrderAlive`, `CompletedBought`, `KeptOrdersKept` |
| `Records` | workflow: 3 jobs, 2 events; plan: 2 buildings, 2 levels, 3 cycles, 2 events; rollout: 3 updates, 3 failures | 1 720 864 | `RecordsTypeOK`, `NothingHidden`, `StatusSettled`, `ChangesKept`, `AsideIsRefused`, `ReservedOnce`, `ReservationsEnd`, `OneAgentRuns`, `RollbackServes`, `WithdrawnIsGone`, `SucceededRuns` |
| `CampaignLost` | campaign as in `Chains`, no failure | violated | `NoticesRead` does not hold |
| `MarketPromise` | one redistributed order, 2 legs, 4 transports or monitors, no mishap | violated | `RedistributionConfirmed` does not hold |

`CHECK_DEADLOCK FALSE` everywhere: a chain or an account whose jobs have all ended, with
the bounds used up, really stops.

**Bounds.** Three rows are a job, its follow-up, and a rival of the follow-up; two threads
are two deliveries of one job, or two jobs of the account; a single failure may be a
crash, a lost message, a lost request or a lost answer at any step, and each known hazard
needs one. `MaxCopies` limits only the recovery's redispatch to a job without a message,
`SpareRows` keeps the table from filling up: with no free row the creating actions are
disabled, so the *liveness* runs and `JobRedis` keep two rows spare. `MaxBeats` counts
heartbeats only in the runs where another step may overtake one; otherwise a heartbeat
shows only as the reason why a lease does not run out (`LeaseExpires` of a job in progress
is a failure). One job and two sessions, or one session and two threads, are what the
overlapping ends, the late holds and the redelivered messages need. With `MaxVisits` = 1 a
visit is one look that renews an expired lease or one forwarded request. `ControlSafe` has
the constraint `FailsOrVisited`: a behaviour with both a failure and a visit is followed
only while one thread or process at a time is at work; each of the two alone is followed
with all of them. `ControlSafe` and `ControlSessions` use Redis, where a message may be
lost or come twice; `Live` uses HTTPS (`JobClaim`), where a claim's lease runs out.
`ControlExclusive` over HTTPS and `OneRunnerPerAccount` with claims are not among the
runs: their theorems cover both transports.

Two targets and two safehouses give a campaign two children at once, whose notifications
meet; six rows are a running round, its fallback, the row a late notification has read, a
revived round and what a fork needs. Two orders on one branch office are an order that
fails and one that must keep its units, with a leg each. An order whose goods go on is
alone in its behaviour (`InTurn`, in `MCChains`): it shares nothing but the branch office
with others, and that ends with its purchase. Its three legs are a leg, its repetition and
a monitor (`LegsLeft` keeps two for the others); four jobs of the redistribution
(`MaxHauls`) are a first transport, the rest, a monitor, and a repetition of one of them.
Three jobs of a workflow are a job, its follow-up and what a resume or a retry adds; two
events are a button and a fault, or two buttons. Three cycles of a plan of two buildings
are a cycle, the one a page is stale about, and the next; two requests are a cut and a
merge. Three failures of a rollout are a raising call, a raising rollback and a death.
Symmetry is used for threads, processes, targets, safehouses and buildings, and never
where fairness is checked.

**Fairness** (`Fairness`, `CampaignFairness`). In `JobLive` and `Live` it is the
hypothesis of each property, since two instances share the run. Threads finish their payloads (the runners
have timeouts); a lock that is free again and again is acquired; the worker takes a
message that is there again and again, or the HTTPS worker polls (every few seconds);
the hub saves what it read; leases run out; the node's heartbeat comes again, and with
it both recoveries and `sweep_expired()` (`accounts/api/agent.py:187-210`;
`_should_run_stale_recovery` is always true). In a campaign, a round that runs goes on to
its end, a child finishes and tells, a waiting round is started, and a round whose agent
died is recovered; the fallback waits four hours, which is a finite time. Nothing is assumed of operators, of the
page that prepares a session, of the tab, or of failures. The organisation's plan is
taken as in order (`allows_work`).

**Disagreements found.** Numbers 1, 2, 3 and 7 have a run; for the others the property is stated
in the module, at the end, or the module says where it has the exception.

1. `JobTwice`: after a network failure the executor says that it avoids rescheduling the
   job twice (`job_executor.py:131-136`, and its test). It does so only when its own
   reschedule was answered: a follow-up the runner made, or a committed one whose answer
   was lost, is followed by a second one.
2. `ControlLeak`: the agent's `manual_control.py:15-16` says that no job runs or will
   start while a session is open there. A close handled before its open, or a request
   forwarded after the end, leaves a game session open for 45 minutes while jobs run.
3. `CampaignLost`: `NotifyParentView` says that both of two children are processed
   (`agent.py:1026`); a notification appended to a round that has started is never read.
   The campaign goes on at its fallback (`EveryTargetRead`).
4. `PauseKept` (`WorkflowStatus`): a paused workflow does not stay paused
   (`tests_n135.py:1`): the final report of a job that has rescheduled itself makes it
   waiting.
5. `OthersStaySupplied` (`InternalMarket`): a cleanup may take off sale what an order
   published since it was scheduled needs (`services.py:388-390`).
6. `AppendedStays` (`ConstructionPlan`): steps merged into a plan with a pending patch are
   lost at the next reschedule (`create.py:3738`).
7. `MarketPromise`: the hub closes an order "com redistribuição confirmada"
   (`services.py:627`) when the first monitor is reported finished: one that found the goods
   at sea and looks again later, or the monitor of a first part while the rest waits.
8. `RestoreOld` (`AgentRollout`): a rollback after a failed stop or rename renames the
   container to the name it has, is refused, and does not start it (`supervisor.py:162`).
9. `unsettled` (`WorkflowStatus`): the receiver that should close a workflow selects for
   update outside a transaction and fails silently (`signals.py:60-76`).
10. `OneSpyPerTarget` (`CampaignMailbox`): two campaigns that ask at the same time spy the
    same target (`worldintel/api/agent.py:493`).
11. `HandedOverGoesOn` (`InternalMarket`): a redistribution that waited for ships goes on in a
    retry whose end the hub does not heed (`services.py:616-624`); when the retry fails, the
    order stays "redistribuição em andamento" (line 488) with no job. For a purchase the
    pointer moves to the retry (lines 588-603). `OrderAlive` excepts these orders and shows
    that no other path strands one.

Two more came out of proofs that did not go through. No doc says otherwise, so they are
not listed as findings; the properties name them as exceptions.

* `JobUnstuckView` (`jobs/views/jobs.py:2930-2949`) does not look for a follow-up of the
  job it unsticks. A construction plan whose cycle hangs between its reschedule and its
  last report forks; `ChangesKept` and `ReservationsEnd` except "forked".
* The recovery takes any reschedule of the last five minutes for the continuation of a
  stale job, also one that is over by now (`jobs/services/recovery.py:119-124`). One
  failure cannot end a chain this way, two within five minutes can: `ChainGoesOn` says
  `faults <= 1`.

## 4. Proofs

Every module of the system has its theorems, proved for all values of the constants:
any number of rows, threads, sessions, campaigns, cycles or orders, both transports, and
any number of failures. The `MC` modules and the bounds of section 3 play no part in
them. They rest on the `ASSUME` of each module alone (`ConstantsAssumption`,
`ControlAssumption`, `CampaignAssumption`, `WorkflowAssumption`, `PlanAssumption`,
`RolloutAssumption`, `MarketAssumption`): bounds are natural numbers, sets are finite where
the code counts or lists them, and `NoThread` and the like are not members of the sets
they are told apart from. Two theorems, `NobodyUnasked` and `PlainPromiseKept`, have a
hypothesis of their own, that nothing fails (`MaxFaults = 0`).

| Module | Theorem | States |
|---|---|---|
| `JobLifecycle` | `TypeCorrect`, `OneRunner`, `LeaseOfRunning` | `[]TypeOK`, `[]OneRunnerPerAccount`, `[]RunningHasLease` |
| | `GoesOnOnce`, `ChainSurvives` | `[]OneFollowUp`, `[]ChainGoesOn` |
| | `OneOrphan` | without a failure no running job looks stale to the recovery, after one at most one does |
| | `EndedIsFinal`, `StartsOnce` | `EndedStaysEnded`, `RunsOnce` (action properties) |
| `ManualControl` | `ControlTypeCorrect`, `OperatorPlaysAlone`, `HeldJobsRemembered` | `[]ControlTypeOK`, `[]ControlExclusive`, `[]NobodyForgotten` |
| | `PromiseKept` | `KeepsPromise`: refinement of `ControlPromise`, through any failures |
| | `NobodyUnasked`, `PlainPromiseKept` | where `MaxFaults = 0`: `[](unchecked = {})`, and `ControlPromise` of every job |
| `CampaignMailbox` | `CampaignTypeCorrect`, `NotificationReaches`, `OneRoundScheduled`, `CampaignGoesOn`, `TargetsAreFree` | `[]CampaignTypeOK`, `[]CampaignReachable`, `[]OneRoundToCome`, `[]CampaignAlive`, `[]NoSecondSpy` |
| `WorkflowStatus` | `WorkflowTypeCorrect`, `NoLiveWorkHidden`, `StatusFollowsJobs` | `[]WorkflowTypeOK`, `[]NothingHidden`, `[]StatusSettled` |
| `ConstructionPlan` | `PlanTypeCorrect`, `ChangesAreKept`, `OnlyRefusedAside`, `PlanReservesOnce`, `NothingStaysReserved` | `[]PlanTypeOK`, `[]ChangesKept`, `[]AsideIsRefused`, `[]ReservedOnce`, `[]ReservationsEnd` |
| `InternalMarket` | `MarketTypeCorrect`, `CompletedWasBought`, `OpenOrdersGoOn` | `[]MarketTypeOK`, `[]CompletedBought`, `[]OrderAlive` |
| | `CleanupKeepsOthers` | `KeptOrdersKept` (action property) |
| `AgentRollout` | `RolloutTypeCorrect`, `NeverTwoAgents`, `FailedUpdateServes`, `WithdrawnLeavesNothing` | `[]RolloutTypeOK`, `[]OneAgentRuns`, `[]RollbackServes`, `[]WithdrawnIsGone` |
| | `DoneUpdateRuns` | `SucceededRuns` (action property) |

Hardly any of these properties is inductive by itself. What makes it so is the part of a
proof that says something about the code, and each strengthening was checked by TLC on
the instances of section 3 before it was proved.

### Jobs

`TypeOK` is inductive; it carries three facts that the steps need beyond the types: a
thread that is not idle has a job, a thread beats only while running, and one past
running has an outcome. *One runner*: `LockInv` adds that the lock belongs to the thread
inside a payload and to none else. Every way out frees it in the step that leaves, and
`AcquireLock` needs it free.

*One follow-up* (`FollowInv`): the danger is the executor that asks for a follow-up while
one exists. `Single(j)` adds that as long as a thread may still ask for the first time
(`MayFollowUp`: the job is at work and its thread knows of no follow-up) the job has none.
It needs `FollowupKnown` (what a thread knows at each place), `RowsLinked` (rows that do
not exist have no parent and no message) and `WorkOnRows`. Operators and recovery create a
follow-up only of jobs that are over or have none; the rest is what `tainted` names.

*Runs once* (`OnceInv`): while nothing has failed, a report at the hub is the one its thread
waits for, and a job that has started is at work in a thread past the lock, or over
(`StartedAtWork`). A second message then finds the lock taken or the row terminal.

*The chain goes on* (`ChainInv`): that some job is active is not inductive, for the active
one may be about to end. A `Carrier` is an active job that has not been rescheduled and is
not at its last report (`~Spent`). It stops being one when it is rescheduled (the new row
is a carrier), when its thread goes to its last report without a follow-up, by itself
(`stopped`) or after making one, or when the recovery gets it. The danger is one decision
there, `CancelOrphan`: the recovery takes another active job, or a reschedule of the last
five minutes, for the orphan's continuation and cancels the orphan without making a new
job; what it saw may be at its end, or over. So the invariant names the one job `v` that the
failure so far may have left alone (`Victim(v)`): every other job that is not over is `Tended`
(while it runs it has a live lease and a thread, and its reports are those its thread
waits for), there is a carrier, and while another job at work is spent there is a carrier
*other than* `v`. Then `v` may be cancelled, and no other job can be, since a tended job
is not stale. A second failure makes a second victim, and `ChainGoesOn` is false
after two. `BegunOK` says that a job past its start, at its end or rescheduled has left
the queue: a waiting job is a carrier. `OneOrphan` reads the same invariant for the
recovery. The hypothesis `SafeRequeue` of `ChainGoesOn` is not needed: without it an
orphan is failed, and the chain has ended by that (`stopped`).

### Manual control

*The operator plays alone* (`ExclusiveInv`): `Granted(s)` is a session the operator plays, or
will as soon as the page asks. `GateOK` says that a thread past the lock while a session
is granted has not passed the gate: it is on its way to be held, or its own process is
about to end that session, or its row was running before (`unchecked`, the
redelivery that the gate does not ask). This rests on the lock: a session becomes granted
only under it (`GrantedUnderLock`), so nobody was in between. The wait for running jobs
in `running_jobs()` is not used by the proof: it keeps the operator from waiting for the
lock, and exclusion would hold without it.

*Nobody is forgotten* (`RememberInv`): a job the gate turned away has a `HeldJob` row, a
message or a thread, unless a failure dropped its payload. Whoever deletes the row must
have sent a message that is still there. `MessagesOK` counts: a waiting job has as
many messages as there are processes that have sent it and not yet deleted its row.

*The promise* (`PromiseInv`): every step is a step of `ControlPromise` or a stutter, whatever
fails. `SessionSteps` maps the steps on sessions to `Ask`, `Grant`, `GiveBack`, `Resume`;
`ThreadSteps` maps the start of a job to `StartJob`, its end and the agent's crash to
`StopJob`, and shows that start reports given up and hub processes killed are stutters.
`Grant` and `StartJob` need `GateOK`, `Resume` needs `EndingOK` (who gives jobs back does so
for a session that is ending). The mapping takes a job for executed only if the gate was
asked for it: after a failure a redelivered message of a row that is still "running" starts
without passing the gate (`unchecked`), and nothing is promised about it, as
`ControlExclusive` says by name. That this is the only exception, and one for failures, is
`NobodyUnasked`: with `MaxFaults = 0` every report is that of a starting thread and every
running row that of a running thread (`NoFaultOK`), so nobody gets past the gate unasked;
and `PlainPromiseKept` then has the promise for every job of the account.

### Campaigns

`CampaignInv` is one invariant per campaign, so that a step of one is a step of that one and
leaves the others' (`UntouchedKeeps`). `PointerOK` is reachability; `OneOK` says that a round
that has still to ask for its follow-up has no other one to come; `AliveOK` that a round on
its way to its end has one, or nothing is left to read; `OutOK` ties children, targets
in a round's hands and the pointer to one another. The creation of a follow-up, with the
cancelling of the old fallback and the move of the pointer, is one lemma on its effect
(`Follows`), used for fallback, lost reply, revival and recovery alike.

### Workflows

`OpenOK` and `SettledOK` are the two properties without "every request has ended": they
hold at every moment, except between the two saves of a cancel or resume button. What the
stored status may be follows from `Derive` and the jobs it reads; `RanksOK` and
`NumbersOK` make sure that there is a last job to read.

### Plans

`FollowUpsOK` and `LeafOK` give the plan its shape: a cycle gets its follow-up while its
agent is between "rescheduling" and "ending", and a live cycle without a follow-up is the
newest. With that, `ChangesKept` is inductive, given that a pending patch is the plan
itself (`PatchOK`). `AsideOK` says that there is *one* numbering of the steps from which all
inputs, payloads and requests have their indices, as long as nothing was merged.
`ReservedOK` says when, during the last synchronisation, the rows may still be there.

### Market

`OrderOK` is one invariant per order: a leg counts no more than has arrived, a
redistribution begins only when all has, and a completed order whose goods go on has a
monitor that finished (`Counted`); nothing is bought before the offer is told (`SellAhead`);
one purchase runner is at work (`Alone`). `InLine`, which alone excepts severed orders, has
the rest: the live legs of an order are one, or one that ends and its child (`OneLine`); a leg
that ended while its runner works has no live leg beside it (`LateLeg`); the redistribution
comes last and, while the order is open, is carried on (`HaulLast`). `CarryOn` says by
whom: a live job of action 2 that is not a first one about to end well, for that one ends
nothing, or a retry that has ended (`HandedOver`), which is the exception of `OrderAlive`.
`CompletedBought` needs no exception. Actions are proved through few effects: `Moved`,
`Grown`, `Founded`, `Stopped` on the legs, `HaulAndChild` on the transports. For
`KeptOrdersKept` the sum of what the orders need is a fold over a set; that it is bounded,
and so a number at all, is `SumBounded`.

### Replacement

`ContainersOK` says what the host holds at every call of `replace_agent()` and of its
rollback, with the exceptions only where a failed call leaves the rollback nothing to
restore. `OneAgentRuns` and `WithdrawnIsGone` follow at once, `RollbackServes` and
`SucceededRuns` at the place "report".

### Numbers and sums

`NumberLemmas` proves that a set of natural numbers has a least member and a finite one a
greatest, and that a fold of `+` over a finite set is what its recursive definition says.
The library's induction theorems take an operator as a parameter and cannot be used, so
induction over the size of a set is done by a least counterexample (`SumExists`,
`SumBounded`).

### Only model-checked

* `EveryJobEnds`, `EveryJobStarts`, `ControlGivenBack`, `EveryTargetRead`: liveness; fairness
  and ENABLED are beyond the prover.
* `ChainsTypeOK` and `RecordsTypeOK` are conjunctions, in the `MC` modules, of the type
  invariants proved one by one.
* The properties that are violated: there TLC has the counterexample.

## 5. Not modelled

In `JobLifecycle`: `RetimeRootFollowupJobView`, bulk delete and archive; job inputs beyond
"differs"; a chain that spans two nodes; several agents on one node. In `ManualControl`: a
new login in the middle of a session, the tab's keys and cookies, proxy facts, the checks
before a session is created; a recovered job simply ends, its successor being another job.
In `CampaignMailbox`: raid alerts, mission choice and distances, the legacy notification
by reschedule, run now and unstuck of a round; a target that lacks no mission once those
of its player are counted is not skipped; the three attempts of a fallback count as one
request (the hub gives them one answer), while the executor's request after a fallback
whose answer was lost makes a second round, where the hub within 120 s and for the same
inputs would answer with the first: the model has more behaviours there. In
`WorkflowStatus`: the effective status that lists compute, the replacement of single loops
(`SINGLE_LOOP_ACTIONS`), workflow restart, bulk actions; the recovery and the retry read
the workflow and write it in one step. In `ConstructionPlan`: amounts of reservations and
their arrivals, transports and market purchases a plan starts, retiming, priorities,
several cities (a cycle treats one step of each city alike); a cut names a building, not
the page's index. In `InternalMarket`: gold, prices, matching, approvals, ships as
anything but "not yet" or "for a part", the generals bank; the copy of a sell job whose
report was lost runs once. In `AgentRollout`: version comparison, several agents on a
host, the installer.

One assumption about real time is made (`Early` in `ManualControl`): a process that hands
a held job back deletes its row before the message's 5 s eta passes, or dies. Without it a
job may be held again and its new hold deleted; it is then found by
`recover_stale_scheduled_jobs()`.

Most of the repository's lines have no state of their own over time and are left out for
that reason: HTML pages and forms, parsers of game pages, formatters, snapshots, reports,
telemetry, migrations, tests and translations. A model of them would be a transcription.
Components without a module are listed in `PROJECT.json` with the reason.

## 6. Plan

1. `JobLifecycle` with its runs and first theorems - done.
2. `ManualControl`, `ControlPromise` - modelled and checked.
3. `CampaignMailbox`, `WorkflowStatus`, `ConstructionPlan`, `InternalMarket`,
   `AgentRollout` - modelled and checked.
4. Theorems of all seven modules - done: every safety property of the runs is proved.
5. To model, as far as the runs have room: the login cooldown with proxy maintenance,
   reservation amounts, the captcha relay, single loops.

The order follows what a mistake costs: jobs lost or doubled first, an account played by
two at once second, campaigns, plans and orders that stop third.
