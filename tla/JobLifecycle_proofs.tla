------------------------ MODULE JobLifecycle_proofs ------------------------
(***************************************************************************)
(* Proofs about JobLifecycle, for every number of rows and threads, every  *)
(* transport and every value of the bounds.                                *)
(***************************************************************************)
EXTENDS JobLifecycle, TLAPS

USE DEF Waiting, ActiveStatus, TerminalStatus, Triggers

-----------------------------------------------------------------------------
(* What the helpers keep *)

\* create_job_with_workflow() and dispatch_job() leave a well-formed table.
LEMMA NewRowType ==
    ASSUME RowsOK, NEW c \in Job, NEW src \in Job, NEW trig \in Triggers \cup {"none"},
           NEW isPatched \in BOOLEAN, NewRow(c, src, trig, isPatched)
    PROVE  /\ parent' \in [Job -> Job \cup {NoJob}]
           /\ trigger' \in [Job -> Triggers \cup {"none"}]
           /\ patched' \in [Job -> BOOLEAN]
           /\ age' \in [Job -> {"none", "fresh", "recent", "old"}]
           /\ stopped' \in BOOLEAN
BY DEF RowsOK, NewRow

LEMMA DispatchType ==
    ASSUME RowsOK, NEW c \in Job, NEW n \in Nat, Dispatch(c, n)
    PROVE  msgs' \in [Job -> Nat]
BY DEF RowsOK, Dispatch

\* The rows of lease_expires_at stay well-formed when leases end or are set.
LEMMA EndLeaseType ==
    ASSUME ClockOK, NEW S \in SUBSET Job, NEW now \in {"none", "expired"},
           EndLease(S, now), UNCHANGED began
    PROVE  ClockOK'
BY DEF ClockOK, EndLease

LEMMA RenewLeaseType ==
    ASSUME ClockOK, NEW j \in Job, RenewLease(j)
    PROVE  ClockOK'
BY DEF ClockOK, RenewLease

\* _reschedule() keeps the table well-formed, whether it finds the child or makes it.
LEMMA RescheduleJobType ==
    ASSUME RowsOK, ClockOK, HistoryOK, NEW j \in Job, NEW isPatched \in BOOLEAN,
           RescheduleJob(j, isPatched)
    PROVE  RowsOK' /\ ClockOK' /\ stopped' \in BOOLEAN
<1>1. CASE UNCHANGED <<table, msgs, stopped>>
  BY <1>1 DEF RowsOK, ClockOK, HistoryOK, table, clock
<1>2. ASSUME NEW c \in NextRow,
             NewRow(c, j, "agent_reschedule", isPatched),
             status' = [status EXCEPT ![c] = "scheduled",
                                      ![j] = IF @ = "scheduled" THEN "cancelled" ELSE @],
             DispatchCreated(c),
             UNCHANGED clock
      PROVE  RowsOK' /\ ClockOK' /\ stopped' \in BOOLEAN
  <2>1. c \in Job
    BY DEF NextRow, Free
  <2>2. status' \in [Job -> ActiveStatus \cup TerminalStatus \cup {"absent"}]
    BY <1>2, <2>1 DEF RowsOK
  <2>3. ClockOK'
    BY <1>2 DEF ClockOK, clock
  <2>4. msgs' \in [Job -> Nat]
    BY <1>2, <2>1, DispatchType DEF DispatchCreated, RowsOK
  <2>5. "agent_reschedule" \in Triggers \cup {"none"}
    OBVIOUS
  <2>6. /\ parent' \in [Job -> Job \cup {NoJob}]
        /\ trigger' \in [Job -> Triggers \cup {"none"}]
        /\ patched' \in [Job -> BOOLEAN]
        /\ age' \in [Job -> {"none", "fresh", "recent", "old"}]
        /\ stopped' \in BOOLEAN
    BY <1>2, <2>1, <2>5, NewRowType, Zenon
  <2> QED
    BY <2>2, <2>3, <2>4, <2>6 DEF RowsOK
<1> QED
  BY <1>1, <1>2 DEF RescheduleJob

\* Leaving a payload frees the thread.
LEMMA LeaveType ==
    ASSUME AgentOK, NEW t \in Thread, Leave(t)
    PROVE  AgentOK'
BY DEF AgentOK, Leave, SetPc, Holding

\* A report carries the job of its thread.
LEMMA ReportOfType ==
    ASSUME NEW t \in Thread, NEW j \in Job, job[t] = j
    PROVE  /\ ReportOf(t, "start", "running") \in Report
           /\ ReportOf(t, "beat", "running") \in Report
           /\ \A st \in {"finished", "error"} : ReportOf(t, "final", st) \in Report
BY DEF ReportOf, Report

LEMMA ReportFields ==
    ASSUME inflight \subseteq Report, NEW r \in inflight
    PROVE  /\ r.thread \in Thread /\ r.job \in Job
           /\ r.kind = "final" => r.status \in {"finished", "error"}
BY DEF Report

-----------------------------------------------------------------------------
(* Type correctness *)

\* The initial rows, messages and threads have their types.
LEMMA TypeInit == Init => TypeOK
<1> SUFFICES ASSUME Init PROVE TypeOK
  OBVIOUS
<1>1. RowsOK
  BY DEF Init, RowsOK, NoJob
<1>2. ClockOK /\ inflight \subseteq Report
  BY DEF Init, ClockOK
<1>3. AgentOK
  BY DEF Init, AgentOK, Holding
<1>4. HistoryOK
  BY DEF Init, HistoryOK
<1>5. BoundsOK
  BY ConstantsAssumption DEF ConstantsAssumption, Init, BoundsOK
<1> QED
  BY <1>1, <1>2, <1>3, <1>4, <1>5 DEF TypeOK

\* Failures and operator actions are counted up to their bounds.
LEMMA FaultType == ASSUME BoundsOK, Fault PROVE BoundsOK'
BY ConstantsAssumption DEF ConstantsAssumption, BoundsOK, Fault

LEMMA ActType == ASSUME BoundsOK, Act PROVE BoundsOK'
BY ConstantsAssumption DEF ConstantsAssumption, BoundsOK, Act

\* The web interface's actions keep the types.
LEMMA OperatorsType == ASSUME TypeOK, Operators PROVE TypeOK'
<1> USE DEF TypeOK
<1>1. CASE JobCancel
  <2>1. RowsOK'
    BY <1>1 DEF JobCancel, RowsOK, Active
  <2>2. ClockOK'
    <3>1. {j \in Job : Active(j)} \in SUBSET Job
      OBVIOUS
    <3> QED
      BY <1>1, <3>1, EndLeaseType DEF JobCancel
  <2>3. AgentOK' /\ (inflight \subseteq Report)' /\ HistoryOK'
    BY <1>1 DEF JobCancel, AgentOK, HistoryOK, agent
  <2> QED
    BY <1>1, <2>1, <2>2, <2>3, ActType DEF JobCancel
<1>2. ASSUME NEW j \in Job, NEW c \in NextRow, NEW trig \in Triggers \cup {"none"}, NEW st \in ActiveStatus,
             Act, OperatorJob(j, c, trig),
             \/ status' = [status EXCEPT ![c] = st]
             \/ status' = [status EXCEPT ![j] = "cancelled", ![c] = st],
             ClockOK', tainted' \in SUBSET Job
      PROVE  TypeOK'
  <2>1. c \in Job
    BY DEF NextRow, Free
  <2>2. status' \in [Job -> ActiveStatus \cup TerminalStatus \cup {"absent"}]
    BY <1>2, <2>1 DEF RowsOK
  <2>3. RowsOK' /\ stopped' \in BOOLEAN
    BY <1>2, <2>1, <2>2, NewRowType, DispatchType DEF RowsOK, OperatorJob
  <2>4. AgentOK' /\ (inflight \subseteq Report)'
    BY <1>2 DEF OperatorJob, AgentOK, agent
  <2> QED
    BY <1>2, <2>3, <2>4, ActType DEF HistoryOK
<1>3. ASSUME NEW j \in Job, JobRunNow(j) \/ JobRetry(j) \/ JobRestart(j) PROVE TypeOK'
  <2>1. ClockOK' /\ tainted' \in SUBSET Job
    BY <1>3 DEF JobRunNow, JobRetry, JobRestart, ClockOK, clock, HistoryOK
  <2> QED
    BY <1>2, <1>3, <2>1 DEF JobRunNow, JobRetry, JobRestart
<1>4. ASSUME NEW j \in Job, JobUnstuck(j) PROVE TypeOK'
  <2>1. ClockOK'
    BY <1>4, EndLeaseType DEF JobUnstuck
  <2>2. tainted' \in SUBSET Job
    BY <1>4 DEF JobUnstuck, HistoryOK
  <2>3. trigger[j] \in Triggers \cup {"none"}
    BY <1>4 DEF JobUnstuck, RowsOK
  <2> QED
    BY <1>2, <1>4, <2>1, <2>2, <2>3 DEF JobUnstuck
<1> QED
  BY <1>1, <1>3, <1>4 DEF Operators

\* The recovery, the leases and the passing of time keep the types.
LEMMA HubType ==
    ASSUME TypeOK, NEW j \in Job,
           Recovery(j) \/ LeaseExpires(j) \/ ChildAges(j) \/ JobClaimLost(j) \/ LoseMessages
    PROVE  TypeOK'
<1> USE DEF TypeOK
<1>1. CASE RecoverStaleRunningJob(j)
  <2>1. ClockOK'
    BY <1>1, EndLeaseType DEF RecoverStaleRunningJob
  <2>2. AgentOK' /\ (inflight \subseteq Report)' /\ tainted' = tainted /\ BoundsOK'
    BY <1>1 DEF RecoverStaleRunningJob, AgentOK, agent, BoundsOK, bounds
  <2>3. CASE CancelOrphan(j) \/ FailOrphan(j)
    <3>1. RowsOK'
      BY <2>3 DEF CancelOrphan, FailOrphan, RowsOK
    <3>2. stopped' \in BOOLEAN
      BY <2>3 DEF CancelOrphan, FailOrphan, HistoryOK
    <3> QED
      BY <2>1, <2>2, <3>1, <3>2 DEF HistoryOK
  <2>4. CASE RequeueOrphan(j)
    <3>1. PICK c \in NextRow :
            /\ NewRow(c, j, "recovery_requeue", FALSE)
            /\ status' = [status EXCEPT ![j] = "cancelled", ![c] = "scheduled"]
            /\ Dispatch(c, 1)
      BY <2>4 DEF RequeueOrphan
    <3>2. c \in Job
      BY DEF NextRow, Free
    <3>3. status' \in [Job -> ActiveStatus \cup TerminalStatus \cup {"absent"}]
      BY <3>1, <3>2 DEF RowsOK
    <3>4. msgs' \in [Job -> Nat]
      BY <3>1, <3>2, DispatchType
    <3>5. RowsOK' /\ stopped' \in BOOLEAN
      BY <3>1, <3>2, <3>3, <3>4, NewRowType DEF RowsOK
    <3> QED
      BY <2>1, <2>2, <3>5 DEF HistoryOK
  <2> QED
    BY <1>1, <2>3, <2>4 DEF RecoverStaleRunningJob
<1>2. CASE RecoverStaleScheduledJob(j)
  <2>1. RowsOK' /\ ClockOK'
    BY <1>2, DispatchType DEF RecoverStaleScheduledJob, RowsOK, ClockOK, table, clock
  <2> QED
    BY <1>2, <2>1
       DEF RecoverStaleScheduledJob, AgentOK, agent, HistoryOK, history, BoundsOK, bounds
<1>3. CASE LeaseExpires(j)
  <2>1. ClockOK'
    BY <1>3, EndLeaseType DEF LeaseExpires
  <2>2. RowsOK' /\ AgentOK' /\ (inflight \subseteq Report)' /\ HistoryOK'
    BY <1>3 DEF LeaseExpires, RowsOK, AgentOK, agent, HistoryOK, history
  <2>3. BoundsOK'
    BY <1>3, FaultType DEF LeaseExpires, BoundsOK, bounds
  <2> QED
    BY <2>1, <2>2, <2>3
<1>4. CASE ChildAges(j)
  <2>1. RowsOK'
    BY <1>4 DEF ChildAges, RowsOK
  <2> QED
    BY <1>4, <2>1 DEF ChildAges, ClockOK, clock, AgentOK, agent, HistoryOK, history, BoundsOK, bounds
<1>5. CASE JobClaimLost(j)
  <2>1. ClockOK'
    BY <1>5 DEF JobClaimLost, ClockOK
  <2>2. RowsOK' /\ AgentOK' /\ (inflight \subseteq Report)' /\ HistoryOK'
    BY <1>5 DEF JobClaimLost, RowsOK, AgentOK, agent, HistoryOK, history
  <2> QED
    BY <1>5, <2>1, <2>2, FaultType DEF JobClaimLost
<1>6. CASE LoseMessages
  <2>1. RowsOK' /\ ClockOK'
    BY <1>6 DEF LoseMessages, RowsOK, ClockOK, table, clock
  <2>2. AgentOK' /\ (inflight \subseteq Report)' /\ HistoryOK'
    BY <1>6 DEF LoseMessages, AgentOK, agent, HistoryOK, history
  <2> QED
    BY <1>6, <2>1, <2>2, FaultType DEF LoseMessages
<1> QED
  BY <1>1, <1>2, <1>3, <1>4, <1>5, <1>6 DEF Recovery

\* A job that reaches a thread keeps the types.
LEMMA ArrivalType ==
    ASSUME TypeOK, NEW t \in Thread, NEW j \in Job, Arrival(t, j)
    PROVE  TypeOK'
<1> USE DEF TypeOK
<1>1. AgentOK'
  BY DEF Arrival, Deliver, JobClaim, Assign, AgentOK, Holding
<1>2. RowsOK' /\ ClockOK'
  BY DEF Arrival, Deliver, JobClaim, RowsOK, ClockOK, table, clock
<1>3. (inflight \subseteq Report)' /\ HistoryOK' /\ BoundsOK'
  BY DEF Arrival, Deliver, JobClaim, HistoryOK, history, BoundsOK, bounds
<1> QED
  BY <1>1, <1>2, <1>3

\* JobStatusView reads a report of a busy thread.
LEMMA ReadReportType ==
    ASSUME TypeOK, NEW t \in Thread, pc[t] # "idle",
           NEW kind, NEW st, ReadReport(t, kind, st),
           \/ kind \in {"start", "beat"} /\ st = "running"
           \/ kind = "final" /\ st \in {"finished", "error"},
           BoundsOK'
    PROVE  TypeOK'
<1>1. job[t] \in Job
  BY DEF TypeOK, AgentOK
<1>2. ReportOf(t, kind, st) \in Report
  BY <1>1, ReportOfType
<1>3. (inflight \subseteq Report)'
  BY <1>2 DEF ReadReport, TypeOK
<1>4. RowsOK' /\ ClockOK'
  BY DEF ReadReport, TypeOK, RowsOK, ClockOK, table, clock
<1>5. AgentOK' /\ HistoryOK'
  BY DEF ReadReport, TypeOK, AgentOK, agent, HistoryOK, history
<1> QED
  BY <1>3, <1>4, <1>5 DEF TypeOK

\* A thread that leaves its payload, or only changes its place in it, keeps the types.
LEMMA MoveType ==
    ASSUME TypeOK, UNCHANGED <<table, msgs, inflight, history>>, AgentOK', BoundsOK'
    PROVE  TypeOK'
<1>1. RowsOK' /\ ClockOK'
  BY DEF TypeOK, RowsOK, ClockOK, table, clock
<1>2. (inflight \subseteq Report)' /\ HistoryOK'
  BY DEF TypeOK, HistoryOK, history
<1> QED
  BY <1>1, <1>2 DEF TypeOK

\* The runner's end, whichever it is, keeps the thread well-formed.
LEMMA RunnerEndsType ==
    ASSUME AgentOK, NEW t \in Thread,
           NEW to \in {"rescheduling", "retrying", "reporting", "closing"},
           NEW st \in {"finished", "error"}, RunnerEnds(t, to, st)
    PROVE  AgentOK'
BY DEF AgentOK, RunnerEnds, SetPc, Holding

\* What a thread does by itself keeps the types.
LEMMA ThreadType ==
    ASSUME TypeOK, NEW t \in Thread,
           ThreadStep(t) \/ AcquireLock(t) \/ BeatRead(t) \/ BeatRefused(t) \/ RunnerFollowsUp(t)
    PROVE  TypeOK'
<1> USE DEF TypeOK
<1>1. CASE AcquireLock(t) \/ BeatRefused(t)
  <2>1. AgentOK'
    BY <1>1 DEF AcquireLock, BeatRefused, AgentOK, SetPc, Holding
  <2>2. UNCHANGED <<table, msgs, inflight, history>> /\ BoundsOK'
    BY <1>1 DEF AcquireLock, BeatRefused, BoundsOK, bounds
  <2> QED
    BY <2>1, <2>2, MoveType
<1>2. CASE StartRead(t)
  <2>1. BoundsOK'
    BY <1>2 DEF StartRead, ReadReport, BoundsOK
  <2> QED
    BY <1>2, <2>1, ReadReportType DEF StartRead
<1>3. CASE BeatRead(t)
  <2>1. pc[t] # "idle"
    BY <1>3 DEF BeatRead, AgentOK
  <2>2. BoundsOK'
    BY <1>3, ConstantsAssumption DEF ConstantsAssumption, BeatRead, ReadReport, BoundsOK
  <2> QED
    BY <1>3, <2>1, <2>2, ReadReportType DEF BeatRead
<1>4. CASE FinalRead(t)
  <2>1. pc[t] # "idle"
    BY <1>4 DEF FinalRead
  <2>2. BoundsOK'
    BY <1>4 DEF FinalRead, ReadReport, BoundsOK
  <2>3. outcome[t] \in {"finished", "error"}
    BY <1>4 DEF FinalRead, AgentOK, Holding
  <2> QED
    BY <1>4, <2>1, <2>2, <2>3, ReadReportType DEF FinalRead
<1>5. CASE StartRefused(t) \/ RetryRefused(t) \/ FinalRefused(t)
  <2>1. Leave(t) /\ UNCHANGED <<table, msgs, inflight, history>> /\ BoundsOK'
    BY <1>5 DEF StartRefused, RetryRefused, FinalRefused, BoundsOK, bounds
  <2> QED
    BY <2>1, LeaveType, MoveType
<1>6. CASE RunnerStep(t)
  <2>1. PICK to \in {"rescheduling", "retrying", "reporting", "closing"},
             st \in {"finished", "error"} : RunnerEnds(t, to, st)
    BY <1>6, ConstantsAssumption
       DEF ConstantsAssumption, RunnerStep, RunnerReschedules, RunnerReturns, RunnerRaises,
           RunnerCoolsDown
  <2>2. UNCHANGED <<table, msgs, inflight, tainted>> /\ BoundsOK'
    BY <1>6 DEF RunnerStep, RunnerReschedules, RunnerReturns, RunnerRaises, RunnerCoolsDown,
                RunnerEnds, BoundsOK, bounds
  <2>3. stopped' \in BOOLEAN
    BY <1>6 DEF RunnerStep, RunnerReschedules, RunnerReturns, RunnerRaises, RunnerCoolsDown,
                HistoryOK
  <2>4. AgentOK'
    BY <2>1, RunnerEndsType
  <2> QED
    BY <2>2, <2>3, <2>4 DEF RowsOK, ClockOK, HistoryOK, table, clock
<1>7. CASE RunnerFollowsUp(t)
  <2>1. job[t] \in Job
    BY <1>7 DEF RunnerFollowsUp, AgentOK
  <2>2. RowsOK' /\ ClockOK' /\ stopped' \in BOOLEAN
    BY <1>7, <2>1, RescheduleJobType DEF RunnerFollowsUp
  <2>3. AgentOK'
    BY <1>7 DEF RunnerFollowsUp, AgentOK, Holding
  <2> QED
    BY <1>7, <2>2, <2>3 DEF RunnerFollowsUp, HistoryOK, BoundsOK, bounds
<1>8. CASE Reschedule(t)
  <2>1. job[t] \in Job
    BY <1>8 DEF Reschedule, AgentOK
  <2>2. RowsOK' /\ ClockOK' /\ stopped' \in BOOLEAN
    BY <1>8, <2>1, RescheduleJobType DEF Reschedule
  <2>3. AgentOK'
    BY <1>8 DEF Reschedule, SetPc, AgentOK, Holding
  <2> QED
    BY <1>8, <2>2, <2>3 DEF Reschedule, HistoryOK, BoundsOK, bounds
<1>9. CASE RetryReschedule(t)
  <2>1. job[t] \in Job
    BY <1>9 DEF RetryReschedule, AgentOK
  <2>2. RowsOK' /\ ClockOK' /\ stopped' \in BOOLEAN
    BY <1>9, <2>1, RescheduleJobType DEF RetryReschedule
  <2>3. AgentOK'
    BY <1>9 DEF RetryReschedule, SetPc, AgentOK, Holding
  <2>4. tainted' \subseteq Job
    BY <1>9, <2>1 DEF RetryReschedule, RetryTaint, HistoryOK
  <2> QED
    BY <1>9, <2>2, <2>3, <2>4 DEF RetryReschedule, HistoryOK, BoundsOK, bounds
<1>10. CASE RescheduleRefused(t)
  <2>1. AgentOK'
    BY <1>10 DEF RescheduleRefused, SetPc, AgentOK, Holding
  <2>2. UNCHANGED <<table, msgs, inflight, history>> /\ BoundsOK'
    BY <1>10 DEF RescheduleRefused, BoundsOK, bounds
  <2> QED
    BY <2>1, <2>2, MoveType
<1> QED
  BY <1>1, <1>2, <1>3, <1>4, <1>5, <1>6, <1>7, <1>8, <1>9, <1>10 DEF ThreadStep

\* What goes wrong for a thread, and a crash of the agent, keep the types.
LEMMA FaultsType ==
    ASSUME TypeOK, (\E t \in Thread : ThreadFault(t)) \/ Crash
    PROVE  TypeOK'
<1> USE DEF TypeOK
<1>1. CASE Crash
  <2>1. AgentOK'
    BY <1>1 DEF Crash, AgentOK, Holding
  <2> QED
    BY <1>1, <2>1, FaultType, MoveType DEF Crash
<1>2. ASSUME NEW t \in Thread, StartFails(t) \/ RetryUnsent(t) PROVE TypeOK'
  BY <1>2, LeaveType, FaultType, MoveType DEF StartFails, RetryUnsent
<1>3. ASSUME NEW t \in Thread, FinalFails(t) \/ RescheduleUnsent(t) PROVE TypeOK'
  <2>1. CASE Leave(t)
    BY <1>3, <2>1, LeaveType, FaultType, MoveType DEF FinalFails, RescheduleUnsent
  <2>2. CASE ~Leave(t)
    <3>1. AgentOK'
      BY <1>3, <2>2 DEF FinalFails, RescheduleUnsent, SetPc, AgentOK, Holding
    <3> QED
      BY <1>3, <3>1, FaultType, MoveType DEF FinalFails, RescheduleUnsent
  <2> QED
    BY <2>1, <2>2
<1>4. ASSUME NEW t \in Thread, RunnerLosesNetwork(t) PROVE TypeOK'
  <2>1. AgentOK'
    BY <1>4, RunnerEndsType DEF RunnerLosesNetwork
  <2> QED
    BY <1>4, <2>1, FaultType, MoveType DEF RunnerLosesNetwork, RunnerEnds, history
<1>5. ASSUME NEW t \in Thread, RescheduleReplyLost(t) \/ RescheduleFails(t) PROVE TypeOK'
  <2>1. job[t] \in Job
    BY <1>5 DEF RescheduleReplyLost, RescheduleFails, AgentOK
  <2>2. RowsOK' /\ ClockOK' /\ stopped' \in BOOLEAN
    <3>1. CASE UNCHANGED <<table, msgs>> /\ stopped' = TRUE
      BY <3>1 DEF RowsOK, ClockOK, table, clock
    <3> QED
      BY <1>5, <2>1, <3>1, RescheduleJobType DEF RescheduleReplyLost, RescheduleFails
  <2>3. AgentOK'
    BY <1>5 DEF RescheduleReplyLost, RescheduleFails, SetPc, AgentOK, Holding
  <2> QED
    BY <1>5, <2>1, <2>2, <2>3, FaultType DEF RescheduleReplyLost, RescheduleFails, HistoryOK
<1>6. ASSUME NEW t \in Thread, RetryReplyLost(t) PROVE TypeOK'
  <2>1. job[t] \in Job
    BY <1>6 DEF RetryReplyLost, AgentOK
  <2>2. RowsOK' /\ ClockOK' /\ stopped' \in BOOLEAN
    BY <1>6, <2>1, RescheduleJobType DEF RetryReplyLost
  <2>3. tainted' \subseteq Job
    BY <1>6, <2>1 DEF RetryReplyLost, RetryTaint, HistoryOK
  <2> QED
    BY <1>6, <2>2, <2>3, LeaveType, FaultType DEF RetryReplyLost, HistoryOK
<1> QED
  BY <1>1, <1>2, <1>3, <1>4, <1>5, <1>6 DEF ThreadFault

\* The save of a report keeps the types.
LEMMA HubSaveType ==
    ASSUME TypeOK, NEW r \in inflight, HubSave(r)
    PROVE  TypeOK'
<1> USE DEF TypeOK
<1>1. r.thread \in Thread /\ r.job \in Job
  BY ReportFields
<1>2. Revived(r) \subseteq Job
  BY <1>1 DEF Revived, HistoryOK, RowsOK
<1>3. CASE StartSave(r) \/ BeatSave(r)
  <2>1. SaveRunning(r)
    BY <1>3 DEF StartSave, BeatSave
  <2>2. RowsOK' /\ (inflight \subseteq Report)' /\ BoundsOK' /\ stopped' = stopped
    BY <1>1, <2>1 DEF SaveRunning, RowsOK, BoundsOK, bounds
  <2>3. ClockOK'
    BY <1>1, <2>1, RenewLeaseType DEF SaveRunning
  <2>4. AgentOK'
    BY <1>1, <1>3, ZenonT(40) DEF StartSave, BeatSave, SetPc, AgentOK, agent, Holding
  <2>5. tainted' \subseteq Job
    BY <1>1, <1>2, <1>3 DEF StartSave, BeatSave
  <2> QED
    BY <2>2, <2>3, <2>4, <2>5 DEF HistoryOK
<1>4. CASE FinalSave(r)
  <2>1. RowsOK'
    BY <1>1, <1>4, ReportFields DEF FinalSave, RowsOK
  <2>2. ClockOK'
    BY <1>1, <1>4, EndLeaseType DEF FinalSave
  <2>3. AgentOK'
    BY <1>1, <1>4, LeaveType DEF FinalSave, AgentOK, agent
  <2>4. (inflight \subseteq Report)' /\ HistoryOK' /\ BoundsOK'
    BY <1>4 DEF FinalSave, HistoryOK, history, BoundsOK, bounds
  <2> QED
    BY <2>1, <2>2, <2>3, <2>4
<1> QED
  BY <1>3, <1>4 DEF HubSave

\* Every step keeps the types.
LEMMA TypeNext == TypeOK /\ [Next]_vars => TypeOK'
<1> SUFFICES ASSUME TypeOK, [Next]_vars PROVE TypeOK'
  OBVIOUS
<1>1. CASE Next
  <2>1. CASE \/ LoseMessages
             \/ \E j \in Job : Recovery(j) \/ LeaseExpires(j) \/ ChildAges(j) \/ JobClaimLost(j)
    <3>1. 1 \in Job
      BY ConstantsAssumption DEF ConstantsAssumption, Job
    <3> QED
      BY <2>1, <3>1, HubType
  <2>2. CASE \E t \in Thread, j \in Job : Arrival(t, j)
    BY <2>2, ArrivalType
  <2>3. ASSUME NEW t \in Thread,
               \/ AcquireLock(t) \/ BeatRead(t) \/ BeatRefused(t) \/ RunnerFollowsUp(t)
               \/ ThreadStep(t)
        PROVE  TypeOK'
    BY <2>3, ThreadType
  <2> QED
    BY <1>1, <2>1, <2>2, <2>3, OperatorsType, FaultsType, HubSaveType DEF Next
<1>2. CASE UNCHANGED vars
  <2>1. UNCHANGED <<table, msgs, inflight, history>>
    BY <1>2 DEF vars
  <2>2. AgentOK' /\ BoundsOK'
    BY <1>2 DEF vars, TypeOK, AgentOK, agent, BoundsOK, bounds
  <2> QED
    BY <2>1, <2>2, MoveType
<1> QED
  BY <1>1, <1>2

\* The table, the agent and the reports in flight keep their types in every state:
\* every busy thread has a job, and only a running job's heartbeat thread lives.
THEOREM TypeCorrect == Spec => []TypeOK
BY TypeInit, TypeNext, PTL DEF Spec

-----------------------------------------------------------------------------
(* One runner per account *)

\* The lock is held by the one thread that is past it, and by nobody else.  (That
\* the holders are pairwise equal is not inductive: who holds the lock matters.)
LockOK == \A t \in Thread : pc[t] \in Holding <=> lock = t

LockInv == TypeOK /\ LockOK

\* A thread that keeps its place, or moves inside the lock, keeps the lock's owner.
LEMMA LockKept ==
    ASSUME LockInv, NEW t \in Thread, pc[t] \in Holding, NEW to \in Holding,
           pc' = [pc EXCEPT ![t] = to], lock' = lock
    PROVE  LockOK'
BY DEF LockInv, LockOK, TypeOK, AgentOK

LEMMA LockLeft ==
    ASSUME LockInv, NEW t \in Thread, pc[t] \in Holding, Leave(t)
    PROVE  LockOK'
BY ConstantsAssumption DEF ConstantsAssumption, LockInv, LockOK, TypeOK, AgentOK, Leave, SetPc, Holding

LEMMA LockUntouched ==
    ASSUME LockOK, pc' = pc, lock' = lock
    PROVE  LockOK'
BY DEF LockOK

\* Nobody holds the lock of a new agent.
LEMMA LockInit == Init => LockInv
<1> SUFFICES ASSUME Init PROVE LockOK
  BY TypeInit DEF LockInv
<1> QED
  BY ConstantsAssumption DEF ConstantsAssumption, Init, LockOK, Holding

\* What a thread does by itself moves the lock with the payload.
LEMMA LockThread ==
    ASSUME LockInv, NEW t \in Thread, ThreadStep(t) \/ ThreadFault(t)
    PROVE  LockOK'
<1>1. CASE StartRead(t) \/ FinalRead(t)
  BY <1>1, LockUntouched DEF LockInv, StartRead, FinalRead, ReadReport, agent
<1>2. CASE StartRefused(t) \/ RetryRefused(t) \/ FinalRefused(t)
            \/ StartFails(t) \/ RetryReplyLost(t) \/ RetryUnsent(t)
  <2>1. pc[t] \in Holding /\ Leave(t)
    BY <1>2 DEF StartRefused, RetryRefused, FinalRefused, StartFails, RetryReplyLost, RetryUnsent,
                Holding
  <2> QED
    BY <2>1, LockLeft
<1>3. CASE RunnerStep(t) \/ RunnerLosesNetwork(t)
  <2>1. PICK to \in Holding : pc[t] = "running" /\ pc' = [pc EXCEPT ![t] = to] /\ lock' = lock
    BY <1>3 DEF RunnerStep, RunnerReschedules, RunnerReturns, RunnerRaises, RunnerCoolsDown,
                RunnerLosesNetwork, RunnerEnds, SetPc, Holding
  <2>2. pc[t] \in Holding
    BY <2>1 DEF Holding
  <2> QED
    BY <2>1, <2>2, LockKept
<1>4. CASE Reschedule(t) \/ RescheduleRefused(t) \/ RetryReschedule(t)
            \/ RescheduleReplyLost(t) \/ RescheduleUnsent(t) \/ RescheduleFails(t)
  <2>1. /\ pc[t] \in Holding
        /\ \E to \in Holding : pc' = [pc EXCEPT ![t] = to]
        /\ lock' = lock
    BY <1>4 DEF Reschedule, RescheduleRefused, RetryReschedule, RescheduleReplyLost,
                RescheduleUnsent, RescheduleFails, SetPc, Holding
  <2> QED
    BY <2>1, LockKept
<1>5. CASE FinalFails(t)
  <2>1. pc[t] \in Holding
    BY <1>5 DEF FinalFails, Holding
  <2>2. CASE Leave(t)
    BY <2>1, <2>2, LockLeft
  <2>3. CASE ~Leave(t)
    <3>1. (\E to \in {"retrying", "closing"} : pc' = [pc EXCEPT ![t] = to]) /\ lock' = lock
      BY <1>5, <2>3 DEF FinalFails, SetPc
    <3>2. {"retrying", "closing"} \subseteq Holding
      BY DEF Holding
    <3> QED
      BY <2>1, <3>1, <3>2, LockKept
  <2> QED
    BY <2>2, <2>3
<1> QED
  BY <1>1, <1>2, <1>3, <1>4, <1>5 DEF ThreadStep, ThreadFault

\* Every step keeps the lock's owner.
LEMMA LockNext == LockInv /\ [Next]_vars => LockOK'
<1> SUFFICES ASSUME LockInv, [Next]_vars PROVE LockOK'
  OBVIOUS
<1>1. CASE \/ Operators \/ LoseMessages \/ UNCHANGED vars
           \/ \E j \in Job : Recovery(j) \/ LeaseExpires(j) \/ ChildAges(j) \/ JobClaimLost(j)
  <2>1. UNCHANGED agent
    BY <1>1 DEF Operators, JobCancel, JobRunNow, JobRetry, JobRestart, JobUnstuck, OperatorJob,
                LoseMessages, vars, Recovery, RecoverStaleRunningJob, RecoverStaleScheduledJob,
                LeaseExpires, ChildAges, JobClaimLost
  <2> QED
    BY <2>1, LockUntouched DEF LockInv, agent
<1>2. ASSUME NEW t \in Thread, NEW j \in Job, Arrival(t, j) PROVE LockOK'
  BY <1>2 DEF Arrival, Deliver, JobClaim, Assign, LockInv, LockOK, TypeOK, AgentOK, Holding
<1>3. ASSUME NEW t \in Thread, AcquireLock(t) PROVE LockOK'
  BY <1>3, ConstantsAssumption
     DEF ConstantsAssumption, AcquireLock, SetPc, LockInv, LockOK, TypeOK, AgentOK, Holding
<1>4. ASSUME NEW t \in Thread, BeatRead(t) \/ BeatRefused(t) \/ RunnerFollowsUp(t) PROVE LockOK'
  BY <1>4, LockUntouched DEF LockInv, BeatRead, BeatRefused, RunnerFollowsUp, ReadReport, agent
<1>5. ASSUME NEW r \in inflight, HubSave(r) PROVE LockOK'
  <2>1. r.thread \in Thread
    BY ReportFields DEF LockInv, TypeOK
  <2>2. CASE UNCHANGED agent
    BY <2>2, LockUntouched DEF LockInv, agent
  <2>3. CASE ~UNCHANGED agent
    <3>1. CASE StartSave(r)
      <4>1. /\ pc[r.thread] \in Holding
            /\ "running" \in Holding /\ pc' = [pc EXCEPT ![r.thread] = "running"]
            /\ lock' = lock
        BY <2>3, <3>1 DEF StartSave, SetPc, Holding
      <4> QED
        BY <2>1, <4>1, LockKept
    <3>2. CASE FinalSave(r)
      <4>1. pc[r.thread] \in Holding /\ Leave(r.thread)
        BY <2>3, <3>2 DEF FinalSave, Holding
      <4> QED
        BY <2>1, <4>1, LockLeft
    <3> QED
      BY <1>5, <2>3, <3>1, <3>2 DEF HubSave, BeatSave
  <2> QED
    BY <2>2, <2>3
<1>6. CASE Crash
  BY <1>6, ConstantsAssumption DEF ConstantsAssumption, Crash, LockOK, Holding
<1> QED
  BY <1>1, <1>2, <1>3, <1>4, <1>5, <1>6, LockThread DEF Next

\* At most one payload of the account is past the lock, whatever crashes, is refused
\* or fails, for any number of threads.
THEOREM OneRunner == Spec => []OneRunnerPerAccount
<1>1. LockInv /\ [Next]_vars => LockInv'
  BY TypeNext, LockNext DEF LockInv
<1>2. LockInv => OneRunnerPerAccount
  BY DEF LockInv, LockOK, OneRunnerPerAccount
<1> QED
  BY LockInit, <1>1, <1>2, PTL DEF Spec

-----------------------------------------------------------------------------
(* Running rows have a lease; ended rows stay ended *)

\* A thread changes the table only by a reschedule of its own job.
LEMMA ThreadTable ==
    ASSUME AgentOK, NEW t \in Thread,
           \/ AcquireLock(t) \/ BeatRead(t) \/ BeatRefused(t) \/ RunnerFollowsUp(t)
           \/ ThreadStep(t) \/ ThreadFault(t),
           ~UNCHANGED table
    PROVE  \E k \in Job : \E isPatched \in BOOLEAN : RescheduleJob(k, isPatched)
<1>1. /\ pc[t] # "idle"
      /\ \E isPatched \in BOOLEAN : RescheduleJob(job[t], isPatched)
  BY DEF AcquireLock, BeatRead, BeatRefused, RunnerFollowsUp, ReadReport, ThreadStep,
         StartRead, StartRefused, RunnerStep, RunnerReschedules, RunnerReturns,
         RunnerRaises, RunnerCoolsDown, RunnerEnds, Reschedule, RescheduleRefused,
         RetryReschedule, RetryRefused, FinalRead, FinalRefused, ThreadFault, StartFails,
         RunnerLosesNetwork, RescheduleReplyLost, RescheduleUnsent, RescheduleFails, RetryReplyLost,
         RetryUnsent, FinalFails
<1>2. job[t] \in Job
  BY <1>1 DEF AgentOK
<1> QED
  BY <1>1, <1>2

\* The rows a step makes running, and the leases it takes away, outside the saves of
\* reports: none.
LEMMA NoStartLater ==
    ASSUME TypeOK, [Next]_vars, \A r \in inflight : ~HubSave(r), NEW j \in Job,
           status'[j] = "running"
    PROVE  status[j] = "running" /\ (lease[j] # "none" => lease'[j] # "none")
<1> USE DEF TypeOK, RowsOK, ClockOK, NextRow, Free
<1>1. ASSUME NEW k \in Job, NEW isPatched \in BOOLEAN, RescheduleJob(k, isPatched)
      PROVE  status[j] = "running" /\ lease' = lease
  BY <1>1 DEF RescheduleJob, table, clock
<1>2. CASE Operators
  <2>1. CASE JobCancel
    BY <2>1 DEF JobCancel, EndLease, Active
  <2>2. ASSUME NEW k \in Job, JobRunNow(k) \/ JobRetry(k) \/ JobRestart(k)
        PROVE  status[j] = "running" /\ lease' = lease
    BY <2>2 DEF JobRunNow, JobRetry, JobRestart, clock
  <2>3. ASSUME NEW k \in Job, JobUnstuck(k)
        PROVE  status[j] = "running" /\ (lease[j] # "none" => lease'[j] # "none")
    BY <2>3 DEF JobUnstuck, EndLease
  <2> QED
    BY <1>2, <2>1, <2>2, <2>3 DEF Operators
<1>3. ASSUME NEW k \in Job,
             \/ Recovery(k) \/ LeaseExpires(k) \/ ChildAges(k) \/ JobClaimLost(k) \/ LoseMessages
             \/ \E t \in Thread : Arrival(t, k)
      PROVE  status[j] = "running" /\ (lease[j] # "none" => lease'[j] # "none")
  <2>1. CASE RecoverStaleRunningJob(k)
    BY <2>1 DEF RecoverStaleRunningJob, CancelOrphan, RequeueOrphan, FailOrphan, EndLease
  <2>2. CASE LeaseExpires(k) \/ JobClaimLost(k) \/ \E t \in Thread : Arrival(t, k)
    BY <2>2 DEF LeaseExpires, EndLease, JobClaimLost, Arrival, Deliver, JobClaim, table, clock
  <2>3. CASE RecoverStaleScheduledJob(k) \/ ChildAges(k) \/ LoseMessages
    BY <2>3 DEF RecoverStaleScheduledJob, ChildAges, LoseMessages, table, clock
  <2> QED
    BY <1>3, <2>1, <2>2, <2>3 DEF Recovery
<1>4. ASSUME NEW t \in Thread,
             \/ AcquireLock(t) \/ BeatRead(t) \/ BeatRefused(t) \/ RunnerFollowsUp(t)
             \/ ThreadStep(t) \/ ThreadFault(t)
      PROVE  status[j] = "running" /\ lease' = lease
  BY <1>1, <1>4, ThreadTable DEF table, clock
<1>5. CASE Crash \/ UNCHANGED vars
  BY <1>5 DEF Crash, vars, table, clock
<1>6. CASE LoseMessages
  BY <1>6 DEF LoseMessages, table, clock
<1> QED
  BY <1>2, <1>3, <1>4, <1>5, <1>6 DEF Next, table, clock

\* The save of a "running" report sets the lease of its job and takes no other's.
LEMMA SavedLease ==
    ASSUME TypeOK, RunningHasLease, NEW r \in inflight, HubSave(r)
    PROVE  RunningHasLease'
<1> USE DEF TypeOK, RowsOK, ClockOK, RunningHasLease
<1>1. r.job \in Job /\ (r.kind = "final" => r.status \in {"finished", "error"})
  BY ReportFields
<1>2. CASE StartSave(r) \/ BeatSave(r)
  <2>1. /\ status' = [status EXCEPT ![r.job] = "running"]
        /\ lease' = [lease EXCEPT ![r.job] = "live"]
    BY <1>2 DEF StartSave, BeatSave, SaveRunning, RenewLease
  <2> QED
    BY <1>1, <2>1
<1>3. CASE FinalSave(r)
  <2>1. /\ status' = [status EXCEPT ![r.job] = r.status]
        /\ r.status # "running"
        /\ lease' = [j \in Job |-> IF j \in {r.job} THEN "none" ELSE lease[j]]
    BY <1>1, <1>3 DEF FinalSave, EndLease
  <2> QED
    BY <1>1, <2>1
<1> QED
  BY <1>2, <1>3 DEF HubSave

\* Every running row has a lease, so the recovery's fallback on last_heartbeat_at and
\* started_at is never taken, whatever overtakes what.
THEOREM LeaseOfRunning == Spec => []RunningHasLease
<1>1. Init => RunningHasLease
  BY DEF Init, RunningHasLease
<1>2. TypeOK /\ RunningHasLease /\ [Next]_vars => RunningHasLease'
  <2> SUFFICES ASSUME TypeOK, RunningHasLease, [Next]_vars PROVE RunningHasLease'
    OBVIOUS
  <2>1. CASE \A r \in inflight : ~HubSave(r)
    BY <2>1, NoStartLater DEF RunningHasLease
  <2>2. CASE \E r \in inflight : HubSave(r)
    BY <2>2, SavedLease
  <2> QED
    BY <2>1, <2>2
<1> QED
  BY <1>1, <1>2, TypeCorrect, PTL DEF Spec

\* An ended row changes only by the save of a report of its job.
LEMMA EndedKept ==
    ASSUME TypeOK, [Next]_vars, NEW j \in Job, Terminal(j)
    PROVE  status'[j] = status[j] \/ \E r \in inflight : r.job = j /\ HubSave(r)
<1> USE DEF TypeOK, RowsOK, NextRow, Free, Terminal
<1>1. ASSUME NEW k \in Job, NEW isPatched \in BOOLEAN, RescheduleJob(k, isPatched)
      PROVE  status'[j] = status[j]
  BY <1>1 DEF RescheduleJob, table
<1>2. CASE Operators
  BY <1>2 DEF Operators, JobCancel, JobRunNow, JobRetry, JobRestart, JobUnstuck, OperatorJob,
              Active
<1>3. ASSUME NEW k \in Job,
             \/ Recovery(k) \/ LeaseExpires(k) \/ ChildAges(k) \/ JobClaimLost(k)
             \/ \E t \in Thread : Arrival(t, k)
      PROVE  status'[j] = status[j]
  <2>1. CASE RecoverStaleRunningJob(k)
    BY <2>1 DEF RecoverStaleRunningJob, Stale, CancelOrphan, RequeueOrphan, FailOrphan
  <2>2. CASE ~RecoverStaleRunningJob(k)
    BY <1>3, <2>2 DEF Recovery, RecoverStaleScheduledJob, LeaseExpires, ChildAges,
                      JobClaimLost, Arrival, Deliver, JobClaim, table
  <2> QED
    BY <2>1, <2>2
<1>4. ASSUME NEW t \in Thread,
             \/ AcquireLock(t) \/ BeatRead(t) \/ BeatRefused(t) \/ RunnerFollowsUp(t)
             \/ ThreadStep(t) \/ ThreadFault(t)
      PROVE  status'[j] = status[j]
  BY <1>1, <1>4, ThreadTable DEF table
<1>5. ASSUME NEW r \in inflight, HubSave(r)
      PROVE  status'[j] = status[j] \/ r.job = j
  <2>1. r.job \in Job
    BY ReportFields
  <2> QED
    BY <1>5, <2>1 DEF HubSave, StartSave, BeatSave, SaveRunning, FinalSave
<1>6. CASE Crash \/ LoseMessages \/ UNCHANGED vars
  BY <1>6 DEF Crash, LoseMessages, vars, table
<1> QED
  BY <1>2, <1>3, <1>4, <1>5, <1>6 DEF Next

\* A terminal row changes only by the save of a report read before it ended: neither the
\* operators, nor the recovery, nor a reschedule ever touch it.
THEOREM EndedIsFinal == Spec => EndedStaysEnded
<1> DEFINE Kept(j) == Terminal(j) /\ status'[j] # status[j] => \E r \in inflight : r.job = j
<1>1. TypeOK /\ [Next]_vars => [\A j \in Job : Kept(j)]_vars
  BY EndedKept
<1> QED
  BY <1>1, TypeCorrect, PTL DEF Spec, EndedStaysEnded

-----------------------------------------------------------------------------
(* A job goes on once *)

\* Only rows that exist are continued, dispatched, worked on or reported.
RowsLinked ==
    \A j \in Job :
        /\ status[j] = "absent" => parent[j] = NoJob /\ msgs[j] = 0
        /\ parent[j] # NoJob => parent[j] # j /\ status[parent[j]] # "absent"

WorkOnRows ==
    /\ \A t \in Thread : pc[t] # "idle" => status[job[t]] # "absent"
    /\ \A r \in inflight :
          /\ status[r.job] # "absent"
          /\ pc[r.thread] # "idle" => job[r.thread] = r.job

\* What a thread knows of its follow-up where it may still ask for one.
FollowupKnown ==
    \A t \in Thread :
        /\ pc[t] \in {"idle", "waiting", "starting", "rescheduling"} => followup[t] = "none"
        /\ pc[t] \in {"running", "retrying"} => followup[t] # "executor"

\* Thread t may still reschedule job j for the first time.
MayFollowUp(t, j) ==
    /\ pc[t] \in {"running", "rescheduling", "retrying", "reporting"}
    /\ job[t] = j /\ followup[t] = "none"

\* OneFollowUp, made inductive: who may still ask for a follow-up is the first to.
Single(j) ==
    /\ \A c, d \in FollowUps(j) : Active(c) /\ Active(d) => c = d
    /\ ~Terminal(j) /\ (\E t \in Thread : MayFollowUp(t, j)) => ~HasActiveFollowUp(j)

AllSingle == \A j \in Job \ tainted : Single(j)

LinkInv == LockInv /\ RowsLinked /\ WorkOnRows /\ FollowupKnown
FollowInv == LinkInv /\ AllSingle

\* What a step does to the rows: no row appears, or row c appears and comes from src.
NoRowAdded ==
    /\ UNCHANGED <<parent, trigger>>
    /\ \A k \in Job : status'[k] = "absent" <=> status[k] = "absent"

RowAdded(c, src, trig) ==
    /\ c \in NextRow
    /\ src \in Job /\ status[src] # "absent"
    /\ parent' = [parent EXCEPT ![c] = src]
    /\ trigger' = [trigger EXCEPT ![c] = trig]
    /\ \A k \in Job \ {c} : status'[k] = "absent" <=> status[k] = "absent"
    /\ status'[c] \in Waiting

\* Rows stay linked when no message is made for a row that does not exist.
LEMMA LinkedQuiet ==
    ASSUME RowsOK, RowsLinked, NoRowAdded,
           \A k \in Job : status[k] = "absent" /\ msgs[k] = 0 => msgs'[k] = 0
    PROVE  RowsLinked'
BY DEF RowsOK, RowsLinked, NoRowAdded, NoJob

LEMMA LinkedAdded ==
    ASSUME RowsOK, RowsLinked, NEW c, NEW src, NEW trig, RowAdded(c, src, trig),
           \A k \in Job \ {c} : msgs'[k] = msgs[k]
    PROVE  RowsLinked'
BY DEF RowsOK, RowsLinked, RowAdded, NextRow, Free, NoJob

\* A dispatch makes messages of its own row only.
LEMMA DispatchOwn ==
    ASSUME RowsOK, NEW c, NEW n, Dispatch(c, n)
    PROVE  \A k \in Job \ {c} : msgs'[k] = msgs[k]
BY DEF RowsOK, Dispatch

\* _reschedule() of a job that exists: a new row of it, or no new row.
LEMMA RescheduleRows ==
    ASSUME TypeOK, NEW j \in Job, NEW isPatched \in BOOLEAN, RescheduleJob(j, isPatched),
           status[j] # "absent"
    PROVE  \/ UNCHANGED <<table, msgs>>
           \/ /\ \E c \in NextRow : /\ RowAdded(c, j, "agent_reschedule")
                                    /\ \A k \in Job \ {c} : msgs'[k] = msgs[k]
                                    /\ \A k \in Job \ {c} :
                                          status'[k] # status[k] => status'[k] = "cancelled"
<1>1. CASE UNCHANGED <<table, msgs, stopped>>
  BY <1>1
<1>2. ASSUME NEW c \in NextRow,
             NewRow(c, j, "agent_reschedule", isPatched),
             status' = [status EXCEPT ![c] = "scheduled",
                                      ![j] = IF @ = "scheduled" THEN "cancelled" ELSE @],
             DispatchCreated(c)
      PROVE  /\ RowAdded(c, j, "agent_reschedule")
             /\ \A k \in Job \ {c} : msgs'[k] = msgs[k]
             /\ \A k \in Job \ {c} : status'[k] # status[k] => status'[k] = "cancelled"
  <2>1. \A k \in Job \ {c} : msgs'[k] = msgs[k]
    BY <1>2, DispatchOwn DEF TypeOK, DispatchCreated
  <2> QED
    BY <1>2, <2>1 DEF NewRow, RowAdded, NextRow, Free, TypeOK, RowsOK
<1> QED
  BY <1>1, <1>2 DEF RescheduleJob

\* What any step does to the rows and their messages.
RowsStep ==
    \/ /\ NoRowAdded
       /\ \A k \in Job : status[k] = "absent" /\ msgs[k] = 0 => msgs'[k] = 0
    \/ \E c \in NextRow, src \in Job, trig \in Triggers \cup {"none"} :
          /\ RowAdded(c, src, trig)
          /\ \A k \in Job \ {c} : msgs'[k] = msgs[k]

\* An operator's job comes from a row that exists.
LEMMA OperatorRows ==
    ASSUME TypeOK, NEW j \in Job, NEW c \in NextRow, NEW trig \in Triggers \cup {"none"},
           OperatorJob(j, c, trig), status[j] # "absent", NEW st \in Waiting,
           \/ status' = [status EXCEPT ![c] = st]
           \/ status' = [status EXCEPT ![j] = "cancelled", ![c] = st]
    PROVE  RowAdded(c, j, trig) /\ \A k \in Job \ {c} : msgs'[k] = msgs[k]
<1>1. \A k \in Job \ {c} : msgs'[k] = msgs[k]
  BY DispatchOwn DEF TypeOK, OperatorJob
<1>2. c \in Job /\ c # j
  BY DEF NextRow, Free
<1>3. /\ status'[c] \in Waiting
      /\ \A k \in Job \ {c} : status'[k] = "absent" <=> status[k] = "absent"
  BY <1>2 DEF TypeOK, RowsOK
<1> QED
  BY <1>1, <1>3 DEF OperatorJob, NewRow, RowAdded

\* A thread's step adds a row only by a reschedule of the job it works on.
LEMMA ThreadRows ==
    ASSUME TypeOK, WorkOnRows, NEW t \in Thread,
           \/ AcquireLock(t) \/ BeatRead(t) \/ BeatRefused(t) \/ RunnerFollowsUp(t)
           \/ ThreadStep(t) \/ ThreadFault(t)
    PROVE  RowsStep
<1>1. CASE UNCHANGED <<table, msgs>>
  BY <1>1 DEF RowsStep, NoRowAdded, table
<1>2. ASSUME NEW isPatched \in BOOLEAN, pc[t] # "idle", RescheduleJob(job[t], isPatched)
      PROVE  RowsStep
  <2>1. PICK j \in Job : j = job[t] /\ status[j] # "absent" /\ RescheduleJob(j, isPatched)
    BY <1>2 DEF TypeOK, AgentOK, WorkOnRows
  <2>2. CASE UNCHANGED <<table, msgs>>
    BY <1>1, <2>2
  <2>3. ASSUME NEW c \in NextRow, RowAdded(c, j, "agent_reschedule"),
               \A k \in Job \ {c} : msgs'[k] = msgs[k]
        PROVE  RowsStep
    BY <2>3 DEF RowsStep
  <2> QED
    BY <2>1, <2>2, <2>3, RescheduleRows
<1>3. \/ UNCHANGED <<table, msgs>>
      \/ pc[t] # "idle" /\ \E isPatched \in BOOLEAN : RescheduleJob(job[t], isPatched)
  BY DEF AcquireLock, BeatRead, BeatRefused, RunnerFollowsUp, ReadReport, ThreadStep,
         StartRead, StartRefused, RunnerStep, RunnerReschedules, RunnerReturns,
         RunnerRaises, RunnerCoolsDown, RunnerEnds, Reschedule, RescheduleRefused,
         RetryReschedule, RetryRefused, FinalRead, FinalRefused, ThreadFault, StartFails,
         RunnerLosesNetwork, RescheduleReplyLost, RescheduleUnsent, RescheduleFails, RetryReplyLost,
         RetryUnsent, FinalFails
<1> QED
  BY <1>1, <1>2, <1>3

\* Every step adds at most one row, and only to a row that exists.
LEMMA StepRows ==
    ASSUME TypeOK, WorkOnRows, [Next]_vars
    PROVE  RowsStep
<1> USE DEF TypeOK
<1>1. ASSUME Operators PROVE RowsStep
  <2>1. CASE JobCancel
    BY <2>1 DEF JobCancel, RowsStep, NoRowAdded, RowsOK, Active
  <2>2. ASSUME NEW j \in Job, JobRunNow(j) \/ JobRetry(j) \/ JobRestart(j) \/ JobUnstuck(j)
        PROVE  RowsStep
    <3>1. PICK c \in NextRow, trig \in Triggers \cup {"none"}, st \in Waiting :
             /\ OperatorJob(j, c, trig) /\ status[j] # "absent"
             /\ \/ status' = [status EXCEPT ![c] = st]
                \/ status' = [status EXCEPT ![j] = "cancelled", ![c] = st]
      BY <2>2 DEF JobRunNow, JobRetry, JobRestart, JobUnstuck, RowsOK
    <3>2. RowAdded(c, j, trig) /\ \A k \in Job \ {c} : msgs'[k] = msgs[k]
      BY <3>1, OperatorRows
    <3> QED
      BY <3>2 DEF RowsStep
  <2> QED
    BY <1>1, <2>1, <2>2 DEF Operators
<1>2. ASSUME NEW j \in Job, RecoverStaleRunningJob(j) PROVE RowsStep
  <2>1. status[j] = "running"
    BY <1>2 DEF RecoverStaleRunningJob, Stale
  <2>2. CASE CancelOrphan(j) \/ FailOrphan(j)
    BY <2>1, <2>2 DEF CancelOrphan, FailOrphan, RowsStep, NoRowAdded, RowsOK
  <2>3. ASSUME NEW c \in NextRow,
               NewRow(c, j, "recovery_requeue", FALSE),
               status' = [status EXCEPT ![j] = "cancelled", ![c] = "scheduled"],
               Dispatch(c, 1)
        PROVE  RowsStep
    <3>1. \A k \in Job \ {c} : msgs'[k] = msgs[k]
      BY <2>3, DispatchOwn
    <3>2. c \in Job /\ c # j
      BY <2>1 DEF NextRow, Free
    <3>3. RowAdded(c, j, "recovery_requeue")
      BY <2>1, <2>3, <3>2 DEF NewRow, RowAdded, RowsOK
    <3> QED
      BY <3>1, <3>3 DEF RowsStep
  <2> QED
    BY <1>2, <2>2, <2>3 DEF RecoverStaleRunningJob, RequeueOrphan
<1>3. ASSUME NEW j \in Job,
             \/ RecoverStaleScheduledJob(j) \/ LeaseExpires(j) \/ ChildAges(j) \/ JobClaimLost(j)
             \/ LoseMessages \/ Crash \/ UNCHANGED vars
             \/ \E t \in Thread : Arrival(t, j)
      PROVE  RowsStep
  <2>1. NoRowAdded
    BY <1>3 DEF NoRowAdded, RecoverStaleScheduledJob, LeaseExpires, ChildAges, JobClaimLost,
                LoseMessages, Crash, vars, Arrival, Deliver, JobClaim, table
  <2>2. ASSUME NEW k \in Job, status[k] = "absent", msgs[k] = 0 PROVE msgs'[k] = 0
    BY <1>3, <2>2 DEF RecoverStaleScheduledJob, Dispatch, LeaseExpires, ChildAges, JobClaimLost,
                LoseMessages, Crash, vars, Arrival, Deliver, JobClaim, RowsOK
  <2> QED
    BY <2>1, <2>2 DEF RowsStep
<1>4. ASSUME NEW r \in inflight, HubSave(r) PROVE RowsStep
  <2>1. r.job \in Job /\ (r.kind = "final" => r.status \in {"finished", "error"})
    BY ReportFields
  <2>2. status[r.job] # "absent"
    BY DEF WorkOnRows
  <2>3. /\ UNCHANGED <<parent, trigger, msgs>>
        /\ \E st \in {"running", "finished", "error"} : status' = [status EXCEPT ![r.job] = st]
    BY <1>4, <2>1 DEF HubSave, StartSave, BeatSave, SaveRunning, FinalSave
  <2> QED
    BY <2>1, <2>2, <2>3 DEF RowsStep, NoRowAdded, RowsOK
<1>5. 1 \in Job
  BY ConstantsAssumption DEF ConstantsAssumption, Job
<1> QED
  BY <1>1, <1>2, <1>3, <1>4, <1>5, ThreadRows DEF Next, Recovery

\* Rows are never taken away.
LEMMA RowsRemain ==
    ASSUME RowsStep
    PROVE  \A k \in Job : status[k] # "absent" => status'[k] # "absent"
BY DEF RowsStep, NoRowAdded, RowAdded

\* What a step may do to what the threads work on and to the reports at the hub.
LEMMA WorkMoves ==
    ASSUME TypeOK, [Next]_vars
    PROVE  /\ \A t \in Thread : pc'[t] # "idle" =>
                 \/ pc[t] # "idle" /\ job'[t] = job[t]
                 \/ \E j \in Job : Arrival(t, j)
           /\ \A r \in inflight' :
                 \/ r \in inflight
                 \/ UNCHANGED agent /\ pc[r.thread] # "idle" /\ r.job = job[r.thread]
                    /\ r.thread \in Thread
<1> USE DEF TypeOK, AgentOK
<1>1. ASSUME \/ Operators \/ LoseMessages \/ UNCHANGED vars
             \/ \E j \in Job : Recovery(j) \/ LeaseExpires(j) \/ ChildAges(j) \/ JobClaimLost(j)
      PROVE  UNCHANGED <<agent, inflight>>
    BY <1>1 DEF Operators, JobCancel, JobRunNow, JobRetry, JobRestart, JobUnstuck, OperatorJob,
                LoseMessages, vars, Recovery, RecoverStaleRunningJob, RecoverStaleScheduledJob,
                LeaseExpires, ChildAges, JobClaimLost
<1>2. ASSUME NEW t \in Thread, NEW j \in Job, Arrival(t, j)
      PROVE  /\ UNCHANGED inflight
             /\ \A u \in Thread \ {t} : pc'[u] = pc[u] /\ job'[u] = job[u]
  BY <1>2 DEF Arrival, Deliver, JobClaim, Assign
<1>3. ASSUME NEW t \in Thread,
             \/ AcquireLock(t) \/ BeatRefused(t) \/ RunnerFollowsUp(t)
             \/ StartRefused(t) \/ RunnerStep(t) \/ Reschedule(t) \/ RescheduleRefused(t)
             \/ RetryReschedule(t) \/ RetryRefused(t) \/ FinalRefused(t) \/ ThreadFault(t)
      PROVE  /\ UNCHANGED inflight
             /\ \A u \in Thread : pc'[u] # "idle" => pc[u] # "idle" /\ job'[u] = job[u]
  BY <1>3 DEF AcquireLock, BeatRefused, RunnerFollowsUp, SetPc, Leave,
         StartRefused, RunnerStep, RunnerReschedules, RunnerReturns,
         RunnerRaises, RunnerCoolsDown, RunnerEnds, Reschedule, RescheduleRefused,
         RetryReschedule, RetryRefused, FinalRefused, ThreadFault, StartFails,
         RunnerLosesNetwork, RescheduleReplyLost, RescheduleUnsent, RescheduleFails, RetryReplyLost,
         RetryUnsent, FinalFails
<1>4. ASSUME NEW t \in Thread, StartRead(t) \/ BeatRead(t) \/ FinalRead(t)
      PROVE  /\ UNCHANGED agent
             /\ pc[t] # "idle"
             /\ \A r \in inflight' : r \in inflight \/ (r.thread = t /\ r.job = job[t])
  <2>1. pc[t] # "idle"
    BY <1>4 DEF StartRead, BeatRead, FinalRead
  <2>2. \/ ReadReport(t, "start", "running")
        \/ ReadReport(t, "beat", "running")
        \/ ReadReport(t, "final", outcome[t])
    BY <1>4, Zenon DEF StartRead, BeatRead, FinalRead
  <2>3. UNCHANGED agent
    BY <2>2 DEF ReadReport, agent
  <2>4. ASSUME NEW r \in inflight', r \notin inflight PROVE r.thread = t /\ r.job = job[t]
    BY <2>2, <2>4 DEF ReadReport, ReportOf
  <2> QED
    BY <2>1, <2>3, <2>4
<1>5. ASSUME NEW r \in inflight, HubSave(r)
      PROVE  /\ inflight' \subseteq inflight
             /\ \A u \in Thread : pc'[u] # "idle" => pc[u] # "idle" /\ job'[u] = job[u]
  <2>1. r.thread \in Thread
    BY ReportFields
  <2> QED
    BY <1>5, <2>1 DEF HubSave, StartSave, BeatSave, SaveRunning, FinalSave, SetPc, Leave, agent
<1>6. CASE Crash
  BY <1>6 DEF Crash
<1> QED
  BY <1>1, <1>2, <1>3, <1>4, <1>5, <1>6 DEF Next, ThreadStep, agent

\* Every step keeps the rows linked and the work on rows.
LEMMA LinkNext ==
    ASSUME TypeOK, RowsLinked, WorkOnRows, [Next]_vars
    PROVE  RowsLinked' /\ WorkOnRows'
<1>1. RowsStep
  BY StepRows
<1>2. RowsLinked'
  BY <1>1, LinkedQuiet, LinkedAdded DEF RowsStep, TypeOK
<1>3. \A k \in Job : status[k] # "absent" => status'[k] # "absent"
  BY <1>1, RowsRemain
<1>4. ASSUME NEW t \in Thread, NEW j \in Job, Arrival(t, j)
      PROVE  /\ status[j] # "absent" /\ job'[t] = j
             /\ \A r \in inflight : r.thread # t
  BY <1>4 DEF Arrival, Deliver, JobClaim, Claimable, Assign, RowsLinked, TypeOK, AgentOK
<1>5. ASSUME NEW t \in Thread, pc'[t] # "idle" PROVE status'[job'[t]] # "absent"
  <2>1. CASE pc[t] # "idle" /\ job'[t] = job[t]
    BY <1>3, <2>1 DEF WorkOnRows, TypeOK, AgentOK
  <2>2. CASE \E j \in Job : Arrival(t, j)
    BY <1>3, <1>4, <2>2
  <2> QED
    BY <1>5, <2>1, <2>2, WorkMoves
<1>6. ASSUME NEW r \in inflight'
      PROVE  /\ status'[r.job] # "absent"
             /\ pc'[r.thread] # "idle" => job'[r.thread] = r.job
  <2>1. CASE r \in inflight
    <3>1. r.thread \in Thread /\ r.job \in Job
      BY <2>1, ReportFields DEF TypeOK
    <3>2. status'[r.job] # "absent"
      BY <1>3, <2>1, <3>1 DEF WorkOnRows
    <3>3. ASSUME pc'[r.thread] # "idle" PROVE job'[r.thread] = r.job
      BY <1>4, <2>1, <3>1, <3>3, WorkMoves DEF WorkOnRows
    <3> QED
      BY <3>2, <3>3
  <2>2. CASE UNCHANGED agent /\ pc[r.thread] # "idle" /\ r.job = job[r.thread]
             /\ r.thread \in Thread
    BY <1>3, <2>2 DEF agent, WorkOnRows, TypeOK, AgentOK
  <2> QED
    BY <2>1, <2>2, WorkMoves
<1> QED
  BY <1>2, <1>5, <1>6 DEF WorkOnRows

\* What a thread knows of its follow-up follows its steps.
LEMMA FollowupKnownNext ==
    ASSUME TypeOK, FollowupKnown, [Next]_vars
    PROVE  FollowupKnown'
<1> USE DEF TypeOK, AgentOK, FollowupKnown
<1>1. CASE UNCHANGED <<pc, followup>>
  BY <1>1
<1>2. ASSUME NEW t \in Thread, Leave(t) PROVE FollowupKnown'
  BY <1>2 DEF Leave, SetPc
<1>3. ASSUME NEW t \in Thread, NEW j \in Job, Arrival(t, j) PROVE FollowupKnown'
  BY <1>3 DEF Arrival, Deliver, JobClaim, Assign
<1>4. ASSUME NEW t \in Thread, AcquireLock(t) \/ RunnerFollowsUp(t) PROVE FollowupKnown'
  BY <1>4 DEF AcquireLock, RunnerFollowsUp, SetPc
<1>5. ASSUME NEW t \in Thread, RunnerStep(t) \/ RunnerLosesNetwork(t) PROVE FollowupKnown'
  <2>1. PICK to \in {"rescheduling", "retrying", "reporting", "closing"} :
          /\ pc[t] = "running" /\ SetPc(t, to) /\ UNCHANGED followup
          /\ to = "rescheduling" => followup[t] = "none"
    BY <1>5 DEF RunnerStep, RunnerReschedules, RunnerReturns, RunnerRaises, RunnerCoolsDown,
                RunnerLosesNetwork, RunnerEnds
  <2> QED
    BY <2>1 DEF SetPc
<1>6. ASSUME NEW t \in Thread,
             \/ Reschedule(t) \/ RescheduleReplyLost(t) \/ RescheduleUnsent(t)
             \/ RescheduleFails(t) \/ RescheduleRefused(t) \/ RetryReschedule(t)
      PROVE  FollowupKnown'
  <2>1. /\ \E to \in {"retrying", "reporting", "closing"} : SetPc(t, to)
        /\ \/ UNCHANGED followup /\ pc[t] \in {"rescheduling", "retrying"}
           \/ SetPc(t, "reporting") /\ followup' = [followup EXCEPT ![t] = "executor"]
    BY <1>6 DEF Reschedule, RescheduleReplyLost, RescheduleUnsent, RescheduleFails, RescheduleRefused,
                RetryReschedule
  <2> QED
    BY <2>1 DEF SetPc
<1>7. ASSUME NEW t \in Thread, FinalFails(t) PROVE FollowupKnown'
  BY <1>2, <1>7 DEF FinalFails, SetPc
<1>8. ASSUME NEW r \in inflight, HubSave(r) PROVE FollowupKnown'
  <2>1. r.thread \in Thread
    BY ReportFields
  <2>2. \/ UNCHANGED <<pc, followup>>
        \/ pc[r.thread] = "starting" /\ SetPc(r.thread, "running") /\ UNCHANGED followup
        \/ Leave(r.thread)
    BY <1>8 DEF HubSave, StartSave, BeatSave, FinalSave, agent
  <2> QED
    BY <1>1, <1>2, <2>1, <2>2 DEF SetPc
<1>9. CASE Crash
  BY <1>9 DEF Crash
<1> QED
  <2>1. ASSUME \/ Operators \/ LoseMessages \/ UNCHANGED vars
               \/ \E j \in Job : Recovery(j) \/ LeaseExpires(j) \/ ChildAges(j) \/ JobClaimLost(j)
        PROVE  UNCHANGED <<pc, followup>>
    BY <2>1 DEF Operators, JobCancel, JobRunNow, JobRetry, JobRestart, JobUnstuck, OperatorJob,
                LoseMessages, vars, Recovery, RecoverStaleRunningJob, RecoverStaleScheduledJob,
                LeaseExpires, ChildAges, JobClaimLost, agent
  <2>2. ASSUME NEW t \in Thread,
               StartRead(t) \/ FinalRead(t) \/ BeatRead(t) \/ BeatRefused(t)
        PROVE  UNCHANGED <<pc, followup>>
    BY <2>2 DEF StartRead, FinalRead, BeatRead, BeatRefused, ReadReport, agent
  <2>3. ASSUME NEW t \in Thread,
               \/ StartRefused(t) \/ RetryRefused(t) \/ FinalRefused(t)
               \/ StartFails(t) \/ RetryReplyLost(t) \/ RetryUnsent(t)
        PROVE  Leave(t)
    BY <2>3 DEF StartRefused, RetryRefused, FinalRefused, StartFails, RetryReplyLost, RetryUnsent
  <2> QED
    BY <1>1, <1>2, <1>3, <1>4, <1>5, <1>6, <1>7, <1>8, <1>9, <2>1, <2>2, <2>3
       DEF Next, ThreadStep, ThreadFault

\* A step that adds no row keeps AllSingle when a row that becomes active again has its
\* parent marked, and a thread that starts finds no follow-up of its job.
LEMMA SingleKept ==
    ASSUME AllSingle, NoRowAdded, tainted \subseteq tainted',
           \A k \in Job : Active(k)' => Active(k) \/ parent[k] = NoJob \/ parent[k] \in tainted',
           \A k \in Job \ tainted' : Terminal(k) => Terminal(k)',
           \A k \in Job \ tainted' : \A t \in Thread :
              MayFollowUp(t, k)' => MayFollowUp(t, k) \/ ~HasActiveFollowUp(k)
    PROVE  AllSingle'
<1> SUFFICES ASSUME NEW j \in Job \ tainted' PROVE Single(j)'
  BY DEF AllSingle
<1>1. j \in Job \ tainted /\ j # NoJob
  BY DEF NoJob, Job
<1>2. FollowUps(j)' = FollowUps(j)
  BY DEF NoRowAdded, FollowUps
<1>3. \A c \in FollowUps(j) : c \in Job /\ parent[c] = j
  BY DEF FollowUps
<1>4. \A c \in FollowUps(j) : Active(c)' => Active(c)
  BY <1>1, <1>3
<1>5. Single(j)
  BY <1>1 DEF AllSingle
<1>6. \A c, d \in FollowUps(j)' : Active(c)' /\ Active(d)' => c = d
  BY <1>2, <1>4, <1>5 DEF Single
<1>7. HasActiveFollowUp(j)' => HasActiveFollowUp(j)
  BY <1>2, <1>4 DEF HasActiveFollowUp
<1>8. ~Terminal(j)' /\ (\E t \in Thread : MayFollowUp(t, j)') => ~HasActiveFollowUp(j)'
  BY <1>1, <1>5, <1>7 DEF Single
<1> QED
  BY <1>6, <1>8 DEF Single

\* A step that adds a row keeps AllSingle when the row is an operator's, or the job it
\* comes from is marked, or it is the first follow-up and the last one asked for.
LEMMA SingleAdded ==
    ASSUME RowsOK, RowsLinked, AllSingle,
           NEW c, NEW src, NEW trig, RowAdded(c, src, trig), tainted \subseteq tainted',
           \A k \in Job \ {c} : Active(k)' => Active(k),
           \A k \in Job \ {c} : Terminal(k) => Terminal(k)',
           \A k \in Job \ tainted' : \A t \in Thread :
              MayFollowUp(t, k)' => MayFollowUp(t, k),
           \/ trig = "operator"
           \/ src \in tainted'
           \/ /\ ~HasActiveFollowUp(src)
              /\ Terminal(src)' \/ \A t \in Thread : ~MayFollowUp(t, src)'
    PROVE  AllSingle'
<1> SUFFICES ASSUME NEW j \in Job \ tainted' PROVE Single(j)'
  BY DEF AllSingle
<1>1. c \in Job /\ status[c] = "absent" /\ src \in Job
  BY DEF RowAdded, NextRow, Free
<1>2. parent[c] = NoJob /\ \A k \in Job : parent[k] # c
  BY <1>1 DEF RowsLinked, NoJob, Job
<1>3. /\ \A k \in Job \ {c} : parent'[k] = parent[k] /\ trigger'[k] = trigger[k]
      /\ parent'[c] = src /\ trigger'[c] = trig
  BY <1>1 DEF RowAdded, RowsOK
<1>4. FollowUps(j)' \subseteq FollowUps(j) \cup {c}
  BY <1>3 DEF FollowUps
<1>5. c \in FollowUps(j)' => src = j /\ trig # "operator"
  BY <1>3 DEF FollowUps
<1>6. c \notin FollowUps(j)
  BY <1>1, <1>2 DEF FollowUps, NoJob, Job
<1>7. \A k \in FollowUps(j) : Active(k)' => Active(k)
  BY <1>6 DEF FollowUps
<1>8. Single(j) /\ (j # c /\ Terminal(j) => Terminal(j)')
  BY DEF AllSingle
<1>9. CASE c \notin FollowUps(j)'
  <2>1. FollowUps(j)' \subseteq FollowUps(j)
    BY <1>4, <1>9
  <2>2. \A x, y \in FollowUps(j)' : Active(x)' /\ Active(y)' => x = y
    BY <1>7, <1>8, <2>1 DEF Single
  <2>3. HasActiveFollowUp(j)' => HasActiveFollowUp(j)
    BY <1>7, <2>1 DEF HasActiveFollowUp
  <2>4. j = c => ~HasActiveFollowUp(j)
    BY <1>2 DEF HasActiveFollowUp, FollowUps
  <2>5. ~Terminal(j)' /\ (\E t \in Thread : MayFollowUp(t, j)') => ~HasActiveFollowUp(j)'
    BY <1>8, <2>3, <2>4 DEF Single
  <2> QED
    BY <2>2, <2>5 DEF Single
<1>10. CASE c \in FollowUps(j)'
  <2>1. /\ ~HasActiveFollowUp(j)
        /\ Terminal(j)' \/ \A t \in Thread : ~MayFollowUp(t, j)'
    BY <1>5, <1>10
  <2>2. \A k \in FollowUps(j) : ~Active(k)'
    BY <1>7, <2>1 DEF HasActiveFollowUp
  <2>3. \A x, y \in FollowUps(j)' : Active(x)' /\ Active(y)' => x = y
    BY <1>4, <2>2
  <2> QED
    BY <2>1, <2>3 DEF Single
<1> QED
  BY <1>9, <1>10

\* What the operators do leaves a job its one follow-up; JobUnstuck marks its job.
LEMMA SingleOperators ==
    ASSUME FollowInv, Operators
    PROVE  AllSingle'
<1> USE DEF FollowInv, LinkInv, LockInv, TypeOK
<1>1. UNCHANGED agent
  BY DEF Operators, JobCancel, JobRunNow, JobRetry, JobRestart, JobUnstuck, OperatorJob
<1>2. \A t \in Thread, k \in Job : MayFollowUp(t, k)' => MayFollowUp(t, k)
  BY <1>1 DEF agent, MayFollowUp
<1>3. CASE JobCancel
  <2>1. NoRowAdded /\ UNCHANGED tainted
    BY <1>3 DEF JobCancel, NoRowAdded, RowsOK, Active
  <2>2. \A k \in Job : ~Active(k)' /\ (Terminal(k) => Terminal(k)')
    BY <1>3 DEF JobCancel, RowsOK, Active, Terminal
  <2> QED
    BY <1>2, <2>1, <2>2, SingleKept
<1>4. ASSUME NEW j \in Job, JobRunNow(j) \/ JobRetry(j) \/ JobRestart(j) \/ JobUnstuck(j)
      PROVE  AllSingle'
  <2>1. PICK c \in NextRow, trig \in Triggers \cup {"none"}, st \in Waiting :
           /\ OperatorJob(j, c, trig) /\ status[j] # "absent"
           /\ \/ status' = [status EXCEPT ![c] = st] /\ ~JobUnstuck(j)
              \/ status' = [status EXCEPT ![j] = "cancelled", ![c] = st]
           /\ trig = "operator" \/ JobUnstuck(j)
    <3>1. CASE JobRunNow(j)
      BY <3>1 DEF JobRunNow, RowsOK
    <3>2. CASE JobRetry(j)
      BY <3>2 DEF JobRetry, JobUnstuck, RowsOK
    <3>3. CASE JobRestart(j)
      BY <3>3 DEF JobRestart, JobUnstuck, RowsOK
    <3>4. CASE JobUnstuck(j)
      BY <3>4 DEF JobUnstuck, RowsOK
    <3> QED
      BY <1>4, <3>1, <3>2, <3>3, <3>4
  <2>2. RowAdded(c, j, trig)
    BY <2>1, OperatorRows
  <2>3. c \in Job /\ c # j
    BY <2>1 DEF NextRow, Free
  <2>4. /\ \A k \in Job \ {c} : Active(k)' => Active(k)
        /\ \A k \in Job \ {c} : Terminal(k) => Terminal(k)'
    BY <2>1, <2>3 DEF RowsOK, Active, Terminal
  <2>5. tainted \subseteq tainted'
    BY <1>4 DEF JobRunNow, JobRetry, JobRestart, JobUnstuck
  <2>6. \/ trig = "operator"
        \/ j \in tainted'
        \/ ~HasActiveFollowUp(j) /\ Terminal(j)'
    BY <2>1, <2>3 DEF JobUnstuck, RowsOK, Terminal
  <2> QED
    BY <1>2, <2>2, <2>4, <2>5, <2>6, SingleAdded
<1> QED
  BY <1>3, <1>4 DEF Operators

\* The recovery goes on from a job only when no other job of the chain is active.
LEMMA SingleRecovery ==
    ASSUME FollowInv, NEW j \in Job, RecoverStaleRunningJob(j)
    PROVE  AllSingle'
<1> USE DEF FollowInv, LinkInv, LockInv, TypeOK
<1>1. status[j] = "running" /\ UNCHANGED <<agent, tainted>>
  BY DEF RecoverStaleRunningJob, Stale
<1>2. \A t \in Thread, k \in Job : MayFollowUp(t, k)' => MayFollowUp(t, k)
  BY <1>1 DEF agent, MayFollowUp
<1>3. CASE CancelOrphan(j) \/ FailOrphan(j)
  <2>1. /\ UNCHANGED <<parent, trigger>>
        /\ \E st \in {"cancelled", "error"} : status' = [status EXCEPT ![j] = st]
    BY <1>3 DEF CancelOrphan, FailOrphan
  <2>2. NoRowAdded
    BY <1>1, <2>1 DEF NoRowAdded, RowsOK
  <2>3. \A k \in Job : (Active(k)' => Active(k)) /\ (Terminal(k) => Terminal(k)')
    BY <1>1, <2>1 DEF RowsOK, Active, Terminal
  <2> QED
    BY <1>1, <1>2, <2>2, <2>3, SingleKept
<1>4. CASE RequeueOrphan(j)
  <2>1. PICK c \in NextRow :
          /\ NewRow(c, j, "recovery_requeue", FALSE)
          /\ status' = [status EXCEPT ![j] = "cancelled", ![c] = "scheduled"]
    BY <1>4 DEF RequeueOrphan
  <2>2. c \in Job /\ c # j /\ status[c] = "absent"
    BY <1>1 DEF NextRow, Free
  <2>3. RowAdded(c, j, "recovery_requeue")
    BY <1>1, <2>1, <2>2 DEF NewRow, RowAdded, RowsOK
  <2>4. /\ \A k \in Job \ {c} : Active(k)' => Active(k)
        /\ \A k \in Job \ {c} : Terminal(k) => Terminal(k)'
    BY <2>1, <2>2 DEF RowsOK, Active, Terminal
  <2>5. ~HasActiveFollowUp(j)
    <3>1. \A k \in Job \ {j} : ~Active(k)
      BY <1>4 DEF RequeueOrphan
    <3>2. j \notin FollowUps(j)
      BY DEF RowsLinked, FollowUps, NoJob, Job
    <3> QED
      BY <3>1, <3>2 DEF HasActiveFollowUp, FollowUps
  <2>6. Terminal(j)'
    BY <2>1, <2>2 DEF RowsOK, Terminal
  <2> QED
    BY <1>1, <1>2, <2>3, <2>4, <2>5, <2>6, SingleAdded
<1> QED
  BY <1>3, <1>4 DEF RecoverStaleRunningJob

\* What leaves the rows alone and lets no thread ask anew.
LEMMA SingleQuiet ==
    ASSUME AllSingle, UNCHANGED <<status, parent, trigger>>, tainted \subseteq tainted',
           \A t \in Thread : \A k \in Job : MayFollowUp(t, k)' => MayFollowUp(t, k)
    PROVE  AllSingle'
<1>1. NoRowAdded
  BY DEF NoRowAdded
<1>2. \A k \in Job : (Active(k)' => Active(k)) /\ (Terminal(k) => Terminal(k)')
  BY DEF Active, Terminal
<1> QED
  BY <1>1, <1>2, SingleKept

\* The save of a report: a row brought back marks itself and the job it continues.
LEMMA SingleSave ==
    ASSUME FollowInv, NEW r \in inflight, HubSave(r)
    PROVE  AllSingle'
<1> USE DEF FollowInv, LinkInv, LockInv, TypeOK
<1>1. /\ r.thread \in Thread /\ r.job \in Job
      /\ r.kind = "final" => r.status \in {"finished", "error"}
  BY ReportFields
<1>2. status[r.job] # "absent" /\ (pc[r.thread] # "idle" => job[r.thread] = r.job)
  BY DEF WorkOnRows
<1>3. CASE FinalSave(r)
  <2>1. /\ UNCHANGED <<parent, trigger, tainted>>
        /\ \E st \in {"finished", "error"} : status' = [status EXCEPT ![r.job] = st]
    BY <1>1, <1>3 DEF FinalSave, history
  <2>2. NoRowAdded
    BY <1>1, <1>2, <2>1 DEF NoRowAdded, RowsOK
  <2>3. \A k \in Job : (Active(k)' => Active(k)) /\ (Terminal(k) => Terminal(k)')
    BY <1>1, <2>1 DEF RowsOK, Active, Terminal
  <2>4. \A t \in Thread, k \in Job : MayFollowUp(t, k)' => MayFollowUp(t, k)
    BY <1>1, <1>3 DEF FinalSave, agent, MayFollowUp, Leave, SetPc, AgentOK
  <2> QED
    BY <2>1, <2>2, <2>3, <2>4, SingleKept
<1>4. CASE StartSave(r) \/ BeatSave(r)
  <2>1. /\ UNCHANGED <<parent, trigger>>
        /\ status' = [status EXCEPT ![r.job] = "running"]
        /\ tainted' = Revived(r) \/ tainted' = Revived(r) \cup {r.job}
    BY <1>4 DEF StartSave, BeatSave, SaveRunning
  <2>2. NoRowAdded
    BY <1>1, <1>2, <2>1 DEF NoRowAdded, RowsOK
  <2>3. tainted \subseteq tainted' /\ Revived(r) \subseteq tainted'
    BY <2>1 DEF Revived
  <2>4. Terminal(r.job) => r.job \in tainted' /\ (parent[r.job] # NoJob => parent[r.job] \in tainted')
    BY <1>1, <2>3 DEF Revived, NoJob, Job
  <2>5. \A k \in Job : Active(k)' => Active(k) \/ parent[k] = NoJob \/ parent[k] \in tainted'
    <3>1. Active(r.job) \/ Terminal(r.job)
      BY <1>1, <1>2 DEF RowsOK, Active, Terminal
    <3>2. \A k \in Job \ {r.job} : Active(k)' => Active(k)
      BY <2>1 DEF RowsOK, Active
    <3> QED
      BY <2>4, <3>1, <3>2
  <2>6. \A k \in Job \ tainted' : Terminal(k) => Terminal(k)'
    <3>1. \A k \in Job \ {r.job} : Terminal(k) => Terminal(k)'
      BY <2>1 DEF RowsOK, Terminal
    <3> QED
      BY <2>4, <3>1
  <2>7. ASSUME NEW k \in Job \ tainted', NEW t \in Thread, MayFollowUp(t, k)'
        PROVE  MayFollowUp(t, k) \/ ~HasActiveFollowUp(k)
    <3>1. CASE UNCHANGED agent
      BY <2>7, <3>1 DEF agent, MayFollowUp
    <3>2. CASE ~UNCHANGED agent
      <4>1. /\ pc[r.thread] = "starting" /\ SetPc(r.thread, "running")
            /\ UNCHANGED <<job, followup>>
            /\ HasActiveFollowUp(r.job) => r.job \in tainted'
        BY <1>4, <3>2 DEF StartSave, BeatSave
      <4>2. CASE t = r.thread
        BY <1>2, <2>7, <4>1, <4>2 DEF MayFollowUp
      <4>3. CASE t # r.thread
        BY <1>1, <2>7, <4>1, <4>3 DEF MayFollowUp, SetPc, AgentOK
      <4> QED
        BY <4>2, <4>3
    <3> QED
      BY <3>1, <3>2
  <2> QED
    BY <2>2, <2>3, <2>5, <2>6, <2>7, SingleKept
<1> QED
  BY <1>3, <1>4 DEF HubSave

\* A reschedule by the thread that works on the job: it is the first one asked for, or
\* the job is marked, and afterwards the thread asks no more.
LEMMA SingleReschedule ==
    ASSUME FollowInv, NEW t \in Thread, NEW isPatched \in BOOLEAN, NEW j \in Job,
           pc[t] # "idle", job[t] = j, RescheduleJob(j, isPatched), tainted \subseteq tainted',
           \A u \in Thread : \A k \in Job \ tainted' :
              MayFollowUp(u, k)' => MayFollowUp(u, k) /\ ~(u = t /\ k = j),
           MayFollowUp(t, j) \/ j \in tainted'
    PROVE  AllSingle'
<1> USE DEF FollowInv, LinkInv, LockInv
<1>1. status[j] # "absent" /\ ~Terminal(j)
  BY DEF WorkOnRows, RescheduleJob
<1>2. CASE UNCHANGED <<table, msgs>>
  <2>1. NoRowAdded
    BY <1>2 DEF NoRowAdded, table
  <2>2. \A k \in Job : (Active(k)' => Active(k)) /\ (Terminal(k) => Terminal(k)')
    BY <1>2 DEF table, Active, Terminal
  <2> QED
    BY <2>1, <2>2, SingleKept
<1>3. ASSUME NEW c \in NextRow, RowAdded(c, j, "agent_reschedule"),
             \A k \in Job \ {c} : status'[k] # status[k] => status'[k] = "cancelled"
      PROVE  AllSingle'
  <2>1. /\ \A k \in Job \ {c} : Active(k)' => Active(k)
        /\ \A k \in Job \ {c} : Terminal(k) => Terminal(k)'
    BY <1>3 DEF Active, Terminal
  <2>2. \A k \in Job \ tainted' : \A u \in Thread : MayFollowUp(u, k)' => MayFollowUp(u, k)
    OBVIOUS
  <2>3. ASSUME j \notin tainted'
        PROVE  ~HasActiveFollowUp(j) /\ \A u \in Thread : ~MayFollowUp(u, j)'
    <3>1. MayFollowUp(t, j) /\ Single(j)
      BY <2>3 DEF AllSingle
    <3>2. ~HasActiveFollowUp(j)
      BY <1>1, <3>1 DEF Single
    <3>3. ASSUME NEW u \in Thread, MayFollowUp(u, j)' PROVE FALSE
      <4>1. MayFollowUp(u, j) /\ u # t
        BY <2>3, <3>3
      <4>2. pc[u] \in Holding /\ pc[t] \in Holding
        BY <3>1, <4>1 DEF MayFollowUp, Holding
      <4> QED
        BY <4>1, <4>2 DEF LockOK
    <3> QED
      BY <3>2, <3>3
  <2> QED
    BY <1>3, <2>1, <2>2, <2>3, SingleAdded DEF TypeOK
<1> QED
  BY <1>1, <1>2, <1>3, RescheduleRows DEF LockInv

\* A thread's steps leave every job its one follow-up.
LEMMA SingleThread ==
    ASSUME FollowInv, NEW t \in Thread,
           \/ AcquireLock(t) \/ BeatRead(t) \/ BeatRefused(t) \/ RunnerFollowsUp(t)
           \/ ThreadStep(t) \/ ThreadFault(t)
    PROVE  AllSingle'
<1> USE DEF FollowInv, LinkInv, LockInv, TypeOK, AgentOK
<1>1. ASSUME \/ AcquireLock(t) \/ BeatRead(t) \/ BeatRefused(t)
             \/ StartRead(t) \/ RunnerStep(t) \/ RescheduleRefused(t) \/ FinalRead(t)
             \/ RunnerLosesNetwork(t) \/ RescheduleUnsent(t)
      PROVE  AllSingle'
  <2>1. UNCHANGED <<status, parent, trigger, tainted>>
    BY <1>1 DEF AcquireLock, BeatRead, BeatRefused, StartRead, FinalRead, ReadReport,
                RunnerStep, RunnerReschedules, RunnerReturns, RunnerRaises, RunnerCoolsDown,
                RunnerLosesNetwork, RunnerEnds, RescheduleRefused, RescheduleUnsent,
                table, history
  <2>2. \/ UNCHANGED <<pc, job, followup>>
        \/ UNCHANGED <<job, followup>> /\ SetPc(t, "starting")
        \/ /\ pc[t] \in {"running", "rescheduling"}
           /\ UNCHANGED <<job, followup>>
           /\ \E to \in Holding : SetPc(t, to)
    BY <1>1 DEF AcquireLock, BeatRead, BeatRefused, StartRead, FinalRead, ReadReport,
                RunnerStep, RunnerReschedules, RunnerReturns, RunnerRaises, RunnerCoolsDown,
                RunnerLosesNetwork, RunnerEnds, RescheduleRefused, RescheduleUnsent,
                agent, Holding
  <2>3. \A u \in Thread : \A k \in Job : MayFollowUp(u, k)' => MayFollowUp(u, k)
    BY <2>2 DEF MayFollowUp, SetPc
  <2> QED
    BY <2>1, <2>3, SingleQuiet
<1>2. ASSUME Leave(t), UNCHANGED <<table, tainted>> PROVE AllSingle'
  <2>1. \A u \in Thread : \A k \in Job : MayFollowUp(u, k)' => MayFollowUp(u, k)
    BY <1>2 DEF MayFollowUp, Leave, SetPc
  <2> QED
    BY <1>2, <2>1, SingleQuiet DEF table
<1>3. CASE FinalFails(t)
  <2>1. CASE Leave(t)
    BY <1>2, <1>3, <2>1 DEF FinalFails, history
  <2>2. CASE ~Leave(t)
    <3>1. /\ UNCHANGED <<status, parent, trigger, tainted, job, followup>>
          /\ pc[t] = "reporting" /\ (SetPc(t, "retrying") \/ SetPc(t, "closing"))
      BY <1>3, <2>2 DEF FinalFails, table, history
    <3>2. \A u \in Thread : \A k \in Job : MayFollowUp(u, k)' => MayFollowUp(u, k)
      BY <3>1 DEF MayFollowUp, SetPc
    <3> QED
      BY <3>1, <3>2, SingleQuiet
  <2> QED
    BY <2>1, <2>2
<1>4. ASSUME NEW isPatched \in BOOLEAN, pc[t] # "idle", RescheduleJob(job[t], isPatched),
             tainted \subseteq tainted',
             \A u \in Thread : \A k \in Job \ tainted' :
                MayFollowUp(u, k)' => MayFollowUp(u, k) /\ ~(u = t /\ k = job[t]),
             MayFollowUp(t, job[t]) \/ job[t] \in tainted'
      PROVE  AllSingle'
  <2>1. PICK j \in Job : j = job[t]
    BY <1>4
  <2> QED
    BY <1>4, <2>1, SingleReschedule
<1>5. CASE RunnerFollowsUp(t)
  <2>1. /\ pc[t] = "running" /\ followup[t] = "none" /\ RescheduleJob(job[t], TRUE)
        /\ UNCHANGED <<pc, job, tainted>> /\ followup' = [followup EXCEPT ![t] = "own"]
    BY <1>5 DEF RunnerFollowsUp
  <2> QED
    BY <1>4, <2>1 DEF MayFollowUp
<1>6. ASSUME Reschedule(t) \/ RescheduleReplyLost(t) \/ RescheduleFails(t) PROVE AllSingle'
  <2>0. CASE RescheduleFails(t) /\ UNCHANGED <<table, msgs>>
    <3>1. /\ UNCHANGED <<status, parent, trigger, tainted, job, followup>>
          /\ pc[t] = "rescheduling" /\ SetPc(t, "closing")
      BY <2>0 DEF RescheduleFails, table
    <3>2. \A u \in Thread : \A k \in Job : MayFollowUp(u, k)' => MayFollowUp(u, k)
      BY <3>1 DEF MayFollowUp, SetPc
    <3> QED
      BY <3>1, <3>2, SingleQuiet
  <2> SUFFICES ASSUME ~(RescheduleFails(t) /\ UNCHANGED <<table, msgs>>) PROVE AllSingle'
    BY <2>0
  <2>1. PICK isPatched \in BOOLEAN : RescheduleJob(job[t], isPatched)
    BY <1>6 DEF Reschedule, RescheduleReplyLost, RescheduleFails
  <2>2. pc[t] = "rescheduling" /\ MayFollowUp(t, job[t])
    BY <1>6 DEF Reschedule, RescheduleReplyLost, RescheduleFails, FollowupKnown, MayFollowUp
  <2>3. CASE Reschedule(t)
    <3>1. /\ UNCHANGED <<job, tainted>> /\ SetPc(t, "reporting")
          /\ followup' = [followup EXCEPT ![t] = "executor"]
      BY <2>3 DEF Reschedule
    <3> QED
      BY <1>4, <2>1, <2>2, <3>1 DEF MayFollowUp, SetPc
  <2>4. CASE RescheduleReplyLost(t)
    <3>1. /\ UNCHANGED <<job, followup>> /\ SetPc(t, "retrying")
          /\ tainted' = tainted \cup {job[t]}
      BY <2>4 DEF RescheduleReplyLost
    <3> QED
      BY <1>4, <2>1, <2>2, <3>1 DEF MayFollowUp, SetPc
  <2>5. CASE RescheduleFails(t)
    <3>1. UNCHANGED <<job, followup, tainted>> /\ SetPc(t, "closing")
      BY <2>5 DEF RescheduleFails
    <3> QED
      BY <1>4, <2>1, <2>2, <3>1 DEF MayFollowUp, SetPc
  <2> QED
    BY <1>6, <2>3, <2>4, <2>5
<1>7. CASE RetryReschedule(t) \/ RetryReplyLost(t)
  <2>1. pc[t] = "retrying" /\ RescheduleJob(job[t], FALSE) /\ RetryTaint(t)
    BY <1>7 DEF RetryReschedule, RetryReplyLost
  <2>2. tainted \subseteq tainted' /\ (MayFollowUp(t, job[t]) \/ job[t] \in tainted')
    BY <2>1 DEF RetryTaint, FollowupKnown, MayFollowUp
  <2>3. ASSUME NEW u \in Thread, NEW k \in Job, MayFollowUp(u, k)'
        PROVE  MayFollowUp(u, k) /\ u # t
    BY <1>7, <2>3, ZenonT(40) DEF RetryReschedule, RetryReplyLost, Leave, SetPc, MayFollowUp
  <2> QED
    BY <1>4, <2>1, <2>2, <2>3
<1>8. ASSUME \/ StartRefused(t) \/ RetryRefused(t) \/ FinalRefused(t)
             \/ StartFails(t) \/ RetryUnsent(t)
      PROVE  Leave(t) /\ UNCHANGED <<table, tainted>>
  BY <1>8 DEF StartRefused, RetryRefused, FinalRefused, StartFails, RetryUnsent, history
<1> QED
  BY <1>1, <1>2, <1>3, <1>5, <1>6, <1>7, <1>8 DEF ThreadStep, ThreadFault

\* Every step leaves every job its one follow-up.
LEMMA SingleNext == FollowInv /\ [Next]_vars => AllSingle'
<1> SUFFICES ASSUME FollowInv, [Next]_vars PROVE AllSingle'
  OBVIOUS
<1> USE DEF FollowInv, LinkInv, LockInv, TypeOK, AgentOK
<1>1. ASSUME \/ LoseMessages \/ UNCHANGED vars
             \/ \E j \in Job : \/ RecoverStaleScheduledJob(j) \/ LeaseExpires(j)
                               \/ ChildAges(j) \/ JobClaimLost(j)
      PROVE  AllSingle'
  <2>1. UNCHANGED <<status, parent, trigger, tainted, pc, job, followup>>
    BY <1>1 DEF LoseMessages, vars, RecoverStaleScheduledJob, LeaseExpires, ChildAges,
                JobClaimLost, table, history, agent
  <2> QED
    BY <2>1, SingleQuiet DEF MayFollowUp
<1>2. ASSUME NEW t \in Thread, NEW j \in Job, Arrival(t, j) PROVE AllSingle'
  <2>1. /\ UNCHANGED <<status, parent, trigger, tainted, followup>>
        /\ pc' = [pc EXCEPT ![t] = "waiting"] /\ job' = [job EXCEPT ![t] = j]
    BY <1>2 DEF Arrival, Deliver, JobClaim, Assign, table, history
  <2>2. \A u \in Thread : \A k \in Job : MayFollowUp(u, k)' => MayFollowUp(u, k)
    BY <2>1 DEF MayFollowUp
  <2> QED
    BY <2>1, <2>2, SingleQuiet
<1>3. CASE Crash
  <2>1. UNCHANGED <<status, parent, trigger, tainted>>
    BY <1>3 DEF Crash, table, history
  <2>2. \A u \in Thread : \A k \in Job : ~MayFollowUp(u, k)'
    BY <1>3 DEF Crash, MayFollowUp
  <2> QED
    BY <2>1, <2>2, SingleQuiet
<1> QED
  BY <1>1, <1>2, <1>3, SingleOperators, SingleRecovery, SingleThread, SingleSave
     DEF Next, Recovery

\* Both hold of every reachable state.
LEMMA FollowInvariant == Spec => []FollowInv
<1>1. Init => FollowInv
  <2> SUFFICES ASSUME Init PROVE FollowInv
    OBVIOUS
  <2>1. RowsLinked
    BY DEF Init, RowsLinked
  <2>2. WorkOnRows /\ FollowupKnown
    BY DEF Init, WorkOnRows, FollowupKnown
  <2>3. AllSingle
    BY DEF Init, AllSingle, Single, FollowUps, HasActiveFollowUp, NoJob, Job
  <2> QED
    BY <2>1, <2>2, <2>3, LockInit DEF FollowInv, LinkInv
<1>2. FollowInv /\ [Next]_vars => FollowInv'
  <2> SUFFICES ASSUME FollowInv, [Next]_vars PROVE FollowInv'
    OBVIOUS
  <2>1. TypeOK /\ RowsLinked /\ WorkOnRows /\ FollowupKnown /\ LockInv
    BY DEF FollowInv, LinkInv, LockInv
  <2>2. LockInv'
    BY <2>1, TypeNext, LockNext DEF LockInv
  <2>3. RowsLinked' /\ WorkOnRows' /\ FollowupKnown'
    BY <2>1, LinkNext, FollowupKnownNext
  <2> QED
    BY <2>2, <2>3, SingleNext DEF FollowInv, LinkInv
<1> QED
  BY <1>1, <1>2, PTL DEF Spec

\* The idempotency of _reschedule(), its terminal check, the guards of the recovery and
\* followup_committed leave every unmarked job at most one follow-up to run.
THEOREM GoesOnOnce == Spec => []OneFollowUp
<1>1. FollowInv => OneFollowUp
  BY DEF FollowInv, AllSingle, Single, OneFollowUp
<1> QED
  BY <1>1, FollowInvariant, PTL

-----------------------------------------------------------------------------
(* A job runs once while nothing fails *)

\* No failure yet, and no heartbeat that another step overtook.
Calm == faults = 0 /\ beats = 0

\* A report at the hub is the one its thread waits for, and a job that started is at
\* work or ended.
ReportsAwaited ==
    \A r \in inflight :
        \/ r.kind = "start" /\ pc[r.thread] = "starting" /\ began[r.job] = {}
        \/ r.kind = "final" /\ pc[r.thread] \in {"reporting", "closing"}

StartedAtWork ==
    \A j \in Job : began[j] # {} =>
        Terminal(j) \/ \E t \in Thread : job[t] = j /\ pc[t] \in Holding \ {"starting"}

OneReport ==
    \A r, s \in inflight : r.thread = s.thread /\ r.kind = s.kind => r = s

OnceInv == LinkInv /\ OneReport /\ (Calm => ReportsAwaited /\ StartedAtWork)

\* Only the reading of a report adds one.
LEMMA ReportsRead ==
    ASSUME [Next]_vars
    PROVE  \/ inflight' \subseteq inflight
           \/ \E t \in Thread : StartRead(t) \/ BeatRead(t) \/ FinalRead(t)
<1>1. ASSUME NEW t \in Thread,
             \/ AcquireLock(t) \/ BeatRefused(t) \/ RunnerFollowsUp(t)
             \/ StartRefused(t) \/ RunnerStep(t) \/ Reschedule(t) \/ RescheduleRefused(t)
             \/ RetryReschedule(t) \/ RetryRefused(t) \/ FinalRefused(t) \/ ThreadFault(t)
      PROVE  UNCHANGED inflight
  BY <1>1 DEF AcquireLock, BeatRefused, RunnerFollowsUp,
       StartRefused, RunnerStep, RunnerReschedules, RunnerReturns,
       RunnerRaises, RunnerCoolsDown, RunnerEnds, Reschedule, RescheduleRefused,
       RetryReschedule, RetryRefused, FinalRefused, ThreadFault, StartFails,
       RunnerLosesNetwork, RescheduleReplyLost, RescheduleUnsent, RescheduleFails, RetryReplyLost,
       RetryUnsent, FinalFails
<1>2. ASSUME \/ Operators \/ LoseMessages \/ Crash \/ UNCHANGED vars
             \/ \E j \in Job : Recovery(j) \/ LeaseExpires(j) \/ ChildAges(j) \/ JobClaimLost(j)
             \/ \E t \in Thread, j \in Job : Arrival(t, j)
      PROVE  UNCHANGED inflight
  BY <1>2 DEF Operators, JobCancel, JobRunNow, JobRetry, JobRestart, JobUnstuck, OperatorJob,
              LoseMessages, vars, Recovery, RecoverStaleRunningJob, RecoverStaleScheduledJob,
              LeaseExpires, ChildAges, JobClaimLost, Arrival, Deliver, JobClaim, Crash
<1>3. ASSUME NEW r \in inflight, HubSave(r) PROVE inflight' \subseteq inflight
  BY <1>3 DEF HubSave, StartSave, BeatSave, SaveRunning, FinalSave
<1> QED
  BY <1>1, <1>2, <1>3 DEF Next, ThreadStep

\* A thread has one report of a kind at the hub.
LEMMA OneReportNext ==
    ASSUME OneReport, [Next]_vars
    PROVE  OneReport'
<1>1. ASSUME NEW t \in Thread, NEW kind, NEW st, ReadReport(t, kind, st) PROVE OneReport'
  BY <1>1 DEF ReadReport, ReportOf, Sent, OneReport
<1>2. ASSUME NEW t \in Thread, StartRead(t) \/ BeatRead(t) \/ FinalRead(t) PROVE OneReport'
  BY <1>1, <1>2 DEF StartRead, BeatRead, FinalRead
<1>3. ASSUME inflight' \subseteq inflight PROVE OneReport'
  BY <1>3 DEF OneReport
<1> QED
  BY <1>2, <1>3, ReportsRead

\* A step after which nothing has failed is none of the failures.
LEMMA CalmStep ==
    ASSUME TypeOK, [Next]_vars, Calm'
    PROVE  /\ Calm
           /\ \/ UNCHANGED vars
              \/ Operators
              \/ \E j \in Job : Recovery(j) \/ LeaseExpires(j) \/ ChildAges(j)
              \/ \E t \in Thread, j \in Job : Arrival(t, j)
              \/ \E t \in Thread : AcquireLock(t) \/ BeatRefused(t) \/ RunnerFollowsUp(t) \/ ThreadStep(t)
              \/ \E r \in inflight : HubSave(r)
<1> USE DEF TypeOK, BoundsOK, Calm
<1>1. faults \in Nat /\ beats \in Nat
  BY ConstantsAssumption DEF ConstantsAssumption
<1>2. ~Fault
  BY <1>1 DEF Fault
<1>3. \A t \in Thread : ~BeatRead(t)
  BY <1>1 DEF BeatRead
<1>4. ~LoseMessages /\ ~Crash /\ (\A j \in Job : ~JobClaimLost(j)) /\ \A t \in Thread : ~ThreadFault(t)
  BY <1>2 DEF LoseMessages, Crash, JobClaimLost, ThreadFault, StartFails, RunnerLosesNetwork,
              RescheduleReplyLost, RescheduleUnsent, RescheduleFails, RetryReplyLost, RetryUnsent, FinalFails
<1>5. \/ UNCHANGED vars
      \/ Operators
      \/ \E j \in Job : Recovery(j) \/ LeaseExpires(j) \/ ChildAges(j)
      \/ \E t \in Thread, j \in Job : Arrival(t, j)
      \/ \E t \in Thread : AcquireLock(t) \/ BeatRefused(t) \/ RunnerFollowsUp(t) \/ ThreadStep(t)
      \/ \E r \in inflight : HubSave(r)
  BY <1>3, <1>4 DEF Next
<1>6. faults' = faults /\ beats' = beats
  <2>1. CASE UNCHANGED vars
    BY <2>1 DEF vars, bounds
  <2>2. CASE Operators
    BY <2>2 DEF Operators, JobCancel, JobRunNow, JobRetry, JobRestart, JobUnstuck, Act
  <2>3. CASE \E j \in Job : Recovery(j) \/ LeaseExpires(j) \/ ChildAges(j)
    BY <1>2, <2>3 DEF Recovery, RecoverStaleRunningJob, RecoverStaleScheduledJob, LeaseExpires,
                      ChildAges, bounds
  <2>4. CASE \E t \in Thread, j \in Job : Arrival(t, j)
    BY <2>4 DEF Arrival, Deliver, JobClaim, bounds
  <2>5. CASE \E t \in Thread : AcquireLock(t) \/ BeatRefused(t) \/ RunnerFollowsUp(t) \/ ThreadStep(t)
    BY <2>5 DEF AcquireLock, BeatRefused, RunnerFollowsUp, ThreadStep, StartRead, StartRefused,
                RunnerStep, RunnerReschedules, RunnerReturns, RunnerRaises, RunnerCoolsDown,
                Reschedule, RescheduleRefused, RetryReschedule, RetryRefused, FinalRead,
                FinalRefused, ReadReport, bounds
  <2>6. CASE \E r \in inflight : HubSave(r)
    BY <2>6 DEF HubSave, StartSave, BeatSave, FinalSave, SaveRunning, bounds
  <2> QED
    BY <1>5, <2>1, <2>2, <2>3, <2>4, <2>5, <2>6
<1> QED
  BY <1>5, <1>6

\* A step that saves no report keeps what started at work, when a thread that leaves its
\* payload leaves an ended job.
LEMMA OnceKept ==
    ASSUME TypeOK, StartedAtWork, ReportsAwaited, UNCHANGED <<began, inflight>>,
           \A j \in Job : Terminal(j) => Terminal(j)',
           \A u \in Thread : pc[u] \in Holding \ {"starting"} =>
              \/ pc'[u] \in Holding \ {"starting"} /\ job'[u] = job[u]
              \/ Terminal(job[u]),
           \A r \in inflight : pc'[r.thread] = pc[r.thread]
    PROVE  StartedAtWork' /\ ReportsAwaited'
<1>1. ReportsAwaited'
  BY DEF ReportsAwaited
<1>2. ASSUME NEW j \in Job, began'[j] # {}
      PROVE  Terminal(j)' \/ \E t \in Thread : job'[t] = j /\ pc'[t] \in Holding \ {"starting"}
  BY <1>2 DEF StartedAtWork
<1> QED
  BY <1>1, <1>2 DEF StartedAtWork

\* The steps of the hub and the operators, and a job's arrival.
LEMMA OnceHub ==
    ASSUME OnceInv, Calm, [Next]_vars,
           \/ UNCHANGED vars
           \/ Operators
           \/ \E j \in Job : Recovery(j) \/ LeaseExpires(j) \/ ChildAges(j)
           \/ \E t \in Thread, j \in Job : Arrival(t, j)
    PROVE  StartedAtWork' /\ ReportsAwaited'
<1> USE DEF OnceInv, LinkInv, LockInv
<1>1. UNCHANGED <<began, inflight>>
  BY DEF vars, Operators, JobCancel, JobRunNow, JobRetry, JobRestart, JobUnstuck, OperatorJob,
         Recovery, RecoverStaleRunningJob, RecoverStaleScheduledJob, LeaseExpires, ChildAges,
         Arrival, Deliver, JobClaim, table, clock
<1>2. \/ UNCHANGED <<pc, job>>
      \/ \E t \in Thread, j \in Job : Assign(t, j)
  BY DEF vars, Operators, JobCancel, JobRunNow, JobRetry, JobRestart, JobUnstuck, OperatorJob,
         Recovery, RecoverStaleRunningJob, RecoverStaleScheduledJob, LeaseExpires, ChildAges,
         Arrival, Deliver, JobClaim, agent
<1>3. ~\E r \in inflight : HubSave(r)
  <2>1. ASSUME NEW r \in inflight, HubSave(r) PROVE inflight' # inflight
    BY <2>1 DEF HubSave, StartSave, BeatSave, SaveRunning, FinalSave
  <2> QED
    BY <1>1, <2>1
<1>4. \A j \in Job : Terminal(j) => Terminal(j)'
  BY <1>3, EndedKept DEF Terminal
<1>5. CASE UNCHANGED <<pc, job>>
  BY <1>1, <1>4, <1>5, OnceKept
<1>6. ASSUME NEW t \in Thread, NEW j \in Job, Assign(t, j)
      PROVE  StartedAtWork' /\ ReportsAwaited'
  <2>1. \A r \in inflight : pc'[r.thread] = pc[r.thread]
    BY <1>6 DEF Assign, TypeOK, AgentOK, ReportsAwaited
  <2>2. \A u \in Thread : pc[u] \in Holding \ {"starting"} =>
           pc'[u] \in Holding \ {"starting"} /\ job'[u] = job[u]
    BY <1>6 DEF Assign, TypeOK, AgentOK, Holding
  <2> QED
    BY <1>1, <1>4, <2>1, <2>2, OnceKept
<1> QED
  BY <1>2, <1>5, <1>6

\* A thread's own steps: it asks for what it is ready for, and leaves an ended job.
LEMMA OnceThread ==
    ASSUME OnceInv, Calm, [Next]_vars, NEW t \in Thread,
           AcquireLock(t) \/ BeatRefused(t) \/ RunnerFollowsUp(t) \/ ThreadStep(t)
    PROVE  StartedAtWork' /\ ReportsAwaited'
<1> USE DEF OnceInv, LinkInv, LockInv, TypeOK
<1>1. began' = began
  BY DEF AcquireLock, BeatRefused, RunnerFollowsUp, ThreadStep, StartRead, StartRefused,
         RunnerStep, RunnerReschedules, RunnerReturns, RunnerRaises, RunnerCoolsDown, RunnerEnds,
         Reschedule, RescheduleRefused, RetryReschedule, RetryRefused, FinalRead,
         FinalRefused, ReadReport, RescheduleJob, table, clock
<1>2. inflight \subseteq inflight'
  BY DEF AcquireLock, BeatRefused, RunnerFollowsUp, ThreadStep, StartRead, StartRefused,
         RunnerStep, RunnerReschedules, RunnerReturns, RunnerRaises, RunnerCoolsDown, RunnerEnds,
         Reschedule, RescheduleRefused, RetryReschedule, RetryRefused, FinalRead,
         FinalRefused, ReadReport
<1>3. ~\E r \in inflight : HubSave(r)
  <2>1. ASSUME NEW r \in inflight, HubSave(r) PROVE r \notin inflight'
    BY <2>1 DEF HubSave, StartSave, BeatSave, SaveRunning, FinalSave
  <2> QED
    BY <1>2, <2>1
<1>4. \A j \in Job : Terminal(j) => Terminal(j)'
  BY <1>3, EndedKept DEF Terminal
<1>5. \A r \in inflight : r.thread = t =>
         \/ r.kind = "start" /\ pc[t] = "starting" /\ Sent(t, "start")
         \/ r.kind = "final" /\ pc[t] \in {"reporting", "closing"} /\ Sent(t, "final")
  BY DEF ReportsAwaited, Sent
<1>6. CASE AcquireLock(t) \/ BeatRefused(t) \/ RunnerFollowsUp(t)
  <2>1. /\ UNCHANGED <<job, inflight>>
        /\ \/ UNCHANGED pc
           \/ pc[t] = "waiting" /\ pc' = [pc EXCEPT ![t] = "starting"]
    BY <1>6 DEF AcquireLock, BeatRefused, RunnerFollowsUp, SetPc
  <2>2. \A r \in inflight : pc'[r.thread] = pc[r.thread]
    <3>1. ASSUME NEW r \in inflight PROVE pc'[r.thread] = pc[r.thread]
      <4>1. r.thread \in Thread
        BY ReportFields
      <4>2. pc[r.thread] # "waiting"
        BY DEF ReportsAwaited
      <4> QED
        BY <2>1, <4>1, <4>2 DEF AgentOK
    <3> QED
      BY <3>1
  <2>3. \A u \in Thread : pc[u] \in Holding \ {"starting"} =>
           pc'[u] \in Holding \ {"starting"} /\ job'[u] = job[u]
    BY <2>1 DEF AgentOK, Holding
  <2> QED
    BY <1>1, <1>4, <2>1, <2>2, <2>3, OnceKept
<1>7. CASE \/ RunnerStep(t) \/ Reschedule(t) \/ RescheduleRefused(t) \/ RetryReschedule(t)
  <2>1. /\ UNCHANGED <<job, inflight>>
        /\ pc[t] \in {"running", "rescheduling", "retrying"}
        /\ \E to \in Holding \ {"starting"} : pc' = [pc EXCEPT ![t] = to]
    BY <1>7 DEF RunnerStep, RunnerReschedules, RunnerReturns, RunnerRaises, RunnerCoolsDown,
                RunnerEnds, Reschedule, RescheduleRefused, RetryReschedule, SetPc, Holding
  <2>2. \A r \in inflight : pc'[r.thread] = pc[r.thread]
    BY <1>5, <2>1 DEF AgentOK
  <2>3. \A u \in Thread : pc[u] \in Holding \ {"starting"} =>
           pc'[u] \in Holding \ {"starting"} /\ job'[u] = job[u]
    BY <2>1 DEF AgentOK
  <2> QED
    BY <1>1, <1>4, <2>1, <2>2, <2>3, OnceKept
<1>8. CASE StartRefused(t) \/ RetryRefused(t) \/ FinalRefused(t)
  <2>1. /\ Leave(t) /\ UNCHANGED inflight /\ Terminal(job[t])
        /\ pc[t] = "starting" => ~Sent(t, "start")
        /\ pc[t] \in {"reporting", "closing"} => ~Sent(t, "final")
    BY <1>8 DEF StartRefused, RetryRefused, FinalRefused
  <2>2. \A r \in inflight : pc'[r.thread] = pc[r.thread]
    BY <1>5, <2>1 DEF Leave, SetPc, AgentOK
  <2>3. \A u \in Thread : pc[u] \in Holding \ {"starting"} =>
           \/ pc'[u] \in Holding \ {"starting"} /\ job'[u] = job[u]
           \/ Terminal(job[u])
    BY <2>1 DEF Leave, SetPc, AgentOK
  <2> QED
    BY <1>1, <1>4, <2>1, <2>2, <2>3, OnceKept
<1>9. CASE StartRead(t) \/ FinalRead(t)
  <2>1. UNCHANGED <<status, pc, job>>
    BY <1>9 DEF StartRead, FinalRead, ReadReport, table, agent
  <2>2. StartedAtWork'
    BY <1>1, <2>1 DEF StartedAtWork, Terminal
  <2>3. CASE StartRead(t)
    <3>1. pc[t] = "starting" /\ ~Terminal(job[t]) /\ job[t] \in Job
      BY <2>3 DEF StartRead, ReadReport, AgentOK
    <3>2. began[job[t]] = {}
      <4>1. ASSUME NEW u \in Thread, pc[u] \in Holding \ {"starting"} PROVE FALSE
        BY <3>1, <4>1 DEF LockOK, Holding
      <4> QED
        BY <3>1, <4>1 DEF StartedAtWork
    <3>3. \A r \in inflight' : r \in inflight \/ (r.kind = "start" /\ r.thread = t /\ r.job = job[t])
      BY <2>3 DEF StartRead, ReadReport, ReportOf
    <3> QED
      BY <1>1, <2>1, <2>2, <3>1, <3>2, <3>3 DEF ReportsAwaited
  <2>4. CASE FinalRead(t)
    <3>1. pc[t] \in {"reporting", "closing"}
      BY <2>4 DEF FinalRead
    <3>2. \A r \in inflight' : r \in inflight \/ (r.kind = "final" /\ r.thread = t)
      BY <2>4 DEF FinalRead, ReadReport, ReportOf
    <3> QED
      BY <1>1, <2>1, <2>2, <3>1, <3>2 DEF ReportsAwaited
  <2> QED
    BY <1>9, <2>3, <2>4
<1> QED
  BY <1>6, <1>7, <1>8, <1>9 DEF ThreadStep

\* The save of a report is the one its thread waits for, and no other is at the hub.
LEMMA OnceSave ==
    ASSUME OnceInv, Calm, NEW r \in inflight, HubSave(r)
    PROVE  StartedAtWork' /\ ReportsAwaited'
<1> USE DEF OnceInv, LinkInv, LockInv, TypeOK
<1>1. /\ r.thread \in Thread /\ r.job \in Job
      /\ r.kind = "final" => r.status \in {"finished", "error"}
  BY ReportFields
<1>2. /\ \/ r.kind = "start" /\ pc[r.thread] = "starting"
         \/ r.kind = "final" /\ pc[r.thread] \in {"reporting", "closing"}
      /\ job[r.thread] = r.job
  BY DEF ReportsAwaited, WorkOnRows
<1>3. inflight = {r}
  <2>1. ASSUME NEW s \in inflight PROVE s = r
    <3>1. s.thread \in Thread
      BY ReportFields
    <3>2. \/ s.kind = "start" /\ pc[s.thread] = "starting"
          \/ s.kind = "final" /\ pc[s.thread] \in {"reporting", "closing"}
      BY DEF ReportsAwaited
    <3>3. s.thread = r.thread
      BY <1>1, <1>2, <3>1, <3>2 DEF LockOK, Holding
    <3> QED
      BY <1>2, <3>2, <3>3 DEF OneReport
  <2> QED
    BY <2>1
<1>4. inflight' = {}
  BY <1>3 DEF HubSave, StartSave, BeatSave, SaveRunning, FinalSave
<1>5. ReportsAwaited'
  BY <1>4 DEF ReportsAwaited
<1>6. \A k \in Job \ {r.job} : began'[k] = began[k] /\ (Terminal(k) => Terminal(k)')
  BY <1>1 DEF HubSave, StartSave, BeatSave, SaveRunning, RenewLease, FinalSave, ClockOK, RowsOK,
              Terminal
<1>7. CASE StartSave(r)
  <2>1. /\ pc' = [pc EXCEPT ![r.thread] = "running"] /\ job' = job /\ pc[r.thread] = "starting"
    BY <1>2, <1>7 DEF StartSave, SetPc
  <2>2. ASSUME NEW j \in Job, began'[j] # {}
        PROVE  Terminal(j)' \/ \E u \in Thread : job'[u] = j /\ pc'[u] \in Holding \ {"starting"}
    <3>1. CASE j = r.job
      <4>1. job'[r.thread] = j /\ pc'[r.thread] \in Holding \ {"starting"}
        BY <1>1, <1>2, <2>1, <3>1 DEF AgentOK, Holding
      <4> QED
        BY <1>1, <4>1
    <3>2. CASE j # r.job /\ ~Terminal(j)
      <4>1. PICK u \in Thread : job[u] = j /\ pc[u] \in Holding \ {"starting"}
        BY <1>6, <2>2, <3>2 DEF StartedAtWork
      <4>2. u # r.thread
        BY <2>1, <4>1
      <4> QED
        BY <2>1, <4>1, <4>2 DEF AgentOK
    <3> QED
      BY <1>6, <3>1, <3>2
  <2> QED
    BY <1>5, <2>2 DEF StartedAtWork
<1>8. CASE FinalSave(r)
  <2>1. Leave(r.thread)
    BY <1>2, <1>8 DEF FinalSave
  <2>2. Terminal(r.job)'
    BY <1>1, <1>8 DEF FinalSave, RowsOK, Terminal
  <2>3. ASSUME NEW j \in Job, began'[j] # {}
        PROVE  Terminal(j)' \/ \E u \in Thread : job'[u] = j /\ pc'[u] \in Holding \ {"starting"}
    <3>1. CASE j # r.job /\ ~Terminal(j)
      <4>1. PICK u \in Thread : job[u] = j /\ pc[u] \in Holding \ {"starting"}
        BY <1>6, <2>3, <3>1 DEF StartedAtWork
      <4>2. u # r.thread
        BY <1>2, <3>1, <4>1
      <4> QED
        BY <2>1, <4>1, <4>2 DEF AgentOK, Leave, SetPc
    <3> QED
      BY <1>6, <2>2, <3>1
  <2> QED
    BY <1>5, <2>3 DEF StartedAtWork
<1> QED
  BY <1>2, <1>7, <1>8 DEF HubSave, BeatSave

\* A thread starts to run its job only by the save of its first report.
LEMMA RunsBySave ==
    ASSUME TypeOK, [Next]_vars, NEW t \in Thread, pc[t] = "starting", pc'[t] = "running"
    PROVE  \E r \in inflight : r.thread = t /\ StartSave(r)
<1> USE DEF TypeOK, AgentOK
<1>1. ASSUME NEW u \in Thread,
             \/ AcquireLock(u) \/ BeatRead(u) \/ BeatRefused(u) \/ RunnerFollowsUp(u)
             \/ ThreadStep(u) \/ ThreadFault(u)
      PROVE  FALSE
  <2>1. \/ pc' = pc
        \/ \E to \in (Holding \cup {"idle"}) \ {"running"} : pc' = [pc EXCEPT ![u] = to]
    BY <1>1 DEF AcquireLock, BeatRead, BeatRefused, RunnerFollowsUp, ReadReport, ThreadStep,
         StartRead, StartRefused, RunnerStep, RunnerReschedules, RunnerReturns,
         RunnerRaises, RunnerCoolsDown, RunnerEnds, Reschedule, RescheduleRefused,
         RetryReschedule, RetryRefused, FinalRead, FinalRefused, ThreadFault, StartFails,
         RunnerLosesNetwork, RescheduleReplyLost, RescheduleUnsent, RescheduleFails, RetryReplyLost,
         RetryUnsent, FinalFails, Leave, SetPc, Holding, agent
  <2> QED
    BY <2>1
<1>2. ASSUME \/ Operators \/ LoseMessages \/ UNCHANGED vars
             \/ \E j \in Job : Recovery(j) \/ LeaseExpires(j) \/ ChildAges(j) \/ JobClaimLost(j)
      PROVE  FALSE
  <2>1. UNCHANGED pc
    BY <1>2 DEF Operators, JobCancel, JobRunNow, JobRetry, JobRestart, JobUnstuck, OperatorJob,
                LoseMessages, vars, Recovery, RecoverStaleRunningJob, RecoverStaleScheduledJob,
                LeaseExpires, ChildAges, JobClaimLost, agent
  <2> QED
    BY <2>1
<1>3. ASSUME NEW u \in Thread, NEW j \in Job, Arrival(u, j) PROVE FALSE
  BY <1>3 DEF Arrival, Deliver, JobClaim, Assign
<1>4. CASE Crash
  BY <1>4 DEF Crash
<1>5. ASSUME NEW r \in inflight, HubSave(r) PROVE r.thread = t /\ StartSave(r)
  <2>1. r.thread \in Thread
    BY ReportFields
  <2> QED
    BY <1>5, <2>1 DEF HubSave, StartSave, BeatSave, FinalSave, Leave, SetPc, agent
<1> QED
  BY <1>1, <1>2, <1>3, <1>4, <1>5 DEF Next

\* A copy of a message, a repeated claim or a second dispatch never runs a job again:
\* while nothing has failed, a job that starts has not started before.
THEOREM StartsOnce == Spec => RunsOnce
<1> DEFINE Once == \A t \in Thread :
                      faults = 0 /\ beats = 0 /\ pc[t] = "starting" /\ pc'[t] = "running"
                        => began[job[t]] = {}
<1>1. Init => OnceInv
  <2> SUFFICES ASSUME Init PROVE OnceInv
    OBVIOUS
  <2>1. RowsLinked /\ WorkOnRows /\ FollowupKnown
    BY DEF Init, RowsLinked, WorkOnRows, FollowupKnown
  <2>2. OneReport /\ ReportsAwaited /\ StartedAtWork
    BY DEF Init, OneReport, ReportsAwaited, StartedAtWork
  <2> QED
    BY <2>1, <2>2, LockInit DEF OnceInv, LinkInv
<1>2. OnceInv /\ [Next]_vars => OnceInv'
  <2> SUFFICES ASSUME OnceInv, [Next]_vars PROVE OnceInv'
    OBVIOUS
  <2>1. LinkInv /\ OneReport /\ (Calm => ReportsAwaited /\ StartedAtWork)
    BY DEF OnceInv
  <2>2. LinkInv'
    BY <2>1, TypeNext, LockNext, LinkNext, FollowupKnownNext DEF LinkInv, LockInv
  <2>3. OneReport'
    BY <2>1, OneReportNext
  <2>4. ASSUME Calm' PROVE StartedAtWork' /\ ReportsAwaited'
    BY <2>4, CalmStep, OnceHub, OnceThread, OnceSave DEF OnceInv, LinkInv, LockInv
  <2> QED
    BY <2>2, <2>3, <2>4 DEF OnceInv
<1>3. OnceInv /\ [Next]_vars => [Once]_vars
  <2> SUFFICES ASSUME OnceInv, [Next]_vars, NEW t \in Thread, Calm,
                      pc[t] = "starting", pc'[t] = "running"
               PROVE  began[job[t]] = {}
    BY DEF Calm
  <2>1. PICK r \in inflight : r.thread = t /\ StartSave(r)
    BY RunsBySave DEF OnceInv, LinkInv, LockInv
  <2> QED
    BY <2>1 DEF OnceInv, LinkInv, ReportsAwaited, WorkOnRows
<1> QED
  BY <1>1, <1>2, <1>3, PTL DEF Spec, RunsOnce

-----------------------------------------------------------------------------
(* What is past its start has left the queue *)

\* Job j has left the queue.
Begun(j) == status[j] \in {"running"} \cup TerminalStatus

\* A follow-up that the agent asked for continues job j.
Continued(j) == \E c \in Job : parent[c] = j /\ trigger[c] = "agent_reschedule"

PastStart == Holding \ {"starting"}
Ending == {"reporting", "closing"}

\* What is past its start, finished or continued has left the queue; and a thread that
\* knows of a follow-up has one.
BegunOK ==
    /\ \A t \in Thread : pc[t] \in PastStart => Begun(job[t])
    /\ \A r \in inflight : r.kind = "final" => Begun(r.job)
    /\ \A j \in Job : Continued(j) => Begun(j)
    /\ \A t \in Thread : followup[t] # "none" => Continued(job[t])

BegunInv == LinkInv /\ BegunOK

\* What left the queue does not come back to it.
LEMMA BegunKept ==
    ASSUME TypeOK, [Next]_vars, NEW j \in Job, Begun(j)
    PROVE  Begun(j)'
<1> USE DEF TypeOK, RowsOK, NextRow, Free, Begun
<1>1. ASSUME NEW k \in Job, NEW isPatched \in BOOLEAN, RescheduleJob(k, isPatched)
      PROVE  Begun(j)'
  BY <1>1 DEF RescheduleJob, table
<1>2. CASE Operators
  <2>1. CASE JobCancel
    BY <2>1 DEF JobCancel
  <2>2. ASSUME NEW k \in Job, JobRunNow(k) \/ JobRetry(k) \/ JobRestart(k) \/ JobUnstuck(k)
        PROVE  Begun(j)'
    BY <2>2 DEF JobRunNow, JobRetry, JobRestart, JobUnstuck
  <2> QED
    BY <1>2, <2>1, <2>2 DEF Operators
<1>3. ASSUME NEW k \in Job,
             \/ Recovery(k) \/ LeaseExpires(k) \/ ChildAges(k) \/ JobClaimLost(k)
             \/ \E t \in Thread : Arrival(t, k)
      PROVE  Begun(j)'
  <2>1. CASE RecoverStaleRunningJob(k)
    BY <2>1 DEF RecoverStaleRunningJob, Stale, CancelOrphan, RequeueOrphan, FailOrphan
  <2>2. CASE ~RecoverStaleRunningJob(k)
    BY <1>3, <2>2 DEF Recovery, RecoverStaleScheduledJob, LeaseExpires, ChildAges,
                      JobClaimLost, Arrival, Deliver, JobClaim, table
  <2> QED
    BY <2>1, <2>2
<1>4. ASSUME NEW t \in Thread,
             \/ AcquireLock(t) \/ BeatRead(t) \/ BeatRefused(t) \/ RunnerFollowsUp(t)
             \/ ThreadStep(t) \/ ThreadFault(t)
      PROVE  Begun(j)'
  BY <1>1, <1>4, ThreadTable DEF table
<1>5. ASSUME NEW r \in inflight, HubSave(r) PROVE Begun(j)'
  <2>1. r.job \in Job /\ (r.kind = "final" => r.status \in {"finished", "error"})
    BY ReportFields
  <2> QED
    BY <1>5, <2>1 DEF HubSave, StartSave, BeatSave, SaveRunning, FinalSave
<1>6. CASE Crash \/ LoseMessages \/ UNCHANGED vars
  BY <1>6 DEF Crash, LoseMessages, vars, table
<1> QED
  BY <1>2, <1>3, <1>4, <1>5, <1>6 DEF Next

\* The threads move one at a time; a thread past its start works on the same job, and
\* got there by the save of its first report.
LEMMA PastStartMoves ==
    ASSUME TypeOK, [Next]_vars, NEW t \in Thread, pc'[t] \in PastStart
    PROVE  /\ job'[t] = job[t]
           /\ pc[t] \in PastStart \/ \E r \in inflight : r.thread = t /\ StartSave(r)
<1> USE DEF TypeOK, AgentOK, PastStart
<1>1. CASE UNCHANGED <<pc, job>>
  BY <1>1
<1>2. ASSUME NEW u \in Thread,
             \/ AcquireLock(u) \/ BeatRead(u) \/ BeatRefused(u) \/ RunnerFollowsUp(u)
             \/ ThreadStep(u) \/ ThreadFault(u)
      PROVE  job'[t] = job[t] /\ pc[t] \in PastStart
  <2>1. \/ UNCHANGED <<pc, job>>
        \/ pc' = [pc EXCEPT ![u] = "starting"] /\ job' = job
        \/ pc[u] \in PastStart /\ job' = job /\ \E to \in PastStart : pc' = [pc EXCEPT ![u] = to]
        \/ Leave(u)
    BY <1>2 DEF AcquireLock, BeatRead, BeatRefused, RunnerFollowsUp, ReadReport, ThreadStep,
         StartRead, StartRefused, RunnerStep, RunnerReschedules, RunnerReturns,
         RunnerRaises, RunnerCoolsDown, RunnerEnds, Reschedule, RescheduleRefused,
         RetryReschedule, RetryRefused, FinalRead, FinalRefused, ThreadFault, StartFails,
         RunnerLosesNetwork, RescheduleReplyLost, RescheduleUnsent, RescheduleFails, RetryReplyLost,
         RetryUnsent, FinalFails, SetPc, Holding, agent
  <2> QED
    BY <2>1 DEF Leave, SetPc, Holding
<1>3. ASSUME \/ Operators \/ LoseMessages \/ UNCHANGED vars
             \/ \E j \in Job : Recovery(j) \/ LeaseExpires(j) \/ ChildAges(j) \/ JobClaimLost(j)
      PROVE  UNCHANGED <<pc, job>>
  BY <1>3 DEF Operators, JobCancel, JobRunNow, JobRetry, JobRestart, JobUnstuck, OperatorJob,
              LoseMessages, vars, Recovery, RecoverStaleRunningJob, RecoverStaleScheduledJob,
              LeaseExpires, ChildAges, JobClaimLost, agent
<1>4. ASSUME NEW u \in Thread, NEW j \in Job, Arrival(u, j)
      PROVE  job'[t] = job[t] /\ pc[t] \in PastStart
  BY <1>4 DEF Arrival, Deliver, JobClaim, Assign, Holding
<1>5. ~Crash
  BY DEF Crash, Holding
<1>6. ASSUME NEW r \in inflight, HubSave(r)
      PROVE  job'[t] = job[t] /\ (pc[t] \in PastStart \/ (r.thread = t /\ StartSave(r)))
  <2>1. r.thread \in Thread
    BY ReportFields
  <2>2. \/ UNCHANGED <<pc, job>>
        \/ StartSave(r) /\ pc' = [pc EXCEPT ![r.thread] = "running"] /\ job' = job
        \/ Leave(r.thread)
    BY <1>6 DEF HubSave, StartSave, BeatSave, FinalSave, SetPc, agent
  <2> QED
    BY <2>1, <2>2 DEF Leave, SetPc, Holding
<1> QED
  BY <1>1, <1>2, <1>3, <1>4, <1>5, <1>6 DEF Next

\* A report comes to the hub from a thread at the place for it, about a job that has not
\* ended.
LEMMA ReportArrives ==
    ASSUME TypeOK, [Next]_vars, NEW r \in inflight', r \notin inflight
    PROVE  /\ UNCHANGED <<agent, table>>
           /\ r.thread \in Thread /\ r.job = job[r.thread]
           /\ r.kind = "start" => pc[r.thread] = "starting"
           /\ r.kind = "beat" => pc[r.thread] = "running"
           /\ r.kind = "final" => pc[r.thread] \in Ending
<1> USE DEF TypeOK, AgentOK, Ending
<1>1. ASSUME NEW t \in Thread, StartRead(t) \/ BeatRead(t) \/ FinalRead(t)
      PROVE  /\ UNCHANGED <<agent, table>>
             /\ r.thread \in Thread /\ r.job = job[r.thread]
             /\ r.kind = "start" => pc[r.thread] = "starting"
             /\ r.kind = "beat" => pc[r.thread] = "running"
             /\ r.kind = "final" => pc[r.thread] \in Ending
  <2>1. \/ pc[t] = "starting" /\ ReadReport(t, "start", "running")
        \/ pc[t] = "running" /\ ReadReport(t, "beat", "running")
        \/ pc[t] \in Ending /\ ReadReport(t, "final", outcome[t])
    BY <1>1, Zenon DEF StartRead, BeatRead, FinalRead
  <2> QED
    BY <2>1 DEF ReadReport, ReportOf
<1>2. \/ inflight' \subseteq inflight
      \/ \E t \in Thread : StartRead(t) \/ BeatRead(t) \/ FinalRead(t)
  BY ReportsRead
<1> QED
  BY <1>1, <1>2

\* A thread learns of a follow-up by the reschedule that made or found it.
LEMMA FollowupMade ==
    ASSUME TypeOK, FollowupKnown, [Next]_vars, NEW t \in Thread, followup'[t] # "none"
    PROVE  /\ pc[t] # "idle" /\ job'[t] = job[t]
           /\ \/ followup[t] # "none"
              \/ \E isPatched \in BOOLEAN : RescheduleJob(job[t], isPatched)
<1> USE DEF TypeOK, AgentOK
<1>1. CASE UNCHANGED <<followup, job>>
  BY <1>1 DEF FollowupKnown
<1>2. ASSUME NEW u \in Thread,
             \/ AcquireLock(u) \/ BeatRead(u) \/ BeatRefused(u) \/ RunnerFollowsUp(u)
             \/ ThreadStep(u) \/ ThreadFault(u)
      PROVE  \/ UNCHANGED <<followup, job>>
             \/ /\ pc[u] # "idle" /\ job' = job
                /\ \E f \in {"own", "executor"} : followup' = [followup EXCEPT ![u] = f]
                /\ \E isPatched \in BOOLEAN : RescheduleJob(job[u], isPatched)
             \/ Leave(u)
  BY <1>2 DEF AcquireLock, BeatRead, BeatRefused, RunnerFollowsUp, ReadReport, ThreadStep,
         StartRead, StartRefused, RunnerStep, RunnerReschedules, RunnerReturns,
         RunnerRaises, RunnerCoolsDown, RunnerEnds, Reschedule, RescheduleRefused,
         RetryReschedule, RetryRefused, FinalRead, FinalRefused, ThreadFault, StartFails,
         RunnerLosesNetwork, RescheduleReplyLost, RescheduleUnsent, RescheduleFails, RetryReplyLost,
         RetryUnsent, FinalFails, agent
<1>3. ASSUME NEW u \in Thread, Leave(u)
      PROVE  pc[t] # "idle" /\ job'[t] = job[t] /\ followup[t] # "none"
  BY <1>3 DEF Leave, FollowupKnown
<1>4. ASSUME NEW u \in Thread, pc[u] # "idle", job' = job,
             NEW f \in {"own", "executor"}, followup' = [followup EXCEPT ![u] = f],
             \E isPatched \in BOOLEAN : RescheduleJob(job[u], isPatched)
      PROVE  /\ pc[t] # "idle" /\ job'[t] = job[t]
             /\ \/ followup[t] # "none"
                \/ \E isPatched \in BOOLEAN : RescheduleJob(job[t], isPatched)
  BY <1>4 DEF FollowupKnown
<1>5. ASSUME \/ Operators \/ LoseMessages \/ UNCHANGED vars
             \/ \E j \in Job : Recovery(j) \/ LeaseExpires(j) \/ ChildAges(j) \/ JobClaimLost(j)
      PROVE  UNCHANGED <<followup, job>>
  BY <1>5 DEF Operators, JobCancel, JobRunNow, JobRetry, JobRestart, JobUnstuck, OperatorJob,
              LoseMessages, vars, Recovery, RecoverStaleRunningJob, RecoverStaleScheduledJob,
              LeaseExpires, ChildAges, JobClaimLost, agent
<1>6. ASSUME NEW u \in Thread, NEW j \in Job, Arrival(u, j)
      PROVE  pc[t] # "idle" /\ job'[t] = job[t] /\ followup[t] # "none"
  BY <1>6 DEF Arrival, Deliver, JobClaim, Assign, FollowupKnown
<1>7. ~Crash
  BY DEF Crash
<1>8. ASSUME NEW r \in inflight, HubSave(r)
      PROVE  pc[t] # "idle" /\ job'[t] = job[t] /\ followup[t] # "none"
  <2>1. r.thread \in Thread
    BY ReportFields
  <2>2. UNCHANGED <<followup, job>> \/ Leave(r.thread)
    BY <1>8 DEF HubSave, StartSave, BeatSave, FinalSave, agent
  <2> QED
    BY <1>3, <2>1, <2>2 DEF FollowupKnown
<1> QED
  BY <1>1, <1>2, <1>3, <1>4, <1>5, <1>6, <1>7, <1>8 DEF Next

\* A continued job stays continued.
LEMMA ContinuedKept ==
    ASSUME TypeOK, RowsLinked, RowsStep, NEW j \in Job, Continued(j)
    PROVE  Continued(j)'
<1>1. PICK d \in Job : parent[d] = j /\ trigger[d] = "agent_reschedule"
  BY DEF Continued
<1>2. CASE NoRowAdded
  BY <1>1, <1>2 DEF NoRowAdded, Continued
<1>3. ASSUME NEW c, NEW src, NEW trig, RowAdded(c, src, trig) PROVE Continued(j)'
  <2>1. d # c
    BY <1>1, <1>3 DEF RowAdded, NextRow, Free, RowsLinked, NoJob, Job
  <2> QED
    BY <1>1, <1>3, <2>1 DEF RowAdded, TypeOK, RowsOK, Continued
<1> QED
  BY <1>2, <1>3 DEF RowsStep

\* A job becomes continued only by a row that comes from it.
LEMMA ContinuedAdded ==
    ASSUME TypeOK, RowsStep, NEW j \in Job, Continued(j)', ~Continued(j)
    PROVE  \E c \in NextRow : RowAdded(c, j, "agent_reschedule")
<1>1. PICK d \in Job : parent'[d] = j /\ trigger'[d] = "agent_reschedule"
  BY DEF Continued
<1>2. ~NoRowAdded
  BY <1>1 DEF NoRowAdded, Continued
<1>3. PICK c \in NextRow, src \in Job, trig \in Triggers \cup {"none"} : RowAdded(c, src, trig)
  BY <1>2 DEF RowsStep
<1>4. d = c /\ c \in Job
  BY <1>1, <1>3 DEF RowAdded, TypeOK, RowsOK, Continued, NextRow, Free
<1>5. src = j /\ trig = "agent_reschedule"
  BY <1>1, <1>3, <1>4 DEF RowAdded, TypeOK, RowsOK
<1> QED
  BY <1>3, <1>5

\* After a reschedule of a job the job is continued, by the child found or made.
LEMMA RescheduleContinues ==
    ASSUME TypeOK, NEW j \in Job, NEW isPatched \in BOOLEAN, RescheduleJob(j, isPatched)
    PROVE  Continued(j)'
<1>1. CASE Equivalent(j, isPatched) # {} /\ UNCHANGED table
  <2>1. PICK c \in Job : parent[c] = j /\ trigger[c] = "agent_reschedule"
    BY <1>1 DEF Equivalent
  <2> QED
    BY <1>1, <2>1 DEF table, Continued
<1>2. ASSUME NEW c \in NextRow, NewRow(c, j, "agent_reschedule", isPatched) PROVE Continued(j)'
  BY <1>2 DEF NewRow, NextRow, Free, TypeOK, RowsOK, Continued
<1> QED
  BY <1>1, <1>2 DEF RescheduleJob

\* A thread asks for a reschedule of its job only past its start.
LEMMA ThreadAsks ==
    ASSUME TypeOK, NEW t \in Thread,
           \/ AcquireLock(t) \/ BeatRead(t) \/ BeatRefused(t) \/ RunnerFollowsUp(t)
           \/ ThreadStep(t) \/ ThreadFault(t)
    PROVE  \/ UNCHANGED <<table, msgs>>
           \/ /\ pc[t] \in PastStart /\ job[t] \in Job
              /\ \E isPatched \in BOOLEAN : RescheduleJob(job[t], isPatched)
<1>1. \/ UNCHANGED <<table, msgs>>
      \/ /\ pc[t] \in {"running", "rescheduling", "retrying"}
         /\ \E isPatched \in BOOLEAN : RescheduleJob(job[t], isPatched)
  BY DEF AcquireLock, BeatRead, BeatRefused, RunnerFollowsUp, ReadReport, ThreadStep,
         StartRead, StartRefused, RunnerStep, RunnerReschedules, RunnerReturns,
         RunnerRaises, RunnerCoolsDown, RunnerEnds, Reschedule, RescheduleRefused,
         RetryReschedule, RetryRefused, FinalRead, FinalRefused, ThreadFault, StartFails,
         RunnerLosesNetwork, RescheduleReplyLost, RescheduleUnsent, RescheduleFails, RetryReplyLost,
         RetryUnsent, FinalFails
<1> QED
  BY <1>1 DEF TypeOK, AgentOK, PastStart, Holding

\* A row that the agent asked for comes from a job that has left the queue.
LEMMA AddedBegun ==
    ASSUME BegunInv, [Next]_vars, NEW c, NEW src, RowAdded(c, src, "agent_reschedule")
    PROVE  Begun(src)'
<1> USE DEF BegunInv, LinkInv, LockInv
<1>1. /\ c \in Job /\ src \in Job /\ status[c] = "absent" /\ parent[c] = NoJob
      /\ parent'[c] = src /\ trigger'[c] = "agent_reschedule"
  BY DEF RowAdded, NextRow, Free, RowsLinked, TypeOK, RowsOK
<1>2. parent' # parent
  BY <1>1 DEF NoJob, Job
<1>3. ASSUME NEW d \in NextRow, NEW j \in Job, NEW trig \in Triggers \cup {"none"},
             NEW isPatched \in BOOLEAN, NewRow(d, j, trig, isPatched)
      PROVE  j = src /\ d = c /\ trig = "agent_reschedule"
  <2>1. d = c
    BY <1>1, <1>3 DEF NewRow, TypeOK, RowsOK, NoJob, Job
  <2> QED
    BY <1>1, <1>3, <2>1 DEF NewRow, TypeOK, RowsOK
<1>4. CASE Operators
  <2>1. ASSUME NEW j \in Job, JobUnstuck(j) PROVE Begun(src)'
    <3>1. PICK d \in NextRow : /\ NewRow(d, j, trigger[j], FALSE)
                               /\ status' = [status EXCEPT ![j] = "cancelled", ![d] = "scheduled"]
      BY <2>1 DEF JobUnstuck, OperatorJob
    <3>2. j = src /\ d = c
      BY <1>3, <3>1 DEF TypeOK, RowsOK
    <3>3. status[j] = "running"
      BY <2>1 DEF JobUnstuck
    <3> QED
      BY <1>1, <3>1, <3>2, <3>3 DEF Begun, TypeOK, RowsOK
  <2>2. ASSUME NEW j \in Job, JobRunNow(j) \/ JobRetry(j) \/ JobRestart(j) PROVE FALSE
    <3>1. PICK d \in NextRow : NewRow(d, j, "operator", FALSE)
      BY <2>2 DEF JobRunNow, JobRetry, JobRestart, OperatorJob
    <3>2. d = c
      BY <1>3, <3>1, Zenon
    <3> QED
      BY <1>1, <3>1, <3>2 DEF NewRow, TypeOK, RowsOK
  <2>3. ~JobCancel
    BY <1>2 DEF JobCancel
  <2> QED
    BY <1>4, <2>1, <2>2, <2>3 DEF Operators
<1>5. ASSUME NEW j \in Job, RecoverStaleRunningJob(j) PROVE FALSE
  <2>1. PICK d \in NextRow : NewRow(d, j, "recovery_requeue", FALSE)
    BY <1>2, <1>5 DEF RecoverStaleRunningJob, CancelOrphan, RequeueOrphan, FailOrphan
  <2>2. d = c
    BY <1>3, <2>1, Zenon
  <2> QED
    BY <1>1, <2>1, <2>2 DEF NewRow, TypeOK, RowsOK
<1>6. ASSUME NEW t \in Thread, pc[t] \in PastStart, NEW isPatched \in BOOLEAN, NEW j \in Job,
             job[t] = j, RescheduleJob(j, isPatched)
      PROVE  Begun(src)'
  <2>1. PICK d \in NextRow : NewRow(d, j, "agent_reschedule", isPatched)
    BY <1>2, <1>6 DEF RescheduleJob, table
  <2>2. j = src /\ Begun(j)
    BY <1>3, <1>6, <2>1 DEF BegunOK
  <2> QED
    BY <2>2, BegunKept
<1>7. ASSUME NEW t \in Thread,
             \/ AcquireLock(t) \/ BeatRead(t) \/ BeatRefused(t) \/ RunnerFollowsUp(t)
             \/ ThreadStep(t) \/ ThreadFault(t)
      PROVE  Begun(src)'
  <2>1. /\ pc[t] \in PastStart /\ job[t] \in Job
        /\ \E isPatched \in BOOLEAN : RescheduleJob(job[t], isPatched)
    BY <1>2, <1>7, ThreadAsks DEF table
  <2> QED
    BY <1>6, <2>1
<1>8. ASSUME \/ LoseMessages \/ UNCHANGED vars \/ Crash
             \/ \E j \in Job : \/ RecoverStaleScheduledJob(j) \/ LeaseExpires(j)
                               \/ ChildAges(j) \/ JobClaimLost(j)
             \/ \E t \in Thread, j \in Job : Arrival(t, j)
             \/ \E r \in inflight : HubSave(r)
      PROVE  FALSE
  <2>1. UNCHANGED parent
    BY <1>8 DEF LoseMessages, vars, Crash, RecoverStaleScheduledJob, LeaseExpires, ChildAges,
                JobClaimLost, Arrival, Deliver, JobClaim, HubSave, StartSave, BeatSave,
                SaveRunning, FinalSave, table
  <2> QED
    BY <1>2, <2>1
<1> QED
  BY <1>4, <1>5, <1>7, <1>8 DEF Next, Recovery

\* Every step keeps it.
LEMMA BegunNext == BegunInv /\ [Next]_vars => BegunOK'
<1> SUFFICES ASSUME BegunInv, [Next]_vars PROVE BegunOK'
  OBVIOUS
<1> USE DEF BegunInv, LinkInv, LockInv
<1>1. RowsStep
  BY StepRows
<1>2. ASSUME NEW t \in Thread, pc'[t] \in PastStart PROVE Begun(job[t])'
  <2>1. job'[t] = job[t]
    BY <1>2, PastStartMoves
  <2>2. CASE pc[t] \in PastStart
    <3>1. PICK j \in Job : j = job[t]
      BY <2>2 DEF TypeOK, AgentOK, PastStart, Holding
    <3>2. Begun(j)'
      BY <2>2, <3>1, BegunKept DEF BegunOK
    <3> QED
      BY <2>1, <3>1, <3>2 DEF Begun
  <2>3. ASSUME NEW r \in inflight, r.thread = t, StartSave(r), pc[t] \notin PastStart
        PROVE  Begun(job[t])'
    <3>1. pc[t] = "starting"
      BY <1>2, <2>3 DEF StartSave, agent
    <3>2. job[t] = r.job /\ r.job \in Job
      BY <2>3, <3>1, ReportFields DEF WorkOnRows, TypeOK
    <3>3. status' = [status EXCEPT ![r.job] = "running"]
      BY <2>3 DEF StartSave, SaveRunning
    <3> QED
      BY <2>1, <3>2, <3>3 DEF TypeOK, RowsOK, Begun
  <2> QED
    BY <1>2, <2>2, <2>3, PastStartMoves
<1>3. ASSUME NEW r \in inflight', r.kind = "final" PROVE Begun(r.job)'
  <2>1. CASE r \in inflight
    <3>1. Begun(r.job) /\ r.job \in Job
      BY <1>3, <2>1, ReportFields DEF BegunOK, TypeOK
    <3>2. PICK j \in Job : j = r.job /\ Begun(j)
      BY <3>1
    <3>3. Begun(j)'
      BY <3>2, BegunKept
    <3> QED
      BY <3>2, <3>3 DEF Begun
  <2>2. CASE r \notin inflight
    <3>1. /\ r.thread \in Thread /\ r.job = job[r.thread] /\ pc[r.thread] \in Ending
          /\ UNCHANGED table
      BY <1>3, <2>2, ReportArrives
    <3>2. Begun(r.job)
      BY <3>1 DEF BegunOK, Ending, PastStart, Holding
    <3> QED
      BY <3>1, <3>2 DEF Begun, table
  <2> QED
    BY <2>1, <2>2
<1>4. ASSUME NEW j \in Job, Continued(j)' PROVE Begun(j)'
  <2>1. CASE Continued(j)
    BY <2>1, BegunKept DEF BegunOK
  <2>2. CASE ~Continued(j)
    BY <1>1, <1>4, <2>2, ContinuedAdded, AddedBegun
  <2> QED
    BY <2>1, <2>2
<1>5. ASSUME NEW t \in Thread, followup'[t] # "none" PROVE Continued(job[t])'
  <2>1. pc[t] # "idle" /\ job'[t] = job[t]
    BY <1>5, FollowupMade
  <2>2. PICK j \in Job : j = job[t]
    BY <2>1 DEF TypeOK, AgentOK
  <2>3. CASE followup[t] # "none"
    <3>1. Continued(j)'
      BY <1>1, <2>2, <2>3, ContinuedKept DEF BegunOK
    <3> QED
      BY <2>1, <2>2, <3>1 DEF Continued
  <2>4. ASSUME NEW isPatched \in BOOLEAN, RescheduleJob(job[t], isPatched)
        PROVE  Continued(job[t])'
    <3>1. Continued(j)'
      BY <2>2, <2>4, RescheduleContinues
    <3> QED
      BY <2>1, <2>2, <3>1 DEF Continued
  <2> QED
    BY <1>5, <2>3, <2>4, FollowupMade
<1> QED
  BY <1>2, <1>3, <1>4, <1>5 DEF BegunOK

-----------------------------------------------------------------------------
(* The chain goes on *)

\* Nothing has gone wrong with job j: while it runs its lease is live and a thread works
\* on it, and its reports at the hub are the ones their thread waits for.
Tended(j) ==
    /\ status[j] = "running" =>
          lease[j] = "live" /\ \E t \in Thread : job[t] = j /\ pc[t] \in PastStart
    /\ \A r \in inflight : r.job = j =>
          /\ r.kind = "start" => pc[r.thread] = "starting"
          /\ r.kind = "beat" => pc[r.thread] \in PastStart
          /\ r.kind = "final" => pc[r.thread] \in Ending

\* Job j has gone on, or is about to end.
Spent(j) ==
    \/ Continued(j)
    \/ \E t \in Thread : job[t] = j /\ pc[t] \in Ending
    \/ \E r \in inflight : r.job = j /\ r.kind = "final"

\* Job j carries the chain: it is active, and neither went on nor is about to end.
Carrier(j) == Active(j) /\ ~Spent(j)

\* The chain has a carrier other than v, or a reason to end.
Carried(v) == stopped \/ \E k \in Job \ {v} : Carrier(k)

\* Job v is the only one that the failure so far may have left alone.  When another job
\* of the chain is at work and about to end, the chain does not depend on v.
Victim(v) ==
    /\ v # NoJob => status[v] # "absent" /\ faults # 0
    /\ \A j \in Job \ {v} : ~Terminal(j) => Tended(j)
    /\ Carried(NoJob)
    /\ \A t \in Thread :
          pc[t] \in Holding /\ job[t] # v /\ ~Terminal(job[t]) /\ Spent(job[t]) => Carried(v)

\* ChainGoesOn, made inductive.
ChainInv ==
    /\ BegunInv
    /\ OneReport
    /\ tainted = {} /\ faults <= 1 => \E v \in Job \cup {NoJob} : Victim(v)

\* A new row carries the chain.
LEMMA NewRowCarries ==
    ASSUME LinkInv, [Next]_vars, NEW c, NEW src, NEW trig, RowAdded(c, src, trig)
    PROVE  c \in Job /\ status[c] = "absent" /\ Carrier(c)'
<1> USE DEF LinkInv, LockInv
<1>1. /\ c \in Job /\ status[c] = "absent" /\ src \in Job /\ src # c
      /\ \A k \in Job : parent[k] # c
  BY DEF RowAdded, NextRow, Free, RowsLinked, NoJob, Job
<1>2. Active(c)'
  BY DEF RowAdded, Active
<1>3. ~Continued(c)'
  BY <1>1 DEF RowAdded, TypeOK, RowsOK, Continued
<1>4. ASSUME NEW t \in Thread, job'[t] = c, pc'[t] \in Ending PROVE FALSE
  <2>1. job[t] = c /\ (pc[t] \in PastStart \/ \E r \in inflight : r.thread = t /\ StartSave(r))
    BY <1>4, PastStartMoves DEF PastStart, Ending, Holding
  <2>2. pc[t] = "idle"
    BY <1>1, <2>1 DEF WorkOnRows
  <2>3. PICK r \in inflight : r.thread = t /\ StartSave(r)
    BY <2>1, <2>2 DEF PastStart, Holding
  <2> QED
    BY <1>4, <2>2, <2>3 DEF StartSave, agent, Ending
<1>5. ASSUME NEW r \in inflight', r.job = c PROVE FALSE
  <2>1. r \notin inflight
    BY <1>1, <1>5 DEF WorkOnRows
  <2>2. UNCHANGED table
    BY <2>1, ReportArrives
  <2> QED
    BY <1>1, <2>2 DEF RowAdded, table
<1>6. ~Spent(c)'
  BY <1>3, <1>4, <1>5 DEF Spent
<1> QED
  BY <1>1, <1>2, <1>6 DEF Carrier

\* create_job_with_workflow() does add a row.
LEMMA NewRowAdds ==
    ASSUME TypeOK, RowsLinked, NEW c \in NextRow, NEW src \in Job, NEW trig, NEW isPatched,
           NewRow(c, src, trig, isPatched)
    PROVE  ~NoRowAdded
<1>1. c \in Job /\ parent[c] = NoJob
  BY DEF NextRow, Free, RowsLinked
<1> QED
  BY <1>1 DEF NewRow, TypeOK, RowsOK, NoRowAdded, NoJob, Job

LEMMA RescheduleAdds ==
    ASSUME TypeOK, RowsLinked, NEW j \in Job, NEW isPatched \in BOOLEAN,
           RescheduleJob(j, isPatched), NoRowAdded
    PROVE  UNCHANGED <<table, msgs, stopped>>
BY NewRowAdds DEF RescheduleJob

\* The operators and the recovery, when they add no row.
LEMMA OperatorsQuiet ==
    ASSUME TypeOK, RowsLinked, Operators, NoRowAdded
    PROVE  JobCancel
<1>1. ASSUME NEW j \in Job, JobRunNow(j) \/ JobRetry(j) \/ JobRestart(j) \/ JobUnstuck(j)
      PROVE  FALSE
  <2>1. PICK c \in NextRow, trig \in Triggers \cup {"none"} : NewRow(c, j, trig, FALSE)
    BY <1>1 DEF JobRunNow, JobRetry, JobRestart, JobUnstuck, OperatorJob, TypeOK, RowsOK
  <2> QED
    BY <2>1, NewRowAdds
<1> QED
  BY <1>1 DEF Operators

LEMMA RecoveryQuiet ==
    ASSUME TypeOK, RowsLinked, NEW j \in Job, RecoverStaleRunningJob(j), NoRowAdded
    PROVE  CancelOrphan(j) \/ FailOrphan(j)
BY NewRowAdds DEF RecoverStaleRunningJob, RequeueOrphan

\* The reason to end is forgotten only when a row is added.
LEMMA StoppedKept ==
    ASSUME TypeOK, RowsLinked, [Next]_vars, NoRowAdded, stopped
    PROVE  stopped'
<1>1. CASE Operators
  BY <1>1, OperatorsQuiet DEF JobCancel
<1>2. ASSUME NEW j \in Job, RecoverStaleRunningJob(j) PROVE stopped'
  BY <1>2, RecoveryQuiet DEF CancelOrphan, FailOrphan
<1>3. ASSUME NEW t \in Thread, NEW isPatched \in BOOLEAN, pc[t] # "idle",
             RescheduleJob(job[t], isPatched)
      PROVE  stopped'
  BY <1>3, RescheduleAdds DEF TypeOK, AgentOK
<1>4. ASSUME NEW t \in Thread,
             \/ AcquireLock(t) \/ BeatRead(t) \/ BeatRefused(t) \/ RunnerFollowsUp(t)
             \/ ThreadStep(t) \/ ThreadFault(t)
      PROVE  stopped'
  <2>1. \/ UNCHANGED stopped \/ stopped'
        \/ pc[t] # "idle" /\ \E isPatched \in BOOLEAN : RescheduleJob(job[t], isPatched)
    BY <1>4 DEF AcquireLock, BeatRead, BeatRefused, RunnerFollowsUp, ReadReport, ThreadStep,
         StartRead, StartRefused, RunnerStep, RunnerReschedules, RunnerReturns,
         RunnerRaises, RunnerCoolsDown, RunnerEnds, Reschedule, RescheduleRefused,
         RetryReschedule, RetryRefused, FinalRead, FinalRefused, ThreadFault, StartFails,
         RunnerLosesNetwork, RescheduleReplyLost, RescheduleUnsent, RescheduleFails, RetryReplyLost,
         RetryUnsent, FinalFails, history
  <2> QED
    BY <1>3, <2>1
<1>5. ASSUME \/ LoseMessages \/ UNCHANGED vars \/ Crash
             \/ \E j \in Job : \/ RecoverStaleScheduledJob(j) \/ LeaseExpires(j)
                               \/ ChildAges(j) \/ JobClaimLost(j)
             \/ \E t \in Thread, j \in Job : Arrival(t, j)
             \/ \E r \in inflight : HubSave(r)
      PROVE  stopped'
  BY <1>5 DEF LoseMessages, vars, Crash, RecoverStaleScheduledJob, LeaseExpires, ChildAges,
              JobClaimLost, Arrival, Deliver, JobClaim, HubSave, StartSave, BeatSave,
              SaveRunning, FinalSave, history
<1> QED
  BY <1>1, <1>2, <1>4, <1>5 DEF Next, Recovery

\* A thread comes to its last report after a reschedule, with a follow-up or a reason to
\* end, or with a job that somebody ended.
LEMMA EndingMoves ==
    ASSUME TypeOK, [Next]_vars, NEW t \in Thread, pc'[t] \in Ending, pc[t] \notin Ending
    PROVE  \/ stopped' \/ followup[t] # "none" \/ Terminal(job[t])
           \/ \E isPatched \in BOOLEAN : RescheduleJob(job[t], isPatched)
<1> DEFINE Due == \/ stopped' \/ followup[t] # "none" \/ Terminal(job[t])
                  \/ \E isPatched \in BOOLEAN : RescheduleJob(job[t], isPatched)
<1> USE DEF TypeOK, AgentOK, Ending
<1>1. pc' # pc
  OBVIOUS
<1>2. ASSUME NEW u \in Thread,
             \/ AcquireLock(u) \/ BeatRead(u) \/ BeatRefused(u) \/ RunnerFollowsUp(u)
             \/ StartRead(u) \/ StartRefused(u) \/ RunnerReschedules(u) \/ RunnerCoolsDown(u)
             \/ RetryRefused(u) \/ FinalRead(u) \/ FinalRefused(u)
             \/ ThreadFault(u) /\ ~RescheduleFails(u)
      PROVE  FALSE
  <2>1. \/ UNCHANGED pc
        \/ pc[u] = "reporting" /\ pc' = [pc EXCEPT ![u] = "closing"]
        \/ \E to \in {"idle", "starting", "rescheduling", "retrying"} : pc' = [pc EXCEPT ![u] = to]
    BY <1>2 DEF AcquireLock, BeatRead, BeatRefused, RunnerFollowsUp, ReadReport,
         StartRead, StartRefused, RunnerReschedules, RunnerCoolsDown, RunnerEnds,
         RetryRefused, FinalRead, FinalRefused, ThreadFault, StartFails,
         RunnerLosesNetwork, RescheduleReplyLost, RescheduleUnsent, RetryReplyLost,
         RetryUnsent, FinalFails, Leave, SetPc, agent
  <2> QED
    BY <1>1, <2>1
<1>3. ASSUME NEW u \in Thread,
             \/ RunnerReturns(u) \/ RunnerRaises(u) \/ Reschedule(u) \/ RescheduleRefused(u)
             \/ RetryReschedule(u) \/ RescheduleFails(u)
      PROVE  Due
  <2>1. \E to \in Ending : pc' = [pc EXCEPT ![u] = to]
    BY <1>3 DEF RunnerReturns, RunnerRaises, RunnerEnds, Reschedule, RescheduleRefused,
                RetryReschedule, RescheduleFails, SetPc
  <2>2. u = t
    BY <2>1
  <2> QED
    BY <1>3, <2>2 DEF RunnerReturns, RunnerRaises, Reschedule, RescheduleRefused,
                      RetryReschedule, RescheduleFails
<1>4. ASSUME \/ Operators \/ LoseMessages \/ UNCHANGED vars
             \/ \E j \in Job : Recovery(j) \/ LeaseExpires(j) \/ ChildAges(j) \/ JobClaimLost(j)
      PROVE  UNCHANGED pc
  BY <1>4 DEF Operators, JobCancel, JobRunNow, JobRetry, JobRestart, JobUnstuck, OperatorJob,
              LoseMessages, vars, Recovery, RecoverStaleRunningJob, RecoverStaleScheduledJob,
              LeaseExpires, ChildAges, JobClaimLost, agent
<1>5. ASSUME NEW u \in Thread, NEW j \in Job, Arrival(u, j) PROVE FALSE
  BY <1>5 DEF Arrival, Deliver, JobClaim, Assign
<1>6. ~Crash
  BY DEF Crash
<1>7. ASSUME NEW r \in inflight, HubSave(r) PROVE FALSE
  <2>1. \/ UNCHANGED pc
        \/ \E to \in {"idle", "running"} : pc' = [pc EXCEPT ![r.thread] = to]
    BY <1>7 DEF HubSave, StartSave, BeatSave, FinalSave, Leave, SetPc, agent
  <2> QED
    BY <1>1, <2>1
<1> QED
  BY <1>1, <1>2, <1>3, <1>4, <1>5, <1>6, <1>7 DEF Next, ThreadStep, RunnerStep

\* Without a new row, a job is spent only by a thread that has a reason for it.
LEMMA SpentGrows ==
    ASSUME BegunInv, [Next]_vars, NoRowAdded, NEW j \in Job, Spent(j)', ~Spent(j)
    PROVE  stopped' \/ Terminal(j)
<1> USE DEF BegunInv, LinkInv, LockInv
<1>1. Continued(j)' => Continued(j)
  BY DEF NoRowAdded, Continued
<1>2. ASSUME NEW r \in inflight', r.job = j, r.kind = "final" PROVE FALSE
  <2>1. r \notin inflight
    BY <1>2 DEF Spent
  <2>2. r.thread \in Thread /\ r.job = job[r.thread] /\ pc[r.thread] \in Ending
    BY <1>2, <2>1, ReportArrives
  <2> QED
    BY <1>2, <2>2 DEF Spent
<1>3. ASSUME NEW t \in Thread, job'[t] = j, pc'[t] \in Ending
      PROVE  stopped' \/ Terminal(j)
  <2>1. job[t] = j
    BY <1>3, PastStartMoves DEF Ending, PastStart, Holding
  <2>2. pc[t] \notin Ending
    BY <2>1 DEF Spent
  <2>3. ASSUME NEW isPatched \in BOOLEAN, RescheduleJob(j, isPatched) PROVE FALSE
    BY <1>1, <2>3, RescheduleContinues DEF Spent
  <2>4. followup[t] = "none"
    BY <2>1 DEF BegunOK, Spent
  <2> QED
    BY <1>3, <2>1, <2>2, <2>3, <2>4, EndingMoves
<1> QED
  BY <1>1, <1>2, <1>3 DEF Spent

\* Without a new row, a job ends by its last report, by the recovery, or with the chain.
LEMMA ActiveKept ==
    ASSUME TypeOK, RowsLinked, [Next]_vars, NoRowAdded, NEW j \in Job, Active(j), ~Active(j)'
    PROVE  \/ stopped' \/ Spent(j)
           \/ RecoverStaleRunningJob(j) /\ CancelOrphan(j)
<1> USE DEF TypeOK, RowsOK, Active
<1>1. CASE Operators
  BY <1>1, OperatorsQuiet DEF JobCancel
<1>2. ASSUME NEW k \in Job, RecoverStaleRunningJob(k)
      PROVE  stopped' \/ (RecoverStaleRunningJob(j) /\ CancelOrphan(j))
  <2>1. CASE FailOrphan(k)
    BY <2>1 DEF FailOrphan
  <2>2. CASE CancelOrphan(k)
    <3>1. k = j
      BY <2>2 DEF CancelOrphan
    <3> QED
      BY <1>2, <2>2, <3>1
  <2> QED
    BY <1>2, <2>1, <2>2, RecoveryQuiet
<1>3. ASSUME NEW t \in Thread,
             \/ AcquireLock(t) \/ BeatRead(t) \/ BeatRefused(t) \/ RunnerFollowsUp(t)
             \/ ThreadStep(t) \/ ThreadFault(t)
      PROVE  FALSE
  <2>1. UNCHANGED status
    BY <1>3, ThreadAsks, RescheduleAdds DEF table
  <2> QED
    BY <2>1
<1>4. ASSUME NEW r \in inflight, HubSave(r) PROVE Spent(j)
  <2>1. r.job \in Job
    BY ReportFields
  <2>2. FinalSave(r) /\ r.job = j
    BY <1>4, <2>1 DEF HubSave, StartSave, BeatSave, SaveRunning, FinalSave
  <2> QED
    BY <2>2 DEF FinalSave, Spent
<1>5. ASSUME \/ LoseMessages \/ UNCHANGED vars \/ Crash
             \/ \E k \in Job : \/ RecoverStaleScheduledJob(k) \/ LeaseExpires(k)
                               \/ ChildAges(k) \/ JobClaimLost(k)
             \/ \E t \in Thread, k \in Job : Arrival(t, k)
      PROVE  FALSE
  <2>1. UNCHANGED status
    BY <1>5 DEF LoseMessages, vars, Crash, RecoverStaleScheduledJob, LeaseExpires, ChildAges,
                JobClaimLost, Arrival, Deliver, JobClaim, table
  <2> QED
    BY <2>1
<1> QED
  BY <1>1, <1>2, <1>3, <1>4, <1>5 DEF Next, Recovery

\* The chain stays carried, unless the recovery cancels a carrier.
LEMMA CarriedKept ==
    ASSUME BegunInv, [Next]_vars, NEW v \in Job \cup {NoJob},
           v # NoJob => status[v] # "absent", Carried(v),
           \A k \in Job \ {v} : ~(Carrier(k) /\ RecoverStaleRunningJob(k) /\ CancelOrphan(k))
    PROVE  Carried(v)'
<1> USE DEF BegunInv, LinkInv, LockInv
<1>1. ASSUME NEW c, NEW src, NEW trig, RowAdded(c, src, trig) PROVE Carried(v)'
  <2>1. c \in Job /\ status[c] = "absent" /\ Carrier(c)'
    BY <1>1, NewRowCarries
  <2>2. c # v
    BY <2>1 DEF NoJob, Job
  <2> QED
    BY <2>1, <2>2 DEF Carried
<1>2. CASE NoRowAdded
  <2>1. CASE stopped
    BY <1>2, <2>1, StoppedKept DEF Carried
  <2>2. CASE ~stopped
    <3>1. PICK k \in Job \ {v} : Carrier(k)
      BY <2>2 DEF Carried
    <3>2. Active(k) /\ ~Spent(k) /\ ~Terminal(k)
      BY <3>1 DEF Carrier, Active, Terminal
    <3>3. stopped' \/ Active(k)'
      BY <1>2, <3>1, <3>2, ActiveKept
    <3>4. stopped' \/ ~Spent(k)'
      BY <1>2, <3>2, SpentGrows
    <3> QED
      BY <3>3, <3>4 DEF Carried, Carrier
  <2> QED
    BY <2>1, <2>2
<1> QED
  BY <1>1, <1>2, StepRows DEF RowsStep

\* Marks stay, and while there is none an ended job stays ended.
LEMMA TaintedGrows ==
    ASSUME TypeOK, [Next]_vars
    PROVE  tainted \subseteq tainted'
<1>1. ASSUME NEW t \in Thread,
             \/ AcquireLock(t) \/ BeatRead(t) \/ BeatRefused(t) \/ RunnerFollowsUp(t)
             \/ ThreadStep(t) \/ ThreadFault(t)
      PROVE  tainted \subseteq tainted'
  BY <1>1 DEF AcquireLock, BeatRead, BeatRefused, RunnerFollowsUp, ReadReport, ThreadStep,
         StartRead, StartRefused, RunnerStep, RunnerReschedules, RunnerReturns,
         RunnerRaises, RunnerCoolsDown, RunnerEnds, Reschedule, RescheduleRefused,
         RetryReschedule, RetryRefused, FinalRead, FinalRefused, ThreadFault, StartFails,
         RunnerLosesNetwork, RescheduleReplyLost, RescheduleUnsent, RescheduleFails, RetryReplyLost,
         RetryUnsent, FinalFails, RetryTaint, history
<1>2. CASE Operators
  BY <1>2 DEF Operators, JobCancel, JobRunNow, JobRetry, JobRestart, JobUnstuck
<1>3. ASSUME NEW r \in inflight, HubSave(r) PROVE tainted \subseteq tainted'
  BY <1>3 DEF HubSave, StartSave, BeatSave, FinalSave, Revived, history
<1>4. CASE \/ LoseMessages \/ UNCHANGED vars \/ Crash
           \/ \E j \in Job : Recovery(j) \/ LeaseExpires(j) \/ ChildAges(j) \/ JobClaimLost(j)
           \/ \E t \in Thread, j \in Job : Arrival(t, j)
  BY <1>4 DEF LoseMessages, vars, Crash, Recovery, RecoverStaleRunningJob,
              RecoverStaleScheduledJob, LeaseExpires, ChildAges, JobClaimLost, Arrival,
              Deliver, JobClaim, history
<1> QED
  BY <1>1, <1>2, <1>3, <1>4 DEF Next

LEMMA UnmarkedEnds ==
    ASSUME TypeOK, [Next]_vars, tainted' = {}, NEW j \in Job, Terminal(j)
    PROVE  Terminal(j)'
<1>1. CASE status'[j] = status[j]
  BY <1>1 DEF Terminal
<1>2. ASSUME NEW r \in inflight, r.job = j, HubSave(r) PROVE Terminal(j)'
  <2>1. CASE FinalSave(r)
    <3>1. r.status \in {"finished", "error"} /\ status' = [status EXCEPT ![j] = r.status]
      BY <1>2, <2>1, ReportFields DEF TypeOK, FinalSave
    <3> QED
      BY <3>1 DEF TypeOK, RowsOK, Terminal
  <2>2. CASE ~FinalSave(r)
    <3>1. Revived(r) \subseteq tainted'
      BY <1>2, <2>2 DEF HubSave, StartSave, BeatSave
    <3>2. j \in Revived(r)
      BY <1>2 DEF Revived, NoJob, Job
    <3> QED
      BY <3>1, <3>2
  <2> QED
    BY <2>1, <2>2
<1> QED
  BY <1>1, <1>2, EndedKept

\* The failures that are counted save no report, end no job and let no thread in.
LEMMA FaultMoves ==
    ASSUME TypeOK, [Next]_vars, faults' # faults
    PROVE  /\ UNCHANGED inflight
           /\ \A r \in inflight : ~HubSave(r)
           /\ \A j \in Job : ~RecoverStaleRunningJob(j)
           /\ \A t \in Thread : pc'[t] \in Holding => pc[t] \in Holding /\ job'[t] = job[t]
           /\ faults' = faults + 1
<1> USE DEF TypeOK, AgentOK
<1>1. ASSUME NEW r \in inflight, HubSave(r) PROVE FALSE
  BY <1>1 DEF HubSave, StartSave, BeatSave, SaveRunning, FinalSave, bounds
<1>2. ASSUME NEW j \in Job, RecoverStaleRunningJob(j) PROVE FALSE
  BY <1>2 DEF RecoverStaleRunningJob, bounds
<1>3. ~Operators /\ ~UNCHANGED vars
  BY DEF Operators, JobCancel, JobRunNow, JobRetry, JobRestart, JobUnstuck, Act, vars, bounds
<1>4. ASSUME NEW t \in Thread, NEW j \in Job, Arrival(t, j) PROVE FALSE
  BY <1>4 DEF Arrival, Deliver, JobClaim, bounds
<1>5. ASSUME NEW t \in Thread,
             \/ AcquireLock(t) \/ BeatRead(t) \/ BeatRefused(t) \/ RunnerFollowsUp(t)
             \/ ThreadStep(t)
      PROVE  FALSE
  BY <1>5 DEF AcquireLock, BeatRead, BeatRefused, RunnerFollowsUp, ThreadStep, StartRead,
              StartRefused, RunnerStep, RunnerReschedules, RunnerReturns, RunnerRaises,
              RunnerCoolsDown, Reschedule, RescheduleRefused, RetryReschedule, RetryRefused,
              FinalRead, FinalRefused, ReadReport, bounds
<1>6. ASSUME \/ LoseMessages
             \/ \E j \in Job : RecoverStaleScheduledJob(j) \/ LeaseExpires(j) \/ ChildAges(j)
                               \/ JobClaimLost(j)
      PROVE  UNCHANGED <<inflight, agent>> /\ faults' = faults + 1
  BY <1>6 DEF LoseMessages, RecoverStaleScheduledJob, LeaseExpires, ChildAges, JobClaimLost,
              Fault, bounds
<1>7. CASE Crash
  BY <1>1, <1>2, <1>7 DEF Crash, Fault, Holding
<1>8. ASSUME NEW t \in Thread, ThreadFault(t)
      PROVE  /\ UNCHANGED inflight /\ faults' = faults + 1
             /\ \A u \in Thread : pc'[u] \in Holding => pc[u] \in Holding /\ job'[u] = job[u]
  <2>1. /\ UNCHANGED inflight /\ faults' = faults + 1 /\ pc[t] \in Holding
        /\ \/ Leave(t)
           \/ job' = job /\ \E to \in Holding : pc' = [pc EXCEPT ![t] = to]
    BY <1>8 DEF ThreadFault, StartFails, RunnerLosesNetwork, RunnerEnds, RescheduleReplyLost,
                RescheduleUnsent, RescheduleFails, RetryReplyLost, RetryUnsent, FinalFails, Fault, SetPc, Holding
  <2> QED
    BY <2>1 DEF Leave, SetPc, Holding
<1> QED
  BY <1>1, <1>2, <1>3, <1>4, <1>5, <1>6, <1>7, <1>8 DEF Next, Recovery, agent

\* Nothing failed: a thread inside the lock stays on its job and goes forward, or leaves
\* a job that has ended.
LEMMA HolderMoves ==
    ASSUME LinkInv, [Next]_vars, faults' = faults, NEW t \in Thread, pc[t] \in Holding,
           NEW j \in Job, job[t] = j, ~Terminal(j)'
    PROVE  /\ job'[t] = j
           /\ pc[t] = "starting" =>
                 pc'[t] = "starting" \/ \E r \in inflight : r.thread = t /\ StartSave(r)
           /\ pc[t] \in PastStart => pc'[t] \in PastStart
           /\ pc[t] \in Ending => pc'[t] \in Ending
<1> DEFINE Forward ==
             /\ job'[t] = j
             /\ pc[t] = "starting" =>
                   pc'[t] = "starting" \/ \E r \in inflight : r.thread = t /\ StartSave(r)
             /\ pc[t] \in PastStart => pc'[t] \in PastStart
             /\ pc[t] \in Ending => pc'[t] \in Ending
<1> USE DEF LinkInv, LockInv, TypeOK, AgentOK, Holding, PastStart, Ending
<1>1. CASE pc'[t] = pc[t] /\ job'[t] = job[t]
  BY <1>1
<1>2. ~Fault
  BY ConstantsAssumption DEF ConstantsAssumption, Fault, BoundsOK
<1>3. ASSUME NEW u \in Thread, ThreadFault(u) PROVE FALSE
  BY <1>2, <1>3 DEF ThreadFault, StartFails, RunnerLosesNetwork, RescheduleReplyLost,
                    RescheduleUnsent, RescheduleFails, RetryReplyLost, RetryUnsent, FinalFails
<1>4. ASSUME NEW u \in Thread, AcquireLock(u) \/ BeatRead(u) \/ BeatRefused(u)
                               \/ RunnerFollowsUp(u) \/ StartRead(u) \/ FinalRead(u)
      PROVE  pc'[t] = pc[t] /\ job'[t] = job[t]
  BY <1>4 DEF AcquireLock, BeatRead, BeatRefused, RunnerFollowsUp, StartRead, FinalRead,
              ReadReport, SetPc, agent
<1>5. ASSUME NEW u \in Thread, StartRefused(u) \/ RetryRefused(u) \/ FinalRefused(u)
      PROVE  pc'[t] = pc[t] /\ job'[t] = job[t]
  <2>1. Terminal(job[u]) /\ Leave(u) /\ UNCHANGED status
    BY <1>5 DEF StartRefused, RetryRefused, FinalRefused, table
  <2>2. u # t
    BY <2>1 DEF Terminal
  <2> QED
    BY <2>1, <2>2 DEF Leave, SetPc
<1>6. ASSUME NEW u \in Thread, RunnerStep(u) PROVE Forward
  <2>1. pc[u] = "running" /\ job' = job /\ \E to \in PastStart : pc' = [pc EXCEPT ![u] = to]
    BY <1>6 DEF RunnerStep, RunnerReschedules, RunnerReturns, RunnerRaises, RunnerCoolsDown,
                RunnerEnds, SetPc
  <2> QED
    BY <2>1
<1>7. ASSUME NEW u \in Thread, Reschedule(u) \/ RescheduleRefused(u) \/ RetryReschedule(u)
      PROVE  Forward
  <2>1. /\ pc[u] \in {"rescheduling", "retrying"} /\ job' = job
        /\ \E to \in Ending : pc' = [pc EXCEPT ![u] = to]
    BY <1>7 DEF Reschedule, RescheduleRefused, RetryReschedule, SetPc
  <2> QED
    BY <2>1
<1>8. ASSUME \/ Operators \/ LoseMessages \/ UNCHANGED vars
             \/ \E k \in Job : Recovery(k) \/ LeaseExpires(k) \/ ChildAges(k) \/ JobClaimLost(k)
      PROVE  pc'[t] = pc[t] /\ job'[t] = job[t]
  BY <1>8 DEF Operators, JobCancel, JobRunNow, JobRetry, JobRestart, JobUnstuck, OperatorJob,
              LoseMessages, vars, Recovery, RecoverStaleRunningJob, RecoverStaleScheduledJob,
              LeaseExpires, ChildAges, JobClaimLost, agent
<1>9. ASSUME NEW u \in Thread, NEW k \in Job, Arrival(u, k)
      PROVE  pc'[t] = pc[t] /\ job'[t] = job[t]
  BY <1>9 DEF Arrival, Deliver, JobClaim, Assign
<1>10. ~Crash
  BY <1>2 DEF Crash
<1>11. ASSUME NEW r \in inflight, HubSave(r) PROVE Forward
  <2>1. /\ r.thread \in Thread /\ r.job \in Job
        /\ r.kind = "final" => r.status \in {"finished", "error"}
    BY ReportFields
  <2>2. CASE UNCHANGED <<pc, job>>
    BY <1>1, <2>2
  <2>3. CASE StartSave(r) /\ pc[r.thread] = "starting"
    <3>1. pc' = [pc EXCEPT ![r.thread] = "running"] /\ job' = job
      BY <2>3 DEF StartSave, SetPc
    <3> QED
      BY <2>1, <2>3, <3>1
  <2>4. CASE FinalSave(r) /\ Leave(r.thread)
    <3>1. Terminal(r.job)'
      BY <2>1, <2>4 DEF FinalSave, RowsOK, Terminal
    <3>2. r.thread # t
      BY <3>1 DEF WorkOnRows
    <3> QED
      BY <1>1, <2>4, <3>2 DEF Leave, SetPc
  <2> QED
    BY <1>11, <2>2, <2>3, <2>4 DEF HubSave, StartSave, BeatSave, FinalSave, agent
<1> QED
  BY <1>1, <1>3, <1>4, <1>5, <1>6, <1>7, <1>8, <1>9, <1>10, <1>11 DEF Next, ThreadStep

\* Nothing failed: the live lease of a job at work stays live.
LEMMA LiveLeaseKept ==
    ASSUME TypeOK, [Next]_vars, faults' = faults, NEW j \in Job, status[j] = "running",
           lease[j] = "live", NEW t \in Thread, pc[t] \in Holding, job[t] = j, ~Terminal(j)'
    PROVE  lease'[j] = "live"
<1> USE DEF TypeOK, RowsOK, ClockOK
<1>1. ~Fault
  BY ConstantsAssumption DEF ConstantsAssumption, Fault, BoundsOK
<1>2. CASE Operators
  <2>1. ~JobCancel
    BY DEF JobCancel, Active, Terminal
  <2>2. ASSUME NEW k \in Job, JobRunNow(k) \/ JobRetry(k) \/ JobRestart(k)
        PROVE  UNCHANGED lease
    BY <2>2 DEF JobRunNow, JobRetry, JobRestart, clock
  <2>3. ASSUME NEW k \in Job, JobUnstuck(k) PROVE lease'[j] = lease[j]
    BY <2>3 DEF JobUnstuck, EndLease
  <2> QED
    BY <1>2, <2>1, <2>2, <2>3 DEF Operators
<1>3. ASSUME NEW k \in Job, Recovery(k) \/ LeaseExpires(k) PROVE lease'[j] = lease[j]
  BY <1>1, <1>3 DEF Recovery, RecoverStaleRunningJob, Stale, RecoverStaleScheduledJob,
                    LeaseExpires, EndLease, table, clock
<1>4. ASSUME NEW k \in Job,
             JobClaimLost(k) \/ ChildAges(k) \/ \E u \in Thread : Arrival(u, k)
      PROVE  lease'[j] = "live"
  BY <1>4 DEF JobClaimLost, ChildAges, Arrival, Deliver, JobClaim, table, clock
<1>5. ASSUME NEW k \in Job, NEW isPatched \in BOOLEAN, RescheduleJob(k, isPatched)
      PROVE  UNCHANGED lease
  BY <1>5 DEF RescheduleJob, table, clock
<1>6. ASSUME NEW u \in Thread,
             \/ AcquireLock(u) \/ BeatRead(u) \/ BeatRefused(u) \/ RunnerFollowsUp(u)
             \/ ThreadStep(u) \/ ThreadFault(u)
      PROVE  UNCHANGED lease
  BY <1>5, <1>6, ThreadAsks DEF table, clock
<1>7. ASSUME NEW r \in inflight, HubSave(r) PROVE lease'[j] = "live"
  <2>1. r.job \in Job /\ (r.kind = "final" => r.status \in {"finished", "error"})
    BY ReportFields
  <2>2. CASE StartSave(r) \/ BeatSave(r)
    BY <2>1, <2>2 DEF StartSave, BeatSave, SaveRunning, RenewLease
  <2>3. CASE FinalSave(r)
    <3>1. r.job # j
      BY <2>1, <2>3 DEF FinalSave, Terminal
    <3> QED
      BY <2>3, <3>1 DEF FinalSave, EndLease
  <2> QED
    BY <1>7, <2>2, <2>3 DEF HubSave
<1>8. CASE LoseMessages \/ Crash \/ UNCHANGED vars
  BY <1>8 DEF LoseMessages, Crash, vars, table, clock
<1> QED
  BY <1>2, <1>3, <1>4, <1>6, <1>7, <1>8 DEF Next

\* Nothing failed: a job that is tended and has not ended is tended.
LEMMA TendedKept ==
    ASSUME LinkInv, OneReport, [Next]_vars, faults' = faults, NEW j \in Job, Tended(j),
           ~Terminal(j)'
    PROVE  Tended(j)'
<1> USE DEF LinkInv, LockInv
<1>1. ASSUME status'[j] = "running"
      PROVE  lease'[j] = "live" /\ \E t \in Thread : job'[t] = j /\ pc'[t] \in PastStart
  <2>1. CASE status[j] = "running"
    <3>1. PICK t \in Thread : job[t] = j /\ pc[t] \in PastStart /\ pc[t] \in Holding
      BY <2>1 DEF Tended, PastStart
    <3>2. job'[t] = j /\ pc'[t] \in PastStart
      BY <3>1, HolderMoves
    <3>3. lease'[j] = "live"
      BY <2>1, <3>1, LiveLeaseKept DEF Tended
    <3> QED
      BY <3>2, <3>3
  <2>2. CASE status[j] # "running"
    <3>1. PICK r \in inflight : HubSave(r)
      BY <1>1, <2>2, NoStartLater
    <3>2. /\ r.thread \in Thread /\ r.job \in Job
          /\ r.kind = "final" => r.status \in {"finished", "error"}
      BY ReportFields DEF TypeOK
    <3>3. r.job = j /\ (StartSave(r) \/ BeatSave(r))
      BY <1>1, <2>2, <3>1, <3>2 DEF HubSave, StartSave, BeatSave, SaveRunning, FinalSave,
                                    TypeOK, RowsOK
    <3>4. lease'[j] = "live"
      BY <3>3 DEF StartSave, BeatSave, SaveRunning, RenewLease, TypeOK, ClockOK
    <3>5. CASE StartSave(r)
      <4>1. pc[r.thread] = "starting"
        BY <3>3, <3>5 DEF StartSave, Tended
      <4>2. job[r.thread] = j
        BY <3>3, <4>1 DEF WorkOnRows
      <4>3. pc' = [pc EXCEPT ![r.thread] = "running"] /\ job' = job
        BY <3>5, <4>1 DEF StartSave, SetPc
      <4>4. pc'[r.thread] \in PastStart
        BY <3>2, <4>3 DEF TypeOK, AgentOK, PastStart, Holding
      <4> QED
        BY <3>2, <3>4, <4>2, <4>3, <4>4
    <3>6. CASE BeatSave(r)
      <4>1. pc[r.thread] \in PastStart /\ UNCHANGED <<pc, job>>
        BY <3>3, <3>6 DEF BeatSave, Tended, agent
      <4>2. job[r.thread] = j
        BY <3>3, <4>1 DEF WorkOnRows, PastStart, Holding
      <4> QED
        BY <3>2, <3>4, <4>1, <4>2
    <3> QED
      BY <3>3, <3>5, <3>6
  <2> QED
    BY <2>1, <2>2
<1>2. ASSUME NEW r \in inflight', r.job = j
      PROVE  /\ r.kind = "start" => pc'[r.thread] = "starting"
             /\ r.kind = "beat" => pc'[r.thread] \in PastStart
             /\ r.kind = "final" => pc'[r.thread] \in Ending
  <2>1. CASE r \notin inflight
    <3>1. /\ UNCHANGED pc
          /\ r.kind = "start" => pc[r.thread] = "starting"
          /\ r.kind = "beat" => pc[r.thread] = "running"
          /\ r.kind = "final" => pc[r.thread] \in Ending
      BY <2>1, ReportArrives DEF agent
    <3> QED
      BY <3>1 DEF PastStart, Holding
  <2>2. CASE r \in inflight
    <3>1. r.thread \in Thread
      BY <2>2, ReportFields DEF TypeOK
    <3>2. /\ r.kind = "start" => pc[r.thread] = "starting"
          /\ r.kind = "beat" => pc[r.thread] \in PastStart
          /\ r.kind = "final" => pc[r.thread] \in Ending
      BY <1>2, <2>2 DEF Tended
    <3>3. ASSUME pc[r.thread] \in Holding
          PROVE  /\ pc[r.thread] = "starting" =>
                       \/ pc'[r.thread] = "starting"
                       \/ \E s \in inflight : s.thread = r.thread /\ StartSave(s)
                 /\ pc[r.thread] \in PastStart => pc'[r.thread] \in PastStart
                 /\ pc[r.thread] \in Ending => pc'[r.thread] \in Ending
      <4>1. job[r.thread] = j
        BY <1>2, <2>2, <3>3 DEF WorkOnRows, Holding
      <4> QED
        BY <3>1, <3>3, <4>1, HolderMoves
    <3>4. CASE r.kind = "start"
      <4>1. ASSUME NEW s \in inflight, s.thread = r.thread, StartSave(s) PROVE FALSE
        <5>1. s = r
          BY <2>2, <3>4, <4>1 DEF OneReport, StartSave
        <5> QED
          BY <1>2, <4>1, <5>1 DEF StartSave, SaveRunning
      <4> QED
        BY <3>2, <3>3, <3>4, <4>1 DEF Holding
    <3>5. CASE r.kind = "beat"
      BY <3>2, <3>3, <3>5 DEF PastStart
    <3>6. CASE r.kind = "final"
      BY <3>2, <3>3, <3>6 DEF Ending, Holding
    <3> QED
      BY <3>4, <3>5, <3>6
  <2> QED
    BY <2>1, <2>2
<1> QED
  BY <1>1, <1>2 DEF Tended

\* A failure leaves alone the jobs that no thread works on.
LEMMA FaultTended ==
    ASSUME LinkInv, [Next]_vars, faults' # faults, NEW j \in Job, Tended(j),
           \A t \in Thread : pc[t] \in Holding => job[t] # j
    PROVE  Tended(j)'
<1> USE DEF LinkInv, LockInv
<1>1. UNCHANGED inflight /\ \A r \in inflight : ~HubSave(r)
  BY FaultMoves
<1>2. status[j] # "running"
  BY DEF Tended, PastStart
<1>3. status'[j] # "running"
  BY <1>1, <1>2, NoStartLater
<1>4. ASSUME NEW r \in inflight, r.job = j PROVE FALSE
  <2>1. r.thread \in Thread /\ r.kind \in {"start", "beat", "final"}
    BY DEF TypeOK, Report
  <2>2. pc[r.thread] \in Holding
    BY <1>4, <2>1 DEF Tended, PastStart, Ending, Holding
  <2>3. job[r.thread] = j
    BY <1>4, <2>2 DEF WorkOnRows, Holding
  <2> QED
    BY <2>1, <2>2, <2>3
<1> QED
  BY <1>1, <1>3, <1>4 DEF Tended

\* A thread that gets to its first report has taken the lock.
LEMMA HoldingMoves ==
    ASSUME TypeOK, [Next]_vars, NEW t \in Thread, pc'[t] \in Holding
    PROVE  job'[t] = job[t] /\ (pc[t] \in Holding \/ AcquireLock(t))
<1>1. CASE pc'[t] \in PastStart
  BY <1>1, PastStartMoves DEF PastStart, Holding, StartSave, agent
<1>2. CASE pc'[t] = "starting"
  <2> USE DEF TypeOK, AgentOK
  <2>1. CASE UNCHANGED <<pc, job>>
    BY <1>2, <2>1 DEF Holding
  <2>2. ASSUME NEW u \in Thread, AcquireLock(u)
        PROVE  job'[t] = job[t] /\ (pc[t] \in Holding \/ AcquireLock(t))
    BY <1>2, <2>2 DEF AcquireLock, SetPc, Holding
  <2>3. ASSUME NEW u \in Thread,
               \/ BeatRead(u) \/ BeatRefused(u) \/ RunnerFollowsUp(u)
               \/ ThreadStep(u) \/ ThreadFault(u)
        PROVE  job'[t] = job[t] /\ pc[t] \in Holding
    <3>1. \/ UNCHANGED <<pc, job>>
          \/ job' = job /\ \E to \in PastStart : pc' = [pc EXCEPT ![u] = to]
          \/ Leave(u)
      BY <2>3 DEF BeatRead, BeatRefused, RunnerFollowsUp, ReadReport, ThreadStep,
           StartRead, StartRefused, RunnerStep, RunnerReschedules, RunnerReturns,
           RunnerRaises, RunnerCoolsDown, RunnerEnds, Reschedule, RescheduleRefused,
           RetryReschedule, RetryRefused, FinalRead, FinalRefused, ThreadFault, StartFails,
           RunnerLosesNetwork, RescheduleReplyLost, RescheduleUnsent, RescheduleFails, RetryReplyLost,
           RetryUnsent, FinalFails, SetPc, PastStart, Holding, agent
    <3> QED
      BY <1>2, <3>1 DEF Leave, SetPc, PastStart, Holding
  <2>4. ASSUME \/ Operators \/ LoseMessages \/ UNCHANGED vars
               \/ \E j \in Job : Recovery(j) \/ LeaseExpires(j) \/ ChildAges(j) \/ JobClaimLost(j)
        PROVE  UNCHANGED <<pc, job>>
    BY <2>4 DEF Operators, JobCancel, JobRunNow, JobRetry, JobRestart, JobUnstuck, OperatorJob,
                LoseMessages, vars, Recovery, RecoverStaleRunningJob, RecoverStaleScheduledJob,
                LeaseExpires, ChildAges, JobClaimLost, agent
  <2>5. ASSUME NEW u \in Thread, NEW j \in Job, Arrival(u, j)
        PROVE  job'[t] = job[t] /\ pc[t] \in Holding
    BY <1>2, <2>5 DEF Arrival, Deliver, JobClaim, Assign, Holding
  <2>6. ~Crash
    BY <1>2 DEF Crash
  <2>7. ASSUME NEW r \in inflight, HubSave(r) PROVE job'[t] = job[t] /\ pc[t] \in Holding
    <3>1. r.thread \in Thread
      BY ReportFields
    <3>2. \/ UNCHANGED <<pc, job>>
          \/ job' = job /\ pc' = [pc EXCEPT ![r.thread] = "running"]
          \/ Leave(r.thread)
      BY <2>7 DEF HubSave, StartSave, BeatSave, FinalSave, SetPc, agent
    <3> QED
      BY <1>2, <3>1, <3>2 DEF Leave, SetPc, Holding
  <2> QED
    BY <2>1, <2>2, <2>3, <2>4, <2>5, <2>6, <2>7 DEF Next
<1> QED
  BY <1>1, <1>2 DEF PastStart

\* A spent job has left the queue.
LEMMA SpentBegun ==
    ASSUME BegunInv, NEW j \in Job, Spent(j)
    PROVE  Begun(j)
BY DEF BegunInv, BegunOK, Spent, Ending, PastStart, Holding

\* The recovery cancels no job that is tended.
LEMMA TendedNotStale ==
    ASSUME NEW j \in Job, RecoverStaleRunningJob(j)
    PROVE  ~Terminal(j) /\ ~Tended(j)
BY DEF RecoverStaleRunningJob, Stale, Tended, Terminal

LEMMA OnlyVictimStale ==
    ASSUME NEW v, Victim(v)
    PROVE  \A k \in Job \ {v} : ~(Carrier(k) /\ RecoverStaleRunningJob(k) /\ CancelOrphan(k))
BY TendedNotStale DEF Victim

\* The chain stays carried whatever the recovery cancels: what it takes for the job's
\* continuation is one, unless the job is the victim and the chain does not depend on it.
LEMMA ChainCarried ==
    ASSUME BegunInv, [Next]_vars, NEW v \in Job \cup {NoJob}, Victim(v)
    PROVE  Carried(NoJob)'
<1>1. Carried(NoJob) /\ NoJob \in Job \cup {NoJob}
  BY DEF Victim
<1>2. CASE \A k \in Job \ {NoJob} : ~(Carrier(k) /\ RecoverStaleRunningJob(k) /\ CancelOrphan(k))
  BY <1>1, <1>2, CarriedKept
<1>3. ASSUME NEW k \in Job, Carrier(k), RecoverStaleRunningJob(k), CancelOrphan(k)
      PROVE  Carried(NoJob)'
  <2>1. k = v
    BY <1>3, OnlyVictimStale
  <2>2. PICK i \in Job \ {v} : Active(i)
    <3>1. ~Continued(k)
      BY <1>3 DEF Carrier, Spent
    <3> QED
      BY <1>3, <2>1, <3>1 DEF CancelOrphan, Continued
  <2>3. Carried(v)
    <3>1. CASE Carrier(i)
      BY <2>2, <3>1 DEF Carried
    <3>2. CASE ~Carrier(i)
      <4>1. Spent(i) /\ ~Terminal(i)
        BY <2>2, <3>2 DEF Carrier, Active, Terminal
      <4>2. status[i] = "running"
        BY <2>2, <4>1, SpentBegun DEF Begun, Terminal
      <4>3. PICK t \in Thread : job[t] = i /\ pc[t] \in Holding
        BY <2>2, <4>1, <4>2 DEF Victim, Tended, PastStart
      <4> QED
        BY <2>2, <4>1, <4>3 DEF Victim
    <3> QED
      BY <3>1, <3>2
  <2>4. Carried(v)'
    BY <2>3, CarriedKept, OnlyVictimStale DEF Victim
  <2> QED
    BY <2>4 DEF Carried, NoJob, Job
<1> QED
  BY <1>2, <1>3

\* While nothing more fails, a job at work and about to end is not the last one but v.
LEMMA AtWorkCarried ==
    ASSUME BegunInv, [Next]_vars, faults' = faults, tainted' = {},
           NEW v \in Job \cup {NoJob}, Victim(v),
           NEW t \in Thread, NEW j \in Job, job'[t] = j, pc'[t] \in Holding, j # v,
           ~Terminal(j)', Spent(j)'
    PROVE  Carried(v)'
<1> USE DEF BegunInv, LinkInv, LockInv
<1>1. ~Terminal(j)
  BY UnmarkedEnds
<1>2. ASSUME NEW c, NEW src, NEW trig, RowAdded(c, src, trig) PROVE Carried(v)'
  <2>1. c \in Job /\ status[c] = "absent" /\ Carrier(c)'
    BY <1>2, NewRowCarries
  <2>2. c # v
    BY <2>1 DEF Victim, NoJob, Job
  <2> QED
    BY <2>1, <2>2 DEF Carried
<1>3. CASE stopped'
  BY <1>3 DEF Carried
<1>4. CASE NoRowAdded /\ ~stopped'
  <2>1. Spent(j)
    BY <1>1, <1>4, SpentGrows
  <2>2. job[t] = j /\ (pc[t] \in Holding \/ AcquireLock(t))
    BY HoldingMoves
  <2>3. CASE pc[t] \in Holding
    <3>1. Carried(v)
      BY <1>1, <2>1, <2>2, <2>3 DEF Victim
    <3> QED
      BY <3>1, CarriedKept, OnlyVictimStale DEF Victim
  <2>4. CASE AcquireLock(t)
    <3>1. \A u \in Thread : pc[u] \notin Holding
      BY <2>4, ConstantsAssumption DEF ConstantsAssumption, AcquireLock, LockOK
    <3>2. status[j] # "running"
      BY <1>1, <3>1 DEF Victim, Tended, PastStart
    <3> QED
      BY <1>1, <2>1, <3>2, SpentBegun DEF Begun, Terminal
  <2> QED
    BY <2>2, <2>3, <2>4
<1> QED
  BY <1>2, <1>3, <1>4, StepRows DEF RowsStep

\* The first failure makes the job at work its victim; later steps keep it.
LEMMA VictimNext ==
    ASSUME BegunInv, OneReport, [Next]_vars, tainted' = {}, faults' <= 1,
           tainted = {} /\ faults <= 1 => \E v \in Job \cup {NoJob} : Victim(v)
    PROVE  \E v \in Job \cup {NoJob} : Victim(v)'
<1> USE DEF BegunInv, LinkInv, LockInv
<1>1. faults \in Nat
  BY ConstantsAssumption DEF ConstantsAssumption, TypeOK, BoundsOK
<1>2. faults' = faults \/ (faults = 0 /\ faults' = 1)
  BY <1>1, FaultMoves
<1>3. PICK v \in Job \cup {NoJob} : Victim(v)
  BY <1>1, <1>2, TaintedGrows
<1>4. Carried(NoJob)'
  BY <1>3, ChainCarried
<1>5. \A k \in Job : status[k] # "absent" => status'[k] # "absent"
  BY StepRows, RowsRemain
<1>6. \A j \in Job : ~Terminal(j)' => ~Terminal(j)
  BY UnmarkedEnds
<1>7. CASE faults' = faults
  <2>1. v # NoJob => status'[v] # "absent" /\ faults' # 0
    BY <1>3, <1>5, <1>7 DEF Victim
  <2>2. ASSUME NEW j \in Job \ {v}, ~Terminal(j)' PROVE Tended(j)'
    BY <1>3, <1>6, <1>7, <2>2, TendedKept DEF Victim
  <2>3. ASSUME NEW t \in Thread, pc'[t] \in Holding, job'[t] # v,
               ~Terminal(job[t])', Spent(job[t])'
        PROVE  Carried(v)'
    <3>1. PICK j \in Job : j = job'[t]
      <4>1. AgentOK'
        BY TypeNext DEF TypeOK
      <4> QED
        BY <2>3, <4>1 DEF AgentOK, Holding
    <3>2. ~Terminal(j)' /\ Spent(j)'
      BY <2>3, <3>1 DEF Terminal, Spent, Continued
    <3> QED
      BY <1>3, <1>7, <2>3, <3>1, <3>2, AtWorkCarried
  <2>4. Victim(v)'
    BY <1>4, <2>1, <2>2, <2>3 DEF Victim
  <2> QED
    BY <2>4
<1>8. CASE faults = 0 /\ faults' = 1
  <2>1. v = NoJob
    BY <1>3, <1>8 DEF Victim
  <2>2. ASSUME NEW t \in Thread, pc'[t] \in Holding
        PROVE  pc[t] \in Holding /\ job'[t] = job[t]
    BY <1>8, <2>2, FaultMoves
  <2>3. ASSUME NEW w \in Job \cup {NoJob}, w # NoJob => status[w] # "absent",
               \A t \in Thread : pc[t] \in Holding => job[t] = w
        PROVE  Victim(w)'
    <3>1. w # NoJob => status'[w] # "absent" /\ faults' # 0
      BY <1>5, <1>8, <2>3
    <3>2. ASSUME NEW j \in Job \ {w}, ~Terminal(j)' PROVE Tended(j)'
      <4>1. Tended(j)
        BY <1>3, <1>6, <2>1, <3>2 DEF Victim, NoJob, Job
      <4> QED
        BY <1>8, <2>3, <3>2, <4>1, FaultTended
    <3>3. ASSUME NEW t \in Thread, pc'[t] \in Holding, job'[t] # w PROVE FALSE
      BY <2>2, <2>3, <3>3
    <3> QED
      BY <1>4, <3>1, <3>2, <3>3 DEF Victim
  <2>4. CASE \A t \in Thread : pc[t] \notin Holding
    BY <2>3, <2>4
  <2>5. ASSUME NEW t \in Thread, pc[t] \in Holding
        PROVE  \E w \in Job \cup {NoJob} : Victim(w)'
    <3>1. PICK w \in Job : w = job[t] /\ status[w] # "absent"
      BY <2>5 DEF TypeOK, AgentOK, Holding, WorkOnRows
    <3>2. \A u \in Thread : pc[u] \in Holding => job[u] = w
      BY <2>5, <3>1 DEF LockOK
    <3> QED
      BY <2>3, <3>1, <3>2
  <2> QED
    BY <2>4, <2>5
<1> QED
  BY <1>2, <1>7, <1>8

\* The root carries the chain at first.
LEMMA ChainInit == Init => ChainInv
<1> SUFFICES ASSUME Init PROVE ChainInv
  OBVIOUS
<1>1. RowsLinked /\ WorkOnRows /\ FollowupKnown
  BY DEF Init, RowsLinked, WorkOnRows, FollowupKnown
<1>2. BegunOK
  BY DEF Init, BegunOK, PastStart, Holding, Continued, NoJob, Job
<1>3. OneReport
  BY DEF Init, OneReport
<1>4. 1 \in Job /\ 1 # NoJob
  BY ConstantsAssumption DEF ConstantsAssumption, Job, NoJob
<1>5. Carrier(1)
  BY <1>4 DEF Init, Carrier, Active, Spent, Continued, Ending, NoJob
<1>6. \A j \in Job : Tended(j)
  BY DEF Init, Tended
<1>7. \A t \in Thread : pc[t] \notin Holding
  BY DEF Init, Holding
<1>8. Victim(NoJob)
  BY <1>4, <1>5, <1>6, <1>7 DEF Victim, Carried
<1> QED
  BY <1>1, <1>2, <1>3, <1>8, LockInit DEF ChainInv, BegunInv, LinkInv

LEMMA ChainNext == ChainInv /\ [Next]_vars => ChainInv'
<1> SUFFICES ASSUME ChainInv, [Next]_vars PROVE ChainInv'
  OBVIOUS
<1>1. /\ TypeOK /\ LockInv /\ RowsLinked /\ WorkOnRows /\ FollowupKnown /\ LinkInv
      /\ BegunInv /\ OneReport
      /\ tainted = {} /\ faults <= 1 => \E v \in Job \cup {NoJob} : Victim(v)
  BY DEF ChainInv, BegunInv, LinkInv, LockInv
<1>2. LockInv'
  BY <1>1, TypeNext, LockNext DEF LockInv
<1>3. RowsLinked' /\ WorkOnRows' /\ FollowupKnown'
  BY <1>1, LinkNext, FollowupKnownNext
<1>4. BegunOK' /\ OneReport'
  BY <1>1, BegunNext, OneReportNext
<1>5. (tainted = {} /\ faults <= 1)' => \E v \in Job \cup {NoJob} : Victim(v)'
  BY <1>1, VictimNext
<1> QED
  BY <1>2, <1>3, <1>4, <1>5 DEF ChainInv, BegunInv, LinkInv

\* The chain survives one failure: until it ends by itself or is cancelled, some job of
\* it is active, whatever the recovery, the executor and one crash, lost answer or lost
\* message do, for any number of jobs and threads.
THEOREM ChainSurvives == Spec => []ChainGoesOn
<1>1. ChainInv => ChainGoesOn
  BY DEF ChainInv, Victim, Carried, Carrier, ChainGoesOn
<1> QED
  BY ChainInit, ChainNext, <1>1, PTL DEF Spec

\* The recovery does not take work away: while nothing has failed no running job looks
\* stale to it, and one failure leaves at most one that does.
THEOREM OneOrphan ==
    Spec => [](tainted = {} => /\ faults = 0 => \A j \in Job : ~Stale(j)
                               /\ faults <= 1 => \A j, k \in Job :
                                                    Stale(j) /\ Stale(k) => j = k)
<1> DEFINE Orphans == tainted = {} => /\ faults = 0 => \A j \in Job : ~Stale(j)
                                      /\ faults <= 1 => \A j, k \in Job :
                                                           Stale(j) /\ Stale(k) => j = k
<1>1. ASSUME ChainInv PROVE Orphans
  <2>1. \A j \in Job : Stale(j) => ~Terminal(j) /\ ~Tended(j)
    BY DEF Stale, Tended, Terminal, TerminalStatus
  <2>2. SUFFICES ASSUME tainted = {}, faults <= 1
                 PROVE  /\ faults = 0 => \A j \in Job : ~Stale(j)
                        /\ \A j, k \in Job : Stale(j) /\ Stale(k) => j = k
    OBVIOUS
  <2>3. PICK v \in Job \cup {NoJob} : Victim(v)
    BY <1>1, <2>2 DEF ChainInv
  <2>4. \A j \in Job : Stale(j) => j = v
    BY <2>1, <2>3 DEF Victim
  <2>5. faults = 0 => v = NoJob
    BY <2>3 DEF Victim
  <2>6. NoJob \notin Job
    BY DEF NoJob, Job
  <2> QED
    BY <2>4, <2>5, <2>6
<1>2. ChainInv => Orphans
  BY <1>1
<1> QED
  BY ChainInit, ChainNext, <1>2, PTL DEF Spec
=============================================================================
