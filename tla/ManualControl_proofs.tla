------------------------ MODULE ManualControl_proofs ------------------------
(***************************************************************************)
(* Proofs about ManualControl, for every number of jobs, sessions, threads *)
(* and processes, either transport and every value of the bounds.          *)
(***************************************************************************)
EXTENDS ManualControl, FiniteSetTheorems, SequenceTheorems, TLAPS

-----------------------------------------------------------------------------
(* Type correctness *)

\* Places of a process that carry a session.
Serving == {"holding", "ending", "listing", "releasing", "forwarding"}

\* What the types leave open: who carries a session or a job, and that a thread that
\* waits or plays has no report under way at the hub.
PlaceOK ==
    /\ \A p \in Process : at[p] \in Serving => ses[p] # None
    /\ \A t \in Thread : pc[t] # "idle" \/ at[t] # "idle" => job[t] \in Job
    /\ \A t \in Thread : pc[t] \in {"waiting", "running"} => at[t] = "idle"

TypeInv == ControlTypeOK /\ PlaceOK

USE ControlAssumption DEF ControlAssumption, Session, None, Process
USE DEF jobs, control, hub, threads, service, history, bounds
USE DEF JobStep, GateStep, ControlStep, EndStep, ServiceStep

\* Failures and visits are counted up to their bounds.
LEMMA FaultType == ASSUME BoundsOK, Fault PROVE BoundsOK'
BY DEF BoundsOK, Fault

LEMMA VisitType == ASSUME BoundsOK, Visit PROVE BoundsOK'
BY DEF BoundsOK, Visit

\* A finite number of processes is about to delete a row.
LEMMA EarlyType == ASSUME NEW j \in Job PROVE Early(j) \in Nat
<1>1. IsFiniteSet(Process)
  BY FS_Union
<1> QED
  BY <1>1, FS_Subset, FS_CardinalityType DEF Early

\* The initial rows, sessions, processes and threads have their types.
LEMMA TypeInit == Init => TypeInv
<1> SUFFICES ASSUME Init PROVE TypeInv
  OBVIOUS
<1>1. JobsOK /\ SessionsOK /\ HubOK /\ HistoryOK /\ BoundsOK
  BY DEF Init, JobsOK, SessionsOK, HubOK, HistoryOK, BoundsOK
<1>2. AgentOK /\ ServiceOK
  BY DEF Init, AgentOK, ServiceOK
<1>3. PlaceOK
  BY DEF Init, PlaceOK, Serving
<1> QED
  BY <1>1, <1>2, <1>3 DEF TypeInv, ControlTypeOK

\* A part none of whose variables changes keeps its type.
LEMMA Kept ==
    ASSUME TypeInv
    PROVE  /\ UNCHANGED jobs => JobsOK'
           /\ UNCHANGED control => SessionsOK'
           /\ UNCHANGED hub => HubOK'
           /\ UNCHANGED <<threads, lock>> => AgentOK'
           /\ UNCHANGED service => ServiceOK'
           /\ UNCHANGED history => HistoryOK'
           /\ UNCHANGED bounds => BoundsOK'
           /\ UNCHANGED <<at, ses, threads>> => PlaceOK'
<1> USE DEF TypeInv, ControlTypeOK
<1>1. UNCHANGED jobs => JobsOK'
  BY DEF JobsOK
<1>2. UNCHANGED control => SessionsOK'
  BY DEF SessionsOK
<1>3. UNCHANGED hub => HubOK'
  BY DEF HubOK
<1>4. UNCHANGED <<threads, lock>> => AgentOK'
  BY DEF AgentOK
<1>5. UNCHANGED service => ServiceOK'
  BY DEF ServiceOK
<1>6. (UNCHANGED history => HistoryOK') /\ (UNCHANGED bounds => BoundsOK')
  BY DEF HistoryOK, BoundsOK
<1>7. UNCHANGED <<at, ses, threads>> => PlaceOK'
  BY DEF PlaceOK
<1> QED
  BY <1>1, <1>2, <1>3, <1>4, <1>5, <1>6, <1>7

\* The job table's own steps touch no thread and no process.
LEMMA JobStepsType ==
    ASSUME TypeInv, NEW j \in Job, JobSteps(j)
    PROVE  TypeInv'
<1> USE DEF TypeInv, ControlTypeOK, JobSteps, CreateJob, CancelJob, LeaseExpires,
            RecoverStaleRunningJob, RecoverStaleScheduledJob
<1>1. JobsOK'
  BY DEF Dispatch, JobsOK
<1>2. UNCHANGED <<control, hub, threads, lock, service, history>>
  OBVIOUS
<1>3. BoundsOK'
  BY FaultType DEF BoundsOK
<1> QED
  BY <1>1, <1>2, <1>3, Kept

\* The gate keeps the types: a thread that asks has a job, and reports for that job.
LEMMA GateType ==
    ASSUME TypeInv, NEW t \in Thread,
           GateRead(t) \/ StartRefused(t) \/ HoldJob(t) \/ RememberHeld(t) \/ Save(t)
    PROVE  TypeInv'
<1> USE DEF TypeInv, ControlTypeOK
<1>1. CASE GateRead(t)
  <2>1. JobsOK' /\ SessionsOK' /\ ServiceOK' /\ AgentOK' /\ BoundsOK'
    BY <1>1, Kept DEF GateRead
  <2>2. HubOK'
    BY <1>1 DEF GateRead, SetAt, HubOK
  <2>3. HistoryOK'
    BY <1>1 DEF GateRead, AgentOK, PlaceOK, HistoryOK
  <2>4. PlaceOK'
    BY <1>1 DEF GateRead, SetAt, HubOK, AgentOK, PlaceOK, Serving
  <2> QED
    BY <2>1, <2>2, <2>3, <2>4
<1>2. CASE StartRefused(t)
  <2>1. JobsOK' /\ SessionsOK' /\ HubOK' /\ ServiceOK' /\ HistoryOK' /\ BoundsOK'
    BY <1>2, Kept DEF StartRefused
  <2>2. AgentOK' /\ PlaceOK'
    BY <1>2 DEF StartRefused, Leave, SetPc, AgentOK, HubOK, PlaceOK
  <2> QED
    BY <2>1, <2>2
<1>3. CASE HoldJob(t)
  <2>1. JobsOK' /\ SessionsOK' /\ ServiceOK' /\ AgentOK' /\ HistoryOK' /\ BoundsOK'
    BY <1>3, Kept DEF HoldJob
  <2>2. HubOK'
    BY <1>3 DEF HoldJob, SetAt, Takes, HubOK
  <2>3. PlaceOK'
    BY <1>3 DEF HoldJob, SetAt, Takes, HubOK, AgentOK, PlaceOK, Serving
  <2> QED
    BY <2>1, <2>2, <2>3
<1>4. CASE RememberHeld(t)
  <2>1. SessionsOK' /\ ServiceOK' /\ HistoryOK' /\ BoundsOK'
    BY <1>4, Kept DEF RememberHeld
  <2>2. JobsOK'
    BY <1>4 DEF RememberHeld, HubOK, AgentOK, JobsOK
  <2>3. HubOK' /\ AgentOK'
    BY <1>4 DEF RememberHeld, SetAt, Leave, SetPc, HubOK, AgentOK
  <2>4. PlaceOK'
    BY <1>4 DEF RememberHeld, SetAt, Leave, SetPc, HubOK, AgentOK, PlaceOK, Serving
  <2> QED
    BY <2>1, <2>2, <2>3, <2>4
<1>5. CASE Save(t)
  <2>1. SessionsOK' /\ ServiceOK' /\ HistoryOK' /\ BoundsOK'
    BY <1>5, Kept DEF Save
  <2>2. JobsOK'
    BY <1>5 DEF Save, HubOK, AgentOK, JobsOK
  <2>3. HubOK' /\ AgentOK'
    BY <1>5 DEF Save, SetAt, SetPc, HubOK, AgentOK
  <2>4. PlaceOK'
    BY <1>5 DEF Save, SetAt, SetPc, HubOK, AgentOK, PlaceOK, Serving
  <2> QED
    BY <2>1, <2>2, <2>3, <2>4
<1> QED
  BY <1>1, <1>2, <1>3, <1>4, <1>5

\* What happens to a thread besides the gate keeps the types.
LEMMA ThreadType ==
    ASSUME TypeInv, NEW t \in Thread,
           \/ \E j \in Job : Arrival(t, j)
           \/ AcquireLock(t) \/ JobEnds(t) \/ StartTimesOut(t)
    PROVE  TypeInv'
<1> USE DEF TypeInv, ControlTypeOK
<1>1. ASSUME NEW j \in Job, Arrival(t, j) PROVE TypeInv'
  <2>1. SessionsOK' /\ HubOK' /\ ServiceOK' /\ HistoryOK' /\ BoundsOK'
    BY <1>1, Kept DEF Arrival, Deliver, JobClaim, Assign
  <2>2. JobsOK'
    BY <1>1, EarlyType DEF Arrival, Deliver, JobClaim, JobsOK
  <2>3. AgentOK' /\ PlaceOK'
    BY <1>1 DEF Arrival, Deliver, JobClaim, Assign, SetPc, AgentOK, HubOK, PlaceOK
  <2> QED
    BY <2>1, <2>2, <2>3
<1>2. CASE AcquireLock(t)
  <2>1. JobsOK' /\ SessionsOK' /\ HubOK' /\ ServiceOK' /\ HistoryOK' /\ BoundsOK'
    BY <1>2, Kept DEF AcquireLock
  <2>2. AgentOK' /\ PlaceOK'
    BY <1>2 DEF AcquireLock, SetPc, AgentOK, HubOK, PlaceOK
  <2> QED
    BY <2>1, <2>2
<1>3. CASE JobEnds(t)
  <2>1. SessionsOK' /\ HubOK' /\ ServiceOK' /\ HistoryOK' /\ BoundsOK'
    BY <1>3, Kept DEF JobEnds
  <2>2. JobsOK'
    BY <1>3 DEF JobEnds, JobsOK
  <2>3. AgentOK' /\ PlaceOK'
    BY <1>3 DEF JobEnds, Leave, SetPc, AgentOK, HubOK, PlaceOK
  <2> QED
    BY <2>1, <2>2, <2>3
<1>4. CASE StartTimesOut(t)
  <2>1. JobsOK' /\ SessionsOK' /\ HubOK' /\ ServiceOK'
    BY <1>4, Kept DEF StartTimesOut
  <2>2. HistoryOK' /\ BoundsOK'
    BY <1>4, FaultType DEF StartTimesOut, PlaceOK, HistoryOK
  <2>3. AgentOK' /\ PlaceOK'
    BY <1>4 DEF StartTimesOut, Leave, SetPc, AgentOK, HubOK, PlaceOK
  <2> QED
    BY <2>1, <2>2, <2>3
<1> QED
  BY <1>1, <1>2, <1>3, <1>4

\* A request that is sent is one.
LEMMA SendType ==
    ASSUME reqs \in Seq(Message), NEW s \in Session,
           NEW op \in {"open", "request", "close"}, Send(op, s)
    PROVE  reqs' \in Seq(Message)
<1>1. [op |-> op, session |-> s] \in Message
  BY DEF Message
<1> QED
  BY <1>1, AppendProperties DEF Send

\* The page, the lease and the gateway keep the types.
LEMMA ControlType ==
    ASSUME TypeInv, NEW s \in Session,
           \/ Page(s) \/ ControlExpires(s)
           \/ \E p \in Worker : GatewayServes(p, s) \/ CallsEnd(p, s) \/ Sweep(p, s)
    PROVE  TypeInv'
<1> USE DEF TypeInv, ControlTypeOK
<1>1. CASE Page(s) \/ ControlExpires(s)
  <2>1. JobsOK' /\ HubOK' /\ AgentOK' /\ HistoryOK' /\ PlaceOK'
    BY <1>1, Kept DEF Page, RequestControl, AdvanceOpens, AdvanceAnswered, Touch, ControlExpires
  <2>2. SessionsOK'
    BY <1>1 DEF Page, RequestControl, AdvanceOpens, AdvanceAnswered, Touch, ControlExpires,
                SessionsOK
  <2>3. reqs' \in Seq(Message)
    BY <1>1, SendType DEF Page, RequestControl, AdvanceOpens, AdvanceAnswered, Touch,
                          ControlExpires, ServiceOK
  <2>4. ServiceOK'
    BY <1>1, <2>3 DEF Page, RequestControl, AdvanceOpens, AdvanceAnswered, Touch,
                      ControlExpires, ServiceOK
  <2>5. BoundsOK'
    BY <1>1, VisitType DEF Page, RequestControl, AdvanceOpens, AdvanceAnswered, Touch,
                           ControlExpires, BoundsOK
  <2> QED
    BY <2>1, <2>2, <2>4, <2>5
<1>2. ASSUME NEW p \in Worker, GatewayServes(p, s) \/ CallsEnd(p, s) \/ Sweep(p, s)
      PROVE  TypeInv'
  <2> USE DEF GatewayServes, CallsEnd, Sweep, SweepExpired, SweepLeftovers
  <2>1. JobsOK' /\ SessionsOK' /\ AgentOK' /\ ServiceOK' /\ HistoryOK'
    BY <1>2, Kept
  <2>2. BoundsOK'
    BY <1>2, VisitType DEF BoundsOK
  <2>3. PICK to \in {"forwarding", "ending", "listing"} :
          Takes(p, s, to) /\ UNCHANGED <<todo, ready, rows, threads>>
    BY <1>2
  <2>4. HubOK' /\ PlaceOK'
    BY <2>3 DEF Takes, HubOK, PlaceOK, Serving
  <2> QED
    BY <2>1, <2>2, <2>4
<1> QED
  BY <1>1, <1>2

\* A process of the hub that goes on keeps the types.
LEMMA HubStepType ==
    ASSUME TypeInv, NEW p \in Process, HubStep(p)
    PROVE  TypeInv'
<1> USE DEF TypeInv, ControlTypeOK
<1>1. CASE EndBegins(p)
  <2>1. JobsOK' /\ AgentOK' /\ HistoryOK' /\ BoundsOK'
    BY <1>1, Kept DEF EndBegins
  <2>2. ses[p] \in Session
    BY <1>1 DEF EndBegins, HubOK, PlaceOK, Serving
  <2>3. SessionsOK'
    BY <1>1 DEF EndBegins, SessionsOK
  <2>4. reqs' \in Seq(Message)
    BY <1>1, <2>2, SendType DEF EndBegins, ServiceOK
  <2>5. ServiceOK'
    BY <1>1, <2>4 DEF EndBegins, ServiceOK
  <2>6. HubOK' /\ PlaceOK'
    BY <1>1 DEF EndBegins, SetAt, AfterEnd, HubOK, PlaceOK, Serving
  <2> QED
    BY <2>1, <2>3, <2>5, <2>6
<1>2. CASE ListHeld(p)
  <2>1. JobsOK' /\ SessionsOK' /\ AgentOK' /\ ServiceOK' /\ HistoryOK' /\ BoundsOK'
    BY <1>2, Kept DEF ListHeld
  <2>2. HubOK' /\ PlaceOK'
    BY <1>2 DEF ListHeld, SetAt, HubOK, PlaceOK, Serving
  <2> QED
    BY <2>1, <2>2
<1>3. CASE EndFinishes(p)
  <2>1. JobsOK' /\ AgentOK' /\ ServiceOK' /\ HistoryOK' /\ BoundsOK'
    BY <1>3, Kept DEF EndFinishes
  <2>2. SessionsOK'
    BY <1>3 DEF EndFinishes, SessionsOK
  <2>3. HubOK' /\ PlaceOK'
    BY <1>3 DEF EndFinishes, SetAt, AfterEnd, HubOK, PlaceOK, Serving
  <2> QED
    BY <2>1, <2>2, <2>3
<1>4. CASE GatewayForwards(p)
  <2>1. JobsOK' /\ SessionsOK' /\ AgentOK' /\ HistoryOK' /\ BoundsOK'
    BY <1>4, Kept DEF GatewayForwards
  <2>2. ses[p] \in Session
    BY <1>4 DEF GatewayForwards, HubOK, PlaceOK, Serving
  <2>3. ServiceOK'
    BY <1>4, <2>2, SendType DEF GatewayForwards, ServiceOK
  <2>4. HubOK' /\ PlaceOK'
    BY <1>4 DEF GatewayForwards, SetAt, HubOK, PlaceOK, Serving
  <2> QED
    BY <2>1, <2>3, <2>4
<1>5. ASSUME NEW j \in Job, DispatchHeld(p, j) \/ DeleteHeld(p, j) PROVE TypeInv'
  <2>1. SessionsOK' /\ AgentOK' /\ ServiceOK' /\ HistoryOK' /\ BoundsOK' /\ PlaceOK'
    BY <1>5, Kept DEF DispatchHeld, DeleteHeld
  <2>2. JobsOK'
    BY <1>5 DEF DispatchHeld, DeleteHeld, Dispatch, JobsOK
  <2>3. HubOK'
    BY <1>5 DEF DispatchHeld, DeleteHeld, HubOK
  <2> QED
    BY <2>1, <2>2, <2>3
<1> QED
  BY <1>1, <1>2, <1>3, <1>4, <1>5 DEF HubStep

\* Failures keep the types: what dies leaves no place behind.
LEMMA FailureType ==
    ASSUME TypeInv,
           \/ \E p \in Process : HubProcessDies(p) \/ \E j \in Job : DispatchFails(p, j)
           \/ AgentCrash
    PROVE  TypeInv'
<1> USE DEF TypeInv, ControlTypeOK
<1>1. ASSUME NEW p \in Process, HubProcessDies(p) PROVE TypeInv'
  <2>1. JobsOK' /\ SessionsOK' /\ ServiceOK'
    BY <1>1, Kept DEF HubProcessDies
  <2>2. HubOK'
    BY <1>1 DEF HubProcessDies, SetAt, HubOK
  <2>3. HistoryOK'
    <3>1. CASE p \in Thread /\ pc[p] = "starting"
      <4>1. job[p] \in Job /\ dropped' = dropped \cup {job[p]} /\ unchecked' = unchecked
        BY <1>1, <3>1 DEF HubProcessDies, PlaceOK
      <4> QED
        BY <4>1 DEF HistoryOK
    <3>2. CASE ~(p \in Thread /\ pc[p] = "starting")
      BY <1>1, <3>2 DEF HubProcessDies, HistoryOK
    <3> QED
      BY <3>1, <3>2
  <2>4. BoundsOK'
    BY <1>1, FaultType DEF HubProcessDies
  <2>5. AgentOK' /\ PlaceOK'
    BY <1>1 DEF HubProcessDies, SetAt, Leave, SetPc, AgentOK, HubOK, PlaceOK, Serving
  <2> QED
    BY <2>1, <2>2, <2>3, <2>4, <2>5
<1>2. ASSUME NEW p \in Process, NEW j \in Job, DispatchFails(p, j) PROVE TypeInv'
  <2>1. JobsOK' /\ SessionsOK' /\ AgentOK' /\ ServiceOK' /\ HistoryOK' /\ PlaceOK'
    BY <1>2, Kept DEF DispatchFails
  <2>2. HubOK' /\ BoundsOK'
    BY <1>2, FaultType DEF DispatchFails, HubOK
  <2> QED
    BY <2>1, <2>2
<1>3. CASE AgentCrash
  <2>1. JobsOK' /\ SessionsOK' /\ HubOK'
    BY <1>3, Kept DEF AgentCrash
  <2>2. AgentOK' /\ PlaceOK'
    BY <1>3 DEF AgentCrash, AgentOK, PlaceOK
  <2>3. ServiceOK' /\ HistoryOK' /\ BoundsOK'
    BY <1>3, FaultType DEF AgentCrash, ServiceOK, PlaceOK, HistoryOK
  <2> QED
    BY <2>1, <2>2, <2>3
<1> QED
  BY <1>1, <1>2, <1>3

\* An answer is one; a request that moves on stays one.
LEMMA AnswerType ==
    ASSUME SessionsOK, NEW h \in Handler, NEW what \in {"ok", "retry"}, Answer(h, what)
    PROVE  answer' \in [Session -> {"none", "ok", "retry"}]
BY DEF SessionsOK, Answer

LEMMA MovedType ==
    ASSUME handlers \subseteq Handler, NEW h \in handlers,
           NEW to \in {"waiting", "opening", "playing"}, Moved(h, to)
    PROVE  handlers' \subseteq Handler
BY DEF Moved, Handler

\* The agent's service keeps the types.
LEMMA ServiceType ==
    ASSUME TypeInv,
           \/ TakeRequest \/ DropRequest
           \/ \E h \in handlers : Handle(h)
           \/ \E s \in Session : DropIdle(s)
    PROVE  TypeInv'
<1> USE DEF TypeInv, ControlTypeOK
<1>1. CASE TakeRequest \/ DropRequest
  <2>1. JobsOK' /\ HubOK' /\ HistoryOK' /\ PlaceOK' /\ SessionsOK' /\ AgentOK'
    BY <1>1, Kept DEF TakeRequest, DropRequest
  <2>2. Head(reqs) \in Message /\ reqs' \in Seq(Message)
    BY <1>1, HeadTailProperties DEF TakeRequest, DropRequest, ServiceOK
  <2>3. [op |-> Head(reqs).op, session |-> Head(reqs).session, at |-> "taken", kept |-> TRUE]
          \in Handler
    BY <2>2 DEF Message, Handler
  <2>4. handlers' \subseteq Handler /\ entries' \subseteq Session
    BY <1>1, <2>3 DEF TakeRequest, DropRequest, ServiceOK
  <2>5. BoundsOK'
    BY <1>1, FaultType DEF TakeRequest, DropRequest, BoundsOK
  <2> QED
    BY <2>1, <2>2, <2>4, <2>5 DEF ServiceOK
<1>2. ASSUME NEW s \in Session, DropIdle(s) PROVE TypeInv'
  <2>1. JobsOK' /\ SessionsOK' /\ HubOK' /\ AgentOK' /\ HistoryOK' /\ BoundsOK' /\ PlaceOK'
    BY <1>2, Kept DEF DropIdle
  <2>2. ServiceOK'
    BY <1>2 DEF DropIdle, ServiceOK
  <2> QED
    BY <2>1, <2>2
<1>3. ASSUME NEW h \in handlers, Handle(h) PROVE TypeInv'
  <2> USE DEF Handle, CloseEntry, FindEntry, LockToOpen, OpenBusy, OpenDone, OpenRefused, RequestDone
  <2>1. JobsOK' /\ HubOK' /\ HistoryOK' /\ BoundsOK' /\ PlaceOK'
    BY <1>3, Kept
  <2>2. h \in Handler
    BY DEF ServiceOK
  <2>3. answer' \in [Session -> {"none", "ok", "retry"}]
    BY <1>3, <2>2, AnswerType DEF SessionsOK
  <2>4. SessionsOK' /\ AgentOK'
    BY <1>3, <2>3 DEF SessionsOK, AgentOK
  <2>5. handlers' \subseteq Handler
    <3>1. CASE CloseEntry(h)
      BY <3>1, ZenonT(40) DEF ServiceOK, Handler
    <3>2. CASE ~CloseEntry(h)
      BY <1>3, <3>2, MovedType DEF Done, ServiceOK
    <3> QED
      BY <3>1, <3>2
  <2>6. ServiceOK'
    BY <1>3, <2>2, <2>5 DEF ServiceOK, Handler
  <2> QED
    BY <2>1, <2>4, <2>6
<1> QED
  BY <1>1, <1>2, <1>3

\* Every step keeps the types.
LEMMA TypeNext == TypeInv /\ [Next]_vars => TypeInv'
<1> SUFFICES ASSUME TypeInv, [Next]_vars PROVE TypeInv'
  OBVIOUS
<1>1. CASE UNCHANGED vars
  BY <1>1, Kept DEF vars, TypeInv, ControlTypeOK
<1>2. CASE Next
  BY <1>2, JobStepsType, ThreadType, GateType, ControlType, HubStepType, FailureType, ServiceType
     DEF Next, ThreadStep
<1> QED
  BY <1>1, <1>2

\* Rows, sessions, processes, threads and requests keep their types in every state; so a
\* process that ends a session or forwards a request always knows which, and a thread's
\* report always is about a job.
THEOREM ControlTypeCorrect == Spec => []ControlTypeOK
<1>1. TypeInv => ControlTypeOK
  BY DEF TypeInv
<1> QED
  BY TypeInit, TypeNext, <1>1, PTL DEF Spec

-----------------------------------------------------------------------------
(* Sessions *)

\* A session that has been asked for; only of such a one does anybody speak.
Begun == {s \in Session : session[s] # "absent"}

\* The open_key: no two sessions of the account are open.
OneOpen == \A r, s \in Session : Open(r) /\ Open(s) => r = s

BegunOK ==
    /\ \A p \in Process : at[p] \in Serving => ses[p] \in Begun
    /\ reqs \in Seq({m \in Message : m.session \in Begun})
    /\ \A h \in handlers : h.session \in Begun
    /\ entries \subseteq Begun
    /\ \A s \in Session : answer[s] # "none" => s \in Begun

SessionInv == TypeInv /\ OneOpen /\ BegunOK

\* The steps that change a session's status.
LEMMA SessionMoves ==
    ASSUME [Next]_vars, session' # session
    PROVE  \/ \E s \in Session : RequestControl(s) \/ AdvanceAnswered(s)
           \/ \E p \in Process : EndBegins(p) \/ EndFinishes(p)
BY SMTT(120) DEF Next, vars, JobSteps, CreateJob, CancelJob, LeaseExpires, RecoverStaleRunningJob,
       RecoverStaleScheduledJob, Arrival, Deliver, JobClaim, Assign, AcquireLock, ThreadStep,
       GateRead, StartRefused, HoldJob, RememberHeld, Save, JobEnds, StartTimesOut, Page,
       AdvanceOpens, Touch, ControlExpires, DropIdle, GatewayServes, CallsEnd, Sweep,
       SweepExpired, SweepLeftovers, HubStep, ListHeld, GatewayForwards, DispatchHeld,
       DeleteHeld, HubProcessDies, DispatchFails, TakeRequest, DropRequest, Handle,
       CloseEntry, FindEntry, LockToOpen, OpenBusy, OpenDone, OpenRefused, RequestDone,
       AgentCrash

\* A session is opened when none is, and one that ends stays open or is closed.
LEMMA OneOpenNext == ASSUME SessionInv, [Next]_vars PROVE OneOpen'
<1> USE DEF SessionInv, TypeInv, ControlTypeOK
<1>1. CASE UNCHANGED session
  BY <1>1 DEF OneOpen, Open
<1>2. ASSUME NEW s \in Session, RequestControl(s) \/ AdvanceAnswered(s) PROVE OneOpen'
  BY <1>2 DEF RequestControl, AdvanceAnswered, OneOpen, Open, NoneOpen, SessionsOK
<1>3. ASSUME NEW p \in Process, EndBegins(p) \/ EndFinishes(p) PROVE OneOpen'
  <2>1. at[p] \in Serving
    BY <1>3 DEF EndBegins, EndFinishes, Serving
  <2>2. ses[p] \in Session /\ session[ses[p]] # "absent"
    BY <2>1 DEF BegunOK, Begun
  <2> QED
    BY <1>3, <2>2 DEF EndBegins, EndFinishes, OneOpen, Open, SessionsOK
<1> QED
  BY <1>1, <1>2, <1>3, SessionMoves

\* No session returns to "absent".
LEMMA BegunGrows == ASSUME SessionInv, [Next]_vars PROVE Begun \subseteq Begun'
<1> USE DEF SessionInv, TypeInv, ControlTypeOK
<1>1. CASE UNCHANGED session
  BY <1>1 DEF Begun
<1>2. ASSUME NEW s \in Session, RequestControl(s) \/ AdvanceAnswered(s) PROVE Begun \subseteq Begun'
  BY <1>2 DEF RequestControl, AdvanceAnswered, Begun, SessionsOK
<1>3. ASSUME NEW p \in Process, EndBegins(p) \/ EndFinishes(p) PROVE Begun \subseteq Begun'
  BY <1>3 DEF EndBegins, EndFinishes, Begun, SessionsOK
<1> QED
  BY <1>1, <1>2, <1>3, SessionMoves

\* The steps that move a process of the hub.
LEMMA ProcessMoves ==
    ASSUME [Next]_vars, ~UNCHANGED <<at, ses>>
    PROVE  \/ \E t \in Thread : GateRead(t) \/ HoldJob(t) \/ RememberHeld(t) \/ Save(t)
           \/ \E p \in Worker, s \in Session : GatewayServes(p, s) \/ CallsEnd(p, s) \/ Sweep(p, s)
           \/ \E p \in Process : \/ EndBegins(p) \/ ListHeld(p) \/ EndFinishes(p)
                                 \/ GatewayForwards(p) \/ HubProcessDies(p)
BY DEF Next, vars, JobSteps, CreateJob, CancelJob, LeaseExpires, RecoverStaleRunningJob,
       RecoverStaleScheduledJob, Arrival, Deliver, JobClaim, Assign, AcquireLock, ThreadStep,
       StartRefused, JobEnds, StartTimesOut, Page, RequestControl, AdvanceOpens,
       AdvanceAnswered, Touch, ControlExpires, DropIdle, HubStep, DispatchHeld, DeleteHeld,
       DispatchFails, TakeRequest, DropRequest, Handle, CloseEntry, FindEntry, LockToOpen,
       OpenBusy, OpenDone, OpenRefused, RequestDone, AgentCrash

\* A process that begins to serve a session serves one that is open or has ended.
LEMMA ServedIsBegun ==
    ASSUME SessionInv, [Next]_vars, NEW q \in Process, at'[q] \in Serving
    PROVE  ses'[q] \in Begun
<1> USE DEF SessionInv, TypeInv, ControlTypeOK, HubOK
<1>1. CASE UNCHANGED <<at, ses>>
  BY <1>1 DEF BegunOK
<1>2. ASSUME NEW t \in Thread, GateRead(t) \/ HoldJob(t) \/ RememberHeld(t) \/ Save(t)
      PROVE  ses'[q] \in Begun
  <2>1. CASE q = t
    BY <1>2, <2>1 DEF GateRead, HoldJob, RememberHeld, Save, SetAt, Takes, Serving, Begun, Open
  <2>2. CASE q # t
    BY <1>2, <2>2 DEF GateRead, HoldJob, RememberHeld, Save, SetAt, Takes, BegunOK
  <2> QED
    BY <2>1, <2>2
<1>3. ASSUME NEW p \in Worker, NEW s \in Session,
             GatewayServes(p, s) \/ CallsEnd(p, s) \/ Sweep(p, s)
      PROVE  ses'[q] \in Begun
  <2> USE DEF GatewayServes, CallsEnd, Sweep, SweepExpired, SweepLeftovers
  <2>1. s \in Begun
    BY <1>3 DEF Begun, Open
  <2>2. at' = [at EXCEPT ![p] = at'[p]] /\ ses' = [ses EXCEPT ![p] = s]
    BY <1>3 DEF Takes
  <2> QED
    BY <2>1, <2>2 DEF BegunOK
<1>4. ASSUME NEW p \in Process,
             \/ EndBegins(p) \/ ListHeld(p) \/ EndFinishes(p)
             \/ GatewayForwards(p) \/ HubProcessDies(p)
      PROVE  ses'[q] \in Begun
  <2>1. at[p] \in Serving \/ HubProcessDies(p)
    BY <1>4 DEF EndBegins, ListHeld, EndFinishes, GatewayForwards, Serving
  <2>2. PICK to : SetAt(p, to)
    BY <1>4 DEF EndBegins, ListHeld, EndFinishes, GatewayForwards, HubProcessDies
  <2>3. HubProcessDies(p) => to = "idle"
    BY <2>2 DEF HubProcessDies, SetAt
  <2> QED
    BY <2>1, <2>2, <2>3 DEF SetAt, Serving, BegunOK
<1> QED
  BY <1>1, <1>2, <1>3, <1>4, ProcessMoves

\* The steps that send a request, and for which session.
LEMMA Sent ==
    ASSUME SessionInv, [Next]_vars
    PROVE  \/ UNCHANGED reqs
           \/ \E op \in {"open", "request", "close"}, s \in Begun : Send(op, s)
           \/ reqs # <<>> /\ reqs' = Tail(reqs)
<1> USE DEF SessionInv, TypeInv, ControlTypeOK
<1>1. ASSUME NEW s \in Session, AdvanceOpens(s)
      PROVE  s \in Begun /\ Send("open", s)
  BY <1>1 DEF AdvanceOpens, Begun
<1>2. ASSUME NEW p \in Process, EndBegins(p) \/ GatewayForwards(p)
      PROVE  \/ UNCHANGED reqs
             \/ ses[p] \in Begun /\ (Send("close", ses[p]) \/ Send("request", ses[p]))
  BY <1>2 DEF EndBegins, GatewayForwards, BegunOK, Serving
<1>3. \/ UNCHANGED reqs
      \/ reqs # <<>> /\ reqs' = Tail(reqs)
      \/ \E s \in Session : AdvanceOpens(s)
      \/ \E p \in Process : EndBegins(p) \/ GatewayForwards(p)
  BY SMTT(120) DEF Next, vars, JobSteps, CreateJob, CancelJob, LeaseExpires, RecoverStaleRunningJob,
       RecoverStaleScheduledJob, Arrival, Deliver, JobClaim, Assign, AcquireLock, ThreadStep,
       GateRead, StartRefused, HoldJob, RememberHeld, Save, JobEnds, StartTimesOut, Page,
       RequestControl, AdvanceAnswered, Touch, ControlExpires, DropIdle, GatewayServes,
       CallsEnd, Sweep, SweepExpired, SweepLeftovers, HubStep, ListHeld, EndFinishes,
       DispatchHeld, DeleteHeld, HubProcessDies, DispatchFails, TakeRequest, DropRequest,
       Handle, CloseEntry, FindEntry, LockToOpen, OpenBusy, OpenDone, OpenRefused,
       RequestDone, AgentCrash
<1> QED
  BY <1>1, <1>2, <1>3

\* The steps of the agent's service, and the crash, that touch handlers, entries or answers.
LEMMA ServiceMoves ==
    ASSUME [Next]_vars, ~UNCHANGED <<handlers, entries, answer>>
    PROVE  \/ TakeRequest \/ AgentCrash
           \/ \E h \in handlers : Handle(h)
           \/ \E s \in Session : DropIdle(s) \/ AdvanceAnswered(s)
           \/ \E p \in Process : EndFinishes(p)
BY SMTT(120) DEF Next, vars, JobSteps, CreateJob, CancelJob, LeaseExpires, RecoverStaleRunningJob,
       RecoverStaleScheduledJob, Arrival, Deliver, JobClaim, Assign, AcquireLock, ThreadStep,
       GateRead, StartRefused, HoldJob, RememberHeld, Save, JobEnds, StartTimesOut, Page,
       RequestControl, AdvanceOpens, Touch, ControlExpires, GatewayServes, CallsEnd, Sweep,
       SweepExpired, SweepLeftovers, HubStep, EndBegins, ListHeld, GatewayForwards,
       DispatchHeld, DeleteHeld, HubProcessDies, DispatchFails, DropRequest

\* Nobody comes to speak of a session that was never asked for.
LEMMA BegunNext == ASSUME SessionInv, [Next]_vars PROVE BegunOK'
<1> USE DEF SessionInv, TypeInv, ControlTypeOK
<1>1. Begun \subseteq Begun'
  BY BegunGrows
<1>2. \A q \in Process : at'[q] \in Serving => ses'[q] \in Begun'
  BY <1>1, ServedIsBegun
<1>3. reqs' \in Seq({m \in Message : m.session \in Begun'})
  <2> DEFINE M == {m \in Message : m.session \in Begun}
             N == {m \in Message : m.session \in Begun'}
  <2>1. reqs' \in Seq(M)
    <3>1. CASE UNCHANGED reqs
      BY <3>1 DEF BegunOK
    <3>2. ASSUME NEW op \in {"open", "request", "close"}, NEW s \in Begun, Send(op, s)
          PROVE  reqs' \in Seq(M)
      <4>1. [op |-> op, session |-> s] \in M
        BY DEF Message, Begun
      <4> QED
        BY <3>2, <4>1, AppendProperties DEF Send, BegunOK
    <3>3. CASE reqs # <<>> /\ reqs' = Tail(reqs)
      BY <3>3, HeadTailProperties DEF BegunOK
    <3> QED
      BY <3>1, <3>2, <3>3, Sent
  <2>2. M \subseteq N
    BY <1>1
  <2> QED
    BY <2>1, <2>2, SeqMonotonic, Zenon
<1>4. /\ \A h \in handlers' : h.session \in Begun
      /\ entries' \subseteq Begun
      /\ \A s \in Session : answer'[s] # "none" => s \in Begun
  <2>1. CASE UNCHANGED <<handlers, entries, answer>>
    BY <2>1 DEF BegunOK
  <2>2. CASE TakeRequest
    <3>1. Head(reqs).session \in Begun
      BY <2>2, HeadTailProperties DEF TakeRequest, BegunOK
    <3> QED
      BY <2>2, <3>1 DEF TakeRequest, BegunOK
  <2>3. CASE AgentCrash \/ \E s \in Session : DropIdle(s) \/ AdvanceAnswered(s)
    BY <2>3 DEF AgentCrash, DropIdle, AdvanceAnswered, BegunOK, SessionsOK
  <2>4. CASE \E p \in Process : EndFinishes(p)
    BY <2>4 DEF EndFinishes, BegunOK, SessionsOK
  <2>5. CASE \E h \in handlers : Handle(h)
    <3>1. PICK h \in handlers : Handle(h)
      BY <2>5
    <3>2. h.session \in Begun /\ h \in Handler
      BY DEF BegunOK, ServiceOK
    <3> USE DEF Handle, CloseEntry, FindEntry, LockToOpen, OpenBusy, OpenDone, OpenRefused,
                RequestDone, BegunOK
    <3>3. entries' \subseteq Begun
      BY <3>1, <3>2
    <3>4. \A s \in Session : answer'[s] # "none" => s \in Begun
      BY <3>1, <3>2 DEF Answer, SessionsOK
    <3>5. \A g \in handlers' : g.session \in Begun
      BY <3>1, <3>2 DEF Done, Moved, ServiceOK, Handler
    <3> QED
      BY <3>3, <3>4, <3>5
  <2> QED
    BY <2>1, <2>2, <2>3, <2>4, <2>5, ServiceMoves
<1> QED
  BY <1>1, <1>2, <1>3, <1>4 DEF BegunOK

-----------------------------------------------------------------------------
(* The account's lock *)

\* The lock is held by the thread past it, or to open one session.
LockOK ==
    /\ \A t \in Thread : pc[t] \in {"starting", "running"} <=> lock = t
    /\ \A h \in handlers : h.at = "opening" => lock = Manual
    /\ \A g, h \in handlers : g.at = "opening" /\ h.at = "opening" => g = h

LockInv == TypeInv /\ LockOK

\* The steps that move a thread or the lock.
LEMMA ThreadMoves ==
    ASSUME [Next]_vars, ~UNCHANGED <<threads, lock>>
    PROVE  \/ \E t \in Thread : \/ \E j \in Job : Arrival(t, j) /\ Assign(t, j)
                                \/ AcquireLock(t) \/ JobEnds(t) \/ StartTimesOut(t)
                                \/ StartRefused(t) \/ RememberHeld(t) \/ Save(t)
           \/ \E p \in Process : HubProcessDies(p)
           \/ \E h \in handlers : LockToOpen(h) \/ OpenDone(h) \/ OpenRefused(h)
           \/ AgentCrash
BY SMTT(120) DEF Next, vars, JobSteps, CreateJob, CancelJob, LeaseExpires, RecoverStaleRunningJob,
       RecoverStaleScheduledJob, Arrival, Deliver, JobClaim, ThreadStep, GateRead, HoldJob,
       Page, RequestControl, AdvanceOpens, AdvanceAnswered, Touch, ControlExpires, DropIdle,
       GatewayServes, CallsEnd, Sweep, SweepExpired, SweepLeftovers, HubStep, EndBegins,
       ListHeld, EndFinishes, GatewayForwards, DispatchHeld, DeleteHeld, DispatchFails,
       TakeRequest, DropRequest, Handle, CloseEntry, FindEntry, OpenBusy, RequestDone

\* Handlers that stay in their place keep the lock's owner.
LEMMA HandlersKeepLock ==
    ASSUME LockInv, [Next]_vars, UNCHANGED <<threads, lock>>
    PROVE  LockOK'
<1> USE DEF LockInv, LockOK, TypeInv, ControlTypeOK, ServiceOK
<1>1. CASE UNCHANGED handlers
  BY <1>1
<1>2. CASE TakeRequest
  BY <1>2 DEF TakeRequest
<1>3. CASE AgentCrash
  BY <1>3 DEF AgentCrash
<1>4. ASSUME NEW h \in handlers, Handle(h) PROVE LockOK'
  <2>1. CASE CloseEntry(h)
    <3> DEFINE Left(g) == IF g.session = h.session /\ g.at \in {"waiting", "opening"}
                            THEN [g EXCEPT !.kept = FALSE] ELSE g
    <3>1. handlers' = {Left(g) : g \in handlers \ {h}}
      BY <2>1 DEF CloseEntry
    <3>2. \A g \in handlers : Left(g).at = g.at
      BY DEF Handler
    <3> HIDE DEF Left
    <3> QED
      BY <3>1, <3>2
  <2>2. CASE FindEntry(h) \/ OpenBusy(h) \/ RequestDone(h)
    BY <2>2 DEF FindEntry, OpenBusy, RequestDone, Moved, Done, Handler
  <2>3. CASE LockToOpen(h) \/ OpenDone(h) \/ OpenRefused(h)
    BY <2>3 DEF LockToOpen, OpenDone, OpenRefused
  <2> QED
    BY <1>4, <2>1, <2>2, <2>3 DEF Handle
<1>5. CASE \/ \E s \in Session : DropIdle(s) \/ AdvanceAnswered(s)
           \/ \E p \in Process : EndFinishes(p)
  BY <1>5 DEF DropIdle, AdvanceAnswered, EndFinishes
<1> QED
  BY <1>1, <1>2, <1>3, <1>4, <1>5, ServiceMoves

\* Every step keeps the lock's owner.
LEMMA LockNext == ASSUME LockInv, [Next]_vars PROVE LockOK'
<1> USE DEF LockInv, LockOK, TypeInv, ControlTypeOK, AgentOK, ServiceOK
<1>1. ASSUME NEW t \in Thread,
             \/ \E j \in Job : Assign(t, j)
             \/ AcquireLock(t) \/ JobEnds(t) \/ StartTimesOut(t)
             \/ StartRefused(t) \/ RememberHeld(t) \/ Save(t)
      PROVE  LockOK'
  BY <1>1 DEF Assign, AcquireLock, JobEnds, StartTimesOut, StartRefused, RememberHeld, Save,
              Leave, SetPc
<1>2. ASSUME NEW p \in Process, HubProcessDies(p) PROVE LockOK'
  BY <1>2 DEF HubProcessDies, Leave, SetPc
<1>3. ASSUME NEW h \in handlers, LockToOpen(h) \/ OpenDone(h) \/ OpenRefused(h)
      PROVE  LockOK'
  BY <1>3 DEF LockToOpen, OpenDone, OpenRefused, Moved, Done, Handler
<1>4. CASE AgentCrash
  BY <1>4 DEF AgentCrash
<1> QED
  BY <1>1, <1>2, <1>3, <1>4, ThreadMoves, HandlersKeepLock

-----------------------------------------------------------------------------
(* Nobody plays while the operator does *)

\* The operator plays, or will as soon as the page looks: the agent has the session open.
Granted(s) ==
    \/ session[s] = "active"
    \/ session[s] = "pausing" /\ (s \in entries \/ answer[s] = "ok")

\* Whoever is past the lock then came after the session was opened under it, and has
\* not got past the gate: the gate holds it, or its own process is about to end the session.
GateOK ==
    \A s \in Session, t \in Thread : Granted(s) =>
        /\ pc[t] = "running" => job[t] \in unchecked
        /\ pc[t] = "starting" =>
              \/ at[t] \in {"idle", "gate", "holding"}
              \/ at[t] = "ending" /\ ses[t] = s
              \/ at[t] = "saving" /\ job[t] \in unchecked

ExclusiveInv == SessionInv /\ LockOK /\ GateOK

\* A session becomes granted only while the lock is held to open it, or was so before.
LEMMA GrantedUnderLock ==
    ASSUME ExclusiveInv, [Next]_vars, NEW s \in Session, Granted(s)'
    PROVE  Granted(s) \/ lock = Manual
<1> USE DEF ExclusiveInv, SessionInv, TypeInv, ControlTypeOK
<1>1. CASE UNCHANGED <<session, entries, answer>>
  BY <1>1 DEF Granted
<1>2. CASE session' # session
  <2>1. ASSUME NEW r \in Session, RequestControl(r) PROVE Granted(s)
    BY <2>1 DEF RequestControl, Granted, SessionsOK, BegunOK, Begun
  <2>2. ASSUME NEW r \in Session, AdvanceAnswered(r) PROVE Granted(s)
    BY <2>2 DEF AdvanceAnswered, Granted, SessionsOK
  <2>3. ASSUME NEW p \in Process, EndBegins(p) \/ EndFinishes(p) PROVE Granted(s)
    BY <2>3 DEF EndBegins, EndFinishes, Granted, SessionsOK
  <2> QED
    BY <1>2, <2>1, <2>2, <2>3, SessionMoves
<1>3. CASE session' = session /\ ~UNCHANGED <<entries, answer>>
  <2>1. CASE TakeRequest \/ AgentCrash
    BY <1>3, <2>1 DEF TakeRequest, AgentCrash, Granted
  <2>2. CASE \/ \E r \in Session : DropIdle(r) \/ AdvanceAnswered(r)
             \/ \E p \in Process : EndFinishes(p)
    BY <1>3, <2>2 DEF DropIdle, AdvanceAnswered, EndFinishes, Granted, SessionsOK
  <2>3. ASSUME NEW h \in handlers, Handle(h) PROVE Granted(s) \/ lock = Manual
    BY <1>3, <2>3 DEF Handle, CloseEntry, FindEntry, LockToOpen, OpenBusy, OpenDone,
                      OpenRefused, RequestDone, Answer, Granted, LockOK, SessionsOK
  <2> QED
    BY <1>3, <2>1, <2>2, <2>3, ServiceMoves
<1> QED
  BY <1>1, <1>2, <1>3

\* The steps of a thread past the lock, where a session is granted before and after.
LEMMA GateSteps ==
    ASSUME ExclusiveInv, [Next]_vars, NEW s \in Session, Granted(s), Granted(s)',
           NEW t \in Thread
    PROVE  /\ pc'[t] = "running" => job'[t] \in unchecked'
           /\ pc'[t] = "starting" =>
                 \/ at'[t] \in {"idle", "gate", "holding"}
                 \/ at'[t] = "ending" /\ ses'[t] = s
                 \/ at'[t] = "saving" /\ job'[t] \in unchecked'
<1> USE DEF ExclusiveInv, SessionInv, TypeInv, ControlTypeOK, GateOK, HubOK, AgentOK
<1> DEFINE Gated == /\ pc'[t] = "running" => job'[t] \in unchecked'
                    /\ pc'[t] = "starting" =>
                          \/ at'[t] \in {"idle", "gate", "holding"}
                          \/ at'[t] = "ending" /\ ses'[t] = s
                          \/ at'[t] = "saving" /\ job'[t] \in unchecked'
<1>1. Open(s) /\ \A r \in Session : Open(r) => r = s
  BY DEF Granted, Open, OneOpen
<1>2. unchecked \subseteq unchecked'
  BY SMTT(120) DEF Next, vars, JobSteps, CreateJob, CancelJob, LeaseExpires, RecoverStaleRunningJob,
       RecoverStaleScheduledJob, Arrival, Deliver, JobClaim, Assign, AcquireLock, ThreadStep,
       GateRead, StartRefused, HoldJob, RememberHeld, Save, JobEnds, StartTimesOut, Page,
       RequestControl, AdvanceOpens, AdvanceAnswered, Touch, ControlExpires, DropIdle,
       GatewayServes, CallsEnd, Sweep, SweepExpired, SweepLeftovers, HubStep, EndBegins,
       ListHeld, EndFinishes, GatewayForwards, DispatchHeld, DeleteHeld, HubProcessDies,
       DispatchFails, TakeRequest, DropRequest, Handle, CloseEntry, FindEntry, LockToOpen,
       OpenBusy, OpenDone, OpenRefused, RequestDone, AgentCrash
<1>3. CASE UNCHANGED <<at, ses, threads, lock>>
  BY <1>2, <1>3
<1>4. ASSUME NEW u \in Thread,
             \/ \E j \in Job : Assign(u, j)
             \/ AcquireLock(u) \/ JobEnds(u) \/ StartTimesOut(u) \/ StartRefused(u)
      PROVE  Gated
  BY <1>2, <1>4 DEF Assign, AcquireLock, JobEnds, StartTimesOut, StartRefused, Leave, SetPc, PlaceOK
<1>5. ASSUME NEW u \in Thread, GateRead(u) \/ HoldJob(u) \/ RememberHeld(u) \/ Save(u)
      PROVE  Gated
  BY <1>1, <1>2, <1>5
     DEF GateRead, HoldJob, RememberHeld, Save, SetAt, Takes, SetPc, Leave, NoneOpen, PlaceOK
<1>6. ASSUME NEW p \in Worker, NEW r \in Session,
             GatewayServes(p, r) \/ CallsEnd(p, r) \/ Sweep(p, r)
      PROVE  Gated
  BY <1>6 DEF GatewayServes, CallsEnd, Sweep, SweepExpired, SweepLeftovers, Takes
<1>7. ASSUME NEW p \in Process, EndBegins(p) PROVE Gated
  BY <1>7 DEF EndBegins, SetAt, AfterEnd, Granted, SessionsOK
<1>8. ASSUME NEW p \in Process, ListHeld(p) \/ EndFinishes(p) \/ GatewayForwards(p) PROVE Gated
  BY <1>8 DEF ListHeld, EndFinishes, GatewayForwards, SetAt
<1>9. ASSUME NEW p \in Process, HubProcessDies(p) PROVE Gated
  BY <1>9 DEF HubProcessDies, SetAt, Leave, SetPc
<1>10. CASE AgentCrash \/ \E h \in handlers : LockToOpen(h) \/ OpenDone(h) \/ OpenRefused(h)
  BY <1>2, <1>10 DEF AgentCrash, LockToOpen, OpenDone, OpenRefused
<1> QED
  BY <1>3, <1>4, <1>5, <1>6, <1>7, <1>8, <1>9, <1>10, ProcessMoves, ThreadMoves

\* Every step keeps whoever is past the lock behind the gate.
LEMMA GateNext == ASSUME ExclusiveInv, [Next]_vars PROVE GateOK'
<1> USE DEF ExclusiveInv, SessionInv
<1> SUFFICES ASSUME NEW s \in Session, NEW t \in Thread, Granted(s)'
             PROVE  /\ pc'[t] = "running" => job'[t] \in unchecked'
                    /\ pc'[t] = "starting" =>
                          \/ at'[t] \in {"idle", "gate", "holding"}
                          \/ at'[t] = "ending" /\ ses'[t] = s
                          \/ at'[t] = "saving" /\ job'[t] \in unchecked'
  BY DEF GateOK
<1>1. CASE Granted(s)
  BY <1>1, GateSteps
<1>2. CASE ~Granted(s)
  \* The lock was held to open the session: no thread is past it.
  <2>1. lock = Manual
    BY <1>2, GrantedUnderLock
  <2>2. pc[t] \notin {"starting", "running"}
    BY <2>1 DEF LockOK
  <2>3. pc'[t] \notin {"starting", "running"}
    BY <2>1, <2>2, ThreadMoves
       DEF Assign, AcquireLock, JobEnds, StartTimesOut, StartRefused, RememberHeld, Save, Leave,
           SetPc, HubProcessDies, LockToOpen, OpenDone, OpenRefused, AgentCrash,
           TypeInv, ControlTypeOK, AgentOK
  <2> QED
    BY <2>3
<1> QED
  BY <1>1, <1>2

LEMMA ExclusiveInit == Init => ExclusiveInv
<1> SUFFICES ASSUME Init PROVE ExclusiveInv
  OBVIOUS
<1>1. OneOpen
  BY DEF Init, OneOpen, Open
<1>2. BegunOK
  BY EmptySeq DEF Init, BegunOK, Serving
<1>3. LockOK /\ GateOK
  BY DEF Init, LockOK, GateOK, Granted
<1> QED
  BY <1>1, <1>2, <1>3, TypeInit DEF ExclusiveInv, SessionInv

LEMMA ExclusiveNext == ExclusiveInv /\ [Next]_vars => ExclusiveInv'
BY TypeNext, OneOpenNext, BegunNext, LockNext, GateNext DEF ExclusiveInv, SessionInv, LockInv

\* While the operator plays, no job of the account is being executed, for any number of
\* jobs, sessions, threads and processes of the hub, whatever crashes, is lost or comes late.
THEOREM OperatorPlaysAlone == Spec => []ControlExclusive
<1>1. ExclusiveInv => ControlExclusive
  BY DEF ExclusiveInv, GateOK, Granted, ControlExclusive
<1> QED
  BY ExclusiveInit, ExclusiveNext, <1>1, PTL DEF Spec

-----------------------------------------------------------------------------
(* No held job is forgotten *)

\* The processes about to delete the row of a job they have sent, or need not send.
Deleting(j) == {p \in Process : at[p] = "releasing" /\ j \in todo[p] \ ready[p]}

\* A job nobody has created yet is known to nobody.
AbsentOK ==
    \A j \in Job : status[j] = "absent" =>
        /\ msgs[j] = 0 /\ held[j] = None
        /\ \A p \in Process : j \notin todo[p]
        /\ \A t \in Thread : pc[t] # "idle" \/ at[t] # "idle" => job[t] # j

\* Of a job that still waits, whoever is about to delete its row has sent a message, and
\* no thread got it yet.
MessagesOK ==
    Transport = "redis" => \A j \in Job : status[j] = "waiting" => msgs[j] >= Early(j)

RememberInv == SessionInv /\ AbsentOK /\ MessagesOK /\ NobodyForgotten

\* The counting that MessagesOK rests on.
LEMMA EarlyBounds ==
    ASSUME NEW j \in Job
    PROVE  /\ \A p \in Deleting(j) : Early(j) > 0
           /\ Deleting(j)' \subseteq Deleting(j) => Early(j)' <= Early(j)
           /\ \A p \in Process :
                Deleting(j)' \subseteq Deleting(j) \cup {p} => Early(j)' <= Early(j) + 1
<1>1. IsFiniteSet(Deleting(j)) /\ IsFiniteSet(Deleting(j)')
  BY FS_Union, FS_Subset DEF Deleting
<1>2. Early(j) = Cardinality(Deleting(j)) /\ Early(j)' = Cardinality(Deleting(j)')
  BY DEF Early, Deleting
<1>3. Early(j) \in Nat /\ Early(j)' \in Nat
  BY <1>1, <1>2, FS_CardinalityType
<1>4. ASSUME NEW p \in Deleting(j) PROVE Early(j) > 0
  BY <1>1, <1>2, <1>3, <1>4, FS_EmptySet
<1>5. ASSUME Deleting(j)' \subseteq Deleting(j) PROVE Early(j)' <= Early(j)
  BY <1>1, <1>2, <1>3, <1>5, FS_Subset
<1>6. ASSUME NEW p \in Process, Deleting(j)' \subseteq Deleting(j) \cup {p}
      PROVE  Early(j)' <= Early(j) + 1
  <2> DEFINE More == Deleting(j) \cup {p}
  <2>1. /\ IsFiniteSet(More) /\ Cardinality(More) \in Nat
        /\ Cardinality(More) <= Cardinality(Deleting(j)) + 1
    <3>1. Cardinality(Deleting(j)) \in Nat
      BY <1>1, FS_CardinalityType
    <3>2. IsFiniteSet(More) /\ Cardinality(More) \in Nat
      BY <1>1, FS_AddElement, FS_CardinalityType
    <3>3. Cardinality(More) = IF p \in Deleting(j) THEN Cardinality(Deleting(j))
                                                  ELSE Cardinality(Deleting(j)) + 1
      BY <1>1, FS_AddElement
    <3> QED
      BY <3>1, <3>2, <3>3
  <2>2. Early(j)' <= Cardinality(More)
    BY <1>2, <1>6, <2>1, FS_Subset
  <2> QED
    BY <1>2, <1>3, <2>1, <2>2
<1> QED
  BY <1>4, <1>5, <1>6

\* The steps that change a job's row, its messages or its HeldJob row.
LEMMA JobMoves ==
    ASSUME [Next]_vars, ~UNCHANGED <<status, msgs, held>>
    PROVE  \/ \E j \in Job : JobSteps(j) \/ \E t \in Thread : Arrival(t, j)
           \/ \E t \in Thread : RememberHeld(t) \/ Save(t) \/ JobEnds(t)
           \/ \E p \in Process, j \in Job : DispatchHeld(p, j) \/ DeleteHeld(p, j)
BY DEF Next, vars, AcquireLock, ThreadStep, GateRead, StartRefused, HoldJob, StartTimesOut,
       Page, RequestControl, AdvanceOpens, AdvanceAnswered, Touch, ControlExpires, DropIdle,
       GatewayServes, CallsEnd, Sweep, SweepExpired, SweepLeftovers, HubStep, EndBegins,
       ListHeld, EndFinishes, GatewayForwards, HubProcessDies, DispatchFails, TakeRequest,
       DropRequest, Handle, CloseEntry, FindEntry, LockToOpen, OpenBusy, OpenDone,
       OpenRefused, RequestDone, AgentCrash

\* The steps that change what a process has listed.
LEMMA ListMoves ==
    ASSUME [Next]_vars, ~UNCHANGED <<todo, ready>>
    PROVE  \E p \in Process : \/ ListHeld(p) \/ HubProcessDies(p)
                              \/ \E j \in Job : \/ DispatchHeld(p, j) \/ DispatchFails(p, j)
                                                \/ DeleteHeld(p, j)
BY SMTT(120) DEF Next, vars, JobSteps, CreateJob, CancelJob, LeaseExpires, RecoverStaleRunningJob,
       RecoverStaleScheduledJob, Arrival, Deliver, JobClaim, Assign, AcquireLock, ThreadStep,
       GateRead, StartRefused, HoldJob, RememberHeld, Save, JobEnds, StartTimesOut, Page,
       RequestControl, AdvanceOpens, AdvanceAnswered, Touch, ControlExpires, DropIdle,
       GatewayServes, CallsEnd, Sweep, SweepExpired, SweepLeftovers, HubStep, EndBegins,
       EndFinishes, GatewayForwards, TakeRequest, DropRequest, Handle, CloseEntry, FindEntry,
       LockToOpen, OpenBusy, OpenDone, OpenRefused, RequestDone, AgentCrash

\* A job is created once, and waits from then on until it starts or ends.
LEMMA Creation ==
    ASSUME RememberInv, [Next]_vars, NEW j \in Job
    PROVE  /\ status'[j] = "absent" => status[j] = "absent"
           /\ status'[j] = "waiting" => status[j] = "waiting" \/ CreateJob(j)
<1> USE DEF RememberInv, SessionInv, TypeInv, ControlTypeOK, JobsOK
<1>1. CASE UNCHANGED status
  BY <1>1
<1>2. ASSUME NEW k \in Job, JobSteps(k) \/ \E t \in Thread : Arrival(t, k)
      PROVE  /\ status'[j] = "absent" => status[j] = "absent"
             /\ status'[j] = "waiting" => status[j] = "waiting" \/ CreateJob(j)
  BY <1>2 DEF JobSteps, CreateJob, CancelJob, LeaseExpires, RecoverStaleRunningJob,
              RecoverStaleScheduledJob, Arrival, Deliver, JobClaim
<1>3. ASSUME NEW t \in Thread, RememberHeld(t) \/ Save(t) \/ JobEnds(t)
      PROVE  /\ status'[j] = "absent" => status[j] = "absent"
             /\ status'[j] = "waiting" => status[j] = "waiting"
  BY <1>3 DEF RememberHeld, Save, JobEnds
<1>4. ASSUME NEW p \in Process, NEW k \in Job, DispatchHeld(p, k) \/ DeleteHeld(p, k)
      PROVE  UNCHANGED status
  BY <1>4 DEF DispatchHeld, DeleteHeld
<1> QED
  BY <1>1, <1>2, <1>3, <1>4, JobMoves

\* Nobody comes to know of a job before it is created.
LEMMA AbsentNext == ASSUME RememberInv, [Next]_vars PROVE AbsentOK'
<1> USE DEF RememberInv, SessionInv, TypeInv, ControlTypeOK
<1> SUFFICES ASSUME NEW j \in Job, status'[j] = "absent"
             PROVE  /\ msgs'[j] = 0 /\ held'[j] = None
                    /\ \A p \in Process : j \notin todo'[p]
                    /\ \A t \in Thread : pc'[t] # "idle" \/ at'[t] # "idle" => job'[t] # j
  BY DEF AbsentOK
<1>1. /\ status[j] = "absent" /\ msgs[j] = 0 /\ held[j] = None
      /\ \A p \in Process : j \notin todo[p]
      /\ \A t \in Thread : pc[t] # "idle" \/ at[t] # "idle" => job[t] # j
  BY Creation DEF AbsentOK
<1>2. msgs'[j] = 0 /\ held'[j] = None
  <2>1. CASE UNCHANGED <<status, msgs, held>>
    BY <1>1, <2>1
  <2>2. ASSUME NEW k \in Job, JobSteps(k) PROVE msgs'[j] = 0 /\ held'[j] = None
    BY <1>1, <2>2 DEF JobSteps, CreateJob, CancelJob, LeaseExpires, RecoverStaleRunningJob,
                      RecoverStaleScheduledJob, Dispatch, JobsOK
  <2>3. ASSUME NEW k \in Job, NEW t \in Thread, Arrival(t, k)
        PROVE  msgs'[j] = 0 /\ held'[j] = None
    BY <1>1, <2>3, EarlyType DEF Arrival, Deliver, JobClaim, JobsOK
  <2>4. ASSUME NEW t \in Thread, RememberHeld(t) \/ Save(t) \/ JobEnds(t)
        PROVE  msgs'[j] = 0 /\ held'[j] = None
    BY <1>1, <2>4 DEF RememberHeld, Save, JobEnds, JobsOK
  <2>5. ASSUME NEW p \in Process, NEW k \in Job, DispatchHeld(p, k) \/ DeleteHeld(p, k)
        PROVE  msgs'[j] = 0 /\ held'[j] = None
    BY <1>1, <2>5 DEF DispatchHeld, DeleteHeld, Due, Dispatch, JobsOK
  <2> QED
    BY <2>1, <2>2, <2>3, <2>4, <2>5, JobMoves
<1>3. \A p \in Process : j \notin todo'[p]
  <2>1. ASSUME NEW p \in Process, ListHeld(p) \/ HubProcessDies(p)
        PROVE  \A q \in Process : j \notin todo'[q]
    BY <1>1, <2>1 DEF ListHeld, HubProcessDies, HubOK, PlaceOK, Serving
  <2>2. ASSUME NEW p \in Process, NEW k \in Job,
               DispatchHeld(p, k) \/ DispatchFails(p, k) \/ DeleteHeld(p, k)
        PROVE  \A q \in Process : j \notin todo'[q]
    BY <1>1, <2>2 DEF DispatchHeld, DispatchFails, DeleteHeld, HubOK
  <2>3. CASE UNCHANGED <<todo, ready>>
    BY <1>1, <2>3
  <2> QED
    BY <2>1, <2>2, <2>3, ListMoves
<1>4. \A t \in Thread : pc'[t] # "idle" \/ at'[t] # "idle" => job'[t] # j
  <2> SUFFICES ASSUME NEW t \in Thread, pc'[t] # "idle" \/ at'[t] # "idle" PROVE job'[t] # j
    OBVIOUS
  <2>1. ASSUME NEW k \in Job, NEW u \in Thread, Arrival(u, k) PROVE job'[t] # j
    <3>1. k # j
      BY <1>1, <2>1, EarlyType DEF Arrival, Deliver, JobClaim
    <3>2. Assign(u, k)
      BY <2>1 DEF Arrival, Deliver, JobClaim
    <3> QED
      BY <1>1, <3>1, <3>2 DEF Assign, SetPc, AgentOK
  <2>2. CASE ~\E k \in Job, u \in Thread : Arrival(u, k)
    <3>1. UNCHANGED job /\ (pc'[t] # "idle" => pc[t] # "idle")
      BY <2>2, ThreadMoves
         DEF AcquireLock, JobEnds, StartTimesOut, StartRefused, RememberHeld, Save,
             Leave, SetPc, HubProcessDies, LockToOpen, OpenDone, OpenRefused, AgentCrash, AgentOK
    <3>2. at'[t] # "idle" => at[t] # "idle" \/ pc[t] # "idle"
      <4>1. CASE UNCHANGED <<at, ses>>
        BY <4>1
      <4>2. ASSUME NEW u \in Thread, GateRead(u) \/ HoldJob(u) \/ RememberHeld(u) \/ Save(u)
            PROVE  at'[t] # "idle" => at[t] # "idle" \/ pc[t] # "idle"
        BY <4>2 DEF GateRead, HoldJob, RememberHeld, Save, SetAt, Takes, HubOK
      <4>3. ASSUME NEW p \in Worker, NEW s \in Session,
                   GatewayServes(p, s) \/ CallsEnd(p, s) \/ Sweep(p, s)
            PROVE  at'[t] = at[t]
        BY <4>3 DEF GatewayServes, CallsEnd, Sweep, SweepExpired, SweepLeftovers, Takes, HubOK
      <4>4. ASSUME NEW p \in Process, \/ EndBegins(p) \/ ListHeld(p) \/ EndFinishes(p)
                                      \/ GatewayForwards(p) \/ HubProcessDies(p)
            PROVE  at'[t] # "idle" => at[t] # "idle"
        BY <4>4 DEF EndBegins, ListHeld, EndFinishes, GatewayForwards, HubProcessDies, SetAt, HubOK
      <4> QED
        BY <4>1, <4>2, <4>3, <4>4, ProcessMoves
    <3> QED
      BY <1>1, <3>1, <3>2
  <2> QED
    BY <2>1, <2>2
<1> QED
  BY <1>2, <1>3, <1>4

\* Where no list and no place changes but towards idle, nobody new is about to delete.
LEMMA DeletingMoves ==
    ASSUME RememberInv, [Next]_vars, NEW j \in Job
    PROVE  \/ Deleting(j)' \subseteq Deleting(j)
           \/ \E p \in Process : ListHeld(p) \/ DispatchHeld(p, j)
<1> USE DEF RememberInv, SessionInv, TypeInv, ControlTypeOK, HubOK
<1> SUFFICES ASSUME \A p \in Process : ~ListHeld(p) /\ ~DispatchHeld(p, j),
                    NEW q \in Process, at'[q] = "releasing", j \in todo'[q] \ ready'[q]
             PROVE  at[q] = "releasing" /\ j \in todo[q] \ ready[q]
  BY DEF Deleting
<1>1. at[q] = "releasing"
  <2>1. CASE UNCHANGED <<at, ses>>
    BY <2>1
  <2>2. ASSUME NEW t \in Thread, GateRead(t) \/ HoldJob(t) \/ RememberHeld(t) \/ Save(t)
        PROVE  at[q] = "releasing"
    BY <2>2 DEF GateRead, HoldJob, RememberHeld, Save, SetAt, Takes
  <2>3. ASSUME NEW p \in Worker, NEW s \in Session,
               GatewayServes(p, s) \/ CallsEnd(p, s) \/ Sweep(p, s)
        PROVE  at[q] = "releasing"
    BY <2>3 DEF GatewayServes, CallsEnd, Sweep, SweepExpired, SweepLeftovers, Takes
  <2>4. ASSUME NEW p \in Process, \/ EndBegins(p) \/ EndFinishes(p)
                                  \/ GatewayForwards(p) \/ HubProcessDies(p)
        PROVE  at[q] = "releasing"
    BY <2>4 DEF EndBegins, EndFinishes, GatewayForwards, HubProcessDies, SetAt, AfterEnd
  <2> QED
    BY <2>1, <2>2, <2>3, <2>4, ProcessMoves
<1>2. j \in todo[q] \ ready[q]
  <2>1. CASE UNCHANGED <<todo, ready>>
    BY <2>1
  <2>2. ASSUME NEW p \in Process, HubProcessDies(p)
        PROVE  j \in todo[q] \ ready[q]
    BY <2>2 DEF HubProcessDies
  <2>3. ASSUME NEW p \in Process, NEW k \in Job,
               (DispatchHeld(p, k) /\ k # j) \/ DispatchFails(p, k) \/ DeleteHeld(p, k)
        PROVE  j \in todo[q] \ ready[q]
    BY <2>3 DEF DispatchHeld, DispatchFails, DeleteHeld
  <2> QED
    BY <2>1, <2>2, <2>3, ListMoves
<1> QED
  BY <1>1, <1>2

\* A message is sent before a process begins to count as deleting, and none is taken
\* from under it.
LEMMA MessagesNext == ASSUME RememberInv, [Next]_vars PROVE MessagesOK'
<1> USE DEF RememberInv, SessionInv, TypeInv, ControlTypeOK
<1> SUFFICES ASSUME Transport = "redis", NEW j \in Job, status'[j] = "waiting"
             PROVE  msgs'[j] >= Early(j)'
  BY DEF MessagesOK
<1>1. Early(j) \in Nat /\ Early(j)' \in Nat /\ msgs[j] \in Nat
  <2>1. IsFiniteSet(Process)
    BY FS_Union
  <2>2. Early(j)' \in Nat
    BY <2>1, FS_Subset, FS_CardinalityType DEF Early
  <2> QED
    BY <2>2, EarlyType DEF JobsOK
<1>2. CASE CreateJob(j)
  <2>1. Deleting(j) = {}
    BY <1>2 DEF CreateJob, AbsentOK, Deleting
  <2>2. Deleting(j)' = {}
    BY <1>2, <2>1 DEF CreateJob, Deleting
  <2>3. Early(j)' = 0
    BY <2>2, FS_EmptySet DEF Early, Deleting
  <2> QED
    BY <1>1, <1>2, <2>3 DEF CreateJob, Dispatch, JobsOK
<1>3. CASE ~CreateJob(j)
  <2>0. status[j] = "waiting" /\ msgs[j] >= Early(j)
    BY <1>3, Creation DEF MessagesOK
  <2>1. ASSUME NEW t \in Thread, NEW k \in Job, Deliver(t, k) PROVE msgs'[j] >= Early(j)'
    <3>1. Deleting(j)' = Deleting(j)
      BY <2>1 DEF Deliver, Assign, Deleting
    <3>2. Early(j)' <= Early(j)
      BY <3>1, EarlyBounds
    <3>3. msgs'[j] >= Early(j)
      BY <1>1, <2>0, <2>1 DEF Deliver, JobsOK
    <3> QED
      BY <1>1, <3>2, <3>3, <2>1 DEF Deliver, JobsOK
  <2>2. ASSUME NEW p \in Process, DispatchHeld(p, j) PROVE msgs'[j] >= Early(j)'
    <3>1. Deleting(j)' \subseteq Deleting(j) \cup {p}
      BY <2>2 DEF DispatchHeld, Deleting, HubOK
    <3>2. msgs'[j] = msgs[j] + 1
      BY <2>2 DEF DispatchHeld, Dispatch, JobsOK
    <3> QED
      BY <1>1, <2>0, <3>1, <3>2, EarlyBounds
  <2>3. ASSUME NEW p \in Process, ListHeld(p) PROVE msgs'[j] >= Early(j)'
    <3>1. Deleting(j)' \subseteq Deleting(j)
      BY <2>0, <2>3 DEF ListHeld, SetAt, Deleting, HubOK
    <3> QED
      BY <1>1, <2>0, <2>3, <3>1, EarlyBounds DEF ListHeld
  <2>4. CASE /\ ~\E t \in Thread, k \in Job : Deliver(t, k)
             /\ ~\E p \in Process : ListHeld(p) \/ DispatchHeld(p, j)
    <3>1. Early(j)' <= Early(j)
      BY <2>4, DeletingMoves, EarlyBounds
    <3>2. msgs'[j] >= msgs[j]
      <4>1. ASSUME NEW k \in Job, JobSteps(k) PROVE msgs'[j] >= msgs[j]
        BY <1>1, <4>1 DEF JobSteps, CreateJob, CancelJob, LeaseExpires, RecoverStaleRunningJob,
                          RecoverStaleScheduledJob, Dispatch, JobsOK
      <4>2. ASSUME NEW p \in Process, NEW k \in Job, DispatchHeld(p, k) \/ DeleteHeld(p, k)
            PROVE  msgs'[j] >= msgs[j]
        BY <1>1, <4>2 DEF DispatchHeld, DeleteHeld, Dispatch, JobsOK
      <4>3. ASSUME NEW t \in Thread, RememberHeld(t) \/ Save(t) \/ JobEnds(t)
            PROVE  msgs' = msgs
        BY <4>3 DEF RememberHeld, Save, JobEnds
      <4> QED
        BY <1>1, <2>4, <4>1, <4>2, <4>3, JobMoves DEF Arrival
    <3>3. msgs'[j] \in Nat
      BY TypeNext DEF JobsOK
    <3> QED
      BY <1>1, <2>0, <3>1, <3>2, <3>3
  <2> QED
    BY <2>1, <2>2, <2>3, <2>4
<1> QED
  BY <1>2, <1>3

\* Whoever lets go of a waiting job leaves a message, a row or a thread behind.
LEMMA ForgottenNext == ASSUME RememberInv, [Next]_vars PROVE NobodyForgotten'
<1> USE DEF RememberInv, SessionInv, TypeInv, ControlTypeOK
<1> SUFFICES ASSUME Transport = "redis", NEW j \in Job,
                    j \notin dropped', status'[j] = "waiting"
             PROVE  \/ msgs'[j] > 0
                    \/ held'[j] # None
                    \/ \E t \in Thread : job'[t] = j /\ pc'[t] \in {"waiting", "starting"}
  BY DEF NobodyForgotten
<1> DEFINE Kept3 == \/ msgs'[j] > 0
                    \/ held'[j] # None
                    \/ \E t \in Thread : job'[t] = j /\ pc'[t] \in {"waiting", "starting"}
<1>1. CASE CreateJob(j)
  BY <1>1 DEF CreateJob, Dispatch, JobsOK
<1>2. CASE ~CreateJob(j)
  <2>1. status[j] = "waiting"
    BY <1>2, Creation
  <2>2. dropped \subseteq dropped'
    BY SMTT(120) DEF Next, vars, JobSteps, CreateJob, CancelJob, LeaseExpires, RecoverStaleRunningJob,
       RecoverStaleScheduledJob, Arrival, Deliver, JobClaim, Assign, AcquireLock, ThreadStep,
       GateRead, StartRefused, HoldJob, RememberHeld, Save, JobEnds, StartTimesOut, Page,
       RequestControl, AdvanceOpens, AdvanceAnswered, Touch, ControlExpires, DropIdle,
       GatewayServes, CallsEnd, Sweep, SweepExpired, SweepLeftovers, HubStep, EndBegins,
       ListHeld, EndFinishes, GatewayForwards, DispatchHeld, DeleteHeld, HubProcessDies,
       DispatchFails, TakeRequest, DropRequest, Handle, CloseEntry, FindEntry, LockToOpen,
       OpenBusy, OpenDone, OpenRefused, RequestDone, AgentCrash
  <2>3. \/ msgs[j] > 0 \/ held[j] # None
        \/ \E t \in Thread : job[t] = j /\ pc[t] \in {"waiting", "starting"}
    BY <2>1, <2>2 DEF NobodyForgotten
  <2>4. CASE held[j] # None
    <3>1. CASE UNCHANGED <<status, msgs, held>>
      BY <2>4, <3>1
    <3>2. ASSUME NEW k \in Job, JobSteps(k) \/ \E t \in Thread : Arrival(t, k)
          PROVE  held' = held
      BY <3>2 DEF JobSteps, CreateJob, CancelJob, LeaseExpires, RecoverStaleRunningJob,
                  RecoverStaleScheduledJob, Arrival, Deliver, JobClaim
    <3>3. ASSUME NEW t \in Thread, RememberHeld(t) \/ Save(t) \/ JobEnds(t)
          PROVE  held'[j] # None
      BY <2>4, <3>3 DEF RememberHeld, Save, JobEnds, PlaceOK, Serving, HubOK, JobsOK
    <3>4. ASSUME NEW p \in Process, NEW k \in Job, DispatchHeld(p, k) \/ DeleteHeld(p, k)
          PROVE  Kept3
      <4>1. CASE DeleteHeld(p, k) /\ k = j
        \* The message was sent, and no thread got it yet.
        <5>1. p \in Deleting(j)
          BY <4>1 DEF DeleteHeld, Due, Deleting
        <5>2. msgs[j] >= Early(j) /\ Early(j) > 0
          BY <2>1, <5>1, EarlyBounds DEF MessagesOK
        <5>3. msgs'[j] = msgs[j] /\ msgs[j] \in Nat /\ Early(j) \in Nat
          BY <4>1, EarlyType DEF DeleteHeld, JobsOK
        <5> QED
          BY <5>2, <5>3
      <4>2. CASE DispatchHeld(p, k) \/ k # j
        BY <2>4, <3>4, <4>2 DEF DispatchHeld, DeleteHeld, JobsOK
      <4> QED
        BY <3>4, <4>1, <4>2
    <3> QED
      BY <2>4, <3>1, <3>2, <3>3, <3>4, JobMoves
  <2>5. CASE msgs[j] > 0
    <3>1. CASE UNCHANGED <<status, msgs, held>>
      BY <2>5, <3>1
    <3>2. ASSUME NEW k \in Job, JobSteps(k) PROVE msgs'[j] > 0
      BY <2>5, <3>2 DEF JobSteps, CreateJob, CancelJob, LeaseExpires, RecoverStaleRunningJob,
                        RecoverStaleScheduledJob, Dispatch, JobsOK
    <3>3. ASSUME NEW k \in Job, NEW t \in Thread, Arrival(t, k) PROVE Kept3
      <4>1. CASE k = j
        <5>1. job'[t] = j /\ pc'[t] = "waiting"
          BY <3>3, <4>1 DEF Arrival, Deliver, Assign, SetPc, AgentOK
        <5> QED
          BY <5>1
      <4>2. CASE k # j
        BY <2>5, <3>3, <4>2 DEF Arrival, Deliver, JobsOK
      <4> QED
        BY <4>1, <4>2
    <3>4. ASSUME NEW t \in Thread, RememberHeld(t) \/ Save(t) \/ JobEnds(t)
          PROVE  msgs' = msgs
      BY <3>4 DEF RememberHeld, Save, JobEnds
    <3>5. ASSUME NEW p \in Process, NEW k \in Job, DispatchHeld(p, k) \/ DeleteHeld(p, k)
          PROVE  msgs'[j] > 0
      BY <2>5, <3>5 DEF DispatchHeld, DeleteHeld, Dispatch, JobsOK
    <3> QED
      BY <2>5, <3>1, <3>2, <3>3, <3>4, <3>5, JobMoves
  <2>6. ASSUME NEW t \in Thread, job[t] = j, pc[t] \in {"waiting", "starting"} PROVE Kept3
    <3> USE <2>6 DEF AgentOK
    <3>1. CASE UNCHANGED <<threads, lock>>
      BY <3>1
    <3>2. ASSUME NEW u \in Thread,
                 \/ \E k \in Job : Assign(u, k)
                 \/ AcquireLock(u) \/ JobEnds(u)
          PROVE  Kept3
      BY <3>2 DEF Assign, AcquireLock, JobEnds, Leave, SetPc
    <3>3. ASSUME NEW u \in Thread, StartTimesOut(u) \/ StartRefused(u) PROVE Kept3
      BY <2>1, <3>3 DEF StartTimesOut, StartRefused, Leave, SetPc
    <3>4. ASSUME NEW u \in Thread, RememberHeld(u) PROVE Kept3
      <4>1. CASE u = t
        <5>1. held'[j] = ses[t] /\ ses[t] # None
          BY <3>4, <4>1 DEF RememberHeld, PlaceOK, Serving, JobsOK
        <5> QED
          BY <5>1
      <4>2. CASE u # t
        BY <3>4, <4>2 DEF RememberHeld, Leave, SetPc
      <4> QED
        BY <4>1, <4>2
    <3>5. ASSUME NEW u \in Thread, Save(u) PROVE Kept3
      BY <3>5 DEF Save, SetPc, JobsOK
    <3>6. ASSUME NEW p \in Process, HubProcessDies(p) PROVE Kept3
      BY <3>6 DEF HubProcessDies, Leave, SetPc
    <3>7. CASE \/ \E h \in handlers : LockToOpen(h) \/ OpenDone(h) \/ OpenRefused(h)
               \/ AgentCrash
      BY <3>7 DEF LockToOpen, OpenDone, OpenRefused, AgentCrash
    <3> QED
      BY <3>1, <3>2, <3>3, <3>4, <3>5, <3>6, <3>7, ThreadMoves
  <2> QED
    BY <2>3, <2>4, <2>5, <2>6
<1> QED
  BY <1>1, <1>2

\* A job the gate turned away is never forgotten, for any number of jobs, sessions,
\* threads and processes of the hub: whoever ends which session how often, and whatever
\* dies or is lost in the middle.
THEOREM HeldJobsRemembered == Spec => []NobodyForgotten
<1>1. Init => RememberInv
  <2> SUFFICES ASSUME Init PROVE RememberInv
    OBVIOUS
  <2>1. SessionInv
    BY ExclusiveInit DEF ExclusiveInv
  <2>2. AbsentOK /\ MessagesOK /\ NobodyForgotten
    BY DEF Init, AbsentOK, MessagesOK, NobodyForgotten
  <2> QED
    BY <2>1, <2>2 DEF RememberInv
<1>2. RememberInv /\ [Next]_vars => RememberInv'
  BY TypeNext, OneOpenNext, BegunNext, AbsentNext, MessagesNext, ForgottenNext
     DEF RememberInv, SessionInv
<1>3. RememberInv => NobodyForgotten
  BY DEF RememberInv
<1> QED
  BY <1>1, <1>2, <1>3, PTL DEF Spec

-----------------------------------------------------------------------------
(* The promise of ControlPromise, kept through every failure *)

\* A process that gives jobs back does so for a session that is ending or has ended.
EndingOK ==
    \A p \in Process : at[p] \in {"listing", "releasing"} =>
        session[ses[p]] \in {"resuming", "ended"}

PromiseInv == ExclusiveInv /\ EndingOK

LEMMA EndingNext == ASSUME SessionInv, EndingOK, [Next]_vars PROVE EndingOK'
<1> USE DEF SessionInv, TypeInv, ControlTypeOK, SessionsOK, HubOK
<1>1. ASSUME NEW s \in Session, session[s] \in {"resuming", "ended"}
      PROVE  session'[s] \in {"resuming", "ended"}
  BY <1>1, SessionMoves DEF RequestControl, AdvanceAnswered, EndBegins, EndFinishes
<1> SUFFICES ASSUME NEW q \in Process, at'[q] \in {"listing", "releasing"}
             PROVE  session'[ses'[q]] \in {"resuming", "ended"}
  BY DEF EndingOK
<1>2. CASE UNCHANGED <<at, ses>>
  <2>1. ses[q] \in Session
    BY <1>2 DEF PlaceOK, Serving
  <2> QED
    BY <1>1, <1>2, <2>1 DEF EndingOK
<1>3. CASE at[q] \in {"listing", "releasing"} /\ ses'[q] = ses[q]
  <2>1. ses[q] \in Session
    BY <1>3 DEF PlaceOK, Serving
  <2> QED
    BY <1>1, <1>3, <2>1 DEF EndingOK
<1>4. ASSUME NEW t \in Thread, GateRead(t) \/ HoldJob(t) \/ RememberHeld(t) \/ Save(t)
      PROVE  at[q] \in {"listing", "releasing"} /\ ses'[q] = ses[q]
  BY <1>4 DEF GateRead, HoldJob, RememberHeld, Save, SetAt, Takes
<1>5. ASSUME NEW p \in Worker, NEW s \in Session,
             GatewayServes(p, s) \/ CallsEnd(p, s) \/ Sweep(p, s)
      PROVE  session'[ses'[q]] \in {"resuming", "ended"}
  <2> USE DEF GatewayServes, CallsEnd, Sweep, SweepExpired, SweepLeftovers, Takes
  <2>1. CASE q = p
    BY <1>5, <2>1
  <2>2. CASE q # p
    BY <1>3, <1>5, <2>2
  <2> QED
    BY <2>1, <2>2
<1>6. ASSUME NEW p \in Process, EndBegins(p) PROVE session'[ses'[q]] \in {"resuming", "ended"}
  <2>1. CASE q = p
    <3>1. ses[q] \in Session
      BY <1>6, <2>1 DEF EndBegins, PlaceOK, Serving
    <3> QED
      BY <1>6, <2>1, <3>1 DEF EndBegins, SetAt, AfterEnd
  <2>2. CASE q # p
    BY <1>3, <1>6, <2>2 DEF EndBegins, SetAt
  <2> QED
    BY <2>1, <2>2
<1>7. ASSUME NEW p \in Process,
             ListHeld(p) \/ EndFinishes(p) \/ GatewayForwards(p) \/ HubProcessDies(p)
      PROVE  at[q] \in {"listing", "releasing"} /\ ses'[q] = ses[q]
  BY <1>7 DEF ListHeld, EndFinishes, GatewayForwards, HubProcessDies, SetAt, AfterEnd
<1> QED
  BY <1>2, <1>3, <1>4, <1>5, <1>6, <1>7, ProcessMoves

-----------------------------------------------------------------------------
(* The mapping to ControlPromise *)

\* What the state of the account is, told by its one open session.
LEMMA StateOf ==
    ASSUME SessionInv
    PROVE  /\ ControlState = "automation" <=> NoneOpen
           /\ \A s \in Session :
                /\ session[s] = "pausing" => ControlState = "pausing"
                /\ session[s] = "active" => ControlState = "manual"
                /\ session[s] = "resuming" => ControlState = "resuming"
BY DEF ControlState, NoneOpen, Open, OneOpen, SessionInv

\* The state of the account depends on its sessions only.
LEMMA SameState == ASSUME UNCHANGED session PROVE UNCHANGED ControlState
BY DEF ControlState, NoneOpen, Open

Working == \E t \in Thread : pc[t] = "running" /\ job[t] \notin unchecked

\* A step that changes no session and lets no thread begin or stop changes nothing the
\* promise speaks of.
LEMMA Stutter ==
    ASSUME UNCHANGED session, Working' = Working
    PROVE  UNCHANGED Promise!promise
BY SameState DEF Promise!promise, Working

\* The steps that begin and end control are the promise's Ask, Grant, GiveBack and Resume.
LEMMA SessionSteps ==
    ASSUME PromiseInv, [Next]_vars, session' # session
    PROVE  Promise!PNext
<1> USE DEF PromiseInv, ExclusiveInv, SessionInv, TypeInv, ControlTypeOK, SessionsOK
<1>0. SessionInv'
  BY TypeNext, OneOpenNext, BegunNext
<1> USE DEF Promise!PNext, Promise!Move
<1>1. ASSUME NEW s \in Session, RequestControl(s) PROVE Promise!Ask
  <2>1. Working' = Working
    BY <1>1 DEF RequestControl, Working
  <2>2. ControlState = "automation"
    BY <1>1, StateOf DEF RequestControl
  <2>3. ControlState' = "pausing"
    <3>1. session'[s] = "pausing"
      BY <1>1 DEF RequestControl
    <3> QED
      BY <1>0, <3>1 DEF ControlState, NoneOpen, Open
  <2> QED
    BY <2>1, <2>2, <2>3 DEF Promise!Ask, Working
<1>2. ASSUME NEW s \in Session, AdvanceAnswered(s) PROVE Promise!Grant
  <2>1. answer[s] = "ok" /\ session[s] = "pausing" /\ session'[s] = "active"
    BY <1>2 DEF AdvanceAnswered
  <2>2. ~Working /\ ~Working'
    BY <1>2, <2>1 DEF AdvanceAnswered, Working, GateOK, Granted
  <2>3. ControlState = "pausing"
    BY <2>1, StateOf
  <2>4. ControlState' = "manual"
    <3>1. \A r \in Session : Open(r)' => r = s
      BY <1>0, <2>1 DEF OneOpen, Open
    <3> QED
      BY <2>1, <3>1 DEF ControlState, NoneOpen, Open
  <2> QED
    BY <2>2, <2>3, <2>4 DEF Promise!Grant, Working
<1>3. ASSUME NEW p \in Process, EndBegins(p) PROVE Promise!GiveBack
  <2>1. /\ ses[p] \in Session /\ session[ses[p]] \in {"pausing", "active"}
        /\ session'[ses[p]] = "resuming"
    BY <1>3 DEF EndBegins, BegunOK, Begun, Serving
  <2>2. Working' = Working
    BY <1>3 DEF EndBegins, Working
  <2>3. ControlState \in {"pausing", "manual"}
    BY <2>1, StateOf
  <2>4. ControlState' = "resuming"
    <3>1. \A r \in Session : Open(r)' => r = ses[p]
      BY <1>0, <2>1 DEF OneOpen, Open
    <3> QED
      BY <2>1, <3>1 DEF ControlState, NoneOpen, Open
  <2> QED
    BY <2>2, <2>3, <2>4 DEF Promise!GiveBack, Working
<1>4. ASSUME NEW p \in Process, EndFinishes(p) PROVE Promise!Resume
  <2>1. ses[p] \in Session /\ session[ses[p]] = "resuming"
        /\ session' = [session EXCEPT ![ses[p]] = "ended"]
    BY <1>4 DEF EndFinishes, BegunOK, Begun, Serving, EndingOK
  <2>2. Working' = Working
    BY <1>4 DEF EndFinishes, Working
  <2>3. ControlState = "resuming"
    BY <2>1, StateOf
  <2>4. NoneOpen'
    BY <2>1 DEF NoneOpen, Open, OneOpen
  <2>5. ControlState' = "automation"
    BY <2>4 DEF ControlState
  <2> QED
    BY <2>2, <2>3, <2>5 DEF Promise!Resume, Working
<1> QED
  BY <1>1, <1>2, <1>3, <1>4, SessionMoves

\* Only the start of a job whose row says running puts it past the gate unasked.
LEMMA UncheckedMoves ==
    ASSUME [Next]_vars
    PROVE  UNCHANGED unchecked \/ \E t \in Thread : GateRead(t)
BY SMTT(120) DEF Next, vars, JobSteps, CreateJob, CancelJob, LeaseExpires, RecoverStaleRunningJob,
   RecoverStaleScheduledJob, Arrival, Deliver, JobClaim, Assign, AcquireLock, ThreadStep,
   StartRefused, HoldJob, RememberHeld, Save, JobEnds, StartTimesOut, Page,
   RequestControl, AdvanceOpens, AdvanceAnswered, Touch, ControlExpires, DropIdle,
   GatewayServes, CallsEnd, Sweep, SweepExpired, SweepLeftovers, HubStep, EndBegins,
   ListHeld, EndFinishes, GatewayForwards, DispatchHeld, DeleteHeld, HubProcessDies,
   DispatchFails, TakeRequest, DropRequest, Handle, CloseEntry, FindEntry, LockToOpen,
   OpenBusy, OpenDone, OpenRefused, RequestDone, AgentCrash

\* The steps of threads, and the agent's crash, are the promise's StartJob and StopJob.
LEMMA ThreadSteps ==
    ASSUME PromiseInv, [Next]_vars, UNCHANGED session, Working' # Working
    PROVE  Promise!PNext
<1> USE DEF PromiseInv, ExclusiveInv, SessionInv, TypeInv, ControlTypeOK, AgentOK
<1>1. ControlState' = ControlState
  BY SameState
<1>2. ASSUME NEW t \in Thread, GateRead(t) PROVE Working' = Working
  <2>1. pc[t] = "starting" /\ lock = t
    BY <1>2 DEF GateRead, LockOK
  <2>2. \A u \in Thread : pc[u] # "running"
    BY <2>1 DEF LockOK
  <2> QED
    BY <1>2, <2>2 DEF GateRead, Working
<1>3. ASSUME NEW t \in Thread, Save(t) PROVE Promise!StartJob
  <2>1. unchecked' = unchecked /\ job' = job /\ \A u \in Thread \ {t} : pc'[u] = pc[u]
    BY <1>3 DEF Save, SetPc
  <2>2. pc[t] = "starting" /\ pc'[t] = "running"
    <3>1. CASE pc[t] = "starting"
      BY <1>3, <3>1 DEF Save, SetPc
    <3>2. CASE pc[t] # "starting"
      <4>1. pc' = pc
        BY <1>3, <3>2 DEF Save
      <4> QED
        BY <2>1, <4>1 DEF Working
    <3> QED
      BY <3>1, <3>2
  <2>3. \A u \in Thread : pc[u] # "running" /\ (pc'[u] = "running" => u = t)
    BY <2>1, <2>2 DEF LockOK
  <2>4. job[t] \notin unchecked /\ ~Working /\ Working'
    BY <2>1, <2>2, <2>3 DEF Working
  <2>5. ControlState # "manual"
    <3>1. SUFFICES ASSUME NEW s \in Session, session[s] = "active" PROVE FALSE
      BY DEF ControlState
    <3>2. at[t] = "saving"
      BY <1>3 DEF Save
    <3> QED
      BY <2>2, <2>4, <3>1, <3>2 DEF GateOK, Granted
  <2> QED
    BY <1>1, <2>4, <2>5 DEF Promise!StartJob, Working
<1>4. ASSUME NEW t \in Thread, JobEnds(t) PROVE Promise!StopJob
  <2>1. ~Working'
    BY <1>4 DEF JobEnds, Leave, SetPc, Working, LockOK
  <2> QED
    BY <1>1, <2>1 DEF Promise!StopJob, Working
<1>5. ASSUME AgentCrash PROVE Promise!StopJob
  <2>1. ~Working'
    BY <1>5 DEF AgentCrash, Working
  <2> QED
    BY <1>1, <2>1 DEF Promise!StopJob, Working
<1>6. ASSUME NEW t \in Thread, UNCHANGED unchecked,
             \/ \E j \in Job : Assign(t, j)
             \/ AcquireLock(t) \/ StartRefused(t) \/ RememberHeld(t) \/ StartTimesOut(t)
      PROVE  Working' = Working
  <2>1. /\ pc[t] # "running" /\ pc'[t] # "running"
        /\ \A u \in Thread \ {t} : pc'[u] = pc[u] /\ job'[u] = job[u]
    BY <1>6 DEF Assign, AcquireLock, StartRefused, RememberHeld, StartTimesOut, Leave, SetPc,
                PlaceOK
  <2> QED
    BY <1>6, <2>1 DEF Working
<1>7. ASSUME NEW p \in Process, HubProcessDies(p) PROVE Working' = Working
  <2>1. UNCHANGED <<unchecked, job>> /\ \A u \in Thread : pc'[u] = "running" <=> pc[u] = "running"
    BY <1>7 DEF HubProcessDies, Leave, SetPc
  <2> QED
    BY <2>1 DEF Working
<1>8. ASSUME NEW h \in handlers, UNCHANGED unchecked, LockToOpen(h) \/ OpenDone(h) \/ OpenRefused(h)
      PROVE  Working' = Working
  BY <1>8 DEF LockToOpen, OpenDone, OpenRefused, Working
<1>9. CASE UNCHANGED <<threads, unchecked>>
  BY <1>9 DEF Working
<1> QED
  BY <1>2, <1>3, <1>4, <1>5, <1>6, <1>7, <1>8, <1>9, ThreadMoves, UncheckedMoves DEF Promise!PNext

\* Whatever fails, the hub and the agent keep ControlPromise to every job that asks at the
\* gate: control is granted only when none of them is executed, and none starts before
\* it is given back, for any number of jobs, sessions, threads and crashes.
THEOREM PromiseKept == Spec => KeepsPromise
<1>1. Init => PromiseInv
  BY ExclusiveInit DEF PromiseInv, Init, EndingOK
<1>2. PromiseInv /\ [Next]_vars => PromiseInv'
  BY ExclusiveNext, EndingNext DEF PromiseInv, ExclusiveInv
<1>3. Init => Promise!PInit
  BY DEF Init, Promise!PInit, ControlState, NoneOpen, Open
<1>4. PromiseInv /\ [Next]_vars => [Promise!PNext]_(Promise!promise)
  BY Stutter, SessionSteps, ThreadSteps
<1> QED
  BY <1>1, <1>2, <1>3, <1>4, PTL DEF Spec, KeepsPromise, Promise!Promised

-----------------------------------------------------------------------------
(* Where nothing fails *)

\* Every report is that of a thread that starts its job, and every job that runs is the
\* job of a running thread: nobody gets past the gate unasked.
NoFaultOK ==
    /\ unchecked = {}
    /\ \A t \in Thread : at[t] # "idle" => pc[t] = "starting"
    /\ \A j \in Job : status[j] = "running" =>
          \E t \in Thread : pc[t] = "running" /\ job[t] = j

PlainInv == ExclusiveInv /\ NoFaultOK

LEMMA NoFaultNext ==
    ASSUME PlainInv, [Next]_vars, MaxFaults = 0
    PROVE  NoFaultOK'
<1> USE DEF PlainInv, ExclusiveInv, SessionInv, TypeInv, ControlTypeOK
<1>1. ~Fault
  BY DEF Fault, BoundsOK
<1>2. ~AgentCrash /\ \A p \in Process : ~HubProcessDies(p) /\ \A t \in Thread : ~StartTimesOut(t)
  BY <1>1 DEF AgentCrash, HubProcessDies, StartTimesOut
<1>3. unchecked' = {}
  <2>1. ASSUME NEW t \in Thread, GateRead(t) PROVE unchecked' = unchecked
    <3>1. PICK u \in Thread : status[job[t]] = "running" => pc[u] = "running" /\ job[u] = job[t]
      BY <2>1 DEF GateRead, NoFaultOK, PlaceOK
    <3>2. pc[t] = "starting" /\ lock = t /\ (pc[u] = "running" => lock = u)
      BY <2>1 DEF GateRead, LockOK
    <3> QED
      BY <2>1, <3>1, <3>2 DEF GateRead
  <2> QED
    BY <2>1, UncheckedMoves DEF NoFaultOK
<1>4. ASSUME NEW t \in Thread, at'[t] # "idle" PROVE pc'[t] = "starting"
  <2> USE DEF HubOK, AgentOK
  <2>1. at[t] # "idle" => pc[t] = "starting"
    BY DEF NoFaultOK
  <2>2. ASSUME NEW u \in Thread,
               \/ GateRead(u) \/ HoldJob(u) \/ RememberHeld(u) \/ Save(u)
               \/ AcquireLock(u) \/ JobEnds(u) \/ StartRefused(u)
               \/ \E j \in Job : Arrival(u, j) /\ Assign(u, j)
        PROVE  pc'[t] = "starting"
    BY <1>4, <2>1, <2>2
       DEF GateRead, HoldJob, RememberHeld, Save, AcquireLock, JobEnds, StartRefused, Assign,
           SetAt, Takes, SetPc, Leave, Arrival, Deliver, JobClaim, PlaceOK
  <2>3. CASE UNCHANGED <<threads, lock>>
    <3>1. CASE UNCHANGED <<at, ses>>
      BY <1>4, <2>1, <2>3, <3>1
    <3>2. ASSUME NEW p \in Worker, NEW s \in Session,
                 GatewayServes(p, s) \/ CallsEnd(p, s) \/ Sweep(p, s)
          PROVE  pc'[t] = "starting"
      BY <1>4, <2>1, <2>3, <3>2
         DEF GatewayServes, CallsEnd, Sweep, SweepExpired, SweepLeftovers, Takes
    <3>3. ASSUME NEW p \in Process,
                 EndBegins(p) \/ ListHeld(p) \/ EndFinishes(p) \/ GatewayForwards(p)
          PROVE  pc'[t] = "starting"
      BY <1>4, <2>1, <2>3, <3>3
         DEF EndBegins, ListHeld, EndFinishes, GatewayForwards, SetAt, AfterEnd
    <3> QED
      BY <1>2, <2>2, <3>1, <3>2, <3>3, ProcessMoves
  <2>4. ASSUME NEW h \in handlers, LockToOpen(h) \/ OpenDone(h) \/ OpenRefused(h)
        PROVE  pc'[t] = "starting"
    BY <1>4, <2>1, <2>4 DEF LockToOpen, OpenDone, OpenRefused
  <2> QED
    BY <1>2, <2>2, <2>3, <2>4, ThreadMoves
<1>5. ASSUME NEW j \in Job, status'[j] = "running"
      PROVE  \E t \in Thread : pc'[t] = "running" /\ job'[t] = j
  <2> USE DEF AgentOK, JobsOK
  <2>1. ASSUME NEW t \in Thread, Save(t) PROVE \E u \in Thread : pc'[u] = "running" /\ job'[u] = j
    <3>1. pc[t] = "starting"
      BY <2>1 DEF NoFaultOK, Save
    <3>2. CASE job[t] = j
      BY <2>1, <3>1, <3>2 DEF Save, SetPc
    <3>3. CASE job[t] # j
      <4>1. status[j] = "running"
        BY <1>5, <2>1, <3>3 DEF Save
      <4>2. PICK u \in Thread : pc[u] = "running" /\ job[u] = j
        BY <4>1 DEF NoFaultOK
      <4> QED
        BY <2>1, <3>1, <4>2 DEF Save, SetPc
    <3> QED
      BY <3>2, <3>3
  <2>2. CASE ~\E t \in Thread : Save(t)
    <3>1. status[j] = "running"
      <4>1. CASE UNCHANGED status
        BY <1>5, <4>1
      <4>2. ASSUME NEW k \in Job, JobSteps(k) \/ \E t \in Thread : Arrival(t, k)
            PROVE  status[j] = "running"
        BY <1>5, <4>2 DEF JobSteps, CreateJob, CancelJob, LeaseExpires, RecoverStaleRunningJob,
                          RecoverStaleScheduledJob, Arrival, Deliver, JobClaim
      <4>3. ASSUME NEW t \in Thread, RememberHeld(t) \/ JobEnds(t) PROVE status[j] = "running"
        BY <1>5, <4>3 DEF RememberHeld, JobEnds
      <4>4. ASSUME NEW p \in Process, NEW k \in Job, DispatchHeld(p, k) \/ DeleteHeld(p, k)
            PROVE  status[j] = "running"
        BY <1>5, <4>4 DEF DispatchHeld, DeleteHeld
      <4> QED
        BY <2>2, <4>1, <4>2, <4>3, <4>4, JobMoves
    <3>2. PICK t \in Thread : pc[t] = "running" /\ job[t] = j
      BY <3>1 DEF NoFaultOK
    <3>3. pc'[t] = "running" /\ job'[t] = j
      <4>1. CASE UNCHANGED <<threads, lock>>
        BY <3>2, <4>1
      <4>2. ASSUME NEW u \in Thread, \/ AcquireLock(u) \/ StartRefused(u) \/ JobEnds(u)
                                     \/ \E k \in Job : Assign(u, k)
            PROVE  pc'[t] = "running" /\ job'[t] = j
        BY <1>5, <3>2, <4>2 DEF AcquireLock, StartRefused, JobEnds, Assign, Leave, SetPc
      <4>3. ASSUME NEW u \in Thread, RememberHeld(u)
            PROVE  pc'[t] = "running" /\ job'[t] = j
        BY <3>2, <4>3 DEF RememberHeld, Leave, SetPc
      <4>4. ASSUME NEW h \in handlers, LockToOpen(h) \/ OpenDone(h) \/ OpenRefused(h)
            PROVE  pc'[t] = "running" /\ job'[t] = j
        BY <3>2, <4>4 DEF LockToOpen, OpenDone, OpenRefused
      <4> QED
        BY <1>2, <2>2, <4>1, <4>2, <4>3, <4>4, ThreadMoves
    <3> QED
      BY <3>3
  <2> QED
    BY <2>1, <2>2
<1> QED
  BY <1>3, <1>4, <1>5 DEF NoFaultOK

\* Where nothing fails, no job gets past the gate unasked: the exception that
\* ControlExclusive and the promise make is one for failures.
THEOREM NobodyUnasked == ASSUME MaxFaults = 0 PROVE Spec => [](unchecked = {})
<1>1. Init => PlainInv
  BY ExclusiveInit DEF PlainInv, Init, NoFaultOK
<1>2. PlainInv /\ [Next]_vars => PlainInv'
  BY ExclusiveNext, NoFaultNext DEF PlainInv
<1>3. PlainInv => unchecked = {}
  BY DEF PlainInv, NoFaultOK
<1> QED
  BY <1>1, <1>2, <1>3, PTL DEF Spec

\* The promise about every job of the account, whether it asks at the gate or not.
Plain == INSTANCE ControlPromise
             WITH state <- ControlState, working <- \E t \in Thread : pc[t] = "running"

\* Where nothing fails, the hub and the agent keep the promise to every job.
THEOREM PlainPromiseKept == ASSUME MaxFaults = 0 PROVE Spec => Plain!Promised
<1>1. Promise!PInit /\ unchecked = {} => Plain!PInit
  BY DEF Promise!PInit, Plain!PInit
<1>2. unchecked = {} /\ (unchecked = {})' /\ [Promise!PNext]_(Promise!promise)
        => [Plain!PNext]_(Plain!promise)
  BY DEF Promise!PNext, Plain!PNext, Promise!promise, Plain!promise, Promise!Ask, Plain!Ask,
         Promise!Grant, Plain!Grant, Promise!GiveBack, Plain!GiveBack, Promise!Resume,
         Plain!Resume, Promise!StartJob, Plain!StartJob, Promise!StopJob, Plain!StopJob,
         Promise!Move, Plain!Move
<1>3. Spec => Promise!Promised
  BY PromiseKept DEF KeepsPromise
<1>4. Spec => [](unchecked = {})
  BY NobodyUnasked
<1> QED
  BY <1>1, <1>2, <1>3, <1>4, PTL DEF Promise!Promised, Plain!Promised

=============================================================================
