---------------------------- MODULE ManualControl ----------------------------
(***************************************************************************)
(* Manual control of one game account: the operator's sessions, the gate   *)
(* that holds the jobs of the account meanwhile, the handing back of the   *)
(* held jobs, and the requests to the agent that owns the game session.    *)
(*                                                                         *)
(* Hub requests run side by side: a report of a starting job is answered   *)
(* by a process of its own (named as the thread that sent it), pages, the  *)
(* gateway and the heartbeats by the processes of Worker.  A process reads *)
(* and writes in separate steps wherever the code has no transaction.      *)
(* Of a job's own life (module JobLifecycle) only what meets the gate is   *)
(* kept.                                                                   *)
(***************************************************************************)
EXTENDS Naturals, FiniteSets, Sequences

CONSTANTS
    Job,            \* jobs of the account, numbered in the order they are due
    MaxSessions,    \* bound: control sessions of the account
    Thread,         \* the agent's worker threads
    Worker,         \* hub processes besides the gate's
    NoThread, Manual,   \* the account's lock: free, or held to open a session
    Transport,      \* "redis" or "https"
    MaxFaults,      \* bound: crashes, time-outs and lost messages
    MaxVisits       \* bound: signs of life of the operator's tab

ASSUME ControlAssumption ==
    /\ Job \subseteq Nat \ {0} /\ IsFiniteSet(Job)
    /\ MaxSessions \in Nat
    /\ IsFiniteSet(Thread) /\ IsFiniteSet(Worker) /\ Thread \cap Worker = {}
    /\ NoThread \notin Thread /\ Manual \notin Thread /\ NoThread # Manual
    /\ Transport \in {"redis", "https"}
    /\ MaxFaults \in Nat /\ MaxVisits \in Nat

Session == 1 .. MaxSessions
None == 0
Process == Thread \cup Worker

VARIABLES
    \* the Job table, the broker and the HeldJob table
    status, lease, msgs, held,
    \* ManualControlSession: status, a lease that ran out, the open request
    session, expired, asked, answer,
    \* the hub's processes: place, session, HeldJob rows listed, the jobs of them
    \* that were waiting, and the rows nobody deleted since
    at, ses, todo, ready, rows,
    \* the agent: threads, the account's lock, the broker list of requests, the
    \* requests being handled, the open game sessions
    pc, job, lock, reqs, handlers, entries,
    \* history: jobs whose payload a failure dropped, jobs started past the gate
    dropped, unchecked,
    faults, visits

jobs == <<status, lease, msgs, held>>
control == <<session, expired, asked, answer>>
hub == <<at, ses, todo, ready, rows>>
threads == <<pc, job>>
service == <<reqs, handlers, entries>>
history == <<dropped, unchecked>>
bounds == <<faults, visits>>
vars == <<jobs, control, hub, threads, lock, service, history, bounds>>

-----------------------------------------------------------------------------
Open(s) == session[s] \in {"pausing", "active", "resuming"}
\* The unique open_key.
NoneOpen == \A s \in Session : ~Open(s)
\* running_jobs(): an agent is really executing one.
RunningJobs == {j \in Job : status[j] = "running" /\ lease[j] # "expired"}

Fault == faults < MaxFaults /\ faults' = faults + 1 /\ UNCHANGED visits
Visit == visits < MaxVisits /\ visits' = visits + 1 /\ UNCHANGED faults

Dispatch(j) == msgs' = IF Transport = "redis" THEN [msgs EXCEPT ![j] = @ + 1] ELSE msgs
\* A process moves on; one that is done forgets its session.
SetAt(p, to) ==
    /\ at' = [at EXCEPT ![p] = to]
    /\ ses' = IF to = "idle" THEN [ses EXCEPT ![p] = None] ELSE ses
Takes(p, s, to) == at' = [at EXCEPT ![p] = to] /\ ses' = [ses EXCEPT ![p] = s]
SetPc(t, to) == pc' = [pc EXCEPT ![t] = to]
\* Where a process goes on after end(): the gate lets its job start.
AfterEnd(p) == IF p \in Thread THEN "saving" ELSE "idle"

Message == [op : {"open", "request", "close"}, session : Session]
Handler == [op : {"open", "request", "close"}, session : Session,
            at : {"taken", "waiting", "opening", "playing"}, kept : BOOLEAN]
Send(op, s) == reqs' = Append(reqs, [op |-> op, session |-> s])

Init ==
    /\ status = [j \in Job |-> "absent"]
    /\ lease = [j \in Job |-> "none"]
    /\ msgs = [j \in Job |-> 0]
    /\ held = [j \in Job |-> None]
    /\ session = [s \in Session |-> "absent"]
    /\ expired = [s \in Session |-> FALSE]
    /\ asked = [s \in Session |-> FALSE]
    /\ answer = [s \in Session |-> "none"]
    /\ at = [p \in Process |-> "idle"]
    /\ ses = [p \in Process |-> None]
    /\ todo = [p \in Process |-> {}]
    /\ ready = [p \in Process |-> {}]
    /\ rows = [p \in Process |-> {}]
    /\ pc = [t \in Thread |-> "idle"]
    /\ job = [t \in Thread |-> None]
    /\ lock = NoThread
    /\ reqs = <<>>
    /\ handlers = {}
    /\ entries = {}
    /\ dropped = {}
    /\ unchecked = {}
    /\ faults = 0
    /\ visits = 0

-----------------------------------------------------------------------------
(* Jobs *)

JobStep == UNCHANGED <<control, hub, threads, lock, service, history>>

CreateJob(j) ==
    /\ status[j] = "absent"
    /\ status' = [status EXCEPT ![j] = "waiting"]
    /\ Dispatch(j)
    /\ UNCHANGED <<lease, held, bounds>> /\ JobStep

\* JobCancelView: the agent is not told, it may be executing the job.
CancelJob(j) ==
    /\ status[j] \in {"waiting", "running"}
    /\ status' = [status EXCEPT ![j] = "ended"]
    /\ lease' = [lease EXCEPT ![j] = "none"]
    /\ UNCHANGED <<msgs, held, bounds>> /\ JobStep

\* The lease of a claim, or of a running job nobody works on; the lease of one a
\* thread works on when its heartbeats do not reach the hub.
LeaseExpires(j) ==
    /\ lease[j] = "live"
    /\ \A t \in Thread : job[t] = j => at[t] # "saving"
    /\ lease' = [lease EXCEPT ![j] = "expired"]
    /\ IF \E t \in Thread : job[t] = j /\ pc[t] = "running" THEN Fault ELSE UNCHANGED bounds
    /\ UNCHANGED <<status, msgs, held>> /\ JobStep

\* The hub's recovery, as far as this account's jobs show it.
RecoverStaleRunningJob(j) ==
    /\ status[j] = "running" /\ lease[j] = "expired"
    /\ status' = [status EXCEPT ![j] = "ended"]
    /\ lease' = [lease EXCEPT ![j] = "none"]
    /\ UNCHANGED <<msgs, held, bounds>> /\ JobStep

RecoverStaleScheduledJob(j) ==
    /\ Transport = "redis"
    /\ status[j] = "waiting" /\ msgs[j] = 0
    /\ Dispatch(j)
    /\ UNCHANGED <<status, lease, held, bounds>> /\ JobStep

Assign(t, j) ==
    /\ pc[t] = "idle" /\ at[t] = "idle"
    /\ SetPc(t, "waiting")
    /\ job' = [job EXCEPT ![t] = j]
    /\ UNCHANGED <<control, hub, lock, service, history, bounds>>

(* Mutant: more deliveries than messages. *)
DeliverAgain(t, j) ==
    /\ msgs' = [msgs EXCEPT ![j] = @ - 1]
    /\ Assign(t, j)
    /\ UNCHANGED <<status, lease, held>>

\* A message of _release_held_jobs() has an eta (RESUME_FIRST_DELAY, 5 s): it is not
\* delivered before the process that sent it deletes the row, or dies.
Early(j) == Cardinality({p \in Process : at[p] = "releasing" /\ j \in todo[p] \ ready[p]})

Deliver(t, j) ==
    /\ msgs[j] > Early(j)
    /\ msgs' = [msgs EXCEPT ![j] = @ - 1]
    /\ Assign(t, j)
    /\ UNCHANGED <<status, lease, held>>

\* JobClaimView offers no job that has a HeldJob row.
JobClaim(t, j) ==
    /\ status[j] = "waiting" /\ lease[j] # "live" /\ held[j] = None
    /\ lease' = [lease EXCEPT ![j] = "live"]
    /\ Assign(t, j)
    /\ UNCHANGED <<status, msgs, held>>

AcquireLock(t) ==
    /\ pc[t] = "waiting" /\ lock = NoThread
    /\ lock' = t
    /\ SetPc(t, "starting")
    /\ UNCHANGED <<jobs, control, hub, job, service, history, bounds>>

Leave(t) == SetPc(t, "idle") /\ lock' = NoThread /\ UNCHANGED job

\* The payload's end, with its last report.
JobEnds(t) ==
    /\ pc[t] = "running"
    /\ status' = [status EXCEPT ![job[t]] = "ended"]
    /\ lease' = [lease EXCEPT ![job[t]] = "none"]
    /\ Leave(t)
    /\ UNCHANGED <<msgs, held, control, hub, service, history, bounds>>

\* The agent gives up a start report: the payload is dropped, the hub's process is not.
StartTimesOut(t) ==
    /\ Fault
    /\ pc[t] = "starting"
    /\ Leave(t)
    /\ dropped' = dropped \cup {job[t]}
    /\ UNCHANGED <<jobs, control, hub, service, unchecked>>

-----------------------------------------------------------------------------
(* The gate: JobStatusView.post() with hold_job() *)

GateStep == UNCHANGED <<control, todo, ready, rows, service, bounds>>

\* The row is read; only a waiting job is asked about.
GateRead(t) ==
    /\ pc[t] = "starting" /\ at[t] = "idle"
    /\ \/ status[job[t]] = "waiting" /\ SetAt(t, "gate") /\ UNCHANGED unchecked
       \/ status[job[t]] = "running" /\ SetAt(t, "saving") /\ unchecked' = unchecked \cup {job[t]}
    /\ UNCHANGED <<jobs, threads, lock, dropped>> /\ GateStep

StartRefused(t) ==
    /\ pc[t] = "starting" /\ at[t] = "idle"
    /\ status[job[t]] = "ended"
    /\ Leave(t)
    /\ UNCHANGED <<jobs, at, ses, history>> /\ GateStep

(* Mutant: a session that is still being prepared holds nothing. *)
HoldOnlyActive(t) ==
    /\ at[t] = "gate"
    /\ \/ NoneOpen /\ SetAt(t, "saving")
       \/ \E s \in Session :
             /\ Open(s)
             /\ Takes(t, s, IF expired[s] THEN "ending"
                            ELSE IF session[s] = "active" THEN "holding" ELSE "saving")
    /\ UNCHANGED <<jobs, threads, lock, history>> /\ GateStep

\* hold_job() reads the account's open session.
HoldJob(t) ==
    /\ at[t] = "gate"
    /\ \/ NoneOpen /\ SetAt(t, "saving")
       \/ \E s \in Session :
             /\ Open(s)
             /\ Takes(t, s, IF expired[s] THEN "ending" ELSE "holding")
    /\ UNCHANGED <<jobs, threads, lock, history>> /\ GateStep

\* get_or_create of the HeldJob row, and the 409 that drops the payload.
RememberHeld(t) ==
    /\ at[t] = "holding"
    /\ held' = [held EXCEPT ![job[t]] = ses[t]]
    /\ SetAt(t, "idle")
    /\ IF pc[t] = "starting" THEN Leave(t) ELSE UNCHANGED <<threads, lock>>
    /\ UNCHANGED <<status, lease, msgs, history>> /\ GateStep

Save(t) ==
    /\ at[t] = "saving"
    /\ status' = [status EXCEPT ![job[t]] = "running"]
    /\ lease' = [lease EXCEPT ![job[t]] = "live"]
    /\ SetAt(t, "idle")
    /\ IF pc[t] = "starting" THEN SetPc(t, "running") ELSE UNCHANGED pc
    /\ UNCHANGED <<msgs, held, job, lock, history>> /\ GateStep

-----------------------------------------------------------------------------
(* Taking control: request_control() and advance() *)

ControlStep == UNCHANGED <<jobs, hub, threads, lock, handlers, entries, history>>

RequestControl(s) ==
    /\ NoneOpen
    /\ session[s] = "absent" /\ \A r \in Session : session[r] = "absent" => s <= r
    /\ session' = [session EXCEPT ![s] = "pausing"]
    /\ UNCHANGED <<expired, asked, answer, reqs, bounds>> /\ ControlStep

\* The agent is asked once no job runs; each look at the page renews the lease.
AdvanceOpens(s) ==
    /\ session[s] = "pausing"
    /\ RunningJobs = {} /\ ~asked[s]
    /\ asked' = [asked EXCEPT ![s] = TRUE]
    /\ expired' = [expired EXCEPT ![s] = FALSE]
    /\ Send("open", s)
    /\ UNCHANGED <<session, answer, bounds>> /\ ControlStep

AdvanceAnswered(s) ==
    /\ session[s] = "pausing"
    /\ RunningJobs = {} /\ asked[s] /\ answer[s] \in {"ok", "retry"}
    /\ session' = [session EXCEPT ![s] = IF answer[s] = "ok" THEN "active" ELSE @]
    /\ answer' = [answer EXCEPT ![s] = "none"]
    /\ asked' = [asked EXCEPT ![s] = FALSE]
    /\ expired' = [expired EXCEPT ![s] = FALSE]
    /\ UNCHANGED <<reqs, bounds>> /\ ControlStep

\* A look at the preparation page that changes nothing else, or touch(): the update
\* asks only whether the session is active, not whether its lease ran out.
Touch(s) ==
    /\ Visit
    /\ session[s] \in {"pausing", "active"} /\ expired[s]
    /\ expired' = [expired EXCEPT ![s] = FALSE]
    /\ UNCHANGED <<session, asked, answer, reqs>> /\ ControlStep

\* The lease, the idle limit, or RESUMING_TIMEOUT runs out.
ControlExpires(s) ==
    /\ Open(s) /\ ~expired[s]
    /\ expired' = [expired EXCEPT ![s] = TRUE]
    /\ UNCHANGED <<session, asked, answer, reqs, bounds>> /\ ControlStep

\* The gateway's serve(): checked here, forwarded to the agent later.
GatewayServes(p, s) ==
    /\ Visit
    /\ at[p] = "idle"
    /\ session[s] = "active" /\ ~expired[s]
    /\ Takes(p, s, "forwarding")
    /\ UNCHANGED <<jobs, control, todo, ready, rows, threads, lock, service, history>>

GatewayForwards(p) ==
    /\ at[p] = "forwarding"
    /\ Send("request", ses[p])
    /\ SetAt(p, "idle")
    /\ UNCHANGED <<jobs, control, todo, ready, rows, threads, lock, handlers, entries,
                   history, bounds>>

-----------------------------------------------------------------------------
(* Giving the account back: end(), sweep_expired(), _release_held_jobs() *)

EndStep == UNCHANGED <<threads, lock, handlers, entries, history, bounds>>

\* The operator, the preparation page's time-out or the agent's refusal (any time),
\* a sweep that found the lease run out: what they read may be stale in end().
CallsEnd(p, s) ==
    /\ at[p] = "idle"
    /\ Open(s)
    /\ Takes(p, s, "ending")
    /\ UNCHANGED <<jobs, control, reqs, todo, ready, rows>> /\ EndStep

(* Mutants: a sweep that leaves a session half ended alone, one with no second part. *)
SweepHeldOnly(p, s) == session[s] \in {"pausing", "active"} /\ expired[s] /\ CallsEnd(p, s)
SweepNothing(p, s) ==
    at[p] = "idle" /\ session[s] = "absent" /\ UNCHANGED <<jobs, control, reqs, hub>> /\ EndStep

SweepExpired(p, s) == expired[s] /\ CallsEnd(p, s)

\* The held jobs of a session that ended without them.
SweepLeftovers(p, s) ==
    /\ at[p] = "idle"
    /\ session[s] = "ended" /\ \E j \in Job : held[j] = s
    /\ Takes(p, s, "listing")
    /\ UNCHANGED <<jobs, control, reqs, todo, ready, rows>> /\ EndStep

EndBegins(p) ==
    LET s == ses[p] IN
    /\ at[p] = "ending"
    /\ IF session[s] = "ended"
         THEN SetAt(p, AfterEnd(p)) /\ UNCHANGED <<control, reqs>>
         ELSE /\ session' = [session EXCEPT ![s] = "resuming"]
              /\ expired' = [expired EXCEPT ![s] = FALSE]
              /\ Send("close", s)
              /\ SetAt(p, "listing")
              /\ UNCHANGED <<asked, answer>>
    /\ UNCHANGED <<jobs, todo, ready, rows>> /\ EndStep

\* The HeldJob rows of the session, each with its job as it is now.
ListHeld(p) ==
    LET mine == {j \in Job : held[j] = ses[p]} IN
    /\ at[p] = "listing"
    /\ todo' = [todo EXCEPT ![p] = mine]
    /\ rows' = [rows EXCEPT ![p] = mine]
    /\ ready' = [ready EXCEPT ![p] = {j \in mine : status[j] = "waiting"}]
    /\ SetAt(p, "releasing")
    /\ UNCHANGED <<jobs, control, reqs>> /\ EndStep

Due(p, j) == at[p] = "releasing" /\ j \in todo[p] /\ \A k \in todo[p] : j <= k

DispatchHeld(p, j) ==
    /\ Due(p, j) /\ j \in ready[p]
    /\ Dispatch(j)
    /\ ready' = [ready EXCEPT ![p] = @ \ {j}]
    /\ UNCHANGED <<status, lease, held, control, reqs, at, ses, todo, rows>> /\ EndStep

\* The broker does not take the message: the row stays, and the next is tried.
DispatchFails(p, j) ==
    /\ Fault
    /\ Transport = "redis"
    /\ Due(p, j) /\ j \in ready[p]
    /\ ready' = [ready EXCEPT ![p] = @ \ {j}]
    /\ todo' = [todo EXCEPT ![p] = @ \ {j}]
    /\ rows' = [rows EXCEPT ![p] = @ \ {j}]
    /\ UNCHANGED <<jobs, control, reqs, at, ses, threads, lock, handlers, entries, history>>

\* item.delete(): the row that was listed, whichever session it has by now.
DeleteHeld(p, j) ==
    /\ Due(p, j) /\ j \notin ready[p]
    /\ held' = IF j \in rows[p] THEN [held EXCEPT ![j] = None] ELSE held
    /\ rows' = [q \in Process |-> rows[q] \ {j}]
    /\ todo' = [todo EXCEPT ![p] = @ \ {j}]
    /\ UNCHANGED <<status, lease, msgs, control, reqs, at, ses, ready>> /\ EndStep

(* Mutant: the end clears what rows of the session are left. *)
EndClears(p) ==
    /\ at[p] = "releasing" /\ todo[p] = {}
    /\ session' = [session EXCEPT ![ses[p]] = "ended"]
    /\ asked' = [asked EXCEPT ![ses[p]] = FALSE]
    /\ answer' = [answer EXCEPT ![ses[p]] = "none"]
    /\ held' = [j \in Job |-> IF held[j] = ses[p] THEN None ELSE held[j]]
    /\ SetAt(p, AfterEnd(p))
    /\ UNCHANGED <<status, lease, msgs, expired, reqs, todo, ready, rows>> /\ EndStep

EndFinishes(p) ==
    /\ at[p] = "releasing" /\ todo[p] = {}
    /\ session' = [session EXCEPT ![ses[p]] = "ended"]
    /\ asked' = [asked EXCEPT ![ses[p]] = FALSE]
    /\ answer' = [answer EXCEPT ![ses[p]] = "none"]
    /\ SetAt(p, AfterEnd(p))
    /\ UNCHANGED <<jobs, expired, reqs, todo, ready, rows>> /\ EndStep

\* A hub process is killed; a job's start report fails with it.
HubProcessDies(p) ==
    /\ Fault
    /\ at[p] # "idle"
    /\ SetAt(p, "idle")
    /\ todo' = [todo EXCEPT ![p] = {}]
    /\ ready' = [ready EXCEPT ![p] = {}]
    /\ rows' = [rows EXCEPT ![p] = {}]
    /\ IF p \in Thread /\ pc[p] = "starting"
         THEN Leave(p) /\ dropped' = dropped \cup {job[p]}
         ELSE UNCHANGED <<threads, lock, dropped>>
    /\ UNCHANGED <<jobs, control, service, unchecked>>

-----------------------------------------------------------------------------
(* The agent's manual control service *)

ServiceStep == UNCHANGED <<jobs, session, expired, asked, hub, threads, history>>
Moved(h, to) == handlers' = (handlers \ {h}) \cup {[h EXCEPT !.at = to]}
Done(h) == handlers' = handlers \ {h}
\* The answer of an "open" the page still waits for.
Answer(h, what) ==
    answer' = IF h.op = "open" /\ asked[h.session] THEN [answer EXCEPT ![h.session] = what] ELSE answer

\* BRPOP, and the pool's thread.
TakeRequest ==
    /\ reqs # <<>>
    /\ reqs' = Tail(reqs)
    /\ handlers' = handlers \cup {[op |-> Head(reqs).op, session |-> Head(reqs).session,
                                   at |-> "taken", kept |-> TRUE]}
    /\ UNCHANGED <<entries, answer, lock, bounds>> /\ ServiceStep

\* A request picked up after its "expires".
DropRequest ==
    /\ Fault
    /\ reqs # <<>>
    /\ reqs' = Tail(reqs)
    /\ UNCHANGED <<handlers, entries, answer, lock>> /\ ServiceStep

\* _close(): the entry leaves the table; one that is being opened goes on outside it.
CloseEntry(h) ==
    /\ h \in handlers /\ h.at = "taken" /\ h.op = "close"
    /\ entries' = entries \ {h.session}
    /\ handlers' = {IF g.session = h.session /\ g.at \in {"waiting", "opening"}
                      THEN [g EXCEPT !.kept = FALSE] ELSE g : g \in handlers \ {h}}
    /\ UNCHANGED <<reqs, answer, lock, bounds>> /\ ServiceStep

\* _entry(): an entry with a client serves at once, a new one opens under its lock.
FindEntry(h) ==
    /\ h \in handlers /\ h.at = "taken" /\ h.op \in {"open", "request"}
    /\ \A g \in handlers : g.session = h.session /\ g.kept => g.at \notin {"waiting", "opening"}
    /\ \/ h.session \notin entries /\ Moved(h, "waiting") /\ UNCHANGED answer
       \/ h.session \in entries /\ h.op = "open" /\ Answer(h, "ok") /\ Done(h)
       \/ h.session \in entries /\ h.op = "request" /\ Moved(h, "playing") /\ UNCHANGED answer
    /\ UNCHANGED <<reqs, entries, lock, bounds>> /\ ServiceStep

(* Mutant: the session is opened without the account's lock. *)
OpenUnlocked(h) ==
    /\ h \in handlers /\ h.at = "waiting"
    /\ Moved(h, "opening")
    /\ UNCHANGED <<reqs, entries, answer, lock, bounds>> /\ ServiceStep

LockToOpen(h) ==
    /\ h \in handlers /\ h.at = "waiting"
    /\ lock = NoThread /\ lock' = Manual
    /\ Moved(h, "opening")
    /\ UNCHANGED <<reqs, entries, answer, bounds>> /\ ServiceStep

\* Busy, after OPEN_LOCK_WAIT_SECONDS.
OpenBusy(h) ==
    /\ h \in handlers /\ h.at = "waiting"
    /\ lock # NoThread
    /\ Answer(h, "retry")
    /\ Done(h)
    /\ UNCHANGED <<reqs, entries, lock, bounds>> /\ ServiceStep

OpenDone(h) ==
    /\ h \in handlers /\ h.at = "opening"
    /\ lock' = NoThread
    /\ entries' = IF h.kept THEN entries \cup {h.session} ELSE entries
    /\ Answer(h, "ok")
    /\ IF h.op = "open" THEN Done(h) ELSE Moved(h, "playing")
    /\ UNCHANGED <<reqs, bounds>> /\ ServiceStep

\* No credentials, vacation, login cooldown: advance() then ends the session.
OpenRefused(h) ==
    /\ h \in handlers /\ h.at = "opening"
    /\ lock' = NoThread
    /\ Done(h)
    /\ UNCHANGED <<reqs, entries, answer, bounds>> /\ ServiceStep

\* The game answered the operator's request.
RequestDone(h) ==
    /\ h \in handlers /\ h.at = "playing"
    /\ Done(h)
    /\ UNCHANGED <<reqs, entries, answer, lock, bounds>> /\ ServiceStep

\* Unused for IDLE_SECONDS, longer than the hub keeps a session nobody uses.
DropIdle(s) ==
    /\ s \in entries /\ session[s] # "active"
    /\ \A h \in handlers : h.session # s
    /\ entries' = entries \ {s}
    /\ UNCHANGED <<reqs, handlers, answer, lock, bounds>> /\ ServiceStep

AgentCrash ==
    /\ Fault
    /\ dropped' = dropped \cup {job[t] : t \in {u \in Thread : pc[u] # "idle"}}
    /\ pc' = [t \in Thread |-> "idle"]
    /\ lock' = NoThread
    /\ handlers' = {} /\ entries' = {}
    /\ UNCHANGED <<jobs, control, hub, job, reqs, unchecked>>

-----------------------------------------------------------------------------
JobSteps(j) ==
    \/ CreateJob(j) \/ CancelJob(j) \/ LeaseExpires(j)
    \/ RecoverStaleRunningJob(j) \/ RecoverStaleScheduledJob(j)

\* The node's transport decides how a job comes to a thread.
Arrival(t, j) == IF Transport = "redis" THEN Deliver(t, j) ELSE JobClaim(t, j)

\* A thread's report at the hub, and the thread's end.
ThreadStep(t) ==
    \/ GateRead(t) \/ StartRefused(t) \/ HoldJob(t) \/ RememberHeld(t) \/ Save(t)
    \/ JobEnds(t)

\* A process that ends a session, or forwards a request, goes on.
HubStep(p) ==
    \/ EndBegins(p) \/ ListHeld(p) \/ EndFinishes(p) \/ GatewayForwards(p)
    \/ \E j \in Job : DispatchHeld(p, j) \/ DeleteHeld(p, j)

Sweep(p, s) == SweepExpired(p, s) \/ SweepLeftovers(p, s)

Page(s) == RequestControl(s) \/ AdvanceOpens(s) \/ AdvanceAnswered(s) \/ Touch(s)

Handle(h) ==
    \/ CloseEntry(h) \/ FindEntry(h) \/ LockToOpen(h) \/ OpenBusy(h)
    \/ OpenDone(h) \/ OpenRefused(h) \/ RequestDone(h)

Next ==
    \/ \E j \in Job : JobSteps(j) \/ \E t \in Thread : Arrival(t, j)
    \/ \E t \in Thread : AcquireLock(t) \/ ThreadStep(t) \/ StartTimesOut(t)
    \/ \E s \in Session : Page(s) \/ ControlExpires(s) \/ DropIdle(s)
    \/ \E p \in Worker, s \in Session : GatewayServes(p, s) \/ CallsEnd(p, s) \/ Sweep(p, s)
    \/ \E p \in Process : HubStep(p) \/ HubProcessDies(p) \/ \E j \in Job : DispatchFails(p, j)
    \/ TakeRequest \/ DropRequest
    \/ \E h \in handlers : Handle(h)
    \/ AgentCrash

Spec == Init /\ [][Next]_vars

\* Threads and processes go on, leases run out, the sweep of every node heartbeat
\* and the recovery come again, the agent takes and answers its requests.  Nothing
\* is asked of the operator, of the page and its looks, or of the gateway's visitors.
Fairness ==
    /\ \A t \in Thread : WF_vars(ThreadStep(t)) /\ SF_vars(AcquireLock(t))
    /\ \A j \in Job :
          /\ SF_vars(\E t \in Thread : Arrival(t, j))
          /\ WF_vars(LeaseExpires(j))
          /\ WF_vars(RecoverStaleScheduledJob(j))
    /\ \A p \in Process : WF_vars(HubStep(p))
    /\ \A s \in Session :
          /\ WF_vars(ControlExpires(s))
          /\ SF_vars(\E p \in Worker : Sweep(p, s))
          /\ WF_vars(\E h \in handlers : h.session = s /\ Handle(h))
    /\ WF_vars(TakeRequest)

FairSpec == Spec /\ Fairness

-----------------------------------------------------------------------------
(* Properties *)

JobsOK ==
    /\ status \in [Job -> {"absent", "waiting", "running", "ended"}]
    /\ lease \in [Job -> {"none", "live", "expired"}]
    /\ msgs \in [Job -> Nat]
    /\ held \in [Job -> Session \cup {None}]

SessionsOK ==
    /\ session \in [Session -> {"absent", "pausing", "active", "resuming", "ended"}]
    /\ expired \in [Session -> BOOLEAN]
    /\ asked \in [Session -> BOOLEAN]
    /\ answer \in [Session -> {"none", "ok", "retry"}]

HubOK ==
    /\ at \in [Process -> {"idle", "gate", "holding", "ending", "listing", "releasing",
                           "saving", "forwarding"}]
    /\ ses \in [Process -> Session \cup {None}]
    /\ todo \in [Process -> SUBSET Job]
    /\ ready \in [Process -> SUBSET Job]
    /\ rows \in [Process -> SUBSET Job]

AgentOK ==
    /\ pc \in [Thread -> {"idle", "waiting", "starting", "running"}]
    /\ job \in [Thread -> Job \cup {None}]
    /\ lock \in Thread \cup {NoThread, Manual}

ServiceOK ==
    /\ reqs \in Seq(Message)
    /\ handlers \subseteq Handler
    /\ entries \subseteq Session

HistoryOK == dropped \subseteq Job /\ unchecked \subseteq Job
BoundsOK == faults \in 0 .. MaxFaults /\ visits \in 0 .. MaxVisits

ControlTypeOK ==
    /\ JobsOK /\ SessionsOK /\ HubOK /\ AgentOK /\ ServiceOK /\ HistoryOK /\ BoundsOK

\* While the operator plays, no job of the account is being executed: the gate and the
\* account's lock in the agent together (running_jobs() saves the operator a refused
\* opening, no more), whatever was read before it was true.  Only a job whose row already
\* said running (its first payload died) gets past the gate unasked.
ControlExclusive ==
    \A s \in Session, t \in Thread :
        session[s] = "active" /\ pc[t] = "running" => job[t] \in unchecked

\* A job the gate turned away is never forgotten, through sessions that end twice, end
\* while it arrives, or begin again meanwhile: it has a message, a HeldJob row, or a
\* thread, unless a failure dropped its payload.
NobodyForgotten ==
    Transport = "redis" =>
        \A j \in Job \ dropped :
            status[j] = "waiting" =>
                \/ msgs[j] > 0
                \/ held[j] # None
                \/ \E t \in Thread : job[t] = j /\ pc[t] \in {"waiting", "starting"}

\* The agent's manual_control.py says that no job of the account is running or will
\* start while a session is open there.  Here: not even when the agent has handled all
\* it was sent.
NoJobWhileOpenHere ==
    reqs = <<>> /\ handlers = {} /\ entries # {} => \A t \in Thread : pc[t] # "running"

\* Every waiting job starts or is cancelled, whatever sessions come and however the
\* hub's processes and the agent die in the middle.
EveryJobStarts == \A j \in Job : status[j] = "waiting" ~> status[j] # "waiting"

\* Nothing keeps an account from the automation for ever: every session ends.
ControlGivenBack == \A s \in Session : Open(s) ~> session[s] = "ended"

\* control_state(): what ControlPromise calls the state of the account.
ControlState ==
    IF NoneOpen THEN "automation"
    ELSE IF \E s \in Session : session[s] = "pausing" THEN "pausing"
    ELSE IF \E s \in Session : session[s] = "active" THEN "manual"
    ELSE "resuming"

\* What ControlPromise calls a job being executed: one the gate let start.
Promise == INSTANCE ControlPromise
               WITH state <- ControlState,
                    working <- \E t \in Thread : pc[t] = "running" /\ job[t] \notin unchecked

\* Through every failure the hub and the agent keep the promise: control is granted, and
\* a job starts, only as ControlPromise says.  A job whose row already said running is
\* not asked for at the gate, and not promised anything about (see ControlExclusive).
KeepsPromise == Promise!Promised
=============================================================================
