-------------------------- MODULE ConstructionPlan ---------------------------
(***************************************************************************)
(* A construction plan (jobs of action 1002, one cycle after the other),   *)
(* the operator's changes to it while it runs, and the resources the hub   *)
(* reserves for it.  The plan lives in the inputs of its jobs: what to     *)
(* build, up to which level, each step under an index, and the indices     *)
(* that a cycle put aside.  A page reads the inputs of a live job and      *)
(* writes all of them back; a reschedule copies them into the next cycle   *)
(* and applies the pending patch last.                                     *)
(*                                                                         *)
(* The buildings are those of one city, one step each: a cycle picks one   *)
(* step of a city, whichever its strategy.  Costs and transports are left  *)
(* out: of a job's reservation rows only whether some are active.  A level *)
(* is reached when its work starts.                                        *)
(***************************************************************************)
EXTENDS Naturals, FiniteSets, FiniteSetsExt

CONSTANTS
    Building,
    MaxLevel,       \* the table of costs ends here
    MaxCycles,      \* bound: jobs of the plan; the first is its root
    MaxPlanEvents,  \* bound: the operator's requests, and faults
    FixedPayload    \* redis: a cycle's inputs are fixed when it is created

ASSUME PlanAssumption ==
    /\ IsFiniteSet(Building) /\ Building # {}
    /\ MaxLevel \in Nat \ {0} /\ MaxCycles \in Nat \ {0} /\ MaxPlanEvents \in Nat
    /\ FixedPayload \in BOOLEAN

Cycle == 1 .. MaxCycles
PlanRoot == 1
Level == 0 .. MaxLevel
StepIndex == 1 .. Cardinality(Building)

VARIABLES
    level,          \* the game: level of each building
    cycle,          \* the jobs: status, source, inputs and the payload that was sent
    reserved,       \* the jobs with active reservation rows
    builder,        \* the cycle the agent executes, and what it knows of the plan
    editing, merging,   \* the requests in flight
    asked,          \* history: the level the operator last asked for, 0 for none
    refused,        \* history: buildings the game had no place for
    planTrouble,    \* history: what went wrong on the way
    planEvents

planVars == <<level, cycle, reserved, builder, editing, merging, asked, refused,
              planTrouble, planEvents>>

\* The inputs of a job: goals (0: not in the plan), indices, the indices put aside
\* (skipped_step_indices, blocked_step_indices), and __pending_patch, if any.
PlanList == [goal : [Building -> Level], idx : [Building -> {0} \cup StepIndex]]
Inputs == [goal : [Building -> Level], idx : [Building -> {0} \cup StepIndex],
           ignored : SUBSET StepIndex, patch : SUBSET PlanList]
Steps(goal) == {b \in Building : goal[b] # 0}
\* The indices that steps s may get, out of 1 .. n.
Numberings(s, n) ==
    {f \in [Building -> 0 .. n] :
        /\ \A b \in Building : f[b] = 0 <=> b \notin s
        /\ \A b, c \in s : f[b] = f[c] => b = c}

NoInputs == [goal |-> [b \in Building |-> 0], idx |-> [b \in Building |-> 0],
             ignored |-> {}, patch |-> {}]
NoCycle == [status |-> "none", source |-> 0, inputs |-> NoInputs, sent |-> NoInputs]
AtRest == [at |-> "idle", cycle |-> 0, goal |-> NoInputs.goal, idx |-> NoInputs.idx,
           ignored |-> {}, started |-> {}]
NoRequest == [at |-> "none", target |-> 0, base |-> NoInputs, inputs |-> NoInputs]

NextCycle == Cardinality({j \in Cycle : cycle[j].status # "none"}) + 1
LivePlan == {j \in Cycle : cycle[j].status \in {"queued", "scheduled", "running"}}
Newest == NextCycle - 1
NewCycle(status, source, inputs) ==
    [status |-> status, source |-> source, inputs |-> inputs, sent |-> inputs]

\* A plan just created, its rows still to come.
PlanInit ==
    /\ level = [b \in Building |-> 0]
    /\ \E goal \in [Building -> Level] :
        /\ Steps(goal) # {}
        /\ asked = goal
        /\ \E idx \in Numberings(Steps(goal), Cardinality(Steps(goal))) :
             cycle = [j \in Cycle |->
                        IF j = PlanRoot
                          THEN NewCycle("queued", 0, [NoInputs EXCEPT !.goal = goal, !.idx = idx])
                          ELSE NoCycle]
    /\ reserved = {}
    /\ builder = AtRest
    /\ editing = NoRequest
    /\ merging = [NoRequest EXCEPT !.at = "reserving", !.target = PlanRoot]
    /\ refused = {}
    /\ planTrouble = {}
    /\ planEvents = 0

PlanEvent == planEvents < MaxPlanEvents /\ planEvents' = planEvents + 1
Blames(causes) == planTrouble' = planTrouble \cup causes
If(condition, cause) == IF condition THEN {cause} ELSE {}

-----------------------------------------------------------------------------
(* A cycle: ConstructionPlanRunner.execute() *)

StartPlanCycle(j) ==
    LET payload == IF FixedPayload THEN cycle[j].sent ELSE cycle[j].inputs IN
    /\ builder = AtRest
    /\ cycle[j].status \in {"queued", "scheduled"}
    /\ cycle' = [cycle EXCEPT ![j].status = "running"]
    /\ builder' = [AtRest EXCEPT !.at = "working", !.cycle = j, !.goal = payload.goal,
                                 !.idx = payload.idx, !.ignored = payload.ignored]
    /\ UNCHANGED <<level, reserved, editing, merging, asked, refused, planTrouble, planEvents>>

(* Mutant: the level reached is not looked at. *)
TodoForEver == {b \in Steps(builder.goal) : builder.idx[b] \notin builder.ignored}

Todo == {b \in Building : builder.goal[b] > level[b] /\ builder.idx[b] \notin builder.ignored}
Builds(to) == UNCHANGED <<cycle, reserved, editing, merging, asked, planTrouble, planEvents>>
                /\ builder' = to

\* No snapshot yet, no resources, a work in progress: the cycle is repeated.
CycleWaits ==
    /\ builder.at = "working"
    /\ Builds([builder EXCEPT !.at = "rescheduling"])
    /\ UNCHANGED <<level, refused>>

BuildLevel(b) ==
    /\ builder.at = "working" /\ b \in Todo
    /\ level' = [level EXCEPT ![b] = @ + 1]
    /\ Builds([builder EXCEPT !.at = "syncing", !.started = {b}])
    /\ UNCHANGED refused

\* no_empty_slot, no_unlocked_slot; no slot takes a building the city already has.
StepRefused(b) ==
    /\ builder.at = "working" /\ b \in Todo
    /\ refused' = refused \cup {b}
    /\ Builds([builder EXCEPT !.at = "syncing", !.ignored = @ \cup {builder.idx[b]}])
    /\ UNCHANGED level

\* Pending in the snapshot, finished in the game.
StepFoundDone(b) ==
    /\ builder.at = "working"
    /\ b \in Steps(builder.goal) /\ builder.goal[b] <= level[b]
    /\ Builds([builder EXCEPT !.at = "syncing", !.ignored = @ \cup {builder.idx[b]}])
    /\ UNCHANGED <<level, refused>>

PlanComplete ==
    /\ builder.at = "working" /\ Todo = {}
    /\ Builds([builder EXCEPT !.at = "last_sync"])
    /\ UNCHANGED <<level, refused>>

\* The steps whose next level _build_live_construction_reservations() adds up: also
\* those put aside.
Remaining == {b \in Building : builder.goal[b] > level[b] /\ b \notin builder.started}
AfterSync == IF builder.at = "syncing" THEN "rescheduling" ELSE "ending"

(* Mutant: the rows of the job that asks. *)
SyncOwnRows ==
    LET own == builder.cycle IN
    /\ builder.at \in {"syncing", "last_sync"}
    /\ reserved' = IF Remaining = {} THEN reserved \ {own} ELSE reserved \cup {own}
    /\ Blames(If(builder.at = "last_sync" /\ Remaining # {}, "skipped")
              \cup If(Newest \notin LivePlan, "reserved_late"))
    /\ builder' = [builder EXCEPT !.at = AfterSync]
    /\ UNCHANGED <<level, cycle, editing, merging, asked, refused, planEvents>>

\* ConstructionReservationSyncView: the rows of the chain's root, whatever its state.
SyncReservations ==
    /\ builder.at \in {"syncing", "last_sync"}
    /\ reserved' = IF Remaining = {} THEN reserved \ {PlanRoot} ELSE reserved \cup {PlanRoot}
    /\ Blames(If(builder.at = "last_sync" /\ Remaining # {}, "skipped")
              \cup If(Newest \notin LivePlan, "reserved_late"))
    /\ builder' = [builder EXCEPT !.at = AfterSync]
    /\ UNCHANGED <<level, cycle, editing, merging, asked, refused, planEvents>>

\* A warning in the log.
SyncFails ==
    /\ builder.at \in {"syncing", "last_sync"}
    /\ PlanEvent
    /\ Blames({"unsynced"})
    /\ builder' = [builder EXCEPT !.at = AfterSync]
    /\ UNCHANGED <<level, cycle, reserved, editing, merging, asked, refused>>

\* The pending patch is applied last and is gone.
Effective(inputs) ==
    IF inputs.patch = {} THEN inputs
    ELSE LET p == CHOOSE q \in inputs.patch : TRUE
         IN  [inputs EXCEPT !.goal = p.goal, !.idx = p.idx, !.patch = {}]

(* Mutant: the inputs are the agent's, read when the cycle began. *)
RescheduleAgentInputs ==
    LET j == builder.cycle
        inputs == [NoInputs EXCEPT !.goal = builder.goal, !.idx = builder.idx, !.ignored = builder.ignored]
    IN
    /\ builder.at = "rescheduling"
    /\ IF cycle[j].status = "running"
         THEN /\ NextCycle <= MaxCycles
              /\ cycle' = [cycle EXCEPT ![NextCycle] = NewCycle("scheduled", j, inputs)]
         ELSE UNCHANGED cycle
    /\ builder' = [builder EXCEPT !.at = "ending"]
    /\ UNCHANGED <<level, reserved, editing, merging, asked, refused, planTrouble, planEvents>>

\* RescheduleJobView: the row's inputs, and of the agent's only what it put aside.
ReschedulePlan ==
    LET j == builder.cycle
        ignored == IF builder.ignored # {} THEN builder.ignored ELSE cycle[j].inputs.ignored
    IN
    /\ builder.at = "rescheduling"
    /\ IF cycle[j].status = "running"
         THEN /\ NextCycle <= MaxCycles
              /\ cycle' = [cycle EXCEPT ![NextCycle] =
                    NewCycle("scheduled", j, Effective([cycle[j].inputs EXCEPT !.ignored = ignored]))]
         ELSE UNCHANGED cycle
    /\ builder' = [builder EXCEPT !.at = "ending"]
    /\ UNCHANGED <<level, reserved, editing, merging, asked, refused, planTrouble, planEvents>>

\* The final report; a job that is over keeps its status.
Concluded(outcome) ==
    /\ cycle' = [cycle EXCEPT ![builder.cycle].status = IF @ = "running" THEN outcome ELSE @]
    /\ builder' = AtRest
    /\ UNCHANGED <<level, reserved, editing, merging, asked, refused>>

EndPlanCycle == builder.at = "ending" /\ Concluded("finished") /\ UNCHANGED <<planTrouble, planEvents>>

\* An exception: the plan ends, and nobody touches its rows.
PlanFails ==
    /\ builder.at \in {"working", "rescheduling"}
    /\ PlanEvent
    /\ Concluded("error")
    /\ Blames({"error"})

BuilderDies ==
    /\ builder # AtRest
    /\ PlanEvent
    /\ builder' = AtRest
    /\ UNCHANGED <<level, cycle, reserved, editing, merging, asked, refused, planTrouble>>

\* recover_stale_running_jobs(): requeued, unless a follow-up is active or (for five
\* minutes) was.
RecoverPlanCycle(j) ==
    LET children == {k \in Cycle : cycle[k].source = j} IN
    /\ cycle[j].status = "running" /\ builder.cycle # j
    /\ \/ /\ LivePlan \ {j} # {} \/ children # {}
          /\ cycle' = [cycle EXCEPT ![j].status = "cancelled"]
          /\ Blames(If(LivePlan = {j}, "lost"))
       \/ /\ LivePlan = {j} /\ NextCycle <= MaxCycles
          /\ cycle' = [cycle EXCEPT ![j].status = "cancelled",
                                    ![NextCycle] = NewCycle("scheduled", j, cycle[j].inputs)]
          /\ Blames(If(children # {}, "revived"))
    /\ UNCHANGED <<level, reserved, builder, editing, merging, asked, refused, planEvents>>

-----------------------------------------------------------------------------
(* The operator *)

\* _find_active_chain_job(): the job itself while it is active, else its newest
\* active descendant.
Descendants(j) ==
    LET descends[k \in Cycle] ==
            k > j /\ (cycle[k].source = j \/ (cycle[k].source > j /\ descends[cycle[k].source]))
    IN  {k \in Cycle : descends[k]}
FindActive(j) == IF j \in LivePlan THEN {j} ELSE
    LET live == Descendants(j) \cap LivePlan IN IF live = {} THEN {} ELSE {Max(live)}

\* What makes a request's writing come too late or over another's.
Written(request) ==
    If(\/ request.target \notin LivePlan
       \/ \E k \in Cycle : cycle[k].source = request.target, "late")
    \cup If(cycle[request.target].inputs # request.base, "raced")

(* Mutant: the steps that are left are numbered anew. *)
CutRenumbers(j, b, to) ==
    /\ editing = NoRequest /\ PlanEvent
    /\ \E t \in FindActive(j), floor \in 0 .. level[b] :
        LET read == cycle[t].inputs
            goal == [read.goal EXCEPT ![b] = IF to <= floor THEN 0 ELSE to]
            idx == [c \in Building |->
                      IF goal[c] = 0 THEN 0
                      ELSE IF goal[b] = 0 /\ read.idx[c] > read.idx[b] THEN read.idx[c] - 1
                      ELSE read.idx[c]] IN
        /\ to < read.goal[b]
        /\ editing' = [at |-> "saving", target |-> t, base |-> read,
                       inputs |-> [read EXCEPT !.goal = goal, !.idx = idx,
                                               !.patch = {[goal |-> goal, idx |-> idx]}]]
    /\ UNCHANGED <<level, cycle, reserved, builder, merging, asked, refused, planTrouble>>

\* JobPlanQuickPatchView, action=cut: from a page on cycle j, step b up to level to.
\* cut_step() takes the step out when nothing is left of it to build above floor: the
\* greater of the level the page showed and the one the preview began at, any earlier
\* level of the building.
CutReads(j, b, to) ==
    /\ editing = NoRequest /\ PlanEvent
    /\ \E t \in FindActive(j), floor \in 0 .. level[b] :
        LET read == cycle[t].inputs
            goal == [read.goal EXCEPT ![b] = IF to <= floor THEN 0 ELSE to]
            idx == [read.idx EXCEPT ![b] = IF to <= floor THEN 0 ELSE @] IN
        /\ to < read.goal[b]
        /\ editing' = [at |-> "saving", target |-> t, base |-> read,
                       inputs |-> [read EXCEPT !.goal = goal, !.idx = idx,
                                               !.patch = {[goal |-> goal, idx |-> idx]}]]
    /\ UNCHANGED <<level, cycle, reserved, builder, merging, asked, refused, planTrouble>>

\* What a request asks for: the goals it changed.
Asks(request) ==
    [b \in Building |-> IF request.inputs.goal[b] # request.base.goal[b]
                          THEN request.inputs.goal[b] ELSE asked[b]]

\* _write_pending_patch()
CutSaves ==
    /\ editing.at = "saving"
    /\ cycle' = [cycle EXCEPT ![editing.target].inputs = editing.inputs]
    /\ asked' = Asks(editing)
    /\ Blames(Written(editing))
    /\ editing' = NoRequest
    /\ UNCHANGED <<level, reserved, builder, merging, refused, planEvents>>

\* _merge_construction_plan(): the preview counts again from the levels reached (a
\* finished step gets one more) and numbers the steps in their new order.
Repriced(goal) ==
    [b \in Building |-> IF goal[b] = 0 \/ goal[b] > level[b] THEN goal[b]
                        ELSE IF level[b] < MaxLevel THEN level[b] + 1 ELSE 0]
MergeReads(b, to) ==
    /\ merging = NoRequest /\ PlanEvent
    /\ LivePlan # {}
    /\ LET t == Max(LivePlan)
           read == cycle[t].inputs
           goal == [Repriced(read.goal) EXCEPT ![b] = to] IN
        /\ read.goal[b] = 0 /\ to > level[b]
        /\ \E idx \in Numberings(Steps(goal), Cardinality(Steps(read.goal)) + 1) :
             merging' = [at |-> "saving", target |-> t, base |-> read,
                         inputs |-> [read EXCEPT !.goal = goal, !.idx = idx]]
    /\ UNCHANGED <<level, cycle, reserved, builder, editing, asked, refused, planTrouble>>

MergeSaves ==
    LET added == {b \in Building : merging.base.goal[b] = 0 /\ merging.inputs.goal[b] # 0} IN
    /\ merging.at = "saving"
    /\ cycle' = [cycle EXCEPT ![merging.target].inputs = merging.inputs]
    /\ asked' = [b \in Building |-> IF b \in added THEN merging.inputs.goal[b] ELSE asked[b]]
    /\ Blames(Written(merging) \cup {"merged"}
              \cup If(merging.inputs.patch # {}, "patched")
              \cup If(\E b \in Building \ added : merging.inputs.goal[b] # merging.base.goal[b], "repriced"))
    /\ merging' = [merging EXCEPT !.at = "reserving"]
    /\ UNCHANGED <<level, reserved, builder, editing, refused, planEvents>>

PlanEnding == Newest \notin LivePlan \/ (builder.at = "ending" /\ builder.cycle = Newest)

\* The rows of the job written to, made anew; those of any other job are cancelled.
\* The last part of a plan's creation too.
Reserve ==
    /\ merging.at = "reserving"
    /\ reserved' = {merging.target}
    /\ Blames(If(merging.target # PlanRoot, "moved") \cup If(PlanEnding, "reserved_late"))
    /\ merging' = NoRequest
    /\ UNCHANGED <<level, cycle, builder, editing, asked, refused, planEvents>>

(* Mutant: the jobs, and not their rows. *)
CancelJobsOnly ==
    /\ LivePlan # {} /\ PlanEvent
    /\ cycle' = [j \in Cycle |-> IF j \in LivePlan THEN [cycle[j] EXCEPT !.status = "cancelled"] ELSE cycle[j]]
    /\ UNCHANGED <<level, reserved, builder, editing, merging, asked, refused, planTrouble>>

\* JobCancelView: the chain's jobs, then the rows of all of them.
CancelPlan ==
    /\ LivePlan # {} /\ PlanEvent
    /\ cycle' = [j \in Cycle |-> IF j \in LivePlan THEN [cycle[j] EXCEPT !.status = "cancelled"] ELSE cycle[j]]
    /\ reserved' = {}
    /\ UNCHANGED <<level, builder, editing, merging, asked, refused, planTrouble>>

\* JobRunNowView of a scheduled cycle, JobUnstuckView of one whose agent is gone;
\* nobody looks whether it had rescheduled itself.
RestartCycle(j, from, to, rows) ==
    /\ cycle[j].status = from /\ builder.cycle # j
    /\ NextCycle <= MaxCycles /\ PlanEvent
    /\ cycle' = [cycle EXCEPT ![j].status = "cancelled",
                              ![NextCycle] = NewCycle(to, j, cycle[j].inputs)]
    /\ reserved' = rows
    /\ Blames(If(\E k \in Cycle : cycle[k].source = j, "forked"))
    /\ UNCHANGED <<level, builder, editing, merging, asked, refused>>
RunPlanNow(j) == RestartCycle(j, "scheduled", "queued", reserved)
UnstickPlan(j) == RestartCycle(j, "running", "scheduled", reserved \ {j})

-----------------------------------------------------------------------------
PlanNext ==
    \/ \E j \in Cycle : StartPlanCycle(j) \/ RecoverPlanCycle(j) \/ RunPlanNow(j) \/ UnstickPlan(j)
    \/ \E b \in Building : BuildLevel(b) \/ StepRefused(b) \/ StepFoundDone(b)
    \/ CycleWaits \/ PlanComplete \/ SyncReservations \/ SyncFails \/ ReschedulePlan
    \/ EndPlanCycle \/ PlanFails \/ BuilderDies
    \/ \E b \in Building, to \in Level :
        MergeReads(b, to) \/ \E j \in 1 .. NextCycle - 1 : CutReads(j, b, to)
    \/ CutSaves \/ MergeSaves \/ Reserve \/ CancelPlan

PlanSpec == PlanInit /\ [][PlanNext]_planVars

-----------------------------------------------------------------------------
Request == [at : {"none", "saving", "reserving"}, target : Cycle \cup {0}, base : Inputs, inputs : Inputs]

PlanTypeOK ==
    /\ level \in [Building -> Level]
    /\ \A j \in Cycle :
        /\ cycle[j].status \in {"none", "queued", "scheduled", "running", "finished", "error", "cancelled"}
        /\ cycle[j].source < j
        /\ cycle[j].inputs.goal \in [Building -> Level]
        /\ cycle[j].inputs.ignored \subseteq StepIndex
        /\ Cardinality(cycle[j].inputs.patch) <= 1
    /\ reserved \subseteq Cycle
    /\ builder.at \in {"idle", "working", "syncing", "last_sync", "rescheduling", "ending"}
    /\ {editing.at, merging.at} \subseteq {"none", "saving", "reserving"}
    /\ asked \in [Building -> Level] /\ refused \subseteq Building
    /\ planEvents \in 0 .. MaxPlanEvents

\* The cycle to come has the plan the operator was told of, through reschedules, early
\* starts, recoveries and changes made from stale pages; except for a request written
\* to a cycle that had already rescheduled itself or over another request, for what a
\* merge does to a plan with a change still pending or with finished steps, when the
\* recovery of an old cycle begins again a plan that was over, and when a cycle that had
\* rescheduled itself is unstuck, which forks the plan.
ChangesKept ==
    /\ Newest \in LivePlan
    /\ planTrouble \cap {"late", "raced", "patched", "repriced", "revived", "forked"} = {}
    => cycle[Newest].inputs.goal = asked

\* A step that a cycle leaves aside is one the game refused: indices keep their steps
\* while steps are cut.  (A merge numbers them anew.)
AsideIsRefused ==
    Newest \in LivePlan /\ "merged" \notin planTrouble =>
        LET inputs == cycle[Newest].inputs IN
        \A b \in Steps(inputs.goal) :
            inputs.idx[b] \in inputs.ignored /\ inputs.goal[b] > level[b] => b \in refused

\* The account's resources are reserved for a plan once: its rows belong to one job,
\* unless a merge made them anew for a cycle that is not the root.
ReservedOnce == Cardinality(reserved) > 1 => "moved" \in planTrouble

\* A plan that is over leaves nothing reserved, unless it ended with an error or with
\* steps put aside, a synchronisation failed or came after the end, a merge had made
\* the rows of another job than the root, or the plan had been forked.
ReservationsEnd ==
    LivePlan = {} /\ builder = AtRest /\ merging = NoRequest /\ reserved # {} =>
        planTrouble \cap {"error", "skipped", "unsynced", "moved", "reserved_late", "lost", "forked"} # {}

\* create.py:3738, "Append new_steps to an existing active construction plan job": a
\* step that was appended, one request at a time and to a plan still to be repeated,
\* is still there in the cycles that follow.
AppendedStays ==
    Newest \in LivePlan /\ planTrouble \cap {"late", "raced"} = {} =>
        \A b \in Building : asked[b] # 0 => cycle[Newest].inputs.goal[b] >= asked[b]
=============================================================================
