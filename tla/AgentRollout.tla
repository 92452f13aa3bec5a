---------------------------- MODULE AgentRollout -----------------------------
(***************************************************************************)
(* The agent of one node and the supervisor of its Docker host: updates    *)
(* asked for in the hub (AgentUpdateRequest), and the agent the platform   *)
(* creates and removes for a customer's account (AgentProvisionRequest).   *)
(* The supervisor asks the hub for work over HTTP, drives Docker call by   *)
(* call and reports; an exception on the way takes it to the rollback.     *)
(*                                                                         *)
(* A Docker call may fail before or after it took effect, a request to the *)
(* hub may be lost on its way there or back, the supervisor may die        *)
(* anywhere (it keeps nothing), and the new agent may not stay up.         *)
(***************************************************************************)
EXTENDS Naturals, FiniteSets, FiniteSetsExt

CONSTANTS
    MaxUpdates,     \* bound: updates asked for; the images are 0 .. MaxUpdates
    MaxRolloutFaults \* bound: failed calls, lost requests, deaths

ASSUME RolloutAssumption == MaxUpdates \in Nat /\ MaxRolloutFaults \in Nat

Image == 0 .. MaxUpdates
ContainerId == 1 .. MaxUpdates + 2

VARIABLES
    node,           \* platform_managed, active
    updateRow,      \* the last AgentUpdateRequest: status, target_image
    provision,      \* status of the create and of the remove request
    busy,           \* the node has a queued or running job
    containers,     \* Docker: id, image, name, running
    supervisor,     \* the supervisor: where it is, and on what
    hurt,           \* history: which calls failed badly
    rolloutFaults

rolloutVars == <<node, updateRow, provision, busy, containers, supervisor, hurt, rolloutFaults>>

Resting == [at |-> "idle", image |-> 0, old |-> 0, new |-> 0, outcome |-> "none"]
Running == {c \in containers : c.running}
Container(i) == CHOOSE c \in containers : c.id = i
Exists(i) == \E c \in containers : c.id = i
Holder(name) == {c \in containers : c.name = name}
Change(i, f, value) ==
    {IF c.id = i THEN [c EXCEPT ![f] = value] ELSE c : c \in containers}
FreshId == Min(ContainerId \ {c.id : c \in containers})

\* An agent the customer installed, or a node of the platform about to be created.
RolloutInit ==
    /\ node \in {[platform |-> p, active |-> TRUE] : p \in BOOLEAN}
    /\ updateRow = [status |-> "none", image |-> 0]
    /\ provision = [create |-> IF node.platform THEN "queued" ELSE "none", remove |-> "none"]
    /\ busy = FALSE
    /\ containers = IF node.platform THEN {}
                    ELSE {[id |-> 1, image |-> 0, name |-> "agent", running |-> TRUE]}
    /\ supervisor = Resting
    /\ hurt = {}
    /\ rolloutFaults = 0

RolloutFault == rolloutFaults < MaxRolloutFaults /\ rolloutFaults' = rolloutFaults + 1
At(step) == supervisor.at = step
Goes(step) == supervisor' = [supervisor EXCEPT !.at = step]
Concludes(outcome) == supervisor' = [supervisor EXCEPT !.at = "report", !.outcome = outcome]

-----------------------------------------------------------------------------
(* The hub *)

\* NodeRequestUpdateView: the agent is online, has no work, and no update is pending.
RequestUpdate ==
    /\ node.active /\ Running # {} /\ ~busy
    /\ updateRow.status \notin {"queued", "running"}
    /\ updateRow.image < MaxUpdates
    /\ updateRow' = [status |-> "queued", image |-> updateRow.image + 1]
    /\ UNCHANGED <<node, provision, busy, containers, supervisor, hurt, rolloutFaults>>

\* platform_agent.end(): the node is closed and its container asked for removal.
EndPlatformAgent ==
    /\ node.platform /\ node.active
    /\ node' = [node EXCEPT !.active = FALSE]
    /\ provision' = [provision EXCEPT !.remove = "queued"]
    /\ UNCHANGED <<updateRow, busy, containers, supervisor, hurt, rolloutFaults>>

JobsComeAndGo ==
    /\ Running # {} \/ ~busy
    /\ busy' = ~busy
    /\ UNCHANGED <<node, updateRow, provision, containers, supervisor, hurt, rolloutFaults>>

\* replace_agent() up to its try: find_target() wants exactly one container that
\* carries the node's id, and the image is pulled; a failure here has changed nothing.
Begin ==
    \/ /\ Cardinality(containers) = 1
       /\ supervisor' \in {[Resting EXCEPT !.at = "stop", !.image = updateRow.image, !.old = c.id]
                             : c \in containers}
       /\ UNCHANGED rolloutFaults
    \/ /\ IF Cardinality(containers) = 1 THEN RolloutFault ELSE UNCHANGED rolloutFaults
       /\ Concludes("failed")

\* SupervisorUpdateNextView: not while the node has a queued or running job.
UpdateNext ==
    /\ At("idle") /\ node.active /\ ~busy
    /\ updateRow.status = "queued"
    /\ updateRow' = [updateRow EXCEPT !.status = "running"]
    /\ Begin
    /\ UNCHANGED <<node, provision, busy, containers, hurt>>

UpdateNextLost ==
    /\ At("idle") /\ node.active /\ ~busy
    /\ updateRow.status = "queued"
    /\ RolloutFault
    /\ updateRow' = [updateRow EXCEPT !.status = "running"]
    /\ UNCHANGED <<node, provision, busy, containers, supervisor, hurt>>

\* SupervisorUpdateStatusView: what is over stays over.
ReportUpdate ==
    /\ At("report")
    /\ updateRow' = IF updateRow.status = "running"
                      THEN [updateRow EXCEPT !.status = supervisor.outcome] ELSE updateRow
    /\ supervisor' = Resting
    /\ UNCHANGED <<node, provision, busy, containers, hurt, rolloutFaults>>

\* A success that does not get through is reported as a failure.
ReportUpdateLost ==
    /\ At("report")
    /\ RolloutFault
    /\ supervisor' = IF supervisor.outcome = "succeeded"
                       THEN [supervisor EXCEPT !.outcome = "failed"] ELSE Resting
    /\ UNCHANGED <<node, updateRow, provision, busy, containers, hurt>>

-----------------------------------------------------------------------------
(* replace_agent(): the calls to Docker, and where an exception leads *)

\* One call: done and answered; or raising, before or after it took effect.
Docker(step, effect, next) ==
    /\ At(step)
    /\ \/ containers' = effect /\ Goes(next) /\ UNCHANGED <<hurt, rolloutFaults>>
       \/ /\ RolloutFault
          /\ containers' \in {containers, effect}
          /\ Goes("undo")
          /\ hurt' = hurt \cup {step}
    /\ UNCHANGED <<node, updateRow, provision, busy>>

(* Mutant: the old one runs on until it is removed. *)
StopLater == Docker("stop", containers, "rename")

StopOld == Docker("stop", Change(supervisor.old, "running", FALSE), "rename")
RenameOld == Docker("rename", Change(supervisor.old, "name", "backup"), "create")

\* The name may still be taken by a container an earlier supervisor left behind.
CreateNew ==
    /\ At("create")
    /\ LET made == containers \cup {[id |-> FreshId, image |-> supervisor.image,
                                     name |-> "agent", running |-> FALSE]} IN
       \/ /\ Holder("agent") = {}
          /\ containers' = made
          /\ supervisor' = [supervisor EXCEPT !.at = "start", !.new = FreshId]
          /\ UNCHANGED <<hurt, rolloutFaults>>
       \/ /\ Holder("agent") = {}
          /\ RolloutFault
          /\ containers' \in {containers, made}
          /\ supervisor' = [supervisor EXCEPT !.at = "restore"]
          /\ hurt' = hurt \cup {"create"}
    /\ UNCHANGED <<node, updateRow, provision, busy>>

StartNew == Docker("start", Change(supervisor.new, "running", TRUE), "check")

\* Running, and still running five seconds later; or not, for thirty.
NewStays ==
    /\ At("check") /\ Container(supervisor.new).running
    /\ Goes("remove")
    /\ UNCHANGED <<node, updateRow, provision, busy, containers, hurt, rolloutFaults>>
NewFails ==
    /\ At("check")
    /\ containers' = Change(supervisor.new, "running", FALSE)
    /\ Goes("undo")
    /\ UNCHANGED <<node, updateRow, provision, busy, hurt, rolloutFaults>>

(* Mutant: the old container is left where it is. *)
KeepOld ==
    /\ At("remove")
    /\ Concludes("succeeded")
    /\ UNCHANGED <<node, updateRow, provision, busy, containers, hurt, rolloutFaults>>

RemoveOld ==
    /\ At("remove")
    /\ LET gone == {c \in containers : c.id # supervisor.old} IN
       \/ containers' = gone /\ Concludes("succeeded") /\ UNCHANGED <<hurt, rolloutFaults>>
       \/ /\ RolloutFault
          /\ containers' \in {containers, gone}
          /\ Goes("undo")
          /\ hurt' = hurt \cup {"remove"}
    /\ UNCHANGED <<node, updateRow, provision, busy>>

\* except: the replacement, if its creation was answered, is removed, come what may, ...
UndoNew ==
    LET made == supervisor.new # 0
        gone == IF made THEN {c \in containers : c.id # supervisor.new} ELSE containers IN
    /\ At("undo")
    /\ Goes("restore")
    /\ \/ containers' = gone /\ UNCHANGED <<hurt, rolloutFaults>>
       \/ made /\ RolloutFault /\ containers' \in {containers, gone} /\ hurt' = hurt \cup {"undo"}
    /\ UNCHANGED <<node, updateRow, provision, busy>>

\* ... and the old one renamed and started.  Docker refuses a name that is taken, also
\* by the container itself; an exception here ends the rollback.
RestoreOld ==
    LET renamed == Change(supervisor.old, "name", "agent")
        possible == Exists(supervisor.old) /\ Holder("agent") = {} IN
    /\ At("restore")
    /\ \/ /\ possible
          /\ containers' = renamed
          /\ Goes("restart")
          /\ UNCHANGED <<hurt, rolloutFaults>>
       \/ /\ IF possible THEN RolloutFault ELSE UNCHANGED rolloutFaults
          /\ containers' \in IF possible THEN {containers, renamed} ELSE {containers}
          /\ Concludes("failed") /\ hurt' = hurt \cup {"restore"}
    /\ UNCHANGED <<node, updateRow, provision, busy>>

(* Mutant: the old container has its name back and is not started. *)
RestartSkipped ==
    /\ At("restart")
    /\ Concludes("failed")
    /\ UNCHANGED <<node, updateRow, provision, busy, containers, hurt, rolloutFaults>>

RestartOld ==
    LET started == Change(supervisor.old, "running", TRUE) IN
    /\ At("restart")
    /\ Concludes("failed")
    /\ \/ containers' = started /\ UNCHANGED <<hurt, rolloutFaults>>
       \/ RolloutFault /\ containers' \in {containers, started} /\ hurt' = hurt \cup {"restore"}
    /\ UNCHANGED <<node, updateRow, provision, busy>>

\* The supervisor or its host dies and comes back: it begins with the next work order.
SupervisorDies ==
    /\ ~At("idle")
    /\ RolloutFault
    /\ supervisor' = Resting
    /\ hurt' = hurt \cup {"died"}
    /\ UNCHANGED <<node, updateRow, provision, busy, containers>>

-----------------------------------------------------------------------------
(* run_provision() *)

\* next_request(): the oldest order, and the creation only of a node still open.
ProvisionNext ==
    /\ At("idle")
    /\ IF provision.create = "queued"
         THEN IF node.active
                THEN /\ provision' = [provision EXCEPT !.create = "running"]
                     /\ Goes("provision")
                ELSE provision' = [provision EXCEPT !.create = "failed"] /\ UNCHANGED supervisor
         ELSE /\ provision.remove = "queued"
              /\ provision' = [provision EXCEPT !.remove = "running"]
              /\ Goes("withdraw")
    /\ UNCHANGED <<node, updateRow, busy, containers, hurt, rolloutFaults>>

\* The answer is lost, and with it the agent's token: the order is not given again.
ProvisionNextLost ==
    /\ At("idle")
    /\ RolloutFault
    /\ \/ /\ provision.create = "queued" /\ node.active
          /\ provision' = [provision EXCEPT !.create = "running"]
       \/ /\ provision.create # "queued" /\ provision.remove = "queued"
          /\ provision' = [provision EXCEPT !.remove = "running"]
    /\ UNCHANGED <<node, updateRow, busy, containers, supervisor, hurt>>

\* create_platform_agent(): created, started, watched and, if it does not stay up, removed.
CreatePlatformAgent ==
    LET made(up) == {[id |-> FreshId, image |-> 0, name |-> "agent", running |-> up]} IN
    /\ At("provision")
    /\ \/ /\ containers' = made(TRUE) /\ provision' = [provision EXCEPT !.create = "succeeded"]
          /\ UNCHANGED rolloutFaults
       \/ /\ containers' = {} /\ provision' = [provision EXCEPT !.create = "failed"]
          /\ UNCHANGED rolloutFaults
       \/ /\ RolloutFault
          /\ containers' \in {{}, made(FALSE), made(TRUE)}
          /\ provision' = [provision EXCEPT !.create = "failed"]
    /\ supervisor' = Resting
    /\ UNCHANGED <<node, updateRow, busy, hurt>>

(* Mutant: what runs, and not what an update put aside. *)
RemoveRunning ==
    /\ At("withdraw")
    /\ containers' = {c \in containers : ~c.running}
    /\ provision' = [provision EXCEPT !.remove = "succeeded"]
    /\ supervisor' = Resting
    /\ UNCHANGED <<node, updateRow, busy, hurt, rolloutFaults>>

\* remove_platform_agent(): every container that carries the node's labels.
RemovePlatformAgent ==
    /\ At("withdraw")
    /\ \/ /\ containers' = {} /\ provision' = [provision EXCEPT !.remove = "succeeded"]
          /\ UNCHANGED rolloutFaults
       \/ /\ RolloutFault
          /\ containers' \in SUBSET containers
          /\ provision' = [provision EXCEPT !.remove = "failed"]
    /\ supervisor' = Resting
    /\ UNCHANGED <<node, updateRow, busy, hurt>>

-----------------------------------------------------------------------------
RolloutNext ==
    \/ RequestUpdate \/ EndPlatformAgent \/ JobsComeAndGo
    \/ UpdateNext \/ UpdateNextLost \/ ReportUpdate \/ ReportUpdateLost
    \/ StopOld \/ RenameOld \/ CreateNew \/ StartNew \/ NewStays \/ NewFails \/ RemoveOld
    \/ UndoNew \/ RestoreOld \/ RestartOld \/ SupervisorDies
    \/ ProvisionNext \/ ProvisionNextLost \/ CreatePlatformAgent \/ RemovePlatformAgent

RolloutSpec == RolloutInit /\ [][RolloutNext]_rolloutVars

-----------------------------------------------------------------------------
RolloutTypeOK ==
    /\ node \in [platform : BOOLEAN, active : BOOLEAN]
    /\ updateRow \in [status : {"none", "queued", "running", "succeeded", "failed"}, image : Image]
    /\ provision \in [{"create", "remove"} -> {"none", "queued", "running", "succeeded", "failed"}]
    /\ busy \in BOOLEAN
    /\ containers \subseteq [id : ContainerId, image : Image, name : {"agent", "backup"}, running : BOOLEAN]
    /\ \A c, d \in containers : c.id = d.id \/ c.name = d.name => c = d
    /\ supervisor.image \in Image /\ {supervisor.old, supervisor.new} \subseteq ContainerId \cup {0}
    /\ rolloutFaults \in 0 .. MaxRolloutFaults

\* Two agents of a node never run side by side, whatever fails on the way: the same
\* account would be played twice.  Only a replacement that runs and that the rollback
\* could not remove is left beside the old one.
OneAgentRuns == Cardinality(Running) > 1 => "undo" \in hurt

\* An update the hub shows as done left the node with one container, of the new image,
\* running: never the old agent, and never both.
SucceededRuns ==
    [][updateRow.status = "running" /\ updateRow'.status = "succeeded" =>
         \E c \in containers :
            containers = {c} /\ c.running /\ c.image = updateRow.image]_rolloutVars

\* DOCKERHUB.md:5, "automatic rollback if the replacement container fails to come up
\* healthy": an update that failed leaves the node with its agent.  It may not when the
\* old container's stop, renaming or removal raised, when an earlier update or the
\* supervisor was cut short, or when the rollback itself was.
RollbackServes ==
    At("report") /\ supervisor.outcome = "failed" /\ Running = {} =>
        hurt \cap {"stop", "rename", "remove", "restore", "died"} # {}

\* A platform agent that was withdrawn leaves no container behind, not even the one an
\* interrupted update had put aside.
WithdrawnIsGone == provision.remove = "succeeded" => containers = {}
=============================================================================
