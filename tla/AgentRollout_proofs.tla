------------------------- MODULE AgentRollout_proofs -------------------------
(***************************************************************************)
(* Proofs about AgentRollout, for every number of updates and failures.    *)
(***************************************************************************)
EXTENDS AgentRollout, FiniteSetTheorems, TLAPS

-----------------------------------------------------------------------------
(* What is true at every step of the supervisor *)

\* Where the supervisor is while it replaces an agent.
Replacing == {"stop", "rename", "create", "start", "check", "remove", "undo", "restore", "restart"}
Steps == Replacing \cup {"idle", "report", "provision", "withdraw"}

\* The supervisor's own variables, which RolloutTypeOK leaves open.
SupervisorOK ==
    /\ supervisor \in [at : Steps, image : Image, old : ContainerId \cup {0},
                       new : ContainerId \cup {0}, outcome : {"none", "succeeded", "failed"}]
    /\ hurt \subseteq Steps \cup {"died"}

\* The order of things: an update is the one the row says, a node is created before
\* anything else is asked of it, and closed before its agent is withdrawn.
OrderOK ==
    /\ supervisor.at \in Replacing \cup {"report"} => updateRow.status = "running"
    /\ supervisor.at \in Replacing \/ (At("report") /\ supervisor.outcome = "succeeded") =>
          supervisor.image = updateRow.image
    /\ provision.create = "queued" => At("idle") /\ containers = {} /\ updateRow.status = "none"
    /\ At("provision") => containers = {} /\ updateRow.status = "none"
    /\ provision.remove # "none" => ~node.active
    /\ provision.remove \notin {"none", "queued"} => provision.create # "queued"
    /\ At("withdraw") => provision.remove = "running"
    /\ provision.remove = "succeeded" => At("idle") /\ containers = {}
    /\ updateRow.status = "queued" /\ node.active => At("idle")

ContainerRecord == [id : ContainerId, image : Image, name : {"agent", "backup"}, running : BOOLEAN]
ContainersTyped ==
    /\ containers \subseteq ContainerRecord
    /\ \A c, d \in containers : c.id = d.id \/ c.name = d.name => c = d

\* No call failed that the rollback cannot make good.
Unhurt == hurt \cap {"stop", "rename", "remove", "restore", "died"} = {}
\* No replacement was left where the rollback should have removed it.
Undone == "undo" \notin hurt

Alone(c) == containers = {c} /\ c.id = supervisor.old /\ supervisor.new = 0
\* The old container put aside, the new one beside it.
Beside(c, d) ==
    /\ containers = {c, d}
    /\ c.id = supervisor.old /\ c.name = "backup" /\ ~c.running
    /\ d.id = supervisor.new /\ d.name = "agent" /\ d.image = supervisor.image
    /\ supervisor.new # supervisor.old

\* What the host holds at every step of a replacement.
ContainersOK ==
    /\ At("stop") => \E c \in containers : Alone(c) /\ (Unhurt => c.running)
    /\ At("rename") => \E c \in containers : Alone(c) /\ ~c.running
    /\ At("create") => \E c \in containers : Alone(c) /\ ~c.running /\ c.name = "backup"
    /\ supervisor.at \in {"start", "check"} => \E c, d \in containers : Beside(c, d)
    /\ At("remove") => \E c, d \in containers : Beside(c, d) /\ d.running
    /\ At("undo") =>
          IF supervisor.new = 0
            THEN ~Unhurt /\ \E c \in containers : Alone(c)
            ELSE /\ \A c \in Running : c.id = supervisor.new
                 /\ Unhurt => \E c, d \in containers : Beside(c, d)
    /\ supervisor.at \in {"restore", "restart"} =>
          /\ Undone => \A c \in Running : c.id = supervisor.old
          /\ Unhurt => Exists(supervisor.old)
    /\ At("report") =>
          /\ supervisor.outcome \in {"succeeded", "failed"}
          /\ supervisor.outcome = "succeeded" =>
                \E c \in containers : containers = {c} /\ c.running /\ c.image = supervisor.image
          /\ supervisor.outcome = "failed" /\ Unhurt => Running # {}

\* At most one agent runs, and an update is asked of a node that has one.
RunningOK ==
    /\ Undone => \A c, d \in Running : c = d
    /\ updateRow.status = "queued" /\ node.active /\ Unhurt => Running # {}

RolloutInv == RolloutTypeOK /\ SupervisorOK /\ OrderOK /\ ContainersOK /\ RunningOK

USE RolloutAssumption DEF RolloutAssumption, Image, ContainerId

-----------------------------------------------------------------------------
(* Containers *)

\* With two names there are at most two containers.
LEMMA ContainersFinite ==
    ASSUME RolloutTypeOK
    PROVE  IsFiniteSet(containers) /\ IsFiniteSet(Running)
<1>1. ASSUME NEW name \in {"agent", "backup"} PROVE IsFiniteSet(Holder(name))
  <2>1. CASE Holder(name) = {}
    BY <2>1, FS_EmptySet
  <2>2. ASSUME NEW c \in Holder(name) PROVE IsFiniteSet(Holder(name))
    <3>1. Holder(name) = {c}
      BY <2>2 DEF Holder, RolloutTypeOK
    <3> QED
      BY <3>1, FS_Singleton
  <2> QED
    BY <2>1, <2>2
<1>2. containers = Holder("agent") \cup Holder("backup")
  BY DEF RolloutTypeOK, Holder
<1>3. IsFiniteSet(containers)
  BY <1>1, <1>2, FS_Union
<1> QED
  BY <1>3, FS_Subset DEF Running

\* The number Docker gives a container is a new one.
LEMMA FreshIsNew ==
    ASSUME NEW id \in ContainerId, \A c \in containers : c.id = id
    PROVE  FreshId \in ContainerId /\ \A c \in containers : c.id # FreshId
<1> DEFINE Free == ContainerId \ {c.id : c \in containers}
<1>1. \E x \in Free : \A y \in Free : x <= y
  <2>1. CASE 1 \in Free
    BY <2>1
  <2>2. CASE 1 \notin Free
    <3>1. 2 \in Free
      BY <2>2
    <3> QED
      BY <2>2, <3>1
  <2> QED
    BY <2>1, <2>2
<1> QED
  BY <1>1 DEF FreshId, Min

\* What a call that changes one container does to all of them.
LEMMA Changed ==
    ASSUME RolloutTypeOK, NEW i, NEW f \in {"name", "running"},
           NEW value, f = "name" => value \in {"agent", "backup"} /\ (Holder(value) = {}),
           f = "running" => value \in BOOLEAN
    PROVE  /\ Change(i, f, value) \subseteq
                [id : ContainerId, image : Image, name : {"agent", "backup"}, running : BOOLEAN]
           /\ \A c, d \in Change(i, f, value) : c.id = d.id \/ c.name = d.name => c = d
<1> DEFINE To(c) == IF c.id = i THEN [c EXCEPT ![f] = value] ELSE c
<1>1. Change(i, f, value) = {To(c) : c \in containers}
  BY DEF Change
<1>2. ASSUME NEW c \in containers
      PROVE  /\ To(c) \in [id : ContainerId, image : Image, name : {"agent", "backup"},
                           running : BOOLEAN]
             /\ To(c).id = c.id
             /\ To(c).name = IF c.id = i /\ f = "name" THEN value ELSE c.name
  BY <1>2 DEF RolloutTypeOK
<1>3. ASSUME NEW c \in containers, NEW d \in containers,
             To(c).id = To(d).id \/ To(c).name = To(d).name
      PROVE  To(c) = To(d)
  BY <1>2, <1>3 DEF RolloutTypeOK, Holder
<1> HIDE DEF To
<1> QED
  BY <1>1, <1>2, <1>3

-----------------------------------------------------------------------------
(* The steps *)

\* Steps that leave the containers alone.
LEMMA HubSteps ==
    ASSUME RolloutInv,
           \/ RequestUpdate \/ EndPlatformAgent \/ JobsComeAndGo \/ UpdateNextLost
           \/ ReportUpdate \/ ReportUpdateLost \/ SupervisorDies
           \/ ProvisionNext \/ ProvisionNextLost
    PROVE  RolloutInv'
<1> USE DEF RolloutInv, At, Goes, Concludes, Resting, RolloutFault, Running, Exists, Unhurt, Undone,
            Steps, Replacing
<1>1. CASE RequestUpdate
  <2> USE <1>1 DEF RequestUpdate
  <2>1. RolloutTypeOK' /\ SupervisorOK'
    BY DEF RolloutTypeOK, SupervisorOK
  <2>2. OrderOK'
    <3>1. containers # {} /\ provision.create # "queued" /\ ~At("provision")
      BY DEF OrderOK
    <3>2. provision.remove = "none" /\ ~At("withdraw")
      BY DEF OrderOK
    <3>3. At("idle")
      BY <3>1, <3>2 DEF OrderOK, SupervisorOK
    <3> QED
      BY <3>1, <3>2, <3>3 DEF OrderOK, RolloutTypeOK
  <2>3. ContainersOK' /\ RunningOK'
    BY DEF ContainersOK, RunningOK, OrderOK, SupervisorOK, Alone, Beside
  <2> QED
    BY <2>1, <2>2, <2>3
<1>2. CASE EndPlatformAgent
  <2> USE <1>2 DEF EndPlatformAgent
  <2>1. RolloutTypeOK' /\ SupervisorOK'
    BY ZenonT(40) DEF RolloutTypeOK, SupervisorOK
  <2>2. OrderOK'
    BY DEF OrderOK, RolloutTypeOK, SupervisorOK
  <2>3. ContainersOK' /\ RunningOK'
    BY DEF ContainersOK, RunningOK, OrderOK, SupervisorOK, Alone, Beside
  <2> QED
    BY <2>1, <2>2, <2>3
<1>3. CASE JobsComeAndGo
  <2> USE <1>3 DEF JobsComeAndGo
  <2>1. RolloutTypeOK' /\ SupervisorOK'
    BY DEF RolloutTypeOK, SupervisorOK
  <2>2. OrderOK'
    BY DEF OrderOK, RolloutTypeOK, SupervisorOK
  <2>3. ContainersOK' /\ RunningOK'
    BY DEF ContainersOK, RunningOK, OrderOK, SupervisorOK, Alone, Beside
  <2> QED
    BY <2>1, <2>2, <2>3
<1>4. CASE UpdateNextLost
  <2> USE <1>4 DEF UpdateNextLost
  <2>1. RolloutTypeOK' /\ SupervisorOK'
    BY DEF RolloutTypeOK, SupervisorOK
  <2>2. OrderOK'
    BY DEF OrderOK, RolloutTypeOK, SupervisorOK
  <2>3. ContainersOK' /\ RunningOK'
    BY DEF ContainersOK, RunningOK, OrderOK, SupervisorOK, Alone, Beside
  <2> QED
    BY <2>1, <2>2, <2>3
<1>5. CASE ReportUpdate
  <2> USE <1>5 DEF ReportUpdate
  <2>1. RolloutTypeOK' /\ SupervisorOK'
    BY DEF RolloutTypeOK, SupervisorOK
  <2>2. OrderOK'
    BY DEF OrderOK, RolloutTypeOK, SupervisorOK
  <2>3. ContainersOK' /\ RunningOK'
    BY DEF ContainersOK, RunningOK, OrderOK, SupervisorOK, Alone, Beside
  <2> QED
    BY <2>1, <2>2, <2>3
<1>6. CASE ReportUpdateLost
  <2> USE <1>6 DEF ReportUpdateLost
  <2>1. RolloutTypeOK' /\ SupervisorOK'
    BY DEF RolloutTypeOK, SupervisorOK
  <2>2. OrderOK'
    BY DEF OrderOK, RolloutTypeOK, SupervisorOK
  <2>3. ContainersOK' /\ RunningOK'
    BY DEF ContainersOK, RunningOK, OrderOK, SupervisorOK, Alone, Beside
  <2> QED
    BY <2>1, <2>2, <2>3
<1>7. CASE SupervisorDies
  <2> USE <1>7 DEF SupervisorDies
  <2>1. RolloutTypeOK' /\ SupervisorOK'
    BY DEF RolloutTypeOK, SupervisorOK
  <2>2. OrderOK'
    BY DEF OrderOK, RolloutTypeOK, SupervisorOK
  <2>3. ContainersOK' /\ RunningOK'
    BY DEF ContainersOK, RunningOK, OrderOK, SupervisorOK, Alone, Beside
  <2> QED
    BY <2>1, <2>2, <2>3
<1>8. CASE ProvisionNext
  <2> USE <1>8 DEF ProvisionNext
  <2>1. RolloutTypeOK' /\ SupervisorOK'
    BY DEF RolloutTypeOK, SupervisorOK
  <2>2. OrderOK'
    BY DEF OrderOK, RolloutTypeOK, SupervisorOK
  <2>3. ContainersOK' /\ RunningOK'
    BY DEF ContainersOK, RunningOK, OrderOK, SupervisorOK, Alone, Beside
  <2> QED
    BY <2>1, <2>2, <2>3
<1>9. CASE ProvisionNextLost
  <2> USE <1>9 DEF ProvisionNextLost
  <2>1. RolloutTypeOK' /\ SupervisorOK'
    BY DEF RolloutTypeOK, SupervisorOK
  <2>2. OrderOK'
    BY DEF OrderOK, RolloutTypeOK, SupervisorOK
  <2>3. ContainersOK' /\ RunningOK'
    BY DEF ContainersOK, RunningOK, OrderOK, SupervisorOK, Alone, Beside
  <2> QED
    BY <2>1, <2>2, <2>3
<1> QED
  BY <1>1, <1>2, <1>3, <1>4, <1>5, <1>6, <1>7, <1>8, <1>9

\* Failures are counted up to their bound.
LEMMA FaultsType ==
    ASSUME RolloutInv, RolloutFault \/ UNCHANGED rolloutFaults
    PROVE  rolloutFaults' \in 0 .. MaxRolloutFaults
BY DEF RolloutInv, RolloutTypeOK, RolloutFault

\* The update begins where one container carries the node's id.
LEMMA BeginStep == ASSUME RolloutInv, UpdateNext PROVE RolloutInv'
<1> USE DEF RolloutInv, UpdateNext, At, Resting, RolloutFault, Concludes, Running, Exists, Unhurt, Undone,
            Steps, Replacing
<1>1. CASE Cardinality(containers) = 1 /\ supervisor' \in
             {[Resting EXCEPT !.at = "stop", !.image = updateRow.image, !.old = c.id] : c \in containers}
           /\ UNCHANGED rolloutFaults
  <2>1. PICK c \in containers :
          containers = {c} /\ supervisor' = [at |-> "stop", image |-> updateRow.image, old |-> c.id,
                                             new |-> 0, outcome |-> "none"]
    <3>1. PICK c : containers = {c}
      BY <1>1, ContainersFinite, FS_Singleton
    <3>2. supervisor' = [Resting EXCEPT !.at = "stop", !.image = updateRow.image, !.old = c.id]
      BY <1>1, <3>1
    <3> QED
      BY <3>1, <3>2
  <2>2. RolloutTypeOK' /\ SupervisorOK'
    BY <1>1, <2>1 DEF RolloutTypeOK, SupervisorOK
  <2>3. OrderOK'
    BY <2>1 DEF OrderOK, RolloutTypeOK
  <2>4. ContainersOK' /\ RunningOK'
    BY <2>1 DEF ContainersOK, RunningOK, Alone, RolloutTypeOK
  <2> QED
    BY <2>2, <2>3, <2>4
<1>2. CASE Concludes("failed") /\ (UNCHANGED rolloutFaults \/ RolloutFault)
  <2>1. supervisor' = [supervisor EXCEPT !.at = "report", !.outcome = "failed"]
    BY <1>2
  <2>2. SupervisorOK'
    BY <2>1 DEF SupervisorOK
  <2>3. RolloutTypeOK'
    <3>1. rolloutFaults' \in 0 .. MaxRolloutFaults
      BY <1>2 DEF RolloutTypeOK
    <3> QED
      BY <2>2, <3>1 DEF RolloutTypeOK, SupervisorOK
  <2>4. OrderOK'
    BY <2>1 DEF OrderOK, RolloutTypeOK, SupervisorOK
  <2>5. ContainersOK' /\ RunningOK'
    BY <2>1 DEF ContainersOK, RunningOK, RolloutTypeOK, SupervisorOK
  <2> QED
    BY <2>2, <2>3, <2>4, <2>5
<1> QED
  BY <1>1, <1>2 DEF Begin

\* The rows of the hub stand still while the supervisor replaces an agent.
LEMMA OrderKept ==
    ASSUME RolloutInv, supervisor.at \in Replacing,
           UNCHANGED <<node, updateRow, provision, busy>>,
           supervisor'.at \in Replacing \cup {"report"},
           supervisor'.image = supervisor.image
    PROVE  OrderOK' /\ (updateRow.status = "running" /\ provision.create # "queued")
BY DEF RolloutInv, OrderOK, At, Replacing

\* What a call to Docker does to everything but the containers.
LEMMA DockerCall ==
    ASSUME RolloutInv, NEW step \in Replacing, NEW next \in Replacing, NEW effect,
           Docker(step, effect, next)
    PROVE  /\ SupervisorOK' /\ OrderOK' /\ updateRow'.status = "running"
           /\ supervisor'.image = supervisor.image
           /\ supervisor'.old = supervisor.old /\ supervisor'.new = supervisor.new
           /\ \/ supervisor'.at = next /\ containers' = effect /\ hurt' = hurt
              \/ /\ supervisor'.at = "undo" /\ containers' \in {containers, effect}
                 /\ hurt' = hurt \cup {step}
           /\ ContainersTyped' => RolloutTypeOK'
<1> USE DEF RolloutInv, Docker, At, Goes, RolloutFault
<1>1. \/ /\ supervisor' = [supervisor EXCEPT !.at = next] /\ containers' = effect
         /\ UNCHANGED <<hurt, rolloutFaults>>
      \/ /\ supervisor' = [supervisor EXCEPT !.at = "undo"] /\ containers' \in {containers, effect}
         /\ hurt' = hurt \cup {step} /\ RolloutFault
  OBVIOUS
<1>2. SupervisorOK'
  BY <1>1 DEF SupervisorOK, Steps, Replacing
<1>3. /\ supervisor'.image = supervisor.image
      /\ supervisor'.old = supervisor.old /\ supervisor'.new = supervisor.new
      /\ supervisor'.at \in {next, "undo"}
  BY <1>1 DEF SupervisorOK
<1>4. OrderOK' /\ updateRow'.status = "running"
  BY <1>3, OrderKept DEF Replacing
<1>5. rolloutFaults' \in 0 .. MaxRolloutFaults
  BY <1>1 DEF RolloutTypeOK
<1>6. ContainersTyped' => RolloutTypeOK'
  BY <1>3, <1>5 DEF RolloutTypeOK, ContainersTyped, ContainerRecord
<1> QED
  BY <1>1, <1>2, <1>3, <1>4, <1>6 DEF SupervisorOK

\* The old container is stopped, ...
LEMMA StopStep == ASSUME RolloutInv, StopOld PROVE RolloutInv'
<1> USE DEF RolloutInv, At, Running, Exists, Unhurt, Undone
<1> DEFINE effect == Change(supervisor.old, "running", FALSE)
<1>1. PICK c \in containers : Alone(c) /\ (Unhurt => c.running)
  BY DEF ContainersOK, StopOld, Docker
<1>2. PICK d : effect = {d} /\ d.id = c.id /\ ~d.running /\ d \in ContainerRecord
  <2> DEFINE d0 == [c EXCEPT !["running"] = FALSE]
  <2>1. effect = {d0}
    BY <1>1 DEF Alone, Change
  <2>2. c \in ContainerRecord
    BY DEF RolloutTypeOK, ContainerRecord
  <2>3. /\ d0.id = c.id /\ ~d0.running /\ d0 \in ContainerRecord
    BY <2>2 DEF ContainerRecord
  <2> HIDE DEF d0
  <2> QED
    BY <1>1, <2>1, <2>3
<1> HIDE DEF effect
<1>3. Docker("stop", effect, "rename") /\ "stop" \in Replacing /\ "rename" \in Replacing
  BY DEF StopOld, effect, Replacing
<1>4. RolloutTypeOK'
  BY <1>1, <1>2, <1>3, DockerCall DEF Alone, ContainersTyped, ContainerRecord, RolloutTypeOK
<1>5. ContainersOK' /\ RunningOK'
  BY <1>1, <1>2, <1>3, DockerCall DEF ContainersOK, RunningOK, Alone
<1> QED
  BY <1>3, <1>4, <1>5, DockerCall

\* ... and put aside.
LEMMA RenameStep == ASSUME RolloutInv, RenameOld PROVE RolloutInv'
<1> USE DEF RolloutInv, At, Running, Exists, Unhurt, Undone
<1> DEFINE effect == Change(supervisor.old, "name", "backup")
<1>1. PICK c \in containers : Alone(c) /\ ~c.running
  BY DEF ContainersOK, RenameOld, Docker
<1>2. PICK d : effect = {d} /\ d.id = c.id /\ ~d.running /\ d.name = "backup" /\ d \in ContainerRecord
  <2> DEFINE d0 == [c EXCEPT !["name"] = "backup"]
  <2>1. effect = {d0}
    BY <1>1 DEF Alone, Change
  <2>2. c \in ContainerRecord
    BY DEF RolloutTypeOK, ContainerRecord
  <2>3. /\ d0.id = c.id /\ d0.running = c.running /\ d0.name = "backup" /\ d0 \in ContainerRecord
    BY <2>2 DEF ContainerRecord
  <2> HIDE DEF d0
  <2> QED
    BY <1>1, <2>1, <2>3
<1> HIDE DEF effect
<1>3. Docker("rename", effect, "create") /\ "rename" \in Replacing /\ "create" \in Replacing
  BY DEF RenameOld, effect, Replacing
<1>4. RolloutTypeOK'
  BY <1>1, <1>2, <1>3, DockerCall DEF Alone, ContainersTyped, ContainerRecord, RolloutTypeOK
<1>5. ContainersOK' /\ RunningOK'
  BY <1>1, <1>2, <1>3, DockerCall DEF ContainersOK, RunningOK, Alone
<1> QED
  BY <1>3, <1>4, <1>5, DockerCall

\* The new container beside the old one.
LEMMA CreateStep == ASSUME RolloutInv, CreateNew PROVE RolloutInv'
<1> USE DEF RolloutInv, At, Running, Exists, Unhurt, Undone
<1> DEFINE new == [id |-> FreshId, image |-> supervisor.image, name |-> "agent", running |-> FALSE]
<1>1. PICK c \in containers : Alone(c) /\ ~c.running /\ c.name = "backup"
  BY DEF ContainersOK, CreateNew
<1>2. FreshId \in ContainerId /\ FreshId # c.id /\ c \in ContainerRecord
  BY <1>1, FreshIsNew DEF Alone, RolloutTypeOK, ContainerRecord
<1>3. /\ new \in ContainerRecord /\ new.id = FreshId /\ new.image = supervisor.image
      /\ new.name = "agent" /\ ~new.running
  BY <1>2 DEF ContainerRecord, RolloutTypeOK
<1>4. \/ /\ containers' = {c, new} /\ UNCHANGED <<hurt, rolloutFaults>>
         /\ supervisor' = [supervisor EXCEPT !.at = "start", !.new = FreshId]
      \/ /\ containers' \in {{c}, {c, new}} /\ hurt' = hurt \cup {"create"} /\ RolloutFault
         /\ supervisor' = [supervisor EXCEPT !.at = "restore"]
  BY <1>1 DEF CreateNew, Alone
<1> HIDE DEF new
<1>5. SupervisorOK'
  BY <1>2, <1>4 DEF SupervisorOK, Steps, Replacing
<1>6. OrderOK' /\ updateRow'.status = "running"
  <2>1. supervisor'.at \in {"start", "restore"} /\ supervisor'.image = supervisor.image
    BY <1>4 DEF SupervisorOK
  <2> QED
    BY <2>1, OrderKept DEF CreateNew, Replacing
<1>7. RolloutTypeOK'
  <2>1. rolloutFaults' \in 0 .. MaxRolloutFaults
    BY <1>4 DEF RolloutTypeOK, RolloutFault
  <2>2. ContainersTyped'
    BY <1>1, <1>2, <1>3, <1>4 DEF ContainersTyped
  <2> QED
    BY <1>5, <2>1, <2>2 DEF CreateNew, RolloutTypeOK, SupervisorOK, ContainersTyped, ContainerRecord
<1>8. ContainersOK'
  <2>1. CASE At("start")'
    <3>1. /\ supervisor'.new = FreshId /\ supervisor'.old = c.id /\ supervisor'.at = "start"
          /\ supervisor'.image = supervisor.image /\ containers' = {c, new}
      BY <1>1, <1>4, <2>1 DEF SupervisorOK, Alone
    <3>2. PICK d : d = new
      OBVIOUS
    <3>3. Beside(c, d)' /\ c \in containers' /\ d \in containers'
      BY <1>1, <1>2, <1>3, <3>1, <3>2 DEF Beside
    <3> QED
      BY <3>1, <3>3 DEF ContainersOK
  <2>2. CASE At("restore")'
    <3>1. /\ c.id = supervisor'.old /\ c \in containers' /\ containers' \subseteq {c, new}
          /\ supervisor'.at = "restore"
      BY <1>1, <1>4, <2>2 DEF SupervisorOK, Alone
    <3>2. Running' = {}
      BY <1>1, <1>3, <3>1
    <3> QED
      BY <3>1, <3>2 DEF ContainersOK
  <2> QED
    BY <1>4, <2>1, <2>2 DEF SupervisorOK
<1>9. RunningOK'
  BY <1>1, <1>3, <1>4, <1>6 DEF RunningOK
<1> QED
  BY <1>5, <1>6, <1>7, <1>8, <1>9

\* Starting or stopping the new container leaves the old one as it is.
LEMMA NewChanged ==
    ASSUME RolloutInv, NEW c, NEW d, Beside(c, d)
    PROVE  /\ \E e \in ContainerRecord :
                /\ Change(supervisor.new, "running", TRUE) = {c, e}
                /\ e.id = d.id /\ e.name = d.name /\ e.image = d.image /\ e.running
           /\ \E e \in ContainerRecord :
                /\ Change(supervisor.new, "running", FALSE) = {c, e}
                /\ e.id = d.id /\ e.name = d.name /\ e.image = d.image /\ ~e.running
<1> DEFINE up == [d EXCEPT !["running"] = TRUE]
           down == [d EXCEPT !["running"] = FALSE]
<1>1. c \in ContainerRecord /\ d \in ContainerRecord
  BY DEF RolloutInv, RolloutTypeOK, ContainerRecord, Beside
<1>2. up \in ContainerRecord /\ up.id = d.id /\ up.name = d.name /\ up.image = d.image /\ up.running
  BY <1>1 DEF ContainerRecord
<1>3. /\ down \in ContainerRecord /\ down.id = d.id /\ down.name = d.name /\ down.image = d.image
      /\ ~down.running
  BY <1>1 DEF ContainerRecord
<1>4. /\ Change(supervisor.new, "running", TRUE) = {c, up}
      /\ Change(supervisor.new, "running", FALSE) = {c, down}
  BY DEF Beside, Change
<1> HIDE DEF up, down
<1> QED
  BY <1>2, <1>3, <1>4

LEMMA StartStep == ASSUME RolloutInv, StartNew PROVE RolloutInv'
<1> USE DEF RolloutInv, At, Running, Exists, Unhurt, Undone
<1>1. PICK c \in containers, d \in containers : Beside(c, d)
  BY DEF ContainersOK, StartNew, Docker
<1>2. PICK e \in ContainerRecord :
         /\ Change(supervisor.new, "running", TRUE) = {c, e}
         /\ e.id = d.id /\ e.name = d.name /\ e.image = d.image /\ e.running
  BY <1>1, NewChanged
<1>3. Docker("start", {c, e}, "check") /\ "start" \in Replacing /\ "check" \in Replacing
  BY <1>2 DEF StartNew, Replacing
<1>4. RolloutTypeOK'
  BY <1>1, <1>2, <1>3, DockerCall DEF Beside, ContainersTyped, ContainerRecord, RolloutTypeOK
<1>5. PICK g : g \in {d, e} /\ containers' = {c, g}
  BY <1>1, <1>3, DockerCall DEF Beside
<1>6. Beside(c, g)' /\ c \in containers' /\ g \in containers'
  BY <1>1, <1>2, <1>3, <1>5, DockerCall DEF Beside
<1>7. \A x \in Running' : x.id = supervisor'.new
  BY <1>1, <1>5, <1>6 DEF Beside
<1>8. ContainersOK'
  <2>1. supervisor'.at \in {"check", "undo"} /\ supervisor'.new # 0
    BY <1>1, <1>3, DockerCall DEF Beside, RolloutTypeOK
  <2> QED
    BY <1>6, <1>7, <2>1 DEF ContainersOK
<1>9. RunningOK'
  BY <1>5, <1>6, <1>3, DockerCall DEF RunningOK, Beside
<1> QED
  BY <1>3, <1>4, <1>8, <1>9, DockerCall

\* The new one stays up, or does not.
LEMMA CheckStep == ASSUME RolloutInv, NewStays \/ NewFails PROVE RolloutInv'
<1> USE DEF RolloutInv, At, Running, Exists, Unhurt, Undone, Goes
<1>1. PICK c \in containers, d \in containers : Beside(c, d)
  BY DEF ContainersOK, NewStays, NewFails
<1>2. OrderOK' /\ updateRow'.status = "running"
  <2>1. supervisor'.at \in {"remove", "undo"} /\ supervisor'.image = supervisor.image
    BY DEF NewStays, NewFails, SupervisorOK
  <2> QED
    BY <2>1, OrderKept DEF NewStays, NewFails, Replacing
<1>3. SupervisorOK'
  BY DEF NewStays, NewFails, SupervisorOK, Steps, Replacing
<1>4. /\ supervisor'.image = supervisor.image /\ supervisor'.old = supervisor.old
      /\ supervisor'.new = supervisor.new
  BY DEF NewStays, NewFails, SupervisorOK
<1>5. CASE NewStays
  <2>1. d.running
    BY <1>1, <1>5 DEF NewStays, Container, Beside, RolloutTypeOK
  <2>2. RolloutTypeOK'
    BY <1>4, <1>5 DEF NewStays, RolloutTypeOK
  <2>3. Beside(c, d)' /\ supervisor'.at = "remove"
    BY <1>1, <1>4, <1>5 DEF NewStays, Beside, SupervisorOK
  <2>4. ContainersOK'
    BY <1>1, <1>5, <2>1, <2>3 DEF ContainersOK, NewStays
  <2>5. RunningOK'
    BY <1>5, <1>2 DEF RunningOK, NewStays
  <2> QED
    BY <1>2, <1>3, <2>2, <2>4, <2>5
<1>6. CASE NewFails
  <2>1. PICK e \in ContainerRecord :
           /\ Change(supervisor.new, "running", FALSE) = {c, e}
           /\ e.id = d.id /\ e.name = d.name /\ e.image = d.image /\ ~e.running
    BY <1>1, NewChanged
  <2>2. containers' = {c, e} /\ supervisor'.at = "undo" /\ supervisor'.new # 0
    <3>1. supervisor.new # 0
      BY <1>1 DEF Beside, RolloutTypeOK
    <3> QED
      BY <1>4, <1>6, <2>1, <3>1 DEF NewFails, SupervisorOK
  <2>3. RolloutTypeOK'
    <3>1. ContainersTyped'
      BY <1>1, <2>1, <2>2 DEF ContainersTyped, ContainerRecord, RolloutTypeOK, Beside
    <3> QED
      BY <1>4, <1>6, <3>1, ZenonT(40) DEF NewFails, RolloutTypeOK, ContainersTyped, ContainerRecord
  <2>4. Beside(c, e)' /\ c \in containers' /\ e \in containers' /\ Running' = {}
    BY <1>1, <1>4, <2>1, <2>2 DEF Beside
  <2>5. ContainersOK' /\ RunningOK'
    BY <1>2, <2>2, <2>4 DEF ContainersOK, RunningOK
  <2> QED
    BY <1>2, <1>3, <2>3, <2>5
<1> QED
  BY <1>5, <1>6

\* The old one is removed, and the update has succeeded.
LEMMA RemoveStep == ASSUME RolloutInv, RemoveOld PROVE RolloutInv'
<1> USE DEF RolloutInv, At, Running, Exists, Unhurt, Undone, Goes, Concludes, RolloutFault
<1>1. PICK c \in containers, d \in containers : Beside(c, d) /\ d.running
  BY DEF ContainersOK, RemoveOld
<1>2. {x \in containers : x.id # supervisor.old} = {d}
  BY <1>1 DEF Beside
<1>3. \/ /\ containers' = {d} /\ UNCHANGED <<hurt, rolloutFaults>>
         /\ supervisor' = [supervisor EXCEPT !.at = "report", !.outcome = "succeeded"]
      \/ /\ containers' \in {{c, d}, {d}} /\ hurt' = hurt \cup {"remove"} /\ RolloutFault
         /\ supervisor' = [supervisor EXCEPT !.at = "undo"]
  BY <1>1, <1>2 DEF RemoveOld, Beside
<1>4. /\ supervisor'.image = supervisor.image /\ supervisor'.old = supervisor.old
      /\ supervisor'.new = supervisor.new /\ SupervisorOK'
  BY <1>3 DEF SupervisorOK, Steps, Replacing
<1>5. OrderOK' /\ updateRow'.status = "running"
  <2>1. supervisor'.at \in {"report", "undo"}
    BY <1>3 DEF SupervisorOK
  <2> QED
    BY <1>4, <2>1, OrderKept DEF RemoveOld, Replacing
<1>6. RolloutTypeOK'
  <2>1. rolloutFaults' \in 0 .. MaxRolloutFaults
    BY <1>3 DEF RolloutTypeOK
  <2>2. containers' \subseteq containers
    BY <1>3
  <2> QED
    BY <1>4, <2>1, <2>2 DEF RolloutTypeOK, RemoveOld
<1>7. Running' = {d} /\ d.id = supervisor.new /\ d.image = supervisor.image /\ supervisor.new # 0
  BY <1>1, <1>3 DEF Beside, RolloutTypeOK
<1>8. ContainersOK'
  <2>1. CASE At("report")'
    BY <1>3, <1>4, <1>7, <2>1, ZenonT(40) DEF ContainersOK, SupervisorOK
  <2>2. CASE At("undo")'
    BY <1>3, <1>4, <1>7, <2>2 DEF ContainersOK, SupervisorOK
  <2> QED
    BY <1>3, <2>1, <2>2 DEF SupervisorOK
<1>9. RunningOK'
  BY <1>5, <1>7 DEF RunningOK
<1> QED
  BY <1>4, <1>5, <1>6, <1>8, <1>9

\* The rollback: the new container goes first, ...
LEMMA UndoStep == ASSUME RolloutInv, UndoNew PROVE RolloutInv'
<1> USE DEF RolloutInv, At, Running, Exists, Unhurt, Undone, Goes, RolloutFault
<1>1. /\ supervisor' = [supervisor EXCEPT !.at = "restore"]
      /\ \/ /\ containers' = IF supervisor.new # 0
                               THEN {c \in containers : c.id # supervisor.new} ELSE containers
            /\ UNCHANGED <<hurt, rolloutFaults>>
         \/ /\ containers' \in {containers, {c \in containers : c.id # supervisor.new}}
            /\ hurt' = hurt \cup {"undo"} /\ RolloutFault
  BY DEF UndoNew
<1>2. /\ supervisor'.image = supervisor.image /\ supervisor'.old = supervisor.old
      /\ supervisor'.new = supervisor.new /\ supervisor'.at = "restore" /\ SupervisorOK'
  BY <1>1 DEF SupervisorOK, Steps, Replacing
<1>3. OrderOK' /\ updateRow'.status = "running"
  BY <1>2, OrderKept DEF UndoNew, Replacing
<1>4. RolloutTypeOK'
  <2>1. rolloutFaults' \in 0 .. MaxRolloutFaults
    BY <1>1 DEF RolloutTypeOK
  <2>2. containers' \subseteq containers
    BY <1>1
  <2> QED
    BY <1>2, <2>1, <2>2 DEF RolloutTypeOK, UndoNew
<1>5. Undone' => \A c \in Running' : c.id = supervisor.old
  BY <1>1 DEF ContainersOK, UndoNew, Alone
<1>6. Unhurt' => \E c \in containers' : c.id = supervisor.old
  BY <1>1 DEF ContainersOK, UndoNew, Beside
<1>7. ContainersOK' /\ RunningOK'
  BY <1>2, <1>3, <1>4, <1>5, <1>6 DEF ContainersOK, RunningOK, RolloutTypeOK
<1> QED
  BY <1>2, <1>3, <1>4, <1>7

\* ... then the old one has its name back, ...
LEMMA RestoreStep == ASSUME RolloutInv, RestoreOld PROVE RolloutInv'
<1> USE DEF RolloutInv, At, Running, Exists, Unhurt, Undone, Goes, Concludes, RolloutFault
<1>1. \/ /\ containers' = Change(supervisor.old, "name", "agent") /\ Holder("agent") = {}
         /\ supervisor' = [supervisor EXCEPT !.at = "restart"]
         /\ UNCHANGED <<hurt, rolloutFaults>>
      \/ /\ \/ containers' = containers
            \/ containers' = Change(supervisor.old, "name", "agent") /\ Holder("agent") = {}
         /\ hurt' = hurt \cup {"restore"}
         /\ supervisor' = [supervisor EXCEPT !.at = "report", !.outcome = "failed"]
         /\ RolloutFault \/ UNCHANGED rolloutFaults
  BY DEF RestoreOld
<1>2. /\ supervisor'.image = supervisor.image /\ supervisor'.old = supervisor.old
      /\ supervisor'.new = supervisor.new /\ SupervisorOK'
      /\ supervisor'.at \in {"restart", "report"}
      /\ supervisor'.at = "report" => supervisor'.outcome = "failed" /\ ~Unhurt'
  BY <1>1 DEF SupervisorOK, Steps, Replacing
<1>3. OrderOK' /\ updateRow'.status = "running"
  <2>1. supervisor.at \in Replacing /\ UNCHANGED <<node, updateRow, provision, busy>>
        /\ supervisor'.at \in Replacing \cup {"report"}
    BY <1>2 DEF RestoreOld, Replacing
  <2> QED
    BY <1>2, <2>1, OrderKept
<1>4. RolloutTypeOK'
  <2>1. rolloutFaults' \in 0 .. MaxRolloutFaults
    BY <1>1, FaultsType
  <2>2. ContainersTyped'
    BY <1>1, Changed DEF ContainersTyped, ContainerRecord, RolloutTypeOK
  <2> QED
    BY <1>2, <2>1, <2>2 DEF RolloutTypeOK, RestoreOld, ContainersTyped, ContainerRecord
<1>5. /\ \A e \in containers' : \E c \in containers : e.id = c.id /\ e.running = c.running
      /\ \A c \in containers : \E e \in containers' : e.id = c.id
  <2> DEFINE To(c) == IF c.id = supervisor.old THEN [c EXCEPT !["name"] = "agent"] ELSE c
  <2>1. containers' = containers \/ containers' = {To(c) : c \in containers}
    BY <1>1 DEF Change
  <2>2. \A c \in containers : To(c).id = c.id /\ To(c).running = c.running
    BY DEF RolloutTypeOK
  <2> HIDE DEF To
  <2> QED
    BY <2>1, <2>2
<1>6. hurt \subseteq hurt'
  BY <1>1
<1>7. /\ Undone => \A c \in Running : c.id = supervisor.old
      /\ Unhurt => \E c \in containers : c.id = supervisor.old
  BY DEF ContainersOK, RestoreOld
<1>8. /\ Undone' => \A c \in Running' : c.id = supervisor.old
      /\ Unhurt' => \E c \in containers' : c.id = supervisor.old
  BY <1>5, <1>6, <1>7
<1>9. ContainersOK'
  BY <1>2, <1>8 DEF ContainersOK
<1>10. RunningOK'
  BY <1>3, <1>4, <1>8 DEF RunningOK, RolloutTypeOK
<1> QED
  BY <1>2, <1>3, <1>4, <1>9, <1>10

\* ... and runs again.
LEMMA RestartStep == ASSUME RolloutInv, RestartOld PROVE RolloutInv'
<1> USE DEF RolloutInv, At, Running, Exists, Unhurt, Undone, Goes, Concludes, RolloutFault
<1>1. /\ supervisor' = [supervisor EXCEPT !.at = "report", !.outcome = "failed"]
      /\ \/ containers' = Change(supervisor.old, "running", TRUE) /\ UNCHANGED <<hurt, rolloutFaults>>
         \/ /\ containers' \in {containers, Change(supervisor.old, "running", TRUE)}
            /\ hurt' = hurt \cup {"restore"} /\ RolloutFault
  BY DEF RestartOld
<1>2. /\ supervisor'.image = supervisor.image /\ supervisor'.old = supervisor.old
      /\ supervisor'.new = supervisor.new /\ SupervisorOK'
      /\ supervisor'.at = "report" /\ supervisor'.outcome = "failed"
  BY <1>1 DEF SupervisorOK, Steps, Replacing
<1>3. OrderOK' /\ updateRow'.status = "running"
  <2>1. supervisor.at \in Replacing /\ UNCHANGED <<node, updateRow, provision, busy>>
        /\ supervisor'.at \in Replacing \cup {"report"}
    BY <1>2 DEF RestartOld, Replacing
  <2> QED
    BY <1>2, <2>1, OrderKept
<1>4. ASSUME containers' = Change(supervisor.old, "running", TRUE)
      PROVE  /\ ContainersTyped'
             /\ \A e \in containers' : e.running => e.id = supervisor.old \/ \E c \in Running : e = c
             /\ \A c \in containers : c.id = supervisor.old => Running' # {}
  <2> DEFINE To(c) == IF c.id = supervisor.old THEN [c EXCEPT !["running"] = TRUE] ELSE c
  <2>1. containers' = {To(c) : c \in containers}
    BY <1>4 DEF Change
  <2>2. ASSUME NEW c \in containers
        PROVE  /\ To(c) \in ContainerRecord /\ To(c).id = c.id /\ To(c).name = c.name
               /\ c.id = supervisor.old => To(c).running
               /\ c.id # supervisor.old => To(c) = c
    <3>1. PICK d \in ContainerRecord : d = c
      BY <2>2 DEF RolloutTypeOK, ContainerRecord
    <3>2. CASE d.id = supervisor.old
      <4>1. To(c) = [d EXCEPT !["running"] = TRUE]
        BY <3>1, <3>2
      <4>2. PICK e : e = [d EXCEPT !["running"] = TRUE]
        OBVIOUS
      <4>3. e \in ContainerRecord /\ e.id = d.id /\ e.name = d.name /\ e.running
        BY <4>2 DEF ContainerRecord
      <4> HIDE DEF To
      <4> QED
        BY <3>1, <3>2, <4>1, <4>2, <4>3
    <3>3. CASE d.id # supervisor.old
      BY <3>1, <3>3
    <3> QED
      BY <3>2, <3>3
  <2> HIDE DEF To
  <2>3. ContainersTyped'
    BY <2>1, <2>2 DEF ContainersTyped, RolloutTypeOK
  <2>4. \A e \in containers' : e.running => e.id = supervisor.old \/ \E c \in Running : e = c
    BY <2>1, <2>2
  <2>5. \A c \in containers : c.id = supervisor.old => Running' # {}
    BY <2>1, <2>2
  <2> QED
    BY <2>3, <2>4, <2>5
<1>5. RolloutTypeOK'
  <2>1. rolloutFaults' \in 0 .. MaxRolloutFaults
    BY <1>1, FaultsType
  <2>2. ContainersTyped'
    BY <1>1, <1>4 DEF ContainersTyped, ContainerRecord, RolloutTypeOK
  <2> QED
    BY <1>2, <2>1, <2>2 DEF RolloutTypeOK, RestartOld, ContainersTyped, ContainerRecord
<1>6. /\ Undone => \A c \in Running : c.id = supervisor.old
      /\ Unhurt => \E c \in containers : c.id = supervisor.old
  BY DEF ContainersOK, RestartOld
<1>7. Unhurt' => Running' # {}
  BY <1>1, <1>4, <1>6
<1>8. Undone' => \A c \in Running' : c.id = supervisor.old
  <2>1. Undone' => Undone
    BY <1>1
  <2>2. \A e \in Running' : e.id = supervisor.old \/ e \in Running
    BY <1>1, <1>4
  <2> QED
    BY <1>6, <2>1, <2>2
<1>9. ContainersOK'
  BY <1>2, <1>7 DEF ContainersOK
<1>10. RunningOK'
  BY <1>3, <1>5, <1>8 DEF RunningOK, RolloutTypeOK
<1> QED
  BY <1>2, <1>3, <1>5, <1>9, <1>10

\* The agent of the platform is created and withdrawn.
LEMMA PlatformSteps == ASSUME RolloutInv, CreatePlatformAgent \/ RemovePlatformAgent PROVE RolloutInv'
<1> USE DEF RolloutInv, At, Running, Exists, Unhurt, Undone, RolloutFault
<1>1. supervisor' = Resting /\ UNCHANGED <<node, updateRow, busy, hurt>> /\ SupervisorOK'
  BY DEF CreatePlatformAgent, RemovePlatformAgent, Resting, SupervisorOK, Steps, Replacing
<1>2. rolloutFaults' \in 0 .. MaxRolloutFaults
  BY DEF CreatePlatformAgent, RemovePlatformAgent, RolloutTypeOK
<1>3. CASE CreatePlatformAgent
  <2> DEFINE made(up) == [id |-> FreshId, image |-> 0, name |-> "agent", running |-> up]
  <2>1. containers = {} /\ updateRow.status = "none" /\ provision.create # "queued"
    BY <1>3 DEF CreatePlatformAgent, OrderOK
  <2>2. FreshId \in ContainerId
    <3>1. 1 \in ContainerId
      OBVIOUS
    <3> QED
      BY <2>1, <3>1, FreshIsNew
  <2>3. made(TRUE) \in ContainerRecord /\ made(FALSE) \in ContainerRecord
    BY <2>2 DEF ContainerRecord
  <2>4. containers' \in {{}, {made(TRUE)}, {made(FALSE)}}
    BY <1>3 DEF CreatePlatformAgent
  <2> HIDE DEF made
  <2>5. ContainersTyped' /\ (\A c, d \in containers' : c = d)
    BY <2>3, <2>4 DEF ContainersTyped
  <2>6. provision' \in [{"create", "remove"} -> {"none", "queued", "running", "succeeded", "failed"}]
        /\ provision'.create \in {"succeeded", "failed"} /\ provision'.remove = provision.remove
    BY <1>3 DEF CreatePlatformAgent, RolloutTypeOK
  <2>7. RolloutTypeOK'
    BY <1>1, <1>2, <2>5, <2>6 DEF RolloutTypeOK, ContainersTyped, ContainerRecord, Resting
  <2>8. provision.remove # "succeeded"
    BY <1>3 DEF CreatePlatformAgent, OrderOK
  <2>9. OrderOK'
    BY <1>1, <2>1, <2>6, <2>8 DEF OrderOK, Resting, Replacing
  <2>10. ContainersOK' /\ RunningOK'
    BY <1>1, <2>1, <2>5 DEF ContainersOK, RunningOK, Resting
  <2> QED
    BY <1>1, <2>7, <2>9, <2>10
<1>4. CASE RemovePlatformAgent
  <2>1. containers' \subseteq containers /\ (provision'.remove = "succeeded" => containers' = {})
    BY <1>4 DEF RemovePlatformAgent, RolloutTypeOK
  <2>2. provision' \in [{"create", "remove"} -> {"none", "queued", "running", "succeeded", "failed"}]
        /\ provision'.create = provision.create
    BY <1>4 DEF RemovePlatformAgent, RolloutTypeOK
  <2>3. provision.create # "queued" /\ ~node.active
    BY <1>4 DEF RemovePlatformAgent, OrderOK
  <2>4. RolloutTypeOK'
    BY <1>1, <1>2, <2>1, <2>2 DEF RolloutTypeOK, Resting
  <2>5. OrderOK'
    BY <1>1, <2>1, <2>2, <2>3 DEF OrderOK, Resting, Replacing
  <2>6. ContainersOK' /\ RunningOK'
    BY <1>1, <2>1, <2>3 DEF ContainersOK, RunningOK, Resting
  <2> QED
    BY <1>1, <2>4, <2>5, <2>6
<1> QED
  BY <1>3, <1>4

-----------------------------------------------------------------------------
(* What follows *)

LEMMA RolloutInvInit == RolloutInit => RolloutInv
<1> SUFFICES ASSUME RolloutInit PROVE RolloutInv
  OBVIOUS
<1> USE DEF Resting, At, Running, Exists, Unhurt, Undone, Steps, Replacing
<1>1. RolloutTypeOK /\ SupervisorOK
  <2>1. SupervisorOK
    BY DEF RolloutInit, SupervisorOK
  <2>2. node \in [platform : BOOLEAN, active : BOOLEAN]
    <3>1. PICK p \in BOOLEAN : node = [platform |-> p, active |-> TRUE]
      BY DEF RolloutInit
    <3> QED
      BY <3>1
  <2>3. provision \in [{"create", "remove"} -> {"none", "queued", "running", "succeeded", "failed"}]
    BY DEF RolloutInit
  <2>4. ContainersTyped /\ \A c, d \in containers : c = d
    <3>1. [id |-> 1, image |-> 0, name |-> "agent", running |-> TRUE] \in ContainerRecord
      BY DEF ContainerRecord
    <3>2. \/ containers = {}
          \/ containers = {[id |-> 1, image |-> 0, name |-> "agent", running |-> TRUE]}
      BY DEF RolloutInit
    <3> QED
      BY <3>1, <3>2 DEF ContainersTyped
  <2>5. /\ updateRow \in [status : {"none", "queued", "running", "succeeded", "failed"}, image : Image]
        /\ busy \in BOOLEAN /\ rolloutFaults \in 0 .. MaxRolloutFaults
    <3>1. updateRow = [status |-> "none", image |-> 0] /\ rolloutFaults = 0
      BY DEF RolloutInit
    <3>2. busy \in BOOLEAN
      BY Zenon DEF RolloutInit
    <3> QED
      BY <3>1, <3>2
  <2> QED
    BY <2>1, <2>2, <2>3, <2>4, <2>5 DEF RolloutTypeOK, SupervisorOK, ContainersTyped, ContainerRecord
<1>2. OrderOK /\ ContainersOK /\ RunningOK
  BY DEF RolloutInit, OrderOK, ContainersOK, RunningOK
<1> QED
  BY <1>1, <1>2 DEF RolloutInv

LEMMA RolloutInvNext == RolloutInv /\ [RolloutNext]_rolloutVars => RolloutInv'
<1> SUFFICES ASSUME RolloutInv, [RolloutNext]_rolloutVars PROVE RolloutInv'
  OBVIOUS
<1>1. CASE UNCHANGED rolloutVars
  BY <1>1 DEF rolloutVars, RolloutInv, RolloutTypeOK, SupervisorOK, OrderOK, ContainersOK, RunningOK,
              At, Running, Exists, Unhurt, Undone, Alone, Beside
<1>2. CASE RolloutNext
  BY <1>2, HubSteps, BeginStep, StopStep, RenameStep, CreateStep, StartStep, CheckStep, RemoveStep,
     UndoStep, RestoreStep, RestartStep, PlatformSteps DEF RolloutNext
<1> QED
  BY <1>1, <1>2

\* Rows, containers and counters keep their types; no two containers of the node share a
\* number or a name.
THEOREM RolloutTypeCorrect == RolloutSpec => []RolloutTypeOK
<1>1. RolloutInv => RolloutTypeOK
  BY DEF RolloutInv
<1> QED
  BY RolloutInvInit, RolloutInvNext, <1>1, PTL DEF RolloutSpec

\* Two agents of a node never run side by side, for any number of updates and failures,
\* unless the rollback itself could not remove the replacement.
THEOREM NeverTwoAgents == RolloutSpec => []OneAgentRuns
<1>1. RolloutInv => OneAgentRuns
  <2> SUFFICES ASSUME RolloutInv, Undone PROVE ~(Cardinality(Running) > 1)
    BY DEF OneAgentRuns, Undone
  <2>1. \A c, d \in Running : c = d
    BY DEF RolloutInv, RunningOK
  <2>2. CASE Running = {}
    BY <2>2, FS_EmptySet
  <2>3. ASSUME NEW c \in Running PROVE ~(Cardinality(Running) > 1)
    <3>1. Running = {c}
      BY <2>1
    <3> QED
      BY <3>1, FS_Singleton
  <2> QED
    BY <2>2, <2>3
<1> QED
  BY RolloutInvInit, RolloutInvNext, <1>1, PTL DEF RolloutSpec

\* An update that failed leaves the node with a running agent, unless a call failed that
\* the rollback cannot make good.
THEOREM FailedUpdateServes == RolloutSpec => []RollbackServes
<1>1. RolloutInv => RollbackServes
  BY DEF RolloutInv, ContainersOK, RollbackServes, Unhurt
<1> QED
  BY RolloutInvInit, RolloutInvNext, <1>1, PTL DEF RolloutSpec

\* A platform agent that was withdrawn leaves no container behind.
THEOREM WithdrawnLeavesNothing == RolloutSpec => []WithdrawnIsGone
<1>1. RolloutInv => WithdrawnIsGone
  BY DEF RolloutInv, OrderOK, WithdrawnIsGone
<1> QED
  BY RolloutInvInit, RolloutInvNext, <1>1, PTL DEF RolloutSpec

\* An update the hub shows as done left the node with one container, of the new image,
\* running.
THEOREM DoneUpdateRuns == RolloutSpec => SucceededRuns
<1> DEFINE One == updateRow.status = "running" /\ updateRow'.status = "succeeded" =>
                     \E c \in containers :
                        containers = {c} /\ c.running /\ c.image = updateRow.image
<1>1. RolloutInv /\ [RolloutNext]_rolloutVars => [One]_rolloutVars
  <2> SUFFICES ASSUME RolloutInv, RolloutNext,
                      updateRow.status = "running", updateRow'.status = "succeeded"
               PROVE  \E c \in containers :
                         containers = {c} /\ c.running /\ c.image = updateRow.image
    OBVIOUS
  <2> USE DEF RolloutInv, RolloutTypeOK
  <2>1. At("report") /\ supervisor.outcome = "succeeded"
    BY DEF RolloutNext, RequestUpdate, EndPlatformAgent, JobsComeAndGo, UpdateNext, UpdateNextLost,
           ReportUpdate, ReportUpdateLost, StopOld, RenameOld, CreateNew, StartNew, NewStays,
           NewFails, RemoveOld, UndoNew, RestoreOld, RestartOld, SupervisorDies, ProvisionNext,
           ProvisionNextLost, CreatePlatformAgent, RemovePlatformAgent, Docker
  <2>2. supervisor.image = updateRow.image
    BY <2>1 DEF OrderOK
  <2> QED
    BY <2>1, <2>2 DEF ContainersOK
<1> QED
  BY RolloutInvInit, RolloutInvNext, <1>1, PTL DEF RolloutSpec, SucceededRuns

====
