----------------------- MODULE ConstructionPlan_proofs ------------------------
(***************************************************************************)
(* Proofs about ConstructionPlan, for every city, number of cycles and of  *)
(* the operator's requests.                                                *)
(***************************************************************************)
EXTENDS ConstructionPlan, NumberLemmas, FiniteSetTheorems, TLAPS

-----------------------------------------------------------------------------
(* The invariant *)

CycleStatus == {"none", "queued", "scheduled", "running", "finished", "error", "cancelled"}
CycleRecord == [status : CycleStatus, source : {0} \cup Cycle, inputs : Inputs, sent : Inputs]
BuilderAt == {"idle", "working", "syncing", "last_sync", "rescheduling", "ending"}
BuilderRecord == [at : BuilderAt, cycle : {0} \cup Cycle, goal : [Building -> Level],
                  idx : [Building -> {0} \cup StepIndex], ignored : SUBSET StepIndex,
                  started : SUBSET Building]

\* A step has an index, and an index a step.
Fits(p) == \A b \in Building : p.idx[b] = 0 <=> p.goal[b] = 0
\* Inputs with at most one patch, and a patch that fits too.
InputsFit(i) ==
    /\ i \in Inputs /\ Fits(i)
    /\ i.patch = {} \/ \E p \in i.patch : i.patch = {p}
    /\ \A p \in i.patch : Fits(p)

ShapeOK ==
    /\ level \in [Building -> Level] /\ asked \in [Building -> Level] /\ refused \subseteq Building
    /\ cycle \in [Cycle -> CycleRecord]
    /\ \A j \in Cycle : InputsFit(cycle[j].inputs) /\ InputsFit(cycle[j].sent)
    /\ reserved \subseteq Cycle
    /\ builder \in BuilderRecord /\ Fits(builder)
    /\ editing \in Request /\ InputsFit(editing.base) /\ InputsFit(editing.inputs)
    /\ merging \in Request /\ InputsFit(merging.base) /\ InputsFit(merging.inputs)
    /\ planEvents \in 0 .. MaxPlanEvents

Cycles == {j \in Cycle : cycle[j].status # "none"}
FollowUps(j) == {k \in Cycle : cycle[k].source = j}
Here == builder.cycle
Without(causes) == planTrouble \cap causes = {}

\* Cycles are numbered as they come, each after its source.
CountedOK ==
    /\ \E n \in Cycle : Cycles = 1 .. n
    /\ \A j \in Cycle : cycle[j].source < j
    /\ \A j \in Cycle : cycle[j].source # 0 => cycle[j].source \in Cycles /\ j \in Cycles

\* A cycle has a follow-up only once it has run, its own agent not before "ending"; ...
FollowUpsOK ==
    /\ \A j \in Cycle : cycle[j].status \in {"queued", "scheduled"} => FollowUps(j) = {}
    /\ builder.at = "idle" => builder = AtRest
    /\ builder.at # "idle" => Here \in Cycle /\ cycle[Here].status \in {"running", "cancelled"}
    /\ builder.at \notin {"idle", "ending"} => FollowUps(Here) = {}

\* ... and unless the plan was forked, a live cycle without follow-up is the newest.
LeafOK == Without({"forked"}) => \A j \in LivePlan : j = Newest \/ FollowUps(j) # {}

\* What a request in flight writes.
RequestsOK ==
    /\ editing.at \in {"none", "saving"}
    /\ editing.at = "saving" => editing.target \in Cycles
    /\ merging.at # "none" => merging.target \in Cycles
    /\ \A p \in editing.inputs.patch : p.goal = editing.inputs.goal

\* A pending patch is the plan itself.
PatchOK ==
    Without({"patched"}) =>
        \A j \in Cycle : \A p \in cycle[j].inputs.patch : p.goal = cycle[j].inputs.goal

\* What is reserved while nothing went wrong.
Troubles == {"error", "skipped", "unsynced", "moved", "reserved_late", "lost", "forked"}
MovedOK == Without({"moved"}) => reserved \subseteq {PlanRoot}
ReservedOK ==
    Without(Troubles) =>
        /\ LivePlan = {} => reserved = {}
        /\ builder.at = "ending" /\ cycle[Here].status = "running" =>
              \/ FollowUps(Here) = {} /\ reserved = {}
              \/ FollowUps(Here) # {} /\ cycle[Newest].status \in {"queued", "scheduled"}

\* Without a merge, an index stays that of the step that had it when the plan was created.
OneToOne(original) ==
    \A b, c \in Building : original[b] = original[c] /\ original[b] # 0 => b = c
Lower(goal, than) == \A b \in Building : goal[b] <= than[b]
Keeps(original, p) == \A b \in Building : p.idx[b] \in {0, original[b]}
AsideFor(original, goal, ignored) ==
    \A b \in Building : original[b] # 0 /\ original[b] \in ignored => b \in refused \/ goal[b] <= level[b]
InputsKeep(original, i) ==
    /\ Keeps(original, i) /\ AsideFor(original, i.goal, i.ignored)
    /\ \A p \in i.patch : Keeps(original, p) /\ p.goal = i.goal
Numbered(original) ==
    /\ OneToOne(original)
    /\ \A j \in Cycle : /\ InputsKeep(original, cycle[j].inputs) /\ InputsKeep(original, cycle[j].sent)
                        /\ Lower(cycle[j].inputs.goal, cycle[j].sent.goal)
    /\ Keeps(original, builder) /\ AsideFor(original, builder.goal, builder.ignored)
    /\ builder.at # "idle" => Lower(cycle[Here].inputs.goal, builder.goal)
    /\ InputsKeep(original, editing.inputs)
    /\ editing.at = "saving" => /\ cycle[editing.target].inputs = editing.base
                                /\ Lower(editing.inputs.goal, editing.base.goal)
AsideOK ==
    Without({"merged"}) => \E original \in [Building -> {0} \cup StepIndex] : Numbered(original)

PlanInv ==
    /\ ShapeOK /\ CountedOK /\ FollowUpsOK /\ LeafOK /\ RequestsOK /\ PatchOK
    /\ MovedOK /\ ReservedOK /\ ChangesKept /\ AsideOK

USE PlanAssumption DEF PlanAssumption, Cycle, Level, PlanRoot

-----------------------------------------------------------------------------
(* Plans and inputs *)

LEMMA Buildings == Cardinality(Building) \in Nat \ {0}
BY FS_CardinalityType, FS_EmptySet

\* The goals and indices of inputs.
LEMMA InputsTyped ==
    ASSUME NEW i \in Inputs
    PROVE  /\ i.goal \in [Building -> Level] /\ i.idx \in [Building -> {0} \cup StepIndex]
           /\ i.ignored \in SUBSET StepIndex /\ i.patch \in SUBSET PlanList
BY DEF Inputs

LEMMA NoInputsFit == InputsFit(NoInputs)
<1>1. NoInputs \in Inputs
  BY DEF NoInputs, Inputs
<1> QED
  BY <1>1 DEF InputsFit, Fits, NoInputs

\* Of n steps each gets an index, as long as there are buildings for them.
LEMMA NumberingsFit ==
    ASSUME NEW s \in SUBSET Building, NEW n \in Nat, n <= Cardinality(Building),
           NEW idx \in Numberings(s, n)
    PROVE  /\ idx \in [Building -> {0} \cup StepIndex]
           /\ \A b \in Building : idx[b] = 0 <=> b \notin s
           /\ \A b, c \in s : idx[b] = idx[c] => b = c
<1>1. idx \in [Building -> 0 .. n]
  BY DEF Numberings
<1>2. \A k \in 0 .. n : k \in {0} \cup StepIndex
  BY Buildings DEF StepIndex
<1>3. idx \in [Building -> {0} \cup StepIndex]
  BY <1>1, <1>2
<1> QED
  BY <1>3 DEF Numberings

\* What a reschedule makes of the inputs: the patch applied, and gone.
LEMMA EffectiveFits ==
    ASSUME NEW i, InputsFit(i)
    PROVE  /\ InputsFit(Effective(i)) /\ Effective(i).ignored = i.ignored
           /\ Effective(i).patch = {}
           /\ (\A p \in i.patch : p.goal = i.goal) => Effective(i).goal = i.goal
           /\ \/ Effective(i) = i
              \/ \E p \in i.patch : Effective(i).idx = p.idx
<1>1. CASE i.patch = {}
  BY <1>1 DEF Effective, InputsFit
<1>2. CASE i.patch # {}
  <2>1. PICK p \in i.patch : i.patch = {p}
    BY <1>2 DEF InputsFit
  <2>2. p = CHOOSE q \in i.patch : TRUE
    BY <2>1
  <2>3. p \in PlanList /\ Fits(p)
    BY <2>1, InputsTyped DEF InputsFit
  <2>4. Effective(i) = [i EXCEPT !.goal = p.goal, !.idx = p.idx, !.patch = {}]
    BY <1>2, <2>2 DEF Effective
  <2>5. i \in Inputs
    BY DEF InputsFit
  <2>6. /\ Effective(i).goal = p.goal /\ Effective(i).idx = p.idx
        /\ Effective(i).patch = {} /\ Effective(i).ignored = i.ignored
    BY <2>4, <2>5 DEF Inputs
  <2>7. Effective(i) \in Inputs
    BY <2>3, <2>4, <2>5 DEF Inputs, PlanList
  <2>8. InputsFit(Effective(i))
    BY <2>3, <2>6, <2>7 DEF InputsFit, Fits
  <2> QED
    BY <2>1, <2>6, <2>8
<1> QED
  BY <1>1, <1>2

\* Putting steps aside leaves the rest of the inputs alone.
Ignoring(i, ignored) == [i EXCEPT !.ignored = ignored]

LEMMA IgnoringFits ==
    ASSUME NEW i, InputsFit(i), NEW ignored \in SUBSET StepIndex
    PROVE  /\ InputsFit(Ignoring(i, ignored)) /\ Ignoring(i, ignored).ignored = ignored
           /\ Ignoring(i, ignored).goal = i.goal /\ Ignoring(i, ignored).idx = i.idx
           /\ Ignoring(i, ignored).patch = i.patch
<1>1. i \in Inputs
  BY DEF InputsFit
<1> DEFINE j == Ignoring(i, ignored)
<1>2. j \in Inputs /\ j.goal = i.goal /\ j.idx = i.idx /\ j.patch = i.patch /\ j.ignored = ignored
  BY <1>1 DEF Inputs, Ignoring
<1> HIDE DEF j
<1>3. InputsFit(j)
  BY <1>2 DEF InputsFit, Fits
<1> QED
  BY <1>2, <1>3 DEF j

\* A plan with new goals and indices, and perhaps a new patch.
Rewrite(i, p, patch) == [i EXCEPT !.goal = p.goal, !.idx = p.idx, !.patch = patch]

LEMMA RewriteFits ==
    ASSUME NEW i, InputsFit(i), NEW p \in PlanList, Fits(p),
           NEW patch, patch = i.patch \/ patch = {p}
    PROVE  /\ InputsFit(Rewrite(i, p, patch))
           /\ Rewrite(i, p, patch).goal = p.goal /\ Rewrite(i, p, patch).idx = p.idx
           /\ Rewrite(i, p, patch).patch = patch /\ Rewrite(i, p, patch).ignored = i.ignored
<1>1. i \in Inputs /\ patch \in SUBSET PlanList
  BY DEF InputsFit, Inputs
<1>2. p.goal \in [Building -> Level] /\ p.idx \in [Building -> {0} \cup StepIndex]
  BY DEF PlanList
<1> DEFINE j == Rewrite(i, p, patch)
<1>3. /\ j \in Inputs /\ j.goal = p.goal /\ j.idx = p.idx /\ j.patch = patch
      /\ j.ignored = i.ignored
  BY <1>1, <1>2 DEF Inputs, Rewrite
<1> HIDE DEF j
<1>4. InputsFit(j)
  BY <1>3 DEF InputsFit, Fits
<1> QED
  BY <1>3, <1>4 DEF j

\* cut_step(): one goal lowered, or its step taken out; all of it the pending patch too.
CutOf(read, b, to, floor) ==
    LET goal == [read.goal EXCEPT ![b] = IF to <= floor THEN 0 ELSE to]
        idx == [read.idx EXCEPT ![b] = IF to <= floor THEN 0 ELSE @] IN
    [read EXCEPT !.goal = goal, !.idx = idx, !.patch = {[goal |-> goal, idx |-> idx]}]

LEMMA CutFits ==
    ASSUME NEW read, InputsFit(read), NEW floor \in Nat,
           NEW b \in Building, NEW to \in Level, to < read.goal[b]
    PROVE  /\ InputsFit(CutOf(read, b, to, floor))
           /\ CutOf(read, b, to, floor).ignored = read.ignored
           /\ Lower(CutOf(read, b, to, floor).goal, read.goal)
           /\ \A c \in Building : CutOf(read, b, to, floor).idx[c] \in {0, read.idx[c]}
           /\ \A p \in CutOf(read, b, to, floor).patch :
                 p.goal = CutOf(read, b, to, floor).goal /\ p.idx = CutOf(read, b, to, floor).idx
<1> DEFINE goal == [read.goal EXCEPT ![b] = IF to <= floor THEN 0 ELSE to]
<1> DEFINE idx == [read.idx EXCEPT ![b] = IF to <= floor THEN 0 ELSE read.idx[b]]
<1> DEFINE p == [goal |-> goal, idx |-> idx]
<1>1. read.goal \in [Building -> Level] /\ read.idx \in [Building -> {0} \cup StepIndex]
  BY InputsTyped DEF InputsFit
<1>2. goal \in [Building -> Level] /\ idx \in [Building -> {0} \cup StepIndex]
  BY <1>1
<1>3. /\ Lower(goal, read.goal) /\ \A c \in Building : idx[c] \in {0, read.idx[c]}
  BY <1>1 DEF Lower
<1>4. \A c \in Building : idx[c] = 0 <=> goal[c] = 0
  <2> TAKE c \in Building
  <2>1. read.idx[c] = 0 <=> read.goal[c] = 0
    BY DEF InputsFit, Fits
  <2>2. CASE c # b
    BY <1>1, <2>1, <2>2
  <2>3. CASE c = b
    BY <1>1, <2>1, <2>3
  <2> QED
    BY <2>2, <2>3
<1> HIDE DEF goal, idx
<1>5. p \in PlanList /\ p.goal = goal /\ p.idx = idx
  BY <1>2 DEF PlanList
<1>6. Fits(p)
  BY <1>4, <1>5 DEF Fits
<1>7. CutOf(read, b, to, floor) = [read EXCEPT !.goal = p.goal, !.idx = p.idx, !.patch = {p}]
  BY DEF CutOf, goal, idx
<1> HIDE DEF p
<1>8. /\ InputsFit(CutOf(read, b, to, floor)) /\ CutOf(read, b, to, floor).goal = goal
      /\ CutOf(read, b, to, floor).idx = idx /\ CutOf(read, b, to, floor).patch = {p}
      /\ CutOf(read, b, to, floor).ignored = read.ignored
  <2>1. PICK patch : patch = {p}
    OBVIOUS
  <2>2. CutOf(read, b, to, floor) = Rewrite(read, p, patch)
    BY <1>7, <2>1 DEF Rewrite
  <2> QED
    BY <1>5, <1>6, <2>1, <2>2, RewriteFits
<1> QED
  BY <1>3, <1>5, <1>8

\* The merged plan: the goals counted again, one step more, and new indices.
MergeOf(read, b, to) == [Repriced(read.goal) EXCEPT ![b] = to]

LEMMA MergeFits ==
    ASSUME level \in [Building -> Level], NEW read, InputsFit(read),
           NEW b \in Building, NEW to \in Level, read.goal[b] = 0, to > level[b],
           NEW idx \in Numberings(Steps(MergeOf(read, b, to)), Cardinality(Steps(read.goal)) + 1)
    PROVE  InputsFit([read EXCEPT !.goal = MergeOf(read, b, to), !.idx = idx])
<1> DEFINE goal == MergeOf(read, b, to)
<1> DEFINE p == [goal |-> goal, idx |-> idx]
<1>1. read.goal \in [Building -> Level] /\ read \in Inputs
  BY InputsTyped DEF InputsFit
<1>2. goal \in [Building -> Level]
  BY <1>1 DEF MergeOf, Repriced
<1>3. /\ Cardinality(Steps(read.goal)) + 1 \in Nat
      /\ Cardinality(Steps(read.goal)) + 1 <= Cardinality(Building)
  <2>1. Steps(read.goal) \in SUBSET Building /\ b \notin Steps(read.goal)
    BY DEF Steps
  <2>2. IsFiniteSet(Steps(read.goal)) /\ Cardinality(Steps(read.goal)) \in Nat
    BY <2>1, FS_Subset, FS_CardinalityType
  <2>3. Cardinality(Steps(read.goal) \cup {b}) = Cardinality(Steps(read.goal)) + 1
    BY <2>1, <2>2, FS_AddElement
  <2>4. Steps(read.goal) \cup {b} \in SUBSET Building
    BY <2>1
  <2> QED
    BY <2>2, <2>3, <2>4, FS_Subset
<1>4. /\ idx \in [Building -> {0} \cup StepIndex]
      /\ \A c \in Building : idx[c] = 0 <=> c \notin Steps(goal)
  <2>1. Steps(goal) \in SUBSET Building
    BY DEF Steps
  <2> QED
    BY <1>3, <2>1, NumberingsFit
<1>5. \A c \in Building : idx[c] = 0 <=> goal[c] = 0
  BY <1>4 DEF Steps
<1> HIDE DEF goal
<1>6. p \in PlanList /\ p.goal = goal /\ p.idx = idx
  BY <1>2, <1>4 DEF PlanList
<1>7. Fits(p)
  BY <1>5, <1>6 DEF Fits
<1>8. Rewrite(read, p, read.patch) = [read EXCEPT !.goal = goal, !.idx = idx]
  BY <1>1, <1>6 DEF Inputs, Rewrite
<1> HIDE DEF p
<1>9. InputsFit(Rewrite(read, p, read.patch))
  BY <1>6, <1>7, RewriteFits
<1> QED
  BY <1>8, <1>9 DEF goal

-----------------------------------------------------------------------------
(* What a step does to the cycles *)

LEMMA NewestIs ==
    ASSUME CountedOK
    PROVE  Newest \in Cycle /\ NextCycle = Newest + 1 /\ Cycles = 1 .. Newest
<1>1. PICK n \in Cycle : Cycles = 1 .. n
  BY DEF CountedOK
<1>2. Cardinality(Cycles) = n
  BY <1>1, FS_Interval
<1>3. NextCycle = n + 1
  BY <1>2 DEF NextCycle, Cycles
<1> QED
  BY <1>1, <1>3 DEF Newest

\* What a step does not change of the cycles' order.
SameOrder ==
    /\ Cycles' = Cycles /\ NextCycle' = NextCycle /\ Newest' = Newest
    /\ \A k \in Cycle : FollowUps(k)' = FollowUps(k)
    /\ CountedOK'

LEMMA OrderStays ==
    ASSUME CountedOK,
           \A k \in Cycle : cycle'[k].source = cycle[k].source,
           \A k \in Cycle : cycle'[k].status = "none" <=> cycle[k].status = "none"
    PROVE  SameOrder
<1>1. Cycles' = Cycles
  BY DEF Cycles
<1>2. NextCycle' = NextCycle
  BY <1>1 DEF NextCycle, Cycles
<1>3. Newest' = Newest
  BY <1>2 DEF Newest
<1>4. \A k \in Cycle : FollowUps(k)' = FollowUps(k)
  BY DEF FollowUps
<1>5. CountedOK'
  BY <1>1 DEF CountedOK
<1> QED
  BY <1>1, <1>2, <1>3, <1>4, <1>5 DEF SameOrder

\* Some cycles get a status.
Turned(S, status) ==
    cycle' = [k \in Cycle |-> IF k \in S THEN [cycle[k] EXCEPT !.status = status] ELSE cycle[k]]

LEMMA TurnedCycles ==
    ASSUME ShapeOK, CountedOK, NEW S \in SUBSET Cycles, NEW status \in CycleStatus \ {"none"},
           Turned(S, status)
    PROVE  /\ cycle' \in [Cycle -> CycleRecord] /\ SameOrder
           /\ \A k \in Cycle : /\ cycle'[k].status = IF k \in S THEN status ELSE cycle[k].status
                               /\ cycle'[k].inputs = cycle[k].inputs /\ cycle'[k].sent = cycle[k].sent
<1>1. cycle \in [Cycle -> CycleRecord]
  BY DEF ShapeOK
<1>2. ASSUME NEW k \in Cycle
      PROVE  /\ cycle'[k] \in CycleRecord
             /\ cycle'[k].source = cycle[k].source
             /\ cycle'[k].status = IF k \in S THEN status ELSE cycle[k].status
             /\ cycle'[k].inputs = cycle[k].inputs /\ cycle'[k].sent = cycle[k].sent
  <2>1. cycle[k] \in CycleRecord
    BY <1>1
  <2>2. CASE k \in S
    <3>1. cycle'[k] = [cycle[k] EXCEPT !.status = status]
      BY <2>2 DEF Turned
    <3> QED
      BY <2>1, <2>2, <3>1 DEF CycleRecord
  <2>3. CASE k \notin S
    <3>1. cycle'[k] = cycle[k]
      BY <2>3 DEF Turned
    <3> QED
      BY <2>1, <2>3, <3>1
  <2> QED
    BY <2>2, <2>3
<1>3. cycle' \in [Cycle -> CycleRecord]
  BY <1>2 DEF Turned
<1>4. \A k \in Cycle : cycle'[k].status = "none" <=> cycle[k].status = "none"
  BY <1>2 DEF Cycles
<1>5. SameOrder
  BY <1>2, <1>4, OrderStays
<1> QED
  BY <1>2, <1>3, <1>5

\* A request writes the inputs of a cycle.
LEMMA WrittenCycles ==
    ASSUME ShapeOK, CountedOK, NEW t \in Cycles, NEW i \in Inputs,
           cycle' = [cycle EXCEPT ![t].inputs = i]
    PROVE  /\ cycle' \in [Cycle -> CycleRecord] /\ SameOrder
           /\ \A k \in Cycle : /\ cycle'[k].status = cycle[k].status
                               /\ cycle'[k].inputs = IF k = t THEN i ELSE cycle[k].inputs
                               /\ cycle'[k].sent = cycle[k].sent
<1>1. cycle \in [Cycle -> CycleRecord] /\ t \in Cycle
  BY DEF ShapeOK, Cycles
<1>2. ASSUME NEW k \in Cycle
      PROVE  /\ cycle'[k] \in CycleRecord
             /\ cycle'[k].source = cycle[k].source /\ cycle'[k].status = cycle[k].status
             /\ cycle'[k].inputs = IF k = t THEN i ELSE cycle[k].inputs
             /\ cycle'[k].sent = cycle[k].sent
  <2>1. cycle[k] \in CycleRecord
    BY <1>1
  <2>2. CASE k = t
    <3>1. cycle'[k] = [cycle[k] EXCEPT !.inputs = i]
      BY <1>1, <2>2
    <3> QED
      BY <2>1, <2>2, <3>1 DEF CycleRecord
  <2>3. CASE k # t
    BY <1>1, <2>1, <2>3
  <2> QED
    BY <2>2, <2>3
<1>3. cycle' \in [Cycle -> CycleRecord]
  BY <1>1, <1>2
<1>4. SameOrder
  BY <1>2, OrderStays
<1> QED
  BY <1>2, <1>3, <1>4

\* The next cycle comes after cycle j, which may be cancelled for it.
Followed(j, S, status, i) ==
    cycle' = [k \in Cycle |-> IF k = NextCycle THEN NewCycle(status, j, i)
                              ELSE IF k \in S THEN [cycle[k] EXCEPT !.status = "cancelled"]
                              ELSE cycle[k]]

Joins(n, j, S, status, i) ==
    /\ n = NextCycle /\ n <= MaxCycles /\ j \in Cycles /\ S \in SUBSET {j}
    /\ status \in {"queued", "scheduled"} /\ i \in Inputs /\ Followed(j, S, status, i)
Joined(n, j, S, status, i) ==
    /\ cycle' \in [Cycle -> CycleRecord] /\ CountedOK'
    /\ n \in Cycle \ Cycles /\ Newest' = n /\ Cycles' = Cycles \cup {n}
    /\ \A k \in Cycle \ {n} :
          /\ cycle'[k].status = IF k \in S THEN "cancelled" ELSE cycle[k].status
          /\ cycle'[k].inputs = cycle[k].inputs /\ cycle'[k].sent = cycle[k].sent
    /\ cycle'[n].status = status /\ cycle'[n].inputs = i /\ cycle'[n].sent = i
    /\ FollowUps(n)' = {} /\ FollowUps(j)' # {}
    /\ \A k \in Cycle \ {j} : FollowUps(k)' = FollowUps(k)

LEMMA FollowedCycles ==
    ASSUME ShapeOK, CountedOK, NEW n, NEW j, NEW S, NEW status, NEW i, Joins(n, j, S, status, i)
    PROVE  Joined(n, j, S, status, i)
<1> USE DEF Joins
<1>1. cycle \in [Cycle -> CycleRecord] /\ j \in Cycle
  BY DEF ShapeOK, Cycles
<1>2. n \in Cycle \ Cycles /\ n = Newest + 1 /\ Cycles = 1 .. Newest
      /\ Newest \in Cycle
  BY NewestIs
<1>3. ASSUME NEW k \in Cycle \ {n}
      PROVE  /\ cycle'[k] \in CycleRecord
             /\ cycle'[k].source = cycle[k].source
             /\ cycle'[k].status = IF k \in S THEN "cancelled" ELSE cycle[k].status
             /\ cycle'[k].inputs = cycle[k].inputs /\ cycle'[k].sent = cycle[k].sent
  <2>1. cycle[k] \in CycleRecord
    BY <1>1
  <2>2. CASE k \in S
    <3>1. cycle'[k] = [cycle[k] EXCEPT !.status = "cancelled"]
      BY <2>2 DEF Followed
    <3> QED
      BY <2>1, <2>2, <3>1 DEF CycleRecord, CycleStatus
  <2>3. CASE k \notin S
    <3>1. cycle'[k] = cycle[k]
      BY <2>3 DEF Followed
    <3> QED
      BY <2>1, <2>3, <3>1
  <2> QED
    BY <2>2, <2>3
<1>4. cycle'[n] = NewCycle(status, j, i)
  BY <1>2 DEF Followed
<1>5. /\ NewCycle(status, j, i) \in CycleRecord
      /\ NewCycle(status, j, i).status = status /\ NewCycle(status, j, i).source = j
      /\ NewCycle(status, j, i).inputs = i /\ NewCycle(status, j, i).sent = i
  BY <1>1 DEF NewCycle, CycleRecord, CycleStatus
<1>6. cycle' \in [Cycle -> CycleRecord]
  <2>1. \A k \in Cycle : cycle'[k] \in CycleRecord
    BY <1>3, <1>4, <1>5
  <2>2. cycle' = [k \in Cycle |-> cycle'[k]]
    BY DEF Followed
  <2> QED
    BY <2>1, <2>2
<1>7. Cycles' = Cycles \cup {n}
  <2>1. ASSUME NEW k \in Cycle \ {n}
        PROVE  cycle'[k].status = "none" <=> cycle[k].status = "none"
    BY <1>3 DEF Cycles
  <2>2. cycle'[n].status # "none"
    BY <1>4, <1>5
  <2> QED
    BY <1>2, <2>1, <2>2 DEF Cycles
<1>8. Cycles' = 1 .. n
  BY <1>2, <1>7
<1>9. Newest' = n
  <2>1. Cardinality(Cycles') = n
    BY <1>2, <1>8, FS_Interval
  <2>2. NextCycle' = n + 1
    BY <2>1 DEF NextCycle, Cycles
  <2> QED
    BY <1>2, <2>2 DEF Newest
<1>10. \A k \in Cycle : cycle[k].source # n
  BY <1>2 DEF CountedOK
<1>11. cycle[n].source = 0
  BY <1>2 DEF CountedOK
<1>12. FollowUps(n)' = {}
  BY <1>2, <1>3, <1>4, <1>5, <1>10 DEF FollowUps
<1>13. n \in FollowUps(j)'
  BY <1>2, <1>4, <1>5 DEF FollowUps
<1>14. ASSUME NEW k \in Cycle \ {j} PROVE FollowUps(k)' = FollowUps(k)
  BY <1>3, <1>4, <1>5, <1>11 DEF FollowUps
<1>15. CountedOK'
  <2>1. \A k \in Cycle : cycle'[k].source < k
    BY <1>1, <1>2, <1>3, <1>4, <1>5 DEF CountedOK
  <2>2. \A k \in Cycle : cycle'[k].source # 0 => cycle'[k].source \in Cycles' /\ k \in Cycles'
    BY <1>3, <1>4, <1>5, <1>7 DEF CountedOK
  <2> QED
    BY <1>2, <1>8, <2>1, <2>2 DEF CountedOK
<1> QED
  BY <1>2, <1>3, <1>4, <1>5, <1>6, <1>7, <1>9, <1>12, <1>13, <1>14, <1>15 DEF Joined

-----------------------------------------------------------------------------
(* The steps, as the cycles see them *)

LEMMA LiveCycles ==
    LivePlan \in SUBSET Cycles /\ \A j \in Cycle : FindActive(j) \in SUBSET LivePlan
<1>1. LivePlan \in SUBSET Cycles
  BY DEF LivePlan, Cycles
<1>2. ASSUME NEW j \in Cycle PROVE FindActive(j) \in SUBSET LivePlan
  <2> DEFINE live == Descendants(j) \cap LivePlan
  <2>1. live \in SUBSET LivePlan /\ LivePlan \in SUBSET (0 .. MaxCycles)
    BY DEF LivePlan
  <2>2. live # {} => Max(live) \in live
    BY <2>1, MaxIsGreatest
  <2>3. FindActive(j) = IF j \in LivePlan THEN {j} ELSE IF live = {} THEN {} ELSE {Max(live)}
    BY DEF FindActive
  <2> HIDE DEF live
  <2>4. CASE j \in LivePlan
    BY <2>3, <2>4
  <2>5. CASE j \notin LivePlan /\ live = {}
    BY <2>3, <2>5
  <2>6. CASE j \notin LivePlan /\ live # {}
    <3>1. Max(live) \in LivePlan
      BY <2>1, <2>2, <2>6
    <3> QED
      BY <2>3, <2>6, <3>1
  <2> QED
    BY <2>4, <2>5, <2>6
<1> QED
  BY <1>1, <1>2

\* What becomes of the cycles in a step.
Turns == \E S \in SUBSET Cycles, status \in {"running", "finished", "error", "cancelled"} :
            Turned(S, status)
Writes == \E t \in Cycles, i \in {editing.inputs, merging.inputs} :
            cycle' = [cycle EXCEPT ![t].inputs = i]
Follows == /\ NextCycle <= MaxCycles
           /\ \E j \in Cycles : \E S \in SUBSET {j}, status \in {"queued", "scheduled"}, i \in Inputs :
                InputsFit(i) /\ Followed(j, S, status, i)

\* The inputs of the cycle that a reschedule creates.
NextInputs ==
    Effective(Ignoring(cycle[Here].inputs,
                IF builder.ignored # {} THEN builder.ignored ELSE cycle[Here].inputs.ignored))

LEMMA StartTurns ==
    ASSUME ShapeOK, NEW j \in Cycle, StartPlanCycle(j)
    PROVE  j \in Cycles /\ Turned({j}, "running")
<1>1. cycle \in [Cycle -> CycleRecord] /\ j \in Cycles
  BY DEF ShapeOK, StartPlanCycle, Cycles
<1>2. cycle' = [cycle EXCEPT ![j] = [cycle[j] EXCEPT !.status = "running"]]
  BY <1>1 DEF StartPlanCycle
<1> QED
  BY <1>1, <1>2 DEF Turned

\* The final report turns the cycle, unless it is over.
Reported(outcome) == Turned(IF cycle[Here].status = "running" THEN {Here} ELSE {}, outcome)

LEMMA ReportTurns ==
    ASSUME ShapeOK, Here \in Cycle, NEW outcome, Concluded(outcome)
    PROVE  Reported(outcome)
<1>1. cycle \in [Cycle -> CycleRecord]
  BY DEF ShapeOK
<1>2. CASE cycle[Here].status = "running"
  <2>1. cycle' = [cycle EXCEPT ![Here] = [cycle[Here] EXCEPT !.status = outcome]]
    BY <1>1, <1>2 DEF Concluded, Here
  <2> QED
    BY <1>1, <1>2, <2>1 DEF Turned, Reported
<1>3. CASE cycle[Here].status # "running"
  <2>1. cycle' = [cycle EXCEPT ![Here].status = cycle[Here].status]
    BY <1>1, <1>3 DEF Concluded, Here
  <2>2. cycle[Here] \in CycleRecord
    BY <1>1
  <2>3. [cycle[Here] EXCEPT !.status = cycle[Here].status] = cycle[Here]
    BY <2>2 DEF CycleRecord
  <2>4. cycle' = cycle
    BY <1>1, <2>1, <2>3
  <2> QED
    BY <1>1, <1>3, <2>4 DEF Turned, Reported
<1> QED
  BY <1>2, <1>3

LEMMA RecoverTurns ==
    ASSUME ShapeOK, CountedOK, NEW j \in Cycle, RecoverPlanCycle(j)
    PROVE  /\ j \in Cycles
           /\ \/ Turned({j}, "cancelled")
              \/ NextCycle <= MaxCycles /\ Followed(j, {j}, "scheduled", cycle[j].inputs)
<1>1. cycle \in [Cycle -> CycleRecord] /\ j \in Cycles
  BY DEF ShapeOK, RecoverPlanCycle, Cycles
<1>2. CASE cycle' = [cycle EXCEPT ![j].status = "cancelled"]
  <2>1. cycle' = [cycle EXCEPT ![j] = [cycle[j] EXCEPT !.status = "cancelled"]]
    BY <1>1, <1>2
  <2> QED
    BY <1>1, <2>1 DEF Turned
<1>3. CASE /\ NextCycle <= MaxCycles
           /\ cycle' = [cycle EXCEPT ![j].status = "cancelled",
                                     ![NextCycle] = NewCycle("scheduled", j, cycle[j].inputs)]
  <2>1. NextCycle \in Cycle /\ j # NextCycle
    BY <1>1, <1>3, NewestIs
  <2>2. cycle' = [[cycle EXCEPT ![j] = [cycle[j] EXCEPT !.status = "cancelled"]]
                    EXCEPT ![NextCycle] = NewCycle("scheduled", j, cycle[j].inputs)]
    BY <1>1, <1>3
  <2> QED
    BY <1>1, <1>3, <2>1, <2>2 DEF Followed
<1> QED
  BY <1>1, <1>2, <1>3 DEF RecoverPlanCycle

LEMMA RestartFollows ==
    ASSUME ShapeOK, CountedOK, NEW j \in Cycle, NEW from, from # "none", NEW to, NEW rows,
           RestartCycle(j, from, to, rows)
    PROVE  j \in Cycles /\ NextCycle <= MaxCycles /\ Followed(j, {j}, to, cycle[j].inputs)
<1>1. cycle \in [Cycle -> CycleRecord] /\ j \in Cycles
  BY DEF ShapeOK, RestartCycle, Cycles
<1>2. NextCycle \in Cycle /\ j # NextCycle /\ NextCycle <= MaxCycles
  BY <1>1, NewestIs DEF RestartCycle
<1>3. cycle' = [[cycle EXCEPT ![j] = [cycle[j] EXCEPT !.status = "cancelled"]]
                  EXCEPT ![NextCycle] = NewCycle(to, j, cycle[j].inputs)]
  BY <1>1 DEF RestartCycle
<1> QED
  BY <1>1, <1>2, <1>3 DEF Followed

LEMMA RescheduleFollows ==
    ASSUME ShapeOK, CountedOK, FollowUpsOK, ReschedulePlan
    PROVE  /\ Here \in Cycles
           /\ \/ cycle[Here].status # "running" /\ UNCHANGED cycle
              \/ /\ cycle[Here].status = "running" /\ NextCycle <= MaxCycles
                 /\ Followed(Here, {}, "scheduled", NextInputs)
<1>1. cycle \in [Cycle -> CycleRecord]
  BY DEF ShapeOK
<1>2. Here \in Cycles
  BY DEF ReschedulePlan, FollowUpsOK, Cycles
<1>3. CASE cycle[Here].status # "running"
  BY <1>2, <1>3 DEF ReschedulePlan, Here
<1>4. CASE cycle[Here].status = "running"
  <2>1. NextCycle <= MaxCycles /\ cycle' = [cycle EXCEPT ![NextCycle] = NewCycle("scheduled", Here, NextInputs)]
    BY <1>4 DEF ReschedulePlan, NextInputs, Ignoring, Here
  <2>2. NextCycle \in Cycle
    BY <2>1, NewestIs
  <2> QED
    BY <1>1, <1>2, <1>4, <2>1, <2>2 DEF Followed
<1> QED
  BY <1>3, <1>4

LEMMA NextInputsFit ==
    ASSUME ShapeOK, FollowUpsOK, ReschedulePlan
    PROVE  InputsFit(NextInputs) /\ NextInputs \in Inputs
<1>1. InputsFit(cycle[Here].inputs) /\ builder.ignored \in SUBSET StepIndex
  BY DEF ShapeOK, BuilderRecord, FollowUpsOK, ReschedulePlan
<1>2. cycle[Here].inputs.ignored \in SUBSET StepIndex
  BY <1>1, InputsTyped DEF InputsFit
<1> DEFINE aside == IF builder.ignored # {} THEN builder.ignored ELSE cycle[Here].inputs.ignored
<1>3. aside \in SUBSET StepIndex
  BY <1>1, <1>2
<1>4. NextInputs = Effective(Ignoring(cycle[Here].inputs, aside))
  BY DEF NextInputs
<1> HIDE DEF aside
<1>5. InputsFit(Ignoring(cycle[Here].inputs, aside))
  BY <1>1, <1>3, IgnoringFits
<1>6. InputsFit(NextInputs)
  BY <1>4, <1>5, EffectiveFits
<1> QED
  BY <1>6 DEF InputsFit

\* ... and what they are.
LEMMA NextInputsAre ==
    ASSUME ShapeOK, FollowUpsOK, ReschedulePlan
    PROVE  /\ NextInputs.ignored = IF builder.ignored # {} THEN builder.ignored
                                   ELSE cycle[Here].inputs.ignored
           /\ NextInputs.patch = {}
           /\ \/ NextInputs.idx = cycle[Here].inputs.idx
              \/ \E p \in cycle[Here].inputs.patch : NextInputs.idx = p.idx
           /\ (\A p \in cycle[Here].inputs.patch : p.goal = cycle[Here].inputs.goal)
                 => NextInputs.goal = cycle[Here].inputs.goal
<1>1. InputsFit(cycle[Here].inputs) /\ builder.ignored \in SUBSET StepIndex
  BY DEF ShapeOK, BuilderRecord, FollowUpsOK, ReschedulePlan
<1>2. cycle[Here].inputs.ignored \in SUBSET StepIndex
  BY <1>1, InputsTyped DEF InputsFit
<1> DEFINE aside == IF builder.ignored # {} THEN builder.ignored ELSE cycle[Here].inputs.ignored
<1>3. aside \in SUBSET StepIndex
  BY <1>1, <1>2
<1>4. NextInputs = Effective(Ignoring(cycle[Here].inputs, aside))
  BY DEF NextInputs
<1> HIDE DEF aside
<1> DEFINE i == Ignoring(cycle[Here].inputs, aside)
<1>5. /\ InputsFit(i) /\ i.ignored = aside /\ i.goal = cycle[Here].inputs.goal
      /\ i.idx = cycle[Here].inputs.idx /\ i.patch = cycle[Here].inputs.patch
  BY <1>1, <1>3, IgnoringFits
<1> HIDE DEF i
<1>6. NextInputs = Effective(i)
  BY <1>4 DEF i
<1>7. /\ NextInputs.ignored = aside /\ NextInputs.patch = {}
      /\ (\A p \in i.patch : p.goal = i.goal) => NextInputs.goal = i.goal
      /\ NextInputs = i \/ \E p \in i.patch : NextInputs.idx = p.idx
  BY <1>5, <1>6, EffectiveFits
<1> QED
  BY <1>5, <1>7 DEF aside

\* The cycle that a recovery, a restart or a reschedule adds.
LEMMA RecoverJoins ==
    ASSUME ShapeOK, CountedOK, NEW j \in Cycle, RecoverPlanCycle(j)
    PROVE  /\ j \in Cycles /\ cycle[j].status = "running" /\ j # Here
           /\ \/ Turned({j}, "cancelled") /\ (LivePlan = {j} => "lost" \in planTrouble')
              \/ /\ LivePlan = {j} /\ (FollowUps(j) # {} => "revived" \in planTrouble')
                 /\ \E n \in Cycle : Joined(n, j, {j}, "scheduled", cycle[j].inputs)
<1>1. /\ cycle \in [Cycle -> CycleRecord] /\ j \in Cycles /\ cycle[j].status = "running" /\ j # Here
      /\ cycle[j].inputs \in Inputs
  BY DEF ShapeOK, InputsFit, RecoverPlanCycle, Here, Cycles
<1>2. CASE /\ cycle' = [cycle EXCEPT ![j].status = "cancelled"]
           /\ Blames(If(LivePlan = {j}, "lost"))
  <2>1. cycle' = [cycle EXCEPT ![j] = [cycle[j] EXCEPT !.status = "cancelled"]]
    BY <1>1, <1>2
  <2>2. Turned({j}, "cancelled")
    BY <1>1, <2>1 DEF Turned
  <2>3. LivePlan = {j} => "lost" \in planTrouble'
    BY <1>2 DEF Blames, If
  <2> QED
    BY <1>1, <2>2, <2>3
<1>3. CASE /\ LivePlan = {j} /\ NextCycle <= MaxCycles
           /\ cycle' = [cycle EXCEPT ![j].status = "cancelled",
                                     ![NextCycle] = NewCycle("scheduled", j, cycle[j].inputs)]
           /\ Blames(If(FollowUps(j) # {}, "revived"))
  <2>1. PICK n : n = NextCycle
    OBVIOUS
  <2>2. PICK i : i = cycle[j].inputs
    OBVIOUS
  <2>3. Followed(j, {j}, "scheduled", i)
    <3>1. n \in Cycle /\ j # n
      BY <1>1, <1>3, <2>1, NewestIs
    <3>2. cycle' = [[cycle EXCEPT ![j] = [cycle[j] EXCEPT !.status = "cancelled"]]
                      EXCEPT ![n] = NewCycle("scheduled", j, i)]
      BY <1>1, <1>3, <2>1, <2>2
    <3> QED
      BY <1>1, <2>1, <3>1, <3>2 DEF Followed
  <2>4. Joins(n, j, {j}, "scheduled", i)
    BY <1>1, <1>3, <2>1, <2>2, <2>3 DEF Joins
  <2>5. Joined(n, j, {j}, "scheduled", i)
    BY <2>4, FollowedCycles
  <2>6. n \in Cycle
    BY <2>5 DEF Joined
  <2>7. FollowUps(j) # {} => "revived" \in planTrouble'
    BY <1>3 DEF Blames, If
  <2> QED
    BY <1>1, <1>3, <2>2, <2>5, <2>6, <2>7
<1> QED
  BY <1>2, <1>3 DEF RecoverPlanCycle, FollowUps

LEMMA RestartJoins ==
    ASSUME ShapeOK, CountedOK, NEW j \in Cycle, NEW from \in {"scheduled", "running"},
           NEW to \in {"queued", "scheduled"}, NEW rows, RestartCycle(j, from, to, rows)
    PROVE  /\ j \in Cycles /\ cycle[j].status = from /\ j # Here
           /\ FollowUps(j) # {} => "forked" \in planTrouble'
           /\ \E n \in Cycle : Joined(n, j, {j}, to, cycle[j].inputs)
<1>1. j \in Cycles /\ NextCycle <= MaxCycles /\ Followed(j, {j}, to, cycle[j].inputs)
  BY RestartFollows
<1>2. cycle[j].inputs \in Inputs
  BY DEF ShapeOK, InputsFit
<1>3. cycle[j].status = from /\ j # Here /\ (FollowUps(j) # {} => "forked" \in planTrouble')
  BY DEF RestartCycle, Here, Blames, If, FollowUps
<1>4. PICK n : n = NextCycle
  OBVIOUS
<1>5. PICK i : i = cycle[j].inputs
  OBVIOUS
<1>6. Joins(n, j, {j}, to, i)
  BY <1>1, <1>2, <1>4, <1>5 DEF Joins
<1>7. Joined(n, j, {j}, to, i)
  BY <1>6, FollowedCycles
<1>8. n \in Cycle
  BY <1>7 DEF Joined
<1> QED
  BY <1>1, <1>3, <1>5, <1>7, <1>8

LEMMA RescheduleJoins ==
    ASSUME ShapeOK, CountedOK, FollowUpsOK, ReschedulePlan, NEW h, h = Here
    PROVE  /\ h \in Cycles
           /\ \/ cycle[h].status # "running" /\ UNCHANGED cycle
              \/ /\ cycle[h].status = "running"
                 /\ \E n \in Cycle : Joined(n, h, {}, "scheduled", NextInputs)
<1>1. /\ h \in Cycles
      /\ \/ cycle[h].status # "running" /\ UNCHANGED cycle
         \/ /\ cycle[h].status = "running" /\ NextCycle <= MaxCycles
            /\ Followed(h, {}, "scheduled", NextInputs)
  BY RescheduleFollows
<1>2. NextInputs \in Inputs
  BY NextInputsFit
<1>3. CASE /\ cycle[h].status = "running" /\ NextCycle <= MaxCycles
           /\ Followed(h, {}, "scheduled", NextInputs)
  <2>1. PICK n : n = NextCycle
    OBVIOUS
  <2>2. PICK i : i = NextInputs
    OBVIOUS
  <2>3. Joins(n, h, {}, "scheduled", i)
    BY <1>1, <1>2, <1>3, <2>1, <2>2 DEF Joins
  <2>4. Joined(n, h, {}, "scheduled", i)
    BY <2>3, FollowedCycles
  <2>5. n \in Cycle
    BY <2>4 DEF Joined
  <2> QED
    BY <1>1, <1>3, <2>2, <2>4, <2>5
<1> QED
  BY <1>1, <1>3

\* A step leaves the cycles alone, turns some, writes one or lets one follow.
LEMMA CycleMoves ==
    ASSUME PlanInv, PlanNext
    PROVE  UNCHANGED cycle \/ Turns \/ Writes \/ Follows
<1>0. ShapeOK /\ CountedOK /\ FollowUpsOK
  BY DEF PlanInv
<1>1. ASSUME NEW j \in Cycle, StartPlanCycle(j) PROVE Turns
  BY <1>0, <1>1, StartTurns DEF Turns
<1>2. ASSUME NEW outcome \in {"finished", "error"}, Concluded(outcome), builder.at # "idle" PROVE Turns
  <2>1. Here \in Cycle /\ Here \in Cycles
    BY <1>0, <1>2 DEF FollowUpsOK, Cycles
  <2> QED
    BY <1>0, <1>2, <2>1, ReportTurns DEF Turns, Reported
<1>3. ASSUME EndPlanCycle \/ PlanFails PROVE Turns
  BY <1>2, <1>3 DEF EndPlanCycle, PlanFails
<1>4. ASSUME NEW j \in Cycle, RecoverPlanCycle(j) PROVE Turns \/ Follows
  <2>1. InputsFit(cycle[j].inputs) /\ cycle[j].inputs \in Inputs
    BY <1>0 DEF ShapeOK, InputsFit
  <2>2. /\ j \in Cycles
        /\ \/ Turned({j}, "cancelled")
           \/ NextCycle <= MaxCycles /\ Followed(j, {j}, "scheduled", cycle[j].inputs)
    BY <1>0, <1>4, RecoverTurns
  <2> QED
    BY <2>1, <2>2 DEF Turns, Follows
<1>5. ASSUME NEW j \in Cycle, RunPlanNow(j) \/ UnstickPlan(j) PROVE Follows
  <2>1. InputsFit(cycle[j].inputs) /\ cycle[j].inputs \in Inputs
    BY <1>0 DEF ShapeOK, InputsFit
  <2>2. /\ j \in Cycles /\ NextCycle <= MaxCycles
        /\ \/ Followed(j, {j}, "queued", cycle[j].inputs)
           \/ Followed(j, {j}, "scheduled", cycle[j].inputs)
    BY <1>0, <1>5, RestartFollows DEF RunPlanNow, UnstickPlan
  <2> QED
    BY <2>1, <2>2 DEF Follows
<1>6. ASSUME ReschedulePlan PROVE UNCHANGED cycle \/ Follows
  <2>1. InputsFit(NextInputs) /\ NextInputs \in Inputs
    BY <1>0, <1>6, NextInputsFit
  <2> QED
    BY <1>0, <1>6, <2>1, RescheduleFollows DEF Follows
<1>7. ASSUME CancelPlan PROVE Turns
  BY <1>7, LiveCycles DEF CancelPlan, Turns, Turned
<1>8. ASSUME CutSaves \/ MergeSaves PROVE Writes
  <2>1. editing.at = "saving" => editing.target \in Cycles
    BY DEF PlanInv, RequestsOK
  <2>2. merging.at = "saving" => merging.target \in Cycles
    BY DEF PlanInv, RequestsOK
  <2> QED
    BY <1>8, <2>1, <2>2 DEF CutSaves, MergeSaves, Writes
<1> QED
  BY <1>1, <1>3, <1>4, <1>5, <1>6, <1>7, <1>8
     DEF PlanNext, BuildLevel, StepRefused, StepFoundDone, CycleWaits, PlanComplete, Builds,
         SyncReservations, SyncFails, BuilderDies, MergeReads, CutReads, Reserve

LEMMA CyclesNext ==
    ASSUME PlanInv, PlanNext
    PROVE  /\ cycle' \in [Cycle -> CycleRecord] /\ CountedOK' /\ Cycles \subseteq Cycles'
           /\ \A j \in Cycle : InputsFit(cycle'[j].inputs) /\ InputsFit(cycle'[j].sent)
<1>0. ShapeOK /\ CountedOK
  BY DEF PlanInv
<1>1. CASE UNCHANGED cycle
  <2>1. CountedOK' /\ Cycles' = Cycles
    BY <1>0, <1>1, OrderStays DEF SameOrder
  <2> QED
    BY <1>0, <1>1, <2>1 DEF ShapeOK
<1>2. CASE Turns
  <2>1. PICK S \in SUBSET Cycles, status \in {"running", "finished", "error", "cancelled"} :
          Turned(S, status)
    BY <1>2 DEF Turns
  <2>2. status \in CycleStatus \ {"none"}
    BY DEF CycleStatus
  <2>3. /\ cycle' \in [Cycle -> CycleRecord] /\ SameOrder
        /\ \A k \in Cycle : cycle'[k].inputs = cycle[k].inputs /\ cycle'[k].sent = cycle[k].sent
    BY <1>0, <2>1, <2>2, TurnedCycles
  <2> QED
    BY <1>0, <2>3 DEF ShapeOK, SameOrder
<1>3. CASE Writes
  <2>1. PICK t \in Cycles, i \in {editing.inputs, merging.inputs} :
          cycle' = [cycle EXCEPT ![t].inputs = i]
    BY <1>3 DEF Writes
  <2>2. i \in Inputs /\ InputsFit(i)
    BY <1>0 DEF ShapeOK, InputsFit
  <2>3. /\ cycle' \in [Cycle -> CycleRecord] /\ SameOrder
        /\ \A k \in Cycle : /\ cycle'[k].inputs = IF k = t THEN i ELSE cycle[k].inputs
                            /\ cycle'[k].sent = cycle[k].sent
    BY <1>0, <2>1, <2>2, WrittenCycles, ZenonT(40)
  <2> HIDE DEF PlanInv
  <2> QED
    BY <1>0, <2>2, <2>3 DEF ShapeOK, SameOrder
<1>4. CASE Follows
  <2>1. NextCycle <= MaxCycles
    BY <1>4 DEF Follows
  <2>0. PICK j \in Cycles : \E S \in SUBSET {j}, status \in {"queued", "scheduled"}, i \in Inputs :
          InputsFit(i) /\ Followed(j, S, status, i)
    BY <1>4 DEF Follows
  <2>2. PICK S \in SUBSET {j}, status \in {"queued", "scheduled"}, i \in Inputs :
          InputsFit(i) /\ Followed(j, S, status, i)
    BY <2>0
  <2>3. PICK n : n = NextCycle
    OBVIOUS
  <2>4. Joined(n, j, S, status, i)
    <3>1. Joins(n, j, S, status, i)
      BY <2>1, <2>2, <2>3 DEF Joins
    <3> QED
      BY <1>0, <3>1, FollowedCycles
  <2> QED
    BY <1>0, <2>2, <2>4 DEF ShapeOK, Joined
<1> QED
  BY <1>1, <1>2, <1>3, <1>4, CycleMoves

-----------------------------------------------------------------------------
(* The steps, as the other variables see them *)

\* What the builder becomes in a step.
LEMMA BuilderMoves ==
    ASSUME ShapeOK, PlanNext
    PROVE  \/ UNCHANGED builder
           \/ builder' = AtRest
           \/ \E j \in Cycle : StartPlanCycle(j)
           \/ \E at \in BuilderAt \ {"idle"} :
                 builder.at \notin {"idle", "ending"} /\ builder' = [builder EXCEPT !.at = at]
           \/ builder.at = "working" /\ \E b \in Todo :
                 builder' = [builder EXCEPT !.at = "syncing", !.started = {b}]
           \/ builder.at = "working" /\ \E b \in Steps(builder.goal) :
                 /\ builder' = [builder EXCEPT !.at = "syncing", !.ignored = @ \cup {builder.idx[b]}]
                 /\ b \in refused' \/ builder.goal[b] <= level[b]
<1>1. AfterSync \in BuilderAt \ {"idle"}
  BY DEF AfterSync, BuilderAt
<1>2. ASSUME NEW b \in Building, BuildLevel(b) \/ StepRefused(b) \/ StepFoundDone(b)
      PROVE  \/ builder.at = "working" /\ \E c \in Todo :
                   builder' = [builder EXCEPT !.at = "syncing", !.started = {c}]
             \/ builder.at = "working" /\ \E c \in Steps(builder.goal) :
                   /\ builder' = [builder EXCEPT !.at = "syncing", !.ignored = @ \cup {builder.idx[c]}]
                   /\ c \in refused' \/ builder.goal[c] <= level[c]
  <2>1. CASE BuildLevel(b)
    BY <2>1 DEF BuildLevel, Builds
  <2>2. CASE StepRefused(b)
    <3>1. b \in Steps(builder.goal)
      <4>1. b \in Todo
        BY <2>2 DEF StepRefused
      <4>2. builder.goal[b] > level[b] /\ builder.goal[b] \in Level /\ level[b] \in Level
        BY <4>1 DEF Todo, ShapeOK, BuilderRecord
      <4> QED
        BY <4>2 DEF Steps
    <3> QED
      BY <2>2, <3>1 DEF StepRefused, Builds
  <2>3. CASE StepFoundDone(b)
    BY <2>3 DEF StepFoundDone, Builds
  <2> QED
    BY <1>2, <2>1, <2>2, <2>3
<1>3. ASSUME CycleWaits \/ PlanComplete \/ SyncReservations \/ SyncFails \/ ReschedulePlan
      PROVE  \E at \in BuilderAt \ {"idle"} :
               builder.at \notin {"idle", "ending"} /\ builder' = [builder EXCEPT !.at = at]
  <2>1. CASE CycleWaits
    BY <2>1 DEF CycleWaits, Builds, BuilderAt
  <2>2. CASE PlanComplete
    BY <2>2 DEF PlanComplete, Builds, BuilderAt
  <2>3. CASE SyncReservations
    BY <1>1, <2>3 DEF SyncReservations
  <2>4. CASE SyncFails
    BY <1>1, <2>4 DEF SyncFails
  <2>5. CASE ReschedulePlan
    BY <2>5 DEF ReschedulePlan, BuilderAt
  <2> QED
    BY <1>3, <2>1, <2>2, <2>3, <2>4, <2>5
<1>4. ASSUME EndPlanCycle \/ PlanFails \/ BuilderDies PROVE builder' = AtRest
  BY <1>4 DEF EndPlanCycle, PlanFails, Concluded, BuilderDies
<1>5. ASSUME \/ \E j \in Cycle : RecoverPlanCycle(j) \/ RunPlanNow(j) \/ UnstickPlan(j)
             \/ \E b \in Building, to \in Level :
                  MergeReads(b, to) \/ \E j \in 1 .. NextCycle - 1 : CutReads(j, b, to)
             \/ CutSaves \/ MergeSaves \/ Reserve \/ CancelPlan
      PROVE  UNCHANGED builder
  BY <1>5 DEF RecoverPlanCycle, RunPlanNow, UnstickPlan, RestartCycle, MergeReads, CutReads,
              CutSaves, MergeSaves, Reserve, CancelPlan
<1> QED
  BY <1>2, <1>3, <1>4, <1>5 DEF PlanNext

LEMMA BuilderNext ==
    ASSUME PlanInv, PlanNext
    PROVE  builder' \in BuilderRecord /\ Fits(builder)'
<1>0. ShapeOK
  BY DEF PlanInv
<1>1. builder \in BuilderRecord /\ Fits(builder)
  BY <1>0 DEF ShapeOK
<1>2. AtRest \in BuilderRecord /\ Fits(AtRest)
  BY NoInputsFit, InputsTyped DEF AtRest, BuilderRecord, BuilderAt, Fits, InputsFit
<1>3. ASSUME NEW j \in Cycle, StartPlanCycle(j)
      PROVE  builder' \in BuilderRecord /\ Fits(builder)'
  <2> DEFINE payload == IF FixedPayload THEN cycle[j].sent ELSE cycle[j].inputs
  <2>1. InputsFit(payload)
    BY <1>0 DEF ShapeOK
  <2>2. builder' = [AtRest EXCEPT !.at = "working", !.cycle = j, !.goal = payload.goal,
                                  !.idx = payload.idx, !.ignored = payload.ignored]
    BY <1>3 DEF StartPlanCycle
  <2> HIDE DEF payload
  <2>3. /\ payload.goal \in [Building -> Level] /\ payload.idx \in [Building -> {0} \cup StepIndex]
        /\ payload.ignored \in SUBSET StepIndex
    BY <2>1, InputsTyped DEF InputsFit
  <2>4. builder' \in BuilderRecord
    BY <2>2, <2>3 DEF AtRest, BuilderRecord, BuilderAt
  <2>5. builder'.goal = payload.goal /\ builder'.idx = payload.idx
    BY <2>2 DEF AtRest
  <2> QED
    BY <2>1, <2>4, <2>5 DEF InputsFit, Fits
<1>4. ASSUME NEW b \in Steps(builder.goal)
      PROVE  b \in Building /\ builder.idx[b] \in StepIndex
  BY <1>1 DEF Steps, BuilderRecord, Fits
<1>5. ASSUME NEW at \in BuilderAt, builder' = [builder EXCEPT !.at = at]
      PROVE  builder' \in BuilderRecord /\ Fits(builder)'
  BY <1>1, <1>5 DEF BuilderRecord, Fits
<1>6. ASSUME NEW b \in Todo, builder' = [builder EXCEPT !.at = "syncing", !.started = {b}]
      PROVE  builder' \in BuilderRecord /\ Fits(builder)'
  BY <1>1, <1>6 DEF BuilderRecord, BuilderAt, Fits, Todo
<1>7. ASSUME NEW b \in Steps(builder.goal),
             builder' = [builder EXCEPT !.at = "syncing", !.ignored = @ \cup {builder.idx[b]}]
      PROVE  builder' \in BuilderRecord /\ Fits(builder)'
  BY <1>1, <1>4, <1>7 DEF BuilderRecord, BuilderAt, Fits
<1> QED
  BY <1>0, <1>1, <1>2, <1>3, <1>5, <1>6, <1>7, BuilderMoves

\* A level rises, up to a goal.
LEMMA LevelMoves ==
    ASSUME PlanInv, PlanNext
    PROVE  /\ level' \in [Building -> Level] /\ Lower(level, level')
           /\ refused' \subseteq Building /\ refused \subseteq refused'
           /\ reserved' \subseteq Cycle
           /\ planTrouble \subseteq planTrouble'
           /\ planEvents' \in 0 .. MaxPlanEvents
<1>0. ShapeOK
  BY DEF PlanInv
<1>1. level' = level \/ \E b \in Todo : level' = [level EXCEPT ![b] = @ + 1]
  BY DEF PlanNext, StartPlanCycle, RecoverPlanCycle, RunPlanNow, UnstickPlan, RestartCycle, BuildLevel,
       StepRefused, StepFoundDone, Builds, CycleWaits, PlanComplete, SyncReservations, SyncFails,
       ReschedulePlan, EndPlanCycle, PlanFails, Concluded, BuilderDies, MergeReads, CutReads,
       CutSaves, MergeSaves, Reserve, CancelPlan
<1>2. ASSUME NEW b \in Todo PROVE b \in Building /\ level[b] + 1 \in Level
  <2>1. builder.goal \in [Building -> Level] /\ level \in [Building -> Level]
    BY <1>0 DEF ShapeOK, BuilderRecord
  <2>2. b \in Building /\ builder.goal[b] > level[b]
    BY DEF Todo
  <2>3. level[b] \in 0 .. MaxLevel /\ builder.goal[b] \in 0 .. MaxLevel
    BY <2>1, <2>2
  <2> QED
    BY <2>2, <2>3
<1>3. level' \in [Building -> Level] /\ Lower(level, level')
  <2>1. level \in [Building -> Level]
    BY <1>0 DEF ShapeOK
  <2>2. \A b \in Building : level[b] <= level[b]
    BY <2>1
  <2>3. CASE level' = level
    BY <2>1, <2>2, <2>3 DEF Lower
  <2>4. ASSUME NEW b \in Todo, level' = [level EXCEPT ![b] = level[b] + 1]
        PROVE  level' \in [Building -> Level] /\ \A c \in Building : level[c] <= level'[c]
    <3>1. level[b] + 1 \in Level /\ b \in Building /\ level[b] \in Level
      BY <1>2, <2>1
    <3>2. \A c \in Building : level'[c] = IF c = b THEN level[b] + 1 ELSE level[c]
      BY <2>1, <2>4
    <3> QED
      BY <2>1, <2>2, <2>4, <3>1, <3>2
  <2> QED
    BY <1>1, <2>3, <2>4 DEF Lower
<1>4. refused' = refused \/ \E b \in Building : refused' = refused \cup {b}
  BY DEF PlanNext, StartPlanCycle, RecoverPlanCycle, RunPlanNow, UnstickPlan, RestartCycle, BuildLevel,
       StepRefused, StepFoundDone, Builds, CycleWaits, PlanComplete, SyncReservations, SyncFails,
       ReschedulePlan, EndPlanCycle, PlanFails, Concluded, BuilderDies, MergeReads, CutReads,
       CutSaves, MergeSaves, Reserve, CancelPlan
<1>5. planEvents' \in 0 .. MaxPlanEvents
  <2>1. UNCHANGED planEvents \/ PlanEvent
    BY DEF PlanNext, StartPlanCycle, RecoverPlanCycle, RunPlanNow, UnstickPlan, RestartCycle, BuildLevel,
         StepRefused, StepFoundDone, Builds, CycleWaits, PlanComplete, SyncReservations, SyncFails,
         ReschedulePlan, EndPlanCycle, PlanFails, Concluded, BuilderDies, MergeReads, CutReads,
         CutSaves, MergeSaves, Reserve, CancelPlan
  <2> QED
    BY <1>0, <2>1 DEF ShapeOK, PlanEvent
<1>6. \/ reserved' \subseteq reserved \cup {PlanRoot}
      \/ merging.at = "reserving" /\ reserved' = {merging.target}
  BY DEF PlanNext, StartPlanCycle, RecoverPlanCycle, RunPlanNow, UnstickPlan, RestartCycle, BuildLevel,
       StepRefused, StepFoundDone, Builds, CycleWaits, PlanComplete, SyncReservations, SyncFails,
       ReschedulePlan, EndPlanCycle, PlanFails, Concluded, BuilderDies, MergeReads, CutReads,
       CutSaves, MergeSaves, Reserve, CancelPlan
<1>7. merging.at # "none" => merging.target \in Cycle
  BY DEF PlanInv, RequestsOK, Cycles
<1>8. reserved' \subseteq Cycle
  <2>1. reserved \subseteq Cycle /\ PlanRoot \in Cycle
    BY <1>0 DEF ShapeOK
  <2>2. CASE reserved' \subseteq reserved \cup {PlanRoot}
    BY <2>1, <2>2
  <2>3. CASE merging.at = "reserving" /\ reserved' = {merging.target}
    BY <1>7, <2>3
  <2> QED
    BY <1>6, <2>2, <2>3
<1>9. planTrouble \subseteq planTrouble'
  BY DEF PlanNext, StartPlanCycle, RecoverPlanCycle, RunPlanNow, UnstickPlan, RestartCycle, BuildLevel,
       StepRefused, StepFoundDone, Builds, CycleWaits, PlanComplete, SyncReservations, SyncFails,
       ReschedulePlan, EndPlanCycle, PlanFails, Concluded, BuilderDies, MergeReads, CutReads,
       CutSaves, MergeSaves, Reserve, CancelPlan, Blames
<1> QED
  BY <1>0, <1>3, <1>4, <1>5, <1>8, <1>9 DEF ShapeOK

\* What the requests in flight become in a step.
LEMMA EditingMoves ==
    ASSUME CountedOK, PlanNext
    PROVE  \/ UNCHANGED editing
           \/ CutSaves /\ editing' = NoRequest
           \/ /\ editing = NoRequest /\ UNCHANGED <<cycle, level, refused, planTrouble>>
              /\ \E j \in Cycle : \E b \in Building, to \in Level, t \in FindActive(j), floor \in Nat :
                    /\ to < cycle[t].inputs.goal[b]
                    /\ editing' = [at |-> "saving", target |-> t, base |-> cycle[t].inputs,
                                   inputs |-> CutOf(cycle[t].inputs, b, to, floor)]
<1>1. ASSUME NEW b \in Building, NEW to \in Level, NEW j \in 1 .. NextCycle - 1, CutReads(j, b, to)
      PROVE  /\ editing = NoRequest /\ UNCHANGED <<cycle, level, refused, planTrouble>> /\ j \in Cycle
             /\ \E t \in FindActive(j), floor \in Nat :
                    /\ to < cycle[t].inputs.goal[b]
                    /\ editing' = [at |-> "saving", target |-> t, base |-> cycle[t].inputs,
                                   inputs |-> CutOf(cycle[t].inputs, b, to, floor)]
  <2>1. j \in Cycle /\ \A floor : floor \in 0 .. level[b] => floor \in Nat
    BY <1>1, NewestIs
  <2> QED
    BY <1>1, <2>1 DEF CutReads, CutOf
<1>2. CutSaves => editing' = NoRequest
  BY DEF CutSaves
<1>3. ASSUME NEW b \in Building, NEW to \in Level, NEW j \in 1 .. NextCycle - 1, CutReads(j, b, to)
      PROVE  /\ editing = NoRequest /\ UNCHANGED <<cycle, level, refused, planTrouble>>
             /\ \E k \in Cycle : \E c \in Building, l \in Level, t \in FindActive(k), floor \in Nat :
                   /\ l < cycle[t].inputs.goal[c]
                   /\ editing' = [at |-> "saving", target |-> t, base |-> cycle[t].inputs,
                                  inputs |-> CutOf(cycle[t].inputs, c, l, floor)]
  <2>1. /\ editing = NoRequest /\ UNCHANGED <<cycle, level, refused, planTrouble>> /\ j \in Cycle
        /\ \E t \in FindActive(j), floor \in Nat :
               /\ to < cycle[t].inputs.goal[b]
               /\ editing' = [at |-> "saving", target |-> t, base |-> cycle[t].inputs,
                              inputs |-> CutOf(cycle[t].inputs, b, to, floor)]
    BY <1>1, <1>3
  <2>2. PICK t \in FindActive(j), floor \in Nat :
            /\ to < cycle[t].inputs.goal[b]
            /\ editing' = [at |-> "saving", target |-> t, base |-> cycle[t].inputs,
                           inputs |-> CutOf(cycle[t].inputs, b, to, floor)]
    BY <2>1
  <2>3. j \in Cycle /\ b \in Building /\ to \in Level /\ t \in FindActive(j)
    BY <2>1, <2>2
  <2> QED
    BY <2>1, <2>2, <2>3, Zenon
<1>4. \/ UNCHANGED editing \/ CutSaves
      \/ \E b \in Building, to \in Level : \E j \in 1 .. NextCycle - 1 : CutReads(j, b, to)
  BY DEF PlanNext, StartPlanCycle, RecoverPlanCycle, RunPlanNow, UnstickPlan, RestartCycle, BuildLevel,
         StepRefused, StepFoundDone, Builds, CycleWaits, PlanComplete, SyncReservations, SyncFails,
         ReschedulePlan, EndPlanCycle, PlanFails, Concluded, BuilderDies, MergeReads,
         MergeSaves, Reserve, CancelPlan
<1> QED
  BY <1>2, <1>3, <1>4

LEMMA EditingNext ==
    ASSUME PlanInv, PlanNext
    PROVE  /\ editing' \in Request /\ InputsFit(editing'.base) /\ InputsFit(editing'.inputs)
           /\ editing'.at \in {"none", "saving"}
           /\ editing'.at = "saving" => editing'.target \in Cycles
           /\ \A p \in editing'.inputs.patch : p.goal = editing'.inputs.goal
<1>0. ShapeOK /\ CountedOK /\ RequestsOK
  BY DEF PlanInv
<1>1. CASE UNCHANGED editing
  BY <1>0, <1>1 DEF ShapeOK, RequestsOK
<1>2. CASE editing' = NoRequest
  <2>1. /\ NoRequest \in Request /\ NoRequest.base = NoInputs /\ NoRequest.inputs = NoInputs
        /\ NoRequest.at = "none" /\ NoInputs.patch = {}
    BY NoInputsFit DEF NoRequest, Request, InputsFit, NoInputs
  <2> QED
    BY <1>2, <2>1, NoInputsFit
<1>3. ASSUME NEW j \in Cycle, NEW b \in Building, NEW to \in Level, NEW t \in FindActive(j), NEW floor \in Nat,
             to < cycle[t].inputs.goal[b],
             editing' = [at |-> "saving", target |-> t, base |-> cycle[t].inputs,
                         inputs |-> CutOf(cycle[t].inputs, b, to, floor)]
      PROVE  /\ editing' \in Request /\ InputsFit(editing'.base) /\ InputsFit(editing'.inputs)
             /\ editing'.at = "saving" /\ editing'.target \in Cycles
             /\ \A p \in editing'.inputs.patch : p.goal = editing'.inputs.goal
  <2>1. t \in Cycles /\ t \in Cycle
    BY LiveCycles DEF LivePlan
  <2>2. PICK read : read = cycle[t].inputs
    OBVIOUS
  <2>3. InputsFit(read) /\ to < read.goal[b]
    BY <1>0, <1>3, <2>1, <2>2 DEF ShapeOK
  <2>4. PICK new : new = CutOf(read, b, to, floor)
    OBVIOUS
  <2>5. InputsFit(new) /\ \A p \in new.patch : p.goal = new.goal
    BY <2>3, <2>4, CutFits
  <2>6. editing' = [at |-> "saving", target |-> t, base |-> read, inputs |-> new]
    BY <1>3, <2>2, <2>4
  <2> QED
    BY <2>1, <2>3, <2>5, <2>6 DEF Request, InputsFit
<1> QED
  BY <1>0, <1>1, <1>2, <1>3, EditingMoves

LEMMA MergingMoves ==
    ASSUME PlanNext
    PROVE  \/ UNCHANGED merging
           \/ MergeSaves /\ merging' = [merging EXCEPT !.at = "reserving"]
           \/ Reserve /\ merging' = NoRequest
           \/ /\ merging = NoRequest /\ LivePlan # {}
              /\ \E b \in Building, to \in Level : MergeReads(b, to)
BY ZenonT(40) DEF PlanNext, StartPlanCycle, RecoverPlanCycle, RunPlanNow, UnstickPlan, RestartCycle, BuildLevel,
       StepRefused, StepFoundDone, Builds, CycleWaits, PlanComplete, SyncReservations, SyncFails,
       ReschedulePlan, EndPlanCycle, PlanFails, Concluded, BuilderDies, MergeReads, CutReads,
       CutSaves, MergeSaves, Reserve, CancelPlan

LEMMA MergingNext ==
    ASSUME PlanInv, PlanNext
    PROVE  /\ merging' \in Request /\ InputsFit(merging'.base) /\ InputsFit(merging'.inputs)
           /\ merging'.at # "none" => merging'.target \in Cycles
<1>0. ShapeOK /\ CountedOK /\ RequestsOK
  BY DEF PlanInv
<1>1. CASE UNCHANGED merging
  BY <1>0, <1>1 DEF ShapeOK, RequestsOK
<1>2. CASE merging' = NoRequest
  <2>1. /\ NoRequest \in Request /\ NoRequest.base = NoInputs /\ NoRequest.inputs = NoInputs
        /\ NoRequest.at = "none"
    BY NoInputsFit DEF NoRequest, Request, InputsFit
  <2> QED
    BY <1>2, <2>1, NoInputsFit
<1>3. CASE MergeSaves /\ merging' = [merging EXCEPT !.at = "reserving"]
  <2>1. merging.at = "saving"
    BY <1>3 DEF MergeSaves
  <2> QED
    BY <1>0, <1>3, <2>1 DEF ShapeOK, RequestsOK, Request
<1>4. ASSUME NEW b \in Building, NEW to \in Level, MergeReads(b, to)
      PROVE  /\ merging' \in Request /\ InputsFit(merging'.base) /\ InputsFit(merging'.inputs)
             /\ merging'.target \in Cycles
  <2> DEFINE t == Max(LivePlan)
  <2>1. t \in Cycles /\ t \in Cycle
    <3>1. LivePlan \in SUBSET (0 .. MaxCycles) /\ LivePlan # {}
      <4>1. LivePlan # {}
        BY <1>4 DEF MergeReads
      <4>2. LivePlan \in SUBSET (0 .. MaxCycles)
        BY DEF LivePlan
      <4> QED
        BY <4>1, <4>2
    <3>2. Max(LivePlan) \in LivePlan
      BY <3>1, MaxIsGreatest
    <3> QED
      BY <3>2, LiveCycles DEF LivePlan
  <2> DEFINE read == cycle[t].inputs
  <2>2. PICK idx \in Numberings(Steps(MergeOf(read, b, to)), Cardinality(Steps(read.goal)) + 1) :
          merging' = [at |-> "saving", target |-> t, base |-> read,
                      inputs |-> [read EXCEPT !.goal = MergeOf(read, b, to), !.idx = idx]]
    BY <1>4 DEF MergeReads, MergeOf
  <2>3. read.goal[b] = 0 /\ to > level[b]
    BY <1>4 DEF MergeReads
  <2> HIDE DEF t
  <2>4. InputsFit(read) /\ level \in [Building -> Level]
    BY <1>0, <2>1 DEF ShapeOK
  <2> HIDE DEF read
  <2> DEFINE new == [read EXCEPT !.goal = MergeOf(read, b, to), !.idx = idx]
  <2>5. InputsFit(new)
    BY <2>3, <2>4, MergeFits
  <2>6. merging' = [at |-> "saving", target |-> t, base |-> read, inputs |-> new]
    BY <2>2
  <2> HIDE DEF new
  <2> QED
    BY <2>1, <2>4, <2>5, <2>6 DEF Request, InputsFit
<1> QED
  BY <1>1, <1>2, <1>3, <1>4, MergingMoves

\* What was asked for is of the plan's type.
LEMMA AskedNext ==
    ASSUME PlanInv, PlanNext
    PROVE  asked' \in [Building -> Level]
<1>0. ShapeOK
  BY DEF PlanInv
<1>1. /\ asked \in [Building -> Level] /\ editing.inputs \in Inputs /\ merging.inputs \in Inputs
  BY <1>0 DEF ShapeOK, InputsFit
<1>2. editing.inputs.goal \in [Building -> Level] /\ merging.inputs.goal \in [Building -> Level]
  BY <1>1, InputsTyped
<1>3. CASE CutSaves
  BY <1>1, <1>2, <1>3 DEF CutSaves, Asks
<1>4. CASE MergeSaves
  BY <1>1, <1>2, <1>4 DEF MergeSaves
<1>5. UNCHANGED asked \/ CutSaves \/ MergeSaves
  BY DEF PlanNext, StartPlanCycle, RecoverPlanCycle, RunPlanNow, UnstickPlan, RestartCycle, BuildLevel,
         StepRefused, StepFoundDone, Builds, CycleWaits, PlanComplete, SyncReservations, SyncFails,
         ReschedulePlan, EndPlanCycle, PlanFails, Concluded, BuilderDies, MergeReads, CutReads,
         Reserve, CancelPlan
<1> QED
  BY <1>1, <1>3, <1>4, <1>5

LEMMA ShapeNext ==
    ASSUME PlanInv, PlanNext
    PROVE  ShapeOK' /\ CountedOK' /\ RequestsOK'
<1>1. ShapeOK'
  BY CyclesNext, BuilderNext, LevelMoves, EditingNext, MergingNext, AskedNext DEF ShapeOK
<1>2. RequestsOK'
  BY CyclesNext, EditingNext, MergingNext DEF RequestsOK
<1> QED
  BY <1>1, <1>2, CyclesNext

-----------------------------------------------------------------------------
(* Which cycles have a follow-up *)

\* A step that leaves the cycles alone.
LEMMA CyclesStay ==
    ASSUME CountedOK, UNCHANGED cycle
    PROVE  SameOrder /\ LivePlan' = LivePlan
BY OrderStays DEF LivePlan

\* A final report: the cycle is over, and the agent with it.
LEMMA ReportCycles ==
    ASSUME ShapeOK, CountedOK, FollowUpsOK, EndPlanCycle \/ PlanFails, NEW h, h = Here
    PROVE  /\ builder' = AtRest /\ h \in Cycle /\ SameOrder /\ cycle' \in [Cycle -> CycleRecord]
           /\ \A k \in Cycle :
                 /\ cycle'[k].status = IF k = h /\ cycle[h].status = "running"
                                         THEN IF EndPlanCycle THEN "finished" ELSE "error"
                                         ELSE cycle[k].status
                 /\ cycle'[k].inputs = cycle[k].inputs /\ cycle'[k].sent = cycle[k].sent
<1>1. builder.at # "idle" /\ h \in Cycle
  BY DEF EndPlanCycle, PlanFails, FollowUpsOK
<1> DEFINE outcome == IF EndPlanCycle THEN "finished" ELSE "error"
<1>2. Concluded(outcome) /\ builder' = AtRest
  BY DEF EndPlanCycle, PlanFails, Concluded
<1>3. outcome \in CycleStatus \ {"none"}
  BY DEF CycleStatus
<1> HIDE DEF outcome
<1> DEFINE S == IF cycle[h].status = "running" THEN {h} ELSE {}
<1>4. Turned(S, outcome)
  BY <1>1, <1>2, ReportTurns DEF Reported
<1>5. S \in SUBSET Cycles
  BY <1>1 DEF Cycles
<1>6. \A k \in Cycle : k \in S <=> k = h /\ cycle[h].status = "running"
  OBVIOUS
<1> HIDE DEF S
<1>7. /\ cycle' \in [Cycle -> CycleRecord] /\ SameOrder
      /\ \A k \in Cycle : /\ cycle'[k].status = IF k \in S THEN outcome ELSE cycle[k].status
                          /\ cycle'[k].inputs = cycle[k].inputs /\ cycle'[k].sent = cycle[k].sent
  BY <1>3, <1>4, <1>5, TurnedCycles
<1> QED
  BY <1>1, <1>2, <1>6, <1>7 DEF outcome

\* A start, and the cancellation of the plan.
LEMMA StartCycles ==
    ASSUME ShapeOK, CountedOK, NEW j \in Cycle, StartPlanCycle(j)
    PROVE  /\ j \in Cycles /\ cycle[j].status \in {"queued", "scheduled"} /\ SameOrder
           /\ \A k \in Cycle : /\ cycle'[k].status = IF k = j THEN "running" ELSE cycle[k].status
                               /\ cycle'[k].inputs = cycle[k].inputs /\ cycle'[k].sent = cycle[k].sent
           /\ builder = AtRest /\ builder'.at = "working" /\ builder'.cycle = j
<1>1. j \in Cycles /\ Turned({j}, "running")
  BY StartTurns
<1>2. "running" \in CycleStatus \ {"none"}
  BY DEF CycleStatus
<1>3. /\ SameOrder
      /\ \A k \in Cycle : /\ cycle'[k].status = IF k \in {j} THEN "running" ELSE cycle[k].status
                          /\ cycle'[k].inputs = cycle[k].inputs /\ cycle'[k].sent = cycle[k].sent
  BY <1>1, <1>2, TurnedCycles
<1>4. builder = AtRest /\ builder'.at = "working" /\ builder'.cycle = j
  BY DEF StartPlanCycle, AtRest
<1> QED
  BY <1>1, <1>3, <1>4 DEF StartPlanCycle

LEMMA CancelCycles ==
    ASSUME ShapeOK, CountedOK, CancelPlan
    PROVE  /\ SameOrder /\ LivePlan' = {}
           /\ \A k \in Cycle : /\ cycle'[k].status = IF k \in LivePlan THEN "cancelled" ELSE cycle[k].status
                               /\ cycle'[k].inputs = cycle[k].inputs /\ cycle'[k].sent = cycle[k].sent
<1>1. Turned(LivePlan, "cancelled")
  BY DEF CancelPlan, Turned
<1>2. "cancelled" \in CycleStatus \ {"none"}
  BY DEF CycleStatus
<1>3. /\ SameOrder
      /\ \A k \in Cycle : /\ cycle'[k].status = IF k \in LivePlan THEN "cancelled" ELSE cycle[k].status
                          /\ cycle'[k].inputs = cycle[k].inputs /\ cycle'[k].sent = cycle[k].sent
  BY <1>1, <1>2, LiveCycles, TurnedCycles
<1>4. LivePlan' = {}
  BY <1>3 DEF LivePlan
<1> QED
  BY <1>3, <1>4

\* A request writes the inputs of one cycle.
LEMMA SaveCycles ==
    ASSUME ShapeOK, CountedOK, RequestsOK, CutSaves \/ MergeSaves, NEW t, NEW i,
           \/ CutSaves /\ t = editing.target /\ i = editing.inputs
           \/ MergeSaves /\ t = merging.target /\ i = merging.inputs
    PROVE  /\ t \in Cycles /\ t \in Cycle /\ InputsFit(i) /\ SameOrder /\ LivePlan' = LivePlan
           /\ \A k \in Cycle : /\ cycle'[k].status = cycle[k].status
                               /\ cycle'[k].inputs = IF k = t THEN i ELSE cycle[k].inputs
                               /\ cycle'[k].sent = cycle[k].sent
<1>1. t \in Cycles /\ t \in Cycle /\ i \in Inputs /\ InputsFit(i)
  BY DEF RequestsOK, CutSaves, MergeSaves, Cycles, ShapeOK, InputsFit
<1>2. cycle' = [cycle EXCEPT ![t].inputs = i]
  BY DEF CutSaves, MergeSaves
<1>3. /\ SameOrder
      /\ \A k \in Cycle : /\ cycle'[k].status = cycle[k].status
                          /\ cycle'[k].inputs = IF k = t THEN i ELSE cycle[k].inputs
                          /\ cycle'[k].sent = cycle[k].sent
  BY <1>1, <1>2, WrittenCycles
<1>4. LivePlan' = LivePlan
  BY <1>3 DEF LivePlan
<1> QED
  BY <1>1, <1>3, <1>4

LEMMA FollowUpsNext ==
    ASSUME PlanInv, PlanNext
    PROVE  FollowUpsOK'
<1>0. ShapeOK /\ CountedOK /\ FollowUpsOK /\ RequestsOK
  BY DEF PlanInv
<1>1. ASSUME NEW j \in Cycle, StartPlanCycle(j) PROVE FollowUpsOK'
  <2>1. FollowUps(j) = {} /\ builder'.cycle = j /\ builder'.at = "working"
    BY <1>0, <1>1, StartCycles DEF FollowUpsOK
  <2>2. cycle'[j].status = "running" /\ FollowUps(j)' = {} /\ Here' = j
    BY <1>0, <1>1, <2>1, StartCycles DEF SameOrder, Here
  <2>3. \A k \in Cycle : cycle'[k].status \in {"queued", "scheduled"} => FollowUps(k)' = {}
    BY <1>0, <1>1, StartCycles DEF SameOrder, FollowUpsOK
  <2>4. FollowUps(Here)' = {}
    BY <2>2 DEF FollowUps, Here
  <2> QED
    BY <1>0, <2>1, <2>2, <2>3, <2>4 DEF FollowUpsOK
<1>2. ASSUME EndPlanCycle \/ PlanFails PROVE FollowUpsOK'
  <2>1. PICK h : h = Here
    OBVIOUS
  <2>2. \A k \in Cycle : cycle'[k].status \in {"queued", "scheduled"} => FollowUps(k)' = {}
    BY <1>0, <1>2, <2>1, ReportCycles DEF SameOrder, FollowUpsOK
  <2>3. builder' = AtRest /\ AtRest.at = "idle"
    BY <1>0, <1>2, <2>1, ReportCycles DEF AtRest
  <2> QED
    BY <2>2, <2>3 DEF FollowUpsOK
<1>3. ASSUME BuilderDies PROVE FollowUpsOK'
  <2>1. builder' = AtRest /\ AtRest.at = "idle" /\ UNCHANGED cycle
    BY <1>3 DEF BuilderDies, AtRest
  <2> QED
    BY <1>0, <2>1, CyclesStay DEF FollowUpsOK, SameOrder
\* A cycle that is over, or whose agent is gone, gets a follow-up.
<1>4. ASSUME NEW n \in Cycle, NEW j \in Cycles, j # Here, NEW status, NEW i,
             Joined(n, j, {j}, status, i), UNCHANGED builder
      PROVE  FollowUpsOK'
  <2>1. n \in Cycle \ Cycles /\ j \in Cycle /\ cycle'[j].status = "cancelled"
    BY <1>4 DEF Joined, Cycles
  <2>2. \A k \in Cycle : cycle'[k].status \in {"queued", "scheduled"} => FollowUps(k)' = {}
    BY <1>0, <1>4, <2>1 DEF Joined, FollowUpsOK
  <2>3. ASSUME builder.at # "idle"
        PROVE  /\ Here \in Cycle /\ cycle'[Here].status \in {"running", "cancelled"}
               /\ builder.at # "ending" => FollowUps(Here)' = {}
    <3>1. PICK h : h = Here
      OBVIOUS
    <3>2. h \in Cycle /\ cycle[h].status \in {"running", "cancelled"} /\ h # n /\ h # j
      BY <1>0, <1>4, <2>1, <2>3, <3>1 DEF FollowUpsOK, Cycles
    <3>3. builder.at # "ending" => FollowUps(h) = {}
      BY <1>0, <2>3, <3>1 DEF FollowUpsOK
    <3>4. FollowUps(h)' = FollowUps(h) /\ cycle'[h].status = cycle[h].status
      BY <1>4, <3>2 DEF Joined
    <3>5. builder.at # "ending" => FollowUps(Here)' = {}
      BY <1>4, <3>1, <3>3, <3>4 DEF FollowUps, Here
    <3> QED
      BY <3>1, <3>2, <3>4, <3>5
  <2> QED
    BY <1>0, <1>4, <2>2, <2>3 DEF FollowUpsOK, Here
\* Some cycles are cancelled.
<1>5. ASSUME SameOrder, UNCHANGED builder,
             \A k \in Cycle : cycle'[k].status \in {cycle[k].status, "cancelled"}
      PROVE  FollowUpsOK'
  <2>1. \A k \in Cycle : cycle'[k].status \in {"queued", "scheduled"} => FollowUps(k)' = {}
    BY <1>0, <1>5 DEF SameOrder, FollowUpsOK
  <2>2. ASSUME builder.at # "idle"
        PROVE  /\ Here \in Cycle /\ cycle'[Here].status \in {"running", "cancelled"}
               /\ builder.at # "ending" => FollowUps(Here)' = {}
    <3>1. PICK h : h = Here
      OBVIOUS
    <3>2. h \in Cycle /\ cycle[h].status \in {"running", "cancelled"}
      BY <1>0, <2>2, <3>1 DEF FollowUpsOK
    <3>3. builder.at # "ending" => FollowUps(h)' = {}
      BY <1>0, <1>5, <2>2, <3>1, <3>2 DEF FollowUpsOK, SameOrder
    <3>4. FollowUps(Here)' = FollowUps(h)'
      BY <1>5, <3>1 DEF FollowUps, Here
    <3> QED
      BY <1>5, <3>1, <3>2, <3>3, <3>4
  <2> QED
    BY <1>0, <1>5, <2>1, <2>2 DEF FollowUpsOK, Here
<1>6. ASSUME NEW j \in Cycle, RecoverPlanCycle(j) PROVE FollowUpsOK'
  <2>0. UNCHANGED builder /\ j \in Cycles /\ j # Here
    BY <1>0, <1>6, RecoverJoins DEF RecoverPlanCycle
  <2>1. CASE Turned({j}, "cancelled")
    <3>1. "cancelled" \in CycleStatus \ {"none"}
      BY DEF CycleStatus
    <3>2. /\ SameOrder
          /\ \A k \in Cycle : cycle'[k].status = IF k \in {j} THEN "cancelled" ELSE cycle[k].status
      <4>1. {j} \in SUBSET Cycles
        BY <2>0
      <4> QED
        BY <1>0, <2>1, <3>1, <4>1, TurnedCycles
    <3> QED
      BY <1>5, <2>0, <3>2
  <2>2. CASE \E n \in Cycle : Joined(n, j, {j}, "scheduled", cycle[j].inputs)
    BY <1>4, <2>0, <2>2
  <2> QED
    BY <1>0, <1>6, <2>1, <2>2, RecoverJoins
<1>7. ASSUME NEW j \in Cycle, RunPlanNow(j) \/ UnstickPlan(j) PROVE FollowUpsOK'
  <2>1. /\ UNCHANGED builder /\ j \in Cycles /\ j # Here
        /\ \E to \in {"queued", "scheduled"} : \E n \in Cycle :
              Joined(n, j, {j}, to, cycle[j].inputs)
    <3>1. CASE RunPlanNow(j)
      BY <1>0, <3>1, RestartJoins DEF RunPlanNow, RestartCycle
    <3>2. CASE UnstickPlan(j)
      BY <1>0, <3>2, RestartJoins DEF UnstickPlan, RestartCycle
    <3> QED
      BY <1>7, <3>1, <3>2
  <2> QED
    BY <1>4, <2>1
<1>8. ASSUME CancelPlan PROVE FollowUpsOK'
  <2>1. UNCHANGED builder
    BY <1>8 DEF CancelPlan
  <2>2. SameOrder /\ \A k \in Cycle : cycle'[k].status \in {cycle[k].status, "cancelled"}
    BY <1>0, <1>8, CancelCycles
  <2> QED
    BY <1>5, <2>1, <2>2
<1>9. ASSUME CutSaves \/ MergeSaves PROVE FollowUpsOK'
  <2>1. UNCHANGED builder
    BY <1>9 DEF CutSaves, MergeSaves
  <2>2. SameOrder /\ \A k \in Cycle : cycle'[k].status \in {cycle[k].status, "cancelled"}
    BY <1>0, <1>9, SaveCycles
  <2> QED
    BY <1>5, <2>1, <2>2
<1>10. ASSUME UNCHANGED cycle, builder'.cycle = builder.cycle, builder'.at # "idle",
              builder.at \notin {"idle", "ending"}
       PROVE  FollowUpsOK'
  <2>1. /\ Here \in Cycle /\ cycle[Here].status \in {"running", "cancelled"} /\ FollowUps(Here) = {}
    BY <1>0, <1>10 DEF FollowUpsOK
  <2>2. FollowUps(Here)' = FollowUps(Here) /\ Here' = Here
    BY <1>10 DEF FollowUps, Here
  <2> QED
    BY <1>0, <1>10, <2>1, <2>2, CyclesStay DEF FollowUpsOK, SameOrder
<1>11. ASSUME ReschedulePlan PROVE FollowUpsOK'
  <2>1. PICK h : h = Here
    OBVIOUS
  <2>2. /\ builder'.cycle = h /\ builder'.at = "ending" /\ h \in Cycles /\ h \in Cycle
        /\ cycle[h].status \in {"running", "cancelled"}
    <3>1. builder \in BuilderRecord
      BY <1>0 DEF ShapeOK
    <3>2. builder'.cycle = h /\ builder'.at = "ending"
      BY <1>11, <2>1, <3>1 DEF ReschedulePlan, BuilderRecord, Here
    <3> QED
      BY <1>0, <1>11, <2>1, <3>2, RescheduleJoins DEF FollowUpsOK, ReschedulePlan, Cycles
  <2>3. CASE UNCHANGED cycle
    <3>1. builder.at \notin {"idle", "ending"}
      BY <1>11 DEF ReschedulePlan
    <3> QED
      BY <1>10, <2>1, <2>2, <2>3, <3>1 DEF Here
  <2>4. ASSUME NEW n \in Cycle, Joined(n, h, {}, "scheduled", NextInputs) PROVE FollowUpsOK'
    <3>1. n # h /\ cycle'[h].status = cycle[h].status
      BY <2>2, <2>4 DEF Joined
    <3>2. \A k \in Cycle : cycle'[k].status \in {"queued", "scheduled"} => FollowUps(k)' = {}
      BY <1>0, <2>2, <2>4, <3>1 DEF Joined, FollowUpsOK
    <3> QED
      BY <2>2, <3>1, <3>2 DEF FollowUpsOK, Here
  <2> QED
    BY <1>0, <1>11, <2>1, <2>3, <2>4, RescheduleJoins
<1>12. ASSUME \/ \E b \in Building : BuildLevel(b) \/ StepRefused(b) \/ StepFoundDone(b)
              \/ CycleWaits \/ PlanComplete \/ SyncReservations \/ SyncFails
       PROVE  FollowUpsOK'
  <2>1. builder \in BuilderRecord
    BY <1>0 DEF ShapeOK
  <2>2. UNCHANGED cycle /\ builder'.cycle = builder.cycle /\ builder'.at # "idle"
    BY <1>12, <2>1 DEF BuildLevel, StepRefused, StepFoundDone, Builds, CycleWaits, PlanComplete,
                       SyncReservations, SyncFails, AfterSync, BuilderRecord
  <2>3. builder.at \notin {"idle", "ending"}
    BY <1>12 DEF BuildLevel, StepRefused, StepFoundDone, Builds, CycleWaits, PlanComplete,
                 SyncReservations, SyncFails
  <2> QED
    BY <1>10, <2>2, <2>3
<1>13. ASSUME \/ \E b \in Building, to \in Level :
                   MergeReads(b, to) \/ \E j \in 1 .. NextCycle - 1 : CutReads(j, b, to)
              \/ Reserve
       PROVE  FollowUpsOK'
  <2>1. UNCHANGED <<cycle, builder>>
    BY <1>13 DEF MergeReads, CutReads, Reserve
  <2>2. \A k \in Cycle : cycle'[k].status \in {cycle[k].status, "cancelled"}
    BY <2>1
  <2> QED
    BY <1>0, <1>5, <2>1, <2>2, CyclesStay
<1> QED
  BY <1>1, <1>2, <1>3, <1>6, <1>7, <1>8, <1>9, <1>11, <1>12, <1>13 DEF PlanNext

-----------------------------------------------------------------------------
(* The leaves of the chain *)

\* A live cycle without follow-up is the newest, which never has one.
LEMMA LeafIsNewest ==
    ASSUME CountedOK, LeafOK, Without({"forked"})
    PROVE  /\ FollowUps(Newest) = {}
           /\ \A j \in LivePlan : FollowUps(j) = {} => j = Newest
<1>1. Newest \in Cycle /\ Cycles = 1 .. Newest
  BY NewestIs
<1>2. ASSUME NEW k \in FollowUps(Newest) PROVE FALSE
  <2>1. k \in Cycle /\ cycle[k].source = Newest /\ Newest # 0
    BY <1>1 DEF FollowUps
  <2>2. Newest < k /\ k \in 1 .. Newest
    BY <1>1, <2>1 DEF CountedOK
  <2> QED
    BY <1>1, <2>2
<1> QED
  BY <1>2 DEF LeafOK

\* The next cycle keeps the leaves in order when it follows a live leaf, or the only
\* live cycle.
LEMMA LeafJoined ==
    ASSUME ShapeOK, CountedOK, LeafOK, Without({"forked"}),
           NEW n, NEW j \in Cycles, NEW S, NEW status, NEW i, Joined(n, j, S, status, i),
           j \in LivePlan, FollowUps(j) = {} \/ LivePlan = {j}
    PROVE  \A k \in LivePlan' : k = Newest' \/ FollowUps(k)' # {}
<1> SUFFICES ASSUME NEW k \in Cycle, cycle'[k].status \in {"queued", "scheduled", "running"}, k # n
             PROVE  FollowUps(k)' # {}
  BY DEF LivePlan, Joined
<1>1. CASE k = j
  BY <1>1 DEF Joined
<1>2. CASE k # j
  <2>1. FollowUps(k)' = FollowUps(k) /\ k \in LivePlan
    BY <1>2 DEF Joined, LivePlan
  <2>2. LivePlan # {j} /\ FollowUps(j) = {}
    BY <1>2, <2>1
  <2>3. j = Newest
    BY <2>2, LeafIsNewest
  <2> QED
    BY <1>2, <2>1, <2>3 DEF LeafOK
<1> QED
  BY <1>1, <1>2

LEMMA LeafNext ==
    ASSUME PlanInv, PlanNext
    PROVE  LeafOK'
<1>0. ShapeOK /\ CountedOK /\ FollowUpsOK /\ RequestsOK /\ LeafOK
  BY DEF PlanInv
<1> SUFFICES ASSUME "forked" \notin planTrouble'
             PROVE  \A k \in LivePlan' : k = Newest' \/ FollowUps(k)' # {}
  BY DEF LeafOK, Without
<1>f. Without({"forked"})
  BY LevelMoves DEF Without
<1>1. ASSUME SameOrder, LivePlan' \subseteq LivePlan
      PROVE  \A k \in LivePlan' : k = Newest' \/ FollowUps(k)' # {}
  <2>1. \A k \in LivePlan : k \in Cycle /\ (k = Newest \/ FollowUps(k) # {})
    BY <1>0, <1>f DEF LeafOK, LivePlan
  <2> QED
    BY <1>1, <2>1 DEF SameOrder
<1>2. ASSUME NEW j \in Cycle, StartPlanCycle(j) PROVE LivePlan' \subseteq LivePlan /\ SameOrder
  BY <1>0, <1>2, StartCycles DEF LivePlan
<1>3. ASSUME EndPlanCycle \/ PlanFails PROVE LivePlan' \subseteq LivePlan /\ SameOrder
  <2>1. PICK h : h = Here
    OBVIOUS
  <2>2. /\ SameOrder
        /\ \A k \in Cycle : cycle'[k].status \in {cycle[k].status, "finished", "error"}
    BY <1>0, <1>3, <2>1, ReportCycles
  <2> QED
    BY <2>2 DEF LivePlan
<1>4. ASSUME NEW j \in Cycle, RecoverPlanCycle(j)
      PROVE  \A k \in LivePlan' : k = Newest' \/ FollowUps(k)' # {}
  <2>1. j \in LivePlan /\ j \in Cycles
    BY <1>0, <1>4, RecoverJoins DEF LivePlan
  <2>2. CASE Turned({j}, "cancelled")
    <3>1. "cancelled" \in CycleStatus \ {"none"} /\ {j} \in SUBSET Cycles
      BY <2>1 DEF CycleStatus
    <3>2. /\ SameOrder
          /\ \A k \in Cycle : cycle'[k].status = IF k \in {j} THEN "cancelled" ELSE cycle[k].status
      BY <1>0, <2>2, <3>1, TurnedCycles
    <3>3. LivePlan' \subseteq LivePlan
      BY <3>2 DEF LivePlan
    <3> QED
      BY <1>1, <3>2, <3>3
  <2>3. CASE /\ LivePlan = {j}
             /\ \E n \in Cycle : Joined(n, j, {j}, "scheduled", cycle[j].inputs)
    <3>1. PICK n \in Cycle : Joined(n, j, {j}, "scheduled", cycle[j].inputs)
      BY <2>3
    <3> QED
      BY <1>0, <1>f, <2>1, <2>3, <3>1, LeafJoined
  <2> QED
    BY <1>0, <1>4, <2>2, <2>3, RecoverJoins
<1>5. ASSUME NEW j \in Cycle, NEW from \in {"scheduled", "running"},
             NEW to \in {"queued", "scheduled"}, NEW rows, RestartCycle(j, from, to, rows)
      PROVE  \A k \in LivePlan' : k = Newest' \/ FollowUps(k)' # {}
  <2>1. j \in LivePlan /\ j \in Cycles /\ FollowUps(j) = {}
    BY <1>0, <1>5, RestartJoins DEF LivePlan
  <2>2. PICK n \in Cycle : Joined(n, j, {j}, to, cycle[j].inputs)
    BY <1>0, <1>5, RestartJoins
  <2> QED
    BY <1>0, <1>f, <2>1, <2>2, LeafJoined
<1>6. ASSUME ReschedulePlan
      PROVE  \A k \in LivePlan' : k = Newest' \/ FollowUps(k)' # {}
  <2>1. PICK h : h = Here
    OBVIOUS
  <2>2. h \in Cycles /\ FollowUps(h) = {}
    BY <1>0, <1>6, <2>1, RescheduleJoins DEF FollowUpsOK, ReschedulePlan
  <2>3. CASE UNCHANGED cycle
    BY <1>0, <1>1, <2>3, CyclesStay
  <2>4. ASSUME NEW n \in Cycle, Joined(n, h, {}, "scheduled", NextInputs), cycle[h].status = "running"
        PROVE  \A k \in LivePlan' : k = Newest' \/ FollowUps(k)' # {}
    <3>1. h \in LivePlan
      BY <2>2, <2>4 DEF LivePlan, Cycles
    <3> QED
      BY <1>0, <1>f, <2>2, <2>4, <3>1, LeafJoined
  <2> QED
    BY <1>0, <1>6, <2>1, <2>3, <2>4, RescheduleJoins
<1>7. ASSUME CancelPlan PROVE LivePlan' \subseteq LivePlan /\ SameOrder
  BY <1>0, <1>7, CancelCycles
<1>8. ASSUME CutSaves \/ MergeSaves PROVE LivePlan' \subseteq LivePlan /\ SameOrder
  BY <1>0, <1>8, SaveCycles
<1>9. ASSUME UNCHANGED cycle PROVE LivePlan' \subseteq LivePlan /\ SameOrder
  BY <1>0, <1>9, CyclesStay
<1>10. ASSUME NEW j \in Cycle, RunPlanNow(j) \/ UnstickPlan(j)
       PROVE  \A k \in LivePlan' : k = Newest' \/ FollowUps(k)' # {}
  BY <1>5, <1>10 DEF RunPlanNow, UnstickPlan
<1> QED
  BY <1>1, <1>2, <1>3, <1>4, <1>6, <1>7, <1>8, <1>9, <1>10
     DEF PlanNext, BuildLevel, StepRefused, StepFoundDone, CycleWaits, PlanComplete, Builds,
         SyncReservations, SyncFails, BuilderDies, MergeReads, CutReads, Reserve

-----------------------------------------------------------------------------
(* What is reserved *)

LEMMA MovedNext ==
    ASSUME MovedOK, PlanNext
    PROVE  MovedOK'
<1> SUFFICES ASSUME "moved" \notin planTrouble'
             PROVE  reserved' \subseteq {PlanRoot}
  BY DEF MovedOK, Without
<1>1. planTrouble \subseteq planTrouble'
  BY DEF PlanNext, StartPlanCycle, RecoverPlanCycle, RunPlanNow, UnstickPlan, RestartCycle, BuildLevel,
         StepRefused, StepFoundDone, Builds, CycleWaits, PlanComplete, SyncReservations, SyncFails,
         ReschedulePlan, EndPlanCycle, PlanFails, Concluded, BuilderDies, MergeReads, CutReads,
         CutSaves, MergeSaves, Reserve, CancelPlan, Blames
<1>2. reserved \subseteq {PlanRoot}
  BY <1>1 DEF MovedOK, Without
<1>3. CASE Reserve
  <2>1. merging.target = PlanRoot
    BY <1>3 DEF Reserve, Blames, If
  <2> QED
    BY <1>3, <2>1 DEF Reserve
<1>4. CASE SyncReservations
  BY <1>2, <1>4 DEF SyncReservations
<1>5. CASE reserved' \subseteq reserved
  BY <1>2, <1>5
<1>6. reserved' \subseteq reserved \/ SyncReservations \/ Reserve
  BY DEF PlanNext, StartPlanCycle, RecoverPlanCycle, RunPlanNow, UnstickPlan, RestartCycle, BuildLevel,
         StepRefused, StepFoundDone, Builds, CycleWaits, PlanComplete, SyncFails,
         ReschedulePlan, EndPlanCycle, PlanFails, Concluded, BuilderDies, MergeReads, CutReads,
         CutSaves, MergeSaves, CancelPlan
<1> QED
  BY <1>3, <1>4, <1>5, <1>6

\* What ReservedOK says of a cycle h that is about to end.
EndsWell(h) ==
    \/ FollowUps(h) = {} /\ reserved = {}
    \/ FollowUps(h) # {} /\ cycle[Newest].status \in {"queued", "scheduled"}

LEMMA ReservedNext ==
    ASSUME PlanInv, PlanNext
    PROVE  ReservedOK'
<1>0. ShapeOK /\ CountedOK /\ FollowUpsOK /\ RequestsOK /\ LeafOK /\ MovedOK
  BY DEF PlanInv
<1> DEFINE Live == LivePlan' = {} => reserved' = {}
<1> DEFINE Ends == builder'.at = "ending" => \E h : h = builder'.cycle /\ (cycle'[h].status = "running" => EndsWell(h)')
<1>a. Live /\ Ends => ReservedOK'
  <2> SUFFICES ASSUME Live, Ends, builder'.at = "ending", cycle'[builder'.cycle].status = "running"
               PROVE  \/ FollowUps(Here)' = {} /\ reserved' = {}
                      \/ FollowUps(Here)' # {} /\ cycle'[Newest'].status \in {"queued", "scheduled"}
    BY DEF ReservedOK, Here
  <2>1. PICK h : h = builder'.cycle /\ (cycle'[h].status = "running" => EndsWell(h)')
    OBVIOUS
  <2>2. FollowUps(Here)' = FollowUps(h)'
    BY <2>1 DEF FollowUps, Here
  <2> QED
    BY <2>1, <2>2 DEF EndsWell
<1> SUFFICES ASSUME Troubles \cap planTrouble' = {} PROVE Live /\ Ends
  BY <1>a DEF ReservedOK, Without
<1> HIDE DEF Live, Ends
<1>t. Troubles \cap planTrouble = {} /\ Without({"forked"}) /\ Without({"moved"})
  BY LevelMoves DEF Troubles, Without
<1>l. LivePlan = {} => reserved = {}
  BY <1>t DEF PlanInv, ReservedOK, Without
<1>e. ASSUME builder.at = "ending", NEW h, h = Here, cycle[h].status = "running" PROVE EndsWell(h)
  BY <1>e, <1>t DEF PlanInv, ReservedOK, Without, EndsWell
<1>n. Newest \in Cycle
  BY <1>0, NewestIs
<1>1. ASSUME SameOrder, UNCHANGED <<builder, reserved>>, LivePlan' = LivePlan,
             \A k \in Cycle : cycle'[k].status = cycle[k].status
      PROVE  Live /\ Ends
  <2>1. Live
    BY <1>l, <1>1 DEF Live
  <2>2. ASSUME builder'.at = "ending", NEW h, h = builder'.cycle, cycle'[h].status = "running"
        PROVE  EndsWell(h)'
    <3>1. h = Here /\ builder.at = "ending" /\ h \in Cycle
      BY <1>0, <1>1, <2>2 DEF Here, FollowUpsOK
    <3>2. EndsWell(h)
      BY <1>1, <1>e, <2>2, <3>1
    <3> QED
      BY <1>1, <1>n, <3>1, <3>2 DEF EndsWell, SameOrder
  <2> QED
    BY <2>1, <2>2 DEF Ends
<1>2. ASSUME NEW j \in Cycle, StartPlanCycle(j) PROVE Live /\ Ends
  <2>1. cycle'[j].status = "running" /\ builder'.at = "working"
    BY <1>0, <1>2, StartCycles
  <2>2. j \in LivePlan'
    BY <2>1 DEF LivePlan
  <2> QED
    BY <2>1, <2>2 DEF Live, Ends
<1>3. ASSUME EndPlanCycle \/ PlanFails PROVE Live /\ Ends
  <2>1. PICK h : h = Here
    OBVIOUS
  <2>2. /\ builder' = AtRest /\ h \in Cycle /\ SameOrder /\ AtRest.at = "idle"
        /\ \A k \in Cycle : k # h \/ cycle[h].status # "running" => cycle'[k].status = cycle[k].status
    BY <1>0, <1>3, <2>1, ReportCycles DEF AtRest
  <2>3. EndPlanCycle /\ builder.at = "ending" /\ UNCHANGED reserved
    BY <1>3 DEF PlanFails, Blames, Troubles, EndPlanCycle, Concluded
  <2>4. CASE cycle[h].status # "running"
    <3>1. LivePlan' = LivePlan
      BY <2>2, <2>4 DEF LivePlan
    <3> QED
      BY <1>l, <2>2, <2>3, <3>1 DEF Live, Ends
  <2>5. CASE cycle[h].status = "running" /\ reserved = {}
    BY <2>2, <2>3, <2>5 DEF Live, Ends
  <2>6. CASE cycle[h].status = "running" /\ cycle[Newest].status \in {"queued", "scheduled"}
    <3>1. cycle'[Newest].status \in {"queued", "scheduled"}
      BY <1>n, <2>2, <2>6
    <3>2. Newest \in LivePlan'
      BY <1>n, <3>1 DEF LivePlan
    <3> QED
      BY <2>2, <3>2 DEF Live, Ends
  <2> QED
    BY <1>e, <2>1, <2>3, <2>4, <2>5, <2>6 DEF EndsWell
<1>4. ASSUME BuilderDies PROVE Live /\ Ends
  <2>1. builder' = AtRest /\ AtRest.at = "idle" /\ UNCHANGED <<cycle, reserved>>
    BY <1>4 DEF BuilderDies, AtRest
  <2> QED
    BY <1>0, <1>l, <2>1, CyclesStay DEF Live, Ends
\* A cycle follows one that the agent does not execute.
<1>5. ASSUME NEW n \in Cycle, NEW j \in LivePlan, j # Here, FollowUps(j) = {} \/ LivePlan = {j},
             NEW status \in {"queued", "scheduled"}, NEW i, Joined(n, j, {j}, status, i),
             reserved' \subseteq reserved, UNCHANGED builder
      PROVE  Live /\ Ends
  <2>0. n \in LivePlan' /\ j \in Cycle /\ n \notin Cycles
    BY <1>5 DEF Joined, LivePlan
  <2>1. Live
    BY <2>0 DEF Live
  <2>2. ASSUME builder'.at = "ending", NEW h, h = builder'.cycle, cycle'[h].status = "running"
        PROVE  EndsWell(h)'
    <3>1. h = Here /\ builder.at = "ending" /\ h \in Cycle /\ h \in Cycles
      BY <1>0, <1>5, <2>2 DEF Here, FollowUpsOK, Cycles
    <3>2. h # n /\ h # j
      BY <1>5, <2>0, <3>1
    <3>3. cycle[h].status = "running" /\ FollowUps(h)' = FollowUps(h)
      BY <1>5, <2>2, <3>1, <3>2 DEF Joined
    <3>4. h \in LivePlan
      BY <3>1, <3>3 DEF LivePlan
    <3>5. FollowUps(h) # {}
      BY <1>0, <1>5, <1>t, <3>2, <3>4, LeafIsNewest
    <3>6. Newest' = n /\ cycle'[n].status = status
      BY <1>5 DEF Joined
    <3> QED
      BY <1>5, <3>3, <3>5, <3>6 DEF EndsWell
  <2> QED
    BY <2>1, <2>2 DEF Ends
<1>6. ASSUME NEW j \in Cycle, RecoverPlanCycle(j) PROVE Live /\ Ends
  <2>0. /\ UNCHANGED <<builder, reserved>> /\ j \in Cycles /\ j # Here /\ cycle[j].status = "running"
        /\ j \in LivePlan
    BY <1>0, <1>6, RecoverJoins DEF RecoverPlanCycle, LivePlan
  <2>1. CASE Turned({j}, "cancelled") /\ LivePlan # {j}
    <3>1. "cancelled" \in CycleStatus \ {"none"} /\ {j} \in SUBSET Cycles
      BY <2>0 DEF CycleStatus
    <3>2. /\ SameOrder
          /\ \A k \in Cycle : cycle'[k].status = IF k \in {j} THEN "cancelled" ELSE cycle[k].status
      BY <1>0, <2>1, <3>1, TurnedCycles
    <3>3. \A k \in Cycle \ {j} : cycle'[k].status = cycle[k].status
      BY <3>2
    <3>4. PICK k \in LivePlan : k # j
      BY <2>0, <2>1
    <3>5. k \in LivePlan'
      BY <3>3, <3>4 DEF LivePlan
    <3>6. ASSUME builder'.at = "ending", NEW h, h = builder'.cycle, cycle'[h].status = "running"
          PROVE  EndsWell(h)'
      <4>1. h = Here /\ builder.at = "ending" /\ h \in Cycle /\ h # j
        BY <1>0, <2>0, <3>6 DEF Here, FollowUpsOK
      <4>2. EndsWell(h)
        BY <1>e, <3>3, <3>6, <4>1
      <4>3. cycle[Newest].status \in {"queued", "scheduled"} => cycle'[Newest].status = cycle[Newest].status
        BY <1>n, <2>0, <3>3
      <4> QED
        BY <2>0, <3>2, <4>1, <4>2, <4>3 DEF EndsWell, SameOrder
    <3> QED
      BY <3>5, <3>6 DEF Live, Ends
  <2>2. CASE /\ LivePlan = {j}
             /\ \E n \in Cycle : Joined(n, j, {j}, "scheduled", cycle[j].inputs)
    BY <1>5, <2>0, <2>2
  <2> QED
    BY <1>0, <1>6, <2>1, <2>2, RecoverJoins DEF Troubles
<1>7. ASSUME NEW j \in Cycle, NEW from \in {"scheduled", "running"},
             NEW to \in {"queued", "scheduled"}, NEW rows, RestartCycle(j, from, to, rows),
             rows \subseteq reserved
      PROVE  Live /\ Ends
  <2>1. j \in LivePlan /\ j # Here /\ FollowUps(j) = {}
    BY <1>0, <1>7, RestartJoins DEF LivePlan, Troubles
  <2>2. PICK n \in Cycle : Joined(n, j, {j}, to, cycle[j].inputs)
    BY <1>0, <1>7, RestartJoins
  <2>3. UNCHANGED builder /\ reserved' \subseteq reserved
    BY <1>7 DEF RestartCycle
  <2> QED
    BY <1>5, <2>1, <2>2, <2>3
<1>8. ASSUME NEW j \in Cycle, RunPlanNow(j) \/ UnstickPlan(j) PROVE Live /\ Ends
  <2>1. CASE RunPlanNow(j)
    BY <1>7, <2>1 DEF RunPlanNow
  <2>2. CASE UnstickPlan(j)
    <3>1. reserved \ {j} \subseteq reserved
      OBVIOUS
    <3> QED
      BY <1>7, <2>2, <3>1 DEF UnstickPlan
  <2> QED
    BY <1>8, <2>1, <2>2
<1>9. ASSUME ReschedulePlan PROVE Live /\ Ends
  <2>1. PICK h : h = Here
    OBVIOUS
  <2>2. UNCHANGED reserved /\ builder'.cycle = h /\ h \in Cycles
    <3>1. builder \in BuilderRecord
      BY <1>0 DEF ShapeOK
    <3> QED
      BY <1>0, <1>9, <2>1, <3>1, RescheduleJoins DEF ReschedulePlan, BuilderRecord, Here
  <2>3. CASE cycle[h].status # "running" /\ UNCHANGED cycle
    BY <1>0, <1>l, <2>2, <2>3, CyclesStay DEF Live, Ends
  <2>4. ASSUME NEW n \in Cycle, Joined(n, h, {}, "scheduled", NextInputs) PROVE Live /\ Ends
    <3>1. n \in LivePlan' /\ Newest' = n /\ cycle'[n].status = "scheduled" /\ FollowUps(h)' # {}
      BY <2>4 DEF Joined, LivePlan
    <3>2. EndsWell(h)'
      BY <3>1 DEF EndsWell
    <3> QED
      BY <2>2, <3>1, <3>2 DEF Live, Ends
  <2> QED
    BY <1>0, <1>9, <2>1, <2>3, <2>4, RescheduleJoins
<1>10. ASSUME CancelPlan PROVE Live /\ Ends
  <2>1. /\ reserved' = {} /\ LivePlan' = {} /\ UNCHANGED builder
    BY <1>0, <1>10, CancelCycles DEF CancelPlan
  <2>2. \A k \in Cycle : cycle'[k].status # "running"
    BY <2>1 DEF LivePlan
  <2>3. builder'.at = "ending" => builder'.cycle \in Cycle
    BY <1>0, <2>1 DEF FollowUpsOK, Here
  <2> QED
    BY <2>1, <2>2, <2>3 DEF Live, Ends
<1>11. ASSUME CutSaves \/ MergeSaves PROVE Live /\ Ends
  <2>1. UNCHANGED <<builder, reserved>>
    BY <1>11 DEF CutSaves, MergeSaves
  <2>2. SameOrder /\ LivePlan' = LivePlan /\ \A k \in Cycle : cycle'[k].status = cycle[k].status
    BY <1>0, <1>11, SaveCycles
  <2> QED
    BY <1>1, <2>1, <2>2
<1>12. ASSUME \/ \E b \in Building : BuildLevel(b) \/ StepRefused(b) \/ StepFoundDone(b)
              \/ CycleWaits \/ PlanComplete
       PROVE  Live /\ Ends
  <2>1. builder \in BuilderRecord
    BY <1>0 DEF ShapeOK
  <2>2. UNCHANGED <<cycle, reserved>> /\ builder'.at # "ending"
    BY <1>12, <2>1 DEF BuildLevel, StepRefused, StepFoundDone, Builds, CycleWaits, PlanComplete, BuilderRecord
  <2> QED
    BY <1>0, <1>l, <2>2, CyclesStay DEF Live, Ends
<1>13. ASSUME SyncReservations PROVE Live /\ Ends
  <2>1. Newest \in LivePlan /\ UNCHANGED cycle
    BY <1>13 DEF SyncReservations, Blames, If, Troubles
  <2>2. Live /\ SameOrder
    BY <1>0, <2>1, CyclesStay DEF Live
  <2>3. builder \in BuilderRecord
    BY <1>0 DEF ShapeOK
  <2>4. builder'.at = AfterSync /\ builder'.cycle = Here /\ builder.at \in {"syncing", "last_sync"}
    BY <1>13, <2>3 DEF SyncReservations, BuilderRecord, Here
  <2>5. ASSUME builder'.at = "ending", NEW h, h = builder'.cycle PROVE EndsWell(h)'
    <3>1. builder.at = "last_sync" /\ h = Here
      BY <2>4, <2>5 DEF AfterSync
    <3>2. FollowUps(h) = {} /\ h \in Cycle
      BY <1>0, <3>1 DEF FollowUpsOK
    <3>3. Remaining = {}
      BY <1>13, <3>1 DEF SyncReservations, Blames, If, Troubles
    <3>4. reserved' = {}
      BY <1>0, <1>13, <1>t, <3>3 DEF SyncReservations, MovedOK
    <3> QED
      BY <2>2, <3>2, <3>4 DEF EndsWell, SameOrder
  <2> QED
    BY <2>2, <2>5 DEF Ends
<1>14. ASSUME SyncFails PROVE Live /\ Ends
  BY <1>14 DEF SyncFails, Blames, Troubles
<1>15. ASSUME Reserve PROVE Live /\ Ends
  <2>1. ~ PlanEnding /\ UNCHANGED <<builder, cycle>>
    BY <1>15 DEF Reserve, Blames, If, Troubles
  <2>2. SameOrder /\ LivePlan' = LivePlan
    BY <1>0, <2>1, CyclesStay
  <2>3. Live
    BY <1>n, <2>1, <2>2 DEF Live, PlanEnding
  <2>4. ASSUME builder'.at = "ending", NEW h, h = builder'.cycle, cycle'[h].status = "running"
        PROVE  EndsWell(h)'
    <3>1. h = Here /\ builder.at = "ending" /\ h \in Cycle
      BY <1>0, <2>1, <2>4 DEF Here, FollowUpsOK
    <3>2. h # Newest /\ h \in LivePlan
      BY <2>1, <2>4, <3>1 DEF PlanEnding, Here, LivePlan
    <3>3. FollowUps(h) # {}
      BY <1>0, <1>t, <3>2, LeafIsNewest
    <3>4. EndsWell(h)
      BY <1>e, <2>1, <2>4, <3>1
    <3> QED
      BY <1>n, <2>1, <2>2, <3>1, <3>3, <3>4 DEF EndsWell, SameOrder
  <2> QED
    BY <2>3, <2>4 DEF Ends
<1>16. ASSUME \E b \in Building, to \in Level :
                MergeReads(b, to) \/ \E j \in 1 .. NextCycle - 1 : CutReads(j, b, to)
       PROVE  Live /\ Ends
  <2>1. UNCHANGED <<cycle, builder, reserved>>
    BY <1>16 DEF MergeReads, CutReads
  <2> QED
    BY <1>0, <1>1, <2>1, CyclesStay
<1> QED
  BY <1>2, <1>3, <1>4, <1>6, <1>8, <1>9, <1>10, <1>11, <1>12, <1>13, <1>14, <1>15, <1>16 DEF PlanNext

-----------------------------------------------------------------------------
(* What the cycle to come builds *)

\* The inputs of a cycle are kept, written, handed on, or those of a reschedule.
Handed(n, j, S) == \E status \in {"queued", "scheduled"} : Joined(n, j, S, status, cycle[j].inputs)

LEMMA InputsMove ==
    ASSUME PlanInv, PlanNext
    PROVE  \/ /\ SameOrder /\ LivePlan' \subseteq LivePlan /\ UNCHANGED asked
              /\ \A k \in Cycle : cycle'[k].inputs = cycle[k].inputs /\ cycle'[k].sent = cycle[k].sent
           \/ CutSaves
           \/ MergeSaves
           \/ /\ UNCHANGED <<asked, builder, editing, level, refused>>
              /\ \E n \in Cycle, j \in LivePlan :
                    /\ Handed(n, j, {j}) /\ j \in Cycles
                    /\ FollowUps(j) = {} \/ planTrouble' \cap {"revived", "forked"} # {}
           \/ /\ ReschedulePlan /\ UNCHANGED asked
              /\ \E n \in Cycle, h \in LivePlan :
                    /\ h = Here /\ FollowUps(h) = {} /\ h \in Cycles
                    /\ Joined(n, h, {}, "scheduled", NextInputs)
<1>0. ShapeOK /\ CountedOK /\ FollowUpsOK /\ RequestsOK
  BY DEF PlanInv
<1> DEFINE Kept == /\ SameOrder /\ LivePlan' \subseteq LivePlan /\ UNCHANGED asked
                   /\ \A k \in Cycle : cycle'[k].inputs = cycle[k].inputs /\ cycle'[k].sent = cycle[k].sent
<1>1. ASSUME UNCHANGED <<cycle, asked>> PROVE Kept
  BY <1>0, <1>1, CyclesStay
<1>2. ASSUME NEW j \in Cycle, StartPlanCycle(j) PROVE Kept
  <2>1. UNCHANGED asked
    BY <1>2 DEF StartPlanCycle
  <2> QED
    BY <1>0, <1>2, <2>1, StartCycles DEF LivePlan
<1>3. ASSUME EndPlanCycle \/ PlanFails PROVE Kept
  <2>1. PICK h : h = Here
    OBVIOUS
  <2>2. /\ SameOrder
        /\ \A k \in Cycle : /\ cycle'[k].status \in {cycle[k].status, "finished", "error"}
                            /\ cycle'[k].inputs = cycle[k].inputs /\ cycle'[k].sent = cycle[k].sent
    BY <1>0, <1>3, <2>1, ReportCycles
  <2>3. UNCHANGED asked
    BY <1>3 DEF EndPlanCycle, PlanFails, Concluded
  <2> QED
    BY <2>2, <2>3 DEF LivePlan
<1>4. ASSUME CancelPlan PROVE Kept
  <2>1. UNCHANGED asked
    BY <1>4 DEF CancelPlan
  <2> QED
    BY <1>0, <1>4, <2>1, CancelCycles
<1>5. ASSUME NEW j \in Cycle, RecoverPlanCycle(j)
      PROVE  \/ Kept
             \/ /\ UNCHANGED <<asked, builder, editing, level, refused>>
                /\ j \in LivePlan /\ j \in Cycles
                /\ \E n \in Cycle : Handed(n, j, {j})
                /\ FollowUps(j) = {} \/ planTrouble' \cap {"revived", "forked"} # {}
  <2>1. UNCHANGED <<asked, builder, editing, level, refused>>
    BY <1>5 DEF RecoverPlanCycle
  <2>2. j \in LivePlan /\ j \in Cycles
    BY <1>0, <1>5, RecoverJoins DEF LivePlan
  <2>3. CASE Turned({j}, "cancelled")
    <3>1. "cancelled" \in CycleStatus \ {"none"} /\ {j} \in SUBSET Cycles
      BY <2>2 DEF CycleStatus
    <3>2. /\ SameOrder
          /\ \A k \in Cycle : /\ cycle'[k].status = IF k \in {j} THEN "cancelled" ELSE cycle[k].status
                              /\ cycle'[k].inputs = cycle[k].inputs /\ cycle'[k].sent = cycle[k].sent
      BY <1>0, <2>3, <3>1, TurnedCycles
    <3>3. LivePlan' \subseteq LivePlan
      BY <3>2 DEF LivePlan
    <3> QED
      BY <2>1, <3>2, <3>3
  <2>4. CASE /\ LivePlan = {j} /\ (FollowUps(j) # {} => "revived" \in planTrouble')
             /\ \E n \in Cycle : Joined(n, j, {j}, "scheduled", cycle[j].inputs)
    <3>1. PICK n \in Cycle : Joined(n, j, {j}, "scheduled", cycle[j].inputs)
      BY <2>4
    <3>2. Handed(n, j, {j})
      BY <3>1 DEF Handed
    <3> QED
      BY <2>1, <2>2, <2>4, <3>2
  <2> QED
    BY <1>0, <1>5, <2>3, <2>4, RecoverJoins
<1>6. ASSUME NEW j \in Cycle, NEW from \in {"scheduled", "running"},
             NEW to \in {"queued", "scheduled"}, NEW rows, RestartCycle(j, from, to, rows)
      PROVE  /\ UNCHANGED <<asked, builder, editing, level, refused>>
             /\ j \in LivePlan /\ j \in Cycles
             /\ \E n \in Cycle : Handed(n, j, {j})
             /\ FollowUps(j) = {} \/ planTrouble' \cap {"revived", "forked"} # {}
  <2>1. UNCHANGED <<asked, builder, editing, level, refused>>
    BY <1>6 DEF RestartCycle
  <2>2. /\ j \in LivePlan /\ j \in Cycles
        /\ FollowUps(j) = {} \/ planTrouble' \cap {"revived", "forked"} # {}
    BY <1>0, <1>6, RestartJoins DEF LivePlan
  <2>3. PICK n \in Cycle : Joined(n, j, {j}, to, cycle[j].inputs)
    BY <1>0, <1>6, RestartJoins
  <2>4. Handed(n, j, {j})
    BY <2>3 DEF Handed
  <2> QED
    BY <2>1, <2>2, <2>4
<1>7. ASSUME NEW j \in Cycle, RunPlanNow(j) \/ UnstickPlan(j)
      PROVE  /\ UNCHANGED <<asked, builder, editing, level, refused>>
             /\ j \in LivePlan /\ j \in Cycles
             /\ \E n \in Cycle : Handed(n, j, {j})
             /\ FollowUps(j) = {} \/ planTrouble' \cap {"revived", "forked"} # {}
  BY <1>6, <1>7 DEF RunPlanNow, UnstickPlan
<1>8. ASSUME ReschedulePlan
      PROVE  \/ Kept
             \/ /\ UNCHANGED asked
                /\ \E n \in Cycle, h \in LivePlan :
                      /\ h = Here /\ FollowUps(h) = {} /\ h \in Cycles
                      /\ Joined(n, h, {}, "scheduled", NextInputs)
  <2>1. PICK h : h = Here
    OBVIOUS
  <2>2. /\ UNCHANGED asked /\ h \in Cycles
        /\ \/ cycle[h].status # "running" /\ UNCHANGED cycle
           \/ /\ cycle[h].status = "running"
              /\ \E n \in Cycle : Joined(n, h, {}, "scheduled", NextInputs)
    BY <1>0, <1>8, <2>1, RescheduleJoins DEF ReschedulePlan
  <2>3. FollowUps(h) = {}
    BY <1>0, <1>8, <2>1 DEF FollowUpsOK, ReschedulePlan
  <2>4. cycle[h].status = "running" => h \in LivePlan
    BY <2>2 DEF LivePlan, Cycles
  <2> QED
    BY <1>1, <2>1, <2>2, <2>3, <2>4
<1>9. ASSUME \/ \E b \in Building : BuildLevel(b) \/ StepRefused(b) \/ StepFoundDone(b)
             \/ CycleWaits \/ PlanComplete \/ SyncReservations \/ SyncFails \/ BuilderDies
             \/ \E b \in Building, to \in Level :
                  MergeReads(b, to) \/ \E j \in 1 .. NextCycle - 1 : CutReads(j, b, to)
             \/ Reserve
      PROVE  UNCHANGED <<cycle, asked>>
  BY <1>9 DEF BuildLevel, StepRefused, StepFoundDone, CycleWaits, PlanComplete, Builds,
              SyncReservations, SyncFails, BuilderDies, MergeReads, CutReads, Reserve
<1> HIDE DEF Kept
<1>10. ASSUME \E j \in Cycle : StartPlanCycle(j) \/ RecoverPlanCycle(j) \/ RunPlanNow(j) \/ UnstickPlan(j)
       PROVE  \/ Kept
              \/ /\ UNCHANGED <<asked, builder, editing, level, refused>>
                 /\ \E n \in Cycle, j \in LivePlan :
                       /\ Handed(n, j, {j}) /\ j \in Cycles
                       /\ FollowUps(j) = {} \/ planTrouble' \cap {"revived", "forked"} # {}
  BY <1>2, <1>5, <1>7, <1>10
<1>11. \/ Kept \/ CutSaves \/ MergeSaves
       \/ \E j \in Cycle : StartPlanCycle(j) \/ RecoverPlanCycle(j) \/ RunPlanNow(j) \/ UnstickPlan(j)
       \/ ReschedulePlan
  BY <1>1, <1>3, <1>4, <1>9 DEF PlanNext
<1>12. \/ Kept \/ CutSaves \/ MergeSaves
       \/ /\ UNCHANGED <<asked, builder, editing, level, refused>>
          /\ \E n \in Cycle, j \in LivePlan :
                /\ Handed(n, j, {j}) /\ j \in Cycles
                /\ FollowUps(j) = {} \/ planTrouble' \cap {"revived", "forked"} # {}
       \/ /\ ReschedulePlan /\ UNCHANGED asked
          /\ \E n \in Cycle, h \in LivePlan :
                /\ h = Here /\ FollowUps(h) = {} /\ h \in Cycles
                /\ Joined(n, h, {}, "scheduled", NextInputs)
  BY <1>8, <1>10, <1>11
<1> QED
  BY <1>12 DEF Kept

LEMMA PatchNext ==
    ASSUME PlanInv, PlanNext
    PROVE  PatchOK'
<1>0. ShapeOK /\ CountedOK /\ RequestsOK /\ PatchOK
  BY DEF PlanInv
<1> SUFFICES ASSUME "patched" \notin planTrouble', NEW k \in Cycle, NEW p \in cycle'[k].inputs.patch
             PROVE  p.goal = cycle'[k].inputs.goal
  BY DEF PatchOK, Without
<1>1. \A j \in Cycle : \A q \in cycle[j].inputs.patch : q.goal = cycle[j].inputs.goal
  BY <1>0, LevelMoves DEF PatchOK, Without
<1>2. CASE \A j \in Cycle : cycle'[j].inputs = cycle[j].inputs
  BY <1>1, <1>2
<1>3. CASE CutSaves
  <2>1. \A q \in editing.inputs.patch : q.goal = editing.inputs.goal
    BY <1>0 DEF RequestsOK
  <2>2. cycle'[k].inputs = IF k = editing.target THEN editing.inputs ELSE cycle[k].inputs
    BY <1>0, <1>3, SaveCycles
  <2> QED
    BY <1>1, <2>1, <2>2
<1>4. CASE MergeSaves
  <2>1. merging.inputs.patch = {}
    BY <1>4 DEF MergeSaves, Blames, If
  <2>2. cycle'[k].inputs = IF k = merging.target THEN merging.inputs ELSE cycle[k].inputs
    BY <1>0, <1>4, SaveCycles
  <2> QED
    BY <1>1, <2>1, <2>2
<1>5. ASSUME NEW n \in Cycle, NEW j \in Cycles, NEW S, NEW status, NEW i, Joined(n, j, S, status, i),
             \A q \in i.patch : q.goal = i.goal
      PROVE  p.goal = cycle'[k].inputs.goal
  <2>1. cycle'[k].inputs = IF k = n THEN i ELSE cycle[k].inputs
    BY <1>5 DEF Joined
  <2> QED
    BY <1>1, <1>5, <2>1
<1>6. ASSUME NEW n \in Cycle, NEW j \in Cycles, Handed(n, j, {j})
      PROVE  p.goal = cycle'[k].inputs.goal
  <2>1. PICK status \in {"queued", "scheduled"} : Joined(n, j, {j}, status, cycle[j].inputs)
    BY <1>6 DEF Handed
  <2>2. j \in Cycle
    BY DEF Cycles
  <2> QED
    BY <1>1, <1>5, <2>1, <2>2
<1>7. ASSUME ReschedulePlan, NEW n \in Cycle, NEW h \in Cycles, Joined(n, h, {}, "scheduled", NextInputs)
      PROVE  p.goal = cycle'[k].inputs.goal
  <2>1. NextInputs.patch = {}
    BY <1>7, NextInputsAre DEF PlanInv
  <2> QED
    BY <1>5, <1>7, <2>1
<1> QED
  BY <1>2, <1>3, <1>4, <1>6, <1>7, InputsMove

LEMMA ChangesNext ==
    ASSUME PlanInv, PlanNext
    PROVE  ChangesKept'
<1>0. ShapeOK /\ CountedOK /\ FollowUpsOK /\ RequestsOK /\ LeafOK /\ PatchOK /\ ChangesKept
  BY DEF PlanInv
<1> SUFFICES ASSUME Newest' \in LivePlan',
                    planTrouble' \cap {"late", "raced", "patched", "repriced", "revived", "forked"} = {}
             PROVE  cycle'[Newest'].inputs.goal = asked'
  BY DEF ChangesKept
<1>t. /\ planTrouble \cap {"late", "raced", "patched", "repriced", "revived", "forked"} = {}
      /\ Without({"forked"}) /\ Without({"patched"})
  BY LevelMoves DEF Without
<1>n. Newest \in Cycle
  BY <1>0, NewestIs
<1>1. Newest \in LivePlan => cycle[Newest].inputs.goal = asked
  BY <1>0, <1>t DEF ChangesKept
<1>2. CASE /\ SameOrder /\ LivePlan' \subseteq LivePlan /\ UNCHANGED asked
           /\ \A k \in Cycle : cycle'[k].inputs = cycle[k].inputs
  BY <1>1, <1>2, <1>n DEF SameOrder
\* The next cycle takes over from the newest.
<1>3. ASSUME NEW n \in Cycle, NEW j \in LivePlan, NEW S, NEW status, NEW i, FollowUps(j) = {},
             Joined(n, j, S, status, i), i.goal = cycle[j].inputs.goal, UNCHANGED asked
      PROVE  cycle'[Newest'].inputs.goal = asked'
  <2>1. j = Newest
    BY <1>0, <1>3, <1>t, LeafIsNewest
  <2>2. Newest' = n /\ cycle'[n].inputs = i
    BY <1>3 DEF Joined
  <2> QED
    BY <1>1, <1>3, <2>1, <2>2
<1>4. ASSUME NEW n \in Cycle, NEW j \in LivePlan, Handed(n, j, {j}), UNCHANGED asked,
             FollowUps(j) = {} \/ planTrouble' \cap {"revived", "forked"} # {}
      PROVE  cycle'[Newest'].inputs.goal = asked'
  <2>1. PICK status \in {"queued", "scheduled"} : Joined(n, j, {j}, status, cycle[j].inputs)
    BY <1>4 DEF Handed
  <2>2. FollowUps(j) = {}
    BY <1>4
  <2> QED
    BY <1>3, <1>4, <2>1, <2>2
<1>5. ASSUME ReschedulePlan, UNCHANGED asked, NEW n \in Cycle, NEW h \in LivePlan, h = Here,
             FollowUps(h) = {}, Joined(n, h, {}, "scheduled", NextInputs)
      PROVE  cycle'[Newest'].inputs.goal = asked'
  <2>1. \A p \in cycle[Here].inputs.patch : p.goal = cycle[Here].inputs.goal
    BY <1>0, <1>5, <1>t DEF PatchOK, LivePlan
  <2>2. NextInputs.goal = cycle[Here].inputs.goal
    BY <1>0, <1>5, <2>1, NextInputsAre
  <2> QED
    BY <1>3, <1>5, <2>2
\* A change in time, and not raced, is one of the newest cycle's inputs.
<1>6. ASSUME NEW t, NEW i, NEW base, t \in LivePlan, FollowUps(t) = {}, cycle[t].inputs = base,
             \/ CutSaves /\ t = editing.target /\ i = editing.inputs /\ base = editing.base
             \/ MergeSaves /\ t = merging.target /\ i = merging.inputs /\ base = merging.base
      PROVE  /\ base.goal = asked /\ cycle'[Newest'].inputs = i
             /\ i.goal \in [Building -> Level] /\ asked \in [Building -> Level]
  <2>1. t = Newest
    BY <1>0, <1>6, <1>t, LeafIsNewest
  <2>2. SameOrder /\ cycle'[t].inputs = i /\ InputsFit(i)
    BY <1>0, <1>6, <1>n, <2>1, SaveCycles
  <2>3. i.goal \in [Building -> Level] /\ asked \in [Building -> Level]
    BY <1>0, <2>2, InputsTyped DEF InputsFit, ShapeOK
  <2> QED
    BY <1>1, <1>6, <2>1, <2>2, <2>3 DEF SameOrder
<1>7. CASE CutSaves
  <2>1. /\ editing.target \in LivePlan /\ FollowUps(editing.target) = {}
        /\ cycle[editing.target].inputs = editing.base
    BY <1>7 DEF CutSaves, Blames, Written, If, FollowUps
  <2>2. /\ editing.base.goal = asked /\ cycle'[Newest'].inputs = editing.inputs
        /\ editing.inputs.goal \in [Building -> Level] /\ asked \in [Building -> Level]
    BY <1>6, <1>7, <2>1
  <2>3. asked' = [b \in Building |-> IF editing.inputs.goal[b] # editing.base.goal[b]
                                      THEN editing.inputs.goal[b] ELSE asked[b]]
    BY <1>7 DEF CutSaves, Asks
  <2>4. asked' = editing.inputs.goal
    BY <2>2, <2>3
  <2> QED
    BY <2>2, <2>4
<1>8. CASE MergeSaves
  <2> DEFINE added == {b \in Building : merging.base.goal[b] = 0 /\ merging.inputs.goal[b] # 0}
  <2>1. /\ merging.target \in LivePlan /\ FollowUps(merging.target) = {}
        /\ cycle[merging.target].inputs = merging.base
        /\ \A b \in Building \ added : merging.inputs.goal[b] = merging.base.goal[b]
    BY <1>8 DEF MergeSaves, Blames, Written, If, FollowUps
  <2>2. /\ merging.base.goal = asked /\ cycle'[Newest'].inputs = merging.inputs
        /\ merging.inputs.goal \in [Building -> Level] /\ asked \in [Building -> Level]
    BY <1>6, <1>8, <2>1
  <2>3. asked' = [b \in Building |-> IF b \in added THEN merging.inputs.goal[b] ELSE asked[b]]
    BY <1>8 DEF MergeSaves
  <2> HIDE DEF added
  <2>4. asked' = merging.inputs.goal
    BY <2>1, <2>2, <2>3
  <2> QED
    BY <2>2, <2>4
<1> QED
  BY <1>2, <1>4, <1>5, <1>7, <1>8, InputsMove

-----------------------------------------------------------------------------
(* What a cycle puts aside *)

\* Steps put aside stay justified while levels rise, the game refuses more, and goals are
\* lowered.
Grows == Lower(level, level') /\ refused \subseteq refused'

LEMMA AsideStays ==
    ASSUME Grows, level \in [Building -> Level], level' \in [Building -> Level],
           NEW original, NEW goal \in [Building -> Level], NEW lower \in [Building -> Level],
           NEW ignored, AsideFor(original, goal, ignored), Lower(lower, goal)
    PROVE  AsideFor(original, lower, ignored) /\ AsideFor(original, lower, ignored)'
<1> SUFFICES ASSUME NEW b \in Building, original[b] # 0, original[b] \in ignored
             PROVE  /\ b \in refused \/ lower[b] <= level[b]
                    /\ b \in refused' \/ lower[b] <= level'[b]
  BY DEF AsideFor
<1>1. lower[b] <= goal[b] /\ level[b] <= level'[b]
  BY DEF Grows, Lower
<1>2. lower[b] \in 0 .. MaxLevel /\ goal[b] \in 0 .. MaxLevel /\ level[b] \in 0 .. MaxLevel
      /\ level'[b] \in 0 .. MaxLevel
  OBVIOUS
<1>3. b \in refused \/ goal[b] <= level[b]
  BY DEF AsideFor
<1> QED
  BY <1>1, <1>2, <1>3 DEF Grows

LEMMA KeepsStays ==
    ASSUME Grows, level \in [Building -> Level], level' \in [Building -> Level],
           NEW original, NEW i, InputsFit(i), InputsKeep(original, i)
    PROVE  InputsKeep(original, i)'
<1>1. i.goal \in [Building -> Level]
  BY InputsTyped DEF InputsFit
<1>2. Lower(i.goal, i.goal)
  BY <1>1 DEF Lower
<1>3. AsideFor(original, i.goal, i.ignored)'
  BY <1>1, <1>2, AsideStays DEF InputsKeep
<1> QED
  BY <1>3 DEF InputsKeep, Keeps

LEMMA GrowsNext ==
    ASSUME PlanInv, PlanNext
    PROVE  Grows /\ level \in [Building -> Level] /\ level' \in [Building -> Level]
BY LevelMoves DEF Grows, PlanInv, ShapeOK

\* The part of Numbered about the cycles, ...
CyclesKeep(original) ==
    \A j \in Cycle : /\ InputsKeep(original, cycle[j].inputs) /\ InputsKeep(original, cycle[j].sent)
                     /\ Lower(cycle[j].inputs.goal, cycle[j].sent.goal)
\* ... about the builder ...
BuilderKeeps(original) ==
    /\ Keeps(original, builder) /\ AsideFor(original, builder.goal, builder.ignored)
    /\ builder.at # "idle" => Lower(cycle[Here].inputs.goal, builder.goal)
\* ... and about a cut.
EditingKeeps(original) ==
    /\ InputsKeep(original, editing.inputs)
    /\ editing.at = "saving" => /\ cycle[editing.target].inputs = editing.base
                                /\ Lower(editing.inputs.goal, editing.base.goal)

LEMMA NumberedParts ==
    ASSUME NEW original
    PROVE  /\ Numbered(original) <=> /\ OneToOne(original) /\ CyclesKeep(original)
                                     /\ BuilderKeeps(original) /\ EditingKeeps(original)
           /\ Numbered(original)' <=> /\ OneToOne(original) /\ CyclesKeep(original)'
                                      /\ BuilderKeeps(original)' /\ EditingKeeps(original)'
BY DEF Numbered, OneToOne, CyclesKeep, BuilderKeeps, EditingKeeps

\* A cut is of inputs that kept their numbers.
LEMMA LowerTransitive ==
    ASSUME NEW f \in [Building -> Level], NEW g \in [Building -> Level], NEW h \in [Building -> Level],
           Lower(f, g), Lower(g, h)
    PROVE  Lower(f, h)
<1> SUFFICES ASSUME NEW b \in Building PROVE f[b] <= h[b]
  BY DEF Lower
<1>1. f[b] \in 0 .. MaxLevel /\ g[b] \in 0 .. MaxLevel /\ h[b] \in 0 .. MaxLevel
  OBVIOUS
<1> QED
  BY <1>1 DEF Lower

LEMMA CyclesKept ==
    ASSUME PlanInv, PlanNext, "merged" \notin planTrouble', NEW original, Numbered(original)
    PROVE  CyclesKeep(original)'
<1>0. ShapeOK /\ CountedOK /\ FollowUpsOK /\ RequestsOK
  BY DEF PlanInv
<1>g. Grows /\ level \in [Building -> Level] /\ level' \in [Building -> Level]
  BY GrowsNext
<1>k. CyclesKeep(original) /\ BuilderKeeps(original) /\ EditingKeeps(original)
  BY NumberedParts
<1> SUFFICES ASSUME NEW k \in Cycle, NEW i, NEW s, i = cycle'[k].inputs, s = cycle'[k].sent
             PROVE  InputsKeep(original, i)' /\ InputsKeep(original, s)' /\ Lower(i.goal, s.goal)
  BY DEF CyclesKeep, InputsKeep, Lower, AsideFor, Keeps
<1>1. ASSUME NEW j \in Cycle, NEW x, NEW y, x = cycle[j].inputs, y = cycle[j].sent
      PROVE  /\ InputsKeep(original, x)' /\ InputsKeep(original, y)' /\ Lower(x.goal, y.goal)
             /\ x.goal \in [Building -> Level] /\ y.goal \in [Building -> Level]
             /\ Lower(x.goal, x.goal)
  <2>1. InputsFit(x) /\ InputsFit(y)
    BY <1>0, <1>1 DEF ShapeOK
  <2>2. InputsKeep(original, x) /\ InputsKeep(original, y) /\ Lower(x.goal, y.goal)
    BY <1>1, <1>k DEF CyclesKeep
  <2>3. InputsKeep(original, x)' /\ InputsKeep(original, y)'
    BY <1>g, <2>1, <2>2, KeepsStays
  <2>4. x.goal \in [Building -> Level] /\ y.goal \in [Building -> Level]
    BY <2>1, InputsTyped DEF InputsFit
  <2>5. \A b \in Building : x.goal[b] <= x.goal[b]
    BY <2>4
  <2> QED
    BY <2>2, <2>3, <2>4, <2>5 DEF Lower
<1> DEFINE Kept == InputsKeep(original, i)' /\ InputsKeep(original, s)' /\ Lower(i.goal, s.goal)
<1>2. CASE i = cycle[k].inputs /\ s = cycle[k].sent
  BY <1>1, <1>2
<1>3. CASE CutSaves
  <2>1. /\ editing.at = "saving" /\ cycle[editing.target].inputs = editing.base
        /\ Lower(editing.inputs.goal, editing.base.goal) /\ InputsKeep(original, editing.inputs)
        /\ InputsFit(editing.inputs)
    BY <1>0, <1>3, <1>k DEF EditingKeeps, CutSaves, ShapeOK
  <2>2. /\ s = cycle[k].sent
        /\ i = IF k = editing.target THEN editing.inputs ELSE cycle[k].inputs
    BY <1>0, <1>3, SaveCycles
  <2>3. CASE k # editing.target
    BY <1>2, <2>2, <2>3
  <2>4. CASE k = editing.target
    <3>1. i = editing.inputs
      BY <2>2, <2>4
    <3>2. InputsFit(i) /\ InputsKeep(original, i)
      BY <2>1, <3>1
    <3>3. InputsKeep(original, i)'
      BY <1>g, <3>2, KeepsStays
    <3>4. i.goal \in [Building -> Level]
      BY <3>2, InputsTyped DEF InputsFit
    <3>5. PICK base : base = editing.base
      OBVIOUS
    <3>6. /\ InputsKeep(original, s)' /\ Lower(base.goal, s.goal) /\ base.goal \in [Building -> Level]
          /\ s.goal \in [Building -> Level]
      BY <1>1, <2>1, <2>2, <2>4, <3>5
    <3>7. Lower(i.goal, base.goal)
      BY <2>1, <3>1, <3>5
    <3>8. Lower(i.goal, s.goal)
      BY <3>4, <3>6, <3>7, LowerTransitive
    <3> QED
      BY <3>3, <3>6, <3>8
  <2> QED
    BY <2>3, <2>4
<1>4. CASE MergeSaves
  BY <1>4 DEF MergeSaves, Blames
<1>5. ASSUME NEW n \in Cycle, NEW j \in Cycles, NEW S, NEW status, NEW x, Joined(n, j, S, status, x),
             InputsKeep(original, x)', x.goal \in [Building -> Level]
      PROVE  Kept
  <2>1. k # n => i = cycle[k].inputs /\ s = cycle[k].sent
    BY <1>5 DEF Joined
  <2>2. k = n => i = x /\ s = x
    BY <1>5 DEF Joined
  <2>3. Lower(x.goal, x.goal)
    <3>1. \A b \in Building : x.goal[b] <= x.goal[b]
      BY <1>5
    <3> QED
      BY <3>1 DEF Lower
  <2>4. CASE k = n
    <3>1. i = x /\ s = x
      BY <2>2, <2>4
    <3>2. InputsKeep(original, i)' /\ InputsKeep(original, s)'
      BY <1>5, <3>1 DEF InputsKeep, Keeps, AsideFor
    <3> QED
      BY <2>3, <3>1, <3>2
  <2> QED
    BY <1>2, <2>1, <2>4
<1>6. ASSUME NEW n \in Cycle, NEW j \in Cycles, Handed(n, j, {j}) PROVE Kept
  <2>1. PICK x : x = cycle[j].inputs
    OBVIOUS
  <2>2. PICK status \in {"queued", "scheduled"} : Joined(n, j, {j}, status, x)
    BY <1>6, <2>1 DEF Handed
  <2>3. j \in Cycle
    BY DEF Cycles
  <2>4. PICK y : y = cycle[j].sent
    OBVIOUS
  <2>5. InputsKeep(original, x)' /\ x.goal \in [Building -> Level]
    BY <1>1, <2>1, <2>3, <2>4
  <2> QED
    BY <1>5, <2>2, <2>5
<1>7. ASSUME ReschedulePlan, NEW n \in Cycle, NEW h \in Cycles, h = Here,
             Joined(n, h, {}, "scheduled", NextInputs)
      PROVE  Kept
  <2>1. PICK x : x = NextInputs
    OBVIOUS
  <2>2. PICK r : r = cycle[h].inputs
    OBVIOUS
  <2>3. InputsKeep(original, r) /\ InputsFit(r) /\ h \in Cycle
    BY <1>0, <1>k, <2>2 DEF CyclesKeep, ShapeOK, Cycles
  <2>4. /\ x.ignored = IF builder.ignored # {} THEN builder.ignored ELSE r.ignored
        /\ x.patch = {} /\ x.goal = r.goal
        /\ x.idx = r.idx \/ \E p \in r.patch : x.idx = p.idx
    BY <1>0, <1>7, <2>1, <2>2, <2>3, NextInputsAre DEF InputsKeep
  <2>5. /\ builder.goal \in [Building -> Level] /\ r.goal \in [Building -> Level]
        /\ Lower(r.goal, builder.goal) /\ AsideFor(original, builder.goal, builder.ignored)
    BY <1>0, <1>7, <1>k, <2>2, <2>3, InputsTyped
       DEF BuilderKeeps, ReschedulePlan, InputsFit, ShapeOK, BuilderRecord
  <2>6. AsideFor(original, r.goal, builder.ignored)
    BY <1>g, <2>5, AsideStays
  <2>7. AsideFor(original, x.goal, x.ignored)
    BY <2>3, <2>4, <2>6 DEF InputsKeep
  <2>8. Keeps(original, x)
    BY <2>3, <2>4 DEF InputsKeep, Keeps
  <2>9. InputsKeep(original, x)
    BY <2>4, <2>7, <2>8 DEF InputsKeep
  <2>10. InputsFit(x) /\ x.goal \in [Building -> Level]
    BY <1>0, <1>7, <2>1, NextInputsFit, InputsTyped
  <2>11. InputsKeep(original, x)'
    BY <1>g, <2>9, <2>10, KeepsStays
  <2> QED
    BY <1>5, <1>7, <2>1, <2>10, <2>11
<1> QED
  BY <1>2, <1>3, <1>4, <1>6, <1>7, InputsMove

\* Only a cut, or a merge, writes the inputs of a cycle.
LEMMA InputsStay ==
    ASSUME PlanInv, PlanNext, "merged" \notin planTrouble', ~ CutSaves
    PROVE  \A k \in Cycles : cycle'[k].inputs = cycle[k].inputs
<1>1. ~ MergeSaves
  BY DEF MergeSaves, Blames
<1>2. ASSUME NEW n, NEW j, NEW S, NEW status, NEW i, Joined(n, j, S, status, i)
      PROVE  \A k \in Cycles : cycle'[k].inputs = cycle[k].inputs
  BY <1>2 DEF Joined, Cycles
<1>3. ASSUME NEW n, NEW j, Handed(n, j, {j})
      PROVE  \A k \in Cycles : cycle'[k].inputs = cycle[k].inputs
  BY <1>2, <1>3 DEF Handed
<1>4. CASE \A k \in Cycle : cycle'[k].inputs = cycle[k].inputs
  BY <1>4 DEF Cycles
<1> QED
  BY <1>1, <1>2, <1>3, <1>4, InputsMove

LEMMA GoalsLowered ==
    ASSUME PlanInv, PlanNext, "merged" \notin planTrouble', NEW original, EditingKeeps(original),
           NEW k \in Cycles
    PROVE  /\ Lower(cycle'[k].inputs.goal, cycle[k].inputs.goal)
           /\ cycle'[k].inputs.goal \in [Building -> Level] /\ cycle[k].inputs.goal \in [Building -> Level]
<1>1. /\ cycle'[k].inputs.goal \in [Building -> Level] /\ cycle[k].inputs.goal \in [Building -> Level]
  <2>1. InputsFit(cycle'[k].inputs) /\ InputsFit(cycle[k].inputs)
    BY CyclesNext DEF PlanInv, ShapeOK, Cycles
  <2> QED
    BY <2>1, InputsTyped DEF InputsFit
<1>2. Lower(cycle[k].inputs.goal, cycle[k].inputs.goal)
  <2>1. \A b \in Building : cycle[k].inputs.goal[b] <= cycle[k].inputs.goal[b]
    BY <1>1
  <2> QED
    BY <2>1 DEF Lower
<1>3. CASE ~ CutSaves
  <2>1. cycle'[k].inputs = cycle[k].inputs
    BY <1>3, InputsStay
  <2> QED
    BY <1>1, <1>2, <2>1
<1>4. CASE CutSaves
  <2>1. /\ Lower(editing.inputs.goal, editing.base.goal) /\ cycle[editing.target].inputs = editing.base
    BY <1>4 DEF EditingKeeps, CutSaves
  <2>2. cycle'[k].inputs = IF k = editing.target THEN editing.inputs ELSE cycle[k].inputs
    BY <1>4, SaveCycles DEF PlanInv, Cycles
  <2>3. CASE k = editing.target
    <3>1. cycle'[k].inputs = editing.inputs /\ cycle[k].inputs = editing.base
      BY <2>1, <2>2, <2>3
    <3> QED
      BY <1>1, <2>1, <3>1
  <2>4. CASE k # editing.target
    BY <1>1, <1>2, <2>2, <2>4
  <2> QED
    BY <2>3, <2>4
<1> QED
  BY <1>3, <1>4

LEMMA EditingKept ==
    ASSUME PlanInv, PlanNext, "merged" \notin planTrouble', NEW original, EditingKeeps(original),
           CyclesKeep(original)
    PROVE  EditingKeeps(original)'
<1>0. ShapeOK /\ CountedOK /\ RequestsOK
  BY DEF PlanInv
<1>g. Grows /\ level \in [Building -> Level] /\ level' \in [Building -> Level]
  BY GrowsNext
<1>1. CASE UNCHANGED editing
  <2>1. PICK i : i = editing.inputs
    OBVIOUS
  <2>2. InputsKeep(original, i)'
    BY <1>0, <1>g, <2>1, KeepsStays DEF EditingKeeps, ShapeOK
  <2>3. InputsKeep(original, editing.inputs)'
    BY <1>1, <2>1, <2>2 DEF InputsKeep, Keeps, AsideFor
  <2>4. editing.at = "saving" => /\ cycle'[editing.target].inputs = editing.base
                                 /\ Lower(editing.inputs.goal, editing.base.goal)
    <3>1. editing.at = "saving" => editing.target \in Cycles
      BY <1>0 DEF RequestsOK
    <3>2. editing.at = "saving" => ~ CutSaves
      BY <1>1 DEF CutSaves, NoRequest
    <3> QED
      BY <3>1, <3>2, InputsStay DEF EditingKeeps
  <2> QED
    BY <1>1, <2>3, <2>4 DEF EditingKeeps, Lower
<1>2. CASE editing' = NoRequest
  <2>1. /\ NoRequest.at = "none" /\ NoRequest.inputs.ignored = {} /\ NoRequest.inputs.patch = {}
        /\ \A b \in Building : NoRequest.inputs.idx[b] = 0
    BY DEF NoRequest, NoInputs
  <2> QED
    BY <1>2, <2>1 DEF EditingKeeps, InputsKeep, Keeps, AsideFor
<1>3. ASSUME UNCHANGED <<cycle, level, refused>>, NEW j \in Cycle, NEW b \in Building, NEW to \in Level,
             NEW t \in FindActive(j), NEW floor \in Nat, to < cycle[t].inputs.goal[b],
             editing' = [at |-> "saving", target |-> t, base |-> cycle[t].inputs,
                         inputs |-> CutOf(cycle[t].inputs, b, to, floor)]
      PROVE  EditingKeeps(original)'
  <2>1. t \in Cycle
    BY LiveCycles DEF LivePlan
  <2>2. PICK read : read = cycle[t].inputs
    OBVIOUS
  <2>3. InputsFit(read) /\ InputsKeep(original, read) /\ to < read.goal[b]
    BY <1>0, <1>3, <2>1, <2>2 DEF ShapeOK, CyclesKeep
  <2>4. PICK new : new = CutOf(read, b, to, floor)
    OBVIOUS
  <2>5. /\ InputsFit(new) /\ new.ignored = read.ignored /\ Lower(new.goal, read.goal)
        /\ \A c \in Building : new.idx[c] \in {0, read.idx[c]}
        /\ \A p \in new.patch : p.goal = new.goal /\ p.idx = new.idx
    <3>1. InputsFit(read) /\ to < read.goal[b]
      BY <2>3
    <3> QED
      BY <2>4, <3>1, CutFits
  <2>6. AsideFor(original, new.goal, new.ignored)
    <3>1. new.goal \in [Building -> Level] /\ read.goal \in [Building -> Level]
      BY <2>3, <2>5, InputsTyped DEF InputsFit
    <3> QED
      BY <1>g, <2>3, <2>5, <3>1, AsideStays DEF InputsKeep
  <2>7. Keeps(original, new)
    BY <2>3, <2>5 DEF InputsKeep, Keeps
  <2>8. InputsKeep(original, new)
    BY <2>5, <2>6, <2>7 DEF InputsKeep, Keeps
  <2>9. InputsKeep(original, new)'
    BY <1>g, <2>5, <2>8, KeepsStays
  <2>10. editing'.inputs = new /\ editing'.base = read /\ editing'.target = t /\ cycle'[t].inputs = read
    BY <1>3, <2>2, <2>4
  <2> QED
    BY <2>5, <2>9, <2>10 DEF EditingKeeps, InputsKeep, Keeps, AsideFor, Lower
<1> QED
  BY <1>0, <1>1, <1>2, <1>3, EditingMoves

LEMMA BuilderKept ==
    ASSUME PlanInv, PlanNext, "merged" \notin planTrouble', NEW original, Numbered(original)
    PROVE  BuilderKeeps(original)'
<1>0. ShapeOK /\ CountedOK /\ FollowUpsOK
  BY DEF PlanInv
<1>g. Grows /\ level \in [Building -> Level] /\ level' \in [Building -> Level]
  BY GrowsNext
<1>k. /\ OneToOne(original) /\ CyclesKeep(original) /\ BuilderKeeps(original) /\ EditingKeeps(original)
  BY NumberedParts
<1>b. /\ builder \in BuilderRecord /\ Fits(builder)
      /\ builder.goal \in [Building -> Level] /\ builder.idx \in [Building -> {0} \cup StepIndex]
  BY <1>0 DEF ShapeOK, BuilderRecord
\* The plan of the builder is the one it started with; what it puts aside grows.
<1>1. ASSUME builder'.goal = builder.goal, builder'.idx = builder.idx, builder'.cycle = builder.cycle,
             builder.at # "idle" \/ builder'.at = "idle",
             \A b \in Building : original[b] # 0 /\ original[b] \in builder'.ignored =>
                \/ original[b] \in builder.ignored \/ b \in refused' \/ builder.goal[b] <= level[b]
      PROVE  BuilderKeeps(original)'
  <2>1. Keeps(original, builder)'
    BY <1>1, <1>k DEF BuilderKeeps, Keeps
  <2>2. AsideFor(original, builder.goal, builder.ignored)'
    <3> SUFFICES ASSUME NEW b \in Building, original[b] # 0, original[b] \in builder'.ignored
                 PROVE  b \in refused' \/ builder.goal[b] <= level'[b]
      BY <1>1 DEF AsideFor
    <3>1. b \in refused \/ b \in refused' \/ builder.goal[b] <= level[b]
      BY <1>1, <1>k DEF BuilderKeeps, AsideFor
    <3>2. level[b] <= level'[b] /\ refused \subseteq refused'
      BY <1>g DEF Grows, Lower
    <3>3. level[b] \in 0 .. MaxLevel /\ level'[b] \in 0 .. MaxLevel /\ builder.goal[b] \in 0 .. MaxLevel
      BY <1>b, <1>g
    <3> QED
      BY <3>1, <3>2, <3>3
  <2>3. ASSUME builder'.at # "idle" PROVE Lower(cycle[Here].inputs.goal, builder.goal)'
    <3>1. Here \in Cycles /\ Lower(cycle[Here].inputs.goal, builder.goal) /\ Here' = Here
      BY <1>0, <1>1, <1>k, <2>3 DEF BuilderKeeps, FollowUpsOK, Cycles, Here
    <3>2. PICK h : h = Here
      OBVIOUS
    <3>3. /\ Lower(cycle'[h].inputs.goal, cycle[h].inputs.goal)
          /\ cycle'[h].inputs.goal \in [Building -> Level] /\ cycle[h].inputs.goal \in [Building -> Level]
      BY <1>k, <3>1, <3>2, GoalsLowered
    <3>4. Lower(cycle'[h].inputs.goal, builder.goal)
      BY <1>b, <3>1, <3>2, <3>3, LowerTransitive
    <3> QED
      BY <1>1, <3>1, <3>2, <3>4 DEF Lower, Here
  <2> QED
    BY <2>1, <2>2, <2>3 DEF BuilderKeeps
<1>2. CASE UNCHANGED builder
  <2>1. builder.at # "idle" \/ builder'.at = "idle"
    BY <1>2
  <2> QED
    BY <1>1, <1>2, <2>1
<1>3. CASE builder' = AtRest
  <2>1. AtRest.at = "idle" /\ AtRest.ignored = {} /\ \A b \in Building : AtRest.idx[b] = 0
    BY DEF AtRest, NoInputs
  <2> QED
    BY <1>3, <2>1 DEF BuilderKeeps, Keeps, AsideFor
<1>4. ASSUME NEW j \in Cycle, StartPlanCycle(j) PROVE BuilderKeeps(original)'
  <2> DEFINE payload == IF FixedPayload THEN cycle[j].sent ELSE cycle[j].inputs
  <2>1. PICK i : i = payload
    OBVIOUS
  <2>2. /\ InputsFit(i) /\ InputsKeep(original, i) /\ InputsFit(cycle[j].inputs)
    BY <1>0, <1>k, <2>1 DEF ShapeOK, CyclesKeep
  <2>3. i.goal \in [Building -> Level] /\ cycle[j].inputs.goal \in [Building -> Level]
    BY <2>2, InputsTyped DEF InputsFit
  <2>4. Lower(cycle[j].inputs.goal, i.goal)
    <3>1. CASE FixedPayload
      BY <1>k, <2>1, <3>1 DEF CyclesKeep
    <3>2. CASE ~ FixedPayload
      <4>1. i = cycle[j].inputs
        BY <2>1, <3>2
      <4>2. \A b \in Building : i.goal[b] <= i.goal[b]
        BY <2>3
      <4> QED
        BY <4>1, <4>2 DEF Lower
    <3> QED
      BY <3>1, <3>2
  <2>5. builder' = [AtRest EXCEPT !.at = "working", !.cycle = j, !.goal = i.goal, !.idx = i.idx,
                                  !.ignored = i.ignored]
    BY <1>4, <2>1 DEF StartPlanCycle
  <2>6. /\ builder'.goal = i.goal /\ builder'.idx = i.idx /\ builder'.ignored = i.ignored
        /\ builder'.cycle = j
    BY <2>5 DEF AtRest
  <2>7. InputsKeep(original, i)'
    BY <1>g, <2>2, KeepsStays
  <2>8. cycle'[j].inputs = cycle[j].inputs
    BY <1>0, <1>4, StartCycles
  <2> QED
    BY <2>4, <2>6, <2>7, <2>8 DEF BuilderKeeps, InputsKeep, Keeps, AsideFor, Lower, Here
<1>5. ASSUME NEW at, builder.at # "idle", builder' = [builder EXCEPT !.at = at]
      PROVE  BuilderKeeps(original)'
  <2>1. /\ builder'.goal = builder.goal /\ builder'.idx = builder.idx /\ builder'.cycle = builder.cycle
        /\ builder'.ignored = builder.ignored
    BY <1>5, <1>b DEF BuilderRecord
  <2> QED
    BY <1>1, <1>5, <2>1
<1>6. ASSUME NEW b, builder.at = "working", builder' = [builder EXCEPT !.at = "syncing", !.started = {b}]
      PROVE  BuilderKeeps(original)'
  <2>1. /\ builder'.goal = builder.goal /\ builder'.idx = builder.idx /\ builder'.cycle = builder.cycle
        /\ builder'.ignored = builder.ignored
    BY <1>6, <1>b DEF BuilderRecord
  <2> QED
    BY <1>1, <1>6, <2>1
\* The index of a step that is put aside is that step's, and no other's.
<1>7. ASSUME NEW b \in Steps(builder.goal), builder.at = "working",
             builder' = [builder EXCEPT !.at = "syncing", !.ignored = @ \cup {builder.idx[b]}],
             b \in refused' \/ builder.goal[b] <= level[b]
      PROVE  BuilderKeeps(original)'
  <2>1. /\ builder'.goal = builder.goal /\ builder'.idx = builder.idx /\ builder'.cycle = builder.cycle
        /\ builder'.ignored = builder.ignored \cup {builder.idx[b]}
    BY <1>7, <1>b DEF BuilderRecord
  <2>2. b \in Building /\ builder.idx[b] = original[b] /\ original[b] # 0
    BY <1>b, <1>k DEF Steps, Fits, BuilderKeeps, Keeps
  <2>3. \A c \in Building : original[c] = builder.idx[b] => c = b
    BY <1>k, <2>2 DEF OneToOne
  <2>4. \A c \in Building : original[c] # 0 /\ original[c] \in builder'.ignored =>
           \/ original[c] \in builder.ignored \/ c \in refused' \/ builder.goal[c] <= level[c]
    BY <1>7, <2>1, <2>3
  <2> QED
    BY <1>1, <1>7, <2>1, <2>4
<1> QED
  BY <1>0, <1>2, <1>3, <1>4, <1>5, <1>6, <1>7, BuilderMoves

LEMMA AsideNext ==
    ASSUME PlanInv, PlanNext
    PROVE  AsideOK'
<1> SUFFICES ASSUME "merged" \notin planTrouble'
             PROVE  \E original \in [Building -> {0} \cup StepIndex] : Numbered(original)'
  BY DEF AsideOK, Without
<1>1. Without({"merged"})
  BY LevelMoves DEF Without
<1>2. PICK original \in [Building -> {0} \cup StepIndex] : Numbered(original)
  BY <1>1 DEF PlanInv, AsideOK
<1>3. OneToOne(original) /\ EditingKeeps(original) /\ CyclesKeep(original)
  BY <1>2, NumberedParts
<1>4. CyclesKeep(original)' /\ BuilderKeeps(original)' /\ EditingKeeps(original)'
  BY <1>2, <1>3, CyclesKept, BuilderKept, EditingKept
<1>5. Numbered(original)'
  BY <1>3, <1>4, NumberedParts
<1> QED
  BY <1>5

-----------------------------------------------------------------------------
(* The plan just created, and the theorems *)

LEMMA InitialPlan ==
    ASSUME PlanInit
    PROVE  PlanInv
<1>1. PICK goal \in [Building -> Level] :
        /\ Steps(goal) # {} /\ asked = goal
        /\ \E idx \in Numberings(Steps(goal), Cardinality(Steps(goal))) :
             cycle = [j \in Cycle |->
                        IF j = PlanRoot
                          THEN NewCycle("queued", 0, [NoInputs EXCEPT !.goal = goal, !.idx = idx])
                          ELSE NoCycle]
  BY DEF PlanInit
<1>2. PICK idx \in Numberings(Steps(goal), Cardinality(Steps(goal))) :
        cycle = [j \in Cycle |->
                   IF j = PlanRoot
                     THEN NewCycle("queued", 0, [NoInputs EXCEPT !.goal = goal, !.idx = idx])
                     ELSE NoCycle]
  BY <1>1
<1>3. /\ idx \in [Building -> {0} \cup StepIndex]
      /\ \A b \in Building : idx[b] = 0 <=> goal[b] = 0
      /\ \A b, c \in Steps(goal) : idx[b] = idx[c] => b = c
  <2>1. Steps(goal) \in SUBSET Building
    BY DEF Steps
  <2>2. Cardinality(Steps(goal)) \in Nat /\ Cardinality(Steps(goal)) <= Cardinality(Building)
    BY <2>1, FS_Subset, FS_CardinalityType
  <2>3. /\ idx \in [Building -> {0} \cup StepIndex]
        /\ \A b \in Building : idx[b] = 0 <=> b \notin Steps(goal)
        /\ \A b, c \in Steps(goal) : idx[b] = idx[c] => b = c
    BY <2>1, <2>2, NumberingsFit
  <2> QED
    BY <2>3 DEF Steps
<1> DEFINE first == [NoInputs EXCEPT !.goal = goal, !.idx = idx]
<1>4. first.goal = goal /\ first.idx = idx /\ first.patch = {} /\ first.ignored = {}
  BY DEF NoInputs
<1>5. InputsFit(first) /\ first \in Inputs
  <2>1. first \in Inputs
    BY <1>3, NoInputsFit DEF InputsFit, Inputs
  <2>2. Fits(first)
    BY <1>3, <1>4 DEF Fits
  <2> QED
    BY <1>4, <2>1, <2>2 DEF InputsFit
<1>6. cycle = [j \in Cycle |-> IF j = 1 THEN NewCycle("queued", 0, first) ELSE NoCycle]
  BY <1>2
<1> HIDE DEF first
<1>7. PICK new : new = NewCycle("queued", 0, first)
  OBVIOUS
<1>8. /\ new \in CycleRecord /\ new.status = "queued" /\ new.source = 0 /\ new.inputs = first
      /\ new.sent = first
  BY <1>5, <1>7 DEF NewCycle, CycleRecord, CycleStatus
<1>9. /\ NoCycle \in CycleRecord /\ NoCycle.status = "none" /\ NoCycle.source = 0
      /\ NoCycle.inputs = NoInputs /\ NoCycle.sent = NoInputs
  BY NoInputsFit DEF NoCycle, CycleRecord, CycleStatus, InputsFit
<1>10. /\ 1 \in Cycle /\ cycle[1] = new
       /\ \A j \in Cycle \ {1} : cycle[j] = NoCycle
       /\ cycle \in [Cycle -> CycleRecord]
  BY <1>6, <1>7, <1>8, <1>9
<1>11. /\ AtRest \in BuilderRecord /\ Fits(AtRest) /\ AtRest.at = "idle" /\ AtRest.ignored = {}
       /\ \A b \in Building : AtRest.idx[b] = 0
  BY NoInputsFit, InputsTyped DEF AtRest, BuilderRecord, BuilderAt, Fits, InputsFit, NoInputs
<1>12. /\ NoRequest \in Request /\ NoRequest.base = NoInputs /\ NoRequest.inputs = NoInputs
       /\ NoRequest.at = "none"
  BY NoInputsFit DEF NoRequest, Request, InputsFit
<1>13. /\ merging \in Request /\ merging.base = NoInputs /\ merging.inputs = NoInputs
       /\ merging.at = "reserving" /\ merging.target = 1
  <2>1. merging = [NoRequest EXCEPT !.at = "reserving", !.target = 1]
    BY DEF PlanInit
  <2> QED
    BY <1>10, <1>12, <2>1 DEF Request, NoRequest
<1>14. /\ NoInputs.ignored = {} /\ NoInputs.patch = {}
       /\ \A b \in Building : NoInputs.idx[b] = 0 /\ NoInputs.goal[b] = 0
  BY DEF NoInputs
<1>15. /\ level = [b \in Building |-> 0] /\ reserved = {} /\ builder = AtRest /\ editing = NoRequest
       /\ refused = {} /\ planTrouble = {} /\ planEvents = 0
  BY DEF PlanInit
<1>16. ShapeOK
  <2>1. \A j \in Cycle : InputsFit(cycle[j].inputs) /\ InputsFit(cycle[j].sent)
    BY <1>5, <1>8, <1>9, <1>10, NoInputsFit
  <2>2. level \in [Building -> Level] /\ planEvents \in 0 .. MaxPlanEvents
    BY <1>15
  <2> QED
    BY <1>1, <1>10, <1>11, <1>12, <1>13, <1>15, <2>1, <2>2, NoInputsFit DEF ShapeOK
<1>17. Cycles = 1 .. 1
  BY <1>8, <1>9, <1>10 DEF Cycles
<1>18. CountedOK
  BY <1>8, <1>9, <1>10, <1>17 DEF CountedOK
<1>19. Newest = 1
  BY <1>17, <1>18, NewestIs
<1>20. \A j \in Cycle : FollowUps(j) = {}
  BY <1>8, <1>9, <1>10 DEF FollowUps
<1>21. LivePlan = {1}
  BY <1>8, <1>9, <1>10 DEF LivePlan
<1>22. FollowUpsOK /\ LeafOK
  BY <1>11, <1>15, <1>19, <1>20, <1>21 DEF FollowUpsOK, LeafOK
<1>23. RequestsOK /\ PatchOK
  BY <1>4, <1>8, <1>9, <1>10, <1>12, <1>13, <1>14, <1>15, <1>17 DEF RequestsOK, PatchOK
<1>24. MovedOK /\ ReservedOK
  BY <1>11, <1>15, <1>21 DEF MovedOK, ReservedOK
<1>25. ChangesKept
  BY <1>1, <1>4, <1>8, <1>10, <1>19 DEF ChangesKept
<1>26. AsideOK
  <2>1. OneToOne(idx)
    BY <1>1, <1>3 DEF OneToOne, Steps
  <2>2. CyclesKeep(idx)
    <3>1. InputsKeep(idx, first) /\ InputsKeep(idx, NoInputs)
      BY <1>4, <1>14 DEF InputsKeep, Keeps, AsideFor
    <3>2. Lower(first.goal, first.goal) /\ Lower(NoInputs.goal, NoInputs.goal)
      <4>1. \A b \in Building : goal[b] <= goal[b] /\ NoInputs.goal[b] <= NoInputs.goal[b]
        BY <1>1, <1>14
      <4> QED
        BY <1>4, <4>1 DEF Lower
    <3> QED
      BY <1>8, <1>9, <1>10, <3>1, <3>2 DEF CyclesKeep
  <2>3. BuilderKeeps(idx) /\ EditingKeeps(idx)
    BY <1>11, <1>12, <1>14, <1>15 DEF BuilderKeeps, EditingKeeps, InputsKeep, Keeps, AsideFor
  <2> QED
    BY <1>3, <2>1, <2>2, <2>3, NumberedParts DEF AsideOK
<1> QED
  BY <1>16, <1>18, <1>22, <1>23, <1>24, <1>25, <1>26 DEF PlanInv

\* A step that changes nothing.
LEMMA PlanStutters ==
    ASSUME PlanInv, UNCHANGED planVars
    PROVE  PlanInv'
<1> USE DEF planVars
<1>1. ShapeOK'
  BY DEF PlanInv, ShapeOK, Fits
<1>2. CountedOK'
  BY DEF PlanInv, CountedOK, Cycles
<1>3. FollowUpsOK' /\ RequestsOK' /\ PatchOK' /\ MovedOK'
  BY DEF PlanInv, FollowUpsOK, FollowUps, Here, RequestsOK, Cycles, PatchOK, Without, MovedOK
<1>4. LeafOK' /\ ReservedOK' /\ ChangesKept'
  BY DEF PlanInv, LeafOK, ReservedOK, ChangesKept, LivePlan, Newest, NextCycle, FollowUps, Here, Without
<1>5. \A original : Numbered(original) => Numbered(original)'
  BY DEF Numbered, InputsKeep, Keeps, AsideFor, Lower, OneToOne, Here
<1>6. AsideOK'
  BY <1>5 DEF PlanInv, AsideOK, Without
<1> QED
  BY <1>1, <1>2, <1>3, <1>4, <1>6 DEF PlanInv

LEMMA PlanInvariant == PlanSpec => []PlanInv
<1>1. ASSUME PlanInv, [PlanNext]_planVars PROVE PlanInv'
  <2>1. CASE PlanNext
    <3>1. MovedOK'
      BY <1>1, <2>1, MovedNext DEF PlanInv
    <3> QED
      BY <1>1, <2>1, <3>1, ShapeNext, FollowUpsNext, LeafNext, PatchNext, ReservedNext, ChangesNext,
         AsideNext
         DEF PlanInv
  <2> QED
    BY <1>1, <2>1, PlanStutters
<1> QED
  BY <1>1, InitialPlan, PTL DEF PlanSpec

\* The state of a plan always has the type PlanTypeOK gives it.
THEOREM PlanTypeCorrect == PlanSpec => []PlanTypeOK
<1>1. PlanInv => PlanTypeOK
  <2> SUFFICES ASSUME PlanInv PROVE PlanTypeOK
    OBVIOUS
  <2>1. ShapeOK /\ CountedOK
    BY DEF PlanInv
  <2>2. ASSUME NEW j \in Cycle
        PROVE  /\ cycle[j].status \in CycleStatus /\ cycle[j].source < j
               /\ cycle[j].inputs.goal \in [Building -> Level]
               /\ cycle[j].inputs.ignored \subseteq StepIndex
               /\ Cardinality(cycle[j].inputs.patch) <= 1
    <3>1. InputsFit(cycle[j].inputs) /\ cycle[j] \in CycleRecord
      BY <2>1 DEF ShapeOK
    <3>2. Cardinality(cycle[j].inputs.patch) \in {0, 1}
      BY <3>1, FS_EmptySet, FS_Singleton DEF InputsFit
    <3> QED
      BY <2>1, <3>1, <3>2, InputsTyped DEF CountedOK, CycleRecord, InputsFit
  <2>3. builder.at \in BuilderAt /\ editing.at \in {"none", "saving", "reserving"}
        /\ merging.at \in {"none", "saving", "reserving"}
    BY <2>1 DEF ShapeOK, BuilderRecord, Request
  <2> QED
    BY <2>1, <2>2, <2>3 DEF PlanTypeOK, ShapeOK, CycleStatus, BuilderAt
<1> QED
  BY <1>1, PlanInvariant, PTL

\* The cycle to come has the plan the operator was told of, whatever cycles, changes and
\* recoveries came before it, as long as none of the steps that ChangesKept names did:
\* JobPlanQuickPatchView, _merge_construction_plan() and RescheduleJobView.
THEOREM ChangesAreKept == PlanSpec => []ChangesKept
<1>1. PlanInv => ChangesKept
  BY DEF PlanInv
<1> QED
  BY <1>1, PlanInvariant, PTL

\* In a plan without merges a step that a cycle leaves aside is one the game refused: an
\* index stays the step's that had it when the plan was created (cut_step()).
THEOREM OnlyRefusedAside == PlanSpec => []AsideIsRefused
<1>1. PlanInv => AsideIsRefused
  <2> SUFFICES ASSUME PlanInv, Newest \in LivePlan, "merged" \notin planTrouble,
                      NEW b \in Steps(cycle[Newest].inputs.goal),
                      cycle[Newest].inputs.idx[b] \in cycle[Newest].inputs.ignored,
                      cycle[Newest].inputs.goal[b] > level[b]
               PROVE  b \in refused
    BY DEF AsideIsRefused
  <2>1. PICK i : i = cycle[Newest].inputs
    OBVIOUS
  <2>2. PICK original \in [Building -> {0} \cup StepIndex] : Numbered(original)
    BY DEF PlanInv, AsideOK, Without
  <2>3. InputsFit(i) /\ InputsKeep(original, i) /\ level \in [Building -> Level]
    BY <2>1, <2>2 DEF LivePlan, Numbered, PlanInv, ShapeOK
  <2>4. b \in Building /\ i.goal[b] # 0 /\ i.goal[b] \in 0 .. MaxLevel /\ level[b] \in 0 .. MaxLevel
    BY <2>1, <2>3, InputsTyped DEF Steps, InputsFit
  <2>5. i.idx[b] = original[b] /\ original[b] # 0
    BY <2>3, <2>4 DEF InputsFit, Fits, InputsKeep, Keeps
  <2>6. b \in refused \/ i.goal[b] <= level[b]
    BY <2>1, <2>3, <2>4, <2>5 DEF InputsKeep, AsideFor
  <2> QED
    BY <2>1, <2>4, <2>6
<1> QED
  BY <1>1, PlanInvariant, PTL

\* The account's resources are reserved for a plan once, as long as no merge made the
\* rows anew for a cycle that is not the root.
THEOREM PlanReservesOnce == PlanSpec => []ReservedOnce
<1>1. PlanInit => MovedOK
  BY DEF PlanInit, MovedOK
<1>2. MovedOK /\ [PlanNext]_planVars => MovedOK'
  BY MovedNext DEF planVars, MovedOK, Without
<1>3. MovedOK => ReservedOnce
  <2> SUFFICES ASSUME reserved \subseteq {PlanRoot} PROVE ~ (Cardinality(reserved) > 1)
    BY DEF MovedOK, ReservedOnce, Without
  <2>1. reserved = {} \/ reserved = {PlanRoot}
    OBVIOUS
  <2>2. Cardinality(reserved) \in {0, 1}
    BY <2>1, FS_EmptySet, FS_Singleton
  <2> QED
    BY <2>2
<1> QED
  BY <1>1, <1>2, <1>3, PTL DEF PlanSpec

\* A plan that is over leaves nothing reserved, unless one of the mishaps happened that
\* ReservationsEnd names: the last cycle's synchronisation, a cancellation and the
\* request that creates or merges a plan release or make the rows in any order.
THEOREM NothingStaysReserved == PlanSpec => []ReservationsEnd
<1>1. PlanInv => ReservationsEnd
  BY DEF PlanInv, ReservedOK, ReservationsEnd, Without, Troubles
<1> QED
  BY <1>1, PlanInvariant, PTL
=============================================================================
