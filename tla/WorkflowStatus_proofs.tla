------------------------ MODULE WorkflowStatus_proofs ------------------------
(***************************************************************************)
(* Proofs about WorkflowStatus, for every number of jobs and of the        *)
(* operator's moves.                                                       *)
(***************************************************************************)
EXTENDS WorkflowStatus, NumberLemmas, FiniteSetTheorems, TLAPS

JobRecord == [status : Live \cup Ended \cup {"none"}, run : 0 .. MaxJobs,
              plan : BOOLEAN, ended : 0 .. MaxJobs]

\* Jobs and runs are numbered without gaps, every job is in a run, the first is of the plan.
Numbered(n, m) ==
    /\ n \in WorkflowJob /\ m \in 1 .. n
    /\ Jobs = 1 .. n
    /\ {r \in WorkflowJob : runs[r] # "none"} = 1 .. m
    /\ \A j \in 1 .. n : jobs[j].run \in 1 .. m
    /\ jobs[1].plan
NumbersOK == \E n, m \in Nat : Numbered(n, m)

\* A rank is used up by a job that has ended.
RanksOK == \A j \in WorkflowJob : jobs[j].ended <= Cardinality(With(Ended))

\* A request belongs to a job that exists.
CallsOK == \A j \in WorkflowJob : call[j].does # "none" => j \in Jobs

\* A closed workflow has live jobs only while its cancel button is between the
\* workflow and the jobs; ...
OpenOK == workflow \in Over /\ With(Live) # {} => button.does = "cancel" /\ button.saved

\* ... a closed run never has.
RunsOpenOK == \A j \in With(Live) : runs[jobs[j].run] \notin Over

\* A settled workflow without live jobs is open only while its resume button is
\* between the workflow and the job it starts.
SettledOK ==
    With(Live) = {} /\ ~unsettled =>
        workflow \in Over \cup {"paused"} \/ (button.does = "resume" /\ button.saved)

WorkflowInv == WorkflowTypeOK /\ NumbersOK /\ RanksOK /\ CallsOK /\ OpenOK /\ RunsOpenOK /\ SettledOK

USE WorkflowAssumption DEF WorkflowAssumption, WorkflowJob

-----------------------------------------------------------------------------
(* Numbers *)

LEMMA JobsFinite ==
    ASSUME NEW S \in SUBSET WorkflowJob
    PROVE  IsFiniteSet(S) /\ Cardinality(S) \in 0 .. MaxJobs
<1>1. IsFiniteSet(WorkflowJob) /\ Cardinality(WorkflowJob) = MaxJobs
  BY FS_Interval
<1>2. IsFiniteSet(S) /\ Cardinality(S) <= MaxJobs
  BY <1>1, FS_Subset
<1>3. Cardinality(S) \in Nat
  BY <1>2, FS_CardinalityType
<1> QED
  BY <1>2, <1>3

\* The next job and the next run follow the last ones.
LEMMA NextNumbers ==
    ASSUME NEW n \in Nat, NEW m \in Nat, Numbered(n, m)
    PROVE  NextJob = n + 1 /\ NextRun = m + 1
<1>1. Cardinality(1 .. n) = n /\ Cardinality(1 .. m) = m
  BY FS_Interval
<1>2. Jobs = 1 .. n /\ {r \in WorkflowJob : runs[r] # "none"} = 1 .. m
  BY DEF Numbered
<1>3. NextJob = n + 1
  BY <1>1, <1>2 DEF NextJob
<1>4. NextRun = m + 1
  BY <1>1, <1>2 DEF NextRun
<1> QED
  BY <1>3, <1>4

\* The next rank.
LEMMA NextRankBound ==
    ASSUME WorkflowTypeOK, RanksOK
    PROVE  NextRank \in 1 .. Cardinality(With(Ended)) + 1
<1> DEFINE Ranks == {jobs[j].ended : j \in WorkflowJob}
<1>1. Ranks \in SUBSET (0 .. MaxJobs) /\ Ranks # {}
  <2>1. jobs[1].ended \in Ranks
    OBVIOUS
  <2> QED
    BY <2>1 DEF WorkflowTypeOK
<1>2. Max(Ranks) \in Ranks
  BY <1>1, MaxIsGreatest
<1>4. Cardinality(With(Ended)) \in Nat
  BY JobsFinite DEF With, Jobs
<1>3. Max(Ranks) \in 0 .. Cardinality(With(Ended))
  BY <1>1, <1>2, <1>4 DEF RanksOK
<1> QED
  BY <1>3, <1>4 DEF NextRank

\* However jobs end or begin in a step, ranks stay within their bound.
LEMMA RanksMove ==
    ASSUME WorkflowTypeOK, RanksOK,
           \A j \in WorkflowJob : jobs[j].status \in Ended => jobs'[j].status \in Ended,
           \A j \in WorkflowJob :
              \/ jobs'[j].ended \in {0, jobs[j].ended}
              \/ /\ jobs'[j].ended = NextRank
                 /\ jobs[j].status \notin Ended /\ jobs'[j].status \in Ended
    PROVE  RanksOK' /\ \A j \in WorkflowJob : jobs'[j].ended \in 0 .. MaxJobs
<1> DEFINE old == Cardinality(With(Ended))
<1> DEFINE new == Cardinality(With(Ended)')
<1>1. With(Ended) \in SUBSET With(Ended)'
  BY DEF With, Jobs, Ended
<1>2. IsFiniteSet(With(Ended)') /\ new \in 0 .. MaxJobs
  BY JobsFinite DEF With, Jobs
<1>3. old \in 0 .. MaxJobs /\ old <= new
  <2>1. old \in 0 .. MaxJobs
    BY JobsFinite DEF With, Jobs
  <2> QED
    BY <1>1, <1>2, <2>1, FS_Subset
<1>4. ASSUME NEW j \in WorkflowJob, jobs'[j].ended = NextRank,
             jobs[j].status \notin Ended, jobs'[j].status \in Ended
      PROVE  old < new
  <2>1. j \notin With(Ended) /\ j \in With(Ended)'
    BY <1>4 DEF With, Jobs, Ended
  <2>2. old # new
    BY <1>1, <1>2, <2>1, FS_Subset
  <2> QED
    BY <1>2, <1>3, <2>2
<1>5. NextRank \in 1 .. old + 1
  BY NextRankBound
<1> HIDE DEF old, new
<1>6. ASSUME NEW j \in WorkflowJob PROVE jobs'[j].ended \in 0 .. new
  <2>1. jobs[j].ended \in 0 .. old
    BY DEF RanksOK, WorkflowTypeOK, old
  <2>2. CASE jobs'[j].ended \in {0, jobs[j].ended}
    BY <1>2, <1>3, <2>1, <2>2
  <2>3. CASE jobs'[j].ended = NextRank /\ jobs[j].status \notin Ended /\ jobs'[j].status \in Ended
    BY <1>2, <1>3, <1>4, <1>5, <2>3
  <2> QED
    BY <2>2, <2>3
<1> QED
  BY <1>2, <1>6 DEF RanksOK, new

\* No job and no run appears or moves.
LEMMA NumbersKept ==
    ASSUME NumbersOK, runs' = runs \/ \A r \in WorkflowJob : runs'[r] = "none" <=> runs[r] = "none",
           \A j \in WorkflowJob :
              /\ jobs'[j].run = jobs[j].run /\ jobs'[j].plan = jobs[j].plan
              /\ jobs'[j].status = "none" <=> jobs[j].status = "none"
    PROVE  NumbersOK'
<1>1. PICK n, m \in Nat : Numbered(n, m)
  BY DEF NumbersOK
<1>2. Jobs' = Jobs
  BY DEF Jobs
<1>3. {r \in WorkflowJob : runs'[r] # "none"} = {r \in WorkflowJob : runs[r] # "none"}
  OBVIOUS
<1>4. \A j \in 1 .. n : jobs'[j].run \in 1 .. m
  BY <1>1 DEF Numbered
<1>5. jobs'[1].plan
  BY <1>1 DEF Numbered
<1>6. Numbered(n, m)'
  BY <1>1, <1>2, <1>3, <1>4, <1>5 DEF Numbered
<1> QED
  BY <1>6 DEF NumbersOK

\* A job's run exists.
LEMMA RunExists ==
    ASSUME NumbersOK, NEW j \in Jobs
    PROVE  jobs[j].run \in WorkflowJob
<1>1. PICK n, m \in Nat : Numbered(n, m)
  BY DEF NumbersOK
<1>2. n \in WorkflowJob /\ m \in 1 .. n /\ jobs[j].run \in 1 .. m
  BY <1>1 DEF Numbered
<1> QED
  BY <1>2

\* What a new job's run may be.
RunsNow == {NextRun} \cup {jobs[j].run : j \in Jobs}

\* The next job appears, in the next run or in one that exists.
LEMMA NumbersCreated ==
    ASSUME WorkflowTypeOK, NumbersOK, NextJob <= MaxJobs, NEW run \in RunsNow,
           jobs'[NextJob].run = run, jobs'[NextJob].status # "none",
           \A j \in WorkflowJob \ {NextJob} :
              /\ jobs'[j].run = jobs[j].run /\ jobs'[j].plan = jobs[j].plan
              /\ jobs'[j].status = "none" <=> jobs[j].status = "none",
           runs' = [runs EXCEPT ![run] = "scheduled"]
    PROVE  NumbersOK' /\ run \in WorkflowJob /\ NextJob \in WorkflowJob \ Jobs
<1>1. PICK n, m \in Nat : Numbered(n, m)
  BY DEF NumbersOK
<1>2. NextJob = n + 1 /\ NextRun = m + 1
  BY <1>1, NextNumbers
<1>3. n + 1 \in WorkflowJob /\ Jobs = 1 .. n /\ m \in 1 .. n
  BY <1>1, <1>2 DEF Numbered
<1>4. Jobs' = 1 .. n + 1
  <2>1. \A j \in WorkflowJob : jobs'[j].status # "none" <=> j \in 1 .. n \/ j = n + 1
    BY <1>2, <1>3 DEF Jobs
  <2> QED
    BY <1>3, <2>1 DEF Jobs
<1>5. run \in 1 .. m + 1
  BY <1>1, <1>2 DEF RunsNow, Numbered
<1>6. {r \in WorkflowJob : runs'[r] # "none"} = (1 .. m) \cup {run}
  <2>1. \A r \in WorkflowJob : runs[r] # "none" <=> r \in 1 .. m
    BY <1>1 DEF Numbered
  <2>2. run \in WorkflowJob
    BY <1>3, <1>5
  <2>3. \A r \in WorkflowJob : runs'[r] # "none" <=> r \in (1 .. m) \cup {run}
    BY <2>1, <2>2 DEF WorkflowTypeOK
  <2> QED
    BY <1>3, <2>2, <2>3
<1> DEFINE last == IF run = m + 1 THEN m + 1 ELSE m
<1>7. (1 .. m) \cup {run} = 1 .. last
  BY <1>3, <1>5
<1>8. \A j \in 1 .. n + 1 : jobs'[j].run \in 1 .. last
  <2>1. jobs'[n + 1].run \in 1 .. last
    BY <1>2, <1>3, <1>5
  <2>2. ASSUME NEW j \in 1 .. n PROVE jobs'[j].run \in 1 .. last
    <3>1. jobs'[j].run = jobs[j].run
      BY <1>2, <1>3
    <3>2. jobs[j].run \in 1 .. m
      BY <1>1 DEF Numbered
    <3> QED
      BY <1>3, <3>1, <3>2
  <2> QED
    BY <1>3, <2>1, <2>2
<1>9. jobs'[1].plan
  BY <1>1, <1>2, <1>3 DEF Numbered
<1>10. Numbered(n + 1, last)'
  BY <1>3, <1>4, <1>6, <1>7, <1>8, <1>9 DEF Numbered
<1>11. n + 1 \in Nat /\ last \in Nat
  BY <1>3
<1> QED
  BY <1>2, <1>3, <1>5, <1>10, <1>11 DEF NumbersOK

-----------------------------------------------------------------------------
(* What a step does to the jobs and their runs *)

\* The rows, apart from the workflow's.
RowsTypeOK ==
    /\ jobs \in [WorkflowJob -> JobRecord]
    /\ runs \in [WorkflowJob -> {"none", "scheduled", "running"} \cup Over]
RowsOK == RowsTypeOK /\ NumbersOK /\ RanksOK /\ RunsOpenOK

LEMMA RowsOfInv == ASSUME WorkflowInv PROVE RowsOK
BY DEF WorkflowInv, RowsOK, RowsTypeOK, WorkflowTypeOK, JobRecord

\* Nothing happens to the rows.
LEMMA RowsStay ==
    ASSUME RowsOK, UNCHANGED <<jobs, runs>>
    PROVE  RowsOK' /\ Jobs' = Jobs /\ \A s : With(s)' = With(s)
BY SMTT(30) DEF RowsOK, RowsTypeOK, NumbersOK, Numbered, RanksOK, RunsOpenOK, With, Jobs

\* Some live jobs end.
LEMMA SomeEnd ==
    ASSUME WorkflowInv, NEW S \in SUBSET With(Live), NEW outcome \in Ended,
           jobs' = [j \in WorkflowJob |->
                      IF j \in S THEN [jobs[j] EXCEPT !.status = outcome, !.ended = NextRank]
                                ELSE jobs[j]],
           runs' = runs
    PROVE  RowsOK' /\ Jobs' = Jobs /\ With(Live)' = With(Live) \ S
<1> USE DEF Live, Ended
<1>1. jobs \in [WorkflowJob -> JobRecord]
  BY RowsOfInv DEF RowsOK, RowsTypeOK
<1>2. \A j \in S : j \in WorkflowJob /\ jobs[j].status \in Live
  BY DEF With, Jobs
<1>3. ASSUME NEW j \in WorkflowJob
      PROVE  /\ jobs'[j].run = jobs[j].run /\ jobs'[j].plan = jobs[j].plan
             /\ jobs'[j].status = IF j \in S THEN outcome ELSE jobs[j].status
             /\ jobs'[j].ended = IF j \in S THEN NextRank ELSE jobs[j].ended
  BY <1>1, <1>2 DEF JobRecord
<1>4. ASSUME NEW j \in WorkflowJob
      PROVE  jobs'[j].status = "none" <=> jobs[j].status = "none"
  BY <1>2, <1>3
<1>5. NumbersOK'
  BY <1>3, <1>4, NumbersKept DEF WorkflowInv
<1>6. RanksOK' /\ \A j \in WorkflowJob : jobs'[j].ended \in 0 .. MaxJobs
  BY <1>2, <1>3, RanksMove DEF WorkflowInv
<1>7. jobs' \in [WorkflowJob -> JobRecord]
  <2>1. ASSUME NEW j \in WorkflowJob PROVE jobs'[j] \in JobRecord
    <3>1. CASE j \in S
      <4>1. jobs'[j] = [jobs[j] EXCEPT !.status = outcome, !.ended = NextRank]
        BY <3>1
      <4>2. NextRank \in 0 .. MaxJobs
        BY <1>3, <1>6, <3>1
      <4> QED
        BY <1>1, <4>1, <4>2 DEF JobRecord
    <3>2. CASE j \notin S
      BY <1>1, <3>2
    <3> QED
      BY <3>1, <3>2
  <2>2. jobs' = [j \in WorkflowJob |-> jobs'[j]]
    OBVIOUS
  <2> QED
    BY <2>1, <2>2
<1>8. Jobs' = Jobs
  BY <1>4 DEF Jobs
<1>9. With(Live)' = With(Live) \ S
  BY <1>2, <1>3, <1>8 DEF With, Jobs
<1>10. RunsOpenOK'
  BY <1>3, <1>9 DEF WorkflowInv, RunsOpenOK, With, Jobs
<1>11. RowsTypeOK'
  BY <1>7, RowsOfInv DEF RowsOK, RowsTypeOK
<1> QED
  BY <1>5, <1>6, <1>8, <1>9, <1>10, <1>11 DEF RowsOK

\* A job starts.
LEMMA OneStarts ==
    ASSUME WorkflowInv, NEW j \in WorkflowJob, jobs[j].status \in Live,
           jobs' = [jobs EXCEPT ![j].status = "running"], runs' = runs
    PROVE  RowsOK' /\ Jobs' = Jobs /\ With(Live)' = With(Live)
<1> USE DEF Live, Ended
<1>1. jobs \in [WorkflowJob -> JobRecord]
  BY RowsOfInv DEF RowsOK, RowsTypeOK
<1>2. ASSUME NEW k \in WorkflowJob
      PROVE  /\ jobs'[k].run = jobs[k].run /\ jobs'[k].plan = jobs[k].plan
             /\ jobs'[k].status = IF k = j THEN "running" ELSE jobs[k].status
             /\ jobs'[k].ended = jobs[k].ended
  BY <1>1 DEF JobRecord
<1>3. NumbersOK'
  BY <1>2, NumbersKept DEF WorkflowInv
<1>4. RanksOK'
  BY <1>2, RanksMove DEF WorkflowInv
<1>5. RowsTypeOK'
  BY <1>1, RowsOfInv DEF RowsOK, RowsTypeOK, JobRecord
<1>6. Jobs' = Jobs
  BY <1>2 DEF Jobs
<1>7. With(Live)' = With(Live)
  BY <1>2, <1>6 DEF With, Jobs
<1>8. RunsOpenOK'
  BY <1>2, <1>7 DEF WorkflowInv, RunsOpenOK, With, Jobs
<1> QED
  BY <1>3, <1>4, <1>5, <1>6, <1>7, <1>8 DEF RowsOK

\* The next job appears, queued or scheduled, and one that ran may be cancelled for it.
Appears(run, new) ==
    /\ NextJob <= MaxJobs /\ run \in RunsNow
    /\ new.status \in {"queued", "scheduled"} /\ new.run = run /\ new.ended = 0
    /\ run \in WorkflowJob => new \in JobRecord
    /\ jobs' = [k \in WorkflowJob |-> jobs'[k]] /\ jobs'[NextJob] = new
    /\ \A k \in WorkflowJob \ {NextJob} :
          \/ jobs'[k] = jobs[k]
          \/ /\ jobs[k].status = "running"
             /\ jobs'[k] = [jobs[k] EXCEPT !.status = "cancelled", !.ended = NextRank]
    /\ runs' = [runs EXCEPT ![run] = "scheduled"]

LEMMA OneAppears ==
    ASSUME WorkflowInv, NEW run, NEW new, Appears(run, new)
    PROVE  RowsOK' /\ Jobs \subseteq Jobs' /\ NextJob \in With({"queued", "scheduled"})'
<1> USE DEF Live, Ended, Appears
<1>1. jobs \in [WorkflowJob -> JobRecord] /\ runs \in [WorkflowJob -> {"none", "scheduled", "running"} \cup Over]
  BY RowsOfInv DEF RowsOK, RowsTypeOK
<1>2. ASSUME NEW k \in WorkflowJob \ {NextJob}
      PROVE  /\ jobs'[k].run = jobs[k].run /\ jobs'[k].plan = jobs[k].plan
             /\ \/ jobs'[k].status = jobs[k].status /\ jobs'[k].ended = jobs[k].ended
                \/ /\ jobs[k].status = "running" /\ jobs'[k].status = "cancelled"
                   /\ jobs'[k].ended = NextRank
  <2>1. CASE jobs'[k] = jobs[k]
    BY <2>1
  <2>2. CASE /\ jobs[k].status = "running"
             /\ jobs'[k] = [jobs[k] EXCEPT !.status = "cancelled", !.ended = NextRank]
    <3>1. jobs[k] \in JobRecord
      BY <1>1
    <3> QED
      BY <2>2, <3>1 DEF JobRecord
  <2> QED
    BY <2>1, <2>2
<1>3. /\ jobs'[NextJob].status \in {"queued", "scheduled"} /\ jobs'[NextJob].run = run
      /\ jobs'[NextJob].ended = 0
  OBVIOUS
<1>4. NumbersOK' /\ run \in WorkflowJob /\ NextJob \in WorkflowJob \ Jobs
  <2>1. jobs'[NextJob].status # "none"
    BY <1>3
  <2>2. ASSUME NEW k \in WorkflowJob \ {NextJob}
        PROVE  jobs'[k].status = "none" <=> jobs[k].status = "none"
    BY <1>2
  <2> QED
    BY <1>2, <1>3, <2>1, <2>2, NumbersCreated DEF WorkflowInv
<1>5. jobs[NextJob].status = "none"
  BY <1>4 DEF Jobs
<1>6. RanksOK' /\ \A k \in WorkflowJob : jobs'[k].ended \in 0 .. MaxJobs
  BY <1>2, <1>3, <1>4, <1>5, RanksMove DEF WorkflowInv
<1>7. jobs' \in [WorkflowJob -> JobRecord]
  <2>1. ASSUME NEW k \in WorkflowJob PROVE jobs'[k] \in JobRecord
    <3>1. CASE k = NextJob
      BY <1>4, <3>1 DEF JobRecord
    <3>2. CASE jobs'[k] = jobs[k]
      BY <1>1, <3>2
    <3>3. CASE /\ k # NextJob /\ jobs[k].status = "running"
               /\ jobs'[k] = [jobs[k] EXCEPT !.status = "cancelled", !.ended = NextRank]
      <4>1. NextRank \in 0 .. MaxJobs
        <5>1. jobs'[k].ended = NextRank
          BY <1>1, <3>3 DEF JobRecord
        <5> QED
          BY <1>6, <5>1
      <4> QED
        BY <1>1, <3>3, <4>1 DEF JobRecord
    <3> QED
      BY <3>1, <3>2, <3>3
  <2> QED
    BY <2>1
<1>8. Jobs \subseteq Jobs' /\ NextJob \in With({"queued", "scheduled"})'
  BY <1>2, <1>3, <1>4 DEF With, Jobs
<1>9. RunsOpenOK'
  <2> SUFFICES ASSUME NEW k \in With(Live)' PROVE runs'[jobs'[k].run] \notin Over
    BY DEF RunsOpenOK
  <2>1. CASE k = NextJob
    BY <1>1, <1>3, <1>4, <2>1 DEF Over
  <2>2. CASE k # NextJob
    <3>1. k \in With(Live) /\ jobs'[k].run = jobs[k].run
      BY <1>2, <2>2 DEF With, Jobs
    <3>2. runs[jobs[k].run] \notin Over
      BY <3>1 DEF WorkflowInv, RunsOpenOK
    <3>3. CASE jobs[k].run = run
      <4>1. runs'[run] = "scheduled"
        BY <1>1, <1>4
      <4> QED
        BY <3>1, <3>3, <4>1 DEF Over
    <3>4. CASE jobs[k].run # run
      <4>1. jobs[k].run \in WorkflowJob
        BY <3>1, RunExists DEF WorkflowInv, With
      <4>2. runs'[jobs[k].run] = runs[jobs[k].run]
        BY <1>1, <3>4, <4>1
      <4> QED
        BY <3>1, <3>2, <4>2
    <3> QED
      BY <3>3, <3>4
  <2> QED
    BY <2>1, <2>2
<1>10. RowsTypeOK'
  BY <1>1, <1>4, <1>7 DEF RowsTypeOK
<1> QED
  BY <1>4, <1>6, <1>8, <1>9, <1>10 DEF RowsOK

\* What a creation commits.
LEMMA Created ==
    ASSUME WorkflowInv, NextJob <= MaxJobs, NEW source, NEW status \in {"queued", "scheduled"},
           NEW plan, plan \in BOOLEAN, NEW newRun, newRun \in BOOLEAN, newRun \/ source \in Jobs,
           NEW readPaused, NEW byUser, Create(source, status, plan, newRun, readPaused, byUser)
    PROVE  /\ RowsOK' /\ Jobs \subseteq Jobs' /\ With(Live)' # {}
           /\ workflow' \in {"paused", "waiting", "active"}
<1> DEFINE new(r) == [status |-> status, run |-> r, plan |-> plan, ended |-> 0]
<1>1. PICK run \in RunsNow :
        /\ jobs' = [jobs EXCEPT ![NextJob] = new(run)]
        /\ runs' = [runs EXCEPT ![run] = "scheduled"]
  <2>1. CASE newRun
    BY <2>1 DEF Create, RunsNow
  <2>2. CASE ~ newRun
    BY <2>2 DEF Create, RunsNow
  <2> QED
    BY <2>1, <2>2
<1>2. PICK rec : rec = new(run)
  OBVIOUS
<1>3. rec.status = status /\ rec.run = run /\ rec.ended = 0 /\ rec.plan = plan
  BY <1>2, Zenon
<1>4. run \in WorkflowJob => rec \in JobRecord
  <2>1. status \in Live /\ 0 \in 0 .. MaxJobs /\ (run \in WorkflowJob => run \in 0 .. MaxJobs)
    BY DEF Live
  <2> QED
    BY <1>2, <2>1, Zenon DEF JobRecord
<1>5. jobs' = [jobs EXCEPT ![NextJob] = rec]
  BY <1>1, <1>2
<1> HIDE DEF new
<1>6. jobs \in [WorkflowJob -> JobRecord] /\ NextJob \in WorkflowJob
  <2>1. PICK n, m \in Nat : Numbered(n, m)
    BY DEF WorkflowInv, NumbersOK
  <2>2. NextJob = n + 1
    BY <2>1, NextNumbers
  <2> QED
    BY <2>1, <2>2, RowsOfInv DEF RowsOK, RowsTypeOK, Numbered
<1>7. /\ jobs' = [k \in WorkflowJob |-> jobs'[k]] /\ jobs'[NextJob] = rec
      /\ \A k \in WorkflowJob \ {NextJob} : jobs'[k] = jobs[k]
  BY <1>5, <1>6
<1>8. Appears(run, rec)
  BY <1>1, <1>3, <1>4, <1>7 DEF Appears
<1>11. RowsOK' /\ Jobs \subseteq Jobs' /\ NextJob \in With({"queued", "scheduled"})'
  BY <1>8, OneAppears
<1>9. NextJob \in With(Live)'
  BY <1>11 DEF With, Live
<1>10. workflow' \in {"paused", "waiting", "active"}
  BY DEF Create, StatusFromJob
<1> QED
  BY <1>9, <1>10, <1>11

-----------------------------------------------------------------------------
(* The steps *)

\* The variables other than the rows of jobs and runs.
OthersTypeOK ==
    /\ workflow \in WorkflowStatusValue
    /\ call \in [WorkflowJob -> [does : Calls, paused : BOOLEAN]]
    /\ button \in [does : Buttons, saved : BOOLEAN]
    /\ unsettled \in BOOLEAN
    /\ events \in 0 .. MaxEvents

LEMMA InvOfParts ==
    ASSUME RowsOK', OthersTypeOK', CallsOK', OpenOK', SettledOK'
    PROVE  WorkflowInv'
BY DEF WorkflowInv, RowsOK, RowsTypeOK, OthersTypeOK, WorkflowTypeOK, JobRecord

LEMMA OthersOfInv == ASSUME WorkflowInv PROVE OthersTypeOK
BY DEF WorkflowInv, OthersTypeOK, WorkflowTypeOK

LEMMA Establishes == ASSUME WorkflowInit PROVE WorkflowInv
<1> USE DEF WorkflowInit, Unborn, NoCall, NoButton
<1>1. WorkflowTypeOK
  <2>1. workflow \in WorkflowStatusValue /\ button \in [does : Buttons, saved : BOOLEAN]
    BY DEF WorkflowStatusValue, Buttons
  <2>2. jobs \in [WorkflowJob -> [status : Live \cup Ended \cup {"none"}, run : 0 .. MaxJobs,
                                 plan : BOOLEAN, ended : 0 .. MaxJobs]]
    BY DEF Live, Ended
  <2>3. runs \in [WorkflowJob -> {"none", "scheduled", "running"} \cup Over]
    OBVIOUS
  <2>4. call \in [WorkflowJob -> [does : Calls, paused : BOOLEAN]]
    BY DEF Calls
  <2>5. unsettled \in BOOLEAN
    BY Zenon
  <2>6. events \in 0 .. MaxEvents
    OBVIOUS
  <2> QED
    BY <2>1, <2>2, <2>3, <2>4, <2>5, <2>6, Zenon DEF WorkflowTypeOK
<1>2. Jobs = {1}
  BY DEF Jobs
<1>3. {r \in WorkflowJob : runs[r] # "none"} = {1}
  OBVIOUS
<1>4. Numbered(1, 1)
  BY <1>2, <1>3 DEF Numbered
<1>5. NumbersOK
  BY <1>4 DEF NumbersOK
<1>6. RanksOK
  <2>0. With(Ended) \in SUBSET WorkflowJob
    BY DEF With, Jobs
  <2>1. Cardinality(With(Ended)) \in Nat
    BY <2>0, JobsFinite
  <2>2. \A j \in WorkflowJob : jobs[j].ended = 0
    OBVIOUS
  <2> QED
    BY <2>1, <2>2 DEF RanksOK
<1>7. CallsOK
  BY DEF CallsOK
<1>8. With(Live) = {1}
  BY <1>2 DEF With, Live
<1>9. OpenOK /\ RunsOpenOK /\ SettledOK
  BY <1>8 DEF OpenOK, RunsOpenOK, SettledOK, Over
<1> QED
  BY <1>1, <1>5, <1>6, <1>7, <1>9 DEF WorkflowInv

\* The other variables keep their types.
LEMMA OthersNext ==
    ASSUME WorkflowInv, WorkflowNext
    PROVE  OthersTypeOK'
<1>1. OthersTypeOK
  BY OthersOfInv
<1> USE <1>1 DEF OthersTypeOK
<1>2. workflow' \in WorkflowStatusValue
  BY ZenonT(40) DEF WorkflowNext, WorkflowProgress, StartWorkflowJob, BeginCreate, CommitCreate, ReportEnd,
         Reconcile, ReconcileLost, RecoverWorkflowJob, PressButton, SaveWorkflow, PauseJobs,
         CancelJobs, ResumeJobs, RetryJob, CancelChain, Create, StatusFromJob, Derive,
         WorkflowStatusValue, Over
<1>3. unsettled' \in BOOLEAN
  BY Zenon DEF WorkflowNext, WorkflowProgress, StartWorkflowJob, BeginCreate, CommitCreate, ReportEnd,
         Reconcile, ReconcileLost, RecoverWorkflowJob, PressButton, SaveWorkflow, PauseJobs,
         CancelJobs, ResumeJobs, RetryJob, CancelChain
<1>4. events' \in 0 .. MaxEvents
  <2>1. UNCHANGED events \/ Event
    BY DEF WorkflowNext, WorkflowProgress, StartWorkflowJob, BeginCreate, CommitCreate, ReportEnd,
         Reconcile, ReconcileLost, RecoverWorkflowJob, PressButton, SaveWorkflow, PauseJobs,
         CancelJobs, ResumeJobs, RetryJob, CancelChain
  <2> QED
    BY <2>1 DEF Event
<1>5. button' \in [does : Buttons, saved : BOOLEAN]
  <2>1. \/ UNCHANGED button
        \/ button' = NoButton
        \/ \E does \in {"pause", "resume", "cancel"} : button' = [does |-> does, saved |-> FALSE]
        \/ button' = [button EXCEPT !.saved = TRUE]
    BY DEF WorkflowNext, WorkflowProgress, StartWorkflowJob, BeginCreate, CommitCreate, ReportEnd,
         Reconcile, ReconcileLost, RecoverWorkflowJob, PressButton, SaveWorkflow, PauseJobs,
         CancelJobs, ResumeJobs, RetryJob, CancelChain
  <2>2. NoButton \in [does : Buttons, saved : BOOLEAN]
    BY DEF NoButton, Buttons
  <2>3. ASSUME NEW does \in {"pause", "resume", "cancel"}
        PROVE  [does |-> does, saved |-> FALSE] \in [does : Buttons, saved : BOOLEAN]
    BY DEF Buttons
  <2>4. [button EXCEPT !.saved = TRUE] \in [does : Buttons, saved : BOOLEAN]
    BY Zenon
  <2> QED
    BY <2>1, <2>2, <2>3, <2>4, Zenon
<1>6. \/ UNCHANGED call
      \/ \E j \in WorkflowJob : call' = [call EXCEPT ![j] = NoCall]
      \/ \E j \in WorkflowJob : call' = [call EXCEPT ![j] = [does |-> "report", paused |-> FALSE]]
      \/ \E j \in WorkflowJob, does \in {"reschedule", "spawn"} :
            call' = [call EXCEPT ![j] = [does |-> does, paused |-> workflow = "paused"]]
  BY DEF WorkflowNext, WorkflowProgress, StartWorkflowJob, BeginCreate, CommitCreate, ReportEnd,
         Reconcile, ReconcileLost, RecoverWorkflowJob, PressButton, SaveWorkflow, PauseJobs,
         CancelJobs, ResumeJobs, RetryJob, CancelChain
<1>7. call' \in [WorkflowJob -> [does : Calls, paused : BOOLEAN]]
  <2>1. NoCall \in [does : Calls, paused : BOOLEAN]
    BY DEF NoCall, Calls
  <2>2. [does |-> "report", paused |-> FALSE] \in [does : Calls, paused : BOOLEAN]
    BY DEF Calls
  <2>3. ASSUME NEW does \in {"reschedule", "spawn"}
        PROVE  [does |-> does, paused |-> workflow = "paused"] \in [does : Calls, paused : BOOLEAN]
    <3>1. (workflow = "paused") \in BOOLEAN
      BY Zenon
    <3>2. does \in Calls
      BY DEF Calls
    <3> QED
      BY <3>1, <3>2, Zenon
  <2>4. ASSUME NEW j \in WorkflowJob, NEW value \in [does : Calls, paused : BOOLEAN],
               call' = [call EXCEPT ![j] = value]
        PROVE  call' \in [WorkflowJob -> [does : Calls, paused : BOOLEAN]]
    BY <2>4, Zenon
  <2> QED
    BY <1>6, <2>1, <2>2, <2>3, <2>4, Zenon
<1> QED
  BY <1>2, <1>3, <1>4, <1>5, <1>7

\* A request is made by a job that exists, and jobs stay.
LEMMA CallsNext ==
    ASSUME WorkflowInv, WorkflowNext, Jobs \subseteq Jobs'
    PROVE  CallsOK'
<1>1. \A j \in WorkflowJob : call'[j].does # "none" => call[j].does # "none" \/ j \in Jobs
  <2>1. OthersTypeOK
    BY OthersOfInv
  <2> QED
    BY <2>1 DEF OthersTypeOK, WorkflowNext, WorkflowProgress, StartWorkflowJob, BeginCreate,
         CommitCreate, ReportEnd, Reconcile, ReconcileLost, RecoverWorkflowJob, PressButton,
         SaveWorkflow, PauseJobs, CancelJobs, ResumeJobs, RetryJob, CancelChain, NoCall, Jobs
<1> QED
  BY <1>1 DEF WorkflowInv, CallsOK

-----------------------------------------------------------------------------
(* The agent's steps *)

\* What each action owes: the rows, and the two relations between the workflow's
\* status and its jobs.
Keeps == RowsOK' /\ Jobs \subseteq Jobs' /\ OpenOK' /\ SettledOK'

LEMMA StartKeeps ==
    ASSUME WorkflowInv, NEW j \in WorkflowJob, StartWorkflowJob(j)
    PROVE  Keeps
<1>1. RowsOK' /\ Jobs' = Jobs /\ With(Live)' = With(Live)
  BY OneStarts DEF StartWorkflowJob, Live
<1> QED
  BY <1>1 DEF Keeps, StartWorkflowJob, WorkflowInv, OpenOK, SettledOK

LEMMA BeginCreateKeeps ==
    ASSUME WorkflowInv, NEW j \in WorkflowJob, NEW does, BeginCreate(j, does)
    PROVE  Keeps
<1>1. RowsOK' /\ Jobs' = Jobs /\ With(Live)' = With(Live)
  BY RowsOfInv, RowsStay DEF BeginCreate
<1> QED
  BY <1>1 DEF Keeps, BeginCreate, WorkflowInv, OpenOK, SettledOK

LEMMA CommitCreateKeeps ==
    ASSUME WorkflowInv, NEW j \in WorkflowJob, CommitCreate(j)
    PROVE  Keeps
<1>1. CASE ~ (NextJob <= MaxJobs)
  <2>1. UNCHANGED <<workflow, jobs, runs, unsettled, button>>
    BY <1>1 DEF CommitCreate
  <2>2. RowsOK' /\ Jobs' = Jobs /\ With(Live)' = With(Live)
    BY <2>1, RowsOfInv, RowsStay
  <2> QED
    BY <2>1, <2>2 DEF Keeps, WorkflowInv, OpenOK, SettledOK
<1>2. CASE NextJob <= MaxJobs
  <2>1. j \in Jobs
    BY DEF CommitCreate, WorkflowInv, CallsOK
  <2>2. jobs[j].plan \in BOOLEAN
    BY DEF WorkflowInv, WorkflowTypeOK
  <2>3. \/ Create(j, "scheduled", jobs[j].plan, TRUE, call[j].paused, FALSE)
        \/ Create(j, "queued", FALSE, FALSE, call[j].paused, FALSE)
    BY <1>2 DEF CommitCreate
  <2>4. /\ RowsOK' /\ Jobs \subseteq Jobs' /\ With(Live)' # {}
        /\ workflow' \in {"paused", "waiting", "active"}
    BY <1>2, <2>1, <2>2, <2>3, Created
  <2> QED
    BY <2>4 DEF Keeps, OpenOK, SettledOK, Over
<1> QED
  BY <1>1, <1>2

LEMMA ReportEndKeeps ==
    ASSUME WorkflowInv, NEW j \in WorkflowJob, NEW outcome \in {"finished", "error"},
           ReportEnd(j, outcome)
    PROVE  Keeps
<1>1. {j} \in SUBSET With(Live) /\ outcome \in Ended
  BY DEF ReportEnd, With, Jobs, Live, Ended
<1>2. jobs' = [k \in WorkflowJob |->
                 IF k \in {j} THEN [jobs[k] EXCEPT !.status = outcome, !.ended = NextRank]
                               ELSE jobs[k]]
  <2>1. jobs' = [jobs EXCEPT ![j] = [jobs[j] EXCEPT !.status = outcome, !.ended = NextRank]]
    BY DEF ReportEnd, WorkflowInv, WorkflowTypeOK
  <2> QED
    BY <2>1 DEF WorkflowInv, WorkflowTypeOK
<1>3. RowsOK' /\ Jobs' = Jobs /\ With(Live)' = With(Live) \ {j}
  BY <1>1, <1>2, SomeEnd DEF ReportEnd
<1> QED
  BY <1>1, <1>3 DEF Keeps, ReportEnd, WorkflowInv, OpenOK, SettledOK

\* The run's status follows its jobs, the workflow's all of them.
LEMMA ReconcileKeeps ==
    ASSUME WorkflowInv, NEW j \in WorkflowJob, Reconcile(j)
    PROVE  Keeps
<1> DEFINE r == jobs[j].run
<1>1. j \in Jobs /\ r \in WorkflowJob
  BY RunExists DEF Reconcile, WorkflowInv, CallsOK
<1>2. runs' = [runs EXCEPT ![r] = DeriveRun(r)] /\ jobs' = jobs
  BY DEF Reconcile
<1>3. DeriveRun(r) \in {"scheduled", "running"} \cup Over
  BY DEF DeriveRun, Over
<1>4. ASSUME NEW k \in With(Live), jobs[k].run = r
      PROVE  DeriveRun(r) \notin Over
  BY <1>4 DEF DeriveRun, With, Live, Over
<1> HIDE DEF r
<1>5. Jobs' = Jobs /\ With(Live)' = With(Live)
  BY <1>2 DEF With, Jobs
<1>6. RowsTypeOK'
  BY <1>1, <1>2, <1>3, RowsOfInv DEF RowsOK, RowsTypeOK
<1>7. runs[r] # "none"
  <2>1. PICK n, m \in Nat : Numbered(n, m)
    BY DEF WorkflowInv, NumbersOK
  <2>2. r \in 1 .. m
    BY <1>1, <2>1 DEF Numbered, r
  <2> QED
    BY <2>1, <2>2 DEF Numbered
<1>8. NumbersOK'
  <2>1. \A q \in WorkflowJob : runs'[q] = "none" <=> runs[q] = "none"
    BY <1>1, <1>2, <1>3, <1>7, RowsOfInv DEF RowsOK, RowsTypeOK, Over
  <2> QED
    BY <1>2, <2>1, NumbersKept DEF WorkflowInv
<1>9. RanksOK'
  BY <1>2 DEF WorkflowInv, RanksOK, With, Jobs
<1>10. RunsOpenOK'
  <2> SUFFICES ASSUME NEW k \in With(Live) PROVE runs'[jobs[k].run] \notin Over
    BY <1>2, <1>5 DEF RunsOpenOK
  <2>1. jobs[k].run \in WorkflowJob /\ runs[jobs[k].run] \notin Over
    BY RunExists DEF WorkflowInv, RunsOpenOK, With
  <2>2. runs \in [WorkflowJob -> {"none", "scheduled", "running"} \cup Over]
    BY RowsOfInv DEF RowsOK, RowsTypeOK
  <2>3. CASE jobs[k].run = r
    BY <1>1, <1>2, <1>4, <2>2, <2>3
  <2>4. CASE jobs[k].run # r
    BY <1>1, <1>2, <2>1, <2>2, <2>4
  <2> QED
    BY <2>3, <2>4
<1>11. workflow' = Derive(runs')
  BY <1>2 DEF Reconcile, r
<1>12. OpenOK'
  <2>1. With(Live) # {} => workflow' \in {"active", "waiting"}
    BY <1>11 DEF Derive, With, Live
  <2> QED
    BY <1>5, <2>1 DEF OpenOK, Over
<1>13. SettledOK'
  <2>1. With(Live) = {} => With({"queued", "running"}) = {} /\ With({"scheduled"}) = {}
    BY DEF With, Live
  <2>2. With(Live) = {} => workflow' \in Over \cup {"paused"}
    BY <1>11, <2>1 DEF Derive, Over
  <2> QED
    BY <1>5, <2>2 DEF SettledOK
<1> QED
  BY <1>5, <1>6, <1>8, <1>9, <1>10, <1>12, <1>13 DEF Keeps, RowsOK

LEMMA ReconcileLostKeeps ==
    ASSUME WorkflowInv, NEW j \in WorkflowJob, ReconcileLost(j)
    PROVE  Keeps
<1>1. RowsOK' /\ Jobs' = Jobs /\ With(Live)' = With(Live)
  BY RowsOfInv, RowsStay DEF ReconcileLost
<1> QED
  BY <1>1 DEF Keeps, ReconcileLost, WorkflowInv, OpenOK, SettledOK

\* The recovery ends a job, or cancels it for a new one.
LEMMA RecoverKeeps ==
    ASSUME WorkflowInv, NEW j \in WorkflowJob, RecoverWorkflowJob(j)
    PROVE  Keeps
<1>0. j \in Jobs /\ j \in With(Live) /\ jobs[j].status = "running" /\ button' = button
  BY DEF RecoverWorkflowJob, With, Jobs, Live
<1>1. ASSUME NEW s \in {"error", "cancelled"},
             jobs' = [jobs EXCEPT ![j].status = s, ![j].ended = NextRank],
             unsettled' = TRUE,
             UNCHANGED <<workflow, runs>>
      PROVE  Keeps
  <2>1. {j} \in SUBSET With(Live) /\ s \in Ended
    BY <1>0 DEF Ended
  <2>2. jobs' = [k \in WorkflowJob |->
                   IF k \in {j} THEN [jobs[k] EXCEPT !.status = s, !.ended = NextRank]
                                 ELSE jobs[k]]
    <3>1. jobs' = [jobs EXCEPT ![j] = [jobs[j] EXCEPT !.status = s, !.ended = NextRank]]
      BY <1>1 DEF WorkflowInv, WorkflowTypeOK
    <3> QED
      BY <3>1 DEF WorkflowInv, WorkflowTypeOK
  <2>3. RowsOK' /\ Jobs' = Jobs /\ With(Live)' = With(Live) \ {j}
    BY <1>1, <2>1, <2>2, SomeEnd
  <2> QED
    BY <1>0, <1>1, <2>3 DEF Keeps, WorkflowInv, OpenOK, SettledOK
<1>2. CASE /\ NextJob <= MaxJobs
           /\ jobs' = [jobs EXCEPT ![j].status = "cancelled", ![j].ended = NextRank,
                                   ![NextJob] = [status |-> "scheduled", run |-> NextRun,
                                                 plan |-> jobs[j].plan, ended |-> 0]]
           /\ runs' = [runs EXCEPT ![NextRun] = "scheduled"]
           /\ workflow' = IF workflow = "paused" THEN "paused" ELSE "waiting"
  <2> PICK new : new = [status |-> "scheduled", run |-> NextRun, plan |-> jobs[j].plan, ended |-> 0]
    OBVIOUS
  <2>1. new.status = "scheduled" /\ new.run = NextRun /\ new.ended = 0
    BY Zenon
  <2>2. jobs \in [WorkflowJob -> JobRecord]
    BY RowsOfInv DEF RowsOK, RowsTypeOK
  <2>3. NextRun \in WorkflowJob => new \in JobRecord
    <3>1. jobs[j].plan \in BOOLEAN
      BY <2>2 DEF JobRecord
    <3>2. "scheduled" \in Live /\ 0 \in 0 .. MaxJobs
          /\ (NextRun \in WorkflowJob => NextRun \in 0 .. MaxJobs)
      BY DEF Live
    <3> QED
      BY <3>1, <3>2, Zenon DEF JobRecord
  <2>4. NextJob \in WorkflowJob \ {j}
    <3>1. PICK n, m \in Nat : Numbered(n, m)
      BY DEF WorkflowInv, NumbersOK
    <3>2. NextJob = n + 1
      BY <3>1, NextNumbers
    <3> QED
      BY <1>0, <1>2, <3>1, <3>2 DEF Numbered
  <2>5. jobs' = [[jobs EXCEPT ![j] = [jobs[j] EXCEPT !.status = "cancelled", !.ended = NextRank]]
                    EXCEPT ![NextJob] = new]
    BY <1>2, <2>2
  <2>6. /\ jobs' = [k \in WorkflowJob |-> jobs'[k]] /\ jobs'[NextJob] = new
        /\ jobs'[j] = [jobs[j] EXCEPT !.status = "cancelled", !.ended = NextRank]
        /\ \A k \in WorkflowJob \ {NextJob, j} : jobs'[k] = jobs[k]
    BY <2>2, <2>4, <2>5
  <2>7. Appears(NextRun, new)
    BY <1>0, <1>2, <2>1, <2>3, <2>6 DEF Appears, RunsNow
  <2>8. RowsOK' /\ Jobs \subseteq Jobs' /\ NextJob \in With({"queued", "scheduled"})'
    BY <2>7, OneAppears
  <2>9. With(Live)' # {}
    BY <2>8 DEF With, Live
  <2>10. workflow' \in {"paused", "waiting"}
    BY <1>2
  <2> QED
    BY <2>8, <2>9, <2>10 DEF Keeps, OpenOK, SettledOK, Over
<1> QED
  BY <1>1, <1>2 DEF RecoverWorkflowJob

-----------------------------------------------------------------------------
(* The operator's steps *)

LEMMA PressKeeps ==
    ASSUME WorkflowInv, NEW does, PressButton(does)
    PROVE  Keeps
<1>1. RowsOK' /\ Jobs' = Jobs /\ With(Live)' = With(Live)
  BY RowsOfInv, RowsStay DEF PressButton
<1>2. UNCHANGED <<workflow, unsettled>> /\ button.does = "none"
  BY DEF PressButton, NoButton
<1> QED
  BY <1>1, <1>2 DEF Keeps, WorkflowInv, OpenOK, SettledOK

LEMMA SaveKeeps ==
    ASSUME WorkflowInv, SaveWorkflow
    PROVE  Keeps
<1>1. RowsOK' /\ Jobs' = Jobs /\ With(Live)' = With(Live)
  BY RowsOfInv, RowsStay DEF SaveWorkflow
<1>2. button'.does = button.does /\ button'.saved
  BY DEF SaveWorkflow, WorkflowInv, WorkflowTypeOK
<1> QED
  BY <1>1, <1>2 DEF Keeps, SaveWorkflow, OpenOK, SettledOK, Over

\* queryset.update() ends the jobs whose status is one of those given.
LEMMA CancelEnds ==
    ASSUME WorkflowInv, NEW statuses \in SUBSET Live, CancelAll(statuses), runs' = runs
    PROVE  RowsOK' /\ Jobs' = Jobs /\ With(Live)' = With(Live) \ With(statuses)
<1>1. With(statuses) \in SUBSET With(Live) /\ "cancelled" \in Ended
  BY DEF With, Ended
<1> QED
  BY <1>1, SomeEnd DEF CancelAll

LEMMA PauseJobsKeeps ==
    ASSUME WorkflowInv, PauseJobs
    PROVE  Keeps
<1>1. RowsOK' /\ Jobs' = Jobs /\ With(Live)' \subseteq With(Live)
  BY CancelEnds DEF PauseJobs, Live
<1> QED
  BY <1>1 DEF Keeps, PauseJobs, WorkflowInv, OpenOK, SettledOK

LEMMA CancelJobsKeeps ==
    ASSUME WorkflowInv, CancelJobs
    PROVE  Keeps
<1>1. RowsOK' /\ Jobs' = Jobs /\ With(Live)' = {}
  BY CancelEnds DEF CancelJobs
<1> QED
  BY <1>1 DEF Keeps, CancelJobs, OpenOK, SettledOK

LEMMA CancelChainKeeps ==
    ASSUME WorkflowInv, CancelChain
    PROVE  Keeps
<1>1. RowsOK' /\ Jobs' = Jobs /\ With(Live)' = {}
  BY CancelEnds DEF CancelChain
<1> QED
  BY <1>1 DEF Keeps, CancelChain, OpenOK, SettledOK

LEMMA ResumeJobsKeeps ==
    ASSUME WorkflowInv, ResumeJobs
    PROVE  Keeps
<1>1. CASE ~ (NextJob <= MaxJobs)
  <2>1. UNCHANGED <<workflow, jobs, runs>> /\ unsettled' = TRUE /\ button.does = "resume"
    BY <1>1 DEF ResumeJobs
  <2>2. RowsOK' /\ Jobs' = Jobs /\ With(Live)' = With(Live)
    BY <2>1, RowsOfInv, RowsStay
  <2> QED
    BY <2>1, <2>2 DEF Keeps, WorkflowInv, OpenOK, SettledOK
<1>2. CASE NextJob <= MaxJobs
  <2> DEFINE planned == {j \in Jobs : jobs[j].plan}
  <2>1. PICK n, m \in Nat : Numbered(n, m)
    BY DEF WorkflowInv, NumbersOK
  <2>2. 1 \in planned /\ planned \in SUBSET (0 .. n)
    BY <2>1 DEF Numbered
  <2>3. Max(planned) \in Jobs
    BY <2>1, <2>2, MaxIsGreatest
  <2>4. Create(Max(planned), "scheduled", TRUE, FALSE, FALSE, TRUE)
    BY <1>2 DEF ResumeJobs
  <2> HIDE DEF planned
  <2>5. /\ RowsOK' /\ Jobs \subseteq Jobs' /\ With(Live)' # {}
        /\ workflow' \in {"paused", "waiting", "active"}
    BY <1>2, <2>3, <2>4, Created
  <2> QED
    BY <2>5 DEF Keeps, OpenOK, SettledOK, Over
<1> QED
  BY <1>1, <1>2

LEMMA RetryKeeps ==
    ASSUME WorkflowInv, NEW j \in WorkflowJob, RetryJob(j)
    PROVE  Keeps
<1>1. j \in Jobs /\ jobs[j].plan \in BOOLEAN
  BY DEF RetryJob, Jobs, WorkflowInv, WorkflowTypeOK
<1>2. NextJob <= MaxJobs /\ Create(j, "queued", jobs[j].plan, TRUE, FALSE, TRUE)
  BY DEF RetryJob
<1>3. /\ RowsOK' /\ Jobs \subseteq Jobs' /\ With(Live)' # {}
      /\ workflow' \in {"paused", "waiting", "active"}
  BY <1>1, <1>2, Created
<1> QED
  BY <1>3 DEF Keeps, OpenOK, SettledOK, Over

-----------------------------------------------------------------------------
(* The theorems *)

LEMMA WorkflowInvNext == ASSUME WorkflowInv, WorkflowNext PROVE WorkflowInv'
<1>1. Keeps
  BY StartKeeps, BeginCreateKeeps, CommitCreateKeeps, ReportEndKeeps, ReconcileKeeps,
     ReconcileLostKeeps, RecoverKeeps, PressKeeps, SaveKeeps, PauseJobsKeeps, CancelJobsKeeps,
     CancelChainKeeps, ResumeJobsKeeps, RetryKeeps
     DEF WorkflowNext, WorkflowProgress
<1> QED
  BY <1>1, OthersNext, CallsNext, InvOfParts DEF Keeps

LEMMA WorkflowInvStays == ASSUME WorkflowInv, UNCHANGED workflowVars PROVE WorkflowInv'
<1>1. RowsOK'
  BY RowsOfInv, RowsStay DEF workflowVars
<1>2. OthersTypeOK'
  BY OthersOfInv DEF workflowVars, OthersTypeOK
<1>3. CallsOK' /\ OpenOK' /\ SettledOK'
  BY DEF WorkflowInv, workflowVars, CallsOK, OpenOK, SettledOK, With, Jobs
<1> QED
  BY <1>1, <1>2, <1>3, InvOfParts

LEMMA WorkflowInvHolds == WorkflowSpec => []WorkflowInv
BY Establishes, WorkflowInvNext, WorkflowInvStays, PTL DEF WorkflowSpec

\* The rows keep their types: in particular the numbers of jobs and runs and the ranks in
\* which jobs end stay within their bounds.
THEOREM WorkflowTypeCorrect == WorkflowSpec => []WorkflowTypeOK
<1>1. WorkflowInv => WorkflowTypeOK
  BY DEF WorkflowInv
<1> QED
  BY <1>1, WorkflowInvHolds, PTL

\* Once every request has ended no closed workflow or run has live jobs.
THEOREM NoLiveWorkHidden == WorkflowSpec => []NothingHidden
<1>1. WorkflowInv => NothingHidden
  BY DEF WorkflowInv, OpenOK, RunsOpenOK, NothingHidden, Quiet, NoButton
<1> QED
  BY <1>1, WorkflowInvHolds, PTL

\* Once every request has ended a reconciled workflow without live jobs is over or paused.
THEOREM StatusFollowsJobs == WorkflowSpec => []StatusSettled
<1>1. WorkflowInv => StatusSettled
  BY DEF WorkflowInv, SettledOK, StatusSettled, Quiet, NoButton
<1> QED
  BY <1>1, WorkflowInvHolds, PTL
=============================================================================
