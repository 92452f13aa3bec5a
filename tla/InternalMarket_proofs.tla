------------------------ MODULE InternalMarket_proofs -------------------------
(***************************************************************************)
(* Proofs about InternalMarket, for every set of orders, every amount and  *)
(* every bound: what is completed was bought and seen to arrive, and what  *)
(* an open order may be waiting for.                                       *)
(***************************************************************************)
EXTENDS InternalMarket, NumberLemmas

JobState == {"none"} \cup LiveJob \cup EndedJob

SellJob == [status : JobState, at : Runner, total : Nat, again : BOOLEAN]
LegJob == [of : Nat, status : JobState, at : Runner, monitor : BOOLEAN,
           amount : 0 .. Amount, got : 0 .. Amount, done : 0 .. Amount, source : Nat]
HaulJob == [of : Nat, status : JobState, at : Runner,
            kind : {"first", "rest", "watch", "monitor"}, units : 0 .. Amount, sent : 0 .. Amount]
CleanupJob == [status : JobState, at : Runner, leftover : 0 .. Amount, keep : SUBSET Order,
               total : Nat]

USE DEF LiveJob, EndedJob, OpenOrder, ClosedOrder, Runner, JobState

-----------------------------------------------------------------------------
(* The invariant *)

\* The types of the orders and of their jobs.
OrdersTyped ==
    /\ order \in [Order -> {"none"} \cup OpenOrder \cup ClosedOrder]
    /\ bought \in [Order -> Nat] /\ arrived \in [Order -> Nat] /\ landed \in [Order -> Nat]
    /\ severed \subseteq Order
    /\ mishaps \in 0 .. MaxMishaps
SellerTyped ==
    /\ office \in Nat
    /\ sell \in [Order -> SellJob]
    /\ cleanup \in [Order -> CleanupJob]
LegsTyped == leg \in [Leg -> LegJob] /\ \A j \in Leg : leg[j].got <= leg[j].amount
HaulsTyped == haul \in [Haul -> HaulJob] /\ \A h \in Haul : haul[h].sent <= haul[h].units

\* Purchase jobs are numbered as they are created, belong to an order, and a job comes
\* from an older one of the same order.
LegLinked(j) ==
    /\ leg[j].status = "none" => leg[j].of = 0 /\ leg[j].source = 0 /\ \A k \in Leg : j < k => leg[k].status = "none"
    /\ leg[j].status # "none" => leg[j].of \in Order
    /\ leg[j].source < j
    /\ leg[j].source # 0 => leg[leg[j].source].of = leg[j].of
    /\ leg[j].at # "idle" => leg[j].status \notin {"none", "queued"}
LegsLinked == \A j \in Leg : LegLinked(j)

\* So are the jobs of the redistributions.
HaulLinked(h) ==
    /\ haul[h].status = "none" => haul[h].of = 0 /\ \A k \in Haul : h < k => haul[k].status = "none"
    /\ haul[h].status # "none" => haul[h].of \in Order
    /\ haul[h].at # "idle" => haul[h].status \notin {"none", "queued"}
HaulsLinked == \A h \in Haul : HaulLinked(h)

\* The redistribution has begun; it has somebody to end it, or nobody any more who would
\* be heeded; a monitor has ended it well.
Carried(o) == Hauls(o) # {}
CarryOn(o) ==
    \/ HandedOver(o)
    \/ \E h \in LiveHauls(o) : haul[h].kind # "first" \/ haul[h].at # "ending"
Confirmed(o) == \E h \in Hauls(o) : haul[h].kind = "monitor" /\ haul[h].status = "finished"

\* One purchase runner of an order is at work.
Alone(o) == \A j, k \in Legs(o) : leg[j].at # "idle" /\ leg[k].at # "idle" => j = k

\* A leg counts no more than has arrived; a leg that ends well leaves a child or
\* everything has arrived; so it is redistributed, or completed, only then.
Counted(o) ==
    /\ \A j \in Legs(o) : leg[j].done <= arrived[o]
    /\ \A j \in Legs(o) :
          leg[j].at = "ending" /\ leg[j].status = "running"
            => arrived[o] >= Amount \/ RetryChildren(j) # {}
    /\ Carried(o) \/ order[o] = "completed" => arrived[o] >= Amount
    /\ order[o] = "completed" /\ o \in Hauled => Confirmed(o)

\* The sell job comes with the order; until it has told the hub, nothing is bought or
\* carried, and it tells the hub only then.
SellAhead(o) ==
    /\ order[o] = "none" => sell[o].status = "none" /\ sell[o].at = "idle" /\ ~ sell[o].again
    /\ order[o] \in {"none", "matched", "jobs_created"} \/ sell[o].at = "telling"
         => Legs(o) = {} /\ ~ Carried(o)

\* The live legs of an order are one, or one that ends and its child; a leg that ended
\* while its runner works has no live leg beside it; the redistribution comes last, and
\* while the order is open it goes on.
OneLine(o) ==
    \A j, k \in LiveLegs(o) :
        j < k => leg[j].at \in {"ending", "failing"} /\ leg[k].at = "idle" /\ leg[k].source = j
LateLeg(o) ==
    \A j \in Legs(o) : leg[j].at # "idle" /\ leg[j].status \notin LiveJob => LiveLegs(o) = {}
HaulLast(o) ==
    /\ Carried(o) => \A j \in LiveLegs(o) : leg[j].at \in {"ending", "failing"} /\ RetryChildren(j) = {}
    /\ Carried(o) /\ Open(o) => CarryOn(o)
InLine(o) == o \notin severed => OneLine(o) /\ LateLeg(o) /\ HaulLast(o)

\* OrderAlive, without a sell job that is about to end.
Going(o) ==
    Open(o) => \/ sell[o].status \in LiveJob /\ sell[o].at # "ending"
               \/ LiveLegs(o) # {}
               \/ CarryOn(o)
               \/ o \in severed

OrderOK(o) == Alone(o) /\ Counted(o) /\ SellAhead(o) /\ InLine(o) /\ Going(o)

MarketTyped == OrdersTyped /\ SellerTyped /\ LegsTyped /\ LegsLinked /\ HaulsTyped /\ HaulsLinked
MarketInv == MarketTyped /\ \A o \in Order : OrderOK(o)

-----------------------------------------------------------------------------
(* What the actions do to the purchase jobs *)

\* The greater of two numbers.
LEMMA MaxOfTwo ==
    ASSUME NEW a \in Nat, NEW b \in Nat
    PROVE  Max({a, b}) \in {a, b} /\ Max({a, b}) >= a /\ Max({a, b}) >= b
<1>1. a + b \in Nat /\ {a, b} \in SUBSET (0 .. a + b) /\ {a, b} # {}
  OBVIOUS
<1>2. Max({a, b}) \in {a, b} /\ \A y \in {a, b} : y <= Max({a, b})
  BY <1>1, MaxIsGreatest
<1> QED
  BY <1>2

\* When numbers are used in their sequence, the count of those used tells the next.
LEMMA NextInSequence ==
    ASSUME NEW n \in Nat, NEW used \in SUBSET (1 .. n),
           \A j, k \in 1 .. n : j < k /\ j \notin used => k \notin used
    PROVE  /\ Cardinality(used) + 1 \in Nat \ {0}
           /\ \A k \in 1 .. n : k \in used <=> k < Cardinality(used) + 1
<1> DEFINE Unused == {j \in 1 .. n + 1 : j \notin used}
<1>1. Unused \in SUBSET Nat /\ n + 1 \in Unused
  OBVIOUS
<1>2. PICK m \in Unused : \A l \in Unused : m <= l
  <2> HIDE DEF Unused
  <2> QED
    BY <1>1, LeastExists
<1>3. \A k \in 1 .. n : k < m => k \in used
  BY <1>2
<1>4. \A k \in 1 .. n : m <= k => k \notin used
  <2> SUFFICES ASSUME NEW k \in 1 .. n, m <= k PROVE k \notin used
    OBVIOUS
  <2>1. m \in 1 .. n /\ m \notin used
    BY <1>2
  <2> QED
    BY <2>1
<1>5. used = 1 .. m - 1
  <2>1. m \in Nat \ {0} /\ m <= n + 1
    BY <1>2
  <2>2. \A k \in 1 .. n : k \in used <=> k < m
    BY <1>3, <1>4, <2>1
  <2>3. ASSUME NEW k \in used PROVE k \in 1 .. m - 1
    <3>1. k \in 1 .. n /\ k < m
      BY <2>2
    <3> QED
      BY <2>1, <3>1
  <2>4. ASSUME NEW k \in 1 .. m - 1 PROVE k \in used
    BY <2>1, <2>2
  <2> QED
    BY <2>3, <2>4
<1>6. Cardinality(used) = m - 1
  <2>1. m \in Nat /\ m >= 1 /\ m - 1 \in Int /\ 1 \in Int
    BY <1>2
  <2>2. Cardinality(1 .. m - 1) = IF 1 > m - 1 THEN 0 ELSE (m - 1) - 1 + 1
    BY <2>1, FS_Interval
  <2> QED
    BY <1>5, <2>1, <2>2
<1> QED
  BY <1>2, <1>3, <1>4, <1>6

\* NextLeg is the first number that no purchase job has.
LEMMA NextLegFree ==
    ASSUME LegsTyped, LegsLinked
    PROVE  /\ NextLeg \in Nat \ {0}
           /\ \A k \in Leg : leg[k].status # "none" <=> k < NextLeg
<1>1. MaxLegs \in Nat
  BY MarketAssumption DEF MarketAssumption
<1>2. PICK used : used = {j \in Leg : leg[j].status # "none"}
  OBVIOUS
<1>3. used \in SUBSET (1 .. MaxLegs)
      /\ \A j, k \in 1 .. MaxLegs : j < k /\ j \notin used => k \notin used
  BY <1>2 DEF LegsLinked, LegLinked, Leg
<1>4. /\ Cardinality(used) + 1 \in Nat \ {0}
      /\ \A k \in 1 .. MaxLegs : k \in used <=> k < Cardinality(used) + 1
  BY <1>1, <1>3, NextInSequence
<1> QED
  BY <1>2, <1>4 DEF NextLeg, Leg

\* NextHaul is the first number that no job of a redistribution has.
LEMMA NextHaulFree ==
    ASSUME HaulsLinked
    PROVE  /\ NextHaul \in Nat \ {0}
           /\ \A k \in Haul : haul[k].status # "none" <=> k < NextHaul
<1>1. MaxHauls \in Nat
  BY MarketAssumption DEF MarketAssumption
<1>2. PICK used : used = {j \in Haul : haul[j].status # "none"}
  OBVIOUS
<1>3. used \in SUBSET (1 .. MaxHauls)
      /\ \A j, k \in 1 .. MaxHauls : j < k /\ j \notin used => k \notin used
  BY <1>2 DEF HaulsLinked, HaulLinked, Haul
<1>4. /\ Cardinality(used) + 1 \in Nat \ {0}
      /\ \A k \in 1 .. MaxHauls : k \in used <=> k < Cardinality(used) + 1
  BY <1>1, <1>3, NextInSequence
<1> QED
  BY <1>2, <1>4 DEF NextHaul, Haul

Moved(j, st, at) ==
    /\ \A k \in Leg \ {j} : leg'[k] = leg[k]
    /\ leg'[j].of = leg[j].of /\ leg'[j].source = leg[j].source /\ leg'[j].done = leg[j].done
    /\ leg'[j].status = st /\ leg'[j].at = at

\* ... or it changes its place and leaves a child that has counted d, ...
Grown(j, n, at, d) ==
    /\ n = NextLeg /\ n \in Leg /\ n # j
    /\ \A k \in Leg \ {j, n} : leg'[k] = leg[k]
    /\ leg'[j].of = leg[j].of /\ leg'[j].source = leg[j].source /\ leg'[j].done = leg[j].done
    /\ leg'[j].status = leg[j].status /\ leg'[j].at = at
    /\ leg'[n].of = leg[j].of /\ leg'[n].source = j /\ leg'[n].done = d
    /\ leg'[n].status = "queued" /\ leg'[n].at = "idle"

\* ... or an order gets its first, ...
Founded(o, n) ==
    /\ n = NextLeg /\ n \in Leg
    /\ \A k \in Leg \ {n} : leg'[k] = leg[k]
    /\ leg'[n].of = o /\ leg'[n].source = 0 /\ leg'[n].done = 0
    /\ leg'[n].status = "queued" /\ leg'[n].at = "idle"

\* ... or those of an order whose status is in gone end together.
Stopped(o, gone, outcome) ==
    \A k \in Leg :
        IF leg[k].of = o /\ leg[k].status \in gone
          THEN /\ leg'[k].of = o /\ leg'[k].source = leg[k].source /\ leg'[k].done = leg[k].done
               /\ leg'[k].status = outcome /\ leg'[k].at \in {leg[k].at, "idle"}
          ELSE leg'[k] = leg[k]

\* The source of a job is an older job.
LEMMA SourceIsLeg ==
    ASSUME LegsTyped, NEW k \in Leg, LegLinked(k), leg[k].source # 0
    PROVE  leg[k].source \in Leg /\ leg[k].source < k
<1>1. MaxLegs \in Nat
  BY MarketAssumption DEF MarketAssumption
<1>2. leg[k].source \in Nat
  BY DEF LegsTyped, LegJob
<1> QED
  BY <1>1, <1>2 DEF LegLinked, Leg

\* Each of them keeps the purchase jobs linked.
LEMMA LinkedMoved ==
    ASSUME LegsTyped, LegsLinked, NEW j \in Leg, NEW st, NEW at, Moved(j, st, at),
           leg[j].status # "none", st # "none", at # "idle" => st # "queued"
    PROVE  LegsLinked'
<1> USE DEF LegsTyped, LegJob
<1>1. \A k \in Leg : /\ leg'[k].of = leg[k].of /\ leg'[k].source = leg[k].source
                     /\ leg'[k].status = "none" <=> leg[k].status = "none"
  BY DEF Moved
<1>2. ASSUME NEW k \in Leg PROVE LegLinked(k)'
  <2>1. LegLinked(k)
    BY DEF LegsLinked
  <2>2. leg[k].source # 0 => leg[k].source \in Leg
    BY <2>1, SourceIsLeg
  <2>3. leg'[k].at # "idle" => leg'[k].status \notin {"none", "queued"}
    BY <2>1 DEF LegLinked, Moved
  <2> QED
    BY <1>1, <2>1, <2>2, <2>3 DEF LegLinked
<1> QED
  BY <1>2 DEF LegsLinked

LEMMA LinkedStopped ==
    ASSUME LegsTyped, LegsLinked, NEW o \in Order, NEW gone \in SUBSET LiveJob,
           NEW outcome \in EndedJob, Stopped(o, gone, outcome)
    PROVE  LegsLinked'
<1> USE DEF LegsTyped, LegJob
<1>1. \A k \in Leg : /\ leg'[k].of = leg[k].of /\ leg'[k].source = leg[k].source
                     /\ leg'[k].status = "none" <=> leg[k].status = "none"
  BY DEF Stopped
<1>2. ASSUME NEW k \in Leg PROVE LegLinked(k)'
  <2>1. LegLinked(k)
    BY DEF LegsLinked
  <2>2. leg[k].source # 0 => leg[k].source \in Leg
    BY <2>1, SourceIsLeg
  <2>3. leg'[k].at # "idle" => leg'[k].status \notin {"none", "queued"}
    BY <2>1 DEF LegLinked, Stopped
  <2> QED
    BY <1>1, <2>1, <2>2, <2>3 DEF LegLinked
<1> QED
  BY <1>2 DEF LegsLinked

LEMMA LinkedGrown ==
    ASSUME LegsTyped, LegsLinked, NEW n,
           \/ \E j \in Leg : \E at, d : Grown(j, n, at, d) /\ leg[j].status \notin {"none", "queued"}
           \/ \E o \in Order : Founded(o, n)
    PROVE  LegsLinked'
<1> USE DEF LegsTyped, LegJob
<1>1. n = NextLeg /\ n \in Leg
  BY DEF Grown, Founded
<1>2. \A k \in Leg : leg[k].status # "none" <=> k < n
  BY <1>1, NextLegFree
<1>3. \A k \in Leg \ {n} : /\ leg'[k].of = leg[k].of /\ leg'[k].source = leg[k].source
                           /\ leg'[k].status = leg[k].status
  BY DEF Grown, Founded
<1>4. \A k \in Leg \ {n} : LegLinked(k) /\ (leg'[k].at # "idle" => leg'[k].status \notin {"none", "queued"})
  BY DEF Grown, Founded, LegsLinked, LegLinked
<1>5. /\ leg'[n].status = "queued" /\ leg'[n].at = "idle" /\ leg'[n].of \in Order
      /\ \/ leg'[n].source = 0
         \/ /\ leg'[n].source \in Leg /\ leg'[n].source < n
            /\ leg[leg'[n].source].of = leg'[n].of
  <2>1. CASE \E o \in Order : Founded(o, n)
    BY <2>1 DEF Founded
  <2>2. ASSUME NEW j \in Leg, NEW at, NEW d, Grown(j, n, at, d), leg[j].status \notin {"none", "queued"}
        PROVE  /\ leg'[n].status = "queued" /\ leg'[n].at = "idle" /\ leg'[n].of \in Order
               /\ leg'[n].source \in Leg /\ leg'[n].source < n
               /\ leg[leg'[n].source].of = leg'[n].of
    BY <1>2, <2>2 DEF Grown, LegsLinked, LegLinked
  <2> QED
    BY <2>1, <2>2
<1>6. ASSUME NEW k \in Leg \ {n} PROVE LegLinked(k)'
  <2>1. leg[k].source # 0 => leg[k].source \in Leg \ {n}
    <3>1. LegLinked(k)
      BY <1>4
    <3>2. ASSUME leg[k].source = n, n \in Leg PROVE leg[k].source = 0
      BY <1>1, <1>2, <3>1, <3>2, SourceIsLeg DEF LegLinked, Leg
    <3> QED
      BY <1>1, <3>1, <3>2, SourceIsLeg
  <2>2. leg'[k].status = "none" => n < k /\ \A l \in Leg : k < l => leg'[l].status = "none"
    BY <1>1, <1>2, <1>3, SMTT(30) DEF Leg
  <2> QED
    BY <1>3, <1>4, <2>1, <2>2 DEF LegLinked
<1>7. LegLinked(n)'
  <2>1. leg'[n].source # 0 => leg'[leg'[n].source].of = leg'[n].of
    BY <1>1, <1>3, <1>5 DEF Leg
  <2>2. leg'[n].source < n
    BY <1>1, <1>5 DEF Leg
  <2> QED
    BY <1>5, <2>1, <2>2 DEF LegLinked
<1> QED
  BY <1>6, <1>7 DEF LegsLinked
\* A job that changes its place, with its status or what it has bought.
LEMMA PlaceMoved ==
    ASSUME LegsTyped, NEW j \in Leg, NEW st \in JobState, NEW at \in Runner, NEW n \in Nat, n <= leg[j].amount,
           \/ leg' = [leg EXCEPT ![j].at = at] /\ st = leg[j].status
           \/ leg' = [leg EXCEPT ![j].status = st, ![j].at = at]
           \/ leg' = [leg EXCEPT ![j].at = at, ![j].got = n] /\ st = leg[j].status
    PROVE  LegsTyped' /\ Moved(j, st, at)
<1>1. PICK old \in LegJob : old = leg[j] /\ old.got <= old.amount
  BY DEF LegsTyped
<1>2. n \in 0 .. Amount
  BY <1>1, MarketAssumption DEF LegJob, MarketAssumption
<1> HIDE DEF JobState, Runner
<1>3. \E new \in LegJob :
         /\ leg' = [leg EXCEPT ![j] = new] /\ new.got <= new.amount
         /\ new.of = old.of /\ new.source = old.source /\ new.done = old.done
         /\ new.status = st /\ new.at = at
  <2>1. CASE leg' = [leg EXCEPT ![j].at = at] /\ st = leg[j].status
    <3>1. PICK new : new = [old EXCEPT !.at = at]
      OBVIOUS
    <3>2. /\ new \in LegJob /\ new.of = old.of /\ new.source = old.source /\ new.done = old.done
          /\ new.status = st /\ new.at = at /\ new.got <= new.amount
      BY <1>1, <2>1, <3>1 DEF LegJob
    <3>3. leg' = [leg EXCEPT ![j] = new]
      BY <1>1, <2>1, <3>1 DEF LegsTyped
    <3> QED
      BY <3>2, <3>3
  <2>2. CASE leg' = [leg EXCEPT ![j].status = st, ![j].at = at]
    <3>1. PICK new : new = [old EXCEPT !.status = st, !.at = at]
      OBVIOUS
    <3>2. /\ new \in LegJob /\ new.of = old.of /\ new.source = old.source /\ new.done = old.done
          /\ new.status = st /\ new.at = at /\ new.got <= new.amount
      BY <1>1, <3>1 DEF LegJob
    <3>3. leg' = [leg EXCEPT ![j] = new]
      BY <1>1, <2>2, <3>1 DEF LegsTyped
    <3> QED
      BY <3>2, <3>3
  <2>3. CASE leg' = [leg EXCEPT ![j].at = at, ![j].got = n] /\ st = leg[j].status
    <3>1. PICK new : new = [old EXCEPT !.at = at, !.got = n]
      OBVIOUS
    <3>2. /\ new \in LegJob /\ new.of = old.of /\ new.source = old.source /\ new.done = old.done
          /\ new.status = st /\ new.at = at /\ new.got <= new.amount
      BY <1>1, <1>2, <2>3, <3>1 DEF LegJob
    <3>3. leg' = [leg EXCEPT ![j] = new]
      BY <1>1, <2>3, <3>1 DEF LegsTyped
    <3> QED
      BY <3>2, <3>3
  <2> QED
    BY <2>1, <2>2, <2>3
<1> HIDE DEF LegJob
<1>4. PICK new \in LegJob :
         /\ leg' = [leg EXCEPT ![j] = new] /\ new.got <= new.amount
         /\ new.of = old.of /\ new.source = old.source /\ new.done = old.done
         /\ new.status = st /\ new.at = at
  BY <1>3
<1> QED
  BY <1>1, <1>4 DEF LegsTyped, Moved

\* The purchase is left behind: done with, or given up.
LEMMA LeftMoved ==
    ASSUME LegsTyped, NEW j \in Leg, NEW at \in Runner, leg' = Left(j, at)
    PROVE  LegsTyped' /\ Moved(j, leg[j].status, at)
<1>1. leg[j].status \in JobState /\ 0 \in Nat /\ 0 <= leg[j].amount
  BY MarketAssumption DEF LegsTyped, LegJob, MarketAssumption
<1>2. PICK st \in JobState : st = leg[j].status
  BY <1>1
<1>3. LegsTyped' /\ Moved(j, st, at)
  <2> HIDE DEF JobState, Runner
  <2> QED
    BY <1>1, <1>2, PlaceMoved DEF Left
<1> QED
  BY <1>2, <1>3 DEF Moved

\* A reschedule, or a repetition: the job changes its place and a child is queued.
LEMMA ChildGrown ==
    ASSUME LegsTyped, LegsLinked, NEW j \in Leg, leg[j].status # "none", NEW at \in Runner,
           NEW inputs \in LegJob, inputs.of = leg[j].of, Born,
           \/ leg' = [Left(j, at) EXCEPT
                        ![NextLeg] = [inputs EXCEPT !.status = "queued", !.at = "idle", !.got = 0, !.source = j]]
           \/ /\ inputs.got <= inputs.amount
              /\ leg' = [leg EXCEPT ![j].at = at,
                           ![NextLeg] = [inputs EXCEPT !.status = "queued", !.at = "idle", !.source = j]]
    PROVE  LegsTyped' /\ Grown(j, NextLeg, at, inputs.done)
<1>1. PICK n : n = NextLeg
  OBVIOUS
<1>2. MaxLegs \in Nat
  BY MarketAssumption DEF MarketAssumption
<1>3. n \in Leg /\ n # j
  <2>1. n \in Nat /\ n <= MaxLegs /\ (\A k \in Leg : leg[k].status # "none" <=> k < n)
    BY <1>1, NextLegFree DEF Born
  <2>2. j < n
    BY <2>1
  <2> QED
    BY <1>2, <2>1, <2>2 DEF Leg
<1>4. PICK old \in LegJob : old = leg[j] /\ old.got <= old.amount
  BY DEF LegsTyped
<1>5. "queued" \in JobState /\ "idle" \in Runner /\ j \in Nat /\ 0 \in 0 .. Amount /\ 0 <= inputs.amount
      /\ 0 <= old.amount
  BY MarketAssumption DEF Leg, MarketAssumption, LegJob
<1> HIDE DEF JobState, Runner
<1>6. \E goes, child \in LegJob :
         /\ goes.of = old.of /\ goes.source = old.source /\ goes.done = old.done
         /\ goes.status = old.status /\ goes.at = at /\ goes.got <= goes.amount
         /\ child.of = inputs.of /\ child.source = j /\ child.done = inputs.done
         /\ child.status = "queued" /\ child.at = "idle" /\ child.got <= child.amount
         /\ leg' = [[leg EXCEPT ![j] = goes] EXCEPT ![n] = child]
  <2>1. CASE leg' = [Left(j, at) EXCEPT
                ![NextLeg] = [inputs EXCEPT !.status = "queued", !.at = "idle", !.got = 0, !.source = j]]
    <3>1. PICK goes, child : /\ goes = [old EXCEPT !.at = at, !.got = 0]
                             /\ child = [inputs EXCEPT !.status = "queued", !.at = "idle", !.got = 0, !.source = j]
      OBVIOUS
    <3>2. /\ goes \in LegJob /\ goes.of = old.of /\ goes.source = old.source /\ goes.done = old.done
          /\ goes.status = old.status /\ goes.at = at /\ goes.got <= goes.amount
      BY <1>4, <1>5, <3>1 DEF LegJob
    <3>3. /\ child \in LegJob /\ child.of = inputs.of /\ child.source = j /\ child.done = inputs.done
          /\ child.status = "queued" /\ child.at = "idle" /\ child.got <= child.amount
      BY <1>5, <3>1 DEF LegJob
    <3>4. leg' = [[leg EXCEPT ![j] = goes] EXCEPT ![n] = child]
      BY <1>1, <1>3, <1>4, <2>1, <3>1 DEF LegsTyped, Left
    <3> QED
      BY <3>2, <3>3, <3>4
  <2>2. CASE /\ inputs.got <= inputs.amount
             /\ leg' = [leg EXCEPT ![j].at = at,
                          ![NextLeg] = [inputs EXCEPT !.status = "queued", !.at = "idle", !.source = j]]
    <3>1. PICK goes, child : /\ goes = [old EXCEPT !.at = at]
                             /\ child = [inputs EXCEPT !.status = "queued", !.at = "idle", !.source = j]
      OBVIOUS
    <3>2. /\ goes \in LegJob /\ goes.of = old.of /\ goes.source = old.source /\ goes.done = old.done
          /\ goes.status = old.status /\ goes.at = at /\ goes.got <= goes.amount
      BY <1>4, <3>1 DEF LegJob
    <3>3. /\ child \in LegJob /\ child.of = inputs.of /\ child.source = j /\ child.done = inputs.done
          /\ child.status = "queued" /\ child.at = "idle" /\ child.got <= child.amount
      BY <1>5, <2>2, <3>1 DEF LegJob
    <3>4. leg' = [[leg EXCEPT ![j] = goes] EXCEPT ![n] = child]
      BY <1>1, <1>3, <1>4, <2>2, <3>1 DEF LegsTyped
    <3> QED
      BY <3>2, <3>3, <3>4
  <2> QED
    BY <2>1, <2>2
<1> HIDE DEF LegJob
<1>7. PICK goes \in LegJob, child \in LegJob :
         /\ goes.of = old.of /\ goes.source = old.source /\ goes.done = old.done
         /\ goes.status = old.status /\ goes.at = at /\ goes.got <= goes.amount
         /\ child.of = inputs.of /\ child.source = j /\ child.done = inputs.done
         /\ child.status = "queued" /\ child.at = "idle" /\ child.got <= child.amount
         /\ leg' = [[leg EXCEPT ![j] = goes] EXCEPT ![n] = child]
  BY <1>6
<1> QED
  BY <1>1, <1>3, <1>4, <1>7 DEF LegsTyped, Grown

\* _reschedule() of a purchase job: a child while it runs, else the runner fails.
LEMMA RescheduleLeg ==
    ASSUME LegsTyped, LegsLinked, NEW j \in Leg, leg[j].status # "none",
           NEW inputs \in LegJob, inputs.of = leg[j].of, Rescheduled(j, inputs)
    PROVE  /\ LegsTyped'
           /\ \/ leg[j].status = "running" /\ Grown(j, NextLeg, "ending", inputs.done)
              \/ leg[j].status # "running" /\ Moved(j, leg[j].status, "failing")
<1>1. CASE leg[j].status = "running"
  BY <1>1, ChildGrown DEF Rescheduled
<1>2. CASE leg[j].status # "running"
  <2>1. leg' = Left(j, "failing")
    BY <1>2 DEF Rescheduled
  <2> QED
    BY <1>2, <2>1, LeftMoved
<1> QED
  BY <1>1, <1>2

\* create_buy_job(): the first purchase job of an order.
LEMMA BuyJobFounded ==
    ASSUME LegsTyped, LegsLinked, NEW o \in Order, Born,
           leg' = [leg EXCEPT ![NextLeg] = [NoLeg EXCEPT !.of = o, !.status = "queued", !.amount = Amount]]
    PROVE  LegsTyped' /\ Founded(o, NextLeg)
<1>1. PICK n : n = NextLeg
  OBVIOUS
<1>2. n \in Leg
  BY <1>1, NextLegFree, MarketAssumption DEF MarketAssumption, Born, Leg
<1>3. PICK child : child = [NoLeg EXCEPT !.of = o, !.status = "queued", !.amount = Amount]
  OBVIOUS
<1>4. "queued" \in JobState /\ "idle" \in Runner
  OBVIOUS
<1>5. o \in Nat /\ 0 \in Nat /\ 0 \in 0 .. Amount /\ Amount \in 0 .. Amount /\ 0 <= Amount
  BY MarketAssumption DEF MarketAssumption
<1> HIDE DEF JobState, Runner
<1>6. /\ child \in LegJob /\ child.of = o /\ child.source = 0 /\ child.done = 0
      /\ child.status = "queued" /\ child.at = "idle" /\ child.got <= child.amount
  BY <1>3, <1>4, <1>5 DEF LegJob, NoLeg
<1>7. leg' = [leg EXCEPT ![n] = child]
  BY <1>1, <1>3
<1> HIDE DEF LegJob
<1> QED
  BY <1>1, <1>2, <1>6, <1>7 DEF LegsTyped, Founded

-----------------------------------------------------------------------------
(* What the actions do to the jobs of the redistributions *)

\* A job of order o goes on: what has ended stays as it ended; the others stay as they are.
HaulKept(o, k) ==
    /\ haul'[k].of = haul[k].of /\ haul'[k].kind = haul[k].kind
    /\ haul'[k].status = "none" <=> haul[k].status = "none"
    /\ haul[k].status \in EndedJob => haul'[k].status = haul[k].status
    /\ haul'[k].at # "idle" => haul'[k].status \notin {"none", "queued"}
    /\ haul[k].status = "none" \/ haul[k].of # o => haul'[k] = haul[k]

\* A job of order o is created.
HaulNew(o, k) ==
    /\ k = NextHaul /\ k \in Haul /\ haul'[k].of = o
    /\ haul'[k].status = "queued" /\ haul'[k].at = "idle"

HaulsGo(o) == \A k \in Haul : HaulKept(o, k) \/ HaulNew(o, k)

\* The jobs of the other orders' redistributions stand.
HaulsOfOthers(o) ==
    \A p \in Order \ {o} : \A k \in Haul : k \in Hauls(p) \/ k \in Hauls(p)' => haul'[k] = haul[k]

\* Such a step keeps the jobs linked, and what has been handed over or confirmed.
LEMMA HaulsGoOK ==
    ASSUME HaulsTyped, HaulsLinked, NEW o \in Order, HaulsGo(o)
    PROVE  /\ HaulsLinked' /\ HaulsOfOthers(o) /\ Hauls(o) \subseteq Hauls(o)'
           /\ Carried(o) => Carried(o)'
           /\ HandedOver(o) => HandedOver(o)'
           /\ Confirmed(o) => Confirmed(o)'
           /\ Carried(o)' => Carried(o) \/ \E k \in Haul : HaulNew(o, k)
<1>1. \A k \in Haul : haul[k].status # "none" <=> k < NextHaul
  BY NextHaulFree
<1>2. \A k \in Haul : haul[k].status # "none" => HaulKept(o, k)
  <2>1. NextHaul \in Nat
    BY NextHaulFree
  <2> QED
    BY <1>1, <2>1 DEF HaulsGo, HaulNew
<1>3. \A k \in Haul : haul'[k].status = "none" => haul[k].status = "none" /\ HaulKept(o, k)
  BY DEF HaulsGo, HaulNew, HaulKept
<1>4. HaulsLinked'
  <2> SUFFICES ASSUME NEW h \in Haul PROVE HaulLinked(h)'
    BY DEF HaulsLinked
  <2>1. HaulLinked(h)
    BY DEF HaulsLinked
  <2>2. CASE HaulNew(o, h)
    BY <2>2 DEF HaulNew, HaulLinked
  <2>3. CASE HaulKept(o, h)
    <3>1. ASSUME haul[h].status = "none", NEW k \in Haul, h < k PROVE haul'[k].status = "none"
      <4>1. haul[k].status = "none"
        BY <2>1, <3>1 DEF HaulLinked
      <4>2. ~ HaulNew(o, k)
        <5>1. NextHaul \in Nat /\ h \in Nat /\ NextHaul <= h
          BY <1>1, <3>1, NextHaulFree DEF Haul
        <5> QED
          BY <3>1, <5>1 DEF HaulNew
      <4> QED
        BY <4>1, <4>2 DEF HaulsGo, HaulKept
    <3> QED
      BY <2>1, <2>3, <3>1 DEF HaulLinked, HaulKept
  <2> QED
    BY <2>2, <2>3 DEF HaulsGo
<1>5. HaulsOfOthers(o)
  BY <1>2 DEF HaulsOfOthers, HaulsGo, HaulNew, HaulKept, Hauls
<1>6. Hauls(o) \subseteq Hauls(o)' /\ (Carried(o) => Carried(o)')
  BY <1>2 DEF Hauls, HaulKept, Carried
<1>7. HandedOver(o) => HandedOver(o)'
  <2> SUFFICES ASSUME NEW h \in Hauls(o), haul[h].kind \in {"rest", "watch"}, haul[h].status \in EndedJob
               PROVE  HandedOver(o)'
    BY DEF HandedOver
  <2>1. h \in Hauls(o)' /\ haul'[h].kind \in {"rest", "watch"} /\ haul'[h].status \in EndedJob
    BY <1>2, <1>6 DEF Hauls, HaulKept
  <2> QED
    BY <2>1 DEF HandedOver
<1>8. Confirmed(o) => Confirmed(o)'
  <2> SUFFICES ASSUME NEW h \in Hauls(o), haul[h].kind = "monitor", haul[h].status = "finished"
               PROVE  Confirmed(o)'
    BY DEF Confirmed
  <2>1. h \in Hauls(o)' /\ haul'[h].kind = "monitor" /\ haul'[h].status = "finished"
    BY <1>2, <1>6 DEF Hauls, HaulKept
  <2> QED
    BY <2>1 DEF Confirmed
<1>9. Carried(o)' => Carried(o) \/ \E k \in Haul : HaulNew(o, k)
  BY DEF Carried, Hauls, HaulsGo, HaulKept
<1> QED
  BY <1>4, <1>5, <1>6, <1>7, <1>8, <1>9

\* Nothing changes.
LEMMA HaulsStay ==
    ASSUME HaulsTyped, HaulsLinked, UNCHANGED haul, NEW o \in Order
    PROVE  /\ HaulsTyped' /\ HaulsLinked' /\ HaulsOfOthers(o)
           /\ Carried(o)' = Carried(o) /\ CarryOn(o)' = CarryOn(o) /\ Confirmed(o)' = Confirmed(o)
<1>1. HaulsTyped' /\ HaulsLinked' /\ HaulsOfOthers(o)
  BY DEF HaulsTyped, HaulsLinked, HaulLinked, HaulsOfOthers
<1>2. Hauls(o)' = Hauls(o) /\ LiveHauls(o)' = LiveHauls(o)
  BY DEF Hauls, LiveHauls
<1>3. HandedOver(o)' = HandedOver(o)
  BY <1>2 DEF HandedOver
<1>4. Carried(o)' = Carried(o) /\ CarryOn(o)' = CarryOn(o) /\ Confirmed(o)' = Confirmed(o)
  BY <1>2, <1>3 DEF Carried, CarryOn, Confirmed
<1> QED
  BY <1>1, <1>4

\* One job goes on.
LEMMA HaulGoes ==
    ASSUME HaulsTyped, HaulsLinked, NEW h \in Haul, NEW o \in Order, o = haul[h].of,
           haul[h].status # "none", NEW new \in HaulJob, new.of = o, new.kind = haul[h].kind,
           new.sent <= new.units, new.status # "none",
           haul[h].status \in EndedJob => new.status = haul[h].status,
           new.at # "idle" => new.status # "queued",
           haul' = [haul EXCEPT ![h] = new]
    PROVE  /\ HaulsTyped' /\ HaulsGo(o) /\ haul'[h] = new
           /\ \A k \in Haul \ {h} : haul'[k] = haul[k]
<1>1. haul'[h] = new /\ \A k \in Haul \ {h} : haul'[k] = haul[k]
  BY DEF HaulsTyped
<1>2. HaulsTyped'
  <2> HIDE DEF HaulJob
  <2> QED
    BY <1>1 DEF HaulsTyped
<1>3. ASSUME NEW k \in Haul PROVE HaulKept(o, k)
  BY <1>1 DEF HaulKept, HaulsLinked, HaulLinked
<1> QED
  BY <1>1, <1>2, <1>3 DEF HaulsGo

\* A transport goes on and leaves a child.
HaulAndChild(h, o, new, n, child) ==
    /\ HaulsTyped' /\ HaulsGo(o) /\ haul'[h] = new /\ n \in Haul /\ n # h /\ haul'[n] = child
    /\ \A k \in Haul \ {h, n} : haul'[k] = haul[k]

\* One job goes on and another one is created.
LEMMA HaulGoesWithChild ==
    ASSUME HaulsTyped, HaulsLinked, NEW h \in Haul, NEW o \in Order, o = haul[h].of,
           haul[h].status # "none", NEW new \in HaulJob, new.of = o, new.kind = haul[h].kind,
           new.sent <= new.units, new.status # "none",
           haul[h].status \in EndedJob => new.status = haul[h].status,
           new.at # "idle" => new.status # "queued",
           NEW child \in HaulJob, child.of = o, child.status = "queued", child.at = "idle",
           child.sent <= child.units, NEW n, n = NextHaul, HaulBorn,
           haul' = [[haul EXCEPT ![h] = new] EXCEPT ![n] = child]
    PROVE  HaulAndChild(h, o, new, n, child)
<1>1. MaxHauls \in Nat /\ n \in Nat /\ n <= MaxHauls /\ (\A k \in Haul : haul[k].status # "none" <=> k < n)
  BY NextHaulFree, MarketAssumption DEF MarketAssumption, HaulBorn
<1>2. n \in Haul /\ n # h /\ h \in Nat
  <2>1. h < n /\ h \in Nat /\ 1 <= h
    BY <1>1 DEF Haul
  <2> QED
    BY <1>1, <2>1 DEF Haul, NextHaul
<1>3. haul'[h] = new /\ haul'[n] = child /\ \A k \in Haul \ {h, n} : haul'[k] = haul[k]
  <2> HIDE DEF HaulJob
  <2> QED
    BY <1>2 DEF HaulsTyped
<1>4. HaulsTyped'
  <2> HIDE DEF HaulJob
  <2>1. haul' \in [Haul -> HaulJob]
    BY <1>2 DEF HaulsTyped
  <2>2. \A k \in Haul : haul'[k].sent <= haul'[k].units
    BY <1>3 DEF HaulsTyped
  <2> QED
    BY <2>1, <2>2 DEF HaulsTyped
<1>5. HaulNew(o, n)
  BY <1>2, <1>3 DEF HaulNew
<1>6. ASSUME NEW k \in Haul \ {n} PROVE HaulKept(o, k)
  BY <1>3 DEF HaulKept, HaulsLinked, HaulLinked
<1> QED
  BY <1>2, <1>3, <1>4, <1>5, <1>6 DEF HaulsGo, HaulAndChild

\* complete_internal_order() creates the redistribution.
LEMMA HaulFounded ==
    ASSUME HaulsTyped, HaulsLinked, NEW o \in Order, HaulBorn,
           haul' = [haul EXCEPT ![NextHaul] =
                      [NoHaul EXCEPT !.of = o, !.status = "queued", !.units = Amount]]
    PROVE  HaulsTyped' /\ HaulsGo(o) /\ Carried(o)' /\ CarryOn(o)'
<1>1. PICK n : n = NextHaul
  OBVIOUS
<1>2. MaxHauls \in Nat /\ n \in Haul /\ haul[n].status = "none"
  <2>1. MaxHauls \in Nat /\ n \in Nat \ {0} /\ n <= MaxHauls
    BY <1>1, NextHaulFree, MarketAssumption DEF MarketAssumption, HaulBorn
  <2>2. n \in Haul
    BY <2>1 DEF Haul
  <2> QED
    BY <1>1, <2>1, <2>2, NextHaulFree
<1>3. PICK child : child = [NoHaul EXCEPT !.of = o, !.status = "queued", !.units = Amount]
  OBVIOUS
<1>4. "queued" \in JobState /\ "idle" \in Runner /\ o \in Nat /\ 0 \in 0 .. Amount /\ Amount \in 0 .. Amount
      /\ 0 <= Amount
  BY MarketAssumption DEF MarketAssumption
<1>5. /\ child \in HaulJob /\ child.of = o /\ child.status = "queued" /\ child.at = "idle"
      /\ child.sent <= child.units
  <2> HIDE DEF JobState, Runner
  <2> QED
    BY <1>3, <1>4 DEF HaulJob, NoHaul
<1>6. haul' = [haul EXCEPT ![n] = child]
  BY <1>1, <1>3
<1>7. haul'[n] = child /\ \A k \in Haul \ {n} : haul'[k] = haul[k]
  <2> HIDE DEF HaulJob
  <2> QED
    BY <1>2, <1>6 DEF HaulsTyped
<1>8. HaulsTyped'
  <2> HIDE DEF HaulJob
  <2> QED
    BY <1>2, <1>5, <1>6, <1>7 DEF HaulsTyped
<1>9. HaulNew(o, n)
  BY <1>1, <1>2, <1>5, <1>7 DEF HaulNew
<1>10. ASSUME NEW k \in Haul \ {n} PROVE HaulKept(o, k)
  BY <1>7 DEF HaulKept, HaulsLinked, HaulLinked
<1>11. n \in Hauls(o)' /\ n \in LiveHauls(o)' /\ haul'[n].at = "idle"
  BY <1>2, <1>5, <1>7 DEF Hauls, LiveHauls
<1> QED
  BY <1>8, <1>9, <1>10, <1>11 DEF HaulsGo, Carried, CarryOn

\* An order's live jobs are cancelled.
LEMMA HaulsCancelled ==
    ASSUME HaulsTyped, HaulsLinked, NEW o \in Order, haul' = CancelHauls(o)
    PROVE  HaulsTyped' /\ HaulsGo(o) /\ (Carried(o)' => Carried(o))
<1>1. ASSUME NEW k \in Haul
      PROVE  haul'[k] \in HaulJob /\ haul'[k].sent <= haul'[k].units /\ HaulKept(o, k)
             /\ haul'[k].of = haul[k].of
  <2>1. PICK old \in HaulJob : old = haul[k] /\ old.sent <= old.units
    BY DEF HaulsTyped
  <2>2. HaulLinked(k)
    BY DEF HaulsLinked
  <2>3. CASE k \notin LiveHauls(o)
    <3>1. haul'[k] = haul[k]
      BY <2>3 DEF CancelHauls
    <3> QED
      BY <2>1, <2>2, <3>1 DEF HaulKept, HaulLinked
  <2>4. CASE k \in LiveHauls(o)
    <3>1. haul'[k] = [old EXCEPT !.status = "cancelled"]
      BY <2>1, <2>4 DEF CancelHauls
    <3>2. /\ haul'[k] \in HaulJob /\ haul'[k].of = old.of /\ haul'[k].kind = old.kind
          /\ haul'[k].status = "cancelled" /\ haul'[k].sent = old.sent /\ haul'[k].units = old.units
      BY <3>1 DEF HaulJob
    <3>3. haul[k].of = o /\ haul[k].status \in LiveJob
      BY <2>4 DEF LiveHauls, Hauls
    <3> QED
      BY <2>1, <3>2, <3>3 DEF HaulKept
  <2> QED
    BY <2>3, <2>4
<1>2. HaulsTyped'
  <2> HIDE DEF HaulJob
  <2> QED
    BY <1>1 DEF HaulsTyped, CancelHauls
<1>3. Carried(o)' => Carried(o)
  BY <1>1 DEF Carried, Hauls, HaulKept
<1> QED
  BY <1>1, <1>2, <1>3 DEF HaulsGo

-----------------------------------------------------------------------------
(* The orders a step does not touch *)

Untouched(p) ==
    /\ order'[p] = order[p] /\ sell'[p] = sell[p]
    /\ arrived'[p] = arrived[p] /\ (p \in severed' <=> p \in severed)
    /\ \A k \in Leg : k \in Legs(p) \/ k \in Legs(p)' => leg'[k] = leg[k]
    /\ \A k \in Haul : k \in Hauls(p) \/ k \in Hauls(p)' => haul'[k] = haul[k]

\* An order keeps its part of the invariant while nothing of it changes.
LEMMA UntouchedOK ==
    ASSUME LegsTyped, LegsLinked, LegsLinked', NEW p \in Order, Untouched(p), OrderOK(p)
    PROVE  OrderOK(p)'
<1>1. \A k \in Leg : k \in Legs(p)' <=> k \in Legs(p)
  BY DEF Untouched, Legs
<1>2. Legs(p)' = Legs(p) /\ \A k \in Legs(p) : k \in Leg /\ leg'[k] = leg[k]
  BY <1>1 DEF Untouched, Legs
<1>3. LiveLegs(p)' = LiveLegs(p) /\ LiveLegs(p) \subseteq Legs(p)
  BY <1>2 DEF LiveLegs
<1>4. ASSUME NEW j \in Legs(p) PROVE RetryChildren(j)' = RetryChildren(j)
  <2>1. j \in Leg /\ j # 0 /\ leg[j].of = p /\ leg'[j].of = p
    BY <1>2 DEF Legs, Leg
  <2>2. ASSUME NEW k \in Leg, leg[k].source = j, leg[k].status \in LiveJob
        PROVE  leg'[k] = leg[k]
    BY <1>2, <2>1, <2>2 DEF LegsLinked, LegLinked, Legs
  <2>3. ASSUME NEW k \in Leg, leg'[k].source = j, leg'[k].status \in LiveJob
        PROVE  leg'[k] = leg[k]
    BY <1>1, <1>2, <2>1, <2>3 DEF LegsLinked, LegLinked, Legs
  <2>4. \A k \in Leg : leg'[k].source = j /\ leg'[k].status \in LiveJob
                         <=> leg[k].source = j /\ leg[k].status \in LiveJob
    BY <2>2, <2>3
  <2> QED
    BY <2>4 DEF RetryChildren
<1>5. Carried(p)' = Carried(p) /\ CarryOn(p)' = CarryOn(p) /\ Confirmed(p)' = Confirmed(p)
  <2>1. \A k \in Haul : k \in Hauls(p)' <=> k \in Hauls(p)
    BY DEF Untouched, Hauls
  <2>2. Hauls(p)' = Hauls(p) /\ \A k \in Hauls(p) : k \in Haul /\ haul'[k] = haul[k]
    BY <2>1 DEF Untouched, Hauls
  <2>3. LiveHauls(p)' = LiveHauls(p) /\ LiveHauls(p) \subseteq Hauls(p)
    BY <2>2 DEF LiveHauls
  <2>4. HandedOver(p)' = HandedOver(p)
    BY <2>2 DEF HandedOver
  <2>5. CarryOn(p)' = CarryOn(p)
    BY <2>2, <2>3, <2>4 DEF CarryOn
  <2> QED
    BY <2>2, <2>5 DEF Carried, Confirmed
<1>6. Alone(p)'
  BY <1>2 DEF OrderOK, Alone
<1>7. Counted(p)'
  BY <1>2, <1>4, <1>5 DEF OrderOK, Counted, Untouched
<1>8. SellAhead(p)'
  BY <1>2, <1>5 DEF OrderOK, SellAhead, Untouched
<1>9. InLine(p)'
  <2>1. OneLine(p) => OneLine(p)'
    BY <1>2, <1>3 DEF OneLine
  <2>2. LateLeg(p) => LateLeg(p)'
    BY <1>2, <1>3 DEF LateLeg
  <2>3. HaulLast(p) => HaulLast(p)'
    BY <1>2, <1>3, <1>4, <1>5 DEF HaulLast, Untouched, Open
  <2> QED
    BY <2>1, <2>2, <2>3 DEF OrderOK, InLine, Untouched
<1>10. Going(p)'
  BY <1>3, <1>5 DEF OrderOK, Going, Untouched, Open
<1> QED
  BY <1>6, <1>7, <1>8, <1>9, <1>10 DEF OrderOK

\* The purchase jobs of the other orders stand, whatever happens to those of o.
LegsOfOthers(o) ==
    \A p \in Order \ {o} : \A k \in Leg : k \in Legs(p) \/ k \in Legs(p)' => leg'[k] = leg[k]

LEMMA OthersStand ==
    ASSUME LegsTyped, LegsLinked, NEW o \in Order,
           \/ UNCHANGED leg
           \/ \E j \in Leg : leg[j].of = o /\ \E st, at : Moved(j, st, at)
           \/ \E j \in Leg : leg[j].of = o /\ \E n, at, d : Grown(j, n, at, d)
           \/ \E n : Founded(o, n)
           \/ \E gone, outcome : Stopped(o, gone, outcome)
    PROVE  LegsOfOthers(o)
<1> SUFFICES ASSUME NEW p \in Order \ {o}, NEW k \in Leg, k \in Legs(p) \/ k \in Legs(p)'
             PROVE  leg'[k] = leg[k]
  BY DEF LegsOfOthers
<1>1. CASE UNCHANGED leg
  BY <1>1
<1>2. ASSUME NEW j \in Leg, leg[j].of = o, NEW st, NEW at, Moved(j, st, at)
      PROVE  leg'[k] = leg[k]
  BY <1>2 DEF Moved, Legs
<1>3. ASSUME NEW j \in Leg, leg[j].of = o, NEW n, NEW at, NEW d, Grown(j, n, at, d)
      PROVE  leg'[k] = leg[k]
  <2>1. leg[n].status = "none"
    BY <1>3, NextLegFree DEF Grown, Leg
  <2> QED
    BY <1>3, <2>1 DEF Grown, Legs
<1>4. ASSUME NEW n, Founded(o, n) PROVE leg'[k] = leg[k]
  <2>1. leg[n].status = "none"
    BY <1>4, NextLegFree DEF Founded, Leg
  <2> QED
    BY <1>4, <2>1 DEF Founded, Legs
<1>5. ASSUME NEW gone, NEW outcome, Stopped(o, gone, outcome) PROVE leg'[k] = leg[k]
  BY <1>5 DEF Stopped, Legs
<1> QED
  BY <1>1, <1>2, <1>3, <1>4, <1>5

-----------------------------------------------------------------------------
(* Types *)

\* SetTerminal and CompleteOrder: what they can make of an order and its transport.
LEMMA TerminalEffect ==
    ASSUME OrdersTyped, NEW o \in Order, NEW st \in ClosedOrder, order' = SetTerminal(o, st)
    PROVE  /\ order' \in [Order -> {"none"} \cup OpenOrder \cup ClosedOrder]
           /\ \A p \in Order \ {o} : order'[p] = order[p]
           /\ order'[o] \notin OpenOrder
           /\ order'[o] \notin OpenOrder
           /\ order'[o] = order[o] \/ (Open(o) /\ order'[o] = st)
BY DEF OrdersTyped, SetTerminal, Open

LEMMA CompleteEffect ==
    ASSUME OrdersTyped, HaulsTyped, HaulsLinked, NEW o \in Order, CompleteOrder(o)
    PROVE  /\ order' \in [Order -> {"none"} \cup OpenOrder \cup ClosedOrder]
           /\ \A p \in Order \ {o} : order'[p] = order[p]
           /\ HaulsTyped' /\ HaulsLinked' /\ HaulsOfOthers(o)
           /\ Confirmed(o) => Confirmed(o)'
           /\ \/ /\ order'[o] \notin OpenOrder
                 /\ order'[o] = order[o] \/ (order[o] # "none" /\ order'[o] = "completed" /\ o \notin Hauled)
                 /\ Carried(o)' = Carried(o) /\ CarryOn(o)' = CarryOn(o)
              \/ /\ Carried(o) /\ order'[o] = order[o]
                 /\ Carried(o)' = Carried(o) /\ CarryOn(o)' = CarryOn(o)
              \/ /\ order[o] # "none" /\ order'[o] = "jobs_running"
                 /\ Carried(o)' /\ CarryOn(o)'
<1>1. CASE Open(o) /\ o \in Hauled /\ Redistribution(o) # {} /\ UNCHANGED <<order, haul>>
  <2>1. Carried(o)
    BY <1>1 DEF Redistribution, Carried
  <2> QED
    BY <1>1, <2>1, HaulsStay DEF OrdersTyped
<1>2. CASE /\ Open(o) /\ o \in Hauled /\ HaulBorn
           /\ haul' = [haul EXCEPT ![NextHaul] =
                         [NoHaul EXCEPT !.of = o, !.status = "queued", !.units = Amount]]
           /\ order' = [order EXCEPT ![o] = "jobs_running"]
  <2>1. HaulsTyped' /\ HaulsGo(o) /\ Carried(o)' /\ CarryOn(o)'
    BY <1>2, HaulFounded
  <2> QED
    BY <1>2, <2>1, HaulsGoOK DEF OrdersTyped, Open
<1>3. CASE ~(Open(o) /\ o \in Hauled) /\ order' = SetTerminal(o, "completed") /\ UNCHANGED haul
  <2>1. "completed" \in ClosedOrder
    OBVIOUS
  <2> QED
    BY <1>3, <2>1, HaulsStay, TerminalEffect DEF Open
<1> QED
  BY <1>1, <1>2, <1>3 DEF CompleteOrder

\* The amount a cleanup keeps is a number, and so is what it leaves.
LEMMA CleanupNumbers ==
    ASSUME SellerTyped, NEW o \in Order
    PROVE  CleanupTotal(o) \in Nat
<1>1. PICK c \in CleanupJob : c = cleanup[o]
  BY DEF SellerTyped
<1>2. c.total \in Nat /\ c.leftover \in Nat /\ c.keep \subseteq Order /\ Amount \in Nat
  BY <1>1, MarketAssumption DEF CleanupJob, MarketAssumption
<1>3. Cardinality(c.keep) \in Nat
  BY <1>2, MarketAssumption, FS_Subset, FS_CardinalityType DEF MarketAssumption
<1>4. Amount * Cardinality(c.keep) \in Nat
  BY <1>2, <1>3
<1>5. Max({c.total, c.leftover}) - c.leftover \in Nat
  BY <1>2, MaxOfTwo
<1>6. Max({Amount * Cardinality(c.keep), Max({c.total, c.leftover}) - c.leftover}) \in Nat
  BY <1>4, <1>5, MaxOfTwo
<1> QED
  BY <1>1, <1>6 DEF CleanupTotal

LEMMA ScheduleTyped ==
    ASSUME SellerTyped, NEW o \in Order, NEW d \in 0 .. Amount,
           ScheduleCleanup(o, d) \/ UNCHANGED cleanup
    PROVE  cleanup' \in [Order -> CleanupJob]
<1>1. Max({Amount, d}) - d \in 0 .. Amount /\ StillOnOffer(o) \in SUBSET Order
  BY MaxOfTwo, MarketAssumption DEF MarketAssumption, StillOnOffer
<1>2. "queued" \in JobState /\ "idle" \in Runner /\ 0 \in Nat
  OBVIOUS
<1> HIDE DEF JobState, Runner
<1>3. [status |-> "queued", at |-> "idle", leftover |-> Max({Amount, d}) - d,
       keep |-> StillOnOffer(o), total |-> 0] \in CleanupJob
  BY <1>1, <1>2 DEF CleanupJob
<1> HIDE DEF CleanupJob
<1> QED
  BY <1>3 DEF SellerTyped, ScheduleCleanup

SellerStep(o) ==
    \/ PlaceOrder(o) \/ PlaceOrderLost(o) \/ CancelOrder(o)
    \/ SellStarts(o) \/ SellPosts(o) \/ SellTells(o) \/ SellFails(o) \/ SellReports(o)
    \/ CreateBuyJob(o, "ending") /\ UNCHANGED mishaps
    \/ CreateBuyJob(o, "failing") /\ Mishap
    \/ CleanupStarts(o) \/ CleanupPosts(o) \/ CleanupFails(o)
    \/ SellReportLost(o) \/ SellAgain(o)
    \/ \E outcome \in {"cancelled", "error"}, dead \in BOOLEAN : JobsEndUntold(o, outcome, dead)
LegStep(j) ==
    \/ LegStarts(j) \/ LegBuys(j) \/ LegMonitored(j) \/ LegWaits(j) \/ LegArrives(j)
    \/ LegFails(j) \/ LegOutOfGold(j) \/ LegReplyLost(j) \/ LegReports(j) \/ LegReportLost(j)
HaulStep(h) ==
    \/ HaulStarts(h) \/ HaulWaits(h) \/ HaulShips(h) \/ HaulWatched(h) \/ HaulGoesOn(h)
    \/ HaulLosesNetwork(h) \/ HaulFails(h) \/ HaulArrives(h) \/ HaulReports(h) \/ HaulReportLost(h)
    \/ \E dead, requeued \in BOOLEAN : HaulRecovered(h, dead, requeued)

LEMMA NextCases ==
    ASSUME MarketNext
    PROVE  \/ \E o \in Order : SellerStep(o)
           \/ \E j \in Leg : LegStep(j)
           \/ \E h \in Haul : HaulStep(h)
           \/ StrangerBuys
BY DEF MarketNext, SellerStep, LegStep, HaulStep

\* The mishaps stay within their bound.
LEMMA MishapTyped ==
    ASSUME mishaps \in 0 .. MaxMishaps, Mishap \/ UNCHANGED mishaps
    PROVE  mishaps' \in 0 .. MaxMishaps
BY MarketAssumption DEF MarketAssumption, Mishap

\* A job of the seller: one field changes, or some, or all.
LEMMA SellJobs ==
    ASSUME NEW old \in SellJob, NEW st \in JobState, NEW at \in Runner, NEW t \in Nat, NEW ag \in BOOLEAN
    PROVE  /\ [old EXCEPT !.status = st] \in SellJob
           /\ [old EXCEPT !.at = at] \in SellJob
           /\ [old EXCEPT !.status = st, !.again = ag] \in SellJob
           /\ [old EXCEPT !.at = at, !.total = t] \in SellJob
           /\ [old EXCEPT !.status = st, !.at = at, !.total = t] \in SellJob
           /\ [old EXCEPT !.at = at, !.total = t, !.again = ag] \in SellJob
           /\ [old EXCEPT !.status = st, !.at = at, !.total = t, !.again = ag] \in SellJob
<1> HIDE DEF JobState, Runner
<1> QED
  BY DEF SellJob

LEMMA SellTyped ==
    ASSUME SellerTyped, NEW o \in Order, SellerStep(o)
    PROVE  sell' \in [Order -> SellJob]
<1>1. PICK old \in SellJob : old = sell[o]
  BY DEF SellerTyped
<1>2. /\ old.status \in JobState /\ old.at \in Runner /\ old.total \in Nat /\ old.again \in BOOLEAN
      /\ office \in Nat /\ 0 \in Nat
  BY <1>1 DEF SellJob, SellerTyped
<1>3. \/ UNCHANGED sell
      \/ \E new \in SellJob : sell' = [sell EXCEPT ![o] = new]
  <2> USE <1>1, <1>2 DEF SellerTyped
  <2> HIDE DEF SellJob
  <2>1. CASE PlaceOrder(o)
    BY <2>1, SellJobs DEF PlaceOrder
  <2>2. CASE CancelOrder(o)
    <3>1. PICK st \in JobState : st = IF old.status \in LiveJob THEN "cancelled" ELSE old.status
      OBVIOUS
    <3>2. sell' = [sell EXCEPT ![o] = [old EXCEPT !.status = st, !.again = FALSE]]
      BY <2>2, <3>1 DEF CancelOrder
    <3> HIDE DEF JobState, Runner
    <3> QED
      BY <3>2, SellJobs
  <2>3. CASE SellStarts(o)
    <3>1. sell' = [sell EXCEPT ![o] = [old EXCEPT !.status = "running", !.at = "read", !.total = office]]
          /\ "running" \in JobState /\ "read" \in Runner
      BY <2>3 DEF SellStarts
    <3> HIDE DEF JobState, Runner
    <3> QED
      BY <3>1, SellJobs
  <2>4. CASE SellPosts(o)
    <3>1. sell' = [sell EXCEPT ![o] = [old EXCEPT !.at = "posted", !.total = 0]] /\ "posted" \in Runner
      BY <2>4 DEF SellPosts
    <3> HIDE DEF JobState, Runner
    <3> QED
      BY <3>1, SellJobs
  <2>5. CASE SellTells(o) \/ SellFails(o) \/ CreateBuyJob(o, "ending") \/ CreateBuyJob(o, "failing")
    <3>1. PICK at \in Runner : sell' = [sell EXCEPT ![o] = [old EXCEPT !.at = at]]
      BY <2>5 DEF SellTells, SellFails, CreateBuyJob
    <3> HIDE DEF JobState, Runner
    <3> QED
      BY <3>1, SellJobs
  <2>6. CASE SellReports(o)
    <3>1. PICK st \in JobState : st = IF old.status = "running"
                                        THEN IF old.at = "ending" THEN "finished" ELSE "error" ELSE old.status
      OBVIOUS
    <3>2. sell' = [sell EXCEPT ![o] = [old EXCEPT !.status = st, !.at = "idle", !.total = 0]]
          /\ "idle" \in Runner
      BY <2>6, <3>1 DEF SellReports
    <3> HIDE DEF JobState, Runner
    <3> QED
      BY <3>2, SellJobs
  <2>7. CASE SellReportLost(o)
    <3>1. sell' = [sell EXCEPT ![o] = [old EXCEPT !.at = "failing", !.total = 0, !.again = TRUE]]
          /\ "failing" \in Runner
      BY <2>7 DEF SellReportLost
    <3> HIDE DEF JobState, Runner
    <3> QED
      BY <3>1, SellJobs
  <2>8. CASE SellAgain(o)
    <3>1. sell' = [sell EXCEPT ![o] = [old EXCEPT !.at = "read", !.total = office, !.again = FALSE]]
          /\ "read" \in Runner
      BY <2>8 DEF SellAgain
    <3> HIDE DEF JobState, Runner
    <3> QED
      BY <3>1, SellJobs
  <2>9. ASSUME NEW outcome \in {"cancelled", "error"}, NEW dead \in BOOLEAN, JobsEndUntold(o, outcome, dead)
        PROVE  \E new \in SellJob : sell' = [sell EXCEPT ![o] = new]
    <3>1. PICK gone : gone = IF outcome = "cancelled" THEN LiveJob ELSE {"running"}
      OBVIOUS
    <3>2. PICK st \in JobState : st = IF old.status \in gone THEN outcome ELSE old.status
      OBVIOUS
    <3>3. PICK at \in Runner : at = IF dead THEN "idle" ELSE old.at
      OBVIOUS
    <3>4. PICK t \in Nat : t = IF dead THEN 0 ELSE old.total
      OBVIOUS
    <3>5. PICK ag \in BOOLEAN : ag = (old.again /\ outcome = "error")
      OBVIOUS
    <3>6. sell' = [sell EXCEPT ![o] = [old EXCEPT !.status = st, !.at = at, !.total = t, !.again = ag]]
      BY <2>9, <3>1, <3>2, <3>3, <3>4, <3>5 DEF JobsEndUntold
    <3> HIDE DEF JobState, Runner
    <3> QED
      BY <3>6, SellJobs
  <2>10. CASE PlaceOrderLost(o) \/ CleanupStarts(o) \/ CleanupPosts(o) \/ CleanupFails(o)
    BY <2>10 DEF PlaceOrderLost, CleanupStarts, CleanupPosts, CleanupFails
  <2> QED
    BY <2>1, <2>2, <2>3, <2>4, <2>5, <2>6, <2>7, <2>8, <2>9, <2>10 DEF SellerStep
<1> HIDE DEF SellJob, JobState, Runner
<1> QED
  BY <1>3 DEF SellerTyped

LEMMA CleanupTyped ==
    ASSUME SellerTyped, NEW o \in Order, SellerStep(o)
    PROVE  cleanup' \in [Order -> CleanupJob]
<1>1. PICK old \in CleanupJob : old = cleanup[o]
  BY DEF SellerTyped
<1>2. office \in Nat /\ cleanup \in [Order -> CleanupJob] /\ old.status \in JobState
  BY <1>1 DEF SellerTyped, CleanupJob
<1>3. /\ \A st \in JobState : /\ [old EXCEPT !.status = st] \in CleanupJob
                              /\ [NoCleanup EXCEPT !.status = st] \in CleanupJob
      /\ \A st \in JobState, at \in Runner, t \in Nat :
            [old EXCEPT !.status = st, !.at = at, !.total = t] \in CleanupJob
  <2>1. "idle" \in Runner /\ 0 \in 0 .. Amount /\ {} \in SUBSET Order
    BY MarketAssumption DEF MarketAssumption
  <2> HIDE DEF JobState, Runner
  <2> QED
    BY <2>1 DEF CleanupJob, NoCleanup
<1>4. \/ UNCHANGED cleanup
      \/ \E st \in JobState : cleanup' = [cleanup EXCEPT ![o] = [old EXCEPT !.status = st]]
      \/ \E st \in JobState : cleanup' = [cleanup EXCEPT ![o] = [NoCleanup EXCEPT !.status = st]]
      \/ \E st \in JobState, at \in Runner, t \in Nat :
            cleanup' = [cleanup EXCEPT ![o] = [old EXCEPT !.status = st, !.at = at, !.total = t]]
  <2> HIDE DEF CleanupJob
  <2>1. CASE CancelOrder(o)
    BY <1>1, <1>2, <2>1 DEF CancelOrder
  <2>2. CASE CleanupStarts(o)
    BY <1>1, <1>2, <2>2, ZenonT(40) DEF CleanupStarts
  <2>3. CASE CleanupPosts(o)
    BY <2>3 DEF CleanupPosts
  <2>4. CASE CleanupFails(o)
    BY <2>4 DEF CleanupFails
  <2>5. CASE \/ PlaceOrder(o) \/ PlaceOrderLost(o)
             \/ SellStarts(o) \/ SellPosts(o) \/ SellTells(o) \/ SellFails(o) \/ SellReports(o)
             \/ CreateBuyJob(o, "ending") \/ CreateBuyJob(o, "failing")
             \/ SellReportLost(o) \/ SellAgain(o)
             \/ \E outcome \in {"cancelled", "error"}, dead \in BOOLEAN : JobsEndUntold(o, outcome, dead)
    BY <2>5 DEF PlaceOrder, PlaceOrderLost, SellStarts, SellPosts, SellTells, SellFails, SellReports,
                CreateBuyJob, SellReportLost, SellAgain, JobsEndUntold
  <2> QED
    BY <2>1, <2>2, <2>3, <2>4, <2>5 DEF SellerStep
<1> HIDE DEF CleanupJob, JobState, Runner
<1>5. UNCHANGED cleanup \/ \E new \in CleanupJob : cleanup' = [cleanup EXCEPT ![o] = new]
  <2>1. ASSUME NEW st \in JobState, NEW at \in Runner, NEW t \in Nat,
               cleanup' = [cleanup EXCEPT ![o] = [old EXCEPT !.status = st, !.at = at, !.total = t]]
        PROVE  \E new \in CleanupJob : cleanup' = [cleanup EXCEPT ![o] = new]
    BY <1>3, <2>1
  <2>2. ASSUME NEW st \in JobState,
               \/ cleanup' = [cleanup EXCEPT ![o] = [old EXCEPT !.status = st]]
               \/ cleanup' = [cleanup EXCEPT ![o] = [NoCleanup EXCEPT !.status = st]]
        PROVE  \E new \in CleanupJob : cleanup' = [cleanup EXCEPT ![o] = new]
    BY <1>2, <1>3, <2>2
  <2> QED
    BY <1>4, <2>1, <2>2
<1> QED
  BY <1>2, <1>5
LEMMA OfficeTyped ==
    ASSUME SellerTyped, NEW o \in Order, SellerStep(o)
    PROVE  office' \in Nat
<1>1. office \in Nat /\ Amount \in Nat
  BY MarketAssumption DEF SellerTyped, MarketAssumption
<1>2. CASE SellPosts(o)
  <2>1. sell[o].total \in Nat
    BY DEF SellerTyped, SellJob
  <2> QED
    BY <1>1, <1>2, <2>1 DEF SellPosts
<1>3. CASE CleanupPosts(o)
  BY <1>1, <1>3, CleanupNumbers DEF CleanupPosts
<1>4. CASE \/ PlaceOrder(o) \/ PlaceOrderLost(o) \/ CancelOrder(o)
           \/ SellStarts(o) \/ SellTells(o) \/ SellFails(o) \/ SellReports(o)
           \/ CreateBuyJob(o, "ending") \/ CreateBuyJob(o, "failing")
           \/ CleanupStarts(o) \/ CleanupFails(o) \/ SellReportLost(o) \/ SellAgain(o)
           \/ \E outcome \in {"cancelled", "error"}, dead \in BOOLEAN : JobsEndUntold(o, outcome, dead)
  BY <1>1, <1>4 DEF PlaceOrder, PlaceOrderLost, CancelOrder, SellStarts, SellTells, SellFails,
                    SellReports, CreateBuyJob, CleanupStarts, CleanupFails, SellReportLost,
                    SellAgain, JobsEndUntold
<1> QED
  BY <1>2, <1>3, <1>4 DEF SellerStep

\* A step of the seller's side changes one order only, and keeps its type.
SellerFrame(o) ==
    /\ \A p \in Order \ {o} : /\ order'[p] = order[p] /\ sell'[p] = sell[p]
                              /\ p \in severed' <=> p \in severed
    /\ UNCHANGED <<bought, arrived, landed>>

LEMMA OrderTypedSeller ==
    ASSUME OrdersTyped, SellerTyped, NEW o \in Order, SellerStep(o)
    PROVE  OrdersTyped' /\ SellerFrame(o)
<1> USE DEF OrdersTyped
<1>1. UNCHANGED <<bought, arrived, landed>>
  BY DEF SellerStep, PlaceOrder, PlaceOrderLost, CancelOrder, SellStarts, SellPosts, SellTells,
         SellFails, SellReports, CreateBuyJob, CleanupStarts, CleanupPosts, CleanupFails,
         SellReportLost, SellAgain, JobsEndUntold
<1>2. mishaps' \in 0 .. MaxMishaps
  BY MishapTyped
  DEF SellerStep, PlaceOrder, PlaceOrderLost, CancelOrder, SellStarts, SellPosts, SellTells,
      SellFails, SellReports, CleanupStarts, CleanupPosts, CleanupFails,
      SellReportLost, SellAgain, JobsEndUntold
<1>3. severed' \subseteq Order /\ \A p \in Order \ {o} : p \in severed' <=> p \in severed
  BY DEF SellerStep, PlaceOrder, PlaceOrderLost, CancelOrder, SellStarts, SellPosts, SellTells,
         SellFails, SellReports, CreateBuyJob, CleanupStarts, CleanupPosts, CleanupFails,
         SellReportLost, SellAgain, JobsEndUntold
<1>4. /\ order' \in [Order -> {"none"} \cup OpenOrder \cup ClosedOrder]
      /\ \A p \in Order \ {o} : order'[p] = order[p]
  BY ZenonT(40) DEF SellerStep, PlaceOrder, PlaceOrderLost, CancelOrder, SellStarts, SellPosts, SellTells,
         SellFails, SellReports, CreateBuyJob, CleanupStarts, CleanupPosts, CleanupFails,
         SellReportLost, SellAgain, JobsEndUntold, SetTerminal, Open
<1>5. \A p \in Order \ {o} : sell'[p] = sell[p]
  <2> HIDE DEF OrdersTyped
  <2> QED
  BY DEF SellerTyped, SellerStep, PlaceOrder, PlaceOrderLost, CancelOrder, SellStarts, SellPosts,
         SellTells, SellFails, SellReports, CreateBuyJob, CleanupStarts, CleanupPosts, CleanupFails,
         SellReportLost, SellAgain, JobsEndUntold
<1> QED
  BY <1>1, <1>2, <1>3, <1>4, <1>5 DEF SellerFrame

\* Nothing is as little as anything.
LEMMA ZeroFits ==
    ASSUME NEW n \in Nat, NEW a \in 0 .. n, NEW g \in 0 .. n, g <= a, NEW x \in {g, 0}
    PROVE  x \in 0 .. n /\ x <= a
OBVIOUS

\* The purchase jobs of an order that are ended together.
LEMMA StoppedTyped ==
    ASSUME LegsTyped, LegsLinked, NEW o \in Order, NEW gone \in SUBSET LiveJob,
           NEW outcome \in EndedJob,
           NEW stop, \A k \in Leg : stop[k] \in {leg[k].at, "idle"},
           NEW keep, \A k \in Leg : keep[k] \in {leg[k].got, 0},
           leg' = [j \in Leg |-> IF leg[j].of = o /\ leg[j].status \in gone
                                   THEN [leg[j] EXCEPT !.status = outcome, !.at = stop[j], !.got = keep[j]]
                                   ELSE leg[j]]
    PROVE  LegsTyped' /\ Stopped(o, gone, outcome)
<1>1. ASSUME NEW k \in Leg
      PROVE  /\ leg'[k] \in LegJob /\ leg'[k].got <= leg'[k].amount
             /\ IF leg[k].of = o /\ leg[k].status \in gone
                  THEN /\ leg'[k].of = o /\ leg'[k].source = leg[k].source /\ leg'[k].done = leg[k].done
                       /\ leg'[k].status = outcome /\ leg'[k].at \in {leg[k].at, "idle"}
                  ELSE leg'[k] = leg[k]
  <2>1. PICK old \in LegJob : old = leg[k] /\ old.got <= old.amount
    BY DEF LegsTyped
  <2>2. CASE ~(leg[k].of = o /\ leg[k].status \in gone)
    BY <2>1, <2>2
  <2>3. CASE leg[k].of = o /\ leg[k].status \in gone
    <3>1. PICK at, got : at = stop[k] /\ got = keep[k]
      OBVIOUS
    <3>2. leg'[k] = [old EXCEPT !.status = outcome, !.at = at, !.got = got]
      BY <2>1, <2>3, <3>1
    <3>3. at \in {old.at, "idle"} /\ at \in Runner /\ outcome \in JobState
      BY <2>1, <3>1 DEF LegJob
    <3>4. got \in 0 .. Amount /\ got <= old.amount
      <4>1. got \in {old.got, 0} /\ old.got \in 0 .. Amount /\ old.amount \in 0 .. Amount /\ Amount \in Nat
        BY <2>1, <3>1, MarketAssumption DEF LegJob, MarketAssumption
      <4> QED
        BY <2>1, <4>1, ZeroFits
    <3> HIDE DEF JobState, Runner, EndedJob, LiveJob
    <3>5. PICK new : new = [old EXCEPT !.status = outcome, !.at = at, !.got = got]
      OBVIOUS
    <3>6. new \in LegJob /\ new.of = old.of /\ new.source = old.source /\ new.done = old.done
          /\ new.status = outcome /\ new.at = at /\ new.got <= new.amount
      BY <3>3, <3>4, <3>5 DEF LegJob
    <3> QED
      BY <2>1, <2>3, <3>2, <3>3, <3>5, <3>6
  <2> QED
    BY <2>2, <2>3
<1> HIDE DEF LegJob
<1> QED
  BY <1>1 DEF LegsTyped, Stopped

\* JobsEndUntold: the purchase jobs of the order that are over.
LEMMA UntoldLegs ==
    ASSUME LegsTyped, LegsLinked, NEW o \in Order, NEW outcome \in {"cancelled", "error"},
           NEW dead \in BOOLEAN, JobsEndUntold(o, outcome, dead)
    PROVE  /\ LegsTyped'
           /\ outcome = "cancelled" => Stopped(o, LiveJob, outcome)
           /\ outcome = "error" => Stopped(o, {"running"}, outcome)
<1>1. PICK gone : gone = IF outcome = "cancelled" THEN LiveJob ELSE {"running"}
  OBVIOUS
<1>2. PICK stop, keep : /\ stop = [j \in Leg |-> IF dead THEN "idle" ELSE leg[j].at]
                        /\ keep = [j \in Leg |-> IF dead THEN 0 ELSE leg[j].got]
  OBVIOUS
<1>3. leg' = [j \in Leg |-> IF leg[j].of = o /\ leg[j].status \in gone
                              THEN [leg[j] EXCEPT !.status = outcome, !.at = stop[j], !.got = keep[j]]
                              ELSE leg[j]]
  BY <1>1, <1>2 DEF JobsEndUntold
<1>4. /\ gone \in SUBSET LiveJob /\ outcome \in EndedJob
      /\ \A k \in Leg : stop[k] \in {leg[k].at, "idle"} /\ keep[k] \in {leg[k].got, 0}
  BY <1>1, <1>2
<1>5. LegsTyped' /\ Stopped(o, gone, outcome)
  <2> HIDE DEF LiveJob, EndedJob
  <2> QED
    BY <1>3, <1>4, StoppedTyped
<1> QED
  BY <1>1, <1>5

\* What a step of the seller's side does to the purchase jobs.
LEMMA SellerLegs ==
    ASSUME LegsTyped, LegsLinked, NEW o \in Order, SellerStep(o)
    PROVE  /\ LegsTyped' /\ LegsLinked' /\ LegsOfOthers(o)
           /\ CreateBuyJob(o, "ending") \/ CreateBuyJob(o, "failing") => Founded(o, NextLeg)
           /\ CancelOrder(o) => Stopped(o, LiveJob, "cancelled")
           /\ \A dead \in BOOLEAN :
                /\ JobsEndUntold(o, "cancelled", dead) => Stopped(o, LiveJob, "cancelled")
                /\ JobsEndUntold(o, "error", dead) => Stopped(o, {"running"}, "error")
<1>1. ASSUME UNCHANGED leg PROVE LegsTyped' /\ LegsLinked' /\ LegsOfOthers(o)
  BY <1>1, OthersStand DEF LegsTyped, LegsLinked, LegLinked
<1>2. ASSUME CreateBuyJob(o, "ending") \/ CreateBuyJob(o, "failing")
      PROVE  LegsTyped' /\ LegsLinked' /\ LegsOfOthers(o) /\ Founded(o, NextLeg)
  <2>1. LegsTyped' /\ Founded(o, NextLeg)
    BY <1>2, BuyJobFounded DEF CreateBuyJob
  <2>2. PICK n : n = NextLeg /\ Founded(o, n)
    BY <2>1
  <2>3. LegsLinked' /\ LegsOfOthers(o)
    BY <2>2, LinkedGrown, OthersStand
  <2> QED
    BY <1>2, <2>1, <2>3
<1>3. ASSUME NEW gone \in SUBSET LiveJob, NEW outcome \in EndedJob, LegsTyped', Stopped(o, gone, outcome)
      PROVE  LegsTyped' /\ LegsLinked' /\ LegsOfOthers(o)
  BY <1>3, LinkedStopped, OthersStand
<1>4. ASSUME CancelOrder(o)
      PROVE  LegsTyped' /\ LegsLinked' /\ LegsOfOthers(o) /\ Stopped(o, LiveJob, "cancelled")
  <2>1. PICK stop, keep : stop = [j \in Leg |-> leg[j].at] /\ keep = [j \in Leg |-> leg[j].got]
    OBVIOUS
  <2>2. leg' = [j \in Leg |-> IF leg[j].of = o /\ leg[j].status \in LiveJob
                                THEN [leg[j] EXCEPT !.status = "cancelled", !.at = stop[j], !.got = keep[j]]
                                ELSE leg[j]]
    <3>1. \A j \in Leg : /\ [leg[j] EXCEPT !.status = "cancelled", !.at = stop[j], !.got = keep[j]]
                                = [leg[j] EXCEPT !.status = "cancelled"]
                         /\ j \in LiveLegs(o) <=> leg[j].of = o /\ leg[j].status \in LiveJob
      BY <2>1 DEF LegsTyped, LegJob, LiveLegs, Legs
    <3> QED
      BY <1>4, <3>1 DEF CancelOrder
  <2>3. /\ \A k \in Leg : stop[k] \in {leg[k].at, "idle"} /\ keep[k] \in {leg[k].got, 0}
        /\ "cancelled" \in EndedJob /\ LiveJob \in SUBSET LiveJob
    BY <2>1
  <2>4. LegsTyped' /\ Stopped(o, LiveJob, "cancelled")
    BY <2>2, <2>3, StoppedTyped
  <2> QED
    BY <1>3, <2>3, <2>4
<1>5. ASSUME NEW outcome \in {"cancelled", "error"}, NEW dead \in BOOLEAN, JobsEndUntold(o, outcome, dead)
      PROVE  LegsTyped' /\ LegsLinked' /\ LegsOfOthers(o)
             /\ (outcome = "cancelled" => Stopped(o, LiveJob, "cancelled"))
             /\ (outcome = "error" => Stopped(o, {"running"}, "error"))
  <2>1. /\ LegsTyped'
        /\ outcome = "cancelled" => Stopped(o, LiveJob, outcome)
        /\ outcome = "error" => Stopped(o, {"running"}, outcome)
    BY <1>5, UntoldLegs
  <2>2. /\ "cancelled" \in EndedJob /\ LiveJob \in SUBSET LiveJob
        /\ "error" \in EndedJob /\ {"running"} \in SUBSET LiveJob
    OBVIOUS
  <2>3. CASE outcome = "cancelled"
    BY <1>3, <2>1, <2>2, <2>3
  <2>4. CASE outcome = "error"
    BY <1>3, <2>1, <2>2, <2>4
  <2> QED
    BY <2>3, <2>4
<1>6. ASSUME \/ PlaceOrder(o) \/ PlaceOrderLost(o)
              \/ SellStarts(o) \/ SellPosts(o) \/ SellTells(o) \/ SellFails(o) \/ SellReports(o)
              \/ CleanupStarts(o) \/ CleanupPosts(o) \/ CleanupFails(o)
              \/ SellReportLost(o) \/ SellAgain(o)
      PROVE  LegsTyped' /\ LegsLinked' /\ LegsOfOthers(o)
  BY <1>1, <1>6 DEF PlaceOrder, PlaceOrderLost, SellStarts, SellPosts, SellTells, SellFails,
                    SellReports, CleanupStarts, CleanupPosts, CleanupFails, SellReportLost, SellAgain
<1> QED
  BY <1>2, <1>4, <1>5, <1>6 DEF SellerStep

\* What a step of the seller's side does to the redistributions.
LEMMA SellerHauls ==
    ASSUME HaulsTyped, HaulsLinked, NEW o \in Order, SellerStep(o)
    PROVE  /\ HaulsTyped' /\ HaulsLinked' /\ HaulsOfOthers(o)
           /\ Carried(o)' = Carried(o) /\ (Confirmed(o) => Confirmed(o)')
           /\ CarryOn(o)' = CarryOn(o) \/ CancelOrder(o)
                \/ \E outcome \in {"cancelled", "error"}, dead \in BOOLEAN : JobsEndUntold(o, outcome, dead)
<1>1. ASSUME haul' = CancelHauls(o)
      PROVE  /\ HaulsTyped' /\ HaulsLinked' /\ HaulsOfOthers(o)
             /\ Carried(o)' = Carried(o) /\ (Confirmed(o) => Confirmed(o)')
  <2>1. HaulsTyped' /\ HaulsGo(o) /\ (Carried(o)' => Carried(o))
    BY <1>1, HaulsCancelled
  <2>2. /\ HaulsLinked' /\ HaulsOfOthers(o) /\ (Carried(o) => Carried(o)')
        /\ Confirmed(o) => Confirmed(o)'
    BY <2>1, HaulsGoOK
  <2>3. Carried(o)' = Carried(o)
    BY <2>1, <2>2 DEF Carried
  <2> QED
    BY <2>1, <2>2, <2>3
<1>2. CASE UNCHANGED haul
  BY <1>2, HaulsStay
<1>3. CASE CancelOrder(o)
  BY <1>1, <1>3 DEF CancelOrder
<1>4. ASSUME NEW outcome \in {"cancelled", "error"}, NEW dead \in BOOLEAN, JobsEndUntold(o, outcome, dead)
      PROVE  haul' = CancelHauls(o) \/ UNCHANGED haul
  BY <1>4 DEF JobsEndUntold
<1>5. \/ CancelOrder(o) \/ UNCHANGED haul
      \/ \E outcome \in {"cancelled", "error"}, dead \in BOOLEAN : JobsEndUntold(o, outcome, dead)
  BY DEF SellerStep, PlaceOrder, PlaceOrderLost, SellStarts, SellPosts, SellTells, SellFails,
         SellReports, CreateBuyJob, CleanupStarts, CleanupPosts, CleanupFails, SellReportLost, SellAgain
<1> QED
  BY <1>1, <1>2, <1>3, <1>4, <1>5

-----------------------------------------------------------------------------
(* The seller's side keeps the invariant *)

\* While no purchase job and no redistribution changes, only the order's own fields matter.
LEMMA LegsSame ==
    ASSUME UNCHANGED leg, NEW o \in Order, arrived'[o] = arrived[o],
           Carried(o)' = Carried(o), CarryOn(o)' = CarryOn(o), Confirmed(o) => Confirmed(o)'
    PROVE  /\ Legs(o)' = Legs(o) /\ LiveLegs(o)' = LiveLegs(o)
           /\ Alone(o) => Alone(o)'
           /\ OneLine(o) => OneLine(o)'
           /\ LateLeg(o) => LateLeg(o)'
           /\ Counted(o) /\ (order'[o] = "completed" => order[o] = "completed") => Counted(o)'
           /\ HaulLast(o) /\ (Open(o)' => Open(o) \/ ~ Carried(o)) => HaulLast(o)'
<1>1. /\ Legs(o)' = Legs(o) /\ LiveLegs(o)' = LiveLegs(o)
      /\ \A j : RetryChildren(j)' = RetryChildren(j)
  BY DEF Legs, LiveLegs, RetryChildren
<1>2. Alone(o) => Alone(o)'
  BY <1>1 DEF Alone
<1>3. OneLine(o) => OneLine(o)'
  BY <1>1 DEF OneLine
<1>4. LateLeg(o) => LateLeg(o)'
  BY <1>1 DEF LateLeg
<1>5. Counted(o) /\ (order'[o] = "completed" => order[o] = "completed") => Counted(o)'
  BY <1>1 DEF Counted
<1>6. HaulLast(o) /\ (Open(o)' => Open(o) \/ ~ Carried(o)) => HaulLast(o)'
  BY <1>1 DEF HaulLast
<1> QED
  BY <1>1, <1>2, <1>3, <1>4, <1>5, <1>6

\* A step that changes no purchase job and no redistribution, by what it does to the order.
SellerMoves(o) ==
    LET old == sell[o] new == sell'[o] IN
    \* the order is placed, with its sell job, or without one
    \/ /\ order[o] = "none" /\ order'[o] = "jobs_created" /\ new.status = "queued" /\ new.at = old.at
       /\ o \in severed' <=> o \in severed
    \/ /\ order[o] = "none" /\ order'[o] = "matched" /\ new = old /\ o \in severed'
    \* the sell job starts, goes on, turns to its end
    \/ /\ old.status = "queued" /\ new.status = "running" /\ new.at = "read"
       /\ order'[o] = order[o] /\ (o \in severed' <=> o \in severed)
    \/ /\ old.at \in {"read", "posted"} /\ new.status = old.status
       /\ \/ new.at = "failing"
          \/ old.at = "read" /\ new.at = "posted"
          \/ old.at = "posted" /\ new.at = "telling" /\ order[o] \in {"matched", "jobs_created"}
       /\ order'[o] = order[o] /\ (o \in severed' <=> o \in severed)
    \* it reports, or tries to, or runs once more
    \/ /\ old.at \in {"ending", "failing"} /\ new.at = "idle"
       /\ \/ old.status # "running" /\ new.status = old.status /\ order'[o] = order[o]
          \/ old.status = "running" /\ old.at = "ending" /\ new.status = "finished" /\ order'[o] = order[o]
          \/ old.status = "running" /\ new.status = "error" /\ order'[o] \notin OpenOrder
             /\ order'[o] # "none" /\ (order'[o] = order[o] \/ order'[o] # "completed")
       /\ o \in severed' <=> o \in severed
    \/ /\ new.status = old.status /\ order[o] # "none" /\ order'[o] = order[o]
       /\ \/ old.at \in {"ending", "failing"} /\ new.at = "failing"
          \/ old.at = "idle" /\ new.at = "read"
       /\ o \in severed' <=> o \in severed
    \* nothing
    \/ /\ order'[o] = order[o] /\ new = old /\ (o \in severed' <=> o \in severed)

LEMMA SellerMovesOK ==
    ASSUME MarketTyped, NEW o \in Order, OrderOK(o), UNCHANGED <<leg, haul, arrived>>, SellerMoves(o)
    PROVE  OrderOK(o)'
<1>1. UNCHANGED leg /\ arrived'[o] = arrived[o] /\ order[o] \in {"none"} \cup OpenOrder \cup ClosedOrder
      /\ sell[o].status \in JobState /\ sell[o].at \in Runner
  BY DEF MarketTyped, OrdersTyped, SellerTyped, SellJob
<1>2. Carried(o)' = Carried(o) /\ CarryOn(o)' = CarryOn(o) /\ Confirmed(o)' = Confirmed(o)
  BY HaulsStay DEF MarketTyped
<1>3. Legs(o)' = Legs(o) /\ LiveLegs(o)' = LiveLegs(o)
  BY <1>1, <1>2, LegsSame
<1>4. Alone(o)'
  BY <1>1, <1>2, LegsSame DEF OrderOK
<1>5. Counted(o)'
  <2>1. order'[o] = "completed" => order[o] = "completed"
    BY <1>1 DEF SellerMoves
  <2> QED
    BY <1>1, <1>2, <2>1, LegsSame DEF OrderOK
<1>6. SellAhead(o)'
  BY <1>1, <1>2, <1>3 DEF OrderOK, SellAhead, SellerMoves
<1>7. InLine(o)'
  <2>1. o \in severed => o \in severed'
    BY DEF SellerMoves
  <2>2. Open(o)' => Open(o) \/ ~ Carried(o)
    BY <1>1 DEF SellerMoves, OrderOK, SellAhead, Open
  <2> QED
    BY <1>1, <1>2, <2>1, <2>2, LegsSame DEF OrderOK, InLine
<1>8. Going(o)'
  BY <1>1, <1>2, <1>3 DEF OrderOK, Going, SellAhead, SellerMoves, Open
<1> QED
  BY <1>4, <1>5, <1>6, <1>7, <1>8 DEF OrderOK

\* The sell job's moves, one by one.
LEMMA SellerMovesSo ==
    ASSUME OrdersTyped, SellerTyped, NEW o \in Order, SellAhead(o),
           \/ PlaceOrder(o) \/ PlaceOrderLost(o)
           \/ SellStarts(o) \/ SellPosts(o) \/ SellTells(o) \/ SellFails(o) \/ SellReports(o)
           \/ CleanupStarts(o) \/ CleanupPosts(o) \/ CleanupFails(o)
           \/ SellReportLost(o) \/ SellAgain(o)
    PROVE  SellerMoves(o) /\ UNCHANGED <<leg, haul, arrived>>
<1>1. sell \in [Order -> SellJob] /\ order \in [Order -> {"none"} \cup OpenOrder \cup ClosedOrder]
      /\ sell[o].status \in JobState
  BY DEF OrdersTyped, SellerTyped, SellJob
<1>2. CASE PlaceOrder(o)
  BY <1>1, <1>2 DEF PlaceOrder, SellerMoves
<1>3. CASE PlaceOrderLost(o)
  BY <1>1, <1>3 DEF PlaceOrderLost, SellerMoves
<1>4. CASE SellStarts(o)
  BY <1>1, <1>4 DEF SellStarts, SellerMoves
<1>5. CASE SellPosts(o) \/ SellTells(o) \/ SellFails(o)
  <2>1. sell[o] \in SellJob /\ UNCHANGED <<leg, arrived, order, haul, severed>>
    BY <1>1, <1>5 DEF SellPosts, SellTells, SellFails
  <2>2. /\ \A at : sell' = [sell EXCEPT ![o].at = at] => sell'[o].status = sell[o].status /\ sell'[o].at = at
        /\ \A at : sell' = [sell EXCEPT ![o].at = at, ![o].total = 0]
                     => sell'[o].status = sell[o].status /\ sell'[o].at = at
    BY <1>1, <2>1 DEF SellJob
  <2>3. /\ sell[o].at \in {"read", "posted"} /\ sell'[o].status = sell[o].status
        /\ \/ sell'[o].at = "failing"
           \/ sell[o].at = "read" /\ sell'[o].at = "posted"
           \/ sell[o].at = "posted" /\ sell'[o].at = "telling" /\ order[o] \in {"matched", "jobs_created"}
    <3> HIDE DEF SellJob
    <3>1. CASE SellPosts(o)
      BY <2>2, <3>1 DEF SellPosts
    <3>2. CASE SellTells(o)
      BY <2>2, <3>2 DEF SellTells
    <3>3. CASE SellFails(o)
      BY <2>2, <3>3 DEF SellFails
    <3> QED
      BY <1>5, <3>1, <3>2, <3>3
  <2>4. order'[o] = order[o] /\ (o \in severed' <=> o \in severed)
    BY <2>1
  <2>5. SellerMoves(o)
    BY <2>3, <2>4 DEF SellerMoves
  <2> QED
    BY <2>1, <2>5
<1>6. CASE SellReports(o)
  <2>1. PICK old \in SellJob : old = sell[o]
    BY <1>1
  <2>2. PICK st \in JobState : st = IF old.status = "running"
                                      THEN IF old.at = "ending" THEN "finished" ELSE "error" ELSE old.status
    BY <2>1 DEF SellJob
  <2>3. sell' = [sell EXCEPT ![o] = [old EXCEPT !.status = st, !.at = "idle", !.total = 0]]
    <3> HIDE DEF SellJob
    <3> QED
      BY <1>1, <1>6, <2>1, <2>2 DEF SellReports
  <2>4. sell'[o].status = st /\ sell'[o].at = "idle"
    BY <1>1, <2>1, <2>3 DEF SellJob
  <2>5. order[o] # "none" /\ old.at \in {"ending", "failing"}
    BY <1>1, <1>6, <2>1 DEF SellReports, SellAhead, OrdersTyped
  <2>6. IF old.status = "running" /\ st = "error"
          THEN order'[o] \notin OpenOrder /\ order'[o] # "none" /\ (order'[o] = order[o] \/ order'[o] # "completed")
          ELSE order'[o] = order[o]
    BY <1>1, <1>6, <2>1, <2>2, <2>5 DEF SellReports, SetTerminal, Open
  <2>7. UNCHANGED <<leg, haul, arrived, severed>>
    BY <1>6 DEF SellReports
  <2> QED
    BY <2>1, <2>2, <2>4, <2>5, <2>6, <2>7 DEF SellerMoves
<1>7. CASE CleanupStarts(o) \/ CleanupPosts(o) \/ CleanupFails(o)
  BY <1>1, <1>7 DEF CleanupStarts, CleanupPosts, CleanupFails, SellerMoves
<1>8. CASE SellReportLost(o) \/ SellAgain(o)
  <2>1. UNCHANGED <<leg, arrived, order, haul, severed>> /\ order[o] # "none"
    BY <1>8 DEF SellReportLost, SellAgain, SellAhead
  <2>2. PICK old \in SellJob : old = sell[o]
    BY <1>1
  <2>3. \E at \in {"failing", "read"}, t \in Nat, ag \in BOOLEAN :
           /\ sell' = [sell EXCEPT ![o] = [old EXCEPT !.at = at, !.total = t, !.again = ag]]
           /\ \/ old.at \in {"ending", "failing"} /\ at = "failing"
              \/ old.at = "idle" /\ at = "read"
    <3>1. CASE SellReportLost(o)
      BY <1>1, <2>2, <3>1 DEF SellReportLost
    <3>2. CASE SellAgain(o)
      <4>1. office \in Nat /\ old.at = "idle"
        BY <2>2, <3>2 DEF SellAgain, SellerFree, SellerTyped
      <4>2. sell' = [sell EXCEPT ![o] = [old EXCEPT !.at = "read", !.total = office, !.again = FALSE]]
        BY <1>1, <2>2, <3>2 DEF SellAgain
      <4> QED
        BY <4>1, <4>2
    <3> QED
      BY <1>8, <3>1, <3>2
  <2>4. sell'[o].status = old.status
        /\ \/ old.at \in {"ending", "failing"} /\ sell'[o].at = "failing"
           \/ old.at = "idle" /\ sell'[o].at = "read"
    BY <1>1, <2>2, <2>3 DEF SellJob
  <2> QED
    BY <2>1, <2>2, <2>4 DEF SellerMoves
<1> QED
  BY <1>2, <1>3, <1>4, <1>5, <1>6, <1>7, <1>8

\* The sell job tells the hub, which creates the first purchase job.
LEMMA BuyJobOK ==
    ASSUME MarketTyped, NEW o \in Order, OrderOK(o), NEW reply \in {"ending", "failing"},
           CreateBuyJob(o, reply), Founded(o, NextLeg)
    PROVE  OrderOK(o)'
<1>1. PICK n : n = NextLeg
  OBVIOUS
<1>2. /\ Legs(o) = {} /\ ~ Carried(o) /\ n \in Leg /\ n # 0
      /\ leg'[n].of = o /\ leg'[n].source = 0 /\ leg'[n].done = 0
      /\ leg'[n].status = "queued" /\ leg'[n].at = "idle"
      /\ \A k \in Leg \ {n} : leg'[k] = leg[k]
  BY <1>1 DEF OrderOK, SellAhead, CreateBuyJob, Founded, Leg
<1>3. /\ order'[o] = "jobs_running" /\ arrived'[o] = arrived[o]
      /\ arrived[o] \in Nat /\ (o \in severed' <=> o \in severed)
      /\ sell'[o].at = reply
  BY DEF MarketTyped, OrdersTyped, SellerTyped, SellJob, CreateBuyJob
<1>4. ~ Carried(o)'
  <2>1. Carried(o)' = Carried(o)
    BY HaulsStay DEF MarketTyped, CreateBuyJob
  <2> QED
    BY <1>2, <2>1 DEF Carried
<1>5. Legs(o)' = {n} /\ LiveLegs(o)' = {n}
  BY <1>2 DEF Legs, LiveLegs
<1>6. Alone(o)'
  BY <1>2, <1>5 DEF Alone
<1>7. Counted(o)'
  BY <1>2, <1>3, <1>4, <1>5 DEF Counted
<1>8. SellAhead(o)'
  BY <1>3 DEF SellAhead
<1>9. InLine(o)'
  <2>1. OneLine(o)'
    BY <1>2, <1>5 DEF OneLine, Leg
  <2>2. LateLeg(o)'
    BY <1>2, <1>5 DEF LateLeg
  <2>3. HaulLast(o)'
    BY <1>4 DEF HaulLast
  <2> QED
    BY <2>1, <2>2, <2>3 DEF InLine
<1>10. Going(o)'
  BY <1>5 DEF Going
<1> QED
  BY <1>6, <1>7, <1>8, <1>9, <1>10 DEF OrderOK

\* The jobs of an order end together: with the order, or without its being told.
LEMMA StopOK ==
    ASSUME MarketTyped, MarketTyped', NEW o \in Order, OrderOK(o), NEW dead \in BOOLEAN,
           \/ CancelOrder(o) /\ Stopped(o, LiveJob, "cancelled")
           \/ JobsEndUntold(o, "cancelled", dead) /\ Stopped(o, LiveJob, "cancelled")
           \/ JobsEndUntold(o, "error", dead) /\ Stopped(o, {"running"}, "error")
    PROVE  OrderOK(o)'
<1> USE DEF MarketTyped, OrdersTyped
<1>1. \A k \in Leg : /\ leg'[k].of = leg[k].of /\ leg'[k].source = leg[k].source
                     /\ leg'[k].done = leg[k].done
                     /\ leg'[k].status = "none" <=> leg[k].status = "none"
                     /\ leg[k].of = o => leg'[k].status # "running"
                     /\ leg'[k].at \in {leg[k].at, "idle"}
  BY DEF Stopped
<1>2. Legs(o)' = Legs(o) /\ Legs(o) \subseteq Leg
  BY <1>1 DEF Legs
<1>3. /\ arrived'[o] = arrived[o]
      /\ order'[o] = order[o] \/ (order[o] # "none" /\ order'[o] = "canceled")
  BY DEF CancelOrder, JobsEndUntold, Open
<1>4. Carried(o)' = Carried(o) /\ (Confirmed(o) => Confirmed(o)')
  BY SellerHauls DEF SellerStep
<1>5. /\ order[o] # "none"
      /\ sell'[o].at = sell[o].at \/ sell'[o].at = "idle"
  <2>1. sell \in [Order -> SellJob] /\ sell[o] \in SellJob
    BY DEF SellerTyped
  <2>2. CASE CancelOrder(o)
    <3>1. \A st, ag : sell' = [sell EXCEPT ![o].status = st, ![o].again = ag] => sell'[o].at = sell[o].at
      BY <2>1 DEF SellJob
    <3> QED
      BY <2>2, <3>1 DEF CancelOrder, Open
  <2>3. ASSUME NEW outcome \in {"cancelled", "error"}, JobsEndUntold(o, outcome, dead)
        PROVE  /\ order[o] # "none"
               /\ sell'[o].at = sell[o].at \/ sell'[o].at = "idle"
    <3>1. \A st, at, t, ag : sell' = [sell EXCEPT ![o].status = st, ![o].at = at, ![o].total = t, ![o].again = ag]
                               => sell'[o].at = at
      BY <2>1 DEF SellJob
    <3>2. sell'[o].at = sell[o].at \/ sell'[o].at = "idle"
      BY <2>3, <3>1, ZenonT(40) DEF JobsEndUntold
    <3>3. \/ sell[o].status \in LiveJob \/ Legs(o) # {} \/ LiveHauls(o) # {}
      BY <2>3 DEF JobsEndUntold
    <3>4. LiveHauls(o) # {} => Carried(o)
      BY DEF LiveHauls, Carried
    <3> QED
      BY <3>2, <3>3, <3>4 DEF OrderOK, SellAhead
  <2> QED
    BY <2>2, <2>3
<1>6. Alone(o)'
  BY <1>1, <1>2 DEF OrderOK, Alone
<1>7. Counted(o)'
  BY <1>1, <1>2, <1>3, <1>4 DEF OrderOK, Counted, Legs
<1>8. SellAhead(o)'
  BY <1>2, <1>3, <1>4, <1>5 DEF OrderOK, SellAhead
<1>9. InLine(o)' /\ Going(o)'
  <2>1. CASE JobsEndUntold(o, "cancelled", dead) \/ JobsEndUntold(o, "error", dead)
    BY <2>1 DEF JobsEndUntold, InLine, Going
  <2>2. CASE CancelOrder(o) /\ Stopped(o, LiveJob, "cancelled")
    <3>1. order'[o] = "canceled"
      BY <2>2 DEF CancelOrder
    <3>2. LiveLegs(o)' = {}
      BY <2>2, <1>1 DEF LiveLegs, Legs, Stopped
    <3>3. OneLine(o)' /\ LateLeg(o)' /\ HaulLast(o)' /\ Going(o)'
      BY <3>1, <3>2 DEF OneLine, LateLeg, HaulLast, Going, Open
    <3> QED
      BY <3>3 DEF InLine
  <2> QED
    BY <2>1, <2>2
<1> QED
  BY <1>6, <1>7, <1>8, <1>9 DEF OrderOK

\* A step of the seller's side keeps the invariant.
LEMMA SellerStepOK ==
    ASSUME MarketInv, NEW o \in Order, SellerStep(o)
    PROVE  MarketInv'
<1>1. MarketTyped /\ \A p \in Order : OrderOK(p)
  BY DEF MarketInv
<1>2. OrdersTyped' /\ SellerFrame(o)
  BY <1>1, OrderTypedSeller DEF MarketTyped
<1>3. SellerTyped'
  BY <1>1, SellTyped, CleanupTyped, OfficeTyped DEF MarketTyped, SellerTyped
<1>4. /\ LegsTyped' /\ LegsLinked' /\ LegsOfOthers(o)
      /\ CreateBuyJob(o, "ending") \/ CreateBuyJob(o, "failing") => Founded(o, NextLeg)
      /\ CancelOrder(o) => Stopped(o, LiveJob, "cancelled")
      /\ \A dead \in BOOLEAN :
           /\ JobsEndUntold(o, "cancelled", dead) => Stopped(o, LiveJob, "cancelled")
           /\ JobsEndUntold(o, "error", dead) => Stopped(o, {"running"}, "error")
  BY <1>1, SellerLegs DEF MarketTyped
<1>5. HaulsTyped' /\ HaulsLinked' /\ HaulsOfOthers(o)
  BY <1>1, SellerHauls DEF MarketTyped
<1>6. MarketTyped'
  BY <1>2, <1>3, <1>4, <1>5 DEF MarketTyped
<1>7. ASSUME NEW p \in Order \ {o} PROVE OrderOK(p)'
  <2>1. Untouched(p)
    BY <1>2, <1>4, <1>5 DEF Untouched, SellerFrame, LegsOfOthers, HaulsOfOthers
  <2> QED
    BY <1>1, <1>4, <2>1, UntouchedOK DEF MarketTyped
<1>8. OrderOK(o)'
  <2>1. CASE CreateBuyJob(o, "ending") \/ CreateBuyJob(o, "failing")
    BY <1>1, <1>4, <2>1, BuyJobOK
  <2>2. CASE CancelOrder(o)
    <3>1. TRUE \in BOOLEAN
      OBVIOUS
    <3> QED
      BY <1>1, <1>4, <1>6, <2>2, <3>1, StopOK
  <2>3. ASSUME NEW dead \in BOOLEAN, JobsEndUntold(o, "cancelled", dead) \/ JobsEndUntold(o, "error", dead)
        PROVE  OrderOK(o)'
    BY <1>1, <1>4, <1>6, <2>3, StopOK
  <2>4. CASE \/ PlaceOrder(o) \/ PlaceOrderLost(o)
             \/ SellStarts(o) \/ SellPosts(o) \/ SellTells(o) \/ SellFails(o) \/ SellReports(o)
             \/ CleanupStarts(o) \/ CleanupPosts(o) \/ CleanupFails(o)
             \/ SellReportLost(o) \/ SellAgain(o)
    <3>1. SellAhead(o)
      BY <1>1 DEF OrderOK
    <3>2. SellerMoves(o) /\ UNCHANGED <<leg, haul, arrived>>
      BY <1>1, <2>4, <3>1, SellerMovesSo DEF MarketTyped
    <3> QED
      BY <1>1, <3>2, SellerMovesOK
  <2> QED
    BY <2>1, <2>2, <2>3, <2>4 DEF SellerStep
<1> QED
  BY <1>6, <1>7, <1>8 DEF MarketInv

-----------------------------------------------------------------------------
(* The buyers' side keeps the invariant *)

\* A purchase job that moves on stays the order's, and the others stay as they are.
LEMMA MovedSets ==
    ASSUME LegsTyped, LegsLinked, NEW j \in Leg, NEW st \in JobState, NEW at, Moved(j, st, at),
           leg[j].status # "none", st # "none", NEW o, o = leg[j].of
    PROVE  /\ Legs(o)' = Legs(o) /\ j \in Legs(o) /\ Legs(o) \subseteq Leg
           /\ LiveLegs(o) \subseteq Legs(o)
           /\ \A k \in Legs(o) \ {j} : k \in LiveLegs(o)' <=> k \in LiveLegs(o)
           /\ j \in LiveLegs(o)' <=> st \in LiveJob
           /\ j \in LiveLegs(o) <=> leg[j].status \in LiveJob
           /\ LiveLegs(o)' \subseteq Legs(o)
           /\ \A k \in Leg : leg'[k].done = leg[k].done /\ leg'[k].source = leg[k].source
           /\ \A k \in Leg \ {j} : leg'[k] = leg[k]
<1>1. \A k \in Leg : leg'[k].of = leg[k].of /\ (leg'[k].status = "none" <=> leg[k].status = "none")
  BY DEF Moved
<1>2. Legs(o)' = Legs(o) /\ j \in Legs(o) /\ Legs(o) \subseteq Leg
  BY <1>1 DEF Legs
<1>3. \A k \in Leg : leg'[k].done = leg[k].done /\ leg'[k].source = leg[k].source
  BY DEF Moved
<1> QED
  BY <1>2, <1>3 DEF LiveLegs, Moved

\* The jobs that come from a job of the order are the order's.
LEMMA ChildrenAreOurs ==
    ASSUME LegsTyped, LegsLinked, NEW o, NEW j \in Legs(o), NEW k \in RetryChildren(j)
    PROVE  k \in LiveLegs(o) /\ j < k /\ k \in Leg /\ leg[k].source = j
<1>1. j \in Leg /\ k \in Leg /\ leg[j].of = o /\ leg[k].source = j /\ leg[k].status \in LiveJob /\ j # 0
  BY DEF Legs, RetryChildren, Leg
<1>2. leg[k].of = o /\ j < k
  BY <1>1 DEF LegsLinked, LegLinked
<1> QED
  BY <1>1, <1>2 DEF LiveLegs, Legs

\* While a runner of the order is at work on a purchase or a monitor, no other job of
\* the order is live.
LEMMA OnlyWorker ==
    ASSUME LegsTyped, LegsLinked, NEW o \in Order, Alone(o), OneLine(o), LateLeg(o), NEW j \in Legs(o),
           leg[j].at # "idle", leg[j].at \notin {"ending", "failing"} \/ RetryChildren(j) = {}
    PROVE  LiveLegs(o) \subseteq {j}
<1> SUFFICES ASSUME NEW k \in LiveLegs(o), k # j PROVE FALSE
  OBVIOUS
<1>1. j \in LiveLegs(o)
  BY DEF LateLeg, LiveLegs
<1>2. k \in Legs(o) /\ k \in Leg /\ j \in Leg /\ leg[k].status \in LiveJob
  BY <1>1 DEF LiveLegs, Legs
<1>3. leg[k].at = "idle"
  BY <1>2 DEF Alone
<1>4. k < j \/ j < k
  BY <1>2 DEF Leg
<1>5. CASE k < j
  BY <1>1, <1>3, <1>5 DEF OneLine
<1>6. CASE j < k
  <2>1. leg[j].at \in {"ending", "failing"} /\ leg[k].source = j
    BY <1>1, <1>6 DEF OneLine
  <2> QED
    BY <1>2, <2>1 DEF RetryChildren
<1> QED
  BY <1>4, <1>5, <1>6

\* The seller's job has told the hub, once the order has purchase jobs.
LEMMA SellBehind ==
    ASSUME NEW o \in Order, SellAhead(o), NEW j \in Legs(o), UNCHANGED sell,
           order'[o] = order[o] \/ order'[o] \notin {"none", "matched", "jobs_created"}
    PROVE  SellAhead(o)'
BY DEF SellAhead

\* A job starts when no runner of its buyer is at work.
LEMMA LegStartsOK ==
    ASSUME MarketTyped, NEW j \in Leg, NEW o \in Order, o = leg[j].of, OrderOK(o), LegStarts(j),
           Moved(j, "running", "at_work")
    PROVE  OrderOK(o)'
<1> USE DEF MarketTyped
<1>1. /\ leg[j].status = "queued" /\ (\A k \in Legs(o) : leg[k].at = "idle")
      /\ UNCHANGED <<sell, order, haul, arrived, severed>>
  BY DEF LegStarts, BuyerFree
<1>2. /\ Legs(o)' = Legs(o) /\ j \in Legs(o) /\ Legs(o) \subseteq Leg
      /\ LiveLegs(o) \subseteq Legs(o) /\ LiveLegs(o)' = LiveLegs(o) /\ j \in LiveLegs(o)
      /\ \A k \in Leg : leg'[k].done = leg[k].done
      /\ \A k \in Leg \ {j} : leg'[k] = leg[k]
      /\ leg'[j].at = "at_work" /\ leg'[j].status = "running"
  <2>1. "running" \in JobState /\ leg[j].status # "none" /\ "running" # "none"
    BY <1>1
  <2>2. /\ Legs(o)' = Legs(o) /\ j \in Legs(o) /\ Legs(o) \subseteq Leg
        /\ LiveLegs(o) \subseteq Legs(o)
        /\ \A k \in Legs(o) \ {j} : k \in LiveLegs(o)' <=> k \in LiveLegs(o)
        /\ j \in LiveLegs(o)' <=> j \in LiveLegs(o)
        /\ LiveLegs(o)' \subseteq Legs(o)
    BY <1>1, <2>1, MovedSets
  <2>3. LiveLegs(o)' = LiveLegs(o)
    BY <2>2
  <2> QED
    BY <1>1, <2>2, <2>3 DEF Moved, LiveLegs
<1>3. Carried(o)' = Carried(o) /\ CarryOn(o)' = CarryOn(o) /\ Confirmed(o)' = Confirmed(o)
  BY <1>1, HaulsStay
<1>4. Alone(o)'
  BY <1>1, <1>2 DEF Alone
<1>5. Counted(o)'
  BY <1>1, <1>2, <1>3 DEF OrderOK, Counted
<1>6. SellAhead(o)'
  BY <1>1, <1>2, SellBehind DEF OrderOK
<1>7. InLine(o)'
  <2>1. ASSUME OneLine(o) PROVE OneLine(o)'
    <3>1. \A k, l \in LiveLegs(o) : ~(k < l)
      BY <1>1, <1>2, <2>1 DEF OneLine
    <3> QED
      BY <1>2, <3>1 DEF OneLine
  <2>2. LateLeg(o)'
    BY <1>1, <1>2 DEF LateLeg
  <2>3. ASSUME HaulLast(o) PROVE HaulLast(o)'
    <3>1. ~ Carried(o)
      BY <1>1, <1>2, <2>3 DEF HaulLast
    <3> QED
      BY <1>3, <3>1 DEF HaulLast
  <2> QED
    BY <1>1, <2>1, <2>2, <2>3 DEF OrderOK, InLine
<1>8. Going(o)'
  BY <1>1, <1>2, <1>3 DEF OrderOK, Going, Open
<1> QED
  BY <1>4, <1>5, <1>6, <1>7, <1>8 DEF OrderOK

\* A runner goes on with its job, or gives it up: nobody else notices.
LEMMA LegPlods ==
    ASSUME MarketTyped, NEW j \in Leg, NEW o \in Order, o = leg[j].of, OrderOK(o),
           leg[j].at \in {"at_work", "posted", "ending"}, NEW at \in {"posted", "failing"},
           leg[j].at = "ending" => at = "failing",
           Moved(j, leg[j].status, at), UNCHANGED <<sell, haul, severed>>,
           arrived'[o] \in Nat, arrived'[o] >= arrived[o],
           order'[o] = order[o] \/ (order'[o] = "failed" /\ order[o] # "none")
    PROVE  OrderOK(o)'
<1> USE DEF MarketTyped
<1>1. /\ Legs(o)' = Legs(o) /\ j \in Legs(o) /\ Legs(o) \subseteq Leg
      /\ LiveLegs(o) \subseteq Legs(o) /\ LiveLegs(o)' = LiveLegs(o)
      /\ \A k \in Leg : leg'[k].done = leg[k].done /\ leg'[k].source = leg[k].source
                        /\ leg'[k].status = leg[k].status /\ (leg'[k].at = "idle" <=> leg[k].at = "idle")
      /\ \A k \in Leg \ {j} : leg'[k] = leg[k]
      /\ leg'[j].at = at
  <2>1. PICK st \in JobState : st = leg[j].status /\ st # "none"
    BY DEF LegsTyped, LegJob, LegsLinked, LegLinked
  <2>2. Moved(j, st, at)
    BY <2>1 DEF Moved
  <2>3. /\ Legs(o)' = Legs(o) /\ j \in Legs(o) /\ Legs(o) \subseteq Leg
        /\ LiveLegs(o) \subseteq Legs(o)
        /\ \A k \in Legs(o) \ {j} : k \in LiveLegs(o)' <=> k \in LiveLegs(o)
        /\ j \in LiveLegs(o)' <=> st \in LiveJob
        /\ j \in LiveLegs(o) <=> leg[j].status \in LiveJob
        /\ LiveLegs(o)' \subseteq Legs(o)
    <3>1. LegsTyped /\ LegsLinked /\ leg[j].status # "none"
      BY <2>1
    <3> HIDE DEF JobState, LiveJob
    <3> QED
      BY <2>1, <2>2, <3>1, MovedSets
  <2>4. LiveLegs(o)' = LiveLegs(o)
    BY <2>1, <2>3
  <2> QED
    BY <2>3, <2>4 DEF Moved
<1>2. \A k : RetryChildren(k)' = RetryChildren(k)
  BY <1>1 DEF RetryChildren
<1>3. Carried(o)' = Carried(o) /\ CarryOn(o)' = CarryOn(o) /\ Confirmed(o)' = Confirmed(o)
  BY HaulsStay
<1>4. Alone(o)'
  BY <1>1 DEF OrderOK, Alone
<1>5. Counted(o)'
  <2>1. arrived[o] \in Nat /\ Amount \in Nat /\ \A k \in Leg : leg[k].done \in Nat
    BY MarketAssumption DEF MarketAssumption, OrdersTyped, LegsTyped, LegJob
  <2> QED
    BY <1>1, <1>2, <1>3, <2>1 DEF OrderOK, Counted
<1>6. SellAhead(o)'
  BY <1>1, SellBehind DEF OrderOK
<1>7. InLine(o)'
  <2>1. ASSUME OneLine(o) PROVE OneLine(o)'
    BY <1>1, <2>1 DEF OneLine
  <2>2. ASSUME LateLeg(o) PROVE LateLeg(o)'
    BY <1>1, <2>2 DEF LateLeg
  <2>3. ASSUME HaulLast(o) PROVE HaulLast(o)'
    <3>1. Carried(o) => \A k \in LiveLegs(o) : leg'[k].at \in {"ending", "failing"}
      BY <1>1, <2>3 DEF HaulLast
    <3>2. Open(o)' => Open(o)
      BY DEF Open
    <3> QED
      BY <1>1, <1>2, <1>3, <2>3, <3>1, <3>2 DEF HaulLast
  <2> QED
    BY <2>1, <2>2, <2>3 DEF OrderOK, InLine
<1>8. Going(o)'
  BY <1>1, <1>3 DEF OrderOK, Going, Open
<1> QED
  BY <1>4, <1>5, <1>6, <1>7, <1>8 DEF OrderOK

\* The job leaves a child, having counted d of what has arrived: all that will follow is
\* the child's.
WithChild(o, j, n) ==
    /\ n \in Leg /\ j < n /\ n \notin Legs(o) /\ j \in Legs(o) /\ Legs(o) \subseteq Leg
    /\ Legs(o)' = Legs(o) \cup {n} /\ LiveLegs(o)' = LiveLegs(o) \cup {n}
    /\ LiveLegs(o) \subseteq Legs(o)
    /\ \A k \in Legs(o) \ {j} : leg'[k] = leg[k]

LEMMA GrownSets ==
    ASSUME LegsTyped, LegsLinked, NEW j \in Leg, leg[j].status # "none", NEW n, NEW at, NEW d,
           Grown(j, n, at, d), NEW o, o = leg[j].of
    PROVE  WithChild(o, j, n)
<1>1. n \in Leg /\ n = NextLeg /\ j < n /\ leg[n].status = "none"
  BY NextLegFree DEF Grown, Leg
<1>2. /\ \A k \in Leg \ {j, n} : leg'[k] = leg[k]
      /\ leg'[j].of = leg[j].of /\ leg'[j].status = leg[j].status
      /\ leg'[n].of = o /\ leg'[n].status = "queued"
  BY DEF Grown
<1>3. \A k \in Leg : k \in Legs(o)' <=> k \in Legs(o) \/ k = n
  BY <1>1, <1>2 DEF Legs
<1>4. Legs(o)' = Legs(o) \cup {n} /\ n \notin Legs(o) /\ j \in Legs(o) /\ Legs(o) \subseteq Leg
  BY <1>1, <1>3 DEF Legs
<1>5. LiveLegs(o)' = LiveLegs(o) \cup {n} /\ LiveLegs(o) \subseteq Legs(o)
  BY <1>1, <1>2, <1>4 DEF LiveLegs
<1> QED
  BY <1>1, <1>2, <1>4, <1>5 DEF WithChild

LEMMA LegGrows ==
    ASSUME MarketTyped, NEW j \in Leg, NEW o \in Order, o = leg[j].of, OrderOK(o),
           leg[j].at # "idle", leg[j].status = "running",
           NEW n, NEW d, UNCHANGED <<sell, haul, order>>, arrived'[o] >= arrived[o],
           arrived'[o] \in Nat, d \in Nat, d <= arrived'[o],
           \/ leg[j].at \in {"at_work", "posted"} /\ Grown(j, n, "ending", d) /\ UNCHANGED severed
           \/ leg[j].at \in {"ending", "failing"} /\ Grown(j, n, "failing", d) /\ o \in severed'
    PROVE  OrderOK(o)'
<1> USE DEF MarketTyped
<1>1. PICK at \in {"ending", "failing"} : Grown(j, n, at, d)
  OBVIOUS
<1>2. leg[j].status # "none"
  OBVIOUS
<1>3. /\ n \in Leg /\ j < n /\ n \notin Legs(o) /\ j \in Legs(o) /\ Legs(o) \subseteq Leg
      /\ Legs(o)' = Legs(o) \cup {n} /\ LiveLegs(o)' = LiveLegs(o) \cup {n}
      /\ LiveLegs(o) \subseteq Legs(o)
      /\ \A k \in Legs(o) \ {j} : leg'[k] = leg[k]
  <2>1. LegsTyped /\ LegsLinked
    OBVIOUS
  <2>2. WithChild(o, j, n)
    BY <1>1, <1>2, <2>1, GrownSets
  <2> QED
    BY <2>2 DEF WithChild
<1>4. /\ leg'[j].done = leg[j].done /\ leg'[j].status = "running" /\ leg'[j].at = at /\ at # "idle"
      /\ leg'[n].source = j /\ leg'[n].done = d /\ leg'[n].status = "queued" /\ leg'[n].at = "idle"
      /\ leg'[j].source = leg[j].source
  BY <1>1 DEF Grown
<1>5. /\ \A k \in Legs(o) : leg'[k].done = leg[k].done /\ (leg'[k].at # "idle" <=> leg[k].at # "idle")
      /\ arrived[o] \in Nat /\ \A k \in Leg : leg[k].done \in Nat
  BY <1>3, <1>4 DEF OrdersTyped, LegsTyped, LegJob
<1>6. Alone(o) /\ \A k \in Legs(o) \ {j} : leg[k].at = "idle"
  BY <1>3 DEF OrderOK, Alone
<1>7. Carried(o)' = Carried(o) /\ CarryOn(o)' = CarryOn(o) /\ Confirmed(o)' = Confirmed(o)
  BY HaulsStay
<1>8. Alone(o)'
  BY <1>3, <1>4, <1>5, <1>6 DEF Alone
<1>9. Counted(o)'
  <2>1. \A k \in Legs(o)' : leg'[k].done <= arrived'[o]
    BY <1>3, <1>4, <1>5, MarketAssumption DEF OrderOK, Counted, MarketAssumption
  <2>2. n \in RetryChildren(j)'
    BY <1>3, <1>4 DEF RetryChildren
  <2>3. \A k \in Legs(o)' : leg'[k].at = "ending" => k = j
    BY <1>3, <1>4, <1>6
  <2>4. Carried(o)' \/ order'[o] = "completed" => arrived'[o] >= Amount
    BY <1>5, <1>7, MarketAssumption DEF OrderOK, Counted, MarketAssumption
  <2>5. order'[o] = "completed" /\ o \in Hauled => Confirmed(o)'
    BY <1>7 DEF OrderOK, Counted
  <2> QED
    BY <2>1, <2>2, <2>3, <2>4, <2>5 DEF Counted
<1>10. SellAhead(o)'
  BY <1>3, SellBehind DEF OrderOK
<1>11. InLine(o)'
  <2>1. CASE o \in severed'
    BY <2>1 DEF InLine
  <2>2. CASE leg[j].at \in {"at_work", "posted"} /\ UNCHANGED severed /\ o \notin severed
    <3>1. OneLine(o) /\ LateLeg(o) /\ HaulLast(o) /\ Alone(o)
      BY <2>2 DEF OrderOK, InLine
    <3>2. LiveLegs(o) = {j}
      <4>1. LiveLegs(o) \subseteq {j}
        BY <1>3, <2>2, <3>1, OnlyWorker
      <4>2. j \in LiveLegs(o)
        BY <1>3 DEF LiveLegs
      <4> QED
        BY <4>1, <4>2
    <3>3. at = "ending"
      BY <1>1, <1>4, <2>2 DEF Grown
    <3>4. OneLine(o)'
      BY <1>3, <1>4, <3>2, <3>3 DEF OneLine, Leg
    <3>5. LateLeg(o)'
      BY <1>3, <1>4, <1>6 DEF LateLeg
    <3>6. HaulLast(o)'
      <4>1. ~ Carried(o)
        BY <2>2, <3>1, <3>2 DEF HaulLast
      <4> QED
        BY <1>7, <4>1 DEF HaulLast
    <3> QED
      BY <3>4, <3>5, <3>6 DEF InLine
  <2> QED
    BY <2>1, <2>2
<1>12. Going(o)'
  BY <1>3 DEF Going
<1> QED
  BY <1>8, <1>9, <1>10, <1>11, <1>12 DEF OrderOK

\* Everything has arrived: the runner turns to its end, and the order is completed, or
\* goes on its way to the city that asked for it.
LEMMA LegCompletes ==
    ASSUME MarketTyped, NEW j \in Leg, NEW o \in Order, o = leg[j].of, OrderOK(o),
           leg[j].at \in {"at_work", "posted"}, NEW st \in JobState, st = leg[j].status,
           Moved(j, st, "ending"), UNCHANGED <<sell, severed>>, CompleteOrder(o),
           arrived'[o] >= arrived[o], arrived'[o] \in Nat, arrived'[o] >= Amount
    PROVE  OrderOK(o)'
<1> USE DEF MarketTyped
<1>1. st # "none" /\ leg[j].status # "none"
  BY DEF LegsLinked, LegLinked
<1>2. /\ Legs(o)' = Legs(o) /\ j \in Legs(o) /\ Legs(o) \subseteq Leg
      /\ LiveLegs(o) \subseteq Legs(o)
      /\ \A k \in Legs(o) \ {j} : k \in LiveLegs(o)' <=> k \in LiveLegs(o)
      /\ j \in LiveLegs(o)' <=> st \in LiveJob
      /\ j \in LiveLegs(o) <=> leg[j].status \in LiveJob
      /\ LiveLegs(o)' \subseteq Legs(o)
      /\ \A k \in Leg : leg'[k].done = leg[k].done /\ leg'[k].source = leg[k].source
      /\ \A k \in Leg \ {j} : leg'[k] = leg[k]
  <2>1. LegsTyped /\ LegsLinked
    OBVIOUS
  <2> HIDE DEF JobState, LiveJob, MarketTyped
  <2> QED
    BY <1>1, <2>1, MovedSets, SMTT(30)
<1>3. LiveLegs(o)' = LiveLegs(o)
  <2>1. \A k \in Legs(o) : k \in LiveLegs(o)' <=> k \in LiveLegs(o)
    BY <1>2
  <2>2. LiveLegs(o)' \subseteq Legs(o) /\ LiveLegs(o) \subseteq Legs(o)
    BY <1>2
  <2> QED
    BY <2>1, <2>2
<1>4. leg'[j].at = "ending" /\ leg'[j].status = leg[j].status
  BY DEF Moved
<1>5. Alone(o) /\ Alone(o)'
  BY <1>2, <1>4 DEF OrderOK, Alone
<1>6. arrived[o] \in Nat /\ \A k \in Leg : leg[k].done \in Nat
  BY DEF OrdersTyped, LegsTyped, LegJob
<1>7. /\ Confirmed(o) => Confirmed(o)'
      /\ \/ /\ order'[o] \notin OpenOrder
            /\ order'[o] = order[o] \/ (order[o] # "none" /\ order'[o] = "completed" /\ o \notin Hauled)
            /\ Carried(o)' = Carried(o) /\ CarryOn(o)' = CarryOn(o)
         \/ /\ Carried(o) /\ order'[o] = order[o]
            /\ Carried(o)' = Carried(o) /\ CarryOn(o)' = CarryOn(o)
         \/ /\ order[o] # "none" /\ order'[o] = "jobs_running"
            /\ Carried(o)' /\ CarryOn(o)'
  BY CompleteEffect
<1>8. Counted(o)'
  <2>1. \A k \in Legs(o)' : leg'[k].done <= arrived'[o]
    BY <1>2, <1>6 DEF OrderOK, Counted
  <2>2. order'[o] = "completed" /\ o \in Hauled => Confirmed(o)'
    BY <1>7 DEF OrderOK, Counted
  <2> QED
    BY <2>1, <2>2 DEF Counted
<1>9. SellAhead(o)'
  BY <1>2, <1>7, SellBehind DEF OrderOK
<1>10. ASSUME o \notin severed PROVE OneLine(o)' /\ LateLeg(o)' /\ HaulLast(o)' /\ HaulLast(o)
  <2>1. OneLine(o) /\ LateLeg(o) /\ HaulLast(o)
    BY <1>10 DEF OrderOK, InLine
  <2>2. LiveLegs(o) \subseteq {j}
    BY <1>2, <1>5, <2>1, OnlyWorker
  <2>3. OneLine(o)'
    BY <1>3, <2>2 DEF OneLine, Leg
  <2>4. LateLeg(o)'
    <3>1. ASSUME NEW k \in Legs(o), leg'[k].at # "idle", leg'[k].status \notin LiveJob
          PROVE  LiveLegs(o) = {}
      <4>1. leg[k].at # "idle" /\ leg[k].status \notin LiveJob
        BY <1>2, <1>4, <3>1
      <4> QED
        BY <2>1, <4>1 DEF LateLeg
    <3> QED
      BY <1>2, <1>3, <3>1 DEF LateLeg
  <2>5. HaulLast(o)'
    <3>1. RetryChildren(j)' = {}
      <4> SUFFICES ASSUME NEW k \in Leg, leg'[k].source = j, leg'[k].status \in LiveJob PROVE FALSE
        BY DEF RetryChildren
      <4>1. leg[k].source = j /\ leg[k].status \in LiveJob
        BY <1>2, <1>4
      <4>2. k \in RetryChildren(j)
        BY <4>1 DEF RetryChildren
      <4>3. k \in LiveLegs(o) /\ j < k
        BY <1>2, <4>2, ChildrenAreOurs
      <4> QED
        BY <2>2, <4>3 DEF Leg
    <3>2. Carried(o)' /\ Open(o)' => CarryOn(o)'
      BY <1>7, <2>1 DEF HaulLast, Open
    <3>3. \A k \in LiveLegs(o)' : leg'[k].at \in {"ending", "failing"} /\ RetryChildren(k)' = {}
      BY <1>3, <1>4, <2>2, <3>1
    <3> QED
      BY <3>2, <3>3 DEF HaulLast
  <2> QED
    BY <2>1, <2>3, <2>4, <2>5
<1>11. InLine(o)'
  BY <1>10 DEF InLine
<1>12. Going(o)'
  <2>1. CASE o \in severed
    BY <2>1 DEF Going
  <2>2. CASE o \notin severed
    BY <1>7, <1>10, <2>2 DEF HaulLast, Going, Open
  <2> QED
    BY <2>1, <2>2
<1> QED
  BY <1>5, <1>8, <1>9, <1>11, <1>12 DEF OrderOK

\* What the market makes of the final report of a purchase job.
LegHeeded(j, o) ==
    /\ Confirmed(o) => Confirmed(o)'
    /\ \/ /\ leg[j].status # "running" /\ order'[o] = order[o]
          /\ Carried(o)' = Carried(o) /\ CarryOn(o)' = CarryOn(o)
       \/ /\ order'[o] \notin OpenOrder
          /\ order'[o] = order[o] \/ (order'[o] = "failed" /\ order[o] # "none")
          /\ Carried(o)' = Carried(o) /\ CarryOn(o)' = CarryOn(o)
       \/ /\ leg[j].status = "running" /\ RetryChildren(j) # {} /\ order'[o] = "jobs_running"
          /\ Carried(o)' = Carried(o) /\ CarryOn(o)' = CarryOn(o)
       \/ /\ leg[j].status = "running" /\ leg[j].at = "ending" /\ RetryChildren(j) = {}
          /\ \/ /\ order'[o] \notin OpenOrder
                /\ order'[o] = order[o] \/ (order[o] # "none" /\ order'[o] = "completed" /\ o \notin Hauled)
                /\ Carried(o)' = Carried(o) /\ CarryOn(o)' = CarryOn(o)
             \/ /\ Carried(o) /\ order'[o] = order[o]
                /\ Carried(o)' = Carried(o) /\ CarryOn(o)' = CarryOn(o)
             \/ /\ order[o] # "none" /\ order'[o] = "jobs_running"
                /\ Carried(o)' /\ CarryOn(o)'

\* The final report of a purchase job keeps its order's part.
LEMMA LegReportsOK ==
    ASSUME MarketTyped, NEW j \in Leg, NEW o \in Order, o = leg[j].of, OrderOK(o),
           leg[j].at \in {"ending", "failing"}, UNCHANGED <<sell, arrived, severed>>,
           NEW st \in JobState, st \notin {"none"} \cup LiveJob, Moved(j, st, "idle"),
           leg[j].status # "running" => st = leg[j].status, LegHeeded(j, o)
    PROVE  OrderOK(o)'
<1> USE DEF MarketTyped
<1>1. leg[j].status \notin {"none", "queued"} /\ leg[j].status \in JobState
  BY DEF LegsLinked, LegLinked, LegsTyped, LegJob
<1>2. /\ Legs(o)' = Legs(o) /\ j \in Legs(o) /\ Legs(o) \subseteq Leg
      /\ LiveLegs(o) \subseteq Legs(o)
      /\ \A k \in Legs(o) \ {j} : k \in LiveLegs(o)' <=> k \in LiveLegs(o)
      /\ j \in LiveLegs(o)' <=> st \in LiveJob
      /\ j \in LiveLegs(o) <=> leg[j].status \in LiveJob
      /\ LiveLegs(o)' \subseteq Legs(o)
      /\ \A k \in Leg : leg'[k].done = leg[k].done /\ leg'[k].source = leg[k].source
      /\ \A k \in Leg \ {j} : leg'[k] = leg[k]
  <2>1. LegsTyped /\ LegsLinked /\ leg[j].status # "none" /\ st # "none"
    BY <1>1
  <2> HIDE DEF JobState, LiveJob, MarketTyped
  <2> QED
    BY <2>1, MovedSets, SMTT(60)
<1>3. LiveLegs(o)' = LiveLegs(o) \ {j}
  <2>1. \A k \in Legs(o) : k \in LiveLegs(o)' <=> k \in LiveLegs(o) \ {j}
    BY <1>1, <1>2
  <2>2. LiveLegs(o)' \subseteq Legs(o) /\ LiveLegs(o) \subseteq Legs(o)
    BY <1>2
  <2> QED
    BY <2>1, <2>2
<1>4. /\ leg'[j].at = "idle" /\ \A k \in Legs(o) : leg'[k].at = "idle"
      /\ \A k \in Legs(o) \ {j} : leg[k].at = "idle"
  <2>1. Alone(o) /\ leg[j].at # "idle"
    BY <1>1 DEF OrderOK
  <2>2. \A k \in Legs(o) \ {j} : leg[k].at = "idle"
    BY <1>2, <2>1 DEF Alone
  <2>3. leg'[j].at = "idle"
    BY DEF Moved
  <2> QED
    BY <1>2, <2>2, <2>3
<1>5. Alone(o)'
  BY <1>2, <1>4 DEF Alone
<1>6. Counted(o)'
  <2>1. leg[j].status = "running" /\ leg[j].at = "ending" /\ RetryChildren(j) = {} => arrived[o] >= Amount
    BY <1>2 DEF OrderOK, Counted
  <2>2. Carried(o)' \/ order'[o] = "completed" => arrived'[o] >= Amount
    BY <2>1 DEF OrderOK, Counted, LegHeeded
  <2>3. order'[o] = "completed" /\ o \in Hauled => Confirmed(o)'
    BY DEF OrderOK, Counted, LegHeeded
  <2>4. \A k \in Legs(o)' : leg'[k].done <= arrived'[o] /\ leg'[k].at # "ending"
    BY <1>2, <1>4 DEF OrderOK, Counted
  <2> QED
    BY <2>2, <2>3, <2>4 DEF Counted
<1>7. SellAhead(o)'
  <2>1. order'[o] = order[o] \/ order'[o] \notin {"none", "matched", "jobs_created"}
    BY DEF LegHeeded
  <2> QED
    BY <1>2, <2>1, SellBehind DEF OrderOK
<1>8. ASSUME o \notin severed PROVE OneLine(o)' /\ LateLeg(o)' /\ HaulLast(o)' /\ Going(o)'
  <2>1. OneLine(o) /\ LateLeg(o) /\ HaulLast(o) /\ Alone(o)
    BY <1>8 DEF OrderOK, InLine
  <2>2. \A k, l \in LiveLegs(o) \ {j} : ~(k < l)
    <3> SUFFICES ASSUME NEW k \in LiveLegs(o), NEW l \in LiveLegs(o), k # j, k < l PROVE FALSE
      OBVIOUS
    <3>1. leg[k].at # "idle" /\ k \in Legs(o)
      BY <1>2, <2>1 DEF OneLine
    <3> QED
      BY <1>4, <3>1
  <2>3. OneLine(o)'
    BY <1>3, <2>2 DEF OneLine
  <2>4. LateLeg(o)'
    BY <1>2, <1>4 DEF LateLeg
  <2>5. ASSUME leg[j].status = "running", RetryChildren(j) # {}
        PROVE  ~ Carried(o) /\ LiveLegs(o) \ {j} # {}
    <3>1. PICK k \in RetryChildren(j) : TRUE
      BY <2>5
    <3>2. j \in LiveLegs(o)
      BY <1>2, <2>5
    <3>3. k \in LiveLegs(o) /\ j < k
      BY <1>2, <3>1, ChildrenAreOurs
    <3>4. ~ Carried(o)
      BY <2>1, <2>5, <3>2 DEF HaulLast
    <3> QED
      BY <3>3, <3>4 DEF Leg
  <2>6. RetryChildren(j) = {} => LiveLegs(o) \ {j} = {}
    BY <1>1, <1>2, <2>1, OnlyWorker
  <2>7. leg[j].status # "running" => LiveLegs(o) = {}
    BY <1>1, <1>2, <2>1 DEF LateLeg
  <2>8. HaulLast(o)'
    <3>1. Carried(o)' /\ Open(o)' => CarryOn(o)'
      BY <2>1, <2>5 DEF HaulLast, Open, LegHeeded
    <3>2. ASSUME Carried(o)', NEW k \in LiveLegs(o)' PROVE FALSE
      <4>1. k \in LiveLegs(o) /\ k # j /\ k \in Legs(o)
        BY <1>2, <1>3, <3>2
      <4>2. ~ Carried(o)
        BY <1>4, <2>1, <4>1 DEF HaulLast
      <4>3. RetryChildren(j) = {}
        BY <3>2, <4>2 DEF LegHeeded
      <4> QED
        BY <2>6, <4>1, <4>3
    <3> QED
      BY <3>1, <3>2 DEF HaulLast
  <2>9. Going(o)'
    <3>1. leg[j].status # "running" => LiveLegs(o)' = LiveLegs(o)
      BY <1>3, <2>7
    <3>2. leg[j].status = "running" /\ RetryChildren(j) # {} => LiveLegs(o)' # {}
      BY <1>3, <2>5
    <3>3. Going(o)
      BY DEF OrderOK
    <3> QED
      BY <2>1, <3>1, <3>2, <3>3 DEF Going, Open, HaulLast, LegHeeded
  <2> QED
    BY <2>3, <2>4, <2>8, <2>9
<1>9. InLine(o)' /\ Going(o)'
  BY <1>8 DEF InLine, Going
<1> QED
  BY <1>5, <1>6, <1>7, <1>9 DEF OrderOK

\* What a step of a purchase runner leaves alone.
LegFrame(o) ==
    /\ UNCHANGED sell
    /\ HaulsOfOthers(o)
    /\ \A p \in Order \ {o} : /\ order'[p] = order[p]
                              /\ arrived'[p] = arrived[p] /\ (p \in severed' <=> p \in severed)

LEMMA LegNumbers ==
    ASSUME MarketTyped, NEW j \in Leg, leg[j].at # "idle" \/ leg[j].status = "queued"
    PROVE  /\ leg[j].of \in Order /\ leg[j].status # "none" /\ leg[j].status \in JobState
           /\ leg[j].done \in 0 .. Amount /\ leg[j].amount \in 0 .. Amount /\ Amount \in Nat \ {0}
           /\ leg[j].got \in 0 .. Amount /\ leg[j].got <= leg[j].amount
           /\ arrived[leg[j].of] \in Nat /\ bought[leg[j].of] \in Nat /\ office \in Nat
           /\ leg[j].of \in Nat /\ leg[j] \in LegJob
<1>1. leg[j].status # "none" /\ leg[j].of \in Order
  BY DEF MarketTyped, LegsLinked, LegLinked
<1> QED
  BY <1>1, MarketAssumption DEF MarketAssumption, MarketTyped, LegsTyped, LegJob, OrdersTyped, SellerTyped

\* What a monitor takes over: the job with what it has bought.
LEMMA InputsTyped ==
    ASSUME NEW old \in LegJob
    PROVE  LET inputs == [old EXCEPT !.monitor = TRUE, !.amount = old.got] IN
           inputs \in LegJob /\ inputs.of = old.of /\ inputs.done = old.done
<1> HIDE DEF JobState, Runner
<1> QED
  BY DEF LegJob

\* A runner that reschedules its job, unless it is over, keeps the order's part.
LEMMA RescheduleOK ==
    ASSUME MarketTyped, NEW j \in Leg, NEW o \in Order, o = leg[j].of, OrderOK(o),
           leg[j].at \in {"at_work", "posted"}, NEW inputs \in LegJob, inputs.of = o,
           Rescheduled(j, inputs), UNCHANGED <<sell, haul, order, severed>>,
           arrived'[o] >= arrived[o], arrived'[o] \in Nat, inputs.done <= arrived'[o]
    PROVE  OrderOK(o)' /\ LegsTyped' /\ LegsLinked' /\ LegsOfOthers(o)
<1>1. LegsTyped /\ LegsLinked /\ leg[j].status # "none" /\ leg[j].status # "queued"
  BY DEF MarketTyped, LegsLinked, LegLinked
<1>2. /\ LegsTyped'
      /\ \/ leg[j].status = "running" /\ Grown(j, NextLeg, "ending", inputs.done)
         \/ leg[j].status # "running" /\ Moved(j, leg[j].status, "failing")
  BY <1>1, RescheduleLeg
<1>3. CASE leg[j].status = "running"
  <2>1. PICK n : n = NextLeg
    OBVIOUS
  <2>2. Grown(j, n, "ending", inputs.done)
    BY <1>2, <1>3, <2>1 DEF Grown
  <2>3. OrderOK(o)'
    <3>1. PICK d \in Nat : d = inputs.done
      BY MarketAssumption DEF LegJob, MarketAssumption
    <3>2. Grown(j, n, "ending", d) /\ d <= arrived'[o]
      BY <2>2, <3>1 DEF Grown
    <3> QED
      BY <1>3, <3>2, LegGrows
  <2>4. LegsLinked' /\ LegsOfOthers(o)
    BY <1>1, <2>2, LinkedGrown, OthersStand
  <2> QED
    BY <1>2, <2>3, <2>4
<1>4. CASE leg[j].status # "running"
  <2>1. PICK st : st = leg[j].status
    OBVIOUS
  <2>2. Moved(j, leg[j].status, "failing") /\ Moved(j, st, "failing")
    BY <1>2, <1>4, <2>1 DEF Moved
  <2>3. OrderOK(o)'
    BY <2>2, LegPlods
  <2>4. LegsLinked' /\ LegsOfOthers(o)
    BY <1>1, <2>1, <2>2, LinkedMoved, OthersStand
  <2> QED
    BY <1>2, <2>3, <2>4
<1> QED
  BY <1>3, <1>4

\* A job that moves on stays linked, and the other orders' jobs stay as they are.
LEMMA MovedFine ==
    ASSUME LegsTyped, LegsLinked, NEW j \in Leg, NEW o \in Order, o = leg[j].of,
           NEW st, NEW at, Moved(j, st, at), leg[j].status # "none", st # "none",
           at # "idle" => st # "queued"
    PROVE  LegsLinked' /\ LegsOfOthers(o)
BY LinkedMoved, OthersStand

\* What is to be shown of a step of order o's purchase jobs.
LegStepFine(o) ==
    /\ OrdersTyped' /\ SellerTyped' /\ LegsTyped' /\ LegsLinked' /\ HaulsTyped' /\ HaulsLinked'
    /\ LegsOfOthers(o) /\ LegFrame(o) /\ OrderOK(o)'

\* A job starts.
LEMMA LegStartsFine ==
    ASSUME MarketTyped, NEW j \in Leg, NEW o \in Order, o = leg[j].of, OrderOK(o), LegStarts(j)
    PROVE  LegStepFine(o)
<1>1. leg[j].status = "queued"
      /\ UNCHANGED <<order, office, sell, haul, cleanup, bought, arrived, landed, severed, mishaps>>
      /\ leg' = [leg EXCEPT ![j].status = "running", ![j].at = "at_work"]
  BY DEF LegStarts
<1>2. LegsTyped /\ LegsLinked /\ leg[j].amount \in 0 .. Amount /\ 0 \in Nat /\ 0 <= leg[j].amount
      /\ "running" \in JobState /\ "at_work" \in Runner
  BY <1>1, LegNumbers DEF MarketTyped
<1>3. LegsTyped' /\ Moved(j, "running", "at_work")
  BY <1>1, <1>2, PlaceMoved
<1>4. LegsLinked' /\ LegsOfOthers(o)
  BY <1>1, <1>2, <1>3, MovedFine
<1>5. OrderOK(o)'
  BY <1>3, LegStartsOK
<1>6. HaulsTyped' /\ HaulsLinked' /\ HaulsOfOthers(o)
  BY <1>1, HaulsStay DEF MarketTyped
<1> QED
  BY <1>1, <1>3, <1>4, <1>5, <1>6 DEF LegStepFine, MarketTyped, OrdersTyped, SellerTyped, LegFrame

\* It buys, fails, or loses the answer of its last call.
LEMMA LegGoesFine ==
    ASSUME MarketTyped, NEW j \in Leg, NEW o \in Order, o = leg[j].of, OrderOK(o),
           LegBuys(j) \/ LegFails(j) \/ LegOutOfGold(j) \/ LegReplyLost(j)
    PROVE  LegStepFine(o)
<1>1. leg[j].at \in {"at_work", "posted", "ending"} /\ UNCHANGED <<sell, haul, arrived, landed, severed>>
      /\ (Mishap \/ UNCHANGED mishaps)
  BY DEF LegBuys, LegFails, LegOutOfGold, LegReplyLost
<1>2. /\ LegsTyped /\ LegsLinked /\ leg[j].of \in Order /\ leg[j].status # "none"
      /\ leg[j].amount \in 0 .. Amount /\ arrived[o] \in Nat /\ bought[o] \in Nat /\ office \in Nat
      /\ Amount \in Nat
  BY <1>1, LegNumbers DEF MarketTyped
<1>3. PICK st : st = leg[j].status
  OBVIOUS
<1>4. st \in JobState /\ st \notin {"none", "queued"}
  BY <1>1, <1>3, LegNumbers DEF MarketTyped, LegsLinked, LegLinked
<1>5. PICK at \in {"posted", "failing"}, n \in Nat :
         /\ leg' = [leg EXCEPT ![j].at = at, ![j].got = n] /\ n <= leg[j].amount
         /\ leg[j].at = "ending" => at = "failing"
  <2>1. CASE LegBuys(j)
    <3>1. PICK n \in 1 .. leg[j].amount : leg' = [leg EXCEPT ![j].at = "posted", ![j].got = n]
      BY <2>1 DEF LegBuys
    <3>2. n \in Nat /\ n <= leg[j].amount /\ leg[j].at = "at_work"
      BY <1>2, <2>1 DEF LegBuys
    <3> QED
      BY <3>1, <3>2
  <2>2. CASE LegFails(j) \/ LegOutOfGold(j) \/ LegReplyLost(j)
    <3>1. leg' = [leg EXCEPT ![j].at = "failing", ![j].got = 0]
      BY <2>2 DEF LegFails, LegOutOfGold, LegReplyLost, Left
    <3>2. 0 \in Nat /\ 0 <= leg[j].amount
      BY <1>2
    <3> QED
      BY <3>1, <3>2
  <2> QED
    BY <2>1, <2>2
<1>6. LegsTyped' /\ Moved(j, st, at)
  <2>1. at \in Runner
    OBVIOUS
  <2> HIDE DEF JobState, Runner
  <2> QED
    BY <1>2, <1>3, <1>4, <1>5, <2>1, PlaceMoved
<1>7. LegsLinked' /\ LegsOfOthers(o)
  BY <1>2, <1>4, <1>6, MovedFine
<1>8. /\ order' \in [Order -> {"none"} \cup OpenOrder \cup ClosedOrder]
      /\ order'[o] = order[o] \/ (order'[o] = "failed" /\ order[o] # "none")
      /\ \A p \in Order \ {o} : order'[p] = order[p]
  BY DEF LegBuys, LegFails, LegOutOfGold, LegReplyLost, MarketTyped, OrdersTyped, SetTerminal, Open
<1>9. OrderOK(o)'
  <2>1. Moved(j, leg[j].status, at)
    BY <1>3, <1>6 DEF Moved
  <2>2. arrived'[o] \in Nat /\ arrived'[o] >= arrived[o]
    BY <1>1, <1>2
  <2> QED
    BY <1>1, <1>5, <1>8, <2>1, <2>2, LegPlods
<1>10. cleanup' \in [Order -> CleanupJob] /\ office' \in Nat /\ bought' \in [Order -> Nat]
  <2>1. CASE LegBuys(j)
    BY <1>2, <2>1 DEF LegBuys, MarketTyped, OrdersTyped, SellerTyped
  <2>2. CASE LegFails(j) \/ LegReplyLost(j)
    BY <1>2, <2>2 DEF LegFails, LegReplyLost, MarketTyped, OrdersTyped, SellerTyped
  <2>3. CASE LegOutOfGold(j)
    <3>1. SellerTyped /\ 0 \in 0 .. Amount /\ (ScheduleCleanup(o, 0) \/ UNCHANGED cleanup)
      BY <1>2, <2>3 DEF LegOutOfGold, MarketTyped
    <3>2. cleanup' \in [Order -> CleanupJob]
      BY <3>1, ScheduleTyped
    <3> QED
      BY <2>3, <3>2 DEF LegOutOfGold, MarketTyped, OrdersTyped, SellerTyped
  <2> QED
    BY <2>1, <2>2, <2>3
<1>11. HaulsTyped' /\ HaulsLinked' /\ HaulsOfOthers(o)
  BY <1>1, HaulsStay DEF MarketTyped
<1>12. mishaps' \in 0 .. MaxMishaps
  BY <1>1, MishapTyped DEF MarketTyped, OrdersTyped
<1>13. OrdersTyped' /\ SellerTyped' /\ LegFrame(o)
  BY <1>1, <1>8, <1>10, <1>11, <1>12 DEF MarketTyped, OrdersTyped, SellerTyped, LegFrame
<1> QED
  BY <1>6, <1>7, <1>9, <1>11, <1>13 DEF LegStepFine

\* A monitor takes over, or the same job comes again.
LEMMA LegAgainFine ==
    ASSUME MarketTyped, NEW j \in Leg, NEW o \in Order, o = leg[j].of, OrderOK(o),
           LegMonitored(j) \/ LegWaits(j)
    PROVE  LegStepFine(o)
<1>1. leg[j].at \in {"at_work", "posted"}
      /\ UNCHANGED <<order, office, sell, haul, cleanup, bought, arrived, landed, severed, mishaps>>
  BY DEF LegMonitored, LegWaits
<1>2. /\ leg[j] \in LegJob /\ arrived[o] \in Nat /\ leg[j].status # "none" /\ leg[j].done \in 0 .. Amount
      /\ Amount \in Nat /\ leg[j].amount \in 0 .. Amount
  BY <1>1, LegNumbers
<1>3. j \in Legs(o)
  BY <1>2 DEF Legs
<1>4. leg[j].done <= arrived[o]
  BY <1>3 DEF OrderOK, Counted
<1>5. PICK inputs \in LegJob : inputs.of = o /\ inputs.done = leg[j].done /\ Rescheduled(j, inputs)
  <2>1. CASE LegMonitored(j)
    <3>1. PICK old \in LegJob : old = leg[j]
      BY <1>2
    <3>2. PICK inputs : inputs = [old EXCEPT !.monitor = TRUE, !.amount = old.got]
      OBVIOUS
    <3>3. inputs \in LegJob /\ inputs.of = o /\ inputs.done = leg[j].done
      BY <1>2, <3>1, <3>2, InputsTyped
    <3>4. Rescheduled(j, inputs)
      BY <2>1, <3>1, <3>2 DEF LegMonitored
    <3> QED
      BY <3>3, <3>4
  <2>2. CASE LegWaits(j)
    <3>1. PICK inputs : inputs = leg[j]
      OBVIOUS
    <3>2. Rescheduled(j, inputs)
      BY <2>2, <3>1 DEF LegWaits
    <3> QED
      BY <1>2, <3>1, <3>2
  <2> QED
    BY <2>1, <2>2
<1>6. OrderOK(o)' /\ LegsTyped' /\ LegsLinked' /\ LegsOfOthers(o)
  BY <1>1, <1>2, <1>4, <1>5, RescheduleOK
<1>7. HaulsTyped' /\ HaulsLinked' /\ HaulsOfOthers(o)
  BY <1>1, HaulsStay DEF MarketTyped
<1> QED
  BY <1>1, <1>6, <1>7 DEF LegStepFine, MarketTyped, OrdersTyped, SellerTyped, LegFrame

\* A leg's units have arrived: the next leg, or the order is complete.
LEMMA LegArrivesFine ==
    ASSUME MarketTyped, NEW j \in Leg, NEW o \in Order, o = leg[j].of, OrderOK(o), LegArrives(j)
    PROVE  LegStepFine(o)
<1>1. PICK units : /\ units = IF leg[j].monitor THEN leg[j].amount ELSE leg[j].got
                   /\ arrived' = [arrived EXCEPT ![o] = @ + units]
  BY DEF LegArrives
<1>2. leg[j].at \in {"at_work", "posted"} /\ UNCHANGED <<office, sell, cleanup, bought, landed, severed, mishaps>>
  BY DEF LegArrives
<1>3. /\ leg[j] \in LegJob /\ arrived[o] \in Nat /\ leg[j].status # "none" /\ leg[j].done \in 0 .. Amount
      /\ Amount \in Nat /\ leg[j].amount \in 0 .. Amount /\ arrived \in [Order -> Nat]
      /\ LegsTyped /\ LegsLinked /\ units \in 0 .. Amount
  BY <1>1, <1>2, LegNumbers DEF MarketTyped, OrdersTyped
<1>4. j \in Legs(o)
  BY <1>3 DEF Legs
<1>5. leg[j].done <= arrived[o]
  BY <1>4 DEF OrderOK, Counted
<1>6. PICK done \in Nat : done = leg[j].done + units
  BY <1>3
<1>7. /\ arrived'[o] \in Nat /\ arrived'[o] >= arrived[o] /\ done <= arrived'[o]
      /\ arrived' \in [Order -> Nat] /\ \A p \in Order \ {o} : arrived'[p] = arrived[p]
  BY <1>1, <1>3, <1>5, <1>6
<1>8. CASE done < Amount
  <2>1. UNCHANGED <<order, haul>>
    BY <1>1, <1>6, <1>8 DEF LegArrives
  <2>2. PICK old \in LegJob : old = leg[j]
    BY <1>3
  <2>3. PICK rest \in 0 .. Amount : rest = Amount - done
    BY <1>3, <1>8
  <2>4. PICK inputs : inputs = [old EXCEPT !.monitor = FALSE, !.amount = rest, !.done = done]
    OBVIOUS
  <2>5. inputs \in LegJob /\ inputs.of = o /\ inputs.done = done
    <3>1. done \in 0 .. Amount
      BY <1>3, <1>8
    <3> HIDE DEF JobState, Runner
    <3> QED
      BY <2>2, <2>4, <3>1 DEF LegJob
  <2>6. Rescheduled(j, inputs)
    BY <1>1, <1>6, <1>8, <2>2, <2>3, <2>4 DEF LegArrives
  <2>7. OrderOK(o)' /\ LegsTyped' /\ LegsLinked' /\ LegsOfOthers(o)
    BY <1>2, <1>7, <2>1, <2>5, <2>6, RescheduleOK
  <2>8. HaulsTyped' /\ HaulsLinked' /\ HaulsOfOthers(o)
    BY <2>1, HaulsStay DEF MarketTyped
  <2> QED
    BY <1>2, <1>7, <2>1, <2>7, <2>8 DEF LegStepFine, MarketTyped, OrdersTyped, SellerTyped, LegFrame
<1>9. CASE ~(done < Amount)
  <2>1. CompleteOrder(o) /\ leg' = Left(j, "ending")
    BY <1>1, <1>6, <1>9 DEF LegArrives
  <2>2. PICK st : st = leg[j].status
    OBVIOUS
  <2>3. st \in JobState /\ st \notin {"none", "queued"} /\ "ending" \in Runner
    BY <1>2, <2>2, LegNumbers DEF MarketTyped, LegsLinked, LegLinked
  <2>4. LegsTyped' /\ Moved(j, st, "ending")
    <3>1. LegsTyped' /\ Moved(j, leg[j].status, "ending")
      BY <1>3, <2>1, <2>3, LeftMoved
    <3> QED
      BY <2>2, <3>1 DEF Moved
  <2>5. LegsLinked' /\ LegsOfOthers(o)
    BY <1>3, <2>3, <2>4, MovedFine
  <2>6. OrderOK(o)'
    <3>1. arrived'[o] >= Amount
      BY <1>3, <1>6, <1>7, <1>9
    <3> HIDE DEF JobState, Runner
    <3> QED
      BY <1>2, <1>7, <2>1, <2>2, <2>3, <2>4, <3>1, LegCompletes, SMTT(60)
  <2>7. /\ order' \in [Order -> {"none"} \cup OpenOrder \cup ClosedOrder]
        /\ \A p \in Order \ {o} : order'[p] = order[p]
        /\ HaulsTyped' /\ HaulsLinked' /\ HaulsOfOthers(o)
    BY <2>1, CompleteEffect DEF MarketTyped
  <2>8. OrdersTyped' /\ SellerTyped' /\ LegFrame(o)
    BY <1>2, <1>7, <2>7 DEF MarketTyped, OrdersTyped, SellerTyped, LegFrame
  <2> QED
    BY <2>4, <2>5, <2>6, <2>7, <2>8 DEF LegStepFine
<1> QED
  BY <1>8, <1>9

\* A final report.
LEMMA LegReportsFine ==
    ASSUME MarketTyped, NEW j \in Leg, NEW o \in Order, o = leg[j].of, OrderOK(o), LegReports(j)
    PROVE  LegStepFine(o)
<1>1. leg[j].at \in {"ending", "failing"}
      /\ UNCHANGED <<office, sell, bought, arrived, landed, severed, mishaps>>
  BY DEF LegReports
<1>2. /\ LegsTyped /\ LegsLinked /\ leg[j].status # "none" /\ leg[j].status # "queued"
      /\ leg[j].status \in JobState /\ leg[j].done \in 0 .. Amount /\ leg[j].amount \in 0 .. Amount
      /\ 0 \in Nat /\ 0 <= leg[j].amount
  BY <1>1, LegNumbers DEF MarketTyped, LegsLinked, LegLinked
<1>3. PICK st \in JobState :
         /\ st \notin {"none", "queued", "running"}
         /\ \/ leg' = [leg EXCEPT ![j].status = st, ![j].at = "idle"]
            \/ leg' = [leg EXCEPT ![j].at = "idle"] /\ st = leg[j].status
         /\ \/ leg[j].status # "running" /\ st = leg[j].status /\ UNCHANGED <<order, haul, cleanup>>
            \/ /\ leg[j].status = "running" /\ leg[j].at = "ending" /\ st = "finished"
               /\ ReconcileFinished(j)
            \/ /\ leg[j].status = "running" /\ leg[j].at = "failing" /\ st = "error"
               /\ ReconcileError(j)
  <2>1. CASE leg[j].status # "running"
    <3>1. leg' = [leg EXCEPT ![j].at = "idle"] /\ UNCHANGED <<order, haul, cleanup>>
      BY <2>1 DEF LegReports
    <3> QED
      BY <1>2, <2>1, <3>1
  <2>2. CASE leg[j].status = "running" /\ leg[j].at = "ending"
    <3>1. leg' = [leg EXCEPT ![j].status = "finished", ![j].at = "idle"] /\ ReconcileFinished(j)
      BY <2>2 DEF LegReports
    <3>2. "finished" \in JobState
      OBVIOUS
    <3> QED
      BY <2>2, <3>1, <3>2
  <2>3. CASE leg[j].status = "running" /\ leg[j].at = "failing"
    <3>1. leg' = [leg EXCEPT ![j].status = "error", ![j].at = "idle"] /\ ReconcileError(j)
      BY <2>3 DEF LegReports
    <3>2. "error" \in JobState
      OBVIOUS
    <3> QED
      BY <2>3, <3>1, <3>2
  <2> QED
    BY <1>1, <2>1, <2>2, <2>3
<1>4. LegsTyped' /\ Moved(j, st, "idle")
  <2>1. "idle" \in Runner
    OBVIOUS
  <2> HIDE DEF JobState, Runner
  <2> QED
    BY <1>2, <1>3, <2>1, PlaceMoved
<1>5. LegsLinked' /\ LegsOfOthers(o)
  BY <1>2, <1>3, <1>4, MovedFine
<1>6. /\ order' \in [Order -> {"none"} \cup OpenOrder \cup ClosedOrder]
      /\ \A p \in Order \ {o} : order'[p] = order[p]
      /\ HaulsTyped' /\ HaulsLinked' /\ HaulsOfOthers(o)
      /\ cleanup' \in [Order -> CleanupJob]
      /\ LegHeeded(j, o)
  <2>1. CASE leg[j].status # "running" /\ UNCHANGED <<order, haul, cleanup>>
    BY <2>1, HaulsStay DEF MarketTyped, OrdersTyped, SellerTyped, LegHeeded
  <2>2. CASE leg[j].status = "running" /\ leg[j].at = "ending" /\ ReconcileFinished(j)
    <3>1. cleanup' \in [Order -> CleanupJob]
      BY <2>2 DEF ReconcileFinished, MarketTyped, SellerTyped
    <3>2. CASE RetryChildren(j) # {}
      BY <2>2, <3>1, <3>2, HaulsStay DEF ReconcileFinished, MarketTyped, OrdersTyped, LegHeeded
    <3>3. CASE RetryChildren(j) = {}
      <4>1. CompleteOrder(o)
        BY <2>2, <3>3 DEF ReconcileFinished
      <4> QED
        BY <2>2, <3>1, <3>3, <4>1, CompleteEffect DEF MarketTyped, LegHeeded
    <3> QED
      BY <3>2, <3>3
  <2>3. CASE ReconcileError(j)
    <3>1. order' = SetTerminal(o, "failed") /\ UNCHANGED haul
      BY <2>3 DEF ReconcileError
    <3>2. cleanup' \in [Order -> CleanupJob]
      <4>1. PICK d \in 0 .. Amount : d = leg[j].done
        BY <1>2
      <4>2. ScheduleCleanup(o, d)
        BY <2>3, <4>1 DEF ReconcileError, ScheduleCleanup
      <4> QED
        BY <4>2, ScheduleTyped DEF MarketTyped
    <3>3. "failed" \in ClosedOrder
      OBVIOUS
    <3>4. /\ order' \in [Order -> {"none"} \cup OpenOrder \cup ClosedOrder]
          /\ \A p \in Order \ {o} : order'[p] = order[p]
          /\ order'[o] \notin OpenOrder
          /\ order'[o] = order[o] \/ (Open(o) /\ order'[o] = "failed")
      BY <3>1, <3>3, TerminalEffect DEF MarketTyped
    <3>5. /\ HaulsTyped' /\ HaulsLinked' /\ HaulsOfOthers(o)
          /\ Carried(o)' = Carried(o) /\ CarryOn(o)' = CarryOn(o) /\ Confirmed(o)' = Confirmed(o)
      BY <3>1, HaulsStay DEF MarketTyped
    <3> QED
      BY <3>2, <3>4, <3>5 DEF LegHeeded, Open
  <2> QED
    BY <1>3, <2>1, <2>2, <2>3
<1>7. OrderOK(o)'
  <2>1. st \notin {"none"} \cup LiveJob /\ (leg[j].status # "running" => st = leg[j].status)
    BY <1>3
  <2> HIDE DEF JobState, Runner, LiveJob
  <2> QED
    BY <1>1, <1>4, <1>6, <2>1, LegReportsOK, SMTT(60)
<1>8. OrdersTyped' /\ SellerTyped' /\ LegFrame(o)
  BY <1>1, <1>6 DEF MarketTyped, OrdersTyped, SellerTyped, LegFrame
<1> QED
  BY <1>4, <1>5, <1>6, <1>7, <1>8 DEF LegStepFine

\* The final report is lost: the leg runs once more.
LEMMA LegReportLostFine ==
    ASSUME MarketTyped, NEW j \in Leg, NEW o \in Order, o = leg[j].of, OrderOK(o), LegReportLost(j)
    PROVE  LegStepFine(o)
<1>1. /\ leg[j].at \in {"ending", "failing"} /\ leg[j].status = "running" /\ Born /\ Mishap
      /\ UNCHANGED <<order, office, sell, haul, cleanup, bought, arrived, landed>>
      /\ severed' = severed \cup {o}
  BY DEF LegReportLost
<1>2. /\ leg[j] \in LegJob /\ LegsTyped /\ LegsLinked /\ arrived[o] \in Nat
      /\ leg[j].done \in 0 .. Amount /\ Amount \in Nat /\ leg[j].got <= leg[j].amount
  BY <1>1, LegNumbers DEF MarketTyped
<1>3. PICK old \in LegJob : old = leg[j]
  BY <1>2
<1>4. LegsTyped' /\ Grown(j, NextLeg, "failing", old.done)
  <2>1. leg' = [leg EXCEPT ![j].at = "failing",
                  ![NextLeg] = [old EXCEPT !.status = "queued", !.at = "idle", !.source = j]]
    BY <1>3 DEF LegReportLost
  <2>2. "failing" \in Runner /\ old.of = leg[j].of /\ leg[j].status # "none" /\ old.got <= old.amount
    BY <1>1, <1>2, <1>3
  <2> HIDE DEF JobState, Runner, LegJob
  <2> QED
    BY <1>1, <1>2, <2>1, <2>2, ChildGrown
<1>5. PICK n : n = NextLeg
  OBVIOUS
<1>6. PICK d \in Nat : d = old.done /\ d <= arrived[o]
  <2>1. j \in Legs(o)
    BY <1>1 DEF Legs
  <2> QED
    BY <1>2, <1>3, <2>1 DEF OrderOK, Counted
<1>7. Grown(j, n, "failing", d)
  BY <1>4, <1>5, <1>6 DEF Grown
<1>8. LegsLinked' /\ LegsOfOthers(o)
  BY <1>1, <1>2, <1>7, LinkedGrown, OthersStand
<1>9. OrderOK(o)'
  <2>1. arrived'[o] >= arrived[o] /\ arrived'[o] \in Nat /\ d <= arrived'[o] /\ o \in severed'
        /\ leg[j].at # "idle"
    BY <1>1, <1>2, <1>6
  <2> QED
    BY <1>1, <1>7, <2>1, LegGrows, SMTT(60)
<1>10. HaulsTyped' /\ HaulsLinked' /\ HaulsOfOthers(o)
  BY <1>1, HaulsStay DEF MarketTyped
<1>11. OrdersTyped' /\ SellerTyped' /\ LegFrame(o)
  BY <1>1, <1>10, MishapTyped DEF MarketTyped, OrdersTyped, SellerTyped, LegFrame
<1> QED
  BY <1>4, <1>8, <1>9, <1>10, <1>11 DEF LegStepFine

\* A step of a purchase runner keeps the invariant.
LEMMA LegStepOK ==
    ASSUME MarketInv, NEW j \in Leg, LegStep(j)
    PROVE  MarketInv'
<1>1. MarketTyped /\ \A p \in Order : OrderOK(p)
  BY DEF MarketInv
<1>2. leg[j].at # "idle" \/ leg[j].status = "queued"
  BY DEF LegStep, LegStarts, LegBuys, LegMonitored, LegWaits, LegArrives, LegFails, LegOutOfGold,
         LegReplyLost, LegReports, LegReportLost
<1>3. PICK o \in Order : o = leg[j].of
  BY <1>1, <1>2, LegNumbers
<1>4. LegStepFine(o)
  BY <1>1, <1>3, LegStartsFine, LegGoesFine, LegAgainFine, LegArrivesFine, LegReportsFine,
     LegReportLostFine DEF LegStep
<1>5. MarketTyped' /\ OrderOK(o)'
  BY <1>4 DEF LegStepFine, MarketTyped
<1>6. ASSUME NEW p \in Order \ {o} PROVE OrderOK(p)'
  <2>1. Untouched(p)
    BY <1>4 DEF Untouched, LegStepFine, LegFrame, LegsOfOthers, HaulsOfOthers
  <2> QED
    BY <1>1, <1>5, <2>1, UntouchedOK DEF MarketTyped
<1> QED
  BY <1>5, <1>6 DEF MarketInv

-----------------------------------------------------------------------------
(* The transports keep the invariant *)

\* A step of order o's redistribution: what has ended stays so, the order is closed only
\* by what is heeded, and while it is open somebody carries on, or a report was lost.
HaulMoves(o) ==
    /\ UNCHANGED <<office, sell, leg, cleanup, bought, arrived>>
    /\ HaulsTyped' /\ HaulsGo(o)
    /\ \A p \in Order \ {o} : order'[p] = order[p] /\ (p \in severed' <=> p \in severed)
    /\ o \in severed => o \in severed'
    /\ order'[o] = order[o] \/ (Open(o) /\ order'[o] \in {"failed", "completed"})
    /\ order'[o] = "completed" => order[o] = "completed" \/ Confirmed(o)'
    /\ CarryOn(o) /\ Open(o)' => CarryOn(o)' \/ o \in severed'

LEMMA HaulMovesOK ==
    ASSUME MarketInv, OrdersTyped', NEW o \in Order, Carried(o), HaulMoves(o)
    PROVE  MarketInv'
<1>1. MarketTyped /\ \A p \in Order : OrderOK(p)
  BY DEF MarketInv
<1>2. UNCHANGED <<office, sell, leg, cleanup, bought, arrived>> /\ HaulsTyped' /\ HaulsGo(o)
  BY DEF HaulMoves
<1>3. /\ HaulsLinked' /\ HaulsOfOthers(o) /\ Carried(o)' /\ (Confirmed(o) => Confirmed(o)')
  BY <1>1, <1>2, HaulsGoOK DEF MarketTyped
<1>4. MarketTyped'
  <2>1. SellerTyped' /\ LegsTyped' /\ LegsLinked'
    BY <1>1, <1>2 DEF MarketTyped, SellerTyped, LegsTyped, LegsLinked, LegLinked
  <2> QED
    BY <1>2, <1>3, <2>1 DEF MarketTyped
<1>5. ASSUME NEW p \in Order \ {o} PROVE OrderOK(p)'
  <2>1. Untouched(p)
    BY <1>2, <1>3 DEF Untouched, HaulMoves, HaulsOfOthers
  <2> QED
    BY <1>1, <1>4, <2>1, UntouchedOK DEF MarketTyped
<1>6. OrderOK(o)'
  <2>1. /\ Legs(o)' = Legs(o) /\ LiveLegs(o)' = LiveLegs(o)
        /\ \A j : RetryChildren(j)' = RetryChildren(j)
    BY <1>2 DEF Legs, LiveLegs, RetryChildren
  <2>2. OrderOK(o) /\ arrived[o] >= Amount /\ order[o] \notin {"none", "matched", "jobs_created"}
        /\ sell[o].at # "telling"
    BY <1>1 DEF OrderOK, Counted, SellAhead
  <2>3. Alone(o)'
    BY <1>2, <2>1, <2>2 DEF OrderOK, Alone
  <2>4. Counted(o)'
    BY <1>2, <1>3, <2>1, <2>2 DEF OrderOK, Counted, HaulMoves
  <2>5. SellAhead(o)'
    BY <1>2, <2>2 DEF SellAhead, HaulMoves
  <2>6. Open(o)' => Open(o)
    BY DEF HaulMoves, Open
  <2>7. InLine(o)'
    <3> SUFFICES ASSUME o \notin severed' PROVE OneLine(o)' /\ LateLeg(o)' /\ HaulLast(o)'
      BY DEF InLine
    <3>1. OneLine(o) /\ LateLeg(o) /\ HaulLast(o)
      BY <2>2 DEF OrderOK, InLine, HaulMoves
    <3>2. OneLine(o)'
      BY <1>2, <2>1, <3>1 DEF OneLine
    <3>3. LateLeg(o)'
      BY <1>2, <2>1, <3>1 DEF LateLeg
    <3>4. \A j \in LiveLegs(o)' : leg'[j].at \in {"ending", "failing"} /\ RetryChildren(j)' = {}
      BY <1>2, <2>1, <3>1 DEF HaulLast
    <3>5. Open(o)' => CarryOn(o)'
      BY <2>6, <3>1 DEF HaulLast, HaulMoves
    <3> QED
      BY <3>2, <3>3, <3>4, <3>5 DEF HaulLast
  <2>8. Going(o)'
    <3>1. Going(o) /\ (CarryOn(o) /\ Open(o)' => CarryOn(o)' \/ o \in severed') /\ (o \in severed => o \in severed')
      BY <2>2 DEF OrderOK, HaulMoves
    <3> QED
      BY <1>2, <2>1, <2>6, <3>1 DEF Going
  <2> QED
    BY <2>3, <2>4, <2>5, <2>7, <2>8 DEF OrderOK
<1> QED
  BY <1>4, <1>5, <1>6 DEF MarketInv

\* A step after which somebody carries on as before.
HaulCarries(o) == HaulsTyped' /\ HaulsGo(o) /\ (CarryOn(o) => CarryOn(o)')

\* A job that is live, or over, stays so while its runner goes on: somebody carries on.
LEMMA HaulPlods ==
    ASSUME HaulsTyped, HaulsLinked, NEW h \in Haul, NEW o \in Order, o = haul[h].of,
           haul[h].status # "none", NEW new \in HaulJob, new.of = o, new.kind = haul[h].kind,
           new.sent <= new.units, new.status \notin {"none", "queued"},
           haul[h].status \in EndedJob => new.status = haul[h].status,
           haul[h].status \in LiveJob => new.status \in LiveJob,
           new.kind # "first" \/ new.at # "ending",
           haul' = [haul EXCEPT ![h] = new]
    PROVE  HaulCarries(o)
<1>1. HaulsTyped' /\ HaulsGo(o) /\ haul'[h] = new /\ \A k \in Haul \ {h} : haul'[k] = haul[k]
  BY HaulGoes
<1>2. HandedOver(o) => HandedOver(o)'
  BY <1>1, HaulsGoOK
<1>3. ASSUME NEW k \in LiveHauls(o), haul[k].kind # "first" \/ haul[k].at # "ending"
      PROVE  CarryOn(o)'
  <2>1. k \in Haul /\ haul[k].of = o /\ haul[k].status \in LiveJob
    BY DEF LiveHauls, Hauls
  <2>2. /\ haul'[k].of = o /\ haul'[k].status \in LiveJob
        /\ haul'[k].kind # "first" \/ haul'[k].at # "ending"
    BY <1>1, <1>3, <2>1
  <2>3. k \in LiveHauls(o)'
    BY <2>1, <2>2 DEF LiveHauls, Hauls
  <2> QED
    BY <2>2, <2>3 DEF CarryOn
<1> QED
  BY <1>1, <1>2, <1>3 DEF CarryOn, HaulCarries

\* A child that is queued carries on.
LEMMA ChildCarriesOn ==
    ASSUME NEW o \in Order, NEW n \in Haul, haul'[n].of = o, haul'[n].status = "queued",
           haul'[n].at = "idle"
    PROVE  CarryOn(o)'
<1>1. n \in LiveHauls(o)'
  BY DEF LiveHauls, Hauls
<1> QED
  BY <1>1 DEF CarryOn

\* A job, or a child of it, with other inputs.
LEMMA HaulJobs ==
    ASSUME NEW old \in HaulJob, NEW st \in JobState, NEW at \in Runner, NEW n \in 0 .. Amount,
           NEW kind \in {"first", "rest", "watch", "monitor"}, NEW zero \in 0 .. Amount
    PROVE  /\ [old EXCEPT !.at = at] \in HaulJob
           /\ [old EXCEPT !.status = st, !.at = at] \in HaulJob
           /\ [old EXCEPT !.sent = n, !.at = at] \in HaulJob
           /\ [old EXCEPT !.status = st, !.at = at, !.sent = zero] \in HaulJob
           /\ [old EXCEPT !.kind = kind] \in HaulJob
           /\ [old EXCEPT !.units = n] \in HaulJob
           /\ [old EXCEPT !.kind = kind, !.units = n] \in HaulJob
           /\ [old EXCEPT !.kind = kind, !.status = st, !.at = at, !.units = n, !.sent = zero] \in HaulJob
<1> HIDE DEF JobState, Runner
<1> QED
  BY DEF HaulJob

\* HaulChild: the job goes on and leaves a child; if it is over, its runner fails.
LEMMA HaulChildGoes ==
    ASSUME HaulsTyped, HaulsLinked, NEW h \in Haul, haul[h].at # "idle", NEW o \in Order, o = haul[h].of,
           NEW child \in HaulJob, child.of = o, NEW then \in Runner, HaulChild(h, child, then)
    PROVE  HaulCarries(o)
<1>1. PICK old \in HaulJob : old = haul[h] /\ old.sent <= old.units
  BY DEF HaulsTyped
<1>2. old.status \notin {"none", "queued"} /\ old.status \in JobState /\ old.at \in Runner
  BY <1>1 DEF HaulsLinked, HaulLinked, HaulJob
<1>3. PICK n : n = NextHaul
  OBVIOUS
<1>4. "queued" \in JobState /\ "idle" \in Runner /\ "failing" \in Runner /\ 0 \in 0 .. Amount
      /\ 0 <= child.units
  BY MarketAssumption DEF MarketAssumption, HaulJob
<1>5. CASE old.status = "running"
  <2>1. PICK new, born : /\ new = [old EXCEPT !.at = then]
                         /\ born = [child EXCEPT !.status = "queued", !.at = "idle", !.sent = 0]
    OBVIOUS
  <2>2. HaulBorn /\ haul' = [[haul EXCEPT ![h] = new] EXCEPT ![n] = born]
    <3>1. haul' = [haul EXCEPT ![h].at = then,
                               ![n] = [child EXCEPT !.status = "queued", !.at = "idle", !.sent = 0]]
          /\ HaulBorn
      BY <1>1, <1>3, <1>5 DEF HaulChild
    <3> QED
      BY <1>1, <2>1, <3>1 DEF HaulsTyped
  <2>3. /\ new \in HaulJob /\ new.of = old.of /\ new.kind = old.kind /\ new.status = old.status
        /\ new.sent <= new.units
    <3> HIDE DEF JobState, Runner
    <3> QED
      BY <1>1, <2>1 DEF HaulJob
  <2>4. /\ born \in HaulJob /\ born.of = child.of /\ born.status = "queued" /\ born.at = "idle"
        /\ born.sent <= born.units
    <3> HIDE DEF JobState, Runner
    <3> QED
      BY <1>4, <2>1 DEF HaulJob
  <2>5. HaulsTyped' /\ HaulsGo(o) /\ n \in Haul /\ haul'[n] = born
    <3>1. /\ haul[h].status # "none" /\ new.of = o /\ new.kind = haul[h].kind /\ new.status # "none"
          /\ haul[h].status \in EndedJob => new.status = haul[h].status
          /\ new.at # "idle" => new.status # "queued"
      BY <1>1, <1>2, <2>3
    <3>2. born.of = o
      BY <2>4
    <3>3. HaulAndChild(h, o, new, n, born)
      <4> HIDE DEF HaulJob, JobState, Runner
      <4> QED
        BY <1>3, <2>2, <2>3, <2>4, <3>1, <3>2, HaulGoesWithChild
    <3> QED
      BY <3>3 DEF HaulAndChild
  <2> QED
    BY <2>4, <2>5, ChildCarriesOn DEF HaulCarries
<1>6. CASE old.status # "running"
  <2>1. PICK new : new = [old EXCEPT !.at = "failing"]
    OBVIOUS
  <2>2. haul' = [haul EXCEPT ![h] = new]
    BY <1>1, <1>6, <2>1 DEF HaulChild, HaulsTyped
  <2>3. /\ new \in HaulJob /\ new.of = old.of /\ new.kind = old.kind /\ new.status = old.status
        /\ new.sent <= new.units /\ new.at = "failing"
    <3> HIDE DEF JobState, Runner
    <3> QED
      BY <1>1, <1>4, <2>1 DEF HaulJob
  <2> HIDE DEF HaulJob, JobState, Runner
  <2> QED
    BY <1>1, <1>2, <2>2, <2>3, HaulPlods
<1> QED
  BY <1>5, <1>6


\* A runner of the redistribution at work: somebody carries on as before.
HaulWorks(h) ==
    \/ HaulStarts(h) \/ HaulWaits(h) \/ HaulShips(h) \/ HaulWatched(h) \/ HaulGoesOn(h)
    \/ HaulLosesNetwork(h) \/ HaulFails(h) \/ HaulArrives(h)

\* Retry(h) is a job of the same order.
LEMMA RetryIsJob ==
    ASSUME HaulsTyped, NEW h \in Haul
    PROVE  Retry(h) \in HaulJob /\ Retry(h).of = haul[h].of /\ Retry(h).units = haul[h].units
<1>1. PICK old \in HaulJob : old = haul[h]
  BY DEF HaulsTyped
<1>2. PICK kind \in {"first", "rest", "watch", "monitor"} :
         kind = IF old.kind = "first" THEN "rest" ELSE old.kind
  BY <1>1 DEF HaulJob
<1>3. Retry(h) = [old EXCEPT !.kind = kind]
  BY <1>1, <1>2 DEF Retry
<1> HIDE DEF JobState, Runner
<1> QED
  BY <1>1, <1>3 DEF HaulJob

LEMMA HaulStartsGoes ==
    ASSUME HaulsTyped, HaulsLinked, NEW h \in Haul, NEW o \in Order, o = haul[h].of, HaulStarts(h)
    PROVE  HaulCarries(o)
<1>1. PICK old \in HaulJob : old = haul[h] /\ old.sent <= old.units
  BY DEF HaulsTyped
<1>2. PICK new : new = [old EXCEPT !.status = "running", !.at = "at_work"]
  OBVIOUS
<1>3. old.status = "queued" /\ haul' = [haul EXCEPT ![h] = new]
  BY <1>1, <1>2 DEF HaulStarts, HaulsTyped
<1>4. /\ new \in HaulJob /\ new.of = old.of /\ new.kind = old.kind /\ new.status = "running"
      /\ new.sent <= new.units /\ new.at = "at_work"
  <2>1. "running" \in JobState /\ "at_work" \in Runner
    OBVIOUS
  <2> HIDE DEF JobState, Runner
  <2> QED
    BY <1>1, <1>2, <2>1 DEF HaulJob
<1> HIDE DEF HaulJob, JobState, Runner
<1> QED
  BY <1>1, <1>3, <1>4, HaulPlods

\* The runner alone moves on, with what it has sent.
LEMMA HaulSteps ==
    ASSUME HaulsTyped, HaulsLinked, NEW h \in Haul, haul[h].at # "idle", NEW o \in Order, o = haul[h].of,
           NEW at \in Runner, at # "idle", NEW n \in 0 .. haul[h].units,
           at # "ending" \/ haul[h].kind # "first",
           haul' = [haul EXCEPT ![h].sent = n, ![h].at = at]
    PROVE  HaulCarries(o)
<1>1. PICK old \in HaulJob : old = haul[h] /\ old.sent <= old.units
  BY DEF HaulsTyped
<1>2. old.status \notin {"none", "queued"}
  BY <1>1 DEF HaulsLinked, HaulLinked
<1>3. PICK new : new = [old EXCEPT !.sent = n, !.at = at]
  OBVIOUS
<1>4. haul' = [haul EXCEPT ![h] = new]
  BY <1>1, <1>3 DEF HaulsTyped
<1>5. /\ new \in HaulJob /\ new.of = old.of /\ new.kind = old.kind /\ new.status = old.status
      /\ new.sent <= new.units /\ new.at = at
  <2>1. n \in 0 .. Amount /\ n <= old.units
    BY <1>1, MarketAssumption DEF MarketAssumption, HaulJob
  <2> HIDE DEF JobState, Runner
  <2> QED
    BY <1>1, <1>3, <2>1 DEF HaulJob
<1>6. /\ haul[h].status # "none" /\ new.of = o /\ new.kind = haul[h].kind
      /\ new.status \notin {"none", "queued"} /\ new.status = haul[h].status
      /\ new.kind # "first" \/ new.at # "ending"
  BY <1>1, <1>2, <1>5
<1> HIDE DEF HaulJob, JobState, Runner, LiveJob, EndedJob
<1> QED
  BY <1>4, <1>5, <1>6, HaulPlods, Zenon

LEMMA HaulWorksGoes ==
    ASSUME HaulsTyped, HaulsLinked, NEW h \in Haul, NEW o \in Order, o = haul[h].of, HaulWorks(h)
    PROVE  HaulCarries(o)
<1>1. PICK old \in HaulJob : old = haul[h] /\ old.sent <= old.units
  BY DEF HaulsTyped
<1>2. /\ old.units \in 0 .. Amount /\ old.sent \in 0 .. Amount /\ 0 \in 0 .. old.units
      /\ old.of \in Nat /\ old.kind \in {"first", "rest", "watch", "monitor"} /\ Amount \in Nat
  BY <1>1, MarketAssumption DEF MarketAssumption, HaulJob
<1>3. PICK retry \in HaulJob : retry = Retry(h) /\ retry.of = o /\ retry.units = old.units
  BY <1>1, RetryIsJob
<1>4. /\ "ending" \in Runner /\ "failing" \in Runner /\ "posted" \in Runner /\ "telling" \in Runner
  OBVIOUS
<1>5. CASE HaulStarts(h)
  BY <1>5, HaulStartsGoes
<1>6. CASE HaulWaits(h)
  <2>1. PICK n \in 1 .. old.units : HaulChild(h, [retry EXCEPT !.units = n], "ending")
    BY <1>1, <1>3, <1>6 DEF HaulWaits
  <2>2. n \in 0 .. Amount
    BY <1>2
  <2>3. PICK child : child = [retry EXCEPT !.units = n]
    OBVIOUS
  <2>4. child \in HaulJob /\ child.of = o /\ HaulChild(h, child, "ending") /\ haul[h].at # "idle"
    <3>1. child \in HaulJob /\ child.of = o
      <4> HIDE DEF JobState, Runner
      <4> QED
        BY <1>3, <2>2, <2>3 DEF HaulJob
    <3> QED
      BY <1>6, <2>1, <2>3, <3>1 DEF HaulWaits
  <2> HIDE DEF HaulJob, Runner
  <2> QED
    BY <1>4, <2>4, HaulChildGoes
<1>7. CASE HaulShips(h)
  <2>1. PICK n \in 1 .. old.units, at \in {"posted", "failing"} :
           haul' = [haul EXCEPT ![h].sent = n, ![h].at = at]
    BY <1>1, <1>7 DEF HaulShips
  <2>2. n \in 0 .. haul[h].units /\ haul[h].at # "idle"
    BY <1>1, <1>2, <1>7 DEF HaulShips
  <2> QED
    BY <1>4, <2>1, <2>2, HaulSteps
<1>8. CASE HaulWatched(h)
  <2>1. PICK n \in 0 .. Amount, then \in {"telling", "ending"} :
           HaulChild(h, [old EXCEPT !.kind = "monitor", !.units = n], then)
    <3>1. PICK n : /\ n = IF old.kind = "watch" THEN old.units ELSE old.sent
                   /\ HaulChild(h, [old EXCEPT !.kind = "monitor", !.units = n],
                                IF n < old.units THEN "telling" ELSE "ending")
      BY <1>1, <1>8 DEF HaulWatched
    <3> QED
      BY <1>2, <3>1
  <2>2. PICK child : child = [old EXCEPT !.kind = "monitor", !.units = n]
    OBVIOUS
  <2>3. child \in HaulJob /\ child.of = o /\ HaulChild(h, child, then) /\ haul[h].at # "idle"
    <3>1. child \in HaulJob /\ child.of = o
      <4> HIDE DEF JobState, Runner
      <4> QED
        BY <1>1, <2>1, <2>2 DEF HaulJob
    <3> QED
      BY <1>8, <2>1, <2>2, <3>1 DEF HaulWatched
  <2> HIDE DEF HaulJob, Runner
  <2> QED
    BY <1>4, <2>1, <2>3, HaulChildGoes
<1>9. CASE HaulGoesOn(h)
  <2>1. PICK n \in 0 .. Amount : n = retry.units - old.sent
    BY <1>1, <1>2, <1>3
  <2>2. PICK child : child = [retry EXCEPT !.units = n]
    OBVIOUS
  <2>3. child = [Retry(h) EXCEPT !.units = @ - haul[h].sent]
    BY <1>1, <1>3, <2>1, <2>2
  <2>4. child \in HaulJob /\ child.of = o /\ HaulChild(h, child, "ending") /\ haul[h].at # "idle"
    <3>1. child \in HaulJob /\ child.of = o
      <4> HIDE DEF JobState, Runner
      <4> QED
        BY <1>3, <2>1, <2>2 DEF HaulJob
    <3> QED
      BY <1>9, <2>3, <3>1 DEF HaulGoesOn
  <2> HIDE DEF HaulJob, Runner
  <2> QED
    BY <1>4, <2>4, HaulChildGoes
<1>10. CASE HaulLosesNetwork(h)
  <2>1. HaulChild(h, retry, "failing") /\ haul[h].at # "idle"
    BY <1>3, <1>10 DEF HaulLosesNetwork
  <2> HIDE DEF HaulJob, Runner
  <2> QED
    BY <1>3, <1>4, <2>1, HaulChildGoes
<1>11. CASE HaulFails(h) \/ HaulArrives(h)
  <2>1. PICK at \in {"failing", "ending"} :
           /\ haul' = [haul EXCEPT ![h].at = at]
           /\ at # "ending" \/ haul[h].kind # "first"
    BY <1>11 DEF HaulFails, HaulArrives
  <2>2. haul' = [haul EXCEPT ![h].sent = old.sent, ![h].at = at]
    BY <1>1, <2>1 DEF HaulsTyped, HaulJob
  <2>3. old.sent \in 0 .. haul[h].units /\ haul[h].at # "idle"
    BY <1>1, <1>2, <1>11 DEF HaulFails, HaulArrives
  <2> QED
    BY <1>4, <2>1, <2>2, <2>3, HaulSteps
<1> QED
  BY <1>5, <1>6, <1>7, <1>8, <1>9, <1>10, <1>11 DEF HaulWorks

\* Its final report.
LEMMA HaulReportsMoves ==
    ASSUME MarketTyped, NEW h \in Haul, NEW o \in Order, o = haul[h].of, HaulReports(h)
    PROVE  HaulMoves(o) /\ OrdersTyped'
<1>1. HaulsTyped /\ HaulsLinked /\ OrdersTyped
  BY DEF MarketTyped
<1>2. PICK old \in HaulJob : old = haul[h] /\ old.sent <= old.units
  BY <1>1 DEF HaulsTyped
<1>3. /\ old.at \in {"ending", "failing"} /\ old.status \notin {"none", "queued"} /\ old.status \in JobState
      /\ old.kind \in {"first", "rest", "watch", "monitor"} /\ 0 \in 0 .. Amount /\ old.units >= 0
      /\ UNCHANGED <<office, sell, leg, cleanup, bought, arrived, landed, severed, mishaps>>
  BY <1>1, <1>2, MarketAssumption
  DEF HaulReports, HaulsLinked, HaulLinked, HaulJob, MarketAssumption
<1>4. PICK st \in EndedJob :
         /\ haul' = [haul EXCEPT ![h] = [old EXCEPT !.status = st, !.at = "idle", !.sent = 0]]
         /\ \/ old.status = st /\ order' = order
            \/ /\ old.status = "running" /\ st = "error" /\ old.at = "failing"
               /\ order' = IF old.kind \in {"first", "monitor"} THEN SetTerminal(o, "failed") ELSE order
            \/ /\ old.status = "running" /\ st = "finished" /\ old.at = "ending"
               /\ order' = IF old.kind = "monitor" THEN SetTerminal(o, "completed") ELSE order
  <2>1. CASE old.status # "running"
    <3>1. haul' = [haul EXCEPT ![h].status = old.status, ![h].at = "idle", ![h].sent = 0] /\ order' = order
      BY <1>2, <2>1 DEF HaulReports
    <3>2. haul' = [haul EXCEPT ![h] = [old EXCEPT !.status = old.status, !.at = "idle", !.sent = 0]]
      BY <1>1, <1>2, <3>1 DEF HaulsTyped
    <3> QED
      BY <1>3, <2>1, <3>1, <3>2
  <2>2. ASSUME old.status = "running", NEW st \in {"finished", "error"},
               st = IF old.at = "ending" THEN "finished" ELSE "error"
        PROVE  /\ haul' = [haul EXCEPT ![h] = [old EXCEPT !.status = st, !.at = "idle", !.sent = 0]]
               /\ order' = IF st = "error" /\ old.kind \in {"first", "monitor"} THEN SetTerminal(o, "failed")
                           ELSE IF st = "finished" /\ old.kind = "monitor" THEN SetTerminal(o, "completed")
                           ELSE order
    <3>1. haul' = [haul EXCEPT ![h].status = st, ![h].at = "idle", ![h].sent = 0]
      BY <1>2, <2>2 DEF HaulReports
    <3> QED
      BY <1>1, <1>2, <2>2, <3>1 DEF HaulReports, HaulsTyped
  <2>3. CASE old.status = "running" /\ old.at = "ending"
    BY <1>3, <2>2, <2>3
  <2>4. CASE old.status = "running" /\ old.at = "failing"
    BY <1>3, <2>2, <2>4
  <2> QED
    BY <1>3, <2>1, <2>3, <2>4
<1>5. PICK new : new = [old EXCEPT !.status = st, !.at = "idle", !.sent = 0]
  OBVIOUS
<1>6. /\ new \in HaulJob /\ new.of = o /\ new.kind = old.kind /\ new.status = st
      /\ new.sent <= new.units /\ new.at = "idle"
  <2>1. "idle" \in Runner /\ st \in JobState
    OBVIOUS
  <2> HIDE DEF JobState, Runner
  <2> QED
    BY <1>2, <1>3, <1>5, <2>1 DEF HaulJob
<1>7. HaulsTyped' /\ HaulsGo(o) /\ haul'[h] = new /\ \A k \in Haul \ {h} : haul'[k] = haul[k]
  <2>1. haul' = [haul EXCEPT ![h] = new] /\ haul[h].status # "none" /\ new.status # "none"
        /\ (haul[h].status \in EndedJob => new.status = haul[h].status)
    BY <1>2, <1>3, <1>4, <1>5, <1>6
  <2> HIDE DEF HaulJob, JobState, Runner, EndedJob
  <2> QED
    BY <1>1, <1>2, <1>6, <2>1, HaulGoes
<1>8. /\ order' \in [Order -> {"none"} \cup OpenOrder \cup ClosedOrder]
      /\ \A p \in Order \ {o} : order'[p] = order[p]
      /\ order'[o] = order[o] \/ (Open(o) /\ order'[o] \in {"failed", "completed"})
      /\ order'[o] = "completed" => order[o] = "completed" \/ (old.kind = "monitor" /\ st = "finished")
  <2>1. CASE order' = order
    BY <1>1, <2>1 DEF OrdersTyped
  <2>2. CASE order' = SetTerminal(o, "failed")
    BY <1>1, <2>2, TerminalEffect
  <2>3. CASE order' = SetTerminal(o, "completed") /\ old.kind = "monitor" /\ st = "finished"
    BY <1>1, <2>3, TerminalEffect
  <2> QED
    BY <1>4, <2>1, <2>2, <2>3
<1>9. h \in Hauls(o)' /\ h \in Haul
  BY <1>6, <1>7 DEF Hauls
<1>10. order'[o] = "completed" => order[o] = "completed" \/ Confirmed(o)'
  BY <1>6, <1>7, <1>8, <1>9 DEF Confirmed
<1>11. ASSUME CarryOn(o), Open(o)' PROVE CarryOn(o)'
  <2>1. HandedOver(o) => HandedOver(o)'
    BY <1>1, <1>7, HaulsGoOK
  <2>2. CASE old.kind \in {"rest", "watch"}
    BY <1>6, <1>7, <1>9, <2>2 DEF CarryOn, HandedOver
  <2>3. ASSUME NEW k \in LiveHauls(o), haul[k].kind # "first" \/ haul[k].at # "ending", k # h
        PROVE  CarryOn(o)'
    <3>1. k \in Haul /\ haul[k].of = o /\ haul[k].status \in LiveJob /\ haul'[k] = haul[k]
      BY <1>7, <2>3 DEF LiveHauls, Hauls
    <3>2. k \in LiveHauls(o)'
      BY <3>1 DEF LiveHauls, Hauls
    <3> QED
      BY <2>3, <3>1, <3>2 DEF CarryOn
  <2>4. CASE old.kind \in {"first", "monitor"}
    <3>1. CASE old.status = st
      <4>1. h \notin LiveHauls(o)
        BY <1>2, <3>1 DEF LiveHauls
      <4> QED
        BY <1>11, <2>1, <2>3, <4>1 DEF CarryOn
    <3>2. CASE old.status = "running" /\ old.at = "failing" /\ order' = SetTerminal(o, "failed")
      BY <1>1, <1>11, <3>2, TerminalEffect DEF Open
    <3>3. CASE old.status = "running" /\ old.kind = "monitor" /\ order' = SetTerminal(o, "completed")
      BY <1>1, <1>11, <3>3, TerminalEffect DEF Open
    <3>4. CASE old.kind = "first" /\ old.at = "ending"
      <4>1. ~ (haul[h].kind # "first" \/ haul[h].at # "ending")
        BY <1>2, <3>4
      <4> QED
        BY <1>11, <2>1, <2>3, <4>1 DEF CarryOn
    <3> QED
      BY <1>4, <2>4, <3>1, <3>2, <3>3, <3>4
  <2> QED
    BY <1>3, <2>2, <2>4
<1>12. OrdersTyped'
  BY <1>1, <1>3, <1>8 DEF OrdersTyped
<1> QED
  BY <1>3, <1>7, <1>8, <1>10, <1>11, <1>12 DEF HaulMoves

\* The recovery.
LEMMA HaulRecoveredMoves ==
    ASSUME MarketTyped, NEW h \in Haul, NEW o \in Order, o = haul[h].of,
           NEW dead \in BOOLEAN, NEW requeued \in BOOLEAN, HaulRecovered(h, dead, requeued)
    PROVE  HaulMoves(o) /\ OrdersTyped'
<1>1. HaulsTyped /\ HaulsLinked /\ OrdersTyped
  BY DEF MarketTyped
<1>2. PICK old \in HaulJob : old = haul[h] /\ old.sent <= old.units
  BY <1>1 DEF HaulsTyped
<1>3. /\ old.status = "running" /\ Mishap
      /\ UNCHANGED <<order, office, sell, leg, cleanup, bought, arrived, landed>>
      /\ severed' = IF requeued THEN severed ELSE severed \cup {o}
  BY <1>2 DEF HaulRecovered
<1>4. PICK at \in Runner : at = IF dead THEN "idle" ELSE old.at
  BY <1>2 DEF HaulJob
<1>5. PICK new : new = [old EXCEPT !.status = "cancelled", !.at = at]
  OBVIOUS
<1>6. /\ new \in HaulJob /\ new.of = o /\ new.kind = old.kind /\ new.status = "cancelled"
      /\ new.sent <= new.units
  <2>1. "cancelled" \in JobState
    OBVIOUS
  <2> HIDE DEF JobState, Runner
  <2> QED
    BY <1>2, <1>5, <2>1 DEF HaulJob
<1>7. OrdersTyped'
  BY <1>1, <1>3, MishapTyped DEF OrdersTyped
<1>8. CASE ~ requeued
  <2>1. haul' = [haul EXCEPT ![h] = new]
    BY <1>1, <1>2, <1>4, <1>5, <1>8 DEF HaulRecovered, HaulsTyped
  <2>2. HaulsTyped' /\ HaulsGo(o)
    <3>1. haul[h].status = "running"
      BY <1>2, <1>3
    <3> HIDE DEF HaulJob, JobState, Runner
    <3> QED
      BY <1>1, <1>2, <1>6, <2>1, <3>1, HaulGoes
  <2>3. o \in severed'
    BY <1>3, <1>8
  <2> QED
    BY <1>3, <1>7, <2>2, <2>3 DEF HaulMoves
<1>9. CASE requeued
  <2>1. PICK n : n = NextHaul
    OBVIOUS
  <2>2. n # h /\ HaulBorn
    <3>1. NextHaul \in Nat /\ h < NextHaul /\ h \in Nat
      BY <1>1, <1>2, <1>3, NextHaulFree DEF Haul
    <3> QED
      BY <1>9, <2>1, <3>1 DEF HaulRecovered
  <2>3. PICK retry \in HaulJob : retry = Retry(h) /\ retry.of = o
    BY <1>1, RetryIsJob
  <2>4. PICK child : child = IF old.sent = 0 THEN [retry EXCEPT !.status = "queued", !.at = "idle"]
                             ELSE [old EXCEPT !.kind = "watch", !.status = "queued", !.at = "idle",
                                              !.units = old.sent, !.sent = 0]
    OBVIOUS
  <2>5. /\ child \in HaulJob /\ child.of = o /\ child.status = "queued" /\ child.at = "idle"
        /\ child.sent <= child.units
    <3>1. "queued" \in JobState /\ "idle" \in Runner /\ 0 \in 0 .. Amount /\ old.sent \in 0 .. Amount
          /\ 0 <= old.sent
      BY <1>2, MarketAssumption DEF MarketAssumption, HaulJob
    <3>2. retry.sent = old.sent /\ retry.units = old.units
      BY <1>2, <2>3 DEF Retry, HaulJob
    <3>3. CASE old.sent = 0
      <4> HIDE DEF JobState, Runner
      <4> QED
        BY <1>2, <2>3, <2>4, <3>1, <3>2, <3>3 DEF HaulJob
    <3>4. CASE old.sent # 0
      <4>1. child = [old EXCEPT !.kind = "watch", !.status = "queued", !.at = "idle",
                                !.units = old.sent, !.sent = 0]
        BY <2>4, <3>4
      <4> HIDE DEF JobState, Runner
      <4> QED
        BY <1>2, <3>1, <4>1 DEF HaulJob
    <3> QED
      BY <3>3, <3>4
  <2>6. haul' = [[haul EXCEPT ![h] = new] EXCEPT ![n] = child]
    <3>1. haul' = [k \in Haul |-> IF k = h THEN new ELSE IF k = n THEN child ELSE haul[k]]
      BY <1>2, <1>4, <1>5, <1>9, <2>1, <2>3, <2>4 DEF HaulRecovered
    <3> HIDE DEF HaulJob
    <3> QED
      BY <1>1, <2>2, <3>1 DEF HaulsTyped
  <2>7. HaulAndChild(h, o, new, n, child)
    <3>1. haul[h].status = "running" /\ new.status # "none" /\ new.status # "queued"
          /\ new.kind = haul[h].kind
      BY <1>2, <1>3, <1>6
    <3> HIDE DEF HaulJob, JobState, Runner
    <3> QED
      BY <1>1, <1>6, <2>1, <2>2, <2>5, <2>6, <3>1, HaulGoesWithChild
  <2>8. CarryOn(o)'
    BY <2>5, <2>7, ChildCarriesOn DEF HaulAndChild
  <2> QED
    BY <1>3, <1>7, <1>9, <2>7, <2>8 DEF HaulMoves, HaulAndChild
<1> QED
  BY <1>8, <1>9

\* A step of the redistribution keeps the invariant.
LEMMA HaulStepOK ==
    ASSUME MarketInv, NEW h \in Haul, HaulStep(h)
    PROVE  MarketInv'
<1>1. MarketTyped /\ OrdersTyped /\ HaulsTyped /\ HaulsLinked
  BY DEF MarketInv, MarketTyped
<1>2. haul[h].status # "none"
  BY <1>1 DEF HaulStep, HaulStarts, HaulWaits, HaulShips, HaulWatched, HaulGoesOn, HaulLosesNetwork,
              HaulFails, HaulArrives, HaulReports, HaulReportLost, HaulRecovered, HaulsLinked, HaulLinked
<1>3. PICK o \in Order : o = haul[h].of
  BY <1>1, <1>2 DEF HaulsLinked, HaulLinked
<1>4. Carried(o)
  BY <1>2, <1>3 DEF Carried, Hauls
<1>5. CASE HaulWorks(h)
  <2>1. HaulCarries(o)
    BY <1>1, <1>3, <1>5, HaulWorksGoes
  <2>2. UNCHANGED <<order, office, sell, leg, cleanup, bought, arrived, severed, mishaps>>
    BY <1>5 DEF HaulWorks, HaulStarts, HaulWaits, HaulShips, HaulWatched, HaulGoesOn,
                HaulLosesNetwork, HaulFails, HaulArrives
  <2>3. landed' \in [Order -> Nat]
    <3>1. CASE HaulArrives(h)
      <4>1. PICK n \in Nat : n = haul[h].units
        BY <1>1, MarketAssumption DEF MarketAssumption, HaulsTyped, HaulJob
      <4>2. landed' = [landed EXCEPT ![o] = landed[o] + n]
        BY <1>3, <3>1, <4>1 DEF HaulArrives
      <4> QED
        BY <1>1, <4>2 DEF OrdersTyped
    <3>2. CASE UNCHANGED landed
      BY <1>1, <3>2 DEF OrdersTyped
    <3> QED
      BY <1>5, <3>1, <3>2 DEF HaulWorks, HaulStarts, HaulWaits, HaulShips, HaulWatched, HaulGoesOn,
                              HaulLosesNetwork, HaulFails
  <2>4. OrdersTyped'
    BY <1>1, <2>2, <2>3 DEF OrdersTyped
  <2>5. HaulMoves(o)
    BY <2>1, <2>2 DEF HaulMoves, HaulCarries
  <2> QED
    BY <1>4, <2>4, <2>5, HaulMovesOK
<1>6. CASE HaulReports(h)
  BY <1>1, <1>3, <1>4, <1>6, HaulReportsMoves, HaulMovesOK
<1>7. CASE HaulReportLost(h)
  <2>1. PICK retry \in HaulJob : retry = Retry(h) /\ retry.of = o
    BY <1>1, <1>3, RetryIsJob
  <2>2. /\ HaulChild(h, retry, "failing") /\ haul[h].at # "idle" /\ Mishap /\ severed' = severed \cup {o}
        /\ UNCHANGED <<order, office, sell, leg, cleanup, bought, arrived, landed>>
    BY <1>3, <1>7, <2>1 DEF HaulReportLost
  <2>3. HaulCarries(o)
    <3>1. "failing" \in Runner
      OBVIOUS
    <3> HIDE DEF HaulJob, Runner
    <3> QED
      BY <1>1, <1>3, <2>1, <2>2, <3>1, HaulChildGoes
  <2>4. OrdersTyped'
    BY <1>1, <2>2, MishapTyped DEF OrdersTyped
  <2>5. HaulMoves(o)
    BY <2>2, <2>3 DEF HaulMoves, HaulCarries
  <2> QED
    BY <1>4, <2>4, <2>5, HaulMovesOK
<1>8. ASSUME NEW dead \in BOOLEAN, NEW requeued \in BOOLEAN, HaulRecovered(h, dead, requeued)
      PROVE  MarketInv'
  BY <1>1, <1>3, <1>4, <1>8, HaulRecoveredMoves, HaulMovesOK
<1> QED
  BY <1>5, <1>6, <1>7, <1>8 DEF HaulStep, HaulWorks

\* A step that touches no order keeps the invariant.
LEMMA OthersStepOK ==
    ASSUME MarketInv, StrangerBuys \/ UNCHANGED marketVars
    PROVE  MarketInv'
<1>1. MarketTyped /\ \A p \in Order : OrderOK(p)
  BY DEF MarketInv
<1>2. UNCHANGED <<order, sell, leg, haul, cleanup, bought, arrived, landed, severed>>
  BY DEF StrangerBuys, marketVars
<1>3. office' \in Nat
  BY <1>1 DEF StrangerBuys, marketVars, MarketTyped, SellerTyped
<1>4. mishaps' \in 0 .. MaxMishaps
  BY <1>1, MishapTyped DEF StrangerBuys, marketVars, MarketTyped, OrdersTyped
<1>5. MarketTyped'
  <2>1. OrdersTyped' /\ SellerTyped'
    BY <1>1, <1>2, <1>3, <1>4 DEF MarketTyped, OrdersTyped, SellerTyped
  <2>2. LegsTyped' /\ LegsLinked' /\ HaulsTyped' /\ HaulsLinked'
    BY <1>1, <1>2 DEF MarketTyped, LegsTyped, LegsLinked, LegLinked, HaulsTyped, HaulsLinked, HaulLinked
  <2> QED
    BY <2>1, <2>2 DEF MarketTyped
<1>6. ASSUME NEW p \in Order PROVE OrderOK(p)'
  <2>1. Untouched(p)
    BY <1>2 DEF Untouched
  <2> QED
    BY <1>1, <1>5, <2>1, UntouchedOK DEF MarketTyped
<1> QED
  BY <1>5, <1>6 DEF MarketInv

-----------------------------------------------------------------------------
(* The theorems *)

LEMMA MarketInitOK == MarketInit => MarketInv
<1> SUFFICES ASSUME MarketInit PROVE MarketInv
  OBVIOUS
<1>1. OrdersTyped
  BY MarketAssumption DEF MarketAssumption, MarketInit, OrdersTyped
<1>2. SellerTyped
  BY MarketAssumption DEF MarketAssumption, MarketInit, SellerTyped, SellJob, CleanupJob, NoCleanup
<1>3. LegsTyped
  BY MarketAssumption DEF MarketAssumption, MarketInit, LegsTyped, LegJob, NoLeg
<1>4. LegsLinked
  BY DEF MarketInit, LegsLinked, LegLinked, NoLeg, Leg
<1>5. HaulsTyped /\ HaulsLinked
  BY MarketAssumption
  DEF MarketAssumption, MarketInit, HaulsTyped, HaulsLinked, HaulLinked, HaulJob, NoHaul, Haul
<1>6. ASSUME NEW o \in Order PROVE OrderOK(o)
  <2>1. Legs(o) = {} /\ LiveLegs(o) = {} /\ Hauls(o) = {}
    BY DEF MarketInit, Legs, LiveLegs, Hauls, NoLeg, NoHaul
  <2>2. ~ Carried(o)
    BY <2>1 DEF Carried
  <2>3. Alone(o) /\ SellAhead(o) /\ InLine(o) /\ Going(o)
    BY <2>1, <2>2 DEF MarketInit, Alone, SellAhead, InLine, OneLine, LateLeg, HaulLast, Going, Open
  <2>4. Counted(o)
    BY <2>1, <2>2 DEF MarketInit, Counted
  <2> QED
    BY <2>3, <2>4 DEF OrderOK
<1> QED
  BY <1>1, <1>2, <1>3, <1>4, <1>5, <1>6 DEF MarketInv, MarketTyped

LEMMA MarketInductive == MarketInv /\ [MarketNext]_marketVars => MarketInv'
BY NextCases, SellerStepOK, LegStepOK, HaulStepOK, OthersStepOK

LEMMA MarketAlways == MarketSpec => []MarketInv
BY MarketInitOK, MarketInductive, PTL DEF MarketSpec

\* The orders, their jobs and the branch office have the types the services give them.
THEOREM MarketTypeCorrect == MarketSpec => []MarketTypeOK
<1>1. MarketInv => MarketTypeOK
  <2> SUFFICES ASSUME MarketInv PROVE MarketTypeOK
    OBVIOUS
  <2>1. OrdersTyped /\ SellerTyped /\ LegsTyped /\ LegsLinked /\ HaulsTyped /\ HaulsLinked
    BY DEF MarketInv, MarketTyped
  <2>2. ASSUME NEW j \in Leg
        PROVE  /\ leg[j].of \in Order \cup {0} /\ leg[j].status \in JobState /\ leg[j].at \in Runner
               /\ leg[j].amount \in 0 .. Amount /\ leg[j].got \in 0 .. leg[j].amount
               /\ leg[j].done \in 0 .. Amount /\ leg[j].source < j
    <3>1. leg[j].got <= leg[j].amount /\ leg[j] \in LegJob /\ Amount \in Nat
      BY <2>1, MarketAssumption DEF MarketAssumption, LegsTyped
    <3>2. leg[j].got \in 0 .. leg[j].amount
      BY <3>1 DEF LegJob
    <3> QED
      BY <2>1, <3>1, <3>2 DEF LegJob, LegsLinked, LegLinked
  <2>3. ASSUME NEW h \in Haul
        PROVE  /\ haul[h].of \in Order \cup {0} /\ haul[h].status \in JobState /\ haul[h].at \in Runner
               /\ haul[h].kind \in {"first", "rest", "watch", "monitor"}
               /\ haul[h].units \in 0 .. Amount /\ haul[h].sent \in 0 .. haul[h].units
    <3>1. haul[h].sent <= haul[h].units /\ haul[h] \in HaulJob /\ Amount \in Nat
      BY <2>1, MarketAssumption DEF MarketAssumption, HaulsTyped
    <3>2. haul[h].sent \in 0 .. haul[h].units
      BY <3>1 DEF HaulJob
    <3> QED
      BY <2>1, <3>1, <3>2 DEF HaulJob, HaulsLinked, HaulLinked
  <2>4. \A o \in Order : cleanup[o].keep \subseteq Order /\ cleanup[o].leftover \in 0 .. Amount
    BY <2>1 DEF SellerTyped, CleanupJob
  <2> QED
    BY <2>1, <2>2, <2>3, <2>4 DEF MarketTypeOK, OrdersTyped, SellerTyped, SellJob
<1> QED
  BY <1>1, MarketAlways, PTL

\* An order that is completed was bought: as many units as it asked for were seen to arrive
\* in the city they were bought for, whatever was retried, lost or repeated, and one whose
\* goods go on has a monitor of the redistribution that has finished.
THEOREM CompletedWasBought == MarketSpec => []CompletedBought
<1>1. MarketInv => CompletedBought
  <2> SUFFICES ASSUME MarketInv, NEW o \in Order, order[o] = "completed"
               PROVE  arrived[o] >= Amount /\ (o \in Hauled => Confirmed(o))
    BY DEF CompletedBought, Confirmed
  <2> QED
    BY DEF MarketInv, OrderOK, Counted
<1> QED
  BY <1>1, MarketAlways, PTL

\* An open order has a job that will end it, unless one of its jobs ended or was repeated
\* without the market, or its redistribution has been handed to a retry that has ended:
\* no other report, late purchase or lost race leaves it open for good.
THEOREM OpenOrdersGoOn == MarketSpec => []OrderAlive
<1>1. MarketInv => OrderAlive
  <2> SUFFICES ASSUME MarketInv, NEW o \in Order, Open(o)
               PROVE  \/ sell[o].status \in LiveJob \/ LiveLegs(o) # {} \/ LiveHauls(o) # {}
                      \/ HandedOver(o) \/ o \in severed
    BY DEF OrderAlive
  <2>1. Going(o)
    BY DEF MarketInv, OrderOK
  <2> QED
    BY <2>1 DEF Going, CarryOn
<1> QED
  BY <1>1, MarketAlways, PTL

-----------------------------------------------------------------------------
(* What a cleanup leaves on sale *)

\* What some orders need is at most their amount each.
LEMMA NeedSum ==
    ASSUME MarketTyped, NEW S \in SUBSET Order
    PROVE  /\ MapThenSumSet(Need, S) \in Nat
           /\ MapThenSumSet(Need, S) <= Amount * Cardinality(S)
<1>1. Amount \in Nat /\ IsFiniteSet(S)
  BY MarketAssumption, FS_Subset DEF MarketAssumption
<1>2. \A x \in Order : Need(x) \in 0 .. Amount
  <2> SUFFICES ASSUME NEW x \in Order PROVE Need(x) \in 0 .. Amount
    OBVIOUS
  <2>1. PICK b \in Nat : b = bought[x]
    BY DEF MarketTyped, OrdersTyped
  <2>2. Max({Amount, b}) \in {Amount, b} /\ Max({Amount, b}) >= b
    BY <1>1, MaxOfTwo
  <2>3. Max({Amount, b}) - b \in 0 .. Amount
    BY <1>1, <2>2
  <2> QED
    BY <1>1, <2>1, <2>3 DEF Need
<1>3. PICK need : need = [x \in S |-> Need(x)]
  OBVIOUS
<1> DEFINE Sum(g) == [s \in SUBSET S |-> IF s = {} THEN 0 ELSE Need(Pick(s)) + g[s \ {Pick(s)}]]
<1>4. \A g : Sum(g) = SumStep(need, S, g)
  <2>1. \A s \in SUBSET S : s # {} => Need(Pick(s)) = need[Pick(s)]
    <3>1. \A s \in SUBSET S : s # {} => Pick(s) \in S
      BY DEF Pick
    <3> QED
      BY <1>3, <3>1
  <2> QED
    BY <2>1 DEF SumStep
<1>5. MapThenSumSet(Need, S) = (CHOOSE g : g = Sum(g))[S]
  BY DEF MapThenSumSet, MapThenFoldSet, Pick
<1>6. \E g : g = Sum(g)
  <2>1. \E g : g = SumStep(need, S, g)
    BY <1>1, SumExists
  <2> QED
    BY <1>4, <2>1
<1> HIDE DEF Sum
<1>7. PICK h : h = CHOOSE g : g = Sum(g)
  OBVIOUS
<1>8. h = SumStep(need, S, h)
  BY <1>4, <1>6, <1>7
<1>9. \A x \in S : need[x] \in 0 .. Amount
  BY <1>2, <1>3
<1>10. h[S] \in Nat /\ h[S] <= Amount * Cardinality(S)
  BY <1>1, <1>8, <1>9, SumBounded
<1> QED
  BY <1>5, <1>7, <1>10

\* A cleanup that is scheduled lists the other orders on offer.
LEMMA ScheduledList ==
    ASSUME MarketTyped, NEW o \in Order, NEW p \in Order, NEW d, NewCleanup(o), ScheduleCleanup(p, d)
    PROVE  cleanup'[o].keep = StillOnOffer(o)
<1>1. PICK c : c = [status |-> "queued", at |-> "idle", leftover |-> Max({Amount, d}) - d,
                    keep |-> StillOnOffer(p), total |-> 0]
  OBVIOUS
<1>2. cleanup' = cleanup \/ cleanup' = [cleanup EXCEPT ![p] = c]
  BY <1>1 DEF ScheduleCleanup
<1>3. cleanup'[o] # cleanup[o]
  BY DEF NewCleanup
<1>4. o = p /\ cleanup'[o] = c
  BY <1>2, <1>3 DEF MarketTyped, SellerTyped
<1> QED
  BY <1>1, <1>4

LEMMA NewCleanupList ==
    ASSUME MarketTyped, MarketNext, NEW o \in Order, NewCleanup(o)
    PROVE  cleanup'[o].keep = StillOnOffer(o)
<1>1. cleanup[o].status \notin LiveJob /\ cleanup'[o].status = "queued" /\ cleanup' # cleanup
  BY DEF NewCleanup
<1>2. cleanup \in [Order -> CleanupJob]
  BY DEF MarketTyped, SellerTyped
<1>3. ASSUME NEW p \in Order, SellerStep(p) PROVE FALSE
  <2>1. CancelOrder(p) \/ CleanupStarts(p) \/ CleanupPosts(p) \/ CleanupFails(p)
    BY <1>1, <1>3 DEF SellerStep, PlaceOrder, PlaceOrderLost, SellStarts, SellPosts, SellTells, SellFails,
                      SellReports, CreateBuyJob, SellReportLost, SellAgain, JobsEndUntold
  <2>2. PICK c, st : /\ cleanup' = [cleanup EXCEPT ![p] = c] /\ c.status = st /\ st # "queued"
    <3>1. CASE CancelOrder(p)
      <4>1. PICK st : st = IF cleanup[p].status \in LiveJob THEN "cancelled" ELSE cleanup[p].status
        OBVIOUS
      <4>2. cleanup' = [cleanup EXCEPT ![p] = [cleanup[p] EXCEPT !.status = st]]
        BY <1>2, <3>1, <4>1 DEF CancelOrder
      <4>3. [cleanup[p] EXCEPT !.status = st].status = st /\ st # "queued"
        BY <1>2, <4>1 DEF CleanupJob
      <4> QED
        BY <4>2, <4>3
    <3>2. CASE CleanupStarts(p)
      <4>1. cleanup' = [cleanup EXCEPT ![p] = [cleanup[p] EXCEPT !.status = "running", !.at = "read",
                                                                 !.total = office]]
        BY <1>2, <3>2 DEF CleanupStarts
      <4>2. [cleanup[p] EXCEPT !.status = "running", !.at = "read", !.total = office].status = "running"
        BY <1>2 DEF CleanupJob
      <4> QED
        BY <4>1, <4>2
    <3>3. CASE CleanupPosts(p) \/ CleanupFails(p)
      <4>1. PICK st \in {"finished", "cancelled", "error"} :
               cleanup' = [cleanup EXCEPT ![p] = [NoCleanup EXCEPT !.status = st]]
        BY <3>3 DEF CleanupPosts, CleanupFails
      <4>2. [NoCleanup EXCEPT !.status = st].status = st
        BY DEF NoCleanup
      <4> QED
        BY <4>1, <4>2
    <3> QED
      BY <2>1, <3>1, <3>2, <3>3
  <2> QED
    BY <1>1, <1>2, <2>2
<1>4. ASSUME NEW j \in Leg, LegStep(j) PROVE cleanup'[o].keep = StillOnOffer(o)
  <2>1. PICK d : leg[j].at # "idle" /\ ScheduleCleanup(leg[j].of, d)
    BY <1>1, <1>4 DEF LegStep, LegStarts, LegBuys, LegMonitored, LegWaits, LegArrives, LegFails, LegOutOfGold,
                      LegReplyLost, LegReports, LegReportLost, ReconcileFinished, ReconcileError
  <2>2. leg[j].of \in Order
    BY <2>1 DEF MarketTyped, LegsLinked, LegLinked
  <2> QED
    BY <2>1, <2>2, ScheduledList
<1>5. ASSUME NEW h \in Haul, HaulStep(h) PROVE FALSE
  BY <1>1, <1>5 DEF HaulStep, HaulStarts, HaulWaits, HaulShips, HaulWatched, HaulGoesOn, HaulLosesNetwork,
                    HaulFails, HaulArrives, HaulReports, HaulReportLost, HaulRecovered
<1>6. ~ StrangerBuys
  BY <1>1 DEF StrangerBuys
<1> QED
  BY <1>3, <1>4, <1>5, <1>6, NextCases

\* A cleanup keeps the units of every other order that has units to buy when it is scheduled,
\* and leaves on sale what these still need, however long it waited, and whoever bought or
\* posted between its reading of the branch office and its writing.
THEOREM CleanupKeepsOthers == MarketSpec => KeptOrdersKept
<1>1. ASSUME MarketInv, MarketNext, NEW o \in Order, CutBy(o)
      PROVE  office' >= MapThenSumSet(Need, cleanup[o].keep)
  <2>1. MarketTyped
    BY <1>1 DEF MarketInv
  <2>2. CleanupPosts(o)
    <3>1. cleanup[o].at = "read" /\ cleanup'[o].at = "idle" /\ office' < office /\ office \in Nat
      BY <1>1, <2>1 DEF CutBy, MarketTyped, SellerTyped
    <3>2. cleanup'[o] # cleanup[o] /\ office' # office
      BY <3>1
    <3>3. ASSUME NEW j \in Leg, LegStep(j) PROVE FALSE
      BY <3>2, <3>3 DEF LegStep, LegStarts, LegBuys, LegMonitored, LegWaits, LegArrives, LegFails,
                        LegOutOfGold, LegReplyLost, LegReports, LegReportLost
    <3>4. ASSUME NEW p \in Order, SellerStep(p) PROVE CleanupPosts(p)
      <4>1. ~ SellPosts(p)
        BY <3>2 DEF SellPosts
      <4> QED
        BY <3>2, <3>4, <4>1
        DEF SellerStep, PlaceOrder, PlaceOrderLost, CancelOrder, SellStarts, SellTells, SellFails,
            SellReports, CreateBuyJob, CleanupStarts, CleanupFails, SellReportLost, SellAgain,
            JobsEndUntold
    <3>5. ASSUME NEW p \in Order, CleanupPosts(p) PROVE p = o
      BY <2>1, <3>2, <3>5 DEF CleanupPosts, MarketTyped, SellerTyped
    <3>6. ~ StrangerBuys
      BY <3>2 DEF StrangerBuys
    <3>7. ASSUME NEW h \in Haul, HaulStep(h) PROVE FALSE
      BY <3>2, <3>7 DEF HaulStep, HaulStarts, HaulWaits, HaulShips, HaulWatched, HaulGoesOn,
                        HaulLosesNetwork, HaulFails, HaulArrives, HaulReports, HaulReportLost, HaulRecovered
    <3> QED
      BY <1>1, <3>3, <3>4, <3>5, <3>6, <3>7, NextCases
  <2>3. PICK c \in CleanupJob : c = cleanup[o]
    BY <2>1 DEF MarketTyped, SellerTyped
  <2>4. c.keep \in SUBSET Order /\ c.total \in Nat /\ c.leftover \in Nat /\ Amount \in Nat
    BY <2>3, MarketAssumption DEF CleanupJob, MarketAssumption
  <2>5. Cardinality(c.keep) \in Nat /\ Amount * Cardinality(c.keep) \in Nat
    <3>1. Cardinality(c.keep) \in Nat
      BY <2>4, MarketAssumption, FS_Subset, FS_CardinalityType DEF MarketAssumption
    <3> QED
      BY <2>4, <3>1
  <2>6. CleanupTotal(o) >= Amount * Cardinality(c.keep) /\ CleanupTotal(o) \in Nat
    <3>1. Max({c.total, c.leftover}) - c.leftover \in Nat
      BY <2>4, MaxOfTwo
    <3>2. Max({Amount * Cardinality(c.keep), Max({c.total, c.leftover}) - c.leftover})
            >= Amount * Cardinality(c.keep)
      BY <2>5, <3>1, MaxOfTwo
    <3> QED
      BY <2>1, <2>3, <3>2, CleanupNumbers DEF CleanupTotal, MarketTyped
  <2>7. office' = CleanupTotal(o)
    <3>1. office' # office
      BY <1>1, <2>1 DEF CutBy, MarketTyped, SellerTyped
    <3> QED
      BY <2>2, <3>1 DEF CleanupPosts
  <2>8. MapThenSumSet(Need, c.keep) \in Nat /\ MapThenSumSet(Need, c.keep) <= Amount * Cardinality(c.keep)
    BY <2>1, <2>4, NeedSum
  <2>9. office' >= MapThenSumSet(Need, c.keep)
    BY <2>5, <2>6, <2>7, <2>8
  <2> QED
    BY <2>3, <2>9
<1>2. ASSUME MarketInv, MarketNext, NEW o \in Order, NewCleanup(o)
      PROVE  {p \in Order \ {o} : sell[p].status = "finished" /\ Need(p) > 0} \subseteq cleanup'[o].keep
  <2>1. cleanup'[o].keep = StillOnOffer(o)
    BY <1>2, NewCleanupList DEF MarketInv
  <2>2. ASSUME NEW p \in Order, Need(p) > 0 PROVE Open(p)
    BY <2>2 DEF Need
  <2> QED
    BY <2>1, <2>2 DEF StillOnOffer
<1>3. MarketInv /\ [MarketNext]_marketVars
        => [\A o \in Order :
             /\ NewCleanup(o) => {p \in Order \ {o} : sell[p].status = "finished" /\ Need(p) > 0}
                                   \subseteq cleanup'[o].keep
             /\ CutBy(o) => office' >= MapThenSumSet(Need, cleanup[o].keep)]_marketVars
  BY <1>1, <1>2
<1> QED
  BY <1>3, MarketAlways, PTL DEF MarketSpec, KeptOrdersKept
=============================================================================
