----------------------- MODULE CampaignMailbox_proofs ------------------------
(***************************************************************************)
(* Proofs about CampaignMailbox, for every number of campaigns, targets,   *)
(* safehouses, rounds and faults, and for both transports.                 *)
(***************************************************************************)
EXTENDS CampaignMailbox, NumberLemmas

-----------------------------------------------------------------------------
(* What is true of each campaign at every step *)

Coming(c) == {r \in RoundsOf(c) : row[r].status = "scheduled"}
Ended(c) == Trouble(c, {"cancelled", "lost"})

\* Where the round an agent executes, its follow-up and the pointer can be.
PlaceOK(c) ==
    /\ ptr[c] \in RoundsOf(c) \cup {NoRound}
    /\ runner[c].at = "idle" => runner[c] = Idle
    /\ runner[c].at # "idle" => /\ runner[c].round \in RoundsOf(c)
                                /\ row[runner[c].round].status \notin {"none", "scheduled"}
    /\ runner[c].at = "spawning" => /\ runner[c].next \in RoundsOf(c)
                                    /\ row[runner[c].next].status # "running"
                                    /\ ptr[c] # NoRound

\* A child is out only once the pointer is set; the targets a round has left are not.
OutOK(c) ==
    \A t \in Target :
        /\ child[<<c, t>>].at # "away" => ptr[c] # NoRound
        /\ t \in runner[c].targets => child[<<c, t>>].at = "away"
        /\ child[<<c, t>>].at = "noting" => child[<<c, t>>].ptr \in RoundsOf(c)

PointerOK(c) ==
    ptr[c] # NoRound /\ row[ptr[c]].status = "cancelled" => Trouble(c, {"cancelled"})

\* A round that has still to ask for its follow-up has none.
OneOK(c) ==
    ~Trouble(c, {"forked"}) =>
        /\ \A r, s \in Coming(c) : r = s
        /\ /\ runner[c].at \in {"asking", "complete", "fallback", "giving_up"}
           /\ row[runner[c].round].status \notin Terminal
           => Coming(c) = {}

\* A round that goes to its end has a follow-up, or nothing is left to read.
AliveOK(c) ==
    /\ runner[c].at # "idle" /\ row[runner[c].round].status \in Terminal => Ended(c)
    /\ runner[c].at = "complete" => Target \subseteq read[c]
    /\ runner[c].at \in {"spawning", "ending"} => Coming(c) # {} \/ Target \subseteq read[c] \/ Ended(c)
    /\ ActiveRounds(c) = {} => Target \subseteq read[c] \/ Ended(c)

CampaignOK(c) == PlaceOK(c) /\ OutOK(c) /\ PointerOK(c) /\ OneOK(c) /\ AliveOK(c)

CampaignInv == CampaignTypeOK /\ \A c \in Campaign : CampaignOK(c)

USE CampaignAssumption DEF CampaignAssumption, Round, Child, Terminal

-----------------------------------------------------------------------------
(* Rows *)

\* The number a new round gets is one that nothing names.
LEMMA NewRowIsFree ==
    ASSUME NEW c \in Campaign, FreeRows(c) # {}
    PROVE  NewRow(c) \in FreeRows(c)
<1> DEFINE Numbers == {r[2] : r \in FreeRows(c)}
<1>1. FreeRows(c) \subseteq RoundsOf(c) /\ RoundsOf(c) \subseteq Round
  BY DEF FreeRows, RoundsOf
<1>2. Numbers \subseteq Nat /\ Numbers # {}
  BY <1>1
<1>3. PICK k \in Numbers : \A l \in Numbers : k <= l
  BY <1>2, LeastExists
<1>4. PICK r \in FreeRows(c) : r[2] = k
  OBVIOUS
<1>5. \A s \in FreeRows(c) : r[2] <= s[2]
  BY <1>3, <1>4
<1> HIDE DEF Numbers
<1> QED
  BY <1>4, <1>5 DEF NewRow

\* What a new round is to the others: n has just been created, and the round gone, if
\* there was one, cancelled.
Created(c, n, gone) ==
    /\ n \in RoundsOf(c) /\ row[n].status \in Terminal /\ ~Named(n)
    /\ gone # n
    /\ row'[n].status = "scheduled"
    /\ \A r \in Round : r # n => row'[r].status = IF r = gone THEN "cancelled" ELSE row[r].status

RowRecord == [status : Status, soon : BOOLEAN, inbox : SUBSET Target, claims : SUBSET Target,
              sent : SUBSET Target]

LEMMA NewRound ==
    ASSUME CampaignTypeOK, NEW c \in Campaign, FreeRows(c) # {},
           NEW new, new \in RowRecord, new.status = "scheduled",
           row' = [row EXCEPT ![NewRow(c)] = new]
    PROVE  row' \in [Round -> RowRecord] /\ Created(c, NewRow(c), NoRound)
<1>1. NewRow(c) \in FreeRows(c)
  BY NewRowIsFree
<1> HIDE DEF NewRow
<1>2. NewRow(c) \in Round /\ NewRow(c) # NoRound
  BY <1>1 DEF FreeRows, RoundsOf
<1>3. row \in [Round -> RowRecord]
  BY DEF CampaignTypeOK, RowRecord
<1> QED
  BY <1>1, <1>2, <1>3 DEF FreeRows, Created, RowRecord, Status

Source(s) == IF row[s].status = "scheduled" THEN s ELSE NoRound

LEMMA ScheduledType ==
    ASSUME NEW claims \in SUBSET Target
    PROVE  Scheduled(claims) \in RowRecord /\ Scheduled(claims).status = "scheduled"
BY DEF Scheduled, Empty, RowRecord, Status

LEMMA Rescheduled ==
    ASSUME CampaignTypeOK, NEW c \in Campaign, NEW s \in RoundsOf(c),
           NEW claims \in SUBSET Target, Reschedule(c, s, claims)
    PROVE  /\ row' \in [Round -> RowRecord]
           /\ ptr' = [ptr EXCEPT ![c] = NewRow(c)] /\ ptr' \in [Campaign -> Round \cup {NoRound}]
           /\ Created(c, NewRow(c), Source(s))
           /\ row[s].status \notin Terminal
<1>1. NewRow(c) \in FreeRows(c)
  BY NewRowIsFree DEF Reschedule
<1>2. PICK n : n = NewRow(c)
  OBVIOUS
<1>3. n \in RoundsOf(c) /\ row[n].status \in Terminal /\ ~Named(n)
  BY <1>1, <1>2 DEF FreeRows
<1>4. row[s].status \notin Terminal /\ n # s
  BY <1>3 DEF Reschedule
<1>5. row \in [Round -> RowRecord] /\ s \in Round /\ n \in Round
  BY <1>3 DEF CampaignTypeOK, RowRecord, RoundsOf
<1>6. row' = [row EXCEPT ![n] = Scheduled(claims),
                         ![s].status = IF @ = "scheduled" THEN "cancelled" ELSE @]
  BY <1>2 DEF Reschedule
<1>7. ptr' = [ptr EXCEPT ![c] = n]
  BY <1>2 DEF Reschedule
<1>8. Scheduled(claims) \in RowRecord /\ Scheduled(claims).status = "scheduled"
  BY ScheduledType
<1>9. ptr' \in [Campaign -> Round \cup {NoRound}]
  BY <1>5, <1>7 DEF CampaignTypeOK
<1>10. row' \in [Round -> RowRecord]
  <2>1. PICK started : started = Scheduled(claims)
    OBVIOUS
  <2>2. PICK status \in Status :
            status = IF row[s].status = "scheduled" THEN "cancelled" ELSE row[s].status
    BY <1>5 DEF RowRecord, Status
  <2>3. row' = [row EXCEPT ![n] = started, ![s] = [row[s] EXCEPT !.status = status]]
    BY <1>4, <1>5, <1>6, <2>1, <2>2
  <2>4. [row[s] EXCEPT !.status = status] \in RowRecord
    BY <1>5 DEF RowRecord
  <2> HIDE DEF RowRecord
  <2> QED
    BY <1>5, <1>8, <2>1, <2>3, <2>4
<1>11. /\ row'[n].status = "scheduled"
       /\ \A r \in Round : r # n =>
             row'[r].status = IF r = Source(s) THEN "cancelled" ELSE row[r].status
  <2>1. row'[n] = Scheduled(claims)
    BY <1>4, <1>5, <1>6
  <2>2. row'[s].status = IF row[s].status = "scheduled" THEN "cancelled" ELSE row[s].status
    BY <1>4, <1>5, <1>6 DEF RowRecord
  <2>3. \A r \in Round : r # n /\ r # s => row'[r] = row[r]
    BY <1>5, <1>6
  <2>4. NoRound \notin Round
    OBVIOUS
  <2> QED
    BY <1>5, <1>8, <2>1, <2>2, <2>3, <2>4 DEF Source
<1>12. Source(s) # n
  BY <1>4, <1>5 DEF Source
<1> QED
  BY <1>2, <1>3, <1>4, <1>7, <1>9, <1>10, <1>11, <1>12 DEF Created

-----------------------------------------------------------------------------
(* The parts of the state *)

Places == {"idle", "asking", "complete", "fallback", "giving_up", "spawning", "ending"}
RunnerRecord == [round : Round \cup {NoRound}, next : Round \cup {NoRound}, at : Places,
                 targets : SUBSET Target, free : SUBSET Safehouse, claims : SUBSET Target]
ChildRecord == [at : {"away", "out", "telling", "noting", "reviving", "told"},
                source : Safehouse \cup {NoSource}, ptr : Round \cup {NoRound}]
Kinds == {"forked", "cancelled", "lost"}

LEMMA Parts ==
    ASSUME CampaignTypeOK
    PROVE  /\ row \in [Round -> RowRecord] /\ ptr \in [Campaign -> Round \cup {NoRound}]
           /\ runner \in [Campaign -> RunnerRecord] /\ child \in [Child -> ChildRecord]
           /\ read \in [Campaign -> SUBSET Target] /\ trouble \subseteq Campaign \X Kinds
           /\ faults \in 0 .. MaxFaults
BY DEF CampaignTypeOK, RowRecord, RunnerRecord, Places, ChildRecord, Kinds

LEMMA PartsNext ==
    ASSUME row' \in [Round -> RowRecord], ptr' \in [Campaign -> Round \cup {NoRound}],
           runner' \in [Campaign -> RunnerRecord], child' \in [Child -> ChildRecord],
           read' \in [Campaign -> SUBSET Target], trouble' \subseteq Campaign \X Kinds,
           faults' \in 0 .. MaxFaults
    PROVE  CampaignTypeOK'
BY DEF CampaignTypeOK, RowRecord, RunnerRecord, Places, ChildRecord, Kinds

LEMMA FaultType == ASSUME faults \in 0 .. MaxFaults, Fault PROVE faults' \in 0 .. MaxFaults
BY DEF Fault

\* What a step leaves of a campaign it is not about: at most, one more target is read.
Untouched(d) ==
    /\ \A r \in RoundsOf(d) : row'[r].status = row[r].status
    /\ ptr'[d] = ptr[d] /\ runner'[d] = runner[d]
    /\ \A t \in Target : child'[<<d, t>>] = child[<<d, t>>]
    /\ read[d] \subseteq read'[d]
    /\ \A kind \in Kinds : <<d, kind>> \in trouble' <=> <<d, kind>> \in trouble

LEMMA UntouchedKeeps ==
    ASSUME CampaignTypeOK, NEW d \in Campaign, CampaignOK(d), Untouched(d)
    PROVE  CampaignOK(d)'
<1>1. RoundsOf(d)' = RoundsOf(d) /\ Coming(d)' = Coming(d) /\ ActiveRounds(d)' = ActiveRounds(d)
  BY DEF Untouched, RoundsOf, Coming, ActiveRounds
<1>2. /\ Trouble(d, {"forked"})' = Trouble(d, {"forked"})
      /\ Trouble(d, {"cancelled"})' = Trouble(d, {"cancelled"})
      /\ Ended(d)' = Ended(d)
  BY DEF Untouched, Trouble, Ended, Kinds
<1>3. PlaceOK(d)'
  BY <1>1 DEF CampaignOK, PlaceOK, Untouched, Idle
<1>4. OutOK(d)'
  BY <1>1 DEF CampaignOK, OutOK, Untouched
<1>5. PointerOK(d)'
  BY <1>2 DEF CampaignOK, PlaceOK, PointerOK, Untouched
<1>6. OneOK(d)'
  BY <1>1, <1>2 DEF CampaignOK, PlaceOK, OneOK, Untouched
<1>7. AliveOK(d)'
  BY <1>1, <1>2 DEF CampaignOK, PlaceOK, AliveOK, Untouched
<1> QED
  BY <1>3, <1>4, <1>5, <1>6, <1>7 DEF CampaignOK

\* A step about campaign c keeps the invariant when it keeps that of c.
LEMMA OneCampaign ==
    ASSUME CampaignInv, CampaignTypeOK', NEW c \in Campaign, CampaignOK(c)',
           \A d \in Campaign : d # c => Untouched(d)
    PROVE  CampaignInv'
<1>1. ASSUME NEW d \in Campaign PROVE CampaignOK(d)'
  <2>1. CASE d = c
    BY <2>1
  <2>2. CASE d # c
    BY <2>2, UntouchedKeeps DEF CampaignInv
  <2> QED
    BY <2>1, <2>2
<1> QED
  BY <1>1 DEF CampaignInv

-----------------------------------------------------------------------------
(* A round *)

LEMMA StartRoundKeeps ==
    ASSUME CampaignInv, NEW c \in Campaign, NEW r \in RoundsOf(c), StartRound(r)
    PROVE  CampaignInv'
<1>1. /\ runner[c] = Idle /\ row[r].status = "scheduled"
      /\ row' = [Forgotten(c) EXCEPT ![r].status = "running", ![r].inbox = @ \ Payload(r)]
      /\ runner' = [runner EXCEPT ![c] = [Idle EXCEPT !.round = r, !.at = "asking",
                                                      !.claims = row[r].claims \ Payload(r)]]
      /\ UNCHANGED <<ptr, child, read, trouble, faults>>
  BY DEF StartRound, RoundsOf
<1>2. r \in Round /\ r[1] = c /\ CampaignOK(c)
  BY DEF RoundsOf, CampaignInv
<1>3. row \in [Round -> RowRecord] /\ CampaignTypeOK
  BY Parts DEF CampaignInv
<1>4. r \notin FreeRows(c) /\ ptr[c] \notin FreeRows(c)
  BY <1>1, <1>2 DEF FreeRows, Named, RoundsOf
<1>5. /\ Forgotten(c) \in [Round -> RowRecord] /\ Forgotten(c)[r] = row[r]
      /\ \A q \in Round : q \notin FreeRows(c) => Forgotten(c)[q] = row[q]
      /\ \A q \in FreeRows(c) : row[q].status \in Terminal /\ Forgotten(c)[q].status = "none"
  BY <1>2, <1>3, <1>4 DEF Forgotten, Empty, RowRecord, Status, FreeRows, RoundsOf
<1>6. PICK inbox : inbox = row[r].inbox \ Payload(r)
  OBVIOUS
<1>7. row' = [Forgotten(c) EXCEPT ![r] = [row[r] EXCEPT !.status = "running", !.inbox = inbox]]
  BY <1>1, <1>2, <1>5, <1>6 DEF RowRecord
<1>8. inbox \in SUBSET Target
  BY <1>2, <1>3, <1>6 DEF RowRecord
<1>9. /\ row' \in [Round -> RowRecord] /\ row'[r].status = "running"
      /\ \A q \in Round \ {r} : q \notin FreeRows(c) => row'[q] = row[q]
      /\ \A q \in FreeRows(c) : row[q].status \in Terminal /\ row'[q].status = "none"
  <2>1. [row[r] EXCEPT !.status = "running", !.inbox = inbox] \in RowRecord
    <3>1. PICK old \in RowRecord : old = row[r]
      BY <1>2, <1>3
    <3>2. [old EXCEPT !.status = "running", !.inbox = inbox] \in RowRecord
      BY <1>8 DEF RowRecord, Status
    <3> QED
      BY <3>1, <3>2
  <2>2. [row[r] EXCEPT !.status = "running", !.inbox = inbox].status = "running"
    BY <1>2, <1>3 DEF RowRecord
  <2> HIDE DEF RowRecord, Forgotten
  <2> QED
    BY <1>2, <1>4, <1>5, <1>7, <2>1, <2>2 DEF FreeRows, RoundsOf
<1>10. /\ runner' \in [Campaign -> RunnerRecord] /\ runner'[c].round = r
       /\ runner'[c].at = "asking" /\ runner'[c].targets = {}
       /\ \A d \in Campaign : d # c => runner'[d] = runner[d]
  <2>1. PICK claims : claims = row[r].claims \ Payload(r)
    OBVIOUS
  <2>2. claims \in SUBSET Target
    BY <2>1, <1>2, <1>3 DEF RowRecord
  <2>3. [Idle EXCEPT !.round = r, !.at = "asking", !.claims = claims] \in RunnerRecord
    BY <2>2, <1>2 DEF Idle, RunnerRecord, Places
  <2>4. runner' = [runner EXCEPT ![c] = [Idle EXCEPT !.round = r, !.at = "asking", !.claims = claims]]
    BY <1>1, <2>1
  <2> QED
    BY <2>3, <2>4, <1>3, Parts DEF Idle
<1>11. CampaignTypeOK'
  BY <1>1, <1>3, <1>9, <1>10, Parts, PartsNext
<1>12. CampaignOK(c)'
  <2>1. RoundsOf(c)' = RoundsOf(c) /\ RoundsOf(c) \subseteq Round
    BY DEF RoundsOf
  <2>2. \A q \in RoundsOf(c) : row'[q].status = "scheduled" => q # r /\ row[q].status = "scheduled"
    BY <1>9, <2>1
  <2>3. /\ Trouble(c, {"forked"})' = Trouble(c, {"forked"})
        /\ Trouble(c, {"cancelled"})' = Trouble(c, {"cancelled"})
    BY <1>1 DEF Trouble
  <2>4. PlaceOK(c)'
    BY <1>1, <1>2, <1>9, <1>10, <2>1 DEF CampaignOK, PlaceOK
  <2>5. OutOK(c)'
    BY <1>1, <1>2, <1>10, <2>1 DEF CampaignOK, OutOK
  <2>6. PointerOK(c)'
    <3>1. ASSUME ptr[c] # NoRound, row'[ptr[c]].status = "cancelled"
          PROVE  row[ptr[c]].status = "cancelled"
      <4>1. ptr[c] \in Round
        BY <3>1, <1>2, <2>1 DEF CampaignOK, PlaceOK
      <4>2. ptr[c] # r
        BY <1>9, <3>1
      <4> QED
        BY <1>4, <1>9, <3>1, <4>1, <4>2
    <3> QED
      BY <1>1, <1>2, <2>3, <3>1 DEF CampaignOK, PointerOK
  <2>7. OneOK(c)'
    <3>1. ASSUME ~Trouble(c, {"forked"}) PROVE Coming(c)' = {}
      <4>1. \A p, q \in Coming(c) : p = q
        BY <3>1, <1>2 DEF CampaignOK, OneOK
      <4>2. r \in Coming(c)
        BY <1>1, <1>2 DEF Coming
      <4>3. \A q \in Coming(c)' : q \in Coming(c) /\ q # r
        BY <2>1, <2>2 DEF Coming
      <4> QED
        BY <4>1, <4>2, <4>3
    <3> QED
      BY <2>3, <3>1 DEF OneOK
  <2>8. AliveOK(c)'
    <3>1. r \in ActiveRounds(c)'
      BY <1>9, <2>1, <1>2 DEF ActiveRounds, RoundsOf
    <3> QED
      BY <1>9, <1>10, <3>1 DEF AliveOK
  <2> QED
    BY <2>4, <2>5, <2>6, <2>7, <2>8 DEF CampaignOK
<1>13. \A d \in Campaign : d # c => Untouched(d)
  BY <1>1, <1>2, <1>9, <1>10 DEF Untouched, RoundsOf, FreeRows
<1> QED
  BY <1>11, <1>12, <1>13, OneCampaign

LEMMA AskTargetsKeeps ==
    ASSUME CampaignInv, NEW c \in Campaign, AskTargets(c)
    PROVE  CampaignInv'
<1>1. PICK targets, claims :
         /\ targets = (Target \ (read[c] \cup Occupied)) \ claims
         /\ claims = IF BusySources = {} THEN {} ELSE runner[c].claims
  OBVIOUS
<1>2. /\ runner[c].at = "asking"
      /\ runner' = [runner EXCEPT ![c].targets = targets,
                                  ![c].free = Safehouse \ BusySources,
                                  ![c].claims = claims,
                                  ![c].at = IF targets = {} /\ BusySources = {} THEN "complete"
                                                                                ELSE "fallback"]
      /\ UNCHANGED <<row, ptr, child, read, trouble, faults>>
  BY <1>1 DEF AskTargets
<1>3. CampaignTypeOK /\ CampaignOK(c)
  BY DEF CampaignInv
<1>4. runner \in [Campaign -> RunnerRecord]
  BY <1>3, Parts
<1>5. claims \in SUBSET Target /\ targets \in SUBSET Target
  BY <1>1, <1>4 DEF RunnerRecord
<1>6. \A t \in targets : child[<<c, t>>].at = "away"
  BY <1>1 DEF Occupied, Busy
<1>7. targets = {} /\ BusySources = {} => Target \subseteq read[c]
  <2>1. BusySources = {} => Busy = {}
    BY DEF BusySources
  <2>2. Busy = {} => Occupied = {}
    BY DEF Occupied
  <2> QED
    BY <1>1, <2>1, <2>2
<1>8. PICK at \in {"complete", "fallback"} :
         at = IF targets = {} /\ BusySources = {} THEN "complete" ELSE "fallback"
  OBVIOUS
<1>9. PICK free \in SUBSET Safehouse : free = Safehouse \ BusySources
  OBVIOUS
<1>10. runner' = [runner EXCEPT ![c].targets = targets, ![c].free = free,
                                ![c].claims = claims, ![c].at = at]
  BY <1>2, <1>8, <1>9
<1>11. /\ runner' \in [Campaign -> RunnerRecord] /\ runner'[c].at = at
       /\ runner'[c].targets = targets /\ runner'[c].round = runner[c].round
       /\ \A d \in Campaign : d # c => runner'[d] = runner[d]
  <2>1. PICK old \in RunnerRecord : old = runner[c]
    BY <1>4
  <2>2. runner' = [runner EXCEPT ![c] = [old EXCEPT !.targets = targets, !.free = free,
                                                    !.claims = claims, !.at = at]]
    BY <1>4, <1>10, <2>1
  <2>3. PICK goes : goes = [old EXCEPT !.targets = targets, !.free = free,
                                       !.claims = claims, !.at = at]
    OBVIOUS
  <2>4. goes \in RunnerRecord /\ goes.at = at /\ goes.targets = targets /\ goes.round = old.round
    BY <1>5, <2>3 DEF RunnerRecord, Places
  <2> QED
    BY <1>4, <2>1, <2>2, <2>3, <2>4
<1>12. CampaignTypeOK'
  BY <1>2, <1>3, <1>11, Parts, PartsNext
<1>13. CampaignOK(c)'
  <2>1. /\ RoundsOf(c)' = RoundsOf(c) /\ Coming(c)' = Coming(c) /\ ActiveRounds(c)' = ActiveRounds(c)
        /\ Trouble(c, {"forked"})' = Trouble(c, {"forked"}) /\ Ended(c)' = Ended(c)
        /\ Trouble(c, {"cancelled"})' = Trouble(c, {"cancelled"})
    BY <1>2 DEF RoundsOf, Coming, ActiveRounds, Trouble, Ended
  <2>2. PlaceOK(c)'
    BY <1>2, <1>3, <1>8, <1>11, <2>1 DEF CampaignOK, PlaceOK
  <2>3. OutOK(c)'
    BY <1>2, <1>3, <1>6, <1>11, <2>1 DEF CampaignOK, OutOK
  <2>4. PointerOK(c)'
    BY <1>2, <1>3, <2>1 DEF CampaignOK, PointerOK
  <2>5. OneOK(c)'
    BY <1>2, <1>3, <1>11, <2>1 DEF CampaignOK, OneOK
  <2>6. AliveOK(c)'
    BY <1>2, <1>3, <1>7, <1>8, <1>11, <2>1 DEF CampaignOK, AliveOK
  <2> QED
    BY <2>2, <2>3, <2>4, <2>5, <2>6 DEF CampaignOK
<1>14. \A d \in Campaign : d # c => Untouched(d)
  BY <1>2, <1>11 DEF Untouched
<1> QED
  BY <1>12, <1>13, <1>14, OneCampaign

\* Steps of a runner that leave the rows, the pointer and the children alone.
RunnerGoes(c, at) ==
    /\ runner[c].at # "idle" /\ at \in {"giving_up", "ending"}
    /\ at = "giving_up" => runner[c].at = "fallback"
    /\ runner' = [runner EXCEPT ![c].at = at]
    /\ UNCHANGED <<row, ptr, child, read>>

LEMMA RunnerGoesKeeps ==
    ASSUME CampaignInv, NEW c \in Campaign, NEW at, RunnerGoes(c, at), UNCHANGED trouble,
           faults' \in 0 .. MaxFaults,
           at = "ending" =>
              \/ runner[c].at = "spawning" \/ Target \subseteq read[c]
              \/ row[runner[c].round].status \in Terminal
    PROVE  CampaignInv'
<1>1. CampaignTypeOK /\ CampaignOK(c)
  BY DEF CampaignInv
<1>2. runner \in [Campaign -> RunnerRecord]
  BY <1>1, Parts
<1>3. /\ runner' \in [Campaign -> RunnerRecord] /\ runner'[c].at = at
      /\ runner'[c].targets = runner[c].targets /\ runner'[c].round = runner[c].round
      /\ \A d \in Campaign : d # c => runner'[d] = runner[d]
  BY <1>2 DEF RunnerRecord, Places, RunnerGoes
<1>4. CampaignTypeOK'
  BY <1>1, <1>3, Parts, PartsNext DEF RunnerGoes
<1>5. CampaignOK(c)'
  <2>1. /\ RoundsOf(c)' = RoundsOf(c) /\ Coming(c)' = Coming(c) /\ ActiveRounds(c)' = ActiveRounds(c)
        /\ Trouble(c, {"forked"})' = Trouble(c, {"forked"}) /\ Ended(c)' = Ended(c)
        /\ Trouble(c, {"cancelled"})' = Trouble(c, {"cancelled"})
    BY DEF RunnerGoes, RoundsOf, Coming, ActiveRounds, Trouble, Ended
  <2>2. PlaceOK(c)'
    BY <1>1, <1>3, <2>1 DEF RunnerGoes, CampaignOK, PlaceOK
  <2>3. OutOK(c)'
    BY <1>1, <1>3, <2>1 DEF RunnerGoes, CampaignOK, OutOK
  <2>4. PointerOK(c)'
    BY <1>1, <2>1 DEF RunnerGoes, CampaignOK, PointerOK
  <2>5. OneOK(c)'
    BY <1>1, <1>3, <2>1 DEF RunnerGoes, CampaignOK, OneOK
  <2>6. AliveOK(c)'
    BY <1>1, <1>3, <2>1 DEF RunnerGoes, CampaignOK, AliveOK
  <2> QED
    BY <2>2, <2>3, <2>4, <2>5, <2>6 DEF CampaignOK
<1>6. \A d \in Campaign : d # c => Untouched(d)
  BY <1>3 DEF RunnerGoes, Untouched
<1> QED
  BY <1>4, <1>5, <1>6, OneCampaign

-----------------------------------------------------------------------------
(* A round asks for the next one *)

\* The row, pointer and runner of a step that creates the one round to come: the runner
\* goes to its end, or spawns with the new round as its next.
Follows(c, n, gone, at) ==
    /\ Created(c, n, gone)
    /\ \A d \in Campaign : d # c => runner'[d] = runner[d] /\ ptr'[d] = ptr[d]
    /\ runner'[c].at = at /\ runner'[c].round = runner[c].round
    /\ runner'[c].targets = runner[c].targets
    /\ at = "spawning" => runner'[c].next = n /\ ptr'[c] = n
    /\ ptr'[c] \in {ptr[c], n}

LEMMA CreatedStatus ==
    ASSUME NEW c \in Campaign, NEW n, NEW gone, gone \in RoundsOf(c) \cup {NoRound},
           Created(c, n, gone)
    PROVE  /\ n \in ActiveRounds(c)' /\ n \in Coming(c)'
           /\ gone = NoRound => Coming(c)' = Coming(c) \cup {n}
           /\ gone # NoRound => Coming(c)' = (Coming(c) \ {gone}) \cup {n}
           /\ \A d \in Campaign : d # c => \A r \in RoundsOf(d) : row'[r].status = row[r].status
<1>1. RoundsOf(c)' = RoundsOf(c) /\ RoundsOf(c) \subseteq Round /\ NoRound \notin RoundsOf(c)
  BY DEF RoundsOf
<1>2. n \in RoundsOf(c) /\ row[n].status # "scheduled" /\ row'[n].status = "scheduled" /\ gone # n
  BY DEF Created
<1>3. \A r \in RoundsOf(c) : r # n => row'[r].status = IF r = gone THEN "cancelled" ELSE row[r].status
  BY <1>1 DEF Created
<1>4. n \in ActiveRounds(c)' /\ n \in Coming(c)'
  BY <1>1, <1>2 DEF ActiveRounds, Coming
<1>5. gone = NoRound => Coming(c)' = Coming(c) \cup {n}
  BY <1>1, <1>2, <1>3 DEF Coming
<1>6. gone # NoRound => Coming(c)' = (Coming(c) \ {gone}) \cup {n}
  BY <1>1, <1>2, <1>3 DEF Coming
<1>7. \A d \in Campaign : d # c => \A r \in RoundsOf(d) : row'[r].status = row[r].status
  BY <1>1, <1>2 DEF Created, RoundsOf
<1> QED
  BY <1>4, <1>5, <1>6, <1>7

\* The round that runs is never the one created, and is not cancelled by the hub.
LEMMA FollowsKeeps ==
    ASSUME CampaignInv, CampaignTypeOK', NEW c \in Campaign, NEW n, NEW gone, NEW at,
           gone \in RoundsOf(c) \cup {NoRound}, Follows(c, n, gone, at),
           runner[c].at # "idle", at \in {"ending", "spawning", "giving_up"},
           gone # NoRound => gone \in Coming(c) /\ gone # runner[c].round /\ ptr'[c] = n,
           ~Trouble(c, {"forked"})' =>
              /\ gone = NoRound => Coming(c) = {}
              /\ at # "giving_up",
           UNCHANGED child, \A d \in Campaign : d # c => read'[d] = read[d],
           at = "giving_up" => trouble' = trouble \cup {<<c, "forked">>},
           at # "giving_up" => UNCHANGED trouble
    PROVE  CampaignInv'
<1>1. CampaignTypeOK /\ CampaignOK(c)
  BY DEF CampaignInv
<1>2. /\ n \in RoundsOf(c) /\ row[n].status \in Terminal /\ ~Named(n)
      /\ row'[n].status = "scheduled" /\ gone # n
      /\ \A r \in Round : r # n => row'[r].status = IF r = gone THEN "cancelled" ELSE row[r].status
  BY DEF Follows, Created
<1>3. /\ n \in ActiveRounds(c)' /\ n \in Coming(c)'
      /\ gone = NoRound => Coming(c)' = Coming(c) \cup {n}
      /\ gone # NoRound => Coming(c)' = (Coming(c) \ {gone}) \cup {n}
      /\ \A d \in Campaign : d # c => \A r \in RoundsOf(d) : row'[r].status = row[r].status
  BY CreatedStatus DEF Follows
<1>4. RoundsOf(c)' = RoundsOf(c) /\ RoundsOf(c) \subseteq Round /\ NoRound \notin RoundsOf(c)
  BY DEF RoundsOf
<1>5. n # runner[c].round /\ n # ptr[c]
  BY <1>2 DEF Named, RoundsOf
<1>6. /\ Trouble(c, {"forked"}) => Trouble(c, {"forked"})'
      /\ Trouble(c, {"cancelled"})' = Trouble(c, {"cancelled"}) /\ Ended(c)' = Ended(c)
      /\ \A d \in Campaign : d # c => \A kind \in Kinds : <<d, kind>> \in trouble' <=> <<d, kind>> \in trouble
  BY DEF Trouble, Ended
<1>7. runner[c].round \in RoundsOf(c) /\ row'[runner[c].round].status = row[runner[c].round].status
  <2>1. runner[c].round \in RoundsOf(c)
    BY <1>1 DEF CampaignOK, PlaceOK
  <2> QED
    BY <2>1, <1>2, <1>4, <1>5
<1>8. PlaceOK(c)'
  <2>1. ptr'[c] \in RoundsOf(c) \cup {NoRound}
    BY <1>1, <1>2 DEF Follows, CampaignOK, PlaceOK
  <2>2. runner'[c].at # "idle" /\ runner'[c].round = runner[c].round
    BY DEF Follows
  <2>3. row[runner[c].round].status \notin {"none", "scheduled"}
    BY <1>1 DEF CampaignOK, PlaceOK
  <2>4. runner'[c].at = "spawning" =>
            /\ runner'[c].next \in RoundsOf(c) /\ row'[runner'[c].next].status # "running"
            /\ ptr'[c] # NoRound
    BY <1>2, <1>4 DEF Follows
  <2> QED
    BY <2>1, <2>2, <2>3, <2>4, <1>4, <1>7 DEF PlaceOK
<1>9. OutOK(c)'
  <2>1. ptr[c] # NoRound => ptr'[c] # NoRound
    BY <1>2, <1>4 DEF Follows
  <2> QED
    BY <1>1, <1>4, <2>1 DEF Follows, CampaignOK, OutOK
<1>10. PointerOK(c)'
  <2>1. CASE ptr'[c] = n
    BY <2>1, <1>2 DEF PointerOK
  <2>2. CASE ptr'[c] = ptr[c] /\ ptr'[c] # n
    <3>1. gone = NoRound
      BY <2>2
    <3>2. ptr[c] \in Round => row'[ptr[c]].status = row[ptr[c]].status
      BY <1>2, <1>4, <1>5, <3>1
    <3>3. ptr[c] \in Round \cup {NoRound}
      BY <1>1, <1>4 DEF CampaignOK, PlaceOK
    <3> QED
      BY <2>2, <3>2, <3>3, <1>1, <1>6 DEF CampaignOK, PointerOK
  <2> QED
    BY <2>1, <2>2 DEF Follows
<1>11. OneOK(c)'
  <2>1. ASSUME ~Trouble(c, {"forked"})' PROVE Coming(c)' = {n}
    <3>1. CASE gone = NoRound
      BY <2>1, <3>1, <1>3
    <3>2. CASE gone # NoRound
      <4>1. \A r \in Coming(c) : r = gone
        BY <2>1, <3>2, <1>1, <1>6 DEF CampaignOK, OneOK
      <4> QED
        BY <3>2, <4>1, <1>3
    <3> QED
      BY <3>1, <3>2
  <2>2. ~Trouble(c, {"forked"})' => runner'[c].at \notin {"asking", "complete", "fallback", "giving_up"}
    BY DEF Follows
  <2> QED
    BY <2>1, <2>2 DEF OneOK
<1>12. AliveOK(c)'
  <2>1. runner'[c].at \in {"ending", "spawning", "giving_up"} /\ runner'[c].round = runner[c].round
    BY DEF Follows
  <2>2. row[runner[c].round].status \in Terminal => Ended(c)
    BY <1>1 DEF CampaignOK, AliveOK
  <2> QED
    BY <1>3, <1>6, <1>7, <2>1, <2>2 DEF AliveOK
<1>13. \A d \in Campaign : d # c => Untouched(d)
  BY <1>3, <1>6 DEF Follows, Untouched
<1> QED
  BY <1>8, <1>9, <1>10, <1>11, <1>12, <1>13, OneCampaign DEF CampaignOK

LEMMA RunnerMoves ==
    ASSUME runner \in [Campaign -> RunnerRecord], NEW c \in Campaign, NEW at \in Places,
           runner' = [runner EXCEPT ![c].at = at]
    PROVE  /\ runner' \in [Campaign -> RunnerRecord] /\ runner'[c].at = at
           /\ runner'[c].targets = runner[c].targets /\ runner'[c].round = runner[c].round
           /\ \A d \in Campaign : d # c => runner'[d] = runner[d]
BY DEF RunnerRecord

\* A round that has not asked yet, and that the hub has not ended, has no follow-up.
LEMMA NothingComing ==
    ASSUME CampaignInv, NEW c \in Campaign,
           runner[c].at \in {"asking", "complete", "fallback", "giving_up"},
           row[runner[c].round].status \notin Terminal, ~Trouble(c, {"forked"})
    PROVE  Coming(c) = {}
BY DEF CampaignInv, CampaignOK, OneOK

\* Rescheduling the round that runs creates the one round to come.
LEMMA RoundReschedules ==
    ASSUME CampaignInv, NEW c \in Campaign, NEW claims \in SUBSET Target, NEW at,
           runner[c].at \in {"complete", "fallback", "giving_up"},
           at \in {"ending", "spawning", "giving_up"},
           Reschedule(c, runner[c].round, claims),
           runner' \in [Campaign -> RunnerRecord], runner'[c].at = at,
           runner'[c].targets = runner[c].targets, runner'[c].round = runner[c].round,
           at = "spawning" => runner'[c].next = NewRow(c),
           \A d \in Campaign : d # c => runner'[d] = runner[d] /\ read'[d] = read[d],
           read' \in [Campaign -> SUBSET Target], faults' \in 0 .. MaxFaults, UNCHANGED child,
           at = "giving_up" => trouble' = trouble \cup {<<c, "forked">>},
           at # "giving_up" => UNCHANGED trouble
    PROVE  CampaignInv'
<1>1. CampaignTypeOK /\ CampaignOK(c)
  BY DEF CampaignInv
<1>2. runner[c].round \in RoundsOf(c) /\ row[runner[c].round].status # "scheduled"
  BY <1>1 DEF CampaignOK, PlaceOK
<1>3. /\ row' \in [Round -> RowRecord] /\ ptr' = [ptr EXCEPT ![c] = NewRow(c)]
      /\ ptr' \in [Campaign -> Round \cup {NoRound}]
      /\ Created(c, NewRow(c), NoRound) /\ row[runner[c].round].status \notin Terminal
  BY <1>1, <1>2, Rescheduled DEF Source
<1>4. ptr'[c] = NewRow(c) /\ \A d \in Campaign : d # c => ptr'[d] = ptr[d]
  BY <1>1, <1>3, Parts
<1>5. trouble' \subseteq Campaign \X Kinds
  BY <1>1, Parts DEF Kinds
<1>6. CampaignTypeOK'
  BY <1>1, <1>3, <1>5, Parts, PartsNext
<1>7. Follows(c, NewRow(c), NoRound, at)
  BY <1>3, <1>4 DEF Follows
<1>8. ~Trouble(c, {"forked"})' => Coming(c) = {} /\ at # "giving_up"
  <2>1. Trouble(c, {"forked"}) \/ at = "giving_up" => Trouble(c, {"forked"})'
    BY DEF Trouble
  <2> QED
    BY <2>1, <1>3, NothingComing
<1>9. PICK n : n = NewRow(c)
  OBVIOUS
<1> QED
  BY <1>6, <1>7, <1>8, <1>9, FollowsKeeps

LEMMA CompleteKeeps ==
    ASSUME CampaignInv, NEW c \in Campaign, Complete(c)
    PROVE  CampaignInv'
<1>1. CampaignTypeOK /\ CampaignOK(c)
  BY DEF CampaignInv
<1>2. /\ runner[c].at = "complete" /\ runner' = [runner EXCEPT ![c].at = "ending"]
      /\ UNCHANGED <<child, trouble, faults>>
  BY DEF Complete
<1>3. /\ runner' \in [Campaign -> RunnerRecord] /\ runner'[c].at = "ending"
      /\ runner'[c].targets = runner[c].targets /\ runner'[c].round = runner[c].round
      /\ \A d \in Campaign : d # c => runner'[d] = runner[d]
  BY <1>1, <1>2, Parts, RunnerMoves DEF Places
<1>4. CASE Reschedule(c, runner[c].round, {}) /\ read' = [read EXCEPT ![c] = {}]
  <2>1. /\ \A d \in Campaign : d # c => read'[d] = read[d]
        /\ read' \in [Campaign -> SUBSET Target]
    BY <1>1, <1>4, Parts
  <2>2. faults' \in 0 .. MaxFaults
    BY <1>1, <1>2, Parts
  <2> QED
    BY <1>2, <1>3, <1>4, <2>1, <2>2, RoundReschedules
<1>5. CASE UNCHANGED <<row, ptr, read>>
  <2>1. Target \subseteq read[c]
    BY <1>1, <1>2 DEF CampaignOK, AliveOK
  <2>2. RunnerGoes(c, "ending")
    BY <1>2, <1>5 DEF RunnerGoes
  <2>3. faults' \in 0 .. MaxFaults
    BY <1>1, <1>2, Parts
  <2> QED
    BY <1>2, <2>1, <2>2, <2>3, RunnerGoesKeeps
<1> QED
  BY <1>4, <1>5 DEF Complete

LEMMA ProjectedType ==
    ASSUME runner \in [Campaign -> RunnerRecord], NEW c \in Campaign, NEW claims \in Projected(c)
    PROVE  claims \in SUBSET Target
<1>1. PICK s \in SUBSET runner[c].targets : claims = runner[c].claims \cup s
  BY DEF Projected, kSubset
<1> QED
  BY <1>1 DEF RunnerRecord

LEMMA CreateFallbackKeeps ==
    ASSUME CampaignInv, NEW c \in Campaign, CreateFallback(c)
    PROVE  CampaignInv'
<1>1. CampaignTypeOK /\ CampaignOK(c)
  BY DEF CampaignInv
<1>2. PICK claims \in Projected(c) : Reschedule(c, runner[c].round, claims)
  BY DEF CreateFallback
<1>3. claims \in SUBSET Target
  BY <1>1, Parts, ProjectedType
<1>4. PICK at \in {"ending", "spawning"}, n \in {NewRow(c)} : at = AfterFallback(c)
  BY DEF AfterFallback
<1>5. /\ runner[c].at = "fallback" /\ UNCHANGED <<child, read, trouble, faults>>
      /\ runner' = [runner EXCEPT ![c].at = at, ![c].next = n]
  BY <1>4 DEF CreateFallback
<1>6. n \in Round
  BY <1>2, <1>4, NewRowIsFree DEF Reschedule, FreeRows, RoundsOf
<1>7. /\ runner' \in [Campaign -> RunnerRecord] /\ runner'[c].at = at /\ runner'[c].next = n
      /\ runner'[c].targets = runner[c].targets /\ runner'[c].round = runner[c].round
      /\ \A d \in Campaign : d # c => runner'[d] = runner[d]
  <2>1. runner \in [Campaign -> RunnerRecord]
    BY <1>1, Parts
  <2>2. PICK old \in RunnerRecord : old = runner[c]
    BY <2>1
  <2>3. runner' = [runner EXCEPT ![c] = [old EXCEPT !.at = at, !.next = n]]
    BY <1>5, <2>1, <2>2
  <2>4. PICK goes : goes = [old EXCEPT !.at = at, !.next = n]
    OBVIOUS
  <2>5. /\ goes \in RunnerRecord /\ goes.at = at /\ goes.next = n
        /\ goes.targets = old.targets /\ goes.round = old.round
    BY <1>4, <1>6, <2>4 DEF RunnerRecord, Places
  <2> QED
    BY <2>1, <2>2, <2>3, <2>4, <2>5
<1>8. read' \in [Campaign -> SUBSET Target] /\ faults' \in 0 .. MaxFaults
  BY <1>1, <1>5, Parts
<1> QED
  BY <1>2, <1>3, <1>4, <1>5, <1>7, <1>8, RoundReschedules

LEMMA FallbackUnknownKeeps ==
    ASSUME CampaignInv, NEW c \in Campaign, FallbackUnknown(c)
    PROVE  CampaignInv'
<1>1. CampaignTypeOK /\ CampaignOK(c)
  BY DEF CampaignInv
<1>2. /\ runner[c].at = "fallback" /\ UNCHANGED <<child, read>>
      /\ runner' = [runner EXCEPT ![c].at = "giving_up"]
  BY DEF FallbackUnknown
<1>3. /\ runner' \in [Campaign -> RunnerRecord] /\ runner'[c].at = "giving_up"
      /\ runner'[c].targets = runner[c].targets /\ runner'[c].round = runner[c].round
      /\ \A d \in Campaign : d # c => runner'[d] = runner[d]
  BY <1>1, <1>2, Parts, RunnerMoves DEF Places
<1>4. read' \in [Campaign -> SUBSET Target] /\ faults' \in 0 .. MaxFaults
  BY <1>1, <1>2, Parts, FaultType DEF FallbackUnknown
<1>5. CASE /\ \E claims \in Projected(c) : Reschedule(c, runner[c].round, claims)
           /\ trouble' = trouble \cup {<<c, "forked">>}
  <2>1. PICK claims \in Projected(c) : Reschedule(c, runner[c].round, claims)
    BY <1>5
  <2>2. claims \in SUBSET Target
    BY <1>1, Parts, ProjectedType
  <2>3. trouble' = trouble \cup {<<c, "forked">>}
    BY <1>5
  <2> QED
    BY <1>2, <1>3, <1>4, <2>1, <2>2, <2>3, RoundReschedules
<1>6. CASE UNCHANGED <<row, ptr, trouble>>
  <2>1. RunnerGoes(c, "giving_up")
    BY <1>2, <1>6 DEF RunnerGoes
  <2> QED
    BY <1>4, <1>6, <2>1, RunnerGoesKeeps
<1> QED
  BY <1>5, <1>6 DEF FallbackUnknown

LEMMA FallbackRefusedKeeps ==
    ASSUME CampaignInv, NEW c \in Campaign, FallbackRefused(c)
    PROVE  CampaignInv'
<1>1. RunnerGoes(c, "giving_up") /\ UNCHANGED <<trouble, faults>>
  BY DEF FallbackRefused, RunnerGoes
<1>2. faults' \in 0 .. MaxFaults
  BY <1>1, Parts DEF CampaignInv
<1> QED
  BY <1>1, <1>2, RunnerGoesKeeps

LEMMA GiveUpKeeps ==
    ASSUME CampaignInv, NEW c \in Campaign, GiveUp(c)
    PROVE  CampaignInv'
<1>1. CampaignTypeOK /\ CampaignOK(c)
  BY DEF CampaignInv
<1>2. /\ runner[c].at = "giving_up" /\ runner' = [runner EXCEPT ![c].at = "ending"]
      /\ UNCHANGED <<child, read, trouble, faults>>
  BY DEF GiveUp
<1>3. /\ runner' \in [Campaign -> RunnerRecord] /\ runner'[c].at = "ending"
      /\ runner'[c].targets = runner[c].targets /\ runner'[c].round = runner[c].round
      /\ \A d \in Campaign : d # c => runner'[d] = runner[d]
  BY <1>1, <1>2, Parts, RunnerMoves DEF Places
<1>4. read' \in [Campaign -> SUBSET Target] /\ faults' \in 0 .. MaxFaults
  BY <1>1, <1>2, Parts
<1>5. CASE row[runner[c].round].status \notin Terminal
  <2>1. PICK claims \in SUBSET Target : claims = runner[c].claims
    BY <1>1, Parts DEF RunnerRecord
  <2>2. Reschedule(c, runner[c].round, claims)
    BY <1>5, <2>1 DEF GiveUp
  <2> QED
    BY <1>2, <1>3, <1>4, <2>2, RoundReschedules
<1>6. CASE row[runner[c].round].status \in Terminal
  <2>1. RunnerGoes(c, "ending")
    BY <1>2, <1>6 DEF RunnerGoes, GiveUp
  <2> QED
    BY <1>2, <1>4, <1>6, <2>1, RunnerGoesKeeps
<1> QED
  BY <1>5, <1>6

LEMMA SyncClaimsKeeps ==
    ASSUME CampaignInv, NEW c \in Campaign, SyncClaims(c)
    PROVE  CampaignInv'
<1>1. CampaignTypeOK /\ CampaignOK(c)
  BY DEF CampaignInv
<1>2. /\ runner[c].at = "spawning" /\ runner' = [runner EXCEPT ![c].at = "ending"]
      /\ UNCHANGED <<child, read, trouble>>
  BY DEF SyncClaims
<1>3. /\ runner' \in [Campaign -> RunnerRecord] /\ runner'[c].at = "ending"
      /\ runner'[c].targets = runner[c].targets /\ runner'[c].round = runner[c].round
      /\ \A d \in Campaign : d # c => runner'[d] = runner[d]
  BY <1>1, <1>2, Parts, RunnerMoves DEF Places
<1>4. PICK s : s = runner[c].next
  OBVIOUS
<1>5. s \in RoundsOf(c) /\ s \in Round /\ row[s].status # "running"
  BY <1>1, <1>2, <1>4 DEF CampaignOK, PlaceOK, RoundsOf
<1>6. CASE Reschedule(c, s, runner[c].claims) /\ UNCHANGED faults
  <2>1. PICK claims \in SUBSET Target : claims = runner[c].claims
    BY <1>1, Parts DEF RunnerRecord
  <2>2. /\ row' \in [Round -> RowRecord] /\ ptr' = [ptr EXCEPT ![c] = NewRow(c)]
        /\ ptr' \in [Campaign -> Round \cup {NoRound}]
        /\ Created(c, NewRow(c), Source(s)) /\ row[s].status \notin Terminal
    BY <1>1, <1>5, <1>6, <2>1, Rescheduled
  <2>3. row[s].status = "scheduled" /\ Source(s) = s /\ s \in Coming(c)
    <3>1. row[s].status \in Status
      BY <1>1, <1>5, Parts DEF RowRecord
    <3> QED
      BY <3>1, <2>2, <1>5 DEF Source, Coming, Status
  <2>4. runner[c].round # s
    BY <1>1, <1>2, <2>3 DEF CampaignOK, PlaceOK
  <2>5. ptr'[c] = NewRow(c) /\ \A d \in Campaign : d # c => ptr'[d] = ptr[d]
    BY <1>1, <2>2, Parts
  <2>6. CampaignTypeOK'
    BY <1>1, <1>2, <1>3, <1>6, <2>2, Parts, PartsNext
  <2>7. Follows(c, NewRow(c), s, "ending")
    BY <1>3, <2>2, <2>3, <2>5 DEF Follows
  <2>8. s # NoRound
    BY <1>5
  <2>9. PICK n : n = NewRow(c)
    OBVIOUS
  <2> QED
    BY <1>2, <1>5, <2>3, <2>4, <2>5, <2>6, <2>7, <2>8, <2>9, FollowsKeeps
<1>7. CASE UNCHANGED <<row, ptr>> /\ (UNCHANGED faults \/ Fault)
  <2>1. RunnerGoes(c, "ending")
    BY <1>2, <1>7 DEF RunnerGoes
  <2>2. faults' \in 0 .. MaxFaults
    BY <1>1, <1>7, Parts, FaultType
  <2> QED
    BY <1>2, <2>1, <2>2, RunnerGoesKeeps
<1> QED
  BY <1>4, <1>6, <1>7 DEF SyncClaims

\* Steps after which the agent executes nothing: the round itself changes at most.
LEMMA RoundLeaves ==
    ASSUME CampaignInv, NEW c \in Campaign, runner[c].at # "idle",
           runner' = [runner EXCEPT ![c] = Idle],
           row' \in [Round -> RowRecord], faults' \in 0 .. MaxFaults,
           \A r \in Round : r # runner[c].round => row'[r].status = row[r].status,
           \/ row'[runner[c].round].status = row[runner[c].round].status
           \/ /\ row[runner[c].round].status \notin Terminal
              /\ \/ row'[runner[c].round].status = "finished" /\ runner[c].at = "ending"
                 \/ row'[runner[c].round].status = "scheduled" /\ runner[c].at = "asking",
           UNCHANGED <<ptr, child, read>>, UNCHANGED trouble \/ trouble' = trouble \cup {<<c, "lost">>}
    PROVE  CampaignInv'
<1>1. CampaignTypeOK /\ CampaignOK(c)
  BY DEF CampaignInv
<1>2. PICK r \in RoundsOf(c) : r = runner[c].round
  BY <1>1 DEF CampaignOK, PlaceOK
<1>3. RoundsOf(c)' = RoundsOf(c) /\ RoundsOf(c) \subseteq Round /\ row[r].status # "scheduled"
  BY <1>1, <1>2 DEF RoundsOf, CampaignOK, PlaceOK
<1>4. /\ runner' \in [Campaign -> RunnerRecord] /\ runner'[c] = Idle
      /\ \A d \in Campaign : d # c => runner'[d] = runner[d]
  <2>1. Idle \in RunnerRecord
    BY DEF Idle, RunnerRecord, Places
  <2> QED
    BY <1>1, <2>1, Parts
<1>5. trouble' \subseteq Campaign \X Kinds
  BY <1>1, Parts DEF Kinds
<1>6. CampaignTypeOK'
  BY <1>1, <1>4, <1>5, Parts, PartsNext
<1>7. /\ Trouble(c, {"forked"})' = Trouble(c, {"forked"}) /\ (Ended(c) => Ended(c)')
      /\ Trouble(c, {"cancelled"})' = Trouble(c, {"cancelled"})
      /\ \A d \in Campaign : d # c => \A kind \in Kinds : <<d, kind>> \in trouble' <=> <<d, kind>> \in trouble
  BY DEF Trouble, Ended
<1>8. Idle.at = "idle" /\ Idle.targets = {}
  BY DEF Idle
<1>9. PlaceOK(c)'
  BY <1>1, <1>3, <1>4, <1>8 DEF CampaignOK, PlaceOK
<1>10. OutOK(c)'
  BY <1>1, <1>3, <1>4, <1>8 DEF CampaignOK, OutOK
<1>11. PointerOK(c)'
  <2>1. ptr[c] \in Round \cup {NoRound}
    BY <1>1, <1>3 DEF CampaignOK, PlaceOK
  <2>2. \A q \in Round : row'[q].status = "cancelled" => row[q].status = "cancelled"
    BY <1>2
  <2> QED
    BY <1>1, <1>7, <2>1, <2>2 DEF CampaignOK, PointerOK
<1>12. Coming(c)' = Coming(c) \/ (Coming(c)' = Coming(c) \cup {r} /\ runner[c].at = "asking"
                                    /\ row[r].status \notin Terminal)
  BY <1>2, <1>3 DEF Coming
<1>13. OneOK(c)'
  <2>1. ~Trouble(c, {"forked"}) /\ Coming(c)' # Coming(c) => Coming(c)' = {r}
    BY <1>2, <1>12, NothingComing
  <2> QED
    BY <1>1, <1>4, <1>7, <1>8, <2>1 DEF CampaignOK, OneOK
<1>14. AliveOK(c)'
  <2>1. CASE Coming(c)' # {}
    BY <2>1, <1>3, <1>4, <1>8 DEF AliveOK, ActiveRounds, Coming
  <2>2. CASE Coming(c)' = {}
    <3>1. Coming(c) = {}
      BY <2>2, <1>12
    <3>2. row'[r].status = "finished" => Target \subseteq read[c] \/ Ended(c)
      BY <1>1, <1>2, <1>3, <3>1 DEF CampaignOK, AliveOK
    <3>3. row'[r].status = row[r].status => ActiveRounds(c)' = ActiveRounds(c)
      BY <1>2, <1>3 DEF ActiveRounds
    <3>4. row'[r].status # "scheduled"
      BY <2>2, <1>3 DEF Coming
    <3> QED
      BY <1>1, <1>2, <1>4, <1>7, <1>8, <3>2, <3>3, <3>4 DEF CampaignOK, AliveOK
  <2> QED
    BY <2>1, <2>2
<1>15. \A d \in Campaign : d # c => Untouched(d)
  BY <1>2, <1>4, <1>7 DEF Untouched, RoundsOf
<1> QED
  BY <1>6, <1>9, <1>10, <1>11, <1>13, <1>14, <1>15, OneCampaign DEF CampaignOK

LEMMA AskFailsKeeps ==
    ASSUME CampaignInv, NEW c \in Campaign, AskFails(c)
    PROVE  CampaignInv'
<1>1. CampaignTypeOK /\ CampaignOK(c)
  BY DEF CampaignInv
<1>2. PICK r \in RoundsOf(c) : r = runner[c].round
  BY <1>1 DEF AskFails, CampaignOK, PlaceOK
<1>3. /\ runner[c].at = "asking" /\ UNCHANGED <<ptr, child, read, trouble>>
      /\ faults' \in 0 .. MaxFaults
  BY <1>1, Parts, FaultType DEF AskFails
<1>4. r \in Round /\ row \in [Round -> RowRecord] /\ row[r].status \in Status \ {"none", "scheduled"}
  BY <1>1, <1>2, <1>3, Parts DEF RoundsOf, RowRecord, CampaignOK, PlaceOK
<1>5. CASE r[2] = 1 /\ row[r].status = "running"
  <2>1. PICK fresh : fresh = [Empty EXCEPT !.status = "scheduled"]
    OBVIOUS
  <2>2. row' = [row EXCEPT ![r] = fresh] /\ runner' = [runner EXCEPT ![c] = Idle]
    BY <1>2, <1>5, <2>1 DEF AskFails
  <2>3. fresh \in RowRecord /\ fresh.status = "scheduled"
    BY <2>1 DEF Empty, RowRecord, Status
  <2>4. /\ row' \in [Round -> RowRecord] /\ row'[r].status = "scheduled"
        /\ \A q \in Round : q # r => row'[q].status = row[q].status
    <3> HIDE DEF RowRecord
    <3> QED
      BY <1>4, <2>2, <2>3
  <2> QED
    BY <1>2, <1>3, <1>5, <2>2, <2>4, RoundLeaves
<1>6. CASE r[2] # 1 /\ row[r].status = "running"
  <2>1. PICK new : new = Scheduled(row[r].claims)
    OBVIOUS
  <2>2. /\ FreeRows(c) # {} /\ row' = [row EXCEPT ![NewRow(c)] = new]
        /\ runner' = [runner EXCEPT ![c].at = "ending"]
    BY <1>2, <1>6, <2>1 DEF AskFails
  <2>3. new \in RowRecord /\ new.status = "scheduled"
    BY <1>4, <2>1, ScheduledType DEF RowRecord
  <2>4. row' \in [Round -> RowRecord] /\ Created(c, NewRow(c), NoRound)
    BY <1>1, <2>2, <2>3, NewRound
  <2>5. /\ runner' \in [Campaign -> RunnerRecord] /\ runner'[c].at = "ending"
        /\ runner'[c].targets = runner[c].targets /\ runner'[c].round = runner[c].round
        /\ \A d \in Campaign : d # c => runner'[d] = runner[d]
    BY <1>1, <2>2, Parts, RunnerMoves DEF Places
  <2>6. CampaignTypeOK'
    BY <1>1, <1>3, <2>4, <2>5, Parts, PartsNext
  <2>7. Follows(c, NewRow(c), NoRound, "ending")
    BY <1>3, <2>4, <2>5 DEF Follows
  <2>8. ~Trouble(c, {"forked"})' => Coming(c) = {}
    <3>1. Trouble(c, {"forked"})' = Trouble(c, {"forked"})
      BY <1>3 DEF Trouble
    <3> QED
      BY <3>1, <1>2, <1>3, <1>6, NothingComing
  <2>9. PICK n : n = NewRow(c)
    OBVIOUS
  <2> QED
    BY <1>3, <2>6, <2>7, <2>8, <2>9, FollowsKeeps
<1>7. CASE row[r].status # "running"
  <2>1. RunnerGoes(c, "ending")
    BY <1>2, <1>3, <1>7 DEF AskFails, RunnerGoes
  <2>2. row[r].status \in Terminal
    BY <1>4, <1>7 DEF Status
  <2> QED
    BY <1>2, <1>3, <2>1, <2>2, RunnerGoesKeeps
<1> QED
  BY <1>5, <1>6, <1>7

LEMMA EndRoundKeeps ==
    ASSUME CampaignInv, NEW c \in Campaign, EndRound(c)
    PROVE  CampaignInv'
<1>1. CampaignTypeOK /\ CampaignOK(c)
  BY DEF CampaignInv
<1>2. PICK r \in RoundsOf(c) : r = runner[c].round
  BY <1>1 DEF EndRound, CampaignOK, PlaceOK
<1>3. r \in Round /\ row \in [Round -> RowRecord]
  BY <1>1, <1>2, Parts DEF RoundsOf
<1>4. PICK old \in RowRecord : old = row[r]
  BY <1>3
<1>5. PICK status \in Status : status = IF old.status = "running" THEN "finished" ELSE old.status
  BY DEF RowRecord, Status
<1>6. PICK over : over = [old EXCEPT !.status = status]
  OBVIOUS
<1>7. row' = [row EXCEPT ![r] = over] /\ over \in RowRecord /\ over.status = status
  <2>1. row' = [row EXCEPT ![r].status = IF @ = "running" THEN "finished" ELSE @]
    BY <1>2 DEF EndRound
  <2> QED
    BY <2>1, <1>3, <1>4, <1>5, <1>6 DEF RowRecord
<1>8. /\ row' \in [Round -> RowRecord] /\ row'[r].status = status
      /\ \A q \in Round : q # r => row'[q].status = row[q].status
  <2> HIDE DEF RowRecord
  <2> QED
    BY <1>3, <1>7
<1>9. faults' \in 0 .. MaxFaults
  BY <1>1, Parts DEF EndRound
<1>10. /\ runner[c].at = "ending" /\ runner' = [runner EXCEPT ![c] = Idle]
       /\ UNCHANGED <<ptr, child, read, trouble>>
  BY DEF EndRound
<1> QED
  BY <1>2, <1>4, <1>5, <1>8, <1>9, <1>10, RoundLeaves

LEMMA RoundLostKeeps ==
    ASSUME CampaignInv, NEW c \in Campaign, RoundLost(c)
    PROVE  CampaignInv'
<1>1. row' \in [Round -> RowRecord] /\ faults' \in 0 .. MaxFaults
  BY Parts, FaultType DEF CampaignInv, RoundLost
<1>2. runner[c].at # "idle"
  BY DEF CampaignInv, CampaignOK, PlaceOK, RoundLost
<1>3. /\ UNCHANGED <<row, ptr, child, read>> /\ trouble' = trouble \cup {<<c, "lost">>}
      /\ runner' = [runner EXCEPT ![c] = Idle]
  BY DEF RoundLost
<1> QED
  BY <1>1, <1>2, <1>3, RoundLeaves

\* The hub ends a round that an agent may still execute: its lease expired, or an operator
\* cancelled it.
LEMMA RoundStops ==
    ASSUME CampaignInv, NEW r \in Round, RecoverRound(r) \/ CancelRound(r)
    PROVE  CampaignInv'
<1>1. PICK c \in Campaign : c = r[1]
  OBVIOUS
<1>2. CampaignTypeOK /\ CampaignOK(c)
  BY DEF CampaignInv
<1>3. PICK status \in {"error", "cancelled"}, kind \in {"lost", "cancelled"} :
         /\ row' = [row EXCEPT ![r].status = status] /\ trouble' = trouble \cup {<<c, kind>>}
         /\ status = "cancelled" => kind = "cancelled"
  BY <1>1 DEF RecoverRound, CancelRound
<1>4. row \in [Round -> RowRecord] /\ UNCHANGED <<ptr, runner, child, read>>
  BY <1>2, Parts DEF RecoverRound, CancelRound
<1>5. /\ row' \in [Round -> RowRecord] /\ row'[r].status = status
      /\ \A q \in Round : q # r => row'[q] = row[q]
  <2>1. PICK old \in RowRecord : old = row[r]
    BY <1>4
  <2>2. PICK over : over = [old EXCEPT !.status = status]
    OBVIOUS
  <2>3. over \in RowRecord /\ over.status = status
    BY <2>2 DEF RowRecord, Status
  <2>4. row' = [row EXCEPT ![r] = over]
    BY <1>3, <1>4, <2>1, <2>2
  <2> HIDE DEF RowRecord
  <2> QED
    BY <1>4, <2>3, <2>4
<1>6. faults' \in 0 .. MaxFaults
  <2>1. Fault \/ UNCHANGED faults
    BY DEF RecoverRound, CancelRound
  <2> QED
    BY <1>2, <2>1, Parts, FaultType
<1>7. trouble' \subseteq Campaign \X Kinds
  BY <1>2, <1>3, Parts DEF Kinds
<1>8. CampaignTypeOK'
  BY <1>2, <1>4, <1>5, <1>6, <1>7, Parts, PartsNext
<1>9. RoundsOf(c)' = RoundsOf(c) /\ r \in RoundsOf(c) /\ RoundsOf(c) \subseteq Round
  BY <1>1 DEF RoundsOf
<1>10. /\ Trouble(c, {"forked"})' = Trouble(c, {"forked"}) /\ Ended(c)'
       /\ (Trouble(c, {"cancelled"}) => Trouble(c, {"cancelled"})')
       /\ (status = "cancelled" => Trouble(c, {"cancelled"})')
       /\ \A d \in Campaign : d # c => \A k \in Kinds : <<d, k>> \in trouble' <=> <<d, k>> \in trouble
  BY <1>3 DEF Trouble, Ended
<1>11. PlaceOK(c)'
  BY <1>2, <1>4, <1>5, <1>9 DEF CampaignOK, PlaceOK
<1>12. OutOK(c)'
  BY <1>2, <1>4, <1>9 DEF CampaignOK, OutOK
<1>13. PointerOK(c)'
  <2>1. ptr[c] \in Round \cup {NoRound}
    BY <1>2, <1>9 DEF CampaignOK, PlaceOK
  <2> QED
    BY <1>2, <1>4, <1>5, <1>10, <2>1 DEF CampaignOK, PointerOK
<1>14. OneOK(c)'
  <2>1. Coming(c)' \subseteq Coming(c)
    BY <1>5, <1>9 DEF Coming
  <2>2. runner[c].at # "idle" => runner[c].round \in Round
    BY <1>2, <1>9 DEF CampaignOK, PlaceOK
  <2>3. runner[c].at # "idle" /\ row'[runner[c].round].status \notin Terminal =>
            row[runner[c].round].status \notin Terminal
    BY <1>5, <2>2
  <2> QED
    BY <1>2, <1>4, <1>10, <2>1, <2>3 DEF CampaignOK, OneOK
<1>15. AliveOK(c)'
  BY <1>2, <1>4, <1>10 DEF CampaignOK, AliveOK
<1>16. \A d \in Campaign : d # c => Untouched(d)
  BY <1>1, <1>4, <1>5, <1>10 DEF Untouched, RoundsOf
<1> QED
  BY <1>8, <1>11, <1>12, <1>13, <1>14, <1>15, <1>16, OneCampaign DEF CampaignOK

-----------------------------------------------------------------------------
(* The children *)

\* What a step of a child of c does: the child changes, and nothing of the rounds but
\* their inboxes, the pointer unless it stays on a round that is not cancelled.
ChildChanges(c, t, now) ==
    /\ child' = [child EXCEPT ![<<c, t>>] = now]
    /\ \A r \in Round : row'[r].status = row[r].status
    /\ \A d \in Campaign : read[d] \subseteq read'[d]
    /\ \A d \in Campaign : d # c => ptr'[d] = ptr[d]
    /\ \/ ptr'[c] = ptr[c]
       \/ ptr'[c] \in RoundsOf(c) /\ row[ptr'[c]].status # "cancelled"
    /\ UNCHANGED <<runner, trouble>>

LEMMA ChildChangesKeeps ==
    ASSUME CampaignInv, CampaignTypeOK', NEW c \in Campaign, NEW t \in Target, NEW now \in ChildRecord,
           ChildChanges(c, t, now), child[<<c, t>>].at # "away",
           now.at = "noting" => now.ptr \in RoundsOf(c)
    PROVE  CampaignInv'
<1>1. CampaignTypeOK /\ CampaignOK(c) /\ child \in [Child -> ChildRecord]
  BY Parts DEF CampaignInv
<1>2. /\ RoundsOf(c)' = RoundsOf(c) /\ RoundsOf(c) \subseteq Round
      /\ Coming(c)' = Coming(c) /\ ActiveRounds(c)' = ActiveRounds(c)
      /\ Trouble(c, {"forked"})' = Trouble(c, {"forked"}) /\ Ended(c)' = Ended(c)
      /\ Trouble(c, {"cancelled"})' = Trouble(c, {"cancelled"})
  BY DEF ChildChanges, RoundsOf, Coming, ActiveRounds, Trouble, Ended
<1>3. /\ child'[<<c, t>>] = now
      /\ \A d \in Campaign, u \in Target : d # c \/ u # t => child'[<<d, u>>] = child[<<d, u>>]
  BY <1>1 DEF ChildChanges
<1>4. ptr[c] # NoRound /\ ptr'[c] # NoRound
  BY <1>1, <1>2 DEF CampaignOK, OutOK, ChildChanges
<1>5. t \notin runner[c].targets
  BY <1>1 DEF CampaignOK, OutOK
<1>6. PlaceOK(c)'
  BY <1>1, <1>2, <1>4 DEF CampaignOK, PlaceOK, ChildChanges
<1>7. OutOK(c)'
  BY <1>1, <1>2, <1>3, <1>4, <1>5 DEF CampaignOK, OutOK, ChildChanges
<1>8. PointerOK(c)'
  BY <1>1, <1>2, <1>4 DEF CampaignOK, PlaceOK, PointerOK, ChildChanges
<1>9. OneOK(c)'
  BY <1>1, <1>2 DEF CampaignOK, PlaceOK, OneOK, ChildChanges
<1>10. AliveOK(c)'
  BY <1>1, <1>2 DEF CampaignOK, PlaceOK, AliveOK, ChildChanges
<1>11. \A d \in Campaign : d # c => Untouched(d)
  BY <1>3 DEF ChildChanges, Untouched, RoundsOf
<1> QED
  BY <1>6, <1>7, <1>8, <1>9, <1>10, <1>11, OneCampaign DEF CampaignOK

LEMMA ChildName ==
    ASSUME NEW k \in Child
    PROVE  \E c \in Campaign, t \in Target : c = k[1] /\ t = k[2] /\ k = <<c, t>>
<1>1. \A c \in Campaign, t \in Target : k = <<c, t>> => c = k[1] /\ t = k[2]
  OBVIOUS
<1>2. \E c \in Campaign, t \in Target : k = <<c, t>>
  OBVIOUS
<1> QED
  BY <1>1, <1>2, Zenon

\* The record a child gets.
ChildAts == {"away", "out", "telling", "noting", "reviving", "told"}
LEMMA ChildNow ==
    ASSUME NEW old \in ChildRecord, NEW at \in ChildAts, NEW now, now = [old EXCEPT !.at = at]
    PROVE  now \in ChildRecord /\ now.at = at
BY DEF ChildRecord, ChildAts

LEMMA AwayNow == Away \in ChildRecord /\ Away.at = "away"
BY DEF Away, ChildRecord

\* Steps of a child that leave the hub's rows alone.
LEMMA QuietChildStep ==
    ASSUME CampaignInv, NEW k \in Child, NEW now \in ChildRecord,
           child[k].at # "away", child' = [child EXCEPT ![k] = now],
           now.at = "noting" => now.ptr \in RoundsOf(k[1]),
           UNCHANGED <<row, ptr, runner, trouble>>, faults' \in 0 .. MaxFaults,
           read' \in [Campaign -> SUBSET Target],
           \A d \in Campaign : read[d] \subseteq read'[d]
    PROVE  CampaignInv'
<1>1. PICK c \in Campaign, t \in Target : c = k[1] /\ t = k[2] /\ k = <<c, t>>
  BY ChildName
<1>2. ChildChanges(c, t, now)
  BY <1>1 DEF ChildChanges
<1>3. CampaignTypeOK'
  <2>1. child' \in [Child -> ChildRecord]
    BY Parts DEF CampaignInv
  <2> QED
    BY <2>1, Parts, PartsNext DEF CampaignInv
<1> QED
  BY <1>1, <1>2, <1>3, ChildChangesKeeps

LEMMA ToldNow ==
    ASSUME CampaignInv, NEW k \in Child, child' = Told(k)
    PROVE  \E now \in ChildRecord : child' = [child EXCEPT ![k] = now] /\ now.at \in {"out", "told"}
<1>1. PICK at \in {"out", "told"} : at = AfterNotice(k)
  BY DEF AfterNotice
<1>2. child' = [child EXCEPT ![k] = [child[k] EXCEPT !.at = at, !.ptr = NoRound]]
  BY <1>1, Parts DEF Told, CampaignInv
<1>3. PICK now : now = [child[k] EXCEPT !.at = at, !.ptr = NoRound]
  OBVIOUS
<1>4. now \in ChildRecord /\ now.at = at
  <2>1. PICK old \in ChildRecord : old = child[k]
    BY Parts DEF CampaignInv
  <2>2. now = [old EXCEPT !.at = at, !.ptr = NoRound]
    BY <1>3, <2>1
  <2>3. at \in ChildAts /\ NoRound \in Round \cup {NoRound}
    BY DEF ChildAts
  <2> QED
    BY <2>2, <2>3 DEF ChildRecord, ChildAts
<1> QED
  BY <1>1, <1>2, <1>3, <1>4

LEMMA ChildWorksKeeps ==
    ASSUME CampaignInv, NEW k \in Child, ChildWorks(k)
    PROVE  CampaignInv'
<1>1. CampaignTypeOK /\ read \in [Campaign -> SUBSET Target] /\ faults \in 0 .. MaxFaults
  BY Parts DEF CampaignInv
<1>2. /\ read' \in [Campaign -> SUBSET Target] /\ faults' \in 0 .. MaxFaults
      /\ \A d \in Campaign : read[d] \subseteq read'[d]
  <2>1. CASE read' = [c \in Campaign |-> read[c] \cup {k[2]}] /\ UNCHANGED faults
    BY <1>1, <2>1
  <2>2. CASE Fault /\ UNCHANGED read
    BY <1>1, <2>2, FaultType
  <2> QED
    BY <2>1, <2>2 DEF ChildWorks
<1>3. PICK now : now = [child[k] EXCEPT !.at = "telling"]
  OBVIOUS
<1>4. now \in ChildRecord /\ now.at = "telling"
  <2>1. PICK old \in ChildRecord : old = child[k]
    BY <1>1, Parts
  <2> QED
    BY <1>3, <2>1, ChildNow DEF ChildAts
<1>5. /\ child[k].at = "out" /\ child' = [child EXCEPT ![k] = now]
      /\ UNCHANGED <<row, ptr, runner, trouble>>
  <2>1. child' = [child EXCEPT ![k].at = "telling"]
    BY DEF ChildWorks
  <2> QED
    BY <2>1, <1>1, <1>3, Parts DEF ChildWorks, ChildStep
<1> QED
  BY <1>2, <1>4, <1>5, QuietChildStep

LEMMA NotifyReadsKeeps ==
    ASSUME CampaignInv, NEW k \in Child, NotifyReads(k)
    PROVE  CampaignInv'
<1>1. CampaignTypeOK /\ read \in [Campaign -> SUBSET Target] /\ faults \in 0 .. MaxFaults
  BY Parts DEF CampaignInv
<1>2. PICK p : p = ptr[k[1]]
  OBVIOUS
<1>3. child[k].at = "telling" /\ UNCHANGED <<row, ptr, read, faults, runner, trouble>>
  BY DEF NotifyReads, ChildStep
<1>4. p \in RoundsOf(k[1]) /\ p \in Round
  <2>1. PICK c \in Campaign, t \in Target : c = k[1] /\ t = k[2] /\ k = <<c, t>>
    BY ChildName
  <2>2. CampaignOK(c)
    BY DEF CampaignInv
  <2>3. p # NoRound /\ p \in RoundsOf(c) \cup {NoRound}
    BY <1>2, <1>3, <2>1, <2>2 DEF CampaignOK, PlaceOK, OutOK
  <2> QED
    BY <2>1, <2>3 DEF RoundsOf
<1>5. PICK now : now = [child[k] EXCEPT !.at = "noting", !.ptr = p]
  OBVIOUS
<1>6. now \in ChildRecord /\ now.ptr = p
  <2>1. PICK old \in ChildRecord : old = child[k]
    BY <1>1, Parts
  <2>2. now = [old EXCEPT !.at = "noting", !.ptr = p]
    BY <1>5, <2>1
  <2>3. "noting" \in ChildAts /\ p \in Round \cup {NoRound}
    BY <1>4 DEF ChildAts
  <2> QED
    BY <2>2, <2>3 DEF ChildRecord, ChildAts
<1>7. child' = [child EXCEPT ![k] = now]
  BY <1>1, <1>2, <1>5, Parts DEF NotifyReads
<1> QED
  BY <1>1, <1>3, <1>4, <1>6, <1>7, QuietChildStep

LEMMA NotifyFindsItOverKeeps ==
    ASSUME CampaignInv, NEW k \in Child, NotifyFindsItOver(k)
    PROVE  CampaignInv'
<1>1. CampaignTypeOK /\ read \in [Campaign -> SUBSET Target] /\ faults \in 0 .. MaxFaults
  BY Parts DEF CampaignInv
<1>2. child[k].at = "noting" /\ UNCHANGED <<row, ptr, read, faults, runner, trouble>>
  BY DEF NotifyFindsItOver, ChildStep
<1>3. PICK now : now = [child[k] EXCEPT !.at = "reviving"]
  OBVIOUS
<1>4. now \in ChildRecord /\ now.at = "reviving"
  <2>1. PICK old \in ChildRecord : old = child[k]
    BY <1>1, Parts
  <2> QED
    BY <1>3, <2>1, ChildNow DEF ChildAts
<1>5. child' = [child EXCEPT ![k] = now]
  BY <1>1, <1>3, Parts DEF NotifyFindsItOver
<1> QED
  BY <1>1, <1>2, <1>4, <1>5, QuietChildStep

LEMMA NoticeLostKeeps ==
    ASSUME CampaignInv, NEW k \in Child, NoticeLost(k)
    PROVE  CampaignInv'
<1>1. CampaignTypeOK /\ read \in [Campaign -> SUBSET Target] /\ faults' \in 0 .. MaxFaults
  BY Parts, FaultType DEF CampaignInv, NoticeLost
<1>2. PICK now \in ChildRecord : child' = [child EXCEPT ![k] = now] /\ now.at \in {"out", "told"}
  BY ToldNow DEF NoticeLost
<1>3. child[k].at = "telling" /\ UNCHANGED <<row, ptr, read, runner, trouble>>
  BY DEF NoticeLost, ChildStep
<1> QED
  BY <1>1, <1>2, <1>3, QuietChildStep

LEMMA ChildLeavesKeeps ==
    ASSUME CampaignInv, NEW k \in Child, ChildEnds(k) \/ ChildLost(k)
    PROVE  CampaignInv'
<1>1. CampaignTypeOK /\ read \in [Campaign -> SUBSET Target] /\ faults \in 0 .. MaxFaults
  BY Parts DEF CampaignInv
<1>2. faults' \in 0 .. MaxFaults
  BY <1>1, FaultType DEF ChildEnds, ChildLost
<1>3. PICK now : now = Away
  OBVIOUS
<1>4. now \in ChildRecord /\ now.at = "away"
  BY <1>3, AwayNow
<1>5. /\ child[k].at # "away" /\ child' = [child EXCEPT ![k] = now]
      /\ UNCHANGED <<row, ptr, read, runner, trouble>>
  BY <1>3 DEF ChildEnds, ChildLost, ChildStep
<1> QED
  BY <1>1, <1>2, <1>4, <1>5, QuietChildStep

\* A notice written in a round's row leaves the round what it was.
LEMMA RowNoted ==
    ASSUME row \in [Round -> RowRecord], NEW r \in Round, NEW inbox \in SUBSET Target,
           NEW soon \in BOOLEAN, NEW sent \in SUBSET Target,
           row' = [row EXCEPT ![r].inbox = inbox, ![r].soon = soon, ![r].sent = sent]
    PROVE  row' \in [Round -> RowRecord] /\ \A q \in Round : row'[q].status = row[q].status
<1>1. PICK old \in RowRecord : old = row[r]
  OBVIOUS
<1>2. PICK noted : noted = [old EXCEPT !.inbox = inbox, !.soon = soon, !.sent = sent]
  OBVIOUS
<1>3. noted \in RowRecord /\ noted.status = old.status
  BY <1>2 DEF RowRecord
<1>4. row' = [row EXCEPT ![r] = noted]
  BY <1>1, <1>2
<1> HIDE DEF RowRecord
<1>5. row' \in [Round -> RowRecord]
  BY <1>3, <1>4
<1>6. row'[r] = noted /\ \A q \in Round : q # r => row'[q] = row[q]
  BY <1>4
<1>7. \A q \in Round : row'[q].status = row[q].status
  BY <1>1, <1>3, <1>6
<1> QED
  BY <1>5, <1>7

LEMMA NotifyAppendsKeeps ==
    ASSUME CampaignInv, NEW k \in Child, NotifyAppends(k)
    PROVE  CampaignInv'
<1>1. PICK c \in Campaign, t \in Target : c = k[1] /\ t = k[2] /\ k = <<c, t>>
  BY ChildName
<1>2. CampaignTypeOK /\ CampaignOK(c) /\ row \in [Round -> RowRecord]
  BY Parts DEF CampaignInv
<1>3. PICK r \in Round : r = child[k].ptr
  BY <1>1, <1>2 DEF CampaignOK, OutOK, RoundsOf, NotifyAppends
<1>4. PICK old \in RowRecord : old = row[r]
  BY <1>2
<1>5. PICK inbox \in SUBSET Target, soon \in BOOLEAN, sent \in SUBSET Target :
         /\ inbox = old.inbox \cup {t}
         /\ soon = (old.soon \/ old.status = "scheduled")
         /\ sent = IF old.status = "scheduled" /\ ~old.soon THEN old.inbox \cup {t} ELSE old.sent
  BY DEF RowRecord
<1>6. row' = [row EXCEPT ![r].inbox = inbox, ![r].soon = soon, ![r].sent = sent]
  BY <1>1, <1>2, <1>3, <1>4, <1>5 DEF NotifyAppends
<1>7. row' \in [Round -> RowRecord] /\ \A q \in Round : row'[q].status = row[q].status
  BY <1>2, <1>6, RowNoted, ZenonT(40)
<1>8. PICK now \in ChildRecord : child' = [child EXCEPT ![k] = now] /\ now.at \in {"out", "told"}
  BY ToldNow DEF NotifyAppends
<1>9. child[k].at = "noting" /\ UNCHANGED <<ptr, read, faults, runner, trouble>>
  BY DEF NotifyAppends, ChildStep
<1>10. CampaignTypeOK'
  <2>1. child' \in [Child -> ChildRecord]
    BY <1>2, <1>8, Parts
  <2> QED
    BY <2>1, <1>2, <1>7, <1>9, Parts, PartsNext
<1>11. ChildChanges(c, t, now)
  BY <1>1, <1>7, <1>8, <1>9 DEF ChildChanges
<1> QED
  BY <1>1, <1>8, <1>9, <1>10, <1>11, ChildChangesKeeps

\* Reviving creates a round only when the campaign has no active one.
LEMMA ReviveCreatesKeeps ==
    ASSUME CampaignInv, CampaignTypeOK', NEW c \in Campaign, NEW t \in Target, NEW now \in ChildRecord,
           NEW n, Created(c, n, NoRound), ActiveRounds(c) = {}, ptr' = [ptr EXCEPT ![c] = n],
           child' = [child EXCEPT ![<<c, t>>] = now], child[<<c, t>>].at # "away",
           now.at \in {"out", "told"}, UNCHANGED <<runner, read, trouble>>
    PROVE  CampaignInv'
<1>1. CampaignTypeOK /\ CampaignOK(c) /\ child \in [Child -> ChildRecord]
      /\ ptr \in [Campaign -> Round \cup {NoRound}]
  BY Parts DEF CampaignInv
<1>2. /\ n \in RoundsOf(c) /\ row[n].status \in Terminal /\ ~Named(n)
      /\ row'[n].status = "scheduled" /\ n # NoRound
      /\ \A r \in Round : r # n /\ r # NoRound => row'[r].status = row[r].status
  BY DEF Created
<1>3. /\ n \in ActiveRounds(c)' /\ n \in Coming(c)' /\ Coming(c)' = Coming(c) \cup {n}
      /\ \A d \in Campaign : d # c => \A r \in RoundsOf(d) : row'[r].status = row[r].status
  BY CreatedStatus
<1>4. /\ RoundsOf(c)' = RoundsOf(c) /\ RoundsOf(c) \subseteq Round /\ NoRound \notin RoundsOf(c)
      /\ Coming(c) = {}
  BY DEF RoundsOf, Coming, ActiveRounds
<1>5. n # runner[c].round
  BY <1>2 DEF Named, RoundsOf
<1>6. /\ Trouble(c, {"forked"})' = Trouble(c, {"forked"}) /\ Ended(c)' = Ended(c)
      /\ Trouble(c, {"cancelled"})' = Trouble(c, {"cancelled"})
  BY DEF Trouble, Ended
<1>7. /\ child'[<<c, t>>] = now
      /\ \A d \in Campaign, u \in Target : d # c \/ u # t => child'[<<d, u>>] = child[<<d, u>>]
  BY <1>1
<1>8. ptr'[c] = n /\ \A d \in Campaign : d # c => ptr'[d] = ptr[d]
  BY <1>1
<1>9. runner[c].at # "idle" => row'[runner[c].round].status = row[runner[c].round].status
  BY <1>1, <1>2, <1>4, <1>5 DEF CampaignOK, PlaceOK
<1>10. PlaceOK(c)'
  <2>1. runner[c].at = "spawning" => n # runner[c].next
    BY <1>2 DEF Named, RoundsOf
  <2>2. runner[c].at = "spawning" => row'[runner[c].next].status = row[runner[c].next].status
    BY <2>1, <1>1, <1>2, <1>4 DEF CampaignOK, PlaceOK
  <2> QED
    BY <2>2, <1>1, <1>2, <1>4, <1>8, <1>9 DEF CampaignOK, PlaceOK
<1>11. OutOK(c)'
  BY <1>1, <1>2, <1>4, <1>7, <1>8 DEF CampaignOK, OutOK
<1>12. PointerOK(c)'
  BY <1>2, <1>8 DEF PointerOK
<1>13. OneOK(c)'
  <2>1. runner[c].at # "idle" => row[runner[c].round].status \in Terminal
    BY <1>1 DEF ActiveRounds, CampaignOK, PlaceOK
  <2> QED
    BY <1>3, <1>4, <1>9, <2>1 DEF OneOK
<1>14. AliveOK(c)'
  BY <1>1, <1>3, <1>6, <1>9 DEF CampaignOK, AliveOK
<1>15. \A d \in Campaign : d # c => Untouched(d)
  BY <1>3, <1>7, <1>8 DEF Untouched
<1> QED
  BY <1>10, <1>11, <1>12, <1>13, <1>14, <1>15, OneCampaign DEF CampaignOK

LEMMA ReviveCampaignKeeps ==
    ASSUME CampaignInv, NEW k \in Child, ReviveCampaign(k)
    PROVE  CampaignInv'
<1>1. PICK c \in Campaign, t \in Target : c = k[1] /\ t = k[2] /\ k = <<c, t>>
  BY ChildName
<1>2. CampaignTypeOK /\ CampaignOK(c)
  BY DEF CampaignInv
<1>3. /\ row \in [Round -> RowRecord] /\ ptr \in [Campaign -> Round \cup {NoRound}]
      /\ child \in [Child -> ChildRecord]
  BY <1>2, Parts
<1>4. PICK now \in ChildRecord : child' = [child EXCEPT ![k] = now] /\ now.at \in {"out", "told"}
  BY ToldNow DEF ReviveCampaign
<1>5. child[k].at = "reviving" /\ UNCHANGED <<read, faults, runner, trouble>>
  BY DEF ReviveCampaign, ChildStep
<1>6. child' \in [Child -> ChildRecord]
  BY <1>3, <1>4
<1>7. CASE UNCHANGED <<row, ptr>>
  <2>1. read' \in [Campaign -> SUBSET Target] /\ faults' \in 0 .. MaxFaults
    BY <1>2, <1>5, Parts
  <2> QED
    BY <1>4, <1>5, <1>7, <2>1, QuietChildStep
<1>8. ASSUME NEW r \in Followers(c), ReviveWakes(c, r, t) PROVE CampaignInv'
  <2>1. r \in RoundsOf(c) /\ r \in Round /\ row[r].status \notin Terminal
    BY <1>8 DEF Followers, ActiveRounds, RoundsOf
  <2>2. PICK old \in RowRecord : old = row[r]
    BY <1>3, <2>1
  <2>3. PICK inbox \in SUBSET Target, soon \in BOOLEAN, sent \in SUBSET Target :
           /\ inbox = IF r = Root(c) THEN old.inbox ELSE old.inbox \cup {t}
           /\ soon = (old.soon \/ old.status = "scheduled")
           /\ sent = IF old.status = "scheduled" /\ ~old.soon THEN old.inbox ELSE old.sent
    <3>1. (IF r = Root(c) THEN old.inbox ELSE old.inbox \cup {t}) \in SUBSET Target
      BY DEF RowRecord
    <3>2. (old.soon \/ old.status = "scheduled") \in BOOLEAN
      OBVIOUS
    <3>3. (IF old.status = "scheduled" /\ ~old.soon THEN old.inbox ELSE old.sent) \in SUBSET Target
      BY DEF RowRecord
    <3> QED
      BY <3>1, <3>2, <3>3
  <2>4. row' = [row EXCEPT ![r].inbox = inbox, ![r].soon = soon, ![r].sent = sent]
    BY <1>3, <1>8, <2>1, <2>2, <2>3 DEF ReviveWakes
  <2>5. row' \in [Round -> RowRecord] /\ \A q \in Round : row'[q].status = row[q].status
    BY <1>3, <2>1, <2>4, RowNoted, ZenonT(40)
  <2>6. /\ ptr' \in [Campaign -> Round \cup {NoRound}] /\ ptr'[c] = r
        /\ \A d \in Campaign : d # c => ptr'[d] = ptr[d]
    BY <1>3, <1>8, <2>1 DEF ReviveWakes
  <2>7. CampaignTypeOK'
    BY <1>2, <1>5, <1>6, <2>5, <2>6, Parts, PartsNext
  <2>8. ChildChanges(c, t, now)
    BY <1>1, <1>4, <1>5, <2>1, <2>5, <2>6 DEF ChildChanges
  <2> QED
    BY <1>1, <1>4, <1>5, <2>7, <2>8, ChildChangesKeeps
<1>9. CASE row[ptr[c]].status \in {"finished", "error"} /\ Followers(c) = {} /\ ReviveCreates(c, t)
  <2>1. ActiveRounds(c) = {}
    BY <1>9 DEF Followers
  <2>2. ptr[c] \in Round
    BY <1>1, <1>2, <1>5 DEF CampaignOK, PlaceOK, OutOK, RoundsOf
  <2>3. PICK claims \in SUBSET Target : claims = row[ptr[c]].claims
    BY <1>3, <2>2 DEF RowRecord
  <2>4. PICK new : new = [Scheduled(claims) EXCEPT !.soon = TRUE, !.inbox = {t}]
    OBVIOUS
  <2>5. new \in RowRecord /\ new.status = "scheduled"
    BY <2>4 DEF Scheduled, Empty, RowRecord, Status
  <2>6. /\ FreeRows(c) # {} /\ row' = [row EXCEPT ![NewRow(c)] = new]
        /\ ptr' = [ptr EXCEPT ![c] = NewRow(c)]
    BY <1>9, <2>3, <2>4 DEF ReviveCreates
  <2>7. row' \in [Round -> RowRecord] /\ Created(c, NewRow(c), NoRound)
    BY <1>2, <2>5, <2>6, NewRound
  <2>8. PICK n : n = NewRow(c)
    OBVIOUS
  <2>9. ptr' \in [Campaign -> Round \cup {NoRound}]
    BY <1>3, <2>6, <2>7 DEF Created, RoundsOf
  <2>10. CampaignTypeOK'
    BY <1>2, <1>5, <1>6, <2>7, <2>9, Parts, PartsNext
  <2> QED
    BY <1>1, <1>4, <1>5, <2>1, <2>6, <2>7, <2>8, <2>10, ReviveCreatesKeeps
<1> QED
  BY <1>1, <1>7, <1>8, <1>9 DEF ReviveCampaign

-----------------------------------------------------------------------------
(* A round sends its children *)

\* A target is tried: its child is created, or it is not.
Tries(c, t, free, claims) ==
    /\ runner[c].at = "spawning" /\ t \in runner[c].targets
    /\ runner' = [runner EXCEPT ![c].targets = @ \ {t}, ![c].free = free, ![c].claims = claims]
    /\ \/ UNCHANGED child
       \/ \E s \in Safehouse : child' = [child EXCEPT ![<<c, t>>] = [Away EXCEPT !.at = "out", !.source = s]]
    /\ UNCHANGED <<row, ptr, read, trouble>>

LEMMA TriesKeeps ==
    ASSUME CampaignInv, NEW c \in Campaign, NEW t \in Target, NEW free \in SUBSET Safehouse,
           NEW claims \in SUBSET Target, Tries(c, t, free, claims), faults' \in 0 .. MaxFaults
    PROVE  CampaignInv'
<1>1. CampaignTypeOK /\ CampaignOK(c)
  BY DEF CampaignInv
<1>2. runner \in [Campaign -> RunnerRecord] /\ child \in [Child -> ChildRecord]
  BY <1>1, Parts
<1>3. /\ runner' \in [Campaign -> RunnerRecord] /\ runner'[c].at = "spawning"
      /\ runner'[c].targets = runner[c].targets \ {t} /\ runner'[c].round = runner[c].round
      /\ runner'[c].next = runner[c].next
      /\ \A d \in Campaign : d # c => runner'[d] = runner[d]
  <2>1. PICK old \in RunnerRecord : old = runner[c]
    BY <1>2
  <2>2. PICK targets \in SUBSET Target : targets = old.targets \ {t}
    BY DEF RunnerRecord
  <2>3. PICK goes : goes = [old EXCEPT !.targets = targets, !.free = free, !.claims = claims]
    OBVIOUS
  <2>4. /\ goes \in RunnerRecord /\ goes.at = old.at /\ goes.targets = targets
        /\ goes.round = old.round /\ goes.next = old.next
    BY <2>3 DEF RunnerRecord
  <2>5. runner' = [runner EXCEPT ![c] = goes]
    BY <1>2, <2>1, <2>2, <2>3 DEF Tries
  <2>6. old.at = "spawning"
    BY <2>1 DEF Tries
  <2> HIDE DEF RunnerRecord
  <2>7. runner' \in [Campaign -> RunnerRecord]
    BY <1>2, <2>4, <2>5
  <2>8. runner'[c] = goes /\ \A d \in Campaign : d # c => runner'[d] = runner[d]
    BY <1>2, <2>5
  <2> QED
    BY <2>1, <2>2, <2>4, <2>6, <2>7, <2>8
<1>4. /\ child' \in [Child -> ChildRecord]
      /\ child'[<<c, t>>] = child[<<c, t>>] \/ child'[<<c, t>>].at = "out"
      /\ \A d \in Campaign, u \in Target : d # c \/ u # t => child'[<<d, u>>] = child[<<d, u>>]
  <2>1. CASE UNCHANGED child
    BY <1>2, <2>1
  <2>2. ASSUME NEW s \in Safehouse,
               child' = [child EXCEPT ![<<c, t>>] = [Away EXCEPT !.at = "out", !.source = s]]
        PROVE  <1>4!1 /\ <1>4!2 /\ <1>4!3
    <3>1. PICK out : out = [Away EXCEPT !.at = "out", !.source = s]
      OBVIOUS
    <3>2. out \in ChildRecord /\ out.at = "out"
      BY <3>1 DEF Away, ChildRecord
    <3> QED
      BY <1>2, <2>2, <3>1, <3>2
  <2> QED
    BY <2>1, <2>2 DEF Tries
<1>5. /\ RoundsOf(c)' = RoundsOf(c) /\ Coming(c)' = Coming(c) /\ ActiveRounds(c)' = ActiveRounds(c)
      /\ Trouble(c, {"forked"})' = Trouble(c, {"forked"}) /\ Ended(c)' = Ended(c)
      /\ Trouble(c, {"cancelled"})' = Trouble(c, {"cancelled"})
  BY DEF Tries, RoundsOf, Coming, ActiveRounds, Trouble, Ended
<1>6. CampaignTypeOK'
  BY <1>1, <1>3, <1>4, Parts, PartsNext DEF Tries
<1>7. PlaceOK(c)'
  BY <1>1, <1>3, <1>5 DEF CampaignOK, PlaceOK, Tries
<1>8. OutOK(c)'
  <2>1. ptr'[c] = ptr[c] /\ ptr[c] # NoRound
    BY <1>1 DEF CampaignOK, PlaceOK, Tries
  <2>2. ASSUME NEW u \in Target
        PROVE  /\ u \in runner'[c].targets => child'[<<c, u>>].at = "away"
               /\ child'[<<c, u>>].at = "noting" => child'[<<c, u>>].ptr \in RoundsOf(c)
    <3>1. /\ u \in runner[c].targets => child[<<c, u>>].at = "away"
          /\ child[<<c, u>>].at = "noting" => child[<<c, u>>].ptr \in RoundsOf(c)
      BY <1>1 DEF CampaignOK, OutOK
    <3>2. CASE u = t
      BY <3>1, <3>2, <1>3, <1>4
    <3>3. CASE u # t
      BY <3>1, <3>3, <1>3, <1>4
    <3> QED
      BY <3>2, <3>3
  <2> QED
    BY <1>5, <2>1, <2>2 DEF OutOK
<1>9. PointerOK(c)'
  BY <1>1, <1>5 DEF CampaignOK, PointerOK, Tries
<1>10. OneOK(c)'
  <2>1. runner'[c].at = "spawning"
    BY <1>3
  <2>2. ~Trouble(c, {"forked"}) => \A p, q \in Coming(c) : p = q
    BY <1>1 DEF CampaignOK, OneOK
  <2> QED
    BY <1>5, <2>1, <2>2 DEF OneOK
<1>11. AliveOK(c)'
  <2>1. /\ runner'[c].at = "spawning" /\ runner'[c].round = runner[c].round
        /\ runner[c].at = "spawning" /\ UNCHANGED <<row, read>>
    BY <1>3 DEF Tries
  <2> QED
    BY <1>1, <1>5, <2>1 DEF CampaignOK, AliveOK
<1>12. \A d \in Campaign : d # c => Untouched(d)
  BY <1>3, <1>4 DEF Untouched, Tries
<1> QED
  BY <1>6, <1>7, <1>8, <1>9, <1>10, <1>11, <1>12, OneCampaign DEF CampaignOK

LEMMA SpawnKeeps ==
    ASSUME CampaignInv, NEW c \in Campaign, NEW t \in Target, NEW s \in Safehouse,
           Spawn(c, t, s) \/ SpawnFails(c, t, s)
    PROVE  CampaignInv'
<1>1. CampaignTypeOK /\ runner \in [Campaign -> RunnerRecord] /\ faults \in 0 .. MaxFaults
  BY Parts DEF CampaignInv
<1>2. CASE Spawn(c, t, s)
  <2>1. PICK free \in SUBSET Safehouse, claims \in SUBSET Target :
           free = runner[c].free \ {s} /\ claims = runner[c].claims \cup {t}
    BY <1>1 DEF RunnerRecord
  <2>2. runner' = [runner EXCEPT ![c].targets = @ \ {t}, ![c].free = free, ![c].claims = claims]
    BY <1>1, <1>2, <2>1 DEF Spawn
  <2>3. Tries(c, t, free, claims)
    BY <1>2, <2>2 DEF Spawn, Tries
  <2> QED
    BY <1>1, <1>2, <2>3, TriesKeeps DEF Spawn
<1>3. CASE SpawnFails(c, t, s)
  <2>1. PICK free \in SUBSET Safehouse, claims \in SUBSET Target :
           free = runner[c].free /\ claims = runner[c].claims \ {t}
    BY <1>1 DEF RunnerRecord
  <2>2. runner' = [runner EXCEPT ![c].targets = @ \ {t}, ![c].free = free, ![c].claims = claims]
    <3>1. runner' = [runner EXCEPT ![c].targets = @ \ {t}, ![c].claims = @ \ {t}]
      BY <1>3 DEF SpawnFails
    <3>2. PICK old \in RunnerRecord : old = runner[c]
      BY <1>1
    <3>3. [old EXCEPT !.targets = @ \ {t}, !.claims = @ \ {t}]
            = [old EXCEPT !.targets = @ \ {t}, !.free = free, !.claims = claims]
      BY <2>1, <3>2 DEF RunnerRecord
    <3> QED
      BY <1>1, <3>1, <3>2, <3>3
  <2>3. Tries(c, t, free, claims)
    BY <1>3, <2>2 DEF SpawnFails, Tries
  <2>4. faults' \in 0 .. MaxFaults
    BY <1>1, <1>3, FaultType DEF SpawnFails
  <2> QED
    BY <2>3, <2>4, TriesKeeps
<1> QED
  BY <1>2, <1>3

-----------------------------------------------------------------------------
(* The theorems *)

LEMMA CampaignInitInv == CampaignInit => CampaignInv
<1> SUFFICES ASSUME CampaignInit PROVE CampaignInv
  OBVIOUS
<1> USE DEF CampaignInit
<1>1. PICK first \in RowRecord : first = [Empty EXCEPT !.status = "scheduled", !.soon = TRUE]
  BY DEF Empty, RowRecord, Status
<1>2. first.status = "scheduled"
  BY <1>1 DEF Empty
<1>3. Empty \in RowRecord /\ Empty.status = "none"
  BY DEF Empty, RowRecord, Status
<1>4. row = [r \in Round |-> IF r[2] = 1 THEN first ELSE Empty]
  BY <1>1
<1>5. row \in [Round -> RowRecord]
  <2> HIDE DEF RowRecord
  <2> QED
    BY <1>3, <1>4
<1>6. Idle \in RunnerRecord /\ Idle.at = "idle" /\ Idle.targets = {}
  BY DEF Idle, RunnerRecord, Places
<1>7. Away \in ChildRecord /\ Away.at = "away"
  BY AwayNow
<1>8. CampaignTypeOK
  <2>1. runner \in [Campaign -> RunnerRecord] /\ child \in [Child -> ChildRecord]
    BY <1>6, <1>7
  <2>2. /\ ptr \in [Campaign -> Round \cup {NoRound}] /\ read \in [Campaign -> SUBSET Target]
        /\ trouble \subseteq Campaign \X Kinds /\ faults \in 0 .. MaxFaults
    OBVIOUS
  <2> QED
    BY <1>5, <2>1, <2>2 DEF CampaignTypeOK, RowRecord, RunnerRecord, Places, ChildRecord, Kinds
<1>9. ASSUME NEW c \in Campaign PROVE CampaignOK(c)
  <2>1. /\ runner[c] = Idle /\ ptr[c] = NoRound
        /\ \A t \in Target : child[<<c, t>>] = Away
    OBVIOUS
  <2>2. PICK one : one = Root(c)
    OBVIOUS
  <2>3. one \in RoundsOf(c) /\ one[2] = 1 /\ one \in Round
    BY <2>2 DEF Root, RoundsOf
  <2>4. \A r \in RoundsOf(c) : r[2] = 1 => r = one
    BY <2>2 DEF Root, RoundsOf
  <2>5. Coming(c) = {one}
    BY <2>3, <2>4, <1>2, <1>3, <1>4 DEF Coming, RoundsOf
  <2>6. one \in ActiveRounds(c)
    BY <2>3, <1>2, <1>4 DEF ActiveRounds
  <2> QED
    BY <2>1, <2>5, <2>6, <1>6, <1>7 DEF CampaignOK, PlaceOK, OutOK, PointerOK, OneOK, AliveOK
<1> QED
  BY <1>8, <1>9 DEF CampaignInv

LEMMA CampaignStep == CampaignInv /\ [CampaignNext]_vars => CampaignInv'
<1> SUFFICES ASSUME CampaignInv, [CampaignNext]_vars PROVE CampaignInv'
  OBVIOUS
<1>1. ASSUME NEW c \in Campaign, RunnerStep(c) PROVE CampaignInv'
  BY <1>1, StartRoundKeeps, AskTargetsKeeps, CompleteKeeps, CreateFallbackKeeps,
     FallbackRefusedKeeps, GiveUpKeeps, SpawnKeeps, SyncClaimsKeeps, EndRoundKeeps, Zenon
     DEF RunnerStep
<1>2. ASSUME NEW c \in Campaign, AskFails(c) \/ FallbackUnknown(c) \/ RoundLost(c) PROVE CampaignInv'
  BY <1>2, AskFailsKeeps, FallbackUnknownKeeps, RoundLostKeeps
<1>3. ASSUME NEW r \in Round, RecoverRound(r) \/ CancelRound(r) PROVE CampaignInv'
  BY <1>3, RoundStops
<1>4. ASSUME NEW k \in Child, NotifyStep(k) PROVE CampaignInv'
  BY <1>4, ChildWorksKeeps, NotifyReadsKeeps, NotifyAppendsKeeps, NotifyFindsItOverKeeps,
     ReviveCampaignKeeps, ChildLeavesKeeps, Zenon DEF NotifyStep
<1>5. ASSUME NEW k \in Child, NoticeLost(k) \/ ChildLost(k) PROVE CampaignInv'
  BY <1>5, NoticeLostKeeps, ChildLeavesKeeps
<1>6. CASE UNCHANGED vars
  <2>1. CampaignTypeOK'
    BY <1>6, Parts, PartsNext DEF CampaignInv, vars
  <2>2. \A d \in Campaign : Untouched(d)
    BY <1>6 DEF vars, Untouched
  <2> QED
    BY <2>1, <2>2, UntouchedKeeps DEF CampaignInv
<1> QED
  BY <1>1, <1>2, <1>3, <1>4, <1>5, <1>6, Zenon DEF CampaignNext

LEMMA CampaignAlways == CampaignSpec => []CampaignInv
BY CampaignInitInv, CampaignStep, PTL DEF CampaignSpec

\* The variables keep their types: no step of a round, a child or the hub leaves a row, a
\* pointer or a runner that the code does not know (world_spy.py, campaigns.py).
THEOREM CampaignTypeCorrect == CampaignSpec => []CampaignTypeOK
<1>1. CampaignInv => CampaignTypeOK
  BY DEF CampaignInv
<1> QED
  BY <1>1, CampaignAlways, PTL

\* While a child is out, its campaign's pointer names a round that a notification can
\* wake or revive, unless an operator cancelled it: syncing the claims, which cancels the
\* fallback, moves the pointer in the same transaction.
THEOREM NotificationReaches == CampaignSpec => []CampaignReachable
<1>1. CampaignInv => CampaignReachable
  <2> SUFFICES ASSUME CampaignInv, NEW k \in Busy
               PROVE  /\ ptr[k[1]] # NoRound
                      /\ row[ptr[k[1]]].status = "cancelled" => Trouble(k[1], {"cancelled"})
    BY DEF CampaignReachable
  <2>1. PICK c \in Campaign, t \in Target : c = k[1] /\ t = k[2] /\ k = <<c, t>>
    BY ChildName DEF Busy
  <2> QED
    BY <2>1 DEF Busy, CampaignInv, CampaignOK, OutOK, PointerOK
<1> QED
  BY <1>1, CampaignAlways, PTL

\* A campaign has one round to come, however its round, its children's notifications, the
\* recovery and the operator interleave, unless three replies in a row were lost.
THEOREM OneRoundScheduled == CampaignSpec => []OneRoundToCome
<1>1. CampaignInv => OneRoundToCome
  <2> SUFFICES ASSUME CampaignInv, NEW c \in Campaign, ~Trouble(c, {"forked"})
               PROVE  Cardinality(Coming(c)) <= 1
    BY DEF OneRoundToCome, Coming
  <2>1. \A r, s \in Coming(c) : r = s
    BY DEF CampaignInv, CampaignOK, OneOK
  <2>2. CASE Coming(c) = {}
    BY <2>2, FS_EmptySet
  <2>3. ASSUME NEW r \in Coming(c) PROVE Cardinality(Coming(c)) <= 1
    <3>1. Coming(c) = {r}
      BY <2>1
    <3>2. Cardinality({r}) = 1
      BY FS_Singleton
    <3> QED
      BY <3>1, <3>2
  <2> QED
    BY <2>2, <2>3
<1> QED
  BY <1>1, CampaignAlways, PTL

\* A campaign with targets to read always has a round that runs or is to come: no failed
\* call, mission or child ends it, only an operator or a round that is lost.
THEOREM CampaignGoesOn == CampaignSpec => []CampaignAlive
<1>1. CampaignInv => CampaignAlive
  BY DEF CampaignInv, CampaignOK, AliveOK, CampaignAlive, Ended
<1> QED
  BY <1>1, CampaignAlways, PTL

\* A round never sends a child to a target that already has one of the campaign.
THEOREM TargetsAreFree == CampaignSpec => []NoSecondSpy
<1>1. CampaignInv => NoSecondSpy
  <2> SUFFICES ASSUME CampaignInv, NEW c \in Campaign, NEW t \in runner[c].targets
               PROVE  child[<<c, t>>].at = "away"
    BY DEF NoSecondSpy
  <2>1. t \in Target
    BY Parts DEF CampaignInv, RunnerRecord
  <2> QED
    BY <2>1 DEF CampaignInv, CampaignOK, OutOK
<1> QED
  BY <1>1, CampaignAlways, PTL
=============================================================================
