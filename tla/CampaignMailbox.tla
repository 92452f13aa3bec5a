--------------------------- MODULE CampaignMailbox ---------------------------
(***************************************************************************)
(* World spy campaigns: the rounds of a campaign (jobs of action 16, one   *)
(* after the other), the children they send to the targets (action 15),    *)
(* and the mailbox through which a child wakes the next round.  The root   *)
(* job of a campaign keeps the pointer to the round that is notified.      *)
(*                                                                         *)
(* A round holds the lock of its game account, so one round of a campaign  *)
(* runs at a time; the children, the notifications and the operator go on  *)
(* beside it.  A notification is three requests to the database: the       *)
(* pointer is read, the round it named is locked, and, when that round is  *)
(* over, the campaign is revived.  Missions, players, distances and raid   *)
(* alerts are left out, and a row that is over and that nothing names any  *)
(* more is forgotten: its number serves again.                             *)
(***************************************************************************)
EXTENDS Naturals, FiniteSets, FiniteSetsExt

CONSTANTS
    Campaign,       \* one per game account
    Target, Safehouse,
    MaxRounds,      \* bound: rows of a campaign that something still names
    NoRound, NoSource,
    Transport,      \* "redis": a payload is fixed when sent; "https": when claimed
    Repeats,        \* pass_interval_hours > 0
    MaxFaults       \* bound: calls that fail, crashes, failed missions, cancels

ASSUME CampaignAssumption ==
    /\ IsFiniteSet(Campaign) /\ IsFiniteSet(Target) /\ IsFiniteSet(Safehouse)
    /\ MaxRounds \in Nat \ {0}
    /\ NoRound \notin Campaign \X (1 .. MaxRounds) /\ NoSource \notin Safehouse
    /\ Transport \in {"redis", "https"}
    /\ Repeats \in BOOLEAN /\ MaxFaults \in Nat

Round == Campaign \X (1 .. MaxRounds)
Root(c) == <<c, 1>>
Child == Campaign \X Target

VARIABLES
    row,        \* the jobs of action 16: status, due within 30 s, claims, the
                \* notifications in the inbox that no round has read, and those in
                \* the payload the broker carries
    ptr,        \* current_runner_id of each root
    runner,     \* the round an agent executes, and what it has read so far
    child,      \* the jobs of action 15, and the notification one of them sends
    read,       \* targets with a report of this pass
    trouble,    \* history: campaigns with a fallback the agent does not know of, a
                \* round the operator cancelled, a round lost on the way
    faults

vars == <<row, ptr, runner, child, read, trouble, faults>>

Status == {"none", "scheduled", "running", "finished", "error", "cancelled"}
Terminal == {"none", "finished", "error", "cancelled"}
Idle == [round |-> NoRound, at |-> "idle", targets |-> {}, free |-> {},
         claims |-> {}, next |-> NoRound]
Away == [at |-> "away", source |-> NoSource, ptr |-> NoRound]
Empty == [status |-> "none", soon |-> FALSE, inbox |-> {}, claims |-> {}, sent |-> {}]

CampaignInit ==
    /\ row = [r \in Round |-> IF r[2] = 1 THEN [Empty EXCEPT !.status = "scheduled", !.soon = TRUE]
                                          ELSE Empty]
    /\ ptr = [c \in Campaign |-> NoRound]
    /\ runner = [c \in Campaign |-> Idle]
    /\ child = [k \in Child |-> Away]
    /\ read = [c \in Campaign |-> {}]
    /\ trouble = {}
    /\ faults = 0

Fault == faults < MaxFaults /\ faults' = faults + 1

-----------------------------------------------------------------------------
(* The hub's rows *)

RoundsOf(c) == {r \in Round : r[1] = c}
ActiveRounds(c) == {r \in RoundsOf(c) : row[r].status \notin Terminal}
\* The children of any campaign keep a target and a source city busy.
Busy == {k \in Child : child[k].at # "away"}
Occupied == {k[2] : k \in Busy}
BusySources == {child[k].source : k \in Busy}

Named(r) ==
    \/ r[2] = 1
    \/ r = ptr[r[1]]
    \/ r \in {runner[r[1]].round, runner[r[1]].next}
    \/ \E k \in Child : child[k].ptr = r
FreeRows(c) == {r \in RoundsOf(c) : row[r].status \in Terminal /\ ~Named(r)}
NewRow(c) == CHOOSE r \in FreeRows(c) : \A s \in FreeRows(c) : r[2] <= s[2]
Forgotten(c) == [r \in Round |-> IF r \in FreeRows(c) THEN Empty ELSE row[r]]

Scheduled(claims) == [Empty EXCEPT !.status = "scheduled", !.claims = claims]

(* Mutants: the pointer stays behind; a source that had not started is kept. *)
RescheduleBehind(c, source, claims) ==
    /\ row[source].status \notin Terminal
    /\ FreeRows(c) # {}
    /\ row' = [row EXCEPT ![NewRow(c)] = Scheduled(claims),
                          ![source].status = IF @ = "scheduled" THEN "cancelled" ELSE @]
    /\ ptr' = [ptr EXCEPT ![c] = IF @ = NoRound THEN NewRow(c) ELSE @]
RescheduleKeeps(c, source, claims) ==
    /\ row[source].status \notin Terminal
    /\ FreeRows(c) # {}
    /\ row' = [row EXCEPT ![NewRow(c)] = Scheduled(claims)]
    /\ ptr' = [ptr EXCEPT ![c] = NewRow(c)]

\* _reschedule() with the campaign's root in its inputs: a new round, the pointer
\* on it, and a source that had not started cancelled.
Reschedule(c, source, claims) ==
    /\ row[source].status \notin Terminal
    /\ FreeRows(c) # {}
    /\ LET new == NewRow(c) IN
        /\ row' = [row EXCEPT ![new] = Scheduled(claims),
                              ![source].status = IF @ = "scheduled" THEN "cancelled" ELSE @]
        /\ ptr' = [ptr EXCEPT ![c] = new]

-----------------------------------------------------------------------------
(* A round: WorldSpyRunner.execute() *)

\* What the agent gets as the inbox of a round.
Payload(r) == IF Transport = "https" THEN row[r].inbox ELSE row[r].sent

StartRound(r) ==
    LET c == r[1] IN
    /\ runner[c] = Idle
    /\ row[r].status = "scheduled"
    /\ row' = [Forgotten(c) EXCEPT ![r].status = "running", ![r].inbox = @ \ Payload(r)]
    /\ runner' = [runner EXCEPT ![c] =
                    [Idle EXCEPT !.round = r, !.at = "asking", !.claims = row[r].claims \ Payload(r)]]
    /\ UNCHANGED <<ptr, child, read, trouble, faults>>

(* Mutant: the claims are good for ever. *)
AskKeepsClaims(c) ==
    LET targets == (Target \ (read[c] \cup Occupied)) \ runner[c].claims IN
    /\ runner[c].at = "asking"
    /\ runner' = [runner EXCEPT ![c].targets = targets,
                                ![c].free = Safehouse \ BusySources,
                                ![c].at = IF targets = {} /\ BusySources = {} THEN "complete" ELSE "fallback"]
    /\ UNCHANGED <<row, ptr, child, read, trouble, faults>>

\* get_spy_targets(): the claims are void when nobody is out.
AskTargets(c) ==
    LET claims == IF BusySources = {} THEN {} ELSE runner[c].claims
        targets == (Target \ (read[c] \cup Occupied)) \ claims
    IN
    /\ runner[c].at = "asking"
    /\ runner' = [runner EXCEPT ![c].targets = targets,
                                ![c].free = Safehouse \ BusySources,
                                ![c].claims = claims,
                                ![c].at = IF targets = {} /\ BusySources = {} THEN "complete" ELSE "fallback"]
    /\ UNCHANGED <<row, ptr, child, read, trouble, faults>>

\* The hub does not answer: the round asks to be repeated with the inputs it has,
\* which leaves the pointer alone.  A first round becomes a new first round.
AskFails(c) ==
    LET r == runner[c].round IN
    /\ runner[c].at = "asking"
    /\ Fault
    /\ IF r[2] = 1 /\ row[r].status = "running"
         THEN /\ row' = [row EXCEPT ![r] = [Empty EXCEPT !.status = "scheduled"]]
              /\ runner' = [runner EXCEPT ![c] = Idle]
         ELSE IF row[r].status = "running"
         THEN /\ FreeRows(c) # {}
              /\ row' = [row EXCEPT ![NewRow(c)] = Scheduled(row[r].claims)]
              /\ runner' = [runner EXCEPT ![c].at = "ending"]
         ELSE /\ runner' = [runner EXCEPT ![c].at = "ending"]
              /\ UNCHANGED row
    /\ UNCHANGED <<ptr, child, read, trouble>>

\* Nothing to read and nobody out: the pass is over.
Complete(c) ==
    /\ runner[c].at = "complete"
    /\ IF Repeats /\ row[runner[c].round].status \notin Terminal
         THEN Reschedule(c, runner[c].round, {}) /\ read' = [read EXCEPT ![c] = {}]
         ELSE UNCHANGED <<row, ptr, read>>
    /\ runner' = [runner EXCEPT ![c].at = "ending"]
    /\ UNCHANGED <<child, trouble, faults>>

\* The claims the round expects to have: one target for each free safehouse.
Projected(c) ==
    {runner[c].claims \cup s :
        s \in kSubset(Min({Cardinality(runner[c].free), Cardinality(runner[c].targets)}),
                      runner[c].targets)}

AfterFallback(c) == IF runner[c].targets = {} \/ runner[c].free = {} THEN "ending" ELSE "spawning"

CreateFallback(c) ==
    /\ runner[c].at = "fallback"
    /\ \E claims \in Projected(c) : Reschedule(c, runner[c].round, claims)
    /\ runner' = [runner EXCEPT ![c].at = AfterFallback(c), ![c].next = NewRow(c)]
    /\ UNCHANGED <<child, read, trouble, faults>>

\* Three attempts without an answer; the hub may have carried them out.
FallbackUnknown(c) ==
    /\ runner[c].at = "fallback"
    /\ Fault
    /\ \/ /\ \E claims \in Projected(c) : Reschedule(c, runner[c].round, claims)
          /\ trouble' = trouble \cup {<<c, "forked">>}
       \/ UNCHANGED <<row, ptr, trouble>>
    /\ runner' = [runner EXCEPT ![c].at = "giving_up"]
    /\ UNCHANGED <<child, read>>

\* The round is over on the hub: every call is refused.
FallbackRefused(c) ==
    /\ runner[c].at = "fallback"
    /\ row[runner[c].round].status \in Terminal
    /\ runner' = [runner EXCEPT ![c].at = "giving_up"]
    /\ UNCHANGED <<row, ptr, child, read, trouble, faults>>

(* Mutant: the round ends, and asks for nothing. *)
GiveUpQuietly(c) ==
    /\ runner[c].at = "giving_up"
    /\ runner' = [runner EXCEPT ![c].at = "ending"]
    /\ UNCHANGED <<row, ptr, child, read, trouble, faults>>

\* The round ends without children and asks for another in five minutes.
GiveUp(c) ==
    /\ runner[c].at = "giving_up"
    /\ IF row[runner[c].round].status \notin Terminal
         THEN Reschedule(c, runner[c].round, runner[c].claims)
         ELSE UNCHANGED <<row, ptr>>
    /\ runner' = [runner EXCEPT ![c].at = "ending"]
    /\ UNCHANGED <<child, read, trouble, faults>>

-----------------------------------------------------------------------------
(* The children a round sends *)

\* spawn_job() for one target from one safehouse.  The hub creates the child while
\* the round is active and does not look at other campaigns.
Spawn(c, t, s) ==
    /\ runner[c].at = "spawning"
    /\ t \in runner[c].targets /\ s \in runner[c].free
    /\ row[runner[c].round].status \notin Terminal
    /\ child' = [child EXCEPT ![<<c, t>>] = [Away EXCEPT !.at = "out", !.source = s]]
    /\ runner' = [runner EXCEPT ![c].targets = @ \ {t}, ![c].free = @ \ {s},
                                ![c].claims = @ \cup {t}]
    /\ UNCHANGED <<row, ptr, read, trouble, faults>>

(* Mutant: the target is tried again in the same round. *)
SpawnTriesAgain(c, t, s) ==
    /\ runner[c].at = "spawning"
    /\ t \in runner[c].targets /\ s \in runner[c].free
    /\ row[runner[c].round].status \notin Terminal
    /\ Fault
    /\ \/ UNCHANGED child
       \/ child' = [child EXCEPT ![<<c, t>>] = [Away EXCEPT !.at = "out", !.source = s]]
    /\ UNCHANGED <<row, ptr, runner, read, trouble>>

\* An error skips the target and keeps the safehouse; the child may exist.
SpawnFails(c, t, s) ==
    /\ runner[c].at = "spawning"
    /\ t \in runner[c].targets /\ s \in runner[c].free
    /\ \/ row[runner[c].round].status \in Terminal /\ UNCHANGED <<child, faults>>
       \/ Fault /\ UNCHANGED child
       \/ /\ row[runner[c].round].status \notin Terminal
          /\ Fault
          /\ child' = [child EXCEPT ![<<c, t>>] = [Away EXCEPT !.at = "out", !.source = s]]
    /\ runner' = [runner EXCEPT ![c].targets = @ \ {t}, ![c].claims = @ \ {t}]
    /\ UNCHANGED <<row, ptr, read, trouble>>

\* The claims made are written by rescheduling the fallback, which cancels it.
SyncClaims(c) ==
    /\ runner[c].at = "spawning"
    /\ runner[c].targets = {} \/ runner[c].free = {}
    /\ \/ Reschedule(c, runner[c].next, runner[c].claims) /\ UNCHANGED faults
       \/ row[runner[c].next].status \in Terminal /\ UNCHANGED <<row, ptr, faults>>
       \/ Fault /\ UNCHANGED <<row, ptr>>
    /\ runner' = [runner EXCEPT ![c].at = "ending"]
    /\ UNCHANGED <<child, read, trouble>>

\* The final report; a round that is over keeps its status.
EndRound(c) ==
    LET r == runner[c].round IN
    /\ runner[c].at = "ending"
    /\ row' = [row EXCEPT ![r].status = IF @ = "running" THEN "finished" ELSE @]
    /\ runner' = [runner EXCEPT ![c] = Idle]
    /\ UNCHANGED <<ptr, child, read, trouble, faults>>

\* The agent dies, or its last report does.
RoundLost(c) ==
    /\ runner[c] # Idle
    /\ Fault
    /\ runner' = [runner EXCEPT ![c] = Idle]
    /\ trouble' = trouble \cup {<<c, "lost">>}
    /\ UNCHANGED <<row, ptr, child, read>>

\* recover_stale_running_jobs(): a round is not in SAFE_REQUEUE_ACTIONS.  The lease
\* of a round that runs on expires only when its heartbeats are lost.
RecoverRound(r) ==
    /\ row[r].status = "running"
    /\ IF runner[r[1]].round = r THEN Fault ELSE UNCHANGED faults
    /\ row' = [row EXCEPT ![r].status = "error"]
    /\ trouble' = trouble \cup {<<r[1], "lost">>}
    /\ UNCHANGED <<ptr, runner, child, read>>

\* JobCancelView by an operator.
CancelRound(r) ==
    /\ row[r].status \notin Terminal
    /\ Fault
    /\ row' = [row EXCEPT ![r].status = "cancelled"]
    /\ trouble' = trouble \cup {<<r[1], "cancelled">>}
    /\ UNCHANGED <<ptr, runner, child, read>>

-----------------------------------------------------------------------------
(* A child: its missions, its notification (NotifyParentView) and its end *)

ChildStep == UNCHANGED <<runner, trouble>>

\* The missions are done (the report reaches every campaign), or failed: then the
\* child notifies too and repeats itself.
ChildWorks(k) ==
    /\ child[k].at = "out"
    /\ \/ read' = [c \in Campaign |-> read[c] \cup {k[2]}] /\ UNCHANGED faults
       \/ Fault /\ UNCHANGED read
    /\ child' = [child EXCEPT ![k].at = "telling"]
    /\ UNCHANGED <<row, ptr>> /\ ChildStep

\* Where a child goes on: a success ends, a failure is tried again.
AfterNotice(k) == IF k[2] \in read[k[1]] THEN "told" ELSE "out"
Told(k) == [child EXCEPT ![k].at = AfterNotice(k), ![k].ptr = NoRound]

NotifyReads(k) ==
    /\ child[k].at = "telling"
    /\ child' = [child EXCEPT ![k].at = "noting", ![k].ptr = ptr[k[1]]]
    /\ UNCHANGED <<row, ptr, read, faults>> /\ ChildStep

\* The round named is locked: its inbox grows, and one that sleeps is woken with
\* the whole inbox in the new message.
NotifyAppends(k) ==
    LET r == child[k].ptr IN
    /\ child[k].at = "noting"
    /\ row[r].status \notin Terminal
    /\ row' = [row EXCEPT ![r].inbox = @ \cup {k[2]},
                          ![r].soon = @ \/ row[r].status = "scheduled",
                          ![r].sent = IF row[r].status = "scheduled" /\ ~row[r].soon
                                        THEN row[r].inbox \cup {k[2]} ELSE @]
    /\ child' = Told(k)
    /\ UNCHANGED <<ptr, read, faults>> /\ ChildStep

NotifyFindsItOver(k) ==
    /\ child[k].at = "noting"
    /\ row[child[k].ptr].status \in Terminal
    /\ child' = [child EXCEPT ![k].at = "reviving"]
    /\ UNCHANGED <<row, ptr, read, faults>> /\ ChildStep

\* The round revive_campaign() would use: an active one that names the root (the
\* newest; any, here), or the root itself.
Followers(c) ==
    IF ActiveRounds(c) \ {Root(c)} # {} THEN ActiveRounds(c) \ {Root(c)} ELSE ActiveRounds(c)

\* An active round found behind the pointer: the notice goes in its row (not in the
\* root's: the pointer is saved over it), and one that sleeps is woken by a message
\* built from the row as it was read.
ReviveWakes(c, r, n) ==
    /\ row' = [row EXCEPT ![r].inbox = IF r = Root(c) THEN @ ELSE @ \cup {n},
                          ![r].soon = @ \/ row[r].status = "scheduled",
                          ![r].sent = IF row[r].status = "scheduled" /\ ~row[r].soon
                                        THEN row[r].inbox ELSE @]
    /\ ptr' = [ptr EXCEPT ![c] = r]

\* No round left: the next one is made from the last, its first message without the
\* notice.
ReviveCreates(c, n) ==
    /\ FreeRows(c) # {}
    /\ LET new == NewRow(c) IN
        /\ row' = [row EXCEPT ![new] = [Scheduled(row[ptr[c]].claims) EXCEPT !.soon = TRUE, !.inbox = {n}]]
        /\ ptr' = [ptr EXCEPT ![c] = new]

\* revive_campaign(), under the root's lock.  A round that became active meanwhile
\* is returned as it is.
ReviveCampaign(k) ==
    LET c == k[1]
        last == row[ptr[c]].status
    IN
    /\ child[k].at = "reviving"
    /\ \/ last \in {"scheduled", "running", "cancelled"} /\ UNCHANGED <<row, ptr>>
       \/ /\ last \in {"finished", "error"}
          /\ \E r \in Followers(c) : ReviveWakes(c, r, k[2])
       \/ /\ last \in {"finished", "error"}
          /\ Followers(c) = {}
          /\ ReviveCreates(c, k[2])
    /\ child' = Told(k)
    /\ UNCHANGED <<read, faults>> /\ ChildStep

\* The call fails before the hub acts on it; the child goes on all the same.
NoticeLost(k) ==
    /\ child[k].at = "telling"
    /\ Fault
    /\ child' = Told(k)
    /\ UNCHANGED <<row, ptr, read>> /\ ChildStep

ChildEnds(k) ==
    /\ child[k].at = "told"
    /\ child' = [child EXCEPT ![k] = Away]
    /\ UNCHANGED <<row, ptr, read, faults>> /\ ChildStep

\* A child that is cancelled, or whose agent dies, ends without a word.
ChildLost(k) ==
    /\ child[k].at = "out"
    /\ Fault
    /\ child' = [child EXCEPT ![k] = Away]
    /\ UNCHANGED <<row, ptr, read>> /\ ChildStep

-----------------------------------------------------------------------------
RunnerStep(c) ==
    \/ \E r \in RoundsOf(c) : StartRound(r)
    \/ AskTargets(c) \/ Complete(c) \/ CreateFallback(c) \/ FallbackRefused(c) \/ GiveUp(c)
    \/ \E t \in Target, s \in Safehouse : Spawn(c, t, s) \/ SpawnFails(c, t, s)
    \/ SyncClaims(c) \/ EndRound(c)

NotifyStep(k) ==
    ChildWorks(k) \/ NotifyReads(k) \/ NotifyAppends(k) \/ NotifyFindsItOver(k)
        \/ ReviveCampaign(k) \/ ChildEnds(k)

CampaignNext ==
    \/ \E c \in Campaign : RunnerStep(c) \/ AskFails(c) \/ FallbackUnknown(c) \/ RoundLost(c)
    \/ \E r \in Round : RecoverRound(r) \/ CancelRound(r)
    \/ \E k \in Child : NotifyStep(k) \/ NoticeLost(k) \/ ChildLost(k)

CampaignSpec == CampaignInit /\ [][CampaignNext]_vars

\* The agents and the hub go on; nothing that goes wrong has to.
CampaignFairness ==
    /\ \A c \in Campaign : WF_vars(RunnerStep(c))
    /\ \A k \in Child : WF_vars(NotifyStep(k))
    /\ WF_vars(\E r \in Round : runner[r[1]].round # r /\ RecoverRound(r))

-----------------------------------------------------------------------------
CampaignTypeOK ==
    /\ row \in [Round -> [status : Status, soon : BOOLEAN, inbox : SUBSET Target,
                          claims : SUBSET Target, sent : SUBSET Target]]
    /\ ptr \in [Campaign -> Round \cup {NoRound}]
    /\ runner \in [Campaign -> [round : Round \cup {NoRound}, next : Round \cup {NoRound},
                     at : {"idle", "asking", "complete", "fallback", "giving_up", "spawning", "ending"},
                     targets : SUBSET Target, free : SUBSET Safehouse, claims : SUBSET Target]]
    /\ child \in [Child -> [at : {"away", "out", "telling", "noting", "reviving", "told"},
                     source : Safehouse \cup {NoSource}, ptr : Round \cup {NoRound}]]
    /\ read \in [Campaign -> SUBSET Target]
    /\ trouble \subseteq Campaign \X {"forked", "cancelled", "lost"}
    /\ faults \in 0 .. MaxFaults

Trouble(c, kinds) == \E kind \in kinds : <<c, kind>> \in trouble

\* While a child is out, the pointer of its campaign names a round that the next
\* notification can wake or revive: the hub's own cancelling of a fallback, in the
\* sync of the claims, never leaves the pointer on it (only an operator's does).
CampaignReachable ==
    \A k \in Busy :
        /\ ptr[k[1]] # NoRound
        /\ row[ptr[k[1]]].status = "cancelled" => Trouble(k[1], {"cancelled"})

\* A campaign has one round to come: the two calls that create rounds (the round's
\* own and the reviving one) never leave two of them, unless three replies in a row
\* were lost.
OneRoundToCome ==
    \A c \in Campaign :
        ~Trouble(c, {"forked"}) =>
            Cardinality({r \in RoundsOf(c) : row[r].status = "scheduled"}) <= 1

\* campaigns.py:1, "a campaign must always have a round to wake up": with targets
\* still to read, no failed call, mission or child ends a campaign; only an operator
\* does, or a round that is lost (crash, lease).
CampaignAlive ==
    \A c \in Campaign :
        ActiveRounds(c) = {} => Target \subseteq read[c] \/ Trouble(c, {"cancelled", "lost"})

\* A target handed out is out with nobody: the list a round took is still good when
\* it spawns, with other children telling and ending meanwhile.
NoSecondSpy ==
    \A c \in Campaign : runner[c].at = "spawning" =>
        \A t \in runner[c].targets : child[<<c, t>>].at = "away"

\* agent.py:1026, "both are processed": a round that finished has read every
\* notification its row has accepted.
NoticesRead == \A r \in Round : row[r].status = "finished" => row[r].inbox = {}

\* worldintel/api/agent.py:493: no target is spied by two accounts at once.
OneSpyPerTarget == \A k, l \in Busy : k[2] = l[2] => k = l

\* Claims and busy safehouses starve no target: whatever fails, each is read in the
\* end, unless the campaign itself is lost or cancelled.
EveryTargetRead ==
    \A c \in Campaign, t \in Target :
        (t \notin read[c]) ~> (t \in read[c] \/ Trouble(c, {"cancelled", "lost"}))
=============================================================================
