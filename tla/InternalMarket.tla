--------------------------- MODULE InternalMarket ----------------------------
(***************************************************************************)
(* The internal market: orders for one resource that several buyers place  *)
(* with one branch office of one seller.  The hub keeps the order and      *)
(* creates its jobs: 802 publishes the offer, 801 buys it leg by leg (each *)
(* leg a purchase job and the monitors that follow it), 2 carries the      *)
(* goods to the city that asked (in as many parts as there are ships, each *)
(* with its monitor), and a cleanup 802 takes off sale what an order that  *)
(* failed left there.  The branch office is a total in the game: runners   *)
(* read it and write it back, buyers and strangers lower it.               *)
(*                                                                         *)
(* Jobs end through their final report, which updates the order            *)
(* (reconcile_internal_order_for_job), or without it: cancelled with their *)
(* chain, or ended by the recovery when their agent dies or is silent.  A  *)
(* report that times out runs the job again (the executor's transient      *)
(* path).                                                                  *)
(***************************************************************************)
EXTENDS Naturals, FiniteSets, FiniteSetsExt

CONSTANTS
    Order,          \* orders
    Amount,         \* units of each order
    Hauled,         \* the orders whose goods go on to another city of the buyer
    MaxLegs,        \* bound: purchase jobs
    MaxHauls,       \* bound: jobs of the redistributions
    MaxMishaps      \* bound: faults, cancellations and strangers' purchases

ASSUME MarketAssumption ==
    /\ Order \subseteq Nat /\ IsFiniteSet(Order) /\ Hauled \subseteq Order
    /\ Amount \in Nat \ {0} /\ MaxLegs \in Nat \ {0} /\ MaxHauls \in Nat /\ MaxMishaps \in Nat

Leg == 1 .. MaxLegs
Haul == 1 .. MaxHauls

VARIABLES
    order,          \* InternalMarketOrder.status
    office,         \* units on sale in the seller's branch office
    sell,           \* the order's 802: status, where its runner is, the total it has read,
                    \* whether it is to run again
    leg,            \* the 801 jobs: order, status, runner, monitor or purchase, inputs, bought
    haul,           \* the 2 jobs: order, status, runner, kind, inputs, units on their way
    cleanup,        \* the order's cleanup 802, its inputs and runner
    bought,         \* history: units bought of each order, ...
    arrived,        \* ... units seen to arrive where they were bought for, ...
    landed,         \* ... and units seen to arrive in the city that asked
    severed,        \* history: orders one of whose jobs ended without the market, or ran twice
    mishaps

marketVars == <<order, office, sell, leg, haul, cleanup, bought, arrived, landed,
                severed, mishaps>>

LiveJob == {"queued", "running"}
EndedJob == {"finished", "error", "cancelled"}
OpenOrder == {"matched", "jobs_created", "jobs_running"}
ClosedOrder == {"completed", "failed", "canceled"}
Runner == {"idle", "at_work", "read", "posted", "telling", "ending", "failing"}

NoLeg == [of |-> 0, status |-> "none", at |-> "idle", monitor |-> FALSE,
          amount |-> 0, got |-> 0, done |-> 0, source |-> 0]
NoHaul == [of |-> 0, status |-> "none", at |-> "idle", kind |-> "first", units |-> 0, sent |-> 0]
NoCleanup == [status |-> "none", at |-> "idle", leftover |-> 0, keep |-> {}, total |-> 0]

MarketInit ==
    /\ order = [o \in Order |-> "none"]
    /\ office = 0
    /\ sell = [o \in Order |-> [status |-> "none", at |-> "idle", total |-> 0, again |-> FALSE]]
    /\ leg = [j \in Leg |-> NoLeg]
    /\ haul = [h \in Haul |-> NoHaul]
    /\ cleanup = [o \in Order |-> NoCleanup]
    /\ bought = [o \in Order |-> 0]
    /\ arrived = [o \in Order |-> 0]
    /\ landed = [o \in Order |-> 0]
    /\ severed = {}
    /\ mishaps = 0

Mishap == mishaps < MaxMishaps /\ mishaps' = mishaps + 1

Open(o) == order[o] \in OpenOrder
Legs(o) == {j \in Leg : leg[j].of = o /\ leg[j].status # "none"}
LiveLegs(o) == {j \in Legs(o) : leg[j].status \in LiveJob}
NextLeg == Cardinality({j \in Leg : leg[j].status # "none"}) + 1
Born == NextLeg <= MaxLegs

Hauls(o) == {h \in Haul : haul[h].of = o /\ haul[h].status # "none"}
LiveHauls(o) == {h \in Hauls(o) : haul[h].status \in LiveJob}
Redistribution(o) == {h \in Hauls(o) : haul[h].kind = "first"}
NextHaul == Cardinality({h \in Haul : haul[h].status # "none"}) + 1
HaulBorn == NextHaul <= MaxHauls

\* One job at a time runs for an account (the executor's lock).
SellerFree == \A o \in Order : sell[o].at = "idle" /\ cleanup[o].at = "idle"
BuyerFree(o) ==
    /\ \A j \in Legs(o) : leg[j].at = "idle"
    /\ \A h \in Hauls(o) : haul[h].at = "idle"

-----------------------------------------------------------------------------
(* services.py: the order *)

\* _set_order_terminal_state(): the first end stays.
SetTerminal(o, status) == IF Open(o) THEN [order EXCEPT ![o] = status] ELSE order

(* Mutant: the orders whose purchase has begun are left out. *)
StillToBuy(o) ==
    {p \in Order \ {o} : sell[p].status = "finished" /\ order[p] \in {"matched", "jobs_created"}}

\* _published_internal_offer_orders(), without the order itself, still open.
StillOnOffer(o) == {p \in Order \ {o} : sell[p].status = "finished" /\ Open(p)}

(* Mutant: what was delivered counts the wrong way. *)
CleanupBothWays(o, delivered) ==
    cleanup' = IF sell[o].status = "finished" /\ cleanup[o].status \notin LiveJob
                 THEN [cleanup EXCEPT ![o] = [status |-> "queued", at |-> "idle",
                            leftover |-> Amount + delivered,
                            keep |-> StillOnOffer(o), total |-> 0]]
                 ELSE cleanup

\* schedule_internal_offer_cleanup(): what has to stay is settled now.
ScheduleCleanup(o, delivered) ==
    cleanup' = IF sell[o].status = "finished" /\ cleanup[o].status \notin LiveJob
                 THEN [cleanup EXCEPT ![o] = [status |-> "queued", at |-> "idle",
                            leftover |-> Max({Amount, delivered}) - delivered,
                            keep |-> StillOnOffer(o), total |-> 0]]
                 ELSE cleanup

\* complete_internal_order(): done, or on to the city that asked for it.
CompleteOrder(o) ==
    IF Open(o) /\ o \in Hauled
      THEN \/ Redistribution(o) # {} /\ UNCHANGED <<order, haul>>
           \/ /\ Redistribution(o) = {} /\ HaulBorn
              /\ haul' = [haul EXCEPT ![NextHaul] =
                            [NoHaul EXCEPT !.of = o, !.status = "queued", !.units = Amount]]
              /\ order' = [order EXCEPT ![o] = "jobs_running"]
      ELSE order' = SetTerminal(o, "completed") /\ UNCHANGED haul

\* create_internal_order_result(): one open order of a buyer for a city at a time.
PlaceOrder(o) ==
    /\ order[o] = "none"
    /\ order' = [order EXCEPT ![o] = "jobs_created"]
    /\ sell' = [sell EXCEPT ![o].status = "queued"]
    /\ UNCHANGED <<office, leg, haul, cleanup, bought, arrived, landed, severed, mishaps>>

\* The hub's process dies before the sell job is created.
PlaceOrderLost(o) ==
    /\ order[o] = "none"
    /\ Mishap
    /\ order' = [order EXCEPT ![o] = "matched"]
    /\ severed' = severed \cup {o}
    /\ UNCHANGED <<office, sell, leg, haul, cleanup, bought, arrived, landed>>

CancelHauls(o) ==
    [h \in Haul |-> IF h \in LiveHauls(o) THEN [haul[h] EXCEPT !.status = "cancelled"] ELSE haul[h]]

\* cancel_internal_order(): the order's jobs and what descends from them.
CancelOrder(o) ==
    /\ Open(o)
    /\ Mishap
    /\ order' = [order EXCEPT ![o] = "canceled"]
    /\ sell' = [sell EXCEPT ![o].status = IF @ \in LiveJob THEN "cancelled" ELSE @,
                            ![o].again = FALSE]
    /\ leg' = [j \in Leg |-> IF j \in LiveLegs(o) THEN [leg[j] EXCEPT !.status = "cancelled"] ELSE leg[j]]
    /\ haul' = CancelHauls(o)
    /\ cleanup' = [cleanup EXCEPT ![o].status = IF @ \in LiveJob THEN "cancelled" ELSE @]
    /\ UNCHANGED <<office, bought, arrived, landed, severed>>

-----------------------------------------------------------------------------
(* InternalMarketSellRunner *)

SellStarts(o) ==
    /\ sell[o].status = "queued" /\ SellerFree
    /\ sell' = [sell EXCEPT ![o].status = "running", ![o].at = "read", ![o].total = office]
    /\ UNCHANGED <<order, office, leg, haul, cleanup, bought, arrived, landed, severed, mishaps>>

\* CreateOfferAction in mode "add": the total read plus the order's amount.
SellPosts(o) ==
    /\ sell[o].at = "read"
    /\ office' = sell[o].total + Amount
    /\ sell' = [sell EXCEPT ![o].at = "posted", ![o].total = 0]
    /\ UNCHANGED <<order, leg, haul, cleanup, bought, arrived, landed, severed, mishaps>>

\* MarketSellCompleteView reads the order, ...
SellTells(o) ==
    /\ sell[o].at = "posted"
    /\ sell' = [sell EXCEPT ![o].at = IF order[o] \in {"matched", "jobs_created"}
                                        THEN "telling" ELSE "failing"]
    /\ UNCHANGED <<order, office, leg, haul, cleanup, bought, arrived, landed, severed, mishaps>>

\* ... and create_buy_job() saves it as running, whatever it has become meanwhile.
CreateBuyJob(o, reply) ==
    /\ sell[o].at = "telling" /\ Born
    /\ leg' = [leg EXCEPT ![NextLeg] = [NoLeg EXCEPT !.of = o, !.status = "queued", !.amount = Amount]]
    /\ order' = [order EXCEPT ![o] = "jobs_running"]
    /\ sell' = [sell EXCEPT ![o].at = reply]
    /\ UNCHANGED <<office, haul, cleanup, bought, arrived, landed, severed>>

SellFails(o) ==
    /\ sell[o].at \in {"read", "posted"}
    /\ Mishap
    /\ sell' = [sell EXCEPT ![o].at = "failing"]
    /\ UNCHANGED <<order, office, leg, haul, cleanup, bought, arrived, landed, severed>>

(* Mutant: a sell job that failed does not end its order. *)
SellReportsQuietly(o) ==
    /\ sell[o].at \in {"ending", "failing"}
    /\ sell' = [sell EXCEPT ![o].status = IF @ # "running" THEN @
                                          ELSE IF sell[o].at = "ending" THEN "finished" ELSE "error",
                            ![o].at = "idle", ![o].total = 0]
    /\ UNCHANGED <<order, office, leg, haul, cleanup, bought, arrived, landed, severed, mishaps>>

\* The final report of the sell job; one that is over is refused.
SellReports(o) ==
    LET accepted == sell[o].status = "running"
        outcome == IF sell[o].at = "ending" THEN "finished" ELSE "error" IN
    /\ sell[o].at \in {"ending", "failing"}
    /\ sell' = [sell EXCEPT ![o].status = IF accepted THEN outcome ELSE @,
                            ![o].at = "idle", ![o].total = 0]
    /\ order' = IF accepted /\ outcome = "error" THEN SetTerminal(o, "failed") ELSE order
    /\ UNCHANGED <<office, leg, haul, cleanup, bought, arrived, landed, severed, mishaps>>

\* The report times out: the executor reschedules the job and reports an error.  The
\* copy publishes once more; it is not the order's sell job, nobody heeds its end.
SellReportLost(o) ==
    /\ sell[o].at \in {"ending", "failing"} /\ sell[o].status = "running"
    /\ Mishap
    /\ sell' = [sell EXCEPT ![o].at = "failing", ![o].total = 0, ![o].again = TRUE]
    /\ UNCHANGED <<order, office, leg, haul, cleanup, bought, arrived, landed, severed>>

SellAgain(o) ==
    /\ sell[o].again /\ SellerFree
    /\ sell' = [sell EXCEPT ![o].at = "read", ![o].total = office, ![o].again = FALSE]
    /\ UNCHANGED <<order, office, leg, haul, cleanup, bought, arrived, landed, severed, mishaps>>

-----------------------------------------------------------------------------
(* The cleanup *)

CleanupStarts(o) ==
    /\ cleanup[o].status = "queued" /\ SellerFree
    /\ cleanup' = [cleanup EXCEPT ![o].status = "running", ![o].at = "read", ![o].total = office]
    /\ UNCHANGED <<order, office, sell, leg, haul, bought, arrived, landed, severed, mishaps>>

\* max(keep_total, current_total - leftover), unless that takes nothing off.
CleanupTotal(o) ==
    LET c == cleanup[o] IN
    Max({Amount * Cardinality(c.keep), Max({c.total, c.leftover}) - c.leftover})
CleanupPosts(o) ==
    /\ cleanup[o].at = "read"
    /\ office' = IF CleanupTotal(o) < cleanup[o].total THEN CleanupTotal(o) ELSE office
    /\ cleanup' = [cleanup EXCEPT ![o] = [NoCleanup EXCEPT
                        !.status = IF cleanup[o].status = "running" THEN "finished" ELSE "cancelled"]]
    /\ UNCHANGED <<order, sell, leg, haul, bought, arrived, landed, severed, mishaps>>

CleanupFails(o) ==
    /\ cleanup[o].at = "read"
    /\ Mishap
    /\ cleanup' = [cleanup EXCEPT ![o] = [NoCleanup EXCEPT !.status = "error"]]
    /\ UNCHANGED <<order, office, sell, leg, haul, bought, arrived, landed, severed>>

-----------------------------------------------------------------------------
(* InternalMarketBuyRunner *)

LegStarts(j) ==
    /\ leg[j].status = "queued" /\ BuyerFree(leg[j].of)
    /\ leg' = [leg EXCEPT ![j].status = "running", ![j].at = "at_work"]
    /\ UNCHANGED <<order, office, sell, haul, cleanup, bought, arrived, landed, severed, mishaps>>

\* The runner is done with the purchase it has made.
Left(j, at) == [leg EXCEPT ![j].at = at, ![j].got = 0]

\* A reschedule leaves a child; one of a job that is over is refused and the runner fails.
Rescheduled(j, inputs) ==
    IF leg[j].status = "running"
      THEN /\ Born
           /\ leg' = [Left(j, "ending") EXCEPT
                        ![NextLeg] = [inputs EXCEPT !.status = "queued", !.at = "idle",
                                                    !.got = 0, !.source = j]]
      ELSE leg' = Left(j, "failing")

\* The purchase, as many units as ships, gold and the offer allow.
LegBuys(j) ==
    /\ leg[j].at = "at_work" /\ ~leg[j].monitor
    /\ \E n \in 1 .. leg[j].amount :
        /\ n <= office
        /\ office' = office - n
        /\ bought' = [bought EXCEPT ![leg[j].of] = @ + n]
        /\ leg' = [leg EXCEPT ![j].at = "posted", ![j].got = n]
    /\ UNCHANGED <<order, sell, haul, cleanup, arrived, landed, severed, mishaps>>

\* Not there yet: a monitor takes over.
LegMonitored(j) ==
    /\ leg[j].at = "posted"
    /\ Rescheduled(j, [leg[j] EXCEPT !.monitor = TRUE, !.amount = leg[j].got])
    /\ UNCHANGED <<order, office, sell, haul, cleanup, bought, arrived, landed, severed, mishaps>>

\* No ships, no gold, no offer, no login, a monitor that looks again: the same job later,
\* also when the purchase has been made.
LegWaits(j) ==
    /\ leg[j].at \in {"at_work", "posted"}
    /\ Rescheduled(j, leg[j])
    /\ UNCHANGED <<order, office, sell, haul, cleanup, bought, arrived, landed, severed, mishaps>>

\* _finish_arrived_purchase_leg(): the next leg, or the order is complete.
LegArrives(j) ==
    LET o == leg[j].of
        units == IF leg[j].monitor THEN leg[j].amount ELSE leg[j].got
        done == leg[j].done + units IN
    /\ leg[j].at = "posted" \/ (leg[j].at = "at_work" /\ leg[j].monitor)
    /\ arrived' = [arrived EXCEPT ![o] = @ + units]
    /\ IF done < Amount
         THEN /\ Rescheduled(j, [leg[j] EXCEPT !.monitor = FALSE, !.amount = Amount - done, !.done = done])
              /\ UNCHANGED <<order, haul>>
         ELSE CompleteOrder(o) /\ leg' = Left(j, "ending")
    /\ UNCHANGED <<office, sell, cleanup, bought, landed, severed, mishaps>>

\* The answer is lost of the reschedule, or of the completion, that the hub has made:
\* the runner fails.
LegReplyLost(j) ==
    /\ leg[j].at = "ending"
    /\ Mishap
    /\ leg' = Left(j, "failing")
    /\ UNCHANGED <<order, office, sell, haul, cleanup, bought, arrived, landed, severed>>

\* An error, a monitor's deadline, retries used up.
LegFails(j) ==
    /\ leg[j].at \in {"at_work", "posted"}
    /\ leg' = Left(j, "failing")
    /\ UNCHANGED <<order, office, sell, haul, cleanup, bought, arrived, landed, severed, mishaps>>

\* Gold retries used up: MarketOrderFailView first, which knows of no delivered leg.
LegOutOfGold(j) ==
    LET o == leg[j].of IN
    /\ leg[j].at = "at_work" /\ ~leg[j].monitor
    /\ order' = SetTerminal(o, "failed")
    /\ IF Open(o) THEN ScheduleCleanup(o, 0) ELSE UNCHANGED cleanup
    /\ leg' = Left(j, "failing")
    /\ UNCHANGED <<office, sell, haul, bought, arrived, landed, severed, mishaps>>

\* JobStatusView and reconcile_internal_order_for_job().
RetryChildren(j) == {k \in Leg : leg[k].source = j /\ leg[k].status \in LiveJob}
(* Mutant: a leg that finished completes the order, whatever follows it. *)
ReconcileAnyLeg(j) == CompleteOrder(leg[j].of) /\ UNCHANGED cleanup

ReconcileFinished(j) ==
    LET o == leg[j].of IN
    /\ IF RetryChildren(j) # {}
         THEN order' = [order EXCEPT ![o] = "jobs_running"] /\ UNCHANGED haul
         ELSE CompleteOrder(o)
    /\ UNCHANGED cleanup
ReconcileError(j) ==
    LET o == leg[j].of IN
    /\ order' = SetTerminal(o, "failed")
    /\ ScheduleCleanup(o, leg[j].done)
    /\ UNCHANGED haul

LegReports(j) ==
    LET outcome == IF leg[j].at = "ending" THEN "finished" ELSE "error" IN
    /\ leg[j].at \in {"ending", "failing"}
    /\ IF leg[j].status = "running"
         THEN /\ leg' = [leg EXCEPT ![j].status = outcome, ![j].at = "idle"]
              /\ IF outcome = "finished" THEN ReconcileFinished(j) ELSE ReconcileError(j)
         ELSE leg' = [leg EXCEPT ![j].at = "idle"] /\ UNCHANGED <<order, haul, cleanup>>
    /\ UNCHANGED <<office, sell, bought, arrived, landed, severed, mishaps>>

\* The report times out: the executor reschedules the job (once more) and reports an error.
LegReportLost(j) ==
    /\ leg[j].at \in {"ending", "failing"} /\ leg[j].status = "running" /\ Born
    /\ Mishap
    /\ leg' = [leg EXCEPT ![j].at = "failing",
                          ![NextLeg] = [leg[j] EXCEPT !.status = "queued", !.at = "idle", !.source = j]]
    /\ severed' = severed \cup {leg[j].of}
    /\ UNCHANGED <<order, office, sell, haul, cleanup, bought, arrived, landed>>

-----------------------------------------------------------------------------
(* SendResourcesRunner: the redistribution ("first"), its retries ("rest"), a retry of  *)
(* the recovery for a transport that had left ("watch"), and the arrival monitors.      *)

HaulStarts(h) ==
    /\ haul[h].status = "queued" /\ BuyerFree(haul[h].of)
    /\ haul' = [haul EXCEPT ![h].status = "running", ![h].at = "at_work"]
    /\ UNCHANGED <<order, office, sell, leg, cleanup, bought, arrived, landed, severed, mishaps>>

\* A child of h is created, or refused because h is over.
HaulChild(h, child, then) ==
    IF haul[h].status = "running"
      THEN /\ HaulBorn
           /\ haul' = [haul EXCEPT ![h].at = then,
                                   ![NextHaul] = [child EXCEPT !.status = "queued", !.at = "idle", !.sent = 0]]
      ELSE haul' = [haul EXCEPT ![h].at = "failing"]

\* What a reschedule creates: it is not order.redistribution_job.
Retry(h) == [haul[h] EXCEPT !.kind = IF @ = "first" THEN "rest" ELSE @]

\* No ships, a login that cools down, a monitor that looks again; or the ships are taken
\* to have left with a part, and nobody watches it.
HaulWaits(h) ==
    /\ haul[h].at = "at_work" /\ haul[h].kind # "watch"
    /\ \E n \in 1 .. haul[h].units :
        /\ n < haul[h].units => haul[h].kind \in {"first", "rest"}
        /\ HaulChild(h, [Retry(h) EXCEPT !.units = n], "ending")
    /\ UNCHANGED <<order, office, sell, leg, cleanup, bought, arrived, landed, severed, mishaps>>

\* As many units as there are ships for, and the checkpoint "dispatched".
HaulShips(h) ==
    /\ haul[h].at = "at_work" /\ haul[h].kind \in {"first", "rest"}
    /\ \E n \in 1 .. haul[h].units :
         haul' = [haul EXCEPT ![h].sent = n,
                              ![h].at = IF haul[h].status = "running" THEN "posted" ELSE "failing"]
    /\ UNCHANGED <<order, office, sell, leg, cleanup, bought, arrived, landed, severed, mishaps>>

\* The monitor of what has left ...
HaulWatched(h) ==
    LET n == IF haul[h].kind = "watch" THEN haul[h].units ELSE haul[h].sent IN
    /\ haul[h].at = "posted" \/ (haul[h].at = "at_work" /\ haul[h].kind = "watch")
    /\ HaulChild(h, [haul[h] EXCEPT !.kind = "monitor", !.units = n],
                 IF n < haul[h].units THEN "telling" ELSE "ending")
    /\ UNCHANGED <<order, office, sell, leg, cleanup, bought, arrived, landed, severed, mishaps>>

\* ... and the rest of it later.
HaulGoesOn(h) ==
    /\ haul[h].at = "telling"
    /\ HaulChild(h, [Retry(h) EXCEPT !.units = @ - haul[h].sent], "ending")
    /\ UNCHANGED <<order, office, sell, leg, cleanup, bought, arrived, landed, severed, mishaps>>

\* network_error_result(): the same job later, and an error.
HaulLosesNetwork(h) ==
    /\ haul[h].at \in {"at_work", "posted", "telling"}
    /\ HaulChild(h, Retry(h), "failing")
    /\ UNCHANGED <<order, office, sell, leg, cleanup, bought, arrived, landed, severed, mishaps>>

HaulFails(h) ==
    /\ haul[h].at \in {"at_work", "posted", "telling"}
    /\ haul' = [haul EXCEPT ![h].at = "failing"]
    /\ UNCHANGED <<order, office, sell, leg, cleanup, bought, arrived, landed, severed, mishaps>>

\* _confirm_arrival()
HaulArrives(h) ==
    /\ haul[h].at = "at_work" /\ haul[h].kind = "monitor"
    /\ landed' = [landed EXCEPT ![haul[h].of] = @ + haul[h].units]
    /\ haul' = [haul EXCEPT ![h].at = "ending"]
    /\ UNCHANGED <<order, office, sell, leg, cleanup, bought, arrived, severed, mishaps>>

\* reconcile_internal_order_for_job(): a monitor that finishes completes the order, also
\* one that only looks again later; the end of a retry goes unheeded.
HaulReports(h) ==
    LET o == haul[h].of
        accepted == haul[h].status = "running"
        outcome == IF haul[h].at = "ending" THEN "finished" ELSE "error" IN
    /\ haul[h].at \in {"ending", "failing"}
    /\ haul' = [haul EXCEPT ![h].status = IF accepted THEN outcome ELSE @,
                            ![h].at = "idle", ![h].sent = 0]
    /\ order' = IF accepted /\ outcome = "error" /\ haul[h].kind \in {"first", "monitor"}
                  THEN SetTerminal(o, "failed")
                ELSE IF accepted /\ outcome = "finished" /\ haul[h].kind = "monitor"
                  THEN SetTerminal(o, "completed")
                ELSE order
    /\ UNCHANGED <<office, sell, leg, cleanup, bought, arrived, landed, severed, mishaps>>

HaulReportLost(h) ==
    /\ haul[h].at \in {"ending", "failing"} /\ haul[h].status = "running" /\ HaulBorn
    /\ Mishap
    /\ HaulChild(h, Retry(h), "failing")
    /\ severed' = severed \cup {haul[h].of}
    /\ UNCHANGED <<order, office, sell, leg, cleanup, bought, arrived, landed>>

\* recover_stale_running_jobs(): job 2 is created again, unless a job of the chain is
\* active or a child of it recent.  Its agent is dead, or silent and still at work.
HaulRecovered(h, dead, requeued) ==
    LET o == haul[h].of IN
    /\ haul[h].status = "running"
    /\ Mishap
    /\ IF requeued THEN LiveHauls(o) = {h} /\ HaulBorn ELSE Hauls(o) # {h}
    /\ haul' = [k \in Haul |->
                 IF k = h THEN [haul[h] EXCEPT !.status = "cancelled", !.at = IF dead THEN "idle" ELSE @]
                 ELSE IF k = NextHaul /\ requeued
                   THEN IF haul[h].sent = 0
                          THEN [Retry(h) EXCEPT !.status = "queued", !.at = "idle"]
                          ELSE [haul[h] EXCEPT !.kind = "watch", !.status = "queued", !.at = "idle",
                                               !.units = haul[h].sent, !.sent = 0]
                 ELSE haul[k]]
    /\ severed' = IF requeued THEN severed ELSE severed \cup {o}
    /\ UNCHANGED <<order, office, sell, leg, cleanup, bought, arrived, landed>>

-----------------------------------------------------------------------------
(* What happens to the other jobs outside the market *)

\* JobCancelView (the runners go on until they report), or recover_stale_running_jobs()
\* for the agent that is dead, or silent and still at work (801 and 802 are not
\* requeued): the jobs end and the order is not told.
JobsEndUntold(o, outcome, dead) ==
    LET gone == IF outcome = "cancelled" THEN LiveJob ELSE {"running"} IN
    /\ \/ sell[o].status \in gone
       \/ \E j \in Legs(o) : leg[j].status \in gone
       \/ outcome = "cancelled" /\ LiveHauls(o) # {}
    /\ dead => outcome = "error"
    /\ Mishap
    /\ sell' = [sell EXCEPT ![o].status = IF @ \in gone THEN outcome ELSE @,
                            ![o].at = IF dead THEN "idle" ELSE @,
                            ![o].total = IF dead THEN 0 ELSE @,
                            ![o].again = @ /\ outcome = "error"]
    /\ leg' = [j \in Leg |->
                 IF leg[j].of = o /\ leg[j].status \in gone
                   THEN [leg[j] EXCEPT !.status = outcome, !.at = IF dead THEN "idle" ELSE @,
                                       !.got = IF dead THEN 0 ELSE @]
                   ELSE leg[j]]
    /\ haul' = IF outcome = "cancelled" THEN CancelHauls(o) ELSE haul
    /\ severed' = severed \cup {o}
    /\ UNCHANGED <<order, office, cleanup, bought, arrived, landed>>

\* Another player buys from the same offer.
StrangerBuys ==
    /\ office > 0
    /\ Mishap
    /\ office' = office - 1
    /\ UNCHANGED <<order, sell, leg, haul, cleanup, bought, arrived, landed, severed>>

-----------------------------------------------------------------------------
MarketNext ==
    \/ \E o \in Order :
        \/ PlaceOrder(o) \/ PlaceOrderLost(o) \/ CancelOrder(o)
        \/ SellStarts(o) \/ SellPosts(o) \/ SellTells(o) \/ SellFails(o) \/ SellReports(o)
        \/ CreateBuyJob(o, "ending") /\ UNCHANGED mishaps
        \/ CreateBuyJob(o, "failing") /\ Mishap
        \/ CleanupStarts(o) \/ CleanupPosts(o) \/ CleanupFails(o)
        \/ SellReportLost(o) \/ SellAgain(o)
        \/ \E outcome \in {"cancelled", "error"}, dead \in BOOLEAN : JobsEndUntold(o, outcome, dead)
    \/ \E j \in Leg :
        \/ LegStarts(j) \/ LegBuys(j) \/ LegMonitored(j) \/ LegWaits(j) \/ LegArrives(j)
        \/ LegFails(j) \/ LegOutOfGold(j) \/ LegReplyLost(j) \/ LegReports(j) \/ LegReportLost(j)
    \/ \E h \in Haul :
        \/ HaulStarts(h) \/ HaulWaits(h) \/ HaulShips(h) \/ HaulWatched(h) \/ HaulGoesOn(h)
        \/ HaulLosesNetwork(h) \/ HaulFails(h) \/ HaulArrives(h) \/ HaulReports(h) \/ HaulReportLost(h)
        \/ \E dead, requeued \in BOOLEAN : HaulRecovered(h, dead, requeued)
    \/ StrangerBuys

MarketSpec == MarketInit /\ [][MarketNext]_marketVars

-----------------------------------------------------------------------------
MarketTypeOK ==
    /\ order \in [Order -> {"none"} \cup OpenOrder \cup ClosedOrder]
    /\ office \in Nat
    /\ sell \in [Order -> [status : {"none"} \cup LiveJob \cup EndedJob, at : Runner, total : Nat,
                         again : BOOLEAN]]
    /\ \A j \in Leg :
        /\ leg[j].of \in Order \cup {0} /\ leg[j].status \in {"none"} \cup LiveJob \cup EndedJob
        /\ leg[j].at \in Runner /\ leg[j].amount \in 0 .. Amount
        /\ leg[j].got \in 0 .. leg[j].amount /\ leg[j].done \in 0 .. Amount
        /\ leg[j].source < j
    /\ \A h \in Haul :
        /\ haul[h].of \in Order \cup {0} /\ haul[h].status \in {"none"} \cup LiveJob \cup EndedJob
        /\ haul[h].at \in Runner /\ haul[h].kind \in {"first", "rest", "watch", "monitor"}
        /\ haul[h].units \in 0 .. Amount /\ haul[h].sent \in 0 .. haul[h].units
    /\ \A o \in Order : cleanup[o].keep \subseteq Order /\ cleanup[o].leftover \in 0 .. Amount
    /\ severed \subseteq Order
    /\ mishaps \in 0 .. MaxMishaps

\* The end of a retry of the redistribution is nobody's business.
HandedOver(o) == \E h \in Hauls(o) : haul[h].kind \in {"rest", "watch"} /\ haul[h].status \in EndedJob

\* An open order has a job that can bring it to its end: a sell job, a purchase or a
\* monitor, a transport.  Only a job cancelled from the job list or recovered, a hub that
\* dies while placing the order, a report that timed out and so ran a job twice, and a
\* retry of the redistribution that has ended leave one open without any.
OrderAlive ==
    \A o \in Order :
        Open(o) => \/ sell[o].status \in LiveJob
                   \/ LiveLegs(o) # {}
                   \/ LiveHauls(o) # {}
                   \/ HandedOver(o)
                   \/ o \in severed

\* An order is completed only when all its units were seen to arrive in the city they
\* were bought for, whatever is retried, runs twice or is reported late; one whose goods
\* go on, only when a monitor of the redistribution has finished as well.
CompletedBought ==
    \A o \in Order :
        order[o] = "completed" =>
            /\ arrived[o] >= Amount
            /\ o \in Hauled => \E h \in Hauls(o) : haul[h].kind = "monitor" /\ haul[h].status = "finished"

\* services.py:627, "Compra interna concluída com redistribuição confirmada": what was
\* to go on has been seen in the city that asked for it.  The code does not keep it.
RedistributionConfirmed ==
    \A o \in Hauled : order[o] = "completed" => landed[o] >= Amount

\* An open order whose redistribution has been handed to retries ends with them, unless
\* something else befalls it.  The code does not keep it: it heeds the end of the first
\* job and of monitors only.
HandedOverGoesOn ==
    \A o \in Hauled \ severed : Open(o) /\ HandedOver(o) => LiveHauls(o) # {}

Need(o) == IF Open(o) /\ (LiveLegs(o) # {} \/ sell[o].at \in {"posted", "telling"})
             THEN Max({Amount, bought[o]}) - bought[o] ELSE 0
CutBy(o) == cleanup[o].at = "read" /\ cleanup'[o].at = "idle" /\ office' < office

NewCleanup(o) == cleanup[o].status \notin LiveJob /\ cleanup'[o].status = "queued"

\* A cleanup keeps the units of every other order whose offer is out and which still has
\* units to buy, and leaves on sale what these still need, however long it waited and
\* whoever bought between its reading of the branch office and its writing.
KeptOrdersKept ==
    [][\A o \in Order :
         /\ NewCleanup(o) => {p \in Order \ {o} : sell[p].status = "finished" /\ Need(p) > 0}
                               \subseteq cleanup'[o].keep
         /\ CutBy(o) => office' >= MapThenSumSet(Need, cleanup[o].keep)]_marketVars

\* services.py:389, "never going below what other open internal orders still need
\* there": the same of every other order, also one published since.
OthersStaySupplied ==
    [][\A o \in Order : CutBy(o) => office' >= MapThenSumSet(Need, Order \ {o})]_marketVars
=============================================================================
