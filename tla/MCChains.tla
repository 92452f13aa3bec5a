------------------------------ MODULE MCChains ------------------------------
(***************************************************************************)
(* Jobs that lead to one another by what they tell the hub, for TLC: the   *)
(* rounds and children of a spy campaign, and the jobs of the market's     *)
(* orders.  They share no state: one of them is chosen at the start        *)
(* (chain), and the other stays as it begins.                              *)
(***************************************************************************)
EXTENDS CampaignMailbox, InternalMarket, TLC

VARIABLE chain

Init == chain \in {"campaign", "market"} /\ CampaignInit /\ MarketInit

InCampaign == chain = "campaign" /\ UNCHANGED <<chain, marketVars>>
\* Bound: orders are placed in their sequence, and one whose goods go on is alone.
InTurn(o) ==
    \A p \in Order \ {o} :
        /\ order[p] # "none" => p \notin Hauled /\ o \notin Hauled
        /\ p < o /\ {p, o} \cap Hauled = {} => order[p] # "none"

\* Bound: such an order may use every leg, others have two between them.
LegsLeft ==
    (\E o \in Hauled : order[o] # "none") \/ Cardinality({j \in Leg : leg[j].status # "none"}) <= 2

Market == chain = "market" /\ UNCHANGED <<chain, vars>>

\* The actions are listed again, so that a run's statistics tell them apart.
CampaignMoves ==
    \/ \E c \in Campaign :
        \/ InCampaign /\ AskTargets(c)
        \/ InCampaign /\ Complete(c)
        \/ InCampaign /\ CreateFallback(c)
        \/ InCampaign /\ FallbackRefused(c)
        \/ InCampaign /\ GiveUp(c)
        \/ \E t \in Target, s \in Safehouse :
            \/ InCampaign /\ Spawn(c, t, s)
            \/ InCampaign /\ SpawnFails(c, t, s)
        \/ InCampaign /\ SyncClaims(c)
        \/ InCampaign /\ EndRound(c)
        \/ InCampaign /\ AskFails(c)
        \/ InCampaign /\ FallbackUnknown(c)
        \/ InCampaign /\ RoundLost(c)
    \/ \E r \in Round :
        \/ InCampaign /\ StartRound(r)
        \/ InCampaign /\ RecoverRound(r)
        \/ InCampaign /\ CancelRound(r)
    \/ \E k \in Child :
        \/ InCampaign /\ ChildWorks(k)
        \/ InCampaign /\ NotifyReads(k)
        \/ InCampaign /\ NotifyAppends(k)
        \/ InCampaign /\ NotifyFindsItOver(k)
        \/ InCampaign /\ ReviveCampaign(k)
        \/ InCampaign /\ ChildEnds(k)
        \/ InCampaign /\ NoticeLost(k)
        \/ InCampaign /\ ChildLost(k)

MarketMoves ==
    \/ \E o \in Order :
        \/ Market /\ InTurn(o) /\ PlaceOrder(o)
        \/ Market /\ InTurn(o) /\ PlaceOrderLost(o)
        \/ Market /\ CancelOrder(o)
        \/ Market /\ SellStarts(o)
        \/ Market /\ SellPosts(o)
        \/ Market /\ SellTells(o)
        \/ Market /\ SellFails(o)
        \/ Market /\ SellReports(o)
        \/ Market /\ CreateBuyJob(o, "ending") /\ UNCHANGED mishaps /\ LegsLeft'
        \/ Market /\ CreateBuyJob(o, "failing") /\ Mishap /\ LegsLeft'
        \/ Market /\ CleanupStarts(o)
        \/ Market /\ CleanupPosts(o)
        \/ Market /\ CleanupFails(o)
        \/ Market /\ SellReportLost(o)
        \/ Market /\ SellAgain(o)
        \/ \E outcome \in {"cancelled", "error"}, dead \in BOOLEAN :
            Market /\ JobsEndUntold(o, outcome, dead)
    \/ \E j \in Leg :
        \/ Market /\ LegStarts(j)
        \/ Market /\ LegBuys(j)
        \/ Market /\ LegMonitored(j) /\ LegsLeft'
        \/ Market /\ LegWaits(j) /\ LegsLeft'
        \/ Market /\ LegArrives(j) /\ LegsLeft'
        \/ Market /\ LegFails(j)
        \/ Market /\ LegOutOfGold(j)
        \/ Market /\ LegReplyLost(j)
        \/ Market /\ LegReports(j)
        \/ Market /\ LegReportLost(j) /\ LegsLeft'
    \/ \E h \in Haul :
        \/ Market /\ HaulStarts(h)
        \/ Market /\ HaulWaits(h)
        \/ Market /\ HaulShips(h)
        \/ Market /\ HaulWatched(h)
        \/ Market /\ HaulGoesOn(h)
        \/ Market /\ HaulLosesNetwork(h)
        \/ Market /\ HaulFails(h)
        \/ Market /\ HaulArrives(h)
        \/ Market /\ HaulReports(h)
        \/ Market /\ HaulReportLost(h)
        \/ \E dead, requeued \in BOOLEAN : Market /\ HaulRecovered(h, dead, requeued)
    \/ Market /\ StrangerBuys

ChainsSpec == Init /\ [][CampaignMoves \/ MarketMoves]_<<chain, vars, marketVars>>

ChainsTypeOK == IF chain = "campaign" THEN CampaignTypeOK ELSE MarketTypeOK

\* Targets and safehouses are interchangeable.
Symmetry == Permutations(Target) \cup Permutations(Safehouse)
=============================================================================
