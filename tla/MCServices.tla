----------------------------- MODULE MCServices -----------------------------
(* The services around the trading core, each a component of its own: a run
   chooses one at the start and lets only that one move, so their states add
   up and do not multiply. *)
EXTENDS Books, Services, TLC

VARIABLES
  part, \* the component that moves
  account, holdings, lots, groups, fixed

marginVars == <<account, holdings, lots, groups, fixed>>
services == <<part, deskVars, sandboxVars, breakerVars, failoverVars, noteVars, hostVars, playbackVars, vars, shareVars,
              marginVars, backtestVars>>

(* One underlying, of whose contracts the backup prices one; a pair of batches two
   ticks apart, with times between and beyond them to stop at. *)
MCContractsOf(u) == {"priced", "unpriced"}
(* What the books are entered with. *)
MCQuantities == {-3, 2}
MCRatios == {<<2, 1>>, <<3, 2>>, <<1, 3>>}

(* Requests for shares, and three accounts: one whose plan requires stops, one that
   pairs orders through halts and deliveries, and one through splits, resets and locks. *)
Request(side, shares, price, trigger, stopLoss, takeProfit) ==
  [side |-> side, shares |-> shares, limit |-> price, stop |-> trigger, gtc |-> FALSE, extended |-> FALSE,
   stopLoss |-> stopLoss, takeProfit |-> takeProfit, oco |-> <<>>]
Stopped == [requireStop |-> TRUE, buyOnly |-> FALSE, lucks |-> {"ok", "naked"}, feeds |-> {0},
            offers |-> {Request("buy", 2, 0, 0, 1, 3), Request("sell", 3, 2, 0, 3, 0)},
            commands |-> {"trade_stock", "close_shares"}, bound |-> 1]
PairedUp == [requireStop |-> FALSE, buyOnly |-> FALSE, lucks |-> {"ok", "gap"}, feeds |-> {0, 3},
             offers |-> {[Request("sell", 1, 3, 0, 0, 0) EXCEPT !.oco = <<Request("sell", 1, 0, 1, 0, 0)>>],
                         Request("buy", 2, 2, 0, 0, 3)},
             commands |-> {"deliver", "halt", "cancel", "cancel_all", "trade_stock"}, bound |-> 1]
LongOnly == [requireStop |-> TRUE, buyOnly |-> TRUE, lucks |-> {"ok", "refused"}, feeds |-> {0},
             offers |-> {[Request("buy", 2, 2, 0, 1, 0) EXCEPT !.gtc = TRUE, !.extended = TRUE]},
             commands |-> {"split", "reset_account", "lock"}, bound |-> 2]
MCShareAccounts == {Stopped, PairedUp, LongOnly}
MCSplits == {<<1, 2>>}
MCDelivered == {-1}
MCShareTrades == {-1, 2}

(* Contracts of one underlying at 30: puts in and out of the money, and calls of two
   expiries whose strikes make verticals, calendars and pools of three. *)
Contract(kind, strike, expiry, value) == [kind |-> kind, strike |-> strike, expiry |-> expiry, value |-> value]
MCSeries == {Contract("put", 35, 1, 55), Contract("put", 25, 1, 5), Contract("call", 30, 1, 20),
             Contract("call", 32, 1, 12), Contract("call", 30, 2, 28), Contract("call", 35, 2, 10)}
R == INSTANCE Margin WITH Series <- MCSeries, Spot <- 30, Types <- {"margin", "ira", "cash"}, MaxSize <- 2, MaxHeld <- 4

ServicesInit ==
  /\ part \in {"desk", "sandboxes", "breaker", "failover", "notifications", "host", "playback", "ledger", "shares",
               "margin", "backtests"}
  /\ D!Init /\ S!Init /\ B!Init /\ F!Init /\ N!Init /\ H!Init /\ P!Init /\ Init /\ A!Init /\ R!Init /\ K!Init
  /\ part # "playback" => prepare = 0 /\ ~flags.paused
  /\ part # "shares" => sharePlan = Stopped
  /\ part # "margin" => account = "margin"

(* Only the chosen component's variables change. *)
Others(p) ==
  /\ part = p /\ UNCHANGED part
  /\ IF p = "desk" THEN TRUE ELSE UNCHANGED deskVars
  /\ IF p = "sandboxes" THEN TRUE ELSE UNCHANGED sandboxVars
  /\ IF p = "breaker" THEN TRUE ELSE UNCHANGED breakerVars
  /\ IF p = "failover" THEN TRUE ELSE UNCHANGED failoverVars
  /\ IF p = "notifications" THEN TRUE ELSE UNCHANGED noteVars
  /\ IF p = "host" THEN TRUE ELSE UNCHANGED hostVars
  /\ IF p = "playback" THEN TRUE ELSE UNCHANGED playbackVars
  /\ IF p = "ledger" THEN TRUE ELSE UNCHANGED vars
  /\ IF p = "shares" THEN TRUE ELSE UNCHANGED shareVars
  /\ IF p = "margin" THEN TRUE ELSE UNCHANGED marginVars
  /\ IF p = "backtests" THEN TRUE ELSE UNCHANGED backtestVars
ServicesNext ==
  \/ Others("desk") /\ D!Next
  \/ Others("sandboxes") /\ S!Next
  \/ Others("breaker") /\ B!Next
  \/ Others("failover") /\ F!Next
  \/ Others("notifications") /\ N!Next
  \/ Others("host") /\ H!Next
  \/ Others("playback") /\ P!Next
  \/ Others("ledger") /\ Next
  \/ Others("shares") /\ A!Next
  \/ Others("margin") /\ R!Next
  \/ Others("backtests") /\ K!Next
ServicesSpec == ServicesInit /\ [][ServicesNext]_services

(* Exits end with the shares they protect; see Shares. *)
ExitsEndWithTheirShares == part = "shares" => A!ExitsEndWithTheirShares
(* The exact margin requirement is the least legal one; see Margin. *)
RequirementIsLeast == part = "margin" => R!RequirementIsLeast
(* The fallback holds enough, for every contract; see Margin. *)
FallbackIsLegal == part = "margin" => R!FallbackIsLegal
=============================================================================
