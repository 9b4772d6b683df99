-------------------------------- MODULE Books --------------------------------
(***************************************************************************)
(* What an account holds and how its books and its share orders move it:   *)
(* the ledger of every account, and the share orders of one.  This module  *)
(* names the state of both, their specifications and what they promise,    *)
(* for any requests, markets and sizes.                                    *)
(***************************************************************************)
EXTENDS Ledger

CONSTANTS ShareAccounts, ShareTrades, Delivered, SharePrices, Splits, Regular, Extended, MaxAge, ShareTime, ShareOrders

VARIABLES sharePlan, shareState, moves
shareVars == <<sharePlan, shareState, moves>>

A == INSTANCE Shares WITH Accounts <- ShareAccounts, Trades <- ShareTrades, Prices <- SharePrices,
                          MaxTime <- ShareTime, MaxOrders <- ShareOrders, rules <- sharePlan, state <- shareState

ASSUME SharesAssumption ==
  /\ ShareOrders \in Nat /\ ShareTime \in Nat /\ ShareTrades \subseteq Int /\ Delivered \subseteq Int
  /\ Splits \subseteq (Nat \ {0}) \X (Nat \ {0})
  /\ \A a \in ShareAccounts : a.requireStop \in BOOLEAN /\ \A r \in a.offers : A!Valid(r)

SharesSpec == A!Spec

(* What requires stops is covered by them; see Shares. *)
StopsCover == A!StopsCover
(* Of a pair one order fills and the other ends; see Shares. *)
SharePairsFillOnce == A!SharePairsFillOnce
=============================================================================
