------------------------------ MODULE StockLedger ------------------------------
(***************************************************************************)
(* What the shop promises about its stock, without saying how: a unit is   *)
(* free, or one open order holds it.  Placing an order takes units out of  *)
(* what is free and nothing else does, a cancellation gives exactly these  *)
(* units back, an issue takes them out of the shop, and each order ends    *)
(* once.  OrderStock implements it (OrderLedger).                          *)
(***************************************************************************)
EXTENDS Naturals

CONSTANTS
    Orders,    \* orders
    Variants,  \* product variants
    MaxLine    \* the most units of a variant an order holds

VARIABLES
    free,   \* free[v]: units of v that nobody holds
    held,   \* held[o][v]: units of v that o holds
    state   \* state[o]: "none", "open", "cancelled" or "issued"

ledgerVars == <<free, held, state>>

-----------------------------------------------------------------------------
Nothing == [v \in Variants |-> 0]
LedgerStates == {"none", "open", "cancelled", "issued"}

Hold(o) ==
    /\ state[o] = "none" /\ state' = [state EXCEPT ![o] = "open"]
    /\ \E want \in [Variants -> 0..MaxLine] :
         /\ held' = [held EXCEPT ![o] = want]
         /\ want # Nothing
         /\ \A v \in Variants : want[v] <= free[v]
         /\ free' = [v \in Variants |-> free[v] - want[v]]

GiveBack(o) ==
    /\ state[o] = "open" /\ state' = [state EXCEPT ![o] = "cancelled"]
    /\ held' = [held EXCEPT ![o] = Nothing]
    /\ free' = [v \in Variants |-> free[v] + held[o][v]]

HandOver(o) ==
    /\ state[o] = "open" /\ state' = [state EXCEPT ![o] = "issued"]
    /\ held' = [held EXCEPT ![o] = Nothing]
    /\ UNCHANGED free

(* Staff count, add and remove stock, but never what an order holds.       *)
Recount ==
    /\ free' \in [Variants -> Nat]
    /\ UNCHANGED <<held, state>>

-----------------------------------------------------------------------------
LedgerInit ==
    /\ free = Nothing
    /\ held = [o \in Orders |-> Nothing]
    /\ state = [o \in Orders |-> "none"]

LedgerNext == Recount \/ \E o \in Orders : Hold(o) \/ GiveBack(o) \/ HandOver(o)

LedgerSpec == LedgerInit /\ [][LedgerNext]_ledgerVars
===============================================================================
