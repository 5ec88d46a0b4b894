---------------------------- MODULE PickupCalendar -----------------------------
(***************************************************************************)
(* When a pickup order expires: add_business_days, the deadline, and the   *)
(* selection of a run of OrderAutoCancellationService, which cuts off by   *)
(* calendar days in the database, takes a batch of the oldest, and asks    *)
(* for the real deadline in Python.  OrderStock has the races of a run     *)
(* with everybody else and no calendar (Elapse); here is the calendar and  *)
(* no race.                                                                *)
(*                                                                         *)
(* Time counts parts of a day from midnight of a Monday, local time, whose *)
(* zone has no summer time.                                                *)
(***************************************************************************)
EXTENDS Integers, FiniteSets

CONSTANTS
    PickOrders,      \* pickup orders, as their primary keys
    PickRetentions,  \* values of ORDER_PICKUP_RETENTION_BUSINESS_DAYS
    PickBatch,       \* ORDER_AUTO_CANCEL_BATCH_SIZE
    PickDayParts,    \* parts of a day
    PickLastDay      \* bound: the last day

ASSUME PickAssumption ==
    /\ PickOrders \subseteq Nat /\ IsFiniteSet(PickOrders)
    /\ PickRetentions \subseteq Int /\ PickBatch \in Nat \ {0}
    /\ PickDayParts \in Nat \ {0} /\ PickLastDay \in Nat

VARIABLES
    pickRetention,  \* the setting; never changes
    pickNow,        \* the time
    pickStart,      \* pickStart[o]: confirmed_at or created_at; -1: not placed
    pickOpen        \* the orders a run may cancel

pickVars == <<pickRetention, pickNow, pickStart, pickOpen>>

-----------------------------------------------------------------------------
PickDay(t) == t \div PickDayParts
PickWorkday(day) == day % 7 < 5

(* The turns of the loop up to the next day that counts: the same hour of  *)
(* the next Monday to Friday.                                              *)
(* Fault: every day counts.                                                *)
PickNextDay(t) == t + PickDayParts
PickNextWorkday(t) ==
    LET k == CHOOSE k \in 1..3 :
               /\ PickWorkday(PickDay(t) + k)
               /\ \A j \in 1..(k - 1) : ~PickWorkday(PickDay(t) + j)
    IN t + k * PickDayParts

PickAddBusinessDays(t, n) ==
    LET f[i \in 0..n] == IF i = 0 THEN t ELSE PickNextWorkday(f[i - 1])
    IN IF n <= 0 THEN t ELSE f[n]

PickDeadline(o) == PickAddBusinessDays(pickStart[o], pickRetention)
PickExpired(o) == pickNow >= PickDeadline(o)

(* The rows of the query: started before the rough cutoff...               *)
PickRough ==
    LET days == IF pickRetention > 0 THEN pickRetention ELSE 0 IN
    {o \in pickOpen : pickStart[o] <= pickNow - days * PickDayParts}

(* ...the oldest first, as many as a batch holds.                          *)
PickBefore(o, p) ==
    \/ pickStart[o] < pickStart[p]
    \/ pickStart[o] = pickStart[p] /\ o < p
PickScanned ==
    {o \in PickRough : Cardinality({p \in PickRough : PickBefore(p, o)}) < PickBatch}

(* Of these the loop cancels the expired ones.                             *)
PickCancelled == {o \in PickScanned : PickExpired(o)}

-----------------------------------------------------------------------------
PickPlace(o) ==
    /\ pickStart[o] = -1
    /\ pickStart' = [pickStart EXCEPT ![o] = pickNow]
    /\ pickOpen' = pickOpen \cup {o}
    /\ UNCHANGED <<pickRetention, pickNow>>

PickTimePasses ==
    /\ pickNow < (PickLastDay + 1) * PickDayParts
    /\ pickNow' = pickNow + 1
    /\ UNCHANGED <<pickRetention, pickStart, pickOpen>>

(* Payment, issue, packing or another cancellation.                        *)
PickSettled(o) ==
    /\ o \in pickOpen
    /\ pickOpen' = pickOpen \ {o}
    /\ UNCHANGED <<pickRetention, pickNow, pickStart>>

(* cancel_expired_pickup_orders.                                           *)
PickSweep ==
    /\ pickOpen' = pickOpen \ PickCancelled
    /\ UNCHANGED <<pickRetention, pickNow, pickStart>>

-----------------------------------------------------------------------------
PickInit ==
    /\ pickRetention \in PickRetentions
    /\ pickNow = 0
    /\ pickStart = [o \in PickOrders |-> -1]
    /\ pickOpen = {}

PickNext ==
    \/ PickTimePasses \/ PickSweep
    \/ \E o \in PickOrders : PickPlace(o) \/ PickSettled(o)

PickSpec == PickInit /\ [][PickNext]_pickVars

-----------------------------------------------------------------------------
PickTypeOK ==
    /\ pickRetention \in PickRetentions /\ pickNow \in Nat
    /\ pickStart \in [PickOrders -> Nat \cup {-1}]
    /\ pickOpen \subseteq {o \in PickOrders : pickStart[o] # -1}

(* The definition a customer would give: the order has seen the hour of    *)
(* its confirmation come round again on so many working days.              *)
PickHadItsDays(o) ==
    LET whole == (pickNow - pickStart[o]) \div PickDayParts
        first == PickDay(pickStart[o]) + 1 IN
    Cardinality({d \in first..(first + whole - 1) : PickWorkday(d)}) >= pickRetention

(* The same without its hours: the order may be cancelled by midnight.     *)
PickDueToday(o) ==
    Cardinality({d \in (PickDay(pickStart[o]) + 1)..PickDay(pickNow) : PickWorkday(d)})
      >= pickRetention

(* At any moment a run would cancel only orders that have had their        *)
(* business days, and pass over one that has had them only for a whole     *)
(* batch of older ones that all fall due today: neither the cutoff by      *)
(* calendar days nor the places that young orders take in the batch hide   *)
(* an expired order beyond the day, over weekends and for any setting.     *)
PickSweepIsExact ==
    \A o \in pickOpen :
        /\ o \in PickCancelled => PickHadItsDays(o)
        /\ PickHadItsDays(o) /\ o \notin PickCancelled =>
             Cardinality({p \in pickOpen : PickBefore(p, o) /\ PickDueToday(p)}) >= PickBatch
===============================================================================
