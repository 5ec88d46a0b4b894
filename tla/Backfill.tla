------------------------------- MODULE Backfill --------------------------------
(***************************************************************************)
(* backfill_stock_reservations: the command that gives reservations to the *)
(* orders placed before checkout reserved stock.  Their units left         *)
(* quantity at checkout, so the command adds to both columns.  It is meant *)
(* for a maintenance window in which checkout refuses, but cancellations   *)
(* and issues go on, and --force runs it beside everything.                *)
(*                                                                         *)
(* A request and the command lock the rows of their variants one after the *)
(* other in the order of their keys; what they write appears at COMMIT.    *)
(***************************************************************************)
EXTENDS Naturals, FiniteSets

CONSTANTS
    BackOrders,    \* orders
    BackVariants,  \* primary keys of variants
    BackRuns,      \* runs of the command
    BackLineMax    \* bound: units of a variant in an order

ASSUME BackAssumption ==
    /\ BackVariants \subseteq Nat /\ BackLineMax \in Nat
    /\ IsFiniteSet(BackOrders) /\ BackOrders \cap BackRuns = {}
    /\ "nobody" \notin BackOrders \cup BackRuns

VARIABLES
    backLines,     \* backLines[o][v]: units of v in o; never changes
    backOrder,     \* backOrder[o]: "none", "active" or "final", as committed
    backQuantity,  \* ProductVariant.quantity
    backReserved,  \* ProductVariant.reserved_quantity
    backMode,      \* STOCK_RESERVE_MODE_ENABLED
    backRow,       \* backRow[v]: who holds the row of v, or "nobody"
    backActor,     \* backActor[a]: the open transaction of an order or a run
    backShelf,     \* history: the units really there
    backClamped    \* history: has a release found less than it should take?

backStock == <<backQuantity, backReserved, backShelf, backClamped>>
backVars == <<backLines, backOrder, backStock, backMode, backRow, backActor>>

-----------------------------------------------------------------------------
BackActors == BackOrders \cup BackRuns
BackSteps == {"idle", "checkout", "cancel", "issue", "lock", "apply", "applied", "done"}
BackActor == [step : BackSteps, demand : [BackVariants -> Nat]]
BackIdle == [step |-> "idle", demand |-> [v \in BackVariants |-> 0]]

BackAt(a, step) == backActor[a].step = step
BackTo(a, step) == backActor' = [backActor EXCEPT ![a] = [BackIdle EXCEPT !.step = step]]
BackUnlock(a) == backRow' = [v \in BackVariants |-> IF backRow[v] = a THEN "nobody" ELSE backRow[v]]

BackNeeds(a) == IF a \in BackRuns THEN BackVariants ELSE {v \in BackVariants : backLines[a][v] > 0}
BackHasAll(a) == \A v \in BackNeeds(a) : backRow[v] = a

(* _get_active_order_demand, per variant.                                  *)
BackDemanded(v) ==
    Cardinality({u \in BackOrders \X (1..BackLineMax) :
                   backOrder[u[1]] = "active" /\ u[2] <= backLines[u[1]][v]})

-----------------------------------------------------------------------------
(* A checkout needs reserve mode; a cancellation and an issue do not.      *)
BackAsk(o, kind) ==
    /\ BackAt(o, "idle")
    /\ kind = "checkout" <=> backOrder[o] = "none"
    /\ kind = "checkout" => backMode
    /\ backOrder[o] # "final"
    /\ BackTo(o, kind)
    /\ UNCHANGED <<backLines, backOrder, backStock, backMode, backRow>>

(* --apply is refused in reserve mode without --force.                     *)
BackStart(c) ==
    /\ BackAt(c, "idle")
    /\ \E force \in BOOLEAN : BackTo(c, IF backMode /\ ~force THEN "done" ELSE "lock")
    /\ UNCHANGED <<backLines, backOrder, backStock, backMode, backRow>>

BackLock(a) ==
    /\ backActor[a].step \in {"checkout", "cancel", "issue", "lock"}
    /\ \E v \in BackNeeds(a) :
         /\ backRow[v] = "nobody"
         /\ \A w \in BackNeeds(a) : w < v => backRow[w] = a
         /\ backRow' = [backRow EXCEPT ![v] = a]
    /\ UNCHANGED <<backLines, backOrder, backStock, backMode, backActor>>

(* reserve_variant of every line, or the whole checkout fails.             *)
BackCheckout(o) ==
    /\ BackAt(o, "checkout") /\ BackHasAll(o)
    /\ \/ /\ \A v \in BackNeeds(o) : backQuantity[v] >= backReserved[v] + backLines[o][v]
          /\ backReserved' = [v \in BackVariants |-> backReserved[v] + backLines[o][v]]
          /\ backOrder' = [backOrder EXCEPT ![o] = "active"]
       \/ /\ \E v \in BackNeeds(o) : backQuantity[v] < backReserved[v] + backLines[o][v]
          /\ UNCHANGED <<backReserved, backOrder>>
    /\ BackTo(o, "idle") /\ BackUnlock(o)
    /\ UNCHANGED <<backLines, backQuantity, backShelf, backClamped, backMode>>

(* release_variant_reservation of every line, clamped at zero: the order   *)
(* may be one that never reserved.                                         *)
BackCancel(o) ==
    /\ BackAt(o, "cancel") /\ BackHasAll(o)
    /\ backReserved' = [v \in BackVariants |->
                          IF backLines[o][v] <= backReserved[v]
                          THEN backReserved[v] - backLines[o][v] ELSE 0]
    /\ backClamped' = (backClamped \/ \E v \in BackVariants : backLines[o][v] > backReserved[v])
    /\ backOrder' = [backOrder EXCEPT ![o] = "final"]
    /\ BackTo(o, "idle") /\ BackUnlock(o)
    /\ UNCHANGED <<backLines, backQuantity, backShelf, backMode>>

(* issue_variant of every line, or the issue is refused.                   *)
BackIssue(o) ==
    LET covered == \A v \in BackNeeds(o) : /\ backLines[o][v] <= backQuantity[v]
                                           /\ backLines[o][v] <= backReserved[v] IN
    /\ BackAt(o, "issue") /\ BackHasAll(o)
    /\ \/ /\ covered
          /\ backQuantity' = [v \in BackVariants |-> backQuantity[v] - backLines[o][v]]
          /\ backReserved' = [v \in BackVariants |-> backReserved[v] - backLines[o][v]]
          /\ backShelf' = [v \in BackVariants |-> backShelf[v] - backLines[o][v]]
          /\ backOrder' = [backOrder EXCEPT ![o] = "final"]
       \/ ~covered /\ UNCHANGED <<backQuantity, backReserved, backShelf, backOrder>>
    /\ BackTo(o, "idle") /\ BackUnlock(o)
    /\ UNCHANGED <<backLines, backClamped, backMode>>

-----------------------------------------------------------------------------
(* The demand is read once the rows of all variants are locked.            *)
(* Fault: select_for_update is forgotten.                                  *)
BackReadsUnlocked(c) == BackAt(c, "lock")
BackMayRead(c) == BackAt(c, "lock") /\ BackHasAll(c)

BackRead(c) ==
    /\ BackMayRead(c)
    /\ backActor' = [backActor EXCEPT ![c] =
         [step |-> "apply", demand |-> [v \in BackVariants |-> BackDemanded(v)]]]
    /\ UNCHANGED <<backLines, backOrder, backStock, backMode, backRow>>

(* What is missing is added to both columns; too much is only reported.    *)
BackMissing(c, v) ==
    IF backActor[c].demand[v] > backReserved[v]
    THEN backActor[c].demand[v] - backReserved[v] ELSE 0

BackApply(c) ==
    /\ BackAt(c, "apply")
    /\ backQuantity' = [v \in BackVariants |-> backQuantity[v] + BackMissing(c, v)]
    /\ backReserved' = [v \in BackVariants |-> backReserved[v] + BackMissing(c, v)]
    /\ BackTo(c, "applied") /\ BackUnlock(c)
    /\ UNCHANGED <<backLines, backOrder, backShelf, backClamped, backMode>>

(* A dry run, an error or a death rolls back.                              *)
BackRollBack(c) ==
    /\ backActor[c].step \in {"lock", "apply"}
    /\ BackTo(c, "done") /\ BackUnlock(c)
    /\ UNCHANGED <<backLines, backOrder, backStock, backMode>>

-----------------------------------------------------------------------------
(* Orders of both times: the old ones took their units out of quantity.    *)
BackInit ==
    \E old \in SUBSET BackOrders, shelf \in [BackVariants -> 0..(2 * BackLineMax)] :
        LET Old(v) == Cardinality({u \in old \X (1..BackLineMax) : u[2] <= backLines[u[1]][v]}) IN
        /\ backLines \in [BackOrders -> [BackVariants -> 0..BackLineMax]]
        /\ \A o \in BackOrders : \E v \in BackVariants : backLines[o][v] > 0
        /\ \A v \in BackVariants : Old(v) <= shelf[v]
        /\ backOrder = [o \in BackOrders |-> IF o \in old THEN "active" ELSE "none"]
        /\ backQuantity = [v \in BackVariants |-> shelf[v] - Old(v)]
        /\ backReserved = [v \in BackVariants |-> 0]
        /\ backMode \in BOOLEAN
        /\ backRow = [v \in BackVariants |-> "nobody"]
        /\ backActor = [a \in BackActors |-> BackIdle]
        /\ backShelf = shelf /\ backClamped = FALSE

BackNext ==
    \/ \E o \in BackOrders :
         \/ \E kind \in {"checkout", "cancel", "issue"} : BackAsk(o, kind)
         \/ BackCheckout(o) \/ BackCancel(o) \/ BackIssue(o)
    \/ \E c \in BackRuns : BackStart(c) \/ BackRead(c) \/ BackApply(c) \/ BackRollBack(c)
    \/ \E a \in BackActors : BackLock(a)

BackSpec == BackInit /\ [][BackNext]_backVars

-----------------------------------------------------------------------------
BackTypeOK ==
    /\ backLines \in [BackOrders -> [BackVariants -> 0..BackLineMax]]
    /\ backOrder \in [BackOrders -> {"none", "active", "final"}]
    /\ backQuantity \in [BackVariants -> Nat] /\ backReserved \in [BackVariants -> Nat]
    /\ \A v \in BackVariants : backReserved[v] <= backQuantity[v]
    /\ backMode \in BOOLEAN
    /\ backRow \in [BackVariants -> BackActors \cup {"nobody"}]
    /\ backActor \in [BackActors -> BackActor]
    /\ backShelf \in [BackVariants -> Nat] /\ backClamped \in BOOLEAN

(* A run that commits leaves every variant with exactly the reservation    *)
(* its active orders need, whatever was placed, cancelled or issued beside *)
(* it and however often it is run, and with what is really there; only the *)
(* units of old orders that were cancelled before the run stay lost.       *)
BackfillMakesExact ==
    [][\A c \in BackRuns :
         BackAt(c, "apply") /\ BackAt(c, "applied")' =>
           \A v \in BackVariants :
             /\ backReserved'[v] = BackDemanded(v)'
             /\ backQuantity'[v] <= backShelf'[v]
             /\ ~backClamped => backQuantity'[v] = backShelf'[v]]_backVars
===============================================================================
