----------------------------- MODULE WarehouseStock -----------------------------
(***************************************************************************)
(* The staff warehouse at the grain of its database statements.  No lock   *)
(* is held between reading a variant and writing it back, and the check    *)
(* before a deletion is not locked either, so customers and colleagues act *)
(* in between.  OrderStock is the atomic warehouse this one should look    *)
(* like.                                                                   *)
(*                                                                         *)
(* The environment is a parameter: with Overlap = FALSE the reservation of *)
(* a variant does not move while a request is open on it, and its row does *)
(* not go while it is being edited; with Overlap = TRUE anything happens.  *)
(***************************************************************************)
EXTENDS OrderStock

CONSTANTS
    Staff,    \* staff sessions, each with at most one request in progress
    Overlap   \* whether stock moves while a request is in progress

ASSUME OverlapAssumption == Overlap \in BOOLEAN

VARIABLE request   \* request[s]: what the request of s has read so far

stepVars == <<vars, request>>

(* step: where the request stands; rows: the variants it is about;         *)
(* reserved: the reserved_quantity it has read.                            *)
Steps == {"idle", "edit", "check_variant", "check_group", "delete_variant", "delete_group"}
Request == [step : Steps, rows : SUBSET Variants, reserved : Nat]
Idle == [step |-> "idle", rows |-> {}, reserved |-> 0]

Advance(s, r) == request' = [request EXCEPT ![s] = r]

-----------------------------------------------------------------------------
(* Editing stock: get_object, then clean_quantity and Model.save.          *)

LoadForm(s, v) ==
    /\ request[s] = Idle
    /\ v \in catalog
    /\ Advance(s, [step |-> "edit", rows |-> {v}, reserved |-> reserved[v]])
    /\ UNCHANGED vars

(* Fault: the form does not compare the quantity with the reservation.     *)
AcceptAnyQuantity(s, q) == TRUE
CleanQuantity(s, q) == q >= request[s].reserved

(* save() writes every column, the reserved_quantity read earlier too; on  *)
(* a row that is gone its UPDATE matches nothing and an INSERT follows.    *)
SaveForm(s, q) ==
    /\ request[s].step = "edit"
    /\ CleanQuantity(s, q)
    /\ catalog' = catalog \cup request[s].rows
    /\ quantity' = [v \in Variants |-> IF v \in request[s].rows THEN q ELSE quantity[v]]
    /\ reserved' = [v \in Variants |-> IF v \in request[s].rows THEN request[s].reserved
                                                                ELSE reserved[v]]
    /\ Advance(s, Idle)
    /\ UNCHANGED <<orderVars, taskVars>>

RejectForm(s, q) ==
    /\ request[s].step = "edit"
    /\ ~CleanQuantity(s, q)
    /\ Advance(s, Idle)
    /\ UNCHANGED vars

-----------------------------------------------------------------------------
(* Deleting: get_object, then the protection rule, then the DELETE.        *)

LoadVariant(s, v) ==
    /\ request[s] = Idle
    /\ v \in catalog
    /\ Advance(s, [step |-> "check_variant", rows |-> {v}, reserved |-> reserved[v]])
    /\ UNCHANGED vars

LoadGroup(s, vs) ==
    /\ request[s] = Idle
    /\ vs \cap catalog # {}
    /\ Advance(s, [step |-> "check_group", rows |-> vs, reserved |-> 0])
    /\ UNCHANGED vars

(* variant_has_active_reservations trusts the reserved_quantity it was     *)
(* given and asks for open orders only if that is not zero;                *)
(* product_has_active_orders and category_has_active_orders always ask.    *)
(* Fault: the rule for a variant is applied to products and categories.    *)
ProtectedByReservation(s) ==
    /\ request[s].reserved > 0
    /\ \E v \in request[s].rows : UsedByOpenOrder(v)
Protected(s) ==
    /\ request[s].step = "check_variant" => request[s].reserved > 0
    /\ \E v \in request[s].rows : UsedByOpenOrder(v)

CheckDelete(s) ==
    /\ request[s].step \in {"check_variant", "check_group"}
    /\ IF Protected(s)
       THEN Advance(s, Idle)
       ELSE Advance(s, [request[s] EXCEPT
                          !.step = IF @ = "check_variant" THEN "delete_variant"
                                                          ELSE "delete_group"])
    /\ UNCHANGED vars

(* With its product gone, a form on a variant can only fail to save (the   *)
(* INSERT has no row to point to): the request ends without effect.        *)
CommitDelete(s) ==
    /\ request[s].step \in {"delete_variant", "delete_group"}
    /\ RemoveVariants(request[s].rows)
    /\ request' = [t \in Staff |->
                     IF \/ t = s
                        \/ /\ request[s].step = "delete_group"
                           /\ request[t].step = "edit"
                           /\ request[t].rows \subseteq request[s].rows
                     THEN Idle ELSE request[t]]

-----------------------------------------------------------------------------
StaffStep(s) ==
    \/ \E v \in Variants : LoadForm(s, v) \/ LoadVariant(s, v)
    \/ \E q \in 0..MaxStock : SaveForm(s, q) \/ RejectForm(s, q)
    \/ \E vs \in Groups : LoadGroup(s, vs)
    \/ CheckDelete(s)
    \/ CommitDelete(s)

(* A new row has a new primary key, so no request that has loaded a        *)
(* variant means this one.                                                 *)
NewVariant(v, q) ==
    /\ \A s \in Staff :
          request[s].step \in {"edit", "check_variant", "delete_variant"} =>
              v \notin request[s].rows
    /\ CreateVariant(v, q)
    /\ UNCHANGED request

CustomerStep(o) == RequestNext(o) /\ UNCHANGED request

(* What the environment keeps still for the request of s when              *)
(* Overlap = FALSE.                                                        *)
Undisturbed(s) ==
    \A v \in request[s].rows :
        /\ reserved'[v] = reserved[v]
        /\ request[s].step = "edit" => v \in catalog'

StepInit == Init /\ request = [s \in Staff |-> Idle]

StepNext ==
    \/ \E s \in Staff :
         /\ StaffStep(s)
         /\ Overlap \/ \A t \in Staff \ {s} : Undisturbed(t)
    \/ /\ \/ \E o \in Orders : CustomerStep(o)
          \/ \E v \in Variants, q \in 0..MaxStock : NewVariant(v, q)
       /\ Overlap \/ \A t \in Staff : Undisturbed(t)

StepSpec == StepInit /\ [][StepNext]_stepVars

-----------------------------------------------------------------------------
(* Properties.                                                             *)

(* Requests keep their type, and so does everything OrderStock types,      *)
(* check constraint included: a stale save is at least consistent in       *)
(* itself.                                                                 *)
StepTypeOK == TypeOK /\ request \in [Staff -> Request]

(* If the reservations a request has read do not move under it, the        *)
(* statement-by-statement warehouse is the atomic one, although customers  *)
(* trade in other variants and colleagues work at the same time: every     *)
(* step is a step of OrderStock or changes nothing of its state.           *)
ImplementsOrderStock == Spec
===============================================================================
