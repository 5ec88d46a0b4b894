------------------------------ MODULE OrderLedger ------------------------------
(***************************************************************************)
(* OrderStock implements StockLedger: the columns of orders, lines and     *)
(* variants, read as units that are free or held.                          *)
(***************************************************************************)
EXTENDS OrderStock

(* An order holds its lines while OrderStatusPolicy calls it relevant for  *)
(* reservations; the cancelled and the issued hold nothing.                *)
HeldBy(o) == [v \in Variants |-> IF ReserveRelevant(o) THEN lines[o][v] ELSE 0]

LedgerState(o) ==
    IF ~Placed(o) THEN "none"
    ELSE IF ReserveRelevant(o) THEN "open"
    ELSE IF order[o].status = "cancelled" THEN "cancelled" ELSE "issued"

Ledger == INSTANCE StockLedger
    WITH MaxLine <- MaxQtyPerSku,
         free <- [v \in Variants |-> Available(v)],
         held <- [o \in Orders |-> HeldBy(o)],
         state <- [o \in Orders |-> LedgerState(o)]

(* Whatever customers, staff, the expiry task and the warehouse do to the  *)
(* columns, each step of theirs is one legal entry of the ledger, or none. *)
KeepsLedger == Ledger!LedgerSpec
===============================================================================
