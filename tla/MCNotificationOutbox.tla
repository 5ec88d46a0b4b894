-------------------------- MODULE MCNotificationOutbox --------------------------
(* Instances of NotificationOutbox for TLC. *)
EXTENDS NotificationOutbox

CONSTANTS n1, n2, j1, j2, j3

(* One of the two notices goes to the staff, the other to a customer.  n1  *)
(* can be delivered: to a customer by three jobs, to the staff by two.     *)
MCInit ==
    /\ forStaff \in {{n1}, {n2}}
    /\ row = [n \in Notices |-> "none"]
    /\ job = [j \in Jobs |-> IF forStaff = {n1} /\ j = j3
                             THEN [NoJob EXCEPT !.step = "done", !.notice = n1] ELSE NoJob]
    /\ mail = Zero /\ lost = Zero /\ overwritten = Zero /\ died = Zero
MCSpec == MCInit /\ [][Next]_vars
MCFairSpec == MCSpec /\ \A j \in Jobs : WF_vars(Work(j))
===============================================================================
