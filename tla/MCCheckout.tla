------------------------------ MODULE MCCheckout ------------------------------
(* Instances of Checkout for TLC. *)
EXTENDS Checkout, TLC

CONSTANTS u, g, h, b1, b2, b3, b4, r1, r2, r3, t1, t2, i1, i2

(* A user u with two devices and two guests g and h who give the same      *)
(* email (key 2) from sessions of their own (1 and 3); the user row is 4.  *)
MCKeysOf == u :> {4} @@ g :> {1, 2} @@ h :> {2, 3}
GuestKeysOf == g :> {1, 2} @@ h :> {2, 3}
MCCustomerOf == b1 :> u @@ b2 :> u @@ b3 :> g @@ b4 :> h
GuestOf == b3 :> g @@ b4 :> h
OneEach == [k \in Keys |-> 1]

Alike == Permutations({r1, r2, r3}) \cup Permutations({t1, t2})
             \cup Permutations({i1, i2})
=============================================================================
