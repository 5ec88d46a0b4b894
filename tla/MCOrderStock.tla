---------------------------- MODULE MCOrderStock ----------------------------
(* Instances of OrderStock for TLC. *)
EXTENDS OrderLedger, TLC

CONSTANTS v1, v2

(* Two products of one variant each, in one category. *)
MCGroups == {{v1}, {v2}, {v1, v2}}
OneGroup == {{v1}}

Alike == Permutations({v1, v2})
=============================================================================
