-------------------------- MODULE MCWarehouseStock --------------------------
(* Instances of WarehouseStock for TLC. *)
EXTENDS WarehouseStock

CONSTANTS v1, v2, s1, s2

(* Two products of one variant each, in one category. *)
MCGroups == {{v1}, {v2}, {v1, v2}}
OneGroup == {{v1}}
=============================================================================
