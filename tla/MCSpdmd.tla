------------------------------ MODULE MCSpdmd ------------------------------
(* Constant values for model checking Spdmd. *)
EXTENDS SpdmdInv

CONSTANTS d1, d2, d3

(* d1 and d2 are told apart by their names; a d3 has the name of d2, as    *)
(* two inventory objects with the same last path element have.             *)
SharedNames == [d \in Devices |-> IF d = d1 THEN "cpu" ELSE "gpu"]

(* d2 has no deviceObjectPath: no inventory object matched its EID. *)
MissingName == [d \in Devices |-> IF d = d1 THEN "cpu" ELSE IF d = d2 THEN "" ELSE "gpu"]

=============================================================================
