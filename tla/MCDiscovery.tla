---------------------------- MODULE MCDiscovery ----------------------------
(* Constant values for model checking Discovery. *)
EXTENDS Discovery

(* Two good endpoints, and one object for each check that fails. *)
SomeEndpoints ==
    {[spdm |-> TRUE, eid |-> 8, uuid |-> TRUE],
     [spdm |-> TRUE, eid |-> 9, uuid |-> TRUE],
     [spdm |-> FALSE, eid |-> 8, uuid |-> TRUE],
     [spdm |-> TRUE, eid |-> 255, uuid |-> TRUE],
     [spdm |-> TRUE, eid |-> Missing, uuid |-> TRUE],
     [spdm |-> TRUE, eid |-> 9, uuid |-> FALSE]}

Requester(e) ==
    [interface |-> "SpdmMctpRequester", eid |-> e, host |-> FALSE, port |-> Missing]
Endpoint(h, p) ==
    [interface |-> "SpdmTcpEndpoint", eid |-> Missing, host |-> h, port |-> p]

(* 264 is 8 in its low byte; 67859 is 2323 in its low 16 bits, and 65536   *)
(* is 0.                                                                   *)
SomeConfigs ==
    {Requester(8), Requester(264), Requester(Missing),
     Endpoint(TRUE, 2323), Endpoint(TRUE, 67859), Endpoint(TRUE, 65536),
     Endpoint(TRUE, 0), Endpoint(FALSE, 2323)}

=============================================================================
