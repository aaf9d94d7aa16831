-------------------------- MODULE DiscoveryContract --------------------------
(***************************************************************************)
(* What a DiscoveryProtocol promises the daemon: the callback given to     *)
(* discoverDevices runs at most once in the life of a process, and what it *)
(* hands over is the daemon's device list until the process ends.          *)
(* Discovery implements it; Spdmd, whose callback receives the list,       *)
(* implements it too, so the two modules meet here.                        *)
(***************************************************************************)
CONSTANT Devices

VARIABLES discovery, devices

Init == discovery = "pending" /\ devices = {}

(* The callback runs.  It may get fewer devices than there are, or none:   *)
(* failures are reported as an empty list.                                 *)
Deliver ==
    /\ discovery = "pending"
    /\ discovery' = "done"
    /\ devices' \in SUBSET Devices

(* A new process knows no device. *)
Restart == discovery' = "pending" /\ devices' = {}

Next == Deliver \/ Restart

Spec == Init /\ [][Next]_<<discovery, devices>>

=============================================================================
