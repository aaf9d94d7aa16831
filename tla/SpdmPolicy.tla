----------------------------- MODULE SpdmPolicy -----------------------------
(***************************************************************************)
(* What the daemon promises whoever watches it on D-Bus: which devices are *)
(* exported, which of them have a secure session, and how the two policy   *)
(* properties, the discovery and the end of the process change that.       *)
(*                                                                         *)
(* One task runs at a time.  A task that removes (remove, replace, close,  *)
(* exit) never adds, one that adds (populate, open) never removes anything *)
(* it did not add, and populate only starts on an empty table.  Spdmd      *)
(* implements this module.                                                 *)
(***************************************************************************)
CONSTANT Devices

VARIABLES
    boot,           \* the policy every start of the process begins with
    enabled, secure,        \* Enabled and SecureSessionEnabled
    discovery, devices,     \* has discovery answered, and with what
    exported,       \* devices whose D-Bus objects exist
    sessions,       \* devices whose SpdmSession is active
    task            \* what the daemon is busy with

pvars == <<boot, enabled, secure, discovery, devices, exported, sessions, task>>

Init ==
    /\ boot \in [enabled : BOOLEAN, secure : BOOLEAN]
    /\ enabled = boot.enabled /\ secure = boot.secure
    /\ discovery = "pending" /\ devices = {}
    /\ exported = {} /\ sessions = {}
    /\ task = "down"

Start ==
    /\ task = "down" /\ task' = "idle"
    /\ UNCHANGED <<boot, enabled, secure, discovery, devices, exported, sessions>>

(* The process ends, at any moment: everything but the boot policy is gone. *)
End ==
    /\ task # "down" /\ task' = "down"
    /\ enabled' = boot.enabled /\ secure' = boot.secure
    /\ discovery' = "pending" /\ devices' = {}
    /\ exported' = {} /\ sessions' = {}
    /\ UNCHANGED boot

SetEnabled ==
    /\ task = "idle"
    /\ enabled' = ~enabled
    /\ task' = (IF enabled' THEN "replace" ELSE "remove")
    /\ UNCHANGED <<boot, secure, discovery, devices, exported, sessions>>

SetSecure ==
    /\ task = "idle"
    /\ secure' = ~secure
    /\ task' = (IF ~enabled THEN "idle" ELSE IF secure' THEN "open" ELSE "close")
    /\ UNCHANGED <<boot, enabled, discovery, devices, exported, sessions>>

Discovered ==
    /\ task = "idle" /\ discovery = "pending"
    /\ discovery' = "done"
    /\ devices' \in SUBSET Devices
    /\ task' = (IF enabled THEN "replace" ELSE "idle")
    /\ UNCHANGED <<boot, enabled, secure, exported, sessions>>

Leave ==
    /\ task = "idle" /\ task' = "exit"
    /\ UNCHANGED <<boot, enabled, secure, discovery, devices, exported, sessions>>

(* A session goes, alone or with the objects of its device. *)
Close(d) ==
    /\ task \in {"remove", "replace", "close"}
    /\ d \in sessions
    /\ sessions' = sessions \ {d}
    /\ UNCHANGED <<boot, enabled, secure, discovery, devices, exported, task>>

Withdraw(d) ==
    /\ task \in {"remove", "replace", "exit"}
    /\ d \in exported
    /\ exported' = exported \ {d}
    /\ sessions' = sessions \ {d}
    /\ UNCHANGED <<boot, enabled, secure, discovery, devices, task>>

(* Every device of the last discovery starts from nothing. *)
Populate ==
    /\ task = "replace" /\ task' = "populate"
    /\ exported = {}
    /\ UNCHANGED <<boot, enabled, secure, discovery, devices, exported, sessions>>

Export(d) ==
    /\ task = "populate"
    /\ d \in devices \ exported
    /\ exported' = exported \cup {d}
    /\ UNCHANGED <<boot, enabled, secure, discovery, devices, sessions, task>>

(* The device did not answer: its objects go again. *)
GiveUp(d) ==
    /\ task = "populate"
    /\ d \in exported \ sessions
    /\ exported' = exported \ {d}
    /\ UNCHANGED <<boot, enabled, secure, discovery, devices, sessions, task>>

Open(d) ==
    /\ task \in {"populate", "open"}
    /\ enabled /\ secure
    /\ d \in exported \ sessions
    /\ sessions' = sessions \cup {d}
    /\ UNCHANGED <<boot, enabled, secure, discovery, devices, exported, task>>

(* The task is over when what it had to remove is gone. *)
Done ==
    /\ \/ task = "remove" /\ exported = {}
       \/ task = "close" /\ sessions = {}
       \/ task \in {"populate", "open"}
    /\ task' = "idle"
    /\ UNCHANGED <<boot, enabled, secure, discovery, devices, exported, sessions>>

Next ==
    \/ Start \/ End \/ SetEnabled \/ SetSecure \/ Discovered \/ Leave
    \/ Populate \/ Done
    \/ \E d \in Devices : Close(d) \/ Withdraw(d) \/ Export(d) \/ GiveUp(d) \/ Open(d)

Spec == Init /\ [][Next]_pvars

=============================================================================
