---------------------------- MODULE SpdmContext ----------------------------
(***************************************************************************)
(* The life of one libspdm context, as libspdm expects to be used: it is   *)
(* set up, then configured, then connected, and sessions are opened on a   *)
(* connection only.  Connecting again throws the sessions away, and so     *)
(* does putting a new context in its place.                                *)
(*                                                                         *)
(* Spdmd and SessionConfig look at the same context from two sides: the    *)
(* daemon knows when its handlers call what, the configuration knows what  *)
(* a call does inside.  Both implement this module, which is what lets one *)
(* be read without the other.                                              *)
(***************************************************************************)
VARIABLES
    state,          \* "none", "raw", "initialized", "configured", "negotiated"
    session         \* does libspdm know the session id the program holds?

vars == <<state, session>>

Init == state = "none" /\ session = FALSE

(* A new context, one whose setup failed, or none at all. *)
Replace == state' \in {"none", "raw", "initialized"} /\ session' = FALSE

(* Every parameter was accepted. *)
Configure ==
    /\ state = "initialized"
    /\ state' = "configured"
    /\ UNCHANGED session

(* libspdm_init_connection, which resets the context before it negotiates. *)
Connect ==
    /\ state \in {"configured", "negotiated"}
    /\ state' \in {"configured", "negotiated"}
    /\ session' = FALSE

(* The session held, if any, was opened on the connection there is now. *)
Open ==
    /\ state = "negotiated"
    /\ session' = TRUE
    /\ UNCHANGED state

Close ==
    /\ session' = FALSE
    /\ UNCHANGED state

Next == Replace \/ Configure \/ Connect \/ Open \/ Close

Spec == Init /\ [][Next]_vars

=============================================================================
