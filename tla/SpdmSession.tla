---------------------------- MODULE SpdmSession ----------------------------
(***************************************************************************)
(* The per-device secure-session layer of the SPDM requester daemon: class *)
(* SpdmSession, the libspdm context held by its SpdmTransport, and the     *)
(* session table libspdm keeps inside that context.                        *)
(*                                                                         *)
(* The daemon (module Spdmd) runs these operations from its handlers.  The *)
(* module defines what each operation does to the state of one device; who *)
(* calls it, when, and with which outcome is decided by the caller.        *)
(*                                                                         *)
(* Two records of "is a session open" are kept apart because the code      *)
(* keeps them apart: active[d] is SpdmSession::isActive, the flag every    *)
(* caller tests; live[d] is libspdm's own answer, whether the session id   *)
(* held by that SpdmSession is still assigned in the context's table.      *)
(***************************************************************************)
EXTENDS Naturals, FiniteSets

CONSTANTS
    Devices,        \* the SPDM responders discovery can report
    MaxSessions     \* size of libspdm's session table (a bound of the library)

ASSUME DevicesAssumption == IsFiniteSet(Devices)
ASSUME MaxSessionsAssumption == MaxSessions \in Nat \ {0}

VARIABLES
    context,        \* state of the libspdm context SpdmTransport::spdmContext points to
    active,         \* SpdmSession::isActive
    live,           \* is SpdmSession::id assigned in libspdm's table?
    slots           \* number of session ids assigned in libspdm's table

sessionVars == <<context, active, live, slots>>

(* "none": null pointer; "raw": allocated, libspdm_init_context failed;    *)
(* "initialized": initialize() returned true; "configured":                *)
(* applySecureSessionConfig() succeeded; "negotiated": the last            *)
(* libspdm_init_connection() succeeded, so algorithms are known.           *)
ContextState == {"none", "raw", "initialized", "configured", "negotiated"}

SessionTypeOK ==
    /\ context \in [Devices -> ContextState]
    /\ active  \in [Devices -> BOOLEAN]
    /\ live    \in [Devices -> BOOLEAN]
    /\ slots   \in [Devices -> 0 .. MaxSessions]

NoContexts ==
    /\ context = [d \in Devices |-> "none"]
    /\ active  = [d \in Devices |-> FALSE]
    /\ live    = [d \in Devices |-> FALSE]
    /\ slots   = [d \in Devices |-> 0]

(* The process is gone: nothing above survives it. *)
ForgetContexts ==
    /\ context' = [d \in Devices |-> "none"]
    /\ active'  = [d \in Devices |-> FALSE]
    /\ live'    = [d \in Devices |-> FALSE]
    /\ slots'   = [d \in Devices |-> 0]

-----------------------------------------------------------------------------
(* The context of d is now c, with an empty session table: either the      *)
(* pointer was overwritten by a new context, or libspdm_init_connection    *)
(* reset the one it has.  SpdmSession is told in neither case.             *)
EmptyTable(d, c) ==
    /\ context' = [context EXCEPT ![d] = c]
    /\ live'    = [live EXCEPT ![d] = FALSE]
    /\ slots'   = [slots EXCEPT ![d] = 0]
    /\ UNCHANGED active

(* applySecureSessionConfig: the context is configured, sessions untouched. *)
ApplyConfig(d) ==
    /\ context' = [context EXCEPT ![d] = "configured"]
    /\ UNCHANGED <<active, live, slots>>

(* libspdm forgets the session id held by SpdmSession. *)
ReleaseId(d) ==
    /\ live'  = [live EXCEPT ![d] = FALSE]
    /\ slots' = [slots EXCEPT ![d] = @ - 1]

(* SpdmSession::start, the path that returns success: GET_DIGESTS,         *)
(* GET_CERTIFICATE, KEY_EXCHANGE and FINISH all went through and a free id *)
(* was assigned.                                                           *)
StartSession(d) ==
    /\ slots[d] < MaxSessions
    /\ active' = [active EXCEPT ![d] = TRUE]
    /\ live'   = [live EXCEPT ![d] = TRUE]
    /\ slots'  = [slots EXCEPT ![d] = @ + 1]
    /\ UNCHANGED context

(* Variants of StopSession: one releases the id without asking libspdm,    *)
(* one keeps isActive when END_SESSION is not acknowledged, and one resets *)
(* the id before the call that needs it.                                   *)
StopSessionBlindly(d, mayFail) ==
    /\ active' = [active EXCEPT ![d] = FALSE]
    /\ ReleaseId(d)
    /\ UNCHANGED context

StopSessionOnlyIfAcked(d, mayFail) ==
    /\ \/ live[d] /\ ReleaseId(d) /\ active' = [active EXCEPT ![d] = FALSE]
       \/ (mayFail \/ ~live[d]) /\ UNCHANGED <<active, live, slots>>
    /\ UNCHANGED context

StopSessionIdReset(d, mayFail) ==
    /\ active' = [active EXCEPT ![d] = FALSE]
    /\ UNCHANGED <<context, live, slots>>

(* SpdmSession::stop on an active session.  isActive is cleared whatever   *)
(* libspdm_stop_session returns.  The id is released when END_SESSION is   *)
(* acknowledged (or the reply was so broken that libspdm dropped the       *)
(* session); otherwise it stays assigned.  With an id libspdm no longer    *)
(* knows the call fails locally.                                           *)
StopSession(d, mayFail) ==
    /\ active' = [active EXCEPT ![d] = FALSE]
    /\ \/ live[d] /\ ReleaseId(d)
       \/ (mayFail \/ ~live[d]) /\ UNCHANGED <<live, slots>>
    /\ UNCHANGED context

(* SpdmSession::heartbeat on an active session.  A failed heartbeat leaves *)
(* the session alone, or makes libspdm drop it; isActive is never touched. *)
Heartbeat(d, mayFail) ==
    /\ \/ UNCHANGED <<live, slots>>
       \/ mayFail /\ live[d] /\ ReleaseId(d)
    /\ UNCHANGED <<context, active>>

=============================================================================
