----------------------------- MODULE SpdmdProofs -----------------------------
(***************************************************************************)
(* Proofs about the requester daemon, for every set of devices, every set  *)
(* of faulty ones, every naming of their object paths, every size of       *)
(* libspdm's session table and both transports.                            *)
(*                                                                         *)
(* The invariant is IInv of SpdmdInv.  The proof that a step preserves it  *)
(* has one lemma per action, and under it one step per conjunct (or group  *)
(* of conjuncts) that the action can disturb; the properties of Spdmd      *)
(* follow from it.                                                         *)
(***************************************************************************)
EXTENDS SpdmdInv, TLAPS

(* The notation of Spdmd for control flow and groups of variables. *)
USE DEF IInv, Idle, At, Run, Return, Goto, NextDevice,
        sessionVars, policyVars, discoveryVars, controlVars, processVars

-----------------------------------------------------------------------------
(* The session layer: its operations keep its types and never leave libspdm *)
(* with a live session that occupies no slot.                               *)

(* An operation that leaves the session layer alone keeps both facts.      *)
LEMMA SessionUntouched ==
    ASSUME SessionTypeOK, LiveHasSlot, UNCHANGED sessionVars
    PROVE  SessionTypeOK' /\ LiveHasSlot'
  BY DEF SessionTypeOK, LiveHasSlot, ContextState

(* A new context, or libspdm_init_connection on the one there is.          *)
LEMMA EmptyTableKeeps ==
    ASSUME SessionTypeOK, LiveHasSlot,
           NEW d \in Devices, NEW c \in ContextState, EmptyTable(d, c)
    PROVE  SessionTypeOK' /\ LiveHasSlot'
<1>1. context' \in [Devices -> ContextState]
  BY DEF EmptyTable, SessionTypeOK
<1>2. active' \in [Devices -> BOOLEAN] /\ live' \in [Devices -> BOOLEAN]
  BY DEF EmptyTable, SessionTypeOK
<1>3. slots' \in [Devices -> 0 .. MaxSessions]
  BY MaxSessionsAssumption DEF EmptyTable, SessionTypeOK
<1>4. LiveHasSlot'
  BY DEF EmptyTable, SessionTypeOK, LiveHasSlot
<1>. QED
  BY <1>1, <1>2, <1>3, <1>4 DEF SessionTypeOK

(* applySecureSessionConfig.                                               *)
LEMMA ApplyConfigKeeps ==
    ASSUME SessionTypeOK, LiveHasSlot, NEW d \in Devices, ApplyConfig(d)
    PROVE  SessionTypeOK' /\ LiveHasSlot'
  BY DEF ApplyConfig, SessionTypeOK, LiveHasSlot, ContextState

(* libspdm releases an id it knows: LiveHasSlot is what keeps the count    *)
(* from going below zero.                                                  *)
LEMMA ReleaseIdKeeps ==
    ASSUME SessionTypeOK, LiveHasSlot, NEW d \in Devices, live[d],
           ReleaseId(d)
    PROVE  /\ live' \in [Devices -> BOOLEAN]
           /\ slots' \in [Devices -> 0 .. MaxSessions]
           /\ LiveHasSlot'
<1>1. slots \in [Devices -> 0 .. MaxSessions] /\ MaxSessions \in Nat
  BY MaxSessionsAssumption DEF SessionTypeOK
<1>2. slots[d] - 1 \in 0 .. MaxSessions
  BY <1>1 DEF LiveHasSlot
<1>3. slots' \in [Devices -> 0 .. MaxSessions]
  BY <1>1, <1>2 DEF ReleaseId
<1>4. live' \in [Devices -> BOOLEAN]
  BY DEF ReleaseId, SessionTypeOK
<1>5. LiveHasSlot'
  BY <1>1 DEF ReleaseId, SessionTypeOK, LiveHasSlot
<1>. QED
  BY <1>3, <1>4, <1>5

(* SpdmSession::start: a free id exists, so the count stays within the     *)
(* table.                                                                  *)
LEMMA StartSessionKeeps ==
    ASSUME SessionTypeOK, LiveHasSlot, NEW d \in Devices, StartSession(d)
    PROVE  SessionTypeOK' /\ LiveHasSlot'
<1>1. slots \in [Devices -> 0 .. MaxSessions] /\ MaxSessions \in Nat
  BY MaxSessionsAssumption DEF SessionTypeOK
<1>2. slots[d] + 1 \in 0 .. MaxSessions
  BY <1>1 DEF StartSession
<1>3. slots' \in [Devices -> 0 .. MaxSessions]
  BY <1>1, <1>2 DEF StartSession
<1>4. active' \in [Devices -> BOOLEAN] /\ live' \in [Devices -> BOOLEAN]
  BY DEF StartSession, SessionTypeOK
<1>5. LiveHasSlot'
  BY <1>1 DEF StartSession, SessionTypeOK, LiveHasSlot
<1>. QED
  BY <1>3, <1>4, <1>5 DEF StartSession, SessionTypeOK, ContextState

(* SpdmSession::stop, whatever libspdm_stop_session returns.               *)
LEMMA StopSessionKeeps ==
    ASSUME SessionTypeOK, LiveHasSlot,
           NEW d \in Devices, NEW mayFail, StopSession(d, mayFail)
    PROVE  SessionTypeOK' /\ LiveHasSlot'
    <1>1. active' \in [Devices -> BOOLEAN] /\ context' \in [Devices ->
           ContextState]
  BY DEF StopSession, SessionTypeOK
<1>2. CASE live[d] /\ ReleaseId(d)
  BY <1>1, <1>2, ReleaseIdKeeps DEF SessionTypeOK
<1>3. CASE UNCHANGED <<live, slots>>
  BY <1>1, <1>3 DEF SessionTypeOK, LiveHasSlot
<1>. QED
  BY <1>2, <1>3 DEF StopSession

(* SpdmSession::heartbeat.                                                 *)
LEMMA HeartbeatKeeps ==
    ASSUME SessionTypeOK, LiveHasSlot,
           NEW d \in Devices, NEW mayFail, Heartbeat(d, mayFail)
    PROVE  SessionTypeOK' /\ LiveHasSlot'
    <1>1. active' \in [Devices -> BOOLEAN] /\ context' \in [Devices ->
           ContextState]
  BY DEF Heartbeat, SessionTypeOK
<1>2. CASE live[d] /\ ReleaseId(d)
  BY <1>1, <1>2, ReleaseIdKeeps DEF SessionTypeOK
<1>3. CASE UNCHANGED <<live, slots>>
  BY <1>1, <1>3 DEF SessionTypeOK, LiveHasSlot
<1>. QED
  BY <1>2, <1>3 DEF Heartbeat

-----------------------------------------------------------------------------
(* The actions of Spdmd. *)

(* The end of the process: what is left is the state a start finds.        *)
LEMMA VanishKeepsIInv ==
    ASSUME IInv, Vanish PROVE IInv'
<1>1. boot' \in Boot /\ enabled' \in BOOLEAN /\ secure' \in BOOLEAN
  BY DEF Vanish, TypeOK, Boot
<1>2. SessionTypeOK' /\ LiveHasSlot'
  BY MaxSessionsAssumption
     DEF Vanish, ForgetContexts, SessionTypeOK, ContextState, LiveHasSlot
<1>3. TypeOK'
  BY <1>1, <1>2 DEF Vanish, TypeOK, Ops, Steps
<1>4. Control' /\ ResponderScope' /\ LoopScope' /\ ActiveScope'
  BY DEF Vanish, ForgetContexts, Control, ResponderScope, LoopScope,
         ActiveScope, DeviceSteps
<1>5. ContextScope' /\ NoLeakedSession' /\ AnswersNegotiated'
  BY DEF Vanish, ForgetContexts, ContextScope, NoLeakedSession,
         AnswersNegotiated
<1>6. Settled' /\ Remaining' /\ OnItsWay'
  BY DEF Vanish, Settled, Remaining, OnItsWay, DeviceSteps
<1>. QED
  BY <1>2, <1>3, <1>4, <1>5, <1>6

(* The discovery callback, whichever lambda ran it and with whatever       *)
(* devices.                                                                *)
LEMMA DiscoveredKeepsIInv ==
    ASSUME IInv, Idle, discovery = "pending", NEW ds \in SUBSET Devices,
           Discovered(ds)
    PROVE  IInv'
<1>1. TypeOK' /\ LiveHasSlot'
  BY DEF Discovered, Process, Active, TypeOK, SessionTypeOK, ContextState,
         Boot, Ops, Steps, LiveHasSlot
<1>2. Control' /\ ResponderScope' /\ LoopScope'
  BY DEF Discovered, Process, Active, Control, ResponderScope, LoopScope,
         DeviceSteps
<1>3. ActiveScope'
  BY DEF Discovered, Process, Active, ActiveScope, Control
<1>4. ContextScope' /\ AnswersNegotiated'
  BY DEF Discovered, Process, Active, ContextScope, Usable, AnswersNegotiated,
         Answers
<1>5. NoLeakedSession'
  BY DEF Discovered, Process, Active, NoLeakedSession, Answers, ActiveScope,
         Control
<1>6. Settled' /\ Remaining' /\ OnItsWay'
  BY DEF Discovered, Process, Settled, Remaining, OnItsWay, Exportable,
         Answers, Served, DeviceSteps
<1>. QED
  BY <1>1, <1>2, <1>3, <1>4, <1>5, <1>6

(* main starts: policy and discovery are as Init or Vanish left them.      *)
LEMMA StartKeepsIInv ==
    ASSUME IInv, Start PROVE IInv'
<1>1. TypeOK' /\ LiveHasSlot'
  BY DEF Start, TypeOK, SessionTypeOK, ContextState, Boot, Steps, LiveHasSlot
<1>2. Control' /\ ResponderScope' /\ LoopScope' /\ ActiveScope'
  BY DEF Start, Control, ResponderScope, LoopScope, ActiveScope
<1>3. ContextScope' /\ NoLeakedSession' /\ AnswersNegotiated'
  BY DEF Start, ContextScope, Usable, NoLeakedSession, AnswersNegotiated,
         Answers
<1>4. Settled' /\ Remaining' /\ OnItsWay'
  BY DEF Start, Settled, Remaining, OnItsWay, Exportable, Answers, Served
<1>. QED
  BY <1>1, <1>2, <1>3, <1>4

(* A stop request only lowers what is promised of the devices (Answers).   *)
LEMMA SignalKeepsIInv ==
    ASSUME IInv, Signal PROVE IInv'
<1>1. SessionTypeOK' /\ LiveHasSlot'
  BY SessionUntouched DEF Signal, TypeOK
<1>2. TypeOK'
  BY <1>1 DEF Signal, TypeOK, Steps
<1>3. Control' /\ ResponderScope' /\ LoopScope' /\ ActiveScope'
  BY DEF Signal, Control, ResponderScope, LoopScope, ActiveScope
<1>4. ContextScope' /\ NoLeakedSession' /\ AnswersNegotiated'
  BY DEF Signal, ContextScope, Usable, NoLeakedSession, AnswersNegotiated,
         Answers
<1>5. Settled' /\ Remaining' /\ OnItsWay'
  BY DEF Signal, Settled, Remaining, OnItsWay, Exportable, Answers
<1>. QED
  BY <1>1, <1>2, <1>3, <1>4, <1>5

(* A lost reply blocks the thread and moves nothing else.                  *)
LEMMA LoseReplyKeepsIInv ==
    ASSUME IInv, LoseReply PROVE IInv'
<1>1. TypeOK' /\ LiveHasSlot'
  BY DEF LoseReply, TypeOK, SessionTypeOK, ContextState, Boot, Steps,
         LiveHasSlot
<1>2. Control' /\ ResponderScope' /\ LoopScope' /\ ActiveScope'
  BY DEF LoseReply, Control, ResponderScope, LoopScope, ActiveScope
<1>3. ContextScope' /\ NoLeakedSession' /\ AnswersNegotiated'
  BY DEF LoseReply, ContextScope, Usable, NoLeakedSession, AnswersNegotiated,
         Answers
<1>4. Settled' /\ Remaining' /\ OnItsWay'
  BY DEF LoseReply, Settled, Remaining, OnItsWay, Exportable, Answers, Served
<1>. QED
  BY <1>1, <1>2, <1>3, <1>4

(* The loop ends; the responders wait for their destruction.               *)
LEMMA LeaveLoopKeepsIInv ==
    ASSUME IInv, LeaveLoop PROVE IInv'
<1>1. TypeOK' /\ LiveHasSlot'
  BY DEF LeaveLoop, TypeOK, SessionTypeOK, ContextState, Boot, Steps,
         LiveHasSlot, Ops
<1>2. Control' /\ ResponderScope' /\ LoopScope'
  BY DEF LeaveLoop, Control, ResponderScope, LoopScope, DeviceSteps
<1>3. ActiveScope'
  BY DEF LeaveLoop, ActiveScope, Control
<1>4. ContextScope' /\ NoLeakedSession' /\ AnswersNegotiated'
  BY DEF LeaveLoop, ContextScope, Usable, NoLeakedSession, AnswersNegotiated,
         Answers
<1>5. Settled' /\ Remaining' /\ OnItsWay'
  BY DEF LeaveLoop, Settled, Remaining, OnItsWay
<1>. QED
  BY <1>1, <1>2, <1>3, <1>4, <1>5

(* The Enabled setter: its handler starts with what Control and LoopScope  *)
(* ask of it.                                                              *)
LEMMA SetEnabledKeepsIInv ==
    ASSUME IInv, SetEnabled PROVE IInv'
<1>1. TypeOK' /\ LiveHasSlot'
  BY DEF SetEnabled, TypeOK, SessionTypeOK, ContextState, Boot, Steps,
         LiveHasSlot, Active, Process, Ops
<1>2. Control' /\ ResponderScope' /\ LoopScope'
  BY DEF SetEnabled, Control, ResponderScope, LoopScope, Process, DeviceSteps
<1>3. ActiveScope'
  BY DEF SetEnabled, ActiveScope, Active, Control
<1>4. ContextScope' /\ AnswersNegotiated'
  BY DEF SetEnabled, ContextScope, Usable, AnswersNegotiated, Process, Answers
<1>5. NoLeakedSession'
  BY DEF SetEnabled, NoLeakedSession, ActiveScope, Answers, Control
<1>6. Settled' /\ Remaining' /\ OnItsWay'
  BY DEF SetEnabled, Settled, Remaining, OnItsWay, Process
<1>. QED
  BY <1>1, <1>2, <1>3, <1>4, <1>5, <1>6

(* The SecureSessionEnabled setter: as above, for the two runtime loops.   *)
LEMMA SetSecureKeepsIInv ==
    ASSUME IInv, SetSecure PROVE IInv'
<1>1. TypeOK' /\ LiveHasSlot'
  BY DEF SetSecure, TypeOK, SessionTypeOK, ContextState, Boot, Steps,
         LiveHasSlot, Active, Ops
<1>2. Control' /\ ResponderScope' /\ LoopScope'
  BY DEF SetSecure, Control, ResponderScope, LoopScope, Active, DeviceSteps
<1>3. ActiveScope'
  BY DEF SetSecure, ActiveScope, Active, Control
<1>4. ContextScope' /\ AnswersNegotiated'
  BY DEF SetSecure, ContextScope, Usable, AnswersNegotiated, Answers
<1>5. NoLeakedSession'
  BY DEF SetSecure, NoLeakedSession, ActiveScope, Answers, Control
<1>6. Settled'
  BY DEF SetSecure, Settled, Active, Exportable, Answers, Served
<1>7. Remaining'
  BY DEF SetSecure, Remaining
<1>8. OnItsWay'
  BY DEF SetSecure, OnItsWay, Control
<1>. QED
  BY <1>1, <1>2, <1>3, <1>4, <1>5, <1>6, <1>7, <1>8

(* A measurement request: its responder exists, so Enabled is true.        *)
LEMMA GetSignedMeasurementsKeepsIInv ==
    ASSUME IInv, NEW d \in Devices, GetSignedMeasurements(d) PROVE IInv'
<1>1. TypeOK' /\ LiveHasSlot'
  BY DEF GetSignedMeasurements, TypeOK, SessionTypeOK, ContextState, Boot,
         Steps, LiveHasSlot, Ops
<1>2. ResponderScope' /\ LoopScope'
  BY DEF GetSignedMeasurements, ResponderScope, LoopScope
<1>3. Control'
  BY DEF GetSignedMeasurements, Control, ResponderScope
<1>4. ActiveScope'
  BY DEF GetSignedMeasurements, ActiveScope, Control
<1>5. ContextScope' /\ AnswersNegotiated'
  BY DEF GetSignedMeasurements, ContextScope, Usable, AnswersNegotiated,
         Answers
<1>6. NoLeakedSession'
  BY DEF GetSignedMeasurements, NoLeakedSession, ActiveScope, Answers, Control
<1>7. Settled' /\ Remaining' /\ OnItsWay'
  BY DEF GetSignedMeasurements, Settled, Remaining, OnItsWay, Exportable,
         Answers, Served
<1>. QED
  BY <1>1, <1>2, <1>3, <1>4, <1>5, <1>6, <1>7

(* A session of the loop in tearDownResponders, or of the runtime loop, is *)
(* closed.                                                                 *)
LEMMA CloseSessionKeepsIInv ==
    ASSUME IInv, NEW d \in Devices, CloseSession(d) PROVE IInv'
<1>1. SessionTypeOK' /\ LiveHasSlot'
  BY StopSessionKeeps DEF CloseSession, TypeOK
<1>2. TypeOK'
  BY <1>1 DEF CloseSession, TypeOK, Steps
<1>3. Control' /\ ResponderScope' /\ LoopScope'
  BY DEF CloseSession, StopSession, Control, ResponderScope, LoopScope
<1>4. ActiveScope'
  BY DEF CloseSession, StopSession, ActiveScope, SessionTypeOK, TypeOK
<1>5. ContextScope' /\ AnswersNegotiated'
  BY DEF CloseSession, StopSession, ContextScope, Usable, AnswersNegotiated,
         Answers
<1>6. NoLeakedSession'
  BY DEF CloseSession, StopSession, NoLeakedSession, SessionTypeOK, MayFail,
         Answers, TypeOK, ReleaseId
<1>7. Settled'
  BY DEF CloseSession, StopSession, Settled, SessionTypeOK, Exportable,
         Answers, Served, Control, Ops, TypeOK
<1>8. Remaining'
  BY DEF CloseSession, StopSession, Remaining
<1>9. OnItsWay'
  BY DEF CloseSession, StopSession, OnItsWay
<1>. QED
  BY <1>1, <1>2, <1>3, <1>4, <1>5, <1>6, <1>7, <1>8, <1>9

(* No responder is left with a session to close.                           *)
LEMMA CloseDoneKeepsIInv ==
    ASSUME IInv, CloseDone PROVE IInv'
<1>1. TypeOK' /\ LiveHasSlot'
  BY DEF CloseDone, TypeOK, SessionTypeOK, ContextState, Boot, Steps,
         LiveHasSlot, Ops
<1>2. Control' /\ ResponderScope' /\ LoopScope' /\ ActiveScope'
  BY DEF CloseDone, Control, ResponderScope, LoopScope, ActiveScope,
         DeviceSteps
<1>3. ContextScope' /\ AnswersNegotiated'
  BY DEF CloseDone, ContextScope, Usable, AnswersNegotiated, Answers
<1>4. NoLeakedSession'
  BY DEF CloseDone, NoLeakedSession, ActiveScope, Answers
<1>5. Settled' /\ Remaining' /\ OnItsWay'
  BY DEF CloseDone, Settled, Remaining, OnItsWay, Exportable, Answers, Served,
         DeviceSteps
<1>. QED
  BY <1>1, <1>2, <1>3, <1>4, <1>5

(* A responder is destroyed, and with it a session that is still open.     *)
LEMMA DropResponderKeepsIInv ==
    ASSUME IInv, NEW d \in Devices, DropResponder(d) PROVE IInv'
<1>1. SessionTypeOK' /\ LiveHasSlot'
  BY StopSessionKeeps, SessionUntouched DEF DropResponder, TypeOK
<1>2. TypeOK'
  BY <1>1 DEF DropResponder, TypeOK, Steps
<1>3. Control' /\ ResponderScope'
  BY DEF DropResponder, StopSession, Control, ResponderScope
<1>4. LoopScope'
  BY DEF DropResponder, StopSession, LoopScope, Control
<1>5. ActiveScope'
  BY DEF DropResponder, StopSession, ActiveScope, SessionTypeOK, TypeOK
<1>6. ContextScope' /\ AnswersNegotiated'
  BY DEF DropResponder, StopSession, ContextScope, Usable, AnswersNegotiated,
         Answers
<1>7. NoLeakedSession'
  BY DEF DropResponder, StopSession, NoLeakedSession, SessionTypeOK, MayFail,
         Answers, TypeOK, ReleaseId
<1>8. Settled'
  BY DEF DropResponder, StopSession, Settled, SessionTypeOK, Control, Ops,
         TypeOK
<1>9. Remaining'
  BY DEF DropResponder, StopSession, Remaining
<1>10. OnItsWay'
  BY DEF DropResponder, StopSession, OnItsWay
<1>. QED
  BY <1>1, <1>2, <1>3, <1>4, <1>5, <1>6, <1>7, <1>8, <1>9, <1>10

(* The vector is empty: the handler ends, or its device loop begins.       *)
LEMMA ClearDoneKeepsIInv ==
    ASSUME IInv, ClearDone PROVE IInv'
<1>1. TypeOK' /\ LiveHasSlot'
  BY DEF ClearDone, TypeOK, SessionTypeOK, ContextState, Boot, Steps,
         LiveHasSlot, Ops
<1>2. Control' /\ ResponderScope' /\ LoopScope' /\ ActiveScope'
  BY DEF ClearDone, Control, ResponderScope, LoopScope, ActiveScope,
         DeviceSteps
<1>3. ContextScope' /\ AnswersNegotiated'
  BY DEF ClearDone, ContextScope, Usable, AnswersNegotiated
<1>4. NoLeakedSession'
  BY DEF ClearDone, NoLeakedSession, ActiveScope, Answers
<1>5. Settled' /\ Remaining' /\ OnItsWay'
  BY DEF ClearDone, Settled, Remaining, OnItsWay, Exportable, Answers, Served
<1>. QED
  BY <1>1, <1>2, <1>3, <1>4, <1>5

(* A new context for the next device, which nobody uses (LoopScope).       *)
LEMMA InitializeTransportKeepsIInv ==
    ASSUME IInv, NEW d \in Devices, InitializeTransport(d) PROVE IInv'
<1>1. SessionTypeOK' /\ LiveHasSlot'
  BY EmptyTableKeeps DEF InitializeTransport, TypeOK, ContextState
<1>2. TypeOK'
  BY <1>1 DEF InitializeTransport, TypeOK, Steps, Ops
<1>3. ActiveScope'
  BY DEF InitializeTransport, EmptyTable, ActiveScope
<1>4. Control'
  BY DEF InitializeTransport, EmptyTable, Control, SessionTypeOK, Ops, TypeOK,
         DeviceSteps
<1>5. ResponderScope'
  BY DEF InitializeTransport, EmptyTable, ResponderScope, Control
<1>6. LoopScope'
  BY DEF InitializeTransport, EmptyTable, LoopScope, SessionTypeOK, Control,
         Ops, TypeOK
<1>7. ContextScope'
  BY DEF InitializeTransport, EmptyTable, ContextScope, Usable, SessionTypeOK,
         Control, Ops, TypeOK, LoopScope
<1>8. NoLeakedSession'
  BY DEF InitializeTransport, EmptyTable, NoLeakedSession, SessionTypeOK,
         ActiveScope, Answers, TypeOK
<1>9. AnswersNegotiated'
  BY DEF InitializeTransport, EmptyTable, AnswersNegotiated, SessionTypeOK,
         Answers, Control, Ops, TypeOK, LoopScope
<1>10. Settled'
  BY DEF InitializeTransport, EmptyTable, Settled
<1>11. Remaining'
  BY DEF InitializeTransport, EmptyTable, Remaining, SessionTypeOK,
         Exportable, Answers, Served, Control, Ops, TypeOK, DeviceSteps
<1>12. OnItsWay'
  BY DEF InitializeTransport, EmptyTable, OnItsWay
<1>. QED
  BY <1>1, <1>2, <1>3, <1>4, <1>5, <1>6, <1>7, <1>8, <1>9, <1>10, <1>11, <1>12

(* No context for the next device: it does not answer, or the daemon is    *)
(* stopping.                                                               *)
LEMMA InitializeFailsKeepsIInv ==
    ASSUME IInv, NEW d \in Devices, InitializeFails(d) PROVE IInv'
<1>1. SessionTypeOK' /\ LiveHasSlot'
  BY EmptyTableKeeps, SessionUntouched
     DEF InitializeFails, TypeOK, ContextState
<1>2. TypeOK'
  BY <1>1 DEF InitializeFails, TypeOK, Steps
<1>3. Control' /\ ResponderScope' /\ LoopScope' /\ ActiveScope'
  BY DEF InitializeFails, EmptyTable, Control, ResponderScope, LoopScope,
         ActiveScope
<1>4. ContextScope'
  BY DEF InitializeFails, EmptyTable, ContextScope, Usable, SessionTypeOK,
         Control, Ops, TypeOK, LoopScope
<1>5. NoLeakedSession'
  BY DEF InitializeFails, EmptyTable, NoLeakedSession, SessionTypeOK, Answers,
         TypeOK
<1>6. AnswersNegotiated'
  BY DEF InitializeFails, EmptyTable, AnswersNegotiated, SessionTypeOK,
         MayFail, Answers, TypeOK
<1>7. Settled' /\ Remaining' /\ OnItsWay'
  BY DEF InitializeFails, EmptyTable, Settled, Remaining, OnItsWay, MayFail,
         Exportable, Answers, Served
<1>. QED
  BY <1>1, <1>2, <1>3, <1>4, <1>5, <1>6, <1>7

(* The context is configured, or the device skipped.                       *)
LEMMA ConfigureKeepsIInv ==
    ASSUME IInv, NEW d \in Devices, Configure(d) PROVE IInv'
<1>1. SessionTypeOK' /\ LiveHasSlot'
  BY ApplyConfigKeeps, SessionUntouched DEF Configure, TypeOK
<1>2. TypeOK'
  BY <1>1 DEF Configure, TypeOK, Steps
<1>3. Control' /\ ResponderScope' /\ LoopScope' /\ ActiveScope'
  BY DEF Configure, ApplyConfig, Control, ResponderScope, LoopScope,
         ActiveScope, DeviceSteps
<1>4. NoLeakedSession'
  BY DEF Configure, ApplyConfig, NoLeakedSession, MayFail, Answers
<1>5. ContextScope'
  BY DEF Configure, ApplyConfig, ContextScope, Usable, SessionTypeOK, TypeOK
<1>6. AnswersNegotiated'
  BY DEF Configure, ApplyConfig, AnswersNegotiated, SessionTypeOK, Answers,
         Control, Ops, TypeOK, LoopScope
<1>7. Settled' /\ Remaining' /\ OnItsWay'
  BY DEF Configure, ApplyConfig, Settled, Remaining, OnItsWay, MayFail,
         Exportable, Answers, Served, DeviceSteps
<1>. QED
  BY <1>1, <1>2, <1>3, <1>4, <1>5, <1>6, <1>7

(* The device's path is free, or it shares its name and is skipped.        *)
LEMMA ConstructKeepsIInv ==
    ASSUME IInv, NEW d \in Devices, Construct(d) PROVE IInv'
<1>1. TypeOK' /\ LiveHasSlot'
  BY DEF Construct, TypeOK, SessionTypeOK, ContextState, Boot, Steps,
         LiveHasSlot
<1>2. Control' /\ ResponderScope' /\ LoopScope' /\ ActiveScope'
  BY DEF Construct, Control, ResponderScope, LoopScope, ActiveScope,
         DeviceSteps
<1>3. ContextScope' /\ AnswersNegotiated'
  BY DEF Construct, ContextScope, Usable, AnswersNegotiated, Answers
<1>4. NoLeakedSession'
  BY DEF Construct, NoLeakedSession, ActiveScope, Answers
<1>5. Settled'
  BY DEF Construct, Settled, ResponderScope, Exportable, Answers, Served,
         Control
<1>6. Remaining'
  BY DEF Construct, Remaining, ResponderScope, Exportable, Answers, Served,
         PathFree, DeviceSteps, LoopScope
<1>7. OnItsWay'
  BY DEF Construct, OnItsWay, ResponderScope
<1>. QED
  BY <1>1, <1>2, <1>3, <1>4, <1>5, <1>6, <1>7

(* A connection resets the session table of the device.                    *)
LEMMA ConnectKeepsIInv ==
    ASSUME IInv, NEW d \in Devices, Connect(d) PROVE IInv'
<1>1. SessionTypeOK' /\ LiveHasSlot'
  BY EmptyTableKeeps DEF Connect, TypeOK, ContextState
<1>2. TypeOK'
  BY <1>1 DEF Connect, TypeOK, Steps
<1>3. ResponderScope' /\ ActiveScope'
  BY DEF Connect, EmptyTable, ResponderScope, ActiveScope
<1>4. Control'
  BY DEF Connect, EmptyTable, Control, SessionTypeOK, Ops, TypeOK, DeviceSteps
<1>5. LoopScope'
  BY DEF Connect, EmptyTable, LoopScope, Control
<1>6. AnswersNegotiated'
  BY DEF Connect, EmptyTable, AnswersNegotiated, Answers
<1>7. ContextScope'
  BY DEF Connect, EmptyTable, ContextScope, Usable, SessionTypeOK, TypeOK
<1>8. NoLeakedSession'
  BY DEF Connect, EmptyTable, NoLeakedSession, SessionTypeOK, Answers, TypeOK
<1>9. Settled'
  BY DEF Connect, EmptyTable, Settled, Exportable, Answers,
         Served, DeviceSteps
<1>10. Remaining'
  BY DEF Connect, EmptyTable, Remaining, Exportable, Answers,
         Served, DeviceSteps
<1>11. OnItsWay'
  BY DEF Connect, EmptyTable, OnItsWay, SessionTypeOK, TypeOK
<1>. QED
  BY <1>1, <1>2, <1>3, <1>4, <1>5, <1>6, <1>7, <1>8, <1>9, <1>10, <1>11

(* A connection that fails resets the table all the same.                  *)
LEMMA ConnectFailsKeepsIInv ==
    ASSUME IInv, NEW d \in Devices, ConnectFails(d) PROVE IInv'
<1>1. SessionTypeOK' /\ LiveHasSlot'
  BY EmptyTableKeeps DEF ConnectFails, TypeOK, SessionTypeOK, ContextState
<1>2. TypeOK'
  BY <1>1 DEF ConnectFails, TypeOK, Steps, Ops
<1>3. Control' /\ ResponderScope' /\ LoopScope' /\ ActiveScope'
  BY DEF ConnectFails, EmptyTable, Control, ResponderScope, LoopScope,
         ActiveScope, DeviceSteps
<1>4. ContextScope' /\ AnswersNegotiated'
  BY DEF ConnectFails, EmptyTable, ContextScope, Usable, AnswersNegotiated,
         MayFail, Answers
<1>5. NoLeakedSession'
  BY DEF ConnectFails, EmptyTable, NoLeakedSession, ContextScope, Usable,
         MayFail, Answers
<1>6. Settled'
  BY DEF ConnectFails, EmptyTable, Settled, ContextScope, Usable, Exportable,
         Answers, Served, Control
<1>7. Remaining'
  BY DEF ConnectFails, EmptyTable, Remaining, ContextScope, Usable, MayFail,
         Exportable, Answers, Served
<1>8. OnItsWay'
  BY DEF ConnectFails, EmptyTable, OnItsWay, ContextScope, Usable
<1>. QED
  BY <1>1, <1>2, <1>3, <1>4, <1>5, <1>6, <1>7, <1>8

(* The device has got what it could: OnItsWay becomes Served.              *)
LEMMA PushResponderKeepsIInv ==
    ASSUME IInv, NEW d \in Devices, PushResponder(d) PROVE IInv'
<1>1. TypeOK' /\ LiveHasSlot'
  BY DEF PushResponder, TypeOK, SessionTypeOK, ContextState, Boot, Steps,
         LiveHasSlot
<1>2. Control' /\ LoopScope' /\ ActiveScope'
  BY DEF PushResponder, Control, LoopScope, ActiveScope, DeviceSteps
<1>3. ResponderScope'
  BY DEF PushResponder, ResponderScope, SessionTypeOK, Control, Ops, TypeOK,
         DeviceSteps, LoopScope
<1>4. ContextScope' /\ NoLeakedSession'
  BY DEF PushResponder, ContextScope, Usable, NoLeakedSession, Answers
<1>5. AnswersNegotiated'
  BY DEF PushResponder, AnswersNegotiated, OnItsWay, Answers, DeviceSteps
<1>6. Settled' /\ Remaining' /\ OnItsWay'
  BY DEF PushResponder, Settled, Remaining, OnItsWay, Exportable, Answers,
         Served
<1>. QED
  BY <1>1, <1>2, <1>3, <1>4, <1>5, <1>6

(* A loop ends: what Remaining promised of the devices is now Settled.     *)
LEMMA LoopDoneKeepsIInv ==
    ASSUME IInv, LoopDone PROVE IInv'
<1>1. TypeOK' /\ LiveHasSlot'
  BY DEF LoopDone, TypeOK, SessionTypeOK, ContextState, Boot, Steps,
         LiveHasSlot, Ops
<1>2. Control' /\ LoopScope' /\ ActiveScope'
  BY DEF LoopDone, Control, LoopScope, ActiveScope, DeviceSteps
<1>3. ResponderScope'
  BY DEF LoopDone, ResponderScope, Control
<1>4. ContextScope' /\ AnswersNegotiated'
  BY DEF LoopDone, ContextScope, Usable, AnswersNegotiated, Answers
<1>5. NoLeakedSession'
  BY DEF LoopDone, NoLeakedSession, ActiveScope, Answers
<1>6. Settled'
  BY DEF LoopDone, Settled, Remaining, Exportable, Answers, Served, Control,
         DeviceSteps
<1>7. Remaining'
  BY DEF LoopDone, Remaining
<1>8. OnItsWay'
  BY DEF LoopDone, OnItsWay
<1>. QED
  BY <1>1, <1>2, <1>3, <1>4, <1>5, <1>6, <1>7, <1>8

(* The runtime loop takes up the next responder without a session.         *)
LEMMA NextResponderKeepsIInv ==
    ASSUME IInv, NEW d \in Devices, NextResponder(d) PROVE IInv'
<1>1. TypeOK' /\ LiveHasSlot'
  BY DEF NextResponder, TypeOK, SessionTypeOK, ContextState, Boot, Steps,
         LiveHasSlot
<1>2. ResponderScope' /\ LoopScope' /\ ActiveScope'
  BY DEF NextResponder, ResponderScope, LoopScope, ActiveScope
<1>3. Control'
  BY DEF NextResponder, Control, SessionTypeOK, Ops, TypeOK, DeviceSteps
<1>4. AnswersNegotiated'
  BY DEF NextResponder, AnswersNegotiated, Answers
<1>5. ContextScope'
  BY DEF NextResponder, ContextScope, Usable, SessionTypeOK, Control, Ops,
         TypeOK, DeviceSteps, LoopScope
<1>6. NoLeakedSession'
  BY DEF NextResponder, NoLeakedSession, ActiveScope, Answers
<1>7. Settled'
  BY DEF NextResponder, Settled, Exportable, Answers, Served, DeviceSteps
<1>8. Remaining'
  BY DEF NextResponder, Remaining, Control, DeviceSteps
<1>9. OnItsWay'
  BY DEF NextResponder, OnItsWay, AnswersNegotiated, SessionTypeOK, Answers,
         Control, Ops, TypeOK, DeviceSteps, LoopScope
<1>. QED
  BY <1>1, <1>2, <1>3, <1>4, <1>5, <1>6, <1>7, <1>8, <1>9

(* The root certificate is found, or the session is given up.              *)
LEMMA InstallRootCertKeepsIInv ==
    ASSUME IInv, NEW d \in Devices, InstallRootCert(d) PROVE IInv'
<1>1. TypeOK' /\ LiveHasSlot'
  BY DEF InstallRootCert, TypeOK, SessionTypeOK, ContextState, Boot, Steps,
         LiveHasSlot
<1>2. Control' /\ ResponderScope' /\ LoopScope' /\ ActiveScope'
  BY DEF InstallRootCert, Control, ResponderScope, LoopScope, ActiveScope,
         DeviceSteps
<1>3. ContextScope' /\ NoLeakedSession' /\ AnswersNegotiated'
  BY DEF InstallRootCert, ContextScope, Usable, NoLeakedSession,
         AnswersNegotiated, Answers
<1>4. Settled' /\ Remaining' /\ OnItsWay'
  BY DEF InstallRootCert, Settled, Remaining, OnItsWay, MayFail, Exportable,
         Answers, Served, DeviceSteps
<1>. QED
  BY <1>1, <1>2, <1>3, <1>4

(* A session is started on a negotiated context. For a device that answers *)
(* the table was empty (NoLeakedSession), so a free id exists.             *)
LEMMA OpenSessionKeepsIInv ==
    ASSUME IInv, NEW d \in Devices, OpenSession(d) PROVE IInv'
<1>1. SessionTypeOK' /\ LiveHasSlot'
  BY StartSessionKeeps, SessionUntouched DEF OpenSession, TypeOK
<1>2. TypeOK'
  BY <1>1 DEF OpenSession, TypeOK, Steps
<1>3. Control' /\ ResponderScope'
  BY DEF OpenSession, StartSession, Control, ResponderScope, DeviceSteps
<1>4. LoopScope'
  BY DEF OpenSession, StartSession, LoopScope, SessionTypeOK, TypeOK,
         DeviceSteps
<1>5. ActiveScope'
  BY DEF OpenSession, StartSession, ActiveScope, SessionTypeOK, Control,
         TypeOK
<1>6. ContextScope' /\ AnswersNegotiated'
  BY DEF OpenSession, StartSession, ContextScope, Usable, AnswersNegotiated,
         Answers
<1>7. NoLeakedSession'
  BY DEF OpenSession, StartSession, NoLeakedSession, SessionTypeOK,
         ActiveScope, Answers, Control, Ops, TypeOK, LoopScope
<1>8. Settled'
  BY DEF OpenSession, StartSession, Settled, SessionTypeOK, ContextScope,
         Usable, NoLeakedSession, Exportable, Answers, Served, TypeOK,
         DeviceSteps
<1>9. Remaining'
  BY DEF OpenSession, StartSession, Remaining, SessionTypeOK, ContextScope,
         Usable, NoLeakedSession, Exportable, Answers, Served, TypeOK,
         DeviceSteps
<1>10. OnItsWay'
  BY MaxSessionsAssumption
     DEF OpenSession, StartSession, OnItsWay, SessionTypeOK, ContextScope,
         Usable, NoLeakedSession, MayFail, Answers, TypeOK
<1>. QED
  BY <1>1, <1>2, <1>3, <1>4, <1>5, <1>6, <1>7, <1>8, <1>9, <1>10

(* The heartbeat may cost libspdm's session, never isActive.               *)
LEMMA SendHeartbeatKeepsIInv ==
    ASSUME IInv, NEW d \in Devices, SendHeartbeat(d) PROVE IInv'
<1>1. SessionTypeOK' /\ LiveHasSlot'
  BY HeartbeatKeeps DEF SendHeartbeat, TypeOK
<1>2. TypeOK'
  BY <1>1 DEF SendHeartbeat, TypeOK, Steps
<1>3. Control' /\ ResponderScope' /\ LoopScope' /\ ActiveScope'
  BY DEF SendHeartbeat, Heartbeat, Control, ResponderScope, LoopScope,
         ActiveScope, DeviceSteps
<1>4. ContextScope' /\ AnswersNegotiated'
  BY DEF SendHeartbeat, Heartbeat, ContextScope, Usable, AnswersNegotiated,
         Answers
<1>5. NoLeakedSession'
  BY DEF SendHeartbeat, Heartbeat, NoLeakedSession, SessionTypeOK, Answers,
         TypeOK, ReleaseId
<1>6. Settled' /\ Remaining' /\ OnItsWay'
  BY DEF SendHeartbeat, Heartbeat, Settled, Remaining, OnItsWay, Exportable,
         Answers, Served, DeviceSteps
<1>. QED
  BY <1>1, <1>2, <1>3, <1>4, <1>5, <1>6

(* The measurement request ends.                                           *)
LEMMA FinishMeasurementKeepsIInv ==
    ASSUME IInv, FinishMeasurement PROVE IInv'
<1>1. TypeOK' /\ LiveHasSlot'
  BY DEF FinishMeasurement, TypeOK, SessionTypeOK, ContextState, Boot, Steps,
         LiveHasSlot, Ops
<1>2. Control' /\ LoopScope' /\ ActiveScope'
  BY DEF FinishMeasurement, Control, LoopScope, ActiveScope, DeviceSteps
<1>3. ResponderScope'
  BY DEF FinishMeasurement, ResponderScope, Control
<1>4. ContextScope' /\ AnswersNegotiated'
  BY DEF FinishMeasurement, ContextScope, Usable, AnswersNegotiated, Answers
<1>5. NoLeakedSession'
  BY DEF FinishMeasurement, NoLeakedSession, ActiveScope, Answers
<1>6. Settled'
  BY DEF FinishMeasurement, Settled, Exportable, Answers, Served, Control,
         DeviceSteps
<1>7. Remaining'
  BY DEF FinishMeasurement, Remaining
<1>8. OnItsWay'
  BY DEF FinishMeasurement, OnItsWay
<1>. QED
  BY <1>1, <1>2, <1>3, <1>4, <1>5, <1>6, <1>7, <1>8

-----------------------------------------------------------------------------
(* The invariant. *)

(* Every initial state satisfies the inductive invariant: nothing runs,    *)
(* nothing is discovered, no context exists.                               *)
THEOREM InitEstablishesIInv == Init => IInv
<1>. SUFFICES ASSUME Init PROVE IInv
  OBVIOUS
<1>1. boot \in Boot /\ enabled \in BOOLEAN /\ secure \in BOOLEAN
  BY DEF Init, Boot
<1>2. SessionTypeOK /\ LiveHasSlot
  BY MaxSessionsAssumption
     DEF Init, NoContexts, SessionTypeOK, ContextState, LiveHasSlot
<1>3. TypeOK
  BY <1>1, <1>2 DEF Init, TypeOK, Ops, Steps
<1>4. Control /\ ResponderScope /\ LoopScope
  BY DEF Init, Control, ResponderScope, LoopScope, DeviceSteps
<1>5. ActiveScope /\ ContextScope /\ NoLeakedSession /\ AnswersNegotiated
  BY DEF Init, NoContexts, ActiveScope, ContextScope, NoLeakedSession,
         AnswersNegotiated
<1>6. Settled /\ Remaining /\ OnItsWay
  BY DEF Init, Settled, Remaining, OnItsWay, DeviceSteps
<1>. QED
  BY <1>2, <1>3, <1>4, <1>5, <1>6

(* A step of the running handler preserves the invariant. *)
LEMMA HandlerStepKeepsIInv ==
    ASSUME IInv, HandlerStep PROVE IInv'
<1>1. CASE CloseDone         BY <1>1, CloseDoneKeepsIInv
<1>2. CASE ClearDone         BY <1>2, ClearDoneKeepsIInv
<1>3. CASE Exit              BY <1>3, VanishKeepsIInv DEF Exit
<1>4. CASE LoopDone          BY <1>4, LoopDoneKeepsIInv
<1>5. CASE FinishMeasurement BY <1>5, FinishMeasurementKeepsIInv
<1>6. ASSUME NEW d \in Devices,
             \/ CloseSession(d) \/ DropResponder(d)
             \/ InitializeTransport(d) \/ InitializeFails(d)
             \/ Configure(d) \/ Construct(d) \/ Connect(d) \/ ConnectFails(d)
             \/ PushResponder(d) \/ NextResponder(d)
             \/ InstallRootCert(d) \/ OpenSession(d) \/ SendHeartbeat(d)
      PROVE  IInv'
  <2>1. CASE CloseSession(d)        BY <2>1, CloseSessionKeepsIInv
  <2>2. CASE DropResponder(d)       BY <2>2, DropResponderKeepsIInv
  <2>3. CASE InitializeTransport(d) BY <2>3, InitializeTransportKeepsIInv
  <2>4. CASE InitializeFails(d)     BY <2>4, InitializeFailsKeepsIInv
  <2>5. CASE Configure(d)           BY <2>5, ConfigureKeepsIInv
  <2>6. CASE Construct(d)           BY <2>6, ConstructKeepsIInv
  <2>7. CASE Connect(d)             BY <2>7, ConnectKeepsIInv
  <2>8. CASE ConnectFails(d)        BY <2>8, ConnectFailsKeepsIInv
  <2>9. CASE PushResponder(d)       BY <2>9, PushResponderKeepsIInv
  <2>10. CASE NextResponder(d)      BY <2>10, NextResponderKeepsIInv
  <2>11. CASE InstallRootCert(d)    BY <2>11, InstallRootCertKeepsIInv
  <2>12. CASE OpenSession(d)        BY <2>12, OpenSessionKeepsIInv
  <2>13. CASE SendHeartbeat(d)      BY <2>13, SendHeartbeatKeepsIInv
  <2>. QED
    BY <1>6, <2>1, <2>2, <2>3, <2>4, <2>5, <2>6, <2>7, <2>8, <2>9, <2>10,
       <2>11, <2>12, <2>13
<1>. QED
  BY <1>1, <1>2, <1>3, <1>4, <1>5, <1>6 DEF HandlerStep

(* A request or the reply to discovery preserves the invariant. *)
LEMMA RequestKeepsIInv ==
    ASSUME IInv, Request PROVE IInv'
<1>1. CASE SetEnabled BY <1>1, SetEnabledKeepsIInv
<1>2. CASE SetSecure  BY <1>2, SetSecureKeepsIInv
<1>3. CASE DiscoveryFails
  <2>1. CASE boot.owner = "then"
    BY <1>3, <2>1, VanishKeepsIInv DEF DiscoveryFails
  <2>2. CASE boot.owner # "then"
    BY <1>3, <2>2, DiscoveredKeepsIInv DEF DiscoveryFails
  <2>. QED
    BY <2>1, <2>2
<1>4. ASSUME NEW ds \in SUBSET Devices, DiscoverySucceeds(ds) PROVE IInv'
  <2>1. PICK reported \in SUBSET Devices : Discovered(reported)
    BY <1>4 DEF DiscoverySucceeds
  <2>. QED
    BY <1>4, <2>1, DiscoveredKeepsIInv DEF DiscoverySucceeds
<1>5. ASSUME NEW d \in Devices, GetSignedMeasurements(d) PROVE IInv'
  BY <1>5, GetSignedMeasurementsKeepsIInv
<1>. QED
  BY <1>1, <1>2, <1>3, <1>4, <1>5 DEF Request

(* Every step of the daemon and of its environment preserves the invariant. *)
THEOREM NextPreservesIInv == IInv /\ [Next]_vars => IInv'
<1>. SUFFICES ASSUME IInv, [Next]_vars PROVE IInv'
  OBVIOUS
<1>1. CASE HandlerStep BY <1>1, HandlerStepKeepsIInv
<1>2. CASE LeaveLoop   BY <1>2, LeaveLoopKeepsIInv
<1>3. CASE Request     BY <1>3, RequestKeepsIInv
<1>4. CASE Environment
  <2>1. CASE Start     BY <2>1, StartKeepsIInv
  <2>2. CASE Crash     BY <2>2, VanishKeepsIInv DEF Crash
  <2>3. CASE Signal    BY <2>3, SignalKeepsIInv
  <2>4. CASE LoseReply BY <2>4, LoseReplyKeepsIInv
  <2>. QED
    BY <1>4, <2>1, <2>2, <2>3, <2>4 DEF Environment
<1>5. CASE UNCHANGED vars
  <2>1. TypeOK' /\ LiveHasSlot'
    BY <1>5 DEF vars, TypeOK, SessionTypeOK, LiveHasSlot
  <2>2. Control' /\ ResponderScope' /\ LoopScope' /\ ActiveScope'
    BY <1>5 DEF vars, Control, ResponderScope, LoopScope, ActiveScope
  <2>3. ContextScope' /\ NoLeakedSession' /\ AnswersNegotiated'
    BY <1>5
       DEF vars, ContextScope, NoLeakedSession, AnswersNegotiated, Answers
  <2>4. Settled' /\ Remaining' /\ OnItsWay'
    BY <1>5
       DEF vars, Settled, Remaining, OnItsWay, Exportable, Answers, Served
  <2>. QED
    BY <2>1, <2>2, <2>3, <2>4
<1>. QED
  BY <1>1, <1>2, <1>3, <1>4, <1>5 DEF Next

(* The inductive invariant holds in every state of the daemon. *)
THEOREM Invariance == Spec => []IInv
  BY InitEstablishesIInv, NextPreservesIInv, PTL DEF Spec

-----------------------------------------------------------------------------
(* The properties of Spdmd. *)

(* Every variable of the daemon and of its session layer keeps to its type. *)
THEOREM TypeCorrect == Spec => []TypeOK
<1>1. IInv => TypeOK
  OBVIOUS
<1>. QED
  BY <1>1, Invariance, PTL

(* Whenever the loop is idle, responders exist only under Enabled and open  *)
(* sessions only on responders under both properties: the handlers of       *)
(* spdmd.cpp leave nothing behind, whatever failed while they ran.          *)
THEOREM PolicyIsRespected == Spec => []PolicyRespected
<1>1. IInv => PolicyRespected
  BY DEF Control, ResponderScope, ActiveScope, PolicyRespected
<1>. QED
  BY <1>1, Invariance, PTL

(* processDiscoveredDevices never initialises the transport of a device     *)
(* that has a responder or a session.                                       *)
THEOREM RespondersAreReplaced == Spec => []ReplaceNotAppend
<1>1. IInv => ReplaceNotAppend
  BY DEF TypeOK, LoopScope, ActiveScope, Control, DeviceSteps,
         ReplaceNotAppend
<1>. QED
  BY <1>1, Invariance, PTL

(* A responder always stands on a configured context.                       *)
THEOREM RespondersAreUsable == Spec => []ResponderUsable
<1>1. IInv => ResponderUsable
  BY DEF ContextScope, Usable, ResponderUsable
<1>. QED
  BY <1>1, Invariance, PTL

(* For a device that answers, libspdm holds exactly the session the daemon  *)
(* accounts for, over every sequence of flips, measurements and rounds.     *)
THEOREM SessionsAreNotLeaked == Spec => []NoLeakedSession
<1>1. IInv => NoLeakedSession
  OBVIOUS
<1>. QED
  BY <1>1, Invariance, PTL

(* Idle, enabled and discovered: every device that answers has the          *)
(* responder and the session the policy asks for.                           *)
THEOREM PolicyIsApplied == Spec => []PolicyApplied
<1>1. IInv => PolicyApplied
  BY DEF Settled, Served, PolicyApplied
<1>. QED
  BY <1>1, Invariance, PTL

(* isActive becomes TRUE in one place only: SpdmSession::start, called for *)
(* the current device.                                                     *)
LEMMA OnlyOpenSessionActivates ==
    ASSUME TypeOK, Next, NEW d \in Devices, ~active[d], active'[d]
    PROVE  OpenSession(d)
<1>1. CASE CloseDone \/ ClearDone \/ LoopDone \/ FinishMeasurement
  BY <1>1 DEF CloseDone, ClearDone, LoopDone, FinishMeasurement
<1>2. CASE Exit \/ Crash
  BY <1>2 DEF Exit, Crash, Vanish, ForgetContexts
<1>3. CASE LeaveLoop \/ Start \/ Signal \/ LoseReply
  BY <1>3 DEF LeaveLoop, Start, Signal, LoseReply
<1>4. CASE SetEnabled \/ SetSecure
  BY <1>4 DEF SetEnabled, SetSecure
<1>5. CASE DiscoveryFails
  BY <1>5 DEF DiscoveryFails, Vanish, ForgetContexts, Discovered
<1>6. CASE \E ds \in SUBSET Devices : DiscoverySucceeds(ds)
  BY <1>6 DEF DiscoverySucceeds, Discovered
<1>7. ASSUME NEW e \in Devices,
             \/ GetSignedMeasurements(e) \/ Construct(e) \/ PushResponder(e)
             \/ NextResponder(e) \/ InstallRootCert(e)
      PROVE  FALSE
  BY <1>7
     DEF GetSignedMeasurements, Construct, PushResponder, NextResponder,
         InstallRootCert
<1>8. ASSUME NEW e \in Devices, CloseSession(e) \/ DropResponder(e)
      PROVE  FALSE
  BY <1>8 DEF CloseSession, DropResponder, StopSession, TypeOK, SessionTypeOK
<1>9. ASSUME NEW e \in Devices,
             \/ InitializeTransport(e) \/ InitializeFails(e)
             \/ Connect(e) \/ ConnectFails(e)
      PROVE  FALSE
  BY <1>9
     DEF InitializeTransport, InitializeFails, Connect, ConnectFails,
         EmptyTable
<1>10. ASSUME NEW e \in Devices, Configure(e) \/ SendHeartbeat(e)
       PROVE  FALSE
  BY <1>10 DEF Configure, ApplyConfig, SendHeartbeat, Heartbeat
<1>11. ASSUME NEW e \in Devices, OpenSession(e)
       PROVE  OpenSession(d)
  <2>1. e = d
    BY <1>11 DEF OpenSession, StartSession, TypeOK, SessionTypeOK
  <2>. QED
    BY <1>11, <2>1
<1>. QED
  BY <1>1, <1>2, <1>3, <1>4, <1>5, <1>6, <1>7, <1>8, <1>9, <1>10, <1>11
     DEF Next, HandlerStep, Request, Environment

(* No session is opened on a context without a negotiated connection, nor   *)
(* while one of the two properties is false.                                *)
THEOREM SessionsAreOpenedLegally == Spec => SessionOpenedLegally
<1>. DEFINE Legal ==
        \A d \in Devices :
            ~active[d] /\ active'[d] =>
                context[d] = "negotiated" /\ enabled /\ secure
<1>1. IInv /\ [Next]_vars => [Legal]_vars
  <2>. SUFFICES ASSUME IInv, Next, NEW d \in Devices, ~active[d], active'[d]
                PROVE  context[d] = "negotiated" /\ enabled /\ secure
    OBVIOUS
  <2>1. step = "start" /\ d = cur
    BY OnlyOpenSessionActivates DEF OpenSession
  <2>. QED
    BY <2>1 DEF Control, ContextScope
<1>. QED
  BY <1>1, Invariance, PTL DEF Spec, SessionOpenedLegally

=============================================================================
