------------------------------- MODULE Spdmd -------------------------------
(***************************************************************************)
(* The requester daemon spdmd: its policy properties, its one-shot device  *)
(* discovery, the set of D-Bus responders and the handlers that create     *)
(* and tear them down.                                                     *)
(*                                                                         *)
(* The daemon is one thread running an sdbusplus event loop.  A handler    *)
(* (a property setter, the discovery callback, a method call) runs to      *)
(* completion and makes blocking libspdm calls on the way, so no two       *)
(* handlers interleave; but a signal may arrive, the process may die and   *)
(* a peer may fail between any two of its steps.  A handler is therefore a *)
(* sequence of steps: op says which handler runs, step where it is, cur    *)
(* the device it is working on and todo what its loop has left.            *)
(***************************************************************************)
EXTENDS SpdmSession

CONSTANTS
    Faulty,         \* devices whose exchanges and resources may fail
    Name,           \* Name[d]: deviceObjectPath.filename() of device d
    NoName,         \* the empty file name of an empty deviceObjectPath
    Transport,      \* "TCP" or "MCTP": which transport the build selects
    NoDevice

ASSUME FaultyAssumption == Faulty \subseteq Devices
ASSUME NoDeviceAssumption == NoDevice \notin Devices
ASSUME TransportAssumption == Transport \in {"TCP", "MCTP"}

VARIABLES
    life,           \* "down" or "running"
    boot,           \* what every start finds: policy values, build
    enabled,        \* PolicyManager::enabled_
    secure,         \* PolicyManager::secure_session_enabled_
    discovery,      \* has the discovery callback run?
    devices,        \* discoveredDevices
    responders,     \* devices that have an SPDMDBusResponder in the vector
    op, step, cur, todo,   \* control state of the running handler
    stop,           \* request_stop() was called
    blocked         \* the thread waits in recv for a reply that was lost

policyVars    == <<enabled, secure>>
discoveryVars == <<discovery, devices>>
controlVars   == <<op, step, cur, todo>>
processVars   == <<life, boot, stop, blocked>>
vars == <<life, boot, enabled, secure, discovery, devices, responders,
          op, step, cur, todo, stop, blocked, context, active, live, slots>>

Ops == {"idle", "disable", "process", "secure", "unsecure", "measure", "shutdown"}

(* enabled: the cache file's value or the default; secure: the default     *)
(* (the daemon never writes the file); owner: utils.cpp moves the          *)
(* discovery callback into two lambdas in unspecified order, owner got it. *)
Boot == [enabled : BOOLEAN, secure : BOOLEAN, owner : {"then", "upon_error"}]

Steps == {"none", "close", "clear", "device", "configure", "construct",
          "connect", "open", "start", "heartbeat", "push", "responder", "fetch"}

TypeOK ==
    /\ SessionTypeOK
    /\ life \in {"down", "running"}
    /\ boot \in Boot
    /\ enabled \in BOOLEAN
    /\ secure \in BOOLEAN
    /\ discovery \in {"pending", "done"}
    /\ devices \subseteq Devices
    /\ responders \subseteq Devices
    /\ op \in Ops
    /\ step \in Steps
    /\ cur \in Devices \cup {NoDevice}
    /\ todo \subseteq Devices
    /\ stop \in BOOLEAN
    /\ blocked \in BOOLEAN

Init ==
    /\ NoContexts
    /\ life = "down"
    /\ boot \in Boot
    /\ enabled = boot.enabled
    /\ secure = boot.secure
    /\ discovery = "pending"
    /\ devices = {}
    /\ responders = {}
    /\ op = "idle" /\ step = "none" /\ cur = NoDevice /\ todo = {}
    /\ stop = FALSE
    /\ blocked = FALSE

-----------------------------------------------------------------------------
Idle == life = "running" /\ op = "idle"

Active(S) == {d \in S : active[d]}

(* What may go wrong with d: a faulty device fails at will, and the signal *)
(* that requests the stop interrupts an MCTP recv, whose EINTR is an error *)
(* (the TCP loops retry it).                                               *)
MayFail(d) == d \in Faulty \/ (Transport = "MCTP" /\ stop)

(* Both D-Bus objects of d can be exported: the path is not empty-named    *)
(* and no responder holds it yet.                                          *)
PathFree(d) == Name[d] # NoName /\ \A r \in responders : Name[r] # Name[d]

(* Handler o starts at step s with d as its device and S left to do. *)
Run(o, s, d, S) == op' = o /\ step' = s /\ cur' = d /\ todo' = S

Return == Run("idle", "none", NoDevice, {})

Goto(s) == step' = s /\ UNCHANGED <<op, cur, todo>>

(* processDiscoveredDevices: `continue` with the next device. *)
NextDevice == step' = "device" /\ cur' = NoDevice /\ UNCHANGED <<op, todo>>

(* processDiscoveredDevices starts with tearDownResponders. *)
Process == Run("process", "close", NoDevice, Active(responders))

(* A handler step can be taken. *)
At(s) == life = "running" /\ ~blocked /\ step = s

-----------------------------------------------------------------------------
(* Variants: each is a definition below with a plausible mistake in it,    *)
(* kept to show which property would notice the mistake.                   *)

(* tearDownResponders without responders.clear(). *)
CloseDoneKeepsResponders ==
    /\ At("close") /\ todo = {}
    /\ IF op = "process" THEN Run("process", "device", NoDevice, devices) ELSE Return
    /\ UNCHANGED <<processVars, policyVars, discoveryVars, responders, sessionVars>>

(* The try block around the device loop instead of inside it. *)
ConnectFailsAborts(d) ==
    /\ At("connect") /\ d = cur
    /\ MayFail(d) \/ context[d] = "none"
    /\ EmptyTable(d, IF context[d] = "negotiated" THEN "configured" ELSE context[d])
    /\ Return
    /\ UNCHANGED <<processVars, policyVars, discoveryVars, responders>>

(* A discovery callback that only stores the devices. *)
DiscoveredStoresOnly(ds) ==
    /\ discovery' = "done"
    /\ devices' = ds
    /\ UNCHANGED <<processVars, policyVars, responders, controlVars, sessionVars>>

(* A root certificate that does not depend on the negotiated algorithm. *)
InstallRootCertAnyway(d) ==
    /\ At("open") /\ d = cur
    /\ Goto("start") \/ (MayFail(d) /\ Goto("push"))
    /\ UNCHANGED <<processVars, policyVars, discoveryVars, responders, sessionVars>>

(* A runtime loop that looks again at the responder it has just served. *)
NextResponderAgain(d) ==
    /\ At("responder") /\ d \in todo
    /\ Run(op, "open", d, todo)
    /\ UNCHANGED <<processVars, policyVars, discoveryVars, responders, sessionVars>>

(* A loop that ends only when nothing is exported any more. *)
LeaveLoopDrained ==
    /\ Idle /\ stop /\ responders = {}
    /\ Run("shutdown", "clear", NoDevice, {})
    /\ UNCHANGED <<processVars, policyVars, discoveryVars, responders, sessionVars>>

-----------------------------------------------------------------------------
(* Life of the process. *)

(* main up to ctx.run(): PolicyManager::load restores "enabled" from the   *)
(* cache file, everything else starts from its default.                    *)
Start ==
    /\ life = "down"
    /\ life' = "running"
    /\ UNCHANGED <<boot, stop, blocked, policyVars, discoveryVars, responders,
                   controlVars, sessionVars>>

Vanish ==
    /\ life' = "down" /\ stop' = FALSE /\ blocked' = FALSE
    /\ enabled' = boot.enabled
    /\ secure' = boot.secure
    /\ discovery' = "pending"
    /\ devices' = {}
    /\ responders' = {}
    /\ Return
    /\ ForgetContexts
    /\ UNCHANGED boot

(* The process dies: killed, out of memory, an exception escaping main. *)
Crash == life = "running" /\ Vanish

(* signalHandler: request_stop(), at any time.  The handler that is        *)
(* running goes on; a blocked MCTP recv returns EINTR.                     *)
Signal ==
    /\ life = "running" /\ ~stop
    /\ stop' = TRUE
    /\ blocked' = FALSE
    /\ UNCHANGED <<life, boot, policyVars, discoveryVars, responders,
                   controlVars, sessionVars>>

(* ctx.run() returns and main destroys the responders. *)
LeaveLoop ==
    /\ Idle /\ stop
    /\ Run("shutdown", "clear", NoDevice, {})
    /\ UNCHANGED <<processVars, policyVars, discoveryVars, responders, sessionVars>>

(* The step the handler is at waits for a reply of the device. *)
AwaitsReply ==
    \/ step \in {"connect", "start", "heartbeat", "fetch"}
    \/ step = "close" /\ \E d \in todo : live[d]
    \/ step = "clear" /\ \E d \in responders : active[d] /\ live[d]

(* MctpIoClass::read ignores its timeout: a reply that never comes leaves  *)
(* the thread in recv.  (TcpIoClass sets SO_RCVTIMEO and fails instead.)   *)
LoseReply ==
    /\ Transport = "MCTP"
    /\ life = "running" /\ ~blocked /\ AwaitsReply
    /\ blocked' = TRUE
    /\ UNCHANGED <<life, boot, stop, policyVars, discoveryVars, responders,
                   controlVars, sessionVars>>

-----------------------------------------------------------------------------
(* D-Bus requests and replies, taken up by the loop when it is idle. *)

(* PolicyManager::set_property(enabled_t) and the callback main registered. *)
SetEnabled ==
    /\ Idle /\ ~stop
    /\ enabled' = ~enabled
    /\ IF enabled'
       THEN Process
       ELSE Run("disable", "close", NoDevice, Active(responders))
    /\ UNCHANGED <<processVars, secure, discoveryVars, responders, sessionVars>>

(* PolicyManager::set_property(secure_session_enabled_t) and its callback, *)
(* which does nothing while Enabled is false.                              *)
SetSecure ==
    /\ Idle /\ ~stop
    /\ secure' = ~secure
    /\ IF ~enabled THEN UNCHANGED controlVars
       ELSE IF secure'
            THEN Run("secure", "responder", NoDevice,
                     responders \ Active(responders))
            ELSE Run("unsecure", "close", NoDevice, Active(responders))
    /\ UNCHANGED <<processVars, enabled, discoveryVars, responders, sessionVars>>

(* The callback given to SPDMDiscovery::discover. *)
Discovered(ds) ==
    /\ discovery' = "done"
    /\ devices' = ds
    /\ IF enabled THEN Process ELSE UNCHANGED controlVars
    /\ UNCHANGED <<processVars, policyVars, responders, sessionVars>>

(* GetManagedObjects succeeds.  One of the lambdas then and upon_error     *)
(* holds an empty function: when it is then, calling it throws, and        *)
(* upon_error reports failure to the callback it owns.                     *)
DiscoverySucceeds(ds) ==
    /\ Idle /\ ~stop /\ discovery = "pending"
    /\ Discovered(IF boot.owner = "then" THEN ds ELSE {})

(* GetManagedObjects fails.  With an empty upon_error the exception        *)
(* std::bad_function_call leaves ctx.run() and the process.                *)
DiscoveryFails ==
    /\ Idle /\ ~stop /\ discovery = "pending"
    /\ IF boot.owner = "then" THEN Vanish ELSE Discovered({})

(* SPDMGetSignedMeasurements on the object of d, with valid arguments. *)
GetSignedMeasurements(d) ==
    /\ Idle /\ ~stop
    /\ d \in responders
    /\ Run("measure", "connect", d, {})
    /\ UNCHANGED <<processVars, policyVars, discoveryVars, responders, sessionVars>>

-----------------------------------------------------------------------------
(* tearDownResponders, and the loop that closes sessions at runtime. *)

(* closeSecureSession of an active responder; its error is only logged. *)
CloseSession(d) ==
    /\ At("close") /\ d \in todo
    /\ StopSession(d, MayFail(d))
    /\ todo' = todo \ {d}
    /\ UNCHANGED <<op, step, cur, processVars, policyVars, discoveryVars, responders>>

CloseDone ==
    /\ At("close") /\ todo = {}
    /\ IF op = "unsecure" THEN Return ELSE Goto("clear")
    /\ UNCHANGED <<processVars, policyVars, discoveryVars, responders, sessionVars>>

(* responders.clear(): ~SpdmSession stops a session that is still active. *)
DropResponder(d) ==
    /\ At("clear") /\ d \in responders
    /\ IF active[d] THEN StopSession(d, MayFail(d)) ELSE UNCHANGED sessionVars
    /\ responders' = responders \ {d}
    /\ UNCHANGED <<processVars, policyVars, discoveryVars, controlVars>>

ClearDone ==
    /\ At("clear") /\ responders = {}
    /\ \/ op = "disable" /\ Return
       \/ op = "process" /\ Run("process", "device", NoDevice, devices)
    /\ UNCHANGED <<processVars, policyVars, discoveryVars, responders, sessionVars>>

(* main returns EXIT_SUCCESS. *)
Exit ==
    /\ At("clear") /\ responders = {}
    /\ op = "shutdown"
    /\ Vanish

-----------------------------------------------------------------------------
(* The device loop of processDiscoveredDevices. *)

(* transport->initialize(): a new context replaces the one of a previous   *)
(* round, sessions and all.                                                *)
InitializeTransport(d) ==
    /\ At("device") /\ d \in todo
    /\ EmptyTable(d, "initialized")
    /\ Run("process", "configure", d, todo \ {d})
    /\ UNCHANGED <<processVars, policyVars, discoveryVars, responders>>

(* initialize() returns false: the socket could not be created (the old    *)
(* context stays; a signal is enough, it interrupts the poll that waits    *)
(* for the TCP connection), or allocation failed (MCTP may keep a raw      *)
(* context).                                                               *)
InitializeFails(d) ==
    /\ At("device") /\ d \in todo /\ (MayFail(d) \/ stop)
    /\ \/ UNCHANGED sessionVars
       \/ EmptyTable(d, "none")
       \/ Transport = "MCTP" /\ EmptyTable(d, "raw")
    /\ todo' = todo \ {d}
    /\ UNCHANGED <<op, step, cur, processVars, policyVars, discoveryVars, responders>>

Configure(d) ==
    /\ At("configure") /\ d = cur
    /\ \/ ApplyConfig(d) /\ Goto("construct")
       \/ MayFail(d) /\ NextDevice /\ UNCHANGED sessionVars
    /\ UNCHANGED <<processVars, policyVars, discoveryVars, responders>>

(* SPDMDBusResponder(): export the two objects, then connect; an exception *)
(* of either skips the device.                                             *)
Construct(d) ==
    /\ At("construct") /\ d = cur
    /\ IF PathFree(d) THEN Goto("connect") ELSE NextDevice
    /\ UNCHANGED <<processVars, policyVars, discoveryVars, responders, sessionVars>>

(* ComponentIntegrity::initializeSpdmConnection, from the constructor or   *)
(* from a measurement request: libspdm_init_connection resets the context  *)
(* before it sends GET_VERSION.  It throws on a null or failing context.   *)
Connect(d) ==
    /\ At("connect") /\ d = cur /\ context[d] # "none"
    /\ EmptyTable(d, "negotiated")
    /\ Goto(IF op = "measure" THEN "fetch" ELSE IF secure THEN "open" ELSE "push")
    /\ UNCHANGED <<processVars, policyVars, discoveryVars, responders>>

ConnectFails(d) ==
    /\ At("connect") /\ d = cur
    /\ MayFail(d) \/ context[d] = "none"
    /\ EmptyTable(d, IF context[d] = "negotiated" THEN "configured" ELSE context[d])
    /\ IF op = "measure" THEN Return ELSE NextDevice
    /\ UNCHANGED <<processVars, policyVars, discoveryVars, responders>>

(* responders.push_back, whatever became of the session; in the runtime    *)
(* loop the responder is there already.                                    *)
PushResponder(d) ==
    /\ At("push") /\ d = cur
    /\ responders' = responders \cup {d}
    /\ step' = (IF op = "process" THEN "device" ELSE "responder")
    /\ cur' = NoDevice
    /\ UNCHANGED <<op, todo, processVars, policyVars, discoveryVars, sessionVars>>

LoopDone ==
    /\ At("device") \/ At("responder")
    /\ todo = {}
    /\ Return
    /\ UNCHANGED <<processVars, policyVars, discoveryVars, responders, sessionVars>>

-----------------------------------------------------------------------------
(* SPDMDBusResponder::openSecureSession followed by sendHeartbeat. *)

(* The runtime loop over responders that have no active session. *)
NextResponder(d) ==
    /\ At("responder") /\ d \in todo
    /\ Run(op, "open", d, todo \ {d})
    /\ UNCHANGED <<processVars, policyVars, discoveryVars, responders, sessionVars>>

(* installPeerRootCert: the certificate directory is named after the       *)
(* negotiated algorithm, so without a negotiation there is no certificate. *)
InstallRootCert(d) ==
    /\ At("open") /\ d = cur
    /\ \/ context[d] = "negotiated" /\ Goto("start")
       \/ (context[d] # "negotiated" \/ MayFail(d)) /\ Goto("push")
    /\ UNCHANGED <<processVars, policyVars, discoveryVars, responders, sessionVars>>

OpenSession(d) ==
    /\ At("start") /\ d = cur
    /\ \/ StartSession(d) /\ Goto("heartbeat")
       \/ (MayFail(d) \/ slots[d] = MaxSessions) /\ Goto("push") /\ UNCHANGED sessionVars
    /\ UNCHANGED <<processVars, policyVars, discoveryVars, responders>>

SendHeartbeat(d) ==
    /\ At("heartbeat") /\ d = cur
    /\ Heartbeat(d, MayFail(d))
    /\ Goto("push")
    /\ UNCHANGED <<processVars, policyVars, discoveryVars, responders>>

(* The rest of method_call: digests, certificate, measurements and the     *)
(* reply.  An error becomes an empty reply; no state of this module moves. *)
FinishMeasurement ==
    /\ At("fetch")
    /\ Return
    /\ UNCHANGED <<processVars, policyVars, discoveryVars, responders, sessionVars>>

-----------------------------------------------------------------------------
(* Steps of the running handler, up to the end of the process. *)
HandlerStep ==
    \/ CloseDone \/ ClearDone \/ Exit \/ LoopDone \/ FinishMeasurement
    \/ \E d \in Devices :
        \/ CloseSession(d) \/ DropResponder(d)
        \/ InitializeTransport(d) \/ InitializeFails(d)
        \/ Configure(d) \/ Construct(d) \/ Connect(d) \/ ConnectFails(d)
        \/ PushResponder(d) \/ NextResponder(d)
        \/ InstallRootCert(d) \/ OpenSession(d) \/ SendHeartbeat(d)

Request ==
    \/ SetEnabled \/ SetSecure \/ DiscoveryFails
    \/ \E ds \in SUBSET Devices : DiscoverySucceeds(ds)
    \/ \E d \in Devices : GetSignedMeasurements(d)

Environment == Start \/ Crash \/ Signal \/ LoseReply

Next == HandlerStep \/ LeaveLoop \/ Request \/ Environment

Spec == Init /\ [][Next]_vars

(* The thread runs: a handler that can take a step takes one, and the loop *)
(* notices a stop request.  Requests, signals and faults may never come.   *)
Fairness == WF_vars(HandlerStep) /\ WF_vars(LeaveLoop)

FairSpec == Spec /\ Fairness

-----------------------------------------------------------------------------
(* Properties. *)

(* The policy holds whenever the loop is idle: a responder exists only     *)
(* while Enabled is true, and a session is open only on a responder, with  *)
(* Enabled and SecureSessionEnabled both true (spdmd.cpp, the two change   *)
(* callbacks and the discovery callback).                                  *)
PolicyRespected ==
    Idle => \A d \in Devices :
        /\ d \in responders => enabled
        /\ active[d] => enabled /\ secure /\ d \in responders

(* processDiscoveredDevices replaces and never appends: a device whose     *)
(* turn is still to come has no responder and no session, so initialize()  *)
(* never overwrites a context somebody is using.                           *)
ReplaceNotAppend ==
    op = "process" /\ step \notin {"close", "clear"} =>
        \A d \in todo : d \notin responders /\ ~active[d]

(* Every responder in the vector stands on a context that was initialised  *)
(* and configured, whatever failed on the way and on later measurements.   *)
ResponderUsable ==
    \A d \in responders : context[d] \in {"configured", "negotiated"}

(* The preconditions spdm_session.hpp states for SpdmSession::start, and   *)
(* the policy: a session becomes active only on a negotiated connection,   *)
(* with both properties true.                                              *)
SessionOpenedLegally ==
    [][\A d \in Devices :
        ~active[d] /\ active'[d] =>
            context[d] = "negotiated" /\ enabled /\ secure]_vars

(* d answers every request and nothing interrupts the daemon. *)
Answers(d) == d \notin Faulty /\ ~stop

(* For a device that answers, open and close are balanced over every       *)
(* sequence of policy flips, measurements and re-processings: libspdm      *)
(* never holds a session the daemon does not account for.                  *)
NoLeakedSession ==
    \A d \in Devices : Answers(d) =>
        /\ slots[d] = (IF live[d] THEN 1 ELSE 0)
        /\ live[d] => active[d] /\ (d \in responders \/ d = cur)

(* A device that answers and shares its name with no other. *)
Exportable(d) ==
    /\ Answers(d)
    /\ Name[d] # NoName
    /\ \A e \in devices \ {d} : Name[e] # Name[d]

(* Whatever order discovery, the two properties and failures of other      *)
(* devices came in: when the loop is idle, Enabled is true and discovery   *)
(* is done, every discovered device that answers has a responder, and an   *)
(* active session if SecureSessionEnabled is true.                         *)
PolicyApplied ==
    Idle /\ enabled /\ discovery = "done" =>
        \A d \in devices : Exportable(d) =>
            d \in responders /\ (secure => active[d])

(* spdm_dbus_responder.hpp:71 says of secureSessionActive(): "True if a    *)
(* secure session is currently open."                                      *)
SessionIsOpen == \A d \in Devices : active[d] => live[d]

(* How many steps the running handler still has at most: one for a session *)
(* to close, one for a responder to drop, eight for a device to process,   *)
(* two for a measurement.                                                  *)
StepsOfDevice ==
    CASE step = "configure" -> 7 [] step = "construct" -> 6 [] step = "connect" -> 5
      [] step = "open" -> 4 [] step = "start" -> 3 [] step = "heartbeat" -> 2
      [] step = "push" -> 1 [] OTHER -> 0

StepsOfLoop(S) == 8 * Cardinality(S) + 1

StepsOfClear ==
    Cardinality(responders) + 1 + (IF op = "process" THEN StepsOfLoop(devices) ELSE 0)

StepsLeft ==
    IF op = "idle" THEN 0
    ELSE IF op = "measure" THEN (IF step = "connect" THEN 2 ELSE 1)
    ELSE IF step = "close"
         THEN Cardinality(todo) + 1 + (IF op = "unsecure" THEN 0 ELSE StepsOfClear)
    ELSE IF step = "clear" THEN StepsOfClear
    ELSE StepsOfLoop(todo) + StepsOfDevice

(* A running handler only comes nearer its end, whichever devices fail and *)
(* whatever signals, lost replies and crashes fall between its steps: no   *)
(* loop of it serves a device or a responder twice (spdmd.cpp).            *)
HandlerProgress ==
    [][op # "idle" =>
        /\ StepsLeft' <= StepsLeft
        /\ HandlerStep => StepsLeft' < StepsLeft]_vars

(* Every handler comes to its end: the event loop is given back.           *)
HandlerTerminates == op # "idle" ~> op = "idle"

(* A stop request ends the process, unless the thread is stuck in recv.    *)
StopHonoured == stop ~> (life = "down" \/ blocked)

(* component_integrity_dbus.cpp:380: the method executes "without blocking *)
(* the D-Bus event loop".                                                  *)
MeasurementReturns == op = "measure" ~> op = "idle"

-----------------------------------------------------------------------------
(* What an observer on D-Bus sees of this module. *)

(* The objects of the current device exist from Construct on. *)
Exported ==
    responders \cup
    (IF op = "process" /\ step \in {"connect", "open", "start", "heartbeat", "push"}
     THEN {cur} ELSE {})

(* A measurement changes nothing an observer of the policy could see. *)
Task ==
    IF life = "down" THEN "down"
    ELSE CASE op \in {"idle", "measure"} -> "idle"
           [] op = "disable" -> "remove"
           [] op = "process" -> IF step \in {"close", "clear"} THEN "replace" ELSE "populate"
           [] op = "secure" -> "open"
           [] op = "unsecure" -> "close"
           [] op = "shutdown" -> "exit"

Policy == INSTANCE SpdmPolicy WITH
    boot <- [enabled |-> boot.enabled, secure |-> boot.secure],
    exported <- Exported,
    sessions <- Active(Devices),
    task <- Task

(* The daemon, all its steps, failures and interruptions, is an            *)
(* implementation of the policy of SpdmPolicy.                             *)
ImplementsPolicy == Policy!Spec

(* What libspdm sees of this module, for each device. *)
Context(d) == INSTANCE SpdmContext WITH state <- context[d], session <- live[d]

(* Whatever failed in an earlier round, measurement or policy change, the  *)
(* handlers use every context in the order libspdm asks for: configured    *)
(* once and right after it was set up, connected only when configured,     *)
(* sessions opened only on the connection there is (spdmd.cpp and          *)
(* component_integrity_dbus.cpp).                                          *)
FollowsLifecycle ==
    /\ \A d \in Devices : Context(d)!Init
    /\ [][\A d \in Devices :
            Context(d)!Next \/ UNCHANGED <<context[d], live[d]>>]_vars

=============================================================================
