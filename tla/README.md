# Verification of the SPDM requester daemon

TLA+ models, TLC configurations and TLAPS proofs for the program in
`src/requester`: `spdmd`, a single-threaded D-Bus daemon of a BMC that discovers
SPDM responders (over MCTP or TCP), attests them through libspdm and keeps secure
sessions with them as two policy properties demand. File names below are relative
to `src/requester`.

## 1. The system

| Component (files) | State | Operations | Talks to |
|---|---|---|---|
| Daemon (`spdmd.cpp`) | `discoveredDevices`, `responders`, the sdbusplus context | `main`, `processDiscoveredDevices`, `tearDownResponders`, the two policy callbacks, the discovery callback, `signalHandler` | all the others |
| Policy manager (`policy_manager.*`) | `enabled_`, `secure_session_enabled_` | `load`, two setters, `dump` (no caller) | D-Bus clients; a JSON file read at start |
| Discovery (`spdm_discovery.*`, `mctp_transport_discovery.*`, `tcp_transport_discovery.*`, `utils.*`) | the callback, moved from stage to stage | one asynchronous discovery per run of the daemon | mctpd, EntityManager over D-Bus |
| D-Bus responder (`spdm_dbus_responder.*`) | two D-Bus objects, one session | constructor, open, close, heartbeat | daemon, session, component integrity |
| Secure session (`spdm_session.*`) | `isActive`, `sessionId` | `start`, `stop`, `heartbeat`, destructor; `keyUpdate` and `send` have no caller | libspdm |
| Session configuration (`spdm_session_config.*`) | none; what it writes into the libspdm context | `applySecureSessionConfig`, `installPeerRootCert` | libspdm, certificate files |
| Component integrity (`component_integrity_dbus.*`) | properties, the certificate object | constructor, `SPDMGetSignedMeasurements` | D-Bus clients, libspdm, certificate object |
| Certificate and trusted component objects (`certificate_dbus.*`, `trusted_component_dbus.*`) | properties | publication | D-Bus clients |
| Transports (`libspdm_transport.hpp`, `libspdm_tcp_transport.*`, `tcp_helper.hpp`, `libspdm_mctp_transport.*`, `mctp_helper.hpp`) | libspdm context, scratch buffer, socket | `initialize`, send and receive callbacks | the device |
| Stubs and the simple client (`spdm_device_secret_lib_stub.cpp`, `spdm_simple_client.cpp`) | none | none of the daemon's | |

What makes it hard. There is one thread, and every handler makes blocking libspdm
calls, so handlers do not interleave with each other; but between any two steps of a
handler a signal may ask for the stop, the process may die, a device may fail, or,
over MCTP, a reply may be lost and the thread with it. Discovery may answer before
or after the policy is changed. Sessions are recorded twice, in `SpdmSession` and in
libspdm's table inside the context, and three different operations (re-initialising
a transport, opening a connection for a measurement, ending a session) change the
second record with or without the first. The transports put datagrams and a byte
stream, neither of which knows of requests, under a strict request-reply protocol.

What makes each part correct:

- Daemon: responders and sessions are, whenever the loop is idle, the ones the two
  properties ask for; processing replaces and never appends; one bad device costs
  no other device anything; every handler ends; a stop request ends the process.
- Session: opened only on a negotiated connection; the two records agree; for a
  device that answers nothing leaks from libspdm's table.
- Transport: a context is never used half-built; until an exchange fails the buffer
  handed to libspdm is the reply to its request; `read` returns.
- Component integrity: validation accepts exactly what libspdm can be asked; a call
  hands over everything or nothing; the certificate object follows the replies.
- Discovery: the callback runs at most once, on every error path; one unusable object
  costs no other its place; each device gets the inventory object that configures it.
- Session configuration: no message leaves before the parameters of the
  `SecureSessionConfig` were accepted in the very context that sends it; a pinned
  version stays pinned; while a session is open the certificate designated for the
  algorithm of its connection is among the root certificates of the context.

## 2. Modules

| Module | Models |
|---|---|
| `SpdmPolicy` | what the daemon promises an observer on D-Bus: which devices are exported and have a session, task by task (abstract) |
| `SpdmSession` | the session layer of every device: context, `isActive`, libspdm's session table; one operator per operation |
| `Spdmd` | the daemon over it: process life, policy, discovery, the vector of responders, every handler as a sequence of steps. EXTENDS `SpdmSession`; implements `SpdmPolicy` |
| `SpdmdInv` | the inductive invariant of `Spdmd`, conjunct by conjunct |
| `SpdmdProofs` | its proofs (TLAPS) |
| `SpdmdRefinement` | the proofs that `Spdmd` implements `SpdmPolicy` and `DiscoveryContract`, and, for every device, `SpdmContext` |
| `SpdmdProgress` | the proof that every handler is bounded |
| `MCSpdmd` | constant values for TLC |
| `SpdmContext` | the life of one libspdm context as libspdm expects it to be used (abstract) |
| `SpdmLink` | what either transport promises libspdm (abstract) |
| `MeasurementService` | what `SPDMGetSignedMeasurements` promises its client: one call (abstract) |
| `DiscoveryContract` | what a `DiscoveryProtocol` promises its caller (abstract) |
| `Discovery`, `MCDiscovery`, `DiscoveryProofs` | both discoveries from D-Bus objects to devices; implements `DiscoveryContract` |
| `SessionConfig`, `SessionConfigProofs` | version pin, parameters, negotiation and trust anchor of one device's context; implements `SpdmContext` |
| `SpdmTransport` | the heap blocks of a transport object and what `initialize()` may make of them |
| `TcpTransport`, `TcpTransportProofs` | the TCP transport over it: socket, byte stream, framing, timeouts; implements `SpdmLink` |
| `MctpTransport`, `MCMctpTransport`, `MctpTransportProofs` | the MCTP transport over it: datagram socket, peek and take, other endpoints; implements `SpdmLink` |
| `ComponentIntegrity`, `ComponentIntegrityProofs` | `SPDMGetSignedMeasurements` of one object, exchange by exchange; implements `MeasurementService` |

How they fit: `Spdmd` keeps only what a handler sees of the parts below it (an exchange
succeeds or fails, discovery answers once with some set of devices, a context is
configured or not). Each of the other modules looks inside one of those parts.
Abstract specifications are where two of them meet. `DiscoveryContract`: `Discovery` is
shown to keep it, and `Spdmd` to assume no more. `SpdmContext`: the daemon sees each
context from outside, handler by handler, `SessionConfig` one context from inside,
parameter by parameter; both implement the same life of a context. `SpdmLink`: the two
transports share no code above the heap blocks, and keep the same promise.

Definitions called *variants* stand beside the definition they change. Each puts one
plausible programming mistake into it and is used by nothing; replacing the
definition by its variant makes TLC violate the property named for it in
`PROJECT.json`, which shows that the property would notice the mistake.

### 2.1 `SpdmSession` and `Spdmd`

`active[d]` is `SpdmSession::isActive`; `live[d]` says whether libspdm still has that
session's id assigned, `slots[d]` how many ids its table holds. `context[d]` is how far
the context has come: allocated, configured by `applySecureSessionConfig`, negotiated
by `libspdm_init_connection`. `EmptyTable` is what both `libspdm_init_context` on a new
block and `libspdm_init_connection` on an old one do to the table.

A handler is a sequence of steps. `op` says which handler runs, `step` where it is,
`cur` the device it works on and `todo` what its loop has left:

| Code | Handler (`op`) and steps |
|---|---|
| `Enabled` set to false (`spdmd.cpp:288`) | `disable`: `close` (sessions), `clear` (destructors) |
| `Enabled` set to true; the discovery callback (`spdmd.cpp:253`) | `process`: `close`, `clear`, then for each device `device`, `configure`, `construct`, `connect`, and under SecureSessionEnabled `open`, `start`, `heartbeat`; `push` |
| `SecureSessionEnabled` set to true (`spdmd.cpp:314`) | `secure`: for each responder without a session `responder`, `open`, `start`, `heartbeat`, `push` |
| `SecureSessionEnabled` set to false (`spdmd.cpp:349`) | `unsecure`: `close` |
| `SPDMGetSignedMeasurements` | `measure`: `connect`, `fetch` |
| after `ctx.run()` (`spdmd.cpp:368`) | `shutdown`: `clear` |

The actions of these steps carry the name of the function they model. The environment
is `Start`, `Crash`, `Signal` and `LoseReply`. `Faulty` devices fail at will at any
exchange, and after the signal every MCTP exchange may fail, since `recv` returns
EINTR (the loops of `TcpIoClass` retry it; only the poll that waits for a TCP
connection does not).

Abstractions, each of which allows more behaviours than the code or leaves out what
no property can see:

- the vectors of devices and responders are sets, and their loops take any order;
- setting a property to the value it has, and a measurement request with arguments
  that fail validation, change nothing and are stutters;
- a policy file that does not parse makes the daemon exit before its loop; such a
  start is not modelled (the values of `boot` are those of starts that succeed);
- `utils.cpp` moves one callback into two lambdas whose order of evaluation the
  language leaves open: `boot.owner` is the one that got it, a property of the build;
- no handler starts after the stop request. sdbusplus may still run one that was
  already queued; it would be one more handler of the kinds modelled;
- libspdm, the device and the operating system are modelled by what the code can
  observe of them and marked external in the map of `PROJECT.json`.

### 2.2 `TcpTransport`

A frame is `HeaderUnits` units of header and up to `MaxBody` units of message; a
unit is a run of bytes `recv` may deliver by itself. `ReadHeader` and `ReadPayload` are
the two loops of `TcpIoClass::read`; each transition is one `recv`. `Decode` is the end of
the payload loop with `decode`, which looks at nothing but the size and the four bytes
of the transport type. A read that timed out in the middle of a frame has lost the
frame boundary, and the next one takes any units for a header (`~FrameHeader`): the
length is then arbitrary, and `decode` refuses the buffer or lets it pass, depending on
bytes the model does not have. So after a failure libspdm may be handed an earlier
answer, a piece of one or pieces of two, and `ReplyMatchesRequest` claims only what is
so before: the whole frame that answers the last request, however the stream was cut.
`Send` also succeeds on a connection the peer has
left, as a first `send` may. `createSocket` keeps whatever descriptor it has. EINTR is
retried by the loops and is a stutter; SIGPIPE is taken as ignored.

### 2.3 `MctpTransport`

`Peek` is the `recv(MSG_PEEK | MSG_TRUNC)` that learns the length, `Take` the `recvfrom`
and `decode` after it. `StrangerSends` puts datagrams of other endpoints into the same
queue (the socket is bound to `MCTP_ADDR_ANY`); the endpoint itself sends replies only.
Late replies and lost ones need no action of their own: a request may be sent while an
older one is still unanswered after a signal or a failed exchange.

### 2.4 `ComponentIntegrity`

`Accepted` and its helpers are the validation as the code splits it; `Requestable`, in
`MeasurementService`, is what it is meant to accept. After it, one action per exchange.
`AsByte` is the conversion of `size_t` to the `uint8_t` libspdm takes. `Provision` changes
a certificate slot of the device between any two exchanges. PEM text, names of
algorithms and timestamps are left out; that a chain yields no certificate (`NoPem`)
is not, because it ends the call late.

`MeasurementService` knows no exchanges: a call is accepted or refused, reads the chain
of its slot once (`Fetch`), and is completed or given up; `Complete` names the whole reply
and changes the Certificate object in the same step. A call that is refused or given up
hands nothing over; whether its client gets a D-Bus error, as the header documents, or an
ordinary reply with empty fields, as the code sends, `Refusals` leaves open (section 5).
That such a call ends in an error is therefore not among the results. The mapping is in front of the
properties of `ComponentIntegrity`. Connecting, fetching digests and every single
measurement are stutters, so none of them may show in a reply or the Certificate object.

### 2.5 `Discovery`

`endpoints` are the objects of mctpd, `inventory` those of Entity Manager; an object is a
record of what the code reads of it. `MctpDevices` and `TcpDevices` are the two
`processManagedObjects`, `Attribute` is `parseSpdmEMConfig`, with its `break` at the first
match in the order of `std::map`. `stage` is the outstanding call. The answer of a call
shows the objects as they are when it is made, and they may change while it is under
way (`EndpointChanges`, `InventoryChanges`); `steady` is a history variable that records
which have not. `owner` is, as `boot.owner` in `Spdmd`, the lambda of `utils.cpp` that got
the callback: with `then`, an error calls an empty `std::function` inside a `catch`, which
ends the process (`dead`); with `upon_error`, every answer becomes an empty list.
Integers have the widths of the code: an EID is a byte in mctpd and 64 bits in the
inventory, a port 64 bits in the inventory and 16 in the transport. A port is tested
against 0 before it is cut, so `SteadyDevicesFound` has to say that a configuration with
port 67859 is reported with 2323 and one with 65536 with 0; only below 65536 is the
address the configured one. Neither this property nor `AttributedCorrectly` claims
anything of an object that changed during the discovery: it is reported as it was at
the call that read it.

### 2.6 `SessionConfig`

`Initialize` is what `configureContext` does to a new context. It pins `useVersion` and
sets four parameters of the transport (`TransportParameters`) without looking at what
`libspdm_set_data` returns: any of the five may be missing afterwards, the version
(`pinned` 0) or one of the four (`refused`). `ApplyVersion`, `ApplyParameter` and
`CheckContext` are `applySecureSessionConfig`, one step per parameter in the order of the
code, `ApplyFails` any of its early returns; it sets seven parameters, of the five only
the version. `ConnectedIsConfigured` therefore speaks of those seven, and a connected
context may still lack one of the four. What the model lets follow from that is that a
context without `baseAsymAlgo` negotiates no algorithm, if it connects at all.

`Connect` is `libspdm_init_connection`, at construction or for a measurement, with a device
that may support other versions and select another algorithm than last time.
`OpenSession` is `installPeerRootCert` and `SpdmSession::start`; `Resolve` is
`loadPeerRootCert`, and a file that cannot be read is one outside `files`. Every session
adds its certificate to libspdm's table (`rootCerts`), which holds `RootSlots` of them: a
new context starts with an empty one, a new connection keeps it, and when it is full no
session can be opened in that context any more. Certificates of earlier sessions stay in
the table, so `SessionTrusted` says that the designated certificate is there, not that it
is the only one. The bytes die with the call (`spdm_session_config.cpp:302-307`); whether
libspdm copies them or keeps the pointer, and so what it verifies against later, is
libspdm's and not modelled.

### 2.7 `SpdmPolicy` and its refinement

`SpdmPolicy` knows neither contexts nor steps: a *task* removes, replaces, populates,
opens or closes, and each action changes what one device shows on D-Bus. The mapping is
at the end of `Spdmd`: `Exported` are the responders and the one under construction,
`Task` is read off `op` and `step`, sessions are `isActive`. A measurement is a stutter: it
changes nothing a D-Bus observer of the policy could see.

### 2.8 `SpdmContext` and `SpdmLink`

`SpdmContext` has two variables: how far a context has come, and whether libspdm knows
the session id the program holds. Its actions are the calls that change them:
`Replace` (a new context, a half made one, or the process gone), `Configure`, `Connect`
(which throws sessions away, and may end in a connection or not), `Open`, `Close`. For
`Spdmd` the state of device `d` is `context[d]` and its session `live[d]`, not `active[d]`:
the flag of `SpdmSession` is what `session_flag` shows to differ. For `SessionConfig` the
state is read off `stage` and `connection`.

`SpdmLink` has the last request asked, whether its exchange is under way, the request
that what was handed up last is about, judged by its beginning, and `trusted`: every
exchange of this connection succeeded. As long as it is trusted an answer is the one to
the last request; afterwards it need only begin with something that was asked. That the
answer is whole is `ReplyMatchesRequest` of each transport. The mappings are at
the end of the two transport modules; everything about streams, fragments, datagrams,
strangers and queues is a stutter.

## 3. Runs

| Run | Configuration | States | Shows |
|---|---|---|---|
| `daemon_tcp` | three devices: one answers, one fails at will, two share a name | 45,128 | the safety and liveness properties of the daemon over TCP, the bound of its handlers, and `IInv` |
| `daemon_mctp` | three devices: one answers, one has no path, one fails | 61,604 | `IInv`, the life of every context and the stop over MCTP, where the thread may block and a context may stay half made |
| `tcp_link` | `HeaderUnits` 2, `MaxBody` 2, `MaxRequests` 3 | 12,624 | until an exchange fails replies are whole and match requests; contexts are complete; `read` returns; `SpdmLink` |
| `mctp_link` | two strangers, 3 requests, queue of 3 | 22,400 | replies match requests; the datagram peeked is the one taken; contexts are complete; `SpdmLink` |
| `measurements` | indices 0, 1, 254, 255, 257; slots 1 and 256; two chains and an empty one | 92,672 | everything or nothing is handed over; the certificate object; exact validation; `MeasurementService` |
| `discovery` | two paths; two good endpoints and one for each check that fails; inventory objects with EIDs 8 and 264, ports 2323, 67859, 65536 and 0 | 833,536 | usable objects become devices, named correctly; one answer; the contract |
| `session_config` | versions 1.1 and 1.2, two algorithms, every configuration, a table of two root certificates | 895,744 | configured before connected; the version pin; the certificate of an open session |
| `session_flag`, `blocked_loop`, `tcp_reconnect`, `nonce`, `version_pinned` | small instances | | section 5 |

Bounds. `MaxSessions` is 2 where libspdm's default is 4: one slot beyond the single
session of the class is enough for a second one to appear and for the table to be
full. Two devices of one name, one that fails and one that answers are the cases the
code distinguishes; a fourth device would repeat one of them. Two units of header and
of message are the least a loop of `recv` can split; three requests are the least for
an answer to arrive one and two requests late. The five indices are the boundaries of
validation (0, 1, 254, 255) and a number that a byte turns into a valid one (257, as 256
does among the slots). Two paths are enough for one object to spoil, precede or share the
address of another; 264 is 8 in its low byte, 67859 is 2323 in its low 16 bits and
65536 is 0. Two versions and two algorithms are the least with something to negotiate;
a table of two root certificates is the least that can hold one of an earlier
negotiation beside the current one, and is full after that. The proofs of section 4
depend on none of these bounds.

`daemon_mctp` checks `IInv` and not the properties `SpdmdProofs` derives from it for both
transports (`PolicyRespected`, `PolicyApplied` and the others of `daemon_tcp`). Its own are
those MCTP makes different: `FollowsLifecycle`, since only there a failed `initialize()`
keeps a raw context, and `StopHonoured`, since only there the thread can block.

`ConfigFollowsLifecycle` and `DaemonKeepsContract` are proved and have no run: the runs
check the other side of each abstract specification (`FollowsLifecycle`, `KeepsContract`).

Deadlock is checked in every run but `discovery`, which ends: a process discovers once.

Fairness. `Spdmd` has weak fairness of `HandlerStep` and of `LeaveLoop`: the one thread
runs, a handler that can take a step takes it, and a loop that was asked to stop
notices. Nothing forces a request, a signal, a fault or a recovery. A blocked thread
has no step to take, which is why `StopHonoured` excepts it and why `blocked_loop`
finds the call that never returns. `TcpTransport` has weak fairness of `Read`: either
`recv` returns something or the timeout of the socket passes. `Discovery` has weak fairness
of `Answer`: libsystemd ends every method call with a reply, an error or a timeout.

## 4. Proofs

Every safety invariant and every action property of the passing runs is proved, for
every value of the constants that satisfies the named assumptions of their modules.

### 4.1 The daemon

`SpdmdProofs` proves, for every set of devices, every set of faulty devices, every
naming, every `MaxSessions >= 1` and both transports:

| Theorem | States |
|---|---|
| `Invariance` | `Spec => []IInv` |
| `TypeCorrect` | `Spec => []TypeOK` |
| `PolicyIsRespected` | `Spec => []PolicyRespected` |
| `RespondersAreReplaced` | `Spec => []ReplaceNotAppend` |
| `RespondersAreUsable` | `Spec => []ResponderUsable` |
| `SessionsAreNotLeaked` | `Spec => []NoLeakedSession` |
| `PolicyIsApplied` | `Spec => []PolicyApplied` |
| `SessionsAreOpenedLegally` | `Spec => SessionOpenedLegally` |

The properties speak mostly of the idle loop, and a handler passes through many
states in which they say nothing; so none of them is inductive. `IInv` says what is true
between any two steps:

- `Control`: which steps a handler has and what it was started for (`disable` runs only
  with Enabled false, `secure` only with both properties true, ...);
- `ResponderScope`, `LoopScope`, `ActiveScope`: where responders and active sessions
  may be while a loop is under way. A device still to come in the device loop has
  neither; one still to come in the runtime loop is a responder without a session;
- `ContextScope`, `AnswersNegotiated`: how far the context of a responder and of the
  current device has come;
- `LiveHasSlot`, `NoLeakedSession`: libspdm's table against `isActive`;
- `Settled`, `Remaining`, `OnItsWay`: a device that answers has what the policy
  asks for, or is still to come in the loop, or is the current one and has come as far
  as its step says. `PolicyApplied` is what `Settled` says of the idle loop.

Its base case is `InitEstablishesIInv`; the step has one lemma per action
(`...KeepsIInv`), which `HandlerStepKeepsIInv`, `RequestKeepsIInv` and `NextPreservesIInv`
collect. The arithmetic of the session table is in the lemmas about the operators of
`SpdmSession` at the beginning: `LiveHasSlot` is what keeps the count from falling below
zero. The one assumption on the constants these proofs use is `MaxSessionsAssumption`.
The action property `SessionOpenedLegally` rests on `OnlyOpenSessionActivates`: among all
actions only that of `SpdmSession::start` makes `isActive` true.

`SpdmdRefinement` proves `DaemonImplementsPolicy` (`Spec => Policy!Spec`) and
`DaemonKeepsContract`, by one lemma per action that names the abstract step it is, or
shows that it changes nothing of the abstract state (`Unseen`). It needs `IInv`:
`Populate` may start only on an empty table, and that the table is empty after `ClearDone`
is what `Control` and `ResponderScope` say.

The same module proves `DaemonFollowsLifecycle` (`Spec => FollowsLifecycle`: every step of
the daemon is, for every device, a step of `SpdmContext` or none). Two facts are added
to `IInv` for it, `LInv`: a context that is being configured was just set up, and libspdm
knows a session of the daemon only on a connection. That a session is opened on a
connection comes from `ContextScope`.

`SpdmdProgress` proves that handlers are bounded. `StepsLeft` counts the steps the running
handler still has at most: eight per device to process, one per session to close and
per responder to drop, two for a measurement.

| Theorem | States |
|---|---|
| `HandlersAreBounded` | `Spec => []HandlerBounded`: `StepsLeft` is at most `10 * Cardinality(Devices) + 3`, and zero exactly when no handler runs |
| `HandlersProgress` | `Spec => HandlerProgress`: every step of a handler lowers it, and no signal, lost reply or crash raises it |

This is the safety half of `HandlerTerminates`: a handler cannot take more steps than
that, whichever devices fail. That it takes the next one is the fairness of the thread,
and stays with TLC. The bound needs the devices left to do to be other than the one in
its turn (`LoopScope`), and the sizes of the loops need `DevicesAssumption`: `Devices` is
finite, as what a vector in memory holds is. No other proof about the daemon uses it.

### 4.2 The other modules

| Module | Theorems | Invariant they rest on |
|---|---|---|
| `DiscoveryProofs` | `DiscoveryTypeCorrect`, `AnswersOnce`, `FindsSteadyDevices`, `AttributesCorrectly`, `DiscoveryKeepsContract` | `DInv`: the properties, the order of the calls (`Order`), and that what the second call's callback captured about an endpoint that did not change is still true (`FoundSteady`) |
| `SessionConfigProofs` | `ConfigTypeCorrect`, `ConnectsConfigured`, `KeepsPinnedVersion`, `SessionsAreTrusted`, `FollowsContextLifecycle` | `CInv`: in a context being configured the parameters below `next` are applied (`Progress`), and the version is pinned once the first is (`VersionPinned`); `SessionTrusted` is inductive beside them, because a new connection ends the session; for the life of the context also that a session needs a connection (`SessionOnConnection`) |
| `TcpTransportProofs` | `TcpTypeCorrect`, `TcpReplyMatchesRequest`, `TcpContextComplete`, `TcpImplementsLink` | `TInv`: until an exchange fails what was read and what the stream still holds are, one after the other, exactly the frame of the last request, or nothing (`OfTheReply`, `NothingYet`); in any case every unit is of a request that was asked (`OfRequests`), and the payload loop has a header in front of it (`HeaderFirst`); one request is under way at most |
| `MctpTransportProofs` | `MctpTypeCorrect`, `MctpReplyMatchesRequest`, `MctpPeekedIsTaken`, `MctpContextComplete`, `MctpImplementsLink` | `MInv`: queued datagrams of the endpoint answer requests that were sent (`RepliesAreAnswers`), and until an exchange fails there is one at most (`OneUnderWay`) |
| `ComponentIntegrityProofs` | `MeasurementTypeCorrect`, `RepliesAllOrNothing`, `CertificateIsPublished`, `ValidationIsExact`, `MethodImplementsService` | its `MInv`: what is measured and what is left make the list asked for, and the measurements are of the slot of the certificate (`Halfway`), and there is a chain from the certificate exchange on. `ValidationIsExact` rests on `AcceptedIsRequestable`: the code looks for duplicates by comparing sizes, which `DuplicatesCounted` shows to be the absence of equal elements |

The TCP proof is about sequences. Fragmentation only moves units between the stream and
the buffer, so their concatenation does not change while a read goes on (`RecvMoves`,
which rests on `CutInTwo` and `Associative`). Until an exchange fails it is the one frame
under way, so its first units are a header (`HeaderOfFrame`), the length read from them is
the right one, and when the payload loop has that many units the stream is empty and the
buffer is the frame (`CollectedReply`). After a failure this argument is over: nothing is
proved of what a read that lost the frame boundary collects, except that its units were
sent in answer to something asked, which is all `SpdmLink` promises then.

The Discovery proofs use the well-ordering of the natural numbers for the first match
(`FirstPath`), those of SessionConfig for the highest version.

### 4.3 Only model-checked

The liveness properties `HandlerTerminates`, `StopHonoured`, `ReadReturns` and `Answered`:
TLAPS as used here does not reason about fairness or ENABLED. What safety can say of
the first, `HandlersProgress` says. All of the invariants, action properties and
refinements the runs check are proved.

## 5. Where the code and its documentation disagree

Each of these is a run that TLC ends with a violation of one property, which is what
the quoted line says.

- `session_flag`: a measurement runs `libspdm_init_connection`, which resets the session
  table; `isActive` stays true. `spdm_dbus_responder.hpp:71`: "True if a secure session is
  currently open."
- `blocked_loop`: `MctpIoClass::read` does not use its timeout, so a lost reply stops the
  thread inside a method call. `component_integrity_dbus.cpp:380`: "without blocking the
  D-Bus event loop".
- `tcp_reconnect`: `createSocket` returns true for a descriptor whose connection the peer
  has closed. `tcp_helper.hpp:210`: "true if socket created and connected successfully".
- `nonce`: the nonce of the caller is logged and not passed to libspdm.
  `component_integrity_dbus.cpp:262`: "Nonce for freshness".
- `version_pinned`: `configureContext` pins `useVersion`, SPDM 1.1 in a new transport, and
  `applyVersionConfig` returns early for version 0, so the pin stays.
  `spdm_session_config.hpp:17`: "0 = let libspdm negotiate the highest mutually supported
  version".

Seen on the way and part of the models, without a run of their own:
`component_integrity_dbus.hpp:116` documents that `SPDMGetSignedMeasurements` throws
`InvalidArgument` on invalid input and `InternalFailure` on errors, but `method_call` catches
every exception (`component_integrity_dbus.cpp:420`) and returns an ordinary tuple with
empty fields, which `ReplyEmpty` models and `MeasurementService` neither requires nor
excludes; a configured TCP port above 65535 is cut to 16 bits without a word
(`tcp_transport_discovery.cpp:154`, `ToUint16`); `configureContext` ignores that libspdm
refuses a parameter (`refused`); `initialize()`
overwrites the context and scratch buffer of an earlier round, and the block `decode`
allocates for each TCP reply is freed by nobody (both in `lost`); the `cleanupContext` of
the MCTP transport resets its pointer without freeing the block; `stop` forgets the
session id also when END_SESSION was not acknowledged, and libspdm's slot stays taken
until the table is reset (`slots`); `spdmd.cpp:113` announces that `objectPath` is used for
a device without `deviceObjectPath`, and the constructor of the responder uses the empty
one all the same (`NoName`).

## 6. Not modelled

- `keyUpdate`, `send` and `dump`: no caller.
- The contents of X.509 certificates, PEM and base64 text, names of algorithms, the
  constant properties of the trusted component object: data no state depends on.
- A policy file that does not parse: the daemon exits before its loop.
- libspdm's acquire and release of the transport buffers: their order is libspdm's, which
  is not part of this repository. For the same reason it is left open whether libspdm
  copies a root certificate or keeps the pointer to bytes that are gone after the call,
  and what verifying against them would then do.
- A full table of root certificates in the daemon: `Spdmd` does not count them, and a
  device that answers is one for which `installPeerRootCert` succeeds. `SessionConfig` has
  the table.
- Sessions that a process leaves on the devices when it crashes or stops.
- The destructors of transports at the end of the process.
- `spdm_device_secret_lib_stub.cpp`: functions that refuse every request, there for the
  linker; no state. `spdm_simple_client.cpp`: a stand-alone test program, not in the build.

## 7. Plan

Done: the daemon with its session layer, both transports, the measurement method,
discovery, session configuration; the abstract specifications `SpdmPolicy`,
`DiscoveryContract`, `SpdmContext`, `SpdmLink` and `MeasurementService` with their refinements; the proofs of section 4.

Left, in this order:

1. The buffer callbacks of the two transports, if a libspdm source becomes part of the
   build and their order can be read rather than guessed.
2. That a handler which has not ended always has a step to take, as a theorem on the
   guards: with `HandlersProgress` it leaves only fairness to TLC.
3. `keyUpdate` and `send`, when something calls them.
