--------------------------- MODULE SpdmdProgress ---------------------------
(***************************************************************************)
(* Every handler of the daemon is bounded: StepsLeft, the number of steps  *)
(* it still has at most, falls with every step of it and with nothing but  *)
(* the start of a handler does it rise.  For n devices it starts at no     *)
(* more than 10 * n + 3.                                                   *)
(***************************************************************************)
EXTENDS SpdmdProofs, FiniteSetTheorems

USE DEF IInv, Idle, At, Run, Return, Goto, NextDevice,
        sessionVars, policyVars, discoveryVars, controlVars, processVars

-----------------------------------------------------------------------------
(* The sets the loops run over are finite, and their sizes are numbers.    *)
LEMMA SizeOf ==
    ASSUME NEW S \in SUBSET Devices
    PROVE  /\ IsFiniteSet(S)
           /\ Cardinality(S) \in Nat
           /\ Cardinality(S) <= Cardinality(Devices)
           /\ Cardinality(Devices) \in Nat
  BY DevicesAssumption, FS_Subset, FS_CardinalityType

(* Taking the device of this turn out of what is left of the loop.         *)
LEMMA SizeWithout ==
    ASSUME NEW S \in SUBSET Devices, NEW d \in S
    PROVE  Cardinality(S \ {d}) = Cardinality(S) - 1
  BY SizeOf, FS_RemoveElement

LEMMA SizeOfNone == Cardinality({}) = 0
  BY FS_EmptySet

(* What StepsLeft is made of. *)
LEMMA StepsAreNumbers ==
    ASSUME TypeOK
    PROVE  /\ Cardinality(todo) \in Nat /\ Cardinality(responders) \in Nat
           /\ Cardinality(devices) \in Nat /\ Cardinality(Devices) \in Nat
           /\ Cardinality(todo) <= Cardinality(Devices)
           /\ Cardinality(responders) <= Cardinality(Devices)
           /\ Cardinality(devices) <= Cardinality(Devices)
           /\ StepsOfDevice \in 0 .. 7
           /\ StepsOfClear \in Nat \ {0}
           /\ StepsOfLoop(todo) \in Nat \ {0}
           /\ op # "idle" => StepsLeft \in Nat \ {0}
<1>1. /\ todo \in SUBSET Devices /\ responders \in SUBSET Devices
      /\ devices \in SUBSET Devices
  BY DEF TypeOK
<1>2. /\ Cardinality(todo) \in Nat /\ Cardinality(responders) \in Nat
      /\ Cardinality(devices) \in Nat /\ Cardinality(Devices) \in Nat
      /\ Cardinality(todo) <= Cardinality(Devices)
      /\ Cardinality(responders) <= Cardinality(Devices)
      /\ Cardinality(devices) <= Cardinality(Devices)
  BY <1>1, SizeOf
<1>3. StepsOfDevice \in 0 .. 7
  BY DEF StepsOfDevice
<1>4. StepsOfLoop(todo) \in Nat \ {0} /\ StepsOfLoop(devices) \in Nat \ {0}
  BY <1>2 DEF StepsOfLoop
<1>5. StepsOfClear \in Nat \ {0}
  BY <1>2, <1>4 DEF StepsOfClear
<1>6. op # "idle" => StepsLeft \in Nat \ {0}
  BY <1>2, <1>3, <1>4, <1>5 DEF StepsLeft
<1>. QED
  BY <1>2, <1>3, <1>4, <1>5, <1>6

-----------------------------------------------------------------------------
(* One lemma per action of a handler. *)

(* The last step of a handler. *)
LEMMA ReturnEnds ==
    ASSUME TypeOK, op # "idle", op' = "idle"
    PROVE  StepsLeft' < StepsLeft
<1>1. StepsLeft' = 0
  BY DEF StepsLeft
<1>. QED
  BY <1>1, StepsAreNumbers

LEMMA CloseSessionProgress ==
    ASSUME IInv, NEW d \in Devices, CloseSession(d)
    PROVE  StepsLeft' < StepsLeft
<1>1. /\ step = "close" /\ step' = "close" /\ op' = op /\ d \in todo
      /\ todo' = todo \ {d} /\ UNCHANGED <<responders, devices>>
      /\ todo \in SUBSET Devices
  BY DEF CloseSession, TypeOK
<1>2. op \notin {"idle", "measure"}
  BY <1>1 DEF Control
<1>3. Cardinality(todo') = Cardinality(todo) - 1
  BY <1>1, SizeWithout
<1>4. StepsOfClear' = StepsOfClear
  BY <1>1 DEF StepsOfClear, StepsOfLoop
<1>. QED
  BY <1>1, <1>2, <1>3, <1>4, StepsAreNumbers DEF StepsLeft

LEMMA CloseDoneProgress ==
    ASSUME IInv, CloseDone
    PROVE  StepsLeft' < StepsLeft
<1>1. step = "close" /\ todo = {} /\ op \notin {"idle", "measure"}
  BY DEF CloseDone, Control
<1>2. CASE op = "unsecure"
  BY <1>1, <1>2, ReturnEnds DEF CloseDone
<1>3. CASE op # "unsecure"
  <2>1. step' = "clear" /\ UNCHANGED <<op, responders, devices>>
    BY <1>3 DEF CloseDone
  <2>2. StepsLeft' = StepsOfClear
    BY <1>1, <2>1 DEF StepsLeft, StepsOfClear, StepsOfLoop
  <2>3. StepsLeft = 1 + StepsOfClear
    BY <1>1, <1>3, SizeOfNone, StepsAreNumbers DEF StepsLeft
  <2>. QED
    BY <2>2, <2>3, StepsAreNumbers
<1>. QED
  BY <1>2, <1>3

LEMMA DropResponderProgress ==
    ASSUME IInv, NEW d \in Devices, DropResponder(d)
    PROVE  StepsLeft' < StepsLeft
<1>1. /\ step = "clear" /\ d \in responders /\ responders' = responders \ {d}
      /\ UNCHANGED <<op, step, devices>> /\ responders \in SUBSET Devices
      /\ op \notin {"idle", "measure"}
  BY DEF DropResponder, TypeOK, Control
<1>2. Cardinality(responders') = Cardinality(responders) - 1
  BY <1>1, SizeWithout
<1>3. StepsOfLoop(devices)' = StepsOfLoop(devices) /\ StepsOfLoop(devices) \in Nat
  BY <1>1, StepsAreNumbers DEF StepsOfLoop
<1>4. StepsOfClear' < StepsOfClear
  BY <1>1, <1>2, <1>3, StepsAreNumbers DEF StepsOfClear
<1>. QED
  BY <1>1, <1>4 DEF StepsLeft

LEMMA ClearDoneProgress ==
    ASSUME IInv, ClearDone
    PROVE  StepsLeft' < StepsLeft
<1>1. step = "clear" /\ responders = {} /\ op \notin {"idle", "measure"}
  BY DEF ClearDone, Control
<1>2. CASE op = "disable" /\ Return
  BY <1>1, <1>2, ReturnEnds
<1>3. CASE op = "process" /\ Run("process", "device", NoDevice, devices)
  <2>1. StepsLeft' = StepsOfLoop(devices)
    <3>1. op' = "process" /\ step' = "device" /\ todo' = devices
      BY <1>3
    <3>2. StepsOfDevice' = 0
      BY <3>1 DEF StepsOfDevice
    <3>3. StepsLeft' = StepsOfLoop(devices) + StepsOfDevice'
      BY <3>1 DEF StepsLeft, StepsOfLoop
    <3>. QED
      BY <3>2, <3>3, StepsAreNumbers DEF StepsOfLoop
  <2>2. StepsLeft = 1 + StepsOfLoop(devices)
    BY <1>1, <1>3, SizeOfNone, StepsAreNumbers DEF StepsLeft, StepsOfClear, StepsOfLoop
  <2>. QED
    BY <2>1, <2>2, StepsAreNumbers DEF StepsOfLoop
<1>. QED
  BY <1>2, <1>3 DEF ClearDone

(* The loop over devices, or over responders, takes the next one, or skips *)
(* it.                                                                     *)
LEMMA NextTurnProgress ==
    ASSUME IInv, NEW d \in todo, todo' = todo \ {d}, op' = op,
           step \in {"device", "responder"},
           step' \in {"device", "configure", "open"}
    PROVE  StepsLeft' < StepsLeft
<1>1. todo \in SUBSET Devices /\ op \notin {"idle", "measure"}
  BY DEF TypeOK, Control
<1>2. Cardinality(todo') = Cardinality(todo) - 1
  BY <1>1, SizeWithout
<1>3. StepsOfDevice = 0 /\ StepsOfDevice' \in 0 .. 7
  BY DEF StepsOfDevice
<1>4. StepsLeft = 8 * Cardinality(todo) + 1
  BY <1>1, <1>3, StepsAreNumbers DEF StepsLeft, StepsOfLoop
<1>5. StepsLeft' = 8 * Cardinality(todo') + 1 + StepsOfDevice'
  BY <1>1 DEF StepsLeft, StepsOfLoop
<1>. QED
  BY <1>2, <1>3, <1>4, <1>5, StepsAreNumbers

(* A step of the device in turn goes forward, or gives the device up.      *)
LEMMA DeviceProgress ==
    ASSUME IInv, todo' = todo, op' = op,
           step \in DeviceSteps, step' \notin {"close", "clear"}, op # "measure",
           StepsOfDevice' < StepsOfDevice
    PROVE  StepsLeft' < StepsLeft
<1>1. op # "idle"
  BY DEF Control, DeviceSteps
<1>2. StepsLeft = StepsOfLoop(todo) + StepsOfDevice
  BY <1>1 DEF StepsLeft, DeviceSteps
<1>3. StepsLeft' = StepsOfLoop(todo) + StepsOfDevice'
  BY <1>1 DEF StepsLeft, StepsOfLoop
<1>4. StepsOfDevice' \in 0 .. 7
  BY DEF StepsOfDevice
<1>. QED
  BY <1>2, <1>3, <1>4, StepsAreNumbers

LEMMA DeviceStepProgress ==
    ASSUME IInv, NEW d \in Devices,
           \/ Configure(d) \/ Construct(d) \/ Connect(d) \/ ConnectFails(d)
           \/ PushResponder(d) \/ InstallRootCert(d) \/ OpenSession(d) \/ SendHeartbeat(d)
    PROVE  StepsLeft' < StepsLeft
<1>1. CASE op = "measure"
  <2>1. step = "connect"
    BY <1>1 DEF Configure, Construct, Connect, ConnectFails, PushResponder,
       InstallRootCert, OpenSession, SendHeartbeat, Control
  <2>2. StepsLeft = 2
    BY <1>1, <2>1 DEF StepsLeft
  <2>3. CASE Connect(d)
    <3>1. op' = "measure" /\ step' = "fetch"
      BY <1>1, <2>3 DEF Connect
    <3>2. StepsLeft' = 1
      BY <3>1 DEF StepsLeft
    <3>. QED
      BY <2>2, <3>2
  <2>4. CASE ConnectFails(d)
    BY <1>1, <2>4, ReturnEnds DEF ConnectFails
  <2>. QED
    BY <2>1, <2>3, <2>4 DEF Configure, Construct, PushResponder,
       InstallRootCert, OpenSession, SendHeartbeat
<1>2. CASE op # "measure"
  <2>1. todo' = todo /\ op' = op
    BY <1>2 DEF Configure, Construct, Connect, ConnectFails, PushResponder,
       InstallRootCert, OpenSession, SendHeartbeat
  <2>2. /\ step \in DeviceSteps /\ step' \notin {"close", "clear"}
        /\ StepsOfDevice' < StepsOfDevice
    BY <1>2 DEF Configure, Construct, Connect, ConnectFails, PushResponder,
       InstallRootCert, OpenSession, SendHeartbeat, DeviceSteps, StepsOfDevice
  <2>. QED
    BY <1>2, <2>1, <2>2, DeviceProgress
<1>. QED
  BY <1>1, <1>2

LEMMA HandlerStepProgress == IInv /\ HandlerStep => StepsLeft' < StepsLeft
<1>. SUFFICES ASSUME IInv, HandlerStep PROVE StepsLeft' < StepsLeft
  OBVIOUS
<1>1. CASE CloseDone \/ ClearDone
  BY <1>1, CloseDoneProgress, ClearDoneProgress
<1>2. CASE Exit \/ LoopDone \/ FinishMeasurement
  <2>1. op # "idle" /\ op' = "idle"
    BY <1>2 DEF Exit, Vanish, LoopDone, FinishMeasurement, Control
  <2>. QED
    BY <2>1, ReturnEnds
<1>3. ASSUME NEW d \in Devices, CloseSession(d) \/ DropResponder(d)
      PROVE  StepsLeft' < StepsLeft
  BY <1>3, CloseSessionProgress, DropResponderProgress
<1>4. ASSUME NEW d \in Devices,
             InitializeTransport(d) \/ InitializeFails(d) \/ NextResponder(d)
      PROVE  StepsLeft' < StepsLeft
  <2>1. /\ d \in todo /\ todo' = todo \ {d}
        /\ step \in {"device", "responder"}
        /\ step' \in {"device", "configure", "open"}
        /\ step = "device" => op = "process"
    BY <1>4 DEF InitializeTransport, InitializeFails, NextResponder, Control, DeviceSteps, TypeOK, Ops
  <2>2. op' = op
    BY <1>4, <2>1 DEF InitializeTransport, InitializeFails, NextResponder
  <2>. QED
    BY <2>1, <2>2, NextTurnProgress
<1>5. ASSUME NEW d \in Devices,
             \/ Configure(d) \/ Construct(d) \/ Connect(d) \/ ConnectFails(d)
             \/ PushResponder(d) \/ InstallRootCert(d) \/ OpenSession(d) \/ SendHeartbeat(d)
      PROVE  StepsLeft' < StepsLeft
  BY <1>5, DeviceStepProgress
<1>. QED
  BY <1>1, <1>2, <1>3, <1>4, <1>5, Zenon DEF HandlerStep

(* Nothing else that happens while a handler runs sends it back.           *)
LEMMA OtherStepKeeps ==
    ASSUME IInv, op # "idle", LeaveLoop \/ Request \/ Environment \/ UNCHANGED vars
    PROVE  StepsLeft' <= StepsLeft
<1>1. CASE LeaveLoop \/ Request
  BY <1>1 DEF LeaveLoop, Request, SetEnabled, SetSecure, DiscoveryFails,
     DiscoverySucceeds, GetSignedMeasurements
<1>2. CASE Crash
  <2>1. StepsLeft' < StepsLeft
    BY <1>2, ReturnEnds DEF Crash, Vanish
  <2>. QED
    BY <2>1, <1>2, StepsAreNumbers DEF StepsLeft, Crash, Vanish
<1>3. CASE Start \/ Signal \/ LoseReply \/ UNCHANGED vars
  <2>1. UNCHANGED <<op, step, cur, todo, responders, devices>>
    BY <1>3 DEF Start, Signal, LoseReply, vars
  <2>2. StepsLeft' = StepsLeft
    BY <2>1 DEF StepsLeft, StepsOfClear, StepsOfLoop, StepsOfDevice
  <2>. QED
    BY <2>2, StepsAreNumbers
<1>. QED
  BY <1>1, <1>2, <1>3 DEF Environment

-----------------------------------------------------------------------------
(* The measure is a number, zero exactly when no handler runs.             *)
HandlerBounded ==
    /\ StepsLeft \in 0 .. 10 * Cardinality(Devices) + 3
    /\ StepsLeft = 0 <=> op = "idle"

(* While a device is in its turn it is no longer among those left to do.   *)
LEMMA TurnsLeft ==
    ASSUME IInv, op \in {"process", "secure"}, step \in DeviceSteps
    PROVE  Cardinality(todo) <= Cardinality(Devices) - 1
<1>1. todo \in SUBSET (Devices \ {cur}) /\ cur \in Devices
  BY DEF TypeOK, LoopScope, Control, DeviceSteps
<1>2. /\ IsFiniteSet(Devices \ {cur})
      /\ Cardinality(Devices \ {cur}) = Cardinality(Devices) - 1
  BY <1>1, DevicesAssumption, FS_RemoveElement
<1>. QED
  BY <1>1, <1>2, FS_Subset

LEMMA Bounded == IInv => HandlerBounded
<1>. SUFFICES ASSUME IInv PROVE HandlerBounded
  OBVIOUS
<1>. DEFINE n == Cardinality(Devices)
<1>1. /\ Cardinality(todo) \in Nat /\ Cardinality(responders) \in Nat
      /\ Cardinality(devices) \in Nat /\ n \in Nat
      /\ Cardinality(todo) <= n /\ Cardinality(responders) <= n /\ Cardinality(devices) <= n
      /\ StepsOfDevice \in 0 .. 7
      /\ op # "idle" => StepsLeft \in Nat \ {0}
  BY StepsAreNumbers
<1>2. StepsOfClear <= 9 * n + 2 /\ StepsOfClear \in Nat
  BY <1>1, StepsAreNumbers DEF StepsOfClear, StepsOfLoop
<1>3. CASE op = "idle"
  BY <1>1, <1>3 DEF HandlerBounded, StepsLeft
<1>4. CASE op = "measure"
  <2>1. StepsLeft \in {1, 2}
    BY <1>4 DEF StepsLeft
  <2>. QED
    BY <1>1, <1>4, <2>1 DEF HandlerBounded
<1>5. CASE op \notin {"idle", "measure"} /\ step = "close"
  <2>1. StepsLeft <= Cardinality(todo) + 1 + (9 * n + 2)
    BY <1>1, <1>2, <1>5 DEF StepsLeft
  <2>. QED
    BY <1>1, <1>5, <2>1 DEF HandlerBounded
<1>6. CASE op \notin {"idle", "measure"} /\ step = "clear"
  <2>1. StepsLeft = StepsOfClear
    BY <1>6 DEF StepsLeft
  <2>. QED
    BY <1>1, <1>2, <1>6, <2>1 DEF HandlerBounded
<1>7. CASE op \notin {"idle", "measure"} /\ step \notin {"close", "clear"}
  <2>1. StepsLeft = 8 * Cardinality(todo) + 1 + StepsOfDevice
    BY <1>1, <1>7 DEF StepsLeft, StepsOfLoop
  <2>2. 8 * Cardinality(todo) + 1 + StepsOfDevice <= 8 * n + 1
    <3>1. CASE step \in DeviceSteps
      <4>1. op \in {"process", "secure"}
        BY <1>7 DEF TypeOK, Ops, Control
      <4>2. Cardinality(todo) <= n - 1
        BY <3>1, <4>1, TurnsLeft
      <4>. QED
        BY <1>1, <4>2
    <3>2. CASE step \notin DeviceSteps
      <4>1. StepsOfDevice = 0
        BY <3>2 DEF StepsOfDevice, DeviceSteps
      <4>. QED
        BY <1>1, <4>1
    <3>. QED
      BY <3>1, <3>2
  <2>. QED
    BY <1>1, <1>7, <2>1, <2>2 DEF HandlerBounded
<1>. QED
  BY <1>3, <1>4, <1>5, <1>6, <1>7

(* A handler that starts has at most 10 * n + 3 steps for n devices, and   *)
(* only a handler that has ended has none.                                 *)
THEOREM HandlersAreBounded == Spec => []HandlerBounded
  BY Invariance, Bounded, PTL

(* No handler ever takes a step that does not bring it nearer its end, and *)
(* no signal, lost reply or crash sets it back.                            *)
THEOREM HandlersProgress == Spec => HandlerProgress
<1>1. IInv /\ HandlerBounded /\ HandlerBounded' /\ [Next]_vars =>
        [op # "idle" => /\ StepsLeft' <= StepsLeft
                        /\ HandlerStep => StepsLeft' < StepsLeft]_vars
  <2>. SUFFICES ASSUME IInv, HandlerBounded, HandlerBounded', [Next]_vars, op # "idle"
                PROVE  /\ StepsLeft' <= StepsLeft
                       /\ HandlerStep => StepsLeft' < StepsLeft
    BY Zenon
  <2>1. ASSUME HandlerStep PROVE StepsLeft' < StepsLeft
    BY <2>1, HandlerStepProgress, Zenon
  <2>2. CASE HandlerStep
    <3>1. StepsLeft' \in Int /\ StepsLeft \in Int
      BY DEF HandlerBounded
    <3>. QED
      BY <2>1, <2>2, <3>1
  <2>3. CASE LeaveLoop \/ Request \/ Environment \/ UNCHANGED vars
    BY <2>1, <2>3, OtherStepKeeps, Zenon
  <2>. QED
    BY <2>2, <2>3, Zenon DEF Next
<1>. QED
  BY <1>1, Invariance, HandlersAreBounded, PTL DEF Spec, HandlerProgress

=============================================================================
