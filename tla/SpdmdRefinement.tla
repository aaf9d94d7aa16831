-------------------------- MODULE SpdmdRefinement --------------------------
(***************************************************************************)
(* Spdmd implements SpdmPolicy and DiscoveryContract and, for every        *)
(* device, SpdmContext: every step of the daemon is a step an observer of  *)
(* the policy, or of a context, expects, or invisible to it.               *)
(* The invariant IInv is needed for the steps that end a task (what had to *)
(* be removed is gone) and for those that add (the policy still asks for   *)
(* it, and the device was not there already).                              *)
(***************************************************************************)
EXTENDS SpdmdProofs

USE DEF IInv, Idle, At, Run, Return, Goto, NextDevice,
        sessionVars, policyVars, discoveryVars, controlVars, processVars

(* A step that no observer of the policy can see. *)
Unseen ==
    /\ boot' = boot /\ enabled' = enabled /\ secure' = secure
    /\ discovery' = discovery /\ devices' = devices
    /\ Exported' = Exported
    /\ Active(Devices)' = Active(Devices)
    /\ Task' = Task

(* The step of SpdmPolicy a step of Spdmd stands for. *)
PolicyStep == Policy!Next \/ Unseen

-----------------------------------------------------------------------------
(* The life of the process. *)

LEMMA StartImplements == IInv /\ Start => Policy!Start
  BY DEF Start, Policy!Start, Task, Exported, Active, Control

LEMMA VanishImplements == IInv /\ life = "running" /\ Vanish => Policy!End
<1>. SUFFICES ASSUME IInv, life = "running", Vanish PROVE Policy!End
  OBVIOUS
<1>1. Task # "down" /\ Task' = "down"
  BY DEF Vanish, Task, TypeOK, Ops
<1>2. Exported' = {}
  BY DEF Vanish, Exported
<1>3. Active(Devices)' = {}
  BY DEF Vanish, Active, ForgetContexts
<1>. QED
  BY <1>1, <1>2, <1>3 DEF Vanish, Policy!End

LEMMA SignalUnseen == (Signal \/ LoseReply) => Unseen
<1>. SUFFICES ASSUME Signal \/ LoseReply PROVE Unseen
  OBVIOUS
<1>1. /\ UNCHANGED <<life, boot, policyVars, discoveryVars, responders, controlVars>>
      /\ active' = active
  BY DEF Signal, LoseReply
<1>. QED
  BY <1>1 DEF Unseen, Task, Exported, Active

LEMMA LeaveLoopImplements == LeaveLoop => Policy!Leave
  BY DEF LeaveLoop, Policy!Leave, Task, Exported, Active

-----------------------------------------------------------------------------
(* Requests. *)

LEMMA SetEnabledImplements == IInv /\ SetEnabled => Policy!SetEnabled
  BY DEF SetEnabled, Process, Policy!SetEnabled, Task, Exported, Active

LEMMA SetSecureImplements == IInv /\ SetSecure => Policy!SetSecure
  BY DEF SetSecure, Policy!SetSecure, Task, Exported, Active

LEMMA DiscoveredImplements ==
    ASSUME IInv, Idle, discovery = "pending",
           NEW ds \in SUBSET Devices, Discovered(ds)
    PROVE  Policy!Discovered
  BY DEF Discovered, Process, Policy!Discovered, Task, Exported, Active

LEMMA MeasurementUnseen ==
    ASSUME NEW d \in Devices, GetSignedMeasurements(d)
    PROVE  Unseen
  BY DEF GetSignedMeasurements, Unseen, Task, Exported, Active

-----------------------------------------------------------------------------
(* Tearing down. *)

(* StopSession clears isActive of its device and of no other.              *)
LEMMA StopSessionActive ==
    ASSUME SessionTypeOK, NEW d \in Devices, NEW b, StopSession(d, b)
    PROVE  Active(Devices)' = Active(Devices) \ {d}
  BY DEF StopSession, SessionTypeOK, Active

LEMMA CloseSessionImplements ==
    ASSUME IInv, NEW d \in Devices, CloseSession(d)
    PROVE  Policy!Close(d) \/ Unseen
<1>1. Active(Devices)' = Active(Devices) \ {d}
  BY StopSessionActive DEF CloseSession, TypeOK
<1>2. Exported' = Exported /\ Task' = Task
  BY DEF CloseSession, Exported, Task
<1>3. Task \in {"remove", "replace", "close"}
  BY DEF CloseSession, Control, Task, TypeOK, Ops
<1>4. UNCHANGED <<boot, enabled, secure, discovery, devices>>
  BY DEF CloseSession
<1>. QED
  BY <1>1, <1>2, <1>3, <1>4 DEF Policy!Close, Unseen

(* Nothing is active any more when the runtime close ends.                 *)
LEMMA CloseDoneImplements == IInv /\ CloseDone => Policy!Done \/ Unseen
<1>. SUFFICES ASSUME IInv, CloseDone PROVE Policy!Done \/ Unseen
  OBVIOUS
<1>1. CASE op = "unsecure"
  <2>1. Active(Devices) = {}
    BY <1>1 DEF CloseDone, ActiveScope, Control, Active
  <2>. QED
    BY <1>1, <2>1 DEF CloseDone, Policy!Done, Task, Exported, Active
<1>2. CASE op # "unsecure"
  BY <1>2 DEF CloseDone, Unseen, Task, Exported, Active, Control, TypeOK, Ops
<1>. QED
  BY <1>1, <1>2

LEMMA DropResponderImplements ==
    ASSUME IInv, NEW d \in Devices, DropResponder(d)
    PROVE  Policy!Withdraw(d)
<1>1. Active(Devices)' = Active(Devices) \ {d}
  <2>1. CASE active[d]
    BY <2>1, StopSessionActive DEF DropResponder, TypeOK
  <2>2. CASE ~ active[d]
    BY <2>2 DEF DropResponder, Active
  <2>. QED
    BY <2>1, <2>2
<1>2. Exported = responders /\ Exported' = responders \ {d} /\ d \in responders
  BY DEF DropResponder, Exported
<1>3. Task' = Task /\ Task \in {"remove", "replace", "exit"}
  BY DEF DropResponder, Control, Task, TypeOK, Ops
<1>4. UNCHANGED <<boot, enabled, secure, discovery, devices>>
  BY DEF DropResponder
<1>. QED
  BY <1>1, <1>2, <1>3, <1>4 DEF Policy!Withdraw

LEMMA ClearDoneImplements == IInv /\ ClearDone => Policy!Done \/ Policy!Populate
<1>. SUFFICES ASSUME IInv, ClearDone PROVE Policy!Done \/ Policy!Populate
  OBVIOUS
<1>1. Exported = {} /\ Exported' = {} /\ Active(Devices)' = Active(Devices)
  BY DEF ClearDone, Exported, Active
<1>2. UNCHANGED <<boot, enabled, secure, discovery, devices>>
  BY DEF ClearDone
<1>3. CASE op = "disable"
  BY <1>1, <1>2, <1>3 DEF ClearDone, Policy!Done, Task
<1>4. CASE op = "process"
  BY <1>1, <1>2, <1>4 DEF ClearDone, Policy!Populate, Task
<1>. QED
  BY <1>3, <1>4 DEF ClearDone

-----------------------------------------------------------------------------
(* The device loop.  Outside connect .. push no object of the current      *)
(* device is exported yet.                                                 *)

(* Between connect and push a step changes neither the objects that exist  *)
(* nor the task.                                                           *)
OpenSteps == {"connect", "open", "start", "heartbeat", "push"}

LEMMA SameTask ==
    ASSUME step \in OpenSteps, step' \in OpenSteps,
           UNCHANGED <<life, op, cur, responders>>
    PROVE  Exported' = Exported /\ Task' = Task
<1>1. Exported' = Exported
  BY DEF Exported, OpenSteps
<1>2. Task' = Task
  BY DEF Task, OpenSteps
<1>. QED
  BY <1>1, <1>2

LEMMA LoopStepUnseen ==
    ASSUME IInv, NEW d \in Devices,
           InitializeTransport(d) \/ InitializeFails(d) \/ Configure(d)
    PROVE  Unseen
<1>1. Active(Devices)' = Active(Devices)
  BY DEF InitializeTransport, InitializeFails, Configure, EmptyTable, ApplyConfig, Active
<1>2. op = "process" /\ op' = "process" /\ life' = life
  BY DEF InitializeTransport, InitializeFails, Configure, Control, DeviceSteps, TypeOK, Ops
<1>3. /\ step \in {"device", "configure"}
      /\ step' \in {"device", "configure", "construct"}
  BY DEF InitializeTransport, InitializeFails, Configure
<1>4. Exported' = Exported /\ Task' = Task
  BY <1>2, <1>3 DEF Exported, Task, InitializeTransport, InitializeFails, Configure
<1>. QED
  BY <1>1, <1>4 DEF Unseen, InitializeTransport, InitializeFails, Configure

LEMMA ConstructImplements ==
    ASSUME IInv, NEW d \in Devices, Construct(d)
    PROVE  Policy!Export(d) \/ Unseen
<1>1. op = "process" /\ op' = "process" /\ Task = "populate" /\ Task' = "populate"
  BY DEF Construct, Control, DeviceSteps, TypeOK, Ops, Task
<1>2. d \in devices \ responders /\ Exported = responders
  BY <1>1 DEF Construct, LoopScope, DeviceSteps, Exported
<1>3. CASE PathFree(d)
  <2>1. Exported' = Exported \cup {d}
    BY <1>1, <1>2, <1>3 DEF Construct, Exported
  <2>. QED
    BY <1>1, <1>2, <2>1 DEF Construct, Policy!Export, Active
<1>4. CASE ~ PathFree(d)
  BY <1>1, <1>2, <1>4 DEF Construct, Unseen, Exported, Active
<1>. QED
  BY <1>3, <1>4

LEMMA ConnectUnseen ==
    ASSUME IInv, NEW d \in Devices, Connect(d)
    PROVE  Unseen
<1>1. Active(Devices)' = Active(Devices)
  BY DEF Connect, EmptyTable, Active
<1>2. Exported' = Exported
  BY DEF Connect, Exported, Control, TypeOK, Ops
<1>3. Task' = Task
  BY DEF Connect, Task
<1>. QED
  BY <1>1, <1>2, <1>3 DEF Unseen, Connect

LEMMA ConnectFailsImplements ==
    ASSUME IInv, NEW d \in Devices, ConnectFails(d)
    PROVE  Policy!GiveUp(d) \/ Unseen
<1>1. Active(Devices)' = Active(Devices)
  BY DEF ConnectFails, EmptyTable, Active
<1>2. CASE op = "measure"
  BY <1>1, <1>2 DEF ConnectFails, Unseen, Exported, Task
<1>3. CASE op # "measure"
  <2>1. op = "process" /\ Task = "populate" /\ Task' = "populate"
    BY <1>3 DEF ConnectFails, Control, TypeOK, Ops, Task
  <2>2. d \notin responders
    BY <2>1 DEF ConnectFails, LoopScope, DeviceSteps
  <2>3. Exported = responders \cup {d} /\ Exported' = responders
    BY <2>1 DEF ConnectFails, Exported
  <2>4. ~ active[d]
    BY <2>2 DEF ConnectFails, ActiveScope
  <2>5. d \in Exported \ Active(Devices) /\ Exported' = Exported \ {d}
    BY <2>2, <2>3, <2>4 DEF Active
  <2>6. UNCHANGED <<boot, enabled, secure, discovery, devices>>
    BY DEF ConnectFails
  <2>. QED
    BY <1>1, <2>1, <2>5, <2>6 DEF Policy!GiveUp
<1>. QED
  BY <1>2, <1>3

LEMMA PushResponderUnseen ==
    ASSUME IInv, NEW d \in Devices, PushResponder(d)
    PROVE  Unseen
<1>1. Active(Devices)' = Active(Devices) /\ Task' = Task
  BY DEF PushResponder, Active, Task
<1>2. Exported' = Exported
  <2>1. CASE op = "process"
    BY <2>1 DEF PushResponder, Exported
  <2>2. CASE op # "process"
    <3>1. op = "secure"
      BY <2>2 DEF PushResponder, Control, TypeOK, Ops
    <3>2. d \in responders
      BY <3>1 DEF PushResponder, LoopScope, DeviceSteps
    <3>. QED
      BY <3>1, <3>2 DEF PushResponder, Exported
  <2>. QED
    BY <2>1, <2>2
<1>. QED
  BY <1>1, <1>2 DEF Unseen, PushResponder

LEMMA LoopDoneImplements == IInv /\ LoopDone => Policy!Done
<1>. SUFFICES ASSUME IInv, LoopDone PROVE Policy!Done
  OBVIOUS
<1>1. Task \in {"populate", "open"} /\ Task' = "idle"
  BY DEF LoopDone, Control, TypeOK, Ops, Task
<1>2. Exported' = Exported /\ Active(Devices)' = Active(Devices)
  BY DEF LoopDone, Exported, Active
<1>. QED
  BY <1>1, <1>2 DEF LoopDone, Policy!Done

-----------------------------------------------------------------------------
(* Opening sessions. *)

LEMMA SessionStepUnseen ==
    ASSUME IInv, NEW d \in Devices,
           NextResponder(d) \/ InstallRootCert(d) \/ SendHeartbeat(d)
    PROVE  Unseen
<1>1. Active(Devices)' = Active(Devices)
  BY DEF NextResponder, InstallRootCert, SendHeartbeat, Heartbeat, Active
<1>2. CASE NextResponder(d)
  <2>1. op = "secure" /\ op' = op /\ life' = life /\ responders' = responders
    BY <1>2 DEF NextResponder, Control, TypeOK, Ops, DeviceSteps
  <2>2. Exported' = Exported /\ Task' = Task
    BY <2>1 DEF Exported, Task
  <2>. QED
    BY <1>1, <1>2, <2>2 DEF NextResponder, Unseen
<1>3. CASE InstallRootCert(d) \/ SendHeartbeat(d)
  <2>1. Exported' = Exported /\ Task' = Task
    <3>1. /\ step \in OpenSteps /\ step' \in OpenSteps
          /\ UNCHANGED <<life, op, cur, responders>>
      BY <1>3 DEF InstallRootCert, SendHeartbeat, OpenSteps
    <3>. QED
      BY <3>1, SameTask
  <2>. QED
    BY <1>1, <1>3, <2>1 DEF InstallRootCert, SendHeartbeat, Unseen
<1>. QED
  BY <1>2, <1>3

LEMMA OpenSessionImplements ==
    ASSUME IInv, NEW d \in Devices, OpenSession(d)
    PROVE  Policy!Open(d) \/ Unseen
<1>1. Exported' = Exported /\ Task' = Task
  BY SameTask DEF OpenSession, OpenSteps
<1>2. UNCHANGED <<boot, enabled, secure, discovery, devices>>
  BY DEF OpenSession
<1>3. CASE StartSession(d)
  <2>1. op \in {"process", "secure"} /\ Task \in {"populate", "open"} /\ enabled /\ secure
    BY DEF OpenSession, Control, TypeOK, Ops, Task
  <2>2. d \in Exported
    BY <2>1 DEF OpenSession, Exported, LoopScope, DeviceSteps
  <2>3. d \notin Active(Devices)
    BY <2>1 DEF OpenSession, LoopScope, ActiveScope, DeviceSteps, Active
  <2>4. Active(Devices)' = Active(Devices) \cup {d}
    BY <1>3 DEF StartSession, Active, TypeOK, SessionTypeOK
  <2>. QED
    BY <1>1, <1>2, <2>1, <2>2, <2>3, <2>4 DEF Policy!Open
<1>4. CASE ~ StartSession(d)
  <2>1. Active(Devices)' = Active(Devices)
    BY <1>4 DEF OpenSession, Active
  <2>. QED
    BY <1>1, <1>2, <2>1 DEF Unseen
<1>. QED
  BY <1>3, <1>4

LEMMA FinishMeasurementUnseen == IInv /\ FinishMeasurement => Unseen
<1>. SUFFICES ASSUME IInv, FinishMeasurement PROVE Unseen
  OBVIOUS
<1>1. op = "measure" /\ op' = "idle"
  BY DEF FinishMeasurement, Control, TypeOK, Ops, DeviceSteps
<1>2. UNCHANGED <<life, boot, enabled, secure, discovery, devices, responders, active>>
  BY DEF FinishMeasurement
<1>3. Exported' = Exported
  BY <1>1, <1>2 DEF Exported
<1>4. Task' = Task
  BY <1>1, <1>2 DEF Task
<1>. QED
  BY <1>2, <1>3, <1>4 DEF Unseen, Active

-----------------------------------------------------------------------------
(* The refinement. *)

LEMMA HandlerStepImplements == IInv /\ HandlerStep => PolicyStep
<1>. SUFFICES ASSUME IInv, HandlerStep PROVE PolicyStep
  OBVIOUS
<1>. USE DEF PolicyStep, Policy!Next
<1>1. CASE CloseDone \/ ClearDone \/ LoopDone \/ FinishMeasurement
  BY <1>1, CloseDoneImplements, ClearDoneImplements, LoopDoneImplements,
     FinishMeasurementUnseen
<1>2. CASE Exit
  BY <1>2, VanishImplements DEF Exit
<1>3. ASSUME NEW d \in Devices, CloseSession(d) \/ DropResponder(d)
      PROVE  PolicyStep
  BY <1>3, CloseSessionImplements, DropResponderImplements
<1>4. ASSUME NEW d \in Devices,
             InitializeTransport(d) \/ InitializeFails(d) \/ Configure(d)
      PROVE  PolicyStep
  BY <1>4, LoopStepUnseen
<1>5. ASSUME NEW d \in Devices,
             Construct(d) \/ Connect(d) \/ ConnectFails(d) \/ PushResponder(d)
      PROVE  PolicyStep
  BY <1>5, ConstructImplements, ConnectUnseen, ConnectFailsImplements, PushResponderUnseen
<1>6. ASSUME NEW d \in Devices,
             NextResponder(d) \/ InstallRootCert(d) \/ SendHeartbeat(d) \/ OpenSession(d)
      PROVE  PolicyStep
  BY <1>6, SessionStepUnseen, OpenSessionImplements
<1>. QED
  BY <1>1, <1>2, <1>3, <1>4, <1>5, <1>6, Zenon DEF HandlerStep

LEMMA OtherStepImplements ==
    IInv /\ (LeaveLoop \/ Request \/ Environment) => PolicyStep
<1>. SUFFICES ASSUME IInv, LeaveLoop \/ Request \/ Environment PROVE PolicyStep
  OBVIOUS
<1>. USE DEF PolicyStep, Policy!Next
<1>1. CASE LeaveLoop
  BY <1>1, LeaveLoopImplements
<1>2. CASE SetEnabled \/ SetSecure
  BY <1>2, SetEnabledImplements, SetSecureImplements
<1>3. CASE DiscoveryFails
  BY <1>3, VanishImplements, DiscoveredImplements DEF DiscoveryFails
<1>4. ASSUME NEW ds \in SUBSET Devices, DiscoverySucceeds(ds) PROVE PolicyStep
  BY <1>4, DiscoveredImplements DEF DiscoverySucceeds
<1>5. ASSUME NEW d \in Devices, GetSignedMeasurements(d) PROVE PolicyStep
  BY <1>5, MeasurementUnseen
<1>6. CASE Environment
  BY <1>6, StartImplements, VanishImplements, SignalUnseen DEF Environment, Crash
<1>. QED
  BY <1>1, <1>2, <1>3, <1>4, <1>5, <1>6, Zenon DEF Request

(* The daemon implements the policy of SpdmPolicy, whatever fails and      *)
(* whenever it is interrupted.                                             *)
THEOREM DaemonImplementsPolicy == Spec => ImplementsPolicy
<1>1. Init => Policy!Init
  BY DEF Init, Policy!Init, Boot, Exported, Active, Task, NoContexts
<1>2. IInv /\ [Next]_vars => [Policy!Next]_Policy!pvars
  <2>1. CASE Next
    BY <2>1, HandlerStepImplements, OtherStepImplements
       DEF Next, PolicyStep, Unseen, Policy!pvars
  <2>2. CASE UNCHANGED vars
    BY <2>2 DEF vars, Policy!pvars, Exported, Active, Task
  <2>. QED
    BY <2>1, <2>2
<1>. QED
  BY <1>1, <1>2, Invariance, PTL DEF Spec, ImplementsPolicy, Policy!Spec

-----------------------------------------------------------------------------
(* The other side of discovery. *)

Contract == INSTANCE DiscoveryContract

(* The daemon takes the device list from one callback per process, and     *)
(* nothing else changes it: it is the client DiscoveryContract describes.  *)
THEOREM DaemonKeepsContract == Spec => Contract!Spec
<1>. USE DEF Contract!Next, Contract!Deliver, Contract!Restart
<1>1. Init => Contract!Init
  BY DEF Init, Contract!Init
<1>2. [Next]_vars => [Contract!Next]_<<discovery, devices>>
  <2>. SUFFICES ASSUME [Next]_vars PROVE [Contract!Next]_<<discovery, devices>>
    OBVIOUS
  <2>1. CASE HandlerStep
    BY <2>1 DEF HandlerStep, CloseDone, ClearDone, Exit, Vanish, LoopDone,
       FinishMeasurement, CloseSession, DropResponder, InitializeTransport,
       InitializeFails, Configure, Construct, Connect, ConnectFails,
       PushResponder, NextResponder, InstallRootCert, OpenSession, SendHeartbeat
  <2>2. CASE Request
    BY <2>2 DEF Request, SetEnabled, SetSecure, DiscoveryFails, Vanish,
       DiscoverySucceeds, Discovered, GetSignedMeasurements
  <2>3. CASE LeaveLoop \/ Environment \/ UNCHANGED vars
    BY <2>3 DEF LeaveLoop, Environment, Start, Crash, Vanish, Signal, LoseReply, vars
  <2>. QED
    BY <2>1, <2>2, <2>3 DEF Next
<1>. QED
  BY <1>1, <1>2, PTL DEF Spec, Contract!Spec

-----------------------------------------------------------------------------
(* The life of a context. *)

(* A context that is being configured was just set up, and libspdm knows a *)
(* session of the daemon only on a connection: every way to lose the       *)
(* connection, be it a new context or a failing measurement, took the      *)
(* session with it.                                                        *)
SetUp == step = "configure" => context[cur] = "initialized"

SessionsOnConnections == \A d \in Devices : live[d] => context[d] = "negotiated"

LInv == SetUp /\ SessionsOnConnections

(* One step of the daemon, as seen by the context of d. *)
ContextStep(d) == Context(d)!Next \/ UNCHANGED <<context[d], live[d]>>

LifecycleStep == LInv' /\ \A d \in Devices : ContextStep(d)

(* The device whose context is being configured stays the same one. *)
NoNewContext == step' = "configure" => step = "configure" /\ cur' = cur

LEMMA NothingUsed ==
    ASSUME LInv, context' = context, live' = live, NoNewContext
    PROVE  LifecycleStep
  BY DEF LifecycleStep, LInv, SetUp, SessionsOnConnections, NoNewContext, ContextStep

(* The session of d is closed, or not. *)
LEMMA SessionDropped ==
    ASSUME IInv, LInv, NEW d \in Devices, context' = context,
           live' \in {live, [live EXCEPT ![d] = FALSE]}, NoNewContext
    PROVE  LifecycleStep
<1>1. live \in [Devices -> BOOLEAN]
  BY DEF TypeOK, SessionTypeOK
<1>2. LInv'
  BY <1>1 DEF LInv, SetUp, SessionsOnConnections, NoNewContext
<1>3. ASSUME NEW e \in Devices PROVE ContextStep(e)
  BY <1>1 DEF ContextStep, Context!Next, Context!Close
<1>. QED
  BY <1>2, <1>3 DEF LifecycleStep

(* The context of d is replaced, or connects again. *)
LEMMA TableEmptied ==
    ASSUME IInv, LInv, NEW d \in Devices, NEW c, EmptyTable(d, c),
           \/ c \in {"none", "raw", "initialized"}
           \/ c \in Usable /\ context[d] \in Usable,
           step' = "configure" => cur' = d /\ c = "initialized"
    PROVE  LifecycleStep
<1>1. /\ context \in [Devices -> ContextState] /\ live \in [Devices -> BOOLEAN]
      /\ context' = [context EXCEPT ![d] = c] /\ live' = [live EXCEPT ![d] = FALSE]
  BY DEF TypeOK, SessionTypeOK, EmptyTable
<1>2. LInv'
  BY <1>1 DEF LInv, SetUp, SessionsOnConnections
<1>3. ASSUME NEW e \in Devices PROVE ContextStep(e)
  BY <1>1 DEF ContextStep, Context!Next, Context!Replace, Context!Connect, Usable
<1>. QED
  BY <1>2, <1>3 DEF LifecycleStep

LEMMA ConfigureFollows ==
    ASSUME IInv, LInv, NEW d \in Devices, Configure(d)
    PROVE  LifecycleStep
<1>1. step = "configure" /\ d = cur /\ context[d] = "initialized" /\ ~live[d]
  BY DEF Configure, LInv, SetUp, SessionsOnConnections
<1>2. step' # "configure"
  BY DEF Configure
<1>3. CASE ApplyConfig(d)
  <2>1. /\ context \in [Devices -> ContextState]
        /\ context' = [context EXCEPT ![d] = "configured"] /\ live' = live
    BY <1>3 DEF TypeOK, SessionTypeOK, ApplyConfig
  <2>2. LInv'
    BY <1>1, <1>2, <2>1 DEF LInv, SetUp, SessionsOnConnections
  <2>3. ASSUME NEW e \in Devices PROVE ContextStep(e)
    BY <1>1, <2>1 DEF ContextStep, Context!Next, Context!Configure
  <2>. QED
    BY <2>2, <2>3 DEF LifecycleStep
<1>4. CASE UNCHANGED sessionVars
  BY <1>2, <1>4, NothingUsed DEF NoNewContext
<1>. QED
  BY <1>3, <1>4 DEF Configure

LEMMA OpenSessionFollows ==
    ASSUME IInv, LInv, NEW d \in Devices, OpenSession(d)
    PROVE  LifecycleStep
<1>1. step = "start" /\ d = cur /\ context[d] = "negotiated"
  BY DEF OpenSession, ContextScope
<1>2. step' # "configure"
  BY DEF OpenSession
<1>3. CASE StartSession(d)
  <2>1. /\ live \in [Devices -> BOOLEAN]
        /\ context' = context /\ live' = [live EXCEPT ![d] = TRUE]
    BY <1>3 DEF TypeOK, SessionTypeOK, StartSession
  <2>2. LInv'
    BY <1>1, <1>2, <2>1 DEF LInv, SetUp, SessionsOnConnections
  <2>3. ASSUME NEW e \in Devices PROVE ContextStep(e)
    BY <1>1, <2>1 DEF ContextStep, Context!Next, Context!Open
  <2>. QED
    BY <2>2, <2>3 DEF LifecycleStep
<1>4. CASE UNCHANGED sessionVars
  BY <1>2, <1>4, NothingUsed DEF NoNewContext
<1>. QED
  BY <1>3, <1>4 DEF OpenSession

(* Nothing survives the process. *)
LEMMA VanishFollows ==
    ASSUME Vanish
    PROVE  LifecycleStep
<1>1. /\ step' = "none"
      /\ context' = [d \in Devices |-> "none"] /\ live' = [d \in Devices |-> FALSE]
  BY DEF Vanish, ForgetContexts
<1>2. LInv'
  BY <1>1 DEF LInv, SetUp, SessionsOnConnections
<1>3. ASSUME NEW e \in Devices PROVE ContextStep(e)
  BY <1>1 DEF ContextStep, Context!Next, Context!Replace
<1>. QED
  BY <1>2, <1>3 DEF LifecycleStep

LEMMA DeviceStepFollows ==
    ASSUME IInv, LInv, NEW d \in Devices,
           \/ InitializeTransport(d) \/ InitializeFails(d) \/ Connect(d) \/ ConnectFails(d)
    PROVE  LifecycleStep
<1>1. CASE InitializeTransport(d)
  BY <1>1, TableEmptied DEF InitializeTransport
<1>2. CASE InitializeFails(d)
  <2>1. step' # "configure"
    BY <1>2 DEF InitializeFails
  <2>. QED
    BY <1>2, <2>1, NothingUsed, TableEmptied DEF InitializeFails, NoNewContext
<1>3. CASE Connect(d) \/ ConnectFails(d)
  <2>1. step' # "configure" /\ step = "connect" /\ d = cur
    BY <1>3 DEF Connect, ConnectFails
  <2>2. context[d] \in Usable
    BY <2>1 DEF ContextScope, Usable
  <2>3. PICK c \in Usable : EmptyTable(d, c)
    BY <1>3, <2>2 DEF Connect, ConnectFails, Usable
  <2>. QED
    BY <2>1, <2>2, <2>3, TableEmptied
<1>. QED
  BY <1>1, <1>2, <1>3

LEMMA SessionStepFollows ==
    ASSUME IInv, LInv, NEW d \in Devices,
           CloseSession(d) \/ DropResponder(d) \/ SendHeartbeat(d)
    PROVE  LifecycleStep
<1>1. NoNewContext
  BY DEF CloseSession, DropResponder, SendHeartbeat, NoNewContext
<1>2. context' = context /\ live' \in {live, [live EXCEPT ![d] = FALSE]}
  BY DEF CloseSession, DropResponder, SendHeartbeat, StopSession, Heartbeat, ReleaseId
<1>. QED
  BY <1>1, <1>2, SessionDropped

LEMMA QuietStepFollows ==
    ASSUME IInv, LInv,
           \/ CloseDone \/ ClearDone \/ LoopDone \/ FinishMeasurement
           \/ LeaveLoop \/ Start \/ Signal \/ LoseReply \/ UNCHANGED vars
           \/ SetEnabled \/ SetSecure
           \/ \E ds : Discovered(ds) /\ step = "none"
           \/ \E d \in Devices : \/ Construct(d) \/ PushResponder(d) \/ NextResponder(d)
                                 \/ InstallRootCert(d) \/ GetSignedMeasurements(d)
    PROVE  LifecycleStep
<1>1. context' = context /\ live' = live
  BY DEF CloseDone, ClearDone, LoopDone, FinishMeasurement, LeaveLoop, Start, Signal,
     LoseReply, vars, SetEnabled, SetSecure, Discovered, Construct, PushResponder,
     NextResponder, InstallRootCert, GetSignedMeasurements
<1>2. NoNewContext
  BY DEF CloseDone, ClearDone, LoopDone, FinishMeasurement, LeaveLoop, Start, Signal,
     LoseReply, vars, SetEnabled, SetSecure, Discovered, Construct, PushResponder,
     NextResponder, InstallRootCert, GetSignedMeasurements, NoNewContext, Process
<1>. QED
  BY <1>1, <1>2, NothingUsed

LEMMA NextFollows == IInv /\ LInv /\ [Next]_vars => LifecycleStep
<1>. SUFFICES ASSUME IInv, LInv, [Next]_vars PROVE LifecycleStep
  OBVIOUS
<1>1. CASE HandlerStep
  BY <1>1, QuietStepFollows, VanishFollows, DeviceStepFollows, SessionStepFollows,
     ConfigureFollows, OpenSessionFollows, ZenonT(30) DEF HandlerStep, Exit
<1>2. CASE Request
  <2>1. Idle => step = "none"
    BY DEF Control
  <2>. QED
    BY <1>2, <2>1, QuietStepFollows, VanishFollows, ZenonT(30)
       DEF Request, DiscoveryFails, DiscoverySucceeds
<1>3. CASE LeaveLoop \/ Environment \/ UNCHANGED vars
  BY <1>3, QuietStepFollows, VanishFollows, ZenonT(30) DEF Environment, Crash
<1>. QED
  BY <1>1, <1>2, <1>3, Zenon DEF Next

(* For every device, the daemon uses the libspdm context in the order      *)
(* SpdmContext allows, whatever failed before and whenever it was killed.  *)
THEOREM DaemonFollowsLifecycle == Spec => FollowsLifecycle
<1>1. Init => LInv /\ \A d \in Devices : Context(d)!Init
  BY DEF Init, NoContexts, LInv, SetUp, SessionsOnConnections, Context!Init
<1>2. IInv /\ LInv /\ [Next]_vars =>
        LInv' /\ [\A d \in Devices :
                    Context(d)!Next \/ UNCHANGED <<context[d], live[d]>>]_vars
  BY NextFollows DEF LifecycleStep, ContextStep
<1>. QED
  BY <1>1, <1>2, Invariance, PTL DEF Spec, FollowsLifecycle

=============================================================================
