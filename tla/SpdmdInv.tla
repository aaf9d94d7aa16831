------------------------------ MODULE SpdmdInv ------------------------------
(***************************************************************************)
(* The inductive invariant of Spdmd.  Each conjunct is a fact about the    *)
(* state between two steps of a handler; the properties of Spdmd speak of  *)
(* the states in which no handler runs, and follow from it.                *)
(***************************************************************************)
EXTENDS Spdmd

(* An id libspdm knows occupies a slot of its table. *)
LiveHasSlot == \A d \in Devices : live[d] => slots[d] >= 1

DeviceSteps == {"configure", "construct", "connect", "open", "start",
                "heartbeat", "push"}

(* Which step belongs to which handler, and what the handler was started for. *)
Control ==
    /\ life = "down" => op = "idle" /\ stop = FALSE
    /\ op = "idle" <=> step = "none"
    /\ op = "disable" => step \in {"close", "clear"} /\ ~enabled
    /\ op = "process" => step \in {"close", "clear", "device"} \cup DeviceSteps /\ enabled
    /\ op = "secure" =>
        step \in {"responder", "open", "start", "heartbeat", "push"} /\ enabled /\ secure
    /\ op = "unsecure" => step = "close" /\ ~secure
    /\ op = "measure" => step \in {"connect", "fetch"} /\ cur \in responders /\ enabled
    /\ op = "shutdown" => step = "clear"
    /\ step \in {"open", "start", "heartbeat"} => enabled /\ secure
    /\ step \in DeviceSteps => cur \in Devices

(* Responders come from the discovered devices, and there are none while   *)
(* Enabled is false, except in the handler that removes them.              *)
ResponderScope ==
    /\ responders \subseteq devices
    /\ ~enabled /\ op # "disable" => responders = {}
    /\ discovery = "pending" => devices = {}
    /\ life = "down" => discovery = "pending"

(* In the device loop the devices still to come, and the current one, have *)
(* no responder; in the runtime loop they all have one and no session.     *)
LoopScope ==
    /\ op = "process" /\ step \notin {"close", "clear"} =>
        /\ todo \subseteq devices /\ todo \cap responders = {}
        /\ step \in DeviceSteps => cur \in devices \ (responders \cup todo)
    /\ op = "secure" =>
        /\ todo \subseteq responders
        /\ \A d \in todo : ~active[d]
        /\ step \in DeviceSteps => cur \in responders \ todo
        /\ step \in {"open", "start"} => ~active[cur]

(* Who may have an active session: a responder under the policy, one about *)
(* to be closed, or the device whose session was just opened.              *)
ActiveScope ==
    \A d \in Devices : active[d] =>
        \/ d \in responders /\ enabled /\ secure
        \/ step = "close" /\ d \in todo /\ d \in responders
        \/ step \in {"heartbeat", "push"} /\ d = cur /\ enabled /\ secure

Usable == {"configured", "negotiated"}

(* How far the context of the current device has come. *)
ContextScope ==
    /\ \A d \in responders : context[d] \in Usable
    /\ step \in {"construct", "connect", "open", "start", "heartbeat", "push"} =>
        context[cur] \in Usable
    /\ step = "open" /\ op = "process" => context[cur] = "negotiated"
    /\ step = "start" => context[cur] = "negotiated"

(* A device that answers and has a responder stays negotiated. *)
AnswersNegotiated ==
    \A d \in responders : Answers(d) => context[d] = "negotiated"

(* Served(d): d has what the policy asks for. *)
Served(d) == d \in responders /\ (secure => active[d])

(* Outside processDiscoveredDevices every device that answers is served,   *)
(* or the runtime loop is still going to serve it.                         *)
Settled ==
    enabled /\ discovery = "done" /\ op \notin {"shutdown", "process"} =>
        \A d \in devices : Exportable(d) =>
            \/ Served(d)
            \/ /\ op = "secure" /\ d \in responders
               /\ d \in todo \/ (step \in DeviceSteps /\ d = cur)

(* In the device loop every device that answers is still to come, is the   *)
(* current one, or is served.                                              *)
Remaining ==
    op = "process" /\ step \notin {"close", "clear"} =>
        \A d \in devices : Exportable(d) =>
            d \in todo \/ Served(d) \/ (step \in DeviceSteps /\ d = cur)

(* What the steps before this one have achieved for the current device, if *)
(* it answers.                                                             *)
OnItsWay ==
    step \in DeviceSteps /\ Answers(cur) =>
        /\ step \in {"open", "heartbeat", "push"} => context[cur] = "negotiated"
        /\ step = "heartbeat" => active[cur]
        /\ step = "push" /\ secure => active[cur]

IInv ==
    /\ TypeOK /\ LiveHasSlot
    /\ Control /\ ResponderScope /\ LoopScope /\ ActiveScope
    /\ ContextScope /\ NoLeakedSession /\ AnswersNegotiated
    /\ Settled /\ Remaining /\ OnItsWay

=============================================================================
