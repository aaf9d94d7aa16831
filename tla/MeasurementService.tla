------------------------- MODULE MeasurementService -------------------------
(***************************************************************************)
(* What SPDMGetSignedMeasurements promises a D-Bus client: one call at a   *)
(* time, refused or answered, and answered in one piece.  A complete reply *)
(* carries a measurement of everything asked for, from one certificate     *)
(* slot, with a chain that slot held while the call was under way, and     *)
(* from then on the Certificate object shows that chain.  Every other end  *)
(* of a call hands nothing over and leaves the Certificate object alone.   *)
(*                                                                         *)
(* How the client is told of such an end is left open.  The documentation  *)
(* of the method has it throw InvalidArgument or InternalFailure           *)
(* (component_integrity_dbus.hpp:116), an "error" here; the code catches   *)
(* every exception and sends an ordinary reply with empty fields, "empty". *)
(* ComponentIntegrity implements this module.                              *)
(***************************************************************************)
EXTENDS Naturals, Sequences

CONSTANTS
    Requests,       \* [indices, slot, nonce]
    NoRequest,
    Slots,          \* certificate slots of the device
    Chains,         \* what a slot can hold, "none" included
    Certs           \* the chains a Certificate object can show

VARIABLES
    provisioned,    \* what each slot holds
    shown,          \* the chain the Certificate object shows
    call,           \* the calls under way: none or one
    fetched,        \* the chain read for it, "none" before that
    answer          \* the last reply

vars == <<provisioned, shown, call, fetched, answer>>

(* What a client may ask for: nothing, one special value, or distinct      *)
(* indices from 1 to 254.                                                  *)
Requestable(s) ==
    \/ s \in {<<>>, <<0>>, <<255>>}
    \/ /\ \A i \in 1 .. Len(s) : s[i] \in 1 .. 254
       /\ \A i, j \in 1 .. Len(s) : i # j => s[i] # s[j]

(* What is then measured, in order: no index means all measurements, and   *)
(* index 0 asks for their number only.                                     *)
Asked(s) == IF s = <<>> THEN <<255>> ELSE IF s = <<0>> THEN <<>> ELSE s

Slot(r) == r.slot % 256

(* A call that ends with nothing: the D-Bus error of the documentation, or  *)
(* a reply without content.                                                *)
Refusals == {"error", "empty"}

Nothing(kind) ==
    [kind |-> kind, request |-> NoRequest, chain |-> "none", measured |-> <<>>]

Everything(r) ==
    [kind |-> "complete", request |-> r, chain |-> fetched,
     measured |-> [i \in 1 .. Len(Asked(r.indices)) |-> <<Asked(r.indices)[i], Slot(r)>>]]

Init ==
    /\ provisioned \in [Slots -> Chains]
    /\ shown = "none"
    /\ call = <<>> /\ fetched = "none"
    /\ answer = Nothing("none")

Accept(r) ==
    /\ call = <<>> /\ Requestable(r.indices)
    /\ call' = <<r>>
    /\ UNCHANGED <<provisioned, shown, fetched, answer>>

Refuse(r) ==
    /\ call = <<>> /\ ~Requestable(r.indices)
    /\ \E kind \in Refusals : answer' = Nothing(kind)
    /\ UNCHANGED <<provisioned, shown, call, fetched>>

Fetch(r) ==
    /\ call = <<r>> /\ fetched = "none"
    /\ fetched' = provisioned[Slot(r)] /\ fetched' # "none"
    /\ UNCHANGED <<provisioned, shown, call, answer>>

Complete(r) ==
    /\ call = <<r>> /\ fetched \in Certs
    /\ shown' = fetched /\ answer' = Everything(r)
    /\ call' = <<>> /\ fetched' = "none"
    /\ UNCHANGED provisioned

GiveUp ==
    /\ call # <<>>
    /\ \E kind \in Refusals : answer' = Nothing(kind)
    /\ call' = <<>> /\ fetched' = "none"
    /\ UNCHANGED <<provisioned, shown>>

(* Whoever provisions the device does not wait for a call to end. *)
Provision(s, c) ==
    /\ provisioned' = [provisioned EXCEPT ![s] = c]
    /\ UNCHANGED <<shown, call, fetched, answer>>

Next ==
    \/ \E r \in Requests : Accept(r) \/ Refuse(r) \/ Fetch(r) \/ Complete(r)
    \/ GiveUp
    \/ \E s \in Slots, c \in Chains : Provision(s, c)

Spec == Init /\ [][Next]_vars

=============================================================================
