------------------------- MODULE ComponentIntegrity -------------------------
(***************************************************************************)
(* class ComponentIntegrity: the D-Bus object of one responder and its     *)
(* method SPDMGetSignedMeasurements.  A call runs through a fixed order of *)
(* exchanges with the device (connect, digests, certificate, one           *)
(* measurement after the other), each of which may fail, while the device  *)
(* may be given another certificate; it ends in one reply and, if all went *)
(* well, in the Certificate object the reply names.                        *)
(*                                                                         *)
(* The calls of one object do not overlap: the handler makes blocking      *)
(* libspdm calls on the only thread (module Spdmd).                        *)
(***************************************************************************)
EXTENDS Naturals, Sequences, FiniteSets, SequencesExt

CONSTANTS
    Indices,        \* index values a client may send
    MaxIndices,     \* bound on the indices of a call
    SlotIds,        \* slot ids a client may send
    Nonces,         \* nonces a client may send
    Certs,          \* certificate chains that hold at least one certificate
    NoPem           \* a chain libspdm finds no certificate in

ASSUME RangesAssumption ==
    Indices \subseteq Nat /\ SlotIds \subseteq Nat /\ MaxIndices \in Nat
ASSUME NoPemAssumption == NoPem \notin Certs

VARIABLES
    provisioned,        \* what each certificate slot of the device holds
    certificateObject,  \* the chain the Certificate object shows, or "none"
    step,               \* where method_call is; "idle" outside a call
    args,               \* the arguments of the call
    certPem,            \* the chain getCertificate returned, and from which slot
    todo,               \* indices getSignedMeasurements has left
    allMeasurements,    \* measurements collected so far, as requested from the device
    reply               \* the last reply

deviceVars == <<provisioned>>
callVars   == <<args, certPem, todo, allMeasurements>>
vars == <<provisioned, certificateObject, step, args, certPem, todo,
          allMeasurements, reply>>

Args == [indices : BoundedSeq(Indices, MaxIndices), slot : SlotIds, nonce : Nonces]

(* The code keeps indices and slot ids as size_t; libspdm takes them as    *)
(* bytes.                                                                  *)
AsByte(n) == n % 256

DeviceSlots == {AsByte(s) : s \in SlotIds}

(* What one GET_MEASUREMENTS asked for. *)
Measurement == [index : 0 .. 255, slot : 0 .. 255, nonce : Nonces \cup {"none"}]

NoPemYet == [chain |-> "none", slot |-> 0]
NoArgs == [indices |-> <<>>, slot |-> 0, nonce |-> "none"]
NoReply == [kind |-> "none", args |-> NoArgs, cert |-> NoPemYet, measured |-> <<>>]

Chains == Certs \cup {NoPem, "none"}

TypeOK ==
    /\ provisioned \in [DeviceSlots -> Chains]
    /\ certificateObject \in Certs \cup {"none"}
    /\ step \in {"idle", "connect", "digests", "certificate", "measure", "publish"}
    /\ args \in Args \cup {NoArgs}
    /\ certPem \in [chain : Chains, slot : 0 .. 255]
    /\ todo \in Seq(Nat)
    /\ allMeasurements \in Seq(Measurement)
    /\ reply.kind \in {"none", "complete", "empty"}
    /\ reply.cert \in [chain : Chains, slot : 0 .. 255]

Init ==
    /\ provisioned \in [DeviceSlots -> Chains]
    /\ certificateObject = "none"
    /\ step = "idle"
    /\ args = NoArgs /\ certPem = NoPemYet
    /\ todo = <<>> /\ allMeasurements = <<>>
    /\ reply = NoReply

-----------------------------------------------------------------------------
(* validateMeasurementIndices and its three helpers. *)

MixesSpecialValues(s) ==
    LET has(x)  == \E i \in 1 .. Len(s) : s[i] = x
        regular == \E i \in 1 .. Len(s) : s[i] \in 1 .. 254
    IN  (has(0) /\ has(255)) \/ (has(0) /\ regular) \/ (has(255) /\ regular)

HasInvalidIndex(s) == \E i \in 1 .. Len(s) : s[i] < 1 \/ s[i] > 254

HasDuplicate(s) == Cardinality({s[i] : i \in 1 .. Len(s)}) # Len(s)

(* Variant: no upper bound. *)
AcceptedUnbounded(s) ==
    \/ s = <<>>
    \/ Len(s) = 1 /\ s[1] \in {0, 255}
    \/ ~MixesSpecialValues(s) /\ (\A i \in 1 .. Len(s) : s[i] >= 1) /\ ~HasDuplicate(s)

(* The call passes validation; else InvalidArgument is thrown. *)
Accepted(s) ==
    \/ s = <<>>
    \/ Len(s) = 1 /\ s[1] \in {0, 255}
    \/ ~MixesSpecialValues(s) /\ ~HasInvalidIndex(s) /\ ~HasDuplicate(s)

-----------------------------------------------------------------------------
(* The catch block of method_call: any exception, InvalidArgument of the   *)
(* validation included, ends the call with an ordinary reply that is empty. *)
ReplyEmpty ==
    /\ reply' = [kind |-> "empty", args |-> NoArgs, cert |-> NoPemYet, measured |-> <<>>]
    /\ step' = "idle"
    /\ args' = NoArgs /\ certPem' = NoPemYet
    /\ todo' = <<>> /\ allMeasurements' = <<>>
    /\ UNCHANGED <<deviceVars, certificateObject>>

(* method_call up to validateMeasurementIndices. *)
Call(a) ==
    /\ step = "idle"
    /\ IF Accepted(a.indices)
       THEN /\ step' = "connect" /\ args' = a
            /\ UNCHANGED <<deviceVars, certificateObject, certPem, todo,
                           allMeasurements, reply>>
       ELSE ReplyEmpty

(* initializeSpdmConnection and getCertificateDigests: their results are   *)
(* not used, their failure ends the call.                                  *)
InitializeSpdmConnection ==
    /\ step = "connect"
    /\ step' = "digests"
    /\ UNCHANGED <<deviceVars, certificateObject, callVars, reply>>

GetCertificateDigests ==
    /\ step = "digests"
    /\ step' = "certificate"
    /\ UNCHANGED <<deviceVars, certificateObject, callVars, reply>>

(* getCertificate, then the list of getSignedMeasurements: no index means  *)
(* all measurements.  A slot that holds nothing fails the exchange.        *)
GetCertificate ==
    /\ step = "certificate"
    /\ provisioned[AsByte(args.slot)] # "none"
    /\ step' = "measure"
    /\ certPem' = [chain |-> provisioned[AsByte(args.slot)], slot |-> AsByte(args.slot)]
    /\ todo' = IF args.indices = <<>> THEN <<255>> ELSE args.indices
    /\ UNCHANGED <<deviceVars, certificateObject, args, allMeasurements, reply>>

(* Variants: the remaining indices dropped after a failed one (an error    *)
(* swallowed); the certificate published before the measurements are in.   *)
GetSingleMeasurementSkipping ==
    /\ step = "measure" /\ todo # <<>>
    /\ todo' = Tail(todo)
    /\ \/ UNCHANGED allMeasurements
       \/ allMeasurements' =
              Append(allMeasurements, [index |-> AsByte(Head(todo)),
                                       slot |-> AsByte(args.slot), nonce |-> "none"])
    /\ UNCHANGED <<deviceVars, certificateObject, step, args, certPem, reply>>

GetSingleMeasurementPublishing ==
    /\ step = "measure" /\ todo # <<>>
    /\ todo' = Tail(todo)
    /\ allMeasurements' =
           IF Head(todo) = 0 THEN allMeasurements
           ELSE Append(allMeasurements, [index |-> AsByte(Head(todo)),
                                         slot |-> AsByte(args.slot), nonce |-> "none"])
    /\ certificateObject' = IF certPem.chain = NoPem THEN certificateObject
                            ELSE certPem.chain
    /\ UNCHANGED <<deviceVars, step, args, certPem, reply>>

(* getSingleMeasurement and processMeasurementData for the next index.     *)
(* libspdm_get_measurement is not given the nonce; index 0 asks for the    *)
(* number of measurements and contributes nothing.                         *)
GetSingleMeasurement ==
    /\ step = "measure" /\ todo # <<>>
    /\ todo' = Tail(todo)
    /\ allMeasurements' =
           IF Head(todo) = 0 THEN allMeasurements
           ELSE Append(allMeasurements, [index |-> AsByte(Head(todo)),
                                         slot |-> AsByte(args.slot), nonce |-> "none"])
    /\ UNCHANGED <<deviceVars, certificateObject, step, args, certPem, reply>>

MeasurementsDone ==
    /\ step = "measure" /\ todo = <<>>
    /\ step' = "publish"
    /\ UNCHANGED <<deviceVars, certificateObject, callVars, reply>>

(* Variant: the Certificate object created once and never updated. *)
UpdateCertificateOnce ==
    /\ step = "publish" /\ certPem.chain # NoPem
    /\ certificateObject' = IF certificateObject = "none" THEN certPem.chain
                            ELSE certificateObject
    /\ reply' = [kind |-> "complete", args |-> args, cert |-> certPem,
                 measured |-> allMeasurements]
    /\ step' = "idle"
    /\ args' = NoArgs /\ certPem' = NoPemYet
    /\ todo' = <<>> /\ allMeasurements' = <<>>
    /\ UNCHANGED deviceVars

(* Variant: an empty PEM text published like any other. *)
UpdateCertificateUnchecked ==
    /\ step = "publish"
    /\ certificateObject' = certPem.chain
    /\ reply' = [kind |-> "complete", args |-> args, cert |-> certPem,
                 measured |-> allMeasurements]
    /\ step' = "idle"
    /\ args' = NoArgs /\ certPem' = NoPemYet
    /\ todo' = <<>> /\ allMeasurements' = <<>>
    /\ UNCHANGED deviceVars

(* updateCertificateObject, which throws on an empty PEM text, and the     *)
(* complete reply.                                                         *)
UpdateCertificateObject ==
    /\ step = "publish" /\ certPem.chain # NoPem
    /\ certificateObject' = certPem.chain
    /\ reply' = [kind |-> "complete", args |-> args, cert |-> certPem,
                 measured |-> allMeasurements]
    /\ step' = "idle"
    /\ args' = NoArgs /\ certPem' = NoPemYet
    /\ todo' = <<>> /\ allMeasurements' = <<>>
    /\ UNCHANGED deviceVars

(* An exchange fails (an error of libspdm, a slot without a certificate, a *)
(* chain too short or without one) and its exception is caught.            *)
StepFails ==
    /\ \/ step \in {"connect", "digests", "certificate"}
       \/ step = "measure" /\ todo # <<>>
       \/ step = "publish" /\ certPem.chain = NoPem
    /\ ReplyEmpty

-----------------------------------------------------------------------------
(* The device is given another certificate chain, at any time. *)
Provision(s, c) ==
    /\ provisioned[s] # c
    /\ provisioned' = [provisioned EXCEPT ![s] = c]
    /\ UNCHANGED <<certificateObject, step, callVars, reply>>

MethodCall ==
    \/ \E a \in Args : Call(a)
    \/ InitializeSpdmConnection \/ GetCertificateDigests \/ GetCertificate
    \/ GetSingleMeasurement \/ MeasurementsDone \/ UpdateCertificateObject
    \/ StepFails

Next ==
    \/ MethodCall
    \/ \E s \in DeviceSlots, c \in Chains : Provision(s, c)

Spec == Init /\ [][Next]_vars

-----------------------------------------------------------------------------
(* Properties. *)

(* What a client of the method sees of this module. *)
Service == INSTANCE MeasurementService WITH
    Requests <- Args,
    NoRequest <- NoArgs,
    Slots <- DeviceSlots,
    shown <- certificateObject,
    call <- IF step = "idle" THEN <<>> ELSE <<args>>,
    fetched <- certPem.chain,
    answer <- [kind |-> reply.kind, request |-> reply.args, chain |-> reply.cert.chain,
               measured |-> [i \in 1 .. Len(reply.measured) |->
                                <<reply.measured[i].index, reply.measured[i].slot>>]]

(* Though it runs through many exchanges, any of which fails, while the    *)
(* device is given other certificates, the method is one call to its       *)
(* client: it hands over everything or nothing, and the Certificate object *)
(* changes with a complete reply only (method_call).  Whether a call that  *)
(* hands over nothing is an error to its client, as the header documents,  *)
(* or an empty reply, as here, MeasurementService leaves open.             *)
ImplementsService == Service!Spec

(* A call gets past validation exactly when its indices are requestable,   *)
(* however the three helpers share the work                                *)
(* (validateMeasurementIndices).                                           *)
ValidationExact ==
    [][\A a \in Args : Call(a) => (step' # "idle" <=> Service!Requestable(a.indices))]_vars

(* A complete reply carries a measurement for every index asked for, in    *)
(* the order asked, none altered by the cast to a byte, all from the slot  *)
(* whose certificate it carries; a call of which one exchange failed       *)
(* leaves no partial reply (method_call, getSignedMeasurements).           *)
AllOrNothing ==
    /\ reply.kind = "complete" =>
        /\ [i \in 1 .. Len(reply.measured) |-> reply.measured[i].index] = Service!Asked(reply.args.indices)
        /\ \A i \in 1 .. Len(reply.measured) : reply.measured[i].slot = reply.cert.slot
    /\ reply.kind = "empty" => reply.measured = <<>> /\ reply.cert = NoPemYet

(* The Certificate object a complete reply names shows the certificate the *)
(* reply carries, as long as no other call has completed.                  *)
CertificatePublished ==
    reply.kind = "complete" => certificateObject = reply.cert.chain

(* component_integrity_dbus.cpp:262 says of the nonce: "Nonce for          *)
(* freshness": a measurement in the reply was made for the caller's nonce. *)
NonceForFreshness ==
    reply.kind = "complete" =>
        \A i \in 1 .. Len(reply.measured) : reply.measured[i].nonce = reply.args.nonce

=============================================================================
