---------------------- MODULE ComponentIntegrityProofs ----------------------
(***************************************************************************)
(* Proofs about ComponentIntegrity, for every set of indices, slot ids,    *)
(* nonces and certificate chains and every number of indices of a call.    *)
(***************************************************************************)
EXTENDS ComponentIntegrity, SequenceTheorems, FiniteSetTheorems, TLAPS

(* The list getSignedMeasurements runs through.                            *)
Plan(a) == IF a.indices = <<>> THEN <<255>> ELSE a.indices

(* What the code relies on once validation is behind it: the list is index *)
(* 0 alone, or holds only values that a byte takes unchanged.              *)
Plannable(s) == s = <<0>> \/ \A i \in 1 .. Len(s) : s[i] \in 1 .. 255

(* Measured and still to do make the list; what is measured is measured    *)
(* in order, with the index asked for, from the slot of the certificate.   *)
Halfway ==
    /\ \/ Plan(args) = <<0>> /\ allMeasurements = <<>> /\ todo \in {<<0>>, <<>>}
       \/ /\ \A i \in 1 .. Len(Plan(args)) : Plan(args)[i] \in 1 .. 255
          /\ Len(allMeasurements) + Len(todo) = Len(Plan(args))
          /\ \A i \in 1 .. Len(allMeasurements) :
                 allMeasurements[i].index = Plan(args)[i]
          /\ \A i \in 1 .. Len(todo) :
                 todo[i] = Plan(args)[Len(allMeasurements) + i]
    /\ \A i \in 1 .. Len(allMeasurements) :
           allMeasurements[i].slot = AsByte(args.slot)
    /\ certPem.slot = AsByte(args.slot)

CallInv ==
    /\ step # "idle" => args \in Args /\ Plannable(Plan(args))
    /\ step \in {"idle", "connect", "digests", "certificate"} => allMeasurements = <<>>
    /\ step \in {"measure", "publish"} => Halfway
    /\ step = "publish" => todo = <<>>
    /\ step \in {"idle", "connect", "digests", "certificate"} => certPem = NoPemYet
    /\ step \in {"measure", "publish"} => certPem.chain # "none"

MInv == TypeOK /\ CallInv /\ AllOrNothing /\ CertificatePublished

-----------------------------------------------------------------------------
(* Arguments and bytes. *)

LEMMA ArgsAreSequences ==
    ASSUME NEW a \in Args
    PROVE  a.indices \in Seq(Nat) /\ a.slot \in Nat /\ a.slot \in SlotIds
  <1>1. a.indices \in BoundedSeq(Indices, MaxIndices) /\ a.slot \in SlotIds
    BY DEF Args
  <1>2. PICK m \in 0 .. MaxIndices : a.indices \in [1 .. m -> Indices]
    BY <1>1 DEF BoundedSeq, SeqOf
  <1>3. m \in Nat
    BY RangesAssumption
  <1>4. a.indices \in [1 .. m -> Nat]
    BY <1>2, RangesAssumption
  <1>5. a.indices \in Seq(Nat)
    BY <1>3, <1>4
  <1> QED
    BY <1>1, <1>5, RangesAssumption

LEMMA ByteIsByte ==
    ASSUME NEW n \in Nat
    PROVE  AsByte(n) \in 0 .. 255 /\ (n \in 0 .. 255 => AsByte(n) = n)
  BY DEF AsByte

(* Validation accepts exactly what is requestable: counting the distinct   *)
(* values is the same as comparing every pair of positions.                *)
LEMMA DuplicatesCounted ==
    ASSUME NEW s \in Seq(Nat)
    PROVE  HasDuplicate(s) <=> \E i, j \in 1 .. Len(s) : i # j /\ s[i] = s[j]
  <1> DEFINE T == {s[i] : i \in 1 .. Len(s)}
  <1>1. Len(s) \in Nat /\ s \in [1 .. Len(s) -> Nat] /\ DOMAIN s = 1 .. Len(s)
    BY LenProperties
  <1>2. IsFiniteSet(1 .. Len(s)) /\ Cardinality(1 .. Len(s)) = Len(s)
    <2>1. /\ IsFiniteSet(1 .. Len(s))
          /\ Cardinality(1 .. Len(s)) = IF 1 > Len(s) THEN 0 ELSE Len(s) - 1 + 1
      BY <1>1, FS_Interval
    <2> QED
      BY <1>1, <2>1
  <1>3. s \in [1 .. Len(s) -> T]
    BY <1>1
  <1>4. s \in Surjection(1 .. Len(s), T)
    BY <1>3 DEF Surjection
  <1>5. Cardinality(T) = Len(s) <=> s \in Injection(1 .. Len(s), T)
    <2> HIDE DEF T
    <2> QED
      BY <1>2, <1>4, FS_Surjection
  <1>6. s \in Injection(1 .. Len(s), T) <=> \A i, j \in 1 .. Len(s) : s[i] = s[j] => i = j
    BY <1>1, <1>3 DEF Injection, IsInjective
  <1> QED
    BY <1>5, <1>6 DEF HasDuplicate

LEMMA AcceptedIsRequestable ==
    ASSUME NEW s \in Seq(Nat)
    PROVE  Accepted(s) <=> Service!Requestable(s)
  <1>1. Len(s) \in Nat /\ \A i \in 1 .. Len(s) : s[i] \in Nat
    BY LenProperties, ElementOfSeq
  <1>2. (Len(s) = 1 /\ s[1] \in {0, 255}) <=> s \in {<<0>>, <<255>>}
    <2>1. ASSUME Len(s) = 1, s[1] \in {0, 255} PROVE s \in {<<0>>, <<255>>}
      <3>1. <<s[1]>> \in Seq(Nat) /\ Len(<<s[1]>>) = 1 /\ <<s[1]>>[1] = s[1]
        BY <2>1
      <3>2. s = <<s[1]>>
        BY <1>1, <2>1, <3>1, SeqEqual
      <3> QED
        BY <2>1, <3>2
    <2> QED
      BY <2>1
  <1>3. HasInvalidIndex(s) <=> ~ \A i \in 1 .. Len(s) : s[i] \in 1 .. 254
    <2>1. ASSUME NEW n \in Nat PROVE n \in 1 .. 254 <=> ~(n < 1 \/ n > 254)
      OBVIOUS
    <2>2. \A i \in 1 .. Len(s) : s[i] \in 1 .. 254 <=> ~(s[i] < 1 \/ s[i] > 254)
      BY <1>1, <2>1
    <2> QED
      BY <2>2, Zenon DEF HasInvalidIndex
  <1>4. MixesSpecialValues(s) => HasInvalidIndex(s)
    <2>1. ASSUME NEW i \in 1 .. Len(s), s[i] = 0 PROVE HasInvalidIndex(s)
      BY <2>1 DEF HasInvalidIndex
    <2>2. ASSUME NEW i \in 1 .. Len(s), s[i] = 255 PROVE HasInvalidIndex(s)
      BY <2>2 DEF HasInvalidIndex
    <2> QED
      BY <2>1, <2>2 DEF MixesSpecialValues
  <1>5. HasDuplicate(s) <=> \E i, j \in 1 .. Len(s) : i # j /\ s[i] = s[j]
    BY DuplicatesCounted
  <1> QED
    BY <1>2, <1>3, <1>4, <1>5 DEF Accepted, Service!Requestable

LEMMA AcceptedIsPlannable ==
    ASSUME NEW a \in Args, Accepted(a.indices)
    PROVE  Plannable(Plan(a))
  <1>1. Service!Requestable(a.indices)
    BY AcceptedIsRequestable, ArgsAreSequences
  <1>2. CASE a.indices = <<>> \/ a.indices = <<255>>
    <2>1. Plan(a) = <<255>>
      BY <1>2 DEF Plan
    <2> QED
      BY <2>1 DEF Plannable
  <1>3. CASE a.indices = <<0>>
    BY <1>3 DEF Plan, Plannable
  <1>4. CASE \A i \in 1 .. Len(a.indices) : a.indices[i] \in 1 .. 254
    <2>1. CASE a.indices = <<>>
      BY <1>2, <2>1
    <2>2. CASE a.indices # <<>>
      BY <1>4, <2>2 DEF Plan, Plannable
    <2> QED
      BY <2>1, <2>2
  <1> QED
    BY <1>1, <1>2, <1>3, <1>4 DEF Service!Requestable

-----------------------------------------------------------------------------
LEMMA MInitial == Init => MInv
  <1> SUFFICES ASSUME Init PROVE MInv
    OBVIOUS
  <1> USE DEF Init, NoReply, NoPemYet, NoArgs
  <1>1. certPem \in [chain : Chains, slot : 0 .. 255]
    BY DEF Chains
  <1>2. TypeOK
    BY <1>1 DEF TypeOK
  <1>3. CallInv /\ AllOrNothing /\ CertificatePublished
    BY DEF CallInv, AllOrNothing, CertificatePublished
  <1> QED
    BY <1>2, <1>3 DEF MInv

(* A call that ends early leaves nothing behind.                           *)
LEMMA EmptyPreserves == MInv /\ ReplyEmpty => MInv'
  <1> SUFFICES ASSUME MInv, ReplyEmpty PROVE MInv'
    OBVIOUS
  <1> USE DEF ReplyEmpty, deviceVars
  <1>1. NoPemYet \in [chain : Chains, slot : 0 .. 255]
    BY DEF Chains, NoPemYet
  <1>2. TypeOK'
    BY <1>1 DEF MInv, TypeOK
  <1>3. CallInv' /\ AllOrNothing' /\ CertificatePublished'
    BY DEF CallInv, AllOrNothing, CertificatePublished
  <1> QED
    BY <1>2, <1>3 DEF MInv

LEMMA CallPreserves == ASSUME MInv, NEW a \in Args, Call(a) PROVE MInv'
  <1>1. CASE ~Accepted(a.indices)
    BY <1>1, EmptyPreserves DEF Call
  <1>2. CASE Accepted(a.indices)
    <2> USE <1>2 DEF Call, deviceVars
    <2>1. TypeOK'
      BY DEF MInv, TypeOK
    <2>2. CallInv'
      BY AcceptedIsPlannable DEF MInv, CallInv
    <2>3. AllOrNothing' /\ CertificatePublished'
      BY DEF MInv, AllOrNothing, CertificatePublished
    <2> QED
      BY <2>1, <2>2, <2>3 DEF MInv
  <1> QED
    BY <1>1, <1>2

LEMMA ConnectPreserves ==
    MInv /\ (InitializeSpdmConnection \/ GetCertificateDigests) => MInv'
  <1> SUFFICES ASSUME MInv, InitializeSpdmConnection \/ GetCertificateDigests
               PROVE  MInv'
    OBVIOUS
  <1> USE DEF InitializeSpdmConnection, GetCertificateDigests, deviceVars, callVars
  <1>1. TypeOK'
    BY DEF MInv, TypeOK
  <1>2. CallInv'
    BY DEF MInv, CallInv
  <1>3. AllOrNothing' /\ CertificatePublished'
    BY DEF MInv, AllOrNothing, CertificatePublished
  <1> QED
    BY <1>1, <1>2, <1>3 DEF MInv

LEMMA GetCertificatePreserves == MInv /\ GetCertificate => MInv'
  <1> SUFFICES ASSUME MInv, GetCertificate PROVE MInv'
    OBVIOUS
  <1> USE DEF GetCertificate, deviceVars
  <1>1. /\ args \in Args /\ Plannable(Plan(args)) /\ allMeasurements = <<>>
        /\ args.indices \in Seq(Nat) /\ args.slot \in Nat /\ args.slot \in SlotIds
    BY ArgsAreSequences DEF MInv, CallInv
  <1>2. AsByte(args.slot) \in 0 .. 255 /\ AsByte(args.slot) \in DeviceSlots
    BY <1>1, ByteIsByte DEF DeviceSlots
  <1>3. certPem' \in [chain : Chains, slot : 0 .. 255]
    BY <1>2 DEF MInv, TypeOK
  <1>4. todo' = Plan(args) /\ todo' \in Seq(Nat)
    BY <1>1 DEF Plan
  <1>5. TypeOK'
    BY <1>3, <1>4 DEF MInv, TypeOK
  <1>6. Halfway'
    <2>1. /\ args' = args /\ allMeasurements' = <<>> /\ certPem'.slot = AsByte(args.slot)
          /\ Plan(args)' = Plan(args) /\ Len(todo') \in Nat
      BY <1>1, <1>4 DEF Plan
    <2>2. CASE Plan(args) = <<0>>
      BY <1>4, <2>1, <2>2 DEF Halfway
    <2>3. CASE \A i \in 1 .. Len(Plan(args)) : Plan(args)[i] \in 1 .. 255
      BY <1>4, <2>1, <2>3 DEF Halfway
    <2> QED
      BY <1>1, <2>2, <2>3 DEF Plannable
  <1>7. CallInv'
    BY <1>1, <1>6 DEF CallInv, Plan
  <1>8. AllOrNothing' /\ CertificatePublished'
    BY DEF MInv, AllOrNothing, CertificatePublished
  <1> QED
    BY <1>5, <1>7, <1>8 DEF MInv

LEMMA MeasurementPreserves == MInv /\ GetSingleMeasurement => MInv'
  <1> SUFFICES ASSUME MInv, GetSingleMeasurement PROVE MInv'
    OBVIOUS
  <1> DEFINE m == [index |-> AsByte(Head(todo)), slot |-> AsByte(args.slot),
                   nonce |-> "none"]
  <1>1. /\ step = "measure" /\ todo # <<>> /\ todo' = Tail(todo)
        /\ allMeasurements' = IF Head(todo) = 0 THEN allMeasurements
                              ELSE Append(allMeasurements, m)
        /\ UNCHANGED <<provisioned, certificateObject, step, args, certPem, reply>>
    BY DEF GetSingleMeasurement, deviceVars
  <1>2. /\ args \in Args /\ Halfway /\ Plannable(Plan(args))
        /\ args.slot \in Nat /\ certPem.chain # "none"
    BY <1>1, ArgsAreSequences DEF MInv, CallInv
  <1>3. /\ todo \in Seq(Nat) /\ Len(todo) \in Nat /\ Len(todo) >= 1
        /\ Head(todo) = todo[1] /\ Head(todo) \in Nat
        /\ Tail(todo) \in Seq(Nat) /\ Len(Tail(todo)) = Len(todo) - 1
        /\ \A i \in 1 .. Len(todo) - 1 : Tail(todo)[i] = todo[i + 1]
    BY <1>1, HeadTailProperties DEF MInv, TypeOK
  <1>4. AsByte(Head(todo)) \in 0 .. 255 /\ AsByte(args.slot) \in 0 .. 255
    BY <1>2, <1>3, ByteIsByte
  <1>5. m \in Measurement
    BY <1>4 DEF Measurement
  <1>6. /\ allMeasurements \in Seq(Measurement) /\ Len(allMeasurements) \in Nat
        /\ Append(allMeasurements, m) \in Seq(Measurement)
        /\ Len(Append(allMeasurements, m)) = Len(allMeasurements) + 1
        /\ \A i \in 1 .. Len(allMeasurements) :
               Append(allMeasurements, m)[i] = allMeasurements[i]
        /\ Append(allMeasurements, m)[Len(allMeasurements) + 1] = m
    <2> HIDE DEF m
    <2>1. allMeasurements \in Seq(Measurement)
      BY DEF MInv, TypeOK
    <2> QED
      BY <1>5, <2>1, AppendProperties, LenProperties
  <1>7. TypeOK'
    BY <1>1, <1>3, <1>6 DEF MInv, TypeOK
  <1>8. Plan(args)' = Plan(args)
    BY <1>1 DEF Plan
  <1>9. Halfway'
    <2>1. CASE Plan(args) = <<0>> /\ allMeasurements = <<>> /\ todo \in {<<0>>, <<>>}
      <3>1. todo = <<0>>
        BY <1>1, <2>1
      <3>2. allMeasurements' = <<>> /\ todo' = <<>>
        BY <1>1, <2>1, <3>1
      <3> QED
        BY <1>1, <1>2, <1>8, <2>1, <3>2 DEF Halfway
    <2>2. CASE /\ \A i \in 1 .. Len(Plan(args)) : Plan(args)[i] \in 1 .. 255
               /\ Len(allMeasurements) + Len(todo) = Len(Plan(args))
               /\ \A i \in 1 .. Len(allMeasurements) :
                      allMeasurements[i].index = Plan(args)[i]
               /\ \A i \in 1 .. Len(todo) :
                      todo[i] = Plan(args)[Len(allMeasurements) + i]
      <3> DEFINE k == Len(allMeasurements)
      <3>1. k + 1 \in 1 .. Len(Plan(args)) /\ Head(todo) = Plan(args)[k + 1]
        <4>1. k \in Nat
          BY <1>6
        <4>2. k + 1 \in 1 .. Len(Plan(args))
          BY <4>1, <1>3, <2>2
        <4>3. 1 \in 1 .. Len(todo)
          BY <1>3
        <4>4. todo[1] = Plan(args)[k + 1]
          BY <2>2, <4>3
        <4> QED
          BY <1>3, <4>2, <4>4
      <3>2. Head(todo) \in 1 .. 255
        BY <2>2, <3>1
      <3>3. m.index = Head(todo)
        <4>1. AsByte(Head(todo)) = Head(todo)
          BY <1>3, <3>2, ByteIsByte
        <4> QED
          BY <4>1
      <3>4. allMeasurements' = Append(allMeasurements, m)
        <4>1. Head(todo) # 0
          BY <3>2
        <4> HIDE DEF m
        <4> QED
          BY <1>1, <4>1
      <3>5. Len(allMeasurements') = k + 1 /\ Len(todo') = Len(todo) - 1
        BY <1>1, <1>3, <1>6, <3>4
      <3>6. \A i \in 1 .. Len(allMeasurements') : i \in 1 .. k \/ i = k + 1
        BY <1>6, <3>5
      <3>7. \A i \in 1 .. Len(allMeasurements') :
                allMeasurements'[i].index = Plan(args)[i]
        BY <1>6, <2>2, <3>1, <3>3, <3>4, <3>6
      <3>8. \A i \in 1 .. Len(todo') :
                todo'[i] = Plan(args)[Len(allMeasurements') + i]
        <4> TAKE i \in 1 .. Len(todo')
        <4>1. i + 1 \in 1 .. Len(todo) /\ i \in 1 .. Len(todo) - 1
          BY <1>3, <3>5
        <4>2. todo'[i] = todo[i + 1]
          BY <1>1, <1>3, <4>1
        <4>3. todo[i + 1] = Plan(args)[k + (i + 1)]
          BY <2>2, <4>1
        <4>4. k + (i + 1) = Len(allMeasurements') + i
          BY <1>6, <3>5, <4>1, <1>3
        <4> QED
          BY <4>2, <4>3, <4>4
      <3>9. \A i \in 1 .. Len(allMeasurements') :
                allMeasurements'[i].slot = AsByte(args.slot)
        BY <1>2, <1>6, <3>4, <3>6 DEF Halfway
      <3>10. Len(allMeasurements') + Len(todo') = Len(Plan(args))
        <4>1. Len(allMeasurements) \in Nat /\ Len(todo) \in Nat
          BY <1>3, <1>6
        <4> QED
          BY <4>1, <2>2, <3>5
      <3> QED
        BY <1>1, <1>2, <1>8, <2>2, <3>7, <3>8, <3>9, <3>10 DEF Halfway
    <2> QED
      BY <1>2, <2>1, <2>2 DEF Halfway
  <1>10. CallInv'
    BY <1>1, <1>2, <1>8, <1>9 DEF CallInv
  <1>11. AllOrNothing' /\ CertificatePublished'
    BY <1>1 DEF MInv, AllOrNothing, CertificatePublished
  <1> QED
    BY <1>7, <1>10, <1>11 DEF MInv

LEMMA MeasurementsDonePreserves == MInv /\ MeasurementsDone => MInv'
  <1> SUFFICES ASSUME MInv, MeasurementsDone PROVE MInv'
    OBVIOUS
  <1> USE DEF MeasurementsDone, deviceVars, callVars
  <1>1. TypeOK'
    BY DEF MInv, TypeOK
  <1>2. CallInv'
    BY DEF MInv, CallInv, Halfway, Plan
  <1>3. AllOrNothing' /\ CertificatePublished'
    BY DEF MInv, AllOrNothing, CertificatePublished
  <1> QED
    BY <1>1, <1>2, <1>3 DEF MInv

(* The complete reply: everything measured, nothing left to do.            *)
LEMMA PublishPreserves == MInv /\ UpdateCertificateObject => MInv'
  <1> SUFFICES ASSUME MInv, UpdateCertificateObject PROVE MInv'
    OBVIOUS
  <1> USE DEF UpdateCertificateObject, deviceVars
  <1>1. args \in Args /\ Halfway /\ todo = <<>>
    BY DEF MInv, CallInv
  <1>2. certPem.chain \in Certs \cup {"none"}
    BY DEF MInv, TypeOK, Chains
  <1>3. NoPemYet \in [chain : Chains, slot : 0 .. 255]
    BY DEF Chains, NoPemYet
  <1>4. TypeOK'
    BY <1>2, <1>3 DEF MInv, TypeOK
  <1>5. CallInv'
    BY DEF CallInv
  <1>6. [i \in 1 .. Len(allMeasurements) |-> allMeasurements[i].index] = Service!Asked(args.indices)
    <2>1. args.indices \in Seq(Nat)
      BY <1>1, ArgsAreSequences
    <2>2. CASE Plan(args) = <<0>> /\ allMeasurements = <<>>
      <3>1. args.indices = <<0>>
        BY <2>2 DEF Plan
      <3>2. Service!Asked(args.indices) = <<>>
        BY <3>1 DEF Service!Asked
      <3>3. Len(allMeasurements) = 0 /\ 1 .. 0 = {}
        BY <2>2
      <3>4. [i \in 1 .. Len(allMeasurements) |-> allMeasurements[i].index] = <<>>
        BY <3>3
      <3> QED
        BY <3>2, <3>4
    <2>3. CASE /\ \A i \in 1 .. Len(Plan(args)) : Plan(args)[i] \in 1 .. 255
               /\ Len(allMeasurements) + Len(todo) = Len(Plan(args))
               /\ \A i \in 1 .. Len(allMeasurements) :
                      allMeasurements[i].index = Plan(args)[i]
      <3>1. Service!Asked(args.indices) = Plan(args)
        <4>1. ASSUME args.indices = << 0 >> PROVE FALSE
          <5>1. Plan(args) = <<0>>
            BY <4>1 DEF Plan
          <5>2. Len(<<0>>) = 1 /\ <<0>>[1] = 0
            OBVIOUS
          <5>3. 1 \in 1 .. Len(Plan(args))
            BY <5>1, <5>2
          <5>4. Plan(args)[1] \in 1 .. 255
            BY <2>3, <5>3
          <5> QED
            BY <5>1, <5>2, <5>4
        <4> QED
          BY <4>1 DEF Service!Asked, Plan
      <3>2. Plan(args) \in Seq(Nat) /\ Len(Plan(args)) \in Nat
        BY <2>1 DEF Plan
      <3>3. Len(allMeasurements) = Len(Plan(args))
        BY <1>1, <2>3, <3>2, LenProperties DEF MInv, TypeOK
      <3>4. Plan(args) = [i \in 1 .. Len(Plan(args)) |-> Plan(args)[i]]
        BY <3>2
      <3> QED
        BY <2>3, <3>1, <3>3, <3>4
    <2> QED
      BY <1>1, <2>2, <2>3 DEF Halfway
  <1>7. AllOrNothing'
    BY <1>1, <1>6 DEF AllOrNothing, Halfway
  <1>8. CertificatePublished'
    BY DEF CertificatePublished
  <1> QED
    BY <1>4, <1>5, <1>7, <1>8 DEF MInv

LEMMA ProvisionPreserves ==
    ASSUME MInv, NEW s \in DeviceSlots, NEW c \in Chains, Provision(s, c)
    PROVE  MInv'
  <1> USE DEF Provision, callVars
  <1>1. provisioned' \in [DeviceSlots -> Chains]
    BY DEF MInv, TypeOK
  <1>2. TypeOK'
    BY <1>1 DEF MInv, TypeOK
  <1>3. CallInv'
    BY DEF MInv, CallInv, Halfway, Plan
  <1>4. AllOrNothing' /\ CertificatePublished'
    BY DEF MInv, AllOrNothing, CertificatePublished
  <1> QED
    BY <1>2, <1>3, <1>4 DEF MInv

LEMMA MStep == MInv /\ [Next]_vars => MInv'
  <1> SUFFICES ASSUME MInv, [Next]_vars PROVE MInv'
    OBVIOUS
  <1>1. CASE UNCHANGED vars
    <2> USE <1>1 DEF vars
    <2>1. TypeOK'
      BY DEF MInv, TypeOK
    <2>2. CallInv'
      BY DEF MInv, CallInv, Halfway, Plan
    <2>3. AllOrNothing' /\ CertificatePublished'
      BY DEF MInv, AllOrNothing, CertificatePublished
    <2> QED
      BY <2>1, <2>2, <2>3 DEF MInv
  <1>2. CASE MethodCall
    <2>1. StepFails => MInv'
      BY EmptyPreserves DEF StepFails
    <2> QED
      BY <1>2, <2>1, CallPreserves, ConnectPreserves, GetCertificatePreserves,
         MeasurementPreserves, MeasurementsDonePreserves, PublishPreserves DEF MethodCall
  <1>3. CASE \E s \in DeviceSlots, c \in Chains : Provision(s, c)
    BY <1>3, ProvisionPreserves
  <1> QED
    BY <1>1, <1>2, <1>3 DEF Next

-----------------------------------------------------------------------------
(* What holds of a call of SPDMGetSignedMeasurements at every step.        *)
THEOREM MeasurementInvariant == Spec => []MInv
  BY MInitial, MStep, PTL DEF Spec

(* Every variable keeps its type.                                          *)
THEOREM MeasurementTypeCorrect == Spec => []TypeOK
  BY MeasurementInvariant, PTL DEF MInv

(* A reply is complete, in order and from one slot, or empty.              *)
THEOREM RepliesAllOrNothing == Spec => []AllOrNothing
  BY MeasurementInvariant, PTL DEF MInv

(* The Certificate object a complete reply names shows its certificate.    *)
THEOREM CertificateIsPublished == Spec => []CertificatePublished
  BY MeasurementInvariant, PTL DEF MInv

(* A call passes validation exactly when its indices are requestable, for  *)
(* lists of any length over any values.                                    *)
THEOREM ValidationIsExact == Spec => ValidationExact
  <1>1. ASSUME NEW a \in Args, Call(a)
        PROVE  step' # "idle" <=> Service!Requestable(a.indices)
    <2>1. Accepted(a.indices) <=> Service!Requestable(a.indices)
      BY AcceptedIsRequestable, ArgsAreSequences
    <2>2. step' # "idle" <=> Accepted(a.indices)
      BY <1>1 DEF Call, ReplyEmpty
    <2> QED
      BY <2>1, <2>2
  <1>2. [\A a \in Args : Call(a) => (step' # "idle" <=> Service!Requestable(a.indices))]_vars
    BY <1>1
  <1> QED
    BY <1>2, PTL DEF ValidationExact

-----------------------------------------------------------------------------
(* The method as one call. *)

(* What the mapping makes of the state of the method. *)
LEMMA CallIs ==
    ASSUME NEW c, NEW d
    PROVE  <<c>> # <<>> /\ (<<c>> = <<d>> <=> c = d)
  OBVIOUS

LEMMA EmptyGivesUp ==
    ASSUME MInv, ReplyEmpty, step # "idle"
    PROVE  Service!GiveUp
  BY CallIs DEF ReplyEmpty, deviceVars, NoPemYet, Service!GiveUp, Service!Refusals,
     Service!Nothing

LEMMA CallIsOne ==
    ASSUME MInv, NEW a \in Args, Call(a)
    PROVE  Service!Accept(a) \/ Service!Refuse(a)
  <1>1. Accepted(a.indices) <=> Service!Requestable(a.indices)
    BY AcceptedIsRequestable, ArgsAreSequences
  <1>2. CASE Accepted(a.indices)
    BY <1>1, <1>2 DEF Call, deviceVars, Service!Accept
  <1>3. CASE ~Accepted(a.indices)
    BY <1>1, <1>3 DEF MInv, CallInv, Call, ReplyEmpty, deviceVars, NoPemYet,
       Service!Refuse, Service!Refusals, Service!Nothing
  <1> QED
    BY <1>2, <1>3

LEMMA GetCertificateFetches ==
    ASSUME MInv, GetCertificate
    PROVE  \E r \in Args : Service!Fetch(r)
  <1>1. /\ step = "certificate" /\ step' = "measure" /\ certPem.chain = "none"
        /\ args \in Args
    BY DEF GetCertificate, MInv, CallInv, NoPemYet
  <1>2. certPem'.chain = provisioned[args.slot % 256] /\ certPem'.chain # "none"
    BY DEF GetCertificate, AsByte
  <1>3. PICK r \in Args : r = args
    BY <1>1
  <1>4. Service!Fetch(r)
    BY <1>1, <1>2, <1>3 DEF GetCertificate, deviceVars, Service!Fetch, Service!Slot
  <1> QED
    BY <1>4

(* A list of indices read off a list of measurements is as long as it. *)
LEMMA IndicesListed ==
    ASSUME NEW s \in Seq(Nat), NEW n \in Nat, NEW ms,
           [i \in 1 .. n |-> ms[i].index] = s
    PROVE  Len(s) = n /\ \A i \in 1 .. n : s[i] = ms[i].index
  <1>1. DOMAIN s = 1 .. Len(s) /\ Len(s) \in Nat
    BY LenProperties
  <1>2. DOMAIN s = 1 .. n
    OBVIOUS
  <1>3. Len(s) = n
    BY <1>1, <1>2
  <1> QED
    BY <1>3

(* The complete reply holds everything asked for. *)
LEMMA PublishCompletes ==
    ASSUME MInv, UpdateCertificateObject
    PROVE  \E r \in Args : Service!Complete(r)
  <1> DEFINE n == Len(allMeasurements)
             asked == Service!Asked(args.indices)
  <1>1. /\ step = "publish" /\ step' = "idle" /\ args \in Args
        /\ reply' = [kind |-> "complete", args |-> args, cert |-> certPem,
                     measured |-> allMeasurements]
        /\ certificateObject' = certPem.chain /\ certPem' = NoPemYet
        /\ provisioned' = provisioned
    BY DEF UpdateCertificateObject, MInv, CallInv, deviceVars
  <1>2. certPem.chain \in Certs
    BY <1>1 DEF UpdateCertificateObject, MInv, CallInv, TypeOK, Chains
  <1>3. /\ [i \in 1 .. n |-> allMeasurements[i].index] = asked
        /\ \A i \in 1 .. n : allMeasurements[i].slot = certPem.slot
    BY <1>1, PublishPreserves DEF MInv, AllOrNothing
  <1>4. certPem.slot = args.slot % 256
    BY <1>1 DEF MInv, CallInv, Halfway, AsByte
  <1>5. n \in Nat
    BY LenProperties DEF MInv, TypeOK
  <1>6. Len(asked) = n /\ \A i \in 1 .. n : asked[i] = allMeasurements[i].index
    <2>1. asked \in Seq(Nat)
      BY <1>1, ArgsAreSequences DEF Service!Asked
    <2> HIDE DEF asked
    <2> QED
      BY <1>3, <1>5, <2>1, IndicesListed
  <1>7. [i \in 1 .. n |-> <<allMeasurements[i].index, allMeasurements[i].slot>>] =
        [i \in 1 .. Len(asked) |-> <<asked[i], args.slot % 256>>]
    BY <1>3, <1>4, <1>6
  <1>8. reply'.kind = "complete" /\ reply'.args = args /\ reply'.cert.chain = certPem.chain
        /\ reply'.measured = allMeasurements
    BY <1>1
  <1>9. PICK r \in Args : r = args
    BY <1>1
  <1>10. Service!Complete(r)
    BY <1>1, <1>2, <1>7, <1>8, <1>9
       DEF Service!Complete, Service!Everything, Service!Slot, NoPemYet
  <1> QED
    BY <1>10

LEMMA QuietStep ==
    ASSUME MInv, \/ InitializeSpdmConnection \/ GetCertificateDigests
                 \/ GetSingleMeasurement \/ MeasurementsDone \/ UNCHANGED vars
    PROVE  UNCHANGED Service!vars
  <1>1. UNCHANGED <<provisioned, certificateObject, args, certPem, reply>>
    BY DEF InitializeSpdmConnection, GetCertificateDigests, GetSingleMeasurement,
       MeasurementsDone, vars, deviceVars, callVars
  <1>2. step' = "idle" <=> step = "idle"
    BY DEF InitializeSpdmConnection, GetCertificateDigests, GetSingleMeasurement,
       MeasurementsDone, vars
  <1> QED
    BY <1>1, <1>2 DEF Service!vars

(* The method is one call to its client: everything or nothing, and the    *)
(* Certificate object changes with a complete reply only.  That a call     *)
(* with nothing to hand over ends in an error is not part of it.           *)
THEOREM MethodImplementsService == Spec => ImplementsService
  <1>1. Init => Service!Init
    BY DEF Init, NoReply, NoPemYet, Service!Init, Service!Nothing
  <1>2. MInv /\ [Next]_vars => [Service!Next]_Service!vars
    <2> SUFFICES ASSUME MInv, [Next]_vars PROVE [Service!Next]_Service!vars
      OBVIOUS
    <2>1. ASSUME NEW a \in Args, Call(a) PROVE Service!Next
      BY <2>1, CallIsOne DEF Service!Next
    <2>2. CASE GetCertificate \/ UpdateCertificateObject
      BY <2>2, GetCertificateFetches, PublishCompletes DEF Service!Next
    <2>3. CASE StepFails
      BY <2>3, EmptyGivesUp DEF StepFails, Service!Next
    <2>4. ASSUME NEW s \in DeviceSlots, NEW c \in Chains, Provision(s, c)
          PROVE  Service!Next
      BY <2>4 DEF Provision, callVars, Service!Next, Service!Provision
    <2>5. CASE \/ InitializeSpdmConnection \/ GetCertificateDigests
               \/ GetSingleMeasurement \/ MeasurementsDone \/ UNCHANGED vars
      BY <2>5, QuietStep
    <2> QED
      BY <2>1, <2>2, <2>3, <2>4, <2>5 DEF Next, MethodCall
  <1> QED
    BY <1>1, <1>2, MeasurementInvariant, PTL DEF Spec, ImplementsService, Service!Spec

=============================================================================
