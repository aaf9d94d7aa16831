--------------------------- MODULE DiscoveryProofs ---------------------------
(***************************************************************************)
(* Proofs about Discovery, for every set of object paths and whatever the  *)
(* objects of the two trees look like: the answer is given at most once,   *)
(* it is complete and correctly attributed, and the contract is kept.      *)
(***************************************************************************)
EXTENDS Discovery, WellFoundedInduction, TLAPS

(* The addresses of the devices of S found at path p. *)
Reported(S, p) == {d.address : d \in {e \in S : e.path = p}}

(* Nothing is delivered before the end, and the calls come in order. *)
Order ==
    /\ stage # "done" => delivered = {}
    /\ stage = "mctpd" => protocol = "MCTP"
    /\ stage = "em" /\ protocol = "MCTP" => owner = "then"
    /\ \A d \in found : d.name = NoName

(* What the second call's callback captured about unchanged endpoints is   *)
(* still true.                                                             *)
FoundSteady ==
    stage = "em" /\ protocol = "MCTP" =>
        \A p \in Paths : <<"endpoint", p>> \in steady =>
            Reported(found, p) =
                (IF SpdmEndpoint(endpoints[p]) THEN {endpoints[p].eid} ELSE {})

DInv ==
    /\ TypeOK /\ OneAnswer /\ Order /\ FoundSteady
    /\ SteadyDevicesFound /\ AttributedCorrectly

USE DEF world, build, Pending

-----------------------------------------------------------------------------
(* The operators that turn objects into devices. *)

(* A set of paths has a first one. *)
LEMMA FirstPath ==
    ASSUME NEW S, S \subseteq Paths, S # {}
    PROVE  \E p \in S : \A q \in S : p <= q
<1>1. S \subseteq Nat
  BY PathsAssumption
<1>2. PICK p \in S : \A q \in S : ~ (<<q, p>> \in OpToRel(<, Nat))
  BY <1>1, WFMin, NatLessThanWellFounded
<1>3. \A q \in S : ~ (q < p)
  BY <1>1, <1>2 DEF OpToRel
<1>. QED
  BY <1>1, <1>3

(* What fits the integers of the code. *)
LEMMA Widths ==
    /\ \A n \in uint8_t : n \in uint16_t /\ n \in Nat
    /\ \A n \in Nat : ToUint16(n) \in uint16_t
<1>1. ASSUME NEW n \in uint8_t PROVE n \in uint16_t
  BY SMT DEF uint8_t, uint16_t
<1>2. ASSUME NEW n \in uint8_t PROVE n \in Nat
  BY SMT DEF uint8_t
<1>3. ASSUME NEW n \in Nat PROVE ToUint16(n) \in uint16_t
  BY SMT DEF uint16_t, ToUint16
<1>. QED
  BY <1>1, <1>2, <1>3

(* An endpoint becomes a device exactly when it is a usable one, with its  *)
(* EID as the address, which is a byte other than the invalid one.         *)
LEMMA EndpointAddress ==
    ASSUME NEW o \in EndpointObjects, SpdmEndpoint(o)
    PROVE  extractEid(o) = o.eid /\ o.eid \in uint16_t /\ o.eid \in uint8_t \ {invalid_eid}
<1>1. o \in [spdm : BOOLEAN, eid : uint8_t \cup {Missing}, uuid : BOOLEAN]
  BY EndpointAssumption, Zenon
<1>1a. o.eid \in uint8_t \cup {Missing}
  BY <1>1, Zenon
<1>2. o.eid # Missing
  BY Zenon DEF SpdmEndpoint, extractEid
<1>3. extractEid(o) # invalid_eid
  BY Zenon DEF SpdmEndpoint
<1>4. extractEid(o) = o.eid
  BY <1>2, Zenon DEF extractEid
<1>. QED
  BY <1>1a, <1>2, <1>3, <1>4, Widths, Zenon

LEMMA MctpDevicesReported ==
    ASSUME NEW tree \in [Paths -> EndpointObjects]
    PROVE  /\ MctpDevices(tree) \subseteq Responder
           /\ \A d \in MctpDevices(tree) :
                d.name = NoName /\ d.address \in uint8_t \ {invalid_eid}
           /\ \A p \in Paths : Reported(MctpDevices(tree), p) =
                (IF SpdmEndpoint(tree[p]) THEN {tree[p].eid} ELSE {})
<1>. DEFINE device(p) == [path |-> p, name |-> NoName, address |-> extractEid(tree[p])]
<1>0. \A p : /\ device(p).path = p
             /\ device(p).name = NoName
             /\ device(p).address = extractEid(tree[p])
  BY Zenon
<1>1. \A d : d \in MctpDevices(tree) <=>
            \E p \in Paths : SpdmEndpoint(tree[p]) /\ d = device(p)
  BY Zenon DEF MctpDevices
<1>2. \A p \in Paths : SpdmEndpoint(tree[p]) =>
            /\ extractEid(tree[p]) = tree[p].eid /\ tree[p].eid \in uint16_t
            /\ tree[p].eid \in uint8_t \ {invalid_eid}
  BY EndpointAddress, Zenon
<1>3. \A p \in Paths : SpdmEndpoint(tree[p]) => device(p) \in Responder
  BY <1>2, Zenon DEF Responder
<1>. HIDE DEF device
<1>4. ASSUME NEW p \in Paths
      PROVE  Reported(MctpDevices(tree), p) =
                (IF SpdmEndpoint(tree[p]) THEN {tree[p].eid} ELSE {})
  <2>1. \A a : a \in Reported(MctpDevices(tree), p) <=>
            \E d \in MctpDevices(tree) : d.path = p /\ a = d.address
    BY Zenon DEF Reported
  <2>2. CASE SpdmEndpoint(tree[p])
    <3>1. ASSUME NEW a \in Reported(MctpDevices(tree), p) PROVE a = tree[p].eid
      <4>1. PICK d \in MctpDevices(tree) : d.path = p /\ a = d.address
        BY <2>1
      <4>2. PICK q \in Paths : d = device(q)
        BY <1>1
      <4>. QED
        BY <4>1, <4>2, <1>0, <1>2, <2>2
    <3>2. tree[p].eid \in Reported(MctpDevices(tree), p)
      <4>1. device(p) \in MctpDevices(tree)
        BY <1>1, <2>2
      <4>. QED
        BY <4>1, <2>1, <1>0, <1>2, <2>2
    <3>. QED
      BY <3>1, <3>2, <2>2, Zenon
  <2>3. CASE ~ SpdmEndpoint(tree[p])
    <3>1. ASSUME NEW a \in Reported(MctpDevices(tree), p) PROVE FALSE
      <4>1. PICK d \in MctpDevices(tree) : d.path = p
        BY <2>1
      <4>2. PICK q \in Paths : SpdmEndpoint(tree[q]) /\ d = device(q)
        BY <1>1
      <4>. QED
        BY <4>1, <4>2, <1>0, <2>3
    <3>. QED
      BY <3>1, <2>3, Zenon
  <2>. QED
    BY <2>2, <2>3, Zenon
<1>5. MctpDevices(tree) \subseteq Responder
  BY <1>1, <1>3, Zenon
<1>6. ASSUME NEW d \in MctpDevices(tree)
      PROVE  d.name = NoName /\ d.address \in uint8_t \ {invalid_eid}
  <2>1. PICK p \in Paths : SpdmEndpoint(tree[p]) /\ d = device(p)
    BY <1>1
  <2>2. d.name = NoName /\ d.address = extractEid(tree[p])
    BY <1>0, <2>1, Zenon
  <2>. QED
    BY <1>2, <2>1, <2>2, Zenon
<1>. QED
  BY <1>4, <1>5, <1>6, Zenon

(* The transport of a TCP endpoint has a 16-bit port: the low bits of the  *)
(* configured one.                                                         *)
LEMMA TcpDevicesReported ==
    ASSUME NEW tree \in [Paths -> ConfigObjects]
    PROVE  /\ TcpDevices(tree) \subseteq Responder
           /\ \A p \in Paths : Reported(TcpDevices(tree), p) =
                (IF TcpEndpoint(tree[p]) THEN {ToUint16(tree[p].port)} ELSE {})
<1>. DEFINE device(p) == [path |-> p, name |-> p, address |-> ToUint16(tree[p].port)]
<1>0. \A p : device(p).path = p /\ device(p).address = ToUint16(tree[p].port)
  BY Zenon
<1>1. \A d : d \in TcpDevices(tree) <=>
            \E p \in Paths : TcpEndpoint(tree[p]) /\ d = device(p)
  BY Zenon DEF TcpDevices
<1>2. \A p \in Paths : TcpEndpoint(tree[p]) => tree[p].port \in Nat
  BY ConfigAssumption, Zenon DEF TcpEndpoint
<1>3. \A p \in Paths : TcpEndpoint(tree[p]) => device(p) \in Responder
  BY <1>2, Widths, Zenon DEF Responder
<1>. HIDE DEF device
<1>4. ASSUME NEW p \in Paths
      PROVE  Reported(TcpDevices(tree), p) =
                (IF TcpEndpoint(tree[p]) THEN {ToUint16(tree[p].port)} ELSE {})
  <2>1. \A a : a \in Reported(TcpDevices(tree), p) <=>
            \E d \in TcpDevices(tree) : d.path = p /\ a = d.address
    BY Zenon DEF Reported
  <2>2. CASE TcpEndpoint(tree[p])
    <3>1. ASSUME NEW a \in Reported(TcpDevices(tree), p) PROVE a = ToUint16(tree[p].port)
      <4>1. PICK d \in TcpDevices(tree) : d.path = p /\ a = d.address
        BY <2>1
      <4>2. PICK q \in Paths : d = device(q)
        BY <1>1
      <4>. QED
        BY <4>1, <4>2, <1>0
    <3>2. ToUint16(tree[p].port) \in Reported(TcpDevices(tree), p)
      <4>1. device(p) \in TcpDevices(tree)
        BY <1>1, <2>2
      <4>. QED
        BY <4>1, <2>1, <1>0
    <3>. QED
      BY <3>1, <3>2, <2>2, Zenon
  <2>3. CASE ~ TcpEndpoint(tree[p])
    <3>1. ASSUME NEW a \in Reported(TcpDevices(tree), p) PROVE FALSE
      <4>1. PICK d \in TcpDevices(tree) : d.path = p
        BY <2>1
      <4>2. PICK q \in Paths : TcpEndpoint(tree[q]) /\ d = device(q)
        BY <1>1
      <4>. QED
        BY <4>1, <4>2, <1>0, <2>3
    <3>. QED
      BY <3>1, <2>3, Zenon
  <2>. QED
    BY <2>2, <2>3, Zenon
<1>5. TcpDevices(tree) \subseteq Responder
  BY <1>1, <1>3, Zenon
<1>. QED
  BY <1>4, <1>5, Zenon

(* parseSpdmEMConfig touches the name only, and picks the first object     *)
(* that configures the device's EID.                                       *)
LEMMA AttributePicks ==
    ASSUME NEW tree \in [Paths -> ConfigObjects], NEW d \in Responder,
           d.name = NoName
    PROVE  /\ Attribute(d, tree) \in Responder
           /\ Attribute(d, tree).path = d.path
           /\ Attribute(d, tree).address = d.address
           /\ \A p \in Paths :
                /\ Attribute(d, tree).name = p => p \in Matches(d, tree)
                /\ p \in Matches(d, tree) =>
                    Attribute(d, tree).name \in Paths /\ Attribute(d, tree).name <= p
<1>1. CASE Matches(d, tree) = {}
  BY <1>1, PathsAssumption DEF Attribute
<1>2. CASE Matches(d, tree) # {}
  <2>. DEFINE first == CHOOSE p \in Matches(d, tree) : \A q \in Matches(d, tree) : p <= q
  <2>1. Matches(d, tree) \subseteq Paths
    BY DEF Matches
  <2>2. first \in Matches(d, tree) /\ \A q \in Matches(d, tree) : first <= q
    BY <2>1, <1>2, FirstPath
  <2>3. Attribute(d, tree) = [d EXCEPT !.name = first]
    BY <1>2 DEF Attribute
  <2>. HIDE DEF first
  <2>4. first \in Paths
    BY <2>1, <2>2
  <2>5. /\ Attribute(d, tree) \in Responder
        /\ Attribute(d, tree).path = d.path
        /\ Attribute(d, tree).address = d.address
        /\ Attribute(d, tree).name = first
    BY <2>3, <2>4, SMT DEF Responder
  <2>. QED
    BY <2>2, <2>4, <2>5, SMT
<1>. QED
  BY <1>1, <1>2

-----------------------------------------------------------------------------
(* The invariant. *)

LEMMA InitDInv == Init => DInv
  BY DEF Init, DInv, TypeOK, OneAnswer, Order, FoundSteady,
         SteadyDevicesFound, AttributedCorrectly

(* A failure, or a call cut off by the stop, hands over nothing.           *)
LEMMA FailKeepsDInv == DInv /\ Pending /\ Fail => DInv'
<1>. SUFFICES ASSUME DInv, Pending, Fail PROVE DInv'
  OBVIOUS
<1>. USE DEF DInv, Fail, Deliver
<1>1. TypeOK'
  BY DEF TypeOK
<1>2. OneAnswer'
  BY DEF OneAnswer
<1>3. Order' /\ FoundSteady' /\ AttributedCorrectly'
  BY DEF Order, FoundSteady, AttributedCorrectly
<1>4. SteadyDevicesFound'
  BY DEF SteadyDevicesFound
<1>. QED
  BY <1>1, <1>2, <1>3, <1>4

(* The first answer: what it captures about the endpoints is exact.        *)
LEMMA MctpdRepliesKeepsDInv == DInv /\ MctpdReplies => DInv'
<1>. SUFFICES ASSUME DInv, MctpdReplies, owner = "then" PROVE DInv'
  BY FailKeepsDInv DEF MctpdReplies
<1>. USE DEF DInv, MctpdReplies
<1>0. endpoints \in [Paths -> EndpointObjects]
  BY DEF TypeOK
<1>1. TypeOK'
  BY <1>0, MctpDevicesReported DEF TypeOK
<1>2. OneAnswer' /\ SteadyDevicesFound' /\ AttributedCorrectly'
  BY DEF OneAnswer, SteadyDevicesFound, AttributedCorrectly, Order
<1>3. Order'
  BY <1>0, MctpDevicesReported DEF Order
<1>4. FoundSteady'
  BY <1>0, MctpDevicesReported DEF FoundSteady
<1>. QED
  BY <1>1, <1>2, <1>3, <1>4

(* Entity Manager's answer over TCP: the list is exact.                    *)
LEMMA TcpRepliesKeepsDInv ==
    DInv /\ EmReplies /\ owner = "then" /\ protocol = "TCP" => DInv'
<1>. SUFFICES ASSUME DInv, EmReplies, owner = "then", protocol = "TCP"
              PROVE  DInv'
  OBVIOUS
<1>0. inventory \in [Paths -> ConfigObjects] /\ Deliver(TcpDevices(inventory))
      /\ stage = "em"
  BY DEF DInv, TypeOK, EmReplies
<1>1. TypeOK'
  BY <1>0, TcpDevicesReported DEF DInv, TypeOK, Deliver
<1>2. OneAnswer' /\ AttributedCorrectly' /\ Order' /\ FoundSteady'
  BY <1>0 DEF DInv, OneAnswer, AttributedCorrectly, Order, FoundSteady, Deliver
<1>3. SteadyDevicesFound'
  <2>1. \A p \in Paths : Reported(delivered', p) =
                (IF TcpEndpoint(inventory[p]) THEN {ToUint16(inventory[p].port)} ELSE {})
    BY <1>0, TcpDevicesReported DEF Deliver
  <2>. QED
    BY <2>1, <1>0 DEF SteadyDevicesFound, Reported, Deliver
<1>. QED
  BY <1>1, <1>2, <1>3 DEF DInv

(* Entity Manager's answer over MCTP: attribution moves no device, and     *)
(* adds none.                                                              *)
LEMMA MctpNamedKeepsDInv ==
    DInv /\ EmReplies /\ owner = "then" /\ protocol = "MCTP" => DInv'
<1>. SUFFICES ASSUME DInv, EmReplies, owner = "then", protocol = "MCTP"
              PROVE  DInv'
  OBVIOUS
<1>. DEFINE named == {Attribute(d, inventory) : d \in found}
<1>0. inventory \in [Paths -> ConfigObjects] /\ Deliver(named) /\ stage = "em"
      /\ found \subseteq Responder /\ \A d \in found : d.name = NoName
  BY DEF DInv, TypeOK, EmReplies, Order
<1>a. \A d : d \in named <=> \E e \in found : d = Attribute(e, inventory)
  OBVIOUS
<1>b. \A e \in found :
        /\ Attribute(e, inventory) \in Responder
        /\ Attribute(e, inventory).path = e.path
        /\ Attribute(e, inventory).address = e.address
        /\ \A p \in Paths :
            /\ Attribute(e, inventory).name = p => p \in Matches(e, inventory)
            /\ p \in Matches(e, inventory) =>
                /\ Attribute(e, inventory).name \in Paths
                /\ Attribute(e, inventory).name <= p
  BY <1>0, AttributePicks
<1>c. /\ stage' = "done" /\ delivered' = named /\ answers' = answers + 1
      /\ UNCHANGED <<protocol, owner, endpoints, inventory, steady, found>>
  BY <1>0 DEF Deliver
<1>. HIDE DEF named
<1>1. TypeOK'
  <2>1. named \subseteq Responder
    BY <1>a, <1>b
  <2>2. \A d \in found : d.address \in uint8_t \ {invalid_eid}
    BY DEF DInv, TypeOK
  <2>3. ASSUME NEW d \in named PROVE d.address \in uint8_t \ {invalid_eid}
    <3>1. PICK e \in found : d = Attribute(e, inventory)
      BY <1>a
    <3>2. d.address = e.address
      BY <3>1, <1>b
    <3>. QED
      BY <3>2, <2>2
  <2>. QED
    BY <2>1, <2>2, <2>3, <1>c DEF DInv, TypeOK
<1>2. OneAnswer' /\ Order' /\ FoundSteady'
  BY <1>0, <1>c DEF DInv, OneAnswer, Order, FoundSteady
<1>3. ASSUME NEW p \in Paths
      PROVE  Reported(named, p) = Reported(found, p)
  <2>1. \A a, S : a \in Reported(S, p) <=> \E d \in S : d.path = p /\ a = d.address
    BY Zenon DEF Reported
  <2>2. ASSUME NEW a \in Reported(named, p) PROVE a \in Reported(found, p)
    <3>1. PICK d \in named : d.path = p /\ a = d.address
      BY <2>1
    <3>2. PICK e \in found : d = Attribute(e, inventory)
      BY <1>a
    <3>. QED
      BY <2>1, <3>1, <3>2, <1>b
  <2>3. ASSUME NEW a \in Reported(found, p) PROVE a \in Reported(named, p)
    <3>1. PICK e \in found : e.path = p /\ a = e.address
      BY <2>1
    <3>2. Attribute(e, inventory) \in named
      BY <1>a
    <3>. QED
      BY <2>1, <3>1, <3>2, <1>b
  <2>. QED
    BY <2>2, <2>3
<1>4. SteadyDevicesFound'
  <2>1. \A p \in Paths : <<"endpoint", p>> \in steady =>
            Reported(named, p) =
                (IF SpdmEndpoint(endpoints[p]) THEN {endpoints[p].eid} ELSE {})
    BY <1>0, <1>3 DEF DInv, FoundSteady
  <2>. QED
    BY <2>1, <1>c DEF SteadyDevicesFound, Reported
<1>5. AttributedCorrectly'
  <2>. SUFFICES ASSUME NEW d \in named, NEW p \in Paths
                PROVE  /\ d.name = p => p \in Matches(d, inventory)
                       /\ p \in Matches(d, inventory) => d.name \in Paths /\ d.name <= p
    BY <1>c DEF AttributedCorrectly, Matches
  <2>1. PICK e \in found : d = Attribute(e, inventory)
    BY <1>a
  <2>2. Matches(d, inventory) = Matches(e, inventory)
    BY <2>1, <1>b DEF Matches
  <2>. QED
    BY <2>1, <2>2, <1>b
<1>. QED
  BY <1>1, <1>2, <1>4, <1>5 DEF DInv

(* An object that changes is no longer steady, and no other is touched.    *)
LEMMA EndpointChangesKeepsDInv ==
    ASSUME DInv, NEW p \in Paths, EndpointChanges(p)
    PROVE  DInv'
<1>. USE DEF DInv, EndpointChanges
<1>1. TypeOK'
  BY DEF TypeOK
<1>2. OneAnswer' /\ Order' /\ SteadyDevicesFound' /\ AttributedCorrectly'
  BY DEF OneAnswer, Order, SteadyDevicesFound, AttributedCorrectly
<1>3. FoundSteady'
  BY DEF FoundSteady, TypeOK
<1>. QED
  BY <1>1, <1>2, <1>3

LEMMA InventoryChangesKeepsDInv ==
    ASSUME DInv, NEW p \in Paths, InventoryChanges(p)
    PROVE  DInv'
<1>. USE DEF DInv, InventoryChanges
<1>1. TypeOK'
  BY DEF TypeOK
<1>2. OneAnswer' /\ Order' /\ SteadyDevicesFound' /\ AttributedCorrectly'
  BY DEF OneAnswer, Order, SteadyDevicesFound, AttributedCorrectly
<1>3. FoundSteady'
  BY DEF FoundSteady
<1>. QED
  BY <1>1, <1>2, <1>3

LEMMA NextKeepsDInv == DInv /\ [Next]_vars => DInv'
<1>. SUFFICES ASSUME DInv, [Next]_vars PROVE DInv'
  OBVIOUS
<1>1. CASE Discover
  BY <1>1 DEF Discover, DInv, TypeOK, OneAnswer, Order, FoundSteady,
              SteadyDevicesFound, AttributedCorrectly
<1>2. CASE MctpdReplies
  BY <1>2, MctpdRepliesKeepsDInv
<1>3. CASE EmReplies
  BY <1>3, TcpRepliesKeepsDInv, MctpNamedKeepsDInv, FailKeepsDInv DEF EmReplies
<1>4. CASE CallFails
  BY <1>4, FailKeepsDInv DEF CallFails
<1>5. CASE Stop
  BY <1>5 DEF Stop, DInv, TypeOK, OneAnswer, Order, FoundSteady,
              SteadyDevicesFound, AttributedCorrectly
<1>6. CASE \E p \in Paths : EndpointChanges(p) \/ InventoryChanges(p)
  BY <1>6, EndpointChangesKeepsDInv, InventoryChangesKeepsDInv
<1>7. CASE UNCHANGED vars
  BY <1>7 DEF vars, DInv, TypeOK, OneAnswer, Order, FoundSteady,
              SteadyDevicesFound, AttributedCorrectly
<1>. QED
  BY <1>1, <1>2, <1>3, <1>4, <1>5, <1>6, <1>7 DEF Next, Answer

THEOREM DiscoveryInvariant == Spec => []DInv
<1>. QED
  BY InitDInv, NextKeepsDInv, PTL DEF Spec

-----------------------------------------------------------------------------
(* Results. *)

(* Every variable keeps its type; the address of a device fits its field,  *)
(* and over MCTP it is not the EID that stands for none.                   *)
THEOREM DiscoveryTypeCorrect == Spec => []TypeOK
<1>1. DInv => TypeOK
  BY DEF DInv
<1>. QED
  BY <1>1, DiscoveryInvariant, PTL

(* discoverDevices answers its caller at most once.                        *)
THEOREM AnswersOnce == Spec => []OneAnswer
<1>1. DInv => OneAnswer
  BY DEF DInv
<1>. QED
  BY <1>1, DiscoveryInvariant, PTL

(* Over MCTP what was usable all the time is reported with its EID, over   *)
(* TCP with the low 16 bits of its port, and nothing that was unusable all *)
(* the time is.                                                            *)
THEOREM FindsSteadyDevices == Spec => []SteadyDevicesFound
<1>1. DInv => SteadyDevicesFound
  BY DEF DInv
<1>. QED
  BY <1>1, DiscoveryInvariant, PTL

(* A device is never exported under a neighbour's inventory object.        *)
THEOREM AttributesCorrectly == Spec => []AttributedCorrectly
<1>1. DInv => AttributedCorrectly
  BY DEF DInv
<1>. QED
  BY <1>1, DiscoveryInvariant, PTL

(* Discovery implements DiscoveryContract.                                 *)
THEOREM DiscoveryKeepsContract == Spec => KeepsContract
<1>. USE DEF Contract!Deliver, Contract!Restart, Contract!Next
<1>1. Init => Contract!Init
  BY DEF Init, Contract!Init
<1>2. DInv /\ DInv' /\ [Next]_vars =>
        [Contract!Next]_<<IF answers = 0 THEN "pending" ELSE "done", delivered>>
  <2>. SUFFICES ASSUME DInv, DInv', [Next]_vars
                PROVE  [Contract!Next]_<<IF answers = 0 THEN "pending" ELSE "done", delivered>>
    OBVIOUS
  <2>0. answers \in Nat /\ delivered' \subseteq Responder
    BY DEF DInv, TypeOK
  <2>1. ASSUME NEW ds, Pending, Deliver(ds) PROVE Contract!Deliver
    BY <2>0, <2>1 DEF Deliver, DInv, OneAnswer
  <2>2. ASSUME Pending, Fail PROVE Contract!Deliver \/ UNCHANGED <<answers, delivered>>
    BY <2>1, <2>2 DEF Fail
  <2>3. MctpdReplies \/ EmReplies \/ CallFails =>
            Contract!Deliver \/ UNCHANGED <<answers, delivered>>
    BY <2>1, <2>2 DEF MctpdReplies, EmReplies, CallFails
  <2>4. \/ MctpdReplies \/ EmReplies \/ CallFails
        \/ UNCHANGED <<answers, delivered>>
    BY DEF Next, Answer, Discover, Stop, EndpointChanges, InventoryChanges, vars
  <2>. QED
    BY <2>3, <2>4
<1>. QED
  BY <1>1, <1>2, DiscoveryInvariant, PTL DEF Spec, KeepsContract, Contract!Spec

=============================================================================
