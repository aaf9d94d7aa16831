------------------------------ MODULE Discovery ------------------------------
(***************************************************************************)
(* Device discovery: SPDMDiscovery over one of the two DiscoveryProtocols. *)
(* TCP asks Entity Manager for its objects; MCTP asks mctpd for the        *)
(* endpoints first and Entity Manager second, to attribute each endpoint   *)
(* to an inventory object by its EID.  Both trees may change at any moment *)
(* up to the answer, and either call may fail.                             *)
(***************************************************************************)
EXTENDS Naturals

CONSTANTS
    Paths,            \* object paths, numbered in the order std::map has them
    NoName,           \* the empty deviceObjectPath
    Missing,          \* a property that is absent or of another type
    EndpointObjects,  \* what an object of mctpd may look like
    ConfigObjects     \* what an object of Entity Manager may look like

(* Widths of the code's integers. *)
uint8_t  == 0 .. 255
uint16_t == 0 .. 65535
ToUint16(n) == n % 65536

invalid_eid == 255

(* An endpoint that is absent, or without SPDM in SupportedMessageTypes,   *)
(* is one whose spdm is FALSE; uuid: the UUID interface has a non-empty    *)
(* UUID.  EID is a byte in mctpd and 64 bits wide in Entity Manager, and   *)
(* so is Port; host: HostName is a non-empty string.                       *)
ASSUME EndpointAssumption ==
    EndpointObjects \subseteq
        [spdm : BOOLEAN, eid : uint8_t \cup {Missing}, uuid : BOOLEAN]
ASSUME ConfigAssumption ==
    \A o \in ConfigObjects :
        /\ DOMAIN o = {"interface", "eid", "host", "port"}
        /\ o.interface \in {"SpdmMctpRequester", "SpdmTcpEndpoint", "other"}
        /\ o.eid \in Nat \cup {Missing}
        /\ o.host \in BOOLEAN
        /\ o.port \in Nat \cup {Missing}
ASSUME PathsAssumption == Paths \subseteq Nat /\ NoName \notin Paths
ASSUME MissingAssumption == Missing \notin Nat

VARIABLES
    protocol,     \* the DiscoveryProtocol of the build
    owner,        \* which lambda of utils.cpp got the callback
    endpoints,    \* the objects of mctpd
    inventory,    \* the objects of Entity Manager
    stage,        \* which call is outstanding, or how the discovery ended
    found,        \* devices captured by the second call's callback
    delivered,    \* the list handed to the daemon
    answers,      \* how often the daemon's callback ran
    steady        \* history: <<tree, path>> of objects unchanged since discover

world == <<endpoints, inventory, steady>>
build == <<protocol, owner>>
vars == <<protocol, owner, endpoints, inventory, stage, found, delivered,
          answers, steady>>

(* A ResponderInfo: address is the EID or the TCP port of its transport. *)
Responder == [path : Paths, name : Paths \cup {NoName}, address : uint16_t]

Objects == {"endpoint", "config"} \X Paths

(* A transport over MCTP is never made for the EID that stands for none.   *)
TypeOK ==
    /\ protocol \in {"MCTP", "TCP"}
    /\ owner \in {"then", "upon_error"}
    /\ endpoints \in [Paths -> EndpointObjects]
    /\ inventory \in [Paths -> ConfigObjects]
    /\ stage \in {"idle", "mctpd", "em", "done", "cancelled", "dead"}
    /\ found \subseteq Responder
    /\ delivered \subseteq Responder
    /\ protocol = "MCTP" =>
        \A d \in found \cup delivered : d.address \in uint8_t \ {invalid_eid}
    /\ answers \in Nat
    /\ steady \subseteq Objects

Init ==
    /\ protocol \in {"MCTP", "TCP"}
    /\ owner \in {"then", "upon_error"}
    /\ endpoints \in [Paths -> EndpointObjects]
    /\ inventory \in [Paths -> ConfigObjects]
    /\ stage = "idle"
    /\ found = {}
    /\ delivered = {}
    /\ answers = 0
    /\ steady = Objects

-----------------------------------------------------------------------------
(* From objects to devices. *)

extractEid(o) == IF o.eid = Missing THEN invalid_eid ELSE o.eid

(* Variant: what extractEid returns is taken for an EID in any case. *)
SpdmEndpointAnyEid(o) == o.spdm /\ o.uuid

(* MCTP createDeviceFromInterfaces returns a device. *)
SpdmEndpoint(o) == o.spdm /\ extractEid(o) # invalid_eid /\ o.uuid

(* Variant: the loop over the managed objects ends at the first unusable one. *)
MctpDevicesUpToFirstBad(tree) ==
    {[path |-> p, name |-> NoName, address |-> extractEid(tree[p])] :
        p \in {q \in Paths : \A r \in Paths : r <= q => SpdmEndpoint(tree[r])}}

MctpDevices(tree) ==
    {[path |-> p, name |-> NoName, address |-> extractEid(tree[p])] :
        p \in {q \in Paths : SpdmEndpoint(tree[q])}}

(* Variant: the 64-bit EID of the inventory cut to the byte mctpd uses. *)
MatchesLowByte(d, tree) ==
    {p \in Paths : /\ tree[p].interface = "SpdmMctpRequester"
                   /\ tree[p].eid # Missing
                   /\ tree[p].eid % 256 = d.address}

(* The inventory objects parseSpdmEMConfig may attribute device d to. *)
Matches(d, tree) ==
    {p \in Paths : tree[p].interface = "SpdmMctpRequester" /\ tree[p].eid = d.address}

(* The loop breaks at the first one; without one the path stays empty. *)
Attribute(d, tree) ==
    IF Matches(d, tree) = {} THEN d
    ELSE [d EXCEPT !.name = CHOOSE p \in Matches(d, tree) :
                                \A q \in Matches(d, tree) : p <= q]

(* TCP createDeviceFromInterfaces returns a device. *)
TcpEndpoint(o) ==
    o.interface = "SpdmTcpEndpoint" /\ o.host /\ o.port \notin {Missing, 0}

(* The transport gets the low 16 bits of the port, which the test against  *)
(* 0 above has seen whole.                                                 *)
TcpDevices(tree) ==
    {[path |-> p, name |-> p, address |-> ToUint16(tree[p].port)] :
        p \in {q \in Paths : TcpEndpoint(tree[q])}}

-----------------------------------------------------------------------------
(* Variants: each is a definition below with a plausible mistake in it,    *)
(* kept to show which property would notice the mistake.                   *)

(* callback({}) without the return that follows it. *)
FailNoReturn ==
    /\ stage' = "done"
    /\ delivered' = {}
    /\ answers' = answers + (IF stage = "mctpd" THEN 2 ELSE 1)
    /\ UNCHANGED <<build, world, found>>

(* The exception is logged and nobody is told. *)
FailSilently ==
    /\ stage' = "idle"
    /\ UNCHANGED <<build, world, found, delivered, answers>>

(* The endpoints are reported at once and again with their names. *)
MctpdRepliesEarly ==
    /\ stage = "mctpd"
    /\ stage' = "em"
    /\ found' = MctpDevices(endpoints)
    /\ delivered' = found'
    /\ answers' = answers + 1
    /\ UNCHANGED <<build, world>>

-----------------------------------------------------------------------------
Pending == stage \in {"mctpd", "em"}

(* main calls discover once. *)
Discover ==
    /\ stage = "idle"
    /\ stage' = (IF protocol = "MCTP" THEN "mctpd" ELSE "em")
    /\ UNCHANGED <<build, world, found, delivered, answers>>

(* The daemon's callback runs. *)
Deliver(ds) ==
    /\ stage' = "done"
    /\ delivered' = ds
    /\ answers' = answers + 1
    /\ UNCHANGED <<build, world, found>>

(* The lambda of upon_error.  If it owns the callback it reports failure,  *)
(* which every level turns into an empty list; if then owns it, upon_error *)
(* calls an empty function and std::bad_function_call ends the process.    *)
Fail ==
    IF owner = "upon_error" THEN Deliver({})
    ELSE /\ stage' = "dead"
         /\ UNCHANGED <<build, world, found, delivered, answers>>

(* The call to mctpd returns its objects: the second call starts.  If then *)
(* holds an empty function, it throws and upon_error reports a failure.    *)
MctpdReplies ==
    /\ stage = "mctpd"
    /\ \/ /\ owner = "then"
          /\ stage' = "em"
          /\ found' = MctpDevices(endpoints)
          /\ UNCHANGED <<build, world, delivered, answers>>
       \/ owner = "upon_error" /\ Fail

(* The call to Entity Manager returns its objects. *)
EmReplies ==
    /\ stage = "em"
    /\ \/ owner = "then" /\ protocol = "MCTP"
          /\ Deliver({Attribute(d, inventory) : d \in found})
       \/ owner = "then" /\ protocol = "TCP" /\ Deliver(TcpDevices(inventory))
       \/ owner = "upon_error" /\ Fail

(* The service is not there, or its reply times out. *)
CallFails == Pending /\ Fail

(* request_stop() cancels the outstanding call; no lambda runs. *)
Stop ==
    /\ Pending
    /\ stage' = "cancelled"
    /\ UNCHANGED <<build, world, found, delivered, answers>>

(* An endpoint appears, disappears, is given another EID. *)
EndpointChanges(p) ==
    /\ protocol = "MCTP" /\ Pending
    /\ \E o \in EndpointObjects : endpoints' = [endpoints EXCEPT ![p] = o]
    /\ steady' = steady \ {<<"endpoint", p>>}
    /\ UNCHANGED <<build, inventory, stage, found, delivered, answers>>

(* Entity Manager adds, removes or rewrites a configuration. *)
InventoryChanges(p) ==
    /\ Pending
    /\ \E o \in ConfigObjects : inventory' = [inventory EXCEPT ![p] = o]
    /\ steady' = steady \ {<<"config", p>>}
    /\ UNCHANGED <<build, endpoints, stage, found, delivered, answers>>

Answer == MctpdReplies \/ EmReplies \/ CallFails

Next ==
    \/ Discover \/ Answer \/ Stop
    \/ \E p \in Paths : EndpointChanges(p) \/ InventoryChanges(p)

Spec == Init /\ [][Next]_vars

(* libsystemd ends a method call with a reply, an error or a timeout. *)
FairSpec == Spec /\ WF_vars(Answer)

-----------------------------------------------------------------------------
(* Properties. *)

(* discoverDevices answers its caller at most once, and with the list the  *)
(* caller keeps: every error path of the two nested callbacks ends the     *)
(* discovery (spdm_discovery.cpp, mctp_transport_discovery.cpp).           *)
OneAnswer == answers = (IF stage = "done" THEN 1 ELSE 0)

(* An object that was usable all the time is reported once, whatever the   *)
(* other objects look like and however they change meanwhile; an object    *)
(* that was unusable all the time is not.  An endpoint is reported with    *)
(* its EID; a configuration with its port if that is below 65536, and with *)
(* the low 16 bits of any other: a port of 65536 passes the test against 0 *)
(* and ends as 0, which no peer listens on (createDeviceFromInterfaces,    *)
(* tcp_transport_discovery.cpp:137-154).  Objects that change during the   *)
(* discovery are reported as they were at the call that read them, which   *)
(* the property says nothing about.                                        *)
SteadyDevicesFound ==
    stage = "done" /\ owner = "then" => \A p \in Paths :
        LET reported == {d.address : d \in {e \in delivered : e.path = p}}
            mctp == protocol = "MCTP" /\ <<"endpoint", p>> \in steady
            tcp  == protocol = "TCP" /\ <<"config", p>> \in steady
        IN /\ mctp => reported =
                (IF SpdmEndpoint(endpoints[p]) THEN {endpoints[p].eid} ELSE {})
           /\ tcp => reported =
                (IF TcpEndpoint(inventory[p]) THEN {ToUint16(inventory[p].port)} ELSE {})

(* A device gets the inventory object that configures its EID and no       *)
(* other: the name it is exported under, and where its component integrity *)
(* is reported, never belong to a neighbour.  Without such an object it    *)
(* gets none.                                                              *)
AttributedCorrectly ==
    protocol = "MCTP" => \A d \in delivered, p \in Paths :
        <<"config", p>> \in steady =>
            LET configured == /\ inventory[p].interface = "SpdmMctpRequester"
                              /\ inventory[p].eid = d.address
            IN /\ d.name = p => configured
               /\ configured => d.name \in Paths /\ d.name <= p

(* A discovery that was started comes to an end the daemon can see. *)
Answered == Pending ~> stage \in {"done", "cancelled", "dead"}

(* The discovery keeps the contract of DiscoveryProtocol. *)
Contract == INSTANCE DiscoveryContract WITH
    Devices <- Responder,
    discovery <- IF answers = 0 THEN "pending" ELSE "done",
    devices <- delivered

KeepsContract == Contract!Spec

=============================================================================
