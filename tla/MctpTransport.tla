---------------------------- MODULE MctpTransport ----------------------------
(***************************************************************************)
(* SpdmMctpTransport with its MctpIoClass and MctpMessageTransport: one    *)
(* AF_MCTP datagram socket bound to every source address, the exchanges    *)
(* libspdm runs over it with the endpoint eid, and the other endpoints     *)
(* whose SPDM datagrams the same socket may be given.                      *)
(***************************************************************************)
EXTENDS SpdmTransport, Naturals, Sequences, SequencesExt

CONSTANTS
    eid,            \* the endpoint this transport talks to
    Strangers,      \* other endpoints on the MCTP network
    MaxRequests,    \* bound on the requests of a behaviour
    MaxQueue        \* bound on the datagrams waiting in the socket

ASSUME StrangersAssumption == eid \notin Strangers
ASSUME BoundsAssumption == MaxRequests \in Nat \ {0} /\ MaxQueue \in Nat \ {0}

VARIABLES
    socketFd,       \* "closed" or "open"
    queue,          \* datagrams waiting in the socket: who sent them, which reply
    asked,          \* number of the last request sent
    answered,       \* number of the last request the endpoint answered or dropped
    phase,          \* "idle", "peek" (first recv) or "take" (recvfrom)
    peeked,         \* the datagram whose length the peek returned
    handed,         \* the datagram the last exchange handed up, or NoDatagram
    failed,         \* has an exchange failed since the process started?
    signalled       \* a signal arrived (request_stop); there is one per process

exchangeVars == <<asked, phase, peeked, handed, failed>>
vars == <<spdmContext, scratchBuffer, lost, socketFd, queue, asked, answered,
          phase, peeked, handed, failed, signalled>>

(* msg 0 is a datagram that answers nothing: a request of the sender. *)
Datagram == [source : {eid} \cup Strangers, msg : 0 .. MaxRequests]

NoDatagram == [source |-> "nobody", msg |-> 0]

TypeOK ==
    /\ HeapTypeOK
    /\ socketFd \in {"closed", "open"}
    /\ queue \in Seq(Datagram) /\ Len(queue) <= MaxQueue
    /\ asked \in 0 .. MaxRequests
    /\ answered \in 0 .. asked
    /\ phase \in {"idle", "peek", "take"}
    /\ peeked \in Datagram \cup {NoDatagram}
    /\ handed \in Datagram \cup {NoDatagram}
    /\ failed \in BOOLEAN
    /\ signalled \in BOOLEAN

Init ==
    /\ HeapInit
    /\ socketFd = "closed" /\ queue = <<>>
    /\ asked = 0 /\ answered = 0
    /\ phase = "idle" /\ peeked = NoDatagram /\ handed = NoDatagram
    /\ failed = FALSE /\ signalled = FALSE

-----------------------------------------------------------------------------
(* MctpIoClass::createSocket returns true. *)
CreateSocket ==
    /\ socketFd' = "open"
    /\ UNCHANGED <<queue, answered, signalled, exchangeVars>>

(* SpdmMctpTransport::initialize, by the part that fails.  allocateContext *)
(* keeps a context libspdm could not initialise and cleanupContext frees   *)
(* none; neither closes the socket.                                        *)
InitializeSucceeds == phase = "idle" /\ CreateSocket /\ ContextBuilt

InitializeNoContext ==
    /\ phase = "idle" /\ CreateSocket
    /\ AllocateContextFails("null") \/ AllocateContextFails("raw")

(* Variant: cleanupContext that forgets the context. *)
InitializeNoScratchKeepsContext ==
    /\ phase = "idle" /\ CreateSocket
    /\ spdmContext' = "ready" /\ scratchBuffer' = "null"
    /\ UNCHANGED lost

InitializeNoScratch ==
    phase = "idle" /\ CreateSocket /\ SetupScratchBufferFails(FALSE)

Initialize == InitializeSucceeds \/ InitializeNoContext \/ InitializeNoScratch

-----------------------------------------------------------------------------
(* An exchange ends without a reply. *)
ExchangeFails ==
    /\ phase' = "idle" /\ peeked' = NoDatagram
    /\ handed' = NoDatagram /\ failed' = TRUE
    /\ UNCHANGED <<asked, heapVars>>

(* device_send_message; device_receive_message follows with the peek.  The *)
(* kernel refuses a datagram it has no route for.                          *)
Send ==
    /\ phase = "idle" /\ spdmContext = "ready" /\ asked < MaxRequests
    /\ asked' = asked + 1
    /\ phase' = "peek" /\ handed' = NoDatagram
    /\ UNCHANGED <<peeked, failed, socketFd, queue, answered, signalled, heapVars>>

SendFails ==
    /\ phase = "idle" /\ spdmContext = "ready" /\ asked < MaxRequests
    /\ ExchangeFails
    /\ UNCHANGED <<socketFd, queue, answered, signalled>>

(* Variant: a peek without MSG_PEEK. *)
PeekConsumes ==
    /\ phase = "peek" /\ queue # <<>>
    /\ phase' = "take" /\ peeked' = Head(queue)
    /\ queue' = Tail(queue)
    /\ UNCHANGED <<asked, handed, failed, socketFd, answered, signalled, heapVars>>

(* recv(MSG_PEEK | MSG_TRUNC): the buffer gets the length of the first     *)
(* datagram, which stays in the queue.                                     *)
Peek ==
    /\ phase = "peek" /\ queue # <<>>
    /\ phase' = "take" /\ peeked' = Head(queue)
    /\ UNCHANGED <<asked, handed, failed, socketFd, queue, answered, signalled, heapVars>>

(* Variant: decode() without the comparison of endpoint ids. *)
TakeFromAnybody ==
    /\ phase = "take" /\ queue # <<>>
    /\ queue' = Tail(queue)
    /\ phase' = "idle" /\ handed' = Head(queue) /\ peeked' = NoDatagram
    /\ lost' = lost \cup {"reply"}
    /\ UNCHANGED <<asked, failed, socketFd, answered, signalled, spdmContext, scratchBuffer>>

(* recvfrom() into a buffer of the peeked length, then decode(): a source  *)
(* other than eid fails the exchange, the datagram consumed.               *)
Take ==
    /\ phase = "take" /\ queue # <<>>
    /\ queue' = Tail(queue)
    /\ IF Head(queue).source = eid
       THEN /\ phase' = "idle" /\ handed' = Head(queue) /\ peeked' = NoDatagram
            /\ lost' = lost \cup {"reply"}
            /\ UNCHANGED <<asked, failed, spdmContext, scratchBuffer>>
       ELSE ExchangeFails
    /\ UNCHANGED <<socketFd, answered, signalled>>

(* The signal that requests the stop interrupts the recv() that waits;     *)
(* nothing else does, as the timeout libspdm asks for is not used.         *)
Signal ==
    /\ ~signalled
    /\ signalled' = TRUE
    /\ IF phase = "peek" /\ queue = <<>> THEN ExchangeFails
       ELSE UNCHANGED <<exchangeVars, heapVars>>
    /\ UNCHANGED <<socketFd, queue, answered>>

-----------------------------------------------------------------------------
(* The network. *)

(* The endpoint answers the oldest request it has not answered. *)
Reply ==
    /\ socketFd = "open" /\ answered < asked /\ Len(queue) < MaxQueue
    /\ answered' = answered + 1
    /\ queue' = Append(queue, [source |-> eid, msg |-> answered + 1])
    /\ UNCHANGED <<socketFd, signalled, exchangeVars, heapVars>>

(* A request or its reply is lost. *)
LoseReply ==
    /\ answered < asked
    /\ answered' = answered + 1
    /\ UNCHANGED <<socketFd, queue, signalled, exchangeVars, heapVars>>

(* Another endpoint sends an SPDM request of its own: the socket is bound  *)
(* to MCTP_ADDR_ANY.                                                       *)
StrangerSends(e) ==
    /\ socketFd = "open" /\ Len(queue) < MaxQueue
    /\ queue' = Append(queue, [source |-> e, msg |-> 0])
    /\ UNCHANGED <<socketFd, answered, signalled, exchangeVars, heapVars>>

-----------------------------------------------------------------------------
Next ==
    \/ Initialize \/ Send \/ SendFails \/ Peek \/ Take \/ Signal
    \/ Reply \/ LoseReply
    \/ \E e \in Strangers : StrangerSends(e)

Spec == Init /\ [][Next]_vars

-----------------------------------------------------------------------------
(* Properties. *)

(* Whatever other endpoints send to the socket and whatever is late, a     *)
(* datagram handed to libspdm comes from eid and answers a request that    *)
(* was sent; and it answers the last one as long as no exchange failed     *)
(* (MctpMessageTransport::decode, MctpIoClass::readFromSocket).            *)
ReplyMatchesRequest ==
    handed # NoDatagram =>
        /\ handed.source = eid
        /\ handed.msg \in 1 .. asked
        /\ ~failed => handed.msg = asked

(* recvfrom() reads the datagram whose length the peek returned: nothing   *)
(* overtakes it in between, so the buffer has the size of what it holds.   *)
PeekedIsTaken == phase = "take" => queue # <<>> /\ Head(queue) = peeked

(* A context libspdm may be called with has its scratch buffer and a       *)
(* socket, whatever part of a later initialize() failed.                   *)
ContextComplete ==
    spdmContext = "ready" => scratchBuffer = "owned" /\ socketFd = "open"

(* The exchanges over the datagram socket keep what SpdmLink promises      *)
(* libspdm.                                                                *)
Link == INSTANCE SpdmLink WITH
    ready   <- spdmContext = "ready",
    busy    <- phase # "idle",
    trusted <- ~failed,
    answer  <- handed.msg

ImplementsLink == Link!Spec

=============================================================================
