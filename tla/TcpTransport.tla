---------------------------- MODULE TcpTransport ----------------------------
(***************************************************************************)
(* SpdmTcpTransport with its TcpIoClass and TcpMessageTransport: one       *)
(* socket, the stream of platform frames behind it, and the exchanges      *)
(* libspdm runs over them, one request and one reply at a time.            *)
(*                                                                         *)
(* A frame is HeaderUnits units of header followed by up to MaxBody units  *)
(* of message; a unit is a run of bytes recv() may deliver on its own.     *)
(* The peer answers requests in order, late or not at all, and may close   *)
(* the connection; the network may deliver a frame in pieces.              *)
(***************************************************************************)
EXTENDS SpdmTransport, Naturals, Sequences, SequencesExt

CONSTANTS
    HeaderUnits,    \* units of a header (12 bytes in the code)
    MaxBody,        \* bound on the units of a message
    MaxRequests     \* bound on the requests of a behaviour

ASSUME UnitsAssumption == HeaderUnits \in Nat \ {0} /\ MaxBody \in Nat \ {0}
ASSUME MaxRequestsAssumption == MaxRequests \in Nat \ {0}

VARIABLES
    socketFd,       \* "closed" (-1) or "open"
    peer,           \* does the responder accept a new connection?
    link,           \* is the connection behind socketFd alive at the far end?
    stream,         \* units the peer sent and recv() has not returned
    asked,          \* number of the last request written
    answered,       \* number of the last request the peer answered, or never will
    phase,          \* "idle", or the loop of read() that runs: "header", "payload"
    buf,            \* units read() has collected
    msgLen,         \* units of message the header promised
    handed,         \* the buffer the last exchange handed up, <<>> if it failed
    failed          \* has an exchange failed since the connection was made?

linkVars     == <<socketFd, peer, link, stream, answered>>
exchangeVars == <<asked, phase, buf, msgLen, handed, failed>>
vars == <<spdmContext, scratchBuffer, lost, socketFd, peer, link, stream,
          answered, asked, phase, buf, msgLen, handed, failed>>

Unit == [msg : 1 .. MaxRequests, part : {"header", "body"}, len : 1 .. MaxBody]

(* The reply to request k with a message of n units; the header says n. *)
Frame(k, n) ==
    [i \in 1 .. HeaderUnits + n |->
        [msg |-> k, part |-> IF i <= HeaderUnits THEN "header" ELSE "body", len |-> n]]

TypeOK ==
    /\ HeapTypeOK
    /\ socketFd \in {"closed", "open"}
    /\ peer \in {"up", "gone"}
    /\ link \in {"up", "gone"}
    /\ stream \in Seq(Unit)
    /\ asked \in 0 .. MaxRequests
    /\ answered \in 0 .. asked
    /\ phase \in {"idle", "header", "payload"}
    /\ buf \in Seq(Unit)
    /\ msgLen \in 0 .. MaxBody
    /\ handed \in Seq(Unit)
    /\ failed \in BOOLEAN

Init ==
    /\ HeapInit
    /\ socketFd = "closed" /\ peer \in {"up", "gone"} /\ link = "gone"
    /\ stream = <<>>
    /\ asked = 0 /\ answered = 0
    /\ phase = "idle" /\ buf = <<>> /\ msgLen = 0
    /\ handed = <<>> /\ failed = FALSE

-----------------------------------------------------------------------------
(* TcpIoClass::createSocket returns true: at once if there is a socket,    *)
(* else when the connection is made.                                       *)
CreateSocket ==
    \/ socketFd = "open" /\ UNCHANGED <<linkVars, exchangeVars>>
    \/ /\ socketFd = "closed" /\ peer = "up"
       /\ socketFd' = "open" /\ link' = "up"
       /\ stream' = <<>> /\ answered' = asked
       /\ failed' = FALSE /\ handed' = <<>>
       /\ UNCHANGED <<peer, asked, phase, buf, msgLen>>

(* cleanupContext closes the socket, whatever createSocket found. *)
CloseSocket ==
    /\ socketFd' = "closed" /\ link' = "gone"
    /\ stream' = <<>> /\ answered' = asked
    /\ UNCHANGED <<peer, exchangeVars>>

(* SpdmTcpTransport::initialize, by the part that fails.  registerFunctions *)
(* and configureContext always return true; a socket that cannot be made   *)
(* changes nothing.                                                        *)
InitializeSucceeds == phase = "idle" /\ CreateSocket /\ ContextBuilt

InitializeNoContext ==
    phase = "idle" /\ CreateSocket /\ AllocateContextFails("null")

(* Variant: cleanupContext that forgets the context. *)
InitializeNoScratchKeepsContext ==
    /\ phase = "idle" /\ (socketFd = "open" \/ peer = "up")
    /\ CloseSocket
    /\ spdmContext' = "ready" /\ scratchBuffer' = "null"
    /\ UNCHANGED lost

InitializeNoScratch ==
    /\ phase = "idle" /\ (socketFd = "open" \/ peer = "up")
    /\ CloseSocket
    /\ SetupScratchBufferFails(TRUE)

Initialize == InitializeSucceeds \/ InitializeNoContext \/ InitializeNoScratch

-----------------------------------------------------------------------------
(* An exchange ends without a reply.  The socket stays as it is. *)
ExchangeFails ==
    /\ phase' = "idle" /\ buf' = <<>> /\ msgLen' = 0
    /\ handed' = <<>> /\ failed' = TRUE
    /\ UNCHANGED <<asked, heapVars>>

(* deviceSendMessage, then deviceReceiveMessage up to the header loop.  On *)
(* a connection the peer has left the first write may still succeed.       *)
Send ==
    /\ phase = "idle" /\ spdmContext = "ready" /\ asked < MaxRequests
    /\ socketFd = "open"
    /\ asked' = asked + 1
    /\ phase' = "header" /\ buf' = <<>> /\ msgLen' = 0 /\ handed' = <<>>
    /\ UNCHANGED <<failed, linkVars, heapVars>>

SendFails ==
    /\ phase = "idle" /\ spdmContext = "ready" /\ asked < MaxRequests
    /\ socketFd = "closed" \/ link = "gone"
    /\ ExchangeFails
    /\ UNCHANGED linkVars

(* recv() returns the next n units of the stream. *)
Recv(n) ==
    /\ buf' = buf \o SubSeq(stream, 1, n)
    /\ stream' = SubSeq(stream, n + 1, Len(stream))
    /\ UNCHANGED <<socketFd, peer, link, answered, asked, failed>>

(* The collected header is the header the peer sent for one frame. *)
FrameHeader(b) == \E k \in 1 .. MaxRequests, n \in 1 .. MaxBody :
                      SubSeq(b, 1, HeaderUnits) = SubSeq(Frame(k, n), 1, HeaderUnits)

(* Variant: the length field taken for the length of the whole frame. *)
ReadHeaderWholeLength(n) ==
    /\ phase = "header"
    /\ n <= Len(stream) /\ Len(buf) + n <= HeaderUnits
    /\ Recv(n)
    /\ IF Len(buf') < HeaderUnits THEN UNCHANGED <<phase, msgLen>>
       ELSE phase' = "payload" /\ msgLen' = HeaderUnits + buf'[1].len
    /\ UNCHANGED <<handed, heapVars>>

(* The header loop of read().  When 12 bytes are in, four of them are the  *)
(* length of the message, whatever the bytes are: those of a header say    *)
(* its length, any others spell any length, 0 included.                    *)
ReadHeader(n) ==
    /\ phase = "header"
    /\ n <= Len(stream) /\ Len(buf) + n <= HeaderUnits
    /\ Recv(n)
    /\ IF Len(buf') < HeaderUnits THEN UNCHANGED <<phase, msgLen>>
       ELSE /\ phase' = "payload"
            /\ msgLen' \in IF FrameHeader(buf') THEN {buf'[1].len} ELSE 0 .. MaxBody
    /\ UNCHANGED <<handed, heapVars>>

(* A length above tcpMaxMessageSize fails the read, the header consumed. *)
RejectLength ==
    /\ phase = "payload" /\ Len(buf) = HeaderUnits /\ ~FrameHeader(buf)
    /\ ExchangeFails
    /\ UNCHANGED linkVars

(* The payload loop of read(). *)
ReadPayload(n) ==
    /\ phase = "payload"
    /\ n <= Len(stream) /\ Len(buf) + n <= HeaderUnits + msgLen
    /\ Recv(n)
    /\ UNCHANGED <<phase, msgLen, handed, heapVars>>

(* Variant: one recv() for the payload, no loop. *)
CollectedAtOnce == phase = "payload" /\ (Len(buf) > HeaderUnits \/ msgLen = 0)

(* read() has the bytes the length field asked for. *)
Collected == phase = "payload" /\ Len(buf) = HeaderUnits + msgLen

(* read() returns and decode() copies the message to a block of its own,   *)
(* which nobody frees.  All it looks at are the size, which read() has     *)
(* seen to, and the transport type.                                        *)
Decode ==
    /\ Collected
    /\ phase' = "idle" /\ handed' = buf
    /\ lost' = lost \cup {"reply"}
    /\ UNCHANGED <<asked, buf, msgLen, failed, spdmContext, scratchBuffer, linkVars>>

(* Four bytes that are not a header's may spell another transport type. *)
DecodeRefuses ==
    /\ Collected /\ ~FrameHeader(buf)
    /\ ExchangeFails
    /\ UNCHANGED linkVars

(* Variant: a receive timeout of 0, which recv() takes for "for ever". *)
NeverTimesOut == FALSE /\ ExchangeFails /\ UNCHANGED linkVars

(* Variant: a read that timed out reports what it has collected. *)
TimesOutUnnoticed ==
    /\ phase # "idle" /\ ~Collected
    /\ phase' = "idle" /\ handed' = buf /\ buf' = <<>> /\ msgLen' = 0
    /\ UNCHANGED <<asked, failed, linkVars, heapVars>>

(* SO_RCVTIMEO passed with nothing to read, or with the rest of a frame    *)
(* still under way: what was read of it is dropped.                        *)
TimesOut ==
    /\ phase # "idle" /\ ~Collected
    /\ ExchangeFails
    /\ UNCHANGED linkVars

(* recv() returns 0 or an error: the peer is gone and all is read. *)
EndOfStream ==
    /\ phase # "idle" /\ ~Collected /\ link = "gone" /\ stream = <<>>
    /\ ExchangeFails
    /\ UNCHANGED linkVars

-----------------------------------------------------------------------------
(* The peer. *)

Reply(n) ==
    /\ link = "up" /\ answered < asked
    /\ answered' = answered + 1
    /\ stream' = stream \o Frame(answered + 1, n)
    /\ UNCHANGED <<socketFd, peer, link, exchangeVars, heapVars>>

(* The responder goes away with its connections, or comes back. *)
PeerLeaves ==
    /\ peer = "up"
    /\ peer' = "gone" /\ link' = "gone" /\ answered' = asked
    /\ UNCHANGED <<socketFd, stream, exchangeVars, heapVars>>

PeerReturns ==
    /\ peer = "gone"
    /\ peer' = "up"
    /\ UNCHANGED <<socketFd, link, stream, answered, exchangeVars, heapVars>>

-----------------------------------------------------------------------------
Read ==
    \/ \E n \in 1 .. HeaderUnits + MaxBody : ReadHeader(n) \/ ReadPayload(n)
    \/ RejectLength \/ Decode \/ DecodeRefuses \/ TimesOut \/ EndOfStream

Next ==
    \/ Initialize \/ Send \/ SendFails \/ Read
    \/ \E n \in 1 .. MaxBody : Reply(n)
    \/ PeerLeaves \/ PeerReturns

Spec == Init /\ [][Next]_vars

(* The thread runs: a read() that can take a step takes one. *)
FairSpec == Spec /\ WF_vars(Read)

-----------------------------------------------------------------------------
(* Properties. *)

(* As long as no exchange on the connection has failed, every buffer       *)
(* handed to libspdm is the whole frame the peer sent in answer to the     *)
(* last request, however the stream was cut into recv() results.  After a  *)
(* failure nothing of the kind holds: the rest of an abandoned frame may   *)
(* be read as a header, and decode() lets it pass if the four bytes of the *)
(* transport type happen to be right (TcpIoClass::read, decode).           *)
ReplyMatchesRequest ==
    ~failed /\ handed # <<>> => \E n \in 1 .. MaxBody : handed = Frame(asked, n)

(* A context libspdm may be called with has its scratch buffer and a       *)
(* socket, whatever part of a later initialize() failed.                   *)
ContextComplete ==
    spdmContext = "ready" => scratchBuffer = "owned" /\ socketFd = "open"

(* read() always returns: a peer that stays silent, or stops in the middle *)
(* of a frame, costs a timeout and not the event loop.                     *)
ReadReturns == phase # "idle" ~> phase = "idle"

(* The reads and writes of the socket keep what SpdmLink promises libspdm. *)
(* What was handed up answers the request its first unit is about.         *)
Link == INSTANCE SpdmLink WITH
    ready   <- spdmContext = "ready",
    busy    <- phase # "idle",
    trusted <- ~failed,
    answer  <- IF handed = <<>> THEN 0 ELSE handed[1].msg

ImplementsLink == Link!Spec

(* tcp_helper.hpp:210 says of createSocket: "@return true if socket        *)
(* created and connected successfully".                                    *)
SocketConnected == [][InitializeSucceeds => link' = "up"]_vars

=============================================================================
