------------------------- MODULE MctpTransportProofs -------------------------
(***************************************************************************)
(* Proofs about MctpTransport, for every number of requests, every bound   *)
(* of the socket's queue and every set of other endpoints.                 *)
(***************************************************************************)
EXTENDS MctpTransport, SequenceTheorems, TLAPS

(* What the queue holds from eid are replies to requests it has answered.  *)
RepliesAreAnswers ==
    \A i \in 1 .. Len(queue) :
        queue[i].source = eid => queue[i].msg \in 1 .. answered

(* Until an exchange fails there is one request at a time: between two     *)
(* exchanges nothing is under way, and during one only its reply is.       *)
OneUnderWay ==
    ~failed =>
        /\ answered = asked \/ (phase # "idle" /\ answered + 1 = asked)
        /\ phase = "idle" => \A i \in 1 .. Len(queue) : queue[i].source # eid
        /\ \A i \in 1 .. Len(queue) : queue[i].source = eid => queue[i].msg = asked
        /\ \A i, j \in 1 .. Len(queue) :
               queue[i].source = eid /\ queue[j].source = eid => i = j

(* Exchanges run on a context that was set up.                             *)
BusyOnlyIfReady == phase # "idle" => spdmContext = "ready"

MInv ==
    /\ TypeOK /\ RepliesAreAnswers /\ OneUnderWay /\ BusyOnlyIfReady
    /\ ReplyMatchesRequest /\ PeekedIsTaken /\ ContextComplete

-----------------------------------------------------------------------------
(* The queue under the three things that happen to it. *)

LEMMA TailShifts ==
    ASSUME NEW S, NEW s \in Seq(S), s # <<>>
    PROVE  /\ Tail(s) \in Seq(S)
           /\ Len(Tail(s)) = Len(s) - 1
           /\ \A i \in 1 .. Len(Tail(s)) : i + 1 \in 1 .. Len(s) /\ Tail(s)[i] = s[i + 1]
           /\ Head(s) = s[1] /\ 1 \in 1 .. Len(s) /\ Head(s) \in S
  OBVIOUS

LEMMA AppendKeeps ==
    ASSUME NEW S, NEW s \in Seq(S), NEW e \in S
    PROVE  /\ Append(s, e) \in Seq(S)
           /\ Len(Append(s, e)) = Len(s) + 1
           /\ \A i \in 1 .. Len(s) : Append(s, e)[i] = s[i]
           /\ Append(s, e)[Len(s) + 1] = e
           /\ Append(s, e) # <<>>
           /\ s # <<>> => Head(Append(s, e)) = Head(s)
  <1>1. /\ Append(s, e) \in Seq(S)
        /\ Append(s, e) # <<>>
        /\ Len(Append(s, e)) = Len(s) + 1
        /\ \A i \in 1 .. Len(s) : Append(s, e)[i] = s[i]
        /\ Append(s, e)[Len(s) + 1] = e
    BY AppendProperties
  <1>2. s # <<>> => Head(Append(s, e)) = Head(s)
    BY <1>1
  <1> QED
    BY <1>1, <1>2

LEMMA MInitial == Init => MInv
  <1> SUFFICES ASSUME Init PROVE MInv
    OBVIOUS
  <1> USE BoundsAssumption DEF Init, HeapInit
  <1>1. TypeOK
    <2>1. <<>> \in Seq(Datagram) /\ Len(<<>>) <= MaxQueue
      OBVIOUS
    <2>2. 0 \in 0 .. MaxRequests /\ 0 \in 0 .. 0
      OBVIOUS
    <2> QED
      BY <2>1, <2>2 DEF TypeOK, HeapTypeOK
  <1>2. RepliesAreAnswers /\ OneUnderWay
    BY DEF RepliesAreAnswers, OneUnderWay
  <1>3. ReplyMatchesRequest /\ PeekedIsTaken /\ ContextComplete /\ BusyOnlyIfReady
    BY DEF ReplyMatchesRequest, PeekedIsTaken, ContextComplete, BusyOnlyIfReady
  <1> QED
    BY <1>1, <1>2, <1>3 DEF MInv

-----------------------------------------------------------------------------
(* initialize() touches the socket and the heap blocks and nothing else.   *)
LEMMA InitializeEffect ==
    ASSUME MInv, Initialize
    PROVE  /\ HeapTypeOK'
           /\ socketFd' = "open"
           /\ phase = "idle"
           /\ UNCHANGED <<queue, answered, signalled, exchangeVars>>
           /\ spdmContext' = "ready" => scratchBuffer' = "owned"
  <1> USE DEF MInv, TypeOK, HeapTypeOK, CreateSocket, OldContext, OldScratch
  <1>1. CASE InitializeSucceeds
    BY <1>1 DEF InitializeSucceeds, ContextBuilt
  <1>2. CASE InitializeNoContext
    BY <1>2 DEF InitializeNoContext, AllocateContextFails
  <1>3. CASE InitializeNoScratch
    BY <1>3 DEF InitializeNoScratch, SetupScratchBufferFails
  <1> QED
    BY <1>1, <1>2, <1>3 DEF Initialize

LEMMA InitializePreserves == MInv /\ Initialize => MInv'
  <1> SUFFICES ASSUME MInv, Initialize PROVE MInv'
    OBVIOUS
  <1>1. /\ HeapTypeOK'
        /\ socketFd' = "open"
        /\ UNCHANGED <<queue, answered, signalled, asked, phase, peeked, handed, failed>>
        /\ spdmContext' = "ready" => scratchBuffer' = "owned"
    BY InitializeEffect DEF exchangeVars
  <1>2. TypeOK'
    BY <1>1 DEF MInv, TypeOK
  <1>3. (RepliesAreAnswers /\ OneUnderWay)'
    BY <1>1 DEF MInv, RepliesAreAnswers, OneUnderWay
  <1>4. (ReplyMatchesRequest /\ PeekedIsTaken /\ ContextComplete /\ BusyOnlyIfReady)'
    BY <1>1, InitializeEffect DEF MInv, ReplyMatchesRequest, PeekedIsTaken, ContextComplete, BusyOnlyIfReady
  <1> QED
    BY <1>2, <1>3, <1>4 DEF MInv

(* A failed exchange ends the promises that hold only until one fails.     *)
LEMMA FailurePreserves ==
    ASSUME MInv, ExchangeFails, UNCHANGED <<socketFd, answered>>,
           signalled' \in BOOLEAN,
           queue' = queue \/ (queue # <<>> /\ queue' = Tail(queue))
    PROVE  MInv'
  <1> USE DEF ExchangeFails, heapVars
  <1>1. /\ queue' \in Seq(Datagram) /\ Len(queue') <= MaxQueue
        /\ \A i \in 1 .. Len(queue') : \E j \in 1 .. Len(queue) : queue'[i] = queue[j]
    BY TailShifts, BoundsAssumption DEF MInv, TypeOK
  <1>2. TypeOK'
    BY <1>1 DEF MInv, TypeOK, HeapTypeOK
  <1>3. RepliesAreAnswers'
    BY <1>1 DEF MInv, RepliesAreAnswers
  <1>4. OneUnderWay' /\ ReplyMatchesRequest' /\ PeekedIsTaken'
    BY DEF OneUnderWay, ReplyMatchesRequest, PeekedIsTaken
  <1>5. ContextComplete' /\ BusyOnlyIfReady'
    BY DEF MInv, ContextComplete, BusyOnlyIfReady
  <1> QED
    BY <1>2, <1>3, <1>4, <1>5 DEF MInv

LEMMA SendPreserves == MInv /\ (Send \/ SendFails) => MInv'
  <1> SUFFICES ASSUME MInv, Send \/ SendFails PROVE MInv'
    OBVIOUS
  <1>1. CASE SendFails
    BY <1>1, FailurePreserves DEF SendFails, MInv, TypeOK
  <1>2. CASE Send
    <2> USE <1>2 DEF Send, heapVars
    <2>1. TypeOK'
      BY BoundsAssumption DEF MInv, TypeOK, HeapTypeOK
    <2>2. RepliesAreAnswers'
      BY DEF MInv, RepliesAreAnswers
    <2>3. OneUnderWay'
      BY DEF MInv, TypeOK, OneUnderWay
    <2>4. ReplyMatchesRequest' /\ PeekedIsTaken' /\ ContextComplete' /\ BusyOnlyIfReady'
      BY DEF MInv, ReplyMatchesRequest, PeekedIsTaken, ContextComplete, BusyOnlyIfReady
    <2> QED
      BY <2>1, <2>2, <2>3, <2>4 DEF MInv
  <1> QED
    BY <1>1, <1>2

LEMMA PeekPreserves == MInv /\ Peek => MInv'
  <1> SUFFICES ASSUME MInv, Peek PROVE MInv'
    OBVIOUS
  <1> USE DEF Peek, heapVars
  <1>1. Head(queue) \in Datagram
    BY TailShifts DEF MInv, TypeOK
  <1>2. TypeOK'
    BY <1>1 DEF MInv, TypeOK, HeapTypeOK
  <1>3. (RepliesAreAnswers /\ OneUnderWay)'
    BY DEF MInv, RepliesAreAnswers, OneUnderWay
  <1>4. ReplyMatchesRequest' /\ PeekedIsTaken' /\ ContextComplete' /\ BusyOnlyIfReady'
    BY DEF MInv, ReplyMatchesRequest, PeekedIsTaken, ContextComplete, BusyOnlyIfReady
  <1> QED
    BY <1>2, <1>3, <1>4 DEF MInv

LEMMA TakePreserves == MInv /\ Take => MInv'
  <1> SUFFICES ASSUME MInv, Take PROVE MInv'
    OBVIOUS
  <1>1. CASE Head(queue).source # eid
    BY <1>1, FailurePreserves DEF Take, MInv, TypeOK
  <1>2. CASE Head(queue).source = eid
    <2> USE <1>2 DEF Take, heapVars
    <2>1. /\ queue \in Seq(Datagram) /\ queue # <<>>
          /\ queue' = Tail(queue) /\ queue' \in Seq(Datagram)
          /\ Len(queue') = Len(queue) - 1
          /\ \A i \in 1 .. Len(queue') :
                 i + 1 \in 1 .. Len(queue) /\ queue'[i] = queue[i + 1]
          /\ Head(queue) = queue[1] /\ 1 \in 1 .. Len(queue)
          /\ Head(queue) \in Datagram
      BY TailShifts DEF MInv, TypeOK
    <2>2. TypeOK'
      <3>1. Len(queue') <= MaxQueue
        BY <2>1, BoundsAssumption DEF MInv, TypeOK
      <3>2. HeapTypeOK'
        BY DEF MInv, TypeOK, HeapTypeOK
      <3> QED
        BY <2>1, <3>1, <3>2 DEF MInv, TypeOK
    <2>3. RepliesAreAnswers'
      BY <2>1 DEF MInv, RepliesAreAnswers
    <2>4. OneUnderWay'
      <3> SUFFICES ASSUME ~failed PROVE OneUnderWay'
        BY DEF OneUnderWay
      <3>1. Head(queue).msg = asked /\ Head(queue).msg \in 1 .. answered
        BY <2>1 DEF MInv, OneUnderWay, RepliesAreAnswers
      <3>2. answered = asked
        BY <3>1 DEF MInv, TypeOK
      <3>3. \A i \in 1 .. Len(queue') : queue'[i].source # eid
        <4> SUFFICES ASSUME NEW i \in 1 .. Len(queue'), queue'[i].source = eid
                     PROVE  FALSE
          OBVIOUS
        <4>1. i + 1 \in 1 .. Len(queue) /\ queue[i + 1].source = eid
          BY <2>1
        <4>2. i + 1 = 1
          BY <4>1, <2>1 DEF MInv, OneUnderWay
        <4> QED
          BY <4>2
      <3> QED
        BY <3>2, <3>3 DEF OneUnderWay
    <2>5. ReplyMatchesRequest'
      <3>1. Head(queue).msg \in 1 .. answered
        BY <2>1 DEF MInv, RepliesAreAnswers
      <3>2. ~failed => Head(queue).msg = asked
        BY <2>1 DEF MInv, OneUnderWay
      <3> QED
        BY <3>1, <3>2 DEF MInv, TypeOK, ReplyMatchesRequest
    <2>6. PeekedIsTaken' /\ ContextComplete' /\ BusyOnlyIfReady'
      BY DEF MInv, PeekedIsTaken, ContextComplete, BusyOnlyIfReady
    <2> QED
      BY <2>2, <2>3, <2>4, <2>5, <2>6 DEF MInv
  <1> QED
    BY <1>1, <1>2

LEMMA SignalPreserves == MInv /\ Signal => MInv'
  <1> SUFFICES ASSUME MInv, Signal PROVE MInv'
    OBVIOUS
  <1>1. CASE phase = "peek" /\ queue = <<>>
    BY <1>1, FailurePreserves DEF Signal
  <1>2. CASE ~(phase = "peek" /\ queue = <<>>)
    <2> USE <1>2 DEF Signal, exchangeVars, heapVars
    <2>1. TypeOK'
      BY DEF MInv, TypeOK, HeapTypeOK
    <2>2. (RepliesAreAnswers /\ OneUnderWay)'
      BY DEF MInv, RepliesAreAnswers, OneUnderWay
    <2>3. ReplyMatchesRequest' /\ PeekedIsTaken' /\ ContextComplete' /\ BusyOnlyIfReady'
      BY DEF MInv, ReplyMatchesRequest, PeekedIsTaken, ContextComplete, BusyOnlyIfReady
    <2> QED
      BY <2>1, <2>2, <2>3 DEF MInv
  <1> QED
    BY <1>1, <1>2

-----------------------------------------------------------------------------
(* A datagram joins the queue: another endpoint's, or the reply of eid.    *)
LEMMA ArrivalPreserves ==
    ASSUME MInv, NEW d \in Datagram,
           Len(queue) < MaxQueue, queue' = Append(queue, d),
           UNCHANGED <<socketFd, signalled, exchangeVars, heapVars>>,
           \/ d.source # eid /\ answered' = answered
           \/ /\ answered < asked /\ answered' = answered + 1
              /\ d.msg = answered + 1
    PROVE  MInv'
  <1> USE DEF exchangeVars, heapVars
  <1>1. /\ queue' \in Seq(Datagram) /\ Len(queue') = Len(queue) + 1
        /\ \A i \in 1 .. Len(queue) : queue'[i] = queue[i]
        /\ queue'[Len(queue) + 1] = d
        /\ queue' # <<>>
        /\ queue # <<>> => Head(queue') = Head(queue)
        /\ Len(queue) \in Nat
    BY AppendKeeps DEF MInv, TypeOK
  <1>2. \A i \in 1 .. Len(queue') : i \in 1 .. Len(queue) \/ i = Len(queue')
    BY <1>1
  <1>3. TypeOK'
    BY <1>1, BoundsAssumption DEF MInv, TypeOK, HeapTypeOK
  <1>4. RepliesAreAnswers'
    BY <1>1, <1>2 DEF MInv, TypeOK, RepliesAreAnswers
  <1>5. OneUnderWay'
    <2> SUFFICES ASSUME ~failed PROVE OneUnderWay'
      BY DEF OneUnderWay
    <2>1. CASE d.source # eid /\ answered' = answered
      BY <1>1, <1>2, <2>1 DEF MInv, TypeOK, OneUnderWay
    <2>2. CASE answered < asked /\ answered' = answered + 1 /\ d.msg = answered + 1
      <3>1. phase # "idle" /\ answered' = asked /\ d.msg = asked
        BY <2>2 DEF MInv, TypeOK, OneUnderWay
      <3>2. ASSUME NEW i \in 1 .. Len(queue) PROVE queue[i].source # eid
        <4> SUFFICES ASSUME queue[i].source = eid PROVE FALSE
          OBVIOUS
        <4>1. queue[i].msg = asked /\ queue[i].msg \in 1 .. answered
          BY DEF MInv, OneUnderWay, RepliesAreAnswers
        <4> QED
          BY <4>1, <2>2 DEF MInv, TypeOK
      <3>3. \A i \in 1 .. Len(queue') : queue'[i].source = eid => i = Len(queue')
        BY <1>1, <1>2, <3>2
      <3> QED
        BY <1>1, <3>1, <3>3 DEF MInv, TypeOK, OneUnderWay
    <2> QED
      BY <2>1, <2>2
  <1>6. ReplyMatchesRequest' /\ ContextComplete' /\ BusyOnlyIfReady'
    BY DEF MInv, ReplyMatchesRequest, ContextComplete, BusyOnlyIfReady
  <1>7. PeekedIsTaken'
    BY <1>1 DEF MInv, PeekedIsTaken
  <1> QED
    BY <1>3, <1>4, <1>5, <1>6, <1>7 DEF MInv

LEMMA NetworkPreserves ==
    MInv /\ (Reply \/ LoseReply \/ \E e \in Strangers : StrangerSends(e)) => MInv'
  <1> SUFFICES ASSUME MInv, Reply \/ LoseReply \/ \E e \in Strangers : StrangerSends(e)
               PROVE  MInv'
    OBVIOUS
  <1>1. CASE Reply
    <2>1. [source |-> eid, msg |-> answered + 1] \in Datagram
      BY <1>1, BoundsAssumption DEF MInv, TypeOK, Reply, Datagram
    <2> QED
      BY <1>1, <2>1, ArrivalPreserves DEF Reply
  <1>2. CASE LoseReply
    <2> USE <1>2 DEF LoseReply, exchangeVars, heapVars
    <2>1. TypeOK'
      BY DEF MInv, TypeOK, HeapTypeOK
    <2>2. RepliesAreAnswers'
      BY DEF MInv, TypeOK, RepliesAreAnswers
    <2>3. OneUnderWay'
      BY DEF MInv, TypeOK, OneUnderWay
    <2>4. ReplyMatchesRequest' /\ PeekedIsTaken' /\ ContextComplete' /\ BusyOnlyIfReady'
      BY DEF MInv, ReplyMatchesRequest, PeekedIsTaken, ContextComplete, BusyOnlyIfReady
    <2> QED
      BY <2>1, <2>2, <2>3, <2>4 DEF MInv
  <1>3. ASSUME NEW e \in Strangers, StrangerSends(e) PROVE MInv'
    <2>1. /\ [source |-> e, msg |-> 0] \in Datagram
          /\ [source |-> e, msg |-> 0].source # eid
      BY StrangersAssumption, BoundsAssumption DEF Datagram
    <2> QED
      BY <1>3, <2>1, ArrivalPreserves DEF StrangerSends
  <1> QED
    BY <1>1, <1>2, <1>3

LEMMA MStep == MInv /\ [Next]_vars => MInv'
  <1> SUFFICES ASSUME MInv, [Next]_vars PROVE MInv'
    OBVIOUS
  <1>1. CASE UNCHANGED vars
    <2> USE <1>1 DEF vars
    <2>1. TypeOK'
      BY DEF MInv, TypeOK, HeapTypeOK
    <2>2. (RepliesAreAnswers /\ OneUnderWay)'
      BY DEF MInv, RepliesAreAnswers, OneUnderWay
    <2>3. ReplyMatchesRequest' /\ PeekedIsTaken' /\ ContextComplete' /\ BusyOnlyIfReady'
      BY DEF MInv, ReplyMatchesRequest, PeekedIsTaken, ContextComplete, BusyOnlyIfReady
    <2> QED
      BY <2>1, <2>2, <2>3 DEF MInv
  <1> QED
    BY <1>1, InitializePreserves, SendPreserves, PeekPreserves, TakePreserves,
       SignalPreserves, NetworkPreserves DEF Next

-----------------------------------------------------------------------------
(* What holds of the socket, the exchanges and the queue in every state    *)
(* that SpdmMctpTransport reaches, and is kept by each of its steps.       *)
THEOREM MctpInvariant == Spec => []MInv
  BY MInitial, MStep, PTL DEF Spec

(* Every variable keeps its type; the queue stays within its bound.        *)
THEOREM MctpTypeCorrect == Spec => []TypeOK
  BY MctpInvariant, PTL DEF MInv

(* Whatever other endpoints send, libspdm is only ever handed datagrams of *)
(* eid, and until an exchange fails only the answer to its last request.   *)
THEOREM MctpReplyMatchesRequest == Spec => []ReplyMatchesRequest
  BY MctpInvariant, PTL DEF MInv

(* The datagram recvfrom() takes is the one the peek measured.             *)
THEOREM MctpPeekedIsTaken == Spec => []PeekedIsTaken
  BY MctpInvariant, PTL DEF MInv

(* A usable context has its scratch buffer and its socket, whatever part   *)
(* of a later initialize() failed.                                         *)
THEOREM MctpContextComplete == Spec => []ContextComplete
  BY MctpInvariant, PTL DEF MInv

-----------------------------------------------------------------------------
(* MctpTransport implements SpdmLink: each step is a step of the link, or  *)
(* changes nothing of it.                                                  *)
LEMMA LinkInitial == Init => Link!Init
  BY DEF Init, HeapInit, NoDatagram, Link!Init

LEMMA LinkFail ==
    ASSUME ExchangeFails, spdmContext = "ready" PROVE Link!Fail
  BY DEF ExchangeFails, heapVars, NoDatagram, Link!Fail

(* A datagram taken from eid answers a request that was asked.             *)
LEMMA LinkTake ==
    ASSUME MInv, MInv', Take PROVE Link!Next
  <1>1. phase = "take" /\ spdmContext = "ready"
    BY DEF Take, MInv, BusyOnlyIfReady
  <1>2. CASE Head(queue).source # eid
    BY <1>1, <1>2, LinkFail DEF Take, Link!Next
  <1>3. CASE Head(queue).source = eid
    <2>1. /\ phase' = "idle" /\ handed' = Head(queue)
          /\ UNCHANGED <<spdmContext, asked, failed>>
      BY <1>3 DEF Take
    <2>2. Head(queue) \in Datagram
      BY TailShifts DEF Take, MInv, TypeOK
    <2>3. handed' # NoDatagram
      <3>1. NoDatagram.source = "nobody" /\ NoDatagram.msg = 0
        BY DEF NoDatagram
      <3>2. Head(queue).msg \in 1 .. answered
        <4>1. 1 \in 1 .. Len(queue) /\ Head(queue) = queue[1]
          BY TailShifts DEF Take, MInv, TypeOK
        <4> QED
          BY <1>3, <4>1 DEF MInv, RepliesAreAnswers
      <3> QED
        BY <2>1, <3>1, <3>2 DEF MInv, TypeOK
    <2>4. handed'.msg \in 1 .. asked /\ (~failed => handed'.msg = asked)
      BY <2>1, <2>3 DEF MInv, ReplyMatchesRequest
    <2> QED
      BY <1>1, <2>1, <2>4 DEF Link!Next, Link!Answer
  <1> QED
    BY <1>2, <1>3

LEMMA LinkStep == MInv /\ MInv' /\ [Next]_vars => [Link!Next]_Link!vars
  <1> SUFFICES ASSUME MInv, MInv', [Next]_vars
               PROVE  Link!Next \/ UNCHANGED Link!vars
    BY Zenon
  <1>1. CASE UNCHANGED vars
    BY <1>1 DEF vars, Link!vars
  <1>2. CASE Initialize
    BY <1>2, InitializeEffect DEF exchangeVars, Link!Next, Link!Initialize
  <1>3. CASE Send
    BY <1>3 DEF Send, NoDatagram, heapVars, Link!Next, Link!Ask
  <1>4. CASE SendFails
    BY <1>4, LinkFail DEF SendFails, Link!Next
  <1>5. CASE Peek
    BY <1>5 DEF Peek, heapVars, Link!vars
  <1>6. CASE Signal
    <2>1. CASE phase = "peek" /\ queue = << >>
      BY <1>6, <2>1, LinkFail DEF Signal, MInv, BusyOnlyIfReady, Link!Next
    <2>2. CASE ~(phase = "peek" /\ queue = << >>)
      BY <1>6, <2>2 DEF Signal, exchangeVars, heapVars, Link!vars
    <2> QED
      BY <2>1, <2>2
  <1>7. CASE Reply \/ LoseReply \/ \E e \in Strangers : StrangerSends(e)
    <2>1. UNCHANGED <<exchangeVars, heapVars>>
      BY <1>7 DEF Reply, LoseReply, StrangerSends
    <2> QED
      BY <2>1 DEF exchangeVars, heapVars, Link!vars
  <1> QED
    BY <1>1, <1>2, <1>3, <1>4, <1>5, <1>6, <1>7, LinkTake DEF Next

(* Whatever strangers send and the network loses, libspdm is promised no   *)
(* less than SpdmLink says.                                                *)
THEOREM MctpImplementsLink == Spec => ImplementsLink
  <1>1. Spec => []MInv
    BY MctpInvariant
  <1> QED
    BY <1>1, LinkInitial, LinkStep, PTL DEF Spec, ImplementsLink, Link!Spec

=============================================================================
