-------------------------- MODULE TcpTransportProofs --------------------------
(***************************************************************************)
(* Proofs about TcpTransport, for every size of header and message, every  *)
(* number of requests and every way the stream is cut into recv() results. *)
(***************************************************************************)
EXTENDS TcpTransport, SequenceTheorems, TLAPS

(* The request is out and nothing of a reply has come; the peer may have   *)
(* decided never to send one.                                              *)
NothingYet ==
    /\ phase = "header" /\ buf = <<>> /\ stream = <<>>
    /\ answered = asked \/ answered + 1 = asked

(* What has been collected and what is still under way make the reply to   *)
(* the last request, and the payload loop knows its length.                *)
OfTheReply ==
    /\ answered = asked
    /\ \E n \in 1 .. MaxBody :
           /\ buf \o stream = Frame(asked, n)
           /\ phase = "payload" => msgLen = n /\ HeaderUnits <= Len(buf)

(* Until an exchange fails on the connection nothing is under way between  *)
(* two exchanges, and during one nothing but its reply.                    *)
OneUnderWay ==
    /\ phase # "idle" => asked # 0
    /\ ~failed =>
        /\ phase = "idle" => stream = <<>> /\ answered = asked
        /\ phase # "idle" => NothingYet \/ OfTheReply

(* Nothing under way, read or unread, answers a request to come. *)
OfRequests(w) == \A i \in 1 .. Len(w) : w[i].msg <= asked

(* The payload loop starts behind a collected header. *)
HeaderFirst == phase = "payload" => HeaderUnits <= Len(buf)

(* Exchanges run on a context that was set up.                             *)
BusyOnlyIfReady == phase # "idle" => spdmContext = "ready"

TInv ==
    /\ TypeOK /\ OneUnderWay /\ OfRequests(buf) /\ OfRequests(stream)
    /\ HeaderFirst /\ BusyOnlyIfReady /\ ReplyMatchesRequest /\ ContextComplete

-----------------------------------------------------------------------------
(* Frames, and cutting a piece off the stream. *)

LEMMA FrameProperties ==
    ASSUME NEW k \in 1 .. MaxRequests, NEW n \in 1 .. MaxBody
    PROVE  /\ Frame(k, n) \in Seq(Unit)
           /\ Len(Frame(k, n)) = HeaderUnits + n
           /\ \A i \in 1 .. HeaderUnits + n :
                  /\ Frame(k, n)[i].msg = k
                  /\ Frame(k, n)[i].len = n
                  /\ Frame(k, n)[i].part = "header" <=> i <= HeaderUnits
           /\ HeaderUnits \in Nat \ {0} /\ HeaderUnits + n \in Nat
  <1>1. HeaderUnits + n \in Nat /\ HeaderUnits \in Nat \ {0}
    BY UnitsAssumption
  <1>2. \A i \in 1 .. HeaderUnits + n :
            [msg |-> k, part |-> IF i <= HeaderUnits THEN "header" ELSE "body",
             len |-> n] \in Unit
    BY DEF Unit
  <1> QED
    BY <1>1, <1>2 DEF Frame

(* Where the units of two sequences are in their concatenation.            *)
LEMMA ConcatIndex ==
    ASSUME NEW u \in Seq(Unit), NEW v \in Seq(Unit)
    PROVE  /\ Len(u) \in Nat /\ Len(v) \in Nat
           /\ u \o v \in Seq(Unit) /\ Len(u \o v) = Len(u) + Len(v)
           /\ \A i \in 1 .. Len(u) : (u \o v)[i] = u[i]
           /\ \A i \in 1 .. Len(v) : (u \o v)[Len(u) + i] = v[i]
  <1>1. /\ Len(u) \in Nat /\ Len(v) \in Nat
        /\ u \o v \in Seq(Unit) /\ Len(u \o v) = Len(u) + Len(v)
        /\ \A i \in 1 .. Len(u) + Len(v) :
               (u \o v)[i] = IF i <= Len(u) THEN u[i] ELSE v[i - Len(u)]
    BY LenProperties, ConcatProperties
  <1> DEFINE w == u \o v
  <1>2. \A i \in 1 .. Len(u) + Len(v) :
            w[i] = IF i <= Len(u) THEN u[i] ELSE v[i - Len(u)]
    BY <1>1
  <1> HIDE DEF w
  <1>3. \A i \in 1 .. Len(u) : w[i] = u[i]
    BY <1>1, <1>2
  <1>4. \A i \in 1 .. Len(v) : w[Len(u) + i] = v[i]
    <2> TAKE i \in 1 .. Len(v)
    <2>1. /\ Len(u) + i \in 1 .. Len(u) + Len(v) /\ ~(Len(u) + i <= Len(u))
          /\ (Len(u) + i) - Len(u) = i
      BY <1>1
    <2> QED
      BY <1>2, <2>1
  <1> QED
    BY <1>1, <1>3, <1>4 DEF w

(* What holds of the units of two sequences holds of their concatenation,  *)
(* and the other way round.                                                *)
LEMMA OfRequestsConcat ==
    ASSUME NEW u \in Seq(Unit), NEW v \in Seq(Unit)
    PROVE  OfRequests(u \o v) <=> OfRequests(u) /\ OfRequests(v)
  <1> DEFINE w == u \o v
  <1>1. /\ Len(u) \in Nat /\ Len(v) \in Nat /\ Len(w) = Len(u) + Len(v)
        /\ \A i \in 1 .. Len(u) : w[i] = u[i]
        /\ \A i \in 1 .. Len(v) : w[Len(u) + i] = v[i]
    BY ConcatIndex
  <1> HIDE DEF w
  <1>2. \A i \in 1 .. Len(u) : i \in 1 .. Len(w)
    BY <1>1
  <1>3. \A i \in 1 .. Len(v) : Len(u) + i \in 1 .. Len(w)
    BY <1>1
  <1>4. \A i \in 1 .. Len(w) :
            i \in 1 .. Len(u) \/ (i - Len(u) \in 1 .. Len(v) /\ i = Len(u) + (i - Len(u)))
    BY <1>1
  <1>5. ASSUME OfRequests(w) PROVE OfRequests(u) /\ OfRequests(v)
    BY <1>1, <1>2, <1>3, <1>5, Zenon DEF OfRequests
  <1>6. ASSUME OfRequests(u), OfRequests(v), NEW i \in 1 .. Len(w) PROVE w[i].msg <= asked
    BY <1>1, <1>4, <1>6, Zenon DEF OfRequests
  <1> QED
    BY <1>5, <1>6 DEF OfRequests, w

(* A sequence cut behind its n-th unit.                                    *)
LEMMA CutInTwo ==
    ASSUME NEW s \in Seq(Unit), NEW n \in Nat, n <= Len(s)
    PROVE  /\ Len(s) \in Nat
           /\ SubSeq(s, 1, n) \in Seq(Unit) /\ Len(SubSeq(s, 1, n)) = n
           /\ SubSeq(s, n + 1, Len(s)) \in Seq(Unit)
           /\ Len(SubSeq(s, n + 1, Len(s))) = Len(s) - n
           /\ s = SubSeq(s, 1, n) \o SubSeq(s, n + 1, Len(s))
  <1> DEFINE head == SubSeq(s, 1, n)
             rest == SubSeq(s, n + 1, Len(s))
  <1>1. Len(s) \in Nat
    BY LenProperties
  <1>2. \A i \in 1 .. n : s[i] \in Unit
    BY <1>1, ElementOfSeq
  <1>3. \A i \in n + 1 .. Len(s) : s[i] \in Unit
    BY <1>1, ElementOfSeq
  <1>4. head \in Seq(Unit) /\ Len(head) = IF 1 <= n THEN n - 1 + 1 ELSE 0
    BY <1>2, SubSeqProperties
  <1>5. /\ rest \in Seq(Unit)
        /\ Len(rest) = IF n + 1 <= Len(s) THEN Len(s) - (n + 1) + 1 ELSE 0
    BY <1>1, <1>3, SubSeqProperties
  <1>6. 1 \in 1 .. Len(s) + 1 /\ n \in 1 - 1 .. Len(s) /\ Len(s) \in n .. Len(s)
    BY <1>1
  <1>7. head \o rest = SubSeq(s, 1, Len(s))
    BY <1>1, <1>6, ConcatAdjacentSubSeq
  <1>8. SubSeq(s, 1, Len(s)) = s
    BY SubSeqFull
  <1> HIDE DEF head, rest
  <1>9. Len(head) = n
    BY <1>4
  <1>10. Len(rest) = Len(s) - n
    BY <1>1, <1>5
  <1> QED
    BY <1>1, <1>4, <1>5, <1>7, <1>8, <1>9, <1>10 DEF head, rest

LEMMA Associative ==
    ASSUME NEW u \in Seq(Unit), NEW v \in Seq(Unit), NEW w \in Seq(Unit)
    PROVE  (u \o v) \o w = u \o (v \o w)
  BY ConcatAssociative

(* A recv() of n units moves them and neither adds nor drops one.          *)
LEMMA RecvMoves ==
    ASSUME TypeOK, NEW n \in Nat \ {0}, n <= Len(stream), Recv(n)
    PROVE  /\ buf' \in Seq(Unit) /\ stream' \in Seq(Unit)
           /\ Len(buf') = Len(buf) + n
           /\ Len(stream') = Len(stream) - n
           /\ buf' \o stream' = buf \o stream
           /\ Len(buf) \in Nat /\ Len(stream) \in Nat
           /\ \E u \in Seq(Unit) : buf' = buf \o u /\ stream = u \o stream'
  <1> DEFINE head == SubSeq(stream, 1, n)
  <1>1. buf \in Seq(Unit) /\ stream \in Seq(Unit) /\ Len(buf) \in Nat
    BY LenProperties DEF TypeOK
  <1>2. buf' = buf \o head /\ stream' = SubSeq(stream, n + 1, Len(stream))
    BY DEF Recv
  <1>3. /\ Len(stream) \in Nat
        /\ head \in Seq(Unit) /\ Len(head) = n
        /\ stream' \in Seq(Unit) /\ Len(stream') = Len(stream) - n
        /\ stream = head \o stream'
    BY <1>1, <1>2, CutInTwo
  <1> HIDE DEF head
  <1>4. buf' \in Seq(Unit) /\ Len(buf') = Len(buf) + n
    <2>1. buf \o head \in Seq(Unit) /\ Len(buf \o head) = Len(buf) + Len(head)
      BY <1>1, <1>3, ConcatIndex
    <2> QED
      BY <1>2, <1>3, <2>1
  <1>5. buf' \o stream' = buf \o stream
    <2>1. (buf \o head) \o stream' = buf \o (head \o stream')
      BY <1>1, <1>3, Associative
    <2> QED
      BY <1>2, <1>3, <2>1
  <1> QED
    BY <1>1, <1>2, <1>3, <1>4, <1>5

(* A header cut from the front of a frame is recognised, and says its      *)
(* length.                                                                 *)
LEMMA HeaderOfFrame ==
    ASSUME NEW b \in Seq(Unit), NEW s \in Seq(Unit), HeaderUnits <= Len(b),
           NEW k \in 1 .. MaxRequests, NEW n \in 1 .. MaxBody,
           b \o s = Frame(k, n)
    PROVE  FrameHeader(b) /\ b[1].len = n
  <1>1. /\ 1 \in 1 .. Len(b) /\ HeaderUnits \in 1 .. Len(b)
        /\ Len(b) \in Nat /\ Len(s) \in Nat
    BY UnitsAssumption, LenProperties
  <1>2. SubSeq(b \o s, 1, HeaderUnits) = SubSeq(b, 1, HeaderUnits)
    BY <1>1, SubSeqOfConcat1
  <1>3. FrameHeader(b)
    BY <1>2 DEF FrameHeader
  <1>4. 1 \in 1 .. Len(b) + Len(s) /\ 1 <= Len(b)
    BY <1>1
  <1>5. (b \o s)[1] = b[1]
    BY <1>4, ConcatProperties
  <1>6. Frame(k, n)[1].len = n
    BY FrameProperties, UnitsAssumption
  <1> QED
    BY <1>3, <1>5, <1>6

-----------------------------------------------------------------------------
LEMMA NoUnits == << >> \in Seq(Unit) /\ Len(<< >>) = 0 /\ OfRequests(<< >>)
  BY DEF OfRequests

LEMMA TInitial == Init => TInv
  <1> SUFFICES ASSUME Init PROVE TInv
    OBVIOUS
  <1> USE DEF Init, HeapInit
  <1>1. <<>> \in Seq(Unit) /\ 0 \in 0 .. MaxRequests /\ 0 \in 0 .. MaxBody /\ 0 \in 0 .. 0
    BY UnitsAssumption, MaxRequestsAssumption
  <1>2. TypeOK
    BY <1>1 DEF TypeOK, HeapTypeOK
  <1>3. OneUnderWay /\ ReplyMatchesRequest /\ ContextComplete
    BY DEF OneUnderWay, ReplyMatchesRequest, ContextComplete
  <1>4. OfRequests(buf) /\ OfRequests(stream) /\ HeaderFirst /\ BusyOnlyIfReady
    BY NoUnits DEF HeaderFirst, BusyOnlyIfReady
  <1> QED
    BY <1>2, <1>3, <1>4 DEF TInv

-----------------------------------------------------------------------------
(* initialize() runs between exchanges; if it connects anew or closes the  *)
(* socket, nothing is under way afterwards.                                *)
LEMMA InitializeEffect ==
    ASSUME TInv, Initialize
    PROVE  /\ HeapTypeOK'
           /\ spdmContext' = "ready" => scratchBuffer' = "owned" /\ socketFd' = "open"
           /\ phase = "idle"
           /\ UNCHANGED <<peer, asked, phase, buf, msgLen>>
           /\ \/ UNCHANGED <<linkVars, exchangeVars>>
              \/ /\ socketFd' \in {"closed", "open"} /\ link' \in {"up", "gone"}
                 /\ stream' = <<>> /\ answered' = asked
                 /\ \/ failed' = failed /\ handed' = handed
                    \/ failed' = FALSE /\ handed' = <<>>
  <1> USE DEF TInv, TypeOK, HeapTypeOK, OldContext, OldScratch
  <1>1. CASE InitializeSucceeds
    BY <1>1 DEF InitializeSucceeds, CreateSocket, ContextBuilt, linkVars, exchangeVars
  <1>2. CASE InitializeNoContext
    BY <1>2 DEF InitializeNoContext, CreateSocket, AllocateContextFails, linkVars, exchangeVars
  <1>3. CASE InitializeNoScratch
    BY <1>3 DEF InitializeNoScratch, CloseSocket, SetupScratchBufferFails, exchangeVars
  <1> QED
    BY <1>1, <1>2, <1>3 DEF Initialize

LEMMA InitializePreserves == TInv /\ Initialize => TInv'
  <1> SUFFICES ASSUME TInv, Initialize PROVE TInv'
    OBVIOUS
  <1>1. ContextComplete' /\ HeaderFirst' /\ BusyOnlyIfReady'
    BY InitializeEffect DEF ContextComplete, HeaderFirst, BusyOnlyIfReady
  <1>2. CASE UNCHANGED <<linkVars, exchangeVars>>
    <2> USE <1>2, InitializeEffect DEF linkVars, exchangeVars
    <2>1. TypeOK'
      BY DEF TInv, TypeOK
    <2>2. OneUnderWay' /\ ReplyMatchesRequest'
      BY DEF TInv, OneUnderWay, ReplyMatchesRequest
    <2>3. OfRequests(buf)' /\ OfRequests(stream)'
      BY DEF TInv, OfRequests
    <2> QED
      BY <1>1, <2>1, <2>2, <2>3 DEF TInv
  <1>3. CASE /\ socketFd' \in {"closed", "open"} /\ link' \in {"up", "gone"}
             /\ stream' = << >> /\ answered' = asked
             /\ \/ failed' = failed /\ handed' = handed
                \/ failed' = FALSE /\ handed' = << >>
    <2>1. << >> \in Seq(Unit) /\ asked \in 0 .. asked
      BY DEF TInv, TypeOK
    <2>2. TypeOK'
      BY <1>3, <2>1, InitializeEffect DEF TInv, TypeOK
    <2>3. OneUnderWay'
      BY <1>3, InitializeEffect DEF OneUnderWay
    <2>4. ReplyMatchesRequest'
      <3>1. UNCHANGED asked
        BY InitializeEffect
      <3>2. CASE failed' = failed /\ handed' = handed
        BY <3>1, <3>2 DEF TInv, ReplyMatchesRequest
      <3>3. CASE handed' = << >>
        BY <3>3 DEF ReplyMatchesRequest
      <3> QED
        BY <1>3, <3>2, <3>3
    <2>5. OfRequests(buf)' /\ OfRequests(stream)'
      BY <1>3, NoUnits, InitializeEffect DEF TInv, OfRequests
    <2> QED
      BY <1>1, <2>2, <2>3, <2>4, <2>5 DEF TInv
  <1> QED
    BY <1>2, <1>3, InitializeEffect

(* A failed exchange ends the promises that hold only until one fails.     *)
LEMMA FailurePreserves == TInv /\ ExchangeFails /\ UNCHANGED linkVars => TInv'
  <1> SUFFICES ASSUME TInv, ExchangeFails, UNCHANGED linkVars PROVE TInv'
    OBVIOUS
  <1> USE DEF ExchangeFails, heapVars, linkVars
  <1>1. 0 \in 0 .. MaxBody
    BY UnitsAssumption
  <1>2. TypeOK'
    BY <1>1, NoUnits DEF TInv, TypeOK, HeapTypeOK
  <1>3. OneUnderWay' /\ ReplyMatchesRequest'
    BY DEF OneUnderWay, ReplyMatchesRequest
  <1>4. ContextComplete' /\ HeaderFirst' /\ BusyOnlyIfReady'
    BY DEF TInv, ContextComplete, HeaderFirst, BusyOnlyIfReady
  <1>5. OfRequests(buf)' /\ OfRequests(stream)'
    BY NoUnits DEF TInv, OfRequests
  <1> QED
    BY <1>2, <1>3, <1>4, <1>5 DEF TInv

LEMMA SendPreserves == TInv /\ Send => TInv'
  <1> SUFFICES ASSUME TInv, Send PROVE TInv'
    OBVIOUS
  <1> USE DEF Send, linkVars, heapVars
  <1>1. 0 \in 0 .. MaxBody
    BY UnitsAssumption
  <1>2. asked + 1 \in 0 .. MaxRequests /\ answered \in 0 .. asked + 1 /\ asked + 1 # 0
    BY MaxRequestsAssumption DEF TInv, TypeOK
  <1>3. TypeOK'
    BY <1>1, <1>2, NoUnits DEF TInv, TypeOK, HeapTypeOK
  <1>4. OneUnderWay'
    BY <1>2 DEF TInv, OneUnderWay, NothingYet
  <1>5. ReplyMatchesRequest' /\ ContextComplete' /\ HeaderFirst' /\ BusyOnlyIfReady'
    BY DEF TInv, ReplyMatchesRequest, ContextComplete, HeaderFirst, BusyOnlyIfReady
  <1>6. OfRequests(buf)'
    BY NoUnits DEF OfRequests
  <1>7. OfRequests(stream)'
    <2>1. ASSUME NEW i \in 1 .. Len(stream) PROVE stream[i].msg <= asked'
      <3>1. stream[i] \in Unit
        BY <2>1, ElementOfSeq DEF TInv, TypeOK
      <3>2. stream[i].msg \in Int /\ stream[i].msg <= asked /\ asked \in Nat
        BY <2>1, <3>1 DEF Unit, TInv, TypeOK, OfRequests
      <3> QED
        BY <3>2
    <2> QED
      BY <2>1 DEF OfRequests
  <1> QED
    BY <1>3, <1>4, <1>5, <1>6, <1>7 DEF TInv

(* In either loop of read(), before a failure: the reply has begun.        *)
LEMMA ReplyBegun ==
    ASSUME TInv, ~failed, phase # "idle", buf # << >> \/ stream # << >>
    PROVE  /\ OfTheReply
           /\ asked \in 1 .. MaxRequests
  BY MaxRequestsAssumption DEF TInv, TypeOK, OneUnderWay, NothingYet

(* A recv() leaves the units about the requests they were about.           *)
LEMMA RecvOfRequests ==
    ASSUME TInv, NEW n \in Nat \ {0}, n <= Len(stream), Recv(n)
    PROVE  OfRequests(buf)' /\ OfRequests(stream)'
  <1>1. /\ buf' \in Seq(Unit) /\ stream' \in Seq(Unit)
        /\ buf' \o stream' = buf \o stream /\ asked' = asked
    BY RecvMoves DEF TInv, Recv
  <1>2. buf \in Seq(Unit) /\ stream \in Seq(Unit) /\ OfRequests(buf) /\ OfRequests(stream)
    BY DEF TInv, TypeOK
  <1>3. OfRequests(buf \o stream)
    BY <1>2, OfRequestsConcat
  <1> DEFINE b == buf'
             s == stream'
  <1>4. b \in Seq(Unit) /\ s \in Seq(Unit) /\ OfRequests(b \o s)
    BY <1>1, <1>3
  <1> HIDE DEF b, s
  <1>5. OfRequests(b) /\ OfRequests(s)
    BY <1>4, OfRequestsConcat
  <1> QED
    BY <1>1, <1>5 DEF OfRequests, b, s

LEMMA ReadHeaderPreserves ==
    ASSUME TInv, NEW n \in 1 .. HeaderUnits + MaxBody, ReadHeader(n)
    PROVE  TInv'
  <1>1. /\ n \in Nat \ {0} /\ n <= Len(stream) /\ Recv(n) /\ phase = "header"
        /\ UNCHANGED <<handed, spdmContext, scratchBuffer, lost>>
    BY DEF ReadHeader, heapVars
  <1>2. /\ buf' \in Seq(Unit) /\ stream' \in Seq(Unit)
        /\ Len(buf') = Len(buf) + n
        /\ buf' \o stream' = buf \o stream
        /\ Len(buf) \in Nat /\ Len(stream) \in Nat
    BY <1>1, RecvMoves DEF TInv
  <1>3. UNCHANGED <<socketFd, peer, link, answered, asked, failed>>
    BY <1>1 DEF Recv
  <1>4. phase' \in {"header", "payload"} /\ msgLen' \in 0 .. MaxBody
    <2>1. CASE Len(buf') < HeaderUnits
      BY <1>1, <2>1 DEF ReadHeader, TInv, TypeOK
    <2>2. CASE ~(Len(buf') < HeaderUnits)
      <3>1. 1 \in 1 .. Len(buf')
        BY <1>1, <1>2
      <3>2. buf'[1] \in Unit
        BY <1>2, <3>1, ElementOfSeq
      <3>3. buf'[1].len \in 1 .. MaxBody
        BY <3>2 DEF Unit
      <3> QED
        BY <2>2, <3>3, UnitsAssumption DEF ReadHeader
    <2> QED
      BY <2>1, <2>2
  <1>5. TypeOK'
    BY <1>1, <1>2, <1>3, <1>4 DEF TInv, TypeOK, HeapTypeOK
  <1>6. HeaderFirst'
    <2> SUFFICES ASSUME phase' = "payload" PROVE HeaderUnits <= Len(buf')
      BY DEF HeaderFirst
    <2>1. ~(Len(buf') < HeaderUnits)
      BY <1>1 DEF ReadHeader
    <2> QED
      BY <1>1, <1>2, <2>1, UnitsAssumption
  <1>7. OneUnderWay'
    <2>1. asked' # 0
      BY <1>1, <1>3 DEF TInv, OneUnderWay
    <2>2. ASSUME ~failed' PROVE OfTheReply'
      <3>1. stream # << >>
        BY <1>1
      <3>2. OfTheReply /\ asked \in 1 .. MaxRequests
        BY <1>1, <1>3, <2>2, <3>1, ReplyBegun
      <3>3. PICK m \in 1 .. MaxBody : buf \o stream = Frame(asked, m)
        BY <3>2 DEF OfTheReply
      <3>4. ASSUME phase' = "payload" PROVE msgLen' = m
        <4>1. ~(Len(buf') < HeaderUnits) /\ HeaderUnits <= Len(buf')
          BY <1>1, <1>6, <3>4 DEF ReadHeader, HeaderFirst
        <4>2. FrameHeader(buf') /\ buf'[1].len = m
          BY <1>2, <3>2, <3>3, <4>1, HeaderOfFrame
        <4> QED
          BY <4>1, <4>2 DEF ReadHeader
      <3> QED
        BY <1>2, <1>3, <1>6, <3>2, <3>3, <3>4 DEF OfTheReply, HeaderFirst
    <2> QED
      BY <1>4, <2>1, <2>2 DEF OneUnderWay
  <1>8. ReplyMatchesRequest' /\ ContextComplete' /\ BusyOnlyIfReady'
    BY <1>1, <1>3 DEF TInv, ReplyMatchesRequest, ContextComplete, BusyOnlyIfReady
  <1>9. OfRequests(buf)' /\ OfRequests(stream)'
    BY <1>1, RecvOfRequests
  <1> QED
    BY <1>5, <1>6, <1>7, <1>8, <1>9 DEF TInv

LEMMA ReadPayloadPreserves ==
    ASSUME TInv, NEW n \in 1 .. HeaderUnits + MaxBody, ReadPayload(n)
    PROVE  TInv'
  <1>1. /\ n \in Nat \ {0} /\ n <= Len(stream) /\ Recv(n) /\ phase = "payload"
        /\ UNCHANGED <<phase, msgLen, handed, spdmContext, scratchBuffer, lost>>
    BY DEF ReadPayload, heapVars
  <1>2. /\ buf' \in Seq(Unit) /\ stream' \in Seq(Unit)
        /\ Len(buf') = Len(buf) + n
        /\ buf' \o stream' = buf \o stream
        /\ Len(buf) \in Nat /\ Len(stream) \in Nat
    BY <1>1, RecvMoves DEF TInv
  <1>3. UNCHANGED <<socketFd, peer, link, answered, asked, failed>>
    BY <1>1 DEF Recv
  <1>4. TypeOK'
    BY <1>1, <1>2, <1>3 DEF TInv, TypeOK, HeapTypeOK
  <1>5. HeaderFirst'
    BY <1>1, <1>2, UnitsAssumption DEF TInv, HeaderFirst
  <1>6. OneUnderWay'
    <2>1. asked' # 0
      BY <1>1, <1>3 DEF TInv, OneUnderWay
    <2>2. ASSUME ~failed' PROVE OfTheReply'
      <3>1. stream # << >>
        BY <1>1
      <3>2. OfTheReply
        BY <1>1, <1>3, <2>2, <3>1, ReplyBegun
      <3> QED
        BY <1>1, <1>2, <1>3, <1>5, <3>2 DEF OfTheReply, HeaderFirst
    <2> QED
      BY <1>1, <2>1, <2>2 DEF OneUnderWay
  <1>7. ReplyMatchesRequest' /\ ContextComplete' /\ BusyOnlyIfReady'
    BY <1>1, <1>3 DEF TInv, ReplyMatchesRequest, ContextComplete, BusyOnlyIfReady
  <1>8. OfRequests(buf)' /\ OfRequests(stream)'
    BY <1>1, RecvOfRequests
  <1> QED
    BY <1>4, <1>5, <1>6, <1>7, <1>8 DEF TInv

(* Until an exchange fails, a read that has what it asked for has exactly  *)
(* the reply, and the stream has nothing left.                             *)
LEMMA CollectedReply ==
    ASSUME TInv, Collected, ~failed
    PROVE  /\ buf = Frame(asked, msgLen) /\ msgLen \in 1 .. MaxBody
           /\ stream = << >> /\ answered = asked
  <1>1. /\ HeaderUnits \in Nat \ {0} /\ msgLen \in Nat /\ phase = "payload"
        /\ Len(buf) = HeaderUnits + msgLen
        /\ buf \in Seq(Unit) /\ stream \in Seq(Unit)
    BY UnitsAssumption DEF Collected, TInv, TypeOK
  <1>2. buf # << >>
    BY <1>1
  <1>3. OfTheReply /\ asked \in 1 .. MaxRequests
    BY <1>1, <1>2, ReplyBegun
  <1>4. buf \o stream = Frame(asked, msgLen) /\ msgLen \in 1 .. MaxBody /\ answered = asked
    BY <1>1, <1>3 DEF OfTheReply
  <1>5. Len(buf \o stream) = Len(buf) + Len(stream) /\ Len(stream) \in Nat
    BY <1>1, ConcatIndex
  <1>6. Len(Frame(asked, msgLen)) = HeaderUnits + msgLen
    BY <1>3, <1>4, FrameProperties
  <1>7. Len(stream) = 0
    BY <1>1, <1>4, <1>5, <1>6
  <1>8. stream = << >>
    BY <1>1, <1>7
  <1>9. buf \o << >> = buf
    BY <1>1, ConcatEmptySeq
  <1> QED
    BY <1>4, <1>8, <1>9

LEMMA DecodePreserves == TInv /\ Decode => TInv'
  <1> SUFFICES ASSUME TInv, Decode PROVE TInv'
    OBVIOUS
  <1> USE DEF Decode, linkVars
  <1>1. TypeOK'
    BY DEF TInv, TypeOK, HeapTypeOK
  <1>2. OneUnderWay'
    BY CollectedReply DEF TInv, OneUnderWay
  <1>3. ReplyMatchesRequest'
    BY CollectedReply DEF ReplyMatchesRequest
  <1>4. ContextComplete' /\ HeaderFirst' /\ BusyOnlyIfReady'
    BY DEF TInv, ContextComplete, HeaderFirst, BusyOnlyIfReady
  <1>5. OfRequests(buf)' /\ OfRequests(stream)'
    BY DEF TInv, OfRequests
  <1> QED
    BY <1>1, <1>2, <1>3, <1>4, <1>5 DEF TInv

LEMMA ReplyPreserves ==
    ASSUME TInv, NEW n \in 1 .. MaxBody, Reply(n)
    PROVE  TInv'
  <1> USE DEF Reply, exchangeVars, heapVars
  <1>1. /\ answered + 1 \in 1 .. MaxRequests /\ answered + 1 \in 0 .. asked
        /\ asked \in Nat /\ answered \in Nat
    BY MaxRequestsAssumption DEF TInv, TypeOK
  <1>2. Frame(answered + 1, n) \in Seq(Unit)
    BY <1>1, FrameProperties
  <1>3. stream' \in Seq(Unit)
    BY <1>2, ConcatProperties DEF TInv, TypeOK
  <1>4. TypeOK'
    BY <1>1, <1>3 DEF TInv, TypeOK, HeapTypeOK
  <1>5. OneUnderWay'
    <2>1. phase # "idle" => asked' # 0
      BY DEF TInv, OneUnderWay
    <2>2. ASSUME ~failed PROVE phase # "idle" /\ OfTheReply'
      <3>1. phase # "idle"
        BY <1>1, <2>2 DEF TInv, OneUnderWay
      <3>2. NothingYet
        BY <1>1, <2>2, <3>1 DEF TInv, OneUnderWay, OfTheReply
      <3>3. answered + 1 = asked
        BY <1>1, <3>2 DEF NothingYet
      <3>4. << >> \o Frame(asked, n) = Frame(asked, n)
        BY <1>2, <3>3, ConcatEmptySeq
      <3>5. buf' \o stream' = Frame(asked, n)
        BY <3>2, <3>3, <3>4 DEF NothingYet
      <3>6. phase' # "payload" /\ answered' = asked' /\ asked' = asked
        BY <3>2, <3>3 DEF NothingYet
      <3> QED
        BY <3>1, <3>5, <3>6 DEF OfTheReply
    <2> QED
      BY <2>1, <2>2 DEF OneUnderWay
  <1>6. ReplyMatchesRequest' /\ ContextComplete' /\ HeaderFirst' /\ BusyOnlyIfReady'
    BY DEF TInv, ReplyMatchesRequest, ContextComplete, HeaderFirst, BusyOnlyIfReady
  <1>7. OfRequests(buf)'
    BY DEF TInv, OfRequests
  <1>8. OfRequests(stream)'
    <2>1. /\ Len(Frame(answered + 1, n)) = HeaderUnits + n
          /\ \A i \in 1 .. HeaderUnits + n : Frame(answered + 1, n)[i].msg = answered + 1
      BY <1>1, FrameProperties
    <2>2. OfRequests(Frame(answered + 1, n))
      BY <1>1, <2>1 DEF OfRequests
    <2>3. OfRequests(stream \o Frame(answered + 1, n))
      BY <1>2, <2>2, OfRequestsConcat DEF TInv, TypeOK
    <2> QED
      BY <2>3 DEF OfRequests
  <1> QED
    BY <1>4, <1>5, <1>6, <1>7, <1>8 DEF TInv

LEMMA PeerPreserves == TInv /\ (PeerLeaves \/ PeerReturns) => TInv'
  <1> SUFFICES ASSUME TInv, PeerLeaves \/ PeerReturns PROVE TInv'
    OBVIOUS
  <1> USE DEF PeerLeaves, PeerReturns, exchangeVars, heapVars
  <1>1. asked \in 0 .. asked
    BY DEF TInv, TypeOK
  <1>2. TypeOK'
    BY <1>1 DEF TInv, TypeOK, HeapTypeOK
  <1>3. answered' \in {answered, asked}
    OBVIOUS
  <1>4. NothingYet => NothingYet'
    BY <1>3 DEF NothingYet
  <1>5. OfTheReply => OfTheReply'
    <2>1. UNCHANGED <<asked, buf, stream, phase, msgLen>>
      OBVIOUS
    <2> HIDE DEF PeerLeaves, PeerReturns
    <2> QED
      BY <1>3, <2>1 DEF OfTheReply
  <1>6. OneUnderWay'
    BY <1>3, <1>4, <1>5 DEF TInv, OneUnderWay
  <1>7. ReplyMatchesRequest' /\ ContextComplete' /\ HeaderFirst' /\ BusyOnlyIfReady'
    BY DEF TInv, ReplyMatchesRequest, ContextComplete, HeaderFirst, BusyOnlyIfReady
  <1>8. OfRequests(buf)' /\ OfRequests(stream)'
    BY DEF TInv, OfRequests
  <1> QED
    BY <1>2, <1>6, <1>7, <1>8 DEF TInv

LEMMA TStep == TInv /\ [Next]_vars => TInv'
  <1> SUFFICES ASSUME TInv, [Next]_vars PROVE TInv'
    OBVIOUS
  <1>1. CASE UNCHANGED vars
    <2> USE <1>1 DEF vars
    <2>1. TypeOK'
      BY DEF TInv, TypeOK, HeapTypeOK
    <2>2. OneUnderWay'
      BY DEF TInv, OneUnderWay, NothingYet, OfTheReply
    <2>3. ReplyMatchesRequest' /\ ContextComplete' /\ HeaderFirst' /\ BusyOnlyIfReady'
      BY DEF TInv, ReplyMatchesRequest, ContextComplete, HeaderFirst, BusyOnlyIfReady
    <2>4. OfRequests(buf)' /\ OfRequests(stream)'
      BY DEF TInv, OfRequests
    <2> QED
      BY <2>1, <2>2, <2>3, <2>4 DEF TInv
  <1>2. CASE SendFails \/ RejectLength \/ DecodeRefuses \/ TimesOut \/ EndOfStream
    <2>1. ExchangeFails /\ UNCHANGED linkVars
      BY <1>2 DEF SendFails, RejectLength, DecodeRefuses, TimesOut, EndOfStream
    <2> QED
      BY <2>1, FailurePreserves
  <1>3. CASE Initialize \/ Send \/ Decode \/ PeerLeaves \/ PeerReturns
    BY <1>3, InitializePreserves, SendPreserves, DecodePreserves, PeerPreserves
  <1>4. CASE \E n \in 1 .. HeaderUnits + MaxBody : ReadHeader(n) \/ ReadPayload(n)
    BY <1>4, ReadHeaderPreserves, ReadPayloadPreserves
  <1>5. CASE \E n \in 1 .. MaxBody : Reply(n)
    BY <1>5, ReplyPreserves
  <1> QED
    BY <1>1, <1>2, <1>3, <1>4, <1>5 DEF Next, Read

-----------------------------------------------------------------------------
(* What holds of the socket, the stream and the exchange under way in      *)
(* every state SpdmTcpTransport reaches.                                   *)
THEOREM TcpInvariant == Spec => []TInv
  BY TInitial, TStep, PTL DEF Spec

(* Every variable keeps its type.                                          *)
THEOREM TcpTypeCorrect == Spec => []TypeOK
  BY TcpInvariant, PTL DEF TInv

(* However recv() cuts the stream, until an exchange fails libspdm is      *)
(* handed whole frames, each the answer to its last request.               *)
THEOREM TcpReplyMatchesRequest == Spec => []ReplyMatchesRequest
  BY TcpInvariant, PTL DEF TInv

(* A usable context has its scratch buffer and its socket.                 *)
THEOREM TcpContextComplete == Spec => []ContextComplete
  BY TcpInvariant, PTL DEF TInv

-----------------------------------------------------------------------------
(* TcpTransport implements SpdmLink: each step is a step of the link, or   *)
(* changes nothing of it.                                                  *)
LEMMA LinkInitial == Init => Link!Init
  BY DEF Init, HeapInit, Link!Init

LEMMA LinkInitialize ==
    ASSUME TInv, Initialize PROVE Link!Initialize
  <1>1. /\ phase = "idle" /\ UNCHANGED <<phase, asked>>
        /\ \/ UNCHANGED <<failed, handed>>
           \/ failed' = FALSE /\ handed' = << >>
           \/ failed' = failed /\ handed' = handed
    BY InitializeEffect DEF linkVars, exchangeVars
  <1> QED
    BY <1>1 DEF Link!Initialize

LEMMA LinkFail ==
    ASSUME ExchangeFails, spdmContext = "ready" PROVE Link!Fail
  BY DEF ExchangeFails, heapVars, Link!Fail

(* Whatever is handed up begins with a unit about a request that was       *)
(* asked; until an exchange fails, about the last one.                     *)
LEMMA LinkDecode == TInv /\ Decode => Link!Answer
  <1> SUFFICES ASSUME TInv, Decode PROVE Link!Answer
    OBVIOUS
  <1>1. /\ phase = "payload" /\ phase' = "idle" /\ handed' = buf
        /\ UNCHANGED <<spdmContext, asked, failed>> /\ spdmContext = "ready"
        /\ Len(buf) = HeaderUnits + msgLen
    BY DEF Decode, Collected, TInv, BusyOnlyIfReady
  <1>2. 1 \in 1 .. Len(buf) /\ buf \in Seq(Unit) /\ buf # << >>
    BY <1>1, UnitsAssumption DEF TInv, TypeOK
  <1>3. buf[1].msg \in 1 .. asked
    <2>1. buf[1] \in Unit
      BY <1>2, ElementOfSeq
    <2>2. buf[1].msg \in 1 .. MaxRequests /\ buf[1].msg <= asked /\ asked \in Nat
      BY <1>2, <2>1 DEF Unit, TInv, TypeOK, OfRequests
    <2> QED
      BY <2>2, MaxRequestsAssumption
  <1>4. ASSUME ~failed PROVE buf[1].msg = asked
    <2>1. buf = Frame(asked, msgLen) /\ msgLen \in 1 .. MaxBody
      BY <1>4, CollectedReply DEF Decode
    <2>2. asked \in 1 .. MaxRequests /\ 1 \in 1 .. HeaderUnits + msgLen
      BY <1>1, <1>3, <2>1, UnitsAssumption, MaxRequestsAssumption DEF TInv, TypeOK
    <2> QED
      BY <2>1, <2>2, FrameProperties
  <1> QED
    BY <1>1, <1>2, <1>3, <1>4 DEF Link!Answer

LEMMA LinkStep == TInv /\ [Next]_vars => [Link!Next]_Link!vars
  <1> SUFFICES ASSUME TInv, [Next]_vars
               PROVE  Link!Next \/ UNCHANGED Link!vars
    BY Zenon
  <1>1. CASE UNCHANGED vars
    BY <1>1 DEF vars, Link!vars
  <1>2. CASE Initialize
    BY <1>2, LinkInitialize DEF Link!Next
  <1>3. CASE Send
    BY <1>3 DEF Send, linkVars, heapVars, Link!Next, Link!Ask
  <1>4. CASE SendFails \/ RejectLength \/ DecodeRefuses \/ TimesOut \/ EndOfStream
    <2>1. ExchangeFails /\ spdmContext = "ready"
      BY <1>4 DEF SendFails, RejectLength, DecodeRefuses, Collected, TimesOut,
                  EndOfStream, TInv, BusyOnlyIfReady
    <2> QED
      BY <2>1, LinkFail DEF Link!Next
  <1>5. ASSUME NEW n \in 1 .. HeaderUnits + MaxBody, ReadHeader(n) \/ ReadPayload(n)
        PROVE  UNCHANGED Link!vars
    <2>1. /\ phase # "idle" /\ phase' # "idle"
          /\ UNCHANGED <<spdmContext, asked, failed, handed>>
      BY <1>5 DEF ReadHeader, ReadPayload, Recv, heapVars
    <2> QED
      BY <2>1 DEF Link!vars
  <1>6. CASE \E n \in 1 .. MaxBody : Reply(n)
    BY <1>6 DEF Reply, exchangeVars, heapVars, Link!vars
  <1>7. CASE PeerLeaves \/ PeerReturns
    BY <1>7 DEF PeerLeaves, PeerReturns, exchangeVars, heapVars, Link!vars
  <1>8. CASE Decode
    BY <1>8, LinkDecode DEF Link!Next
  <1> QED
    BY <1>1, <1>2, <1>3, <1>4, <1>5, <1>6, <1>7, <1>8 DEF Next, Read

(* However the stream is cut, and whatever is late, torn or missing on it, *)
(* libspdm is promised no less than SpdmLink says.                         *)
THEOREM TcpImplementsLink == Spec => ImplementsLink
  <1>1. Spec => []TInv
    BY TcpInvariant
  <1> QED
    BY <1>1, LinkInitial, LinkStep, PTL DEF Spec, ImplementsLink, Link!Spec

=============================================================================
