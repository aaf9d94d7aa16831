------------------------------ MODULE SpdmLink ------------------------------
(***************************************************************************)
(* What either transport promises libspdm, whatever network is behind it:  *)
(* one exchange at a time, and only with a context that was set up; an     *)
(* exchange ends with something handed up, or with nothing; and as long as *)
(* none has failed what is handed up is the answer to the last request.    *)
(* Once an exchange has failed that trust is gone, and only a new          *)
(* connection brings it back: until then a datagram may answer an earlier  *)
(* request, and a piece of the stream may be taken for an answer that only *)
(* begins with bytes of one.  TcpTransport and MctpTransport implement     *)
(* this module.                                                            *)
(***************************************************************************)
EXTENDS Naturals

VARIABLES
    ready,          \* may libspdm be called with the context?
    busy,           \* has a request been sent whose exchange has not ended?
    asked,          \* number of the last request sent
    trusted,        \* has every exchange on the connection succeeded?
    answer          \* the request what was handed up last is about, judged by
                    \* its beginning; 0 if the exchange failed

vars == <<ready, busy, asked, trusted, answer>>

Init == ready = FALSE /\ busy = FALSE /\ asked = 0 /\ trusted = TRUE /\ answer = 0

(* initialize(), which may fail and which may connect anew. *)
Initialize ==
    /\ ~busy
    /\ ready' \in BOOLEAN
    /\ UNCHANGED <<trusted, answer>> \/ (trusted' = TRUE /\ answer' = 0)
    /\ UNCHANGED <<busy, asked>>

(* libspdm sends the next request. *)
Ask ==
    /\ ready /\ ~busy
    /\ busy' = TRUE /\ asked' = asked + 1 /\ answer' = 0
    /\ UNCHANGED <<ready, trusted>>

(* libspdm is handed a message. *)
Answer ==
    /\ ready /\ busy
    /\ busy' = FALSE
    /\ answer' \in 1 .. asked
    /\ trusted => answer' = asked
    /\ UNCHANGED <<ready, asked, trusted>>

(* libspdm is told that the send or the receive failed. *)
Fail ==
    /\ ready
    /\ busy' = FALSE /\ answer' = 0 /\ trusted' = FALSE
    /\ UNCHANGED <<ready, asked>>

Next == Initialize \/ Ask \/ Answer \/ Fail

Spec == Init /\ [][Next]_vars

=============================================================================
