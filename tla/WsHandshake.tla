---------------------------- MODULE WsHandshake -----------------------------
(***************************************************************************)
(* The opening handshake of two beast::websocket::stream objects and the   *)
(* permessage-deflate extension it settles: build_request, build_response  *)
(* and do_response (impl/stream.ipp), accept (impl/accept.ipp), handshake  *)
(* (impl/handshake.ipp), the offer and its negotiation                     *)
(* (detail/pmd_extension.hpp), open() (detail/stream_base.hpp), and the    *)
(* compressor and decompressor each end sets up from it.                   *)
(*                                                                         *)
(* Text is counted in chunks; a window of b bits holds the last b of them, *)
(* and a compressed chunk refers back to any chunk the compressor holds.   *)
(* Both streams may be used for one session after another.                 *)
(***************************************************************************)
EXTENDS Naturals

CONSTANTS
  MaxBits,      \* 15: the window of a stream that negotiates nothing
  MaxSessions,  \* bound on the sessions
  MaxChunks     \* bound on the chunks of a message

ASSUME HandshakeAssumption ==
  MaxBits \in Nat \ {0} /\ MaxSessions \in Nat \ {0} /\ MaxChunks \in Nat

Bits == 1..MaxBits
Roles == {"client", "server"}
Peer(r) == IF r = "client" THEN "server" ELSE "client"
Min2(a, b) == IF a < b THEN a ELSE b

\* permessage_deflate, as one role looks at it.
Options == [enable : BOOLEAN, smax : Bits, cmax : Bits,
            snct : BOOLEAN, cnct : BOOLEAN]

\* pmd_offer; 0 stands for an absent parameter.
Offers == [accept : BOOLEAN, smax : Bits \cup {0}, cmax : Bits \cup {0},
           snct : BOOLEAN, cnct : BOOLEAN]

VARIABLES
  opts,      \* pmd_opts_ of each role
  sync,      \* the server uses the synchronous accept()
  phase,     \* of the handshake
  session,   \* sessions begun
  offer,     \* Sec-WebSocket-Extensions of the request
  answer,    \* and of the response
  config,    \* pmd_config_
  pmd,       \* pmd_ is engaged
  zo,        \* the compressor: window, chunks it may refer to
  zi,        \* the decompressor: window, chunks it holds
  sent       \* chunks of the message each role is writing

hsvars == <<opts, sync, phase, session, offer, answer, config, pmd, zo, zi, sent>>

Nothing == [accept |-> FALSE, smax |-> 0, cmax |-> 0, snct |-> FALSE, cnct |-> FALSE]
NoWindow == [bits |-> MaxBits, held |-> 0]

HandshakeTypeOK ==
  /\ opts \in [Roles -> Options]
  /\ sync \in BOOLEAN
  /\ phase \in {"closed", "requested", "answered", "open"}
  /\ session \in 0..MaxSessions
  /\ offer \in Offers /\ answer \in Offers
  /\ config \in [Roles -> Offers]
  /\ pmd \in [Roles -> BOOLEAN]
  /\ zo \in [Roles -> [bits : Bits, held : 0..MaxBits]]
  /\ zi \in [Roles -> [bits : Bits, held : 0..MaxBits]]
  /\ sent \in [Roles -> 0..MaxChunks]

HandshakeInit ==
  /\ opts \in [Roles -> Options]
  /\ sync \in BOOLEAN
  /\ phase = "closed" /\ session = 0
  /\ offer = Nothing /\ answer = Nothing
  /\ config = [r \in Roles |-> Nothing]
  /\ pmd = [r \in Roles |-> FALSE]
  /\ zo = [r \in Roles |-> NoWindow] /\ zi = [r \in Roles |-> NoWindow]
  /\ sent = [r \in Roles |-> 0]

-----------------------------------------------------------------------------
(* The offer.                                                              *)

\* build_request and pmd_write.
OfferOf(o) ==
  IF o.enable
    THEN [accept |-> TRUE, smax |-> o.smax, cmax |-> o.cmax,
          snct |-> o.snct, cnct |-> o.cnct]
    ELSE Nothing

\* Mutant of Negotiate: server_enable is not looked at.
NegotiateAlways(f, o) ==
  IF f.accept
    THEN [accept |-> TRUE, smax |-> Min2(f.smax, o.smax), cmax |-> Min2(f.cmax, o.cmax),
          snct |-> f.snct \/ o.snct, cnct |-> f.cnct \/ o.cnct]
    ELSE Nothing

\* pmd_negotiate: what the response says.  A full window is not written.
Negotiate(f, o) ==
  LET smax == Min2(f.smax, o.smax)
  IN  IF f.accept /\ o.enable
        THEN [accept |-> TRUE, smax |-> IF smax < MaxBits THEN smax ELSE 0,
              cmax |-> Min2(f.cmax, o.cmax),
              snct |-> f.snct \/ o.snct, cnct |-> f.cnct \/ o.cnct]
        ELSE Nothing

\* pmd_normalize
Normalize(c) ==
  IF c.accept
    THEN [c EXCEPT !.smax = IF @ = 0 THEN MaxBits ELSE @,
                   !.cmax = IF @ = 0 THEN MaxBits ELSE @]
    ELSE c

\* open() with pmd_config_ = c.  Only a session that compresses touches pmd_.
OpenStream(r, c) ==
  LET n == Normalize(c)
  IN  IF opts[r].enable /\ c.accept
        THEN /\ config' = [config EXCEPT ![r] = n]
             /\ pmd' = [pmd EXCEPT ![r] = TRUE]
             /\ zi' = [zi EXCEPT ![r] =
                  [bits |-> IF r = "client" THEN n.smax ELSE n.cmax, held |-> 0]]
             /\ zo' = [zo EXCEPT ![r] =
                  [bits |-> IF r = "client" THEN n.cmax ELSE n.smax, held |-> 0]]
        ELSE /\ config' = [config EXCEPT ![r] = c]
             /\ UNCHANGED <<pmd, zi, zo>>

-----------------------------------------------------------------------------
(* The handshake.                                                          *)

\* handshake(): the request is sent.
Request ==
  /\ phase = "closed" /\ session < MaxSessions
  /\ phase' = "requested" /\ session' = session + 1
  /\ offer' = OfferOf(opts["client"])
  /\ config' = [config EXCEPT !["client"] = offer']
  /\ UNCHANGED <<opts, sync, answer, pmd, zo, zi, sent>>

\* Mutant of Accept: the connection is opened as the request asked.
AcceptAsAsked ==
  /\ phase = "requested"
  /\ phase' = "answered"
  /\ answer' = Negotiate(offer, opts["server"])
  /\ OpenStream("server", offer)
  /\ UNCHANGED <<opts, sync, session, offer, sent>>

\* accept(): build_response, the response is sent, and open().  response_op
\* reads pmd_config_ from the response, the synchronous accept() from the
\* request.
Accept ==
  /\ phase = "requested"
  /\ phase' = "answered"
  /\ answer' = Negotiate(offer, opts["server"])
  /\ OpenStream("server", IF sync THEN offer ELSE answer')
  /\ UNCHANGED <<opts, sync, session, offer, sent>>

\* build_response refuses the request: status 400 or 426.
Refuse ==
  /\ phase = "requested"
  /\ phase' = "closed"
  /\ answer' = Nothing
  /\ UNCHANGED <<opts, sync, session, offer, config, pmd, zo, zi, sent>>

\* do_response
Confirm ==
  /\ phase = "answered"
  /\ phase' = "open"
  /\ OpenStream("client", answer)
  /\ UNCHANGED <<opts, sync, session, offer, answer, sent>>

\* The connection ends.  pmd_ is left as it is: stream_base::close is never
\* called.
End ==
  /\ phase = "open"
  /\ phase' = "closed"
  /\ sent' = [r \in Roles |-> 0]
  /\ UNCHANGED <<opts, sync, session, offer, answer, config, pmd, zo, zi>>

\* set_option between two sessions.
SetOption(r) ==
  /\ phase = "closed" /\ session > 0 /\ session < MaxSessions
  /\ \E e \in BOOLEAN : opts' = [opts EXCEPT ![r].enable = e]
  /\ UNCHANGED <<sync, phase, session, offer, answer, config, pmd, zo, zi, sent>>

-----------------------------------------------------------------------------
(* Messages.                                                               *)

\* A chunk is compressed, sent, and decompressed at the other end.
WriteChunk(r) ==
  /\ phase = "open" /\ pmd[r] /\ pmd[Peer(r)]
  /\ sent[r] < MaxChunks
  /\ sent' = [sent EXCEPT ![r] = @ + 1]
  /\ zo' = [zo EXCEPT ![r].held = Min2(@ + 1, zo[r].bits)]
  /\ zi' = [zi EXCEPT ![Peer(r)].held = Min2(@ + 1, zi[Peer(r)].bits)]
  /\ UNCHANGED <<opts, sync, phase, session, offer, answer, config, pmd>>

\* The reader of r's messages resets its window when the negotiated parameters
\* say that r does not keep its context.
Forgets(r, c) == IF r = "client" THEN c.cnct ELSE c.snct

\* The last chunk ends with a full flush: nothing after it refers back.
EndMessage(r) ==
  /\ phase = "open" /\ pmd[r] /\ pmd[Peer(r)] /\ sent[r] > 0
  /\ sent' = [sent EXCEPT ![r] = 0]
  /\ zo' = [zo EXCEPT ![r].held = 0]
  /\ zi' = IF Forgets(r, config[Peer(r)])
             THEN [zi EXCEPT ![Peer(r)].held = 0] ELSE zi
  /\ UNCHANGED <<opts, sync, phase, session, offer, answer, config, pmd>>

-----------------------------------------------------------------------------
HandshakeNext ==
  \/ Request \/ Accept \/ Refuse \/ Confirm \/ End
  \/ \E r \in Roles : SetOption(r) \/ WriteChunk(r) \/ EndMessage(r)

HandshakeSpec == HandshakeInit /\ [][HandshakeNext]_hsvars

-----------------------------------------------------------------------------
(* Properties.                                                             *)

\* A session after one that compressed, or after a change of options, may find
\* pmd_ engaged although it negotiated nothing.
Stale(r) == session > 1 /\ pmd[r] /\ ~answer.accept

\* When the handshake is over, either both ends compress or neither does: a
\* frame with RSV1 set is a protocol error for a stream without pmd_
\* ("If not engaged, then permessage-deflate is not enabled for the currently
\* active session", detail/stream_base.hpp:149).  open() engages pmd_ and
\* nothing ever disengages it, so a stream that is used again may differ.
CompressionAgreed ==
  phase = "open" => \A r \in Roles : (pmd[r] <=> answer.accept) \/ Stale(r)

\* The server's accept() of a request took the client's word for the window.
AcceptsTooWide(r) ==
  r = "server" /\ sync /\ Normalize(answer).smax < offer.smax

\* Whatever the compressor of one end refers to, the decompressor of the other
\* still holds, through every message and every reset of either.  A server
\* that accepts synchronously and wants a smaller window than the client
\* offered says so in its response and compresses with the larger one.
DistancesReach ==
  \A r \in Roles :
    phase = "open" /\ pmd[r] /\ pmd[Peer(r)] =>
      \/ zo[r].held <= zi[Peer(r)].held
      \/ AcceptsTooWide(r)
      \/ Stale(r) \/ Stale(Peer(r))
=============================================================================
