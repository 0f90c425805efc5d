-------------------------------- MODULE Zlib --------------------------------
(***************************************************************************)
(* A deflate_stream and the inflate_stream that reads what it writes.      *)
(* The writer gives its input in pieces, with any room for the output and  *)
(* any flush, may change the strategy, or sends websocket messages the way *)
(* permessage-deflate does (pmd_extension.hpp, deflate).  The reader takes *)
(* the bytes in pieces too.  Neither looks at the other but through the    *)
(* bytes, so the reader starts when the writer has stopped.                *)
(***************************************************************************)
EXTENDS Inflate

CONSTANTS Sources,    \* what may be compressed
          Funcs,      \* with which strategies
          Calls,      \* the writer's calls, [flush, room, offer, how]
          Switches,   \* its calls of params, [func, room, how]
          Messages,   \* the messages of a websocket session
          Hows,       \* and the kinds of their blocks
          FrameRoom,  \* wr_buf_size: what a frame of a message may hold
          Reads,      \* the reader's calls, [take, room, flush]
          MaxCalls, MaxSwitches, MaxMessages, MaxResets,
          Trail       \* bytes of something else behind the stream's end

VARIABLES d,      \* the compressor
          z,      \* the decompressor
          feed,   \* what the writer has not given to it yet
          part,   \* the rest of the message being sent, or NoMessage
          marks,  \* for every completed flush, the bytes out and the data in
          phase,  \* "write", "read", "torn" or "failed"
          calls, switches, sent, resets

vars == <<d, z, feed, part, marks, phase, calls, switches, sent, resets>>

NoMessage == "no message"
Idle == part = NoMessage

ZInit ==
  /\ \E s \in Sources, f \in Funcs : d = Fresh(f) /\ feed = s
  /\ z = FreshInflate /\ part = NoMessage /\ marks = {} /\ phase = "write"
  /\ calls = 0 /\ switches = 0 /\ sent = 0 /\ resets = 0

Done(r) == r.d.room > 0 /\ r.ec \in {"ok", "end_of_stream"} /\ r.d.in = <<>>

Mark(r, flush) ==
  IF Done(r) /\ flush \in {"partial", "sync", "full", "finish"}
  THEN {[bytes |-> r.d.outb, data |-> Len(r.d.hist), final |-> r.ec = "end_of_stream"]}
  ELSE {}

Returned(dd) == [dd EXCEPT !.in = <<>>, !.room = 0, !.how = "static"]

(* One call of deflate_stream::write.                                      *)
WriteCall(c) ==
  LET offer == SubSeq(feed, 1, Min({c.offer, Len(feed)}))
  IN  /\ phase = "write" /\ Idle /\ sent = 0 /\ calls < MaxCalls
      /\ \E r \in {Write(d, offer, c.room, c.flush, c.how)} :
           /\ d' = Returned(r.d)
           /\ feed' = SubSeq(feed, Len(offer) - Len(r.d.in) + 1, Len(feed))
           /\ marks' = marks \cup Mark(r, c.flush)
      /\ calls' = calls + 1
      /\ UNCHANGED <<z, part, phase, switches, sent, resets>>

(* One call of params.  If the room ended before the flush did, what the   *)
(* old strategy holds - a byte or a match not yet taken, copied bytes not  *)
(* yet in a block - is unknown to the new one: the stream is torn, and the *)
(* model stops there.                                                      *)
Held(e) ==
  \/ e.match_available \/ e.match_length >= MinMatch
  \/ d.func = "stored" /\ e.strstart > e.block_start

Switch(c) ==
  /\ phase = "write" /\ Idle /\ switches < MaxSwitches /\ c.func # d.func
  /\ \E r \in {Params(d, <<>>, c.room, c.func, c.how)} :
       /\ d' = Returned(r.d)
       /\ phase' = IF Held(r.d) THEN "torn" ELSE phase
  /\ switches' = switches + 1
  /\ UNCHANGED <<z, feed, part, marks, calls, sent, resets>>

(* permessage-deflate.  A frame takes what it can of the message; once all *)
(* is taken the block is flushed, and if the marker fits the message ends  *)
(* with a full flush whose last four bytes are not sent.                   *)
StartMessage ==
  /\ phase = "write" /\ Idle /\ calls = 0 /\ sent < MaxMessages
  /\ \E m \in Messages : part' = m
  /\ sent' = sent + 1
  /\ UNCHANGED <<d, z, feed, marks, phase, calls, switches, resets>>

Taken(how) ==
  IF part = <<>> THEN Result([d EXCEPT !.room = FrameRoom], "ok")
  ELSE Write(d, part, FrameRoom, "none", how)

BlockEnded(a, how) ==
  IF a.d.room > 0 /\ a.d.in = <<>> THEN Write(a.d, <<>>, a.d.room, "block", how) ELSE a

SendFrame(how) ==
  /\ phase = "write" /\ ~Idle
  /\ \E a \in {Taken(how)} : \E b \in {BlockEnded(a, how)} :
       LET marked == a.d.room > 0 /\ a.d.in = <<>> /\ b.d.room >= 6
       IN  \E c \in {IF marked THEN Write(b.d, <<>>, b.d.room, "full", how) ELSE b} :
             /\ d' = Returned(c.d)
             /\ phase' = IF marked /\ c.ec # "ok" THEN "failed" ELSE phase
             /\ part' = IF marked THEN NoMessage ELSE a.d.in
             /\ marks' = IF marked /\ c.ec = "ok"
                         THEN marks \cup {[bytes |-> c.d.outb, data |-> Len(c.d.hist), final |-> FALSE]}
                         ELSE marks
  /\ UNCHANGED <<z, feed, calls, switches, sent, resets>>

StopWriting ==
  /\ phase = "write" /\ Idle /\ d.outb > 0
  /\ phase' = "read"
  /\ UNCHANGED <<d, z, feed, part, marks, calls, switches, sent, resets>>

-----------------------------------------------------------------------------
Written == d.outb + IF z.got >= d.outb /\ \E m \in marks : m.final THEN Trail ELSE 0

(* One call of inflate_stream::write: take more bytes when those given are *)
(* used up, the same ones otherwise; what follows the stream comes apart.  *)
ReadCall(c) ==
  LET lim == IF z.got < z.lim THEN z.lim ELSE Min({z.got + c.take, Written})
  IN  /\ phase = "read" /\ z.ret \notin {"end_of_stream", "strayed"}
      /\ lim > z.got \/ z.ret # "need_buffers"
      /\ z' = Read(z, lim, c.room, c.flush, d.tape)
      /\ UNCHANGED <<d, feed, part, marks, phase, calls, switches, sent, resets>>

(* zo.reset() and zi.reset() between messages (no_context_takeover).       *)
ResetBoth ==
  /\ phase = "read" /\ sent > 0 /\ z.ret = "need_buffers" /\ z.got = d.outb
  /\ resets < MaxResets
  /\ d' = Fresh(d.func) /\ z' = FreshInflate
  /\ marks' = {} /\ phase' = "write" /\ resets' = resets + 1
  /\ UNCHANGED <<feed, part, calls, switches, sent>>

ZNext ==
  \/ \E c \in Calls : WriteCall(c)
  \/ \E c \in Switches : Switch(c)
  \/ StartMessage
  \/ \E how \in Hows : SendFrame(how)
  \/ StopWriting
  \/ \E c \in Reads : ReadCall(c)
  \/ ResetBoth

Spec == ZInit /\ [][ZNext]_vars

-----------------------------------------------------------------------------
\* The reader has been given n bytes, took them all, and had room for more.
Starved(n) == z.ret \in {"ok", "need_buffers"} /\ z.room > 0 /\ z.got = z.lim /\ z.lim >= n

\* What inflate_stream writes is what deflate_stream was given, from the
\* start, however both were called, over whatever strategies and blocks; its
\* input is never an error to it.
RoundTrip == IsPrefix(z.out, d.hist) /\ z.mode # "BAD"

\* The next code is there, and yet the reader waits for as many bits as the
\* root table has.
WaitsForTable(bits) == d.tape[z.idx].k = "code" /\ d.tape[z.idx].w <= z.n /\ z.n < bits

\* DIST waits so with the whole rest of the block in hand.
RestOfBlock == {i \in z.idx..Len(d.tape) : \A j \in z.idx..i : d.tape[j].k \in {"code", "extra"}}
HeldInDist ==
  z.mode = "DIST" /\ WaitsForTable(z.dbits) /\ SumFunction([i \in RestOfBlock |-> d.tape[i].w]) <= z.n



\* inflate_fast gives back bytes of the caller's earlier buffer only in a call
\* that began with more than a byte's bits in hand.
GoesBackOnlyWithBitsInHand == [][z'.ret = "strayed" => z.n > 8]_z

\* deflate() of permessage-deflate never gets an error from its full flush,
\* as its BOOST_ASSERT says, not for a message without a byte either.
MessagesNeverFail == phase # "failed"
=============================================================================
