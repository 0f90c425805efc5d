------------------------------ MODULE WsStream ------------------------------
(***************************************************************************)
(* Two endpoints of a WebSocket connection, each a beast::websocket::      *)
(* stream (include/beast/websocket).  A stream has composed operations     *)
(* which share one socket: the caller's read, which answers pings and      *)
(* closes by itself, and the caller's writes (messages, pings, the close). *)
(* wr_block_ names the operation whose frame is being written; the others  *)
(* park in rd_op_, wr_op_ or ping_op_ and are invoked later.               *)
(*                                                                         *)
(* An action is the run of one completion handler up to its next           *)
(* asynchronous call or its upcall, with everything the upcall resumes.    *)
(* Callers keep the documented contract: one read and one write at a time, *)
(* no write after a close.  A peer of blocking uses the synchronous calls. *)
(***************************************************************************)
EXTENDS Naturals, Sequences, FiniteSets

CONSTANTS
  Peers,      \* the two ends
  Client,     \* the one that masks its frames
  Frags,      \* peers whose messages are split, by auto_fragment or deflate
  Invalid,    \* peers that send payloads the other one rejects
  MaxOps,     \* for each peer, the messages and pings its caller starts
  MayCut      \* the connection may break

ASSUME WsAssumption ==
  /\ \E p, q \in Peers : p # q /\ Peers = {p, q}
  /\ Client \in Peers
  /\ Frags \subseteq Peers /\ Invalid \subseteq Peers
  /\ MaxOps \in [Peers -> Nat]
  /\ MayCut \in BOOLEAN

VARIABLES
  ws,         \* the stream of each peer
  wire,       \* the frames a peer has sent and the other has not read
  cut,        \* the connection is broken
  blocking    \* the peers that use the synchronous calls

wsvars == <<ws, wire, cut, blocking>>

Other(p) == CHOOSE q \in Peers : q # p

Ops == {"rd", "wr", "pg"}

Frame == [op : {"text", "cont", "ping", "pong", "close", "garbage"},
          fin : BOOLEAN, ok : BOOLEAN]

Control(op) == [op |-> op, fin |-> TRUE, ok |-> TRUE]

RdState == {"none", "aborted", "fh", "pong_parked", "pong_resumed", "pong",
            "close_parked", "close_resumed", "closing", "teardown",
            "fail_parked", "fail_resumed", "failing", "fail_teardown"}
WrState == {"none", "parked", "posted", "resumed", "aborted", "sending"}

Stream ==
  [rd       : RdState,              \* read_frame_op, within read_op
   wr       : WrState,              \* write_frame_op or close_op
   pg       : WrState \ {"posted"}, \* ping_op
   kind     : {"write", "close"},   \* which of the two wr is
   op       : {"text", "cont"},     \* opcode of the next frame of wr
   left     : 0..2,                 \* frames of wr still to be sent
   fin      : BOOLEAN,              \* the message ends with this write
   ok       : BOOLEAN,              \* its payload is one a reader accepts
   wr_cont  : BOOLEAN,
   rd_cont  : BOOLEAN,
   block    : Ops \cup {"none"},    \* wr_block_
   sending  : [Ops -> {"idle", "busy", "sent"}],
   failed   : BOOLEAN,
   wr_close : BOOLEAN,
   res      : {"none", "closed", "failed", "error"},
   sock     : {"open", "shut", "closed"},
   calls    : Nat]                  \* made by the caller; a close is its last

\* The state open() leaves on either side of a handshake.
Open ==
  [rd |-> "none", wr |-> "none", pg |-> "none", kind |-> "write", op |-> "text",
   left |-> 0, fin |-> TRUE, ok |-> TRUE, wr_cont |-> FALSE, rd_cont |-> FALSE,
   block |-> "none", sending |-> [o \in Ops |-> "idle"], failed |-> FALSE,
   wr_close |-> FALSE, res |-> "none", sock |-> "open", calls |-> 0]

Init ==
  /\ ws = [p \in Peers |-> Open]
  /\ wire = [p \in Peers |-> <<>>]
  /\ cut = FALSE
  /\ blocking \in {{}} \cup {{p} : p \in Peers}

-----------------------------------------------------------------------------
(* Parking.                                                                *)

Parked(s, o) ==
  CASE o = "rd" -> s.rd \in {"pong_parked", "close_parked", "fail_parked"}
    [] o = "wr" -> s.wr = "parked"
    [] o = "pg" -> s.pg = "parked"

\* A resumed operation takes wr_block_ and posts itself; do_fail does not
\* take it.
Resume(s, o) ==
  CASE o = "wr" -> [s EXCEPT !.wr = "resumed", !.block = "wr"]
    [] o = "pg" -> [s EXCEPT !.pg = "resumed", !.block = "pg"]
    [] o = "rd" /\ s.rd = "pong_parked"  -> [s EXCEPT !.rd = "pong_resumed", !.block = "rd"]
    [] o = "rd" /\ s.rd = "close_parked" -> [s EXCEPT !.rd = "close_resumed", !.block = "rd"]
    [] OTHER -> [s EXCEPT !.rd = "fail_resumed"]

\* Mutant of Invoke: the second operation is forgotten.
InvokeFirst(s, a, b) == IF Parked(s, a) THEN Resume(s, a) ELSE s

\* a.maybe_invoke() || b.maybe_invoke()
Invoke(s, a, b) ==
  IF Parked(s, a) THEN Resume(s, a) ELSE IF Parked(s, b) THEN Resume(s, b) ELSE s

Release(s, o) == IF s.block = o THEN [s EXCEPT !.block = "none"] ELSE s

-----------------------------------------------------------------------------
(* write_frame_op and close_op.                                            *)

\* Mutant of SendNext: the message is taken as ended with each write.
SendNextForgetsCont(s) ==
  [s EXCEPT !.wr = "sending", !.block = "wr", !.sending["wr"] = "busy",
            !.left = @ - (IF s.kind = "close" THEN 0 ELSE 1), !.wr_cont = FALSE,
            !.wr_close = @ \/ s.kind = "close"]

\* async_write of the next frame.
SendNext(s) ==
  IF s.kind = "close"
    THEN [s EXCEPT !.wr = "sending", !.block = "wr", !.sending["wr"] = "busy",
                   !.wr_close = TRUE]
    ELSE [s EXCEPT !.wr = "sending", !.block = "wr", !.sending["wr"] = "busy",
                   !.left = @ - 1, !.wr_cont = ~s.fin]

\* do_maybe_suspend, and state 0 of close_op.
MaybeSuspend(s) ==
  IF s.block # "none" THEN [s EXCEPT !.wr = "parked"]
  ELSE IF s.failed \/ s.wr_close THEN [s EXCEPT !.wr = "aborted"]
  ELSE SendNext(s)

\* The operation is destroyed and its handler called.
WrUpcall(s) ==
  Invoke([Release(s, "wr") EXCEPT !.wr = "none", !.kind = "write", !.op = "text",
                                  !.left = 0, !.fin = TRUE, !.ok = TRUE], "rd", "pg")

\* The frame is sent.  Between two frames of a message control frames may go.
WrSent(s) ==
  IF s.kind = "write" /\ s.left > 0
    THEN LET r == [Release(s, "wr") EXCEPT !.op = "cont"]
         IN  IF Parked(r, "rd") \/ Parked(r, "pg")
               THEN [Invoke(r, "rd", "pg") EXCEPT !.wr = "posted"]
               ELSE SendNext(r)
    ELSE WrUpcall(s)

\* The handlers that were posted.
WrPosted(s) ==
  CASE s.wr = "posted" -> MaybeSuspend(s)
    [] s.wr = "resumed" -> IF s.failed \/ s.wr_close THEN WrUpcall(s) ELSE SendNext(s)
    [] OTHER -> WrUpcall(s)

-----------------------------------------------------------------------------
(* ping_op.                                                                *)

PgSend(s) == [s EXCEPT !.pg = "sending", !.block = "pg", !.sending["pg"] = "busy"]

PgStart(s) ==
  IF s.block # "none" THEN [s EXCEPT !.pg = "parked"]
  ELSE IF s.failed \/ s.wr_close THEN [s EXCEPT !.pg = "aborted"]
  ELSE PgSend(s)

PgUpcall(s) == Invoke([Release(s, "pg") EXCEPT !.pg = "none"], "rd", "wr")

PgPosted(s) ==
  IF s.pg = "resumed" /\ ~(s.failed \/ s.wr_close) THEN PgSend(s) ELSE PgUpcall(s)

-----------------------------------------------------------------------------
(* read_frame_op.                                                          *)

\* do_start
ReadHeader(s) == [s EXCEPT !.rd = IF s.failed THEN "aborted" ELSE "fh"]

RdUpcall(s, res) ==
  Invoke([Release(s, "rd") EXCEPT !.rd = "none", !.res = res], "pg", "wr")

RdSend(s, state) ==
  [s EXCEPT !.rd = state, !.block = "rd", !.sending["rd"] = "busy"]

CloseSend(s) == [RdSend(s, "closing") EXCEPT !.wr_close = TRUE]

FailSend(s) == [RdSend(s, "failing") EXCEPT !.wr_close = TRUE, !.failed = TRUE]

\* Mutant of Teardown: the sending side stays open.
TeardownOpen(s, state) == [s EXCEPT !.rd = state]

\* async_teardown: shuts the sending side down, reads to the end, closes.
Teardown(s, state) == [s EXCEPT !.rd = state, !.sock = "shut"]

Fail(s) ==
  IF s.wr_close THEN Teardown(s, "fail_teardown")
  ELSE IF s.block # "none" THEN [s EXCEPT !.rd = "fail_parked"]
  ELSE FailSend(s)

\* read_fh1: what a reader rejects by the header alone.
HeaderError(s, f) ==
  \/ f.op = "garbage"
  \/ f.op = "text" /\ s.rd_cont
  \/ f.op = "cont" /\ ~s.rd_cont

\* Mutant of ReceivePing: the pong is sent whoever holds wr_block_.
ReceivePingAtOnce(s) == IF s.wr_close THEN s ELSE RdSend(s, "pong")

ReceivePing(s) ==
  IF s.wr_close THEN s
  ELSE IF s.block # "none" THEN [s EXCEPT !.rd = "pong_parked"]
  ELSE RdSend(s, "pong")

\* Mutant of ReceiveClose: answered even when the close was ours.
ReceiveCloseAgain(s) ==
  IF s.block # "none" THEN [s EXCEPT !.rd = "close_parked"] ELSE CloseSend(s)

ReceiveClose(s) ==
  IF s.wr_close THEN Teardown(s, "teardown")
  ELSE IF s.block # "none" THEN [s EXCEPT !.rd = "close_parked"]
  ELSE CloseSend(s)

\* The payload is rejected (size, UTF-8), ends the message, or goes on: then
\* read_op starts the next read_frame_op.
ReceiveData(s, f) ==
  LET r == [s EXCEPT !.rd_cont = ~f.fin]
  IN  IF ~f.ok THEN Fail(r)
      ELSE IF f.fin THEN RdUpcall(r, "none")
      ELSE ReadHeader(RdUpcall(r, "none"))

Receive(s, f) ==
  CASE HeaderError(s, f) -> Fail(s)
    [] f.op = "ping"     -> ReceivePing(s)
    [] f.op = "pong"     -> s
    [] f.op = "close"    -> ReceiveClose(s)
    [] OTHER             -> ReceiveData(s, f)

RdSent(s) ==
  CASE s.rd = "pong"    -> [s EXCEPT !.rd = "fh", !.block = "none"]
    [] s.rd = "closing" -> Teardown(s, "teardown")
    [] OTHER            -> Teardown(s, "fail_teardown")

PongResumed(s) ==
  IF s.failed THEN RdUpcall(s, "error")
  ELSE IF s.wr_close THEN [Release(s, "rd") EXCEPT !.rd = "fh"]
  ELSE RdSend(s, "pong")

CloseResumed(s) ==
  IF s.failed THEN RdUpcall(s, "error")
  ELSE IF s.wr_close THEN RdUpcall(s, "closed")
  ELSE CloseSend(s)

FailResumed(s) == IF s.failed THEN RdUpcall(s, "failed") ELSE FailSend(s)

RdPosted(s) ==
  CASE s.rd = "pong_resumed"  -> PongResumed(s)
    [] s.rd = "close_resumed" -> CloseResumed(s)
    [] s.rd = "fail_resumed"  -> FailResumed(s)
    [] OTHER                  -> RdUpcall(s, "error")

-----------------------------------------------------------------------------
(* What happens to an asynchronous stream.                                 *)

Step(p, s) == ws' = [ws EXCEPT ![p] = s]

Async(p) == p \notin blocking

\* The caller has not ended the connection and has not been told of its end.
MayCall(p) == ws[p].wr = "none" /\ ws[p].pg = "none" /\ ws[p].res = "none"
              /\ ws[p].calls <= MaxOps[p]

StartRead(p) ==
  /\ Async(p)
  /\ ws[p].rd = "none" /\ ws[p].res = "none"
  /\ Step(p, ReadHeader(ws[p]))
  /\ UNCHANGED <<wire, cut, blocking>>

\* async_write_frame(fin, ...), or async_write with fin = TRUE: do_init.
StartWrite(p, n, fin, ok) ==
  /\ Async(p) /\ MayCall(p)
  /\ ws[p].calls < MaxOps[p]
  /\ n > 1 => p \in Frags
  /\ ok \/ p \in Invalid
  /\ Step(p, MaybeSuspend([ws[p] EXCEPT !.kind = "write", !.left = n, !.fin = fin,
                !.ok = ok, !.calls = @ + 1,
                !.op = IF ws[p].wr_cont THEN "cont" ELSE "text"]))
  /\ UNCHANGED <<wire, cut, blocking>>

StartPing(p) ==
  /\ Async(p) /\ MayCall(p)
  /\ ws[p].calls < MaxOps[p]
  /\ Step(p, PgStart([ws[p] EXCEPT !.calls = @ + 1]))
  /\ UNCHANGED <<wire, cut, blocking>>

StartClose(p) ==
  /\ Async(p) /\ MayCall(p)
  /\ Step(p, MaybeSuspend([ws[p] EXCEPT !.kind = "close", !.calls = MaxOps[p] + 1]))
  /\ UNCHANGED <<wire, cut, blocking>>

\* The frame an operation is writing.
FrameOf(s, o) ==
  CASE o = "pg" -> Control("ping")
    [] o = "rd" -> Control(IF s.rd = "pong" THEN "pong" ELSE "close")
    [] o = "wr" /\ s.kind = "close" -> Control("close")
    [] OTHER -> [op |-> s.op, fin |-> s.fin /\ s.left = 0, ok |-> s.ok]

\* The socket has taken the whole frame.  Two operations that write at once
\* may mix their bytes.
Deliver(p, o) ==
  /\ ws[p].sending[o] = "busy"
  /\ ws[p].sock = "open" /\ ~cut
  /\ \E f \in {FrameOf(ws[p], o)} \cup
              (IF \E x \in Ops \ {o} : ws[p].sending[x] = "busy"
                 THEN {Control("garbage")} ELSE {}) :
       wire' = [wire EXCEPT ![p] = Append(@, f)]
  /\ Step(p, [ws[p] EXCEPT !.sending[o] = "sent"])
  /\ UNCHANGED <<cut, blocking>>

\* The handler of an async_write that succeeded.
Written(p, o) ==
  /\ ws[p].sending[o] = "sent"
  /\ LET s == [ws[p] EXCEPT !.sending[o] = "idle"]
     IN  Step(p, CASE o = "rd" -> RdSent(s) [] o = "wr" -> WrSent(s)
                   [] o = "pg" -> PgUpcall(s))
  /\ UNCHANGED <<wire, cut, blocking>>

\* The handler of one that failed.
WriteFails(p, o) ==
  /\ ws[p].sending[o] = "busy"
  /\ cut \/ ws[p].sock # "open" \/ ws[Other(p)].sock = "closed"
  /\ LET s == [ws[p] EXCEPT !.sending[o] = "idle", !.failed = TRUE]
     IN  Step(p, CASE o = "rd" -> RdUpcall(s, "error") [] o = "wr" -> WrUpcall(s)
                   [] o = "pg" -> PgUpcall(s))
  /\ UNCHANGED <<wire, cut, blocking>>

RunRdPosted(p) ==
  /\ ws[p].rd \in {"aborted", "pong_resumed", "close_resumed", "fail_resumed"}
  /\ Step(p, RdPosted(ws[p]))
  /\ UNCHANGED <<wire, cut, blocking>>

RunWrPosted(p) ==
  /\ ws[p].wr \in {"posted", "resumed", "aborted"}
  /\ Step(p, WrPosted(ws[p]))
  /\ UNCHANGED <<wire, cut, blocking>>

RunPgPosted(p) ==
  /\ ws[p].pg \in {"resumed", "aborted"}
  /\ Step(p, PgPosted(ws[p]))
  /\ UNCHANGED <<wire, cut, blocking>>

Incoming(p) == wire[Other(p)]
Pop(p) == wire' = [wire EXCEPT ![Other(p)] = Tail(@)]

ReadFrame(p) ==
  /\ Async(p)
  /\ ws[p].rd = "fh" /\ Incoming(p) # <<>> /\ ~cut
  /\ Step(p, Receive(ws[p], Head(Incoming(p))))
  /\ Pop(p)
  /\ UNCHANGED <<cut, blocking>>

NoMore(p) == cut \/ (Incoming(p) = <<>> /\ ws[Other(p)].sock # "open")

\* The read ends with eof or an error.
ReadFails(p) ==
  /\ Async(p)
  /\ ws[p].rd = "fh" /\ NoMore(p)
  /\ Step(p, RdUpcall([ws[p] EXCEPT !.failed = TRUE], "error"))
  /\ UNCHANGED <<wire, cut, blocking>>

Tearing(s) == s.rd \in {"teardown", "fail_teardown"}

TeardownRead(p) ==
  /\ Tearing(ws[p]) /\ Incoming(p) # <<>> /\ ~cut
  /\ Pop(p)
  /\ UNCHANGED <<ws, cut, blocking>>

TeardownEnd(p) ==
  /\ Tearing(ws[p]) /\ NoMore(p)
  /\ LET ok == ~cut \/ p \in blocking   \* teardown() closes in any case
         s  == [ws[p] EXCEPT !.sock = IF ok THEN "closed" ELSE @,
                             !.failed = @ \/ p \in blocking]
     IN  Step(p, RdUpcall(s, IF ~ok THEN "error"
                             ELSE IF s.rd = "teardown" THEN "closed" ELSE "failed"))
  /\ UNCHANGED <<wire, cut, blocking>>

-----------------------------------------------------------------------------
(* The synchronous calls: one at a time, nothing parks.                    *)

Sync(p) == p \in blocking

Emit(p, fs) == wire' = [wire EXCEPT ![p] = @ \o fs]

\* read(): the loop of read_frame() blocks.
SyncRead(p) ==
  /\ Sync(p)
  /\ ws[p].rd = "none" /\ ws[p].res = "none"
  /\ Step(p, [ws[p] EXCEPT !.rd = "fh"])
  /\ UNCHANGED <<wire, cut, blocking>>

\* write_frame(): the branch for masked, fragmented frames leaves wr_.cont.
SyncWrote(p, fin) ==
  IF p = Client /\ p \in Frags THEN ws[p].wr_cont ELSE ~fin

SyncWrite(p, n, fin, ok) ==
  /\ Sync(p) /\ MayCall(p) /\ ws[p].rd = "none"
  /\ ws[p].calls < MaxOps[p]
  /\ n > 1 => p \in Frags
  /\ ok \/ p \in Invalid
  /\ IF cut
       THEN Step(p, [ws[p] EXCEPT !.failed = TRUE, !.res = "error"]) /\ UNCHANGED wire
       ELSE /\ Step(p, [ws[p] EXCEPT !.calls = @ + 1, !.wr_cont = SyncWrote(p, fin)])
            /\ Emit(p, [i \in 1..n |->
                 [op |-> IF ws[p].wr_cont \/ i > 1 THEN "cont" ELSE "text",
                  fin |-> fin /\ i = n, ok |-> ok]])
  /\ UNCHANGED <<cut, blocking>>

SyncPing(p) ==
  /\ Sync(p) /\ MayCall(p) /\ ws[p].rd = "none" /\ ~cut
  /\ ws[p].calls < MaxOps[p]
  /\ Step(p, [ws[p] EXCEPT !.calls = @ + 1])
  /\ Emit(p, <<Control("ping")>>)
  /\ UNCHANGED <<cut, blocking>>

SyncClose(p) ==
  /\ Sync(p) /\ MayCall(p) /\ ws[p].rd = "none" /\ ~cut
  /\ Step(p, [ws[p] EXCEPT !.wr_close = TRUE, !.calls = MaxOps[p] + 1])
  /\ Emit(p, <<Control("close")>>)
  /\ UNCHANGED <<cut, blocking>>

\* What read_frame() writes when it has read f.
Answer(s, f) ==
  IF f.op = "ping" THEN <<Control("pong")>>
  ELSE IF ~s.wr_close /\ (HeaderError(s, f) \/ ~f.ok \/ f.op = "close")
         THEN <<Control("close")>> ELSE <<>>

SyncReceive(s, f) ==
  IF HeaderError(s, f) \/ ~f.ok
    THEN [Teardown(s, "fail_teardown") EXCEPT !.wr_close = TRUE]
  ELSE IF f.op \in {"ping", "pong"} THEN s
  ELSE IF f.op = "close" THEN [Teardown(s, "teardown") EXCEPT !.wr_close = TRUE]
  ELSE IF f.fin THEN [s EXCEPT !.rd_cont = FALSE, !.rd = "none"]
  ELSE [s EXCEPT !.rd_cont = TRUE]

SyncReadFrame(p) ==
  /\ Sync(p)
  /\ ws[p].rd = "fh" /\ Incoming(p) # <<>> /\ ~cut
  /\ LET f == Head(Incoming(p))
     IN  /\ Step(p, SyncReceive(ws[p], f))
         /\ wire' = [wire EXCEPT ![Other(p)] = Tail(@), ![p] = @ \o Answer(ws[p], f)]
  /\ UNCHANGED <<cut, blocking>>

SyncReadFails(p) ==
  /\ Sync(p)
  /\ ws[p].rd = "fh" /\ NoMore(p)
  /\ Step(p, [ws[p] EXCEPT !.failed = TRUE, !.rd = "none", !.res = "error"])
  /\ UNCHANGED <<wire, cut, blocking>>

-----------------------------------------------------------------------------
Break ==
  /\ MayCut /\ ~cut
  /\ cut' = TRUE
  /\ UNCHANGED <<ws, wire, blocking>>

Finished(p) == ws[p].rd = "none" /\ ws[p].res # "none"

Idle(p) == Finished(p) /\ ws[p].wr = "none" /\ ws[p].pg = "none"

\* The caller destroys the stream, and the socket with it.
Destroy(p) ==
  /\ Idle(p) /\ ws[p].sock # "closed"
  /\ Step(p, [ws[p] EXCEPT !.sock = "closed"])
  /\ UNCHANGED <<wire, cut, blocking>>

ReadStep(p) ==
  StartRead(p) \/ ReadFrame(p) \/ ReadFails(p) \/ RunRdPosted(p)
  \/ TeardownRead(p) \/ TeardownEnd(p)
  \/ SyncRead(p) \/ SyncReadFrame(p) \/ SyncReadFails(p)
  \/ Destroy(p)

WriteStep(p) == RunWrPosted(p) \/ RunPgPosted(p)

SocketStep(p, o) == Deliver(p, o) \/ Written(p, o) \/ WriteFails(p, o)

Caller(p) ==
  \/ \E n \in 1..2, fin \in BOOLEAN, ok \in BOOLEAN :
       StartWrite(p, n, fin, ok) \/ SyncWrite(p, n, fin, ok)
  \/ StartPing(p) \/ StartClose(p)
  \/ SyncPing(p) \/ SyncClose(p)

Next ==
  \/ \E p \in Peers : \/ Caller(p) \/ ReadStep(p) \/ WriteStep(p)
                      \/ \E o \in Ops : SocketStep(p, o)
  \/ Break

Spec == Init /\ [][Next]_wsvars

\* The io_service runs every handler that is ready, the network delivers, and
\* callers go on reading until they are told of the end.
FairSpec ==
  /\ Spec
  /\ \A p \in Peers : /\ WF_wsvars(ReadStep(p)) /\ WF_wsvars(WriteStep(p))
                       /\ \A o \in Ops : WF_wsvars(SocketStep(p, o))

-----------------------------------------------------------------------------
(* Properties.                                                             *)

Writers(p) == {o \in Ops : ws[p].sending[o] = "busy"}

\* async_write must not be called on a socket while another async_write is in
\* progress (websocket/stream.hpp:1226): wr_block_ keeps the read's answers,
\* the ping and the message or close apart.  It does not when a read that
\* failed while another operation was writing is resumed: do_fail + 2 posts
\* without taking wr_block_, the caller starts its next write in between, and
\* do_fail + 1 sends the close frame into it.
OneWriter ==
  \A p \in Peers : Cardinality(Writers(p)) > 1 => ws[p].rd = "failing"

\* write_frame() of a client with auto_fragment does not record that the
\* message goes on.
ForgetsContinuation(p) == p = Client /\ p \in Frags /\ p \in blocking

\* A peer never rejects the opcode of a frame the other one sent: the splitting
\* of messages, the control frames sent between the fragments, and the reads
\* and writes of message after message stay in step on both sides.
PeersUnderstand ==
  \A p \in Peers :
    /\ ws[p].rd = "fh" /\ Incoming(p) # <<>> /\ Head(Incoming(p)).op # "garbage"
    /\ ~ForgetsContinuation(Other(p))
    => ~HeaderError(ws[p], Head(Incoming(p)))

\* No message, ping or second close follows a close frame (RFC 6455 5.5.1),
\* whichever of the caller's close, the answer to the peer's and the close of
\* a failing read comes first.  A synchronous read still answers pings; and of
\* a stream whose read has failed (failed_) nothing is claimed, because that
\* read sends its close in any case, also in the middle of a write.
NothingAfterClose ==
  \A p \in Peers : \A i, j \in 1..Len(wire[p]) :
    i < j /\ wire[p][i].op = "close" =>
      ws[p].failed \/ (p \in blocking /\ wire[p][j].op = "pong")

\* When one side has sent a close, because its caller asked for it, because
\* the other one did or because a read failed, both reads end and both sockets
\* can be destroyed: neither teardown waits for the other for ever.
CloseCompletes ==
  \A p \in Peers : ws[p].wr_close ~> (\A q \in Peers : Finished(q))

\* An operation parked behind wr_block_ is written or aborted in the end, except
\* for one that waits behind a read which waits for the peer.  That is what
\* do_pong + 1 leaves: it clears wr_block_ and goes on reading, and a message,
\* ping or close that parked behind the pong waits until the peer sends the end
\* of a message or closes.
ParkedWriteResumes ==
  \A p \in Peers : \A o \in Ops :
    Parked(ws[p], o) ~> (~Parked(ws[p], o) \/ ws[p].rd = "fh")
=============================================================================
