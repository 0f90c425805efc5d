-------------------------- MODULE WsStream_proofs ---------------------------
(***************************************************************************)
(* wr_block_ keeps the composed operations of a stream apart: for any      *)
(* number of calls, whatever either peer sends, and wherever the           *)
(* connection breaks, two of them write to the socket at once only after   *)
(* do_fail + 2 was resumed.  The invariant (Good) says whose wr_block_ is  *)
(* as long as the read has not failed; afterwards nothing new is started.  *)
(* The handshake comes last: for windows of any size and any number of     *)
(* sessions and chunks the two ends agree, when it is over, whether they   *)
(* compress, and what a compressor refers to is still in the other end's   *)
(* window.  Both rest on what the answer says of the windows the two ends  *)
(* set up (Windows), and both have the exceptions the code has.            *)
(***************************************************************************)
EXTENDS WsStream, WsHandshake, FiniteSetTheorems, SequenceTheorems, TLAPS

Fields == {"rd", "wr", "pg", "kind", "op", "left", "fin", "ok", "wr_cont", "rd_cont", "block",
           "sending", "failed", "wr_close", "res", "sock", "calls"}

IsStream(s) == DOMAIN s = Fields /\ DOMAIN s.sending = Ops

\* The read has failed, and the caller will not start another.
Over(s) == s.rd \in {"failing", "fail_teardown"} \/ (s.rd = "none" /\ s.res # "none")

\* A frame is at the socket exactly when its operation waits for it.
Matches(s) ==
  /\ s.sending["wr"] # "idle" <=> s.wr = "sending"
  /\ s.sending["pg"] # "idle" <=> s.pg = "sending"
  /\ s.sending["rd"] # "idle" <=> s.rd \in {"pong", "closing", "failing"}

\* Whose wr_block_ is.  An operation that aborts because failed_ is set may
\* invoke a parked one and so give wr_block_ away, but then nobody sends.
Holders(s) ==
  /\ s.wr = "sending" => s.block = "wr" /\ ~s.failed
  /\ s.pg = "sending" => s.block = "pg" /\ ~s.failed
  /\ ~s.failed =>
       /\ s.wr = "resumed" => s.block = "wr"
       /\ s.pg = "resumed" => s.block = "pg"
       /\ s.rd \in {"pong", "closing", "pong_resumed", "close_resumed"} => s.block = "rd"

Good(s) ==
  /\ IsStream(s)
  /\ s.wr = "none" \/ s.pg = "none"
  /\ Matches(s)
  /\ ~Over(s) => Holders(s)

\* A stream used synchronously has nothing parked and nothing at the socket.
Plain(s) ==
  /\ s.wr = "none" /\ s.pg = "none"
  /\ s.rd \in {"none", "fh", "teardown", "fail_teardown"}

PeerInv(p) == Good(ws[p]) /\ (Sync(p) => Plain(ws[p]))

WsInv == DOMAIN ws = Peers /\ \A p \in Peers : PeerInv(p)

-----------------------------------------------------------------------------
(* The caller's writes.                                                    *)

\* A write that finds wr_block_ free takes it, and else parks.
LEMMA SuspendGood ==
  ASSUME NEW s, Good(s), s.wr \in {"none", "posted"}, s.pg = "none"
  PROVE  Good(MaybeSuspend(s))
BY DEF Good, MaybeSuspend, SendNext, IsStream, Fields, Ops, Matches, Holders, Over

\* The end of a write lets a parked read go on.
LEMMA WrUpcallGood ==
  ASSUME NEW s, Good(s), s.wr # "sending", s.pg = "none"
  PROVE  Good(WrUpcall(s))
BY DEF Good, WrUpcall, Invoke, Resume, Parked, Release, IsStream, Fields, Ops, Matches, Holders, Over

\* A write that was posted, resumed or aborted reaches its next wait.
LEMMA WrPostedGood ==
  ASSUME NEW s, Good(s), s.wr \in {"posted", "resumed", "aborted"}
  PROVE  Good(WrPosted(s))
BY SuspendGood, WrUpcallGood
   DEF Good, WrPosted, SendNext, IsStream, Fields, Ops, Matches, Holders, Over

\* What is left of a write when its frame is gone.
Gone(i) ==
  /\ IsStream(i)
  /\ i.wr = "sending" /\ i.pg = "none"
  /\ i.sending["wr"] = "idle" /\ i.sending["pg"] = "idle"
  /\ i.sending["rd"] # "idle" <=> i.rd \in {"pong", "closing", "failing"}
  /\ ~Over(i) /\ ~i.failed => i.block = "wr" /\ i.rd \notin {"pong", "closing", "pong_resumed", "close_resumed"}

\* Between two frames the write hands wr_block_ over, or goes on with it.
LEMMA GoneGood ==
  ASSUME NEW i, Gone(i)
  PROVE  /\ Good(WrUpcall(i))
         /\ Over(i) \/ ~i.failed => Good(WrSent(i))
<1>1. Good(WrUpcall(i))
  <2> DEFINE r == [Release(i, "wr") EXCEPT !.wr = "none", !.kind = "write", !.op = "text",
                                           !.left = 0, !.fin = TRUE, !.ok = TRUE]
  <2>1. /\ IsStream(r) /\ r.sending = i.sending
        /\ r.wr = "none" /\ r.pg = "none" /\ r.rd = i.rd /\ r.res = i.res /\ r.failed = i.failed
        /\ r.block = (IF i.block = "wr" THEN "none" ELSE i.block)
    BY DEF Gone, IsStream, Release, Fields
  <2> HIDE DEF r
  <2>2. Good(r)
    BY <2>1 DEF Gone, Good, Matches, Holders, Over
  <2>3. Good(Invoke(r, "rd", "pg"))
    <3>1. CASE Parked(r, "rd")
      BY <2>1, <2>2, <3>1 DEF Good, Invoke, Resume, Parked, IsStream, Fields, Ops, Matches, Holders, Over
    <3>2. CASE ~Parked(r, "rd")
      BY <2>1, <2>2, <3>2 DEF Invoke, Parked
    <3> QED BY <3>1, <3>2
  <2> QED BY <2>3 DEF WrUpcall, r
<1>2. ASSUME i.kind = "write", i.left > 0, Over(i) \/ ~i.failed PROVE Good(WrSent(i))
  <2> DEFINE r == [Release(i, "wr") EXCEPT !.op = "cont"]
  <2>1. /\ IsStream(r) /\ r.sending = i.sending
        /\ r.wr = "sending" /\ r.pg = "none" /\ r.rd = i.rd /\ r.res = i.res /\ r.failed = i.failed
        /\ r.block = (IF i.block = "wr" THEN "none" ELSE i.block)
    BY DEF Gone, IsStream, Release, Fields
  <2>2. WrSent(i) = IF Parked(r, "rd") \/ Parked(r, "pg")
                      THEN [Invoke(r, "rd", "pg") EXCEPT !.wr = "posted"]
                      ELSE SendNext(r)
    BY <1>2 DEF WrSent
  <2> HIDE DEF r
  <2>3. CASE Parked(r, "rd")
    <3>1. Invoke(r, "rd", "pg") = Resume(r, "rd")
      BY <2>3 DEF Invoke
    <3>2. Good([Resume(r, "rd") EXCEPT !.wr = "posted"])
      BY <2>1, <2>3 DEF Gone, Good, Resume, Parked, IsStream, Fields, Ops, Matches, Holders, Over
    <3> QED BY <2>2, <2>3, <3>1, <3>2
  <2>4. CASE ~Parked(r, "rd")
    <3>1. Good(SendNext(r))
      BY <1>2, <2>1 DEF Gone, Good, SendNext, IsStream, Fields, Ops, Matches, Holders, Over
    <3> QED BY <2>1, <2>2, <2>4, <3>1 DEF Parked
  <2> QED BY <2>3, <2>4
<1>3. ~(i.kind = "write" /\ i.left > 0) => Good(WrSent(i))
  BY <1>1 DEF WrSent
<1> QED BY <1>1, <1>2, <1>3

\* The handler of a write, successful or not.
LEMMA WrWrittenGood ==
  ASSUME NEW s, Good(s), s.wr = "sending"
  PROVE  /\ Good(WrSent([s EXCEPT !.sending["wr"] = "idle"]))
         /\ Good(WrUpcall([s EXCEPT !.sending["wr"] = "idle", !.failed = TRUE]))
<1>1. Good(WrSent([s EXCEPT !.sending["wr"] = "idle"]))
  <2> DEFINE i == [s EXCEPT !.sending["wr"] = "idle"]
  <2>1. Gone(i) /\ (Over(i) \/ ~i.failed)
    BY DEF Good, Gone, IsStream, Fields, Ops, Matches, Holders, Over
  <2> HIDE DEF i
  <2>2. Good(WrSent(i))
    BY <2>1, GoneGood
  <2> QED BY <2>2 DEF i
<1>2. Good(WrUpcall([s EXCEPT !.sending["wr"] = "idle", !.failed = TRUE]))
  <2> DEFINE i == [s EXCEPT !.sending["wr"] = "idle", !.failed = TRUE]
  <2>1. Gone(i)
    BY DEF Good, Gone, IsStream, Fields, Ops, Matches, Holders, Over
  <2> HIDE DEF i
  <2>2. Good(WrUpcall(i))
    BY <2>1, GoneGood
  <2> QED BY <2>2 DEF i
<1> QED BY <1>1, <1>2

-----------------------------------------------------------------------------
(* The caller's pings.                                                     *)

\* A ping or close call takes wr_block_, parks, or returns at once.
LEMMA PgStartGood ==
  ASSUME NEW s, Good(s), s.wr = "none", s.pg = "none"
  PROVE  Good(PgStart(s))
BY DEF Good, PgStart, PgSend, IsStream, Fields, Ops, Matches, Holders, Over

\* The end of a ping, sent or not, lets a parked read go on.
LEMMA PgUpcallGood ==
  ASSUME NEW s, IsStream(s), s.wr = "none", s.sending["pg"] = "idle", s.sending["wr"] = "idle",
         s.sending["rd"] # "idle" <=> s.rd \in {"pong", "closing", "failing"},
         ~Over(s) /\ ~s.failed /\ s.rd \in {"pong", "closing", "pong_resumed", "close_resumed"}
           => s.block = "rd"
  PROVE  Good(PgUpcall(s))
<1> DEFINE r == [Release(s, "pg") EXCEPT !.pg = "none"]
<1>1. /\ IsStream(r) /\ r.sending = s.sending
      /\ r.wr = "none" /\ r.pg = "none" /\ r.rd = s.rd /\ r.res = s.res /\ r.failed = s.failed
      /\ r.block = (IF s.block = "pg" THEN "none" ELSE s.block)
  BY DEF IsStream, Release, Fields
<1> HIDE DEF r
<1>2. Good(r)
  BY <1>1 DEF Good, Matches, Holders, Over
<1>3. Good(Invoke(r, "rd", "wr"))
  <2>1. CASE Parked(r, "rd")
    BY <1>1, <1>2, <2>1 DEF Good, Invoke, Resume, Parked, IsStream, Fields, Ops, Matches, Holders, Over
  <2>2. CASE ~Parked(r, "rd")
    BY <1>1, <1>2, <2>2 DEF Invoke, Parked
  <2> QED BY <2>1, <2>2
<1> QED BY <1>3 DEF PgUpcall, r

\* The handler of a ping's write, successful or not.
LEMMA PgWrittenGood ==
  ASSUME NEW s, Good(s), s.pg = "sending"
  PROVE  /\ Good(PgUpcall([s EXCEPT !.sending["pg"] = "idle"]))
         /\ Good(PgUpcall([s EXCEPT !.sending["pg"] = "idle", !.failed = TRUE]))
<1>1. Good(PgUpcall([s EXCEPT !.sending["pg"] = "idle"]))
  <2> DEFINE i == [s EXCEPT !.sending["pg"] = "idle"]
  <2>1. /\ IsStream(i) /\ i.wr = "none" /\ i.sending["pg"] = "idle" /\ i.sending["wr"] = "idle"
        /\ i.sending["rd"] # "idle" <=> i.rd \in {"pong", "closing", "failing"}
        /\ ~Over(i) /\ ~i.failed /\ i.rd \in {"pong", "closing", "pong_resumed", "close_resumed"}
             => i.block = "rd"
    BY DEF Good, IsStream, Fields, Ops, Matches, Holders, Over
  <2> HIDE DEF i
  <2>2. Good(PgUpcall(i))
    BY <2>1, PgUpcallGood
  <2> QED BY <2>2 DEF i
<1>2. Good(PgUpcall([s EXCEPT !.sending["pg"] = "idle", !.failed = TRUE]))
  <2> DEFINE i == [s EXCEPT !.sending["pg"] = "idle", !.failed = TRUE]
  <2>1. /\ IsStream(i) /\ i.wr = "none" /\ i.sending["pg"] = "idle" /\ i.sending["wr"] = "idle"
        /\ i.sending["rd"] # "idle" <=> i.rd \in {"pong", "closing", "failing"}
        /\ i.failed
    BY DEF Good, IsStream, Fields, Ops, Matches
  <2> HIDE DEF i
  <2>2. Good(PgUpcall(i))
    BY <2>1, PgUpcallGood
  <2> QED BY <2>2 DEF i
<1> QED BY <1>1, <1>2

\* A resumed or posted ping or close sends its frame, or aborts.
LEMMA PgPostedGood ==
  ASSUME NEW s, Good(s), s.pg \in {"resumed", "aborted"}
  PROVE  Good(PgPosted(s))
<1>1. CASE s.pg = "resumed" /\ ~(s.failed \/ s.wr_close)
  BY <1>1 DEF Good, PgPosted, PgSend, IsStream, Fields, Ops, Matches, Holders, Over
<1>2. CASE ~(s.pg = "resumed" /\ ~(s.failed \/ s.wr_close))
  <2>1. Good(PgUpcall(s))
    BY PgUpcallGood DEF Good, Matches, Holders
  <2> QED BY <1>2, <2>1 DEF PgPosted
<1> QED BY <1>1, <1>2

-----------------------------------------------------------------------------
(* The read.                                                               *)

\* A read that begins.
LEMMA ReadHeaderGood ==
  ASSUME NEW s, Good(s), s.rd = "none", s.res = "none"
  PROVE  Good(ReadHeader(s))
BY DEF Good, ReadHeader, IsStream, Fields, Matches, Holders, Over

\* The end of a read lets a parked ping or write go on.
LEMMA RdUpcallGood ==
  ASSUME NEW s, NEW res, IsStream(s), s.wr = "none" \/ s.pg = "none",
         s.sending["wr"] # "idle" <=> s.wr = "sending",
         s.sending["pg"] # "idle" <=> s.pg = "sending",
         s.sending["rd"] = "idle",
         res # "none" \/ Holders(s)
  PROVE  /\ Good(RdUpcall(s, res))
         /\ RdUpcall(s, res).rd = "none" /\ RdUpcall(s, res).res = res
<1> DEFINE r == [Release(s, "rd") EXCEPT !.rd = "none", !.res = res]
<1>1. /\ r.rd = "none" /\ r.res = res /\ r.wr = s.wr /\ r.pg = s.pg /\ r.failed = s.failed
      /\ r.sending = s.sending /\ r.block = (IF s.block = "rd" THEN "none" ELSE s.block)
      /\ IsStream(r)
  BY DEF IsStream, Release, Fields
<1> HIDE DEF r
<1>2. Good(r)
  BY <1>1 DEF Good, Matches, Holders, Over
<1>3. Good(Invoke(r, "pg", "wr")) /\ Invoke(r, "pg", "wr").rd = "none" /\ Invoke(r, "pg", "wr").res = res
  <2>1. CASE r.pg = "parked"
    BY <1>1, <1>2, <2>1 DEF Good, Invoke, Resume, Parked, IsStream, Fields, Ops, Matches, Holders, Over
  <2>2. CASE r.pg # "parked" /\ r.wr = "parked"
    BY <1>1, <1>2, <2>2 DEF Good, Invoke, Resume, Parked, IsStream, Fields, Ops, Matches, Holders, Over
  <2>3. CASE r.pg # "parked" /\ r.wr # "parked"
    BY <1>1, <1>2, <2>3 DEF Invoke, Parked
  <2> QED BY <2>1, <2>2, <2>3
<1> QED BY <1>3 DEF RdUpcall, r

\* A read that fails sends its close frame, parks, or just ends.
LEMMA FailGood ==
  ASSUME NEW s, Good(s), s.rd \in {"fh", "fail_resumed"}
  PROVE  Good(Fail(s))
BY DEF Good, Fail, FailSend, Teardown, RdSend, IsStream, Fields, Ops, Matches, Holders, Over

\* A read that met a ping answers it, or parks behind a writer.
LEMMA PingGood ==
  ASSUME NEW s, Good(s), s.rd = "fh"
  PROVE  Good(ReceivePing(s))
BY DEF Good, ReceivePing, RdSend, IsStream, Fields, Ops, Matches, Holders, Over

\* A read that met a close frame answers it, parks, or tears down.
LEMMA CloseGood ==
  ASSUME NEW s, Good(s), s.rd = "fh"
  PROVE  Good(ReceiveClose(s))
BY DEF Good, ReceiveClose, CloseSend, Teardown, RdSend, IsStream, Fields, Ops, Matches, Holders, Over

\* A read that met data leaves wr_block_ alone.
LEMMA DataGood ==
  ASSUME NEW s, NEW f, Good(s), s.rd = "fh"
  PROVE  Good(ReceiveData(s, f))
<1> DEFINE r == [s EXCEPT !.rd_cont = ~f.fin]
<1>1. /\ IsStream(r) /\ r.sending = s.sending /\ r.wr = s.wr /\ r.pg = s.pg /\ r.rd = "fh"
      /\ r.res = s.res /\ r.failed = s.failed /\ r.block = s.block
  BY DEF Good, IsStream, Fields
<1> HIDE DEF r
<1>2. Good(r)
  BY <1>1 DEF Good, Matches, Holders, Over
<1>3. Good(Fail(r))
  BY <1>1, <1>2, FailGood
<1>4. Good(RdUpcall(r, "none")) /\ RdUpcall(r, "none").rd = "none" /\ RdUpcall(r, "none").res = "none"
  BY <1>1, <1>2, RdUpcallGood DEF Good, Matches, Over
<1>5. Good(ReadHeader(RdUpcall(r, "none")))
  BY <1>4, ReadHeaderGood
<1> QED BY <1>3, <1>4, <1>5 DEF ReceiveData, r

\* Whatever arrives.
LEMMA ReceiveGood ==
  ASSUME NEW s, NEW f, Good(s), s.rd = "fh"
  PROVE  Good(Receive(s, f))
BY FailGood, PingGood, CloseGood, DataGood DEF Receive

\* The handler of the read's own write, successful or not.
LEMMA RdWrittenGood ==
  ASSUME NEW s, Good(s), s.rd \in {"pong", "closing", "failing"}
  PROVE  /\ Good(RdSent([s EXCEPT !.sending["rd"] = "idle"]))
         /\ Good(RdUpcall([s EXCEPT !.sending["rd"] = "idle", !.failed = TRUE], "error"))
<1>1. Good(RdSent([s EXCEPT !.sending["rd"] = "idle"]))
  BY DEF Good, RdSent, Teardown, IsStream, Fields, Ops, Matches, Holders, Over
<1>2. Good(RdUpcall([s EXCEPT !.sending["rd"] = "idle", !.failed = TRUE], "error"))
  <2> DEFINE i == [s EXCEPT !.sending["rd"] = "idle", !.failed = TRUE]
  <2>1. /\ IsStream(i) /\ i.wr = s.wr /\ i.pg = s.pg /\ i.sending["rd"] = "idle"
        /\ i.sending["wr"] = s.sending["wr"] /\ i.sending["pg"] = s.sending["pg"]
    BY DEF Good, IsStream, Fields, Ops
  <2> HIDE DEF i
  <2>2. Good(RdUpcall(i, "error"))
    BY <2>1, RdUpcallGood DEF Good, Matches
  <2> QED BY <2>2 DEF i
<1> QED BY <1>1, <1>2

\* A read that was parked, or aborted, goes on.
LEMMA RdPostedGood ==
  ASSUME NEW s, Good(s), s.rd \in {"aborted", "pong_resumed", "close_resumed", "fail_resumed"}
  PROVE  Good(RdPosted(s))
<1>1. \A res : res # "none" => Good(RdUpcall(s, res))
  BY RdUpcallGood DEF Good, Matches
<1>2. ASSUME s.rd = "pong_resumed", ~s.failed, s.wr_close PROVE Good([Release(s, "rd") EXCEPT !.rd = "fh"])
  BY <1>2 DEF Good, Release, IsStream, Fields, Ops, Matches, Holders, Over
<1>3. ASSUME s.rd = "pong_resumed", ~s.failed PROVE Good(RdSend(s, "pong"))
  BY <1>3 DEF Good, RdSend, IsStream, Fields, Ops, Matches, Holders, Over
<1>4. ASSUME s.rd = "close_resumed", ~s.failed PROVE Good(CloseSend(s))
  BY <1>4 DEF Good, CloseSend, RdSend, IsStream, Fields, Ops, Matches, Holders, Over
<1>5. ASSUME s.rd = "fail_resumed" PROVE Good(FailSend(s))
  BY <1>5 DEF Good, FailSend, RdSend, IsStream, Fields, Ops, Matches, Holders, Over
<1> QED BY <1>1, <1>2, <1>3, <1>4, <1>5 DEF RdPosted, PongResumed, CloseResumed, FailResumed

-----------------------------------------------------------------------------
(* The steps of one peer.                                                  *)

\* A step of one peer leaves the other's stream alone.
LEMMA OnlyOne ==
  ASSUME WsInv, NEW p \in Peers, NEW s, Step(p, s), Good(s), Sync(p) => Plain(s),
         UNCHANGED blocking
  PROVE  WsInv'
BY DEF WsInv, PeerInv, Step, Sync

\* The calls of an asynchronous caller.
LEMMA CallInv ==
  ASSUME WsInv, NEW p \in Peers,
         \/ \E n \in 1..2, fin \in BOOLEAN, ok \in BOOLEAN : StartWrite(p, n, fin, ok)
         \/ StartPing(p) \/ StartClose(p) \/ StartRead(p)
  PROVE  WsInv'
<1> USE DEF Sync, Async
<1>1. Good(ws[p])
  BY DEF WsInv, PeerInv
<1>2. ASSUME NEW n \in 1..2, NEW fin \in BOOLEAN, NEW ok \in BOOLEAN, StartWrite(p, n, fin, ok)
      PROVE  WsInv'
  <2> DEFINE s == [ws[p] EXCEPT !.kind = "write", !.left = n, !.fin = fin, !.ok = ok,
                                !.calls = @ + 1, !.op = IF ws[p].wr_cont THEN "cont" ELSE "text"]
  <2>1. ws[p].wr = "none" /\ ws[p].pg = "none" /\ p \notin blocking /\ Step(p, MaybeSuspend(s))
        /\ UNCHANGED blocking
    BY <1>2 DEF StartWrite, MayCall
  <2>2. Good(s) /\ s.wr = "none" /\ s.pg = "none"
    BY <1>1, <2>1 DEF Good, IsStream, Fields, Matches, Holders, Over
  <2> HIDE DEF s
  <2>3. Good(MaybeSuspend(s))
    BY <2>2, SuspendGood
  <2> QED BY <2>1, <2>3, OnlyOne
<1>3. CASE StartPing(p)
  <2> DEFINE s == [ws[p] EXCEPT !.calls = @ + 1]
  <2>1. ws[p].wr = "none" /\ ws[p].pg = "none" /\ p \notin blocking /\ Step(p, PgStart(s))
        /\ UNCHANGED blocking
    BY <1>3 DEF StartPing, MayCall
  <2>2. Good(s) /\ s.wr = "none" /\ s.pg = "none"
    BY <1>1, <2>1 DEF Good, IsStream, Fields, Matches, Holders, Over
  <2> HIDE DEF s
  <2>3. Good(PgStart(s))
    BY <2>2, PgStartGood
  <2> QED BY <2>1, <2>3, OnlyOne
<1>4. CASE StartClose(p)
  <2> DEFINE s == [ws[p] EXCEPT !.kind = "close", !.calls = MaxOps[p] + 1]
  <2>1. ws[p].wr = "none" /\ ws[p].pg = "none" /\ p \notin blocking /\ Step(p, MaybeSuspend(s))
        /\ UNCHANGED blocking
    BY <1>4 DEF StartClose, MayCall
  <2>2. Good(s) /\ s.wr = "none" /\ s.pg = "none"
    BY <1>1, <2>1 DEF Good, IsStream, Fields, Matches, Holders, Over
  <2> HIDE DEF s
  <2>3. Good(MaybeSuspend(s))
    BY <2>2, SuspendGood
  <2> QED BY <2>1, <2>3, OnlyOne
<1>5. CASE StartRead(p)
  BY <1>1, <1>5, ReadHeaderGood, OnlyOne DEF StartRead
<1> QED BY <1>2, <1>3, <1>4, <1>5

\* The socket takes a frame, and the handlers of the writes run.
LEMMA SocketInv ==
  ASSUME WsInv, NEW p \in Peers, NEW o \in Ops, SocketStep(p, o)
  PROVE  WsInv'
<1>1. Good(ws[p]) /\ (Sync(p) => Plain(ws[p]))
  BY DEF WsInv, PeerInv
<1>2. CASE Deliver(p, o)
  <2> DEFINE s == [ws[p] EXCEPT !.sending[o] = "sent"]
  <2>1. Step(p, s) /\ UNCHANGED blocking /\ ws[p].sending[o] = "busy"
    BY <1>2 DEF Deliver
  <2>2. Good(s) /\ (Sync(p) => Plain(s))
    BY <1>1, <2>1 DEF Good, IsStream, Fields, Ops, Matches, Holders, Over, Plain
  <2> HIDE DEF s
  <2> QED BY <2>1, <2>2, OnlyOne
<1>3. ASSUME ws[p].sending[o] # "idle"
      PROVE  /\ ~Sync(p)
             /\ o = "rd" => ws[p].rd \in {"pong", "closing", "failing"}
             /\ o = "wr" => ws[p].wr = "sending"
             /\ o = "pg" => ws[p].pg = "sending"
  BY <1>1, <1>3 DEF Good, Matches, Plain, Ops
<1>4. CASE Written(p, o)
  <2> DEFINE i == [ws[p] EXCEPT !.sending[o] = "idle"]
             s == CASE o = "rd" -> RdSent(i) [] o = "wr" -> WrSent(i) [] o = "pg" -> PgUpcall(i)
  <2>1. Step(p, s) /\ UNCHANGED blocking /\ ws[p].sending[o] # "idle"
    BY <1>4 DEF Written
  <2>2. Good(s)
    <3>1. CASE o = "rd"
      BY <1>1, <1>3, <2>1, <3>1, RdWrittenGood
    <3>2. CASE o = "wr"
      BY <1>1, <1>3, <2>1, <3>2, WrWrittenGood
    <3>3. CASE o = "pg"
      BY <1>1, <1>3, <2>1, <3>3, PgWrittenGood
    <3> QED BY <3>1, <3>2, <3>3 DEF Ops
  <2> HIDE DEF s
  <2> QED BY <1>3, <2>1, <2>2, OnlyOne
<1>5. CASE WriteFails(p, o)
  <2> DEFINE i == [ws[p] EXCEPT !.sending[o] = "idle", !.failed = TRUE]
             s == CASE o = "rd" -> RdUpcall(i, "error") [] o = "wr" -> WrUpcall(i)
                    [] o = "pg" -> PgUpcall(i)
  <2>1. Step(p, s) /\ UNCHANGED blocking /\ ws[p].sending[o] # "idle"
    BY <1>5 DEF WriteFails
  <2>2. Good(s)
    <3>1. CASE o = "rd"
      BY <1>1, <1>3, <2>1, <3>1, RdWrittenGood
    <3>2. CASE o = "wr"
      BY <1>1, <1>3, <2>1, <3>2, WrWrittenGood
    <3>3. CASE o = "pg"
      BY <1>1, <1>3, <2>1, <3>3, PgWrittenGood
    <3> QED BY <3>1, <3>2, <3>3 DEF Ops
  <2> HIDE DEF s
  <2> QED BY <1>3, <2>1, <2>2, OnlyOne
<1> QED BY <1>2, <1>4, <1>5 DEF SocketStep

\* The handlers that were posted.
LEMMA PostedInv ==
  ASSUME WsInv, NEW p \in Peers, RunRdPosted(p) \/ WriteStep(p)
  PROVE  WsInv'
<1>1. Good(ws[p]) /\ (Sync(p) => Plain(ws[p]))
  BY DEF WsInv, PeerInv
<1>2. CASE RunRdPosted(p)
  <2>1. ~Sync(p) /\ Good(RdPosted(ws[p])) /\ Step(p, RdPosted(ws[p])) /\ UNCHANGED blocking
    BY <1>1, <1>2, RdPostedGood DEF RunRdPosted, Plain
  <2> QED BY <2>1, OnlyOne
<1>3. CASE RunWrPosted(p)
  <2>1. ~Sync(p) /\ Good(WrPosted(ws[p])) /\ Step(p, WrPosted(ws[p])) /\ UNCHANGED blocking
    BY <1>1, <1>3, WrPostedGood DEF RunWrPosted, Plain
  <2> QED BY <2>1, OnlyOne
<1>4. CASE RunPgPosted(p)
  <2>1. ~Sync(p) /\ Good(PgPosted(ws[p])) /\ Step(p, PgPosted(ws[p])) /\ UNCHANGED blocking
    BY <1>1, <1>4, PgPostedGood DEF RunPgPosted, Plain
  <2> QED BY <2>1, OnlyOne
<1> QED BY <1>2, <1>3, <1>4 DEF WriteStep

\* What an asynchronous read meets, and the end of every connection.
LEMMA ReadInv ==
  ASSUME WsInv, NEW p \in Peers,
         ReadFrame(p) \/ ReadFails(p) \/ TeardownRead(p) \/ TeardownEnd(p) \/ Destroy(p)
  PROVE  WsInv'
<1>1. Good(ws[p]) /\ (Sync(p) => Plain(ws[p]))
  BY DEF WsInv, PeerInv
<1>2. CASE ReadFrame(p)
  <2>1. Good(Receive(ws[p], Head(Incoming(p))))
    BY <1>1, <1>2, ReceiveGood DEF ReadFrame
  <2> QED BY <1>2, <2>1, OnlyOne DEF ReadFrame, Async, Sync
<1>3. CASE ReadFails(p)
  <2> DEFINE i == [ws[p] EXCEPT !.failed = TRUE]
  <2>1. /\ IsStream(i) /\ i.wr = ws[p].wr /\ i.pg = ws[p].pg /\ i.sending = ws[p].sending
        /\ ws[p].sending["rd"] = "idle"
    BY <1>1, <1>3 DEF Good, Matches, IsStream, Fields, ReadFails
  <2>2. Step(p, RdUpcall(i, "error")) /\ UNCHANGED blocking /\ ~Sync(p)
    BY <1>3 DEF ReadFails, Async, Sync
  <2> HIDE DEF i
  <2>3. Good(RdUpcall(i, "error"))
    BY <1>1, <2>1, RdUpcallGood DEF Good, Matches
  <2> QED BY <2>2, <2>3, OnlyOne
<1>4. CASE TeardownRead(p)
  BY <1>4 DEF TeardownRead, WsInv, PeerInv, Sync
<1>5. CASE TeardownEnd(p)
  <2> DEFINE ok == ~cut \/ p \in blocking
             i  == [ws[p] EXCEPT !.sock = IF ok THEN "closed" ELSE @, !.failed = @ \/ p \in blocking]
             res == IF ~ok THEN "error" ELSE IF i.rd = "teardown" THEN "closed" ELSE "failed"
  <2>1. /\ IsStream(i) /\ i.wr = ws[p].wr /\ i.pg = ws[p].pg /\ i.sending = ws[p].sending
        /\ ws[p].sending["rd"] = "idle"
    BY <1>1, <1>5 DEF Good, Matches, IsStream, Fields, TeardownEnd, Tearing
  <2>2. Step(p, RdUpcall(i, res)) /\ UNCHANGED blocking /\ res # "none"
    BY <1>5 DEF TeardownEnd
  <2> HIDE DEF i, res
  <2>3. Good(RdUpcall(i, res))
    BY <1>1, <2>1, <2>2, RdUpcallGood DEF Good, Matches
  <2>4. Sync(p) => Plain(RdUpcall(i, res))
    BY <1>1, <2>1 DEF Plain, RdUpcall, Invoke, Parked, Release, IsStream, Fields
  <2> QED BY <2>2, <2>3, <2>4, OnlyOne
<1>6. CASE Destroy(p)
  <2> DEFINE s == [ws[p] EXCEPT !.sock = "closed"]
  <2>1. Step(p, s) /\ UNCHANGED blocking
    BY <1>6 DEF Destroy
  <2>2. Good(s) /\ (Sync(p) => Plain(s))
    BY <1>1 DEF Good, IsStream, Fields, Matches, Holders, Over, Plain
  <2> HIDE DEF s
  <2> QED BY <2>1, <2>2, OnlyOne
<1> QED BY <1>2, <1>3, <1>4, <1>5, <1>6

\* A synchronous caller never leaves anything parked or at the socket.
LEMMA SyncInv ==
  ASSUME WsInv, NEW p \in Peers,
         \/ \E n \in 1..2, fin \in BOOLEAN, ok \in BOOLEAN : SyncWrite(p, n, fin, ok)
         \/ SyncPing(p) \/ SyncClose(p)
         \/ SyncRead(p) \/ SyncReadFrame(p) \/ SyncReadFails(p)
  PROVE  WsInv'
<1> DEFINE Keeps(s) == /\ IsStream(s) /\ s.wr = "none" /\ s.pg = "none"
                       /\ s.rd \in {"none", "fh", "teardown", "fail_teardown"}
                       /\ s.sending = ws[p].sending
<1>1. Good(ws[p]) /\ (Sync(p) => Plain(ws[p]))
  BY DEF WsInv, PeerInv
<1>2. ASSUME NEW s, Step(p, s), Keeps(s), Sync(p), UNCHANGED blocking PROVE WsInv'
  <2>1. Good(s)
    BY <1>1, <1>2 DEF Good, Matches, Holders, Over, Plain
  <2> QED BY <1>2, <2>1, OnlyOne DEF Plain
<1>3. Sync(p) /\ UNCHANGED blocking
  BY DEF SyncWrite, SyncPing, SyncClose, SyncRead, SyncReadFrame, SyncReadFails
<1>4. IsStream(ws[p]) /\ Plain(ws[p])
  BY <1>1, <1>3 DEF Good
<1>5. ASSUME NEW n \in 1..2, NEW fin \in BOOLEAN, NEW ok \in BOOLEAN, SyncWrite(p, n, fin, ok)
      PROVE  WsInv'
  <2>1. Keeps([ws[p] EXCEPT !.failed = TRUE, !.res = "error"])
    BY <1>4 DEF IsStream, Fields, Plain
  <2>2. Keeps([ws[p] EXCEPT !.calls = @ + 1, !.wr_cont = SyncWrote(p, fin)])
    BY <1>4 DEF IsStream, Fields, Plain
  <2> HIDE DEF Keeps
  <2> QED BY <1>2, <1>3, <1>5, <2>1, <2>2 DEF SyncWrite
<1>6. CASE SyncPing(p) \/ SyncClose(p) \/ SyncRead(p) \/ SyncReadFails(p)
  <2>1. /\ Keeps([ws[p] EXCEPT !.calls = @ + 1])
        /\ Keeps([ws[p] EXCEPT !.wr_close = TRUE, !.calls = MaxOps[p] + 1])
        /\ Keeps([ws[p] EXCEPT !.rd = "fh"])
        /\ Keeps([ws[p] EXCEPT !.failed = TRUE, !.rd = "none", !.res = "error"])
    BY <1>4 DEF IsStream, Fields, Plain
  <2> HIDE DEF Keeps
  <2> QED BY <1>2, <1>3, <1>6, <2>1 DEF SyncPing, SyncClose, SyncRead, SyncReadFails
<1>7. CASE SyncReadFrame(p)
  <2>1. \A f : Keeps(SyncReceive(ws[p], f))
    BY <1>4, <1>7 DEF IsStream, Fields, Plain, SyncReceive, Teardown, SyncReadFrame
  <2> HIDE DEF Keeps
  <2> QED BY <1>2, <1>3, <1>7, <2>1 DEF SyncReadFrame
<1> QED BY <1>5, <1>6, <1>7

-----------------------------------------------------------------------------
(* The theorems.                                                           *)

\* Whose wr_block_ is never becomes false.
THEOREM WsInductive == Spec => []WsInv
<1>1. Init => WsInv
  BY DEF Init, Open, WsInv, PeerInv, Good, IsStream, Fields, Ops, Matches, Holders, Over, Plain
<1>2. WsInv /\ [Next]_wsvars => WsInv'
  <2> SUFFICES ASSUME WsInv, [Next]_wsvars PROVE WsInv'
    OBVIOUS
  <2>1. CASE UNCHANGED wsvars \/ Break
    BY <2>1 DEF wsvars, Break, WsInv, PeerInv, Sync
  <2>2. ASSUME NEW p \in Peers, Caller(p) PROVE WsInv'
    BY <2>2, CallInv, SyncInv DEF Caller
  <2>3. ASSUME NEW p \in Peers, ReadStep(p) PROVE WsInv'
    BY <2>3, CallInv, PostedInv, ReadInv, SyncInv DEF ReadStep
  <2>4. ASSUME NEW p \in Peers, WriteStep(p) PROVE WsInv'
    BY <2>4, PostedInv
  <2>5. ASSUME NEW p \in Peers, NEW o \in Ops, SocketStep(p, o) PROVE WsInv'
    BY <2>5, SocketInv
  <2> QED BY <2>1, <2>2, <2>3, <2>4, <2>5 DEF Next
<1> QED BY <1>1, <1>2, PTL DEF Spec

\* Two operations of one stream write at once only when one of them is the
\* close frame of a read that failed.
THEOREM OneAtATime == Spec => []OneWriter
<1>1. WsInv => OneWriter
  <2> SUFFICES ASSUME WsInv, NEW p \in Peers, ws[p].rd # "failing"
               PROVE  ~(Cardinality(Writers(p)) > 1)
    BY DEF OneWriter
  <2>1. Good(ws[p])
    BY DEF WsInv, PeerInv
  <2>2. \E o \in Ops : Writers(p) \subseteq {o}
    BY <2>1 DEF Good, Matches, Holders, Over, Writers, Ops
  <2>3. PICK o \in Ops : Writers(p) \subseteq {o}
    BY <2>2
  <2>4. IsFiniteSet({o}) /\ Cardinality({o}) = 1
    BY FS_Singleton
  <2>5. IsFiniteSet(Writers(p)) /\ Cardinality(Writers(p)) <= 1
    <3> DEFINE W == Writers(p)
    <3>1. W \subseteq {o}
      BY <2>3
    <3> HIDE DEF W
    <3>2. IsFiniteSet(W) /\ Cardinality(W) <= Cardinality({o})
      BY <2>4, <3>1, FS_Subset
    <3>3. Cardinality(W) <= 1
      BY <2>4, <3>2
    <3> QED BY <3>2, <3>3 DEF W
  <2>6. Cardinality(Writers(p)) \in Nat
    BY <2>5, FS_CardinalityType
  <2> QED BY <2>5, <2>6
<1> QED BY <1>1, WsInductive, PTL

-----------------------------------------------------------------------------
(***************************************************************************)
(* What stands on the wire between two streams.  A close frame is the last *)
(* word of a stream that has not failed, whichever operation sends it; and *)
(* the frames of a message come in an order the other side accepts.        *)
(*                                                                         *)
(* The second needs a witness: beside every sequence of frames on the wire *)
(* stands the state of whoever has read so far (Track), which begins with  *)
(* the reader's rd_.cont and ends where the next write goes on (Mid).  All *)
(* of it hangs on wr_block_ (WsInv, proved in WsStream_proofs).            *)
(***************************************************************************)

\* A stream that may still put a frame of a message on the wire.
CanSend(s) == (s.wr = "sending" /\ s.kind = "write") \/ ~(s.failed \/ s.wr_close)

\* What has left a stream ends inside a message.
Mid(s) ==
  \/ (s.kind = "close" \/ s.wr = "none") /\ s.wr_cont
  \/ /\ s.kind = "write" /\ s.wr = "sending" /\ s.sending["wr"] # "busy"
     /\ ~(s.fin /\ s.left = 0)
  \/ /\ s.kind = "write" /\ s.wr # "none" /\ ~(s.wr = "sending" /\ s.sending["wr"] # "busy")
     /\ s.op = "cont"

\* A stream that may still read a frame.
Alive(s) == \/ s.rd \in {"fh", "pong", "pong_parked", "pong_resumed"}
            \/ s.rd = "none" /\ s.res = "none"

Typed(s) ==
  /\ s.kind \in {"write", "close"} /\ s.op \in {"text", "cont"}
  /\ s.fin \in BOOLEAN /\ s.ok \in BOOLEAN /\ s.left \in Nat

\* How wr_.cont, the frames left and wr_close_ go with the operations.
WrTidy(s) ==
  /\ s.kind = "write" /\ s.wr \in {"parked", "posted", "resumed"} => s.left > 0
  /\ s.wr = "none" => s.kind = "write"
  /\ s.wr = "sending" /\ s.kind = "write" => (s.wr_cont <=> ~s.fin)
  /\ s.wr = "aborted" => s.failed \/ s.wr_close
  /\ s.wr = "sending" /\ s.kind = "close" => s.wr_close

\* A read that will read no more has failed, or has a close to go with it.
RdTidy(s) ==
  /\ s.rd \in {"failing", "aborted"} => s.failed
  /\ s.rd \in {"closing", "teardown"} => s.wr_close
  /\ s.rd = "fail_teardown" \/ s.res # "none" => s.failed \/ s.wr_close

\* Once a close has been given to the socket nothing else is.
CloseAlone(s) ==
  s.wr_close /\ ~s.failed =>
    /\ s.rd # "pong" /\ s.pg # "sending"
    /\ s.wr = "sending" => s.kind = "close" /\ s.rd # "closing"

Tidy(s) == Typed(s) /\ WrTidy(s) /\ RdTidy(s) /\ CloseAlone(s)

\* What a handler that takes s to t may do to the sending side, short of
\* putting a frame on the wire, ...
Sends(s, t) ==
  /\ s.failed => t.failed
  /\ s.wr_close => t.wr_close
  /\ CanSend(t) => CanSend(s) /\ (Mid(t) <=> Mid(s))
  /\ s.wr_close /\ ~t.failed =>
       \A o \in Ops : t.sending[o] = "busy" => s.sending[o] = "busy"

\* ... and to the reading side, short of reading a frame.
Reads(s, t) == Alive(t) => Alive(s) /\ t.rd_cont = s.rd_cont

Goes(s, t) == Tidy(t) /\ Sends(s, t) /\ Reads(s, t)

\* Two handlers, one after the other.
LEMMA Onward ==
  ASSUME NEW s, NEW t, NEW u, Goes(s, t), Goes(t, u)
  PROVE  Goes(s, u)
BY DEF Goes, Sends, Reads

-----------------------------------------------------------------------------
(* What the handlers are made of.                                          *)

\* The next frame goes to the socket; of the rest only wr_.cont or wr_close_
\* changes.
LEMMA SendNextIs ==
  ASSUME NEW s, IsStream(s)
  PROVE  LET t == SendNext(s)
         IN  /\ t.wr = "sending" /\ t.pg = s.pg /\ t.rd = s.rd /\ t.res = s.res
             /\ t.kind = s.kind /\ t.op = s.op /\ t.fin = s.fin /\ t.ok = s.ok
             /\ t.rd_cont = s.rd_cont /\ t.failed = s.failed
             /\ t.sending["wr"] = "busy"
             /\ t.sending["rd"] = s.sending["rd"] /\ t.sending["pg"] = s.sending["pg"]
             /\ s.kind = "close" => t.wr_close /\ t.left = s.left /\ t.wr_cont = s.wr_cont
             /\ s.kind # "close" => /\ t.wr_close = s.wr_close /\ t.left = s.left - 1
                                    /\ (t.wr_cont <=> ~s.fin)
BY DEF SendNext, IsStream, Fields, Ops

-----------------------------------------------------------------------------
(* The caller's writes.                                                    *)

\* A write of data begins, or parks.
LEMMA StartWriteTidy ==
  ASSUME NEW s, Good(s), Tidy(s), s.wr = "none", s.pg = "none",
         NEW n \in 1..2, NEW fin \in BOOLEAN, NEW ok \in BOOLEAN, NEW c
  PROVE  Goes(s, MaybeSuspend([s EXCEPT !.kind = "write", !.left = n, !.fin = fin, !.ok = ok,
                 !.calls = c, !.op = IF s.wr_cont THEN "cont" ELSE "text"]))
<1> DEFINE i == [s EXCEPT !.kind = "write", !.left = n, !.fin = fin, !.ok = ok,
                 !.calls = c, !.op = IF s.wr_cont THEN "cont" ELSE "text"]
<1>1. /\ IsStream(i) /\ i.wr = "none" /\ i.pg = "none" /\ i.kind = "write" /\ i.left = n
      /\ i.fin = fin /\ i.ok = ok /\ i.op \in {"text", "cont"} /\ (i.op = "cont" <=> s.wr_cont)
      /\ i.wr_cont = s.wr_cont /\ i.rd_cont = s.rd_cont /\ i.rd = s.rd /\ i.res = s.res
      /\ i.block = s.block /\ i.sending = s.sending /\ i.failed = s.failed /\ i.wr_close = s.wr_close
  BY DEF Good, IsStream, Fields
<1> SUFFICES Goes(s, MaybeSuspend(i))
  OBVIOUS
<1> HIDE DEF i
<1>2. CASE s.block # "none"
  BY <1>1, <1>2 DEF Good, MaybeSuspend, IsStream, Fields, Goes, Sends, Reads, Tidy, Typed, WrTidy, RdTidy, CloseAlone, CanSend, Mid, Alive
<1>3. CASE s.block = "none" /\ (s.failed \/ s.wr_close)
  BY <1>1, <1>3 DEF Good, MaybeSuspend, IsStream, Fields, Goes, Sends, Reads, Tidy, Typed, WrTidy, RdTidy, CloseAlone, CanSend, Mid, Alive
<1>4. CASE s.block = "none" /\ ~(s.failed \/ s.wr_close)
  <2> DEFINE t == SendNext(i)
  <2>1. MaybeSuspend(i) = t
    BY <1>1, <1>4 DEF MaybeSuspend
  <2>2. /\ t.wr = "sending" /\ t.pg = "none" /\ t.rd = s.rd /\ t.res = s.res
        /\ t.kind = "write" /\ t.op = i.op /\ t.fin = fin /\ t.ok = ok /\ t.rd_cont = s.rd_cont
        /\ t.failed = s.failed /\ t.wr_close = s.wr_close /\ t.left = n - 1 /\ (t.wr_cont <=> ~fin)
        /\ t.sending["wr"] = "busy"
    BY <1>1, SendNextIs
  <2> HIDE DEF t
  <2>3. Tidy(t)
    <3>1. Typed(t)
      BY <2>2, <1>1 DEF Typed
    <3>2. WrTidy(t)
      BY <2>2 DEF WrTidy
    <3>3. RdTidy(t)
      BY <2>2 DEF RdTidy, Tidy
    <3>4. CloseAlone(t)
      BY <1>4, <2>2 DEF CloseAlone
    <3> QED BY <3>1, <3>2, <3>3, <3>4 DEF Tidy
  <2>4. Sends(s, t) /\ Reads(s, t)
    BY <1>1, <1>4, <2>2 DEF Sends, Reads, CanSend, Mid, Alive
  <2> QED BY <2>1, <2>3, <2>4 DEF Goes
<1> QED BY <1>2, <1>3, <1>4

\* A close begins, or parks.
LEMMA StartCloseTidy ==
  ASSUME NEW s, Good(s), Tidy(s), s.wr = "none", s.pg = "none", NEW c
  PROVE  Goes(s, MaybeSuspend([s EXCEPT !.kind = "close", !.calls = c]))
<1> DEFINE i == [s EXCEPT !.kind = "close", !.calls = c]
<1>1. /\ IsStream(i) /\ i.wr = "none" /\ i.pg = "none" /\ i.kind = "close" /\ i.left = s.left
      /\ i.fin = s.fin /\ i.ok = s.ok /\ i.op = s.op
      /\ i.wr_cont = s.wr_cont /\ i.rd_cont = s.rd_cont /\ i.rd = s.rd /\ i.res = s.res
      /\ i.block = s.block /\ i.sending = s.sending /\ i.failed = s.failed /\ i.wr_close = s.wr_close
  BY DEF Good, IsStream, Fields
<1> SUFFICES Goes(s, MaybeSuspend(i))
  OBVIOUS
<1> HIDE DEF i
<1>2. CASE s.block # "none"
  BY <1>1, <1>2 DEF Good, MaybeSuspend, IsStream, Fields, Goes, Sends, Reads, Tidy, Typed, WrTidy, RdTidy, CloseAlone, CanSend, Mid, Alive
<1>3. CASE s.block = "none" /\ (s.failed \/ s.wr_close)
  BY <1>1, <1>3 DEF Good, MaybeSuspend, IsStream, Fields, Goes, Sends, Reads, Tidy, Typed, WrTidy, RdTidy, CloseAlone, CanSend, Mid, Alive
<1>4. CASE s.block = "none" /\ ~(s.failed \/ s.wr_close)
  <2> DEFINE t == SendNext(i)
  <2>1. MaybeSuspend(i) = t
    BY <1>1, <1>4 DEF MaybeSuspend
  <2>2. /\ t.wr = "sending" /\ t.pg = "none" /\ t.rd = s.rd /\ t.res = s.res
        /\ t.kind = "close" /\ t.op = s.op /\ t.fin = s.fin /\ t.ok = s.ok /\ t.rd_cont = s.rd_cont
        /\ t.failed = s.failed /\ t.wr_close /\ t.left = s.left /\ t.wr_cont = s.wr_cont
    BY <1>1, SendNextIs
  <2> HIDE DEF t
  <2>3. Tidy(t)
    <3>1. Typed(t) /\ WrTidy(t) /\ RdTidy(t)
      BY <2>2 DEF Tidy, Typed, WrTidy, RdTidy
    <3>2. ~Over(s)
      BY <1>4 DEF Over, Tidy, RdTidy
    <3>3. CloseAlone(t)
      BY <1>4, <2>2, <3>2 DEF CloseAlone, Good, Holders
    <3> QED BY <3>1, <3>3 DEF Tidy
  <2>4. Sends(s, t) /\ Reads(s, t)
    BY <1>1, <1>4, <2>2 DEF Sends, Reads, CanSend, Alive
  <2> QED BY <2>1, <2>3, <2>4 DEF Goes
<1> QED BY <1>2, <1>3, <1>4

\* The next frame of a write that may send it.
LEMMA SendNextTidy ==
  ASSUME NEW s, IsStream(s), Tidy(s), s.pg # "sending",
         s.kind = "write" => CanSend(s) /\ s.left > 0 /\ (s.op = "cont" <=> Mid(s)),
         s.kind = "close" => ~(s.failed \/ s.wr_close) /\ s.rd \notin {"pong", "closing"}
  PROVE  Goes(s, SendNext(s))
<1> DEFINE t == SendNext(s)
<1>1. /\ t.wr = "sending" /\ t.pg = s.pg /\ t.rd = s.rd /\ t.res = s.res
      /\ t.kind = s.kind /\ t.op = s.op /\ t.fin = s.fin /\ t.ok = s.ok
      /\ t.rd_cont = s.rd_cont /\ t.failed = s.failed
      /\ t.sending["wr"] = "busy"
      /\ t.sending["rd"] = s.sending["rd"] /\ t.sending["pg"] = s.sending["pg"]
      /\ s.kind = "close" => t.wr_close /\ t.left = s.left /\ t.wr_cont = s.wr_cont
      /\ s.kind # "close" => /\ t.wr_close = s.wr_close /\ t.left = s.left - 1
                             /\ (t.wr_cont <=> ~s.fin)
  BY SendNextIs
<1> HIDE DEF t
<1>2. s.kind \in {"write", "close"} /\ s.left \in Nat
  BY DEF Tidy, Typed
<1>3. Typed(t) /\ RdTidy(t) /\ Reads(s, t)
  <2>1. t.left \in Nat
    BY <1>1, <1>2
  <2>2. t.wr_close = s.wr_close \/ t.wr_close
    BY <1>1
  <2> QED BY <1>1, <2>1, <2>2 DEF Tidy, Typed, RdTidy, Reads, Alive
<1>4. WrTidy(t)
  BY <1>1, <1>2 DEF WrTidy
<1>5. CASE s.kind = "write"
  <2>1. CanSend(s) /\ s.left > 0 /\ (s.op = "cont" <=> Mid(s))
    BY <1>5
  <2>2. ~(s.wr_close /\ ~s.failed)
    BY <1>5, <2>1 DEF CanSend, CloseAlone, Tidy
  <2>3. Sends(s, t)
    <3>1. Mid(t) <=> Mid(s)
      BY <1>1, <1>5, <2>1 DEF Mid
    <3> QED BY <1>1, <1>5, <2>1, <2>2, <3>1 DEF Sends
  <2>4. CloseAlone(t)
    BY <1>1, <1>5, <2>2 DEF CloseAlone
  <2> QED BY <1>3, <1>4, <2>3, <2>4 DEF Goes, Tidy, t
<1>6. CASE s.kind = "close"
  <2>1. ~s.failed /\ ~s.wr_close /\ s.rd # "pong" /\ s.rd # "closing"
    BY <1>6
  <2>2. Sends(s, t)
    BY <1>1, <1>6, <2>1 DEF Sends, CanSend
  <2>3. CloseAlone(t)
    BY <1>1, <1>6, <2>1 DEF CloseAlone
  <2> QED BY <1>3, <1>4, <2>2, <2>3 DEF Goes, Tidy, t
<1> QED BY <1>2, <1>5, <1>6

\* An operation that is resumed, and nothing else.
Resumed(s, t) ==
  /\ IsStream(t)
  /\ t.kind = s.kind /\ t.op = s.op /\ t.left = s.left /\ t.fin = s.fin /\ t.ok = s.ok
  /\ t.wr_cont = s.wr_cont /\ t.rd_cont = s.rd_cont /\ t.sending = s.sending
  /\ t.failed = s.failed /\ t.wr_close = s.wr_close /\ t.res = s.res
  /\ t.wr = s.wr \/ (s.wr = "parked" /\ t.wr = "resumed")
  /\ t.pg = s.pg \/ (s.pg = "parked" /\ t.pg = "resumed")
  /\ \/ t.rd = s.rd
     \/ s.rd = "pong_parked" /\ t.rd = "pong_resumed"
     \/ s.rd = "close_parked" /\ t.rd = "close_resumed"
     \/ s.rd = "fail_parked" /\ t.rd = "fail_resumed"

\* What Resume does to a parked operation, and to nothing else.
LEMMA ResumeIs ==
  ASSUME NEW s, IsStream(s), NEW o \in Ops, Parked(s, o)
  PROVE  Resumed(s, Resume(s, o))
<1>1. CASE o = "wr"
  BY <1>1 DEF Resumed, Parked, Resume, IsStream, Fields
<1>2. CASE o = "pg"
  BY <1>2 DEF Resumed, Parked, Resume, IsStream, Fields
<1>3. CASE o = "rd"
  BY <1>3 DEF Resumed, Parked, Resume, IsStream, Fields
<1> QED BY <1>1, <1>2, <1>3 DEF Ops

\* maybe_invoke of two operations is that for one of them, or nothing.
LEMMA InvokeIs ==
  ASSUME NEW s, IsStream(s), NEW a \in Ops, NEW b \in Ops
  PROVE  Resumed(s, Invoke(s, a, b))
<1>1. CASE Parked(s, a)
  BY <1>1, ResumeIs DEF Invoke
<1>2. CASE ~Parked(s, a) /\ Parked(s, b)
  BY <1>2, ResumeIs DEF Invoke
<1>3. CASE ~Parked(s, a) /\ ~Parked(s, b)
  BY <1>3 DEF Invoke, Resumed
<1> QED BY <1>1, <1>2, <1>3

\* It keeps a stream tidy.
LEMMA InvokeTidy ==
  ASSUME NEW s, IsStream(s), Tidy(s), NEW a \in Ops, NEW b \in Ops
  PROVE  Goes(s, Invoke(s, a, b))
<1> DEFINE t == Invoke(s, a, b)
<1>1. Resumed(s, t)
  BY InvokeIs
<1> HIDE DEF t
<1>2. Typed(t) /\ WrTidy(t)
  BY <1>1 DEF Resumed, Tidy, Typed, WrTidy
<1>3. RdTidy(t) /\ CloseAlone(t)
  BY <1>1 DEF Resumed, Tidy, RdTidy, CloseAlone
<1>4. Sends(s, t)
  BY <1>1 DEF Resumed, Sends, CanSend, Mid
<1>5. Reads(s, t)
  BY <1>1 DEF Resumed, Reads, Alive
<1> QED BY <1>2, <1>3, <1>4, <1>5 DEF Goes, Tidy, t

\* The end of a write that has nothing more to send.
LEMMA WrUpcallTidy ==
  ASSUME NEW s, IsStream(s), Tidy(s),
         \/ s.failed \/ s.wr_close
         \/ s.wr = "sending" /\ s.kind = "write" /\ s.left = 0 /\ s.sending["wr"] # "busy"
  PROVE  Goes(s, WrUpcall(s)) /\ WrUpcall(s).wr = "none"
<1> DEFINE r == [Release(s, "wr") EXCEPT !.wr = "none", !.kind = "write", !.op = "text",
                                         !.left = 0, !.fin = TRUE, !.ok = TRUE]
<1>1. /\ IsStream(r) /\ r.wr = "none" /\ r.pg = s.pg /\ r.rd = s.rd /\ r.res = s.res
      /\ r.kind = "write" /\ r.op = "text" /\ r.left = 0 /\ r.fin /\ r.ok
      /\ r.wr_cont = s.wr_cont /\ r.rd_cont = s.rd_cont /\ r.sending = s.sending
      /\ r.failed = s.failed /\ r.wr_close = s.wr_close
      /\ r.fin \in BOOLEAN /\ r.ok \in BOOLEAN
  BY DEF IsStream, Release, Fields
<1> HIDE DEF r
<1>2. Tidy(r)
  BY <1>1 DEF Tidy, Typed, WrTidy, RdTidy, CloseAlone
<1>3. Sends(s, r)
  <2>1. CASE s.failed \/ s.wr_close
    BY <1>1, <2>1 DEF Sends, CanSend
  <2>2. CASE s.wr = "sending" /\ s.kind = "write" /\ s.left = 0 /\ s.sending["wr"] # "busy"
    <3>1. s.wr_cont <=> ~s.fin
      BY <2>2 DEF Tidy, WrTidy
    <3>2. Mid(r) <=> Mid(s)
      BY <1>1, <2>2, <3>1 DEF Mid
    <3> QED BY <1>1, <2>2, <3>2 DEF Sends, CanSend
  <2> QED BY <2>1, <2>2
<1>4. Reads(s, r)
  BY <1>1 DEF Reads, Alive
<1>5. Goes(s, r) /\ Goes(r, Invoke(r, "rd", "pg"))
  BY <1>1, <1>2, <1>3, <1>4, InvokeTidy DEF Goes, Ops
<1>6. Invoke(r, "rd", "pg").wr = "none"
  BY <1>1, InvokeIs DEF Resumed, Ops
<1> QED BY <1>5, <1>6, Onward DEF WrUpcall, r

\* Between two frames of a message the write goes on, or lets others go first.
LEMMA WrSentTidy ==
  ASSUME NEW s, IsStream(s), Tidy(s), s.wr = "sending", s.pg = "none", s.sending["wr"] # "busy"
  PROVE  Goes(s, WrSent(s))
<1>1. CASE s.kind = "write" /\ s.left > 0
  <2> DEFINE r == [Release(s, "wr") EXCEPT !.op = "cont"]
             u == Invoke(r, "rd", "pg")
             v == [u EXCEPT !.wr = "posted"]
  <2>1. WrSent(s) = IF Parked(r, "rd") \/ Parked(r, "pg") THEN v ELSE SendNext(r)
    BY <1>1 DEF WrSent
  <2>2. /\ IsStream(r) /\ r.wr = "sending" /\ r.pg = "none" /\ r.rd = s.rd /\ r.res = s.res
        /\ r.kind = "write" /\ r.op = "cont" /\ r.left = s.left /\ r.fin = s.fin /\ r.ok = s.ok
        /\ r.wr_cont = s.wr_cont /\ r.rd_cont = s.rd_cont /\ r.sending = s.sending
        /\ r.failed = s.failed /\ r.wr_close = s.wr_close
    BY <1>1 DEF IsStream, Release, Fields
  <2> HIDE DEF r
  <2>3. Goes(s, r)
    <3>1. Tidy(r)
      BY <2>2, <1>1 DEF Tidy, Typed, WrTidy, RdTidy, CloseAlone
    <3>2. Sends(s, r)
      BY <2>2, <1>1 DEF Sends, CanSend, Mid
    <3>3. Reads(s, r)
      BY <2>2 DEF Reads, Alive
    <3> QED BY <3>1, <3>2, <3>3 DEF Goes
  <2>4. s.left \in Nat
    BY DEF Tidy, Typed
  <2>5. Mid(r) /\ CanSend(r) /\ r.left # 0
    BY <1>1, <2>2, <2>4 DEF Mid, CanSend
  <2>6. CASE Parked(r, "rd") \/ Parked(r, "pg")
    <3>1. Goes(r, u)
      BY <2>2, <2>3, InvokeTidy DEF Goes, Ops
    <3>2. Resumed(r, u)
      BY <2>2, InvokeIs DEF Ops
    <3> HIDE DEF u
    <3>3. /\ v.wr = "posted" /\ v.pg = u.pg /\ v.rd = u.rd /\ v.res = u.res
          /\ v.kind = "write" /\ v.op = "cont" /\ v.left = s.left /\ v.fin = u.fin /\ v.ok = u.ok
          /\ v.wr_cont = u.wr_cont /\ v.rd_cont = u.rd_cont /\ v.sending = u.sending
          /\ v.failed = u.failed /\ v.wr_close = u.wr_close
      BY <2>2, <3>2 DEF Resumed, IsStream, Fields
    <3>4. u.wr = "sending" /\ u.kind = "write" /\ u.left = s.left /\ u.op = "cont"
          /\ u.sending = s.sending
      BY <2>2, <3>2 DEF Resumed
    <3> HIDE DEF v
    <3>5. Tidy(v)
      BY <1>1, <3>1, <3>3, <3>4 DEF Goes, Tidy, Typed, WrTidy, RdTidy, CloseAlone
    <3>6. Mid(u)
      BY <1>1, <2>4, <3>4 DEF Mid
    <3>7. Mid(v) /\ (CanSend(v) => CanSend(u))
      BY <3>3, <3>4 DEF Mid, CanSend
    <3>8. Sends(u, v)
      BY <3>3, <3>6, <3>7 DEF Sends
    <3>9. Reads(u, v)
      BY <3>3 DEF Reads, Alive
    <3>10. Goes(u, v)
      BY <3>5, <3>8, <3>9 DEF Goes
    <3>11. Goes(s, u)
      BY <2>3, <3>1, Onward
    <3>12. Goes(s, v)
      BY <3>10, <3>11, Onward
    <3> QED BY <2>1, <2>6, <3>12
  <2>7. CASE ~(Parked(r, "rd") \/ Parked(r, "pg"))
    <3>1. Goes(r, SendNext(r))
      BY <1>1, <2>2, <2>3, <2>5, SendNextTidy DEF Goes
    <3>2. Goes(s, SendNext(r))
      BY <2>3, <3>1, Onward
    <3> QED BY <2>1, <2>7, <3>2
  <2> QED BY <2>6, <2>7
<1>2. CASE ~(s.kind = "write" /\ s.left > 0)
  <2>1. \/ s.wr_close
        \/ s.kind = "write" /\ s.left = 0
    BY <1>2 DEF Tidy, Typed, WrTidy
  <2>2. Goes(s, WrUpcall(s))
    BY <2>1, WrUpcallTidy
  <2> QED BY <1>2, <2>2 DEF WrSent
<1> QED BY <1>1, <1>2

\* A write that was posted, resumed or aborted.
LEMMA WrPostedTidy ==
  ASSUME NEW s, Good(s), Tidy(s), s.wr \in {"posted", "resumed", "aborted"}
  PROVE  Goes(s, WrPosted(s))
<1>1. IsStream(s) /\ s.pg = "none"
  BY DEF Good
<1>2. ASSUME s.block = "none" \/ s.wr = "resumed", ~(s.failed \/ s.wr_close)
      PROVE  Goes(s, SendNext(s))
  <2>1. ~Over(s)
    BY <1>2 DEF Over, Tidy, RdTidy
  <2>2. s.rd \notin {"pong", "closing"}
    BY <1>2, <2>1 DEF Good, Holders
  <2>3. s.wr # "aborted"
    BY <1>2 DEF Tidy, WrTidy
  <2>4. s.kind = "write" => CanSend(s) /\ s.left > 0 /\ (s.op = "cont" <=> Mid(s))
    BY <1>2, <2>3 DEF CanSend, Mid, Tidy, WrTidy
  <2> QED BY <1>1, <1>2, <2>2, <2>4, SendNextTidy
<1>3. ASSUME s.wr = "posted", s.block # "none" PROVE Goes(s, [s EXCEPT !.wr = "parked"])
  BY <1>1, <1>3 DEF IsStream, Fields, Goes, Sends, Reads, Tidy, Typed, WrTidy, RdTidy, CloseAlone, CanSend, Mid, Alive
<1>4. ASSUME s.wr = "posted", s.failed \/ s.wr_close PROVE Goes(s, [s EXCEPT !.wr = "aborted"])
  BY <1>1, <1>4 DEF IsStream, Fields, Goes, Sends, Reads, Tidy, Typed, WrTidy, RdTidy, CloseAlone, CanSend, Mid, Alive
<1>5. CASE s.wr = "posted"
  BY <1>2, <1>3, <1>4, <1>5 DEF WrPosted, MaybeSuspend
<1>6. CASE s.wr = "resumed"
  BY <1>1, <1>2, <1>6, WrUpcallTidy DEF WrPosted
<1>7. CASE s.wr = "aborted"
  <2>1. s.failed \/ s.wr_close
    BY <1>7 DEF Tidy, WrTidy
  <2> QED BY <1>1, <1>7, <2>1, WrUpcallTidy DEF WrPosted
<1> QED BY <1>5, <1>6, <1>7

\* The handler of a write of operation o finds nothing of it at the socket.
LEMMA TakenTidy ==
  ASSUME NEW s, Good(s), Tidy(s), NEW o \in Ops
  PROVE  /\ s.sending[o] = "sent" => Goes(s, [s EXCEPT !.sending[o] = "idle"])
         /\ o # "wr" => Goes(s, [s EXCEPT !.sending[o] = "idle", !.failed = TRUE])
         /\ Tidy([s EXCEPT !.sending[o] = "idle", !.failed = TRUE])
<1>1. ASSUME s.sending[o] = "sent" PROVE Goes(s, [s EXCEPT !.sending[o] = "idle"])
  <2> DEFINE i == [s EXCEPT !.sending[o] = "idle"]
  <2>1. /\ i.wr = s.wr /\ i.pg = s.pg /\ i.rd = s.rd /\ i.res = s.res
        /\ i.kind = s.kind /\ i.op = s.op /\ i.left = s.left /\ i.fin = s.fin /\ i.ok = s.ok
        /\ i.wr_cont = s.wr_cont /\ i.rd_cont = s.rd_cont
        /\ i.failed = s.failed /\ i.wr_close = s.wr_close
        /\ \A x \in Ops : i.sending[x] = "busy" <=> s.sending[x] = "busy"
    BY <1>1 DEF Good, IsStream, Fields
  <2> HIDE DEF i
  <2>2. Tidy(i)
    BY <2>1 DEF Tidy, Typed, WrTidy, RdTidy, CloseAlone
  <2>3. Sends(s, i) /\ Reads(s, i)
    BY <2>1 DEF Sends, Reads, CanSend, Mid, Alive, Ops
  <2> QED BY <2>2, <2>3 DEF Goes, i
<1> DEFINE i == [s EXCEPT !.sending[o] = "idle", !.failed = TRUE]
<1>2. /\ i.wr = s.wr /\ i.pg = s.pg /\ i.rd = s.rd /\ i.res = s.res
      /\ i.kind = s.kind /\ i.op = s.op /\ i.left = s.left /\ i.fin = s.fin /\ i.ok = s.ok
      /\ i.wr_cont = s.wr_cont /\ i.rd_cont = s.rd_cont
      /\ i.failed /\ i.wr_close = s.wr_close
      /\ o # "wr" => i.sending["wr"] = s.sending["wr"]
  BY DEF Good, IsStream, Fields, Ops
<1> HIDE DEF i
<1>3. Tidy(i)
  BY <1>2 DEF Tidy, Typed, WrTidy, RdTidy, CloseAlone
<1>4. ASSUME o # "wr" PROVE Goes(s, i)
  <2>1. Sends(s, i) /\ Reads(s, i)
    BY <1>2, <1>4 DEF Sends, Reads, CanSend, Mid, Alive
  <2> QED BY <1>3, <2>1 DEF Goes
<1> QED BY <1>1, <1>3, <1>4 DEF i

\* The handler of a write's frame, sent or not.
LEMMA WrWrittenTidy ==
  ASSUME NEW s, Good(s), Tidy(s), s.wr = "sending"
  PROVE  /\ s.sending["wr"] = "sent" => Goes(s, WrSent([s EXCEPT !.sending["wr"] = "idle"]))
         /\ Goes(s, WrUpcall([s EXCEPT !.sending["wr"] = "idle", !.failed = TRUE]))
<1>1. ASSUME s.sending["wr"] = "sent" PROVE Goes(s, WrSent([s EXCEPT !.sending["wr"] = "idle"]))
  <2> DEFINE i == [s EXCEPT !.sending["wr"] = "idle"]
  <2>1. Goes(s, i)
    BY <1>1, TakenTidy DEF Ops
  <2>2. IsStream(i) /\ i.wr = "sending" /\ i.pg = "none" /\ i.sending["wr"] = "idle"
    BY DEF Good, IsStream, Fields, Ops
  <2> HIDE DEF i
  <2>3. Goes(i, WrSent(i))
    BY <2>1, <2>2, WrSentTidy DEF Goes
  <2>4. Goes(s, WrSent(i))
    BY <2>1, <2>3, Onward
  <2> QED BY <2>4 DEF i
<1>2. Goes(s, WrUpcall([s EXCEPT !.sending["wr"] = "idle", !.failed = TRUE]))
  <2> DEFINE i == [s EXCEPT !.sending["wr"] = "idle", !.failed = TRUE]
             t == WrUpcall(i)
  <2>1. Tidy(i)
    BY TakenTidy DEF Ops
  <2>2. IsStream(i) /\ i.failed /\ i.wr_close = s.wr_close /\ i.rd = s.rd /\ i.res = s.res
        /\ i.rd_cont = s.rd_cont
    BY DEF Good, IsStream, Fields
  <2> HIDE DEF i
  <2>3. Goes(i, t) /\ t.wr = "none"
    BY <2>1, <2>2, WrUpcallTidy
  <2> HIDE DEF t
  <2>4. t.failed /\ (s.wr_close => t.wr_close)
    BY <2>2, <2>3 DEF Goes, Sends
  <2>5. Sends(s, t)
    BY <2>3, <2>4 DEF Sends, CanSend
  <2>6. Reads(s, t)
    BY <2>2, <2>3 DEF Goes, Reads, Alive
  <2> QED BY <2>3, <2>5, <2>6 DEF Goes, t, i
<1> QED BY <1>1, <1>2

-----------------------------------------------------------------------------
(* The caller's pings.                                                     *)

\* The count of calls and the socket's state are no concern of a handler.
LEMMA AsideTidy ==
  ASSUME NEW s, IsStream(s), Tidy(s), NEW c
  PROVE  /\ Goes(s, [s EXCEPT !.calls = c])
         /\ Goes(s, [s EXCEPT !.sock = c])
BY DEF IsStream, Fields, Goes, Sends, Reads, Tidy, Typed, WrTidy, RdTidy, CloseAlone, CanSend, Mid, Alive

\* A ping goes to the socket,
LEMMA PgSendTidy ==
  ASSUME NEW s, IsStream(s), Tidy(s), ~(s.failed \/ s.wr_close)
  PROVE  Goes(s, PgSend(s))
<1> DEFINE t == PgSend(s)
<1>1. /\ t.wr = s.wr /\ t.rd = s.rd /\ t.res = s.res
      /\ t.kind = s.kind /\ t.op = s.op /\ t.left = s.left /\ t.fin = s.fin /\ t.ok = s.ok
      /\ t.wr_cont = s.wr_cont /\ t.rd_cont = s.rd_cont
      /\ t.failed = s.failed /\ t.wr_close = s.wr_close
      /\ t.sending["wr"] = s.sending["wr"]
  BY DEF PgSend, IsStream, Fields, Ops
<1> HIDE DEF t
<1>2. Tidy(t)
  BY <1>1 DEF Tidy, Typed, WrTidy, RdTidy, CloseAlone
<1>3. Sends(s, t) /\ Reads(s, t)
  BY <1>1 DEF Sends, Reads, CanSend, Mid, Alive
<1> QED BY <1>2, <1>3 DEF Goes, t

\* begins,
LEMMA PgStartTidy ==
  ASSUME NEW s, IsStream(s), Tidy(s), s.pg = "none"
  PROVE  Goes(s, PgStart(s))
<1>1. /\ Goes(s, [s EXCEPT !.pg = "parked"])
      /\ Goes(s, [s EXCEPT !.pg = "aborted"])
  BY DEF IsStream, Fields, Goes, Sends, Reads, Tidy, Typed, WrTidy, RdTidy, CloseAlone, CanSend, Mid, Alive
<1> QED BY <1>1, PgSendTidy DEF PgStart

\* ends and lets others go on,
LEMMA PgUpcallTidy ==
  ASSUME NEW s, IsStream(s), Tidy(s)
  PROVE  Goes(s, PgUpcall(s))
<1> DEFINE r == [Release(s, "pg") EXCEPT !.pg = "none"]
<1>1. /\ IsStream(r) /\ r.wr = s.wr /\ r.pg = "none" /\ r.rd = s.rd /\ r.res = s.res
      /\ r.kind = s.kind /\ r.op = s.op /\ r.left = s.left /\ r.fin = s.fin /\ r.ok = s.ok
      /\ r.wr_cont = s.wr_cont /\ r.rd_cont = s.rd_cont /\ r.sending = s.sending
      /\ r.failed = s.failed /\ r.wr_close = s.wr_close
  BY DEF IsStream, Release, Fields
<1> HIDE DEF r
<1>2. Tidy(r)
  BY <1>1 DEF Tidy, Typed, WrTidy, RdTidy, CloseAlone
<1>3. Sends(s, r) /\ Reads(s, r)
  BY <1>1 DEF Sends, Reads, CanSend, Mid, Alive
<1>4. Goes(s, r) /\ Goes(r, Invoke(r, "rd", "wr"))
  BY <1>1, <1>2, <1>3, InvokeTidy DEF Goes, Ops
<1> QED BY <1>4, Onward DEF PgUpcall, r

\* or returns from its post.
LEMMA PgPostedTidy ==
  ASSUME NEW s, IsStream(s), Tidy(s)
  PROVE  Goes(s, PgPosted(s))
BY PgSendTidy, PgUpcallTidy DEF PgPosted

\* The handler of a ping's write, successful or not.
LEMMA PgWrittenTidy ==
  ASSUME NEW s, Good(s), Tidy(s)
  PROVE  /\ s.sending["pg"] = "sent" => Goes(s, PgUpcall([s EXCEPT !.sending["pg"] = "idle"]))
         /\ Goes(s, PgUpcall([s EXCEPT !.sending["pg"] = "idle", !.failed = TRUE]))
<1>1. ASSUME NEW i, IsStream(i), Goes(s, i) PROVE Goes(s, PgUpcall(i))
  <2>1. Goes(i, PgUpcall(i))
    BY <1>1, PgUpcallTidy DEF Goes
  <2> QED BY <1>1, <2>1, Onward
<1>2. IsStream([s EXCEPT !.sending["pg"] = "idle"])
  BY DEF Good, IsStream, Fields
<1>3. IsStream([s EXCEPT !.sending["pg"] = "idle", !.failed = TRUE])
  BY DEF Good, IsStream, Fields
<1>4. s.sending["pg"] = "sent" => Goes(s, [s EXCEPT !.sending["pg"] = "idle"])
  BY TakenTidy DEF Ops
<1>5. Goes(s, [s EXCEPT !.sending["pg"] = "idle", !.failed = TRUE])
  BY TakenTidy DEF Ops
<1> QED BY <1>1, <1>2, <1>3, <1>4, <1>5

-----------------------------------------------------------------------------
(* The read.                                                               *)

\* A read begins with a frame's header.
LEMMA ReadHeaderTidy ==
  ASSUME NEW s, IsStream(s), Tidy(s), s.rd = "none", s.res = "none"
  PROVE  Goes(s, ReadHeader(s))
<1> DEFINE t == ReadHeader(s)
<1>1. /\ t.wr = s.wr /\ t.pg = s.pg /\ t.rd \in {"aborted", "fh"} /\ t.res = s.res
      /\ t.kind = s.kind /\ t.op = s.op /\ t.left = s.left /\ t.fin = s.fin /\ t.ok = s.ok
      /\ t.wr_cont = s.wr_cont /\ t.rd_cont = s.rd_cont /\ t.sending = s.sending
      /\ t.failed = s.failed /\ t.wr_close = s.wr_close
      /\ t.rd = "aborted" => s.failed
  BY DEF ReadHeader, IsStream, Fields
<1> HIDE DEF t
<1>2. Tidy(t)
  BY <1>1 DEF Tidy, Typed, WrTidy, RdTidy, CloseAlone
<1>3. Sends(s, t) /\ Reads(s, t)
  BY <1>1 DEF Sends, Reads, CanSend, Mid, Alive
<1> QED BY <1>2, <1>3 DEF Goes, t

\* A read that ends for good has failed, or a close has been sent.
LEMMA RdUpcallTidy ==
  ASSUME NEW s, NEW res, IsStream(s), Tidy(s),
         res # "none" => s.failed \/ s.wr_close,
         res = "none" => Alive(s)
  PROVE  /\ Goes(s, RdUpcall(s, res)) /\ IsStream(RdUpcall(s, res))
         /\ RdUpcall(s, res).rd = "none" /\ RdUpcall(s, res).res = res
<1> DEFINE r == [Release(s, "rd") EXCEPT !.rd = "none", !.res = res]
<1>1. /\ IsStream(r) /\ r.wr = s.wr /\ r.pg = s.pg /\ r.rd = "none" /\ r.res = res
      /\ r.kind = s.kind /\ r.op = s.op /\ r.left = s.left /\ r.fin = s.fin /\ r.ok = s.ok
      /\ r.wr_cont = s.wr_cont /\ r.rd_cont = s.rd_cont /\ r.sending = s.sending
      /\ r.failed = s.failed /\ r.wr_close = s.wr_close
  BY DEF IsStream, Release, Fields
<1> HIDE DEF r
<1>2. Tidy(r)
  BY <1>1 DEF Tidy, Typed, WrTidy, RdTidy, CloseAlone
<1>3. Sends(s, r)
  BY <1>1 DEF Sends, CanSend, Mid
<1>4. Reads(s, r)
  BY <1>1 DEF Reads, Alive
<1>5. Goes(s, r) /\ Goes(r, Invoke(r, "pg", "wr"))
  BY <1>1, <1>2, <1>3, <1>4, InvokeTidy DEF Goes, Ops
<1>6. Resumed(r, Invoke(r, "pg", "wr"))
  BY <1>1, InvokeIs DEF Ops
<1>7. IsStream(Invoke(r, "pg", "wr")) /\ Invoke(r, "pg", "wr").rd = "none" /\ Invoke(r, "pg", "wr").res = res
  BY <1>1, <1>6 DEF Resumed
<1> QED BY <1>5, <1>7, Onward DEF RdUpcall, r

\* A frame of the read's own goes to the socket.
LEMMA RdSendTidy ==
  ASSUME NEW s, IsStream(s), Tidy(s)
  PROVE  /\ ~s.wr_close /\ Alive(s) => Goes(s, RdSend(s, "pong"))
         /\ ~s.wr_close /\ s.wr # "sending" /\ s.pg # "sending" => Goes(s, CloseSend(s))
         /\ Goes(s, FailSend(s)) /\ ~Alive(CloseSend(s)) /\ ~Alive(FailSend(s))
<1>1. ASSUME ~s.wr_close, Alive(s) PROVE Goes(s, RdSend(s, "pong"))
  <2> DEFINE t == RdSend(s, "pong")
  <2>1. /\ t.wr = s.wr /\ t.pg = s.pg /\ t.rd = "pong" /\ t.res = s.res
        /\ t.kind = s.kind /\ t.op = s.op /\ t.left = s.left /\ t.fin = s.fin /\ t.ok = s.ok
        /\ t.wr_cont = s.wr_cont /\ t.rd_cont = s.rd_cont
        /\ t.failed = s.failed /\ t.wr_close = s.wr_close
        /\ t.sending["wr"] = s.sending["wr"]
    BY DEF RdSend, IsStream, Fields, Ops
  <2> HIDE DEF t
  <2>2. Tidy(t)
    BY <1>1, <2>1 DEF Tidy, Typed, WrTidy, RdTidy, CloseAlone
  <2>3. Sends(s, t)
    BY <1>1, <2>1 DEF Sends, CanSend, Mid
  <2>4. Reads(s, t)
    BY <1>1, <2>1 DEF Reads
  <2> QED BY <2>2, <2>3, <2>4 DEF Goes, t
<1>2. ASSUME ~s.wr_close, s.wr # "sending", s.pg # "sending" PROVE Goes(s, CloseSend(s))
  <2> DEFINE t == CloseSend(s)
  <2>1. /\ t.wr = s.wr /\ t.pg = s.pg /\ t.rd = "closing" /\ t.res = s.res
        /\ t.kind = s.kind /\ t.op = s.op /\ t.left = s.left /\ t.fin = s.fin /\ t.ok = s.ok
        /\ t.wr_cont = s.wr_cont /\ t.rd_cont = s.rd_cont
        /\ t.failed = s.failed /\ t.wr_close
        /\ t.sending["wr"] = s.sending["wr"]
    BY DEF CloseSend, RdSend, IsStream, Fields, Ops
  <2> HIDE DEF t
  <2>2. Tidy(t)
    BY <1>2, <2>1 DEF Tidy, Typed, WrTidy, RdTidy, CloseAlone
  <2>3. Sends(s, t)
    BY <1>2, <2>1 DEF Sends, CanSend, Mid
  <2>4. Reads(s, t)
    BY <2>1 DEF Reads, Alive
  <2> QED BY <2>2, <2>3, <2>4 DEF Goes, t
<1>3. Goes(s, FailSend(s))
  <2> DEFINE t == FailSend(s)
  <2>1. /\ t.wr = s.wr /\ t.pg = s.pg /\ t.rd = "failing" /\ t.res = s.res
        /\ t.kind = s.kind /\ t.op = s.op /\ t.left = s.left /\ t.fin = s.fin /\ t.ok = s.ok
        /\ t.wr_cont = s.wr_cont /\ t.rd_cont = s.rd_cont
        /\ t.failed /\ t.wr_close
        /\ t.sending["wr"] = s.sending["wr"]
    BY DEF FailSend, RdSend, IsStream, Fields, Ops
  <2> HIDE DEF t
  <2>2. Tidy(t)
    BY <2>1 DEF Tidy, Typed, WrTidy, RdTidy, CloseAlone
  <2>3. Sends(s, t)
    BY <2>1 DEF Sends, CanSend, Mid
  <2>4. Reads(s, t)
    BY <2>1 DEF Reads, Alive
  <2> QED BY <2>2, <2>3, <2>4 DEF Goes, t
<1>4. ~Alive(CloseSend(s)) /\ ~Alive(FailSend(s))
  BY DEF CloseSend, FailSend, RdSend, Alive, IsStream, Fields
<1> QED BY <1>1, <1>2, <1>3, <1>4

\* A read that parks, or tears the connection down.
LEMMA RdWaitsTidy ==
  ASSUME NEW s, IsStream(s), Tidy(s)
  PROVE  /\ Alive(s) => Goes(s, [s EXCEPT !.rd = "pong_parked"])
         /\ \A state \in {"close_parked", "fail_parked"} :
              Goes(s, [s EXCEPT !.rd = state]) /\ ~Alive([s EXCEPT !.rd = state])
         /\ s.wr_close => /\ Goes(s, Teardown(s, "teardown")) /\ ~Alive(Teardown(s, "teardown"))
         /\ s.wr_close \/ s.failed =>
              Goes(s, Teardown(s, "fail_teardown")) /\ ~Alive(Teardown(s, "fail_teardown"))
<1>1. ASSUME NEW t, NEW state, t \in {[s EXCEPT !.rd = state], Teardown(s, state)},
             state = "pong_parked" => Alive(s),
             state = "teardown" => s.wr_close,
             state = "fail_teardown" => s.wr_close \/ s.failed,
             state \in {"pong_parked", "close_parked", "fail_parked", "teardown", "fail_teardown"}
      PROVE  Goes(s, t) /\ (state # "pong_parked" => ~Alive(t))
  <2>1. /\ t.wr = s.wr /\ t.pg = s.pg /\ t.rd = state /\ t.res = s.res
        /\ t.kind = s.kind /\ t.op = s.op /\ t.left = s.left /\ t.fin = s.fin /\ t.ok = s.ok
        /\ t.wr_cont = s.wr_cont /\ t.rd_cont = s.rd_cont /\ t.sending = s.sending
        /\ t.failed = s.failed /\ t.wr_close = s.wr_close
    BY <1>1 DEF Teardown, IsStream, Fields
  <2>2. Tidy(t)
    BY <1>1, <2>1 DEF Tidy, Typed, WrTidy, RdTidy, CloseAlone
  <2>3. Sends(s, t)
    BY <2>1 DEF Sends, CanSend, Mid
  <2>4. Reads(s, t) /\ (state # "pong_parked" => ~Alive(t))
    BY <1>1, <2>1 DEF Reads, Alive
  <2> QED BY <2>2, <2>3, <2>4 DEF Goes
<1>2. Alive(s) => Goes(s, [s EXCEPT !.rd = "pong_parked"])
  BY <1>1
<1>3. \A state \in {"close_parked", "fail_parked"} :
        Goes(s, [s EXCEPT !.rd = state]) /\ ~Alive([s EXCEPT !.rd = state])
  BY <1>1
<1>4. s.wr_close => /\ Goes(s, Teardown(s, "teardown")) /\ ~Alive(Teardown(s, "teardown"))
  BY <1>1
<1>5. s.wr_close \/ s.failed =>
        Goes(s, Teardown(s, "fail_teardown")) /\ ~Alive(Teardown(s, "fail_teardown"))
  BY <1>1
<1> QED BY <1>2, <1>3, <1>4, <1>5

\* A read that fails reads no more.
LEMMA FailTidy ==
  ASSUME NEW s, IsStream(s), Tidy(s)
  PROVE  Goes(s, Fail(s)) /\ ~Alive(Fail(s))
BY RdSendTidy, RdWaitsTidy DEF Fail

\* Who has read as much as x and reads f next has read as much as After(x, f).
After(x, f) ==
  CASE f.op = "garbage" \/ x = "lost" -> "lost"
    [] f.op \in {"text", "cont"} /\ x # "lost" -> IF f.fin THEN "start" ELSE "mid"
    [] OTHER -> x

Legal(x, f) == /\ f.op = "text" => x # "mid"
               /\ f.op = "cont" => x # "start"

ReadSoFar(s) == IF s.rd_cont THEN "mid" ELSE "start"

\* What reading f makes of s, if it goes on reading at all.
Took(s, f, t) ==
  /\ Tidy(t) /\ Sends(s, t)
  /\ Alive(t) => /\ Alive(s) /\ ~HeaderError(s, f)
                 /\ ReadSoFar(t) = After(ReadSoFar(s), f)

\* A handler that ends the reading, or one that follows the reading of a frame.
LEMMA TookOnward ==
  ASSUME NEW s, NEW f, NEW t
  PROVE  /\ Goes(s, t) /\ ~Alive(t) => Took(s, f, t)
         /\ \A u : Took(s, f, t) /\ Goes(t, u) => Took(s, f, u)
<1>1. Goes(s, t) /\ ~Alive(t) => Took(s, f, t)
  BY DEF Goes, Took
<1>2. ASSUME NEW u, Took(s, f, t), Goes(t, u) PROVE Took(s, f, u)
  <2>1. Sends(s, u) /\ Tidy(u)
    BY <1>2 DEF Goes, Took, Sends
  <2>2. Alive(u) => Alive(t) /\ u.rd_cont = t.rd_cont
    BY <1>2 DEF Goes, Reads
  <2> QED BY <1>2, <2>1, <2>2 DEF Took, ReadSoFar
<1> QED BY <1>1, <1>2

\* A control frame changes nothing of what has been read.
LEMMA ControlTook ==
  ASSUME NEW s, NEW f, NEW t, f.op \in {"ping", "pong"}, Alive(s), Goes(s, t)
  PROVE  Took(s, f, t)
BY DEF Goes, Reads, Took, HeaderError, ReadSoFar, After

\* The payload of a frame, and what comes after it.
LEMMA DataTook ==
  ASSUME NEW s, NEW f \in Frame, IsStream(s), Tidy(s), s.rd = "fh",
         f.op \in {"text", "cont"}, ~HeaderError(s, f)
  PROVE  Took(s, f, ReceiveData(s, f))
<1> DEFINE r == [s EXCEPT !.rd_cont = ~f.fin]
<1>1. /\ IsStream(r) /\ r.wr = s.wr /\ r.pg = s.pg /\ r.rd = s.rd /\ r.res = s.res
      /\ r.kind = s.kind /\ r.op = s.op /\ r.left = s.left /\ r.fin = s.fin /\ r.ok = s.ok
      /\ r.wr_cont = s.wr_cont /\ (r.rd_cont <=> ~f.fin) /\ r.sending = s.sending
      /\ r.failed = s.failed /\ r.wr_close = s.wr_close
  BY DEF IsStream, Fields
<1>2. ReceiveData(s, f) = IF ~f.ok THEN Fail(r)
                          ELSE IF f.fin THEN RdUpcall(r, "none")
                          ELSE ReadHeader(RdUpcall(r, "none"))
  BY DEF ReceiveData
<1> HIDE DEF r
<1>3. Took(s, f, r)
  <2>1. Tidy(r)
    BY <1>1 DEF Tidy, Typed, WrTidy, RdTidy, CloseAlone
  <2>2. Sends(s, r)
    BY <1>1 DEF Sends, CanSend, Mid
  <2>3. ReadSoFar(r) = After(ReadSoFar(s), f)
    BY <1>1 DEF ReadSoFar, After
  <2> QED BY <2>1, <2>2, <2>3 DEF Took, Alive
<1>4. Tidy(r) /\ Alive(r)
  BY <1>1, <1>3 DEF Took, Alive
<1> DEFINE u == RdUpcall(r, "none")
<1>5. Goes(r, u) /\ IsStream(u) /\ u.rd = "none" /\ u.res = "none"
  BY <1>1, <1>4, RdUpcallTidy
<1>6. Took(s, f, Fail(r))
  <2>1. Goes(r, Fail(r))
    BY <1>1, <1>4, FailTidy
  <2> QED BY <1>3, <2>1, TookOnward
<1>7. Took(s, f, u)
  BY <1>3, <1>5, TookOnward
<1>8. Took(s, f, ReadHeader(u))
  <2>1. Goes(u, ReadHeader(u))
    BY <1>5, ReadHeaderTidy DEF Goes
  <2> QED BY <1>7, <2>1, TookOnward
<1> QED BY <1>2, <1>6, <1>7, <1>8

\* Whatever arrives.
LEMMA ReceiveTook ==
  ASSUME NEW s, NEW f \in Frame, Good(s), Tidy(s), s.rd = "fh"
  PROVE  Took(s, f, Receive(s, f))
<1>1. IsStream(s) /\ Alive(s)
  BY DEF Good, Alive
<1>2. CASE HeaderError(s, f)
  <2>1. Took(s, f, Fail(s))
    BY <1>1, FailTidy, TookOnward
  <2>2. f.op \notin {"ping", "pong", "close"}
    BY <1>2 DEF HeaderError
  <2>3. Receive(s, f) = Fail(s)
    BY <1>2, <2>2 DEF Receive
  <2> QED BY <2>1, <2>3
<1>3. CASE ~HeaderError(s, f) /\ f.op = "ping"
  <2>1. Goes(s, ReceivePing(s))
    <3>1. Goes(s, s)
      BY DEF Goes, Sends, Reads
    <3>2. Goes(s, [s EXCEPT !.rd = "pong_parked"])
      BY <1>1, RdWaitsTidy
    <3>3. ~s.wr_close => Goes(s, RdSend(s, "pong"))
      BY <1>1, RdSendTidy
    <3> QED BY <3>1, <3>2, <3>3 DEF ReceivePing
  <2>2. Took(s, f, ReceivePing(s))
    BY <1>1, <1>3, <2>1, ControlTook
  <2> QED BY <1>3, <2>2 DEF Receive
<1>4. CASE ~HeaderError(s, f) /\ f.op = "pong"
  <2>1. Took(s, f, s)
    BY <1>1, <1>4, ControlTook DEF Goes, Sends, Reads
  <2> QED BY <1>4, <2>1 DEF Receive
<1>5. CASE ~HeaderError(s, f) /\ f.op = "close"
  <2>1. s.wr_close => Took(s, f, Teardown(s, "teardown"))
    BY <1>1, RdWaitsTidy, TookOnward
  <2>2. Took(s, f, [s EXCEPT !.rd = "close_parked"])
    BY <1>1, RdWaitsTidy, TookOnward
  <2>3. ASSUME ~s.wr_close, s.block = "none" PROVE Took(s, f, CloseSend(s))
    <3>1. s.wr # "sending" /\ s.pg # "sending"
      BY <2>3 DEF Good, Holders, Over
    <3> QED BY <1>1, <2>3, <3>1, RdSendTidy, TookOnward
  <2>4. Took(s, f, ReceiveClose(s))
    BY <2>1, <2>2, <2>3 DEF ReceiveClose
  <2> QED BY <1>5, <2>4 DEF Receive
<1>6. CASE ~HeaderError(s, f) /\ f.op \in {"text", "cont"}
  <2>1. Took(s, f, ReceiveData(s, f))
    BY <1>1, <1>6, DataTook
  <2> QED BY <1>6, <2>1 DEF Receive
<1>7. f.op \in {"text", "cont", "ping", "pong", "close", "garbage"}
  BY DEF Frame
<1>8. f.op = "garbage" => HeaderError(s, f)
  BY DEF HeaderError
<1> QED BY <1>2, <1>3, <1>4, <1>5, <1>6, <1>7, <1>8

\* The handler of the read's own write, successful or not.
LEMMA RdWrittenTidy ==
  ASSUME NEW s, Good(s), Tidy(s), s.rd \in {"pong", "closing", "failing"}
  PROVE  /\ s.sending["rd"] = "sent" => Goes(s, RdSent([s EXCEPT !.sending["rd"] = "idle"]))
         /\ Goes(s, RdUpcall([s EXCEPT !.sending["rd"] = "idle", !.failed = TRUE], "error"))
<1>1. ASSUME s.sending["rd"] = "sent" PROVE Goes(s, RdSent([s EXCEPT !.sending["rd"] = "idle"]))
  <2> DEFINE i == [s EXCEPT !.sending["rd"] = "idle"]
  <2>1. Goes(s, i)
    BY <1>1, TakenTidy DEF Ops
  <2>2. IsStream(i) /\ i.rd = s.rd
    BY DEF Good, IsStream, Fields
  <2> HIDE DEF i
  <2>3. Tidy(i)
    BY <2>1 DEF Goes
  <2>4. ASSUME i.rd = "pong" PROVE Goes(i, RdSent(i))
    <3> DEFINE t == [i EXCEPT !.rd = "fh", !.block = "none"]
    <3>1. /\ t.wr = i.wr /\ t.pg = i.pg /\ t.rd = "fh" /\ t.res = i.res
          /\ t.kind = i.kind /\ t.op = i.op /\ t.left = i.left /\ t.fin = i.fin /\ t.ok = i.ok
          /\ t.wr_cont = i.wr_cont /\ t.rd_cont = i.rd_cont /\ t.sending = i.sending
          /\ t.failed = i.failed /\ t.wr_close = i.wr_close
      BY <2>2 DEF IsStream, Fields
    <3>2. RdSent(i) = t
      BY <2>4 DEF RdSent
    <3> HIDE DEF t
    <3>3. Tidy(t)
      BY <2>3, <2>4, <3>1 DEF Tidy, Typed, WrTidy, RdTidy, CloseAlone
    <3>4. Sends(i, t) /\ Reads(i, t)
      BY <2>4, <3>1 DEF Sends, Reads, CanSend, Mid, Alive
    <3>5. Goes(i, t)
      BY <3>3, <3>4 DEF Goes
    <3> QED BY <3>2, <3>5 DEF t
  <2>5. ASSUME i.rd = "closing" PROVE Goes(i, RdSent(i))
    <3>1. i.wr_close
      BY <2>3, <2>5 DEF Tidy, RdTidy
    <3>2. Goes(i, Teardown(i, "teardown"))
      BY <2>2, <2>3, <3>1, RdWaitsTidy
    <3> QED BY <2>5, <3>2 DEF RdSent
  <2>6. ASSUME i.rd = "failing" PROVE Goes(i, RdSent(i))
    <3>1. i.failed
      BY <2>3, <2>6 DEF Tidy, RdTidy
    <3>2. Goes(i, Teardown(i, "fail_teardown"))
      BY <2>2, <2>3, <3>1, RdWaitsTidy
    <3> QED BY <2>6, <3>2 DEF RdSent
  <2>7. Goes(i, RdSent(i))
    BY <2>2, <2>4, <2>5, <2>6
  <2>8. Goes(s, RdSent(i))
    BY <2>1, <2>7, Onward
  <2> QED BY <2>8 DEF i
<1>2. Goes(s, RdUpcall([s EXCEPT !.sending["rd"] = "idle", !.failed = TRUE], "error"))
  <2> DEFINE i == [s EXCEPT !.sending["rd"] = "idle", !.failed = TRUE]
  <2>1. Goes(s, i)
    BY TakenTidy DEF Ops
  <2>2. IsStream(i) /\ i.failed
    BY DEF Good, IsStream, Fields
  <2> HIDE DEF i
  <2>3. Goes(i, RdUpcall(i, "error"))
    BY <2>1, <2>2, RdUpcallTidy DEF Goes
  <2>4. Goes(s, RdUpcall(i, "error"))
    BY <2>1, <2>3, Onward
  <2> QED BY <2>4 DEF i
<1> QED BY <1>1, <1>2

\* A read that was parked, or aborted, goes on.
LEMMA RdPostedTidy ==
  ASSUME NEW s, Good(s), Tidy(s), s.rd \in {"aborted", "pong_resumed", "close_resumed", "fail_resumed"}
  PROVE  Goes(s, RdPosted(s))
<1>1. IsStream(s)
  BY DEF Good
<1>2. ASSUME NEW res, res # "none", s.failed \/ s.wr_close PROVE Goes(s, RdUpcall(s, res))
  BY <1>1, <1>2, RdUpcallTidy
<1>3. CASE s.rd = "aborted"
  <2>1. s.failed
    BY <1>3 DEF Tidy, RdTidy
  <2> QED BY <1>2, <1>3, <2>1 DEF RdPosted
<1>4. CASE s.rd = "pong_resumed"
  <2> DEFINE t == [Release(s, "rd") EXCEPT !.rd = "fh"]
  <2>1. /\ t.wr = s.wr /\ t.pg = s.pg /\ t.rd = "fh" /\ t.res = s.res
        /\ t.kind = s.kind /\ t.op = s.op /\ t.left = s.left /\ t.fin = s.fin /\ t.ok = s.ok
        /\ t.wr_cont = s.wr_cont /\ t.rd_cont = s.rd_cont /\ t.sending = s.sending
        /\ t.failed = s.failed /\ t.wr_close = s.wr_close
    BY <1>1 DEF Release, IsStream, Fields
  <2>2. RdPosted(s) = IF s.failed THEN RdUpcall(s, "error")
                      ELSE IF s.wr_close THEN t ELSE RdSend(s, "pong")
    BY <1>4 DEF RdPosted, PongResumed
  <2> HIDE DEF t
  <2>3. Tidy(t)
    BY <2>1 DEF Tidy, Typed, WrTidy, RdTidy, CloseAlone
  <2>4. Sends(s, t) /\ Reads(s, t) /\ Alive(s)
    BY <1>4, <2>1 DEF Sends, Reads, CanSend, Mid, Alive
  <2>5. ~s.wr_close => Goes(s, RdSend(s, "pong"))
    BY <1>1, <2>4, RdSendTidy
  <2>6. s.failed => Goes(s, RdUpcall(s, "error"))
    BY <1>2
  <2>7. Goes(s, t)
    BY <2>3, <2>4 DEF Goes
  <2> QED BY <2>2, <2>5, <2>6, <2>7
<1>5. CASE s.rd = "close_resumed"
  <2>1. ~s.failed => s.wr # "sending" /\ s.pg # "sending"
    BY <1>5 DEF Good, Holders, Over
  <2>2. ~s.failed /\ ~s.wr_close => Goes(s, CloseSend(s))
    BY <1>1, <2>1, RdSendTidy
  <2>3. s.failed \/ s.wr_close => Goes(s, RdUpcall(s, "error")) /\ Goes(s, RdUpcall(s, "closed"))
    BY <1>2
  <2> QED BY <1>5, <2>2, <2>3 DEF RdPosted, CloseResumed
<1>6. CASE s.rd = "fail_resumed"
  <2>1. Goes(s, FailSend(s))
    BY <1>1, RdSendTidy
  <2>2. s.failed => Goes(s, RdUpcall(s, "failed"))
    BY <1>2
  <2> QED BY <1>6, <2>1, <2>2 DEF RdPosted, FailResumed
<1> QED BY <1>3, <1>4, <1>5, <1>6

-----------------------------------------------------------------------------
(* The frames on the wire.                                                 *)

\* Beside the frames stands who has read 0, 1, ... all of them.
Track(W, c) ==
  /\ c \in [0..Len(W) -> {"start", "mid", "lost"}]
  /\ \A i \in 1..Len(W) : Legal(c[i-1], W[i]) /\ c[i] = After(c[i-1], W[i])

Reached(s) == IF Mid(s) THEN "mid" ELSE "start"

\* The frames take a reader r to where the sender s goes on.
InStep(W, s, r) ==
  \E c : /\ Track(W, c)
         /\ Alive(r) => c[0] = ReadSoFar(r)
         /\ CanSend(s) => c[Len(W)] \in {"lost", Reached(s)}

CloseIn(W) == \E i \in 1..Len(W) : W[i].op = "close"

\* A close on the wire is one the stream knows of, and nothing is on its way.
Quiet(W, s) ==
  CloseIn(W) /\ ~s.failed => s.wr_close /\ \A o \in Ops : s.sending[o] # "busy"

LastWord(W, s, plain) ==
  \A i, j \in 1..Len(W) :
    i < j /\ W[i].op = "close" => s.failed \/ (plain /\ W[j].op = "pong")

\* What one peer has sent, while the other is r.
Out(W, p, s, r) ==
  /\ W \in Seq(Frame)
  /\ Quiet(W, s)
  /\ LastWord(W, s, Sync(p))
  /\ ~ForgetsContinuation(p) => InStep(W, s, r)

\* A frame is sent behind the others,
LEMMA AppendIs ==
  ASSUME NEW W \in Seq(Frame), NEW f \in Frame
  PROVE  /\ Append(W, f) \in Seq(Frame)
         /\ Len(W) \in Nat
         /\ Len(Append(W, f)) = Len(W) + 1
         /\ \A i \in 1..Len(W) : Append(W, f)[i] = W[i]
         /\ Append(W, f)[Len(W) + 1] = f
OBVIOUS

\* and the first one is read.
LEMMA TailIs ==
  ASSUME NEW W \in Seq(Frame), W # <<>>
  PROVE  /\ Tail(W) \in Seq(Frame) /\ Head(W) \in Frame /\ Head(W) = W[1]
         /\ Len(W) \in Nat /\ Len(W) > 0
         /\ Len(Tail(W)) = Len(W) - 1
         /\ \A i \in 1..(Len(W) - 1) : Tail(W)[i] = W[i + 1]
OBVIOUS

\* One frame more.
LEMMA TrackAppend ==
  ASSUME NEW W \in Seq(Frame), NEW f \in Frame, NEW c, Track(W, c), Legal(c[Len(W)], f)
  PROVE  \E d : /\ Track(Append(W, f), d) /\ d[0] = c[0]
                /\ d[Len(W) + 1] = After(c[Len(W)], f)
<1> DEFINE n == Len(W)
           V == Append(W, f)
           d == [i \in 0..(n + 1) |-> IF i <= n THEN c[i] ELSE After(c[n], f)]
<1>1. /\ n \in Nat /\ Len(V) = n + 1 /\ \A i \in 1..n : V[i] = W[i]
      /\ V[n + 1] = f
  BY AppendIs
<1>2. /\ c \in [0..n -> {"start", "mid", "lost"}]
      /\ \A i \in 1..n : Legal(c[i-1], W[i]) /\ c[i] = After(c[i-1], W[i])
      /\ Legal(c[n], f)
  BY DEF Track
<1> HIDE DEF n, V
<1>3. After(c[n], f) \in {"start", "mid", "lost"}
  BY <1>1, <1>2 DEF After
<1>4. d \in [0..(n + 1) -> {"start", "mid", "lost"}]
  BY <1>1, <1>2, <1>3
<1>5. /\ \A i \in 0..n : d[i] = c[i]
      /\ d[n + 1] = After(c[n], f)
  BY <1>1
<1> HIDE DEF d
<1>6. ASSUME NEW i \in 1..(n + 1) PROVE Legal(d[i-1], V[i]) /\ d[i] = After(d[i-1], V[i])
  <2>1. CASE i = n + 1
    <3>1. d[i-1] = c[n] /\ V[i] = f /\ d[i] = After(c[n], f)
      BY <1>1, <1>5, <2>1
    <3> QED BY <1>2, <3>1
  <2>2. CASE i \in 1..n
    <3>1. d[i-1] = c[i-1] /\ V[i] = W[i] /\ d[i] = c[i]
      BY <1>1, <1>5, <2>2
    <3> QED BY <1>2, <2>2, <3>1
  <2> QED BY <1>1, <2>1, <2>2
<1>7. Track(V, d)
  BY <1>1, <1>4, <1>6 DEF Track
<1>8. d[0] = c[0]
  BY <1>1, <1>5
<1> QED BY <1>5, <1>7, <1>8 DEF n, V

\* The first frame is read.
LEMMA TrackTail ==
  ASSUME NEW W \in Seq(Frame), W # <<>>, NEW c, Track(W, c)
  PROVE  /\ Legal(c[0], Head(W))
         /\ \E d : /\ Track(Tail(W), d) /\ d[0] = After(c[0], Head(W))
                   /\ d[Len(Tail(W))] = c[Len(W)]
<1> DEFINE n == Len(W)
           V == Tail(W)
           d == [i \in 0..(n - 1) |-> c[i + 1]]
<1>1. /\ n \in Nat /\ n > 0 /\ Len(V) = n - 1 /\ \A i \in 1..(n - 1) : V[i] = W[i + 1]
      /\ Head(W) = W[1]
  BY TailIs
<1>2. /\ c \in [0..n -> {"start", "mid", "lost"}]
      /\ \A i \in 1..n : Legal(c[i-1], W[i]) /\ c[i] = After(c[i-1], W[i])
  BY DEF Track
<1> HIDE DEF n, V
<1>3. Legal(c[0], Head(W)) /\ c[1] = After(c[0], Head(W))
  <2>1. 1 \in 1..n
    BY <1>1
  <2>2. Legal(c[1-1], W[1]) /\ c[1] = After(c[1-1], W[1])
    BY <1>2, <2>1
  <2> QED BY <1>1, <2>2
<1>4. d \in [0..(n - 1) -> {"start", "mid", "lost"}]
  BY <1>1, <1>2
<1>5. \A i \in 0..(n - 1) : d[i] = c[i + 1]
  OBVIOUS
<1> HIDE DEF d
<1>6. ASSUME NEW i \in 1..(n - 1) PROVE Legal(d[i-1], V[i]) /\ d[i] = After(d[i-1], V[i])
  <2>1. d[i-1] = c[i] /\ V[i] = W[i + 1] /\ d[i] = c[i + 1]
    BY <1>1, <1>5
  <2>2. i + 1 \in 1..n
    BY <1>1
  <2>3. Legal(c[(i+1)-1], W[i + 1]) /\ c[i + 1] = After(c[(i+1)-1], W[i + 1])
    BY <1>2, <2>2
  <2>4. (i + 1) - 1 = i
    OBVIOUS
  <2> QED BY <2>1, <2>3, <2>4
<1>7. Track(V, d)
  BY <1>1, <1>4, <1>6 DEF Track
<1>8. d[0] = c[1] /\ d[Len(V)] = c[n]
  BY <1>1, <1>5
<1> QED BY <1>3, <1>7, <1>8 DEF n, V

\* A handler that puts nothing on the wire.
LEMMA OutSends ==
  ASSUME NEW W, NEW p, NEW s, NEW t, NEW r, Out(W, p, s, r), Sends(s, t)
  PROVE  Out(W, p, t, r)
<1>1. Quiet(W, t)
  BY DEF Out, Quiet, Sends
<1>2. LastWord(W, t, Sync(p))
  BY DEF Out, LastWord, Sends
<1>3. InStep(W, s, r) => InStep(W, t, r)
  BY DEF InStep, Sends, Reached
<1> QED BY <1>1, <1>2, <1>3 DEF Out

\* A handler of the other side that reads nothing.
LEMMA OutReads ==
  ASSUME NEW W, NEW p, NEW s, NEW r, NEW t, Out(W, p, s, r), Reads(r, t)
  PROVE  Out(W, p, s, t)
BY DEF Out, InStep, Reads, ReadSoFar

\* The other side reads the first frame, or throws it away.
LEMMA OutTail ==
  ASSUME NEW W, NEW p, NEW s, NEW r, NEW t, Out(W, p, s, r), W # <<>>,
         ~Alive(t) \/ (Alive(r) /\ ReadSoFar(t) = After(ReadSoFar(r), Head(W)))
  PROVE  Out(Tail(W), p, s, t)
<1>1. W \in Seq(Frame)
  BY DEF Out
<1>2. /\ Tail(W) \in Seq(Frame) /\ Len(W) \in Nat /\ Len(W) > 0
      /\ Len(Tail(W)) = Len(W) - 1
      /\ \A i \in 1..(Len(W) - 1) : Tail(W)[i] = W[i + 1]
  BY <1>1, TailIs
<1>3. ASSUME CloseIn(Tail(W)) PROVE CloseIn(W)
  <2>1. PICK i \in 1..(Len(W) - 1) : Tail(W)[i].op = "close"
    BY <1>2, <1>3 DEF CloseIn
  <2>2. i + 1 \in 1..Len(W) /\ W[i + 1].op = "close"
    BY <1>2, <2>1
  <2> QED BY <2>2 DEF CloseIn
<1>4. Quiet(Tail(W), s)
  BY <1>3 DEF Quiet, Out
<1>5. LastWord(Tail(W), s, Sync(p))
  <2> SUFFICES ASSUME NEW i \in 1..Len(Tail(W)), NEW j \in 1..Len(Tail(W)),
                      i < j, Tail(W)[i].op = "close"
               PROVE  s.failed \/ (Sync(p) /\ Tail(W)[j].op = "pong")
    BY DEF LastWord
  <2>1. /\ i + 1 \in 1..Len(W) /\ j + 1 \in 1..Len(W) /\ i + 1 < j + 1
        /\ W[i + 1] = Tail(W)[i] /\ W[j + 1] = Tail(W)[j]
    BY <1>2
  <2> QED BY <2>1 DEF Out, LastWord
<1>6. ASSUME InStep(W, s, r) PROVE InStep(Tail(W), s, t)
  <2>1. PICK c : /\ Track(W, c)
                 /\ Alive(r) => c[0] = ReadSoFar(r)
                 /\ CanSend(s) => c[Len(W)] \in {"lost", Reached(s)}
    BY <1>6 DEF InStep
  <2>2. PICK d : /\ Track(Tail(W), d) /\ d[0] = After(c[0], Head(W))
                 /\ d[Len(Tail(W))] = c[Len(W)]
    BY <1>1, <2>1, TrackTail
  <2>3. Alive(t) => d[0] = ReadSoFar(t)
    BY <2>1, <2>2
  <2>4. CanSend(s) => d[Len(Tail(W))] \in {"lost", Reached(s)}
    BY <2>1, <2>2
  <2> QED BY <2>2, <2>3, <2>4 DEF InStep
<1> QED BY <1>2, <1>4, <1>5, <1>6 DEF Out

\* One frame more: where it may stand, and what it takes with it.
LEMMA OutAppend ==
  ASSUME NEW W, NEW p, NEW s, NEW t, NEW r, NEW f \in Frame, Out(W, p, s, r),
         s.failed => t.failed,
         t.failed \/ ~CloseIn(W) \/ (Sync(p) /\ f.op = "pong"),
         (CloseIn(W) \/ f.op = "close") /\ ~t.failed =>
           t.wr_close /\ \A o \in Ops : t.sending[o] # "busy",
         ~ForgetsContinuation(p) =>
           /\ f.op \in {"text", "cont"} => CanSend(s) /\ (f.op = "cont" <=> Mid(s))
           /\ CanSend(t) => CanSend(s) /\ (f.op = "garbage" \/ Reached(t) = After(Reached(s), f))
  PROVE  Out(Append(W, f), p, t, r)
<1> DEFINE n == Len(W)
           V == Append(W, f)
<1>1. W \in Seq(Frame)
  BY DEF Out
<1>2. /\ V \in Seq(Frame) /\ n \in Nat /\ Len(V) = n + 1 /\ V[n + 1] = f
      /\ \A i \in 1..n : V[i] = W[i]
  BY <1>1, AppendIs
<1> HIDE DEF V
<1>3. ASSUME NEW i \in 1..Len(V), V[i].op = "close" PROVE (i \in 1..n /\ CloseIn(W)) \/ (i = n + 1 /\ f.op = "close")
  <2>1. i \in 1..n \/ i = n + 1
    BY <1>2
  <2> QED BY <1>2, <1>3, <2>1 DEF CloseIn
<1>4. Quiet(V, t)
  BY <1>3 DEF Quiet, CloseIn
<1>5. LastWord(V, t, Sync(p))
  <2> SUFFICES ASSUME NEW i \in 1..Len(V), NEW j \in 1..Len(V), i < j, V[i].op = "close", ~t.failed
               PROVE  Sync(p) /\ V[j].op = "pong"
    BY DEF LastWord
  <2>1. i \in 1..n /\ CloseIn(W)
    BY <1>2, <1>3
  <2>2. CASE j = n + 1
    BY <1>2, <2>1, <2>2
  <2>3. CASE j \in 1..n
    <3>1. V[i] = W[i] /\ V[j] = W[j] /\ ~s.failed
      BY <1>2, <2>1, <2>3
    <3> QED BY <2>1, <2>3, <3>1 DEF Out, LastWord
  <2> QED BY <1>2, <2>2, <2>3
<1>6. ASSUME InStep(W, s, r), ~ForgetsContinuation(p) PROVE InStep(V, t, r)
  <2>1. PICK c : /\ Track(W, c)
                 /\ Alive(r) => c[0] = ReadSoFar(r)
                 /\ CanSend(s) => c[n] \in {"lost", Reached(s)}
    BY <1>6 DEF InStep
  <2>2. Legal(c[n], f)
    BY <1>6, <2>1 DEF Legal, Reached
  <2>3. PICK d : /\ Track(V, d) /\ d[0] = c[0] /\ d[n + 1] = After(c[n], f)
    BY <1>1, <2>1, <2>2, TrackAppend DEF V
  <2>4. ASSUME CanSend(t) PROVE d[n + 1] \in {"lost", Reached(t)}
    <3>1. CASE c[n] = "lost" \/ f.op = "garbage"
      <4>1. After(c[n], f) = "lost"
        BY <3>1 DEF After
      <4> QED BY <2>3, <4>1
    <3>2. CASE c[n] # "lost" /\ f.op # "garbage"
      BY <1>6, <2>1, <2>3, <2>4, <3>2
    <3> QED BY <3>1, <3>2
  <2>5. Alive(r) => d[0] = ReadSoFar(r)
    BY <2>1, <2>3
  <2> QED BY <1>2, <2>3, <2>4, <2>5 DEF InStep
<1> QED BY <1>2, <1>4, <1>5, <1>6 DEF Out, V

-----------------------------------------------------------------------------
(* The steps of one peer.                                                  *)

\* A synchronous caller that has ended the connection makes no other call.
SyncTidy(p, s) ==
  /\ s.calls \in Nat
  /\ s.rd \in {"none", "fh"} /\ (s.wr_close \/ s.failed) => s.res # "none" \/ s.calls > MaxOps[p]

WireInv ==
  /\ DOMAIN wire = Peers
  /\ \A p \in Peers : /\ Tidy(ws[p])
                      /\ Sync(p) => SyncTidy(p, ws[p])
                      /\ Out(wire[p], p, ws[p], ws[Other(p)])

\* There are two peers.
LEMMA OtherIs ==
  ASSUME NEW p \in Peers
  PROVE  /\ Other(p) \in Peers /\ Other(p) # p /\ Other(Other(p)) = p
         /\ \A q \in Peers : q = p \/ q = Other(p)
<1>1. \E q \in Peers : q # p
  BY WsAssumption
<1>2. Other(p) \in Peers /\ Other(p) # p
  BY <1>1 DEF Other
<1>3. \A q \in Peers : q = p \/ q = Other(p)
  BY <1>2, WsAssumption
<1>4. Other(Other(p)) \in Peers /\ Other(Other(p)) # Other(p)
  BY <1>2 DEF Other
<1>5. Other(Other(p)) = p
  BY <1>3, <1>4
<1> QED BY <1>2, <1>3, <1>5

\* A step of one peer, whatever it does to the wires.
LEMMA OneStep ==
  ASSUME WireInv, NEW p \in Peers, NEW t,
         ws'[p] = t, ws'[Other(p)] = ws[Other(p)], UNCHANGED blocking, DOMAIN wire' = Peers,
         Tidy(t), Sync(p) => SyncTidy(p, t),
         Out(wire'[p], p, t, ws[Other(p)]),
         Out(wire'[Other(p)], Other(p), ws[Other(p)], t)
  PROVE  WireInv'
<1> DEFINE q == Other(p)
<1>1. q \in Peers /\ q # p /\ Other(q) = p /\ \A x \in Peers : x = p \/ x = q
  BY OtherIs
<1>2. Tidy(ws[q]) /\ (Sync(q) => SyncTidy(q, ws[q]))
  BY <1>1 DEF WireInv
<1>3. /\ Tidy(ws'[p]) /\ (Sync(p)' => SyncTidy(p, ws'[p]))
      /\ Out(wire[p], p, ws[p], ws[q])'
  BY DEF Sync, Out, ForgetsContinuation
<1>4. Out(wire[q], q, ws[q], ws[p])'
  BY DEF Sync, Out, ForgetsContinuation
<1>5. Tidy(ws'[q]) /\ (Sync(q)' => SyncTidy(q, ws'[q]))
  BY <1>2 DEF Sync
<1> HIDE DEF q
<1>6. ASSUME NEW x \in Peers
      PROVE  /\ Tidy(ws[x])' /\ (Sync(x) => SyncTidy(x, ws[x]))'
             /\ Out(wire[x], x, ws[x], ws[Other(x)])'
  <2>1. CASE x = p
    BY <1>3, <2>1 DEF q
  <2>2. CASE x = q
    BY <1>1, <1>4, <1>5, <2>2
  <2> QED BY <1>1, <2>1, <2>2
<1> QED BY <1>6 DEF WireInv

\* A step that only moves one stream.
LEMMA GoesStep ==
  ASSUME WsInv, WireInv, NEW p \in Peers, NEW t, Step(p, t), Goes(ws[p], t),
         Sync(p) => SyncTidy(p, t), UNCHANGED <<wire, blocking>>
  PROVE  WireInv'
<1>1. Other(p) \in Peers /\ Other(p) # p /\ Other(Other(p)) = p
  BY OtherIs
<1>2. ws'[p] = t /\ ws'[Other(p)] = ws[Other(p)]
  BY <1>1 DEF Step, WsInv
<1>3. /\ DOMAIN wire' = Peers
      /\ Out(wire[p], p, ws[p], ws[Other(p)])
      /\ Out(wire[Other(p)], Other(p), ws[Other(p)], ws[p])
  BY <1>1 DEF WireInv
<1>4. Out(wire[p], p, t, ws[Other(p)]) /\ Out(wire[Other(p)], Other(p), ws[Other(p)], t) /\ Tidy(t)
  BY <1>3, OutSends, OutReads DEF Goes
<1> QED BY <1>2, <1>3, <1>4, OneStep

\* The calls of an asynchronous caller.
LEMMA CallWire ==
  ASSUME WsInv, WireInv, NEW p \in Peers,
         \/ \E n \in 1..2, fin \in BOOLEAN, ok \in BOOLEAN : StartWrite(p, n, fin, ok)
         \/ StartPing(p) \/ StartClose(p) \/ StartRead(p)
  PROVE  WireInv'
<1> DEFINE s == ws[p]
<1>1. Good(s) /\ IsStream(s) /\ Tidy(s)
  BY DEF WsInv, PeerInv, WireInv, Good
<1>2. ~Sync(p) /\ UNCHANGED <<wire, blocking>>
  BY DEF StartWrite, StartPing, StartClose, StartRead, Async, Sync
<1>3. ASSUME NEW t, Step(p, t), Goes(s, t) PROVE WireInv'
  BY <1>2, <1>3, GoesStep
<1>4. ASSUME NEW n \in 1..2, NEW fin \in BOOLEAN, NEW ok \in BOOLEAN, StartWrite(p, n, fin, ok)
      PROVE  WireInv'
  <2> DEFINE t == MaybeSuspend([s EXCEPT !.kind = "write", !.left = n, !.fin = fin, !.ok = ok,
                                  !.calls = s.calls + 1, !.op = IF s.wr_cont THEN "cont" ELSE "text"])
  <2>1. s.wr = "none" /\ s.pg = "none" /\ Step(p, t)
    BY <1>4 DEF StartWrite, MayCall
  <2> HIDE DEF s
  <2>2. Goes(s, t)
    BY <1>1, <2>1, StartWriteTidy
  <2> HIDE DEF t
  <2> QED BY <1>3, <2>1, <2>2
<1>5. CASE StartPing(p)
  <2> DEFINE i == [s EXCEPT !.calls = s.calls + 1]
  <2>1. s.pg = "none" /\ Step(p, PgStart(i))
    BY <1>5 DEF StartPing, MayCall
  <2> HIDE DEF s
  <2>2. IsStream(i) /\ i.pg = "none"
    BY <1>1, <2>1 DEF IsStream, Fields
  <2>3. Goes(s, i)
    BY <1>1, AsideTidy
  <2> HIDE DEF i
  <2>4. Goes(i, PgStart(i))
    BY <2>2, <2>3, PgStartTidy DEF Goes
  <2>5. Goes(s, PgStart(i))
    BY <2>3, <2>4, Onward
  <2> QED BY <1>3, <2>1, <2>5
<1>6. CASE StartClose(p)
  <2> DEFINE t == MaybeSuspend([s EXCEPT !.kind = "close", !.calls = MaxOps[p] + 1])
  <2>1. s.wr = "none" /\ s.pg = "none" /\ Step(p, t)
    BY <1>6 DEF StartClose, MayCall
  <2> HIDE DEF s
  <2>2. Goes(s, t)
    BY <1>1, <2>1, StartCloseTidy
  <2> HIDE DEF t
  <2> QED BY <1>3, <2>1, <2>2
<1>7. CASE StartRead(p)
  <2>1. s.rd = "none" /\ s.res = "none" /\ Step(p, ReadHeader(s))
    BY <1>7 DEF StartRead
  <2> HIDE DEF s
  <2>2. Goes(s, ReadHeader(s))
    BY <1>1, <2>1, ReadHeaderTidy
  <2> QED BY <1>3, <2>1, <2>2
<1> QED BY <1>4, <1>5, <1>6, <1>7

\* The handlers that were posted.
LEMMA PostedWire ==
  ASSUME WsInv, WireInv, NEW p \in Peers, RunRdPosted(p) \/ WriteStep(p)
  PROVE  WireInv'
<1> DEFINE s == ws[p]
<1>1. Good(s) /\ IsStream(s) /\ Tidy(s) /\ (Sync(p) => Plain(s))
  BY DEF WsInv, PeerInv, WireInv, Good
<1>2. CASE RunRdPosted(p)
  <2>1. /\ ~Sync(p) /\ Step(p, RdPosted(s)) /\ UNCHANGED <<wire, blocking>>
        /\ s.rd \in {"aborted", "pong_resumed", "close_resumed", "fail_resumed"}
    BY <1>1, <1>2 DEF RunRdPosted, Plain
  <2>2. Goes(s, RdPosted(s))
    BY <1>1, <2>1, RdPostedTidy
  <2> QED BY <2>1, <2>2, GoesStep
<1>3. CASE RunWrPosted(p)
  <2>1. /\ ~Sync(p) /\ Step(p, WrPosted(s)) /\ UNCHANGED <<wire, blocking>>
        /\ s.wr \in {"posted", "resumed", "aborted"}
    BY <1>1, <1>3 DEF RunWrPosted, Plain
  <2>2. Goes(s, WrPosted(s))
    BY <1>1, <2>1, WrPostedTidy
  <2> QED BY <2>1, <2>2, GoesStep
<1>4. CASE RunPgPosted(p)
  <2>1. ~Sync(p) /\ Step(p, PgPosted(s)) /\ UNCHANGED <<wire, blocking>>
    BY <1>1, <1>4 DEF RunPgPosted, Plain
  <2>2. Goes(s, PgPosted(s))
    BY <1>1, PgPostedTidy
  <2> QED BY <2>1, <2>2, GoesStep
<1> QED BY <1>2, <1>3, <1>4 DEF WriteStep

\* A stream used synchronously has no frame at the socket.
LEMMA SyncIdle ==
  ASSUME NEW s, Good(s), Plain(s)
  PROVE  \A o \in Ops : s.sending[o] = "idle"
BY DEF Good, Plain, Matches, Ops

\* The handlers of the writes.
LEMMA WrittenWire ==
  ASSUME WsInv, WireInv, NEW p \in Peers, NEW o \in Ops, Written(p, o) \/ WriteFails(p, o)
  PROVE  WireInv'
<1> DEFINE s == ws[p]
<1>1. Good(s) /\ IsStream(s) /\ Tidy(s) /\ (Sync(p) => Plain(s))
  BY DEF WsInv, PeerInv, WireInv, Good
<1>2. s.sending[o] # "idle" /\ UNCHANGED <<wire, blocking>>
  BY DEF Written, WriteFails
<1>3. /\ ~Sync(p)
      /\ o = "rd" => s.rd \in {"pong", "closing", "failing"}
      /\ o = "wr" => s.wr = "sending"
  BY <1>1, <1>2, SyncIdle DEF Good, Matches
<1>4. CASE Written(p, o)
  <2> DEFINE i == [s EXCEPT !.sending[o] = "idle"]
             t == CASE o = "rd" -> RdSent(i) [] o = "wr" -> WrSent(i) [] o = "pg" -> PgUpcall(i)
  <2>1. Step(p, t) /\ s.sending[o] = "sent"
    BY <1>4 DEF Written
  <2> HIDE DEF s
  <2>2. Goes(s, t)
    <3>1. CASE o = "rd"
      BY <1>1, <1>3, <2>1, <3>1, RdWrittenTidy
    <3>2. CASE o = "wr"
      BY <1>1, <1>3, <2>1, <3>2, WrWrittenTidy
    <3>3. CASE o = "pg"
      BY <1>1, <1>3, <2>1, <3>3, PgWrittenTidy
    <3> QED BY <3>1, <3>2, <3>3 DEF Ops
  <2> HIDE DEF t
  <2> QED BY <1>2, <1>3, <2>1, <2>2, GoesStep DEF s
<1>5. CASE WriteFails(p, o)
  <2> DEFINE i == [s EXCEPT !.sending[o] = "idle", !.failed = TRUE]
             t == CASE o = "rd" -> RdUpcall(i, "error") [] o = "wr" -> WrUpcall(i)
                    [] o = "pg" -> PgUpcall(i)
  <2>1. Step(p, t)
    BY <1>5 DEF WriteFails
  <2> HIDE DEF s
  <2>2. Goes(s, t)
    <3>1. CASE o = "rd"
      BY <1>1, <1>3, <3>1, RdWrittenTidy
    <3>2. CASE o = "wr"
      BY <1>1, <1>3, <3>2, WrWrittenTidy
    <3>3. CASE o = "pg"
      BY <1>1, <1>3, <3>3, PgWrittenTidy
    <3> QED BY <3>1, <3>2, <3>3 DEF Ops
  <2> HIDE DEF t
  <2> QED BY <1>2, <1>3, <2>1, <2>2, GoesStep DEF s
<1> QED BY <1>4, <1>5

\* A control frame is a frame.
LEMMA ControlIs ==
  \A op \in {"ping", "pong", "close", "garbage"} : Control(op) \in Frame /\ Control(op).op = op
BY DEF Control, Frame

\* The frame that goes out is the one its operation stands for.
LEMMA FrameIs ==
  ASSUME NEW s, Good(s), Tidy(s), NEW o \in Ops, s.sending[o] = "busy"
  PROVE  LET f == FrameOf(s, o)
             t == [s EXCEPT !.sending[o] = "sent"]
         IN  /\ f \in Frame /\ f.op # "garbage"
             /\ f.op \in {"text", "cont"} => CanSend(s) /\ (f.op = "cont" <=> Mid(s))
             /\ CanSend(t) => CanSend(s) /\ Reached(t) = After(Reached(s), f)
             /\ f.op = "close" /\ ~s.failed =>
                  s.wr_close /\ \A x \in Ops : t.sending[x] # "busy"
<1> DEFINE f == FrameOf(s, o)
           t == [s EXCEPT !.sending[o] = "sent"]
<1>1. /\ t.wr = s.wr /\ t.kind = s.kind /\ t.op = s.op /\ t.left = s.left /\ t.fin = s.fin
      /\ t.wr_cont = s.wr_cont /\ t.failed = s.failed /\ t.wr_close = s.wr_close
      /\ t.sending[o] = "sent" /\ \A x \in Ops \ {o} : t.sending[x] = s.sending[x]
  BY DEF Good, IsStream, Fields
<1>2. /\ s.sending["wr"] # "idle" => s.wr = "sending"
      /\ s.sending["pg"] # "idle" => s.pg = "sending"
      /\ s.sending["rd"] # "idle" => s.rd \in {"pong", "closing", "failing"}
  BY DEF Good, Matches
<1>3. /\ s.op \in {"text", "cont"} /\ s.kind \in {"write", "close"}
      /\ s.fin \in BOOLEAN /\ s.ok \in BOOLEAN /\ s.left \in Nat
      /\ s.wr = "sending" /\ s.kind = "close" => s.wr_close
      /\ s.rd = "failing" => s.failed
      /\ s.rd = "closing" => s.wr_close
      /\ s.wr_close /\ ~s.failed =>
           /\ s.rd # "pong" /\ s.pg # "sending"
           /\ s.wr = "sending" => s.kind = "close" /\ s.rd # "closing"
  BY DEF Tidy, Typed, WrTidy, RdTidy, CloseAlone
<1> HIDE DEF t
<1>4. ASSUME o # "wr" PROVE Mid(t) <=> Mid(s)
  BY <1>1, <1>4 DEF Mid, Ops
<1>5. CASE o = "pg"
  <2>1. f = Control("ping") /\ f.op = "ping"
    BY <1>5 DEF FrameOf, Control
  <2>2. f \in Frame
    BY <2>1 DEF Frame, Control
  <2>3. Reached(t) = After(Reached(s), f)
    BY <1>4, <1>5, <2>1 DEF Reached, After
  <2> QED BY <1>1, <2>1, <2>2, <2>3 DEF CanSend, t
<1>6. CASE o = "rd"
  <2>1. /\ f \in {Control("pong"), Control("close")}
        /\ f.op \in {"pong", "close"} /\ (f.op = "close" => s.rd # "pong")
    BY <1>6 DEF FrameOf, Control
  <2>2. f \in Frame
    BY <2>1, ControlIs
  <2>3. Reached(t) = After(Reached(s), f)
    BY <1>4, <1>6, <2>1 DEF Reached, After
  <2>4. ASSUME f.op = "close", ~s.failed PROVE s.wr_close /\ \A x \in Ops : t.sending[x] # "busy"
    <3>1. s.rd = "closing"
      BY <1>2, <1>3, <1>6, <2>1, <2>4
    <3> QED BY <1>1, <1>2, <1>3, <1>6, <2>4, <3>1 DEF Ops
  <2> HIDE DEF f
  <2>5. f.op # "garbage" /\ f.op \notin {"text", "cont"}
    BY <2>1
  <2>6. CanSend(t) => CanSend(s)
    BY <1>1 DEF CanSend
  <2> QED BY <2>2, <2>3, <2>4, <2>5, <2>6 DEF t, f
<1>7. CASE o = "wr" /\ s.kind = "close"
  <2>1. f = Control("close") /\ f.op = "close"
    BY <1>7 DEF FrameOf, Control
  <2>2. f \in Frame
    BY <2>1 DEF Frame, Control
  <2>3. s.wr = "sending" /\ s.wr_close /\ ~CanSend(t)
    BY <1>1, <1>2, <1>3, <1>7 DEF CanSend
  <2>4. ASSUME ~s.failed PROVE \A x \in Ops : t.sending[x] # "busy"
    BY <1>1, <1>2, <1>3, <1>7, <2>3, <2>4 DEF Ops
  <2> QED BY <2>1, <2>2, <2>3, <2>4 DEF t
<1>8. CASE o = "wr" /\ s.kind = "write"
  <2>1. f = [op |-> s.op, fin |-> s.fin /\ s.left = 0, ok |-> s.ok]
    BY <1>8 DEF FrameOf
  <2> DEFINE b == s.fin /\ s.left = 0
  <2>b. b \in BOOLEAN /\ (b <=> s.fin /\ s.left = 0) /\ f = [op |-> s.op, fin |-> b, ok |-> s.ok]
    BY <2>1
  <2> HIDE DEF f, b
  <2>2. f \in Frame /\ f.op = s.op /\ (f.fin <=> s.fin /\ s.left = 0)
    <3>1. f \in Frame
      BY <1>3, <2>b DEF Frame
    <3> QED BY <2>b, <3>1
  <2>3. s.wr = "sending" /\ CanSend(s)
    BY <1>2, <1>8 DEF CanSend
  <2>4. (s.op = "cont" <=> Mid(s)) /\ (Mid(t) <=> ~(s.fin /\ s.left = 0))
    BY <1>1, <1>8, <2>3 DEF Mid
  <2>5. f.op \in {"text", "cont"} /\ f.op # "garbage" /\ f.op # "close"
    BY <1>3, <2>2
  <2>6. Reached(t) = After(Reached(s), f)
    BY <2>2, <2>4, <2>5 DEF Reached, After
  <2> QED BY <2>2, <2>3, <2>4, <2>5, <2>6 DEF t, f
<1> QED BY <1>3, <1>5, <1>6, <1>7, <1>8 DEF Ops

\* The socket takes a frame.
LEMMA DeliverWire ==
  ASSUME WsInv, WireInv, NEW p \in Peers, NEW o \in Ops, Deliver(p, o)
  PROVE  WireInv'
<1> DEFINE s == ws[p]
           t == [s EXCEPT !.sending[o] = "sent"]
           q == Other(p)
           W == wire[p]
<1>1. Good(s) /\ Tidy(s) /\ (Sync(p) => Plain(s))
  BY DEF WsInv, PeerInv, WireInv
<1>2. q \in Peers /\ q # p /\ Other(q) = p
  BY OtherIs
<1>3. Out(W, p, s, ws[q]) /\ Out(wire[q], q, ws[q], s)
  BY <1>2 DEF WireInv
<1>4. s.sending[o] = "busy" /\ Step(p, t) /\ UNCHANGED blocking
  BY DEF Deliver
<1>5. PICK f \in {FrameOf(s, o)} \cup
               (IF \E x \in Ops \ {o} : s.sending[x] = "busy" THEN {Control("garbage")} ELSE {}) :
         wire' = [wire EXCEPT ![p] = Append(W, f)]
  BY DEF Deliver
<1>6. /\ wire'[p] = Append(W, f) /\ wire'[q] = wire[q] /\ DOMAIN wire' = Peers
      /\ ws'[p] = t /\ ws'[q] = ws[q]
  BY <1>2, <1>4, <1>5 DEF Step, WsInv, WireInv
<1>7. ~Sync(p)
  BY <1>1, <1>4, SyncIdle
<1>8. f = FrameOf(s, o) \/ f = Control("garbage")
  BY <1>5
<1> HIDE DEF W, q, s
<1>9. /\ t.failed = s.failed /\ t.wr_close = s.wr_close /\ t.wr = s.wr /\ t.rd = s.rd
      /\ t.res = s.res /\ t.rd_cont = s.rd_cont /\ t.kind = s.kind
      /\ t.op = s.op /\ t.fin = s.fin /\ t.ok = s.ok /\ t.left = s.left /\ t.pg = s.pg
      /\ t.wr_cont = s.wr_cont
  BY <1>1 DEF Good, IsStream, Fields
<1>10. /\ f \in Frame
       /\ f.op \in {"text", "cont"} => CanSend(s) /\ (f.op = "cont" <=> Mid(s))
       /\ CanSend(t) => CanSend(s) /\ (f.op = "garbage" \/ Reached(t) = After(Reached(s), f))
       /\ f.op = "close" /\ ~s.failed => s.wr_close /\ \A x \in Ops : t.sending[x] # "busy"
  <2>1. CASE f = FrameOf(s, o)
    BY <1>1, <1>4, <2>1, FrameIs
  <2>2. CASE f = Control("garbage")
    <3>1. f \in Frame /\ f.op = "garbage"
      BY <2>2 DEF Control, Frame
    <3>2. CanSend(t) => CanSend(s)
      BY <1>9 DEF CanSend
    <3> QED BY <3>1, <3>2
  <2> QED BY <1>8, <2>1, <2>2
<1>11. s.failed \/ ~CloseIn(W)
  BY <1>3, <1>4 DEF Out, Quiet
<1> HIDE DEF t
<1>12. Out(Append(W, f), p, t, ws[q])
  BY <1>3, <1>9, <1>10, <1>11, OutAppend
<1>13. Reads(s, t) /\ Tidy(t)
  BY <1>1, <1>9 DEF Reads, Alive, Tidy, Typed, WrTidy, RdTidy, CloseAlone
<1>14. Out(wire[q], q, ws[q], t)
  BY <1>3, <1>13, OutReads
<1> QED BY <1>4, <1>6, <1>7, <1>12, <1>13, <1>14, OneStep DEF q

\* A peer that takes the first frame off the other's wire.
LEMMA PopWire ==
  ASSUME WsInv, WireInv, NEW p \in Peers, NEW t, Incoming(p) # <<>>, Pop(p),
         ws'[p] = t, ws'[Other(p)] = ws[Other(p)],
         UNCHANGED blocking, Tidy(t), Sends(ws[p], t), Sync(p) => SyncTidy(p, t),
         ~Alive(t) \/ (Alive(ws[p]) /\ ReadSoFar(t) = After(ReadSoFar(ws[p]), Head(Incoming(p))))
  PROVE  WireInv'
<1> DEFINE q == Other(p)
<1>1. q \in Peers /\ q # p /\ Other(q) = p
  BY OtherIs
<1>2. /\ wire'[p] = wire[p] /\ wire'[q] = Tail(wire[q]) /\ DOMAIN wire' = Peers
  BY <1>1 DEF Pop, WireInv
<1>3. Out(wire[p], p, ws[p], ws[q]) /\ Out(wire[q], q, ws[q], ws[p])
  BY <1>1 DEF WireInv
<1>4. Out(wire[p], p, t, ws[q])
  BY <1>3, OutSends
<1>5. Out(Tail(wire[q]), q, ws[q], t)
  BY <1>3, OutTail DEF Incoming
<1> QED BY <1>2, <1>4, <1>5, OneStep

\* What an asynchronous read meets, and the end of every connection.
LEMMA ReadWire ==
  ASSUME WsInv, WireInv, NEW p \in Peers,
         ReadFrame(p) \/ ReadFails(p) \/ TeardownRead(p) \/ TeardownEnd(p) \/ Destroy(p)
  PROVE  WireInv'
<1> DEFINE s == ws[p]
<1>1. Good(s) /\ IsStream(s) /\ Tidy(s) /\ (Sync(p) => Plain(s) /\ SyncTidy(p, s))
  BY DEF WsInv, PeerInv, WireInv, Good
<1>2. Other(p) \in Peers /\ Other(p) # p
  BY OtherIs
<1>3. CASE ReadFrame(p)
  <2> DEFINE f == Head(Incoming(p))
             t == Receive(s, f)
  <2>1. /\ ~Sync(p) /\ s.rd = "fh" /\ Incoming(p) # <<>> /\ Step(p, t) /\ Pop(p)
        /\ UNCHANGED blocking
    BY <1>3 DEF ReadFrame, Async, Sync
  <2>2. f \in Frame
    <3>1. wire[Other(p)] \in Seq(Frame)
      BY <1>2 DEF WireInv, Out
    <3> QED BY <2>1, <3>1, TailIs DEF Incoming
  <2>3. ws'[p] = t /\ ws'[Other(p)] = ws[Other(p)]
    BY <1>2, <2>1 DEF Step, WsInv
  <2>4. Took(s, f, t)
    BY <1>1, <2>1, <2>2, ReceiveTook
  <2> HIDE DEF t
  <2>5. Tidy(t) /\ Sends(s, t)
        /\ (~Alive(t) \/ (Alive(s) /\ ReadSoFar(t) = After(ReadSoFar(s), f)))
    BY <2>4 DEF Took
  <2> QED BY <2>1, <2>3, <2>5, PopWire
<1>4. CASE ReadFails(p)
  <2> DEFINE i == [s EXCEPT !.failed = TRUE]
  <2>1. Step(p, RdUpcall(i, "error")) /\ UNCHANGED <<wire, blocking>> /\ ~Sync(p)
    BY <1>4 DEF ReadFails, Async, Sync
  <2> HIDE DEF s
  <2>2. Goes(s, i) /\ IsStream(i) /\ i.failed
    BY <1>1 DEF IsStream, Fields, Goes, Sends, Reads, Tidy, Typed, WrTidy, RdTidy, CloseAlone, CanSend, Mid, Alive
  <2> HIDE DEF i
  <2>3. Goes(i, RdUpcall(i, "error"))
    BY <2>2, RdUpcallTidy DEF Goes
  <2>4. Goes(s, RdUpcall(i, "error"))
    BY <2>2, <2>3, Onward
  <2> QED BY <2>1, <2>4, GoesStep DEF s
<1>5. CASE TeardownRead(p)
  <2>1. Incoming(p) # <<>> /\ Pop(p) /\ UNCHANGED blocking /\ ws' = ws /\ ~Alive(s)
    BY <1>5 DEF TeardownRead, Tearing, Alive
  <2>2. Sends(s, s)
    BY DEF Sends
  <2> QED BY <1>1, <2>1, <2>2, PopWire
<1>6. CASE TeardownEnd(p)
  <2> DEFINE ok == ~cut \/ p \in blocking
             i  == [s EXCEPT !.sock = IF ok THEN "closed" ELSE @, !.failed = @ \/ p \in blocking]
             res == IF ~ok THEN "error" ELSE IF i.rd = "teardown" THEN "closed" ELSE "failed"
  <2>1. Step(p, RdUpcall(i, res)) /\ UNCHANGED <<wire, blocking>> /\ res # "none"
        /\ s.rd \in {"teardown", "fail_teardown"}
    BY <1>6 DEF TeardownEnd, Tearing
  <2> HIDE DEF ok, res, s
  <2>2. Goes(s, i)
    BY <1>1 DEF IsStream, Fields, Goes, Sends, Reads, Tidy, Typed, WrTidy, RdTidy, CloseAlone, CanSend, Mid, Alive
  <2>3. IsStream(i) /\ i.rd = s.rd /\ i.calls = s.calls
    BY <1>1 DEF IsStream, Fields
  <2> HIDE DEF i
  <2>4. i.failed \/ i.wr_close
    BY <2>1, <2>2, <2>3 DEF Goes, Tidy, RdTidy
  <2>5. /\ Goes(i, RdUpcall(i, res)) /\ RdUpcall(i, res).rd = "none" /\ RdUpcall(i, res).res = res
    BY <2>1, <2>2, <2>3, <2>4, RdUpcallTidy DEF Goes
  <2>6. Goes(s, RdUpcall(i, res))
    BY <2>2, <2>5, Onward
  <2>7. RdUpcall(i, res).calls = i.calls
    BY <2>3 DEF RdUpcall, Invoke, Resume, Parked, Release, IsStream, Fields
  <2>8. Sync(p) => SyncTidy(p, RdUpcall(i, res))
    BY <1>1, <2>1, <2>3, <2>5, <2>7 DEF SyncTidy
  <2> QED BY <2>1, <2>6, <2>8, GoesStep DEF s
<1>7. CASE Destroy(p)
  <2> DEFINE t == [s EXCEPT !.sock = "closed"]
  <2>1. Step(p, t) /\ UNCHANGED <<wire, blocking>>
    BY <1>7 DEF Destroy
  <2> HIDE DEF s
  <2>2. Goes(s, t)
    BY <1>1, AsideTidy
  <2>3. Sync(p) => SyncTidy(p, t)
    BY <1>1 DEF SyncTidy, IsStream, Fields
  <2> HIDE DEF t
  <2> QED BY <2>1, <2>2, <2>3, GoesStep DEF s
<1> QED BY <1>3, <1>4, <1>5, <1>6, <1>7

-----------------------------------------------------------------------------
(* The synchronous calls.                                                  *)

\* A call that writes one frame, or two, puts one after the other on the wire.
LEMMA ConcatIs ==
  ASSUME NEW W \in Seq(Frame), NEW g, NEW n \in 1..2, g \in [1..n -> Frame]
  PROVE  W \o g = IF n = 1 THEN Append(W, g[1]) ELSE Append(Append(W, g[1]), g[2])
<1>1. g \in Seq(Frame) /\ Len(g) = n
  <2>1. n \in Nat
    OBVIOUS
  <2> QED BY <2>1
<1>2. g[1] \in Frame /\ (n = 2 => g[2] \in Frame)
  OBVIOUS
<1> DEFINE V == Append(W, g[1])
           U == Append(V, g[2])
<1>3. /\ V \in Seq(Frame) /\ Len(W) \in Nat /\ Len(V) = Len(W) + 1 /\ V[Len(W) + 1] = g[1]
      /\ \A i \in 1..Len(W) : V[i] = W[i]
  BY <1>2, AppendIs
<1> HIDE DEF V
<1>4. n = 2 => /\ U \in Seq(Frame) /\ Len(U) = Len(W) + 2 /\ U[Len(W) + 2] = g[2]
               /\ \A i \in 1..(Len(W) + 1) : U[i] = V[i]
  BY <1>2, <1>3, AppendIs
<1> HIDE DEF U
<1>5. /\ W \o g \in Seq(Frame) /\ Len(W \o g) = Len(W) + n
      /\ \A i \in 1..(Len(W) + n) : (W \o g)[i] = IF i <= Len(W) THEN W[i] ELSE g[i - Len(W)]
  BY <1>1, ConcatProperties
<1> DEFINE X == W \o g
<1> HIDE DEF X
<1>6. /\ X \in Seq(Frame) /\ Len(X) = Len(W) + n
      /\ \A i \in 1..(Len(W) + n) : X[i] = IF i <= Len(W) THEN W[i] ELSE g[i - Len(W)]
  BY <1>5 DEF X
<1>7. CASE n = 1
  <2>1. ASSUME NEW i \in 1..Len(X) PROVE X[i] = V[i]
    BY <1>3, <1>6, <1>7
  <2>2. X = V
    BY <1>3, <1>6, <1>7, <2>1, SeqEqual
  <2> QED BY <1>7, <2>2 DEF V, X
<1>8. CASE n = 2
  <2>1. ASSUME NEW i \in 1..Len(X) PROVE X[i] = U[i]
    <3>1. CASE i <= Len(W)
      BY <1>3, <1>4, <1>6, <1>8, <3>1
    <3>2. CASE i = Len(W) + 1
      BY <1>3, <1>4, <1>6, <1>8, <3>2
    <3>3. CASE i = Len(W) + 2
      BY <1>3, <1>4, <1>6, <1>8, <3>3
    <3> QED BY <1>3, <1>6, <1>8, <3>1, <3>2, <3>3
  <2>2. X = U
    BY <1>4, <1>6, <1>8, <2>1, SeqEqual
  <2> QED BY <1>8, <2>2 DEF V, U, X
<1> QED BY <1>7, <1>8

\* Nothing on the wire, or one control frame, of a handler that sends no more.
LEMMA OutControl ==
  ASSUME NEW W, NEW p, NEW s, NEW t, NEW r, NEW g \in Frame, Out(W, p, s, r), Sends(s, t),
         g.op \in {"ping", "pong", "close"},
         t.failed \/ ~CloseIn(W) \/ (Sync(p) /\ g.op = "pong"),
         g.op = "close" /\ ~t.failed => t.wr_close,
         \A o \in Ops : t.sending[o] = "idle"
  PROVE  Out(Append(W, g), p, t, r)
<1>1. s.failed => t.failed
  BY DEF Sends
<1>2. CloseIn(W) /\ ~t.failed => t.wr_close
  BY <1>1 DEF Out, Quiet, Sends
<1>3. CanSend(t) => CanSend(s) /\ Reached(t) = After(Reached(s), g)
  BY DEF Sends, Reached, After
<1> QED BY <1>1, <1>2, <1>3, OutAppend

\* What a synchronous caller has not ended has no close on the wire.
LEMMA SyncMayCall ==
  ASSUME WsInv, WireInv, NEW p \in Peers, Sync(p), MayCall(p), ws[p].rd = "none",
         ws[p].calls < MaxOps[p] \/ ws[p].calls <= MaxOps[p]
  PROVE  ~ws[p].failed /\ ~ws[p].wr_close /\ ~CloseIn(wire[p])
<1>1. MaxOps[p] \in Nat
  BY WsAssumption
<1>2. ws[p].calls \in Nat /\ ws[p].res = "none"
  BY DEF WireInv, SyncTidy, MayCall
<1>3. ~(ws[p].calls > MaxOps[p])
  BY <1>1, <1>2
<1>4. ~ws[p].failed /\ ~ws[p].wr_close
  BY <1>2, <1>3 DEF WireInv, SyncTidy
<1> QED BY <1>4 DEF WireInv, Out, Quiet

\* The calls that put no message on the wire.
LEMMA SyncCallWire ==
  ASSUME WsInv, WireInv, NEW p \in Peers,
         SyncPing(p) \/ SyncClose(p) \/ SyncRead(p) \/ SyncReadFails(p)
  PROVE  WireInv'
<1> DEFINE s == ws[p]
           q == Other(p)
<1>1. Sync(p) /\ UNCHANGED blocking
  BY DEF SyncPing, SyncClose, SyncRead, SyncReadFails
<1>2. /\ Good(s) /\ IsStream(s) /\ Tidy(s) /\ Plain(s) /\ SyncTidy(p, s)
      /\ \A o \in Ops : s.sending[o] = "idle"
  BY <1>1, SyncIdle DEF WsInv, PeerInv, WireInv, Good
<1>3. q \in Peers /\ q # p /\ Other(q) = p
  BY OtherIs
<1>4. Out(wire[p], p, s, ws[q]) /\ Out(wire[q], q, ws[q], s) /\ wire[p] \in Seq(Frame)
  BY <1>3 DEF WireInv, Out
<1>5. MaxOps[p] \in Nat
  BY WsAssumption
<1>6. ASSUME NEW t, NEW g \in {Control("ping"), Control("close")}, Step(p, t), Emit(p, <<g>>),
             Goes(s, t), SyncTidy(p, t), \A o \in Ops : t.sending[o] = "idle",
             ~CloseIn(wire[p]), g.op = "close" => t.wr_close
      PROVE  WireInv'
  <2>1. g \in Frame /\ g.op \in {"ping", "pong", "close"}
    BY ControlIs
  <2>2. wire[p] \o <<g>> = Append(wire[p], g)
    BY <1>4, <2>1
  <2>3. wire'[p] = Append(wire[p], g) /\ wire'[q] = wire[q] /\ DOMAIN wire' = Peers
    BY <1>3, <1>6, <2>2 DEF Emit, WireInv
  <2>4. ws'[p] = t /\ ws'[q] = ws[q]
    BY <1>3, <1>6 DEF Step, WsInv
  <2>5. Out(Append(wire[p], g), p, t, ws[q])
    BY <1>4, <1>6, <2>1, OutControl DEF Goes
  <2>6. Out(wire[q], q, ws[q], t) /\ Tidy(t)
    BY <1>4, <1>6, OutReads DEF Goes
  <2> QED BY <1>1, <1>6, <2>3, <2>4, <2>5, <2>6, OneStep
<1>7. CASE SyncPing(p)
  <2> DEFINE t == [s EXCEPT !.calls = s.calls + 1]
  <2>1. /\ Step(p, t) /\ Emit(p, <<Control("ping")>>) /\ s.rd = "none" /\ MayCall(p)
        /\ s.calls < MaxOps[p]
    BY <1>7 DEF SyncPing
  <2>2. ~s.failed /\ ~s.wr_close /\ ~CloseIn(wire[p])
    BY <1>1, <2>1, SyncMayCall
  <2> HIDE DEF s
  <2>3. Goes(s, t)
    BY <1>2, AsideTidy
  <2>4. /\ t.calls = s.calls + 1 /\ t.sending = s.sending /\ t.failed = s.failed
        /\ t.wr_close = s.wr_close
    BY <1>2 DEF IsStream, Fields
  <2> HIDE DEF t
  <2>5. SyncTidy(p, t)
    BY <1>2, <2>2, <2>4 DEF SyncTidy
  <2>6. Control("ping").op # "close"
    BY DEF Control
  <2> QED BY <1>2, <1>6, <2>1, <2>2, <2>3, <2>4, <2>5, <2>6
<1>8. CASE SyncClose(p)
  <2> DEFINE t == [s EXCEPT !.wr_close = TRUE, !.calls = MaxOps[p] + 1]
  <2>1. /\ Step(p, t) /\ Emit(p, <<Control("close")>>) /\ s.rd = "none" /\ MayCall(p)
        /\ s.calls <= MaxOps[p]
    BY <1>8 DEF SyncClose, MayCall
  <2>2. ~s.failed /\ ~s.wr_close /\ ~CloseIn(wire[p])
    BY <1>1, <2>1, SyncMayCall
  <2> HIDE DEF s
  <2>3. /\ t.wr = s.wr /\ t.pg = s.pg /\ t.rd = s.rd /\ t.res = s.res
        /\ t.kind = s.kind /\ t.op = s.op /\ t.left = s.left /\ t.fin = s.fin /\ t.ok = s.ok
        /\ t.wr_cont = s.wr_cont /\ t.rd_cont = s.rd_cont /\ t.sending = s.sending
        /\ t.failed = s.failed /\ t.wr_close /\ t.calls = MaxOps[p] + 1
    BY <1>2 DEF IsStream, Fields
  <2> HIDE DEF t
  <2>4. Tidy(t)
    BY <1>2, <2>3 DEF Plain, Tidy, Typed, WrTidy, RdTidy, CloseAlone
  <2>5. Sends(s, t) /\ Reads(s, t)
    BY <1>2, <2>3 DEF Plain, Sends, Reads, CanSend, Alive
  <2>6. SyncTidy(p, t)
    BY <1>5, <2>3 DEF SyncTidy
  <2> QED BY <1>2, <1>6, <2>1, <2>2, <2>3, <2>4, <2>5, <2>6 DEF Goes
<1>9. CASE SyncRead(p)
  <2> DEFINE t == [s EXCEPT !.rd = "fh"]
  <2>1. Step(p, t) /\ UNCHANGED wire /\ s.rd = "none" /\ s.res = "none"
    BY <1>9 DEF SyncRead
  <2> HIDE DEF s
  <2>2. Goes(s, t)
    BY <1>2, <2>1 DEF IsStream, Fields, Goes, Sends, Reads, Tidy, Typed, WrTidy, RdTidy, CloseAlone, CanSend, Mid, Alive
  <2>3. SyncTidy(p, t)
    BY <1>2, <2>1 DEF SyncTidy, IsStream, Fields
  <2> HIDE DEF t
  <2> QED BY <1>1, <2>1, <2>2, <2>3, GoesStep DEF s
<1>10. CASE SyncReadFails(p)
  <2> DEFINE t == [s EXCEPT !.failed = TRUE, !.rd = "none", !.res = "error"]
  <2>1. Step(p, t) /\ UNCHANGED wire
    BY <1>10 DEF SyncReadFails
  <2> HIDE DEF s
  <2>2. Goes(s, t)
    BY <1>2 DEF IsStream, Fields, Goes, Sends, Reads, Tidy, Typed, WrTidy, RdTidy, CloseAlone, CanSend, Mid, Alive
  <2>3. SyncTidy(p, t)
    BY <1>2 DEF SyncTidy, IsStream, Fields
  <2> HIDE DEF t
  <2> QED BY <1>1, <2>1, <2>2, <2>3, GoesStep DEF s
<1> QED BY <1>7, <1>8, <1>9, <1>10

\* A message, in one frame or in two.
LEMMA SyncWriteWire ==
  ASSUME WsInv, WireInv, NEW p \in Peers,
         NEW n \in 1..2, NEW fin \in BOOLEAN, NEW ok \in BOOLEAN, SyncWrite(p, n, fin, ok)
  PROVE  WireInv'
<1> DEFINE s == ws[p]
           q == Other(p)
           W == wire[p]
<1>1. Sync(p) /\ UNCHANGED blocking /\ MayCall(p) /\ s.rd = "none" /\ s.calls < MaxOps[p]
  BY DEF SyncWrite
<1>2. /\ Good(s) /\ IsStream(s) /\ Tidy(s) /\ s.wr = "none" /\ s.pg = "none" /\ SyncTidy(p, s)
      /\ \A o \in Ops : s.sending[o] = "idle"
  BY <1>1, SyncIdle DEF WsInv, PeerInv, WireInv, Good, Plain
<1>3. q \in Peers /\ q # p /\ Other(q) = p
  BY OtherIs
<1>4. Out(W, p, s, ws[q]) /\ Out(wire[q], q, ws[q], s) /\ W \in Seq(Frame)
  BY <1>3 DEF WireInv, Out
<1>5. ~s.failed /\ ~s.wr_close /\ ~CloseIn(W)
  BY <1>1, SyncMayCall
<1>6. CASE cut
  <2> DEFINE t == [s EXCEPT !.failed = TRUE, !.res = "error"]
  <2>1. Step(p, t) /\ UNCHANGED wire
    BY <1>6 DEF SyncWrite
  <2> HIDE DEF s
  <2>2. Goes(s, t)
    BY <1>2 DEF IsStream, Fields, Goes, Sends, Reads, Tidy, Typed, WrTidy, RdTidy, CloseAlone, CanSend, Mid, Alive
  <2>3. SyncTidy(p, t)
    BY <1>2 DEF SyncTidy, IsStream, Fields
  <2> HIDE DEF t
  <2> QED BY <1>1, <2>1, <2>2, <2>3, GoesStep DEF s
<1>7. CASE ~cut
  <2> DEFINE w == SyncWrote(p, fin)
             t == [s EXCEPT !.calls = s.calls + 1, !.wr_cont = w]
             u == [s EXCEPT !.wr_cont = TRUE]
             g == [i \in 1..n |-> [op |-> IF s.wr_cont \/ i > 1 THEN "cont" ELSE "text",
                                   fin |-> fin /\ i = n, ok |-> ok]]
  <2>1. Step(p, t) /\ Emit(p, g)
    BY <1>7 DEF SyncWrite
  <2>2. ~ForgetsContinuation(p) => (w <=> ~fin)
    BY <1>1 DEF SyncWrote, ForgetsContinuation, Sync
  <2>3. /\ 1 \in DOMAIN g /\ g[1].op \in {"text", "cont"} /\ (g[1].op = "cont" <=> s.wr_cont)
        /\ (g[1].fin <=> (fin /\ n = 1))
        /\ n = 2 => g[2].op = "cont" /\ (g[2].fin <=> fin)
    <3>1. ASSUME NEW i \in 1..n
          PROVE  /\ g[i].op = IF s.wr_cont \/ i > 1 THEN "cont" ELSE "text"
                 /\ g[i].fin = (fin /\ i = n)
      OBVIOUS
    <3>2. 1 \in 1..n /\ DOMAIN g = 1..n
      OBVIOUS
    <3> HIDE DEF g
    <3>3. g[1].op = (IF s.wr_cont THEN "cont" ELSE "text") /\ g[1].fin = (fin /\ 1 = n)
      BY <3>1, <3>2
    <3>4. n = 2 => g[2].op = "cont" /\ g[2].fin = (fin /\ 2 = n)
      BY <3>1
    <3>5. g[1].op \in {"text", "cont"} /\ (g[1].op = "cont" <=> s.wr_cont)
      BY <3>3
    <3>6. (g[1].fin <=> (fin /\ n = 1)) /\ (n = 2 => (g[2].fin <=> fin))
      BY <3>3, <3>4
    <3> QED BY <3>2, <3>4, <3>5, <3>6
  <2>4. g \in [1..n -> Frame]
    <3>1. ASSUME NEW i \in 1..n PROVE g[i] \in Frame
      <4> DEFINE b == fin /\ i = n
                 x == IF s.wr_cont \/ i > 1 THEN "cont" ELSE "text"
      <4>1. g[i] = [op |-> x, fin |-> b, ok |-> ok] /\ b \in BOOLEAN /\ x \in {"text", "cont"}
        OBVIOUS
      <4> HIDE DEF b, x, g
      <4> QED BY <4>1 DEF Frame
    <3>2. g = [i \in 1..n |-> g[i]]
      OBVIOUS
    <3> HIDE DEF g
    <3> QED BY <3>1, <3>2
  <2> HIDE DEF g, w
  <2>5. wire'[p] = W \o g /\ wire'[q] = wire[q] /\ DOMAIN wire' = Peers
    BY <1>3, <2>1 DEF Emit, WireInv
  <2>6. ws'[p] = t /\ ws'[q] = ws[q]
    BY <1>3, <2>1 DEF Step, WsInv
  <2>7. W \o g = IF n = 1 THEN Append(W, g[1]) ELSE Append(Append(W, g[1]), g[2])
    BY <1>4, <2>4, ConcatIs
  <2> HIDE DEF s, W, q
  <2>8. /\ t.wr = "none" /\ t.pg = "none" /\ t.rd = s.rd /\ t.res = s.res
        /\ t.kind = s.kind /\ t.op = s.op /\ t.left = s.left /\ t.fin = s.fin /\ t.ok = s.ok
        /\ (t.wr_cont <=> w) /\ t.rd_cont = s.rd_cont /\ t.sending = s.sending
        /\ ~t.failed /\ ~t.wr_close /\ t.calls = s.calls + 1
    BY <1>2, <1>5 DEF IsStream, Fields
  <2>9. /\ u.wr = "none" /\ u.wr_cont /\ ~u.failed /\ ~u.wr_close
        /\ \A o \in Ops : u.sending[o] = "idle"
    BY <1>2, <1>5 DEF IsStream, Fields
  <2> HIDE DEF t, u
  <2>10. /\ Mid(s) <=> s.wr_cont
         /\ Mid(t) <=> w
         /\ Mid(u)
         /\ CanSend(s) /\ CanSend(u)
    BY <1>2, <1>5, <2>8, <2>9 DEF Mid, CanSend, Tidy, WrTidy
  <2>11. g[1] \in Frame /\ (n = 2 => g[2] \in Frame)
    BY <2>4
  <2>12. ASSUME n = 1 PROVE Out(W \o g, p, t, ws[q])
    <3>1. ~ForgetsContinuation(p) => Reached(t) = After(Reached(s), g[1])
      BY <2>2, <2>3, <2>10, <2>12 DEF Reached, After
    <3>2. g[1].op # "close"
      BY <2>3
    <3>3. Out(Append(W, g[1]), p, t, ws[q])
      BY <1>4, <1>5, <2>3, <2>10, <2>11, <3>1, <3>2, OutAppend
    <3> QED BY <2>7, <2>12, <3>3
  <2>13. ASSUME n = 2 PROVE Out(W \o g, p, t, ws[q])
    <3> DEFINE V == Append(W, g[1])
    <3>1. Reached(u) = After(Reached(s), g[1])
      BY <2>3, <2>10, <2>13 DEF Reached, After
    <3>2. g[1].op # "close" /\ g[2].op # "close"
      BY <2>3, <2>13
    <3>3. Out(V, p, u, ws[q])
      BY <1>4, <1>5, <2>3, <2>10, <2>11, <3>1, <3>2, OutAppend
    <3> HIDE DEF V
    <3>4. ~CloseIn(V)
      BY <2>9, <3>3 DEF Out, Quiet
    <3>5. ~ForgetsContinuation(p) => Reached(t) = After(Reached(u), g[2])
      BY <2>2, <2>3, <2>10, <2>13 DEF Reached, After
    <3>6. Out(Append(V, g[2]), p, t, ws[q])
      BY <2>3, <2>9, <2>10, <2>11, <2>13, <3>2, <3>3, <3>4, <3>5, OutAppend
    <3> QED BY <2>7, <2>13, <3>6 DEF V
  <2>14. Tidy(t) /\ Reads(s, t)
    BY <1>2, <1>5, <2>8 DEF Reads, Alive, Tidy, Typed, WrTidy, RdTidy, CloseAlone
  <2>15. Out(wire[q], q, ws[q], t)
    BY <1>4, <2>14, OutReads
  <2>16. SyncTidy(p, t)
    BY <1>2, <2>8 DEF SyncTidy
  <2>17. Out(W \o g, p, t, ws[q])
    <3>1. n = 1 \/ n = 2
      OBVIOUS
    <3> QED BY <2>12, <2>13, <3>1
  <2> QED BY <1>1, <2>5, <2>6, <2>14, <2>15, <2>16, <2>17, OneStep DEF q
<1> QED BY <1>6, <1>7

\* What a synchronous read makes of a frame.
LEMMA SyncTook ==
  ASSUME NEW s, NEW f \in Frame, Good(s), Plain(s), Tidy(s), s.rd = "fh"
  PROVE  LET t == SyncReceive(s, f)
         IN  /\ Took(s, f, t) /\ t.failed = s.failed /\ t.calls = s.calls /\ t.res = s.res
             /\ t.sending = s.sending
             /\ t.rd \in {"none", "fh"} => t.wr_close = s.wr_close
             /\ HeaderError(s, f) \/ ~f.ok \/ f.op = "close" => t.wr_close
<1> DEFINE t == SyncReceive(s, f)
<1>1. IsStream(s) /\ Alive(s) /\ s.wr = "none" /\ s.pg = "none"
  BY DEF Good, Plain, Alive
<1>2. ASSUME NEW state \in {"teardown", "fail_teardown"},
             t = [Teardown(s, state) EXCEPT !.wr_close = TRUE]
      PROVE  /\ Took(s, f, t) /\ t.failed = s.failed /\ t.calls = s.calls /\ t.res = s.res
             /\ t.sending = s.sending /\ t.rd = state /\ t.wr_close
  <2>1. /\ t.wr = s.wr /\ t.pg = s.pg /\ t.rd = state /\ t.res = s.res
        /\ t.kind = s.kind /\ t.op = s.op /\ t.left = s.left /\ t.fin = s.fin /\ t.ok = s.ok
        /\ t.wr_cont = s.wr_cont /\ t.rd_cont = s.rd_cont /\ t.sending = s.sending
        /\ t.failed = s.failed /\ t.wr_close /\ t.calls = s.calls
    BY <1>1, <1>2 DEF Teardown, IsStream, Fields
  <2> HIDE DEF t
  <2>2. Tidy(t)
    BY <1>1, <2>1 DEF Tidy, Typed, WrTidy, RdTidy, CloseAlone
  <2>3. Sends(s, t) /\ ~Alive(t)
    BY <1>1, <2>1 DEF Sends, CanSend, Alive
  <2> QED BY <2>1, <2>2, <2>3 DEF Took
<1>3. ASSUME NEW c \in BOOLEAN, ~HeaderError(s, f), f.op \in {"text", "cont"}, f.fin <=> ~c,
             t = IF c THEN [s EXCEPT !.rd_cont = TRUE]
                 ELSE [s EXCEPT !.rd_cont = FALSE, !.rd = "none"]
      PROVE  /\ Took(s, f, t) /\ t.failed = s.failed /\ t.calls = s.calls /\ t.res = s.res
             /\ t.sending = s.sending /\ t.wr_close = s.wr_close
  <2>1. /\ t.wr = s.wr /\ t.pg = s.pg /\ t.rd \in {"none", "fh"} /\ t.res = s.res
        /\ t.kind = s.kind /\ t.op = s.op /\ t.left = s.left /\ t.fin = s.fin /\ t.ok = s.ok
        /\ t.wr_cont = s.wr_cont /\ (t.rd_cont <=> c) /\ t.sending = s.sending
        /\ t.failed = s.failed /\ t.wr_close = s.wr_close /\ t.calls = s.calls
    BY <1>1, <1>3 DEF IsStream, Fields
  <2> HIDE DEF t
  <2>2. ~Over(s)
    BY DEF Over
  <2>3. Tidy(t)
    BY <1>1, <2>1, <2>2 DEF Tidy, Typed, WrTidy, RdTidy, CloseAlone
  <2>4. Sends(s, t)
    BY <1>1, <2>1 DEF Sends, CanSend, Mid
  <2>5. ReadSoFar(t) = After(ReadSoFar(s), f)
    BY <1>3, <2>1 DEF ReadSoFar, After
  <2>6. Took(s, f, t)
    BY <1>1, <1>3, <2>3, <2>4, <2>5 DEF Took
  <2> QED BY <2>1, <2>6
<1>4. CASE HeaderError(s, f) \/ ~f.ok
  <2>1. t = [Teardown(s, "fail_teardown") EXCEPT !.wr_close = TRUE]
    BY <1>4 DEF SyncReceive
  <2> HIDE DEF t
  <2> QED BY <1>2, <2>1 DEF t
<1>5. CASE ~(HeaderError(s, f) \/ ~f.ok) /\ f.op \in {"ping", "pong"}
  <2>1. t = s
    BY <1>5 DEF SyncReceive
  <2>2. Took(s, f, s)
    BY <1>1, <1>5, ControlTook DEF Goes, Sends, Reads
  <2> HIDE DEF t
  <2> QED BY <1>5, <2>1, <2>2 DEF t
<1>6. CASE ~(HeaderError(s, f) \/ ~f.ok) /\ f.op = "close"
  <2>1. t = [Teardown(s, "teardown") EXCEPT !.wr_close = TRUE]
    BY <1>6 DEF SyncReceive
  <2> HIDE DEF t
  <2> QED BY <1>2, <2>1 DEF t
<1>7. CASE ~(HeaderError(s, f) \/ ~f.ok) /\ f.op \in {"text", "cont"}
  <2> DEFINE c == ~f.fin
  <2>1. /\ c \in BOOLEAN /\ (f.fin <=> ~c)
        /\ t = IF c THEN [s EXCEPT !.rd_cont = TRUE]
               ELSE [s EXCEPT !.rd_cont = FALSE, !.rd = "none"]
    BY <1>7 DEF SyncReceive
  <2> HIDE DEF t, c
  <2> QED BY <1>3, <1>7, <2>1 DEF t
<1>8. f.op \in {"text", "cont", "ping", "pong", "close", "garbage"} /\ (f.op = "garbage" => HeaderError(s, f))
  BY DEF Frame, HeaderError
<1> QED BY <1>4, <1>5, <1>6, <1>7, <1>8

\* A synchronous read takes a frame and answers it in the same call.
LEMMA SyncReadWire ==
  ASSUME WsInv, WireInv, NEW p \in Peers, SyncReadFrame(p)
  PROVE  WireInv'
<1> DEFINE s == ws[p]
           q == Other(p)
           W == wire[p]
           f == Head(Incoming(p))
           t == SyncReceive(s, f)
           A == Answer(s, f)
<1>1. /\ Sync(p) /\ UNCHANGED blocking /\ s.rd = "fh" /\ Incoming(p) # <<>> /\ Step(p, t)
      /\ wire' = [wire EXCEPT ![q] = Tail(@), ![p] = @ \o A]
  BY DEF SyncReadFrame
<1>2. /\ Good(s) /\ IsStream(s) /\ Tidy(s) /\ Plain(s) /\ SyncTidy(p, s)
      /\ \A o \in Ops : s.sending[o] = "idle"
  BY <1>1, SyncIdle DEF WsInv, PeerInv, WireInv, Good
<1>3. q \in Peers /\ q # p /\ Other(q) = p
  BY OtherIs
<1>4. Out(W, p, s, ws[q]) /\ Out(wire[q], q, ws[q], s) /\ W \in Seq(Frame)
  BY <1>3 DEF WireInv, Out
<1>5. f \in Frame /\ f = Head(wire[q]) /\ wire[q] # <<>>
  <2>1. wire[q] \in Seq(Frame)
    BY <1>4 DEF Out
  <2> QED BY <1>1, <2>1, TailIs DEF Incoming
<1>6. wire'[p] = W \o A /\ wire'[q] = Tail(wire[q]) /\ DOMAIN wire' = Peers
  BY <1>1, <1>3 DEF WireInv
<1>7. ws'[p] = t /\ ws'[q] = ws[q]
  BY <1>1, <1>3 DEF Step, WsInv
<1> HIDE DEF s, q, W, f
<1>8. /\ Took(s, f, t) /\ t.failed = s.failed /\ t.calls = s.calls /\ t.res = s.res
      /\ t.sending = s.sending
      /\ t.rd \in {"none", "fh"} => t.wr_close = s.wr_close
      /\ HeaderError(s, f) \/ ~f.ok \/ f.op = "close" => t.wr_close
  BY <1>1, <1>2, <1>5, SyncTook
<1> HIDE DEF t
<1>9. Tidy(t) /\ Sends(s, t)
      /\ (~Alive(t) \/ (Alive(s) /\ ReadSoFar(t) = After(ReadSoFar(s), f)))
  BY <1>8 DEF Took
<1>10. SyncTidy(p, t)
  BY <1>1, <1>2, <1>8 DEF SyncTidy
<1>11. Out(Tail(wire[q]), q, ws[q], t)
  BY <1>4, <1>5, <1>9, OutTail
<1>12. Out(W \o A, p, t, ws[q])
  <2>1. CASE A = <<>>
    <3>1. W \o A = W
      BY <1>4, <2>1
    <3> QED BY <1>4, <1>9, <3>1, OutSends
  <2>2. CASE A = <<Control("pong")>>
    <3> DEFINE g == Control("pong")
    <3>1. g \in Frame /\ g.op = "pong"
      BY ControlIs
    <3>2. W \o A = Append(W, g)
      BY <1>4, <2>2, <3>1
    <3> HIDE DEF g
    <3>3. Out(Append(W, g), p, t, ws[q])
      BY <1>1, <1>2, <1>4, <1>8, <1>9, <3>1, OutControl
    <3> QED BY <3>2, <3>3
  <2>3. CASE A = <<Control("close")>> /\ ~s.wr_close /\ (HeaderError(s, f) \/ ~f.ok \/ f.op = "close")
    <3> DEFINE g == Control("close")
    <3>1. g \in Frame /\ g.op = "close"
      BY ControlIs
    <3>2. W \o A = Append(W, g)
      BY <1>4, <2>3, <3>1
    <3> HIDE DEF g
    <3>3. s.failed \/ ~CloseIn(W)
      BY <1>4, <2>3 DEF Out, Quiet
    <3>4. Out(Append(W, g), p, t, ws[q])
      BY <1>1, <1>2, <1>4, <1>8, <1>9, <2>3, <3>1, <3>3, OutControl
    <3> QED BY <3>2, <3>4
  <2> QED BY <2>1, <2>2, <2>3 DEF Answer
<1> QED BY <1>1, <1>6, <1>7, <1>9, <1>10, <1>11, <1>12, OneStep DEF q

-----------------------------------------------------------------------------
(* The theorems.                                                           *)

\* The frames on both wires go with the streams at their ends, in every state.
THEOREM WireInductive == Spec => [](WsInv /\ WireInv)
<1>1. Init => WireInv
  <2> SUFFICES ASSUME Init, NEW p \in Peers
               PROVE  /\ Tidy(ws[p])
                      /\ Sync(p) => SyncTidy(p, ws[p])
                      /\ Out(wire[p], p, ws[p], ws[Other(p)])
    BY DEF Init, WireInv
  <2>1. ws[p] = Open /\ ws[Other(p)] = Open /\ wire[p] = <<>>
    BY OtherIs DEF Init
  <2>2. Tidy(Open) /\ SyncTidy(p, Open)
    BY DEF Open, Tidy, Typed, WrTidy, RdTidy, CloseAlone, SyncTidy
  <2>3. <<>> \in Seq(Frame) /\ Len(<<>>) = 0
    OBVIOUS
  <2>4. Quiet(<<>>, Open) /\ LastWord(<<>>, Open, Sync(p))
    BY <2>3 DEF Quiet, CloseIn, LastWord
  <2>5. InStep(<<>>, Open, Open)
    <3> DEFINE c == [i \in 0..0 |-> "start"]
    <3>1. Track(<<>>, c)
      BY <2>3 DEF Track
    <3>2. c[0] = "start"
      OBVIOUS
    <3>3. ReadSoFar(Open) = "start" /\ Reached(Open) = "start"
      BY DEF Open, ReadSoFar, Reached, Mid
    <3> HIDE DEF c
    <3> QED BY <2>3, <3>1, <3>2, <3>3 DEF InStep
  <2> QED BY <2>1, <2>2, <2>3, <2>4, <2>5 DEF Out
<1>2. WsInv /\ WireInv /\ [Next]_wsvars => WireInv'
  <2> SUFFICES ASSUME WsInv, WireInv, [Next]_wsvars PROVE WireInv'
    OBVIOUS
  <2>1. CASE UNCHANGED wsvars \/ Break
    BY <2>1 DEF wsvars, Break, WireInv, Sync, Out, ForgetsContinuation
  <2>2. ASSUME NEW p \in Peers, Caller(p) PROVE WireInv'
    BY <2>2, CallWire, SyncCallWire, SyncWriteWire DEF Caller
  <2>3. ASSUME NEW p \in Peers, ReadStep(p) PROVE WireInv'
    BY <2>3, CallWire, PostedWire, ReadWire, SyncCallWire, SyncReadWire DEF ReadStep
  <2>4. ASSUME NEW p \in Peers, WriteStep(p) PROVE WireInv'
    BY <2>4, PostedWire
  <2>5. ASSUME NEW p \in Peers, NEW o \in Ops, SocketStep(p, o) PROVE WireInv'
    BY <2>5, DeliverWire, WrittenWire DEF SocketStep
  <2> QED BY <2>1, <2>2, <2>3, <2>4, <2>5 DEF Next
<1> QED BY <1>1, <1>2, WsInductive, PTL DEF Spec

\* Of a stream that has not failed nothing follows its close frame but the
\* pongs of a synchronous read.
THEOREM CloseIsLast == Spec => []NothingAfterClose
<1>1. WireInv => NothingAfterClose
  <2> SUFFICES ASSUME WireInv, NEW p \in Peers, NEW i \in 1..Len(wire[p]), NEW j \in 1..Len(wire[p]),
                      i < j, wire[p][i].op = "close"
               PROVE  ws[p].failed \/ (p \in blocking /\ wire[p][j].op = "pong")
    BY DEF NothingAfterClose
  <2>1. LastWord(wire[p], ws[p], Sync(p))
    BY DEF WireInv, Out
  <2> QED BY <2>1 DEF LastWord, Sync
<1> QED BY <1>1, WireInductive, PTL

\* No reader rejects the opcode of a frame, however messages are split and
\* whatever control frames come between their parts.
THEOREM Understood == Spec => []PeersUnderstand
<1>1. WireInv => PeersUnderstand
  <2> SUFFICES ASSUME WireInv, NEW p \in Peers, ws[p].rd = "fh", Incoming(p) # <<>>,
                      Head(Incoming(p)).op # "garbage", ~ForgetsContinuation(Other(p))
               PROVE  ~HeaderError(ws[p], Head(Incoming(p)))
    BY DEF PeersUnderstand
  <2> DEFINE q == Other(p)
             f == Head(Incoming(p))
  <2>1. q \in Peers /\ Other(q) = p
    BY OtherIs
  <2>2. InStep(wire[q], ws[q], ws[p]) /\ wire[q] \in Seq(Frame)
    BY <2>1 DEF WireInv, Out
  <2>3. Alive(ws[p])
    BY DEF Alive
  <2>4. PICK c : Track(wire[q], c) /\ c[0] = ReadSoFar(ws[p])
    BY <2>2, <2>3 DEF InStep
  <2>5. Legal(ReadSoFar(ws[p]), f)
    BY <2>2, <2>4, TrackTail DEF Incoming
  <2> QED BY <2>5 DEF Legal, ReadSoFar, HeaderError
<1> QED BY <1>1, WireInductive, PTL

-----------------------------------------------------------------------------
(* The handshake (WsHandshake).                                            *)

\* The windows the response settles.
ServerBits == Normalize(answer).smax
ClientBits == Normalize(answer).cmax

\* While a handshake runs nobody changes the options, so that offer and answer
\* are those of the current options.
Asked ==
  /\ phase # "closed" => session > 0 /\ offer = OfferOf(opts["client"])
  /\ phase \in {"answered", "open"} => answer = Negotiate(offer, opts["server"])

\* An end that is through with its part compresses when the answer says so; in
\* the first session it does only then.
Engaged ==
  /\ phase \in {"answered", "open"} /\ answer.accept => pmd["server"]
  /\ phase = "open" /\ answer.accept => pmd["client"]
  /\ session = 0 => phase = "closed"
  /\ \A r \in Roles :
       session <= 1 /\ pmd[r] =>
         /\ session = 1 /\ phase # "requested"
         /\ phase \in {"answered", "open"} => answer.accept
         /\ phase = "answered" => r = "server"

\* The windows of the two ends, and how much of them is filled.
Windows ==
  answer.accept =>
    /\ phase \in {"answered", "open"} =>
         /\ ClientBits <= zi["server"].bits
         /\ zo["server"].bits = IF sync THEN offer.smax ELSE ServerBits
    /\ phase = "answered" => zo["server"].held = 0 /\ zi["server"].held = 0
    /\ phase = "open" =>
         /\ zo["client"].bits = ClientBits
         /\ zi["client"].bits = ServerBits
         /\ zo["client"].held <= zi["server"].held
         /\ zo["server"].held <= zi["client"].held \/ AcceptsTooWide("server")

HsInv == HandshakeTypeOK /\ Asked /\ Engaged /\ Windows

-----------------------------------------------------------------------------
(* What the operators of the negotiation return.                           *)

\* An offer of a stream is an offer, and names both windows.
LEMMA OfferType ==
  ASSUME NEW o \in Options
  PROVE  /\ OfferOf(o) \in Offers
         /\ OfferOf(o).accept = o.enable
         /\ OfferOf(o).accept => OfferOf(o).smax \in Bits /\ OfferOf(o).cmax \in Bits
BY HandshakeAssumption DEF HandshakeAssumption, Options, Offers, OfferOf, Nothing, Bits

\* The response never widens the client's window.
LEMMA NegotiateType ==
  ASSUME NEW f \in Offers, NEW o \in Options
  PROVE  /\ Negotiate(f, o) \in Offers
         /\ Negotiate(f, o).accept <=> f.accept /\ o.enable
         /\ Negotiate(f, o).accept => Negotiate(f, o).cmax <= f.cmax
BY HandshakeAssumption DEF HandshakeAssumption, Options, Offers, Negotiate, Nothing, Bits, Min2

\* After normalisation both windows are given.
LEMMA NormalizeType ==
  ASSUME NEW c \in Offers
  PROVE  /\ Normalize(c) \in Offers
         /\ Normalize(c).accept = c.accept
         /\ c.accept => Normalize(c).smax \in Bits /\ Normalize(c).cmax \in Bits
         /\ c.accept /\ c.cmax # 0 => Normalize(c).cmax = c.cmax
         /\ c.accept /\ c.smax # 0 => Normalize(c).smax = c.smax
<1>1. CASE ~c.accept
  BY <1>1 DEF Normalize
<1>2. CASE c.accept
  <2>1. Normalize(c) = [accept |-> TRUE,
                        smax |-> IF c.smax = 0 THEN MaxBits ELSE c.smax,
                        cmax |-> IF c.cmax = 0 THEN MaxBits ELSE c.cmax,
                        snct |-> c.snct, cnct |-> c.cnct]
    BY <1>2 DEF Offers, Normalize
  <2> QED BY <1>2, <2>1, HandshakeAssumption DEF HandshakeAssumption, Offers, Bits
<1> QED BY <1>1, <1>2

\* What open() does to one end; the other end keeps what it has.
LEMMA Opens ==
  ASSUME HandshakeTypeOK, NEW r \in Roles, NEW c \in Offers, OpenStream(r, c)
  PROVE  /\ config' \in [Roles -> Offers] /\ pmd' \in [Roles -> BOOLEAN]
         /\ zo' \in [Roles -> [bits : Bits, held : 0..MaxBits]]
         /\ zi' \in [Roles -> [bits : Bits, held : 0..MaxBits]]
         /\ zo'[Peer(r)] = zo[Peer(r)] /\ zi'[Peer(r)] = zi[Peer(r)] /\ pmd'[Peer(r)] = pmd[Peer(r)]
         /\ opts[r].enable /\ c.accept =>
              /\ pmd'[r] /\ zo'[r].held = 0 /\ zi'[r].held = 0
              /\ zi'[r].bits = IF r = "client" THEN Normalize(c).smax ELSE Normalize(c).cmax
              /\ zo'[r].bits = IF r = "client" THEN Normalize(c).cmax ELSE Normalize(c).smax
         /\ ~(opts[r].enable /\ c.accept) => pmd' = pmd
<1> USE DEF HandshakeTypeOK, Roles, Peer
<1>1. CASE opts[r].enable /\ c.accept
  <2> DEFINE n == Normalize(c)
             i == [bits |-> IF r = "client" THEN n.smax ELSE n.cmax, held |-> 0]
             o == [bits |-> IF r = "client" THEN n.cmax ELSE n.smax, held |-> 0]
  <2>1. /\ config' = [config EXCEPT ![r] = n]
        /\ pmd' = [pmd EXCEPT ![r] = TRUE]
        /\ zi' = [zi EXCEPT ![r] = i]
        /\ zo' = [zo EXCEPT ![r] = o]
    BY <1>1 DEF OpenStream
  <2>2. n \in Offers /\ n.smax \in Bits /\ n.cmax \in Bits
    BY <1>1, NormalizeType
  <2>3. /\ i \in [bits : Bits, held : 0..MaxBits] /\ o \in [bits : Bits, held : 0..MaxBits]
        /\ i.held = 0 /\ o.held = 0
        /\ i.bits = IF r = "client" THEN n.smax ELSE n.cmax
        /\ o.bits = IF r = "client" THEN n.cmax ELSE n.smax
    BY <2>2, HandshakeAssumption DEF HandshakeAssumption
  <2> HIDE DEF n, i, o
  <2>4. zi'[r] = i /\ zo'[r] = o /\ pmd'[r]
    BY <2>1
  <2>5. /\ config' \in [Roles -> Offers] /\ pmd' \in [Roles -> BOOLEAN]
        /\ zo' \in [Roles -> [bits : Bits, held : 0..MaxBits]]
        /\ zi' \in [Roles -> [bits : Bits, held : 0..MaxBits]]
    BY <2>1, <2>2, <2>3
  <2>6. zo'[Peer(r)] = zo[Peer(r)] /\ zi'[Peer(r)] = zi[Peer(r)] /\ pmd'[Peer(r)] = pmd[Peer(r)]
    BY <2>1
  <2> QED BY <1>1, <2>3, <2>4, <2>5, <2>6 DEF n
<1>2. CASE ~(opts[r].enable /\ c.accept)
  BY <1>2 DEF OpenStream
<1> QED BY <1>1, <1>2

-----------------------------------------------------------------------------
(* The invariant is inductive.                                             *)

\* It holds at first.
LEMMA HsInitInv == HandshakeInit => HsInv
BY HandshakeAssumption DEF HandshakeAssumption, HandshakeInit, HsInv, HandshakeTypeOK, Asked,
   Engaged, Windows, Offers, Options, Nothing, NoWindow, Roles, Bits

\* The request, its refusal, the end of the connection and the options between
\* two sessions touch neither windows nor the compressors.
LEMMA BetweenInv ==
  ASSUME HsInv, Request \/ Refuse \/ End \/ \E r \in Roles : SetOption(r)
  PROVE  HsInv'
<1> USE DEF HsInv
<1>1. CASE Request
  <2>1. OfferOf(opts["client"]) \in Offers
    BY OfferType DEF HandshakeTypeOK, Roles
  <2>2. HandshakeTypeOK'
    BY <1>1, <2>1, HandshakeAssumption DEF HandshakeAssumption, Request, HandshakeTypeOK, Roles
  <2>3. Asked' /\ Engaged' /\ Windows'
    BY <1>1 DEF Request, HandshakeTypeOK, Asked, Engaged, Windows
  <2> QED BY <2>2, <2>3
<1>2. CASE Refuse
  <2>1. HandshakeTypeOK'
    BY <1>2, HandshakeAssumption DEF Refuse, HandshakeTypeOK, Offers, Nothing
  <2>2. Asked' /\ Engaged' /\ Windows'
    BY <1>2 DEF Refuse, HandshakeTypeOK, Asked, Engaged, Windows, Nothing
  <2> QED BY <2>1, <2>2
<1>3. CASE End
  <2>1. HandshakeTypeOK'
    BY <1>3, HandshakeAssumption DEF HandshakeAssumption, End, HandshakeTypeOK
  <2>2. Asked' /\ Engaged' /\ Windows'
    BY <1>3 DEF End, HandshakeTypeOK, Asked, Engaged, Windows
  <2> QED BY <2>1, <2>2
<1>4. ASSUME NEW r \in Roles, SetOption(r) PROVE HsInv'
  <2>1. PICK e \in BOOLEAN : opts' = [opts EXCEPT ![r].enable = e]
    BY <1>4 DEF SetOption
  <2>2. [opts[r] EXCEPT !.enable = e] \in Options
    <3>1. opts[r] \in Options
      BY DEF HandshakeTypeOK
    <3> HIDE DEF HsInv
    <3> QED BY <3>1 DEF Options
  <2>3. opts' \in [Roles -> Options]
    <3> DEFINE o == [opts[r] EXCEPT !.enable = e]
    <3>1. o \in Options /\ opts' = [opts EXCEPT ![r] = o]
      BY <2>1, <2>2
    <3> HIDE DEF o
    <3>2. opts \in [Roles -> Options]
      BY DEF HandshakeTypeOK
    <3> QED BY <3>1, <3>2
  <2>4. HandshakeTypeOK'
    BY <1>4, <2>3 DEF SetOption, HandshakeTypeOK
  <2>5. Asked' /\ Engaged' /\ Windows'
    BY <1>4 DEF SetOption, HandshakeTypeOK, Asked, Engaged, Windows
  <2> QED BY <2>4, <2>5
<1> QED BY <1>1, <1>2, <1>3, <1>4

\* accept() sets the server's windows up as the answer says, apart from the
\* request it opens with when it is synchronous.
LEMMA AcceptInv == ASSUME HsInv, Accept PROVE HsInv'
<1> USE DEF HsInv
<1> DEFINE c == IF sync THEN offer ELSE answer'
<1>1. /\ answer' \in Offers
      /\ answer'.accept <=> offer.accept /\ opts["server"].enable
      /\ answer'.accept => answer'.cmax <= offer.cmax
  BY NegotiateType DEF Accept, HandshakeTypeOK, Roles
<1>2. c \in Offers
  BY <1>1 DEF HandshakeTypeOK
<1>3. OpenStream("server", c)
  BY DEF Accept
<1>4. /\ config' \in [Roles -> Offers] /\ pmd' \in [Roles -> BOOLEAN]
      /\ zo' \in [Roles -> [bits : Bits, held : 0..MaxBits]]
      /\ zi' \in [Roles -> [bits : Bits, held : 0..MaxBits]]
      /\ pmd'["client"] = pmd["client"]
      /\ opts["server"].enable /\ c.accept =>
           /\ pmd'["server"] /\ zo'["server"].held = 0 /\ zi'["server"].held = 0
           /\ zi'["server"].bits = Normalize(c).cmax
           /\ zo'["server"].bits = Normalize(c).smax
      /\ ~(opts["server"].enable /\ c.accept) => pmd' = pmd
  <2> HIDE DEF c
  <2> QED BY <1>2, <1>3, Opens DEF Roles, Peer
<1>5. HandshakeTypeOK'
  BY <1>1, <1>4 DEF Accept, HandshakeTypeOK
<1>6. Asked'
  BY DEF Accept, Asked
<1>7. Engaged'
  BY <1>1, <1>4 DEF Accept, Engaged, HandshakeTypeOK, Roles
<1>8. Windows'
  <2> SUFFICES ASSUME answer'.accept
               PROVE  /\ ClientBits' <= zi'["server"].bits
                      /\ zo'["server"].bits = IF sync THEN offer.smax ELSE ServerBits'
                      /\ zo'["server"].held = 0 /\ zi'["server"].held = 0
    BY DEF Accept, Windows
  <2>1. offer.accept /\ opts["server"].enable /\ c.accept
    BY <1>1
  <2>2. offer.smax \in Bits /\ offer.cmax \in Bits
    BY <2>1, OfferType DEF Accept, Asked, HandshakeTypeOK, Roles
  <2>3. Normalize(offer).smax = offer.smax /\ Normalize(offer).cmax = offer.cmax
    BY <2>1, <2>2, NormalizeType DEF HandshakeTypeOK, Bits
  <2>4. answer'.cmax # 0
    BY <2>1, <2>2, HandshakeAssumption DEF HandshakeAssumption, Accept, Negotiate, Min2,
       HandshakeTypeOK, Options, Roles, Bits
  <2>5. Normalize(answer').cmax = answer'.cmax /\ Normalize(answer').cmax \in Bits
    BY <1>1, <2>4, NormalizeType
  <2>6. Normalize(answer').cmax <= Normalize(c).cmax
    BY <1>1, <2>2, <2>3, <2>5, HandshakeAssumption DEF HandshakeAssumption, Bits
  <2> QED BY <1>4, <2>1, <2>3, <2>6 DEF ClientBits, ServerBits
<1> QED BY <1>5, <1>6, <1>7, <1>8

\* do_response sets the client's windows up as the answer says, with nothing in
\* them: the server's are still empty.
LEMMA ConfirmInv == ASSUME HsInv, Confirm PROVE HsInv'
<1> USE DEF HsInv
<1>1. answer \in Offers /\ OpenStream("client", answer)
  BY DEF Confirm, HandshakeTypeOK
<1>2. /\ config' \in [Roles -> Offers] /\ pmd' \in [Roles -> BOOLEAN]
      /\ zo' \in [Roles -> [bits : Bits, held : 0..MaxBits]]
      /\ zi' \in [Roles -> [bits : Bits, held : 0..MaxBits]]
      /\ zo'["server"] = zo["server"] /\ zi'["server"] = zi["server"] /\ pmd'["server"] = pmd["server"]
      /\ opts["client"].enable /\ answer.accept =>
           /\ pmd'["client"] /\ zo'["client"].held = 0 /\ zi'["client"].held = 0
           /\ zi'["client"].bits = ServerBits
           /\ zo'["client"].bits = ClientBits
      /\ ~(opts["client"].enable /\ answer.accept) => pmd' = pmd
  BY <1>1, Opens DEF Roles, Peer, ServerBits, ClientBits
<1>3. HandshakeTypeOK'
  BY <1>2 DEF Confirm, HandshakeTypeOK
<1>4. Asked'
  BY DEF Confirm, Asked
<1>5. answer.accept => opts["client"].enable
  <2>1. offer = OfferOf(opts["client"]) /\ answer = Negotiate(offer, opts["server"])
    BY DEF Confirm, Asked
  <2>2. answer.accept => offer.accept
    BY <2>1, NegotiateType DEF HandshakeTypeOK, Roles
  <2>3. offer.accept = opts["client"].enable
    BY <2>1, OfferType DEF HandshakeTypeOK, Roles
  <2> QED BY <2>2, <2>3
<1>6. Engaged'
  BY <1>2, <1>5 DEF Confirm, Engaged, HandshakeTypeOK, Roles
<1>7. Windows'
  BY <1>2, <1>5 DEF Confirm, Windows, ServerBits, ClientBits, HandshakeTypeOK
<1> QED BY <1>3, <1>4, <1>6, <1>7

\* A chunk enters both windows, the compressor's no wider than the other's.
LEMMA ChunkInv == ASSUME HsInv, NEW r \in Roles, WriteChunk(r) PROVE HsInv'
<1> USE DEF HsInv
<1>1. Peer(r) \in Roles /\ Peer(r) # r
  BY DEF Roles, Peer
<1>2. /\ zo[r].held \in 0..MaxBits /\ zo[r].bits \in Bits
      /\ zi[Peer(r)].held \in 0..MaxBits /\ zi[Peer(r)].bits \in Bits
  BY <1>1 DEF HandshakeTypeOK
<1>3. /\ Min2(zo[r].held + 1, zo[r].bits) \in 0..MaxBits
      /\ Min2(zi[Peer(r)].held + 1, zi[Peer(r)].bits) \in 0..MaxBits
  BY <1>2, HandshakeAssumption DEF HandshakeAssumption, Min2, Bits
<1>4. /\ zo' = [zo EXCEPT ![r].held = Min2(zo[r].held + 1, zo[r].bits)]
      /\ zi' = [zi EXCEPT ![Peer(r)].held = Min2(zi[Peer(r)].held + 1, zi[Peer(r)].bits)]
  BY DEF WriteChunk
<1>5. /\ zo' \in [Roles -> [bits : Bits, held : 0..MaxBits]]
      /\ zi' \in [Roles -> [bits : Bits, held : 0..MaxBits]]
  BY <1>1, <1>3, <1>4 DEF HandshakeTypeOK
<1>6. /\ zo'[r].held = Min2(zo[r].held + 1, zo[r].bits)
      /\ zi'[Peer(r)].held = Min2(zi[Peer(r)].held + 1, zi[Peer(r)].bits)
      /\ zo'[Peer(r)] = zo[Peer(r)] /\ zi'[r] = zi[r]
      /\ zo'[r].bits = zo[r].bits /\ zi'[Peer(r)].bits = zi[Peer(r)].bits
  BY <1>1, <1>4 DEF HandshakeTypeOK
<1>7. sent' \in [Roles -> 0..MaxChunks]
  BY HandshakeAssumption DEF HandshakeAssumption, WriteChunk, HandshakeTypeOK
<1>8. HandshakeTypeOK' /\ Asked' /\ Engaged'
  BY <1>5, <1>7 DEF WriteChunk, HandshakeTypeOK, Asked, Engaged
<1>9. Windows'
  <2> SUFFICES ASSUME answer.accept, phase = "open" PROVE Windows'
    BY DEF WriteChunk, Windows
  <2>1. offer.smax \in Bits
    <3>1. /\ opts["client"] \in Options /\ opts["server"] \in Options
          /\ offer = OfferOf(opts["client"]) /\ answer = Negotiate(offer, opts["server"])
      BY DEF Asked, HandshakeTypeOK, Roles
    <3> HIDE DEF HsInv
    <3>2. offer \in Offers /\ offer.accept
      BY <3>1, OfferType, NegotiateType
    <3> QED BY <3>1, <3>2, OfferType
  <2>2. ServerBits \in Bits /\ ClientBits \in Bits
    BY NormalizeType DEF ServerBits, ClientBits, HandshakeTypeOK
  <2>3. AcceptsTooWide("server") <=> sync /\ ServerBits < offer.smax
    BY DEF AcceptsTooWide, ServerBits
  <2>4. \/ /\ zo[r].held <= zi[Peer(r)].held
           /\ zo[r].bits <= zi[Peer(r)].bits
        \/ AcceptsTooWide(r)
    <3>0. /\ ClientBits <= zi["server"].bits
          /\ zo["server"].bits = IF sync THEN offer.smax ELSE ServerBits
          /\ zo["client"].bits = ClientBits /\ zi["client"].bits = ServerBits
          /\ zo["client"].held <= zi["server"].held
          /\ zo["server"].held <= zi["client"].held \/ AcceptsTooWide("server")
      BY DEF Windows
    <3> USE <3>0
    <3> HIDE DEF HsInv
    <3>1. CASE r = "client"
      BY <3>1 DEF Peer
    <3>2. CASE r = "server" /\ sync
      BY <2>1, <2>2, <2>3, <3>2 DEF Peer, Bits
    <3>3. CASE r = "server" /\ ~sync
      BY <2>2, <3>3 DEF Peer, Bits
    <3>4. sync \in BOOLEAN
      BY DEF HsInv, HandshakeTypeOK
    <3> QED BY <3>1, <3>2, <3>3, <3>4 DEF Roles
  <2>5. zo'[r].held <= zi'[Peer(r)].held \/ AcceptsTooWide(r)
    BY <1>2, <1>6, <2>4 DEF Min2, Bits
  <2>6. AcceptsTooWide("server")' = AcceptsTooWide("server")
    BY DEF AcceptsTooWide, WriteChunk
  <2>7. UNCHANGED <<sync, phase, offer, answer>>
    BY DEF WriteChunk
  <2>8. CASE r = "client"
    BY <1>6, <2>5, <2>6, <2>7, <2>8 DEF Windows, ServerBits, ClientBits, Peer, AcceptsTooWide
  <2>9. CASE r = "server"
    BY <1>6, <2>5, <2>6, <2>7, <2>9 DEF Windows, ServerBits, ClientBits, Peer
  <2> QED BY <2>8, <2>9 DEF Roles
<1> QED BY <1>8, <1>9

\* At the end of a message the compressor forgets; the other end may.
LEMMA MessageInv == ASSUME HsInv, NEW r \in Roles, EndMessage(r) PROVE HsInv'
<1> USE DEF HsInv
<1>1. Peer(r) \in Roles /\ Peer(r) # r
  BY DEF Roles, Peer
<1>2. zo' = [zo EXCEPT ![r].held = 0]
  BY DEF EndMessage
<1>3. zi' = [zi EXCEPT ![Peer(r)].held = 0] \/ zi' = zi
  BY DEF EndMessage
<1>4. zo'[r].held = 0 /\ zo'[Peer(r)] = zo[Peer(r)] /\ zo'[r].bits = zo[r].bits
  BY <1>1, <1>2 DEF HandshakeTypeOK
<1>5. zi'[Peer(r)].held \in Nat /\ zi'[r] = zi[r] /\ zi'[Peer(r)].bits = zi[Peer(r)].bits
  BY <1>1, <1>3, HandshakeAssumption DEF HandshakeAssumption, HandshakeTypeOK
<1>6. /\ zo' \in [Roles -> [bits : Bits, held : 0..MaxBits]]
      /\ zi' \in [Roles -> [bits : Bits, held : 0..MaxBits]]
  <2> DEFINE W == [bits : Bits, held : 0..MaxBits]
  <2>1. \A w \in W : [w EXCEPT !.held = 0] \in W
    BY HandshakeAssumption DEF HandshakeAssumption
  <2>2. zo \in [Roles -> W] /\ zi \in [Roles -> W]
    BY DEF HandshakeTypeOK
  <2>3. zo' = [zo EXCEPT ![r] = [zo[r] EXCEPT !.held = 0]]
    BY <1>2
  <2>4. zi' = [zi EXCEPT ![Peer(r)] = [zi[Peer(r)] EXCEPT !.held = 0]] \/ zi' = zi
    BY <1>3
  <2> HIDE DEF W
  <2>5. zo' \in [Roles -> W] /\ zi' \in [Roles -> W]
    BY <1>1, <2>1, <2>2, <2>3, <2>4
  <2> QED BY <2>5 DEF W
<1>7. sent' \in [Roles -> 0..MaxChunks]
  BY HandshakeAssumption DEF HandshakeAssumption, EndMessage, HandshakeTypeOK
<1>8. HandshakeTypeOK' /\ Asked' /\ Engaged'
  BY <1>6, <1>7 DEF EndMessage, HandshakeTypeOK, Asked, Engaged
<1>9. AcceptsTooWide("server")' = AcceptsTooWide("server")
  BY DEF AcceptsTooWide, EndMessage
<1>10. Windows'
  BY <1>4, <1>5, <1>9 DEF EndMessage, Windows, ServerBits, ClientBits, Roles, Peer
<1> QED BY <1>8, <1>10

-----------------------------------------------------------------------------
(* The theorems.                                                           *)

\* What the ends know of each other's windows never stops being true.
THEOREM HsInductive == HandshakeSpec => []HsInv
<1>1. HsInv /\ [HandshakeNext]_hsvars => HsInv'
  <2> SUFFICES ASSUME HsInv, [HandshakeNext]_hsvars PROVE HsInv'
    OBVIOUS
  <2>1. CASE UNCHANGED hsvars
    BY <2>1 DEF hsvars, HsInv, HandshakeTypeOK, Asked, Engaged, Windows, ServerBits, ClientBits,
       AcceptsTooWide
  <2>2. CASE HandshakeNext
    BY <2>2, BetweenInv, AcceptInv, ConfirmInv, ChunkInv, MessageInv DEF HandshakeNext
  <2> QED BY <2>1, <2>2
<1> QED BY <1>1, HsInitInv, PTL DEF HandshakeSpec

\* After the handshake of a stream's first session the two ends agree whether
\* they compress; a later session may find pmd_ left engaged.
THEOREM Agreed == HandshakeSpec => []CompressionAgreed
<1>1. HsInv => CompressionAgreed
  <2> SUFFICES ASSUME HsInv, phase = "open", NEW r \in Roles, ~Stale(r)
               PROVE  pmd[r] <=> answer.accept
    BY DEF CompressionAgreed
  <2>1. answer.accept => pmd[r]
    BY DEF HsInv, Engaged, Roles
  <2>2. pmd[r] => answer.accept
    BY DEF HsInv, HandshakeTypeOK, Engaged, Stale
  <2>3. pmd[r] \in BOOLEAN /\ answer.accept \in BOOLEAN
    BY DEF HsInv, HandshakeTypeOK, Offers
  <2> QED BY <2>1, <2>2, <2>3
<1> QED BY <1>1, HsInductive, PTL

\* No compressor refers to a chunk the other end has dropped, unless the server
\* accepted the request synchronously with a wider window than it answered, or
\* an end's pmd_ is left from another session.
THEOREM Reach == HandshakeSpec => []DistancesReach
<1>1. HsInv => DistancesReach
  <2> SUFFICES ASSUME HsInv, phase = "open", NEW r \in Roles, pmd[r], ~Stale(r)
               PROVE  zo[r].held <= zi[Peer(r)].held \/ AcceptsTooWide(r)
    BY DEF DistancesReach
  <2>1. answer.accept
    BY DEF HsInv, HandshakeTypeOK, Engaged, Stale
  <2> QED BY <2>1 DEF HsInv, Windows, Roles, Peer
<1> QED BY <1>1, HsInductive, PTL

=============================================================================
