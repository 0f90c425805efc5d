------------------------ MODULE HttpExchange_proofs -------------------------
(***************************************************************************)
(* The exchange of HTTP messages for any messages, cut and read in any     *)
(* way.  The parser: whatever it is fed, it is in a state that write()     *)
(* goes on from, or says that the message is complete (Came); so write()   *)
(* takes every symbol of a message that is not over (WriteTakesAll).  The  *)
(* streambuf: read_size_helper and that fact leave it one element          *)
(* (HttpInductive, ParsesOneBuffer).                                       *)
(***************************************************************************)
EXTENDS HttpExchange, Buffers_proofs

-----------------------------------------------------------------------------
(* The parser.                                                             *)

\* The parts of a parser.
Members == {"request", "pause", "s", "fs", "len", "flags", "upgrade", "cb", "piece", "h_left",
          "version", "status", "ec", "returned", "m"}

\* The states of the body.
BodyStates ==
  {"body_identity0", "body_identity", "body_identity_eof0", "body_identity_eof", "chunk_size0",
   "chunk_size", "chunk_ext_name0", "chunk_ext_name", "chunk_ext_val", "chunk_size_lf",
   "chunk_data0", "chunk_data", "chunk_data_cr", "chunk_data_lf"}

\* The states a symbol is handled in, and the others.
Handles == RequestStates \cup StatusStates \cup HeaderStates \cup BodyStates
States == Handles \cup {"restart", "body_pause", "dead", "closed_complete"}

\* A parser, whatever is in it: before the body it was told to pause at, it says so.
Parser(p) ==
  /\ DOMAIN p = Members /\ p.s \in States /\ p.pause \in BOOLEAN /\ p.returned \in BOOLEAN
  /\ p.s = "body_pause" /\ p.pause => "paused" \in p.flags

\* write() goes on with it,
Going(p) == Parser(p) /\ ~p.returned

\* or returns, and then the message is complete, unless it is wrong.
Came(p) == Parser(p) /\ (p.returned /\ p.ec = "none" => complete(p))

\* A parser that goes on may also have come to its end.
LEMMA GoesCame == ASSUME NEW p, Going(p) PROVE Came(p)
BY DEF Going, Came

\* The parts a step changes without harm.
LEMMA SetGoes ==
  ASSUME NEW p, Going(p), NEW x
  PROVE  /\ Going([p EXCEPT !.fs = x]) /\ Going([p EXCEPT !.len = x])
         /\ Going([p EXCEPT !.flags = @ \cup x]) /\ Going([p EXCEPT !.upgrade = x])
         /\ Going([p EXCEPT !.cb = x]) /\ Going([p EXCEPT !.piece = x])
         /\ Going([p EXCEPT !.h_left = x]) /\ Going([p EXCEPT !.version = x])
         /\ Going([p EXCEPT !.status = x]) /\ Going([p EXCEPT !.ec = x])
         /\ Going([p EXCEPT !.m = x])
         /\ x \in States \ {"body_pause"} => Going([p EXCEPT !.s = x])
BY DEF Going, Parser, Members

\* With an error in ec it is write() that stops, and not the parser.
LEMMA FailGoes == ASSUME NEW p, Going(p), NEW e PROVE Going(Fail(p, e)) /\ Fail(p, e).ec = e
BY DEF Going, Parser, Members, Fail, States

\* The next state is not the one before a body: only MaybePause goes there.
LEMMA ToGoes ==
  ASSUME NEW p, Going(p), NEW s \in States \ {"body_pause"} PROVE Going(To(p, s))
BY SetGoes DEF To

\* A callback has the length of a token, or an error, for its result.
LEMMA CallGoes == ASSUME NEW p, Going(p), NEW cb, NEW piece PROVE Going(Call(p, cb, piece))
<1> DEFINE l == IF cb = "body" \/ HMax = 0 THEN p.h_left ELSE p.h_left - Len(piece)
           c == Called(p.m, cb, piece)
<1>1. CASE cb # "body" /\ HMax > 0 /\ Len(piece) > p.h_left
  BY <1>1, FailGoes DEF Call
<1>2. CASE ~(cb # "body" /\ HMax > 0 /\ Len(piece) > p.h_left)
  <2>1. Call(p, cb, piece) = [p EXCEPT !.m = c, !.h_left = l]
    BY <1>2, Zenon DEF Call
  <2> HIDE DEF c, l
  <2>2. Going([p EXCEPT !.m = c, !.h_left = l])
    BY DEF Going, Parser, Members
  <2> QED BY <2>1, <2>2
<1> QED BY <1>1, <1>2

\* The callback that collects is changed behind the call of the one before.
LEMMA CbGoes == ASSUME NEW p, Going(p), NEW next PROVE Going(Cb(p, next)) /\ Going(SetCb(p, next))
<1>1. ASSUME NEW q, Going(q) PROVE Going(SetCb(q, next))
  <2> DEFINE r == [q EXCEPT !.cb = next]
  <2>1. Going(r)
    BY <1>1, SetGoes
  <2>2. [q EXCEPT !.cb = next, !.piece = <<>>] = [r EXCEPT !.piece = <<>>]
    BY <1>1 DEF Going, Parser, Members
  <2> HIDE DEF r
  <2>3. Going([r EXCEPT !.piece = <<>>])
    BY <2>1, SetGoes
  <2> QED BY <1>1, <2>2, <2>3 DEF SetCb
<1>2. Going(Call(p, p.cb, p.piece))
  BY CallGoes
<1> QED BY <1>1, <1>2 DEF Cb

\* A symbol is added to the piece.
LEMMA CollectGoes == ASSUME NEW p, Going(p), NEW ch PROVE Going(Collect(p, ch))
BY SetGoes DEF Collect

\* One symbol is wanted, and another is an error.
LEMMA ExpectGoes ==
  ASSUME NEW p, Going(p), NEW ch, NEW want, NEW s \in States \ {"body_pause"}, NEW ev
  PROVE  Going(Expect(p, ch, want, s, ev))
BY SetGoes, FailGoes DEF Expect

\* call_on_complete: write() returns and the message is complete, unless it failed.
LEMMA CompletedCame == ASSUME NEW p, Going(p) PROVE Came(Completed(p))
<1>1. CASE p.ec # "none"
  BY <1>1, GoesCame DEF Completed
<1>2. CASE p.ec = "none"
  BY <1>2 DEF Completed, Came, Going, Parser, Members, States, complete
<1> QED BY <1>1, <1>2

\* So does the end of a message.
LEMMA CompleteCame == ASSUME NEW p, Going(p) PROVE Came(Complete(p))
BY CbGoes, CompletedCame DEF Complete

\* Behind the header the message is over, or the body begins.
LEMMA HeadersDoneCame ==
  ASSUME NEW p, Going(p)
  PROVE  /\ Came(HeadersDone(p))
         /\ LET q == HeadersDone(p) IN ~q.returned => q.ec # "none" \/ q.s \in BodyStates
<1> DEFINE q == HeadersDone(p)
<1>1. q \in {Complete(p), To(p, "chunk_size0"), To(p, "body_identity0"), To(p, "body_identity_eof0")}
  BY Zenon DEF HeadersDone
<1>2. Came(Complete(p)) /\ (~Complete(p).returned => Complete(p).ec # "none")
  <2>1. Going(Cb(p, "none"))
    BY CbGoes
  <2>2. Complete(p).ec = "none" => Complete(p).returned
    BY <2>1 DEF Complete, Completed, Going, Parser, Members
  <2> QED BY <2>2, CompleteCame
<1>3. ASSUME NEW s \in BodyStates
      PROVE Came(To(p, s)) /\ (To(p, s).ec # "none" \/ To(p, s).s \in BodyStates)
  <2>1. s \in States \ {"body_pause"}
    BY <1>3 DEF BodyStates, States, Handles
  <2>2. To(p, s).ec # "none" \/ To(p, s).s = s
    BY DEF To, Going, Parser, Members
  <2> QED BY <2>1, <2>2, ToGoes, GoesCame
<1>4. {"chunk_size0", "body_identity0", "body_identity_eof0"} \subseteq BodyStates
  BY DEF BodyStates
<1> QED BY <1>1, <1>2, <1>3, <1>4

\* A parser that was told to pause returns before the body with the header complete.
LEMMA MaybePauseCame == ASSUME NEW p, Going(p) PROVE Came(MaybePause(p))
<1>1. CASE p.pause
  BY <1>1 DEF MaybePause, Came, Going, Parser, Members, States, complete
<1>2. CASE ~p.pause
  BY <1>2, HeadersDoneCame DEF MaybePause
<1> QED BY <1>1, <1>2

\* The empty line behind the header.
LEMMA HeadersAlmostDoneCame == ASSUME NEW p, Going(p) PROVE Came(HeadersAlmostDone(p))
<1> DEFINE u == {"upgrade", "connection_upgrade"} \subseteq p.flags
           m == Flush([p.m EXCEPT !.version = p.version])
           q == [p EXCEPT !.upgrade = u, !.m = m]
<1>1. HeadersAlmostDone(p) \in {Complete(p), Fail(p, "illegal_content_length"), MaybePause(q)}
  BY Zenon DEF HeadersAlmostDone
<1>2. Going(q)
  <2> HIDE DEF u, m
  <2> QED BY DEF Going, Parser, Members
<1> HIDE DEF q
<1> QED BY <1>1, <1>2, CompleteCame, FailGoes, GoesCame, MaybePauseCame

-----------------------------------------------------------------------------
(* The header.                                                             *)

\* Behind a token of Connection.
LEMMA AfterGoes ==
  ASSUME NEW p, Going(p), NEW ch, NEW ows, NEW flag
  PROVE  Going(AfterToken(p, ch, ows, flag)) /\ Going(AfterOws(p, ch, flag))
<1> DEFINE q == [p EXCEPT !.fs = "connection", !.flags = @ \cup flag]
<1>1. Going(q)
  BY DEF Going, Parser, Members
<1>2. Going([p EXCEPT !.fs = ows]) /\ Going([p EXCEPT !.fs = "connection_token"]) /\ Going(Fail(p, "bad_value"))
  BY SetGoes, FailGoes
<1> HIDE DEF q
<1>3. AfterToken(p, ch, ows, flag) \in
        {q, [p EXCEPT !.fs = ows], [p EXCEPT !.fs = "connection_token"], Fail(p, "bad_value")}
  BY Zenon DEF AfterToken, q
<1>4. AfterOws(p, ch, flag) \in {q, p, Fail(p, "bad_value")}
  BY Zenon DEF AfterOws, q
<1> QED BY <1>1, <1>2, <1>3, <1>4

\* A word that is compared symbol by symbol.
LEMMA MatchGoes ==
  ASSUME NEW p, Going(p), NEW ch, NEW rest, NEW hit, NEW miss
  PROVE  Going(Match(p, ch, rest, hit, miss))
BY SetGoes DEF Match

\* The value of Connection,
LEMMA ConnectionFieldGoes ==
  ASSUME NEW p, Going(p), NEW ch, p.fs \in ConnectionStates
  PROVE  Going(ConnectionField(p, ch))
<1> USE SetGoes, FailGoes, AfterGoes, MatchGoes
<1>1. CASE p.fs = "connection"
  BY <1>1 DEF ConnectionField
<1>2. CASE p.fs \in {"m_keep_alive", "m_close", "m_con_upgrade"}
  BY <1>2 DEF ConnectionField
<1>3. CASE p.fs \in {"keep_alive", "close", "con_upgrade", "connection_token"}
  BY <1>3 DEF ConnectionField
<1>4. CASE p.fs \in {"keep_alive_ows", "close_ows", "con_upgrade_ows", "connection_token_ows"}
  BY <1>4 DEF ConnectionField
<1> QED BY <1>1, <1>2, <1>3, <1>4 DEF ConnectionStates

\* of Content-Length, Transfer-Encoding and Upgrade,
LEMMA FramingFieldGoes == ASSUME NEW p, Going(p), NEW ch PROVE Going(FramingField(p, ch))
BY SetGoes, FailGoes, MatchGoes DEF FramingField

\* and of any field.
LEMMA FieldValueGoes == ASSUME NEW p, Going(p), NEW ch PROVE Going(FieldValue(p, ch))
BY ConnectionFieldGoes, FramingFieldGoes DEF FieldValue

\* The steps most states take: on to a state, with a callback or a symbol.
LEMMA Onward ==
  ASSUME NEW p, Going(p), NEW s \in States \ {"body_pause"}, NEW next, NEW ch
  PROVE  /\ Going(To(Cb(p, next), s)) /\ Going(Collect(To(Cb(p, next), s), ch))
         /\ Going([p EXCEPT !.s = s]) /\ Going(Collect(p, ch))
<1>1. Going(Cb(p, next))
  BY CbGoes
<1>2. Going(To(Cb(p, next), s))
  BY <1>1, ToGoes
<1> QED BY <1>2, SetGoes, CollectGoes

\* No symbol is handled in body_pause.
LEMMA StatesAre == Handles \subseteq States \ {"body_pause"}
BY DEF Handles, States, RequestStates, StatusStates, HeaderStates, BodyStates

\* The request line goes on or is wrong.
LEMMA RequestLineGoes ==
  ASSUME NEW p, Going(p), NEW ch, p.s \in RequestStates
  PROVE  Going(RequestLine(p, ch))
<1>1. {"req_method", "req_url0", "req_url", "req_http", "req_cr", "req_lf", "header_name0"} \subseteq States \ {"body_pause"}
  BY StatesAre DEF Handles, RequestStates, HeaderStates
<1>2. CASE p.s = "req_start"
  <2> DEFINE q == [p EXCEPT !.flags = {}, !.len = NoLength]
             r == [q EXCEPT !.cb = "none"]
  <2>1. Going(q)
    BY <1>2 DEF Going, Parser, Members
  <2> HIDE DEF q
  <2>2. Going(r)
    BY <2>1, SetGoes
  <2> HIDE DEF r
  <2>3. RequestLine(p, ch) \in {Fail(q, "bad_method"), Collect(To(Cb(r, "text"), "req_method"), ch)}
    BY <1>2, Zenon DEF RequestLine, q, r
  <2>4. Going(Collect(To(Cb(r, "text"), "req_method"), ch))
    BY <1>1, <2>2, Onward
  <2> QED BY <2>1, <2>3, <2>4, FailGoes
<1> USE <1>1, FailGoes, Onward, ExpectGoes
<1>3. CASE p.s = "req_method"
  BY <1>3 DEF RequestLine
<1>4. CASE p.s = "req_url0"
  BY <1>4 DEF RequestLine
<1>5. CASE p.s = "req_url"
  BY <1>5 DEF RequestLine
<1>6. CASE p.s = "req_http"
  <2> DEFINE q == [p EXCEPT !.version = ch, !.s = "req_cr"]
  <2>1. Going(q)
    BY DEF Going, Parser, Members
  <2> HIDE DEF q
  <2>2. RequestLine(p, ch) \in {q, Fail(p, "bad_version")}
    BY <1>6, Zenon DEF RequestLine, q
  <2> QED BY <2>1, <2>2
<1>7. CASE p.s = "req_cr"
  BY <1>7 DEF RequestLine
<1>8. CASE p.s = "req_lf"
  BY <1>8 DEF RequestLine
<1> QED BY <1>2, <1>3, <1>4, <1>5, <1>6, <1>7, <1>8 DEF RequestStates

\* The status line goes on or is wrong.
LEMMA StatusLineGoes ==
  ASSUME NEW p, Going(p), NEW ch, p.s \in StatusStates
  PROVE  Going(StatusLine(p, ch))
<1>1. {"res_status", "res_reason0", "res_reason", "res_line_lf", "res_line_done"} \subseteq States \ {"body_pause"}
  BY StatesAre DEF Handles, StatusStates, HeaderStates
<1>2. CASE p.s = "res_start"
  <2> DEFINE q == [p EXCEPT !.flags = {}, !.len = NoLength, !.cb = "none",
                            !.version = ch, !.s = "res_status"]
  <2>1. Going(q)
    BY <1>1, <1>2 DEF Going, Parser, Members
  <2> HIDE DEF q
  <2>2. StatusLine(p, ch) \in {q, Fail(p, "bad_version")}
    BY <1>2, Zenon DEF StatusLine, q
  <2> QED BY <2>1, <2>2, FailGoes
<1>3. CASE p.s = "res_status"
  <2> DEFINE q == [p EXCEPT !.status = ch, !.s = "res_reason0"]
  <2>1. Going(q)
    BY <1>1 DEF Going, Parser, Members
  <2> HIDE DEF q
  <2>2. StatusLine(p, ch) \in {q, Fail(p, "bad_status")}
    BY <1>3, Zenon DEF StatusLine, q
  <2> QED BY <2>1, <2>2, FailGoes
<1> USE <1>1, FailGoes, Onward, ExpectGoes
<1>4. CASE p.s = "res_reason0"
  BY <1>4 DEF StatusLine
<1>5. CASE p.s = "res_reason"
  BY <1>5 DEF StatusLine
<1>6. CASE p.s = "res_line_lf"
  BY <1>6 DEF StatusLine
<1> QED BY <1>2, <1>3, <1>4, <1>5, <1>6 DEF StatusStates

\* The first symbol of the name of a field.
LEMMA HeaderName0Goes == ASSUME NEW p, Going(p), NEW ch PROVE Going(HeaderName0(p, ch))
<1> DEFINE q == [p EXCEPT !.fs = NameStart(ch)]
<1>1. {"headers_almost_done", "header_name"} \subseteq States \ {"body_pause"}
  BY StatesAre DEF Handles, HeaderStates
<1>2. Going(q)
  BY SetGoes
<1> HIDE DEF q
<1>3. HeaderName0(p, ch) \in {[p EXCEPT !.s = "headers_almost_done"], Fail(p, "bad_field"),
                              Collect(To(Cb(q, "field"), "header_name"), ch)}
  BY Zenon DEF HeaderName0, q
<1>4. Going([p EXCEPT !.s = "headers_almost_done"])
  BY <1>1, Onward
<1>5. Going(Collect(To(Cb(q, "field"), "header_name"), ch))
  BY <1>1, <1>2, Onward
<1> QED BY <1>3, <1>4, <1>5, FailGoes

\* A symbol of its value.
LEMMA HeaderValueGoes == ASSUME NEW p, Going(p), NEW ch PROVE Going(HeaderValue(p, ch))
<1>1. "header_value_lf" \in States \ {"body_pause"}
  BY StatesAre DEF Handles, HeaderStates
<1>2. Going(FieldValue(p, ch))
  BY FieldValueGoes
<1> QED BY <1>1, <1>2, FailGoes, Onward DEF HeaderValue

\* The first symbol of its value.
LEMMA HeaderValue0Goes == ASSUME NEW p, Going(p), NEW ch PROVE Going(HeaderValue0(p, ch))
<1> DEFINE q == IF p.fs = "content_length0"
                  THEN [p EXCEPT !.len = 0, !.flags = @ \cup {"contentlength"}] ELSE p
           r == To(Cb(q, "value"), "header_value")
<1>1. {"header_value", "header_value0_lf"} \subseteq States \ {"body_pause"}
  BY StatesAre DEF Handles, HeaderStates
<1>2. Going(q)
  BY DEF Going, Parser, Members
<1> HIDE DEF q
<1>3. Going(HeaderValue(r, ch))
  BY <1>1, <1>2, Onward, HeaderValueGoes
<1>4. HeaderValue0(p, ch) \in {p, [p EXCEPT !.s = "header_value0_lf"], HeaderValue(r, ch)}
  BY Zenon DEF HeaderValue0, q
<1> HIDE DEF r
<1> QED BY <1>1, <1>3, <1>4, Onward

\* A symbol of the header.
LEMMA HeaderCame ==
  ASSUME NEW p, Going(p), NEW ch, p.s \in HeaderStates
  PROVE  Came(Header(p, ch))
<1>1. HeaderStates \subseteq States \ {"body_pause"}
  BY StatesAre DEF Handles
<1>2. CASE p.s = "res_line_done"
  <2> DEFINE q == [p EXCEPT !.m.status = p.status]
  <2>1. Going(q)
    BY DEF Going, Parser, Members
  <2> HIDE DEF q
  <2>2. Header(p, ch) = HeaderName0(q, ch)
    BY <1>2, Zenon DEF Header, q
  <2> QED BY <2>1, <2>2, HeaderName0Goes, GoesCame
<1>3. CASE p.s = "header_name0"
  BY <1>3, HeaderName0Goes, GoesCame DEF Header
<1>4. CASE p.s = "header_name"
  <2> DEFINE fs == NameNext(p.fs, ch)
             q == [p EXCEPT !.fs = fs]
  <2>1. Going(q)
    BY SetGoes
  <2> HIDE DEF q
  <2>2. Header(p, ch) \in {To(Cb(p, "none"), "header_value0"), Fail(p, "bad_field"),
                           Fail(p, "bad_content_length"), Collect(q, ch)}
    BY <1>4, Zenon DEF Header, q
  <2>3. "header_value0" \in HeaderStates
    BY DEF HeaderStates
  <2> QED BY <1>1, <2>1, <2>2, <2>3, FailGoes, Onward, CollectGoes, GoesCame
<1>5. CASE p.s = "header_value0"
  BY <1>5, HeaderValue0Goes, GoesCame DEF Header
<1>6. CASE p.s = "header_value"
  BY <1>6, HeaderValueGoes, GoesCame DEF Header
<1>7. CASE p.s \in {"header_value0_lf", "header_value_lf"}
  <2>1. {"header_value0_almost_done", "header_value_almost_done"} \subseteq HeaderStates
    BY DEF HeaderStates
  <2> QED BY <1>1, <1>7, <2>1, ExpectGoes, GoesCame DEF Header
<1>8. CASE p.s = "header_value0_almost_done"
  <2> DEFINE q == IF p.fs = "upgrade" THEN [p EXCEPT !.flags = @ \cup {"upgrade"}] ELSE p
             r == Call(q, "value", <<>>)
  <2>1. Going(q)
    BY SetGoes
  <2> HIDE DEF q
  <2>2. Going(HeaderName0(r, ch))
    BY <2>1, CallGoes, HeaderName0Goes
  <2>3. Header(p, ch) \in {[p EXCEPT !.s = "header_value0"], Fail(p, "bad_content_length"),
                           HeaderName0(r, ch)}
    BY <1>8, Zenon DEF Header, q
  <2>4. "header_value0" \in HeaderStates
    BY DEF HeaderStates
  <2> HIDE DEF r
  <2> QED BY <1>1, <2>2, <2>3, <2>4, FailGoes, SetGoes, GoesCame
<1>9. CASE p.s = "header_value_almost_done"
  <2> DEFINE q == [p EXCEPT !.fs = Unfolded(p.fs), !.s = "header_value_unfold"]
             r == [p EXCEPT !.flags = @ \cup ValueFlags(p.fs)]
  <2>1. Going(q) /\ Going(r)
    <3>1. "header_value_unfold" \in States \ {"body_pause"}
      BY <1>1 DEF HeaderStates
    <3> QED BY <3>1 DEF Going, Parser, Members
  <2> HIDE DEF q, r
  <2>2. Header(p, ch) \in {Call(q, "value", <<"SP">>), HeaderName0(r, ch)}
    BY <1>9, Zenon DEF Header, q, r
  <2> QED BY <2>1, <2>2, CallGoes, HeaderName0Goes, GoesCame
<1>10. CASE p.s = "header_value_unfold"
  <2> DEFINE q == To(Cb(p, "value"), "header_value")
  <2>1. Going(q)
    <3>1. "header_value" \in HeaderStates
      BY DEF HeaderStates
    <3> QED BY <1>1, <3>1, Onward
  <2> HIDE DEF q
  <2>2. Header(p, ch) = HeaderValue(q, ch)
    BY <1>10, Zenon DEF Header, q
  <2> QED BY <2>1, <2>2, HeaderValueGoes, GoesCame
<1>11. CASE p.s = "headers_almost_done"
  BY <1>11, HeadersAlmostDoneCame, FailGoes, GoesCame DEF Header
<1> QED BY <1>2, <1>3, <1>4, <1>5, <1>6, <1>7, <1>8, <1>9, <1>10, <1>11 DEF HeaderStates

-----------------------------------------------------------------------------
(* The body.                                                               *)

\* Body of known length: the last symbol completes the message.
LEMMA TakeCame ==
  ASSUME NEW p, Going(p), NEW ch, NEW last \in (States \ {"body_pause"}) \cup {"complete"}
  PROVE  Came(Take(p, ch, last))
<1> DEFINE q == [p EXCEPT !.len = @ - 1]
           r == Collect(q, ch)
<1>1. Going(r)
  BY SetGoes, CollectGoes
<1>2. Take(p, ch, last) \in {r, Complete(r), To(r, last)} /\ (last = "complete" => Take(p, ch, last) \in {r, Complete(r)})
  BY Zenon DEF Take, Taken
<1> HIDE DEF r
<1> QED BY <1>1, <1>2, CompleteCame, ToGoes, GoesCame

\* A symbol of the body, or of a chunk.
LEMMA BodyCame ==
  ASSUME NEW p, Going(p), NEW ch, p.s \in BodyStates
  PROVE  Came(Body(p, ch))
<1>1. BodyStates \subseteq States \ {"body_pause"} /\ "header_name0" \in States \ {"body_pause"}
  BY StatesAre DEF Handles, HeaderStates
<1> USE <1>1, FailGoes, Onward, GoesCame, ExpectGoes
<1>2. CASE p.s \in {"body_identity0", "body_identity"}
  <2>1. "body_identity" \in BodyStates
    BY DEF BodyStates
  <2> QED BY <1>2, <2>1, TakeCame DEF Body
<1>3. CASE p.s \in {"body_identity_eof0", "body_identity_eof"}
  <2>1. "body_identity_eof" \in BodyStates
    BY DEF BodyStates
  <2> QED BY <1>3, <2>1 DEF Body
<1>4. CASE p.s = "chunk_size0"
  <2> DEFINE q == [p EXCEPT !.len = Val(ch), !.s = "chunk_size"]
  <2>1. Going(q)
    <3>1. "chunk_size" \in States \ {"body_pause"}
      BY DEF BodyStates
    <3> QED BY <3>1 DEF Going, Parser, Members
  <2> HIDE DEF q
  <2>2. Body(p, ch) \in {Fail(p, "invalid_chunk_size"), q}
    BY <1>4, Zenon DEF Body, q
  <2> QED BY <2>1, <2>2
<1>5. CASE p.s = "chunk_size"
  <2> DEFINE q == [p EXCEPT !.len = @ * 16 + Val(ch)]
  <2>1. Going(q)
    BY SetGoes
  <2> HIDE DEF q
  <2>2. Body(p, ch) \in {[p EXCEPT !.s = "chunk_size_lf"], [p EXCEPT !.s = "chunk_ext_name0"],
                         Fail(p, "invalid_chunk_size"), Fail(p, "bad_content_length"), q}
    BY <1>5, Zenon DEF Body, q
  <2>3. {"chunk_size_lf", "chunk_ext_name0"} \subseteq BodyStates
    BY DEF BodyStates
  <2> QED BY <2>1, <2>2, <2>3
<1>6. CASE p.s \in {"chunk_ext_name0", "chunk_ext_name", "chunk_ext_val"}
  <2>1. {"chunk_ext_name0", "chunk_ext_name", "chunk_ext_val", "chunk_size_lf"} \subseteq BodyStates
    BY DEF BodyStates
  <2> QED BY <1>6, <2>1 DEF Body
<1>7. CASE p.s = "chunk_size_lf"
  <2> DEFINE q == [p EXCEPT !.flags = @ \cup {"trailing"}, !.s = "header_name0"]
  <2>1. Going(q)
    BY DEF Going, Parser, Members
  <2> HIDE DEF q
  <2>2. Body(p, ch) \in {Fail(p, "bad_crlf"), q, [p EXCEPT !.s = "chunk_data0"]}
    BY <1>7, Zenon DEF Body, q
  <2>3. "chunk_data0" \in BodyStates
    BY DEF BodyStates
  <2> QED BY <2>1, <2>2, <2>3
<1>8. CASE p.s \in {"chunk_data0", "chunk_data"}
  <2>1. {"chunk_data", "chunk_data_cr"} \subseteq BodyStates
    BY DEF BodyStates
  <2> QED BY <1>8, <2>1, TakeCame DEF Body
<1>9. CASE p.s \in {"chunk_data_cr", "chunk_data_lf"}
  <2>1. {"chunk_data_lf", "chunk_size0"} \subseteq BodyStates
    BY DEF BodyStates
  <2> QED BY <1>9, <2>1 DEF Body
<1> QED BY <1>2, <1>3, <1>4, <1>5, <1>6, <1>7, <1>8, <1>9 DEF BodyStates

\* A symbol in any state the parser handles one in.
LEMMA EatInCame ==
  ASSUME NEW p, Going(p), NEW ch, p.ec # "none" \/ p.s \in Handles
  PROVE  Came(EatIn(p, ch))
BY GoesCame, RequestLineGoes, StatusLineGoes, HeaderCame, BodyCame DEF EatIn, Handles

\* What write() does first with a parser that was complete or paused.
LEMMA ReadyGoes ==
  ASSUME NEW p, Going(p), p.ec = "none", ~Leaves(p), p.s \notin {"dead", "closed_complete"}
  PROVE  Going(Ready(p)) /\ (Ready(p).ec # "none" \/ Ready(p).s \in Handles)
<1>1. CASE p.s = "restart"
  <2>1. Ready(p) = Reset(p)
    BY <1>1 DEF Ready
  <2>2. Going(Reset(p)) /\ Reset(p).s \in {"req_start", "res_start"}
    <3> DEFINE s == IF p.request THEN "req_start" ELSE "res_start"
    <3>1. s \in {"req_start", "res_start"} /\ s \in States
      BY DEF States, Handles, RequestStates, StatusStates
    <3>2. Reset(p) = [p EXCEPT !.s = s, !.cb = "none", !.piece = <<>>, !.h_left = HMax]
      BY DEF Reset
    <3> HIDE DEF s
    <3> QED BY <3>1, <3>2 DEF Going, Parser, Members
  <2> QED BY <2>1, <2>2 DEF Handles, RequestStates, StatusStates
<1>2. CASE p.s = "body_pause"
  <2> DEFINE q == HeadersDone(p)
  <2>1. Ready(p) = q
    BY <1>2 DEF Ready
  <2>2. Came(q) /\ (~q.returned => q.ec # "none" \/ q.s \in BodyStates)
    BY HeadersDoneCame
  <2>3. ~q.returned
    BY <1>2 DEF Leaves
  <2> HIDE DEF q
  <2> QED BY <2>1, <2>2, <2>3 DEF Came, Going, Handles
<1>3. CASE p.s \in Handles
  <2>1. p.s \notin {"restart", "body_pause"}
    BY <1>3 DEF Handles, RequestStates, StatusStates, HeaderStates, BodyStates
  <2> QED BY <1>3, <2>1 DEF Ready
<1> QED BY <1>1, <1>2, <1>3 DEF Going, Parser, States

\* One symbol: it is handled, or the message was over before it.
LEMMA EatCame ==
  ASSUME NEW p, Going(p), p.ec = "none", NEW ch
  PROVE  Came(Eat(p, ch)) /\ (Leaves(p) => Over(Eat(p, ch)))
<1>1. CASE p.s \in {"dead", "closed_complete"} \/ (p.s = "restart" /\ ~keep_alive(p))
  <2>1. Eat(p, ch) = Fail(p, "connection_closed")
    BY <1>1 DEF Eat, Leaves
  <2>2. Fail(p, "connection_closed").ec = "connection_closed"
    BY FailGoes
  <2> QED BY <2>1, <2>2, FailGoes, GoesCame DEF Over
<1>2. CASE ~(p.s \in {"dead", "closed_complete"} \/ (p.s = "restart" /\ ~keep_alive(p))) /\ Leaves(p)
  <2>1. p.s = "body_pause" /\ Eat(p, ch) = IF p.pause THEN [p EXCEPT !.returned = TRUE] ELSE HeadersDone(p)
    BY <1>2, Zenon DEF Eat, Leaves
  <2>2. CASE p.pause
    <3> DEFINE q == [p EXCEPT !.returned = TRUE]
    <3>1. Came(q) /\ q.returned
      BY <2>1, <2>2 DEF Came, Going, Parser, Members, complete
    <3> QED BY <2>1, <2>2, <3>1 DEF Over
  <2>3. CASE ~p.pause
    <3>1. Eat(p, ch) = HeadersDone(p) /\ HeadersDone(p).returned
      BY <1>2, <2>1, <2>3 DEF Leaves
    <3> QED BY <3>1, HeadersDoneCame DEF Over
  <2> QED BY <2>2, <2>3
<1>3. CASE ~(p.s \in {"dead", "closed_complete"} \/ (p.s = "restart" /\ ~keep_alive(p))) /\ ~Leaves(p)
  <2>1. Eat(p, ch) = EatIn(Ready(p), ch)
    BY <1>3, Zenon DEF Eat
  <2>2. Going(Ready(p)) /\ (Ready(p).ec # "none" \/ Ready(p).s \in Handles)
    BY <1>3, ReadyGoes
  <2> QED BY <1>3, <2>1, <2>2, EatInCame
<1> QED BY <1>1, <1>2, <1>3

-----------------------------------------------------------------------------
(* write(const_buffer).                                                    *)

\* The greatest of a finite set of places is one of them.
LEMMA MaxIn ==
  ASSUME NEW n \in Nat, NEW s \in SUBSET (1..n), s # {}
  PROVE  Max(s) \in s
<1> DEFINE T == {n - x : x \in s}
<1>1. T \in SUBSET Nat /\ T # {}
  <2>1. ASSUME NEW x \in s PROVE n - x \in Nat
    <3>1. x \in 1..n
      OBVIOUS
    <3> QED BY <3>1
  <2>2. \E x : x \in s
    OBVIOUS
  <2> QED BY <2>1, <2>2
<1>2. PICK d \in T : \A m \in T : d <= m
  BY <1>1, LeastNat
<1>3. PICK x \in s : d = n - x
  BY <1>2
<1>4. \A y \in s : x >= y
  <2> TAKE y \in s
  <2>1. n - x <= n - y
    BY <1>2, <1>3
  <2> QED BY <2>1
<1> QED BY <1>3, <1>4 DEF Max

\* The parser and what it took, before a buffer and behind one more symbol.
Begun(p) == [p |-> [p EXCEPT !.returned = FALSE], used |-> 0]

\* One step of its loop over the symbols.
Further(r, ch) == IF Over(r.p) THEN r ELSE Fed(r, Eat(r.p, ch))

\* The recursion of the fold over the symbols at the places S.
Eats(p, buf, S, g) ==
  g = [s \in SUBSET S |-> IF s = {} THEN Begun(p) ELSE Further(g[s \ {Max(s)}], buf[Max(s)])]

\* Some function satisfies it.
LEMMA EatsExist == ASSUME NEW p, NEW buf, NEW n \in Nat PROVE \E g : Eats(p, buf, 1..n, g)
<1> DEFINE S == {m \in Nat : \E g : Eats(p, buf, 1..m, g)}
<1>1. 0 \in S
  <2>1. Eats(p, buf, 1..0, [s \in SUBSET (1..0) |-> Begun(p)])
    BY DEF Eats
  <2> QED BY <2>1
<1>2. ASSUME NEW m \in Nat, m \in S PROVE m + 1 \in S
  <2>1. PICK g : Eats(p, buf, 1..m, g)
    BY <1>2
  <2> DEFINE v(s) == Further(g[s \ {m + 1}], buf[m + 1])
             h == [s \in SUBSET (1..(m+1)) |-> IF m + 1 \in s THEN v(s) ELSE g[s]]
  <2>2. ASSUME NEW s \in SUBSET (1..(m+1))
        PROVE h[s] = IF s = {} THEN Begun(p) ELSE Further(h[s \ {Max(s)}], buf[Max(s)])
    <3>0. m + 1 \in Nat /\ m \in Nat /\ s \in SUBSET (1..(m+1))
      BY <1>2
    <3>1. CASE m + 1 \in s
      <4>1. Max(s) = m + 1
        <5>1. Max(s) \in s /\ \A y \in s : Max(s) >= y
          <6>1. Max(s) \in s
            BY <3>0, <3>1, MaxIn
          <6>2. \E x \in s : \A y \in s : x >= y
            <7>1. \A y \in s : m + 1 >= y
              BY <3>0
            <7> QED BY <3>1, <7>1
          <6> QED BY <6>1, <6>2 DEF Max
        <5>2. Max(s) \in 1..(m+1) /\ Max(s) >= m + 1
          BY <3>0, <3>1, <5>1
        <5> QED BY <3>0, <5>2
      <4>2. s \ {m + 1} \in SUBSET (1..(m+1)) /\ m + 1 \notin s \ {m + 1}
        OBVIOUS
      <4>3. h[s \ {m + 1}] = g[s \ {m + 1}]
        BY <4>2
      <4>4. h[s] = v(s)
        BY <3>1
      <4> HIDE DEF h
      <4> QED BY <3>1, <4>1, <4>3, <4>4
    <3>2. CASE m + 1 \notin s
      <4>1. s \in SUBSET (1..m)
        BY <3>2
      <4>2. h[s] = g[s] /\ \A x : h[s \ {x}] = g[s \ {x}]
        BY <3>2
      <4>3. g[s] = IF s = {} THEN Begun(p) ELSE Further(g[s \ {Max(s)}], buf[Max(s)])
        BY <2>1, <4>1 DEF Eats
      <4> HIDE DEF h
      <4> QED BY <4>2, <4>3
    <3> QED BY <3>1, <3>2
  <2>3. h = [s \in SUBSET (1..(m+1)) |->
               IF s = {} THEN Begun(p) ELSE Further(h[s \ {Max(s)}], buf[Max(s)])]
    <3>1. h = [s \in SUBSET (1..(m+1)) |-> h[s]]
      OBVIOUS
    <3> HIDE DEF h
    <3> QED BY <2>2, <3>1
  <2> HIDE DEF h
  <2>4. Eats(p, buf, 1..(m+1), h)
    BY <2>3 DEF Eats
  <2> QED BY <2>4
<1> HIDE DEF S
<1>3. S = Nat
  <2>1. S \in SUBSET Nat
    BY DEF S
  <2> QED BY <1>1, <1>2, <2>1, Induct
<1> QED BY <1>3 DEF S

\* It goes from one place to the next.
LEMMA EatsAt ==
  ASSUME NEW p, NEW buf, NEW n \in Nat, NEW g, Eats(p, buf, 1..n, g)
  PROVE  g[{}] = Begun(p) /\ \A k \in 1..n : g[1..k] = Further(g[1..(k-1)], buf[k])
<1>1. \A s \in SUBSET (1..n) : g[s] = IF s = {} THEN Begun(p) ELSE Further(g[s \ {Max(s)}], buf[Max(s)])
  BY DEF Eats
<1>2. g[{}] = Begun(p)
  BY <1>1
<1>3. ASSUME NEW k \in 1..n PROVE g[1..k] = Further(g[1..(k-1)], buf[k])
  <2>1. 1..k \in SUBSET (1..n) /\ k \in 1..k /\ 1..k # {} /\ (1..k) \ {k} = 1..(k-1) /\ k \in Nat
    OBVIOUS
  <2>2. Max(1..k) = k
    <3>1. Max(1..k) \in 1..k
      BY <2>1, MaxIn
    <3>2. \A y \in 1..k : k >= y
      OBVIOUS
    <3>3. \A y \in 1..k : Max(1..k) >= y
      BY <2>1, <3>2 DEF Max
    <3> QED BY <2>1, <3>1, <3>3
  <2> QED BY <1>1, <2>1, <2>2
<1> QED BY <1>2, <1>3

\* write(const_buffer) is that recursion at the end of the buffer.
LEMMA WriteOneIs ==
  ASSUME NEW p, NEW buf
  PROVE  WriteOne(p, buf) = Handled((CHOOSE g : Eats(p, buf, DOMAIN buf, g))[DOMAIN buf])
BY DEF WriteOne, FoldLeft, MapThenFoldSet, Eats, Begun, Further

\* What a parser took of the first k symbols: all of them, unless it is over.
Took(r, k) ==
  /\ r = [p |-> r.p, used |-> r.used] /\ Came(r.p) /\ r.used \in 0..k
  /\ ~Over(r.p) => r.used = k

\* One symbol more.
LEMMA TookFurther ==
  ASSUME NEW k \in Nat, NEW r, Took(r, k), NEW ch
  PROVE  Took(Further(r, ch), k + 1)
<1>1. CASE Over(r.p)
  <2>1. Further(r, ch) = r
    BY <1>1 DEF Further
  <2>2. r.used \in 0..(k+1)
    BY DEF Took
  <2> QED BY <1>1, <2>1, <2>2 DEF Took
<1>2. CASE ~Over(r.p)
  <2> DEFINE q == Eat(r.p, ch)
  <2>1. Going(r.p) /\ r.p.ec = "none" /\ r.used = k
    BY <1>2 DEF Took, Over, Came, Going
  <2>2. Came(q) /\ (Leaves(r.p) => Over(q))
    BY <2>1, EatCame
  <2> DEFINE u == IF Leaves(r.p) \/ q.ec # "none" THEN r.used ELSE r.used + 1
  <2>3. u \in 0..(k+1) /\ (~Over(q) => u = k + 1)
    <3> HIDE DEF q
    <3> QED BY <2>1, <2>2 DEF Over
  <2>4. Further(r, ch) = [p |-> q, used |-> u]
    BY <1>2 DEF Further, Fed
  <2> HIDE DEF q, u
  <2> QED BY <2>2, <2>3, <2>4 DEF Took
<1> QED BY <1>1, <1>2

\* What write(const_buffer) returns with: of a buffer it takes a part, and all of
\* it unless the message is over or wrong.
Wrote(w, n) ==
  /\ Came(w.p) /\ w.used \in 0..n
  /\ w.p.ec = "none" /\ ~complete(w.p) => w.used = n

\* write(const_buffer) takes the whole buffer, or the message is over.
LEMMA WriteOneTakes ==
  ASSUME NEW p, Came(p), p.ec = "none", NEW C, NEW buf \in Seq(C)
  PROVE  Wrote(WriteOne(p, buf), Len(buf))
<1> DEFINE n == Len(buf)
           E == CHOOSE g : Eats(p, buf, DOMAIN buf, g)
           S == {k \in Nat : k <= n => Took(E[1..k], k)}
<1>1. n \in Nat /\ DOMAIN buf = 1..n
  OBVIOUS
<1> HIDE DEF n
<1>2. Eats(p, buf, 1..n, E)
  <2>1. \E g : Eats(p, buf, DOMAIN buf, g)
    BY <1>1, EatsExist
  <2> QED BY <1>1, <2>1
<1> HIDE DEF E
<1>3. E[{}] = Begun(p) /\ \A k \in 1..n : E[1..k] = Further(E[1..(k-1)], buf[k])
  BY <1>1, <1>2, EatsAt
<1>4. 0 \in S
  <2> DEFINE b == [p EXCEPT !.returned = FALSE]
  <2>1. Came(b) /\ ~Over(b)
    BY DEF Came, Parser, Members, Over
  <2>2. 1..0 = {} /\ Begun(p).p = b /\ Begun(p).used = 0
    BY DEF Begun
  <2>4. Begun(p) = [p |-> Begun(p).p, used |-> Begun(p).used]
    BY DEF Begun
  <2> HIDE DEF b
  <2>3. Took(Begun(p), 0)
    BY <2>1, <2>2, <2>4 DEF Took
  <2> QED BY <1>3, <2>2, <2>3
<1>5. ASSUME NEW k \in Nat, k \in S PROVE k + 1 \in S
  <2>1. CASE k + 1 <= n
    <3>1. k + 1 \in 1..n /\ (k + 1) - 1 = k /\ k <= n
      BY <1>1, <2>1
    <3>2. E[1..(k+1)] = Further(E[1..k], buf[k+1])
      BY <1>3, <3>1
    <3>3. Took(E[1..k], k)
      BY <1>5, <3>1
    <3> QED BY <3>2, <3>3, TookFurther
  <2> QED BY <2>1
<1>6. Took(E[1..n], n)
  <2> HIDE DEF S
  <2>1. S \in SUBSET Nat
    BY DEF S
  <2>2. n \in S
    BY <1>1, <1>4, <1>5, <2>1, Induct
  <2> QED BY <1>1, <2>2 DEF S
<1> DEFINE r == E[1..n]
<1>7. WriteOne(p, buf) = Handled(r)
  BY <1>1, WriteOneIs DEF E
<1>8. Took(r, n)
  BY <1>6
<1> HIDE DEF r
<1>9. CASE Over(r.p)
  <2>1. Handled(r) = r
    BY <1>9 DEF Handled
  <2> QED BY <1>7, <1>8, <1>9, <2>1 DEF Wrote, Took, Over, Came, n
<1>10. CASE ~Over(r.p)
  <2> DEFINE q == EndOfBuffer(r.p)
  <2>1. Going(r.p) /\ r.used = n
    BY <1>8, <1>10 DEF Took, Over, Came, Going
  <2>2. Going(q)
    <3>1. Going(Call(r.p, r.p.cb, r.p.piece))
      BY <2>1, CallGoes
    <3>2. Going([Call(r.p, r.p.cb, r.p.piece) EXCEPT !.piece = <<>>])
      BY <3>1, SetGoes
    <3> QED BY <2>1, <3>2 DEF EndOfBuffer
  <2>3. Handled(r).p = q /\ Handled(r).used = n
    <3>1. Handled(r) = [r EXCEPT !.p = q]
      BY <1>10 DEF Handled
    <3>2. r = [p |-> r.p, used |-> r.used]
      BY <1>8 DEF Took
    <3> QED BY <2>1, <3>1, <3>2
  <2> HIDE DEF q
  <2> QED BY <1>1, <1>7, <2>2, <2>3, GoesCame DEF Wrote, n
<1> QED BY <1>9, <1>10

\* One more buffer of write(ConstBufferSequence), and the recursion over them.
Onto(r, b) ==
  IF r.p.ec # "none" \/ (b = <<>> /\ r.p.s # "dead") THEN r ELSE Added(r, WriteOne(r.p, b))

\* The recursion over the buffers whose places are in S.
Runs(p, bufs, S, g) ==
  g = [s \in SUBSET S |-> IF s = {} THEN [p |-> p, used |-> 0]
                          ELSE Onto(g[s \ {Max(s)}], bufs[Max(s)])]

\* write(ConstBufferSequence) is that recursion at its end.
LEMMA WriteIs ==
  ASSUME NEW p, NEW bufs
  PROVE  Write(p, bufs) = (CHOOSE g : Runs(p, bufs, DOMAIN bufs, g))[DOMAIN bufs]
BY DEF Write, FoldLeft, MapThenFoldSet, Runs, Onto

\* Of no buffer it takes nothing; one buffer is a call of write(const_buffer).
LEMMA WriteFew ==
  ASSUME NEW p, NEW C, NEW bufs \in Seq(C)
  PROVE  /\ bufs = <<>> => Write(p, bufs) = [p |-> p, used |-> 0]
         /\ Len(bufs) = 1 => Write(p, bufs) = Onto([p |-> p, used |-> 0], bufs[1])
<1> DEFINE base == [p |-> p, used |-> 0]
           E == CHOOSE g : Runs(p, bufs, DOMAIN bufs, g)
<1>1. Write(p, bufs) = E[DOMAIN bufs]
  BY WriteIs
<1>2. ASSUME bufs = <<>> PROVE E[DOMAIN bufs] = base
  <2>1. DOMAIN bufs = {}
    BY <1>2
  <2> DEFINE h == [s \in SUBSET {} |-> base]
  <2>2. Runs(p, bufs, {}, h)
    BY DEF Runs
  <2>3. Runs(p, bufs, {}, E)
    BY <2>1, <2>2
  <2> HIDE DEF E
  <2> QED BY <2>1, <2>3 DEF Runs
<1>3. ASSUME Len(bufs) = 1 PROVE E[DOMAIN bufs] = Onto(base, bufs[1])
  <2>1. DOMAIN bufs = {1}
    BY <1>3
  <2>2. Max({1}) = 1
    <3>1. {1} \in SUBSET (1..1) /\ {1} # {} /\ 1 \in Nat
      OBVIOUS
    <3> QED BY <3>1, MaxIn
  <2>3. \A s \in SUBSET {1} : s # {} => s = {1}
    OBVIOUS
  <2> DEFINE v == Onto(base, bufs[1])
             h == [s \in SUBSET {1} |-> IF s = {} THEN base ELSE v]
  <2>4. ASSUME NEW s \in SUBSET {1}
        PROVE h[s] = IF s = {} THEN base ELSE Onto(h[s \ {Max(s)}], bufs[Max(s)])
    <3>1. CASE s = {}
      BY <3>1
    <3>2. CASE s = {1}
      <4>1. s \ {Max(s)} = {} /\ Max(s) = 1
        BY <2>2, <3>2
      <4>2. h[{}] = base /\ h[s] = v
        BY <3>2
      <4> HIDE DEF h
      <4> QED BY <3>2, <4>1, <4>2
    <3> QED BY <2>3, <3>1, <3>2
  <2>5. Runs(p, bufs, {1}, h)
    <3>1. h = [s \in SUBSET {1} |-> h[s]]
      OBVIOUS
    <3> HIDE DEF h
    <3> QED BY <2>4, <3>1 DEF Runs
  <2> HIDE DEF h
  <2>6. Runs(p, bufs, {1}, E)
    BY <2>1, <2>5
  <2> HIDE DEF E
  <2>7. \A s \in SUBSET {1} :
           E[s] = IF s = {} THEN base ELSE Onto(E[s \ {Max(s)}], bufs[Max(s)])
    BY <2>6 DEF Runs
  <2>8. E[{}] = base /\ E[{1}] = Onto(E[{1} \ {1}], bufs[1])
    <3>1. {} \in SUBSET {1} /\ {1} \in SUBSET {1} /\ {1} # {}
      OBVIOUS
    <3> QED BY <2>2, <2>7, <3>1
  <2>9. {1} \ {1} = {}
    OBVIOUS
  <2> QED BY <2>1, <2>8, <2>9
<1> QED BY <1>1, <1>2, <1>3

\* A write that reports no error and does not complete the message has taken
\* every byte of the buffer it was given (basic_parser_v1::write): what
\* parse() consumes is then all there is.
THEOREM WriteTakesAll ==
  ASSUME NEW p, Came(p), NEW C, NEW bufs \in Seq(Seq(C)), Len(bufs) <= 1
  PROVE  Wrote(Write(p, bufs), IF bufs = <<>> THEN 0 ELSE Len(bufs[1]))
<1> DEFINE base == [p |-> p, used |-> 0]
<1> DEFINE T == Seq(C)
<1> HIDE DEF T
<1>0. bufs \in Seq(T)
  BY DEF T
<1>1. CASE bufs = <<>>
  <2>1. Write(p, bufs) = base
    BY <1>0, <1>1, WriteFew
  <2>2. Wrote(base, 0)
    BY DEF Wrote
  <2> HIDE DEF base
  <2> QED BY <1>1, <2>1, <2>2
<1>2. CASE bufs # <<>>
  <2>0. Len(bufs) = 1 /\ bufs[1] \in T
    <3>1. Len(bufs) # 0 /\ Len(bufs) \in Nat
      BY <1>0, <1>2, EmptySeq
    <3>2. Len(bufs) = 1
      <4> DEFINE n == Len(bufs)
      <4>1. n # 0 /\ n \in Nat /\ n <= 1
        BY <3>1
      <4> HIDE DEF n
      <4>2. n = 1
        BY <4>1
      <4> QED BY <4>2 DEF n
    <3>3. 1 \in 1..Len(bufs)
      BY <3>2
    <3> QED BY <1>0, <3>2, <3>3
  <2>1. Len(bufs) = 1 /\ bufs[1] \in Seq(C)
    BY <2>0 DEF T
  <2> DEFINE b == bufs[1]
             w == WriteOne(p, b)
  <2>2. Write(p, bufs) = Onto(base, b)
    BY <1>0, <2>1, WriteFew
  <2>3. Len(b) \in Nat /\ (b = <<>> => Len(b) = 0)
    BY <2>1
  <2>4. CASE p.ec # "none" \/ (b = <<>> /\ p.s # "dead")
    <3>1. Onto(base, b) = base
      BY <2>4 DEF Onto
    <3> HIDE DEF b
    <3> QED BY <1>2, <2>2, <2>3, <2>4, <3>1 DEF Wrote, b
  <2>5. CASE ~(p.ec # "none" \/ (b = <<>> /\ p.s # "dead"))
    <3>1. Wrote(w, Len(b))
      BY <2>1, <2>5, WriteOneTakes
    <3>2. Onto(base, b) = Added(base, w)
      BY <2>5 DEF Onto
    <3> HIDE DEF w
    <3>3. Added(base, w).p = w.p /\ Added(base, w).used = w.used
      BY <2>3, <3>1 DEF Added, Wrote
    <3> QED BY <1>2, <2>2, <3>1, <3>2, <3>3 DEF Wrote
  <2> QED BY <2>4, <2>5
<1> QED BY <1>1, <1>2

\* A streambuf of one element at most.
Single(C, b) == Shaped(C, b) /\ Len(b.list) <= 1

\* Its list is empty or is one element, and so are the buffers of data(), which hold
\* what there is.
LEMMA DataSingle ==
  ASSUME NEW C, NEW b, Single(C, b)
  PROVE  /\ Data(b) \in Seq(Seq(C)) /\ Len(Data(b)) = Len(b.list) /\ Len(b.list) \in {0, 1}
         /\ b.list = <<>> => b.in_size = 0
         /\ b.list # <<>> => Len(Data(b)[1]) = b.in_size
<1> DEFINE L == b.list
           n == Len(L)
           D1(i) == SubSeq(L[i], InFrom(b, i) + 1, IF i = b.out THEN b.out_pos ELSE Len(L[i]))
<1>1. /\ n \in Nat /\ n <= 1 /\ L \in Seq(Seq(C)) /\ b.out \in Nat /\ b.out >= 1 /\ b.out <= n + 1
      /\ b.in_pos \in Nat /\ b.out_pos \in Nat /\ b.in_size \in Nat
  <2>1. Len(b.list) <= 1 /\ Shaped(C, b)
    BY DEF Single
  <2> QED BY <2>1, ShapedFacts
<1>2. n = 0 \/ n = 1
  <2> HIDE DEF n
  <2> QED BY <1>1
<1>3. Smaller(b.out, n) = n
  <2> HIDE DEF n
  <2> QED BY <1>1, <1>2 DEF Smaller
<1>4. Data(b) = [i \in 1..n |-> D1(i)]
  BY <1>3 DEF Data, Size
<1>5. \A i \in 1..n : D1(i) \in Seq(C)
  <2> SUFFICES ASSUME NEW i \in 1..n PROVE D1(i) \in Seq(C)
    OBVIOUS
  <2>1. L[i] \in Seq(C) /\ Len(L[i]) \in Nat
    BY <1>1, Parts
  <2> DEFINE x == L[i]
             y == IF i = b.out THEN b.out_pos ELSE Len(L[i])
             z == InFrom(b, i) + 1
  <2>2. y \in Nat /\ z \in Nat /\ z >= 1
    <3>1. InFrom(b, i) \in Nat
      BY <1>1 DEF InFrom
    <3> QED BY <1>1, <2>1, <3>1
  <2>3. i = b.out => y <= Len(x)
    <3>1. ASSUME i = b.out PROVE b.out_pos < Len(L[b.out])
      <4>1. ~AtEnd(b)
        BY <1>1, <3>1 DEF AtEnd
      <4> QED BY <4>1 DEF Single, Shaped, Size
    <3> QED BY <1>1, <2>1, <3>1
  <2>4. y <= Len(x)
    BY <2>1, <2>2, <2>3
  <2>5. x \in Seq(C)
    BY <2>1
  <2> HIDE DEF x, y, z
  <2>6. SubSeq(x, z, y) \in Seq(C)
    BY <2>2, <2>4, <2>5
  <2> QED BY <2>6 DEF x, y, z
<1>6. Data(b) \in Seq(Seq(C)) /\ Len(Data(b)) = n
  <2> DEFINE T == Seq(C)
  <2>1. \A i \in 1..n : D1(i) \in T
    BY <1>5
  <2> HIDE DEF T, D1, n
  <2>2. [i \in 1..n |-> D1(i)] \in Seq(T) /\ Len([i \in 1..n |-> D1(i)]) = n
    BY <1>1, <2>1
  <2> QED BY <1>4, <2>2 DEF T
<1>7. b.list = <<>> => b.in_size = 0
  BY DEF Single, Shaped, EmptyBuf
<1>8. ASSUME b.list # <<>> PROVE Len(Data(b)[1]) = b.in_size
  <2>1. n = 1
    <3>1. Len(b.list) # 0
      BY <1>1, <1>8, EmptySeq
    <3> QED BY <1>2, <3>1
  <2> DEFINE y == IF b.out = 1 THEN b.out_pos ELSE Len(L[1])
             x == L[1]
             p == b.in_pos
  <2>2. Data(b)[1] = SubSeq(x, p + 1, y)
    <3>1. 1 \in 1..n
      BY <2>1
    <3>2. Data(b)[1] = D1(1)
      BY <1>4, <3>1, Zenon
    <3>3. InFrom(b, 1) = p
      BY DEF InFrom
    <3>4. (IF 1 = b.out THEN b.out_pos ELSE Len(L[1])) = y
      OBVIOUS
    <3> QED BY <3>2, <3>3, <3>4
  <2>3. x \in Seq(C) /\ Len(x) \in Nat /\ Len(x) > 0 /\ Off(L, 1) = Off(L, 0) + Len(x) /\ Off(L, 0) = 0
    <3>1. 1 \in 1..Len(L) /\ 1 - 1 = 0
      BY <2>1
    <3>2. x \in Seq(C)
      BY <1>1, <3>1, Parts
    <3> QED BY <3>1, <3>2, ShapedFacts DEF Single
  <2>4. p <= End(b) /\ b.in_size = End(b) - p /\ End(b) = Off(L, b.out - 1) + b.out_pos
    BY InAtMostEnd DEF Single, End
  <2>5. y = End(b) /\ y <= Len(x)
    <3>1. CASE b.out = 1
      <4>1. ~AtEnd(b) /\ b.out - 1 = 0
        BY <2>1, <3>1 DEF AtEnd
      <4>2. b.out_pos < Len(x)
        BY <3>1, <4>1 DEF Single, Shaped, Size
      <4>3. End(b) = b.out_pos
        BY <1>1, <2>3, <2>4, <4>1
      <4>4. y = b.out_pos
        BY <3>1
      <4> HIDE DEF x, y
      <4> QED BY <1>1, <2>3, <4>2, <4>3, <4>4
    <3>2. CASE b.out # 1
      <4>1. b.out = 2
        <5> HIDE DEF n
        <5> QED BY <1>1, <2>1, <3>2
      <4>2. AtEnd(b)
        BY <2>1, <4>1 DEF AtEnd
      <4>3. End(b) = Off(L, 1)
        BY <2>1, <4>2, InAtMostEnd DEF Single
      <4> QED BY <2>3, <3>2, <4>3
    <3> QED BY <3>1, <3>2
  <2>6. p \in Nat /\ y \in Nat
    BY <1>1, <2>3
  <2> HIDE DEF x, y, p
  <2>7. Len(SubSeq(x, p + 1, y)) = y - p
    BY <2>3, <2>4, <2>5, <2>6
  <2> QED BY <2>2, <2>4, <2>5, <2>7
<1> QED BY <1>2, <1>6, <1>7, <1>8

\* consume() frees elements and adds none.
LEMMA ConsumeSingle ==
  ASSUME NEW C, NEW b, Single(C, b), NEW n \in Nat
  PROVE  /\ Single(C, Consume(b, n))
         /\ n >= b.in_size => Consume(b, n).in_size = 0
<1> DEFINE c == Consume(b, n)
           g == Gone(b, n)
           L == b.list
           M == SubSeq(L, g + 1, Len(L))
<1>1. Shaped(C, b) /\ Len(L) <= 1 /\ Len(L) \in Nat /\ b.out \in Nat /\ b.out <= Len(L) + 1 /\ b.in_size \in Nat
  BY ShapedFacts DEF Single
<1>2. Shaped(C, c) /\ c.in_size = IF n <= b.in_size THEN b.in_size - n ELSE 0
  BY <1>1, ConsumeDrops DEF Consumes
<1>3. g \in Nat /\ g <= b.out - 1
  <2>1. g \in 0..(b.out - 1)
    BY <1>1, GoneIs
  <2> HIDE DEF g
  <2> QED BY <1>1, <2>1
<1>4. Len(M) = Len(L) - g /\ Len(M) <= 1
  <2>1. Len(M) \in Nat /\ Len(M) = Len(L) - g
    BY <1>1, <1>3, Behind DEF LeavesBehind
  <2> HIDE DEF M, L, g
  <2> QED BY <1>1, <1>3, <2>1
<1>5. c.list \in {L, M}
  <2>1. b \in [list : Seq(Seq(C)), out : Nat, in_pos : Nat, out_pos : Nat, out_end : Nat, in_size : Nat]
    BY <1>1 DEF Shaped
  <2> DEFINE rest == n - Held(b, g)
             from == IF g = 0 THEN b.in_pos ELSE 0
             d == [b EXCEPT !.list = M, !.out = @ - g, !.in_pos = from + rest, !.in_size = @ - n]
             d1 == [d EXCEPT !.in_pos = b.out_pos, !.in_size = 0]
             d2 == [d EXCEPT !.in_pos = 0, !.out_pos = 0, !.out_end = 0, !.in_size = 0]
  <2>2. c \in {b, d, d1, d2}
    BY Zenon DEF Consume, Gone
  <2>3. d.list = M /\ d1.list = M /\ d2.list = M
    <3> HIDE DEF M, g
    <3> QED BY <2>1
  <2> HIDE DEF c, d, d1, d2
  <2> QED BY <2>2, <2>3
<1>6. Len(c.list) <= 1
  BY <1>1, <1>4, <1>5
<1>7. n >= b.in_size => c.in_size = 0
  <2> DEFINE z == b.in_size
  <2>1. z \in Nat /\ c.in_size = IF n <= z THEN z - n ELSE 0
    BY <1>1, <1>2
  <2> HIDE DEF z, c
  <2> QED BY <2>1 DEF z
<1> QED BY <1>2, <1>6, <1>7 DEF Single

\* What prepare() of no more than the room there is does to a streambuf that is
\* empty: with one element it allocates nothing, without one it allocates one.
LEMMA PrepareSingle ==
  ASSUME NEW C, NEW b, Single(C, b), b.in_size = 0, NEW max \in Nat, NEW alloc \in Nat
  PROVE  LET n == read_size_helper(b, max, alloc)
         IN  n \in Nat /\ Len(Prepare(b, n, alloc).list) <= 1
<1> DEFINE n == read_size_helper(b, max, alloc)
           L == b.list
           here == IF AtEnd(b) THEN 0 ELSE Size(b, b.out) - b.out_pos
           keep == Smaller(b.out, Len(b.list))
           more == IF n > here THEN n - here ELSE 0
           room(j) == SumFunction([i \in (keep+1)..j |-> Size(b, i)])
           last == IF room(Len(b.list)) <= more THEN Len(b.list)
                   ELSE CHOOSE j \in keep..Len(b.list) :
                          room(j) >= more /\ \A i \in keep..(j-1) : room(i) < more
           fresh == IF more > room(last) THEN more - room(last) ELSE 0
           list == SubSeq(b.list, 1, last)
           p1 == [b EXCEPT !.list = Append(list, [i \in 1..Larger(alloc, fresh) |-> Raw]),
                           !.out_end = fresh]
           p2 == [b EXCEPT !.list = list,
                           !.out_end = IF last > keep THEN more - room(last-1)
                                       ELSE IF AtEnd(b) THEN @ ELSE b.out_pos + n]
<1> SUFFICES n \in Nat /\ Len(Prepare(b, n, alloc).list) <= 1
  OBVIOUS
<1>1. /\ Shaped(C, b) /\ Len(L) \in Nat /\ b.out \in Nat /\ b.out >= 1 /\ b.out <= Len(L) + 1
      /\ b.in_pos \in Nat /\ b.out_pos \in Nat /\ L \in Seq(Seq(C)) /\ Len(L) <= 1
  BY ShapedFacts DEF Single
<1>2. b \in [list : Seq(Seq(C)), out : Nat, in_pos : Nat, out_pos : Nat, out_end : Nat, in_size : Nat]
  BY <1>1 DEF Shaped
<1>3. Prepare(b, n, alloc) = IF fresh > 0 THEN p1 ELSE p2
  BY Zenon DEF Prepare
<1>4. p1.list = Append(list, [i \in 1..Larger(alloc, fresh) |-> Raw]) /\ p2.list = list
  <2> HIDE DEF list, last, fresh, more, keep, n
  <2> QED BY <1>2
<1>5. CASE L = <<>>
  <2>1. b = EmptyBuf
    BY <1>1, <1>5 DEF Shaped
  <2>2. b.out = 1 /\ Len(b.list) = 0 /\ AtEnd(b)
    BY <2>1 DEF EmptyBuf, AtEnd
  <2>3. here = 0 /\ keep = 0
    BY <2>2 DEF Smaller
  <2>4. n \in Nat
    <3>1. Room(b, 0) = 0
      <4>1. 0 \in (b.out - 1)..Len(b.list) /\ b.out - 1 = 0
        BY <2>2
      <4> QED BY <1>1, <4>1, RoomIs
    <3>2. Capacity(b) - b.in_size = 0
      BY <2>2, <3>1 DEF Capacity
    <3>3. n = Smaller(max, alloc)
      BY <3>2 DEF read_size_helper
    <3> QED BY <3>3 DEF Smaller
  <2>5. room(Len(b.list)) = 0
    <3>1. keep + 1 = 1 /\ 1..0 = {}
      BY <2>3
    <3>2. [i \in (keep+1)..0 |-> Size(b, i)] = <<>>
      BY <3>1
    <3>3. DOMAIN [i \in (keep+1)..0 |-> Size(b, i)] = {}
      BY <3>1
    <3> HIDE DEF keep
    <3> QED BY <2>2, <3>3, SumEmpty DEF SumFunction
  <2>6. more \in Nat
    BY <2>3, <2>4
  <2>7. last = 0
    <3> HIDE DEF room, more
    <3> QED BY <2>2, <2>5, <2>6
  <2>8. list = <<>>
    BY <2>1, <2>7 DEF EmptyBuf
  <2>9. Len(p1.list) = 1 /\ Len(p2.list) = 0
    <3> DEFINE e == [i \in 1..Larger(alloc, fresh) |-> Raw]
    <3>1. p1.list = Append(<<>>, e) /\ p2.list = <<>>
      BY <1>4, <2>8
    <3> HIDE DEF e, p1, p2
    <3> QED BY <3>1
  <2> HIDE DEF p1, p2, list, n, fresh, last, room, more, keep, here
  <2>10. Prepare(b, n, alloc) = p1 \/ Prepare(b, n, alloc) = p2
    BY <1>3, Zenon
  <2>11. Len(Prepare(b, n, alloc).list) = 1 \/ Len(Prepare(b, n, alloc).list) = 0
    BY <2>9, <2>10, Zenon
  <2> DEFINE z == Len(Prepare(b, n, alloc).list)
  <2>12. z = 1 \/ z = 0
    BY <2>11
  <2>13. z <= 1
    <3> HIDE DEF z
    <3> QED BY <2>12
  <2> QED BY <2>4, <2>13
<1>6. CASE L # <<>>
  <2>1. Len(L) = 1
    <3>1. Len(L) # 0
      <4> DEFINE T == Seq(C)
      <4>1. L \in Seq(T)
        BY <1>1
      <4> HIDE DEF T
      <4> QED BY <1>6, <4>1, EmptySeq
    <3> DEFINE z == Len(L)
    <3>2. z # 0 /\ z \in Nat /\ z <= 1
      BY <1>1, <3>1
    <3> HIDE DEF z
    <3>3. z = 1
      BY <3>2
    <3> QED BY <3>3 DEF z
  <2>2. b.out = 1 /\ ~AtEnd(b)
    <3>1. b.in_size = End(b) - b.in_pos /\ b.in_pos <= End(b) /\ End(b) \in Nat
      BY <1>1, InAtMostEnd, ShapedFacts
    <3>2. b.in_pos < Len(L[1])
      BY <1>1, <1>6 DEF Shaped, Size
    <3>3. Off(L, 1) = Len(L[1]) /\ Len(L[1]) \in Nat
      <4>1. 1 \in 1..Len(L) /\ 1 - 1 = 0
        BY <2>1
      <4>2. Off(L, 1) = Off(L, 0) + Len(L[1]) /\ Off(L, 0) = 0 /\ Len(L[1]) \in Nat
        BY <1>1, <4>1, ShapedFacts
      <4> QED BY <4>2
    <3>4. ASSUME AtEnd(b) PROVE FALSE
      <4>1. End(b) = Off(L, 1)
        BY <1>1, <2>1, <3>4, InAtMostEnd
      <4> DEFINE e == End(b)
                 z == Len(L[1])
      <4>2. e = z /\ z \in Nat /\ b.in_pos < z /\ e - b.in_pos = 0
        BY <3>1, <3>2, <3>3, <4>1
      <4> HIDE DEF e, z
      <4> QED BY <1>1, <4>2
    <3>5. b.out \in 1..1
      BY <1>1, <2>1, <3>4, InAtMostEnd
    <3> QED BY <3>4, <3>5
  <2> DEFINE a == Size(b, 1) - b.out_pos
  <2>3. a \in Nat /\ a > 0 /\ Room(b, 1) = a
    <3>1. b.out_pos < Len(L[1])
      BY <1>1, <2>2 DEF Shaped, Size
    <3>2. 1 \in (b.out - 1)..Len(b.list) /\ 1 # b.out - 1 /\ b.out - 1 = 0
      BY <2>1, <2>2
    <3>3. Room(b, 1) = Off(L, 1) - End(b)
      BY <1>1, <3>2, RoomIs
    <3>4. 1 \in 1..Len(L) /\ 1 - 1 = 0
      BY <2>1
    <3>5. Off(L, 1) = Off(L, 0) + Len(L[1]) /\ Off(L, 0) = 0 /\ Len(L[1]) \in Nat /\ End(b) = Off(L, b.out - 1) + b.out_pos
      BY <1>1, <3>4, ShapedFacts
    <3> DEFINE z == Len(L[1])
    <3>6. Off(L, 1) = z /\ End(b) = b.out_pos /\ z \in Nat /\ b.out_pos < z
      BY <1>1, <3>1, <3>2, <3>5
    <3>7. a = z - b.out_pos
      BY DEF Size
    <3> HIDE DEF z, a
    <3> QED BY <1>1, <3>3, <3>6, <3>7
  <2>4. here = a
    BY <2>2
  <2>5. n \in Nat /\ n <= a
    <3>1. Capacity(b) - b.in_size = a
      <4> HIDE DEF a
      <4> QED BY <2>1, <2>3 DEF Capacity
    <3>2. n = Smaller(max, a)
      <4> HIDE DEF a
      <4> QED BY <2>3, <3>1 DEF read_size_helper
    <3> HIDE DEF a, n
    <3> QED BY <2>3, <3>2 DEF Smaller
  <2>6. more = 0
    <3> HIDE DEF here, n, a
    <3> QED BY <2>3, <2>4, <2>5
  <2>7. keep = 1
    BY <2>1, <2>2 DEF Smaller
  <2>8. room(1) = 0
    <3>1. DOMAIN [i \in (keep+1)..1 |-> Size(b, i)] = {}
      BY <2>7
    <3> HIDE DEF keep
    <3> QED BY <3>1, SumEmpty DEF SumFunction
  <2>9. last = 1
    <3> HIDE DEF room, more
    <3> QED BY <2>1, <2>6, <2>8
  <2>10. fresh = 0
    <3> HIDE DEF room, more, last
    <3> QED BY <2>6, <2>8, <2>9
  <2>11. Len(list) = 1
    <3>1. Len(SubSeq(L, 1, 1)) = 1
      BY <1>1, <2>1
    <3> HIDE DEF last
    <3> QED BY <2>9, <3>1
  <2>12. Prepare(b, n, alloc) = p2 /\ p2.list = list
    <3> HIDE DEF p1, p2, fresh, list, n
    <3>1. Prepare(b, n, alloc) = p2
      BY <1>3, <2>10
    <3> QED BY <1>4, <3>1
  <2>13. Len(Prepare(b, n, alloc).list) <= 1
    <3> HIDE DEF p1, p2, list, n, fresh, last, room, more, keep, here, a
    <3>1. Len(Prepare(b, n, alloc).list) = 1
      BY <2>11, <2>12, Zenon
    <3> QED BY <3>1
  <2> HIDE DEF p1, p2, list, n, fresh, last, room, more, keep, here, a
  <2> QED BY <2>5, <2>13
<1> QED BY <1>5, <1>6

\* What is read into it leaves it one element: read_size_helper asks for no more
\* than fits behind what is held, which is nothing.
LEMMA ReadSingle ==
  ASSUME NEW C, Raw \in C, NEW b, Single(C, b), b.in_size = 0, NEW max \in Nat,
         NEW alloc \in Nat \ {0}, NEW s \in Seq(C), Len(s) <= read_size_helper(b, max, alloc)
  PROVE  LET n == read_size_helper(b, max, alloc)
         IN  Single(C, Written(b, s, n, alloc))
<1> DEFINE n == read_size_helper(b, max, alloc)
           p == Prepare(b, n, alloc)
           f == Fill(p, s)
           c == Commit(f, Len(s))
<1>1. n \in Nat /\ Len(p.list) <= 1
  BY PrepareSingle
<1>2. Shaped(C, b)
  BY DEF Single
<1>3. Prepares(C, b, n, alloc)
  BY <1>1, <1>2 DEF Prepares
<1> HIDE DEF n
<1>4. Shaped(C, c)
  <2>1. Len(s) <= n
    BY DEF n
  <2>2. Shaped(C, Written(b, s, n, alloc))
    BY <1>3, <2>1, WriteAppends
  <2> QED BY <2>2 DEF Written
<1>5. Shaped(C, p)
  BY <1>3, PrepareGrows
<1> HIDE DEF p
<1>6. p \in [list : Seq(Seq(C)), out : Nat, in_pos : Nat, out_pos : Nat, out_end : Nat, in_size : Nat]
  BY <1>5 DEF Shaped
<1>7. f = [p EXCEPT !.list = f.list] /\ Len(f.list) = Len(p.list)
  <2> DEFINE M == [i \in 1..Len(p.list) |->
                    [k \in 1..Size(p, i) |->
                       LET at == Room(p, i - 1) + k - OutFrom(p, i)
                       IN  IF i >= p.out /\ k > OutFrom(p, i) /\ at <= Len(s)
                             THEN s[at] ELSE p.list[i][k]]]
  <2>1. f = [p EXCEPT !.list = M]
    BY Zenon DEF Fill
  <2>2. DOMAIN M = 1..Len(p.list) /\ Len(p.list) \in Nat
    BY <1>6
  <2>3. Len(M) = Len(p.list)
    <3> HIDE DEF M
    <3> QED BY <2>2
  <2> HIDE DEF M, f
  <2>4. f.list = M
    BY <1>6, <2>1
  <2> QED BY <2>1, <2>3, <2>4
<1> HIDE DEF f
<1>8. c.list = f.list
  <2>1. DOMAIN f = {"list", "out", "in_pos", "out_pos", "out_end", "in_size"}
    BY <1>6, <1>7
  <2> QED BY <2>1 DEF Commit
<1>9. Len(c.list) <= 1
  BY <1>1, <1>7, <1>8 DEF p
<1>10. Written(b, s, n, alloc) = c
  BY DEF Written, p, f
<1> HIDE DEF c
<1> QED BY <1>4, <1>9, <1>10 DEF Single, n

\* What goes over the wire: letters and words, those of the protocol (which the
\* provers do not know to be strings) and numbers as Digit writes them.
Words == {Raw, ":", "SP", "CR", "LF", "b", "0", "x", "c", "t", "u", "k", "ontent-length",
          "ransfer-encoding", "onnection", "pgrade", "hunked", "lose", "eep-alive"}

\* All that may be on the wire.
Symbols == STRING \cup Words \cup Versions \cup {Digit(n) : n \in Nat}
             \cup {Digit(SumUp(s)) : s \in Seq(Nat)}

\* The recursion of FlattenSeq.
Chains(L, n, f) == f = [i \in 1..n |-> IF i = 1 THEN L[i] ELSE f[i-1] \o L[i]]

\* It defines a function.
LEMMA ChainsExists == ASSUME NEW L, NEW n \in Nat PROVE \E f : Chains(L, n, f)
<1> DEFINE S == {m \in Nat : \E f : Chains(L, m, f)}
<1>1. 0 \in S
  <2>1. Chains(L, 0, [i \in 1..0 |-> <<>>])
    BY DEF Chains
  <2> QED BY <2>1
<1>2. ASSUME NEW m \in Nat, m \in S PROVE m + 1 \in S
  <2>1. PICK f : Chains(L, m, f)
    BY <1>2
  <2> DEFINE v == IF m = 0 THEN L[1] ELSE f[m] \o L[m+1]
             g == [i \in 1..(m+1) |-> IF i = m + 1 THEN v ELSE f[i]]
  <2>2. \A i \in 1..m : f[i] = IF i = 1 THEN L[i] ELSE f[i-1] \o L[i]
    BY <2>1 DEF Chains
  <2>3. \A i \in 1..(m+1) : g[i] = IF i = 1 THEN L[i] ELSE g[i-1] \o L[i]
    <3> SUFFICES ASSUME NEW i \in 1..(m+1) PROVE g[i] = IF i = 1 THEN L[i] ELSE g[i-1] \o L[i]
      OBVIOUS
    <3>1. CASE i = m + 1
      <4>1. g[i] = v /\ i - 1 = m /\ (i # 1 => m # 0 /\ g[m] = f[m]) /\ (i = 1 => m = 0)
        BY <3>1
      <4> HIDE DEF g
      <4> QED BY <3>1, <4>1
    <3>2. CASE i # m + 1
      <4>1. i \in 1..m /\ g[i] = f[i] /\ (i # 1 => i - 1 \in 1..m /\ g[i-1] = f[i-1])
        BY <3>2
      <4> HIDE DEF g
      <4> QED BY <2>2, <4>1
    <3> QED BY <3>1, <3>2
  <2>4. Chains(L, m + 1, g)
    <3>1. g = [i \in 1..(m+1) |-> g[i]]
      OBVIOUS
    <3> HIDE DEF g
    <3>2. [i \in 1..(m+1) |-> g[i]] = [i \in 1..(m+1) |-> IF i = 1 THEN L[i] ELSE g[i-1] \o L[i]]
      BY <2>3
    <3> QED BY <3>1, <3>2, Zenon DEF Chains
  <2> HIDE DEF g
  <2> QED BY <2>4
<1>3. S = Nat
  <2>1. S \in SUBSET Nat
    OBVIOUS
  <2> HIDE DEF S
  <2> QED BY <1>1, <1>2, <2>1, Induct
<1> QED BY <1>3

\* A concatenation of sequences over a set is one.
LEMMA FlattenTyped ==
  ASSUME NEW C, NEW T, T = Seq(C), NEW L \in Seq(T)
  PROVE  FlattenSeq(L) \in T
<1> DEFINE E == CHOOSE f : Chains(L, Len(L), f)
           n == Len(L)
           S == {k \in Nat : k >= 1 /\ k <= n => E[k] \in T}
<1>1. n \in Nat
  OBVIOUS
<1>2. FlattenSeq(L) = IF n = 0 THEN L ELSE E[n]
  BY DEF FlattenSeq, Chains
<1>3. CASE n = 0
  <2>1. L = <<>>
    BY <1>3, EmptySeq
  <2>2. <<>> \in T
    BY EmptySeq
  <2> QED BY <1>2, <1>3, <2>1, <2>2
<1>4. CASE n # 0
  <2>1. Chains(L, n, E)
    <3>1. \E f : Chains(L, n, f)
      BY <1>1, ChainsExists
    <3> QED BY <3>1, Zenon
  <2> HIDE DEF E, n
  <2>2. \A i \in 1..n : E[i] = IF i = 1 THEN L[i] ELSE E[i-1] \o L[i]
    BY <2>1 DEF Chains
  <2>3. \A i \in 1..n : L[i] \in T
    BY DEF n
  <2>4. 0 \in S
    OBVIOUS
  <2>5. ASSUME NEW k \in Nat, k \in S PROVE k + 1 \in S
    <3>1. CASE k + 1 <= n
      <4>1. k + 1 \in 1..n /\ L[k+1] \in T
        BY <1>1, <2>3, <3>1
      <4>2. CASE k = 0
        <5>1. k + 1 = 1
          BY <4>2
        <5>2. E[1] = L[1]
          BY <2>2, <4>1, <5>1
        <5> QED BY <4>1, <5>1, <5>2
      <4>3. CASE k # 0
        <5>1. E[k] \in T
          <6>1. k >= 1 /\ k <= n
            <7> HIDE DEF S
            <7> QED BY <1>1, <3>1, <4>3
          <6>2. k >= 1 /\ k <= n => E[k] \in T
            BY <2>5
          <6> QED BY <6>1, <6>2
        <5>2. E[k+1] = E[k] \o L[k+1]
          <6>1. k + 1 # 1 /\ (k + 1) - 1 = k
            BY <4>3
          <6>2. E[k+1] = IF k + 1 = 1 THEN L[k+1] ELSE E[(k+1)-1] \o L[k+1]
            BY <2>2, <4>1, Zenon
          <6> QED BY <6>1, <6>2
        <5>3. \A s, t \in T : s \o t \in T
          OBVIOUS
        <5>4. E[k+1] \in T
          BY <4>1, <5>1, <5>2, <5>3, Zenon
        <5> QED BY <5>4
      <4> QED BY <4>2, <4>3
    <3> QED BY <3>1
  <2>6. n \in S
    <3>1. S \in SUBSET Nat
      OBVIOUS
    <3> HIDE DEF S
    <3> QED BY <1>1, <2>4, <2>5, <3>1, Induct
  <2>7. E[n] \in T
    BY <1>1, <1>4, <2>6
  <2> QED BY <1>2, <1>4, <2>7
<1> QED BY <1>3, <1>4

\* All of these are symbols.
LEMMA SymbolsIs ==
  /\ STRING \subseteq Symbols /\ Words \subseteq Symbols /\ Versions \subseteq Symbols
  /\ \A n \in Nat : Digit(n) \in Symbols
  /\ \A s \in Seq(Nat) : Digit(SumUp(s)) \in Symbols
<1>1. STRING \subseteq Symbols /\ Words \subseteq Symbols /\ Versions \subseteq Symbols
  BY DEF Symbols
<1>2. \A n \in Nat : Digit(n) \in Symbols
  BY DEF Symbols
<1>3. \A s \in Seq(Nat) : Digit(SumUp(s)) \in Symbols
  <2> SUFFICES ASSUME NEW s \in Seq(Nat) PROVE Digit(SumUp(s)) \in Symbols
    OBVIOUS
  <2>1. Digit(SumUp(s)) \in {Digit(SumUp(t)) : t \in Seq(Nat)}
    BY Zenon
  <2> QED BY <2>1 DEF Symbols
<1> QED BY <1>1, <1>2, <1>3

\* Fields as they are sent.
Sent == [name : Seq(Symbols), value : Seq(Symbols)]

\* Two sequences one behind the other.
LEMMA Joined == ASSUME NEW C, NEW s \in Seq(C), NEW t \in Seq(C) PROVE s \o t \in Seq(C)
OBVIOUS

\* Fields go over the wire as symbols.
LEMMA WireFieldsTyped == ASSUME NEW fs \in Seq(Sent) PROVE WireFields(fs) \in Seq(Symbols)
<1> DEFINE T == Seq(Symbols)
           L == [i \in 1..Len(fs) |-> WireField(fs[i])]
<1>1. ASSUME NEW f \in Sent PROVE WireField(f) \in T
  <2>1. f.name \in T /\ f.value \in T
    BY DEF Sent
  <2>2. <<":", "SP">> \in T /\ CrLf \in T
    <3>1. ":" \in Symbols /\ "SP" \in Symbols /\ "CR" \in Symbols /\ "LF" \in Symbols
      BY SymbolsIs DEF Words
    <3> QED BY <3>1 DEF CrLf
  <2>3. \A s, t \in T : s \o t \in T
    OBVIOUS
  <2> HIDE DEF T
  <2> QED BY <2>1, <2>2, <2>3, Zenon DEF WireField
<1>2. Len(fs) \in Nat /\ \A i \in 1..Len(fs) : fs[i] \in Sent
  OBVIOUS
<1>3. L \in Seq(T)
  <2> HIDE DEF T
  <2> QED BY <1>1, <1>2
<1>4. FlattenSeq(L) \in T
  <2>1. T = Seq(Symbols)
    OBVIOUS
  <2> HIDE DEF T, L
  <2> QED BY <1>3, <2>1, FlattenTyped
<1> QED BY <1>4 DEF WireFields

\* A sequence over a set is one over a greater set.
LEMMA SeqOver == ASSUME NEW A, NEW B, A \subseteq B, NEW s \in Seq(A) PROVE s \in Seq(B)
<1>1. s = [i \in 1..Len(s) |-> s[i]] /\ Len(s) \in Nat /\ \A i \in 1..Len(s) : s[i] \in B
  OBVIOUS
<1>2. [i \in 1..Len(s) |-> s[i]] \in Seq(B)
  BY <1>1
<1> QED BY <1>1, <1>2

\* The fields its sender set are symbols.
LEMMA FieldsSent == ASSUME NEW fs \in Seq(Field) PROVE fs \in Seq(Sent)
<1>1. STRING \subseteq Symbols
  BY SymbolsIs
<1>2. \A s \in Seq(STRING) : s \in Seq(Symbols)
  BY <1>1, SeqOver
<1>3. ASSUME NEW f \in Field PROVE f \in Sent
  <2>1. /\ f = [name |-> f.name, value |-> f.value]
        /\ f.name \in Seq(STRING) /\ f.value \in Seq(STRING)
    BY DEF Field
  <2>2. f.name \in Seq(Symbols) /\ f.value \in Seq(Symbols)
    BY <1>2, <2>1
  <2> QED BY <2>1, <2>2 DEF Sent
<1> QED BY <1>3

\* So are the fields that prepare() adds.
LEMMA FieldsOfTyped == ASSUME NEW d \in Message PROVE FieldsOf(d) \in Seq(Sent)
<1> DEFINE length == d.opt # "upgrade" /\ d.known /\ SetsLength(d)
           chunk  == d.opt # "upgrade" /\ ~d.known /\ d.version = "HTTP/1.1"
           f1 == IF length THEN <<F(ContentLength, <<Digit(SumUp(d.pieces))>>)>> ELSE <<>>
           f2 == IF chunk THEN <<F(TransferEncoding, Chunked)>> ELSE <<>>
           f3 == CASE d.opt = "upgrade" -> <<F(Connection, Upgrade)>>
                   [] d.opt = "keep_alive" /\ d.version = "HTTP/1.0" /\ length
                        -> <<F(Connection, KeepAlive)>>
                   [] d.opt = "close" /\ d.version = "HTTP/1.1" -> <<F(Connection, Close)>>
                   [] OTHER -> <<>>
           T == Seq(Sent)
<1>1. d.user \in T
  BY FieldsSent DEF Message
<1>2. Digit(SumUp(d.pieces)) \in Symbols
  <2>1. d.pieces \in Seq(Nat)
    BY DEF Message
  <2> QED BY <2>1, SymbolsIs
<1>3. /\ ContentLength \in Seq(Symbols) /\ TransferEncoding \in Seq(Symbols)
      /\ Connection \in Seq(Symbols) /\ Upgrade \in Seq(Symbols) /\ Chunked \in Seq(Symbols)
      /\ Close \in Seq(Symbols) /\ KeepAlive \in Seq(Symbols)
  BY SymbolsIs DEF Words, Word, ContentLength, TransferEncoding, Connection, Upgrade, Chunked,
                   Close, KeepAlive
<1>4. \A a, b \in Seq(Symbols) : <<F(a, b)>> \in T
  <2>1. \A a, b \in Seq(Symbols) : F(a, b) \in Sent
    BY DEF F, Sent
  <2> QED BY <2>1
<1>5. <<>> \in T
  OBVIOUS
<1>6. <<Digit(SumUp(d.pieces))>> \in Seq(Symbols)
  BY <1>2
<1>7. f1 \in T /\ f2 \in T
  <2> HIDE DEF T, length, chunk
  <2> QED BY <1>3, <1>4, <1>5, <1>6, Zenon
<1>8. f3 \in T
  <2> HIDE DEF T, length, chunk
  <2>1. f3 \in {<<F(Connection, Upgrade)>>, <<F(Connection, KeepAlive)>>,
                <<F(Connection, Close)>>, <<>>}
    BY Zenon
  <2> HIDE DEF f3
  <2>2. /\ <<F(Connection, Upgrade)>> \in T /\ <<F(Connection, KeepAlive)>> \in T
        /\ <<F(Connection, Close)>> \in T
    BY <1>3, <1>4, Zenon
  <2> QED BY <1>5, <2>1, <2>2
<1>9. FieldsOf(d) \in {d.user \o (f1 \o f2 \o f3), d.user}
  BY Zenon DEF FieldsOf, Prepared
<1>10. \A s, t \in T : s \o t \in T
  BY Joined
<1> HIDE DEF T, f1, f2, f3
<1>11. f1 \o f2 \o f3 \in T
  BY <1>7, <1>8, <1>10, Zenon
<1>12. d.user \o (f1 \o f2 \o f3) \in T
  BY <1>1, <1>10, <1>11, Zenon
<1> QED BY <1>1, <1>9, <1>12 DEF T

\* All that is written is.
LEMMA WrittenTyped ==
  ASSUME NEW d \in Message
  PROVE  /\ HeaderOf(d) \in Seq(Symbols) /\ FinalChunk(d) \in Seq(Symbols)
         /\ \A i \in 1..Len(d.pieces) : Piece(d, i) \in Seq(Symbols)
<1> DEFINE T == Seq(Symbols)
<1>1. \A s, t \in T : s \o t \in T
  BY Joined
<1>2. {"CR", "LF", "x", "SP", "0", "b"} \subseteq Symbols
  BY SymbolsIs DEF Words
<1>3. CrLf \in T /\ <<"0">> \in T
  BY <1>2 DEF CrLf
<1>4. WireFields(FieldsOf(d)) \in T
  BY FieldsOfTyped, WireFieldsTyped
<1>5. WireFields(d.trailers) \in T
  <2>1. d.trailers \in Seq(Sent)
    BY FieldsSent DEF Message
  <2> QED BY <2>1, WireFieldsTyped
<1>6. HeaderOf(d) \in T
  <2> DEFINE l1 == <<"x", "SP", "x", "SP", d.version>>
             l2 == <<d.version, d.status, "x">>
             l == IF d.request THEN l1 ELSE l2
  <2>1. d.version \in Symbols /\ d.status \in Symbols
    BY SymbolsIs DEF Message
  <2>2. l1 \in T /\ l2 \in T
    BY <1>2, <2>1
  <2>3. HeaderOf(d) = l \o CrLf \o WireFields(FieldsOf(d)) \o CrLf
    BY DEF HeaderOf
  <2>4. l \in T
    BY <2>2, Zenon
  <2> HIDE DEF T, l
  <2> QED BY <1>1, <1>3, <1>4, <2>3, <2>4, Zenon
<1>7. FinalChunk(d) \in T
  <2>1. FinalChunk(d) = <<"0">> \o CrLf \o WireFields(d.trailers) \o CrLf
    BY DEF FinalChunk
  <2> HIDE DEF T
  <2> QED BY <1>1, <1>3, <1>5, <2>1, Zenon
<1>8. ASSUME NEW i \in 1..Len(d.pieces) PROVE Piece(d, i) \in T
  <2> DEFINE n == d.pieces[i]
  <2>1. n \in Nat
    BY DEF Message
  <2>2. Digit(n) \in Symbols
    BY <2>1, SymbolsIs
  <2>3. <<Digit(n)>> \in T
    BY <2>2
  <2>4. Payload(n) \in T
    <3> HIDE DEF n
    <3>1. [k \in 1..n |-> "b"] \in Seq(Symbols)
      BY <1>2, <2>1
    <3> QED BY <3>1 DEF Payload
  <2>5. chunk_encode(n) = <<Digit(n)>> \o CrLf \o Payload(n) \o CrLf
    BY DEF chunk_encode
  <2>6. chunk_encode(n) \in T
    <3> HIDE DEF T, n
    <3> QED BY <1>1, <1>3, <2>3, <2>4, <2>5, Zenon
  <2> QED BY <2>4, <2>6 DEF Piece
<1> QED BY <1>6, <1>7, <1>8

-----------------------------------------------------------------------------
(* The connection.                                                         *)

\* Where the writer is: what it is about to write is there.
ServerAt ==
  /\ srv \in [n : 1..Len(msgs), piece : Nat \ {0},
              st : {"first", "suspended0", "more", "suspended", "final", "done"},
              end : {"open", "closed", "silent"}]
  /\ srv.st \in {"first", "suspended0"} => srv.piece = 1
  /\ srv.st \in {"more", "suspended"} => srv.piece <= Len(msgs[srv.n].pieces)

\* The reader: its parser is as the calls of write leave it.
ReaderAt ==
  /\ DOMAIN rd = {"n", "pc", "p", "got_some", "used", "ec", "result"}
  /\ Came(rd.p)

\* The reader's buffer is one element, and when more is to be read it is empty.
HInv ==
  /\ msgs \in Seq(Message) /\ Len(msgs) > 0
  /\ ServerAt /\ wire \in Seq(Symbols)
  /\ ReaderAt /\ Single(Symbols, sb)
  /\ rd.pc = "read" => sb.in_size = 0

\* A parser that was not used yet, one whose stream ended, one for the body.
LEMMA NewCame ==
  ASSUME NEW request, NEW pause \in BOOLEAN
  PROVE  Came(NewParser(request, pause))
<1> DEFINE s == IF request THEN "req_start" ELSE "res_start"
<1>1. s \in {"req_start", "res_start"} /\ s \in States
  BY DEF States, Handles, RequestStates, StatusStates
<1>2. s # "body_pause"
  OBVIOUS
<1> DEFINE q == NewParser(request, pause)
<1>3. DOMAIN q = Members /\ q.s = s /\ q.pause = pause /\ q.returned = FALSE
  BY DEF NewParser, Members
<1> SUFFICES Came(q)
  OBVIOUS
<1> HIDE DEF q, s
<1> QED BY <1>1, <1>2, <1>3 DEF Came, Parser

\* write_eof completes the message, or it is wrong.
LEMMA EofCame == ASSUME NEW p, Came(p) PROVE Came(WriteEof(p))
<1> DEFINE q1 == [p EXCEPT !.s = "closed_complete"]
           m == [p.m EXCEPT !.complete = TRUE]
           q2 == [p EXCEPT !.cb = "none", !.s = "closed_complete", !.m.complete = TRUE]
           q3 == Fail(p, "short_read")
<1>1. WriteEof(p) \in {q1, p, q2, q3}
  BY Zenon DEF WriteEof
<1>2. Parser(p)
  BY DEF Came
<1>3. "closed_complete" \in States
  BY DEF States
<1>4. Came(q1)
  BY <1>2, <1>3 DEF Came, Parser, Members, complete
<1>5. Came(q2)
  <2>1. q2 = [p EXCEPT !.cb = "none", !.s = "closed_complete", !.m = m]
    OBVIOUS
  <2> HIDE DEF m, q2
  <2> QED BY <1>2, <1>3, <2>1 DEF Came, Parser, Members, complete
<1>6. Came(q3)
  BY <1>2 DEF Came, Parser, Members, Fail, States
<1> HIDE DEF q1, q2, q3
<1> QED BY <1>1, <1>4, <1>5, <1>6

\* Told to go on with the body.
LEMMA BodyCameIn == ASSUME NEW p, Came(p) PROVE Came(WithBody(p))
BY DEF WithBody, Came, Parser, Members

\* Nothing was written yet, the streambuf is empty and the parser is new.
LEMMA InitHolds == ASSUME Init PROVE HInv
<1>1. msgs \in Seq(Message) /\ Len(msgs) > 0
  <2>1. msgs \in Seq(Message) /\ msgs # <<>>
    BY TrafficAssumption DEF Init
  <2>2. Len(msgs) \in Nat \ {0}
    BY <2>1, EmptySeq
  <2> DEFINE n == Len(msgs)
  <2>3. n \in Nat \ {0}
    BY <2>2
  <2>4. n > 0
    <3> HIDE DEF n
    <3> QED BY <2>3
  <2> QED BY <2>1, <2>4
<1>2. ServerAt
  <2> DEFINE n == Len(msgs)
  <2>1. n \in Nat /\ n > 0
    BY <1>1
  <2>2. 1 \in 1..n
    <3> HIDE DEF n
    <3> QED BY <2>1
  <2>3. srv = [n |-> 1, piece |-> 1, st |-> "first", end |-> "open"]
    BY DEF Init
  <2> HIDE DEF n
  <2> QED BY <2>2, <2>3 DEF ServerAt, n
<1>3. wire \in Seq(Symbols)
  BY EmptySeq DEF Init
<1>4. ReaderAt
  <2>1. Came(NewParser(msgs[1].request, caller = "header"))
    BY NewCame
  <2> QED BY <2>1 DEF Init, ReaderAt
<1>5. Single(Symbols, sb)
  <2>1. sb = EmptyBuf
    BY DEF Init
  <2>2. Len(EmptyBuf.list) = 0 /\ EmptyBuf.list = <<>>
    BY DEF EmptyBuf
  <2>3. Shaped(Symbols, EmptyBuf)
    <3>1. End(EmptyBuf) = 0
      <4>1. Off(<<>>, 0) = 0
        <5>1. <<>> \in Seq(Seq(Symbols)) /\ 0 \in 0..Len(<<>>)
          BY EmptySeq
        <5> QED BY <5>1, OffStep
      <4> QED BY <4>1 DEF End, EmptyBuf
    <3>2. EmptyBuf \in [list : Seq(Seq(Symbols)), out : Nat, in_pos : Nat, out_pos : Nat, out_end : Nat, in_size : Nat]
      BY DEF EmptyBuf
    <3> QED BY <3>1, <3>2 DEF Shaped, AtEnd, EmptyBuf
  <2> QED BY <2>1, <2>2, <2>3 DEF Single
<1>6. rd.pc # "read"
  BY DEF Init
<1> QED BY <1>1, <1>2, <1>3, <1>4, <1>5, <1>6 DEF HInv

\* The message that is written.
LEMMA Writing ==
  ASSUME HInv
  PROVE  /\ D \in Message /\ Len(D.pieces) \in Nat /\ Len(D.pieces) >= 1
         /\ srv.st \in {"first", "suspended0"} => srv.piece = 1
         /\ srv.st \in {"more", "suspended"} => srv.piece \in 1..Len(D.pieces)
<1>1. D \in Message
  BY DEF HInv, ServerAt, D
<1>2. D.pieces \in Seq(Nat) /\ D.pieces # <<>>
  BY <1>1 DEF Message
<1> DEFINE n == Len(D.pieces)
<1>3. n \in Nat \ {0}
  BY <1>2, EmptySeq
<1>4. srv.piece \in Nat \ {0}
  BY DEF HInv, ServerAt
<1>5. srv.st \in {"more", "suspended"} => srv.piece <= n
  BY DEF HInv, ServerAt, D
<1>6. srv.st \in {"first", "suspended0"} => srv.piece = 1
  BY DEF HInv, ServerAt
<1> HIDE DEF n
<1>7. n \in Nat /\ n >= 1 /\ (srv.st \in {"more", "suspended"} => srv.piece \in 1..n)
  BY <1>3, <1>4, <1>5
<1> QED BY <1>1, <1>6, <1>7 DEF n

\* A step of the writer: it writes symbols and goes to a place where it may be.
LEMMA WriterStep ==
  ASSUME HInv, UNCHANGED <<msgs, sb, rd>>, wire' \in Seq(Symbols), ServerAt'
  PROVE  HInv'
BY DEF HInv, ReaderAt

\* What is put on the wire.
LEMMA PutTyped ==
  ASSUME HInv, NEW s \in Seq(Symbols), Put(s)
  PROVE  wire' \in Seq(Symbols)
BY Joined DEF HInv, Put

\* The state behind piece i.
LEMMA AfterIs ==
  ASSUME HInv, NEW i \in 1..Len(D.pieces)
  PROVE  /\ After(i) \in {"more", "final", "done"}
         /\ After(i) = "more" => i + 1 <= Len(D.pieces)
<1> DEFINE n == Len(D.pieces)
<1>1. n \in Nat
  BY Writing
<1>2. After(i) = "more" => i < n
  BY DEF After
<1> HIDE DEF n
<1>3. i < n => i + 1 <= n
  BY <1>1 DEF n
<1> QED BY <1>2, <1>3 DEF After, n

\* The parts of the writer's state that a step changes.
LEMMA ServerMoves ==
  ASSUME NEW A, NEW B, NEW E, NEW G, NEW v \in [n : A, piece : B, st : E, end : G],
         NEW n \in A, NEW piece \in B, NEW st \in E
  PROVE  LET w == [v EXCEPT !.n = n, !.st = st, !.piece = piece]
             x == [v EXCEPT !.st = st, !.piece = piece]
         IN  /\ w \in [n : A, piece : B, st : E, end : G]
             /\ x \in [n : A, piece : B, st : E, end : G]
             /\ w.n = n /\ w.piece = piece /\ w.st = st
             /\ x.n = v.n /\ x.piece = piece /\ x.st = st
OBVIOUS

\* The steps of the writer.
LEMMA WriterKeeps ==
  ASSUME HInv, WriteFirst \/ Suspend \/ Resume \/ WriteMore \/ WriteFinal \/ WriteDone
                 \/ Leave("closed") \/ Leave("silent")
  PROVE  HInv'
<1> DEFINE N == Len(msgs)
           S == [n : 1..N, piece : Nat \ {0},
                 st : {"first", "suspended0", "more", "suspended", "final", "done"},
                 end : {"open", "closed", "silent"}]
           P(k) == Len(msgs[k].pieces)
           At(v) == /\ v \in S
                    /\ v.st \in {"first", "suspended0"} => v.piece = 1
                    /\ v.st \in {"more", "suspended"} => v.piece <= P(v.n)
<1>1. At(srv) /\ wire \in Seq(Symbols) /\ N \in Nat
  BY DEF HInv, ServerAt
<1>0. srv \in S
  BY <1>1
<1>2. UNCHANGED <<msgs, sb, rd>>
  BY DEF WriteFirst, Suspend, Resume, WriteMore, WriteFinal, WriteDone, Leave
<1>3. D \in Message /\ Len(D.pieces) \in Nat /\ Len(D.pieces) >= 1
  BY Writing
<1>4. P(srv.n) = Len(D.pieces)
  BY DEF D
<1> SUFFICES wire' \in Seq(Symbols) /\ At(srv')
  BY <1>2, WriterStep DEF ServerAt
<1>5. CASE WriteFirst
  <2>1. 1 \in 1..Len(D.pieces)
    BY <1>3
  <2>2. HeaderOf(D) \o Piece(D, 1) \in Seq(Symbols)
    BY <1>3, <2>1, WrittenTyped, Joined
  <2>3. wire' \in Seq(Symbols)
    BY <1>5, <2>2, PutTyped DEF WriteFirst
  <2>4. After(1) \in {"more", "final", "done"} /\ (After(1) = "more" => 1 + 1 <= Len(D.pieces))
    BY <2>1, AfterIs
  <2> DEFINE a == After(1)
  <2>5. srv' = [srv EXCEPT !.st = a, !.piece = 2]
    BY <1>5 DEF WriteFirst
  <2>7. a \in {"more", "final", "done"} /\ (a = "more" => 2 <= Len(D.pieces))
    BY <2>4
  <2> HIDE DEF a, N
  <2>6. At(srv')
    <3>1. srv' \in S /\ srv'.st = a /\ srv'.piece = 2 /\ srv'.n = srv.n
      <4>1. 2 \in Nat \ {0} /\ srv.n \in 1..N
        BY <1>0
      <4>2. a \in {"first", "suspended0", "more", "suspended", "final", "done"}
        BY <2>7
      <4> QED BY <1>0, <2>5, <4>1, <4>2, ServerMoves
    <3> HIDE DEF P, S
    <3> QED BY <1>4, <2>7, <3>1
  <2> QED BY <2>3, <2>6
<1>6. CASE Suspend
  <2> DEFINE a == IF srv.st = "first" THEN "suspended0" ELSE "suspended"
  <2>1. srv' = [srv EXCEPT !.st = a] /\ srv.st \in {"first", "more"} /\ wire' = wire
    BY <1>1, <1>6 DEF Suspend
  <2>2. srv' \in S /\ srv'.st = a /\ srv'.piece = srv.piece /\ srv'.n = srv.n
    <3> HIDE DEF N, P
    <3> QED BY <1>1, <2>1
  <2> HIDE DEF P, S
  <2> QED BY <1>1, <2>1, <2>2
<1>7. CASE Resume
  <2>1. srv' = [srv EXCEPT !.st = srv'.st] /\ srv.st \in {"suspended0", "suspended"}
        /\ ((srv'.st = "first" /\ srv.st = "suspended0") \/ srv'.st = "more")
    BY <1>1, <1>7 DEF Resume, ServerStep
  <2>2. wire' \in Seq(Symbols)
    <3>1. CASE wire' = wire
      BY <1>1, <3>1
    <3>2. CASE Put(HeaderOf(D))
      BY <1>3, <3>2, WrittenTyped, PutTyped
    <3> QED BY <1>7, <3>1, <3>2 DEF Resume
  <2>3. srv' \in S /\ srv'.piece = srv.piece /\ srv'.n = srv.n
    <3> HIDE DEF N, P
    <3> QED BY <1>1, <2>1
  <2>4. srv'.st = "more" => srv'.piece <= P(srv'.n)
    <3>1. srv.piece <= P(srv.n)
      BY <1>1, <1>3, <1>4, <2>1
    <3> QED BY <2>3, <3>1
  <2> HIDE DEF P, S
  <2> QED BY <1>1, <2>1, <2>2, <2>3, <2>4
<1>8. CASE WriteMore
  <2>1. srv.st = "more" /\ srv.piece \in 1..Len(D.pieces)
    BY <1>8, Writing DEF WriteMore, ServerStep
  <2>2. wire' \in Seq(Symbols)
    BY <1>3, <1>8, <2>1, WrittenTyped, PutTyped DEF WriteMore
  <2> DEFINE a == After(srv.piece)
             i == srv.piece + 1
  <2>3. a \in {"more", "final", "done"} /\ (a = "more" => i <= Len(D.pieces))
    BY <2>1, AfterIs
  <2>4. srv' = [srv EXCEPT !.st = a, !.piece = i]
    BY <1>1, <1>8 DEF WriteMore
  <2>5. i \in Nat \ {0}
    BY <1>1
  <2> HIDE DEF a, i, N
  <2>6. srv' \in S /\ srv'.st = a /\ srv'.piece = i /\ srv'.n = srv.n
    BY <1>1, <2>3, <2>4, <2>5
  <2> HIDE DEF P, S
  <2> QED BY <1>4, <2>2, <2>3, <2>6
<1>9. CASE WriteFinal
  <2>1. wire' \in Seq(Symbols)
    BY <1>3, <1>9, WrittenTyped, PutTyped DEF WriteFinal
  <2>2. srv' = [srv EXCEPT !.st = "done"]
    BY <1>9 DEF WriteFinal
  <2> HIDE DEF N, P
  <2> QED BY <1>1, <2>1, <2>2
<1>10. CASE WriteDone
  <2>1. wire' = wire
    BY <1>10 DEF WriteDone
  <2>2. CASE srv' = [srv EXCEPT !.end = "closed"]
    <3> HIDE DEF N, P
    <3> QED BY <1>1, <2>1, <2>2
  <2>3. CASE ~(srv' = [srv EXCEPT !.end = "closed"])
    <3> DEFINE k == srv.n + 1
    <3>1. srv' = [srv EXCEPT !.n = k, !.st = "first", !.piece = 1] /\ srv.n # N
      BY <1>1, <1>10, <2>3 DEF WriteDone
    <3>2. k \in 1..N
      BY <1>1, <3>1
    <3> HIDE DEF k, N, P
    <3>3. srv' \in S /\ srv'.st = "first" /\ srv'.piece = 1
      <4>1. 1 \in Nat \ {0} /\ "first" \in {"first", "suspended0", "more", "suspended", "final", "done"}
        OBVIOUS
      <4> QED BY <1>0, <3>1, <3>2, <4>1, ServerMoves
    <3> HIDE DEF S
    <3> QED BY <1>1, <2>1, <3>3
  <2> QED BY <2>2, <2>3
<1>11. ASSUME NEW how \in {"closed", "silent"}, Leave(how) PROVE wire' \in Seq(Symbols) /\ At(srv')
  <2>1. wire' = wire /\ srv' = [srv EXCEPT !.end = how]
    BY <1>11 DEF Leave
  <2> HIDE DEF N, P
  <2> QED BY <1>1, <2>1
<1> HIDE DEF At
<1> QED BY <1>5, <1>6, <1>7, <1>8, <1>9, <1>10, <1>11

\* A step that leaves parser, buffer and wire alone, and does not go to read.
LEMMA ControlKeeps ==
  ASSUME HInv, Connect \/ Request \/ Succeed \/ Throw
  PROVE  HInv'
<1>1. UNCHANGED <<msgs, srv, wire, sb>>
  BY DEF Connect, Request, Succeed, Throw
<1>2. ReaderAt' /\ rd'.pc # "read"
  BY DEF HInv, ReaderAt, Connect, Request, Succeed, Throw, Return
<1>3. ServerAt'
  BY <1>1 DEF HInv, ServerAt
<1> QED BY <1>1, <1>2, <1>3 DEF HInv

\* What was in the buffer is consumed unless the message is over.
LEMMA ParseKeeps == ASSUME HInv, Parse PROVE HInv'
<1> DEFINE w == Write(rd.p, Data(sb))
           z == sb.in_size
           pc == IF w.p.ec # "none" THEN "failed" ELSE IF complete(w.p) THEN "complete" ELSE "read"
           c == Consume(sb, w.used)
<1>1. /\ UNCHANGED <<msgs, srv, wire>>
      /\ sb' = IF w.p.ec # "none" THEN sb ELSE c
  BY DEF Parse
<1>2. Single(Symbols, sb) /\ ReaderAt
  BY DEF HInv
<1>3. Wrote(w, z)
  <2>1. /\ Data(sb) \in Seq(Seq(Symbols)) /\ Len(Data(sb)) = Len(sb.list) /\ Len(sb.list) \in {0, 1}
        /\ sb.list = <<>> => z = 0
        /\ sb.list # <<>> => Len(Data(sb)[1]) = z
    BY <1>2, DataSingle
  <2>2. Data(sb) = <<>> <=> sb.list = <<>>
    <3> DEFINE T == Seq(Symbols)
    <3>1. Data(sb) \in Seq(T) /\ sb.list \in Seq(T)
      BY <1>2, <2>1, ShapedFacts DEF Single
    <3>2. Len(Data(sb)) = Len(sb.list)
      BY <2>1
    <3> HIDE DEF T
    <3> QED BY <3>1, <3>2, EmptySeq
  <2>3. Len(Data(sb)) <= 1
    <3> DEFINE n == Len(Data(sb))
    <3>1. n \in {0, 1}
      BY <2>1
    <3> HIDE DEF n
    <3>2. n <= 1
      BY <3>1
    <3> QED BY <3>2 DEF n
  <2>4. Wrote(w, IF Data(sb) = <<>> THEN 0 ELSE Len(Data(sb)[1]))
    BY <1>2, <2>1, <2>3, WriteTakesAll DEF ReaderAt
  <2>5. (IF Data(sb) = <<>> THEN 0 ELSE Len(Data(sb)[1])) = z
    <3> HIDE DEF z
    <3> QED BY <2>1, <2>2
  <2> HIDE DEF w, z
  <2> QED BY <2>4, <2>5
<1>4. z \in Nat
  BY <1>2, ShapedFacts DEF Single
<1>5. w.used \in Nat /\ Came(w.p)
  <2> HIDE DEF w, z
  <2> QED BY <1>3, <1>4 DEF Wrote
<1>6. Single(Symbols, c) /\ (w.used >= z => c.in_size = 0)
  <2> HIDE DEF w
  <2> QED BY <1>2, <1>5, ConsumeSingle
<1>7. ReaderAt' /\ rd'.pc = pc
  <2> DEFINE u == rd.used + w.used
             got == rd.got_some \/ w.used > 0
             q == w.p
  <2>1. rd' = [rd EXCEPT !.p = q, !.ec = q.ec, !.used = u, !.got_some = got, !.pc = pc]
    BY DEF Parse
  <2>2. Came(q)
    BY <1>5
  <2>3. DOMAIN rd = {"n", "pc", "p", "got_some", "used", "ec", "result"}
    BY <1>2 DEF ReaderAt
  <2> HIDE DEF u, got, pc, w, q
  <2>4. DOMAIN rd' = DOMAIN rd /\ rd'.p = q /\ rd'.pc = pc
    BY <2>1, <2>3
  <2> QED BY <2>2, <2>3, <2>4 DEF ReaderAt
<1>8. Single(Symbols, sb') /\ (pc = "read" => sb'.in_size = 0)
  <2>1. pc = "read" => w.p.ec = "none" /\ w.used = z
    <3> HIDE DEF w, z
    <3> QED BY <1>3 DEF Wrote
  <2> HIDE DEF w, c, pc
  <2>2. Single(Symbols, sb')
    BY <1>1, <1>2, <1>6
  <2>3. ASSUME pc = "read" PROVE sb'.in_size = 0
    <3>1. sb' = c /\ w.used = z
      BY <1>1, <2>1, <2>3
    <3>2. w.used >= z
      <4> HIDE DEF z
      <4> QED BY <1>4, <3>1
    <3> QED BY <1>6, <3>1, <3>2
  <2> QED BY <2>2, <2>3
<1>9. ServerAt'
  BY <1>1 DEF HInv, ServerAt
<1> HIDE DEF w, c, pc, z
<1> QED BY <1>1, <1>7, <1>8, <1>9 DEF HInv

\* What is read goes into one element.
LEMMA ReadKeeps == ASSUME HInv, ReadSome PROVE HInv'
<1> DEFINE size == read_size_helper(sb, MaxRead, AllocSize)
<1>1. UNCHANGED <<msgs, srv>> /\ rd.pc = "read" /\ rd' = [rd EXCEPT !.pc = "parse"]
  BY DEF ReadSome
<1>2. PICK n \in 1..Smaller(size, Len(wire)) :
        /\ sb' = Commit(Fill(Prepare(sb, size, AllocSize), SubSeq(wire, 1, n)), n)
        /\ wire' = SubSeq(wire, n + 1, Len(wire))
  BY DEF ReadSome
<1>3. Single(Symbols, sb) /\ sb.in_size = 0 /\ wire \in Seq(Symbols) /\ ReaderAt
  BY <1>1 DEF HInv
<1>4. /\ MaxRead \in Nat /\ AllocSize \in Nat /\ AllocSize \in Nat \ {0} /\ Raw \in Symbols
  BY ExchangeAssumption, SymbolsIs DEF Words
<1>5. size \in Nat
  BY <1>3, <1>4, PrepareSingle
<1> HIDE DEF size
<1>6. n \in Nat /\ n <= size /\ n <= Len(wire) /\ Len(wire) \in Nat
  <2> DEFINE l == Len(wire)
  <2>1. l \in Nat /\ n \in 1..Smaller(size, l)
    BY <1>3
  <2> HIDE DEF l
  <2>2. n \in Nat /\ n <= size /\ n <= l
    BY <1>5, <2>1 DEF Smaller
  <2> QED BY <2>1, <2>2 DEF l
<1> DEFINE s == SubSeq(wire, 1, n)
<1>7. s \in Seq(Symbols) /\ Len(s) = n
  BY <1>3, <1>6
<1>8. wire' \in Seq(Symbols)
  BY <1>2, <1>3, <1>6
<1>9. sb' = Written(sb, s, size, AllocSize)
  BY <1>2, <1>7 DEF Written
<1>10. Len(s) <= size
  BY <1>6, <1>7
<1> HIDE DEF s
<1>11. Single(Symbols, sb')
  BY <1>3, <1>4, <1>7, <1>9, <1>10, ReadSingle DEF size
<1>12. ReaderAt' /\ rd'.pc # "read"
  BY <1>1, <1>3 DEF ReaderAt
<1>13. ServerAt'
  BY <1>1 DEF HInv, ServerAt
<1> QED BY <1>1, <1>8, <1>11, <1>12, <1>13 DEF HInv

\* The end of the stream, the body behind the header, and the next message.
LEMMA ReaderKeeps == ASSUME HInv, ReadEof \/ ReadBody \/ NextMessage PROVE HInv'
<1>1. UNCHANGED <<msgs, srv, wire, sb>>
  BY DEF ReadEof, ReadBody, NextMessage
<1>2. ReaderAt
  BY DEF HInv
<1>3. ReaderAt' /\ rd'.pc # "read"
  <2>1. CASE ReadEof
    <3> DEFINE p == WriteEof(rd.p)
    <3>1. Came(p)
      BY <1>2, EofCame DEF ReaderAt
    <3> DEFINE pc == IF p.ec = "none" THEN "complete" ELSE "failed"
    <3>2. \/ rd' = [rd EXCEPT !.ec = "eof", !.pc = "failed"]
          \/ rd' = [rd EXCEPT !.p = p, !.ec = p.ec, !.pc = pc]
      BY <2>1, Zenon DEF ReadEof
    <3>3. pc # "read"
      OBVIOUS
    <3> HIDE DEF p, pc
    <3> QED BY <1>2, <3>1, <3>2, <3>3 DEF ReaderAt
  <2>2. CASE ReadBody
    <3>1. Came(WithBody(rd.p))
      BY <1>2, BodyCameIn DEF ReaderAt
    <3> QED BY <1>2, <2>2, <3>1 DEF ReaderAt, ReadBody
  <2>3. CASE NextMessage
    <3> DEFINE q == NewParser(msgs[rd.n + 1].request, caller = "header")
    <3>1. Came(q)
      BY NewCame
    <3>2. rd' = [n |-> rd.n + 1, pc |-> "parse", p |-> q, got_some |-> FALSE,
                 used |-> 0, ec |-> "none", result |-> "none"]
      BY <2>3 DEF NextMessage, Reader
    <3> HIDE DEF q
    <3> QED BY <3>1, <3>2 DEF ReaderAt
  <2> QED BY <2>1, <2>2, <2>3
<1>4. ServerAt'
  BY <1>1 DEF HInv, ServerAt
<1> QED BY <1>1, <1>3, <1>4 DEF HInv

\* An inductive invariant of reader, writer and streambuf: between two calls of
\* write the parser is in a state that it goes on from or says that it is
\* complete, the streambuf has one element at most, and nothing is left in it when
\* more is read (parse, basic_parser_v1::write, read_size_helper).
THEOREM HttpInductive == Spec => []HInv
<1>1. Init => HInv
  BY InitHolds
<1>2. HInv /\ [Next]_xvars => HInv'
  <2> SUFFICES ASSUME HInv, [Next]_xvars PROVE HInv'
    OBVIOUS
  <2>1. CASE UNCHANGED xvars
    BY <2>1 DEF xvars, HInv, ServerAt, ReaderAt
  <2>2. CASE Next
    BY <2>2, WriterKeeps, ControlKeeps, ParseKeeps, ReadKeeps, ReaderKeeps DEF Next
  <2> QED BY <2>1, <2>2
<1> QED BY <1>1, <1>2, PTL DEF Spec

\* What parse() hands to the parser is one buffer, whatever is sent, however it is
\* cut and however the streambuf allocates, so that the loop of write over buffers
\* turns once (parse_op, read_size_helper).
THEOREM ParsesOneBuffer == Spec => []OneBuffer
<1>1. HInv => OneBuffer
  <2> SUFFICES ASSUME HInv PROVE Cardinality({i \in 1..Len(Data(sb)) : Data(sb)[i] # <<>>}) <= 1
    BY DEF OneBuffer
  <2> DEFINE n == Len(Data(sb))
             S == {i \in 1..n : Data(sb)[i] # <<>>}
  <2>1. n \in {0, 1}
    BY DataSingle DEF HInv
  <2>2. S \subseteq 1..n /\ n \in Nat
    BY <2>1
  <2>3. Cardinality(S) <= Cardinality(1..n) /\ Cardinality(1..n) = n /\ Cardinality(S) \in Nat
    <3> HIDE DEF S, n
    <3>1. IsFiniteSet(1..n) /\ Cardinality(1..n) = n
      <4>1. 1 \in Int /\ n \in Int /\ (1 > n => n = 0)
        BY <2>1
      <4> QED BY <2>1, <4>1, FS_Interval
    <3>2. IsFiniteSet(S) /\ Cardinality(S) <= Cardinality(1..n)
      BY <2>2, <3>1, FS_Subset
    <3> QED BY <3>1, <3>2, FS_CardinalityType
  <2>4. Cardinality(S) <= 1
    <3> HIDE DEF S, n
    <3> QED BY <2>1, <2>3
  <2> QED BY <2>4
<1> QED BY <1>1, HttpInductive, PTL
=============================================================================
