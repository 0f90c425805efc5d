----------------------------- MODULE HttpParser -----------------------------
(***************************************************************************)
(* beast::http::basic_parser_v1 (impl/basic_parser_v1.ipp) driven by       *)
(* parser_v1 or header_parser_v1: one symbol at a time, any state kept     *)
(* from one buffer to the next.                                            *)
(*                                                                         *)
(* A word the parser looks for is two symbols, its first letter and the    *)
(* rest ("c" "lose"), so that a buffer may end inside it; pos_ is then     *)
(* which of the two is next.  The characters of a fixed start line part    *)
(* are one symbol.                                                         *)
(***************************************************************************)
EXTENDS Naturals, SequencesExt, FiniteSetsExt

CONSTANTS
  HMax,      \* h_max_
  NoLength   \* no_content_length

Digits == {"0", "1", "2", "3"}
Val(ch) == CASE ch = "0" -> 0 [] ch = "1" -> 1 [] ch = "2" -> 2 [] ch = "3" -> 3

Tails == {"onnection", "ontent-length", "ransfer-encoding", "pgrade",
          "eep-alive", "lose", "hunked"}
TChar == Digits \cup Tails \cup {"c", "k", "t", "u", "x", "b"}
Versions == {"HTTP/1.0", "HTTP/1.1"}
Statuses == {"101", "200", "204", "304"}
OWS == {"SP"}
Text == TChar \cup OWS \cup {",", ":", ";"}

EmptyMsg == [status |-> "none", version |-> "none", fields |-> <<>>, field |-> <<>>,
             value |-> <<>>, flush |-> FALSE, text |-> <<>>, body |-> <<>>, complete |-> FALSE]

NewParser(request, pause) ==
  [request |-> request, pause |-> pause,
   s |-> IF request THEN "req_start" ELSE "res_start", fs |-> "general",
   len |-> NoLength, flags |-> {}, upgrade |-> FALSE, cb |-> "none",
   piece |-> <<>>, h_left |-> HMax, version |-> "none", status |-> "none",
   ec |-> "none", returned |-> FALSE, m |-> EmptyMsg]

-----------------------------------------------------------------------------
(* The message: callbacks of parser_v1.                                    *)

\* detail::trim
Trim(v) ==
  LET ink == {i \in 1..Len(v) : v[i] \notin OWS}
  IN  IF ink = {} THEN <<>> ELSE SubSeq(v, Min(ink), Max(ink))

Flush(m) ==
  IF m.flush
    THEN [m EXCEPT !.flush = FALSE, !.field = <<>>, !.value = <<>>,
                   !.fields = Append(@, [name |-> m.field, value |-> Trim(m.value)])]
    ELSE m

Called(m, cb, piece) ==
  CASE cb = "field" -> LET f == Flush(m) IN [f EXCEPT !.field = @ \o piece]
    [] cb = "value" -> [m EXCEPT !.value = @ \o piece, !.flush = TRUE]
    [] cb = "text"  -> [m EXCEPT !.text = @ \o piece]
    [] cb = "body"  -> [m EXCEPT !.body = @ \o piece]

Fail(p, ev) == [p EXCEPT !.ec = ev, !.s = "dead"]

\* call_on_field and the like: what belongs to the header counts against h_max_.
Call(p, cb, piece) ==
  IF cb # "body" /\ HMax > 0 /\ Len(piece) > p.h_left
    THEN Fail(p, "header_too_big")
    ELSE [p EXCEPT !.m = Called(@, cb, piece),
                   !.h_left = IF cb = "body" \/ HMax = 0 THEN @ ELSE @ - Len(piece)]

\* cb(next): deliver the piece read so far.
SetCb(p, next) == IF p.ec # "none" THEN p ELSE [p EXCEPT !.cb = next, !.piece = <<>>]
Cb(p, next) == SetCb(IF p.cb # "none" /\ p.piece # <<>> THEN Call(p, p.cb, p.piece) ELSE p, next)

\* The same without error, then state s.
To(p, s) == IF p.ec # "none" THEN p ELSE [p EXCEPT !.s = s]

-----------------------------------------------------------------------------
\* Mutant of needs_eof: the status is not looked at.
needs_eof_always(p) == ~p.request /\ "chunked" \notin p.flags /\ p.len = NoLength

needs_eof(p) ==
  /\ ~p.request
  /\ p.status \notin {"101", "204", "304"} /\ "skipbody" \notin p.flags
  /\ "chunked" \notin p.flags /\ p.len = NoLength

keep_alive(p) ==
  /\ IF p.version = "HTTP/1.1" THEN "close" \notin p.flags
                               ELSE "keep_alive" \in p.flags
  /\ ~needs_eof(p)

\* reset()
Reset(p) == [p EXCEPT !.s = IF p.request THEN "req_start" ELSE "res_start",
                      !.cb = "none", !.piece = <<>>, !.h_left = HMax]

\* s_complete: the message is over and write() returns.
Completed(p) ==
  IF p.ec # "none" THEN p ELSE [p EXCEPT !.s = "restart", !.returned = TRUE, !.m.complete = TRUE]
Complete(p) == Completed(Cb(p, "none"))

\* s_headers_done: where the body ends.  Entered with the last symbol of the
\* header, or, after a pause, before the next symbol, with again = TRUE.
HeadersDone(p) ==
  LET hasBody == "chunked" \in p.flags \/ p.len \notin {0, NoLength}
  IN  IF (p.upgrade /\ ~hasBody) \/ "skipbody" \in p.flags \/ p.len = 0 THEN Complete(p)
      ELSE IF "chunked" \in p.flags THEN To(p, "chunk_size0")
      ELSE IF p.len # NoLength THEN To(p, "body_identity0")
      ELSE IF needs_eof(p) THEN To(p, "body_identity_eof0")
      ELSE Complete(p)

\* s_headers_almost_done
MaybePause(p) ==
  IF p.pause THEN [p EXCEPT !.s = "body_pause", !.flags = @ \cup {"paused"}, !.returned = TRUE]
  ELSE HeadersDone(p)

HeadersAlmostDone(p) ==
  IF "trailing" \in p.flags THEN Complete(p)
  ELSE IF {"chunked", "contentlength"} \subseteq p.flags
    THEN Fail(p, "illegal_content_length")
  ELSE MaybePause([p EXCEPT !.upgrade = {"upgrade", "connection_upgrade"} \subseteq p.flags,
                            !.m = Flush([@ EXCEPT !.version = p.version])])

-----------------------------------------------------------------------------
(* Header fields.                                                          *)

\* s_header_name0 and the first letter of the names that matter.
NameStart(ch) ==
  CASE ch = "c" -> "C" [] ch = "t" -> "m_transfer_encoding" [] ch = "u" -> "m_upgrade"
    [] OTHER -> "general"

NameNext(fs, ch) ==
  CASE fs = "C" /\ ch = "onnection" -> "connection"
    [] fs = "C" /\ ch = "ontent-length" -> "content_length0"
    [] fs = "m_transfer_encoding" /\ ch = "ransfer-encoding" -> "transfer_encoding"
    [] fs = "m_upgrade" /\ ch = "pgrade" -> "upgrade"
    [] OTHER -> "general"

\* A token of the Connection field that is complete: a separator follows.
AfterToken(p, ch, ows, flag) ==
  CASE ch = "," -> [p EXCEPT !.fs = "connection", !.flags = @ \cup flag]
    [] ch \in OWS -> [p EXCEPT !.fs = ows]
    [] ch \in TChar -> [p EXCEPT !.fs = "connection_token"]
    [] OTHER -> Fail(p, "bad_value")

AfterOws(p, ch, flag) ==
  CASE ch = "," -> [p EXCEPT !.fs = "connection", !.flags = @ \cup flag]
    [] ch \in OWS -> p
    [] OTHER -> Fail(p, "bad_value")

\* A word of two symbols whose first was read.
Match(p, ch, rest, hit, miss) == [p EXCEPT !.fs = IF ch = rest THEN hit ELSE miss]

\* s_header_value: the fields the parser itself looks at.
ConnectionStates == {"connection", "m_keep_alive", "m_close", "m_con_upgrade", "keep_alive",
                     "keep_alive_ows", "close", "close_ows", "con_upgrade", "con_upgrade_ows",
                     "connection_token", "connection_token_ows"}

ConnectionField(p, ch) ==
  CASE p.fs = "connection" ->
         IF ch \in OWS \cup {","} THEN p
         ELSE IF ch \notin TChar THEN Fail(p, "bad_value")
         ELSE [p EXCEPT !.fs = CASE ch = "k" -> "m_keep_alive" [] ch = "c" -> "m_close"
                                 [] ch = "u" -> "m_con_upgrade" [] OTHER -> "connection_token"]
    [] p.fs = "m_keep_alive" -> Match(p, ch, "eep-alive", "keep_alive", "connection_token")
    [] p.fs = "m_close" -> Match(p, ch, "lose", "close", "connection_token")
    [] p.fs = "m_con_upgrade" -> Match(p, ch, "pgrade", "con_upgrade", "connection_token")
    [] p.fs = "keep_alive" -> AfterToken(p, ch, "keep_alive_ows", {"keep_alive"})
    [] p.fs = "keep_alive_ows" -> AfterOws(p, ch, {"keep_alive"})
    [] p.fs = "close" -> AfterToken(p, ch, "close_ows", {"close"})
    [] p.fs = "close_ows" -> AfterOws(p, ch, {"close"})
    [] p.fs = "con_upgrade" -> AfterToken(p, ch, "con_upgrade_ows", {"connection_upgrade"})
    [] p.fs = "con_upgrade_ows" -> AfterOws(p, ch, {"connection_upgrade"})
    [] p.fs = "connection_token" -> AfterToken(p, ch, "connection_token_ows", {})
    [] p.fs = "connection_token_ows" -> AfterOws(p, ch, {})

FramingField(p, ch) ==
  CASE p.fs = "content_length0" ->
         IF ch \notin Digits THEN Fail(p, "bad_content_length")
         ELSE [p EXCEPT !.len = Val(ch), !.fs = "content_length"]
    [] p.fs = "content_length" ->
         IF ch \in OWS THEN [p EXCEPT !.fs = "content_length_ows"]
         ELSE IF ch \notin Digits \/ p.len > (NoLength - 10) \div 10
           THEN Fail(p, "bad_content_length")
         ELSE [p EXCEPT !.len = @ * 10 + Val(ch)]
    [] p.fs = "content_length_ows" ->
         IF ch \in OWS THEN p ELSE Fail(p, "bad_content_length")
    [] p.fs = "transfer_encoding" ->
         IF ch = "c" THEN [p EXCEPT !.fs = "m_chunked"]
         ELSE IF ch \in OWS \cup {","} THEN p
         ELSE [p EXCEPT !.fs = "te_general"]
    [] p.fs = "m_chunked" -> Match(p, ch, "hunked", "te_chunked", "te_general")
    [] p.fs = "te_general" -> IF ch = "," THEN [p EXCEPT !.fs = "transfer_encoding"] ELSE p
    [] p.fs = "te_chunked" ->
         IF ch \in OWS \cup {","} THEN p ELSE [p EXCEPT !.fs = "transfer_encoding"]
    [] p.fs = "upgrade" -> [p EXCEPT !.flags = @ \cup {"upgrade"}, !.fs = "general"]
    [] OTHER -> p

FieldValue(p, ch) ==
  IF p.fs \in ConnectionStates THEN ConnectionField(p, ch) ELSE FramingField(p, ch)

\* s_header_value_almost_done, the line is folded.
Unfolded(fs) ==
  CASE fs \in {"m_keep_alive", "m_close", "m_con_upgrade"} -> "connection_token_ows"
    [] fs = "close" -> "close_ows" [] fs = "keep_alive" -> "keep_alive_ows"
    [] fs = "con_upgrade" -> "con_upgrade_ows" [] fs = "content_length" -> "content_length_ows"
    [] fs = "m_chunked" -> "te_general"
    [] OTHER -> fs

\* Mutant of ValueFlags: the space behind a word is forgotten.
ValueFlagsTight(fs) ==
  CASE fs = "keep_alive" -> {"keep_alive"} [] fs = "close" -> {"close"}
    [] fs = "con_upgrade" -> {"connection_upgrade"} [] fs = "te_chunked" -> {"chunked"}
    [] OTHER -> {}

\* and where the value ends.
ValueFlags(fs) ==
  CASE fs \in {"keep_alive", "keep_alive_ows"} -> {"keep_alive"}
    [] fs \in {"close", "close_ows"} -> {"close"}
    [] fs \in {"con_upgrade", "con_upgrade_ows"} -> {"connection_upgrade"}
    [] fs = "te_chunked" -> {"chunked"}
    [] OTHER -> {}

-----------------------------------------------------------------------------
(* One symbol.  A state that the code leaves with "goto redo" hands the    *)
(* same symbol to the next state.                                          *)

Collect(p, ch) == IF p.cb = "none" \/ p.ec # "none" THEN p ELSE [p EXCEPT !.piece = Append(@, ch)]

Expect(p, ch, want, s, ev) == IF ch = want THEN [p EXCEPT !.s = s] ELSE Fail(p, ev)

RequestStates == {"req_start", "req_method", "req_url0", "req_url", "req_http", "req_cr", "req_lf"}
StatusStates == {"res_start", "res_status", "res_reason0", "res_reason", "res_line_lf"}

RequestLine(p, ch) ==
  CASE p.s = "req_start" ->
         LET q == [p EXCEPT !.flags = {}, !.len = NoLength]
         IN  IF ch \notin TChar THEN Fail(q, "bad_method")
             ELSE Collect(To(Cb([q EXCEPT !.cb = "none"], "text"), "req_method"), ch)
    [] p.s = "req_method" ->
         IF ch = "SP" THEN To(Cb(p, "none"), "req_url0")
         ELSE IF ch \notin TChar THEN Fail(p, "bad_method") ELSE Collect(p, ch)
    [] p.s = "req_url0" ->
         IF ch = "SP" \/ ch \notin Text THEN Fail(p, "bad_uri")
         ELSE Collect(To(Cb(p, "text"), "req_url"), ch)
    [] p.s = "req_url" ->
         IF ch = "SP" THEN To(Cb(p, "none"), "req_http")
         ELSE IF ch \notin Text THEN Fail(p, "bad_uri") ELSE Collect(p, ch)
    [] p.s = "req_http" ->
         IF ch \notin Versions THEN Fail(p, "bad_version")
         ELSE [p EXCEPT !.version = ch, !.s = "req_cr"]
    [] p.s = "req_cr" -> Expect(p, ch, "CR", "req_lf", "bad_version")
    [] p.s = "req_lf" -> Expect(p, ch, "LF", "header_name0", "bad_crlf")

StatusLine(p, ch) ==
  CASE p.s = "res_start" ->
         IF ch \notin Versions THEN Fail(p, "bad_version")
         ELSE [p EXCEPT !.flags = {}, !.len = NoLength, !.cb = "none",
                        !.version = ch, !.s = "res_status"]
    [] p.s = "res_status" ->
         IF ch \notin Statuses THEN Fail(p, "bad_status")
         ELSE [p EXCEPT !.status = ch, !.s = "res_reason0"]
    [] p.s = "res_reason0" ->
         IF ch = "CR" THEN [p EXCEPT !.s = "res_line_lf"]
         ELSE IF ch \notin Text THEN Fail(p, "bad_reason")
         ELSE Collect(To(Cb(p, "text"), "res_reason"), ch)
    [] p.s = "res_reason" ->
         IF ch = "CR" THEN To(Cb(p, "none"), "res_line_lf")
         ELSE IF ch \notin Text THEN Fail(p, "bad_reason") ELSE Collect(p, ch)
    [] p.s = "res_line_lf" -> Expect(p, ch, "LF", "res_line_done", "bad_crlf")

HeaderName0(p, ch) ==
  IF ch = "CR" THEN [p EXCEPT !.s = "headers_almost_done"]
  ELSE IF ch \notin TChar THEN Fail(p, "bad_field")
  ELSE Collect(To(Cb([p EXCEPT !.fs = NameStart(ch)], "field"), "header_name"), ch)

\* s_header_value: the loop over the value.
HeaderValue(p, ch) ==
  IF ch = "CR" THEN To(Cb(p, "none"), "header_value_lf")
  ELSE IF ch \notin Text THEN Fail(p, "bad_value")
  ELSE Collect(FieldValue(p, ch), ch)

HeaderValue0(p, ch) ==
  IF ch \in OWS THEN p
  ELSE IF ch = "CR" THEN [p EXCEPT !.s = "header_value0_lf"]
  ELSE HeaderValue(To(Cb(IF p.fs = "content_length0"
                           THEN [p EXCEPT !.len = 0, !.flags = @ \cup {"contentlength"}]
                           ELSE p, "value"), "header_value"), ch)

Header(p, ch) ==
  CASE p.s = "res_line_done" -> HeaderName0([p EXCEPT !.m.status = p.status], ch)
    [] p.s = "header_name0" -> HeaderName0(p, ch)
    [] p.s = "header_name" ->
         IF ch = ":" THEN To(Cb(p, "none"), "header_value0")
         ELSE IF ch \notin TChar THEN Fail(p, "bad_field")
         ELSE LET fs == NameNext(p.fs, ch)
              IN  IF fs = "content_length0" /\ "contentlength" \in p.flags
                    THEN Fail(p, "bad_content_length")
                    ELSE Collect([p EXCEPT !.fs = fs], ch)
    [] p.s = "header_value0" -> HeaderValue0(p, ch)
    [] p.s = "header_value" -> HeaderValue(p, ch)
    [] p.s = "header_value0_lf" -> Expect(p, ch, "LF", "header_value0_almost_done", "bad_crlf")
    [] p.s = "header_value0_almost_done" ->
         IF ch \in OWS THEN [p EXCEPT !.s = "header_value0"]
         ELSE IF p.fs = "content_length0" THEN Fail(p, "bad_content_length")
         ELSE HeaderName0(Call(IF p.fs = "upgrade"
                                 THEN [p EXCEPT !.flags = @ \cup {"upgrade"}] ELSE p,
                               "value", <<>>), ch)
    [] p.s = "header_value_lf" -> Expect(p, ch, "LF", "header_value_almost_done", "bad_crlf")
    [] p.s = "header_value_almost_done" ->
         IF ch \in OWS
           THEN Call([p EXCEPT !.fs = Unfolded(p.fs), !.s = "header_value_unfold"],
                     "value", <<"SP">>)
           ELSE HeaderName0([p EXCEPT !.flags = @ \cup ValueFlags(p.fs)], ch)
    [] p.s = "header_value_unfold" -> HeaderValue(To(Cb(p, "value"), "header_value"), ch)
    [] p.s = "headers_almost_done" ->
         IF ch = "LF" THEN HeadersAlmostDone(p) ELSE Fail(p, "bad_crlf")

\* s_body_identity and s_chunk_data take what the buffer has of the length left.
Taken(p, last) ==
  IF p.len # 0 THEN p ELSE IF last = "complete" THEN Complete(p) ELSE To(p, last)
Take(p, ch, last) == Taken(Collect([p EXCEPT !.len = @ - 1], ch), last)

Body(p, ch) ==
  CASE p.s = "body_identity0" -> Take(To(Cb(p, "body"), "body_identity"), ch, "complete")
    [] p.s = "body_identity" -> Take(p, ch, "complete")
    [] p.s = "body_identity_eof0" -> Collect(To(Cb(p, "body"), "body_identity_eof"), ch)
    [] p.s = "body_identity_eof" -> Collect(p, ch)
    [] p.s = "chunk_size0" ->
         IF ch \notin Digits THEN Fail(p, "invalid_chunk_size")
         ELSE [p EXCEPT !.len = Val(ch), !.s = "chunk_size"]
    [] p.s = "chunk_size" ->
         IF ch = "CR" THEN [p EXCEPT !.s = "chunk_size_lf"]
         ELSE IF ch = ";" THEN [p EXCEPT !.s = "chunk_ext_name0"]
         ELSE IF ch \notin Digits THEN Fail(p, "invalid_chunk_size")
         ELSE IF p.len > (NoLength - 16) \div 16 THEN Fail(p, "bad_content_length")
         ELSE [p EXCEPT !.len = @ * 16 + Val(ch)]
    [] p.s = "chunk_ext_name0" ->
         IF ch \in TChar THEN [p EXCEPT !.s = "chunk_ext_name"] ELSE Fail(p, "invalid_ext_name")
    [] p.s = "chunk_ext_name" ->
         IF ch = "CR" THEN [p EXCEPT !.s = "chunk_size_lf"]
         ELSE IF ch = "=" THEN [p EXCEPT !.s = "chunk_ext_val"]
         ELSE IF ch = ";" THEN [p EXCEPT !.s = "chunk_ext_name0"]
         ELSE IF ch \in TChar THEN p ELSE Fail(p, "invalid_ext_name")
    [] p.s = "chunk_ext_val" -> IF ch = "CR" THEN [p EXCEPT !.s = "chunk_size_lf"] ELSE p
    [] p.s = "chunk_size_lf" ->
         IF ch # "LF" THEN Fail(p, "bad_crlf")
         ELSE IF p.len = 0
           THEN [p EXCEPT !.flags = @ \cup {"trailing"}, !.s = "header_name0"]
           ELSE [p EXCEPT !.s = "chunk_data0"]
    [] p.s = "chunk_data0" -> Take(To(Cb(p, "body"), "chunk_data"), ch, "chunk_data_cr")
    [] p.s = "chunk_data" -> Take(p, ch, "chunk_data_cr")
    [] p.s = "chunk_data_cr" ->
         IF ch = "CR" THEN To(Cb(p, "none"), "chunk_data_lf") ELSE Fail(p, "bad_crlf")
    [] p.s = "chunk_data_lf" -> Expect(p, ch, "LF", "chunk_size0", "bad_crlf")

HeaderStates == {"res_line_done", "header_name0", "header_name", "header_value0",
                 "header_value", "header_value0_lf", "header_value0_almost_done",
                 "header_value_lf", "header_value_almost_done", "header_value_unfold",
                 "headers_almost_done"}

\* The states a symbol is handled in.
EatIn(p, ch) ==
  IF p.ec # "none" THEN p
  ELSE IF p.s \in RequestStates THEN RequestLine(p, ch)
  ELSE IF p.s \in StatusStates THEN StatusLine(p, ch)
  ELSE IF p.s \in HeaderStates THEN Header(p, ch)
  ELSE Body(p, ch)

\* The message is over, or paused, without the symbol.
Leaves(p) == p.s = "body_pause" /\ (p.pause \/ HeadersDone(p).returned)

\* s_body_pause and s_restart come before a symbol is handled.  Where the
\* message is over at once, after a pause, the symbol is not consumed.
Ready(p) ==
  CASE p.s = "restart" -> Reset(p) [] p.s = "body_pause" -> HeadersDone(p) [] OTHER -> p

Eat(p, ch) ==
  CASE p.s \in {"dead", "closed_complete"} -> Fail(p, "connection_closed")
    [] p.s = "restart" /\ ~keep_alive(p) -> Fail(p, "connection_closed")
    [] Leaves(p) -> IF p.pause THEN [p EXCEPT !.returned = TRUE] ELSE HeadersDone(p)
    [] OTHER -> EatIn(Ready(p), ch)

\* Mutant of EndOfBuffer: what the buffer ends in is left for the next.
EndOfBufferKeeps(p) == [p EXCEPT !.piece = <<>>]

\* The piece that the buffer ends in is delivered.
EndOfBuffer(p) ==
  IF p.cb = "none" THEN p ELSE [Call(p, p.cb, p.piece) EXCEPT !.piece = <<>>]

\* write(const_buffer): symbols until the message is over or wrong.
Fed(r, q) ==
  [p |-> q, used |-> IF Leaves(r.p) \/ q.ec # "none" THEN r.used ELSE r.used + 1]
Over(p) == p.ec # "none" \/ p.returned
Handled(r) == IF Over(r.p) THEN r ELSE [r EXCEPT !.p = EndOfBuffer(@)]

WriteOne(p, buf) ==
  Handled(FoldLeft(LAMBDA r, ch : IF Over(r.p) THEN r ELSE Fed(r, Eat(r.p, ch)),
                   [p |-> [p EXCEPT !.returned = FALSE], used |-> 0], buf))

\* write(ConstBufferSequence): every buffer, the ones behind the message too.
Added(r, w) == [p |-> w.p, used |-> r.used + w.used]

Write(p, bufs) ==
  FoldLeft(LAMBDA r, b : IF r.p.ec # "none" \/ (b = <<>> /\ r.p.s # "dead") THEN r
                         ELSE Added(r, WriteOne(r.p, b)),
           [p |-> p, used |-> 0], bufs)

\* write_eof()
WriteEof(p) ==
  CASE p.s \in {"restart", "closed_complete"} -> [p EXCEPT !.s = "closed_complete"]
    [] p.s = "dead" -> p
    [] p.s \in {"body_identity_eof0", "body_identity_eof"} ->
         [p EXCEPT !.cb = "none", !.s = "closed_complete", !.m.complete = TRUE]
    [] OTHER -> Fail(p, "short_read")

\* with_body: the parser of the body takes over from the one of the header.
WithBody(p) == [p EXCEPT !.pause = FALSE, !.flags = @ \ {"paused"}, !.returned = FALSE]

complete(p) == p.s \in {"restart", "closed_complete"} \/ "paused" \in p.flags
=============================================================================
