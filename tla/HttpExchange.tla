---------------------------- MODULE HttpExchange ----------------------------
(***************************************************************************)
(* One connection over which messages are written by beast::http::write or *)
(* async_write (impl/write.ipp), after prepare (impl/message.ipp), or by a *)
(* server of another make, and read by beast::http::parse or async_parse   *)
(* (impl/parse.ipp) through a streambuf.  The reader is GetHttp            *)
(* (ServiceDiscovery.h), InfluxDB::Write or Query (InfluxDB.h), or a       *)
(* caller of read (impl/read.ipp) that keeps the connection.               *)
(*                                                                         *)
(* The network hands over any part of what was written; the peer may close *)
(* or fall silent after any write.                                         *)
(***************************************************************************)
EXTENDS HttpParser, StreamBuf, SequencesExt

CONSTANTS
  Traffic,    \* the sequences of messages that are sent
  Callers,    \* who reads: see Init
  AllocSize,  \* alloc_size_ of the streambuf
  MaxRead     \* 65536: what parse() asks for at most

ASSUME ExchangeAssumption == AllocSize \in Nat \ {0} /\ MaxRead \in Nat \ {0}

\* What may be sent.  The parts of a message are explained below, at Messages.
Field == [name : Seq(STRING), value : Seq(STRING)]
Message ==
  [request : BOOLEAN, by : {"beast", "other"}, version : Versions, status : STRING,
   user : Seq(Field), opt : STRING, known : BOOLEAN, pieces : Seq(Nat) \ {<<>>},
   trailers : Seq(Field)]

ASSUME TrafficAssumption == Traffic \subseteq Seq(Message) \ {<<>>}

Functions3 == {"GetHttp", "Write", "Query"}

VARIABLES
  msgs,    \* what is sent, a sequence of messages
  caller,
  srv,     \* the writer: message and piece it is at, state, how it ended
  wire,    \* written and not yet read
  sb,      \* the reader's streambuf
  rd       \* the reader: control, parser, number of the message, ...

xvars == <<msgs, caller, srv, wire, sb, rd>>

-----------------------------------------------------------------------------
(* Messages.  user: the fields its sender set, as name and value; pieces:  *)
(* the buffers its body is given in; known: the body's writer has a        *)
(* content_length; opt: the connection option given to prepare; status: a  *)
(* request's is its method.  by = "other": framing and trailers are the    *)
(* foreign server's.                                                       *)

Word(a, b) == <<a, b>>
ContentLength == Word("c", "ontent-length")
TransferEncoding == Word("t", "ransfer-encoding")
Connection == Word("c", "onnection")
Upgrade == Word("u", "pgrade")
Chunked == Word("c", "hunked")
Close == Word("c", "lose")
KeepAlive == Word("k", "eep-alive")

Digit(n) == CASE n = 0 -> "0" [] n = 1 -> "1" [] n = 2 -> "2" [] n = 3 -> "3"
F(name, value) == [name |-> name, value |-> value]
CrLf == <<"CR", "LF">>
Payload(n) == [i \in 1..n |-> "b"]
SumUp(s) == FoldSeq(LAMBDA x, y : x + y, 0, s)

\* token_list{...}.exists(t): tokens up to the first one without a comma before it.
HasToken(v, t) ==
  LET begins(i) == v[i] \in TChar /\ (i = 1 \/ v[i-1] \notin TChar)
      ends(j)   == v[j] \in TChar /\ (j = Len(v) \/ v[j+1] \notin TChar)
      legal(k)  == \A i \in 1..k : v[i] \in TChar \cup OWS \cup {","}
      apart(k)  == \A i \in 2..k : begins(i) =>
                     \/ \A h \in 1..(i-1) : v[h] \notin TChar
                     \/ \E h \in 1..(i-1) : v[h] = "," /\ \A g \in h..(i-1) : v[g] \notin TChar
  IN  \E i, j \in 1..Len(v) : /\ i <= j /\ begins(i) /\ ends(j)
                              /\ \A k \in i..j : v[k] \in TChar
                              /\ SubSeq(v, i, j) = t /\ legal(j) /\ apart(i)

\* fields[name]: the first field of that name.
Value(fs, name) ==
  LET at == {i \in 1..Len(fs) : fs[i].name = name}
  IN  IF at = {} THEN <<>> ELSE fs[Min(at)].value

Exists(fs, name) == \E i \in 1..Len(fs) : fs[i].name = name

Bodyless == {"101", "204", "304"}

\* set_field in prepare(): a request says how long its body is when it has one
\* or is a POST, a response unless its status has no body.
SetsLength(d) ==
  IF d.request THEN SumUp(d.pieces) > 0 \/ d.status = "POST" ELSE d.status \notin Bodyless

\* prepare(): what it adds to the fields.
Prepared(d) ==
  LET length == d.opt # "upgrade" /\ d.known /\ SetsLength(d)
      chunk  == d.opt # "upgrade" /\ ~d.known /\ d.version = "HTTP/1.1"
  IN  (IF length THEN <<F(ContentLength, <<Digit(SumUp(d.pieces))>>)>> ELSE <<>>)
      \o (IF chunk THEN <<F(TransferEncoding, Chunked)>> ELSE <<>>)
      \o (CASE d.opt = "upgrade" -> <<F(Connection, Upgrade)>>
            [] d.opt = "keep_alive" /\ d.version = "HTTP/1.0" /\ length
                 -> <<F(Connection, KeepAlive)>>
            [] d.opt = "close" /\ d.version = "HTTP/1.1" -> <<F(Connection, Close)>>
            [] OTHER -> <<>>)

FieldsOf(d) == IF d.by = "beast" THEN d.user \o Prepared(d) ELSE d.user

\* write_preparation: chunked and close.
IsChunked(d) == HasToken(Value(FieldsOf(d), TransferEncoding), Chunked)
ClosesAfter(d) ==
  \/ HasToken(Value(FieldsOf(d), Connection), Close)
  \/ d.version = "HTTP/1.0" /\ ~Exists(FieldsOf(d), ContentLength)

\* write_start_line and write_fields
WireField(f) == f.name \o <<":", "SP">> \o f.value \o CrLf
WireFields(fs) == FlattenSeq([i \in 1..Len(fs) |-> WireField(fs[i])])
HeaderOf(d) ==
  (IF d.request THEN <<"x", "SP", "x", "SP", d.version>> ELSE <<d.version, d.status, "x">>)
  \o CrLf \o WireFields(FieldsOf(d)) \o CrLf

\* Mutant of chunk_encode: the delimiter counts one too many.
chunk_encode_long(n) == <<Digit(n + 1)>> \o CrLf \o Payload(n) \o CrLf

\* chunk_encode(false, buffers)
chunk_encode(n) == <<Digit(n)>> \o CrLf \o Payload(n) \o CrLf

\* One call of writef0_lambda or writef_lambda.
Piece(d, i) == IF IsChunked(d) THEN chunk_encode(d.pieces[i]) ELSE Payload(d.pieces[i])

\* chunk_encode_final(); a server of another make may put fields behind it.
FinalChunk(d) == <<"0">> \o CrLf \o WireFields(d.trailers) \o CrLf

-----------------------------------------------------------------------------
(* The reader's own state.                                                 *)

Reader(n, pc, pause) ==
  [n |-> n, pc |-> pc, p |-> NewParser(msgs[n].request, pause), got_some |-> FALSE,
   used |-> 0, ec |-> "none", result |-> "none"]

Init ==
  /\ msgs \in Traffic
  /\ caller \in Callers
  /\ caller \in Functions3 => ~msgs[1].request
  /\ srv = [n |-> 1, piece |-> 1, st |-> "first", end |-> "open"]
  /\ wire = <<>> /\ sb = EmptyBuf
  /\ rd = [n |-> 1, pc |-> IF caller \in Functions3 THEN "connect" ELSE "parse",
           p |-> NewParser(msgs[1].request, caller = "header"), got_some |-> FALSE,
           used |-> 0, ec |-> "none", result |-> "none"]

-----------------------------------------------------------------------------
(* The writer: write_op, and the write that blocks.  st is the op's state: *)
(* first 0 and 1, more 3, final 4, done 5 and 99.                          *)

D == msgs[srv.n]
Put(s) == wire' = wire \o s
After(i) == IF i < Len(D.pieces) THEN "more" ELSE IF IsChunked(D) THEN "final" ELSE "done"
ServerStep(st) == srv.end = "open" /\ srv.st = st /\ (caller \in Functions3 =>
                    rd.pc \notin {"connect", "request"})

\* Header and first piece.
WriteFirst ==
  /\ ServerStep("first")
  /\ Put(HeaderOf(D) \o Piece(D, 1))
  /\ srv' = [srv EXCEPT !.st = After(1), !.piece = 2]
  /\ UNCHANGED <<msgs, caller, sb, rd>>

\* The body's writer has nothing yet: resume_context is called later.
Suspend ==
  /\ srv.st \in {"first", "more"} /\ ServerStep(srv.st)
  /\ D.by = "beast" /\ ~D.known
  /\ srv' = [srv EXCEPT !.st = IF @ = "first" THEN "suspended0" ELSE "suspended"]
  /\ UNCHANGED <<msgs, caller, wire, sb, rd>>

\* Resumed.  The write that blocks puts the header out by itself, write_op
\* comes back to where it was.
Resume ==
  \/ /\ srv.st \in {"suspended0", "suspended"} /\ ServerStep(srv.st)
     /\ srv' = [srv EXCEPT !.st = IF @ = "suspended0" THEN "first" ELSE "more"]
     /\ UNCHANGED <<msgs, caller, wire, sb, rd>>
  \/ /\ ServerStep("suspended0")
     /\ Put(HeaderOf(D))
     /\ srv' = [srv EXCEPT !.st = "more"]
     /\ UNCHANGED <<msgs, caller, sb, rd>>

WriteMore ==
  /\ ServerStep("more")
  /\ Put(Piece(D, srv.piece))
  /\ srv' = [srv EXCEPT !.st = After(srv.piece), !.piece = @ + 1]
  /\ UNCHANGED <<msgs, caller, sb, rd>>

WriteFinal ==
  /\ ServerStep("final")
  /\ Put(FinalChunk(D))
  /\ srv' = [srv EXCEPT !.st = "done"]
  /\ UNCHANGED <<msgs, caller, sb, rd>>

\* write() reports eof when the connection is to be closed, and the caller does;
\* otherwise the next message may be written.
WriteDone ==
  /\ ServerStep("done")
  /\ srv' = IF ClosesAfter(D) \/ srv.n = Len(msgs) THEN [srv EXCEPT !.end = "closed"]
            ELSE [srv EXCEPT !.n = @ + 1, !.st = "first", !.piece = 1]
  /\ UNCHANGED <<msgs, caller, wire, sb, rd>>

\* The peer goes away, or stops without going away.
Leave(how) ==
  /\ srv.end = "open"
  /\ srv' = [srv EXCEPT !.end = how]
  /\ UNCHANGED <<msgs, caller, wire, sb, rd>>

-----------------------------------------------------------------------------
(* GetHttp, Write and Query.                                               *)

Return(result) == rd' = [rd EXCEPT !.pc = "done", !.result = result]

Connect ==
  /\ rd.pc = "connect"
  /\ \/ rd' = [rd EXCEPT !.pc = "request"]
     \/ Return("cannot resolve")
  /\ UNCHANGED <<msgs, caller, srv, wire, sb>>

\* The request: HTTP/1.1 without "Connection: close", so write() reports no
\* error of its own; the socket may.
Request ==
  /\ rd.pc = "request"
  /\ \/ rd' = [rd EXCEPT !.pc = "parse"]
     \/ srv.end = "closed" /\ Return("error")
  /\ UNCHANGED <<msgs, caller, srv, wire, sb>>

\* GetHttp returns the body; Write prints the response; Query prints it and
\* runs off the end of a function that returns a string.
Succeed ==
  /\ rd.pc = "complete" /\ caller \in Functions3
  /\ Return(CASE caller = "GetHttp" -> "body" [] caller = "Write" -> "none"
              [] caller = "Query" -> "undefined")
  /\ UNCHANGED <<msgs, caller, srv, wire, sb>>

Throw ==
  /\ rd.pc = "failed" /\ caller \in Functions3
  /\ Return(IF caller = "Write" THEN "none" ELSE "error")
  /\ UNCHANGED <<msgs, caller, srv, wire, sb>>

-----------------------------------------------------------------------------
(* parse() and parse_op.                                                   *)

\* The parser reads what is in the buffer.
Parse ==
  /\ rd.pc = "parse"
  /\ \E w \in {Write(rd.p, Data(sb))} :
         /\ rd' = [rd EXCEPT !.p = w.p, !.ec = w.p.ec,
                             !.used = @ + w.used, !.got_some = @ \/ w.used > 0,
                             !.pc = IF w.p.ec # "none" THEN "failed"
                                    ELSE IF complete(w.p) THEN "complete" ELSE "read"]
         /\ sb' = IF w.p.ec # "none" THEN sb ELSE Consume(sb, w.used)
  /\ UNCHANGED <<msgs, caller, srv, wire>>

\* read_some fills part of what was prepared.
ReadSome ==
  /\ rd.pc = "read" /\ wire # <<>>
  /\ \E size \in {read_size_helper(sb, MaxRead, AllocSize)} :
     \E n \in 1..Smaller(size, Len(wire)) :
       /\ sb' = Commit(Fill(Prepare(sb, size, AllocSize), SubSeq(wire, 1, n)), n)
       /\ wire' = SubSeq(wire, n + 1, Len(wire))
  /\ rd' = [rd EXCEPT !.pc = "parse"]
  /\ UNCHANGED <<msgs, caller, srv>>

\* The end of the stream is for the caller when nothing of the message was seen,
\* and for the parser otherwise.
ReadEof ==
  /\ rd.pc = "read" /\ wire = <<>> /\ srv.end = "closed"
  /\ LET p == WriteEof(rd.p)
     IN  rd' = IF ~rd.got_some THEN [rd EXCEPT !.ec = "eof", !.pc = "failed"]
               ELSE [rd EXCEPT !.p = p, !.ec = p.ec,
                               !.pc = IF p.ec = "none" THEN "complete" ELSE "failed"]
  /\ UNCHANGED <<msgs, caller, srv, wire, sb>>

-----------------------------------------------------------------------------
(* Callers that stay: one message after another in the same streambuf.     *)

\* The header was asked for first; with_body goes on from there.
ReadBody ==
  /\ rd.pc = "complete" /\ caller = "header" /\ rd.p.s = "body_pause"
  /\ rd' = [rd EXCEPT !.p = WithBody(@), !.pc = "parse", !.got_some = FALSE]
  /\ UNCHANGED <<msgs, caller, srv, wire, sb>>

\* The next message, if the connection is kept.
NextMessage ==
  /\ rd.pc = "complete" /\ caller \notin Functions3 /\ rd.p.s # "body_pause"
  /\ rd.n < Len(msgs) /\ keep_alive(rd.p)
  /\ rd' = Reader(rd.n + 1, "parse", caller = "header")
  /\ UNCHANGED <<msgs, caller, srv, wire, sb>>

-----------------------------------------------------------------------------
Next ==
  \/ WriteFirst \/ Suspend \/ Resume \/ WriteMore \/ WriteFinal \/ WriteDone
  \/ Leave("closed") \/ Leave("silent")
  \/ Connect \/ Request \/ Succeed \/ Throw
  \/ Parse \/ ReadSome \/ ReadEof \/ ReadBody \/ NextMessage

Spec == Init /\ [][Next]_xvars

-----------------------------------------------------------------------------
(* What a reader should make of a message.                                 *)

Whole(d) ==
  HeaderOf(d) \o FlattenSeq([i \in 1..Len(d.pieces) |-> Piece(d, i)])
    \o (IF IsChunked(d) THEN FinalChunk(d) ELSE <<>>)

\* A folded value is one line again.
Unfold(v) == SelectSeq(v, LAMBDA ch : ch \notin {"CR", "LF"})
Meant(fs) == [i \in 1..Len(fs) |-> F(fs[i].name, Trim(Unfold(fs[i].value)))]

EndsByClose(d) ==
  /\ ~d.request /\ d.status \notin Bodyless /\ ~IsChunked(d)
  /\ ~Exists(FieldsOf(d), ContentLength)

HeaderSize(d) ==
  (IF d.request THEN 2 ELSE 1)
    + SumUp([i \in 1..Len(FieldsOf(d)) |->
             Len(FieldsOf(d)[i].name) + Len(Meant(FieldsOf(d))[i].value)])

\* The answer that has no body but says how long it would be, or that it would
\* come in chunks ("304 Not Modified"): the parser takes it at its word.
SizeOfNothing(d) ==
  /\ d.status \in Bodyless /\ d.pieces = <<0>> /\ d.by = "other"
  /\ Exists(FieldsOf(d), ContentLength)

\* A buffer of no bytes, encoded as a chunk, is the last chunk.
EmptyChunk(d) == IsChunked(d) /\ \E i \in 1..Len(d.pieces) : d.pieces[i] = 0

\* A token that is the first letter of a word the parser looks for, and nothing
\* else: the comma behind it is read as part of the word.
LosesComma(d) ==
  LET v == Value(FieldsOf(d), Connection)
  IN  \E i \in 1..(Len(v)-1) : v[i] \in {"c", "k", "u"} /\ v[i+1] = ","

\* Content-Length twice; a longer name that begins with it counts.
LengthTwice(d) ==
  \E i, j \in 1..Len(FieldsOf(d)) :
    i < j /\ FieldsOf(d)[i].name = ContentLength /\ IsPrefix(ContentLength, FieldsOf(d)[j].name)

\* Messages before this one were told apart.
InStep(n) == \A k \in 1..n : ~SizeOfNothing(msgs[k]) /\ (k < n => ~EmptyChunk(msgs[k]))

Finished == rd.pc = "complete" /\ rd.p.s # "body_pause"

-----------------------------------------------------------------------------
(* Properties.                                                             *)

\* However the bytes were cut and whoever wrote them, a message that is complete
\* has the body and the fields its sender gave it, and not a byte of the next
\* one is gone.  Of the fields behind the last chunk the last is missing:
\* parser_v1 puts a field in when the next begins, and none does.
ReadsWhatWasSent ==
  Finished /\ InStep(rd.n) =>
    LET d == msgs[rd.n]
    IN  IF EndsByClose(d) THEN IsPrefix(rd.p.m.body, Payload(SumUp(d.pieces)))
        ELSE IF EmptyChunk(d) THEN IsStrictPrefix(rd.p.m.body, Payload(SumUp(d.pieces)))
                                    \/ SumUp(d.pieces) = 0 \/ Last(d.pieces) = 0
        ELSE /\ rd.p.m.body = Payload(SumUp(d.pieces))
             /\ rd.p.m.fields = Meant(FieldsOf(d) \o
                                  (IF d.trailers = <<>> THEN <<>> ELSE Front(d.trailers)))
             /\ rd.used = Len(Whole(d))

\* Reading fails only when the peer left before the end of the message, or the
\* message is wrong or too big.  Two things that are right fail all the same:
\* a list whose comma the parser loses, and a message without a body, up to the
\* end of the stream, that is read in two steps.
FailsForCause ==
  rd.pc = "failed" /\ InStep(rd.n) =>
    LET d == msgs[rd.n]
    IN  CASE rd.ec = "eof" -> \/ rd.used = 0
                              \/ rd.p.s = "body_pause"
                                   /\ (rd.used < Len(Whole(d)) \/ SumUp(d.pieces) = 0)
          [] rd.ec = "short_read" -> rd.used < Len(Whole(d))
          [] rd.ec = "header_too_big" -> HeaderSize(d) > HMax
          [] rd.ec = "bad_value" -> LosesComma(d)
          [] rd.ec = "bad_content_length" -> LengthTwice(d)
          [] OTHER -> FALSE

\* The reader never waits for bytes when it has the whole message, unless the
\* message ends with the connection; or it is the body that was asked for after
\* the header, and there is none.
NoNeedlessWait ==
  rd.pc = "read" /\ InStep(rd.n) /\ rd.used = Len(Whole(msgs[rd.n])) =>
    \/ EndsByClose(msgs[rd.n])
    \/ caller = "header" /\ SumUp(msgs[rd.n].pieces) = 0

\* The parser and is_keep_alive (message.ipp), which reads the Connection field
\* again with token_list, agree on whether the connection is kept.
KeepAliveAgrees ==
  Finished /\ InStep(rd.n) /\ ~EmptyChunk(msgs[rd.n]) =>
    LET d == msgs[rd.n]
        v == Meant(<<F(Connection, Value(FieldsOf(d), Connection))>>)[1].value
    IN  \/ keep_alive(rd.p) <=> /\ IF d.version = "HTTP/1.1" THEN ~HasToken(v, Close)
                                                             ELSE HasToken(v, KeepAlive)
                                /\ ~EndsByClose(d)
        \/ LosesComma(d)

\* The parser goes on to the next buffer of a sequence when the message was over
\* in the one before (write(ConstBufferSequence)).  That does no harm because
\* what parse() gives it is one buffer, by the way it sizes what it reads.
OneBuffer ==
  rd.pc = "parse" =>
    Cardinality({i \in 1..Len(Data(sb)) : Data(sb)[i] # <<>>}) <= 1
=============================================================================
