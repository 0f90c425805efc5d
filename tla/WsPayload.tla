----------------------------- MODULE WsPayload ------------------------------
(***************************************************************************)
(* A server reading uncompressed messages, from the bytes on the network   *)
(* to the caller's buffer: stream::read_frame and async_read_frame over    *)
(* the dynabuf_readstream stream_, which keeps what it read too much in    *)
(* its own streambuf.  The headers' contents are WsStream's subject; here  *)
(* a header is the two fixed bytes (one cell) and the key (one cell).  The *)
(* caller takes bytes from its buffer between two reads.  A client sends   *)
(* each message from a list of buffers, in frames of any length.           *)
(***************************************************************************)
EXTENDS Buffers, Utf8Checker, FiniteSets

CONSTANTS
  Cases,        \* [msgs, buf, cap, mode]: messages, caller's buffer, capacity_
  AllocSize,    \* alloc_size_ of the streambuf in dynabuf_readstream
  MaxMsg,       \* rd_msg_max_, 0 for none
  MaxFrames,    \* bound: frames of one message
  MaxSessions   \* bound: connections that use the stream object in turn

ASSUME PayloadAssumption == AllocSize \in Nat \ {0} /\ MaxMsg \in Nat

\* A buffer as its constructor makes it: nothing written, nothing committed.
Byte == 0..255
Unused(b) ==
  \/ b.kind = "static" /\ b.cells \in Seq({Raw}) /\ b = NewStatic(Len(b.cells))
  \/ /\ b.kind = "adapter" /\ b.bs \in Seq(Seq({Raw}))
     /\ b = NewAdapter([i \in 1..Len(b.bs) |-> Len(b.bs[i])])
  \/ b.kind = "streambuf" /\ b.alloc \in Nat \ {0} /\ b = NewStreambuf(b.alloc)

ASSUME CaseAssumption ==
  \A c \in Cases : /\ c.msgs \in Seq(Seq(Seq(Byte))) /\ Len(c.msgs) > 0
                   /\ Unused(c.buf) /\ c.cap \in Nat /\ c.mode \in {"sync", "async"}

VARIABLES
  case,      \* the case chosen
  session,   \* which connection this is
  msg,       \* the client: which message it sends,
  cb,        \*   its consuming_buffers,
  frames,    \*   and the frames it was given so far
  wire,      \* cells sent and not read from the next layer
  sent,      \* every cell sent in this session
  pos,       \* how many of them stream_ handed to read_frame
  sb,        \* dynabuf_readstream::sb_
  rd,        \* rd_: cont, size and utf8
  fr,        \* the frame being read: fin, remain, and key, the key's rotation
  pc,        \* where read_frame is
  db,        \* the caller's DynamicBuffer
  text,      \* what of the current message was committed to db, in order
  cur,       \* which message is read
  taken,     \* how much of it the caller has consumed
  skipped,   \* finish() was not called for the last frame, for it was empty
  stale,     \* the checker held bytes when the message began
  verdict    \* how the reading ended

client == <<msg, cb, frames>>
reader == <<rd, fr, pc, text, cur, skipped, stale, verdict>>
pvars == <<case, session, client, wire, sent, pos, sb, reader, db, taken>>

NoFrame == [fin |-> FALSE, remain |-> 0, key |-> 0, no |-> 0]
Message(m) == consuming(case.msgs[m])
Content(m) == Flat(case.msgs[m])

Init ==
  /\ case \in Cases
  /\ session = 1 /\ msg = 1 /\ cur = 1 /\ frames = 0
  /\ cb = consuming(case.msgs[1])
  /\ wire = <<>> /\ sent = <<>> /\ pos = 0
  /\ sb = EmptyBuf
  /\ rd = [cont |-> FALSE, size |-> 0, utf8 |-> Fresh]
  /\ fr = NoFrame /\ pc = "idle"
  /\ db = case.buf /\ text = <<>> /\ taken = 0
  /\ skipped = FALSE /\ stale = FALSE /\ verdict = "none"

-----------------------------------------------------------------------------
\* The client.  A payload byte is masked with the key of its frame, at the
\* rotation of its place in it.
Cells(no, fin, bytes) ==
  <<[t |-> "head", fin |-> fin, len |-> Len(bytes)], [t |-> "key", no |-> no]>>
  \o [i \in 1..Len(bytes) |->
        [t |-> "byte", b |-> bytes[i], no |-> no, rot |-> (i-1) % 4]]

SendFrame ==
  \E n \in 0..Len(rest_of(cb)), fin \in BOOLEAN :
    /\ msg <= Len(case.msgs)
    /\ fin => n = Len(rest_of(cb))
    /\ frames = MaxFrames - 1 => fin
    /\ LET cells == Cells(Len(sent), fin, SubSeq(rest_of(cb), 1, n))
       IN  wire' = wire \o cells /\ sent' = sent \o cells
    /\ msg' = IF fin THEN msg + 1 ELSE msg
    /\ cb' = IF ~fin THEN consume_front(cb, n)
             ELSE IF msg < Len(case.msgs) THEN Message(msg + 1) ELSE cb
    /\ frames' = IF fin THEN 0 ELSE frames + 1
    /\ UNCHANGED <<case, session, pos, sb, reader, db, taken>>

-----------------------------------------------------------------------------
\* dynabuf_readstream::read_some: from sb_ when it holds something, from the
\* next layer directly when there is no capacity, else through sb_.  some are
\* the cells the caller gets, at most n.
Take(some, n) ==
  LET held == Flat(Data(sb))
      k    == Smaller(n, Len(held))
  IN  \/ /\ held # <<>>
         /\ some = SubSeq(held, 1, k)
         /\ sb' = Consume(sb, k)
         /\ wire' = wire
      \/ /\ held = <<>> /\ case.cap = 0
         /\ some # <<>> /\ Len(some) <= Smaller(n, Len(wire))
         /\ some = SubSeq(wire, 1, Len(some))
         /\ wire' = SubSeq(wire, Len(some) + 1, Len(wire))
         /\ sb' = sb
      \/ /\ held = <<>> /\ case.cap > 0
         /\ \E m \in 1..Smaller(case.cap, Len(wire)) :
              LET got  == SubSeq(wire, 1, m)
                  full == Commit(Fill(Prepare(sb, case.cap, AllocSize), got), m)
              IN  /\ some = SubSeq(got, 1, Smaller(n, m))
                  /\ sb' = Consume(full, Len(some))
                  /\ wire' = SubSeq(wire, m + 1, Len(wire))

\* What Take can hand out: a beginning of what is held or of what is sent.
Offers(n) ==
  LET held == Flat(Data(sb))
      from == IF held = <<>> THEN wire ELSE held
  IN  {SubSeq(from, 1, k) : k \in 1..Smaller(n, Len(from))}

ReadSome(n, some) ==
  /\ some \in Offers(n)
  /\ Take(some, n)
  /\ pos' = pos + Len(some)

-----------------------------------------------------------------------------
\* read_frame.  The caller calls it again for the next frame, as read() does.
Call ==
  /\ pc = "idle" /\ verdict = "none"
  /\ pc' = "head"
  /\ UNCHANGED <<case, session, client, wire, sent, pos, sb, rd, fr, db,
                 text, cur, taken, skipped, stale, verdict>>

\* read_fh1
ReadHead ==
  /\ pc = "head"
  /\ \E h \in Offers(1) :
       /\ ReadSome(1, h)
       /\ fr' = [fin |-> h[1].fin, remain |-> h[1].len, key |-> 0, no |-> 0]
  /\ pc' = "key"
  /\ UNCHANGED <<case, session, client, sent, rd, db, text, cur, taken, skipped,
                 stale, verdict>>

\* read_fh2, rd_begin, and the way into the payload: an empty frame that is not
\* the last is passed over (read_frame) or reported (async_read_frame); the
\* limit on messages; nothing is checked of a frame without payload.
ReadKey ==
  /\ pc = "key"
  /\ \E k \in Offers(1) :
       /\ ReadSome(1, k)
       /\ fr' = [fr EXCEPT !.no = k[1].no]
  /\ LET size  == IF rd.cont THEN rd.size ELSE 0
         large == MaxMsg # 0 /\ fr.remain > MaxMsg - size
         done  == fr.remain = 0 /\ fr.fin
     IN  /\ rd' = [rd EXCEPT !.cont = ~fr.fin,
                             !.size = IF large THEN size ELSE size + fr.remain]
         /\ stale' = IF rd.cont THEN stale ELSE rd.utf8 # Fresh
         /\ skipped' = done
         /\ IF fr.remain = 0
              THEN /\ pc' = IF fr.fin THEN "done"
                            ELSE IF case.mode = "sync" THEN "head" ELSE "idle"
                   /\ verdict' = verdict
            ELSE IF large THEN pc' = "failed" /\ verdict' = "too_big"
            ELSE pc' = "payload" /\ verdict' = verdict
  /\ UNCHANGED <<case, session, client, sent, db, text, cur, taken>>

\* Mutant of Unmask: each buffer starts with the key as it is in the header.
UnmaskRestart(cells, f) ==
  [i \in 1..Len(cells) |->
     IF cells[i].t = "byte" /\ cells[i].no = f.no /\ cells[i].rot = (i-1) % 4
       THEN cells[i].b ELSE 0]

\* mask_inplace with the key as earlier parts of the frame have rotated it.
Unmask(cells, f) ==
  [i \in 1..Len(cells) |->
     IF cells[i].t = "byte" /\ cells[i].no = f.no /\ cells[i].rot = (f.key + i-1) % 4
       THEN cells[i].b ELSE 0]

\* The bytes of a list, cut at the ends of the buffers they were read into.
Cut(bytes, sizes) ==
  LET upto(j) == SumFunction([i \in 1..j |-> sizes[i]])
  IN  [j \in 1..Len(sizes) |-> SubSeq(bytes, upto(j-1) + 1, upto(j))]

\* do_read_payload: prepare what is missing, read some of it, unmask, check,
\* commit.  A prepare that throws leaves read_frame with the payload unread.
ReadPayload ==
  /\ pc = "payload" /\ ~db_throws(db, fr.remain)
  /\ LET ready == db_prepare(db, fr.remain)
     IN  \E some \in Offers(fr.remain) :
           LET n     == Len(some)
               bytes == Unmask(some, fr)
               left  == fr.remain - n
               pb    == Cut(bytes, prepare_buffers(n, db_areas(ready)))
               utf8  == write_buffers(rd.utf8, pb)
               last  == left = 0 /\ fr.fin
               ok    == utf8.ok /\ (last => finish(utf8.u))
           IN  /\ ReadSome(fr.remain, some)
               /\ fr' = [fr EXCEPT !.remain = left, !.key = (@ + n) % 4]
               /\ rd' = [rd EXCEPT !.utf8 =
                           IF last /\ utf8.ok THEN Fresh ELSE utf8.u]
               /\ IF ok
                    THEN /\ db' = db_commit(db_fill(ready, bytes), n)
                         /\ text' = text \o bytes
                         /\ pc' = IF left > 0 THEN "payload"
                                  ELSE IF fr.fin THEN "done" ELSE "idle"
                         /\ UNCHANGED verdict
                    ELSE /\ db' = db_fill(ready, bytes)
                         /\ text' = text /\ pc' = "failed"
                         /\ verdict' = "bad_payload"
  /\ UNCHANGED <<case, session, client, sent, cur, taken, skipped, stale>>

\* prepare() throws std::length_error.
Overflow ==
  /\ pc = "payload" /\ db_throws(db, fr.remain)
  /\ pc' = "failed" /\ verdict' = "length_error"
  /\ UNCHANGED <<case, session, client, wire, sent, pos, sb, rd, fr, db,
                 text, cur, taken, skipped, stale>>

\* The caller has a message, and reads the next one into another buffer.
NextMessage ==
  /\ pc = "done" /\ cur < Len(case.msgs)
  /\ cur' = cur + 1 /\ db' = case.buf /\ text' = <<>> /\ taken' = 0
  /\ pc' = "idle"
  /\ UNCHANGED <<case, session, client, wire, sent, pos, sb, rd, fr, skipped,
                 stale, verdict>>

\* Between two reads the caller uses up some of what it got.
CallerConsumes ==
  /\ pc = "idle" /\ rd.cont
  /\ \E n \in 1..db_size(db) :
       db' = db_consume(db, n) /\ taken' = taken + n
  /\ UNCHANGED <<case, session, client, wire, sent, pos, sb, reader>>

\* The connection ended, by whatever cause, and the next client sends what it
\* likes.  stream::reset() and stream_base::open() prepare the object for it:
\* rd_.utf8 is not among what they reset.  have_ has four bytes and four of
\* padding behind them; an object that wrote past have_ is not used again, for
\* the checker could then write over rd_.size.
Reconnect ==
  /\ session < MaxSessions /\ Len(rd.utf8.have) <= 4
  /\ pc \in {"idle", "head", "key", "payload", "failed"}
  /\ case' \in {c \in Cases : c.cap = case.cap}
  /\ session' = session + 1 /\ msg' = 1 /\ cur' = 1 /\ frames' = 0 /\ cb' = Message(1)'
  /\ wire' = <<>> /\ sent' = <<>> /\ pos' = 0
  /\ sb' = Consume(sb, sb.in_size)
  /\ rd' = [rd EXCEPT !.cont = FALSE]
  /\ fr' = NoFrame /\ pc' = "idle" /\ verdict' = "none"
  /\ db' = case'.buf /\ text' = <<>> /\ taken' = 0
  /\ skipped' = FALSE /\ stale' = FALSE

Next ==
  \/ SendFrame \/ Call \/ ReadHead \/ ReadKey \/ ReadPayload \/ Overflow
  \/ NextMessage \/ CallerConsumes \/ Reconnect

Spec == Init /\ [][Next]_pvars

-----------------------------------------------------------------------------
\* What stream_ holds and what is on the network are the cells it has not
\* handed out, in order, and what the caller's buffer holds and has given up
\* is the message so far, unmasked: no cut of the bytes loses, doubles or
\* garbles one (dynabuf_readstream::read_some, read_frame's do_read_payload,
\* mask_inplace, and prepare, commit and consume of the three buffers).
DeliversInOrder ==
  /\ Flat(Data(sb)) \o wire = SubSeq(sent, pos + 1, Len(sent))
  /\ SubSeq(text, taken + 1, Len(text)) = db_data(db)
  /\ text = SubSeq(Content(cur), 1, Len(text))
  /\ pc = "done" => text = Content(cur)

\* A text message is refused only when it is malformed, or when the checker
\* still held bytes of an earlier message, an incomplete code point or a
\* completed one that was refused; and as soon as a byte is read that makes it
\* so.  It is accepted only when it is well-formed, except that finish() is
\* skipped for an empty last frame and that valid() lets the leads 192 and 193
\* pass (utf8_checker, read_frame).
TextJudged ==
  LET overlong == \E i \in 1..Len(Content(cur)) : Content(cur)[i] \in {192, 193}
  IN  /\ verdict = "bad_payload" => stale \/ ~WellFormed(Content(cur))
      /\ stale \/ overlong \/ WellFormedPrefix(text)
      /\ pc = "done" => stale \/ overlong \/ skipped \/ WellFormed(Content(cur))

\* A read throws length_error only when the frame does not fit behind all that
\* was ever committed: what the caller consumed gives no room back
\* (static_streambuf::prepare, buffers_adapter::prepare).
ThrowsOnlyWhenSpent ==
  verdict = "length_error" =>
    LET room == IF db.kind = "static" THEN Len(db.cells)
                ELSE SumFunction([i \in 1..Len(db.bs) |-> Len(db.bs[i])])
    IN  Len(text) + fr.remain > room

\* The assertions of basic_streambuf::debug_check, for both streambufs, and
\* that every buffer's size() is the size of its data().
BuffersSound ==
  /\ DebugCheck(sb)
  /\ db.kind = "streambuf" => DebugCheck(db.sb)
  /\ db_size(db) = Len(db_data(db))
=============================================================================
