------------------------------- MODULE Deflate -------------------------------
(***************************************************************************)
(* beast's deflate_stream, as operators on a record.  `Write` is one call  *)
(* of doWrite: it takes the caller's input and room and returns the stream *)
(* afterwards.  The output is `tape`, a sequence of bit fields             *)
(* [w: width, k: kind, v: value]; `bi` bits of it are in the bit buffer,   *)
(* `pend` bytes wait in pending_buf and `outb` bytes are the caller's.     *)
(* hist holds every byte taken; window index i is hist[base + i + 1].      *)
(*                                                                         *)
(* The window, the longest match and the size of a block are scaled; the   *)
(* widths of fixed codes and headers are the real ones.  Which of the      *)
(* three block types is cheapest depends on sizes the scale loses: the     *)
(* caller of Write chooses it (`how`) among those the code may emit.       *)
(***************************************************************************)
EXTENDS Huffman, TLC

CONSTANTS WSize,        \* w_size_, 2^windowBits
          MaxMatch,     \* maxMatch, 258
          LitBufSize,   \* lit_bufsize_: a block has at most LitBufSize - 1 tokens
          TooFar,       \* kTooFar, 4096
          Lits,         \* literals, 256
          MaxBits,      \* maxBits, 15
          BlMaxBits     \* maxBlBits, 7

MinMatch     == 3
MinLookahead == MaxMatch + MinMatch + 1
max_dist     == WSize - MinLookahead
PendingSize  == 4 * LitBufSize

\* What the constants must be; MCZlib assumes it of its instances.
DeflateAssumption ==
  /\ {WSize, MaxMatch, LitBufSize, TooFar, Lits, MaxBits, BlMaxBits} \subseteq Nat
  /\ MaxMatch >= MinMatch /\ max_dist > 0 /\ LitBufSize > 2

(* Flush, in the order of zlib.hpp; boost::none compares with none of them. *)
Rank == [none |-> 0, block |-> 1, partial |-> 2, sync |-> 3, full |-> 4, finish |-> 5]
\* A mutant of NotAbove: any second call without input is refused.
NotAboveAnything(flush, old) == old # "unset"

NotAbove(flush, old) == old # "unset" /\ Rank[flush] <= Rank[old]

(* Length and distance codes: base value and extra bits, from the tables of *)
(* get_lut cut to the scaled match and window.                              *)
LengthCodes == <<[base |-> 3, extra |-> 0], [base |-> 4, extra |-> 1]>>
DistCodes   == <<[base |-> 1, extra |-> 0], [base |-> 2, extra |-> 0], [base |-> 3, extra |-> 0],
                 [base |-> 4, extra |-> 0], [base |-> 5, extra |-> 1], [base |-> 7, extra |-> 1],
                 [base |-> 9, extra |-> 2], [base |-> 13, extra |-> 2], [base |-> 17, extra |-> 3],
                 [base |-> 25, extra |-> 3]>>
END_BLOCK   == Lits
LTree       == 0..(Lits + Len(LengthCodes))
DTree       == 0..(Len(DistCodes) - 1)
CodeOf(table, v) == Max({i \in DOMAIN table : table[i].base <= v})

(* The static trees: literals above 143 take 9 bits, the others 8, end of   *)
(* block and the short length codes 7, distances 5.                         *)
StaticL == [len  |-> [s \in LTree |-> IF s >= Lits THEN 7 ELSE IF s = Lits - 1 THEN 9 ELSE 8],
            code |-> [s \in LTree |-> s]]
StaticD == [len |-> [s \in DTree |-> 5], code |-> [s \in DTree |-> s]]

\* init, lm_init and tr_init: a stream before its first byte.
Fresh(func) ==
  [hist |-> <<>>, base |-> 0, strstart |-> 0, lookahead |-> 0, block_start |-> 0, insert |-> 0,
   hash |-> {}, match_length |-> MinMatch - 1, match_start |-> 0, match_available |-> FALSE,
   lits |-> <<>>, func |-> func, tape |-> <<>>, bi |-> 0, pend |-> 0, outb |-> 0,
   status |-> "BUSY", last_flush |-> "none", in |-> <<>>, room |-> 0, how |-> "static"]

window(d, i) == d.hist[d.base + i + 1]

-----------------------------------------------------------------------------
(* Bits.  send_bits moves two bytes when the 16-bit buffer would overflow. *)
send_bits(d, w, kind, v) ==
  LET n == d.bi + w
      e == [d EXCEPT !.tape = Append(@, [w |-> w, k |-> kind, v |-> v])]
  IN  IF n > 16 THEN [e EXCEPT !.pend = @ + 2, !.bi = n - 16] ELSE [e EXCEPT !.bi = n]

send_code(d, s, tree) == send_bits(d, tree.len[s], "code", tree.code[s])
send_extra(d, w, v) == IF w = 0 THEN d ELSE send_bits(d, w, "extra", v)


bi_windup(d) ==
  LET pad == (8 - (d.bi % 8)) % 8
  IN  [d EXCEPT !.pend = @ + (d.bi + 7) \div 8, !.bi = 0,
                !.tape = IF pad = 0 THEN @ ELSE Append(@, [w |-> pad, k |-> "pad", v |-> 0])]

\* Keeps at most 7 bits.
bi_flush(d) ==
  IF d.bi = 16 THEN [d EXCEPT !.pend = @ + 2, !.bi = 0]
  ELSE IF d.bi >= 8 THEN [d EXCEPT !.pend = @ + 1, !.bi = @ - 8]
  ELSE d

flush_pending(d0) ==
  LET d == bi_flush(d0)
      len == Min({d.pend, d.room})
  IN  [d EXCEPT !.pend = @ - len, !.outb = @ + len, !.room = @ - len]

\* tr_stored_block and copy_block: aligned, the length, its complement, the bytes.
tr_stored_block(d0, bytes, last) ==
  LET d == bi_windup(send_bits(d0, 3, "block", [type |-> "stored", last |-> last]))
  IN  [d EXCEPT !.pend = @ + 4 + Len(bytes),
                !.tape = @ \o <<[w |-> 32, k |-> "len", v |-> Len(bytes)]>>
                           \o [i \in 1..Len(bytes) |-> [w |-> 8, k |-> "byte", v |-> bytes[i]]]]

\* tr_align: an empty static block.
tr_align(d) ==
  bi_flush(send_code(send_bits(d, 3, "block", [type |-> "static", last |-> FALSE]), END_BLOCK, StaticL))

(* A block's tokens, [d: 0, l: byte] or [d: distance, l: match length].    *)
SendToken(d, token, lt, dt) ==
  IF token.d = 0 THEN send_code(d, token.l, lt)
  ELSE LET lc == CodeOf(LengthCodes, token.l)
           dc == CodeOf(DistCodes, token.d)
           d1 == send_extra(send_code(d, Lits + lc, lt), LengthCodes[lc].extra, token.l - LengthCodes[lc].base)
       IN  send_extra(send_code(d1, dc - 1, dt), DistCodes[dc].extra, token.d - DistCodes[dc].base)

compress_block(d, lt, dt) ==
  send_code(FoldLeft(LAMBDA e, token : SendToken(e, token, lt, dt), d, d.lits), END_BLOCK, lt)

(* The frequencies tr_tally_lit and tr_tally_dist have counted.            *)
LFreq(lits) ==
  [s \in LTree |-> IF s = END_BLOCK THEN 1
                   ELSE Len(SelectSeq(lits, LAMBDA t : s = IF t.d = 0 THEN t.l ELSE Lits + CodeOf(LengthCodes, t.l)))]
DFreq(lits) == [s \in DTree |-> Len(SelectSeq(lits, LAMBDA t : t.d # 0 /\ s = CodeOf(DistCodes, t.d) - 1))]

\* send_all_trees: the counts, the lengths of the bit length codes, both trees.
SendCounts(d, lt, dt, bl) ==
  FoldLeft(LAMBDA e, s : send_bits(e, 3, "bllen", bl.tree.len[s - 1]),
           send_bits(d, 14, "counts", [nlen |-> lt.max_code + 1, ndist |-> dt.max_code + 1, ncode |-> bl.ncode]),
           [s \in 1..bl.ncode |-> s])

SendRuns(d, runs, bl) ==
  FoldLeft(LAMBDA e, r : send_extra(send_code(e, r.sym, bl.tree), r.bits, r.more), d, runs)

SendTrees(d, lt, dt, runs, bl) == SendRuns(SendCounts(d, lt, dt, bl), runs, bl)
WithRuns(d, lt, dt, runs) == SendTrees(d, lt, dt, runs, build_bl_tree(runs, MaxBits, BlMaxBits))
send_all_trees(d, lt, dt) == WithRuns(d, lt, dt, send_tree(lt, MaxBits) \o send_tree(dt, MaxBits))

(* tr_flush_block: a stored block holds the bytes since the last one, which  *)
(* must not have left the window.                                           *)
header(d, type, last) == send_bits(d, 3, "block", [type |-> type, last |-> last])

SinceBlock(d) == SubSeq(d.hist, d.base + d.block_start + 1, d.base + d.strstart)
MayStore(d) ==
  d.block_start >= 0 /\ (d.func = "stored" \/ (d.how = "stored" /\ d.strstart > d.block_start))

WithTrees(d, lt, dt) == compress_block(send_all_trees(d, lt, dt), lt, dt)

Block(d, last) ==
  IF MayStore(d) THEN tr_stored_block(d, SinceBlock(d), last)
  ELSE IF d.how = "dynamic" /\ d.func # "stored"
  THEN WithTrees(header(d, "dynamic", last), build_tree(LFreq(d.lits), MaxBits), build_tree(DFreq(d.lits), MaxBits))
  ELSE compress_block(header(d, "static", last), StaticL, StaticD)

EndBlock(d, last) == IF last THEN bi_windup(d) ELSE d
tr_flush_block(d, last) == [EndBlock(Block(d, last), last) EXCEPT !.lits = <<>>]

flush_block(d, last) ==
  flush_pending([tr_flush_block(d, last) EXCEPT !.block_start = d.strstart])

-----------------------------------------------------------------------------
(* The window.  fill_window slides it down by half when the cursor comes   *)
(* near its end, and takes as much input as fits, until there is enough     *)
(* lookahead or no more input; strings it could not enter into the hash     *)
(* before (insert) are entered as soon as their third byte is there.        *)
Slide(d) ==
  IF d.strstart < WSize + max_dist THEN d
  ELSE [d EXCEPT !.base = @ + WSize, !.strstart = @ - WSize, !.block_start = @ - WSize,
                 !.match_start = @ - WSize, !.hash = {p - WSize : p \in {q \in @ : q > WSize}}]

CatchUp(d) ==
  LET n == IF d.lookahead + d.insert < MinMatch THEN 0
           ELSE Min({d.insert, d.lookahead + d.insert - MinMatch + 1})
  IN  [d EXCEPT !.hash = @ \cup {d.strstart - d.insert + i : i \in 0..(n - 1)}, !.insert = @ - n]

RECURSIVE fill_window(_)
fill_window(d0) ==
  LET d == Slide(d0)
      n == Min({Len(d.in), 2 * WSize - d.lookahead - d.strstart})
      read == CatchUp([d EXCEPT !.hist = @ \o SubSeq(d.in, 1, n), !.lookahead = @ + n,
                                !.in = SubSeq(@, n + 1, Len(@))])
  IN  IF d.in = <<>> THEN d
      ELSE IF read.lookahead < MinLookahead /\ read.in # <<>> THEN fill_window(read)
      ELSE read

(* longest_match: the earlier strings with the same three bytes, within     *)
(* max_dist and never at index 0; the longest wins, and of two the nearest. *)
InsertString(d) == [d EXCEPT !.hash = @ \cup {d.strstart}]
SameThree(d, p) == \A i \in 0..2 : window(d, p + i) = window(d, d.strstart + i)
Chain(d) == {p \in d.hash : p > 0 /\ p < d.strstart /\ SameThree(d, p)}
MatchLength(d, p) ==
  Max({n \in 0..Min({MaxMatch, d.lookahead}) : \A i \in 0..(n - 1) : window(d, p + i) = window(d, d.strstart + i)})

longest_match(d, head, prev_length) ==
  LET near == {p \in Chain(d) : d.strstart - p < max_dist} \cup {head}
      best == Max({MatchLength(d, p) : p \in near})
  IN  IF best <= prev_length THEN [d EXCEPT !.match_length = Min({prev_length, d.lookahead})]
      ELSE [d EXCEPT !.match_length = best,
                     !.match_start = Max({p \in near : MatchLength(d, p) = best})]

Head3(d) == IF d.lookahead >= MinMatch /\ Chain(d) # {} THEN Max(Chain(d)) ELSE 0
Enter(d) == IF d.lookahead >= MinMatch THEN InsertString(d) ELSE d
Within(d, head) == head # 0 /\ d.strstart - head <= max_dist

tr_tally_lit(d, byte)      == [d EXCEPT !.lits = Append(@, [d |-> 0, l |-> byte])]
tr_tally_dist(d, dist, len) == [d EXCEPT !.lits = Append(@, [d |-> dist, l |-> len])]
bflush(d) == Len(d.lits) = LitBufSize - 1

(* The five strategies have one shape.  A round sees to the lookahead and    *)
(* takes one symbol; when the block is full it is flushed, and without room  *)
(* for more the call ends there.                                             *)
More(d)    == [d |-> d, st |-> "more"]
Stop(d)    == [d |-> d, st |-> "need_more"]
Blocked(d) == [d |-> d, st |-> IF d.room = 0 THEN "need_more" ELSE "more"]
Cut(d)     == IF bflush(d) THEN Blocked(flush_block(d, FALSE)) ELSE More(d)

\* The lookahead below which they fill the window, and that they stop below.
FillBelow(d) ==
  CASE d.func = "stored" -> 2
    [] d.func \in {"fast", "slow"} -> MinLookahead
    [] d.func = "rle" -> MaxMatch + 1
    [] d.func = "huff" -> 1
StopBelow(d) == IF d.func = "stored" THEN 1 ELSE FillBelow(d)

(* f_stored: no compression; a block ends when pending_buf would overflow   *)
(* or the window would slide over its start.                                *)
AtMost(d, max_start) ==
  IF d.strstart = 0 \/ d.strstart >= max_start
  THEN Blocked(flush_block([d EXCEPT !.lookahead = d.strstart - max_start, !.strstart = max_start], FALSE))
  ELSE More(d)

BeforeSlide(r) ==
  IF r.st = "more" /\ r.d.strstart - r.d.block_start >= max_dist
  THEN Blocked(flush_block(r.d, FALSE)) ELSE r

f_stored(d) ==
  BeforeSlide(AtMost([d EXCEPT !.strstart = @ + d.lookahead, !.lookahead = 0], d.block_start + PendingSize - 5))

(* f_fast: every match that is found is taken.                              *)
Skip(d, n, max_lazy) ==
  LET e == [d EXCEPT !.lookahead = @ - n, !.strstart = @ + n, !.match_length = 0]
  IN  IF n <= max_lazy /\ e.lookahead >= MinMatch
      THEN [e EXCEPT !.hash = @ \cup (d.strstart + 1)..(d.strstart + n - 1)]
      ELSE e

TakeMatch(d, max_lazy) ==
  Skip(tr_tally_dist(d, d.strstart - d.match_start, d.match_length), d.match_length, max_lazy)
TakeLiteral(d) ==
  [tr_tally_lit(d, window(d, d.strstart)) EXCEPT !.lookahead = @ - 1, !.strstart = @ + 1]
Take(d) == IF d.match_length >= MinMatch THEN TakeMatch(d, 4) ELSE TakeLiteral(d)

Matched(d, head) == IF Within(d, head) THEN longest_match(d, head, MinMatch - 1) ELSE d
f_fast(d) == Cut(Take(Matched(Enter(d), Head3(d))))

(* f_slow: a match is taken only if the next position has no better one;    *)
(* until then its first byte is held back (match_available).                *)
NotTooFar(m) ==
  IF m.match_length = MinMatch /\ m.strstart - m.match_start > TooFar
  THEN [m EXCEPT !.match_length = MinMatch - 1] ELSE m

Better(d, head, prev_length) ==
  IF Within(d, head) THEN NotTooFar(longest_match(d, head, prev_length))
  ELSE [d EXCEPT !.match_length = MinMatch - 1]

\* A mutant of PreviousDistance: counted from the present byte.
PresentDistance(d, start) == d.strstart - start

PreviousDistance(d, start) == d.strstart - 1 - start

TakePrevious(d, length, start) ==
  LET max_insert == d.strstart + d.lookahead - MinMatch
      n == length - 2
  IN  [tr_tally_dist(d, PreviousDistance(d, start), length) EXCEPT
         !.lookahead = @ - (length - 1), !.strstart = @ + n + 1,
         !.hash = @ \cup {p \in (d.strstart + 1)..(d.strstart + n) : p <= max_insert},
         !.match_available = FALSE, !.match_length = MinMatch - 1]

Advance(d) == [d EXCEPT !.strstart = @ + 1, !.lookahead = @ - 1]
TallyHeld(d) == tr_tally_lit(d, window(d, d.strstart - 1))

Lazily(m, d) ==
  IF d.match_length >= MinMatch /\ m.match_length <= d.match_length
  THEN Cut(TakePrevious(m, d.match_length, d.match_start))
  ELSE IF d.match_available THEN [Cut(TallyHeld(m)) EXCEPT !.d = Advance(@)]
  ELSE More(Advance([m EXCEPT !.match_available = TRUE]))

f_slow(d) == Lazily(Better(Enter(d), Head3(d), d.match_length), d)

(* f_rle: matches at distance one only; f_huff: literals only.              *)
RunLength(d) ==
  IF d.lookahead >= MinMatch /\ d.strstart > 0
  THEN Max({n \in 0..Min({MaxMatch, d.lookahead}) :
              \A i \in 0..(n - 1) : window(d, d.strstart + i) = window(d, d.strstart - 1)})
  ELSE 0

TakeRun(d, n) ==
  IF n >= MinMatch
  THEN [tr_tally_dist(d, 1, n) EXCEPT !.lookahead = @ - n, !.strstart = @ + n, !.match_length = 0]
  ELSE [TakeLiteral(d) EXCEPT !.match_length = 0]

f_rle(d)  == Cut(TakeRun(d, RunLength(d)))
f_huff(d) == Cut(TakeRun(d, 0))

(* When the input is used up the byte held back is taken too, and the block  *)
(* ends; insert remembers the strings that are not in the hash yet.          *)
Released(d) ==
  IF d.func \in {"fast", "slow"}
  THEN [IF d.func = "slow" /\ d.match_available THEN TallyHeld(d) ELSE d EXCEPT
          !.match_available = FALSE, !.insert = Min({d.strstart, MinMatch - 1})]
  ELSE [d EXCEPT !.insert = 0]

EndState(d, flush) ==
  [d |-> d,
   st |-> IF flush = "finish" THEN IF d.room = 0 THEN "finish_started" ELSE "finish_done"
          ELSE IF d.room = 0 THEN "need_more" ELSE "block_done"]

Ended(d, flush) ==
  IF flush = "finish" \/ IF d.func = "stored" THEN d.strstart > d.block_start ELSE d.lits # <<>>
  THEN EndState(flush_block(d, flush = "finish"), flush)
  ELSE [d |-> d, st |-> "block_done"]

Round(d, flush) ==
  IF d.lookahead < StopBelow(d) /\ flush = "none" THEN Stop(d)
  ELSE IF d.lookahead = 0 THEN Ended(Released(d), flush)
  ELSE CASE d.func = "stored" -> f_stored(d)
         [] d.func = "fast"   -> f_fast(d)
         [] d.func = "slow"   -> f_slow(d)
         [] d.func = "rle"    -> f_rle(d)
         [] d.func = "huff"   -> f_huff(d)

RECURSIVE Compress(_, _)
Again(r, flush) == IF r.st = "more" THEN Compress(r.d, flush) ELSE r
Compress(d, flush) ==
  Again(Round(IF d.lookahead < FillBelow(d) THEN fill_window(d) ELSE d, flush), flush)

-----------------------------------------------------------------------------
(* doWrite.  The result is the stream and the error code.                   *)
Result(d, ec) == [d |-> d, ec |-> ec]

(* An empty block marks a partial, sync or full flush; a full flush also    *)
(* forgets the history.                                                     *)
Forget(d) ==
  IF d.lookahead = 0
  THEN [d EXCEPT !.hash = {}, !.base = Len(d.hist), !.strstart = 0, !.block_start = 0, !.insert = 0]
  ELSE [d EXCEPT !.hash = {}]


Marker(d, flush) ==
  IF flush = "partial" THEN tr_align(d)
  ELSE IF flush = "block" THEN d
  ELSE IF flush = "full" THEN Forget(tr_stored_block(d, <<>>, FALSE))
  ELSE tr_stored_block(d, <<>>, FALSE)

Close(d, flush) == Result(d, IF flush = "finish" THEN "end_of_stream" ELSE "ok")
Unset(d) == [d EXCEPT !.last_flush = IF d.room = 0 THEN "unset" ELSE @]

(* The middle of doWrite, once the pending output has been given away.      *)
Flushed(d, flush) == IF d.room = 0 THEN Result(Unset(d), "ok") ELSE Close(d, flush)

Compressed(r, flush) ==
  LET e == IF r.st \in {"finish_started", "finish_done"} THEN [r.d EXCEPT !.status = "FINISH"] ELSE r.d
  IN  IF r.st \in {"need_more", "finish_started"} THEN Result(Unset(e), "ok")
      ELSE IF r.st = "block_done" THEN Flushed(flush_pending(Marker(e, flush)), flush)
      ELSE Close(e, flush)

Work(d, flush) ==
  IF d.in # <<>> \/ d.lookahead # 0 \/ (flush # "none" /\ d.status # "FINISH")
  THEN Compressed(Compress(d, flush), flush)
  ELSE Close(d, flush)

Proceed(d, gave, flush, old_flush) ==
  IF d.room = 0 THEN Result(Unset(d), "ok")
  ELSE IF ~gave /\ d.in = <<>> /\ NotAbove(flush, old_flush) /\ flush # "finish" THEN Result(d, "need_buffers")
  ELSE IF d.status = "FINISH" /\ d.in # <<>> THEN Result(d, "need_buffers")
  ELSE Work(d, flush)

Write(d0, in, room, flush, how) ==
  LET d == [d0 EXCEPT !.in = in, !.room = room]
      e == [d EXCEPT !.how = how, !.last_flush = flush]
  IN  IF d.status = "FINISH" /\ flush # "finish" THEN Result(d, "stream_error")
      ELSE IF room = 0 THEN Result(d, "need_buffers")
      ELSE Proceed(IF d.pend # 0 THEN flush_pending(e) ELSE e, d.pend # 0, flush, d.last_flush)

(* doParams: the strategy changes after what was taken has been flushed     *)
(* with Flush::block, as far as the room goes.                              *)
Turned(r, func) ==
  Result([r.d EXCEPT !.func = func], IF r.ec = "need_buffers" /\ r.d.pend = 0 THEN "ok" ELSE r.ec)

Params(d, in, room, func, how) ==
  Turned(IF func # d.func /\ Len(d.hist) # 0 THEN Write(d, in, room, "block", how)
         ELSE Result([d EXCEPT !.in = in, !.room = room], "ok"), func)
=============================================================================
