------------------------------- MODULE Inflate -------------------------------
(***************************************************************************)
(* beast's inflate_stream, as operators on a record.  `Read` is one call   *)
(* of doWrite over the bits of `tape` (see Deflate): `got` bytes have been *)
(* taken from the input, n of their bits are still in the bitstream, and   *)
(* idx is the field that begins there.  A call may take bytes up to `lim`  *)
(* and write `room` bytes; the caller's buffer begins at byte `buf`.       *)
(* One operator per mode; `ret` is set where the code returns.             *)
(***************************************************************************)
EXTENDS Deflate

CONSTANTS InfBits,    \* the window holds 2^InfBits bytes
          LenRoot,    \* root table bits of literals and lengths, 9
          DistRoot,   \* of distances, 6
          CodeRoot    \* of code lengths, 7

FastIn == 6           \* what inflate_fast needs to run unchecked
FastOut == MaxMatch
Capacity == 2 ^ InfBits

\* Likewise.
InflateAssumption == InfBits \in Nat \ {0} /\ {LenRoot, DistRoot, CodeRoot} \subseteq Nat \ {0}

TableOf(tree) == {[sym |-> s, w |-> tree.len[s], c |-> tree.code[s]] : s \in DOMAIN tree.len}

(* window: a ring of Capacity bytes, the next one going to i.              *)
EmptyRing == [p |-> <<>>, i |-> 0, size |-> 0]

RingRead(r, pos, n) ==
  LET at(j) == IF r.i >= r.size THEN r.i - pos + j ELSE (r.i - pos + j + Capacity) % Capacity
  IN  [j \in 1..n |-> r.p[at(j - 1)]]

RingWrite(r, bytes) ==
  LET n == Len(bytes)
      from(i) == [j \in {(i + k) % Capacity : k \in 0..(n - 1)} |-> bytes[((j - i + Capacity) % Capacity) + 1]]
  IN  IF n >= Capacity
      THEN [p |-> [j \in 0..(Capacity - 1) |-> bytes[n - Capacity + j + 1]], i |-> 0, size |-> Capacity]
      ELSE [p |-> from(r.i) @@ r.p, i |-> (r.i + n) % Capacity, size |-> Min({r.size + n, Capacity})]

\* doReset: a stream before its first byte.  The ring's size is set to 0.
FreshInflate ==
  [mode |-> "HEAD", last |-> FALSE, n |-> 0, idx |-> 1, got |-> 0, lim |-> 0, buf |-> 0,
   room |-> 0, start |-> 0, length |-> 0, offset |-> 0, extra |-> 0, counts |-> <<>>, lens |-> <<>>,
   lt |-> {}, lbits |-> 0, dt |-> {}, dbits |-> 0, win |-> EmptyRing, out |-> <<>>, ret |-> ""]

-----------------------------------------------------------------------------
(* bitstream.                                                              *)
Needed(z, k) == IF k <= z.n THEN 0 ELSE (k - z.n + 7) \div 8
Enough(z, k) == Needed(z, k) <= z.lim - z.got
fill(z, k) == LET m == Min({Needed(z, k), z.lim - z.got}) IN [z EXCEPT !.got = @ + m, !.n = @ + 8 * m]
drop(z, k) == [z EXCEPT !.n = @ - k, !.idx = @ + 1]
Field(z, tape) == IF z.idx <= Len(tape) THEN tape[z.idx] ELSE [w |-> 0, k |-> "none", v |-> 0]
flush_byte(z, tape) == IF z.n % 8 # 0 /\ Field(z, tape).k = "pad" THEN drop(z, z.n % 8) ELSE z
\* A mutant of rewind: a byte that is begun is given back too.
rewind_begun(z) == [z EXCEPT !.got = @ - ((z.n + 7) \div 8), !.n = 0]

rewind(z) == [z EXCEPT !.got = @ - (z.n \div 8), !.n = @ % 8]

(* Returns: done() accounts for the call, err() leaves the counts alone.   *)
used(z) == Len(z.out) - z.start
avail(z) == z.lim - z.got

done(z, flush, ec, got0) ==
  LET keep == used(z) > 0 /\ z.mode # "BAD" /\ (z.mode \notin {"CHECK", "DONE"} \/ flush # "finish")
      stuck == (z.got = got0 /\ used(z) = 0) \/ flush = "finish"
  IN  [z EXCEPT !.win = IF keep THEN RingWrite(@, SubSeq(z.out, z.start + 1, Len(z.out))) ELSE @,
                !.ret = IF ec = "ok" /\ stuck THEN "need_buffers" ELSE ec]

err(z, ec) == [z EXCEPT !.mode = "BAD", !.out = SubSeq(@, 1, z.start), !.ret = ec]

(* A code of table t: the root index's bits must be there, then the code's.*)
Decode(t, f) == {e \in t : f.k = "code" /\ e.w = f.w /\ e.c = f.v}
Symbol(t, f) == (CHOOSE e \in Decode(t, f) : TRUE).sym

-----------------------------------------------------------------------------
(* The modes.  Wait marks a return through done().                         *)
Wait(z) == [z EXCEPT !.ret = "wait"]

TypeDo(z0, tape, flush) ==
  LET z == fill(z0, 3)
      f == Field(z, tape)
      b == [drop(z, 3) EXCEPT !.last = f.v.last]
      fixed == [b EXCEPT !.mode = "LEN", !.lt = TableOf(StaticL), !.lbits = 9,
                         !.dt = TableOf(StaticD), !.dbits = 5]
  IN  IF z0.last THEN [flush_byte(z0, tape) EXCEPT !.mode = "CHECK"]
      ELSE IF ~Enough(z0, 3) THEN Wait(z)
      ELSE IF f.k # "block" THEN err(z, "invalid_block_type")
      ELSE IF f.v.type = "stored" THEN [b EXCEPT !.mode = "STORED"]
      ELSE IF f.v.type = "dynamic" THEN [b EXCEPT !.mode = "TABLE"]
      ELSE IF flush = "trees" THEN Wait(fixed) ELSE fixed

\* TYPE is where a call with Flush::block or trees stops between two blocks.
Type(z, tape, flush) ==
  IF flush \in {"block", "trees"} THEN Wait(z) ELSE TypeDo([z EXCEPT !.mode = "TYPEDO"], tape, flush)

Stored(z0, tape, flush) ==
  LET a == flush_byte(z0, tape)
      z == fill(a, 32)
      f == Field(z, tape)
      b == [z EXCEPT !.n = 0, !.idx = @ + 1, !.length = f.v, !.mode = "COPY"]
  IN  IF ~Enough(a, 32) THEN Wait(z)
      ELSE IF f.k # "len" THEN err(z, "invalid_stored_length")
      ELSE IF flush = "trees" THEN Wait(b) ELSE b

Copy(z, tape) ==
  LET n == Min({z.length, avail(z), z.room})
  IN  IF z.length = 0 THEN [z EXCEPT !.mode = "TYPE"]
      ELSE IF n = 0 THEN Wait(z)
      ELSE [z EXCEPT !.out = @ \o [i \in 1..n |-> tape[z.idx + i - 1].v], !.got = @ + n,
                     !.idx = @ + n, !.length = @ - n, !.room = @ - n]

Table(z0, tape) ==
  LET z == fill(z0, 14)
      f == Field(z, tape)
  IN  IF ~Enough(z0, 14) THEN Wait(z)
      ELSE IF f.k # "counts" THEN err(z, "invalid_block_type")
      ELSE IF f.v.nlen > Cardinality(LTree) \/ f.v.ndist > Cardinality(DTree) THEN err(z, "too_many_symbols")
      ELSE [drop(z, 14) EXCEPT !.counts = f.v, !.lens = <<>>, !.mode = "LENLENS"]

LenLens(z0, tape) ==
  LET z == fill(z0, 3)
      count == REPZ_11_138(MaxBits)
      lens == [s \in 0..count |-> IF s < Len(z0.lens) THEN z0.lens[s + 1] ELSE 0]
  IN  IF Len(z0.lens) < z0.counts.ncode
      THEN IF Enough(z0, 3) THEN [drop(z, 3) EXCEPT !.lens = Append(@, Field(z, tape).v)] ELSE Wait(z)
      ELSE IF TableError(lens, TRUE, BlMaxBits) # "none"
      THEN [z0 EXCEPT !.mode = "BAD", !.ret = TableError(lens, TRUE, BlMaxBits)]
      ELSE [z0 EXCEPT !.lt = inflate_table(lens), !.lbits = RootBits(lens, CodeRoot), !.lens = <<>>,
                      !.mode = "CODELENS"]

(* Every code length needs the root table's bits, a repeat its count's too.*)
CodeLens(z0, tape) ==
  LET z == fill(z0, z0.lbits)
      f == Field(z, tape)
      sym == Symbol(z.lt, f)
      more == IF sym = REP_3_6(MaxBits) THEN 2 ELSE IF sym = REPZ_3_10(MaxBits) THEN 3 ELSE 7
      r == fill(z, f.w + more)
      d == drop(r, f.w)
      copy == Field(d, tape).v + IF more = 7 THEN 11 ELSE 3
      total == z0.counts.nlen + z0.counts.ndist
  IN  IF ~Enough(z0, z0.lbits) THEN Wait(z)
      ELSE IF Decode(z.lt, f) = {} THEN err(z, "invalid_code")
      ELSE IF sym <= MaxBits THEN [drop(z, f.w) EXCEPT !.lens = Append(@, sym)]
      ELSE IF ~Enough(z, f.w + more) THEN Wait(r)
      ELSE IF sym = REP_3_6(MaxBits) /\ z.lens = <<>> THEN err(d, "invalid_bit_length_repeat")
      ELSE IF Len(z.lens) + copy > total THEN err(drop(d, more), "invalid_bit_length_repeat")
      ELSE [drop(d, more) EXCEPT
              !.lens = @ \o [i \in 1..copy |-> IF sym = REP_3_6(MaxBits) THEN Last(z.lens) ELSE 0]]

\* The two tables of a dynamic block, once all lengths are there.
Tables(z, flush) ==
  LET ll == [s \in 0..(z.counts.nlen - 1) |-> z.lens[s + 1]]
      dl == [s \in 0..(z.counts.ndist - 1) |-> z.lens[z.counts.nlen + s + 1]]
      bad == {TableError(ll, FALSE, MaxBits), TableError(dl, FALSE, MaxBits)} \ {"none"}
      ready == [z EXCEPT !.lt = inflate_table(ll), !.lbits = RootBits(ll, LenRoot),
                         !.dt = inflate_table(dl), !.dbits = RootBits(dl, DistRoot), !.mode = "LEN"]
  IN  IF ll[END_BLOCK] = 0 THEN err(z, "missing_eob")
      ELSE IF bad # {} THEN err(z, CHOOSE e \in bad : TRUE)
      ELSE IF flush = "trees" THEN Wait(ready) ELSE ready

CodeLensOrTables(z, tape, flush) ==
  IF Len(z.lens) < z.counts.nlen + z.counts.ndist THEN CodeLens(z, tape) ELSE Tables(z, flush)

-----------------------------------------------------------------------------
(* Copies: from the ring while the distance reaches behind this call's     *)
(* output, from the output itself after that.                              *)
FromRing(z) ==
  LET back == z.offset - used(z)
      n == Min({z.length, back, z.room})
  IN  IF back > z.win.size THEN err(z, "invalid_distance")
      ELSE [z EXCEPT !.out = @ \o RingRead(z.win, back, n), !.length = @ - n, !.room = @ - n]

RECURSIVE Repeat(_, _, _)
Repeat(out, offset, n) == IF n = 0 THEN out ELSE Repeat(Append(out, out[Len(out) - offset + 1]), offset, n - 1)

FromOutput(z) ==
  LET n == Min({z.length, z.room})
  IN  [z EXCEPT !.out = Repeat(@, z.offset, n), !.length = @ - n, !.room = @ - n]

Literal(z, byte) == [z EXCEPT !.out = Append(@, byte), !.room = @ - 1]

(* inflate_fast: while there is input and room for any symbol, whole       *)
(* symbols; the whole bytes left in the bitstream are given back.          *)
fill_16(z) == IF z.n < 15 THEN [z EXCEPT !.got = @ + 2, !.n = @ + 16] ELSE z
fill_8(z, k) == LET m == Needed(z, k) IN [z EXCEPT !.got = @ + m, !.n = @ + 8 * m]
CopyAll(z) ==
  LET r == IF z.offset > used(z) THEN FromRing(z) ELSE z
  IN  IF r.ret # "" \/ r.length = 0 THEN r ELSE FromOutput(r)

ReadExtra(z, k, tape) == IF k = 0 THEN z ELSE drop(fill_8(z, k), k)
ExtraValue(z, k, tape) == IF k = 0 THEN 0 ELSE Field(z, tape).v

FastMatch(z, s, tape) ==
  LET lc == LengthCodes[s - END_BLOCK]
      z1 == fill_16(ReadExtra(z, lc.extra, tape))
      f  == Field(z1, tape)
      dc == DistCodes[Symbol(z1.dt, f) + 1]
      z2 == drop(z1, f.w)
      z3 == ReadExtra(z2, dc.extra, tape)
  IN  IF Decode(z1.dt, f) = {} THEN err(z1, "invalid_distance_code")
      ELSE CopyAll([z3 EXCEPT !.length = lc.base + ExtraValue(z, lc.extra, tape),
                              !.offset = dc.base + ExtraValue(z2, dc.extra, tape)])

FastSymbol(z0, tape) ==
  LET z == fill_16(z0)
      f == Field(z, tape)
      s == Symbol(z.lt, f)
      d == drop(z, f.w)
  IN  IF Decode(z.lt, f) = {} THEN err(z, "invalid_literal_length")
      ELSE IF s < END_BLOCK THEN Literal(d, s)
      ELSE IF s = END_BLOCK THEN [d EXCEPT !.mode = "TYPE"]
      ELSE FastMatch(d, s, tape)

RECURSIVE FastLoop(_, _, _, _)
FastOn(z, tape, last, end) ==
  IF z.ret = "" /\ z.mode # "TYPE" /\ z.got < last /\ Len(z.out) < end
  THEN FastLoop(z, tape, last, end) ELSE z
FastLoop(z, tape, last, end) == FastOn(FastSymbol(z, tape), tape, last, end)

Rewound(z) == IF z.ret # "" THEN z ELSE rewind(z)
inflate_fast(z, tape) == Rewound(FastLoop(z, tape, z.lim - 5, Len(z.out) + z.room - (FastOut - 1)))

\* The bytes given back may be more than this buffer has: the model stops.
InBuffer(z) == IF z.got < z.buf THEN [z EXCEPT !.mode = "LOST", !.ret = "strayed"] ELSE z

(* LEN to DISTEXT outside of it: each code waits for the root table's bits,*)
(* whether or not its own code is that long.                               *)
Len_(z0, tape) ==
  LET z == fill(z0, z0.lbits)
      f == Field(z, tape)
      r == fill(z, f.w)
      s == Symbol(z.lt, f)
      d == drop(r, f.w)
  IN  IF avail(z0) >= FastIn /\ z0.room >= FastOut
      THEN InBuffer(inflate_fast(z0, tape))
      ELSE IF ~Enough(z0, z0.lbits) THEN Wait(z)
      ELSE IF Decode(z.lt, f) = {} THEN err(z, "invalid_literal_length")
      ELSE IF ~Enough(z, f.w) THEN Wait(r)
      ELSE IF s < END_BLOCK THEN [d EXCEPT !.length = s, !.mode = "LIT"]
      ELSE IF s = END_BLOCK THEN [d EXCEPT !.mode = "TYPE"]
      ELSE [d EXCEPT !.length = LengthCodes[s - END_BLOCK].base,
                     !.extra = LengthCodes[s - END_BLOCK].extra, !.mode = "LENEXT"]

LenExt(z0, tape) ==
  LET z == fill(z0, z0.extra)
  IN  IF z0.extra = 0 THEN [z0 EXCEPT !.mode = "DIST"]
      ELSE IF ~Enough(z0, z0.extra) THEN Wait(z)
      ELSE [drop(z, z0.extra) EXCEPT !.length = @ + Field(z, tape).v, !.mode = "DIST"]

Dist(z0, tape) ==
  LET z == fill(z0, z0.dbits)
      f == Field(z, tape)
      r == fill(z, f.w)
      s == Symbol(z.dt, f) + 1
  IN  IF ~Enough(z0, z0.dbits) THEN Wait(z)
      ELSE IF Decode(z.dt, f) = {} THEN err(z, "invalid_distance_code")
      ELSE IF ~Enough(z, f.w) THEN Wait(r)
      ELSE [drop(r, f.w) EXCEPT !.offset = DistCodes[s].base, !.extra = DistCodes[s].extra, !.mode = "DISTEXT"]

DistExt(z0, tape) ==
  LET z == fill(z0, z0.extra)
  IN  IF z0.extra = 0 THEN [z0 EXCEPT !.mode = "MATCH"]
      ELSE IF ~Enough(z0, z0.extra) THEN Wait(z)
      ELSE [drop(z, z0.extra) EXCEPT !.offset = @ + Field(z, tape).v, !.mode = "MATCH"]

Match(z) ==
  LET c == IF z.offset > used(z) THEN FromRing(z) ELSE FromOutput(z)
  IN  IF z.room = 0 THEN Wait(z)
      ELSE IF c.ret = "" /\ c.length = 0 THEN [c EXCEPT !.mode = "LEN"] ELSE c

Lit(z) == IF z.room = 0 THEN Wait(z) ELSE [Literal(z, z.length) EXCEPT !.mode = "LEN"]

-----------------------------------------------------------------------------
(* doWrite: the loop over the modes, and the way out.                      *)
Step(z, tape, flush) ==
  CASE z.mode \in {"HEAD", "TYPEDO"} -> TypeDo([z EXCEPT !.mode = "TYPEDO"], tape, flush)
    [] z.mode = "TYPE"     -> Type(z, tape, flush)
    [] z.mode = "STORED"   -> Stored(z, tape, flush)
    [] z.mode = "COPY"     -> Copy(z, tape)
    [] z.mode = "TABLE"    -> Table(z, tape)
    [] z.mode = "LENLENS"  -> LenLens(z, tape)
    [] z.mode = "CODELENS" -> CodeLensOrTables(z, tape, flush)
    [] z.mode = "LEN"      -> Len_(z, tape)
    [] z.mode = "LENEXT"   -> LenExt(z, tape)
    [] z.mode = "DIST"     -> Dist(z, tape)
    [] z.mode = "DISTEXT"  -> DistExt(z, tape)
    [] z.mode = "MATCH"    -> Match(z)
    [] z.mode = "LIT"      -> Lit(z)
    [] z.mode \in {"CHECK", "DONE"} -> [z EXCEPT !.mode = "DONE", !.ret = "end"]
    [] z.mode \in {"BAD", "LOST"}   -> Wait(z)

RECURSIVE Loop(_, _, _)
Loop(z, tape, flush) == IF z.ret # "" THEN z ELSE Loop(Step(z, tape, flush), tape, flush)

Leave(z, flush, got0) ==
  IF z.ret = "wait" THEN done(z, flush, "ok", got0)
  ELSE IF z.ret = "end" THEN done(z, flush, "end_of_stream", got0)
  ELSE z

Read(z, lim, room, flush, tape) ==
  Leave(Loop([z EXCEPT !.lim = lim, !.room = room, !.start = Len(z.out), !.ret = "",
                       !.buf = IF z.got = z.lim THEN z.got ELSE @,
                       !.mode = IF @ = "TYPE" THEN "TYPEDO" ELSE @], tape, flush), flush, z.got)
=============================================================================
