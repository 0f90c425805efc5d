------------------------------ MODULE Buffers -------------------------------
(***************************************************************************)
(* The other buffers of beast/core, next to StreamBuf:                     *)
(*   static_streambuf   a fixed array, never used a second time before     *)
(*                      reset()                                            *)
(*   buffers_adapter    the same interface over a list of fixed buffers    *)
(*   consuming_buffers, prepare_buffers   the rest and the front of a list *)
(* and one set of names for the three dynamic buffers.                     *)
(***************************************************************************)
EXTENDS StreamBuf

\* A static_streambuf of n bytes: in_, out_ and last_ are offsets.
NewStatic(n) == [kind |-> "static", cells |-> [i \in 1..n |-> Raw],
                 in |-> 0, out |-> 0, last |-> 0]

\* A buffers_adapter over buffers of these sizes: begin_, out_ and end_ are
\* positions in bs, Len(bs) + 1 is bs_.end().
NewAdapter(sizes) ==
  [kind |-> "adapter", bs |-> [i \in 1..Len(sizes) |-> [k \in 1..sizes[i] |-> Raw]],
   begin |-> 1, out |-> 1, end |-> 1, max_size |-> SumFunction(sizes),
   in_pos |-> 0, in_size |-> 0, out_pos |-> 0, out_end |-> 0]

NewStreambuf(alloc) == [kind |-> "streambuf", sb |-> EmptyBuf, alloc |-> alloc]

-----------------------------------------------------------------------------
\* buffers_adapter

AFrom(b, i) == IF i = b.out THEN b.out_pos ELSE 0
AUpto(b, i) == IF i = b.end - 1 THEN b.out_end ELSE Len(b.bs[i])

\* The room from out_pos_ to the end of buffer j, and what is held up to there
\* when all of it is committed.
ARoom(b, j) == SumFunction([i \in b.out..j |-> Len(b.bs[i]) - AFrom(b, i)])
AHeld(b, j) ==
  SumFunction([i \in b.begin..j |-> Len(b.bs[i]) - (IF i = b.begin THEN b.in_pos ELSE 0)])

\* The list loop of prepare() reaches this buffer with that many bytes missing.
AWalk(b, n) ==
  LET last == CHOOSE j \in b.out..Len(b.bs) :
                /\ j = Len(b.bs) \/ n < ARoom(b, j) \/ (j = b.out /\ n = ARoom(b, j))
                /\ \A i \in b.out..(j-1) : n >= ARoom(b, i) /\ (i = b.out => n > ARoom(b, i))
  IN  [last |-> last, here |-> n - ARoom(b, last - 1)]

Fits(b, n) == n <= ARoom(b, Len(b.bs))

aprepare(b, n) ==
  IF b.out > Len(b.bs) THEN [b EXCEPT !.end = b.out]
  ELSE LET w == AWalk(b, n)
       IN  [b EXCEPT !.end = w.last + 1,
                     !.out_end = Smaller(Len(b.bs[w.last]), AFrom(b, w.last) + w.here)]

acommit(b, n) ==
  LET last == b.end - 1
      at   == CHOOSE j \in b.out..last :
                /\ j = last \/ n < ARoom(b, j)
                /\ \A i \in b.out..(j-1) : n >= ARoom(b, i)
      rest == n - ARoom(b, at - 1)
      got  == IF at = last THEN Smaller(rest, b.out_end - AFrom(b, at)) ELSE rest
      all  == ARoom(b, at - 1) + got
      pos  == AFrom(b, at) + got
      full == at = last /\ pos = Len(b.bs[at])
  IN  IF b.out = b.end THEN b
      ELSE [b EXCEPT !.out = IF full THEN at + 1 ELSE at,
                     !.out_pos = IF full THEN 0 ELSE pos,
                     !.out_end = IF full THEN 0 ELSE @,
                     !.in_size = @ + all, !.max_size = @ - all]

aconsume(b, n) ==
  LET gone == Cardinality({j \in b.begin..(b.out-1) : AHeld(b, j) <= n})
      rest == n - AHeld(b, b.begin + gone - 1)
      from == IF gone = 0 THEN b.in_pos ELSE 0
      most == IF b.begin + gone < b.out THEN rest ELSE Smaller(rest, b.out_pos - from)
  IN  [b EXCEPT !.begin = @ + gone, !.in_pos = from + most,
                !.in_size = @ - AHeld(b, b.begin + gone - 1) - most]

AData(b) ==
  [i \in 1..((IF b.out = b.end THEN b.end ELSE b.out + 1) - b.begin) |->
     LET j == b.begin + i - 1
     IN  SubSeq(b.bs[j], 1 + (IF j = b.begin THEN b.in_pos ELSE 0),
                IF j = b.out THEN b.out_pos ELSE Len(b.bs[j]))]

-----------------------------------------------------------------------------
\* prepare_buffers(n, buffers): the sizes of the first buffers, n bytes in all.
prepare_buffers(n, sizes) ==
  LET upto(j) == SumFunction([i \in 1..j |-> sizes[i]])
      back == CHOOSE j \in 1..(Len(sizes) + 1) :
                /\ j > Len(sizes) \/ n <= upto(j)
                /\ \A i \in 1..(j-1) : n > upto(i)
  IN  [i \in 1..Smaller(back, Len(sizes)) |->
         IF i = back THEN n - upto(back - 1) ELSE sizes[i]]

\* consuming_buffers: begin_ and skip_ over a list of buffers, and consume(n).
consuming(bs) == [bs |-> bs, begin |-> 1, skip |-> 0]

consume_front(c, n) ==
  LET left(j) == SumFunction([i \in c.begin..j |-> Len(c.bs[i])]) - c.skip
      gone == Cardinality({j \in c.begin..Len(c.bs) : left(j) <= n})
      past == IF gone = 0 THEN 0 ELSE left(c.begin + gone - 1)
  IN  IF n = 0 \/ c.begin > Len(c.bs) THEN c
      ELSE [c EXCEPT !.begin = @ + gone,
                     !.skip = IF gone = 0 THEN @ + n
                              ELSE IF c.begin + gone > Len(c.bs) THEN 0 ELSE n - past]

rest_of(c) ==
  LET all == Flat(SubSeq(c.bs, c.begin, Len(c.bs)))
  IN  SubSeq(all, c.skip + 1, Len(all))

-----------------------------------------------------------------------------
\* DynamicBuffer: the same five operations whichever buffer it is.

\* data(), as one sequence.
db_data(b) ==
  CASE b.kind = "static" -> SubSeq(b.cells, b.in + 1, b.out)
    [] b.kind = "adapter" -> Flat(AData(b))
    [] b.kind = "streambuf" -> Flat(Data(b.sb))

\* size()
db_size(b) ==
  CASE b.kind = "static" -> b.out - b.in
    [] b.kind = "adapter" -> b.in_size
    [] b.kind = "streambuf" -> b.sb.in_size

\* Mutant of db_throws: a buffer that would be full is full.
db_throws_early(b, n) ==
  \/ b.kind = "static" /\ n >= Len(b.cells) - b.out
  \/ b.kind = "adapter" /\ ~Fits(b, n)

\* prepare(n) throws length_error.
db_throws(b, n) ==
  \/ b.kind = "static" /\ n > Len(b.cells) - b.out
  \/ b.kind = "adapter" /\ ~Fits(b, n)

db_prepare(b, n) ==
  CASE b.kind = "static" -> [b EXCEPT !.last = b.out + n]
    [] b.kind = "adapter" -> aprepare(b, n)
    [] b.kind = "streambuf" -> [b EXCEPT !.sb = Prepare(@, n, b.alloc)]

\* The sizes of the buffers prepare() returns.
db_areas(b) ==
  CASE b.kind = "static" -> <<b.last - b.out>>
    [] b.kind = "adapter" ->
         [i \in 1..(b.end - b.out) |-> AUpto(b, b.out + i - 1) - AFrom(b, b.out + i - 1)]
    [] b.kind = "streambuf" -> Writable(b.sb)

\* Bytes are written into them.
db_fill(b, s) ==
  CASE b.kind = "static" ->
         [b EXCEPT !.cells = [i \in 1..Len(@) |->
            IF i > b.out /\ i <= b.out + Len(s) THEN s[i - b.out] ELSE @[i]]]
    [] b.kind = "adapter" ->
         [b EXCEPT !.bs = [i \in 1..Len(@) |-> [k \in 1..Len(@[i]) |->
            LET at == ARoom(b, i - 1) + k - AFrom(b, i)
            IN  IF i >= b.out /\ k > AFrom(b, i) /\ at <= Len(s)
                  THEN s[at] ELSE @[i][k]]]]
    [] b.kind = "streambuf" -> [b EXCEPT !.sb = Fill(@, s)]

db_commit(b, n) ==
  CASE b.kind = "static" -> [b EXCEPT !.out = @ + Smaller(n, b.last - b.out)]
    [] b.kind = "adapter" -> acommit(b, n)
    [] b.kind = "streambuf" -> [b EXCEPT !.sb = Commit(@, n)]

db_consume(b, n) ==
  CASE b.kind = "static" -> [b EXCEPT !.in = @ + Smaller(n, b.out - b.in)]
    [] b.kind = "adapter" -> aconsume(b, n)
    [] b.kind = "streambuf" -> [b EXCEPT !.sb = Consume(@, n)]
=============================================================================
