----------------------------- MODULE StreamBuf ------------------------------
(***************************************************************************)
(* beast::basic_streambuf (core/streambuf.hpp, core/impl/streambuf.ipp):   *)
(* a byte queue kept in a list of allocated elements.  The operators       *)
(* translate prepare, commit, consume, data and the rest one for one; the  *)
(* loops over the list are written as what they leave behind.              *)
(***************************************************************************)
EXTENDS Naturals, Sequences, FiniteSets, Functions

Smaller(a, b) == IF a < b THEN a ELSE b
Larger(a, b) == IF a < b THEN b ELSE a

\* A byte of an element that nothing was written to.
Raw == "raw"

\* list: the cells of each element; out = Len(list) + 1 is list_.end().
EmptyBuf == [list |-> <<>>, out |-> 1, in_pos |-> 0, out_pos |-> 0,
             out_end |-> 0, in_size |-> 0]

Size(b, i) == Len(b.list[i])
AtEnd(b) == b.out > Len(b.list)
InFrom(b, i) == IF i = 1 THEN b.in_pos ELSE 0
OutFrom(b, i) == IF i = b.out THEN b.out_pos ELSE 0

\* The room from out_pos_ to the end of element j, and what is held up to there
\* when all of it is committed.
Room(b, j) == SumFunction([i \in b.out..j |-> Size(b, i) - OutFrom(b, i)])
Held(b, j) == SumFunction([i \in 1..j |-> Size(b, i) - InFrom(b, i)])

\* data(): one buffer for each element up to out_.
Data(b) ==
  [i \in 1..Smaller(b.out, Len(b.list)) |->
     SubSeq(b.list[i], InFrom(b, i) + 1,
            IF i = b.out THEN b.out_pos ELSE Size(b, i))]

\* The buffers prepare() returns: from out_ to the end of the list.
Writable(b) ==
  [i \in 1..(Len(b.list) + 1 - b.out) |->
     LET j == b.out + i - 1
     IN  (IF j = Len(b.list) THEN b.out_end ELSE Size(b, j)) - OutFrom(b, j)]

Flat(s) == LET f[i \in 0..Len(s)] == IF i = 0 THEN <<>> ELSE f[i-1] \o s[i]
           IN  f[Len(s)]

Capacity(b) == b.in_size + Room(b, Len(b.list))

\* prepare(n): the room left in out_, then the elements behind it, then a new
\* one; elements that are not needed are freed.
Prepare(b, n, alloc) ==
  LET here  == IF AtEnd(b) THEN 0 ELSE Size(b, b.out) - b.out_pos
      keep  == Smaller(b.out, Len(b.list))
      more  == IF n > here THEN n - here ELSE 0
      room(j) == SumFunction([i \in (keep+1)..j |-> Size(b, i)])
      last  == IF room(Len(b.list)) <= more THEN Len(b.list)
               ELSE CHOOSE j \in keep..Len(b.list) :
                      room(j) >= more /\ \A i \in keep..(j-1) : room(i) < more
      fresh == IF more > room(last) THEN more - room(last) ELSE 0
      list  == SubSeq(b.list, 1, last)
  IN  IF fresh > 0
        THEN [b EXCEPT !.list = Append(list, [i \in 1..Larger(alloc, fresh) |-> Raw]),
                       !.out_end = fresh]
        ELSE [b EXCEPT !.list = list,
                       !.out_end = IF last > keep THEN more - room(last-1)
                                   ELSE IF AtEnd(b) THEN @ ELSE b.out_pos + n]

\* The caller writes s into the prepared buffers.
Fill(b, s) ==
  [b EXCEPT !.list =
     [i \in 1..Len(b.list) |->
        [k \in 1..Size(b, i) |->
           LET at == Room(b, i - 1) + k - OutFrom(b, i)
           IN  IF i >= b.out /\ k > OutFrom(b, i) /\ at <= Len(s)
                 THEN s[at] ELSE b.list[i][k]]]]

\* commit(n)
Commit(b, n) ==
  LET back == Len(b.list)
      at   == CHOOSE j \in b.out..back :
                /\ j = back \/ n < Room(b, j)
                /\ \A i \in b.out..(j-1) : n >= Room(b, i)
      rest == n - Room(b, at - 1)
      got  == IF at = back THEN Smaller(rest, b.out_end - OutFrom(b, at)) ELSE rest
      pos  == OutFrom(b, at) + got
  IN  IF AtEnd(b) THEN b
      ELSE IF at = back /\ pos = Size(b, at)
        THEN [b EXCEPT !.out = back + 1, !.out_pos = 0, !.out_end = 0,
                       !.in_size = @ + Room(b, at - 1) + got]
        ELSE [b EXCEPT !.out = at, !.out_pos = pos,
                       !.in_size = @ + Room(b, at - 1) + got]

\* Mutant of Consume: the position in the first element survives its removal.
ConsumeKeepsPos(b, n) ==
  LET gone == Cardinality({j \in 1..(b.out-1) : Held(b, j) <= n})
  IN  [b EXCEPT !.list = SubSeq(b.list, gone + 1, Len(b.list)), !.out = @ - gone,
                !.in_size = IF n < @ THEN @ - n ELSE 0]

\* consume(n): elements before out_ that are used up are freed; when input and
\* output are both empty the element is used again from its beginning.
Consume(b, n) ==
  LET gone == Cardinality({j \in 1..(b.out-1) : Held(b, j) <= n})
      rest == n - Held(b, gone)
      from == IF gone = 0 THEN b.in_pos ELSE 0
      c    == [b EXCEPT !.list = SubSeq(b.list, gone + 1, Len(b.list)),
                        !.out = @ - gone, !.in_pos = from + rest,
                        !.in_size = @ - n]
  IN  IF b.list = <<>> THEN b
      ELSE IF gone < b.out - 1 \/ (~AtEnd(b) /\ rest < b.out_pos - from) THEN c
      ELSE IF ~AtEnd(b) /\ (b.out # Len(b.list) \/ b.out_pos # b.out_end)
        THEN [c EXCEPT !.in_pos = b.out_pos, !.in_size = 0]
        ELSE [c EXCEPT !.in_pos = 0, !.out_pos = 0, !.out_end = 0, !.in_size = 0]

\* Mutant of read_size_helper: it does not look at what is allocated.
ReadSizeMax(b, max, alloc) == max

\* read_size_helper: fill what is allocated before allocating.
read_size_helper(b, max, alloc) ==
  LET avail == Capacity(b) - b.in_size
  IN  Smaller(max, IF avail > 0 THEN avail ELSE alloc)

\* debug_check()
DebugCheck(b) ==
  /\ Len(Flat(Data(b))) = b.in_size
  /\ b.list = <<>> => b = EmptyBuf
  /\ b.list # <<>> => b.in_pos < Size(b, 1)
  /\ b.list # <<>> /\ AtEnd(b) => b.out_pos = 0 /\ b.out_end = 0
  /\ ~AtEnd(b) =>
       /\ b.out_end <= Size(b, Len(b.list))
       /\ b.out_pos < Size(b, b.out)
       /\ b.out = 1 => b.out_pos >= b.in_pos /\ b.out_pos - b.in_pos = b.in_size
       /\ b.out = Len(b.list) => b.out_pos <= b.out_end
=============================================================================
