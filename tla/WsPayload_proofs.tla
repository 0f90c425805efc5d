-------------------------- MODULE WsPayload_proofs --------------------------
(***************************************************************************)
(* Proofs about WsPayload: for any messages, any cutting of them into      *)
(* frames, any buffers and capacity, and any amounts in which the network  *)
(* and the caller take them, what is delivered is what was sent.           *)
(*                                                                         *)
(* The invariant needs a witness: a ledger that tells of each cell sent    *)
(* to which message and to which place of which frame it belongs.  It      *)
(* grows when the client sends; what stands in it behind the cells handed  *)
(* out is what read_frame waits for, with the key turned as far as the     *)
(* payload was read.  The buffers come in by the theorems of               *)
(* Buffers_proofs.                                                         *)
(*                                                                         *)
(* The second half is about the text: what the UTF-8 checker takes and     *)
(* refuses is compared with what is well-formed, byte by byte, then what   *)
(* read_frame makes of its answers with TextJudged.                        *)
(***************************************************************************)
EXTENDS WsPayload, Buffers_proofs

\* A cell of a buffer of the caller, and a cell on the network.
DbCell == Byte \cup {Raw}
Cell ==
  [t : {"head"}, fin : BOOLEAN, len : Nat] \cup [t : {"key"}, no : Nat]
  \cup [t : {"byte"}, b : Byte, no : Nat, rot : 0..3] \cup {Raw}

-----------------------------------------------------------------------------
(* The inductive invariant, part by part.                                  *)

\* Where a cell of the connection belongs: to message m, in a frame that starts
\* behind o bytes of it and whose head is cell at.
PlaceType ==
  [r : {"head", "key", "byte"}, m : Nat, o : Nat, at : Nat, fin : BOOLEAN, len : Nat, i : Nat]

\* The head of a frame behind o bytes of message m.
HeadAt(m, o) == [r |-> "head", m |-> m, o |-> o, at |-> 0, fin |-> FALSE, len |-> 0, i |-> 0]

\* What comes behind cell c, the p-th, that belongs to a.
After(a) == IF a.fin THEN HeadAt(a.m + 1, 0) ELSE HeadAt(a.m, a.o + a.len)
\* The key behind the head.
KeyAt(a, p, fin, n) == [a EXCEPT !.r = "key", !.at = p, !.fin = fin, !.len = n]
\* Where the cell behind c belongs.
Follow(a, c, p) ==
  IF a.r = "head" THEN KeyAt(a, p, c.fin, c.len)
  ELSE IF a.i < a.len THEN [a EXCEPT !.r = "byte", !.i = a.i + 1]
  ELSE After(a)

\* len bytes of message m behind o of them, all that are left when fin.
Whole(M, m, o, len, fin) ==
  /\ m \in 1..Len(M) /\ o + len <= Len(Flat(M[m]))
  /\ fin => o + len = Len(Flat(M[m]))

\* c is a cell that belongs to a.
Matches(M, a, c) ==
  /\ a.r = "head" => /\ c.t = "head" /\ c.len \in Nat /\ c.fin \in BOOLEAN
                     /\ Whole(M, a.m, a.o, c.len, c.fin)
  /\ a.r = "key" => c = [t |-> "key", no |-> a.at - 1]
  /\ a.r = "byte" => c = [t |-> "byte", b |-> Flat(M[a.m])[a.o + a.i],
                          no |-> a.at - 1, rot |-> (a.i - 1) % 4]

\* A place lies in a frame, and the frame in its message.
Sane(M, a) ==
  /\ a \in PlaceType
  /\ a.r \in {"head", "key"} => a.i = 0
  /\ a.r = "byte" => 1 <= a.i /\ a.i <= a.len
  /\ a.r # "head" => a.at >= 1 /\ Whole(M, a.m, a.o, a.len, a.fin)

\* A tells where each cell of S belongs, and the next one.
Ledger(M, S, A) ==
  /\ \A p \in 1..(Len(S) + 1) : Sane(M, A[p])
  /\ A[1] = HeadAt(1, 0)
  /\ \A p \in 1..Len(S) : Matches(M, A[p], S[p]) /\ A[p+1] = Follow(A[p], S[p], p)

\* The client is at message m, as far as the frames before a go.
ClientAt(M, a, m, c) ==
  /\ a.r = "head" /\ a.m = m /\ m \in 1..(Len(M) + 1)
  /\ m <= Len(M) => c.bs = M[m] /\ Consumable(Byte, c) /\ FrontAt(c) = a.o

\* The reader in state "where" expects a cell that belongs to a.
ReaderAt(a, where, m, t, f) ==
  /\ where \in {"idle", "head"} => a.r = "head" /\ a.m = m /\ a.o = Len(t)
  /\ where = "key" => /\ a.r = "key" /\ a.m = m /\ a.o = Len(t)
                      /\ a.fin = f.fin /\ a.len = f.remain /\ f.key = 0
  /\ where = "payload" => /\ a.r = "byte" /\ a.m = m /\ a.fin = f.fin
                          /\ a.i + f.remain = a.len + 1 /\ a.o + a.i = Len(t) + 1
                          /\ f.no = a.at - 1 /\ f.key = (a.i - 1) % 4
  /\ where = "done" => a.r = "head" /\ a.m = m + 1 /\ a.o = 0

\* sb_ and the network hold what was sent and not handed out, in order.
Flows(S, W, p, q) ==
  /\ S \in Seq(Cell) /\ W \in Seq(Cell) /\ p \in 0..Len(S) /\ Shaped(Cell, q)
  /\ View(q) \o W = SubSeq(S, p + 1, Len(S))

\* What was committed is a beginning of message m, all of it at the end.
TextAt(M, m, t, where) ==
  /\ m \in 1..Len(M) /\ t \in Seq(Byte) /\ Len(t) <= Len(Flat(M[m]))
  /\ t = SubSeq(Flat(M[m]), 1, Len(t))
  /\ where = "done" => t = Flat(M[m])

\* The caller's buffer holds t but for the k bytes consumed.
BufferAt(b, t, k) ==
  /\ Sound(DbCell, b) /\ k \in 0..Len(t)
  /\ db_data(b) = SubSeq(t, k + 1, Len(t))
  /\ b.kind # "streambuf" => Spent(b) = Len(t)

\* How a reading can end.
EndsAt(where, f, v, t, b) ==
  /\ where \in {"idle", "head", "key", "payload", "done", "failed"}
  /\ f \in [fin : BOOLEAN, remain : Nat, key : 0..3, no : Nat]
  /\ v # "none" => where = "failed"
  /\ v = "length_error" => b.kind # "streambuf" /\ Len(t) + f.remain > Space(b)

-----------------------------------------------------------------------------

\* The bytes of a message.
LEMMA MessageIs ==
  ASSUME NEW M \in Seq(Seq(Seq(Byte))), NEW m \in 1..Len(M)
  PROVE  /\ M[m] \in Seq(Seq(Byte)) /\ Flat(M[m]) \in Seq(Byte) /\ Len(Flat(M[m])) \in Nat
         /\ Len(M) \in Nat
<1>1. M[m] \in Seq(Seq(Byte))
  OBVIOUS
<1>2. Flat(M[m]) \in Seq(Byte)
  BY <1>1, FlatAt
<1> QED BY <1>1, <1>2

\* Writing behind what is left of t.
LEMMA LeftGrows ==
  ASSUME NEW C, NEW t \in Seq(C), NEW s \in Seq(C), NEW k \in 0..Len(t)
  PROVE  SubSeq(t, k + 1, Len(t)) \o s = SubSeq(t \o s, k + 1, Len(t) + Len(s))
<1> DEFINE l == Len(t)
           n == Len(s)
           v == SubSeq(t, k + 1, l)
           ts == t \o s
           a == v \o s
           b == SubSeq(ts, k + 1, l + n)
           z == l - k
           y == z + n
<1>1. l \in Nat /\ n \in Nat /\ k \in Nat /\ z \in Nat /\ y \in Nat /\ k <= l
  OBVIOUS
<1>2. v \in Seq(C) /\ Len(v) = z /\ \A i \in Nat : i >= 1 /\ i <= z => v[i] = t[k + i]
  BY <1>1, CutOut
<1>3. ts \in Seq(C) /\ Len(ts) = l + n
  OBVIOUS
<1> HIDE DEF ts
<1>4. b \in Seq(C) /\ Len(b) = y /\ \A i \in Nat : i >= 1 /\ i <= y => b[i] = ts[k + i]
  <2>1. l + n \in Nat /\ k <= l + n /\ l + n <= Len(ts) /\ (l + n) - k = y
    BY <1>1, <1>3
  <2> HIDE DEF l, n, z, y
  <2> QED BY <1>1, <1>3, <2>1, CutOut
<1> HIDE DEF v, b
<1>5. a \in Seq(C) /\ Len(a) = y
  <2>1. a \in Seq(C) /\ Len(a) = Len(v) + n
    BY <1>2, SMTT(30)
  <2> QED BY <1>2, <2>1
<1>6. ASSUME NEW i \in 1..y PROVE a[i] = b[i]
  <2>1. i \in Nat /\ i >= 1 /\ i <= y /\ k + i \in Nat
    BY <1>1
  <2>2. b[i] = ts[k + i]
    BY <1>4, <2>1
  <2>3. CASE i <= z
    <3>1. a[i] = v[i]
      BY <1>2, <2>1, <2>3, ConcatAt
    <3>2. v[i] = t[k + i]
      BY <1>2, <2>1, <2>3
    <3>3. k + i >= 1 /\ k + i <= l
      BY <1>1, <2>1, <2>3
    <3>4. ts[k + i] = t[k + i]
      BY <2>1, <3>3, ConcatAt DEF ts
    <3> QED BY <2>2, <3>1, <3>2, <3>4
  <2>4. CASE ~(i <= z)
    <3> DEFINE j == i - z
    <3>1. j \in Nat /\ j >= 1 /\ j <= n /\ z + j = i /\ l + j = k + i
      BY <1>1, <2>1, <2>4
    <3>2. \A x \in Nat : x >= 1 /\ x <= n => a[z + x] = s[x]
      BY <1>2, ConcatAt
    <3>3. \A x \in Nat : x >= 1 /\ x <= n => ts[l + x] = s[x]
      BY ConcatAt DEF ts
    <3> HIDE DEF j, a, z, l, n
    <3>4. a[z + j] = s[j] /\ ts[l + j] = s[j]
      BY <3>1, <3>2, <3>3
    <3> QED BY <2>2, <3>1, <3>4
  <2> QED BY <2>3, <2>4
<1> HIDE DEF a, y
<1>7. a = b
  BY <1>4, <1>5, <1>6, SeqEqual
<1> QED BY <1>7 DEF a, b, v, ts

\* Dropping twice.
LEMMA LeftLess ==
  ASSUME NEW C, NEW t \in Seq(C), NEW k \in Nat, NEW n \in Nat, k + n <= Len(t)
  PROVE  SubSeq(SubSeq(t, k + 1, Len(t)), n + 1, Len(t) - k) = SubSeq(t, k + n + 1, Len(t))
<1> DEFINE l == Len(t)
           v == SubSeq(t, k + 1, l)
           z == l - k
           a == SubSeq(v, n + 1, z)
           b == SubSeq(t, (k + n) + 1, l)
           y == z - n
<1>1. l \in Nat /\ z \in Nat /\ y \in Nat /\ k <= l /\ n <= z /\ k + n \in Nat /\ l - (k + n) = y
      /\ k + n <= l
  OBVIOUS
<1>2. v \in Seq(C) /\ Len(v) = z /\ \A i \in Nat : i >= 1 /\ i <= z => v[i] = t[k + i]
  <2>1. t \in Seq(C) /\ k \in Nat /\ l \in Nat /\ k <= l /\ l <= Len(t)
    BY <1>1
  <2> HIDE DEF l
  <2> QED BY <2>1, CutOut
<1> HIDE DEF v
<1>3. a \in Seq(C) /\ Len(a) = y /\ \A i \in Nat : i >= 1 /\ i <= y => a[i] = v[n + i]
  <2>1. v \in Seq(C) /\ n \in Nat /\ z \in Nat /\ n <= z /\ z <= Len(v)
    BY <1>1, <1>2
  <2> HIDE DEF z
  <2> QED BY <2>1, CutOut
<1>4. b \in Seq(C) /\ Len(b) = y /\ \A i \in Nat : i >= 1 /\ i <= y => b[i] = t[(k + n) + i]
  <2> DEFINE g == k + n
  <2>1. t \in Seq(C) /\ g \in Nat /\ l \in Nat /\ g <= l /\ l <= Len(t) /\ l - g = y
    BY <1>1
  <2>2. b = SubSeq(t, g + 1, l)
    OBVIOUS
  <2> HIDE DEF g, l, y
  <2>3. b \in Seq(C) /\ Len(b) = y /\ \A i \in Nat : i >= 1 /\ i <= y => b[i] = t[g + i]
    <3>1. /\ SubSeq(t, g + 1, l) \in Seq(C) /\ Len(SubSeq(t, g + 1, l)) = l - g
          /\ \A i \in Nat : i >= 1 /\ i <= l - g => SubSeq(t, g + 1, l)[i] = t[g + i]
      BY <2>1, CutOut
    <3> QED BY <2>1, <2>2, <3>1
  <2> QED BY <2>3 DEF g
<1>5. ASSUME NEW i \in 1..y PROVE a[i] = b[i]
  <2>1. i \in Nat /\ i >= 1 /\ i <= y /\ n + i \in Nat /\ n + i >= 1 /\ n + i <= z
        /\ k + (n + i) = (k + n) + i
    BY <1>1
  <2>2. a[i] = v[n + i] /\ b[i] = t[(k + n) + i]
    BY <1>3, <1>4, <2>1
  <2>3. v[n + i] = t[k + (n + i)]
    BY <1>2, <2>1
  <2> QED BY <2>1, <2>2, <2>3
<1> HIDE DEF a, b, y
<1>6. a = b
  BY <1>3, <1>4, <1>5, SeqEqual
<1>7. b = SubSeq(t, k + n + 1, l)
  BY DEF b
<1> QED BY <1>6, <1>7 DEF a, v

\* A beginning of X grows by what comes next in X.
LEMMA FrontGrows ==
  ASSUME NEW C, NEW X \in Seq(C), NEW t, t = SubSeq(X, 1, Len(t)), Len(t) \in Nat, NEW s \in Seq(C),
         Len(t) + Len(s) <= Len(X), \A j \in 1..Len(s) : s[j] = X[Len(t) + j]
  PROVE  t \o s = SubSeq(X, 1, Len(t) + Len(s))
<1> DEFINE l == Len(t)
           n == Len(s)
           y == l + n
           a == t \o s
           b == SubSeq(X, 1, y)
<1>1. l \in Nat /\ n \in Nat /\ y \in Nat /\ y \in 0..Len(X) /\ l \in 0..Len(X)
  OBVIOUS
<1>2. t \in Seq(C) /\ \A i \in 1..l : t[i] = X[i]
  <2> HIDE DEF l
  <2>1. SubSeq(X, 1, l) \in Seq(C) /\ \A i \in 1..l : SubSeq(X, 1, l)[i] = X[i]
    BY <1>1, FrontOut
  <2> QED BY <2>1 DEF l
<1>3. b \in Seq(C) /\ Len(b) = y /\ \A i \in 1..y : b[i] = X[i]
  <2> HIDE DEF y
  <2> QED BY <1>1, FrontOut
<1>4. a \in Seq(C) /\ Len(a) = y
  BY <1>2
<1>5. ASSUME NEW i \in 1..y PROVE a[i] = b[i]
  <2>1. CASE i <= l
    <3>1. i \in Nat /\ i >= 1 /\ i \in 1..l
      BY <1>1, <2>1
    <3>2. a[i] = t[i]
      BY <1>2, <2>1, <3>1, ConcatAt
    <3> QED BY <1>2, <1>3, <3>1, <3>2
  <2>2. CASE ~(i <= l)
    <3> DEFINE j == i - l
    <3>1. j \in Nat /\ j >= 1 /\ j <= n /\ j \in 1..n /\ l + j = i
      BY <1>1, <2>2
    <3>2. \A x \in Nat : x >= 1 /\ x <= n => a[l + x] = s[x]
      BY <1>2, ConcatAt
    <3>3. s[j] = X[l + j]
      BY <3>1
    <3> HIDE DEF a, b, l, j, n, y
    <3>4. a[l + j] = s[j]
      BY <3>1, <3>2
    <3> QED BY <1>3, <3>1, <3>3, <3>4
  <2> QED BY <2>1, <2>2
<1> HIDE DEF a, b, y
<1>6. a = b
  BY <1>3, <1>4, <1>5, SeqEqual
<1> QED BY <1>6 DEF a, b, y

-----------------------------------------------------------------------------
(* dynabuf_readstream hands out what comes next.                           *)

\* Nothing is in nothing.
LEMMA NoneIsEmpty ==
  ASSUME NEW C, NEW s \in Seq(C), Len(s) = 0
  PROVE  s = <<>>
OBVIOUS

\* An empty streambuf is in shape.
LEMMA EmptyShaped ==
  ASSUME NEW C
  PROVE  Shaped(C, EmptyBuf)
<1>1. <<>> \in Seq(Seq(C)) /\ Len(<<>>) = 0
  OBVIOUS
<1>2. /\ EmptyBuf.list = <<>> /\ EmptyBuf.out = 1 /\ EmptyBuf.in_pos = 0 /\ EmptyBuf.out_pos = 0
      /\ EmptyBuf.out_end = 0 /\ EmptyBuf.in_size = 0
  BY DEF EmptyBuf
<1>3. Off(<<>>, 0) = 0
  BY <1>1, OffStep
<1>4. End(EmptyBuf) = 0
  BY <1>2, <1>3 DEF End
<1>5. EmptyBuf \in [list : Seq(Seq(C)), out : Nat, in_pos : Nat, out_pos : Nat, out_end : Nat,
                    in_size : Nat]
  BY <1>1 DEF EmptyBuf
<1>6. AtEnd(EmptyBuf)
  BY <1>1, <1>2 DEF AtEnd
<1> QED BY <1>1, <1>2, <1>4, <1>5, <1>6 DEF Shaped

\* An array, a list of buffers or a streambuf that was never used is sound.
LEMMA UnusedSound ==
  ASSUME NEW b, Unused(b)
  PROVE  /\ Sound(DbCell, b) /\ db_data(b) = <<>>
         /\ b.kind # "streambuf" => Spent(b) = 0
<1>1. Raw \in DbCell
  BY DEF DbCell
<1>2. CASE b.kind = "static" /\ b.cells \in Seq({Raw}) /\ b = NewStatic(Len(b.cells))
  <2>1. b.cells \in Seq(DbCell) /\ Len(b.cells) \in Nat
    BY <1>1, <1>2
  <2>2. b = [kind |-> "static", cells |-> b.cells, in |-> 0, out |-> 0, last |-> 0]
    <3>1. b = [kind |-> "static", cells |-> [i \in 1..Len(b.cells) |-> Raw],
               in |-> 0, out |-> 0, last |-> 0]
      BY <1>2 DEF NewStatic
    <3> DEFINE f == [i \in 1..Len(b.cells) |-> Raw]
    <3>2. b = [kind |-> "static", cells |-> f, in |-> 0, out |-> 0, last |-> 0]
      BY <3>1
    <3> HIDE DEF f
    <3>3. b.cells = f
      BY <3>2
    <3> QED BY <3>2, <3>3
  <2>3. b.in = 0 /\ b.out = 0 /\ b.last = 0
    BY <2>2
  <2>4. b \in [kind : {"static"}, cells : Seq(DbCell), in : Nat, out : Nat, last : Nat]
    <3> DEFINE f == b.cells
    <3>1. b = [kind |-> "static", cells |-> f, in |-> 0, out |-> 0, last |-> 0]
      BY <2>2
    <3>2. f \in Seq(DbCell)
      BY <2>1
    <3> HIDE DEF f
    <3> QED BY <3>1, <3>2
  <2>5. Fixed(DbCell, b)
    BY <2>1, <2>3, <2>4 DEF Fixed
  <2>6. db_data(b) = SubSeq(b.cells, 1, 0)
    BY <1>2, <2>3 DEF db_data
  <2> QED BY <1>2, <2>1, <2>3, <2>5, <2>6 DEF Sound, Spent
<1>3. CASE /\ b.kind = "adapter" /\ b.bs \in Seq(Seq({Raw}))
           /\ b = NewAdapter([i \in 1..Len(b.bs) |-> Len(b.bs[i])])
  <2> DEFINE L == b.bs
             m == Off(L, Len(L))
  <2>1. L \in Seq(Seq(DbCell)) /\ Len(L) \in Nat
    BY <1>1, <1>3
  <2>2. Off(L, 0) = 0 /\ m \in Nat
    BY <2>1, OffStep
  <2>3. /\ b.max_size = m /\ b.begin = 1 /\ b.out = 1 /\ b.end = 1
        /\ b.in_pos = 0 /\ b.in_size = 0 /\ b.out_pos = 0 /\ b.out_end = 0
    BY <1>3 DEF NewAdapter, Off
  <2>4. b = [kind |-> b.kind, bs |-> b.bs, begin |-> b.begin, out |-> b.out, end |-> b.end,
             max_size |-> b.max_size, in_pos |-> b.in_pos, in_size |-> b.in_size,
             out_pos |-> b.out_pos, out_end |-> b.out_end]
    BY <1>3 DEF NewAdapter
  <2>5. b \in AType(DbCell)
    <3> HIDE DEF m
    <3>1. b = [kind |-> "adapter", bs |-> L, begin |-> 1, out |-> 1, end |-> 1,
               max_size |-> m, in_pos |-> 0, in_size |-> 0, out_pos |-> 0, out_end |-> 0]
      BY <1>3, <2>3, <2>4
    <3> HIDE DEF L
    <3> QED BY <2>1, <2>2, <3>1 DEF AType
  <2> HIDE DEF m
  <2>6. Cursor(DbCell, L, 1, 0)
    <3> HIDE DEF L
    <3>1. 1 <= Len(L) => Len(L[1]) \in Nat /\ 0 <= Len(L[1])
      BY <2>1, Parts
    <3> QED BY <2>1, <3>1 DEF Cursor
  <2>7. AStart(b) = 0 /\ AStop(b) = 0
    BY <2>2, <2>3 DEF AStart, AStop, Place
  <2>8. Adapted(DbCell, b)
    <3>1. 1 <= Len(L) + 1
      BY <2>1
    <3> QED BY <2>1, <2>3, <2>5, <2>6, <2>7, <3>1 DEF Adapted
  <2>9. db_data(b) = AView(b)
    BY <1>3, <2>8, ADataIs DEF db_data
  <2>10. AView(b) = <<>>
    BY <2>3, <2>8, AViewIs, NoneIsEmpty
  <2> QED BY <1>3, <2>7, <2>8, <2>9, <2>10 DEF Sound, Spent
<1>4. CASE b.kind = "streambuf" /\ b.alloc \in Nat \ {0} /\ b = NewStreambuf(b.alloc)
  <2>1. b.sb = EmptyBuf /\ b = [kind |-> "streambuf", sb |-> b.sb, alloc |-> b.alloc]
    BY <1>4 DEF NewStreambuf
  <2>2. Shaped(DbCell, EmptyBuf)
    BY EmptyShaped
  <2>3. Streamed(DbCell, b)
    BY <1>4, <2>1, <2>2 DEF Streamed
  <2>4. Sound(DbCell, b) /\ EmptyBuf.in_size = 0
    BY <2>3 DEF Sound, EmptyBuf
  <2>5. db_data(b) = View(EmptyBuf)
    BY <1>4, <2>1, <2>2, DataIs DEF db_data
  <2>6. View(EmptyBuf) = <<>>
    BY <2>2, <2>4, DataIs, NoneIsEmpty
  <2> QED BY <1>4, <2>4, <2>5, <2>6
<1> QED BY <1>2, <1>3, <1>4 DEF Unused
\* A sequence is its first k cells and the rest.
LEMMA Split ==
  ASSUME NEW C, NEW V \in Seq(C), NEW k \in Nat, k <= Len(V)
  PROVE  /\ V = SubSeq(V, 1, k) \o SubSeq(V, k + 1, Len(V))
         /\ SubSeq(V, 1, k) \in Seq(C) /\ Len(SubSeq(V, 1, k)) = k
         /\ SubSeq(V, k + 1, Len(V)) \in Seq(C) /\ Len(SubSeq(V, k + 1, Len(V))) = Len(V) - k
<1> DEFINE l == Len(V)
           a == SubSeq(V, 1, k)
           b == SubSeq(V, k + 1, l)
           c == a \o b
           z == l - k
<1>1. l \in Nat /\ z \in Nat /\ k \in 0..l /\ k + z = l
  OBVIOUS
<1>2. a \in Seq(C) /\ Len(a) = k /\ \A i \in 1..k : a[i] = V[i]
  BY <1>1, FrontOut
<1>3. b \in Seq(C) /\ Len(b) = z /\ \A i \in Nat : i >= 1 /\ i <= z => b[i] = V[k + i]
  <2>1. V \in Seq(C) /\ k \in Nat /\ l \in Nat /\ k <= l /\ l <= Len(V)
    BY <1>1
  <2> HIDE DEF l
  <2> QED BY <2>1, CutOut
<1> HIDE DEF a, b
<1>4. c \in Seq(C) /\ Len(c) = l
  <2>1. a \in Seq(C) /\ b \in Seq(C)
    BY <1>2, <1>3
  <2>2. c \in Seq(C) /\ Len(c) = Len(a) + Len(b)
    BY <2>1
  <2> HIDE DEF c, l, z
  <2> QED BY <1>1, <1>2, <1>3, <2>2
<1>5. ASSUME NEW i \in 1..l PROVE V[i] = c[i]
  <2>1. CASE i <= k
    <3>1. i \in Nat /\ i >= 1 /\ i \in 1..k
      BY <1>1, <2>1
    <3> QED BY <1>2, <1>3, <2>1, <3>1, ConcatAt
  <2>2. CASE ~(i <= k)
    <3> DEFINE j == i - k
    <3>1. j \in Nat /\ j >= 1 /\ j <= z /\ k + j = i
      BY <1>1, <2>2
    <3>2. \A x \in Nat : x >= 1 /\ x <= z => c[k + x] = b[x]
      BY <1>2, <1>3, ConcatAt
    <3> HIDE DEF j, c, z
    <3>3. c[k + j] = b[j] /\ b[j] = V[k + j]
      BY <1>3, <3>1, <3>2
    <3> QED BY <3>1, <3>3
  <2> QED BY <2>1, <2>2
<1> HIDE DEF c
<1>6. V = c
  BY <1>1, <1>4, <1>5, SeqEqual
<1> QED BY <1>2, <1>3, <1>6 DEF a, b, c

\* What ReadSome hands out of S: at least one cell and at most n, the next ones.
Hands(S, p, some, n, p2) ==
  /\ some \in Seq(Cell) /\ Len(some) \in Nat /\ Len(some) >= 1 /\ Len(some) <= n
  /\ p2 = p + Len(some) /\ p2 <= Len(S)
  /\ \A i \in 1..Len(some) : some[i] = S[p + i]

\* Reading left to right or right to left.
Regroups(a, b, c) == (a \o b) \o c = a \o (b \o c)

\* Concatenation does not care.
LEMMA Regroup ==
  ASSUME NEW C, NEW a \in Seq(C), NEW b \in Seq(C), NEW c \in Seq(C)
  PROVE  Regroups(a, b, c)
<1>1. \A A, B, D \in Seq(C) : (A \o B) \o D = A \o (B \o D)
  BY ONLY ConcatAssociative, SMTT(30)
<1> QED BY <1>1 DEF Regroups

\* The cells x come out first; q2 and W2 hold the others.
Gives(q, W, x, n, q2, W2) ==
  /\ x \in Seq(Cell) /\ Len(x) \in Nat /\ Len(x) >= 1 /\ Len(x) <= n
  /\ W2 \in Seq(Cell) /\ Shaped(Cell, q2)
  /\ View(q) \o W = x \o (View(q2) \o W2)

\* V in two, a of k cells and b.
Parted(V, a, b, k) ==
  /\ V = a \o b /\ a \in Seq(Cell) /\ Len(a) = k /\ b \in Seq(Cell)

\* Indeed.
LEMMA Part ==
  ASSUME NEW V \in Seq(Cell), NEW k \in Nat, k <= Len(V), NEW z, z = Len(V),
         NEW a, a = SubSeq(V, 1, k), NEW b, b = SubSeq(V, k + 1, z)
  PROVE  Parted(V, a, b, k)
BY Split DEF Parted

\* What is handed out are the next cells sent, and the others stay in order.
LEMMA FlowsOn ==
  ASSUME NEW S, NEW W, NEW p, NEW q, Flows(S, W, p, q),
         NEW n0, NEW some, NEW W2, NEW q2, Gives(q, W, some, n0, q2, W2)
  PROVE  Flows(S, W2, p + Len(some), q2) /\ Hands(S, p, some, n0, p + Len(some))
<1>0. /\ some \in Seq(Cell) /\ W2 \in Seq(Cell) /\ Shaped(Cell, q2)
      /\ Len(some) \in Nat /\ Len(some) >= 1 /\ Len(some) <= n0
  BY DEF Gives
<1> DEFINE l == Len(S)
           X == SubSeq(S, p + 1, l)
           R == View(q2) \o W2
           n == Len(some)
           z == Len(R)
           g == p + n
           Y == SubSeq(S, g + 1, l)
<1>1. S \in Seq(Cell) /\ l \in Nat /\ p \in Nat /\ p <= l /\ n \in Nat /\ g \in Nat
  BY <1>0 DEF Flows
<1>2. R \in Seq(Cell) /\ z \in Nat
  <2>1. View(q2) \in Seq(Cell)
    BY <1>0, DataIs
  <2> QED BY <1>0, <2>1
<1>3. X \in Seq(Cell) /\ Len(X) = l - p /\ \A i \in Nat : i >= 1 /\ i <= l - p => X[i] = S[p + i]
  <2> HIDE DEF l
  <2>1. l <= Len(S)
    BY <1>1 DEF l
  <2> QED BY <1>1, <2>1, CutOut
<1>4. X = some \o R
  BY DEF Flows, Gives
<1> HIDE DEF X, R
<1>5. n + z = l - p /\ g <= l /\ l - g = z
  <2>1. Len(X) = n + z
    BY <1>0, <1>2, <1>4
  <2> HIDE DEF l, n, z
  <2> QED BY <1>1, <1>2, <1>3, <2>1
<1>6. /\ \A k \in Nat : k >= 1 /\ k <= z => X[n + k] = R[k]
      /\ \A k \in Nat : k >= 1 /\ k <= n => X[k] = some[k]
  BY <1>0, <1>2, <1>4, ConcatAt
<1>7. \A i \in 1..n : some[i] = S[p + i]
  <2> SUFFICES ASSUME NEW i \in 1..n PROVE some[i] = S[p + i]
    OBVIOUS
  <2> HIDE DEF n, l, z
  <2>1. i \in Nat /\ i >= 1 /\ i <= n /\ i <= l - p
    BY <1>1, <1>2, <1>5
  <2> QED BY <1>3, <1>6, <2>1
<1>8. Y \in Seq(Cell) /\ Len(Y) = z /\ \A i \in Nat : i >= 1 /\ i <= z => Y[i] = S[g + i]
  <2> HIDE DEF l, g
  <2>1. l <= Len(S)
    BY <1>1 DEF l
  <2>2. /\ Y \in Seq(Cell) /\ Len(Y) = l - g
        /\ \A i \in Nat : i >= 1 /\ i <= l - g => Y[i] = S[g + i]
    BY <1>1, <1>5, <2>1, CutOut
  <2> QED BY <1>5, <2>2
<1> HIDE DEF Y
<1>9. ASSUME NEW i \in 1..z PROVE R[i] = Y[i]
  <2> HIDE DEF l, n, z
  <2>1. i \in Nat /\ i >= 1 /\ i <= z /\ n + i \in Nat /\ n + i >= 1 /\ n + i <= l - p
        /\ p + (n + i) = g + i
    BY <1>1, <1>2, <1>5
  <2> HIDE DEF g
  <2>2. X[n + i] = R[i] /\ X[n + i] = S[p + (n + i)] /\ Y[i] = S[g + i]
    BY <1>3, <1>6, <1>8, <2>1
  <2> QED BY <2>1, <2>2
<1>10. R = Y
  BY <1>2, <1>8, <1>9, SeqEqual
<1>11. Flows(S, W2, g, q2)
  <2>1. g \in 0..l
    BY <1>1, <1>5
  <2>2. View(q2) \o W2 = SubSeq(S, g + 1, Len(S))
    BY <1>10 DEF R, Y
  <2> HIDE DEF g
  <2> QED BY <1>0, <1>1, <2>1, <2>2 DEF Flows
<1> QED BY <1>0, <1>5, <1>7, <1>11 DEF Hands

\* Written and consumed, as WriteAppends and ConsumeDrops have it.
Filled(q, c, s) == Shaped(Cell, c) /\ View(c) = View(q) \o s /\ c.in_size = q.in_size + Len(s)
\* and took n cells from it.
Emptied(q, c, n) == Shaped(Cell, c) /\ View(c) = SubSeq(View(q), n + 1, q.in_size)

\* prepare, the read and commit do that.
LEMMA FillIt ==
  ASSUME NEW q, Shaped(Cell, q), NEW s \in Seq(Cell), NEW n \in Nat, Len(s) <= n,
         NEW m, m = Len(s), NEW c, c = Commit(Fill(Prepare(q, n, AllocSize), s), m)
  PROVE  Filled(q, c, s)
<1>1. Prepares(Cell, q, n, AllocSize)
  BY PayloadAssumption DEF Prepares, Cell
<1>2. c = Written(q, s, n, AllocSize)
  BY DEF Written
<1>3. \A d : d = Written(q, s, n, AllocSize) => Filled(q, d, s)
  BY <1>1, WriteAppends DEF Filled
<1> QED BY <1>2, <1>3

\* consume does that.
LEMMA EmptyIt ==
  ASSUME NEW q, Shaped(Cell, q), NEW n \in Nat, NEW c, c = Consume(q, n)
  PROVE  Emptied(q, c, n)
BY ConsumeDrops DEF Consumes, Emptied

\* ... from sb_, when it holds something.
FromHeld(q, n, V, k, x, q2) ==
  /\ V = Flat(Data(q)) /\ V # <<>> /\ k = Smaller(n, Len(V))
  /\ x = SubSeq(V, 1, k) /\ q2 = Consume(q, k)

\* and these are the next cells.
LEMMA GivesHeld ==
  ASSUME NEW q, Shaped(Cell, q), NEW W \in Seq(Cell), NEW n \in Nat, n >= 1,
         NEW V, NEW k, NEW x, NEW q2, FromHeld(q, n, V, k, x, q2)
  PROVE  Gives(q, W, x, n, q2, W)
<1>1. V = View(q) /\ V \in Seq(Cell) /\ Len(V) = q.in_size /\ Len(V) \in Nat
  BY DataIs DEF FromHeld
<1>2. Len(V) >= 1
  BY <1>1, NoneIsEmpty DEF FromHeld
<1>3. k \in Nat /\ k >= 1 /\ k <= n /\ k <= Len(V)
  <2> DEFINE l == Len(V)
  <2>1. l \in Nat /\ l >= 1 /\ k = Smaller(n, l)
    BY <1>1, <1>2 DEF FromHeld
  <2> HIDE DEF l
  <2>2. k \in Nat /\ k >= 1 /\ k <= n /\ k <= l
    BY <2>1 DEF Smaller
  <2> QED BY <2>2 DEF l
<1>4. Shaped(Cell, q2) /\ View(q2) = SubSeq(V, k + 1, Len(V))
  <2>1. Emptied(q, q2, k)
    BY <1>3, EmptyIt DEF FromHeld
  <2> QED BY <1>1, <2>1 DEF Emptied
<1>5. Parted(V, x, View(q2), k)
  BY <1>1, <1>3, <1>4, Part DEF FromHeld
<1> DEFINE v == View(q2)
<1>6. V = x \o v /\ x \in Seq(Cell) /\ Len(x) = k /\ v \in Seq(Cell)
  BY <1>5 DEF Parted
<1> HIDE DEF v
<1>7. Regroups(x, v, W)
  BY <1>6, Regroup
<1>8. View(q) \o W = x \o (v \o W)
  BY <1>1, <1>6, <1>7 DEF Regroups
<1> QED BY <1>3, <1>4, <1>6, <1>8 DEF Gives, v

\* ... from the next layer, when it holds nothing and has no capacity.
LEMMA GivesDirect ==
  ASSUME NEW q, Shaped(Cell, q), NEW W \in Seq(Cell), NEW n \in Nat,
         Flat(Data(q)) = <<>>, NEW k \in Nat, k >= 1, k <= n, k <= Len(W),
         NEW x, x = SubSeq(W, 1, k), NEW W2, W2 = SubSeq(W, k + 1, Len(W))
  PROVE  Gives(q, W, x, n, q, W2)
<1>1. Parted(W, x, W2, k)
  BY Part
<1>2. W = x \o W2 /\ x \in Seq(Cell) /\ Len(x) = k /\ W2 \in Seq(Cell)
  BY <1>1 DEF Parted
<1>3. View(q) = <<>>
  BY DataIs
<1>4. <<>> \o W = W /\ <<>> \o W2 = W2
  BY <1>2, ConcatEmptySeq
<1> QED BY <1>2, <1>3, <1>4 DEF Gives

\* ... from the next layer through sb_.
Through(q, W, n, cap, m, got, full, x, q2, W2) ==
  /\ m \in Nat /\ m >= 1 /\ m <= cap /\ m <= Len(W) /\ cap \in Nat
  /\ Flat(Data(q)) = <<>>
  /\ got = SubSeq(W, 1, m)
  /\ full = Commit(Fill(Prepare(q, cap, AllocSize), got), m)
  /\ x = SubSeq(got, 1, Smaller(n, m))
  /\ q2 = Consume(full, Len(x))
  /\ W2 = SubSeq(W, m + 1, Len(W))

\* These are the next cells, too.
LEMMA GivesThrough ==
  ASSUME NEW q, Shaped(Cell, q), NEW W \in Seq(Cell), NEW n \in Nat, n >= 1,
         NEW cap, NEW m, NEW got, NEW full, NEW x, NEW q2, NEW W2,
         Through(q, W, n, cap, m, got, full, x, q2, W2)
  PROVE  Gives(q, W, x, n, q2, W2)
<1> DEFINE l == Smaller(n, m)
<1>0. m \in Nat /\ m >= 1 /\ m <= cap /\ m <= Len(W) /\ cap \in Nat
  BY DEF Through
<1>1. l \in Nat /\ l >= 1 /\ l <= n /\ l <= m
  BY <1>0 DEF Smaller
<1> HIDE DEF l
<1>2. Parted(W, got, W2, m)
  BY <1>0, Part DEF Through
<1>3. W = got \o W2 /\ got \in Seq(Cell) /\ Len(got) = m /\ W2 \in Seq(Cell)
  BY <1>2 DEF Parted
<1>4. Filled(q, full, got)
  <2>1. full = Commit(Fill(Prepare(q, cap, AllocSize), got), m)
    BY DEF Through
  <2> QED BY <1>0, <1>3, <2>1, FillIt
<1>5. View(q) = <<>> /\ q.in_size = 0
  <2>1. View(q) = <<>> /\ q.in_size = Len(View(q))
    BY DataIs DEF Through
  <2> QED BY <2>1
<1>6. Shaped(Cell, full) /\ View(full) = got /\ full.in_size = m
  <2>1. <<>> \o got = got
    BY <1>3, ConcatEmptySeq
  <2> QED BY <1>0, <1>3, <1>4, <1>5, <2>1 DEF Filled
<1> DEFINE r == SubSeq(got, l + 1, m)
<1>7. Parted(got, x, r, l)
  <2>1. x = SubSeq(got, 1, l)
    BY DEF l, Through
  <2> QED BY <1>1, <1>3, <2>1, Part
<1>8. got = x \o r /\ x \in Seq(Cell) /\ Len(x) = l /\ r \in Seq(Cell)
  BY <1>7 DEF Parted
<1>9. Shaped(Cell, q2) /\ View(q2) = r
  <2>1. q2 = Consume(full, l)
    BY <1>8 DEF Through
  <2>2. Emptied(full, q2, l)
    BY <1>1, <1>6, <2>1, EmptyIt
  <2> QED BY <1>6, <2>2 DEF Emptied
<1> HIDE DEF r
<1>10. Regroups(x, r, W2)
  BY <1>3, <1>8, Regroup
<1>11. <<>> \o W = W
  BY ConcatEmptySeq
<1>12. View(q) \o W = x \o (View(q2) \o W2)
  BY <1>3, <1>5, <1>8, <1>9, <1>10, <1>11 DEF Regroups
<1> QED BY <1>1, <1>3, <1>8, <1>9, <1>12 DEF Gives

\* However much the network has, however much is asked for and whatever sb_ holds,
\* read_some hands out the next cells that were sent, and keeps the rest in order
\* (dynabuf_readstream::read_some).
THEOREM TakeHands ==
  ASSUME Flows(sent, wire, pos, sb), NEW n \in Nat, n >= 1, NEW x, ReadSome(n, x),
         case.cap \in Nat
  PROVE  Flows(sent, wire', pos', sb') /\ Hands(sent, pos, x, n, pos')
<1>1. wire \in Seq(Cell) /\ Shaped(Cell, sb) /\ Len(wire) \in Nat
  BY DEF Flows
<1>2. SUFFICES Gives(sb, wire, x, n, sb', wire')
  <2>1. pos' = pos + Len(x)
    BY DEF ReadSome
  <2> QED BY <1>2, <2>1, FlowsOn
<1> DEFINE held == Flat(Data(sb))
           h == Len(held)
           w == Len(wire)
           k == Smaller(n, h)
           cap == case.cap
<1>3. CASE /\ held # <<>>
           /\ x = SubSeq(held, 1, k)
           /\ sb' = Consume(sb, k)
           /\ wire' = wire
  <2>1. FromHeld(sb, n, held, k, x, sb')
    BY <1>3 DEF FromHeld
  <2> HIDE DEF held, k
  <2>2. Gives(sb, wire, x, n, sb', wire)
    BY <1>1, <2>1, GivesHeld
  <2> QED BY <1>3, <2>2
<1>4. CASE /\ held = <<>> /\ cap = 0
           /\ x # <<>> /\ Len(x) <= Smaller(n, w)
           /\ x = SubSeq(wire, 1, Len(x))
           /\ wire' = SubSeq(wire, Len(x) + 1, w)
           /\ sb' = sb
  <2>1. PICK y : y \in 1..Smaller(n, w) /\ x = SubSeq(wire, 1, y)
    BY <1>4 DEF ReadSome, Offers
  <2>2. y \in Nat /\ y >= 1 /\ y <= w /\ y <= n
    <3>1. w \in Nat
      BY <1>1
    <3> HIDE DEF w
    <3> QED BY <2>1, <3>1 DEF Smaller
  <2>3. Len(x) = y
    BY <1>1, <2>1, <2>2, Split
  <2>4. Gives(sb, wire, x, n, sb, wire')
    BY <1>1, <1>4, <2>1, <2>2, <2>3, GivesDirect
  <2> QED BY <1>4, <2>4
<1>5. CASE /\ held = <<>> /\ cap > 0
           /\ \E m \in 1..Smaller(cap, w) :
              LET got  == SubSeq(wire, 1, m)
                  full == Commit(Fill(Prepare(sb, cap, AllocSize), got), m)
              IN  /\ x = SubSeq(got, 1, Smaller(n, m))
                  /\ sb' = Consume(full, Len(x))
                  /\ wire' = SubSeq(wire, m + 1, w)
  <2>1. PICK m \in 1..Smaller(cap, w) :
              LET got  == SubSeq(wire, 1, m)
                  full == Commit(Fill(Prepare(sb, cap, AllocSize), got), m)
              IN  /\ x = SubSeq(got, 1, Smaller(n, m))
                  /\ sb' = Consume(full, Len(x))
                  /\ wire' = SubSeq(wire, m + 1, w)
    BY <1>5
  <2>2. m \in Nat /\ m >= 1 /\ m <= cap /\ m <= w
    <3>1. cap \in Nat /\ w \in Nat
      BY <1>1
    <3> HIDE DEF w, cap
    <3> QED BY <2>1, <3>1 DEF Smaller
  <2> DEFINE got == SubSeq(wire, 1, m)
             full == Commit(Fill(Prepare(sb, cap, AllocSize), got), m)
  <2>3. /\ x = SubSeq(got, 1, Smaller(n, m)) /\ sb' = Consume(full, Len(x))
        /\ wire' = SubSeq(wire, m + 1, w)
    BY <2>1
  <2>4. held = <<>>
    BY <1>5
  <2>5. Through(sb, wire, n, cap, m, got, full, x, sb', wire')
    BY <2>2, <2>3, <2>4 DEF Through
  <2> HIDE DEF got, full, cap
  <2> QED BY <1>1, <2>5, GivesThrough
<1>6. Take(x, n)
  BY DEF ReadSome
<1> QED BY <1>3, <1>4, <1>5, <1>6 DEF Take

-----------------------------------------------------------------------------
(* The client sends a frame.                                               *)

\* Sending puts cells behind the others.
LEMMA FlowsSend ==
  ASSUME NEW S, NEW W, NEW p, NEW q, Flows(S, W, p, q), NEW Z \in Seq(Cell)
  PROVE  Flows(S \o Z, W \o Z, p, q)
<1> DEFINE l == Len(S)
           z == Len(Z)
           v == View(q)
           SZ == S \o Z
           WZ == W \o Z
<1>1. S \in Seq(Cell) /\ W \in Seq(Cell) /\ p \in 0..l /\ Shaped(Cell, q) /\ l \in Nat /\ z \in Nat
      /\ v \o W = SubSeq(S, p + 1, l)
  BY DEF Flows
<1>2. v \in Seq(Cell)
  BY <1>1, DataIs
<1> HIDE DEF v
<1>3. SZ \in Seq(Cell) /\ WZ \in Seq(Cell) /\ Len(SZ) = l + z
  BY <1>1
<1>4. p \in 0..(l + z)
  <2> HIDE DEF l, z
  <2> QED BY <1>1
<1>5. SubSeq(S, p + 1, l) \o Z = SubSeq(SZ, p + 1, l + z)
  BY <1>1, LeftGrows
<1>6. Regroups(v, W, Z)
  BY <1>1, <1>2, Regroup
<1>7. v \o WZ = SubSeq(SZ, p + 1, l + z)
  BY <1>1, <1>5, <1>6 DEF Regroups
<1> HIDE DEF SZ, WZ, l, z
<1>8. Flows(SZ, WZ, p, q)
  BY <1>1, <1>3, <1>4, <1>7 DEF Flows, v
<1> QED BY <1>8 DEF SZ, WZ

-----------------------------------------------------------------------------

\* A payload byte on the network.
ByteCell(no, bytes, i) == [t |-> "byte", b |-> bytes[i], no |-> no, rot |-> (i-1) % 4]

\* The cells of one frame.
Framed(c, no, fin, bytes) ==
  /\ c \in Seq(Cell) /\ Len(c) = Len(bytes) + 2
  /\ c[1] = [t |-> "head", fin |-> fin, len |-> Len(bytes)]
  /\ c[2] = [t |-> "key", no |-> no]
  /\ \A i \in 1..Len(bytes) : c[i + 2] = ByteCell(no, bytes, i)

\* These are the cells the client sends.
LEMMA CellsAre ==
  ASSUME NEW no \in Nat, NEW fin \in BOOLEAN, NEW bytes \in Seq(Byte)
  PROVE  Framed(Cells(no, fin, bytes), no, fin, bytes)
<1> DEFINE n == Len(bytes)
           h == [t |-> "head", fin |-> fin, len |-> n]
           k == [t |-> "key", no |-> no]
           a == <<h, k>>
           b == [i \in 1..n |-> ByteCell(no, bytes, i)]
           c == a \o b
<1>1. n \in Nat
  OBVIOUS
<1>2. h \in Cell /\ k \in Cell
  <2>1. h \in [t : {"head"}, fin : BOOLEAN, len : Nat] /\ k \in [t : {"key"}, no : Nat]
    BY <1>1
  <2> QED BY <2>1 DEF Cell
<1>3. \A i \in 1..n : ByteCell(no, bytes, i) \in Cell
  <2> SUFFICES ASSUME NEW i \in 1..n PROVE ByteCell(no, bytes, i) \in Cell
    OBVIOUS
  <2>1. bytes[i] \in Byte /\ (i - 1) % 4 \in 0..3
    <3>1. i - 1 \in Int
      OBVIOUS
    <3> QED BY <3>1
  <2>2. ByteCell(no, bytes, i) \in [t : {"byte"}, b : Byte, no : Nat, rot : 0..3]
    BY <2>1 DEF ByteCell
  <2> QED BY <2>2 DEF Cell
<1>4. c = Cells(no, fin, bytes)
  BY DEF Cells, ByteCell
<1> HIDE DEF h, k
<1>5. a \in Seq(Cell) /\ Len(a) = 2 /\ a[1] = h /\ a[2] = k
  BY <1>2
<1>6. b \in Seq(Cell) /\ Len(b) = n
  BY <1>1, <1>3
<1>7. \A i \in 1..n : b[i] = ByteCell(no, bytes, i)
  OBVIOUS
<1> HIDE DEF a, b
<1>8. c \in Seq(Cell) /\ Len(c) = n + 2
  <2>0. a \in Seq(Cell) /\ b \in Seq(Cell)
    BY <1>5, <1>6
  <2>1. c \in Seq(Cell) /\ Len(c) = Len(a) + Len(b)
    BY <2>0
  <2> HIDE DEF c
  <2> QED BY <1>1, <1>5, <1>6, <2>1
<1>9. c[1] = h /\ c[2] = k /\ \A i \in Nat : i >= 1 /\ i <= n => c[2 + i] = b[i]
  <2>1. a \in Seq(Cell) /\ b \in Seq(Cell)
    BY <1>5, <1>6
  <2>2. /\ \A i \in Nat : i >= 1 /\ i <= Len(b) => c[Len(a) + i] = b[i]
        /\ \A i \in Nat : i >= 1 /\ i <= Len(a) => c[i] = a[i]
    BY <2>1, ConcatAt
  <2> HIDE DEF c
  <2> QED BY <1>5, <1>6, <2>2
<1> HIDE DEF c
<1>10. \A i \in 1..n : c[i + 2] = ByteCell(no, bytes, i)
  <2> SUFFICES ASSUME NEW i \in 1..n PROVE c[i + 2] = ByteCell(no, bytes, i)
    OBVIOUS
  <2>1. i \in Nat /\ i >= 1 /\ i <= n /\ 2 + i = i + 2
    BY <1>1
  <2> QED BY <1>7, <1>9, <2>1
<1>11. c[1] = [t |-> "head", fin |-> fin, len |-> n] /\ c[2] = [t |-> "key", no |-> no]
  BY <1>9 DEF h, k
<1>12. Framed(c, no, fin, bytes)
  BY <1>8, <1>10, <1>11 DEF Framed
<1> QED BY <1>4, <1>12
\* The places of a frame's cells, and the place behind them.
InFrame(a, s, fin, n, j) ==
  [a EXCEPT !.r = IF j = 0 THEN "key" ELSE "byte", !.at = s + 1, !.fin = fin, !.len = n, !.i = j]

\* The ledger with the places of one more frame.
Grown(A, s, fin, n) ==
  [p \in 1..(s + n + 3) |->
     IF p <= s + 1 THEN A[p]
     ELSE IF p <= s + n + 2 THEN InFrame(A[s+1], s, fin, n, p - s - 2)
     ELSE After(InFrame(A[s+1], s, fin, n, 0))]

\* What it says of the cells before, in and behind the frame.
Grows(A, s, fin, n, B) ==
  /\ \A p \in 1..(s+1) : B[p] = A[p]
  /\ \A j \in 0..n : B[(s + 2) + j] = InFrame(A[s+1], s, fin, n, j)
  /\ B[(s + n) + 3] = After(InFrame(A[s+1], s, fin, n, 0))

\* Indeed.
LEMMA GrownIs ==
  ASSUME NEW A, NEW s \in Nat, NEW fin, NEW n \in Nat, NEW B, B = Grown(A, s, fin, n)
  PROVE  Grows(A, s, fin, n, B)
<1>1. ASSUME NEW p \in 1..(s+1) PROVE B[p] = A[p]
  BY DEF Grown
<1>2. ASSUME NEW j \in 0..n PROVE B[(s + 2) + j] = InFrame(A[s+1], s, fin, n, j)
  <2> DEFINE p == (s + 2) + j
  <2>1. p \in 1..(s + n + 3) /\ ~(p <= s + 1) /\ p <= s + n + 2 /\ p - s - 2 = j
    OBVIOUS
  <2> HIDE DEF p
  <2>2. B[p] = InFrame(A[s+1], s, fin, n, p - s - 2)
    BY <2>1 DEF Grown
  <2> QED BY <2>1, <2>2 DEF p
<1>3. B[(s + n) + 3] = After(InFrame(A[s+1], s, fin, n, 0))
  <2> DEFINE p == (s + n) + 3
  <2>1. p \in 1..(s + n + 3) /\ ~(p <= s + 1) /\ ~(p <= s + n + 2)
    OBVIOUS
  <2> HIDE DEF p
  <2>2. B[p] = After(InFrame(A[s+1], s, fin, n, 0))
    BY <2>1 DEF Grown
  <2> QED BY <2>2 DEF p
<1> QED BY <1>1, <1>2, <1>3 DEF Grows

\* The cells of the frame behind those of S.
Longer(S, s, fin, bytes, n, Z) ==
  /\ Z \in Seq(Cell) /\ Len(Z) = (s + n) + 2
  /\ \A p \in 1..s : Z[p] = S[p]
  /\ Z[s+1] = [t |-> "head", fin |-> fin, len |-> n]
  /\ Z[(s + 2) + 0] = [t |-> "key", no |-> s]
  /\ \A i \in 1..n : Z[(s + 2) + i] = ByteCell(s, bytes, i)

\* Indeed.
LEMMA LongerIs ==
  ASSUME NEW S \in Seq(Cell), NEW s, s = Len(S), NEW fin \in BOOLEAN, NEW bytes \in Seq(Byte),
         NEW n, n = Len(bytes), NEW Z, Z = S \o Cells(s, fin, bytes)
  PROVE  Longer(S, s, fin, bytes, n, Z)
<1>1. s \in Nat /\ n \in Nat
  OBVIOUS
<1> DEFINE c == Cells(s, fin, bytes)
<1>2. Framed(c, s, fin, bytes)
  BY <1>1, CellsAre
<1> HIDE DEF c
<1>3. c \in Seq(Cell) /\ Len(c) = n + 2
  BY <1>2 DEF Framed
<1>4. Z = S \o c
  BY DEF c
<1>5. Z \in Seq(Cell) /\ Len(Z) = s + (n + 2)
  <2>1. c \in Seq(Cell)
    BY <1>3
  <2>2. S \o c \in Seq(Cell) /\ Len(S \o c) = Len(S) + Len(c)
    BY ONLY <2>1, S \in Seq(Cell)
  <2> QED BY <1>3, <1>4, <2>2
<1>6. /\ \A i \in Nat : i >= 1 /\ i <= n + 2 => Z[s + i] = c[i]
      /\ \A i \in Nat : i >= 1 /\ i <= s => Z[i] = S[i]
  BY <1>3, <1>4, ConcatAt
<1>7. /\ Len(Z) = (s + n) + 2 /\ (s + 2) + 0 = s + 2
      /\ \A i \in 1..n : (s + 2) + i = s + (i + 2) /\ i + 2 \in Nat /\ i + 2 >= 1 /\ i + 2 <= n + 2
  <2>1. Len(Z) = s + (n + 2)
    BY <1>5
  <2> QED BY <1>1, <2>1
<1>8. ASSUME NEW p \in 1..s PROVE Z[p] = S[p]
  BY <1>1, <1>6
<1>9. Z[s+1] = c[1] /\ Z[s+2] = c[2]
  <2>1. 1 \in Nat /\ 1 >= 1 /\ 1 <= n + 2 /\ 2 \in Nat /\ 2 >= 1 /\ 2 <= n + 2
    BY <1>1
  <2> QED BY <1>6, <2>1
<1>10. ASSUME NEW i \in 1..n PROVE Z[(s + 2) + i] = ByteCell(s, bytes, i)
  <2>1. c[i + 2] = ByteCell(s, bytes, i)
    BY <1>2 DEF Framed
  <2> DEFINE x == i + 2
  <2>2. (s + 2) + i = s + x /\ x \in Nat /\ x >= 1 /\ x <= n + 2
    BY <1>7
  <2> HIDE DEF x
  <2>3. Z[s + x] = c[x]
    BY <1>6, <2>2
  <2> QED BY <2>1, <2>2, <2>3 DEF x
<1>11. c[1] = [t |-> "head", fin |-> fin, len |-> n] /\ c[2] = [t |-> "key", no |-> s]
  BY <1>2 DEF Framed
<1> QED BY <1>5, <1>7, <1>8, <1>9, <1>10, <1>11 DEF Longer

\* The key's place follows the head's.
LEMMA KeyPlace ==
  ASSUME NEW a \in PlaceType, a.i = 0, NEW s \in Nat, NEW p, p = s + 1, NEW fin \in BOOLEAN,
         NEW n \in Nat
  PROVE  KeyAt(a, p, fin, n) = InFrame(a, s, fin, n, 0)
<1> SUFFICES ASSUME NEW k, k = KeyAt(a, p, fin, n), NEW f, f = InFrame(a, s, fin, n, 0)
             PROVE  k = f
  OBVIOUS
<1>1. a = [r |-> a.r, m |-> a.m, o |-> a.o, at |-> a.at, fin |-> a.fin, len |-> a.len, i |-> a.i]
      /\ a.m \in Nat /\ a.o \in Nat
  BY DEF PlaceType
<1>2. k = [r |-> "key", m |-> a.m, o |-> a.o, at |-> p, fin |-> fin, len |-> n, i |-> a.i]
  BY <1>1 DEF KeyAt
<1>3. f = [r |-> "key", m |-> a.m, o |-> a.o, at |-> s + 1, fin |-> fin, len |-> n, i |-> 0]
  BY <1>1 DEF InFrame
<1> QED BY <1>2, <1>3

\* A place in a frame is a place.
FrameOK(M, a, s, fin, n, j, f) ==
  /\ Sane(M, f) /\ f.r = (IF j = 0 THEN "key" ELSE "byte") /\ f.i = j /\ f.len = n
  /\ f.fin = fin /\ f.at = s + 1 /\ f.m = a.m /\ f.o = a.o

\* It is.
LEMMA FrameSane ==
  ASSUME NEW M, NEW a \in PlaceType, NEW s \in Nat, NEW fin \in BOOLEAN, NEW n \in Nat,
         NEW j \in 0..n, Whole(M, a.m, a.o, n, fin), NEW f, f = InFrame(a, s, fin, n, j)
  PROVE  FrameOK(M, a, s, fin, n, j, f)
<1>1. a = [r |-> a.r, m |-> a.m, o |-> a.o, at |-> a.at, fin |-> a.fin, len |-> a.len, i |-> a.i]
      /\ a.m \in Nat /\ a.o \in Nat
  BY DEF PlaceType
<1>2. f = [r |-> IF j = 0 THEN "key" ELSE "byte", m |-> a.m, o |-> a.o, at |-> s + 1,
           fin |-> fin, len |-> n, i |-> j]
  BY <1>1 DEF InFrame
<1>3. /\ f.r = (IF j = 0 THEN "key" ELSE "byte") /\ f.i = j /\ f.len = n
      /\ f.fin = fin /\ f.at = s + 1 /\ f.m = a.m /\ f.o = a.o
  BY <1>2
<1>4. s + 1 \in Nat /\ s + 1 >= 1 /\ j \in Nat /\ j <= n /\ (j # 0 => j >= 1)
  OBVIOUS
<1>5. f \in PlaceType
  <2> DEFINE x == s + 1
  <2>1. x \in Nat
    BY <1>4
  <2>2. f = [r |-> IF j = 0 THEN "key" ELSE "byte", m |-> a.m, o |-> a.o, at |-> x,
             fin |-> fin, len |-> n, i |-> j]
    BY <1>2
  <2> HIDE DEF x
  <2> QED BY <1>1, <1>4, <2>1, <2>2 DEF PlaceType
<1>6. Sane(M, f)
  BY <1>3, <1>4, <1>5 DEF Sane
<1> QED BY <1>3, <1>6 DEF FrameOK

\* So is a head.
LEMMA HeadSane ==
  ASSUME NEW M, NEW m \in Nat, NEW o \in Nat
  PROVE  Sane(M, HeadAt(m, o)) /\ HeadAt(m, o).r = "head"
<1>1. HeadAt(m, o) \in PlaceType /\ HeadAt(m, o).r = "head" /\ HeadAt(m, o).i = 0
  BY DEF HeadAt, PlaceType
<1> QED BY <1>1 DEF Sane

\* A ledger of S goes on with the frame sent behind it.
Sends(M, S, A, fin, bytes, a) ==
  /\ Ledger(M, S, A) /\ S \in Seq(Cell) /\ fin \in BOOLEAN /\ bytes \in Seq(Byte)
  /\ a = A[Len(S)+1] /\ a.r = "head"
  /\ Whole(M, a.m, a.o, Len(bytes), fin)
  /\ \A i \in 1..Len(bytes) : bytes[i] = Flat(M[a.m])[a.o + i]

\* B is a ledger of Z, goes on where A ends, and ends behind the frame.
LedgerOn(M, S, A, fin, n, a, Z, B) ==
  /\ Ledger(M, Z, B)
  /\ \A p \in 1..(Len(S) + 1) : B[p] = A[p]
  /\ B[Len(Z) + 1] = IF fin THEN HeadAt(a.m + 1, 0) ELSE HeadAt(a.m, a.o + n)

\* The ledger grows with what the client sends.
LEMMA LedgerGrows ==
  ASSUME NEW M, NEW S, NEW A, NEW fin, NEW bytes, NEW a, Sends(M, S, A, fin, bytes, a),
         NEW s, s = Len(S), NEW n, n = Len(bytes),
         NEW Z, Z = S \o Cells(s, fin, bytes), NEW B, B = Grown(A, s, fin, n)
  PROVE  LedgerOn(M, S, A, fin, n, a, Z, B)
<1>1. /\ S \in Seq(Cell) /\ fin \in BOOLEAN /\ bytes \in Seq(Byte)
      /\ a = A[s+1] /\ a.r = "head" /\ Whole(M, a.m, a.o, n, fin)
  BY DEF Sends
<1>2. s \in Nat /\ n \in Nat
  BY <1>1
<1>3. Longer(S, s, fin, bytes, n, Z)
  BY <1>1, LongerIs
<1>4. Grows(A, s, fin, n, B)
  BY <1>2, GrownIs
<1>5. /\ \A p \in 1..(s+1) : Sane(M, A[p])
      /\ A[1] = HeadAt(1, 0)
      /\ \A p \in 1..s : Matches(M, A[p], S[p]) /\ A[p+1] = Follow(A[p], S[p], p)
  BY DEF Sends, Ledger
<1>6. a \in PlaceType /\ a.i = 0 /\ a.m \in Nat /\ a.o \in Nat
  <2>1. s + 1 \in 1..(s+1)
    BY <1>2
  <2>2. a \in PlaceType /\ a.i = 0
    BY <1>1, <1>5, <2>1 DEF Sane
  <2> QED BY <2>2 DEF PlaceType
<1>7. ASSUME NEW j \in 0..n
      PROVE  LET f == B[(s + 2) + j]
             IN  /\ f = InFrame(a, s, fin, n, j)
                 /\ Sane(M, f) /\ f.r = (IF j = 0 THEN "key" ELSE "byte") /\ f.i = j /\ f.len = n
                 /\ f.fin = fin /\ f.at = s + 1 /\ f.m = a.m /\ f.o = a.o
  <2>1. B[(s + 2) + j] = InFrame(a, s, fin, n, j)
    BY <1>1, <1>4 DEF Grows
  <2> DEFINE f == B[(s + 2) + j]
  <2>2. f = InFrame(a, s, fin, n, j)
    BY <2>1
  <2> HIDE DEF f
  <2>3. FrameOK(M, a, s, fin, n, j, f)
    BY <1>1, <1>2, <1>6, <2>2, FrameSane
  <2> QED BY <2>2, <2>3 DEF FrameOK, f
<1> DEFINE e == IF fin THEN HeadAt(a.m + 1, 0) ELSE HeadAt(a.m, a.o + n)
<1>8. B[(s + n) + 3] = e /\ Sane(M, e)
  <2> DEFINE k == InFrame(a, s, fin, n, 0)
  <2>1. 0 \in 0..n
    BY <1>2
  <2>2. k.fin = fin /\ k.len = n /\ k.m = a.m /\ k.o = a.o
    BY <1>7, <2>1
  <2>3. B[(s + n) + 3] = After(k)
    BY <1>1, <1>4 DEF Grows
  <2> HIDE DEF k
  <2>4. B[(s + n) + 3] = e
    BY <2>2, <2>3 DEF After
  <2>5. a.m + 1 \in Nat /\ a.o + n \in Nat
    BY <1>2, <1>6
  <2>6. Sane(M, e)
    BY <1>6, <2>5, HeadSane
  <2> QED BY <2>4, <2>6
<1> HIDE DEF e
<1>9. \A p \in 1..(s+1) : B[p] = A[p]
  BY <1>4 DEF Grows
<1> DEFINE z == Len(Z)
<1>10. z = (s + n) + 2 /\ z + 1 = (s + n) + 3
  <2>1. z = (s + n) + 2
    BY <1>3 DEF Longer
  <2> HIDE DEF z
  <2> QED BY <1>2, <2>1
<1> HIDE DEF z
<1>11. ASSUME NEW p \in 1..(z+1) PROVE Sane(M, B[p])
  <2>1. CASE p <= s + 1
    <3>1. p \in 1..(s+1)
      BY <2>1, <1>2
    <3> QED BY <1>5, <1>9, <3>1
  <2>2. CASE s + 2 <= p /\ p <= (s + n) + 2
    <3> DEFINE j == p - (s + 2)
    <3>1. j \in 0..n /\ (s + 2) + j = p
      BY <2>2, <1>2, <1>10
    <3> HIDE DEF j
    <3> QED BY <1>7, <3>1
  <2>3. CASE p = (s + n) + 3
    BY <1>8, <2>3
  <2> QED BY <1>2, <1>10, <2>1, <2>2, <2>3
<1>12. B[1] = HeadAt(1, 0)
  <2>1. 1 \in 1..(s+1)
    BY <1>2
  <2> QED BY <1>5, <1>9, <2>1
<1>13. ASSUME NEW p \in 1..z PROVE Matches(M, B[p], Z[p]) /\ B[p+1] = Follow(B[p], Z[p], p)
  <2>1. CASE p <= s
    <3>1. p \in 1..s /\ p \in 1..(s+1) /\ p + 1 \in 1..(s+1)
      BY <2>1, <1>2
    <3>2. Z[p] = S[p]
      BY <1>3, <3>1 DEF Longer
    <3> QED BY <1>5, <1>9, <3>1, <3>2
  <2>2. CASE p = s + 1
    <3>1. B[p] = a /\ B[p+1] = InFrame(a, s, fin, n, 0)
      <4>1. s + 1 \in 1..(s+1) /\ p + 1 = (s + 2) + 0 /\ 0 \in 0..n
        BY <1>2, <2>2
      <4> QED BY <1>1, <1>7, <1>9, <2>2, <4>1
    <3> DEFINE c == Z[p]
    <3>2. c = [t |-> "head", fin |-> fin, len |-> n]
      BY <1>3, <2>2 DEF Longer
    <3>3. c.t = "head" /\ c.fin = fin /\ c.len = n
      BY <3>2
    <3> HIDE DEF c
    <3>4. Matches(M, a, c)
      BY <1>1, <1>2, <3>3 DEF Matches
    <3>5. Follow(a, c, p) = KeyAt(a, p, fin, n)
      BY <1>1, <3>3 DEF Follow
    <3>6. KeyAt(a, p, fin, n) = InFrame(a, s, fin, n, 0)
      BY <1>1, <1>2, <1>6, <2>2, KeyPlace
    <3> QED BY <3>1, <3>4, <3>5, <3>6 DEF c
  <2>3. CASE s + 2 <= p
    <3> DEFINE j == p - (s + 2)
               f == B[p]
               c == Z[p]
               g == B[p+1]
    <3>1. j \in 0..n /\ (s + 2) + j = p
      BY <2>3, <1>2, <1>10
    <3>2. j # n => j + 1 \in 0..n /\ (s + 2) + (j + 1) = p + 1 /\ j + 1 # 0
      BY <2>3, <1>2, <1>10
    <3>3. j = n => p + 1 = (s + n) + 3
      BY <2>3, <1>2, <1>10
    <3> HIDE DEF j
    <3>4. /\ f = InFrame(a, s, fin, n, j)
          /\ f.r = (IF j = 0 THEN "key" ELSE "byte") /\ f.i = j /\ f.len = n
          /\ f.fin = fin /\ f.at = s + 1 /\ f.m = a.m /\ f.o = a.o
      BY <1>7, <3>1
    <3>5. j = 0 => c = [t |-> "key", no |-> s]
      BY <1>3, <3>1 DEF Longer
    <3>6. j # 0 => c = ByteCell(s, bytes, j) /\ bytes[j] = Flat(M[a.m])[a.o + j]
      <4>1. j # 0 => j \in 1..n
        BY <1>2, <3>1
      <4> QED BY <1>3, <3>1, <4>1 DEF Longer, Sends
    <3>7. f.at - 1 = s
      BY <1>2, <3>4
    <3> HIDE DEF f, c
    <3>8. Matches(M, f, c)
      <4>1. CASE j = 0
        BY <3>4, <3>5, <3>7, <4>1 DEF Matches
      <4>2. CASE j # 0
        <5>1. c = [t |-> "byte", b |-> Flat(M[f.m])[f.o + f.i], no |-> f.at - 1,
                   rot |-> (f.i - 1) % 4]
          BY <3>4, <3>6, <3>7, <4>2 DEF ByteCell
        <5>2. f.r = "byte"
          BY <3>4, <4>2
        <5> QED BY <5>1, <5>2 DEF Matches
      <4> QED BY <4>1, <4>2
    <3>9. g = Follow(f, c, p)
      <4>1. CASE j = n
        <5>1. g = e
          BY <1>8, <3>3, <4>1
        <5>2. After(f) = e
          BY <3>4 DEF After, e
        <5>3. f.r # "head" /\ ~(f.i < f.len)
          BY <1>2, <3>4, <4>1
        <5> QED BY <5>1, <5>2, <5>3 DEF Follow
      <4>2. CASE j # n
        <5>1. g = InFrame(a, s, fin, n, j + 1)
          BY <1>7, <3>2, <4>2
        <5>2. f.r # "head" /\ f.i < f.len
          BY <1>2, <3>1, <3>4, <4>2
        <5>3. Follow(f, c, p) = [f EXCEPT !.r = "byte", !.i = j + 1]
          BY <3>4, <5>2 DEF Follow
        <5>4. [InFrame(a, s, fin, n, j) EXCEPT !.r = "byte", !.i = j + 1] = InFrame(a, s, fin, n, j + 1)
          <6>1. a = [r |-> a.r, m |-> a.m, o |-> a.o, at |-> a.at, fin |-> a.fin, len |-> a.len,
                     i |-> 0]
            BY <1>6 DEF PlaceType
          <6> QED BY <3>2, <4>2, <6>1 DEF InFrame
        <5> QED BY <3>4, <5>1, <5>3, <5>4
      <4> QED BY <4>1, <4>2
    <3> QED BY <3>8, <3>9 DEF f, c
  <2>4. p <= s \/ p = s + 1 \/ s + 2 <= p
    BY <1>2
  <2> QED BY <2>1, <2>2, <2>3, <2>4
<1>14. Ledger(M, Z, B)
  BY <1>11, <1>12, <1>13 DEF Ledger, z
<1>15. B[Len(Z) + 1] = e
  BY <1>8, <1>10 DEF z
<1> QED BY <1>9, <1>14, <1>15 DEF LedgerOn, e

-----------------------------------------------------------------------------
(* The bytes of a payload, unmasked.                                       *)

\* Turning the key further.
LEMMA Rotate ==
  ASSUME NEW x \in Nat, NEW k \in Nat
  PROVE  ((x % 4) + k) % 4 = (x + k) % 4 /\ x % 4 \in 0..3
OBVIOUS

\* j payload bytes behind place a, in the same frame.
ByteAt(a, f, j) ==
  /\ f.r = "byte" /\ f.m = a.m /\ f.o = a.o /\ f.at = a.at /\ f.fin = a.fin
  /\ f.len = a.len /\ f.i = a.i + j

\* Place a of a ledger is a payload byte's.
SaneByte(M, S, A, p, a) ==
  /\ Ledger(M, S, A) /\ Len(S) \in Nat /\ p \in 1..(Len(S) + 1) /\ a = A[p] /\ a.r = "byte"

\* Its fields.
LEMMA ByteSane ==
  ASSUME NEW M, NEW S, NEW A, NEW p, NEW a, SaneByte(M, S, A, p, a)
  PROVE  /\ a \in PlaceType /\ a.m \in Nat /\ a.o \in Nat /\ a.at \in Nat /\ a.fin \in BOOLEAN
         /\ a.len \in Nat /\ a.i \in Nat /\ 1 <= a.i /\ a.i <= a.len
         /\ a.at >= 1 /\ Whole(M, a.m, a.o, a.len, a.fin)
<1>1. Sane(M, a) /\ a.r = "byte"
  BY DEF SaneByte, Ledger
<1>2. a \in PlaceType
  BY <1>1 DEF Sane
<1>3. a.m \in Nat /\ a.o \in Nat /\ a.at \in Nat /\ a.fin \in BOOLEAN /\ a.len \in Nat /\ a.i \in Nat
  BY <1>2 DEF PlaceType
<1> QED BY <1>1, <1>2, <1>3 DEF Sane

\* The places behind it, up to the frame's end, are its successors.
LEMMA BytesAhead ==
  ASSUME NEW M, NEW S, NEW A, NEW p, NEW a, SaneByte(M, S, A, p, a),
         NEW j \in Nat, j <= a.len - a.i, p + j <= Len(S) + 1
  PROVE  ByteAt(a, A[p + j], j) /\ SaneByte(M, S, A, p + j, A[p + j])
<1> DEFINE s == Len(S)
           Near(k) == (k <= a.len - a.i /\ p + k <= s + 1) => ByteAt(a, A[p + k], k)
           J == {k \in Nat : Near(k)}
<1>1. s \in Nat /\ p \in 1..(s+1) /\ a = A[p] /\ a.r = "byte" /\ Ledger(M, S, A)
  BY DEF SaneByte
<1>2. a.len \in Nat /\ a.i \in Nat /\ a.i <= a.len
  BY ByteSane
<1>3. \A q \in 1..s : A[q+1] = Follow(A[q], S[q], q)
  BY <1>1 DEF Ledger
<1>4. 0 \in J
  <2>1. p + 0 = p /\ a.i + 0 = a.i
    BY <1>1, <1>2
  <2> QED BY <1>1, <2>1 DEF ByteAt
<1>5. ASSUME NEW k \in Nat, k \in J PROVE k + 1 \in J
  <2> SUFFICES ASSUME k + 1 <= a.len - a.i, p + (k + 1) <= s + 1
               PROVE  ByteAt(a, A[p + (k + 1)], k + 1)
    OBVIOUS
  <2> DEFINE q == p + k
             f == A[q]
             g == A[q+1]
  <2>1. q \in 1..s /\ p + (k + 1) = q + 1 /\ k <= a.len - a.i /\ q <= s + 1
        /\ a.i + k < a.len /\ a.i + (k + 1) = a.i + k + 1
    <3> DEFINE i == a.i
               l == a.len
    <3>1. s \in Nat /\ p \in 1..(s+1) /\ i \in Nat /\ l \in Nat /\ k + 1 <= l - i
      BY <1>1, <1>2
    <3>2. p + (k + 1) <= s + 1
      OBVIOUS
    <3> HIDE DEF s, i, l
    <3>3. q \in 1..s /\ p + (k + 1) = q + 1 /\ q <= s + 1
      BY <3>1, <3>2
    <3>4. k <= l - i /\ i + k < l /\ i + (k + 1) = i + k + 1
      BY <3>1
    <3> QED BY <3>3, <3>4 DEF i, l
  <2>2. ByteAt(a, f, k)
    BY <1>5, <2>1
  <2>3. g = Follow(f, S[q], q)
    BY <1>3, <2>1
  <2>4. f.r = "byte" /\ f.i = a.i + k /\ f.len = a.len
    BY <2>2 DEF ByteAt
  <2> HIDE DEF q
  <2>5. Sane(M, f)
    <3>1. q \in 1..(s+1)
      BY <1>1, <2>1
    <3> QED BY <1>1, <3>1 DEF Ledger
  <2>6. f \in PlaceType
    BY <2>5 DEF Sane
  <2> HIDE DEF f, g
  <2>7. g = [f EXCEPT !.r = "byte", !.i = f.i + 1]
    BY <2>1, <2>3, <2>4 DEF Follow
  <2>8. /\ g.r = "byte" /\ g.m = f.m /\ g.o = f.o /\ g.at = f.at /\ g.fin = f.fin /\ g.len = f.len
        /\ g.i = f.i + 1
    BY <2>6, <2>7 DEF PlaceType
  <2>9. ByteAt(a, g, k + 1)
    BY <2>1, <2>2, <2>8 DEF ByteAt
  <2> QED BY <2>1, <2>9 DEF g
<1> HIDE DEF Near
<1>6. J = Nat
  BY <1>4, <1>5, Induct
<1>7. Near(j)
  BY <1>6
<1>8. ByteAt(a, A[p + j], j)
  BY <1>7 DEF Near
<1>9. p + j \in 1..(s+1)
  BY <1>1
<1> QED BY <1>1, <1>8, <1>9 DEF SaneByte, ByteAt
\* read_frame's step through a payload: the cells x that ReadSome gives from
\* place a on, where need are left of the frame, are unmasked with f's key.
Reads(M, S, A, p, a, x, need, p2, f) ==
  /\ SaneByte(M, S, A, p + 1, a) /\ M \in Seq(Seq(Seq(Byte))) /\ p \in Nat
  /\ need = (a.len - a.i) + 1 /\ Hands(S, p, x, need, p2)
  /\ f.no = a.at - 1 /\ f.key = (a.i - 1) % 4

\* They are the next bytes of the message, and the ledger tells what follows.
Unmasked(M, A, a, x, need, p2, bytes) ==
  /\ bytes \in Seq(Byte) /\ Len(bytes) = Len(x)
  /\ (a.o + a.i) + Len(x) <= Len(Flat(M[a.m])) + 1
  /\ \A j \in 1..Len(x) : bytes[j] = Flat(M[a.m])[((a.o + a.i) - 1) + j]
  /\ Len(x) < need => ByteAt(a, A[p2 + 1], Len(x))
  /\ Len(x) = need => /\ A[p2 + 1] = After(a)
                      /\ a.fin => (a.o + a.i) + Len(x) = Len(Flat(M[a.m])) + 1

\* Each cell handed out is the byte of its place, masked as its place says.
LEMMA CellHolds ==
  ASSUME NEW M, NEW S, NEW A, NEW p, NEW a, NEW x, NEW need, NEW p2, NEW f,
         Reads(M, S, A, p, a, x, need, p2, f), NEW j \in 1..Len(x)
  PROVE  x[j] = [t |-> "byte", b |-> Flat(M[a.m])[((a.o + a.i) - 1) + j], no |-> f.no,
                 rot |-> (f.key + (j - 1)) % 4]
<1> DEFINE n == Len(x)
           s == Len(S)
           k == j - 1
           q == (p + 1) + k
           g == A[q]
           i == a.i
           o == a.o
           l == a.len
<1>1. /\ SaneByte(M, S, A, p + 1, a) /\ p \in Nat /\ need = (l - i) + 1
      /\ n \in Nat /\ n <= need /\ p2 = p + n /\ p2 <= s /\ x[j] = S[p + j]
      /\ f.no = a.at - 1 /\ f.key = (i - 1) % 4
  BY DEF Reads, Hands
<1>2. l \in Nat /\ i \in Nat /\ o \in Nat /\ 1 <= i
  BY <1>1, ByteSane
<1>3. s \in Nat
  BY <1>1 DEF SaneByte
<1>4. k \in Nat /\ k <= l - i /\ (p + 1) + k <= s + 1 /\ (p + 1) + k = p + j /\ p + j \in 1..s
  <2>1. j \in 1..n /\ need = (l - i) + 1 /\ n \in Nat /\ n <= need /\ p2 = p + n /\ p2 <= s /\ p \in Nat
    BY <1>1
  <2> HIDE DEF n, s, i, l
  <2>2. j \in Nat /\ j >= 1 /\ j <= n /\ p + n <= s /\ n <= (l - i) + 1 /\ n \in Nat
    BY <2>1
  <2>3. k \in Nat /\ k <= l - i
    BY <1>2, <2>2
  <2>4. (p + 1) + k = p + j /\ p + j \in 1..s /\ (p + 1) + k <= s + 1
    BY <1>3, <2>1, <2>2
  <2> QED BY <2>3, <2>4
<1>5. ByteAt(a, A[(p + 1) + k], k)
  <2> HIDE DEF k
  <2> QED BY <1>1, <1>4, BytesAhead
<1>6. Matches(M, g, S[q])
  <2>1. \A r \in 1..s : Matches(M, A[r], S[r])
    BY <1>1 DEF SaneByte, Ledger
  <2>2. q \in 1..s
    BY <1>4
  <2> HIDE DEF q
  <2> QED BY <2>1, <2>2
<1>7. g.r = "byte" /\ g.m = a.m /\ g.o = o /\ g.at = a.at /\ g.i = i + k
  BY <1>5 DEF ByteAt
<1>8. S[q] = x[j]
  BY <1>1, <1>4
<1> HIDE DEF g, q, k
<1>9. x[j] = [t |-> "byte", b |-> Flat(M[a.m])[o + (i + k)], no |-> a.at - 1,
              rot |-> ((i + k) - 1) % 4]
  BY <1>6, <1>7, <1>8 DEF Matches
<1>10. o + (i + k) = ((o + i) - 1) + j /\ (i + k) - 1 = (i - 1) + k /\ k = j - 1
  <2>1. k = j - 1
    BY DEF k
  <2> HIDE DEF i, o
  <2> QED BY <1>2, <1>4, <2>1
<1>11. ((i - 1) + k) % 4 = (((i - 1) % 4) + k) % 4
  <2>1. i - 1 \in Nat
    <3> HIDE DEF i
    <3> QED BY <1>2
  <2> DEFINE y == i - 1
  <2>2. y \in Nat
    BY <2>1
  <2> HIDE DEF y
  <2>3. (y + k) % 4 = ((y % 4) + k) % 4
    BY <1>4, <2>2, Rotate
  <2> QED BY <2>3 DEF y
<1> QED BY <1>1, <1>9, <1>10, <1>11

\* mask_inplace with the key as the parts of the frame read before have rotated
\* it gives back the bytes of the message, wherever the payload was cut (read_frame,
\* do_read_payload, detail/mask.hpp).
THEOREM UnmaskGives ==
  ASSUME NEW M, NEW S, NEW A, NEW p, NEW a, NEW x, NEW need, NEW p2, NEW f,
         Reads(M, S, A, p, a, x, need, p2, f), NEW bytes, bytes = Unmask(x, f)
  PROVE  Unmasked(M, A, a, x, need, p2, bytes)
<1> DEFINE n == Len(x)
           s == Len(S)
           X == Flat(M[a.m])
           z == Len(X)
           i == a.i
           o == a.o
           l == a.len
           h == (o + i) - 1
<1>1. /\ SaneByte(M, S, A, p + 1, a) /\ p \in Nat /\ need = (l - i) + 1
      /\ n \in Nat /\ n >= 1 /\ n <= need /\ p2 = p + n /\ p2 <= s /\ M \in Seq(Seq(Seq(Byte)))
  BY DEF Reads, Hands
<1>2. l \in Nat /\ i \in Nat /\ o \in Nat /\ 1 <= i /\ i <= l /\ a.fin \in BOOLEAN
      /\ Whole(M, a.m, o, l, a.fin)
  BY <1>1, ByteSane
<1>3. a.m \in 1..Len(M) /\ o + l <= z /\ (a.fin => o + l = z)
  BY <1>2 DEF Whole
<1>4. X \in Seq(Byte) /\ z \in Nat
  BY <1>1, <1>3, MessageIs
<1>5. s \in Nat
  BY <1>1 DEF SaneByte
<1> HIDE DEF X
<1>6. /\ \A j \in 1..n : h + j \in 1..z
      /\ (o + i) + n <= z + 1 /\ (n = need => (o + i) + n = (o + l) + 1)
  <2>1. /\ l \in Nat /\ i \in Nat /\ o \in Nat /\ 1 <= i /\ i <= l /\ o + l <= z /\ z \in Nat
        /\ n \in Nat /\ n >= 1 /\ n <= need /\ need = (l - i) + 1
    BY <1>1, <1>2, <1>3, <1>4
  <2> HIDE DEF l, i, o, z, n
  <2> QED BY <2>1
<1>7. ASSUME NEW j \in 1..n PROVE bytes[j] = X[h + j] /\ X[h + j] \in Byte
  <2>1. x[j] = [t |-> "byte", b |-> X[h + j], no |-> f.no, rot |-> (f.key + (j - 1)) % 4]
    BY CellHolds DEF X
  <2>2. h + j \in 1..z
    BY <1>6
  <2> HIDE DEF h
  <2>3. X[h + j] \in Byte
    BY <1>4, <2>2
  <2> DEFINE c == x[j]
  <2>4. c.t = "byte" /\ c.no = f.no /\ c.rot = (f.key + (j - 1)) % 4 /\ c.b = X[h + j]
    BY <2>1
  <2> HIDE DEF c
  <2>5. bytes[j] = IF c.t = "byte" /\ c.no = f.no /\ c.rot = (f.key + j-1) % 4 THEN c.b ELSE 0
    BY DEF Unmask, c
  <2> QED BY <2>3, <2>4, <2>5
<1>8. bytes \in Seq(Byte) /\ Len(bytes) = n
  <2>1. bytes = [j \in 1..n |-> bytes[j]]
    BY DEF Unmask
  <2>2. \A j \in 1..n : bytes[j] \in Byte
    BY <1>7
  <2>3. n \in Nat
    BY <1>1
  <2> HIDE DEF n
  <2>4. bytes \in [1..n -> Byte]
    BY <2>1, <2>2
  <2> QED BY <2>3, <2>4
<1>9. ASSUME n < need PROVE ByteAt(a, A[p2 + 1], n)
  <2>1. n <= l - i /\ (p + 1) + n <= s + 1 /\ (p + 1) + n = p2 + 1
    <3>1. /\ l \in Nat /\ i \in Nat /\ n \in Nat /\ n < need /\ need = (l - i) + 1 /\ p2 = p + n
          /\ p2 <= s /\ s \in Nat /\ p \in Nat
      BY <1>1, <1>2, <1>5, <1>9
    <3> HIDE DEF l, i, n, s
    <3> QED BY <3>1
  <2>2. ByteAt(a, A[(p + 1) + n], n)
    <3> HIDE DEF n
    <3> QED BY <1>1, <2>1, BytesAhead
  <2> QED BY <2>1, <2>2
<1>10. ASSUME n = need PROVE A[p2 + 1] = After(a) /\ (a.fin => (o + i) + n = z + 1)
  <2> DEFINE k == n - 1
             q == (p + 1) + k
             g == A[q]
  <2>1. k \in Nat /\ k = l - i /\ q <= s + 1 /\ q = p2 /\ i + k = l /\ q \in 1..s
    <3>1. /\ l \in Nat /\ i \in Nat /\ n \in Nat /\ n >= 1 /\ n = need /\ need = (l - i) + 1
          /\ p2 = p + n /\ p2 <= s /\ s \in Nat /\ p \in Nat
      BY <1>1, <1>2, <1>5, <1>10
    <3> HIDE DEF l, i, n, s
    <3> QED BY <3>1
  <2>2. k <= l - i
    <3>1. l - i \in Int
      <4> HIDE DEF l, i
      <4> QED BY <1>2
    <3> QED BY <2>1, <3>1
  <2> HIDE DEF k
  <2>3. ByteAt(a, A[(p + 1) + k], k)
    BY <1>1, <2>1, <2>2, BytesAhead
  <2>4. g.r = "byte" /\ g.fin = a.fin /\ g.m = a.m /\ g.o = o /\ g.len = l /\ g.i = i + k
    BY <2>3 DEF ByteAt
  <2>5. A[q + 1] = Follow(g, S[q], q)
    <3>1. \A r \in 1..s : A[r + 1] = Follow(A[r], S[r], r)
      BY <1>1 DEF SaneByte, Ledger
    <3> HIDE DEF q
    <3> QED BY <2>1, <3>1
  <2> HIDE DEF g, q
  <2>6. ~(g.i < g.len)
    <3> HIDE DEF l, i
    <3> QED BY <1>2, <2>1, <2>4
  <2>7. A[q + 1] = After(g)
    BY <2>4, <2>5, <2>6 DEF Follow
  <2>8. After(g) = After(a)
    BY <2>4 DEF After
  <2>9. a.fin => (o + i) + n = z + 1
    BY <1>3, <1>6, <1>10
  <2> QED BY <2>1, <2>7, <2>8, <2>9
<1>11. Unmasked(M, A, a, x, need, p2, bytes)
  BY <1>6, <1>7, <1>8, <1>9, <1>10 DEF Unmasked, X
<1> QED BY <1>11

-----------------------------------------------------------------------------
(* The client and its consuming_buffers.                                   *)

\* The ledger of a connection on which nothing was sent, the client before its
\* first message and the reader before the first frame.
Opened == [p \in {1} |-> HeadAt(1, 0)]

\* A fresh consuming_buffers.
LEMMA FreshFront ==
  ASSUME NEW L \in Seq(Seq(Byte))
  PROVE  Consumable(Byte, consuming(L)) /\ FrontAt(consuming(L)) = 0 /\ consuming(L).bs = L
<1> DEFINE c == consuming(L)
<1>1. c = [bs |-> L, begin |-> 1, skip |-> 0]
  BY DEF consuming
<1> HIDE DEF c
<1>2. c.bs = L /\ c.begin = 1 /\ c.skip = 0
  BY <1>1
<1>3. c \in [bs : Seq(Seq(Byte)), begin : Nat, skip : Nat]
  BY <1>1
<1>4. Off(L, 0) = 0
  BY OffStep
<1>5. Cursor(Byte, L, 1, 0)
  <2>1. Len(L) \in Nat /\ (1 <= Len(L) => Len(L[1]) \in Nat /\ 0 <= Len(L[1]))
    BY Parts
  <2> QED BY <2>1 DEF Cursor
<1>6. Place(L, 1, 0) = 0
  BY <1>4 DEF Place
<1> QED BY <1>2, <1>3, <1>5, <1>6 DEF Consumable, FrontAt, c

\* A client before a message.
LEMMA FreshClient ==
  ASSUME NEW M \in Seq(Seq(Seq(Byte))), NEW m \in 1..(Len(M) + 1), NEW c,
         m <= Len(M) => c = consuming(M[m])
  PROVE  ClientAt(M, HeadAt(m, 0), m, c)
<1> DEFINE a == HeadAt(m, 0)
<1>1. a.r = "head" /\ a.m = m /\ a.o = 0
  BY DEF HeadAt
<1> HIDE DEF a
<1>2. m <= Len(M) => c.bs = M[m] /\ Consumable(Byte, c) /\ FrontAt(c) = 0
  <2> SUFFICES ASSUME m <= Len(M) PROVE c.bs = M[m] /\ Consumable(Byte, c) /\ FrontAt(c) = 0
    OBVIOUS
  <2>1. m \in 1..Len(M)
    OBVIOUS
  <2>2. M[m] \in Seq(Seq(Byte))
    BY <2>1
  <2> QED BY <2>2, FreshFront
<1>3. ClientAt(M, a, m, c)
  BY <1>1, <1>2 DEF ClientAt
<1> QED BY <1>3 DEF a

\* A connection as it begins.
LEMMA Opens ==
  ASSUME NEW M \in Seq(Seq(Seq(Byte))), Len(M) > 0
  PROVE  /\ Ledger(M, <<>>, Opened)
         /\ ClientAt(M, Opened[Len(<<>>) + 1], 1, consuming(M[1]))
         /\ ReaderAt(Opened[0 + 1], "idle", 1, <<>>, NoFrame)
         /\ TextAt(M, 1, <<>>, "idle")
<1>1. Len(<<>>) = 0 /\ Opened[0 + 1] = HeadAt(1, 0) /\ Opened[Len(<<>>) + 1] = HeadAt(1, 0)
  BY DEF Opened
<1>2. Sane(M, HeadAt(1, 0))
  BY HeadSane
<1>3. Ledger(M, <<>>, Opened)
  <2>1. 1..(Len(<<>>) + 1) = {1} /\ 1..Len(<<>>) = {} /\ Opened[1] = HeadAt(1, 0)
    BY <1>1
  <2> QED BY <1>2, <2>1 DEF Ledger
<1>4. 1 \in 1..Len(M) /\ 1 \in 1..(Len(M) + 1)
  OBVIOUS
<1>5. ClientAt(M, HeadAt(1, 0), 1, consuming(M[1]))
  BY <1>4, FreshClient
<1>6. ReaderAt(HeadAt(1, 0), "idle", 1, <<>>, NoFrame)
  <2>1. HeadAt(1, 0).r = "head" /\ HeadAt(1, 0).m = 1 /\ HeadAt(1, 0).o = 0
    BY DEF HeadAt
  <2> QED BY <1>1, <2>1 DEF ReaderAt
<1>7. TextAt(M, 1, <<>>, "idle")
  <2> DEFINE X == Flat(M[1])
  <2>1. X \in Seq(Byte) /\ Len(X) \in Nat
    BY <1>4, MessageIs
  <2>2. <<>> \in Seq(Byte) /\ Len(<<>>) <= Len(X)
    BY <1>1, <2>1
  <2>3. <<>> = SubSeq(X, 1, 0)
    BY <2>1
  <2> QED BY <1>1, <1>4, <2>2, <2>3 DEF TextAt
<1> QED BY <1>1, <1>3, <1>5, <1>6, <1>7

\* What the client sends are the next bytes of its message, and consume_front
\* moves it behind them.
Says(M, a, m, c, fin, n, bytes) ==
  /\ ClientAt(M, a, m, c) /\ m <= Len(M) /\ M \in Seq(Seq(Seq(Byte)))
  /\ fin \in BOOLEAN /\ n \in 0..Len(rest_of(c)) /\ (fin => n = Len(rest_of(c)))
  /\ bytes = SubSeq(rest_of(c), 1, n)

\* They are bytes of the message, and the client is behind them.
Said(M, a, m, c, fin, n, bytes) ==
  /\ bytes \in Seq(Byte) /\ Len(bytes) = n /\ n \in Nat
  /\ Whole(M, a.m, a.o, n, fin)
  /\ \A i \in 1..n : bytes[i] = Flat(M[a.m])[a.o + i]
  /\ MovesOn(Byte, c, consume_front(c, n), n)

\* Indeed.
LEMMA ClientSays ==
  ASSUME NEW M, NEW a, NEW m, NEW c, NEW fin, NEW n, NEW bytes, Says(M, a, m, c, fin, n, bytes)
  PROVE  Said(M, a, m, c, fin, n, bytes)
<1> DEFINE X == Flat(M[m])
           z == Len(X)
           o == FrontAt(c)
           R == rest_of(c)
           w == Len(R)
<1>1. /\ a.r = "head" /\ a.m = m /\ m \in 1..Len(M) /\ c.bs = M[m] /\ Consumable(Byte, c) /\ o = a.o
      /\ M \in Seq(Seq(Seq(Byte)))
  BY DEF Says, ClientAt
<1>2. M[m] \in Seq(Seq(Byte)) /\ X \in Seq(Byte) /\ z \in Nat
  BY <1>1, MessageIs
<1>3. o \in Nat /\ o <= z
  <2>1. Cursor(Byte, c.bs, c.begin, c.skip)
    BY <1>1 DEF Consumable
  <2>2. Place(c.bs, c.begin, c.skip) \in Nat /\ Place(c.bs, c.begin, c.skip) <= Off(c.bs, Len(c.bs))
    BY <2>1, CursorFacts
  <2>3. z = Off(c.bs, Len(c.bs))
    BY <1>1, <1>2, FlatAt
  <2> QED BY <2>2, <2>3 DEF FrontAt
<1>4. R = SubSeq(X, o + 1, z)
  BY <1>1, RestAt
<1> HIDE DEF R, X, o
<1>5. R \in Seq(Byte) /\ w = z - o /\ \A i \in Nat : i >= 1 /\ i <= z - o => R[i] = X[o + i]
  <2>1. X \in Seq(Byte) /\ o \in Nat /\ z \in Nat /\ o <= z /\ z <= Len(X)
    BY <1>2, <1>3
  <2> HIDE DEF z
  <2>2. /\ SubSeq(X, o + 1, z) \in Seq(Byte) /\ Len(SubSeq(X, o + 1, z)) = z - o
        /\ \A i \in Nat : i >= 1 /\ i <= z - o => SubSeq(X, o + 1, z)[i] = X[o + i]
    BY <2>1, CutOut
  <2> QED BY <1>4, <2>2
<1>6. n \in 0..w /\ (fin => n = w) /\ bytes = SubSeq(R, 1, n) /\ fin \in BOOLEAN
  BY DEF Says, R
<1>7. n \in Nat /\ n <= z - o /\ (fin => o + n = z) /\ o + n <= z
  <2> HIDE DEF z, w
  <2> QED BY <1>2, <1>3, <1>5, <1>6
<1>8. bytes \in Seq(Byte) /\ Len(bytes) = n /\ \A i \in 1..n : bytes[i] = R[i]
  BY <1>5, <1>6, FrontOut
<1>9. ASSUME NEW i \in 1..n PROVE bytes[i] = X[o + i]
  <2>1. i \in Nat /\ i >= 1 /\ i <= z - o
    <3> HIDE DEF z
    <3> QED BY <1>2, <1>3, <1>7
  <2> QED BY <1>5, <1>8, <2>1
<1>10. Whole(M, m, o, n, fin)
  BY <1>1, <1>7 DEF Whole, X
<1>11. MovesOn(Byte, c, consume_front(c, n), n)
  <2>1. FrontAt(c) + n <= Len(Flat(c.bs))
    BY <1>1, <1>7 DEF o, X
  <2> QED BY <1>1, <1>7, <2>1, ConsumeFront
<1> QED BY <1>1, <1>7, <1>8, <1>9, <1>10, <1>11 DEF Said, X

-----------------------------------------------------------------------------
(* The invariant, and the steps that read nothing.                         *)

\* A tells of every cell sent where it belongs; the client stands behind the
\* last one, the reader behind those it was given.
Story(A) ==
  /\ Ledger(case.msgs, sent, A)
  /\ ClientAt(case.msgs, A[Len(sent) + 1], msg, cb)
  /\ ReaderAt(A[pos + 1], pc, cur, text, fr)

\* The inductive invariant.
PInv ==
  /\ case \in Cases
  /\ Flows(sent, wire, pos, sb)
  /\ TextAt(case.msgs, cur, text, pc)
  /\ BufferAt(db, text, taken)
  /\ EndsAt(pc, fr, verdict, text, db)
  /\ \E A : Story(A)

\* What CaseAssumption says of the case chosen.
LEMMA CaseIs ==
  ASSUME NEW c \in Cases
  PROVE  /\ c.msgs \in Seq(Seq(Seq(Byte))) /\ Len(c.msgs) > 0 /\ Len(c.msgs) \in Nat
         /\ Unused(c.buf) /\ c.cap \in Nat
BY CaseAssumption

\* A fresh buffer holds nothing.
LEMMA UnusedHolds ==
  ASSUME NEW b, Unused(b)
  PROVE  BufferAt(b, <<>>, 0)
<1>1. Sound(DbCell, b) /\ db_data(b) = <<>> /\ (b.kind # "streambuf" => Spent(b) = 0)
  BY UnusedSound
<1>2. Len(<<>>) = 0 /\ SubSeq(<<>>, 0 + 1, Len(<<>>)) = <<>> /\ 0 \in 0..Len(<<>>)
  OBVIOUS
<1> QED BY <1>1, <1>2 DEF BufferAt

\* Before a frame.
LEMMA NoFrameIs == NoFrame \in [fin : BOOLEAN, remain : Nat, key : 0..3, no : Nat]
BY DEF NoFrame

\* Nothing sent, nothing held.
LEMMA EmptyFlows ==
  ASSUME NEW q, Shaped(Cell, q), View(q) = <<>>
  PROVE  Flows(<<>>, <<>>, 0, q)
<1>1. <<>> \in Seq(Cell) /\ Len(<<>>) = 0 /\ 0 \in 0..Len(<<>>)
  OBVIOUS
<1>2. View(q) \o <<>> = SubSeq(<<>>, 0 + 1, Len(<<>>))
  OBVIOUS
<1> QED BY <1>1, <1>2 DEF Flows

\* It holds at the start, and every step keeps it: the client sends a frame,
LEMMA PInvInit == Init => PInv
<1> SUFFICES ASSUME Init PROVE PInv
  OBVIOUS
<1>1. /\ case \in Cases /\ msg = 1 /\ cur = 1 /\ cb = consuming(case.msgs[1])
      /\ wire = <<>> /\ sent = <<>> /\ pos = 0 /\ sb = EmptyBuf
      /\ fr = NoFrame /\ pc = "idle" /\ db = case.buf /\ text = <<>> /\ taken = 0
      /\ verdict = "none"
  BY DEF Init
<1>2. case.msgs \in Seq(Seq(Seq(Byte))) /\ Len(case.msgs) > 0 /\ Unused(case.buf)
  BY <1>1, CaseIs
<1>3. Flows(sent, wire, pos, sb)
  <2>1. Shaped(Cell, EmptyBuf)
    BY EmptyShaped
  <2>2. View(EmptyBuf) \in Seq(Cell) /\ Len(View(EmptyBuf)) = 0
    BY <2>1, DataIs DEF EmptyBuf
  <2>3. View(EmptyBuf) = <<>>
    BY <2>2, NoneIsEmpty
  <2> QED BY <1>1, <2>1, <2>3, EmptyFlows
<1>4. BufferAt(db, text, taken)
  BY <1>1, <1>2, UnusedHolds
<1>5. EndsAt(pc, fr, verdict, text, db)
  BY <1>1, NoFrameIs DEF EndsAt
<1>6. TextAt(case.msgs, cur, text, pc) /\ Story(Opened)
  BY <1>1, <1>2, Opens DEF Story
<1> QED BY <1>1, <1>3, <1>4, <1>5, <1>6 DEF PInv

\* The client sends a frame.
LEMMA SendStep == PInv /\ SendFrame => PInv'
<1> SUFFICES ASSUME PInv, SendFrame PROVE PInv'
  OBVIOUS
<1> DEFINE M == case.msgs
           s == Len(sent)
<1>1. PICK n \in 0..Len(rest_of(cb)), fin \in BOOLEAN :
    /\ msg <= Len(case.msgs)
    /\ fin => n = Len(rest_of(cb))
    /\ LET cells == Cells(Len(sent), fin, SubSeq(rest_of(cb), 1, n))
       IN  wire' = wire \o cells /\ sent' = sent \o cells
    /\ msg' = IF fin THEN msg + 1 ELSE msg
    /\ cb' = IF ~fin THEN consume_front(cb, n)
             ELSE IF msg < Len(case.msgs) THEN Message(msg + 1) ELSE cb
    /\ UNCHANGED <<case, session, pos, sb, reader, db, taken>>
  BY DEF SendFrame
<1> DEFINE bytes == SubSeq(rest_of(cb), 1, n)
           cells == Cells(s, fin, bytes)
           Z == sent \o cells
<1>2. PICK A : Story(A)
  BY DEF PInv
<1> DEFINE a == A[s + 1]
<1>3. M \in Seq(Seq(Seq(Byte))) /\ Len(M) \in Nat /\ Len(M) > 0
  BY CaseIs DEF PInv
<1>4. sent \in Seq(Cell) /\ s \in Nat /\ pos \in 0..s
  BY DEF PInv, Flows
<1>5. /\ wire' = wire \o cells /\ sent' = Z
      /\ case' = case /\ pos' = pos /\ sb' = sb /\ db' = db /\ taken' = taken
      /\ fr' = fr /\ pc' = pc /\ text' = text /\ cur' = cur /\ verdict' = verdict
  BY <1>1 DEF reader
<1>6. Says(M, a, msg, cb, fin, n, bytes)
  BY <1>1, <1>2, <1>3 DEF Says, Story
<1>7. Said(M, a, msg, cb, fin, n, bytes)
  BY <1>6, ClientSays
<1>8. bytes \in Seq(Byte) /\ Len(bytes) = n /\ n \in Nat
  BY <1>7 DEF Said
<1>9. a.r = "head" /\ a.m = msg /\ msg \in 1..(Len(M) + 1) /\ msg <= Len(M)
  BY <1>1, <1>2 DEF Story, ClientAt
<1>10. Sends(M, sent, A, fin, bytes, a)
  BY <1>2, <1>4, <1>7, <1>8, <1>9 DEF Sends, Said, Story
<1> HIDE DEF bytes
<1>11. Framed(cells, s, fin, bytes)
  BY <1>4, <1>8, CellsAre
<1>12. Flows(Z, wire \o cells, pos, sb)
  <2>1. cells \in Seq(Cell)
    BY <1>11 DEF Framed
  <2> HIDE DEF cells
  <2> QED BY <2>1, FlowsSend DEF PInv
<1>13. PICK B : LedgerOn(M, sent, A, fin, n, a, Z, B)
  <2> DEFINE B == Grown(A, s, fin, n)
  <2>1. Z = sent \o Cells(s, fin, bytes) /\ n = Len(bytes)
    BY <1>8
  <2> HIDE DEF Z, B, a, M
  <2>2. B = Grown(A, s, fin, n) /\ s = Len(sent)
    BY DEF B
  <2>3. LedgerOn(M, sent, A, fin, n, a, Z, B)
    BY <1>10, <2>1, <2>2, LedgerGrows
  <2> QED BY <2>3
<1> DEFINE e == B[Len(Z) + 1]
<1>14. /\ Ledger(M, Z, B) /\ \A p \in 1..(s + 1) : B[p] = A[p]
       /\ e = IF fin THEN HeadAt(a.m + 1, 0) ELSE HeadAt(a.m, a.o + n)
  BY <1>13 DEF LedgerOn
<1> HIDE DEF e, Z
<1>15. ReaderAt(B[pos + 1], pc, cur, text, fr)
  <2>1. pos + 1 \in 1..(s + 1)
    <3> HIDE DEF s
    <3> QED BY <1>4
  <2> QED BY <1>2, <1>14, <2>1 DEF Story
<1>16. ClientAt(M, e, msg', cb')
  <2>1. CASE fin
    <3>1. e = HeadAt(msg + 1, 0) /\ msg' = msg + 1
      BY <1>1, <1>9, <1>14, <2>1
    <3>2. msg + 1 \in 1..(Len(M) + 1)
      BY <1>3, <1>9
    <3>3. msg + 1 <= Len(M) => cb' = consuming(M[msg + 1])
      <4>1. msg + 1 <= Len(M) => msg < Len(M)
        BY <1>3, <1>9
      <4> QED BY <1>1, <2>1, <4>1 DEF Message
    <3> QED BY <1>3, <3>1, <3>2, <3>3, FreshClient
  <2>2. CASE ~fin
    <3>1. e = HeadAt(msg, a.o + n) /\ msg' = msg /\ cb' = consume_front(cb, n)
      BY <1>1, <1>9, <1>14, <2>2
    <3>2. e.r = "head" /\ e.m = msg /\ e.o = a.o + n
      BY <3>1 DEF HeadAt
    <3>3. MovesOn(Byte, cb, cb', n)
      BY <1>7, <3>1 DEF Said
    <3>4. cb.bs = M[msg] /\ FrontAt(cb) = a.o
      BY <1>2, <1>9 DEF Story, ClientAt
    <3> QED BY <1>9, <3>1, <3>2, <3>3, <3>4 DEF ClientAt, MovesOn
  <2> QED BY <2>1, <2>2
<1>17. Story(B)'
  <2>1. Ledger(case.msgs, Z, B) /\ ClientAt(case.msgs, B[Len(Z) + 1], msg', cb')
    BY <1>14, <1>16 DEF e
  <2> HIDE DEF M
  <2> QED BY <1>5, <1>15, <2>1 DEF Story
<1> QED BY <1>5, <1>12, <1>17 DEF PInv

\* The caller calls read_frame.
LEMMA CallStep == PInv /\ Call => PInv'
<1> SUFFICES ASSUME PInv, Call PROVE PInv'
  OBVIOUS
<1>1. /\ pc = "idle" /\ pc' = "head" /\ verdict = "none"
      /\ case' = case /\ sent' = sent /\ wire' = wire /\ pos' = pos /\ sb' = sb /\ db' = db
      /\ taken' = taken /\ msg' = msg /\ cb' = cb
      /\ fr' = fr /\ text' = text /\ cur' = cur /\ verdict' = verdict
  BY DEF Call, client
<1>2. PICK A : Story(A)
  BY DEF PInv
<1>3. Story(A)'
  BY <1>1, <1>2 DEF Story, ReaderAt
<1>4. TextAt(case.msgs, cur, text, pc)' /\ EndsAt(pc, fr, verdict, text, db)'
  BY <1>1 DEF PInv, TextAt, EndsAt
<1> QED BY <1>1, <1>3, <1>4 DEF PInv

\* prepare() throws.
LEMMA OverflowStep == PInv /\ Overflow => PInv'
<1> SUFFICES ASSUME PInv, Overflow PROVE PInv'
  OBVIOUS
<1>1. /\ pc = "payload" /\ pc' = "failed" /\ verdict' = "length_error" /\ db_throws(db, fr.remain)
      /\ case' = case /\ sent' = sent /\ wire' = wire /\ pos' = pos /\ sb' = sb /\ db' = db
      /\ taken' = taken /\ msg' = msg /\ cb' = cb /\ fr' = fr /\ text' = text /\ cur' = cur
  BY DEF Overflow, client
<1>2. PICK A : Story(A)
  BY DEF PInv
<1>3. Story(A)'
  BY <1>1, <1>2 DEF Story, ReaderAt
<1>4. TextAt(case.msgs, cur, text, pc)'
  BY <1>1 DEF PInv, TextAt
<1>5. fr \in [fin : BOOLEAN, remain : Nat, key : 0..3, no : Nat]
  BY DEF PInv, EndsAt
<1>6. db.kind # "streambuf" /\ Len(text) + fr.remain > Space(db)
  <2>1. Sound(DbCell, db) /\ (db.kind # "streambuf" => Spent(db) = Len(text))
    BY DEF PInv, BufferAt
  <2>2. fr.remain \in Nat
    BY <1>5
  <2> QED BY <1>1, <2>1, <2>2, DbThrows
<1>7. EndsAt(pc, fr, verdict, text, db)'
  BY <1>1, <1>5, <1>6 DEF EndsAt
<1> QED BY <1>1, <1>3, <1>4, <1>7 DEF PInv

\* The caller goes on to the next message.
LEMMA NextMessageStep == PInv /\ NextMessage => PInv'
<1> SUFFICES ASSUME PInv, NextMessage PROVE PInv'
  OBVIOUS
<1>1. /\ pc = "done" /\ cur < Len(case.msgs) /\ cur' = cur + 1 /\ db' = case.buf /\ text' = <<>>
      /\ taken' = 0 /\ pc' = "idle" /\ verdict' = verdict
      /\ case' = case /\ sent' = sent /\ wire' = wire /\ pos' = pos /\ sb' = sb
      /\ msg' = msg /\ cb' = cb /\ fr' = fr
  BY DEF NextMessage, client
<1>2. PICK A : Story(A)
  BY DEF PInv
<1>3. Len(<<>>) = 0
  OBVIOUS
<1>4. Story(A)'
  BY <1>1, <1>2, <1>3 DEF Story, ReaderAt
<1> DEFINE M == case.msgs
           X == Flat(M[cur + 1])
<1>5. cur + 1 \in 1..Len(M) /\ M \in Seq(Seq(Seq(Byte))) /\ Unused(case.buf)
  <2>1. M \in Seq(Seq(Seq(Byte))) /\ Len(M) \in Nat /\ Unused(case.buf)
    BY CaseIs DEF PInv
  <2>2. cur \in 1..Len(M)
    BY DEF PInv, TextAt
  <2> HIDE DEF M
  <2>3. cur < Len(M)
    BY <1>1 DEF M
  <2> QED BY <2>1, <2>2, <2>3
<1>6. TextAt(M, cur + 1, <<>>, "idle")
  <2>1. X \in Seq(Byte) /\ Len(X) \in Nat
    BY <1>5, MessageIs
  <2>2. <<>> \in Seq(Byte) /\ Len(<<>>) <= Len(X) /\ <<>> = SubSeq(X, 1, 0)
    BY <1>3, <2>1
  <2> HIDE DEF M
  <2> QED BY <1>3, <1>5, <2>2 DEF TextAt
<1>7. BufferAt(db, text, taken)'
  BY <1>1, <1>5, UnusedHolds
<1>8. EndsAt(pc, fr, verdict, text, db)'
  BY <1>1 DEF PInv, EndsAt
<1> QED BY <1>1, <1>4, <1>6, <1>7, <1>8 DEF PInv

\* A new connection.
LEMMA ReconnectStep == PInv /\ Reconnect => PInv'
<1> SUFFICES ASSUME PInv, Reconnect PROVE PInv'
  OBVIOUS
<1>1. /\ msg' = 1 /\ cur' = 1 /\ cb' = consuming(case'.msgs[1]) /\ wire' = <<>> /\ sent' = <<>>
      /\ pos' = 0 /\ sb' = Consume(sb, sb.in_size)
      /\ fr' = NoFrame /\ pc' = "idle" /\ verdict' = "none"
      /\ db' = case'.buf /\ text' = <<>> /\ taken' = 0 /\ case' \in Cases
  BY DEF Reconnect, Message
<1>2. case'.msgs \in Seq(Seq(Seq(Byte))) /\ Len(case'.msgs) > 0 /\ Unused(case'.buf)
  BY <1>1, CaseIs
<1>3. Flows(<<>>, <<>>, 0, sb')
  <2> DEFINE n == sb.in_size
             q == sb'
  <2>1. Shaped(Cell, sb)
    BY DEF PInv, Flows
  <2>2. n \in Nat /\ View(sb) \in Seq(Cell) /\ Len(View(sb)) = n
    BY <2>1, DataIs
  <2>3. q = Consume(sb, n)
    BY <1>1
  <2> HIDE DEF n, q
  <2>4. Emptied(sb, q, n)
    BY <2>1, <2>2, <2>3, EmptyIt
  <2>5. Shaped(Cell, q) /\ View(q) = SubSeq(View(sb), n + 1, n)
    BY <2>4 DEF Emptied, n
  <2>6. View(q) = <<>>
    <3> DEFINE v == View(sb)
    <3>1. v \in Seq(Cell) /\ n \in Nat
      BY <2>2
    <3> HIDE DEF v
    <3>2. SubSeq(v, n + 1, n) = <<>>
      BY <3>1
    <3> QED BY <2>5, <3>2 DEF v
  <2>7. Flows(<<>>, <<>>, 0, q)
    BY <2>5, <2>6, EmptyFlows
  <2> QED BY <2>7 DEF q
<1>4. BufferAt(db, text, taken)'
  BY <1>1, <1>2, UnusedHolds
<1>5. EndsAt(pc, fr, verdict, text, db)'
  BY <1>1, NoFrameIs DEF EndsAt
<1>6. TextAt(case.msgs, cur, text, pc)' /\ Story(Opened)'
  <2> DEFINE M == case'.msgs
  <2>1. /\ Ledger(M, <<>>, Opened)
        /\ ClientAt(M, Opened[Len(<<>>) + 1], 1, consuming(M[1]))
        /\ ReaderAt(Opened[0 + 1], "idle", 1, <<>>, NoFrame)
        /\ TextAt(M, 1, <<>>, "idle")
    BY <1>2, Opens
  <2> QED BY <1>1, <2>1 DEF Story, Opened
<1> QED BY <1>1, <1>3, <1>4, <1>5, <1>6 DEF PInv

\* The caller uses up some of what it got.
LEMMA ConsumesStep == PInv /\ CallerConsumes => PInv'
<1> SUFFICES ASSUME PInv, CallerConsumes PROVE PInv'
  OBVIOUS
<1>1. PICK n \in 1..db_size(db) : db' = db_consume(db, n) /\ taken' = taken + n
  BY DEF CallerConsumes
<1>2. /\ pc = "idle" /\ pc' = pc /\ verdict' = verdict
      /\ case' = case /\ sent' = sent /\ wire' = wire /\ pos' = pos /\ sb' = sb
      /\ msg' = msg /\ cb' = cb /\ fr' = fr /\ text' = text /\ cur' = cur
  BY DEF CallerConsumes, client, reader
<1>3. /\ Sound(DbCell, db) /\ taken \in 0..Len(text)
      /\ db_data(db) = SubSeq(text, taken + 1, Len(text))
      /\ db.kind # "streambuf" => Spent(db) = Len(text)
  BY DEF PInv, BufferAt
<1>4. text \in Seq(Byte) /\ Len(text) \in Nat
  BY DEF PInv, TextAt
<1> DEFINE l == Len(text)
           z == db_size(db)
           d == db_data(db)
<1>5. z = l - taken /\ taken \in Nat /\ taken <= l
  <2>1. taken \in Nat /\ taken <= l
    BY <1>3, <1>4
  <2>2. Len(d) = z
    BY <1>3, DbHolds DEF Holds
  <2> HIDE DEF l, z
  <2>3. l \in Nat /\ l <= Len(text)
    BY <1>4 DEF l
  <2>4. Len(SubSeq(text, taken + 1, l)) = l - taken
    BY <1>4, <2>1, <2>3, CutOut
  <2>5. d = SubSeq(text, taken + 1, l)
    BY <1>3 DEF l
  <2> HIDE DEF d
  <2> QED BY <2>1, <2>2, <2>4, <2>5
<1>6. n \in Nat /\ taken + n <= l /\ taken + n \in 0..l
  <2>1. l \in Nat /\ n \in 1..z
    BY <1>4
  <2> HIDE DEF l, z
  <2> QED BY <1>5, <2>1
<1>7. Sheds(DbCell, db, db', n)
  BY <1>1, <1>3, <1>6, DbSheds
<1>8. db_data(db') = SubSeq(text, (taken + n) + 1, l)
  <2>1. db_data(db') = SubSeq(d, n + 1, z)
    BY <1>7 DEF Sheds
  <2>2. SubSeq(SubSeq(text, taken + 1, l), n + 1, l - taken) = SubSeq(text, taken + n + 1, l)
    BY <1>4, <1>5, <1>6, LeftLess
  <2>3. d = SubSeq(text, taken + 1, l)
    BY <1>3
  <2>4. taken + n + 1 = (taken + n) + 1
    BY <1>5, <1>6
  <2> HIDE DEF d, l, z
  <2> QED BY <1>5, <2>1, <2>2, <2>3, <2>4
<1>9. Sound(DbCell, db') /\ (db'.kind # "streambuf" => Spent(db') = l)
  BY <1>3, <1>7 DEF Sheds
<1>10. BufferAt(db', text, taken + n)
  <2> DEFINE k == taken + n
             b == db'
  <2>1. Sound(DbCell, b) /\ k \in 0..l /\ db_data(b) = SubSeq(text, k + 1, l)
        /\ (b.kind # "streambuf" => Spent(b) = l)
    BY <1>6, <1>8, <1>9
  <2> HIDE DEF k, b
  <2>2. BufferAt(b, text, k)
    BY <2>1 DEF BufferAt
  <2> QED BY <2>2 DEF k, b
<1>11. BufferAt(db, text, taken)'
  BY <1>1, <1>2, <1>10
<1>12. EndsAt(pc, fr, verdict, text, db)'
  BY <1>2 DEF PInv, EndsAt
<1>13. PICK A : Story(A)
  BY DEF PInv
<1>14. Story(A)'
  BY <1>2, <1>13 DEF Story
<1> QED BY <1>2, <1>11, <1>12, <1>14 DEF PInv

-----------------------------------------------------------------------------
(* The steps that read.                                                    *)

\* The cell that is read next is the one the reader expects.
LEMMA NextIs ==
  ASSUME NEW M, NEW S, NEW A, Ledger(M, S, A), NEW p \in Nat, NEW x, NEW n, NEW p2,
         Hands(S, p, x, n, p2), Len(S) \in Nat
  PROVE  /\ Matches(M, A[p + 1], x[1])
         /\ A[(p + 1) + 1] = Follow(A[p + 1], x[1], p + 1)
         /\ Sane(M, A[p + 1]) /\ p + 1 \in Nat
         /\ n = 1 => p2 = p + 1
<1>1. /\ Len(x) \in Nat /\ Len(x) >= 1 /\ Len(x) <= n /\ p2 = p + Len(x) /\ p2 <= Len(S)
      /\ \A i \in 1..Len(x) : x[i] = S[p + i]
  BY DEF Hands
<1>2. x[1] = S[p + 1] /\ p + 1 \in 1..Len(S) /\ p + 1 \in 1..(Len(S) + 1)
  <2> DEFINE s == Len(S)
             l == Len(x)
  <2>1. l \in Nat /\ l >= 1 /\ p2 = p + l /\ p2 <= s /\ s \in Nat
    BY <1>1
  <2>2. 1 \in 1..l
    BY <2>1
  <2> HIDE DEF s, l
  <2>3. p + 1 \in 1..s /\ p + 1 \in 1..(s + 1)
    BY <2>1
  <2> QED BY <1>1, <2>2, <2>3 DEF s, l
<1>3. n = 1 => p2 = p + 1
  BY <1>1
<1> QED BY <1>2, <1>3 DEF Ledger

\* read_fh1.
LEMMA ReadHeadStep == PInv /\ ReadHead => PInv'
<1> SUFFICES ASSUME PInv, ReadHead PROVE PInv'
  OBVIOUS
<1>1. PICK h : /\ ReadSome(1, h)
               /\ fr' = [fin |-> h[1].fin, remain |-> h[1].len, key |-> 0, no |-> 0]
  BY DEF ReadHead
<1>2. /\ pc = "head" /\ pc' = "key" /\ case' = case /\ sent' = sent /\ db' = db
      /\ msg' = msg /\ cb' = cb /\ text' = text /\ cur' = cur /\ taken' = taken /\ verdict' = verdict
  BY DEF ReadHead, client
<1>3. case.cap \in Nat
  BY CaseIs DEF PInv
<1>4. Flows(sent, wire', pos', sb') /\ Hands(sent, pos, h, 1, pos')
  BY <1>1, <1>3, TakeHands DEF PInv
<1>5. PICK A : Story(A)
  BY DEF PInv
<1> DEFINE M == case.msgs
           a == A[pos + 1]
           c == h[1]
           g == A[(pos + 1) + 1]
<1>6. /\ Matches(M, a, c) /\ g = Follow(a, c, pos + 1) /\ Sane(M, a) /\ pos + 1 \in Nat
      /\ pos' = pos + 1
  <2>1. Ledger(M, sent, A) /\ Len(sent) \in Nat /\ pos \in Nat
    BY <1>5 DEF Story, PInv, Flows
  <2> HIDE DEF M
  <2> QED BY <1>4, <2>1, NextIs
<1>7. a.r = "head" /\ a.m = cur /\ a.o = Len(text)
  BY <1>2, <1>5 DEF Story, ReaderAt
<1>8. a \in PlaceType
  BY <1>6 DEF Sane
<1> HIDE DEF a, c, g, M
<1>9. c.t = "head" /\ c.len \in Nat /\ c.fin \in BOOLEAN /\ Whole(M, a.m, a.o, c.len, c.fin)
  BY <1>6, <1>7 DEF Matches
<1>10. g = KeyAt(a, pos + 1, c.fin, c.len)
  BY <1>6, <1>7 DEF Follow
<1>11. g.r = "key" /\ g.m = a.m /\ g.o = a.o /\ g.fin = c.fin /\ g.len = c.len
  BY <1>8, <1>10 DEF KeyAt, PlaceType
<1>12. fr' = [fin |-> c.fin, remain |-> c.len, key |-> 0, no |-> 0]
  BY <1>1 DEF c
<1>13. ReaderAt(g, "key", cur, text, fr')
  BY <1>7, <1>11, <1>12 DEF ReaderAt
<1>14. Story(A)'
  BY <1>2, <1>5, <1>6, <1>13 DEF Story, g
<1>15. TextAt(case.msgs, cur, text, pc)'
  BY <1>2 DEF PInv, TextAt
<1>16. EndsAt(pc, fr, verdict, text, db)'
  <2>1. fr' \in [fin : BOOLEAN, remain : Nat, key : 0..3, no : Nat]
    BY <1>9, <1>12
  <2>2. verdict = "none"
    BY <1>2 DEF PInv, EndsAt
  <2> QED BY <1>2, <2>1, <2>2 DEF EndsAt
<1> QED BY <1>2, <1>4, <1>14, <1>15, <1>16 DEF PInv

\* read_fh2.
LEMMA ReadKeyStep == PInv /\ ReadKey => PInv'
<1> SUFFICES ASSUME PInv, ReadKey PROVE PInv'
  OBVIOUS
<1>1. PICK k : ReadSome(1, k) /\ fr' = [fr EXCEPT !.no = k[1].no]
  BY DEF ReadKey
<1> DEFINE n == fr.remain
<1>2. /\ pc = "key" /\ case' = case /\ sent' = sent /\ db' = db
      /\ msg' = msg /\ cb' = cb /\ text' = text /\ cur' = cur /\ taken' = taken
      /\ \/ n = 0 /\ fr.fin /\ pc' = "done" /\ verdict' = verdict
         \/ n = 0 /\ ~fr.fin /\ pc' \in {"head", "idle"} /\ verdict' = verdict
         \/ n # 0 /\ pc' = "failed" /\ verdict' = "too_big"
         \/ n # 0 /\ pc' = "payload" /\ verdict' = verdict
  BY DEF ReadKey, client
<1>3. case.cap \in Nat /\ case.msgs \in Seq(Seq(Seq(Byte)))
  BY CaseIs DEF PInv
<1>4. Flows(sent, wire', pos', sb') /\ Hands(sent, pos, k, 1, pos')
  <2>1. ReadSome(1, k)
    BY <1>1
  <2>2. case.cap \in Nat
    BY <1>3
  <2>3. Flows(sent, wire, pos, sb)
    BY DEF PInv
  <2> QED BY <2>1, <2>2, <2>3, TakeHands
<1>5. PICK A : Story(A)
  BY DEF PInv
<1> DEFINE M == case.msgs
           a == A[pos + 1]
           c == k[1]
           g == A[(pos + 1) + 1]
<1>6. /\ Matches(M, a, c) /\ g = Follow(a, c, pos + 1) /\ Sane(M, a) /\ pos + 1 \in Nat
      /\ pos' = pos + 1
  <2>1. Ledger(M, sent, A) /\ Len(sent) \in Nat /\ pos \in Nat
    BY <1>5 DEF Story, PInv, Flows
  <2> HIDE DEF M
  <2> QED BY <1>4, <2>1, NextIs
<1>7. /\ a.r = "key" /\ a.m = cur /\ a.o = Len(text) /\ a.fin = fr.fin /\ a.len = n /\ fr.key = 0
  BY <1>2, <1>5 DEF Story, ReaderAt
<1>8. a \in PlaceType /\ a.i = 0 /\ Whole(M, a.m, a.o, a.len, a.fin) /\ a.at >= 1
  BY <1>6, <1>7 DEF Sane
<1>9. a.at \in Nat /\ a.at - 1 \in Nat /\ n \in Nat /\ a.o \in Nat
  <2>1. a.at \in Nat /\ a.len \in Nat /\ a.o \in Nat
    BY <1>8 DEF PlaceType
  <2> DEFINE x == a.at
  <2>2. x \in Nat /\ x >= 1
    BY <1>8, <2>1
  <2> HIDE DEF x
  <2>3. x - 1 \in Nat
    BY <2>2
  <2> QED BY <1>7, <2>1, <2>3 DEF x
<1> HIDE DEF a, c, g, M
<1>10. c = [t |-> "key", no |-> a.at - 1]
  BY <1>6, <1>7 DEF Matches
<1>11. fr \in [fin : BOOLEAN, remain : Nat, key : 0..3, no : Nat] /\ verdict = "none"
  BY <1>2 DEF PInv, EndsAt
<1>12. /\ fr'.fin = fr.fin /\ fr'.remain = n /\ fr'.key = 0 /\ fr'.no = a.at - 1
       /\ fr' \in [fin : BOOLEAN, remain : Nat, key : 0..3, no : Nat]
  <2> DEFINE x == a.at - 1
  <2>1. fr' = [fr EXCEPT !.no = x] /\ x \in Nat
    BY <1>1, <1>9, <1>10 DEF c
  <2> HIDE DEF x
  <2> QED BY <1>7, <1>11, <2>1 DEF x
<1>13. g = IF 0 < n THEN [a EXCEPT !.r = "byte", !.i = 1] ELSE After(a)
  BY <1>6, <1>7, <1>8 DEF Follow
<1>14. EndsAt(pc, fr, verdict, text, db)'
  <2>1. /\ pc' \in {"idle", "head", "key", "payload", "done", "failed"}
        /\ verdict' # "none" => pc' = "failed"
        /\ verdict' # "length_error"
    BY <1>2, <1>11
  <2> QED BY <1>12, <2>1 DEF EndsAt
<1>15. n = 0 /\ fr.fin => text = Flat(M[cur])
  <2> SUFFICES ASSUME n = 0, fr.fin PROVE text = Flat(M[cur])
    OBVIOUS
  <2> DEFINE X == Flat(M[cur])
             l == Len(text)
  <2>1. cur \in 1..Len(M) /\ l \in Nat /\ text = SubSeq(X, 1, l)
    BY DEF PInv, TextAt, M
  <2>2. X \in Seq(Byte) /\ Len(X) \in Nat
    BY <1>3, <2>1, MessageIs DEF M
  <2>3. l = Len(X)
    BY <1>7, <1>8, <2>1 DEF Whole
  <2> HIDE DEF X
  <2>4. SubSeq(X, 1, Len(X)) = X
    BY <2>2
  <2> QED BY <2>1, <2>3, <2>4 DEF X
<1>16. TextAt(case.msgs, cur, text, pc)'
  BY <1>2, <1>15 DEF PInv, TextAt, M
<1>17. ReaderAt(g, pc', cur, text, fr')
  <2>1. CASE n = 0 /\ fr.fin /\ pc' = "done"
    <3>1. g = HeadAt(cur + 1, 0)
      BY <1>7, <1>13, <2>1 DEF After
    <3>2. g.r = "head" /\ g.m = cur + 1 /\ g.o = 0
      BY <3>1 DEF HeadAt
    <3> QED BY <2>1, <3>2 DEF ReaderAt
  <2>2. CASE n = 0 /\ ~fr.fin /\ pc' \in {"head", "idle"}
    <3>1. g = HeadAt(cur, a.o + 0)
      BY <1>7, <1>13, <2>2 DEF After
    <3>2. g.r = "head" /\ g.m = cur /\ g.o = Len(text)
      BY <1>7, <1>9, <3>1 DEF HeadAt
    <3> QED BY <2>2, <3>2 DEF ReaderAt
  <2>3. CASE pc' = "failed"
    BY <2>3 DEF ReaderAt
  <2>4. CASE n # 0 /\ pc' = "payload"
    <3>1. g = [a EXCEPT !.r = "byte", !.i = 1]
      BY <1>9, <1>13, <2>4
    <3>2. g.r = "byte" /\ g.m = a.m /\ g.o = a.o /\ g.fin = a.fin /\ g.len = a.len /\ g.at = a.at
          /\ g.i = 1
      BY <1>8, <3>1 DEF PlaceType
    <3>3. g.i + n = g.len + 1 /\ g.o + g.i = Len(text) + 1
      <4>1. g.i + n = 1 + n /\ g.len + 1 = n + 1 /\ 1 + n = n + 1
        BY <1>7, <1>9, <3>2
      <4> QED BY <1>7, <3>2, <4>1
    <3>4. (g.i - 1) % 4 = 0
      BY <3>2
    <3> HIDE DEF n
    <3> QED BY <1>7, <1>12, <2>4, <3>2, <3>3, <3>4 DEF ReaderAt
  <2> QED BY <1>2, <2>1, <2>2, <2>3, <2>4
<1>18. Story(A)'
  BY <1>2, <1>5, <1>6, <1>17 DEF Story, g
<1> QED BY <1>2, <1>4, <1>14, <1>16, <1>18 DEF PInv

\* One turn of the payload loop, from frame f and text t to f2 and t2.
Turn(M, S, A, p, a, x, p2, f, m, t, bytes) ==
  /\ Reads(M, S, A, p, a, x, f.remain, p2, f) /\ bytes = Unmask(x, f)
  /\ ReaderAt(a, "payload", m, t, f) /\ TextAt(M, m, t, "payload")
  /\ f \in [fin : BOOLEAN, remain : Nat, key : 0..3, no : Nat]

\* The frame after n bytes of it were read,
Turned(f, n) == [f EXCEPT !.remain = f.remain - n, !.key = (@ + n) % 4]
\* and where read_frame goes on.
Then(f, n) == IF f.remain - n > 0 THEN "payload" ELSE IF f.fin THEN "done" ELSE "idle"

\* What is known of a turn.
TurnFacts(M, A, a, x, p2, f, m, t, bytes) ==
  /\ Unmasked(M, A, a, x, f.remain, p2, bytes)
  /\ a.m = m /\ a.fin = f.fin /\ a.i + f.remain = a.len + 1 /\ a.o + a.i = Len(t) + 1
  /\ f.no = a.at - 1 /\ f.key = (a.i - 1) % 4
  /\ a.m \in Nat /\ a.o \in Nat /\ a.at \in Nat /\ a.len \in Nat /\ a.i \in Nat /\ 1 <= a.i
  /\ Len(x) \in Nat /\ 1 <= Len(x) /\ Len(x) <= f.remain /\ f.remain \in Nat /\ Len(t) \in Nat

\* Indeed.
LEMMA TurnIs ==
  ASSUME NEW M, NEW S, NEW A, NEW p, NEW a, NEW x, NEW p2, NEW f, NEW m, NEW t, NEW bytes,
         Turn(M, S, A, p, a, x, p2, f, m, t, bytes)
  PROVE  TurnFacts(M, A, a, x, p2, f, m, t, bytes)
<1>1. Reads(M, S, A, p, a, x, f.remain, p2, f) /\ bytes = Unmask(x, f)
  BY DEF Turn
<1>2. Unmasked(M, A, a, x, f.remain, p2, bytes)
  BY <1>1, UnmaskGives
<1>3. /\ a.m = m /\ a.fin = f.fin /\ a.i + f.remain = a.len + 1 /\ a.o + a.i = Len(t) + 1
      /\ f.no = a.at - 1 /\ f.key = (a.i - 1) % 4
  BY DEF Turn, ReaderAt
<1>4. SaneByte(M, S, A, p + 1, a) /\ Len(x) \in Nat /\ 1 <= Len(x) /\ Len(x) <= f.remain
  BY <1>1 DEF Reads, Hands
<1>5. a.m \in Nat /\ a.o \in Nat /\ a.at \in Nat /\ a.len \in Nat /\ a.i \in Nat /\ 1 <= a.i
  BY <1>4, ByteSane
<1>6. f.remain \in Nat /\ Len(t) \in Nat
  BY DEF Turn, TextAt
<1> QED BY <1>2, <1>3, <1>4, <1>5, <1>6 DEF TurnFacts

\* The frame is one still.
LEMMA TurnFrame ==
  ASSUME NEW f \in [fin : BOOLEAN, remain : Nat, key : 0..3, no : Nat], NEW n \in Nat,
         n <= f.remain
  PROVE  /\ Turned(f, n) \in [fin : BOOLEAN, remain : Nat, key : 0..3, no : Nat]
         /\ Turned(f, n).fin = f.fin /\ Turned(f, n).remain = f.remain - n
         /\ Turned(f, n).no = f.no /\ Turned(f, n).key = (f.key + n) % 4
<1> DEFINE r == f.remain - n
           k == (f.key + n) % 4
<1>1. r \in Nat
  <2> DEFINE z == f.remain
  <2>1. z \in Nat /\ n <= z
    OBVIOUS
  <2> HIDE DEF z
  <2>2. z - n \in Nat
    BY <2>1
  <2> QED BY <2>2 DEF z
<1>2. k \in 0..3
  <2> DEFINE z == f.key
  <2>1. z \in 0..3
    OBVIOUS
  <2> HIDE DEF z
  <2>2. z + n \in Nat
    BY <2>1
  <2> QED BY <2>2, <2>1
<1>3. Turned(f, n) = [f EXCEPT !.remain = r, !.key = k]
  BY DEF Turned
<1> HIDE DEF r, k
<1>4. /\ Turned(f, n) \in [fin : BOOLEAN, remain : Nat, key : 0..3, no : Nat]
      /\ Turned(f, n).fin = f.fin /\ Turned(f, n).remain = r
      /\ Turned(f, n).no = f.no /\ Turned(f, n).key = k
  BY <1>1, <1>2, <1>3
<1> QED BY <1>4 DEF r, k

\* What was committed is a beginning of the message still.
LEMMA TurnText ==
  ASSUME NEW M, NEW S, NEW A, NEW p, NEW a, NEW x, NEW p2, NEW f, NEW m, NEW t, NEW bytes,
         Turn(M, S, A, p, a, x, p2, f, m, t, bytes)
  PROVE  /\ TextAt(M, m, t \o bytes, Then(f, Len(x))) /\ Len(t \o bytes) = Len(t) + Len(x)
         /\ bytes \in Seq(Byte) /\ Len(bytes) = Len(x)
<1> DEFINE X == Flat(M[m])
           l == Len(t)
           n == Len(x)
           i == a.i
           o == a.o
<1>1. /\ Unmasked(M, A, a, x, f.remain, p2, bytes) /\ a.m = m /\ o + i = l + 1
      /\ n \in Nat /\ 1 <= n /\ n <= f.remain /\ f.remain \in Nat /\ l \in Nat /\ a.fin = f.fin
  BY TurnIs DEF TurnFacts
<1>2. m \in 1..Len(M) /\ t \in Seq(Byte) /\ t = SubSeq(X, 1, l) /\ M \in Seq(Seq(Seq(Byte)))
      /\ f.fin \in BOOLEAN
  BY DEF Turn, TextAt, Reads
<1>3. X \in Seq(Byte) /\ Len(X) \in Nat
  BY <1>2, MessageIs
<1>4. /\ bytes \in Seq(Byte) /\ Len(bytes) = n /\ (o + i) + n <= Len(X) + 1
      /\ \A j \in 1..n : bytes[j] = X[((o + i) - 1) + j]
      /\ n = f.remain => (f.fin => (o + i) + n = Len(X) + 1)
  BY <1>1 DEF Unmasked
<1> HIDE DEF X, o, i
<1>5. /\ l + n <= Len(X) /\ \A j \in 1..n : bytes[j] = X[l + j]
      /\ n = f.remain => (f.fin => l + n = Len(X))
  <2> DEFINE z == Len(X)
             y == o + i
  <2>1. y = l + 1 /\ z \in Nat /\ l \in Nat /\ n \in Nat /\ y + n <= z + 1
    BY <1>1, <1>3, <1>4
  <2>2. \A j \in 1..n : bytes[j] = X[(y - 1) + j]
    BY <1>4
  <2>3. n = f.remain => (f.fin => y + n = z + 1)
    BY <1>4
  <2> HIDE DEF z, l, n, y
  <2>4. l + n <= z /\ y - 1 = l
    BY <2>1
  <2>5. n = f.remain => (f.fin => l + n = z)
    BY <2>1, <2>3
  <2> QED BY <2>2, <2>4, <2>5 DEF z
<1>6. t \o bytes = SubSeq(X, 1, l + n)
  <2>1. \A j \in 1..Len(bytes) : bytes[j] = X[Len(t) + j]
    BY <1>4, <1>5
  <2>2. Len(t) + Len(bytes) <= Len(X)
    BY <1>4, <1>5
  <2>3. t = SubSeq(X, 1, Len(t)) /\ Len(t) \in Nat
    BY <1>1, <1>2
  <2>4. t \o bytes = SubSeq(X, 1, Len(t) + Len(bytes))
    BY <1>3, <1>4, <2>1, <2>2, <2>3, FrontGrows
  <2> QED BY <1>4, <2>4
<1>7. t \o bytes \in Seq(Byte) /\ Len(t \o bytes) = l + n
  <2>1. t \o bytes \in Seq(Byte) /\ Len(t \o bytes) = Len(t) + Len(bytes)
    <3>1. t \in Seq(Byte) /\ bytes \in Seq(Byte)
      BY <1>2, <1>4
    <3> QED BY ONLY <3>1
  <2> QED BY <1>4, <2>1
<1> DEFINE u == t \o bytes
<1>8. Then(f, n) = "done" => u = X
  <2> SUFFICES ASSUME Then(f, n) = "done" PROVE u = X
    OBVIOUS
  <2> DEFINE r == f.remain
  <2>1. f.fin /\ ~(r - n > 0)
    BY DEF Then
  <2>2. n = r
    <3> HIDE DEF r, n
    <3> QED BY <1>1, <2>1 DEF r
  <2>3. l + n = Len(X)
    BY <1>5, <2>1, <2>2
  <2>4. u = SubSeq(X, 1, Len(X))
    BY <1>6, <2>3
  <2> HIDE DEF u
  <2> QED BY <1>3, <2>4
<1>9. u \in Seq(Byte) /\ Len(u) = l + n /\ u = SubSeq(X, 1, Len(u)) /\ Len(u) <= Len(X)
  BY <1>5, <1>6, <1>7
<1> HIDE DEF u
<1>10. TextAt(M, m, u, Then(f, n))
  BY <1>2, <1>8, <1>9 DEF TextAt, X
<1> QED BY <1>4, <1>9, <1>10 DEF u

\* The reader stands behind the bytes it was given.
LEMMA TurnReader ==
  ASSUME NEW M, NEW S, NEW A, NEW p, NEW a, NEW x, NEW p2, NEW f, NEW m, NEW t, NEW bytes,
         Turn(M, S, A, p, a, x, p2, f, m, t, bytes)
  PROVE  ReaderAt(A[p2 + 1], Then(f, Len(x)), m, t \o bytes, Turned(f, Len(x)))
<1> DEFINE n == Len(x)
           l == Len(t)
           i == a.i
           o == a.o
           L == a.len
           r == f.remain
           g == A[p2 + 1]
           F == Turned(f, n)
           u == t \o bytes
<1>1. /\ Unmasked(M, A, a, x, r, p2, bytes)
      /\ a.m = m /\ a.fin = f.fin /\ i + r = L + 1 /\ o + i = l + 1
      /\ f.no = a.at - 1 /\ f.key = (i - 1) % 4
      /\ a.m \in Nat /\ o \in Nat /\ a.at \in Nat /\ L \in Nat /\ i \in Nat /\ 1 <= i
      /\ n \in Nat /\ 1 <= n /\ n <= r /\ r \in Nat /\ l \in Nat
  BY TurnIs DEF TurnFacts
<1>2. f \in [fin : BOOLEAN, remain : Nat, key : 0..3, no : Nat]
  BY DEF Turn
<1>3. F.fin = f.fin /\ F.remain = r - n /\ F.no = f.no /\ F.key = (f.key + n) % 4
  <2> HIDE DEF n
  <2> QED BY <1>1, <1>2, TurnFrame
<1>4. Len(u) = l + n
  BY TurnText
<1>5. (n < r => ByteAt(a, g, n)) /\ (n = r => g = After(a))
  BY <1>1 DEF Unmasked
<1> HIDE DEF g, F, u, n, l, i, o, L, r
<1>6. CASE n < r
  <2>1. g.r = "byte" /\ g.m = a.m /\ g.at = a.at /\ g.fin = a.fin /\ g.len = L /\ g.o = o
        /\ g.i = i + n
    BY <1>5, <1>6 DEF ByteAt, L, o, i
  <2>2. (i + n) + (r - n) = L + 1 /\ o + (i + n) = (l + n) + 1 /\ r - n > 0
        /\ (i + n) - 1 = (i - 1) + n /\ i - 1 \in Nat
    BY <1>1, <1>6
  <2>3. ((i + n) - 1) % 4 = (f.key + n) % 4
    <3> DEFINE y == i - 1
    <3>1. y \in Nat
      BY <2>2
    <3> HIDE DEF y
    <3>2. (y + n) % 4 = ((y % 4) + n) % 4
      BY <1>1, <3>1, Rotate
    <3>3. y = i - 1
      BY DEF y
    <3> QED BY <1>1, <2>2, <3>2, <3>3
  <2>4. Then(f, n) = "payload"
    BY <2>2 DEF Then, r
  <2>5. g.i + F.remain = g.len + 1 /\ g.o + g.i = Len(u) + 1 /\ F.key = (g.i - 1) % 4
    BY <1>3, <1>4, <2>1, <2>2, <2>3
  <2>6. ReaderAt(g, "payload", m, u, F)
    BY <1>1, <1>3, <2>1, <2>5 DEF ReaderAt
  <2> QED BY <2>4, <2>6 DEF g, u, F, n
<1>7. CASE n = r
  <2>1. g = After(a) /\ ~(r - n > 0)
    BY <1>1, <1>5, <1>7
  <2>2. CASE f.fin
    <3>1. Then(f, n) = "done"
      BY <2>1, <2>2 DEF Then, r
    <3>2. g = HeadAt(m + 1, 0)
      BY <1>1, <2>1, <2>2 DEF After
    <3>3. g.r = "head" /\ g.m = m + 1 /\ g.o = 0
      BY <3>2 DEF HeadAt
    <3>4. ReaderAt(g, "done", m, u, F)
      BY <3>3 DEF ReaderAt
    <3> QED BY <3>1, <3>4 DEF g, u, F, n
  <2>3. CASE ~f.fin
    <3>1. Then(f, n) = "idle"
      BY <2>1, <2>3 DEF Then, r
    <3>2. g = HeadAt(m, o + L)
      BY <1>1, <2>1, <2>3 DEF After, o, L
    <3>3. o + L = l + n
      BY <1>1, <1>7
    <3>4. g.r = "head" /\ g.m = m /\ g.o = Len(u)
      BY <1>4, <3>2, <3>3 DEF HeadAt
    <3>5. ReaderAt(g, "idle", m, u, F)
      BY <3>4 DEF ReaderAt
    <3> QED BY <3>1, <3>5 DEF g, u, F, n
  <2> QED BY <2>2, <2>3
<1>8. n < r \/ n = r
  BY <1>1
<1> QED BY <1>6, <1>7, <1>8

\* The caller's buffer holds what it held and the bytes, or what it held.
LEMMA TurnBuffer ==
  ASSUME NEW b, NEW t \in Seq(Byte), NEW k, BufferAt(b, t, k), NEW n \in Nat,
         ~db_throws(b, n), NEW s \in Seq(Byte), Len(s) <= n
  PROVE  /\ BufferAt(db_commit(Poured(b, s, n), Len(s)), t \o s, k)
         /\ BufferAt(Poured(b, s, n), t, k)
         /\ Poured(b, s, n).kind = b.kind
<1> DEFINE l == Len(t)
           z == Len(s)
           c == db_commit(Poured(b, s, n), z)
           h == Poured(b, s, n)
           u == t \o s
<1>1. l \in Nat /\ z \in Nat /\ z <= n
  OBVIOUS
<1>2. u \in Seq(Byte) /\ Len(u) = l + z
  OBVIOUS
<1>3. /\ Sound(DbCell, b) /\ k \in 0..l /\ db_data(b) = SubSeq(t, k + 1, l)
      /\ b.kind # "streambuf" => Spent(b) = l
  BY DEF BufferAt
<1>4. s \in Seq(DbCell) /\ Raw \in DbCell
  BY DEF DbCell
<1> HIDE DEF u, c, h
<1>5. Writes(DbCell, b, s, n)
  BY <1>1, <1>3, <1>4 DEF Writes
<1>6. Keeps(DbCell, b, h) /\ Appends(DbCell, b, c, s)
  BY <1>5, DbAppends DEF c, h
<1>7. BufferAt(h, t, k) /\ h.kind = b.kind
  <2>1. /\ Sound(DbCell, h) /\ h.kind = b.kind /\ db_data(h) = db_data(b)
        /\ b.kind # "streambuf" => Spent(h) = Spent(b)
    BY <1>6 DEF Keeps
  <2> QED BY <1>3, <2>1 DEF BufferAt
<1>8. BufferAt(c, u, k)
  <2>1. /\ Sound(DbCell, c) /\ c.kind = b.kind /\ db_data(c) = db_data(b) \o s
        /\ b.kind # "streambuf" => Spent(c) = Spent(b) + z
    BY <1>6 DEF Appends
  <2>2. db_data(c) = SubSeq(u, k + 1, l + z)
    <3>1. SubSeq(t, k + 1, l) \o s = SubSeq(u, k + 1, l + z)
      BY <1>3, LeftGrows DEF u
    <3> QED BY <1>3, <2>1, <3>1
  <2>3. k \in 0..Len(u)
    <3> HIDE DEF l, z
    <3> QED BY <1>1, <1>2, <1>3
  <2> HIDE DEF l, z
  <2> QED BY <1>2, <1>3, <2>1, <2>2, <2>3 DEF BufferAt
<1> QED BY <1>7, <1>8 DEF c, h, u

\* What read_some hands out in the payload loop makes a turn of it.
LEMMA PayloadTurn ==
  ASSUME PInv, pc = "payload", NEW x, ReadSome(fr.remain, x), NEW A, Story(A)
  PROVE  /\ Flows(sent, wire', pos', sb') /\ Hands(sent, pos, x, fr.remain, pos')
         /\ Turn(case.msgs, sent, A, pos, A[pos + 1], x, pos', fr, cur, text, Unmask(x, fr))
         /\ fr.remain \in Nat /\ fr.remain >= 1 /\ Len(x) \in Nat /\ Len(x) <= fr.remain
<1> DEFINE M == case.msgs
           r == fr.remain
           a == A[pos + 1]
<1>1. case.cap \in Nat /\ M \in Seq(Seq(Seq(Byte)))
  BY CaseIs DEF PInv
<1>2. /\ fr \in [fin : BOOLEAN, remain : Nat, key : 0..3, no : Nat]
      /\ TextAt(M, cur, text, "payload") /\ Flows(sent, wire, pos, sb)
  BY DEF PInv, EndsAt
<1>3. /\ Ledger(M, sent, A) /\ ReaderAt(a, "payload", cur, text, fr)
      /\ Len(sent) \in Nat /\ pos \in Nat /\ pos <= Len(sent)
  BY <1>2 DEF Story, Flows
<1>4. SaneByte(M, sent, A, pos + 1, a)
  <2>1. a.r = "byte"
    BY <1>3 DEF ReaderAt
  <2>2. pos + 1 \in 1..(Len(sent) + 1)
    BY <1>3
  <2> QED BY <1>3, <2>1, <2>2 DEF SaneByte
<1>5. r = (a.len - a.i) + 1 /\ r >= 1 /\ r \in Nat
  <2>1. a.len \in Nat /\ a.i \in Nat /\ a.i <= a.len
    BY <1>4, ByteSane
  <2>2. a.i + r = a.len + 1 /\ r \in Nat
    BY <1>2, <1>3 DEF ReaderAt
  <2> DEFINE l == a.len
             i == a.i
  <2> HIDE DEF r, l, i, a
  <2>3. l \in Nat /\ i \in Nat /\ i <= l /\ i + r = l + 1
    BY <2>1, <2>2 DEF l, i
  <2>4. r = (l - i) + 1 /\ r >= 1
    BY <2>2, <2>3
  <2> QED BY <2>2, <2>4 DEF l, i
<1>6. Flows(sent, wire', pos', sb') /\ Hands(sent, pos, x, r, pos')
  <2>1. ReadSome(r, x)
    OBVIOUS
  <2> HIDE DEF r
  <2> QED BY <1>1, <1>2, <1>5, <2>1, TakeHands
<1>7. Turn(M, sent, A, pos, a, x, pos', fr, cur, text, Unmask(x, fr))
  <2>1. fr.no = a.at - 1 /\ fr.key = (a.i - 1) % 4
    BY <1>3 DEF ReaderAt
  <2>2. Reads(M, sent, A, pos, a, x, r, pos', fr)
    BY <1>1, <1>3, <1>4, <1>5, <1>6, <2>1 DEF Reads
  <2> QED BY <1>2, <1>3, <2>2 DEF Turn
<1>8. Len(x) \in Nat /\ Len(x) <= r
  BY <1>6 DEF Hands
<1> QED BY <1>5, <1>6, <1>7, <1>8

\* The payload loop.
LEMMA ReadPayloadStep == PInv /\ ReadPayload => PInv'
<1> SUFFICES ASSUME PInv, ReadPayload PROVE PInv'
  OBVIOUS
<1> DEFINE M == case.msgs
           r == fr.remain
<1>1. PICK x : LET bytes == Unmask(x, fr)
                   n     == Len(x)
               IN  /\ ReadSome(r, x)
                   /\ fr' = [fr EXCEPT !.remain = r - n, !.key = (@ + n) % 4]
                   /\ \/ /\ db' = db_commit(db_fill(db_prepare(db, r), bytes), n)
                         /\ text' = text \o bytes
                         /\ pc' = Then(fr, n) /\ verdict' = verdict
                      \/ /\ db' = db_fill(db_prepare(db, r), bytes)
                         /\ text' = text /\ pc' = "failed" /\ verdict' = "bad_payload"
  BY DEF ReadPayload, Then
<1> DEFINE n == Len(x)
           bytes == Unmask(x, fr)
<1>2. /\ pc = "payload" /\ ~db_throws(db, r) /\ case' = case /\ sent' = sent
      /\ msg' = msg /\ cb' = cb /\ cur' = cur /\ taken' = taken
  BY DEF ReadPayload, client
<1>3. PICK A : Story(A)
  BY DEF PInv
<1> DEFINE a == A[pos + 1]
<1>4. /\ fr \in [fin : BOOLEAN, remain : Nat, key : 0..3, no : Nat] /\ verdict = "none"
      /\ TextAt(M, cur, text, "payload") /\ BufferAt(db, text, taken)
  BY <1>2 DEF PInv, EndsAt
<1>5. Ledger(M, sent, A)
  BY <1>3 DEF Story
<1>6. /\ Flows(sent, wire', pos', sb') /\ Hands(sent, pos, x, r, pos') /\ r \in Nat
      /\ Turn(M, sent, A, pos, a, x, pos', fr, cur, text, bytes)
  BY <1>1, <1>2, <1>3, PayloadTurn
<1>7. /\ TextAt(M, cur, text \o bytes, Then(fr, n)) /\ bytes \in Seq(Byte) /\ Len(bytes) = n
       /\ ReaderAt(A[pos' + 1], Then(fr, n), cur, text \o bytes, Turned(fr, n))
  BY <1>6, TurnText, TurnReader
<1>8. n \in Nat /\ n <= r
  BY <1>6 DEF Hands
<1>9. fr' = Turned(fr, n) /\ fr' \in [fin : BOOLEAN, remain : Nat, key : 0..3, no : Nat]
  <2>1. fr' = Turned(fr, n)
    BY <1>1 DEF Turned
  <2> HIDE DEF n
  <2> QED BY <1>4, <1>8, <2>1, TurnFrame
<1>10. /\ BufferAt(db_commit(Poured(db, bytes, r), n), text \o bytes, taken)
       /\ BufferAt(Poured(db, bytes, r), text, taken)
  <2>1. text \in Seq(Byte)
    BY <1>4 DEF TextAt
  <2> HIDE DEF n, bytes, r
  <2> QED BY <1>2, <1>4, <1>6, <1>7, <1>8, <2>1, TurnBuffer
<1> HIDE DEF bytes, n, r, a, M
<1>11. Story(A)' /\ TextAt(case.msgs, cur, text, pc)' /\ BufferAt(db, text, taken)'
       /\ EndsAt(pc, fr, verdict, text, db)'
  <2>1. CASE /\ db' = db_commit(Poured(db, bytes, r), n)
             /\ text' = text \o bytes
             /\ pc' = Then(fr, n) /\ verdict' = verdict
    <3>1. ReaderAt(A[pos' + 1], pc', cur, text', fr')
      BY <1>7, <1>9, <2>1
    <3>2. ClientAt(M, A[Len(sent) + 1], msg, cb)
      BY <1>3 DEF Story, M
    <3>3. Story(A)'
      BY <1>2, <1>5, <3>1, <3>2 DEF Story, M
    <3>4. TextAt(case.msgs, cur, text, pc)'
      BY <1>2, <1>7, <2>1 DEF M
    <3>5. BufferAt(db, text, taken)'
      BY <1>2, <1>10, <2>1
    <3>6. pc' \in {"payload", "done", "idle"} /\ verdict' = "none"
      BY <1>4, <2>1 DEF Then
    <3>7. EndsAt(pc, fr, verdict, text, db)'
      BY <1>9, <3>6 DEF EndsAt
    <3> QED BY <3>3, <3>4, <3>5, <3>7
  <2>2. CASE /\ db' = Poured(db, bytes, r)
             /\ text' = text /\ pc' = "failed" /\ verdict' = "bad_payload"
    <3>1. ReaderAt(A[pos' + 1], pc', cur, text', fr')
      BY <2>2 DEF ReaderAt
    <3>2. ClientAt(M, A[Len(sent) + 1], msg, cb)
      BY <1>3 DEF Story, M
    <3>3. Story(A)'
      BY <1>2, <1>5, <3>1, <3>2 DEF Story, M
    <3>4. TextAt(case.msgs, cur, text, pc)'
      BY <1>2, <1>4, <2>2 DEF M, TextAt
    <3>5. BufferAt(db, text, taken)'
      BY <1>2, <1>10, <2>2
    <3>7. EndsAt(pc, fr, verdict, text, db)'
      BY <1>9, <2>2 DEF EndsAt
    <3> QED BY <3>3, <3>4, <3>5, <3>7
  <2> QED BY <1>1, <2>1, <2>2 DEF Poured, bytes, n, r
<1>12. Flows(sent, wire, pos, sb)'
  BY <1>2, <1>6
<1>13. (case \in Cases)'
  BY <1>2 DEF PInv
<1> QED BY <1>11, <1>12, <1>13 DEF PInv

-----------------------------------------------------------------------------

\* PInv holds of every reachable state, whatever the messages, the frames the
\* client cuts them into, the buffers of either side and the capacity of stream_:
\* a ledger can be kept of where each cell sent belongs, and stream_, read_frame
\* and the buffer of the caller agree with it.
THEOREM PayloadInductive == Spec => []PInv
<1>1. ASSUME PInv, [Next]_pvars PROVE PInv'
  <2>1. CASE SendFrame
    BY <1>1, <2>1, SendStep
  <2>2. CASE Call
    BY <1>1, <2>2, CallStep
  <2>3. CASE ReadHead
    BY <1>1, <2>3, ReadHeadStep
  <2>4. CASE ReadKey
    BY <1>1, <2>4, ReadKeyStep
  <2>5. CASE ReadPayload
    BY <1>1, <2>5, ReadPayloadStep
  <2>6. CASE Overflow
    BY <1>1, <2>6, OverflowStep
  <2>7. CASE NextMessage
    BY <1>1, <2>7, NextMessageStep
  <2>8. CASE CallerConsumes
    BY <1>1, <2>8, ConsumesStep
  <2>9. CASE Reconnect
    BY <1>1, <2>9, ReconnectStep
  <2>10. CASE UNCHANGED pvars
    <3>1. /\ case' = case /\ msg' = msg /\ cb' = cb /\ sent' = sent /\ wire' = wire /\ pos' = pos
          /\ sb' = sb /\ fr' = fr /\ pc' = pc /\ text' = text /\ cur' = cur /\ verdict' = verdict
          /\ db' = db /\ taken' = taken
      BY <2>10 DEF pvars, client, reader
    <3>2. PICK A : Story(A)
      BY <1>1 DEF PInv
    <3>3. Story(A)'
      BY <3>1, <3>2 DEF Story
    <3>4. /\ Flows(sent, wire, pos, sb)' /\ TextAt(case.msgs, cur, text, pc)'
          /\ BufferAt(db, text, taken)' /\ EndsAt(pc, fr, verdict, text, db)' /\ (case \in Cases)'
      BY <1>1, <3>1 DEF PInv
    <3> QED BY <3>3, <3>4 DEF PInv
  <2> QED BY <1>1, <2>1, <2>2, <2>3, <2>4, <2>5, <2>6, <2>7, <2>8, <2>9, <2>10 DEF Next
<1> QED BY PInvInit, <1>1, PTL DEF Spec

-----------------------------------------------------------------------------

\* Every assertion of basic_streambuf::debug_check() holds of stream_'s buffer and
\* of the caller's, and size() is the size of data(), after any reads, commits,
\* consumes and reconnections.
THEOREM BuffersStaySound == Spec => []BuffersSound
<1>1. ASSUME PInv PROVE BuffersSound
  <2>1. Shaped(Cell, sb) /\ Sound(DbCell, db)
    BY <1>1 DEF PInv, Flows, BufferAt
  <2>2. DebugCheck(sb)
    BY <2>1, ShapedIsSound
  <2>3. db.kind = "streambuf" => DebugCheck(db.sb)
    <3> SUFFICES ASSUME db.kind = "streambuf" PROVE DebugCheck(db.sb)
      OBVIOUS
    <3>1. Shaped(DbCell, db.sb)
      BY <2>1, KindIs DEF Streamed
    <3> QED BY <3>1, ShapedIsSound
  <2>4. db_size(db) = Len(db_data(db))
    BY <2>1, DbHolds DEF Holds
  <2> QED BY <2>2, <2>3, <2>4 DEF BuffersSound
<1> QED BY PayloadInductive, <1>1, PTL

\* A read throws length_error only when the frame does not fit behind all that was
\* ever committed (static_streambuf::prepare, buffers_adapter::prepare).
THEOREM ThrowsForRoom == Spec => []ThrowsOnlyWhenSpent
<1>1. ASSUME PInv PROVE ThrowsOnlyWhenSpent
  <2> SUFFICES ASSUME verdict = "length_error"
               PROVE  Len(text) + fr.remain >
                        IF db.kind = "static" THEN Len(db.cells)
                        ELSE SumFunction([i \in 1..Len(db.bs) |-> Len(db.bs[i])])
    BY DEF ThrowsOnlyWhenSpent
  <2>1. db.kind # "streambuf" /\ Len(text) + fr.remain > Space(db)
    BY <1>1 DEF PInv, EndsAt
  <2>2. Space(db) = IF db.kind = "static" THEN Len(db.cells)
                    ELSE SumFunction([i \in 1..Len(db.bs) |-> Len(db.bs[i])])
    BY DEF Space, Off
  <2> QED BY <2>1, <2>2
<1> QED BY PayloadInductive, <1>1, PTL

\* The caller's buffer holds, but for what the caller consumed, a beginning of the
\* message that was sent, and all of it when read_frame reports its end; nothing
\* stream_ read ahead is lost, doubled or out of order (dynabuf_readstream, read_frame).
THEOREM Delivers == Spec => []DeliversInOrder
<1>1. ASSUME PInv PROVE DeliversInOrder
  <2>1. Flat(Data(sb)) \o wire = SubSeq(sent, pos + 1, Len(sent))
    <3>1. Shaped(Cell, sb) /\ View(sb) \o wire = SubSeq(sent, pos + 1, Len(sent))
      BY <1>1 DEF PInv, Flows
    <3>2. Flat(Data(sb)) = View(sb)
      BY <3>1, DataIs
    <3> QED BY <3>1, <3>2
  <2>2. SubSeq(text, taken + 1, Len(text)) = db_data(db)
    BY <1>1 DEF PInv, BufferAt
  <2>3. text = SubSeq(Content(cur), 1, Len(text)) /\ (pc = "done" => text = Content(cur))
    BY <1>1 DEF PInv, TextAt, Content
  <2> QED BY <2>1, <2>2, <2>3 DEF DeliversInOrder
<1> QED BY PayloadInductive, <1>1, PTL

-----------------------------------------------------------------------------
(* utf8_checker: the text that write() takes, in whatever pieces, is       *)
(* malformed exactly when it says so.                                      *)

\* One byte further.
Goes(e, b) ==
  IF e = <<>> THEN Lead(b)
  ELSE IF b \in e[1][1]..e[1][2] THEN Tail(e) ELSE <<<<1, 0>>>>

\* The recursion of Expected.
Walks(X, n, f) == f = [i \in 0..n |-> IF i = 0 THEN <<>> ELSE Goes(f[i-1], X[i])]

\* Some function satisfies that recursion.
LEMMA WalkExists == ASSUME NEW X, NEW n \in Nat PROVE \E f : Walks(X, n, f)
<1> DEFINE S == {m \in Nat : \E f : Walks(X, m, f)}
<1>1. 0 \in S
  <2>1. Walks(X, 0, [i \in 0..0 |-> <<>>])
    BY DEF Walks
  <2> QED BY <2>1
<1>2. ASSUME NEW m \in Nat, m \in S PROVE m + 1 \in S
  <2>1. PICK f : Walks(X, m, f)
    BY <1>2
  <2> DEFINE g == [i \in 0..(m+1) |-> IF i = m + 1 THEN Goes(f[m], X[m+1]) ELSE f[i]]
  <2>2. \A i \in 0..m : f[i] = IF i = 0 THEN <<>> ELSE Goes(f[i-1], X[i])
    BY <2>1 DEF Walks
  <2>3. \A i \in 0..(m+1) : g[i] = IF i = 0 THEN <<>> ELSE Goes(g[i-1], X[i])
    <3> TAKE i \in 0..(m+1)
    <3>1. CASE i = m + 1
      <4>1. g[i] = Goes(f[m], X[m+1]) /\ i - 1 = m /\ g[m] = f[m] /\ i # 0
        BY <3>1
      <4> HIDE DEF g
      <4> QED BY <3>1, <4>1
    <3>2. CASE i # m + 1
      <4>1. i \in 0..m /\ g[i] = f[i] /\ (i # 0 => i - 1 \in 0..m /\ g[i-1] = f[i-1])
        BY <3>2
      <4> HIDE DEF g
      <4> QED BY <2>2, <4>1
    <3> QED BY <3>1, <3>2
  <2>4. Walks(X, m + 1, g)
    <3>1. g = [i \in 0..(m+1) |-> g[i]]
      OBVIOUS
    <3> HIDE DEF g
    <3>2. [i \in 0..(m+1) |-> g[i]] = [i \in 0..(m+1) |-> IF i = 0 THEN <<>> ELSE Goes(g[i-1], X[i])]
      BY <2>3
    <3> QED BY <3>1, <3>2, Zenon DEF Walks
  <2> HIDE DEF g
  <2> QED BY <2>4
<1>3. S = Nat
  <2>1. S \in SUBSET Nat
    OBVIOUS
  <2> HIDE DEF S
  <2> QED BY <1>1, <1>2, <2>1, Induct
<1> QED BY <1>3

\* Two walks agree as long as the bytes do.
LEMMA WalksAgree ==
  ASSUME NEW X, NEW Y, NEW m \in Nat, NEW n \in Nat, NEW f, Walks(X, m, f), NEW g, Walks(Y, n, g),
         NEW k \in Nat, k <= m, k <= n, \A i \in 1..k : X[i] = Y[i]
  PROVE  f[k] = g[k]
<1> DEFINE S == {j \in Nat : j <= k => f[j] = g[j]}
<1>1. /\ \A i \in 0..m : f[i] = IF i = 0 THEN <<>> ELSE Goes(f[i-1], X[i])
      /\ \A i \in 0..n : g[i] = IF i = 0 THEN <<>> ELSE Goes(g[i-1], Y[i])
  BY DEF Walks
<1>2. 0 \in S
  BY <1>1
<1>3. ASSUME NEW j \in Nat, j \in S PROVE j + 1 \in S
  <2> SUFFICES ASSUME j + 1 <= k PROVE f[j+1] = g[j+1]
    OBVIOUS
  <2>1. f[j] = g[j]
    BY <1>3
  <2>2. j + 1 \in 0..m /\ j + 1 \in 0..n /\ j + 1 \in 1..k /\ j + 1 # 0 /\ (j + 1) - 1 = j
    OBVIOUS
  <2>3. f[j+1] = Goes(f[j], X[j+1]) /\ g[j+1] = Goes(g[j], Y[j+1])
    BY <1>1, <2>2
  <2> QED BY <2>1, <2>2, <2>3
<1>4. S = Nat
  <2>1. S \in SUBSET Nat
    OBVIOUS
  <2> HIDE DEF S
  <2> QED BY <1>2, <1>3, <2>1, Induct
<1> QED BY <1>4

\* Expected is that walk at its end.
LEMMA ExpectedWalks == ASSUME NEW X PROVE Expected(X) = (CHOOSE f : Walks(X, Len(X), f))[Len(X)]
BY DEF Expected, Walks, Goes

\* What is expected behind the first i bytes.
Awaits(X, i) == Expected(SubSeq(X, 1, i))

\* Nothing is expected at the start, each byte takes what is expected one further,
\* and behind all of X it is what Expected says.
LEMMA AwaitsIs ==
  ASSUME NEW X \in Seq(Byte)
  PROVE  /\ Awaits(X, 0) = <<>>
         /\ \A i \in 1..Len(X) : Awaits(X, i) = Goes(Awaits(X, i-1), X[i])
         /\ Awaits(X, Len(X)) = Expected(X)
<1> DEFINE n == Len(X)
<1>1. n \in Nat
  OBVIOUS
<1>2. PICK f : Walks(X, n, f)
  BY <1>1, WalkExists
<1>3. ASSUME NEW i \in 0..n PROVE Awaits(X, i) = f[i]
  <2> DEFINE Y == SubSeq(X, 1, i)
  <2>1. Len(Y) = i /\ \A j \in 1..i : Y[j] = X[j]
    OBVIOUS
  <2> DEFINE g == CHOOSE h : Walks(Y, i, h)
  <2>2. i \in Nat
    OBVIOUS
  <2> HIDE DEF Y
  <2>3. Walks(Y, i, g)
    BY <2>2, WalkExists
  <2> HIDE DEF g, n
  <2>4. g[i] = f[i]
    BY <1>1, <1>2, <2>1, <2>2, <2>3, WalksAgree
  <2>5. Expected(Y) = g[i]
    BY <2>1, ExpectedWalks DEF g
  <2> QED BY <2>4, <2>5 DEF Awaits, Y
<1>4. \A i \in 0..n : f[i] = IF i = 0 THEN <<>> ELSE Goes(f[i-1], X[i])
  BY <1>2 DEF Walks
<1>5. ASSUME NEW i \in 1..n PROVE Awaits(X, i) = Goes(Awaits(X, i-1), X[i])
  <2>1. i \in 0..n /\ i - 1 \in 0..n /\ i # 0
    BY <1>1
  <2> HIDE DEF n
  <2> QED BY <1>3, <1>4, <2>1
<1>6. Awaits(X, 0) = <<>>
  <2>1. 0 \in 0..n
    BY <1>1
  <2> HIDE DEF n
  <2> QED BY <1>3, <1>4, <2>1
<1>7. SubSeq(X, 1, n) = X
  OBVIOUS
<1> QED BY <1>5, <1>6, <1>7 DEF Awaits

-----------------------------------------------------------------------------
\* What follows malformed text,
Bad == <<<<1, 0>>>>
\* and the range of the second byte.
Ran(b) ==
  IF b = 224 THEN <<160, 191>> ELSE IF b = 237 THEN <<128, 159>>
  ELSE IF b = 240 THEN <<144, 191>> ELSE IF b = 244 THEN <<128, 143>> ELSE T
In(b, r) == b \in r[1]..r[2]

\* What Lead expects, by the class of the first byte of a code point.
LEMMA LeadIs ==
  ASSUME NEW b \in Byte
  PROVE  /\ b < 128 => Lead(b) = <<>>
         /\ b \in 194..223 => Lead(b) = <<T>>
         /\ b \in 224..239 => Lead(b) = <<Ran(b), T>>
         /\ b \in 240..244 => Lead(b) = <<Ran(b), T, T>>
         /\ b >= 128 /\ b \notin 194..244 => Lead(b) = Bad
<1>1. b < 128 => Lead(b) = <<>>
  BY DEF Lead, Byte
<1>2. b \in 194..223 => Lead(b) = <<T>>
  BY DEF Lead, Byte
<1>3. b \in 224..239 => Lead(b) = <<Ran(b), T>>
  <2>1. b = 224 => Lead(b) = <<<<160, 191>>, T>>
    BY DEF Lead
  <2>2. b = 237 => Lead(b) = <<<<128, 159>>, T>>
    BY DEF Lead
  <2>3. b \in 225..239 \ {237} => Lead(b) = <<T, T>>
    <3> SUFFICES ASSUME b \in 225..239 \ {237} PROVE Lead(b) = <<T, T>>
      OBVIOUS
    <3>1. ~(b < 128) /\ b \notin 194..223 /\ b # 224 /\ b # 237
      OBVIOUS
    <3> QED BY <3>1 DEF Lead
  <2> QED BY <2>1, <2>2, <2>3 DEF Ran
<1>4. b \in 240..244 => Lead(b) = <<Ran(b), T, T>>
  <2>1. b = 240 => Lead(b) = <<<<144, 191>>, T, T>>
    BY DEF Lead
  <2>2. b = 244 => Lead(b) = <<<<128, 143>>, T, T>>
    BY DEF Lead
  <2>3. b \in 241..243 => Lead(b) = <<T, T, T>>
    BY DEF Lead
  <2> QED BY <2>1, <2>2, <2>3 DEF Ran
<1>5. b >= 128 /\ b \notin 194..244 => Lead(b) = Bad
  <2> SUFFICES ASSUME b >= 128, b \notin 194..244 PROVE Lead(b) = Bad
    OBVIOUS
  <2>1. /\ ~(b < 128) /\ b \notin 194..223 /\ b # 224 /\ b # 237 /\ b \notin 225..239 \ {237}
        /\ b # 240 /\ b # 244 /\ b \notin 241..243
    BY DEF Byte
  <2> QED BY <2>1 DEF Lead, Bad
<1> QED BY <1>1, <1>2, <1>3, <1>4, <1>5

\* Second says that the second byte lies in the range Ran has for the first.
LEMMA RangeIs ==
  ASSUME NEW b \in Byte, NEW l \in 224..244
  PROVE  Second(l, b) <=> In(b, Ran(l))
BY DEF Second, Tail6, In, Ran, T, Byte

\* Tail6 says that a byte lies in the range of the third and fourth.
LEMMA TailRange == ASSUME NEW b \in Byte PROVE Tail6(b) <=> In(b, T)
BY DEF Tail6, In, T, Byte

\* Where nothing is expected a code point begins.
LEMMA GoesFirst == ASSUME NEW b PROVE Goes(<<>>, b) = Lead(b)
BY DEF Goes

\* One byte before the end of a code point: the byte ends it or is wrong.
LEMMA GoesLast == ASSUME NEW r, NEW b PROVE Goes(<<r>>, b) = IF In(b, r) THEN <<>> ELSE Bad
<1>1. <<r>> # <<>> /\ <<r>>[1] = r /\ Tail(<<r>>) = <<>>
  OBVIOUS
<1> QED BY <1>1 DEF Goes, In, Bad

\* Two bytes before its end: one is left, or the byte is wrong.
LEMMA GoesTwo ==
  ASSUME NEW r, NEW q, NEW b PROVE Goes(<<r, q>>, b) = IF In(b, r) THEN <<q>> ELSE Bad
<1>1. <<r, q>> # <<>> /\ <<r, q>>[1] = r /\ Tail(<<r, q>>) = <<q>>
  OBVIOUS
<1> QED BY <1>1 DEF Goes, In, Bad

\* Three bytes before its end: two are left, or the byte is wrong.
LEMMA GoesThree ==
  ASSUME NEW r, NEW q, NEW s, NEW b
  PROVE  Goes(<<r, q, s>>, b) = IF In(b, r) THEN <<q, s>> ELSE Bad
<1>1. <<r, q, s>> # <<>> /\ <<r, q, s>>[1] = r /\ Tail(<<r, q, s>>) = <<q, s>>
  OBVIOUS
<1> QED BY <1>1 DEF Goes, In, Bad

\* Behind malformed text no byte does.
LEMMA GoesBad == ASSUME NEW b \in Byte PROVE Goes(Bad, b) = Bad
<1>1. ~In(b, <<1, 0>>)
  BY DEF In, Byte
<1>2. Bad # <<>> /\ Bad[1] = <<1, 0>>
  BY DEF Bad
<1> QED BY <1>1, <1>2 DEF Goes, In, Bad

\* What is expected inside a code point is neither nothing nor the mark of
\* malformed text.
LEMMA BadIs ==
  ASSUME NEW r \in {T, <<160, 191>>, <<128, 159>>, <<144, 191>>, <<128, 143>>}, NEW q, NEW s
  PROVE  /\ <<r>> # <<>> /\ <<r, q>> # <<>> /\ <<r, q, s>> # <<>>
         /\ <<r>>[1] # <<1, 0>> /\ <<r, q>>[1] # <<1, 0>> /\ <<r, q, s>>[1] # <<1, 0>>
<1>1. r # <<1, 0>>
  <2>1. r[1] # 1
    BY DEF T
  <2>2. <<1, 0>>[1] = 1
    OBVIOUS
  <2> QED BY <2>1, <2>2
<1>2. /\ <<r>> # <<>> /\ <<r, q>> # <<>> /\ <<r, q, s>> # <<>>
      /\ <<r>>[1] = r /\ <<r, q>>[1] = r /\ <<r, q, s>>[1] = r
  OBVIOUS
<1> QED BY <1>1, <1>2

-----------------------------------------------------------------------------
\* The k bytes of s from the i-th are those of X behind the first p.
Lies(X, p, s, i, k) ==
  /\ X \in Seq(Byte) /\ p \in Nat /\ k \in Nat /\ 1 <= k /\ p + k <= Len(X)
  /\ s[i] = X[p+1]
  /\ k >= 2 => s[i+1] = X[p+2]
  /\ k >= 3 => s[i+2] = X[p+3]
  /\ k >= 4 => s[i+3] = X[p+4]

\* Where bytes of s lie in X, each is a byte, and takes what is expected in X one
\* further.
LEMMA LiesGoes ==
  ASSUME NEW X, NEW p, NEW s, NEW i, NEW k, Lies(X, p, s, i, k)
  PROVE  /\ s[i] \in Byte /\ Awaits(X, p+1) = Goes(Awaits(X, p), s[i])
         /\ k >= 2 => s[i+1] \in Byte /\ Awaits(X, p+2) = Goes(Awaits(X, p+1), s[i+1])
         /\ k >= 3 => s[i+2] \in Byte /\ Awaits(X, p+3) = Goes(Awaits(X, p+2), s[i+2])
         /\ k >= 4 => s[i+3] \in Byte /\ Awaits(X, p+4) = Goes(Awaits(X, p+3), s[i+3])
<1>1. X \in Seq(Byte) /\ p \in Nat /\ k \in Nat /\ 1 <= k /\ p + k <= Len(X) /\ Len(X) \in Nat
  BY DEF Lies
<1>2. \A q \in 1..Len(X) : Awaits(X, q) = Goes(Awaits(X, q-1), X[q]) /\ X[q] \in Byte
  BY <1>1, AwaitsIs
<1>3. s[i] \in Byte /\ Awaits(X, p+1) = Goes(Awaits(X, p), s[i])
  <2>1. p+1 \in 1..Len(X) /\ (p+1)-1 = p
    BY <1>1
  <2> QED BY <1>2, <2>1 DEF Lies
<1>4. k >= 2 => s[i+1] \in Byte /\ Awaits(X, p+2) = Goes(Awaits(X, p+1), s[i+1])
  <2>1. k >= 2 => p+2 \in 1..Len(X) /\ (p+2)-1 = p+1
    BY <1>1
  <2> QED BY <1>2, <2>1 DEF Lies
<1>5. k >= 3 => s[i+2] \in Byte /\ Awaits(X, p+3) = Goes(Awaits(X, p+2), s[i+2])
  <2>1. k >= 3 => p+3 \in 1..Len(X) /\ (p+3)-1 = p+2
    BY <1>1
  <2> QED BY <1>2, <2>1 DEF Lies
<1>6. k >= 4 => s[i+3] \in Byte /\ Awaits(X, p+4) = Goes(Awaits(X, p+3), s[i+3])
  <2>1. k >= 4 => p+4 \in 1..Len(X) /\ (p+4)-1 = p+3
    BY <1>1
  <2> QED BY <1>2, <2>1 DEF Lies
<1> QED BY <1>3, <1>4, <1>5, <1>6

\* What a code point's bytes make of well-formed text.
Point(X, p, s, i, k) ==
  LET b == s[i]
      A(j) == Awaits(X, p + j)
  IN  /\ b < 128 => A(1) = <<>>
      /\ b \in 194..223 =>
           /\ A(1) = <<T>>
           /\ k >= 2 => A(2) = IF Tail6(s[i+1]) THEN <<>> ELSE Bad
      /\ b \in 224..239 =>
           /\ A(1) = <<Ran(b), T>>
           /\ k >= 2 => A(2) = IF Second(b, s[i+1]) THEN <<T>> ELSE Bad
           /\ k >= 3 => A(3) = IF Second(b, s[i+1]) /\ Tail6(s[i+2]) THEN <<>> ELSE Bad
      /\ b \in 240..244 =>
           /\ A(1) = <<Ran(b), T, T>>
           /\ k >= 2 => A(2) = IF Second(b, s[i+1]) THEN <<T, T>> ELSE Bad
           /\ k >= 3 => A(3) = IF Second(b, s[i+1]) /\ Tail6(s[i+2]) THEN <<T>> ELSE Bad
           /\ k >= 4 => A(4) = IF /\ Second(b, s[i+1]) /\ Tail6(s[i+2])
                                  /\ Tail6(s[i+3]) THEN <<>> ELSE Bad
      /\ b >= 128 /\ b \notin 194..244 => A(1) = Bad

\* What is expected in X behind one to four bytes of s is what Point says.
LEMMA PointIs ==
  ASSUME NEW X, NEW p, NEW s, NEW i, NEW k, Lies(X, p, s, i, k), Awaits(X, p) = <<>>
  PROVE  Point(X, p, s, i, k) /\ s[i] \in Byte
<1> DEFINE b == s[i]
           A(j) == Awaits(X, p + j)
<1>0. p \in Nat /\ k \in Nat /\ 1 <= k
  BY DEF Lies
<1>1. b \in Byte /\ A(1) = Lead(b)
  BY LiesGoes, GoesFirst
<1>2. /\ k >= 2 => s[i+1] \in Byte /\ A(2) = Goes(A(1), s[i+1])
      /\ k >= 3 => s[i+2] \in Byte /\ A(3) = Goes(A(2), s[i+2])
      /\ k >= 4 => s[i+3] \in Byte /\ A(4) = Goes(A(3), s[i+3])
  BY LiesGoes
<1> HIDE DEF b, A
<1>3. b \in 194..223 =>
           /\ A(1) = <<T>>
           /\ k >= 2 => A(2) = IF Tail6(s[i+1]) THEN <<>> ELSE Bad
  BY <1>1, <1>2, LeadIs, GoesLast, TailRange
<1>4. b \in 224..239 =>
           /\ A(1) = <<Ran(b), T>>
           /\ k >= 2 => A(2) = IF Second(b, s[i+1]) THEN <<T>> ELSE Bad
           /\ k >= 3 => A(3) = IF Second(b, s[i+1]) /\ Tail6(s[i+2]) THEN <<>> ELSE Bad
  <2> SUFFICES ASSUME b \in 224..239
               PROVE  /\ A(1) = <<Ran(b), T>>
                      /\ k >= 2 => A(2) = IF Second(b, s[i+1]) THEN <<T>> ELSE Bad
                      /\ k >= 3 => A(3) = IF Second(b, s[i+1]) /\ Tail6(s[i+2]) THEN <<>> ELSE Bad
    OBVIOUS
  <2>1. A(1) = <<Ran(b), T>>
    BY <1>1, LeadIs
  <2>2. k >= 2 => A(2) = IF Second(b, s[i+1]) THEN <<T>> ELSE Bad
    <3>1. b \in 224..244 /\ (k >= 2 => s[i+1] \in Byte)
      BY <1>2
    <3>2. Goes(<<Ran(b), T>>, s[i+1]) = IF In(s[i+1], Ran(b)) THEN <<T>> ELSE Bad
      BY GoesTwo
    <3>3. k >= 2 => (Second(b, s[i+1]) <=> In(s[i+1], Ran(b)))
      BY <3>1, RangeIs
    <3> QED BY <1>2, <2>1, <3>2, <3>3
  <2>3. k >= 3 => A(3) = IF Second(b, s[i+1]) /\ Tail6(s[i+2]) THEN <<>> ELSE Bad
    BY <1>0, <1>2, <2>2, GoesLast, GoesBad, TailRange
  <2> QED BY <2>1, <2>2, <2>3
<1>5. b \in 240..244 =>
           /\ A(1) = <<Ran(b), T, T>>
           /\ k >= 2 => A(2) = IF Second(b, s[i+1]) THEN <<T, T>> ELSE Bad
           /\ k >= 3 => A(3) = IF Second(b, s[i+1]) /\ Tail6(s[i+2]) THEN <<T>> ELSE Bad
           /\ k >= 4 => A(4) = IF /\ Second(b, s[i+1]) /\ Tail6(s[i+2])
                                  /\ Tail6(s[i+3]) THEN <<>> ELSE Bad
  <2> SUFFICES ASSUME b \in 240..244
               PROVE  /\ A(1) = <<Ran(b), T, T>>
                      /\ k >= 2 => A(2) = IF Second(b, s[i+1]) THEN <<T, T>> ELSE Bad
                      /\ k >= 3 => A(3) = IF Second(b, s[i+1]) /\ Tail6(s[i+2]) THEN <<T>> ELSE Bad
                      /\ k >= 4 => A(4) = IF /\ Second(b, s[i+1]) /\ Tail6(s[i+2])
                                             /\ Tail6(s[i+3]) THEN <<>> ELSE Bad
    OBVIOUS
  <2>1. A(1) = <<Ran(b), T, T>>
    BY <1>1, LeadIs
  <2>2. k >= 2 => A(2) = IF Second(b, s[i+1]) THEN <<T, T>> ELSE Bad
    <3>1. b \in 224..244 /\ (k >= 2 => s[i+1] \in Byte)
      BY <1>2
    <3>2. Goes(<<Ran(b), T, T>>, s[i+1]) = IF In(s[i+1], Ran(b)) THEN <<T, T>> ELSE Bad
      BY GoesThree
    <3>3. k >= 2 => (Second(b, s[i+1]) <=> In(s[i+1], Ran(b)))
      BY <3>1, RangeIs
    <3> QED BY <1>2, <2>1, <3>2, <3>3
  <2>3. k >= 3 => A(3) = IF Second(b, s[i+1]) /\ Tail6(s[i+2]) THEN <<T>> ELSE Bad
    <3>1. k >= 3 => k >= 2 /\ s[i+2] \in Byte
      BY <1>0, <1>2
    <3>2. Goes(<<T, T>>, s[i+2]) = IF In(s[i+2], T) THEN <<T>> ELSE Bad
      BY GoesTwo
    <3>3. k >= 3 => (Tail6(s[i+2]) <=> In(s[i+2], T)) /\ Goes(Bad, s[i+2]) = Bad
      BY <3>1, TailRange, GoesBad
    <3> QED BY <1>2, <2>2, <3>1, <3>2, <3>3
  <2>4. k >= 4 => A(4) = IF /\ Second(b, s[i+1]) /\ Tail6(s[i+2])
                            /\ Tail6(s[i+3]) THEN <<>> ELSE Bad
    BY <1>0, <1>2, <2>3, GoesLast, GoesBad, TailRange
  <2> QED BY <2>1, <2>2, <2>3, <2>4
<1>6. (b < 128 => A(1) = <<>>) /\ (b >= 128 /\ b \notin 194..244 => A(1) = Bad)
  BY <1>1, LeadIs
<1> QED BY <1>1, <1>3, <1>4, <1>5, <1>6 DEF Point, A, b

\* Once malformed, always malformed.
LEMMA StaysBad ==
  ASSUME NEW X \in Seq(Byte), NEW p \in Nat, Awaits(X, p) = Bad,
         NEW q \in Nat, p <= q, q <= Len(X)
  PROVE  Awaits(X, q) = Bad
<1> DEFINE S == {n \in Nat : p + n <= Len(X) => Awaits(X, p + n) = Bad}
<1>1. 0 \in S
  OBVIOUS
<1>2. ASSUME NEW n \in Nat, n \in S PROVE n + 1 \in S
  <2> SUFFICES ASSUME p + (n+1) <= Len(X) PROVE Awaits(X, p + (n+1)) = Bad
    OBVIOUS
  <2> DEFINE m == p + (n+1)
  <2>1. m \in 1..Len(X) /\ m - 1 = p + n /\ p + n <= Len(X)
    OBVIOUS
  <2>2. Awaits(X, m-1) = Bad
    BY <1>2, <2>1
  <2>3. X[m] \in Byte
    BY <2>1
  <2> HIDE DEF m
  <2>4. Awaits(X, m) = Goes(Bad, X[m])
    BY <2>1, <2>2, AwaitsIs
  <2>5. Awaits(X, m) = Bad
    BY <2>3, <2>4, GoesBad
  <2> QED BY <2>5 DEF m
<1>3. S = Nat
  <2>1. S \in SUBSET Nat
    OBVIOUS
  <2> HIDE DEF S
  <2> QED BY <1>1, <1>2, <2>1, Induct
<1>4. q - p \in S /\ p + (q - p) = q
  <2>1. q - p \in Nat
    OBVIOUS
  <2> HIDE DEF S
  <2> QED BY <1>3, <2>1
<1> QED BY <1>4

-----------------------------------------------------------------------------
\* What needed() returns, by the class of the byte.
LEMMA NeededIs ==
  ASSUME NEW b \in Byte
  PROVE  /\ b < 128 => needed(b) = 1
         /\ b \in 194..223 => needed(b) = 2
         /\ b \in 224..239 => needed(b) = 3
         /\ b \in 240..244 => needed(b) = 4
         /\ b >= 128 /\ b \notin 194..244 => needed(b) = 0
<1>1. b < 128 => needed(b) = 1
  BY DEF needed, Byte
<1>2. b \in 194..223 => needed(b) = 2
  BY DEF needed, Byte
<1>3. b \in 224..239 => needed(b) = 3
  BY DEF needed, Byte
<1>4. b \in 240..244 => needed(b) = 4
  BY DEF needed, Byte
<1>5. ASSUME b >= 128, b \notin 194..244 PROVE needed(b) = 0
  <2>1. ~(b < 128) /\ b \notin 194..223 /\ b \notin 224..239 /\ b \notin 240..244
    BY <1>5 DEF Byte
  <2> QED BY <2>1 DEF needed
<1> QED BY <1>1, <1>2, <1>3, <1>4, <1>5

\* needed() returns at most four.
LEMMA NeededRange == ASSUME NEW b \in Byte PROVE needed(b) \in 0..4
<1> DEFINE n == needed(b)
<1>1. b \in 0..255
  BY DEF Byte
<1>2. b < 128 \/ b \in 194..223 \/ b \in 224..239 \/ b \in 240..244 \/ (b >= 128 /\ b \notin 194..244)
  BY <1>1
<1>3. n = 0 \/ n = 1 \/ n = 2 \/ n = 3 \/ n = 4
  BY <1>2, NeededIs
<1> HIDE DEF n
<1>4. n \in 0..4
  BY <1>3
<1> QED BY <1>4 DEF n

\* What valid() returns, by the class of the first byte.
LEMMA ValidIs ==
  ASSUME NEW in, NEW i, in[i] \in Byte
  PROVE  /\ in[i] < 128 => valid(in, i) = 1
         /\ in[i] \in 192..223 => valid(in, i) = IF Tail6(in[i+1]) THEN 2 ELSE 0
         /\ in[i] \in 224..239 =>
              valid(in, i) = IF Second(in[i], in[i+1]) /\ Tail6(in[i+2]) THEN 3 ELSE 0
         /\ in[i] \in 240..244 =>
              valid(in, i) = IF /\ Second(in[i], in[i+1]) /\ Tail6(in[i+2])
                                /\ Tail6(in[i+3]) THEN 4 ELSE 0
         /\ in[i] >= 128 /\ in[i] \notin 192..244 => valid(in, i) = 0
<1>1. in[i] < 128 => valid(in, i) = 1
  BY DEF valid, Byte
<1>2. in[i] \in 192..223 => valid(in, i) = IF Tail6(in[i+1]) THEN 2 ELSE 0
  <2> SUFFICES ASSUME in[i] \in 192..223
               PROVE  valid(in, i) = IF Tail6(in[i+1]) THEN 2 ELSE 0
    OBVIOUS
  <2>1. ~(in[i] < 128) /\ in[i] \notin 224..239 /\ in[i] \notin 240..244
    OBVIOUS
  <2> QED BY <2>1 DEF valid
<1>3. in[i] \in 224..239 =>
        valid(in, i) = IF Second(in[i], in[i+1]) /\ Tail6(in[i+2]) THEN 3 ELSE 0
  <2> SUFFICES ASSUME in[i] \in 224..239
               PROVE  valid(in, i) = IF Second(in[i], in[i+1]) /\ Tail6(in[i+2]) THEN 3 ELSE 0
    OBVIOUS
  <2>1. ~(in[i] < 128) /\ in[i] \notin 192..223 /\ in[i] \notin 240..244
    OBVIOUS
  <2> QED BY <2>1 DEF valid
<1>4. in[i] \in 240..244 =>
        valid(in, i) = IF /\ Second(in[i], in[i+1]) /\ Tail6(in[i+2])
                          /\ Tail6(in[i+3]) THEN 4 ELSE 0
  <2> SUFFICES ASSUME in[i] \in 240..244
               PROVE  valid(in, i) = IF /\ Second(in[i], in[i+1]) /\ Tail6(in[i+2])
                                        /\ Tail6(in[i+3]) THEN 4 ELSE 0
    OBVIOUS
  <2>1. ~(in[i] < 128) /\ in[i] \notin 192..223 /\ in[i] \notin 224..239
    OBVIOUS
  <2> QED BY <2>1 DEF valid
<1>5. ASSUME in[i] >= 128, in[i] \notin 192..244 PROVE valid(in, i) = 0
  <2>1. ~(in[i] < 128) /\ in[i] \notin 192..223 /\ in[i] \notin 224..239 /\ in[i] \notin 240..244
    BY <1>5 DEF Byte
  <2> QED BY <2>1 DEF valid
<1> QED BY <1>1, <1>2, <1>3, <1>4, <1>5

\* X has a byte no code point begins with, that valid() takes for one.
Overlong(X) == \E i \in 1..Len(X) : X[i] \in {192, 193}
\* X is malformed at a byte no later than the q-th.
Broken(X, q) == \E p \in 1..q : Awaits(X, p) = Bad

\* None of the lists expected inside a code point is empty or that of malformed
\* text.
LEMMA InsideIs ==
  ASSUME NEW b
  PROVE  /\ <<T>> # <<>> /\ <<T>> # Bad /\ <<T, T>> # <<>> /\ <<T, T>> # Bad
         /\ <<Ran(b), T>> # <<>> /\ <<Ran(b), T>> # Bad
         /\ <<Ran(b), T, T>> # <<>> /\ <<Ran(b), T, T>> # Bad
         /\ Bad # <<>>
<1>1. Ran(b) \in {T, <<160, 191>>, <<128, 159>>, <<144, 191>>, <<128, 143>>}
  BY DEF Ran
<1> DEFINE r == Ran(b)
<1> HIDE DEF r
<1>2. /\ <<T>> # <<>> /\ <<T, T>> # <<>> /\ <<r, T>> # <<>> /\ <<r, T, T>> # <<>>
      /\ <<T>>[1] # <<1, 0>> /\ <<T, T>>[1] # <<1, 0>> /\ <<r, T>>[1] # <<1, 0>>
      /\ <<r, T, T>>[1] # <<1, 0>>
  BY <1>1, BadIs DEF r
<1>3. Bad[1] = <<1, 0>> /\ Bad # <<>>
  BY DEF Bad
<1> QED BY <1>2, <1>3 DEF r

\* Where needed() asks for more bytes than there are, the code point is not over,
\* and valid_have() tells whether it can still become one.
LEMMA SomeOfPoint ==
  ASSUME NEW X, NEW p, NEW s, NEW i, NEW k, Lies(X, p, s, i, k), Awaits(X, p) = <<>>,
         needed(s[i]) > k
  PROVE  /\ k < 4
         /\ Awaits(X, p + k) # <<>>
         /\ i = 1 /\ Len(s) = k => (valid_have(s) <=> Awaits(X, p + k) # Bad)
<1> DEFINE b == s[i]
           a == Awaits(X, p + k)
<1>1. b \in Byte /\ Point(X, p, s, i, k) /\ p \in Nat /\ k \in Nat /\ 1 <= k
  BY PointIs DEF Lies
<1>2. \/ b \in 194..223 /\ k = 1
      \/ b \in 224..239 /\ k \in {1, 2}
      \/ b \in 240..244 /\ k \in {1, 2, 3}
  <2>1. /\ b < 128 => needed(b) = 1
        /\ b \in 194..223 => needed(b) = 2
        /\ b \in 224..239 => needed(b) = 3
        /\ b \in 240..244 => needed(b) = 4
        /\ b >= 128 /\ b \notin 194..244 => needed(b) = 0
    BY <1>1, NeededIs
  <2>2. b \in 0..255 /\ needed(b) > k
    BY <1>1 DEF Byte
  <2>3. k \in Nat /\ 1 <= k
    BY <1>1
  <2> DEFINE n == needed(b)
  <2> HIDE DEF b, n
  <2>4. b < 128 \/ b \in 194..223 \/ b \in 224..239 \/ b \in 240..244 \/ (b >= 128 /\ b \notin 194..244)
    BY <2>2
  <2>5. n > k /\ (n = 1 \/ n = 0 \/ (n = 2 /\ b \in 194..223) \/ (n = 3 /\ b \in 224..239) \/ (n = 4 /\ b \in 240..244))
    BY <2>1, <2>2, <2>4 DEF n
  <2> QED BY <2>3, <2>5
<1>3. CASE b \in 194..223 /\ k = 1
  <2>1. a = <<T>>
    BY <1>1, <1>3 DEF Point
  <2>2. i = 1 /\ Len(s) = k => valid_have(s)
    BY <1>3 DEF valid_have
  <2>3. a # <<>> /\ a # Bad
    BY <2>1, InsideIs
  <2>4. k < 4
    BY <1>3
  <2> HIDE DEF a
  <2> QED BY <2>2, <2>3, <2>4 DEF a
<1>4. CASE b \in 224..239 /\ k \in {1, 2}
  <2>1. a = IF k = 1 THEN <<Ran(b), T>> ELSE IF Second(b, s[i+1]) THEN <<T>> ELSE Bad
    <3>1. /\ Awaits(X, p + 1) = <<Ran(b), T>>
          /\ k >= 2 => Awaits(X, p + 2) = IF Second(b, s[i+1]) THEN <<T>> ELSE Bad
      BY <1>1, <1>4 DEF Point
    <3> QED BY <1>4, <3>1
  <2>2. i = 1 /\ Len(s) = k => (valid_have(s) <=> k = 1 \/ Second(b, s[2]))
    BY <1>4 DEF valid_have
  <2>3. Bad # <<>>
    BY DEF Bad
  <2> QED BY <1>4, <2>1, <2>2, <2>3, InsideIs, SMTT(30)
<1>5. CASE b \in 240..244 /\ k \in {1, 2, 3}
  <2>1. a = IF k = 1 THEN <<Ran(b), T, T>>
            ELSE IF k = 2 THEN IF Second(b, s[i+1]) THEN <<T, T>> ELSE Bad
            ELSE IF Second(b, s[i+1]) /\ Tail6(s[i+2]) THEN <<T>> ELSE Bad
    <3>1. /\ Awaits(X, p + 1) = <<Ran(b), T, T>>
          /\ k >= 2 => Awaits(X, p + 2) = IF Second(b, s[i+1]) THEN <<T, T>> ELSE Bad
          /\ k >= 3 => Awaits(X, p + 3) = IF Second(b, s[i+1]) /\ Tail6(s[i+2]) THEN <<T>> ELSE Bad
      BY <1>1, <1>5 DEF Point
    <3> QED BY <1>5, <3>1
  <2>2. i = 1 /\ Len(s) = k => (valid_have(s) <=> k = 1 \/ (Second(b, s[2]) /\ (k = 3 => Tail6(s[3]))))
    BY <1>5 DEF valid_have
  <2>4. /\ <<T>> # <<>> /\ <<T>> # Bad /\ <<T, T>> # <<>> /\ <<T, T>> # Bad
        /\ <<Ran(b), T, T>> # <<>> /\ <<Ran(b), T, T>> # Bad /\ Bad # <<>>
    BY InsideIs
  <2> HIDE DEF a
  <2>5. a # <<>>
    BY <1>5, <2>1, <2>4
  <2>6. a # Bad <=> (k = 1 \/ (Second(b, s[i+1]) /\ (k = 3 => Tail6(s[i+2]))))
    BY <1>5, <2>1, <2>4
  <2>7. i = 1 => i+1 = 2 /\ i+2 = 3
    OBVIOUS
  <2>8. k < 4
    BY <1>5
  <2> QED BY <2>2, <2>5, <2>6, <2>7, <2>8 DEF a
<1> QED BY <1>2, <1>3, <1>4, <1>5

\* Where the bytes needed() asks for are there, valid() takes just these when they
\* are a code point, and otherwise returns 0 and the text is malformed.
LEMMA WholePoint ==
  ASSUME NEW X, NEW p, NEW s, NEW i, NEW k, Lies(X, p, s, i, k), Awaits(X, p) = <<>>,
         needed(s[i]) <= k, needed(s[i]) # 0 \/ k >= 4, ~Overlong(X)
  PROVE  LET v == valid(s, i)
         IN  /\ v \in 0..4 /\ v <= k
             /\ v = 0 => Broken(X, p + k)
             /\ v # 0 => v = needed(s[i]) /\ Awaits(X, p + v) = <<>>
             /\ needed(s[i]) # 0 /\ v = 0 => Awaits(X, p + needed(s[i])) = Bad
<1> DEFINE b == s[i]
           v == valid(s, i)
<1>1. /\ b \in Byte /\ Point(X, p, s, i, k) /\ p \in Nat /\ k \in Nat /\ 1 <= k
      /\ X \in Seq(Byte) /\ p + k <= Len(X) /\ Len(X) \in Nat
  BY PointIs DEF Lies
<1>2. b \notin {192, 193}
  <2>1. b = X[p+1] /\ p + 1 \in 1..Len(X)
    BY <1>1 DEF Lies
  <2> QED BY <2>1 DEF Overlong
<1>3. ASSUME NEW j \in 1..4, j <= k, Awaits(X, p + j) = Bad PROVE Broken(X, p + k)
  <2>1. p + j \in 1..(p + k)
    BY <1>1, <1>3
  <2> QED BY <1>3, <2>1 DEF Broken
<1>4. CASE b < 128
  <2>1. v = 1 /\ needed(b) = 1
    BY <1>1, <1>4, NeededIs, ValidIs
  <2> QED BY <1>1, <1>4, <2>1 DEF Point
<1>5. CASE b \in 194..223
  <2>1. v = (IF Tail6(s[i+1]) THEN 2 ELSE 0) /\ needed(b) = 2
    BY <1>1, <1>5, NeededIs, ValidIs
  <2>2. Awaits(X, p + 2) = IF Tail6(s[i+1]) THEN <<>> ELSE Bad
    BY <1>1, <1>5, <2>1 DEF Point
  <2> QED BY <1>1, <1>3, <2>1, <2>2
<1>6. CASE b \in 224..239
  <2>1. v = (IF Second(b, s[i+1]) /\ Tail6(s[i+2]) THEN 3 ELSE 0) /\ needed(b) = 3
    BY <1>1, <1>6, NeededIs, ValidIs
  <2>2. Awaits(X, p + 3) = IF Second(b, s[i+1]) /\ Tail6(s[i+2]) THEN <<>> ELSE Bad
    BY <1>1, <1>6, <2>1 DEF Point
  <2> QED BY <1>1, <1>3, <2>1, <2>2
<1>7. CASE b \in 240..244
  <2>1. v = (IF Second(b, s[i+1]) /\ Tail6(s[i+2]) /\ Tail6(s[i+3]) THEN 4 ELSE 0) /\ needed(b) = 4
    BY <1>1, <1>7, NeededIs, ValidIs
  <2>2. Awaits(X, p + 4) = IF Second(b, s[i+1]) /\ Tail6(s[i+2]) /\ Tail6(s[i+3]) THEN <<>> ELSE Bad
    BY <1>1, <1>7, <2>1 DEF Point
  <2> QED BY <1>1, <1>3, <2>1, <2>2
<1>8. CASE b >= 128 /\ b \notin 194..244
  <2>1. v = 0 /\ needed(b) = 0
    <3>1. b \notin 192..244
      BY <1>1, <1>2, <1>8 DEF Byte
    <3>2. needed(b) = 0
      BY <1>1, <1>8, NeededIs
    <3>3. v = 0
      BY <1>1, <1>8, <3>1, ValidIs
    <3> QED BY <1>1, <3>2, <3>3
  <2>2. Awaits(X, p + 1) = Bad
    BY <1>1, <1>8 DEF Point
  <2>3. Broken(X, p + k)
    <3>1. 1 \in 1..4 /\ 1 <= k
      BY <1>1
    <3> QED BY <1>3, <2>2, <3>1
  <2> QED BY <1>1, <2>1, <2>3
<1>9. b < 128 \/ b \in 194..223 \/ b \in 224..239 \/ b \in 240..244 \/ (b >= 128 /\ b \notin 194..244)
  <2>1. b \in 0..255
    BY <1>1 DEF Byte
  <2> HIDE DEF b
  <2> QED BY <2>1
<1> QED BY <1>4, <1>5, <1>6, <1>7, <1>8, <1>9

\* A byte for which needed() returns 0 makes the text malformed.
LEMMA NoPoint ==
  ASSUME NEW X, NEW p, NEW s, NEW i, NEW k, Lies(X, p, s, i, k), Awaits(X, p) = <<>>,
         needed(s[i]) = 0
  PROVE  Broken(X, p + k)
<1>1. s[i] \in Byte /\ Point(X, p, s, i, k) /\ p \in Nat /\ k \in Nat /\ 1 <= k
  BY PointIs DEF Lies
<1>2. s[i] >= 128 /\ s[i] \notin 194..244
  <2> DEFINE b == s[i]
  <2>1. /\ b < 128 => needed(b) = 1
        /\ b \in 194..223 => needed(b) = 2
        /\ b \in 224..239 => needed(b) = 3
        /\ b \in 240..244 => needed(b) = 4
        /\ b >= 128 /\ b \notin 194..244 => needed(b) = 0
    BY <1>1, NeededIs
  <2>2. b \in 0..255 /\ needed(b) = 0
    BY <1>1 DEF Byte
  <2> HIDE DEF b
  <2>4. b < 128 \/ b \in 194..223 \/ b \in 224..239 \/ b \in 240..244 \/ (b >= 128 /\ b \notin 194..244)
    BY <2>2
  <2>3. b >= 128 /\ b \notin 194..244
    BY <2>1, <2>2, <2>4
  <2> QED BY <2>3 DEF b
<1>3. Awaits(X, p + 1) = Bad /\ p + 1 \in 1..(p + k)
  BY <1>1, <1>2 DEF Point
<1> QED BY <1>3 DEF Broken

-----------------------------------------------------------------------------
\* Where the loops of write() stop, and with what,
Halts(in, i) ==
  LET left == Len(in) + 1 - i
      need == needed(in[i])
  IN  left = 0 \/ (left < 4 /\ (need = 0 \/ need > left)) \/ valid(in, i) = 0
Halt(have, in, i) ==
  LET at(ok) == [ok |-> ok, u |-> [need |-> 0, have |-> have]]
      left == Len(in) + 1 - i
      need == needed(in[i])
      more == have \o SubSeq(in, i, Len(in))
  IN  IF left = 0 THEN at(TRUE)
      ELSE IF left < 4 /\ need = 0 THEN at(FALSE)
      ELSE IF left < 4 /\ need > left
        THEN [ok |-> valid_have(more), u |-> [need |-> need - left, have |-> more]]
      ELSE at(FALSE)
\* and the recursion of Scan.
ScanStep(have, in, f, i) ==
  LET at(ok) == [ok |-> ok, u |-> [need |-> 0, have |-> have]]
      left == Len(in) + 1 - i
      need == needed(in[i])
      more == have \o SubSeq(in, i, Len(in))
  IN  IF left = 0 THEN at(TRUE)
      ELSE IF left < 4 /\ need = 0 THEN at(FALSE)
      ELSE IF left < 4 /\ need > left
        THEN [ok |-> valid_have(more), u |-> [need |-> need - left, have |-> more]]
      ELSE IF valid(in, i) = 0 THEN at(FALSE)
      ELSE f[i + valid(in, i)]
Scans(have, in, f) == f = [i \in 1..(Len(in) + 1) |-> ScanStep(have, in, f, i)]

\* Scan is that recursion from the first byte.
LEMMA ScanScans == ASSUME NEW have, NEW in PROVE Scan(have, in) = (CHOOSE f : Scans(have, in, f))[1]
BY Zenon DEF Scan, Scans, ScanStep

\* A step of the recursion stops, or goes on behind what valid() took.
LEMMA ScanStepIs ==
  ASSUME NEW have, NEW in, NEW f, NEW i
  PROVE  ScanStep(have, in, f, i) = IF Halts(in, i) THEN Halt(have, in, i) ELSE f[i + valid(in, i)]
<1> DEFINE left == Len(in) + 1 - i
           need == needed(in[i])
           v == valid(in, i)
           some == have \o SubSeq(in, i, Len(in))
           bad == [ok |-> FALSE, u |-> [need |-> 0, have |-> have]]
           wait == [ok |-> valid_have(some), u |-> [need |-> need - left, have |-> some]]
           good == [ok |-> TRUE, u |-> [need |-> 0, have |-> have]]
           on == f[i + v]
<1>1. ScanStep(have, in, f, i) = IF left = 0 THEN good ELSE IF left < 4 /\ need = 0 THEN bad
                           ELSE IF left < 4 /\ need > left THEN wait
                           ELSE IF v = 0 THEN bad ELSE on
  BY Zenon DEF ScanStep
<1>2. Halt(have, in, i) = IF left = 0 THEN good ELSE IF left < 4 /\ need = 0 THEN bad
                    ELSE IF left < 4 /\ need > left THEN wait ELSE bad
  BY Zenon DEF Halt
<1>3. Halts(in, i) <=> (left = 0 \/ (left < 4 /\ (need = 0 \/ need > left)) \/ v = 0)
  BY Zenon DEF Halts
<1>4. on = f[i + valid(in, i)]
  OBVIOUS
<1> HIDE DEF left, need, v, some, bad, wait, good, on
<1> QED BY <1>1, <1>2, <1>3, <1>4

\* 192 and 193 are leads to valid() and not to needed().
LEMMA LeadsLow ==
  ASSUME NEW b, b = 192 \/ b = 193 PROVE b >= 128 /\ b \notin 194..244 /\ b \in 192..223
OBVIOUS

\* Unless the lead is 192 or 193, what valid() takes is what needed() asks for.
LEMMA PointLength ==
  ASSUME NEW in, NEW i, in[i] \in Byte
  PROVE  /\ valid(in, i) \in 0..4
         /\ needed(in[i]) # 0 => (valid(in, i) = 0 \/ valid(in, i) = needed(in[i]))
<1> DEFINE b == in[i]
           n == needed(b)
           v == valid(in, i)
<1>1. b < 128 \/ b = 192 \/ b = 193 \/ b \in 194..223 \/ b \in 224..239 \/ b \in 240..244
      \/ (b >= 128 /\ b \notin 192..244)
  <2>1. b \in 0..255
    BY DEF Byte
  <2> HIDE DEF b
  <2> QED BY <2>1
<1>2. b < 128 => v = 1 /\ n = 1
  BY NeededIs, ValidIs
<1>3. (b = 192 \/ b = 193) => (v = 0 \/ v = 2) /\ n = 0
  <2> SUFFICES ASSUME b = 192 \/ b = 193 PROVE (v = 0 \/ v = 2) /\ n = 0
    OBVIOUS
  <2>1. b >= 128 /\ b \notin 194..244 /\ b \in 192..223
    BY LeadsLow
  <2>2. n = 0
    BY <2>1, NeededIs
  <2>3. v = IF Tail6(in[i+1]) THEN 2 ELSE 0
    BY <2>1, ValidIs
  <2> QED BY <2>2, <2>3
<1>4. b \in 194..223 => (v = 0 \/ v = 2) /\ n = 2
  <2> SUFFICES ASSUME b \in 194..223 PROVE (v = 0 \/ v = 2) /\ n = 2
    OBVIOUS
  <2>1. b \in 192..223
    OBVIOUS
  <2>2. n = 2
    BY NeededIs
  <2>3. v = IF Tail6(in[i+1]) THEN 2 ELSE 0
    BY <2>1, ValidIs
  <2> QED BY <2>2, <2>3
<1>5. b \in 224..239 => (v = 0 \/ v = 3) /\ n = 3
  BY NeededIs, ValidIs
<1>6. b \in 240..244 => (v = 0 \/ v = 4) /\ n = 4
  BY NeededIs, ValidIs
<1>7. b >= 128 /\ b \notin 192..244 => v = 0
  BY ValidIs
<1> HIDE DEF b, n, v
<1> DEFINE G == v \in 0..4 /\ (n # 0 => (v = 0 \/ v = n))
<1>8. (b < 128 => G) /\ ((b = 192 \/ b = 193) => G) /\ (b \in 194..223 => G)
  BY <1>2, <1>3, <1>4
<1>9. (b \in 224..239 => G) /\ (b \in 240..244 => G) /\ (b >= 128 /\ b \notin 192..244 => G)
  BY <1>5, <1>6, <1>7
<1> HIDE DEF G
<1>10. G
  BY <1>1, <1>8, <1>9
<1> QED BY <1>10 DEF G, b, n, v

\* Where Scan does not stop, what valid() takes is there.
LEMMA ScanGoesOn ==
  ASSUME NEW in \in Seq(Byte), NEW i \in 1..(Len(in) + 1), ~Halts(in, i)
  PROVE  i \in 1..Len(in) /\ i + valid(in, i) \in (i+1)..(Len(in) + 1)
<1> DEFINE left == Len(in) + 1 - i
           b == in[i]
           n == needed(b)
           v == valid(in, i)
<1>1. left # 0 /\ ~(left < 4 /\ (n = 0 \/ n > left)) /\ v # 0
  BY DEF Halts
<1>2. i \in 1..Len(in) /\ left \in Nat
  BY <1>1
<1>3. b \in Byte
  BY <1>2
<1>4. v \in 0..4 /\ (n # 0 => (v = 0 \/ v = n))
  BY <1>3, PointLength
<1>5. v >= 1 /\ v <= left
  <2> HIDE DEF b, n, v, left
  <2>1. CASE left < 4
    <3>1. n # 0 /\ ~(n > left) /\ v = n
      BY <1>1, <1>4, <2>1
    <3> QED BY <1>1, <1>2, <1>4, <3>1
  <2>2. CASE ~(left < 4)
    BY <1>1, <1>2, <1>4, <2>2
  <2> QED BY <2>1, <2>2
<1> HIDE DEF v
<1>6. i + v \in (i+1)..(Len(in) + 1)
  BY <1>4, <1>5
<1> QED BY <1>2, <1>6 DEF v

\* Some function satisfies that recursion: it is built from the end of the bytes.
LEMMA ScanExists == ASSUME NEW have, NEW in \in Seq(Byte) PROVE \E f : Scans(have, in, f)
<1> DEFINE N == Len(in)
           D(m) == (N + 1 - m)..(N + 1)
           Fn(f, m) == \A i \in D(m) : f[i] = ScanStep(have, in, f, i)
           S == {m \in Nat : m <= N => \E f : Fn(f, m)}
<1>0. N \in Nat
  OBVIOUS
<1>1. 0 \in S
  <2> DEFINE f == [i \in D(0) |-> Halt(have, in, N + 1)]
  <2>1. Halts(in, N + 1)
    BY <1>0 DEF Halts
  <2>2. ASSUME NEW i \in D(0) PROVE f[i] = ScanStep(have, in, f, i)
    <3>1. i = N + 1 /\ f[i] = Halt(have, in, N + 1)
      BY <1>0
    <3> HIDE DEF f, N
    <3> QED BY <2>1, <3>1, ScanStepIs
  <2> HIDE DEF f
  <2> QED BY <2>2
<1>2. ASSUME NEW m \in Nat, m \in S PROVE m + 1 \in S
  <2> SUFFICES ASSUME m + 1 <= N PROVE \E g : Fn(g, m + 1)
    OBVIOUS
  <2>1. PICK f : Fn(f, m)
    BY <1>0, <1>2
  <2> DEFINE k == N + 1 - (m + 1)
             g == [i \in D(m + 1) |-> IF i = k THEN ScanStep(have, in, f, k) ELSE f[i]]
  <2>2. k \in D(m + 1) /\ k \in 1..N /\ k \notin D(m) /\ D(m) \subseteq D(m + 1)
    BY <1>0
  <2>3. \A i \in D(m + 1) : i = k \/ i \in D(m)
    BY <1>0
  <2>4. g[k] = ScanStep(have, in, f, k) /\ \A i \in D(m) : g[i] = f[i]
    BY <2>2
  <2>5. ASSUME NEW i \in D(m + 1) PROVE ScanStep(have, in, g, i) = ScanStep(have, in, f, i)
    <3>1. CASE Halts(in, i)
      <4> HIDE DEF g
      <4> QED BY <3>1, ScanStepIs
    <3>2. CASE ~Halts(in, i)
      <4>1. i \in 1..(N + 1)
        BY <1>0
      <4>2. i + valid(in, i) \in (i+1)..(N + 1)
        BY <3>2, <4>1, ScanGoesOn
      <4>3. i + valid(in, i) \in D(m)
        <5> DEFINE v == valid(in, i)
        <5> HIDE DEF v, N
        <5> QED BY <1>0, <4>2 DEF v
      <4>4. g[i + valid(in, i)] = f[i + valid(in, i)]
        BY <2>4, <4>3
      <4> HIDE DEF g
      <4> QED BY <3>2, <4>4, ScanStepIs
    <3> QED BY <3>1, <3>2
  <2> HIDE DEF g, k, N
  <2>6. ASSUME NEW i \in D(m + 1) PROVE g[i] = ScanStep(have, in, g, i)
    <3> HIDE DEF D
    <3>1. CASE i = k
      BY <2>4, <2>5, <3>1
    <3>2. CASE i \in D(m)
      <4>1. g[i] = f[i] /\ f[i] = ScanStep(have, in, f, i)
        BY <2>1, <2>4, <3>2
      <4> QED BY <2>5, <4>1
    <3> QED BY <2>3, <3>1, <3>2
  <2> QED BY <2>6
<1>3. S = Nat
  <2>1. S \in SUBSET Nat
    OBVIOUS
  <2> HIDE DEF S
  <2> QED BY <1>1, <1>2, <2>1, Induct
<1>4. PICK f : Fn(f, N)
  <2>1. N \in S
    <3> HIDE DEF S
    <3> QED BY <1>0, <1>3
  <2> QED BY <1>0, <2>1
<1> DEFINE g == [i \in 1..(N + 1) |-> f[i]]
<1>5. D(N) = 1..(N + 1)
  BY <1>0
<1>6. ASSUME NEW i \in 1..(N + 1) PROVE ScanStep(have, in, f, i) = ScanStep(have, in, g, i)
  <2>1. CASE Halts(in, i)
    <3> HIDE DEF g
    <3> QED BY <2>1, ScanStepIs
  <2>2. CASE ~Halts(in, i)
    <3>1. i + valid(in, i) \in 1..(N + 1)
      <4> DEFINE v == valid(in, i)
      <4>1. i + v \in (i+1)..(N + 1)
        BY <2>2, ScanGoesOn
      <4> HIDE DEF v, N
      <4> QED BY <1>0, <4>1 DEF v
    <3>2. g[i + valid(in, i)] = f[i + valid(in, i)]
      BY <3>1
    <3> HIDE DEF g
    <3> QED BY <2>2, <3>2, ScanStepIs
  <2> QED BY <2>1, <2>2
<1>7. ASSUME NEW i \in 1..(N + 1) PROVE f[i] = ScanStep(have, in, g, i)
  <2>1. f[i] = ScanStep(have, in, f, i)
    BY <1>4, <1>5
  <2> HIDE DEF g
  <2> QED BY <1>6, <2>1
<1>8. g = [i \in 1..(N + 1) |-> ScanStep(have, in, g, i)]
  <2>1. [i \in 1..(N + 1) |-> f[i]] = [i \in 1..(N + 1) |-> ScanStep(have, in, g, i)]
    <3> HIDE DEF g
    <3> QED BY <1>7
  <2> QED BY <2>1, Zenon
<1> HIDE DEF g
<1> QED BY <1>8 DEF Scans

\* So Scan is what its recursion says.
LEMMA ScanIs ==
  ASSUME NEW have, NEW in \in Seq(Byte)
  PROVE  \E f : /\ Scan(have, in) = f[1]
                /\ \A i \in 1..(Len(in) + 1) :
                     f[i] = IF Halts(in, i) THEN Halt(have, in, i) ELSE f[i + valid(in, i)]
<1> DEFINE f == CHOOSE h : Scans(have, in, h)
<1>1. Scans(have, in, f)
  BY ScanExists
<1>2. Scan(have, in) = f[1]
  BY ScanScans
<1> HIDE DEF f
<1>3. \A i \in 1..(Len(in) + 1) : f[i] = ScanStep(have, in, f, i)
  BY <1>1 DEF Scans
<1>4. \A i \in 1..(Len(in) + 1) :
        f[i] = IF Halts(in, i) THEN Halt(have, in, i) ELSE f[i + valid(in, i)]
  BY <1>3, ScanStepIs
<1> QED BY <1>2, <1>4

-----------------------------------------------------------------------------
\* The bytes of in are those of X behind the first a.
Holding(X, a, in) ==
  /\ X \in Seq(Byte) /\ in \in Seq(Byte) /\ a \in Nat /\ a + Len(in) <= Len(X)
  /\ \A j \in 1..Len(in) : in[j] = X[a + j]

\* The checker after the first a bytes of X, none of them wrong: it has the
\* bytes of an incomplete code point, and knows how many are missing, or none.
Link(X, a, u) ==
  /\ u.need \in Nat
  /\ u.need = 0 => Awaits(X, a) = <<>> /\ u.have = <<>>
  /\ u.need > 0 =>
       LET k == Len(u.have)
       IN  /\ u.have \in Seq(Byte) /\ k \in 1..a
           /\ \A j \in 1..k : u.have[j] = X[a - k + j]
           /\ Awaits(X, a - k) = <<>>
           /\ needed(u.have[1]) = k + u.need
           /\ Awaits(X, a) # <<>> /\ Awaits(X, a) # Bad

\* Bytes held by X lie in it from any of their places on.
LEMMA HoldingLies ==
  ASSUME NEW X, NEW a, NEW in, Holding(X, a, in), NEW i \in 1..Len(in)
  PROVE  Lies(X, a + i - 1, in, i, Len(in) + 1 - i)
<1> DEFINE N == Len(in)
           p == a + i - 1
           k == N + 1 - i
<1>1. X \in Seq(Byte) /\ in \in Seq(Byte) /\ a \in Nat /\ a + N <= Len(X) /\ N \in Nat /\ Len(X) \in Nat
  BY DEF Holding
<1>2. \A j \in 1..N : in[j] = X[a + j]
  BY DEF Holding
<1> HIDE DEF N
<1>3. i \in 1..N
  BY DEF N
<1>4. p \in Nat /\ k \in Nat /\ 1 <= k /\ p + k <= Len(X)
  BY <1>1, <1>3
<1>5. in[i] = X[p + 1]
  BY <1>1, <1>2, <1>3
<1>6. k >= 2 => in[i+1] = X[p+2]
  <2> SUFFICES ASSUME k >= 2 PROVE in[i+1] = X[p+2]
    OBVIOUS
  <2>1. i + 1 \in 1..N /\ a + (i + 1) = p + 2
    BY <1>1, <1>3
  <2> QED BY <1>2, <2>1
<1>7. k >= 3 => in[i+2] = X[p+3]
  <2> SUFFICES ASSUME k >= 3 PROVE in[i+2] = X[p+3]
    OBVIOUS
  <2>1. i + 2 \in 1..N /\ a + (i + 2) = p + 3
    BY <1>1, <1>3
  <2> QED BY <1>2, <2>1
<1>8. k >= 4 => in[i+3] = X[p+4]
  <2> SUFFICES ASSUME k >= 4 PROVE in[i+3] = X[p+4]
    OBVIOUS
  <2>1. i + 3 \in 1..N /\ a + (i + 3) = p + 4
    BY <1>1, <1>3
  <2> QED BY <1>2, <2>1
<1> HIDE DEF p, k
<1>9. Lies(X, p, in, i, k)
  BY <1>1, <1>4, <1>5, <1>6, <1>7, <1>8 DEF Lies
<1> QED BY <1>9 DEF p, k, N

\* The parts of which Link consists when a code point is incomplete.
LEMMA LinkOf ==
  ASSUME NEW X, NEW c, NEW need \in Nat, need > 0, NEW have \in Seq(Byte), Len(have) \in 1..c,
         \A j \in 1..Len(have) : have[j] = X[c - Len(have) + j],
         Awaits(X, c - Len(have)) = <<>>, needed(have[1]) = Len(have) + need,
         Awaits(X, c) # <<>>, Awaits(X, c) # Bad
  PROVE  Link(X, c, [need |-> need, have |-> have])
<1> DEFINE u == [need |-> need, have |-> have]
<1>1. u.need = need /\ u.have = have
  OBVIOUS
<1> HIDE DEF u
<1>2. ~(u.need = 0)
  BY <1>1
<1>3. Link(X, c, u)
  BY <1>1, <1>2 DEF Link
<1> QED BY <1>3 DEF u

\* Kept bytes of a code point that is not over: when valid_have() lets them pass
\* the checker stands behind them, otherwise the text is malformed.
LEMMA KeepsPoint ==
  ASSUME NEW X, NEW a, NEW have, Holding(X, a, have), Awaits(X, a) = <<>>,
         Len(have) >= 1, needed(have[1]) > Len(have), NEW need, need = needed(have[1]) - Len(have)
  PROVE  /\ valid_have(have) => Link(X, a + Len(have), [need |-> need, have |-> have])
         /\ ~valid_have(have) => Broken(X, a + Len(have))
<1> DEFINE k == Len(have)
           u == [need |-> need, have |-> have]
<1>1. a \in Nat /\ k \in Nat /\ have \in Seq(Byte)
  BY DEF Holding
<1>2. Lies(X, a, have, 1, k)
  <2>1. 1 \in 1..k /\ a + 1 - 1 = a /\ k + 1 - 1 = k
    BY <1>1
  <2>2. Lies(X, a + 1 - 1, have, 1, k + 1 - 1)
    BY <2>1, HoldingLies
  <2> QED BY <2>1, <2>2
<1>3. /\ Awaits(X, a + k) # <<>>
      /\ valid_have(have) <=> Awaits(X, a + k) # Bad
  BY <1>2, SomeOfPoint
<1>4. need \in Nat /\ need > 0 /\ needed(have[1]) = k + need
  <2>1. have[1] \in Byte
    BY <1>1
  <2>2. needed(have[1]) \in Nat
    <3> DEFINE b == have[1]
    <3>1. b \in 0..255 /\ b \in Byte
      BY <2>1 DEF Byte
    <3> HIDE DEF b
    <3>2. b < 128 \/ b \in 194..223 \/ b \in 224..239 \/ b \in 240..244 \/ (b >= 128 /\ b \notin 194..244)
      BY <3>1
    <3>3. needed(b) \in Nat
      BY <3>1, <3>2, NeededIs
    <3> QED BY <3>3 DEF b
  <2> QED BY <1>1, <2>2
<1>5. valid_have(have) => Link(X, a + k, u)
  <2> SUFFICES ASSUME valid_have(have) PROVE Link(X, a + k, u)
    OBVIOUS
  <2> DEFINE c == a + k
  <2>1. k \in 1..c /\ c - k = a /\ c \in Nat
    BY <1>1
  <2>2. \A j \in 1..k : have[j] = X[c - k + j]
    <3>1. \A j \in 1..k : have[j] = X[a + j]
      BY DEF Holding
    <3> HIDE DEF k, c
    <3> QED BY <2>1, <3>1
  <2>3. Awaits(X, c) # <<>> /\ Awaits(X, c) # Bad
    BY <1>3
  <2>4. Awaits(X, c - k) = <<>>
    BY <2>1
  <2> HIDE DEF c
  <2>5. Link(X, c, u)
    BY <1>1, <1>4, <2>1, <2>2, <2>3, <2>4, LinkOf
  <2> QED BY <2>5 DEF c
<1>6. ~valid_have(have) => Broken(X, a + k)
  <2>1. a + k \in 1..(a + k)
    BY <1>1
  <2> QED BY <1>3, <2>1 DEF Broken
<1> QED BY <1>5, <1>6

\* What Scan returns at its place i, when the text is well-formed up to there.
Judges(X, c, r) == (r.ok => Link(X, c, r.u)) /\ (~r.ok => Broken(X, c))

\* Where Scan stops in well-formed text, its result judges all of the bytes,
LEMMA HaltJudges ==
  ASSUME NEW X, NEW a, NEW in, Holding(X, a, in), ~Overlong(X),
         NEW i \in 1..(Len(in) + 1), Awaits(X, a + i - 1) = <<>>, Halts(in, i)
  PROVE  Judges(X, a + Len(in), Halt(<<>>, in, i))
<1> DEFINE N == Len(in)
           c == a + N
           p == a + i - 1
           left == N + 1 - i
           need == needed(in[i])
           some == <<>> \o SubSeq(in, i, N)
           bad == [ok |-> FALSE, u |-> [need |-> 0, have |-> <<>>]]
           wait == [ok |-> valid_have(some), u |-> [need |-> need - left, have |-> some]]
           good == [ok |-> TRUE, u |-> [need |-> 0, have |-> <<>>]]
           v == valid(in, i)
<1> SUFFICES Judges(X, c, Halt(<<>>, in, i))
  OBVIOUS
<1>0. /\ X \in Seq(Byte) /\ in \in Seq(Byte) /\ a \in Nat /\ c <= Len(X) /\ N \in Nat
      /\ \A j \in 1..N : in[j] = X[a + j]
  BY DEF Holding
<1>1. Halt(<<>>, in, i) = IF left = 0 THEN good ELSE IF left < 4 /\ need = 0 THEN bad
                    ELSE IF left < 4 /\ need > left THEN wait ELSE bad
  BY Zenon DEF Halt
<1>2. left = 0 \/ (left < 4 /\ (need = 0 \/ need > left)) \/ v = 0
  BY Zenon DEF Halts
<1>3. left \in Nat /\ p \in Nat /\ p + left = c
  BY <1>0
<1>4. Broken(X, c) => Judges(X, c, bad)
  <2>1. ~bad.ok
    OBVIOUS
  <2> HIDE DEF bad, c
  <2> QED BY <2>1 DEF Judges
<1>5. CASE left = 0
  <2>1. p = c /\ good.ok /\ good.u.need = 0 /\ good.u.have = <<>>
    BY <1>0, <1>5
  <2>2. Halt(<<>>, in, i) = good
    BY <1>1, <1>5
  <2>3. Awaits(X, c) = <<>>
    BY <2>1
  <2> HIDE DEF good, c
  <2> QED BY <2>1, <2>2, <2>3 DEF Judges, Link
<1>6. CASE left # 0
  <2>0. i \in 1..N
    BY <1>0, <1>6
  <2>1. Lies(X, p, in, i, left)
    BY <2>0, HoldingLies
  <2>2. CASE left < 4 /\ need = 0
    <3>1. Broken(X, p + left)
      BY <2>1, <2>2, NoPoint
    <3>2. Halt(<<>>, in, i) = bad
      BY <1>1, <1>6, <2>2
    <3> QED BY <1>3, <1>4, <3>1, <3>2
  <2>3. CASE left < 4 /\ need > left
    <3>1. some \in Seq(Byte) /\ Len(some) = left /\ \A j \in 1..left : some[j] = in[i - 1 + j]
      BY <1>0, <2>0
    <3>2. Holding(X, p, some)
      <4>1. ASSUME NEW j \in 1..left
            PROVE  in[i - 1 + j] = X[a + (i - 1 + j)] /\ a + (i - 1 + j) = p + j
        <5>1. i - 1 + j \in 1..N
          <6>1. j \in Nat /\ 1 <= j /\ j <= N + 1 - i
            BY <1>3
          <6> HIDE DEF N, left
          <6> QED BY <1>0, <2>0, <6>1
        <5>2. in[i - 1 + j] = X[a + (i - 1 + j)]
          BY <1>0, <5>1
        <5>3. a + (i - 1 + j) = p + j
          BY <1>0, <1>3
        <5> QED BY <5>2, <5>3
      <4>2. \A j \in 1..left : some[j] = X[p + j]
        BY <3>1, <4>1
      <4>3. p + Len(some) <= Len(X)
        BY <1>0, <1>3, <3>1
      <4> HIDE DEF some, p, left
      <4> QED BY <1>0, <1>3, <3>1, <4>2, <4>3 DEF Holding
    <3>3. some[1] = in[i] /\ left >= 1
      <4>1. 1 \in 1..left /\ i - 1 + 1 = i
        BY <1>3, <1>6, <2>0
      <4> QED BY <3>1, <4>1
    <3>4. Halt(<<>>, in, i) = wait
      BY <1>1, <1>6, <2>3
    <3>5. /\ wait.ok = valid_have(some)
          /\ wait.u = [need |-> need - left, have |-> some]
      BY Zenon
    <3>6. /\ valid_have(some) => Link(X, p + left, [need |-> need - left, have |-> some])
          /\ ~valid_have(some) => Broken(X, p + left)
      <4>1. needed(some[1]) = need /\ needed(some[1]) > Len(some) /\ Len(some) >= 1
            /\ need - left = needed(some[1]) - Len(some)
        BY <2>3, <3>1, <3>3
      <4> HIDE DEF some, left, need, p
      <4>2. Awaits(X, p) = <<>>
        BY DEF p
      <4> QED BY <3>1, <3>2, <4>1, <4>2, KeepsPoint
    <3> HIDE DEF wait, some, p, left, c
    <3> QED BY <1>3, <3>4, <3>5, <3>6 DEF Judges
  <2>4. CASE ~(left < 4 /\ (need = 0 \/ need > left))
    <3>1. v = 0
      BY <1>2, <1>6, <2>4
    <3>2. Halt(<<>>, in, i) = bad
      BY <1>1, <1>6, <2>4
    <3>3. needed(in[i]) <= left /\ (needed(in[i]) # 0 \/ left >= 4)
      <4>1. in[i] \in Byte
        BY <1>0, <2>0
      <4>2. need \in 0..4
        BY <4>1, NeededRange
      <4> HIDE DEF need, left
      <4>3. need <= left /\ (need # 0 \/ left >= 4)
        BY <1>3, <2>4, <4>2
      <4> QED BY <4>3 DEF need
    <3>4. Broken(X, p + left)
      BY <2>1, <3>1, <3>3, WholePoint
    <3> QED BY <1>3, <1>4, <3>2, <3>4
  <2> QED BY <2>2, <2>3, <2>4
<1> QED BY <1>5, <1>6

\* and so does what Scan returns for bytes that begin with a code point.
LEMMA ScanJudges ==
  ASSUME NEW X, NEW a, NEW in, Holding(X, a, in), ~Overlong(X), Awaits(X, a) = <<>>
  PROVE  Judges(X, a + Len(in), Scan(<<>>, in))
<1> DEFINE N == Len(in)
           c == a + N
<1>0. in \in Seq(Byte) /\ a \in Nat /\ N \in Nat
  BY DEF Holding
<1>1. PICK f : /\ Scan(<<>>, in) = f[1]
               /\ \A i \in 1..(N + 1) :
                    f[i] = IF Halts(in, i) THEN Halt(<<>>, in, i) ELSE f[i + valid(in, i)]
  BY <1>0, ScanIs
<1> DEFINE At(i) == Awaits(X, a + i - 1) = <<>> => Judges(X, c, f[i])
           S == {m \in Nat : \A l \in 0..m : l <= N => At(N + 1 - l)}
<1>2. ASSUME NEW i \in 1..(N + 1), Halts(in, i) PROVE At(i)
  <2> SUFFICES ASSUME Awaits(X, a + i - 1) = <<>> PROVE Judges(X, c, f[i])
    OBVIOUS
  <2>1. f[i] = Halt(<<>>, in, i)
    BY <1>1, <1>2
  <2>2. Judges(X, c, Halt(<<>>, in, i))
    BY <1>2, HaltJudges
  <2> QED BY <2>1, <2>2
<1>3. ASSUME NEW i \in 1..(N + 1), ~Halts(in, i), At(i + valid(in, i)) PROVE At(i)
  <2> SUFFICES ASSUME Awaits(X, a + i - 1) = <<>> PROVE Judges(X, c, f[i])
    OBVIOUS
  <2> DEFINE v == valid(in, i)
             p == a + i - 1
             left == N + 1 - i
  <2>1. i \in 1..N /\ i + v \in (i+1)..(N + 1)
    BY <1>0, <1>3, ScanGoesOn
  <2>2. ~(left < 4 /\ (needed(in[i]) = 0 \/ needed(in[i]) > left)) /\ v # 0
    BY <1>3, Zenon DEF Halts
  <2>3. Lies(X, p, in, i, left)
    BY <2>1, HoldingLies
  <2>4. needed(in[i]) <= left /\ (needed(in[i]) # 0 \/ left >= 4)
    <3>1. in[i] \in Byte
      BY <1>0, <2>1
    <3> DEFINE need == needed(in[i])
    <3>2. need \in 0..4
      BY <3>1, NeededRange
    <3>3. left \in Nat
      BY <1>0
    <3> HIDE DEF need, left
    <3>4. need <= left /\ (need # 0 \/ left >= 4)
      <4>1. ~(left < 4 /\ (need = 0 \/ need > left))
        BY <2>2 DEF need
      <4> QED BY <3>2, <3>3, <4>1
    <3> QED BY <3>4 DEF need
  <2>5. Awaits(X, p + v) = <<>>
    BY <2>2, <2>3, <2>4, WholePoint
  <2>6. f[i] = f[i + v]
    BY <1>1, <1>3
  <2>7. a + (i + v) - 1 = p + v
    <3>1. v \in 0..4
      <4>1. in[i] \in Byte
        BY <1>0, <2>1
      <4> QED BY <4>1, PointLength
    <3> HIDE DEF v
    <3> QED BY <1>0, <3>1
  <2>8. Awaits(X, a + (i + v) - 1) = <<>>
    BY <2>5, <2>7
  <2>9. Judges(X, c, f[i + v])
    BY <1>3, <2>8
  <2> QED BY <2>6, <2>9
<1> HIDE DEF At
<1>4. 0 \in S
  <2>1. N + 1 \in 1..(N + 1) /\ Halts(in, N + 1)
    BY <1>0 DEF Halts
  <2>2. At(N + 1)
    BY <1>2, <2>1
  <2>3. \A l \in 0..0 : N + 1 - l = N + 1
    BY <1>0
  <2> QED BY <2>2, <2>3
<1>5. ASSUME NEW m \in Nat, m \in S PROVE m + 1 \in S
  <2> SUFFICES ASSUME NEW l \in 0..(m+1), l <= N PROVE At(N + 1 - l)
    OBVIOUS
  <2>1. CASE l <= m
    <3>1. l \in 0..m
      BY <2>1
    <3> QED BY <1>5, <3>1
  <2>2. CASE l = m + 1
    <3> DEFINE i == N + 1 - l
               v == valid(in, i)
    <3>1. i \in 1..(N + 1)
      BY <1>0
    <3>2. CASE Halts(in, i)
      BY <1>2, <3>1, <3>2
    <3>3. CASE ~Halts(in, i)
      <4>1. i + v \in (i+1)..(N + 1)
        BY <1>0, <3>1, <3>3, ScanGoesOn
      <4> DEFINE k == N + 1 - (i + v)
      <4>2. k \in 0..m /\ k <= N /\ N + 1 - k = i + v
        <5> HIDE DEF v
        <5> QED BY <1>0, <2>2, <3>1, <4>1
      <4> HIDE DEF k
      <4>3. At(N + 1 - k)
        BY <1>5, <4>2
      <4>4. At(i + v)
        BY <4>2, <4>3
      <4> QED BY <1>3, <3>1, <3>3, <4>4
    <3> QED BY <3>2, <3>3
  <2>3. l <= m \/ l = m + 1
    OBVIOUS
  <2> QED BY <2>1, <2>2, <2>3
<1>6. S = Nat
  <2>1. S \in SUBSET Nat
    OBVIOUS
  <2> HIDE DEF S
  <2> QED BY <1>4, <1>5, <2>1, Induct
<1>7. At(1)
  <2>1. N \in S
    <3> HIDE DEF S
    <3> QED BY <1>0, <1>6
  <2>2. N \in 0..N /\ N + 1 - N = 1
    BY <1>0
  <2>3. At(N + 1 - N)
    <3> HIDE DEF N
    <3> QED BY <1>0, <2>1, <2>2
  <2> QED BY <2>2, <2>3
<1>8. a + 1 - 1 = a
  BY <1>0
<1> QED BY <1>1, <1>7, <1>8 DEF At

\* Text malformed at a byte no later than the p-th is so for every q behind p.
LEMMA BrokenOn ==
  ASSUME NEW X, NEW p \in Nat, NEW q \in Nat, p <= q, Broken(X, p)
  PROVE  Broken(X, q)
<1>1. PICK r \in 1..p : Awaits(X, r) = Bad
  BY DEF Broken
<1>2. r \in 1..q
  OBVIOUS
<1> QED BY <1>1, <1>2 DEF Broken

\* The bytes behind the first n lie in X n further on.
LEMMA HoldingRest ==
  ASSUME NEW X, NEW a, NEW in, Holding(X, a, in), NEW n \in 0..Len(in)
  PROVE  LET rest == SubSeq(in, n + 1, Len(in))
         IN  Holding(X, a + n, rest) /\ Len(rest) = Len(in) - n
<1> DEFINE rest == SubSeq(in, n + 1, Len(in))
<1>0. /\ X \in Seq(Byte) /\ in \in Seq(Byte) /\ a \in Nat /\ a + Len(in) <= Len(X) /\ Len(in) \in Nat
      /\ \A j \in 1..Len(in) : in[j] = X[a + j]
  BY DEF Holding
<1>1. rest \in Seq(Byte) /\ Len(rest) = Len(in) - n /\ \A j \in 1..Len(rest) : rest[j] = in[n + j]
  BY <1>0
<1>2. ASSUME NEW j \in 1..Len(rest) PROVE rest[j] = X[a + n + j]
  <2>1. n + j \in 1..Len(in) /\ a + (n + j) = a + n + j
    BY <1>0, <1>1
  <2> HIDE DEF rest
  <2> QED BY <1>0, <1>1, <2>1
<1> HIDE DEF rest
<1>3. a + n \in Nat /\ a + n + Len(rest) <= Len(X)
  BY <1>0, <1>1
<1>4. Holding(X, a + n, rest)
  BY <1>0, <1>1, <1>2, <1>3 DEF Holding
<1> QED BY <1>1, <1>4 DEF rest

\* What was kept of a code point, with the first n bytes of in behind it.
Together(kept, in, n, have) ==
  /\ have \in Seq(Byte) /\ Len(have) = Len(kept) + n
  /\ \A j \in 1..Len(kept) : have[j] = kept[j]
  /\ \A j \in 1..n : have[Len(kept) + j] = in[j]

\* The checker u behind a bytes of X waits for more, and gets n bytes of in.
Completing(X, a, in, u, n, have) ==
  /\ Holding(X, a, in) /\ Link(X, a, u) /\ u.need > 0
  /\ n \in 0..Len(in) /\ Together(u.have, in, n, have)

\* The kept bytes and those behind them lie in X where the code point begins.
Completes(X, a, u, n, have) ==
  /\ Holding(X, a - Len(u.have), have) /\ Len(have) = Len(u.have) + n
  /\ Len(u.have) \in 1..a /\ have[1] = u.have[1]

\* What the checker keeps of a code point, with the first n bytes of the next
\* buffer behind it, lies in X.
LEMMA HoldingMore ==
  ASSUME NEW X, NEW a, NEW in, NEW u, NEW n, NEW have, Completing(X, a, in, u, n, have)
  PROVE  Completes(X, a, u, n, have)
<1> DEFINE k == Len(u.have)
<1>0. /\ X \in Seq(Byte) /\ in \in Seq(Byte) /\ a \in Nat /\ a + Len(in) <= Len(X) /\ Len(in) \in Nat
      /\ n \in 0..Len(in)
      /\ \A j \in 1..Len(in) : in[j] = X[a + j]
  BY DEF Completing, Holding
<1>1. u.have \in Seq(Byte) /\ k \in 1..a /\ \A j \in 1..k : u.have[j] = X[a - k + j]
  BY DEF Completing, Link
<1>3. /\ have \in Seq(Byte) /\ Len(have) = k + n
      /\ \A j \in 1..k : have[j] = u.have[j]
      /\ \A j \in 1..n : have[k + j] = in[j]
  BY DEF Completing, Together
<1> HIDE DEF k
<1>4. ASSUME NEW j \in 1..(k+n) PROVE have[j] = X[a - k + j]
  <2>1. CASE j <= k
    <3>1. j \in 1..k
      BY <2>1, <1>1
    <3> QED BY <1>1, <1>3, <3>1
  <2>2. CASE j > k
    <3>1. j - k \in 1..n /\ j - k \in 1..Len(in) /\ a + (j - k) = a - k + j /\ k + (j - k) = j
      BY <1>0, <1>1, <2>2
    <3>2. have[k + (j - k)] = in[j - k] /\ in[j - k] = X[a + (j - k)]
      BY <1>0, <1>3, <3>1
    <3> QED BY <3>1, <3>2
  <2> QED BY <1>1, <2>1, <2>2
<1>5. a - k \in Nat /\ a - k + Len(have) <= Len(X)
  BY <1>0, <1>1, <1>3
<1>6. Holding(X, a - k, have)
  BY <1>0, <1>3, <1>4, <1>5 DEF Holding
<1>7. 1 \in 1..k
  BY <1>1
<1>8. have[1] = u.have[1]
  BY <1>3, <1>7
<1> QED BY <1>1, <1>3, <1>6, <1>8 DEF k, Completes

\* write(in, size): when it succeeds the checker stands behind the bytes too, and
\* when it fails the text is malformed, whatever the checker kept before.
LEMMA WriteJudges ==
  ASSUME NEW X, NEW a, NEW in, Holding(X, a, in), ~Overlong(X), NEW u, Link(X, a, u)
  PROVE  Judges(X, a + Len(in), write_utf8(u, in))
<1> DEFINE N == Len(in)
           c == a + N
           n == IF N < u.need THEN N ELSE u.need
           have == u.have \o SubSeq(in, 1, n)
           rest == SubSeq(in, n + 1, N)
           wait == [ok |-> valid_have(have), u |-> [need |-> u.need - n, have |-> have]]
           bad == [ok |-> FALSE, u |-> [need |-> 0, have |-> have]]
<1> SUFFICES Judges(X, c, write_utf8(u, in))
  OBVIOUS
<1>0. in \in Seq(Byte) /\ a \in Nat /\ N \in Nat /\ u.need \in Nat
  BY DEF Holding, Link
<1>1. write_utf8(u, in) = IF u.need = 0 THEN Scan(u.have, in) ELSE IF n < u.need THEN wait
                          ELSE IF valid(have, 1) = 0 THEN bad ELSE Scan(<<>>, rest)
  BY Zenon DEF write_utf8
<1>2. CASE u.need = 0
  <2>1. Awaits(X, a) = <<>> /\ u.have = <<>>
    BY <1>2 DEF Link
  <2>2. Judges(X, c, Scan(<<>>, in))
    BY <2>1, ScanJudges
  <2> QED BY <1>1, <1>2, <2>1, <2>2
<1>3. CASE u.need # 0
  <2> DEFINE k == Len(u.have)
             b == a - k
  <2>0. u.need > 0
    BY <1>0, <1>3
  <2>1. n \in 0..N /\ n <= u.need
    BY <1>0
  <2>2. Holding(X, b, have) /\ Len(have) = k + n /\ k \in 1..a /\ have[1] = u.have[1]
    <3>1. n \in 0..Len(in)
      BY <2>1
    <3> DEFINE s == u.have
               more == SubSeq(in, 1, n)
    <3>2. s \in Seq(Byte) /\ k = Len(s)
      BY <2>0 DEF Link
    <3> HIDE DEF n
    <3>3. more \in Seq(Byte) /\ Len(more) = n /\ \A j \in 1..n : more[j] = in[j]
      BY <1>0, <3>1
    <3>4. /\ have \in Seq(Byte) /\ Len(have) = k + n
          /\ \A j \in 1..k : have[j] = s[j]
          /\ \A j \in 1..n : have[k + j] = more[j]
      <4>1. have = s \o more
        OBVIOUS
      <4> HIDE DEF more, s, have, k
      <4>2. have \in Seq(Byte) /\ Len(have) = k + n
        <5>1. s \in Seq(Byte) /\ more \in Seq(Byte)
          BY <3>2, <3>3
        <5>2. have \in Seq(Byte)
          BY <4>1, <5>1
        <5>3. Len(have) = Len(s) + Len(more)
          BY <4>1, <5>1
        <5> QED BY <3>2, <3>3, <5>2, <5>3
      <4>3. \A j \in 1..k : have[j] = s[j]
        BY <3>2, <3>3, <4>1
      <4>4. \A j \in 1..n : have[k + j] = more[j]
        BY <3>2, <3>3, <4>1
      <4> QED BY <4>2, <4>3, <4>4
    <3>5. \A j \in 1..n : have[k + j] = in[j]
      <4> HIDE DEF more, have, k
      <4> QED BY <3>3, <3>4
    <3>6. k = Len(u.have) /\ s = u.have
      OBVIOUS
    <3> HIDE DEF have, more
    <3>7. Together(u.have, in, n, have)
      BY <3>4, <3>5 DEF Together
    <3>8. /\ Holding(X, a - Len(u.have), have) /\ Len(have) = Len(u.have) + n
          /\ Len(u.have) \in 1..a /\ have[1] = u.have[1]
      <4> HIDE DEF n, N, c, k, b, s, rest, wait, bad
      <4>1. Completing(X, a, in, u, n, have)
        BY Zenon, <2>0, <3>1, <3>7 DEF Completing
      <4>2. Completes(X, a, u, n, have)
        BY Zenon, <4>1, HoldingMore
      <4> QED BY Zenon, <4>2 DEF Completes
    <3> QED BY <3>8
  <2>3. Awaits(X, b) = <<>> /\ needed(u.have[1]) = k + u.need
    BY <2>0 DEF Link
  <2>4. CASE n < u.need
    <3>1. n = N /\ b + (k + n) = c
      BY <1>0, <2>2, <2>4
    <3>2. write_utf8(u, in) = wait
      BY <1>1, <1>3, <2>4
    <3> DEFINE need == u.need - n
    <3>3. Len(have) >= 1 /\ needed(have[1]) > Len(have) /\ need = needed(have[1]) - Len(have)
      <4> HIDE DEF have, k, n
      <4> QED BY <1>0, <2>1, <2>2, <2>3, <2>4
    <3>4. wait.ok = valid_have(have) /\ wait.u = [need |-> need, have |-> have]
      BY Zenon
    <3> HIDE DEF have, wait, b, k, n, need, c
    <3>5. /\ valid_have(have) => Link(X, b + Len(have), [need |-> need, have |-> have])
          /\ ~valid_have(have) => Broken(X, b + Len(have))
      BY <2>2, <2>3, <3>3, KeepsPoint
    <3>6. b + Len(have) = c
      BY <2>2, <3>1
    <3> QED BY <3>2, <3>4, <3>5, <3>6 DEF Judges
  <2>5. CASE ~(n < u.need)
    <3>1. n = u.need /\ b + (k + n) = a + n /\ a + n <= c /\ a + n \in Nat /\ c \in Nat
      BY <1>0, <2>1, <2>2, <2>5
    <3> DEFINE m == k + n
    <3>2. Lies(X, b, have, 1, m)
      <4>1. b \in Nat /\ m \in Nat /\ 1 \in 1..Len(have) /\ b + 1 - 1 = b /\ m + 1 - 1 = m
        BY <1>0, <2>1, <2>2
      <4> HIDE DEF have, b, m
      <4>2. Lies(X, b + 1 - 1, have, 1, Len(have) + 1 - 1)
        BY <2>2, <4>1, HoldingLies
      <4>3. Len(have) = m
        BY <2>2 DEF m
      <4> QED BY <4>1, <4>2, <4>3
    <3>3. needed(have[1]) = m /\ m # 0 /\ m <= m
      BY <1>0, <2>1, <2>2, <2>3, <3>1, SMTT(30)
    <3> HIDE DEF have, b, m
    <3>4. LET v == valid(have, 1)
          IN  /\ v = 0 => Broken(X, b + m)
              /\ v # 0 => v = m /\ Awaits(X, b + v) = <<>>
      BY <2>3, <3>2, <3>3, WholePoint
    <3>5. b + m = a + n
      BY <3>1 DEF m
    <3>6. CASE valid(have, 1) = 0
      <4>1. write_utf8(u, in) = bad
        BY <1>1, <1>3, <2>5, <3>6
      <4>2. Broken(X, c)
        <5>1. Broken(X, a + n)
          BY <3>4, <3>5, <3>6
        <5> QED BY <3>1, <5>1, BrokenOn
      <4>3. ~bad.ok
        OBVIOUS
      <4> HIDE DEF bad, c
      <4> QED BY <4>1, <4>2, <4>3 DEF Judges
    <3>7. CASE valid(have, 1) # 0
      <4>1. write_utf8(u, in) = Scan(<<>>, rest)
        BY <1>1, <1>3, <2>5, <3>7
      <4>2. Awaits(X, a + n) = <<>>
        BY <3>4, <3>5, <3>7
      <4>3. Holding(X, a + n, rest) /\ Len(rest) = N - n
        BY <2>1, HoldingRest, SMTT(30)
      <4>4. a + n + Len(rest) = c
        <5> HIDE DEF rest, n, N
        <5> QED BY <1>0, <2>1, <4>3
      <4> HIDE DEF rest, n, c
      <4>5. Judges(X, a + n + Len(rest), Scan(<<>>, rest))
        BY <4>2, <4>3, ScanJudges
      <4> QED BY <4>1, <4>4, <4>5
    <3> QED BY <3>6, <3>7
  <2> QED BY <2>4, <2>5
<1> QED BY <1>2, <1>3

\* The recursion of write_buffers.
Feeds(u, chunks, n, f) ==
  f = [i \in 0..n |-> IF i = 0 THEN [ok |-> TRUE, u |-> u]
                      ELSE IF f[i-1].ok THEN write_utf8(f[i-1].u, chunks[i]) ELSE f[i-1]]

\* write_buffers is that recursion at its end.
LEMMA FeedsIs ==
  ASSUME NEW u, NEW chunks
  PROVE  write_buffers(u, chunks) = (CHOOSE f : Feeds(u, chunks, Len(chunks), f))[Len(chunks)]
BY Zenon DEF write_buffers, Feeds

\* Some function satisfies that recursion.
LEMMA FeedExists == ASSUME NEW u, NEW chunks, NEW n \in Nat PROVE \E f : Feeds(u, chunks, n, f)
<1> DEFINE Fed(f, i) == IF i = 0 THEN [ok |-> TRUE, u |-> u]
                        ELSE IF f[i-1].ok THEN write_utf8(f[i-1].u, chunks[i]) ELSE f[i-1]
           S == {m \in Nat : \E f : \A i \in 0..m : f[i] = Fed(f, i)}
<1>1. 0 \in S
  <2> DEFINE f == [i \in 0..0 |-> [ok |-> TRUE, u |-> u]]
  <2>1. \A i \in 0..0 : i = 0 /\ f[i] = [ok |-> TRUE, u |-> u]
    OBVIOUS
  <2> HIDE DEF f
  <2>2. \A i \in 0..0 : f[i] = Fed(f, i)
    BY <2>1
  <2> QED BY <2>2
<1>2. ASSUME NEW m \in Nat, m \in S PROVE m + 1 \in S
  <2>1. PICK f : \A i \in 0..m : f[i] = Fed(f, i)
    BY <1>2
  <2> DEFINE g == [i \in 0..(m+1) |-> IF i = m + 1 THEN Fed(f, m + 1) ELSE f[i]]
  <2>2. g[m+1] = Fed(f, m + 1) /\ \A i \in 0..m : g[i] = f[i]
    OBVIOUS
  <2> HIDE DEF g
  <2>3. ASSUME NEW i \in 0..(m+1) PROVE Fed(g, i) = Fed(f, i)
    <3>1. CASE i = 0
      BY <3>1
    <3>2. CASE i # 0
      <4>1. i - 1 \in 0..m
        BY <3>2
      <4>2. g[i-1] = f[i-1]
        BY <2>2, <4>1
      <4> QED BY <4>2
    <3> QED BY <3>1, <3>2
  <2>4. ASSUME NEW i \in 0..(m+1) PROVE g[i] = Fed(g, i)
    <3> HIDE DEF Fed
    <3>1. CASE i = m + 1
      BY <2>2, <2>3, <3>1
    <3>2. CASE i # m + 1
      <4>1. i \in 0..m
        BY <3>2
      <4>2. g[i] = Fed(f, i)
        BY <2>1, <2>2, <4>1
      <4> QED BY <2>3, <4>2
    <3> QED BY <3>1, <3>2
  <2> HIDE DEF Fed
  <2> QED BY <2>4
<1>3. S = Nat
  <2>1. S \in SUBSET Nat
    OBVIOUS
  <2> HIDE DEF S
  <2> QED BY <1>1, <1>2, <2>1, Induct
<1>4. PICK f : \A i \in 0..n : f[i] = Fed(f, i)
  BY <1>3
<1> DEFINE g == [i \in 0..n |-> f[i]]
<1>5. \A i \in 0..n : g[i] = f[i]
  OBVIOUS
<1>6. g = [i \in 0..n |-> g[i]]
  OBVIOUS
<1> HIDE DEF g
<1>7. ASSUME NEW i \in 0..n PROVE g[i] = Fed(g, i)
  <2>1. g[i] = Fed(f, i)
    <3> HIDE DEF Fed
    <3> QED BY <1>4, <1>5
  <2>2. Fed(f, i) = Fed(g, i)
    <3>1. CASE i = 0
      BY <3>1
    <3>2. CASE i # 0
      <4>1. i - 1 \in 0..n
        BY <3>2
      <4>2. g[i-1] = f[i-1]
        BY <1>5, <4>1
      <4> QED BY <4>2
    <3> QED BY <3>1, <3>2
  <2> HIDE DEF Fed
  <2> QED BY <2>1, <2>2
<1>8. [i \in 0..n |-> g[i]] = [i \in 0..n |-> Fed(g, i)]
  <2> HIDE DEF Fed
  <2> QED BY <1>7
<1>9. Feeds(u, chunks, n, g)
  <2>1. g = [i \in 0..n |-> Fed(g, i)]
    BY <1>6, <1>8, Zenon
  <2> QED BY <2>1, Zenon DEF Feeds
<1> QED BY <1>9

\* The bytes from the p-th to the q-th lie in X p further on.
LEMMA HoldingPart ==
  ASSUME NEW X, NEW a, NEW in, Holding(X, a, in), NEW p \in 0..Len(in), NEW q \in p..Len(in)
  PROVE  LET part == SubSeq(in, p + 1, q)
         IN  Holding(X, a + p, part) /\ Len(part) = q - p
<1> DEFINE part == SubSeq(in, p + 1, q)
<1>0. /\ X \in Seq(Byte) /\ in \in Seq(Byte) /\ a \in Nat /\ a + Len(in) <= Len(X) /\ Len(in) \in Nat
      /\ \A j \in 1..Len(in) : in[j] = X[a + j]
  BY DEF Holding
<1>1. part \in Seq(Byte) /\ Len(part) = q - p /\ \A j \in 1..(q-p) : part[j] = in[p + j]
  BY <1>0, SMTT(30)
<1>2. ASSUME NEW j \in 1..(q-p) PROVE part[j] = X[a + p + j]
  <2>1. p + j \in 1..Len(in) /\ a + (p + j) = a + p + j
    BY <1>0
  <2> HIDE DEF part
  <2> QED BY <1>0, <1>1, <2>1
<1> HIDE DEF part
<1>3. a + p \in Nat /\ a + p + Len(part) <= Len(X)
  BY <1>0, <1>1
<1>4. Holding(X, a + p, part)
  BY <1>0, <1>1, <1>2, <1>3 DEF Holding
<1> QED BY <1>1, <1>4 DEF part

\* write(buffers) judges the bytes as write(in, size) would, when the buffers are
\* the bytes cut at the places o.
LEMMA BuffersJudge ==
  ASSUME NEW X, NEW a, NEW in, Holding(X, a, in), ~Overlong(X), NEW u, Link(X, a, u),
         NEW chunks, Len(chunks) \in Nat, NEW o, o[0] = 0, o[Len(chunks)] = Len(in),
         \A j \in 0..Len(chunks) : o[j] \in 0..Len(in),
         \A j \in 1..Len(chunks) : o[j-1] <= o[j] /\ chunks[j] = SubSeq(in, o[j-1] + 1, o[j])
  PROVE  Judges(X, a + Len(in), write_buffers(u, chunks))
<1> DEFINE n == Len(chunks)
           f == CHOOSE h : Feeds(u, chunks, n, h)
           S == {j \in Nat : j <= n => Judges(X, a + o[j], f[j])}
<1>0. a \in Nat /\ Len(in) \in Nat
  BY DEF Holding
<1>1. Feeds(u, chunks, n, f)
  BY FeedExists
<1>2. write_buffers(u, chunks) = f[n]
  BY FeedsIs
<1> HIDE DEF f
<1>3. \A i \in 0..n : f[i] = IF i = 0 THEN [ok |-> TRUE, u |-> u]
                             ELSE IF f[i-1].ok THEN write_utf8(f[i-1].u, chunks[i]) ELSE f[i-1]
  BY <1>1 DEF Feeds
<1>4. 0 \in S
  <2>1. f[0].ok /\ f[0].u = u
    BY <1>3
  <2>2. a + o[0] = a
    BY <1>0
  <2>3. Judges(X, a + o[0], f[0])
    BY <2>1, <2>2 DEF Judges
  <2> QED BY <2>3
<1>5. ASSUME NEW j \in Nat, j \in S PROVE j + 1 \in S
  <2> SUFFICES ASSUME j + 1 <= n PROVE Judges(X, a + o[j+1], f[j+1])
    OBVIOUS
  <2>1. Judges(X, a + o[j], f[j])
    BY <1>5
  <2>2. j + 1 \in 1..n /\ j + 1 \in 0..n /\ j \in 0..n /\ (j + 1) - 1 = j /\ j + 1 # 0
    OBVIOUS
  <2>3. f[j+1] = IF f[j].ok THEN write_utf8(f[j].u, chunks[j+1]) ELSE f[j]
    BY <1>3, <2>2
  <2>4. /\ o[j] \in 0..Len(in) /\ o[j+1] \in 0..Len(in) /\ o[j] <= o[j+1]
        /\ chunks[j+1] = SubSeq(in, o[j] + 1, o[j+1])
    BY <2>2
  <2>5. CASE f[j].ok
    <3>1. Link(X, a + o[j], f[j].u)
      BY <2>1, <2>5 DEF Judges
    <3>2. o[j+1] \in o[j]..Len(in)
      BY <2>4
    <3> DEFINE part == chunks[j+1]
    <3>3. Holding(X, a + o[j], part) /\ Len(part) = o[j+1] - o[j]
      BY <2>4, <3>2, HoldingPart, SMTT(30)
    <3>4. a + o[j] + Len(part) = a + o[j+1]
      BY <1>0, <2>4, <3>3
    <3> HIDE DEF part
    <3>5. Judges(X, a + o[j] + Len(part), write_utf8(f[j].u, part))
      BY <3>1, <3>3, WriteJudges
    <3>6. f[j+1] = write_utf8(f[j].u, part)
      BY <2>3, <2>5 DEF part
    <3> QED BY <3>4, <3>5, <3>6
  <2>6. CASE ~f[j].ok
    <3>1. f[j+1] = f[j] /\ Broken(X, a + o[j])
      BY <2>1, <2>3, <2>6 DEF Judges
    <3>2. a + o[j] \in Nat /\ a + o[j+1] \in Nat /\ a + o[j] <= a + o[j+1]
      <4> DEFINE p == o[j]
                 q == o[j+1]
      <4>1. p \in 0..Len(in) /\ q \in 0..Len(in) /\ p <= q
        BY <2>4
      <4>2. a + p \in Nat /\ a + q \in Nat /\ a + p <= a + q
        <5> HIDE DEF p, q
        <5> QED BY <1>0, <4>1
      <4> QED BY <4>2
    <3>3. Broken(X, a + o[j+1])
      BY <3>1, <3>2, BrokenOn
    <3> QED BY <2>6, <3>1, <3>3 DEF Judges
  <2> QED BY <2>5, <2>6
<1>6. S = Nat
  <2>1. S \in SUBSET Nat
    OBVIOUS
  <2> HIDE DEF S
  <2> QED BY <1>4, <1>5, <2>1, Induct
<1>7. Judges(X, a + o[n], f[n])
  <2>1. n \in S
    <3> HIDE DEF S
    <3> QED BY <1>6
  <2> QED BY <2>1
<1> QED BY <1>2, <1>7

-----------------------------------------------------------------------------
\* Cut gives one part for each size: the bytes between the sum of those before and
\* the sum with it.
LEMMA CutIs ==
  ASSUME NEW in, NEW s \in Seq(Nat)
  PROVE  /\ Len(Cut(in, s)) = Len(s)
         /\ \A j \in 1..Len(s) : Cut(in, s)[j] = SubSeq(in, Total(s, j-1) + 1, Total(s, j))
<1>1. Cut(in, s) = [j \in 1..Len(s) |-> SubSeq(in, Total(s, j-1) + 1, Total(s, j))]
  BY Zenon DEF Cut, Total
<1> DEFINE c == Cut(in, s)
           h == Len(s)
           g(j) == SubSeq(in, Total(s, j-1) + 1, Total(s, j))
<1>2. c = [j \in 1..h |-> g(j)] /\ h \in Nat
  BY <1>1
<1> SUFFICES Len(c) = h /\ \A j \in 1..h : c[j] = g(j)
  OBVIOUS
<1> HIDE DEF c, h, g
<1>3. \A j \in 1..h : c[j] = g(j)
  BY <1>2
<1>4. Len(c) = h
  BY <1>2
<1> QED BY <1>3, <1>4

\* write(buffers) judges bytes cut into parts of any sizes.
LEMMA CutJudges ==
  ASSUME NEW X, NEW a, NEW in, Holding(X, a, in), ~Overlong(X), NEW u, Link(X, a, u),
         NEW s \in Seq(Nat), Total(s, Len(s)) = Len(in)
  PROVE  Judges(X, a + Len(in), write_buffers(u, Cut(in, s)))
<1> DEFINE chunks == Cut(in, s)
           o == [j \in 0..Len(s) |-> Total(s, j)]
           h == Len(s)
<1>1. /\ Total(s, 0) = 0 /\ h \in Nat
      /\ \A j \in 0..h : Total(s, j) \in Nat
      /\ \A i \in 0..h : \A j \in i..h : Total(s, i) <= Total(s, j)
  BY TotalIs
<1>2. Len(chunks) = h /\ \A j \in 1..h : chunks[j] = SubSeq(in, Total(s, j-1) + 1, Total(s, j))
  BY CutIs
<1>3. \A j \in 0..h : o[j] = Total(s, j)
  OBVIOUS
<1> SUFFICES Judges(X, a + Len(in), write_buffers(u, chunks))
  OBVIOUS
<1> HIDE DEF chunks, o, h
<1>4. 0 \in 0..h /\ h \in 0..h /\ \A j \in 1..h : j \in 0..h /\ j - 1 \in 0..h /\ j \in (j-1)..h
  BY <1>1
<1>5. o[0] = 0 /\ o[h] = Len(in)
  BY <1>1, <1>3, <1>4 DEF h
<1>6. \A j \in 0..h : o[j] \in 0..Len(in)
  <2> TAKE j \in 0..h
  <2>1. h \in j..h
    BY <1>1
  <2>2. Total(s, j) <= Total(s, h) /\ Total(s, j) \in Nat /\ Total(s, h) \in Nat
    BY <1>1, <1>4, <2>1
  <2>3. Total(s, h) = Len(in)
    BY DEF h
  <2> QED BY <1>3, <2>2, <2>3
<1>7. ASSUME NEW j \in 1..h PROVE o[j-1] <= o[j] /\ chunks[j] = SubSeq(in, o[j-1] + 1, o[j])
  <2>1. o[j-1] = Total(s, j-1) /\ o[j] = Total(s, j)
    BY <1>3, <1>4
  <2>2. Total(s, j-1) <= Total(s, j)
    BY <1>1, <1>4
  <2> QED BY <1>2, <2>1, <2>2
<1>8. Len(chunks) \in Nat /\ o[Len(chunks)] = Len(in)
  BY <1>1, <1>2, <1>5
<1>9. /\ \A j \in 0..Len(chunks) : o[j] \in 0..Len(in)
      /\ \A j \in 1..Len(chunks) : o[j-1] <= o[j] /\ chunks[j] = SubSeq(in, o[j-1] + 1, o[j])
  BY <1>2, <1>6, <1>7
<1> QED BY <1>5, <1>8, <1>9, BuffersJudge

-----------------------------------------------------------------------------
(* The checker and what well-formed text is.                               *)

\* The ranges a byte inside a code point can have to lie in.
Ranges == {T, <<160, 191>>, <<128, 159>>, <<144, 191>>, <<128, 143>>}

\* None of them is that of malformed text, or reaches the bytes a code point
\* begins with.
LEMMA RangesLow ==
  ASSUME NEW r \in Ranges
  PROVE  r # <<1, 0>> /\ \A b : b \in {192, 193} => ~(b \in r[1]..r[2])
<1>1. r[1] \in {128, 160, 144} /\ r[2] \in {191, 159, 143}
  BY DEF Ranges, T
<1>2. <<1, 0>>[1] = 1
  OBVIOUS
<1>3. r # <<1, 0>>
  <2>1. r[1] # 1
    BY <1>1
  <2> QED BY <1>2, <2>1
<1>4. \A b : b \in {192, 193} => ~(b \in r[1]..r[2])
  BY <1>1
<1> QED BY <1>3, <1>4

\* What Lead expects is a list of such ranges, or the mark of malformed text.
LEMMA LeadRanges == ASSUME NEW b \in Byte PROVE Lead(b) = Bad \/ Lead(b) \in Seq(Ranges)
<1>1. T \in Ranges /\ Ran(b) \in Ranges
  BY DEF Ranges, Ran
<1>2. /\ <<>> \in Seq(Ranges)
      /\ \A p, q, r \in Ranges : <<p>> \in Seq(Ranges) /\ <<p, q>> \in Seq(Ranges) /\ <<p, q, r>> \in Seq(Ranges)
  OBVIOUS
<1>3. /\ <<>> \in Seq(Ranges) /\ <<T>> \in Seq(Ranges) /\ <<Ran(b), T>> \in Seq(Ranges)
      /\ <<Ran(b), T, T>> \in Seq(Ranges)
  BY <1>1, <1>2
<1>4. b < 128 \/ b \in 194..223 \/ b \in 224..239 \/ b \in 240..244 \/ (b >= 128 /\ b \notin 194..244)
  BY DEF Byte
<1>5. \/ Lead(b) = <<>> \/ Lead(b) = <<T>> \/ Lead(b) = <<Ran(b), T>> \/ Lead(b) = <<Ran(b), T, T>>
      \/ Lead(b) = Bad
  BY <1>4, LeadIs, Zenon
<1> QED BY <1>3, <1>5, Zenon

\* What is expected is a list of such ranges, or the text is malformed.
LEMMA AwaitsShape ==
  ASSUME NEW X \in Seq(Byte), NEW i \in 0..Len(X)
  PROVE  Awaits(X, i) = Bad \/ Awaits(X, i) \in Seq(Ranges)
<1> DEFINE Fine(e) == e = Bad \/ e \in Seq(Ranges)
           S == {n \in Nat : n <= Len(X) => Fine(Awaits(X, n))}
<1>0. Len(X) \in Nat
  OBVIOUS
<1>1. 0 \in S
  <2>1. Awaits(X, 0) = <<>> /\ <<>> \in Seq(Ranges)
    BY AwaitsIs
  <2> QED BY <2>1
<1>2. ASSUME NEW n \in Nat, n \in S PROVE n + 1 \in S
  <2> SUFFICES ASSUME n + 1 <= Len(X) PROVE Fine(Awaits(X, n+1))
    OBVIOUS
  <2> DEFINE e == Awaits(X, n)
             b == X[n+1]
  <2>1. n + 1 \in 1..Len(X) /\ (n + 1) - 1 = n /\ n <= Len(X)
    BY <1>0
  <2>2. Awaits(X, n+1) = Goes(e, b) /\ b \in Byte
    <3>1. Awaits(X, n+1) = Goes(Awaits(X, (n+1)-1), X[n+1])
      BY <2>1, AwaitsIs
    <3> QED BY <2>1, <3>1
  <2>3. Fine(e)
    BY <1>2, <2>1
  <2> HIDE DEF e, b
  <2>4. CASE e = Bad
    BY <2>2, <2>4, GoesBad
  <2>5. CASE e = <<>>
    BY <2>2, <2>5, GoesFirst, LeadRanges
  <2>6. CASE e # Bad /\ e # <<>>
    <3>1. e \in Seq(Ranges) /\ e # <<>>
      BY <2>3, <2>6
    <3>2. Tail(e) \in Seq(Ranges)
      BY <3>1
    <3>3. Goes(e, b) = Tail(e) \/ Goes(e, b) = Bad
      BY <2>6 DEF Goes, Bad
    <3> QED BY <2>2, <3>2, <3>3
  <2> QED BY <2>4, <2>5, <2>6
<1>3. S = Nat
  <2>1. S \in SUBSET Nat
    OBVIOUS
  <2> HIDE DEF S
  <2> QED BY <1>1, <1>2, <2>1, Induct
<1>4. i \in S /\ i <= Len(X)
  <2>1. i \in Nat /\ i <= Len(X)
    BY <1>0
  <2> HIDE DEF S
  <2> QED BY <1>3, <2>1
<1> QED BY <1>4

\* Text that is malformed at some byte is not well-formed.
LEMMA BrokenIll ==
  ASSUME NEW X \in Seq(Byte), NEW q \in Nat, q <= Len(X), Broken(X, q)
  PROVE  ~WellFormed(X)
<1>1. PICK p \in 1..q : Awaits(X, p) = Bad
  BY DEF Broken
<1>2. p \in Nat /\ Len(X) \in Nat /\ p <= Len(X)
  OBVIOUS
<1>3. Awaits(X, Len(X)) = Bad
  BY <1>1, <1>2, StaysBad
<1>4. Expected(X) = Bad /\ Bad # <<>>
  BY <1>3, AwaitsIs DEF Bad
<1> QED BY <1>4 DEF WellFormed

\* The bytes 192 and 193 are in no well-formed text.
LEMMA OverlongIll ==
  ASSUME NEW X \in Seq(Byte), Overlong(X)
  PROVE  ~WellFormed(X)
<1>1. PICK i \in 1..Len(X) : X[i] \in {192, 193}
  BY DEF Overlong
<1> DEFINE e == Awaits(X, i-1)
           b == X[i]
<1>2. Awaits(X, i) = Goes(e, b) /\ b \in Byte /\ b \in {192, 193}
  BY <1>1, AwaitsIs
<1>3. i - 1 \in 0..Len(X) /\ i \in Nat /\ i <= Len(X) /\ Len(X) \in Nat
  OBVIOUS
<1>4. e = Bad \/ e \in Seq(Ranges)
  BY <1>3, AwaitsShape
<1> HIDE DEF e, b
<1>5. Goes(e, b) = Bad
  <2>1. CASE e = Bad
    BY <1>2, <2>1, GoesBad
  <2>2. CASE e = <<>>
    <3>1. Goes(e, b) = Lead(b)
      BY <2>2, GoesFirst
    <3>2. Lead(b) = Bad
      BY <1>2, LeadIs
    <3> QED BY <3>1, <3>2
  <2>3. CASE e # Bad /\ e # <<>>
    <3>1. e \in Seq(Ranges) /\ e # <<>>
      BY <1>4, <2>3
    <3>2. e[1] \in Ranges
      BY <3>1
    <3>3. ~(b \in e[1][1]..e[1][2])
      BY <1>2, <3>2, RangesLow
    <3> QED BY <2>3, <3>3 DEF Goes, Bad
  <2> QED BY <2>1, <2>2, <2>3
<1>6. Broken(X, i)
  <2>1. i \in 1..i
    BY <1>3
  <2> QED BY <1>2, <1>5, <2>1 DEF Broken
<1> QED BY <1>3, <1>6, BrokenIll

\* Text behind which the checker stands can still become well-formed.
LEMMA LinkWell ==
  ASSUME NEW X \in Seq(Byte), NEW a \in 0..Len(X), NEW u, Link(X, a, u)
  PROVE  WellFormedPrefix(SubSeq(X, 1, a))
<1>1. Awaits(X, a) = <<>> \/ (Awaits(X, a) # <<>> /\ Awaits(X, a) # Bad)
  <2>1. CASE u.need = 0
    BY <2>1 DEF Link
  <2>2. CASE u.need # 0
    <3>1. u.need > 0
      BY <2>2 DEF Link
    <3> QED BY <3>1, Zenon DEF Link
  <2> QED BY <2>1, <2>2
<1>2. Awaits(X, a) = Bad \/ Awaits(X, a) \in Seq(Ranges)
  BY AwaitsShape
<1> DEFINE e == Awaits(X, a)
<1> HIDE DEF e
<1>3. e = <<>> \/ e[1] # <<1, 0>>
  <2> SUFFICES ASSUME e # <<>> PROVE e[1] # <<1, 0>>
    OBVIOUS
  <2>1. e \in Seq(Ranges) /\ e # <<>>
    BY <1>1, <1>2 DEF e
  <2>2. e[1] \in Ranges
    BY <2>1
  <2> QED BY <2>2, RangesLow
<1> QED BY <1>3 DEF WellFormedPrefix, Awaits, e

\* When the checker stands behind all of a text, finish() tells whether it is
\* well-formed.
LEMMA LinkEnds ==
  ASSUME NEW X \in Seq(Byte), NEW u, Link(X, Len(X), u)
  PROVE  finish(u) <=> WellFormed(X)
<1>1. Awaits(X, Len(X)) = Expected(X)
  BY AwaitsIs
<1>2. u.need \in Nat /\ (u.need = 0 => Expected(X) = <<>>) /\ (u.need > 0 => Expected(X) # <<>>)
  BY <1>1 DEF Link
<1> QED BY <1>2 DEF finish, WellFormed

\* A checker that keeps nothing stands at the beginning of any text.
LEMMA LinkBegins ==
  ASSUME NEW X \in Seq(Byte), NEW u, u = Fresh
  PROVE  Link(X, 0, u)
<1>1. Awaits(X, 0) = <<>>
  BY AwaitsIs
<1>2. u.need = 0 /\ u.have = <<>>
  BY DEF Fresh
<1> QED BY <1>1, <1>2 DEF Link

-----------------------------------------------------------------------------
(* What read_frame says of the text, by the checker's theorems and those on *)
(* the areas prepare() returns.                                             *)

\* Between two reads the checker stands behind the text t committed of message X,
\* and nothing was committed before a message's first frame, unless the checker
\* held something then (old) or the message has a byte valid() lets pass wrongly.
JudgeAt(X, where, more, fin, t, u, old) ==
  /\ where \in {"idle", "head", "key"} /\ ~more => t = <<>>
  /\ where = "payload" => (more <=> ~fin)
  /\ where = "done" => ~more
  /\ where = "payload" \/ (more /\ where # "failed") => old \/ Overlong(X) \/ Link(X, Len(t), u)

\* What TextJudged says.
JudgedSo(X, where, t, old, skip, v) ==
  /\ v = "bad_payload" => old \/ ~WellFormed(X)
  /\ old \/ Overlong(X) \/ WellFormedPrefix(t)
  /\ where = "done" => old \/ Overlong(X) \/ skip \/ WellFormed(X)

\* The invariant, next to PInv.
JInv ==
  /\ rd = [cont |-> rd.cont, size |-> rd.size, utf8 |-> rd.utf8] /\ rd.cont \in BOOLEAN
  /\ JudgeAt(Content(cur), pc, rd.cont, fr.fin, text, rd.utf8, stale)
  /\ JudgedSo(Content(cur), pc, text, stale, skipped, verdict)

\* The invariant contains TextJudged.
LEMMA JudgedIs == JInv => TextJudged
BY Zenon DEF JInv, JudgedSo, TextJudged, Overlong

\* The empty text is a beginning of a well-formed one.
LEMMA NothingWell == WellFormedPrefix(<<>>)
<1>1. <<>> \in Seq(Byte) /\ Len(<<>>) = 0 /\ SubSeq(<<>>, 1, 0) = <<>>
  OBVIOUS
<1>2. Awaits(<<>>, 0) = <<>>
  BY <1>1, AwaitsIs
<1> QED BY <1>1, <1>2 DEF Awaits, WellFormedPrefix

\* The initial states satisfy the invariant.
LEMMA JInvInit == Init => JInv
<1> SUFFICES ASSUME Init PROVE JInv
  OBVIOUS
<1>1. /\ rd = [cont |-> FALSE, size |-> 0, utf8 |-> Fresh] /\ pc = "idle" /\ text = <<>>
      /\ ~stale /\ verdict = "none"
  BY DEF Init
<1>2. rd.cont = FALSE /\ rd.size = 0 /\ rd.utf8 = Fresh
  BY <1>1
<1>3. JudgeAt(Content(cur), pc, rd.cont, fr.fin, text, rd.utf8, stale)
  BY <1>1, <1>2 DEF JudgeAt
<1>4. JudgedSo(Content(cur), pc, text, stale, skipped, verdict)
  BY <1>1, NothingWell DEF JudgedSo
<1> QED BY <1>1, <1>2, <1>3, <1>4 DEF JInv

\* A step that leaves read_frame's state alone preserves it.
LEMMA JKeeps ==
  ASSUME JInv, UNCHANGED <<case, rd, fr, pc, text, cur, skipped, stale, verdict>>
  PROVE  JInv'
BY DEF JInv, Content

\* It is preserved when the caller calls read_frame, a header is read or prepare()
\* throws: the text and the checker stay.
LEMMA JMoves ==
  ASSUME JInv, Call \/ ReadHead \/ Overflow, PInv
  PROVE  JInv'
<1>1. CASE Call \/ ReadHead
  <2>1. /\ UNCHANGED <<case, rd, text, cur, skipped, stale, verdict>>
        /\ \/ pc = "idle" /\ pc' = "head"
           \/ pc = "head" /\ pc' = "key"
    BY <1>1 DEF Call, ReadHead
  <2>2. JudgeAt(Content(cur), pc', rd.cont, fr'.fin, text, rd.utf8, stale)
    BY <2>1 DEF JInv, JudgeAt
  <2>3. JudgedSo(Content(cur), pc', text, stale, skipped, verdict)
    BY <2>1 DEF JInv, JudgedSo
  <2> QED BY <2>1, <2>2, <2>3 DEF JInv, Content
<1>2. CASE Overflow
  <2>1. /\ UNCHANGED <<case, rd, fr, text, cur, skipped, stale>>
        /\ pc' = "failed" /\ verdict' = "length_error"
    BY <1>2 DEF Overflow
  <2>2. JudgeAt(Content(cur), pc', rd.cont, fr.fin, text, rd.utf8, stale)
    BY <2>1 DEF JInv, JudgeAt
  <2>3. JudgedSo(Content(cur), pc', text, stale, skipped, verdict')
    BY <2>1 DEF JInv, JudgedSo
  <2> QED BY <2>1, <2>2, <2>3 DEF JInv, Content
<1> QED BY <1>1, <1>2

\* It is preserved when the next message or the next connection begins: no text is
\* committed yet.
LEMMA JAgain ==
  ASSUME JInv, NextMessage \/ Reconnect, PInv
  PROVE  JInv'
<1>1. /\ text' = <<>> /\ pc' = "idle" /\ rd'.cont = FALSE /\ verdict' = "none"
      /\ rd' = [cont |-> rd'.cont, size |-> rd'.size, utf8 |-> rd'.utf8]
  <2>1. CASE NextMessage
    <3>1. /\ text' = <<>> /\ pc' = "idle" /\ pc = "done" /\ rd' = rd /\ verdict' = verdict
      BY <2>1 DEF NextMessage
    <3>2. verdict = "none"
      BY <3>1 DEF PInv, EndsAt
    <3>3. rd.cont = FALSE
      BY <3>1 DEF JInv, JudgeAt
    <3> QED BY <3>1, <3>2, <3>3 DEF JInv
  <2>2. CASE Reconnect
    <3>1. /\ text' = <<>> /\ pc' = "idle" /\ verdict' = "none"
          /\ rd' = [rd EXCEPT !.cont = FALSE]
      BY <2>2 DEF Reconnect
    <3>2. rd' = [cont |-> FALSE, size |-> rd.size, utf8 |-> rd.utf8]
      BY <3>1 DEF JInv
    <3> QED BY <3>1, <3>2
  <2> QED BY <2>1, <2>2
<1>2. JudgeAt(Content(cur)', pc', rd'.cont, fr'.fin, text', rd'.utf8, stale')
  BY <1>1 DEF JudgeAt
<1>3. JudgedSo(Content(cur)', pc', text', stale', skipped', verdict')
  BY <1>1, NothingWell DEF JudgedSo
<1> QED BY <1>1, <1>2, <1>3 DEF JInv

\* What the invariant of the payload says of the message being read and the text
\* committed of it.
LEMMA ReadingIs ==
  ASSUME PInv
  PROVE  /\ case.msgs \in Seq(Seq(Seq(Byte))) /\ Content(cur) = Flat(case.msgs[cur])
         /\ Content(cur) \in Seq(Byte) /\ Len(Content(cur)) \in Nat
         /\ text \in Seq(Byte) /\ Len(text) \in Nat /\ Len(text) \in 0..Len(Content(cur))
         /\ text = SubSeq(Content(cur), 1, Len(text))
         /\ fr \in [fin : BOOLEAN, remain : Nat, key : 0..3, no : Nat] /\ fr.fin \in BOOLEAN
<1>1. case.msgs \in Seq(Seq(Seq(Byte))) /\ cur \in 1..Len(case.msgs)
  BY CaseIs DEF PInv, TextAt
<1>2. Content(cur) = Flat(case.msgs[cur])
  BY DEF Content
<1>3. Content(cur) \in Seq(Byte) /\ Len(Content(cur)) \in Nat
  BY <1>1, <1>2, MessageIs
<1>4. /\ text \in Seq(Byte) /\ Len(text) \in Nat /\ Len(text) <= Len(Content(cur))
      /\ text = SubSeq(Content(cur), 1, Len(text))
  BY <1>2 DEF PInv, TextAt
<1>5. fr \in [fin : BOOLEAN, remain : Nat, key : 0..3, no : Nat]
  BY DEF PInv, EndsAt
<1>6. Len(text) \in 0..Len(Content(cur))
  BY <1>3, <1>4
<1> QED BY <1>1, <1>2, <1>3, <1>4, <1>5, <1>6

\* A header was read: at the first of a message the checker may hold something.
LEMMA JKey ==
  ASSUME JInv, ReadKey, PInv
  PROVE  JInv'
<1> DEFINE X == Content(cur)
           n == fr.remain
<1>1. /\ pc = "key" /\ case' = case /\ text' = text /\ cur' = cur
      /\ stale' = IF rd.cont THEN stale ELSE rd.utf8 # Fresh
      /\ skipped' = (n = 0 /\ fr.fin)
      /\ \/ n = 0 /\ fr.fin /\ pc' = "done" /\ verdict' = verdict
         \/ n = 0 /\ ~fr.fin /\ pc' \in {"head", "idle"} /\ verdict' = verdict
         \/ n # 0 /\ pc' = "failed" /\ verdict' = "too_big"
         \/ n # 0 /\ pc' = "payload" /\ verdict' = verdict
  BY DEF ReadKey
<1>2. PICK z : rd' = [rd EXCEPT !.cont = ~fr.fin, !.size = z]
  BY Zenon DEF ReadKey
<1>3. fr'.fin = fr.fin
  <2>1. PICK y : fr' = [fr EXCEPT !.no = y]
    BY DEF ReadKey
  <2> QED BY <2>1, ReadingIs
<1>4. /\ rd'.cont = ~fr.fin /\ rd'.utf8 = rd.utf8 /\ rd'.cont \in BOOLEAN
      /\ rd' = [cont |-> rd'.cont, size |-> rd'.size, utf8 |-> rd'.utf8]
  <2>1. rd' = [cont |-> ~fr.fin, size |-> z, utf8 |-> rd.utf8]
    BY <1>2 DEF JInv
  <2> QED BY <2>1
<1>5. X \in Seq(Byte) /\ fr.fin \in BOOLEAN
  BY ReadingIs
<1>6. JudgeAt(X, pc, rd.cont, fr.fin, text, rd.utf8, stale) /\ JudgedSo(X, pc, text, stale, skipped, verdict)
      /\ rd.cont \in BOOLEAN
  BY DEF JInv
<1>7. X' = X
  BY <1>1 DEF Content
<1>8. verdict = "none"
  BY <1>1 DEF PInv, EndsAt
<1> HIDE DEF X
<1>9. stale' \/ Overlong(X) \/ Link(X, Len(text), rd.utf8)
  <2>1. CASE rd.cont
    BY <1>1, <1>6, <2>1 DEF JudgeAt
  <2>2. CASE ~rd.cont
    <3>1. text = <<>> /\ Len(<<>>) = 0
      BY <1>1, <1>6, <2>2 DEF JudgeAt
    <3>2. rd.utf8 = Fresh => Link(X, 0, rd.utf8)
      BY <1>5, LinkBegins
    <3> QED BY <1>1, <2>2, <3>1, <3>2
  <2> QED BY <2>1, <2>2
<1>10. stale' \/ Overlong(X) \/ WellFormedPrefix(text)
  <2>1. CASE rd.cont
    BY <1>1, <1>6, <2>1 DEF JudgedSo
  <2>2. CASE ~rd.cont
    BY <1>1, <1>6, <2>2, NothingWell DEF JudgeAt
  <2> QED BY <2>1, <2>2
<1>11. JudgeAt(X, pc', rd'.cont, fr'.fin, text', rd'.utf8, stale')
  <2>1. pc' \in {"idle", "head"} => ~fr.fin
    BY <1>1
  <2>2. pc' = "done" => fr.fin
    BY <1>1
  <2>3. pc' \in {"idle", "head", "payload", "done", "failed"}
    BY <1>1
  <2> QED BY <1>1, <1>3, <1>4, <1>5, <1>9, <2>1, <2>2, <2>3 DEF JudgeAt
<1>12. JudgedSo(X, pc', text', stale', skipped', verdict')
  <2>1. pc' = "done" => skipped'
    BY <1>1
  <2>2. verdict' # "bad_payload"
    BY <1>1, <1>8
  <2> QED BY <1>1, <1>10, <2>1, <2>2 DEF JudgedSo
<1> QED BY <1>4, <1>7, <1>11, <1>12 DEF JInv, X

\* Bytes that continue a beginning of X to a longer one are those of X behind it.
LEMMA BehindHolds ==
  ASSUME NEW X \in Seq(Byte), NEW t \in Seq(Byte), NEW in \in Seq(Byte),
         Len(t \o in) <= Len(X), t \o in = SubSeq(X, 1, Len(t \o in))
  PROVE  Holding(X, Len(t), in)
<1> DEFINE a == Len(t)
           n == Len(in)
           w == t \o in
<1>1. a \in Nat /\ n \in Nat /\ Len(w) = a + n /\ \A j \in 1..n : w[a + j] = in[j]
  OBVIOUS
<1>2. a + n <= Len(X) /\ Len(X) \in Nat
  BY <1>1
<1>3. w = SubSeq(X, 1, a + n)
  BY <1>1
<1>4. \A i \in 1..(a + n) : SubSeq(X, 1, a + n)[i] = X[i]
  BY <1>1, <1>2
<1>5. \A j \in 1..n : in[j] = X[a + j]
  <2> TAKE j \in 1..n
  <2>1. a + j \in 1..(a + n)
    BY <1>1
  <2>2. w[a + j] = X[a + j]
    BY <1>3, <1>4, <2>1
  <2> QED BY <1>1, <2>2
<1> QED BY <1>1, <1>2, <1>5 DEF Holding

\* The buffers do_read_payload reads n bytes into have room for just n.
LEMMA PartsOf ==
  ASSUME NEW b, Sound(DbCell, b), NEW r \in Nat, ~db_throws(b, r), NEW n \in Nat, n <= r
  PROVE  LET s == prepare_buffers(n, db_areas(db_prepare(b, r)))
         IN  s \in Seq(Nat) /\ Total(s, Len(s)) = n
<1>1. Raw \in DbCell
  BY DEF DbCell
<1> DEFINE A == db_areas(db_prepare(b, r))
<1>2. A \in Seq(Nat) /\ Total(A, Len(A)) = r
  BY <1>1, PrepareReturns
<1> HIDE DEF A
<1>3. n <= Total(A, Len(A))
  BY <1>2
<1> DEFINE s == prepare_buffers(n, A)
<1>4. s \in Seq(Nat) /\ Total(s, Len(s)) = n
  BY <1>2, <1>3, PrepareBuffers
<1> QED BY <1>4 DEF A

\* What the checker says of the bytes of one turn, and what follows for the text.
TurnJudged(X, t, in, u, old, w) ==
  /\ w.ok => old \/ Overlong(X) \/ (Link(X, Len(t \o in), w.u) /\ WellFormedPrefix(t \o in))
  /\ ~w.ok => old \/ ~WellFormed(X)
  /\ t \o in = X /\ w.ok /\ finish(w.u) => old \/ Overlong(X) \/ WellFormed(X)
  /\ t \o in = X /\ w.ok /\ ~finish(w.u) => old \/ ~WellFormed(X)

\* What write(buffers) returns for the bytes of a turn, and finish() behind the
\* last ones, is right in that sense.
LEMMA TurnJudges ==
  ASSUME NEW X \in Seq(Byte), NEW t \in Seq(Byte), NEW in \in Seq(Byte),
         Len(t \o in) <= Len(X), t \o in = SubSeq(X, 1, Len(t \o in)),
         NEW u, NEW old, old \/ Overlong(X) \/ Link(X, Len(t), u),
         NEW s \in Seq(Nat), Total(s, Len(s)) = Len(in)
  PROVE  TurnJudged(X, t, in, u, old, write_buffers(u, Cut(in, s)))
<1> DEFINE w == write_buffers(u, Cut(in, s))
           q == Len(t \o in)
<1>1. q = Len(t) + Len(in) /\ q \in Nat /\ q <= Len(X) /\ q \in 0..Len(X) /\ t \o in = SubSeq(X, 1, q)
  <2>1. q = Len(t) + Len(in) /\ q \in Nat
    OBVIOUS
  <2>2. Len(X) \in Nat
    OBVIOUS
  <2> HIDE DEF q
  <2>3. q <= Len(X) /\ t \o in = SubSeq(X, 1, q)
    BY DEF q
  <2> QED BY <2>1, <2>2, <2>3
<1>2. Holding(X, Len(t), in)
  BY BehindHolds
<1> SUFFICES TurnJudged(X, t, in, u, old, w)
  OBVIOUS
<1> HIDE DEF w
<1>3. CASE old
  BY <1>3 DEF TurnJudged
<1>4. CASE Overlong(X)
  <2>1. ~WellFormed(X)
    BY <1>4, OverlongIll
  <2> QED BY <1>4, <2>1 DEF TurnJudged
<1>5. CASE ~old /\ ~Overlong(X)
  <2>1. Judges(X, q, w)
    <3>1. Link(X, Len(t), u)
      BY <1>5
    <3>2. Judges(X, Len(t) + Len(in), w)
      BY <1>2, <1>5, <3>1, CutJudges DEF w
    <3> HIDE DEF q
    <3> QED BY <1>1, <3>2
  <2>2. w.ok => Link(X, q, w.u) /\ WellFormedPrefix(t \o in)
    <3> SUFFICES ASSUME w.ok PROVE Link(X, q, w.u) /\ WellFormedPrefix(t \o in)
      OBVIOUS
    <3>1. Link(X, q, w.u)
      BY <2>1 DEF Judges
    <3>2. WellFormedPrefix(SubSeq(X, 1, q))
      BY <1>1, <3>1, LinkWell
    <3> HIDE DEF q
    <3> QED BY <1>1, <3>1, <3>2
  <2>3. ~w.ok => ~WellFormed(X)
    BY <1>1, <2>1, BrokenIll DEF Judges
  <2>4. t \o in = X => q = Len(X)
    OBVIOUS
  <2>5. t \o in = X /\ w.ok => (finish(w.u) <=> WellFormed(X))
    BY <2>2, <2>4, LinkEnds
  <2> QED BY <2>2, <2>3, <2>5 DEF TurnJudged
<1> QED BY <1>3, <1>4, <1>5

\* The incremental checker decides well-formedness: whatever buffers a text is cut
\* into, write() succeeds only as long as the text can still become well-formed and
\* finish() tells at its end whether it is; the leads 192 and 193, which valid()
\* lets pass, are the exception (utf8_checker::write, valid_have, needed, finish).
THEOREM CheckerAgrees ==
  ASSUME NEW X \in Seq(Byte), ~Overlong(X), NEW s \in Seq(Nat), Total(s, Len(s)) = Len(X)
  PROVE  LET w == write_buffers(Fresh, Cut(X, s))
         IN  /\ w.ok => WellFormedPrefix(X)
             /\ w.ok /\ finish(w.u) <=> WellFormed(X)
<1> DEFINE w == write_buffers(Fresh, Cut(X, s))
<1>2. Link(X, 0, Fresh)
  BY LinkBegins
<1>3. <<>> \in Seq(Byte) /\ Len(<<>>) = 0 /\ <<>> \o X = X /\ SubSeq(X, 1, Len(X)) = X
  OBVIOUS
<1>4. FALSE \/ Overlong(X) \/ Link(X, Len(<<>>), Fresh)
  BY <1>2, <1>3
<1>5. Len(<<>> \o X) <= Len(X) /\ <<>> \o X = SubSeq(X, 1, Len(<<>> \o X))
  BY <1>3
<1>6. TurnJudged(X, <<>>, X, Fresh, FALSE, w)
  BY <1>3, <1>4, <1>5, TurnJudges
<1> SUFFICES /\ w.ok => WellFormedPrefix(X)
             /\ w.ok /\ finish(w.u) <=> WellFormed(X)
  OBVIOUS
<1> HIDE DEF w
<1> QED BY <1>3, <1>6 DEF TurnJudged

\* It is preserved by a turn of the payload loop.
LEMMA JPayload ==
  ASSUME JInv, ReadPayload, PInv
  PROVE  JInv'
<1> DEFINE X == Content(cur)
           r == fr.remain
           F(n) == prepare_buffers(n, db_areas(db_prepare(db, r)))
           W(x) == write_buffers(rd.utf8, Cut(Unmask(x, fr), F(Len(x))))
           last(x) == r - Len(x) = 0 /\ fr.fin
           fine(x) == W(x).ok /\ (last(x) => finish(W(x).u))
<1>1. /\ pc = "payload" /\ ~db_throws(db, r)
      /\ case' = case /\ cur' = cur /\ skipped' = skipped /\ stale' = stale
  BY DEF ReadPayload
<1>2. PICK x : /\ ReadSome(r, x)
               /\ fr' = [fr EXCEPT !.remain = r - Len(x), !.key = (@ + Len(x)) % 4]
               /\ rd' = [rd EXCEPT !.utf8 = IF last(x) /\ W(x).ok THEN Fresh ELSE W(x).u]
               /\ \/ /\ fine(x) /\ text' = text \o Unmask(x, fr)
                     /\ pc' = Then(fr, Len(x)) /\ verdict' = verdict
                  \/ /\ ~fine(x) /\ text' = text /\ pc' = "failed" /\ verdict' = "bad_payload"
  BY Zenon DEF ReadPayload, Then
<1> DEFINE n == Len(x)
           in == Unmask(x, fr)
           w == W(x)
           u == IF last(x) /\ w.ok THEN Fresh ELSE w.u
<1>3. /\ X \in Seq(Byte) /\ text \in Seq(Byte) /\ fr.fin \in BOOLEAN
      /\ fr \in [fin : BOOLEAN, remain : Nat, key : 0..3, no : Nat] /\ X = Flat(case.msgs[cur])
  BY ReadingIs
<1>4. /\ TextAt(case.msgs, cur, text \o in, Then(fr, n)) /\ Len(text \o in) = Len(text) + n
      /\ in \in Seq(Byte) /\ Len(in) = n /\ n \in Nat /\ n <= r /\ r \in Nat
  <2>1. PICK A : Story(A)
    BY DEF PInv
  <2> DEFINE a == A[pos + 1]
  <2>2. /\ Turn(case.msgs, sent, A, pos, a, x, pos', fr, cur, text, in)
        /\ n \in Nat /\ n <= r /\ r \in Nat
    BY <1>1, <1>2, <2>1, PayloadTurn
  <2> HIDE DEF a, in
  <2> QED BY <2>2, TurnText
<1>5. /\ Len(text \o in) <= Len(X) /\ text \o in = SubSeq(X, 1, Len(text \o in))
      /\ Then(fr, n) = "done" => text \o in = X
  BY <1>3, <1>4 DEF TextAt
<1>6. F(n) \in Seq(Nat) /\ Total(F(n), Len(F(n))) = n
  <2>1. Sound(DbCell, db)
    BY DEF PInv, BufferAt
  <2>2. ~db_throws(db, r) /\ n \in Nat /\ n <= r /\ r \in Nat
    BY <1>1, <1>4
  <2> HIDE DEF r, n
  <2>3. LET s == prepare_buffers(n, db_areas(db_prepare(db, r)))
        IN  s \in Seq(Nat) /\ Total(s, Len(s)) = n
    BY <2>1, <2>2, PartsOf
  <2> QED BY <2>3
<1>7. /\ JudgeAt(X, pc, rd.cont, fr.fin, text, rd.utf8, stale) /\ JudgedSo(X, pc, text, stale, skipped, verdict)
      /\ rd.cont \in BOOLEAN /\ rd = [cont |-> rd.cont, size |-> rd.size, utf8 |-> rd.utf8]
  BY DEF JInv
<1>8. verdict = "none"
  BY <1>1 DEF PInv, EndsAt
<1>9. (stale \/ Overlong(X) \/ Link(X, Len(text), rd.utf8)) /\ (rd.cont <=> ~fr.fin)
  BY <1>1, <1>7 DEF JudgeAt
<1>10. TurnJudged(X, text, in, rd.utf8, stale, w)
  <2> DEFINE s == F(n)
  <2>1. s \in Seq(Nat) /\ Total(s, Len(s)) = Len(in) /\ w = write_buffers(rd.utf8, Cut(in, s))
    BY <1>4, <1>6
  <2> HIDE DEF s, w, in, X
  <2> QED BY <1>3, <1>4, <1>5, <1>9, <2>1, TurnJudges
<1>11. fr'.fin = fr.fin
  BY <1>2, <1>3
<1>12. /\ rd' = [cont |-> rd'.cont, size |-> rd'.size, utf8 |-> rd'.utf8]
       /\ rd'.cont = rd.cont /\ rd'.utf8 = u
  <2>1. rd' = [rd EXCEPT !.utf8 = u]
    BY <1>2
  <2> HIDE DEF u
  <2> QED BY <1>7, <2>1
<1>13. X' = X
  BY <1>1 DEF Content
<1>14. Then(fr, n) \in {"payload", "done", "idle"}
       /\ (last(x) <=> Then(fr, n) = "done") /\ (Then(fr, n) = "idle" => ~fr.fin)
  <2>1. r - n > 0 \/ r - n = 0
    <3> HIDE DEF r, n
    <3> QED BY <1>4
  <2>2. ~(r - n > 0 /\ r - n = 0)
    <3> HIDE DEF r, n
    <3> QED BY <1>4
  <2> QED BY <1>3, <2>1, <2>2 DEF Then
<1>15. /\ \/ /\ fine(x) /\ text' = text \o in /\ pc' = Then(fr, n) /\ verdict' = "none"
          \/ /\ ~fine(x) /\ text' = text /\ pc' = "failed" /\ verdict' = "bad_payload"
  BY <1>2, <1>8
<1>16. fine(x) <=> w.ok /\ (last(x) => finish(w.u))
  OBVIOUS
<1> DEFINE good == fine(x)
           end == last(x)
<1>17. u = IF end /\ w.ok THEN Fresh ELSE w.u
  OBVIOUS
<1> HIDE DEF X, in, w, u, n, r, F, W, last, fine
<1>18. CASE fine(x) /\ text' = text \o in /\ pc' = Then(fr, n) /\ verdict' = "none"
  <2>1. w.ok /\ (last(x) => finish(w.u))
    BY <1>16, <1>18
  <2>2. stale \/ Overlong(X) \/ (Link(X, Len(text'), w.u) /\ WellFormedPrefix(text'))
    BY <1>10, <1>18, <2>1 DEF TurnJudged
  <2>3. JudgeAt(X, pc', rd'.cont, fr'.fin, text', rd'.utf8, stale')
    <3>1. CASE last(x)
      <4>1. pc' = "done" /\ fr.fin
        BY <1>14, <1>18, <3>1 DEF last
      <4>2. ~rd'.cont
        BY <1>9, <1>12, <4>1
      <4> QED BY <4>1, <4>2 DEF JudgeAt
    <3>2. CASE ~last(x)
      <4>1. u = w.u /\ pc' \in {"payload", "idle"} /\ (pc' = "idle" => ~fr.fin)
        BY <1>14, <1>17, <1>18, <3>2
      <4> QED BY <1>1, <1>9, <1>11, <1>12, <2>2, <4>1 DEF JudgeAt
    <3> QED BY <3>1, <3>2
  <2>4. pc' = "done" => stale \/ Overlong(X) \/ WellFormed(X)
    <3> SUFFICES ASSUME pc' = "done" PROVE stale \/ Overlong(X) \/ WellFormed(X)
      OBVIOUS
    <3>1. last(x) /\ text \o in = X
      BY <1>5, <1>14, <1>18
    <3> QED BY <1>10, <2>1, <3>1 DEF TurnJudged
  <2>5. JudgedSo(X, pc', text', stale', skipped', verdict')
    BY <1>1, <1>18, <2>2, <2>4 DEF JudgedSo
  <2> QED BY <1>7, <1>12, <1>13, <2>3, <2>5 DEF JInv, X
<1>19. CASE ~fine(x) /\ text' = text /\ pc' = "failed" /\ verdict' = "bad_payload"
  <2>1. stale \/ ~WellFormed(X)
    <3>1. CASE ~w.ok
      BY <1>10, <3>1 DEF TurnJudged
    <3>2. CASE w.ok
      <4>1. last(x) /\ ~finish(w.u)
        BY <1>16, <1>19, <3>2
      <4>2. text \o in = X
        BY <1>5, <1>14, <4>1
      <4> QED BY <1>10, <3>2, <4>1, <4>2 DEF TurnJudged
    <3> QED BY <3>1, <3>2
  <2>2. JudgeAt(X, pc', rd'.cont, fr'.fin, text', rd'.utf8, stale')
    BY <1>19 DEF JudgeAt
  <2>3. JudgedSo(X, pc', text', stale', skipped', verdict')
    BY <1>1, <1>7, <1>19, <2>1 DEF JudgedSo
  <2> QED BY <1>7, <1>12, <1>13, <2>2, <2>3 DEF JInv, X
<1> QED BY <1>15, <1>18, <1>19

\* A text message is refused only when it is malformed, at the first byte that
\* makes it so, and accepted only when it is well-formed, however it is cut into
\* frames, reads and buffers: but for what an earlier message left in the checker,
\* incomplete or refused, an empty last frame, and the leads 192 and 193 (utf8_checker::write, finish,
\* valid and needed; read_frame).
THEOREM TextIsJudged == Spec => []TextJudged
<1>1. Init => JInv
  BY JInvInit
<1>2. PInv /\ JInv /\ [Next]_pvars => JInv'
  <2> SUFFICES ASSUME PInv, JInv, [Next]_pvars PROVE JInv'
    OBVIOUS
  <2>1. CASE SendFrame
    BY <2>1, JKeeps DEF SendFrame, reader
  <2>2. CASE CallerConsumes
    BY <2>2, JKeeps DEF CallerConsumes, reader
  <2>3. CASE UNCHANGED pvars
    BY <2>3, JKeeps DEF pvars, reader
  <2>4. CASE Call \/ ReadHead \/ Overflow
    BY <2>4, JMoves
  <2>5. CASE ReadKey
    BY <2>5, JKey
  <2>6. CASE ReadPayload
    BY <2>6, JPayload
  <2>7. CASE NextMessage \/ Reconnect
    BY <2>7, JAgain
  <2> QED BY <2>1, <2>2, <2>3, <2>4, <2>5, <2>6, <2>7 DEF Next
<1>3. JInv => TextJudged
  BY JudgedIs
<1>4. Spec => []PInv
  BY PayloadInductive
<1> QED BY <1>1, <1>2, <1>3, <1>4, PTL DEF Spec
=============================================================================
