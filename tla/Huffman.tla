------------------------------- MODULE Huffman -------------------------------
(***************************************************************************)
(* The Huffman codes of beast's zlib: how deflate_stream builds a tree     *)
(* from the frequencies of a block, shortens what is too deep, numbers the *)
(* codes and writes the code lengths down run by run, and how              *)
(* inflate_stream judges a set of lengths and reads it back.  Symbols are  *)
(* 0..n-1; a tree's frequencies, lengths and codes are functions on them.  *)
(***************************************************************************)
EXTENDS Naturals, Integers, Sequences, SequencesExt, FiniteSetsExt

NoCode == -1

\* deflate_stream::smaller: by frequency, then by depth.
smaller(t, n, m) ==
  \/ t.freq[n] < t.freq[m]
  \/ t.freq[n] = t.freq[m] /\ t.depth[n] <= t.depth[m]

\* deflate_stream::pqdownheap: node v sinks from place k of the heap.
RECURSIVE Sink(_, _, _, _)
Sink(t, heap, k, v) ==
  LET j == 2 * k
      s == IF j < Len(heap) /\ smaller(t, heap[j + 1], heap[j]) THEN j + 1 ELSE j
  IN  IF j > Len(heap) \/ smaller(t, v, heap[s])
      THEN [heap EXCEPT ![k] = v]
      ELSE Sink(t, [heap EXCEPT ![k] = heap[s]], s, v)

pqdownheap(t, heap, k) == Sink(t, heap, k, heap[k])

\* deflate_stream::pqremove: the heap without its least node.
pqremove(t, heap) ==
  LET rest == IF Len(heap) = 1 THEN <<>> ELSE <<heap[Len(heap)]>> \o SubSeq(heap, 2, Len(heap) - 1)
  IN  IF rest = <<>> THEN rest ELSE pqdownheap(t, rest, 1)

(***************************************************************************)
(* build_tree.  Least is the heap's least node; the two least nodes leave  *)
(* the heap, in that order, for the front of `dead`, and their father      *)
(* takes their place, until only the root is left.                         *)
(***************************************************************************)
Join(t, n, m, node) ==
  [freq  |-> t.freq  @@ (node :> t.freq[n] + t.freq[m]),
   depth |-> t.depth @@ (node :> Max({t.depth[n], t.depth[m]}) + 1),
   dad   |-> (n :> node) @@ (m :> node) @@ t.dad]

RECURSIVE Combine(_, _, _, _)
Merge(t, heap, dead, node) ==
  Combine(t, pqdownheap(t, [heap EXCEPT ![1] = node], 1), dead, node + 1)
TwoLeast(t, n, heap, dead, node) ==
  Merge(Join(t, n, heap[1], node), heap, <<heap[1], n>> \o dead, node)
Combine(t, heap, dead, node) ==
  IF Len(heap) < 2 THEN [t |-> t, order |-> heap \o dead]
  ELSE TwoLeast(t, heap[1], pqremove(t, heap), dead, node)

\* At least two codes are forced into the heap, the lowest ones.
RECURSIVE ForceTwo(_, _, _)
ForceTwo(freq, heap, max_code) ==
  IF Len(heap) >= 2 THEN [freq |-> freq, heap |-> heap, max_code |-> max_code]
  ELSE LET node == IF max_code < 2 THEN max_code + 1 ELSE 0
       IN  ForceTwo([freq EXCEPT ![node] = 1], Append(heap, node), Max({max_code, node}))

RECURSIVE Heapify(_, _, _)
Heapify(t, heap, n) ==
  IF n = 0 THEN heap ELSE Heapify(t, pqdownheap(t, heap, n), n - 1)

(***************************************************************************)
(* gen_bitlen.  First pass: a node is one bit longer than its father, cut  *)
(* at max_length; `over` counts what was cut.  Then leaves are moved down  *)
(* until the lengths fit again, and the lengths are dealt out anew, the    *)
(* longest to the least frequent.                                          *)
(***************************************************************************)
RECURSIVE Deepen(_, _, _, _, _)
Deepen(dad, order, len, over, max_length) ==
  IF order = <<>> THEN [len |-> len, over |-> over]
  ELSE LET n == Head(order)
           b == len[dad[n]] + 1
       IN  Deepen(dad, Tail(order), len @@ (n :> Min({b, max_length})),
                  IF b > max_length THEN over + 1 ELSE over, max_length)

RECURSIVE Relieve(_, _, _)
Relieve(bl_count, over, max_length) ==
  IF over <= 0 THEN bl_count
  ELSE LET b == Max({i \in 1..(max_length - 1) : bl_count[i] > 0})
           moved == [bl_count EXCEPT ![b] = @ - 1, ![b + 1] = @ + 2]
       IN  Relieve([moved EXCEPT ![max_length] = @ - 1], over - 2, max_length)

RECURSIVE Deal(_, _, _, _)
Deal(leaves, bl_count, bits, len) ==
  IF leaves = <<>> \/ bits = 0 THEN len
  ELSE IF bl_count[bits] = 0 THEN Deal(leaves, bl_count, bits - 1, len)
  ELSE Deal(Front(leaves), [bl_count EXCEPT ![bits] = @ - 1], bits,
            [len EXCEPT ![Last(leaves)] = bits])

Shortened(pass, leaves, max_length) ==
  LET count == [b \in 0..max_length |-> Len(SelectSeq(leaves, LAMBDA n : pass.len[n] = b))]
  IN  IF pass.over = 0 THEN pass.len
      ELSE Deal(leaves, Relieve(count, pass.over, max_length), max_length, pass.len)

gen_bitlen(t, order, max_code, max_length) ==
  Shortened(Deepen(t.dad, Tail(order), Head(order) :> 0, 0, max_length),
            SelectSeq(order, LAMBDA n : n <= max_code), max_length)

\* gen_codes: the codes of one length are consecutive, a longer one starts
\* behind the shorter ones.
gen_codes(len, max_length) ==
  LET count == [b \in 0..max_length |-> IF b = 0 THEN 0 ELSE Cardinality({n \in DOMAIN len : len[n] = b})]
      next_code[b \in 0..max_length] == IF b = 0 THEN 0 ELSE 2 * (next_code[b - 1] + count[b - 1])
  IN  [n \in DOMAIN len |->
         IF len[n] = 0 THEN NoCode
         ELSE next_code[len[n]] + Cardinality({m \in DOMAIN len : m < n /\ len[m] = len[n]})]

\* build_tree: the lengths and codes of every symbol and the last one used.
Used(freq) == SelectSeq([i \in 1..Cardinality(DOMAIN freq) |-> i - 1], LAMBDA n : freq[n] # 0)

Seed(two) == [freq |-> two.freq, depth |-> [n \in DOMAIN two.freq |-> 0], dad |-> <<>>]
Grown(two) ==
  Combine(Seed(two), Heapify(Seed(two), two.heap, Len(two.heap) \div 2), <<>>, Cardinality(DOMAIN two.freq))

OfSymbols(bits, symbols) == [n \in symbols |-> IF n \in DOMAIN bits THEN bits[n] ELSE 0]
LengthsOf(built, two, max_length) ==
  OfSymbols(gen_bitlen(built.t, built.order, two.max_code, max_length), DOMAIN two.freq)

Coded(len, max_code, max_length) ==
  [len |-> len, code |-> gen_codes(len, max_length), max_code |-> max_code]
FromTwo(two, max_length) == Coded(LengthsOf(Grown(two), two, max_length), two.max_code, max_length)

build_tree(freq, max_length) ==
  FromTwo(ForceTwo(freq, Used(freq), Max({-1} \cup {n \in DOMAIN freq : freq[n] # 0})), max_length)

-----------------------------------------------------------------------------
\* The code lengths, run by run (scan_tree counts what send_tree sends): a
\* length by itself, the last length 3 to 6 times more, or zeros.
REP_3_6(max)      == max + 1
REPZ_3_10(max)    == max + 2
REPZ_11_138(max)  == max + 3

Lone(len)     == [sym |-> len, bits |-> 0, more |-> 0]
RunBounds(len, prev) ==
  IF len = 0 THEN [most |-> 138, least |-> 3]
  ELSE IF prev = len THEN [most |-> 6, least |-> 3] ELSE [most |-> 7, least |-> 4]

\* What is sent for `count` codes of length curlen after one of length prevlen.
Run(curlen, count, prevlen, least, max) ==
  IF count < least THEN [i \in 1..count |-> Lone(curlen)]
  ELSE IF curlen # 0
  THEN LET head == IF curlen # prevlen THEN <<Lone(curlen)>> ELSE <<>>
       IN  Append(head, [sym |-> REP_3_6(max), bits |-> 2, more |-> count - Len(head) - 3])
  ELSE IF count <= 10
  THEN <<[sym |-> REPZ_3_10(max), bits |-> 3, more |-> count - 3]>>
  ELSE <<[sym |-> REPZ_11_138(max), bits |-> 7, more |-> count - 11]>>

RECURSIVE Runs(_, _, _, _)
Runs(lens, count, prevlen, max) ==
  IF lens = <<>> THEN <<>>
  ELSE LET curlen == lens[1]
           b == RunBounds(curlen, prevlen)
       IN  IF count + 1 < b.most /\ Len(lens) > 1 /\ lens[2] = curlen
           THEN Runs(Tail(lens), count + 1, prevlen, max)
           ELSE Run(curlen, count + 1, prevlen, b.least, max) \o Runs(Tail(lens), 0, curlen, max)

send_tree(tree, max) == Runs([i \in 1..(tree.max_code + 1) |-> tree.len[i - 1]], 0, -1, max)

\* build_bl_tree: the tree of the code lengths of both trees, and how many of
\* its lengths are sent, 4 at least.
Sent(tree) == [tree |-> tree, ncode |-> Max({4} \cup {s + 1 : s \in {x \in DOMAIN tree.len : tree.len[x] # 0}})]
build_bl_tree(runs, max_length, bl_max) ==
  Sent(build_tree([s \in 0..REPZ_11_138(max_length) |-> Len(SelectSeq(runs, LAMBDA r : r.sym = s))], bl_max))

-----------------------------------------------------------------------------
(* inflate_table: a set of lengths must be neither over-subscribed nor      *)
(* incomplete (but for a single code of one bit); the root table's index    *)
(* bits lie between the shortest and the longest code.                      *)
LeftOver(lens, max_length) ==
  LET left[b \in 0..max_length] ==
        IF b = 0 THEN 1
        ELSE IF left[b - 1] < 0 THEN -1
        ELSE 2 * left[b - 1] - Cardinality({n \in DOMAIN lens : lens[n] = b})
  IN  left[max_length]

LensUsed(lens) == {lens[n] : n \in DOMAIN lens} \ {0}

TableError(lens, strict, max_length) ==
  LET left == LeftOver(lens, max_length)
  IN  IF LensUsed(lens) = {} THEN "none"
      ELSE IF left < 0 THEN "over_subscribed_length"
      ELSE IF left > 0 /\ (strict \/ Max(LensUsed(lens)) # 1) THEN "incomplete_length_set"
      ELSE "none"

RootBits(lens, asked) ==
  IF LensUsed(lens) = {} THEN 1
  ELSE Max({Min({asked, Max(LensUsed(lens))}), Min(LensUsed(lens))})

\* The symbol a code of w bits stands for: the symbols sorted by length, then
\* by number, numbered with a counter that doubles when the length grows.
Before(lens, n, m) == lens[m] < lens[n] \/ (lens[m] = lens[n] /\ m < n)

RECURSIVE Number(_, _, _, _)
Number(lens, sorted, huff, len) ==
  IF sorted = <<>> THEN <<>>
  ELSE LET n == Head(sorted)
           h == huff * 2 ^ (lens[n] - len)
       IN  <<[sym |-> n, w |-> lens[n], c |-> h]>> \o Number(lens, Tail(sorted), h + 1, lens[n])

inflate_table(lens) ==
  LET used == {n \in DOMAIN lens : lens[n] # 0}
      rank(n) == Cardinality({m \in used : Before(lens, n, m)})
      sorted == [i \in 1..Cardinality(used) |-> CHOOSE n \in used : rank(n) = i - 1]
  IN  Range(Number(lens, sorted, 0, 0))
=============================================================================
