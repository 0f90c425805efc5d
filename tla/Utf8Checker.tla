---------------------------- MODULE Utf8Checker -----------------------------
(***************************************************************************)
(* websocket/detail/utf8_checker.hpp: the incremental UTF-8 validator.     *)
(* need_ counts the bytes missing from the code point whose first bytes    *)
(* have_ keeps; `have` is what lies between have_ and p_.  write() looks   *)
(* at the text in two ways: as long as four bytes are left it takes whole  *)
(* code points with valid(); behind that it asks needed() first.  The word *)
(* at a time shortcut over ASCII leaves what valid() would leave and is    *)
(* not written down.  A code point that is completed and then refused      *)
(* stays in have_: p_ goes back only when it was valid, or in reset().     *)
(***************************************************************************)
EXTENDS Naturals, Sequences

Fresh == [need |-> 0, have |-> <<>>]

Tail6(b) == b \in 128..191     \* (b & 0xc0) == 0x80

\* The second byte of a three or four byte code point.
Second(lead, b) ==
  /\ Tail6(b)
  /\ lead = 224 => b >= 160
  /\ lead = 237 => b <= 159
  /\ lead = 240 => b >= 144
  /\ lead = 244 => b <= 143

\* valid: the length of the code point in[i], in[i+1], ..., 0 when invalid.
valid(in, i) ==
  LET b == in[i]
  IN  CASE b < 128 -> 1
        [] b \in 192..223 -> IF Tail6(in[i+1]) THEN 2 ELSE 0
        [] b \in 224..239 -> IF Second(b, in[i+1]) /\ Tail6(in[i+2]) THEN 3 ELSE 0
        [] b \in 240..244 -> IF Second(b, in[i+1]) /\ Tail6(in[i+2])
                                /\ Tail6(in[i+3]) THEN 4 ELSE 0
        [] OTHER -> 0

\* Mutant of valid_have: an incomplete code point is not looked at.
valid_have_later(have) == TRUE

\* valid_have: nothing wrong with the first bytes of a code point so far.
valid_have(have) ==
  /\ have[1] >= 224 /\ Len(have) > 1 => Second(have[1], have[2])
  /\ have[1] >= 240 /\ Len(have) > 2 => Tail6(have[3])

needed(b) ==
  CASE b < 128 -> 1 [] b \in 194..223 -> 2 [] b \in 224..239 -> 3
    [] b \in 240..244 -> 4 [] OTHER -> 0

\* The loops of write(): ok and the checker after in[1..].  have are the bytes
\* before p_: those of an incomplete code point at the end come behind them.
Scan(have, in) ==
  LET at(ok)  == [ok |-> ok, u |-> [need |-> 0, have |-> have]]
      f[i \in 1..(Len(in) + 1)] ==
        LET left == Len(in) + 1 - i
            need == needed(in[i])
            more == have \o SubSeq(in, i, Len(in))
        IN  IF left = 0 THEN at(TRUE)
            ELSE IF left < 4 /\ need = 0 THEN at(FALSE)
            ELSE IF left < 4 /\ need > left
              THEN [ok |-> valid_have(more),
                    u |-> [need |-> need - left, have |-> more]]
            ELSE IF valid(in, i) = 0 THEN at(FALSE)
            ELSE f[i + valid(in, i)]
  IN  f[1]

\* write(in, size)
write_utf8(u, in) ==
  LET n    == IF Len(in) < u.need THEN Len(in) ELSE u.need
      have == u.have \o SubSeq(in, 1, n)
  IN  IF u.need = 0 THEN Scan(u.have, in)
      ELSE IF n < u.need
        THEN [ok |-> valid_have(have), u |-> [need |-> u.need - n, have |-> have]]
      ELSE IF valid(have, 1) = 0
        THEN [ok |-> FALSE, u |-> [need |-> 0, have |-> have]]
      ELSE Scan(<<>>, SubSeq(in, n + 1, Len(in)))

\* write(buffers): one write() after the other, until one fails.
write_buffers(u, chunks) ==
  LET f[i \in 0..Len(chunks)] ==
        IF i = 0 THEN [ok |-> TRUE, u |-> u]
        ELSE IF f[i-1].ok THEN write_utf8(f[i-1].u, chunks[i]) ELSE f[i-1]
  IN  f[Len(chunks)]

\* finish()
finish(u) == u.need = 0

-----------------------------------------------------------------------------
\* What well-formed text is (the table of well-formed byte sequences of the
\* Unicode standard): the ranges the bytes still missing must lie in.
T == <<128, 191>>
Lead(b) ==
  CASE b < 128 -> <<>> [] b \in 194..223 -> <<T>>
    [] b = 224 -> <<<<160, 191>>, T>> [] b = 237 -> <<<<128, 159>>, T>>
    [] b \in 225..239 \ {237} -> <<T, T>>
    [] b = 240 -> <<<<144, 191>>, T, T>> [] b = 244 -> <<<<128, 143>>, T, T>>
    [] b \in 241..243 -> <<T, T, T>>
    [] OTHER -> <<<<1, 0>>>>          \* nothing follows that would do

\* The ranges expected behind text; <<1, 0>> somewhere in them when it is bad.
Expected(text) ==
  LET f[i \in 0..Len(text)] ==
        IF i = 0 THEN <<>>
        ELSE IF f[i-1] = <<>> THEN Lead(text[i])
        ELSE IF text[i] \in f[i-1][1][1]..f[i-1][1][2] THEN Tail(f[i-1])
        ELSE <<<<1, 0>>>>
  IN  f[Len(text)]

WellFormedPrefix(text) == Expected(text) = <<>> \/ Expected(text)[1] # <<1, 0>>
WellFormed(text) == Expected(text) = <<>>
=============================================================================
