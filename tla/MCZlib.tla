------------------------------- MODULE MCZlib -------------------------------
(***************************************************************************)
(* Two instances of Zlib; a behaviour is one of either.  Small is all of   *)
(* it at a small scale: a text with a byte repeated, two alternating and   *)
(* three different ones, every flush, rooms of a byte and of plenty.       *)
(* Roots has the root tables and code lengths of the program, for a block  *)
(* of matches whose last codes are the shortest there are.                 *)
(***************************************************************************)
EXTENDS Integers, Sequences, SequencesExt, FiniteSetsExt

VARIABLES scale,    \* which instance this is, "small" or "roots"
          d, z, feed, part, marks, phase, calls, switches, sent, resets

Texts == {<<0, 1, 2, 1, 1, 0, 0, 0, 1, 2, 1, 1, 0, 0, 0, 0, 0, 0, 0, 1, 2, 2, 0, 0, 0, 1>>}
Slices == [flush : {"none", "block", "partial", "sync", "full", "finish"}, room : {60}, offer : {14}, how : {"dynamic"}]
          \cup [flush : {"none", "partial"}, room : {60}, offer : {14}, how : {"static", "dynamic"}]
          \cup [flush : {"none", "finish"}, room : {4}, offer : {10}, how : {"stored"}]
Turns == [func : {"stored", "rle", "huff"}, room : {9}, how : {"dynamic"}] \cup [func : {"rle"}, room : {0}, how : {"dynamic"}]
Parcels == {<<>>, <<0, 1, 0, 1, 2>>}
Bites == {[take |-> 1, room |-> 1, flush |-> "sync"], [take |-> 60, room |-> 60, flush |-> "none"]}

\* A text for the real root tables: eight bytes for a first block, then 28
\* matches of three bytes at these distances and nothing else.  The distance
\* tree is six deep, and the code of its last match, distance 1, has one bit.
Distances == <<3, 2, 1, 5, 10, 1, 5, 5, 4, 18, 19, 1, 6, 2, 19, 5, 1, 1, 1, 22, 2, 6, 1, 5, 1, 1, 1, 1>>
Repeat3(t, dist) == t \o [i \in 1..3 |-> t[Len(t) - dist + 1 + ((i - 1) % dist)]]
DeepTexts == {FoldLeft(Repeat3, <<0, 1, 2, 2, 2, 2, 2, 3>>, Distances)}
DeepSlices == [flush : {"block", "partial"}, room : {60}, offer : {8}, how : {"dynamic"}]
              \cup [flush : {"none", "partial", "finish"}, room : {60}, offer : {42}, how : {"dynamic"}]
DeepBites == [take : {8}, room : {60}, flush : {"none"}]

Small == INSTANCE Zlib WITH
  WSize <- 16, MaxMatch <- 5, LitBufSize <- 8, TooFar <- 4, Lits <- 3,
  MaxBits <- 4, BlMaxBits <- 4, InfBits <- 3, LenRoot <- 3, DistRoot <- 2, CodeRoot <- 3,
  Sources <- Texts, Funcs <- {"fast", "slow"}, Calls <- Slices, Switches <- Turns,
  Messages <- Parcels, Hows <- {"static", "dynamic"}, FrameRoom <- 8, Reads <- Bites,
  MaxCalls <- 2, MaxSwitches <- 1, MaxMessages <- 2, MaxResets <- 1, Trail <- 1

Roots == INSTANCE Zlib WITH
  WSize <- 32, MaxMatch <- 3, LitBufSize <- 64, TooFar <- 4096, Lits <- 4,
  MaxBits <- 15, BlMaxBits <- 7, InfBits <- 5, LenRoot <- 9, DistRoot <- 6, CodeRoot <- 7,
  Sources <- DeepTexts, Funcs <- {"slow"}, Calls <- DeepSlices, Switches <- {},
  Messages <- {}, Hows <- {}, FrameRoom <- 8, Reads <- DeepBites,
  MaxCalls <- 3, MaxSwitches <- 0, MaxMessages <- 0, MaxResets <- 0, Trail <- 1

ASSUME ScaleAssumption ==
  /\ Small!DeflateAssumption /\ Small!InflateAssumption
  /\ Roots!DeflateAssumption /\ Roots!InflateAssumption

MCInit == (scale = "small" /\ Small!ZInit) \/ (scale = "roots" /\ Roots!ZInit)

MCNext ==
  \/ scale = "small" /\ Small!ZNext /\ UNCHANGED scale
  \/ scale = "roots" /\ Roots!ZNext /\ UNCHANGED scale

MCSpec == MCInit /\ [][MCNext]_<<Small!vars, scale>>

-----------------------------------------------------------------------------
(* The properties of Zlib.  None of them refers to a constant, so they are *)
(* the same for both instances.                                            *)

\* What inflate_stream writes is what deflate_stream was given.
RoundTrip == Small!RoundTrip



\* The full flush of permessage-deflate never fails.
MessagesNeverFail == Small!MessagesNeverFail

\* inflate_fast gives back an earlier buffer's bytes only with bits in hand.
GoesBackOnlyWithBitsInHand == Small!GoesBackOnlyWithBitsInHand
=============================================================================
