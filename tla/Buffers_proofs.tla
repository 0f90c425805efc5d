--------------------------- MODULE Buffers_proofs ---------------------------
(***************************************************************************)
(* Proofs about the dynamic buffers, for buffers of any sizes holding      *)
(* anything: a write is appended to what a buffer holds, consume() drops   *)
(* from the front of it, and a streambuf keeps what debug_check() asserts. *)
(* Each operation is a matter of places: where a part of a list begins in  *)
(* the flattened list (Off), so that in_pos_, out_ and out_pos_ become two *)
(* numbers, and the contents the piece between them (View).  Sums and      *)
(* flattened lists are folds of the library; the first section says what   *)
(* they are, by induction on the subsets of a finite set.  The last one is *)
(* about the sizes of what prepare() returns and what prepare_buffers()    *)
(* makes of them.                                                          *)
(***************************************************************************)
EXTENDS Buffers, Integers, FiniteSetTheorems, SequenceTheorems, TLAPS

-----------------------------------------------------------------------------
(* Induction.                                                              *)

\* A set of natural numbers has a least one.
LEMMA LeastNat ==
  ASSUME NEW T \in SUBSET Nat, T # {}
  PROVE  \E n \in T : \A m \in T : n <= m
<1>1. IsWellFoundedOn(OpToRel(<, Nat), Nat)
  BY NatLessThanWellFounded
<1>2. \A x, y \in Nat : <<y, x>> \in OpToRel(<, Nat) <=> y < x
  BY DEF OpToRel
<1>3. \E R : IsWellFoundedOn(R, Nat) /\ \A x, y \in Nat : <<y, x>> \in R <=> y < x
  BY <1>1, <1>2, Zenon
<1>4. PICK R : IsWellFoundedOn(R, Nat) /\ \A x, y \in Nat : <<y, x>> \in R <=> y < x
  BY <1>3
<1>5. PICK x \in T : \A y \in T : ~(<<y, x>> \in R)
  BY <1>4, WFMin
<1>6. \A y \in T : ~(y < x)
  BY <1>4, <1>5
<1> QED BY <1>6

\* Induction
LEMMA Induct ==
  ASSUME NEW S \in SUBSET Nat, 0 \in S, \A n \in Nat : n \in S => n+1 \in S
  PROVE  S = Nat
<1> SUFFICES ASSUME Nat \ S # {} PROVE FALSE
  OBVIOUS
<1>1. PICK n \in Nat \ S : \A m \in Nat \ S : n <= m
  <2>1. Nat \ S \in SUBSET Nat
    OBVIOUS
  <2> QED BY <2>1, LeastNat
<1>2. n # 0 /\ n - 1 \in Nat /\ ~(n <= n-1)
  BY <1>1
<1>3. n-1 \in S
  BY <1>1, <1>2
<1> QED BY <1>1, <1>2, <1>3

-----------------------------------------------------------------------------
(* Sums over finite sets.                                                  *)

\* Of a nonempty set of subsets of a finite set one is minimal.
LEMMA Minimal ==
  ASSUME NEW S, IsFiniteSet(S), NEW T, T # {}, \A x \in T : x \subseteq S
  PROVE  \E x \in T : \A y \in T : y \subseteq x => y = x
<1>0. T \subseteq SUBSET S
  OBVIOUS
<1>1. IsWellFoundedOn(StrictSubsetOrdering(S), SUBSET S)
  BY FS_StrictSubsetOrderingWellFounded, FS_FiniteSubsetsOfFinite, Zenon
<1>2. PICK x \in T : \A y \in T : <<y, x>> \notin StrictSubsetOrdering(S)
  BY <1>0, <1>1, WFMin
<1> QED BY <1>0, <1>2 DEF StrictSubsetOrdering

\* The element CHOOSE takes from a set.
Some(s) == CHOOSE x \in s : TRUE

\* It is one of them.
LEMMA SomeIn == ASSUME NEW s, s # {} PROVE Some(s) \in s
BY DEF Some

\* The recursion of MapThenFoldSet, for sums.
Adds(F, S, g) ==
  g = [s \in SUBSET S |-> IF s = {} THEN 0 ELSE F[Some(s)] + g[s \ {Some(s)}]]

\* The function so defined.
Adder(F, S) == CHOOSE g : Adds(F, S, g)

\* What it is at one set.
LEMMA AddsAt ==
  ASSUME NEW F, NEW S, NEW g, Adds(F, S, g), NEW s \in SUBSET S
  PROVE  g[s] = IF s = {} THEN 0 ELSE F[Some(s)] + g[s \ {Some(s)}]
BY DEF Adds

\* Two of them agree where both are defined.
LEMMA AddsAgree ==
  ASSUME NEW F, NEW S, IsFiniteSet(S), NEW T \in SUBSET S,
         NEW g, Adds(F, S, g), NEW h, Adds(F, T, h)
  PROVE  g[T] = h[T]
<1> DEFINE Bad == {s \in SUBSET T : g[s] # h[s]}
<1>1. IsFiniteSet(T)
  BY FS_Subset
<1> SUFFICES ASSUME Bad # {} PROVE FALSE
  OBVIOUS
<1>2. PICK s \in Bad : \A y \in Bad : y \subseteq s => y = s
  <2>1. \A x \in Bad : x \subseteq T
    OBVIOUS
  <2> HIDE DEF Bad
  <2> QED BY <1>1, <2>1, Minimal
<1>3. g[s] = IF s = {} THEN 0 ELSE F[Some(s)] + g[s \ {Some(s)}]
  BY AddsAt
<1>4. h[s] = IF s = {} THEN 0 ELSE F[Some(s)] + h[s \ {Some(s)}]
  BY AddsAt
<1>5. s # {}
  BY <1>3, <1>4
<1>6. g[s \ {Some(s)}] = h[s \ {Some(s)}]
  BY <1>2, <1>5, SomeIn
<1> QED BY <1>3, <1>4, <1>6

\* There is one, by induction on the subsets of S.
LEMMA AdderExists ==
  ASSUME NEW F, NEW S, IsFiniteSet(S)
  PROVE  Adds(F, S, Adder(F, S))
<1> DEFINE Bad == {T \in SUBSET S : ~Adds(F, T, Adder(F, T))}
<1> SUFFICES ASSUME Bad # {} PROVE FALSE
  OBVIOUS
<1>1. PICK T \in Bad : \A y \in Bad : y \subseteq T => y = T
  <2>1. \A x \in Bad : x \subseteq S
    OBVIOUS
  <2> HIDE DEF Bad
  <2> QED BY <2>1, Minimal
<1>2. \A V \in SUBSET T : V # T => Adds(F, V, Adder(F, V))
  BY <1>1
<1> DEFINE v(s) == Adder(F, s \ {Some(s)})[s \ {Some(s)}]
           g == [s \in SUBSET T |-> IF s = {} THEN 0 ELSE F[Some(s)] + v(s)]
<1>3. ASSUME NEW V \in SUBSET T, V # T PROVE g[V] = Adder(F, V)[V]
  <2>1. CASE V = {}
    BY <1>2, <1>3, <2>1, AddsAt
  <2>2. CASE V # {}
    <3> DEFINE W == V \ {Some(V)}
    <3>1. Adder(F, V)[V] = F[Some(V)] + Adder(F, V)[W]
      BY <1>2, <1>3, <2>2, AddsAt
    <3>2. W \in SUBSET V /\ W \in SUBSET T /\ W # T
      BY <2>2, SomeIn
    <3>3. Adds(F, V, Adder(F, V)) /\ Adds(F, W, Adder(F, W))
      BY <1>2, <1>3, <3>2
    <3>4. IsFiniteSet(V)
      BY FS_Subset
    <3> HIDE DEF W
    <3>5. Adder(F, V)[W] = Adder(F, W)[W]
      BY <3>2, <3>3, <3>4, AddsAgree
    <3> QED BY <2>2, <3>1, <3>5 DEF W
  <2> QED BY <2>1, <2>2
<1>4. \A s \in SUBSET T : s # {} => g[s \ {Some(s)}] = v(s)
  BY <1>3, SomeIn
<1>5. Adds(F, T, g)
  BY <1>4 DEF Adds
<1>6. Adds(F, T, Adder(F, T))
  BY <1>5 DEF Adder
<1> QED BY <1>1, <1>6

\* SumFunctionOnSet, unfolded.
LEMMA SumIs == ASSUME NEW F, NEW S PROVE SumFunctionOnSet(F, S) = Adder(F, S)[S]
BY DEF SumFunctionOnSet, FoldFunctionOnSet, MapThenFoldSet, Adder, Adds, Some

\* The sum of nothing.
LEMMA SumEmpty == ASSUME NEW F PROVE SumFunctionOnSet(F, {}) = 0
<1>1. Adds(F, {}, Adder(F, {}))
  BY AdderExists, FS_EmptySet
<1> QED BY <1>1, SumIs, AddsAt

\* The sum of something: one term and the rest.
LEMMA SumSome ==
  ASSUME NEW F, NEW S, IsFiniteSet(S), S # {}
  PROVE  SumFunctionOnSet(F, S) = F[Some(S)] + SumFunctionOnSet(F, S \ {Some(S)})
<1> DEFINE W == S \ {Some(S)}
<1>1. IsFiniteSet(W) /\ W \in SUBSET S
  BY FS_Subset
<1>2. Adds(F, S, Adder(F, S)) /\ Adds(F, W, Adder(F, W))
  BY <1>1, AdderExists
<1>3. Adder(F, S)[S] = F[Some(S)] + Adder(F, S)[W]
  BY <1>2, AddsAt
<1> HIDE DEF W
<1>4. Adder(F, S)[W] = Adder(F, W)[W]
  BY <1>1, <1>2, AddsAgree
<1> QED BY <1>3, <1>4, SumIs DEF W

\* A sum may be taken in any order.
LEMMA SumAny ==
  ASSUME NEW S, IsFiniteSet(S), NEW F, \A i \in S : F[i] \in Int
  PROVE  /\ SumFunctionOnSet(F, S) \in Int
         /\ \A x \in S : SumFunctionOnSet(F, S) = F[x] + SumFunctionOnSet(F, S \ {x})
<1> DEFINE Right(T) == /\ SumFunctionOnSet(F, T) \in Int
                       /\ \A x \in T : SumFunctionOnSet(F, T) = F[x] + SumFunctionOnSet(F, T \ {x})
           Bad == {T \in SUBSET S : ~Right(T)}
<1> SUFFICES ASSUME Bad # {} PROVE FALSE
  OBVIOUS
<1>1. PICK T \in Bad : \A y \in Bad : y \subseteq T => y = T
  <2>1. \A x \in Bad : x \subseteq S
    OBVIOUS
  <2> HIDE DEF Bad
  <2> QED BY <2>1, Minimal
<1>2. \A V \in SUBSET T : V # T => Right(V)
  BY <1>1
<1>3. ~Right(T) /\ T \in SUBSET S
  BY <1>1
<1>4. T # {}
  <2>1. Right({})
    BY SumEmpty
  <2> QED BY <1>3, <2>1
<1> DEFINE y == Some(T)
<1>5. y \in T
  BY <1>4, SomeIn
<1>6. IsFiniteSet(T)
  BY <1>3, FS_Subset
<1>7. SumFunctionOnSet(F, T) = F[y] + SumFunctionOnSet(F, T \ {y})
  BY <1>4, <1>6, SumSome
<1> HIDE DEF y
<1>8. SumFunctionOnSet(F, T \ {y}) \in Int
  BY <1>2, <1>5
<1>9. SumFunctionOnSet(F, T) \in Int
  BY <1>3, <1>5, <1>7, <1>8
<1>10. ASSUME NEW x \in T, x # y PROVE SumFunctionOnSet(F, T) = F[x] + SumFunctionOnSet(F, T \ {x})
  <2>1. SumFunctionOnSet(F, T \ {y}) = F[x] + SumFunctionOnSet(F, (T \ {y}) \ {x})
    BY <1>2, <1>5, <1>10
  <2>2. SumFunctionOnSet(F, T \ {x}) = F[y] + SumFunctionOnSet(F, (T \ {x}) \ {y})
    BY <1>2, <1>5, <1>10
  <2>3. (T \ {y}) \ {x} = (T \ {x}) \ {y}
    OBVIOUS
  <2>4. SumFunctionOnSet(F, (T \ {x}) \ {y}) \in Int
    <3>1. (T \ {x}) \ {y} \in SUBSET T /\ (T \ {x}) \ {y} # T
      BY <1>5
    <3> QED BY <1>2, <3>1
  <2>5. F[x] \in Int /\ F[y] \in Int
    BY <1>3, <1>5
  <2> DEFINE b == SumFunctionOnSet(F, (T \ {x}) \ {y})
             c == SumFunctionOnSet(F, T \ {x})
             d == SumFunctionOnSet(F, T \ {y})
  <2>6. d = F[x] + b /\ c = F[y] + b /\ SumFunctionOnSet(F, T) = F[y] + d /\ b \in Int
    BY <1>7, <2>1, <2>2, <2>3, <2>4
  <2> HIDE DEF b, c, d
  <2>7. SumFunctionOnSet(F, T) = F[x] + c
    BY <2>5, <2>6
  <2> QED BY <2>7 DEF c
<1> QED BY <1>3, <1>7, <1>9, <1>10

\* Equal terms, equal sums.
LEMMA SumSame ==
  ASSUME NEW S, IsFiniteSet(S), NEW F, NEW G, \A i \in S : F[i] \in Int /\ F[i] = G[i]
  PROVE  SumFunctionOnSet(F, S) = SumFunctionOnSet(G, S)
<1> DEFINE Bad == {T \in SUBSET S : SumFunctionOnSet(F, T) # SumFunctionOnSet(G, T)}
<1> SUFFICES ASSUME Bad # {} PROVE FALSE
  OBVIOUS
<1>1. PICK T \in Bad : \A y \in Bad : y \subseteq T => y = T
  <2>1. \A x \in Bad : x \subseteq S
    OBVIOUS
  <2> HIDE DEF Bad
  <2> QED BY <2>1, Minimal
<1>2. T # {}
  BY SumEmpty
<1>3. IsFiniteSet(T)
  BY FS_Subset
<1> DEFINE x == Some(T)
<1>4. x \in T
  BY <1>2, SomeIn
<1>5. /\ SumFunctionOnSet(F, T) = F[x] + SumFunctionOnSet(F, T \ {x})
      /\ SumFunctionOnSet(G, T) = G[x] + SumFunctionOnSet(G, T \ {x})
  BY <1>2, <1>3, SumSome
<1> HIDE DEF x
<1>6. SumFunctionOnSet(F, T \ {x}) = SumFunctionOnSet(G, T \ {x})
  BY <1>1, <1>4
<1>7. F[x] = G[x]
  BY <1>4
<1> QED BY <1>5, <1>6, <1>7

\* The sum over an interval, its last term taken apart.
LEMMA SumLast ==
  ASSUME NEW a \in Int, NEW j \in Int, a <= j, NEW F, \A i \in a..j : F[i] \in Int
  PROVE  SumFunctionOnSet(F, a..j) = SumFunctionOnSet(F, a..(j-1)) + F[j]
<1>1. IsFiniteSet(a..j) /\ IsFiniteSet(a..(j-1))
  BY FS_Interval
<1>2. (a..j) \ {j} = a..(j-1)
  OBVIOUS
<1>3. SumFunctionOnSet(F, a..j) = F[j] + SumFunctionOnSet(F, a..(j-1))
  <2>1. SumFunctionOnSet(F, a..j) = F[j] + SumFunctionOnSet(F, (a..j) \ {j})
    BY <1>1, SumAny
  <2> QED BY <1>2, <2>1
<1>4. SumFunctionOnSet(F, a..(j-1)) \in Int
  BY <1>1, SumAny
<1> QED BY <1>3, <1>4

\* Terms that are differences: all but the first and the last cancel.
LEMMA Telescope ==
  ASSUME NEW a \in Int, NEW j \in Int, a <= j + 1, NEW P, \A i \in (a-1)..j : P[i] \in Int,
         NEW F, DOMAIN F = a..j, \A i \in a..j : F[i] = P[i] - P[i-1]
  PROVE  SumFunction(F) = P[j] - P[a-1]
<1> DEFINE G(m) == SumFunctionOnSet(F, a..m)
           S == {n \in Nat : \A m \in Int : m = a + n - 1 /\ m <= j => G(m) = P[m] - P[a-1]}
<1>1. 0 \in S
  <2>1. a..(a-1) = {}
    OBVIOUS
  <2>2. G(a-1) = 0
    BY <2>1, SumEmpty, Zenon
  <2> HIDE DEF G
  <2> QED BY <2>2
<1>2. ASSUME NEW n \in Nat, n \in S PROVE n + 1 \in S
  <2> SUFFICES ASSUME NEW m \in Int, m = a + (n+1) - 1, m <= j PROVE G(m) = P[m] - P[a-1]
    OBVIOUS
  <2>1. G(m-1) = P[m-1] - P[a-1]
    <3> HIDE DEF G
    <3> QED BY <1>2
  <2>2. \A i \in a..m : F[i] \in Int
    OBVIOUS
  <2>3. G(m) = G(m-1) + F[m]
    <3>1. a <= m
      OBVIOUS
    <3> QED BY <2>2, <3>1, SumLast, Zenon
  <2>4. F[m] = P[m] - P[m-1] /\ P[m] \in Int /\ P[m-1] \in Int /\ P[a-1] \in Int
    OBVIOUS
  <2> HIDE DEF G
  <2> QED BY <2>1, <2>3, <2>4
<1>3. S = Nat
  <2>1. S \in SUBSET Nat
    OBVIOUS
  <2> HIDE DEF S
  <2> QED BY <1>1, <1>2, <2>1, Induct
<1>4. j - a + 1 \in S
  <2>1. j - a + 1 \in Nat
    OBVIOUS
  <2> HIDE DEF S
  <2> QED BY <1>3, <2>1
<1>5. SumFunction(F) = G(j)
  BY DEF SumFunction
<1> HIDE DEF G
<1> QED BY <1>4, <1>5

-----------------------------------------------------------------------------
(* Flat: a list of sequences as one sequence, and where its parts lie.     *)

\* How many cells the first j parts of L have.
Off(L, j) == SumFunction([i \in 1..j |-> Len(L[i])])

\* They are added up one by one.
LEMMA OffStep ==
  ASSUME NEW C, NEW L \in Seq(Seq(C))
  PROVE  /\ Off(L, 0) = 0
         /\ \A j \in 0..Len(L) : Off(L, j) \in Nat
         /\ \A j \in 1..Len(L) : Off(L, j) = Off(L, j-1) + Len(L[j])
<1> DEFINE G == [i \in 1..Len(L) |-> Len(L[i])]
<1>1. \A i \in 1..Len(L) : G[i] \in Nat /\ G[i] = Len(L[i])
  OBVIOUS
<1>2. ASSUME NEW j \in 0..Len(L) PROVE Off(L, j) = SumFunctionOnSet(G, 1..j)
  <2> DEFINE F == [i \in 1..j |-> Len(L[i])]
  <2>1. \A i \in 1..j : F[i] \in Int /\ F[i] = G[i]
    BY <1>1
  <2>2. IsFiniteSet(1..j)
    BY FS_Interval
  <2>3. SumFunction(F) = SumFunctionOnSet(F, 1..j)
    BY DEF SumFunction
  <2>4. SumFunctionOnSet(F, 1..j) = SumFunctionOnSet(G, 1..j)
    <3> HIDE DEF F, G
    <3> QED BY <2>1, <2>2, SumSame, Zenon
  <2> QED BY <2>3, <2>4 DEF Off
<1> HIDE DEF G
<1>3. Off(L, 0) = 0
  <2>1. 1..0 = {} /\ 0 \in 0..Len(L)
    OBVIOUS
  <2>2. Off(L, 0) = SumFunctionOnSet(G, 1..0)
    BY <1>2, <2>1
  <2> QED BY <2>1, <2>2, SumEmpty, Zenon
<1>4. ASSUME NEW j \in 1..Len(L) PROVE Off(L, j) = Off(L, j-1) + Len(L[j])
  <2>1. 1 <= j /\ \A i \in 1..j : G[i] \in Int
    BY <1>1
  <2>2. SumFunctionOnSet(G, 1..j) = SumFunctionOnSet(G, 1..(j-1)) + G[j]
    BY <2>1, SumLast, 1 \in Int, j \in Int, Zenon
  <2>3. j - 1 \in 0..Len(L) /\ j \in 0..Len(L)
    OBVIOUS
  <2> QED BY <1>1, <1>2, <2>2, <2>3
<1>5. \A j \in 0..Len(L) : Off(L, j) \in Nat
  <2> DEFINE S == {n \in Nat : n \in 0..Len(L) => Off(L, n) \in Nat}
  <2>1. 0 \in S
    BY <1>3
  <2>2. ASSUME NEW n \in Nat, n \in S PROVE n + 1 \in S
    <3>1. ASSUME n + 1 \in 0..Len(L) PROVE Off(L, n + 1) \in Nat
      <4>1. n + 1 \in 1..Len(L) /\ n \in 0..Len(L) /\ (n + 1) - 1 = n
        BY <3>1
      <4>2. Off(L, n + 1) = Off(L, n) + Len(L[n + 1])
        BY <1>4, <4>1
      <4> QED BY <2>2, <4>1, <4>2
    <3> QED BY <3>1
  <2>3. S = Nat
    <3>1. S \in SUBSET Nat
      OBVIOUS
    <3> HIDE DEF S
    <3> QED BY <2>1, <2>2, <3>1, Induct
  <2> QED BY <2>3
<1> QED BY <1>3, <1>4, <1>5

\* More parts, no fewer cells.
LEMMA OffUp ==
  ASSUME NEW C, NEW L \in Seq(Seq(C)), NEW i \in 0..Len(L), NEW j \in i..Len(L)
  PROVE  Off(L, i) <= Off(L, j)
<1> DEFINE S == {n \in Nat : i + n <= Len(L) => Off(L, i) <= Off(L, i + n)}
<1>1. 0 \in S
  BY OffStep
<1>2. ASSUME NEW n \in Nat, n \in S PROVE n + 1 \in S
  <2>1. ASSUME i + (n + 1) <= Len(L) PROVE Off(L, i) <= Off(L, i + (n + 1))
    <3> DEFINE m == i + (n + 1)
    <3>1. m \in 1..Len(L) /\ m - 1 = i + n /\ i + n \in 0..Len(L) /\ m \in 0..Len(L)
      BY <2>1
    <3>2. Off(L, i) <= Off(L, m - 1)
      BY <1>2, <3>1
    <3> HIDE DEF m
    <3>3. Off(L, m) = Off(L, m - 1) + Len(L[m]) /\ Off(L, m) \in Nat /\ Off(L, m - 1) \in Nat /\ Off(L, i) \in Nat
      BY <3>1, OffStep
    <3>4. Len(L[m]) \in Nat
      BY <3>1
    <3>5. Off(L, i) <= Off(L, m)
      BY <3>2, <3>3, <3>4
    <3> QED BY <3>5 DEF m
  <2> QED BY <2>1
<1>3. S = Nat
  <2>1. S \in SUBSET Nat
    OBVIOUS
  <2> HIDE DEF S
  <2> QED BY <1>1, <1>2, <2>1, Induct
<1>4. j - i \in S /\ i + (j - i) = j
  <2>1. j - i \in Nat
    OBVIOUS
  <2> HIDE DEF S
  <2> QED BY <1>3, <2>1
<1> QED BY <1>4

\* Parts of the same sizes.
LEMMA OffSame ==
  ASSUME NEW L, NEW M, NEW j, \A i \in 1..j : Len(L[i]) = Len(M[i])
  PROVE  Off(L, j) = Off(M, j)
<1>1. [i \in 1..j |-> Len(L[i])] = [i \in 1..j |-> Len(M[i])]
  OBVIOUS
<1> QED BY <1>1, Zenon DEF Off

\* Every place in the first j parts lies in one of them.
LEMMA Locate ==
  ASSUME NEW C, NEW L \in Seq(Seq(C)), NEW j \in 0..Len(L), NEW p \in 1..Off(L, j)
  PROVE  \E i \in 1..j : p - Off(L, i-1) \in 1..Len(L[i])
<1> DEFINE T == {i \in 0..j : p <= Off(L, i)}
<1>1. j \in T /\ T \in SUBSET Nat
  <2>1. Off(L, j) \in Nat
    BY OffStep
  <2> QED BY <2>1
<1>2. PICK i \in T : \A m \in T : i <= m
  <2> HIDE DEF T
  <2> QED BY <1>1, LeastNat
<1>3. Off(L, 0) = 0 /\ i \in 0..j /\ p <= Off(L, i)
  BY <1>2, OffStep
<1>4. Off(L, i) \in Nat
  BY <1>3, OffStep
<1>5. i # 0
  BY <1>3
<1>6. i - 1 \notin T
  BY <1>2, <1>3
<1>7. Off(L, i) = Off(L, i-1) + Len(L[i]) /\ Off(L, i-1) \in Nat
  <2>1. i \in 1..Len(L) /\ i - 1 \in 0..Len(L)
    BY <1>3, <1>5
  <2> QED BY <2>1, OffStep
<1>8. Off(L, i-1) < p
  BY <1>3, <1>5, <1>6, <1>7
<1>9. Len(L[i]) \in Nat /\ i \in 1..j /\ p \in Int
  BY <1>3, <1>4, <1>5
<1>10. p - Off(L, i-1) \in 1..Len(L[i])
  <2> HIDE DEF T
  <2> QED BY <1>3, <1>7, <1>8, <1>9
<1> QED BY <1>9, <1>10

\* The recursion of Flat, as the folds of the library have it.
Joins(L, n, f) == f = [i \in 0..n |-> IF i = 0 THEN <<>> ELSE f[i-1] \o L[i]]

\* It defines a function.
LEMMA JoinsExists == ASSUME NEW L, NEW n \in Nat PROVE \E f : Joins(L, n, f)
<1> DEFINE S == {m \in Nat : \E f : Joins(L, m, f)}
<1>1. 0 \in S
  <2>1. Joins(L, 0, [i \in 0..0 |-> <<>>])
    BY DEF Joins
  <2> QED BY <2>1
<1>2. ASSUME NEW m \in Nat, m \in S PROVE m + 1 \in S
  <2>1. PICK f : Joins(L, m, f)
    BY <1>2
  <2> DEFINE g == [i \in 0..(m+1) |-> IF i = m + 1 THEN f[m] \o L[m+1] ELSE f[i]]
  <2>2. \A i \in 0..m : f[i] = IF i = 0 THEN <<>> ELSE f[i-1] \o L[i]
    BY <2>1 DEF Joins
  <2>3. \A i \in 0..(m+1) : g[i] = IF i = 0 THEN <<>> ELSE g[i-1] \o L[i]
    <3> TAKE i \in 0..(m+1)
    <3>1. CASE i = m + 1
      <4>1. g[i] = f[m] \o L[m+1] /\ i - 1 = m /\ g[m] = f[m] /\ i # 0
        BY <3>1
      <4> HIDE DEF g
      <4> QED BY <3>1, <4>1
    <3>2. CASE i # m + 1
      <4>1. i \in 0..m /\ g[i] = f[i] /\ (i # 0 => i - 1 \in 0..m /\ g[i-1] = f[i-1])
        BY <3>2
      <4> HIDE DEF g
      <4> QED BY <2>2, <4>1
    <3> QED BY <3>1, <3>2
  <2>4. Joins(L, m + 1, g)
    <3>1. g = [i \in 0..(m+1) |-> g[i]]
      OBVIOUS
    <3> HIDE DEF g
    <3>2. [i \in 0..(m+1) |-> g[i]] = [i \in 0..(m+1) |-> IF i = 0 THEN <<>> ELSE g[i-1] \o L[i]]
      BY <2>3
    <3> QED BY <3>1, <3>2, Zenon DEF Joins
  <2> HIDE DEF g
  <2> QED BY <2>4
<1>3. S = Nat
  <2>1. S \in SUBSET Nat
    OBVIOUS
  <2> HIDE DEF S
  <2> QED BY <1>1, <1>2, <2>1, Induct
<1> QED BY <1>3

\* Flat is that function at the end.
LEMMA FlatJoins == ASSUME NEW L PROVE Flat(L) = (CHOOSE f : Joins(L, Len(L), f))[Len(L)]
BY DEF Flat, Joins

\* What is in a concatenation, and where.
LEMMA ConcatAt ==
  ASSUME NEW C, NEW s \in Seq(C), NEW t \in Seq(C)
  PROVE  /\ \A k \in Nat : k >= 1 /\ k <= Len(t) => (s \o t)[Len(s) + k] = t[k]
         /\ \A q \in Nat : q >= 1 /\ q <= Len(s) => (s \o t)[q] = s[q]
<1>1. Len(s) \in Nat /\ Len(t) \in Nat
  OBVIOUS
<1> DEFINE m == Len(s)
           n == Len(t)
<1>2. \A i \in 1..(m+n) : (s \o t)[i] = IF i <= m THEN s[i] ELSE t[i - m]
  BY ConcatProperties
<1>3. m \in Nat /\ n \in Nat
  BY <1>1
<1> HIDE DEF m, n
<1>4. ASSUME NEW k \in Nat, k >= 1, k <= n PROVE (s \o t)[m + k] = t[k]
  <2>1. m + k \in 1..(m+n) /\ ~(m + k <= m) /\ (m + k) - m = k
    BY <1>3, <1>4
  <2> QED BY <1>2, <2>1
<1>5. ASSUME NEW q \in Nat, q >= 1, q <= m PROVE (s \o t)[q] = s[q]
  <2>1. q \in 1..(m+n)
    BY <1>3, <1>5
  <2> QED BY <1>2, <1>5, <2>1
<1> QED BY <1>4, <1>5 DEF m, n

\* Places behind a, up to c.
LEMMA UpTo ==
  ASSUME NEW a \in Nat, NEW b \in Nat, NEW c \in Nat, NEW k \in Nat, NEW l \in Nat,
         b = a + l, b <= c, k >= 1, k <= l
  PROVE  a + k \in Nat /\ a + k >= 1 /\ a + k <= c
OBVIOUS

\* Flat(L) is as long as the parts together, and holds the j-th part behind
\* the ones before it.
LEMMA FlatAt ==
  ASSUME NEW C, NEW L \in Seq(Seq(C))
  PROVE  /\ Flat(L) \in Seq(C)
         /\ Len(Flat(L)) = Off(L, Len(L))
         /\ \A j \in 1..Len(L) : \A k \in 1..Len(L[j]) : Flat(L)[Off(L, j-1) + k] = L[j][k]
<1>1. Len(L) \in Nat
  OBVIOUS
<1>2. PICK f : Joins(L, Len(L), f) /\ Flat(L) = f[Len(L)]
  <2>1. Joins(L, Len(L), CHOOSE f : Joins(L, Len(L), f))
    BY <1>1, JoinsExists
  <2> QED BY <2>1, FlatJoins
<1>3. \A i \in 0..Len(L) : f[i] = IF i = 0 THEN <<>> ELSE f[i-1] \o L[i]
  BY <1>2 DEF Joins
<1> DEFINE Good(n) == /\ f[n] \in Seq(C)
                      /\ Len(f[n]) = Off(L, n)
                      /\ \A j \in 1..n : \A k \in 1..Len(L[j]) : f[n][Off(L, j-1) + k] = L[j][k]
<1>4. Good(0)
  <2>1. f[0] = <<>> /\ Off(L, 0) = 0
    BY <1>3, OffStep
  <2>2. f[0] \in Seq(C) /\ Len(f[0]) = Off(L, 0)
    BY <2>1
  <2> QED BY <2>2
<1>5. ASSUME NEW m \in 1..Len(L), Good(m-1) PROVE Good(m)
  <2> DEFINE n == m - 1
  <2>1. /\ n \in 0..Len(L) /\ m \in 0..Len(L) /\ n \in Nat /\ n + 1 = m
        /\ f[n] \in Seq(C) /\ Len(f[n]) = Off(L, n)
        /\ \A j \in 1..n : \A k \in 1..Len(L[j]) : f[n][Off(L, j-1) + k] = L[j][k]
    BY <1>5
  <2> HIDE DEF Good
  <2>2. f[m] = f[n] \o L[m]
    <3>1. m # 0
      OBVIOUS
    <3> QED BY <1>3, <2>1, <3>1, Zenon
  <2>3. L[m] \in Seq(C) /\ Len(L[m]) \in Nat
    OBVIOUS
  <2>4. Off(L, m) = Off(L, n) + Len(L[m]) /\ Off(L, n) \in Nat
    BY <2>1, OffStep
  <2> HIDE DEF n
  <2>5. f[m] \in Seq(C) /\ Len(f[m]) = Off(L, m)
    <3>1. f[n] \o L[m] \in Seq(C) /\ Len(f[n] \o L[m]) = Len(f[n]) + Len(L[m])
      BY <2>1, <2>3, ConcatProperties
    <3> QED BY <2>1, <2>2, <2>4, <3>1
  <2>6. ASSUME NEW j \in 1..m, NEW k \in 1..Len(L[j]) PROVE f[m][Off(L, j-1) + k] = L[j][k]
    <3>1. CASE j = m
      <4>1. Off(L, j-1) = Len(f[n]) /\ k \in 1..Len(L[m])
        BY <2>1, <3>1 DEF n
      <4>2. (f[n] \o L[m])[Len(f[n]) + k] = L[m][k]
        <5>1. f[n] \in Seq(C)
          BY <2>1
        <5> DEFINE s == f[n]
                   t == L[m]
        <5>2. s \in Seq(C) /\ t \in Seq(C)
          BY <5>1, <2>3
        <5>3. k \in Nat /\ k >= 1 /\ k <= Len(t)
          BY <4>1, <2>3
        <5> HIDE DEF s, t
        <5>4. (s \o t)[Len(s) + k] = t[k]
          BY <5>2, <5>3, ConcatAt
        <5> QED BY <5>4 DEF s, t
      <4> QED BY <2>2, <3>1, <4>1, <4>2
    <3>2. CASE j # m
      <4>1. j \in 1..n /\ j \in 1..Len(L) /\ j \in 0..Len(L) /\ j - 1 \in 0..Len(L) /\ n \in j..Len(L)
        BY <2>1, <3>2
      <4>2. /\ Off(L, j) = Off(L, j-1) + Len(L[j]) /\ Off(L, j) <= Off(L, n)
            /\ Off(L, j-1) \in Nat /\ Off(L, j) \in Nat
        BY <4>1, OffStep, OffUp
      <4> DEFINE q == Off(L, j-1) + k
      <4>3. Len(L[j]) \in Nat /\ k \in Nat /\ k >= 1 /\ k <= Len(L[j])
        BY <4>1
      <4>4. q \in Nat /\ q >= 1 /\ q <= Off(L, n)
        BY <2>4, <4>2, <4>3, UpTo
      <4>5. f[n][q] = L[j][k]
        BY <2>1, <4>1
      <4> HIDE DEF q, Good
      <4>6. (f[n] \o L[m])[q] = f[n][q]
        <5>1. f[n] \in Seq(C)
          BY <2>1
        <5>2. \A i \in Nat : i >= 1 /\ i <= Len(f[n]) => (f[n] \o L[m])[i] = f[n][i]
          BY <5>1, <2>3, ConcatAt, ZenonT(40)
        <5>3. q \in Nat /\ q >= 1 /\ q <= Len(f[n])
          BY <2>1, <4>4
        <5> QED BY <5>2, <5>3, Zenon
      <4> QED BY <2>2, <4>5, <4>6 DEF q
    <3> QED BY <3>1, <3>2
  <2> QED BY <2>5, <2>6 DEF Good
<1>6. Good(Len(L))
  <2> HIDE DEF Good
  <2> DEFINE S == {n \in Nat : n <= Len(L) => Good(n)}
  <2>1. 0 \in S
    BY <1>4
  <2>2. ASSUME NEW n \in Nat, n \in S PROVE n + 1 \in S
    <3>1. ASSUME n + 1 <= Len(L) PROVE Good(n + 1)
      <4>1. n + 1 \in 1..Len(L) /\ n <= Len(L) /\ (n + 1) - 1 = n
        BY <1>1, <3>1
      <4>2. Good((n + 1) - 1)
        BY <2>2, <4>1
      <4> QED BY <1>5, <4>1, <4>2
    <3> QED BY <3>1
  <2>3. S = Nat
    <3>1. S \in SUBSET Nat
      OBVIOUS
    <3> HIDE DEF S
    <3> QED BY <2>1, <2>2, <3>1, Induct
  <2> QED BY <1>1, <2>3
<1> QED BY <1>2, <1>6

\* And nothing else is.
LEMMA FlatOnly ==
  ASSUME NEW C, NEW L \in Seq(Seq(C)), NEW s \in Seq(C), Len(s) = Off(L, Len(L)),
         \A j \in 1..Len(L) : \A k \in 1..Len(L[j]) : s[Off(L, j-1) + k] = L[j][k]
  PROVE  s = Flat(L)
<1>1. Flat(L) \in Seq(C) /\ Len(Flat(L)) = Len(s)
  BY FlatAt
<1>2. ASSUME NEW p \in 1..Len(s) PROVE s[p] = Flat(L)[p]
  <2>1. Len(L) \in 0..Len(L)
    OBVIOUS
  <2>2. PICK j \in 1..Len(L) : p - Off(L, j-1) \in 1..Len(L[j])
    BY <1>2, <2>1, Locate
  <2> DEFINE k == p - Off(L, j-1)
  <2>3. Off(L, j-1) \in Nat
    BY OffStep, j - 1 \in 0..Len(L)
  <2>4. k \in 1..Len(L[j]) /\ Off(L, j-1) + k = p
    BY <2>2, <2>3
  <2> HIDE DEF k
  <2>5. s[Off(L, j-1) + k] = L[j][k] /\ Flat(L)[Off(L, j-1) + k] = L[j][k]
    BY <2>4, FlatAt
  <2> QED BY <2>4, <2>5
<1> QED BY <1>1, <1>2, SeqEqual

-----------------------------------------------------------------------------
(* basic_streambuf.                                                        *)

\* What the parts from a to j hold, but for the first x cells of part a.
LEMMA SumBetween ==
  ASSUME NEW C, NEW L \in Seq(Seq(C)), NEW a \in 1..(Len(L)+1), NEW j \in (a-1)..Len(L), NEW x \in Int
  PROVE  SumFunction([i \in a..j |-> Len(L[i]) - (IF i = a THEN x ELSE 0)])
           = IF j = a - 1 THEN 0 ELSE Off(L, j) - (Off(L, a-1) + x)
<1> DEFINE F == [i \in a..j |-> Len(L[i]) - (IF i = a THEN x ELSE 0)]
           P == [i \in (a-1)..j |-> IF i = a - 1 THEN Off(L, a-1) + x ELSE Off(L, i)]
<1>1. a \in Int /\ j \in Int /\ a <= j + 1 /\ Len(L) \in Nat
  OBVIOUS
<1>2. \A i \in (a-1)..j : i \in 0..Len(L) /\ Off(L, i) \in Nat
  BY <1>1, OffStep
<1>3. \A i \in (a-1)..j : P[i] \in Int
  BY <1>1, <1>2
<1>4. ASSUME NEW i \in a..j PROVE F[i] = P[i] - P[i-1]
  <2>1. i \in 1..Len(L) /\ i \in (a-1)..j /\ i - 1 \in (a-1)..j /\ i # a - 1
    OBVIOUS
  <2>2. Off(L, i) = Off(L, i-1) + Len(L[i]) /\ Off(L, i) \in Nat /\ Off(L, i-1) \in Nat
    BY <1>2, <2>1, OffStep
  <2>3. P[i] = Off(L, i) /\ F[i] = Len(L[i]) - (IF i = a THEN x ELSE 0)
    BY <2>1
  <2>4. P[i-1] = IF i = a THEN Off(L, i-1) + x ELSE Off(L, i-1)
    BY <2>1
  <2> HIDE DEF P, F
  <2>5. Len(L[i]) \in Nat
    BY <2>1
  <2> DEFINE o == Off(L, i-1)
             l == Len(L[i])
  <2>6. Off(L, i) = o + l /\ o \in Nat /\ l \in Nat
    BY <2>2, <2>5
  <2>7. F[i] = l - (IF i = a THEN x ELSE 0) /\ P[i-1] = IF i = a THEN o + x ELSE o
    BY <2>3, <2>4
  <2> HIDE DEF o, l
  <2>8. P[i] - P[i-1] = (o + l) - (IF i = a THEN o + x ELSE o)
    BY <2>3, <2>6, <2>7, Zenon
  <2>9. (o + l) - (IF i = a THEN o + x ELSE o) = l - (IF i = a THEN x ELSE 0)
    BY <2>6
  <2> QED BY <2>7, <2>8, <2>9, Zenon
<1>5. DOMAIN F = a..j
  OBVIOUS
<1>6. P[a-1] = Off(L, a-1) + x /\ P[j] = IF j = a - 1 THEN Off(L, a-1) + x ELSE Off(L, j)
  OBVIOUS
<1>7. SumFunction(F) = P[j] - P[a-1]
  <2> HIDE DEF P, F
  <2> QED BY <1>1, <1>3, <1>4, <1>5, Telescope, ZenonT(40)
<1>8. Off(L, a-1) \in Nat /\ Off(L, j) \in Nat
  BY <1>2
<1>9. SumFunction(F) = IF j = a - 1 THEN 0 ELSE Off(L, j) - (Off(L, a-1) + x)
  <2> HIDE DEF P, F
  <2> QED BY <1>6, <1>7, <1>8
<1> QED BY <1>9

\* What the parts from a to j hold.
LEMMA SumFrom ==
  ASSUME NEW C, NEW L \in Seq(Seq(C)), NEW a \in 1..(Len(L)+1), NEW j \in (a-1)..Len(L)
  PROVE  SumFunction([i \in a..j |-> Len(L[i])]) = Off(L, j) - Off(L, a-1)
<1>1. \A i \in a..j : Len(L[i]) = Len(L[i]) - (IF i = a THEN 0 ELSE 0)
  OBVIOUS
<1>2. [i \in a..j |-> Len(L[i])] = [i \in a..j |-> Len(L[i]) - (IF i = a THEN 0 ELSE 0)]
  BY <1>1
<1>3. SumFunction([i \in a..j |-> Len(L[i]) - (IF i = a THEN 0 ELSE 0)])
           = IF j = a - 1 THEN 0 ELSE Off(L, j) - (Off(L, a-1) + 0)
  BY SumBetween, 0 \in Int, Zenon
<1>4. a - 1 \in 0..Len(L) /\ j \in 0..Len(L)
  OBVIOUS
<1>5. Off(L, a-1) \in Nat /\ Off(L, j) \in Nat
  BY <1>4, OffStep
<1> QED BY <1>2, <1>3, <1>5, SMTT(30)

-----------------------------------------------------------------------------

\* Where the data of a streambuf ends: the place of out_ and out_pos_.
End(b) == Off(b.list, b.out - 1) + b.out_pos

\* A streambuf as its operations leave it: debug_check() and a little more.
Shaped(C, b) ==
  /\ b \in [list : Seq(Seq(C)), out : Nat, in_pos : Nat, out_pos : Nat, out_end : Nat, in_size : Nat]
  /\ \A i \in 1..Len(b.list) : Len(b.list[i]) > 0
  /\ b.out \in 1..(Len(b.list) + 1)
  /\ b.in_pos + b.in_size = End(b)
  /\ b.list = <<>> => b = EmptyBuf
  /\ b.list # <<>> => b.in_pos < Size(b, 1)
  /\ AtEnd(b) => b.out_pos = 0 /\ b.out_end = 0
  /\ ~AtEnd(b) => /\ b.out_pos < Size(b, b.out)
                  /\ b.out_end <= Size(b, Len(b.list))
                  /\ b.out = 1 => b.in_pos <= b.out_pos
                  /\ b.out = Len(b.list) => b.out_pos <= b.out_end

\* What is in the buffer, as one sequence.
View(b) == SubSeq(Flat(b.list), b.in_pos + 1, End(b))

\* n bytes have been prepared.
HasPrepared(b, n) ==
  IF AtEnd(b) THEN n = 0
  ELSE End(b) + n = Off(b.list, Len(b.list) - 1) + b.out_end

\* Its parts, and how its elements add up.
LEMMA ShapedFacts ==
  ASSUME NEW C, NEW b, Shaped(C, b)
  PROVE  /\ b.list \in Seq(Seq(C)) /\ Len(b.list) \in Nat
         /\ b.out \in Nat /\ b.out >= 1 /\ b.out <= Len(b.list) + 1
         /\ b.in_pos \in Nat /\ b.out_pos \in Nat /\ b.out_end \in Nat /\ b.in_size \in Nat
         /\ Off(b.list, 0) = 0
         /\ \A j \in 0..Len(b.list) : Off(b.list, j) \in Nat
         /\ \A j \in 1..Len(b.list) : /\ Off(b.list, j) = Off(b.list, j-1) + Len(b.list[j])
                                      /\ Len(b.list[j]) \in Nat /\ Len(b.list[j]) > 0
         /\ Off(b.list, b.out - 1) \in Nat
         /\ End(b) = Off(b.list, b.out - 1) + b.out_pos /\ End(b) \in Nat
         /\ End(b) <= Off(b.list, Len(b.list))
<1>1. /\ b.list \in Seq(Seq(C)) /\ Len(b.list) \in Nat
      /\ b.out \in Nat /\ b.out >= 1 /\ b.out <= Len(b.list) + 1
      /\ b.in_pos \in Nat /\ b.out_pos \in Nat /\ b.out_end \in Nat /\ b.in_size \in Nat
      /\ \A j \in 1..Len(b.list) : Len(b.list[j]) > 0
      /\ End(b) = Off(b.list, b.out - 1) + b.out_pos
  BY DEF Shaped, End
<1>3. \A j \in 1..Len(b.list) : Len(b.list[j]) \in Nat /\ Len(b.list[j]) > 0
  <2> DEFINE L == b.list
  <2>1. L \in Seq(Seq(C)) /\ \A j \in 1..Len(L) : Len(L[j]) > 0
    BY <1>1
  <2> HIDE DEF L
  <2>2. \A j \in 1..Len(L) : Len(L[j]) \in Nat /\ Len(L[j]) > 0
    BY <2>1
  <2> QED BY <2>2 DEF L
<1>4. /\ Off(b.list, 0) = 0
      /\ \A j \in 0..Len(b.list) : Off(b.list, j) \in Nat
      /\ \A j \in 1..Len(b.list) : Off(b.list, j) = Off(b.list, j-1) + Len(b.list[j])
  BY <1>1, OffStep, Zenon
<1> DEFINE n == Len(b.list)
           o == b.out
           O(j) == Off(b.list, j)
           l(j) == Len(b.list[j])
<1>5. b.out - 1 \in 0..Len(b.list)
  BY <1>1
<1>6. Off(b.list, b.out - 1) \in Nat
  BY <1>4, <1>5
<1>7. End(b) <= Off(b.list, Len(b.list))
  <2>1. CASE AtEnd(b)
    <3>1. b.out - 1 = Len(b.list) /\ b.out_pos = 0
      BY <1>1, <2>1 DEF Shaped, AtEnd
    <3> QED BY <1>1, <1>6, <3>1
  <2>2. CASE ~AtEnd(b)
    <3>1. b.out_pos < Len(b.list[b.out]) /\ b.out \in 1..Len(b.list)
      BY <1>1, <2>2 DEF Shaped, AtEnd, Size
    <3>2. o \in 0..n /\ n \in o..n /\ n \in 0..n
      BY <1>1, <3>1
    <3>3. O(o) <= O(n)
      BY <1>1, <3>2, OffUp, Zenon
    <3>4. O(o) = O(o-1) + l(o) /\ O(o) \in Nat /\ O(n) \in Nat /\ l(o) \in Nat /\ O(o-1) \in Nat
      BY <1>3, <1>4, <1>6, <3>1, <3>2, Zenon
    <3>5. End(b) = O(o-1) + b.out_pos /\ b.out_pos < l(o) /\ b.out_pos \in Nat
      BY <1>1, <3>1
    <3> HIDE DEF O, l, n, o
    <3>6. End(b) <= O(n)
      BY <3>3, <3>4, <3>5
    <3> QED BY <3>6 DEF O, n
  <2> QED BY <2>1, <2>2
<1>8. End(b) \in Nat
  BY <1>1, <1>6
<1>9. \A j \in 1..n : O(j) = O(j-1) + l(j) /\ l(j) \in Nat /\ l(j) > 0
  BY <1>3, <1>4, Zenon
<1> QED BY <1>1, <1>4, <1>6, <1>7, <1>8, <1>9, Zenon

\* The room up to the end of element j (prepare, commit).
LEMMA RoomIs ==
  ASSUME NEW C, NEW b, Shaped(C, b), NEW j \in (b.out - 1)..Len(b.list)
  PROVE  Room(b, j) = IF j = b.out - 1 THEN 0 ELSE Off(b.list, j) - End(b)
<1>1. b.list \in Seq(Seq(C)) /\ b.out \in 1..(Len(b.list)+1) /\ b.out_pos \in Int
  BY ShapedFacts
<1>2. SumFunction([i \in b.out..j |-> Len(b.list[i]) - (IF i = b.out THEN b.out_pos ELSE 0)])
           = IF j = b.out - 1 THEN 0 ELSE Off(b.list, j) - (Off(b.list, b.out - 1) + b.out_pos)
  BY <1>1, SumBetween, Zenon
<1> QED BY <1>2, Zenon DEF Room, Size, OutFrom, End

\* What is held up to the end of element j (consume).
LEMMA HeldIs ==
  ASSUME NEW C, NEW b, Shaped(C, b), NEW j \in 0..Len(b.list)
  PROVE  Held(b, j) = IF j = 0 THEN 0 ELSE Off(b.list, j) - b.in_pos
<1>1. b.list \in Seq(Seq(C)) /\ 1 \in 1..(Len(b.list)+1) /\ b.in_pos \in Int /\ j \in (1-1)..Len(b.list)
  BY ShapedFacts
<1>2. SumFunction([i \in 1..j |-> Len(b.list[i]) - (IF i = 1 THEN b.in_pos ELSE 0)])
           = IF j = 1-1 THEN 0 ELSE Off(b.list, j) - (Off(b.list, 1-1) + b.in_pos)
  BY <1>1, SumBetween, Zenon
<1>3. 1-1 = 0 /\ Off(b.list, 0) + b.in_pos = b.in_pos
  BY ShapedFacts
<1> QED BY <1>2, <1>3 DEF Held, Size, InFrom

-----------------------------------------------------------------------------

\* The parts of a list are sequences.
LEMMA Parts ==
  ASSUME NEW C, NEW L \in Seq(Seq(C))
  PROVE  /\ Len(L) \in Nat
         /\ \A j \in 1..Len(L) : L[j] \in Seq(C) /\ Len(L[j]) \in Nat
OBVIOUS

\* Cell p of a list of sequences lies in part j.
LEMMA CellAt ==
  ASSUME NEW C, NEW L \in Seq(Seq(C)), NEW m \in 0..Len(L), NEW p \in 1..Off(L, m)
  PROVE  \E j \in 1..m, k \in Nat :
            /\ k >= 1 /\ k <= Len(L[j]) /\ p = Off(L, j-1) + k
            /\ Off(L, j-1) \in Nat
            /\ Flat(L)[p] = L[j][k]
<1>1. PICK j \in 1..m : p - Off(L, j-1) \in 1..Len(L[j])
  BY Locate
<1>2. j \in 1..Len(L) /\ j - 1 \in 0..Len(L)
  OBVIOUS
<1>3. Off(L, j-1) \in Nat /\ Len(L[j]) \in Nat
  BY <1>2, OffStep, SMTT(30)
<1> DEFINE k == p - Off(L, j-1)
<1>4. p \in Int
  <2>1. Off(L, m) \in Nat
    BY OffStep
  <2> QED BY <2>1
<1>5. k \in Nat /\ k >= 1 /\ k <= Len(L[j]) /\ p = Off(L, j-1) + k
  BY <1>1, <1>3, <1>4
<1>6. k \in 1..Len(L[j])
  BY <1>1
<1> HIDE DEF k
<1>7. Flat(L)[Off(L, j-1) + k] = L[j][k]
  BY <1>2, <1>6, FlatAt, Zenon
<1>8. Flat(L)[p] = L[j][k]
  BY <1>5, <1>7
<1> QED BY <1>3, <1>5, <1>8

\* Lists that begin alike are alike as far as they do.
LEMMA SameFront ==
  ASSUME NEW C, NEW L \in Seq(Seq(C)), NEW M \in Seq(Seq(C)),
         NEW m \in Nat, m <= Len(L), m <= Len(M), \A i \in 1..m : L[i] = M[i]
  PROVE  /\ \A i \in 0..m : Off(L, i) = Off(M, i)
         /\ \A p \in 1..Off(L, m) : Flat(L)[p] = Flat(M)[p]
<1>1. ASSUME NEW i \in 0..m PROVE Off(L, i) = Off(M, i)
  <2>0. 1..i \subseteq 1..m
    OBVIOUS
  <2>1. \A j \in 1..i : Len(L[j]) = Len(M[j])
    BY <2>0, Zenon
  <2> QED BY <2>1, OffSame, Zenon
<1>2. ASSUME NEW p \in 1..Off(L, m) PROVE Flat(L)[p] = Flat(M)[p]
  <2>1. m \in 0..Len(L) /\ m \in 0..Len(M)
    OBVIOUS
  <2>2. PICK j \in 1..m, k \in Nat :
            /\ k >= 1 /\ k <= Len(L[j]) /\ p = Off(L, j-1) + k
            /\ Flat(L)[p] = L[j][k]
    BY <2>1, CellAt
  <2>3. j \in 1..Len(M) /\ j - 1 \in 0..m /\ k \in 1..Len(M[j]) /\ L[j] = M[j]
    <3>0. Len(M) \in Nat
      OBVIOUS
    <3>1. j \in 1..Len(M) /\ j - 1 \in 0..m /\ L[j] = M[j]
      BY <3>0
    <3>2. Len(M[j]) \in Nat
      BY <3>1
    <3> QED BY <2>2, <3>1, <3>2
  <2>4. Flat(M)[Off(M, j-1) + k] = M[j][k]
    BY <2>3, FlatAt, Zenon
  <2>5. Off(L, j-1) = Off(M, j-1)
    BY <1>1, <2>3
  <2> QED BY <2>2, <2>3, <2>4, <2>5, Zenon
<1> QED BY <1>1, <1>2

\* A list without its first g parts.
LEMMA TailParts ==
  ASSUME NEW C, NEW L \in Seq(Seq(C)), NEW g \in 0..Len(L),
         NEW M \in Seq(Seq(C)), Len(M) = Len(L) - g, \A i \in 1..Len(M) : M[i] = L[g + i]
  PROVE  /\ \A i \in 0..Len(M) : Off(M, i) = Off(L, g + i) - Off(L, g)
         /\ \A p \in 1..Off(M, Len(M)) : Flat(M)[p] = Flat(L)[Off(L, g) + p]
<1>1. M \in Seq(Seq(C)) /\ Len(M) = Len(L) - g /\ \A i \in 1..Len(M) : M[i] = L[g + i]
  OBVIOUS
<1>0. Len(M) \in Nat /\ Len(L) \in Nat
  OBVIOUS
<1> DEFINE n == Len(M)
<1>2. n \in Nat /\ g \in Nat /\ Len(L) = g + n
  BY <1>0, <1>1
<1> HIDE DEF n
<1>3. \A i \in 0..n : g + i \in 0..Len(L) /\ Off(L, g + i) \in Nat
  BY <1>2, OffStep
<1>4. ASSUME NEW i \in 1..n PROVE g + i \in 1..Len(L) /\ Off(L, g + i) = Off(L, g + i - 1) + Len(L[g + i])
  <2> DEFINE q == g + i
  <2>1. q \in 1..Len(L)
    BY <1>2
  <2> HIDE DEF q
  <2>2. Off(L, q) = Off(L, q - 1) + Len(L[q])
    BY <2>1, OffStep
  <2> QED BY <2>1, <2>2 DEF q
<1>5. ASSUME NEW i \in 0..n PROVE Off(M, i) = Off(L, g + i) - Off(L, g)
  <2> DEFINE S == {j \in Nat : j <= n => Off(M, j) = Off(L, g + j) - Off(L, g)}
  <2>1. 0 \in S
    <3>1. Off(M, 0) = 0 /\ g + 0 = g /\ Off(L, g + 0) \in Nat
      BY <1>1, <1>2, <1>3, OffStep
    <3> QED BY <3>1
  <2>2. ASSUME NEW j \in Nat, j \in S PROVE j + 1 \in S
    <3>1. ASSUME j + 1 <= n PROVE Off(M, j + 1) = Off(L, g + (j + 1)) - Off(L, g)
      <4>1. j + 1 \in 1..n /\ j \in 0..n /\ (j + 1) - 1 = j /\ g + (j + 1) - 1 = g + j /\ j + 1 \in 0..n
        BY <1>2, <3>1
      <4>2. Off(M, j) = Off(L, g + j) - Off(L, g)
        BY <2>2, <4>1
      <4>3. Off(M, j + 1) = Off(M, j) + Len(M[j + 1])
        BY <1>1, <4>1, OffStep DEF n
      <4>4. Off(L, g + (j + 1)) = Off(L, g + j) + Len(L[g + (j + 1)])
        BY <1>4, <4>1
      <4>5. M[j + 1] = L[g + (j + 1)]
        BY <1>1, <4>1 DEF n
      <4>6. Off(L, g) \in Nat /\ Off(L, g + j) \in Nat
        BY <1>2, <1>3, <4>1, OffStep
      <4>7. Len(M[j + 1]) \in Nat
        <5>1. j + 1 \in 1..Len(M)
          BY <4>1 DEF n
        <5> QED BY <5>1, Parts, Zenon
      <4> QED BY <4>2, <4>3, <4>4, <4>5, <4>6, <4>7
    <3> QED BY <3>1
  <2>3. S = Nat
    <3>1. S \in SUBSET Nat
      OBVIOUS
    <3> HIDE DEF S
    <3> QED BY <2>1, <2>2, <3>1, Induct
  <2>4. i \in Nat /\ i <= n
    BY <1>2
  <2>5. i \in S
    BY <2>3, <2>4
  <2> QED BY <2>4, <2>5
<1>6. ASSUME NEW p \in 1..Off(M, n) PROVE Flat(M)[p] = Flat(L)[Off(L, g) + p]
  <2>1. n \in 0..Len(M)
    BY <1>2 DEF n
  <2>2. PICK j \in 1..n, k \in Nat :
            /\ k >= 1 /\ k <= Len(M[j]) /\ p = Off(M, j-1) + k /\ Off(M, j-1) \in Nat
            /\ Flat(M)[p] = M[j][k]
    BY <1>1, <2>1, CellAt
  <2>3. g + j \in 1..Len(L) /\ j - 1 \in 0..n /\ M[j] = L[g + j]
    BY <1>1, <1>2, SMTT(30) DEF n
  <2>4. k \in 1..Len(L[g + j])
    <3>1. Len(L[g + j]) \in Nat
      BY <2>3
    <3> QED BY <2>2, <2>3, <3>1
  <2>5. Flat(L)[Off(L, g + j - 1) + k] = L[g + j][k]
    <3> DEFINE q == g + j
    <3>1. q \in 1..Len(L) /\ k \in 1..Len(L[q])
      BY <2>3, <2>4
    <3> HIDE DEF q
    <3>2. Flat(L)[Off(L, q - 1) + k] = L[q][k]
      BY <3>1, FlatAt, ZenonT(40)
    <3> QED BY <3>2 DEF q
  <2>6. Off(M, j - 1) = Off(L, g + (j - 1)) - Off(L, g) /\ g + (j - 1) = g + j - 1
    BY <1>2, <1>5, <2>3
  <2>7. Off(L, g + j - 1) \in Nat /\ Off(L, g) \in Nat
    <3>1. g + j - 1 \in 0..Len(L)
      BY <2>3
    <3> QED BY <3>1, OffStep
  <2>8. Off(L, g) + p = Off(L, g + j - 1) + k
    <3> DEFINE x == Off(L, g)
               y == Off(L, g + j - 1)
               z == Off(M, j - 1)
    <3>1. z = y - x /\ p = z + k /\ x \in Nat /\ y \in Nat /\ k \in Nat
      BY <2>2, <2>6, <2>7
    <3> HIDE DEF x, y, z
    <3>2. x + p = y + k
      BY <3>1
    <3> QED BY <3>2 DEF x, y
  <2> QED BY <2>2, <2>3, <2>5, <2>8, Zenon
<1>7. \A i \in 0..Len(M) : Off(M, i) = Off(L, g + i) - Off(L, g)
  BY <1>5 DEF n
<1>8. \A p \in 1..Off(M, Len(M)) : Flat(M)[p] = Flat(L)[Off(L, g) + p]
  BY <1>6 DEF n
<1> QED BY <1>7, <1>8, Zenon

\* A piece of a sequence.
LEMMA CutOut ==
  ASSUME NEW C, NEW F \in Seq(C), NEW a \in Nat, NEW z \in Nat, a <= z, z <= Len(F)
  PROVE  /\ SubSeq(F, a + 1, z) \in Seq(C)
         /\ Len(SubSeq(F, a + 1, z)) = z - a
         /\ \A i \in Nat : i >= 1 /\ i <= z - a => SubSeq(F, a + 1, z)[i] = F[a + i]
<1> DEFINE m == a + 1
<1>1. Len(F) \in Nat
  OBVIOUS
<1>2. m \in Int /\ z \in Int /\ \A i \in m..z : i \in 1..Len(F)
  BY <1>1
<1>3. \A i \in m..z : F[i] \in C
  BY <1>2
<1> HIDE DEF m
<1>4. /\ SubSeq(F, m, z) \in Seq(C)
      /\ Len(SubSeq(F, m, z)) = IF m <= z THEN z-m+1 ELSE 0
      /\ \A i \in 1 .. z-m+1 : SubSeq(F, m, z)[i] = F[m+i-1]
  BY <1>2, <1>3, SubSeqProperties
<1>5. (IF m <= z THEN z-m+1 ELSE 0) = z - a
  BY DEF m
<1>6. ASSUME NEW i \in Nat, i >= 1, i <= z - a PROVE SubSeq(F, m, z)[i] = F[a + i]
  <2>1. i \in 1..(z-m+1) /\ m+i-1 = a + i
    BY <1>6 DEF m
  <2> QED BY <1>4, <2>1
<1> QED BY <1>4, <1>5, <1>6 DEF m

\* Parts as long as the steps of P.
LEMMA OffIs ==
  ASSUME NEW D, NEW P, NEW j \in Nat, \A i \in 0..j : P[i] \in Int,
         \A i \in 1..j : Len(D[i]) = P[i] - P[i-1]
  PROVE  Off(D, j) = P[j] - P[0]
<1> DEFINE G == [i \in 1..j |-> Len(D[i])]
           a == 1
<1>1. DOMAIN G = 1..j /\ \A i \in 1..j : G[i] = P[i] - P[i-1]
  OBVIOUS
<1>2. \A i \in (a-1)..j : P[i] \in Int
  OBVIOUS
<1>3. a \in Int /\ j \in Int /\ a <= j + 1
  OBVIOUS
<1>4. a - 1 = 0
  OBVIOUS
<1> HIDE DEF G
<1>5. DOMAIN G = a..j /\ \A i \in a..j : G[i] = P[i] - P[i-1]
  BY <1>1
<1> HIDE DEF a
<1>6. SumFunction(G) = P[j] - P[a-1]
  BY <1>2, <1>3, <1>5, Telescope
<1> QED BY <1>4, <1>6, Zenon DEF Off, G, a

\* A list whose parts are consecutive pieces of F.
LEMMA Pieces ==
  ASSUME NEW C, NEW F \in Seq(C), NEW D \in Seq(Seq(C)), NEW P,
         \A i \in 0..Len(D) : P[i] \in Nat, P[Len(D)] <= Len(F),
         \A i \in 1..Len(D) : Len(D[i]) = P[i] - P[i-1],
         \A i \in 1..Len(D) : \A k \in Nat : k >= 1 /\ k <= Len(D[i]) => D[i][k] = F[P[i-1] + k]
  PROVE  P[0] <= P[Len(D)] /\ Flat(D) = SubSeq(F, P[0] + 1, P[Len(D)])
<1> DEFINE n == Len(D)
<1>1. n \in Nat /\ \A i \in 1..n : D[i] \in Seq(C) /\ Len(D[i]) \in Nat
  BY Parts
<1>2. /\ \A i \in 0..n : P[i] \in Nat
      /\ \A i \in 1..n : Len(D[i]) = P[i] - P[i-1]
      /\ \A i \in 1..n : \A k \in Nat : k >= 1 /\ k <= Len(D[i]) => D[i][k] = F[P[i-1] + k]
      /\ P[n] <= Len(F)
  OBVIOUS
<1>3. ASSUME NEW j \in 0..n PROVE Off(D, j) = P[j] - P[0]
  <2>1. /\ j \in Nat /\ \A i \in 0..j : P[i] \in Int
        /\ \A i \in 1..j : Len(D[i]) = P[i] - P[i-1]
    BY <1>1, <1>2
  <2> QED BY <2>1, OffIs, Zenon
<1>4. Off(D, n) \in Nat /\ P[0] \in Nat /\ P[n] \in Nat /\ Off(D, n) = P[n] - P[0]
  <2>1. n \in 0..n /\ 0 \in 0..n
    BY <1>1
  <2> QED BY <1>2, <1>3, <2>1, OffStep
<1>5. P[0] <= P[n]
  BY <1>4
<1> DEFINE s == SubSeq(F, P[0] + 1, P[n])
<1>6. /\ s \in Seq(C) /\ Len(s) = P[n] - P[0]
      /\ \A i \in Nat : i >= 1 /\ i <= P[n] - P[0] => s[i] = F[P[0] + i]
  <2> DEFINE a == P[0]
             z == P[n]
  <2> HIDE DEF s
  <2>1. a \in Nat /\ z \in Nat /\ a <= z /\ z <= Len(F)
    BY <1>2, <1>4, <1>5
  <2> HIDE DEF a, z
  <2>2. /\ SubSeq(F, a + 1, z) \in Seq(C)
        /\ Len(SubSeq(F, a + 1, z)) = z - a
        /\ \A i \in Nat : i >= 1 /\ i <= z - a => SubSeq(F, a + 1, z)[i] = F[a + i]
    BY <2>1, CutOut
  <2> QED BY <2>2, Zenon DEF a, z, s
<1>7. ASSUME NEW j \in 1..n, NEW k \in 1..Len(D[j]) PROVE s[Off(D, j-1) + k] = D[j][k]
  <2>1. j \in 0..n /\ j - 1 \in 0..n /\ j \in Nat
    BY <1>1
  <2>2. Off(D, j-1) = P[j-1] - P[0] /\ Off(D, j) = P[j] - P[0] /\ P[j] \in Nat /\ P[j-1] \in Nat
    BY <1>2, <1>3, <2>1
  <2>3. Off(D, j) <= Off(D, n) /\ Off(D, j-1) \in Nat /\ Off(D, j) \in Nat
    <3>1. j \in 0..Len(D) /\ n \in j..Len(D) /\ j - 1 \in 0..Len(D)
      BY <1>1, <2>1
    <3>2. Off(D, j) <= Off(D, n)
      BY <3>1, OffUp, Zenon
    <3> QED BY <3>1, <3>2, OffStep
  <2>4. k \in Nat /\ k >= 1 /\ k <= Len(D[j]) /\ Len(D[j]) \in Nat /\ Len(D[j]) = P[j] - P[j-1]
    BY <1>1, <1>2
  <2>5. D[j][k] = F[P[j-1] + k]
    BY <1>2, <2>4
  <2> DEFINE q == Off(D, j-1) + k
             x == P[0]
             y == P[j-1]
             w == P[j]
             z == P[n]
  <2>6. q \in Nat /\ q >= 1 /\ q <= z - x /\ x + q = y + k
    <3>1. x \in Nat /\ y \in Nat /\ w \in Nat /\ z \in Nat /\ w - x <= z - x /\ k <= w - y /\ q = (y - x) + k /\ y - x \in Nat
      BY <1>4, <1>3, <2>2, <2>3, <2>4
    <3> HIDE DEF q, x, y, w, z
    <3> QED BY <2>4, <3>1
  <2>7. s[q] = F[x + q]
    <3> HIDE DEF s, q
    <3> QED BY <1>6, <2>6
  <2> HIDE DEF s
  <2> QED BY <2>5, <2>6, <2>7
<1>8. s = Flat(D)
  <2>1. Len(s) = Off(D, Len(D))
    BY <1>4, <1>6
  <2> HIDE DEF s
  <2>2. \A j \in 1..Len(D) : \A k \in 1..Len(D[j]) : s[Off(D, j-1) + k] = D[j][k]
    BY <1>7
  <2> QED BY <1>6, <2>1, <2>2, FlatOnly, Zenon
<1> QED BY <1>5, <1>8

-----------------------------------------------------------------------------

\* in_pos_ is not behind out_pos_; out_ is an element or the end.
LEMMA InAtMostEnd ==
  ASSUME NEW C, NEW b, Shaped(C, b)
  PROVE  /\ b.in_pos <= End(b) /\ b.in_size = End(b) - b.in_pos
         /\ ~AtEnd(b) => b.out \in 1..Len(b.list)
         /\ AtEnd(b) => End(b) = Off(b.list, Len(b.list)) /\ b.out = Len(b.list) + 1
<1>1. /\ b.in_pos \in Nat /\ b.in_size \in Nat /\ End(b) \in Nat /\ b.in_pos + b.in_size = End(b)
      /\ b.out \in Nat /\ Len(b.list) \in Nat /\ b.out >= 1 /\ b.out <= Len(b.list) + 1
      /\ End(b) = Off(b.list, b.out - 1) + b.out_pos /\ Off(b.list, b.out - 1) \in Nat
  BY ShapedFacts DEF Shaped
<1>2. b.in_pos <= End(b) /\ b.in_size = End(b) - b.in_pos
  BY <1>1
<1>3. ASSUME AtEnd(b) PROVE End(b) = Off(b.list, Len(b.list)) /\ b.out = Len(b.list) + 1
  <2>1. b.out = Len(b.list) + 1 /\ b.out_pos = 0
    BY <1>1, <1>3 DEF Shaped, AtEnd
  <2>2. b.out - 1 = Len(b.list)
    BY <1>1, <2>1
  <2> QED BY <1>1, <2>1, <2>2
<1>4. ~AtEnd(b) => b.out \in 1..Len(b.list)
  BY <1>1 DEF AtEnd
<1> QED BY <1>2, <1>3, <1>4

\* data() is what lies between in_pos_ and out_pos_.
LEMMA DataIs ==
  ASSUME NEW C, NEW b, Shaped(C, b)
  PROVE  /\ Flat(Data(b)) = View(b)
         /\ View(b) \in Seq(C) /\ Len(View(b)) = b.in_size
         /\ \A i \in Nat : i >= 1 /\ i <= b.in_size => View(b)[i] = Flat(b.list)[b.in_pos + i]
<1> DEFINE L == b.list
           F == Flat(b.list)
           m == Smaller(b.out, Len(b.list))
           P == [i \in 0..m |-> IF i = 0 THEN b.in_pos ELSE IF i = b.out THEN End(b) ELSE Off(L, i)]
           to(i) == IF i = b.out THEN b.out_pos ELSE Len(L[i])
<1>1. /\ L \in Seq(Seq(C)) /\ Len(L) \in Nat
      /\ b.out \in Nat /\ b.out >= 1 /\ b.out <= Len(L) + 1
      /\ b.in_pos \in Nat /\ b.out_pos \in Nat /\ b.in_size \in Nat
      /\ Off(L, 0) = 0
      /\ \A j \in 0..Len(L) : Off(L, j) \in Nat
      /\ \A j \in 1..Len(L) : Off(L, j) = Off(L, j-1) + Len(L[j]) /\ Len(L[j]) \in Nat /\ Len(L[j]) > 0
      /\ End(b) = Off(L, b.out - 1) + b.out_pos /\ End(b) \in Nat
      /\ End(b) <= Off(L, Len(L))
  BY ShapedFacts
<1>2. b.in_pos <= End(b) /\ b.in_size = End(b) - b.in_pos
  BY InAtMostEnd
<1>3. F \in Seq(C) /\ Len(F) = Off(L, Len(L))
        /\ \A j \in 1..Len(L) : \A k \in 1..Len(L[j]) : F[Off(L, j-1) + k] = L[j][k]
  BY <1>1, FlatAt, Zenon
<1>4. m \in Nat /\ m <= Len(L) /\ m <= b.out /\ (m = b.out \/ m = Len(L))
  BY <1>1 DEF Smaller
<1>5. ASSUME NEW i \in 1..m
      PROVE  /\ i \in 1..Len(L) /\ i \in Nat
             /\ InFrom(b, i) = (IF i = 1 THEN b.in_pos ELSE 0)
             /\ InFrom(b, i) \in Nat /\ to(i) \in Nat
             /\ InFrom(b, i) <= to(i) /\ to(i) <= Len(L[i])
  <2>1. i \in 1..Len(L) /\ i \in Nat /\ i >= 1 /\ i <= b.out
    BY <1>1, <1>4
  <2>2. Len(L[i]) \in Nat /\ Len(L[i]) > 0
    BY <1>1, <2>1
  <2>3. L # <<>>
    BY <1>1, <2>1
  <2>4. b.in_pos < Len(L[1])
    BY <2>3 DEF Shaped, Size
  <2>5. i = b.out => ~AtEnd(b) /\ b.out_pos < Len(L[i]) /\ (i = 1 => b.in_pos <= b.out_pos)
    <3>1. i = b.out => ~AtEnd(b)
      BY <1>1, <2>1 DEF AtEnd
    <3> QED BY <3>1 DEF Shaped, Size
  <2>6. InFrom(b, i) = (IF i = 1 THEN b.in_pos ELSE 0)
    BY DEF InFrom
  <2>7. to(i) = (IF i = b.out THEN b.out_pos ELSE Len(L[i]))
    OBVIOUS
  <2> DEFINE l == Len(L[i])
             x == InFrom(b, i)
             z == to(i)
  <2>8. /\ b.in_pos \in Nat /\ b.out_pos \in Nat /\ l \in Nat /\ l > 0
        /\ x = (IF i = 1 THEN b.in_pos ELSE 0)
        /\ z = (IF i = b.out THEN b.out_pos ELSE l)
        /\ i = 1 => b.in_pos < l
        /\ i = b.out => b.out_pos < l /\ (i = 1 => b.in_pos <= b.out_pos)
    BY <1>1, <2>2, <2>4, <2>5, <2>6, <2>7
  <2> HIDE DEF l, x, z
  <2>9. x \in Nat /\ z \in Nat /\ x <= z /\ z <= l
    BY <2>8
  <2> QED BY <2>1, <2>6, <2>9 DEF l, x, z
<1>6. \A i \in 1..m : Data(b)[i] = SubSeq(L[i], InFrom(b, i) + 1, to(i))
  BY DEF Data, Size
<1>7. Len(Data(b)) = m
  BY <1>4 DEF Data
<1>8. ASSUME NEW i \in 1..m
      PROVE  /\ Data(b)[i] \in Seq(C)
             /\ Len(Data(b)[i]) = to(i) - InFrom(b, i)
             /\ \A k \in Nat : k >= 1 /\ k <= to(i) - InFrom(b, i) => Data(b)[i][k] = L[i][InFrom(b, i) + k]
  <2> DEFINE s == L[i]
             x == InFrom(b, i)
             z == to(i)
  <2>1. s \in Seq(C)
    BY <1>1, <1>5, Parts
  <2>2. x \in Nat /\ z \in Nat /\ x <= z /\ z <= Len(s)
    BY <1>5
  <2>3. Data(b)[i] = SubSeq(s, x + 1, z)
    BY <1>6
  <2> HIDE DEF s, x, z
  <2>4. /\ SubSeq(s, x + 1, z) \in Seq(C)
        /\ Len(SubSeq(s, x + 1, z)) = z - x
        /\ \A k \in Nat : k >= 1 /\ k <= z - x => SubSeq(s, x + 1, z)[k] = s[x + k]
    BY <2>1, <2>2, CutOut
  <2>5. /\ Data(b)[i] \in Seq(C)
        /\ Len(Data(b)[i]) = z - x
        /\ \A k \in Nat : k >= 1 /\ k <= z - x => Data(b)[i][k] = s[x + k]
    BY <2>3, <2>4, Zenon
  <2> QED BY <2>5, Zenon DEF s, x, z
<1>9. Data(b) \in Seq(Seq(C))
  <2>1. Data(b) = [i \in 1..m |-> Data(b)[i]]
    BY DEF Data
  <2> HIDE DEF m
  <2>2. [i \in 1..m |-> Data(b)[i]] \in Seq(Seq(C))
    BY <1>4, <1>8
  <2> QED BY <2>1, <2>2, Zenon
<1>10. P[0] = b.in_pos
  BY <1>4
<1>11. P[m] = End(b)
  <2>1. CASE m = b.out
    BY <1>1, <1>4, <2>1
  <2>2. CASE m # b.out
    <3>1. m = Len(L) /\ b.out = Len(L) + 1 /\ AtEnd(b)
      <4> DEFINE o == b.out
                 n == Len(b.list)
      <4> HIDE DEF m, P
      <4>1. o \in Nat /\ n \in Nat /\ o <= n + 1 /\ m \in Nat /\ m <= o /\ m = n /\ m # o
        BY <1>1, <1>4, <2>2
      <4> HIDE DEF o, n
      <4>2. o = n + 1 /\ o > n /\ m = n
        BY <4>1
      <4> QED BY <4>2, Zenon DEF AtEnd, o, n
    <3>2. End(b) = Off(L, Len(L))
      BY <3>1, InAtMostEnd
    <3>3. CASE Len(L) = 0
      <4>1. L = <<>>
        BY <1>1, <3>3
      <4>2. b = EmptyBuf
        BY <4>1 DEF Shaped
      <4> QED BY <1>1, <1>10, <3>1, <3>2, <3>3, <4>2 DEF EmptyBuf
    <3>4. CASE Len(L) # 0
      <4>1. m # 0 /\ m \in 0..m /\ m # b.out
        BY <1>1, <3>1, <3>4
      <4>2. P[m] = Off(L, m)
        BY <4>1
      <4> QED BY <3>1, <3>2, <4>2, Zenon
    <3> QED BY <3>3, <3>4
  <2> QED BY <2>1, <2>2
<1>12. \A i \in 0..m : P[i] \in Nat
  <2>1. \A i \in 0..m : i \in 0..Len(L)
    BY <1>1, <1>4
  <2> QED BY <1>1, <2>1
<1>13. ASSUME NEW i \in 1..m
       PROVE  /\ P[i-1] = Off(L, i-1) + InFrom(b, i)
              /\ P[i] = Off(L, i-1) + to(i)
  <2>1. i - 1 \in 0..m /\ i \in 0..m /\ i # 0 /\ i - 1 # b.out /\ i \in 1..Len(L) /\ (i - 1 = 0 <=> i = 1)
    BY <1>4, <1>5
  <2>2. P[i-1] = (IF i = 1 THEN b.in_pos ELSE Off(L, i-1)) /\ P[i] = (IF i = b.out THEN End(b) ELSE Off(L, i))
    BY <2>1
  <2>3. InFrom(b, i) = (IF i = 1 THEN b.in_pos ELSE 0)
    BY <1>5
  <2>4. Off(L, i) = Off(L, i-1) + Len(L[i]) /\ Off(L, i-1) \in Nat
    <3>1. i - 1 \in 0..Len(L)
      BY <2>1
    <3> QED BY <1>1, <2>1, <3>1
  <2>5. i = 1 => Off(L, i-1) = 0
    BY <1>1
  <2> HIDE DEF P
  <2>6. P[i-1] = Off(L, i-1) + InFrom(b, i)
    BY <2>2, <2>3, <2>4, <2>5, <1>1, SMTT(30)
  <2>7. P[i] = Off(L, i-1) + to(i)
    BY <2>2, <2>4, <1>1
  <2> QED BY <2>6, <2>7
<1> HIDE DEF P, m
<1>14. \A i \in 1..m : Len(Data(b)[i]) = P[i] - P[i-1]
  <2> TAKE i \in 1..m
  <2> DEFINE o == Off(L, i-1)
             x == InFrom(b, i)
             z == to(i)
  <2>1. P[i-1] = o + x /\ P[i] = o + z
    BY <1>13
  <2>2. o \in Nat /\ x \in Nat /\ z \in Nat
    <3>1. i - 1 \in 0..Len(L)
      BY <1>5
    <3>2. o \in Nat
      BY <1>1, <3>1
    <3>3. x \in Nat /\ z \in Nat
      BY <1>5
    <3> QED BY <3>2, <3>3
  <2>3. Len(Data(b)[i]) = z - x
    BY <1>8
  <2> HIDE DEF o, x, z
  <2> QED BY <2>1, <2>2, <2>3
<1>15. ASSUME NEW i \in 1..m, NEW k \in Nat, k >= 1, k <= Len(Data(b)[i])
       PROVE  Data(b)[i][k] = F[P[i-1] + k]
  <2> DEFINE o == Off(L, i-1)
             x == InFrom(b, i)
             z == to(i)
             l == Len(L[i])
  <2>1. P[i-1] = o + x
    BY <1>13
  <2>2. o \in Nat /\ x \in Nat /\ z \in Nat /\ z <= l /\ l \in Nat /\ i \in 1..Len(L)
    <3>1. i - 1 \in 0..Len(L)
      BY <1>5
    <3>2. o \in Nat
      BY <1>1, <3>1
    <3>3. x \in Nat /\ z \in Nat /\ z <= l /\ i \in 1..Len(L)
      BY <1>5
    <3>4. l \in Nat
      BY <1>1, <3>3
    <3> QED BY <3>2, <3>3, <3>4
  <2>3. Len(Data(b)[i]) = z - x
    BY <1>8
  <2>4. Data(b)[i][k] = L[i][x + k]
    BY <1>8, <1>15, <2>3
  <2> HIDE DEF z, l, x
  <2>5. x + k \in 1..l
    BY <2>2, <2>3, <1>15
  <2>6. F[o + (x + k)] = L[i][x + k]
    BY <1>3, <2>2, <2>5 DEF l
  <2>7. P[i-1] + k = o + (x + k)
    <3> HIDE DEF o
    <3> QED BY <2>1, <2>2
  <2> QED BY <2>4, <2>6, <2>7, Zenon
<1>16. P[Len(Data(b))] <= Len(F) /\ P[Len(Data(b))] = End(b)
  BY <1>1, <1>3, <1>7, <1>11
<1>17. Flat(Data(b)) = SubSeq(F, P[0] + 1, P[Len(Data(b))])
  <2>1. \A i \in 0..Len(Data(b)) : P[i] \in Nat
    BY <1>7, <1>12
  <2>2. \A i \in 1..Len(Data(b)) : Len(Data(b)[i]) = P[i] - P[i-1]
    BY <1>7, <1>14
  <2>3. \A i \in 1..Len(Data(b)) : \A k \in Nat : k >= 1 /\ k <= Len(Data(b)[i]) => Data(b)[i][k] = F[P[i-1] + k]
    BY <1>7, <1>15
  <2>4. F \in Seq(C) /\ P[Len(Data(b))] <= Len(F)
    BY <1>3, <1>16
  <2> HIDE DEF F
  <2> DEFINE D == Data(b)
  <2>5. D \in Seq(Seq(C)) /\ P[Len(D)] <= Len(F) /\ (\A i \in 0..Len(D) : P[i] \in Nat)
    BY <1>9, <2>1, <2>4
  <2>6. /\ \A i \in 1..Len(D) : Len(D[i]) = P[i] - P[i-1]
        /\ \A i \in 1..Len(D) : \A k \in Nat : k >= 1 /\ k <= Len(D[i]) => D[i][k] = F[P[i-1] + k]
    BY <2>2, <2>3
  <2> HIDE DEF D
  <2>7. Flat(D) = SubSeq(F, P[0] + 1, P[Len(D)])
    BY <2>4, <2>5, <2>6, Pieces
  <2> QED BY <2>7 DEF D
<1>18. Flat(Data(b)) = View(b)
  BY <1>10, <1>16, <1>17, Zenon DEF View
<1>19. /\ SubSeq(F, b.in_pos + 1, End(b)) \in Seq(C)
       /\ Len(SubSeq(F, b.in_pos + 1, End(b))) = End(b) - b.in_pos
       /\ \A i \in Nat : i >= 1 /\ i <= End(b) - b.in_pos => SubSeq(F, b.in_pos + 1, End(b))[i] = F[b.in_pos + i]
  <2> HIDE DEF F
  <2>1. b.in_pos \in Nat /\ End(b) \in Nat /\ b.in_pos <= End(b) /\ End(b) <= Len(F)
    BY <1>1, <1>2, <1>3
  <2> DEFINE a == b.in_pos
             z == End(b)
  <2>2. a \in Nat /\ z \in Nat /\ a <= z /\ z <= Len(F)
    BY <2>1
  <2> HIDE DEF a, z
  <2>3. /\ SubSeq(F, a + 1, z) \in Seq(C)
        /\ Len(SubSeq(F, a + 1, z)) = z - a
        /\ \A i \in Nat : i >= 1 /\ i <= z - a => SubSeq(F, a + 1, z)[i] = F[a + i]
    BY <1>3, <2>2, CutOut
  <2> QED BY <2>3 DEF a, z
<1> QED BY <1>2, <1>18, <1>19, Zenon DEF View

\* The assertions of basic_streambuf::debug_check() hold of every streambuf in
\* shape (streambuf.ipp).
THEOREM ShapedIsSound ==
  ASSUME NEW C, NEW b, Shaped(C, b)
  PROVE  DebugCheck(b)
<1>1. Len(Flat(Data(b))) = b.in_size
  BY DataIs
<1>2. ASSUME ~AtEnd(b), b.out = 1 PROVE b.out_pos >= b.in_pos /\ b.out_pos - b.in_pos = b.in_size
  <2>1. b.out - 1 = 0 /\ Off(b.list, 0) = 0 /\ b.out_pos \in Nat /\ b.in_pos \in Nat /\ b.in_size \in Nat
    BY <1>2, ShapedFacts
  <2>2. End(b) = b.out_pos
    BY <2>1 DEF End
  <2>3. b.in_pos <= End(b) /\ b.in_size = End(b) - b.in_pos
    BY InAtMostEnd
  <2> QED BY <2>1, <2>2, <2>3
<1> QED BY <1>1, <1>2 DEF DebugCheck, Shaped

\* A sequence is determined by what is at each place.
LEMMA SameView ==
  ASSUME NEW C, NEW b, Shaped(C, b), NEW p, Shaped(C, p), p.in_size = b.in_size,
         \A i \in Nat : i >= 1 /\ i <= b.in_size =>
           Flat(p.list)[p.in_pos + i] = Flat(b.list)[b.in_pos + i]
  PROVE  View(p) = View(b)
<1>1. View(b) \in Seq(C) /\ Len(View(b)) = b.in_size /\ b.in_size \in Nat
  BY DataIs, ShapedFacts
<1>2. View(p) \in Seq(C) /\ Len(View(p)) = b.in_size
  BY DataIs
<1>3. ASSUME NEW i \in 1..b.in_size PROVE View(p)[i] = View(b)[i]
  <2>1. i \in Nat /\ i >= 1 /\ i <= b.in_size
    BY <1>1
  <2>2. View(b)[i] = Flat(b.list)[b.in_pos + i]
    BY <2>1, DataIs
  <2>3. View(p)[i] = Flat(p.list)[p.in_pos + i]
    BY <2>1, DataIs
  <2> QED BY <2>1, <2>2, <2>3
<1> QED BY <1>1, <1>2, <1>3, SeqEqual

\* The data ends in the elements up to out_.
LEMMA EndInFront ==
  ASSUME NEW C, NEW b, Shaped(C, b)
  PROVE  /\ AtEnd(b) => End(b) = Off(b.list, Len(b.list))
         /\ ~AtEnd(b) => End(b) < Off(b.list, b.out)
         /\ \A keep : (AtEnd(b) => keep = Len(b.list)) /\ (~AtEnd(b) => keep = b.out)
                          => End(b) <= Off(b.list, keep)
<1>1. CASE AtEnd(b)
  <2>1. End(b) = Off(b.list, Len(b.list)) /\ End(b) \in Nat
    BY <1>1, InAtMostEnd, ShapedFacts
  <2> QED BY <1>1, <2>1
<1>2. CASE ~AtEnd(b)
  <2>1. b.out \in 1..Len(b.list) /\ b.out_pos < Len(b.list[b.out])
    BY <1>2, InAtMostEnd DEF Shaped, Size
  <2> DEFINE x == Off(b.list, b.out - 1)
             y == Off(b.list, b.out)
             l == Len(b.list[b.out])
  <2>2. y = x + l /\ x \in Nat /\ l \in Nat /\ End(b) = x + b.out_pos /\ b.out_pos \in Nat
    BY <2>1, ShapedFacts
  <2>3. b.out_pos < l
    BY <2>1
  <2> HIDE DEF x, y, l
  <2>4. End(b) < y /\ End(b) <= y
    BY <2>2, <2>3
  <2> QED BY <1>2, <2>4, Zenon DEF y
<1> QED BY <1>1, <1>2

\* Another list, alike up to out_, and another out_end_.
Regrows(C, b, p, keep) ==
  /\ Shaped(C, b)
  /\ p \in [list : Seq(Seq(C)), out : Nat, in_pos : Nat, out_pos : Nat, out_end : Nat, in_size : Nat]
  /\ p.out = b.out /\ p.in_pos = b.in_pos /\ p.out_pos = b.out_pos /\ p.in_size = b.in_size
  /\ keep = Smaller(b.out, Len(b.list)) /\ keep <= Len(p.list)
  /\ \A i \in 1..keep : p.list[i] = b.list[i]
  /\ \A i \in 1..Len(p.list) : Len(p.list[i]) > 0
  /\ b.out <= Len(p.list) => /\ p.out_end <= Len(p.list[Len(p.list)])
                             /\ b.out = Len(p.list) => b.out_pos <= p.out_end
  /\ b.out > Len(p.list) => p.out_end = 0

\* It holds the same.
LEMMA Regrown ==
  ASSUME NEW C, NEW b, NEW p, NEW keep, Regrows(C, b, p, keep)
  PROVE  Shaped(C, p) /\ End(p) = End(b) /\ View(p) = View(b)
<1>0. Shaped(C, b)
  BY DEF Regrows
<1> DEFINE L == b.list
           M == p.list
           e == p.out_end
<1>1. /\ L \in Seq(Seq(C)) /\ Len(L) \in Nat
      /\ b.out \in Nat /\ b.out >= 1 /\ b.out <= Len(L) + 1
      /\ b.in_pos \in Nat /\ b.out_pos \in Nat /\ b.in_size \in Nat
      /\ \A j \in 0..Len(L) : Off(L, j) \in Nat
      /\ End(b) = Off(L, b.out - 1) + b.out_pos /\ End(b) \in Nat
  BY <1>0, ShapedFacts
<1>2. /\ p.list = M /\ p.out_end = e /\ p.out = b.out /\ p.in_pos = b.in_pos
      /\ p.out_pos = b.out_pos /\ p.in_size = b.in_size
      /\ p \in [list : Seq(Seq(C)), out : Nat, in_pos : Nat, out_pos : Nat, out_end : Nat, in_size : Nat]
      /\ M \in Seq(Seq(C)) /\ e \in Nat
  BY DEF Regrows
<1>3. Len(M) \in Nat /\ \A j \in 1..Len(M) : Len(M[j]) \in Nat /\ Len(M[j]) > 0
  BY <1>2, Parts DEF Regrows
<1> DEFINE o == b.out
           op == b.out_pos
           nL == Len(L)
           nM == Len(M)
<1>4. /\ keep \in Nat /\ keep <= nL /\ keep <= nM
      /\ AtEnd(b) => keep = nL /\ o = nL + 1 /\ op = 0
      /\ ~AtEnd(b) => keep = o /\ o <= nL
      /\ AtEnd(b) <=> o > nL
  <2>1. AtEnd(b) => op = 0
    BY <1>0 DEF Shaped
  <2>2. AtEnd(b) <=> o > nL
    BY DEF AtEnd
  <2>3. keep = (IF o < nL THEN o ELSE nL) /\ keep <= nM
    BY DEF Regrows, Smaller
  <2>4. o \in Nat /\ nL \in Nat /\ o <= nL + 1
    BY <1>1
  <2> HIDE DEF o, op, nL, nM
  <2> QED BY <2>1, <2>2, <2>3, <2>4
<1>5. /\ \A i \in 0..keep : Off(L, i) = Off(M, i)
      /\ \A q \in 1..Off(L, keep) : Flat(L)[q] = Flat(M)[q]
  <2>1. \A i \in 1..keep : L[i] = M[i]
    BY DEF Regrows
  <2>2. L \in Seq(Seq(C)) /\ M \in Seq(Seq(C)) /\ keep \in Nat /\ keep <= Len(L) /\ keep <= Len(M)
    BY <1>1, <1>2, <1>4
  <2> HIDE DEF L, M
  <2> QED BY <2>1, <2>2, SameFront
<1>6. End(p) = End(b)
  <2>1. b.out - 1 \in 0..keep
    BY <1>1, <1>4, SMTT(30)
  <2> QED BY <1>2, <1>5, <2>1, Zenon DEF End
<1>7. /\ o <= nM + 1
      /\ AtEnd(p) => o = nM + 1 /\ AtEnd(b) /\ nM = nL /\ o > nM
      /\ ~AtEnd(p) => o <= nM
  <2>1. AtEnd(p) <=> o > nM
    BY <1>2, Zenon DEF AtEnd
  <2>2. o \in Nat /\ nL \in Nat /\ nM \in Nat /\ o <= nL + 1
    BY <1>1, <1>3
  <2> HIDE DEF o, op, nL, nM
  <2> QED BY <1>4, <2>1, <2>2
<1>8. M # <<>> => b.in_pos < Len(M[1])
  <2> SUFFICES ASSUME M # <<>> PROVE b.in_pos < Len(M[1])
    OBVIOUS
  <2>1. 1 \in 1..Len(M)
    BY <1>3
  <2>2. CASE L = <<>>
    <3>1. b.in_pos = 0
      BY <1>0, <2>2 DEF Shaped, EmptyBuf
    <3> QED BY <1>3, <2>1, <3>1
  <2>3. CASE L # <<>>
    <3>1. Len(L) # 0
      BY <1>1, <2>3
    <3>2. 1 \in 1..keep
      BY <1>1, <1>4, <3>1
    <3>3. b.in_pos < Len(L[1])
      BY <1>0, <2>3 DEF Shaped, Size
    <3>4. M[1] = L[1]
      BY <3>2 DEF Regrows
    <3> QED BY <3>3, <3>4
  <2> QED BY <2>2, <2>3
<1>9. M = <<>> => p = EmptyBuf
  <2> SUFFICES ASSUME M = <<>> PROVE p = EmptyBuf
    OBVIOUS
  <2>1. Len(M) = 0
    OBVIOUS
  <2>2. b.out > Len(M)
    BY <1>1, <2>1
  <2>3. AtEnd(p)
    BY <1>2, <2>2 DEF AtEnd
  <2>4. L = <<>>
    BY <1>1, <1>7, <2>1, <2>3
  <2>5. b = EmptyBuf
    BY <1>0, <2>4 DEF Shaped
  <2>6. e = 0
    BY <2>2 DEF Regrows
  <2> QED BY <1>2, <2>5, <2>6 DEF EmptyBuf
<1>10. ASSUME ~AtEnd(p)
       PROVE  /\ p.out_pos < Len(M[b.out]) /\ e <= Len(M[Len(M)])
              /\ b.out = 1 => b.in_pos <= b.out_pos
              /\ b.out = Len(M) => b.out_pos <= e
  <2>1. b.out <= Len(M) /\ b.out \in 1..Len(M)
    BY <1>1, <1>7, <1>10
  <2>4. e <= Len(M[Len(M)]) /\ (b.out = Len(M) => b.out_pos <= e)
    BY <2>1 DEF Regrows
  <2>2. CASE AtEnd(b)
    <3>1. p.out_pos < Len(M[b.out])
      BY <1>2, <1>3, <1>4, <2>1, <2>2
    <3>2. ASSUME b.out = 1 PROVE b.in_pos <= b.out_pos
      <4>1. Len(L) = 0
        BY <1>1, <1>4, <2>2, <3>2
      <4>2. L = <<>>
        BY <1>1, <4>1
      <4> QED BY <1>0, <4>2 DEF Shaped, EmptyBuf
    <3> QED BY <2>4, <3>1, <3>2
  <2>3. CASE ~AtEnd(b)
    <3>1. b.out \in 1..keep
      BY <1>1, <1>4, <2>3
    <3>2. M[b.out] = L[b.out]
      BY <3>1 DEF Regrows
    <3>3. b.out_pos < Len(L[b.out]) /\ (b.out = 1 => b.in_pos <= b.out_pos)
      BY <1>0, <2>3 DEF Shaped, Size
    <3> QED BY <1>2, <2>4, <3>2, <3>3
  <2> QED BY <2>2, <2>3
<1>11. Shaped(C, p)
  <2>1. p.in_pos + p.in_size = End(p)
    BY <1>0, <1>2, <1>6 DEF Shaped
  <2>2. p.out \in 1..(Len(p.list) + 1)
    BY <1>1, <1>2, <1>3, <1>7
  <2>3. AtEnd(p) => p.out_pos = 0 /\ p.out_end = 0
    <3>1. AtEnd(p) => b.out > Len(M)
      BY <1>2 DEF AtEnd
    <3>2. b.out > Len(M) => p.out_end = 0
      BY DEF Regrows
    <3> QED BY <1>2, <1>4, <1>7, <3>1, <3>2
  <2>4. ~AtEnd(p) => /\ p.out_pos < Size(p, p.out)
                     /\ p.out_end <= Size(p, Len(p.list))
                     /\ p.out = 1 => p.in_pos <= p.out_pos
                     /\ p.out = Len(p.list) => p.out_pos <= p.out_end
    BY <1>2, <1>10, Zenon DEF Size
  <2>5. /\ \A i \in 1..Len(p.list) : Len(p.list[i]) > 0
        /\ p.list = <<>> => p = EmptyBuf
        /\ p.list # <<>> => p.in_pos < Size(p, 1)
    BY <1>2, <1>3, <1>8, <1>9, Zenon DEF Size
  <2> QED BY <1>2, <2>1, <2>2, <2>3, <2>4, <2>5, Zenon DEF Shaped
<1>12. View(p) = View(b)
  <2>1. End(b) <= Off(L, keep)
    BY <1>0, <1>4, EndInFront
  <2>2. keep \in 0..Len(L)
    BY <1>1, <1>4
  <2>3. Off(L, keep) \in Nat
    BY <1>1, <2>2
  <2>4. b.in_pos + b.in_size = End(b)
    BY <1>0 DEF Shaped
  <2>5. ASSUME NEW i \in Nat, i >= 1, i <= b.in_size
        PROVE  Flat(p.list)[p.in_pos + i] = Flat(b.list)[b.in_pos + i]
    <3>1. b.in_pos + i \in 1..Off(L, keep)
      BY <1>1, <2>1, <2>3, <2>4, <2>5, SMTT(30)
    <3>2. p.in_pos = b.in_pos
      BY <1>2
    <3> QED BY <1>5, <3>1, <3>2
  <2> QED BY <1>0, <1>2, <1>11, <2>5, SameView, Zenon
<1> QED BY <1>6, <1>11, <1>12

\* A call of prepare(n).
Prepares(C, b, n, alloc) == Shaped(C, b) /\ Raw \in C /\ n \in Nat /\ alloc \in Nat \ {0}

\* The beginning of a sequence.
LEMMA FrontOut ==
  ASSUME NEW C, NEW F \in Seq(C), NEW z \in 0..Len(F)
  PROVE  /\ SubSeq(F, 1, z) \in Seq(C) /\ Len(SubSeq(F, 1, z)) = z
         /\ \A i \in 1..z : SubSeq(F, 1, z)[i] = F[i]
<1> DEFINE a == 0
           m == a + 1
<1>1. Len(F) \in Nat /\ a \in Nat /\ z \in Nat /\ a <= z /\ z <= Len(F) /\ m = 1
  OBVIOUS
<1>2. z - a = z /\ \A i \in 1..z : a + i = i /\ i \in Nat /\ i >= 1 /\ i <= z - a
  BY <1>1
<1> HIDE DEF a
<1>3. /\ SubSeq(F, a + 1, z) \in Seq(C)
      /\ Len(SubSeq(F, a + 1, z)) = z - a
      /\ \A i \in Nat : i >= 1 /\ i <= z - a => SubSeq(F, a + 1, z)[i] = F[a + i]
  BY <1>1, CutOut
<1> QED BY <1>1, <1>2, <1>3

\* prepare(n) leaves what is held alone and makes room for exactly n more.
LEMMA PrepareGrows ==
  ASSUME NEW C, NEW b, NEW n, NEW alloc, Prepares(C, b, n, alloc),
         NEW p, p = Prepare(b, n, alloc)
  PROVE  /\ Shaped(C, p) /\ View(p) = View(b) /\ End(p) = End(b)
         /\ p.in_size = b.in_size /\ p.in_pos = b.in_pos
         /\ HasPrepared(p, n)
<1> DEFINE L == b.list
           here == IF AtEnd(b) THEN 0 ELSE Size(b, b.out) - b.out_pos
           keep == Smaller(b.out, Len(b.list))
           more == IF n > here THEN n - here ELSE 0
           room(j) == SumFunction([i \in (keep+1)..j |-> Size(b, i)])
           last == IF room(Len(b.list)) <= more THEN Len(b.list)
                   ELSE CHOOSE j \in keep..Len(b.list) :
                          room(j) >= more /\ \A i \in keep..(j-1) : room(i) < more
           fresh == IF more > room(last) THEN more - room(last) ELSE 0
           N == Append(SubSeq(b.list, 1, last), [i \in 1..Larger(alloc, fresh) |-> Raw])
           M == SubSeq(b.list, 1, last)
           e == IF last > keep THEN more - room(last-1)
                ELSE IF AtEnd(b) THEN b.out_end ELSE b.out_pos + n
           nL == Len(L)
           o == b.out
           op == b.out_pos
<1>1. p = IF fresh > 0 THEN [b EXCEPT !.list = N, !.out_end = fresh]
          ELSE [b EXCEPT !.list = M, !.out_end = e]
  BY Zenon DEF Prepare
<1>2. Shaped(C, b) /\ Raw \in C /\ n \in Nat /\ alloc \in Nat /\ alloc > 0
  BY DEF Prepares
<1>3. /\ L \in Seq(Seq(C)) /\ nL \in Nat
      /\ o \in Nat /\ o >= 1 /\ o <= nL + 1
      /\ b.in_pos \in Nat /\ op \in Nat /\ b.out_end \in Nat
      /\ Off(L, 0) = 0
      /\ \A j \in 0..nL : Off(L, j) \in Nat
      /\ \A j \in 1..nL : Off(L, j) = Off(L, j-1) + Len(L[j]) /\ Len(L[j]) \in Nat /\ Len(L[j]) > 0
      /\ End(b) = Off(L, o - 1) + op /\ End(b) \in Nat
  BY <1>2, ShapedFacts
<1>4. /\ AtEnd(b) <=> o > nL
      /\ AtEnd(b) => op = 0 /\ b.out_end = 0
      /\ ~AtEnd(b) => op < Len(L[o])
  BY <1>2 DEF AtEnd, Shaped, Size
<1>5. /\ keep \in Nat /\ keep <= nL /\ keep \in 0..nL
      /\ AtEnd(b) => keep = nL /\ o = nL + 1
      /\ ~AtEnd(b) => keep = o /\ o <= nL /\ o \in 1..nL
  <2>1. keep = (IF o < nL THEN o ELSE nL)
    BY DEF Smaller
  <2>2. o \in Nat /\ nL \in Nat /\ o <= nL + 1 /\ o >= 1
    BY <1>3
  <2> HIDE DEF keep, o, nL
  <2> QED BY <1>4, <2>1, <2>2
<1>6. here \in Nat /\ End(b) + here = Off(L, keep)
  <2>1. CASE AtEnd(b)
    <3>1. here = 0 /\ End(b) = Off(L, nL) /\ keep = nL
      BY <1>2, <1>5, <2>1, InAtMostEnd
    <3> QED BY <1>3, <3>1
  <2>2. CASE ~AtEnd(b)
    <3> DEFINE x == Off(L, o - 1)
               l == Len(L[o])
    <3>1. here = l - op
      BY <2>2 DEF Size
    <3>2. Off(L, o) = x + l /\ x \in Nat /\ l \in Nat /\ op < l /\ End(b) = x + op /\ op \in Nat
      <4>1. o \in 1..nL /\ o - 1 \in 0..nL
        BY <1>5, <2>2
      <4> QED BY <1>3, <1>4, <2>2, <4>1
    <3>3. keep = o
      BY <1>5, <2>2
    <3> HIDE DEF x, l, here, keep, op, o
    <3>4. here \in Nat /\ End(b) + here = x + l
      BY <3>1, <3>2
    <3> QED BY <3>2, <3>3, <3>4
  <2> QED BY <2>1, <2>2
<1>7. ASSUME NEW j \in keep..nL PROVE room(j) = Off(L, j) - Off(L, keep)
  <2> DEFINE a == keep + 1
  <2>1. a \in 1..(Len(L)+1) /\ a - 1 = keep
    <3>1. keep \in Nat /\ nL \in Nat /\ keep <= nL
      BY <1>3, <1>5
    <3> HIDE DEF keep, nL
    <3>2. a \in 1..(nL+1) /\ a - 1 = keep
      BY <3>1
    <3> QED BY <3>2 DEF nL
  <2>2. j \in (a-1)..Len(L)
    BY <2>1
  <2>3. room(j) = SumFunction([i \in a..j |-> Len(L[i])])
    BY DEF Size
  <2> HIDE DEF a, keep, room, L
  <2>4. SumFunction([i \in a..j |-> Len(L[i])]) = Off(L, j) - Off(L, a-1)
    BY <1>3, <2>1, <2>2, SumFrom
  <2> QED BY <2>1, <2>3, <2>4
<1> HIDE DEF room, here, more, keep
<1>8. more \in Nat /\ more = (IF n > here THEN n - here ELSE 0)
  BY <1>2, <1>6 DEF more
<1>9. /\ last \in keep..nL
      /\ \/ last = nL /\ room(nL) <= more
         \/ room(last) >= more /\ \A i \in keep..(last-1) : room(i) < more
  <2>1. CASE room(nL) <= more
    BY <1>3, <1>5, <2>1
  <2>2. CASE ~(room(nL) <= more)
    <3> DEFINE Q(j) == room(j) >= more /\ \A i \in keep..(j-1) : room(i) < more
               T == {j \in keep..nL : room(j) >= more}
    <3>1. \A j \in keep..nL : room(j) \in Int
      <4>1. \A j \in keep..nL : j \in 0..nL
        BY <1>3, <1>5
      <4>2. Off(L, keep) \in Nat
        BY <1>3, <1>5
      <4> QED BY <1>3, <1>7, <4>1, <4>2
    <3>2. T \in SUBSET Nat /\ nL \in T
      <4>1. keep \in Nat /\ nL \in Nat /\ nL \in keep..nL
        BY <1>3, <1>5
      <4>2. room(nL) >= more
        BY <1>8, <2>2, <3>1, <4>1
      <4> HIDE DEF nL
      <4> QED BY <4>1, <4>2
    <3>3. PICK j \in T : \A i \in T : j <= i
      <4> HIDE DEF T
      <4> QED BY <3>2, LeastNat
    <3>4. j \in keep..nL /\ Q(j)
      <4>1. ASSUME NEW i \in keep..(j-1) PROVE room(i) < more
        <5>1. i \in keep..nL /\ ~(j <= i)
          BY <1>3, <1>5, <3>3
        <5>2. i \notin T
          BY <3>3, <5>1
        <5> QED BY <1>8, <3>1, <5>1, <5>2
      <4> QED BY <3>3, <4>1
    <3>5. \E k \in keep..nL : Q(k)
      BY <3>4
    <3>6. last = CHOOSE k \in keep..nL : Q(k)
      BY <2>2
    <3> HIDE DEF Q, last
    <3>7. last \in keep..nL /\ Q(last)
      BY <3>5, <3>6
    <3> QED BY <3>7 DEF Q
  <2> QED BY <2>1, <2>2
<1> HIDE DEF last
<1>10. /\ last \in Nat /\ last <= nL /\ last >= keep /\ last \in 0..nL
       /\ Off(L, last) \in Nat /\ Off(L, keep) \in Nat /\ Off(L, nL) \in Nat
       /\ room(last) = Off(L, last) - Off(L, keep)
       /\ last > keep => /\ last \in 1..nL /\ last - 1 \in keep..nL /\ last - 1 \in 0..nL
                         /\ room(last - 1) = Off(L, last - 1) - Off(L, keep)
                         /\ Off(L, last - 1) \in Nat
                         /\ Off(L, last) = Off(L, last - 1) + Len(L[last])
                         /\ Len(L[last]) \in Nat /\ Len(L[last]) > 0
  <2>1. /\ last \in Nat /\ last <= nL /\ last >= keep /\ last \in 0..nL /\ nL \in 0..nL
        /\ last > keep => last \in 1..nL /\ last - 1 \in keep..nL /\ last - 1 \in 0..nL
    <3>1. last \in keep..nL /\ keep \in Nat /\ nL \in Nat
      BY <1>3, <1>5, <1>9
    <3> HIDE DEF nL
    <3> QED BY <3>1
  <2>2. last \in keep..nL
    BY <1>9
  <2> HIDE DEF nL, L
  <2> QED BY <1>3, <1>5, <1>7, <2>1, <2>2
<1> DEFINE fits == fresh > 0
<1>11. /\ fresh \in Nat /\ fresh = (IF more > room(last) THEN more - room(last) ELSE 0)
       /\ fresh > 0 => last = nL
  <2>1. room(last) \in Int /\ more \in Nat
    BY <1>8, <1>10
  <2>2. more > room(last) => last = nL
    <3>1. ~(more > room(last) /\ room(last) >= more)
      BY <2>1
    <3> QED BY <1>9, <3>1
  <2>3. fresh = (IF more > room(last) THEN more - room(last) ELSE 0)
    OBVIOUS
  <2> HIDE DEF fresh
  <2> QED BY <2>1, <2>2, <2>3
<1> HIDE DEF fresh, fits
<1>12. p.out = o /\ p.in_pos = b.in_pos /\ p.out_pos = op /\ p.in_size = b.in_size
  <2>1. b \in [list : Seq(Seq(C)), out : Nat, in_pos : Nat, out_pos : Nat, out_end : Nat, in_size : Nat]
    BY <1>2 DEF Shaped
  <2> HIDE DEF M, N, e
  <2> QED BY <1>1, <2>1
<1>13. \A i \in 1..keep : i \in 1..nL
  BY <1>3, <1>5
<1>14. ASSUME fresh > 0 PROVE Regrows(C, b, p, keep) /\ HasPrepared(p, n)
  <2> DEFINE r == [i \in 1..Larger(alloc, fresh) |-> Raw]
  <2>1. Larger(alloc, fresh) \in Nat /\ Larger(alloc, fresh) > 0 /\ fresh <= Larger(alloc, fresh)
    BY <1>2, <1>11, <1>14 DEF Larger
  <2>2. r \in Seq(C) /\ Len(r) = Larger(alloc, fresh)
    BY <1>2, <2>1
  <2>3. M = L
    <3>1. last = Len(L)
      BY <1>11, <1>14
    <3> QED BY <1>3, <3>1, SubSeqFull
  <2>4. N = Append(L, r)
    BY <2>3
  <2> HIDE DEF r, N
  <2>5. N \in Seq(Seq(C)) /\ Len(N) = nL + 1 /\ N[nL + 1] = r /\ \A i \in 1..nL : N[i] = L[i]
    BY <1>3, <2>2, <2>4
  <2>6. p = [b EXCEPT !.list = N, !.out_end = fresh]
    BY <1>1, <1>14
  <2>7. /\ p.list = N /\ p.out_end = fresh
        /\ p \in [list : Seq(Seq(C)), out : Nat, in_pos : Nat, out_pos : Nat, out_end : Nat, in_size : Nat]
    <3>1. b \in [list : Seq(Seq(C)), out : Nat, in_pos : Nat, out_pos : Nat, out_end : Nat, in_size : Nat]
      BY <1>2 DEF Shaped
    <3> QED BY <1>11, <2>5, <2>6, <3>1
  <2>8. /\ b.out <= Len(p.list)
        /\ p.out_end <= Len(p.list[Len(p.list)])
        /\ b.out = Len(p.list) => b.out_pos <= p.out_end
    <3>1. Len(p.list) = nL + 1 /\ p.list[Len(p.list)] = r
      BY <2>5, <2>7
    <3>2. b.out = nL + 1 => op = 0
      BY <1>3, <1>4
    <3> QED BY <1>3, <1>11, <2>1, <2>2, <2>7, <3>1, <3>2, SMTT(30)
  <2>9. \A i \in 1..Len(p.list) : Len(p.list[i]) > 0
    <3>1. ASSUME NEW i \in 1..(nL+1) PROVE Len(N[i]) > 0
      <4>1. CASE i = nL + 1
        BY <2>1, <2>2, <2>5, <4>1
      <4>2. CASE i # nL + 1
        <5>1. i \in 1..nL
          BY <1>3, <4>2
        <5> QED BY <1>3, <2>5, <5>1
      <4> QED BY <4>1, <4>2
    <3> QED BY <2>5, <2>7, <3>1
  <2>10. keep <= Len(p.list) /\ \A i \in 1..keep : p.list[i] = b.list[i]
    <3>1. Len(p.list) = nL + 1
      BY <2>5, <2>7
    <3>2. keep <= Len(p.list)
      BY <1>3, <1>5, <3>1
    <3> QED BY <1>13, <2>5, <2>7, <3>2
  <2>11. Regrows(C, b, p, keep)
    <3>1. keep = Smaller(b.out, Len(b.list))
      BY DEF keep
    <3>2. b.out > Len(p.list) => p.out_end = 0
      BY <1>3, <2>5, <2>7, SMTT(30)
    <3> QED BY <1>2, <1>12, <2>7, <2>8, <2>9, <2>10, <3>1, <3>2, Zenon DEF Regrows
  <2>12. Off(N, nL) = Off(L, nL)
    <3>1. \A i \in 1..nL : Len(N[i]) = Len(L[i])
      BY <2>5
    <3> HIDE DEF L
    <3> QED BY <3>1, OffSame, Zenon
  <2>13. ~AtEnd(p)
    <3>1. ~(p.out > Len(p.list))
      BY <1>3, <1>12, <2>5, <2>7
    <3> QED BY <3>1 DEF AtEnd
  <2>14. End(p) = End(b)
    BY <2>11, Regrown
  <2>15. End(b) + n = Off(L, nL) + fresh
    <3> DEFINE x == Off(L, keep)
               y == Off(L, nL)
               z == End(b)
    <3>1. /\ x \in Nat /\ y \in Nat /\ z \in Nat /\ here \in Nat /\ z + here = x /\ n \in Nat
          /\ more = (IF n > here THEN n - here ELSE 0)
          /\ fresh = (IF more > y - x THEN more - (y - x) ELSE 0) /\ fresh > 0
      <4>1. last = nL
        BY <1>11, <1>14
      <4> QED BY <1>2, <1>3, <1>6, <1>8, <1>10, <1>11, <1>14, <4>1
    <3>2. y - x \in Nat
      <4>1. keep \in 0..Len(L) /\ nL \in keep..Len(L) /\ L \in Seq(Seq(C))
        BY <1>3, <1>5
      <4>2. x <= y
        BY <4>1, OffUp, Zenon
      <4> QED BY <3>1, <4>2
    <3> HIDE DEF x, y, z
    <3>3. z + n = y + fresh
      BY <3>1, <3>2
    <3> QED BY <3>3 DEF y, z
  <2>16. Len(p.list) - 1 = nL
    BY <1>3, <2>5, <2>7
  <2> QED BY <2>7, <2>11, <2>12, <2>13, <2>14, <2>15, <2>16 DEF HasPrepared
<1>15. ASSUME ~(fresh > 0) PROVE Regrows(C, b, p, keep) /\ HasPrepared(p, n)
  <2>1. M \in Seq(Seq(C)) /\ Len(M) = last /\ \A i \in 1..last : M[i] = L[i]
    BY <1>3, <1>10, FrontOut
  <2> HIDE DEF M
  <2>2. more <= room(last)
    BY <1>8, <1>10, <1>11, <1>15
  <2> DEFINE x == Off(L, keep)
             y == Off(L, last)
             w == Off(L, last - 1)
             l == Len(L[last])
             z == End(b)
  <2>3. x \in Nat /\ y \in Nat /\ z \in Nat /\ here \in Nat /\ z + here = x /\ n \in Nat
        /\ more = (IF n > here THEN n - here ELSE 0) /\ more \in Nat
        /\ more <= y - x
    BY <1>2, <1>3, <1>6, <1>8, <1>10, <2>2
  <2>4. ASSUME last > keep
        PROVE  /\ e \in Nat /\ e <= l /\ ~AtEnd(b) /\ o < last
               /\ z + n = w + e
    <3>1. e = more - (w - x)
      BY <1>10, <2>4
    <3>2. w \in Nat /\ l \in Nat /\ l > 0 /\ y = w + l
      BY <1>10, <2>4
    <3>3. w - x < more
      <4>1. CASE last = nL /\ room(nL) <= more
        <5>1. y - x <= more
          BY <1>10, <4>1
        <5> HIDE DEF x, y, w, l
        <5> QED BY <2>3, <3>2, <5>1
      <4>2. CASE \A i \in keep..(last-1) : room(i) < more
        <5>1. last - 1 \in keep..(last-1)
          BY <1>5, <1>10, <2>4
        <5> QED BY <1>10, <2>4, <4>2, <5>1
      <4> QED BY <1>9, <4>1, <4>2
    <3>4. ~AtEnd(b) /\ o < last
      <4>1. AtEnd(b) => keep = nL
        BY <1>5
      <4>2. ~AtEnd(b) => keep = o
        BY <1>5
      <4>3. last \in Nat /\ nL \in Nat /\ last <= nL /\ last > keep /\ keep \in Nat
        BY <1>3, <1>5, <1>10, <2>4
      <4> HIDE DEF nL, o, x, y, w, l, z, e
      <4> QED BY <4>1, <4>2, <4>3
    <3>5. w - x \in Nat
      <4>1. keep \in 0..Len(L) /\ last - 1 \in keep..Len(L) /\ L \in Seq(Seq(C))
        BY <1>3, <1>5, <1>10, <2>4
      <4>2. x <= w
        BY <4>1, OffUp, Zenon
      <4> QED BY <2>3, <3>2, <4>2
    <3> HIDE DEF x, y, w, l, z, e
    <3>6. e \in Nat /\ e <= l /\ z + n = w + e
      BY <2>3, <3>1, <3>2, <3>3, <3>5
    <3> QED BY <3>4, <3>6
  <2>5. ASSUME ~(last > keep)
        PROVE  /\ last = keep /\ n <= here
               /\ AtEnd(b) => last = nL /\ n = 0 /\ e = 0
               /\ ~AtEnd(b) => last = o /\ e = op + n
    <3>1. last = keep
      BY <1>5, <1>10, <2>5
    <3>2. n <= here
      BY <2>3, <3>1
    <3>3. AtEnd(b) => last = nL /\ n = 0 /\ e = 0
      <4> SUFFICES ASSUME AtEnd(b) PROVE last = nL /\ n = 0 /\ e = 0
        OBVIOUS
      <4>1. here = 0
        BY DEF here
      <4> QED BY <1>2, <1>4, <1>5, <2>5, <3>1, <3>2, <4>1
    <3>4. ~AtEnd(b) => last = o /\ e = op + n
      BY <1>5, <2>5, <3>1
    <3> QED BY <3>1, <3>2, <3>3, <3>4
  <2>6. e \in Nat
    <3>1. CASE last > keep
      BY <2>4, <3>1
    <3>2. CASE ~(last > keep)
      <4>1. AtEnd(b) => e = 0
        BY <2>5, <3>2
      <4>2. ~AtEnd(b) => e = op + n
        BY <2>5, <3>2
      <4> HIDE DEF e
      <4> QED BY <1>2, <1>3, <4>1, <4>2
    <3> QED BY <3>1, <3>2
  <2> HIDE DEF e
  <2>7. p = [b EXCEPT !.list = M, !.out_end = e]
    BY <1>1, <1>15
  <2>8. /\ p.list = M /\ p.out_end = e
        /\ p \in [list : Seq(Seq(C)), out : Nat, in_pos : Nat, out_pos : Nat, out_end : Nat, in_size : Nat]
    <3>1. b \in [list : Seq(Seq(C)), out : Nat, in_pos : Nat, out_pos : Nat, out_end : Nat, in_size : Nat]
      BY <1>2 DEF Shaped
    <3> QED BY <2>1, <2>6, <2>7, <3>1
  <2>9. keep <= Len(p.list) /\ \A i \in 1..keep : p.list[i] = b.list[i]
    <3>1. Len(p.list) = last
      BY <2>1, <2>8
    <3>2. keep <= Len(p.list)
      BY <1>10, <3>1
    <3>3. \A i \in 1..keep : i \in 1..last
      BY <1>5, <1>10
    <3> QED BY <2>1, <2>8, <3>2, <3>3
  <2>10. \A i \in 1..Len(p.list) : Len(p.list[i]) > 0
    <3>1. \A i \in 1..last : i \in 1..nL
      BY <1>3, <1>10
    <3> QED BY <1>3, <2>1, <2>8, <3>1
  <2>11. /\ b.out <= Len(p.list) => /\ p.out_end <= Len(p.list[Len(p.list)])
                                    /\ b.out = Len(p.list) => b.out_pos <= p.out_end
         /\ b.out > Len(p.list) => p.out_end = 0
         /\ IF o > last THEN n = 0 ELSE z + n = Off(L, last - 1) + e
    <3>1. CASE last > keep
      <4>1. last \in 1..last /\ b.out < last /\ o \in Nat
        <5>1. last \in 1..nL /\ o < last /\ o \in Nat
          BY <1>3, <1>10, <2>4, <3>1
        <5> HIDE DEF z, x, y, w, l
        <5> QED BY <5>1
      <4>2. p.list[Len(p.list)] = L[last] /\ Len(p.list) = last
        BY <2>1, <2>8, <4>1
      <4>3. z + n = Off(L, last - 1) + e /\ e <= Len(L[last])
        BY <2>4, <3>1
      <4> HIDE DEF z
      <4> QED BY <1>10, <2>8, <4>1, <4>2, <4>3, SMTT(30)
    <3>2. CASE ~(last > keep) /\ AtEnd(b)
      <4>1. o > last /\ n = 0 /\ e = 0 /\ Len(p.list) = last
        BY <1>3, <1>4, <2>1, <2>5, <2>8, <3>2
      <4> QED BY <1>3, <1>10, <2>8, <4>1
    <3>3. CASE ~(last > keep) /\ ~AtEnd(b)
      <4>1. last = o /\ e = op + n /\ n <= here /\ keep = o
        BY <2>5, <3>3
      <4>2. o \in 1..nL
        BY <1>5, <3>3
      <4> DEFINE u == Off(L, o - 1)
                 k == Len(L[o])
      <4>3. Off(L, o) = u + k /\ u \in Nat /\ k \in Nat /\ z = u + op /\ op \in Nat
        <5>1. o - 1 \in 0..nL
          BY <4>2
        <5> QED BY <1>3, <4>2, <5>1
      <4>4. z + here = u + k
        BY <2>3, <4>1, <4>3
      <4>5. e <= k /\ op <= e /\ z + n = u + e
        <5> HIDE DEF u, k, z, op
        <5> QED BY <2>3, <4>1, <4>3, <4>4
      <4>6. p.list[Len(p.list)] = L[o] /\ Len(p.list) = o
        <5>1. o \in 1..last
          BY <4>1, <4>2
        <5> QED BY <2>1, <2>8, <4>1, <5>1
      <4>7. ~(o > last) /\ ~(b.out > Len(p.list))
        BY <1>3, <4>1, <4>6
      <4> QED BY <2>8, <4>1, <4>5, <4>6, <4>7
    <3> QED BY <3>1, <3>2, <3>3
  <2>12. Regrows(C, b, p, keep)
    <3>1. keep = Smaller(b.out, Len(b.list))
      BY DEF keep
    <3> QED BY <1>2, <1>12, <2>8, <2>9, <2>10, <2>11, <3>1, Zenon DEF Regrows
  <2>13. End(p) = End(b)
    BY <2>12, Regrown
  <2>14. HasPrepared(p, n)
    <3>1. AtEnd(p) <=> o > last
      BY <1>12, <2>1, <2>8 DEF AtEnd
    <3>2. ASSUME ~(o > last) PROVE Off(p.list, Len(p.list) - 1) = Off(L, last - 1)
      <4>1. Len(p.list) = last /\ p.list = M
        BY <2>1, <2>8
      <4>2. \A i \in 1..(last-1) : i \in 1..last
        BY <1>10
      <4>3. \A i \in 1..(last-1) : Len(M[i]) = Len(L[i])
        BY <2>1, <4>2
      <4>4. Off(M, last - 1) = Off(L, last - 1)
        <5> HIDE DEF L
        <5> QED BY <4>3, OffSame, Zenon
      <4> QED BY <4>1, <4>4
    <3> QED BY <2>8, <2>11, <2>13, <3>1, <3>2, Zenon DEF HasPrepared
  <2> QED BY <2>12, <2>14
<1>16. Regrows(C, b, p, keep) /\ HasPrepared(p, n)
  BY <1>14, <1>15
<1> QED BY <1>12, <1>16, Regrown, Zenon

-----------------------------------------------------------------------------

\* What was prepared is there.
LEMMA PreparedFits ==
  ASSUME NEW C, NEW b, Shaped(C, b), NEW n \in Nat, HasPrepared(b, n)
  PROVE  End(b) + n <= Off(b.list, Len(b.list))
<1>1. CASE AtEnd(b)
  <2>1. n = 0
    BY <1>1 DEF HasPrepared
  <2> QED BY <2>1, ShapedFacts
<1>2. CASE ~AtEnd(b)
  <2>1. Len(b.list) \in 1..Len(b.list) /\ b.out_end <= Len(b.list[Len(b.list)])
    <3>1. b.out \in 1..Len(b.list) /\ Len(b.list) \in Nat
      BY <1>2, InAtMostEnd, ShapedFacts
    <3>2. b.out_end <= Len(b.list[Len(b.list)])
      BY <1>2 DEF Shaped, Size
    <3> DEFINE nL == Len(b.list)
    <3>3. nL \in 1..nL
      <4>1. b.out \in 1..nL /\ nL \in Nat
        BY <3>1
      <4> HIDE DEF nL
      <4> QED BY <4>1
    <3> QED BY <3>2, <3>3
  <2> DEFINE x == Off(b.list, Len(b.list) - 1)
             y == Off(b.list, Len(b.list))
             l == Len(b.list[Len(b.list)])
  <2>2. End(b) + n = x + b.out_end /\ y = x + l /\ x \in Nat /\ l \in Nat /\ b.out_end \in Nat /\ b.out_end <= l
    <3>1. End(b) + n = x + b.out_end
      BY <1>2 DEF HasPrepared
    <3>2. y = x + l /\ l \in Nat
      BY <2>1, ShapedFacts
    <3>3. x \in Nat
      <4>1. Len(b.list) - 1 \in 0..Len(b.list)
        <5> DEFINE nL == Len(b.list)
        <5>1. nL \in 1..nL
          BY <2>1
        <5> HIDE DEF nL
        <5>2. nL - 1 \in 0..nL
          BY <5>1
        <5> QED BY <5>2 DEF nL
      <4> QED BY <4>1, ShapedFacts
    <3> QED BY <2>1, <3>1, <3>2, <3>3, ShapedFacts
  <2> HIDE DEF x, y, l
  <2>3. End(b) + n <= y
    BY <2>2
  <2> QED BY <2>3 DEF y
<1> QED BY <1>1, <1>2

\* A write of s into n prepared bytes.
Fills(C, b, s, n) == Shaped(C, b) /\ s \in Seq(C) /\ n \in Nat /\ Len(s) <= n /\ HasPrepared(b, n)

\* The buffers prepare() returned lie behind what is held, in order.
LEMMA FillWrites ==
  ASSUME NEW C, NEW b, NEW s, NEW n, Fills(C, b, s, n), NEW p, p = Fill(b, s)
  PROVE  /\ Shaped(C, p) /\ HasPrepared(p, n) /\ View(p) = View(b) /\ End(p) = End(b)
         /\ p.in_size = b.in_size /\ p.in_pos = b.in_pos
         /\ \A q \in 1..Off(b.list, Len(b.list)) :
              Flat(p.list)[q] = IF q > End(b) /\ q - End(b) <= Len(s) THEN s[q - End(b)]
                                ELSE Flat(b.list)[q]
<1> DEFINE L == b.list
           at(i, k) == Room(b, i - 1) + k - OutFrom(b, i)
           new(i, k) == IF i >= b.out /\ k > OutFrom(b, i) /\ at(i, k) <= Len(s)
                          THEN s[at(i, k)] ELSE L[i][k]
           part(i) == [k \in 1..Len(L[i]) |-> new(i, k)]
           M == [i \in 1..Len(L) |-> part(i)]
           nL == Len(L)
           e == End(b)
           o == b.out
<1>1. p = [b EXCEPT !.list = M]
  BY DEF Fill, Size
<1>2. Shaped(C, b) /\ s \in Seq(C) /\ n \in Nat /\ Len(s) <= n /\ HasPrepared(b, n) /\ Len(s) \in Nat
  BY DEF Fills
<1>3. /\ L \in Seq(Seq(C)) /\ nL \in Nat
      /\ o \in Nat /\ o >= 1 /\ o <= nL + 1
      /\ b.in_pos \in Nat /\ b.out_pos \in Nat /\ b.in_size \in Nat
      /\ \A j \in 0..nL : Off(L, j) \in Nat
      /\ \A j \in 1..nL : Off(L, j) = Off(L, j-1) + Len(L[j]) /\ Len(L[j]) \in Nat /\ Len(L[j]) > 0
      /\ e = Off(L, o - 1) + b.out_pos /\ e \in Nat
  BY <1>2, ShapedFacts
<1>4. b.out_pos <= 0 \/ (o <= nL /\ b.out_pos < Len(L[o]))
  BY <1>2 DEF Shaped, AtEnd, Size
<1> HIDE DEF M
<1>5. ASSUME NEW i \in 1..nL, NEW k \in 1..Len(L[i])
      PROVE  /\ new(i, k) = IF Off(L, i-1) + k > e /\ (Off(L, i-1) + k) - e <= Len(s)
                              THEN s[(Off(L, i-1) + k) - e] ELSE L[i][k]
             /\ new(i, k) \in C
  <2>1. i \in Nat /\ i >= 1 /\ i <= nL /\ i - 1 \in 0..nL
    BY <1>3
  <2> DEFINE x == Off(L, i-1)
             l == Len(L[i])
             g == OutFrom(b, i)
             r == Room(b, i - 1)
             a == at(i, k)
             op == b.out_pos
  <2>0. /\ o \in Nat /\ o >= 1 /\ o <= nL + 1 /\ nL \in Nat /\ e \in Nat /\ op \in Nat
        /\ i \in Nat /\ i >= 1 /\ i <= nL
    BY <1>3, <2>1
  <2>2. x \in Nat /\ l \in Nat /\ k \in Nat /\ k >= 1 /\ k <= l /\ Off(L, i) = x + l
    <3>1. x \in Nat /\ l \in Nat /\ Off(L, i) = x + l
      BY <1>3, <2>1
    <3>2. k \in 1..l
      OBVIOUS
    <3> HIDE DEF x, l
    <3> QED BY <3>1, <3>2
  <2>3. g = (IF i = o THEN op ELSE 0)
    BY DEF OutFrom
  <2>4. ASSUME i >= o PROVE a = (x + k) - e
    <3>1. i - 1 \in (o - 1)..nL
      BY <1>3, <2>1, <2>4
    <3>2. r = IF i - 1 = o - 1 THEN 0 ELSE x - e
      BY <1>2, <3>1, RoomIs
    <3>3. i - 1 = o - 1 <=> i = o
      <4> HIDE DEF o, nL
      <4> QED BY <2>0
    <3>4. i = o => e = x + op
      BY <1>3
    <3>5. a = r + k - g
      OBVIOUS
    <3> HIDE DEF x, l, g, r, a, e, o, op, nL
    <3> QED BY <2>0, <2>2, <2>3, <3>2, <3>3, <3>4, <3>5
  <2>5. i >= o /\ k > g <=> x + k > e
    <3>1. CASE i > o
      <4>0. o \in 0..nL /\ i - 1 \in o..nL /\ o \in 1..nL /\ ~(o > nL)
        <5> HIDE DEF o, nL
        <5> QED BY <2>0, <3>1
      <4>1. o \in 0..Len(L) /\ i - 1 \in o..Len(L) /\ o \in 1..nL /\ ~AtEnd(b)
        BY <4>0 DEF AtEnd
      <4>2. Off(L, o) <= x
        BY <1>3, <4>1, OffUp, Zenon
      <4>3. e < Off(L, o) /\ Off(L, o) \in Nat
        BY <1>2, <1>3, <4>1, EndInFront
      <4>4. g = 0
        <5> HIDE DEF o, op, g, nL
        <5> QED BY <2>0, <2>3, <3>1
      <4> DEFINE w == Off(L, o)
      <4> HIDE DEF x, e, g, o, nL, w
      <4> QED BY <2>0, <2>2, <3>1, <4>2, <4>3, <4>4 DEF w
    <3>2. CASE i = o
      <4>1. e = x + op /\ g = op
        BY <1>3, <2>3, <3>2
      <4> HIDE DEF x, e, g, op, o, nL
      <4> QED BY <2>0, <2>2, <3>2, <4>1
    <3>3. CASE i < o
      <4>0. i \in 0..nL /\ o - 1 \in i..nL /\ o - 1 \in 0..nL
        <5> HIDE DEF o, nL
        <5> QED BY <2>0, <3>3
      <4>1. i \in 0..Len(L) /\ o - 1 \in i..Len(L) /\ o - 1 \in 0..nL
        BY <4>0
      <4>2. Off(L, i) <= Off(L, o - 1) /\ Off(L, o - 1) \in Nat
        BY <1>3, <4>1, OffUp, Zenon
      <4>3. x + l <= e
        <5>1. e = Off(L, o - 1) + op
          BY <1>3
        <5> DEFINE w == Off(L, o - 1)
        <5> HIDE DEF x, l, e, op, w
        <5> QED BY <2>0, <2>2, <4>2, <5>1 DEF w
      <4> HIDE DEF x, l, e, g, o, nL
      <4> QED BY <2>0, <2>2, <3>3, <4>3
    <3>4. i < o \/ i = o \/ i > o
      <4> HIDE DEF o, nL
      <4> QED BY <2>0
    <3> QED BY <3>1, <3>2, <3>3, <3>4
  <2>6. L[i][k] \in C
    <3>1. L[i] \in Seq(C)
      BY <1>3, Parts
    <3> QED BY <3>1
  <2>7. new(i, k) = IF i >= o /\ k > g /\ a <= Len(s) THEN s[a] ELSE L[i][k]
    OBVIOUS
  <2> HIDE DEF new, a, x, g
  <2>8. CASE x + k > e
    <3>1. i >= o /\ k > g /\ a = (x + k) - e
      BY <2>4, <2>5, <2>8
    <3>2. a \in Nat /\ a >= 1
      <4> HIDE DEF e
      <4> QED BY <2>0, <2>2, <2>8, <3>1
    <3>3. a <= Len(s) => s[a] \in C
      <4>1. a <= Len(s) => a \in 1..Len(s)
        BY <1>2, <3>2
      <4> QED BY <1>2, <4>1
    <3> QED BY <2>6, <2>7, <2>8, <3>1, <3>3 DEF x
  <2>9. CASE ~(x + k > e)
    <3>1. ~(i >= o /\ k > g)
      BY <2>5, <2>9
    <3> QED BY <2>6, <2>7, <2>9, <3>1 DEF x
  <2> QED BY <2>8, <2>9
<1> HIDE DEF new
<1>6. ASSUME NEW i \in 1..nL PROVE part(i) \in Seq(C) /\ Len(part(i)) = Len(L[i])
  <2>1. Len(L[i]) \in Nat
    BY <1>3
  <2>2. \A k \in 1..Len(L[i]) : new(i, k) \in C
    BY <1>5
  <2> HIDE DEF L
  <2> QED BY <2>1, <2>2
<1> HIDE DEF part
<1>7. M \in Seq(Seq(C)) /\ Len(M) = nL /\ \A i \in 1..nL : M[i] = part(i)
  <2> HIDE DEF nL, L
  <2> QED BY <1>3, <1>6 DEF M, nL
<1>8. \A i \in 1..nL : Len(M[i]) = Len(L[i])
  BY <1>6, <1>7
<1>9. \A j \in 0..nL : Off(M, j) = Off(L, j)
  <2> TAKE j \in 0..nL
  <2>1. \A i \in 1..j : i \in 1..nL
    BY <1>3
  <2>2. \A i \in 1..j : Len(M[i]) = Len(L[i])
    BY <1>8, <2>1
  <2> HIDE DEF L
  <2> QED BY <2>2, OffSame, Zenon
<1>10. /\ p.list = M /\ p.out = o /\ p.in_pos = b.in_pos /\ p.out_pos = b.out_pos
       /\ p.out_end = b.out_end /\ p.in_size = b.in_size
       /\ p \in [list : Seq(Seq(C)), out : Nat, in_pos : Nat, out_pos : Nat, out_end : Nat, in_size : Nat]
  <2>1. b \in [list : Seq(Seq(C)), out : Nat, in_pos : Nat, out_pos : Nat, out_end : Nat, in_size : Nat]
    BY <1>2 DEF Shaped
  <2> QED BY <1>1, <1>7, <2>1
<1>11. ASSUME NEW q \in 1..Off(L, nL)
       PROVE  Flat(M)[q] = IF q > e /\ q - e <= Len(s) THEN s[q - e] ELSE Flat(L)[q]
  <2>1. nL \in 0..Len(L)
    BY <1>3
  <2>2. PICK j \in 1..nL, k \in Nat :
            /\ k >= 1 /\ k <= Len(L[j]) /\ q = Off(L, j-1) + k
            /\ Flat(L)[q] = L[j][k]
    <3>1. L \in Seq(Seq(C)) /\ q \in 1..Off(L, nL)
      BY <1>3
    <3> HIDE DEF L, nL, e, o
    <3> QED BY <2>1, <3>1, CellAt, ZenonT(40)
  <2>3. k \in 1..Len(L[j]) /\ k \in 1..Len(M[j]) /\ j \in 1..Len(M) /\ j - 1 \in 0..nL
    <3>1. Len(L[j]) \in Nat
      BY <1>3
    <3> QED BY <1>7, <1>8, <2>2, <3>1
  <2>4. Flat(M)[Off(M, j-1) + k] = M[j][k]
    BY <1>7, <2>3, FlatAt, Zenon
  <2>5. Off(M, j-1) + k = q
    BY <1>9, <2>2, <2>3
  <2>6. M[j][k] = new(j, k)
    BY <1>7, <2>3 DEF part
  <2>7. new(j, k) = IF q > e /\ q - e <= Len(s) THEN s[q - e] ELSE L[j][k]
    <3>1. new(j, k) = IF Off(L, j-1) + k > e /\ (Off(L, j-1) + k) - e <= Len(s)
                        THEN s[(Off(L, j-1) + k) - e] ELSE L[j][k]
      BY <1>5, <2>3
    <3>2. Off(L, j-1) + k = q
      BY <2>2
    <3> DEFINE z == Off(L, j-1) + k
    <3>3. new(j, k) = IF z > e /\ z - e <= Len(s) THEN s[z - e] ELSE L[j][k]
      BY <3>1, Zenon
    <3>4. z = q
      BY <3>2
    <3> HIDE DEF z, e, L
    <3> QED BY <3>3, <3>4
  <2> HIDE DEF e, L
  <2> QED BY <2>2, <2>4, <2>5, <2>6, <2>7, Zenon
<1>12. End(p) = e
  <2>1. o - 1 \in 0..nL
    BY <1>3
  <2> QED BY <1>9, <1>10, <2>1 DEF End
<1>13. Shaped(C, p)
  <2>1. AtEnd(p) <=> AtEnd(b)
    BY <1>7, <1>10 DEF AtEnd
  <2>2. L = <<>> => p = EmptyBuf
    <3>1. ASSUME L = <<>> PROVE p = EmptyBuf
      <4>1. M = <<>> /\ b = EmptyBuf
        <5>1. Len(M) = 0
          BY <1>7, <3>1
        <5> QED BY <1>2, <1>7, <3>1, <5>1 DEF Shaped
      <4> QED BY <1>1, <4>1 DEF EmptyBuf
    <3> QED BY <3>1
  <2>3. M = <<>> <=> L = <<>>
    <3>1. M = <<>> <=> Len(M) = 0
      BY <1>7
    <3>2. L = <<>> <=> Len(L) = 0
      BY <1>3
    <3> QED BY <1>7, <3>1, <3>2
  <2>4. M # <<>> => Len(M[1]) = Len(L[1])
    <3>1. M # <<>> => 1 \in 1..nL
      BY <1>3, <1>7
    <3> QED BY <1>8, <3>1
  <2>5. ~AtEnd(b) => o \in 1..nL /\ nL \in 1..nL
    <3>1. ~AtEnd(b) <=> ~(o > nL)
      BY DEF AtEnd
    <3>2. o \in Nat /\ nL \in Nat /\ o >= 1
      BY <1>3
    <3> HIDE DEF o, nL
    <3> QED BY <3>1, <3>2
  <2>6. ~AtEnd(b) => Len(M[o]) = Len(L[o]) /\ Len(M[nL]) = Len(L[nL])
    BY <1>8, <2>5
  <2>7. p.in_pos + p.in_size = End(p)
    BY <1>2, <1>10, <1>12 DEF Shaped
  <2>8. p.list # <<>> => p.in_pos < Size(p, 1)
    BY <1>2, <1>10, <2>3, <2>4 DEF Shaped, Size
  <2>9. ~AtEnd(p) => /\ p.out_pos < Size(p, p.out)
                     /\ p.out_end <= Size(p, Len(p.list))
                     /\ p.out = 1 => p.in_pos <= p.out_pos
                     /\ p.out = Len(p.list) => p.out_pos <= p.out_end
    BY <1>2, <1>7, <1>10, <2>1, <2>6 DEF Shaped, Size
  <2>10. AtEnd(p) => p.out_pos = 0 /\ p.out_end = 0
    BY <1>2, <1>10, <2>1 DEF Shaped
  <2>11. p.out \in 1..(Len(p.list) + 1) /\ \A i \in 1..Len(p.list) : Len(p.list[i]) > 0
    <3>1. p.out \in 1..(Len(p.list) + 1)
      BY <1>3, <1>7, <1>10
    <3>2. \A i \in 1..nL : Len(M[i]) > 0
      BY <1>3, <1>8
    <3> HIDE DEF nL
    <3> QED BY <1>7, <1>10, <3>1, <3>2
  <2> QED BY <1>10, <2>2, <2>3, <2>7, <2>8, <2>9, <2>10, <2>11, Zenon DEF Shaped
<1>14. e <= Off(L, nL) /\ Off(L, nL) \in Nat
  BY <1>2, ShapedFacts
<1>15. View(p) = View(b)
  <2>1. ASSUME NEW i \in Nat, i >= 1, i <= b.in_size
        PROVE  Flat(p.list)[p.in_pos + i] = Flat(b.list)[b.in_pos + i]
    <3>1. b.in_pos + b.in_size = e
      BY <1>2 DEF Shaped
    <3> DEFINE q == b.in_pos + i
    <3>2. q \in 1..Off(L, nL) /\ ~(q > e)
      <4> HIDE DEF e, L
      <4> QED BY <1>3, <1>14, <2>1, <3>1, SMTT(30)
    <3> HIDE DEF q, e
    <3>3. Flat(M)[q] = Flat(L)[q]
      BY <1>11, <3>2
    <3> QED BY <1>10, <3>3 DEF q
  <2> QED BY <1>2, <1>10, <1>13, <2>1, SameView, Zenon
<1>16. HasPrepared(p, n)
  <2>1. AtEnd(p) <=> AtEnd(b)
    BY <1>7, <1>10 DEF AtEnd
  <2>2. ~AtEnd(b) => Off(M, Len(M) - 1) = Off(L, nL - 1)
    <3>1. ~AtEnd(b) => nL - 1 \in 0..nL
      <4>1. ~AtEnd(b) <=> ~(o > nL)
        BY DEF AtEnd
      <4>2. o \in Nat /\ nL \in Nat /\ o >= 1
        BY <1>3
      <4> HIDE DEF o, nL
      <4> QED BY <4>1, <4>2
    <3> QED BY <1>7, <1>9, <3>1
  <2> QED BY <1>2, <1>10, <1>12, <2>1, <2>2 DEF HasPrepared
<1> QED BY <1>10, <1>11, <1>12, <1>13, <1>15, <1>16

-----------------------------------------------------------------------------

\* A call of commit(m) after prepare(n).
Commits(C, b, m, n) == Shaped(C, b) /\ m \in Nat /\ n \in Nat /\ m <= n /\ HasPrepared(b, n)

\* commit(m) moves out_pos_ over m of the prepared bytes.
LEMMA CommitMoves ==
  ASSUME NEW C, NEW b, NEW m, NEW n, Commits(C, b, m, n), NEW p, p = Commit(b, m)
  PROVE  /\ Shaped(C, p) /\ End(p) = End(b) + m
         /\ p.list = b.list /\ p.in_pos = b.in_pos /\ p.in_size = b.in_size + m
<1> DEFINE L == b.list
           nL == Len(L)
           at == CHOOSE j \in b.out..nL :
                   /\ j = nL \/ m < Room(b, j)
                   /\ \A i \in b.out..(j-1) : m >= Room(b, i)
           rest == m - Room(b, at - 1)
           got  == IF at = nL THEN Smaller(rest, b.out_end - OutFrom(b, at)) ELSE rest
           pos  == OutFrom(b, at) + got
           e == End(b)
           o == b.out
           op == b.out_pos
           oe == b.out_end
<1>1. p = IF AtEnd(b) THEN b
          ELSE IF at = nL /\ pos = Size(b, at)
            THEN [b EXCEPT !.out = nL + 1, !.out_pos = 0, !.out_end = 0,
                           !.in_size = @ + Room(b, at - 1) + got]
            ELSE [b EXCEPT !.out = at, !.out_pos = pos,
                           !.in_size = @ + Room(b, at - 1) + got]
  BY Zenon DEF Commit
<1>2. Shaped(C, b) /\ m \in Nat /\ n \in Nat /\ m <= n /\ HasPrepared(b, n)
  BY DEF Commits
<1>3. /\ L \in Seq(Seq(C)) /\ nL \in Nat
      /\ o \in Nat /\ o >= 1 /\ o <= nL + 1
      /\ b.in_pos \in Nat /\ op \in Nat /\ oe \in Nat /\ b.in_size \in Nat
      /\ \A j \in 0..nL : Off(L, j) \in Nat
      /\ \A j \in 1..nL : Off(L, j) = Off(L, j-1) + Len(L[j]) /\ Len(L[j]) \in Nat /\ Len(L[j]) > 0
      /\ e = Off(L, o - 1) + op /\ e \in Nat
  BY <1>2, ShapedFacts
<1>4. CASE AtEnd(b)
  <2>1. p = b
    BY <1>1, <1>4
  <2>2. n = 0
    BY <1>2, <1>4 DEF HasPrepared
  <2>3. m = 0
    BY <1>2, <2>2
  <2> HIDE DEF e
  <2> QED BY <1>2, <1>3, <2>1, <2>3, SMTT(30) DEF e
<1>5. CASE ~AtEnd(b)
  <2>1. /\ o \in 1..nL /\ op < Len(L[o]) /\ oe <= Len(L[nL]) /\ (o = 1 => b.in_pos <= op)
        /\ o = nL => op <= oe
        /\ e + n = Off(L, nL - 1) + oe
    <3>1. o \in 1..nL
      BY <1>2, <1>5, InAtMostEnd
    <3>2. op < Len(L[o]) /\ oe <= Len(L[nL]) /\ (o = 1 => b.in_pos <= op) /\ (o = nL => op <= oe)
      BY <1>2, <1>5 DEF Shaped, Size
    <3>3. e + n = Off(L, nL - 1) + oe
      BY <1>2, <1>5 DEF HasPrepared
    <3> QED BY <3>1, <3>2, <3>3
  <2>2. \A j \in (o - 1)..nL : Room(b, j) = IF j = o - 1 THEN 0 ELSE Off(L, j) - e
    BY <1>2, RoomIs
  <2>3. /\ at \in o..nL
        /\ at = nL \/ m < Room(b, at)
        /\ \A i \in o..(at-1) : m >= Room(b, i)
    <3> DEFINE Q(j) == /\ j = nL \/ m < Room(b, j)
                       /\ \A i \in o..(j-1) : m >= Room(b, i)
               T == {j \in o..nL : j = nL \/ m < Room(b, j)}
    <3>1. \A j \in o..nL : Room(b, j) \in Int
      <4>1. \A j \in o..nL : j \in (o-1)..nL /\ j # o - 1 /\ j \in 0..nL
        <5>1. o \in Nat /\ nL \in Nat /\ o >= 1
          BY <1>3
        <5> HIDE DEF o, nL
        <5> QED BY <5>1
      <4> HIDE DEF o, nL, e, L
      <4> QED BY <1>3, <2>2, <4>1
    <3>2. T \in SUBSET Nat /\ nL \in T
      <4>1. o \in Nat /\ nL \in Nat /\ nL \in o..nL
        <5>1. o \in 1..nL /\ nL \in Nat
          BY <1>3, <2>1
        <5> HIDE DEF o, nL
        <5> QED BY <5>1
      <4> HIDE DEF o, nL
      <4> QED BY <4>1
    <3>3. PICK j \in T : \A i \in T : j <= i
      <4> HIDE DEF T
      <4> QED BY <3>2, LeastNat
    <3>4. j \in o..nL /\ Q(j)
      <4>1. ASSUME NEW i \in o..(j-1) PROVE m >= Room(b, i)
        <5>1. i \in o..nL /\ ~(j <= i) /\ i # nL
          <6>1. o \in Nat /\ nL \in Nat /\ j \in o..nL
            BY <1>3, <3>3
          <6> HIDE DEF o, nL, T
          <6> QED BY <6>1
        <5>2. i \notin T
          BY <3>3, <5>1
        <5>3. Room(b, i) \in Int /\ ~(m < Room(b, i))
          BY <3>1, <5>1, <5>2
        <5> QED BY <1>2, <5>3
      <4> QED BY <3>3, <4>1
    <3>5. \E k \in o..nL : Q(k)
      BY <3>4
    <3>6. at = CHOOSE k \in o..nL : Q(k)
      OBVIOUS
    <3> HIDE DEF Q, at
    <3>7. at \in o..nL /\ Q(at)
      BY <3>5, <3>6
    <3> QED BY <3>7 DEF Q
  <2> HIDE DEF at
  <2> DEFINE R == Room(b, at - 1)
             g == OutFrom(b, at)
             l == Len(L[at])
             x == Off(L, at - 1)
  <2>4. /\ at \in Nat /\ at >= 1 /\ at >= o /\ at <= nL /\ at \in 1..nL /\ at - 1 \in (o-1)..nL /\ at \in (o-1)..nL
        /\ at - 1 \in 0..nL /\ (at - 1 = o - 1 <=> at = o) /\ at # o - 1 /\ (at # o => at - 1 \in o..(at-1))
        /\ o \in Nat /\ nL \in Nat
    <3>1. o \in Nat /\ nL \in Nat /\ o >= 1 /\ at \in o..nL
      BY <1>3, <2>3
    <3> HIDE DEF o, nL
    <3> QED BY <3>1
  <2>5. x \in Nat /\ l \in Nat /\ l > 0 /\ Off(L, at) = x + l /\ e \in Nat /\ op \in Nat
    BY <1>3, <2>4
  <2>6. g = (IF at = o THEN op ELSE 0) /\ g \in Nat
    <3>1. g = (IF at = o THEN op ELSE 0)
      BY DEF OutFrom
    <3> HIDE DEF g, op, o
    <3> QED BY <2>5, <3>1
  <2>7. R = (IF at = o THEN 0 ELSE x - e)
    BY <2>2, <2>4
  <2>8. at = o => e = x + op
    BY <1>3
  <2>9. R \in Nat /\ e + R = x + g /\ R <= m
    <3>1. at # o => R <= m
      BY <2>3, <2>4
    <3>2. at # o => x - e \in Nat
      <4>1. ASSUME at # o PROVE e <= x
        <5>1. o \in 0..Len(L) /\ at - 1 \in o..Len(L) /\ o \in 1..nL
          <6>1. o \in 0..nL /\ at - 1 \in o..nL /\ o \in 1..nL
            <7>1. o \in 1..nL
              BY <2>1
            <7> HIDE DEF o, nL
            <7> QED BY <2>4, <4>1, <7>1
          <6> QED BY <6>1
        <5>2. Off(L, o) <= x
          BY <1>3, <5>1, OffUp, Zenon
        <5>3. e < Off(L, o) /\ Off(L, o) \in Nat
          BY <1>2, <1>3, <1>5, <5>1, EndInFront
        <5> DEFINE w == Off(L, o)
        <5> HIDE DEF x, e, w
        <5> QED BY <2>5, <5>2, <5>3 DEF w
      <4> HIDE DEF x, e
      <4> QED BY <2>5, <4>1
    <3> HIDE DEF R, x, e, g, op, o
    <3> QED BY <1>2, <2>5, <2>6, <2>7, <2>8, <3>1, <3>2
  <2>10. rest = m - R /\ rest \in Nat /\ got = (IF at = nL THEN Smaller(rest, oe - g) ELSE rest) /\ pos = g + got
    <3>1. rest = m - R /\ got = (IF at = nL THEN Smaller(rest, oe - g) ELSE rest) /\ pos = g + got
      OBVIOUS
    <3> HIDE DEF rest, got, pos, R, g
    <3> QED BY <1>2, <2>9, <3>1
  <2> HIDE DEF rest, got, pos
  <2>11. at = nL => rest <= oe - g /\ oe \in Nat /\ oe <= l
    <3>1. at = nL => e + n = x + oe /\ oe <= l
      BY <2>1
    <3>2. oe \in Nat
      BY <1>3
    <3> HIDE DEF R, x, e, g, op, o, oe, l, nL
    <3> QED BY <1>2, <2>5, <2>6, <2>9, <2>10, <3>1, <3>2
  <2>12. got = rest
    <3>1. at = nL => oe - g \in Int
      <4>1. oe \in Nat
        BY <1>3
      <4> HIDE DEF g, oe
      <4> QED BY <2>6, <4>1
    <3> HIDE DEF g, oe, nL
    <3> QED BY <2>10, <2>11, <3>1 DEF Smaller
  <2>13. pos \in Nat /\ pos = g + rest /\ x + pos = e + m /\ R + got = m
    <3>1. pos = g + rest /\ got = rest /\ rest = m - R /\ rest \in Nat
      BY <2>10, <2>12, Zenon
    <3>2. e \in Nat /\ x \in Nat /\ g \in Nat /\ m \in Nat /\ R \in Nat
      BY <1>2, <2>5, <2>6, <2>9
    <3>3. e + R = x + g
      BY <2>9
    <3> HIDE DEF R, x, e, g
    <3> QED BY <3>1, <3>2, <3>3
  <2>14. at # nL => pos < l
    <3>1. at # nL => m < Off(L, at) - e
      BY <2>2, <2>3, <2>4
    <3>2. at # nL => m < (x + l) - e
      BY <2>5, <3>1
    <3> HIDE DEF x, e, l, nL
    <3> QED BY <1>2, <2>5, <2>13, <3>2
  <2>15. at = nL => pos <= oe /\ pos <= l
    <3> HIDE DEF x, e, l, nL, g, oe
    <3> QED BY <2>5, <2>6, <2>10, <2>11, <2>13
  <2>16. (b.in_size + R) + got = b.in_size + m
    <3>1. b.in_size \in Nat
      BY <1>3
    <3> HIDE DEF R
    <3> QED BY <1>2, <2>9, <2>10, <2>12, <2>13, <3>1
  <2>17. b \in [list : Seq(Seq(C)), out : Nat, in_pos : Nat, out_pos : Nat, out_end : Nat, in_size : Nat]
    BY <1>2 DEF Shaped
  <2>18. L # <<>> /\ b.in_pos < Len(L[1]) /\ (\A i \in 1..nL : Len(L[i]) > 0) /\ b.in_pos + b.in_size = e
    <3>1. L # <<>>
      BY <2>4
    <3> QED BY <1>2, <3>1 DEF Shaped, Size
  <2>19. CASE at = nL /\ pos = Size(b, at)
    <3>1. p = [b EXCEPT !.out = nL + 1, !.out_pos = 0, !.out_end = 0,
                        !.in_size = b.in_size + m]
      BY <1>1, <1>5, <2>16, <2>19
    <3>2. /\ p.list = L /\ p.out = nL + 1 /\ p.out_pos = 0 /\ p.out_end = 0 /\ p.in_size = b.in_size + m
          /\ p.in_pos = b.in_pos
          /\ p \in [list : Seq(Seq(C)), out : Nat, in_pos : Nat, out_pos : Nat, out_end : Nat, in_size : Nat]
      <4>1. b.in_size \in Nat /\ nL \in Nat
        BY <1>3
      <4> DEFINE k == nL + 1
                 z == b.in_size + m
      <4>2. k \in Nat /\ z \in Nat /\ 0 \in Nat
        <5> HIDE DEF nL
        <5> QED BY <1>2, <4>1
      <4>3. p = [b EXCEPT !.out = k, !.out_pos = 0, !.out_end = 0, !.in_size = z]
        BY <3>1
      <4> HIDE DEF nL, k, z
      <4>4. /\ p.list = L /\ p.out = k /\ p.out_pos = 0 /\ p.out_end = 0 /\ p.in_size = z
            /\ p.in_pos = b.in_pos
            /\ p \in [list : Seq(Seq(C)), out : Nat, in_pos : Nat, out_pos : Nat, out_end : Nat, in_size : Nat]
        BY <2>17, <4>2, <4>3
      <4> USE DEF nL, k, z
      <4> QED BY <4>4, Zenon
    <3>3. End(p) = e + m
      <4>1. pos = l
        BY <2>19 DEF Size
      <4>2. Off(L, nL) = e + m
        <5> HIDE DEF x, e, l
        <5> QED BY <2>5, <2>13, <2>19, <4>1
      <4>3. p.out - 1 = nL /\ Off(L, nL) \in Nat
        BY <1>3, <3>2
      <4>4. End(p) = Off(L, nL) + 0
        BY <3>2, <4>3 DEF End
      <4> HIDE DEF e
      <4> QED BY <4>2, <4>3, <4>4
    <3>4. p.in_pos + p.in_size = End(p)
      <4>1. b.in_pos \in Nat /\ b.in_size \in Nat /\ e \in Nat
        BY <1>3
      <4>2. p.in_pos = b.in_pos /\ p.in_size = b.in_size + m /\ b.in_pos + b.in_size = e
        BY <2>18, <3>2, Zenon
      <4> DEFINE z == p.in_size
                 v == b.in_size
                 y == b.in_pos
      <4>3. y \in Nat /\ v \in Nat /\ e \in Nat /\ z = v + m /\ y + v = e /\ m \in Nat
        BY <1>2, <4>1, <4>2
      <4> HIDE DEF e, y, v, z
      <4>4. y + z = e + m
        BY <4>3
      <4> USE DEF y, v, z
      <4> QED BY <3>3, <4>2, <4>4, Zenon
    <3>5. AtEnd(p) /\ p.out \in 1..(Len(p.list) + 1)
      BY <1>3, <3>2 DEF AtEnd
    <3>6. Shaped(C, p)
      BY <2>18, <3>2, <3>4, <3>5 DEF Shaped, Size
    <3> QED BY <3>2, <3>3, <3>6
  <2>20. CASE ~(at = nL /\ pos = Size(b, at))
    <3>1. p = [b EXCEPT !.out = at, !.out_pos = pos, !.in_size = b.in_size + m]
      BY <1>1, <1>5, <2>16, <2>20
    <3>2. /\ p.list = L /\ p.out = at /\ p.out_pos = pos /\ p.out_end = oe /\ p.in_size = b.in_size + m
          /\ p.in_pos = b.in_pos
          /\ p \in [list : Seq(Seq(C)), out : Nat, in_pos : Nat, out_pos : Nat, out_end : Nat, in_size : Nat]
      <4>1. b.in_size + m \in Nat
        BY <1>2, <1>3, SMTT(30)
      <4> QED BY <2>4, <2>13, <2>17, <3>1, <4>1
    <3>3. End(p) = e + m
      BY <2>13, <3>2 DEF End
    <3>4. p.in_pos + p.in_size = End(p)
      <4>1. b.in_pos \in Nat /\ b.in_size \in Nat /\ e \in Nat
        BY <1>3
      <4>2. p.in_pos = b.in_pos /\ p.in_size = b.in_size + m /\ b.in_pos + b.in_size = e
        BY <2>18, <3>2, Zenon
      <4> DEFINE z == p.in_size
                 v == b.in_size
                 y == b.in_pos
      <4>3. y \in Nat /\ v \in Nat /\ e \in Nat /\ z = v + m /\ y + v = e /\ m \in Nat
        BY <1>2, <4>1, <4>2
      <4> HIDE DEF e, y, v, z
      <4>4. y + z = e + m
        BY <4>3
      <4> USE DEF y, v, z
      <4> QED BY <3>3, <4>2, <4>4, Zenon
    <3>5. ~AtEnd(p) /\ p.out \in 1..(Len(p.list) + 1)
      <4>1. ~(at > nL) /\ at \in 1..(nL + 1)
        <5> HIDE DEF nL, o
        <5> QED BY <2>4
      <4> QED BY <3>2, <4>1 DEF AtEnd
    <3>6. pos < l
      <4>1. ~(at = nL /\ pos = l)
        BY <2>20 DEF Size
      <4> HIDE DEF l, nL, oe
      <4> QED BY <2>5, <2>13, <2>14, <2>15, <4>1
    <3>7. at = 1 => b.in_pos <= pos
      <4>1. at = 1 => o = 1 /\ at = o
        <5>1. o >= 1
          BY <1>3
        <5> HIDE DEF o, nL
        <5> QED BY <2>4, <5>1
      <4>2. at = 1 => b.in_pos <= op /\ g = op
        BY <2>1, <2>6, <4>1
      <4>3. b.in_pos \in Nat /\ op \in Nat
        BY <1>3
      <4> HIDE DEF op, g
      <4> QED BY <2>6, <2>10, <2>13, <4>2, <4>3
    <3>8. /\ p.out_pos < Size(p, p.out)
          /\ p.out_end <= Size(p, Len(p.list))
          /\ p.out = 1 => p.in_pos <= p.out_pos
          /\ p.out = Len(p.list) => p.out_pos <= p.out_end
      BY <2>1, <2>15, <3>2, <3>6, <3>7 DEF Size
    <3>9. p.list # <<>> /\ p.in_pos < Size(p, 1) /\ \A i \in 1..Len(p.list) : Len(p.list[i]) > 0
      BY <2>18, <3>2 DEF Size
    <3>10. Shaped(C, p)
      BY <3>2, <3>4, <3>5, <3>8, <3>9, Zenon DEF Shaped
    <3> QED BY <3>2, <3>3, <3>10
  <2> QED BY <2>19, <2>20
<1> QED BY <1>4, <1>5

-----------------------------------------------------------------------------
\* prepare(n), a write of s into what it returned, and commit(Len(s)).
Written(b, s, n, alloc) == Commit(Fill(Prepare(b, n, alloc), s), Len(s))

\* prepare(n), a write of at most n bytes into the buffers it returned and the
\* commit of them put these bytes behind the ones a streambuf holds, and leave it
\* in shape, whatever allocations it is made of (basic_streambuf::prepare and
\* commit).
THEOREM WriteAppends ==
  ASSUME NEW C, NEW b, NEW n, NEW alloc, Prepares(C, b, n, alloc), NEW s \in Seq(C), Len(s) <= n
  PROVE  /\ Shaped(C, Written(b, s, n, alloc))
         /\ View(Written(b, s, n, alloc)) = View(b) \o s
         /\ Written(b, s, n, alloc).in_size = b.in_size + Len(s)
<1> DEFINE p == Prepare(b, n, alloc)
           f == Fill(p, s)
           c == Commit(f, Len(s))
<1>1. Shaped(C, b) /\ n \in Nat /\ Len(s) \in Nat
  BY DEF Prepares
<1>2. /\ Shaped(C, p) /\ View(p) = View(b) /\ p.in_size = b.in_size /\ HasPrepared(p, n)
  BY PrepareGrows
<1> HIDE DEF p
<1>3. Fills(C, p, s, n)
  BY <1>1, <1>2 DEF Fills
<1>4. /\ Shaped(C, f) /\ HasPrepared(f, n) /\ View(f) = View(p) /\ End(f) = End(p)
      /\ f.in_size = p.in_size /\ f.in_pos = p.in_pos
      /\ \A q \in 1..Off(p.list, Len(p.list)) :
              Flat(f.list)[q] = IF q > End(p) /\ q - End(p) <= Len(s) THEN s[q - End(p)]
                                ELSE Flat(p.list)[q]
  BY <1>3, FillWrites
<1> HIDE DEF f
<1>5. Commits(C, f, Len(s), n)
  BY <1>1, <1>4 DEF Commits
<1>6. /\ Shaped(C, c) /\ c.list = f.list /\ c.in_pos = f.in_pos /\ c.in_size = f.in_size + Len(s)
  BY <1>5, CommitMoves
<1> HIDE DEF c
<1>7. End(p) + n <= Off(p.list, Len(p.list))
  BY <1>1, <1>2, PreparedFits
<1> DEFINE z == p.in_size
           a == p.in_pos
           e == End(p)
           o == Off(p.list, Len(p.list))
           l == Len(s)
<1>8. z \in Nat /\ a \in Nat /\ e \in Nat /\ o \in Nat /\ l \in Nat
  BY <1>1, <1>2, ShapedFacts, 0 \in Nat
<1>9. a + z = e
  BY <1>2 DEF Shaped
<1>10. View(p) \in Seq(C) /\ Len(View(p)) = z /\ \A i \in Nat : i >= 1 /\ i <= z => View(p)[i] = Flat(p.list)[a + i]
  BY <1>2, DataIs
<1>11. View(c) \in Seq(C) /\ Len(View(c)) = z + l /\ \A i \in Nat : i >= 1 /\ i <= z + l => View(c)[i] = Flat(f.list)[a + i]
  <2>1. View(c) \in Seq(C) /\ Len(View(c)) = c.in_size
        /\ \A i \in Nat : i >= 1 /\ i <= c.in_size => View(c)[i] = Flat(c.list)[c.in_pos + i]
    BY <1>6, DataIs
  <2> QED BY <1>4, <1>6, <2>1
<1>12. e + l <= o
  <2>1. e + n <= o
    BY <1>7
  <2> HIDE DEF e, o
  <2> QED BY <1>1, <1>8, <2>1
<1>13. ASSUME NEW i \in 1..(z + l) PROVE View(c)[i] = (View(p) \o s)[i]
  <2>1. View(c)[i] = Flat(f.list)[a + i]
    <3> HIDE DEF z, l, a
    <3> QED BY <1>8, <1>11
  <2>2. a + i \in 1..o
    <3> HIDE DEF z, l, a, e, o
    <3> QED BY <1>8, <1>9, <1>12
  <2>3. Flat(f.list)[a + i] = IF a + i > e /\ (a + i) - e <= l THEN s[(a + i) - e] ELSE Flat(p.list)[a + i]
    BY <1>4, <2>2
  <2>4. CASE i <= z
    <3>1. ~(a + i > e) /\ i \in Nat /\ i >= 1
      <4> HIDE DEF z, l, a, e
      <4> QED BY <1>8, <1>9, <2>4
    <3>2. (View(p) \o s)[i] = View(p)[i]
      BY <1>10, <2>4, <3>1, ConcatAt
    <3>3. View(p)[i] = Flat(p.list)[a + i]
      BY <1>10, <2>4, <3>1
    <3> QED BY <2>1, <2>3, <3>1, <3>2, <3>3
  <2>5. CASE ~(i <= z)
    <3>1. a + i > e /\ (a + i) - e <= l /\ (a + i) - e = i - z /\ i - z \in Nat /\ i - z >= 1 /\ i - z <= l /\ z + (i - z) = i
      <4> HIDE DEF z, l, a, e
      <4> QED BY <1>8, <1>9, <2>5
    <3>2. (View(p) \o s)[z + (i - z)] = s[i - z]
      <4>1. \A k \in Nat : k >= 1 /\ k <= l => (View(p) \o s)[z + k] = s[k]
        BY <1>10, ConcatAt
      <4> QED BY <3>1, <4>1
    <3> QED BY <2>1, <2>3, <3>1, <3>2
  <2> QED BY <2>4, <2>5
<1>14. (View(p) \o s) \in Seq(C) /\ Len(View(p) \o s) = z + l
  BY <1>10, SMTT(30)
<1>15. View(c) = View(p) \o s
  <2> DEFINE y == z + l
             v == View(c)
             w == View(p) \o s
  <2>1. v \in Seq(C) /\ w \in Seq(C) /\ Len(v) = y /\ Len(w) = y
    BY <1>11, <1>14
  <2>2. \A i \in 1..y : v[i] = w[i]
    BY <1>13
  <2> HIDE DEF y, v, w
  <2>3. v = w
    BY <2>1, <2>2
  <2> USE DEF v, w
  <2> QED BY <2>3, Zenon
<1>16. c.in_size = b.in_size + l
  BY <1>2, <1>4, <1>6
<1> USE DEF c, f, p
<1>17. Written(b, s, n, alloc) = c
  BY DEF Written
<1> HIDE DEF c, f, p
<1> QED BY <1>2, <1>6, <1>15, <1>16, <1>17

-----------------------------------------------------------------------------
\* A set of numbers from 1 that holds what is below its members is counted by
\* its last one.
LEMMA CountUp ==
  ASSUME NEW m \in Nat, NEW H \in SUBSET (1..m), \A j \in H : \A i \in 1..j : i \in H
  PROVE  \E g \in 0..m : H = 1..g /\ Cardinality(H) = g
<1> DEFINE T == {j \in 1..(m+1) : j \notin H}
<1>1. m + 1 \in T /\ T \in SUBSET Nat
  OBVIOUS
<1>2. PICK k \in T : \A j \in T : k <= j
  BY <1>1, LeastNat
<1>3. k \in 1..(m+1) /\ k \notin H
  BY <1>2
<1>4. ASSUME NEW j \in 1..(k-1) PROVE j \in H
  <2>1. j \in 1..(m+1) /\ ~(k <= j)
    BY <1>3
  <2>2. j \notin T
    BY <1>2, <2>1
  <2> QED BY <2>1, <2>2
<1>5. ASSUME NEW j \in H PROVE j \in 1..(k-1)
  <2>1. j \in 1..m /\ (k \in 1..j => k \in H)
    OBVIOUS
  <2> QED BY <1>3, <2>1
<1> DEFINE g == k - 1
<1>6. H = 1..g /\ g \in 0..m /\ g \in Nat
  <2>1. g \in 0..m /\ g \in Nat
    BY <1>3
  <2>2. \A j : j \in H <=> j \in 1..g
    BY <1>4, <1>5
  <2> HIDE DEF g
  <2> QED BY <2>1, <2>2
<1>7. Cardinality(1..g) = g
  <2> HIDE DEF g
  <2>1. 1 \in Int /\ g \in Int /\ (1 > g => g = 0) /\ (g - 1) + 1 = g
    BY <1>6
  <2>2. Cardinality(1..g) = IF 1 > g THEN 0 ELSE (g - 1) + 1
    BY <2>1, FS_Interval
  <2> QED BY <2>1, <2>2
<1> QED BY <1>6, <1>7

\* The elements that consume(n) frees.
Gone(b, n) == Cardinality({j \in 1..(b.out-1) : Held(b, j) <= n})

\* They end at or before n, and the next one does not.
LEMMA GoneIs ==
  ASSUME NEW C, NEW b, Shaped(C, b), NEW n \in Nat
  PROVE  /\ Gone(b, n) \in 0..(b.out - 1)
         /\ Gone(b, n) > 0 => Off(b.list, Gone(b, n)) - b.in_pos <= n
         /\ Gone(b, n) < b.out - 1 => Off(b.list, Gone(b, n) + 1) - b.in_pos > n
<1> DEFINE L == b.list
           o == b.out
           ip == b.in_pos
           H == {j \in 1..(o-1) : Held(b, j) <= n}
<1>1. L \in Seq(Seq(C)) /\ o \in Nat /\ o >= 1 /\ o <= Len(L) + 1 /\ ip \in Nat /\ Len(L) \in Nat
  BY ShapedFacts
<1>2. \A j \in 0..Len(L) : Off(L, j) \in Nat
  BY ShapedFacts
<1>3. ASSUME NEW j \in 1..(o-1) PROVE Held(b, j) = Off(L, j) - ip /\ j \in 1..Len(L) /\ Off(L, j) \in Nat
  <2>1. j \in 0..Len(L) /\ j # 0 /\ j \in 1..Len(L)
    <3> HIDE DEF o, L
    <3> QED BY <1>1
  <2> QED BY <1>2, <2>1, HeldIs
<1>4. ASSUME NEW j \in H, NEW i \in 1..j PROVE i \in H
  <2>1. j \in 1..(o-1) /\ Held(b, j) <= n
    OBVIOUS
  <2>2. i \in 1..(o-1) /\ i \in 0..Len(L) /\ j \in i..Len(L)
    <3>1. j \in 1..Len(L)
      BY <1>3, <2>1
    <3> HIDE DEF o, L, H
    <3> QED BY <1>1, <2>1, <3>1
  <2>3. Off(L, i) <= Off(L, j)
    BY <1>1, <2>2, OffUp
  <2>4. Held(b, i) = Off(L, i) - ip /\ Held(b, j) = Off(L, j) - ip /\ Off(L, i) \in Nat /\ Off(L, j) \in Nat
    BY <1>3, <2>1, <2>2
  <2>5. Held(b, i) <= n
    <3> DEFINE x == Off(L, i)
               y == Off(L, j)
    <3>1. x <= y /\ x \in Nat /\ y \in Nat /\ y - ip <= n
      BY <2>1, <2>3, <2>4
    <3> HIDE DEF x, y, ip
    <3>2. x - ip <= n
      BY <1>1, <3>1
    <3> USE DEF x
    <3> QED BY <2>4, <3>2
  <2> QED BY <2>2, <2>5
<1>5. o - 1 \in Nat /\ H \in SUBSET (1..(o-1))
  <2>1. o - 1 \in Nat
    BY <1>1
  <2> QED BY <2>1
<1> DEFINE z == o - 1
<1>6. \E g \in 0..z : H = 1..g /\ Cardinality(H) = g
  <2> HIDE DEF H, z
  <2>1. z \in Nat /\ H \in SUBSET (1..z)
    BY <1>5 DEF z
  <2> QED BY <1>4, <2>1, CountUp
<1>7. PICK g \in 0..z : H = 1..g /\ Cardinality(H) = g
  BY <1>6
<1>8. Gone(b, n) = g
  BY <1>7 DEF Gone
<1>9. ASSUME g > 0 PROVE Off(L, g) - ip <= n
  <2>1. g \in H
    BY <1>7, <1>9
  <2>2. g \in 1..(o-1) /\ Held(b, g) <= n
    BY <2>1
  <2> QED BY <1>3, <2>2
<1>10. ASSUME g < z PROVE Off(L, g + 1) - ip > n
  <2>1. g + 1 \in 1..(o-1) /\ g + 1 \notin 1..g
    <3> HIDE DEF H
    <3> QED BY <1>1, <1>7, <1>10
  <2>2. ~(Held(b, g + 1) <= n)
    BY <1>7, <2>1
  <2>3. Held(b, g + 1) = Off(L, g + 1) - ip /\ Off(L, g + 1) \in Nat
    BY <1>3, <2>1
  <2> DEFINE x == Off(L, g + 1)
  <2> HIDE DEF H, x, ip, z
  <2> QED BY <1>1, <2>2, <2>3
<1> HIDE DEF H
<1> QED BY <1>7, <1>8, <1>9, <1>10

-----------------------------------------------------------------------------

\* A call of consume(n).
Consumes(C, b, n) == Shaped(C, b) /\ n \in Nat

\* The first g elements are freed, and the data begins at byte pos of the rest.
Drops(C, b, c, g, pos) ==
  /\ Shaped(C, b) /\ g \in Nat /\ g <= b.out - 1 /\ b.list # <<>> /\ pos \in Nat
  /\ c = [b EXCEPT !.list = SubSeq(b.list, g + 1, Len(b.list)), !.out = @ - g,
                   !.in_pos = pos, !.in_size = End(b) - (Off(b.list, g) + pos)]
  /\ Off(b.list, g) + pos <= End(b)
  /\ g < Len(b.list) /\ Off(b.list, g) + pos < Off(b.list, g + 1)

\* M is what is left behind g elements.
LeavesBehind(C, b, g, M) ==
  /\ M \in Seq(Seq(C)) /\ Len(M) \in Nat /\ Len(M) = Len(b.list) - g
  /\ \A i \in 1..Len(M) : M[i] = b.list[g + i] /\ Len(M[i]) > 0
  /\ \A i \in 0..Len(M) : Off(M, i) = Off(b.list, g + i) - Off(b.list, g)
  /\ \A p \in 1..Off(M, Len(M)) : Flat(M)[p] = Flat(b.list)[Off(b.list, g) + p]

\* It is, indeed.
LEMMA Behind ==
  ASSUME NEW C, NEW b, Shaped(C, b), NEW g \in Nat, g <= b.out - 1
  PROVE  LeavesBehind(C, b, g, SubSeq(b.list, g + 1, Len(b.list)))
<1> DEFINE L == b.list
           nL == Len(L)
           M == SubSeq(L, g + 1, nL)
<1>1. L \in Seq(Seq(C)) /\ nL \in Nat /\ b.out \in Nat /\ b.out <= nL + 1
  BY ShapedFacts
<1>2. g <= nL
  <2> HIDE DEF nL
  <2> QED BY <1>1
<1>3. M \in Seq(Seq(C)) /\ Len(M) = nL - g /\ \A i \in Nat : i >= 1 /\ i <= nL - g => M[i] = L[g + i]
  <2>1. L \in Seq(Seq(C)) /\ g \in Nat /\ nL \in Nat /\ g <= nL /\ nL <= Len(L)
    BY <1>1, <1>2
  <2>2. /\ SubSeq(L, g + 1, nL) \in Seq(Seq(C))
        /\ Len(SubSeq(L, g + 1, nL)) = nL - g
        /\ \A i \in Nat : i >= 1 /\ i <= nL - g => SubSeq(L, g + 1, nL)[i] = L[g + i]
    BY <2>1, CutOut
  <2> QED BY <2>2
<1> HIDE DEF M
<1>4. \A i \in 1..Len(M) : M[i] = L[g + i]
  <2> HIDE DEF nL, L
  <2> QED BY <1>1, <1>2, <1>3
<1>5. g \in 0..Len(L) /\ Len(M) = Len(L) - g
  BY <1>1, <1>2, <1>3
<1>6. /\ \A i \in 0..Len(M) : Off(M, i) = Off(L, g + i) - Off(L, g)
      /\ \A p \in 1..Off(M, Len(M)) : Flat(M)[p] = Flat(L)[Off(L, g) + p]
  <2> HIDE DEF L, nL
  <2>1. L \in Seq(Seq(C)) /\ M \in Seq(Seq(C))
    BY <1>1, <1>3
  <2> QED BY <1>4, <1>5, <2>1, TailParts
<1>7. ASSUME NEW i \in 1..Len(M) PROVE Len(M[i]) > 0
  <2>1. g + i \in 1..nL
    <3> HIDE DEF nL
    <3> QED BY <1>1, <1>2, <1>3
  <2>2. Len(L[g + i]) > 0
    BY <2>1 DEF Shaped
  <2> QED BY <1>4, <2>2
<1>8. Len(M) \in Nat
  BY <1>1, <1>2, <1>3
<1>9. LeavesBehind(C, b, g, M)
  BY <1>3, <1>4, <1>6, <1>7, <1>8 DEF LeavesBehind
<1> QED BY <1>9 DEF M

\* A streambuf without its first elements is in shape still.
LEMMA DropsWell ==
  ASSUME NEW C, NEW b, NEW c, NEW g, NEW pos, Drops(C, b, c, g, pos)
  PROVE  /\ Shaped(C, c)
         /\ c.in_size = End(b) - (Off(b.list, g) + pos)
         /\ \A i \in Nat : i >= 1 /\ i <= c.in_size =>
              View(c)[i] = Flat(b.list)[(Off(b.list, g) + pos) + i]
<1> DEFINE L == b.list
           nL == Len(L)
           o == b.out
           e == End(b)
           x == Off(L, g)
           M == SubSeq(L, g + 1, nL)
           z == e - (x + pos)
<1>1. Shaped(C, b) /\ g \in Nat /\ g <= o - 1 /\ L # <<>> /\ pos \in Nat
  BY DEF Drops
<1>2. c = [b EXCEPT !.list = M, !.out = o - g, !.in_pos = pos, !.in_size = z]
  BY DEF Drops
<1>3. x + pos <= e /\ g < nL /\ x + pos < Off(L, g + 1)
  BY DEF Drops
<1>4. o \in Nat /\ nL \in Nat /\ o >= 1 /\ o <= nL + 1 /\ e \in Nat /\ b.out_pos \in Nat
  BY <1>1, ShapedFacts
<1>5. g \in 0..Len(L) /\ g + 0 = g
  <2>1. g \in 0..nL /\ g + 0 = g
    <3> HIDE DEF o, nL
    <3> QED BY <1>1, <1>4
  <2> QED BY <2>1
<1>6. x \in Nat
  BY <1>1, <1>5, ShapedFacts
<1>7. z \in Nat
  <2> HIDE DEF e, x
  <2> QED BY <1>1, <1>3, <1>4, <1>6
<1>8. o - g \in Nat /\ o - g >= 1
  <2> HIDE DEF o
  <2> QED BY <1>1, <1>4
<1>9. /\ M \in Seq(Seq(C)) /\ Len(M) \in Nat /\ Len(M) = nL - g
      /\ \A i \in 1..Len(M) : M[i] = L[g + i] /\ Len(M[i]) > 0
      /\ \A i \in 0..Len(M) : Off(M, i) = Off(L, g + i) - x
      /\ \A p \in 1..Off(M, Len(M)) : Flat(M)[p] = Flat(L)[x + p]
  <2>1. LeavesBehind(C, b, g, M)
    BY <1>1, Behind, Zenon
  <2> HIDE DEF M
  <2> QED BY <2>1 DEF LeavesBehind
<1>10. /\ c.list = M /\ c.out = o - g /\ c.in_pos = pos /\ c.in_size = z
       /\ c.out_pos = b.out_pos /\ c.out_end = b.out_end
       /\ c \in [list : Seq(Seq(C)), out : Nat, in_pos : Nat, out_pos : Nat, out_end : Nat, in_size : Nat]
  <2>1. b \in [list : Seq(Seq(C)), out : Nat, in_pos : Nat, out_pos : Nat, out_end : Nat, in_size : Nat]
    BY <1>1 DEF Shaped
  <2> DEFINE k == o - g
  <2>2. k \in Nat /\ M \in Seq(Seq(C)) /\ c = [b EXCEPT !.list = M, !.out = k, !.in_pos = pos, !.in_size = z]
    BY <1>2, <1>8, <1>9
  <2> HIDE DEF k, z, M
  <2>3. /\ c.list = M /\ c.out = k /\ c.in_pos = pos /\ c.in_size = z
        /\ c.out_pos = b.out_pos /\ c.out_end = b.out_end
        /\ c \in [list : Seq(Seq(C)), out : Nat, in_pos : Nat, out_pos : Nat, out_end : Nat, in_size : Nat]
    BY <1>1, <1>7, <2>1, <2>2
  <2> USE DEF k
  <2> QED BY <2>3
<1> HIDE DEF M
<1>11. End(c) = e - x
  <2> DEFINE k == (o - g) - 1
             y == Off(L, o - 1)
  <2>1. k \in 0..Len(M) /\ g + k = o - 1
    <3>1. Len(M) = nL - g
      BY <1>9
    <3> HIDE DEF nL, o
    <3> QED BY <1>1, <1>4, <1>8, <3>1
  <2>2. Off(M, k) = y - x
    <3>1. Off(M, k) = Off(L, g + k) - x
      <4> HIDE DEF k, x
      <4> QED BY <1>9, <2>1
    <3> QED BY <2>1, <3>1
  <2>3. End(c) = Off(M, k) + b.out_pos
    BY <1>10 DEF End
  <2>4. e = y + b.out_pos /\ y \in Nat
    BY <1>1, ShapedFacts
  <2> DEFINE op == b.out_pos
             m == Off(M, k)
  <2>5. m = y - x /\ End(c) = m + op /\ e = y + op /\ y \in Nat /\ op \in Nat
    BY <1>4, <2>2, <2>3, <2>4
  <2> HIDE DEF y, x, e, m, op
  <2> QED BY <1>6, <2>5
<1>12. c.in_pos + c.in_size = End(c)
  <2>1. pos + z = e - x
    <3> HIDE DEF e, x
    <3> QED BY <1>1, <1>4, <1>6
  <2> QED BY <1>10, <1>11, <2>1
<1>13. AtEnd(c) <=> AtEnd(b)
  <2>1. (o - g > nL - g) <=> (o > nL)
    <3> HIDE DEF o, nL
    <3> QED BY <1>1, <1>4
  <2>2. AtEnd(c) <=> (o - g > nL - g)
    BY <1>9, <1>10 DEF AtEnd
  <2> QED BY <2>1, <2>2 DEF AtEnd
<1>15. 1 \in 1..Len(M) /\ g + 1 \in 1..nL /\ M # <<>>
  <2>3. Len(M) = nL - g /\ (M = <<>> => Len(M) = 0)
    BY <1>9
  <2> HIDE DEF nL
  <2> QED BY <1>1, <1>3, <1>4, <2>3
<1>16. Off(L, g + 1) = x + Len(L[g + 1]) /\ Len(L[g + 1]) \in Nat
  <2>1. (g + 1) - 1 = g
    BY <1>1
  <2>2. Off(L, g + 1) = Off(L, (g + 1) - 1) + Len(L[g + 1]) /\ Len(L[g + 1]) \in Nat
    BY <1>1, <1>15, ShapedFacts
  <2> QED BY <2>1, <2>2
<1>17. ASSUME ~AtEnd(b), g = o - 1
       PROVE  x + pos <= x + b.out_pos
  <2>1. e = x + b.out_pos
    BY <1>17 DEF End
  <2> QED BY <1>3, <2>1
<1>18. pos < Len(M[1])
  <2> DEFINE l == Len(L[g + 1])
  <2>1. Len(M[1]) = l
    BY <1>9, <1>15
  <2>2. x + pos < x + l /\ l \in Nat
    BY <1>3, <1>16
  <2>3. pos < l
    <3> HIDE DEF x, l
    <3> QED BY <1>1, <1>6, <2>2
  <2> QED BY <2>1, <2>3
<1>19. ASSUME ~AtEnd(b)
       PROVE  /\ c.out_pos < Size(c, c.out)
              /\ c.out_end <= Size(c, Len(c.list))
              /\ c.out = 1 => c.in_pos <= c.out_pos
              /\ c.out = Len(c.list) => c.out_pos <= c.out_end
  <2>1. /\ b.out_pos < Len(L[o]) /\ b.out_end <= Len(L[nL])
        /\ o = nL => b.out_pos <= b.out_end
    BY <1>1, <1>19 DEF Shaped, Size
  <2>2. o <= nL
    <3>1. ~(o > nL)
      BY <1>19 DEF AtEnd
    <3> HIDE DEF o, nL
    <3> QED BY <1>4, <3>1
  <2>3. Len(M) = nL - g
    BY <1>9
  <2>4. o - g \in 1..Len(M) /\ nL - g \in 1..Len(M) /\ g + (o - g) = o /\ g + (nL - g) = nL
        /\ (o - g = 1 => g = o - 1) /\ (o - g = nL - g => o = nL)
    <3> HIDE DEF o, nL
    <3> QED BY <1>1, <1>4, <2>2, <2>3
  <2>5. M[o - g] = L[o] /\ M[nL - g] = L[nL]
    <3>1. M[o - g] = L[g + (o - g)] /\ M[nL - g] = L[g + (nL - g)]
      BY <1>9, <2>4
    <3> QED BY <2>4, <3>1
  <2>6. Size(c, c.out) = Len(L[o]) /\ Size(c, Len(c.list)) = Len(L[nL])
    BY <1>10, <2>3, <2>5 DEF Size
  <2>7. c.out = 1 => c.in_pos <= c.out_pos
    <3>1. ASSUME c.out = 1 PROVE pos <= b.out_pos
      <4>1. g = o - 1
        BY <1>10, <2>4, <3>1
      <4>2. x + pos <= x + b.out_pos
        BY <1>17, <1>19, <4>1
      <4> DEFINE op == b.out_pos
      <4>3. x + pos <= x + op /\ op \in Nat
        BY <1>4, <4>2
      <4>4. pos <= op
        <5> HIDE DEF x, op
        <5> QED BY <1>1, <1>6, <4>3
      <4> QED BY <4>4
    <3> QED BY <1>10, <3>1
  <2>8. c.out = Len(c.list) => c.out_pos <= c.out_end
    BY <1>10, <2>1, <2>3, <2>4
  <2> QED BY <1>10, <2>1, <2>6, <2>7, <2>8
<1>20. c.out \in 1..(Len(c.list) + 1)
  <2>1. o - g \in 1..((nL - g) + 1)
    <3> HIDE DEF o, nL
    <3> QED BY <1>1, <1>4, <1>8
  <2> QED BY <1>9, <1>10, <2>1
<1>21. Shaped(C, c)
  <2>1. \A i \in 1..Len(c.list) : Len(c.list[i]) > 0
    BY <1>9, <1>10
  <2>2. c.list # <<>> /\ c.in_pos < Size(c, 1)
    BY <1>10, <1>15, <1>18 DEF Size
  <2>3. AtEnd(c) => c.out_pos = 0 /\ c.out_end = 0
    <3>1. AtEnd(b) => b.out_pos = 0 /\ b.out_end = 0
      BY <1>1 DEF Shaped
    <3> QED BY <1>10, <1>13, <3>1
  <2>4. c \in [list : Seq(Seq(C)), out : Nat, in_pos : Nat, out_pos : Nat, out_end : Nat, in_size : Nat]
    BY <1>10
  <2> QED BY <1>12, <1>13, <1>19, <1>20, <2>1, <2>2, <2>3, <2>4, Zenon DEF Shaped
<1>22. ASSUME NEW i \in Nat, i >= 1, i <= c.in_size
       PROVE  View(c)[i] = Flat(L)[(x + pos) + i]
  <2>1. View(c)[i] = Flat(M)[pos + i]
    <3>1. View(c)[i] = Flat(c.list)[c.in_pos + i]
      BY <1>21, <1>22, DataIs
    <3> QED BY <1>10, <3>1
  <2>2. e - x <= Off(M, Len(M)) /\ Off(M, Len(M)) \in Nat
    <3>1. End(c) <= Off(c.list, Len(c.list)) /\ Off(c.list, Len(c.list)) \in Nat
      <4>1. Len(c.list) \in 0..Len(c.list)
        BY <1>9, <1>10
      <4> QED BY <1>21, <4>1, ShapedFacts
    <3> QED BY <1>10, <1>11, <3>1
  <2> DEFINE w == Off(M, Len(M))
  <2>3. pos + i \in 1..w /\ x + (pos + i) = (x + pos) + i
    <3>1. i <= z /\ e - x <= w /\ w \in Nat
      BY <1>10, <1>22, <2>2
    <3> HIDE DEF x, e, w
    <3> QED BY <1>1, <1>4, <1>6, <1>22, <3>1
  <2>4. Flat(M)[pos + i] = Flat(L)[x + (pos + i)]
    BY <1>9, <2>3
  <2> QED BY <2>1, <2>3, <2>4
<1> QED BY <1>10, <1>21, <1>22

\* consume(n) drops the first n bytes of a streambuf, all of them when there are
\* fewer, and leaves it in shape, whatever allocations it frees
\* (basic_streambuf::consume).
THEOREM ConsumeDrops ==
  ASSUME NEW C, NEW b, NEW n, Consumes(C, b, n), NEW p, p = Consume(b, n)
  PROVE  /\ Shaped(C, p)
         /\ View(p) = SubSeq(View(b), n + 1, b.in_size)
         /\ p.in_size = IF n <= b.in_size THEN b.in_size - n ELSE 0
<1> DEFINE L == b.list
           nL == Len(L)
           o == b.out
           e == End(b)
           ip == b.in_pos
           op == b.out_pos
           z == b.in_size
           V == View(b)
<1>1. Shaped(C, b) /\ n \in Nat
  BY DEF Consumes
<1>2. /\ o \in Nat /\ nL \in Nat /\ o >= 1 /\ o <= nL + 1 /\ e \in Nat /\ op \in Nat /\ ip \in Nat
      /\ z \in Nat
  BY <1>1, ShapedFacts
<1>3. ip + z = e
  BY <1>1 DEF Shaped
<1>4. V \in Seq(C) /\ Len(V) = z
  BY <1>1, DataIs
<1>5. z <= n => SubSeq(V, n + 1, z) = <<>>
  <2> HIDE DEF V, z
  <2> QED BY <1>1, <1>2, <1>4
<1>6. ASSUME Shaped(C, p), p.in_size = 0, z <= n
      PROVE  View(p) = SubSeq(V, n + 1, z) /\ p.in_size = IF n <= z THEN z - n ELSE 0
  <2>1. View(p) \in Seq(C) /\ Len(View(p)) = 0
    BY <1>6, DataIs
  <2>2. View(p) = <<>>
    BY <2>1
  <2>3. n <= z => z - n = 0
    <3> HIDE DEF z
    <3> QED BY <1>1, <1>2, <1>6
  <2> QED BY <1>5, <1>6, <2>2, <2>3
<1>7. CASE L = <<>>
  <2>1. p = b /\ b = EmptyBuf
    BY <1>1, <1>7 DEF Consume, Shaped
  <2>2. p.in_size = 0 /\ z = 0
    BY <2>1 DEF EmptyBuf
  <2>3. z <= n
    BY <1>1, <2>2
  <2> QED BY <1>1, <1>6, <2>1, <2>2, <2>3
<1>8. CASE L # <<>>
  <2> DEFINE g == Gone(b, n)
             x == Off(L, g)
             from == IF g = 0 THEN ip ELSE 0
             rest == n - Held(b, g)
             M == SubSeq(L, g + 1, nL)
             c == [b EXCEPT !.list = M, !.out = o - g, !.in_pos = from + rest,
                            !.in_size = z - n]
  <2>1. p = IF g < o - 1 \/ (~AtEnd(b) /\ rest < op - from) THEN c
            ELSE IF ~AtEnd(b) /\ (o # nL \/ op # b.out_end)
              THEN [c EXCEPT !.in_pos = op, !.in_size = 0]
              ELSE [c EXCEPT !.in_pos = 0, !.out_pos = 0, !.out_end = 0, !.in_size = 0]
    BY <1>8 DEF Consume, Gone
  <2>2. /\ g \in 0..(o - 1)
        /\ g > 0 => Off(L, g) - ip <= n
        /\ g < o - 1 => Off(L, g + 1) - ip > n
    BY <1>1, GoneIs
  <2> HIDE DEF g
  <2>3. g \in Nat /\ g <= o - 1 /\ g <= nL /\ g \in 0..nL
    <3> HIDE DEF o, nL
    <3> QED BY <1>2, <2>2
  <2>4. x \in Nat /\ (g = 0 => x = 0) /\ Held(b, g) = IF g = 0 THEN 0 ELSE x - ip
    BY <1>1, <2>3, ShapedFacts, HeldIs
  <2>5. rest = n - (IF g = 0 THEN 0 ELSE x - ip)
    BY <2>4
  <2> HIDE DEF rest
  <2>6. x + (from + rest) = ip + n /\ rest >= 0 /\ rest \in Nat /\ from \in Nat
    <3>1. g > 0 => x - ip <= n
      BY <2>2
    <3> HIDE DEF x, ip
    <3> QED BY <1>1, <1>2, <2>3, <2>4, <2>5, <3>1
  <2>7. g = o - 1 => e = x + op
    BY DEF End
  <2>8. ASSUME g < o - 1
        PROVE  g < nL /\ ip + n < Off(L, g + 1) /\ Off(L, g + 1) <= e
    <3>1. g < nL /\ g + 1 \in 0..nL /\ o - 1 \in (g+1)..nL /\ o - 1 \in 0..nL
      <4> HIDE DEF o, nL
      <4> QED BY <1>2, <2>3, <2>8
    <3>2. Off(L, g + 1) <= Off(L, o - 1) /\ Off(L, g + 1) \in Nat
      <4>1. L \in Seq(Seq(C))
        BY <1>1, ShapedFacts
      <4>2. g + 1 \in 0..Len(L) /\ o - 1 \in (g+1)..Len(L)
        BY <3>1
      <4>3. Off(L, g + 1) <= Off(L, o - 1)
        <5> HIDE DEF L, o
        <5> QED BY <4>1, <4>2, OffUp
      <4>4. Off(L, g + 1) \in Nat
        BY <1>1, <3>1, ShapedFacts
      <4> QED BY <4>3, <4>4
    <3> DEFINE y == Off(L, g + 1)
               w == Off(L, o - 1)
    <3>3. e = w + op /\ w \in Nat /\ y <= w /\ y \in Nat /\ y - ip > n
      BY <1>1, <2>2, <2>8, <3>2, ShapedFacts
    <3>4. ip + n < y /\ y <= e
      <4> HIDE DEF y, w, e, ip, op
      <4> QED BY <1>1, <1>2, <3>3
    <3> QED BY <3>1, <3>4
  <2> DEFINE pos == from + rest
  <2>9. CASE g < o - 1 \/ (~AtEnd(b) /\ rest < op - from)
    <3>1. p = c
      BY <2>1, <2>9
    <3>2. pos \in Nat
      <4> HIDE DEF from
      <4> QED BY <2>6
    <3>3. x + pos <= e /\ g < nL /\ x + pos < Off(L, g + 1) /\ n <= z
      <4>1. CASE g < o - 1
        <5>1. g < nL /\ ip + n < Off(L, g + 1) /\ Off(L, g + 1) <= e
          BY <2>8, <4>1
        <5>2. Off(L, g + 1) \in Nat
          <6>1. g + 1 \in 0..nL
            <7> HIDE DEF nL
            <7> QED BY <1>2, <2>3, <5>1
          <6> QED BY <1>1, <6>1, ShapedFacts
        <5> DEFINE y == Off(L, g + 1)
        <5>3. x + pos = ip + n
          BY <2>6
        <5>4. ip + n < y /\ y <= e /\ y \in Nat
          BY <5>1, <5>2
        <5>5. ip + n <= e /\ n <= z
          <6> HIDE DEF y, e, ip, z
          <6> QED BY <1>1, <1>2, <1>3, <5>4
        <5> QED BY <5>1, <5>3, <5>5
      <4>2. CASE ~(g < o - 1)
        <5>1. g = o - 1 /\ ~AtEnd(b) /\ rest < op - from
          <6>1. g = o - 1
            <7> HIDE DEF o
            <7> QED BY <1>2, <2>3, <4>2
          <6> QED BY <2>9, <4>2, <6>1
        <5>2. e = x + op
          BY <2>7, <5>1
        <5>3. x + pos < x + op
          <6> HIDE DEF from, op, x
          <6> QED BY <1>2, <2>4, <2>6, <5>1
        <5>4. o \in 1..nL /\ g < nL /\ g + 1 = o
          <6>1. ~(o > nL)
            BY <5>1 DEF AtEnd
          <6> HIDE DEF o, nL
          <6> QED BY <1>2, <5>1, <6>1
        <5>5. e < Off(L, o)
          BY <1>1, <5>1, EndInFront
        <5>6. Off(L, o) \in Nat
          <6>1. o \in 0..nL
            BY <5>4
          <6> QED BY <1>1, <6>1, ShapedFacts
        <5> DEFINE y == Off(L, o)
        <5>7. x + pos = ip + n /\ x + pos < e /\ e < y /\ y \in Nat
          BY <2>6, <5>2, <5>3, <5>5, <5>6
        <5>8. ip + n < e
          BY <5>7
        <5>9. n <= z
          <6> HIDE DEF e, ip, z
          <6> QED BY <1>1, <1>2, <1>3, <5>8
        <5>10. x + pos <= e /\ x + pos < y
          <6> DEFINE k == x + pos
          <6>1. k = ip + n /\ k < e /\ e < y
            BY <5>7
          <6>2. k \in Nat
            <7> HIDE DEF k, ip
            <7> QED BY <1>1, <1>2, <6>1
          <6>3. k <= e /\ k < y
            <7> HIDE DEF k, e, y
            <7> QED BY <1>2, <5>7, <6>1, <6>2
          <6> QED BY <6>3
        <5> QED BY <5>4, <5>9, <5>10
      <4> QED BY <4>1, <4>2
    <3>4. z - n = e - (x + pos)
      <4>1. x + pos = ip + n
        BY <2>6
      <4>2. z - n = e - (ip + n)
        <5> HIDE DEF z, e, ip
        <5> QED BY <1>1, <1>2, <1>3
      <4> QED BY <4>1, <4>2
    <3>5. Drops(C, b, c, g, pos)
      BY <1>1, <1>8, <2>3, <3>2, <3>3, <3>4 DEF Drops
    <3>6. Shaped(C, p) /\ p.in_size = z - n /\ z - n \in Nat
          /\ \A i \in Nat : i >= 1 /\ i <= z - n => View(p)[i] = Flat(L)[(ip + n) + i]
      <4>1. /\ Shaped(C, c) /\ c.in_size = e - (x + pos)
            /\ \A i \in Nat : i >= 1 /\ i <= c.in_size => View(c)[i] = Flat(L)[(x + pos) + i]
        <5> HIDE DEF c, pos
        <5>1. /\ Shaped(C, c) /\ c.in_size = End(b) - (Off(b.list, g) + pos)
              /\ \A i \in Nat : i >= 1 /\ i <= c.in_size =>
                   View(c)[i] = Flat(b.list)[(Off(b.list, g) + pos) + i]
          BY <3>5, DropsWell
        <5> QED BY <5>1
      <4>2. x + pos = ip + n
        BY <2>6
      <4>3. z - n \in Nat
        <5> HIDE DEF z
        <5> QED BY <1>1, <1>2, <3>3
      <4> HIDE DEF c, pos
      <4> QED BY <3>1, <3>4, <4>1, <4>2, <4>3
    <3> DEFINE v == View(p)
               t == SubSeq(V, n + 1, z)
               y == z - n
    <3>7. v \in Seq(C) /\ Len(v) = y
      BY <3>6, DataIs
    <3>8. t \in Seq(C) /\ Len(t) = y /\ \A i \in Nat : i >= 1 /\ i <= y => t[i] = V[n + i]
      <4>1. V \in Seq(C) /\ n \in Nat /\ z \in Nat /\ n <= z /\ z <= Len(V)
        <5> HIDE DEF V, z
        <5> QED BY <1>1, <1>2, <1>4, <3>3
      <4> HIDE DEF V, z, t
      <4>2. /\ SubSeq(V, n + 1, z) \in Seq(C)
            /\ Len(SubSeq(V, n + 1, z)) = z - n
            /\ \A i \in Nat : i >= 1 /\ i <= z - n => SubSeq(V, n + 1, z)[i] = V[n + i]
        BY <4>1, CutOut
      <4> USE DEF t
      <4> QED BY <4>2, Zenon
    <3>9. ASSUME NEW i \in 1..y PROVE v[i] = t[i]
      <4>1. i \in Nat /\ i >= 1 /\ i <= y /\ n + i \in Nat /\ n + i >= 1 /\ n + i <= z /\ ip + (n + i) = (ip + n) + i
        <5>1. y \in Nat
          BY <3>6
        <5> HIDE DEF z, ip
        <5> QED BY <1>1, <1>2, <3>3, <5>1
      <4>2. v[i] = Flat(L)[(ip + n) + i]
        BY <3>6, <4>1
      <4>3. V[n + i] = Flat(L)[ip + (n + i)]
        BY <1>1, <4>1, DataIs
      <4>4. t[i] = V[n + i]
        <5> HIDE DEF t, V, y
        <5> QED BY <3>8, <4>1
      <4> QED BY <4>1, <4>2, <4>3, <4>4
    <3>10. v = t
      <4> HIDE DEF v, t, y
      <4> QED BY <3>7, <3>8, <3>9, SeqEqual
    <3> QED BY <3>3, <3>6, <3>10
  <2>10. CASE ~(g < o - 1 \/ (~AtEnd(b) /\ rest < op - from))
    <3>1. g = o - 1 /\ e = x + op
      <4>1. g = o - 1
        <5> HIDE DEF o
        <5> QED BY <1>2, <2>3, <2>10
      <4> QED BY <2>7, <4>1
    <3>2. AtEnd(b) => op = 0
      BY <1>1 DEF Shaped
    <3>3. z <= n
      <4>1. op <= from + rest
        <5>1. ~AtEnd(b) => ~(rest < op - from)
          BY <2>10
        <5> HIDE DEF op, from
        <5> QED BY <1>2, <2>6, <3>2, <5>1
      <4>2. x + op <= x + pos /\ x + pos = ip + n
        <5> HIDE DEF op, from, x
        <5> QED BY <1>2, <2>4, <2>6, <4>1
      <4>3. e <= ip + n
        BY <3>1, <4>2
      <4> HIDE DEF z, e, ip
      <4> QED BY <1>1, <1>2, <1>3, <4>3
    <3>4. CASE ~AtEnd(b) /\ (o # nL \/ op # b.out_end)
      <4>1. p = [c EXCEPT !.in_pos = op, !.in_size = 0]
        BY <2>1, <2>10, <3>4
      <4>2. e - (x + op) = 0
        <5>1. x + op = e
          BY <3>1
        <5> HIDE DEF e
        <5> QED BY <1>2, <5>1
      <4>3. p = [b EXCEPT !.list = M, !.out = o - g, !.in_pos = op, !.in_size = e - (x + op)]
        BY <4>1, <4>2
      <4>4. o \in 1..nL /\ g < nL /\ g + 1 = o
        <5>1. ~(o > nL)
          BY <3>4 DEF AtEnd
        <5> HIDE DEF o, nL
        <5> QED BY <1>2, <3>1, <5>1
      <4>5. e < Off(L, o)
        BY <1>1, <3>4, EndInFront
      <4>6. e <= e
        <5> HIDE DEF e
        <5> QED BY <1>2
      <4>7. x + op <= e /\ x + op < Off(L, g + 1)
        BY <3>1, <4>4, <4>5, <4>6
      <4>8. Drops(C, b, p, g, op)
        BY <1>1, <1>2, <1>8, <2>3, <4>3, <4>4, <4>7 DEF Drops
      <4>9. Shaped(C, p) /\ p.in_size = 0
        BY <4>2, <4>8, DropsWell
      <4> QED BY <1>6, <3>3, <4>9
    <3>5. CASE ~(~AtEnd(b) /\ (o # nL \/ op # b.out_end))
      <4>1. p = [c EXCEPT !.in_pos = 0, !.out_pos = 0, !.out_end = 0, !.in_size = 0]
        BY <2>1, <2>10, <3>5
      <4>2. p = [b EXCEPT !.list = M, !.out = o - g, !.in_pos = 0, !.out_pos = 0, !.out_end = 0, !.in_size = 0]
        BY <4>1
      <4>3. o - g = 1
        <5> HIDE DEF o
        <5> QED BY <1>2, <3>1
      <4>4. /\ M \in Seq(Seq(C)) /\ Len(M) \in Nat /\ Len(M) = nL - g
            /\ \A i \in 1..Len(M) : Len(M[i]) > 0
        <5>1. LeavesBehind(C, b, g, M)
          BY <1>1, <2>3, Behind, Zenon
        <5> HIDE DEF M
        <5> QED BY <5>1 DEF LeavesBehind
      <4>5. b \in [list : Seq(Seq(C)), out : Nat, in_pos : Nat, out_pos : Nat, out_end : Nat, in_size : Nat]
        BY <1>1 DEF Shaped
      <4> HIDE DEF M
      <4>6. /\ p.list = M /\ p.out = 1 /\ p.in_pos = 0 /\ p.out_pos = 0 /\ p.out_end = 0 /\ p.in_size = 0
            /\ p \in [list : Seq(Seq(C)), out : Nat, in_pos : Nat, out_pos : Nat, out_end : Nat, in_size : Nat]
        <5>1. p = [b EXCEPT !.list = M, !.out = 1, !.in_pos = 0, !.out_pos = 0, !.out_end = 0, !.in_size = 0]
          BY <4>2, <4>3
        <5>2. M \in Seq(Seq(C))
          BY <4>4
        <5> HIDE DEF L, o, c
        <5>3. p \in [list : Seq(Seq(C)), out : Nat, in_pos : Nat, out_pos : Nat, out_end : Nat, in_size : Nat]
          <6>1. 0 \in Nat /\ 1 \in Nat
            OBVIOUS
          <6> QED BY <4>5, <5>1, <5>2, <6>1
        <5>4. /\ p.list = M /\ p.out = 1 /\ p.in_pos = 0
          BY <4>5, <5>1
        <5>5. /\ p.out_pos = 0 /\ p.out_end = 0 /\ p.in_size = 0
          BY <4>5, <5>1
        <5> QED BY <5>3, <5>4, <5>5
      <4>7. End(p) = 0
        <5>1. p.out - 1 = 0
          BY <4>6
        <5>2. Off(M, 0) = 0
          BY <4>4, OffStep
        <5> QED BY <4>6, <5>1, <5>2 DEF End
      <4>8. M = <<>> => p = EmptyBuf
        <5>1. DOMAIN p = {"list", "out", "in_pos", "out_pos", "out_end", "in_size"}
          BY <4>6
        <5>2. M = <<>> => p = [list |-> <<>>, out |-> 1, in_pos |-> 0, out_pos |-> 0, out_end |-> 0, in_size |-> 0]
          BY <4>6, <5>1
        <5> QED BY <5>2 DEF EmptyBuf
      <4>9. M # <<>> => 0 < Len(M[1]) /\ 1 <= Len(M)
        <5>1. M # <<>> => Len(M) # 0
          BY <4>4
        <5>2. M # <<>> => 1 \in 1..Len(M)
          BY <4>4, <5>1
        <5> QED BY <4>4, <5>2
      <4>10. ~AtEnd(p) => Len(M) = 1 /\ M # <<>>
        <5>1. ~AtEnd(p) => ~(1 > Len(M))
          BY <4>6 DEF AtEnd
        <5>2. Len(M) <= 1
          <6>1. ASSUME AtEnd(b) PROVE nL - g <= 1
            <7>1. o > nL
              BY <6>1 DEF AtEnd
            <7> HIDE DEF o, nL
            <7> QED BY <1>2, <3>1, <7>1
          <6>2. ASSUME ~AtEnd(b) PROVE nL - g <= 1
            <7>1. o = nL
              BY <3>5, <6>2
            <7> HIDE DEF o, nL
            <7> QED BY <1>2, <3>1, <7>1
          <6> QED BY <4>4, <6>1, <6>2
        <5>3. M = <<>> => Len(M) = 0
          OBVIOUS
        <5> QED BY <4>4, <5>1, <5>2, <5>3
      <4>11. ~AtEnd(p) => /\ p.out_pos < Size(p, p.out)
                          /\ p.out_end <= Size(p, Len(p.list))
                          /\ p.out = 1 => p.in_pos <= p.out_pos
                          /\ p.out = Len(p.list) => p.out_pos <= p.out_end
        <5>1. ASSUME ~AtEnd(p) PROVE 0 < Len(M[1]) /\ Len(M) = 1
          BY <4>9, <4>10, <5>1
        <5>2. ASSUME ~AtEnd(p) PROVE 0 <= Len(M[1])
          <6>1. Len(M[1]) \in Nat
            <7>1. 1 \in 1..Len(M)
              BY <4>10, <5>2
            <7> QED BY <4>4, <7>1
          <6> QED BY <6>1
        <5> QED BY <4>6, <5>1, <5>2 DEF Size
      <4>12. p.in_pos + p.in_size = End(p) /\ p.out \in 1..(Len(p.list) + 1)
        BY <4>4, <4>6, <4>7
      <4>13. (p.list = <<>> => p = EmptyBuf) /\ (p.list # <<>> => p.in_pos < Size(p, 1))
             /\ (\A i \in 1..Len(p.list) : Len(p.list[i]) > 0)
             /\ (AtEnd(p) => p.out_pos = 0 /\ p.out_end = 0)
        BY <4>4, <4>6, <4>8, <4>9 DEF Size
      <4>14. Shaped(C, p)
        BY <4>6, <4>11, <4>12, <4>13, Zenon DEF Shaped
      <4> QED BY <1>6, <3>3, <4>6, <4>14
    <3> QED BY <3>4, <3>5
  <2> QED BY <2>9, <2>10
<1> QED BY <1>7, <1>8

-----------------------------------------------------------------------------
(* buffers_adapter.                                                        *)

\* The room behind byte op of part o, up to the end of part j.
Ahead(L, o, op, j) == SumFunction([i \in o..j |-> Len(L[i]) - (IF i = o THEN op ELSE 0)])

\* Part o has op cells, or o is behind the last part.
Cursor(C, L, o, op) ==
  /\ L \in Seq(Seq(C)) /\ o \in Nat /\ o >= 1 /\ o <= Len(L) + 1 /\ op \in Nat
  /\ o <= Len(L) => op <= Len(L[o])
  /\ o = Len(L) + 1 => op = 0

\* The number of cells before such a place.
Place(L, o, op) == Off(L, o - 1) + op

\* A cursor, the parts, and the room ahead of it.
LEMMA CursorFacts ==
  ASSUME NEW C, NEW L, NEW o, NEW op, Cursor(C, L, o, op)
  PROVE  /\ L \in Seq(Seq(C)) /\ Len(L) \in Nat /\ o \in Nat /\ op \in Nat /\ o >= 1 /\ o <= Len(L) + 1
         /\ \A j \in 0..Len(L) : Off(L, j) \in Nat
         /\ \A j \in 1..Len(L) : Off(L, j) = Off(L, j-1) + Len(L[j]) /\ Len(L[j]) \in Nat
         /\ Off(L, o - 1) \in Nat /\ Place(L, o, op) = Off(L, o - 1) + op /\ Place(L, o, op) \in Nat
         /\ Place(L, o, op) <= Off(L, Len(L))
         /\ \A j \in (o - 1)..Len(L) :
              Ahead(L, o, op, j) = IF j = o - 1 THEN 0 ELSE Off(L, j) - Place(L, o, op)
         /\ \A j \in o..Len(L) : Place(L, o, op) <= Off(L, j)
         /\ \A j \in 0..(o - 1) : Off(L, j) <= Place(L, o, op)
<1> DEFINE nL == Len(L)
           e == Place(L, o, op)
           w == Off(L, o - 1)
<1>1. L \in Seq(Seq(C)) /\ nL \in Nat /\ o \in Nat /\ op \in Nat /\ o >= 1 /\ o <= nL + 1
  BY DEF Cursor
<1>2. /\ \A j \in 0..nL : Off(L, j) \in Nat
      /\ \A j \in 1..nL : Off(L, j) = Off(L, j-1) + Len(L[j])
  BY <1>1, OffStep
<1>3. \A j \in 1..nL : Len(L[j]) \in Nat
  BY <1>1, Parts
<1>4. o - 1 \in 0..nL /\ o - 1 \in 0..Len(L)
  <2>1. o - 1 \in 0..nL
    <3> HIDE DEF nL
    <3> QED BY <1>1
  <2> QED BY <2>1
<1>5. w \in Nat /\ e = w + op /\ e \in Nat
  <2>1. w \in Nat
    BY <1>2, <1>4
  <2>2. e = w + op
    BY DEF Place
  <2> HIDE DEF w, e
  <2> QED BY <1>1, <2>1, <2>2
<1>6. ASSUME NEW j \in o..nL PROVE e <= Off(L, j)
  <2>1. o \in 1..nL /\ o \in 0..nL /\ o <= nL
    <3> HIDE DEF nL
    <3> QED BY <1>1
  <2>2. Off(L, o) = w + Len(L[o]) /\ Len(L[o]) \in Nat /\ op <= Len(L[o])
    BY <1>2, <1>3, <2>1 DEF Cursor
  <2>3. Off(L, o) <= Off(L, j)
    BY <1>1, <2>1, OffUp, Zenon
  <2>4. Off(L, j) \in Nat
    <3>1. j \in 0..nL
      <4> HIDE DEF nL
      <4> QED BY <1>1
    <3> QED BY <1>2, <3>1
  <2> DEFINE l == Len(L[o])
             x == Off(L, j)
             y == Off(L, o)
  <2>5. y = w + l /\ l \in Nat /\ op <= l /\ y <= x /\ x \in Nat
    BY <2>2, <2>3, <2>4
  <2>6. e <= x
    <3> HIDE DEF w, e, l, x, y
    <3> QED BY <1>1, <1>5, <2>5
  <2> QED BY <2>6
<1>7. ASSUME NEW j \in 0..(o - 1) PROVE Off(L, j) <= e
  <2>1. j \in 0..Len(L) /\ o - 1 \in j..Len(L)
    <3>1. j \in 0..nL /\ o - 1 \in j..nL
      <4> HIDE DEF nL
      <4> QED BY <1>1
    <3> QED BY <3>1
  <2>2. Off(L, j) <= w /\ Off(L, j) \in Nat
    BY <1>1, <1>2, <2>1, OffUp, Zenon
  <2> DEFINE x == Off(L, j)
  <2>3. x <= e
    <3> HIDE DEF w, e, x
    <3> QED BY <1>1, <1>5, <2>2 DEF x
  <2> QED BY <2>3
<1>8. e <= Off(L, nL)
  <2>1. CASE o <= nL
    <3>1. nL \in o..nL
      <4> HIDE DEF nL
      <4> QED BY <1>1, <2>1
    <3> QED BY <1>6, <3>1
  <2>2. CASE ~(o <= nL)
    <3>1. o = nL + 1 /\ o - 1 = nL
      <4> HIDE DEF nL
      <4> QED BY <1>1, <2>2
    <3>2. op = 0
      BY <3>1 DEF Cursor
    <3>3. e = Off(L, nL)
      <4>1. e = w
        <5> HIDE DEF e, w
        <5> QED BY <1>5, <3>2
      <4> QED BY <3>1, <4>1
    <3>4. e <= e
      <4> HIDE DEF e
      <4> QED BY <1>5
    <3> QED BY <3>3, <3>4
  <2> QED BY <2>1, <2>2
<1>9. ASSUME NEW j \in (o - 1)..nL
      PROVE  Ahead(L, o, op, j) = IF j = o - 1 THEN 0 ELSE Off(L, j) - e
  <2>1. o \in 1..(Len(L) + 1) /\ j \in (o - 1)..Len(L) /\ op \in Int
    BY <1>1
  <2>2. SumFunction([i \in o..j |-> Len(L[i]) - (IF i = o THEN op ELSE 0)])
          = IF j = o - 1 THEN 0 ELSE Off(L, j) - (Off(L, o - 1) + op)
    BY <1>1, <2>1, SumBetween, Zenon
  <2> QED BY <2>2 DEF Ahead, Place
<1> QED BY <1>1, <1>2, <1>3, <1>5, <1>6, <1>7, <1>8, <1>9

-----------------------------------------------------------------------------
\* The list after s was written behind byte op of part o.
Overwritten(L, o, op, s) ==
  [i \in 1..Len(L) |-> [k \in 1..Len(L[i]) |->
     IF /\ i >= o /\ k > (IF i = o THEN op ELSE 0)
        /\ Ahead(L, o, op, i - 1) + k - (IF i = o THEN op ELSE 0) <= Len(s)
       THEN s[Ahead(L, o, op, i - 1) + k - (IF i = o THEN op ELSE 0)] ELSE L[i][k]]]

\* It holds s there, and what it held elsewhere.
OverwriteGives(C, L, o, op, s, M) ==
  /\ M \in Seq(Seq(C)) /\ Len(M) = Len(L)
  /\ \A i \in 1..Len(L) : Len(M[i]) = Len(L[i])
  /\ \A j \in 0..Len(L) : Off(M, j) = Off(L, j)
  /\ \A q \in 1..Off(L, Len(L)) :
       Flat(M)[q] = IF q > Place(L, o, op) /\ q - Place(L, o, op) <= Len(s)
                      THEN s[q - Place(L, o, op)] ELSE Flat(L)[q]

\* Indeed.
LEMMA OverwriteAt ==
  ASSUME NEW C, NEW L, NEW o, NEW op, Cursor(C, L, o, op), NEW s \in Seq(C),
         NEW M, M = Overwritten(L, o, op, s)
  PROVE  OverwriteGives(C, L, o, op, s, M)
<1> DEFINE from(i) == IF i = o THEN op ELSE 0
           at(i, k) == Ahead(L, o, op, i - 1) + k - from(i)
           new(i, k) == IF i >= o /\ k > from(i) /\ at(i, k) <= Len(s)
                          THEN s[at(i, k)] ELSE L[i][k]
           part(i) == [k \in 1..Len(L[i]) |-> new(i, k)]
           nL == Len(L)
           e == Place(L, o, op)
<1>1. M = [i \in 1..nL |-> part(i)]
  BY DEF Overwritten
<1>2. Len(s) \in Nat
  OBVIOUS
<1>3. /\ L \in Seq(Seq(C)) /\ nL \in Nat
      /\ o \in Nat /\ o >= 1 /\ o <= nL + 1 /\ op \in Nat
      /\ \A j \in 0..nL : Off(L, j) \in Nat
      /\ \A j \in 1..nL : Off(L, j) = Off(L, j-1) + Len(L[j]) /\ Len(L[j]) \in Nat
      /\ e = Off(L, o - 1) + op /\ e \in Nat
      /\ \A j \in o..nL : e <= Off(L, j)
      /\ \A j \in 0..(o-1) : Off(L, j) <= e
      /\ \A j \in (o - 1)..nL : Ahead(L, o, op, j) = IF j = o - 1 THEN 0 ELSE Off(L, j) - e
  BY CursorFacts, SMTT(30)
<1>5. ASSUME NEW i \in 1..nL, NEW k \in 1..Len(L[i])
      PROVE  /\ new(i, k) = IF Off(L, i-1) + k > e /\ (Off(L, i-1) + k) - e <= Len(s)
                              THEN s[(Off(L, i-1) + k) - e] ELSE L[i][k]
             /\ new(i, k) \in C
  <2>1. i \in Nat /\ i >= 1 /\ i <= nL /\ i - 1 \in 0..nL
    BY <1>3
  <2> DEFINE x == Off(L, i-1)
             l == Len(L[i])
             g == from(i)
             r == Ahead(L, o, op, i - 1)
             a == at(i, k)
  <2>0. /\ o \in Nat /\ o >= 1 /\ o <= nL + 1 /\ nL \in Nat /\ e \in Nat /\ op \in Nat
        /\ i \in Nat /\ i >= 1 /\ i <= nL
    BY <1>3, <2>1
  <2>2. x \in Nat /\ l \in Nat /\ k \in Nat /\ k >= 1 /\ k <= l /\ Off(L, i) = x + l
    <3>1. x \in Nat /\ l \in Nat /\ Off(L, i) = x + l
      BY <1>3, <2>1
    <3>2. k \in 1..l
      OBVIOUS
    <3> HIDE DEF x, l
    <3> QED BY <3>1, <3>2
  <2>3. g = (IF i = o THEN op ELSE 0)
    OBVIOUS
  <2>4. ASSUME i >= o PROVE a = (x + k) - e
    <3>1. i - 1 \in (o - 1)..nL
      BY <1>3, <2>1, <2>4
    <3>2. r = IF i - 1 = o - 1 THEN 0 ELSE x - e
      BY <1>3, <3>1
    <3>3. i - 1 = o - 1 <=> i = o
      <4> HIDE DEF nL
      <4> QED BY <2>0
    <3>4. i = o => e = x + op
      BY <1>3
    <3>5. a = r + k - g
      OBVIOUS
    <3> HIDE DEF x, l, g, r, a, e, nL
    <3> QED BY <2>0, <2>2, <2>3, <3>2, <3>3, <3>4, <3>5
  <2>5. i >= o /\ k > g <=> x + k > e
    <3>1. CASE i > o
      <4>1. i - 1 \in o..nL
        <5> HIDE DEF nL
        <5> QED BY <2>0, <3>1
      <4>2. e <= x
        BY <1>3, <4>1
      <4>4. g = 0
        <5> HIDE DEF g, nL
        <5> QED BY <2>0, <2>3, <3>1
      <4> HIDE DEF x, e, g, nL
      <4> QED BY <2>0, <2>2, <3>1, <4>2, <4>4
    <3>2. CASE i = o
      <4>1. e = x + op /\ g = op
        BY <1>3, <2>3, <3>2
      <4> HIDE DEF x, e, g, nL
      <4> QED BY <2>0, <2>2, <3>2, <4>1
    <3>3. CASE i < o
      <4>0. i \in 0..(o - 1)
        <5> HIDE DEF nL
        <5> QED BY <2>0, <3>3
      <4>1. Off(L, i) <= e
        BY <1>3, <4>0
      <4>3. x + l <= e
        BY <2>2, <4>1
      <4> HIDE DEF x, l, e, g, nL
      <4> QED BY <2>0, <2>2, <3>3, <4>3
    <3>4. i < o \/ i = o \/ i > o
      <4> HIDE DEF nL
      <4> QED BY <2>0
    <3> QED BY <3>1, <3>2, <3>3, <3>4
  <2>6. L[i][k] \in C
    <3>1. L[i] \in Seq(C)
      BY <1>3, Parts
    <3> QED BY <3>1
  <2>7. new(i, k) = IF i >= o /\ k > g /\ a <= Len(s) THEN s[a] ELSE L[i][k]
    OBVIOUS
  <2> HIDE DEF new, a, x, g
  <2>8. CASE x + k > e
    <3>1. i >= o /\ k > g /\ a = (x + k) - e
      BY <2>4, <2>5, <2>8
    <3>2. a \in Nat /\ a >= 1
      <4> HIDE DEF e
      <4> QED BY <2>0, <2>2, <2>8, <3>1
    <3>3. a <= Len(s) => s[a] \in C
      <4>1. a <= Len(s) => a \in 1..Len(s)
        BY <1>2, <3>2
      <4> QED BY <1>2, <4>1
    <3> QED BY <2>6, <2>7, <2>8, <3>1, <3>3 DEF x
  <2>9. CASE ~(x + k > e)
    <3>1. ~(i >= o /\ k > g)
      BY <2>5, <2>9
    <3> QED BY <2>6, <2>7, <2>9, <3>1 DEF x
  <2> QED BY <2>8, <2>9
<1> HIDE DEF new
<1>6. ASSUME NEW i \in 1..nL PROVE part(i) \in Seq(C) /\ Len(part(i)) = Len(L[i])
  <2>1. Len(L[i]) \in Nat
    BY <1>3
  <2>2. \A k \in 1..Len(L[i]) : new(i, k) \in C
    BY <1>5
  <2> QED BY <2>1, <2>2
<1> HIDE DEF part
<1>7. M \in Seq(Seq(C)) /\ Len(M) = nL /\ \A i \in 1..nL : M[i] = part(i)
  <2> HIDE DEF nL
  <2> QED BY <1>1, <1>3, <1>6 DEF nL
<1>8. \A i \in 1..nL : Len(M[i]) = Len(L[i])
  BY <1>6, <1>7
<1>9. \A j \in 0..nL : Off(M, j) = Off(L, j)
  <2> TAKE j \in 0..nL
  <2>1. \A i \in 1..j : i \in 1..nL
    BY <1>3
  <2>2. \A i \in 1..j : Len(M[i]) = Len(L[i])
    BY <1>8, <2>1
  <2> QED BY <2>2, OffSame, Zenon
<1>11. ASSUME NEW q \in 1..Off(L, nL)
       PROVE  Flat(M)[q] = IF q > e /\ q - e <= Len(s) THEN s[q - e] ELSE Flat(L)[q]
  <2>1. nL \in 0..Len(L)
    BY <1>3
  <2>2. PICK j \in 1..nL, k \in Nat :
            /\ k >= 1 /\ k <= Len(L[j]) /\ q = Off(L, j-1) + k
            /\ Flat(L)[q] = L[j][k]
    BY <1>3, <2>1, CellAt, ZenonT(40)
  <2>3. k \in 1..Len(L[j]) /\ k \in 1..Len(M[j]) /\ j \in 1..Len(M) /\ j - 1 \in 0..nL
    <3>1. Len(L[j]) \in Nat
      BY <1>3
    <3> QED BY <1>7, <1>8, <2>2, <3>1
  <2>4. Flat(M)[Off(M, j-1) + k] = M[j][k]
    BY <1>7, <2>3, FlatAt, ZenonT(40)
  <2>5. Off(M, j-1) + k = q
    BY <1>9, <2>2, <2>3
  <2>6. M[j][k] = new(j, k)
    BY <1>7, <2>3 DEF part
  <2>7. new(j, k) = IF q > e /\ q - e <= Len(s) THEN s[q - e] ELSE L[j][k]
    <3>1. new(j, k) = IF Off(L, j-1) + k > e /\ (Off(L, j-1) + k) - e <= Len(s)
                        THEN s[(Off(L, j-1) + k) - e] ELSE L[j][k]
      BY <1>5, <2>3
    <3>2. Off(L, j-1) + k = q
      BY <2>2
    <3> DEFINE z == Off(L, j-1) + k
    <3>3. new(j, k) = IF z > e /\ z - e <= Len(s) THEN s[z - e] ELSE L[j][k]
      BY <3>1, Zenon
    <3>4. z = q
      BY <3>2
    <3> HIDE DEF z, e
    <3> QED BY <3>3, <3>4
  <2> HIDE DEF e
  <2> QED BY <2>2, <2>4, <2>5, <2>6, <2>7, Zenon
<1> QED BY <1>7, <1>8, <1>9, <1>11 DEF OverwriteGives

-----------------------------------------------------------------------------
(* buffers_adapter.                                                        *)

\* Where an adapter's data begins,
AStart(b) == Off(b.bs, b.begin - 1) + b.in_pos
\* and where it ends.
AStop(b) == Place(b.bs, b.out, b.out_pos)

\* The fields of a buffers_adapter.
AType(C) ==
  [kind : {"adapter"}, bs : Seq(Seq(C)), begin : Nat, out : Nat, end : Nat, max_size : Int,
   in_pos : Nat, in_size : Nat, out_pos : Nat, out_end : Nat]

\* An adapter as its operations leave it.
Adapted(C, b) ==
  /\ b \in AType(C)
  /\ 1 <= b.begin /\ b.begin <= b.out /\ b.out <= b.end /\ b.end <= Len(b.bs) + 1
  /\ Cursor(C, b.bs, b.out, b.out_pos)
  /\ AStart(b) + b.in_size = AStop(b)
  /\ b.begin < b.out => b.in_pos <= Len(b.bs[b.begin])
  /\ b.out = b.end => b.out_pos = 0

\* What is in it, as one sequence.
AView(b) == SubSeq(Flat(b.bs), AStart(b) + 1, AStop(b))

\* n bytes have been prepared.
APrepared(b, n) ==
  IF b.out = b.end THEN n = 0
  ELSE /\ AStop(b) + n = Off(b.bs, b.end - 2) + b.out_end
       /\ b.out_end <= Len(b.bs[b.end - 1])
       /\ b.out = b.end - 1 => b.out_pos <= b.out_end

\* Its parts, and how its buffers add up.
LEMMA AdaptedFacts ==
  ASSUME NEW C, NEW b, Adapted(C, b)
  PROVE  /\ b.bs \in Seq(Seq(C)) /\ Len(b.bs) \in Nat
         /\ b.begin \in Nat /\ b.out \in Nat /\ b.end \in Nat /\ b.in_pos \in Nat /\ b.in_size \in Nat
         /\ b.out_pos \in Nat /\ b.out_end \in Nat /\ b.max_size \in Int
         /\ 1 <= b.begin /\ b.begin <= b.out /\ b.out <= b.end /\ b.end <= Len(b.bs) + 1
         /\ Cursor(C, b.bs, b.out, b.out_pos)
         /\ Off(b.bs, b.begin - 1) \in Nat
         /\ AStart(b) = Off(b.bs, b.begin - 1) + b.in_pos /\ AStart(b) \in Nat
         /\ AStop(b) \in Nat /\ AStart(b) + b.in_size = AStop(b) /\ AStart(b) <= AStop(b)
         /\ b.in_size = AStop(b) - AStart(b)
         /\ AStop(b) <= Off(b.bs, Len(b.bs)) /\ AStop(b) <= Len(Flat(b.bs))
         /\ Flat(b.bs) \in Seq(C)
         /\ \A j \in (b.out - 1)..Len(b.bs) :
              ARoom(b, j) = IF j = b.out - 1 THEN 0 ELSE Off(b.bs, j) - AStop(b)
<1> DEFINE nL == Len(b.bs)
           w == Off(b.bs, b.begin - 1)
           a == AStart(b)
           e == AStop(b)
           z == b.in_size
           ip == b.in_pos
           h == b.begin
           o == b.out
           t == b.end
<1>1. b.bs \in Seq(Seq(C)) /\ h \in Nat /\ o \in Nat /\ t \in Nat /\ ip \in Nat /\ z \in Nat
      /\ b.out_pos \in Nat /\ b.out_end \in Nat /\ b.max_size \in Int
  BY DEF Adapted, AType
<1>2. 1 <= h /\ h <= o /\ o <= t /\ t <= nL + 1 /\ a + z = e /\ Cursor(C, b.bs, o, b.out_pos)
  BY DEF Adapted
<1>3. nL \in Nat
  BY <1>1
<1>4. /\ \A j \in 0..nL : Off(b.bs, j) \in Nat
      /\ e \in Nat /\ e <= Off(b.bs, nL)
      /\ \A j \in (o - 1)..nL :
              Ahead(b.bs, o, b.out_pos, j) = IF j = o - 1 THEN 0 ELSE Off(b.bs, j) - e
  BY <1>2, CursorFacts, SMTT(30) DEF AStop
<1>5. w \in Nat
  <2>1. h - 1 \in 0..nL
    <3> HIDE DEF nL, h, o, t
    <3> QED BY <1>1, <1>2, <1>3
  <2> QED BY <1>4, <2>1
<1>6. a = w + ip
  BY DEF AStart
<1>7. a \in Nat /\ a <= e /\ z = e - a
  <2> HIDE DEF a, e, z, w, ip
  <2> QED BY <1>1, <1>2, <1>4, <1>5, <1>6
<1>8. Flat(b.bs) \in Seq(C) /\ Len(Flat(b.bs)) = Off(b.bs, nL)
  BY <1>1, FlatAt
<1>9. \A j : ARoom(b, j) = Ahead(b.bs, o, b.out_pos, j)
  BY DEF ARoom, Ahead, AFrom
<1>10. \A j \in (o - 1)..nL : ARoom(b, j) = IF j = o - 1 THEN 0 ELSE Off(b.bs, j) - e
  BY <1>4, <1>9
<1>11. e <= Len(Flat(b.bs))
  BY <1>4, <1>8
<1> QED BY <1>1, <1>2, <1>3, <1>4, <1>5, <1>6, <1>7, <1>8, <1>10, <1>11

\* What is in it, and where.
LEMMA AViewIs ==
  ASSUME NEW C, NEW b, Adapted(C, b)
  PROVE  /\ AView(b) \in Seq(C) /\ Len(AView(b)) = b.in_size
         /\ \A i \in Nat : i >= 1 /\ i <= b.in_size => AView(b)[i] = Flat(b.bs)[AStart(b) + i]
<1> DEFINE F == Flat(b.bs)
           a == AStart(b)
           e == AStop(b)
<1>1. F \in Seq(C) /\ a \in Nat /\ e \in Nat /\ a <= e /\ e <= Len(F) /\ b.in_size = e - a
  BY AdaptedFacts
<1> HIDE DEF F, a, e
<1>2. /\ SubSeq(F, a + 1, e) \in Seq(C) /\ Len(SubSeq(F, a + 1, e)) = e - a
      /\ \A i \in Nat : i >= 1 /\ i <= e - a => SubSeq(F, a + 1, e)[i] = F[a + i]
  BY <1>1, CutOut
<1>3. AView(b) = SubSeq(F, a + 1, e)
  BY DEF AView, F, a, e
<1>4. /\ AView(b) \in Seq(C) /\ Len(AView(b)) = b.in_size
      /\ \A i \in Nat : i >= 1 /\ i <= b.in_size => AView(b)[i] = F[a + i]
  BY <1>1, <1>2, <1>3
<1> QED BY <1>4 DEF F, a

\* data() of an adapter is what lies between in_pos_ and out_pos_.
LEMMA ADataIs ==
  ASSUME NEW C, NEW b, Adapted(C, b)
  PROVE  Flat(AData(b)) = AView(b)
<1> DEFINE L == b.bs
           F == Flat(b.bs)
           h == b.begin
           o == b.out
           nL == Len(L)
           ip == b.in_pos
           op == b.out_pos
           e == AStop(b)
           m == (IF o = b.end THEN b.end ELSE o + 1) - h
           x(j) == IF j = h THEN ip ELSE 0
           z(j) == IF j = o THEN op ELSE Len(L[j])
           D == AData(b)
           P == [i \in 0..m |-> IF i = 0 THEN AStart(b)
                                ELSE IF h + i - 1 = o THEN e ELSE Off(L, h + i - 1)]
<1>1. /\ L \in Seq(Seq(C)) /\ nL \in Nat /\ h \in Nat /\ o \in Nat /\ b.end \in Nat /\ ip \in Nat /\ op \in Nat
      /\ 1 <= h /\ h <= o /\ o <= b.end /\ b.end <= nL + 1
      /\ AStart(b) = Off(L, h - 1) + ip /\ AStart(b) \in Nat /\ e \in Nat /\ AStart(b) <= e
      /\ e <= Len(F) /\ F \in Seq(C)
  BY AdaptedFacts
<1>2. /\ \A j \in 0..nL : Off(L, j) \in Nat
      /\ \A j \in 1..nL : Off(L, j) = Off(L, j-1) + Len(L[j]) /\ Len(L[j]) \in Nat
      /\ \A j \in 1..nL : \A k \in 1..Len(L[j]) : F[Off(L, j-1) + k] = L[j][k]
  BY <1>1, OffStep, Parts, FlatAt
<1>3. /\ e = Off(L, o - 1) + op
      /\ o <= nL => op <= Len(L[o])
      /\ h < o => ip <= Len(L[h])
      /\ o = b.end => op = 0
  BY DEF AStop, Place, Adapted, Cursor
<1>4. m \in Nat /\ (o = b.end => m = o - h) /\ (o # b.end => m = (o + 1) - h /\ o <= nL)
  <2> DEFINE t == b.end
  <2>1. m = (IF o = t THEN t ELSE o + 1) - h
    OBVIOUS
  <2> HIDE DEF h, o, t, nL, m
  <2> QED BY <1>1, <2>1, SMTT(30) DEF t
<1>5. ASSUME NEW i \in 1..m
      PROVE  /\ h + i - 1 \in 1..nL /\ h + i - 1 \in Nat /\ h + i - 1 >= h /\ h + i - 1 <= o
             /\ (h + i - 1) - 1 \in 0..nL /\ (h + i - 1) - 1 = h + (i - 1) - 1
             /\ (h + i - 1 = h <=> i = 1) /\ i - 1 \in 0..m /\ i \in 0..m /\ i # 0
             /\ h + (i - 1) - 1 # o
             /\ h + (i - 1) - 1 = (h + (i - 1)) - 1
  <2> HIDE DEF h, o, nL, m
  <2> QED BY <1>1, <1>4
<1>6. ASSUME NEW i \in 1..m
      PROVE  /\ x(h + i - 1) \in Nat /\ z(h + i - 1) \in Nat
             /\ x(h + i - 1) <= z(h + i - 1) /\ z(h + i - 1) <= Len(L[h + i - 1])
  <2> DEFINE j == h + i - 1
             l == Len(L[j])
  <2>1. j \in 1..nL /\ j \in Nat /\ j >= h /\ j <= o
    BY <1>5
  <2>2. l \in Nat
    BY <1>2, <2>1
  <2>3. j = o => op <= l
    <3>1. j = o => o <= nL
      <4> HIDE DEF j, o, nL
      <4> QED BY <2>1
    <3> QED BY <1>3, <3>1
  <2>4. j = h /\ j < o => ip <= l
    BY <1>3
  <2>5. j = h /\ j = o => ip <= op
    <3>1. ASSUME j = h, j = o PROVE ip <= op
      <4> DEFINE w == Off(L, h - 1)
      <4>1. w \in Nat
        <5>1. h - 1 \in 0..nL
          <6> HIDE DEF h, nL, j
          <6> QED BY <1>1, <2>1, <3>1, SMTT(30)
        <5> QED BY <1>2, <5>1
      <4>2. w + ip <= w + op
        <5>1. e = w + op
          BY <1>3, <3>1
        <5>2. AStart(b) = w + ip /\ AStart(b) <= e
          BY <1>1
        <5> HIDE DEF w, e
        <5> QED BY <5>1, <5>2
      <4> HIDE DEF w, ip, op
      <4> QED BY <1>1, <4>1, <4>2
    <3> QED BY <3>1
  <2> HIDE DEF j, l
  <2>6. x(j) \in Nat /\ z(j) \in Nat /\ x(j) <= z(j) /\ z(j) <= l
    <3>1. Len(L[j]) = l
      BY DEF l
    <3>2. x(j) = IF j = h THEN ip ELSE 0
      OBVIOUS
    <3>3. z(j) = IF j = o THEN op ELSE l
      BY <3>1
    <3> HIDE DEF x, z, h, o, ip, op
    <3> QED BY <1>1, <2>1, <2>2, <2>3, <2>4, <2>5, <3>2, <3>3
  <2> QED BY <2>6 DEF j, l
<1>7. Len(D) = m /\ \A i \in 1..m : D[i] = SubSeq(L[h + i - 1], x(h + i - 1) + 1, z(h + i - 1))
  <2>1. D = [i \in 1..m |-> SubSeq(L[h + i - 1], 1 + x(h + i - 1), z(h + i - 1))]
    BY DEF AData
  <2>2. \A i \in 1..m : 1 + x(h + i - 1) = x(h + i - 1) + 1
    BY <1>6
  <2> DEFINE piece(i) == SubSeq(L[h + i - 1], 1 + x(h + i - 1), z(h + i - 1))
  <2>3. \A i \in 1..m : piece(i) = SubSeq(L[h + i - 1], x(h + i - 1) + 1, z(h + i - 1))
    <3> TAKE i \in 1..m
    <3> DEFINE j == h + i - 1
    <3>1. 1 + x(j) = x(j) + 1
      BY <2>2
    <3> HIDE DEF x, z, j
    <3>2. SubSeq(L[j], 1 + x(j), z(j)) = SubSeq(L[j], x(j) + 1, z(j))
      BY <3>1
    <3> QED BY <3>2 DEF j
  <2>4. D = [i \in 1..m |-> piece(i)]
    BY <2>1
  <2> HIDE DEF D, m, piece
  <2>5. Len(D) = m /\ \A i \in 1..m : D[i] = piece(i)
    BY <1>4, <2>4
  <2> QED BY <2>3, <2>5, Zenon
<1> HIDE DEF D
<1>8. ASSUME NEW i \in 1..m
      PROVE  /\ D[i] \in Seq(C)
             /\ Len(D[i]) = z(h + i - 1) - x(h + i - 1)
             /\ \A k \in Nat : k >= 1 /\ k <= z(h + i - 1) - x(h + i - 1) =>
                  D[i][k] = L[h + i - 1][x(h + i - 1) + k]
  <2> DEFINE j == h + i - 1
             s == L[j]
             u == x(j)
             v == z(j)
  <2>1. s \in Seq(C)
    BY <1>1, <1>5, Parts
  <2>2. u \in Nat /\ v \in Nat /\ u <= v /\ v <= Len(s)
    BY <1>6
  <2>3. D[i] = SubSeq(s, u + 1, v)
    BY <1>7
  <2> HIDE DEF s, u, v
  <2>4. /\ SubSeq(s, u + 1, v) \in Seq(C)
        /\ Len(SubSeq(s, u + 1, v)) = v - u
        /\ \A k \in Nat : k >= 1 /\ k <= v - u => SubSeq(s, u + 1, v)[k] = s[u + k]
    BY <2>1, <2>2, CutOut
  <2>5. /\ D[i] \in Seq(C)
        /\ Len(D[i]) = v - u
        /\ \A k \in Nat : k >= 1 /\ k <= v - u => D[i][k] = s[u + k]
    BY <2>3, <2>4, Zenon
  <2> QED BY <2>5, Zenon DEF s, u, v, j
<1>9. D \in Seq(Seq(C))
  <2>1. D = [i \in 1..m |-> D[i]]
    BY DEF AData, D
  <2> HIDE DEF m
  <2>2. [i \in 1..m |-> D[i]] \in Seq(Seq(C))
    BY <1>4, <1>8
  <2> QED BY <2>1, <2>2, Zenon
<1>10. P[0] = AStart(b)
  BY <1>4
<1>11. P[m] = e
  <2>1. CASE o # b.end
    <3>1. m # 0 /\ m \in 0..m /\ h + m - 1 = o
      <4>1. m = (o + 1) - h
        BY <1>4, <2>1
      <4> HIDE DEF m, o, h
      <4> QED BY <1>1, <1>4, <4>1
    <3> QED BY <3>1
  <2>2. CASE o = b.end /\ m # 0
    <3>1. h + m - 1 = o - 1 /\ o - 1 # o /\ m \in 0..m
      <4>1. m = o - h
        BY <1>4, <2>2
      <4> HIDE DEF m, o, h
      <4> QED BY <1>1, <1>4, <4>1
    <3>2. P[m] = Off(L, o - 1)
      <4>1. P[m] = IF m = 0 THEN AStart(b) ELSE IF h + m - 1 = o THEN e ELSE Off(L, h + m - 1)
        BY <3>1
      <4>2. h + m - 1 # o
        BY <3>1
      <4>3. P[m] = Off(L, h + m - 1)
        BY <2>2, <4>1, <4>2, Zenon
      <4> HIDE DEF P
      <4> QED BY <3>1, <4>3
    <3>3. e = Off(L, o - 1) + 0
      BY <1>3, <2>2
    <3>4. Off(L, o - 1) \in Nat
      <4>1. o - 1 \in 0..nL
        <5> HIDE DEF o, nL, h
        <5> QED BY <1>1
      <4> QED BY <1>2, <4>1
    <3> HIDE DEF P, e
    <3> QED BY <3>2, <3>3, <3>4
  <2>3. CASE o = b.end /\ m = 0
    <3>1. o = h
      <4>1. m = o - h
        BY <1>4, <2>3
      <4> HIDE DEF m, o, h
      <4> QED BY <1>1, <2>3, <4>1
    <3>2. P[m] = AStart(b)
      BY <1>10, <2>3
    <3> DEFINE w == Off(L, h - 1)
    <3>3. AStart(b) = w + ip /\ AStart(b) <= e /\ e = w + op /\ op = 0 /\ w \in Nat
      <4>1. h - 1 \in 0..nL
        <5> HIDE DEF h, nL, o
        <5> QED BY <1>1
      <4>2. w \in Nat
        BY <1>2, <4>1
      <4> QED BY <1>1, <1>3, <2>3, <3>1, <4>2
    <3>4. AStart(b) = e
      <4> HIDE DEF w, e, ip, op
      <4> QED BY <1>1, <3>3
    <3> QED BY <3>2, <3>4
  <2> QED BY <2>1, <2>2, <2>3
<1>12. \A i \in 0..m : P[i] \in Nat
  <2> TAKE i \in 0..m
  <2>1. i # 0 => i \in 1..m
    BY <1>4
  <2>2. i # 0 => h + i - 1 \in 0..nL
    BY <1>1, <1>5, <2>1
  <2>3. i # 0 => Off(L, h + i - 1) \in Nat
    BY <1>2, <2>2
  <2>4. P[i] = IF i = 0 THEN AStart(b) ELSE IF h + i - 1 = o THEN e ELSE Off(L, h + i - 1)
    OBVIOUS
  <2> HIDE DEF P
  <2> QED BY <1>1, <2>3, <2>4
<1>13. ASSUME NEW i \in 1..m
       PROVE  /\ P[i-1] = Off(L, (h + i - 1) - 1) + x(h + i - 1)
              /\ P[i] = Off(L, (h + i - 1) - 1) + z(h + i - 1)
  <2> DEFINE j == h + i - 1
             w == Off(L, j - 1)
  <2>1. j \in 1..nL /\ j - 1 \in 0..nL /\ j - 1 = h + (i - 1) - 1 /\ (j = h <=> i = 1)
        /\ i - 1 \in 0..m /\ i \in 0..m /\ i # 0 /\ h + (i - 1) - 1 # o /\ (i - 1 = 0 <=> i = 1)
    <3>1. i - 1 = 0 <=> i = 1
      OBVIOUS
    <3> QED BY <1>5, <3>1
  <2>2. w \in Nat
    BY <1>2, <2>1
  <2>3. P[i-1] = IF i - 1 = 0 THEN AStart(b) ELSE IF h + (i - 1) - 1 = o THEN e ELSE Off(L, h + (i - 1) - 1)
    BY <2>1
  <2>4. P[i-1] = IF j = h THEN AStart(b) ELSE w
    <3>1. Off(L, h + (i - 1) - 1) = w
      BY <2>1
    <3> HIDE DEF P, j, h, w
    <3> QED BY <2>1, <2>3, <3>1
  <2>5. j = h => AStart(b) = w + ip
    BY <1>1
  <2>6. P[i] = IF j = o THEN e ELSE Off(L, j)
    BY <2>1
  <2>7. j = o => e = w + op
    BY <1>3
  <2>8. Off(L, j) = w + Len(L[j])
    BY <1>2, <2>1
  <2>9. x(j) = (IF j = h THEN ip ELSE 0) /\ z(j) = IF j = o THEN op ELSE Len(L[j])
    OBVIOUS
  <2> HIDE DEF P, j, w, h, o, x, z, e
  <2>10. P[i-1] = w + x(j)
    BY <2>2, <2>4, <2>5, <2>9
  <2>11. P[i] = w + z(j)
    BY <2>6, <2>7, <2>8, <2>9
  <2> QED BY <2>10, <2>11 DEF w, j
<1> HIDE DEF P, m
<1>14. \A i \in 1..m : Len(D[i]) = P[i] - P[i-1]
  <2> TAKE i \in 1..m
  <2> DEFINE w == Off(L, (h + i - 1) - 1)
             u == x(h + i - 1)
             v == z(h + i - 1)
  <2>1. P[i-1] = w + u /\ P[i] = w + v
    BY <1>13
  <2>2. w \in Nat /\ u \in Nat /\ v \in Nat
    <3>1. (h + i - 1) - 1 \in 0..nL
      BY <1>5
    <3>2. w \in Nat
      BY <1>2, <3>1
    <3> QED BY <1>6, <3>2
  <2>3. Len(D[i]) = v - u
    BY <1>8
  <2> HIDE DEF w, u, v
  <2> QED BY <2>1, <2>2, <2>3
<1>15. ASSUME NEW i \in 1..m, NEW k \in Nat, k >= 1, k <= Len(D[i])
       PROVE  D[i][k] = F[P[i-1] + k]
  <2> DEFINE j == h + i - 1
             w == Off(L, j - 1)
             u == x(j)
             v == z(j)
             l == Len(L[j])
  <2>1. P[i-1] = w + u
    BY <1>13
  <2>2. w \in Nat /\ u \in Nat /\ v \in Nat /\ v <= l /\ l \in Nat /\ j \in 1..nL
    <3>1. j - 1 \in 0..nL /\ j \in 1..nL
      BY <1>5
    <3>2. w \in Nat /\ l \in Nat
      BY <1>2, <3>1
    <3> QED BY <1>6, <3>1, <3>2
  <2>3. Len(D[i]) = v - u
    BY <1>8
  <2>4. D[i][k] = L[j][u + k]
    BY <1>8, <1>15, <2>3
  <2> HIDE DEF v, l, u
  <2>5. u + k \in 1..l
    BY <2>2, <2>3, <1>15
  <2>6. F[w + (u + k)] = L[j][u + k]
    BY <1>2, <2>2, <2>5 DEF l
  <2>7. P[i-1] + k = w + (u + k)
    <3> HIDE DEF w
    <3> QED BY <2>1, <2>2
  <2> QED BY <2>4, <2>6, <2>7, Zenon
<1>16. Flat(D) = SubSeq(F, P[0] + 1, P[Len(D)])
  <2>1. D \in Seq(Seq(C)) /\ P[Len(D)] <= Len(F) /\ (\A i \in 0..Len(D) : P[i] \in Nat)
    BY <1>1, <1>7, <1>9, <1>11, <1>12
  <2>2. /\ \A i \in 1..Len(D) : Len(D[i]) = P[i] - P[i-1]
        /\ \A i \in 1..Len(D) : \A k \in Nat : k >= 1 /\ k <= Len(D[i]) => D[i][k] = F[P[i-1] + k]
    BY <1>7, <1>14, <1>15
  <2>3. F \in Seq(C)
    BY <1>1
  <2> HIDE DEF F
  <2> QED BY <2>1, <2>2, <2>3, Pieces
<1>17. Flat(D) = SubSeq(F, AStart(b) + 1, e)
  <2> HIDE DEF F, e
  <2> QED BY <1>7, <1>10, <1>11, <1>16
<1> QED BY <1>17 DEF AView, D

-----------------------------------------------------------------------------
\* The least of the parts from o on for which Q holds, when it holds for the last.
LEMMA FirstOf ==
  ASSUME NEW o \in Nat, NEW t \in Nat, o <= t, NEW T \in SUBSET (o..t), t \in T
  PROVE  \E j \in T : \A i \in o..(j-1) : i \notin T
<1>1. T \in SUBSET Nat /\ T # {}
  OBVIOUS
<1>2. PICK j \in T : \A i \in T : j <= i
  BY <1>1, LeastNat
<1>3. ASSUME NEW i \in o..(j-1) PROVE i \notin T
  <2>1. j \in o..t
    OBVIOUS
  <2>2. ~(j <= i)
    BY <2>1
  <2> QED BY <1>2, <2>2
<1> QED BY <1>3

\* A call of prepare(n) that does not throw.
APrepares(C, b, n) == Adapted(C, b) /\ n \in Nat /\ Fits(b, n)

\* prepare() that does not throw: end_ and out_end_ enclose n bytes.
LEMMA APrepareFits ==
  ASSUME NEW C, NEW b, NEW n, APrepares(C, b, n), NEW p, p = aprepare(b, n)
  PROVE  /\ Adapted(C, p) /\ APrepared(p, n)
         /\ p.bs = b.bs /\ p.begin = b.begin /\ p.in_pos = b.in_pos /\ p.in_size = b.in_size
         /\ p.out = b.out /\ p.out_pos = b.out_pos /\ p.kind = "adapter"
<1> DEFINE L == b.bs
           nL == Len(L)
           o == b.out
           op == b.out_pos
           e == AStop(b)
           A(j) == ARoom(b, j)
<1>1. Adapted(C, b) /\ n \in Nat /\ n <= A(nL)
  BY DEF APrepares, Fits
<1>2. /\ L \in Seq(Seq(C)) /\ nL \in Nat /\ o \in Nat /\ op \in Nat /\ e \in Nat /\ b.begin \in Nat
      /\ 1 <= b.begin /\ b.begin <= o /\ o <= nL + 1
      /\ \A j \in (o - 1)..nL : A(j) = IF j = o - 1 THEN 0 ELSE Off(L, j) - e
  <2>1. /\ L \in Seq(Seq(C)) /\ nL \in Nat /\ o \in Nat /\ op \in Nat /\ e \in Nat /\ b.begin \in Nat
        /\ 1 <= b.begin /\ b.begin <= o /\ o <= b.end /\ b.end <= nL + 1 /\ b.end \in Nat
        /\ \A j \in (o - 1)..nL : A(j) = IF j = o - 1 THEN 0 ELSE Off(L, j) - e
    BY <1>1, AdaptedFacts
  <2>2. o <= nL + 1
    <3> DEFINE t == b.end
    <3>1. o <= t /\ t <= nL + 1 /\ t \in Nat
      BY <2>1
    <3> HIDE DEF o, t, nL
    <3> QED BY <2>1, <3>1
  <2> QED BY <2>1, <2>2
<1>3. b \in AType(C) /\ Cursor(C, L, o, op) /\ AStart(b) + b.in_size = e
      /\ (b.begin < o => b.in_pos <= Len(L[b.begin])) /\ (o = b.end => op = 0)
  BY <1>1 DEF Adapted
<1>4. CASE o > nL
  <2>1. p = [b EXCEPT !.end = o]
    BY <1>4 DEF aprepare
  <2>2. n = 0
    <3>1. nL \in (o - 1)..nL /\ nL = o - 1
      <4> HIDE DEF o, nL
      <4> QED BY <1>2, <1>4
    <3>2. A(nL) = 0
      BY <1>2, <3>1
    <3> HIDE DEF A
    <3> QED BY <1>1, <3>2
  <2>3. /\ p \in AType(C) /\ p.bs = L /\ p.begin = b.begin /\ p.out = o /\ p.out_pos = op /\ p.end = o
        /\ p.in_pos = b.in_pos /\ p.in_size = b.in_size /\ p.kind = "adapter"
    BY <1>2, <1>3, <2>1 DEF AType
  <2>4. op = 0
    <3>1. o = nL + 1
      <4> HIDE DEF o, nL
      <4> QED BY <1>2, <1>4
    <3> QED BY <1>3, <3>1 DEF Cursor
  <2>5. AStart(p) = AStart(b) /\ AStop(p) = e
    BY <2>3 DEF AStart, AStop
  <2>6. o <= o
    BY <1>2
  <2>7. Adapted(C, p)
    BY <1>2, <1>3, <2>3, <2>4, <2>5, <2>6 DEF Adapted
  <2>8. APrepared(p, n)
    BY <2>2, <2>3 DEF APrepared
  <2> QED BY <2>3, <2>7, <2>8
<1>5. CASE ~(o > nL)
  <2> DEFINE last == AWalk(b, n).last
             here == AWalk(b, n).here
             g == AFrom(b, last)
             l == Len(L[last])
             x == Off(L, last - 1)
             T == {j \in o..nL : j = nL \/ n < A(j) \/ (j = o /\ n = A(j))}
  <2>1. p = [b EXCEPT !.end = last + 1, !.out_end = Smaller(l, g + here)]
    BY <1>5 DEF aprepare
  <2>2. \A j \in o..nL : A(j) \in Int
    <3> TAKE j \in o..nL
    <3>1. j \in (o - 1)..nL /\ j # o - 1 /\ j \in 0..nL
      <4> HIDE DEF o, nL
      <4> QED BY <1>2
    <3>2. Off(L, j) \in Nat
      BY <1>2, <3>1, OffStep
    <3> HIDE DEF A, e
    <3> QED BY <1>2, <3>1, <3>2
  <2>3. PICK k \in T : \A i \in o..(k-1) : i \notin T
    <3>1. T \in SUBSET (o..nL) /\ nL \in T /\ o <= nL
      <4>1. o <= nL
        <5> HIDE DEF o, nL
        <5> QED BY <1>2, <1>5
      <4> HIDE DEF A
      <4> QED BY <1>2, <4>1
    <3> HIDE DEF T, o, nL
    <3> QED BY <1>2, <3>1, FirstOf
  <2>4. \A i \in o..(k-1) : n >= A(i) /\ (i = o => n > A(i))
    <3> TAKE i \in o..(k-1)
    <3>1. i \in o..nL /\ i # nL /\ i \notin T
      <4>1. k \in o..nL
        OBVIOUS
      <4> HIDE DEF T
      <4> QED BY <1>2, <2>3, <4>1
    <3>2. ~(n < A(i)) /\ ~(i = o /\ n = A(i)) /\ A(i) \in Int
      BY <2>2, <3>1
    <3> HIDE DEF A
    <3> QED BY <1>1, <3>2
  <2>5. /\ last \in o..nL
        /\ last = nL \/ n < A(last) \/ (last = o /\ n = A(last))
        /\ \A i \in o..(last-1) : n >= A(i) /\ (i = o => n > A(i))
    <3> DEFINE Q(j) == /\ j = nL \/ n < A(j) \/ (j = o /\ n = A(j))
                       /\ \A i \in o..(j-1) : n >= A(i) /\ (i = o => n > A(i))
    <3>1. k \in o..nL /\ Q(k)
      BY <2>4
    <3>2. last = CHOOSE j \in o..nL : Q(j)
      BY DEF AWalk
    <3> HIDE DEF Q
    <3>3. last \in o..nL /\ Q(last)
      BY <3>1, <3>2
    <3> QED BY <3>3 DEF Q
  <2>6. here = n - A(last - 1)
    BY DEF AWalk
  <2> HIDE DEF last, here, T
  <2>7. /\ last \in Nat /\ last >= 1 /\ last >= o /\ last <= nL /\ last \in 1..nL
        /\ last - 1 \in (o-1)..nL /\ last \in (o-1)..nL /\ last # o - 1 /\ last - 1 \in 0..nL
        /\ (last - 1 = o - 1 <=> last = o) /\ (last # o => last - 1 \in o..(last-1))
    <3>1. o \in Nat /\ nL \in Nat /\ o >= 1 /\ last \in o..nL
      BY <1>2, <2>5
    <3> HIDE DEF o, nL
    <3> QED BY <3>1
  <2>8. x \in Nat /\ l \in Nat /\ Off(L, last) = x + l
    BY <1>2, <2>7, OffStep, Parts
  <2>9. g = IF last = o THEN op ELSE 0
    BY DEF AFrom
  <2> DEFINE R == A(last - 1)
  <2>10. R = (IF last = o THEN 0 ELSE x - e) /\ A(last) = Off(L, last) - e
    BY <1>2, <2>7
  <2>11. last = o => e = x + op
    BY DEF AStop, Place
  <2>12. n <= (x + l) - e
    <3>1. n <= A(last)
      <4>1. CASE last = nL
        BY <1>1, <4>1
      <4>2. CASE n < A(last)
        <5>1. A(last) \in Int
          BY <2>2, <2>5
        <5> HIDE DEF A
        <5> QED BY <1>1, <4>2, <5>1
      <4>3. CASE last = o /\ n = A(last)
        <5> HIDE DEF A
        <5> QED BY <1>1, <4>3
      <4> QED BY <2>5, <4>1, <4>2, <4>3
    <3> QED BY <2>8, <2>10, <3>1
  <2>13. R <= n /\ R \in Int
    <3>1. last # o => n >= R
      BY <2>5, <2>7
    <3> HIDE DEF R, x, e, o
    <3> QED BY <1>1, <1>2, <2>8, <2>10, <3>1
  <2>14. here \in Nat /\ here = n - R
    <3> HIDE DEF R
    <3> QED BY <1>1, <2>6, <2>13 DEF R
  <2>15. g + here \in Nat /\ g + here <= l /\ e + n = x + (g + here)
    <3> HIDE DEF R, x, e, o, op, g, l
    <3> QED BY <1>1, <1>2, <2>8, <2>9, <2>10, <2>11, <2>12, <2>14
  <2>16. Smaller(l, g + here) = g + here
    <3> HIDE DEF l, g
    <3> QED BY <2>8, <2>15 DEF Smaller
  <2> DEFINE q == g + here
             t == last + 1
  <2>17. /\ p \in AType(C) /\ p.bs = L /\ p.begin = b.begin /\ p.out = o /\ p.out_pos = op /\ p.end = t
         /\ p.out_end = q
         /\ p.in_pos = b.in_pos /\ p.in_size = b.in_size /\ p.kind = "adapter"
    <3>1. p = [b EXCEPT !.end = t, !.out_end = q] /\ t \in Nat /\ q \in Nat
      <4>1. p = [b EXCEPT !.end = t, !.out_end = q]
        BY <2>1, <2>16, Zenon
      <4>2. last \in Nat /\ q \in Nat
        BY <2>7, <2>15
      <4> HIDE DEF q
      <4> QED BY <4>1, <4>2
    <3> HIDE DEF t, q
    <3> QED BY <1>3, <3>1 DEF AType
  <2>18. AStart(p) = AStart(b) /\ AStop(p) = e
    BY <2>17 DEF AStart, AStop
  <2>19. o <= t /\ t <= nL + 1 /\ o # t /\ t - 2 = last - 1 /\ t - 1 = last
    <3> HIDE DEF o, nL
    <3> QED BY <1>2, <2>7
  <2>20. Adapted(C, p)
    <3> HIDE DEF t, q
    <3> QED BY <1>2, <1>3, <2>17, <2>18, <2>19 DEF Adapted
  <2>21. APrepared(p, n)
    <3>1. o = last => op <= q
      <4> HIDE DEF op, g, o
      <4> QED BY <1>2, <2>9, <2>14
    <3>2. AStop(p) + n = Off(L, t - 2) + q
      BY <2>15, <2>18, <2>19
    <3>3. q <= Len(L[t - 1])
      BY <2>15, <2>19
    <3> HIDE DEF t, q
    <3> QED BY <2>17, <2>19, <3>1, <3>2, <3>3 DEF APrepared
  <2> QED BY <2>17, <2>20, <2>21
<1> QED BY <1>4, <1>5

\* The view depends on the cells and the two ends only.
LEMMA ASameView ==
  ASSUME NEW C, NEW b, NEW p, p.bs = b.bs, p.begin = b.begin, p.in_pos = b.in_pos,
         p.out = b.out, p.out_pos = b.out_pos
  PROVE  AView(p) = AView(b) /\ AStart(p) = AStart(b) /\ AStop(p) = AStop(b)
BY DEF AView, AStart, AStop

\* What was prepared is there.
LEMMA APreparedFits ==
  ASSUME NEW C, NEW b, Adapted(C, b), NEW n \in Nat, APrepared(b, n)
  PROVE  AStop(b) + n <= Off(b.bs, Len(b.bs))
<1> DEFINE L == b.bs
           nL == Len(L)
           o == b.out
           t == b.end
           e == AStop(b)
<1>1. L \in Seq(Seq(C)) /\ nL \in Nat /\ o \in Nat /\ t \in Nat /\ 1 <= o /\ o <= t /\ t <= nL + 1 /\ e \in Nat
      /\ e <= Off(L, nL)
  <2>1. /\ L \in Seq(Seq(C)) /\ nL \in Nat /\ o \in Nat /\ t \in Nat /\ o <= t /\ t <= nL + 1 /\ e \in Nat
        /\ e <= Off(L, nL) /\ Cursor(C, L, o, b.out_pos)
    BY AdaptedFacts
  <2>2. 1 <= o
    BY <2>1, CursorFacts
  <2> QED BY <2>1, <2>2
<1>2. CASE o = t
  <2>1. n = 0
    BY <1>2 DEF APrepared
  <2>2. e + n <= Off(L, nL)
    <3>1. e + n = e
      <4> HIDE DEF e
      <4> QED BY <1>1, <2>1
    <3> QED BY <1>1, <3>1
  <2> QED BY <2>2
<1>3. CASE o # t
  <2>1. t - 2 \in 0..nL /\ t - 1 \in 1..nL /\ (t - 1) - 1 = t - 2 /\ t - 1 \in 0..nL /\ nL \in (t-1)..nL
    <3> HIDE DEF o, t, nL
    <3> QED BY <1>1, <1>3
  <2> DEFINE x == Off(L, t - 2)
             l == Len(L[t - 1])
             y == Off(L, t - 1)
             w == Off(L, nL)
  <2>2. e + n = x + b.out_end /\ b.out_end <= l
    BY <1>3 DEF APrepared
  <2>3. y = x + l /\ x \in Nat /\ l \in Nat
    <3>1. Off(L, t - 1) = Off(L, (t - 1) - 1) + Len(L[t - 1])
      BY <1>1, <2>1, OffStep
    <3>2. x \in Nat /\ l \in Nat
      BY <1>1, <2>1, OffStep, Parts
    <3> QED BY <2>1, <3>1, <3>2
  <2>4. y <= w /\ w \in Nat
    <3>1. t - 1 \in 0..Len(L) /\ nL \in (t-1)..Len(L) /\ nL \in 0..Len(L)
      <4>1. nL \in 0..nL
        <5> HIDE DEF nL
        <5> QED BY <1>1
      <4> QED BY <2>1, <4>1
    <3> QED BY <1>1, <3>1, OffUp, OffStep
  <2> DEFINE oe == b.out_end
  <2>5. oe \in Nat /\ e + n = x + oe /\ oe <= l
    BY <2>2, AdaptedFacts
  <2>6. e + n <= w
    <3> HIDE DEF x, l, y, w, oe, e
    <3> QED BY <1>1, <2>3, <2>4, <2>5
  <2> QED BY <2>6
<1> QED BY <1>2, <1>3

-----------------------------------------------------------------------------
\* What was written into the buffers of prepare(), as db_fill does for an adapter.
AFill(b, s) ==
  [b EXCEPT !.bs = [i \in 1..Len(@) |-> [k \in 1..Len(@[i]) |->
            LET at == ARoom(b, i - 1) + k - AFrom(b, i)
            IN  IF i >= b.out /\ k > AFrom(b, i) /\ at <= Len(s)
                  THEN s[at] ELSE @[i][k]]]]

\* A write of s into n prepared bytes.
AFills(C, b, s, n) == Adapted(C, b) /\ s \in Seq(C) /\ n \in Nat /\ Len(s) <= n /\ APrepared(b, n)

\* It is behind what is held, in order, and nothing else is changed.
LEMMA AFillWrites ==
  ASSUME NEW C, NEW b, NEW s, NEW n, AFills(C, b, s, n), NEW p, p = AFill(b, s)
  PROVE  /\ Adapted(C, p) /\ APrepared(p, n) /\ AView(p) = AView(b)
         /\ AStart(p) = AStart(b) /\ AStop(p) = AStop(b) /\ p.in_size = b.in_size
         /\ p.begin = b.begin /\ p.in_pos = b.in_pos /\ p.out = b.out /\ p.out_pos = b.out_pos
         /\ Len(p.bs) = Len(b.bs) /\ Off(p.bs, Len(p.bs)) = Off(b.bs, Len(b.bs))
         /\ \A i \in 1..Len(b.bs) : Len(p.bs[i]) = Len(b.bs[i])
         /\ p.kind = "adapter"
         /\ \A q \in 1..Off(b.bs, Len(b.bs)) :
              Flat(p.bs)[q] = IF q > AStop(b) /\ q - AStop(b) <= Len(s) THEN s[q - AStop(b)]
                              ELSE Flat(b.bs)[q]
<1> DEFINE L == b.bs
           nL == Len(L)
           o == b.out
           op == b.out_pos
           M == Overwritten(L, o, op, s)
           e == AStop(b)
<1>1. Adapted(C, b) /\ s \in Seq(C) /\ n \in Nat /\ Len(s) <= n /\ APrepared(b, n) /\ Len(s) \in Nat
  BY DEF AFills
<1>2. p = [b EXCEPT !.bs = M]
  BY DEF AFill, Overwritten, ARoom, Ahead, AFrom
<1> HIDE DEF M
<1>3. /\ M \in Seq(Seq(C)) /\ Len(M) = nL
      /\ \A i \in 1..nL : Len(M[i]) = Len(L[i])
      /\ \A j \in 0..nL : Off(M, j) = Off(L, j)
      /\ \A q \in 1..Off(L, nL) :
           Flat(M)[q] = IF q > e /\ q - e <= Len(s) THEN s[q - e] ELSE Flat(L)[q]
  <2>1. Cursor(C, L, o, op)
    BY <1>1 DEF Adapted
  <2>2. Place(L, o, op) = e
    BY DEF AStop
  <2>3. M = Overwritten(L, o, op, s) /\ s \in Seq(C)
    BY <1>1 DEF M
  <2> HIDE DEF L, o, op, e
  <2>4. OverwriteGives(C, L, o, op, s, M)
    BY <2>1, <2>3, OverwriteAt
  <2> USE DEF nL
  <2> QED BY <2>2, <2>4 DEF OverwriteGives
<1>4. /\ p \in AType(C) /\ p.bs = M /\ p.begin = b.begin /\ p.out = o /\ p.out_pos = op /\ p.end = b.end
      /\ p.out_end = b.out_end /\ p.in_pos = b.in_pos /\ p.in_size = b.in_size /\ p.kind = "adapter"
  <2>1. b \in AType(C) /\ M \in Seq(Seq(C))
    BY <1>1, <1>3 DEF Adapted
  <2> QED BY <1>2, <2>1 DEF AType
<1>5. /\ L \in Seq(Seq(C)) /\ nL \in Nat /\ o \in Nat /\ op \in Nat /\ e \in Nat
      /\ b.begin \in Nat /\ b.in_pos \in Nat /\ b.in_size \in Nat /\ b.end \in Nat
      /\ 1 <= b.begin /\ b.begin <= o /\ o <= b.end /\ b.end <= nL + 1
      /\ AStart(b) \in Nat /\ AStart(b) + b.in_size = e /\ e <= Off(L, nL)
      /\ Cursor(C, L, o, op)
  BY <1>1, AdaptedFacts
<1> DEFINE h == b.begin
           t == b.end
<1>6. h - 1 \in 0..nL /\ o - 1 \in 0..nL /\ (o # t => o \in 1..nL /\ t - 1 \in 1..nL /\ t - 2 \in 0..nL)
      /\ (h < o => h \in 1..nL) /\ nL \in 0..nL /\ (o <= nL => o \in 1..nL) /\ o >= 1
  <2>1. /\ h \in Nat /\ o \in Nat /\ t \in Nat /\ nL \in Nat
        /\ 1 <= h /\ h <= o /\ o <= t /\ t <= nL + 1
    BY <1>5
  <2> HIDE DEF h, o, t, nL
  <2>2. h - 1 \in 0..nL /\ o - 1 \in 0..nL /\ nL \in 0..nL /\ o >= 1
    BY <2>1
  <2>3. o # t => o \in 1..nL /\ t - 1 \in 1..nL /\ t - 2 \in 0..nL
    BY <2>1
  <2>4. (h < o => h \in 1..nL) /\ (o <= nL => o \in 1..nL)
    BY <2>1
  <2> QED BY <2>2, <2>3, <2>4, Zenon
<1>7. AStart(p) = AStart(b)
  BY <1>3, <1>4, <1>6 DEF AStart
<1>8. AStop(p) = e
  <2>1. Off(M, o - 1) = Off(L, o - 1)
    BY <1>3, <1>6
  <2> QED BY <1>4, <2>1 DEF AStop, Place
<1>9. Cursor(C, M, o, op)
  <2>1. o <= nL => op <= Len(L[o])
    BY <1>5 DEF Cursor
  <2>2. o <= nL => op <= Len(M[o])
    BY <1>3, <1>6, <2>1
  <2>3. o = nL + 1 => op = 0
    BY <1>5 DEF Cursor
  <2>4. o <= nL + 1
    BY <1>5 DEF Cursor
  <2> HIDE DEF L, nL, o, op
  <2> QED BY <1>3, <1>5, <1>6, <2>2, <2>3, <2>4 DEF Cursor
<1>10. Adapted(C, p)
  <2>1. h < o => b.in_pos <= Len(M[h])
    <3>1. h < o => b.in_pos <= Len(L[h])
      BY <1>1 DEF Adapted
    <3> QED BY <1>3, <1>6, <3>1
  <2>2. o = t => op = 0
    BY <1>1 DEF Adapted
  <2>3. /\ p \in AType(C)
        /\ 1 <= p.begin /\ p.begin <= p.out /\ p.out <= p.end /\ p.end <= Len(p.bs) + 1
    BY <1>3, <1>4, <1>5
  <2>4. AStart(p) + p.in_size = AStop(p)
    BY <1>4, <1>5, <1>7, <1>8
  <2>5. /\ p.begin < p.out => p.in_pos <= Len(p.bs[p.begin])
        /\ p.out = p.end => p.out_pos = 0
        /\ Cursor(C, p.bs, p.out, p.out_pos)
    BY <1>4, <1>9, <2>1, <2>2
  <2> QED BY <2>3, <2>4, <2>5, Zenon DEF Adapted
<1>11. APrepared(p, n)
  <2>1. o # t => Off(M, t - 2) = Off(L, t - 2) /\ Len(M[t - 1]) = Len(L[t - 1])
    BY <1>3, <1>6
  <2> QED BY <1>1, <1>4, <1>8, <2>1 DEF APrepared
<1>12. AView(p) = AView(b)
  <2> DEFINE a == AStart(b)
             z == b.in_size
             v == AView(p)
             w == AView(b)
  <2>1. w \in Seq(C) /\ Len(w) = z /\ \A i \in Nat : i >= 1 /\ i <= z => w[i] = Flat(L)[a + i]
    BY <1>1, AViewIs
  <2>2. v \in Seq(C) /\ Len(v) = z /\ \A i \in Nat : i >= 1 /\ i <= z => v[i] = Flat(M)[a + i]
    <3>1. v \in Seq(C) /\ Len(v) = p.in_size
          /\ \A i \in Nat : i >= 1 /\ i <= p.in_size => v[i] = Flat(p.bs)[AStart(p) + i]
      BY <1>10, AViewIs
    <3> HIDE DEF v
    <3> QED BY <1>4, <1>7, <3>1
  <2>3. ASSUME NEW i \in 1..z PROVE v[i] = w[i]
    <3>1. i \in Nat /\ i >= 1 /\ i <= z
      <4>1. z \in Nat
        BY <1>5
      <4> HIDE DEF z
      <4> QED BY <4>1
    <3> DEFINE q == a + i
               y == Off(L, nL)
    <3>2. q \in 1..y /\ ~(q > e)
      <4>1. a + z = e /\ a \in Nat /\ z \in Nat /\ e \in Nat /\ e <= y
        BY <1>5
      <4>2. y \in Nat
        BY <1>5, <1>6, OffStep
      <4> HIDE DEF a, z, e, y
      <4> QED BY <3>1, <4>1, <4>2
    <3>3. Flat(M)[q] = Flat(L)[q]
      <4>1. Flat(M)[q] = IF q > e /\ q - e <= Len(s) THEN s[q - e] ELSE Flat(L)[q]
        BY <1>3, <3>2
      <4> QED BY <3>2, <4>1
    <3> QED BY <2>1, <2>2, <3>1, <3>3
  <2> HIDE DEF v, w, z
  <2>4. v = w
    BY <2>1, <2>2, <2>3, SeqEqual
  <2> QED BY <2>4 DEF v, w
<1>13. Off(p.bs, Len(p.bs)) = Off(L, nL)
  BY <1>3, <1>4, <1>6
<1> QED BY <1>3, <1>4, <1>7, <1>8, <1>10, <1>11, <1>12, <1>13

-----------------------------------------------------------------------------

\* A call of commit(m) after prepare(n).
ACommits(C, b, m, n) == Adapted(C, b) /\ m \in Nat /\ n \in Nat /\ m <= n /\ APrepared(b, n)

\* commit(m) moves out_pos_ over m of the prepared bytes.
LEMMA ACommitMoves ==
  ASSUME NEW C, NEW b, NEW m, NEW n, ACommits(C, b, m, n), NEW p, p = acommit(b, m)
  PROVE  /\ Adapted(C, p) /\ AStart(p) = AStart(b) /\ AStop(p) = AStop(b) + m
         /\ p.bs = b.bs /\ p.in_size = b.in_size + m /\ p.kind = "adapter"
<1> DEFINE L == b.bs
           nL == Len(L)
           h == b.begin
           o == b.out
           t == b.end
           op == b.out_pos
           oe == b.out_end
           e == AStop(b)
           A(j) == ARoom(b, j)
           last == t - 1
           at == CHOOSE j \in o..last : /\ j = last \/ m < A(j)
                                        /\ \A i \in o..(j-1) : m >= A(i)
           rest == m - A(at - 1)
           got  == IF at = last THEN Smaller(rest, oe - AFrom(b, at)) ELSE rest
           all  == A(at - 1) + got
           pos  == AFrom(b, at) + got
           full == at = last /\ pos = Len(L[at])
<1>1. p = IF o = t THEN b
          ELSE [b EXCEPT !.out = IF full THEN at + 1 ELSE at,
                         !.out_pos = IF full THEN 0 ELSE pos,
                         !.out_end = IF full THEN 0 ELSE @,
                         !.in_size = @ + all, !.max_size = @ - all]
  BY Zenon DEF acommit
<1>2. Adapted(C, b) /\ m \in Nat /\ n \in Nat /\ m <= n /\ APrepared(b, n)
  BY DEF ACommits
<1>3. /\ L \in Seq(Seq(C)) /\ nL \in Nat /\ o \in Nat /\ op \in Nat /\ oe \in Nat /\ e \in Nat
      /\ h \in Nat /\ b.in_pos \in Nat /\ b.in_size \in Nat /\ t \in Nat /\ b.max_size \in Int
      /\ 1 <= h /\ h <= o /\ o <= t /\ t <= nL + 1
      /\ AStart(b) \in Nat /\ AStart(b) + b.in_size = e /\ e <= Off(L, nL)
      /\ Cursor(C, L, o, op)
      /\ \A j \in (o - 1)..nL : A(j) = IF j = o - 1 THEN 0 ELSE Off(L, j) - e
  BY <1>2, AdaptedFacts
<1>4. CASE o = t
  <2>1. p = b
    BY <1>1, <1>4
  <2>2. n = 0
    BY <1>2, <1>4 DEF APrepared
  <2>3. m = 0
    BY <1>2, <2>2
  <2>4. e + m = e /\ b.in_size + m = b.in_size
    <3> HIDE DEF e
    <3> QED BY <1>3, <2>3
  <2>5. b.kind = "adapter"
    BY <1>2 DEF Adapted, AType
  <2> QED BY <1>2, <2>1, <2>4, <2>5
<1>5. CASE o # t
  <2>1. last \in Nat /\ o <= last /\ last <= nL /\ last \in o..last /\ last \in 1..nL /\ last - 1 = t - 2
    <3> HIDE DEF o, t, nL, h
    <3> QED BY <1>3, <1>5
  <2>2. /\ e + n = Off(L, last - 1) + oe /\ oe <= Len(L[last])
        /\ o = last => op <= oe
    BY <1>2, <1>5, <2>1 DEF APrepared
  <2> HIDE DEF last
  <2>3. /\ at \in o..last
        /\ at = last \/ m < A(at)
        /\ \A i \in o..(at-1) : m >= A(i)
    <3> DEFINE Q(j) == /\ j = last \/ m < A(j)
                       /\ \A i \in o..(j-1) : m >= A(i)
               T == {j \in o..last : j = last \/ m < A(j)}
    <3>1. PICK k \in T : \A i \in o..(k-1) : i \notin T
      <4>1. T \in SUBSET (o..last) /\ last \in T
        <5> HIDE DEF A
        <5> QED BY <2>1
      <4> HIDE DEF T, o
      <4> QED BY <1>3, <2>1, <4>1, FirstOf
    <3>2. \A i \in o..(k-1) : m >= A(i)
      <4> TAKE i \in o..(k-1)
      <4>1. i \in o..last /\ i # last /\ i \notin T
        <5>1. k \in o..last
          OBVIOUS
        <5>2. o \in Nat /\ last \in Nat
          BY <1>3, <2>1
        <5>3. i \notin T
          BY <3>1, Zenon
        <5>4. i \in o..last /\ i # last
          <6> HIDE DEF T, o
          <6> QED BY <5>1, <5>2
        <5> QED BY <5>3, <5>4
      <4>2. ~(m < A(i))
        BY <4>1
      <4>3. i \in (o - 1)..nL /\ i # o - 1 /\ i \in 0..nL
        <5> HIDE DEF o, nL
        <5> QED BY <1>3, <2>1, <4>1
      <4>4. A(i) \in Int
        <5>1. Off(L, i) \in Nat
          BY <1>3, <4>3, OffStep
        <5> HIDE DEF A, e
        <5> QED BY <1>3, <4>3, <5>1
      <4> HIDE DEF A
      <4> QED BY <1>2, <4>2, <4>4
    <3>3. k \in o..last /\ Q(k)
      BY <3>2
    <3>4. at = CHOOSE j \in o..last : Q(j)
      OBVIOUS
    <3> HIDE DEF Q, at
    <3>5. at \in o..last /\ Q(at)
      BY <3>3, <3>4
    <3> QED BY <3>5 DEF Q
  <2> HIDE DEF at
  <2> DEFINE R == A(at - 1)
             g == AFrom(b, at)
             l == Len(L[at])
             x == Off(L, at - 1)
  <2>4. /\ at \in Nat /\ at >= 1 /\ at >= o /\ at <= last /\ at <= nL /\ at \in 1..nL
        /\ at - 1 \in (o-1)..nL /\ at \in (o-1)..nL /\ at - 1 \in 0..nL
        /\ (at - 1 = o - 1 <=> at = o) /\ at # o - 1 /\ (at # o => at - 1 \in o..(at-1) /\ at - 1 \in o..nL)
        /\ (at = last => at + 1 = t) /\ at + 1 <= t /\ at <= t /\ at # t /\ h <= at
    <3> HIDE DEF o, nL, t, h
    <3> QED BY <1>3, <2>1, <2>3 DEF last
  <2>5. x \in Nat /\ l \in Nat /\ Off(L, at) = x + l
    BY <1>3, <2>4, OffStep, Parts
  <2>6. g = (IF at = o THEN op ELSE 0) /\ g \in Nat
    <3>1. g = (IF at = o THEN op ELSE 0)
      BY DEF AFrom
    <3> HIDE DEF g, op, o
    <3> QED BY <1>3, <3>1
  <2>7. R = (IF at = o THEN 0 ELSE x - e) /\ A(at) = (x + l) - e
    BY <1>3, <2>4, <2>5
  <2>8. at = o => e = x + op
    BY DEF AStop, Place
  <2>9. R \in Nat /\ e + R = x + g /\ R <= m
    <3>1. at # o => R <= m
      BY <2>3, <2>4
    <3>2. at # o => e <= x
      BY <1>3, <2>4, CursorFacts DEF AStop
    <3> HIDE DEF R, x, e, g, op, o
    <3> QED BY <1>2, <1>3, <2>5, <2>6, <2>7, <2>8, <3>1, <3>2
  <2>10. rest = m - R /\ rest \in Nat /\ got = (IF at = last THEN Smaller(rest, oe - g) ELSE rest) /\ pos = g + got
    <3>1. rest = m - R /\ got = (IF at = last THEN Smaller(rest, oe - g) ELSE rest) /\ pos = g + got
      OBVIOUS
    <3> HIDE DEF rest, got, pos, R, g
    <3> QED BY <1>2, <2>9, <3>1
  <2>10a. all = R + got
    OBVIOUS
  <2> HIDE DEF rest, got, pos, all
  <2>11. at = last => rest <= oe - g /\ oe <= l
    <3>1. at = last => e + n = x + oe /\ oe <= l
      BY <2>2
    <3> HIDE DEF R, x, e, g, op, o, oe, l, nL
    <3> QED BY <1>2, <1>3, <2>5, <2>6, <2>9, <2>10, <3>1
  <2>12. got = rest
    <3> HIDE DEF g, oe
    <3> QED BY <1>3, <2>6, <2>10, <2>11, SMTT(30) DEF Smaller
  <2>13. pos \in Nat /\ pos = g + rest /\ x + pos = e + m /\ R + got = m
    <3>1. pos = g + rest /\ got = rest /\ rest = m - R /\ rest \in Nat
      BY <2>10, <2>12, Zenon
    <3>2. e \in Nat /\ x \in Nat /\ g \in Nat /\ m \in Nat /\ R \in Nat
      BY <1>2, <1>3, <2>5, <2>6, <2>9
    <3>3. e + R = x + g
      BY <2>9
    <3> HIDE DEF R, x, e, g
    <3> QED BY <3>1, <3>2, <3>3
  <2>14. pos <= l
    <3>1. at # last => m < (x + l) - e
      BY <2>3, <2>7
    <3>2. at = last => g + rest <= oe /\ oe <= l
      <4> HIDE DEF g, oe, l
      <4> QED BY <1>3, <2>6, <2>10, <2>11
    <3> HIDE DEF x, l, e, g, oe
    <3> QED BY <1>2, <1>3, <2>5, <2>6, <2>13, <3>1, <3>2, SMTT(30)
  <2>15. all = m
    BY <2>10a, <2>13
  <2> DEFINE z == b.in_size
             y == z + m
             w == b.max_size - m
             o2 == IF full THEN at + 1 ELSE at
             op2 == IF full THEN 0 ELSE pos
             oe2 == IF full THEN 0 ELSE oe
  <2>16. p = [b EXCEPT !.out = o2, !.out_pos = op2, !.out_end = oe2, !.in_size = y, !.max_size = w]
    BY <1>1, <1>5, <2>15
  <2>17. o2 \in Nat /\ op2 \in Nat /\ oe2 \in Nat /\ y \in Nat /\ w \in Int
    <3>1. o2 \in Nat /\ op2 \in Nat /\ oe2 \in Nat
      <4>1. oe \in Nat /\ at \in Nat /\ pos \in Nat
        BY <1>3, <2>4, <2>13
      <4> HIDE DEF full, oe
      <4> QED BY <4>1
    <3>2. z \in Nat /\ b.max_size \in Int
      BY <1>3
    <3> HIDE DEF o2, op2, oe2, z
    <3> QED BY <1>2, <3>1, <3>2
  <2>18. o2 <= nL + 1 /\ h <= o2 /\ o2 <= t /\ o2 >= 1 /\ (o2 = t => op2 = 0)
    <3>1. full => o2 = t /\ op2 = 0
      BY <2>4
    <3>2. ~full => o2 = at /\ op2 = pos
      OBVIOUS
    <3> HIDE DEF full, o2, op2, h, o, t, nL
    <3> QED BY <1>3, <2>4, <3>1, <3>2
  <2>19. Off(L, o2 - 1) + op2 = e + m
    <3>1. CASE full
      <4>1. o2 - 1 = at /\ op2 = 0 /\ pos = l
        BY <2>4, <3>1
      <4>2. Off(L, o2 - 1) = x + l
        BY <2>5, <4>1
      <4> HIDE DEF full, o2, op2, l, x, e
      <4> QED BY <2>5, <2>13, <4>1, <4>2
    <3>2. CASE ~full
      BY <2>13, <3>2
    <3> QED BY <3>1, <3>2
  <2>20. Cursor(C, L, o2, op2)
    <3>1. o2 <= nL => op2 <= Len(L[o2])
      <4>1. CASE full
        <5>1. op2 = 0
          BY <4>1
        <5>2. o2 <= nL => Len(L[o2]) \in Nat
          <6>1. o2 <= nL => o2 \in 1..nL
            <7> HIDE DEF o2, nL, h, op2
            <7> QED BY <2>17, <2>18, <1>3
          <6> HIDE DEF o2
          <6> QED BY <1>3, <6>1, Parts
        <5> HIDE DEF o2, op2
        <5> QED BY <5>1, <5>2
      <4>2. CASE ~full
        BY <2>14, <4>2
      <4> QED BY <4>1, <4>2
    <3>2. o2 = nL + 1 => op2 = 0
      <4>1. full => op2 = 0
        OBVIOUS
      <4>2. ~full => o2 # nL + 1
        <5>1. ~full => o2 = at
          OBVIOUS
        <5> HIDE DEF full, o2, nL
        <5> QED BY <1>3, <2>4, <5>1
      <4> QED BY <4>1, <4>2
    <3> HIDE DEF L, nL, o2, op2
    <3> QED BY <1>3, <2>17, <2>18, <3>1, <3>2 DEF Cursor, nL
  <2>21. h < o2 => b.in_pos <= Len(L[h])
    <3>1. CASE h < o
      BY <1>2, <3>1 DEF Adapted
    <3>2. CASE ~(h < o)
      <4>1. h = o /\ o <= nL
        <5> HIDE DEF h, o, nL, t
        <5> QED BY <1>3, <2>1, <3>2
      <4>2. op <= Len(L[o])
        BY <1>3, <4>1 DEF Cursor
      <4>3. b.in_pos <= op
        <5> DEFINE u == Off(L, o - 1)
                   ip == b.in_pos
        <5>1. AStart(b) = u + ip /\ e = u + op
          BY <4>1 DEF AStart, AStop, Place
        <5>2. u \in Nat
          BY <1>3, CursorFacts
        <5>3. (u + ip) + z = u + op /\ ip \in Nat /\ z \in Nat
          BY <1>3, <5>1
        <5> HIDE DEF u, ip, op, z
        <5>4. ip <= op
          BY <1>3, <5>2, <5>3
        <5> QED BY <5>4 DEF ip
      <4> DEFINE ip == b.in_pos
                 k == Len(L[o])
      <4>4. ip <= op /\ op <= k /\ ip \in Nat /\ k \in Nat
        <5>1. o \in 1..nL
          <6> HIDE DEF o, nL, h
          <6> QED BY <1>3, <4>1
        <5>2. k \in Nat
          BY <1>3, <5>1, Parts
        <5> QED BY <1>3, <4>2, <4>3, <5>2
      <4>5. ip <= k
        <5> HIDE DEF ip, k, op
        <5> QED BY <1>3, <4>4
      <4> QED BY <4>1, <4>5
    <3> QED BY <3>1, <3>2
  <2> HIDE DEF o2, op2, oe2, w, full
  <2>22. /\ p \in AType(C) /\ p.bs = L /\ p.begin = h /\ p.out = o2 /\ p.out_pos = op2 /\ p.end = t
         /\ p.in_pos = b.in_pos /\ p.in_size = y /\ p.kind = "adapter"
    <3>1. b \in AType(C)
      BY <1>2 DEF Adapted
    <3> HIDE DEF y
    <3> QED BY <2>16, <2>17, <3>1, ZenonT(40) DEF AType
  <2>23. AStart(p) = AStart(b) /\ AStop(p) = e + m
    BY <2>19, <2>22 DEF AStart, AStop, Place
  <2>24. AStart(p) + p.in_size = AStop(p)
    <3> DEFINE a == AStart(b)
    <3>1. a \in Nat /\ z \in Nat /\ e \in Nat /\ a + z = e
      BY <1>3
    <3>2. a + y = e + m
      <4> HIDE DEF a, z, e
      <4> QED BY <1>2, <3>1
    <3> QED BY <2>22, <2>23, <3>2
  <2>25. Adapted(C, p)
    <3>1. 1 <= h
      BY <1>3
    <3> HIDE DEF y
    <3> QED BY <1>3, <2>18, <2>20, <2>21, <2>22, <2>24 DEF Adapted
  <2> QED BY <2>22, <2>23, <2>25
<1> QED BY <1>4, <1>5

-----------------------------------------------------------------------------
\* What prepare(n), a write of s and commit of its length leave.
AWritten(b, s, n) == acommit(AFill(aprepare(b, n), s), Len(s))

\* c is b with s behind it, over the same buffers.
AppendsTo(C, b, c, s) ==
  /\ Adapted(C, c) /\ AView(c) = AView(b) \o s
  /\ c.in_size = b.in_size + Len(s) /\ AStop(c) = AStop(b) + Len(s)
  /\ Len(c.bs) = Len(b.bs) /\ Off(c.bs, Len(c.bs)) = Off(b.bs, Len(b.bs))
  /\ \A i \in 1..Len(b.bs) : Len(c.bs[i]) = Len(b.bs[i])

\* prepare(n) that does not throw, a write of at most n bytes and the commit of
\* them put these bytes behind the ones a buffers_adapter holds, over any buffers,
\* empty ones among them (buffers_adapter::prepare and commit).
THEOREM AWriteAppends ==
  ASSUME NEW C, NEW b, NEW n, APrepares(C, b, n), NEW s \in Seq(C), Len(s) <= n
  PROVE  AppendsTo(C, b, AWritten(b, s, n), s)
<1> DEFINE p == aprepare(b, n)
           f == AFill(p, s)
           c == acommit(f, Len(s))
<1>1. Adapted(C, b) /\ n \in Nat /\ Len(s) \in Nat
  BY DEF APrepares
<1>2. /\ Adapted(C, p) /\ APrepared(p, n)
      /\ p.bs = b.bs /\ p.begin = b.begin /\ p.in_pos = b.in_pos /\ p.in_size = b.in_size
      /\ p.out = b.out /\ p.out_pos = b.out_pos
  BY APrepareFits
<1> HIDE DEF p
<1>2a. AView(p) = AView(b) /\ AStart(p) = AStart(b) /\ AStop(p) = AStop(b)
  BY <1>2, ASameView
<1>3. AFills(C, p, s, n)
  BY <1>1, <1>2 DEF AFills
<1>4. /\ Adapted(C, f) /\ APrepared(f, n) /\ AView(f) = AView(p)
      /\ AStart(f) = AStart(p) /\ AStop(f) = AStop(p) /\ f.in_size = p.in_size
      /\ Len(f.bs) = Len(p.bs) /\ Off(f.bs, Len(f.bs)) = Off(p.bs, Len(p.bs))
      /\ \A i \in 1..Len(p.bs) : Len(f.bs[i]) = Len(p.bs[i])
      /\ \A q \in 1..Off(p.bs, Len(p.bs)) :
              Flat(f.bs)[q] = IF q > AStop(p) /\ q - AStop(p) <= Len(s) THEN s[q - AStop(p)]
                              ELSE Flat(p.bs)[q]
  BY <1>3, AFillWrites, SMTT(30)
<1> HIDE DEF f
<1>5. ACommits(C, f, Len(s), n)
  BY <1>1, <1>4 DEF ACommits
<1>6. /\ Adapted(C, c) /\ AStart(c) = AStart(f) /\ AStop(c) = AStop(f) + Len(s)
      /\ c.bs = f.bs /\ c.in_size = f.in_size + Len(s)
  BY <1>5, ACommitMoves
<1> HIDE DEF c
<1>7. AStop(p) + n <= Off(p.bs, Len(p.bs))
  BY <1>1, <1>2, APreparedFits
<1> DEFINE z == p.in_size
           a == AStart(p)
           e == AStop(p)
           o == Off(p.bs, Len(p.bs))
           l == Len(s)
           v == AView(c)
           u == AView(p)
           y == z + l
           w == u \o s
<1>8. z \in Nat /\ a \in Nat /\ e \in Nat /\ l \in Nat /\ a + z = e
  BY <1>1, <1>2, AdaptedFacts
<1>8a. o \in Nat
  <2>1. p.bs \in Seq(Seq(C)) /\ Len(p.bs) \in Nat
    BY <1>2, AdaptedFacts
  <2>2. Len(p.bs) \in 0..Len(p.bs)
    BY <2>1
  <2> QED BY <2>1, <2>2, OffStep
<1>10. u \in Seq(C) /\ Len(u) = z /\ \A i \in Nat : i >= 1 /\ i <= z => u[i] = Flat(p.bs)[a + i]
  BY <1>2, AViewIs
<1>11. v \in Seq(C) /\ Len(v) = y /\ \A i \in Nat : i >= 1 /\ i <= y => v[i] = Flat(f.bs)[a + i]
  <2>1. v \in Seq(C) /\ Len(v) = c.in_size
        /\ \A i \in Nat : i >= 1 /\ i <= c.in_size => v[i] = Flat(c.bs)[AStart(c) + i]
    BY <1>6, AViewIs
  <2>2. c.in_size = y /\ c.bs = f.bs /\ AStart(c) = a
    BY <1>4, <1>6
  <2> HIDE DEF v, y, a
  <2> QED BY <2>1, <2>2
<1>12. e + l <= o
  <2>1. e + n <= o
    BY <1>7
  <2> HIDE DEF e, o
  <2> QED BY <1>1, <1>8, <1>8a, <2>1
<1>13. ASSUME NEW i \in 1..y PROVE v[i] = w[i]
  <2>1. v[i] = Flat(f.bs)[a + i]
    <3>1. i \in Nat /\ i >= 1 /\ i <= y
      <4>1. y \in Nat
        <5> HIDE DEF z, l
        <5> QED BY <1>8
      <4> HIDE DEF y
      <4> QED BY <4>1
    <3> HIDE DEF v, y
    <3> QED BY <1>11, <3>1
  <2>2. a + i \in 1..o
    <3> HIDE DEF z, l, a, e, o
    <3> QED BY <1>8, <1>8a, <1>12
  <2>3. Flat(f.bs)[a + i] = IF a + i > e /\ (a + i) - e <= l THEN s[(a + i) - e] ELSE Flat(p.bs)[a + i]
    BY <1>4, <2>2
  <2>4. CASE i <= z
    <3>1. ~(a + i > e) /\ i \in Nat /\ i >= 1
      <4> HIDE DEF z, l, a, e
      <4> QED BY <1>8, <2>4
    <3>2. w[i] = u[i]
      <4> HIDE DEF u, z
      <4> QED BY <1>10, <2>4, <3>1, ConcatAt
    <3>3. u[i] = Flat(p.bs)[a + i]
      BY <1>10, <2>4, <3>1
    <3> QED BY <2>1, <2>3, <3>1, <3>2, <3>3
  <2>5. CASE ~(i <= z)
    <3>1. a + i > e /\ (a + i) - e <= l /\ (a + i) - e = i - z /\ i - z \in Nat /\ i - z >= 1 /\ i - z <= l /\ z + (i - z) = i
      <4> HIDE DEF z, l, a, e
      <4> QED BY <1>8, <2>5
    <3>2. w[z + (i - z)] = s[i - z]
      <4>1. \A k \in Nat : k >= 1 /\ k <= l => w[z + k] = s[k]
        <5> HIDE DEF u, z
        <5> QED BY <1>10, ConcatAt
      <4> HIDE DEF w, z
      <4> QED BY <3>1, <4>1
    <3> HIDE DEF v, w, z
    <3> QED BY <2>1, <2>3, <3>1, <3>2
  <2> QED BY <2>4, <2>5
<1>14. w \in Seq(C) /\ Len(w) = y
  <2> HIDE DEF u, z
  <2> QED BY <1>10
<1>15. v = w
  <2> HIDE DEF y, v, w
  <2> QED BY <1>11, <1>13, <1>14, SeqEqual
<1>16. /\ c.in_size = b.in_size + l /\ AStop(c) = AStop(b) + l /\ w = AView(b) \o s
       /\ Len(c.bs) = Len(b.bs) /\ Off(c.bs, Len(c.bs)) = Off(b.bs, Len(b.bs))
       /\ \A i \in 1..Len(b.bs) : Len(c.bs[i]) = Len(b.bs[i])
  BY <1>2, <1>2a, <1>4, <1>6
<1> USE DEF c, f, p
<1>17. AWritten(b, s, n) = c
  BY DEF AWritten
<1> HIDE DEF c, f, p, w
<1> QED BY <1>6, <1>15, <1>16, <1>17 DEF AppendsTo

-----------------------------------------------------------------------------
\* A set of numbers from h that holds what is between h and its members is
\* counted by its last one.
Counted(h, z, H) == \E g \in 0..z : H = h..(h + g - 1) /\ Cardinality(H) = g

\* It is.
LEMMA CountFrom ==
  ASSUME NEW h \in Nat, h >= 1, NEW z \in Nat, NEW H \in SUBSET (h..(h + z - 1)),
         \A j \in H : \A i \in h..j : i \in H
  PROVE  Counted(h, z, H)
<1> DEFINE T == {j \in h..(h + z) : j \notin H}
<1>1. h + z \in T /\ T \in SUBSET Nat
  OBVIOUS
<1>2. PICK k \in T : \A j \in T : k <= j
  BY <1>1, LeastNat
<1>3. k \in h..(h + z) /\ k \notin H
  BY <1>2
<1>4. ASSUME NEW j \in h..(k-1) PROVE j \in H
  <2>1. j \in h..(h + z) /\ ~(k <= j)
    BY <1>3
  <2>2. j \notin T
    BY <1>2, <2>1
  <2> QED BY <2>1, <2>2
<1>5. ASSUME NEW j \in H PROVE j \in h..(k-1)
  <2>1. j \in h..(h + z - 1) /\ (k \in h..j => k \in H)
    OBVIOUS
  <2> QED BY <1>3, <2>1
<1> DEFINE g == k - h
<1>6. H = h..(h + g - 1) /\ g \in 0..z /\ g \in Nat
  <2>1. g \in 0..z /\ g \in Nat /\ h + g - 1 = k - 1
    BY <1>3
  <2>2. \A j : j \in H <=> j \in h..(k - 1)
    BY <1>4, <1>5
  <2> HIDE DEF g
  <2> QED BY <2>1, <2>2
<1> DEFINE t == h + g - 1
<1>7. Cardinality(h..t) = g
  <2>1. h \in Int /\ t \in Int /\ (h > t => g = 0) /\ (t - h) + 1 = g
    <3> HIDE DEF g
    <3> QED BY <1>6
  <2> HIDE DEF t
  <2>2. Cardinality(h..t) = IF h > t THEN 0 ELSE (t - h) + 1
    BY <2>1, FS_Interval
  <2> QED BY <2>1, <2>2
<1> QED BY <1>6, <1>7 DEF Counted

-----------------------------------------------------------------------------
\* The buffers that consume(n) passes.
AGone(b, n) == Cardinality({j \in b.begin..(b.out-1) : AHeld(b, j) <= n})

\* They end at or before n, and the next one does not.
AHolds(C, b, n) ==
  /\ \A j \in (b.begin - 1)..Len(b.bs) :
       AHeld(b, j) = IF j = b.begin - 1 THEN 0 ELSE Off(b.bs, j) - AStart(b)
  /\ AGone(b, n) \in 0..(b.out - b.begin)
  /\ AHeld(b, b.begin + AGone(b, n) - 1) <= n
  /\ AGone(b, n) < b.out - b.begin => AHeld(b, b.begin + AGone(b, n)) > n

\* They do.
LEMMA AGoneIs ==
  ASSUME NEW C, NEW b, Adapted(C, b), NEW n \in Nat
  PROVE  AHolds(C, b, n)
<1> DEFINE L == b.bs
           nL == Len(L)
           h == b.begin
           o == b.out
           a == AStart(b)
           H == {j \in h..(o-1) : AHeld(b, j) <= n}
<1>1. L \in Seq(Seq(C)) /\ nL \in Nat /\ h \in Nat /\ o \in Nat /\ 1 <= h /\ h <= o /\ o <= nL + 1
      /\ a \in Nat /\ b.in_pos \in Nat /\ a = Off(L, h - 1) + b.in_pos
  <2>1. L \in Seq(Seq(C)) /\ nL \in Nat /\ h \in Nat /\ o \in Nat /\ 1 <= h /\ h <= o /\ o <= b.end /\ b.end <= nL + 1
        /\ a \in Nat /\ b.in_pos \in Nat /\ a = Off(L, h - 1) + b.in_pos /\ b.end \in Nat
    BY AdaptedFacts
  <2>2. o <= nL + 1
    <3> HIDE DEF o, nL
    <3> QED BY <2>1
  <2> QED BY <2>1, <2>2
<1>2. \A j \in (h - 1)..nL : AHeld(b, j) = IF j = h - 1 THEN 0 ELSE Off(L, j) - a
  <2> TAKE j \in (h-1)..nL
  <2>1. h \in 1..(Len(L) + 1) /\ j \in (h - 1)..Len(L) /\ b.in_pos \in Int
    <3>1. h \in 1..(nL + 1)
      <4> HIDE DEF h, o, nL
      <4> QED BY <1>1
    <3> QED BY <1>1, <3>1
  <2>2. SumFunction([i \in h..j |-> Len(L[i]) - (IF i = h THEN b.in_pos ELSE 0)])
          = IF j = h - 1 THEN 0 ELSE Off(L, j) - (Off(L, h - 1) + b.in_pos)
    BY <1>1, <2>1, SumBetween, Zenon
  <2> QED BY <1>1, <2>2 DEF AHeld
<1>3. ASSUME NEW j \in h..(o-1)
      PROVE  /\ AHeld(b, j) = Off(L, j) - a /\ Off(L, j) \in Nat /\ AHeld(b, j) \in Int
             /\ j \in 0..nL /\ j \in h..nL
  <2>1. j \in 0..nL /\ j \in (h-1)..nL /\ j # h - 1 /\ j \in h..nL
    <3> HIDE DEF o, nL, h
    <3> QED BY <1>1
  <2>2. AHeld(b, j) = Off(L, j) - a
    BY <1>2, <2>1
  <2>3. Off(L, j) \in Nat
    BY <1>1, <2>1, OffStep
  <2>4. Off(L, j) - a \in Int
    <3> HIDE DEF a
    <3> QED BY <1>1, <2>3
  <2> QED BY <2>1, <2>2, <2>3, <2>4
<1>4. ASSUME NEW j \in H, NEW i \in h..j PROVE i \in H
  <2>1. j \in h..(o-1) /\ AHeld(b, j) <= n
    OBVIOUS
  <2>2. i \in h..(o-1) /\ i \in 0..nL /\ j \in i..nL
    <3>1. j \in h..nL
      BY <1>3, <2>1
    <3> HIDE DEF o, nL, h, H
    <3> QED BY <1>1, <2>1, <3>1
  <2>3. Off(L, i) <= Off(L, j)
    BY <1>1, <2>2, OffUp
  <2>4. AHeld(b, i) = Off(L, i) - a /\ AHeld(b, j) = Off(L, j) - a /\ Off(L, i) \in Nat /\ Off(L, j) \in Nat
    BY <1>3, <2>1, <2>2
  <2>5. AHeld(b, i) <= n
    <3> DEFINE x == Off(L, i)
               y == Off(L, j)
               u == AHeld(b, i)
               v == AHeld(b, j)
    <3>1. x <= y /\ x \in Nat /\ y \in Nat /\ v <= n /\ u = x - a /\ v = y - a
      BY <2>1, <2>3, <2>4
    <3> HIDE DEF x, y, a, u, v
    <3>2. u <= n
      BY <1>1, <3>1
    <3> QED BY <3>2 DEF u
  <2> QED BY <2>2, <2>5
<1> DEFINE z == o - h
<1>5. z \in Nat /\ H \in SUBSET (h..(h + z - 1))
  <2>1. z \in Nat /\ h + z - 1 = o - 1
    <3> HIDE DEF h, o
    <3> QED BY <1>1 DEF z
  <2> HIDE DEF z
  <2> QED BY <2>1
<1>6. PICK g \in 0..z : H = h..(h + g - 1) /\ Cardinality(H) = g
  <2>1. h \in Nat /\ h >= 1 /\ z \in Nat /\ H \in SUBSET (h..(h + z - 1))
    BY <1>1, <1>5
  <2>2. \A j \in H : \A i \in h..j : i \in H
    BY <1>4
  <2> HIDE DEF H, z, h
  <2>3. Counted(h, z, H)
    BY <2>1, <2>2, CountFrom
  <2> QED BY <2>3 DEF Counted
<1>7. AGone(b, n) = g
  BY <1>6 DEF AGone
<1>8. AHeld(b, h + g - 1) <= n
  <2>1. CASE g = 0
    <3>1. h + g - 1 = h - 1 /\ h - 1 \in (h-1)..nL
      <4> HIDE DEF h, nL, H
      <4> QED BY <1>1, <2>1, <1>3
    <3>2. AHeld(b, h - 1) = 0
      BY <1>2, <3>1
    <3> QED BY <3>1, <3>2
  <2>2. CASE g # 0
    <3>1. h + g - 1 \in h..(h + g - 1)
      <4>1. g \in Nat /\ g >= 1
        <5> HIDE DEF z, H
        <5> QED BY <1>5, <1>6, <2>2
      <4> HIDE DEF h, H, z
      <4> QED BY <1>1, <4>1
    <3>2. h + g - 1 \in H
      BY <1>6, <3>1
    <3> QED BY <3>2
  <2> QED BY <2>1, <2>2
<1>9. ASSUME g < z PROVE AHeld(b, h + g) > n
  <2>1. h + g \in h..(o-1) /\ h + g \notin h..(h + g - 1)
    <3> HIDE DEF H, h, o
    <3> QED BY <1>1, <1>6, <1>9
  <2>2. ~(AHeld(b, h + g) <= n)
    <3>1. h + g \notin H
      BY <1>6, <2>1
    <3> QED BY <2>1, <3>1
  <2>3. AHeld(b, h + g) \in Int
    BY <1>3, <2>1
  <2> DEFINE u == AHeld(b, h + g)
  <2>4. ~(u <= n) /\ u \in Int
    BY <2>2, <2>3
  <2>5. u > n
    <3> HIDE DEF u
    <3> QED BY <2>4
  <2> QED BY <2>5
<1>10. g \in 0..(o - h)
  BY <1>6
<1> HIDE DEF H
<1> QED BY <1>2, <1>7, <1>8, <1>9, <1>10 DEF AHolds

-----------------------------------------------------------------------------
\* What is left of V when n were dropped, or all.
LEMMA DropIs ==
  ASSUME NEW C, NEW V \in Seq(C), NEW n \in Nat, NEW z, z = Len(V), NEW w \in Seq(C),
         Len(w) = IF n <= z THEN z - n ELSE 0,
         \A i \in Nat : i >= 1 /\ i <= Len(w) => w[i] = V[n + i]
  PROVE  w = SubSeq(V, n + 1, z)
<1>1. z \in Nat /\ Len(w) \in Nat
  OBVIOUS
<1>2. CASE n <= z
  <2> DEFINE v == SubSeq(V, n + 1, z)
             y == z - n
  <2>1. v \in Seq(C) /\ Len(v) = y /\ \A i \in Nat : i >= 1 /\ i <= y => v[i] = V[n + i]
    BY <1>1, <1>2, CutOut
  <2>2. Len(w) = y /\ y \in Nat
    BY <1>1, <1>2
  <2> HIDE DEF v, y
  <2>3. \A i \in 1..y : v[i] = w[i]
    BY <2>1, <2>2
  <2>4. v = w
    BY <2>1, <2>2, <2>3, SeqEqual
  <2> QED BY <2>4 DEF v
<1>3. CASE ~(n <= z)
  <2>1. w = <<>>
    BY <1>3
  <2>2. SubSeq(V, n + 1, z) = <<>>
    BY <1>1, <1>3
  <2> QED BY <2>1, <2>2
<1> QED BY <1>2, <1>3

\* c is b without its first n bytes, or without all.
DropsFrom(C, b, c, n) ==
  /\ Adapted(C, c) /\ AView(c) = SubSeq(AView(b), n + 1, b.in_size)
  /\ c.in_size = IF n <= b.in_size THEN b.in_size - n ELSE 0
  /\ AStop(c) = AStop(b) /\ c.bs = b.bs

\* consume(n) drops the first n bytes of a buffers_adapter, all of them when
\* there are fewer, and moves its end nowhere (buffers_adapter::consume).
THEOREM AConsumeDrops ==
  ASSUME NEW C, NEW b, Adapted(C, b), NEW n \in Nat
  PROVE  DropsFrom(C, b, aconsume(b, n), n)
<1> DEFINE L == b.bs
           nL == Len(L)
           h == b.begin
           o == b.out
           t == b.end
           op == b.out_pos
           ip == b.in_pos
           z == b.in_size
           a == AStart(b)
           e == AStop(b)
           g == AGone(b, n)
           G == h + g
           K == h + g - 1
           R == AHeld(b, K)
           x == Off(L, K)
           rest == n - R
           from == IF g = 0 THEN ip ELSE 0
           most == IF G < o THEN rest ELSE Smaller(rest, op - from)
           pos == from + most
           left == (z - R) - most
           c == aconsume(b, n)
<1>1. c = [b EXCEPT !.begin = G, !.in_pos = pos, !.in_size = left]
  BY Zenon DEF aconsume, AGone
<1>2. /\ L \in Seq(Seq(C)) /\ nL \in Nat /\ h \in Nat /\ o \in Nat /\ t \in Nat /\ op \in Nat /\ ip \in Nat
      /\ z \in Nat /\ a \in Nat /\ e \in Nat /\ a + z = e
      /\ 1 <= h /\ h <= o /\ o <= t /\ t <= nL + 1
      /\ a = Off(L, h - 1) + ip /\ Cursor(C, L, o, op)
  BY AdaptedFacts
<1>3. /\ \A j \in (h - 1)..nL : AHeld(b, j) = IF j = h - 1 THEN 0 ELSE Off(L, j) - a
      /\ g \in 0..(o - h) /\ R <= n
      /\ g < o - h => AHeld(b, G) > n
  <2>1. AHolds(C, b, n)
    BY AGoneIs
  <2> QED BY <2>1, Zenon DEF AHolds
<1> HIDE DEF g
<1>4. /\ g \in Nat /\ G \in Nat /\ h <= G /\ G <= o /\ K \in (h-1)..nL /\ K \in 0..nL /\ G - 1 = K
      /\ (g = 0 => K = h - 1 /\ G = h) /\ (g # 0 => K # h - 1) /\ (g < o - h <=> G < o)
      /\ (G < o => G \in 1..nL /\ G \in (h-1)..nL /\ G # h - 1 /\ o - 1 \in G..nL /\ G \in 0..nL /\ G - 1 = K)
      /\ (~(G < o) => G = o /\ K = o - 1)
  <2> HIDE DEF h, o, t, nL
  <2>1. /\ h \in Nat /\ o \in Nat /\ t \in Nat /\ nL \in Nat
        /\ 1 <= h /\ h <= o /\ o <= t /\ t <= nL + 1 /\ g \in 0..(o - h)
    BY <1>2, <1>3
  <2>2. g \in Nat /\ G \in Nat /\ h <= G /\ G <= o /\ K \in (h-1)..nL /\ K \in 0..nL /\ G - 1 = K
    BY <2>1
  <2>3. (g = 0 => K = h - 1 /\ G = h) /\ (g # 0 => K # h - 1) /\ (g < o - h <=> G < o)
    BY <2>1
  <2>4. ASSUME G < o PROVE G \in 1..nL /\ G \in (h-1)..nL /\ G # h - 1 /\ o - 1 \in G..nL /\ G \in 0..nL /\ G - 1 = K
    BY <2>1, <2>2, <2>4
  <2>5. ~(G < o) => G = o /\ K = o - 1
    BY <2>1, <2>2
  <2> QED BY <2>2, <2>3, <2>4, <2>5, Zenon
<1>5. x \in Nat /\ R = (IF g = 0 THEN 0 ELSE x - a) /\ (g = 0 => a = x + ip)
  <2>1. x \in Nat
    BY <1>2, <1>4, OffStep
  <2>2. g = 0 => R = 0
    BY <1>3, <1>4
  <2>3. g # 0 => R = x - a
    BY <1>3, <1>4
  <2>4. g = 0 => a = x + ip
    BY <1>2, <1>4
  <2> QED BY <2>1, <2>2, <2>3, <2>4, Zenon
<1>6. R \in Int /\ rest = n - R /\ rest \in Nat /\ a + R = x + from /\ from \in Nat
  <2>1. rest = n - R /\ from = (IF g = 0 THEN ip ELSE 0)
    OBVIOUS
  <2>2. R <= n /\ a \in Nat /\ ip \in Nat
    BY <1>2, <1>3
  <2> HIDE DEF R, x, a, ip, rest, from
  <2> QED BY <1>5, <2>1, <2>2
<1> DEFINE y == Off(L, G)
           l == Len(L[G])
<1>7. ASSUME G < o
      PROVE  most = rest /\ x + pos < x + l /\ l \in Nat /\ n <= z
  <2>1. most = rest
    BY <1>7
  <2>2. y = x + l /\ l \in Nat /\ y \in Nat
    BY <1>2, <1>4, <1>7, OffStep, Parts
  <2>3. y - a > n
    BY <1>3, <1>4, <1>7
  <2>4. y <= Off(L, o - 1)
    BY <1>2, <1>4, <1>7, OffUp
  <2> DEFINE u == Off(L, o - 1)
  <2>5. u \in Nat /\ e = u + op
    BY <1>2, CursorFacts, SMTT(30) DEF AStop
  <2>6. y <= u /\ e \in Nat /\ op \in Nat /\ a \in Nat /\ z \in Nat /\ a + z = e
    BY <1>2, <2>4
  <2>7. pos = from + most
    OBVIOUS
  <2> HIDE DEF u, y, x, l, e, a, z, op, R, rest, from, most, pos
  <2> QED BY <1>5, <1>6, <2>1, <2>2, <2>3, <2>5, <2>6, <2>7
<1>8. ASSUME ~(G < o)
      PROVE  /\ e = x + op /\ op - from \in Nat /\ most = Smaller(rest, op - from)
  <2>1. most = Smaller(rest, op - from)
    BY <1>8
  <2>2. e = x + op
    BY <1>4, <1>8 DEF AStop, Place
  <2>3. op \in Nat /\ ip \in Nat /\ a \in Nat /\ z \in Nat /\ a + z = e
    BY <1>2
  <2>4. from = (IF g = 0 THEN ip ELSE 0)
    OBVIOUS
  <2>5. op - from \in Nat
    <3> HIDE DEF x, e, a, z, op, ip, from
    <3> QED BY <1>5, <2>2, <2>3, <2>4
  <2> QED BY <2>1, <2>2, <2>5
<1>9. most \in Nat /\ pos \in Nat /\ R + most = IF n <= z THEN n ELSE z
  <2>1. pos = from + most
    OBVIOUS
  <2>2. z \in Nat /\ a \in Nat /\ e \in Nat /\ op \in Nat /\ a + z = e
    BY <1>2
  <2>3. CASE G < o
    <3>1. most = rest /\ n <= z
      BY <1>7, <2>3
    <3> HIDE DEF R, rest, z, most, from, pos
    <3> QED BY <1>6, <2>1, <3>1
  <2>4. CASE ~(G < o)
    <3>1. e = x + op /\ op - from \in Nat /\ most = (IF rest < op - from THEN rest ELSE op - from)
      BY <1>8, <2>4 DEF Smaller
    <3> HIDE DEF R, rest, z, most, from, pos, x, e, a, op, G
    <3> QED BY <1>5, <1>6, <2>1, <2>2, <3>1
  <2> QED BY <2>3, <2>4
<1>10. left \in Nat /\ left = IF n <= z THEN z - n ELSE 0
  <2>1. left = (z - R) - most /\ z \in Nat
    BY <1>2
  <2> HIDE DEF R, z, most, left
  <2> QED BY <1>6, <1>9, <2>1
<1>11. /\ c \in AType(C) /\ c.bs = L /\ c.begin = G /\ c.out = o /\ c.out_pos = op /\ c.end = t
       /\ c.in_pos = pos /\ c.in_size = left
  <2>1. b \in AType(C)
    BY DEF Adapted
  <2>2. G \in Nat /\ pos \in Nat /\ left \in Nat
    BY <1>4, <1>9, <1>10
  <2> HIDE DEF G, pos, left, c
  <2> QED BY <1>1, <2>1, <2>2 DEF AType
<1> HIDE DEF c
<1> DEFINE d == R + most
<1>12. AStart(c) = a + d /\ AStop(c) = e
  <2>1. AStart(c) = x + pos /\ AStop(c) = e
    BY <1>4, <1>11 DEF AStart, AStop
  <2>2. pos = from + most /\ d = R + most /\ a \in Nat
    BY <1>2
  <2>3. x + pos = a + d
    <3> HIDE DEF R, most, from, pos, x, a, d
    <3> QED BY <1>5, <1>6, <1>9, <2>2
  <2> QED BY <2>1, <2>3
<1>13. Adapted(C, c)
  <2>1. AStart(c) + c.in_size = AStop(c)
    <3>1. left = (z - R) - most /\ a \in Nat /\ z \in Nat /\ a + z = e /\ d = R + most
      BY <1>2
    <3>2. (a + d) + left = e
      <4> HIDE DEF R, most, left, z, a, e, d
      <4> QED BY <1>6, <1>9, <3>1
    <3> QED BY <1>11, <1>12, <3>2
  <2>2. G < o => pos <= Len(L[G])
    <3>1. ASSUME G < o PROVE pos <= l
      <4>1. x + pos < x + l /\ l \in Nat
        BY <1>7, <3>1
      <4> HIDE DEF x, pos, l, G
      <4> QED BY <1>5, <1>9, <4>1
    <3> QED BY <3>1
  <2>3. o = t => op = 0
    BY DEF Adapted
  <2>4. 1 <= G
    <3> HIDE DEF h, G
    <3> QED BY <1>2, <1>4
  <2> HIDE DEF G, pos, left
  <2>5. /\ 1 <= c.begin /\ c.begin <= c.out /\ c.out <= c.end /\ c.end <= Len(c.bs) + 1
    BY <1>2, <1>4, <1>11, <2>4
  <2>6. /\ Cursor(C, c.bs, c.out, c.out_pos)
        /\ c.begin < c.out => c.in_pos <= Len(c.bs[c.begin])
        /\ c.out = c.end => c.out_pos = 0
    BY <1>2, <1>11, <2>2, <2>3
  <2> QED BY <1>11, <2>1, <2>5, <2>6, Zenon DEF Adapted
<1> DEFINE v == AView(b)
           w == AView(c)
<1>14. v \in Seq(C) /\ Len(v) = z /\ \A i \in Nat : i >= 1 /\ i <= z => v[i] = Flat(L)[a + i]
  BY AViewIs
<1>15. w \in Seq(C) /\ Len(w) = left /\ \A i \in Nat : i >= 1 /\ i <= left => w[i] = Flat(L)[(a + d) + i]
  <2>1. w \in Seq(C) /\ Len(w) = c.in_size
        /\ \A i \in Nat : i >= 1 /\ i <= c.in_size => w[i] = Flat(c.bs)[AStart(c) + i]
    BY <1>13, AViewIs
  <2> HIDE DEF w, left, d, a
  <2> QED BY <1>11, <1>12, <2>1
<1>16. ASSUME NEW i \in Nat, i >= 1, i <= left PROVE w[i] = v[n + i]
  <2>1. d = n /\ n + i \in Nat /\ n + i >= 1 /\ n + i <= z /\ (a + d) + i = a + (n + i)
    <3>1. d = (IF n <= z THEN n ELSE z) /\ a \in Nat /\ z \in Nat
      BY <1>2, <1>9
    <3> HIDE DEF d, z, a, left
    <3> QED BY <1>10, <1>16, <3>1
  <2>2. w[i] = Flat(L)[(a + d) + i]
    BY <1>15, <1>16
  <2>3. v[n + i] = Flat(L)[a + (n + i)]
    BY <1>14, <2>1
  <2> QED BY <2>1, <2>2, <2>3
<1>17. w = SubSeq(v, n + 1, z)
  <2>1. Len(w) = (IF n <= z THEN z - n ELSE 0) /\ z = Len(v)
    BY <1>10, <1>14, <1>15
  <2>2. \A i \in Nat : i >= 1 /\ i <= Len(w) => w[i] = v[n + i]
    BY <1>15, <1>16
  <2>3. v \in Seq(C) /\ w \in Seq(C)
    BY <1>14, <1>15
  <2> HIDE DEF w, v, z
  <2> QED BY <2>1, <2>2, <2>3, DropIs, SMTT(30)
<1> HIDE DEF left
<1> QED BY <1>10, <1>11, <1>12, <1>13, <1>17 DEF DropsFrom, c

-----------------------------------------------------------------------------
(* DynamicBuffer: static_streambuf, buffers_adapter and basic_streambuf.   *)

\* A static_streambuf whose offsets are in order.
Fixed(C, b) ==
  /\ b \in [kind : {"static"}, cells : Seq(C), in : Nat, out : Nat, last : Nat]
  /\ b.in <= b.out /\ b.out <= Len(b.cells)

\* A basic_streambuf and its alloc_size_.
Streamed(C, b) ==
  /\ b = [kind |-> "streambuf", sb |-> b.sb, alloc |-> b.alloc]
  /\ Shaped(C, b.sb) /\ b.alloc \in Nat \ {0}

\* A DynamicBuffer of one of the three kinds.
Sound(C, b) == Fixed(C, b) \/ Adapted(C, b) \/ Streamed(C, b)

\* How many bytes were ever committed, and how many there is room for.
Spent(b) == IF b.kind = "static" THEN b.out ELSE AStop(b)
\* ... and how many there is room for.
Space(b) == IF b.kind = "static" THEN Len(b.cells) ELSE Off(b.bs, Len(b.bs))

\* Its kind says which.
LEMMA KindIs ==
  ASSUME NEW C, NEW b, Sound(C, b)
  PROVE  /\ b.kind \in {"static", "adapter", "streambuf"}
         /\ b.kind = "static" => Fixed(C, b)
         /\ b.kind = "adapter" => Adapted(C, b)
         /\ b.kind = "streambuf" => Streamed(C, b)
<1>1. Fixed(C, b) => b.kind = "static"
  BY DEF Fixed
<1>2. Adapted(C, b) => b.kind = "adapter"
  BY DEF Adapted, AType
<1>3. Streamed(C, b) => b.kind = "streambuf"
  <2> SUFFICES ASSUME Streamed(C, b) PROVE b.kind = "streambuf"
    OBVIOUS
  <2> DEFINE r == [kind |-> "streambuf", sb |-> b.sb, alloc |-> b.alloc]
  <2>1. b = r
    BY DEF Streamed
  <2>2. r.kind = "streambuf"
    OBVIOUS
  <2> HIDE DEF r
  <2> QED BY <2>1, <2>2
<1> QED BY <1>1, <1>2, <1>3 DEF Sound

\* data() holds size() bytes, whichever buffer it is.
Holds(C, b) == db_data(b) \in Seq(C) /\ db_size(b) \in Nat /\ Len(db_data(b)) = db_size(b)

\* The size() of every buffer is the size of its data().
LEMMA DbHolds ==
  ASSUME NEW C, NEW b, Sound(C, b)
  PROVE  Holds(C, b)
<1>1. CASE b.kind = "static"
  <2>1. b.cells \in Seq(C) /\ b.in \in Nat /\ b.out \in Nat /\ b.in <= b.out /\ b.out <= Len(b.cells)
    BY <1>1, KindIs DEF Fixed
  <2>2. db_data(b) = SubSeq(b.cells, b.in + 1, b.out) /\ db_size(b) = b.out - b.in
    BY <1>1 DEF db_data, db_size
  <2>3. SubSeq(b.cells, b.in + 1, b.out) \in Seq(C) /\ Len(SubSeq(b.cells, b.in + 1, b.out)) = b.out - b.in
    BY <2>1, CutOut, SMTT(30)
  <2>4. b.out - b.in \in Nat
    BY <2>1
  <2> QED BY <2>2, <2>3, <2>4 DEF Holds
<1>2. CASE b.kind = "adapter"
  <2>1. Adapted(C, b)
    BY <1>2, KindIs
  <2>2. db_data(b) = AView(b) /\ db_size(b) = b.in_size
    BY <1>2, <2>1, ADataIs DEF db_data, db_size
  <2>3. b.in_size \in Nat
    BY <2>1, AdaptedFacts
  <2> QED BY <2>1, <2>2, <2>3, AViewIs DEF Holds
<1>3. CASE b.kind = "streambuf"
  <2>1. Shaped(C, b.sb)
    BY <1>3, KindIs DEF Streamed
  <2>2. db_data(b) = View(b.sb) /\ db_size(b) = b.sb.in_size
    BY <1>3, <2>1, DataIs DEF db_data, db_size
  <2>3. b.sb.in_size \in Nat
    BY <2>1, ShapedFacts
  <2> QED BY <2>1, <2>2, <2>3, DataIs DEF Holds
<1> QED BY <1>1, <1>2, <1>3, KindIs

\* prepare(n) throws exactly when n more than all that was ever committed does
\* not fit: consume() gives no room back, and a streambuf never throws
\* (static_streambuf::prepare, buffers_adapter::prepare).
THEOREM DbThrows ==
  ASSUME NEW C, NEW b, Sound(C, b), NEW n \in Nat
  PROVE  /\ db_throws(b, n) <=> b.kind # "streambuf" /\ Spent(b) + n > Space(b)
         /\ b.kind # "streambuf" => Spent(b) \in Nat /\ Space(b) \in Nat /\ Spent(b) <= Space(b)
<1>1. CASE b.kind = "static"
  <2>1. b.out \in Nat /\ b.out <= Len(b.cells) /\ Len(b.cells) \in Nat
    BY <1>1, KindIs DEF Fixed
  <2>2. db_throws(b, n) <=> n > Len(b.cells) - b.out
    BY <1>1 DEF db_throws
  <2>3. Spent(b) = b.out /\ Space(b) = Len(b.cells)
    BY <1>1 DEF Spent, Space
  <2>4. n > Len(b.cells) - b.out <=> b.out + n > Len(b.cells)
    BY <2>1
  <2> QED BY <1>1, <2>1, <2>2, <2>3, <2>4
<1>2. CASE b.kind = "adapter"
  <2> DEFINE nL == Len(b.bs)
             x == Off(b.bs, nL)
             e == AStop(b)
             o == b.out
             R == ARoom(b, nL)
  <2>1. Adapted(C, b)
    BY <1>2, KindIs
  <2>2. /\ nL \in Nat /\ o \in Nat /\ 1 <= o /\ o <= nL + 1 /\ e \in Nat /\ e <= x
        /\ \A j \in (o - 1)..nL : ARoom(b, j) = IF j = o - 1 THEN 0 ELSE Off(b.bs, j) - e
        /\ Cursor(C, b.bs, o, b.out_pos)
    <3>1. /\ nL \in Nat /\ o \in Nat /\ e \in Nat /\ e <= x
          /\ b.begin \in Nat /\ b.end \in Nat /\ 1 <= b.begin /\ b.begin <= b.out /\ b.out <= b.end /\ b.end <= nL + 1
          /\ \A j \in (o - 1)..nL : ARoom(b, j) = IF j = o - 1 THEN 0 ELSE Off(b.bs, j) - e
          /\ Cursor(C, b.bs, o, b.out_pos)
      BY <2>1, AdaptedFacts
    <3>2. 1 <= o /\ o <= nL + 1
      <4> DEFINE h == b.begin
                 t == b.end
      <4>1. h \in Nat /\ t \in Nat /\ 1 <= h /\ h <= o /\ o <= t /\ t <= nL + 1 /\ nL \in Nat /\ o \in Nat
        BY <3>1
      <4> HIDE DEF h, t, o, nL
      <4> QED BY <4>1
    <3> QED BY <3>1, <3>2
  <2>3. nL \in (o - 1)..nL /\ nL \in 0..nL
    <3> HIDE DEF nL, o
    <3> QED BY <2>2
  <2>4. R = IF nL = o - 1 THEN 0 ELSE x - e
    BY <2>2, <2>3
  <2>5. x \in Nat
    <3>1. b.bs \in Seq(Seq(C))
      BY <2>1, AdaptedFacts
    <3> QED BY <2>3, <3>1, OffStep
  <2>6. nL = o - 1 => e = x
    <3>1. o = Len(b.bs) + 1 => b.out_pos = 0
      BY <2>2 DEF Cursor
    <3>2. nL = o - 1 => o = Len(b.bs) + 1
      BY <2>2
    <3>3. nL = o - 1 => e = x + 0
      BY <3>1, <3>2 DEF AStop, Place
    <3>4. x + 0 = x
      <4> HIDE DEF x
      <4> QED BY <2>5
    <3> QED BY <3>3, <3>4
  <2>7. n > R <=> e + n > x
    <3>1. e \in Nat /\ e <= x
      BY <2>2
    <3> HIDE DEF R, x, e, nL, o
    <3> QED BY <2>4, <2>5, <2>6, <3>1
  <2>8. db_throws(b, n) <=> ~(n <= R)
    BY <1>2 DEF db_throws, Fits
  <2>9. Spent(b) = e /\ Space(b) = x
    BY <1>2 DEF Spent, Space
  <2>10. ~(n <= R) <=> n > R
    <3>1. R \in Int
      <4>1. e \in Nat
        BY <2>2
      <4> HIDE DEF R, x, e, nL, o
      <4> QED BY <2>4, <2>5, <4>1
    <3> HIDE DEF R
    <3> QED BY <3>1
  <2> QED BY <1>2, <2>2, <2>5, <2>7, <2>8, <2>9, <2>10
<1>3. CASE b.kind = "streambuf"
  BY <1>3 DEF db_throws
<1> QED BY <1>1, <1>2, <1>3, KindIs

-----------------------------------------------------------------------------
\* A write into n prepared bytes.
Writes(C, b, s, n) ==
  /\ Sound(C, b) /\ Raw \in C /\ n \in Nat /\ ~db_throws(b, n)
  /\ s \in Seq(C) /\ Len(s) \in Nat /\ Len(s) <= n

\* c holds what b holds; s is behind it.
Keeps(C, b, c) ==
  /\ Sound(C, c) /\ c.kind = b.kind /\ db_data(c) = db_data(b)
  /\ b.kind # "streambuf" => Spent(c) = Spent(b) /\ Space(c) = Space(b)

\* c is b with s behind it.
Appends(C, b, c, s) ==
  /\ Sound(C, c) /\ c.kind = b.kind /\ db_data(c) = db_data(b) \o s
  /\ b.kind # "streambuf" => Spent(c) = Spent(b) + Len(s) /\ Space(c) = Space(b)

\* s was written into what prepare(n) returned.
Poured(b, s, n) == db_fill(db_prepare(b, n), s)

\* The array after s was written behind out_.
LEMMA FixedPour ==
  ASSUME NEW C, NEW b, NEW s, NEW n, Writes(C, b, s, n), b.kind = "static"
  PROVE  /\ Fixed(C, Poured(b, s, n)) /\ Poured(b, s, n).last = b.out + n
         /\ Poured(b, s, n).in = b.in /\ Poured(b, s, n).out = b.out
         /\ Len(Poured(b, s, n).cells) = Len(b.cells) /\ b.out + n <= Len(b.cells)
         /\ \A i \in 1..Len(b.cells) :
              Poured(b, s, n).cells[i] = IF i > b.out /\ i <= b.out + Len(s) THEN s[i - b.out]
                                         ELSE b.cells[i]
<1> DEFINE new(i) == IF i > b.out /\ i <= b.out + Len(s) THEN s[i - b.out] ELSE b.cells[i]
           M == [i \in 1..Len(b.cells) |-> new(i)]
           la == b.out + n
           p == Poured(b, s, n)
<1>1. Fixed(C, b) /\ b.out + n <= Len(b.cells) /\ n \in Nat /\ s \in Seq(C) /\ Len(s) \in Nat /\ Len(s) <= n
  <2>1. Sound(C, b) /\ ~db_throws(b, n) /\ n \in Nat /\ s \in Seq(C) /\ Len(s) \in Nat /\ Len(s) <= n
    BY DEF Writes
  <2>2. b.out + n <= Len(b.cells)
    <3>1. ~(Spent(b) + n > Space(b)) /\ Spent(b) \in Nat /\ Space(b) \in Nat
      BY <2>1, DbThrows
    <3>2. Spent(b) = b.out /\ Space(b) = Len(b.cells)
      BY DEF Spent, Space
    <3> QED BY <2>1, <3>1, <3>2
  <2> QED BY <2>1, <2>2, KindIs
<1>2. /\ b \in [kind : {"static"}, cells : Seq(C), in : Nat, out : Nat, last : Nat]
      /\ b.in <= b.out /\ b.out <= Len(b.cells) /\ b.out \in Nat /\ b.cells \in Seq(C) /\ Len(b.cells) \in Nat
  BY <1>1 DEF Fixed
<1>3. p = [b EXCEPT !.last = la, !.cells = M]
  <2>1. db_prepare(b, n) = [b EXCEPT !.last = la]
    BY DEF db_prepare
  <2> DEFINE r == [b EXCEPT !.last = la]
  <2>2. la \in Nat
    BY <1>1, <1>2
  <2>3. r.kind = "static" /\ r.cells = b.cells /\ r.out = b.out
    <3> HIDE DEF la
    <3> QED BY <1>2, <2>2
  <2> HIDE DEF r
  <2>4. db_fill(r, s) = [r EXCEPT !.cells = [i \in 1..Len(@) |->
            IF i > r.out /\ i <= r.out + Len(s) THEN s[i - r.out] ELSE @[i]]]
    BY <2>3 DEF db_fill
  <2>5. db_fill(r, s) = [r EXCEPT !.cells = M]
    BY <2>3, <2>4
  <2>6. p = db_fill(r, s)
    BY <2>1 DEF Poured, r
  <2> HIDE DEF la, M
  <2>7. [r EXCEPT !.cells = M] = [b EXCEPT !.last = la, !.cells = M]
    BY DEF r
  <2> QED BY <2>5, <2>6, <2>7
<1>4. ASSUME NEW i \in 1..Len(b.cells) PROVE new(i) \in C
  <2>1. CASE i > b.out /\ i <= b.out + Len(s)
    <3>1. i - b.out \in 1..Len(s)
      BY <1>1, <1>2, <2>1
    <3> QED BY <1>1, <2>1, <3>1
  <2>2. CASE ~(i > b.out /\ i <= b.out + Len(s))
    BY <1>2, <2>2
  <2> QED BY <2>1, <2>2
<1> HIDE DEF new
<1>5. M \in Seq(C) /\ Len(M) = Len(b.cells) /\ \A i \in 1..Len(b.cells) : M[i] = new(i)
  BY <1>2, <1>4
<1>6. la \in Nat
  BY <1>1, <1>2
<1> HIDE DEF M, la
<1>7. /\ p \in [kind : {"static"}, cells : Seq(C), in : Nat, out : Nat, last : Nat]
      /\ p.cells = M /\ p.last = la /\ p.in = b.in /\ p.out = b.out
  <2> HIDE DEF p
  <2> QED BY <1>2, <1>3, <1>5, <1>6
<1> HIDE DEF p
<1>8. Fixed(C, p)
  BY <1>2, <1>5, <1>7 DEF Fixed
<1> USE DEF p, la
<1>9. \A i \in 1..Len(b.cells) : p.cells[i] = new(i)
  BY <1>5, <1>7
<1> QED BY <1>1, <1>5, <1>7, <1>8, <1>9 DEF new

\* A write to a static_streambuf,
LEMMA FixedAppends ==
  ASSUME NEW C, NEW b, NEW s, NEW n, Writes(C, b, s, n), b.kind = "static"
  PROVE  /\ Keeps(C, b, Poured(b, s, n))
         /\ Appends(C, b, db_commit(Poured(b, s, n), Len(s)), s)
<1> DEFINE p == Poured(b, s, n)
           l == Len(s)
           o == b.out
           y == o + l
           c == db_commit(p, l)
<1>1. /\ Fixed(C, p) /\ p.last = o + n /\ p.in = b.in /\ p.out = o
      /\ Len(p.cells) = Len(b.cells) /\ o + n <= Len(b.cells)
      /\ \A i \in 1..Len(b.cells) :
              p.cells[i] = IF i > o /\ i <= o + l THEN s[i - o] ELSE b.cells[i]
  BY FixedPour
<1>2. n \in Nat /\ s \in Seq(C) /\ l \in Nat /\ l <= n /\ Fixed(C, b)
  BY KindIs DEF Writes
<1>3. b.cells \in Seq(C) /\ b.in \in Nat /\ o \in Nat /\ b.in <= o /\ o <= Len(b.cells) /\ Len(b.cells) \in Nat
  BY <1>2 DEF Fixed
<1> HIDE DEF p
<1>4. p \in [kind : {"static"}, cells : Seq(C), in : Nat, out : Nat, last : Nat]
  BY <1>1 DEF Fixed
<1>5. c = [p EXCEPT !.out = y]
  <2>1. c = [p EXCEPT !.out = @ + Smaller(l, p.last - p.out)]
    BY <1>4 DEF db_commit
  <2>2. Smaller(l, p.last - p.out) = l
    <3>1. p.last - p.out = n
      BY <1>1, <1>2, <1>3
    <3> HIDE DEF l
    <3> QED BY <1>2, <3>1 DEF Smaller
  <2> QED BY <1>1, <2>1, <2>2
<1>6. y \in Nat /\ y <= Len(b.cells) /\ b.in <= y
  <2> HIDE DEF l, o
  <2> QED BY <1>1, <1>2, <1>3
<1> HIDE DEF c
<1>7. /\ c \in [kind : {"static"}, cells : Seq(C), in : Nat, out : Nat, last : Nat]
      /\ c.cells = p.cells /\ c.in = b.in /\ c.out = y /\ c.kind = "static"
  <2> HIDE DEF y
  <2> QED BY <1>1, <1>4, <1>5, <1>6
<1>8. Fixed(C, c)
  <2> HIDE DEF y
  <2> QED BY <1>1, <1>6, <1>7 DEF Fixed
<1> DEFINE u == SubSeq(b.cells, b.in + 1, o)
           z == o - b.in
<1>9. u \in Seq(C) /\ Len(u) = z /\ z \in Nat /\ \A i \in Nat : i >= 1 /\ i <= z => u[i] = b.cells[b.in + i]
  <2>1. z \in Nat
    <3> HIDE DEF o
    <3> QED BY <1>3
  <2> QED BY <1>3, <2>1, CutOut, SMTT(30)
<1> DEFINE v == SubSeq(p.cells, b.in + 1, o)
           w == SubSeq(p.cells, b.in + 1, y)
           us == u \o s
<1>10. p.cells \in Seq(C)
  BY <1>4
<1>11. v \in Seq(C) /\ Len(v) = z /\ \A i \in Nat : i >= 1 /\ i <= z => v[i] = p.cells[b.in + i]
  <2> DEFINE F == p.cells
             x == b.in
  <2>1. F \in Seq(C) /\ x \in Nat /\ o \in Nat /\ x <= o /\ o <= Len(F)
    BY <1>1, <1>3, <1>10
  <2> HIDE DEF o, F, x
  <2>2. /\ SubSeq(F, x + 1, o) \in Seq(C) /\ Len(SubSeq(F, x + 1, o)) = o - x
        /\ \A i \in Nat : i >= 1 /\ i <= o - x => SubSeq(F, x + 1, o)[i] = F[x + i]
    BY <2>1, CutOut
  <2> QED BY <2>2 DEF F, x
<1>12. w \in Seq(C) /\ Len(w) = z + l /\ \A i \in Nat : i >= 1 /\ i <= z + l => w[i] = p.cells[b.in + i]
  <2>1. y - b.in = z + l
    <3> HIDE DEF o, l
    <3> QED BY <1>2, <1>3
  <2> DEFINE F == p.cells
             x == b.in
  <2>2. F \in Seq(C) /\ x \in Nat /\ y \in Nat /\ x <= y /\ y <= Len(F) /\ y - x = z + l
    BY <1>1, <1>3, <1>6, <1>10, <2>1
  <2> HIDE DEF y, z, l, F, x
  <2>3. /\ SubSeq(F, x + 1, y) \in Seq(C) /\ Len(SubSeq(F, x + 1, y)) = y - x
        /\ \A i \in Nat : i >= 1 /\ i <= y - x => SubSeq(F, x + 1, y)[i] = F[x + i]
    BY <2>2, CutOut
  <2> QED BY <2>2, <2>3 DEF F, x
<1>13. v = u
  <2>1. ASSUME NEW i \in 1..z PROVE v[i] = u[i]
    <3> DEFINE q == b.in + i
    <3>1. i \in Nat /\ i >= 1 /\ i <= z /\ q \in 1..Len(b.cells) /\ ~(q > o)
      <4> HIDE DEF o
      <4> QED BY <1>3
    <3>2. p.cells[q] = b.cells[q]
      <4> HIDE DEF q, o
      <4> QED BY <1>1, <3>1
    <3> HIDE DEF v, u, z
    <3> QED BY <1>9, <1>11, <3>1, <3>2
  <2> HIDE DEF v, u, z
  <2> QED BY <1>9, <1>11, <2>1, SeqEqual
<1>14. us \in Seq(C) /\ Len(us) = z + l
  <2> HIDE DEF u, z
  <2> QED BY <1>2, <1>9
<1>15. w = us
  <2>1. ASSUME NEW i \in 1..(z + l) PROVE w[i] = us[i]
    <3> DEFINE g == b.in
               q == g + i
               N == Len(b.cells)
    <3>0. /\ z \in Nat /\ z = o - g /\ g \in Nat /\ o \in Nat /\ N \in Nat /\ l \in Nat /\ n \in Nat
          /\ g <= o /\ o <= N /\ o + n <= N /\ l <= n
      BY <1>1, <1>2, <1>3, <1>9
    <3>1. i \in Nat /\ i >= 1 /\ i <= z + l /\ q \in 1..N
      <4> HIDE DEF o, l, z, g, N
      <4> QED BY <3>0
    <3>2. p.cells[q] = IF q > o /\ q <= o + l THEN s[q - o] ELSE b.cells[q]
      <4> HIDE DEF q, o
      <4> QED BY <1>1, <3>1
    <3>3. w[i] = p.cells[q]
      <4> HIDE DEF w, z, l
      <4> QED BY <1>12, <3>1
    <3>4. CASE i <= z
      <4>1. us[i] = u[i]
        <5> HIDE DEF u, z
        <5> QED BY <1>2, <1>9, <3>1, <3>4, ConcatAt
      <4>2. ~(q > o)
        <5> HIDE DEF o, z, g
        <5> QED BY <3>0, <3>1, <3>4
      <4> HIDE DEF w, us, u, q, z
      <4> QED BY <1>9, <3>1, <3>2, <3>3, <3>4, <4>1, <4>2 DEF q
    <3>5. CASE ~(i <= z)
      <4> DEFINE k == i - z
      <4>1. k \in Nat /\ k >= 1 /\ k <= l /\ z + k = i /\ q > o /\ q <= o + l /\ q - o = k
        <5> HIDE DEF o, z, l, g
        <5> QED BY <3>0, <3>1, <3>5
      <4>2. us[z + k] = s[k]
        <5>1. \A j \in Nat : j >= 1 /\ j <= l => us[z + j] = s[j]
          <6> HIDE DEF u, z
          <6> QED BY <1>2, <1>9, ConcatAt
        <5> HIDE DEF us, z, k, l
        <5> QED BY <4>1, <5>1
      <4> HIDE DEF w, us, u, q, z, k, o, l
      <4> QED BY <3>2, <3>3, <4>1, <4>2
    <3> QED BY <3>4, <3>5
  <2> DEFINE zl == z + l
  <2>2. \A i \in 1..zl : w[i] = us[i]
    BY <2>1
  <2>3. Len(w) = zl /\ Len(us) = zl /\ w \in Seq(C) /\ us \in Seq(C)
    BY <1>12, <1>14
  <2> HIDE DEF w, us, zl
  <2> QED BY <2>2, <2>3, SeqEqual
<1>16. db_data(b) = u /\ Spent(b) = o /\ Space(b) = Len(b.cells)
  BY DEF db_data, Spent, Space
<1>17. db_data(p) = v /\ Spent(p) = o /\ Space(p) = Len(b.cells) /\ p.kind = "static"
  BY <1>1, <1>4 DEF db_data, Spent, Space
<1>18. db_data(c) = w /\ Spent(c) = y /\ Space(c) = Len(b.cells) /\ c.kind = "static"
  <2> HIDE DEF y
  <2> QED BY <1>1, <1>7 DEF db_data, Spent, Space
<1> HIDE DEF u, v, w
<1>19. Keeps(C, b, p)
  BY <1>1, <1>13, <1>16, <1>17 DEF Keeps, Sound
<1>20. Appends(C, b, c, s)
  BY <1>8, <1>15, <1>16, <1>18 DEF Appends, Sound
<1> USE DEF c, p
<1> QED BY <1>19, <1>20

\* to a buffers_adapter,
LEMMA AdaptedAppends ==
  ASSUME NEW C, NEW b, NEW s, NEW n, Writes(C, b, s, n), b.kind = "adapter"
  PROVE  /\ Keeps(C, b, Poured(b, s, n))
         /\ Appends(C, b, db_commit(Poured(b, s, n), Len(s)), s)
<1> DEFINE p == aprepare(b, n)
           f == AFill(p, s)
           c == acommit(f, Len(s))
<1>1. Adapted(C, b) /\ n \in Nat /\ s \in Seq(C) /\ Len(s) <= n /\ Fits(b, n)
  <2>1. Sound(C, b) /\ n \in Nat /\ s \in Seq(C) /\ Len(s) <= n /\ ~db_throws(b, n)
    BY DEF Writes
  <2>2. Fits(b, n)
    BY <2>1 DEF db_throws
  <2> QED BY <2>1, <2>2, KindIs
<1>2. APrepares(C, b, n)
  BY <1>1 DEF APrepares
<1>3. AppendsTo(C, b, c, s)
  <2>1. AppendsTo(C, b, AWritten(b, s, n), s)
    BY <1>1, <1>2, AWriteAppends
  <2> QED BY <2>1 DEF AWritten
<1>4. /\ Adapted(C, p) /\ APrepared(p, n) /\ p.bs = b.bs /\ p.begin = b.begin /\ p.in_pos = b.in_pos
      /\ p.out = b.out /\ p.out_pos = b.out_pos /\ p.kind = "adapter"
  BY <1>2, APrepareFits
<1>5. Poured(b, s, n) = f
  <2>1. db_prepare(b, n) = p
    BY DEF db_prepare
  <2> HIDE DEF p
  <2>2. db_fill(p, s) = f
    BY <1>4 DEF db_fill, AFill
  <2> QED BY <2>1, <2>2 DEF Poured
<1> HIDE DEF p
<1>6. /\ Adapted(C, f) /\ AView(f) = AView(p) /\ AStop(f) = AStop(p)
      /\ f.kind = "adapter" /\ Off(f.bs, Len(f.bs)) = Off(p.bs, Len(p.bs))
  <2>1. AFills(C, p, s, n)
    BY <1>1, <1>4 DEF AFills
  <2> HIDE DEF f
  <2>2. f = AFill(p, s)
    BY DEF f
  <2> QED BY <2>1, <2>2, AFillWrites
<1> HIDE DEF f
<1>7. db_commit(f, Len(s)) = c
  BY <1>6 DEF db_commit
<1> HIDE DEF c
<1>8. AView(p) = AView(b) /\ AStop(p) = AStop(b)
  BY <1>4, ASameView
<1>9. db_data(b) = AView(b) /\ Spent(b) = AStop(b) /\ Space(b) = Off(b.bs, Len(b.bs))
  BY <1>1, ADataIs DEF db_data, Spent, Space
<1>10. db_data(f) = AView(f) /\ Spent(f) = AStop(f) /\ Space(f) = Off(f.bs, Len(f.bs))
  BY <1>6, ADataIs DEF db_data, Spent, Space
<1>11. Keeps(C, b, f)
  BY <1>4, <1>6, <1>8, <1>9, <1>10 DEF Keeps, Sound
<1>12. /\ Adapted(C, c) /\ AView(c) = AView(b) \o s /\ AStop(c) = AStop(b) + Len(s)
       /\ Off(c.bs, Len(c.bs)) = Off(b.bs, Len(b.bs))
  BY <1>3 DEF AppendsTo
<1>13. c.kind = "adapter"
  BY <1>12 DEF Adapted, AType
<1>14. db_data(c) = AView(c) /\ Spent(c) = AStop(c) /\ Space(c) = Off(c.bs, Len(c.bs))
  BY <1>12, <1>13, ADataIs DEF db_data, Spent, Space
<1>15. Appends(C, b, c, s)
  BY <1>9, <1>12, <1>13, <1>14 DEF Appends, Sound
<1> QED BY <1>5, <1>7, <1>11, <1>15

\* A basic_streambuf put back into the record.
With(b, x) == [b EXCEPT !.sb = x]

\* It is one still.
LEMMA StreamedWith ==
  ASSUME NEW C, NEW b, Streamed(C, b), NEW x
  PROVE  /\ With(b, x).sb = x /\ With(b, x).kind = "streambuf"
         /\ \A y : [With(b, x) EXCEPT !.sb = y] = With(b, y)
<1> DEFINE r(y) == [kind |-> "streambuf", sb |-> y, alloc |-> b.alloc]
           c == [b EXCEPT !.sb = x]
<1>1. b = r(b.sb) /\ b.alloc \in Nat \ {0}
  BY DEF Streamed
<1>2. \A y : [b EXCEPT !.sb = y] = r(y)
  <2> TAKE y
  <2>1. [r(b.sb) EXCEPT !.sb = y] = r(y)
    OBVIOUS
  <2> HIDE DEF r
  <2> QED BY <1>1, <2>1
<1>3. c = r(x)
  BY <1>2
<1>4. r(x).sb = x /\ r(x).alloc = b.alloc /\ r(x).kind = "streambuf" /\ r(b.sb).kind = "streambuf"
  OBVIOUS
<1>5. \A y : [r(x) EXCEPT !.sb = y] = r(y)
  OBVIOUS
<1> HIDE DEF c
<1>6. c.sb = x /\ c.alloc = b.alloc /\ c.kind = "streambuf" /\ b.kind = "streambuf"
  <2> HIDE DEF r
  <2> QED BY <1>1, <1>3, <1>4
<1>7. \A y : [c EXCEPT !.sb = y] = [b EXCEPT !.sb = y]
  <2> HIDE DEF r
  <2> QED BY <1>2, <1>3, <1>5
<1> USE DEF c
<1> QED BY <1>6, <1>7 DEF With

\* Likewise, for a buffer given by its fields.
LEMMA StreamedSound ==
  ASSUME NEW C, NEW b, Streamed(C, b), NEW x, Shaped(C, x), NEW c, c = [b EXCEPT !.sb = x]
  PROVE  Streamed(C, c) /\ db_data(c) = View(x) /\ c.kind = "streambuf"
<1> DEFINE r(y) == [kind |-> "streambuf", sb |-> y, alloc |-> b.alloc]
<1>1. b = r(b.sb) /\ b.alloc \in Nat \ {0}
  BY DEF Streamed
<1>2. c = r(x)
  <2>1. [r(b.sb) EXCEPT !.sb = x] = r(x)
    OBVIOUS
  <2> HIDE DEF r
  <2> QED BY <1>1, <2>1
<1>3. r(x).sb = x /\ r(x).alloc = b.alloc /\ r(x).kind = "streambuf"
  OBVIOUS
<1>4. c.sb = x /\ c.alloc = b.alloc /\ c.kind = "streambuf"
  <2> HIDE DEF r
  <2> QED BY <1>2, <1>3
<1>5. Streamed(C, c)
  BY <1>1, <1>2, <1>4 DEF Streamed
<1>6. db_data(c) = Flat(Data(c.sb))
  BY <1>4 DEF db_data
<1>7. Flat(Data(x)) = View(x)
  BY DataIs
<1> QED BY <1>4, <1>5, <1>6, <1>7

\* A write to a streambuf.
LEMMA StreamedAppends ==
  ASSUME NEW C, NEW b, NEW s, NEW n, Writes(C, b, s, n), b.kind = "streambuf"
  PROVE  /\ Keeps(C, b, Poured(b, s, n))
         /\ Appends(C, b, db_commit(Poured(b, s, n), Len(s)), s)
<1> DEFINE q == b.sb
           al == b.alloc
           p == Prepare(q, n, al)
           f == Fill(p, s)
           c == Commit(f, Len(s))
<1>1. Streamed(C, b) /\ n \in Nat /\ s \in Seq(C) /\ Len(s) <= n /\ Raw \in C
  BY KindIs DEF Writes
<1>2. Shaped(C, q) /\ al \in Nat \ {0}
  BY <1>1 DEF Streamed
<1>3. Prepares(C, q, n, al)
  BY <1>1, <1>2 DEF Prepares
<1>4. Shaped(C, c) /\ View(c) = View(q) \o s
  <2>1. Shaped(C, Written(q, s, n, al)) /\ View(Written(q, s, n, al)) = View(q) \o s
    BY <1>1, <1>3, WriteAppends
  <2> QED BY <2>1 DEF Written
<1>5. Shaped(C, p) /\ View(p) = View(q) /\ HasPrepared(p, n)
  BY <1>3, PrepareGrows
<1>6. Shaped(C, f) /\ View(f) = View(p)
  <2>1. Fills(C, p, s, n)
    BY <1>1, <1>5 DEF Fills
  <2> HIDE DEF f, p
  <2>2. f = Fill(p, s)
    BY DEF f
  <2> QED BY <2>1, <2>2, FillWrites
<1>7. Poured(b, s, n) = With(b, f)
  <2>1. db_prepare(b, n) = With(b, p)
    BY DEF db_prepare, With
  <2> HIDE DEF p
  <2>2. With(b, p).kind = "streambuf" /\ With(b, p).sb = p
    BY <1>1, StreamedWith
  <2>3. [With(b, p) EXCEPT !.sb = f] = With(b, f)
    BY <1>1, StreamedWith
  <2> DEFINE r == With(b, p)
  <2> HIDE DEF r
  <2>4. db_fill(r, s) = [r EXCEPT !.sb = f]
    BY <2>2 DEF db_fill, r
  <2> QED BY <2>1, <2>3, <2>4 DEF Poured, r
<1> HIDE DEF f
<1>8. db_commit(With(b, f), Len(s)) = With(b, c)
  <2>2. With(b, f).kind = "streambuf" /\ With(b, f).sb = f
    BY <1>1, StreamedWith
  <2>3. [With(b, f) EXCEPT !.sb = c] = With(b, c)
    BY <1>1, StreamedWith
  <2> DEFINE r == With(b, f)
  <2> HIDE DEF r
  <2>4. db_commit(r, Len(s)) = [r EXCEPT !.sb = c]
    BY <2>2 DEF db_commit, r
  <2> QED BY <2>3, <2>4 DEF r
<1> HIDE DEF c, p
<1>9. db_data(b) = View(q)
  BY <1>2, DataIs DEF db_data
<1>10. Streamed(C, With(b, f)) /\ db_data(With(b, f)) = View(f) /\ With(b, f).kind = "streambuf"
  <2> DEFINE r == With(b, f)
  <2>1. r = [b EXCEPT !.sb = f]
    BY DEF With
  <2> HIDE DEF r
  <2>2. Streamed(C, r) /\ db_data(r) = View(f) /\ r.kind = "streambuf"
    BY <1>1, <1>6, <2>1, StreamedSound
  <2> QED BY <2>2 DEF r
<1>11. Streamed(C, With(b, c)) /\ db_data(With(b, c)) = View(c) /\ With(b, c).kind = "streambuf"
  <2> DEFINE r == With(b, c)
  <2>1. r = [b EXCEPT !.sb = c]
    BY DEF With
  <2> HIDE DEF r
  <2>2. Streamed(C, r) /\ db_data(r) = View(c) /\ r.kind = "streambuf"
    BY <1>1, <1>4, <2>1, StreamedSound, SMTT(30)
  <2> QED BY <2>2 DEF r
<1>12. Keeps(C, b, With(b, f))
  BY <1>5, <1>6, <1>9, <1>10 DEF Keeps, Sound
<1>13. Appends(C, b, With(b, c), s)
  BY <1>4, <1>9, <1>11 DEF Appends, Sound
<1> QED BY <1>7, <1>8, <1>12, <1>13

\* prepare(n) that does not throw and a write of at most n bytes leave the data of
\* a DynamicBuffer alone, and the commit puts these bytes behind it: what
\* read_frame relies on, of static_streambuf, buffers_adapter and basic_streambuf.
THEOREM DbAppends ==
  ASSUME NEW C, NEW b, NEW s, NEW n, Writes(C, b, s, n)
  PROVE  /\ Keeps(C, b, Poured(b, s, n))
         /\ Appends(C, b, db_commit(Poured(b, s, n), Len(s)), s)
<1>1. b.kind \in {"static", "adapter", "streambuf"}
  BY KindIs DEF Writes
<1> QED BY <1>1, FixedAppends, AdaptedAppends, StreamedAppends

-----------------------------------------------------------------------------
\* c is b without its first n bytes, or without all; nothing was given back.
Sheds(C, b, c, n) ==
  /\ Sound(C, c) /\ c.kind = b.kind /\ db_data(c) = SubSeq(db_data(b), n + 1, db_size(b))
  /\ b.kind # "streambuf" => Spent(c) = Spent(b) /\ Space(c) = Space(b)

\* consume(n) on a static_streambuf.
LEMMA FixedSheds ==
  ASSUME NEW C, NEW b, Sound(C, b), NEW n \in Nat, b.kind = "static"
  PROVE  Sheds(C, b, db_consume(b, n), n)
<1> DEFINE o == b.out
           g == b.in
           z == o - g
           d == Smaller(n, z)
           y == g + d
           c == db_consume(b, n)
           V == SubSeq(b.cells, g + 1, o)
           w == SubSeq(b.cells, y + 1, o)
<1>1. Fixed(C, b)
  BY KindIs
<1>2. /\ b \in [kind : {"static"}, cells : Seq(C), in : Nat, out : Nat, last : Nat]
      /\ b.cells \in Seq(C) /\ g \in Nat /\ o \in Nat /\ g <= o /\ o <= Len(b.cells)
  BY <1>1 DEF Fixed
<1>3. z \in Nat /\ d \in Nat /\ d = (IF n <= z THEN n ELSE z) /\ y \in Nat /\ y <= o /\ o - y = z - d
  <2>1. z \in Nat
    <3> HIDE DEF g, o
    <3> QED BY <1>2
  <2>2. d = (IF n < z THEN n ELSE z) /\ z = o - g /\ y = g + d
    BY DEF Smaller
  <2> HIDE DEF d, g, o, z, y
  <2> QED BY <1>2, <2>1, <2>2
<1>4. c = [b EXCEPT !.in = y]
  BY DEF db_consume
<1> HIDE DEF c
<1>5. /\ c \in [kind : {"static"}, cells : Seq(C), in : Nat, out : Nat, last : Nat]
      /\ c.cells = b.cells /\ c.in = y /\ c.out = o /\ c.kind = "static"
  <2> HIDE DEF y
  <2> QED BY <1>2, <1>3, <1>4
<1>6. Fixed(C, c)
  <2> HIDE DEF y
  <2> QED BY <1>2, <1>3, <1>5 DEF Fixed
<1>7. V \in Seq(C) /\ Len(V) = z /\ \A i \in Nat : i >= 1 /\ i <= z => V[i] = b.cells[g + i]
  <2> HIDE DEF g, o
  <2> QED BY <1>2, CutOut
<1>8. w \in Seq(C) /\ Len(w) = o - y /\ \A i \in Nat : i >= 1 /\ i <= o - y => w[i] = b.cells[y + i]
  <2> HIDE DEF y, o
  <2> QED BY <1>2, <1>3, CutOut
<1>9. Len(w) = IF n <= z THEN z - n ELSE 0
  <2> HIDE DEF w, y, o, d, z
  <2> QED BY <1>3, <1>8
<1>10. ASSUME NEW i \in Nat, i >= 1, i <= Len(w) PROVE w[i] = V[n + i]
  <2>1. d = n /\ n + i \in Nat /\ n + i >= 1 /\ n + i <= z /\ y + i = g + (n + i) /\ i <= o - y
    <3>1. y = g + d
      OBVIOUS
    <3> HIDE DEF w, y, o, d, z, g
    <3> QED BY <1>2, <1>3, <1>8, <1>9, <1>10, <3>1
  <2>2. w[i] = b.cells[y + i]
    BY <1>8, <1>10, <2>1
  <2>3. V[n + i] = b.cells[g + (n + i)]
    BY <1>7, <2>1
  <2> QED BY <2>1, <2>2, <2>3
<1> HIDE DEF w, V, z
<1>11. w = SubSeq(V, n + 1, z)
  BY <1>7, <1>8, <1>9, <1>10, DropIs
<1>12. db_data(b) = V /\ db_size(b) = z /\ Spent(b) = o /\ Space(b) = Len(b.cells)
  BY DEF db_data, db_size, Spent, Space, V, z
<1>13. db_data(c) = w /\ Spent(c) = o /\ Space(c) = Len(b.cells)
  <2> HIDE DEF y
  <2> QED BY <1>5 DEF db_data, Spent, Space, w
<1>14. Sheds(C, b, c, n)
  BY <1>5, <1>6, <1>11, <1>12, <1>13 DEF Sheds, Sound
<1> QED BY <1>14 DEF c

\* consume(n) drops the first n bytes of a DynamicBuffer, all of them when there
\* are fewer, and gives no room back (consume of the three buffers).
THEOREM DbSheds ==
  ASSUME NEW C, NEW b, Sound(C, b), NEW n \in Nat
  PROVE  Sheds(C, b, db_consume(b, n), n)
<1>1. CASE b.kind = "static"
  BY <1>1, FixedSheds
<1>2. CASE b.kind = "adapter"
  <2> DEFINE c == aconsume(b, n)
  <2>1. Adapted(C, b)
    BY <1>2, KindIs
  <2>2. DropsFrom(C, b, c, n)
    BY <2>1, AConsumeDrops
  <2>3. db_consume(b, n) = c
    BY <1>2 DEF db_consume
  <2> HIDE DEF c
  <2>4. /\ Adapted(C, c) /\ AView(c) = SubSeq(AView(b), n + 1, b.in_size)
        /\ AStop(c) = AStop(b) /\ c.bs = b.bs
    BY <2>2 DEF DropsFrom
  <2>5. c.kind = "adapter"
    BY <2>4 DEF Adapted, AType
  <2>6. db_data(b) = AView(b) /\ db_size(b) = b.in_size /\ Spent(b) = AStop(b) /\ Space(b) = Off(b.bs, Len(b.bs))
    BY <1>2, <2>1, ADataIs DEF db_data, db_size, Spent, Space
  <2>7. db_data(c) = AView(c) /\ Spent(c) = AStop(c) /\ Space(c) = Off(c.bs, Len(c.bs))
    BY <2>4, <2>5, ADataIs DEF db_data, Spent, Space
  <2> QED BY <1>2, <2>3, <2>4, <2>5, <2>6, <2>7 DEF Sheds, Sound
<1>3. CASE b.kind = "streambuf"
  <2> DEFINE q == b.sb
             x == Consume(q, n)
             c == [b EXCEPT !.sb = x]
  <2>1. Streamed(C, b) /\ Shaped(C, q)
    BY <1>3, KindIs DEF Streamed
  <2>2. Shaped(C, x) /\ View(x) = SubSeq(View(q), n + 1, q.in_size)
    <3>1. Consumes(C, q, n)
      BY <2>1 DEF Consumes
    <3> QED BY <3>1, ConsumeDrops
  <2>3. db_consume(b, n) = c
    BY <1>3 DEF db_consume
  <2>4. db_data(b) = View(q) /\ db_size(b) = q.in_size
    BY <1>3, <2>1, DataIs DEF db_data, db_size
  <2> HIDE DEF x
  <2>5. Streamed(C, c) /\ db_data(c) = View(x) /\ c.kind = "streambuf"
    <3>1. c = [b EXCEPT !.sb = x]
      OBVIOUS
    <3> HIDE DEF c
    <3> QED BY <2>1, <2>2, <3>1, StreamedSound, ZenonT(40)
  <2> HIDE DEF c
  <2> QED BY <1>3, <2>2, <2>3, <2>4, <2>5 DEF Sheds, Sound
<1> QED BY <1>1, <1>2, <1>3, KindIs

-----------------------------------------------------------------------------
(* consuming_buffers.                                                      *)

\* A consuming_buffers stands at a cell of its list, or behind the last one.
Consumable(C, c) == c \in [bs : Seq(Seq(C)), begin : Nat, skip : Nat] /\ Cursor(C, c.bs, c.begin, c.skip)
\* How many cells are before it.
FrontAt(c) == Place(c.bs, c.begin, c.skip)

\* What is left of a consuming_buffers is what lies behind it.
LEMMA RestAt ==
  ASSUME NEW C, NEW c, Consumable(C, c)
  PROVE  rest_of(c) = SubSeq(Flat(c.bs), FrontAt(c) + 1, Len(Flat(c.bs)))
<1> DEFINE L == c.bs
           nL == Len(L)
           g == c.begin - 1
           x == Off(L, g)
           k == c.skip
           M == SubSeq(L, g + 1, nL)
           F == Flat(L)
           G == Flat(M)
           P == FrontAt(c)
           a == Len(F)
           m == Len(G)
           u == SubSeq(G, k + 1, m)
           v == SubSeq(F, P + 1, a)
<1>1. Cursor(C, L, c.begin, k)
  BY DEF Consumable
<1>2. /\ L \in Seq(Seq(C)) /\ nL \in Nat /\ c.begin \in Nat /\ k \in Nat /\ c.begin >= 1 /\ c.begin <= nL + 1
      /\ Off(L, c.begin - 1) \in Nat /\ P = x + k /\ P \in Nat /\ P <= Off(L, nL)
  BY <1>1, CursorFacts DEF FrontAt
<1>3. g \in Nat /\ g <= nL /\ g + 1 = c.begin /\ g \in 0..nL
  <2> DEFINE h == c.begin
  <2>1. h \in Nat /\ h >= 1 /\ h <= nL + 1 /\ g = h - 1 /\ nL \in Nat
    BY <1>2
  <2> HIDE DEF h, nL, g
  <2>2. g \in Nat /\ g <= nL /\ g + 1 = h /\ g \in 0..nL
    BY <2>1
  <2> QED BY <2>2 DEF h
<1> HIDE DEF g
<1>4. M \in Seq(Seq(C)) /\ Len(M) = nL - g /\ \A i \in Nat : i >= 1 /\ i <= nL - g => M[i] = L[g + i]
  <2> HIDE DEF L
  <2> QED BY <1>2, <1>3, CutOut
<1>5. rest_of(c) = u
  BY <1>3 DEF rest_of
<1> HIDE DEF M
<1>6. /\ Off(M, Len(M)) = Off(L, nL) - x
      /\ \A p \in 1..Off(M, Len(M)) : G[p] = F[x + p]
  <2>1. \A i \in 1..Len(M) : M[i] = L[g + i]
    <3> HIDE DEF nL, L
    <3> QED BY <1>2, <1>3, <1>4
  <2>2. /\ \A i \in 0..Len(M) : Off(M, i) = Off(L, g + i) - Off(L, g)
        /\ \A p \in 1..Off(M, Len(M)) : Flat(M)[p] = Flat(L)[Off(L, g) + p]
    <3> HIDE DEF L
    <3> QED BY <1>2, <1>3, <1>4, <2>1, TailParts, ZenonT(40) DEF nL
  <2>3. Len(M) \in 0..Len(M) /\ g + Len(M) = nL
    <3> HIDE DEF nL
    <3> QED BY <1>2, <1>3, <1>4
  <2> QED BY <2>2, <2>3
<1>7. F \in Seq(C) /\ a = Off(L, nL) /\ G \in Seq(C) /\ m = Off(M, Len(M)) /\ a \in Nat /\ m \in Nat
  BY <1>2, <1>4, FlatAt
<1>8. m = a - x /\ x \in Nat
  BY <1>2, <1>6, <1>7 DEF g
<1> DEFINE z == m - k
<1>9. z \in Nat /\ k <= m /\ P <= a /\ a - P = z
  <2>1. P <= a /\ P = x + k
    BY <1>2, <1>7
  <2> HIDE DEF P, a, x, k, m
  <2> QED BY <1>2, <1>7, <1>8, <2>1, SMTT(30)
<1>10. u \in Seq(C) /\ Len(u) = z /\ \A i \in Nat : i >= 1 /\ i <= z => u[i] = G[k + i]
  <2> HIDE DEF G, m, k
  <2>1. G \in Seq(C) /\ k \in Nat /\ m \in Nat /\ k <= m /\ m <= Len(G)
    BY <1>2, <1>7, <1>9 DEF m
  <2> QED BY <2>1, CutOut
<1>11. v \in Seq(C) /\ Len(v) = z /\ \A i \in Nat : i >= 1 /\ i <= z => v[i] = F[P + i]
  <2> HIDE DEF F, P, a
  <2>1. F \in Seq(C) /\ P \in Nat /\ a \in Nat /\ P <= a /\ a <= Len(F)
    BY <1>2, <1>7, <1>9 DEF a
  <2>2. /\ SubSeq(F, P + 1, a) \in Seq(C) /\ Len(SubSeq(F, P + 1, a)) = a - P
        /\ \A i \in Nat : i >= 1 /\ i <= a - P => SubSeq(F, P + 1, a)[i] = F[P + i]
    BY <2>1, CutOut
  <2> QED BY <1>9, <2>2
<1>12. ASSUME NEW i \in 1..z PROVE u[i] = v[i]
  <2>1. i \in Nat /\ i >= 1 /\ i <= z
    <3> HIDE DEF z
    <3> QED BY <1>9
  <2>2. k + i \in 1..m /\ x + (k + i) = P + i
    <3>1. P = x + k
      BY <1>2
    <3> HIDE DEF m, P, x, k
    <3> QED BY <1>2, <1>7, <1>8, <1>9, <2>1, <3>1
  <2>3. G[k + i] = F[x + (k + i)]
    BY <1>6, <1>7, <2>2
  <2> QED BY <1>10, <1>11, <2>1, <2>2, <2>3
<1> HIDE DEF u, v, z
<1>13. u = v
  BY <1>10, <1>11, <1>12, SeqEqual
<1> QED BY <1>5, <1>13 DEF v

\* consume(n) moves it n cells on.
MovesOn(C, b, c, n) == Consumable(C, c) /\ c.bs = b.bs /\ FrontAt(c) = FrontAt(b) + n

\* consume(n) on a consuming_buffers moves it n bytes on, over any buffers, empty
\* ones among them (consuming_buffers::consume).
THEOREM ConsumeFront ==
  ASSUME NEW C, NEW b, Consumable(C, b), NEW n \in Nat, FrontAt(b) + n <= Len(Flat(b.bs))
  PROVE  MovesOn(C, b, consume_front(b, n), n)
<1> DEFINE L == b.bs
           nL == Len(L)
           h == b.begin
           k == b.skip
           P == FrontAt(b)
           a == Off(L, nL)
           w == Off(L, h - 1)
           left(j) == SumFunction([i \in h..j |-> Len(L[i])]) - k
           H == {j \in h..nL : left(j) <= n}
           gone == Cardinality(H)
           past == IF gone = 0 THEN 0 ELSE left(h + gone - 1)
           G == h + gone
           sk == IF gone = 0 THEN k + n ELSE IF G > nL THEN 0 ELSE n - past
           c == consume_front(b, n)
<1>1. c = IF n = 0 \/ h > nL THEN b ELSE [b EXCEPT !.begin = G, !.skip = sk]
  BY Zenon DEF consume_front
<1>2. Cursor(C, L, h, k) /\ b \in [bs : Seq(Seq(C)), begin : Nat, skip : Nat]
  BY DEF Consumable
<1>3. /\ L \in Seq(Seq(C)) /\ nL \in Nat /\ h \in Nat /\ k \in Nat /\ h >= 1 /\ h <= nL + 1
      /\ w \in Nat /\ P = w + k /\ P \in Nat /\ P <= a
      /\ \A j \in h..nL : P <= Off(L, j)
  BY <1>2, CursorFacts DEF FrontAt
<1>4. a \in Nat /\ P + n <= a
  <2>1. nL \in 0..nL
    <3> HIDE DEF nL
    <3> QED BY <1>3
  <2>2. a \in Nat /\ Len(Flat(L)) = a
    BY <1>3, <2>1, OffStep, FlatAt
  <2> QED BY <2>2
<1>5. CASE n = 0 \/ h > nL
  <2>1. n = 0
    <3>1. ASSUME h > nL PROVE n = 0
      <4>1. h = nL + 1 /\ h - 1 = nL
        <5> HIDE DEF h, nL
        <5> QED BY <1>3, <3>1
      <4>2. k = 0
        BY <1>2, <4>1 DEF Cursor
      <4>3. w = a
        BY <4>1
      <4> HIDE DEF w, a, P, k
      <4> QED BY <1>3, <1>4, <4>2, <4>3
    <3> QED BY <1>5, <3>1
  <2>2. c = b
    BY <1>1, <1>5
  <2>3. P + n = P
    <3> HIDE DEF P
    <3> QED BY <1>3, <2>1
  <2> QED BY <2>2, <2>3 DEF MovesOn
<1>6. CASE ~(n = 0 \/ h > nL)
  <2>1. h \in 1..nL /\ h - 1 \in 0..nL /\ h \in 1..(nL+1)
    <3> HIDE DEF h, nL
    <3> QED BY <1>3, <1>6
  <2>2. ASSUME NEW j \in h..nL
        PROVE  left(j) = Off(L, j) - P /\ Off(L, j) \in Nat /\ left(j) \in Int /\ P <= Off(L, j) /\ j \in 1..nL
    <3>1. j \in 0..nL /\ j \in (h-1)..nL /\ j # h - 1 /\ j \in 1..nL
      <4> HIDE DEF h, nL
      <4> QED BY <2>1
    <3>2. Off(L, j) \in Nat
      BY <1>3, <3>1, OffStep
    <3>3. SumFunction([i \in h..j |-> Len(L[i])]) = Off(L, j) - w
      <4>1. SumFunction([i \in h..j |-> Len(L[i])]) = IF j = h - 1 THEN 0 ELSE Off(L, j) - w
        BY <1>3, <2>1, <3>1, SumFrom, Zenon
      <4> QED BY <3>1, <4>1
    <3> DEFINE y == Off(L, j)
               l == left(j)
    <3>4. l = (y - w) - k
      BY <3>3
    <3>5. l = y - P /\ l \in Int
      <4>1. w \in Nat /\ k \in Nat /\ P = w + k /\ y \in Nat
        BY <1>3, <3>2
      <4> HIDE DEF y, l, w, k, P
      <4> QED BY <3>4, <4>1
    <3>6. P <= y
      BY <1>3
    <3> QED BY <3>1, <3>2, <3>5, <3>6
  <2> HIDE DEF left
  <2> DEFINE z == (nL + 1) - h
  <2>3. z \in Nat /\ H \in SUBSET (h..(h + z - 1)) /\ h + z = nL + 1 /\ (h + z) - 1 = nL
    <3>1. z \in Nat /\ h + z = nL + 1 /\ h + z - 1 = nL /\ (h + z) - 1 = nL
      <4> HIDE DEF h, nL
      <4> QED BY <1>3, <2>1
    <3> HIDE DEF z
    <3> QED BY <3>1
  <2>4. ASSUME NEW j \in H, NEW i \in h..j PROVE i \in H
    <3>1. j \in h..nL /\ left(j) <= n
      OBVIOUS
    <3>2. i \in h..nL /\ i \in 0..nL /\ j \in i..nL
      <4>1. j \in h..nL /\ i \in h..j /\ h \in 1..nL
        BY <2>1, <3>1
      <4>2. h \in Nat /\ nL \in Nat /\ h >= 1
        BY <1>3
      <4> HIDE DEF h, nL, H
      <4> QED BY <4>1, <4>2
    <3>3. Off(L, i) <= Off(L, j)
      BY <1>3, <3>2, OffUp
    <3> DEFINE x == Off(L, i)
               y == Off(L, j)
               u == left(i)
               v == left(j)
    <3>4. x <= y /\ x \in Nat /\ y \in Nat /\ v <= n /\ u = x - P /\ v = y - P
      BY <2>2, <3>1, <3>2, <3>3
    <3>5. u <= n
      <4> HIDE DEF x, y, u, v, P
      <4> QED BY <1>3, <3>4
    <3> QED BY <3>2, <3>5
  <2>5. PICK g \in 0..z : H = h..(h + g - 1) /\ gone = g
    <3>1. \A j \in H : \A i \in h..j : i \in H
      BY <2>4
    <3>2. h \in Nat /\ h >= 1
      BY <1>3
    <3> HIDE DEF H, z, h
    <3>3. Counted(h, z, H)
      BY <2>3, <3>1, <3>2, CountFrom
    <3> QED BY <3>3 DEF Counted
  <2>6. gone = g
    BY <2>5
  <2> HIDE DEF gone
  <2> DEFINE K == h + g - 1
  <2>7. g \in Nat /\ G = h + g /\ G \in Nat /\ G >= 1 /\ G <= nL + 1 /\ G - 1 = K
    <3>1. G = h + g
      BY <2>6
    <3> HIDE DEF h, nL, H, z, G
    <3> QED BY <1>3, <2>3, <2>5, <3>1
  <2>8. g # 0 => left(K) <= n /\ K \in h..nL
    <3>1. g # 0 => K \in h..K /\ K \in h..nL
      <4> HIDE DEF h, nL, H, z
      <4> QED BY <1>3, <2>3, <2>5
    <3>2. g # 0 => K \in H
      BY <2>5, <3>1
    <3> QED BY <3>1, <3>2
  <2>9. G <= nL => left(G) > n /\ G \in h..nL
    <3> SUFFICES ASSUME G <= nL PROVE left(G) > n /\ G \in h..nL
      OBVIOUS
    <3>1. G \in h..nL /\ G \notin h..K
      <4> HIDE DEF h, nL, H, z, G
      <4> QED BY <1>3, <2>7
    <3>2. G \notin H
      BY <2>5, <3>1
    <3>3. ~(left(G) <= n)
      BY <3>1, <3>2
    <3>4. left(G) \in Int
      BY <2>2, <3>1
    <3> DEFINE u == left(G)
    <3>5. u > n
      <4>1. ~(u <= n) /\ u \in Int
        BY <3>3, <3>4
      <4> HIDE DEF u
      <4> QED BY <4>1
    <3> QED BY <3>1, <3>5
  <2> DEFINE x == Off(L, K)
             l == left(K)
  <2>10. g = 0 => x = w /\ K = h - 1
    <3>1. g = 0 => K = h - 1
      <4> HIDE DEF h
      <4> QED BY <1>3
    <3> QED BY <3>1
  <2>11. g # 0 => l = x - P /\ x \in Nat /\ l <= n
    BY <2>2, <2>8
  <2>12. past = IF g = 0 THEN 0 ELSE l
    BY <2>6
  <2>13. G > nL => g # 0 /\ x = a
    <3> SUFFICES ASSUME G > nL PROVE g # 0 /\ x = a
      OBVIOUS
    <3>1. g # 0 /\ K = nL
      <4> HIDE DEF h, nL, G
      <4> QED BY <1>3, <2>1, <2>7
    <3> QED BY <3>1
  <2>14. sk = IF g = 0 THEN k + n ELSE IF G > nL THEN 0 ELSE n - past
    BY <2>6
  <2>15. x + sk = P + n /\ sk \in Nat /\ x \in Nat
    <3>1. P = w + k
      BY <1>3
    <3>2. w \in Nat /\ k \in Nat /\ P \in Nat /\ a \in Nat /\ P + n <= a /\ P <= a
      BY <1>3, <1>4
    <3>3. CASE g = 0
      <4>1. x = w /\ sk = k + n
        BY <2>10, <2>14, <3>3
      <4> HIDE DEF x, sk, P, w, k, a
      <4> QED BY <3>1, <3>2, <4>1
    <3>4. CASE g # 0
      <4>1. past = l
        BY <2>12, <3>4
      <4>2. (G > nL => x = a /\ sk = 0) /\ (~(G > nL) => sk = n - past)
        BY <2>13, <2>14, <3>4
      <4>3. l = x - P /\ x \in Nat /\ l <= n
        BY <2>11, <3>4
      <4> HIDE DEF x, sk, past, l, a, P, w, k, G, nL
      <4> QED BY <3>1, <3>2, <4>1, <4>2, <4>3
    <3> QED BY <3>3, <3>4
  <2>16. G <= nL => sk <= Len(L[G])
    <3> SUFFICES ASSUME G <= nL PROVE sk <= Len(L[G])
      OBVIOUS
    <3> DEFINE y == Off(L, G)
               m == Len(L[G])
               v == left(G)
    <3>1. v > n /\ v = y - P /\ y \in Nat
      BY <2>2, <2>9
    <3>2. G \in 1..nL /\ G - 1 = K
      BY <2>2, <2>7, <2>9
    <3>3. y = x + m /\ m \in Nat
      BY <1>3, <3>2, OffStep, Parts
    <3>4. sk <= m
      <4> HIDE DEF y, m, v, x, sk, P
      <4> QED BY <1>3, <2>15, <3>1, <3>3
    <3> QED BY <3>4
  <2>17. G = nL + 1 => sk = 0
    <3>1. G = nL + 1 => G > nL
      <4> HIDE DEF G, nL
      <4> QED BY <1>3
    <3> QED BY <2>13, <2>14, <3>1
  <2> HIDE DEF sk, G
  <2>18. Cursor(C, L, G, sk)
    BY <1>3, <2>7, <2>15, <2>16, <2>17 DEF Cursor
  <2>19. c = [b EXCEPT !.begin = G, !.skip = sk]
    BY <1>1, <1>6
  <2> HIDE DEF c
  <2>20. c \in [bs : Seq(Seq(C)), begin : Nat, skip : Nat] /\ c.bs = L /\ c.begin = G /\ c.skip = sk
    BY <1>2, <2>7, <2>15, <2>19
  <2>21. Consumable(C, c)
    BY <2>18, <2>20 DEF Consumable
  <2>22. FrontAt(c) = P + n
    BY <2>7, <2>15, <2>20 DEF FrontAt, Place
  <2>23. MovesOn(C, b, c, n)
    BY <2>20, <2>21, <2>22 DEF MovesOn
  <2> QED BY <2>23 DEF c
<1> QED BY <1>5, <1>6

-----------------------------------------------------------------------------
(* Lists of sizes: what prepare() returns, and prepare_buffers().          *)

\* The first j sizes together.
Total(s, j) == SumFunction([i \in 1..j |-> s[i]])

\* Total adds up a list of sizes one by one, and grows with j.
LEMMA TotalIs ==
  ASSUME NEW s \in Seq(Nat)
  PROVE  /\ Total(s, 0) = 0
         /\ \A j \in 0..Len(s) : Total(s, j) \in Nat
         /\ \A j \in 1..Len(s) : Total(s, j) = Total(s, j-1) + s[j]
         /\ \A i \in 0..Len(s) : \A j \in i..Len(s) : Total(s, i) <= Total(s, j)
<1> DEFINE L == [i \in 1..Len(s) |-> [k \in 1..s[i] |-> Raw]]
<1>1. L \in Seq(Seq({Raw})) /\ Len(L) = Len(s)
  <2>1. \A i \in 1..Len(s) : [k \in 1..s[i] |-> Raw] \in Seq({Raw})
    OBVIOUS
  <2> QED BY <2>1
<1>2. \A i \in 1..Len(s) : Len(L[i]) = s[i]
  OBVIOUS
<1> HIDE DEF L
<1>3. ASSUME NEW j \in 0..Len(s) PROVE Total(s, j) = Off(L, j)
  <2>1. \A i \in 1..j : Len(L[i]) = s[i]
    BY <1>2
  <2>2. [i \in 1..j |-> Len(L[i])] = [i \in 1..j |-> s[i]]
    BY <2>1
  <2> QED BY <2>2 DEF Total, Off
<1>4. \A j \in 1..Len(s) : j \in 0..Len(s) /\ j - 1 \in 0..Len(s)
  OBVIOUS
<1>5. Total(s, 0) = 0 /\ \A j \in 0..Len(s) : Total(s, j) \in Nat
  BY <1>1, <1>3, OffStep
<1>6. \A j \in 1..Len(s) : Total(s, j) = Total(s, j-1) + s[j]
  BY <1>1, <1>2, <1>3, <1>4, OffStep
<1>7. ASSUME NEW i \in 0..Len(s), NEW j \in i..Len(s) PROVE Total(s, i) <= Total(s, j)
  <2>1. j \in 0..Len(s) /\ i \in 0..Len(L) /\ j \in i..Len(L)
    BY <1>1
  <2> QED BY <1>1, <1>3, <2>1, OffUp
<1> QED BY <1>5, <1>6, <1>7

\* A function from 1..m is a sequence of m elements.
LEMMA SizesAre ==
  ASSUME NEW m \in Nat, NEW V, V \in [1..m -> Nat]
  PROVE  V \in Seq(Nat) /\ Len(V) = m
OBVIOUS

\* The room between two places of a list, part by part.
Areas(L, o, op, back, oe) ==
  [i \in 1..(back + 1 - o) |->
     (IF o + i - 1 = back THEN oe ELSE Len(L[o + i - 1])) - (IF o + i - 1 = o THEN op ELSE 0)]

\* Its parts together are the bytes between the two places.
LEMMA AreasAddUp ==
  ASSUME NEW C, NEW L \in Seq(Seq(C)), NEW o \in 1..Len(L), NEW op \in Nat, op <= Len(L[o]),
         NEW back \in o..Len(L), NEW oe \in Nat, o = back => op <= oe
  PROVE  /\ Areas(L, o, op, back, oe) \in Seq(Nat)
         /\ Total(Areas(L, o, op, back, oe), Len(Areas(L, o, op, back, oe)))
              = Off(L, back - 1) + oe - (Off(L, o - 1) + op)
<1> DEFINE W == Areas(L, o, op, back, oe)
           m == back + 1 - o
           e == Off(L, o - 1) + op
           P == [i \in 0..m |-> IF i = 0 THEN 0 ELSE IF i = m THEN Off(L, back - 1) + oe - e
                                ELSE Off(L, o + i - 1) - e]
<1>0. Len(L) \in Nat /\ o \in Nat /\ back \in Nat /\ m \in Nat /\ m >= 1
  OBVIOUS
<1>1. /\ \A j \in 0..Len(L) : Off(L, j) \in Nat
      /\ \A j \in 1..Len(L) : Off(L, j) = Off(L, j-1) + Len(L[j])
  BY OffStep
<1>2. \A j \in 1..Len(L) : Len(L[j]) \in Nat
  OBVIOUS
<1>3. e \in Nat /\ Off(L, o - 1) \in Nat /\ Off(L, back - 1) \in Nat
  <2>1. o - 1 \in 0..Len(L) /\ back - 1 \in 0..Len(L)
    BY <1>0
  <2>2. Off(L, o - 1) \in Nat /\ Off(L, back - 1) \in Nat
    BY <1>1, <2>1
  <2> DEFINE x == Off(L, o - 1)
  <2>3. x \in Nat /\ e = x + op
    BY <2>2
  <2> HIDE DEF x, e
  <2>4. e \in Nat
    BY <2>3
  <2> QED BY <2>2, <2>4
<1>4. \A i \in 1..m : W[i] = (IF o + i - 1 = back THEN oe ELSE Len(L[o + i - 1]))
                             - (IF o + i - 1 = o THEN op ELSE 0)
  BY DEF Areas
<1>5. DOMAIN W = 1..m
  BY DEF Areas
<1> HIDE DEF W
<1>6. ASSUME NEW i \in 0..m PROVE P[i] \in Int
  <2>1. P[i] = IF i = 0 THEN 0 ELSE IF i = m THEN Off(L, back - 1) + oe - e ELSE Off(L, o + i - 1) - e
    OBVIOUS
  <2>2. i # 0 => o + i - 1 \in 0..Len(L)
    BY <1>0
  <2> DEFINE x == Off(L, back - 1)
             y == Off(L, o + i - 1)
  <2>3. x \in Nat /\ (i # 0 => y \in Nat)
    BY <1>1, <1>3, <2>2
  <2>4. P[i] = IF i = 0 THEN 0 ELSE IF i = m THEN x + oe - e ELSE y - e
    BY <2>1
  <2> HIDE DEF P, m, e, x, y
  <2> QED BY <1>3, <2>3, <2>4
<1>7. ASSUME NEW i \in 1..m PROVE W[i] \in Nat /\ W[i] = P[i] - P[i-1]
  <2> DEFINE j == o + i - 1
  <2>1. j \in 1..Len(L) /\ j \in o..back /\ (i = m <=> j = back) /\ (i = 1 <=> j = o)
        /\ i # 0 /\ i \in 0..m /\ i - 1 \in 0..m /\ i - 1 # m /\ (i - 1 = 0 <=> i = 1)
        /\ o + (i - 1) - 1 = j - 1
    BY <1>0
  <2>2. W[i] = (IF j = back THEN oe ELSE Len(L[j])) - (IF j = o THEN op ELSE 0)
    BY <1>4
  <2>3. P[i] = IF j = back THEN Off(L, back - 1) + oe - e ELSE Off(L, j) - e
    BY <2>1
  <2>4. P[i-1] = IF j = o THEN 0 ELSE Off(L, j - 1) - e
    BY <2>1
  <2>5. /\ Off(L, j) = Off(L, j-1) + Len(L[j]) /\ Len(L[j]) \in Nat /\ Off(L, j-1) \in Nat
        /\ (j = o => op <= Len(L[j])) /\ j \in Nat
    <3>1. j \in Nat /\ j - 1 \in 0..Len(L)
      BY <1>0, <2>1
    <3> HIDE DEF j
    <3>2. Off(L, j) = Off(L, j-1) + Len(L[j]) /\ Len(L[j]) \in Nat
      BY <1>1, <1>2, <2>1
    <3>3. Off(L, j-1) \in Nat
      BY <1>1, <3>1
    <3> QED BY <3>1, <3>2, <3>3
  <2>6. W[i] \in Nat
    <3> HIDE DEF j
    <3> QED BY <2>1, <2>2, <2>5
  <2>7. e = Off(L, o - 1) + op
    OBVIOUS
  <2>8. W[i] = P[i] - P[i-1]
    <3> DEFINE x == Off(L, j - 1)
               l == Len(L[j])
               w == W[i]
               p == P[i]
               q == P[i-1]
    <3>1. x \in Nat /\ l \in Nat /\ Off(L, j) = x + l /\ e \in Nat
      BY <1>3, <2>5
    <3>2. w = (IF j = back THEN oe ELSE l) - (IF j = o THEN op ELSE 0)
      BY <2>2
    <3>3. p = IF j = back THEN x + oe - e ELSE (x + l) - e
      <4>1. j = back => Off(L, back - 1) = x
        OBVIOUS
      <4> HIDE DEF P, e, m, j
      <4> QED BY <2>3, <3>1, <4>1
    <3>4. q = IF j = o THEN 0 ELSE x - e
      BY <2>4
    <3>5. j = o => e = x + op
      BY <2>7
    <3> HIDE DEF P, e, m, j, x, l, w, p, q
    <3>6. w = p - q
      BY <3>1, <3>2, <3>3, <3>4, <3>5
    <3> QED BY <3>6 DEF w, p, q
  <2> QED BY <2>6, <2>8
<1>8. W = [i \in 1..m |-> W[i]]
  BY DEF W, Areas
<1>9. W \in Seq(Nat) /\ Len(W) = m
  <2>1. W \in [1..m -> Nat]
    <3> DEFINE V == W
    <3>1. V = [i \in 1..m |-> V[i]] /\ \A i \in 1..m : V[i] \in Nat
      BY <1>7, <1>8
    <3> HIDE DEF V, m
    <3>2. V \in [1..m -> Nat]
      BY <3>1
    <3> QED BY <3>2 DEF V
  <2> HIDE DEF m
  <2> QED BY <1>0, <2>1, SizesAre
<1>10. SumFunction([i \in 1..m |-> W[i]]) = P[m] - P[0]
  <2> DEFINE F == [i \in 1..m |-> W[i]]
             a == 1
  <2>1. DOMAIN F = a..m /\ \A i \in a..m : F[i] = P[i] - P[i-1]
    <3>1. DOMAIN F = 1..m /\ \A i \in 1..m : F[i] = W[i]
      OBVIOUS
    <3> HIDE DEF F, P, m
    <3> QED BY <1>7, <3>1
  <2>2. a \in Int /\ m \in Int /\ a <= m + 1 /\ \A i \in (a-1)..m : P[i] \in Int
    BY <1>0, <1>6
  <2>3. a - 1 = 0
    OBVIOUS
  <2> HIDE DEF F, P, m, a
  <2>4. SumFunction(F) = P[m] - P[a-1]
    BY <2>1, <2>2, Telescope
  <2> QED BY <2>3, <2>4, Zenon DEF F
<1>11. P[m] = Off(L, back - 1) + oe - e /\ P[0] = 0
  BY <1>0
<1>12. Total(W, Len(W)) = Off(L, back - 1) + oe - e
  <2> HIDE DEF P, m, e
  <2>1. Total(W, m) = P[m] - P[0]
    BY <1>10 DEF Total
  <2> QED BY <1>3, <1>9, <1>11, <2>1
<1> QED BY <1>9, <1>12 DEF W

\* From the place (o, op) to oe in part back there is room for n.
OpensUp(C, L, o, op, back, oe, n) ==
  /\ L \in Seq(Seq(C)) /\ o \in 1..Len(L) /\ op \in Nat /\ op <= Len(L[o])
  /\ back \in o..Len(L) /\ oe \in Nat /\ (o = back => op <= oe)
  /\ n \in Nat /\ Place(L, o, op) + n = Off(L, back - 1) + oe

\* The parts of that room are n together.
LEMMA AreasGive ==
  ASSUME NEW C, NEW L, NEW o, NEW op, NEW back, NEW oe, NEW n, OpensUp(C, L, o, op, back, oe, n)
  PROVE  /\ Areas(L, o, op, back, oe) \in Seq(Nat)
         /\ Total(Areas(L, o, op, back, oe), Len(Areas(L, o, op, back, oe))) = n
<1>1. /\ L \in Seq(Seq(C)) /\ o \in 1..Len(L) /\ op \in Nat /\ op <= Len(L[o])
      /\ back \in o..Len(L) /\ oe \in Nat /\ (o = back => op <= oe)
      /\ n \in Nat /\ Off(L, o - 1) + op + n = Off(L, back - 1) + oe
  BY DEF OpensUp, Place
<1> DEFINE W == Areas(L, o, op, back, oe)
           x == Off(L, o - 1)
           y == Off(L, back - 1)
<1>2. W \in Seq(Nat) /\ Total(W, Len(W)) = y + oe - (x + op)
  BY <1>1, AreasAddUp
<1>3. x \in Nat /\ y \in Nat
  <2>1. o - 1 \in 0..Len(L) /\ back - 1 \in 0..Len(L)
    BY <1>1
  <2> QED BY <1>1, <2>1, OffStep
<1>4. x + op + n = y + oe
  BY <1>1
<1> SUFFICES W \in Seq(Nat) /\ Total(W, Len(W)) = n
  OBVIOUS
<1> HIDE DEF W, x, y
<1> QED BY <1>1, <1>2, <1>3, <1>4

-----------------------------------------------------------------------------
\* prepare(n) returns n bytes, whatever the buffers they are in (prepare() of
\* static_streambuf, buffers_adapter and basic_streambuf).
THEOREM PrepareReturns ==
  ASSUME NEW C, NEW b, Sound(C, b), Raw \in C, NEW n \in Nat, ~db_throws(b, n)
  PROVE  LET s == db_areas(db_prepare(b, n))
         IN  s \in Seq(Nat) /\ Total(s, Len(s)) = n
<1> DEFINE p == db_prepare(b, n)
           s == db_areas(p)
<1>1. CASE b.kind = "static"
  <2>1. Fixed(C, b)
    BY <1>1, KindIs
  <2>2. p = [b EXCEPT !.last = b.out + n]
    BY <1>1 DEF db_prepare
  <2>3. p.kind = "static" /\ p.last = b.out + n /\ p.out = b.out /\ b.out \in Nat
    BY <2>1, <2>2 DEF Fixed
  <2> HIDE DEF p
  <2>4. s = <<p.last - p.out>>
    BY <2>3 DEF db_areas
  <2>5. p.last - p.out = n
    BY <2>3
  <2>6. s = <<n>>
    BY <2>4, <2>5
  <2> HIDE DEF s
  <2>7. s \in Seq(Nat) /\ Len(s) = 1 /\ s[1] = n
    BY <2>6
  <2>8. Total(s, 1) = Total(s, 1-1) + s[1] /\ Total(s, 0) = 0
    BY <2>7, TotalIs
  <2>9. Total(s, 1) = n
    <3>1. 1 - 1 = 0
      OBVIOUS
    <3>2. Total(s, 1) = Total(s, 0) + n
      BY <2>7, <2>8, <3>1
    <3> QED BY <2>8, <3>2
  <2> QED BY <2>7, <2>9 DEF s, p
<1>2. CASE b.kind = "adapter"
  <2>1. Adapted(C, b) /\ Fits(b, n)
    BY <1>2, KindIs DEF db_throws
  <2>2. p = aprepare(b, n)
    BY <1>2 DEF db_prepare
  <2> HIDE DEF p
  <2>3. Adapted(C, p) /\ APrepared(p, n) /\ p.kind = "adapter"
    BY <2>1, <2>2, APrepareFits DEF APrepares
  <2>4. /\ p.bs \in Seq(Seq(C)) /\ Len(p.bs) \in Nat /\ p.out \in Nat /\ p.out >= 1
        /\ p.out_pos \in Nat /\ p.out_end \in Nat
        /\ p.end \in Nat /\ p.out <= p.end /\ p.end <= Len(p.bs) + 1
    BY <2>3, AdaptedFacts, SMTT(30)
  <2>5. s = [i \in 1..(p.end - p.out) |-> AUpto(p, p.out + i - 1) - AFrom(p, p.out + i - 1)]
    BY <2>3 DEF db_areas
  <2>6. CASE p.out = p.end
    <3>1. n = 0
      BY <2>3, <2>6 DEF APrepared
    <3>2. s = <<>>
      <4>1. 1..(p.end - p.out) = {}
        BY <2>4, <2>6
      <4> HIDE DEF s
      <4> QED BY <2>5, <4>1
    <3> HIDE DEF s
    <3>3. s \in Seq(Nat) /\ Len(s) = 0
      BY <3>2
    <3> QED BY <3>1, <3>3, TotalIs DEF s, p
  <2>7. CASE p.out # p.end
    <3> DEFINE L == p.bs
               o == p.out
               op == p.out_pos
               oe == p.out_end
               t == p.end
               back == t - 1
    <3>1. /\ L \in Seq(Seq(C)) /\ Len(L) \in Nat /\ o \in Nat /\ o >= 1 /\ op \in Nat /\ oe \in Nat
          /\ t \in Nat /\ o <= t /\ t <= Len(L) + 1 /\ o # t
      BY <2>4, <2>7
    <3>2. Cursor(C, L, o, op)
      BY <2>3 DEF Adapted
    <3>3. (o = back => op <= oe) /\ Place(L, o, op) + n = Off(L, t - 2) + oe
      BY <2>3, <2>7 DEF APrepared, AStop
    <3>4. s = Areas(L, o, op, back, oe)
      <4>1. back + 1 - o = t - o
        <5> HIDE DEF t, o
        <5> QED BY <3>1
      <4>2. \A j : AUpto(p, j) = (IF j = back THEN oe ELSE Len(L[j]))
                   /\ AFrom(p, j) = IF j = o THEN op ELSE 0
        BY DEF AUpto, AFrom
      <4>3. s = [i \in 1..(t - o) |->
              (IF o + i - 1 = back THEN oe ELSE Len(L[o + i - 1])) - (IF o + i - 1 = o THEN op ELSE 0)]
        <5> HIDE DEF s
        <5> QED BY <2>5, <4>2
      <4> HIDE DEF s, L, o, op, oe, t
      <4> QED BY <4>1, <4>3 DEF Areas
    <3>5. OpensUp(C, L, o, op, back, oe, n)
      <4> HIDE DEF L, o, op, oe, t
      <4>1. back \in o..Len(L) /\ o \in 1..Len(L) /\ t - 2 = back - 1
        BY <3>1
      <4>2. op <= Len(L[o])
        BY <3>1, <3>2, <4>1 DEF Cursor
      <4>3. Place(L, o, op) + n = Off(L, back - 1) + oe
        BY <3>3, <4>1
      <4> QED BY <3>1, <3>3, <4>1, <4>2, <4>3 DEF OpensUp
    <3> SUFFICES s \in Seq(Nat) /\ Total(s, Len(s)) = n
      BY DEF p
    <3> HIDE DEF s, L, o, op, oe, back
    <3> QED BY <3>4, <3>5, AreasGive
  <2> QED BY <2>6, <2>7
<1>3. CASE b.kind = "streambuf"
  <2>1. Streamed(C, b)
    BY <1>3, KindIs
  <2> DEFINE q == Prepare(b.sb, n, b.alloc)
  <2>2. p = [b EXCEPT !.sb = q]
    BY <1>3 DEF db_prepare
  <2>3. p.sb = q /\ p.kind = "streambuf"
    <3> HIDE DEF p, q
    <3>1. p = With(b, q)
      BY <2>2 DEF With
    <3> QED BY <2>1, <3>1, StreamedWith
  <2> HIDE DEF p
  <2>4. Shaped(C, q) /\ HasPrepared(q, n)
    <3>1. Prepares(C, b.sb, n, b.alloc)
      BY <2>1 DEF Prepares, Streamed
    <3> QED BY <3>1, PrepareGrows
  <2>5. s = Writable(q)
    BY <2>3 DEF db_areas
  <2> HIDE DEF q
  <2> DEFINE L == q.list
             nL == Len(L)
             o == q.out
             op == q.out_pos
             oe == q.out_end
  <2>6. /\ L \in Seq(Seq(C)) /\ nL \in Nat /\ o \in Nat /\ o >= 1 /\ o <= nL + 1
        /\ op \in Nat /\ oe \in Nat
    BY <2>4, ShapedFacts
  <2>7. s = Areas(L, o, op, nL, oe)
    <3> HIDE DEF s
    <3>1. s = [i \in 1..(nL + 1 - o) |->
               (IF o + i - 1 = nL THEN oe ELSE Len(L[o + i - 1])) - (IF o + i - 1 = o THEN op ELSE 0)]
      BY <2>5, Zenon DEF Writable, Size, OutFrom
    <3> HIDE DEF L, nL, o, op, oe
    <3> QED BY <3>1 DEF Areas
  <2>8. CASE AtEnd(q)
    <3>1. n = 0 /\ nL + 1 - o = 0
      BY <2>4, <2>6, <2>8 DEF HasPrepared, AtEnd
    <3>2. s = <<>>
      <4> HIDE DEF s, L, nL, o, op, oe
      <4>1. 1..(nL + 1 - o) = {}
        BY <3>1
      <4> QED BY <2>7, <4>1 DEF Areas
    <3> HIDE DEF s
    <3>3. s \in Seq(Nat) /\ Len(s) = 0
      BY <3>2
    <3> QED BY <3>1, <3>3, TotalIs DEF s, p
  <2>9. CASE ~AtEnd(q)
    <3>1. /\ q.out_pos < Len(q.list[q.out])
          /\ (q.out = Len(q.list) => q.out_pos <= q.out_end)
          /\ q.out <= Len(q.list)
          /\ End(q) + n = Off(q.list, Len(q.list) - 1) + q.out_end
      <4>1. q.out_pos < Size(q, q.out) /\ (q.out = Len(q.list) => q.out_pos <= q.out_end)
        BY <2>4, <2>9 DEF Shaped
      <4>2. q.out <= Len(q.list)
        BY <2>6, <2>9 DEF AtEnd
      <4>3. End(q) + n = Off(q.list, Len(q.list) - 1) + q.out_end
        BY <2>4, <2>9 DEF HasPrepared
      <4> QED BY <4>1, <4>2, <4>3 DEF Size
    <3>2. op < Len(L[o]) /\ (o = nL => op <= oe) /\ o <= nL
      BY <3>1
    <3>3. Place(L, o, op) + n = Off(L, nL - 1) + oe
      BY <3>1 DEF End, Place
    <3>4. OpensUp(C, L, o, op, nL, oe, n)
      <4>1. nL = Len(L)
        OBVIOUS
      <4> HIDE DEF L, nL, o, op, oe
      <4>2. o \in 1..Len(L) /\ nL \in o..Len(L)
        BY <2>6, <3>2, <4>1
      <4>3. Len(L[o]) \in Nat
        BY <2>6, <4>2
      <4>4. op <= Len(L[o])
        BY <2>6, <3>2, <4>3
      <4> QED BY <2>6, <3>2, <3>3, <4>2, <4>4 DEF OpensUp
    <3> SUFFICES s \in Seq(Nat) /\ Total(s, Len(s)) = n
      BY DEF p
    <3> HIDE DEF s, L, nL, o, op, oe
    <3> QED BY <2>7, <3>4, AreasGive
  <2> QED BY <2>8, <2>9
<1> QED BY <1>1, <1>2, <1>3, KindIs

\* The first z sizes of a list, the last of them cut to make n in all.
Firsts(s, z, n) == [i \in 1..z |-> IF i = z THEN n - Total(s, z - 1) ELSE s[i]]

\* They are n together, when n is more than the others have.
LEMMA FirstSizes ==
  ASSUME NEW s \in Seq(Nat), NEW z \in 1..Len(s), NEW n \in Nat, Total(s, z - 1) <= n
  PROVE  Firsts(s, z, n) \in Seq(Nat) /\ Len(Firsts(s, z, n)) = z /\ Total(Firsts(s, z, n), z) = n
<1> DEFINE r == Firsts(s, z, n)
<1>0. r = [i \in 1..z |-> IF i = z THEN n - Total(s, z - 1) ELSE s[i]]
  BY DEF Firsts
<1> SUFFICES r \in Seq(Nat) /\ Len(r) = z /\ Total(r, z) = n
  OBVIOUS
<1> HIDE DEF r
<1>1. /\ \A j \in 0..Len(s) : Total(s, j) \in Nat
      /\ \A i \in 1..Len(s) : s[i] \in Nat
  BY TotalIs
<1>2. z - 1 \in 0..Len(s) /\ z \in Nat
  OBVIOUS
<1> DEFINE x == Total(s, z - 1)
<1>3. x \in Nat /\ x <= n
  BY <1>1, <1>2
<1>4. r = [i \in 1..z |-> IF i = z THEN n - x ELSE s[i]]
  BY <1>0
<1> HIDE DEF x
<1>5. n - x \in Nat
  BY <1>3
<1>6. r \in [1..z -> Nat]
  <2>1. \A i \in 1..z : i \in 1..Len(s)
    OBVIOUS
  <2> QED BY <1>1, <1>4, <1>5, <2>1
<1>7. r \in Seq(Nat) /\ Len(r) = z
  BY <1>2, <1>6, SizesAre
<1>8. Total(r, z - 1) = x
  <2>1. \A i \in 1..(z-1) : r[i] = s[i]
    BY <1>2, <1>4
  <2>2. [i \in 1..(z-1) |-> r[i]] = [i \in 1..(z-1) |-> s[i]]
    BY <2>1
  <2> QED BY <2>2 DEF Total, x
<1>9. r[z] = n - x
  BY <1>2, <1>4
<1>10. Total(r, z) = Total(r, z-1) + r[z]
  <2>1. z \in 1..Len(r)
    BY <1>2, <1>7
  <2> QED BY <1>7, <2>1, TotalIs
<1>11. Total(r, z) = n
  <2> DEFINE y == Total(r, z)
             v == Total(r, z-1)
             w == r[z]
  <2>1. y = v + w /\ v = x /\ w = n - x
    BY <1>8, <1>9, <1>10
  <2> HIDE DEF y, v, w
  <2>2. y = n
    BY <1>3, <2>1
  <2> QED BY <2>2 DEF y
<1> QED BY <1>7, <1>11

\* Where prepare_buffers() stops.
Stops(n, s, j) ==
  /\ j > Len(s) \/ n <= Total(s, j)
  /\ \A i \in 1..(j-1) : n > Total(s, i)

\* The loop of prepare_buffers() stops at a buffer or behind the last.
LEMMA StopsAt ==
  ASSUME NEW n \in Nat, NEW s \in Seq(Nat)
  PROVE  \E j \in 1..(Len(s) + 1) : Stops(n, s, j)
<1> DEFINE T == {j \in 1..(Len(s) + 1) : j > Len(s) \/ n <= Total(s, j)}
<1>0. Len(s) \in Nat
  OBVIOUS
<1> DEFINE h == Len(s)
<1> SUFFICES \E j \in 1..(h + 1) : Stops(n, s, j)
  OBVIOUS
<1>1. T \in SUBSET Nat /\ T \in SUBSET (1..(h+1)) /\ h + 1 \in T
  <2>1. \A j \in 1..(h+1) : j \in Nat
    BY <1>0
  <2>2. h + 1 \in 1..(h+1) /\ h + 1 > h
    BY <1>0
  <2> QED BY <2>1, <2>2
<1>2. PICK j \in T : \A m \in T : j <= m
  BY <1>1, LeastNat
<1>3. ASSUME NEW i \in 1..(j-1) PROVE n > Total(s, i)
  <2>1. i \in 1..(h+1) /\ ~(j <= i) /\ i <= h
    BY <1>1
  <2>2. i \notin T
    BY <1>2, <2>1
  <2>3. ~(n <= Total(s, i))
    BY <2>1, <2>2
  <2>4. Total(s, i) \in Nat
    BY <2>1, TotalIs
  <2> QED BY <2>3, <2>4
<1>4. j \in 1..(h+1) /\ (j > h \/ n <= Total(s, j))
  BY <1>1, <1>2
<1>5. Stops(n, s, j)
  BY <1>3, <1>4 DEF Stops
<1> QED BY <1>4, <1>5

\* prepare_buffers() keeps the sizes before the place it stops at, and cuts that
\* one.
LEMMA PrepareBuffersIs ==
  ASSUME NEW n, NEW s
  PROVE  prepare_buffers(n, s) =
           LET back == CHOOSE j \in 1..(Len(s) + 1) : Stops(n, s, j)
           IN  [i \in 1..Smaller(back, Len(s)) |-> IF i = back THEN n - Total(s, back - 1) ELSE s[i]]
BY Zenon DEF prepare_buffers, Stops, Total

\* prepare_buffers(n, buffers) are n bytes, when there are that many.
THEOREM PrepareBuffers ==
  ASSUME NEW s \in Seq(Nat), NEW n \in Nat, n <= Total(s, Len(s))
  PROVE  LET r == prepare_buffers(n, s) IN r \in Seq(Nat) /\ Total(r, Len(r)) = n
<1> DEFINE back == CHOOSE j \in 1..(Len(s) + 1) : Stops(n, s, j)
           r == prepare_buffers(n, s)
           h == Len(s)
<1>1. back \in 1..(h + 1) /\ Stops(n, s, back)
  BY StopsAt
<1>2. r = [i \in 1..Smaller(back, h) |-> IF i = back THEN n - Total(s, back - 1) ELSE s[i]]
  BY Zenon, PrepareBuffersIs
<1>3. h \in Nat
  OBVIOUS
<1>4. n <= Total(s, h) /\ Total(s, 0) = 0 /\ \A j \in 0..h : Total(s, j) \in Nat
  BY <1>3, TotalIs
<1> SUFFICES r \in Seq(Nat) /\ Total(r, Len(r)) = n
  OBVIOUS
<1> HIDE DEF back, r
<1>5. CASE h = 0
  <2>1. n = 0
    BY <1>4, <1>5
  <2>2. 1..Smaller(back, h) = {}
    BY <1>1, <1>5 DEF Smaller
  <2>3. r = <<>>
    BY <1>2, <2>2
  <2>4. r \in Seq(Nat) /\ Len(r) = 0
    BY <2>3
  <2> QED BY <2>1, <2>4, TotalIs
<1>6. CASE h # 0
  <2>1. back <= h
    <3>1. CASE back = h + 1
      <4>1. h \in 1..(back - 1)
        BY <1>3, <1>6, <3>1
      <4>2. n > Total(s, h)
        BY <1>1, <4>1 DEF Stops
      <4>3. Total(s, h) \in Nat
        BY <1>3, <1>4
      <4> QED BY <1>4, <4>2, <4>3
    <3>2. CASE back # h + 1
      BY <1>1, <1>3, <3>2
    <3> QED BY <3>1, <3>2
  <2>2. Smaller(back, h) = back
    BY <1>1, <1>3, <2>1 DEF Smaller
  <2>3. Total(s, back - 1) <= n
    <3>1. CASE back = 1
      BY <1>4, <3>1
    <3>2. CASE back # 1
      <4>1. back - 1 \in 1..(back - 1) /\ back - 1 \in 0..h
        BY <1>1, <3>2
      <4>2. n > Total(s, back - 1) /\ Total(s, back - 1) \in Nat
        BY <1>1, <1>4, <4>1 DEF Stops
      <4> QED BY <4>2
    <3> QED BY <3>1, <3>2
  <2>4. back \in 1..h
    BY <1>1, <1>3, <2>1
  <2>5. r = Firsts(s, back, n)
    BY <1>2, <2>2 DEF Firsts
  <2>6. r \in Seq(Nat) /\ Len(r) = back /\ Total(r, back) = n
    BY <2>3, <2>4, <2>5, FirstSizes
  <2> QED BY <2>6
<1> QED BY <1>5, <1>6
=============================================================================
