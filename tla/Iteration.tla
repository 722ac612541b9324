----------------------------- MODULE Iteration -----------------------------
(***************************************************************************)
(* Facts about the natural numbers that the proofs need and that mention   *)
(* sets and functions only: a non-empty set of numbers has a least         *)
(* element, a set that 0 is in and that no step leaves holds them all, and *)
(* a step can be iterated.  With them the loops of the code, which are     *)
(* written as recursive functions, can be reasoned about for every length. *)
(***************************************************************************)
EXTENDS Naturals, WellFoundedInduction, TLAPS

LEMMA LessThanWellFounded ==
  IsWellFoundedOn({pair \in Nat \X Nat : pair[1] < pair[2]}, Nat)
BY NatLessThanWellFounded DEF OpToRel

\* The least-number principle.
LEMMA LeastNatural ==
  ASSUME NEW T \in SUBSET Nat, T # {}
  PROVE  \E x \in T : \A y \in T : x <= y
<1> DEFINE R == {pair \in Nat \X Nat : pair[1] < pair[2]}
<1>1. \E x \in T : \A y \in T : <<y, x>> \notin R
  <2>1. IsWellFoundedOn(R, Nat)
    BY LessThanWellFounded
  <2> HIDE DEF R
  <2>2. QED
    BY <2>1, WFMin
<1>2. PICK x \in T : \A y \in T : <<y, x>> \notin R
  BY <1>1
<1>3. ASSUME NEW y \in T PROVE x <= y
  <2>1. <<y, x>> \in Nat \X Nat /\ <<y, x>>[1] = y /\ <<y, x>>[2] = x
    BY <1>2
  <2>2. ~(y < x)
    BY <1>2, <2>1
  <2>3. QED
    BY <1>2, <2>2
<1>4. QED
  BY <1>2, <1>3

\* Induction, with the statement as the set of the numbers it is true of.
LEMMA Induction ==
  ASSUME NEW T, 0 \in T, \A n \in Nat : n \in T => n + 1 \in T
  PROVE  \A n \in Nat : n \in T
<1> SUFFICES ASSUME Nat \ T # {}
             PROVE  FALSE
  OBVIOUS
<1>1. PICK x \in Nat \ T : \A y \in Nat \ T : x <= y
  BY LeastNatural
<1>2. x # 0
  BY <1>1
<1>3. x - 1 \in Nat /\ (x - 1) + 1 = x
  BY <1>1, <1>2
<1>4. x - 1 \in T
  BY <1>1, <1>3
<1>5. QED
  BY <1>1, <1>3, <1>4

-----------------------------------------------------------------------------
(* Loops: m steps F, which may look at the number of steps before.         *)

Steps(S, m) == [S \X (0 .. m - 1) -> S]

\* h are the values before each of the first n steps, and after the last.
Values(S, F, s0, n, h) ==
  /\ h \in [0 .. n -> S]
  /\ h[0] = s0
  /\ \A i \in 0 .. n - 1 : h[i + 1] = F[<<h[i], i>>]

LEMMA ValuesExist ==
  ASSUME NEW S, NEW s0 \in S, NEW m \in Nat, NEW F \in Steps(S, m)
  PROVE  \E h : Values(S, F, s0, m, h)
<1> DEFINE T == {n \in Nat : n <= m => \E h : Values(S, F, s0, n, h)}
<1>1. 0 \in T
  <2>1. Values(S, F, s0, 0, [i \in 0 .. 0 |-> s0])
    BY DEF Values
  <2>2. QED
    BY <2>1
<1>2. ASSUME NEW n \in Nat, n \in T
      PROVE  n + 1 \in T
  <2> SUFFICES ASSUME n + 1 <= m
               PROVE  \E h : Values(S, F, s0, n + 1, h)
    OBVIOUS
  <2>1. PICK h : Values(S, F, s0, n, h)
    BY <1>2
  <2> DEFINE k == [i \in 0 .. n + 1 |-> IF i <= n THEN h[i] ELSE F[<<h[n], n>>]]
  <2>2. h[n] \in S /\ F[<<h[n], n>>] \in S
    BY <2>1 DEF Values, Steps
  <2>3. k \in [0 .. n + 1 -> S]
    BY <2>1, <2>2 DEF Values
  <2>4. k[0] = s0
    BY <2>1 DEF Values
  <2>5. ASSUME NEW i \in 0 .. n PROVE k[i + 1] = F[<<k[i], i>>]
    <3>1. CASE i = n
      <4>1. n \in 0 .. n + 1 /\ n + 1 \in 0 .. n + 1 /\ n <= n /\ ~(n + 1 <= n)
        OBVIOUS
      <4>2. k[n] = h[n] /\ k[n + 1] = F[<<h[n], n>>]
        BY <4>1
      <4>3. QED
        BY <3>1, <4>2
    <3>2. CASE i \in 0 .. n - 1
      BY <3>2, <2>1 DEF Values
    <3>3. QED
      BY <3>1, <3>2
  <2> HIDE DEF k
  <2>6. Values(S, F, s0, n + 1, k)
    <3>1. 0 .. (n + 1) - 1 = 0 .. n
      OBVIOUS
    <3>2. QED
      BY <2>3, <2>4, <2>5, <3>1 DEF Values
  <2>7. QED
    BY <2>6
<1>3. \A n \in Nat : n \in T
  BY <1>1, <1>2, Induction
<1>4. QED
  BY <1>3

\* What holds at first and is kept by every step of a loop holds to its end;
\* T pairs each number of steps with the values for which it is to hold.
LEMMA LoopInvariant ==
  ASSUME NEW m \in Nat, NEW f, NEW T, <<0, f[0]>> \in T,
         \A n \in 0 .. m - 1 : <<n, f[n]>> \in T => <<n + 1, f[n + 1]>> \in T
  PROVE  \A n \in 0 .. m : <<n, f[n]>> \in T
<1> DEFINE N == {n \in Nat : n <= m => <<n, f[n]>> \in T}
<1>1. 0 \in N
  OBVIOUS
<1>2. \A n \in Nat : n \in N => n + 1 \in N
  OBVIOUS
<1>3. \A n \in Nat : n \in N
  BY <1>1, <1>2, Induction
<1>4. QED
  BY <1>3

=============================================================================
