---------------------------- MODULE InductionLemmas ----------------------------
(***************************************************************************)
(* Induction over the natural numbers and the existence of what a          *)
(* recursive function computes, for the proofs of the other modules.       *)
(***************************************************************************)
EXTENDS Integers, Sequences, FiniteSetTheorems, SequenceTheorems, TLAPS

(* Induction over the natural numbers, for a set of them.                  *)
LEMMA SetInduction ==
  ASSUME NEW P, 0 \in P, \A n \in Nat : n \in P => n + 1 \in P
  PROVE  \A n \in Nat : n \in P
<1> DEFINE Interval(n) == 1 .. n
           Bad == {Interval(n) : n \in Nat \ P}
<1>1. SUFFICES ASSUME Bad # {} PROVE FALSE
  <2>1. \A n \in Nat : n \notin P => Interval(n) \in Bad
    OBVIOUS
  <2> QED
    BY <1>1, <2>1
<1>2. Bad \subseteq FiniteSubsetsOf(Nat)
  <2> SUFFICES ASSUME NEW n \in Nat PROVE 1 .. n \in FiniteSubsetsOf(Nat)
    OBVIOUS
  <2>1. IsFiniteSet(1 .. n)
    BY FS_Interval
  <2>2. 1 .. n \subseteq Nat
    OBVIOUS
  <2> QED
    BY <2>1, <2>2 DEF FiniteSubsetsOf
<1>3. PICK X \in Bad : \A Y \in Bad : ~(<<Y, X>> \in StrictSubsetOrdering(Nat))
  <2>1. IsWellFoundedOn(StrictSubsetOrdering(Nat), FiniteSubsetsOf(Nat))
    BY FS_StrictSubsetOrderingWellFounded
  <2> HIDE DEF Bad
  <2> QED
    BY <1>1, <1>2, <2>1, WFMin
<1>4. PICK m \in Nat \ P : X = 1 .. m
  BY <1>3
<1>5. m # 0 /\ m - 1 \in Nat /\ m - 1 + 1 = m
  BY <1>4
<1>6. m - 1 \notin P
  BY <1>4, <1>5
<1>7. 1 .. (m - 1) \in Bad
  BY <1>5, <1>6
<1>8. 1 .. (m - 1) \subseteq 1 .. m /\ 1 .. m \subseteq Nat /\ m \in 1 .. m /\ m \notin 1 .. (m - 1)
  BY <1>5
<1>9. <<1 .. (m - 1), X>> \in StrictSubsetOrdering(Nat)
  BY <1>4, <1>8 DEF StrictSubsetOrdering
<1> QED
  BY <1>3, <1>7, <1>9

(* A function that is defined step by step, from the value before, exists.  *)
Iterates(g, N, S, x, step) ==
  g \in [0 .. N -> S] /\ g[0] = x /\ \A n \in 1 .. N : g[n] = step[n][g[n - 1]]

LEMMA IterationExists ==
  ASSUME NEW N \in Nat, NEW S, NEW x \in S, NEW step \in [1 .. N -> [S -> S]]
  PROVE  \E g : Iterates(g, N, S, x, step)
<1> DEFINE Upto(g, m) == g \in [0 .. m -> S] /\ g[0] = x /\ \A n \in 1 .. m : g[n] = step[n][g[n - 1]]
           P == {m \in Nat : m <= N => \E g : Upto(g, m)}
<1>1. 0 \in P
  <2>1. Upto([n \in 0 .. 0 |-> x], 0)
    OBVIOUS
  <2> QED
    BY <2>1
<1>2. ASSUME NEW m \in Nat, m \in P PROVE m + 1 \in P
  <2> SUFFICES ASSUME m + 1 <= N PROVE \E g : Upto(g, m + 1)
    OBVIOUS
  <2>1. PICK g : Upto(g, m)
    BY <1>2
  <2> DEFINE y == step[m + 1][g[m]]
             h == [n \in 0 .. (m + 1) |-> IF n = m + 1 THEN y ELSE g[n]]
  <2>2. y \in S
    <3>1. g[m] \in S /\ m + 1 \in 1 .. N
      BY <2>1
    <3> QED
      BY <3>1
  <2>3. h[m + 1] = y
    OBVIOUS
  <2> HIDE DEF y
  <2>4. \A n \in 0 .. m : h[n] = g[n]
    OBVIOUS
  <2>5. h \in [0 .. (m + 1) -> S]
    <3>1. \A n \in 0 .. (m + 1) : n = m + 1 \/ n \in 0 .. m
      OBVIOUS
    <3>2. \A n \in 0 .. (m + 1) : (IF n = m + 1 THEN y ELSE g[n]) \in S
      BY <3>1, <2>1, <2>2
    <3> QED
      BY <3>2
  <2> HIDE DEF h
  <2>6. \A n \in 1 .. (m + 1) : h[n] = step[n][h[n - 1]]
    <3> SUFFICES ASSUME NEW n \in 1 .. (m + 1) PROVE h[n] = step[n][h[n - 1]]
      OBVIOUS
    <3>1. CASE n = m + 1
      BY <3>1, <2>3, <2>4 DEF y
    <3>2. CASE n \in 1 .. m
      <4>1. n \in 0 .. m /\ n - 1 \in 0 .. m
        BY <3>2
      <4> QED
        BY <4>1, <3>2, <2>1, <2>4
    <3> QED
      BY <3>1, <3>2
  <2>7. h[0] = x
    BY <2>1, <2>4
  <2> QED
    BY <2>5, <2>6, <2>7
<1>3. \A n \in Nat : n \in P
  <2> HIDE DEF P
  <2> QED
    BY <1>1, <1>2, SetInduction
<1> QED
  BY <1>3 DEF Iterates

(* The same up to a bound, with the step as a recursive function takes it.  *)
LEMMA IntervalInduction ==
  ASSUME NEW N \in Nat, NEW P, 0 \in P, \A n \in 1 .. N : n - 1 \in P => n \in P
  PROVE  \A n \in 0 .. N : n \in P
<1> DEFINE Q == {n \in Nat : n <= N => n \in P}
<1>1. 0 \in Q
  OBVIOUS
<1>2. ASSUME NEW n \in Nat, n \in Q PROVE n + 1 \in Q
  <2> SUFFICES ASSUME n + 1 <= N PROVE n + 1 \in P
    OBVIOUS
  <2>1. n + 1 \in 1 .. N /\ n + 1 - 1 = n /\ n <= N
    OBVIOUS
  <2>2. n \in P
    BY <1>2, <2>1
  <2>3. n + 1 - 1 \in P => n + 1 \in P
    BY <2>1
  <2> QED
    BY <2>1, <2>2, <2>3
<1>3. \A n \in Nat : n \in Q
  <2> HIDE DEF Q
  <2> QED
    BY <1>1, <1>2, SetInduction
<1> QED
  BY <1>3

(* Two functions that take the same steps are the same.                     *)
LEMMA StepwiseEqual ==
  ASSUME NEW N \in Nat, NEW g, NEW h, g[0] = h[0],
         \A n \in 1 .. N : g[n - 1] = h[n - 1] => g[n] = h[n]
  PROVE  \A n \in 0 .. N : g[n] = h[n]
<1> DEFINE P == {n \in 0 .. N : g[n] = h[n]}
<1>1. 0 \in P
  OBVIOUS
<1>2. \A n \in 1 .. N : n - 1 \in P => n \in P
  OBVIOUS
<1>3. \A n \in 0 .. N : n \in P
  <2> HIDE DEF P
  <2> QED
    BY <1>1, <1>2, IntervalInduction
<1> QED
  BY <1>3

(* The same, in operators that a proof cites as they are.                   *)
StepAlike(g, h, N) == \A n \in 1 .. N : g[n - 1] = h[n - 1] => g[n] = h[n]
Agree(g, h, N) == \A n \in 0 .. N : g[n] = h[n]

LEMMA StepAlikeAgree ==
  ASSUME NEW N \in Nat, NEW g, NEW h, g[0] = h[0], StepAlike(g, h, N)
  PROVE  Agree(g, h, N)
BY StepwiseEqual DEF StepAlike, Agree

(* Induction over sequences, for a set of them.                             *)
LEMMA SequenceInduction ==
  ASSUME NEW S, NEW P, <<>> \in P,
         \A s \in Seq(S) : \A e \in S : s \in P => Append(s, e) \in P
  PROVE  \A s \in Seq(S) : s \in P
<1> DEFINE Q == {n \in Nat : \A s \in Seq(S) : Len(s) = n => s \in P}
<1>1. 0 \in Q
  <2>1. \A s \in Seq(S) : Len(s) = 0 => s = <<>>
    BY EmptySeq
  <2> QED
    BY <2>1
<1>2. ASSUME NEW n \in Nat, n \in Q PROVE n + 1 \in Q
  <2> SUFFICES ASSUME NEW s \in Seq(S), Len(s) = n + 1 PROVE s \in P
    OBVIOUS
  <2>1. s # <<>>
    <3>1. Len(<<>>) = 0
      BY EmptySeq
    <3> QED
      BY <3>1
  <2>2. PICK t \in Seq(S), e \in S : s = Append(t, e)
    BY <2>1, SequenceEmptyOrAppend
  <2>3. Len(s) = Len(t) + 1 /\ Len(t) \in Nat
    BY <2>2, AppendProperties, LenProperties
  <2>4. Len(t) = n
    BY <2>3
  <2>5. t \in P
    BY <1>2, <2>4
  <2> QED
    BY <2>2, <2>5
<1>3. \A n \in Nat : n \in Q
  <2> HIDE DEF Q
  <2> QED
    BY <1>1, <1>2, SetInduction
<1> QED
  BY <1>3, LenProperties

=============================================================================
