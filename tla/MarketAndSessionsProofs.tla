----------------------- MODULE MarketAndSessionsProofs -----------------------
(***************************************************************************)
(* Proofs about MarketFeed, for any candles, ages and prices, and about    *)
(* TraderSession (auth.service.js).                                        *)
(*                                                                         *)
(* The argument for the candles (CandlesAreSound): as long as the          *)
(* continuity is not broken the stream was not silent after the last       *)
(* candle had begun, so what is carried forward from there is of a time    *)
(* at which the stream was heard.  It holds of every round of the timer    *)
(* and of every price that is published, one after the other.              *)
(*                                                                         *)
(* The argument for the sessions: DocumentInv relates the session          *)
(* documents to each other: no two have the same token, a token that was   *)
(* exchanged is no document's any more, and its successor is one.  CallInv *)
(* relates them to the calls that are under way: a ticket is in the hands  *)
(* of one call at most, and until that call has ended no session of the    *)
(* ticket was given to the trader.                                         *)
(***************************************************************************)
EXTENDS MarketFeed, TraderSession, InductionLemmas, TLAPS

(* A time lies within its candle.                                          *)
LEMMA BucketBounds ==
  ASSUME NEW t \in Nat
  PROVE  /\ Bucket(t) \in Nat
         /\ Bucket(t) * StepTime <= t /\ t < (Bucket(t) + 1) * StepTime
<1>1. StepTime \in Nat /\ StepTime > 0
  BY MarketAssumption
<1> DEFINE q == t \div StepTime
<1>2. q \in Nat /\ t = StepTime * q + (t % StepTime) /\ t % StepTime \in 0 .. (StepTime - 1)
  BY <1>1
<1> HIDE DEF q
<1>3. StepTime * q = q * StepTime /\ (q + 1) * StepTime = q * StepTime + StepTime
  BY <1>1, <1>2
<1>4. q * StepTime \in Nat
  BY <1>1, <1>2
<1> QED
  BY <1>1, <1>2, <1>3, <1>4 DEF Bucket, q

LEMMA Products ==
  ASSUME NEW a \in Int, NEW b \in Int, a <= b
  PROVE  a * StepTime \in Int /\ b * StepTime \in Int /\ a * StepTime <= b * StepTime
BY MarketAssumption

(* A later time has no earlier candle.                                     *)
LEMMA BucketMonotone ==
  ASSUME NEW t \in Nat, NEW u \in Nat, t <= u
  PROVE  Bucket(t) <= Bucket(u)
<1> SUFFICES ASSUME Bucket(u) + 1 <= Bucket(t) PROVE FALSE
  BY BucketBounds
<1>1. (Bucket(u) + 1) * StepTime <= Bucket(t) * StepTime
  BY BucketBounds, Products
<1>2. StepTime \in Nat
  BY MarketAssumption
<1>3. Bucket(t) * StepTime \in Int /\ (Bucket(u) + 1) * StepTime \in Int
  BY <1>2, BucketBounds, Products
<1> QED
  BY <1>1, <1>3, BucketBounds

-----------------------------------------------------------------------------
(***************************************************************************)
(* MarketFeed: the synthetic candles at the end of a sequence.             *)
(***************************************************************************)
LEMMA BarFields ==
  ASSUME NEW b \in Bar
  PROVE  b.open \in Nat /\ b.synthetic \in BOOLEAN /\ b # NoBar
BY DEF Bar, NoBar, Never

TrailingSteps(g, c) ==
  /\ g \in [0 .. Len(c) -> Nat] /\ g[0] = 0
  /\ \A n \in 1 .. Len(c) : g[n] = IF c[n].synthetic THEN g[n - 1] + 1 ELSE 0

LEMMA TrailingIsSteps ==
  ASSUME NEW c \in Seq(Bar)
  PROVE  \E g : TrailingSteps(g, c) /\ TrailingSynthetic(c) = g[Len(c)]
<1> DEFINE N == Len(c)
           Hit(n) == c[n].synthetic
           step == [n \in 1 .. N |-> [y \in Nat |-> IF Hit(n) THEN y + 1 ELSE 0]]
           IsTrailing(u) == u = [n \in 0 .. N |-> IF n = 0 THEN 0 ELSE IF Hit(n) THEN u[n - 1] + 1 ELSE 0]
           h == CHOOSE u : IsTrailing(u)
<1>1. N \in Nat
  BY LenProperties
<1>2. step \in [1 .. N -> [Nat -> Nat]]
  <2> HIDE DEF Hit, N
  <2> QED
    OBVIOUS
<1>3. PICK g : Iterates(g, N, Nat, 0, step)
  <2> HIDE DEF step, N
  <2> QED
    BY <1>1, <1>2, IterationExists
<1>4. /\ g \in [0 .. N -> Nat] /\ g[0] = 0
      /\ \A n \in 1 .. N : g[n] = IF Hit(n) THEN g[n - 1] + 1 ELSE 0
  <2>1. \A n \in 1 .. N : \A y \in Nat : step[n][y] = IF Hit(n) THEN y + 1 ELSE 0
    OBVIOUS
  <2> HIDE DEF step, N, Hit
  <2>2. /\ g \in [0 .. N -> Nat] /\ g[0] = 0
        /\ \A n \in 1 .. N : g[n] = step[n][g[n - 1]]
    BY <1>3 DEF Iterates
  <2>3. \A n \in 1 .. N : g[n - 1] \in Nat
    BY <1>1, <2>2
  <2> QED
    BY <2>1, <2>2, <2>3
<1>5. IsTrailing(g)
  <2> HIDE DEF Hit, N
  <2>1. \A n \in 0 .. N : g[n] = IF n = 0 THEN 0 ELSE IF Hit(n) THEN g[n - 1] + 1 ELSE 0
    BY <1>1, <1>4
  <2> QED
    BY <2>1, <1>4
<1>6. IsTrailing(h)
  <2> HIDE DEF IsTrailing
  <2> QED
    BY <1>5
<1>7. TrailingSynthetic(c) = h[N]
  BY DEF TrailingSynthetic
<1> HIDE DEF Hit
<1>8. \A n \in 0 .. N : h[n] = IF n = 0 THEN 0 ELSE IF Hit(n) THEN h[n - 1] + 1 ELSE 0
  <2> HIDE DEF h
  <2> QED
    BY <1>6
<1> HIDE DEF h, IsTrailing, step, N
<1>9. \A n \in 0 .. N : h[n] = g[n]
  <2>1. h[0] = g[0]
    BY <1>1, <1>4, <1>8
  <2>2. \A n \in 1 .. N : h[n - 1] = g[n - 1] => h[n] = g[n]
    BY <1>1, <1>4, <1>8
  <2>3. StepAlike(h, g, N)
    BY <2>2 DEF StepAlike
  <2>4. Agree(h, g, N)
    BY <1>1, <2>1, <2>3, StepAlikeAgree
  <2> QED
    BY <2>4 DEF Agree
<1> QED
  BY <1>1, <1>4, <1>7, <1>9 DEF TrailingSteps, N, Hit

LEMMA TrailingOfNone == TrailingSynthetic(<<>>) = 0
<1>1. <<>> \in Seq(Bar) /\ Len(<<>>) = 0
  BY EmptySeq
<1>2. PICK g : TrailingSteps(g, <<>>) /\ TrailingSynthetic(<<>>) = g[Len(<<>>)]
  BY <1>1, TrailingIsSteps
<1> QED
  BY <1>1, <1>2 DEF TrailingSteps

(* A candle counts on, or starts the count again, as in #finalizeClosed.   *)
LEMMA TrailingOfAppend ==
  ASSUME NEW c \in Seq(Bar), NEW b \in Bar
  PROVE  /\ TrailingSynthetic(c) \in Nat
         /\ TrailingSynthetic(Append(c, b)) = IF b.synthetic THEN TrailingSynthetic(c) + 1 ELSE 0
<1> DEFINE t == Append(c, b)
           M == Len(c)
<1>1. t \in Seq(Bar) /\ M \in Nat /\ Len(t) = M + 1 /\ t[M + 1] = b /\ \A n \in 1 .. M : t[n] = c[n]
  BY AppendProperties, LenProperties
<1> HIDE DEF t
<1>2. PICK f : TrailingSteps(f, c) /\ TrailingSynthetic(c) = f[M]
  BY TrailingIsSteps
<1>3. PICK g : TrailingSteps(g, t) /\ TrailingSynthetic(t) = g[M + 1]
  BY <1>1, TrailingIsSteps
<1> HIDE DEF M
<1>4. /\ f[0] = 0 /\ f[M] \in Nat
      /\ \A n \in 1 .. M : f[n] = IF c[n].synthetic THEN f[n - 1] + 1 ELSE 0
  BY <1>1, <1>2 DEF TrailingSteps, M
<1>5. /\ g[0] = 0
      /\ \A n \in 1 .. M + 1 : g[n] = IF t[n].synthetic THEN g[n - 1] + 1 ELSE 0
  BY <1>1, <1>3 DEF TrailingSteps
<1>6. Agree(g, f, M)
  <2>1. StepAlike(g, f, M)
    <3>1. \A n \in 1 .. M : g[n - 1] = f[n - 1] => g[n] = f[n]
      <4> SUFFICES ASSUME NEW n \in 1 .. M, g[n - 1] = f[n - 1] PROVE g[n] = f[n]
        OBVIOUS
      <4>1. n \in 1 .. M + 1 /\ t[n] = c[n]
        BY <1>1
      <4> QED
        BY <4>1, <1>4, <1>5
    <3> QED
      BY <3>1 DEF StepAlike
  <2> QED
    BY <2>1, <1>1, <1>4, <1>5, StepAlikeAgree
<1>7. g[M] = f[M]
  BY <1>1, <1>6 DEF Agree
<1>8. g[M + 1] = IF b.synthetic THEN f[M] + 1 ELSE 0
  <2>1. M + 1 \in 1 .. M + 1 /\ M + 1 - 1 = M
    BY <1>1
  <2> QED
    BY <2>1, <1>1, <1>5, <1>7
<1> QED
  BY <1>2, <1>3, <1>4, <1>8 DEF t

-----------------------------------------------------------------------------
(***************************************************************************)
(* MarketFeed: a candle is closed after the others.                        *)
(***************************************************************************)
LEMMA AppendBar ==
  ASSUME NEW c \in Seq(Bar), NEW b \in Bar
  PROVE  /\ Append(c, b) \in Seq(Bar) /\ Len(c) \in Nat /\ Len(Append(c, b)) = Len(c) + 1
         /\ Append(c, b)[Len(c) + 1] = b /\ \A i \in 1 .. Len(c) : Append(c, b)[i] = c[i]
         /\ LastOpen(Append(c, b)) = b.open
<1>1. /\ Append(c, b) \in Seq(Bar) /\ Len(c) \in Nat /\ Len(Append(c, b)) = Len(c) + 1
      /\ Append(c, b)[Len(c) + 1] = b /\ \A i \in 1 .. Len(c) : Append(c, b)[i] = c[i]
  BY AppendProperties, LenProperties
<1> DEFINE t == Append(c, b)
<1>2. t # <<>>
  <2>1. Len(<<>>) = 0 /\ Len(t) # 0
    BY <1>1, EmptySeq
  <2> QED
    BY <2>1
<1>3. LastOpen(t) = b.open
  <2> HIDE DEF t
  <2>1. Len(t) = Len(c) + 1 /\ t[Len(c) + 1] = b
    BY <1>1 DEF t
  <2> QED
    BY <1>2, <2>1 DEF LastOpen
<1> QED
  BY <1>1, <1>3

LEMMA BelowAppend ==
  ASSUME NEW c \in Seq(Bar), NEW b \in Bar, NEW k \in Int, Below(c, k), b.open < k
  PROVE  Below(Append(c, b), k)
<1> DEFINE t == Append(c, b)
<1>1. Len(c) \in Nat /\ Len(t) = Len(c) + 1 /\ t[Len(c) + 1] = b /\ \A i \in 1 .. Len(c) : t[i] = c[i]
  BY AppendBar
<1> HIDE DEF t
<1>2. \A i \in 1 .. Len(t) : t[i].open < k
  <2> SUFFICES ASSUME NEW i \in 1 .. Len(t) PROVE t[i].open < k
    OBVIOUS
  <2>1. CASE i = Len(c) + 1
    BY <1>1, <2>1
  <2>2. CASE i \in 1 .. Len(c)
    BY <1>1, <2>2 DEF Below
  <2> QED
    BY <1>1, <2>1, <2>2
<1> QED
  BY <1>2 DEF Below, t

LEMMA BelowLater ==
  ASSUME NEW c \in Seq(Bar), NEW k \in Int, NEW m \in Int, Below(c, k), k <= m
  PROVE  Below(c, m)
<1>1. \A i \in 1 .. Len(c) : c[i].open \in Nat
  BY ElementOfSeq, BarFields
<1> QED
  BY <1>1 DEF Below

LEMMA AscendingAppend ==
  ASSUME NEW c \in Seq(Bar), NEW b \in Bar, Ascending(c), Below(c, b.open)
  PROVE  Ascending(Append(c, b))
<1> DEFINE t == Append(c, b)
<1>1. Len(c) \in Nat /\ Len(t) = Len(c) + 1 /\ t[Len(c) + 1] = b /\ \A i \in 1 .. Len(c) : t[i] = c[i]
  BY AppendBar
<1> HIDE DEF t
<1>2. ASSUME NEW i \in 1 .. Len(t), NEW j \in 1 .. i - 1 PROVE t[j].open < t[i].open
  <2>1. j \in 1 .. Len(c) /\ t[j] = c[j]
    BY <1>1
  <2>2. CASE i = Len(c) + 1
    BY <1>1, <2>1, <2>2 DEF Below
  <2>3. CASE i \in 1 .. Len(c)
    BY <1>1, <2>1, <2>3 DEF Ascending
  <2> QED
    BY <1>1, <2>2, <2>3
<1> QED
  BY <1>2 DEF Ascending, t

LEMMA AllHeardAppend ==
  ASSUME NEW c \in Seq(Bar), NEW b \in Bar, AllHeard(c), Heard(b)
  PROVE  AllHeard(Append(c, b))
<1> DEFINE t == Append(c, b)
<1>1. Len(c) \in Nat /\ Len(t) = Len(c) + 1 /\ t[Len(c) + 1] = b /\ \A i \in 1 .. Len(c) : t[i] = c[i]
  BY AppendBar
<1> HIDE DEF t
<1>2. ASSUME NEW i \in 1 .. Len(t) PROVE Heard(t[i])
  <2>1. CASE i = Len(c) + 1
    BY <1>1, <2>1
  <2>2. CASE i \in 1 .. Len(c)
    BY <1>1, <2>2 DEF AllHeard
  <2> QED
    BY <1>1, <2>1, <2>2
<1> QED
  BY <1>2 DEF AllHeard, t

LEMMA PrefixOfAppend ==
  ASSUME NEW c \in Seq(Bar), NEW b \in Bar
  PROVE  /\ \A i \in 1 .. Len(c) : SubSeq(Append(c, b), 1, i) = SubSeq(c, 1, i)
         /\ SubSeq(Append(c, b), 1, Len(c) + 1) = Append(c, b)
<1> DEFINE t == Append(c, b)
<1>1. t \in Seq(Bar) /\ Len(c) \in Nat /\ Len(t) = Len(c) + 1 /\ \A i \in 1 .. Len(c) : t[i] = c[i]
  BY AppendBar
<1> HIDE DEF t
<1>2. SubSeq(t, 1, Len(c) + 1) = t
  BY <1>1, SubSeqFull
<1>3. ASSUME NEW i \in 1 .. Len(c) PROVE SubSeq(t, 1, i) = SubSeq(c, 1, i)
  <2>1. \A n \in 1 .. Len(c) : c[n] \in Bar
    BY ElementOfSeq
  <2>2. \A n \in 1 .. i : c[n] \in Bar /\ t[n] = c[n] /\ t[n] \in Bar
    BY <1>1, <2>1
  <2>3. i \in Int /\ 1 \in Int /\ 1 <= i /\ i - 1 + 1 = i
    BY <1>1
  <2>4. SubSeq(c, 1, i) \in Seq(Bar) /\ Len(SubSeq(c, 1, i)) = i /\ \A n \in 1 .. i : SubSeq(c, 1, i)[n] = c[n]
    <3>1. \A n \in 1 .. i : 1 + n - 1 = n
      OBVIOUS
    <3>2. /\ SubSeq(c, 1, i) \in Seq(Bar) /\ Len(SubSeq(c, 1, i)) = i
          /\ \A n \in 1 .. i - 1 + 1 : SubSeq(c, 1, i)[n] = c[1 + n - 1]
      BY <2>2, <2>3, SubSeqProperties
    <3> QED
      BY <2>3, <3>1, <3>2
  <2>5. SubSeq(t, 1, i) \in Seq(Bar) /\ Len(SubSeq(t, 1, i)) = i /\ \A n \in 1 .. i : SubSeq(t, 1, i)[n] = t[n]
    <3>1. \A n \in 1 .. i : 1 + n - 1 = n
      OBVIOUS
    <3>2. /\ SubSeq(t, 1, i) \in Seq(Bar) /\ Len(SubSeq(t, 1, i)) = i
          /\ \A n \in 1 .. i - 1 + 1 : SubSeq(t, 1, i)[n] = t[1 + n - 1]
      BY <2>2, <2>3, SubSeqProperties
    <3> QED
      BY <2>3, <3>1, <3>2
  <2> DEFINE u == SubSeq(c, 1, i)
             v == SubSeq(t, 1, i)
  <2>6. \A n \in 1 .. Len(v) : v[n] = u[n]
    BY <2>2, <2>4, <2>5
  <2>7. u \in Seq(Bar) /\ v \in Seq(Bar) /\ Len(v) = Len(u)
    BY <2>4, <2>5
  <2> HIDE DEF u, v
  <2>8. v = u
    BY <2>6, <2>7, SeqEqual
  <2> QED
    BY <2>8 DEF u, v
<1> QED
  BY <1>2, <1>3 DEF t

LEMMA ShortAppend ==
  ASSUME NEW c \in Seq(Bar), NEW b \in Bar, Short(c),
         TrailingSynthetic(Append(c, b)) <= 2 * MaxGapBars
  PROVE  Short(Append(c, b))
<1> DEFINE t == Append(c, b)
<1>1. Len(c) \in Nat /\ Len(t) = Len(c) + 1
  BY AppendBar
<1>2. (\A i \in 1 .. Len(c) : SubSeq(t, 1, i) = SubSeq(c, 1, i)) /\ SubSeq(t, 1, Len(c) + 1) = t
  BY PrefixOfAppend
<1>3. TrailingSynthetic(t) <= 2 * MaxGapBars
  OBVIOUS
<1> HIDE DEF t
<1>4. ASSUME NEW i \in 1 .. Len(t) PROVE TrailingSynthetic(SubSeq(t, 1, i)) <= 2 * MaxGapBars
  <2>1. CASE i = Len(c) + 1
    BY <1>2, <1>3, <2>1
  <2>2. CASE i \in 1 .. Len(c)
    BY <1>2, <2>2 DEF Short
  <2> QED
    BY <1>1, <2>1, <2>2
<1> QED
  BY <1>4 DEF Short, t

-----------------------------------------------------------------------------
(***************************************************************************)
(* MarketFeed: what #fillShortGap() makes of the closed candles.           *)
(***************************************************************************)
Filled(m, first, d) == IF SessionOpen(first + m - 1) THEN Append(d, Synthetic(first + m - 1)) ELSE d

FillSteps(g, c, first, n) ==
  g \in [0 .. n -> Seq(Bar)] /\ g[0] = c /\ \A m \in 1 .. n : g[m] = Filled(m, first, g[m - 1])

LEMMA SyntheticBar ==
  ASSUME NEW o \in Nat
  PROVE  Synthetic(o) \in Bar /\ Synthetic(o).open = o /\ Synthetic(o).synthetic = TRUE
BY DEF Synthetic, Bar

LEMMA FillIsSteps ==
  ASSUME NEW c \in Seq(Bar), NEW first \in Nat, NEW n \in Nat
  PROVE  \E g : FillSteps(g, c, first, n) /\ Fill(c, first, n) = g[n]
<1> DEFINE S == Seq(Bar)
           step == [m \in 1 .. n |-> [d \in S |-> Filled(m, first, d)]]
           IsFill(u) == u = [m \in 0 .. n |-> IF m = 0 THEN c ELSE Filled(m, first, u[m - 1])]
           h == CHOOSE u : IsFill(u)
<1>1. \A m \in 1 .. n : \A d \in S : Filled(m, first, d) \in S
  <2> SUFFICES ASSUME NEW m \in 1 .. n, NEW d \in S PROVE Filled(m, first, d) \in S
    OBVIOUS
  <2>1. first + m - 1 \in Nat
    OBVIOUS
  <2>2. Append(d, Synthetic(first + m - 1)) \in S
    BY <2>1, SyntheticBar, AppendBar
  <2> QED
    BY <2>2 DEF Filled
<1>2. step \in [1 .. n -> [S -> S]]
  <2> HIDE DEF S
  <2> QED
    BY <1>1
<1>3. PICK g : Iterates(g, n, S, c, step)
  <2> HIDE DEF step
  <2> QED
    BY <1>2, IterationExists
<1>4. g \in [0 .. n -> S] /\ g[0] = c /\ \A m \in 1 .. n : g[m] = Filled(m, first, g[m - 1])
  <2> HIDE DEF S
  <2>1. \A m \in 1 .. n : \A d \in S : step[m][d] = Filled(m, first, d)
    OBVIOUS
  <2> HIDE DEF step
  <2>2. g \in [0 .. n -> S] /\ g[0] = c /\ \A m \in 1 .. n : g[m] = step[m][g[m - 1]]
    BY <1>3 DEF Iterates
  <2>3. \A m \in 1 .. n : g[m - 1] \in S
    BY <2>2
  <2> QED
    BY <2>1, <2>2, <2>3
<1>5. IsFill(g)
  <2> HIDE DEF S
  <2>1. \A m \in 0 .. n : g[m] = IF m = 0 THEN c ELSE Filled(m, first, g[m - 1])
    BY <1>4
  <2> QED
    BY <2>1, <1>4
<1>6. IsFill(h)
  <2> HIDE DEF IsFill
  <2> QED
    BY <1>5
<1>7. Fill(c, first, n) = h[n]
  BY DEF Fill, Filled
<1>8. \A m \in 0 .. n : h[m] = IF m = 0 THEN c ELSE Filled(m, first, h[m - 1])
  <2> HIDE DEF h
  <2> QED
    BY <1>6
<1> HIDE DEF h, IsFill, step, S
<1>9. StepAlike(h, g, n)
  <2>1. \A m \in 1 .. n : h[m - 1] = g[m - 1] => h[m] = g[m]
    BY <1>4, <1>8
  <2> QED
    BY <2>1 DEF StepAlike
<1>10. h[0] = g[0]
  BY <1>4, <1>8
<1>11. Agree(h, g, n)
  BY <1>9, <1>10, StepAlikeAgree
<1>12. h[n] = g[n]
  BY <1>11 DEF Agree
<1> QED
  BY <1>4, <1>7, <1>12 DEF FillSteps, S

(* The candles that are filled in follow the last one, in their order.     *)
LEMMA FillAscends ==
  ASSUME NEW c \in Seq(Bar), NEW first \in Nat, NEW n \in Nat
  PROVE  /\ Fill(c, first, n) \in Seq(Bar)
         /\ \A k \in Int : Below(c, k) /\ first + n <= k => Below(Fill(c, first, n), k)
         /\ Ascending(c) /\ Below(c, first) => Ascending(Fill(c, first, n))
<1>1. PICK g : FillSteps(g, c, first, n) /\ Fill(c, first, n) = g[n]
  BY FillIsSteps
<1>2. g \in [0 .. n -> Seq(Bar)] /\ g[0] = c /\ \A m \in 1 .. n : g[m] = Filled(m, first, g[m - 1])
  BY <1>1 DEF FillSteps
<1>3. \A m \in 1 .. n : m - 1 \in 0 .. n /\ first + m - 1 \in Nat /\ first + (m - 1) = first + m - 1
  OBVIOUS
<1>4. ASSUME NEW k \in Int, Below(c, k), first + n <= k PROVE Below(g[n], k)
  <2> DEFINE P == {m \in 0 .. n : Below(g[m], k)}
  <2>1. 0 \in P
    BY <1>2, <1>4
  <2>2. ASSUME NEW m \in 1 .. n, m - 1 \in P PROVE m \in P
    <3> DEFINE b == Synthetic(first + m - 1)
    <3>1. g[m - 1] \in Seq(Bar) /\ Below(g[m - 1], k) /\ g[m] = Filled(m, first, g[m - 1])
      BY <1>2, <1>3, <2>2
    <3>2. b \in Bar /\ b.open = first + m - 1 /\ b.open < k
      <4>1. first + m - 1 \in Nat /\ first + m - 1 < k
        BY <1>4
      <4> QED
        BY <4>1, SyntheticBar
    <3> HIDE DEF b
    <3>3. Below(Append(g[m - 1], b), k)
      BY <3>1, <3>2, BelowAppend
    <3> QED
      BY <3>1, <3>3 DEF Filled, b
  <2>3. \A m \in 1 .. n : m - 1 \in P => m \in P
    BY <2>2
  <2> HIDE DEF P
  <2>4. \A m \in 0 .. n : m \in P
    BY <2>1, <2>3, IntervalInduction
  <2> QED
    BY <2>4 DEF P
<1>5. ASSUME Ascending(c), Below(c, first) PROVE Ascending(g[n])
  <2> DEFINE P == {m \in 0 .. n : Ascending(g[m]) /\ Below(g[m], first + m)}
  <2>1. 0 \in P
    BY <1>2, <1>5
  <2>2. ASSUME NEW m \in 1 .. n, m - 1 \in P PROVE m \in P
    <3> DEFINE b == Synthetic(first + m - 1)
               d == g[m - 1]
    <3>1. d \in Seq(Bar) /\ Ascending(d) /\ Below(d, first + m - 1) /\ g[m] = Filled(m, first, d)
      BY <1>2, <1>3, <2>2
    <3>2. b \in Bar /\ b.open = first + m - 1
      BY <1>3, SyntheticBar
    <3>3. first + m - 1 \in Int /\ first + m \in Int /\ first + m - 1 <= first + m /\ first + m - 1 < first + m
      OBVIOUS
    <3> HIDE DEF b, d
    <3>4. Below(d, first + m)
      BY <3>1, <3>3, BelowLater
    <3>5. Ascending(Append(d, b)) /\ Below(Append(d, b), first + m)
      BY <3>1, <3>2, <3>3, <3>4, BelowAppend, AscendingAppend
    <3> QED
      BY <3>1, <3>4, <3>5 DEF Filled, b
  <2>3. \A m \in 1 .. n : m - 1 \in P => m \in P
    BY <2>2
  <2> HIDE DEF P
  <2>4. \A m \in 0 .. n : m \in P
    BY <2>1, <2>3, IntervalInduction
  <2> QED
    BY <2>4 DEF P
<1> QED
  BY <1>1, <1>2, <1>4, <1>5

(* As many candles are carried forward as are filled in, and the moment    *)
(* before each of them was not silent.                                     *)
LEMMA FillIsShort ==
  ASSUME NEW c \in Seq(Bar), NEW first \in Nat, NEW n \in Nat, n <= MaxGapBars
  PROVE  /\ Short(c) /\ TrailingSynthetic(c) <= MaxGapBars => Short(Fill(c, first, n))
         /\ AllHeard(c) /\ (\A m \in 1 .. n : (first + m - 1) * StepTime - 1 \notin silent)
              => AllHeard(Fill(c, first, n))
<1>1. PICK g : FillSteps(g, c, first, n) /\ Fill(c, first, n) = g[n]
  BY FillIsSteps
<1>2. g \in [0 .. n -> Seq(Bar)] /\ g[0] = c /\ \A m \in 1 .. n : g[m] = Filled(m, first, g[m - 1])
  BY <1>1 DEF FillSteps
<1>3. \A m \in 1 .. n : m - 1 \in 0 .. n /\ first + m - 1 \in Nat
  OBVIOUS
<1>4. MaxGapBars \in Nat
  BY MarketAssumption
<1>5. ASSUME Short(c), TrailingSynthetic(c) <= MaxGapBars PROVE Short(g[n])
  <2> DEFINE P == {m \in 0 .. n : Short(g[m]) /\ TrailingSynthetic(g[m]) <= MaxGapBars + m}
  <2>1. 0 \in P
    BY <1>2, <1>4, <1>5
  <2>2. ASSUME NEW m \in 1 .. n, m - 1 \in P PROVE m \in P
    <3> DEFINE b == Synthetic(first + m - 1)
               d == g[m - 1]
    <3>1. d \in Seq(Bar) /\ Short(d) /\ TrailingSynthetic(d) <= MaxGapBars + (m - 1) /\ g[m] = Filled(m, first, d)
      BY <1>2, <1>3, <2>2
    <3>2. b \in Bar /\ b.synthetic = TRUE
      BY <1>3, SyntheticBar
    <3> HIDE DEF b, d
    <3>3. TrailingSynthetic(d) \in Nat /\ TrailingSynthetic(Append(d, b)) = TrailingSynthetic(d) + 1
      BY <3>1, <3>2, TrailingOfAppend
    <3>4. TrailingSynthetic(Append(d, b)) <= MaxGapBars + m /\ TrailingSynthetic(d) <= MaxGapBars + m
      BY <1>4, <3>1, <3>3
    <3>5. TrailingSynthetic(Append(d, b)) <= 2 * MaxGapBars
      BY <1>4, <3>3, <3>4
    <3>6. Short(Append(d, b))
      BY <3>1, <3>2, <3>5, ShortAppend
    <3> QED
      BY <3>1, <3>4, <3>6 DEF Filled, b
  <2>3. \A m \in 1 .. n : m - 1 \in P => m \in P
    BY <2>2
  <2> HIDE DEF P
  <2>4. \A m \in 0 .. n : m \in P
    BY <2>1, <2>3, IntervalInduction
  <2> QED
    BY <2>4 DEF P
<1>6. ASSUME AllHeard(c), \A m \in 1 .. n : (first + m - 1) * StepTime - 1 \notin silent
      PROVE  AllHeard(g[n])
  <2> DEFINE P == {m \in 0 .. n : AllHeard(g[m])}
  <2>1. 0 \in P
    BY <1>2, <1>6
  <2>2. ASSUME NEW m \in 1 .. n, m - 1 \in P PROVE m \in P
    <3> DEFINE b == Synthetic(first + m - 1)
               d == g[m - 1]
    <3>1. d \in Seq(Bar) /\ AllHeard(d) /\ g[m] = Filled(m, first, d)
      BY <1>2, <1>3, <2>2
    <3>2. b \in Bar /\ b.open = first + m - 1
      BY <1>3, SyntheticBar
    <3> HIDE DEF b, d
    <3>3. Heard(b)
      BY <1>6, <3>2 DEF Heard
    <3>4. AllHeard(Append(d, b))
      BY <3>1, <3>2, <3>3, AllHeardAppend
    <3> QED
      BY <3>1, <3>4 DEF Filled, b
  <2>3. \A m \in 1 .. n : m - 1 \in P => m \in P
    BY <2>2
  <2> HIDE DEF P
  <2>4. \A m \in 0 .. n : m \in P
    BY <2>1, <2>3, IntervalInduction
  <2> QED
    BY <2>4 DEF P
<1> QED
  BY <1>1, <1>5, <1>6

-----------------------------------------------------------------------------
(***************************************************************************)
(* MarketFeed: the candle engine.  A state of it is sound, for a stream    *)
(* without late prices or any stream, and the price or the timer leaves a  *)
(* sound one.                                                              *)
(***************************************************************************)
LEMMA CandleFields ==
  ASSUME NEW s \in CandleState
  PROVE  /\ s.bar = NoBar \/ s.bar \in Bar
         /\ s.closed \in Seq(Bar) /\ s.broken \in BOOLEAN
         /\ NoBar.open = -1 /\ NoBar.synthetic = FALSE /\ s.bar.open \in Int
<1>1. (s.bar = NoBar \/ s.bar \in Bar) /\ s.closed \in Seq(Bar) /\ s.broken \in BOOLEAN
  BY DEF CandleState
<1>2. NoBar.open = -1 /\ NoBar.synthetic = FALSE
  BY DEF NoBar, Never
<1>3. s.bar.open \in Int
  BY <1>1, <1>2, BarFields
<1> QED
  BY <1>1, <1>2, <1>3

LEMMA CandleRecord ==
  ASSUME NEW b \in Bar \cup {NoBar}, NEW c \in Seq(Bar), NEW k \in BOOLEAN, NEW s,
         s = [bar |-> b, closed |-> c, broken |-> k]
  PROVE  s \in CandleState /\ s.bar = b /\ s.closed = c /\ s.broken = k
BY DEF CandleState

LEMMA LastOpenIsNat ==
  ASSUME NEW c \in Seq(Bar)
  PROVE  /\ LastOpen(c) \in Int /\ (c = <<>> => LastOpen(c) = Never) /\ (c # <<>> => LastOpen(c) \in Nat)
         /\ \A k \in Int : Below(c, k) /\ c # <<>> => LastOpen(c) < k
<1>1. CASE c = <<>>
  BY <1>1 DEF LastOpen, Never
<1>2. CASE c # <<>>
  <2>1. Len(c) \in 1 .. Len(c)
    BY <1>2, EmptySeq, LenProperties
  <2>2. LastOpen(c) = c[Len(c)].open /\ c[Len(c)].open \in Nat
    BY <1>2, <2>1, ElementOfSeq, BarFields DEF LastOpen
  <2> QED
    BY <1>2, <2>1, <2>2 DEF Below
<1> QED
  BY <1>1, <1>2

LEMMA AscendingIsBelowNext ==
  ASSUME NEW c \in Seq(Bar), Ascending(c)
  PROVE  Below(c, LastOpen(c) + 1)
<1>1. CASE c = <<>>
  <2>1. Len(c) = 0
    BY <1>1, EmptySeq
  <2> QED
    BY <2>1 DEF Below
<1>2. CASE c # <<>>
  <2>1. Len(c) \in 1 .. Len(c) /\ Len(c) \in Nat
    BY <1>2, EmptySeq, LenProperties
  <2>2. LastOpen(c) = c[Len(c)].open /\ \A i \in 1 .. Len(c) : c[i].open \in Nat
    BY <1>2, ElementOfSeq, BarFields DEF LastOpen
  <2>3. \A i \in 1 .. Len(c) : i = Len(c) \/ i \in 1 .. Len(c) - 1
    BY <2>1
  <2>4. \A i \in 1 .. Len(c) - 1 : c[i].open < c[Len(c)].open
    BY <2>1 DEF Ascending
  <2>5. \A i \in 1 .. Len(c) : c[i].open < LastOpen(c) + 1
    BY <2>2, <2>3, <2>4
  <2> QED
    BY <2>5 DEF Below
<1> QED
  BY <1>1, <1>2

LEMMA LatestOfClosed ==
  ASSUME NEW s \in CandleState
  PROVE  CloseCurrent(s) \in Seq(Bar) /\ LastOpen(CloseCurrent(s)) = LatestOpen(s) /\ LatestOpen(s) \in Int
<1>1. CASE s.bar = NoBar
  BY <1>1, CandleFields, LastOpenIsNat DEF CloseCurrent, LatestOpen
<1>2. CASE s.bar # NoBar
  <2>1. s.bar \in Bar /\ s.closed \in Seq(Bar) /\ s.bar.open \in Int
    BY <1>2, CandleFields
  <2>2. Append(s.closed, s.bar) \in Seq(Bar) /\ LastOpen(Append(s.closed, s.bar)) = s.bar.open
    BY <2>1, AppendBar
  <2> QED
    BY <1>2, <2>1, <2>2 DEF CloseCurrent, LatestOpen
<1> QED
  BY <1>1, <1>2

(* The formed candle is closed after its time.                             *)
LEMMA ClosedIsSound ==
  ASSUME NEW s \in CandleState, NEW quiet \in BOOLEAN, CandlesAreSound(s, quiet), marketNow \in Nat,
         s.bar # NoBar => s.bar.open < Bucket(marketNow)
  PROVE  LET c == CloseCurrent(s) IN
         /\ Below(c, Bucket(marketNow)) /\ Short(c) /\ TrailingSynthetic(c) <= MaxGapBars
         /\ quiet => Ascending(c) /\ AllHeard(c)
<1>1. MaxGapBars \in Nat /\ Bucket(marketNow) \in Int
  BY MarketAssumption, BucketBounds
<1>2. s.closed \in Seq(Bar) /\ Below(s.closed, Bucket(marketNow)) /\ Short(s.closed)
  BY CandleFields DEF CandlesAreSound, CandlesArePast, CarriedForward
<1>3. CASE s.bar = NoBar
  BY <1>2, <1>3 DEF CloseCurrent, CandlesAreSound, CarriedForward, CandlesAscend, SyntheticIsHeard
<1>4. CASE s.bar # NoBar
  <2> DEFINE c == Append(s.closed, s.bar)
  <2>1. s.bar \in Bar /\ s.bar.open < Bucket(marketNow)
    BY <1>4, CandleFields
  <2>2. Below(c, Bucket(marketNow))
    BY <1>1, <1>2, <2>1, BelowAppend
  <2>3. TrailingSynthetic(c) \in Nat /\ TrailingSynthetic(c) <= MaxGapBars
    <3>1. s.bar.synthetic => TrailingSynthetic(s.closed) < MaxGapBars
      BY DEF CandlesAreSound, CarriedForward
    <3>2. TrailingSynthetic(s.closed) \in Nat
      BY <1>2, <2>1, TrailingOfAppend
    <3>3. TrailingSynthetic(c) = IF s.bar.synthetic THEN TrailingSynthetic(s.closed) + 1 ELSE 0
      BY <1>2, <2>1, TrailingOfAppend
    <3> QED
      BY <1>1, <3>1, <3>2, <3>3
  <2>4. Short(c)
    <3>1. TrailingSynthetic(c) <= 2 * MaxGapBars
      BY <1>1, <2>3
    <3> QED
      BY <1>2, <2>1, <3>1, ShortAppend
  <2>5. ASSUME quiet PROVE Ascending(c) /\ AllHeard(c)
    <3>1. Ascending(s.closed) /\ Below(s.closed, s.bar.open) /\ AllHeard(s.closed) /\ Heard(s.bar)
      BY <1>4, <2>5 DEF CandlesAreSound, CandlesAscend, SyntheticIsHeard
    <3> QED
      BY <1>2, <2>1, <3>1, AscendingAppend, AllHeardAppend
  <2> HIDE DEF c
  <2> QED
    BY <1>4, <2>2, <2>3, <2>4, <2>5 DEF CloseCurrent, c
<1> QED
  BY <1>3, <1>4

(* The context of a step of the engine: the clock and the silent times.    *)
ClockOK == marketNow \in Nat /\ silent \subseteq Nat /\ \A t \in silent : t < marketNow

(* A candle that follows the last one as long as the continuity is not     *)
(* broken begins after a moment that was not silent.                       *)
LEMMA NextIsHeard ==
  ASSUME ClockOK, NEW open \in Int, NEW o \in Int, open < o,
         \A t \in silent : t + 1 < (open + 1) * StepTime
  PROVE  o * StepTime - 1 \notin silent
<1> SUFFICES ASSUME o * StepTime - 1 \in silent PROVE FALSE
  OBVIOUS
<1>1. (open + 1) * StepTime <= o * StepTime /\ o * StepTime \in Int /\ (open + 1) * StepTime \in Int
  BY Products
<1>2. o * StepTime - 1 + 1 < (open + 1) * StepTime
  OBVIOUS
<1> QED
  BY <1>1, <1>2

(* A round of the timer: the formed candle is closed, and carried forward  *)
(* only while the stream is heard and for a few candles.                   *)
LEMMA FlushIsSound ==
  ASSUME NEW s \in CandleState, NEW quiet \in BOOLEAN, CandlesAreSound(s, quiet), ClockOK, s.broken = broken
  PROVE  /\ FlushOne(s) \in CandleState /\ FlushOne(s).broken = broken
         /\ CandlesAreSound(FlushOne(s), quiet)
         /\ LatestOpen(FlushOne(s)) # Never => LatestOpen(s) # Never
<1> DEFINE c == CloseCurrent(s)
           next == s.bar.open + 1
           b == IF CanSynthesize(c, next) THEN Synthetic(next) ELSE NoBar
           r == FlushOne(s)
<1>1. CASE s.bar = NoBar \/ Bucket(marketNow) < next
  BY <1>1 DEF FlushOne
<1>2. CASE s.bar # NoBar /\ ~(Bucket(marketNow) < next)
  <2>1. marketNow \in Nat /\ Bucket(marketNow) \in Nat /\ MaxGapBars \in Nat
    BY BucketBounds, MarketAssumption DEF ClockOK
  <2>2. s.bar \in Bar /\ s.bar.open \in Nat /\ next \in Nat /\ next <= Bucket(marketNow) /\ s.bar.open < Bucket(marketNow)
    <3>1. s.bar \in Bar
      BY <1>2, CandleFields
    <3>2. s.bar.open \in Nat
      BY <3>1, BarFields
    <3> QED
      BY <1>2, <2>1, <3>1, <3>2
  <2>3. c \in Seq(Bar) /\ LastOpen(c) = s.bar.open /\ LatestOpen(s) = s.bar.open
    BY <1>2, LatestOfClosed DEF LatestOpen
  <2>4. /\ Below(c, Bucket(marketNow)) /\ Short(c) /\ TrailingSynthetic(c) <= MaxGapBars
        /\ quiet => Ascending(c) /\ AllHeard(c)
    BY <2>1, <2>2, ClosedIsSound
  <2>5. Synthetic(next) \in Bar /\ Synthetic(next).open = next /\ Synthetic(next).synthetic = TRUE /\ Synthetic(next) # NoBar
    BY <2>2, SyntheticBar, BarFields
  <2>6. b \in Bar \cup {NoBar} /\ (b # NoBar => b.open = next /\ ~broken /\ TrailingSynthetic(c) < MaxGapBars)
    BY <2>5 DEF CanSynthesize
  <2>7. r = [bar |-> b, closed |-> c, broken |-> s.broken]
    BY <1>2 DEF FlushOne
  <2>8. s.broken \in BOOLEAN
    BY CandleFields
  <2> HIDE DEF b, c, next, r
  <2>9. r \in CandleState /\ r.bar = b /\ r.closed = c /\ r.broken = s.broken
    BY <2>3, <2>6, <2>7, <2>8, CandleRecord
  <2>10. NoBar.open = -1 /\ NoBar.synthetic = FALSE
    BY CandleFields
  <2>11. CandlesArePast(r)
    BY <2>1, <2>2, <2>4, <2>6, <2>9, <2>10 DEF CandlesArePast
  <2>12. CarriedForward(r)
    <3>1. r.bar.synthetic => TrailingSynthetic(c) < MaxGapBars
      BY <2>6, <2>9, <2>10
    <3> QED
      BY <2>4, <2>9, <3>1 DEF CarriedForward
  <2>13. LatestOpen(r) = IF b # NoBar THEN next ELSE s.bar.open
    BY <2>3, <2>6, <2>9 DEF LatestOpen
  <2>14. ASSUME quiet PROVE CandlesAscend(r) /\ SyntheticIsHeard(r) /\ UnbrokenIsHeard(r)
    <3>1. Ascending(c) /\ AllHeard(c) /\ Below(c, next)
      BY <2>2, <2>3, <2>4, <2>14, AscendingIsBelowNext DEF next
    <3>2. ASSUME ~broken PROVE \A t \in silent : t + 1 < (s.bar.open + 1) * StepTime
      <4>1. UnbrokenIsHeard(s) /\ LatestOpen(s) # Never
        BY <2>2, <2>3, <2>14 DEF CandlesAreSound, Never
      <4> QED
        BY <2>3, <3>2, <4>1 DEF UnbrokenIsHeard
    <3>3. CandlesAscend(r)
      BY <2>6, <2>9, <3>1 DEF CandlesAscend
    <3>4. Heard(b)
      <4>1. CASE b = NoBar
        BY <2>10, <4>1 DEF Heard
      <4>2. CASE b # NoBar
        <5>1. next * StepTime - 1 \notin silent
          <6>1. s.bar.open \in Int /\ next \in Int /\ s.bar.open < next
            BY <2>2 DEF next
          <6> QED
            BY <6>1, <2>6, <3>2, <4>2, NextIsHeard
        <5> QED
          BY <2>6, <4>2, <5>1 DEF Heard
      <4> QED
        BY <4>1, <4>2
    <3>5. SyntheticIsHeard(r)
      BY <2>9, <3>1, <3>4 DEF SyntheticIsHeard
    <3>6. UnbrokenIsHeard(r)
      <4>1. SUFFICES ASSUME ~broken, NEW t \in silent PROVE t + 1 < (LatestOpen(r) + 1) * StepTime
        BY <2>9 DEF UnbrokenIsHeard
      <4>2. t + 1 < (s.bar.open + 1) * StepTime
        BY <3>2, <4>1
      <4>3. CASE b = NoBar
        BY <2>13, <4>2, <4>3
      <4>4. CASE b # NoBar
        <5>1. s.bar.open + 1 \in Int /\ next + 1 \in Int /\ s.bar.open + 1 <= next + 1 /\ t \in Nat
          BY <2>2, <4>1 DEF next, ClockOK
        <5>2. /\ (s.bar.open + 1) * StepTime \in Int /\ (next + 1) * StepTime \in Int
              /\ (s.bar.open + 1) * StepTime <= (next + 1) * StepTime
          BY <5>1, Products
        <5> QED
          BY <2>13, <4>2, <4>4, <5>1, <5>2
      <4> QED
        BY <4>3, <4>4
    <3> QED
      BY <3>3, <3>5, <3>6
  <2>15. LatestOpen(s) # Never
    BY <2>2, <2>3 DEF Never
  <2>16. CandlesAreSound(r, quiet)
    BY <2>11, <2>12, <2>14 DEF CandlesAreSound
  <2> QED
    BY <2>9, <2>15, <2>16 DEF r
<1> QED
  BY <1>1, <1>2

(* A short gap is filled, up to the candle that a price begins.            *)
LEMMA FillShortGapIsSound ==
  ASSUME NEW c \in Seq(Bar), NEW target \in Nat, ClockOK, target <= Bucket(marketNow),
         Below(c, Bucket(marketNow)), Short(c), TrailingSynthetic(c) <= MaxGapBars
  PROVE  LET d == FillShortGap(c, target) IN
         /\ d \in Seq(Bar) /\ Below(d, Bucket(marketNow)) /\ Short(d)
         /\ Ascending(c) => Ascending(d)
         /\ AllHeard(c) /\ (LastOpen(c) # Never => \A t \in silent : t + 1 < (LastOpen(c) + 1) * StepTime)
              => AllHeard(d)
<1> DEFINE first == LastOpen(c) + 1
           missing == target - first
<1>1. CASE c = <<>> \/ missing <= 0 \/ missing > MaxGapBars
  <2>1. FillShortGap(c, target) = c
    BY <1>1 DEF FillShortGap
  <2> QED
    BY <2>1
<1>2. CASE ~(c = <<>> \/ missing <= 0 \/ missing > MaxGapBars)
  <2>1. FillShortGap(c, target) = Fill(c, first, missing)
    BY <1>2 DEF FillShortGap
  <2>2. MaxGapBars \in Nat /\ LastOpen(c) \in Nat /\ Bucket(marketNow) \in Nat
    BY <1>2, MarketAssumption, LastOpenIsNat, BucketBounds DEF ClockOK
  <2>3. first \in Nat /\ missing \in Nat /\ missing <= MaxGapBars /\ first + missing = target /\ first = LastOpen(c) + 1
    BY <1>2, <2>2
  <2> HIDE DEF first, missing
  <2>4. /\ Fill(c, first, missing) \in Seq(Bar)
        /\ Below(Fill(c, first, missing), Bucket(marketNow))
    <3>1. /\ Fill(c, first, missing) \in Seq(Bar)
          /\ \A k \in Int : Below(c, k) /\ first + missing <= k => Below(Fill(c, first, missing), k)
      BY <2>3, FillAscends
    <3>2. Bucket(marketNow) \in Int /\ first + missing <= Bucket(marketNow)
      BY <2>2, <2>3
    <3> QED
      BY <3>1, <3>2
  <2>5. Short(Fill(c, first, missing))
    BY <2>3, FillIsShort
  <2>6. Ascending(c) => Ascending(Fill(c, first, missing))
    BY <2>3, FillAscends, AscendingIsBelowNext
  <2>7. ASSUME AllHeard(c), LastOpen(c) # Never => \A t \in silent : t + 1 < (LastOpen(c) + 1) * StepTime
        PROVE  AllHeard(Fill(c, first, missing))
    <3>1. \A t \in silent : t + 1 < (LastOpen(c) + 1) * StepTime
      BY <2>2, <2>7 DEF Never
    <3>2. ASSUME NEW m \in 1 .. missing PROVE (first + m - 1) * StepTime - 1 \notin silent
      <4>1. first + m - 1 \in Int /\ LastOpen(c) \in Int /\ LastOpen(c) < first + m - 1
        BY <2>2, <2>3
      <4> QED
        BY <3>1, <4>1, NextIsHeard
    <3> QED
      BY <2>3, <2>7, <3>2, FillIsShort
  <2> QED
    BY <2>1, <2>4, <2>5, <2>6, <2>7
<1> QED
  BY <1>1, <1>2

(* A price that is of the present time, or of any time if the stream may   *)
(* be late.                                                                *)
LEMMA TickIsSound ==
  ASSUME NEW s \in CandleState, NEW quiet \in BOOLEAN, CandlesAreSound(s, quiet), ClockOK,
         NEW time \in Nat, Bucket(time) <= Bucket(marketNow), quiet => Bucket(time) = Bucket(marketNow)
  PROVE  ProcessTick(s, time) \in CandleState /\ CandlesAreSound(ProcessTick(s, time), quiet)
<1> DEFINE b == Bucket(time)
           c == CloseCurrent(s)
           now == Bucket(marketNow)
           r == ProcessTick(s, time)
<1>1. marketNow \in Nat /\ now \in Nat /\ b \in Nat /\ MaxGapBars \in Nat
  BY BucketBounds, MarketAssumption DEF ClockOK
<1>2. /\ s.bar = NoBar \/ s.bar \in Bar
      /\ s.closed \in Seq(Bar) /\ s.bar.open \in Int /\ NoBar.open = -1
  BY CandleFields
<1>3. Started(b) \in Bar /\ Started(b).open = b /\ Started(b).synthetic = FALSE /\ Started(b) # NoBar
  <2>1. Started(b) \in Bar /\ Started(b).open = b /\ Started(b).synthetic = FALSE
    BY <1>1 DEF Started, Bar
  <2> QED
    BY <2>1, BarFields
<1>4. s.bar.open <= now /\ Below(s.closed, now) /\ Short(s.closed)
  BY DEF CandlesAreSound, CandlesArePast, CarriedForward
<1>5. b <= now /\ (quiet => b = now)
  OBVIOUS
<1>6. ASSUME NEW d \in Seq(Bar), Below(d, now), Short(d), quiet => Ascending(d) /\ AllHeard(d),
             r = [bar |-> Started(b), closed |-> d, broken |-> FALSE]
      PROVE  r \in CandleState /\ CandlesAreSound(r, quiet)
  <2> HIDE DEF r, b, now
  <2>1. r \in CandleState /\ r.bar = Started(b) /\ r.closed = d /\ r.broken = FALSE
    BY <1>3, <1>6 DEF CandleState
  <2>2. LatestOpen(r) = b
    BY <1>3, <2>1 DEF LatestOpen
  <2>3. CandlesArePast(r)
    BY <1>1, <1>3, <1>5, <1>6, <2>1 DEF CandlesArePast, now
  <2>4. CarriedForward(r)
    BY <1>3, <1>6, <2>1 DEF CarriedForward
  <2>5. ASSUME quiet PROVE CandlesAscend(r) /\ SyntheticIsHeard(r) /\ UnbrokenIsHeard(r)
    <3>1. CandlesAscend(r)
      BY <1>3, <1>5, <1>6, <2>1, <2>5 DEF CandlesAscend
    <3>2. SyntheticIsHeard(r)
      BY <1>3, <1>6, <2>1, <2>5 DEF SyntheticIsHeard, Heard
    <3>3. UnbrokenIsHeard(r)
      <4>1. marketNow < (now + 1) * StepTime /\ (now + 1) * StepTime \in Int
        BY <1>1, BucketBounds, MarketAssumption DEF now
      <4>2. \A t \in silent : t + 1 < (now + 1) * StepTime
        BY <1>1, <4>1 DEF ClockOK
      <4> QED
        BY <1>5, <2>2, <2>5, <4>2 DEF UnbrokenIsHeard
    <3> QED
      BY <3>1, <3>2, <3>3
  <2> QED
    BY <2>1, <2>3, <2>4, <2>5 DEF CandlesAreSound
<1>7. CASE s.bar # NoBar /\ b < s.bar.open
  <2>1. r = [bar |-> s.bar, closed |-> s.closed, broken |-> FALSE]
    BY <1>7 DEF ProcessTick
  <2> HIDE DEF r, b, now
  <2>2. r \in CandleState /\ r.bar = s.bar /\ r.closed = s.closed
    BY <1>2, <2>1 DEF CandleState
  <2>3. ~quiet
    BY <1>1, <1>2, <1>4, <1>5, <1>7
  <2>4. CandlesArePast(r) /\ CarriedForward(r)
    BY <2>2 DEF CandlesAreSound, CandlesArePast, CarriedForward
  <2> QED
    BY <2>2, <2>3, <2>4 DEF CandlesAreSound, r
<1>8. CASE s.bar # NoBar /\ b = s.bar.open
  <2>1. r = [bar |-> Started(b), closed |-> s.closed, broken |-> FALSE]
    BY <1>1, <1>8 DEF ProcessTick
  <2>2. quiet => Ascending(s.closed) /\ AllHeard(s.closed)
    BY DEF CandlesAreSound, CandlesAscend, SyntheticIsHeard
  <2> HIDE DEF r, b, now
  <2>3. r \in CandleState /\ CandlesAreSound(r, quiet)
    BY <1>2, <1>4, <1>6, <2>1, <2>2
  <2> QED
    BY <2>3 DEF r
<1>9. CASE s.bar = NoBar \/ s.bar.open < b
  <2> DEFINE d == IF s.broken THEN c ELSE FillShortGap(c, b)
  <2>1. r = [bar |-> Started(b), closed |-> d, broken |-> FALSE]
    BY <1>1, <1>2, <1>9 DEF ProcessTick
  <2>2. s.bar # NoBar => s.bar.open < now
    BY <1>1, <1>2, <1>5, <1>9
  <2>3. /\ Below(c, now) /\ Short(c) /\ TrailingSynthetic(c) <= MaxGapBars
        /\ quiet => Ascending(c) /\ AllHeard(c)
    BY <1>1, <2>2, ClosedIsSound
  <2>4. c \in Seq(Bar) /\ LastOpen(c) = LatestOpen(s)
    BY LatestOfClosed
  <2> HIDE DEF r, c
  <2>5. d \in Seq(Bar) /\ Below(d, now) /\ Short(d) /\ (quiet => Ascending(d) /\ AllHeard(d))
    <3>1. CASE s.broken
      BY <2>3, <2>4, <3>1
    <3>2. CASE ~s.broken
      <4>1. quiet => (LastOpen(c) # Never => \A t \in silent : t + 1 < (LastOpen(c) + 1) * StepTime)
        BY <2>4, <3>2 DEF CandlesAreSound, UnbrokenIsHeard
      <4> DEFINE e == FillShortGap(c, b)
      <4>2. /\ e \in Seq(Bar) /\ Below(e, now) /\ Short(e)
            /\ Ascending(c) => Ascending(e)
            /\ AllHeard(c) /\ (LastOpen(c) # Never => \A t \in silent : t + 1 < (LastOpen(c) + 1) * StepTime)
                 => AllHeard(e)
        BY <1>1, <1>5, <2>3, <2>4, FillShortGapIsSound
      <4>3. d = e
        BY <3>2
      <4> HIDE DEF e, d
      <4> QED
        BY <2>3, <4>1, <4>2, <4>3
    <3> QED
      BY <3>1, <3>2
  <2> HIDE DEF d, b, now
  <2>6. r \in CandleState /\ CandlesAreSound(r, quiet)
    BY <1>6, <2>1, <2>5
  <2> QED
    BY <2>6 DEF r
<1> QED
  BY <1>1, <1>2, <1>7, <1>8, <1>9

(* The rounds of the timer, and the prices that are published together.    *)
LEMMA FlushedIsSound ==
  ASSUME Candles \in CandleState, NEW quiet \in BOOLEAN, CandlesAreSound(Candles, quiet), ClockOK
  PROVE  /\ Flushed \in CandleState /\ Flushed.broken = broken /\ CandlesAreSound(Flushed, quiet)
         /\ LatestOpen(Flushed) # Never => LatestOpen(Candles) # Never
<1> DEFINE S == {s \in CandleState : /\ s.broken = broken /\ CandlesAreSound(s, quiet)
                                     /\ LatestOpen(s) # Never => LatestOpen(Candles) # Never}
           N == MaxGapBars + 2
           step == [n \in 1 .. N |-> [s \in S |-> FlushOne(s)]]
           IsFlushed(u) == u = [n \in 0 .. N |-> IF n = 0 THEN Candles ELSE FlushOne(u[n - 1])]
           h == CHOOSE u : IsFlushed(u)
<1>1. N \in Nat
  BY MarketAssumption
<1>2. Candles \in S
  BY DEF Candles
<1>3. \A s \in S : FlushOne(s) \in S
  BY FlushIsSound
<1>4. Flushed = h[N]
  BY DEF Flushed
<1> HIDE DEF S, N
<1>5. step \in [1 .. N -> [S -> S]]
  BY <1>3
<1>6. \A n \in 1 .. N : \A s \in S : step[n][s] = FlushOne(s)
  OBVIOUS
<1> HIDE DEF step
<1>7. PICK g : Iterates(g, N, S, Candles, step)
  BY <1>1, <1>2, <1>5, IterationExists
<1>8. g \in [0 .. N -> S] /\ g[0] = Candles /\ \A n \in 1 .. N : g[n] = step[n][g[n - 1]]
  BY <1>7 DEF Iterates
<1>9. \A n \in 0 .. N : g[n] = IF n = 0 THEN Candles ELSE FlushOne(g[n - 1])
  <2>1. \A n \in 1 .. N : g[n - 1] \in S
    BY <1>1, <1>8
  <2> QED
    BY <1>1, <1>6, <1>8, <2>1
<1>10. IsFlushed(g)
  BY <1>8, <1>9
<1>11. IsFlushed(h)
  <2> HIDE DEF IsFlushed
  <2> QED
    BY <1>10
<1>12. \A n \in 0 .. N : h[n] = IF n = 0 THEN Candles ELSE FlushOne(h[n - 1])
  <2> HIDE DEF h
  <2> QED
    BY <1>11
<1> HIDE DEF h, IsFlushed
<1> DEFINE P == {n \in 0 .. N : h[n] \in S}
<1>13. 0 \in P
  BY <1>1, <1>2, <1>12
<1>14. \A n \in 1 .. N : n - 1 \in P => n \in P
  BY <1>1, <1>3, <1>12
<1>15. N \in P
  <2> HIDE DEF P
  <2>1. \A n \in 0 .. N : n \in P
    BY <1>1, <1>13, <1>14, IntervalInduction
  <2> QED
    BY <1>1, <2>1
<1>16. Flushed \in S
  BY <1>4, <1>15
<1> QED
  BY <1>16 DEF S

LEMMA TicksAreSound ==
  ASSUME Candles \in CandleState, NEW quiet \in BOOLEAN, CandlesAreSound(Candles, quiet), ClockOK,
         NEW sent, Len(sent) \in Nat,
         \A n \in 1 .. Len(sent) : /\ sent[n].time \in Nat /\ Bucket(sent[n].time) <= Bucket(marketNow)
                                   /\ quiet => Bucket(sent[n].time) = Bucket(marketNow)
  PROVE  ProcessTicks(sent) \in CandleState /\ CandlesAreSound(ProcessTicks(sent), quiet)
<1> DEFINE S == {s \in CandleState : CandlesAreSound(s, quiet)}
           N == Len(sent)
           Then(n, s) == ProcessTick(s, sent[n].time)
           step == [n \in 1 .. N |-> [s \in S |-> Then(n, s)]]
           AreTicks(u) == u = [n \in 0 .. N |-> IF n = 0 THEN Candles ELSE Then(n, u[n - 1])]
           h == CHOOSE u : AreTicks(u)
<1>1. N \in Nat
  OBVIOUS
<1>2. Candles \in S
  OBVIOUS
<1>3. \A n \in 1 .. N : \A s \in S : Then(n, s) \in S
  BY TickIsSound
<1>4. ProcessTicks(sent) = h[N]
  BY DEF ProcessTicks
<1> HIDE DEF S, N, Then
<1>5. step \in [1 .. N -> [S -> S]]
  BY <1>3
<1>6. \A n \in 1 .. N : \A s \in S : step[n][s] = Then(n, s)
  OBVIOUS
<1> HIDE DEF step
<1>7. PICK g : Iterates(g, N, S, Candles, step)
  BY <1>1, <1>2, <1>5, IterationExists
<1>8. g \in [0 .. N -> S] /\ g[0] = Candles /\ \A n \in 1 .. N : g[n] = step[n][g[n - 1]]
  BY <1>7 DEF Iterates
<1>9. \A n \in 0 .. N : g[n] = IF n = 0 THEN Candles ELSE Then(n, g[n - 1])
  <2>1. \A n \in 1 .. N : g[n - 1] \in S
    BY <1>1, <1>8
  <2> QED
    BY <1>1, <1>6, <1>8, <2>1
<1>10. AreTicks(g)
  BY <1>8, <1>9
<1>11. AreTicks(h)
  <2> HIDE DEF AreTicks
  <2> QED
    BY <1>10
<1>12. \A n \in 0 .. N : h[n] = IF n = 0 THEN Candles ELSE Then(n, h[n - 1])
  <2> HIDE DEF h
  <2> QED
    BY <1>11
<1> HIDE DEF h, AreTicks
<1> DEFINE P == {n \in 0 .. N : h[n] \in S}
<1>13. 0 \in P
  BY <1>1, <1>2, <1>12
<1>14. \A n \in 1 .. N : n - 1 \in P => n \in P
  BY <1>1, <1>3, <1>12
<1>15. N \in P
  <2> HIDE DEF P
  <2>1. \A n \in 0 .. N : n \in P
    BY <1>1, <1>13, <1>14, IntervalInduction
  <2> QED
    BY <1>1, <2>1
<1>16. ProcessTicks(sent) \in S
  BY <1>4, <1>15
<1> QED
  BY <1>16 DEF S

-----------------------------------------------------------------------------
(***************************************************************************)
(* MarketFeed: the quote and its health.                                   *)
(***************************************************************************)
QuoteType == [at : MarketTime \cup {Never}, stale : BOOLEAN]
Honest(q, state) ==
  /\ q \in QuoteType /\ state \in SymbolState
  /\ q.stale => TooOld(q, MaxAge)
  /\ state \in {"LIVE", "REFRESHING"} => ~q.stale
QuoteOK ==
  /\ Honest(quote, symbolState)
  /\ fetching \in BOOLEAN /\ lastAttempt \in MarketTime \cup {Never} /\ marketNow \in MarketTime

LEMMA MarketTimes ==
  /\ MarketTime \subseteq Nat /\ Never = -1 /\ Never \notin MarketTime
  /\ (\A t \in MarketTime : t \in Nat /\ t \in Int) /\ \A t \in MarketTime \cup {Never} : t \in Int
  /\ MaxAge \in Nat /\ SoftAge \in Nat
BY MarketAssumption DEF MarketTime, Never

LEMMA EnsureIsHonest ==
  ASSUME QuoteOK, NEW q, NEW state, Honest(q, state), NEW wanted \in BOOLEAN, Ensure(q, state, wanted),
         marketNow' = marketNow
  PROVE  QuoteOK'
<1>1. quote' = q /\ marketNow' \in MarketTime
  BY DEF Ensure, QuoteOK
<1>2. /\ fetching' \in BOOLEAN /\ lastAttempt' \in MarketTime \cup {Never}
      /\ symbolState' = state \/ (symbolState' = "REFRESHING" /\ ~TooOld(q, MaxAge))
  BY DEF Ensure, QuoteOK
<1>3. Honest(q, symbolState')
  <2>1. CASE symbolState' = state
    BY <2>1
  <2>2. CASE symbolState' = "REFRESHING" /\ ~TooOld(q, MaxAge)
    BY <2>2 DEF Honest, SymbolState
  <2> QED
    BY <1>2, <2>1, <2>2
<1>4. Honest(quote, symbolState)'
  BY <1>1, <1>3 DEF Honest, TooOld
<1> QED
  BY <1>1, <1>2, <1>4 DEF QuoteOK

LEMMA QuoteFields ==
  ASSUME NEW q \in QuoteType
  PROVE  /\ q.at \in MarketTime \cup {Never} /\ q.stale \in BOOLEAN
         /\ Stale(q) \in QuoteType /\ Stale(q).stale = TRUE /\ Stale(q).at = q.at
BY DEF QuoteType, Stale

LEMMA FreshIsHonest ==
  ASSUME NEW at \in MarketTime
  PROVE  Honest([at |-> at, stale |-> FALSE], "LIVE")
<1>1. [at |-> at, stale |-> FALSE] \in QuoteType
  BY DEF QuoteType
<1>2. "LIVE" \in SymbolState
  BY DEF SymbolState
<1> QED
  BY <1>1, <1>2 DEF Honest

LEMMA StaleIsHonest ==
  ASSUME NEW q \in QuoteType, TooOld(q, MaxAge), NEW state \in SymbolState, state \notin {"LIVE", "REFRESHING"}
  PROVE  Honest(Stale(q), state)
<1>1. TooOld(Stale(q), MaxAge)
  BY QuoteFields DEF TooOld
<1> QED
  BY <1>1, QuoteFields DEF Honest

LEMMA QuoteStep ==
  ASSUME QuoteOK, quarantine \in [at : MarketTime, time : MarketTime] \cup {NoTick}, MarketNext
  PROVE  QuoteOK'
<1> DEFINE old == TooOld(quote, MaxAge)
<1>1. /\ quote \in QuoteType /\ symbolState \in SymbolState /\ marketNow \in MarketTime
      /\ Honest(quote, symbolState) /\ fetching \in BOOLEAN /\ lastAttempt \in MarketTime \cup {Never}
  BY DEF QuoteOK, Honest
<1>2. /\ "LIVE" \in SymbolState /\ "STALE" \in SymbolState /\ "UNAVAILABLE" \in SymbolState
      /\ "DISCONNECTED" \in SymbolState /\ "WAITING" \in SymbolState /\ "REFRESHING" \in SymbolState
      /\ "SUBSCRIPTION_ERROR" \in SymbolState
  BY DEF SymbolState
<1>3. ~old => ~quote.stale
  BY <1>1 DEF Honest
<1>4. ASSUME NEW state \in SymbolState, ~quote.stale PROVE Honest(quote, state)
  BY <1>1, <1>4 DEF Honest
<1>5. ASSUME NEW state \in SymbolState, state \notin {"LIVE", "REFRESHING"} PROVE Honest(quote, state)
  BY <1>1, <1>5 DEF Honest
<1>6. ASSUME quote' = quote, symbolState' = symbolState, fetching' \in BOOLEAN, UNCHANGED <<lastAttempt, marketNow>>
      PROVE  QuoteOK'
  BY <1>1, <1>6 DEF QuoteOK, Honest, TooOld
<1>7. ASSUME NEW q, NEW state, Honest(q, state), quote' = q, symbolState' = state, fetching' \in BOOLEAN,
             lastAttempt' = lastAttempt, marketNow' = marketNow
      PROVE  QuoteOK'
  BY <1>1, <1>7 DEF QuoteOK, Honest, TooOld
<1>8. CASE RetainPriority
  <2>1. TooOld(quote, SoftAge) \in BOOLEAN
    BY DEF TooOld
  <2> QED
    BY <1>1, <1>8, <2>1, EnsureIsHonest DEF RetainPriority
<1>9. CASE ReleasePriority
  BY <1>1, <1>6, <1>9 DEF ReleasePriority, quoteVars
<1>10. CASE RecoveryAnswers
  BY <1>1, <1>7, <1>10, FreshIsHonest DEF RecoveryAnswers
<1>11. CASE RecoveryFails
  <2>1. fetching' = FALSE /\ lastAttempt' = lastAttempt /\ marketNow' = marketNow
    BY <1>11 DEF RecoveryFails
  <2>2. CASE old
    <3>1. Honest(Stale(quote), "UNAVAILABLE")
      BY <1>1, <1>2, <2>2, StaleIsHonest
    <3> QED
      BY <1>7, <1>11, <2>1, <2>2, <3>1 DEF RecoveryFails
  <2>3. CASE ~old
    <3>1. Honest(quote, "LIVE")
      BY <1>2, <1>3, <1>4, <2>3
    <3> QED
      BY <1>7, <1>11, <2>1, <2>3, <3>1 DEF RecoveryFails
  <2> QED
    BY <2>2, <2>3
<1>12. CASE StreamPrice
  <2>1. UNCHANGED <<marketNow, fetching, lastAttempt>>
    BY <1>12 DEF StreamPrice
  <2>2. ASSUME NEW sent, NEW at \in MarketTime, sent[Len(sent)].at = at, Publish(sent) PROVE QuoteOK'
    <3>1. quote' = [at |-> at, stale |-> FALSE] /\ symbolState' = "LIVE"
      BY <2>2 DEF Publish
    <3> QED
      BY <1>1, <1>7, <2>1, <3>1, FreshIsHonest
  <2>3. PICK time : \/ Publish(<<Tick(marketNow, time)>>)
                    \/ Publish(<<quarantine, Tick(marketNow, time)>>)
                    \/ UNCHANGED <<quote, symbolState>>
    BY <1>12 DEF StreamPrice
  <2> DEFINE tick == Tick(marketNow, time)
  <2>4. tick.at = marketNow
    BY DEF Tick
  <2> HIDE DEF tick
  <2>5. CASE Publish(<<tick>>)
    <3> DEFINE sent == <<tick>>
    <3>1. Len(sent) = 1 /\ sent[1] = tick
      OBVIOUS
    <3>2. sent[Len(sent)].at = marketNow
      BY <2>4, <3>1
    <3> HIDE DEF sent
    <3> QED
      BY <1>1, <2>2, <2>5, <3>2 DEF sent
  <2>6. CASE Publish(<<quarantine, tick>>)
    <3> DEFINE sent == <<quarantine, tick>>
    <3>1. Len(sent) = 2 /\ sent[2] = tick
      OBVIOUS
    <3>2. sent[Len(sent)].at = marketNow
      BY <2>4, <3>1
    <3> HIDE DEF sent
    <3> QED
      BY <1>1, <2>2, <2>6, <3>2 DEF sent
  <2>7. CASE UNCHANGED <<quote, symbolState>>
    BY <1>1, <1>6, <2>1, <2>7
  <2> QED
    BY <2>3, <2>5, <2>6, <2>7 DEF tick
<1>13. CASE Disconnect
  <2> DEFINE q == IF old /\ quote # NoQuote THEN Stale(quote) ELSE quote
             state == IF old THEN "DISCONNECTED" ELSE symbolState
  <2>1. Honest(q, state)
    <3>1. CASE old
      <4>1. Honest(Stale(quote), "DISCONNECTED")
        BY <1>1, <1>2, <3>1, StaleIsHonest
      <4>2. Honest(quote, "DISCONNECTED")
        BY <1>2, <1>5
      <4> QED
        BY <3>1, <4>1, <4>2
    <3>2. CASE ~old
      BY <1>1, <3>2
    <3> QED
      BY <3>1, <3>2
  <2>2. Ensure(q, state, priority > 0) /\ marketNow' = marketNow
    BY <1>13 DEF Disconnect
  <2>3. (priority > 0) \in BOOLEAN
    OBVIOUS
  <2> HIDE DEF q, state
  <2> QED
    BY <2>1, <2>2, <2>3, EnsureIsHonest
<1>14. CASE Connect
  BY <1>1, <1>6, <1>14 DEF Connect, quoteVars
<1>15. CASE SubscriptionFails
  <2>1. Honest(quote, "SUBSCRIPTION_ERROR")
    BY <1>2, <1>5
  <2> QED
    BY <1>1, <1>7, <1>15, <2>1 DEF SubscriptionFails
<1>16. CASE CheckQuoteFreshness
  <2>1. marketNow' = marketNow
    BY <1>16 DEF CheckQuoteFreshness
  <2>2. (priority > 0) \in BOOLEAN /\ FALSE \in BOOLEAN
    OBVIOUS
  <2>3. CASE Ensure(quote, "WAITING", priority > 0)
    BY <1>2, <1>5, <2>1, <2>2, <2>3, EnsureIsHonest
  <2>4. CASE old /\ Ensure(Stale(quote), "STALE", priority > 0)
    <3>1. Honest(Stale(quote), "STALE")
      BY <1>1, <1>2, <2>4, StaleIsHonest
    <3> QED
      BY <2>1, <2>2, <2>4, <3>1, EnsureIsHonest
  <2>5. CASE ~old /\ Ensure(quote, "REFRESHING", priority > 0)
    BY <1>2, <1>3, <1>4, <2>1, <2>2, <2>5, EnsureIsHonest
  <2>6. CASE Ensure(quote, IF quote.stale THEN symbolState ELSE "LIVE", FALSE)
    <3>1. Honest(quote, IF quote.stale THEN symbolState ELSE "LIVE")
      BY <1>1, <1>2, <1>4
    <3> DEFINE state == IF quote.stale THEN symbolState ELSE "LIVE"
    <3>2. Honest(quote, state) /\ Ensure(quote, state, FALSE)
      BY <2>6, <3>1
    <3> HIDE DEF state
    <3> QED
      BY <2>1, <2>2, <3>2, EnsureIsHonest
  <2> QED
    BY <1>16, <2>3, <2>4, <2>5, <2>6 DEF CheckQuoteFreshness
<1>17. CASE FlushExpired
  BY <1>1, <1>6, <1>17 DEF FlushExpired, quoteVars
<1>18. CASE Pass
  <2>1. UNCHANGED <<quote, symbolState, fetching, lastAttempt>> /\ marketNow' = marketNow + 1 /\ marketNow < MaxMarketTime
    BY <1>18 DEF Pass, quoteVars
  <2>2. marketNow' \in MarketTime
    BY <1>1, <2>1, MarketAssumption DEF MarketTime
  <2>3. TooOld(quote, MaxAge) => TooOld(quote, MaxAge)'
    <3>1. quote.at \in MarketTime \cup {Never}
      BY <1>1, QuoteFields
    <3>2. quote.at \in Int /\ marketNow \in Int /\ marketNow' = marketNow + 1 /\ quote' = quote /\ MaxAge \in Int
      <4>1. quote.at \in Int
        BY <3>1, MarketTimes
      <4>2. marketNow \in MarketTime
        BY <1>1
      <4>3. marketNow \in Int /\ MaxAge \in Int
        BY <4>2, MarketTimes
      <4> QED
        BY <2>1, <4>1, <4>3
    <3>3. marketNow - quote.at > MaxAge => marketNow' - quote.at > MaxAge
      BY <3>2
    <3> QED
      BY <3>2, <3>3 DEF TooOld
  <2> QED
    BY <1>1, <2>1, <2>2, <2>3 DEF QuoteOK, Honest
<1> QED
  BY <1>8, <1>9, <1>10, <1>11, <1>12, <1>13, <1>14, <1>15, <1>16, <1>17, <1>18 DEF MarketNext

-----------------------------------------------------------------------------
(***************************************************************************)
(* MarketFeed: the connection, the filter and the history.                 *)
(***************************************************************************)
StreamOK ==
  /\ stream \in {"connecting", "live", "down"} /\ outage \in BOOLEAN /\ priority \in 0 .. MaxPriority
  /\ marketNow \in MarketTime /\ lastTime \in MarketTime \cup {Never}
  /\ quarantine \in [at : MarketTime, time : MarketTime] \cup {NoTick} /\ quarantine.time <= marketNow
  /\ feedLive \in BOOLEAN /\ silent \in SUBSET MarketTime /\ late \in BOOLEAN /\ ticks \in 0 .. MaxTicks
  /\ outage => stream = "down" /\ ~feedLive
  /\ \A t \in silent : t < marketNow

LEMMA MaxIsOne ==
  ASSUME NEW S, S \subseteq Int, NEW m \in S, \A y \in S : m >= y
  PROVE  Max(S) \in S /\ \A y \in S : Max(S) >= y
BY DEF Max

LEMMA MaxOfThree ==
  ASSUME NEW a \in Int, NEW b \in Int, NEW c \in Int
  PROVE  Max({a, b, c}) \in {a, b, c} /\ Max({a, b, c}) >= a
<1> DEFINE S == {a, b, c}
<1>1. S \subseteq Int /\ a \in S
  OBVIOUS
<1>2. \E m \in S : \A y \in S : m >= y
  <2>1. CASE a >= b /\ a >= c
    BY <2>1
  <2>2. CASE b >= a /\ b >= c
    BY <2>2
  <2>3. CASE c >= a /\ c >= b
    BY <2>3
  <2> QED
    BY <2>1, <2>2, <2>3
<1>3. PICK m \in S : \A y \in S : m >= y
  BY <1>2
<1> HIDE DEF S
<1>4. Max(S) \in S /\ \A y \in S : Max(S) >= y
  BY <1>1, <1>3, MaxIsOne
<1> QED
  BY <1>1, <1>4 DEF S

(* What the filter publishes at a time: a price, or two of them.           *)
Sent(sent) ==
  /\ Len(sent) \in {1, 2}
  /\ \A n \in 1 .. Len(sent) : sent[n].time \in MarketTime /\ sent[n].time <= marketNow

LEMMA StreamPriceSteps ==
  ASSUME StreamOK, StreamPrice
  PROVE  \/ \E sent : Sent(sent) /\ Publish(sent) /\ quarantine' = NoTick
         \/ /\ quarantine' \in [at : MarketTime, time : MarketTime] /\ quarantine'.time <= marketNow
            /\ UNCHANGED <<quote, symbolState, candleVars, late, lastTime>>
<1>1. marketNow \in Nat /\ Lag \in Nat /\ marketNow - Lag \in Int
  BY MarketAssumption, MarketTimes DEF StreamOK
<1>2. PICK time \in Max({0, marketNow - Lag}) .. marketNow :
        LET tick == Tick(marketNow, time) IN
        \/ Publish(<<tick>>) /\ quarantine' = NoTick
        \/ Held /\ Publish(<<quarantine, tick>>) /\ quarantine' = NoTick
        \/ quarantine' = tick /\ UNCHANGED <<quote, symbolState, candleVars, late, lastTime>>
  BY DEF StreamPrice
<1>3. Max({0, marketNow - Lag}) \in Int /\ Max({0, marketNow - Lag}) >= 0
  <2> DEFINE x == marketNow - Lag
  <2>1. x \in Int
    BY <1>1
  <2> HIDE DEF x
  <2>2. {0, x} = {0, x, 0}
    OBVIOUS
  <2>3. Max({0, x, 0}) \in {0, x, 0} /\ Max({0, x, 0}) >= 0
    BY <2>1, MaxOfThree
  <2>4. Max({0, x}) \in Int /\ Max({0, x}) >= 0
    BY <2>1, <2>2, <2>3
  <2> QED
    BY <2>4 DEF x
<1>4. time \in MarketTime /\ time <= marketNow
  <2>1. marketNow \in 0 .. MaxMarketTime /\ MaxMarketTime \in Nat
    BY MarketAssumption DEF StreamOK, MarketTime
  <2>2. time \in Int /\ 0 <= time /\ time <= marketNow
    BY <1>1, <1>2, <1>3
  <2> QED
    BY <2>1, <2>2 DEF MarketTime
<1> DEFINE tick == Tick(marketNow, time)
<1>5. tick.time = time /\ tick \in [at : MarketTime, time : MarketTime]
  BY <1>4 DEF Tick, StreamOK
<1> HIDE DEF tick
<1>6. CASE Publish(<<tick>>) /\ quarantine' = NoTick
  <2> DEFINE sent == <<tick>>
  <2>1. Len(sent) = 1 /\ sent[1] = tick
    OBVIOUS
  <2> HIDE DEF sent
  <2>2. Sent(sent)
    BY <1>4, <1>5, <2>1 DEF Sent
  <2> QED
    BY <1>6, <2>2 DEF sent
<1>7. CASE Held /\ Publish(<<quarantine, tick>>) /\ quarantine' = NoTick
  <2> DEFINE sent == <<quarantine, tick>>
  <2>1. Len(sent) = 2 /\ sent[1] = quarantine /\ sent[2] = tick
    OBVIOUS
  <2>2. quarantine.time \in MarketTime /\ quarantine.time <= marketNow
    BY <1>7 DEF Held, StreamOK
  <2> HIDE DEF sent
  <2>3. Sent(sent)
    BY <1>4, <1>5, <2>1, <2>2 DEF Sent
  <2> QED
    BY <1>7, <2>3 DEF sent
<1>8. CASE quarantine' = tick /\ UNCHANGED <<quote, symbolState, candleVars, late, lastTime>>
  BY <1>4, <1>5, <1>8
<1> QED
  BY <1>2, <1>6, <1>7, <1>8 DEF tick

LEMMA LatestTimeIsATime ==
  ASSUME StreamOK, NEW sent, Sent(sent)
  PROVE  LatestTime(sent) \in MarketTime \cup {Never}
<1> DEFINE S == {lastTime} \cup {sent[n].time : n \in 1 .. Len(sent)}
<1>1. lastTime \in Int /\ lastTime \in MarketTime \cup {Never}
  BY MarketTimes DEF StreamOK
<1>2. CASE Len(sent) = 1
  <2>1. S = {lastTime, sent[1].time, sent[1].time} /\ sent[1].time \in MarketTime
    BY <1>2 DEF Sent
  <2>2. sent[1].time \in Int
    BY <2>1, MarketTimes
  <2>3. Max(S) \in {lastTime, sent[1].time, sent[1].time}
    BY <1>1, <2>1, <2>2, MaxOfThree
  <2> QED
    BY <1>1, <2>1, <2>3 DEF LatestTime
<1>3. CASE Len(sent) = 2
  <2>1. S = {lastTime, sent[1].time, sent[2].time} /\ sent[1].time \in MarketTime /\ sent[2].time \in MarketTime
    BY <1>3 DEF Sent
  <2>2. sent[1].time \in Int /\ sent[2].time \in Int
    BY <2>1, MarketTimes
  <2>3. Max(S) \in {lastTime, sent[1].time, sent[2].time}
    BY <1>1, <2>1, <2>2, MaxOfThree
  <2> QED
    BY <1>1, <2>1, <2>3 DEF LatestTime
<1> QED
  BY <1>2, <1>3 DEF Sent

LEMMA StreamStep ==
  ASSUME StreamOK, MarketNext
  PROVE  StreamOK'
<1>1. /\ MaxPriority \in Nat /\ MaxTicks \in Nat /\ MaxMarketTime \in Nat
      /\ NoTick \in {NoTick} /\ NoTick.time = -1
  BY MarketAssumption DEF NoTick, Never
<1>2. marketNow \in Nat /\ NoTick.time <= marketNow
  BY <1>1, MarketTimes DEF StreamOK
<1>3. ASSUME UNCHANGED <<stream, outage, priority, marketNow, lastTime, feedLive, silent, late, ticks>>,
             quarantine' \in [at : MarketTime, time : MarketTime] \cup {NoTick}, quarantine'.time <= marketNow
      PROVE  StreamOK'
  BY <1>3 DEF StreamOK
<1>4. quarantine \in [at : MarketTime, time : MarketTime] \cup {NoTick} /\ quarantine.time <= marketNow
  BY DEF StreamOK
<1>4a. ASSUME UNCHANGED <<stream, outage, priority, marketNow, lastTime, quarantine, silent, late, ticks>>,
              feedLive' = feedLive \/ feedLive' = FALSE
       PROVE  StreamOK'
  <2>1. feedLive' \in BOOLEAN /\ (outage => ~feedLive')
    <3>1. feedLive \in BOOLEAN /\ (outage => ~feedLive)
      BY DEF StreamOK
    <3>2. CASE feedLive' = feedLive
      BY <3>1, <3>2, Zenon
    <3>3. CASE feedLive' = FALSE
      BY <3>3, Zenon
    <3> QED
      BY <1>4a, <3>2, <3>3
  <2> QED
    BY <1>4a, <2>1 DEF StreamOK
<1>5. CASE RetainPriority
  BY <1>1, <1>5 DEF RetainPriority, StreamOK, filterVars, candleVars, historyVars
<1>6. CASE ReleasePriority
  BY <1>1, <1>6 DEF ReleasePriority, StreamOK, filterVars, candleVars, historyVars
<1>7. CASE RecoveryAnswers
  BY <1>2, <1>3, <1>7 DEF RecoveryAnswers, candleVars, historyVars
<1>8. CASE RecoveryFails
  <2>1. UNCHANGED <<stream, outage, priority, marketNow, lastTime, quarantine, silent, late, ticks>>
    BY <1>8 DEF RecoveryFails, filterVars, historyVars
  <2>2. feedLive' = feedLive \/ feedLive' = FALSE
    BY <1>8 DEF RecoveryFails, candleVars, StopFeed
  <2> QED
    BY <1>4a, <2>1, <2>2
<1>9. CASE StreamPrice
  <2>1. UNCHANGED <<marketNow, stream, outage, priority, silent>> /\ ticks' = ticks + 1 /\ ticks < MaxTicks /\ stream = "live"
    BY <1>9 DEF StreamPrice
  <2>2. ticks' \in 0 .. MaxTicks
    BY <1>1, <2>1 DEF StreamOK
  <2>3. ASSUME NEW sent, Sent(sent), Publish(sent), quarantine' = NoTick PROVE StreamOK'
    <3>1. feedLive' = TRUE /\ late' \in BOOLEAN /\ lastTime' = LatestTime(sent)
      BY <2>3 DEF Publish
    <3>2. lastTime' \in MarketTime \cup {Never}
      BY <2>3, <3>1, LatestTimeIsATime
    <3>3. ~outage
      BY <2>1 DEF StreamOK
    <3> QED
      BY <1>2, <2>1, <2>2, <2>3, <3>1, <3>2, <3>3 DEF StreamOK
  <2>4. ASSUME quarantine' \in [at : MarketTime, time : MarketTime], quarantine'.time <= marketNow,
               UNCHANGED <<quote, symbolState, candleVars, late, lastTime>>
        PROVE  StreamOK'
    BY <2>1, <2>2, <2>4 DEF StreamOK, candleVars
  <2> QED
    BY <1>9, <2>3, <2>4, StreamPriceSteps
<1>10. CASE Disconnect
  <2>1. /\ stream' = "down" /\ outage' = TRUE /\ feedLive' = FALSE /\ quarantine' = NoTick
        /\ UNCHANGED <<priority, marketNow, lastTime, silent, late, ticks>>
    BY <1>10 DEF Disconnect, StopFeed, historyVars
  <2> QED
    BY <1>2, <2>1 DEF StreamOK
<1>11. CASE Connect
  <2>1. /\ stream' = "live" /\ outage' = FALSE
        /\ UNCHANGED <<priority, marketNow, lastTime, quarantine, feedLive, silent, late, ticks>>
    BY <1>11 DEF Connect, filterVars, candleVars, historyVars
  <2> QED
    BY <2>1 DEF StreamOK
<1>12. CASE SubscriptionFails
  BY <1>3, <1>4, <1>12 DEF SubscriptionFails, filterVars, candleVars, historyVars
<1>13. CASE CheckQuoteFreshness
  <2>1. UNCHANGED <<stream, outage, priority, marketNow, lastTime, quarantine, silent, late, ticks>>
    BY <1>13 DEF CheckQuoteFreshness, filterVars, historyVars
  <2>2. feedLive' = feedLive \/ feedLive' = FALSE
    BY <1>13 DEF CheckQuoteFreshness, candleVars, StopFeed
  <2> QED
    BY <1>4a, <2>1, <2>2
<1>14. CASE FlushExpired
  BY <1>3, <1>4, <1>14 DEF FlushExpired, filterVars, historyVars
<1>15. CASE Pass
  <2>1. /\ UNCHANGED <<stream, outage, priority, lastTime, quarantine, feedLive, late, ticks>>
        /\ marketNow' = marketNow + 1 /\ marketNow < MaxMarketTime
        /\ silent' = silent \/ silent' = silent \cup {marketNow}
    BY <1>15 DEF Pass, filterVars, candleVars
  <2>2. marketNow' \in MarketTime /\ marketNow \in MarketTime
    BY <1>1, <1>2, <2>1 DEF MarketTime
  <2>3. silent \subseteq Nat
    BY MarketTimes DEF StreamOK
  <2>4. silent' \in SUBSET MarketTime /\ \A t \in silent' : t < marketNow'
    <3>1. silent' \subseteq silent \cup {marketNow} /\ silent \subseteq MarketTime
      BY <2>1 DEF StreamOK
    <3>2. \A t \in silent : t \in Nat /\ t < marketNow
      BY <2>3 DEF StreamOK
    <3>3. \A t \in silent \cup {marketNow} : t < marketNow'
      BY <1>2, <2>1, <3>2
    <3> QED
      BY <2>2, <3>1, <3>3
  <2>5. quarantine'.time <= marketNow'
    <3>1. quarantine.time \in Int
      BY <1>1, <1>4, MarketTimes
    <3> QED
      BY <1>2, <1>4, <2>1, <3>1
  <2> QED
    BY <2>1, <2>2, <2>4, <2>5 DEF StreamOK
<1> QED
  BY <1>5, <1>6, <1>7, <1>8, <1>9, <1>10, <1>11, <1>12, <1>13, <1>14, <1>15 DEF MarketNext

-----------------------------------------------------------------------------
(***************************************************************************)
(* MarketFeed: the candles.                                                *)
(***************************************************************************)
CandleOK == Candles \in CandleState /\ CandlesAreSound(Candles, ~late) /\ CandlesAreFed

LEMMA CandlesFields == Candles.bar = bar /\ Candles.closed = closed /\ Candles.broken = broken
BY DEF Candles

LEMMA CandlesFieldsNext == Candles'.bar = bar' /\ Candles'.closed = closed' /\ Candles'.broken = broken'
BY DEF Candles

(* The engine has the candles that a step has computed.                    *)
LEMMA NewCandles ==
  ASSUME NEW x \in CandleState, CandlesAreSound(x, ~late'), SetCandles(x), UNCHANGED <<marketNow, silent>>
  PROVE  Candles' = x /\ Candles' \in CandleState /\ CandlesAreSound(Candles, ~late)'
<1>1. Candles' = x
  BY DEF SetCandles, Candles, CandleState
<1>2. CandlesArePast(Candles)' /\ CarriedForward(Candles)'
  BY <1>1 DEF CandlesAreSound, CandlesArePast, CarriedForward
<1>3. ASSUME ~late' PROVE (CandlesAscend(Candles) /\ SyntheticIsHeard(Candles) /\ UnbrokenIsHeard(Candles))'
  <2>1. CandlesAscend(x) /\ SyntheticIsHeard(x) /\ UnbrokenIsHeard(x)
    BY <1>3 DEF CandlesAreSound
  <2> QED
    BY <1>1, <2>1 DEF CandlesAscend, SyntheticIsHeard, AllHeard, Heard, UnbrokenIsHeard
<1> QED
  BY <1>1, <1>2, <1>3 DEF CandlesAreSound

(* The continuity of the candles may be broken.                            *)
LEMMA BrokenCandles ==
  ASSUME Candles \in CandleState, CandlesAreSound(Candles, ~late), NEW k \in BOOLEAN, ~k => ~broken,
         UNCHANGED <<bar, closed, marketNow, silent, late>>, broken' = k
  PROVE  Candles' \in CandleState /\ CandlesAreSound(Candles, ~late)' /\ LatestOpen(Candles)' = LatestOpen(Candles)
<1> DEFINE x == [bar |-> bar, closed |-> closed, broken |-> k]
<1>1. bar \in Bar \cup {NoBar} /\ closed \in Seq(Bar)
  BY CandleFields, CandlesFields
<1>2. x \in CandleState /\ x.bar = bar /\ x.closed = closed /\ x.broken = k
  BY <1>1 DEF CandleState
<1> HIDE DEF x
<1>3. LatestOpen(x) = LatestOpen(Candles)
  BY <1>2, CandlesFields DEF LatestOpen
<1>4. CandlesArePast(x) /\ CarriedForward(x)
  BY <1>2, CandlesFields DEF CandlesAreSound, CandlesArePast, CarriedForward
<1>5. ASSUME ~late PROVE CandlesAscend(x) /\ SyntheticIsHeard(x) /\ UnbrokenIsHeard(x)
  <2>1. CandlesAscend(Candles) /\ SyntheticIsHeard(Candles) /\ UnbrokenIsHeard(Candles)
    BY <1>5 DEF CandlesAreSound
  <2>2. CandlesAscend(x) /\ SyntheticIsHeard(x)
    BY <1>2, <2>1, CandlesFields DEF CandlesAscend, SyntheticIsHeard
  <2>3. UnbrokenIsHeard(x)
    BY <1>2, <1>3, <2>1, CandlesFields DEF UnbrokenIsHeard
  <2> QED
    BY <2>2, <2>3
<1>6. CandlesAreSound(x, ~late)
  BY <1>4, <1>5 DEF CandlesAreSound
<1>7. SetCandles(x)
  BY <1>2 DEF SetCandles
<1>8. Candles' = x /\ Candles' \in CandleState /\ CandlesAreSound(Candles, ~late)'
  <2>1. CandlesAreSound(x, ~late')
    BY <1>6
  <2> QED
    BY <1>2, <1>7, <2>1, NewCandles
<1>9. LatestOpen(Candles)' = LatestOpen(x)
  BY <1>8
<1> QED
  BY <1>3, <1>8, <1>9

LEMMA SameCandles ==
  ASSUME CandleOK, feedLive' = feedLive, UNCHANGED <<bar, closed, broken, marketNow, silent, late>>
  PROVE  CandleOK'
<1>1. broken \in BOOLEAN
  BY CandleFields, CandlesFields DEF CandleOK
<1>2. Candles' \in CandleState /\ CandlesAreSound(Candles, ~late)' /\ LatestOpen(Candles)' = LatestOpen(Candles)
  BY <1>1, BrokenCandles DEF CandleOK
<1>3. CandlesAreFed'
  BY <1>2 DEF CandleOK, CandlesAreFed
<1> QED
  BY <1>2, <1>3 DEF CandleOK

LEMMA StoppedCandles ==
  ASSUME CandleOK, feedLive \in BOOLEAN, StopFeed, UNCHANGED <<marketNow, silent, late>>
  PROVE  CandleOK'
<1>1. broken \in BOOLEAN
  BY CandleFields, CandlesFields DEF CandleOK
<1>2. broken' = (broken \/ feedLive) /\ UNCHANGED <<bar, closed>>
  BY DEF StopFeed
<1>3. (broken \/ feedLive) \in BOOLEAN
  OBVIOUS
<1>4. Candles' \in CandleState /\ CandlesAreSound(Candles, ~late)' /\ LatestOpen(Candles)' = LatestOpen(Candles)
  BY <1>2, <1>3, BrokenCandles DEF CandleOK
<1>5. CandlesAreFed'
  BY <1>2, <1>4, Zenon DEF CandleOK, CandlesAreFed
<1> QED
  BY <1>4, <1>5 DEF CandleOK

LEMMA PublishedCandles ==
  ASSUME CandleOK, StreamOK, UNCHANGED <<marketNow, silent>>, NEW sent, Sent(sent), Publish(sent)
  PROVE  CandleOK'
<1>1. ClockOK /\ marketNow \in Nat /\ late \in BOOLEAN
  BY MarketTimes DEF StreamOK, ClockOK
<1>2. /\ late' = (late \/ \E n \in 1 .. Len(sent) : Bucket(sent[n].time) < Bucket(marketNow))
      /\ SetCandles(ProcessTicks(sent)) /\ feedLive' = TRUE
  BY DEF Publish
<1>3. late' \in BOOLEAN /\ (~late' => ~late) /\ Len(sent) \in Nat
  <2>1. late' \in BOOLEAN /\ (~late' => ~late)
    BY <1>2, Zenon
  <2>2. Len(sent) \in Nat
    BY DEF Sent
  <2> QED
    BY <2>1, <2>2
<1>4. Candles \in CandleState /\ CandlesAreSound(Candles, ~late')
  <2>1. CandlesAreSound(Candles, ~late)
    BY DEF CandleOK
  <2> QED
    BY <1>3, <2>1 DEF CandleOK, CandlesAreSound
<1>5. ASSUME NEW n \in 1 .. Len(sent)
      PROVE  /\ sent[n].time \in Nat /\ Bucket(sent[n].time) <= Bucket(marketNow)
             /\ ~late' => Bucket(sent[n].time) = Bucket(marketNow)
  <2>1. sent[n].time \in MarketTime /\ sent[n].time <= marketNow
    BY DEF Sent
  <2>2. sent[n].time \in Nat
    BY <2>1, MarketTimes
  <2>3. Bucket(sent[n].time) <= Bucket(marketNow) /\ Bucket(sent[n].time) \in Nat /\ Bucket(marketNow) \in Nat
    BY <1>1, <2>1, <2>2, BucketMonotone, BucketBounds
  <2>4. ~late' => ~(Bucket(sent[n].time) < Bucket(marketNow))
    BY <1>2
  <2> QED
    BY <2>2, <2>3, <2>4
<1> DEFINE quiet == ~late'
           x == ProcessTicks(sent)
<1>6. quiet \in BOOLEAN
  BY <1>3
<1>7. x \in CandleState /\ CandlesAreSound(x, quiet)
  <2>1. /\ CandlesAreSound(Candles, quiet)
        /\ \A n \in 1 .. Len(sent) : /\ sent[n].time \in Nat /\ Bucket(sent[n].time) <= Bucket(marketNow)
                                     /\ quiet => Bucket(sent[n].time) = Bucket(marketNow)
    BY <1>4, <1>5
  <2> HIDE DEF quiet
  <2> QED
    BY <1>1, <1>3, <1>4, <1>6, <2>1, TicksAreSound
<1> HIDE DEF x
<1>8. Candles' \in CandleState /\ CandlesAreSound(Candles, ~late)'
  <2>1. SetCandles(x)
    BY <1>2 DEF x
  <2> QED
    BY <1>7, <2>1, NewCandles
<1>9. CandlesAreFed'
  BY <1>2 DEF CandlesAreFed
<1> QED
  BY <1>8, <1>9 DEF CandleOK

LEMMA PassedCandles ==
  ASSUME CandleOK, StreamOK, Pass
  PROVE  CandleOK'
<1>1. /\ UNCHANGED <<stream, outage, bar, closed, broken, feedLive, late>>
      /\ marketNow' = marketNow + 1
      /\ silent' = IF outage THEN silent \cup {marketNow} ELSE silent
  BY DEF Pass, candleVars
<1>2. marketNow \in Nat /\ marketNow' \in Nat /\ marketNow <= marketNow' /\ silent \subseteq Nat
  BY <1>1, MarketTimes DEF StreamOK
<1>3. /\ Bucket(marketNow) \in Nat /\ Bucket(marketNow') \in Nat /\ Bucket(marketNow) <= Bucket(marketNow')
      /\ Bucket(marketNow) * StepTime <= marketNow
  BY <1>2, BucketBounds, BucketMonotone
<1>4. /\ bar = NoBar \/ bar \in Bar
      /\ closed \in Seq(Bar) /\ bar.open \in Int /\ NoBar.synthetic = FALSE
  BY CandleFields, CandlesFields DEF CandleOK
<1>5. Candles' = Candles /\ Candles' \in CandleState
  BY <1>1 DEF CandleOK, Candles
<1>6. CandlesArePast(Candles) /\ CarriedForward(Candles)
  BY DEF CandleOK, CandlesAreSound
<1>7. bar.open <= Bucket(marketNow) /\ Below(closed, Bucket(marketNow))
  BY <1>6, CandlesFields DEF CandlesArePast
<1>8. CandlesArePast(Candles)'
  <2>1. Below(closed, Bucket(marketNow'))
    BY <1>3, <1>4, <1>7, BelowLater
  <2>2. bar.open <= Bucket(marketNow')
    BY <1>3, <1>4, <1>7
  <2> QED
    BY <1>5, <2>1, <2>2, CandlesFields DEF CandlesArePast
<1>9. CarriedForward(Candles)'
  BY <1>5, <1>6
<1>10. ASSUME ~late PROVE (CandlesAscend(Candles) /\ SyntheticIsHeard(Candles) /\ UnbrokenIsHeard(Candles))'
  <2>1. CandlesAscend(Candles) /\ SyntheticIsHeard(Candles) /\ UnbrokenIsHeard(Candles)
    BY <1>10 DEF CandleOK, CandlesAreSound
  <2>2. ASSUME NEW b \in Bar, b.open <= Bucket(marketNow), Heard(b) PROVE Heard(b)'
    <3>1. b.open * StepTime - 1 < marketNow /\ b.open * StepTime - 1 # marketNow
      <4>1. b.open \in Int
        BY BarFields
      <4>2. b.open * StepTime \in Int /\ b.open * StepTime <= Bucket(marketNow) * StepTime /\ Bucket(marketNow) * StepTime \in Int
        BY <1>3, <2>2, <4>1, Products
      <4> QED
        BY <1>2, <1>3, <4>2
    <3> QED
      BY <1>1, <2>2, <3>1 DEF Heard
  <2>3. Heard(bar)'
    <3>1. CASE bar = NoBar
      BY <1>1, <1>4, <3>1 DEF Heard
    <3>2. CASE bar \in Bar
      <4>1. Heard(bar)
        BY <2>1, CandlesFields DEF SyntheticIsHeard
      <4> QED
        BY <1>1, <1>7, <2>2, <3>2, <4>1 DEF Heard
    <3> QED
      BY <1>4, <3>1, <3>2
  <2>4. AllHeard(closed)'
    <3>1. ASSUME NEW i \in 1 .. Len(closed) PROVE Heard(closed[i])'
      <4>1. closed[i] \in Bar /\ closed[i].open < Bucket(marketNow) /\ closed[i].open \in Int
        BY <1>4, <1>7, ElementOfSeq, BarFields DEF Below
      <4>2. Heard(closed[i])
        BY <2>1, CandlesFields DEF SyntheticIsHeard, AllHeard
      <4> DEFINE b == closed[i]
      <4>3. b \in Bar /\ b.open <= Bucket(marketNow) /\ Heard(b)
        BY <1>3, <4>1, <4>2
      <4> HIDE DEF b
      <4>4. b.synthetic => b.open * StepTime - 1 \notin silent'
        BY <2>2, <4>3 DEF Heard
      <4> QED
        BY <1>1, <4>4 DEF Heard, b
    <3> QED
      BY <1>1, <3>1 DEF AllHeard
  <2>5. SyntheticIsHeard(Candles)'
    BY <1>5, <2>3, <2>4, CandlesFieldsNext DEF SyntheticIsHeard
  <2>6. UnbrokenIsHeard(Candles)'
    <3>1. SUFFICES ASSUME ~broken, LatestOpen(Candles) # Never
                   PROVE  \A t \in silent' : t + 1 < (LatestOpen(Candles) + 1) * StepTime
      BY <1>5, CandlesFields DEF UnbrokenIsHeard
    <3>2. feedLive
      BY <3>1 DEF CandleOK, CandlesAreFed
    <3>3. ~outage
      BY <3>2 DEF StreamOK
    <3>4. silent' = silent
      BY <1>1, <3>3
    <3> QED
      BY <2>1, <3>1, <3>4, CandlesFields DEF UnbrokenIsHeard
  <2> QED
    BY <1>5, <2>1, <2>5, <2>6
<1>11. CandlesAreFed'
  BY <1>1, <1>5 DEF CandleOK, CandlesAreFed
<1> QED
  BY <1>1, <1>5, <1>8, <1>9, <1>10, <1>11 DEF CandleOK, CandlesAreSound

LEMMA CandleStep ==
  ASSUME CandleOK, StreamOK, MarketNext
  PROVE  CandleOK'
<1>1. feedLive \in BOOLEAN /\ ClockOK /\ late \in BOOLEAN
  BY MarketTimes DEF StreamOK, ClockOK
<1>2. ASSUME UNCHANGED <<marketNow, candleVars, silent, late>> PROVE CandleOK'
  BY <1>2, SameCandles DEF candleVars
<1>3. CASE RetainPriority
  BY <1>2, <1>3 DEF RetainPriority, historyVars
<1>4. CASE ReleasePriority
  BY <1>2, <1>4 DEF ReleasePriority, historyVars
<1>5. CASE RecoveryAnswers
  BY <1>2, <1>5 DEF RecoveryAnswers, historyVars
<1>6. CASE RecoveryFails
  <2>1. UNCHANGED <<marketNow, silent, late>> /\ (StopFeed \/ UNCHANGED candleVars)
    BY <1>6 DEF RecoveryFails, historyVars
  <2> QED
    BY <1>1, <1>2, <2>1, StoppedCandles
<1>7. CASE StreamPrice
  <2>1. UNCHANGED <<marketNow, silent>>
    BY <1>7 DEF StreamPrice
  <2>2. CASE UNCHANGED <<quote, symbolState, candleVars, late, lastTime>>
    BY <1>2, <2>1, <2>2
  <2> QED
    BY <1>7, <2>1, <2>2, PublishedCandles, StreamPriceSteps
<1>8. CASE Disconnect
  <2>1. UNCHANGED <<marketNow, silent, late>> /\ StopFeed
    BY <1>8 DEF Disconnect, historyVars
  <2> QED
    BY <1>1, <2>1, StoppedCandles
<1>9. CASE Connect
  BY <1>2, <1>9 DEF Connect, historyVars
<1>10. CASE SubscriptionFails
  BY <1>2, <1>10 DEF SubscriptionFails, historyVars
<1>11. CASE CheckQuoteFreshness
  <2>1. UNCHANGED <<marketNow, silent, late>> /\ (StopFeed \/ UNCHANGED candleVars)
    BY <1>11 DEF CheckQuoteFreshness, historyVars
  <2> QED
    BY <1>1, <1>2, <2>1, StoppedCandles
<1>12. CASE FlushExpired
  <2>1. SetCandles(Flushed) /\ UNCHANGED <<marketNow, feedLive, silent, late>>
    BY <1>12 DEF FlushExpired, historyVars
  <2> DEFINE quiet == ~late
  <2>2. quiet \in BOOLEAN /\ Candles \in CandleState /\ CandlesAreSound(Candles, quiet)
    BY DEF CandleOK
  <2> HIDE DEF quiet
  <2>3. /\ Flushed \in CandleState /\ Flushed.broken = broken /\ CandlesAreSound(Flushed, quiet)
        /\ LatestOpen(Flushed) # Never => LatestOpen(Candles) # Never
    BY <1>1, <2>2, FlushedIsSound
  <2> DEFINE x == Flushed
  <2>4. CandlesAreSound(x, ~late')
    BY <2>1, <2>3 DEF quiet
  <2>5. x \in CandleState /\ SetCandles(x) /\ broken' = broken
    BY <2>1, <2>3 DEF SetCandles
  <2>6. LatestOpen(x) # Never => feedLive \/ broken
    BY <2>3 DEF CandleOK, CandlesAreFed
  <2> HIDE DEF x
  <2>7. Candles' = x /\ Candles' \in CandleState /\ CandlesAreSound(Candles, ~late)'
    BY <2>1, <2>4, <2>5, NewCandles
  <2>8. CandlesAreFed'
    BY <2>1, <2>5, <2>6, <2>7 DEF CandlesAreFed
  <2> QED
    BY <2>7, <2>8 DEF CandleOK
<1>13. CASE Pass
  BY <1>13, PassedCandles
<1> QED
  BY <1>3, <1>4, <1>5, <1>6, <1>7, <1>8, <1>9, <1>10, <1>11, <1>12, <1>13 DEF MarketNext

-----------------------------------------------------------------------------
(***************************************************************************)
(* MarketFeed: the invariant.                                              *)
(***************************************************************************)
MarketCore == QuoteOK /\ StreamOK /\ CandleOK

(* A synthetic candle is not within an outage: the moment before it was    *)
(* not silent.                                                             *)
LEMMA CoreIsHonest == MarketCore => MarketInv
<1> SUFFICES ASSUME MarketCore PROVE MarketInv
  OBVIOUS
<1>1. QuoteOK /\ StreamOK /\ CandleOK
  BY DEF MarketCore
<1>2. bar \in Bar \cup {NoBar} /\ closed \in Seq(Bar) /\ broken \in BOOLEAN
  BY <1>1, CandleFields, CandlesFields DEF CandleOK
<1>3. MarketTypeOK
  <2>1. quote \in [at : MarketTime \cup {Never}, stale : BOOLEAN] /\ symbolState \in SymbolState
    BY <1>1 DEF QuoteOK, Honest, QuoteType
  <2> QED
    BY <1>1, <1>2, <2>1 DEF MarketTypeOK, QuoteOK, StreamOK
<1>4. StateTellsStaleness /\ OnlyTheStreamIsLive /\ StreamAndQuote
  BY <1>1 DEF QuoteOK, Honest, StreamOK, StateTellsStaleness, OnlyTheStreamIsLive, StreamAndQuote
<1>5. CandlesAreSound(Candles, ~late) /\ CandlesAreFed
  BY <1>1 DEF CandleOK
<1>6. GapsAreShort
  BY <1>5, CandlesFields DEF CandlesAreSound, CarriedForward, GapsAreShort
<1>7. ASSUME ~late PROVE Ascending(closed) /\ OutageHasNoBars
  <2>1. Ascending(closed) /\ AllHeard(closed)
    BY <1>5, <1>7, CandlesFields DEF CandlesAreSound, CandlesAscend, SyntheticIsHeard
  <2>2. ASSUME NEW i \in 1 .. Len(closed), closed[i].synthetic, Outage(closed[i].open) PROVE FALSE
    <3>1. closed[i].open \in Nat /\ Heard(closed[i])
      BY <1>2, <2>1, <2>2, ElementOfSeq, BarFields DEF AllHeard
    <3> DEFINE o == closed[i].open
    <3>2. o * StepTime \in Int /\ (o + 1) * StepTime \in Int /\ o * StepTime <= (o + 1) * StepTime
      <4>1. o \in Int /\ o + 1 \in Int /\ o <= o + 1
        BY <3>1
      <4> HIDE DEF o
      <4> QED
        BY <4>1, Products
    <3>3. o * StepTime - 1 \in silent
      BY <2>2, <3>2 DEF Outage
    <3> QED
      BY <2>2, <3>1, <3>3 DEF Heard
  <2> QED
    BY <2>1, <2>2 DEF OutageHasNoBars
<1> QED
  BY <1>3, <1>4, <1>5, <1>6, <1>7 DEF MarketInv, FeedIsHonest, CandlesAdvance, QuietOutageHasNoBars

LEMMA MarketInitIsSound == MarketInit => MarketCore
<1> SUFFICES ASSUME MarketInit PROVE MarketCore
  OBVIOUS
<1>1. 0 \in MarketTime /\ Never = -1 /\ MaxGapBars \in Nat /\ MaxPriority \in Nat /\ MaxTicks \in Nat
  BY MarketAssumption DEF MarketTime, Never
<1>2. QuoteOK
  <2>1. quote = NoQuote /\ symbolState = "WAITING" /\ fetching = FALSE /\ lastAttempt = Never /\ marketNow = 0
    BY DEF MarketInit
  <2>2. NoQuote \in QuoteType /\ NoQuote.at = Never /\ NoQuote.stale = TRUE
    BY DEF NoQuote, QuoteType
  <2>3. Honest(quote, symbolState)
    BY <2>1, <2>2 DEF Honest, SymbolState, TooOld
  <2> QED
    BY <1>1, <2>1, <2>3 DEF QuoteOK
<1>3. StreamOK
  <2>1. NoTick.time = Never /\ NoTick.time <= 0
    BY <1>1 DEF NoTick
  <2>2. /\ marketNow = 0 /\ stream = "connecting" /\ outage = FALSE /\ priority = 0 /\ lastTime = Never
        /\ quarantine = NoTick /\ feedLive = FALSE /\ silent = {} /\ late = FALSE /\ ticks = 0
    BY DEF MarketInit
  <2>3. 0 \in 0 .. MaxPriority /\ 0 \in 0 .. MaxTicks
    BY <1>1
  <2> QED
    BY <1>1, <2>1, <2>2, <2>3 DEF StreamOK
<1>4. CandleOK
  <2>1. bar = NoBar /\ closed = <<>> /\ broken = FALSE /\ silent = {} /\ marketNow = 0
    BY DEF MarketInit
  <2>2. <<>> \in Seq(Bar) /\ Len(<<>>) = 0
    BY EmptySeq
  <2>3. Candles \in CandleState /\ Candles.bar = NoBar /\ Candles.closed = <<>> /\ Candles.broken = FALSE
    BY <2>1, <2>2 DEF Candles, CandleState
  <2>4. NoBar.open = -1 /\ NoBar.synthetic = FALSE /\ Bucket(0) \in Nat
    BY BucketBounds DEF NoBar, Never
  <2>5. LatestOpen(Candles) = Never
    BY <2>3 DEF LatestOpen, LastOpen
  <2>6. CandlesArePast(Candles)
    BY <2>1, <2>2, <2>3, <2>4 DEF CandlesArePast, Below
  <2>7. CarriedForward(Candles)
    BY <1>1, <2>2, <2>3, <2>4, TrailingOfNone DEF CarriedForward, Short
  <2>8. CandlesAscend(Candles) /\ SyntheticIsHeard(Candles) /\ UnbrokenIsHeard(Candles)
    BY <2>2, <2>3, <2>4, <2>5 DEF CandlesAscend, Ascending, SyntheticIsHeard, AllHeard, Heard, UnbrokenIsHeard
  <2> QED
    BY <2>3, <2>5, <2>6, <2>7, <2>8 DEF CandleOK, CandlesAreSound, CandlesAreFed
<1> QED
  BY <1>2, <1>3, <1>4 DEF MarketCore

LEMMA MarketCoreStep == MarketCore /\ [MarketNext]_marketVars => MarketCore'
<1> SUFFICES ASSUME MarketCore, [MarketNext]_marketVars PROVE MarketCore'
  OBVIOUS
<1>1. QuoteOK /\ StreamOK /\ CandleOK
  BY DEF MarketCore
<1>2. CASE MarketNext
  <2>1. quarantine \in [at : MarketTime, time : MarketTime] \cup {NoTick}
    BY <1>1 DEF StreamOK
  <2> QED
    BY <1>1, <1>2, <2>1, QuoteStep, StreamStep, CandleStep DEF MarketCore
<1>3. CASE UNCHANGED marketVars
  <2>1. /\ UNCHANGED <<marketNow, stream, outage, priority, quote, symbolState, fetching, lastAttempt, lastTime>>
        /\ UNCHANGED <<quarantine, feedLive, broken, bar, closed, silent, late, ticks>>
    BY <1>3 DEF marketVars, quoteVars, filterVars, candleVars, historyVars
  <2>2. QuoteOK'
    BY <1>1, <2>1 DEF QuoteOK, Honest, TooOld
  <2>3. StreamOK'
    BY <1>1, <2>1 DEF StreamOK
  <2>4. CandleOK'
    BY <1>1, <2>1, SameCandles
  <2> QED
    BY <2>2, <2>3, <2>4 DEF MarketCore
<1> QED
  BY <1>2, <1>3

(* The inductive invariant of a symbol's market data (market-gateway.js,   *)
(* candle-engine.js, tick-sanity-filter.js).                               *)
THEOREM MarketInvariant == MarketSpec => []MarketInv
<1>1. MarketInit => MarketCore
  BY MarketInitIsSound
<1>2. MarketCore /\ [MarketNext]_marketVars => MarketCore'
  BY MarketCoreStep
<1>3. MarketCore => MarketInv
  BY CoreIsHonest
<1> QED
  BY <1>1, <1>2, <1>3, PTL DEF MarketSpec

(* Quote, health and candles agree on what the stream has said: clients    *)
(* are told of a stale quote, candles are closed once and in order, and    *)
(* none is carried forward through an outage or without end.               *)
THEOREM FeedIsHonestTheorem == MarketSpec => []FeedIsHonest
<1>1. MarketInv => FeedIsHonest
  BY DEF MarketInv
<1> QED
  BY <1>1, MarketInvariant, PTL

-----------------------------------------------------------------------------
Present(s) == session[s].state # "absent"

(***************************************************************************)
(* The documents.  A session is named by its first token, its refresh      *)
(* token is issued with its access token, and no other session has it.     *)
(***************************************************************************)
ValueTypes ==
  /\ clock \in 0 .. MaxSessionTime
  /\ session \in [Token -> SessionRecord]
  /\ ticket \in [Ticket -> 0 .. MaxSessionTime \cup {Open}]
  /\ call \in [Caller -> CallRecord \cup {NoCall}]
  /\ password \in Nat /\ issued \in 1 .. MaxTokens /\ given \subseteq Token
  /\ sessionFaults \in 0 .. MaxSessionFaults

TokenHistoryOK ==
  /\ expiry \in [Token -> Time]
  /\ refreshedAt \in [Token -> 0 .. NotYet]
  /\ successors \in [Token -> SUBSET Token]

DocumentsOK ==
  \A s \in Token :
    /\ ~Present(s) => session[s] = NoSession
    /\ Present(s) =>
         /\ s <= issued
         /\ session[s].token \in Token /\ session[s].token <= issued
         /\ session[s].refresh \in {NoToken, session[s].token}
         /\ session[s].refresh = NoToken => session[s].exp <= SessionTtl
         /\ session[s].accessExp <= session[s].exp
         /\ session[s].idleExp <= session[s].exp
         /\ session[s].accessExp = expiry[session[s].token]

\* What a session keeps of the token before.
PreviousOK ==
  \A s \in Token : session[s].prev # NoToken =>
    /\ successors[session[s].prev] # {}
    /\ session[s].prevExp <= expiry[session[s].prev]
    /\ session[s].prevExp <= refreshedAt[session[s].prev] + Grace

TokensApart ==
  \A s, u \in Token : Present(s) /\ Present(u) /\ session[s].token = session[u].token => s = u

ExchangedIsGone ==
  \A t \in Token : successors[t] # {} =>
    /\ t <= issued
    /\ \A s \in Token : Present(s) => session[s].token # t
    /\ \E n \in Token : successors[t] = {n}

DocumentInv ==
  /\ ValueTypes /\ TokenHistoryOK
  /\ DocumentsOK /\ PreviousOK /\ TokensApart /\ ExchangedIsGone

(***************************************************************************)
(* The calls.  A ticket that is in the hands of a call was consumed, is in *)
(* the hands of no other call, and has given no tokens.                    *)
(***************************************************************************)
InHand(r, k) == call[r] # NoCall /\ call[r].step \in {"create", "respond", "undo"} /\ call[r].source = k

TicketsInHand ==
  \A k \in Ticket :
    /\ \A r \in Caller : InHand(r, k) =>
         /\ ticket[k] # Open
         /\ \A q \in Caller : InHand(q, k) => q = r
         /\ \A s \in given : session[s].source # k
    /\ \A s \in given : session[s].source = k =>
         ticket[k] # Open /\ \A u \in given : session[u].source = k => u = s

CallOK(r) ==
  call[r] # NoCall =>
    /\ call[r].step = "create" => call[r].password <= password
    /\ call[r].step = "undo" => call[r].source \in Ticket
    /\ call[r].step = "respond" =>
         call[r].session \in Token /\ Present(call[r].session)
           /\ session[call[r].session].source = call[r].source
    /\ call[r].step \in {"touch", "refresh", "upgrade"} =>
         call[r].session \in Token /\ Present(call[r].session) /\ call[r].token \in Token
    /\ call[r].step = "touch" => call[r].exp <= session[call[r].session].exp

CallsOK == \A r \in Caller : CallOK(r)

GivenExist == \A s \in given : Present(s)

Rotating == \E r \in Caller : AtStep(r, "revokeAll")

RotationOK == \A s \in OfCredential : session[s].password = password \/ session[s].late \/ Rotating

CallInv == TicketsInHand /\ CallsOK /\ GivenExist /\ RotationOK

SessionInv == DocumentInv /\ CallInv

-----------------------------------------------------------------------------
LEMMA EarlierProperties ==
  ASSUME NEW x \in Nat, NEW y \in Nat
  PROVE  Earlier(x, y) \in Nat /\ Earlier(x, y) \in {x, y} /\ Earlier(x, y) <= x /\ Earlier(x, y) <= y
<1>1. \E m \in {x, y} : \A z \in {x, y} : m <= z
  OBVIOUS
<1>2. PICK m \in {x, y} : Earlier(x, y) = m /\ \A z \in {x, y} : m <= z
  BY <1>1 DEF Earlier, Min
<1> QED
  BY <1>2

LEMMA Times ==
  /\ MaxSessionTime \in Nat /\ SessionTtl \in Nat /\ NotYet \in Nat /\ Time \subseteq Nat /\ 0 \in Time
  /\ \A x \in Nat, y \in Time : x <= y => x \in Time
  /\ Time = 0 .. MaxSessionTime + SessionTtl /\ Open \notin 0 .. MaxSessionTime
  /\ SessionTtl \in Time
BY SessionConstants DEF Time, NotYet, Open

LEMMA NoSessionTyped == NoSession \in SessionRecord /\ NoSession.state = "absent"
                        /\ NoSession.prev = NoToken /\ NoSession.source = "none"
<1>1. 0 \in 0 .. MaxTokens /\ 0 \in Nat /\ FALSE \in BOOLEAN
  BY SessionConstants
<1> QED
  BY <1>1, Times DEF NoSession, SessionRecord, NoToken, Source

LEMMA InitSessionInv == SessionInit => SessionInv
<1> SUFFICES ASSUME SessionInit PROVE SessionInv
  OBVIOUS
<1> DEFINE end == Earlier(SessionTtl, AccessTtl)
           first == [NoSession EXCEPT !.state = "active", !.source = "legacy", !.token = 1,
                                      !.accessExp = end, !.idleExp = end, !.exp = end]
<1>1. end \in Time /\ end \in Nat /\ end <= SessionTtl
  BY EarlierProperties, SessionConstants, Times
<1> HIDE DEF end
<1>2. 1 \in Token /\ 1 \in 0 .. MaxTokens
  BY SessionConstants DEF Token
<1>3. /\ first \in SessionRecord /\ first.state = "active" /\ first.source = "legacy" /\ first.token = 1
      /\ first.refresh = NoToken /\ first.prev = NoToken
      /\ first.accessExp = end /\ first.idleExp = end /\ first.exp = end
  <2>1. "active" \in {"absent", "active", "revoked"} /\ "legacy" \in Source
    BY DEF Source
  <2>2. /\ first.state = "active" /\ first.source = "legacy" /\ first.token = 1
        /\ first.refresh = NoToken /\ first.prev = NoToken
        /\ first.accessExp = end /\ first.idleExp = end /\ first.exp = end
    BY DEF NoSession
  <2> QED
    BY <1>1, <1>2, <2>1, <2>2, NoSessionTyped DEF SessionRecord
<1> HIDE DEF first
<1>4. /\ session[1] = first /\ \A s \in Token : s # 1 => session[s] = NoSession
      /\ session \in [Token -> SessionRecord]
  BY <1>2, <1>3, NoSessionTyped DEF SessionInit, first, end
<1>5. expiry[1] = end /\ expiry \in [Token -> Time]
  BY <1>1, <1>2, Times DEF SessionInit, end
<1>6. TokenHistoryOK
  BY <1>5, Times DEF SessionInit, TokenHistoryOK
<1>7. ValueTypes
  <2>1. clock \in 0 .. MaxSessionTime /\ password \in Nat /\ sessionFaults \in 0 .. MaxSessionFaults
    BY SessionConstants DEF SessionInit
  <2>2. issued \in 1 .. MaxTokens /\ given \subseteq Token
    BY <1>2, SessionConstants DEF SessionInit
  <2>3. ticket \in [Ticket -> 0 .. MaxSessionTime \cup {Open}] /\ call \in [Caller -> CallRecord \cup {NoCall}]
    BY DEF SessionInit
  <2> QED
    BY <1>4, <2>1, <2>2, <2>3 DEF ValueTypes
<1>8. DocumentsOK
  <2>1. issued = 1
    BY DEF SessionInit
  <2>2. /\ session[1].token = 1 /\ session[1].refresh = NoToken /\ session[1].exp <= SessionTtl
        /\ session[1].accessExp <= session[1].exp /\ session[1].idleExp <= session[1].exp
        /\ session[1].accessExp = expiry[session[1].token]
    BY <1>1, <1>3, <1>4, <1>5
  <2>3. \A s \in Token : s # 1 => session[s] = NoSession /\ ~Present(s)
    BY <1>4, NoSessionTyped DEF Present
  <2>4. Present(1)
    BY <1>3, <1>4 DEF Present
  <2> SUFFICES ASSUME NEW s \in Token
               PROVE  /\ ~Present(s) => session[s] = NoSession
                      /\ Present(s) =>
                           /\ s <= issued
                           /\ session[s].token \in Token /\ session[s].token <= issued
                           /\ session[s].refresh \in {NoToken, session[s].token}
                           /\ session[s].refresh = NoToken => session[s].exp <= SessionTtl
                           /\ session[s].accessExp <= session[s].exp
                           /\ session[s].idleExp <= session[s].exp
                           /\ session[s].accessExp = expiry[session[s].token]
    BY DEF DocumentsOK
  <2>5. CASE s = 1
    BY <1>2, <2>1, <2>2, <2>4, <2>5
  <2>6. CASE s # 1
    BY <2>3, <2>6
  <2> QED
    BY <2>5, <2>6
<1>9. PreviousOK /\ TokensApart
  BY <1>3, <1>4, NoSessionTyped DEF PreviousOK, TokensApart, Present
<1>10. ExchangedIsGone
  BY DEF ExchangedIsGone, SessionInit
<1>11. CallsOK /\ GivenExist
  BY <1>2, <1>3, <1>4 DEF CallsOK, CallOK, GivenExist, Present, SessionInit
<1>12. RotationOK
  BY <1>3, <1>4, NoSessionTyped DEF RotationOK, OfCredential
<1>13. TicketsInHand
  <2>1. \A r \in Caller : call[r] = NoCall
    BY DEF SessionInit
  <2>2. \A s \in given : session[s].source \notin Ticket
    BY <1>3, <1>4, SessionConstants DEF SessionInit
  <2> QED
    BY <2>1, <2>2 DEF TicketsInHand, InHand
<1> QED
  BY <1>6, <1>7, <1>8, <1>9, <1>10, <1>11, <1>12, <1>13 DEF SessionInv, DocumentInv, CallInv

-----------------------------------------------------------------------------
(* Documents that keep their tokens. *)
KeepsTokens(s) ==
  /\ session'[s].token = session[s].token /\ session'[s].refresh = session[s].refresh
  /\ session'[s].prev = session[s].prev /\ session'[s].prevExp = session[s].prevExp
  /\ session'[s].accessExp = session[s].accessExp /\ session'[s].exp = session[s].exp
  /\ session'[s].source = session[s].source
  /\ session[s].state = "absent" <=> session'[s].state = "absent"
  /\ session[s].state = "absent" => session'[s] = session[s]
  /\ session[s].state # "absent" => session'[s].idleExp <= session'[s].exp

LEMMA KeptDocuments ==
  ASSUME DocumentInv, \A s \in Token : KeepsTokens(s),
         UNCHANGED <<issued, expiry, refreshedAt, successors>>, ValueTypes'
  PROVE  DocumentInv'
<1>1. DocumentsOK'
  <2> SUFFICES ASSUME NEW s \in Token
               PROVE  /\ ~Present(s)' => session'[s] = NoSession
                      /\ Present(s)' =>
                           /\ s <= issued
                           /\ session'[s].token \in Token /\ session'[s].token <= issued
                           /\ session'[s].refresh \in {NoToken, session'[s].token}
                           /\ session'[s].refresh = NoToken => session'[s].exp <= SessionTtl
                           /\ session'[s].accessExp <= session'[s].exp
                           /\ session'[s].idleExp <= session'[s].exp
                           /\ session'[s].accessExp = expiry[session'[s].token]
    BY DEF DocumentsOK
  <2>1. KeepsTokens(s)
    OBVIOUS
  <2> QED
    BY <2>1 DEF DocumentInv, DocumentsOK, KeepsTokens, Present
<1>2. PreviousOK'
  BY DEF DocumentInv, PreviousOK, KeepsTokens
<1>3. \A s \in Token : Present(s)' <=> Present(s)
  BY DEF KeepsTokens, Present
<1>4. TokensApart'
  BY <1>3 DEF DocumentInv, TokensApart, KeepsTokens
<1>5. ExchangedIsGone'
  BY <1>3 DEF DocumentInv, ExchangedIsGone, KeepsTokens
<1>6. TokenHistoryOK'
  BY DEF DocumentInv, TokenHistoryOK
<1> QED
  BY <1>1, <1>2, <1>4, <1>5, <1>6 DEF DocumentInv

(* A document that is given new tokens: it is a new one, or its tokens are exchanged. *)
IsNew(s, d) == ~Present(s) /\ s = issued + 1 /\ d.prev = NoToken /\ UNCHANGED <<refreshedAt, successors>>

IsExchanged(s, d, at) ==
  /\ Present(s)
  /\ refreshedAt' = [refreshedAt EXCEPT ![session[s].token] = at]
  /\ successors' = [successors EXCEPT ![session[s].token] = @ \cup {issued + 1}]
  /\ d.prev # NoToken => d.prev = session[s].token /\ d.prevExp <= session[s].accessExp /\ d.prevExp <= at + Grace

LEMMA PreviousIsToken ==
  ASSUME ValueTypes, NEW u \in Token, session[u].prev # NoToken
  PROVE  session[u].prev \in Token
<1>1. session[u] \in SessionRecord
  BY DEF ValueTypes
<1>2. session[u].prev \in 0 .. MaxTokens
  BY <1>1 DEF SessionRecord
<1> QED
  BY <1>2, SessionConstants DEF Token, NoToken

LEMMA IssuedDocument ==
  ASSUME DocumentInv, NEW s \in Token, NEW at \in 0 .. MaxSessionTime, NEW exp \in Time, NEW d \in SessionRecord,
         IssueTokens(exp, at), session' = [session EXCEPT ![s] = d],
         d.state = "active", d.token = issued + 1, d.refresh = issued + 1, d.exp = exp,
         d.accessExp = Earlier(exp, at + AccessTtl), d.idleExp = Earlier(exp, at + IdleTtl),
         IsNew(s, d) \/ IsExchanged(s, d, at), ValueTypes'
  PROVE  DocumentInv'
<1> DEFINE n == issued + 1
           a == Earlier(exp, at + AccessTtl)
<1>1. /\ issued \in 1 .. MaxTokens /\ n \in Token /\ n # NoToken /\ issued' = n
      /\ n > issued /\ issued \in Nat /\ n \in Nat
  BY SessionConstants DEF IssueTokens, DocumentInv, ValueTypes, Token, NoToken
<1>2. a \in Time /\ a <= exp /\ d.idleExp <= exp
  <2>1. at + AccessTtl \in Nat /\ at + IdleTtl \in Nat /\ exp \in Nat
    BY Times, SessionConstants
  <2> QED
    BY <2>1, EarlierProperties, Times
<1> HIDE DEF a
<1>3. expiry' = [expiry EXCEPT ![n] = a] /\ d.accessExp = a /\ d.token = n /\ d.refresh = n
  BY DEF IssueTokens, a
<1> HIDE DEF n
<1>4. /\ session'[s] = d /\ \A u \in Token : u # s => session'[u] = session[u]
      /\ Present(s)' /\ \A u \in Token : u # s => (Present(u)' <=> Present(u))
  BY DEF DocumentInv, ValueTypes, Present
<1>5. /\ expiry' \in [Token -> Time] /\ expiry'[n] = a
      /\ \A t \in Token : t # n => expiry'[t] = expiry[t]
  BY <1>1, <1>2, <1>3 DEF DocumentInv, TokenHistoryOK
<1>6. \A u \in Token : Present(u) => session[u].token \in Token /\ session[u].token <= issued /\ u <= issued
  BY DEF DocumentInv, DocumentsOK
<1>7. s <= n
  BY <1>1, <1>6 DEF IsNew, IsExchanged, n, Token
<1>8. \A u \in Token : Present(u) => session[u].token # n
  BY <1>1, <1>6 DEF Token
<1>9. TokenHistoryOK'
  <2>1. at \in 0 .. NotYet
    BY SessionConstants DEF NotYet
  <2>2. CASE IsNew(s, d)
    BY <1>5, <2>2 DEF IsNew, DocumentInv, TokenHistoryOK
  <2>3. CASE IsExchanged(s, d, at)
    <3>1. refreshedAt' \in [Token -> 0 .. NotYet]
      BY <2>1, <2>3 DEF IsExchanged, DocumentInv, TokenHistoryOK
    <3>2. successors' \in [Token -> SUBSET Token]
      BY <1>1, <2>3 DEF IsExchanged, DocumentInv, TokenHistoryOK, n
    <3> QED
      BY <1>5, <3>1, <3>2 DEF TokenHistoryOK
  <2> QED
    BY <2>2, <2>3
<1>10. DocumentsOK'
  <2> SUFFICES ASSUME NEW u \in Token
               PROVE  /\ ~Present(u)' => session'[u] = NoSession
                      /\ Present(u)' =>
                           /\ u <= issued'
                           /\ session'[u].token \in Token /\ session'[u].token <= issued'
                           /\ session'[u].refresh \in {NoToken, session'[u].token}
                           /\ session'[u].refresh = NoToken => session'[u].exp <= SessionTtl
                           /\ session'[u].accessExp <= session'[u].exp
                           /\ session'[u].idleExp <= session'[u].exp
                           /\ session'[u].accessExp = expiry'[session'[u].token]
    BY DEF DocumentsOK
  <2>1. CASE u = s
    BY <1>1, <1>2, <1>3, <1>4, <1>5, <1>7, <2>1
  <2>2. CASE u # s
    <3>1. Present(u)' <=> Present(u)
      BY <1>4, <2>2
    <3>2. session'[u] = session[u]
      BY <1>4, <2>2
    <3>3. CASE Present(u)
      <4>1. /\ u <= issued /\ session[u].token \in Token /\ session[u].token <= issued
            /\ session[u].refresh \in {NoToken, session[u].token}
            /\ session[u].refresh = NoToken => session[u].exp <= SessionTtl
            /\ session[u].accessExp <= session[u].exp
            /\ session[u].idleExp <= session[u].exp
            /\ session[u].accessExp = expiry[session[u].token]
        BY <3>3 DEF DocumentInv, DocumentsOK
      <4>2. expiry'[session[u].token] = expiry[session[u].token]
        BY <1>5, <1>8, <3>3, <4>1
      <4>3. u \in Nat /\ session[u].token \in Nat
        BY <4>1 DEF Token
      <4>4. u <= issued' /\ session[u].token <= issued'
        BY <1>1, <4>1, <4>3
      <4> QED
        BY <3>1, <3>2, <3>3, <4>1, <4>2, <4>4
    <3>4. CASE ~Present(u)
      BY <3>1, <3>2, <3>4 DEF DocumentInv, DocumentsOK
    <3> QED
      BY <3>3, <3>4
  <2> QED
    BY <2>1, <2>2
<1>11. TokensApart'
  BY <1>3, <1>4, <1>8 DEF DocumentInv, TokensApart
<1>12. \A t \in Token : successors[t] # {} =>
         /\ t <= issued /\ t # n /\ expiry'[t] = expiry[t]
         /\ (\A u \in Token : Present(u) => session[u].token # t) /\ \E m \in Token : successors[t] = {m}
  BY <1>1, <1>5 DEF DocumentInv, ExchangedIsGone, Token
<1>13. ExchangedIsGone' /\ PreviousOK'
  <2>1. CASE IsNew(s, d)
    <3>1. ExchangedIsGone'
      BY <1>1, <1>3, <1>4, <1>12, <2>1 DEF IsNew, ExchangedIsGone, Token
    <3>2. PreviousOK'
      <4> SUFFICES ASSUME NEW u \in Token, session'[u].prev # NoToken
                   PROVE  /\ successors'[session'[u].prev] # {}
                          /\ session'[u].prevExp <= expiry'[session'[u].prev]
                          /\ session'[u].prevExp <= refreshedAt'[session'[u].prev] + Grace
        BY DEF PreviousOK
      <4>1. u # s /\ session'[u] = session[u] /\ session[u].prev \in Token
        <5>1. u # s /\ session'[u] = session[u]
          BY <1>4, <2>1 DEF IsNew
        <5> QED
          BY <5>1, PreviousIsToken DEF DocumentInv
      <4>2. /\ successors[session[u].prev] # {}
            /\ session[u].prevExp <= expiry[session[u].prev]
            /\ session[u].prevExp <= refreshedAt[session[u].prev] + Grace
        BY <4>1 DEF DocumentInv, PreviousOK
      <4> QED
        BY <1>12, <2>1, <4>1, <4>2 DEF IsNew
    <3> QED
      BY <3>1, <3>2
  <2>2. CASE IsExchanged(s, d, at)
    <3> DEFINE t0 == session[s].token
    <3>1. t0 \in Token /\ t0 <= issued /\ t0 # n /\ successors[t0] = {}
      BY <1>1, <1>6, <1>8, <1>12, <2>2 DEF IsExchanged
    <3>2. /\ refreshedAt'[t0] = at /\ successors'[t0] = {n}
          /\ \A t \in Token : t # t0 => refreshedAt'[t] = refreshedAt[t] /\ successors'[t] = successors[t]
      BY <2>2, <3>1 DEF IsExchanged, DocumentInv, TokenHistoryOK, n
    <3>3. session[s].accessExp = expiry[t0] /\ expiry'[t0] = expiry[t0]
      BY <1>5, <2>2, <3>1 DEF IsExchanged, DocumentInv, DocumentsOK
    <3>4. \A u \in Token : Present(u) /\ u # s => session[u].token # t0
      BY <2>2 DEF IsExchanged, DocumentInv, TokensApart
    <3>5. d.prev # NoToken => d.prev = t0 /\ d.prevExp <= session[s].accessExp /\ d.prevExp <= at + Grace
      BY <2>2 DEF IsExchanged
    <3> HIDE DEF t0
    <3>6. ExchangedIsGone'
      <4> SUFFICES ASSUME NEW t \in Token, successors'[t] # {}
                   PROVE  /\ t <= issued'
                          /\ \A u \in Token : Present(u)' => session'[u].token # t
                          /\ \E m \in Token : successors'[t] = {m}
        BY DEF ExchangedIsGone
      <4>1. t # n /\ t <= issued
        BY <1>12, <3>1, <3>2
      <4>2. t <= issued'
        BY <1>1, <4>1 DEF Token
      <4>3. \E m \in Token : successors'[t] = {m}
        BY <1>1, <1>12, <3>2
      <4>4. \A u \in Token : Present(u)' => session'[u].token # t
        BY <1>3, <1>4, <1>12, <3>2, <3>4, <4>1
      <4> QED
        BY <4>2, <4>3, <4>4
    <3>7. PreviousOK'
      <4> SUFFICES ASSUME NEW u \in Token, session'[u].prev # NoToken
                   PROVE  /\ successors'[session'[u].prev] # {}
                          /\ session'[u].prevExp <= expiry'[session'[u].prev]
                          /\ session'[u].prevExp <= refreshedAt'[session'[u].prev] + Grace
        BY DEF PreviousOK
      <4>1. CASE u = s
        BY <1>4, <3>1, <3>2, <3>3, <3>5, <4>1
      <4>2. CASE u # s
        <5>1. session'[u] = session[u] /\ session[u].prev \in Token
          <6>1. session'[u] = session[u]
            BY <1>4, <4>2
          <6> QED
            BY <6>1, PreviousIsToken DEF DocumentInv
        <5>2. /\ successors[session[u].prev] # {}
              /\ session[u].prevExp <= expiry[session[u].prev]
              /\ session[u].prevExp <= refreshedAt[session[u].prev] + Grace
          BY <5>1 DEF DocumentInv, PreviousOK
        <5>3. session[u].prev # t0
          BY <3>1, <5>2
        <5> QED
          BY <1>12, <3>2, <5>1, <5>2, <5>3
      <4> QED
        BY <4>1, <4>2
    <3> QED
      BY <3>6, <3>7
  <2> QED
    BY <2>1, <2>2
<1> QED
  BY <1>9, <1>10, <1>11, <1>13 DEF DocumentInv

-----------------------------------------------------------------------------
(* A step that hands no ticket out, gives no tokens and changes no password. *)
Outlives(s) ==
  /\ Present(s) => Present(s)' /\ session'[s].source = session[s].source /\ session[s].exp <= session'[s].exp
  /\ (session'[s].state = "active" /\ session'[s].source = "password") =>
       \/ /\ session[s].state = "active" /\ session[s].source = "password"
          /\ session'[s].password = session[s].password /\ session'[s].late = session[s].late
       \/ session'[s].password = password \/ session'[s].late

LEMMA CallStep ==
  ASSUME SessionInv, ValueTypes', \A s \in Token : Outlives(s),
         \A q \in Caller : call'[q] = call[q] \/ CallOK(q)',
         \A q \in Caller, k \in Ticket : InHand(q, k)' => InHand(q, k),
         UNCHANGED <<given, ticket, password>>,
         Rotating => Rotating' \/ OfCredential' = {}
  PROVE  CallInv'
<1>1. GivenExist'
  BY DEF SessionInv, CallInv, GivenExist, Outlives, DocumentInv, ValueTypes
<1>2. CallsOK'
  <2> SUFFICES ASSUME NEW q \in Caller, call'[q] = call[q], call[q] # NoCall PROVE CallOK(q)'
    BY DEF CallsOK, CallOK
  <2>1. CallOK(q)
    BY DEF SessionInv, CallInv, CallsOK
  <2>2. CASE call[q].step \in {"create", "undo", "revokeAll"}
    BY <2>1, <2>2 DEF CallOK
  <2>3. CASE call[q].step = "respond"
    BY <2>1, <2>3 DEF CallOK, Outlives
  <2>4. CASE call[q].step \in {"touch", "refresh", "upgrade"}
    <3> DEFINE s == call[q].session
    <3>1. s \in Token /\ Present(s) /\ call[q].token \in Token /\ (call[q].step = "touch" => call[q].exp <= session[s].exp)
      BY <2>1, <2>4 DEF CallOK
    <3>2. Present(s)' /\ session[s].exp <= session'[s].exp
      BY <3>1 DEF Outlives
    <3>3. call[q].exp \in Nat /\ session[s].exp \in Nat /\ session'[s].exp \in Nat
      <4>1. call[q] \in CallRecord /\ session[s] \in SessionRecord /\ session'[s] \in SessionRecord
        BY <3>1 DEF SessionInv, DocumentInv, ValueTypes
      <4> QED
        BY <4>1, Times DEF CallRecord, SessionRecord
    <3>4. call[q].step = "touch" => call[q].exp <= session'[s].exp
      BY <3>1, <3>2, <3>3
    <3> QED
      BY <2>4, <3>1, <3>2, <3>4 DEF CallOK
  <2>5. call[q] \in CallRecord
    BY DEF SessionInv, DocumentInv, ValueTypes
  <2> QED
    BY <2>2, <2>3, <2>4, <2>5 DEF CallRecord
<1>3. TicketsInHand'
  <2>1. \A s \in given : session'[s].source = session[s].source
    BY DEF SessionInv, CallInv, GivenExist, Outlives, DocumentInv, ValueTypes
  <2> QED
    BY <2>1 DEF SessionInv, CallInv, TicketsInHand
<1>4. RotationOK'
  <2> SUFFICES ASSUME NEW s \in Token, session'[s].source = "password", session'[s].state = "active"
               PROVE  session'[s].password = password \/ session'[s].late \/ Rotating'
    BY DEF RotationOK, OfCredential
  <2>1. s \in OfCredential'
    BY DEF OfCredential
  <2> QED
    BY <2>1 DEF Outlives, SessionInv, CallInv, RotationOK, OfCredential
<1> QED
  BY <1>1, <1>2, <1>3, <1>4 DEF CallInv

(* The records of the calls. *)
LEMMA CallTyped ==
  ASSUME ValueTypes, NEW r \in Caller,
         NEW st \in {"create", "respond", "undo", "revokeAll", "touch", "refresh", "upgrade"},
         NEW s \in 0 .. MaxTokens, NEW t \in 0 .. MaxTokens, NEW k \in Source,
         st = "touch" => s \in Token, Call(r, st, s, t, k)
  PROVE  /\ call' \in [Caller -> CallRecord \cup {NoCall}]
         /\ \A q \in Caller : q # r => call'[q] = call[q]
         /\ call'[r] \in CallRecord /\ call'[r].step = st /\ call'[r].session = s /\ call'[r].token = t
         /\ call'[r].source = k
         /\ st = "touch" => call'[r].exp = session[s].exp
         /\ st = "create" => call'[r].password <= password
<1> DEFINE c == [step |-> st, session |-> s, token |-> t, source |-> k,
                 at |-> IF s = NoToken /\ k = "password" THEN 0 ELSE clock,
                 exp |-> IF st = "touch" THEN session[s].exp ELSE 0,
                 password |-> IF k = "password" THEN password ELSE 0]
<1>1. (IF s = NoToken /\ k = "password" THEN 0 ELSE clock) \in 0 .. MaxSessionTime
  BY SessionConstants DEF ValueTypes
<1>2. (IF st = "touch" THEN session[s].exp ELSE 0) \in Time
  <2>1. st = "touch" => session[s] \in SessionRecord
    BY DEF ValueTypes
  <2> QED
    BY <2>1, Times DEF SessionRecord
<1>3. (IF k = "password" THEN password ELSE 0) \in Nat /\ (IF k = "password" THEN password ELSE 0) <= password
  BY DEF ValueTypes
<1>4. c \in CallRecord
  BY <1>1, <1>2, <1>3 DEF CallRecord
<1>5. /\ c.step = st /\ c.session = s /\ c.token = t /\ c.source = k
      /\ st = "touch" => c.exp = session[s].exp
      /\ c.password <= password
  BY <1>3
<1>6. call' = [call EXCEPT ![r] = c]
  BY DEF Call
<1> HIDE DEF c
<1> QED
  BY <1>4, <1>5, <1>6 DEF ValueTypes

LEMMA CallEnds ==
  ASSUME ValueTypes, NEW r \in Caller, EndCall(r)
  PROVE  /\ call' \in [Caller -> CallRecord \cup {NoCall}]
         /\ \A q \in Caller : q # r => call'[q] = call[q]
         /\ call'[r] = NoCall
BY DEF ValueTypes, EndCall

LEMMA CallContinues ==
  ASSUME ValueTypes, NEW r \in Caller, call[r] # NoCall, Continue(r, "undo")
  PROVE  /\ call' \in [Caller -> CallRecord \cup {NoCall}]
         /\ \A q \in Caller : q # r => call'[q] = call[q]
         /\ call'[r] \in CallRecord /\ call'[r].step = "undo" /\ call'[r].source = call[r].source
<1>1. call[r] \in CallRecord /\ call' = [call EXCEPT ![r] = [call[r] EXCEPT !.step = "undo"]]
  BY DEF ValueTypes, Continue
<1>2. [call[r] EXCEPT !.step = "undo"] \in CallRecord
  BY <1>1 DEF CallRecord
<1>3. [call[r] EXCEPT !.step = "undo"].step = "undo" /\ [call[r] EXCEPT !.step = "undo"].source = call[r].source
  BY <1>1 DEF CallRecord
<1> QED
  BY <1>1, <1>2, <1>3 DEF ValueTypes

-----------------------------------------------------------------------------
(* The steps that leave the documents alone. *)
LEMMA DocumentsRest ==
  ASSUME SessionInv, session' = session
  PROVE  \A s \in Token : Outlives(s) /\ KeepsTokens(s)
<1> SUFFICES ASSUME NEW s \in Token PROVE Outlives(s) /\ KeepsTokens(s)
  OBVIOUS
<1>1. session[s].exp \in Nat
  <2>1. session[s] \in SessionRecord
    BY DEF SessionInv, DocumentInv, ValueTypes
  <2> QED
    BY <2>1, Times DEF SessionRecord
<1>2. Outlives(s)
  BY <1>1 DEF Outlives, Present
<1>3. KeepsTokens(s)
  BY DEF SessionInv, DocumentInv, DocumentsOK, Present, KeepsTokens
<1> QED
  BY <1>2, <1>3

\* A call that is refused, ends or is undone.
LEMMA QuietCallStep ==
  ASSUME SessionInv, UNCHANGED <<clock, session, ticket, password, issued, given, expiry, refreshedAt, successors>>,
         sessionFaults' \in 0 .. MaxSessionFaults,
         call' \in [Caller -> CallRecord \cup {NoCall}],
         \A q \in Caller : call'[q] = call[q] \/ CallOK(q)',
         \A q \in Caller, k \in Ticket : InHand(q, k)' => InHand(q, k),
         Rotating => Rotating'
  PROVE  SessionInv'
<1>1. ValueTypes'
  BY DEF SessionInv, DocumentInv, ValueTypes
<1>2. DocumentInv'
  BY <1>1, DocumentsRest, KeptDocuments DEF SessionInv
<1>3. CallInv'
  BY <1>1, DocumentsRest, CallStep
<1> QED
  BY <1>2, <1>3 DEF SessionInv

LEMMA EndOfCall ==
  ASSUME SessionInv, NEW r \in Caller, EndCall(r), ~AtStep(r, "revokeAll")
  PROVE  /\ call' \in [Caller -> CallRecord \cup {NoCall}]
         /\ \A q \in Caller : call'[q] = call[q] \/ CallOK(q)'
         /\ \A q \in Caller, k \in Ticket : InHand(q, k)' => InHand(q, k)
         /\ Rotating => Rotating'
<1>1. /\ call' \in [Caller -> CallRecord \cup {NoCall}]
      /\ \A q \in Caller : q # r => call'[q] = call[q]
      /\ call'[r] = NoCall
  BY CallEnds DEF SessionInv, DocumentInv
<1> QED
  BY <1>1 DEF CallOK, InHand, Rotating, AtStep

\* The exchange of a ticket is given up, and to be undone.
LEMMA GivingUp ==
  ASSUME SessionInv, NEW r \in Caller, AtStep(r, "create") \/ AtStep(r, "respond"),
         IF call[r].source \in Ticket THEN Continue(r, "undo") ELSE EndCall(r)
  PROVE  /\ call' \in [Caller -> CallRecord \cup {NoCall}]
         /\ \A q \in Caller : call'[q] = call[q] \/ CallOK(q)'
         /\ \A q \in Caller, k \in Ticket : InHand(q, k)' => InHand(q, k)
         /\ Rotating => Rotating'
<1>1. call[r] # NoCall /\ call[r].step \in {"create", "respond"} /\ ~AtStep(r, "revokeAll")
  BY DEF AtStep
<1>2. CASE EndCall(r)
  BY <1>1, <1>2, EndOfCall
<1>3. CASE call[r].source \in Ticket /\ Continue(r, "undo")
  <2>1. /\ call' \in [Caller -> CallRecord \cup {NoCall}]
        /\ \A q \in Caller : q # r => call'[q] = call[q]
        /\ call'[r] \in CallRecord /\ call'[r].step = "undo" /\ call'[r].source = call[r].source
    BY <1>1, <1>3, CallContinues DEF SessionInv, DocumentInv
  <2> QED
    BY <1>1, <1>3, <2>1 DEF CallOK, InHand, Rotating, AtStep
<1> QED
  BY <1>2, <1>3

LEMMA FaultTyped ==
  ASSUME ValueTypes, NEW kind, SessionFault(kind)
  PROVE  sessionFaults' \in 0 .. MaxSessionFaults
BY SessionConstants DEF SessionFault, ValueTypes

LEMMA RefuseTenantKeeps == ASSUME SessionInv, NEW r \in Caller, RefuseTenant(r) PROVE SessionInv'
<1>1. ~AtStep(r, "revokeAll") /\ sessionFaults' \in 0 .. MaxSessionFaults
  BY DEF RefuseTenant, AtStep, SessionInv, DocumentInv, ValueTypes
<1> QED
  BY <1>1, EndOfCall, QuietCallStep DEF RefuseTenant, tokenHistory

LEMMA LoginKeeps == ASSUME SessionInv, NEW r \in Caller, LoginNative(r) PROVE SessionInv'
<1>1. 0 \in 0 .. MaxTokens /\ "password" \in Source /\ "password" \notin Ticket /\ NoToken = 0
  BY SessionConstants DEF Source, NoToken
<1>2. /\ call' \in [Caller -> CallRecord \cup {NoCall}]
      /\ \A q \in Caller : q # r => call'[q] = call[q]
      /\ call'[r] \in CallRecord /\ call'[r].step = "create" /\ call'[r].source = "password"
      /\ call'[r].password <= password
  BY <1>1, CallTyped DEF LoginNative, SessionInv, DocumentInv
<1>3. CallOK(r)' /\ \A k \in Ticket : ~InHand(r, k)'
  BY <1>1, <1>2 DEF CallOK, InHand, LoginNative
<1>4. Rotating => Rotating'
  BY <1>2 DEF LoginNative, Free, Rotating, AtStep
<1>5. sessionFaults' \in 0 .. MaxSessionFaults /\ \A q \in Caller, k \in Ticket : InHand(q, k)' => InHand(q, k)
  BY <1>2, <1>3 DEF LoginNative, SessionInv, DocumentInv, ValueTypes, InHand
<1>6. UNCHANGED <<clock, session, ticket, password, issued, given, expiry, refreshedAt, successors>>
  BY DEF LoginNative, tokenHistory
<1>7. \A q \in Caller : call'[q] = call[q] \/ CallOK(q)'
  BY <1>2, <1>3
<1> QED
  BY <1>2, <1>4, <1>5, <1>6, <1>7, QuietCallStep

\* A call reads a session.
LEMMA ReadingKeeps ==
  ASSUME SessionInv, NEW r \in Caller, NEW s \in Token, NEW t \in Token, NEW st \in {"touch", "refresh", "upgrade"},
         Free(r), session[s].state = "active", Call(r, st, s, t, session[s].source),
         UNCHANGED <<clock, session, ticket, password, issued, tokenHistory, sessionFaults>>
  PROVE  SessionInv'
<1>1. s \in 0 .. MaxTokens /\ t \in 0 .. MaxTokens
  BY SessionConstants DEF Token
<1>2. session[s] \in SessionRecord /\ session[s].source \in Source /\ session[s].exp \in Nat
  <2>1. session[s] \in SessionRecord
    BY DEF SessionInv, DocumentInv, ValueTypes
  <2> QED
    BY <2>1, Times DEF SessionRecord
<1>3. ValueTypes
  BY DEF SessionInv, DocumentInv
<1>4. /\ call' \in [Caller -> CallRecord \cup {NoCall}]
      /\ \A q \in Caller : q # r => call'[q] = call[q]
      /\ call'[r] \in CallRecord /\ call'[r].step = st /\ call'[r].session = s /\ call'[r].token = t
      /\ st = "touch" => call'[r].exp = session[s].exp
  BY <1>1, <1>2, <1>3, CallTyped
<1>5. CallOK(r)'
  BY <1>2, <1>4 DEF CallOK, Present
<1>6. \A q \in Caller, k \in Ticket : InHand(q, k)' => InHand(q, k)
  BY <1>4 DEF InHand
<1>7. Rotating => Rotating'
  BY <1>4 DEF Free, Rotating, AtStep
<1>8. /\ UNCHANGED <<clock, session, ticket, password, issued, given, expiry, refreshedAt, successors>>
      /\ sessionFaults' \in 0 .. MaxSessionFaults
  BY <1>3 DEF tokenHistory, ValueTypes
<1>9. \A q \in Caller : call'[q] = call[q] \/ CallOK(q)'
  BY <1>4, <1>5
<1> QED
  BY <1>4, <1>6, <1>7, <1>8, <1>9, QuietCallStep

LEMMA TickKeeps == ASSUME SessionInv, SessionTick PROVE SessionInv'
<1>1. UNCHANGED <<session, ticket, password, call, issued, given, expiry, refreshedAt, successors>>
  BY DEF SessionTick, tokenHistory
<1>2. ValueTypes'
  BY <1>1, SessionConstants DEF SessionTick, SessionInv, DocumentInv, ValueTypes
<1>3. DocumentInv'
  BY <1>1, <1>2, DocumentsRest, KeptDocuments DEF SessionInv
<1>4. CallInv'
  <2>1. /\ \A q \in Caller, k \in Ticket : InHand(q, k)' => InHand(q, k)
        /\ Rotating => Rotating'
    BY <1>1 DEF InHand, Rotating, AtStep
  <2> QED
    BY <1>1, <1>2, <2>1, DocumentsRest, CallStep
<1> QED
  BY <1>3, <1>4 DEF SessionInv

LEMMA SessionStutterKeeps == ASSUME SessionInv, UNCHANGED sessionVars PROVE SessionInv'
<1>1. UNCHANGED <<clock, session, ticket, password, call, issued, given, expiry, refreshedAt, successors,
                  sessionFaults>>
  BY DEF sessionVars, tokenHistory
<1>2. /\ sessionFaults' \in 0 .. MaxSessionFaults
      /\ call' \in [Caller -> CallRecord \cup {NoCall}]
      /\ \A q \in Caller, k \in Ticket : InHand(q, k)' => InHand(q, k)
      /\ Rotating => Rotating'
  BY <1>1 DEF InHand, Rotating, AtStep, SessionInv, DocumentInv, ValueTypes
<1> QED
  BY <1>1, <1>2, QuietCallStep

LEMMA RotatePasswordKeeps == ASSUME SessionInv, NEW r \in Caller, RotatePassword(r) PROVE SessionInv'
<1>1. 0 \in 0 .. MaxTokens /\ "password" \in Source /\ "password" \notin Ticket /\ NoToken = 0
  BY SessionConstants DEF Source, NoToken
<1>2. /\ call' \in [Caller -> CallRecord \cup {NoCall}]
      /\ \A q \in Caller : q # r => call'[q] = call[q]
      /\ call'[r] \in CallRecord /\ call'[r].step = "revokeAll"
  BY <1>1, CallTyped DEF RotatePassword, SessionInv, DocumentInv
<1>3. /\ UNCHANGED <<clock, session, ticket, issued, given, expiry, refreshedAt, successors, sessionFaults>>
      /\ password' = password + 1 /\ password \in Nat
  BY DEF RotatePassword, tokenHistory, SessionInv, DocumentInv, ValueTypes
<1>4. ValueTypes'
  BY <1>2, <1>3 DEF SessionInv, DocumentInv, ValueTypes
<1>5. DocumentInv'
  BY <1>3, <1>4, DocumentsRest, KeptDocuments DEF SessionInv
<1>6. CallsOK'
  <2> SUFFICES ASSUME NEW q \in Caller PROVE CallOK(q)'
    BY DEF CallsOK
  <2>1. CASE q = r
    BY <1>2, <2>1 DEF CallOK
  <2>2. CASE q # r
    <3>1. CallOK(q) /\ call'[q] = call[q]
      BY <1>2, <2>2 DEF SessionInv, CallInv, CallsOK
    <3>2. call[q] # NoCall => call[q].password \in Nat
      <4>1. call[q] # NoCall => call[q] \in CallRecord
        BY DEF SessionInv, DocumentInv, ValueTypes
      <4> QED
        BY <4>1 DEF CallRecord
    <3>3. call[q] # NoCall /\ call[q].step = "create" => call[q].password <= password'
      BY <1>3, <3>1, <3>2 DEF CallOK
    <3> QED
      BY <1>3, <3>1, <3>3 DEF CallOK, Present
  <2> QED
    BY <2>1, <2>2
<1>7. TicketsInHand'
  <2>1. \A q \in Caller, k \in Ticket : InHand(q, k)' => InHand(q, k)
    BY <1>2 DEF InHand
  <2> QED
    BY <1>3, <2>1 DEF SessionInv, CallInv, TicketsInHand
<1>8. GivenExist' /\ RotationOK'
  <2>1. AtStep(r, "revokeAll")'
    BY <1>2, NoCallIsNone DEF AtStep
  <2> QED
    BY <1>3, <2>1 DEF SessionInv, CallInv, GivenExist, Present, RotationOK, Rotating
<1> QED
  BY <1>5, <1>6, <1>7, <1>8 DEF SessionInv, CallInv

-----------------------------------------------------------------------------
(* The tickets. *)
LEMMA ExchangeTicketKeeps ==
  ASSUME SessionInv, NEW r \in Caller, NEW k \in Ticket, ExchangeTicket(r, k)
  PROVE  SessionInv'
<1>1. 0 \in 0 .. MaxTokens /\ k \in Source /\ k # "password" /\ NoToken = 0
  BY SessionConstants DEF Source, NoToken
<1>2. /\ call' \in [Caller -> CallRecord \cup {NoCall}]
      /\ \A q \in Caller : q # r => call'[q] = call[q]
      /\ call'[r] \in CallRecord /\ call'[r].step = "create" /\ call'[r].source = k
      /\ call'[r].password <= password
  BY <1>1, CallTyped DEF ExchangeTicket, SessionInv, DocumentInv
<1>3. /\ UNCHANGED <<clock, session, password, issued, given, expiry, refreshedAt, successors, sessionFaults>>
      /\ call[r] = NoCall /\ ticket[k] = Open /\ clock \in 0 .. MaxSessionTime /\ clock # Open
  BY Times DEF ExchangeTicket, tokenHistory, Free, Consumable, SessionInv, DocumentInv, ValueTypes
<1>4. /\ ticket' \in [Ticket -> 0 .. MaxSessionTime \cup {Open}] /\ ticket'[k] # Open
      /\ \A j \in Ticket : j # k => ticket'[j] = ticket[j]
  BY <1>3 DEF ExchangeTicket, SessionInv, DocumentInv, ValueTypes
<1>5. ValueTypes'
  BY <1>2, <1>3, <1>4 DEF SessionInv, DocumentInv, ValueTypes
<1>6. DocumentInv'
  BY <1>3, <1>5, DocumentsRest, KeptDocuments DEF SessionInv
<1>7. CallsOK'
  BY <1>2, <1>3 DEF SessionInv, CallInv, CallsOK, CallOK, Present
<1>8. TicketsInHand'
  <2>1. \A q \in Caller, j \in Ticket : InHand(q, j)' => InHand(q, j) \/ (q = r /\ j = k)
    BY <1>2 DEF InHand
  <2>2. \A q \in Caller : ~InHand(q, k)
    BY <1>3 DEF SessionInv, CallInv, TicketsInHand
  <2>3. \A s \in given : session[s].source # k
    BY <1>3 DEF SessionInv, CallInv, TicketsInHand
  <2> SUFFICES ASSUME NEW j \in Ticket
               PROVE  /\ \A q \in Caller : InHand(q, j)' =>
                           /\ ticket'[j] # Open
                           /\ \A p \in Caller : InHand(p, j)' => p = q
                           /\ \A s \in given : session[s].source # j
                      /\ \A s \in given : session[s].source = j =>
                           ticket'[j] # Open /\ \A u \in given : session[u].source = j => u = s
    BY <1>3 DEF TicketsInHand
  <2>4. CASE j = k
    BY <1>4, <2>1, <2>2, <2>3, <2>4
  <2>5. CASE j # k
    BY <1>4, <2>1, <2>5 DEF SessionInv, CallInv, TicketsInHand
  <2> QED
    BY <2>4, <2>5
<1>9. GivenExist' /\ RotationOK'
  <2>1. Rotating => Rotating'
    BY <1>2, <1>3 DEF Rotating, AtStep
  <2> QED
    BY <1>3, <2>1 DEF SessionInv, CallInv, GivenExist, Present, RotationOK, OfCredential
<1> QED
  BY <1>6, <1>7, <1>8, <1>9 DEF SessionInv, CallInv

LEMMA UndoExchangeKeeps == ASSUME SessionInv, NEW r \in Caller, UndoExchange(r) PROVE SessionInv'
<1> DEFINE k == call[r].source
<1>1. /\ call[r] # NoCall /\ call[r].step = "undo" /\ k \in Ticket /\ InHand(r, k)
      /\ ~AtStep(r, "revokeAll")
  BY DEF UndoExchange, AtStep, SessionInv, CallInv, CallsOK, CallOK, InHand
<1>2. /\ UNCHANGED <<clock, session, password, issued, given, expiry, refreshedAt, successors>>
      /\ EndCall(r)
  BY DEF UndoExchange, tokenHistory
<1>3. /\ call' \in [Caller -> CallRecord \cup {NoCall}]
      /\ \A q \in Caller : q # r => call'[q] = call[q]
      /\ call'[r] = NoCall
  BY <1>2, CallEnds DEF SessionInv, DocumentInv
<1>4. /\ sessionFaults' \in 0 .. MaxSessionFaults
      /\ ticket' \in [Ticket -> 0 .. MaxSessionTime \cup {Open}]
      /\ \A j \in Ticket : j # k => ticket'[j] = ticket[j]
  BY <1>1, FaultTyped DEF UndoExchange, SessionInv, DocumentInv, ValueTypes
<1>5. ValueTypes'
  BY <1>2, <1>3, <1>4 DEF SessionInv, DocumentInv, ValueTypes
<1>6. DocumentInv'
  BY <1>2, <1>5, DocumentsRest, KeptDocuments DEF SessionInv
<1>7. CallsOK'
  BY <1>2, <1>3 DEF SessionInv, CallInv, CallsOK, CallOK, Present
<1>8. TicketsInHand'
  <2>1. \A q \in Caller, j \in Ticket : InHand(q, j)' => InHand(q, j) /\ q # r
    BY <1>3 DEF InHand
  <2> SUFFICES ASSUME NEW j \in Ticket
               PROVE  /\ \A q \in Caller : InHand(q, j)' =>
                           /\ ticket'[j] # Open
                           /\ \A p \in Caller : InHand(p, j)' => p = q
                           /\ \A s \in given : session[s].source # j
                      /\ \A s \in given : session[s].source = j =>
                           ticket'[j] # Open /\ \A u \in given : session[u].source = j => u = s
    BY <1>2 DEF TicketsInHand
  <2>2. CASE j = call[r].source
    <3>1. InHand(r, j)
      BY <1>1, <2>2
    <3>2. /\ \A q \in Caller : InHand(q, j) => q = r
          /\ \A s \in given : session[s].source # j
      BY <3>1 DEF SessionInv, CallInv, TicketsInHand
    <3> QED
      BY <2>1, <3>2
  <2>3. CASE j # call[r].source
    BY <1>4, <2>1, <2>3 DEF SessionInv, CallInv, TicketsInHand
  <2> QED
    BY <2>2, <2>3
<1>9. GivenExist' /\ RotationOK'
  <2>1. Rotating => Rotating'
    BY <1>1, <1>3 DEF Rotating, AtStep
  <2> QED
    BY <1>2, <2>1 DEF SessionInv, CallInv, GivenExist, Present, RotationOK, OfCredential
<1> QED
  BY <1>6, <1>7, <1>8, <1>9 DEF SessionInv, CallInv

LEMMA RespondKeeps == ASSUME SessionInv, NEW r \in Caller, RespondWithAccounts(r) PROVE SessionInv'
<1> DEFINE s0 == call[r].session
<1>1. /\ call[r] # NoCall /\ call[r].step = "respond" /\ s0 \in Token /\ Present(s0)
      /\ session[s0].source = call[r].source /\ ~AtStep(r, "revokeAll")
  BY DEF RespondWithAccounts, AtStep, SessionInv, CallInv, CallsOK, CallOK
<1>2. UNCHANGED <<clock, session, ticket, password, issued, expiry, refreshedAt, successors>>
  BY DEF RespondWithAccounts
<1>3. CASE /\ SessionFault("lookup") /\ UNCHANGED given
           /\ IF call[r].source \in Ticket THEN Continue(r, "undo") ELSE EndCall(r)
  <2>1. sessionFaults' \in 0 .. MaxSessionFaults
    BY <1>3, FaultTyped DEF SessionInv, DocumentInv
  <2>2. AtStep(r, "respond")
    BY <1>1 DEF AtStep
  <2> QED
    BY <1>2, <1>3, <2>1, <2>2, GivingUp, QuietCallStep
<1>4. CASE given' = given \cup {s0} /\ EndCall(r) /\ UNCHANGED sessionFaults
  <2>1. /\ call' \in [Caller -> CallRecord \cup {NoCall}]
        /\ \A q \in Caller : q # r => call'[q] = call[q]
        /\ call'[r] = NoCall
    BY <1>4, CallEnds DEF SessionInv, DocumentInv
  <2>2. ValueTypes'
    BY <1>1, <1>2, <1>4, <2>1 DEF SessionInv, DocumentInv, ValueTypes
  <2>3. DocumentInv'
    BY <1>2, <2>2, DocumentsRest, KeptDocuments DEF SessionInv
  <2>4. CallsOK'
    BY <1>2, <2>1 DEF SessionInv, CallInv, CallsOK, CallOK, Present
  <2>5. TicketsInHand'
    <3>1. \A q \in Caller, j \in Ticket : InHand(q, j)' => InHand(q, j) /\ q # r
      BY <2>1 DEF InHand
    <3> SUFFICES ASSUME NEW j \in Ticket
                 PROVE  /\ \A q \in Caller : InHand(q, j)' =>
                             /\ ticket[j] # Open
                             /\ \A p \in Caller : InHand(p, j)' => p = q
                             /\ \A s \in given' : session[s].source # j
                        /\ \A s \in given' : session[s].source = j =>
                             ticket[j] # Open /\ \A u \in given' : session[u].source = j => u = s
      BY <1>2 DEF TicketsInHand
    <3>2. CASE session[s0].source = j
      <4>1. InHand(r, j)
        BY <1>1, <3>2 DEF InHand
      <4>2. /\ ticket[j] # Open /\ \A s \in given : session[s].source # j
            /\ \A q \in Caller : InHand(q, j) => q = r
        BY <4>1 DEF SessionInv, CallInv, TicketsInHand
      <4> QED
        BY <1>4, <3>1, <4>2
    <3>3. CASE session[s0].source # j
      BY <1>4, <3>1, <3>3 DEF SessionInv, CallInv, TicketsInHand
    <3> QED
      BY <3>2, <3>3
  <2>6. GivenExist' /\ RotationOK'
    <3>1. Rotating => Rotating'
      BY <1>1, <2>1 DEF Rotating, AtStep
    <3> QED
      BY <1>1, <1>2, <1>4, <3>1 DEF SessionInv, CallInv, GivenExist, Present, RotationOK, OfCredential
  <2> QED
    BY <2>3, <2>4, <2>5, <2>6 DEF SessionInv, CallInv
<1> QED
  BY <1>3, <1>4 DEF RespondWithAccounts

-----------------------------------------------------------------------------
(* The sessions. *)
LEMMA RevokedOutlives ==
  ASSUME SessionInv, NEW ss \in SUBSET Token, session' = Revoked(ss), \A s \in ss : Present(s)
  PROVE  /\ session' \in [Token -> SessionRecord]
         /\ \A s \in Token : Outlives(s) /\ KeepsTokens(s)
         /\ \A s \in Token : session'[s].state = "active" => s \notin ss /\ session'[s] = session[s]
<1> DEFINE d(s) == IF s \in ss THEN [session[s] EXCEPT !.state = "revoked"] ELSE session[s]
<1>1. \A s \in Token : session'[s] = d(s)
  BY DEF Revoked
<1>2. session' \in [Token -> SessionRecord]
  <2>1. \A s \in Token : session[s] \in SessionRecord
    BY DEF SessionInv, DocumentInv, ValueTypes
  <2>2. \A s \in Token : [session[s] EXCEPT !.state = "revoked"] \in SessionRecord
    BY <2>1 DEF SessionRecord
  <2> QED
    BY <2>1, <2>2 DEF Revoked
<1>3. ASSUME NEW s \in Token
      PROVE  Outlives(s) /\ KeepsTokens(s) /\ (session'[s].state = "active" => s \notin ss /\ session'[s] = session[s])
  <2>1. session[s] \in SessionRecord
    BY DEF SessionInv, DocumentInv, ValueTypes
  <2>2. session[s].exp \in Nat
    BY <2>1, Times DEF SessionRecord
  <2>3. Present(s) => session[s].idleExp <= session[s].exp
    BY DEF SessionInv, DocumentInv, DocumentsOK
  <2>4. CASE s \in ss
    <3>1. session'[s] = [session[s] EXCEPT !.state = "revoked"] /\ Present(s)
      BY <1>1, <2>4
    <3>2. /\ session'[s].state = "revoked" /\ session'[s].token = session[s].token
          /\ session'[s].refresh = session[s].refresh
          /\ session'[s].prev = session[s].prev /\ session'[s].prevExp = session[s].prevExp
          /\ session'[s].accessExp = session[s].accessExp /\ session'[s].exp = session[s].exp
          /\ session'[s].source = session[s].source /\ session'[s].idleExp = session[s].idleExp
      BY <2>1, <3>1 DEF SessionRecord
    <3> QED
      BY <2>2, <2>3, <3>1, <3>2 DEF Outlives, KeepsTokens, Present
  <2>5. CASE s \notin ss
    <3>1. session'[s] = session[s]
      BY <1>1, <2>5
    <3> QED
      BY <2>2, <2>3, <2>5, <3>1 DEF Outlives, KeepsTokens, Present
  <2> QED
    BY <2>4, <2>5
<1> QED
  BY <1>2, <1>3

LEMMA RevokeAllKeeps == ASSUME SessionInv, NEW r \in Caller, RevokeAllOfCredential(r) PROVE SessionInv'
<1>1. /\ UNCHANGED <<clock, ticket, password, issued, given, expiry, refreshedAt, successors, sessionFaults>>
      /\ EndCall(r) /\ session' = Revoked(OfCredential)
  BY DEF RevokeAllOfCredential, tokenHistory
<1>2. OfCredential \in SUBSET Token /\ \A s \in OfCredential : Present(s)
  BY DEF OfCredential, Present
<1>3. /\ call' \in [Caller -> CallRecord \cup {NoCall}]
      /\ \A q \in Caller : q # r => call'[q] = call[q]
      /\ call'[r] = NoCall
  BY <1>1, CallEnds DEF SessionInv, DocumentInv
<1>4. /\ session' \in [Token -> SessionRecord]
      /\ \A s \in Token : Outlives(s) /\ KeepsTokens(s)
      /\ \A s \in Token : session'[s].state = "active" => s \notin OfCredential /\ session'[s] = session[s]
  BY <1>1, <1>2, RevokedOutlives
<1>5. ValueTypes'
  BY <1>1, <1>3, <1>4 DEF SessionInv, DocumentInv, ValueTypes
<1>6. DocumentInv'
  BY <1>1, <1>4, <1>5, KeptDocuments DEF SessionInv
<1>7. OfCredential' = {}
  BY <1>4 DEF OfCredential
<1>8. /\ \A q \in Caller, k \in Ticket : InHand(q, k)' => InHand(q, k)
      /\ \A q \in Caller : call'[q] = call[q] \/ CallOK(q)'
  BY <1>3 DEF InHand, CallOK
<1>9. CallInv'
  BY <1>1, <1>4, <1>5, <1>7, <1>8, CallStep
<1> QED
  BY <1>6, <1>9 DEF SessionInv

LEMMA RevokeSessionKeeps ==
  ASSUME SessionInv, NEW s \in Token, NEW t \in Token, RevokeSession(s, t)
  PROVE  SessionInv'
<1>1. /\ UNCHANGED <<clock, ticket, password, call, issued, given, expiry, refreshedAt, successors, sessionFaults>>
      /\ session' = Revoked({s}) /\ Present(s)
  BY DEF RevokeSession, tokenHistory, HasToken, Present
<1>2. /\ session' \in [Token -> SessionRecord]
      /\ \A u \in Token : Outlives(u) /\ KeepsTokens(u)
  BY <1>1, RevokedOutlives
<1>3. ValueTypes'
  BY <1>1, <1>2 DEF SessionInv, DocumentInv, ValueTypes
<1>4. DocumentInv'
  BY <1>1, <1>2, <1>3, KeptDocuments DEF SessionInv
<1>5. /\ \A q \in Caller, k \in Ticket : InHand(q, k)' => InHand(q, k)
      /\ Rotating => Rotating'
  BY <1>1 DEF InHand, Rotating, AtStep
<1>6. CallInv'
  BY <1>1, <1>2, <1>3, <1>5, CallStep
<1> QED
  BY <1>4, <1>6 DEF SessionInv

LEMMA TouchKeeps == ASSUME SessionInv, NEW r \in Caller, Touch(r) PROVE SessionInv'
<1> DEFINE idle == Earlier(call[r].exp, call[r].at + IdleTtl)
           s0 == call[r].session
           d == [session[s0] EXCEPT !.seen = call[r].at, !.idleExp = idle]
<1>1. /\ UNCHANGED <<clock, ticket, password, issued, given, expiry, refreshedAt, successors>>
      /\ EndCall(r) /\ ~AtStep(r, "revokeAll") /\ sessionFaults' \in 0 .. MaxSessionFaults
  BY DEF Touch, AtStep, tokenHistory, SessionInv, DocumentInv, ValueTypes
<1>2. /\ call' \in [Caller -> CallRecord \cup {NoCall}]
      /\ \A q \in Caller : call'[q] = call[q] \/ CallOK(q)'
      /\ \A q \in Caller, k \in Ticket : InHand(q, k)' => InHand(q, k)
      /\ Rotating => Rotating'
  BY <1>1, EndOfCall
<1>3. s0 \in Token /\ Present(s0) /\ call[r].exp <= session[s0].exp /\ call[r] \in CallRecord
  BY DEF Touch, AtStep, SessionInv, CallInv, CallsOK, CallOK, DocumentInv, ValueTypes
<1>4. /\ call[r].exp \in Time /\ call[r].exp \in Nat /\ call[r].at \in 0 .. MaxSessionTime
      /\ call[r].at \in Time /\ call[r].at \in Nat
  <2>1. call[r].exp \in Time /\ call[r].at \in 0 .. MaxSessionTime
    BY <1>3 DEF CallRecord
  <2> QED
    BY <2>1, SessionConstants DEF Time
<1>5. session[s0] \in SessionRecord /\ session[s0].exp \in Nat
  <2>1. session[s0] \in SessionRecord
    BY <1>3 DEF SessionInv, DocumentInv, ValueTypes
  <2> QED
    BY <2>1, Times DEF SessionRecord
<1>6. idle \in Time /\ idle <= session[s0].exp
  <2>1. idle \in Nat /\ idle <= call[r].exp
    <3>1. call[r].at + IdleTtl \in Nat
      BY <1>4, SessionConstants
    <3> QED
      BY <1>4, <3>1, EarlierProperties
  <2> QED
    BY <1>3, <1>4, <1>5, <2>1, Times
<1> HIDE DEF idle
<1>7. /\ d \in SessionRecord /\ d.idleExp = idle /\ d.state = session[s0].state /\ d.token = session[s0].token
      /\ d.refresh = session[s0].refresh /\ d.prev = session[s0].prev /\ d.prevExp = session[s0].prevExp
      /\ d.accessExp = session[s0].accessExp /\ d.exp = session[s0].exp
      /\ d.source = session[s0].source /\ d.password = session[s0].password /\ d.late = session[s0].late
  BY <1>4, <1>5, <1>6 DEF SessionRecord
<1>8. session' = session \/ session' = [session EXCEPT ![s0] = d]
  BY DEF Touch, idle
<1> HIDE DEF d
<1>9. CASE session' = session
  BY <1>1, <1>2, <1>9, QuietCallStep
<1>10. CASE session' = [session EXCEPT ![s0] = d]
  <2>1. session'[s0] = d /\ \A s \in Token : s # s0 => session'[s] = session[s]
    BY <1>3, <1>10 DEF SessionInv, DocumentInv, ValueTypes
  <2>2. session' \in [Token -> SessionRecord]
    BY <1>3, <1>7, <1>10 DEF SessionInv, DocumentInv, ValueTypes
  <2>3. ValueTypes'
    BY <1>1, <1>2, <2>2 DEF SessionInv, DocumentInv, ValueTypes
  <2>4. ASSUME NEW s \in Token PROVE Outlives(s) /\ KeepsTokens(s)
    <3>1. CASE s = s0
      BY <1>3, <1>5, <1>6, <1>7, <2>1, <3>1 DEF Outlives, KeepsTokens, Present
    <3>2. CASE s # s0
      <4>1. session'[s] = session[s] /\ session[s] \in SessionRecord
        BY <2>1, <3>2 DEF SessionInv, DocumentInv, ValueTypes
      <4>2. session[s].exp \in Nat /\ (Present(s) => session[s].idleExp <= session[s].exp)
        BY <4>1, Times DEF SessionRecord, SessionInv, DocumentInv, DocumentsOK
      <4> QED
        BY <4>1, <4>2 DEF Outlives, KeepsTokens, Present
    <3> QED
      BY <3>1, <3>2
  <2>5. DocumentInv'
    BY <1>1, <2>3, <2>4, KeptDocuments DEF SessionInv
  <2>6. CallInv'
    BY <1>1, <1>2, <2>3, <2>4, CallStep
  <2> QED
    BY <2>5, <2>6 DEF SessionInv
<1> QED
  BY <1>8, <1>9, <1>10

-----------------------------------------------------------------------------
(* New tokens. *)
LEMMA IssuedTyped ==
  ASSUME ValueTypes, NEW exp \in Time, NEW at \in 0 .. MaxSessionTime, IssueTokens(exp, at),
         NEW s \in SessionRecord
  PROVE  /\ issued + 1 \in Token /\ issued' \in 1 .. MaxTokens /\ issued' = issued + 1
         /\ NextCredentials(s, exp, at) \in SessionRecord
         /\ LET d == NextCredentials(s, exp, at)
            IN  /\ d.token = issued + 1 /\ d.refresh = issued + 1 /\ d.exp = exp
                /\ d.accessExp = Earlier(exp, at + AccessTtl) /\ d.idleExp = Earlier(exp, at + IdleTtl)
                /\ d.state = s.state /\ d.source = s.source /\ d.prev = s.prev /\ d.prevExp = s.prevExp
                /\ d.password = s.password /\ d.late = s.late
<1>1. issued + 1 \in Token /\ issued' \in 1 .. MaxTokens /\ issued' = issued + 1 /\ issued + 1 \in 0 .. MaxTokens
  BY SessionConstants DEF IssueTokens, ValueTypes, Token
<1>2. Earlier(exp, at + AccessTtl) \in Time /\ Earlier(exp, at + IdleTtl) \in Time /\ at \in Time
  <2>1. at + AccessTtl \in Nat /\ at + IdleTtl \in Nat /\ exp \in Nat /\ at \in Time
    BY Times, SessionConstants
  <2>2. /\ Earlier(exp, at + AccessTtl) \in Nat /\ Earlier(exp, at + AccessTtl) <= exp
        /\ Earlier(exp, at + IdleTtl) \in Nat /\ Earlier(exp, at + IdleTtl) <= exp
    BY <2>1, EarlierProperties
  <2> QED
    BY <2>1, <2>2, Times
<1> DEFINE a == Earlier(exp, at + AccessTtl)
           i == Earlier(exp, at + IdleTtl)
           n == issued + 1
           d == [s EXCEPT !.token = n, !.refresh = n, !.exp = exp, !.seen = at, !.accessExp = a, !.idleExp = i]
<1>3. n \in 0 .. MaxTokens /\ a \in Time /\ i \in Time
  BY <1>1, <1>2
<1>4. NextCredentials(s, exp, at) = d
  BY DEF NextCredentials
<1> HIDE DEF n, a, i
<1>5. /\ d \in SessionRecord
      /\ d.token = n /\ d.refresh = n /\ d.exp = exp /\ d.accessExp = a /\ d.idleExp = i
      /\ d.state = s.state /\ d.source = s.source /\ d.prev = s.prev /\ d.prevExp = s.prevExp
      /\ d.password = s.password /\ d.late = s.late
  BY <1>2, <1>3 DEF SessionRecord
<1> HIDE DEF d
<1> QED
  BY <1>1, <1>4, <1>5 DEF n, a, i

LEMMA CreateSessionKeeps == ASSUME SessionInv, NEW r \in Caller, CreateSession(r) PROVE SessionInv'
<1>1. /\ call[r] # NoCall /\ call[r].step = "create" /\ call[r].password <= password
      /\ AtStep(r, "create") /\ ~AtStep(r, "revokeAll") /\ call[r] \in CallRecord
  BY DEF CreateSession, AtStep, SessionInv, CallInv, CallsOK, CallOK, DocumentInv, ValueTypes
<1>2. UNCHANGED <<clock, ticket, password, given, refreshedAt, successors>>
  BY DEF CreateSession
<1>3. CASE /\ SessionFault("create") /\ UNCHANGED <<session, issued, expiry>>
           /\ IF call[r].source \in Ticket THEN Continue(r, "undo") ELSE EndCall(r)
  <2>1. sessionFaults' \in 0 .. MaxSessionFaults
    BY <1>3, FaultTyped DEF SessionInv, DocumentInv
  <2> QED
    BY <1>1, <1>2, <1>3, <2>1, GivingUp, QuietCallStep
<1> DEFINE n == issued + 1
           e == NextCredentials(NoSession, clock + SessionTtl, clock)
           d == [e EXCEPT !.state = "active", !.source = call[r].source,
                          !.password = call[r].password, !.late = call[r].password < password]
           c == [call[r] EXCEPT !.step = "respond", !.session = n]
<1>4. CASE /\ IssueTokens(clock + SessionTtl, clock) /\ session' = [session EXCEPT ![n] = d]
           /\ call' = [call EXCEPT ![r].step = "respond", ![r].session = n] /\ UNCHANGED sessionFaults
  <2>1. clock + SessionTtl \in Time /\ clock \in 0 .. MaxSessionTime
    BY SessionConstants DEF SessionInv, DocumentInv, ValueTypes, Time
  <2>2. /\ n \in Token /\ issued' \in 1 .. MaxTokens /\ issued' = n /\ e \in SessionRecord
        /\ e.token = n /\ e.refresh = n /\ e.exp = clock + SessionTtl
        /\ e.accessExp = Earlier(clock + SessionTtl, clock + AccessTtl)
        /\ e.idleExp = Earlier(clock + SessionTtl, clock + IdleTtl)
        /\ e.prev = NoToken
    BY <1>4, <2>1, IssuedTyped, NoSessionTyped DEF SessionInv, DocumentInv
  <2> HIDE DEF e
  <2>3. call[r].source \in Source /\ call[r].password \in Nat /\ password \in Nat
    BY <1>1 DEF CallRecord, SessionInv, DocumentInv, ValueTypes
  <2>4. /\ d \in SessionRecord /\ d.state = "active" /\ d.source = call[r].source /\ d.token = n /\ d.refresh = n
        /\ d.exp = clock + SessionTtl /\ d.accessExp = Earlier(clock + SessionTtl, clock + AccessTtl)
        /\ d.idleExp = Earlier(clock + SessionTtl, clock + IdleTtl)
        /\ d.prev = NoToken /\ (d.password = password \/ d.late)
    <3>1. (call[r].password < password) \in BOOLEAN /\ (call[r].password = password \/ call[r].password < password)
      BY <1>1, <2>3
    <3>2. "active" \in {"absent", "active", "revoked"}
      OBVIOUS
    <3> QED
      BY <2>2, <2>3, <3>1, <3>2 DEF SessionRecord
  <2> HIDE DEF d
  <2>5. ~Present(n) /\ n \in 0 .. MaxTokens
    <3>1. Present(n) => n <= issued
      BY <2>2 DEF SessionInv, DocumentInv, DocumentsOK
    <3>2. ~(n <= issued)
      BY DEF SessionInv, DocumentInv, ValueTypes
    <3> QED
      BY <2>2, <3>1, <3>2, SessionConstants DEF Token
  <2>6. /\ c \in CallRecord /\ c.step = "respond" /\ c.session = n /\ c.source = call[r].source
        /\ call' = [call EXCEPT ![r] = c]
    <3>1. "respond" \in {"create", "respond", "undo", "revokeAll", "touch", "refresh", "upgrade"}
      OBVIOUS
    <3>2. c \in CallRecord /\ c.step = "respond" /\ c.session = n /\ c.source = call[r].source
      BY <1>1, <2>5, <3>1 DEF CallRecord
    <3> QED
      BY <1>4, <3>2
  <2> HIDE DEF c
  <2>7. /\ call' \in [Caller -> CallRecord \cup {NoCall}]
        /\ \A q \in Caller : q # r => call'[q] = call[q]
        /\ call'[r] = c
    BY <2>6 DEF SessionInv, DocumentInv, ValueTypes
  <2>8. /\ session'[n] = d /\ \A s \in Token : s # n => session'[s] = session[s]
        /\ session' \in [Token -> SessionRecord]
    BY <1>4, <2>2, <2>4 DEF SessionInv, DocumentInv, ValueTypes
  <2>9. ValueTypes'
    BY <1>2, <1>4, <2>2, <2>7, <2>8 DEF SessionInv, DocumentInv, ValueTypes
  <2>10. DocumentInv'
    <3>1. IsNew(n, d)
      BY <1>2, <2>4, <2>5 DEF IsNew
    <3>2. session' = [session EXCEPT ![n] = d] /\ IssueTokens(clock + SessionTtl, clock)
      BY <1>4
    <3> HIDE DEF n
    <3> QED
      BY <2>1, <2>2, <2>4, <2>9, <3>1, <3>2, IssuedDocument DEF SessionInv, n
  <2>11. ASSUME NEW s \in Token PROVE Outlives(s)
    <3>1. CASE s = n
      BY <2>4, <2>5, <2>8, <3>1 DEF Outlives
    <3>2. CASE s # n
      <4>1. session'[s] = session[s] /\ session[s] \in SessionRecord
        BY <2>8, <3>2 DEF SessionInv, DocumentInv, ValueTypes
      <4>2. session[s].exp \in Nat
        BY <4>1, Times DEF SessionRecord
      <4> QED
        BY <4>1, <4>2 DEF Outlives, Present
    <3> QED
      BY <3>1, <3>2
  <2>12. CallOK(r)'
    BY <2>2, <2>4, <2>6, <2>7, <2>8 DEF CallOK, Present
  <2>13. /\ \A q \in Caller, k \in Ticket : InHand(q, k)' => InHand(q, k)
         /\ Rotating => Rotating'
    BY <1>1, <2>6, <2>7 DEF InHand, Rotating, AtStep
  <2>14. CallInv'
    BY <1>2, <2>7, <2>9, <2>11, <2>12, <2>13, CallStep
  <2> QED
    BY <2>10, <2>14 DEF SessionInv
<1> QED
  BY <1>3, <1>4 DEF CreateSession

LEMMA GraceProperties ==
  ASSUME NEW s \in Token, session[s] \in SessionRecord, NEW at \in 0 .. MaxSessionTime
  PROVE  /\ GraceExpiry(s, at) \in Time /\ GraceExpiry(s, at) \in Nat
         /\ GraceExpiry(s, at) <= session[s].accessExp /\ GraceExpiry(s, at) <= at + Grace
<1>1. session[s].accessExp \in Time /\ session[s].accessExp \in Nat
  <2>1. session[s].accessExp \in Time
    BY DEF SessionRecord
  <2> QED
    BY <2>1, Times
<1>2. at + Grace \in Nat /\ at \in Nat
  BY SessionConstants
<1>3. /\ Earlier(session[s].accessExp, at + Grace) \in Nat
      /\ Earlier(session[s].accessExp, at + Grace) <= session[s].accessExp
      /\ Earlier(session[s].accessExp, at + Grace) <= at + Grace
  BY <1>1, <1>2, EarlierProperties
<1> QED
  BY <1>1, <1>2, <1>3, Times DEF GraceExpiry

LEMMA SwapTokensKeeps == ASSUME SessionInv, NEW r \in Caller, SwapTokens(r) PROVE SessionInv'
<1> DEFINE s == call[r].session
           t == call[r].token
           at == call[r].at
           exp == IF call[r].step = "refresh" THEN session[s].exp ELSE at + SessionTtl
           grace == GraceExpiry(s, at)
           n == issued + 1
           e == NextCredentials(session[s], exp, at)
           d == [e EXCEPT !.prev = IF grace > 0 THEN session[s].token ELSE NoToken, !.prevExp = grace]
<1>1. /\ call[r] # NoCall /\ call[r].step \in {"refresh", "upgrade"} /\ ~AtStep(r, "revokeAll")
      /\ s \in Token /\ Present(s) /\ t \in Token /\ call[r] \in CallRecord /\ session[s] \in SessionRecord
  BY DEF SwapTokens, AtStep, SessionInv, CallInv, CallsOK, CallOK, DocumentInv, ValueTypes
<1>2. /\ UNCHANGED <<clock, ticket, password, given>> /\ EndCall(r)
      /\ sessionFaults' \in 0 .. MaxSessionFaults
  BY DEF SwapTokens, SessionInv, DocumentInv, ValueTypes
<1>3. /\ call' \in [Caller -> CallRecord \cup {NoCall}]
      /\ \A q \in Caller : call'[q] = call[q] \/ CallOK(q)'
      /\ \A q \in Caller, k \in Ticket : InHand(q, k)' => InHand(q, k)
      /\ Rotating => Rotating'
  BY <1>1, <1>2, EndOfCall
<1>4. CASE UNCHANGED <<session, issued, tokenHistory>>
  BY <1>2, <1>3, <1>4, QuietCallStep DEF tokenHistory
<1>5. CASE /\ SwapMatches(s, call[r].step, t) /\ IssueTokens(exp, at) /\ session' = [session EXCEPT ![s] = d]
           /\ refreshedAt' = [refreshedAt EXCEPT ![session[s].token] = at]
           /\ successors' = [successors EXCEPT ![t] = @ \cup {n}]
  <2>1. at \in 0 .. MaxSessionTime /\ at \in Nat
    BY <1>1, SessionConstants DEF CallRecord
  <2>2. /\ session[s].exp \in Time /\ session[s].exp \in Nat /\ session[s].token \in 0 .. MaxTokens
        /\ session[s].refresh \in {NoToken, session[s].token}
        /\ session[s].refresh = NoToken => session[s].exp <= SessionTtl
    <3>1. session[s].exp \in Time /\ session[s].token \in 0 .. MaxTokens
      BY <1>1 DEF SessionRecord
    <3>2. session[s].exp \in Nat
      BY <3>1, Times
    <3>3. /\ session[s].refresh \in {NoToken, session[s].token}
          /\ session[s].refresh = NoToken => session[s].exp <= SessionTtl
      BY <1>1 DEF SessionInv, DocumentInv, DocumentsOK
    <3> QED
      BY <3>1, <3>2, <3>3
  <2>3. session[s].token = t /\ session[s].state = "active"
    BY <1>1, <1>5, <2>2 DEF SwapMatches, Token, NoToken
  <2>4. exp \in Time /\ exp \in Nat /\ session[s].exp <= exp
    <3>1. CASE call[r].step = "refresh"
      BY <2>2, <3>1
    <3>2. CASE call[r].step # "refresh"
      <4>1. exp = at + SessionTtl /\ session[s].exp <= SessionTtl
        BY <1>5, <2>2, <3>2 DEF SwapMatches
      <4>2. at + SessionTtl \in Time /\ at + SessionTtl \in Nat
        BY <2>1, SessionConstants DEF Time
      <4>3. session[s].exp <= at + SessionTtl
        BY <2>1, <2>2, <4>1, SessionConstants
      <4> QED
        BY <4>1, <4>2, <4>3
    <3> QED
      BY <3>1, <3>2
  <2>5. /\ grace \in Time /\ grace <= session[s].accessExp /\ grace <= at + Grace
    BY <1>1, <2>1, GraceProperties
  <2> HIDE DEF exp, grace
  <2>6. /\ n \in Token /\ issued' \in 1 .. MaxTokens /\ issued' = n /\ e \in SessionRecord
        /\ e.token = n /\ e.refresh = n /\ e.exp = exp
        /\ e.accessExp = Earlier(exp, at + AccessTtl) /\ e.idleExp = Earlier(exp, at + IdleTtl)
        /\ e.state = session[s].state /\ e.source = session[s].source
        /\ e.password = session[s].password /\ e.late = session[s].late
    BY <1>1, <1>5, <2>1, <2>4, IssuedTyped DEF SessionInv, DocumentInv
  <2> HIDE DEF e
  <2>7. /\ d \in SessionRecord
        /\ d.token = n /\ d.refresh = n /\ d.exp = exp
        /\ d.accessExp = Earlier(exp, at + AccessTtl) /\ d.idleExp = Earlier(exp, at + IdleTtl)
        /\ d.state = "active" /\ d.source = session[s].source
        /\ d.password = session[s].password /\ d.late = session[s].late
        /\ d.prevExp = grace /\ (d.prev # NoToken => d.prev = session[s].token)
    <3>1. NoToken \in 0 .. MaxTokens
      BY SessionConstants DEF NoToken
    <3>2. (IF grace > 0 THEN session[s].token ELSE NoToken) \in 0 .. MaxTokens
      BY <2>2, <3>1
    <3> QED
      BY <2>3, <2>5, <2>6, <3>2 DEF SessionRecord
  <2> HIDE DEF d
  <2>8. /\ session'[s] = d /\ \A u \in Token : u # s => session'[u] = session[u]
        /\ session' \in [Token -> SessionRecord]
    BY <1>1, <1>5, <2>7 DEF SessionInv, DocumentInv, ValueTypes
  <2>9. ValueTypes'
    BY <1>2, <1>3, <2>6, <2>8 DEF SessionInv, DocumentInv, ValueTypes
  <2>10. IsExchanged(s, d, at)
    BY <1>1, <1>5, <2>3, <2>5, <2>7 DEF IsExchanged
  <2>11. DocumentInv'
    <3>1. session' = [session EXCEPT ![s] = d] /\ IssueTokens(exp, at)
      BY <1>5
    <3> QED
      BY <1>1, <2>1, <2>4, <2>7, <2>9, <2>10, <3>1, IssuedDocument DEF SessionInv
  <2>12. ASSUME NEW u \in Token PROVE Outlives(u)
    <3>1. CASE u = s
      BY <2>3, <2>4, <2>7, <2>8, <3>1 DEF Outlives, Present
    <3>2. CASE u # s
      <4>1. session'[u] = session[u] /\ session[u] \in SessionRecord
        BY <2>8, <3>2 DEF SessionInv, DocumentInv, ValueTypes
      <4>2. session[u].exp \in Nat
        BY <4>1, Times DEF SessionRecord
      <4> QED
        BY <4>1, <4>2 DEF Outlives, Present
    <3> QED
      BY <3>1, <3>2
  <2>13. CallInv'
    BY <1>2, <1>3, <2>9, <2>12, CallStep
  <2> QED
    BY <2>11, <2>13 DEF SessionInv
<1> QED
  BY <1>4, <1>5 DEF SwapTokens

-----------------------------------------------------------------------------
LEMMA SessionStep == SessionInv /\ [SessionNext]_sessionVars => SessionInv'
<1> SUFFICES ASSUME SessionInv, [SessionNext]_sessionVars PROVE SessionInv'
  OBVIOUS
<1>1. CASE UNCHANGED sessionVars
  BY <1>1, SessionStutterKeeps
<1>2. CASE SessionTick
  BY <1>2, TickKeeps
<1>3. ASSUME NEW s \in Token, NEW t \in Token, RevokeSession(s, t) PROVE SessionInv'
  BY <1>3, RevokeSessionKeeps
<1>4. ASSUME NEW r \in Caller, NEW k \in Ticket, ExchangeTicket(r, k) PROVE SessionInv'
  BY <1>4, ExchangeTicketKeeps
<1>5. ASSUME NEW r \in Caller,
             \/ RefuseTenant(r) \/ CreateSession(r) \/ RespondWithAccounts(r) \/ UndoExchange(r)
             \/ LoginNative(r) \/ RotatePassword(r) \/ RevokeAllOfCredential(r) \/ Touch(r) \/ SwapTokens(r)
      PROVE  SessionInv'
  BY <1>5, RefuseTenantKeeps, CreateSessionKeeps, RespondKeeps, UndoExchangeKeeps, LoginKeeps, RotatePasswordKeeps,
     RevokeAllKeeps, TouchKeeps, SwapTokensKeeps
<1>6. ASSUME NEW r \in Caller, NEW s \in Token, NEW t \in Token,
             Authenticate(r, s, t) \/ ReadForRefresh(r, s, t) \/ ReadForUpgrade(r, s, t)
      PROVE  SessionInv'
  <2>1. CASE Authenticate(r, s, t)
    BY <2>1, ReadingKeeps DEF Authenticate, Accepts, HasToken
  <2>2. CASE ReadForRefresh(r, s, t)
    BY <2>2, ReadingKeeps DEF ReadForRefresh
  <2>3. CASE ReadForUpgrade(r, s, t)
    BY <2>3, ReadingKeeps DEF ReadForUpgrade
  <2> QED
    BY <1>6, <2>1, <2>2, <2>3
<1> QED
  BY <1>1, <1>2, <1>3, <1>4, <1>5, <1>6 DEF SessionNext

(***************************************************************************)
(* SessionInv is an invariant of auth.service.js for every number of       *)
(* requests, tickets and tokens, and every length of life.                 *)
(***************************************************************************)
THEOREM SessionInvariant == SessionSpec => []SessionInv
<1>1. SessionInit => SessionInv
  BY InitSessionInv
<1>2. SessionInv /\ [SessionNext]_sessionVars => SessionInv'
  BY SessionStep
<1> QED
  BY <1>1, <1>2, PTL DEF SessionSpec

LEMMA AtMostOne ==
  ASSUME NEW S, \A x, y \in S : x = y
  PROVE  Cardinality(S) <= 1
<1>1. CASE S = {}
  BY <1>1, FS_EmptySet
<1>2. CASE S # {}
  <2>1. PICK x : x \in S
    BY <1>2
  <2>2. S = {x}
    BY <2>1
  <2> QED
    BY <2>2, FS_Singleton
<1> QED
  BY <1>1, <1>2

LEMMA SessionInvIsSound == SessionInv => SessionsAreSound
<1> SUFFICES ASSUME SessionInv PROVE SessionsAreSound
  OBVIOUS
<1>1. SessionTypeOK
  BY DEF SessionInv, DocumentInv, ValueTypes, DocumentsOK, Present, SessionTypeOK
<1>2. TicketGivesOneSession
  <2> SUFFICES ASSUME NEW k \in Ticket
               PROVE  Cardinality({s \in Token : session[s].source = k /\ s \in given}) <= 1
    BY DEF TicketGivesOneSession
  <2>1. \A s, u \in given : session[s].source = k /\ session[u].source = k => u = s
    BY DEF SessionInv, CallInv, TicketsInHand
  <2> QED
    BY <2>1, AtMostOne
<1>3. RefreshTokenIsUsedOnce
  <2> SUFFICES ASSUME NEW t \in Token PROVE Cardinality(successors[t]) <= 1
    BY DEF RefreshTokenIsUsedOnce
  <2>1. \A x, y \in successors[t] : x = y
    BY DEF SessionInv, DocumentInv, ExchangedIsGone
  <2> QED
    BY <2>1, AtMostOne
<1>4. OldTokenIsNotExtended
  BY DEF SessionInv, DocumentInv, PreviousOK, OldTokenIsNotExtended
<1>5. RotationEndsSessions
  BY DEF SessionInv, CallInv, RotationOK, Rotating, RotationEndsSessions
<1> QED
  BY <1>1, <1>2, <1>3, <1>4, <1>5 DEF SessionsAreSound

(***************************************************************************)
(* auth.service.js: tickets, tokens and passwords give the sessions they   *)
(* should, and no more.                                                    *)
(***************************************************************************)
THEOREM SessionsAreSoundTheorem == SessionSpec => []SessionsAreSound
<1>1. SessionInv => SessionsAreSound
  BY SessionInvIsSound
<1> QED
  BY <1>1, SessionInvariant, PTL

-----------------------------------------------------------------------------
LEMMA RevokedStays ==
  ASSUME SessionInv, [SessionNext]_sessionVars, NEW s \in Token, session[s].state = "revoked"
  PROVE  session'[s] = session[s]
<1>1. session \in [Token -> SessionRecord]
  BY DEF SessionInv, DocumentInv, ValueTypes
<1>2. ASSUME NEW x \in Token, NEW d, session' = [session EXCEPT ![x] = d], x # s PROVE session'[s] = session[s]
  BY <1>1, <1>2
<1>3. CASE session' = session
  BY <1>3
<1>4. ASSUME NEW r \in Caller, CreateSession(r) PROVE session'[s] = session[s]
  <2>1. CASE session' = session
    BY <2>1
  <2>2. CASE issued < MaxTokens /\ \E d : session' = [session EXCEPT ![issued + 1] = d]
    <3>1. issued + 1 \in Token /\ issued \in Nat
      BY <2>2, SessionConstants DEF SessionInv, DocumentInv, ValueTypes, Token
    <3>2. s <= issued
      BY DEF SessionInv, DocumentInv, DocumentsOK, Present
    <3>3. s # issued + 1
      BY <3>1, <3>2
    <3> QED
      BY <1>1, <2>2, <3>1, <3>3
  <2> QED
    BY <1>4, <2>1, <2>2 DEF CreateSession, IssueTokens
<1>5. ASSUME NEW r \in Caller, Touch(r) PROVE session'[s] = session[s]
  <2>1. call[r].session \in Token
    BY <1>5 DEF Touch, AtStep, SessionInv, CallInv, CallsOK, CallOK
  <2> QED
    BY <1>1, <1>5, <2>1 DEF Touch, Touchable, HasToken
<1>6. ASSUME NEW r \in Caller, SwapTokens(r) PROVE session'[s] = session[s]
  <2>1. call[r].session \in Token
    BY <1>6 DEF SwapTokens, AtStep, SessionInv, CallInv, CallsOK, CallOK
  <2>2. CASE session' = session
    BY <2>2
  <2>3. CASE session[call[r].session].state = "active" /\ \E d : session' = [session EXCEPT ![call[r].session] = d]
    BY <1>1, <2>1, <2>3
  <2> QED
    BY <1>6, <2>2, <2>3 DEF SwapTokens, SwapMatches
<1>7. ASSUME NEW r \in Caller, RevokeAllOfCredential(r) PROVE session'[s] = session[s]
  BY <1>7 DEF RevokeAllOfCredential, Revoked, OfCredential
<1>8. ASSUME NEW u \in Token, NEW t \in Token, RevokeSession(u, t) PROVE session'[s] = session[s]
  BY <1>8 DEF RevokeSession, Revoked, HasToken
<1>9. CASE UNCHANGED sessionVars
  BY <1>9 DEF sessionVars
<1>10. CASE SessionTick
  BY <1>10 DEF SessionTick
<1>11. ASSUME NEW r \in Caller, NEW k \in Ticket, ExchangeTicket(r, k) PROVE session'[s] = session[s]
  BY <1>11 DEF ExchangeTicket
<1>12. ASSUME NEW r \in Caller,
              RefuseTenant(r) \/ RespondWithAccounts(r) \/ UndoExchange(r) \/ LoginNative(r) \/ RotatePassword(r)
       PROVE  session'[s] = session[s]
  BY <1>12 DEF RefuseTenant, RespondWithAccounts, UndoExchange, LoginNative, RotatePassword
<1>13. ASSUME NEW r \in Caller, NEW u \in Token, NEW t \in Token,
              Authenticate(r, u, t) \/ ReadForRefresh(r, u, t) \/ ReadForUpgrade(r, u, t)
       PROVE  session'[s] = session[s]
  BY <1>13 DEF Authenticate, ReadForRefresh, ReadForUpgrade
<1> QED
  BY <1>4, <1>5, <1>6, <1>7, <1>8, <1>9, <1>10, <1>11, <1>12, <1>13 DEF SessionNext

(***************************************************************************)
(* auth.service.js: a revoked session stays as it is, whatever a request   *)
(* read of it before.                                                      *)
(***************************************************************************)
THEOREM RevokedIsFinalTheorem == SessionSpec => RevokedIsFinal
<1>1. SessionInv /\ [SessionNext]_sessionVars
        => [\A s \in Token : session[s].state = "revoked" => session'[s] = session[s]]_sessionVars
  BY RevokedStays
<1> QED
  BY <1>1, SessionInvariant, PTL DEF SessionSpec, RevokedIsFinal
=============================================================================
