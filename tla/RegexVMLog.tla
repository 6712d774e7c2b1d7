----------------------------- MODULE RegexVMLog ------------------------------
(***************************************************************************)
(* Lemmas about the data of RegexVM: capture arrays, the crawl, the        *)
(* grouping stack and the track, whatever the code and the texts.          *)
(*                                                                         *)
(* The stacks of the interpreter carry no types: an instruction that goes  *)
(* forward takes from the grouping stack what the code before it has       *)
(* left there, and one that is undone takes from the track what it pushed  *)
(* itself.  The frame of pc (CodeShapes) gives the kinds of the cells on   *)
(* the grouping stack, and the track is a log.  The log has a moment for   *)
(* the end of each entry, that is the grouping stack and the crawl as they *)
(* were when the entry had been pushed.  Every entry leads from its moment *)
(* back to an earlier one, from which its instruction was carried out.  A  *)
(* jump that a lookaround or an atomic group keeps on the grouping stack   *)
(* names a moment of the log, so that the track may be cut there.          *)
(***************************************************************************)
EXTENDS CodeShapes, FunctionTheorems, SequenceTheorems, FiniteSetTheorems, WellFoundedInduction, TLAPS

----------------------------------------------------------------------------
(* The capture array of a group: captures, and references to them          *)

\* A pair of numbers is an interval of a text of N characters.
Fits(s, l, N) == s >= 0 /\ l >= 0 /\ s + l <= N

\* top[k] is the number of the capture that is left on top after the first k of the n
\* captures and references of an array, 0 if none is left.
IsTops(a, n, top, N) ==
    /\ top \in [0..n -> 0..n]
    /\ top[0] = 0
    /\ \A k \in 1..n :
          \/ top[k] = k /\ Fits(a[2 * k - 1], a[2 * k], N)
          \/ /\ top[k - 1] # 0 /\ top[k] = top[top[k - 1] - 1]
             /\ a[2 * k - 1] = -1 - 2 * top[k] /\ a[2 * k] = -2 - 2 * top[k]
    /\ \A k \in 1..n : top[k] # 0 =>
          top[k] <= k /\ top[top[k]] = top[k] /\ Fits(a[2 * top[k] - 1], a[2 * top[k]], N)

\* Every pair of a capture array is a capture that fits the text, or two references
\* to the capture that is left below the one they take away.
Sound(a, N) ==
    /\ a \in Seq(Int)
    /\ \E n \in Nat : Len(a) = 2 * n /\ \E top : IsTops(a, n, top, N)

\* No captures.
LEMMA NoneSound == ASSUME NEW N \in Nat PROVE Sound(<<>>, N)
<1> DEFINE top == [k \in 0..0 |-> 0]
<1>1. IsTops(<<>>, 0, top, N)
  BY DEF IsTops
<1>2. <<>> \in Seq(Int) /\ Len(<<>>) = 2 * 0
  BY EmptySeq
<1> QED
  BY <1>1, <1>2 DEF Sound

\* What an array with two more numbers holds.
LEMMA PairAdded ==
    ASSUME NEW a \in Seq(Int), NEW n \in Nat, Len(a) = 2 * n, NEW s \in Int, NEW l \in Int
    PROVE  /\ AddMatch(a, s, l) \in Seq(Int)
           /\ Len(AddMatch(a, s, l)) = 2 * (n + 1)
           /\ \A i \in 1..(2 * n) : AddMatch(a, s, l)[i] = a[i]
           /\ AddMatch(a, s, l)[2 * (n + 1) - 1] = s
           /\ AddMatch(a, s, l)[2 * (n + 1)] = l
<1>1. <<s, l>> \in Seq(Int) /\ Len(<<s, l>>) = 2 /\ <<s, l>>[1] = s /\ <<s, l>>[2] = l
  OBVIOUS
<1> DEFINE p == <<s, l>>  b == a \o p
<1>2. /\ b \in Seq(Int) /\ Len(b) = Len(a) + Len(p)
      /\ \A i \in 1..Len(a) : b[i] = a[i]
      /\ \A i \in 1..Len(p) : b[Len(a) + i] = p[i]
  <2> HIDE DEF p
  <2> QED
    BY <1>1, ConcatProperties DEF p
<1>3. b[Len(a) + 1] = s /\ b[Len(a) + 2] = l
  <2>1. 1 \in 1..Len(p) /\ 2 \in 1..Len(p) /\ p[1] = s /\ p[2] = l
    BY <1>1
  <2> HIDE DEF p
  <2> QED
    BY <1>2, <2>1
<1>4. Len(a) + 1 = 2 * (n + 1) - 1 /\ Len(a) + 2 = 2 * (n + 1)
  OBVIOUS
<1> HIDE DEF b
<1>5. b[2 * (n + 1) - 1] = s /\ b[2 * (n + 1)] = l
  BY <1>3, <1>4
<1>6. Len(b) = 2 * (n + 1)
  BY <1>1, <1>2, <1>4
<1> QED
  BY <1>2, <1>5, <1>6 DEF b, AddMatch

\* The entries of the first n pairs of an array of two more numbers.
LEMMA TopsKept ==
    ASSUME NEW a, NEW b, NEW n \in Nat, NEW top, NEW N, IsTops(a, n, top, N),
           \A i \in 1..(2 * n) : b[i] = a[i], NEW t \in 0..(n + 1),
           \/ t = n + 1 /\ Fits(b[2 * (n + 1) - 1], b[2 * (n + 1)], N)
           \/ /\ top[n] # 0 /\ t = top[top[n] - 1]
              /\ b[2 * (n + 1) - 1] = -1 - 2 * t /\ b[2 * (n + 1)] = -2 - 2 * t
    PROVE  \E top2 : IsTops(b, n + 1, top2, N)
<1> DEFINE m == n + 1  top2 == [k \in 0..m |-> IF k = m THEN t ELSE top[k]]
<1>0. /\ top \in [0..n -> 0..n] /\ top[0] = 0
      /\ \A k \in 1..n :
            \/ top[k] = k /\ Fits(a[2 * k - 1], a[2 * k], N)
            \/ /\ top[k - 1] # 0 /\ top[k] = top[top[k - 1] - 1]
               /\ a[2 * k - 1] = -1 - 2 * top[k] /\ a[2 * k] = -2 - 2 * top[k]
      /\ \A k \in 1..n : top[k] # 0 =>
            top[k] <= k /\ top[top[k]] = top[k] /\ Fits(a[2 * top[k] - 1], a[2 * top[k]], N)
  BY DEF IsTops
<1>1. m \in Nat /\ m = n + 1 /\ top2 \in [0..m -> 0..m] /\ top2[0] = 0 /\ top2[m] = t
      /\ \A k \in 0..n : top2[k] = top[k]
  BY <1>0
<1> HIDE DEF m, top2
<1>2. \A k \in 1..n : b[2 * k - 1] = a[2 * k - 1] /\ b[2 * k] = a[2 * k]
  <2> TAKE k \in 1..n
  <2>1. 2 * k - 1 \in 1..(2 * n) /\ 2 * k \in 1..(2 * n)
    OBVIOUS
  <2> QED
    BY <2>1
<1>3. ASSUME NEW k \in 1..m
      PROVE  \/ top2[k] = k /\ Fits(b[2 * k - 1], b[2 * k], N)
             \/ /\ top2[k - 1] # 0 /\ top2[k] = top2[top2[k - 1] - 1]
                /\ b[2 * k - 1] = -1 - 2 * top2[k] /\ b[2 * k] = -2 - 2 * top2[k]
  <2>1. CASE k = m
    <3>1. k - 1 = n /\ top2[k - 1] = top[n] /\ top[n] \in 0..n /\ top2[k] = t
      BY <1>0, <1>1, <2>1
    <3>2. top[n] # 0 => top[n] - 1 \in 0..n
      BY <3>1
    <3>3. top[n] # 0 => top2[top2[k - 1] - 1] = top[top[n] - 1]
      BY <3>1, <3>2, <1>1
    <3> QED
      BY <2>1, <3>1, <3>3, <1>1
  <2>2. CASE k # m
    <3>1. k \in 1..n /\ k - 1 \in 0..n /\ k \in 0..n
      BY <1>1, <2>2
    <3>2. top2[k] = top[k] /\ top2[k - 1] = top[k - 1] /\ top[k - 1] \in 0..n
      BY <1>0, <1>1, <3>1
    <3>3. top[k - 1] # 0 => top[k - 1] - 1 \in 0..n
      BY <3>2
    <3>4. top[k - 1] # 0 => top2[top[k - 1] - 1] = top[top[k - 1] - 1]
      BY <3>3, <1>1
    <3>5. b[2 * k - 1] = a[2 * k - 1] /\ b[2 * k] = a[2 * k]
      BY <1>2, <3>1
    <3> QED
      BY <1>0, <3>1, <3>2, <3>4, <3>5
  <2> QED
    BY <2>1, <2>2
<1>4. ASSUME NEW k \in 1..m, top2[k] # 0
      PROVE  top2[k] <= k /\ top2[top2[k]] = top2[k] /\ Fits(b[2 * top2[k] - 1], b[2 * top2[k]], N)
  <2>1. ASSUME NEW i \in 1..n, top[i] # 0
        PROVE  /\ top[i] \in 1..n /\ top[i] <= i /\ top2[top[i]] = top[i]
               /\ Fits(b[2 * top[i] - 1], b[2 * top[i]], N)
    <3>1. top[i] \in 1..n /\ top[i] \in 0..n
      BY <1>0, <2>1
    <3>2. b[2 * top[i] - 1] = a[2 * top[i] - 1] /\ b[2 * top[i]] = a[2 * top[i]]
      BY <3>1, <1>2
    <3>3. top[i] <= i /\ top[top[i]] = top[i] /\ Fits(a[2 * top[i] - 1], a[2 * top[i]], N)
      BY <1>0, <2>1
    <3>4. top2[top[i]] = top[top[i]]
      BY <1>1, <3>1
    <3> QED
      BY <3>1, <3>2, <3>3, <3>4
  <2>2. CASE k # m
    <3>1. k \in 1..n /\ top2[k] = top[k]
      BY <1>1, <2>2
    <3> QED
      BY <3>1, <2>1, <1>4
  <2>3. CASE k = m /\ t = m
    <3>1. Fits(b[2 * m - 1], b[2 * m], N)
      <4>1. ~(t = top[top[n] - 1] /\ top[n] # 0)
        BY <1>0, <1>1, <2>3
      <4> QED
        BY <4>1, <1>1
    <3> QED
      BY <2>3, <3>1, <1>1
  <2>4. CASE k = m /\ t # m
    <3>1. top[n] # 0 /\ t = top[top[n] - 1]
      BY <1>1, <2>4
    <3>2. top[n] \in 1..n
      BY <1>0, <3>1
    <3> DEFINE i == top[n] - 1
    <3>3. i \in 0..n /\ i <= n
      BY <3>2
    <3>4. top[i] # 0 /\ t = top[i] /\ top2[k] = t
      BY <3>1, <1>4, <1>1, <2>4
    <3>5. i # 0
      BY <3>4, <1>0
    <3> HIDE DEF i
    <3>6. i \in 1..n
      BY <3>3, <3>5
    <3>7. /\ top[i] \in 1..n /\ top[i] <= i /\ top2[top[i]] = top[i]
          /\ Fits(b[2 * top[i] - 1], b[2 * top[i]], N)
      BY <3>4, <3>6, <2>1
    <3> QED
      BY <3>4, <3>7, <2>4, <3>6, <1>1
  <2> QED
    BY <2>2, <2>3, <2>4
<1>5. IsTops(b, m, top2, N)
  BY <1>1, <1>3, <1>4 DEF IsTops
<1> QED
  BY <1>5 DEF m

\* capture: an interval is added.
LEMMA AddSound ==
    ASSUME NEW N \in Nat, NEW a, Sound(a, N), NEW s \in Int, NEW l \in Int, Fits(s, l, N)
    PROVE  Sound(AddMatch(a, s, l), N)
<1>1. a \in Seq(Int)
  BY DEF Sound
<1>2. PICK n \in Nat : Len(a) = 2 * n /\ \E top : IsTops(a, n, top, N)
  BY DEF Sound
<1>3. PICK top : IsTops(a, n, top, N)
  BY <1>2
<1> DEFINE b == AddMatch(a, s, l)
<1>4. /\ b \in Seq(Int) /\ Len(b) = 2 * (n + 1)
      /\ \A i \in 1..(2 * n) : b[i] = a[i]
      /\ b[2 * (n + 1) - 1] = s /\ b[2 * (n + 1)] = l
  BY <1>1, <1>2, PairAdded, SMTT(30)
<1> HIDE DEF b
<1>5. n + 1 \in 0..(n + 1) /\ n + 1 \in Nat /\ Fits(b[2 * (n + 1) - 1], b[2 * (n + 1)], N)
  BY <1>4
<1>6. \E top2 : IsTops(b, n + 1, top2, N)
  BY <1>3, <1>4, <1>5, TopsKept
<1>7. Sound(b, N)
  BY <1>4, <1>5, <1>6 DEF Sound
<1> QED
  BY <1>7 DEF b

\* The array of a group, its length and what is on top of it.
LEMMA SoundTop ==
    ASSUME NEW N \in Nat, NEW a, Sound(a, N)
    PROVE  \E n \in Nat : \E top :
              /\ a \in Seq(Int) /\ Len(a) = 2 * n /\ IsTops(a, n, top, N) /\ top[n] \in 0..n
              /\ Len(a) > 0 <=> n # 0
              /\ IsMatched(a) <=> top[n] # 0
              /\ n # 0 => /\ a[Len(a) - 1] = a[2 * n - 1] /\ a[Len(a)] = a[2 * n]
                          /\ a[2 * n - 1] \in Int /\ a[2 * n] \in Int
                          /\ \/ top[n] = n /\ Fits(a[2 * n - 1], a[2 * n], N)
                             \/ a[2 * n - 1] = -1 - 2 * top[n] /\ a[2 * n] = -2 - 2 * top[n]
              /\ top[n] # 0 => /\ Fits(a[2 * top[n] - 1], a[2 * top[n]], N)
                               /\ MatchIndex(a) = a[2 * top[n] - 1]
                               /\ MatchLength(a) = a[2 * top[n]]
<1>1. a \in Seq(Int)
  BY DEF Sound
<1>2. PICK n \in Nat : Len(a) = 2 * n /\ \E top : IsTops(a, n, top, N)
  BY DEF Sound
<1>3. PICK top : IsTops(a, n, top, N)
  BY <1>2
<1>4. top[n] \in 0..n /\ top[0] = 0
  <2>1. n \in 0..n
    OBVIOUS
  <2> QED
    BY <1>3, <2>1 DEF IsTops
<1>5. Len(a) > 0 <=> n # 0
  BY <1>2
<1>6. n # 0 => /\ a[Len(a) - 1] = a[2 * n - 1] /\ a[Len(a)] = a[2 * n]
               /\ a[2 * n - 1] \in Int /\ a[2 * n] \in Int
               /\ \/ top[n] = n /\ Fits(a[2 * n - 1], a[2 * n], N)
                  \/ a[2 * n - 1] = -1 - 2 * top[n] /\ a[2 * n] = -2 - 2 * top[n]
  <2> SUFFICES ASSUME n # 0
               PROVE  /\ a[Len(a) - 1] = a[2 * n - 1] /\ a[Len(a)] = a[2 * n]
                      /\ a[2 * n - 1] \in Int /\ a[2 * n] \in Int
                      /\ \/ top[n] = n /\ Fits(a[2 * n - 1], a[2 * n], N)
                         \/ a[2 * n - 1] = -1 - 2 * top[n] /\ a[2 * n] = -2 - 2 * top[n]
    OBVIOUS
  <2>1. n \in 1..n /\ 2 * n - 1 \in 1..Len(a) /\ 2 * n \in 1..Len(a)
    BY <1>2
  <2>2. a[2 * n - 1] \in Int /\ a[2 * n] \in Int
    BY <1>1, <2>1
  <2> QED
    BY <1>2, <1>3, <2>1, <2>2 DEF IsTops
<1>7. IsMatched(a) <=> top[n] # 0
  <2>1. CASE n = 0
    BY <1>4, <1>5, <2>1 DEF IsMatched
  <2>2. CASE n # 0
    <3>1. At(a, Len(a) - 1) = a[2 * n]
      BY <1>2 DEF At
    <3>2. a[2 * n] # -2 <=> top[n] # 0
      BY <1>4, <1>6, <2>2, SMTT(30) DEF Fits
    <3> QED
      BY <1>5, <2>2, <3>1, <3>2 DEF IsMatched
  <2> QED
    BY <2>1, <2>2
<1>8. top[n] # 0 => /\ Fits(a[2 * top[n] - 1], a[2 * top[n]], N)
                    /\ MatchIndex(a) = a[2 * top[n] - 1]
                    /\ MatchLength(a) = a[2 * top[n]]
  <2> SUFFICES ASSUME top[n] # 0
               PROVE  /\ Fits(a[2 * top[n] - 1], a[2 * top[n]], N)
                      /\ MatchIndex(a) = a[2 * top[n] - 1]
                      /\ MatchLength(a) = a[2 * top[n]]
    OBVIOUS
  <2>1. n # 0 /\ n \in 1..n
    BY <1>4
  <2>2. Fits(a[2 * top[n] - 1], a[2 * top[n]], N)
    BY <1>3, <2>1 DEF IsTops
  <2>3. At(a, Len(a) - 2) = a[2 * n - 1] /\ At(a, Len(a) - 1) = a[2 * n]
    BY <1>2 DEF At
  <2>4. CASE top[n] = n /\ Fits(a[2 * n - 1], a[2 * n], N)
    BY <2>2, <2>3, <2>4 DEF Fits, MatchIndex, MatchLength, Deref
  <2>5. CASE a[2 * n - 1] = -1 - 2 * top[n] /\ a[2 * n] = -2 - 2 * top[n]
    <3>1. -3 - a[2 * n - 1] + 1 = 2 * top[n] - 1 /\ -3 - a[2 * n] + 1 = 2 * top[n]
      BY <2>5, <1>4
    <3>2. ~(a[2 * n - 1] >= 0) /\ ~(a[2 * n] >= 0)
      BY <2>5, <1>4
    <3>3. Deref(a, a[2 * n - 1]) = a[2 * top[n] - 1] /\ Deref(a, a[2 * n]) = a[2 * top[n]]
      BY <3>1, <3>2 DEF Deref, At
    <3> QED
      BY <2>2, <2>3, <3>3 DEF MatchIndex, MatchLength
  <2> QED
    BY <1>6, <2>1, <2>4, <2>5
<1> QED
  BY <1>1, <1>2, <1>3, <1>4, <1>5, <1>6, <1>7, <1>8

\* balanceMatch: a reference to what was below the last capture.
LEMMA BalanceSound ==
    ASSUME NEW N \in Nat, NEW a, Sound(a, N), IsMatched(a)
    PROVE  Sound(BalanceMatch(a), N)
<1>1. PICK n \in Nat : \E top :
              /\ a \in Seq(Int) /\ Len(a) = 2 * n /\ IsTops(a, n, top, N) /\ top[n] \in 0..n
              /\ top[n] # 0
              /\ n # 0 => /\ a[Len(a) - 1] = a[2 * n - 1]
                          /\ a[2 * n - 1] \in Int /\ a[2 * n] \in Int
                          /\ \/ top[n] = n /\ Fits(a[2 * n - 1], a[2 * n], N)
                             \/ a[2 * n - 1] = -1 - 2 * top[n] /\ a[2 * n] = -2 - 2 * top[n]
  BY SoundTop
<1>2. PICK top :
              /\ a \in Seq(Int) /\ Len(a) = 2 * n /\ IsTops(a, n, top, N) /\ top[n] \in 0..n
              /\ top[n] # 0
              /\ n # 0 => /\ a[Len(a) - 1] = a[2 * n - 1]
                          /\ a[2 * n - 1] \in Int /\ a[2 * n] \in Int
                          /\ \/ top[n] = n /\ Fits(a[2 * n - 1], a[2 * n], N)
                             \/ a[2 * n - 1] = -1 - 2 * top[n] /\ a[2 * n] = -2 - 2 * top[n]
  BY <1>1
<1> DEFINE j == top[n] - 1  t == top[j]
<1>3. n # 0 /\ top[n] \in 1..n /\ j \in 0..n
  <2> DEFINE u == top[n]
  <2>1. u \in 0..n /\ u # 0
    BY <1>2
  <2> HIDE DEF u
  <2>2. n # 0 /\ u \in 1..n /\ u - 1 \in 0..n
    BY <2>1
  <2> QED
    BY <2>2 DEF u
<1>4. top \in [0..n -> 0..n] /\ top[0] = 0 /\ t \in 0..n /\ t \in 0..(n + 1)
  <2>1. top \in [0..n -> 0..n] /\ top[0] = 0
    BY <1>2 DEF IsTops
  <2>2. t \in 0..n
    BY <1>3, <2>1
  <2> HIDE DEF t
  <2> QED
    BY <2>1, <2>2
<1> HIDE DEF j, t
<1>5. Previous(a) = 2 * j - 2
  <2>1. At(a, Len(a) - 2) = a[2 * n - 1]
    BY <1>2, <1>3 DEF At
  <2>2. CASE top[n] = n /\ Fits(a[2 * n - 1], a[2 * n], N)
    <3>1. ~(a[2 * n - 1] < 0)
      BY <1>2, <1>3, <2>2 DEF Fits
    <3> QED
      BY <1>2, <1>3, <2>1, <2>2, <3>1 DEF Previous, j
  <2>3. CASE a[2 * n - 1] = -1 - 2 * top[n] /\ a[2 * n] = -2 - 2 * top[n]
    <3> DEFINE u == top[n]
    <3>1. u \in 1..n /\ At(a, Len(a) - 2) = -1 - 2 * u /\ j = u - 1
      BY <1>3, <2>1, <2>3 DEF j
    <3> HIDE DEF u
    <3>2. At(a, Len(a) - 2) < 0 /\ -3 - (-1 - 2 * u) - 2 = 2 * j - 2
      BY <3>1
    <3> QED
      BY <3>1, <3>2 DEF Previous
  <2> QED
    BY <1>2, <1>3, <2>2, <2>3
<1>6. BalanceMatch(a) = AddMatch(a, -1 - 2 * t, -2 - 2 * t)
  <2>1. CASE j = 0
    <3>1. t = 0 /\ Previous(a) = -2
      BY <1>4, <1>5, <2>1 DEF t
    <3> QED
      BY <3>1 DEF BalanceMatch
  <2>2. CASE j # 0
    <3>1. j \in 1..n
      BY <1>3, <2>2
    <3>2. /\ 2 * j - 2 >= 0 /\ At(a, Previous(a)) = a[2 * j - 1] /\ At(a, Previous(a) + 1) = a[2 * j]
      BY <1>5, <3>1 DEF At
    <3>3. \/ t = j /\ Fits(a[2 * j - 1], a[2 * j], N)
          \/ a[2 * j - 1] = -1 - 2 * t /\ a[2 * j] = -2 - 2 * t
      BY <1>2, <3>1 DEF IsTops, t
    <3>4. CASE t = j /\ Fits(a[2 * j - 1], a[2 * j], N)
      <4>1. a[2 * j - 1] \in Int
        <5>1. 2 * j - 1 \in 1..Len(a)
          BY <1>2, <3>1
        <5> QED
          BY <1>2, <5>1
      <4>2. ~(At(a, Previous(a)) < 0)
        BY <3>2, <3>4, <4>1 DEF Fits
      <4>3. BalanceMatch(a) = AddMatch(a, -3 - Previous(a), -4 - Previous(a))
        BY <4>2 DEF BalanceMatch
      <4>4. -3 - Previous(a) = -1 - 2 * t /\ -4 - Previous(a) = -2 - 2 * t
        BY <1>5, <3>1, <3>4
      <4> QED
        BY <4>3, <4>4
    <3>5. CASE a[2 * j - 1] = -1 - 2 * t /\ a[2 * j] = -2 - 2 * t
      <4>1. At(a, Previous(a)) < 0 /\ Previous(a) >= 0
        BY <3>2, <3>5, <1>4, <1>5
      <4> QED
        BY <3>2, <3>5, <4>1 DEF BalanceMatch
    <3> QED
      BY <3>3, <3>4, <3>5
  <2> QED
    BY <2>1, <2>2
<1> DEFINE b == BalanceMatch(a)
<1>7. /\ b \in Seq(Int) /\ Len(b) = 2 * (n + 1)
      /\ \A i \in 1..(2 * n) : b[i] = a[i]
      /\ b[2 * (n + 1) - 1] = -1 - 2 * t /\ b[2 * (n + 1)] = -2 - 2 * t
  <2> DEFINE x == -1 - 2 * t  y == -2 - 2 * t
  <2>1. x \in Int /\ y \in Int /\ b = AddMatch(a, x, y)
    BY <1>4, <1>6
  <2> HIDE DEF x, y, b
  <2>2. /\ AddMatch(a, x, y) \in Seq(Int)
        /\ Len(AddMatch(a, x, y)) = 2 * (n + 1)
        /\ \A i \in 1..(2 * n) : AddMatch(a, x, y)[i] = a[i]
        /\ AddMatch(a, x, y)[2 * (n + 1) - 1] = x
        /\ AddMatch(a, x, y)[2 * (n + 1)] = y
    <3>1. a \in Seq(Int) /\ Len(a) = 2 * n
      BY <1>2
    <3> QED
      BY <2>1, <3>1, PairAdded
  <2>3. /\ b \in Seq(Int) /\ Len(b) = 2 * (n + 1)
        /\ \A i \in 1..(2 * n) : b[i] = a[i]
        /\ b[2 * (n + 1) - 1] = x /\ b[2 * (n + 1)] = y
    BY <2>1, <2>2
  <2> QED
    BY <2>3 DEF x, y
<1> HIDE DEF b
<1>8. t = top[top[n] - 1] /\ top[n] # 0 /\ n + 1 \in Nat
  BY <1>2 DEF t, j
<1>9. \E top2 : IsTops(b, n + 1, top2, N)
  BY <1>2, <1>4, <1>7, <1>8, TopsKept
<1>10. Sound(b, N)
  BY <1>7, <1>8, <1>9 DEF Sound
<1> QED
  BY <1>10 DEF b

\* removeMatch: an earlier array of the group.
LEMMA RemoveSound ==
    ASSUME NEW N \in Nat, NEW a, Sound(a, N), NEW k \in Nat, 2 * k <= Len(a)
    PROVE  Sound(RemoveMatches(a, k), N)
<1>1. a \in Seq(Int)
  BY DEF Sound
<1>2. PICK n \in Nat : Len(a) = 2 * n /\ \E top : IsTops(a, n, top, N)
  BY DEF Sound
<1>3. PICK top : IsTops(a, n, top, N)
  BY <1>2
<1> DEFINE m == n - k  b == RemoveMatches(a, k)  top2 == [i \in 0..m |-> top[i]]
<1>4. m \in Nat /\ m <= n /\ Len(a) - 2 * k = 2 * m /\ 2 * m \in 0..Len(a)
  BY <1>2
<1>5. b \in Seq(Int) /\ Len(b) = 2 * m /\ \A i \in 1..(2 * m) : b[i] = a[i]
  <2> DEFINE l == 2 * m
  <2>1. l \in Nat /\ l <= Len(a) /\ b = SubSeq(a, 1, l)
    BY <1>4 DEF RemoveMatches
  <2> HIDE DEF l, b
  <2>2. \A i \in 1..l : a[i] \in Int
    BY <1>1, <2>1
  <2>3. /\ SubSeq(a, 1, l) \in Seq(Int)
        /\ Len(SubSeq(a, 1, l)) = IF 1 <= l THEN l - 1 + 1 ELSE 0
        /\ \A i \in 1..(l - 1 + 1) : SubSeq(a, 1, l)[i] = a[1 + i - 1]
    BY <1>1, <2>1, <2>2, SubSeqProperties
  <2>4. b \in Seq(Int) /\ Len(b) = l /\ \A i \in 1..l : b[i] = a[i]
    BY <2>1, <2>3
  <2> QED
    BY <2>4 DEF l
<1> HIDE DEF m, b
<1>6. /\ top \in [0..n -> 0..n] /\ top[0] = 0
      /\ \A i \in 1..n :
            \/ top[i] = i /\ Fits(a[2 * i - 1], a[2 * i], N)
            \/ /\ top[i - 1] # 0 /\ top[i] = top[top[i - 1] - 1]
               /\ a[2 * i - 1] = -1 - 2 * top[i] /\ a[2 * i] = -2 - 2 * top[i]
      /\ \A i \in 1..n : top[i] # 0 =>
            top[i] <= i /\ top[top[i]] = top[i] /\ Fits(a[2 * top[i] - 1], a[2 * top[i]], N)
  BY <1>3 DEF IsTops
<1>7. \A i \in 0..m : i \in 0..n /\ top[i] \in 0..i
  <2> TAKE i \in 0..m
  <2>1. i \in 0..n /\ top[i] \in 0..n
    BY <1>4, <1>6
  <2>2. CASE i = 0
    BY <1>6, <2>1, <2>2
  <2>3. CASE i # 0
    <3>1. i \in 1..n
      BY <2>1, <2>3
    <3> QED
      BY <1>6, <2>1, <3>1
  <2> QED
    BY <2>2, <2>3
<1>8. top2 \in [0..m -> 0..m] /\ \A i \in 0..m : top2[i] = top[i]
  BY <1>4, <1>7
<1> HIDE DEF top2
<1>9. \A i \in 1..m : b[2 * i - 1] = a[2 * i - 1] /\ b[2 * i] = a[2 * i]
  <2> TAKE i \in 1..m
  <2>1. 2 * i - 1 \in 1..(2 * m) /\ 2 * i \in 1..(2 * m)
    BY <1>4
  <2> QED
    BY <1>5, <2>1
<1>10. top2[0] = 0
  BY <1>4, <1>6, <1>8
<1>11. ASSUME NEW i \in 1..m
       PROVE  /\ \/ top2[i] = i /\ Fits(b[2 * i - 1], b[2 * i], N)
                 \/ /\ top2[i - 1] # 0 /\ top2[i] = top2[top2[i - 1] - 1]
                    /\ b[2 * i - 1] = -1 - 2 * top2[i] /\ b[2 * i] = -2 - 2 * top2[i]
              /\ top2[i] # 0 =>
                    top2[i] <= i /\ top2[top2[i]] = top2[i] /\ Fits(b[2 * top2[i] - 1], b[2 * top2[i]], N)
  <2>1. i \in 0..m /\ i - 1 \in 0..m /\ i \in 1..n
    BY <1>4
  <2>2. top[i] \in 0..i /\ top[i - 1] \in 0..(i - 1) /\ top2[i] = top[i] /\ top2[i - 1] = top[i - 1]
    BY <1>7, <1>8, <2>1
  <2>3. top[i - 1] # 0 => top[i - 1] - 1 \in 0..m
    <3> DEFINE u == top[i - 1]
    <3>1. u \in 0..(i - 1)
      BY <2>2
    <3> HIDE DEF u
    <3>2. u # 0 => u - 1 \in 0..m
      BY <1>4, <3>1
    <3> QED
      BY <3>2 DEF u
  <2>4. top[i - 1] # 0 => top2[top[i - 1] - 1] = top[top[i - 1] - 1]
    BY <1>8, <2>3
  <2>5. top[i] # 0 => top[i] \in 1..m /\ top[i] \in 0..m
    <3> DEFINE u == top[i]
    <3>1. u \in 0..i
      BY <2>2
    <3> HIDE DEF u
    <3>2. u # 0 => u \in 1..m /\ u \in 0..m
      BY <1>4, <3>1
    <3> QED
      BY <3>2 DEF u
  <2>6. top[i] # 0 => /\ top2[top[i]] = top[top[i]]
                      /\ b[2 * top[i] - 1] = a[2 * top[i] - 1] /\ b[2 * top[i]] = a[2 * top[i]]
    BY <1>8, <1>9, <2>5
  <2>7. b[2 * i - 1] = a[2 * i - 1] /\ b[2 * i] = a[2 * i]
    BY <1>9
  <2> QED
    BY <1>6, <2>1, <2>2, <2>4, <2>6, <2>7
<1>12. IsTops(b, m, top2, N)
  BY <1>8, <1>10, <1>11 DEF IsTops
<1>13. Sound(b, N)
  BY <1>4, <1>5, <1>12 DEF Sound
<1> QED
  BY <1>13 DEF b

\* Every capture is an interval.
LEMMA SoundIntervals ==
    ASSUME NEW N \in Nat, NEW a, Sound(a, N), NEW i \in 0..(Count(a) - 1), At(a, 2 * i) >= 0
    PROVE  At(a, 2 * i + 1) >= 0 /\ At(a, 2 * i) + At(a, 2 * i + 1) <= N
<1>1. a \in Seq(Int)
  BY DEF Sound
<1>2. PICK n \in Nat : Len(a) = 2 * n /\ \E top : IsTops(a, n, top, N)
  BY DEF Sound
<1>3. PICK top : IsTops(a, n, top, N)
  BY <1>2
<1>4. Count(a) = n
  BY <1>2 DEF Count
<1> DEFINE k == i + 1
<1>5. k \in 1..n /\ k \in 0..n /\ At(a, 2 * i) = a[2 * k - 1] /\ At(a, 2 * i + 1) = a[2 * k]
  BY <1>4 DEF At
<1> HIDE DEF k
<1>6. top[k] \in 0..n
  BY <1>3, <1>5 DEF IsTops
<1>7. \/ Fits(a[2 * k - 1], a[2 * k], N)
      \/ a[2 * k - 1] = -1 - 2 * top[k]
  BY <1>3, <1>5 DEF IsTops
<1> QED
  BY <1>5, <1>6, <1>7 DEF Fits

----------------------------------------------------------------------------
(* What tidy leaves of it                                                  *)

\* The least number of a set.
LEMMA LeastOf ==
    ASSUME NEW S \in SUBSET Nat, S # {}
    PROVE  \E m \in S : \A i \in S : m <= i
<1> DEFINE R == OpToRel(<, Nat)
<1>1. \A g, h \in Nat : g < h => <<g, h>> \in R
  BY DEF OpToRel
<1>2. IsWellFoundedOn(R, Nat)
  BY NatLessThanWellFounded
<1> HIDE DEF R
<1>3. PICK m \in S : \A i \in S : ~(<<i, m>> \in R)
  BY <1>2, WFMin
<1>4. ASSUME NEW i \in S PROVE m <= i
  <2>1. i \in Nat /\ m \in Nat /\ ~(<<i, m>> \in R)
    BY <1>3
  <2>2. ~(i < m)
    BY <1>1, <2>1
  <2> QED
    BY <2>1, <2>2
<1> QED
  BY <1>4

\* What tidy keeps of n values, given what it keeps of fewer.
LEMMA KeptBy ==
    ASSUME NEW a, Len(a) \in Nat
    PROVE  /\ Kept(a)[0] = <<>>
           /\ \A n \in 1..Len(a) :
                Kept(a)[n] = IF a[n] < 0 THEN Front(Kept(a)[n - 1]) ELSE Append(Kept(a)[n - 1], a[n])
<1> DEFINE Step(q, v) == IF v < 0 THEN Front(q) ELSE Append(q, v)
           Is(f, m) == f = [n \in 0..m |-> IF n = 0 THEN <<>> ELSE Step(f[n - 1], a[n])]
           S == {m \in Nat : ~\E f : Is(f, m)}
<1>1. S = {}
  <2> SUFFICES ASSUME S # {} PROVE FALSE
    OBVIOUS
  <2>1. PICK m \in S : \A i \in S : m <= i
    <3>1. S \in SUBSET Nat
      OBVIOUS
    <3> HIDE DEF S
    <3> QED
      BY <3>1, LeastOf
  <2>2. m \in Nat /\ ~\E f : Is(f, m)
    OBVIOUS
  <2>3. CASE m = 0
    <3> DEFINE f == [n \in 0..0 |-> <<>>]
    <3>1. Is(f, 0)
      OBVIOUS
    <3> QED
      BY <2>2, <2>3, <3>1
  <2>4. CASE m # 0
    <3>1. m - 1 \in Nat /\ m - 1 \notin S
      <4>1. m - 1 \in Nat /\ ~(m <= m - 1)
        BY <2>2, <2>4
      <4> HIDE DEF S
      <4> QED
        BY <2>1, <4>1
    <3>2. PICK f : Is(f, m - 1)
      BY <3>1
    <3> DEFINE g == [n \in 0..m |-> IF n = m THEN Step(f[m - 1], a[m]) ELSE f[n]]
    <3>3. \A n \in 0..m : g[n] = IF n = 0 THEN <<>> ELSE Step(g[n - 1], a[n])
      <4> HIDE DEF Step
      <4> SUFFICES ASSUME NEW n \in 0..m PROVE g[n] = IF n = 0 THEN <<>> ELSE Step(g[n - 1], a[n])
        OBVIOUS
      <4>0. \A i \in 0..(m - 1) : f[i] = IF i = 0 THEN <<>> ELSE Step(f[i - 1], a[i])
        BY <3>2
      <4>1. CASE n = m
        <5>1. g[n] = Step(f[m - 1], a[m]) /\ g[n - 1] = f[m - 1]
          BY <2>2, <2>4, <4>1
        <5> QED
          BY <2>4, <4>1, <5>1
      <4>2. CASE n # m /\ n # 0
        <5>1. n \in 0..(m - 1) /\ n - 1 \in 0..m /\ n - 1 # m
          BY <2>2, <4>2
        <5>2. g[n] = f[n] /\ g[n - 1] = f[n - 1]
          BY <4>2, <5>1
        <5> QED
          BY <4>0, <4>2, <5>1, <5>2
      <4>3. CASE n # m /\ n = 0
        <5>1. n \in 0..(m - 1) /\ g[n] = f[n]
          BY <2>2, <4>3
        <5> QED
          BY <4>0, <4>3, <5>1
      <4> QED
        BY <4>1, <4>2, <4>3
    <3>4. g = [n \in 0..m |-> g[n]]
      OBVIOUS
    <3>5. [n \in 0..m |-> g[n]] = [n \in 0..m |-> IF n = 0 THEN <<>> ELSE Step(g[n - 1], a[n])]
      <4> HIDE DEF g, Step
      <4> QED
        BY <3>3
    <3>6. Is(g, m)
      <4> HIDE DEF g, Step
      <4> QED
        BY <3>4, <3>5
    <3> HIDE DEF g, Is
    <3> QED
      BY <2>2, <3>6
  <2> QED
    BY <2>3, <2>4
<1>2. \E f : Is(f, Len(a))
  <2>1. Len(a) \notin S
    <3> HIDE DEF S
    <3> QED
      BY <1>1
  <2> HIDE DEF Is
  <2> QED
    BY <2>1
<1>3. Kept(a) = CHOOSE f : Is(f, Len(a))
  BY DEF Kept
<1>4. Is(Kept(a), Len(a))
  <2> HIDE DEF Is
  <2> QED
    BY <1>2, <1>3
<1> HIDE DEF S
<1>5. \A n \in 0..Len(a) : Kept(a)[n] = IF n = 0 THEN <<>> ELSE Step(Kept(a)[n - 1], a[n])
  <2> HIDE DEF Step
  <2> QED
    BY <1>4
<1>6. 0 \in 0..Len(a) /\ \A n \in 1..Len(a) : n \in 0..Len(a) /\ n # 0
  OBVIOUS
<1> HIDE DEF Is
<1> QED
  BY <1>5, <1>6

\* Two values are kept.
LEMMA TwoKept ==
    ASSUME NEW q \in Seq(Int), NEW s \in Int, NEW l \in Int
    PROVE  /\ Append(Append(q, s), l) = q \o <<s, l>>
           /\ q \o <<s, l>> \in Seq(Int) /\ Len(q \o <<s, l>>) = Len(q) + 2
           /\ (q \o <<s, l>>)[Len(q) + 1] = s /\ (q \o <<s, l>>)[Len(q) + 2] = l
           /\ Front(Front(q \o <<s, l>>)) = q
<1> DEFINE p == <<s, l>>  t == q \o p  u == Append(Append(q, s), l)
<1>1. p \in Seq(Int) /\ Len(p) = 2 /\ p[1] = s /\ p[2] = l /\ Len(q) \in Nat
  OBVIOUS
<1>2. /\ t \in Seq(Int) /\ Len(t) = Len(q) + 2
      /\ \A i \in 1..Len(q) : t[i] = q[i]
      /\ t[Len(q) + 1] = s /\ t[Len(q) + 2] = l
  <2> HIDE DEF p, u
  <2>1. /\ t \in Seq(Int) /\ Len(t) = Len(q) + Len(p)
        /\ \A i \in 1..Len(q) : t[i] = q[i]
        /\ \A i \in 1..Len(p) : t[Len(q) + i] = p[i]
    <3>1. p \in Seq(Int)
      BY <1>1
    <3> QED
      BY <3>1, ConcatProperties
  <2>2. 1 \in 1..Len(p) /\ 2 \in 1..Len(p)
    BY <1>1
  <2> HIDE DEF t
  <2> QED
    BY <1>1, <2>1, <2>2
<1>3. /\ u \in Seq(Int) /\ Len(u) = Len(q) + 2
      /\ \A i \in 1..Len(q) : u[i] = q[i]
      /\ u[Len(q) + 1] = s /\ u[Len(q) + 2] = l
  OBVIOUS
<1>4. u = t
  <2> HIDE DEF u, t
  <2>1. ASSUME NEW i \in 1..Len(t) PROVE u[i] = t[i]
    <3>1. i \in 1..Len(q) \/ i = Len(q) + 1 \/ i = Len(q) + 2
      BY <1>1, <1>2
    <3> QED
      BY <3>1, <1>2, <1>3
  <2> QED
    BY <1>2, <1>3, <2>1, SeqEqual
<1>5. Front(Front(t)) = q
  <2> HIDE DEF t
  <2> DEFINE n == Len(q)  v == Front(t)  w == Front(v)
  <2>1. n \in Nat /\ Len(t) = n + 2 /\ t \in Seq(Int)
    BY <1>1, <1>2
  <2>2. v \in Seq(Int) /\ Len(v) = n + 1 /\ \A i \in 1..(n + 1) : v[i] = t[i]
    <3>1. \A i \in 1..(n + 1) : t[i] \in Int
      BY <2>1
    <3>2. v = SubSeq(t, 1, n + 1)
      BY <2>1 DEF Front
    <3> HIDE DEF v, n
    <3>3. /\ SubSeq(t, 1, n + 1) \in Seq(Int)
          /\ Len(SubSeq(t, 1, n + 1)) = IF 1 <= n + 1 THEN n + 1 - 1 + 1 ELSE 0
          /\ \A i \in 1..(n + 1 - 1 + 1) : SubSeq(t, 1, n + 1)[i] = t[1 + i - 1]
      BY <2>1, <3>1, SubSeqProperties
    <3> QED
      BY <2>1, <3>2, <3>3
  <2> HIDE DEF v
  <2>3. w \in Seq(Int) /\ Len(w) = n /\ \A i \in 1..n : w[i] = v[i]
    <3>1. \A i \in 1..n : v[i] \in Int
      BY <2>1, <2>2
    <3>2. w = SubSeq(v, 1, n)
      BY <2>1, <2>2 DEF Front
    <3> HIDE DEF w, n
    <3>3. /\ SubSeq(v, 1, n) \in Seq(Int)
          /\ Len(SubSeq(v, 1, n)) = IF 1 <= n THEN n - 1 + 1 ELSE 0
          /\ \A i \in 1..(n - 1 + 1) : SubSeq(v, 1, n)[i] = v[1 + i - 1]
      BY <2>1, <2>2, <3>1, SubSeqProperties
    <3> QED
      BY <2>1, <3>2, <3>3
  <2>4. \A i \in 1..n : w[i] = q[i]
    BY <1>2, <2>1, <2>2, <2>3
  <2> HIDE DEF w
  <2>5. w = q
    BY <2>1, <2>3, <2>4, SeqEqual
  <2> QED
    BY <2>5 DEF w, v
<1> QED
  BY <1>2, <1>4, <1>5

\* What tidy keeps of the first k captures and references: nothing if no capture is
\* left, or else the capture on top, above what was there before it.
IsKept(a, top, k) ==
    /\ Kept(a)[2 * k] \in Seq(Int)
    /\ \E d \in Nat : Len(Kept(a)[2 * k]) = 2 * d
    /\ top[k] = 0 => Kept(a)[2 * k] = <<>>
    /\ top[k] # 0 => /\ Kept(a)[2 * (top[k] - 1)] \in Seq(Int)
                     /\ \E d \in Nat : Len(Kept(a)[2 * (top[k] - 1)]) = 2 * d
                     /\ Kept(a)[2 * k] = Kept(a)[2 * (top[k] - 1)] \o <<a[2 * top[k] - 1], a[2 * top[k]]>>

\* By induction on the captures and references, of which a reference goes back to an
\* earlier one.
LEMMA KeptPairs ==
    ASSUME NEW N \in Nat, NEW a \in Seq(Int), NEW n \in Nat, Len(a) = 2 * n, NEW top, IsTops(a, n, top, N),
           NEW k \in 0..n
    PROVE  IsKept(a, top, k)
<1> DEFINE K(i) == Kept(a)[2 * i]
           Even(q) == q \in Seq(Int) /\ \E d \in Nat : Len(q) = 2 * d
           Fine(i) == /\ Even(K(i))
                      /\ top[i] = 0 => K(i) = <<>>
                      /\ top[i] # 0 => /\ Even(K(top[i] - 1))
                                       /\ K(i) = K(top[i] - 1) \o <<a[2 * top[i] - 1], a[2 * top[i]]>>
           S == {i \in 0..n : ~Fine(i)}
<1>1. /\ top \in [0..n -> 0..n] /\ top[0] = 0
      /\ \A i \in 1..n :
            \/ top[i] = i /\ Fits(a[2 * i - 1], a[2 * i], N)
            \/ /\ top[i - 1] # 0 /\ top[i] = top[top[i - 1] - 1]
               /\ a[2 * i - 1] = -1 - 2 * top[i] /\ a[2 * i] = -2 - 2 * top[i]
      /\ \A i \in 1..n : top[i] # 0 => top[i] <= i
  BY DEF IsTops
<1>2. /\ Kept(a)[0] = <<>>
      /\ \A i \in 1..Len(a) :
           Kept(a)[i] = IF a[i] < 0 THEN Front(Kept(a)[i - 1]) ELSE Append(Kept(a)[i - 1], a[i])
  <2>1. Len(a) \in Nat
    OBVIOUS
  <2> HIDE DEF K, Even, Fine, S
  <2> QED
    BY <2>1, KeptBy
<1>3. Fine(0)
  <2>1. K(0) = <<>> /\ top[0] = 0
    BY <1>1, <1>2
  <2>2. Even(<<>>)
    <3>1. <<>> \in Seq(Int) /\ Len(<<>>) = 2 * 0 /\ 0 \in Nat
      BY EmptySeq
    <3> QED
      BY <3>1
  <2> HIDE DEF K, Even
  <2> QED
    BY <2>1, <2>2
<1>4. ASSUME NEW i \in 1..n, \A j \in 0..(i - 1) : Fine(j)
      PROVE  Fine(i)
  <2> DEFINE s == a[2 * i - 1]  l == a[2 * i]  q == K(i - 1)
  <2>1. /\ 2 * i - 1 \in 1..Len(a) /\ 2 * i \in 1..Len(a) /\ 2 * i - 1 - 1 = 2 * (i - 1)
        /\ i - 1 \in 0..(i - 1) /\ i \in Nat
    OBVIOUS
  <2>2. s \in Int /\ l \in Int
    BY <2>1
  <2>3. Fine(i - 1) /\ Even(q)
    BY <1>4, <2>1
  <2>4. Kept(a)[2 * i - 1] = IF s < 0 THEN Front(q) ELSE Append(q, s)
    <3>1. Kept(a)[2 * i - 1] = IF s < 0 THEN Front(Kept(a)[2 * i - 1 - 1]) ELSE Append(Kept(a)[2 * i - 1 - 1], s)
      BY <1>2, <2>1
    <3>2. Kept(a)[2 * i - 1 - 1] = q
      BY <2>1
    <3> QED
      BY <3>1, <3>2
  <2>5. K(i) = IF l < 0 THEN Front(Kept(a)[2 * i - 1]) ELSE Append(Kept(a)[2 * i - 1], l)
    BY <1>2, <2>1
  <2>6. CASE top[i] = i /\ Fits(s, l, N)
    <3>1. ~(s < 0) /\ ~(l < 0)
      BY <2>2, <2>6 DEF Fits
    <3>2. K(i) = Append(Append(q, s), l)
      BY <2>4, <2>5, <3>1
    <3>3. /\ Append(Append(q, s), l) = q \o <<s, l>>
          /\ q \o <<s, l>> \in Seq(Int) /\ Len(q \o <<s, l>>) = Len(q) + 2
      <4>1. q \in Seq(Int)
        BY <2>3
      <4> HIDE DEF q, s, l
      <4>2. Append(Append(q, s), l) = q \o <<s, l>>
        BY <2>2, <4>1, TwoKept, ZenonT(60)
      <4>3. q \o <<s, l>> \in Seq(Int) /\ Len(q \o <<s, l>>) = Len(q) + 2
        BY <2>2, <4>1, TwoKept, ZenonT(60)
      <4> QED
        BY <4>2, <4>3
    <3>4. Even(K(i))
      <4>1. PICK d \in Nat : Len(q) = 2 * d
        BY <2>3
      <4>2. d + 1 \in Nat /\ Len(q) + 2 = 2 * (d + 1)
        BY <4>1
      <4>3. K(i) \in Seq(Int) /\ Len(K(i)) = 2 * (d + 1)
        <5> HIDE DEF K, q, s, l
        <5> QED
          BY <3>2, <3>3, <4>2
      <4> QED
        BY <4>2, <4>3
    <3>5. K(i) = K(top[i] - 1) \o <<a[2 * top[i] - 1], a[2 * top[i]]>>
      <4>1. K(i) = q \o <<s, l>>
        <5> HIDE DEF K, q, s, l
        <5> QED
          BY <3>2, <3>3
      <4> HIDE DEF K
      <4> QED
        BY <2>6, <4>1
    <3>6. Even(K(top[i] - 1))
      <4> HIDE DEF Even, K
      <4> QED
        BY <2>3, <2>6
    <3>7. top[i] # 0
      BY <2>6
    <3> HIDE DEF Even, K
    <3> QED
      BY <3>4, <3>5, <3>6, <3>7
  <2>7. CASE top[i - 1] # 0 /\ top[i] = top[top[i - 1] - 1] /\ s = -1 - 2 * top[i] /\ l = -2 - 2 * top[i]
    <3> DEFINE j == top[i - 1]
    <3>1. i - 1 \in 1..n /\ j \in 1..(i - 1)
      <4>1. i - 1 \in 0..n /\ i - 1 # 0
        BY <1>1, <2>7
      <4>2. i - 1 \in 1..n
        BY <4>1
      <4>3. top[i - 1] \in 0..n /\ top[i - 1] <= i - 1 /\ top[i - 1] # 0
        BY <1>1, <2>7, <4>1, <4>2
      <4> HIDE DEF j
      <4> QED
        BY <4>2, <4>3 DEF j
    <3>2. j - 1 \in 0..(i - 1) /\ top[i] = top[j - 1] /\ top[i] \in 0..n
      <4>0. i \in 0..n
        OBVIOUS
      <4>1. top[i] \in 0..n /\ top[i] = top[j - 1]
        BY <1>1, <2>7, <4>0
      <4> HIDE DEF j
      <4>2. j - 1 \in 0..(i - 1)
        BY <3>1
      <4> QED
        BY <4>1, <4>2
    <3>3. Fine(j - 1)
      BY <1>4, <3>2
    <3>4. s < 0 /\ l < 0
      <4> DEFINE u == top[i]
      <4>1. u \in 0..n /\ s = -1 - 2 * u /\ l = -2 - 2 * u
        BY <2>7, <3>2
      <4> HIDE DEF u, s, l
      <4> QED
        BY <4>1
    <3>5. K(i) = Front(Front(q))
      BY <2>4, <2>5, <3>4
    <3>6. q = K(j - 1) \o <<a[2 * j - 1], a[2 * j]>> /\ K(j - 1) \in Seq(Int)
      <4> HIDE DEF K
      <4> QED
        BY <2>3, <2>7
    <3>7. a[2 * j - 1] \in Int /\ a[2 * j] \in Int
      <4>1. 2 * j - 1 \in 1..Len(a) /\ 2 * j \in 1..Len(a)
        <5> HIDE DEF j
        <5> QED
          BY <3>1
      <4> QED
        BY <4>1
    <3>8. Front(Front(q)) = K(j - 1)
      <4> HIDE DEF K, q, j
      <4> QED
        BY <3>6, <3>7, TwoKept
    <3>9. K(i) = K(j - 1)
      BY <3>5, <3>8
    <3> HIDE DEF K, Even, j
    <3> QED
      BY <3>2, <3>3, <3>9
  <2>8. \/ top[i] = i /\ Fits(s, l, N)
        \/ top[i - 1] # 0 /\ top[i] = top[top[i - 1] - 1] /\ s = -1 - 2 * top[i] /\ l = -2 - 2 * top[i]
    BY <1>1
  <2> HIDE DEF Fine, s, l
  <2> QED
    BY <2>6, <2>7, <2>8
<1>5. S = {}
  <2> HIDE DEF Fine
  <2> SUFFICES ASSUME S # {} PROVE FALSE
    OBVIOUS
  <2>1. S \in SUBSET Nat
    OBVIOUS
  <2>2. PICK m \in S : \A i \in S : m <= i
    <3> HIDE DEF S
    <3> QED
      BY <2>1, LeastOf
  <2>3. m \in 0..n /\ ~Fine(m)
    OBVIOUS
  <2>4. m # 0
    BY <1>3, <2>3
  <2>5. \A j \in 0..(m - 1) : Fine(j)
    <3>1. ASSUME NEW j \in 0..(m - 1) PROVE Fine(j)
      <4>1. j \in 0..n /\ ~(m <= j)
        BY <2>3
      <4>2. j \notin S
        <5> HIDE DEF S
        <5> QED
          BY <2>2, <4>1
      <4> QED
        BY <4>1, <4>2
    <3> QED
      BY <3>1
  <2>6. m \in 1..n
    BY <2>3, <2>4
  <2> QED
    BY <1>4, <2>3, <2>5, <2>6
<1>6. Fine(k)
  <2> HIDE DEF Fine
  <2> QED
    BY <1>5
<1> QED
  BY <1>6 DEF IsKept

\* Match.tidy keeps the last capture on top.
LEMMA LastKept ==
    ASSUME NEW N \in Nat, NEW a, Sound(a, N)
    PROVE  LET live == Captures(Tidy(a)) IN
           /\ IsMatched(a) <=> live # <<>>
           /\ IsMatched(a) => Last(live) = <<MatchIndex(a), MatchLength(a)>>
<1>1. PICK n \in Nat : \E top :
              /\ a \in Seq(Int) /\ Len(a) = 2 * n /\ IsTops(a, n, top, N) /\ top[n] \in 0..n
              /\ IsMatched(a) <=> top[n] # 0
              /\ top[n] # 0 => /\ MatchIndex(a) = a[2 * top[n] - 1]
                               /\ MatchLength(a) = a[2 * top[n]]
  BY SoundTop
<1>2. PICK top :
              /\ a \in Seq(Int) /\ Len(a) = 2 * n /\ IsTops(a, n, top, N) /\ top[n] \in 0..n
              /\ IsMatched(a) <=> top[n] # 0
              /\ top[n] # 0 => /\ MatchIndex(a) = a[2 * top[n] - 1]
                               /\ MatchLength(a) = a[2 * top[n]]
  BY <1>1
<1> DEFINE j == top[n]  t == Tidy(a)  live == Captures(t)  q == Kept(a)[2 * (j - 1)]
<1>3. n \in 0..n /\ t = Kept(a)[2 * n]
  BY <1>2 DEF Tidy
<1>4. /\ j = 0 => t = <<>>
      /\ j # 0 => /\ q \in Seq(Int) /\ \E d \in Nat : Len(q) = 2 * d
                  /\ t = q \o <<a[2 * j - 1], a[2 * j]>>
  <2>1. /\ top[n] = 0 => Kept(a)[2 * n] = <<>>
        /\ top[n] # 0 => /\ Kept(a)[2 * (top[n] - 1)] \in Seq(Int)
                         /\ \E d \in Nat : Len(Kept(a)[2 * (top[n] - 1)]) = 2 * d
                         /\ Kept(a)[2 * n] = Kept(a)[2 * (top[n] - 1)] \o <<a[2 * top[n] - 1], a[2 * top[n]]>>
    <3> HIDE DEF j, t, live, q
    <3>1. a \in Seq(Int) /\ Len(a) = 2 * n /\ IsTops(a, n, top, N)
      BY <1>2
    <3>2. IsKept(a, top, n)
      BY <1>3, <3>1, KeptPairs
    <3> QED
      BY <3>2 DEF IsKept
  <2> HIDE DEF t
  <2> QED
    BY <1>3, <2>1
<1> HIDE DEF t, q, live, j
<1>5. CASE j = 0
  <2>1. Count(t) = 0
    BY <1>4, <1>5 DEF Count
  <2>2. live = <<>>
    BY <2>1 DEF live, Captures
  <2> QED
    BY <1>2, <1>5, <2>2 DEF live, t, j
<1>6. CASE j # 0
  <2>1. PICK d \in Nat : Len(q) = 2 * d
    BY <1>4, <1>6
  <2> DEFINE s == a[2 * j - 1]  l == a[2 * j]
  <2>2. s \in Int /\ l \in Int
    <3>1. j \in 1..n
      BY <1>2, <1>6 DEF j
    <3>2. 2 * j - 1 \in 1..Len(a) /\ 2 * j \in 1..Len(a)
      BY <1>2, <3>1
    <3> QED
      BY <1>2, <3>2
  <2> HIDE DEF s, l
  <2>3. t = q \o <<s, l>> /\ q \in Seq(Int)
    BY <1>4, <1>6 DEF s, l
  <2>4. Len(t) = Len(q) + 2 /\ t[Len(q) + 1] = s /\ t[Len(q) + 2] = l
    BY <2>2, <2>3, TwoKept
  <2>5. Len(t) = 2 * (d + 1) /\ Count(t) = d + 1 /\ d + 1 \in 1..(d + 1)
    <3>1. Len(t) = 2 * (d + 1)
      BY <2>1, <2>4
    <3>2. (2 * (d + 1)) \div 2 = d + 1
      OBVIOUS
    <3> QED
      BY <3>1, <3>2 DEF Count
  <2>6. At(t, 2 * (d + 1) - 2) = s /\ At(t, 2 * (d + 1) - 1) = l
    <3>1. 2 * (d + 1) - 2 + 1 = Len(q) + 1 /\ 2 * (d + 1) - 1 + 1 = Len(q) + 2
      BY <2>1
    <3> QED
      BY <2>4, <3>1 DEF At
  <2>7. live = [i \in 1..(d + 1) |-> <<At(t, 2 * i - 2), At(t, 2 * i - 1)>>]
    BY <2>5 DEF live, Captures
  <2>8. Len(live) = d + 1 /\ live[d + 1] = <<s, l>>
    <3>1. d + 1 \in Nat
      OBVIOUS
    <3>2. live[d + 1] = <<s, l>>
      BY <2>5, <2>6, <2>7
    <3> QED
      BY <2>7, <3>1, <3>2
  <2>9. live # <<>> /\ Last(live) = <<s, l>>
    <3>1. live # <<>>
      BY <2>8, EmptySeq
    <3> QED
      BY <2>8, <3>1 DEF Last
  <2>10. MatchIndex(a) = s /\ MatchLength(a) = l /\ IsMatched(a)
    BY <1>2, <1>6 DEF s, l, j
  <2> QED
    BY <2>9, <2>10 DEF live, t
<1> QED
  BY <1>5, <1>6

----------------------------------------------------------------------------
(* Sequences, of whatever they may be                                      *)

IsSeq(s) == \E S : s \in Seq(S)

\* The empty stack.
LEMMA EmptyIsSeq == IsSeq(<<>>) /\ Len(<<>>) = 0
BY EmptySeq DEF IsSeq

\* The height of a stack.
LEMMA LenNat == ASSUME NEW s, IsSeq(s) PROVE Len(s) \in Nat
BY DEF IsSeq

\* Pushing.
LEMMA Pushing ==
    ASSUME NEW s, IsSeq(s), NEW x
    PROVE  /\ IsSeq(<<x>> \o s)
           /\ Len(<<x>> \o s) = Len(s) + 1
           /\ (<<x>> \o s)[1] = x
           /\ \A i \in 1..Len(s) : (<<x>> \o s)[i + 1] = s[i]
           /\ Tail(<<x>> \o s) = s
           /\ Head(<<x>> \o s) = x
<1>1. PICK S : s \in Seq(S)
  BY DEF IsSeq
<1> DEFINE T == S \cup {x}
<1>2. s \in Seq(T) /\ <<x>> \in Seq(T) /\ Len(<<x>>) = 1 /\ Len(s) \in Nat
  BY <1>1, SeqMonotonic
<1> HIDE DEF T
<1>3. /\ <<x>> \o s \in Seq(T)
      /\ Len(<<x>> \o s) = Len(s) + 1
      /\ (<<x>> \o s)[1] = x
      /\ \A i \in 1..Len(s) : (<<x>> \o s)[i + 1] = s[i]
  BY <1>2, ConcatProperties
<1>4. <<x>> \o s # <<>>
  BY <1>2, <1>3, EmptySeq
<1>5. /\ Tail(<<x>> \o s) \in Seq(T)
      /\ Len(Tail(<<x>> \o s)) = Len(s)
      /\ \A i \in 1..Len(s) : Tail(<<x>> \o s)[i] = s[i]
  BY <1>2, <1>3, <1>4, HeadTailProperties
<1>6. Tail(<<x>> \o s) = s
  BY <1>2, <1>5, SeqEqual
<1>7. Head(<<x>> \o s) = x
  BY <1>3, <1>4
<1> QED
  BY <1>3, <1>6, <1>7 DEF IsSeq

\* Pushing two values is pushing one after the other; the same for three and four.
LEMMA PushingTwo ==
    ASSUME NEW s, IsSeq(s), NEW x, NEW y
    PROVE  <<x, y>> \o s = <<x>> \o (<<y>> \o s)
<1>1. PICK S : s \in Seq(S)
  BY DEF IsSeq
<1> DEFINE T == S \cup {x, y}
<1>2. s \in Seq(T)
  BY <1>1, SeqMonotonic
<1>3. <<x>> \in Seq(T) /\ <<y>> \in Seq(T)
  OBVIOUS
<1>4. <<x, y>> = <<x>> \o <<y>>
  <2>1. <<x, y>> \in Seq(T) /\ Len(<<x, y>>) = 2 /\ Len(<<x>>) = 1 /\ Len(<<y>>) = 1
    OBVIOUS
  <2>2. /\ <<x>> \o <<y>> \in Seq(T) /\ Len(<<x>> \o <<y>>) = 2
        /\ \A i \in 1..2 : (<<x>> \o <<y>>)[i] = IF i <= 1 THEN <<x>>[i] ELSE <<y>>[i - 1]
    BY <1>3, <2>1, ConcatProperties
  <2>3. \A i \in 1..2 : <<x, y>>[i] = (<<x>> \o <<y>>)[i]
    BY <2>2
  <2> HIDE DEF T
  <2> QED
    BY <2>1, <2>2, <2>3, SeqEqual
<1> QED
  BY <1>2, <1>3, <1>4, ConcatAssociative

\* Pushing three values.
LEMMA PushingThree ==
    ASSUME NEW s, IsSeq(s), NEW x, NEW y, NEW z
    PROVE  <<x, y, z>> \o s = <<x>> \o (<<y, z>> \o s)
<1>1. PICK S : s \in Seq(S)
  BY DEF IsSeq
<1> DEFINE T == S \cup {x, y, z}
<1>2. s \in Seq(T)
  BY <1>1, SeqMonotonic
<1>3. <<x>> \in Seq(T) /\ <<y, z>> \in Seq(T)
  OBVIOUS
<1>4. <<x, y, z>> = <<x>> \o <<y, z>>
  OBVIOUS
<1> QED
  BY <1>2, <1>3, <1>4, ConcatAssociative, SMTT(30)

\* Pushing four values.
LEMMA PushingFour ==
    ASSUME NEW s, IsSeq(s), NEW x, NEW y, NEW z, NEW w
    PROVE  <<x, y, z, w>> \o s = <<x>> \o (<<y, z, w>> \o s)
<1>1. PICK S : s \in Seq(S)
  BY DEF IsSeq
<1> DEFINE T == S \cup {x, y, z, w}
<1>2. s \in Seq(T)
  BY <1>1, SeqMonotonic
<1>3. <<x>> \in Seq(T) /\ <<y, z, w>> \in Seq(T)
  OBVIOUS
<1>4. <<x, y, z, w>> = <<x>> \o <<y, z, w>>
  OBVIOUS
<1> QED
  BY <1>2, <1>3, <1>4, ConcatAssociative

\* Popping.
LEMMA Popping ==
    ASSUME NEW s, IsSeq(s), NEW k \in 0..Len(s)
    PROVE  /\ IsSeq(Drop(s, k))
           /\ Len(Drop(s, k)) = Len(s) - k
           /\ \A i \in 1..(Len(s) - k) : Drop(s, k)[i] = s[i + k]
<1>1. PICK S : s \in Seq(S)
  BY DEF IsSeq
<1>2. \A i \in (k + 1)..Len(s) : s[i] \in S
  BY <1>1
<1>3. /\ Drop(s, k) \in Seq(S)
      /\ Len(Drop(s, k)) = IF k + 1 <= Len(s) THEN Len(s) - (k + 1) + 1 ELSE 0
      /\ \A i \in 1..(Len(s) - (k + 1) + 1) : Drop(s, k)[i] = s[k + 1 + i - 1]
  BY <1>1, <1>2, SubSeqProperties DEF Drop
<1> QED
  BY <1>1, <1>3 DEF IsSeq

\* Sequences are the same when their elements are.
LEMMA SameSeq ==
    ASSUME NEW s, NEW t, IsSeq(s), IsSeq(t), Len(s) = Len(t),
           \A i \in 1..Len(s) : s[i] = t[i]
    PROVE  s = t
<1>1. PICK S : s \in Seq(S)
  BY DEF IsSeq
<1>2. PICK T : t \in Seq(T)
  BY DEF IsSeq
<1>3. s \in Seq(S \cup T) /\ t \in Seq(S \cup T)
  BY <1>1, <1>2, SeqMonotonic
<1> QED
  BY <1>3, SeqEqual

\* Popping i and then j values pops i + j.
LEMMA PoppingTwice ==
    ASSUME NEW s, IsSeq(s), NEW i \in Nat, NEW j \in Nat, i + j <= Len(s)
    PROVE  Drop(Drop(s, i), j) = Drop(s, i + j)
<1>1. /\ i \in 0..Len(s) /\ i + j \in 0..Len(s) /\ Len(s) \in Nat
  BY LenNat
<1>2. IsSeq(Drop(s, i)) /\ Len(Drop(s, i)) = Len(s) - i /\ j \in 0..Len(Drop(s, i))
  BY <1>1, Popping
<1>3. /\ IsSeq(Drop(Drop(s, i), j))
      /\ Len(Drop(Drop(s, i), j)) = Len(s) - i - j
      /\ \A n \in 1..(Len(s) - i - j) : Drop(Drop(s, i), j)[n] = Drop(s, i)[n + j]
  BY <1>2, Popping
<1>4. \A n \in 1..(Len(s) - i - j) : Drop(s, i)[n + j] = s[n + j + i]
  BY <1>1, Popping
<1>5. /\ IsSeq(Drop(s, i + j))
      /\ Len(Drop(s, i + j)) = Len(s) - (i + j)
      /\ \A n \in 1..(Len(s) - (i + j)) : Drop(s, i + j)[n] = s[n + (i + j)]
  BY <1>1, Popping
<1>6. \A n \in 1..Len(Drop(Drop(s, i), j)) : Drop(Drop(s, i), j)[n] = Drop(s, i + j)[n]
  BY <1>1, <1>3, <1>4, <1>5
<1>7. Len(Drop(Drop(s, i), j)) = Len(Drop(s, i + j))
  BY <1>1, <1>3, <1>5
<1> HIDE DEF Drop
<1> QED
  BY <1>3, <1>5, <1>6, <1>7, SameSeq

\* Popping nothing.
LEMMA PoppingNone ==
    ASSUME NEW s, IsSeq(s)
    PROVE  Drop(s, 0) = s
<1>1. 0 \in 0..Len(s) /\ Len(s) \in Nat
  BY LenNat
<1> QED
  BY <1>1, Popping, SameSeq

\* Popping everything.
LEMMA PoppingAll ==
    ASSUME NEW s, IsSeq(s)
    PROVE  Drop(s, Len(s)) = <<>>
BY LenNat, SubSeqEmpty DEF Drop

\* The value on top, and what is left below it.
LEMMA PoppingOne ==
    ASSUME NEW s, IsSeq(s), Len(s) >= 1
    PROVE  /\ Tail(s) = Drop(s, 1)
           /\ Head(s) = s[1]
           /\ s = <<s[1]>> \o Tail(s)
<1>1. PICK S : s \in Seq(S)
  BY DEF IsSeq
<1>2. s # <<>>
  BY EmptySeq
<1>3. Tail(s) = Drop(s, 1)
  BY <1>1, <1>2, TailIsSubSeq DEF Drop
<1>4. Len(s) \in Nat /\ 1 \in 0..Len(s)
  BY LenNat
<1> DEFINE t == Tail(s)  u == <<s[1]>> \o t
<1>5. /\ IsSeq(t) /\ Len(t) = Len(s) - 1
      /\ \A i \in 1..(Len(s) - 1) : t[i] = s[i + 1]
  BY <1>3, <1>4, Popping, ZenonT(60)
<1> HIDE DEF t
<1>6. /\ IsSeq(u)
      /\ Len(u) = Len(t) + 1
      /\ u[1] = s[1]
      /\ \A i \in 1..Len(t) : u[i + 1] = t[i]
  BY <1>5, Pushing
<1> HIDE DEF u
<1>7. ASSUME NEW i \in 1..Len(s)
      PROVE  s[i] = u[i]
  <2>1. CASE i = 1
    BY <2>1, <1>6
  <2>2. CASE i # 1
    <3>1. i - 1 \in 1..Len(t) /\ i - 1 \in 1..(Len(s) - 1) /\ (i - 1) + 1 = i
      BY <2>2, <1>4, <1>5
    <3> QED
      BY <3>1, <1>5, <1>6
  <2> QED
    BY <2>1, <2>2
<1>8. s = u
  BY <1>4, <1>5, <1>6, <1>7, SameSeq
<1>9. Head(s) = s[1]
  BY <1>1, <1>2
<1> QED
  BY <1>3, <1>8, <1>9 DEF t, u

\* What is pushed is popped.
LEMMA PushedPopped ==
    ASSUME NEW s, IsSeq(s), NEW x, NEW k \in 0..Len(s)
    PROVE  Drop(<<x>> \o s, k + 1) = Drop(s, k)
<1> DEFINE t == <<x>> \o s
<1>1. IsSeq(t) /\ Len(t) = Len(s) + 1 /\ Tail(t) = s /\ Len(s) \in Nat
  BY Pushing, LenNat
<1> HIDE DEF t
<1>2. Drop(t, 1) = s
  <2>1. Len(t) >= 1
    BY <1>1
  <2>2. Tail(t) = Drop(t, 1)
    BY <1>1, <2>1, PoppingOne
  <2> QED
    BY <1>1, <2>2
<1>3. Drop(Drop(t, 1), k) = Drop(t, 1 + k)
  BY <1>1, PoppingTwice
<1> QED
  BY <1>2, <1>3 DEF t

----------------------------------------------------------------------------
(* Captures: the crawl and the capture arrays                              *)

\* How often a slot is on the crawl is a number.
LEMMA OccurrencesNat ==
    ASSUME NEW s, IsSeq(s), NEW g
    PROVE  Occurrences(s, g) \in Nat /\ IsFiniteSet({i \in DOMAIN s : s[i] = g})
<1>1. DOMAIN s = 1..Len(s) /\ Len(s) \in Nat
  BY DEF IsSeq
<1>2. IsFiniteSet(DOMAIN s)
  BY <1>1, FS_Interval
<1>3. {i \in DOMAIN s : s[i] = g} \in SUBSET DOMAIN s
  OBVIOUS
<1>4. IsFiniteSet({i \in DOMAIN s : s[i] = g})
  BY <1>2, <1>3, FS_Subset
<1> QED
  BY <1>4, FS_CardinalityType DEF Occurrences

\* No slot is on an empty crawl.
LEMMA NoOccurrences == ASSUME NEW g PROVE Occurrences(<<>>, g) = 0
<1>1. {i \in DOMAIN <<>> : <<>>[i] = g} = {}
  OBVIOUS
<1> QED
  BY <1>1, FS_EmptySet DEF Occurrences

\* What is captured once more.
LEMMA OneMoreOccurrence ==
    ASSUME NEW s, IsSeq(s), NEW x, NEW g
    PROVE  Occurrences(<<x>> \o s, g) = Occurrences(s, g) + (IF x = g THEN 1 ELSE 0)
<1> DEFINE t == <<x>> \o s
           U == {i \in DOMAIN s : s[i] = g}
           T == {i \in DOMAIN t : t[i] = g}
           V == {i \in 2..(Len(s) + 1) : t[i] = g}
           f == [i \in U |-> i + 1]
<1>1. /\ IsSeq(t) /\ Len(t) = Len(s) + 1 /\ Len(s) \in Nat
      /\ t[1] = x /\ \A i \in 1..Len(s) : t[i + 1] = s[i]
  BY Pushing, LenNat
<1>2. DOMAIN t = 1..(Len(s) + 1) /\ DOMAIN s = 1..Len(s)
  BY <1>1 DEF IsSeq
<1>3. IsFiniteSet(U) /\ Cardinality(U) \in Nat
  BY OccurrencesNat DEF Occurrences
<1> HIDE DEF t
<1>4. f \in Bijection(U, V)
  <2>1. f \in [U -> V]
    BY <1>1, <1>2
  <2>2. \A a, b \in U : f[a] = f[b] => a = b
    BY <1>1, <1>2
  <2>3. \A j \in V : \E i \in U : f[i] = j
    <3>1. ASSUME NEW j \in V
          PROVE  j - 1 \in U /\ f[j - 1] = j
      <4>1. j - 1 \in 1..Len(s) /\ t[(j - 1) + 1] = s[j - 1] /\ (j - 1) + 1 = j
        BY <1>1
      <4>2. j - 1 \in U
        BY <4>1, <1>2
      <4> QED
        BY <4>1, <4>2
    <3> QED
      BY <3>1
  <2> HIDE DEF U, V, f
  <2> QED
    BY <2>1, <2>2, <2>3, Fun_IsBij
<1>5. IsFiniteSet(V) /\ Cardinality(V) = Cardinality(U)
  <2> HIDE DEF U, V, f
  <2>1. ExistsBijection(U, V)
    BY <1>4 DEF ExistsBijection
  <2> QED
    BY <2>1, <1>3, FS_Bijection
<1>6. 1 \notin V
  OBVIOUS
<1>7. T = IF x = g THEN V \cup {1} ELSE V
  BY <1>1, <1>2
<1>8. Cardinality(T) = Cardinality(U) + (IF x = g THEN 1 ELSE 0)
  <2> HIDE DEF U, V, T
  <2>1. CASE x = g
    BY <2>1, <1>3, <1>5, <1>6, <1>7, FS_AddElement
  <2>2. CASE x # g
    BY <2>2, <1>3, <1>5, <1>7
  <2> QED
    BY <2>1, <2>2
<1> QED
  BY <1>8 DEF Occurrences, t

\* The crawl in two parts.
LEMMA OccurrencesAbove ==
    ASSUME NEW s, IsSeq(s), NEW k \in 0..Len(s), NEW g
    PROVE  Occurrences(s, g) = Occurrences(SubSeq(s, 1, k), g) + Occurrences(Drop(s, k), g)
<1> DEFINE t == Drop(s, k)
           r == SubSeq(s, 1, k)
           T == {i \in DOMAIN t : t[i] = g}
           R == {i \in DOMAIN r : r[i] = g}
           U == {i \in DOMAIN s : s[i] = g}
           V == {i \in (k + 1)..Len(s) : s[i] = g}
           f == [i \in T |-> i + k]
<1>1. Len(s) \in Nat /\ DOMAIN s = 1..Len(s)
  BY DEF IsSeq
<1>2. /\ IsSeq(t) /\ Len(t) = Len(s) - k
      /\ \A i \in 1..(Len(s) - k) : t[i] = s[i + k]
  BY Popping
<1>3. DOMAIN t = 1..(Len(s) - k)
  BY <1>2 DEF IsSeq
<1>4. PICK S : s \in Seq(S)
  BY DEF IsSeq
<1>5. /\ r \in Seq(S)
      /\ Len(r) = IF 1 <= k THEN k - 1 + 1 ELSE 0
      /\ \A i \in 1..(k - 1 + 1) : r[i] = s[1 + i - 1]
  BY <1>1, <1>4, SubSeqProperties
<1>6. IsSeq(r) /\ Len(r) = k /\ DOMAIN r = 1..k /\ \A i \in 1..k : r[i] = s[i]
  BY <1>1, <1>5 DEF IsSeq
<1> HIDE DEF t, r
<1>7. R = {i \in 1..k : s[i] = g}
  BY <1>6
<1>8. U = R \cup V /\ R \cap V = {}
  BY <1>1, <1>7
<1>9. f \in Bijection(T, V)
  <2>1. f \in [T -> V]
    BY <1>1, <1>2, <1>3
  <2>2. \A a, b \in T : f[a] = f[b] => a = b
    BY <1>1, <1>2, <1>3
  <2>3. \A j \in V : \E i \in T : f[i] = j
    <3>1. ASSUME NEW j \in V
          PROVE  j - k \in T /\ f[j - k] = j
      <4>1. j - k \in 1..(Len(s) - k) /\ (j - k) + k = j
        BY <1>1
      <4>2. j - k \in T
        BY <4>1, <1>2, <1>3
      <4> QED
        BY <4>1, <4>2
    <3> QED
      BY <3>1
  <2> HIDE DEF T, V, f
  <2> QED
    BY <2>1, <2>2, <2>3, Fun_IsBij
<1>10. IsFiniteSet(T) /\ IsFiniteSet(R) /\ Cardinality(T) \in Nat /\ Cardinality(R) \in Nat
  <2>1. Occurrences(t, g) \in Nat /\ IsFiniteSet(T)
    BY <1>2, OccurrencesNat
  <2>2. Occurrences(r, g) \in Nat /\ IsFiniteSet(R)
    BY <1>6, OccurrencesNat
  <2> QED
    BY <2>1, <2>2 DEF Occurrences
<1>11. IsFiniteSet(V) /\ Cardinality(V) = Cardinality(T)
  <2> HIDE DEF T, V, f
  <2>1. ExistsBijection(T, V)
    BY <1>9 DEF ExistsBijection
  <2> QED
    BY <2>1, <1>10, FS_Bijection
<1>12. Cardinality(U) = Cardinality(R) + Cardinality(T)
  <2> HIDE DEF U, V, T, R
  <2>1. Cardinality(R \cap V) = 0
    BY <1>8, FS_EmptySet
  <2>2. Cardinality(R \cup V) = Cardinality(R) + Cardinality(V) - Cardinality(R \cap V)
    BY <1>10, <1>11, FS_Union
  <2> QED
    BY <2>1, <2>2, <1>8, <1>10, <1>11
<1> QED
  BY <1>12 DEF Occurrences, t, r

----------------------------------------------------------------------------
(* What a cell of the grouping stack is known to hold                      *)

\* A value that may be any number or that is known to be a position, a mark, and the
\* count of a loop.
Value    == <<"value", 0>>
Place    == <<"value", 1>>
MarkCell == <<"mark", 1>>
Counter  == <<"count", 0>>
Plain == {Value, Place, MarkCell}
Cells == Plain \cup {Counter} \cup ({"crawl", "track"} \X Nat)

\* A position of a text of N characters; nothing is known if N is no length.
Placed(v, N) == N \in Nat => v \in 0..N

\* A cell tells of a number all that it may.
Describes(x, v, N) ==
    /\ x[1] \in {"crawl", "track"} => v = x[2]
    /\ x \in {Place, MarkCell} => Placed(v, N)

KindsOf(st) == [i \in DOMAIN st |-> st[i][1]]

\* What is known of a moment of a scan: the cells of the stack, and the crawl.
Moments == [st : Seq(Cells), cr : Seq(Int)]
Blank == [st |-> <<>>, cr |-> <<>>]

\* The stack holds what is known of its cells.
Represents(st, values, N) ==
    /\ IsSeq(values) /\ Len(values) = Len(st)
    /\ \A i \in 1..Len(st) : Describes(st[i], values[i], N)

\* Where Setjump has pushed: the crawl and the track as they were at m, when
\* the track had depth d.
Jump(d, m) == <<<<"crawl", Len(m.cr)>>>> \o (<<<<"track", d>>>> \o m.st)

\* The parts of a stack that begin with a jump.
JumpsIn(st) == {Drop(st, i) : i \in {j \in 0..(Len(st) - 1) : st[j + 1][1] = "crawl"}}

\* Nothing that was captured before is gone.
Extends(cr, before) == Len(before) <= Len(cr) /\ Drop(cr, Len(cr) - Len(before)) = before

\* A stack of cells, popped or not, is a stack of cells.
LEMMA CellsAreSeqs ==
    ASSUME NEW st \in Seq(Cells)
    PROVE  /\ IsSeq(st) /\ Len(st) \in Nat /\ DOMAIN st = 1..Len(st)
           /\ \A i \in 1..Len(st) : st[i] \in Cells
           /\ \A k \in 0..Len(st) : Drop(st, k) \in Seq(Cells)
<1>1. /\ IsSeq(st) /\ Len(st) \in Nat /\ DOMAIN st = 1..Len(st)
      /\ \A i \in 1..Len(st) : st[i] \in Cells
  BY DEF IsSeq
<1>2. ASSUME NEW k \in 0..Len(st)
      PROVE  Drop(st, k) \in Seq(Cells)
  <2>1. \A i \in (k + 1)..Len(st) : st[i] \in Cells
    BY <1>1
  <2> QED
    BY <1>1, <2>1, SubSeqProperties DEF Drop
<1> QED
  BY <1>1, <1>2

\* A cell may be pushed.
LEMMA PushingCells ==
    ASSUME NEW st \in Seq(Cells), NEW x \in Cells
    PROVE  <<x>> \o st \in Seq(Cells)
<1>1. <<x>> \in Seq(Cells)
  OBVIOUS
<1> QED
  BY <1>1, ConcatProperties

\* There is one kind for each cell.
LEMMA KindsAreSeqs ==
    ASSUME NEW st \in Seq(Cells)
    PROVE  /\ IsSeq(KindsOf(st)) /\ Len(KindsOf(st)) = Len(st)
           /\ \A i \in 1..Len(st) : KindsOf(st)[i] = st[i][1]
<1>1. DOMAIN st = 1..Len(st) /\ Len(st) \in Nat
  BY CellsAreSeqs
<1> DEFINE k == [i \in 1..Len(st) |-> st[i][1]]
<1>2. k \in Seq({st[i][1] : i \in 1..Len(st)}) /\ Len(k) = Len(st) /\ \A i \in 1..Len(st) : k[i] = st[i][1]
  BY <1>1
<1>3. KindsOf(st) = k
  BY <1>1 DEF KindsOf
<1> QED
  BY <1>2, <1>3 DEF IsSeq

\* The kinds after a push.
LEMMA PushingKinds ==
    ASSUME NEW st \in Seq(Cells), NEW x \in Cells
    PROVE  KindsOf(<<x>> \o st) = <<x[1]>> \o KindsOf(st)
<1> DEFINE t == <<x>> \o st
           k == KindsOf(st)
           h == x[1]
           u == <<h>> \o k
<1>1. /\ t \in Seq(Cells) /\ IsSeq(st) /\ Len(st) \in Nat
  BY PushingCells, CellsAreSeqs
<1>2. /\ IsSeq(t) /\ Len(t) = Len(st) + 1 /\ t[1] = x
      /\ \A i \in 1..Len(st) : t[i + 1] = st[i]
  BY <1>1, Pushing
<1>3. DOMAIN st = 1..Len(st)
  BY CellsAreSeqs
<1> HIDE DEF t
<1>4. DOMAIN t = 1..(Len(st) + 1)
  BY <1>2, <1>1, CellsAreSeqs
<1>5. IsSeq(k) /\ Len(k) = Len(st) /\ \A i \in 1..Len(st) : k[i] = st[i][1]
  BY KindsAreSeqs
<1> HIDE DEF k, h
<1>6. /\ IsSeq(u) /\ Len(u) = Len(st) + 1 /\ u[1] = h
      /\ \A i \in 1..Len(st) : u[i + 1] = k[i]
  <2>1. /\ IsSeq(u) /\ Len(u) = Len(k) + 1 /\ u[1] = h
        /\ \A i \in 1..Len(k) : u[i + 1] = k[i]
    <3>1. IsSeq(k)
      BY <1>5
    <3> QED
      BY <3>1, Pushing
  <2> QED
    BY <2>1, <1>5
<1> HIDE DEF u
<1> DEFINE v == KindsOf(t)
<1>7. IsSeq(v) /\ Len(v) = Len(t) /\ \A i \in 1..Len(t) : v[i] = t[i][1]
  BY <1>1, KindsAreSeqs DEF t
<1> HIDE DEF v
<1>9. ASSUME NEW i \in 1..Len(v)
      PROVE  v[i] = u[i]
  <2>1. CASE i = 1
    BY <2>1, <1>1, <1>2, <1>6, <1>7 DEF h
  <2>2. CASE i # 1
    <3>1. i - 1 \in 1..Len(st) /\ (i - 1) + 1 = i
      BY <2>2, <1>1, <1>2, <1>7
    <3>2. t[i] = st[i - 1] /\ v[i] = t[i][1]
      BY <3>1, <1>2, <1>7
    <3>3. u[i] = k[i - 1] /\ k[i - 1] = st[i - 1][1]
      BY <3>1, <1>5, <1>6
    <3> QED
      BY <3>2, <3>3
  <2> QED
    BY <2>1, <2>2
<1>10. v = u
  BY <1>2, <1>6, <1>7, <1>9, SameSeq
<1> QED
  BY <1>10 DEF v, u, t, k, h

OnTop(s, x, below) == s = <<x>> \o below

\* A stack of which a cell is known to lie on top.
LEMMA PoppingKinds ==
    ASSUME NEW st \in Seq(Cells), NEW k, NEW kinds, IsSeq(kinds), OnTop(KindsOf(st), k, kinds)
    PROVE  /\ st[1] \in Cells /\ st[1][1] = k
           /\ Tail(st) \in Seq(Cells) /\ KindsOf(Tail(st)) = kinds
           /\ OnTop(st, st[1], Tail(st))
<1>1. /\ IsSeq(st) /\ Len(st) \in Nat /\ DOMAIN st = 1..Len(st)
      /\ \A i \in 1..Len(st) : st[i] \in Cells
  BY CellsAreSeqs
<1> DEFINE u == <<k>> \o kinds
<1>2. IsSeq(u) /\ Len(u) = Len(kinds) + 1 /\ u[1] = k /\ Tail(u) = kinds /\ Len(kinds) \in Nat
  BY Pushing, LenNat
<1> HIDE DEF u
<1>3. KindsOf(st) = u
  BY DEF u, OnTop
<1>4. Len(KindsOf(st)) = Len(st) /\ \A i \in 1..Len(st) : KindsOf(st)[i] = st[i][1]
  BY KindsAreSeqs
<1>5. Len(st) >= 1
  BY <1>2, <1>3, <1>4
<1> DEFINE x == st[1]  below == Tail(st)
<1>6. st = <<x>> \o below /\ below = Drop(st, 1)
  BY <1>1, <1>5, PoppingOne
<1>7. x \in Cells /\ below \in Seq(Cells)
  BY <1>1, <1>5, <1>6, CellsAreSeqs
<1>8. x[1] = k
  BY <1>2, <1>3, <1>4, <1>5, <1>1
<1>9. KindsOf(below) = kinds
  <2> HIDE DEF x, below
  <2>1. KindsOf(st) = <<x[1]>> \o KindsOf(below)
    BY <1>6, <1>7, PushingKinds
  <2>2. IsSeq(KindsOf(below))
    BY <1>7, KindsAreSeqs
  <2>3. Tail(<<x[1]>> \o KindsOf(below)) = KindsOf(below)
    BY <2>2, Pushing
  <2> QED
    BY <1>2, <1>3, <2>1, <2>3
<1> QED
  BY <1>6, <1>7, <1>8, <1>9 DEF OnTop

\* Values and marks are cells, and so is the count of a loop.
LEMMA PlainCells ==
    /\ \A x \in Plain : x \in Cells /\ x[1] # "crawl" /\ x[1] # "track" /\ x[1] # "count"
    /\ \A x \in Cells : x[1] = "mark" => x = MarkCell
    /\ \A x \in Cells : x[1] = "value" => x \in {Value, Place}
    /\ \A x \in Cells : x[1] = "count" => x = Counter
    /\ Counter \in Cells /\ Counter[1] = "count"
    /\ Value \in Plain /\ Place \in Plain /\ MarkCell \in Plain
    /\ Value[1] = "value" /\ Place[1] = "value" /\ MarkCell[1] = "mark"
BY DEF Cells, Plain, Value, Place, MarkCell, Counter

\* What nothing is known of, and what is known of positions.
LEMMA Described ==
    ASSUME NEW N, NEW v
    PROVE  /\ Describes(Value, v, N) /\ Describes(Counter, v, N)
           /\ \A x \in Plain : Placed(v, N) => Describes(x, v, N)
           /\ Describes(Place, v, N) => Placed(v, N)
           /\ Describes(MarkCell, v, N) => Placed(v, N)
BY DEF Describes, Plain, Value, Place, MarkCell, Counter

\* Cells still describe the grouping stack when a cell and what it describes are pushed.
LEMMA PushRepresented ==
    ASSUME NEW st \in Seq(Cells), NEW values, NEW N, Represents(st, values, N), NEW x \in Cells, NEW v,
           Describes(x, v, N)
    PROVE  Represents(<<x>> \o st, <<v>> \o values, N)
<1>1. IsSeq(st) /\ Len(st) \in Nat /\ IsSeq(values) /\ Len(values) = Len(st)
  BY CellsAreSeqs DEF Represents
<1>0. /\ \A a, y : IsSeq(a) => /\ IsSeq(<<y>> \o a) /\ Len(<<y>> \o a) = Len(a) + 1
                              /\ (<<y>> \o a)[1] = y /\ \A i \in 1..Len(a) : (<<y>> \o a)[i + 1] = a[i]
  BY Pushing
<1> DEFINE t == <<x>> \o st  u == <<v>> \o values
<1>2. /\ IsSeq(t) /\ Len(t) = Len(st) + 1 /\ t[1] = x
      /\ \A i \in 1..Len(st) : t[i + 1] = st[i]
  BY <1>0, <1>1
<1>3. /\ IsSeq(u) /\ Len(u) = Len(st) + 1 /\ u[1] = v
      /\ \A i \in 1..Len(st) : u[i + 1] = values[i]
  BY <1>0, <1>1
<1> HIDE DEF t, u
<1>4. ASSUME NEW i \in 1..Len(t)
      PROVE  Describes(t[i], u[i], N)
  <2>1. CASE i = 1
    BY <2>1, <1>2, <1>3, <1>4
  <2>2. CASE i # 1
    <3>1. i - 1 \in 1..Len(st) /\ (i - 1) + 1 = i
      BY <2>2, <1>1, <1>2
    <3> QED
      BY <3>1, <1>2, <1>3, <1>4 DEF Represents
  <2> QED
    BY <2>1, <2>2
<1> QED
  BY <1>1, <1>2, <1>3, <1>4 DEF Represents, t, u

\* Cells below the top describe the grouping stack below its top, and a cell of a
\* jump tells what lies on top.
LEMMA PopRepresented ==
    ASSUME NEW st \in Seq(Cells), NEW x \in Cells, NEW values, NEW N, Represents(<<x>> \o st, values, N)
    PROVE  /\ IsSeq(values) /\ Len(values) = Len(st) + 1 /\ Len(values) >= 1
           /\ Represents(st, Tail(values), N)
           /\ Tail(values) = Drop(values, 1)
           /\ Describes(x, values[1], N)
<1>1. IsSeq(st) /\ Len(st) \in Nat
  BY CellsAreSeqs
<1> DEFINE t == <<x>> \o st  u == Tail(values)
<1>2. /\ IsSeq(t) /\ Len(t) = Len(st) + 1 /\ t[1] = x
      /\ \A i \in 1..Len(st) : t[i + 1] = st[i]
  BY <1>1, Pushing
<1> HIDE DEF t
<1>3. Represents(t, values, N)
  BY DEF t
<1>4. IsSeq(values) /\ Len(values) = Len(st) + 1 /\ Len(values) >= 1 /\ 1 \in 0..Len(values)
  BY <1>1, <1>2, <1>3 DEF Represents
<1>5. u = Drop(values, 1)
  BY <1>4, PoppingOne
<1>6. /\ IsSeq(u) /\ Len(u) = Len(st)
      /\ \A i \in 1..Len(st) : u[i] = values[i + 1]
  <2>1. Len(values) - 1 = Len(st)
    BY <1>1, <1>4
  <2> HIDE DEF u
  <2> QED
    BY <1>4, <1>5, <2>1, Popping
<1> HIDE DEF u
<1>7. ASSUME NEW i \in 1..Len(st)
      PROVE  Describes(st[i], u[i], N)
  <2>1. i + 1 \in 1..Len(t) /\ t[i + 1] = st[i]
    BY <1>1, <1>2
  <2> QED
    BY <2>1, <1>3, <1>6, <1>7 DEF Represents
<1>8. Describes(x, values[1], N)
  <2>1. 1 \in 1..Len(t)
    BY <1>1, <1>2
  <2> QED
    BY <2>1, <1>2, <1>3 DEF Represents
<1>9. Represents(st, u, N)
  BY <1>6, <1>7 DEF Represents
<1> QED
  BY <1>4, <1>5, <1>8, <1>9 DEF u

\* A value that is pushed or popped changes no jump.
LEMMA JumpsBelowValue ==
    ASSUME NEW st \in Seq(Cells), NEW x \in Cells
    PROVE  JumpsIn(<<x>> \o st) = JumpsIn(st) \cup (IF x[1] = "crawl" THEN {<<x>> \o st} ELSE {})
<1> DEFINE t == <<x>> \o st
           J == {j \in 0..(Len(st) - 1) : st[j + 1][1] = "crawl"}
           K == {j \in 0..(Len(t) - 1) : t[j + 1][1] = "crawl"}
<1>1. IsSeq(st) /\ Len(st) \in Nat
  BY CellsAreSeqs
<1>2. /\ IsSeq(t) /\ Len(t) = Len(st) + 1 /\ t[1] = x
      /\ \A i \in 1..Len(st) : t[i + 1] = st[i]
  BY <1>1, Pushing
<1>3. \A k \in 0..Len(st) : Drop(t, k + 1) = Drop(st, k)
  BY <1>1, PushedPopped
<1>4. Drop(t, 0) = t
  BY <1>2, PoppingNone
<1> HIDE DEF t
<1>5. \A j \in J : j + 1 \in K
  BY <1>1, <1>2
<1>6. \A j \in K : j = 0 \/ j - 1 \in J
  <2>1. SUFFICES ASSUME NEW j \in K, j # 0
                 PROVE  j - 1 \in J
    OBVIOUS
  <2>2. j \in 1..Len(st) /\ t[j + 1] = st[j] /\ (j - 1) + 1 = j
    BY <2>1, <1>1, <1>2
  <2> QED
    BY <2>1, <2>2, <1>1
<1>7. 0 \in K <=> x[1] = "crawl"
  BY <1>1, <1>2
<1>8. J \subseteq 0..Len(st)
  BY <1>1
<1>9. \A j \in J : Drop(t, j + 1) = Drop(st, j)
  BY <1>3, <1>8
<1>10. \A j \in K : j # 0 => Drop(t, j) = Drop(st, j - 1)
  <2>1. SUFFICES ASSUME NEW j \in K, j # 0
                 PROVE  Drop(t, j) = Drop(st, j - 1)
    OBVIOUS
  <2>2. j - 1 \in J /\ (j - 1) + 1 = j
    BY <2>1, <1>6, <1>1, <1>2
  <2> QED
    BY <2>2, <1>9
<1>11. JumpsIn(t) = {Drop(t, i) : i \in K} /\ JumpsIn(st) = {Drop(st, i) : i \in J}
  BY DEF JumpsIn
<1> HIDE DEF J, K
<1>12. {Drop(t, i) : i \in K} = {Drop(st, i) : i \in J} \cup (IF x[1] = "crawl" THEN {t} ELSE {})
  <2>1. ASSUME NEW s \in {Drop(t, i) : i \in K}
        PROVE  s \in {Drop(st, i) : i \in J} \/ (x[1] = "crawl" /\ s = t)
    <3>1. PICK i \in K : s = Drop(t, i)
      OBVIOUS
    <3>2. CASE i = 0
      BY <3>1, <3>2, <1>4, <1>7
    <3>3. CASE i # 0
      BY <3>1, <3>3, <1>6, <1>10
    <3> QED
      BY <3>2, <3>3
  <2>2. ASSUME NEW s \in {Drop(st, i) : i \in J}
        PROVE  s \in {Drop(t, i) : i \in K}
    <3>1. PICK i \in J : s = Drop(st, i)
      OBVIOUS
    <3> QED
      BY <3>1, <1>5, <1>9
  <2>3. x[1] = "crawl" => t \in {Drop(t, i) : i \in K}
    BY <1>4, <1>7
  <2> QED
    BY <2>1, <2>2, <2>3
<1> QED
  BY <1>11, <1>12 DEF t

\* An empty stack holds no jump.
LEMMA NoJumps == JumpsIn(<<>>) = {}
<1>1. {j \in 0..(Len(<<>>) - 1) : <<>>[j + 1][1] = "crawl"} = {}
  BY EmptySeq
<1> QED
  BY <1>1 DEF JumpsIn

\* Pushing a value pushes no jump.
LEMMA JumpsOfValue ==
    ASSUME NEW st \in Seq(Cells), NEW x \in Plain \cup {Counter}
    PROVE  /\ <<x>> \o st \in Seq(Cells)
           /\ JumpsIn(<<x>> \o st) = JumpsIn(st)
<1>1. x \in Cells /\ x[1] # "crawl"
  BY PlainCells
<1> QED
  BY <1>1, PushingCells, JumpsBelowValue

\* What Setjump leaves on the stack: one jump more.
LEMMA JumpCells ==
    ASSUME NEW d \in Nat, NEW m \in Moments
    PROVE  /\ Jump(d, m) \in Seq(Cells)
           /\ <<"crawl", Len(m.cr)>> \in Cells /\ <<"track", d>> \in Cells
           /\ <<<<"track", d>>>> \o m.st \in Seq(Cells)
           /\ m.st \in Seq(Cells)
           /\ JumpsIn(Jump(d, m)) = JumpsIn(m.st) \cup {Jump(d, m)}
           /\ KindsOf(Jump(d, m)) = AJump \o KindsOf(m.st)
<1> DEFINE x == <<"crawl", Len(m.cr)>>  y == <<"track", d>>  s == m.st
<1>1. s \in Seq(Cells) /\ Len(m.cr) \in Nat
  BY DEF Moments
<1>2. x \in Cells /\ y \in Cells /\ x[1] = "crawl" /\ y[1] = "track"
  BY <1>1 DEF Cells
<1> HIDE DEF x, y, s
<1>3. <<y>> \o s \in Seq(Cells)
  BY <1>1, <1>2, PushingCells
<1>4. <<x>> \o (<<y>> \o s) \in Seq(Cells)
  BY <1>2, <1>3, PushingCells
<1>5. JumpsIn(<<y>> \o s) = JumpsIn(s)
  BY <1>1, <1>2, JumpsBelowValue
<1>6. JumpsIn(<<x>> \o (<<y>> \o s)) = JumpsIn(s) \cup {<<x>> \o (<<y>> \o s)}
  BY <1>2, <1>3, <1>5, JumpsBelowValue
<1>7. KindsOf(<<x>> \o (<<y>> \o s)) = <<"crawl">> \o (<<"track">> \o KindsOf(s))
  BY <1>1, <1>2, <1>3, PushingKinds
<1>8. <<"crawl">> \o (<<"track">> \o KindsOf(s)) = AJump \o KindsOf(s)
  <2>1. IsSeq(KindsOf(s))
    BY <1>1, KindsAreSeqs
  <2> QED
    BY <2>1, PushingTwo DEF AJump
<1>9. Jump(d, m) = <<x>> \o (<<y>> \o s)
  BY DEF Jump, x, y, s
<1> QED
  BY <1>1, <1>2, <1>3, <1>4, <1>6, <1>7, <1>8, <1>9 DEF x, y, s

\* A crawl, popped or grown, is a crawl.
LEMMA IntsAreSeqs ==
    ASSUME NEW cr \in Seq(Int)
    PROVE  /\ IsSeq(cr) /\ Len(cr) \in Nat
           /\ \A k \in 0..Len(cr) : Drop(cr, k) \in Seq(Int)
           /\ \A x \in Int : <<x>> \o cr \in Seq(Int)
<1>1. IsSeq(cr) /\ Len(cr) \in Nat
  BY DEF IsSeq
<1>2. ASSUME NEW k \in 0..Len(cr)
      PROVE  Drop(cr, k) \in Seq(Int)
  <2>1. \A i \in (k + 1)..Len(cr) : cr[i] \in Int
    BY <1>1
  <2> QED
    BY <1>1, <2>1, SubSeqProperties DEF Drop
<1>3. \A x \in Int : <<x>> \o cr \in Seq(Int)
  BY ConcatProperties
<1> QED
  BY <1>1, <1>2, <1>3

\* A crawl extends itself.
LEMMA ExtendsSame ==
    ASSUME NEW cr \in Seq(Int)
    PROVE  Extends(cr, cr)
BY IntsAreSeqs, PoppingNone DEF Extends

\* A crawl that grows by one slot still extends what it extended.
LEMMA ExtendsByOne ==
    ASSUME NEW cr \in Seq(Int), NEW before \in Seq(Int), Extends(cr, before), NEW x \in Int
    PROVE  Extends(<<x>> \o cr, before)
<1>1. IsSeq(cr) /\ Len(cr) \in Nat /\ Len(before) \in Nat
  BY IntsAreSeqs
<1>2. Len(<<x>> \o cr) = Len(cr) + 1
  BY <1>1, Pushing
<1> DEFINE k == Len(cr) - Len(before)
<1>3. k \in 0..Len(cr) /\ Drop(cr, k) = before
  BY <1>1 DEF Extends
<1>4. Drop(<<x>> \o cr, k + 1) = before
  BY <1>1, <1>3, PushedPopped
<1>5. Len(<<x>> \o cr) - Len(before) = k + 1 /\ Len(before) <= Len(<<x>> \o cr)
  BY <1>1, <1>2, <1>3
<1> QED
  BY <1>4, <1>5 DEF Extends

\* Extending is transitive.
LEMMA ExtendsFurther ==
    ASSUME NEW a \in Seq(Int), NEW b \in Seq(Int), NEW d \in Seq(Int), Extends(a, b), Extends(b, d)
    PROVE  Extends(a, d)
<1>1. IsSeq(a) /\ Len(a) \in Nat /\ Len(b) \in Nat /\ Len(d) \in Nat
  BY IntsAreSeqs
<1> DEFINE i == Len(a) - Len(b)  j == Len(b) - Len(d)
<1>2. i \in Nat /\ j \in Nat /\ i + j <= Len(a) /\ Drop(a, i) = b /\ Drop(b, j) = d
  BY <1>1 DEF Extends
<1>3. Drop(Drop(a, i), j) = Drop(a, i + j)
  BY <1>1, <1>2, PoppingTwice
<1>4. i + j = Len(a) - Len(d) /\ Len(d) <= Len(a)
  BY <1>1, <1>2
<1> QED
  BY <1>2, <1>3, <1>4 DEF Extends

----------------------------------------------------------------------------
(* The track as a log                                                      *)
(*                                                                         *)
(* Every entry was pushed by an instruction that led from one moment to    *)
(* the next; going back to it leads from hi to lo again.                   *)

SameMoment(lo, hi) == hi.st = lo.st /\ hi.cr = lo.cr
Above(lo, hi, k) == hi.st = lo.st /\ Len(hi.cr) = Len(lo.cr) + k

\* The mark of a loop lies on top of lo and is saved as v.
MarkSaved(lo, below, v, N) == \E x \in Plain : lo = <<x>> \o below /\ Describes(x, v, N)

\* So does its count, and the mark below it is saved as v.
CountSaved(lo, below, v, N) ==
    \E x \in {Value, Place} : lo = <<Counter>> \o (<<x>> \o below) /\ Describes(x, v, N)

\* What a loop over characters may give up, and what a lazy one may take.
MayGiveUp(i, from, left, N) ==
    N \in Nat => from \in 0..N /\ left \in Nat /\ IF i.rtl THEN from + left <= N ELSE left <= from
MayTake(i, from, left, N) ==
    N \in Nat => from \in 0..N /\ left \in Nat /\ IF i.rtl THEN left + 1 <= from ELSE from + left + 1 <= N

\* What an instruction has pushed when it was entered going forward: an entry of
\* n slots on a track of depth b.
Left(c, q, e, n, b, lo, hi, N) ==
    LET op == c[q].op IN
    \/ op = "Lazybranch" /\ n = 2 /\ SameMoment(lo, hi) /\ Placed(e[2], N)
    \/ op \in CharLoops /\ n = 3 /\ SameMoment(lo, hi) /\ MayGiveUp(c[q], e[2], e[3], N)
    \/ op \in CharLazies /\ n = 3 /\ SameMoment(lo, hi) /\ MayTake(c[q], e[2], e[3], N)
    \/ op = "Setmark" /\ n = 1 /\ hi.st = <<MarkCell>> \o lo.st /\ hi.cr = lo.cr
    \/ op = "Nullmark" /\ n = 1 /\ hi.st = <<Value>> \o lo.st /\ hi.cr = lo.cr
    \/ op \in {"Setcount", "Nullcount"} /\ n = 1
         /\ hi.st = <<Counter>> \o (<<Value>> \o lo.st) /\ hi.cr = lo.cr
    \/ op = "Setjump" /\ n = 1 /\ hi.st = Jump(b, lo) /\ hi.cr = lo.cr
    \/ op = "ResetCapture" /\ n = 1 /\ Above(lo, hi, 1)
    \/ op = "Getmark" /\ n = 2 /\ lo.st = <<MarkCell>> \o hi.st /\ hi.cr = lo.cr /\ Placed(e[2], N)
    \/ op = "Capturemark" /\ n = 2 /\ lo.st = <<MarkCell>> \o hi.st /\ Placed(e[2], N)
         /\ Len(hi.cr) = Len(lo.cr) + (IF c[q].x # -1 /\ c[q].y # -1 THEN 2 ELSE 1)
    \/ op = "Branchmark" /\ n = 3 /\ SameMoment(lo, hi) /\ Placed(e[2], N)
         /\ \E s \in Seq(Cells) : MarkSaved(lo.st, s, e[3], N)
    \/ op = "Lazybranchmark" /\ n = 3 /\ MarkSaved(lo.st, hi.st, e[3], N) /\ hi.cr = lo.cr
         /\ Placed(e[2], N)
    \/ op = "Branchcount" /\ n = 2 /\ hi.cr = lo.cr
         /\ \E s \in Seq(Cells) : CountSaved(lo.st, s, e[2], N) /\ hi.st = <<Counter>> \o (<<Place>> \o s)
    \/ op = "Lazybranchcount" /\ n = 4 /\ CountSaved(lo.st, hi.st, e[4], N) /\ hi.cr = lo.cr
         /\ Placed(e[2], N)
    \/ op = "Forejump" /\ n = 2 /\ hi.st = lo.st /\ e[2] = Len(lo.cr)

\* And when it was entered going back, or has left a loop.
LeftAgain(c, q, e, n, lo, hi, N) ==
    LET op == c[q].op IN
    \/ op = "Branchmark" /\ n = 2 /\ MarkSaved(lo.st, hi.st, e[2], N) /\ hi.cr = lo.cr
    \/ op = "Lazybranchmark" /\ n = 3 /\ hi.cr = lo.cr
         /\ \E s \in Seq(Cells) : MarkSaved(lo.st, s, e[3], N) /\ hi.st = IF e[2] # 0 THEN lo.st ELSE s
    \/ op = "Branchcount" /\ n = 3 /\ CountSaved(lo.st, hi.st, e[3], N) /\ hi.cr = lo.cr
    \/ op = "Lazybranchcount" /\ n = 2 /\ SameMoment(lo, hi)
         /\ \E s \in Seq(Cells) : CountSaved(lo.st, s, e[2], N)

\* e is the track from an entry of depth d down to its end, which lies on depth b.
\* H.up are the heights that the track may reach, and H.len is the length of the text if
\* positions are to be followed.
Entry(c, e, d, b, lo, hi, H) ==
    \E q \in DOMAIN Frame(c) :
        /\ b = 0 <=> q = 1
        /\ b + Frame(c)[q].room \in H.up
        /\ c[q].op # "Forejump" => KindsOf(lo.st) = Frame(c)[q].cells
        /\ \/ e[1] = q /\ Left(c, q, e, d - b, b, lo, hi, H.len)
           \/ e[1] = -q /\ LeftAgain(c, q, e, d - b, lo, hi, H.len)

\* log gives the moment at every depth at which an entry ends.
IsLog(c, tr, H, log) ==
    /\ IsSeq(tr)
    /\ DOMAIN log \subseteq 0..Len(tr) /\ {0, Len(tr)} \subseteq DOMAIN log
    /\ \A d \in DOMAIN log : log[d] \in Moments
    /\ \A d \in DOMAIN log : \E q \in DOMAIN Frame(c) : KindsOf(log[d].st) = Frame(c)[q].cells
    /\ log[0] = Blank
    /\ \A d \in DOMAIN log : d # 0 =>
         \E b \in DOMAIN log : b < d /\ Entry(c, Drop(tr, Len(tr) - d), d, b, log[b], log[d], H)
    /\ \A d, b \in DOMAIN log : b <= d => Extends(log[d].cr, log[b].cr)
    /\ \A d \in DOMAIN log : \A s \in JumpsIn(log[d].st) :
         \E b \in DOMAIN log : 2 <= b /\ b <= d /\ s = Jump(b, log[b])

\* The track leads back from a moment.
LeadsBack(c, tr, top, H) == \E log : IsLog(c, tr, H, log) /\ log[Len(tr)] = top

\* Whatever is below a height may be reached as well.
IsHeights(H) == H.up \subseteq Nat /\ \A h \in H.up : \A k \in 0..h : k \in H.up

Below(H, H2) == H.up \subseteq H2.up /\ H2.len = H.len

\* No entry is longer than its instruction may push.
LEMMA LeftSize ==
    ASSUME NEW c, NEW q, NEW e, NEW n, NEW b, NEW lo, NEW hi, NEW N,
           Left(c, q, e, n, b, lo, hi, N) \/ LeftAgain(c, q, e, n, lo, hi, N)
    PROVE  n \in 1..4 /\ n <= Pushes(c[q].op)
<1>1. CASE Left(c, q, e, n, b, lo, hi, N)
  <2> DEFINE op == c[q].op
  <2>1. \/ op \in {"Setmark", "Nullmark", "Setcount", "Nullcount", "Setjump", "ResetCapture"} /\ n = 1
        \/ op \in {"Lazybranch", "Getmark", "Capturemark", "Branchcount", "Forejump"} /\ n = 2
        \/ op \in {"Branchmark", "Lazybranchmark"} \cup CharLoops \cup CharLazies /\ n = 3
        \/ op = "Lazybranchcount" /\ n = 4
    BY <1>1 DEF Left
  <2> HIDE DEF op
  <2>2. n \in 1..4 /\ n <= Pushes(op)
    BY <2>1 DEF Pushes, CharLoops, CharLazies
  <2> QED
    BY <2>2, SMTT(30) DEF op
<1>2. CASE LeftAgain(c, q, e, n, lo, hi, N)
  BY <1>2 DEF LeftAgain, Pushes, CharLoops, CharLazies
<1> QED
  BY <1>1, <1>2

\* Execution starts on an empty track.
LEMMA LeadsBackStart ==
    ASSUME NEW c, NEW H, 1 \in DOMAIN Frame(c), Frame(c)[1].cells = <<>>
    PROVE  LeadsBack(c, <<>>, Blank, H)
<1> DEFINE log == [d \in {0} |-> Blank]
<1>1. IsSeq(<<>>) /\ Len(<<>>) = 0
  BY EmptyIsSeq
<1>2. Blank \in Moments /\ Blank.st = <<>> /\ Blank.cr = <<>> /\ <<>> \in Seq(Int) /\ <<>> \in Seq(Cells)
  BY DEF Blank, Moments
<1>3. KindsOf(<<>>) = <<>>
  <2>1. IsSeq(KindsOf(<<>>)) /\ Len(KindsOf(<<>>)) = 0
    BY <1>1, <1>2, KindsAreSeqs
  <2> QED
    BY <2>1, <1>1, SameSeq
<1>4. Extends(Blank.cr, Blank.cr)
  BY <1>2, ExtendsSame
<1>5. JumpsIn(Blank.st) = {}
  BY <1>2, NoJumps
<1>6. DOMAIN log = {0} /\ log[0] = Blank /\ DOMAIN log \subseteq 0..0
  OBVIOUS
<1> HIDE DEF log
<1>7. IsLog(c, <<>>, H, log)
  BY <1>1, <1>2, <1>3, <1>4, <1>5, <1>6 DEF IsLog
<1> QED
  BY <1>1, <1>6, <1>7 DEF LeadsBack

\* What a track that leads back from a moment tells of that moment.
LEMMA LeadsBackTypes ==
    ASSUME NEW c, NEW tr, NEW top, NEW H, LeadsBack(c, tr, top, H)
    PROVE  /\ IsSeq(tr) /\ Len(tr) \in Nat
           /\ top \in Moments /\ top.st \in Seq(Cells) /\ top.cr \in Seq(Int)
           /\ \E q \in DOMAIN Frame(c) : KindsOf(top.st) = Frame(c)[q].cells
           /\ tr = <<>> => top = Blank
<1>1. PICK log : IsLog(c, tr, H, log) /\ log[Len(tr)] = top
  BY DEF LeadsBack
<1>2. IsSeq(tr) /\ Len(tr) \in Nat
  BY <1>1, LenNat DEF IsLog
<1>3. top \in Moments
  BY <1>1 DEF IsLog
<1>4. \E q \in DOMAIN Frame(c) : KindsOf(top.st) = Frame(c)[q].cells
  BY <1>1 DEF IsLog
<1>5. tr = <<>> => top = Blank
  BY <1>1, EmptyIsSeq DEF IsLog
<1> QED
  BY <1>2, <1>3, <1>4, <1>5 DEF Moments

\* No entry ends one slot above the bottom: the first one has two.
LEMMA DepthsOfEntries ==
    ASSUME NEW c, NEW p \in Progs, WellShaped(c, p), NEW tr, NEW H, NEW log, IsLog(c, tr, H, log),
           NEW d \in DOMAIN log
    PROVE  d \in Nat /\ (d = 0 \/ d >= 2)
<1>1. d \in Nat /\ DOMAIN log \subseteq Nat
  BY LenNat DEF IsLog
<1>2. CASE d # 0
  <2>1. PICK b \in DOMAIN log : b < d /\ Entry(c, Drop(tr, Len(tr) - d), d, b, log[b], log[d], H)
    BY <1>2 DEF IsLog
  <2>2. CASE b # 0
    BY <2>1, <2>2, <1>1
  <2>3. CASE b = 0
    <3>1. PICK q \in DOMAIN Frame(c) :
             /\ b = 0 <=> q = 1
             /\ \/ Left(c, q, Drop(tr, Len(tr) - d), d - b, b, log[b], log[d], H.len)
                \/ LeftAgain(c, q, Drop(tr, Len(tr) - d), d - b, log[b], log[d], H.len)
      BY <2>1 DEF Entry
    <3>2. c[q].op = "Lazybranch"
      BY <3>1, <2>3 DEF WellShaped, Framed
    <3>3. d - b = 2
      BY <3>1, <3>2 DEF Left, LeftAgain, CharLoops, CharLazies
    <3> QED
      BY <3>3, <2>3, <1>1
  <2> QED
    BY <2>2, <2>3
<1> QED
  BY <1>1, <1>2

\* Below the end of an entry the track is a log as well.
LEMMA LeadsBackCut ==
    ASSUME NEW c, NEW tr, NEW H, NEW log, IsLog(c, tr, H, log), NEW b \in DOMAIN log
    PROVE  /\ b \in 0..Len(tr) /\ Len(tr) \in Nat
           /\ LeadsBack(c, Drop(tr, Len(tr) - b), log[b], H)
           /\ Len(Drop(tr, Len(tr) - b)) = b
<1> DEFINE D == DOMAIN log
<1>2. /\ IsSeq(tr) /\ Len(tr) \in Nat /\ D \subseteq 0..Len(tr) /\ 0 \in D /\ Len(tr) \in D
  BY LenNat DEF IsLog
<1> DEFINE n == Len(tr) - b
           t == Drop(tr, n)
           M == {d \in D : d <= b}
           below == [d \in M |-> log[d]]
<1>5. n \in 0..Len(tr) /\ Len(tr) - n = b /\ b \in Nat /\ b \in 0..Len(tr)
  BY <1>2
<1>6. IsSeq(t) /\ Len(t) = b
  BY <1>2, <1>5, Popping
<1>7. \A d \in M : d \in D /\ d \in 0..b /\ below[d] = log[d]
  BY <1>2, <1>5
<1>8. M = DOMAIN below /\ b \in M /\ 0 \in M
  BY <1>2, <1>5
<1>9. ASSUME NEW d \in M
      PROVE  Drop(t, Len(t) - d) = Drop(tr, Len(tr) - d)
  <2>0. d \in 0..b /\ Len(t) = b /\ n \in Nat /\ Len(tr) - n = b /\ b \in Nat /\ Len(tr) \in Nat
    BY <1>2, <1>5, <1>6, <1>7
  <2> HIDE DEF n, t, M
  <2>1. Len(t) - d \in Nat /\ n + (Len(t) - d) <= Len(tr) /\ n + (Len(t) - d) = Len(tr) - d
    BY <2>0
  <2>2. n \in Nat
    BY <2>0
  <2> USE DEF t
  <2> QED
    BY <2>1, <2>2, <1>2, PoppingTwice
<1>a. \A a \in D : \A d \in M : a <= d => a \in M
  BY <1>2, <1>5, <1>7
<1> HIDE DEF n, t, M, below
<1>10. IsLog(c, t, H, below)
  <2>1. \A d \in M : log[d] \in Moments /\ \E q \in DOMAIN Frame(c) : KindsOf(log[d].st) = Frame(c)[q].cells
    BY <1>7 DEF IsLog
  <2>2. log[0] = Blank
    BY DEF IsLog
  <2>3. ASSUME NEW d \in M, d # 0
        PROVE  \E a \in M : a < d /\ Entry(c, Drop(t, Len(t) - d), d, a, below[a], below[d], H)
    <3>1. PICK a \in D : a < d /\ Entry(c, Drop(tr, Len(tr) - d), d, a, log[a], log[d], H)
      BY <1>7, <2>3 DEF IsLog
    <3>2. a \in M
      <4>1. a \in Int /\ d \in Int
        BY <1>2, <1>7
      <4>2. a <= d
        BY <3>1, <4>1
      <4> QED
        BY <4>2, <1>a
    <3> QED
      BY <3>1, <3>2, <1>7, <1>9
  <2>4. \A d, a \in M : a <= d => Extends(log[d].cr, log[a].cr)
    BY <1>7 DEF IsLog
  <2>5. ASSUME NEW d \in M, NEW s \in JumpsIn(below[d].st)
        PROVE  \E a \in M : 2 <= a /\ a <= d /\ s = Jump(a, below[a])
    <3>0. d \in D /\ s \in JumpsIn(log[d].st)
      BY <1>7, <2>5
    <3>1. PICK a \in D : 2 <= a /\ a <= d /\ s = Jump(a, log[a])
      BY <3>0 DEF IsLog
    <3>2. a \in M
      BY <3>1, <1>a
    <3> QED
      BY <3>1, <3>2, <1>7
  <2>6. M \subseteq 0..Len(t) /\ {0, Len(t)} \subseteq M
    BY <1>6, <1>7, <1>8
  <2>7. \A d \in M : below[d] = log[d]
    BY <1>7
  <2>8. /\ \A d \in M : below[d] \in Moments /\ \E q \in DOMAIN Frame(c) : KindsOf(below[d].st) = Frame(c)[q].cells
        /\ below[0] = Blank
        /\ \A d, a \in M : a <= d => Extends(below[d].cr, below[a].cr)
    BY <2>1, <2>2, <2>4, <2>7, <1>8
  <2> HIDE <2>7
  <2> QED
    BY <1>6, <1>8, <2>3, <2>5, <2>6, <2>8 DEF IsLog
<1>11. LeadsBack(c, t, log[b], H)
  BY <1>6, <1>7, <1>8, <1>10 DEF LeadsBack
<1> QED
  BY <1>2, <1>5, <1>6, <1>11 DEF t, n

\* Going back over the last entry.
LEMMA LeadsBackPop ==
    ASSUME NEW c, NEW p \in Progs, WellShaped(c, p), NEW tr, NEW hi, NEW H, LeadsBack(c, tr, hi, H), Len(tr) > 0
    PROVE  \E n \in 1..Len(tr), lo \in Moments :
              /\ Entry(c, tr, Len(tr), Len(tr) - n, lo, hi, H)
              /\ LeadsBack(c, Drop(tr, n), lo, H)
              /\ Len(Drop(tr, n)) = Len(tr) - n
              /\ Len(tr) - n # 0 => Len(tr) - n >= 2
              /\ Extends(hi.cr, lo.cr)
<1>1. PICK log : IsLog(c, tr, H, log) /\ log[Len(tr)] = hi
  BY DEF LeadsBack
<1> DEFINE D == DOMAIN log
<1>2. /\ IsSeq(tr) /\ Len(tr) \in Nat /\ D \subseteq 0..Len(tr) /\ 0 \in D /\ Len(tr) \in D
  BY <1>1, LenNat DEF IsLog
<1>3. Drop(tr, Len(tr) - Len(tr)) = tr
  BY <1>2, PoppingNone
<1>4. PICK b \in D : b < Len(tr) /\ Entry(c, tr, Len(tr), b, log[b], hi, H)
  BY <1>1, <1>2, <1>3 DEF IsLog
<1> DEFINE n == Len(tr) - b
<1>5. n \in 1..Len(tr) /\ Len(tr) - n = b
  BY <1>2, <1>4
<1>6. LeadsBack(c, Drop(tr, n), log[b], H) /\ Len(Drop(tr, n)) = b
  BY <1>1, LeadsBackCut
<1>7. Extends(hi.cr, log[b].cr) /\ log[b] \in Moments
  BY <1>1, <1>2, <1>4 DEF IsLog
<1>8. b = 0 \/ b >= 2
  BY <1>1, DepthsOfEntries
<1> HIDE DEF n
<1> QED
  BY <1>4, <1>5, <1>6, <1>7, <1>8

\* Going back to where Setjump was.
Landing(c, tr, top, H, s, b, lo) ==
    /\ b \in 2..Len(tr) /\ lo \in Moments
    /\ s = Jump(b, lo)
    /\ LeadsBack(c, Drop(tr, Len(tr) - b), lo, H)
    /\ Len(Drop(tr, Len(tr) - b)) = b
    /\ Extends(top.cr, lo.cr)

\* A jump on the grouping stack lands on a moment of the log that the track still leads
\* back from (runner.go, Backjump and Forejump: the track is cut there).
LEMMA LeadsBackJump ==
    ASSUME NEW c, NEW tr, NEW top, NEW H, LeadsBack(c, tr, top, H), NEW s, s \in JumpsIn(top.st)
    PROVE  \E b, lo : Landing(c, tr, top, H, s, b, lo)
<1>1. PICK log : IsLog(c, tr, H, log) /\ log[Len(tr)] = top
  BY DEF LeadsBack
<1> DEFINE D == DOMAIN log
<1>2. /\ IsSeq(tr) /\ Len(tr) \in Nat /\ D \subseteq 0..Len(tr) /\ 0 \in D /\ Len(tr) \in D
  BY <1>1, LenNat DEF IsLog
<1>4. PICK b \in D : 2 <= b /\ b <= Len(tr) /\ s = Jump(b, log[b])
  BY <1>1, <1>2 DEF IsLog
<1>5. b \in 2..Len(tr)
  BY <1>2, <1>4
<1>6. LeadsBack(c, Drop(tr, Len(tr) - b), log[b], H) /\ Len(Drop(tr, Len(tr) - b)) = b
  BY <1>1, LeadsBackCut
<1>7. Extends(top.cr, log[b].cr) /\ log[b] \in Moments
  BY <1>1, <1>2, <1>4 DEF IsLog
<1> QED
  BY <1>4, <1>5, <1>6, <1>7 DEF Landing

\* The only jump that a step can add is the one to where it started.
JumpsKnown(b, lo, hi) == \A s \in JumpsIn(hi.st) : s \in JumpsIn(lo.st) \/ (b >= 2 /\ s = Jump(b, lo))

\* One more entry.
LEMMA LeadsBackPush ==
    ASSUME NEW c, NEW base, NEW lo, NEW H, LeadsBack(c, base, lo, H),
           NEW tr, IsSeq(tr), NEW n \in 1..Len(tr), Len(tr) = Len(base) + n, Drop(tr, n) = base,
           NEW hi \in Moments, Entry(c, tr, Len(tr), Len(base), lo, hi, H), Extends(hi.cr, lo.cr),
           \E q \in DOMAIN Frame(c) : KindsOf(hi.st) = Frame(c)[q].cells,
           JumpsKnown(Len(base), lo, hi)
    PROVE  LeadsBack(c, tr, hi, H)
<1>1. PICK old : IsLog(c, base, H, old) /\ old[Len(base)] = lo
  BY DEF LeadsBack
<1> DEFINE b == Len(base)  D == DOMAIN old  M == D \cup {Len(tr)}
           log == [d \in M |-> IF d = Len(tr) THEN hi ELSE old[d]]
<1>2. /\ IsSeq(base) /\ b \in Nat /\ D \subseteq 0..b /\ 0 \in D /\ b \in D
      /\ Len(tr) \in Nat /\ b < Len(tr)
  BY <1>1, LenNat DEF IsLog
<1>3. M = DOMAIN log /\ M \subseteq 0..Len(tr) /\ {0, Len(tr)} \subseteq M
  BY <1>2
<1>4. /\ \A d \in D : log[d] = old[d] /\ d # Len(tr) /\ d \in M /\ d \in 0..b
      /\ log[Len(tr)] = hi
  BY <1>2
<1>5. \A d \in M : d \in D \/ d = Len(tr)
  OBVIOUS
<1>6. ASSUME NEW d \in D
      PROVE  Drop(tr, Len(tr) - d) = Drop(base, b - d)
  <2>1. n \in Nat /\ b - d \in Nat /\ n + (b - d) <= Len(tr) /\ n + (b - d) = Len(tr) - d
    BY <1>2
  <2> QED
    BY <2>1, PoppingTwice
<1>7. Drop(tr, Len(tr) - Len(tr)) = tr
  BY <1>2, PoppingNone
<1> HIDE DEF log, M
<1>8. \A d \in M : log[d] \in Moments /\ \E q \in DOMAIN Frame(c) : KindsOf(log[d].st) = Frame(c)[q].cells
  BY <1>1, <1>4, <1>5 DEF IsLog
<1>9. log[0] = Blank
  BY <1>1, <1>2, <1>4 DEF IsLog
<1>10. ASSUME NEW d \in M, d # 0
       PROVE  \E a \in M : a < d /\ Entry(c, Drop(tr, Len(tr) - d), d, a, log[a], log[d], H)
  <2>1. CASE d \in D
    <3>1. PICK a \in D : a < d /\ Entry(c, Drop(base, b - d), d, a, old[a], old[d], H)
      BY <1>1, <1>10, <2>1 DEF IsLog
    <3> QED
      BY <3>1, <2>1, <1>4, <1>6
  <2>2. CASE d = Len(tr)
    BY <2>2, <1>1, <1>2, <1>4, <1>7
  <2> QED
    BY <2>1, <2>2, <1>5
<1>11. ASSUME NEW d \in M, NEW a \in M, a <= d
       PROVE  Extends(log[d].cr, log[a].cr)
  <2>0. hi.cr \in Seq(Int) /\ \A e \in D : old[e].cr \in Seq(Int)
    BY <1>1 DEF IsLog, Moments
  <2>1. CASE d \in D
    <3>1. a \in D
      BY <2>1, <1>2, <1>4, <1>5, <1>11
    <3> QED
      BY <3>1, <2>1, <1>1, <1>4, <1>11 DEF IsLog
  <2>2. CASE d = Len(tr) /\ a \in D
    <3>1. Extends(old[b].cr, old[a].cr)
      BY <2>2, <1>1, <1>2, <1>4 DEF IsLog
    <3> QED
      BY <3>1, <2>0, <2>2, <1>1, <1>2, <1>4, ExtendsFurther
  <2>3. CASE d = Len(tr) /\ a = Len(tr)
    BY <2>0, <2>3, <1>4, ExtendsSame
  <2> QED
    BY <2>1, <2>2, <2>3, <1>5
<1>12. ASSUME NEW d \in M, NEW s \in JumpsIn(log[d].st)
       PROVE  \E a \in M : 2 <= a /\ a <= d /\ s = Jump(a, log[a])
  <2>1. CASE d \in D
    <3>1. PICK a \in D : 2 <= a /\ a <= d /\ s = Jump(a, old[a])
      BY <2>1, <1>1, <1>4, <1>12 DEF IsLog
    <3> QED
      BY <3>1, <1>4
  <2>2. CASE d = Len(tr) /\ s \in JumpsIn(lo.st)
    <3>1. PICK a \in D : 2 <= a /\ a <= b /\ s = Jump(a, old[a])
      BY <2>2, <1>1, <1>2 DEF IsLog
    <3>2. a <= d
      BY <3>1, <2>2, <1>2
    <3> QED
      BY <3>1, <3>2, <1>4
  <2>3. CASE d = Len(tr) /\ b >= 2 /\ s = Jump(b, lo)
    BY <2>3, <1>1, <1>2, <1>4
  <2> QED
    <3>1. s \in JumpsIn(hi.st) => s \in JumpsIn(lo.st) \/ (b >= 2 /\ s = Jump(b, lo))
      BY DEF JumpsKnown
    <3> QED
      BY <3>1, <2>1, <2>2, <2>3, <1>4, <1>5, <1>12
<1>13. IsLog(c, tr, H, log)
  BY <1>3, <1>8, <1>9, <1>10, <1>11, <1>12 DEF IsLog
<1> QED
  BY <1>13, <1>4 DEF LeadsBack

\* More room changes no log.
LEMMA LeadsBackHigher ==
    ASSUME NEW c, NEW tr, NEW top, NEW H, NEW H2, Below(H, H2), LeadsBack(c, tr, top, H)
    PROVE  LeadsBack(c, tr, top, H2)
<1>1. PICK log : IsLog(c, tr, H, log) /\ log[Len(tr)] = top
  BY DEF LeadsBack
<1>2. \A e, d, b, lo, hi : Entry(c, e, d, b, lo, hi, H) => Entry(c, e, d, b, lo, hi, H2)
  BY DEF Entry, Below
<1>3. \A d \in DOMAIN log : d # 0 =>
         \E b \in DOMAIN log : b < d /\ Entry(c, Drop(tr, Len(tr) - d), d, b, log[b], log[d], H)
  BY <1>1 DEF IsLog
<1>4. \A d \in DOMAIN log : d # 0 =>
         \E b \in DOMAIN log : b < d /\ Entry(c, Drop(tr, Len(tr) - d), d, b, log[b], log[d], H2)
  BY <1>2, <1>3
<1>5. IsLog(c, tr, H2, log)
  BY <1>1, <1>4 DEF IsLog
<1> QED
  BY <1>1, <1>5 DEF LeadsBack

\* Only the slots of an entry matter.
LEMMA LeftSame ==
    ASSUME NEW c, NEW q, NEW e, NEW v, NEW n \in Nat, NEW b, NEW lo, NEW hi, NEW N,
           \A i \in 1..n : v[i] = e[i]
    PROVE  /\ Left(c, q, e, n, b, lo, hi, N) => v[1] = e[1] /\ Left(c, q, v, n, b, lo, hi, N)
           /\ LeftAgain(c, q, e, n, lo, hi, N) => v[1] = e[1] /\ LeftAgain(c, q, v, n, lo, hi, N)
<1>1. /\ n = 1 => v[1] = e[1]
      /\ n = 2 => v[1] = e[1] /\ v[2] = e[2]
      /\ n = 3 => v[1] = e[1] /\ v[2] = e[2] /\ v[3] = e[3]
      /\ n = 4 => v[1] = e[1] /\ v[2] = e[2] /\ v[3] = e[3] /\ v[4] = e[4]
  OBVIOUS
<1>2. ASSUME Left(c, q, e, n, b, lo, hi, N)
      PROVE  v[1] = e[1] /\ Left(c, q, v, n, b, lo, hi, N)
  <2>1. n \in 1..4
    BY <1>2, LeftSize
  <2>2. CASE n = 1
    BY <1>1, <1>2, <2>2 DEF Left
  <2>3. CASE n = 2
    BY <1>1, <1>2, <2>3 DEF Left
  <2>4. CASE n = 3
    BY <1>1, <1>2, <2>4 DEF Left
  <2>5. CASE n = 4
    BY <1>1, <1>2, <2>5 DEF Left
  <2> QED
    BY <2>1, <2>2, <2>3, <2>4, <2>5
<1>3. ASSUME LeftAgain(c, q, e, n, lo, hi, N)
      PROVE  v[1] = e[1] /\ LeftAgain(c, q, v, n, lo, hi, N)
  <2>1. n = 2 \/ n = 3
    BY <1>3, SMTT(30) DEF LeftAgain
  <2> QED
    BY <1>1, <1>3, <2>1 DEF LeftAgain
<1> QED
  BY <1>2, <1>3

\* UpdateBumpalong changes the bottom slot, which is not part of the log.
LEMMA LeadsBackBump ==
    ASSUME NEW c, NEW p \in Progs, WellShaped(c, p), NEW tr, NEW top, NEW H, LeadsBack(c, tr, top, H),
           Len(tr) >= 2, NEW x, Placed(x, H.len) \/ x = tr[Len(tr)]
    PROVE  LET u == [tr EXCEPT ![Len(tr)] = x]
           IN  LeadsBack(c, u, top, H) /\ Len(u) = Len(tr)
<1> DEFINE n == Len(tr)  u == [tr EXCEPT ![n] = x]
<1>1. PICK log : IsLog(c, tr, H, log) /\ log[n] = top
  BY DEF LeadsBack
<1>2. IsSeq(tr) /\ n \in Nat /\ DOMAIN log \subseteq 0..n
  BY <1>1, LenNat DEF IsLog
<1>3. PICK S : tr \in Seq(S)
  BY <1>2 DEF IsSeq
<1>4. tr \in Seq(S \cup {x}) /\ n \in 1..n
  BY <1>2, <1>3, SeqMonotonic
<1>5. u \in Seq(S \cup {x}) /\ Len(u) = n /\ u[n] = x /\ \A i \in 1..n : i # n => u[i] = tr[i]
  BY <1>4, SMTT(30)
<1>6. IsSeq(u)
  BY <1>5 DEF IsSeq
<1> HIDE DEF u, n
<1>7. ASSUME NEW d \in DOMAIN log, d # 0
      PROVE  \E b \in DOMAIN log : b < d /\ Entry(c, Drop(u, n - d), d, b, log[b], log[d], H)
  <2> DEFINE e == Drop(tr, n - d)  v == Drop(u, n - d)
  <2>1. d \in Nat /\ d >= 2 /\ d <= n /\ n - d \in 0..n
    BY <1>1, <1>2, <1>7, DepthsOfEntries DEF n
  <2>2. (\A i \in 1..(d - 1) : v[i] = e[i]) /\ (Placed(v[d], H.len) \/ v[d] = e[d])
    <3>1. \A i \in 1..d : e[i] = tr[i + (n - d)]
      <4>1. n - d \in 0..Len(tr) /\ Len(tr) - (n - d) = d
        BY <1>2, <2>1 DEF n
      <4> QED
        BY <4>1, <1>2, Popping
    <3>2. \A i \in 1..d : v[i] = u[i + (n - d)]
      <4>1. n - d \in 0..Len(u) /\ Len(u) - (n - d) = d
        BY <1>2, <1>5, <2>1
      <4> QED
        BY <4>1, <1>6, Popping
    <3>3. \A i \in 1..(d - 1) : i \in 1..d /\ i + (n - d) \in 1..n /\ i + (n - d) # n
      BY <1>2, <2>1
    <3>4. d \in 1..d /\ d + (n - d) = n
      BY <1>2, <2>1
    <3>5. v[d] = x /\ e[d] = tr[n]
      BY <3>1, <3>2, <3>4, <1>5
    <3>6. Placed(x, H.len) \/ x = tr[n]
      BY DEF n
    <3>7. \A i \in 1..(d - 1) : v[i] = e[i]
      <4> HIDE DEF e, v
      <4> QED
        BY <3>1, <3>2, <3>3, <1>5
    <3> HIDE DEF e, v
    <3> QED
      BY <3>5, <3>6, <3>7
  <2>3. PICK b \in DOMAIN log : b < d /\ Entry(c, e, d, b, log[b], log[d], H)
    BY <1>1, <1>7 DEF IsLog, n
  <2> HIDE DEF e, v
  <2>4. Entry(c, v, d, b, log[b], log[d], H)
    <3>1. PICK q \in DOMAIN Frame(c) :
            /\ b = 0 <=> q = 1
            /\ b + Frame(c)[q].room \in H.up
            /\ c[q].op # "Forejump" => KindsOf(log[b].st) = Frame(c)[q].cells
            /\ \/ e[1] = q /\ Left(c, q, e, d - b, b, log[b], log[d], H.len)
               \/ e[1] = -q /\ LeftAgain(c, q, e, d - b, log[b], log[d], H.len)
      BY <2>3 DEF Entry
    <3>2. CASE b = 0
      <4>1. c[q].op = "Lazybranch"
        BY <3>1, <3>2 DEF WellShaped, Framed
      <4>2. Left(c, q, e, d - b, b, log[b], log[d], H.len) /\ d - b = 2 /\ Placed(e[2], H.len)
        BY <3>1, <4>1 DEF Left, LeftAgain, CharLoops, CharLazies
      <4>3. d = 2 /\ 1 \in 1..(d - 1)
        BY <2>1, <3>2, <4>2
      <4>4. v[1] = e[1] /\ Placed(v[2], H.len)
        BY <2>2, <4>2, <4>3
      <4>5. Left(c, q, v, d - b, b, log[b], log[d], H.len)
        BY <4>1, <4>2, <4>4 DEF Left, CharLoops, CharLazies
      <4>6. e[1] = q
        <5>1. ~LeftAgain(c, q, e, d - b, log[b], log[d], H.len)
          BY <4>1 DEF LeftAgain
        <5> QED
          BY <3>1, <5>1
      <4> QED
        BY <3>1, <4>4, <4>5, <4>6 DEF Entry
    <3>3. CASE b # 0
      <4> DEFINE k == d - b
      <4>1. b \in Nat /\ b < d /\ b > 0
        BY <1>2, <2>3, <3>3
      <4>2. k \in Nat /\ k < d
        BY <2>1, <4>1
      <4>3. \A i \in 1..k : v[i] = e[i]
        <5>1. \A i \in 1..k : i \in 1..(d - 1)
          BY <2>1, <4>2
        <5> HIDE DEF k
        <5> QED
          BY <2>2, <5>1
      <4> HIDE DEF k
      <4>4. /\ e[1] = q /\ Left(c, q, e, k, b, log[b], log[d], H.len)
               => v[1] = q /\ Left(c, q, v, k, b, log[b], log[d], H.len)
            /\ e[1] = -q /\ LeftAgain(c, q, e, k, log[b], log[d], H.len)
               => v[1] = -q /\ LeftAgain(c, q, v, k, log[b], log[d], H.len)
        BY <4>2, <4>3, LeftSame
      <4> QED
        BY <3>1, <4>4 DEF Entry, k
    <3> QED
      BY <3>2, <3>3
  <2> QED
    BY <2>3, <2>4 DEF v
<1>8. IsLog(c, u, H, log)
  BY <1>1, <1>5, <1>6, <1>7 DEF IsLog, n
<1>9. LeadsBack(c, u, top, H)
  BY <1>1, <1>5, <1>8 DEF LeadsBack
<1> QED
  BY <1>5, <1>9 DEF u, n

----------------------------------------------------------------------------
(* Where an instruction starts from, and where it leads                    *)

\* The track has depth Len(base) and the moment is lo when q is carried out.
From(c, q, base, lo, H) ==
    /\ LeadsBack(c, base, lo, H)
    /\ q \in DOMAIN Frame(c) /\ q # Len(c)
    /\ q = 1 => base = <<>>
    /\ q # 1 => Len(base) >= 2
    /\ Len(base) + Frame(c)[q].room \in H.up
    /\ c[q].op # "Forejump" => KindsOf(lo.st) = Frame(c)[q].cells

\* Going back, over the whole track if need be.
Back(c, tr, st, cr, H) ==
    Len(tr) >= 2 /\ \E top : LeadsBack(c, tr, top, H) /\ Represents(top.st, st, H.len) /\ top.cr = cr

\* Going forward, s is next.
Reaches(c, s, tr, st, cr, H) ==
    /\ s \in DOMAIN Frame(c)
    /\ s = 1 => tr = <<>>
    /\ s \in 2..(Len(c) - 1) => Len(tr) >= 2
    /\ s = Len(c) => cr = <<>> \/ (Len(cr) > 0 /\ cr[1] = 0)
    /\ \E top : /\ LeadsBack(c, tr, top, H) /\ Represents(top.st, st, H.len) /\ top.cr = cr
                /\ KindsOf(top.st) = Frame(c)[s].cells

Forward(c, s, tr, st, cr, H) ==
    Reaches(c, s, tr, st, cr, H) /\ Len(tr) + Frame(c)[s].room \in H.up

\* Going forward from q, s is next; room is made for it if s does not lie ahead.
Arrives(c, q, s, tr, st, cr, H) ==
    /\ Reaches(c, s, tr, st, cr, H)
    /\ Len(tr) \in H.up
    /\ s > q => Len(tr) + Frame(c)[s].room \in H.up

\* The shape of well-shaped code, in pieces.
LEMMA ShapeFacts ==
    ASSUME NEW c, NEW p \in Progs, WellShaped(c, p)
    PROVE  /\ Len(c) \in Nat /\ Len(c) > 2
           /\ DOMAIN Frame(c) \subseteq 1..Len(c)
           /\ 1 \in DOMAIN Frame(c) /\ Frame(c)[1].cells = <<>> /\ c[1].op = "Lazybranch"
           /\ c[1].to = <<Len(c)>> /\ Falls(c, Frame(c), 1, <<>>) /\ Leads(c, Frame(c), 1, Len(c), <<>>)
           /\ Len(c) \in DOMAIN Frame(c) /\ Frame(c)[Len(c)].cells = <<>> /\ c[Len(c)].op = "Stop"
           /\ c[Len(c) - 1].op = "Capturemark" /\ c[Len(c) - 1].x = 0 /\ c[Len(c) - 1].y = -1
           /\ \A q \in DOMAIN Frame(c) : /\ Frame(c)[q].room \in Nat
                                         /\ Frame(c)[q].room <= 4 * p.tracks
                                         /\ Frame(c)[q].cells \in Seq(CellKinds)
                                         /\ Len(Frame(c)[q].cells) <= InitialStack(p)
           /\ \A q \in DOMAIN Frame(c) : q # 1 /\ q # Len(c) => Keeps(c, Frame(c), q)
<1>1. Framed(c) /\ DOMAIN Frame(c) \subseteq 1..Len(c)
  BY DEF WellShaped
<1>2. Len(c) \in Nat /\ Len(c) > 2
  BY <1>1 DEF Framed
<1>3. \A q \in DOMAIN Frame(c) : q # 1 /\ q # Len(c) => q \in 2..(Len(c) - 1)
  BY <1>1, <1>2
<1>4. \A q \in DOMAIN Frame(c) : q # 1 /\ q # Len(c) => Keeps(c, Frame(c), q)
  BY <1>3 DEF WellShaped
<1>5. \A q \in DOMAIN Frame(c) : /\ Frame(c)[q].room \in Nat
                                 /\ Frame(c)[q].room <= 4 * p.tracks
                                 /\ Frame(c)[q].cells \in Seq(CellKinds)
                                 /\ Len(Frame(c)[q].cells) <= InitialStack(p)
  BY DEF WellShaped
<1> QED
  BY <1>1, <1>2, <1>4, <1>5 DEF Framed, Leads

\* Whatever an instruction pushes, there is room for it.
LEMMA RoomToPush ==
    ASSUME NEW c, NEW p \in Progs, WellShaped(c, p), NEW q \in DOMAIN Frame(c)
    PROVE  Pushes(c[q].op) \in 0..4 /\ Pushes(c[q].op) <= Frame(c)[q].room
<1> DEFINE op == c[q].op  f == Frame(c)
<1>1. Pushes(op) \in 0..4
  BY DEF Pushes
<1>2. /\ Len(c) \in Nat /\ DOMAIN f \subseteq 1..Len(c) /\ \A s \in DOMAIN f : f[s].room \in Nat
      /\ q # 1 /\ q # Len(c) => Keeps(c, f, q)
      /\ q = 1 => op = "Lazybranch" /\ Falls(c, f, 1, <<>>)
      /\ q = Len(c) => op = "Stop"
  BY ShapeFacts
<1>3. ASSUME NEW cells, Falls(c, f, q, cells)
      PROVE  Pushes(op) <= f[q].room
  <2>1. q + 1 \in DOMAIN f /\ (q + 1 > q => Pushes(op) + f[q + 1].room <= f[q].room)
    BY <1>3 DEF Falls, Leads
  <2>2. q \in Nat /\ f[q].room \in Nat /\ f[q + 1].room \in Nat
    BY <2>1, <1>2
  <2>3. q + 1 > q
    BY <2>2
  <2> HIDE DEF f, op
  <2> QED
    BY <2>1, <2>2, <2>3, <1>1
<1>4. ASSUME ~\E cells : Falls(c, f, q, cells)
      PROVE  op \in {"Goto", "Dispatch", "Nothing", "Backjump", "Stop"}
  <2>1. CASE q # 1 /\ q # Len(c)
    BY <2>1, <1>2, <1>4 DEF Keeps, Takes
  <2> QED
    BY <2>1, <1>2, <1>4
<1>5. op \in {"Goto", "Dispatch", "Nothing", "Backjump", "Stop"} => Pushes(op) = 0
  BY DEF Pushes, CharLoops, CharLazies
<1> QED
  BY <1>1, <1>2, <1>3, <1>4, <1>5

\* Only Setjump marks a place to jump back to.
LEMMA LeftJumps ==
    ASSUME NEW c, NEW q, NEW e, NEW n, NEW b \in Nat, NEW lo \in Moments, NEW hi \in Moments, NEW N,
           Left(c, q, e, n, b, lo, hi, N) \/ LeftAgain(c, q, e, n, lo, hi, N),
           c[q].op = "Setjump" => b >= 2
    PROVE  JumpsKnown(b, lo, hi)
<1>1. lo.st \in Seq(Cells) /\ hi.st \in Seq(Cells)
  BY DEF Moments
<1>2. \A s \in Seq(Cells), x \in Plain \cup {Counter} :
         <<x>> \o s \in Seq(Cells) /\ JumpsIn(<<x>> \o s) = JumpsIn(s)
  BY JumpsOfValue
<1>3. \A s \in Seq(Cells), x, y \in Plain \cup {Counter} : JumpsIn(<<x>> \o (<<y>> \o s)) = JumpsIn(s)
  BY <1>2
<1>4. /\ \A s, v : MarkSaved(lo.st, s, v, N) /\ s \in Seq(Cells) => JumpsIn(lo.st) = JumpsIn(s)
      /\ \A s, v : CountSaved(lo.st, s, v, N) /\ s \in Seq(Cells) => JumpsIn(lo.st) = JumpsIn(s)
  <2>1. {Value, Place} \subseteq Plain
    BY PlainCells
  <2>2. ASSUME NEW s \in Seq(Cells), NEW v, MarkSaved(lo.st, s, v, N)
        PROVE  JumpsIn(lo.st) = JumpsIn(s)
    <3>1. PICK x \in Plain : lo.st = <<x>> \o s
      BY <2>2 DEF MarkSaved
    <3> QED
      BY <3>1, <1>2
  <2>3. ASSUME NEW s \in Seq(Cells), NEW v, CountSaved(lo.st, s, v, N)
        PROVE  JumpsIn(lo.st) = JumpsIn(s)
    <3>1. PICK x \in {Value, Place} : lo.st = <<Counter>> \o (<<x>> \o s)
      BY <2>3 DEF CountSaved
    <3>2. x \in Plain \cup {Counter} /\ Counter \in Plain \cup {Counter}
      BY <2>1
    <3> QED
      BY <3>1, <3>2, <1>3
  <2> QED
    BY <2>2, <2>3
<1>5. JumpsIn(Jump(b, lo)) = JumpsIn(lo.st) \cup {Jump(b, lo)}
  BY JumpCells
<1>6. \/ JumpsIn(hi.st) = JumpsIn(lo.st)
      \/ c[q].op = "Setjump" /\ hi.st = Jump(b, lo)
  <2>0. {Value, Place, MarkCell} \subseteq Plain
    BY PlainCells
  <2>1. CASE Left(c, q, e, n, b, lo, hi, N)
    <3>1. \/ hi.st = lo.st
          \/ hi.st = <<MarkCell>> \o lo.st
          \/ hi.st = <<Value>> \o lo.st
          \/ hi.st = <<Counter>> \o (<<Value>> \o lo.st)
          \/ lo.st = <<MarkCell>> \o hi.st
          \/ \E v : MarkSaved(lo.st, hi.st, v, N)
          \/ \E v : CountSaved(lo.st, hi.st, v, N)
          \/ \E v : \E s \in Seq(Cells) : CountSaved(lo.st, s, v, N) /\ hi.st = <<Counter>> \o (<<Place>> \o s)
          \/ c[q].op = "Setjump" /\ hi.st = Jump(b, lo)
      BY <2>1 DEF Left, SameMoment, Above
    <3>2. {Value, Place, MarkCell, Counter} \subseteq Plain \cup {Counter}
      BY <2>0
    <3>3. CASE hi.st = <<MarkCell>> \o lo.st \/ hi.st = <<Value>> \o lo.st \/ lo.st = <<MarkCell>> \o hi.st
      BY <3>2, <3>3, <1>1, <1>2
    <3>4. CASE hi.st = <<Counter>> \o (<<Value>> \o lo.st)
      BY <3>2, <3>4, <1>1, <1>3
    <3>5. CASE \E v : \E s \in Seq(Cells) : CountSaved(lo.st, s, v, N) /\ hi.st = <<Counter>> \o (<<Place>> \o s)
      BY <3>2, <3>5, <1>1, <1>3, <1>4
    <3>6. CASE (\E v : MarkSaved(lo.st, hi.st, v, N)) \/ (\E v : CountSaved(lo.st, hi.st, v, N))
      BY <3>6, <1>1, <1>4
    <3> QED
      BY <3>1, <3>3, <3>4, <3>5, <3>6
  <2>2. CASE LeftAgain(c, q, e, n, lo, hi, N)
    <3>1. \/ hi.st = lo.st
          \/ \E v : MarkSaved(lo.st, hi.st, v, N)
          \/ \E v : CountSaved(lo.st, hi.st, v, N)
          \/ \E v : \E s \in Seq(Cells) : MarkSaved(lo.st, s, v, N) /\ (hi.st = lo.st \/ hi.st = s)
      BY <2>2 DEF LeftAgain, SameMoment
    <3> QED
      BY <3>1, <1>1, <1>4
  <2> QED
    BY <2>1, <2>2
<1> QED
  BY <1>5, <1>6 DEF JumpsKnown

\* An instruction pushes an entry and s is next.
LEMMA PushTo ==
    ASSUME NEW c, NEW p \in Progs, WellShaped(c, p), NEW H, IsHeights(H),
           NEW q, NEW base, NEW lo, From(c, q, base, lo, H),
           NEW tr, IsSeq(tr), NEW n, Len(tr) = Len(base) + n, Drop(tr, n) = base,
           NEW hi \in Moments,
           \/ tr[1] = q /\ Left(c, q, tr, n, Len(base), lo, hi, H.len)
           \/ tr[1] = -q /\ LeftAgain(c, q, tr, n, lo, hi, H.len),
           Extends(hi.cr, lo.cr),
           NEW st, Represents(hi.st, st, H.len),
           NEW s, s # 1, Leads(c, Frame(c), q, s, KindsOf(hi.st)),
           s = Len(c) => Len(hi.cr) > 0 /\ hi.cr[1] = 0
    PROVE  Arrives(c, q, s, tr, st, hi.cr, H)
<1> DEFINE f == Frame(c)  b == Len(base)
<1>1. LeadsBack(c, base, lo, H) /\ b \in Nat /\ lo \in Moments
  BY LeadsBackTypes DEF From
<1>2. /\ q \in DOMAIN f /\ s \in DOMAIN f /\ f[s].cells = KindsOf(hi.st)
      /\ DOMAIN f \subseteq 1..Len(c) /\ Len(c) \in Nat
      /\ f[q].room \in Nat /\ f[s].room \in Nat /\ q \in Nat /\ s \in Nat
  BY ShapeFacts DEF From, Leads
<1>3. n \in 1..4 /\ n <= Pushes(c[q].op)
  BY LeftSize
<1>4. Pushes(c[q].op) \in 0..4 /\ Pushes(c[q].op) <= f[q].room
  BY <1>2, RoomToPush
<1>5. b = 0 <=> q = 1
  BY EmptyIsSeq DEF From
<1>6. n \in 1..Len(tr) /\ Len(tr) \in Nat
  BY <1>1, <1>3
<1>7. Len(tr) >= 2
  <2>1. CASE q = 1
    <3>1. c[q].op = "Lazybranch"
      BY <2>1, ShapeFacts
    <3>2. n = 2
      BY <3>1 DEF Left, LeftAgain, CharLoops, CharLazies
    <3> QED
      BY <3>2, <1>1
  <2>2. CASE q # 1
    BY <2>2, <1>1, <1>3 DEF From
  <2> QED
    BY <2>1, <2>2
<1>8. Entry(c, tr, Len(tr), b, lo, hi, H)
  <2>1. Len(tr) - b = n
    BY <1>1, <1>3
  <2>2. b + f[q].room \in H.up /\ (c[q].op # "Forejump" => KindsOf(lo.st) = f[q].cells)
    BY DEF From
  <2> QED
    BY <1>2, <1>5, <2>1, <2>2 DEF Entry
<1>9. JumpsKnown(b, lo, hi)
  <2>1. c[q].op = "Setjump" => b >= 2
    BY ShapeFacts DEF From
  <2>2. CASE Left(c, q, tr, n, b, lo, hi, H.len)
    BY <2>1, <2>2, <1>1, LeftJumps
  <2>3. CASE LeftAgain(c, q, tr, n, lo, hi, H.len)
    BY <2>1, <2>3, <1>1, LeftJumps
  <2> QED
    BY <2>2, <2>3
<1>10. LeadsBack(c, tr, hi, H)
  BY <1>1, <1>2, <1>6, <1>8, <1>9, LeadsBackPush
<1>11. Reaches(c, s, tr, st, hi.cr, H)
  BY <1>2, <1>7, <1>10 DEF Reaches
<1>12. Len(tr) \in H.up /\ (s > q => Len(tr) + f[s].room \in H.up)
  <2>1. b + f[q].room \in H.up
    BY DEF From
  <2>2. \A k \in 0..(b + f[q].room) : k \in H.up
    BY <2>1 DEF IsHeights
  <2>3. Len(tr) \in 0..(b + f[q].room)
    BY <1>1, <1>2, <1>3, <1>4, <1>6
  <2>4. s > q => Pushes(c[q].op) + f[s].room <= f[q].room
    BY DEF Leads
  <2>5. s > q => Len(tr) + f[s].room \in 0..(b + f[q].room)
    <3> HIDE DEF f, b
    <3> QED
      BY <2>4, <1>1, <1>2, <1>3, <1>4, <1>6, SMTT(30) DEF b
  <2> QED
    BY <2>2, <2>3, <2>5
<1> QED
  BY <1>11, <1>12 DEF Arrives

\* It pushes nothing and s is next.
LEMMA PassTo ==
    ASSUME NEW c, NEW p \in Progs, WellShaped(c, p), NEW H, IsHeights(H),
           NEW q, q # 1, NEW tr, NEW m, From(c, q, tr, m, H),
           NEW st, Represents(m.st, st, H.len),
           NEW s, s # 1, s # Len(c), Leads(c, Frame(c), q, s, KindsOf(m.st))
    PROVE  Arrives(c, q, s, tr, st, m.cr, H)
<1> DEFINE f == Frame(c)
<1>1. LeadsBack(c, tr, m, H) /\ Len(tr) \in Nat /\ Len(tr) >= 2
  BY LeadsBackTypes DEF From
<1>2. /\ q \in DOMAIN f /\ s \in DOMAIN f /\ f[s].cells = KindsOf(m.st)
      /\ DOMAIN f \subseteq 1..Len(c) /\ Len(c) \in Nat
      /\ f[q].room \in Nat /\ f[s].room \in Nat /\ q \in Nat /\ s \in Nat
  BY ShapeFacts DEF From, Leads
<1>3. Pushes(c[q].op) \in 0..4
  BY <1>2, RoomToPush
<1>4. Reaches(c, s, tr, st, m.cr, H)
  BY <1>1, <1>2 DEF Reaches
<1>5. Len(tr) \in H.up /\ (s > q => Len(tr) + f[s].room \in H.up)
  <2>1. Len(tr) + f[q].room \in H.up
    BY DEF From
  <2>2. \A k \in 0..(Len(tr) + f[q].room) : k \in H.up
    BY <2>1 DEF IsHeights
  <2>3. s > q => Pushes(c[q].op) + f[s].room <= f[q].room
    BY DEF Leads
  <2> HIDE DEF f
  <2>4. Len(tr) \in 0..(Len(tr) + f[q].room) /\ (s > q => Len(tr) + f[s].room \in 0..(Len(tr) + f[q].room))
    BY <1>1, <1>2, <1>3, <2>3
  <2> QED
    BY <2>2, <2>4
<1> QED
  BY <1>4, <1>5 DEF Arrives

\* It goes back, having undone what it did.
LEMMA FailTo ==
    ASSUME NEW c, NEW H, NEW q, q # 1, NEW tr, NEW m, From(c, q, tr, m, H), NEW st, Represents(m.st, st, H.len)
    PROVE  Back(c, tr, st, m.cr, H)
BY DEF From, Back

\* An instruction that is reached going forward.
LEMMA FromForward ==
    ASSUME NEW c, NEW p \in Progs, WellShaped(c, p), NEW H, NEW q, q # Len(c),
           NEW tr, NEW st, NEW cr, Forward(c, q, tr, st, cr, H)
    PROVE  \E lo \in Moments :
              /\ From(c, q, tr, lo, H) /\ Represents(lo.st, st, H.len) /\ lo.cr = cr
              /\ KindsOf(lo.st) = Frame(c)[q].cells
<1>1. PICK lo : /\ LeadsBack(c, tr, lo, H) /\ Represents(lo.st, st, H.len) /\ lo.cr = cr
                /\ KindsOf(lo.st) = Frame(c)[q].cells
  BY DEF Forward, Reaches
<1>2. lo \in Moments /\ Len(tr) \in Nat
  BY <1>1, LeadsBackTypes
<1>3. Len(c) \in Nat /\ q \in 1..Len(c)
  BY ShapeFacts DEF Forward, Reaches
<1>4. q # 1 => Len(tr) >= 2
  <2>1. q # 1 => q \in 2..(Len(c) - 1)
    BY <1>3
  <2> QED
    BY <2>1 DEF Forward, Reaches
<1>5. From(c, q, tr, lo, H)
  BY <1>1, <1>4 DEF From, Forward, Reaches
<1> QED
  BY <1>1, <1>2, <1>5

\* The instruction q, which x stands for on top of rest, has led from a moment lo,
\* described by its frame, to the moment at which it is undone.
CameFrom(c, q, x, rest, st, cr, H) ==
    \E k \in 0..Len(rest), lo \in Moments, hi \in Moments :
           /\ From(c, q, Drop(rest, k), lo, H)
           /\ Len(Drop(rest, k)) = Len(rest) - k
           /\ Len(Drop(rest, k)) # 1
           /\ x = q => Left(c, q, <<x>> \o rest, k + 1, Len(Drop(rest, k)), lo, hi, H.len)
           /\ x = -q => LeftAgain(c, q, <<x>> \o rest, k + 1, lo, hi, H.len)
           /\ Represents(hi.st, st, H.len) /\ hi.cr = cr /\ Extends(hi.cr, lo.cr)
           /\ KindsOf(lo.st) = Frame(c)[q].cells \/ c[q].op = "Forejump"

\* An instruction that is come back to: it undoes what led from lo to hi.
LEMMA FromBack ==
    ASSUME NEW c, NEW p \in Progs, WellShaped(c, p), NEW H, NEW q \in DOMAIN Frame(c),
           NEW x, x \in {q, -q}, NEW rest, IsSeq(rest), NEW st, NEW cr, Back(c, <<x>> \o rest, st, cr, H)
    PROVE  CameFrom(c, q, x, rest, st, cr, H)
<1> DEFINE tr == <<x>> \o rest  f == Frame(c)
<1>1. PICK hi : LeadsBack(c, tr, hi, H) /\ Represents(hi.st, st, H.len) /\ hi.cr = cr
  BY DEF Back
<1>2. IsSeq(tr) /\ Len(tr) = Len(rest) + 1 /\ tr[1] = x /\ Len(rest) \in Nat
  BY Pushing, LenNat
<1>3. hi \in Moments
  BY <1>1, LeadsBackTypes
<1>4. DOMAIN f \subseteq 1..Len(c) /\ Len(c) \in Nat /\ c[Len(c)].op = "Stop"
  BY ShapeFacts
<1>d. \A k \in 0..Len(rest) : Drop(tr, k + 1) = Drop(rest, k)
  BY PushedPopped
<1> HIDE DEF tr
<1>5. PICK n \in 1..Len(tr), lo \in Moments :
              /\ Entry(c, tr, Len(tr), Len(tr) - n, lo, hi, H)
              /\ LeadsBack(c, Drop(tr, n), lo, H)
              /\ Len(Drop(tr, n)) = Len(tr) - n
              /\ Len(tr) - n # 0 => Len(tr) - n >= 2
              /\ Extends(hi.cr, lo.cr)
  <2>1. Len(tr) > 0
    BY <1>2
  <2> QED
    BY <1>1, <2>1, LeadsBackPop
<1> DEFINE k == n - 1
<1>6. k \in 0..Len(rest) /\ n = k + 1 /\ Len(tr) - n = Len(rest) - k /\ Len(tr) - (Len(tr) - n) = k + 1
  BY <1>2
<1>7. Drop(tr, n) = Drop(rest, k)
  BY <1>6, <1>d
<1>8. PICK r \in DOMAIN f :
        /\ Len(tr) - n = 0 <=> r = 1
        /\ Len(tr) - n + f[r].room \in H.up
        /\ c[r].op # "Forejump" => KindsOf(lo.st) = f[r].cells
        /\ \/ tr[1] = r /\ Left(c, r, tr, k + 1, Len(tr) - n, lo, hi, H.len)
           \/ tr[1] = -r /\ LeftAgain(c, r, tr, k + 1, lo, hi, H.len)
  BY <1>5, <1>6 DEF Entry
<1>9. r = q /\ (x = q => tr[1] # -r) /\ (x = -q => tr[1] # r)
  BY <1>2, <1>4, <1>8
<1> HIDE DEF k
<1>10. q # Len(c)
  <2>1. c[q].op # "Stop"
    BY <1>8, <1>9 DEF Left, LeftAgain, CharLoops, CharLazies
  <2> QED
    BY <2>1, <1>4
<1>11. Len(Drop(rest, k)) = Len(rest) - k /\ LeadsBack(c, Drop(rest, k), lo, H)
  BY <1>5, <1>6, <1>7
<1>12. q = 1 => Drop(rest, k) = <<>>
  <2>1. SUFFICES ASSUME q = 1 PROVE Drop(rest, k) = <<>>
    OBVIOUS
  <2>2. Len(rest) - k = 0
    BY <2>1, <1>6, <1>8, <1>9
  <2>3. k = Len(rest)
    BY <2>2, <1>2, <1>6
  <2> QED
    BY <2>3, PoppingAll
<1>13. From(c, q, Drop(rest, k), lo, H)
  BY <1>5, <1>6, <1>8, <1>9, <1>10, <1>11, <1>12 DEF From
<1>14. Len(Drop(rest, k)) # 1
  BY <1>5, <1>6, <1>11
<1>15. /\ x = q => Left(c, q, tr, k + 1, Len(Drop(rest, k)), lo, hi, H.len)
       /\ x = -q => LeftAgain(c, q, tr, k + 1, lo, hi, H.len)
  BY <1>2, <1>6, <1>8, <1>9, <1>11
<1> QED
  BY <1>1, <1>3, <1>5, <1>6, <1>8, <1>9, <1>11, <1>13, <1>14, <1>15 DEF tr, CameFrom
=============================================================================
