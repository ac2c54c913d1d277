--------------------------- MODULE Rfc3339Proofs ---------------------------
(***************************************************************************)
(* The parser of Rfc3339 accepts the texts the forms describe, with the    *)
(* numbers they stand for, and reads back what the library writes.         *)
(*                                                                         *)
(* The argument goes through positions.  A text has a minus or not in      *)
(* front, and a dash or not behind the year, which fixes where the fields  *)
(* of a date are; a colon behind the minutes and a dot behind the seconds  *)
(* do so for a time.  The first part shows that Readings says the same as  *)
(* Readable and Reading, which look at these positions only; the second,   *)
(* that each step of the parser leaves in pos and fields what they say.    *)
(* In front of both is what the recursive functions of Decimals compute,   *)
(* for every text and every number: reading digits is the inverse of       *)
(* writing them.                                                           *)
(*                                                                         *)
(* The induction theorems of the library take an operator, which the       *)
(* provers cannot instantiate; induction is over sets of numbers here,     *)
(* from the fact that a set of natural numbers has a least one.            *)
(***************************************************************************)
EXTENDS Rfc3339, InstantsProofs, SequenceTheorems, WellFoundedInduction, TLAPS
-----------------------------------------------------------------------------
(* Numbers and their digits. *)

(* A set of natural numbers has a least one. *)
LEMMA LeastNumber ==
    ASSUME NEW T, T \subseteq Nat, T # {}
    PROVE  \E x \in T : \A y \in T : x <= y
<1> DEFINE R == {p \in Nat \X Nat : p[1] < p[2]}
<1>1. IsWellFoundedOn(R, Nat)
  BY NatLessThanWellFounded DEF OpToRel
<1>2. \A x, y \in Nat : <<x, y>> \in R <=> x < y
  OBVIOUS
<1> HIDE DEF R
<1>3. \E x \in T : \A y \in T : <<y, x>> \notin R
  BY <1>1, WFMin, Zenon
<1>4. PICK x \in T : \A y \in T : <<y, x>> \notin R
  BY <1>3
<1>5. ASSUME NEW y \in T PROVE x <= y
  <2>1. x \in Nat /\ y \in Nat
    BY Zenon
  <2>2. ~(y < x)
    BY <1>2, <1>4, <2>1, Zenon
  <2> QED BY <2>1, <2>2
<1> QED BY <1>5

(* Induction over the numbers in a set. *)
LEMMA NumbersInASet ==
    ASSUME NEW T, 0 \in T, \A n \in T : n \in Nat => n + 1 \in T
    PROVE  Nat \subseteq T
<1> DEFINE M == Nat \ T
<1> SUFFICES ASSUME M # {} PROVE FALSE
  OBVIOUS
<1>1. M \subseteq Nat
  OBVIOUS
<1> HIDE DEF M
<1>2. PICK m \in M : \A k \in M : m <= k
  BY <1>1, LeastNumber, Zenon
<1> QED BY <1>2 DEF M

-----------------------------------------------------------------------------
(* A function that starts from base and takes the first n steps. *)
Follows(f, n, S, base, step) ==
    /\ f \in [Nat -> S]
    /\ f[0] = base
    /\ \A i \in Nat : i < n => f[i + 1] = step[<<f[i], i>>]

LEMMA FollowsMore ==
    ASSUME NEW S, NEW base \in S, NEW step \in [S \X Nat -> S],
           NEW f, NEW n \in Nat, Follows(f, n, S, base, step)
    PROVE  \E g : Follows(g, n + 1, S, base, step)
<1> DEFINE g == [f EXCEPT ![n + 1] = step[<<f[n], n>>]]
<1>1. f[n] \in S /\ <<f[n], n>> \in S \X Nat
  BY DEF Follows
<1>2. g \in [Nat -> S] /\ g[0] = base
  BY <1>1 DEF Follows
<1>3. ASSUME NEW i \in Nat, i < n + 1 PROVE g[i + 1] = step[<<g[i], i>>]
  <2>1. CASE i = n
    BY <2>1 DEF Follows
  <2>2. CASE i < n
    BY <2>2 DEF Follows
  <2> QED BY <2>1, <2>2, <1>3
<1>4. Follows(g, n + 1, S, base, step)
  BY <1>2, <1>3 DEF Follows
<1> QED BY <1>4

(* A function may be defined by where it starts and how it goes on. *)
GoesOn(f, S, base, step) ==
    /\ f \in [Nat -> S]
    /\ f[0] = base
    /\ \A n \in Nat : f[n + 1] = step[<<f[n], n>>]

LEMMA Iterates ==
    ASSUME NEW S, NEW base \in S, NEW step \in [S \X Nat -> S]
    PROVE  \E f : GoesOn(f, S, base, step)
<1> DEFINE Goes(f, n) == Follows(f, n, S, base, step)
<1> DEFINE T == {n \in Nat : /\ \E f : Goes(f, n)
                             /\ \A f, g : Goes(f, n) /\ Goes(g, n) => f[n] = g[n]}
<1>0. ASSUME NEW n \in Nat, NEW f, Goes(f, n + 1)
      PROVE  Goes(f, n) /\ f[n + 1] = step[<<f[n], n>>]
  BY <1>0 DEF Follows
<1>1. 0 \in T
  <2>1. Goes([i \in Nat |-> base], 0)
    BY DEF Follows
  <2>2. \A f, g : Goes(f, 0) /\ Goes(g, 0) => f[0] = g[0]
    BY DEF Follows
  <2> QED BY <2>1, <2>2
<1>2. ASSUME NEW n \in T, n \in Nat PROVE n + 1 \in T
  <2>1. PICK f : Goes(f, n)
    BY <1>2
  <2>2. \E g : Goes(g, n + 1)
    BY <1>2, <2>1, FollowsMore
  <2>3. ASSUME NEW p, NEW q, Goes(p, n + 1), Goes(q, n + 1)
        PROVE  p[n + 1] = q[n + 1]
    <3>1. /\ Goes(p, n) /\ p[n + 1] = step[<<p[n], n>>]
          /\ Goes(q, n) /\ q[n + 1] = step[<<q[n], n>>]
      BY <1>0, <1>2, <2>3, Zenon
    <3>2. p[n] = q[n]
      BY <1>2, <3>1
    <3> QED BY <3>1, <3>2
  <2> QED BY <2>2, <2>3, <1>2
<1>3. ASSUME NEW n \in Nat
      PROVE  /\ \E f : Goes(f, n)
             /\ \A f, g : Goes(f, n) /\ Goes(g, n) => f[n] = g[n]
  <2> HIDE DEF T
  <2>1. Nat \subseteq T
    BY <1>1, <1>2, NumbersInASet
  <2> QED BY <2>1 DEF T
<1> DEFINE at(n) == CHOOSE v : \E f : Goes(f, n) /\ v = f[n]
<1>4. ASSUME NEW n \in Nat, NEW f, Goes(f, n)
      PROVE  at(n) = f[n]
  <2> HIDE DEF Goes
  <2> QED BY <1>3, <1>4
<1>5. ASSUME NEW n \in Nat
      PROVE  /\ at(n) \in S
             /\ at(n + 1) = step[<<at(n), n>>]
  <2>1. PICK f : Goes(f, n + 1)
    BY <1>3
  <2>2. Goes(f, n) /\ f[n + 1] = step[<<f[n], n>>]
    <3> HIDE DEF Goes, at
    <3> QED BY <1>0, <2>1, Zenon
  <2>3. at(n) = f[n] /\ at(n + 1) = f[n + 1]
    <3> HIDE DEF Goes, at
    <3> QED BY <1>4, <2>1, <2>2
  <2>4. f[n] \in S
    BY <2>1 DEF Follows
  <2> HIDE DEF at, Goes
  <2> QED BY <2>2, <2>3, <2>4
<1>6. at(0) = base
  <2>1. PICK f : Goes(f, 0)
    BY <1>3
  <2>2. at(0) = f[0]
    <3> HIDE DEF Goes, at
    <3> QED BY <1>4, <2>1
  <2>3. f[0] = base
    BY <2>1 DEF Follows
  <2> HIDE DEF at, Goes
  <2> QED BY <2>2, <2>3
<1> HIDE DEF at
<1> DEFINE h == [n \in Nat |-> at(n)]
<1>7. /\ h \in [Nat -> S]
      /\ h[0] = base
      /\ \A n \in Nat : h[n + 1] = step[<<h[n], n>>]
  <2>1. \A n \in Nat : n + 1 \in Nat /\ h[n] = at(n)
    OBVIOUS
  <2>2. h \in [Nat -> S]
    BY <1>5
  <2> HIDE DEF h
  <2> QED BY <1>5, <1>6, <2>1, <2>2
<1> HIDE DEF h, Goes
<1>8. GoesOn(h, S, base, step)
  BY <1>7 DEF GoesOn
<1> QED BY <1>8
-----------------------------------------------------------------------------
LEMMA Power10Def ==
    /\ Power10 \in [Nat -> Nat]
    /\ Power10[0] = 1
    /\ \A n \in Nat : Power10[n + 1] = 10 * Power10[n]
<1> DEFINE step == [p \in Nat \X Nat |-> 10 * p[1]]
           Is(f) == f = [n \in Nat |-> IF n = 0 THEN 1 ELSE 10 * f[n - 1]]
<1>1. step \in [Nat \X Nat -> Nat]
  OBVIOUS
<1>2. PICK f : GoesOn(f, Nat, 1, step)
  <2> HIDE DEF step
  <2>1. 1 \in Nat
    OBVIOUS
  <2> QED BY <1>1, <2>1, Iterates
<1>a. f \in [Nat -> Nat] /\ f[0] = 1 /\ \A n \in Nat : f[n + 1] = 10 * f[n]
  BY <1>2 DEF GoesOn
<1>3. Is(f)
  <2> DEFINE g == [n \in Nat |-> IF n = 0 THEN 1 ELSE 10 * f[n - 1]]
  <2>1. ASSUME NEW n \in Nat PROVE f[n] = g[n]
    <3>1. CASE n = 0
      BY <1>a, <3>1
    <3>2. CASE n # 0
      <4>1. n - 1 \in Nat /\ f[n - 1] \in Nat
        BY <1>a, <3>2
      <4>2. f[(n - 1) + 1] = 10 * f[n - 1]
        BY <1>a, <4>1
      <4>3. (n - 1) + 1 = n
        OBVIOUS
      <4> QED BY <3>2, <4>1, <4>2, <4>3
    <3> QED BY <3>1, <3>2
  <2>2. f = [n \in Nat |-> f[n]] /\ g = [n \in Nat |-> g[n]]
    BY <1>a
  <2>3. f = g
    <3> HIDE DEF g
    <3> QED BY <2>1, <2>2
  <2> QED BY <2>3
<1>4. Is(Power10)
  <2>1. Power10 = CHOOSE h : Is(h)
    BY DEF Power10
  <2> HIDE DEF Is
  <2> QED BY <1>3, <2>1
<1>5. Power10[0] = 1 /\ \A n \in Nat : Power10[n + 1] = 10 * Power10[n]
  BY <1>4
<1>6. Power10 \in [Nat -> Nat]
  <2> DEFINE T == {n \in Nat : Power10[n] \in Nat}
  <2>1. 0 \in T
    BY <1>5
  <2>2. \A n \in T : n \in Nat => n + 1 \in T
    BY <1>5
  <2>3. Nat \subseteq T
    <3> HIDE DEF T
    <3> QED BY <2>1, <2>2, NumbersInASet
  <2> QED BY <1>4, <2>3
<1> QED BY <1>5, <1>6

LEMMA Power10IsPositive == \A n \in Nat : Power10[n] \in Nat /\ Power10[n] >= 1
<1> DEFINE T == {n \in Nat : Power10[n] >= 1}
<1>1. 0 \in T
  BY Power10Def
<1>2. \A n \in T : n \in Nat => n + 1 \in T
  BY Power10Def
<1>3. Nat \subseteq T
  <2> HIDE DEF T
  <2> QED BY <1>1, <1>2, NumbersInASet
<1> QED BY <1>3, Power10Def

LEMMA Power10Adds ==
    \A a, b \in Nat : Power10[a + b] = Power10[a] * Power10[b]
<1> SUFFICES ASSUME NEW a \in Nat
             PROVE  \A b \in Nat : Power10[a + b] = Power10[a] * Power10[b]
  OBVIOUS
<1> DEFINE T == {b \in Nat : Power10[a + b] = Power10[a] * Power10[b]}
<1>1. 0 \in T
  BY Power10Def
<1>2. ASSUME NEW b \in T, b \in Nat PROVE b + 1 \in T
  <2>1. a + (b + 1) = (a + b) + 1 /\ a + b \in Nat
    BY <1>2
  <2>2. Power10[a + (b + 1)] = 10 * Power10[a + b] /\ Power10[b + 1] = 10 * Power10[b]
    BY <1>2, <2>1, Power10Def
  <2>3. Power10[a + b] = Power10[a] * Power10[b]
    BY <1>2
  <2>4. Power10[a] \in Nat /\ Power10[b] \in Nat
    BY <1>2, Power10Def
  <2>5. \A x, y \in Nat : 10 * (x * y) = x * (10 * y)
    OBVIOUS
  <2>6. Power10[a + (b + 1)] = Power10[a] * Power10[b + 1]
    BY <2>2, <2>3, <2>4, <2>5
  <2> QED BY <1>2, <2>6
<1>3. Nat \subseteq T
  <2> HIDE DEF T
  <2> QED BY <1>1, <1>2, NumbersInASet
<1> QED BY <1>3

LEMMA Power10Grows ==
    \A a, b \in Nat : a <= b => Power10[a] <= Power10[b]
<1> SUFFICES ASSUME NEW a \in Nat, NEW b \in Nat, a <= b
             PROVE  Power10[a] <= Power10[b]
  OBVIOUS
<1>1. b - a \in Nat /\ a + (b - a) = b
  OBVIOUS
<1>2. Power10[b] = Power10[a] * Power10[b - a]
  BY <1>1, Power10Adds
<1>3. \A x, y \in Nat : y >= 1 => x <= x * y
  OBVIOUS
<1> QED BY <1>1, <1>2, <1>3, Power10IsPositive

-----------------------------------------------------------------------------
LEMMA DigitsAreWritten ==
    \A n \in 0 .. 9 : Digit[n + 1] \in Digits /\ DigitValue(Digit[n + 1]) = n
<1> SUFFICES ASSUME NEW n \in 0 .. 9
             PROVE  Digit[n + 1] \in Digits /\ DigitValue(Digit[n + 1]) = n
  OBVIOUS
<1>1. Digit[n + 1] \in Digits
  BY DEF Digits, Digit
<1>2. \A m \in 0 .. 9 : Digit[m + 1] = Digit[n + 1] => m = n
  BY DEF Digit
<1>3. DigitValue(Digit[n + 1]) = n
  <2> HIDE DEF Digit
  <2> QED BY <1>2 DEF DigitValue
<1> QED BY <1>1, <1>3

LEMMA DigitsAreRead ==
    \A c \in Digits : DigitValue(c) \in 0 .. 9 /\ Digit[DigitValue(c) + 1] = c
<1> SUFFICES ASSUME NEW c \in Digits
             PROVE  DigitValue(c) \in 0 .. 9 /\ Digit[DigitValue(c) + 1] = c
  OBVIOUS
<1>1. \E n \in 0 .. 9 : Digit[n + 1] = c
  <2>1. PICK i \in 1 .. 10 : c = Digit[i]
    BY DEF Digits, Digit
  <2>2. i - 1 \in 0 .. 9 /\ (i - 1) + 1 = i
    OBVIOUS
  <2> QED BY <2>1, <2>2
<1> QED BY <1>1 DEF DigitValue

-----------------------------------------------------------------------------
(* The numbers of the beginnings of s. *)
Counts(f, s) ==
    /\ f \in [Nat -> Nat]
    /\ f[0] = 0
    /\ \A i \in 0 .. Len(s) - 1 : f[i + 1] = 10 * f[i] + DigitValue(s[i + 1])

LEMMA CountsExist ==
    ASSUME NEW s \in Seq(Digits)
    PROVE  \E f : Counts(f, s)
<1> DEFINE digit == [i \in Nat |-> IF i \in 0 .. Len(s) - 1 THEN DigitValue(s[i + 1]) ELSE 0]
           step == [p \in Nat \X Nat |-> 10 * p[1] + digit[p[2]]]
<1>1. digit \in [Nat -> Nat]
  BY DigitsAreRead
<1>2. step \in [Nat \X Nat -> Nat]
  <2> HIDE DEF digit
  <2>1. \A p \in Nat \X Nat : p[1] \in Nat /\ digit[p[2]] \in Nat
    BY <1>1
  <2>2. \A p \in Nat \X Nat : 10 * p[1] + digit[p[2]] \in Nat
    BY <2>1
  <2> QED BY <2>2
<1>3. PICK f : GoesOn(f, Nat, 0, step)
  <2> HIDE DEF step
  <2>1. 0 \in Nat
    OBVIOUS
  <2> QED BY <1>2, <2>1, Iterates
<1>4. /\ f \in [Nat -> Nat]
      /\ f[0] = 0
      /\ \A n \in Nat : f[n + 1] = 10 * f[n] + digit[n]
  <2> HIDE DEF digit
  <2> QED BY <1>1, <1>3 DEF GoesOn
<1>5. ASSUME NEW i \in 0 .. Len(s) - 1
      PROVE  f[i + 1] = 10 * f[i] + DigitValue(s[i + 1])
  <2>1. i \in Nat /\ digit[i] = DigitValue(s[i + 1])
    OBVIOUS
  <2> HIDE DEF digit
  <2> QED BY <1>4, <2>1
<1>6. Counts(f, s)
  BY <1>4, <1>5 DEF Counts
<1> QED BY <1>6

(* Whatever counts the digits of s comes to its number. *)
LEMMA NumberIsCounted ==
    ASSUME NEW s \in Seq(Digits), NEW f, Counts(f, s)
    PROVE  Number(s) = f[Len(s)]
<1> DEFINE N == Len(s)
           Is(h) == h = [i \in 0 .. N |->
                           IF i = 0 THEN 0 ELSE 10 * h[i - 1] + DigitValue(s[i])]
           value == CHOOSE h : Is(h)
<1>1. N \in Nat
  OBVIOUS
<1>2. Is([i \in 0 .. N |-> f[i]])
  <2> DEFINE g == [i \in 0 .. N |-> f[i]]
             r == [i \in 0 .. N |-> IF i = 0 THEN 0 ELSE 10 * g[i - 1] + DigitValue(s[i])]
  <2> HIDE DEF N
  <2>1. ASSUME NEW i \in 0 .. N PROVE g[i] = r[i]
    <3>1. CASE i = 0
      BY <3>1, <1>1 DEF Counts
    <3>2. CASE i # 0
      <4>1. i - 1 \in 0 .. N - 1 /\ (i - 1) + 1 = i /\ i - 1 \in 0 .. N
        BY <3>2, <1>1
      <4>2. f[i] = 10 * f[i - 1] + DigitValue(s[i])
        BY <4>1 DEF Counts, N
      <4> QED BY <3>2, <4>1, <4>2
    <3> QED BY <3>1, <3>2
  <2>2. g = [i \in 0 .. N |-> g[i]] /\ r = [i \in 0 .. N |-> r[i]]
    OBVIOUS
  <2>3. g = r
    <3> HIDE DEF g, r
    <3> QED BY <2>1, <2>2
  <2> QED BY <2>3
<1>3. Is(value)
  <2> HIDE DEF Is
  <2> QED BY <1>2
<1>4. \A i \in 0 .. N : value[i] = f[i]
  <2> DEFINE T == {i \in Nat : i <= N => value[i] = f[i]}
  <2> HIDE DEF N
  <2>1. 0 \in T
    <3>1. 0 \in 0 .. N
      BY <1>1
    <3>2. value[0] = 0
      <4> HIDE DEF value
      <4> QED BY <1>3, <3>1
    <3> HIDE DEF value
    <3> QED BY <3>2 DEF Counts
  <2>2. ASSUME NEW i \in T, i \in Nat PROVE i + 1 \in T
    <3>1. CASE i + 1 <= N
      <4>1. i \in 0 .. N /\ i + 1 \in 0 .. N /\ i \in 0 .. N - 1 /\ (i + 1) - 1 = i
        BY <2>2, <3>1, <1>1
      <4>2. value[i + 1] = 10 * value[i] + DigitValue(s[i + 1])
        <5> HIDE DEF value
        <5> QED BY <1>3, <2>2, <4>1
      <4>3. f[i + 1] = 10 * f[i] + DigitValue(s[i + 1])
        BY <4>1 DEF Counts, N
      <4>4. value[i] = f[i]
        BY <2>2, <4>1
      <4> HIDE DEF value
      <4> QED BY <2>2, <4>2, <4>3, <4>4
    <3>2. CASE ~(i + 1 <= N)
      BY <2>2, <3>2
    <3> QED BY <3>1, <3>2
  <2>3. Nat \subseteq T
    <3> HIDE DEF T
    <3> QED BY <2>1, <2>2, NumbersInASet
  <2> HIDE DEF value
  <2> QED BY <1>1, <2>3
<1>5. Number(s) = value[N]
  BY DEF Number
<1> QED BY <1>1, <1>4, <1>5

LEMMA CountsTheBeginnings ==
    ASSUME NEW s \in Seq(Digits), NEW f, Counts(f, s), NEW k \in 0 .. Len(s)
    PROVE  SubSeq(s, 1, k) \in Seq(Digits) /\ Number(SubSeq(s, 1, k)) = f[k]
<1> DEFINE b == SubSeq(s, 1, k)
<1>1. /\ k \in Nat
      /\ b \in Seq(Digits)
      /\ Len(b) = k
      /\ \A i \in 1 .. k : b[i] = s[i]
  OBVIOUS
<1> HIDE DEF b
<1>2. Counts(f, b)
  <2>1. ASSUME NEW i \in 0 .. k - 1
        PROVE  f[i + 1] = 10 * f[i] + DigitValue(b[i + 1])
    <3>1. i + 1 \in 1 .. k /\ i \in 0 .. Len(s) - 1
      BY <1>1
    <3> QED BY <1>1, <3>1 DEF Counts
  <2> QED BY <1>1, <2>1 DEF Counts
<1>3. Number(b) = f[k]
  BY <1>1, <1>2, NumberIsCounted
<1> QED BY <1>1, <1>3 DEF b

LEMMA NumberIsANumber ==
    ASSUME NEW s \in Seq(Digits)
    PROVE  Number(s) \in Nat
<1>1. PICK f : Counts(f, s)
  BY CountsExist
<1>2. Number(s) = f[Len(s)]
  BY <1>1, NumberIsCounted
<1> QED BY <1>1, <1>2 DEF Counts

LEMMA NumberOfNoDigits == Number(<<>>) = 0
<1>1. <<>> \in Seq(Digits) /\ Len(<<>>) = 0
  OBVIOUS
<1>2. PICK f : Counts(f, <<>>)
  BY <1>1, CountsExist
<1>3. Number(<<>>) = f[Len(<<>>)]
  BY <1>1, <1>2, NumberIsCounted
<1> QED BY <1>1, <1>2, <1>3 DEF Counts

LEMMA NumberIsBelow ==
    ASSUME NEW s \in Seq(Digits)
    PROVE  Number(s) < Power10[Len(s)]
<1>1. PICK f : Counts(f, s)
  BY CountsExist
<1> DEFINE T == {i \in Nat : i <= Len(s) => f[i] < Power10[i]}
<1>2. 0 \in T
  BY <1>1, Power10Def DEF Counts
<1>3. ASSUME NEW i \in T, i \in Nat PROVE i + 1 \in T
  <2>1. CASE i + 1 <= Len(s)
    <3>1. i \in 0 .. Len(s) - 1 /\ i + 1 \in 1 .. Len(s)
      BY <1>3, <2>1
    <3>2. f[i + 1] = 10 * f[i] + DigitValue(s[i + 1]) /\ f[i] \in Nat
      BY <1>1, <3>1 DEF Counts
    <3>3. DigitValue(s[i + 1]) \in 0 .. 9
      <4>1. s[i + 1] \in Digits
        BY <3>1
      <4> QED BY <4>1, DigitsAreRead
    <3>4. f[i] < Power10[i]
      BY <1>3, <2>1
    <3>5. Power10[i + 1] = 10 * Power10[i] /\ Power10[i] \in Nat
      BY <1>3, Power10Def
    <3>6. f[i + 1] < Power10[i + 1]
      <4>1. \A x, p \in Nat : \A d \in 0 .. 9 : x < p => 10 * x + d < 10 * p
        OBVIOUS
      <4> QED BY <3>2, <3>3, <3>4, <3>5, <4>1
    <3> QED BY <1>3, <3>6
  <2>2. CASE ~(i + 1 <= Len(s))
    BY <1>3, <2>2
  <2> QED BY <2>1, <2>2
<1>4. Nat \subseteq T
  <2> HIDE DEF T
  <2> QED BY <1>2, <1>3, NumbersInASet
<1>5. Number(s) = f[Len(s)]
  BY <1>1, NumberIsCounted
<1> QED BY <1>4, <1>5

LEMMA NumberOfConcat ==
    ASSUME NEW s \in Seq(Digits), NEW t \in Seq(Digits)
    PROVE  Number(s \o t) = Number(s) * Power10[Len(t)] + Number(t)
<1> DEFINE u == s \o t
<1>1. /\ u \in Seq(Digits)
      /\ Len(u) = Len(s) + Len(t)
      /\ \A i \in 1 .. Len(s) : u[i] = s[i]
      /\ \A i \in 1 .. Len(t) : u[Len(s) + i] = t[i]
      /\ Len(s) \in Nat /\ Len(t) \in Nat
  OBVIOUS
<1> HIDE DEF u
<1>2. PICK f : Counts(f, u)
  BY <1>1, CountsExist
<1>3. PICK g : Counts(g, t)
  BY CountsExist
<1>4. Counts(f, s)
  <2>1. ASSUME NEW i \in 0 .. Len(s) - 1
        PROVE  f[i + 1] = 10 * f[i] + DigitValue(s[i + 1])
    <3>1. i + 1 \in 1 .. Len(s) /\ i \in 0 .. Len(u) - 1
      BY <1>1
    <3> QED BY <1>1, <1>2, <3>1 DEF Counts
  <2> QED BY <1>1, <1>2, <2>1 DEF Counts
<1>5. Number(s) = f[Len(s)] /\ Number(u) = f[Len(u)] /\ Number(t) = g[Len(t)]
  BY <1>1, <1>2, <1>3, <1>4, NumberIsCounted
<1> DEFINE N == f[Len(s)]
           T == {i \in Nat : i <= Len(t) => f[Len(s) + i] = N * Power10[i] + g[i]}
<1>6. N \in Nat
  BY <1>1, <1>2 DEF Counts
<1> HIDE DEF N
<1>7. 0 \in T
  <2>1. Len(s) + 0 = Len(s) /\ Power10[0] = 1 /\ g[0] = 0 /\ f[Len(s)] = N
    BY <1>1, <1>3, Power10Def DEF Counts, N
  <2> QED BY <2>1, <1>6
<1>8. ASSUME NEW i \in T, i \in Nat PROVE i + 1 \in T
  <2>1. CASE i + 1 <= Len(t)
    <3>1. /\ i \in 0 .. Len(t) - 1 /\ Len(s) + i \in 0 .. Len(u) - 1
          /\ (Len(s) + i) + 1 = Len(s) + (i + 1) /\ i + 1 \in 1 .. Len(t)
          /\ Len(s) + i \in Nat
      BY <1>1, <1>8, <2>1
    <3>2. f[(Len(s) + i) + 1] = 10 * f[Len(s) + i] + DigitValue(u[(Len(s) + i) + 1])
      BY <1>2, <3>1 DEF Counts
    <3>3. u[Len(s) + (i + 1)] = t[i + 1]
      BY <1>1, <3>1
    <3>4. g[i + 1] = 10 * g[i] + DigitValue(t[i + 1]) /\ g[i] \in Nat
      BY <1>3, <3>1 DEF Counts
    <3>5. DigitValue(t[i + 1]) \in 0 .. 9
      <4>1. t[i + 1] \in Digits
        BY <3>1
      <4> QED BY <4>1, DigitsAreRead
    <3>6. f[Len(s) + i] = N * Power10[i] + g[i]
      BY <1>8, <2>1
    <3>7. Power10[i + 1] = 10 * Power10[i] /\ Power10[i] \in Nat
      BY <1>8, Power10Def
    <3>8. \A x, y, z \in Nat : 10 * (x * y + z) = x * (10 * y) + 10 * z
      OBVIOUS
    <3>9. 10 * f[Len(s) + i] = N * Power10[i + 1] + 10 * g[i]
      BY <1>6, <3>4, <3>6, <3>7, <3>8
    <3>10. N * Power10[i + 1] \in Nat
      <4> DEFINE p == Power10[i + 1]
      <4>1. p \in Nat
        BY <3>7
      <4> HIDE DEF p
      <4>2. N * p \in Nat
        BY <1>6, <4>1
      <4> QED BY <4>2 DEF p
    <3>11. f[Len(s) + (i + 1)] = N * Power10[i + 1] + g[i + 1]
      <4>1. f[Len(s) + (i + 1)] = 10 * f[Len(s) + i] + DigitValue(t[i + 1])
        BY <3>1, <3>2, <3>3
      <4> DEFINE x == N * Power10[i + 1]
      <4>2. f[Len(s) + (i + 1)] = (x + 10 * g[i]) + DigitValue(t[i + 1]) /\ x \in Nat
        BY <3>9, <3>10, <4>1
      <4> HIDE DEF x, T
      <4>3. f[Len(s) + (i + 1)] = x + g[i + 1]
        BY <3>4, <3>5, <4>2, SMTT(30)
      <4> QED BY <4>3 DEF x
    <3> QED BY <1>8, <3>11
  <2>2. CASE ~(i + 1 <= Len(t))
    BY <1>8, <2>2
  <2> QED BY <2>1, <2>2
<1>9. Nat \subseteq T
  <2> HIDE DEF T
  <2> QED BY <1>7, <1>8, NumbersInASet
<1>10. f[Len(s) + Len(t)] = N * Power10[Len(t)] + g[Len(t)]
  BY <1>1, <1>9
<1> QED BY <1>1, <1>5, <1>10 DEF u, N

LEMMA NumberOfZeros ==
    ASSUME NEW n \in Nat
    PROVE  /\ [i \in 1 .. n |-> "0"] \in Seq(Digits)
           /\ Number([i \in 1 .. n |-> "0"]) = 0
<1> DEFINE z == [i \in 1 .. n |-> "0"]
<1>1. "0" = Digit[0 + 1]
  BY DEF Digit
<1>2. "0" \in Digits /\ DigitValue("0") = 0
  BY <1>1, DigitsAreWritten
<1>3. z \in Seq(Digits) /\ Len(z) = n /\ \A i \in 1 .. n : z[i] = "0"
  BY <1>2
<1> HIDE DEF z
<1>4. Counts([i \in Nat |-> 0], z)
  <2>1. ASSUME NEW i \in 0 .. n - 1
        PROVE  [j \in Nat |-> 0][i + 1] = 10 * [j \in Nat |-> 0][i] + DigitValue(z[i + 1])
    <3>1. i \in Nat /\ i + 1 \in 1 .. n
      OBVIOUS
    <3> QED BY <1>2, <1>3, <3>1
  <2> QED BY <1>3, <2>1 DEF Counts
<1>5. Number(z) = 0
  BY <1>3, <1>4, NumberIsCounted
<1> QED BY <1>3, <1>5 DEF z

(* The first digits are what is left when the others are cut off.          *)
LEMMA NumberIsCut ==
    ASSUME NEW s \in Seq(Digits), NEW k \in 0 .. Len(s)
    PROVE  /\ SubSeq(s, 1, k) \in Seq(Digits)
           /\ Number(SubSeq(s, 1, k)) = Number(s) \div Power10[Len(s) - k]
<1> DEFINE a == SubSeq(s, 1, k)
           b == SubSeq(s, k + 1, Len(s))
<1>1. /\ a \in Seq(Digits) /\ b \in Seq(Digits)
      /\ Len(b) = Len(s) - k /\ Len(b) \in Nat /\ s = a \o b
  <2>1. a \in Seq(Digits)
    OBVIOUS
  <2>2. b \in Seq(Digits) /\ Len(b) = Len(s) - k /\ Len(b) \in Nat
    OBVIOUS
  <2>3. 1 \in 1 .. Len(s) + 1 /\ k \in 1 - 1 .. Len(s) /\ Len(s) \in k .. Len(s)
    OBVIOUS
  <2>4. a \o b = SubSeq(s, 1, Len(s))
    BY <2>3, ConcatAdjacentSubSeq
  <2>5. SubSeq(s, 1, Len(s)) = s
    BY SubSeqFull
  <2> QED BY <2>1, <2>2, <2>4, <2>5
<1> HIDE DEF a, b
<1>2. Number(s) = Number(a) * Power10[Len(b)] + Number(b)
  BY <1>1, NumberOfConcat
<1>3. Number(b) < Power10[Len(b)] /\ Number(a) \in Nat /\ Number(b) \in Nat
  BY <1>1, NumberIsBelow, NumberIsANumber
<1>4. Power10[Len(b)] \in Nat /\ Power10[Len(b)] >= 1
  BY <1>1, Power10IsPositive
<1>5. \A x, y, p \in Nat : p >= 1 /\ y < p => (x * p + y) \div p = x
  OBVIOUS
<1>6. Number(a) = Number(s) \div Power10[Len(b)]
  <2> DEFINE x == Number(a)
             y == Number(b)
             p == Power10[Len(b)]
  <2>1. x \in Nat /\ y \in Nat /\ p \in Nat /\ p >= 1 /\ y < p /\ Number(s) = x * p + y
    BY <1>2, <1>3, <1>4
  <2> HIDE DEF x, y, p
  <2>2. x = Number(s) \div p
    BY <1>5, <2>1
  <2> QED BY <2>2 DEF x, p
<1> QED BY <1>1, <1>6 DEF a

-----------------------------------------------------------------------------
LEMMA DivByTens ==
    ASSUME NEW n \in Nat, NEW p \in Nat, p >= 1
    PROVE  n \div p = 10 * (n \div (10 * p)) + ((n \div p) % 10)
<1> DEFINE q == n \div p
           r == n % p
<1>1. q \in Nat /\ r \in 0 .. p - 1 /\ n = p * q + r
  OBVIOUS
<1> DEFINE a == q \div 10
           d == q % 10
<1>2. a \in Nat /\ d \in 0 .. 9 /\ q = 10 * a + d
  BY <1>1
<1> DEFINE e == p * d + r
<1>3. e \in Nat /\ e < 10 * p
  <2> HIDE DEF q, r, a, d
  <2>1. p * d <= p * 9
    BY <1>2
  <2>2. p * d \in Nat
    BY <1>2
  <2> QED BY <1>1, <2>1, <2>2
<1>4. n = (10 * p) * a + e
  <2> HIDE DEF q, r, a, d
  <2>1. p * (10 * a + d) = (10 * p) * a + p * d
    BY <1>2
  <2> QED BY <1>1, <1>2, <2>1
<1> HIDE DEF e
<1>5. n \div (10 * p) = a
  <2> HIDE DEF q, r, a, d
  <2>1. \A x, y, z \in Nat : y < z => (z * x + y) \div z = x
    OBVIOUS
  <2>2. 10 * p \in Nat
    OBVIOUS
  <2> QED BY <1>2, <1>3, <1>4, <2>1, <2>2
<1> QED BY <1>2, <1>5

LEMMA SizeIsTheWidth ==
    ASSUME NEW width \in Nat, NEW n \in Nat, n < Power10[width]
    PROVE  Size(width, n) = width
<1> DEFINE Good(k) == /\ n < Power10[k]
                      /\ \A j \in width .. k - 1 : n >= Power10[j]
<1>1. width \in width .. width + n /\ Good(width)
  OBVIOUS
<1>2. ASSUME NEW k \in width .. width + n, Good(k) PROVE k = width
  <2>1. SUFFICES ASSUME k # width PROVE FALSE
    OBVIOUS
  <2>2. width \in width .. k - 1
    BY <2>1
  <2>3. n >= Power10[width]
    BY <1>2, <2>2
  <2> QED BY <2>3, Power10Def
<1>3. Size(width, n) = CHOOSE k \in width .. width + n : Good(k)
  BY DEF Size
<1> HIDE DEF Good
<1> QED BY <1>1, <1>2, <1>3

(* Written with as many digits as it has at most, a number is read back.   *)
LEMMA PaddedIsTheNumber ==
    ASSUME NEW width \in Nat, NEW n \in Nat, n < Power10[width]
    PROVE  /\ Padded(width, n) \in Seq(Digits)
           /\ Len(Padded(width, n)) = width
           /\ Number(Padded(width, n)) = n
<1> DEFINE digit(i) == (n \div Power10[width - i]) % 10
           s == [i \in 1 .. width |-> Digit[digit(i) + 1]]
<1>1. Padded(width, n) = s
  BY SizeIsTheWidth DEF Padded
<1>2. \A i \in 1 .. width : width - i \in Nat /\ Power10[width - i] \in Nat /\ Power10[width - i] >= 1
  BY Power10IsPositive
<1>3. \A i \in 1 .. width : digit(i) \in 0 .. 9
  BY <1>2
<1>4. \A i \in 1 .. width : /\ Digit[digit(i) + 1] \in Digits
                             /\ DigitValue(Digit[digit(i) + 1]) = digit(i)
  <2> HIDE DEF digit
  <2> QED BY <1>3, DigitsAreWritten
<1>5. s \in Seq(Digits) /\ Len(s) = width /\ \A i \in 1 .. width : DigitValue(s[i]) = digit(i)
  <2> HIDE DEF digit
  <2> QED BY <1>4
<1> HIDE DEF s
<1> DEFINE f == [k \in Nat |-> IF k <= width THEN n \div Power10[width - k] ELSE 0]
<1>6. f \in [Nat -> Nat]
  <2>1. \A k \in Nat : k <= width => width - k \in Nat /\ Power10[width - k] \in Nat
                                      /\ Power10[width - k] >= 1
    BY Power10IsPositive
  <2>2. \A p \in Nat : p >= 1 => n \div p \in Nat
    OBVIOUS
  <2>3. \A k \in Nat : (IF k <= width THEN n \div Power10[width - k] ELSE 0) \in Nat
    BY <2>1, <2>2
  <2> QED BY <2>3
<1>7. f[0] = 0
  <2>1. f[0] = n \div Power10[width]
    OBVIOUS
  <2>2. \A p \in Nat : n < p => n \div p = 0
    OBVIOUS
  <2>3. Power10[width] \in Nat
    BY Power10Def
  <2> HIDE DEF f
  <2> QED BY <2>1, <2>2, <2>3
<1>8. ASSUME NEW i \in 0 .. width - 1
      PROVE  f[i + 1] = 10 * f[i] + DigitValue(s[i + 1])
  <2> DEFINE p == Power10[width - (i + 1)]
  <2>1. /\ width - (i + 1) \in Nat /\ (width - (i + 1)) + 1 = width - i
        /\ i + 1 \in 1 .. width /\ i \in Nat /\ i <= width /\ i + 1 <= width
    OBVIOUS
  <2>2. p \in Nat /\ p >= 1 /\ Power10[width - i] = 10 * p
    BY <2>1, Power10IsPositive, Power10Def
  <2>3. f[i + 1] = n \div p /\ f[i] = n \div (10 * p)
    BY <2>1, <2>2
  <2>4. DigitValue(s[i + 1]) = (n \div p) % 10
    BY <1>5, <2>1
  <2> HIDE DEF p, f
  <2> QED BY <2>2, <2>3, <2>4, DivByTens
<1>9. f[width] = n
  <2>1. width - width = 0 /\ Power10[0] = 1
    BY Power10Def
  <2>2. f[width] = n \div Power10[width - width]
    OBVIOUS
  <2>3. n \div 1 = n
    OBVIOUS
  <2> QED BY <2>1, <2>2, <2>3
<1> HIDE DEF f, digit
<1>10. Counts(f, s)
  BY <1>5, <1>6, <1>7, <1>8 DEF Counts
<1>11. Number(s) = n
  BY <1>5, <1>9, <1>10, NumberIsCounted
<1> QED BY <1>1, <1>5, <1>11
-----------------------------------------------------------------------------
(* Positions in a text. *)

DigitsAt(t, i, k) == i + k - 1 <= Len(t) /\ \A j \in i .. i + k - 1 : t[j] \in Digits
NumberAt(t, i, k) == Number(SubSeq(t, i, i + k - 1))

(* Where the fields of a date are: behind a minus, if there is one, and    *)
(* behind a dash each, if there is one behind the year.                    *)
Minus(t)      == IF 1 <= Len(t) /\ t[1] = "-" THEN 1 ELSE 0
Dash(t)       == IF Minus(t) + 5 <= Len(t) /\ t[Minus(t) + 5] = "-" THEN 1 ELSE 0
YearPlace(t)  == Minus(t) + 1
MonthPlace(t) == Minus(t) + 5 + Dash(t)
DayPlace(t)   == Minus(t) + 7 + 2 * Dash(t)
DateLength(t) == Minus(t) + 8 + 2 * Dash(t)

DateShape(t) ==
    /\ DateLength(t) <= Len(t)
    /\ DigitsAt(t, YearPlace(t), 4)
    /\ DigitsAt(t, MonthPlace(t), 2)
    /\ Dash(t) = 1 => t[Minus(t) + 8] = "-"
    /\ DigitsAt(t, DayPlace(t), 2)

DateAt(t) ==
    [negative |-> t[1] = "-", year |-> NumberAt(t, YearPlace(t), 4),
     month |-> NumberAt(t, MonthPlace(t), 2), day |-> NumberAt(t, DayPlace(t), 2),
     hour |-> 0, min |-> 0, sec |-> 0, micros |-> 0]

(* The same for the time that begins behind b characters of the text.      *)
HasSeconds(t, b)  == b + 6 <= Len(t) /\ t[b + 6] = ":"
HasFraction(t, b) == HasSeconds(t, b) /\ b + 9 <= Len(t) /\ t[b + 9] = "."

IsFraction(t, b, n) ==
    /\ n \in 0 .. Len(t) - (b + 9)
    /\ DigitsAt(t, b + 10, n)
    /\ b + 9 + n < Len(t) => t[b + 10 + n] \notin Digits

FractionLength(t, b) == CHOOSE n \in 0 .. Len(t) - (b + 9) : IsFraction(t, b, n)

TimeLength(t, b) ==
    IF HasFraction(t, b) THEN 9 + FractionLength(t, b)
    ELSE IF HasSeconds(t, b) THEN 8 ELSE 5

TimeForm(t, b) ==
    IF HasFraction(t, b) THEN WithFraction(FractionLength(t, b))
    ELSE IF HasSeconds(t, b) THEN Seconds ELSE Minutes

TimeShape(t, b) ==
    /\ b + TimeLength(t, b) <= Len(t)
    /\ DigitsAt(t, b + 1, 2)
    /\ t[b + 3] = ":"
    /\ DigitsAt(t, b + 4, 2)
    /\ HasSeconds(t, b) => DigitsAt(t, b + 7, 2)
    /\ HasFraction(t, b) => FractionLength(t, b) <= NanoDigits

SecAt(t, b)    == IF HasSeconds(t, b) THEN NumberAt(t, b + 7, 2) ELSE 0
MicrosAt(t, b) ==
    IF HasFraction(t, b)
      THEN Number(Cut(SubSeq(t, b + 10, b + 9 + FractionLength(t, b)))) ELSE 0

TimeAt(t, b) ==
    [negative |-> FALSE, year |-> 0, month |-> 0, day |-> 0,
     hour |-> NumberAt(t, b + 1, 2), min |-> NumberAt(t, b + 4, 2),
     sec |-> SecAt(t, b), micros |-> MicrosAt(t, b)]

(* A dot without digits. *)
EndsInADot(t, b) == HasFraction(t, b) /\ FractionLength(t, b) = 0

(* Where the time of a DateTime begins and ends. *)
TimePlace(t) == DateLength(t) + 1
ZonePlace(t) == TimePlace(t) + TimeLength(t, TimePlace(t))

DateTimeShape(t) ==
    /\ DateShape(t)
    /\ TimePlace(t) <= Len(t) /\ t[TimePlace(t)] = "T"
    /\ TimeShape(t, TimePlace(t))
    /\ SubSeq(t, ZonePlace(t) + 1, Len(t)) \in Zones

ReadableDate(t) ==
    DateShape(t) /\ DateLength(t) = Len(t) /\ DateValid(DateOf(DateAt(t)))

ReadableTime(t) ==
    /\ TimeShape(t, 0) /\ TimeLength(t, 0) = Len(t) /\ ~EndsInADot(t, 0)
    /\ TimeValid(TimeOf(TimeAt(t, 0)))

ReadableDateTime(t) ==
    /\ DateTimeShape(t)
    /\ DateValid(DateOf(DateAt(t))) /\ Year(DateAt(t)) >= FirstYear
    /\ TimeValid(TimeOf(TimeAt(t, TimePlace(t))))

Readable(k, t) ==
    \/ k = "date" /\ ReadableDate(t)
    \/ k = "time" /\ ReadableTime(t)
    \/ k = "datetime" /\ ReadableDateTime(t)

Reading(k, t) ==
    IF k = "date" THEN DateAt(t)
    ELSE IF k = "time" THEN TimeAt(t, 0)
    ELSE Both(DateAt(t), TimeAt(t, TimePlace(t)))
-----------------------------------------------------------------------------
(* What the parser has read at each of its steps. *)

Base == Len(text) - room

SignRead(t, f)  == Len(t) >= 8 /\ (f.negative <=> t[1] = "-")
YearRead(t, f)  == /\ SignRead(t, f)
                   /\ DigitsAt(t, YearPlace(t), 4)
                   /\ f.year = NumberAt(t, YearPlace(t), 4)
DashRead(t, f)  == YearRead(t, f) /\ (Dash(t) = 1 => Len(t) >= 10)
MonthRead(t, f) == /\ DashRead(t, f)
                   /\ DigitsAt(t, MonthPlace(t), 2)
                   /\ f.month = NumberAt(t, MonthPlace(t), 2)
DateRead(t, f)  == /\ MonthRead(t, f)
                   /\ DateShape(t)
                   /\ f.day = NumberAt(t, DayPlace(t), 2)

HourRead(t, b, f) == DigitsAt(t, b + 1, 2) /\ f.hour = NumberAt(t, b + 1, 2)
MinRead(t, b, f)  == /\ HourRead(t, b, f)
                     /\ t[b + 3] = ":"
                     /\ DigitsAt(t, b + 4, 2) /\ f.min = NumberAt(t, b + 4, 2)
SecRead(t, b, f)  == /\ MinRead(t, b, f)
                     /\ HasSeconds(t, b)
                     /\ DigitsAt(t, b + 7, 2) /\ f.sec = NumberAt(t, b + 7, 2)
TimeRead(t, b, f) == /\ MinRead(t, b, f)
                     /\ TimeShape(t, b)
                     /\ f.sec = SecAt(t, b) /\ f.micros = MicrosAt(t, b)

Dateless(f) == ~f.negative /\ f.year = 0 /\ f.month = 0 /\ f.day = 0
Timeless(f) == f.hour = 0 /\ f.min = 0 /\ f.sec = 0 /\ f.micros = 0

DateSteps == {"sign", "year", "dash", "month", "month with dashes",
              "no dash", "second dash", "day", "date"}
TimeSteps == {"hour", "colon", "minute", "second colon", "second",
              "dot", "fraction", "time", "suffix"}

DateInv ==
    /\ next \in DateSteps =>
         kind # "time" /\ room = Len(text) /\ Timeless(fields)
    /\ next = "sign" => pos = 0 /\ fields = NoFields
    /\ next = "year" => pos = Minus(text) /\ SignRead(text, fields)
    /\ next = "dash" => pos = Minus(text) + 4 /\ YearRead(text, fields)
    /\ next \in {"month", "month with dashes"} =>
         /\ pos = MonthPlace(text) - 1 /\ DashRead(text, fields)
         /\ next = "month with dashes" <=> Dash(text) = 1
    /\ next \in {"no dash", "second dash"} =>
         /\ pos = MonthPlace(text) + 1 /\ MonthRead(text, fields)
         /\ next = "second dash" <=> Dash(text) = 1
    /\ next = "day" =>
         /\ pos = DayPlace(text) - 1 /\ MonthRead(text, fields)
         /\ Dash(text) = 1 => text[Minus(text) + 8] = "-"
    /\ next = "date" => pos = DateLength(text) /\ DateRead(text, fields)

Dated ==
    /\ DateRead(text, fields)
    /\ DateValid(DateOf(fields)) /\ Year(fields) >= FirstYear

BetweenInv ==
    next \in {"T", "begin time"} =>
        /\ kind = "datetime" /\ Dated /\ Timeless(fields)
        /\ next = "T" => pos = DateLength(text)
        /\ next = "begin time" =>
             /\ pos = TimePlace(text)
             /\ pos <= Len(text) => text[pos] = "T"

TimeFrame ==
    next \in TimeSteps =>
        /\ kind \in {"time", "datetime"}
        /\ kind = "time" => Base = 0 /\ Dateless(fields)
        /\ kind = "datetime" => /\ Dated /\ Base = TimePlace(text)
                                /\ Base <= Len(text) => text[Base] = "T"

TimeInv ==
    /\ next = "hour" => pos = Base /\ Timeless(fields)
    /\ next \in {"colon", "minute", "second colon", "second"} =>
         room >= 5 /\ HourRead(text, Base, fields) /\ fields.sec = 0 /\ fields.micros = 0
    /\ next = "colon" => pos = Base + 2
    /\ next = "minute" => pos = Base + 3 /\ text[Base + 3] = ":"
    /\ next \in {"second colon", "second"} => MinRead(text, Base, fields)
    /\ next = "second colon" => pos = Base + 5
    /\ next = "second" => pos = Base + 6 /\ HasSeconds(text, Base)
    /\ next \in {"dot", "fraction"} => SecRead(text, Base, fields) /\ fields.micros = 0
    /\ next = "dot" => pos = Base + 8
    /\ next = "fraction" => pos = Base + 9 /\ HasFraction(text, Base)
    /\ next \in {"time", "suffix"} =>
         /\ TimeRead(text, Base, fields)
         /\ pos = Base + TimeLength(text, Base)
         /\ EndsInADot(text, Base) => pos < Len(text)
    /\ next = "suffix" => kind = "datetime" /\ TimeValid(TimeOf(fields))

EndInv ==
    next = "end" =>
        /\ outcome = "none" => Readable(kind, text) /\ fields = Reading(kind, text)
        /\ outcome # "none" => ~Readable(kind, text)

WrittenInv ==
    written # <<>> =>
        /\ written = <<written[1]>> /\ written[1] \in Fields
        /\ Writable(kind, written[1]) /\ text = Write(kind, written[1])

Steps == DateSteps \cup {"T", "begin time"} \cup TimeSteps \cup {"end"}

Inv == /\ TypeOK /\ next \in Steps
       /\ DateInv /\ BetweenInv /\ TimeFrame /\ TimeInv /\ EndInv /\ WrittenInv
       /\ PanicsOnlyAfterADateOrInAFraction
-----------------------------------------------------------------------------
LEMMA NotDigits ==
    /\ "-" \notin Digits /\ "T" \notin Digits /\ ":" \notin Digits
    /\ "." \notin Digits /\ "Z" \notin Digits /\ "+" \notin Digits
BY DEF Digits, Digit

LEMMA CharactersAre ==
    /\ Digits \subseteq Characters
    /\ "-" \in Characters /\ "T" \in Characters /\ ":" \in Characters
    /\ "." \in Characters /\ "Z" \in Characters /\ "+" \in Characters
    /\ "0" \in Characters /\ "0" \in Digits
BY TextAssumption, DigitsAreWritten DEF Digits, Digit

(* The digits of a field are k characters, the first of them the i-th.     *)
IsAt(form, field, i, k) ==
    /\ i \in Nat /\ k \in Nat \ {0}
    /\ {j \in DOMAIN form : form[j] = field} = i .. i + k - 1

LEMMA NumberInPlaces ==
    ASSUME NEW form, NEW field, NEW t, NEW i, NEW k, IsAt(form, field, i, k)
    PROVE  NumberOf(field, t, form) = NumberAt(t, i, k)
<1> DEFINE j == i + k - 1
<1>1. i \in Nat /\ j \in Nat /\ i <= j /\ {p \in DOMAIN form : form[p] = field} = i .. j
  BY DEF IsAt
<1> HIDE DEF j
<1>2. Min(i .. j) = i
  BY <1>1 DEF Min
<1>3. Max(i .. j) = j
  BY <1>1 DEF Max
<1>4. i .. j # {}
  BY <1>1
<1>5. DigitsOf(field, t, form) = SubSeq(t, i, j)
  BY <1>1, <1>2, <1>3, <1>4 DEF DigitsOf
<1> QED BY <1>5 DEF j, NumberOf, NumberAt

LEMMA NoPlaces ==
    ASSUME NEW form, NEW field, NEW t, \A k \in DOMAIN form : form[k] # field
    PROVE  DigitsOf(field, t, form) = <<>>
BY DEF DigitsOf

(* The four forms of a date.                                               *)
PlainForm == <<"year", "year", "year", "year", "month", "month", "day", "day">>
DashForm  == <<"year", "year", "year", "year", "-", "month", "month", "-", "day", "day">>
MinusForm == <<"-", "year", "year", "year", "year", "month", "month", "day", "day">>
BothForm  == <<"-", "year", "year", "year", "year", "-", "month", "month", "-", "day", "day">>

LEMMA PlainDate ==
    ASSUME NEW u \in Seq(Characters)
    PROVE  /\ HasForm(u, PlainForm) <=>
                Len(u) = 8 /\ \A i \in 1 .. 8 : u[i] \in Digits
           /\ PlainForm[1] # "-"
           /\ NumberOf("year", u, PlainForm) = NumberAt(u, 1, 4)
           /\ NumberOf("month", u, PlainForm) = NumberAt(u, 5, 2)
           /\ NumberOf("day", u, PlainForm) = NumberAt(u, 7, 2)
<1> DEFINE form == PlainForm
<1>1. /\ DOMAIN form = 1 .. 8 /\ Len(form) = 8
      /\ \A i \in 1 .. 4 : form[i] = "year"
      /\ form[5] = "month" /\ form[6] = "month" /\ form[7] = "day" /\ form[8] = "day"
  BY DEF PlainForm
<1> HIDE DEF form
<1>2. \A i \in 1 .. 8 : form[i] \in FieldNames
  BY <1>1 DEF FieldNames
<1>3. IsAt(form, "year", 1, 4) /\ IsAt(form, "month", 5, 2) /\ IsAt(form, "day", 7, 2)
  BY <1>1 DEF IsAt
<1>4. HasForm(u, form) <=> Len(u) = 8 /\ \A i \in 1 .. 8 : u[i] \in Digits
  BY <1>1, <1>2 DEF HasForm
<1>5. NumberOf("year", u, form) = NumberAt(u, 1, 4)
  BY <1>3, NumberInPlaces
<1>6. NumberOf("month", u, form) = NumberAt(u, 5, 2)
  BY <1>3, NumberInPlaces
<1>7. NumberOf("day", u, form) = NumberAt(u, 7, 2)
  BY <1>3, NumberInPlaces
<1> QED BY <1>1, <1>4, <1>5, <1>6, <1>7 DEF form

LEMMA DashDate ==
    ASSUME NEW u \in Seq(Characters)
    PROVE  /\ HasForm(u, DashForm) <=>
                /\ Len(u) = 10 /\ u[5] = "-" /\ u[8] = "-"
                /\ \A i \in (1 .. 4) \cup (6 .. 7) \cup (9 .. 10) : u[i] \in Digits
           /\ DashForm[1] # "-"
           /\ NumberOf("year", u, DashForm) = NumberAt(u, 1, 4)
           /\ NumberOf("month", u, DashForm) = NumberAt(u, 6, 2)
           /\ NumberOf("day", u, DashForm) = NumberAt(u, 9, 2)
<1> DEFINE form == DashForm
<1>1. /\ DOMAIN form = 1 .. 10 /\ Len(form) = 10
      /\ \A i \in 1 .. 4 : form[i] = "year"
      /\ form[5] = "-" /\ form[6] = "month" /\ form[7] = "month"
      /\ form[8] = "-" /\ form[9] = "day" /\ form[10] = "day"
  BY DEF DashForm
<1> HIDE DEF form
<1>2. /\ \A i \in (1 .. 4) \cup (6 .. 7) \cup (9 .. 10) : form[i] \in FieldNames
      /\ form[5] \notin FieldNames /\ form[8] \notin FieldNames
  BY <1>1 DEF FieldNames
<1>3. IsAt(form, "year", 1, 4) /\ IsAt(form, "month", 6, 2) /\ IsAt(form, "day", 9, 2)
  BY <1>1 DEF IsAt
<1>4. HasForm(u, form) <=>
         /\ Len(u) = 10 /\ u[5] = "-" /\ u[8] = "-"
         /\ \A i \in (1 .. 4) \cup (6 .. 7) \cup (9 .. 10) : u[i] \in Digits
  BY <1>1, <1>2 DEF HasForm
<1>5. NumberOf("year", u, form) = NumberAt(u, 1, 4)
  BY <1>3, NumberInPlaces
<1>6. NumberOf("month", u, form) = NumberAt(u, 6, 2)
  BY <1>3, NumberInPlaces
<1>7. NumberOf("day", u, form) = NumberAt(u, 9, 2)
  BY <1>3, NumberInPlaces
<1> QED BY <1>1, <1>4, <1>5, <1>6, <1>7 DEF form

LEMMA MinusDate ==
    ASSUME NEW u \in Seq(Characters)
    PROVE  /\ HasForm(u, MinusForm) <=>
                Len(u) = 9 /\ u[1] = "-" /\ \A i \in 2 .. 9 : u[i] \in Digits
           /\ MinusForm[1] = "-"
           /\ NumberOf("year", u, MinusForm) = NumberAt(u, 2, 4)
           /\ NumberOf("month", u, MinusForm) = NumberAt(u, 6, 2)
           /\ NumberOf("day", u, MinusForm) = NumberAt(u, 8, 2)
<1> DEFINE form == MinusForm
<1>1. /\ DOMAIN form = 1 .. 9 /\ Len(form) = 9
      /\ form[1] = "-" /\ \A i \in 2 .. 5 : form[i] = "year"
      /\ form[6] = "month" /\ form[7] = "month" /\ form[8] = "day" /\ form[9] = "day"
  BY DEF MinusForm
<1> HIDE DEF form
<1>2. form[1] \notin FieldNames /\ \A i \in 2 .. 9 : form[i] \in FieldNames
  BY <1>1 DEF FieldNames
<1>3. IsAt(form, "year", 2, 4) /\ IsAt(form, "month", 6, 2) /\ IsAt(form, "day", 8, 2)
  BY <1>1 DEF IsAt
<1>4. HasForm(u, form) <=>
         Len(u) = 9 /\ u[1] = "-" /\ \A i \in 2 .. 9 : u[i] \in Digits
  BY <1>1, <1>2 DEF HasForm
<1>5. NumberOf("year", u, form) = NumberAt(u, 2, 4)
  BY <1>3, NumberInPlaces
<1>6. NumberOf("month", u, form) = NumberAt(u, 6, 2)
  BY <1>3, NumberInPlaces
<1>7. NumberOf("day", u, form) = NumberAt(u, 8, 2)
  BY <1>3, NumberInPlaces
<1> QED BY <1>1, <1>4, <1>5, <1>6, <1>7 DEF form

LEMMA BothDate ==
    ASSUME NEW u \in Seq(Characters)
    PROVE  /\ HasForm(u, BothForm) <=>
                /\ Len(u) = 11 /\ u[1] = "-" /\ u[6] = "-" /\ u[9] = "-"
                /\ \A i \in (2 .. 5) \cup (7 .. 8) \cup (10 .. 11) : u[i] \in Digits
           /\ BothForm[1] = "-"
           /\ NumberOf("year", u, BothForm) = NumberAt(u, 2, 4)
           /\ NumberOf("month", u, BothForm) = NumberAt(u, 7, 2)
           /\ NumberOf("day", u, BothForm) = NumberAt(u, 10, 2)
<1> DEFINE form == BothForm
<1>1. /\ DOMAIN form = 1 .. 11 /\ Len(form) = 11
      /\ form[1] = "-" /\ \A i \in 2 .. 5 : form[i] = "year"
      /\ form[6] = "-" /\ form[7] = "month" /\ form[8] = "month"
      /\ form[9] = "-" /\ form[10] = "day" /\ form[11] = "day"
  BY DEF BothForm
<1> HIDE DEF form
<1>2. /\ \A i \in (2 .. 5) \cup (7 .. 8) \cup (10 .. 11) : form[i] \in FieldNames
      /\ form[1] \notin FieldNames /\ form[6] \notin FieldNames /\ form[9] \notin FieldNames
  BY <1>1 DEF FieldNames
<1>3. IsAt(form, "year", 2, 4) /\ IsAt(form, "month", 7, 2) /\ IsAt(form, "day", 10, 2)
  BY <1>1 DEF IsAt
<1>4. HasForm(u, form) <=>
         /\ Len(u) = 11 /\ u[1] = "-" /\ u[6] = "-" /\ u[9] = "-"
         /\ \A i \in (2 .. 5) \cup (7 .. 8) \cup (10 .. 11) : u[i] \in Digits
  BY <1>1, <1>2 DEF HasForm
<1>5. NumberOf("year", u, form) = NumberAt(u, 2, 4)
  BY <1>3, NumberInPlaces
<1>6. NumberOf("month", u, form) = NumberAt(u, 7, 2)
  BY <1>3, NumberInPlaces
<1>7. NumberOf("day", u, form) = NumberAt(u, 10, 2)
  BY <1>3, NumberInPlaces
<1> QED BY <1>1, <1>4, <1>5, <1>6, <1>7 DEF form

LEMMA DateFormsAre ==
    DateForms = {PlainForm, DashForm, MinusForm, BothForm}
BY DEF DateForms, PlainForm, DashForm, MinusForm, BothForm

LEMMA DateFormIsRead ==
    ASSUME NEW t \in Seq(Characters), NEW p \in 0 .. Len(t),
           NEW form \in DateForms, HasForm(SubSeq(t, 1, p), form)
    PROVE  /\ DateShape(t) /\ p = DateLength(t)
           /\ DateIn(SubSeq(t, 1, p), form) = DateAt(t)
<1> DEFINE u == SubSeq(t, 1, p)
<1>1. /\ u \in Seq(Characters) /\ Len(u) = p /\ \A i \in 1 .. p : u[i] = t[i]
  OBVIOUS
<1>2. \A i \in Nat \ {0}, k \in Nat :
         i + k - 1 <= p => NumberAt(u, i, k) = NumberAt(t, i, k)
  <2> SUFFICES ASSUME NEW i \in Nat \ {0}, NEW k \in Nat, i + k - 1 <= p
               PROVE  SubSeq(u, i, i + k - 1) = SubSeq(t, i, i + k - 1)
    BY DEF NumberAt
  <2> QED OBVIOUS
<1>3. HasForm(u, form)
  OBVIOUS
<1> HIDE DEF u
<1>4. CASE form = PlainForm
  <2>1. p = 8 /\ (\A i \in 1 .. 8 : t[i] \in Digits) /\ Len(t) >= 8
    <3>1. HasForm(u, PlainForm)
      BY <1>3, <1>4
    <3>2. Len(u) = 8 /\ \A i \in 1 .. 8 : u[i] \in Digits
      BY <1>1, <3>1, PlainDate
    <3> QED BY <1>1, <3>2
  <2>2. t[1] \in Digits /\ t[5] \in Digits
    BY <2>1
  <2>3. Minus(t) = 0
    BY <2>2, NotDigits DEF Minus
  <2>4. Dash(t) = 0
    BY <2>2, <2>3, NotDigits DEF Dash
  <2>5. YearPlace(t) = 1 /\ MonthPlace(t) = 5 /\ DayPlace(t) = 7 /\ DateLength(t) = 8
    BY <2>3, <2>4 DEF YearPlace, MonthPlace, DayPlace, DateLength
  <2>6. DateShape(t)
    BY <2>1, <2>4, <2>5 DEF DateShape, DigitsAt
  <2>7. /\ NumberOf("year", u, form) = NumberAt(t, 1, 4)
        /\ NumberOf("month", u, form) = NumberAt(t, 5, 2)
        /\ NumberOf("day", u, form) = NumberAt(t, 7, 2)
    BY <1>1, <1>2, <1>4, <2>1, PlainDate
  <2>8. (form[1] = "-") = (t[1] = "-")
    BY <1>1, <1>4, <2>2, NotDigits, PlainDate
  <2> QED BY <2>1, <2>5, <2>6, <2>7, <2>8 DEF DateIn, DateAt, u
<1>5. CASE form = DashForm
  <2>1. /\ p = 10 /\ t[5] = "-" /\ t[8] = "-" /\ Len(t) >= 10
        /\ \A i \in (1 .. 4) \cup (6 .. 7) \cup (9 .. 10) : t[i] \in Digits
    <3>1. HasForm(u, DashForm)
      BY <1>3, <1>5
    <3>2. /\ Len(u) = 10 /\ u[5] = "-" /\ u[8] = "-"
          /\ \A i \in (1 .. 4) \cup (6 .. 7) \cup (9 .. 10) : u[i] \in Digits
      BY <1>1, <3>1, DashDate
    <3> QED BY <1>1, <3>2
  <2>2. t[1] \in Digits
    BY <2>1
  <2>3. Minus(t) = 0
    BY <2>2, NotDigits DEF Minus
  <2>4. Dash(t) = 1
    BY <2>1, <2>3 DEF Dash
  <2>5. YearPlace(t) = 1 /\ MonthPlace(t) = 6 /\ DayPlace(t) = 9 /\ DateLength(t) = 10
    BY <2>3, <2>4 DEF YearPlace, MonthPlace, DayPlace, DateLength
  <2>6. DateShape(t)
    BY <2>1, <2>3, <2>4, <2>5 DEF DateShape, DigitsAt
  <2>7. /\ NumberOf("year", u, form) = NumberAt(t, 1, 4)
        /\ NumberOf("month", u, form) = NumberAt(t, 6, 2)
        /\ NumberOf("day", u, form) = NumberAt(t, 9, 2)
    BY <1>1, <1>2, <1>5, <2>1, DashDate
  <2>8. (form[1] = "-") = (t[1] = "-")
    BY <1>1, <1>5, <2>2, NotDigits, DashDate
  <2> QED BY <2>1, <2>5, <2>6, <2>7, <2>8 DEF DateIn, DateAt, u
<1>6. CASE form = MinusForm
  <2>1. /\ p = 9 /\ t[1] = "-" /\ Len(t) >= 9
        /\ \A i \in 2 .. 9 : t[i] \in Digits
    <3>1. HasForm(u, MinusForm)
      BY <1>3, <1>6
    <3>2. /\ Len(u) = 9 /\ u[1] = "-"
          /\ \A i \in 2 .. 9 : u[i] \in Digits
      BY <1>1, <3>1, MinusDate
    <3> QED BY <1>1, <3>2
  <2>2. t[6] \in Digits
    BY <2>1
  <2>3. Minus(t) = 1
    BY <2>1 DEF Minus
  <2>4. Dash(t) = 0
    BY <2>2, <2>3, NotDigits DEF Dash
  <2>5. YearPlace(t) = 2 /\ MonthPlace(t) = 6 /\ DayPlace(t) = 8 /\ DateLength(t) = 9
    BY <2>3, <2>4 DEF YearPlace, MonthPlace, DayPlace, DateLength
  <2>6. DateShape(t)
    BY <2>1, <2>3, <2>4, <2>5 DEF DateShape, DigitsAt
  <2>7. /\ NumberOf("year", u, form) = NumberAt(t, 2, 4)
        /\ NumberOf("month", u, form) = NumberAt(t, 6, 2)
        /\ NumberOf("day", u, form) = NumberAt(t, 8, 2)
    BY <1>1, <1>2, <1>6, <2>1, MinusDate
  <2>8. (form[1] = "-") = (t[1] = "-")
    BY <1>1, <1>6, <2>1, MinusDate
  <2> QED BY <2>1, <2>5, <2>6, <2>7, <2>8 DEF DateIn, DateAt, u
<1>7. CASE form = BothForm
  <2>1. /\ p = 11 /\ t[1] = "-" /\ t[6] = "-" /\ t[9] = "-" /\ Len(t) >= 11
        /\ \A i \in (2 .. 5) \cup (7 .. 8) \cup (10 .. 11) : t[i] \in Digits
    <3>1. HasForm(u, BothForm)
      BY <1>3, <1>7
    <3>2. /\ Len(u) = 11 /\ u[1] = "-" /\ u[6] = "-" /\ u[9] = "-"
          /\ \A i \in (2 .. 5) \cup (7 .. 8) \cup (10 .. 11) : u[i] \in Digits
      BY <1>1, <3>1, BothDate
    <3> QED BY <1>1, <3>2, SMTT(30)
  <2>3. Minus(t) = 1
    BY <2>1 DEF Minus
  <2>4. Dash(t) = 1
    BY <2>1, <2>3 DEF Dash
  <2>5. YearPlace(t) = 2 /\ MonthPlace(t) = 7 /\ DayPlace(t) = 10 /\ DateLength(t) = 11
    BY <2>3, <2>4 DEF YearPlace, MonthPlace, DayPlace, DateLength
  <2>6. DateShape(t)
    BY <2>1, <2>3, <2>4, <2>5 DEF DateShape, DigitsAt
  <2>7. /\ NumberOf("year", u, form) = NumberAt(t, 2, 4)
        /\ NumberOf("month", u, form) = NumberAt(t, 7, 2)
        /\ NumberOf("day", u, form) = NumberAt(t, 10, 2)
    BY <1>1, <1>2, <1>7, <2>1, BothDate
  <2>8. (form[1] = "-") = (t[1] = "-")
    BY <1>1, <1>7, <2>1, BothDate
  <2> QED BY <2>1, <2>5, <2>6, <2>7, <2>8 DEF DateIn, DateAt, u
<1> QED BY <1>4, <1>5, <1>6, <1>7, DateFormsAre

LEMMA DateLengthIs ==
    ASSUME NEW t
    PROVE  /\ Minus(t) \in {0, 1} /\ Dash(t) \in {0, 1}
           /\ DateLength(t) \in 8 .. 11 /\ TimePlace(t) \in 9 .. 12
BY DEF Minus, Dash, DateLength, TimePlace

LEMMA PlacesAre ==
    ASSUME NEW t
    PROVE  /\ YearPlace(t) = Minus(t) + 1 /\ YearPlace(t) \in 1 .. 2
           /\ MonthPlace(t) = Minus(t) + 5 + Dash(t) /\ MonthPlace(t) \in 5 .. 7
           /\ DayPlace(t) = MonthPlace(t) + 2 + Dash(t) /\ DayPlace(t) \in 7 .. 10
           /\ DateLength(t) = DayPlace(t) + 1 /\ TimePlace(t) = DateLength(t) + 1
<1> DEFINE m == Minus(t)
           d == Dash(t)
<1>1. m \in {0, 1} /\ d \in {0, 1}
  BY DateLengthIs
<1>2. /\ YearPlace(t) = m + 1 /\ MonthPlace(t) = m + 5 + d
      /\ DayPlace(t) = m + 7 + 2 * d /\ DateLength(t) = m + 8 + 2 * d
      /\ TimePlace(t) = DateLength(t) + 1
  BY DEF YearPlace, MonthPlace, DayPlace, DateLength, TimePlace
<1> HIDE DEF m, d
<1>3. /\ YearPlace(t) = m + 1 /\ YearPlace(t) \in 1 .. 2
      /\ MonthPlace(t) = m + 5 + d /\ MonthPlace(t) \in 5 .. 7
      /\ DayPlace(t) = MonthPlace(t) + 2 + d /\ DayPlace(t) \in 7 .. 10
      /\ DateLength(t) = DayPlace(t) + 1 /\ TimePlace(t) = DateLength(t) + 1
  BY <1>1, <1>2
<1> QED BY <1>3 DEF m, d

LEMMA DateShapeHasAForm ==
    ASSUME NEW t \in Seq(Characters), DateShape(t)
    PROVE  \E form \in DateForms : HasForm(SubSeq(t, 1, DateLength(t)), form)
<1> DEFINE p == DateLength(t)
           u == SubSeq(t, 1, p)
<1>1. p \in 8 .. 11 /\ p <= Len(t) /\ p \in 0 .. Len(t)
  BY DateLengthIs DEF DateShape
<1>2. /\ u \in Seq(Characters) /\ Len(u) = p /\ \A i \in 1 .. p : u[i] = t[i]
  <2> HIDE DEF p
  <2> QED BY <1>1
<1>3. /\ \A i \in YearPlace(t) .. YearPlace(t) + 3 : t[i] \in Digits
      /\ \A i \in MonthPlace(t) .. MonthPlace(t) + 1 : t[i] \in Digits
      /\ \A i \in DayPlace(t) .. DayPlace(t) + 1 : t[i] \in Digits
  <2>1. YearPlace(t) \in Int /\ MonthPlace(t) \in Int /\ DayPlace(t) \in Int
    BY DateLengthIs DEF YearPlace, MonthPlace, DayPlace
  <2> QED BY <2>1 DEF DateShape, DigitsAt
<1>4. Dash(t) = 1 => t[Minus(t) + 8] = "-"
  BY DEF DateShape
<1> HIDE DEF u
<1>5. CASE Minus(t) = 0 /\ Dash(t) = 0
  <2>1. YearPlace(t) = 1 /\ MonthPlace(t) = 5 /\ DayPlace(t) = 7 /\ p = 8
    BY <1>5 DEF YearPlace, MonthPlace, DayPlace, DateLength
  <2>2. \A i \in 1 .. 8 : u[i] \in Digits
    BY <1>2, <1>3, <2>1
  <2>3. HasForm(u, PlainForm)
    BY <1>2, <2>1, <2>2, PlainDate
  <2> QED BY <2>3, DateFormsAre DEF u
<1>6. CASE Minus(t) = 0 /\ Dash(t) = 1
  <2>1. YearPlace(t) = 1 /\ MonthPlace(t) = 6 /\ DayPlace(t) = 9 /\ p = 10
    BY <1>6 DEF YearPlace, MonthPlace, DayPlace, DateLength
  <2>2. \A i \in (1 .. 4) \cup (6 .. 7) \cup (9 .. 10) : u[i] \in Digits
    BY <1>2, <1>3, <2>1
  <2>3. t[5] = "-" /\ t[8] = "-"
    BY <1>4, <1>6 DEF Dash
  <2>4. HasForm(u, DashForm)
    BY <1>2, <2>1, <2>2, <2>3, DashDate, SMTT(30)
  <2> QED BY <2>4, DateFormsAre DEF u
<1>7. CASE Minus(t) = 1 /\ Dash(t) = 0
  <2>1. YearPlace(t) = 2 /\ MonthPlace(t) = 6 /\ DayPlace(t) = 8 /\ p = 9
    BY <1>7 DEF YearPlace, MonthPlace, DayPlace, DateLength
  <2>2. \A i \in 2 .. 9 : u[i] \in Digits
    BY <1>2, <1>3, <2>1
  <2>3. t[1] = "-"
    BY <1>7 DEF Minus
  <2>4. HasForm(u, MinusForm)
    BY <1>2, <2>1, <2>2, <2>3, MinusDate, SMTT(30)
  <2> QED BY <2>4, DateFormsAre DEF u
<1>8. CASE Minus(t) = 1 /\ Dash(t) = 1
  <2>1. YearPlace(t) = 2 /\ MonthPlace(t) = 7 /\ DayPlace(t) = 10 /\ p = 11
    BY <1>8 DEF YearPlace, MonthPlace, DayPlace, DateLength
  <2>2. \A i \in (2 .. 5) \cup (7 .. 8) \cup (10 .. 11) : u[i] \in Digits
    BY <1>2, <1>3, <2>1
  <2>3. t[1] = "-" /\ t[6] = "-" /\ t[9] = "-"
    BY <1>4, <1>8 DEF Dash, Minus
  <2>4. Len(u) = 11 /\ u[1] = "-" /\ u[6] = "-" /\ u[9] = "-"
    BY <1>2, <2>1, <2>3
  <2>5. HasForm(u, BothForm)
    BY <1>2, <2>2, <2>4, BothDate
  <2> QED BY <2>5, DateFormsAre DEF u
<1> QED BY <1>5, <1>6, <1>7, <1>8, DateLengthIs

LEMMA DatesAre ==
    ASSUME NEW t \in Seq(Characters), NEW p \in 0 .. Len(t)
    PROVE  Dates(SubSeq(t, 1, p)) =
             IF DateShape(t) /\ p = DateLength(t) /\ DateValid(DateOf(DateAt(t)))
               THEN {DateAt(t)} ELSE {}
<1> DEFINE u == SubSeq(t, 1, p)
<1>1. \A form \in DateForms :
         HasForm(u, form) =>
            DateShape(t) /\ p = DateLength(t) /\ DateIn(u, form) = DateAt(t)
  BY DateFormIsRead
<1>2. DateShape(t) /\ p = DateLength(t) => \E form \in DateForms : HasForm(u, form)
  BY DateShapeHasAForm
<1> HIDE DEF u
<1> SUFFICES Dates(u) = IF DateShape(t) /\ p = DateLength(t) /\ DateValid(DateOf(DateAt(t)))
                          THEN {DateAt(t)} ELSE {}
  BY DEF u
<1> QED BY <1>1, <1>2 DEF Dates
-----------------------------------------------------------------------------
LEMMA NumberOfNoPlaces ==
    ASSUME NEW form, NEW field, NEW t, \A k \in DOMAIN form : form[k] # field
    PROVE  NumberOf(field, t, form) = 0
BY NoPlaces, NumberOfNoDigits DEF NumberOf

LEMMA MinutesTime ==
    ASSUME NEW u \in Seq(Characters)
    PROVE  /\ HasForm(u, Minutes) <=>
                /\ Len(u) = 5 /\ u[3] = ":"
                /\ \A i \in (1 .. 2) \cup (4 .. 5) : u[i] \in Digits
           /\ NumberOf("hour", u, Minutes) = NumberAt(u, 1, 2)
           /\ NumberOf("min", u, Minutes) = NumberAt(u, 4, 2)
           /\ NumberOf("sec", u, Minutes) = 0
           /\ DigitsOf("micros", u, Minutes) = <<>>
<1> DEFINE form == Minutes
<1>1. /\ DOMAIN form = 1 .. 5 /\ Len(form) = 5
      /\ form[1] = "hour" /\ form[2] = "hour" /\ form[3] = ":"
      /\ form[4] = "min" /\ form[5] = "min"
  BY DEF Minutes
<1> HIDE DEF form
<1>2. /\ \A i \in (1 .. 2) \cup (4 .. 5) : form[i] \in FieldNames
      /\ form[3] \notin FieldNames
  BY <1>1 DEF FieldNames
<1>3. IsAt(form, "hour", 1, 2) /\ IsAt(form, "min", 4, 2)
  BY <1>1 DEF IsAt
<1>4. HasForm(u, form) <=>
         /\ Len(u) = 5 /\ u[3] = ":"
         /\ \A i \in (1 .. 2) \cup (4 .. 5) : u[i] \in Digits
  BY <1>1, <1>2 DEF HasForm
<1>5. NumberOf("hour", u, form) = NumberAt(u, 1, 2)
  BY <1>3, NumberInPlaces
<1>6. NumberOf("min", u, form) = NumberAt(u, 4, 2)
  BY <1>3, NumberInPlaces
<1>7. \A k \in DOMAIN form : form[k] # "sec" /\ form[k] # "micros"
  BY <1>1
<1>8. NumberOf("sec", u, form) = 0
  BY <1>7, NumberOfNoPlaces
<1>9. DigitsOf("micros", u, form) = <<>>
  BY <1>7, NoPlaces
<1> QED BY <1>4, <1>5, <1>6, <1>8, <1>9 DEF form

LEMMA SecondsTime ==
    ASSUME NEW u \in Seq(Characters)
    PROVE  /\ HasForm(u, Seconds) <=>
                /\ Len(u) = 8 /\ u[3] = ":" /\ u[6] = ":"
                /\ \A i \in (1 .. 2) \cup (4 .. 5) \cup (7 .. 8) : u[i] \in Digits
           /\ NumberOf("hour", u, Seconds) = NumberAt(u, 1, 2)
           /\ NumberOf("min", u, Seconds) = NumberAt(u, 4, 2)
           /\ NumberOf("sec", u, Seconds) = NumberAt(u, 7, 2)
           /\ DigitsOf("micros", u, Seconds) = <<>>
<1> DEFINE form == Seconds
<1>1. /\ DOMAIN form = 1 .. 8 /\ Len(form) = 8
      /\ form[1] = "hour" /\ form[2] = "hour" /\ form[3] = ":"
      /\ form[4] = "min" /\ form[5] = "min" /\ form[6] = ":"
      /\ form[7] = "sec" /\ form[8] = "sec"
  BY DEF Seconds
<1> HIDE DEF form
<1>2. /\ \A i \in (1 .. 2) \cup (4 .. 5) \cup (7 .. 8) : form[i] \in FieldNames
      /\ form[3] \notin FieldNames /\ form[6] \notin FieldNames
  BY <1>1 DEF FieldNames
<1>3. IsAt(form, "hour", 1, 2) /\ IsAt(form, "min", 4, 2) /\ IsAt(form, "sec", 7, 2)
  BY <1>1 DEF IsAt
<1>4. HasForm(u, form) <=>
         /\ Len(u) = 8 /\ u[3] = ":" /\ u[6] = ":"
         /\ \A i \in (1 .. 2) \cup (4 .. 5) \cup (7 .. 8) : u[i] \in Digits
  BY <1>1, <1>2 DEF HasForm
<1>5. NumberOf("hour", u, form) = NumberAt(u, 1, 2)
  BY <1>3, NumberInPlaces
<1>6. NumberOf("min", u, form) = NumberAt(u, 4, 2)
  BY <1>3, NumberInPlaces
<1>7. NumberOf("sec", u, form) = NumberAt(u, 7, 2)
  BY <1>3, NumberInPlaces
<1>8. \A k \in DOMAIN form : form[k] # "micros"
  BY <1>1
<1>9. DigitsOf("micros", u, form) = <<>>
  BY <1>8, NoPlaces
<1> QED BY <1>4, <1>5, <1>6, <1>7, <1>9 DEF form

LEMMA ConcatElements ==
    ASSUME NEW M, NEW a \in Seq(M), NEW b \in Seq(M)
    PROVE  /\ a \o b \in Seq(M) /\ Len(a \o b) = Len(a) + Len(b)
           /\ \A i \in 1 .. Len(a) : (a \o b)[i] = a[i]
           /\ \A i \in Len(a) + 1 .. Len(a) + Len(b) : (a \o b)[i] = b[i - Len(a)]
OBVIOUS

LEMMA FractionTime ==
    ASSUME NEW u \in Seq(Characters), NEW n \in Nat
    PROVE  /\ HasForm(u, WithFraction(n)) <=>
                /\ Len(u) = 9 + n /\ u[3] = ":" /\ u[6] = ":" /\ u[9] = "."
                /\ \A i \in (1 .. 2) \cup (4 .. 5) \cup (7 .. 8) : u[i] \in Digits
                /\ \A i \in 10 .. 9 + n : u[i] \in Digits
           /\ NumberOf("hour", u, WithFraction(n)) = NumberAt(u, 1, 2)
           /\ NumberOf("min", u, WithFraction(n)) = NumberAt(u, 4, 2)
           /\ NumberOf("sec", u, WithFraction(n)) = NumberAt(u, 7, 2)
           /\ DigitsOf("micros", u, WithFraction(n)) =
                IF n = 0 THEN <<>> ELSE SubSeq(u, 10, 9 + n)
<1> DEFINE form == WithFraction(n)
           dots == [i \in 1 .. n |-> "micros"]
           M == {"hour", "min", "sec", "micros", ":", "."}
<1>1. /\ DOMAIN form = 1 .. 9 + n /\ Len(form) = 9 + n
      /\ form[1] = "hour" /\ form[2] = "hour" /\ form[3] = ":"
      /\ form[4] = "min" /\ form[5] = "min" /\ form[6] = ":"
      /\ form[7] = "sec" /\ form[8] = "sec" /\ form[9] = "."
      /\ \A i \in 10 .. 9 + n : form[i] = "micros"
  <2>1. Seconds \in Seq(M) /\ Len(Seconds) = 8
        /\ Seconds[1] = "hour" /\ Seconds[2] = "hour" /\ Seconds[3] = ":"
        /\ Seconds[4] = "min" /\ Seconds[5] = "min" /\ Seconds[6] = ":"
        /\ Seconds[7] = "sec" /\ Seconds[8] = "sec"
    BY DEF Seconds
  <2>2. <<".">> \in Seq(M) /\ Len(<<".">>) = 1 /\ <<".">>[1] = "."
    OBVIOUS
  <2>3. dots \in Seq(M) /\ Len(dots) = n /\ \A i \in 1 .. n : dots[i] = "micros"
    OBVIOUS
  <2> DEFINE a == Seconds
             b == <<".">>
             c == a \o b
  <2> HIDE DEF a, b, dots, M
  <2>4. form = c \o dots
    BY DEF WithFraction, a, b, dots
  <2>5. c \in Seq(M) /\ Len(c) = 9 /\ c[9] = "." /\ \A i \in 1 .. 8 : c[i] = a[i]
    <3>1. a \in Seq(M) /\ Len(a) = 8 /\ b \in Seq(M) /\ Len(b) = 1 /\ b[1] = "."
      BY <2>1, <2>2 DEF a, b
    <3>2. /\ c \in Seq(M) /\ Len(c) = Len(a) + Len(b)
          /\ \A i \in 1 .. Len(a) : c[i] = a[i]
          /\ \A i \in Len(a) + 1 .. Len(a) + Len(b) : c[i] = b[i - Len(a)]
      BY <3>1, ConcatElements
    <3> HIDE DEF c
    <3> QED BY <3>1, <3>2
  <2> HIDE DEF c
  <2>6. /\ c \o dots \in Seq(M) /\ Len(c \o dots) = 9 + n
        /\ \A i \in 1 .. 9 : (c \o dots)[i] = c[i]
        /\ \A i \in 10 .. 9 + n : (c \o dots)[i] = dots[i - 9]
    <3> DEFINE d == dots
    <3>1. d \in Seq(M) /\ Len(d) = n
      BY <2>3
    <3> HIDE DEF d
    <3>2. /\ c \o d \in Seq(M) /\ Len(c \o d) = Len(c) + Len(d)
          /\ \A i \in 1 .. Len(c) : (c \o d)[i] = c[i]
          /\ \A i \in Len(c) + 1 .. Len(c) + Len(d) : (c \o d)[i] = d[i - Len(c)]
      BY <2>5, <3>1, ConcatElements
    <3> QED BY <2>5, <3>1, <3>2 DEF d
  <2>7. \A i \in 10 .. 9 + n : i - 9 \in 1 .. n
    OBVIOUS
  <2> QED BY <2>1, <2>3, <2>4, <2>5, <2>6, <2>7, SMTT(30) DEF a
<1> HIDE DEF form, dots
<1>2. /\ \A i \in (1 .. 2) \cup (4 .. 5) \cup (7 .. 8) : form[i] \in FieldNames
      /\ \A i \in 10 .. 9 + n : form[i] \in FieldNames
      /\ form[3] \notin FieldNames /\ form[6] \notin FieldNames /\ form[9] \notin FieldNames
  BY <1>1 DEF FieldNames
<1>3. IsAt(form, "hour", 1, 2) /\ IsAt(form, "min", 4, 2) /\ IsAt(form, "sec", 7, 2)
  <2>1. {k \in DOMAIN form : form[k] = "hour"} = 1 .. 2
    BY <1>1
  <2>2. {k \in DOMAIN form : form[k] = "min"} = 4 .. 5
    BY <1>1
  <2>3. {k \in DOMAIN form : form[k] = "sec"} = 7 .. 8
    BY <1>1
  <2> QED BY <2>1, <2>2, <2>3 DEF IsAt
<1>4. HasForm(u, form) <=>
         /\ Len(u) = 9 + n /\ u[3] = ":" /\ u[6] = ":" /\ u[9] = "."
         /\ \A i \in (1 .. 2) \cup (4 .. 5) \cup (7 .. 8) : u[i] \in Digits
         /\ \A i \in 10 .. 9 + n : u[i] \in Digits
  <2>1. /\ \A i \in 1 .. 9 : form[i] \in FieldNames <=> i \notin {3, 6, 9}
        /\ \A i \in 10 .. 9 + n : form[i] \in FieldNames
    BY <1>1, <1>2
  <2>2. \A i \in 1 .. 9 + n : i \in 1 .. 9 \/ i \in 10 .. 9 + n
    OBVIOUS
  <2>3. ASSUME HasForm(u, form)
        PROVE  /\ Len(u) = 9 + n /\ u[3] = ":" /\ u[6] = ":" /\ u[9] = "."
               /\ \A i \in (1 .. 2) \cup (4 .. 5) \cup (7 .. 8) : u[i] \in Digits
               /\ \A i \in 10 .. 9 + n : u[i] \in Digits
    BY <1>1, <1>2, <2>3 DEF HasForm
  <2>4. ASSUME /\ Len(u) = 9 + n /\ u[3] = ":" /\ u[6] = ":" /\ u[9] = "."
               /\ \A i \in (1 .. 2) \cup (4 .. 5) \cup (7 .. 8) : u[i] \in Digits
               /\ \A i \in 10 .. 9 + n : u[i] \in Digits
        PROVE  HasForm(u, form)
    BY <1>1, <2>1, <2>2, <2>4 DEF HasForm
  <2> QED BY <2>3, <2>4
<1>5. NumberOf("hour", u, form) = NumberAt(u, 1, 2)
  BY <1>3, NumberInPlaces
<1>6. NumberOf("min", u, form) = NumberAt(u, 4, 2)
  BY <1>3, NumberInPlaces
<1>7. NumberOf("sec", u, form) = NumberAt(u, 7, 2)
  BY <1>3, NumberInPlaces
<1>8. {k \in DOMAIN form : form[k] = "micros"} = 10 .. 9 + n
  BY <1>1
<1>9. DigitsOf("micros", u, form) = IF n = 0 THEN <<>> ELSE SubSeq(u, 10, 9 + n)
  <2>1. CASE n = 0
    BY <1>8, <2>1 DEF DigitsOf
  <2>2. CASE n # 0
    <3> DEFINE j == 9 + n
    <3>1. j \in Nat /\ 10 <= j /\ 10 \in 10 .. j
      BY <2>2
    <3> HIDE DEF j
    <3>2. Min(10 .. j) = 10
      BY <3>1 DEF Min
    <3>3. Max(10 .. j) = j
      BY <3>1 DEF Max
    <3>4. 10 .. j # {}
      BY <3>1
    <3> QED BY <1>8, <2>2, <3>2, <3>3, <3>4 DEF DigitsOf, j
  <2> QED BY <2>1, <2>2
<1> QED BY <1>4, <1>5, <1>6, <1>7, <1>9 DEF form

LEMMA Constants ==
    /\ PrefixDigits \in Nat \ {0} /\ NanoDigits \in Nat
    /\ 2 * PrefixDigits \in Nat /\ 2 * PrefixDigits <= NanoDigits
BY TextAssumption DEF NanoDigits

LEMMA FractionLengthIs ==
    ASSUME NEW t \in Seq(Characters), NEW b \in Nat, b + 9 <= Len(t)
    PROVE  /\ IsFraction(t, b, FractionLength(t, b))
           /\ \A n : IsFraction(t, b, n) => n = FractionLength(t, b)
<1> DEFINE last == Len(t) - (b + 9)
           T == {n \in 0 .. last : n = last \/ t[b + 10 + n] \notin Digits}
<1>1. last \in Nat /\ Len(t) = b + 9 + last
  OBVIOUS
<1>2. T \subseteq Nat /\ last \in T
  BY <1>1
<1>3. PICK n \in T : \A m \in T : n <= m
  <2> HIDE DEF T, last
  <2> QED BY <1>2, LeastNumber
<1>4. n \in 0 .. last /\ n \in Nat
  BY <1>1
<1>5. IsFraction(t, b, n)
  <2>1. \A i \in b + 10 .. b + 10 + n - 1 : t[i] \in Digits
    <3> SUFFICES ASSUME NEW i \in b + 10 .. b + 10 + n - 1 PROVE t[i] \in Digits
      OBVIOUS
    <3> DEFINE m == i - (b + 10)
    <3>1. m \in 0 .. last /\ m < n /\ b + 10 + m = i
      BY <1>1, <1>4
    <3> HIDE DEF m
    <3>2. m \notin T
      <4>1. \A x, y \in Nat : x < y => ~(y <= x)
        OBVIOUS
      <4>2. m \in Nat
        BY <1>1, <3>1
      <4> HIDE DEF T, last
      <4> QED BY <1>3, <1>4, <3>1, <4>1, <4>2
    <3> QED BY <3>1, <3>2
  <2>2. b + 9 + n < Len(t) => t[b + 10 + n] \notin Digits
    BY <1>1, <1>3, <1>4
  <2>3. b + 10 + n - 1 <= Len(t)
    BY <1>1, <1>4
  <2> QED BY <1>4, <2>1, <2>2, <2>3 DEF IsFraction, DigitsAt
<1>6. ASSUME NEW k, NEW m, IsFraction(t, b, k), IsFraction(t, b, m), k < m PROVE FALSE
  <2>1. k \in 0 .. last /\ m \in 0 .. last
    BY <1>6 DEF IsFraction
  <2>2. \A i \in b + 10 .. b + 10 + m - 1 : t[i] \in Digits
    BY <1>6 DEF IsFraction, DigitsAt
  <2>3. b + 10 + k \in b + 10 .. b + 10 + m - 1 /\ b + 9 + k < Len(t)
    BY <1>1, <1>6, <2>1
  <2>4. t[b + 10 + k] \notin Digits
    BY <1>6, <2>3 DEF IsFraction
  <2> QED BY <2>2, <2>3, <2>4
<1>7. \A k, m : IsFraction(t, b, k) /\ IsFraction(t, b, m) => k = m
  <2> SUFFICES ASSUME NEW k, NEW m, IsFraction(t, b, k), IsFraction(t, b, m)
               PROVE  k = m
    OBVIOUS
  <2>1. k \in 0 .. last /\ m \in 0 .. last
    BY DEF IsFraction
  <2>2. ~(k < m) /\ ~(m < k)
    BY <1>6
  <2> QED BY <1>1, <2>1, <2>2
<1>8. IsFraction(t, b, FractionLength(t, b))
  <2> HIDE DEF T
  <2>1. \E k \in 0 .. Len(t) - (b + 9) : IsFraction(t, b, k)
    BY <1>4, <1>5
  <2> QED BY <2>1 DEF FractionLength
<1> QED BY <1>7, <1>8

LEMMA CutOfNoDigits == Number(Cut(<<>>)) = 0
<1> DEFINE z == [i \in 1 .. 2 * PrefixDigits |-> "0"]
<1>1. z \in Seq(Digits) /\ Number(z) = 0 /\ Len(z) = 2 * PrefixDigits
  BY Constants, NumberOfZeros
<1>2. Cut(<<>>) = SubSeq(<<>> \o z, 1, Len(z))
  BY <1>1 DEF Cut
<1> HIDE DEF z
<1>3. <<>> \o z = z
  BY <1>1, ConcatEmptySeq
<1>4. SubSeq(z, 1, Len(z)) = z
  BY <1>1, SubSeqFull
<1> QED BY <1>1, <1>2, <1>3, <1>4

(* Behind a time there is nothing, or the zone.                            *)
EndsATime(t, p) == p = Len(t) \/ t[p + 1] \in {"Z", "+", "-"}

LEMMA TimeFormIsRead ==
    ASSUME NEW t \in Seq(Characters), NEW b \in Nat, NEW p \in b .. Len(t),
           EndsATime(t, p),
           NEW form \in TimeForms(0), HasForm(SubSeq(t, b + 1, p), form)
    PROVE  /\ TimeShape(t, b) /\ p = b + TimeLength(t, b) /\ form = TimeForm(t, b)
           /\ TimeIn(SubSeq(t, b + 1, p), form) = TimeAt(t, b)
<1> DEFINE u == SubSeq(t, b + 1, p)
<1>1. /\ u \in Seq(Characters) /\ Len(u) = p - b /\ p \in Nat
      /\ \A i \in 1 .. p - b : u[i] = t[b + i]
  OBVIOUS
<1>2. \A i \in Nat \ {0}, k \in Nat :
         i + k - 1 <= p - b => NumberAt(u, i, k) = NumberAt(t, b + i, k)
  <2> SUFFICES ASSUME NEW i \in Nat \ {0}, NEW k \in Nat, i + k - 1 <= p - b
               PROVE  SubSeq(u, i, i + k - 1) = SubSeq(t, b + i, b + i + k - 1)
    BY DEF NumberAt
  <2> QED OBVIOUS
<1>3. HasForm(u, form)
  OBVIOUS
<1>4. p < Len(t) => t[p + 1] \notin Digits /\ t[p + 1] # ":" /\ t[p + 1] # "."
  BY NotDigits DEF EndsATime
<1>9. \A i \in 1 .. p - b : u[i] \in Digits => t[b + i] \in Digits
  BY <1>1
<1>10. Len(u) = p - b /\ p \in Nat
  BY <1>1
<1> HIDE DEF u
<1>5. CASE form = Minutes
  <2>1. /\ p = b + 5 /\ t[b + 3] = ":"
        /\ \A i \in (1 .. 2) \cup (4 .. 5) : t[b + i] \in Digits
    <3>1. HasForm(u, Minutes)
      BY <1>3, <1>5
    <3>2. /\ Len(u) = 5 /\ u[3] = ":"
          /\ \A i \in (1 .. 2) \cup (4 .. 5) : u[i] \in Digits
      BY <1>1, <3>1, MinutesTime
    <3>3. p - b = 5 /\ p = b + 5
      <4>1. Len(u) = 5
        BY <3>2
      <4>2. \A x, y \in Nat : x - y = 5 => x = y + 5
        OBVIOUS
      <4> QED BY <1>10, <4>1, <4>2
    <3>4. t[b + 3] = ":"
      BY <1>1, <3>2, <3>3
    <3>5. \A i \in (1 .. 2) \cup (4 .. 5) : t[b + i] \in Digits
      BY <1>9, <3>2, <3>3
    <3> QED BY <3>3, <3>4, <3>5
  <2>2. ~HasSeconds(t, b) /\ ~HasFraction(t, b)
    BY <1>4, <2>1 DEF HasSeconds, HasFraction
  <2>3. TimeLength(t, b) = 5 /\ TimeForm(t, b) = Minutes
    BY <2>2 DEF TimeLength, TimeForm
  <2>4. DigitsAt(t, b + 1, 2) /\ DigitsAt(t, b + 4, 2)
    BY <2>1 DEF DigitsAt
  <2>5. TimeShape(t, b)
    BY <2>1, <2>2, <2>3, <2>4 DEF TimeShape
  <2>6. /\ NumberOf("hour", u, form) = NumberAt(t, b + 1, 2)
        /\ NumberOf("min", u, form) = NumberAt(t, b + 4, 2)
    BY <1>1, <1>2, <1>5, <2>1, MinutesTime
  <2>7. NumberOf("sec", u, form) = SecAt(t, b)
    BY <1>1, <1>5, <2>2, MinutesTime DEF SecAt
  <2>8. Number(Cut(DigitsOf("micros", u, form))) = MicrosAt(t, b)
    BY <1>1, <1>5, <2>2, MinutesTime, CutOfNoDigits DEF MicrosAt
  <2> QED BY <1>5, <2>1, <2>3, <2>5, <2>6, <2>7, <2>8 DEF TimeIn, TimeAt, u
<1>6. CASE form = Seconds
  <2>1. /\ p = b + 8 /\ t[b + 3] = ":" /\ t[b + 6] = ":"
        /\ \A i \in (1 .. 2) \cup (4 .. 5) \cup (7 .. 8) : t[b + i] \in Digits
    <3>1. HasForm(u, Seconds)
      BY <1>3, <1>6
    <3>2. /\ Len(u) = 8 /\ u[3] = ":" /\ u[6] = ":"
          /\ \A i \in (1 .. 2) \cup (4 .. 5) \cup (7 .. 8) : u[i] \in Digits
      BY <1>1, <3>1, SecondsTime
    <3>3. p - b = 8 /\ p = b + 8
      <4>1. Len(u) = 8
        BY <3>2
      <4>2. \A x, y \in Nat : x - y = 8 => x = y + 8
        OBVIOUS
      <4> QED BY <1>10, <4>1, <4>2
    <3>4. t[b + 3] = ":" /\ t[b + 6] = ":"
      BY <1>1, <3>2, <3>3
    <3>5. \A i \in (1 .. 2) \cup (4 .. 5) \cup (7 .. 8) : t[b + i] \in Digits
      BY <1>9, <3>2, <3>3
    <3> QED BY <3>3, <3>4, <3>5
  <2>2. HasSeconds(t, b) /\ ~HasFraction(t, b)
    BY <1>4, <2>1 DEF HasSeconds, HasFraction
  <2>3. TimeLength(t, b) = 8 /\ TimeForm(t, b) = Seconds
    BY <2>2 DEF TimeLength, TimeForm
  <2>4. DigitsAt(t, b + 1, 2) /\ DigitsAt(t, b + 4, 2) /\ DigitsAt(t, b + 7, 2)
    BY <2>1, SMTT(30) DEF DigitsAt
  <2>5. TimeShape(t, b)
    BY <2>1, <2>2, <2>3, <2>4 DEF TimeShape
  <2>6. /\ NumberOf("hour", u, form) = NumberAt(t, b + 1, 2)
        /\ NumberOf("min", u, form) = NumberAt(t, b + 4, 2)
        /\ NumberOf("sec", u, form) = NumberAt(t, b + 7, 2)
    BY <1>1, <1>2, <1>6, <2>1, SecondsTime
  <2>7. NumberOf("sec", u, form) = SecAt(t, b)
    BY <2>2, <2>6 DEF SecAt
  <2>8. Number(Cut(DigitsOf("micros", u, form))) = MicrosAt(t, b)
    BY <1>1, <1>6, <2>2, SecondsTime, CutOfNoDigits DEF MicrosAt
  <2> QED BY <1>6, <2>1, <2>3, <2>5, <2>6, <2>7, <2>8 DEF TimeIn, TimeAt, u
<1>7. ASSUME NEW n \in 0 .. NanoDigits, form = WithFraction(n)
      PROVE  /\ TimeShape(t, b) /\ p = b + TimeLength(t, b) /\ form = TimeForm(t, b)
             /\ TimeIn(u, form) = TimeAt(t, b)
  <2>0. n \in Nat
    BY Constants
  <2>1. /\ p = b + 9 + n /\ t[b + 3] = ":" /\ t[b + 6] = ":" /\ t[b + 9] = "."
        /\ \A i \in (1 .. 2) \cup (4 .. 5) \cup (7 .. 8) : t[b + i] \in Digits
        /\ \A i \in 10 .. 9 + n : t[b + i] \in Digits
    <3>1. HasForm(u, WithFraction(n))
      BY <1>3, <1>7
    <3>2. /\ Len(u) = 9 + n /\ u[3] = ":" /\ u[6] = ":" /\ u[9] = "."
          /\ \A i \in (1 .. 2) \cup (4 .. 5) \cup (7 .. 8) : u[i] \in Digits
          /\ \A i \in 10 .. 9 + n : u[i] \in Digits
      BY <1>1, <2>0, <3>1, FractionTime
    <3>3. p - b = 9 + n /\ p = b + 9 + n
      BY <1>1, <2>0, <3>2
    <3>4. t[b + 3] = ":" /\ t[b + 6] = ":" /\ t[b + 9] = "."
      <4>1. 3 \in 1 .. p - b /\ 6 \in 1 .. p - b /\ 9 \in 1 .. p - b
        BY <2>0, <3>3
      <4>2. u[3] = t[b + 3] /\ u[6] = t[b + 6] /\ u[9] = t[b + 9]
        BY <1>1, <4>1
      <4> QED BY <3>2, <4>2
    <3>5. \A i \in (1 .. 2) \cup (4 .. 5) \cup (7 .. 8) : t[b + i] \in Digits
      BY <1>9, <2>0, <3>2, <3>3, SMTT(30)
    <3>6. ASSUME NEW i \in 10 .. 9 + n PROVE t[b + i] \in Digits
      <4>1. i \in 1 .. p - b
        BY <2>0, <3>3
      <4>2. u[i] \in Digits
        BY <3>2
      <4> QED BY <1>9, <4>1, <4>2
    <3> QED BY <3>3, <3>4, <3>5, <3>6
  <2>2. HasSeconds(t, b) /\ HasFraction(t, b)
    BY <2>0, <2>1 DEF HasSeconds, HasFraction
  <2>3. FractionLength(t, b) = n
    <3>1. \A i \in b + 10 .. b + 10 + n - 1 : t[i] \in Digits
      <4> SUFFICES ASSUME NEW i \in b + 10 .. b + 10 + n - 1 PROVE t[i] \in Digits
        OBVIOUS
      <4>1. i - b \in 10 .. 9 + n /\ b + (i - b) = i
        BY <2>0
      <4> QED BY <2>1, <4>1
    <3>2. n \in 0 .. Len(t) - (b + 9) /\ b + 10 + n - 1 <= Len(t) /\ b + 10 + n = p + 1
          /\ b + 9 <= Len(t)
      BY <2>0, <2>1
    <3>3. IsFraction(t, b, n)
      BY <1>4, <2>0, <2>1, <3>1, <3>2 DEF IsFraction, DigitsAt
    <3> QED BY <3>2, <3>3, FractionLengthIs
  <2>4. TimeLength(t, b) = 9 + n /\ TimeForm(t, b) = WithFraction(n)
    BY <2>2, <2>3 DEF TimeLength, TimeForm
  <2>5. DigitsAt(t, b + 1, 2) /\ DigitsAt(t, b + 4, 2) /\ DigitsAt(t, b + 7, 2)
    <3>1. /\ t[b + 1] \in Digits /\ t[b + 2] \in Digits /\ t[b + 4] \in Digits
          /\ t[b + 5] \in Digits /\ t[b + 7] \in Digits /\ t[b + 8] \in Digits
      BY <2>1
    <3>2. b + 9 <= Len(t)
      BY <2>0, <2>1
    <3> QED BY <3>1, <3>2, SMTT(30) DEF DigitsAt
  <2>6. TimeShape(t, b)
    BY <2>0, <2>1, <2>2, <2>3, <2>4, <2>5 DEF TimeShape
  <2>7. /\ NumberOf("hour", u, form) = NumberAt(t, b + 1, 2)
        /\ NumberOf("min", u, form) = NumberAt(t, b + 4, 2)
        /\ NumberOf("sec", u, form) = NumberAt(t, b + 7, 2)
    <3>1. /\ NumberOf("hour", u, form) = NumberAt(u, 1, 2)
          /\ NumberOf("min", u, form) = NumberAt(u, 4, 2)
          /\ NumberOf("sec", u, form) = NumberAt(u, 7, 2)
      BY <1>1, <1>7, <2>0, FractionTime
    <3> QED BY <1>1, <1>2, <2>0, <2>1, <3>1
  <2>8. NumberOf("sec", u, form) = SecAt(t, b)
    BY <2>2, <2>7 DEF SecAt
  <2>9. Number(Cut(DigitsOf("micros", u, form))) = MicrosAt(t, b)
    <3>1. DigitsOf("micros", u, form) = IF n = 0 THEN <<>> ELSE SubSeq(u, 10, 9 + n)
      BY <1>1, <1>7, <2>0, FractionTime
    <3>2. DigitsOf("micros", u, form) = SubSeq(t, b + 10, b + 9 + n)
      <4>1. CASE n = 0
        <5>1. SubSeq(t, b + 10, b + 9 + n) = <<>>
          BY <4>1, SubSeqEmpty
        <5> QED BY <3>1, <4>1, <5>1
      <4>2. CASE n # 0
        <5>1. SubSeq(u, 10, 9 + n) = SubSeq(t, b + 10, b + 9 + n)
          BY <2>0, <2>1, <4>2 DEF u
        <5> QED BY <3>1, <4>2, <5>1
      <4> QED BY <4>1, <4>2
    <3> QED BY <2>2, <2>3, <3>2 DEF MicrosAt
  <2>10. TimeIn(u, form) = TimeAt(t, b)
    BY <2>7, <2>8, <2>9 DEF TimeIn, TimeAt
  <2>11. p = b + TimeLength(t, b)
    BY <2>0, <2>1, <2>4
  <2> QED BY <1>7, <2>4, <2>6, <2>10, <2>11
<1>8. form = Minutes \/ form = Seconds \/ \E n \in 0 .. NanoDigits : form = WithFraction(n)
  BY DEF TimeForms
<1> QED BY <1>5, <1>6, <1>7, <1>8 DEF u

LEMMA TimeLengthIs ==
    ASSUME NEW t \in Seq(Characters), NEW b \in Nat
    PROVE  /\ TimeLength(t, b) \in Nat /\ TimeLength(t, b) >= 5
           /\ HasFraction(t, b) => FractionLength(t, b) \in 0 .. Len(t) - (b + 9)
<1>1. CASE HasFraction(t, b)
  <2>1. b + 9 <= Len(t)
    BY <1>1 DEF HasFraction
  <2>2. FractionLength(t, b) \in 0 .. Len(t) - (b + 9)
    BY <2>1, FractionLengthIs DEF IsFraction
  <2> QED BY <1>1, <2>2 DEF TimeLength
<1>2. CASE ~HasFraction(t, b)
  BY <1>2 DEF TimeLength
<1> QED BY <1>1, <1>2

LEMMA LengthsOfForms ==
    /\ Len(Minutes) = 5 /\ Len(Seconds) = 8
    /\ \A n \in Nat : Len(WithFraction(n)) = 9 + n
<1>1. Len(Minutes) = 5 /\ Len(Seconds) = 8
  BY DEF Minutes, Seconds
<1>2. ASSUME NEW n \in Nat PROVE Len(WithFraction(n)) = 9 + n
  <2> DEFINE dots == [i \in 1 .. n |-> "micros"]
             M == {"hour", "min", "sec", "micros", ":", "."}
  <2>1. Seconds \in Seq(M)
    BY DEF Seconds
  <2>2. <<".">> \in Seq(M) /\ Len(<<".">>) = 1
    OBVIOUS
  <2>3. dots \in Seq(M) /\ Len(dots) = n
    OBVIOUS
  <2> HIDE DEF dots, M
  <2>4. Seconds \o <<".">> \in Seq(M) /\ Len(Seconds \o <<".">>) = 8 + 1
    <3> DEFINE a == Seconds
               b == <<".">>
    <3>1. a \in Seq(M) /\ Len(a) = 8 /\ b \in Seq(M) /\ Len(b) = 1
      BY <1>1, <2>1, <2>2
    <3> HIDE DEF a, b
    <3>2. a \o b \in Seq(M) /\ Len(a \o b) = Len(a) + Len(b)
      BY <3>1, ConcatElements
    <3> QED BY <3>1, <3>2 DEF a, b
  <2>5. Len((Seconds \o <<".">>) \o dots) = 9 + n
    BY <2>3, <2>4, ConcatElements
  <2> QED BY <2>5 DEF WithFraction, dots
<1> QED BY <1>1, <1>2

LEMMA NotWithoutDigits ==
    ASSUME NEW n \in Nat, WithFraction(n) \in TimeForms(1)
    PROVE  n # 0
<1>1. SUFFICES ASSUME n = 0 PROVE FALSE
  OBVIOUS
<1>2. Len(WithFraction(n)) = 9
  <2>1. Len(WithFraction(n)) = 9 + n
    BY LengthsOfForms
  <2> QED BY <1>1, <2>1
<1>3. WithFraction(n) # Minutes /\ WithFraction(n) # Seconds
  <2>1. Len(Minutes) = 5 /\ Len(Seconds) = 8
    BY LengthsOfForms
  <2> QED BY <1>2, <2>1
<1>4. PICK k \in 1 .. NanoDigits : WithFraction(n) = WithFraction(k)
  BY <1>3 DEF TimeForms
<1>5. Len(WithFraction(k)) = 9 + k
  BY LengthsOfForms
<1> QED BY <1>2, <1>4, <1>5, SMTT(30)

LEMMA TimeShapeHasAForm ==
    ASSUME NEW t \in Seq(Characters), NEW b \in Nat, TimeShape(t, b)
    PROVE  /\ HasForm(SubSeq(t, b + 1, b + TimeLength(t, b)), TimeForm(t, b))
           /\ TimeForm(t, b) \in TimeForms(0)
           /\ TimeForm(t, b) \in TimeForms(1) <=> ~EndsInADot(t, b)
<1> DEFINE p == b + TimeLength(t, b)
           u == SubSeq(t, b + 1, p)
<1>0. p \in b .. Len(t) /\ p \in Nat /\ p - b = TimeLength(t, b)
  <2> DEFINE k == TimeLength(t, b)
  <2>1. k \in Nat /\ b + k <= Len(t) /\ Len(t) \in Nat
    BY TimeLengthIs DEF TimeShape
  <2> HIDE DEF k
  <2>2. b + k \in b .. Len(t) /\ b + k \in Nat /\ (b + k) - b = k
    BY <2>1
  <2> QED BY <2>2 DEF k
<1> HIDE DEF p
<1>1. /\ u \in Seq(Characters) /\ Len(u) = p - b
      /\ \A i \in 1 .. p - b : u[i] = t[b + i]
  BY <1>0
<1>2. \A i \in 1 .. p - b : t[b + i] \in Digits => u[i] \in Digits
  BY <1>1
<1>3. Len(u) = TimeLength(t, b)
  BY <1>0, <1>1
<1>4. /\ t[b + 1] \in Digits /\ t[b + 2] \in Digits /\ t[b + 3] = ":"
      /\ t[b + 4] \in Digits /\ t[b + 5] \in Digits
  BY DEF TimeShape, DigitsAt
<1> HIDE DEF u
<1>5. /\ u[1] \in Digits /\ u[2] \in Digits /\ u[3] = ":"
      /\ u[4] \in Digits /\ u[5] \in Digits
  <2>1. 1 \in 1 .. p - b /\ 2 \in 1 .. p - b /\ 3 \in 1 .. p - b
        /\ 4 \in 1 .. p - b /\ 5 \in 1 .. p - b
    BY <1>0, TimeLengthIs
  <2> QED BY <1>1, <1>4, <2>1
<1>6. CASE ~HasSeconds(t, b)
  <2>1. ~HasFraction(t, b)
    BY <1>6 DEF HasFraction
  <2>2. TimeLength(t, b) = 5 /\ TimeForm(t, b) = Minutes
    BY <1>6, <2>1 DEF TimeLength, TimeForm
  <2>3. HasForm(u, Minutes)
    BY <1>1, <1>3, <1>5, <2>2, MinutesTime, SMTT(30)
  <2>4. Minutes \in TimeForms(0) /\ Minutes \in TimeForms(1)
    BY DEF TimeForms
  <2> QED BY <2>1, <2>2, <2>3, <2>4 DEF EndsInADot, u, p
<1>7. ASSUME HasSeconds(t, b), p - b >= 8
      PROVE  u[6] = ":" /\ u[7] \in Digits /\ u[8] \in Digits
  <2>1. t[b + 6] = ":" /\ t[b + 7] \in Digits /\ t[b + 8] \in Digits
    BY <1>7 DEF HasSeconds, TimeShape, DigitsAt
  <2>2. 6 \in 1 .. p - b /\ 7 \in 1 .. p - b /\ 8 \in 1 .. p - b
    BY <1>0, <1>7
  <2> QED BY <1>1, <2>1, <2>2
<1>8. CASE HasSeconds(t, b) /\ ~HasFraction(t, b)
  <2>1. TimeLength(t, b) = 8 /\ TimeForm(t, b) = Seconds
    BY <1>8 DEF TimeLength, TimeForm
  <2>2. u[6] = ":" /\ u[7] \in Digits /\ u[8] \in Digits
    BY <1>0, <1>7, <1>8, <2>1
  <2>3. HasForm(u, Seconds)
    <3>1. Len(u) = 8
      BY <1>3, <2>1
    <3>2. \A i \in (1 .. 2) \cup (4 .. 5) \cup (7 .. 8) : u[i] \in Digits
      BY <1>5, <2>2
    <3> QED BY <1>1, <1>5, <2>2, <3>1, <3>2, SecondsTime
  <2>4. Seconds \in TimeForms(0) /\ Seconds \in TimeForms(1)
    BY DEF TimeForms
  <2> QED BY <1>8, <2>1, <2>3, <2>4 DEF EndsInADot, u, p
<1>9. CASE HasFraction(t, b)
  <2> DEFINE n == FractionLength(t, b)
  <2>1. TimeLength(t, b) = 9 + n /\ TimeForm(t, b) = WithFraction(n)
    BY <1>9 DEF TimeLength, TimeForm
  <2>2. HasSeconds(t, b) /\ t[b + 9] = "." /\ b + 9 <= Len(t)
    BY <1>9 DEF HasFraction
  <2>3. n \in Nat /\ n \in 0 .. NanoDigits
    BY <1>9, TimeLengthIs, Constants DEF TimeShape
  <2>4. \A i \in b + 10 .. b + 10 + n - 1 : t[i] \in Digits
    BY <2>2, FractionLengthIs DEF IsFraction, DigitsAt
  <2> HIDE DEF n
  <2>5. u[6] = ":" /\ u[7] \in Digits /\ u[8] \in Digits
    BY <1>0, <1>7, <2>1, <2>2, <2>3
  <2>6. u[9] = "."
    <3>1. 9 \in 1 .. p - b
      BY <1>0, <2>1, <2>3
    <3> QED BY <1>1, <2>2, <3>1
  <2>7. ASSUME NEW i \in 10 .. 9 + n PROVE u[i] \in Digits
    <3>1. i \in 1 .. p - b /\ b + i \in b + 10 .. b + 10 + n - 1
      BY <1>0, <2>1, <2>3
    <3>2. t[b + i] \in Digits
      BY <2>4, <3>1
    <3> QED BY <1>2, <3>1, <3>2
  <2>8. \A i \in (1 .. 2) \cup (4 .. 5) \cup (7 .. 8) : u[i] \in Digits
    BY <1>5, <2>5
  <2>9. HasForm(u, WithFraction(n))
    BY <1>1, <1>3, <1>5, <2>1, <2>3, <2>5, <2>6, <2>7, <2>8, FractionTime
  <2>10. WithFraction(n) \in TimeForms(0)
    BY <2>3 DEF TimeForms
  <2>11. n # 0 => WithFraction(n) \in TimeForms(1)
    <3>1. n # 0 => n \in 1 .. NanoDigits
      BY <2>3
    <3> QED BY <3>1 DEF TimeForms
  <2>12. WithFraction(n) \in TimeForms(1) => n # 0
    BY <2>3, NotWithoutDigits
  <2>13. EndsInADot(t, b) <=> n = 0
    BY <1>9 DEF EndsInADot, n
  <2> QED BY <2>1, <2>9, <2>10, <2>11, <2>12, <2>13 DEF u, p
<1> QED BY <1>6, <1>8, <1>9

LEMMA TimesAre ==
    ASSUME NEW t \in Seq(Characters), NEW b \in Nat, NEW p \in b .. Len(t),
           EndsATime(t, p), NEW least \in {0, 1}
    PROVE  Times(SubSeq(t, b + 1, p), least) =
             IF /\ TimeShape(t, b) /\ p = b + TimeLength(t, b)
                /\ least = 1 => ~EndsInADot(t, b)
                /\ TimeValid(TimeOf(TimeAt(t, b)))
               THEN {TimeAt(t, b)} ELSE {}
<1> DEFINE u == SubSeq(t, b + 1, p)
           Good == /\ TimeShape(t, b) /\ p = b + TimeLength(t, b)
                   /\ least = 1 => ~EndsInADot(t, b)
<1>1. TimeForms(least) \subseteq TimeForms(0)
  BY Constants DEF TimeForms
<1>2. ASSUME NEW form \in TimeForms(least), HasForm(u, form)
      PROVE  Good /\ TimeIn(u, form) = TimeAt(t, b)
  <2>1. form \in TimeForms(0)
    BY <1>1
  <2>2. /\ TimeShape(t, b) /\ p = b + TimeLength(t, b) /\ form = TimeForm(t, b)
        /\ TimeIn(u, form) = TimeAt(t, b)
    BY <1>2, <2>1, TimeFormIsRead
  <2>3. least = 1 => ~EndsInADot(t, b)
    BY <2>2, TimeShapeHasAForm
  <2> QED BY <2>2, <2>3
<1>3. ASSUME Good PROVE \E form \in TimeForms(least) : HasForm(u, form)
  <2>1. HasForm(u, TimeForm(t, b)) /\ TimeForm(t, b) \in TimeForms(0)
    BY <1>3, TimeShapeHasAForm
  <2>2. TimeForm(t, b) \in TimeForms(least)
    BY <1>3, <2>1, TimeShapeHasAForm
  <2> QED BY <2>1, <2>2
<1> HIDE DEF u, Good
<1>4. Times(u, least) =
        IF Good /\ TimeValid(TimeOf(TimeAt(t, b))) THEN {TimeAt(t, b)} ELSE {}
  BY <1>2, <1>3 DEF Times
<1> QED BY <1>4 DEF u, Good
-----------------------------------------------------------------------------
LEMMA ZonesAre ==
    ASSUME NEW t \in Seq(Characters), NEW p \in 0 .. Len(t),
           SubSeq(t, p + 1, Len(t)) \in Zones
    PROVE  p < Len(t) /\ EndsATime(t, p) /\ p \in {Len(t) - 1, Len(t) - 6}
<1> DEFINE u == SubSeq(t, p + 1, Len(t))
<1>1. Len(u) = Len(t) - p /\ (p < Len(t) => u[1] = t[p + 1])
  OBVIOUS
<1>2. \A z \in Zones : Len(z) \in {1, 6} /\ z[1] \in {"Z", "+", "-"}
  BY DEF Zones
<1> HIDE DEF u
<1>3. u \in Zones
  BY DEF u
<1>4. Len(u) \in {1, 6} /\ u[1] \in {"Z", "+", "-"}
  BY <1>2, <1>3
<1>5. p < Len(t) /\ p \in {Len(t) - 1, Len(t) - 6}
  BY <1>1, <1>4
<1> QED BY <1>1, <1>4, <1>5 DEF EndsATime

LEMMA DateTimesAre ==
    ASSUME NEW t \in Seq(Characters)
    PROVE  DateTimes(t) =
             IF ReadableDateTime(t) THEN {Both(DateAt(t), TimeAt(t, TimePlace(t)))} ELSE {}
<1> DEFINE Ds(c) == {d \in Dates(SubSeq(t, 1, c[1] - 1)) : Year(d) >= FirstYear}
           Us(c) == Times(SubSeq(t, c[1] + 1, c[2]), 0)
           x == Both(DateAt(t), TimeAt(t, TimePlace(t)))
<1>1. ASSUME NEW c \in Cuts(t), NEW d \in Ds(c), NEW u \in Us(c)
      PROVE  ReadableDateTime(t) /\ Both(d, u) = x
  <2>1. /\ c[1] \in DOMAIN t /\ t[c[1]] = "T"
        /\ c[2] \in {Len(t) - 1, Len(t) - 6} /\ c[1] <= c[2]
        /\ SubSeq(t, c[2] + 1, Len(t)) \in Zones
    BY DEF Cuts
  <2> DEFINE b == c[1]
             p == c[2]
  <2>2. b \in Nat \ {0} /\ b - 1 \in 0 .. Len(t) /\ p \in 0 .. Len(t) /\ p \in b .. Len(t)
    BY <2>1
  <2> HIDE DEF b, p
  <2>3. Dates(SubSeq(t, 1, b - 1)) =
          IF DateShape(t) /\ b - 1 = DateLength(t) /\ DateValid(DateOf(DateAt(t)))
            THEN {DateAt(t)} ELSE {}
    BY <2>2, DatesAre
  <2>4. d \in Dates(SubSeq(t, 1, b - 1)) /\ Year(d) >= FirstYear
    BY DEF b
  <2>5. /\ DateShape(t) /\ b - 1 = DateLength(t) /\ DateValid(DateOf(DateAt(t)))
        /\ d = DateAt(t)
    BY <2>3, <2>4
  <2>6. b = TimePlace(t)
    BY <2>2, <2>5, DateLengthIs DEF TimePlace
  <2>7. EndsATime(t, p) /\ p < Len(t)
    BY <2>1, <2>2, ZonesAre DEF p
  <2>8. b \in Nat /\ 0 \in {0, 1} /\ ~(0 = 1)
    BY <2>2
  <2>9. Times(SubSeq(t, b + 1, p), 0) =
          IF /\ TimeShape(t, b) /\ p = b + TimeLength(t, b)
             /\ TimeValid(TimeOf(TimeAt(t, b)))
            THEN {TimeAt(t, b)} ELSE {}
    BY <2>2, <2>7, <2>8, TimesAre
  <2>10. u \in Times(SubSeq(t, b + 1, p), 0)
    BY DEF b, p
  <2>11. /\ TimeShape(t, b) /\ p = b + TimeLength(t, b)
         /\ TimeValid(TimeOf(TimeAt(t, b))) /\ u = TimeAt(t, b)
    BY <2>9, <2>10
  <2>12. p = ZonePlace(t)
    BY <2>6, <2>11 DEF ZonePlace
  <2>13. /\ TimePlace(t) <= Len(t) /\ t[TimePlace(t)] = "T"
         /\ SubSeq(t, ZonePlace(t) + 1, Len(t)) \in Zones
    <3>1. t[b] = "T" /\ SubSeq(t, p + 1, Len(t)) \in Zones
      BY <2>1 DEF b, p
    <3>2. b <= Len(t)
      BY <2>2
    <3> QED BY <2>6, <2>12, <3>1, <3>2
  <2> QED BY <2>4, <2>5, <2>6, <2>11, <2>13 DEF ReadableDateTime, DateTimeShape
<1>2. ASSUME ReadableDateTime(t)
      PROVE  \E c \in Cuts(t) : DateAt(t) \in Ds(c) /\ TimeAt(t, TimePlace(t)) \in Us(c)
  <2> DEFINE b == TimePlace(t)
             p == ZonePlace(t)
             c == <<b, p>>
  <2>1. /\ DateShape(t) /\ DateValid(DateOf(DateAt(t))) /\ Year(DateAt(t)) >= FirstYear
        /\ b <= Len(t) /\ t[b] = "T" /\ TimeShape(t, b)
        /\ TimeValid(TimeOf(TimeAt(t, b)))
        /\ SubSeq(t, p + 1, Len(t)) \in Zones
    BY <1>2 DEF ReadableDateTime, DateTimeShape
  <2>2. b \in Nat /\ b >= 1 /\ b \in 1 .. Len(t) /\ b - 1 = DateLength(t)
        /\ b - 1 \in 0 .. Len(t)
    BY <2>1, DateLengthIs DEF TimePlace
  <2>3. p = b + TimeLength(t, b)
    BY DEF ZonePlace
  <2>4. p \in b .. Len(t) /\ p \in 0 .. Len(t)
    <3> DEFINE k == TimeLength(t, b)
    <3>1. k \in Nat /\ b + k <= Len(t) /\ p = b + k
      BY <2>1, <2>2, <2>3, TimeLengthIs DEF TimeShape
    <3> HIDE DEF b, k, p
    <3> QED BY <2>2, <3>1
  <2> HIDE DEF b, p
  <2>5. EndsATime(t, p) /\ p \in {Len(t) - 1, Len(t) - 6}
    BY <2>1, <2>4, ZonesAre
  <2>6. c \in Cuts(t)
    <3>1. b \in {i \in DOMAIN t : t[i] = "T"}
      BY <2>1, <2>2
    <3>2. c \in {i \in DOMAIN t : t[i] = "T"} \X {Len(t) - 1, Len(t) - 6}
      BY <2>5, <3>1
    <3>3. c[1] = b /\ c[2] = p /\ b <= p
      BY <2>4
    <3> QED BY <2>1, <3>2, <3>3 DEF Cuts
  <2>7. DateAt(t) \in Dates(SubSeq(t, 1, b - 1))
    BY <2>1, <2>2, DatesAre
  <2>8. 0 \in {0, 1} /\ ~(0 = 1)
    OBVIOUS
  <2>9. TimeAt(t, b) \in Times(SubSeq(t, b + 1, p), 0)
    BY <2>1, <2>2, <2>3, <2>4, <2>5, <2>8, TimesAre
  <2>10. c[1] = b /\ c[2] = p
    OBVIOUS
  <2>11. DateAt(t) \in Ds(c) /\ TimeAt(t, b) \in Us(c)
    BY <2>1, <2>7, <2>9, <2>10
  <2> QED BY <2>6, <2>11 DEF b
<1>3. DateTimes(t) = UNION {{Both(d, u) : d \in Ds(c), u \in Us(c)} : c \in Cuts(t)}
  BY DEF DateTimes
<1> HIDE DEF Ds, Us
<1>4. \A y \in DateTimes(t) : ReadableDateTime(t) /\ y = x
  BY <1>1, <1>3
<1>5. ReadableDateTime(t) => x \in DateTimes(t)
  BY <1>2, <1>3
<1> QED BY <1>4, <1>5

(* A text stands for at most one date, time or DateTime, and which one     *)
(* follows from its positions.                                             *)
THEOREM TextsAreUnambiguous ==
    ASSUME NEW k \in Kinds, NEW t \in Seq(Characters)
    PROVE  Readings(k, t) = IF Readable(k, t) THEN {Reading(k, t)} ELSE {}
<1>1. CASE k = "date"
  <2>1. Len(t) \in 0 .. Len(t) /\ SubSeq(t, 1, Len(t)) = t
    BY SubSeqFull
  <2>2. Dates(t) = IF ReadableDate(t) THEN {DateAt(t)} ELSE {}
    BY <2>1, DatesAre DEF ReadableDate
  <2> QED BY <1>1, <2>2 DEF Readings, Readable, Reading
<1>2. CASE k = "time"
  <2>1. Len(t) \in 0 .. Len(t) /\ SubSeq(t, 1, Len(t)) = t /\ 0 + 1 = 1 /\ 0 \in Nat
        /\ EndsATime(t, Len(t))
    BY SubSeqFull DEF EndsATime
  <2>2. Times(SubSeq(t, 0 + 1, Len(t)), 1) =
          IF /\ TimeShape(t, 0) /\ Len(t) = 0 + TimeLength(t, 0)
             /\ 1 = 1 => ~EndsInADot(t, 0)
             /\ TimeValid(TimeOf(TimeAt(t, 0)))
            THEN {TimeAt(t, 0)} ELSE {}
    BY <2>1, TimesAre
  <2>3. 0 + TimeLength(t, 0) = TimeLength(t, 0)
    BY TimeLengthIs
  <2>4. Times(t, 1) = IF ReadableTime(t) THEN {TimeAt(t, 0)} ELSE {}
    BY <2>1, <2>2, <2>3 DEF ReadableTime
  <2> QED BY <1>2, <2>4 DEF Readings, Readable, Reading
<1>3. CASE k = "datetime"
  BY <1>3, DateTimesAre DEF Readings, Readable, Reading
<1> QED BY <1>1, <1>2, <1>3 DEF Kinds
-----------------------------------------------------------------------------
(* Numbers as the parser takes them.                                       *)

LEMMA NumbersAreBelow ==
    ASSUME NEW t \in Seq(Characters), NEW i \in Nat \ {0}, NEW k \in Nat, DigitsAt(t, i, k)
    PROVE  NumberAt(t, i, k) \in Nat /\ NumberAt(t, i, k) < Power10[k]
<1> DEFINE u == SubSeq(t, i, i + k - 1)
<1>1. u \in Seq(Digits) /\ Len(u) = k
  BY DEF DigitsAt
<1> HIDE DEF u
<1>2. Number(u) \in Nat /\ Number(u) < Power10[k]
  BY <1>1, NumberIsANumber, NumberIsBelow
<1> QED BY <1>2 DEF NumberAt, u

LEMMA PowersOfTen == Power10[2] = 100 /\ Power10[4] = 10000
<1>1. Power10[0 + 1] = 10 * Power10[0] /\ Power10[0] = 1
  BY Power10Def
<1>2. Power10[1 + 1] = 10 * Power10[1]
  BY Power10Def
<1>3. Power10[2 + 1] = 10 * Power10[2]
  BY Power10Def
<1>4. Power10[3 + 1] = 10 * Power10[3]
  BY Power10Def
<1> QED BY <1>1, <1>2, <1>3, <1>4, SMT

LEMMA YearsHaveFourDigits ==
    ASSUME NEW t \in Seq(Characters), NEW i \in Nat \ {0}, DigitsAt(t, i, 4)
    PROVE  NumberAt(t, i, 4) \in Years
<1>1. NumberAt(t, i, 4) \in Nat /\ NumberAt(t, i, 4) < Power10[4]
  BY NumbersAreBelow
<1>2. \A x \in Nat : x < 10000 => x \in Years
  BY SMTT(30) DEF Years
<1> DEFINE x == NumberAt(t, i, 4)
<1>3. x \in Nat /\ x < Power10[4]
  BY <1>1
<1> HIDE DEF x
<1>4. x < 10000
  BY <1>3, PowersOfTen, SMT
<1>5. x \in Years
  BY <1>2, <1>3, <1>4, SMT
<1> QED BY <1>5 DEF x

LEMMA NumberIsTaken ==
    ASSUME text \in Seq(Characters), pos \in Nat, NEW size \in Nat \ {0}
    PROVE  /\ HasNumber(size) <=> DigitsAt(text, pos + 1, size)
           /\ HasNumber(size) =>
                Number(SubSeq(Rest, 1, size)) = NumberAt(text, pos + 1, size)
<1>1. CASE size <= Unconsumed
  <2> DEFINE r == SubSeq(text, pos + 1, Len(text))
  <2>0. pos + size <= Len(text) /\ Len(text) \in Nat
    BY <1>1 DEF Unconsumed
  <2>1. \A i \in 1 .. size : r[i] = text[pos + i]
    BY <2>0
  <2>2. SubSeq(r, 1, size) = SubSeq(text, pos + 1, pos + 1 + size - 1)
    BY <2>0
  <2> HIDE DEF r
  <2>3. (\A i \in 1 .. size : r[i] \in Digits) <=>
           \A j \in pos + 1 .. pos + 1 + size - 1 : text[j] \in Digits
    <3>1. ASSUME \A i \in 1 .. size : r[i] \in Digits,
                 NEW j \in pos + 1 .. pos + 1 + size - 1
          PROVE  text[j] \in Digits
      <4>1. j - pos \in 1 .. size /\ pos + (j - pos) = j
        OBVIOUS
      <4> QED BY <2>1, <3>1, <4>1
    <3>2. ASSUME \A j \in pos + 1 .. pos + 1 + size - 1 : text[j] \in Digits,
                 NEW i \in 1 .. size
          PROVE  r[i] \in Digits
      <4>1. pos + i \in pos + 1 .. pos + 1 + size - 1
        OBVIOUS
      <4> QED BY <2>1, <3>2, <4>1
    <3> QED BY <3>1, <3>2
  <2>4. pos + 1 + size - 1 <= Len(text)
    BY <2>0
  <2> QED BY <1>1, <2>2, <2>3, <2>4 DEF HasNumber, DigitsAt, NumberAt, Rest, r
<1>2. CASE ~(size <= Unconsumed)
  BY <1>2 DEF HasNumber, DigitsAt, Unconsumed
<1> QED BY <1>1, <1>2

LEMMA CommonFactor ==
    ASSUME NEW a \in Nat, NEW b \in Nat, NEW c \in Nat, b >= 1, c >= 1
    PROVE  (a * c) \div (b * c) = a \div b
<1> DEFINE q == a \div b
           r == a % b
<1>1. q \in Nat /\ r \in Nat /\ r < b /\ a = b * q + r
  OBVIOUS
<1> HIDE DEF q, r
<1>2. a * c = (b * c) * q + r * c
  <2>1. (b * q + r) * c = (b * c) * q + r * c
    BY <1>1
  <2> QED BY <1>1, <2>1
<1>3. r * c \in Nat /\ b * c \in Nat /\ r * c < b * c
  BY <1>1
<1>4. \A x, y, z \in Nat : y < z => (z * x + y) \div z = x
  OBVIOUS
<1>5. (a * c) \div (b * c) = q
  <2> DEFINE e == r * c
             d == b * c
  <2>1. e \in Nat /\ d \in Nat /\ e < d /\ a * c = d * q + e
    BY <1>2, <1>3
  <2> HIDE DEF e, d
  <2>2. (a * c) \div d = q
    BY <1>1, <1>4, <2>1
  <2> QED BY <2>2 DEF d
<1> QED BY <1>5 DEF q

(* nanoseconds counts in units of the NanoDigits-th digit, and micros are  *)
(* what is left without the last PrefixDigits of them.                     *)
LEMMA MicrosAreCut ==
    ASSUME NEW s \in Seq(Digits), Len(s) <= NanoDigits
    PROVE  (Number(s) * Power10[NanoDigits - Len(s)]) \div Power10[PrefixDigits]
             = Number(Cut(s))
<1> DEFINE n == Len(s)
           P == PrefixDigits
           z == [i \in 1 .. 2 * P |-> "0"]
           N == Number(s)
           full == s \o z
<1>1. n \in Nat /\ P \in Nat /\ 2 * P \in Nat /\ NanoDigits = 3 * P /\ n <= 3 * P
  BY Constants DEF NanoDigits
<1>2. z \in Seq(Digits) /\ Number(z) = 0 /\ Len(z) = 2 * P
  BY <1>1, NumberOfZeros
<1>3. N \in Nat
  BY NumberIsANumber
<1>4. full \in Seq(Digits) /\ Len(full) = n + 2 * P
  <2> HIDE DEF z
  <2> QED BY <1>1, <1>2
<1>5. Number(full) = N * Power10[2 * P]
  <2>1. Number(full) = Number(s) * Power10[Len(z)] + Number(z)
    BY <1>2, NumberOfConcat
  <2>2. Power10[2 * P] \in Nat
    BY <1>1, Power10IsPositive
  <2> HIDE DEF full, z
  <2> QED BY <1>2, <1>3, <2>1, <2>2
<1> HIDE DEF full
<1>6. Number(Cut(s)) = (N * Power10[2 * P]) \div Power10[n]
  <2>1. 2 * P \in 0 .. Len(full) /\ Len(full) - 2 * P = n
    BY <1>1, <1>4
  <2>2. Number(SubSeq(full, 1, 2 * P)) = Number(full) \div Power10[Len(full) - 2 * P]
    BY <1>4, <2>1, NumberIsCut
  <2> QED BY <1>5, <2>1, <2>2 DEF Cut, full
<1> HIDE DEF z, N, n, P
<1>7. CASE n <= 2 * P
  <2>1. 2 * P - n \in Nat /\ 3 * P - n = (2 * P - n) + P /\ 2 * P = (2 * P - n) + n
    BY <1>1, <1>7
  <2> DEFINE a == N * Power10[2 * P - n]
  <2>2. /\ Power10[3 * P - n] = Power10[2 * P - n] * Power10[P]
        /\ Power10[2 * P] = Power10[2 * P - n] * Power10[n]
    BY <1>1, <2>1, Power10Adds
  <2>3. /\ Power10[2 * P - n] \in Nat /\ Power10[P] \in Nat /\ Power10[n] \in Nat
        /\ Power10[P] >= 1 /\ Power10[n] >= 1
    BY <1>1, <2>1, Power10IsPositive
  <2>4. /\ N * Power10[3 * P - n] = a * Power10[P]
        /\ N * Power10[2 * P] = a * Power10[n]
        /\ a \in Nat
    BY <1>3, <2>2, <2>3
  <2> HIDE DEF a
  <2>5. \A x, y \in Nat : y >= 1 => (x * y) \div y = x
    OBVIOUS
  <2>6. (N * Power10[3 * P - n]) \div Power10[P] = (N * Power10[2 * P]) \div Power10[n]
    BY <2>3, <2>4, <2>5
  <2> QED BY <1>1, <1>6, <2>6 DEF N, n, P
<1>8. CASE n > 2 * P
  <2> DEFINE k == 3 * P - n
             j == n - 2 * P
  <2>1. k \in Nat /\ j \in Nat /\ P = j + k /\ n = j + 2 * P
    BY <1>1, <1>8
  <2> HIDE DEF k, j
  <2>2. /\ Power10[P] = Power10[j] * Power10[k]
        /\ Power10[n] = Power10[j] * Power10[2 * P]
    <3>1. \A a, b \in Nat : Power10[a + b] = Power10[a] * Power10[b]
      BY Power10Adds
    <3>2. Power10[j + k] = Power10[j] * Power10[k]
      BY <2>1, <3>1
    <3>3. Power10[j + 2 * P] = Power10[j] * Power10[2 * P]
      BY <1>1, <2>1, <3>1
    <3> QED BY <2>1, <3>2, <3>3
  <2>3. /\ Power10[j] \in Nat /\ Power10[k] \in Nat /\ Power10[2 * P] \in Nat
        /\ Power10[j] >= 1 /\ Power10[k] >= 1 /\ Power10[2 * P] >= 1
    BY <1>1, <2>1, Power10IsPositive
  <2>4. (N * Power10[k]) \div (Power10[j] * Power10[k]) = N \div Power10[j]
    BY <1>3, <2>3, CommonFactor
  <2>5. (N * Power10[2 * P]) \div (Power10[j] * Power10[2 * P]) = N \div Power10[j]
    BY <1>3, <2>3, CommonFactor
  <2>6. (N * Power10[3 * P - n]) \div Power10[P] = (N * Power10[2 * P]) \div Power10[n]
    BY <2>2, <2>4, <2>5 DEF k
  <2> QED BY <1>1, <1>6, <2>6 DEF N, n, P
<1> QED BY <1>1, <1>7, <1>8
-----------------------------------------------------------------------------
(* Init: what is read starts well, wherever the text comes from.           *)

LEMMA FieldTypes ==
    ASSUME NEW f \in Fields
    PROVE  /\ f.negative \in BOOLEAN /\ f.year \in Years /\ f.year \in Nat
           /\ f.month \in Nat /\ f.day \in Nat
           /\ f.hour \in Nat /\ f.min \in Nat /\ f.sec \in Nat /\ f.micros \in Nat
<1>1. f.negative \in BOOLEAN
  BY SMT DEF Fields
<1>2. /\ f.year \in Years /\ f.month \in Nat /\ f.day \in Nat
      /\ f.hour \in Nat /\ f.min \in Nat /\ f.sec \in Nat /\ f.micros \in Nat
  BY SMT DEF Fields
<1>3. \A y \in Years : y \in Nat
  BY SMT DEF Years
<1> QED BY <1>1, <1>2, <1>3, Zenon

LEMMA NoFieldsAre == NoFields \in Fields
<1>1. 0 \in Years
  BY SMT DEF Years
<1> QED BY <1>1 DEF NoFields, Fields

LEMMA PaddedAreDigits ==
    ASSUME NEW width \in Nat, NEW n \in Nat
    PROVE  /\ Padded(width, n) \in Seq(Digits)
           /\ Len(Padded(width, n)) \in Nat /\ Len(Padded(width, n)) >= width
<1> DEFINE Good(k) == /\ n < Power10[k]
                      /\ \A j \in width .. k - 1 : n >= Power10[j]
           T == {k \in Nat : k >= width /\ n < Power10[k]}
           size == Size(width, n)
<1>1. \A m \in Nat : m < Power10[m]
  <2> DEFINE S == {m \in Nat : m < Power10[m]}
  <2>1. 0 \in S
    BY Power10Def
  <2>2. ASSUME NEW m \in S, m \in Nat PROVE m + 1 \in S
    <3>1. Power10[m + 1] = 10 * Power10[m] /\ Power10[m] \in Nat
      BY <2>2, Power10Def, Power10IsPositive
    <3>2. m < Power10[m]
      BY <2>2
    <3>3. \A x, y \in Nat : x < y => x + 1 < 10 * y
      OBVIOUS
    <3> QED BY <2>2, <3>1, <3>2, <3>3
  <2>3. Nat \subseteq S
    <3> HIDE DEF S
    <3> QED BY <2>1, <2>2, NumbersInASet
  <2> QED BY <2>3
<1>2. width + n \in T
  <2>1. width + n \in Nat /\ width + n >= width /\ n <= width + n
    OBVIOUS
  <2>2. Power10[n] <= Power10[width + n]
    BY <2>1, Power10Grows
  <2>3. Power10[n] \in Nat /\ Power10[width + n] \in Nat /\ n < Power10[n]
    BY <1>1, <2>1, Power10IsPositive
  <2>4. n < Power10[width + n]
    BY <2>2, <2>3
  <2> QED BY <2>1, <2>4
<1>3. PICK k \in T : \A m \in T : k <= m
  <2>1. T \subseteq Nat /\ T # {}
    BY <1>2
  <2> HIDE DEF T
  <2> QED BY <2>1, LeastNumber
<1>4. k \in width .. width + n
  BY <1>2, <1>3
<1>5. Good(k)
  <2>1. n < Power10[k]
    BY <1>3
  <2>2. ASSUME NEW j \in width .. k - 1 PROVE n >= Power10[j]
    <3>1. j \in Nat /\ j >= width /\ j < k /\ k \in Nat
      BY <1>3
    <3>2. j \notin T
      BY <1>3, <3>1
    <3>3. Power10[j] \in Nat /\ ~(n < Power10[j])
      BY <3>1, <3>2, Power10IsPositive
    <3> QED BY <3>3
  <2> QED BY <2>1, <2>2
<1>6. size \in width .. width + n
  <2>1. size = CHOOSE i \in width .. width + n : Good(i)
    BY DEF Size
  <2> HIDE DEF Good, size
  <2> QED BY <1>4, <1>5, <2>1
<1>7. size \in Nat /\ size >= width
  BY <1>6
<1> HIDE DEF size
<1>8. ASSUME NEW i \in 1 .. size
      PROVE  Digit[((n \div Power10[size - i]) % 10) + 1] \in Digits
  <2>1. Power10[size - i] \in Nat /\ Power10[size - i] >= 1
    BY <1>7, Power10IsPositive
  <2>2. n \div Power10[size - i] \in Nat
    BY <2>1
  <2>3. (n \div Power10[size - i]) % 10 \in 0 .. 9
    BY <2>2
  <2> QED BY <2>3, DigitsAreWritten
<1>9. Padded(width, n) = [i \in 1 .. size |-> Digit[((n \div Power10[size - i]) % 10) + 1]]
  BY DEF Padded, size
<1> QED BY <1>7, <1>8, <1>9

LEMMA PartsAreCharacters ==
    ASSUME NEW f \in Fields
    PROVE  WriteDate(f) \in Seq(Characters) /\ WriteTime(f) \in Seq(Characters)
<1>1. \A width, n \in Nat : Padded(width, n) \in Seq(Characters)
  <2>1. \A s \in Seq(Digits) : s \in Seq(Characters)
    BY CharactersAre
  <2> QED BY <2>1, PaddedAreDigits
<1>2. /\ f.year \in Nat /\ f.month \in Nat /\ f.day \in Nat
      /\ f.hour \in Nat /\ f.min \in Nat /\ f.sec \in Nat /\ f.micros \in Nat
  BY FieldTypes
<1>3. SubSeq(Padded(4, f.year), 1, 4) \in Seq(Characters)
  <2> DEFINE s == Padded(4, f.year)
  <2>1. s \in Seq(Characters) /\ Len(s) \in Nat /\ Len(s) >= 4
    BY <1>1, <1>2, PaddedAreDigits
  <2> HIDE DEF s
  <2>2. SubSeq(s, 1, 4) \in Seq(Characters)
    BY <2>1
  <2> QED BY <2>2 DEF s
<1>4. /\ <<"-">> \in Seq(Characters) /\ <<"T">> \in Seq(Characters)
      /\ <<":">> \in Seq(Characters) /\ <<".">> \in Seq(Characters)
      /\ <<"Z">> \in Seq(Characters) /\ <<>> \in Seq(Characters)
  BY CharactersAre
<1>5. \A a, b \in Seq(Characters) : a \o b \in Seq(Characters)
  OBVIOUS
<1>6. WriteDate(f) \in Seq(Characters)
  <2>1. (IF Year(f) < 0 THEN <<"-">> ELSE <<>>) \in Seq(Characters)
    BY <1>4
  <2>2. Padded(2, f.month) \in Seq(Characters) /\ Padded(2, f.day) \in Seq(Characters)
    BY <1>1, <1>2
  <2> QED BY <1>3, <1>4, <1>5, <2>1, <2>2, Zenon DEF WriteDate
<1>7. WriteFraction(f.micros) \in Seq(Characters)
  <2>1. /\ Padded(PrefixDigits, f.micros \div MicrosPerMilli) \in Seq(Characters)
        /\ Padded(2 * PrefixDigits, f.micros) \in Seq(Characters)
    <3>1. MicrosPerMilli \in Nat \ {0}
      BY RadixAssumption
    <3>2. f.micros \div MicrosPerMilli \in Nat
      BY <1>2, <3>1
    <3> QED BY <1>1, <1>2, <3>2, Constants
  <2> QED BY <1>4, <1>5, <2>1, Zenon DEF WriteFraction
<1>8. WriteTime(f) \in Seq(Characters)
  <2>1. /\ Padded(2, f.hour) \in Seq(Characters) /\ Padded(2, f.min) \in Seq(Characters)
        /\ Padded(2, f.sec) \in Seq(Characters)
    BY <1>1, <1>2
  <2> QED BY <1>4, <1>5, <1>7, <2>1, Zenon DEF WriteTime
<1> QED BY <1>6, <1>8

(* The fields of a DateTime are those of an instant, for initUTC.          *)
LEMMA FieldsOfADateTime ==
    ASSUME NEW f \in Fields, DateValid(DateOf(f)), TimeValid(TimeOf(f)), Year(f) >= FirstYear
    PROVE  /\ DateOf(f) \in DateFields /\ TimeOf(f) \in TimeFields
           /\ YearAccepted(DateOf(f))
<1> DEFINE y == Year(f)
<1>1. /\ f.negative \in BOOLEAN /\ f.year \in Years
      /\ f.month \in Nat /\ f.day \in Nat
      /\ f.hour \in Nat /\ f.min \in Nat /\ f.sec \in Nat /\ f.micros \in Nat
  BY FieldTypes, Zenon
<1>2. TimeOf(f) \in TimeFields
  BY <1>1 DEF TimeOf, TimeFields
<1>3. y \in Int /\ y <= LastYear /\ y >= FirstYear
  <2>1. \A x \in Years : /\ x \in Int /\ -x \in Int
                         /\ x <= LastYear /\ -x <= LastYear
    BY SMT DEF Years, LastYear
  <2>2. y = -f.year \/ y = f.year
    BY Zenon DEF Year
  <2>3. y >= FirstYear
    OBVIOUS
  <2> HIDE DEF y
  <2>4. /\ f.year \in Int /\ -f.year \in Int /\ f.year <= LastYear /\ -f.year <= LastYear
    BY <1>1, <2>1, Zenon
  <2>5. y \in Int /\ y <= LastYear
    BY <2>2, <2>4, Zenon
  <2> QED BY <2>3, <2>5, Zenon
<1>4. DateOf(f) = [year |-> y, month |-> f.month, day |-> f.day]
  BY DEF DateOf
<1> HIDE DEF y
<1>5. y \in I16 /\ y \in FirstYear .. LastYear
  BY <1>3, SMTT(30) DEF FirstYear, LastYear, I16
<1> QED BY <1>1, <1>2, <1>4, <1>5 DEF DateFields, YearAccepted

LEMMA InitUTCTakesThem ==
    ASSUME NEW f \in Fields, DateValid(DateOf(f)), TimeValid(TimeOf(f)), Year(f) >= FirstYear,
           NEW safe \in BOOLEAN
    PROVE  initUTCIn(safe, DateOf(f), TimeOf(f)).error = "none"
<1>1. /\ DateOf(f) \in DateFields /\ TimeOf(f) \in TimeFields
      /\ YearAccepted(DateOf(f))
  BY FieldsOfADateTime
<1>2. initUTCIn(safe, DateOf(f), TimeOf(f)) = Ok(Instant(f))
  BY <1>1, InitUTCOutcome DEF Instant
<1>3. Ok(Instant(f)).error = "none"
  BY DEF Ok
<1> QED BY <1>2, <1>3

(* What an instant is written from: its date and its time.                 *)
LEMMA FieldsAtShow ==
    ASSUME NEW m \in JulianPeriod
    PROVE  /\ FieldsAt(m) \in Fields
           /\ DateOf(FieldsAt(m)) = date(m) /\ TimeOf(FieldsAt(m)) = time(m)
           /\ Year(FieldsAt(m)) >= FirstYear
<1> DEFINE d == date(m)
           t == time(m)
           y == d.year
           s == FieldsAt(m)
<1>1. d \in DateFields /\ t \in TimeFields /\ YearAccepted(d)
  BY ShownFields
<1> HIDE DEF d, t
<1>2. /\ d.month \in Nat /\ d.day \in Nat
      /\ t.hour \in Nat /\ t.min \in Nat /\ t.sec \in Nat /\ t.micros \in Nat
  BY <1>1 DEF DateFields, TimeFields
<1>3. y \in FirstYear .. LastYear
  BY <1>1 DEF YearAccepted
<1>4. s = [negative |-> y < 0, year |-> IF y < 0 THEN -y ELSE y,
           month |-> d.month, day |-> d.day,
           hour |-> t.hour, min |-> t.min, sec |-> t.sec, micros |-> t.micros]
  BY Zenon DEF FieldsAt, d, t
<1> HIDE DEF y, s
<1>5. (IF y < 0 THEN -y ELSE y) \in Years
  BY <1>3, SMTT(30) DEF FirstYear, LastYear, Years
<1>6. s \in Fields
  BY <1>2, <1>4, <1>5 DEF Fields
<1>7. Year(s) = y
  <2>1. s.negative = (y < 0) /\ s.year = IF y < 0 THEN -y ELSE y
    BY <1>4
  <2>2. \A x \in FirstYear .. LastYear : -(-x) = x
    BY SMTT(30) DEF FirstYear, LastYear
  <2>3. CASE y < 0
    <3>1. s.negative /\ s.year = -y
      BY <2>1, <2>3, Zenon
    <3>2. Year(s) = -s.year
      BY <3>1, Zenon DEF Year
    <3> QED BY <1>3, <2>2, <3>1, <3>2, Zenon
  <2>4. CASE ~(y < 0)
    <3>1. ~s.negative /\ s.year = y
      BY <2>1, <2>4, Zenon
    <3> QED BY <3>1, Zenon DEF Year
  <2> QED BY <2>3, <2>4
<1>8. DateOf(s) = d
  <2>1. d = [year |-> y, month |-> d.month, day |-> d.day]
    BY <1>1 DEF DateFields, y
  <2>2. s.month = d.month /\ s.day = d.day
    BY <1>4
  <2> QED BY <1>7, <2>1, <2>2 DEF DateOf
<1>9. TimeOf(s) = t
  <2>1. t = [hour |-> t.hour, min |-> t.min, sec |-> t.sec, micros |-> t.micros]
    BY <1>1 DEF TimeFields
  <2>2. s.hour = t.hour /\ s.min = t.min /\ s.sec = t.sec /\ s.micros = t.micros
    BY <1>4
  <2> QED BY <2>1, <2>2 DEF TimeOf
<1>10. Year(s) >= FirstYear
  BY <1>3, <1>7, SMTT(30) DEF FirstYear, LastYear
<1> QED BY <1>6, <1>8, <1>9, <1>10 DEF d, t, s

(* The instant of a DateTime, and the date and the time it is written as:  *)
(* its own, or the next day.                                               *)
LEMMA InstantIsWritten ==
    ASSUME NEW f \in Fields, DateValid(DateOf(f)), TimeValid(TimeOf(f)), Year(f) >= FirstYear
    PROVE  /\ Instant(f) \in JulianPeriod
           /\ DateValid(date(Instant(f))) /\ TimeValid(time(Instant(f)))
           /\ time(Instant(f)) = TimeOf(f)
           /\ ~DateIsLate(Instant(f)) => date(Instant(f)) = DateOf(f)
           /\ DateIsLate(Instant(f)) =>
                 InstantOf(date(Instant(f)), time(Instant(f))) = Instant(f) + MicrosPerDay
<1>1. /\ DateOf(f) \in DateFields /\ TimeOf(f) \in TimeFields
      /\ YearAccepted(DateOf(f))
  BY FieldsOfADateTime
<1>2. /\ Instant(f) \in JulianPeriod
      /\ time(Instant(f)) = TimeOf(f)
      /\ ~DateIsLate(Instant(f)) => date(Instant(f)) = DateOf(f)
  BY <1>1, InstantShowsItsFields DEF Instant
<1>3. DateValid(date(Instant(f))) /\ TimeValid(time(Instant(f)))
  BY <1>2, ShownFields
<1>4. DateIsLate(Instant(f)) =>
         InstantOf(date(Instant(f)), time(Instant(f))) = Instant(f) + MicrosPerDay
  BY <1>2, FieldsIdentify
<1> QED BY <1>2, <1>3, <1>4

LEMMA WrittenCharacters ==
    ASSUME NEW k \in Kinds, NEW f \in Fields, Writable(k, f)
    PROVE  Write(k, f) \in Seq(Characters)
<1>1. CASE k = "date"
  BY <1>1, PartsAreCharacters DEF Write
<1>2. CASE k = "time"
  BY <1>2, PartsAreCharacters DEF Write
<1>3. CASE k = "datetime"
  <2> DEFINE s == FieldsAt(Instant(f))
  <2>1. DateValid(DateOf(f)) /\ TimeValid(TimeOf(f)) /\ Year(f) >= FirstYear
    BY <1>3 DEF Writable
  <2>2. s \in Fields
    BY <2>1, InstantIsWritten, FieldsAtShow
  <2>3. Write(k, f) = WriteDate(s) \o <<"T">> \o WriteTime(s) \o <<"Z">>
    BY <1>3 DEF Write, bufWrite
  <2> HIDE DEF s
  <2>4. /\ WriteDate(s) \in Seq(Characters) /\ WriteTime(s) \in Seq(Characters)
        /\ <<"T">> \in Seq(Characters) /\ <<"Z">> \in Seq(Characters)
    BY <2>2, PartsAreCharacters, CharactersAre
  <2>5. \A a, b \in Seq(Characters) : a \o b \in Seq(Characters)
    OBVIOUS
  <2>6. WriteDate(s) \o <<"T">> \in Seq(Characters)
    BY <2>4, <2>5, Zenon
  <2>7. (WriteDate(s) \o <<"T">>) \o WriteTime(s) \in Seq(Characters)
    BY <2>4, <2>5, <2>6, Zenon
  <2> QED BY <2>3, <2>4, <2>5, <2>7, Zenon
<1> QED BY <1>1, <1>2, <1>3 DEF Kinds

(* The state in which a text is about to be read.                          *)
Starting ==
    /\ checked \in BOOLEAN /\ kind \in Kinds /\ text \in Seq(Characters)
    /\ pos = 0 /\ room = Len(text) /\ fields = NoFields /\ outcome = "pending"
    /\ next = IF kind = "time" THEN "hour" ELSE "sign"
    /\ WrittenInv

LEMMA StartsWell == Starting => Inv
<1> SUFFICES ASSUME Starting PROVE Inv
  OBVIOUS
<1>0. /\ checked \in BOOLEAN /\ kind \in Kinds /\ text \in Seq(Characters)
      /\ pos = 0 /\ room = Len(text) /\ fields = NoFields /\ outcome = "pending"
      /\ next = IF kind = "time" THEN "hour" ELSE "sign"
      /\ WrittenInv
  BY DEF Starting
<1>1. Len(text) \in Nat /\ Len(text) \in 0 .. Len(text) /\ Base = 0
  BY <1>0 DEF Base
<1>2. next \in {"hour", "sign"}
  BY <1>0
<1>3. TypeOK
  BY <1>0, <1>1, <1>2, NoFieldsAre DEF TypeOK, Ended
<1>4. Dateless(fields) /\ Timeless(fields)
  BY <1>0 DEF Dateless, Timeless, NoFields
<1>5. DateInv
  BY <1>0, <1>2, <1>4 DEF DateInv, DateSteps
<1>6. BetweenInv
  BY <1>2 DEF BetweenInv
<1>7. TimeFrame /\ TimeInv
  <2>1. next \in TimeSteps => kind = "time"
    BY <1>0 DEF TimeSteps, Kinds
  <2> QED BY <1>0, <1>1, <1>2, <1>4, <2>1 DEF TimeFrame, TimeInv
<1>8. EndInv
  BY <1>2 DEF EndInv
<1>9. next \in Steps
  BY <1>2 DEF Steps, DateSteps, TimeSteps
<1>10. PanicsOnlyAfterADateOrInAFraction
  BY <1>0 DEF PanicsOnlyAfterADateOrInAFraction
<1> QED BY <1>0, <1>3, <1>5, <1>6, <1>7, <1>8, <1>9, <1>10 DEF Inv

LEMMA InvInit == Init => Inv
<1> SUFFICES ASSUME Init PROVE Inv
  OBVIOUS
<1>1. ASSUME NEW t \in Texts, Start(t[1], t[2], <<>>) PROVE Inv
  <2>1. t[1] \in Kinds /\ t[2] \in Seq(Characters)
    BY TextAssumption
  <2>2. WrittenInv
    BY <1>1 DEF Start, WrittenInv
  <2>3. checked \in BOOLEAN
    BY <1>1, TextAssumption DEF Start
  <2> QED BY <1>1, <2>1, <2>2, <2>3, StartsWell DEF Start, Starting
<1>2. ASSUME NEW v \in Values, Start(v[1], Write(v[1], v[2]), <<v[2]>>) PROVE Inv
  <2>1. v[1] \in Kinds /\ v[2] \in Fields /\ Writable(v[1], v[2])
    BY TextAssumption
  <2>2. Write(v[1], v[2]) \in Seq(Characters)
    BY <2>1, WrittenCharacters
  <2>3. WrittenInv
    BY <1>2, <2>1 DEF Start, WrittenInv
  <2>4. checked \in BOOLEAN
    BY <1>2, TextAssumption DEF Start
  <2> QED BY <1>2, <2>1, <2>2, <2>3, <2>4, StartsWell DEF Start, Starting
<1> QED BY <1>1, <1>2 DEF Init
-----------------------------------------------------------------------------
(* Next: what all steps have in common.                                    *)

LEMMA GoKeeps ==
    ASSUME Inv, next # "end", NEW step \in Steps \ {"end"}, NEW p, NEW f, Go(step, p, f),
           p \in 0 .. Len(text) + 1, checked => p <= Len(text), f \in Fields
    PROVE  /\ TypeOK' /\ next' \in Steps /\ EndInv' /\ WrittenInv'
           /\ PanicsOnlyAfterADateOrInAFraction'
<1>1. /\ next' = step /\ pos' = p /\ fields' = f /\ next' # "end"
      /\ UNCHANGED <<checked, kind, text, written, room, outcome>>
  BY DEF Go
<1>2. TypeOK /\ WrittenInv /\ outcome = "pending"
  BY DEF Inv, TypeOK, Ended
<1>3. TypeOK'
  BY <1>1, <1>2 DEF TypeOK, Ended
<1>4. EndInv'
  BY <1>1 DEF EndInv
<1>5. WrittenInv'
  BY <1>1, <1>2 DEF WrittenInv
<1>6. PanicsOnlyAfterADateOrInAFraction'
  BY <1>1, <1>2 DEF PanicsOnlyAfterADateOrInAFraction
<1> QED BY <1>1, <1>3, <1>4, <1>5, <1>6

LEMMA EndKeeps ==
    ASSUME Inv, next # "end", NEW error \in Errors \cup {"none", "panic"}, End(error),
           error = "none" => Readable(kind, text) /\ fields = Reading(kind, text),
           error # "none" => ~Readable(kind, text),
           error = "panic" =>
               \/ kind = "datetime" /\ \E form \in DateForms : HasForm(text, form)
               \/ Number(SubSeq(Rest, 1, FractionDigits)) > UsizeMax
    PROVE  Inv'
<1>1. /\ next' = "end" /\ outcome' = error
      /\ UNCHANGED <<checked, kind, text, written, pos, room, fields>>
  BY DEF End
<1>2. TypeOK /\ WrittenInv
  BY DEF Inv
<1>3. TypeOK'
  BY <1>1, <1>2 DEF TypeOK, Ended
<1>4. EndInv'
  BY <1>1 DEF EndInv
<1>5. WrittenInv'
  BY <1>1, <1>2 DEF WrittenInv
<1>6. PanicsOnlyAfterADateOrInAFraction'
  <2>1. UNCHANGED <<Rest, FractionDigits>>
    BY <1>1 DEF Rest, FractionDigits
  <2> QED BY <1>1, <2>1 DEF PanicsOnlyAfterADateOrInAFraction
<1>7. DateInv' /\ BetweenInv' /\ TimeFrame' /\ TimeInv'
  BY <1>1 DEF DateInv, BetweenInv, TimeFrame, TimeInv, DateSteps, TimeSteps
<1>8. next' \in Steps
  BY <1>1 DEF Steps
<1> QED BY <1>3, <1>4, <1>5, <1>6, <1>7, <1>8 DEF Inv

(* An error other than a panic.                                            *)
LEMMA ErrorKeeps ==
    ASSUME Inv, next # "end", NEW error \in Errors, End(error), ~Readable(kind, text)
    PROVE  Inv'
<1>1. error # "none" /\ error # "panic"
  BY DEF Errors
<1> QED BY <1>1, EndKeeps

LEMMA NoDateIsRead ==
    ASSUME kind # "time", ~DateShape(text)
    PROVE  ~Readable(kind, text)
BY DEF Readable, ReadableDate, ReadableDateTime, DateTimeShape

LEMMA TypesAre ==
    ASSUME Inv
    PROVE  /\ text \in Seq(Characters) /\ Len(text) \in Nat
           /\ pos \in Nat /\ pos <= Len(text) + 1 /\ fields \in Fields
           /\ kind \in Kinds /\ checked \in BOOLEAN /\ room \in Int
           /\ DateInv /\ BetweenInv /\ TimeFrame /\ TimeInv
BY DEF Inv, TypeOK

(* A step inside a date.                                                   *)
LEMMA DateStepKeeps ==
    ASSUME Inv, next \in DateSteps, NEW step \in DateSteps, NEW p, NEW f, Go(step, p, f),
           p \in 0 .. Len(text), f \in Fields, Timeless(f), DateInv'
    PROVE  Inv'
<1>1. next # "end" /\ step \in Steps \ {"end"}
  BY DEF DateSteps, Steps
<1>2. p \in 0 .. Len(text) + 1 /\ p <= Len(text)
  BY TypesAre
<1>3. /\ TypeOK' /\ next' \in Steps /\ EndInv' /\ WrittenInv'
      /\ PanicsOnlyAfterADateOrInAFraction'
  BY <1>1, <1>2, GoKeeps
<1>4. next' = step
  BY DEF Go
<1>5. BetweenInv' /\ TimeFrame' /\ TimeInv'
  BY <1>4 DEF BetweenInv, TimeFrame, TimeInv, DateSteps, TimeSteps
<1> QED BY <1>3, <1>5 DEF Inv

LEMMA SignKeeps == Inv /\ Sign => Inv'
<1> SUFFICES ASSUME Inv, Sign PROVE Inv'
  OBVIOUS
<1>1. /\ next = "sign" /\ next \in DateSteps /\ next # "end"
      /\ kind # "time" /\ room = Len(text) /\ Timeless(fields)
      /\ pos = 0 /\ fields = NoFields
  BY TypesAre DEF Sign, DateInv, DateSteps
<1>2. CASE room < 8
  <2>1. End("InvalidDate")
    BY <1>2 DEF Sign
  <2>2. ~DateShape(text)
    BY <1>1, <1>2, DateLengthIs, TypesAre DEF DateShape
  <2> QED BY <1>1, <2>1, <2>2, NoDateIsRead, ErrorKeeps DEF Errors
<1>3. CASE ~(room < 8)
  <2>1. Len(text) >= 8 /\ pos < Len(text) /\ ~Blind
    BY <1>1, <1>3, TypesAre DEF Blind
  <2>2. CASE text[1] = "-"
    <3> DEFINE f == [fields EXCEPT !.negative = TRUE]
    <3>1. Go("year", 1, f)
      BY <1>1, <1>3, <2>1, <2>2 DEF Sign, Look, Misses
    <3>2. f \in Fields /\ Timeless(f) /\ f.negative
      BY <1>1, NoFieldsAre DEF Timeless, Fields
    <3>3. Minus(text) = 1
      BY <2>1, <2>2 DEF Minus
    <3>4. next' = "year" /\ pos' = 1 /\ fields' = f /\ UNCHANGED <<kind, text, room>>
      BY <3>1 DEF Go
    <3> HIDE DEF f
    <3>5. DateInv'
      BY <1>1, <2>1, <2>2, <3>2, <3>3, <3>4 DEF DateInv, DateSteps, SignRead
    <3>6. 1 \in 0 .. Len(text) /\ "year" \in DateSteps
      BY <2>1, TypesAre DEF DateSteps
    <3> QED BY <1>1, <3>1, <3>2, <3>5, <3>6, DateStepKeeps
  <2>3. CASE text[1] # "-"
    <3>1. Go("year", pos, fields)
      BY <1>1, <1>3, <2>1, <2>3 DEF Sign, Look, Sees
    <3>2. Minus(text) = 0 /\ ~fields.negative
      BY <1>1, <2>3 DEF Minus, NoFields
    <3>3. next' = "year" /\ pos' = pos /\ UNCHANGED <<fields, kind, text, room>>
      BY <3>1 DEF Go
    <3>4. DateInv'
      BY <1>1, <2>1, <2>3, <3>2, <3>3 DEF DateInv, DateSteps, SignRead
    <3>5. pos \in 0 .. Len(text) /\ "year" \in DateSteps
      BY <1>1, TypesAre DEF DateSteps
    <3> QED BY <1>1, <3>1, <3>4, <3>5, TypesAre, DateStepKeeps
  <2> QED BY <2>2, <2>3
<1> QED BY <1>2, <1>3

LEMMA TakeIs ==
    ASSUME Inv, NEW size \in Nat \ {0}, NEW field, NEW step, NEW error,
           Take(size, field, step, error)
    PROVE  /\ DigitsAt(text, pos + 1, size) =>
                /\ pos + size <= Len(text) /\ pos + size \in 0 .. Len(text)
                /\ NumberAt(text, pos + 1, size) \in Nat
                /\ Go(step, pos + size,
                      [fields EXCEPT ![field] = NumberAt(text, pos + 1, size)])
           /\ ~DigitsAt(text, pos + 1, size) => End(error)
<1>1. text \in Seq(Characters) /\ pos \in Nat /\ Len(text) \in Nat
  BY TypesAre
<1>2. /\ HasNumber(size) <=> DigitsAt(text, pos + 1, size)
      /\ HasNumber(size) =>
           Number(SubSeq(Rest, 1, size)) = NumberAt(text, pos + 1, size)
  BY <1>1, NumberIsTaken
<1>3. ASSUME DigitsAt(text, pos + 1, size)
      PROVE  /\ pos + size <= Len(text) /\ pos + size \in 0 .. Len(text)
             /\ NumberAt(text, pos + 1, size) \in Nat
             /\ Go(step, pos + size,
                   [fields EXCEPT ![field] = NumberAt(text, pos + 1, size)])
  <2>1. pos + 1 \in Nat \ {0} /\ size \in Nat
    BY <1>1
  <2>2. NumberAt(text, pos + 1, size) \in Nat
    BY <1>1, <1>3, <2>1, NumbersAreBelow
  <2>3. pos + size <= Len(text) /\ pos + size \in 0 .. Len(text)
    BY <1>1, <1>3 DEF DigitsAt
  <2> QED BY <1>2, <1>3, <2>2, <2>3 DEF Take
<1>4. ASSUME ~DigitsAt(text, pos + 1, size) PROVE End(error)
  BY <1>2, <1>4 DEF Take
<1> QED BY <1>3, <1>4

LEMMA TakeYearKeeps == Inv /\ TakeYear => Inv'
<1> SUFFICES ASSUME Inv, TakeYear PROVE Inv'
  OBVIOUS
<1>1. /\ next = "year" /\ next \in DateSteps /\ next # "end"
      /\ kind # "time" /\ room = Len(text) /\ Timeless(fields)
      /\ pos = Minus(text) /\ SignRead(text, fields)
  BY TypesAre DEF TakeYear, DateInv, DateSteps
<1>2. pos + 1 = YearPlace(text) /\ pos + 1 \in Nat \ {0}
  BY <1>1, DateLengthIs DEF YearPlace
<1>3. Take(4, "year", "dash", "InvalidDate")
  BY DEF TakeYear
<1>0. 4 \in Nat \ {0}
  OBVIOUS
<1>4. CASE DigitsAt(text, pos + 1, 4)
  <2> DEFINE n == NumberAt(text, pos + 1, 4)
             f == [fields EXCEPT !["year"] = n]
  <2>1. pos + 4 \in 0 .. Len(text) /\ Go("dash", pos + 4, f)
    BY <1>0, <1>3, <1>4, TakeIs, Zenon
  <2>2. n \in Years
    BY <1>2, <1>4, TypesAre, YearsHaveFourDigits
  <2> HIDE DEF n
  <2>3. f \in Fields /\ f.year = n /\ f.negative = fields.negative /\ Timeless(f)
    BY <1>1, <2>2, TypesAre DEF Fields, Timeless
  <2> HIDE DEF f
  <2>4. next' = "dash" /\ pos' = pos + 4 /\ fields' = f /\ UNCHANGED <<kind, text, room>>
    BY <2>1 DEF Go
  <2>5. YearRead(text, f)
    BY <1>1, <1>2, <1>4, <2>3 DEF YearRead, SignRead, n
  <2>6. DateInv'
    BY <1>1, <2>3, <2>4, <2>5 DEF DateInv, DateSteps
  <2> QED BY <1>1, <2>1, <2>3, <2>6, DateStepKeeps DEF DateSteps
<1>5. CASE ~DigitsAt(text, pos + 1, 4)
  <2>1. End("InvalidDate")
    BY <1>0, <1>3, <1>5, TakeIs, Zenon
  <2>2. ~DateShape(text)
    BY <1>2, <1>5 DEF DateShape
  <2> QED BY <1>1, <2>1, <2>2, NoDateIsRead, ErrorKeeps DEF Errors
<1> QED BY <1>4, <1>5

LEMMA FirstDashKeeps == Inv /\ FirstDash => Inv'
<1> SUFFICES ASSUME Inv, FirstDash PROVE Inv'
  OBVIOUS
<1>1. /\ next = "dash" /\ next \in DateSteps /\ next # "end"
      /\ kind # "time" /\ room = Len(text) /\ Timeless(fields)
      /\ pos = Minus(text) + 4 /\ YearRead(text, fields)
  BY TypesAre DEF FirstDash, DateInv, DateSteps
<1>2. /\ Len(text) >= 8 /\ pos < Len(text) /\ pos + 1 = Minus(text) + 5
      /\ pos \in 0 .. Len(text) /\ pos + 1 \in 0 .. Len(text) /\ ~Blind
  BY <1>1, DateLengthIs, TypesAre DEF YearRead, SignRead, Blind
<1>3. CASE text[pos + 1] = "-"
  <2>1. Dash(text) = 1 /\ MonthPlace(text) - 1 = pos + 1 /\ DateLength(text) >= 10
    BY <1>1, <1>2, <1>3, DateLengthIs DEF Dash, MonthPlace, DateLength
  <2>2. CASE room < 10
    <3>1. End("InvalidDate")
      BY <1>2, <1>3, <2>2 DEF FirstDash, Look, Misses
    <3>2. ~DateShape(text)
      BY <1>1, <2>1, <2>2, TypesAre, DateLengthIs DEF DateShape
    <3> QED BY <1>1, <3>1, <3>2, NoDateIsRead, ErrorKeeps DEF Errors
  <2>3. CASE ~(room < 10)
    <3>1. Go("month with dashes", pos + 1, fields)
      BY <1>2, <1>3, <2>3 DEF FirstDash, Look, Misses
    <3>2. /\ next' = "month with dashes" /\ pos' = pos + 1
          /\ UNCHANGED <<fields, kind, text, room>>
      BY <3>1 DEF Go
    <3>3. DashRead(text, fields)
      BY <1>1, <2>3, TypesAre DEF DashRead
    <3>4. DateInv'
      BY <1>1, <2>1, <3>2, <3>3 DEF DateInv, DateSteps
    <3> QED BY <1>1, <1>2, <3>1, <3>4, TypesAre, DateStepKeeps DEF DateSteps
  <2> QED BY <2>2, <2>3
<1>4. CASE text[pos + 1] # "-"
  <2>1. Dash(text) = 0 /\ MonthPlace(text) - 1 = pos
    BY <1>1, <1>2, <1>4, DateLengthIs DEF Dash, MonthPlace
  <2>2. Go("month", pos, fields)
    BY <1>2, <1>4 DEF FirstDash, Look, Sees
  <2>3. next' = "month" /\ pos' = pos /\ UNCHANGED <<fields, kind, text, room>>
    BY <2>2 DEF Go
  <2>4. DashRead(text, fields)
    BY <1>1, <2>1 DEF DashRead
  <2>5. DateInv'
    BY <1>1, <2>1, <2>3, <2>4 DEF DateInv, DateSteps
  <2> QED BY <1>1, <1>2, <2>2, <2>5, TypesAre, DateStepKeeps DEF DateSteps
<1> QED BY <1>3, <1>4

LEMMA TakeMonthKeeps == Inv /\ TakeMonth => Inv'
<1> SUFFICES ASSUME Inv, TakeMonth PROVE Inv'
  OBVIOUS
<1>1. /\ next \in {"month", "month with dashes"} /\ next \in DateSteps /\ next # "end"
      /\ kind # "time" /\ room = Len(text) /\ Timeless(fields)
      /\ pos = MonthPlace(text) - 1 /\ DashRead(text, fields)
      /\ next = "month with dashes" <=> Dash(text) = 1
  BY TypesAre DEF TakeMonth, DateInv, DateSteps
<1>2. pos + 1 = MonthPlace(text) /\ pos + 1 \in Nat \ {0} /\ MonthPlace(text) + 1 = pos + 2
  <2>1. MonthPlace(text) \in 5 .. 7 /\ pos \in Nat
    BY PlacesAre, TypesAre
  <2>2. pos = MonthPlace(text) - 1
    BY <1>1
  <2> QED BY <2>1, <2>2
<1>0. 2 \in Nat \ {0}
  OBVIOUS
<1> DEFINE step == IF next = "month" THEN "no dash" ELSE "second dash"
<1>3. Take(2, "month", step, "InvalidDate")
  BY <1>1 DEF TakeMonth
<1>4. step \in {"no dash", "second dash"} /\ (step = "second dash" <=> Dash(text) = 1)
  BY <1>1
<1> HIDE DEF step
<1>5. CASE DigitsAt(text, pos + 1, 2)
  <2> DEFINE n == NumberAt(text, pos + 1, 2)
             f == [fields EXCEPT !["month"] = n]
  <2>1. pos + 2 \in 0 .. Len(text) /\ Go(step, pos + 2, f) /\ n \in Nat
    BY <1>0, <1>3, <1>5, TakeIs, Zenon
  <2> HIDE DEF n
  <2>2. /\ f \in Fields /\ f.month = n /\ f.year = fields.year
        /\ f.negative = fields.negative /\ Timeless(f)
    BY <1>1, <2>1, TypesAre DEF Fields, Timeless
  <2> HIDE DEF f
  <2>3. next' = step /\ pos' = pos + 2 /\ fields' = f /\ UNCHANGED <<kind, text, room>>
    BY <2>1 DEF Go
  <2>4. MonthRead(text, f)
    BY <1>1, <1>2, <1>5, <2>2 DEF MonthRead, DashRead, YearRead, SignRead, n
  <2>5. DateInv'
    BY <1>1, <1>2, <1>4, <2>2, <2>3, <2>4 DEF DateInv, DateSteps
  <2> QED BY <1>1, <1>4, <2>1, <2>2, <2>5, DateStepKeeps DEF DateSteps
<1>6. CASE ~DigitsAt(text, pos + 1, 2)
  <2>1. End("InvalidDate")
    BY <1>0, <1>3, <1>6, TakeIs, Zenon
  <2>2. ~DateShape(text)
    BY <1>2, <1>6 DEF DateShape
  <2> QED BY <1>1, <2>1, <2>2, NoDateIsRead, ErrorKeeps DEF Errors
<1> QED BY <1>5, <1>6

LEMMA SecondDashKeeps == Inv /\ SecondDash => Inv'
<1> SUFFICES ASSUME Inv, SecondDash PROVE Inv'
  OBVIOUS
<1>1. /\ next \in {"no dash", "second dash"} /\ next \in DateSteps /\ next # "end"
      /\ kind # "time" /\ room = Len(text) /\ Timeless(fields)
      /\ pos = MonthPlace(text) + 1 /\ MonthRead(text, fields)
      /\ next = "second dash" <=> Dash(text) = 1
  BY TypesAre DEF SecondDash, DateInv, DateSteps
<1>2. Len(text) >= 8 /\ (Dash(text) = 1 => Len(text) >= 10)
  BY <1>1 DEF MonthRead, DashRead, YearRead, SignRead
<1>3. CASE next = "no dash"
  <2>1. /\ Dash(text) = 0 /\ pos + 1 = DayPlace(text) /\ pos < Len(text)
        /\ pos = DayPlace(text) - 1 /\ pos \in 0 .. Len(text) /\ ~Blind
    <3>1. Dash(text) = 0
      BY <1>1, <1>3, DateLengthIs
    <3>2. DayPlace(text) = MonthPlace(text) + 2 + Dash(text) /\ DayPlace(text) \in 7 .. 10
      BY PlacesAre
    <3>3. /\ MonthPlace(text) \in 5 .. 7 /\ MonthPlace(text) = Minus(text) + 5 + Dash(text)
          /\ Minus(text) \in {0, 1} /\ Len(text) \in Nat /\ pos \in Nat
          /\ pos = MonthPlace(text) + 1
      BY <1>1, PlacesAre, DateLengthIs, TypesAre
    <3>4. /\ pos + 1 = DayPlace(text) /\ pos = DayPlace(text) - 1
          /\ pos < Len(text) /\ pos \in 0 .. Len(text)
      BY <1>2, <3>1, <3>2, <3>3
    <3> QED BY <3>1, <3>3, <3>4 DEF Blind
  <2>2. CASE text[pos + 1] = "-"
    <3>1. End("InvalidDate")
      BY <1>3, <2>1, <2>2 DEF SecondDash, Look, Misses
    <3>2. ~DateShape(text)
      <4>1. DayPlace(text) \in Int /\ DayPlace(text) \in DayPlace(text) .. DayPlace(text) + 2 - 1
        <5>1. DayPlace(text) \in 7 .. 10
          BY PlacesAre
        <5> QED BY <5>1
      <4> QED BY <2>1, <2>2, <4>1, NotDigits DEF DateShape, DigitsAt
    <3> QED BY <1>1, <3>1, <3>2, NoDateIsRead, ErrorKeeps DEF Errors
  <2>3. CASE text[pos + 1] # "-"
    <3>1. Go("day", pos, fields)
      BY <1>3, <2>1, <2>3 DEF SecondDash, Look, Sees
    <3>2. next' = "day" /\ pos' = pos /\ UNCHANGED <<fields, kind, text, room>>
      BY <3>1 DEF Go
    <3>3. pos' = DayPlace(text') - 1 /\ MonthRead(text', fields') /\ Dash(text') = 0
          /\ kind' # "time" /\ room' = Len(text') /\ Timeless(fields')
      BY <1>1, <2>1, <3>2
    <3>4. DateInv'
      BY <3>2, <3>3 DEF DateInv, DateSteps
    <3> QED BY <1>1, <2>1, <3>1, <3>4, TypesAre, DateStepKeeps DEF DateSteps
  <2> QED BY <2>2, <2>3
<1>4. CASE next = "second dash"
  <2>1. /\ Dash(text) = 1 /\ pos + 1 = Minus(text) + 8 /\ pos < Len(text)
        /\ pos + 1 = DayPlace(text) - 1 /\ pos + 1 \in 0 .. Len(text) /\ ~Blind
    <3>1. Dash(text) = 1
      BY <1>1, <1>4
    <3>2. DayPlace(text) = MonthPlace(text) + 2 + Dash(text) /\ DayPlace(text) \in 7 .. 10
      BY PlacesAre
    <3>3. /\ MonthPlace(text) \in 5 .. 7 /\ MonthPlace(text) = Minus(text) + 5 + Dash(text)
          /\ Minus(text) \in {0, 1} /\ Len(text) \in Nat /\ pos \in Nat
          /\ pos = MonthPlace(text) + 1
      BY <1>1, PlacesAre, DateLengthIs, TypesAre
    <3>4. /\ pos + 1 = Minus(text) + 8 /\ pos + 1 = DayPlace(text) - 1
          /\ pos < Len(text) /\ pos + 1 \in 0 .. Len(text)
      BY <1>2, <3>1, <3>2, <3>3
    <3> QED BY <3>1, <3>3, <3>4 DEF Blind
  <2>2. CASE text[pos + 1] = "-"
    <3>1. Go("day", pos + 1, fields)
      BY <1>4, <2>1, <2>2 DEF SecondDash, Look, Misses
    <3>2. next' = "day" /\ pos' = pos + 1 /\ UNCHANGED <<fields, kind, text, room>>
      BY <3>1 DEF Go
    <3>3. DateInv'
      BY <1>1, <2>1, <2>2, <3>2 DEF DateInv, DateSteps
    <3> QED BY <1>1, <2>1, <3>1, <3>3, TypesAre, DateStepKeeps DEF DateSteps
  <2>3. CASE text[pos + 1] # "-"
    <3>1. End("InvalidDate")
      BY <1>4, <2>1, <2>3 DEF SecondDash, Look, Sees
    <3>2. ~DateShape(text)
      BY <2>1, <2>3 DEF DateShape
    <3> QED BY <1>1, <3>1, <3>2, NoDateIsRead, ErrorKeeps DEF Errors
  <2> QED BY <2>2, <2>3
<1> QED BY <1>1, <1>3, <1>4

LEMMA TakeDayKeeps == Inv /\ TakeDay => Inv'
<1> SUFFICES ASSUME Inv, TakeDay PROVE Inv'
  OBVIOUS
<1>1. /\ next = "day" /\ next \in DateSteps /\ next # "end"
      /\ kind # "time" /\ room = Len(text) /\ Timeless(fields)
      /\ pos = DayPlace(text) - 1 /\ MonthRead(text, fields)
      /\ Dash(text) = 1 => text[Minus(text) + 8] = "-"
  BY TypesAre DEF TakeDay, DateInv, DateSteps
<1>2. /\ pos + 1 = DayPlace(text) /\ pos + 1 \in Nat \ {0}
      /\ DateLength(text) = pos + 2
  BY <1>1, DateLengthIs DEF DayPlace, DateLength
<1>0. 2 \in Nat \ {0}
  OBVIOUS
<1>3. Take(2, "day", "date", "InvalidDate")
  BY DEF TakeDay
<1>4. CASE DigitsAt(text, pos + 1, 2)
  <2> DEFINE n == NumberAt(text, pos + 1, 2)
             f == [fields EXCEPT !["day"] = n]
  <2>1. /\ pos + 2 \in 0 .. Len(text) /\ pos + 2 <= Len(text)
        /\ Go("date", pos + 2, f) /\ n \in Nat
    BY <1>0, <1>3, <1>4, TakeIs, Zenon
  <2> HIDE DEF n
  <2>2. /\ f \in Fields /\ f.day = n /\ f.month = fields.month /\ f.year = fields.year
        /\ f.negative = fields.negative /\ Timeless(f)
    BY <1>1, <2>1, TypesAre DEF Fields, Timeless
  <2> HIDE DEF f
  <2>3. next' = "date" /\ pos' = pos + 2 /\ fields' = f /\ UNCHANGED <<kind, text, room>>
    BY <2>1 DEF Go
  <2>4. DateShape(text)
    BY <1>1, <1>2, <1>4, <2>1 DEF DateShape, MonthRead, DashRead, YearRead
  <2>5. MonthRead(text, f)
    BY <1>1, <2>2 DEF MonthRead, DashRead, YearRead, SignRead
  <2>6. DateRead(text, f)
    BY <1>2, <2>2, <2>4, <2>5 DEF DateRead, n
  <2>7. DateInv'
    BY <1>1, <1>2, <2>2, <2>3, <2>6 DEF DateInv, DateSteps
  <2> QED BY <1>1, <2>1, <2>2, <2>7, DateStepKeeps DEF DateSteps
<1>5. CASE ~DigitsAt(text, pos + 1, 2)
  <2>1. End("InvalidDate")
    BY <1>0, <1>3, <1>5, TakeIs, Zenon
  <2>2. ~DateShape(text)
    BY <1>2, <1>5 DEF DateShape
  <2> QED BY <1>1, <2>1, <2>2, NoDateIsRead, ErrorKeeps DEF Errors
<1> QED BY <1>4, <1>5

(* What has been read of a date is what the text says.                     *)
LEMMA DateIsRead ==
    ASSUME NEW t, NEW f \in Fields, DateRead(t, f)
    PROVE  /\ f.negative = (t[1] = "-") /\ f.year = NumberAt(t, YearPlace(t), 4)
           /\ f.month = NumberAt(t, MonthPlace(t), 2) /\ f.day = NumberAt(t, DayPlace(t), 2)
           /\ DateOf(f) = DateOf(DateAt(t)) /\ Year(f) = Year(DateAt(t))
           /\ Timeless(f) => f = DateAt(t)
<1> DEFINE d == DateAt(t)
<1>1. /\ f.year = NumberAt(t, YearPlace(t), 4) /\ f.month = NumberAt(t, MonthPlace(t), 2)
      /\ f.day = NumberAt(t, DayPlace(t), 2)
  BY DEF DateRead, MonthRead, DashRead, YearRead
<1>2. f.negative <=> t[1] = "-"
  BY DEF DateRead, MonthRead, DashRead, YearRead, SignRead
<1>3. f.negative = (t[1] = "-")
  BY <1>2, FieldTypes
<1>4. d.negative = (t[1] = "-")
  BY DEF DateAt
<1>5. /\ d.year = NumberAt(t, YearPlace(t), 4) /\ d.month = NumberAt(t, MonthPlace(t), 2)
      /\ d.day = NumberAt(t, DayPlace(t), 2)
      /\ d.hour = 0 /\ d.min = 0 /\ d.sec = 0 /\ d.micros = 0
  BY DEF DateAt
<1>6. ASSUME Timeless(f) PROVE f = d
  <2>1. f.hour = 0 /\ f.min = 0 /\ f.sec = 0 /\ f.micros = 0
    BY <1>6 DEF Timeless
  <2> QED BY <1>1, <1>3, <2>1 DEF Fields, DateAt
<1> HIDE DEF d
<1>7. f.negative = d.negative
  BY <1>3, <1>4
<1>8. Year(f) = Year(d)
  BY <1>1, <1>5, <1>7, Zenon DEF Year
<1>9. DateOf(f) = DateOf(d)
  BY <1>1, <1>5, <1>8 DEF DateOf
<1> QED BY <1>1, <1>3, <1>6, <1>8, <1>9 DEF d

LEMMA TakeDateKeeps == Inv /\ TakeDate => Inv'
<1> SUFFICES ASSUME Inv, TakeDate PROVE Inv'
  OBVIOUS
<1>1. /\ next = "date" /\ next \in DateSteps /\ next # "end"
      /\ kind # "time" /\ room = Len(text) /\ Timeless(fields)
      /\ pos = DateLength(text) /\ DateRead(text, fields)
  BY TypesAre DEF TakeDate, DateInv, DateSteps
<1>2. /\ fields \in Fields /\ pos \in Nat /\ Len(text) \in Nat
      /\ kind \in {"date", "datetime"} /\ DateShape(text) /\ pos <= Len(text)
  BY <1>1, TypesAre DEF DateRead, DateShape, Kinds
<1>3. /\ DateOf(fields) = DateOf(DateAt(text)) /\ Year(fields) = Year(DateAt(text))
      /\ fields = DateAt(text)
  BY <1>1, <1>2, DateIsRead
<1>4. CASE ~DateValid(DateOf(fields))
  <2>1. End("InvalidDate")
    BY <1>4 DEF TakeDate
  <2>2. ~Readable(kind, text)
    BY <1>1, <1>3, <1>4, Zenon DEF Readable, ReadableDate, ReadableDateTime
  <2> QED BY <1>1, <2>1, <2>2, ErrorKeeps DEF Errors
<1>5. CASE DateValid(DateOf(fields)) /\ kind = "date" /\ Unconsumed = 0
  <2>1. End("none")
    BY <1>5 DEF TakeDate
  <2>2. DateLength(text) = Len(text)
    BY <1>1, <1>2, <1>5 DEF Unconsumed
  <2>3. Readable(kind, text) /\ fields = Reading(kind, text)
    BY <1>2, <1>3, <1>5, <2>2, Zenon DEF Readable, ReadableDate, Reading
  <2> QED BY <1>1, <2>1, <2>3, EndKeeps
<1>6. CASE DateValid(DateOf(fields)) /\ kind = "date" /\ Unconsumed # 0
  <2>1. End("InvalidDate")
    BY <1>6 DEF TakeDate
  <2>2. DateLength(text) # Len(text)
    BY <1>1, <1>2, <1>6 DEF Unconsumed
  <2>3. ~Readable(kind, text)
    BY <1>6, <2>2 DEF Readable, ReadableDate
  <2> QED BY <1>1, <2>1, <2>3, ErrorKeeps DEF Errors
<1>7. CASE DateValid(DateOf(fields)) /\ kind # "date" /\ Year(fields) < FirstYear
  <2>1. End("OutsideJulianPeriod")
    BY <1>7 DEF TakeDate
  <2>2. Year(fields) \in Int
    BY <1>2, FieldTypes DEF Year
  <2>3. ~(Year(DateAt(text)) >= FirstYear)
    BY <1>3, <1>7, <2>2 DEF FirstYear
  <2>4. ~Readable(kind, text)
    BY <1>1, <1>7, <2>3 DEF Readable, ReadableDateTime
  <2> QED BY <1>1, <2>1, <2>4, ErrorKeeps DEF Errors
<1>8. CASE DateValid(DateOf(fields)) /\ kind # "date" /\ ~(Year(fields) < FirstYear)
  <2>1. Year(fields) \in Int /\ ~(Year(fields) > LastYear) /\ Year(fields) >= FirstYear
    <3>1. fields.year \in Nat /\ fields.year \in Years
      BY <1>2, FieldTypes
    <3>2. fields.year <= LastYear
      <4>1. \A y \in Years : y <= LastYear
        BY SMT DEF Years, LastYear
      <4> QED BY <3>1, <4>1
    <3>3. Year(fields) \in {fields.year, -fields.year}
      BY DEF Year
    <3>4. LastYear \in Nat /\ FirstYear \in Int
      BY SMT DEF LastYear, FirstYear
    <3> DEFINE y == fields.year
    <3> HIDE DEF y
    <3>5. Year(fields) \in {y, -y} /\ y \in Nat /\ y <= LastYear
      BY <3>1, <3>2, <3>3 DEF y
    <3> QED BY <1>8, <3>4, <3>5
  <2>2. Go("T", pos, fields)
    BY <1>8, <2>1 DEF TakeDate
  <2>3. next' = "T" /\ pos' = pos /\ UNCHANGED <<fields, kind, text, room>>
    BY <2>2 DEF Go
  <2>4. kind = "datetime" /\ Dated
    BY <1>1, <1>2, <1>8, <2>1 DEF Dated
  <2>5. DateInv' /\ TimeFrame' /\ TimeInv'
    BY <2>3 DEF DateInv, TimeFrame, TimeInv, DateSteps, TimeSteps
  <2>6. BetweenInv'
    BY <1>1, <2>3, <2>4 DEF BetweenInv, Dated
  <2>7. "T" \in Steps \ {"end"} /\ pos \in 0 .. Len(text) + 1
    BY <1>2 DEF Steps
  <2>8. /\ TypeOK' /\ next' \in Steps /\ EndInv' /\ WrittenInv'
        /\ PanicsOnlyAfterADateOrInAFraction'
    BY <1>1, <1>2, <2>2, <2>7, GoKeeps
  <2> QED BY <2>5, <2>6, <2>8 DEF Inv
<1> QED BY <1>2, <1>4, <1>5, <1>6, <1>7, <1>8

LEMMA LetterTKeeps == Inv /\ LetterT => Inv'
<1> SUFFICES ASSUME Inv, LetterT PROVE Inv'
  OBVIOUS
<1>1. /\ next = "T" /\ next # "end" /\ kind = "datetime" /\ Dated /\ Timeless(fields)
      /\ pos = DateLength(text)
  BY TypesAre DEF LetterT, BetweenInv
<1>2. /\ fields \in Fields /\ pos \in Nat /\ Len(text) \in Nat /\ text \in Seq(Characters)
      /\ DateShape(text) /\ pos <= Len(text) /\ TimePlace(text) = pos + 1
      /\ checked \in BOOLEAN
  BY <1>1, TypesAre, PlacesAre DEF Dated, DateRead, DateShape
<1>3. CASE Blind
  <2>1. End("panic")
    BY <1>3 DEF LetterT, Look
  <2>2. pos = Len(text)
    BY <1>2, <1>3 DEF Blind
  <2>3. ~(TimePlace(text) <= Len(text))
    BY <1>2, <2>2
  <2>4. ~Readable(kind, text)
    BY <1>1, <2>3 DEF Readable, ReadableDateTime, DateTimeShape
  <2>5. \E form \in DateForms : HasForm(text, form)
    <3>1. SubSeq(text, 1, DateLength(text)) = text
      BY <1>1, <1>2, <2>2, SubSeqFull
    <3>2. \E form \in DateForms : HasForm(SubSeq(text, 1, DateLength(text)), form)
      BY <1>2, DateShapeHasAForm
    <3> QED BY <3>1, <3>2
  <2> QED BY <1>1, <2>1, <2>4, <2>5, EndKeeps
<1>4. CASE ~Blind /\ Sees("T") /\ Go("begin time", pos + 1, fields)
  <2>1. next' = "begin time" /\ pos' = pos + 1 /\ UNCHANGED <<fields, kind, text, room>>
    BY <1>4 DEF Go
  <2>0. /\ checked => pos < Len(text)
        /\ pos < Len(text) => text[pos + 1] = "T"
    <3>1. ~Blind /\ Sees("T")
      BY <1>4
    <3> QED BY <1>2, <3>1 DEF Blind, Sees
  <2>2. checked => pos + 1 <= Len(text)
    BY <1>2, <2>0
  <2>3. pos + 1 <= Len(text) => text[pos + 1] = "T"
    BY <1>2, <2>0
  <2>4. DateInv' /\ TimeFrame' /\ TimeInv'
    BY <2>1 DEF DateInv, TimeFrame, TimeInv, DateSteps, TimeSteps
  <2>5. BetweenInv'
    BY <1>1, <1>2, <2>1, <2>3 DEF BetweenInv, Dated
  <2>6. "begin time" \in Steps \ {"end"} /\ pos + 1 \in 0 .. Len(text) + 1
    BY <1>2 DEF Steps
  <2>7. /\ TypeOK' /\ next' \in Steps /\ EndInv' /\ WrittenInv'
        /\ PanicsOnlyAfterADateOrInAFraction'
    BY <1>1, <1>2, <1>4, <2>2, <2>6, GoKeeps
  <2> QED BY <2>4, <2>5, <2>7 DEF Inv
<1>5. CASE ~Blind /\ Misses("T") /\ End("InvalidDateTime")
  <2>1. ~(TimePlace(text) <= Len(text) /\ text[TimePlace(text)] = "T")
    BY <1>2, <1>5 DEF Misses
  <2>2. ~Readable(kind, text)
    BY <1>1, <2>1 DEF Readable, ReadableDateTime, DateTimeShape
  <2> QED BY <1>1, <1>5, <2>2, ErrorKeeps DEF Errors
<1> QED BY <1>3, <1>4, <1>5 DEF LetterT, Look

LEMMA BeginTimeKeeps == Inv /\ BeginTime => Inv'
<1> SUFFICES ASSUME Inv, BeginTime PROVE Inv'
  OBVIOUS
<1>1. /\ next = "begin time" /\ kind = "datetime" /\ Dated /\ Timeless(fields)
      /\ pos = TimePlace(text)
      /\ pos <= Len(text) => text[pos] = "T"
  BY TypesAre DEF BeginTime, BetweenInv
<1>2. /\ pos \in Nat /\ Len(text) \in Nat /\ pos <= Len(text) + 1
      /\ TypeOK /\ WrittenInv /\ outcome = "pending"
  BY <1>1, TypesAre DEF Inv, TypeOK, Ended
<1>3. /\ next' = "hour" /\ room' = Len(text) - pos
      /\ UNCHANGED <<checked, kind, text, written, pos, fields, outcome>>
  BY DEF BeginTime, Unconsumed
<1>4. room' = -1 \/ room' \in 0 .. Len(text)
  BY <1>2, <1>3
<1>5. Base' = pos
  BY <1>2, <1>3 DEF Base
<1>6. TypeOK'
  BY <1>2, <1>3, <1>4 DEF TypeOK, Ended
<1>7. next' \in Steps /\ DateInv' /\ BetweenInv' /\ EndInv'
  BY <1>3 DEF Steps, DateInv, BetweenInv, EndInv, DateSteps, TimeSteps
<1>8. Dated'
  BY <1>1, <1>3 DEF Dated
<1>9. TimeFrame' /\ TimeInv'
  <2>1. pos' = pos /\ text' = text /\ kind' = kind /\ fields' = fields
    BY <1>3
  <2>2. pos' = Base' /\ Base' = TimePlace(text') /\ kind' = "datetime"
    BY <1>1, <1>5, <2>1
  <2>3. Timeless(fields)'
    BY <1>1, <2>1
  <2>4. (pos <= Len(text) => text[pos] = "T")'
    BY <1>1, <2>1
  <2>5. (Base <= Len(text) => text[Base] = "T")'
    BY <2>2, <2>4
  <2> QED BY <1>3, <1>8, <2>2, <2>3, <2>5 DEF TimeFrame, TimeInv, TimeSteps
<1>10. WrittenInv' /\ PanicsOnlyAfterADateOrInAFraction'
  BY <1>2, <1>3 DEF WrittenInv, PanicsOnlyAfterADateOrInAFraction
<1> QED BY <1>6, <1>7, <1>9, <1>10 DEF Inv
-----------------------------------------------------------------------------
(* The steps of a time, which begins behind Base characters.               *)

LEMMA BaseIs ==
    ASSUME Inv, next \in TimeSteps
    PROVE  /\ Base \in Nat /\ room = Len(text) - Base /\ next # "end"
           /\ kind = "time" \/ kind = "datetime"
<1>1. TimePlace(text) \in Nat
  BY DateLengthIs
<1>2. kind = "datetime" => Base = TimePlace(text)
  BY TypesAre DEF TimeFrame
<1>3. kind \in {"time", "datetime"} /\ (kind = "time" => Base = 0)
  BY TypesAre DEF TimeFrame
<1>4. Base \in Nat
  BY <1>1, <1>2, <1>3
<1>5. Len(text) \in Nat /\ room \in Int
  BY TypesAre
<1>6. room = Len(text) - Base
  BY <1>5 DEF Base
<1> QED BY <1>3, <1>4, <1>6 DEF TimeSteps

LEMMA NoTimeIsRead ==
    ASSUME Inv, next \in TimeSteps, ~TimeShape(text, Base)
    PROVE  ~Readable(kind, text)
<1>1. CASE kind = "time"
  <2>1. Base = 0
    BY <1>1, TypesAre DEF TimeFrame
  <2> QED BY <1>1, <2>1 DEF Readable, ReadableTime
<1>2. CASE kind = "datetime"
  <2>1. Base = TimePlace(text)
    BY <1>2, TypesAre DEF TimeFrame
  <2> QED BY <1>2, <2>1 DEF Readable, ReadableDateTime, DateTimeShape
<1> QED BY <1>1, <1>2, BaseIs

SameDate(f, g) ==
    /\ f.negative = g.negative /\ f.year = g.year
    /\ f.month = g.month /\ f.day = g.day

(* A step inside a time leaves the date as it is.                          *)
LEMMA TimeStepKeeps ==
    ASSUME Inv, next \in TimeSteps, NEW step \in TimeSteps, NEW p, NEW f, Go(step, p, f),
           p \in 0 .. Len(text), f \in Fields, SameDate(f, fields), TimeInv'
    PROVE  Inv'
<1>1. next # "end" /\ step \in Steps \ {"end"}
  BY DEF TimeSteps, Steps
<1>2. p \in 0 .. Len(text) + 1 /\ p <= Len(text)
  BY TypesAre
<1>3. /\ TypeOK' /\ next' \in Steps /\ EndInv' /\ WrittenInv'
      /\ PanicsOnlyAfterADateOrInAFraction'
  BY <1>1, <1>2, GoKeeps
<1>4. next' = step /\ fields' = f /\ text' = text /\ kind' = kind /\ Base' = Base
  BY DEF Go, Base
<1>5. DateInv' /\ BetweenInv'
  BY <1>4 DEF DateInv, BetweenInv, DateSteps, TimeSteps
<1>6. Dateless(fields) => Dateless(f)
  BY DEF SameDate, Dateless
<1>7. ASSUME Dated PROVE Dated'
  <2>1. DateRead(text, fields) /\ DateValid(DateOf(fields)) /\ Year(fields) >= FirstYear
    BY <1>7 DEF Dated
  <2>2. DateRead(text, f)
    BY <2>1 DEF DateRead, MonthRead, DashRead, YearRead, SignRead, SameDate
  <2>3. Year(f) = Year(fields) /\ DateOf(f) = DateOf(fields)
    BY Zenon DEF SameDate, Year, DateOf
  <2> QED BY <1>4, <2>1, <2>2, <2>3 DEF Dated
<1>8. TimeFrame'
  <2>1. kind \in {"time", "datetime"} /\ (kind = "time" => Base = 0 /\ Dateless(fields))
    BY TypesAre DEF TimeFrame
  <2>2. kind = "datetime" => Dated /\ Base = TimePlace(text)
    BY TypesAre DEF TimeFrame
  <2>3. kind = "datetime" => (Base <= Len(text) => text[Base] = "T")
    BY TypesAre DEF TimeFrame
  <2>4. (kind \in {"time", "datetime"} /\ (kind = "time" => Base = 0 /\ Dateless(fields)))'
    BY <1>4, <1>6, <2>1
  <2>5. (kind = "datetime" => Dated /\ Base = TimePlace(text))'
    BY <1>4, <1>7, <2>2
  <2>6. (kind = "datetime" => (Base <= Len(text) => text[Base] = "T"))'
    BY <1>4, <2>3
  <2> QED BY <2>4, <2>5, <2>6 DEF TimeFrame
<1> QED BY <1>3, <1>5, <1>8 DEF Inv

LEMMA SameDates ==
    ASSUME NEW f
    PROVE  SameDate(f, f)
BY DEF SameDate

(* A time is not longer than what there is of the text.                    *)
LEMMA RoomForATime ==
    ASSUME Inv, next \in TimeSteps, TimeShape(text, Base)
    PROVE  room >= 5 /\ (HasSeconds(text, Base) => room >= 8)
<1>1. /\ Base \in Nat /\ room = Len(text) - Base
      /\ text \in Seq(Characters) /\ Len(text) \in Nat
  BY BaseIs, TypesAre
<1>2. Base + TimeLength(text, Base) <= Len(text)
  BY DEF TimeShape
<1>3. TimeLength(text, Base) \in Nat /\ TimeLength(text, Base) >= 5
  BY <1>1, TimeLengthIs
<1>4. HasSeconds(text, Base) => DigitsAt(text, Base + 7, 2)
  BY DEF TimeShape
<1>5. HasSeconds(text, Base) => Base + 7 + 2 - 1 <= Len(text)
  BY <1>4 DEF DigitsAt
<1> QED BY <1>1, <1>2, <1>3, <1>5

LEMMA TakeHourKeeps == Inv /\ TakeHour => Inv'
<1> SUFFICES ASSUME Inv, TakeHour PROVE Inv'
  OBVIOUS
<1>1. next = "hour" /\ next \in TimeSteps /\ pos = Base /\ Timeless(fields)
  BY TypesAre DEF TakeHour, TimeInv, TimeSteps
<1>2. /\ Base \in Nat /\ room = Len(text) - Base /\ next # "end"
      /\ Len(text) \in Nat /\ fields \in Fields /\ 2 \in Nat \ {0}
  BY <1>1, BaseIs, TypesAre
<1>3. CASE 0 <= room /\ room < 5
  <2>1. End("InvalidTime")
    BY <1>3 DEF TakeHour
  <2>2. ~TimeShape(text, Base)
    BY <1>1, <1>2, <1>3, RoomForATime
  <2> QED BY <1>1, <1>2, <2>1, <2>2, NoTimeIsRead, ErrorKeeps DEF Errors
<1>4. CASE ~(0 <= room /\ room < 5)
  <2>1. Take(2, "hour", "colon", "InvalidTime")
    BY <1>4 DEF TakeHour
  <2>2. CASE DigitsAt(text, pos + 1, 2)
    <3> DEFINE n == NumberAt(text, pos + 1, 2)
               f == [fields EXCEPT !["hour"] = n]
    <3>1. /\ pos + 2 <= Len(text) /\ pos + 2 \in 0 .. Len(text)
          /\ n \in Nat
          /\ Go("colon", pos + 2, f)
      BY <1>2, <2>1, <2>2, TakeIs, Zenon
    <3> HIDE DEF n
    <3>2. /\ f \in Fields /\ f.hour = n /\ f.sec = fields.sec /\ f.micros = fields.micros
          /\ SameDate(f, fields)
      BY <1>2, <3>1 DEF Fields, SameDate
    <3> HIDE DEF f
    <3>3. /\ next' = "colon" /\ pos' = pos + 2 /\ fields' = f /\ text' = text
          /\ room' = room /\ Base' = Base
      BY <3>1 DEF Go, Base
    <3>4. room >= 5
      BY <1>1, <1>2, <1>4, <3>1
    <3>5. HourRead(text, Base, f) /\ f.sec = 0 /\ f.micros = 0
      BY <1>1, <2>2, <3>2 DEF HourRead, Timeless, n
    <3>6. TimeInv'
      BY <1>1, <3>3, <3>4, <3>5 DEF TimeInv, TimeSteps
    <3> QED BY <1>1, <3>1, <3>2, <3>6, TimeStepKeeps DEF TimeSteps
  <2>3. CASE ~DigitsAt(text, pos + 1, 2)
    <3>1. End("InvalidTime")
      BY <1>2, <2>1, <2>3, TakeIs, Zenon
    <3>2. ~TimeShape(text, Base)
      BY <1>1, <2>3 DEF TimeShape
    <3> QED BY <1>1, <1>2, <3>1, <3>2, NoTimeIsRead, ErrorKeeps DEF Errors
  <2> QED BY <2>2, <2>3
<1> QED BY <1>3, <1>4

LEMMA FirstColonKeeps == Inv /\ FirstColon => Inv'
<1> SUFFICES ASSUME Inv, FirstColon PROVE Inv'
  OBVIOUS
<1>1. /\ next = "colon" /\ next \in TimeSteps /\ pos = Base + 2
      /\ room >= 5 /\ HourRead(text, Base, fields) /\ fields.sec = 0 /\ fields.micros = 0
  BY TypesAre DEF FirstColon, TimeInv, TimeSteps
<1>2. /\ Base \in Nat /\ room = Len(text) - Base /\ next # "end"
      /\ Len(text) \in Nat /\ fields \in Fields
  BY <1>1, BaseIs, TypesAre
<1>3. /\ pos + 1 = Base + 3 /\ pos < Len(text) /\ pos + 1 \in 0 .. Len(text)
  BY <1>1, <1>2
<1>4. ~Blind
  BY <1>2, <1>3, TypesAre DEF Blind
<1>5. CASE Sees(":") /\ Go("minute", pos + 1, fields)
  <2>1. text[Base + 3] = ":"
    <3>1. Sees(":")
      BY <1>5
    <3> QED BY <1>3, <3>1 DEF Sees
  <2>2. /\ next' = "minute" /\ pos' = pos + 1 /\ fields' = fields /\ text' = text
        /\ room' = room /\ Base' = Base
    BY <1>5 DEF Go, Base
  <2>3. TimeInv'
    BY <1>1, <1>3, <2>1, <2>2 DEF TimeInv, TimeSteps
  <2> QED BY <1>1, <1>2, <1>3, <1>5, <2>3, SameDates, TimeStepKeeps DEF TimeSteps
<1>6. CASE Misses(":") /\ End("InvalidTime")
  <2>1. text[Base + 3] # ":"
    <3>1. Misses(":")
      BY <1>6
    <3> QED BY <1>3, <3>1 DEF Misses
  <2>2. ~TimeShape(text, Base)
    BY <2>1 DEF TimeShape
  <2> QED BY <1>1, <1>2, <1>6, <2>2, NoTimeIsRead, ErrorKeeps DEF Errors
<1> QED BY <1>4, <1>5, <1>6 DEF FirstColon, Look

LEMMA TakeMinuteKeeps == Inv /\ TakeMinute => Inv'
<1> SUFFICES ASSUME Inv, TakeMinute PROVE Inv'
  OBVIOUS
<1>1. /\ next = "minute" /\ next \in TimeSteps /\ pos = Base + 3 /\ text[Base + 3] = ":"
      /\ room >= 5 /\ HourRead(text, Base, fields) /\ fields.sec = 0 /\ fields.micros = 0
  BY TypesAre DEF TakeMinute, TimeInv, TimeSteps
<1>2. /\ Base \in Nat /\ room = Len(text) - Base /\ next # "end"
      /\ Len(text) \in Nat /\ fields \in Fields /\ 2 \in Nat \ {0}
  BY <1>1, BaseIs, TypesAre
<1>3. pos + 1 = Base + 4 /\ pos + 2 = Base + 5
  BY <1>1, <1>2
<1>4. Take(2, "min", "second colon", "InvalidTime")
  BY DEF TakeMinute
<1>5. CASE DigitsAt(text, pos + 1, 2)
  <2> DEFINE n == NumberAt(text, pos + 1, 2)
             f == [fields EXCEPT !["min"] = n]
  <2>1. /\ pos + 2 <= Len(text) /\ pos + 2 \in 0 .. Len(text)
        /\ n \in Nat
        /\ Go("second colon", pos + 2, f)
    BY <1>2, <1>4, <1>5, TakeIs, Zenon
  <2> HIDE DEF n
  <2>2. /\ f \in Fields /\ f.min = n /\ f.hour = fields.hour
        /\ f.sec = fields.sec /\ f.micros = fields.micros
        /\ SameDate(f, fields)
    BY <1>2, <2>1 DEF Fields, SameDate
  <2> HIDE DEF f
  <2>3. /\ next' = "second colon" /\ pos' = pos + 2 /\ fields' = f /\ text' = text
        /\ room' = room /\ Base' = Base
    BY <2>1 DEF Go, Base
  <2>4. HourRead(text, Base, f) /\ f.sec = 0 /\ f.micros = 0
    BY <1>1, <2>2 DEF HourRead
  <2>5. MinRead(text, Base, f)
    BY <1>1, <1>3, <1>5, <2>2, <2>4 DEF MinRead, n
  <2>6. TimeInv'
    BY <1>1, <1>3, <2>3, <2>4, <2>5 DEF TimeInv, TimeSteps
  <2> QED BY <1>1, <2>1, <2>2, <2>6, TimeStepKeeps DEF TimeSteps
<1>6. CASE ~DigitsAt(text, pos + 1, 2)
  <2>1. End("InvalidTime")
    BY <1>2, <1>4, <1>6, TakeIs, Zenon
  <2>2. ~TimeShape(text, Base)
    BY <1>3, <1>6 DEF TimeShape
  <2> QED BY <1>1, <1>2, <2>1, <2>2, NoTimeIsRead, ErrorKeeps DEF Errors
<1> QED BY <1>5, <1>6

(* A time that ends behind its minutes, and one behind its seconds.        *)
LEMMA EndsInMinutes ==
    ASSUME NEW t \in Seq(Characters), NEW b \in Nat, NEW f, b + 5 <= Len(t),
           MinRead(t, b, f), ~HasSeconds(t, b), f.sec = 0, f.micros = 0
    PROVE  /\ TimeRead(t, b, f) /\ TimeLength(t, b) = 5 /\ ~EndsInADot(t, b)
<1>1. ~HasFraction(t, b)
  BY DEF HasFraction
<1>2. TimeLength(t, b) = 5 /\ SecAt(t, b) = 0 /\ MicrosAt(t, b) = 0 /\ ~EndsInADot(t, b)
  BY <1>1 DEF TimeLength, SecAt, MicrosAt, EndsInADot
<1>3. TimeShape(t, b)
  BY <1>1, <1>2 DEF TimeShape, MinRead, HourRead
<1> QED BY <1>2, <1>3 DEF TimeRead

LEMMA EndsInSeconds ==
    ASSUME NEW t \in Seq(Characters), NEW b \in Nat, NEW f, b + 8 <= Len(t),
           SecRead(t, b, f), ~HasFraction(t, b), f.micros = 0
    PROVE  /\ TimeRead(t, b, f) /\ TimeLength(t, b) = 8 /\ ~EndsInADot(t, b)
<1>1. /\ HasSeconds(t, b) /\ MinRead(t, b, f) /\ DigitsAt(t, b + 7, 2)
      /\ f.sec = NumberAt(t, b + 7, 2)
  BY DEF SecRead
<1>2. /\ TimeLength(t, b) = 8 /\ SecAt(t, b) = f.sec /\ MicrosAt(t, b) = 0
      /\ ~EndsInADot(t, b)
  BY <1>1 DEF TimeLength, SecAt, MicrosAt, EndsInADot
<1>3. TimeShape(t, b)
  BY <1>1, <1>2 DEF TimeShape, MinRead, HourRead
<1> QED BY <1>1, <1>2, <1>3 DEF TimeRead

LEMMA SecondColonKeeps == Inv /\ SecondColon => Inv'
<1> SUFFICES ASSUME Inv, SecondColon PROVE Inv'
  OBVIOUS
<1>1. /\ next = "second colon" /\ next \in TimeSteps /\ pos = Base + 5
      /\ room >= 5 /\ HourRead(text, Base, fields) /\ fields.sec = 0 /\ fields.micros = 0
      /\ MinRead(text, Base, fields)
  BY TypesAre DEF SecondColon, TimeInv, TimeSteps
<1>2. /\ Base \in Nat /\ room = Len(text) - Base /\ next # "end"
      /\ Len(text) \in Nat /\ text \in Seq(Characters) /\ fields \in Fields
  BY <1>1, BaseIs, TypesAre
<1>3. /\ pos + 1 = Base + 6 /\ pos <= Len(text) /\ pos \in 0 .. Len(text)
      /\ room # 5 => pos + 1 <= Len(text)
  <2>1. \A l, b \in Nat : l - b >= 5 => b + 5 <= l /\ (l - b # 5 => b + 6 <= l)
    OBVIOUS
  <2>2. Len(text) - Base >= 5 /\ (room # 5 => Len(text) - Base # 5)
    BY <1>1, <1>2
  <2>3. Base + 5 <= Len(text) /\ (room # 5 => Base + 6 <= Len(text))
    BY <1>2, <2>1, <2>2
  <2>4. pos = Base + 5 /\ Base \in Nat /\ pos \in Nat /\ Len(text) \in Nat
    BY <1>1, <1>2, TypesAre
  <2> QED BY <2>3, <2>4
<1>4. ASSUME Go("time", pos, fields), ~HasSeconds(text, Base) PROVE Inv'
  <2>1. /\ next' = "time" /\ pos' = pos /\ fields' = fields /\ text' = text
        /\ room' = room /\ Base' = Base
    BY <1>4 DEF Go, Base
  <2>2. /\ TimeRead(text, Base, fields) /\ TimeLength(text, Base) = 5
        /\ ~EndsInADot(text, Base)
    BY <1>1, <1>2, <1>3, <1>4, EndsInMinutes
  <2>3. TimeInv'
    BY <1>1, <2>1, <2>2 DEF TimeInv, TimeSteps
  <2> QED BY <1>1, <1>2, <1>3, <1>4, <2>3, SameDates, TimeStepKeeps DEF TimeSteps
<1>5. CASE room = 5
  <2>1. ~HasSeconds(text, Base)
    BY <1>2, <1>5 DEF HasSeconds
  <2> QED BY <1>4, <1>5, <2>1 DEF SecondColon
<1>6. CASE room # 5
  <2>1. pos < Len(text) /\ pos + 1 <= Len(text) /\ pos + 1 \in 0 .. Len(text)
    <3>1. pos + 1 <= Len(text) /\ pos \in Nat /\ Len(text) \in Nat
      BY <1>2, <1>3, <1>6, TypesAre
    <3> QED BY <3>1
  <2>2. ~Blind
    BY <1>3, <2>1, TypesAre DEF Blind
  <2>3. CASE Sees(":") /\ Go("second", pos + 1, fields)
    <3>1. HasSeconds(text, Base)
      <4>1. Sees(":")
        BY <2>3
      <4> QED BY <1>3, <2>1, <4>1 DEF Sees, HasSeconds
    <3>2. /\ next' = "second" /\ pos' = pos + 1 /\ fields' = fields /\ text' = text
          /\ room' = room /\ Base' = Base
      BY <2>3 DEF Go, Base
    <3>3. TimeInv'
      BY <1>1, <1>3, <3>1, <3>2 DEF TimeInv, TimeSteps
    <3> QED BY <1>1, <1>2, <2>1, <2>3, <3>3, SameDates, TimeStepKeeps DEF TimeSteps
  <2>4. CASE Misses(":") /\ Go("time", pos, fields)
    <3>1. ~HasSeconds(text, Base)
      <4>1. Misses(":")
        BY <2>4
      <4> QED BY <1>3, <2>1, <4>1 DEF Misses, HasSeconds
    <3> QED BY <1>4, <2>4, <3>1
  <2> QED BY <1>6, <2>2, <2>3, <2>4 DEF SecondColon, Look
<1> QED BY <1>5, <1>6

LEMMA TakeSecondKeeps == Inv /\ TakeSecond => Inv'
<1> SUFFICES ASSUME Inv, TakeSecond PROVE Inv'
  OBVIOUS
<1>1. /\ next = "second" /\ next \in TimeSteps /\ pos = Base + 6 /\ HasSeconds(text, Base)
      /\ MinRead(text, Base, fields) /\ fields.micros = 0
  BY TypesAre DEF TakeSecond, TimeInv, TimeSteps
<1>2. /\ Base \in Nat /\ room = Len(text) - Base /\ next # "end"
      /\ Len(text) \in Nat /\ fields \in Fields /\ 2 \in Nat \ {0}
  BY <1>1, BaseIs, TypesAre
<1>3. pos + 1 = Base + 7 /\ pos + 2 = Base + 8
  BY <1>1, <1>2
<1>4. Take(2, "sec", "dot", "InvalidTime")
  BY DEF TakeSecond
<1>5. CASE DigitsAt(text, pos + 1, 2)
  <2> DEFINE n == NumberAt(text, pos + 1, 2)
             f == [fields EXCEPT !["sec"] = n]
  <2>1. /\ pos + 2 <= Len(text) /\ pos + 2 \in 0 .. Len(text)
        /\ n \in Nat
        /\ Go("dot", pos + 2, f)
    BY <1>2, <1>4, <1>5, TakeIs, Zenon
  <2> HIDE DEF n
  <2>2. /\ f \in Fields /\ f.sec = n /\ f.hour = fields.hour /\ f.min = fields.min
        /\ f.micros = fields.micros
        /\ SameDate(f, fields)
    BY <1>2, <2>1 DEF Fields, SameDate
  <2> HIDE DEF f
  <2>3. /\ next' = "dot" /\ pos' = pos + 2 /\ fields' = f /\ text' = text
        /\ room' = room /\ Base' = Base
    BY <2>1 DEF Go, Base
  <2>4. MinRead(text, Base, f)
    BY <1>1, <2>2 DEF MinRead, HourRead
  <2>5. SecRead(text, Base, f) /\ f.micros = 0
    BY <1>1, <1>3, <1>5, <2>2, <2>4 DEF SecRead, n
  <2>6. TimeInv'
    BY <1>3, <2>3, <2>5 DEF TimeInv, TimeSteps
  <2> QED BY <1>1, <2>1, <2>2, <2>6, TimeStepKeeps DEF TimeSteps
<1>6. CASE ~DigitsAt(text, pos + 1, 2)
  <2>1. End("InvalidTime")
    BY <1>2, <1>4, <1>6, TakeIs, Zenon
  <2>2. ~TimeShape(text, Base)
    BY <1>1, <1>3, <1>6 DEF TimeShape
  <2> QED BY <1>1, <1>2, <2>1, <2>2, NoTimeIsRead, ErrorKeeps DEF Errors
<1> QED BY <1>5, <1>6

LEMMA DotKeeps == Inv /\ Dot => Inv'
<1> SUFFICES ASSUME Inv, Dot PROVE Inv'
  OBVIOUS
<1>1. /\ next = "dot" /\ next \in TimeSteps /\ pos = Base + 8
      /\ SecRead(text, Base, fields) /\ fields.micros = 0
  BY TypesAre DEF Dot, TimeInv, TimeSteps
<1>2. /\ Base \in Nat /\ room = Len(text) - Base /\ next # "end"
      /\ Len(text) \in Nat /\ text \in Seq(Characters) /\ fields \in Fields
  BY <1>1, BaseIs, TypesAre
<1>3. Base + 7 + 2 - 1 <= Len(text) /\ HasSeconds(text, Base)
  BY <1>1 DEF SecRead, DigitsAt
<1>4. pos + 1 = Base + 9 /\ pos <= Len(text) /\ pos \in 0 .. Len(text)
  BY <1>1, <1>2, <1>3
<1>5. ASSUME Go("time", pos, fields), ~HasFraction(text, Base) PROVE Inv'
  <2>1. /\ next' = "time" /\ pos' = pos /\ fields' = fields /\ text' = text
        /\ room' = room /\ Base' = Base
    BY <1>5 DEF Go, Base
  <2>2. /\ TimeRead(text, Base, fields) /\ TimeLength(text, Base) = 8
        /\ ~EndsInADot(text, Base)
    BY <1>1, <1>2, <1>4, <1>5, EndsInSeconds
  <2>3. TimeInv'
    BY <1>1, <2>1, <2>2 DEF TimeInv, TimeSteps
  <2> QED BY <1>1, <1>2, <1>4, <1>5, <2>3, SameDates, TimeStepKeeps DEF TimeSteps
<1>6. CASE room = 8
  <2>1. ~HasFraction(text, Base)
    BY <1>2, <1>6 DEF HasFraction
  <2> QED BY <1>5, <1>6, <2>1 DEF Dot
<1>7. CASE room # 8
  <2>1. pos < Len(text) /\ pos + 1 <= Len(text) /\ pos + 1 \in 0 .. Len(text)
    BY <1>1, <1>2, <1>4, <1>7
  <2>2. ~Blind
    BY <1>4, <2>1, TypesAre DEF Blind
  <2>3. CASE Sees(".") /\ Go("fraction", pos + 1, fields)
    <3>1. HasFraction(text, Base)
      <4>1. Sees(".")
        BY <2>3
      <4> QED BY <1>3, <1>4, <2>1, <4>1 DEF Sees, HasFraction
    <3>2. /\ next' = "fraction" /\ pos' = pos + 1 /\ fields' = fields /\ text' = text
          /\ room' = room /\ Base' = Base
      BY <2>3 DEF Go, Base
    <3>3. TimeInv'
      BY <1>1, <1>4, <3>1, <3>2 DEF TimeInv, TimeSteps
    <3> QED BY <1>1, <1>2, <2>1, <2>3, <3>3, SameDates, TimeStepKeeps DEF TimeSteps
  <2>4. CASE Misses(".") /\ Go("time", pos, fields)
    <3>1. ~HasFraction(text, Base)
      <4>1. Misses(".")
        BY <2>4
      <4> QED BY <1>4, <2>1, <4>1 DEF Misses, HasFraction
    <3> QED BY <1>5, <2>4, <3>1
  <2> QED BY <1>7, <2>2, <2>3, <2>4 DEF Dot, Look
<1> QED BY <1>6, <1>7

(* The digits behind the dot, in what is left of the text.                 *)
LEMMA FractionInRest ==
    ASSUME NEW t \in Seq(Characters), NEW b \in Nat, b + 9 <= Len(t),
           NEW r, \A i \in 1 .. Len(t) - (b + 9) : r[i] = t[b + 9 + i],
           NEW n \in 0 .. Len(t) - (b + 9)
    PROVE  IsFraction(t, b, n) <=>
             /\ \A i \in 1 .. n : r[i] \in Digits
             /\ n < Len(t) - (b + 9) => r[n + 1] \notin Digits
<1> DEFINE a == b + 9
<1>1. /\ a \in Nat /\ Len(t) \in Nat /\ a <= Len(t) /\ n \in Nat /\ n <= Len(t) - a
      /\ b + 10 = a + 1 /\ b + 9 + n = a + n /\ b + 10 + n = a + (n + 1)
      /\ b + 10 + n - 1 = a + n
  OBVIOUS
<1>2. \A i \in 1 .. Len(t) - a : r[i] = t[a + i]
  OBVIOUS
<1>3. IsFraction(t, b, n) <=>
        /\ a + n <= Len(t) /\ \A j \in a + 1 .. a + n : t[j] \in Digits
        /\ a + n < Len(t) => t[a + (n + 1)] \notin Digits
  BY <1>1 DEF IsFraction, DigitsAt
<1> HIDE DEF a
<1>4. ASSUME \A j \in a + 1 .. a + n : t[j] \in Digits, NEW i \in 1 .. n
      PROVE  r[i] \in Digits
  <2>1. a + i \in a + 1 .. a + n /\ i \in 1 .. Len(t) - a
    BY <1>1
  <2> QED BY <1>2, <1>4, <2>1
<1>5. ASSUME \A i \in 1 .. n : r[i] \in Digits, NEW j \in a + 1 .. a + n
      PROVE  t[j] \in Digits
  <2>1. j - a \in 1 .. n /\ j - a \in 1 .. Len(t) - a /\ a + (j - a) = j
    BY <1>1
  <2> QED BY <1>2, <1>5, <2>1
<1>6. /\ a + n <= Len(t)
      /\ a + n < Len(t) <=> n < Len(t) - a
  BY <1>1
<1>7. n < Len(t) - a => r[n + 1] = t[a + (n + 1)]
  <2>1. n < Len(t) - a => n + 1 \in 1 .. Len(t) - a
    BY <1>1
  <2> QED BY <1>2, <2>1
<1>8. (\A j \in a + 1 .. a + n : t[j] \in Digits) <=> \A i \in 1 .. n : r[i] \in Digits
  BY <1>4, <1>5
<1>9. IsFraction(t, b, n) <=>
        /\ \A i \in 1 .. n : r[i] \in Digits
        /\ n < Len(t) - a => r[n + 1] \notin Digits
  BY <1>3, <1>6, <1>7, <1>8
<1> QED BY <1>9 DEF a

LEMMA FractionIsTaken ==
    ASSUME NEW b \in Nat, text \in Seq(Characters), pos = b + 9, b + 9 <= Len(text)
    PROVE  /\ FractionDigits = FractionLength(text, b)
           /\ SubSeq(Rest, 1, FractionDigits)
                = SubSeq(text, b + 10, b + 9 + FractionLength(text, b))
           /\ SubSeq(Rest, 1, FractionDigits) \in Seq(Digits)
           /\ Len(SubSeq(Rest, 1, FractionDigits)) = FractionLength(text, b)
<1> DEFINE r == SubSeq(text, pos + 1, Len(text))
           n == FractionLength(text, b)
           l == Len(text) - (b + 9)
           Good(k) == /\ \A i \in 1 .. k : r[i] \in Digits
                      /\ k < l => r[k + 1] \notin Digits
<1>1. /\ l \in Nat /\ Len(r) = l /\ Len(text) \in Nat
      /\ \A i \in 1 .. l : r[i] = text[b + 9 + i]
  OBVIOUS
<1> HIDE DEF r
<1>2. IsFraction(text, b, n) /\ \A k : IsFraction(text, b, k) => k = n
  BY FractionLengthIs
<1>3. n \in 0 .. l /\ DigitsAt(text, b + 10, n)
  BY <1>2 DEF IsFraction
<1>4. \A k \in 0 .. l : IsFraction(text, b, k) <=> Good(k)
  BY <1>1, FractionInRest
<1> HIDE DEF n, Good
<1>5. Good(n) /\ \A k \in 0 .. l : Good(k) => k = n
  BY <1>2, <1>3, <1>4
<1>6. FractionDigits = CHOOSE k \in 0 .. l : Good(k)
  <2>1. Rest = r /\ Len(r) = l
    BY <1>1 DEF Rest, r
  <2> HIDE DEF l
  <2> QED BY <2>1, Zenon DEF FractionDigits, Good
<1>7. FractionDigits = n
  BY <1>3, <1>5, <1>6
<1>8. SubSeq(r, 1, n) = SubSeq(text, b + 10, b + 9 + n)
  <2>1. n \in Nat /\ n <= Len(text) - (b + 9)
    BY <1>1, <1>3
  <2> QED BY <2>1 DEF r
<1>9. /\ SubSeq(text, b + 10, b + 9 + n) \in Seq(Digits)
      /\ Len(SubSeq(text, b + 10, b + 9 + n)) = n
  <2>1. n \in Nat /\ n <= Len(text) - (b + 9)
    BY <1>1, <1>3
  <2>2. \A j \in b + 10 .. b + 9 + n : text[j] \in Digits
    BY <1>3, <2>1 DEF DigitsAt
  <2> QED BY <2>1, <2>2
<1>10. Rest = r
  BY DEF Rest, r
<1> QED BY <1>7, <1>8, <1>9, <1>10 DEF n

LEMMA NothingIsThere ==
    ASSUME NEW t \in Seq(Characters), NEW p \in 0 .. Len(t)
    PROVE  SubSeq(t, p + 1, Len(t)) = <<>> <=> p = Len(t)
<1> DEFINE r == SubSeq(t, p + 1, Len(t))
<1>1. r \in Seq(Characters) /\ Len(r) = Len(t) - p
  OBVIOUS
<1> HIDE DEF r
<1>2. r = <<>> <=> Len(r) = 0
  BY <1>1
<1>3. r = <<>> <=> p = Len(t)
  BY <1>1, <1>2
<1> QED BY <1>3 DEF r

LEMMA TakeFractionKeeps == Inv /\ TakeFraction => Inv'
<1> SUFFICES ASSUME Inv, TakeFraction PROVE Inv'
  OBVIOUS
<1> DEFINE b == Base
           n == FractionLength(text, b)
           s == SubSeq(Rest, 1, FractionDigits)
           value == Number(s)
<1>1. /\ next = "fraction" /\ next \in TimeSteps /\ pos = b + 9 /\ HasFraction(text, b)
      /\ SecRead(text, b, fields) /\ fields.micros = 0
  BY TypesAre DEF TakeFraction, TimeInv, TimeSteps
<1>2. /\ b \in Nat /\ room = Len(text) - b /\ next # "end"
      /\ Len(text) \in Nat /\ text \in Seq(Characters) /\ fields \in Fields
  BY <1>1, BaseIs, TypesAre
<1>3. b + 9 <= Len(text) /\ pos \in 0 .. Len(text)
  BY <1>1, <1>2 DEF HasFraction
<1>4. /\ FractionDigits = n /\ s \in Seq(Digits) /\ Len(s) = n
      /\ s = SubSeq(text, b + 10, b + 9 + n)
  BY <1>1, <1>2, <1>3, FractionIsTaken
<1>5. n \in 0 .. Len(text) - (b + 9) /\ TimeLength(text, b) = 9 + n
  BY <1>1, <1>2, TimeLengthIs DEF TimeLength
<1>6. value \in Nat /\ value < Power10[n]
  BY <1>4, NumberIsANumber, NumberIsBelow
<1> HIDE DEF b, n, s
<1>7. CASE Rest = <<>>
  <2>1. End("InvalidTime")
    BY <1>7 DEF TakeFraction
  <2>2. pos = Len(text)
    BY <1>2, <1>3, <1>7, NothingIsThere DEF Rest
  <2>3. n = 0 /\ TimeLength(text, b) = 9 /\ EndsInADot(text, b)
    <3>1. n = 0
      BY <1>1, <1>2, <1>5, <2>2
    <3> QED BY <1>1, <1>5, <3>1 DEF EndsInADot, n
  <2>4. CASE kind = "time"
    <3>1. b = 0
      BY <1>1, <2>4, TypesAre DEF TimeFrame, b
    <3> QED BY <1>1, <1>2, <2>1, <2>3, <2>4, <3>1, ErrorKeeps
            DEF Errors, Readable, ReadableTime
  <2>5. CASE kind = "datetime"
    <3>1. b = TimePlace(text)
      BY <1>1, <2>5, TypesAre DEF TimeFrame, b
    <3>2. ZonePlace(text) = Len(text)
      BY <1>1, <2>2, <2>3, <3>1 DEF ZonePlace
    <3>3. SubSeq(text, Len(text) + 1, Len(text)) \notin Zones
      <4>1. Len(text) \in 0 .. Len(text)
        BY <1>2
      <4> QED BY <1>2, <4>1, ZonesAre
    <3>4. ~Readable(kind, text)
      BY <2>5, <3>2, <3>3 DEF Readable, ReadableDateTime, DateTimeShape
    <3> QED BY <1>1, <1>2, <2>1, <3>4, ErrorKeeps DEF Errors
  <2> QED BY <1>1, <2>4, <2>5, BaseIs
<1>8. ASSUME n > NanoDigits PROVE ~Readable(kind, text)
  <2>1. ~(n <= NanoDigits)
    BY <1>5, <1>8, Constants
  <2>2. ~TimeShape(text, b)
    BY <1>1, <2>1 DEF TimeShape, n
  <2> QED BY <1>1, <2>2, NoTimeIsRead DEF b
<1>9. CASE Rest # <<>> /\ checked /\ value > UsizeMax
  <2>1. End("panic")
    BY <1>9 DEF TakeFraction, s
  <2>2. n > NanoDigits
    <3> SUFFICES ASSUME n <= NanoDigits PROVE FALSE
      BY <1>5, Constants
    <3>1. n \in Nat /\ NanoDigits \in Nat /\ Power10[NanoDigits] <= UsizeMax
      BY <1>5, Constants, TextAssumption DEF NanoDigits
    <3>2. Power10[n] <= Power10[NanoDigits]
      BY <3>1, Power10Grows
    <3>3. Power10[n] \in Nat /\ Power10[NanoDigits] \in Nat /\ UsizeMax \in Nat
      BY <3>1, Power10IsPositive, TextAssumption
    <3> DEFINE v == value
               x == Power10[n]
               y == Power10[NanoDigits]
    <3>4. /\ v \in Nat /\ x \in Nat /\ y \in Nat /\ UsizeMax \in Nat
          /\ v < x /\ x <= y /\ y <= UsizeMax /\ v > UsizeMax
      BY <1>6, <1>9, <3>1, <3>2, <3>3
    <3> HIDE DEF v, x, y
    <3> QED BY <3>4
  <2>3. Number(SubSeq(Rest, 1, FractionDigits)) > UsizeMax
    BY <1>9 DEF s
  <2>4. ~Readable(kind, text)
    BY <1>8, <2>2
  <2> QED BY <1>2, <2>1, <2>3, <2>4, EndKeeps
<1>10. CASE Rest # <<>> /\ ~(checked /\ value > UsizeMax) /\ n > NanoDigits
  <2>1. End("InvalidTime")
    BY <1>4, <1>10 DEF TakeFraction, s
  <2> QED BY <1>2, <1>8, <1>10, <2>1, ErrorKeeps DEF Errors
<1>11. CASE Rest # <<>> /\ ~(checked /\ value > UsizeMax) /\ ~(n > NanoDigits)
  <2> DEFINE m == (value * Power10[NanoDigits - n]) \div Power10[PrefixDigits]
             f == [fields EXCEPT !.micros = m]
  <2>1. Go("time", pos + n, f)
    BY <1>4, <1>11 DEF TakeFraction, s
  <2>2. n \in Nat /\ n <= NanoDigits /\ n <= Len(text) - (b + 9)
    BY <1>2, <1>5, <1>11, Constants
  <2>3. m = MicrosAt(text, b)
    <3>1. m = Number(Cut(s))
      BY <1>4, <2>2, MicrosAreCut
    <3> HIDE DEF m
    <3> QED BY <1>1, <1>4, <3>1 DEF MicrosAt, n
  <2>4. m \in Nat
    <3>1. /\ Power10[NanoDigits - n] \in Nat /\ Power10[PrefixDigits] \in Nat
          /\ Power10[PrefixDigits] >= 1
      BY <2>2, Constants, Power10IsPositive
    <3> DEFINE v == value
               x == Power10[NanoDigits - n]
               y == Power10[PrefixDigits]
    <3>2. v \in Nat /\ x \in Nat /\ y \in Nat /\ y >= 1
      BY <1>6, <3>1
    <3> HIDE DEF v, x, y
    <3>3. v * x \in Nat
      BY <3>2
    <3>4. (v * x) \div y \in Nat
      BY <3>2, <3>3
    <3> QED BY <3>4 DEF v, x, y
  <2> HIDE DEF m
  <2>5. /\ f \in Fields /\ f.micros = m /\ f.hour = fields.hour
        /\ f.min = fields.min /\ f.sec = fields.sec
        /\ SameDate(f, fields)
    BY <1>2, <2>4 DEF Fields, SameDate
  <2> HIDE DEF f
  <2>6. /\ next' = "time" /\ pos' = pos + n /\ fields' = f /\ text' = text
        /\ room' = room /\ Base' = b
    BY <2>1 DEF Go, Base, b
  <2>7. /\ HasSeconds(text, b) /\ MinRead(text, b, fields) /\ DigitsAt(text, b + 7, 2)
        /\ fields.sec = NumberAt(text, b + 7, 2)
    BY <1>1 DEF SecRead
  <2>8. MinRead(text, b, f)
    BY <2>5, <2>7 DEF MinRead, HourRead
  <2>9. TimeShape(text, b)
    <3>1. b + TimeLength(text, b) <= Len(text)
      BY <1>2, <1>5, <2>2
    <3> QED BY <1>1, <2>2, <2>7, <3>1 DEF TimeShape, MinRead, HourRead, n
  <2>10. TimeRead(text, b, f)
    BY <2>3, <2>5, <2>7, <2>8, <2>9 DEF TimeRead, SecAt
  <2>11. pos + n = b + TimeLength(text, b) /\ pos + n \in 0 .. Len(text)
    BY <1>1, <1>2, <1>5, <2>2
  <2>12. EndsInADot(text, b) => pos + n < Len(text)
    <3>1. pos # Len(text)
      BY <1>2, <1>3, <1>11, NothingIsThere DEF Rest
    <3>2. EndsInADot(text, b) => n = 0
      BY DEF EndsInADot, n
    <3> QED BY <1>2, <1>3, <3>1, <3>2
  <2>13. TimeInv'
    BY <2>6, <2>10, <2>11, <2>12 DEF TimeInv, TimeSteps
  <2> QED BY <1>1, <2>1, <2>5, <2>11, <2>13, TimeStepKeeps DEF TimeSteps
<1> QED BY <1>7, <1>9, <1>10, <1>11

(* What has been read of a time is what the text says.                     *)
LEMMA TimeIsRead ==
    ASSUME NEW t, NEW b, NEW f \in Fields, TimeRead(t, b, f)
    PROVE  /\ f.hour = NumberAt(t, b + 1, 2) /\ f.min = NumberAt(t, b + 4, 2)
           /\ f.sec = SecAt(t, b) /\ f.micros = MicrosAt(t, b)
           /\ TimeOf(f) = TimeOf(TimeAt(t, b))
           /\ Dateless(f) => f = TimeAt(t, b)
<1>1. /\ f.hour = NumberAt(t, b + 1, 2) /\ f.min = NumberAt(t, b + 4, 2)
      /\ f.sec = SecAt(t, b) /\ f.micros = MicrosAt(t, b)
  BY DEF TimeRead, MinRead, HourRead
<1>2. TimeOf(f) = TimeOf(TimeAt(t, b))
  BY <1>1 DEF TimeOf, TimeAt
<1>3. ASSUME Dateless(f) PROVE f = TimeAt(t, b)
  <2>1. f.year = 0 /\ f.month = 0 /\ f.day = 0
    BY <1>3 DEF Dateless
  <2>2. f.negative = FALSE
    BY <1>3, FieldTypes DEF Dateless
  <2> QED BY <1>1, <2>1, <2>2 DEF Fields, TimeAt
<1> QED BY <1>1, <1>2, <1>3

LEMMA TakeTimeKeeps == Inv /\ TakeTime => Inv'
<1> SUFFICES ASSUME Inv, TakeTime PROVE Inv'
  OBVIOUS
<1>1. /\ next = "time" /\ next \in TimeSteps /\ TimeRead(text, Base, fields)
      /\ pos = Base + TimeLength(text, Base)
      /\ EndsInADot(text, Base) => pos < Len(text)
  BY TypesAre DEF TakeTime, TimeInv, TimeSteps
<1>2. kind = "time" \/ kind = "datetime"
  BY <1>1, BaseIs
<1>3. /\ next # "end" /\ fields \in Fields /\ text \in Seq(Characters)
      /\ Len(text) \in Nat /\ Base \in Nat /\ pos \in Nat
  BY <1>1, BaseIs, TypesAre
<1>4. TimeShape(text, Base) /\ pos <= Len(text)
  BY <1>1 DEF TimeRead, TimeShape
<1>5. TimeOf(fields) = TimeOf(TimeAt(text, Base))
  BY <1>1, <1>3, TimeIsRead
<1>6. kind = "time" => Base = 0 /\ Dateless(fields)
  BY <1>1, TypesAre DEF TimeFrame
<1>7. kind = "datetime" => Base = TimePlace(text)
  BY <1>1, TypesAre DEF TimeFrame
<1>8. CASE ~TimeValid(TimeOf(fields))
  <2>1. End("InvalidTime")
    BY <1>8 DEF TakeTime
  <2>2. ~Readable(kind, text)
    <3>1. CASE kind = "time"
      BY <1>5, <1>6, <1>8, <3>1 DEF Readable, ReadableTime
    <3>2. CASE kind = "datetime"
      BY <1>5, <1>7, <1>8, <3>2 DEF Readable, ReadableDateTime
    <3> QED BY <1>2, <3>1, <3>2
  <2> QED BY <1>3, <2>1, <2>2, ErrorKeeps DEF Errors
<1>9. CASE TimeValid(TimeOf(fields)) /\ kind = "time" /\ Unconsumed = 0
  <2>1. End("none")
    BY <1>9 DEF TakeTime
  <2>2. pos = Len(text) /\ Base = 0 /\ Dateless(fields)
    BY <1>3, <1>6, <1>9 DEF Unconsumed
  <2>3. /\ TimeShape(text, 0) /\ TimeLength(text, 0) = Len(text) /\ ~EndsInADot(text, 0)
    <3>1. TimeLength(text, 0) \in Nat
      BY <1>3, <2>2, TimeLengthIs
    <3> QED BY <1>1, <1>3, <1>4, <2>2, <3>1
  <2>4. fields = TimeAt(text, 0)
    BY <1>1, <1>3, <2>2, TimeIsRead
  <2>5. TimeValid(TimeOf(TimeAt(text, 0)))
    BY <1>9, <2>4
  <2>6. Readable(kind, text) /\ fields = Reading(kind, text)
    BY <1>9, <2>3, <2>4, <2>5 DEF Readable, ReadableTime, Reading
  <2> QED BY <1>3, <2>1, <2>6, EndKeeps
<1>10. CASE TimeValid(TimeOf(fields)) /\ kind = "time" /\ Unconsumed # 0
  <2>1. End("InvalidTime")
    BY <1>10 DEF TakeTime
  <2>2. TimeLength(text, 0) # Len(text)
    <3>1. Base = 0 /\ TimeLength(text, 0) \in Nat
      BY <1>3, <1>6, <1>10, TimeLengthIs
    <3> QED BY <1>1, <1>3, <1>10, <3>1 DEF Unconsumed
  <2>3. ~Readable(kind, text)
    BY <1>10, <2>2 DEF Readable, ReadableTime
  <2> QED BY <1>3, <2>1, <2>3, ErrorKeeps DEF Errors
<1>11. CASE TimeValid(TimeOf(fields)) /\ kind # "time"
  <2>1. Go("suffix", pos, fields)
    BY <1>11 DEF TakeTime
  <2>2. /\ next' = "suffix" /\ pos' = pos /\ fields' = fields /\ text' = text
        /\ room' = room /\ Base' = Base /\ kind' = kind
    BY <2>1 DEF Go, Base
  <2>3. kind = "datetime"
    BY <1>2, <1>11
  <2>4. TimeInv'
    BY <1>1, <1>11, <2>2, <2>3 DEF TimeInv, TimeSteps
  <2>5. pos \in 0 .. Len(text)
    BY <1>3, <1>4
  <2> QED BY <1>1, <1>3, <2>1, <2>4, <2>5, SameDates, TimeStepKeeps DEF TimeSteps
<1> QED BY <1>8, <1>9, <1>10, <1>11

(* A zone as the end of parseRFC3339 recognises it.                        *)
IsZone(r) ==
    \/ Len(r) = 1 /\ r = <<"Z">>
    \/ Len(r) = 6 /\ r[1] \in {"+", "-"} /\ Tail(r) = <<"0", "0", ":", "0", "0">>

LEMMA ZonesInFull ==
    ASSUME NEW r \in Seq(Characters)
    PROVE  r \in Zones <=> IsZone(r)
<1> DEFINE n == Len(r)
<1>1. ASSUME r \in Zones
      PROVE  \/ n = 1 /\ r = <<"Z">>
             \/ n = 6 /\ r[1] \in {"+", "-"} /\ Tail(r) = <<"0", "0", ":", "0", "0">>
  <2>1. CASE r = <<"Z">>
    BY <2>1
  <2>2. ASSUME NEW sign \in {"+", "-"}, r = <<sign, "0", "0", ":", "0", "0">>
        PROVE  n = 6 /\ r[1] \in {"+", "-"} /\ Tail(r) = <<"0", "0", ":", "0", "0">>
    BY <2>2
  <2> QED BY <1>1, <2>1, <2>2 DEF Zones
<1>2. ASSUME n = 1, r = <<"Z">> PROVE r \in Zones
  BY <1>2 DEF Zones
<1>3. ASSUME n = 6, r[1] \in {"+", "-"}, Tail(r) = <<"0", "0", ":", "0", "0">>
      PROVE  r \in Zones
  <2> DEFINE u == Tail(r)
  <2>1. \A i \in 1 .. 5 : r[i + 1] = u[i]
    <3>1. n = 6 /\ n = Len(r)
      BY <1>3
    <3> HIDE DEF n
    <3>2. r # <<>>
      BY <3>1
    <3>3. Len(u) = n - 1 /\ \A i \in 1 .. Len(u) : u[i] = r[i + 1]
      BY <3>1, <3>2, HeadTailProperties
    <3> HIDE DEF u
    <3>4. Len(u) = 5
      BY <3>1, <3>3
    <3> QED BY <3>3, <3>4
  <2>0. u = <<"0", "0", ":", "0", "0">>
    BY <1>3
  <2> HIDE DEF u
  <2>2. u[1] = "0" /\ u[2] = "0" /\ u[3] = ":" /\ u[4] = "0" /\ u[5] = "0"
    BY <2>0
  <2>3. r[2] = "0" /\ r[3] = "0" /\ r[4] = ":" /\ r[5] = "0" /\ r[6] = "0"
    BY <2>1, <2>2
  <2>4. r = <<r[1], "0", "0", ":", "0", "0">>
    <3> DEFINE z == <<r[1], "0", "0", ":", "0", "0">>
    <3>1. /\ z \in Seq(Characters) /\ Len(z) = 6
          /\ z[1] = r[1] /\ z[2] = "0" /\ z[3] = "0" /\ z[4] = ":" /\ z[5] = "0" /\ z[6] = "0"
      <4>1. r[1] \in Characters
        BY <1>3
      <4> QED BY <4>1, CharactersAre
    <3> HIDE DEF z
    <3>2. \A i \in 1 .. 6 : r[i] = z[i]
      BY <2>3, <3>1
    <3>3. r = z
      <4>1. Len(r) = Len(z) /\ \A i \in 1 .. Len(r) : r[i] = z[i]
        BY <1>3, <3>1, <3>2
      <4> QED BY <3>1, <4>1, SeqEqual
    <3> QED BY <3>3 DEF z
  <2> QED BY <1>3, <2>4 DEF Zones
<1> QED BY <1>1, <1>2, <1>3 DEF IsZone

LEMMA SuffixIs ==
    ASSUME Suffix
    PROVE  /\ next = "suffix"
           /\ Unconsumed = 1 =>
                End(IF Rest = <<"Z">> THEN OfInitUTC ELSE "InvalidDateTime")
           /\ Unconsumed = 6 =>
                End(IF Rest[1] \notin {"+", "-"} THEN "InvalidDateTime"
                    ELSE IF Tail(Rest) = <<"0", "0", ":", "0", "0">> THEN OfInitUTC
                    ELSE "NonUTCNotSupported")
           /\ Unconsumed # 1 /\ Unconsumed # 6 => End("InvalidDateTime")
<1>1. 1 # 6
  OBVIOUS
<1> QED BY <1>1, Zenon DEF Suffix

LEMMA SuffixKeeps == Inv /\ Suffix => Inv'
<1> SUFFICES ASSUME Inv, Suffix PROVE Inv'
  OBVIOUS
<1> DEFINE x == Reading("datetime", text)
<1>1. /\ next = "suffix" /\ next \in TimeSteps /\ kind = "datetime"
      /\ TimeRead(text, Base, fields) /\ pos = Base + TimeLength(text, Base)
      /\ TimeValid(TimeOf(fields))
  BY SuffixIs, TypesAre DEF TimeInv, TimeSteps
<1>2. Dated /\ Base = TimePlace(text)
  BY <1>1, TypesAre DEF TimeFrame
<1>3. /\ next # "end" /\ fields \in Fields /\ text \in Seq(Characters)
      /\ Len(text) \in Nat /\ Base \in Nat /\ pos \in Nat
  BY <1>1, BaseIs, TypesAre
<1>4. DateRead(text, fields) /\ TimeShape(text, Base) /\ DateShape(text)
  BY <1>1, <1>2 DEF Dated, DateRead, TimeRead
<1>5. pos <= Len(text) /\ Base <= Len(text) /\ pos = ZonePlace(text)
  <2>1. TimeLength(text, Base) \in Nat
    BY <1>3, TimeLengthIs
  <2>2. pos = ZonePlace(text)
    BY <1>1, <1>2 DEF ZonePlace
  <2>3. Base + TimeLength(text, Base) <= Len(text)
    BY <1>4 DEF TimeShape
  <2> QED BY <1>1, <1>3, <2>1, <2>2, <2>3
<1>6. text[Base] = "T"
  <2>1. kind = "datetime" => (Base <= Len(text) => text[Base] = "T")
    BY <1>1, TypesAre DEF TimeFrame
  <2> QED BY <1>1, <1>5, <2>1
<1>7. Rest \in Zones <=> DateTimeShape(text)
  BY <1>2, <1>4, <1>5, <1>6 DEF DateTimeShape, Rest
<1>8. Readable(kind, text) <=> Rest \in Zones
  <2>1. /\ DateValid(DateOf(DateAt(text))) /\ Year(DateAt(text)) >= FirstYear
    <3>1. DateOf(fields) = DateOf(DateAt(text)) /\ Year(fields) = Year(DateAt(text))
      BY <1>3, <1>4, DateIsRead
    <3> QED BY <1>2, <3>1 DEF Dated
  <2>2. TimeValid(TimeOf(TimeAt(text, TimePlace(text))))
    <3>1. TimeOf(fields) = TimeOf(TimeAt(text, Base))
      BY <1>1, <1>3, TimeIsRead
    <3> QED BY <1>1, <1>2, <3>1
  <2> QED BY <1>1, <1>7, <2>1, <2>2 DEF Readable, ReadableDateTime
<1>9. fields = x
  <2>1. /\ fields.negative = (text[1] = "-")
        /\ fields.year = NumberAt(text, YearPlace(text), 4)
        /\ fields.month = NumberAt(text, MonthPlace(text), 2)
        /\ fields.day = NumberAt(text, DayPlace(text), 2)
    BY <1>3, <1>4, DateIsRead
  <2>2. /\ fields.hour = NumberAt(text, Base + 1, 2) /\ fields.min = NumberAt(text, Base + 4, 2)
        /\ fields.sec = SecAt(text, Base) /\ fields.micros = MicrosAt(text, Base)
    BY <1>1, <1>3, TimeIsRead
  <2>3. x = Both(DateAt(text), TimeAt(text, Base))
    BY <1>2 DEF Reading
  <2> QED BY <1>3, <2>1, <2>2, <2>3 DEF Fields, Both, DateAt, TimeAt
<1> HIDE DEF x
<1>10. ASSUME End("none"), Rest \in Zones PROVE Inv'
  BY <1>1, <1>3, <1>8, <1>9, <1>10, EndKeeps DEF x
<1>11. ASSUME NEW e \in Errors, End(e), Rest \notin Zones PROVE Inv'
  BY <1>3, <1>8, <1>11, ErrorKeeps
<1>12. /\ Rest \in Seq(Characters) /\ Unconsumed = Len(Rest)
  BY <1>3, <1>5 DEF Rest, Unconsumed
<1>13. Rest \in Zones <=>
         \/ Unconsumed = 1 /\ Rest = <<"Z">>
         \/ /\ Unconsumed = 6 /\ Rest[1] \in {"+", "-"}
            /\ Tail(Rest) = <<"0", "0", ":", "0", "0">>
  <2>1. Rest \in Zones <=> IsZone(Rest)
    BY <1>12, ZonesInFull
  <2> QED BY <1>12, <2>1, Zenon DEF IsZone
<1>14. OfInitUTC = "none"
  <2>1. DateValid(DateOf(fields)) /\ Year(fields) >= FirstYear /\ checked \in BOOLEAN
    BY <1>2, TypesAre DEF Dated
  <2> QED BY <1>1, <1>3, <2>1, InitUTCTakesThem DEF OfInitUTC
<1>15. CASE Unconsumed = 1
  <2>1. CASE Rest = <<"Z">>
    BY <1>10, <1>13, <1>15, <1>14, <2>1, SuffixIs
  <2>2. CASE Rest # <<"Z">>
    <3>1. Rest \notin Zones
      BY <1>13, <1>15, <2>2
    <3> QED BY <1>11, <1>15, <2>2, <3>1, SuffixIs DEF Errors
  <2> QED BY <2>1, <2>2
<1>16. CASE Unconsumed = 6
  <2>1. CASE Rest[1] \notin {"+", "-"}
    <3>1. Rest \notin Zones
      BY <1>13, <1>16, <2>1
    <3> QED BY <1>11, <1>16, <2>1, <3>1, SuffixIs DEF Errors
  <2>2. CASE Rest[1] \in {"+", "-"} /\ Tail(Rest) = <<"0", "0", ":", "0", "0">>
    BY <1>10, <1>13, <1>16, <1>14, <2>2, SuffixIs
  <2>3. CASE Rest[1] \in {"+", "-"} /\ Tail(Rest) # <<"0", "0", ":", "0", "0">>
    <3>1. Rest \notin Zones
      BY <1>13, <1>16, <2>3
    <3> QED BY <1>11, <1>16, <2>3, <3>1, SuffixIs DEF Errors
  <2> QED BY <2>1, <2>2, <2>3
<1>17. CASE Unconsumed # 1 /\ Unconsumed # 6
  <2>1. Rest \notin Zones
    BY <1>13, <1>17
  <2> QED BY <1>11, <1>17, <2>1, SuffixIs DEF Errors
<1> QED BY <1>15, <1>16, <1>17

(* What has been read may be written, whatever is read next.               *)
LEMMA WriteBackKeeps == Inv /\ WriteBack => Inv'
<1> SUFFICES ASSUME Inv, WriteBack PROVE Inv'
  OBVIOUS
<1>1. /\ next = "end" /\ outcome = "none"
      /\ text' = Write(kind, fields) /\ written' = <<fields>>
      /\ pos' = 0 /\ room' = Len(Write(kind, fields)) /\ fields' = NoFields
      /\ next' = IF kind = "time" THEN "hour" ELSE "sign"
      /\ outcome' = "pending"
      /\ checked' = checked /\ kind' = kind
  BY DEF WriteBack
<1>2. fields \in Fields /\ kind \in Kinds /\ checked \in BOOLEAN
  BY TypesAre
<1>3. Readable(kind, text) /\ fields = Reading(kind, text)
  BY <1>1 DEF Inv, EndInv
<1>4. Writable(kind, fields)
  <2>1. CASE kind = "date"
    <3>1. fields = DateAt(text) /\ DateValid(DateOf(fields))
      BY <1>3, <2>1 DEF Readable, ReadableDate, Reading
    <3>2. TimeOf(fields) = TimeOf(NoFields)
      BY <3>1 DEF TimeOf, DateAt, NoFields
    <3> QED BY <2>1, <3>1, <3>2 DEF Writable
  <2>2. CASE kind = "time"
    <3>1. fields = TimeAt(text, 0) /\ TimeValid(TimeOf(fields))
      BY <1>3, <2>2 DEF Readable, ReadableTime, Reading
    <3>2. /\ fields.negative = FALSE /\ fields.year = 0 /\ fields.month = 0 /\ fields.day = 0
      BY <3>1 DEF TimeAt
    <3>3. /\ NoFields.negative = FALSE /\ NoFields.year = 0
          /\ NoFields.month = 0 /\ NoFields.day = 0
      BY DEF NoFields
    <3>4. DateOf(fields) = DateOf(NoFields)
      BY <3>2, <3>3, Zenon DEF DateOf, Year
    <3> QED BY <2>2, <3>1, <3>4 DEF Writable
  <2>3. CASE kind = "datetime"
    <3> DEFINE d == DateAt(text)
               u == TimeAt(text, TimePlace(text))
    <3>1. /\ fields = Both(d, u) /\ DateValid(DateOf(d)) /\ Year(d) >= FirstYear
          /\ TimeValid(TimeOf(u))
      BY <1>3, <2>3 DEF Readable, ReadableDateTime, Reading
    <3> HIDE DEF d, u
    <3>2. DateOf(fields) = DateOf(d) /\ Year(fields) = Year(d) /\ TimeOf(fields) = TimeOf(u)
      BY <3>1 DEF Both, DateOf, TimeOf, Year
    <3> QED BY <2>3, <3>1, <3>2 DEF Writable
  <2> QED BY <1>2, <2>1, <2>2, <2>3 DEF Kinds
<1>5. Write(kind, fields) \in Seq(Characters)
  BY <1>2, <1>4, WrittenCharacters
<1>6. WrittenInv'
  BY <1>1, <1>2, <1>4 DEF WrittenInv
<1>7. Starting'
  BY <1>1, <1>2, <1>5, <1>6 DEF Starting
<1>8. (Starting => Inv)'
  BY StartsWell, PTL
<1> QED BY <1>7, <1>8

LEMMA InvStep == Inv /\ [Next]_vars => Inv'
<1> SUFFICES ASSUME Inv, [Next]_vars PROVE Inv'
  OBVIOUS
<1>1. CASE Sign
  BY <1>1, SignKeeps
<1>2. CASE TakeYear
  BY <1>2, TakeYearKeeps
<1>3. CASE FirstDash
  BY <1>3, FirstDashKeeps
<1>4. CASE TakeMonth
  BY <1>4, TakeMonthKeeps
<1>5. CASE SecondDash
  BY <1>5, SecondDashKeeps
<1>6. CASE TakeDay
  BY <1>6, TakeDayKeeps
<1>7. CASE TakeDate
  BY <1>7, TakeDateKeeps
<1>8. CASE LetterT
  BY <1>8, LetterTKeeps
<1>9. CASE BeginTime
  BY <1>9, BeginTimeKeeps
<1>10. CASE TakeHour
  BY <1>10, TakeHourKeeps
<1>11. CASE FirstColon
  BY <1>11, FirstColonKeeps
<1>12. CASE TakeMinute
  BY <1>12, TakeMinuteKeeps
<1>13. CASE SecondColon
  BY <1>13, SecondColonKeeps
<1>14. CASE TakeSecond
  BY <1>14, TakeSecondKeeps
<1>15. CASE Dot
  BY <1>15, DotKeeps
<1>16. CASE TakeFraction
  BY <1>16, TakeFractionKeeps
<1>17. CASE TakeTime
  BY <1>17, TakeTimeKeeps
<1>18. CASE Suffix
  BY <1>18, SuffixKeeps
<1>19. CASE WriteBack
  BY <1>19, WriteBackKeeps
<1>20. CASE UNCHANGED vars
  <2>1. /\ UNCHANGED <<checked, kind, text, written, pos, room, fields, next, outcome>>
        /\ UNCHANGED Base /\ UNCHANGED Rest
    BY <1>20 DEF vars, Base, Rest
  <2>2. TypeOK' /\ next' \in Steps /\ EndInv' /\ WrittenInv'
    BY <2>1 DEF Inv, TypeOK, Ended, EndInv, WrittenInv
  <2>3. DateInv' /\ BetweenInv'
    <3>1. Dated <=> Dated'
      BY <2>1 DEF Dated
    <3>2. DateInv'
      BY <2>1 DEF Inv, DateInv
    <3>3. BetweenInv'
      BY <2>1, <3>1 DEF Inv, BetweenInv
    <3> QED BY <3>2, <3>3
  <2>4. TimeFrame' /\ TimeInv'
    <3>1. TimeFrame'
      <4>1. Dated <=> Dated'
        BY <2>1 DEF Dated
      <4> QED BY <2>1, <4>1 DEF Inv, TimeFrame
    <3>2. TimeInv'
      BY <2>1 DEF Inv, TimeInv
    <3> QED BY <3>1, <3>2
  <2>5. PanicsOnlyAfterADateOrInAFraction'
    BY <2>1 DEF Inv, PanicsOnlyAfterADateOrInAFraction, FractionDigits
  <2> QED BY <2>2, <2>3, <2>4, <2>5 DEF Inv
<1> QED BY <1>1, <1>2, <1>3, <1>4, <1>5, <1>6, <1>7, <1>8, <1>9, <1>10, <1>11,
           <1>12, <1>13, <1>14, <1>15, <1>16, <1>17, <1>18, <1>19, <1>20 DEF Next

LEMMA InvAlways == Spec => []Inv
BY InvInit, InvStep, PTL DEF Spec
-----------------------------------------------------------------------------
(* What is written can be read: s stands in t behind i characters.         *)
Holds(t, i, s) ==
    i + Len(s) <= Len(t) /\ \A j \in 1 .. Len(s) : t[i + j] = s[j]

LEMMA HoldsAppended ==
    ASSUME NEW a \in Seq(Characters), NEW b \in Seq(Characters)
    PROVE  /\ a \o b \in Seq(Characters) /\ Len(a \o b) = Len(a) + Len(b)
           /\ Holds(a \o b, Len(a), b)
           /\ \A i \in Nat, s \in Seq(Characters) : Holds(a, i, s) => Holds(a \o b, i, s)
<1> DEFINE c == a \o b
<1>1. /\ c \in Seq(Characters) /\ Len(c) = Len(a) + Len(b)
      /\ \A i \in 1 .. Len(a) : c[i] = a[i]
      /\ \A i \in Len(a) + 1 .. Len(a) + Len(b) : c[i] = b[i - Len(a)]
  BY ConcatElements
<1> HIDE DEF c
<1>2. Len(a) \in Nat /\ Len(b) \in Nat
  OBVIOUS
<1>3. Holds(c, Len(a), b)
  <2>1. ASSUME NEW j \in 1 .. Len(b) PROVE c[Len(a) + j] = b[j]
    <3>1. Len(a) + j \in Len(a) + 1 .. Len(a) + Len(b) /\ (Len(a) + j) - Len(a) = j
      BY <1>2
    <3> QED BY <1>1, <3>1
  <2> QED BY <1>1, <1>2, <2>1 DEF Holds
<1>4. ASSUME NEW i \in Nat, NEW s \in Seq(Characters), Holds(a, i, s) PROVE Holds(c, i, s)
  <2>1. Len(s) \in Nat /\ i + Len(s) <= Len(a)
    BY <1>4 DEF Holds
  <2>2. ASSUME NEW j \in 1 .. Len(s) PROVE c[i + j] = s[j]
    <3>1. i + j \in 1 .. Len(a)
      BY <1>2, <2>1
    <3> QED BY <1>1, <1>4, <3>1 DEF Holds
  <2> QED BY <1>1, <1>2, <2>1, <2>2 DEF Holds
<1> QED BY <1>1, <1>3, <1>4 DEF c

LEMMA HeldDigits ==
    ASSUME NEW t \in Seq(Characters), NEW i \in Nat, NEW s \in Seq(Digits), Holds(t, i, s)
    PROVE  /\ DigitsAt(t, i + 1, Len(s)) /\ NumberAt(t, i + 1, Len(s)) = Number(s)
<1> DEFINE k == Len(s)
           u == SubSeq(t, i + 1, i + 1 + k - 1)
<1>1. k \in Nat /\ i + k <= Len(t) /\ i + 1 + k - 1 = i + k /\ \A j \in 1 .. k : t[i + j] = s[j]
  BY DEF Holds
<1>2. s \in Seq(Characters)
  BY CharactersAre
<1>3. ASSUME NEW j \in i + 1 .. i + k PROVE t[j] \in Digits
  <2>1. j - i \in 1 .. k /\ i + (j - i) = j
    BY <1>1
  <2>2. s[j - i] \in Digits
    BY <2>1
  <2> QED BY <1>1, <2>1, <2>2
<1>4. u = s
  <2>1. u \in Seq(Characters) /\ Len(u) = k /\ \A j \in 1 .. k : u[j] = t[i + j]
    <3> HIDE DEF k
    <3> QED BY <1>1
  <2> HIDE DEF u
  <2>2. Len(u) = Len(s) /\ \A j \in 1 .. Len(u) : u[j] = s[j]
    BY <1>1, <2>1
  <2> QED BY <1>2, <2>1, <2>2, SeqEqual
<1>5. DigitsAt(t, i + 1, k)
  BY <1>1, <1>3 DEF DigitsAt
<1> QED BY <1>4, <1>5 DEF NumberAt

LEMMA HeldCharacter ==
    ASSUME NEW t, NEW i \in Nat, NEW c, Holds(t, i, <<c>>)
    PROVE  t[i + 1] = c
<1>1. Len(<<c>>) = 1 /\ <<c>>[1] = c
  OBVIOUS
<1> QED BY <1>1 DEF Holds

(* A number of two digits, as the fields of a date and of a time are.      *)
LEMMA TwoDigits ==
    ASSUME NEW n \in Nat, n < 100
    PROVE  /\ Padded(2, n) \in Seq(Digits) /\ Padded(2, n) \in Seq(Characters)
           /\ Len(Padded(2, n)) = 2 /\ Number(Padded(2, n)) = n
<1> DEFINE two == 2
<1>1. two \in Nat /\ n < Power10[two]
  BY PowersOfTen
<1> HIDE DEF two
<1>2. /\ Padded(two, n) \in Seq(Digits) /\ Len(Padded(two, n)) = two
      /\ Number(Padded(two, n)) = n
  BY <1>1, PaddedIsTheNumber
<1>3. \A s \in Seq(Digits) : s \in Seq(Characters)
  BY CharactersAre
<1> QED BY <1>2, <1>3 DEF two

LEMMA FourDigits ==
    ASSUME NEW n \in Years
    PROVE  /\ SubSeq(Padded(4, n), 1, 4) = Padded(4, n)
           /\ Padded(4, n) \in Seq(Digits) /\ Padded(4, n) \in Seq(Characters)
           /\ Len(Padded(4, n)) = 4 /\ Number(Padded(4, n)) = n
<1> DEFINE four == 4
<1>1. \A y \in Years : y \in Nat /\ y < 10000
  BY SMT DEF Years
<1>2. four \in Nat /\ n \in Nat /\ n < Power10[four]
  BY <1>1, PowersOfTen
<1> HIDE DEF four
<1>3. /\ Padded(four, n) \in Seq(Digits) /\ Len(Padded(four, n)) = four
      /\ Number(Padded(four, n)) = n
  BY <1>2, PaddedIsTheNumber
<1>4. SubSeq(Padded(four, n), 1, four) = Padded(four, n)
  BY <1>3, SubSeqFull
<1>5. \A s \in Seq(Digits) : s \in Seq(Characters)
  BY CharactersAre
<1> QED BY <1>3, <1>4, <1>5 DEF four

(* Three numbers with a character between them, behind something else.     *)
ThreeRead(t, p, k, x, c, y, z) ==
    LET m == Len(p)
    IN  /\ t \in Seq(Characters) /\ Len(t) = m + k + 6
        /\ Holds(t, 0, p)
        /\ DigitsAt(t, m + 1, k) /\ NumberAt(t, m + 1, k) = Number(x)
        /\ DigitsAt(t, m + k + 2, 2) /\ NumberAt(t, m + k + 2, 2) = Number(y)
        /\ DigitsAt(t, m + k + 5, 2) /\ NumberAt(t, m + k + 5, 2) = Number(z)
        /\ t[m + k + 1] = c /\ t[m + k + 4] = c

LEMMA ThreeNumbers ==
    ASSUME NEW p \in Seq(Characters), NEW x \in Seq(Digits), NEW y \in Seq(Digits),
           NEW z \in Seq(Digits), NEW c \in Characters, NEW k, Len(x) = k,
           Len(y) = 2, Len(z) = 2
    PROVE  ThreeRead(p \o x \o <<c>> \o y \o <<c>> \o z, p, k, x, c, y, z)
<1> DEFINE m == Len(p)
           sep == <<c>>
           e1 == p \o x
           e2 == e1 \o sep
           e3 == e2 \o y
           e4 == e3 \o sep
           e5 == e4 \o z
           n1 == m + k
           n2 == n1 + 1
           n3 == n1 + 3
           n4 == n1 + 4
           Kept(a, b) == \A i \in Nat, s \in Seq(Characters) : Holds(a, i, s) => Holds(b, i, s)
<1>0. x \in Seq(Characters) /\ y \in Seq(Characters) /\ z \in Seq(Characters)
  BY CharactersAre
<1>1. /\ sep \in Seq(Characters) /\ Len(sep) = 1 /\ m \in Nat /\ k \in Nat
      /\ 0 \in Nat /\ Holds(p, 0, p) /\ m = Len(p)
  BY DEF Holds
<1>2. /\ n1 \in Nat /\ n2 \in Nat /\ n3 \in Nat /\ n4 \in Nat
      /\ n1 = m + k /\ n2 = n1 + 1 /\ n3 = n2 + 2 /\ n4 = n3 + 1 /\ m + k + 6 = n4 + 2
  BY <1>1
<1> HIDE DEF m, sep, n1, n2, n3, n4, Kept
<1>3. e1 \in Seq(Characters) /\ Len(e1) = n1 /\ Holds(e1, m, x) /\ Kept(p, e1)
  BY <1>0, <1>1, <1>2, HoldsAppended DEF Kept
<1> HIDE DEF e1
<1>4. e2 \in Seq(Characters) /\ Len(e2) = n2 /\ Holds(e2, n1, sep) /\ Kept(e1, e2)
  <2>1. /\ e2 \in Seq(Characters) /\ Len(e2) = Len(e1) + Len(sep)
        /\ Holds(e2, Len(e1), sep)
    BY <1>0, <1>1, <1>3, HoldsAppended
  <2>2. Kept(e1, e2)
    BY <1>0, <1>1, <1>3, HoldsAppended DEF Kept
  <2> HIDE DEF e2
  <2> QED BY <1>1, <1>2, <1>3, <2>1, <2>2
<1> HIDE DEF e2
<1>5. e3 \in Seq(Characters) /\ Len(e3) = n3 /\ Holds(e3, n2, y) /\ Kept(e2, e3)
  <2>1. /\ e3 \in Seq(Characters) /\ Len(e3) = Len(e2) + Len(y)
        /\ Holds(e3, Len(e2), y)
    BY <1>0, <1>1, <1>4, HoldsAppended
  <2>2. Kept(e2, e3)
    BY <1>0, <1>1, <1>4, HoldsAppended DEF Kept
  <2> HIDE DEF e3
  <2> QED BY <1>1, <1>2, <1>4, <2>1, <2>2
<1> HIDE DEF e3
<1>6. e4 \in Seq(Characters) /\ Len(e4) = n4 /\ Holds(e4, n3, sep) /\ Kept(e3, e4)
  <2>1. /\ e4 \in Seq(Characters) /\ Len(e4) = Len(e3) + Len(sep)
        /\ Holds(e4, Len(e3), sep)
    BY <1>0, <1>1, <1>5, HoldsAppended
  <2>2. Kept(e3, e4)
    BY <1>0, <1>1, <1>5, HoldsAppended DEF Kept
  <2> HIDE DEF e4
  <2> QED BY <1>1, <1>2, <1>5, <2>1, <2>2
<1> HIDE DEF e4
<1>7. e5 \in Seq(Characters) /\ Len(e5) = n4 + 2 /\ Holds(e5, n4, z) /\ Kept(e4, e5)
  <2>1. /\ e5 \in Seq(Characters) /\ Len(e5) = Len(e4) + Len(z)
        /\ Holds(e5, Len(e4), z)
    BY <1>0, <1>1, <1>6, HoldsAppended
  <2>2. Kept(e4, e5)
    BY <1>0, <1>1, <1>6, HoldsAppended DEF Kept
  <2> HIDE DEF e5
  <2> QED BY <1>1, <1>2, <1>6, <2>1, <2>2
<1> HIDE DEF e5
<1>8. Holds(e5, 0, p) /\ Holds(e5, m, x)
  BY <1>0, <1>1, <1>3, <1>4, <1>5, <1>6, <1>7 DEF Kept
<1>9. Holds(e5, n1, <<c>>) /\ Holds(e5, n2, y) /\ Holds(e5, n3, <<c>>)
  <2>1. Holds(e5, n1, sep) /\ Holds(e5, n2, y) /\ Holds(e5, n3, sep)
    BY <1>0, <1>1, <1>2, <1>4, <1>5, <1>6, <1>7 DEF Kept
  <2> QED BY <2>1 DEF sep
<1>10. DigitsAt(e5, m + 1, Len(x)) /\ NumberAt(e5, m + 1, Len(x)) = Number(x)
  BY <1>1, <1>7, <1>8, HeldDigits
<1>11. DigitsAt(e5, n2 + 1, Len(y)) /\ NumberAt(e5, n2 + 1, Len(y)) = Number(y)
  BY <1>2, <1>7, <1>9, HeldDigits
<1>12. DigitsAt(e5, n4 + 1, Len(z)) /\ NumberAt(e5, n4 + 1, Len(z)) = Number(z)
  BY <1>2, <1>7, HeldDigits
<1>13. e5[n1 + 1] = c /\ e5[n3 + 1] = c
  <2>1. n1 \in Nat /\ n3 \in Nat
    BY <1>2
  <2>2. e5[n1 + 1] = c
    BY <1>9, <2>1, HeldCharacter, ZenonT(30)
  <2>3. e5[n3 + 1] = c
    BY <1>9, <2>1, HeldCharacter, ZenonT(30)
  <2> QED BY <2>2, <2>3
<1>14. /\ n2 + 1 = m + k + 2 /\ n4 + 1 = m + k + 5
       /\ n1 + 1 = m + k + 1 /\ n3 + 1 = m + k + 4 /\ n4 + 2 = m + k + 6
  BY <1>1, <1>2
<1>15. ThreeRead(e5, p, k, x, c, y, z)
  BY <1>1, <1>7, <1>8, <1>10, <1>11, <1>12, <1>13, <1>14 DEF ThreeRead
<1>16. e5 = p \o x \o <<c>> \o y \o <<c>> \o z
  BY DEF e5, e4, e3, e2, e1, sep
<1> QED BY <1>15, <1>16

(* A date is written with dashes, behind a minus if its year is negative.  *)
LEMMA WrittenDate ==
    ASSUME NEW f \in Fields, DateValid(DateOf(f))
    PROVE  \E x \in Dates(WriteDate(f)) :
              DateOf(x) = DateOf(f) /\ Year(x) = Year(f) /\ TimeOf(x) = TimeOf(NoFields)
<1> DEFINE p == IF Year(f) < 0 THEN <<"-">> ELSE <<>>
           x == Padded(4, f.year)
           y == Padded(2, f.month)
           z == Padded(2, f.day)
           d == WriteDate(f)
           m == Len(p)
           k == Len(x)
<1>1. /\ f.year \in Nat /\ f.year \in Years /\ f.month \in Nat /\ f.day \in Nat
      /\ f.negative \in BOOLEAN
  BY FieldTypes
<1>2. f.month < 100 /\ f.day < 100
  <2>1. f.month \in 1 .. 12 /\ f.day \in 1 .. MonthDays(Year(f), f.month)
    BY DEF DateValid, DateOf
  <2>2. \A i \in 1 .. 12 : CommonMonthDays[i] \in 28 .. 31
    BY DEF CommonMonthDays
  <2>3. MonthDays(Year(f), f.month) \in 28 .. 31
    BY <2>1, <2>2 DEF MonthDays
  <2> QED BY <1>1, <2>1, <2>3
<1>3. /\ x \in Seq(Digits) /\ x \in Seq(Characters) /\ k = 4 /\ Number(x) = f.year
      /\ SubSeq(x, 1, 4) = x
  BY <1>1, FourDigits
<1>4. /\ y \in Seq(Digits) /\ y \in Seq(Characters) /\ Len(y) = 2 /\ Number(y) = f.month
      /\ z \in Seq(Digits) /\ z \in Seq(Characters) /\ Len(z) = 2 /\ Number(z) = f.day
  BY <1>1, <1>2, TwoDigits
<1>5. p \in Seq(Characters) /\ m \in Nat /\ "-" \in Characters
  BY CharactersAre
<1>6. d = p \o x \o <<"-">> \o y \o <<"-">> \o z
  BY <1>3 DEF WriteDate
<1>7. m = Len(p)
  OBVIOUS
<1> HIDE DEF p, x, y, z, d, m, k
<1>8. ThreeRead(d, p, k, x, "-", y, z)
  <2>1. Len(x) = k
    BY DEF k
  <2>2. ThreeRead(p \o x \o <<"-">> \o y \o <<"-">> \o z, p, k, x, "-", y, z)
    BY <1>3, <1>4, <1>5, <2>1, ThreeNumbers
  <2> QED BY <1>6, <2>2
<1>9. d \in Seq(Characters) /\ Len(d) = m + k + 6 /\ Holds(d, 0, p)
  BY <1>7, <1>8 DEF ThreeRead
<1>10. /\ DigitsAt(d, m + 1, k) /\ NumberAt(d, m + 1, k) = f.year
       /\ DigitsAt(d, m + k + 2, 2) /\ NumberAt(d, m + k + 2, 2) = f.month
       /\ DigitsAt(d, m + k + 5, 2) /\ NumberAt(d, m + k + 5, 2) = f.day
       /\ d[m + k + 1] = "-" /\ d[m + k + 4] = "-"
  BY <1>3, <1>4, <1>7, <1>8 DEF ThreeRead
<1>11. ASSUME NEW form \in DateForms, HasForm(d, form),
              NumberOf("year", d, form) = f.year, NumberOf("month", d, form) = f.month,
              NumberOf("day", d, form) = f.day, form[1] = "-" <=> Year(f) < 0
       PROVE  \E v \in Dates(d) :
                 DateOf(v) = DateOf(f) /\ Year(v) = Year(f) /\ TimeOf(v) = TimeOf(NoFields)
  <2> DEFINE v == DateIn(d, form)
  <2>1. /\ v.year = f.year /\ v.month = f.month /\ v.day = f.day
        /\ v.hour = 0 /\ v.min = 0 /\ v.sec = 0 /\ v.micros = 0
    BY <1>11 DEF DateIn
  <2>2. v.negative = (form[1] = "-")
    BY DEF DateIn
  <2>3. TimeOf(v) = TimeOf(NoFields)
    BY <2>1 DEF TimeOf, NoFields
  <2> HIDE DEF v
  <2>4. Year(v) = Year(f)
    <3>1. CASE Year(f) < 0
      <4>1. v.negative = TRUE
        BY <1>11, <2>2, <3>1
      <4>2. Year(v) = -f.year
        BY <2>1, <4>1 DEF Year
      <4>3. f.negative
        BY <1>1, <3>1 DEF Year
      <4> QED BY <4>2, <4>3 DEF Year
    <3>2. CASE ~(Year(f) < 0)
      <4>1. v.negative = FALSE
        BY <1>11, <2>2, <3>2
      <4>2. Year(v) = f.year
        BY <2>1, <4>1 DEF Year
      <4>3. Year(f) = f.year
        <5>1. CASE f.negative
          <6> DEFINE n == f.year
          <6>1. Year(f) = -n /\ n \in Nat
            BY <1>1, <5>1 DEF Year
          <6> HIDE DEF n
          <6>2. ~(-n < 0)
            BY <3>2, <6>1
          <6>3. -n = n
            BY <6>1, <6>2
          <6> QED BY <6>1, <6>3 DEF n
        <5>2. CASE ~f.negative
          BY <5>2 DEF Year
        <5> QED BY <5>1, <5>2
      <4> QED BY <4>2, <4>3
    <3> QED BY <3>1, <3>2
  <2>5. DateOf(v) = DateOf(f)
    BY <2>1, <2>4 DEF DateOf
  <2>6. v \in Dates(d)
    BY <1>11, <2>5 DEF Dates, v
  <2> QED BY <2>3, <2>4, <2>5, <2>6
<1>12. CASE Year(f) < 0
  <2>1. m = 1 /\ p = <<"-">>
    BY <1>7, <1>12 DEF p
  <2>2. d[1] = "-"
    <3>1. Holds(d, 0, <<"-">>) /\ 0 \in Nat /\ 0 + 1 = 1
      BY <1>9, <2>1
    <3>2. d[0 + 1] = "-"
      BY <3>1, HeldCharacter, Zenon
    <3> QED BY <3>1, <3>2
  <2>3. /\ m + 1 = 2 /\ m + k + 2 = 7 /\ m + k + 5 = 10
        /\ m + k + 1 = 6 /\ m + k + 4 = 9 /\ m + k + 6 = 11
    BY <1>3, <2>1
  <2>4. /\ DigitsAt(d, 2, 4) /\ NumberAt(d, 2, 4) = f.year
        /\ DigitsAt(d, 7, 2) /\ NumberAt(d, 7, 2) = f.month
        /\ DigitsAt(d, 10, 2) /\ NumberAt(d, 10, 2) = f.day
        /\ d[6] = "-" /\ d[9] = "-" /\ Len(d) = 11
    BY <1>3, <1>9, <1>10, <2>3
  <2>5. \A i \in (2 .. 5) \cup (7 .. 8) \cup (10 .. 11) : d[i] \in Digits
    BY <2>4 DEF DigitsAt
  <2>6. HasForm(d, BothForm)
    BY <1>9, <2>2, <2>4, <2>5, BothDate
  <2>7. BothForm[1] = "-" /\ NumberOf("year", d, BothForm) = f.year
    BY <1>9, <2>4, BothDate
  <2>8. /\ NumberOf("month", d, BothForm) = f.month
        /\ NumberOf("day", d, BothForm) = f.day
    BY <1>9, <2>4, BothDate
  <2>9. BothForm \in DateForms
    BY DateFormsAre
  <2> HIDE DEF d
  <2>10. \E v \in Dates(d) :
            DateOf(v) = DateOf(f) /\ Year(v) = Year(f) /\ TimeOf(v) = TimeOf(NoFields)
    BY <1>11, <1>12, <2>6, <2>7, <2>8, <2>9
  <2> QED BY <2>10 DEF d
<1>13. CASE ~(Year(f) < 0)
  <2>1. m = 0
    BY <1>7, <1>13 DEF p
  <2>3. /\ m + 1 = 1 /\ m + k + 2 = 6 /\ m + k + 5 = 9
        /\ m + k + 1 = 5 /\ m + k + 4 = 8 /\ m + k + 6 = 10
    BY <1>3, <2>1
  <2>4. /\ DigitsAt(d, 1, 4) /\ NumberAt(d, 1, 4) = f.year
        /\ DigitsAt(d, 6, 2) /\ NumberAt(d, 6, 2) = f.month
        /\ DigitsAt(d, 9, 2) /\ NumberAt(d, 9, 2) = f.day
        /\ d[5] = "-" /\ d[8] = "-" /\ Len(d) = 10
    BY <1>3, <1>9, <1>10, <2>3
  <2>5. \A i \in (1 .. 4) \cup (6 .. 7) \cup (9 .. 10) : d[i] \in Digits
    BY <2>4 DEF DigitsAt
  <2>6. HasForm(d, DashForm)
    BY <1>9, <2>4, <2>5, DashDate
  <2>7. DashForm[1] # "-" /\ NumberOf("year", d, DashForm) = f.year
    BY <1>9, <2>4, DashDate
  <2>8. /\ NumberOf("month", d, DashForm) = f.month
        /\ NumberOf("day", d, DashForm) = f.day
    BY <1>9, <2>4, DashDate
  <2>9. DashForm \in DateForms
    BY DateFormsAre
  <2>10. \E v \in Dates(d) :
            DateOf(v) = DateOf(f) /\ Year(v) = Year(f) /\ TimeOf(v) = TimeOf(NoFields)
    BY <1>11, <1>13, <2>6, <2>7, <2>8, <2>9
  <2> QED BY <2>10 DEF d
<1> QED BY <1>12, <1>13

(* The fraction is written with the digits of a milli or with all of them. *)
LEMMA WrittenFraction ==
    ASSUME NEW n \in Nat, n < MicrosPerSecond, n # 0
    PROVE  \E g \in Seq(Digits) :
              /\ WriteFraction(n) = <<".">> \o g
              /\ Len(g) \in 1 .. NanoDigits /\ Number(Cut(g)) = n
<1> DEFINE P == PrefixDigits
           T == Power10[PrefixDigits]
           Q == 2 * P
<1>1. /\ P \in Nat /\ P >= 1 /\ Q \in Nat /\ Q = P + P /\ NanoDigits = Q + P
      /\ P \in 1 .. NanoDigits /\ Q \in 1 .. NanoDigits
  BY Constants DEF NanoDigits
<1>2. T \in Nat /\ T >= 1
  BY Constants, Power10IsPositive
<1>3. MicrosPerMilli = T /\ MicrosPerSecond = T * T
  BY TextAssumption DEF MicrosPerSecond
<1>4. Power10[Q] = T * T
  <2>1. Power10[P + P] = Power10[P] * Power10[P]
    BY <1>1, Power10Adds
  <2> QED BY <1>1, <2>1
<1>5. \A g \in Seq(Digits) :
         Len(g) <= NanoDigits =>
           (Number(g) * Power10[NanoDigits - Len(g)]) \div T = Number(Cut(g))
  BY MicrosAreCut
<1> HIDE DEF P, Q, T
<1>6. CASE n % T = 0
  <2> DEFINE m == n \div T
             g == Padded(P, m)
  <2>1. n = T * m /\ m \in Nat
    <3>1. \A a, b \in Nat : b >= 1 /\ a % b = 0 => a = b * (a \div b) /\ a \div b \in Nat
      OBVIOUS
    <3> QED BY <1>2, <1>6, <3>1
  <2>2. WriteFraction(n) = <<".">> \o g
    BY <1>3, <1>6 DEF WriteFraction, P
  <2> HIDE DEF m
  <2>3. m < T
    <3>1. T * m < T * T
      BY <1>3, <2>1
    <3>2. \A a, b \in Nat : ~(a < b) => b * a >= b * b
      <4>1. \A a, b, c \in Nat : a = b + c => b * a = b * b + b * c /\ b * c \in Nat /\ b * b \in Nat
        OBVIOUS
      <4>2. \A a, b \in Nat : ~(a < b) => a - b \in Nat /\ a = b + (a - b)
        OBVIOUS
      <4>3. \A x, y \in Nat : x + y >= x
        OBVIOUS
      <4> QED
        <5> SUFFICES ASSUME NEW a \in Nat, NEW b \in Nat, ~(a < b) PROVE b * a >= b * b
          OBVIOUS
        <5> DEFINE c == a - b
        <5>1. c \in Nat /\ a = b + c
          BY <4>2
        <5> HIDE DEF c
        <5>2. b * a = b * b + b * c /\ b * c \in Nat /\ b * b \in Nat
          BY <4>1, <5>1
        <5> QED BY <4>3, <5>2
    <3>3. \A x, y \in Nat : x < y => ~(x >= y)
      OBVIOUS
    <3>4. T * m \in Nat /\ T * T \in Nat
      BY <1>2, <2>1
    <3> QED BY <1>2, <2>1, <3>1, <3>2, <3>3, <3>4
  <2>4. m < Power10[P]
    BY <2>3 DEF P, T
  <2>5. g \in Seq(Digits) /\ Len(g) = P /\ Number(g) = m
    BY <1>1, <2>1, <2>4, PaddedIsTheNumber
  <2> HIDE DEF g
  <2>6. NanoDigits - Len(g) = Q /\ Len(g) <= NanoDigits
    BY <1>1, <2>5
  <2>7. (m * (T * T)) \div T = Number(Cut(g))
    BY <1>4, <1>5, <2>5, <2>6
  <2>8. (m * (T * T)) \div T = n
    <3>1. m * (T * T) = (T * m) * T
      BY <1>2, <2>1
    <3>2. \A x, y \in Nat : y >= 1 => (x * y) \div y = x
      OBVIOUS
    <3> QED BY <1>2, <2>1, <3>1, <3>2
  <2> QED BY <1>1, <2>2, <2>5, <2>7, <2>8
<1>7. CASE n % T # 0
  <2> DEFINE g == Padded(Q, n)
  <2>1. WriteFraction(n) = <<".">> \o g
    BY <1>3, <1>7 DEF WriteFraction, P, Q
  <2>2. n < Power10[Q]
    BY <1>3, <1>4
  <2>3. g \in Seq(Digits) /\ Len(g) = Q /\ Number(g) = n
    BY <1>1, <2>2, PaddedIsTheNumber
  <2> HIDE DEF g
  <2>4. NanoDigits - Len(g) = P /\ Len(g) <= NanoDigits
    BY <1>1, <2>3
  <2>5. (n * Power10[P]) \div T = Number(Cut(g))
    BY <1>5, <2>3, <2>4
  <2>6. (n * T) \div T = n
    <3>1. \A x, y \in Nat : y >= 1 => (x * y) \div y = x
      OBVIOUS
    <3> QED BY <1>2, <3>1
  <2> QED BY <1>1, <2>1, <2>3, <2>5, <2>6 DEF P, T
<1> QED BY <1>6, <1>7

LEMMA AppendedIsRead ==
    ASSUME NEW a \in Seq(Characters), NEW b \in Seq(Characters),
           NEW i \in Nat \ {0}, NEW k \in Nat, DigitsAt(a, i, k)
    PROVE  DigitsAt(a \o b, i, k) /\ NumberAt(a \o b, i, k) = NumberAt(a, i, k)
<1> DEFINE c == a \o b
           j == i + k - 1
           u == SubSeq(a, i, j)
           v == SubSeq(c, i, j)
<1>1. /\ c \in Seq(Characters) /\ Len(c) = Len(a) + Len(b)
      /\ \A n \in 1 .. Len(a) : c[n] = a[n]
  BY ConcatElements
<1> HIDE DEF c
<1>2. j \in Nat /\ j <= Len(a) /\ j <= Len(c) /\ Len(a) \in Nat /\ j = i + k - 1
  BY <1>1 DEF DigitsAt
<1>3. \A n \in i .. j : n \in 1 .. Len(a)
  BY <1>2
<1>4. DigitsAt(c, i, k)
  BY <1>1, <1>2, <1>3 DEF DigitsAt
<1>5. u \in Seq(Characters) /\ Len(u) = k /\ \A n \in 1 .. k : u[n] = a[i + n - 1]
  BY <1>2
<1>6. v \in Seq(Characters) /\ Len(v) = k /\ \A n \in 1 .. k : v[n] = c[i + n - 1]
  BY <1>1, <1>2
<1>7. \A n \in 1 .. k : i + n - 1 \in 1 .. Len(a)
  BY <1>2
<1> HIDE DEF u, v
<1>8. u = v
  <2>1. Len(u) = Len(v) /\ \A n \in 1 .. Len(u) : u[n] = v[n]
    BY <1>1, <1>5, <1>6, <1>7
  <2> QED BY <1>5, <1>6, <2>1, SeqEqual
<1> QED BY <1>4, <1>8 DEF NumberAt, u, v, c, j

(* A time is written with its seconds, and with a fraction if it has one.  *)
LEMMA WrittenTime ==
    ASSUME NEW f \in Fields, TimeValid(TimeOf(f))
    PROVE  /\ WriteTime(f) \in Seq(Characters)
           /\ \E u \in Times(WriteTime(f), 1) : TimeOf(u) = TimeOf(f)
<1> DEFINE x == Padded(2, f.hour)
           y == Padded(2, f.min)
           z == Padded(2, f.sec)
           d == x \o <<":">> \o y \o <<":">> \o z
           F == WriteFraction(f.micros)
           t == WriteTime(f)
<1>1. f.hour \in Nat /\ f.min \in Nat /\ f.sec \in Nat /\ f.micros \in Nat
  BY FieldTypes
<1>2. f.hour < 100 /\ f.min < 100 /\ f.sec < 100 /\ f.micros < MicrosPerSecond
  <2>1. /\ f.hour < HoursPerDay /\ f.min < MinutesPerHour
        /\ f.sec < SecondsPerMinute /\ f.micros < MicrosPerSecond
    BY DEF TimeValid, TimeOf
  <2>2. HoursPerDay \in 1 .. 100 /\ MinutesPerHour \in 1 .. 100 /\ SecondsPerMinute \in 1 .. 100
    BY TextAssumption, PowersOfTen
  <2> QED BY <1>1, <2>1, <2>2
<1>3. /\ x \in Seq(Digits) /\ Len(x) = 2 /\ Number(x) = f.hour
      /\ y \in Seq(Digits) /\ Len(y) = 2 /\ Number(y) = f.min
      /\ z \in Seq(Digits) /\ Len(z) = 2 /\ Number(z) = f.sec
  BY <1>1, <1>2, TwoDigits
<1>4. t = d \o F
  BY DEF WriteTime
<1> HIDE DEF x, y, z, F, t
<1>5. ThreeRead(d, <<>>, 2, x, ":", y, z)
  <2>1. <<>> \in Seq(Characters) /\ ":" \in Characters
    BY CharactersAre
  <2>2. ThreeRead(<<>> \o x \o <<":">> \o y \o <<":">> \o z, <<>>, 2, x, ":", y, z)
    BY <1>3, <2>1, ThreeNumbers
  <2>3. <<>> \o x = x
    BY <1>3, ConcatEmptySeq
  <2> QED BY <2>2, <2>3
<1> HIDE DEF d
<1>6. /\ d \in Seq(Characters) /\ Len(d) = 8
      /\ DigitsAt(d, 1, 2) /\ NumberAt(d, 1, 2) = f.hour
      /\ DigitsAt(d, 4, 2) /\ NumberAt(d, 4, 2) = f.min
      /\ DigitsAt(d, 7, 2) /\ NumberAt(d, 7, 2) = f.sec
      /\ d[3] = ":" /\ d[6] = ":"
  <2> DEFINE m == Len(<<>>)
  <2>1. m = 0
    OBVIOUS
  <2> HIDE DEF m
  <2>2. /\ d \in Seq(Characters) /\ Len(d) = m + 2 + 6
        /\ DigitsAt(d, m + 1, 2) /\ NumberAt(d, m + 1, 2) = Number(x)
        /\ DigitsAt(d, m + 2 + 2, 2) /\ NumberAt(d, m + 2 + 2, 2) = Number(y)
        /\ DigitsAt(d, m + 2 + 5, 2) /\ NumberAt(d, m + 2 + 5, 2) = Number(z)
        /\ d[m + 2 + 1] = ":" /\ d[m + 2 + 4] = ":"
    BY <1>5 DEF ThreeRead, m
  <2>3. /\ m + 1 = 1 /\ m + 2 + 2 = 4 /\ m + 2 + 5 = 7 /\ m + 2 + 1 = 3
        /\ m + 2 + 4 = 6 /\ m + 2 + 6 = 8
    BY <2>1
  <2> QED BY <1>3, <2>2, <2>3
<1>7. ASSUME NEW form \in TimeForms(1), HasForm(t, form),
             NumberOf("hour", t, form) = f.hour, NumberOf("min", t, form) = f.min,
             NumberOf("sec", t, form) = f.sec,
             Number(Cut(DigitsOf("micros", t, form))) = f.micros
      PROVE  \E u \in Times(t, 1) : TimeOf(u) = TimeOf(f)
  <2> DEFINE u == TimeIn(t, form)
  <2>1. u.hour = f.hour /\ u.min = f.min /\ u.sec = f.sec /\ u.micros = f.micros
    BY <1>7 DEF TimeIn
  <2> HIDE DEF u
  <2>2. TimeOf(u) = TimeOf(f)
    BY <2>1 DEF TimeOf
  <2>3. u \in Times(t, 1)
    BY <1>7, <2>2 DEF Times, u
  <2> QED BY <2>2, <2>3
<1>8. CASE f.micros = 0
  <2>1. t = d
    <3>1. F = <<>>
      BY <1>8 DEF WriteFraction, F
    <3> QED BY <1>4, <1>6, <3>1, ConcatEmptySeq
  <2>2. \A i \in (1 .. 2) \cup (4 .. 5) \cup (7 .. 8) : d[i] \in Digits
    BY <1>6 DEF DigitsAt
  <2>3. HasForm(d, Seconds)
    BY <1>6, <2>2, SecondsTime
  <2>4. /\ NumberOf("hour", d, Seconds) = f.hour /\ NumberOf("min", d, Seconds) = f.min
        /\ NumberOf("sec", d, Seconds) = f.sec /\ DigitsOf("micros", d, Seconds) = <<>>
    BY <1>6, SecondsTime
  <2>5. Number(Cut(DigitsOf("micros", d, Seconds))) = f.micros
    BY <1>8, <2>4, CutOfNoDigits
  <2>6. Seconds \in TimeForms(1)
    BY DEF TimeForms
  <2> QED BY <1>6, <1>7, <2>1, <2>3, <2>4, <2>5, <2>6 DEF t
<1>9. CASE f.micros # 0
  <2>1. PICK g \in Seq(Digits) :
           F = <<".">> \o g /\ Len(g) \in 1 .. NanoDigits /\ Number(Cut(g)) = f.micros
    BY <1>1, <1>2, <1>9, WrittenFraction DEF F
  <2> DEFINE n == Len(g)
             dot == <<".">>
             e == dot \o g
  <2>2. n \in Nat /\ n \in 1 .. NanoDigits /\ n # 0
    BY <2>1
  <2>3. g \in Seq(Characters) /\ dot \in Seq(Characters) /\ Len(dot) = 1 /\ dot[1] = "."
    BY CharactersAre
  <2> HIDE DEF dot
  <2>4. /\ e \in Seq(Characters) /\ Len(e) = 1 + n
        /\ e[1] = "." /\ \A i \in 1 .. n : e[1 + i] = g[i]
    <3>1. /\ e \in Seq(Characters) /\ Len(e) = Len(dot) + Len(g)
          /\ \A i \in 1 .. Len(dot) : e[i] = dot[i]
          /\ \A i \in Len(dot) + 1 .. Len(dot) + Len(g) : e[i] = g[i - Len(dot)]
      BY <2>3, ConcatElements
    <3> HIDE DEF e
    <3>2. \A i \in 1 .. n : 1 + i \in 1 + 1 .. 1 + n /\ (1 + i) - 1 = i
      BY <2>2
    <3> QED BY <2>2, <2>3, <3>1, <3>2
  <2>5. t = d \o e
    BY <1>4, <2>1 DEF e, dot
  <2> HIDE DEF e
  <2>6. /\ t \in Seq(Characters) /\ Len(t) = 9 + n
        /\ \A i \in 1 .. 8 : t[i] = d[i]
        /\ t[9] = "." /\ \A i \in 1 .. n : t[9 + i] = g[i]
    <3>1. /\ t \in Seq(Characters) /\ Len(t) = Len(d) + Len(e)
          /\ \A i \in 1 .. Len(d) : t[i] = d[i]
          /\ \A i \in Len(d) + 1 .. Len(d) + Len(e) : t[i] = e[i - Len(d)]
      <4> DEFINE c == d \o e
      <4>1. /\ c \in Seq(Characters) /\ Len(c) = Len(d) + Len(e)
            /\ \A i \in 1 .. Len(d) : c[i] = d[i]
            /\ \A i \in Len(d) + 1 .. Len(d) + Len(e) : c[i] = e[i - Len(d)]
        <5>1. d \in Seq(Characters) /\ e \in Seq(Characters)
          BY <1>6, <2>4
        <5> QED BY <5>1, ConcatElements
      <4> HIDE DEF c
      <4>2. t = c
        BY <2>5 DEF c
      <4> QED BY <4>1, <4>2
    <3>2. t[9] = e[1]
      BY <1>6, <2>2, <2>4, <3>1
    <3>3. ASSUME NEW i \in 1 .. n PROVE t[9 + i] = g[i]
      <4>1. Len(d) = 8 /\ Len(e) = 1 + n
        BY <1>6, <2>4
      <4>2. 9 + i \in Len(d) + 1 .. Len(d) + Len(e) /\ (9 + i) - Len(d) = 1 + i
        <5>1. 9 + i \in 8 + 1 .. 8 + (1 + n) /\ (9 + i) - 8 = 1 + i
          BY <2>2
        <5> QED BY <4>1, <5>1
      <4>3. t[9 + i] = e[(9 + i) - Len(d)]
        BY <3>1, <4>2
      <4>4. e[1 + i] = g[i]
        BY <2>4
      <4> QED BY <4>2, <4>3, <4>4
    <3> QED BY <1>6, <2>2, <2>4, <3>1, <3>2, <3>3
  <2>7. /\ NumberAt(t, 1, 2) = f.hour /\ NumberAt(t, 4, 2) = f.min
        /\ NumberAt(t, 7, 2) = f.sec
    <3> DEFINE i1 == 1
               i4 == 4
               i7 == 7
               two == 2
    <3>1. /\ i1 \in Nat \ {0} /\ i4 \in Nat \ {0} /\ i7 \in Nat \ {0} /\ two \in Nat
          /\ DigitsAt(d, i1, two) /\ DigitsAt(d, i4, two) /\ DigitsAt(d, i7, two)
      BY <1>6
    <3> HIDE DEF i1, i4, i7, two
    <3>2. /\ NumberAt(d \o e, i1, two) = NumberAt(d, i1, two)
          /\ NumberAt(d \o e, i4, two) = NumberAt(d, i4, two)
          /\ NumberAt(d \o e, i7, two) = NumberAt(d, i7, two)
      BY <1>6, <2>4, <3>1, AppendedIsRead
    <3> QED BY <1>6, <2>5, <3>2 DEF i1, i4, i7, two
  <2>8. /\ \A i \in (1 .. 2) \cup (4 .. 5) \cup (7 .. 8) : t[i] \in Digits
        /\ t[3] = ":" /\ t[6] = ":"
    <3>1. \A i \in (1 .. 2) \cup (4 .. 5) \cup (7 .. 8) : d[i] \in Digits
      BY <1>6 DEF DigitsAt
    <3> QED BY <1>6, <2>6, <3>1
  <2>9. \A i \in 10 .. 9 + n : t[i] \in Digits
    <3> SUFFICES ASSUME NEW i \in 10 .. 9 + n PROVE t[i] \in Digits
      OBVIOUS
    <3>1. i - 9 \in 1 .. n /\ 9 + (i - 9) = i
      BY <2>2
    <3>2. g[i - 9] \in Digits
      BY <3>1
    <3> QED BY <2>6, <3>1, <3>2
  <2>10. HasForm(t, WithFraction(n))
    BY <2>2, <2>6, <2>8, <2>9, FractionTime
  <2>11. /\ NumberOf("hour", t, WithFraction(n)) = f.hour
         /\ NumberOf("min", t, WithFraction(n)) = f.min
         /\ NumberOf("sec", t, WithFraction(n)) = f.sec
         /\ DigitsOf("micros", t, WithFraction(n)) = SubSeq(t, 10, 9 + n)
    BY <2>2, <2>6, <2>7, FractionTime
  <2>12. SubSeq(t, 10, 9 + n) = g
    <3> DEFINE v == SubSeq(t, 10, 9 + n)
    <3>1. v \in Seq(Characters) /\ Len(v) = n /\ \A i \in 1 .. n : v[i] = t[9 + i]
      BY <2>2, <2>6
    <3> HIDE DEF v
    <3>2. Len(v) = Len(g) /\ \A i \in 1 .. Len(v) : v[i] = g[i]
      BY <2>6, <3>1
    <3>3. v = g
      BY <2>3, <3>1, <3>2, SeqEqual
    <3> QED BY <3>3 DEF v
  <2>13. WithFraction(n) \in TimeForms(1)
    BY <2>2 DEF TimeForms
  <2>14. Number(Cut(DigitsOf("micros", t, WithFraction(n)))) = f.micros
    BY <2>1, <2>11, <2>12
  <2>15. \E u \in Times(t, 1) : TimeOf(u) = TimeOf(f)
    BY <1>7, <2>10, <2>11, <2>13, <2>14
  <2> QED BY <2>6, <2>15 DEF t
<1> QED BY <1>8, <1>9

LEMMA HeldPart ==
    ASSUME NEW t \in Seq(Characters), NEW i \in Nat, NEW s \in Seq(Characters), Holds(t, i, s)
    PROVE  SubSeq(t, i + 1, i + Len(s)) = s
<1> DEFINE k == Len(s)
           u == SubSeq(t, i + 1, i + k)
<1>1. k \in Nat /\ i + k <= Len(t) /\ \A j \in 1 .. k : t[i + j] = s[j]
  BY DEF Holds
<1>2. u \in Seq(Characters) /\ Len(u) = k /\ \A j \in 1 .. k : u[j] = t[i + j]
  <2> HIDE DEF k
  <2> QED BY <1>1
<1> HIDE DEF u
<1>3. Len(u) = Len(s) /\ \A j \in 1 .. Len(u) : u[j] = s[j]
  BY <1>1, <1>2
<1>4. u = s
  BY <1>2, <1>3, SeqEqual
<1> QED BY <1>4 DEF u

(* A date and a time are found again between the T and the zone.           *)
LEMMA PartsOfADateTime ==
    ASSUME NEW d \in Seq(Characters), NEW w \in Seq(Characters)
    PROVE  \E c \in Cuts(d \o <<"T">> \o w \o <<"Z">>) :
              /\ SubSeq(d \o <<"T">> \o w \o <<"Z">>, 1, c[1] - 1) = d
              /\ SubSeq(d \o <<"T">> \o w \o <<"Z">>, c[1] + 1, c[2]) = w
<1> DEFINE T == <<"T">>
           Z == <<"Z">>
           e1 == d \o T
           e2 == e1 \o w
           t == e2 \o Z
           n == Len(d)
           k == Len(w)
           c == <<n + 1, n + 1 + k>>
<1>1. T \in Seq(Characters) /\ Len(T) = 1 /\ Z \in Seq(Characters) /\ Len(Z) = 1
  BY CharactersAre
<1>2. n \in Nat /\ k \in Nat /\ n = Len(d) /\ k = Len(w)
  OBVIOUS
<1> DEFINE Kept(a, b) == \A i \in Nat, s \in Seq(Characters) : Holds(a, i, s) => Holds(b, i, s)
<1>3. Holds(d, 0, d) /\ 0 \in Nat
  BY DEF Holds
<1> HIDE DEF T, Z, n, k, Kept
<1>4. e1 \in Seq(Characters) /\ Len(e1) = n + 1 /\ Holds(e1, n, T) /\ Kept(d, e1)
  <2>1. e1 \in Seq(Characters) /\ Len(e1) = Len(d) + Len(T) /\ Holds(e1, Len(d), T)
    BY <1>1, HoldsAppended
  <2>2. Kept(d, e1)
    BY <1>1, HoldsAppended DEF Kept
  <2> HIDE DEF e1
  <2> QED BY <1>1, <1>2, <2>1, <2>2
<1> HIDE DEF e1
<1>5. e2 \in Seq(Characters) /\ Len(e2) = n + 1 + k /\ Holds(e2, n + 1, w) /\ Kept(e1, e2)
  <2>1. e2 \in Seq(Characters) /\ Len(e2) = Len(e1) + Len(w) /\ Holds(e2, Len(e1), w)
    BY <1>4, HoldsAppended
  <2>2. Kept(e1, e2)
    BY <1>4, HoldsAppended DEF Kept
  <2> HIDE DEF e2
  <2> QED BY <1>2, <1>4, <2>1, <2>2
<1> HIDE DEF e2
<1>6. t \in Seq(Characters) /\ Len(t) = n + 2 + k /\ Holds(t, n + 1 + k, Z) /\ Kept(e2, t)
  <2>1. t \in Seq(Characters) /\ Len(t) = Len(e2) + Len(Z) /\ Holds(t, Len(e2), Z)
    BY <1>1, <1>5, HoldsAppended
  <2>2. Kept(e2, t)
    BY <1>1, <1>5, HoldsAppended DEF Kept
  <2> HIDE DEF t
  <2> QED BY <1>1, <1>2, <1>5, <2>1, <2>2
<1> HIDE DEF t
<1>7. n + 1 \in Nat /\ n + 1 + k \in Nat
  BY <1>2
<1>8. Holds(t, 0, d) /\ Holds(t, n, T) /\ Holds(t, n + 1, w)
  BY <1>1, <1>2, <1>3, <1>4, <1>5, <1>6, <1>7 DEF Kept
<1>9. SubSeq(t, 1, n) = d
  <2> DEFINE zero == 0
  <2>1. zero \in Nat /\ Holds(t, zero, d)
    BY <1>8
  <2> HIDE DEF zero
  <2>2. SubSeq(t, zero + 1, zero + n) = d
    BY <1>2, <1>6, <2>1, HeldPart
  <2>3. zero + 1 = 1 /\ zero + n = n
    BY <1>2 DEF zero
  <2> QED BY <2>2, <2>3
<1>10. SubSeq(t, n + 2, n + 1 + k) = w
  <2> DEFINE m == n + 1
  <2>1. m \in Nat /\ Holds(t, m, w) /\ m + 1 = n + 2 /\ m + k = n + 1 + k
    BY <1>2, <1>8
  <2> HIDE DEF m
  <2>2. SubSeq(t, m + 1, m + k) = w
    BY <1>2, <1>6, <2>1, HeldPart
  <2> QED BY <2>1, <2>2
<1>11. SubSeq(t, n + 2 + k, Len(t)) = Z
  <2> DEFINE m == n + 1 + k
  <2>1. m \in Nat /\ Holds(t, m, Z) /\ m + 1 = n + 2 + k /\ m + 1 = Len(t)
    BY <1>2, <1>6
  <2> HIDE DEF m
  <2>2. SubSeq(t, m + 1, m + Len(Z)) = Z
    BY <1>1, <1>6, <2>1, HeldPart
  <2> QED BY <1>1, <2>1, <2>2
<1>12. t[n + 1] = "T"
  BY <1>2, <1>8, HeldCharacter DEF T
<1>13. c[1] = n + 1 /\ c[2] = n + 1 + k
  OBVIOUS
<1> HIDE DEF c
<1>14. c \in Cuts(t)
  <2>1. n + 1 \in DOMAIN t
    BY <1>2, <1>6
  <2>2. n + 1 + k = Len(t) - 1 /\ n + 1 <= n + 1 + k /\ n + 1 + k + 1 = n + 2 + k
    BY <1>2, <1>6
  <2>3. c \in {i \in DOMAIN t : t[i] = "T"} \X {Len(t) - 1, Len(t) - 6}
    BY <1>12, <2>1, <2>2 DEF c
  <2>4. SubSeq(t, c[2] + 1, Len(t)) \in Zones
    BY <1>11, <1>13, <2>2 DEF Z, Zones
  <2> QED BY <1>13, <2>2, <2>3, <2>4 DEF Cuts
<1>15. c[1] - 1 = n /\ c[1] + 1 = n + 2
  BY <1>2, <1>13
<1>16. SubSeq(t, 1, c[1] - 1) = d /\ SubSeq(t, c[1] + 1, c[2]) = w
  BY <1>9, <1>10, <1>13, <1>15
<1>17. t = d \o <<"T">> \o w \o <<"Z">>
  BY DEF t, e2, e1, T, Z
<1> QED BY <1>14, <1>16, <1>17

LEMMA WrittenDateTime ==
    ASSUME NEW f \in Fields, DateValid(DateOf(f)), Year(f) >= FirstYear, TimeValid(TimeOf(f))
    PROVE  \E v \in DateTimes(WriteDate(f) \o <<"T">> \o WriteTime(f) \o <<"Z">>) :
              DateOf(v) = DateOf(f) /\ TimeOf(v) = TimeOf(f)
<1> DEFINE d == WriteDate(f)
           w == WriteTime(f)
           t == d \o <<"T">> \o w \o <<"Z">>
<1>1. PICK x \in Dates(d) : DateOf(x) = DateOf(f) /\ Year(x) = Year(f)
  BY WrittenDate
<1>2. PICK u \in Times(w, 1) : TimeOf(u) = TimeOf(f)
  BY WrittenTime
<1>3. w \in Seq(Characters)
  BY WrittenTime
<1>4. d \in Seq(Characters)
  BY PartsAreCharacters
<1>5. u \in Times(w, 0)
  <2>1. TimeForms(1) \subseteq TimeForms(0)
    BY Constants DEF TimeForms
  <2> QED BY <1>2, <2>1 DEF Times
<1> HIDE DEF d, w
<1>6. PICK c \in Cuts(t) : SubSeq(t, 1, c[1] - 1) = d /\ SubSeq(t, c[1] + 1, c[2]) = w
  BY <1>3, <1>4, PartsOfADateTime
<1> HIDE DEF t
<1>7. Both(x, u) \in DateTimes(t)
  <2> DEFINE Ds(b) == {y \in Dates(SubSeq(t, 1, b[1] - 1)) : Year(y) >= FirstYear}
             Us(b) == Times(SubSeq(t, b[1] + 1, b[2]), 0)
  <2>1. x \in Ds(c) /\ u \in Us(c)
    BY <1>1, <1>5, <1>6
  <2>2. DateTimes(t) = UNION {{Both(y, v) : y \in Ds(b), v \in Us(b)} : b \in Cuts(t)}
    BY DEF DateTimes
  <2> HIDE DEF Ds, Us
  <2> QED BY <2>1, <2>2
<1>8. DateOf(Both(x, u)) = DateOf(x)
  <2> DEFINE b == Both(x, u)
  <2>1. b.negative = x.negative /\ b.year = x.year /\ b.month = x.month /\ b.day = x.day
    BY DEF Both
  <2> HIDE DEF b
  <2>2. DateOf(b) = DateOf(x)
    BY <2>1 DEF DateOf, Year
  <2> QED BY <2>2 DEF b
<1>9. TimeOf(Both(x, u)) = TimeOf(u)
  BY DEF Both, TimeOf
<1> QED BY <1>1, <1>2, <1>7, <1>8, <1>9 DEF t, d, w

(* What fields read back as: themselves, or a DateTime of the next day.    *)
ReadsBack(k, f, v) ==
    /\ TimeOf(v) = TimeOf(f)
    /\ IF k = "datetime" /\ DateIsLate(Instant(f))
         THEN Instant(v) = Instant(f) + MicrosPerDay
         ELSE DateOf(v) = DateOf(f)

LEMMA WrittenIsRead ==
    ASSUME NEW k \in Kinds, NEW f \in Fields, Writable(k, f)
    PROVE  \E v \in Readings(k, Write(k, f)) : ReadsBack(k, f, v)
<1>1. CASE k = "date"
  <2>1. DateValid(DateOf(f)) /\ TimeOf(f) = TimeOf(NoFields)
    BY <1>1 DEF Writable
  <2>2. \E x \in Dates(WriteDate(f)) :
           DateOf(x) = DateOf(f) /\ Year(x) = Year(f) /\ TimeOf(x) = TimeOf(NoFields)
    BY <2>1, WrittenDate
  <2> QED BY <1>1, <2>1, <2>2 DEF Readings, Write, ReadsBack
<1>2. CASE k = "time"
  <2>1. DateOf(f) = DateOf(NoFields) /\ TimeValid(TimeOf(f))
    BY <1>2 DEF Writable
  <2>2. \E u \in Times(WriteTime(f), 1) : TimeOf(u) = TimeOf(f)
    BY <2>1, WrittenTime
  <2>3. \A u \in Times(WriteTime(f), 1) : DateOf(u) = DateOf(NoFields)
    <3>1. \A t, form : DateOf(TimeIn(t, form)) = DateOf(NoFields)
      <4> SUFFICES ASSUME NEW t, NEW form PROVE DateOf(TimeIn(t, form)) = DateOf(NoFields)
        OBVIOUS
      <4> DEFINE u == TimeIn(t, form)
      <4>1. ~u.negative /\ u.year = 0 /\ u.month = 0 /\ u.day = 0
        BY DEF TimeIn
      <4> HIDE DEF u
      <4>2. DateOf(u) = DateOf(NoFields)
        BY <4>1 DEF DateOf, Year, NoFields
      <4> QED BY <4>2 DEF u
    <3> QED BY <3>1 DEF Times
  <2> QED BY <1>2, <2>1, <2>2, <2>3 DEF Readings, Write, ReadsBack
<1>3. CASE k = "datetime"
  <2>1. DateValid(DateOf(f)) /\ Year(f) >= FirstYear /\ TimeValid(TimeOf(f))
    BY <1>3 DEF Writable
  <2> DEFINE m == Instant(f)
             s == FieldsAt(m)
  <2>2. /\ m \in JulianPeriod /\ DateValid(date(m)) /\ TimeValid(time(m))
        /\ time(m) = TimeOf(f)
        /\ ~DateIsLate(m) => date(m) = DateOf(f)
        /\ DateIsLate(m) => InstantOf(date(m), time(m)) = m + MicrosPerDay
    BY <2>1, InstantIsWritten
  <2>3. Write(k, f) = WriteDate(s) \o <<"T">> \o WriteTime(s) \o <<"Z">>
    BY <1>3 DEF Write, bufWrite
  <2> HIDE DEF m
  <2>4. /\ s \in Fields /\ Year(s) >= FirstYear
        /\ DateOf(s) = date(m) /\ TimeOf(s) = time(m)
    BY <2>2, FieldsAtShow
  <2> HIDE DEF s
  <2>5. DateValid(DateOf(s)) /\ TimeValid(TimeOf(s))
    BY <2>2, <2>4
  <2>6. PICK v \in DateTimes(WriteDate(s) \o <<"T">> \o WriteTime(s) \o <<"Z">>) :
           DateOf(v) = DateOf(s) /\ TimeOf(v) = TimeOf(s)
    BY <2>4, <2>5, WrittenDateTime
  <2>7. Instant(v) = InstantOf(date(m), time(m)) /\ DateOf(v) = date(m) /\ TimeOf(v) = time(m)
    BY <2>4, <2>6 DEF Instant
  <2>8. ReadsBack(k, f, v)
    BY <1>3, <2>2, <2>7, Zenon DEF ReadsBack, m
  <2>9. v \in Readings(k, Write(k, f))
    BY <1>3, <2>3, <2>6 DEF Readings
  <2> QED BY <2>8, <2>9
<1> QED BY <1>1, <1>2, <1>3 DEF Kinds
-----------------------------------------------------------------------------
(* The parser keeps its types: it consumes no more than the text has while *)
(* its reads are checked, and one character more at most when they are not.*)
THEOREM TextsAreTyped == Spec => []TypeOK
<1>1. Inv => TypeOK
  BY DEF Inv
<1> QED BY <1>1, InvAlways, PTL

(* iso8601Date, time and parseRFC3339 accept the dates, the times and the  *)
(* DateTimes in UTC, and nothing else, in both builds.                     *)
THEOREM TextsAreAccepted == Spec => []AcceptsTheGrammar
<1>1. Inv => AcceptsTheGrammar
  <2> SUFFICES ASSUME Inv, next = "end"
               PROVE  outcome = "none" <=> Readings(kind, text) # {}
    BY DEF AcceptsTheGrammar, Ended
  <2>1. kind \in Kinds /\ text \in Seq(Characters)
    BY DEF Inv, TypeOK
  <2>2. outcome = "none" <=> Readable(kind, text)
    BY DEF Inv, EndInv
  <2>3. Readings(kind, text) = IF Readable(kind, text) THEN {Reading(kind, text)} ELSE {}
    BY <2>1, TextsAreUnambiguous
  <2> QED BY <2>2, <2>3
<1> QED BY <1>1, InvAlways, PTL

(* What they read is the one thing the text stands for, its fraction cut   *)
(* to microseconds.                                                        *)
THEOREM TextsAreRead == Spec => []ReadsTheMeaning
<1>1. Inv => ReadsTheMeaning
  <2> SUFFICES ASSUME Inv, next = "end", outcome = "none"
               PROVE  Readings(kind, text) = {fields}
    BY DEF ReadsTheMeaning, Ended
  <2>1. kind \in Kinds /\ text \in Seq(Characters)
    BY DEF Inv, TypeOK
  <2>2. Readable(kind, text) /\ fields = Reading(kind, text)
    BY DEF Inv, EndInv
  <2>3. Readings(kind, text) = IF Readable(kind, text) THEN {Reading(kind, text)} ELSE {}
    BY <2>1, TextsAreUnambiguous
  <2> QED BY <2>2, <2>3
<1> QED BY <1>1, InvAlways, PTL

(* What writeDate and writeTime write of a valid date or time, and bufWrite *)
(* of the instant of a DateTime, is accepted.  It is read as the date and  *)
(* the time it was written from; but a DateTime within the last second of  *)
(* a day before 1970 as the one a day later, each time it is written.      *)
THEOREM WrittenTextsReadBack == Spec => []WrittenReadsBack
<1>1. Inv => WrittenReadsBack
  <2> DEFINE f == written[1]
  <2> SUFFICES ASSUME Inv, next = "end", written # <<>>
               PROVE  outcome = "none" /\ ReadsBack(kind, f, fields)
    BY DEF WrittenReadsBack, ReadsBack, Ended
  <2>1. kind \in Kinds /\ text \in Seq(Characters)
    BY DEF Inv, TypeOK
  <2>2. f \in Fields /\ Writable(kind, f) /\ text = Write(kind, f)
    BY DEF Inv, WrittenInv
  <2> HIDE DEF f
  <2>3. PICK v \in Readings(kind, text) : ReadsBack(kind, f, v)
    BY <2>1, <2>2, WrittenIsRead
  <2>4. Readings(kind, text) = IF Readable(kind, text) THEN {Reading(kind, text)} ELSE {}
    BY <2>1, TextsAreUnambiguous
  <2>5. Readable(kind, text) /\ v = Reading(kind, text)
    BY <2>4
  <2>6. outcome = "none" /\ fields = Reading(kind, text)
    BY <2>5 DEF Inv, EndInv
  <2> QED BY <2>3, <2>5, <2>6
<1> QED BY <1>1, InvAlways, PTL

(* A checked build stops behind a date that no time follows, or in a       *)
(* fraction whose digits are too large a number, and nowhere else.         *)
THEOREM TextsPanicRarely == Spec => []PanicsOnlyAfterADateOrInAFraction
<1>1. Inv => PanicsOnlyAfterADateOrInAFraction
  BY DEF Inv
<1> QED BY <1>1, InvAlways, PTL
=============================================================================
