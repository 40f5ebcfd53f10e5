------------------------------ MODULE ModArith ------------------------------
(***************************************************************************)
(* Facts about the remainder, for the rings of the simulator: the provers  *)
(* do no division by a variable, so what they need of it is stated here.   *)
(* Induction, for what the models compute in loops and for sequences, and  *)
(* what Filter keeps of them.                                              *)
(***************************************************************************)
EXTENDS Integers, Filter, WellFoundedInduction, TLAPS

\* A number has one quotient and one remainder.
LEMMA UniqueRemainder ==
  ASSUME NEW c \in Nat, c > 0, NEW p \in Int, NEW q \in Int,
         NEW r \in 0 .. c - 1, NEW s \in 0 .. c - 1, c * p + r = c * q + s
  PROVE  r = s
<1>0. \A x, y \in Nat : x > 0 /\ y > 0 => x * y >= x
  OBVIOUS
<1>1. CASE p > q
  <2>1. c * (p - q) >= c
    <3>1. p - q \in Nat /\ p - q > 0
      BY <1>1
    <3> QED BY <1>0, <3>1
  <2>2. c * (p - q) = s - r
    OBVIOUS
  <2> QED BY <2>1, <2>2
<1>2. CASE p < q
  <2>1. c * (q - p) >= c
    <3>1. q - p \in Nat /\ q - p > 0
      BY <1>2
    <3> QED BY <1>0, <3>1
  <2>2. c * (q - p) = r - s
    OBVIOUS
  <2> QED BY <2>1, <2>2
<1>3. CASE p = q
  BY <1>3
<1> QED BY <1>1, <1>2, <1>3

\* Quotient and remainder.
LEMMA DivMod ==
  ASSUME NEW c \in Nat, c > 0, NEW n \in Int
  PROVE  /\ n % c \in 0 .. c - 1 /\ n \div c \in Int
         /\ n = c * (n \div c) + (n % c)
  OBVIOUS

\* A remainder below the divisor, and one that wraps once.
LEMMA ModOnce ==
  ASSUME NEW c \in Nat, c > 0, NEW n \in 0 .. 2 * c - 1
  PROVE  n % c = IF n < c THEN n ELSE n - c
  OBVIOUS

\* The remainder of a sum may be taken in two steps.
LEMMA ModPlus ==
  ASSUME NEW c \in Nat, c > 0, NEW a \in Int, NEW b \in Int
  PROVE  ((a % c) + b) % c = (a + b) % c
<1> DEFINE r == a % c
           p == a \div c
           q == (r + b) \div c
           s == (r + b) % c
<1>1. r \in 0 .. c - 1 /\ p \in Int /\ a = c * p + r
  BY DivMod
<1>2. r + b \in Int
  BY <1>1
<1>3. s \in 0 .. c - 1 /\ q \in Int /\ r + b = c * q + s
  BY <1>2, DivMod
<1>4. /\ (a + b) % c \in 0 .. c - 1 /\ (a + b) \div c \in Int
      /\ a + b = c * ((a + b) \div c) + ((a + b) % c)
  <2>1. a + b \in Int
    OBVIOUS
  <2> QED BY <2>1, DivMod
<1>5. a + b = c * (p + q) + s
  <2> HIDE DEF r, p, q, s
  <2>1. a + b = c * p + (c * q + s)
    BY <1>1, <1>3
  <2>2. c * (p + q) = c * p + c * q
    BY <1>1, <1>3
  <2> QED BY <2>1, <2>2, <1>1, <1>3
<1>6. p + q \in Int
  BY <1>1, <1>3
<1> HIDE DEF r, p, q, s
<1>7. c * (p + q) + s = c * ((a + b) \div c) + ((a + b) % c)
  BY <1>4, <1>5
<1>8. s = (a + b) % c
  BY <1>7, <1>3, <1>4, <1>6, UniqueRemainder
<1> QED BY <1>8 DEF s, r

-----------------------------------------------------------------------------
(* Induction over sets of numbers, and what is computed step by step.      *)

\* A set of numbers has a least element.
LEMMA LeastElement ==
  ASSUME NEW T, T \subseteq Nat, T # {}
  PROVE  \E x \in T : \A y \in T : x <= y
<1> DEFINE R == {s \in Nat \X Nat : s[1] < s[2]}
<1>1. IsWellFoundedOn(R, Nat)
  BY NatLessThanWellFounded DEF OpToRel
<1>2. \A x, y \in Nat : x < y => <<x, y>> \in R
  OBVIOUS
<1> HIDE DEF R
<1>3. PICK x \in T : \A y \in T : ~ (<<y, x>> \in R)
  BY <1>1, WFMin
<1>4. ASSUME NEW y \in T PROVE x <= y
  <2>1. x \in Nat /\ y \in Nat /\ ~(<<y, x>> \in R)
    BY <1>3
  <2>2. ~(y < x)
    BY <1>2, <2>1
  <2> QED BY <2>1, <2>2
<1> QED BY <1>4

\* Induction, over a set instead of a predicate.
LEMMA Induction ==
  ASSUME NEW T, 0 \in T, \A n \in Nat : n \in T => n + 1 \in T
  PROVE  \A n \in Nat : n \in T
<1> SUFFICES ASSUME Nat \ T # {} PROVE FALSE
  OBVIOUS
<1>1. PICK x \in Nat \ T : \A y \in Nat \ T : x <= y
  BY LeastElement
<1>2. x # 0
  BY <1>1
<1>3. x - 1 \in Nat /\ ~(x <= x - 1)
  BY <1>1, <1>2
<1>4. x - 1 \in T
  BY <1>1, <1>3
<1>5. (x - 1) + 1 \in T
  BY <1>3, <1>4
<1>6. (x - 1) + 1 = x
  BY <1>1
<1> QED BY <1>1, <1>5, <1>6

\* The values in A that g takes one after the other, from b on.
Values(A, b, N, g) ==
  { f \in [0 .. N -> A] : f[0] = b /\ \A n \in 1 .. N : f[n] = g[<<f[n - 1], n>>] }

LEMMA Recursion ==
  ASSUME NEW A, NEW b \in A, NEW N \in Nat, NEW g \in [A \X Nat -> A]
  PROVE  Values(A, b, N, g) # {}
<1> DEFINE Computes(f, m) == f[0] = b /\ \A n \in 1 .. m : f[n] = g[<<f[n - 1], n>>]
           T == {m \in Nat : \E f \in [0 .. m -> A] : Computes(f, m)}
<1>1. 0 \in T
  <2> DEFINE f == [n \in 0 .. 0 |-> b]
  <2>1. f \in [0 .. 0 -> A] /\ Computes(f, 0)
    OBVIOUS
  <2> HIDE DEF f, Computes
  <2> QED BY <2>1
<1>2. ASSUME NEW m \in Nat, m \in T PROVE m + 1 \in T
  <2>1. PICK f \in [0 .. m -> A] : Computes(f, m)
    BY <1>2
  <2> DEFINE h == [n \in 0 .. m + 1 |-> IF n <= m THEN f[n] ELSE g[<<f[m], m + 1>>]]
  <2>2. f[m] \in A /\ g[<<f[m], m + 1>>] \in A
    OBVIOUS
  <2>3. h \in [0 .. m + 1 -> A]
    BY <2>2
  <2>4. h[0] = b
    BY <2>1
  <2>5. ASSUME NEW n \in 1 .. m + 1 PROVE h[n] = g[<<h[n - 1], n>>]
    <3>1. CASE n \in 1 .. m
      <4>1. h[n] = f[n] /\ h[n - 1] = f[n - 1]
        BY <3>1
      <4> QED BY <2>1, <3>1, <4>1
    <3>2. CASE n = m + 1
      <4>1. h[n] = g[<<f[m], m + 1>>] /\ h[n - 1] = f[m]
        BY <3>2
      <4> QED BY <4>1, <3>2
    <3> QED BY <3>1, <3>2
  <2>6. Computes(h, m + 1)
    BY <2>4, <2>5
  <2> HIDE DEF h, Computes
  <2> QED BY <2>3, <2>6
<1> HIDE DEF T
<1>3. N \in T
  BY <1>1, <1>2, Induction
<1> QED BY <1>3 DEF T, Values

\* What Only keeps, step by step.
LEMMA OnlyComputed ==
  ASSUME NEW T, NEW s \in Seq(T), NEW kept
  PROVE  \E f : /\ \A n \in 0 .. Len(s) :
                     f[n] = IF n = 0 THEN <<>>
                            ELSE IF s[n] \in kept THEN Append(f[n - 1], s[n]) ELSE f[n - 1]
                /\ Only(s, kept) = f[Len(s)]
<1> DEFINE Left(f) ==
             f = [n \in 0 .. Len(s) |->
                    IF n = 0 THEN <<>>
                    ELSE IF s[n] \in kept THEN Append(f[n - 1], s[n]) ELSE f[n - 1]]
           g == [x \in Seq(T) \X Nat |->
                   IF x[2] \in DOMAIN s /\ s[x[2]] \in kept THEN Append(x[1], s[x[2]]) ELSE x[1]]
<1>0. Len(s) \in Nat /\ DOMAIN s = 1 .. Len(s)
  OBVIOUS
<1>1. PICK f \in [0 .. Len(s) -> Seq(T)] :
        f[0] = <<>> /\ \A n \in 1 .. Len(s) : f[n] = g[<<f[n - 1], n>>]
  <2> DEFINE A == Seq(T)
             b == <<>>
             N == Len(s)
  <2>1. b \in A /\ N \in Nat
    OBVIOUS
  <2>2. g \in [A \X Nat -> A]
    OBVIOUS
  <2> HIDE DEF g, A, b, N
  <2>3. Values(A, b, N, g) # {}
    BY <2>1, <2>2, Recursion
  <2> QED BY <2>3 DEF A, b, N, Values
<1>2. ASSUME NEW n \in 1 .. Len(s)
      PROVE  f[n] = IF s[n] \in kept THEN Append(f[n - 1], s[n]) ELSE f[n - 1]
  <2>1. n \in Nat /\ n - 1 \in 0 .. Len(s) /\ n \in DOMAIN s
    BY <1>0
  <2>2. f[n - 1] \in Seq(T)
    BY <2>1
  <2>3. \A x \in Seq(T), k \in Nat :
          g[<<x, k>>] = IF k \in DOMAIN s /\ s[k] \in kept THEN Append(x, s[k]) ELSE x
    OBVIOUS
  <2> HIDE DEF g
  <2>4. g[<<f[n - 1], n>>] = IF s[n] \in kept THEN Append(f[n - 1], s[n]) ELSE f[n - 1]
    BY <2>1, <2>2, <2>3
  <2> QED BY <1>1, <2>4
<1>3. Left(f)
  <2> DEFINE h == [n \in 0 .. Len(s) |->
                     IF n = 0 THEN <<>>
                     ELSE IF s[n] \in kept THEN Append(f[n - 1], s[n]) ELSE f[n - 1]]
  <2>1. \A n \in 0 .. Len(s) : n = 0 \/ n \in 1 .. Len(s)
    BY <1>0
  <2>2. f[0] = <<>>
    BY <1>1
  <2>3. \A n \in 0 .. Len(s) : f[n] = h[n]
    BY <1>2, <2>1, <2>2
  <2>4. f = [n \in 0 .. Len(s) |-> f[n]] /\ h = [n \in 0 .. Len(s) |-> h[n]]
    OBVIOUS
  <2> HIDE DEF h
  <2>5. f = h
    BY <2>3, <2>4
  <2> QED BY <2>5 DEF h
<1> DEFINE c == CHOOSE h : Left(h)
<1>4. Left(c)
  BY <1>3
<1>5. Only(s, kept) = c[Len(s)]
  BY DEF Only
<1> HIDE DEF c
<1> QED BY <1>4, <1>5

\* What holds of the empty sequence, and of a sequence with one more element
\* when of the sequence, holds of all.
LEMMA SequenceInduction ==
  ASSUME NEW T, NEW A, <<>> \in A, \A s \in Seq(T), x \in T : s \in A => Append(s, x) \in A
  PROVE  \A s \in Seq(T) : s \in A
<1> DEFINE N == { n \in Nat : \A s \in Seq(T) : Len(s) = n => s \in A }
<1>1. 0 \in N
  <2>1. \A s \in Seq(T) : Len(s) = 0 => s = <<>>
    OBVIOUS
  <2> QED BY <2>1
<1>2. ASSUME NEW n \in Nat, n \in N PROVE n + 1 \in N
  <2> SUFFICES ASSUME NEW s \in Seq(T), Len(s) = n + 1 PROVE s \in A
    OBVIOUS
  <2> DEFINE r == SubSeq(s, 1, n)
  <2>1. r \in Seq(T) /\ Len(r) = n /\ s[n + 1] \in T
    OBVIOUS
  <2>2. s = Append(r, s[n + 1])
    <3> DEFINE q == Append(r, s[n + 1])
    <3>1. q \in Seq(T) /\ Len(q) = n + 1
      BY <2>1
    <3>2. \A k \in 1 .. n + 1 : q[k] = s[k]
      BY <2>1
    <3> HIDE DEF q
    <3>3. q = s
      BY <3>1, <3>2
    <3> QED BY <3>3 DEF q
  <2>3. r \in A
    BY <1>2, <2>1
  <2> HIDE DEF r
  <2> QED BY <2>1, <2>2, <2>3
<1> HIDE DEF N
<1>3. \A n \in Nat : n \in N
  BY <1>1, <1>2, Induction
<1> QED BY <1>3 DEF N

LEMMA Concat ==
  ASSUME NEW T
  PROVE  /\ \A r, s \in Seq(T) : r \o s \in Seq(T)
         /\ \A r \in Seq(T) : r \o <<>> = r /\ <<>> \o r = r
         /\ \A r, s \in Seq(T), x \in T : r \o Append(s, x) = Append(r \o s, x)
<1>1. \A r, s \in Seq(T) : r \o s \in Seq(T)
  OBVIOUS
<1>2. \A r \in Seq(T) : r \o <<>> = r /\ <<>> \o r = r
  OBVIOUS
<1>3. ASSUME NEW r \in Seq(T), NEW s \in Seq(T), NEW x \in T
      PROVE  r \o Append(s, x) = Append(r \o s, x)
  OBVIOUS
<1> QED BY <1>1, <1>2, <1>3

LEMMA Associative ==
  ASSUME NEW T, NEW r \in Seq(T), NEW s \in Seq(T), NEW t \in Seq(T)
  PROVE  (r \o s) \o t = r \o (s \o t)
OBVIOUS

\* What Only keeps of a sequence with one more element.
LEMMA OnlyAppend ==
  ASSUME NEW T, NEW kept
  PROVE  /\ Only(<<>>, kept) = <<>>
         /\ \A s \in Seq(T) : Only(s, kept) \in Seq(T)
         /\ \A s \in Seq(T), x \in T :
              Only(Append(s, x), kept) =
                IF x \in kept THEN Append(Only(s, kept), x) ELSE Only(s, kept)
<1> DEFINE Computes(f, s) ==
             \A n \in 0 .. Len(s) :
               f[n] = IF n = 0 THEN <<>>
                      ELSE IF s[n] \in kept THEN Append(f[n - 1], s[n]) ELSE f[n - 1]
<1>0. \A s \in Seq(T) : \E f : Computes(f, s) /\ Only(s, kept) = f[Len(s)]
  BY OnlyComputed
<1>1. Only(<<>>, kept) = <<>>
  <2>1. <<>> \in Seq(T) /\ Len(<<>>) = 0
    OBVIOUS
  <2>2. PICK f : Computes(f, <<>>) /\ Only(<<>>, kept) = f[0]
    <3> HIDE DEF Computes
    <3> QED BY <1>0, <2>1
  <2> QED BY <2>2
<1>2. ASSUME NEW s \in Seq(T), NEW x \in T
      PROVE  Only(Append(s, x), kept) = IF x \in kept THEN Append(Only(s, kept), x) ELSE Only(s, kept)
  <2> DEFINE r == Append(s, x)
             N == Len(s)
  <2>1. r \in Seq(T) /\ Len(r) = N + 1 /\ N \in Nat /\ r[N + 1] = x /\ \A n \in 1 .. N : r[n] = s[n]
    OBVIOUS
  <2> HIDE DEF r, N
  <2>2. PICK f : Computes(f, s) /\ Only(s, kept) = f[N]
    <3> HIDE DEF Computes
    <3> QED BY <1>0 DEF N
  <2>3. PICK h : Computes(h, r) /\ Only(r, kept) = h[N + 1]
    <3> HIDE DEF Computes
    <3> QED BY <1>0, <2>1
  <2> DEFINE A == { n \in Nat : n <= N => f[n] = h[n] }
  <2>4. 0 \in A
    BY <2>1, <2>2, <2>3 DEF N
  <2>5. ASSUME NEW n \in Nat, n \in A PROVE n + 1 \in A
    <3> SUFFICES ASSUME n + 1 <= N PROVE f[n + 1] = h[n + 1]
      OBVIOUS
    <3>1. f[n] = h[n] /\ n + 1 \in 0 .. N /\ n + 1 \in 0 .. N + 1 /\ n + 1 # 0 /\ (n + 1) - 1 = n
          /\ r[n + 1] = s[n + 1]
      BY <2>1, <2>5
    <3>2. f[n + 1] = IF s[n + 1] \in kept THEN Append(f[n], s[n + 1]) ELSE f[n]
      BY <2>2, <3>1 DEF N
    <3>3. h[n + 1] = IF r[n + 1] \in kept THEN Append(h[n], r[n + 1]) ELSE h[n]
      BY <2>1, <2>3, <3>1
    <3> QED BY <3>1, <3>2, <3>3
  <2> HIDE DEF A
  <2>6. N \in A
    BY <2>1, <2>4, <2>5, Induction
  <2>7. f[N] = h[N]
    BY <2>1, <2>6 DEF A
  <2>8. h[N + 1] = IF x \in kept THEN Append(h[N], x) ELSE h[N]
    <3>1. N + 1 \in 0 .. N + 1 /\ N + 1 # 0 /\ (N + 1) - 1 = N
      BY <2>1
    <3> QED BY <2>1, <2>3, <3>1
  <2> QED BY <2>2, <2>3, <2>7, <2>8 DEF r
<1> HIDE DEF Computes
<1> DEFINE B == { s \in Seq(T) : Only(s, kept) \in Seq(T) }
<1>3. <<>> \in B
  <2>1. <<>> \in Seq(T)
    OBVIOUS
  <2> QED BY <1>1, <2>1
<1>4. ASSUME NEW s \in Seq(T), NEW x \in T, s \in B PROVE Append(s, x) \in B
  <2>1. Only(s, kept) \in Seq(T) /\ Append(s, x) \in Seq(T)
    BY <1>4
  <2>2. Append(Only(s, kept), x) \in Seq(T)
    BY <2>1
  <2>3. Only(Append(s, x), kept) \in Seq(T)
    BY <1>2, <2>1, <2>2
  <2> QED BY <2>1, <2>3
<1> HIDE DEF B
<1>5. \A s \in Seq(T) : s \in B
  BY <1>3, <1>4, SequenceInduction
<1> QED BY <1>1, <1>2, <1>5 DEF B

\* What is kept of two sequences, one after the other.
LEMMA OnlyConcat ==
  ASSUME NEW T, NEW kept, NEW r \in Seq(T), NEW s \in Seq(T)
  PROVE  Only(r \o s, kept) = Only(r, kept) \o Only(s, kept)
<1>0. /\ Only(<<>>, kept) = <<>> /\ \A t \in Seq(T) : Only(t, kept) \in Seq(T)
      /\ \A t \in Seq(T), x \in T :
           Only(Append(t, x), kept) = IF x \in kept THEN Append(Only(t, kept), x) ELSE Only(t, kept)
  BY OnlyAppend
<1> DEFINE A == { t \in Seq(T) : Only(r \o t, kept) = Only(r, kept) \o Only(t, kept) }
<1>1. <<>> \in A
  <2>1. r \o <<>> = r /\ Only(r, kept) \o <<>> = Only(r, kept)
    BY <1>0, Concat
  <2> QED BY <1>0, <2>1
<1>2. ASSUME NEW t \in Seq(T), NEW x \in T, t \in A PROVE Append(t, x) \in A
  <2> DEFINE o == Only(t, kept)
             p == Only(r, kept)
  <2>1. r \o Append(t, x) = Append(r \o t, x) /\ r \o t \in Seq(T) /\ Append(t, x) \in Seq(T)
    BY Concat
  <2>2. Only(r \o t, kept) = p \o o /\ o \in Seq(T) /\ p \in Seq(T)
    BY <1>0, <1>2
  <2>3. Only(r \o Append(t, x), kept) = IF x \in kept THEN Append(p \o o, x) ELSE p \o o
    BY <1>0, <2>1, <2>2
  <2>4. Only(Append(t, x), kept) = IF x \in kept THEN Append(o, x) ELSE o
    BY <1>0
  <2> HIDE DEF o, p
  <2>5. p \o Append(o, x) = Append(p \o o, x)
    BY <2>2, Concat
  <2>6. Only(r \o Append(t, x), kept) = p \o Only(Append(t, x), kept)
    BY <2>3, <2>4, <2>5
  <2> QED BY <2>1, <2>6 DEF p
<1> HIDE DEF A
<1>3. s \in A
  BY <1>1, <1>2, SequenceInduction
<1> QED BY <1>3 DEF A

\* What is kept by both, when all that one keeps the other does.
LEMMA OnlyTwice ==
  ASSUME NEW T, NEW most, NEW few, \A x \in T : x \in few => x \in most
  PROVE  \A s \in Seq(T) : Only(Only(s, most), few) = Only(s, few)
<1>0. /\ Only(<<>>, most) = <<>> /\ \A t \in Seq(T) : Only(t, most) \in Seq(T)
      /\ \A t \in Seq(T), x \in T :
           Only(Append(t, x), most) = IF x \in most THEN Append(Only(t, most), x) ELSE Only(t, most)
  BY OnlyAppend
<1>1. /\ Only(<<>>, few) = <<>>
      /\ \A t \in Seq(T), x \in T :
           Only(Append(t, x), few) = IF x \in few THEN Append(Only(t, few), x) ELSE Only(t, few)
  BY OnlyAppend
<1> DEFINE A == { s \in Seq(T) : Only(Only(s, most), few) = Only(s, few) }
<1>2. <<>> \in A
  BY <1>0, <1>1
<1>3. ASSUME NEW s \in Seq(T), NEW x \in T, s \in A PROVE Append(s, x) \in A
  <2>0. Append(s, x) \in Seq(T)
    OBVIOUS
  <2>1. CASE x \in most
    <3>1. Only(Append(s, x), most) = Append(Only(s, most), x) /\ Only(s, most) \in Seq(T)
      BY <1>0, <2>1
    <3>2. Only(Only(s, most), few) = Only(s, few)
      BY <1>3
    <3>3. Only(Append(Only(s, most), x), few) = Only(Append(s, x), few)
      BY <1>1, <3>1, <3>2
    <3> QED BY <2>0, <3>1, <3>3
  <2>2. CASE x \notin most
    <3>1. Only(Append(s, x), most) = Only(s, most) /\ x \notin few
      BY <1>0, <2>2
    <3>2. Only(Append(s, x), few) = Only(s, few)
      BY <1>1, <3>1
    <3>3. Only(Only(s, most), few) = Only(s, few)
      BY <1>3
    <3> QED BY <2>0, <3>1, <3>2, <3>3
  <2> QED BY <2>1, <2>2
<1> HIDE DEF A
<1>4. \A s \in Seq(T) : s \in A
  BY <1>2, <1>3, SequenceInduction
<1> QED BY <1>4 DEF A

\* What Only keeps is in what it keeps, and what agrees on the elements keeps
\* the same.
LEMMA OnlyKept ==
  ASSUME NEW T, NEW kept
  PROVE  \A s \in Seq(T) : Only(s, kept) \in Seq(T \cap kept)
<1>0. /\ Only(<<>>, kept) = <<>>
      /\ \A t \in Seq(T), x \in T :
           Only(Append(t, x), kept) = IF x \in kept THEN Append(Only(t, kept), x) ELSE Only(t, kept)
  BY OnlyAppend
<1> DEFINE K == T \cap kept
           A == { s \in Seq(T) : Only(s, kept) \in Seq(K) }
<1>1. <<>> \in A
  <2>1. <<>> \in Seq(T) /\ <<>> \in Seq(K)
    OBVIOUS
  <2> HIDE DEF K
  <2> QED BY <1>0, <2>1
<1>2. ASSUME NEW s \in Seq(T), NEW x \in T, s \in A PROVE Append(s, x) \in A
  <2>1. Only(s, kept) \in Seq(K)
    BY <1>2
  <2>2. x \in kept => x \in K
    OBVIOUS
  <2> HIDE DEF K
  <2>3. x \in kept => Append(Only(s, kept), x) \in Seq(K)
    BY <2>1, <2>2
  <2> QED BY <1>0, <2>1, <2>3
<1> HIDE DEF A
<1>3. \A s \in Seq(T) : s \in A
  BY <1>1, <1>2, SequenceInduction
<1> QED BY <1>3 DEF A

LEMMA OnlySame ==
  ASSUME NEW T, NEW kept, NEW other, \A x \in T : x \in kept <=> x \in other
  PROVE  \A s \in Seq(T) : Only(s, kept) = Only(s, other)
<1>0. /\ Only(<<>>, kept) = <<>>
      /\ \A t \in Seq(T), x \in T :
           Only(Append(t, x), kept) = IF x \in kept THEN Append(Only(t, kept), x) ELSE Only(t, kept)
  BY OnlyAppend
<1>1. /\ Only(<<>>, other) = <<>>
      /\ \A t \in Seq(T), x \in T :
           Only(Append(t, x), other) = IF x \in other THEN Append(Only(t, other), x) ELSE Only(t, other)
  BY OnlyAppend
<1> DEFINE A == { s \in Seq(T) : Only(s, kept) = Only(s, other) }
<1>2. <<>> \in A
  BY <1>0, <1>1
<1>3. ASSUME NEW s \in Seq(T), NEW x \in T, s \in A PROVE Append(s, x) \in A
  BY <1>0, <1>1, <1>3
<1> HIDE DEF A
<1>4. \A s \in Seq(T) : s \in A
  BY <1>2, <1>3, SequenceInduction
<1> QED BY <1>4 DEF A
=============================================================================
