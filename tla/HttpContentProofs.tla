-------------------------- MODULE HttpContentProofs --------------------------
(***************************************************************************)
(* Proofs about HttpContent, for any contents, any number and any form of  *)
(* chunks and any number of requests, wherever the reads cut the bytes:    *)
(* the size of a chunk is read as it was written, a resource function gets *)
(* the content that was sent, and only what should be refused is.          *)
(*                                                                         *)
(* The induction over data that this takes is over subsets of Nat, each of *)
(* which has a smallest element; what is chunked is a least set.           *)
(***************************************************************************)
EXTENDS HttpContent, SequenceTheorems, WellFoundedInduction, TLAPS

Byte == 0..255

(* Numbers. *)

LEMMA Smallest ==
  ASSUME NEW T, T \subseteq Nat, T # {}
  PROVE  \E x \in T : \A y \in T : x <= y
<1> DEFINE R == OpToRel(<, Nat)
<1>1. IsWellFoundedOn(R, Nat)
  BY NatLessThanWellFounded
<1>2. \A x, y \in Nat : y < x => <<y, x>> \in R
  BY DEF OpToRel
<1> HIDE DEF R
<1>3. PICK x \in T : \A y \in T : ~ (<<y, x>> \in R)
  BY <1>1, WFMin
<1>4. ASSUME NEW y \in T PROVE x <= y
  <2>1. ~(<<y, x>> \in R)
    BY <1>3
  <2>2. x \in Nat /\ y \in Nat
    OBVIOUS
  <2>3. ~(y < x)
    BY <1>2, <2>1, <2>2
  <2> QED
    BY <2>2, <2>3
<1> QED
  BY <1>4

(* Induction up to n, over a set. *)
LEMMA UpTo ==
  ASSUME NEW n \in Nat, NEW S, 0 \in S,
         \A i \in 0..n : i + 1 <= n /\ i \in S => i + 1 \in S
  PROVE  0..n \subseteq S
<1> DEFINE T == {i \in 0..n : i \notin S}
<1>1. SUFFICES ASSUME T # {} PROVE FALSE
  OBVIOUS
<1>0. T \subseteq Nat
  OBVIOUS
<1>2. PICK x \in T : \A y \in T : x <= y
  <2> HIDE DEF T
  <2> QED
    BY <1>0, <1>1, Smallest
<1>3. x \in 1..n /\ x - 1 \notin T
  BY <1>2
<1>4. x - 1 \in S /\ x - 1 \in 0..n /\ (x - 1) + 1 = x
  BY <1>3
<1> QED
  BY <1>3, <1>4

-----------------------------------------------------------------------------
(* Sequences. *)

LEMMA Elements ==
  ASSUME NEW S, NEW s \in Seq(S)
  PROVE  /\ Len(s) \in Nat /\ DOMAIN s = 1..Len(s)
         /\ \A i \in 1..Len(s) : s[i] \in S
BY LenProperties, ElementOfSeq

LEMMA Wider ==
  ASSUME NEW s \in Seq(Byte)
  PROVE  s \in Seq(Nat)
<1>1. Byte \subseteq Nat
  BY DEF Byte
<1> QED
  BY <1>1, SeqMonotonic

LEMMA Part ==
  ASSUME NEW S, NEW s \in Seq(S), NEW m \in Nat \ {0}, NEW n \in Nat, n <= Len(s)
  PROVE  /\ SubSeq(s, m, n) \in Seq(S)
         /\ Len(SubSeq(s, m, n)) = IF m <= n THEN n - m + 1 ELSE 0
         /\ \A i \in 1..(n - m + 1) : SubSeq(s, m, n)[i] = s[m + i - 1]
<1>1. \A i \in m..n : s[i] \in S
  BY Elements
<1> QED
  BY <1>1, SubSeqProperties

LEMMA Taken ==
  ASSUME NEW S, NEW s \in Seq(S), NEW n \in 0..Len(s)
  PROVE  /\ SubSeq(s, 1, n) \in Seq(S) /\ Len(SubSeq(s, 1, n)) = n
         /\ \A i \in 1..n : SubSeq(s, 1, n)[i] = s[i]
<1>1. Len(s) \in Nat /\ n \in Nat /\ n <= Len(s)
  BY Elements
<1> DEFINE p == SubSeq(s, 1, n)
<1>2. /\ p \in Seq(S)
      /\ Len(p) = IF 1 <= n THEN n - 1 + 1 ELSE 0
      /\ \A i \in 1..(n - 1 + 1) : p[i] = s[1 + i - 1]
  BY <1>1, Part
<1> HIDE DEF p
<1>3. p \in Seq(S) /\ Len(p) = n /\ \A i \in 1..n : p[i] = s[i]
  BY <1>1, <1>2
<1> QED
  BY <1>3 DEF p

LEMMA Dropped ==
  ASSUME NEW S, NEW s \in Seq(S), NEW n \in 0..Len(s)
  PROVE  /\ Drop(s, n) \in Seq(S) /\ Len(Drop(s, n)) = Len(s) - n
         /\ \A i \in 1..(Len(s) - n) : Drop(s, n)[i] = s[n + i]
<1>1. Len(s) \in Nat /\ n \in Nat /\ n <= Len(s)
  BY Elements
<1> DEFINE p == SubSeq(s, n + 1, Len(s))
<1>2. /\ p \in Seq(S)
      /\ Len(p) = IF n + 1 <= Len(s) THEN Len(s) - (n + 1) + 1 ELSE 0
      /\ \A i \in 1..(Len(s) - (n + 1) + 1) : p[i] = s[n + 1 + i - 1]
  BY <1>1, Part
<1> HIDE DEF p
<1>3. p \in Seq(S) /\ Len(p) = Len(s) - n /\ \A i \in 1..(Len(s) - n) : p[i] = s[n + i]
  BY <1>1, <1>2
<1> QED
  BY <1>3 DEF p, Drop

LEMMA Joined ==
  ASSUME NEW S, NEW s \in Seq(S), NEW t \in Seq(S)
  PROVE  /\ s \o t \in Seq(S) /\ Len(s \o t) = Len(s) + Len(t)
         /\ \A i \in 1..Len(s) : (s \o t)[i] = s[i]
         /\ \A i \in 1..Len(t) : (s \o t)[Len(s) + i] = t[i]
<1>1. Len(s) \in Nat /\ Len(t) \in Nat
  BY Elements
<1> DEFINE p == s \o t
<1>2. /\ p \in Seq(S) /\ Len(p) = Len(s) + Len(t)
      /\ \A i \in 1..(Len(s) + Len(t)) :
           p[i] = IF i <= Len(s) THEN s[i] ELSE t[i - Len(s)]
  BY ConcatProperties
<1> HIDE DEF p
<1>3. \A i \in 1..Len(s) : p[i] = s[i]
  BY <1>1, <1>2
<1>4. \A i \in 1..Len(t) : p[Len(s) + i] = t[i]
  <2> TAKE i \in 1..Len(t)
  <2>1. Len(s) + i \in 1..(Len(s) + Len(t)) /\ ~(Len(s) + i <= Len(s))
        /\ Len(s) + i - Len(s) = i
    BY <1>1
  <2> QED
    BY <1>2, <2>1
<1> QED
  BY <1>2, <1>3, <1>4 DEF p

(* Cutting a concatenation, in the first part or in the second.            *)
LEMMA InFirst ==
  ASSUME NEW S, NEW s \in Seq(S), NEW t \in Seq(S), NEW n \in 0..Len(s)
  PROVE  SubSeq(s \o t, 1, n) = SubSeq(s, 1, n) /\ Drop(s \o t, n) = Drop(s, n) \o t
<1>1. Len(s) \in Nat /\ Len(t) \in Nat /\ n \in Nat
  BY Elements
<1> DEFINE st == s \o t
<1>2. /\ st \in Seq(S) /\ Len(st) = Len(s) + Len(t)
      /\ \A i \in 1..Len(s) : st[i] = s[i]
      /\ \A i \in 1..Len(t) : st[Len(s) + i] = t[i]
  BY Joined
<1> HIDE DEF st
<1>3. n \in 0..Len(st)
  BY <1>1, <1>2
<1>4. SubSeq(st, 1, n) = SubSeq(s, 1, n)
  <2> DEFINE p == SubSeq(st, 1, n)
             q == SubSeq(s, 1, n)
  <2>1. p \in Seq(S) /\ Len(p) = n /\ \A i \in 1..n : p[i] = st[i]
    BY <1>2, <1>3, Taken
  <2>2. q \in Seq(S) /\ Len(q) = n /\ \A i \in 1..n : q[i] = s[i]
    BY Taken
  <2> HIDE DEF p, q
  <2>3. ASSUME NEW i \in 1..n PROVE p[i] = q[i]
    <3>1. i \in 1..Len(s)
      BY <1>1
    <3>2. st[i] = s[i]
      BY <1>2, <3>1
    <3> QED
      BY <2>1, <2>2, <3>2
  <2>4. p = q
    BY <2>1, <2>2, <2>3, SeqEqual
  <2> QED
    BY <2>4 DEF p, q
<1>5. Drop(st, n) = Drop(s, n) \o t
  <2> DEFINE p == Drop(st, n)
             q == Drop(s, n)
             r == q \o t
  <2>1. /\ p \in Seq(S) /\ Len(p) = Len(s) + Len(t) - n
        /\ \A i \in 1..(Len(s) + Len(t) - n) : p[i] = st[n + i]
    <3>1. st \in Seq(S)
      BY <1>2
    <3>2. /\ p \in Seq(S) /\ Len(p) = Len(st) - n
          /\ \A i \in 1..(Len(st) - n) : p[i] = st[n + i]
      BY <1>3, <3>1, Dropped
    <3> HIDE DEF p
    <3> QED
      BY <1>2, <3>2
  <2>2. q \in Seq(S) /\ Len(q) = Len(s) - n /\ \A i \in 1..(Len(s) - n) : q[i] = s[n + i]
    BY Dropped
  <2> HIDE DEF p, q
  <2>3. /\ r \in Seq(S) /\ Len(r) = Len(q) + Len(t)
        /\ \A i \in 1..Len(q) : r[i] = q[i]
        /\ \A i \in 1..Len(t) : r[Len(q) + i] = t[i]
    <3>1. q \in Seq(S)
      BY <2>2
    <3> QED
      BY <3>1, Joined
  <2> HIDE DEF r
  <2>4. ASSUME NEW i \in 1..Len(p) PROVE p[i] = r[i]
    <3>0. p[i] = st[n + i]
      BY <2>1, <2>4
    <3>1. CASE i <= Len(s) - n
      <4>1. n + i \in 1..Len(s) /\ i \in 1..(Len(s) - n)
        BY <1>1, <3>1
      <4>2. st[n + i] = s[n + i] /\ q[i] = s[n + i] /\ r[i] = q[i]
        BY <1>2, <2>2, <2>3, <4>1
      <4> QED
        BY <3>0, <4>2
    <3>2. CASE ~(i <= Len(s) - n)
      <4> DEFINE j == n + i - Len(s)
      <4>1. j \in 1..Len(t) /\ Len(s) + j = n + i /\ Len(q) + j = i
        BY <1>1, <2>1, <2>2, <3>2
      <4> HIDE DEF j
      <4>2. st[Len(s) + j] = t[j] /\ r[Len(q) + j] = t[j]
        BY <1>2, <2>3, <4>1
      <4> QED
        BY <3>0, <4>1, <4>2
    <3> QED
      BY <3>1, <3>2
  <2>5. Len(p) = Len(r)
    BY <1>1, <2>1, <2>2, <2>3
  <2>6. p = r
    BY <2>1, <2>3, <2>4, <2>5, SeqEqual
  <2> QED
    BY <2>6 DEF p, q, r
<1> QED
  BY <1>4, <1>5 DEF st

LEMMA InSecond ==
  ASSUME NEW S, NEW s \in Seq(S), NEW t \in Seq(S), NEW n \in 0..Len(t)
  PROVE  /\ SubSeq(s \o t, 1, Len(s) + n) = s \o SubSeq(t, 1, n)
         /\ Drop(s \o t, Len(s) + n) = Drop(t, n)
<1>1. Len(s) \in Nat /\ Len(t) \in Nat /\ n \in Nat
  BY Elements
<1> DEFINE st == s \o t
           m == Len(s) + n
<1>2. /\ st \in Seq(S) /\ Len(st) = Len(s) + Len(t)
      /\ \A i \in 1..Len(s) : st[i] = s[i]
      /\ \A i \in 1..Len(t) : st[Len(s) + i] = t[i]
  BY Joined
<1> HIDE DEF st
<1>3. m \in 0..Len(st) /\ m = Len(s) + n
  BY <1>1, <1>2
<1> HIDE DEF m
<1>4. SubSeq(st, 1, m) = s \o SubSeq(t, 1, n)
  <2> DEFINE p == SubSeq(st, 1, m)
             q == SubSeq(t, 1, n)
             r == s \o q
  <2>1. p \in Seq(S) /\ Len(p) = m /\ \A i \in 1..m : p[i] = st[i]
    BY <1>2, <1>3, Taken
  <2>2. q \in Seq(S) /\ Len(q) = n /\ \A i \in 1..n : q[i] = t[i]
    BY Taken
  <2> HIDE DEF p, q
  <2>3. /\ r \in Seq(S) /\ Len(r) = Len(s) + Len(q)
        /\ \A i \in 1..Len(s) : r[i] = s[i]
        /\ \A i \in 1..Len(q) : r[Len(s) + i] = q[i]
    <3>1. q \in Seq(S)
      BY <2>2
    <3> QED
      BY <3>1, Joined
  <2> HIDE DEF r
  <2>4. ASSUME NEW i \in 1..Len(p) PROVE p[i] = r[i]
    <3>1. CASE i \in 1..Len(s)
      BY <1>2, <2>1, <2>3, <2>4, <3>1
    <3>2. CASE i \notin 1..Len(s)
      <4> DEFINE j == i - Len(s)
      <4>1. j \in 1..n /\ j \in 1..Len(t) /\ Len(s) + j = i
        BY <1>1, <1>3, <2>1, <3>2
      <4> HIDE DEF j
      <4>2. st[Len(s) + j] = t[j] /\ r[Len(s) + j] = q[j] /\ q[j] = t[j]
        BY <1>2, <2>2, <2>3, <4>1
      <4> QED
        BY <2>1, <2>4, <4>1, <4>2
    <3> QED
      BY <3>1, <3>2
  <2>5. p = r
    BY <1>3, <2>1, <2>2, <2>3, <2>4, SeqEqual
  <2> QED
    BY <2>5 DEF p, q, r
<1>5. Drop(st, m) = Drop(t, n)
  <2> DEFINE p == Drop(st, m)
             q == Drop(t, n)
  <2>1. /\ p \in Seq(S) /\ Len(p) = Len(st) - m
        /\ \A i \in 1..(Len(st) - m) : p[i] = st[m + i]
    <3>1. st \in Seq(S)
      BY <1>2
    <3>2. m \in 0..Len(st)
      BY <1>3
    <3> QED
      BY <3>1, <3>2, Dropped
  <2>2. q \in Seq(S) /\ Len(q) = Len(t) - n /\ \A i \in 1..(Len(t) - n) : q[i] = t[n + i]
    BY Dropped
  <2> HIDE DEF p, q
  <2>3. Len(st) - m = Len(t) - n
    BY <1>1, <1>2, <1>3
  <2>4. ASSUME NEW i \in 1..Len(p) PROVE p[i] = q[i]
    <3>1. n + i \in 1..Len(t) /\ m + i = Len(s) + (n + i) /\ i \in 1..(Len(t) - n)
      BY <1>1, <1>3, <2>1, <2>3
    <3>2. st[Len(s) + (n + i)] = t[n + i]
      BY <1>2, <3>1
    <3> QED
      BY <2>1, <2>2, <2>3, <3>1, <3>2
  <2>5. p = q
    BY <2>1, <2>2, <2>3, <2>4, SeqEqual
  <2> QED
    BY <2>5 DEF p, q
<1> QED
  BY <1>4, <1>5 DEF st, m

LEMMA All ==
  ASSUME NEW S, NEW s \in Seq(S)
  PROVE  SubSeq(s, 1, Len(s)) = s /\ Drop(s, Len(s)) = <<>> /\ Drop(s, 0) = s
<1>1. Len(s) \in Nat
  BY Elements
<1>2. SubSeq(s, 1, Len(s)) = s
  BY SubSeqFull
<1>3. Drop(s, Len(s)) = <<>>
  <2>1. Len(s) + 1 \in Int /\ Len(s) \in Int /\ Len(s) < Len(s) + 1
    BY <1>1
  <2> QED
    BY <2>1, SubSeqEmpty DEF Drop
<1>4. Drop(s, 0) = s
  BY <1>2 DEF Drop
<1> QED
  BY <1>2, <1>3, <1>4

(* What a cut takes away and leaves, cut again.                            *)
LEMMA Again ==
  ASSUME NEW S, NEW s \in Seq(S), NEW k \in 0..Len(s), NEW j \in 0..k
  PROVE  /\ SubSeq(s, 1, k) \o Drop(s, k) = s
         /\ Drop(SubSeq(s, 1, k), j) \o Drop(s, k) = Drop(s, j)
         /\ SubSeq(SubSeq(s, 1, k), 1, j) = SubSeq(s, 1, j)
<1> DEFINE p == SubSeq(s, 1, k)
           q == Drop(s, k)
<1>1. Len(s) \in Nat /\ k \in Nat /\ j \in Nat
  BY Elements
<1>2. p \in Seq(S) /\ Len(p) = k /\ \A i \in 1..k : p[i] = s[i]
  BY Taken
<1>3. q \in Seq(S) /\ Len(q) = Len(s) - k /\ \A i \in 1..(Len(s) - k) : q[i] = s[k + i]
  BY Dropped
<1> HIDE DEF p, q
<1> DEFINE r == p \o q
<1>4. /\ r \in Seq(S) /\ Len(r) = Len(p) + Len(q)
      /\ \A i \in 1..Len(p) : r[i] = p[i]
      /\ \A i \in 1..Len(q) : r[Len(p) + i] = q[i]
  BY <1>2, <1>3, Joined
<1> HIDE DEF r
<1>5. ASSUME NEW i \in 1..Len(r) PROVE r[i] = s[i]
  <2>1. CASE i \in 1..k
    BY <1>2, <1>4, <2>1
  <2>2. CASE i \notin 1..k
    <3> DEFINE h == i - k
    <3>1. h \in 1..Len(q) /\ k + h = i
      BY <1>1, <1>2, <1>3, <1>4, <2>2
    <3> HIDE DEF h
    <3> QED
      BY <1>2, <1>3, <1>4, <3>1
  <2> QED
    BY <2>1, <2>2
<1>6. r = s
  <2>1. Len(r) = Len(s)
    BY <1>1, <1>2, <1>3, <1>4
  <2> QED
    BY <1>4, <1>5, <2>1, SeqEqual
<1>7. j \in 0..Len(p)
  BY <1>2
<1>8. SubSeq(r, 1, j) = SubSeq(p, 1, j) /\ Drop(r, j) = Drop(p, j) \o q
  BY <1>2, <1>3, <1>7, InFirst DEF r
<1>9. p \o q = s /\ Drop(p, j) \o q = Drop(s, j) /\ SubSeq(p, 1, j) = SubSeq(s, 1, j)
  <2>1. p \o q = s
    BY <1>6 DEF r
  <2> QED
    BY <1>6, <1>8, <2>1
<1> QED
  BY <1>9 DEF p, q

LEMMA Rejoined ==
  ASSUME NEW S, NEW s \in Seq(S), NEW k \in 0..Len(s)
  PROVE  SubSeq(s, 1, k) \o Drop(s, k) = s
<1>1. 0 \in 0..k
  BY Elements
<1> QED
  BY <1>1, Again

-----------------------------------------------------------------------------
(* The recursive functions exist. *)

Halved(n, w, g) == g = [i \in 0..w |-> IF i = 0 THEN n ELSE g[i - 1] \div 16]

LEMMA HalvedExist ==
  ASSUME NEW n, NEW w \in Nat
  PROVE  \E g : Halved(n, w, g)
<1> DEFINE S == {k \in 0..w : \E g : Halved(n, k, g)}
<1>1. 0 \in S
  <2> DEFINE g == [i \in 0..0 |-> n]
  <2>1. Halved(n, 0, g)
    BY DEF Halved
  <2> QED
    BY <2>1
<1>2. ASSUME NEW k \in 0..w, k + 1 <= w, k \in S
      PROVE  k + 1 \in S
  <2>1. PICK h : Halved(n, k, h)
    BY <1>2
  <2> DEFINE g == [i \in 0..(k + 1) |-> IF i = k + 1 THEN h[k] \div 16 ELSE h[i]]
  <2>2. ASSUME NEW i \in 0..(k + 1)
        PROVE  g[i] = IF i = 0 THEN n ELSE g[i - 1] \div 16
    <3>1. CASE i = k + 1
      BY <3>1
    <3>2. CASE i \in 0..k
      <4>1. h[i] = IF i = 0 THEN n ELSE h[i - 1] \div 16
        BY <2>1, <3>2 DEF Halved
      <4>2. g[i] = h[i] /\ (i # 0 => g[i - 1] = h[i - 1])
        BY <3>2
      <4> QED
        BY <4>1, <4>2
    <3> QED
      BY <3>1, <3>2
  <2>3. g = [i \in 0..(k + 1) |-> g[i]]
    OBVIOUS
  <2> HIDE DEF g
  <2>4. Halved(n, k + 1, g)
    BY <2>2, <2>3 DEF Halved
  <2> QED
    BY <1>2, <2>4
<1> HIDE DEF S
<1>3. 0..w \subseteq S
  BY <1>1, <1>2, UpTo
<1> QED
  BY <1>3 DEF S

LEMMA QuotientsAre ==
  ASSUME NEW n \in Nat, NEW w \in Nat
  PROVE  /\ Quotients(n, w)[0] = n
         /\ \A i \in 0..w : Quotients(n, w)[i] \in Nat
         /\ \A i \in 1..w : Quotients(n, w)[i] = Quotients(n, w)[i - 1] \div 16
<1> DEFINE q[i \in 0..w] == IF i = 0 THEN n ELSE q[i - 1] \div 16
<1>1. \E g : g = [i \in 0..w |-> IF i = 0 THEN n ELSE g[i - 1] \div 16]
  BY HalvedExist DEF Halved
<1>2. q = [i \in 0..w |-> IF i = 0 THEN n ELSE q[i - 1] \div 16]
  BY <1>1
<1>3. Quotients(n, w) = q
  BY DEF Quotients
<1> HIDE DEF q
<1>4. q[0] = n /\ \A i \in 1..w : q[i] = q[i - 1] \div 16
  BY <1>2
<1> DEFINE S == {k \in 0..w : q[k] \in Nat}
<1>5. 0 \in S
  BY <1>4
<1>6. ASSUME NEW k \in 0..w, k + 1 <= w, k \in S
      PROVE  k + 1 \in S
  <2>1. k + 1 \in 1..w /\ (k + 1) - 1 = k /\ q[k] \in Nat
    BY <1>6
  <2>2. q[k + 1] = q[k] \div 16
    BY <1>4, <2>1
  <2>3. \A x \in Nat : x \div 16 \in Nat
    OBVIOUS
  <2> QED
    BY <2>1, <2>2, <2>3
<1> HIDE DEF S
<1>7. 0..w \subseteq S
  BY <1>5, <1>6, UpTo
<1>8. \A i \in 0..w : q[i] \in Nat
  BY <1>7 DEF S
<1> QED
  BY <1>3, <1>4, <1>8

Summed(s, n, g) ==
  g = [i \in 0..n |-> IF i = 0 THEN 0 ELSE 16 * g[i - 1] + DigitValue(s[i])]

LEMMA SummedExist ==
  ASSUME NEW s, NEW n \in Nat
  PROVE  \E g : Summed(s, n, g)
<1> DEFINE S == {k \in 0..n : \E g : Summed(s, k, g)}
<1>1. 0 \in S
  <2> DEFINE g == [i \in 0..0 |-> 0]
  <2>1. Summed(s, 0, g)
    BY DEF Summed
  <2> QED
    BY <2>1
<1>2. ASSUME NEW k \in 0..n, k + 1 <= n, k \in S
      PROVE  k + 1 \in S
  <2>1. PICK h : Summed(s, k, h)
    BY <1>2
  <2> DEFINE g == [i \in 0..(k + 1) |->
                     IF i = k + 1 THEN 16 * h[k] + DigitValue(s[k + 1]) ELSE h[i]]
  <2>2. ASSUME NEW i \in 0..(k + 1)
        PROVE  g[i] = IF i = 0 THEN 0 ELSE 16 * g[i - 1] + DigitValue(s[i])
    <3>1. CASE i = k + 1
      BY <3>1
    <3>2. CASE i \in 0..k
      <4>1. h[i] = IF i = 0 THEN 0 ELSE 16 * h[i - 1] + DigitValue(s[i])
        BY <2>1, <3>2 DEF Summed
      <4>2. g[i] = h[i] /\ (i # 0 => g[i - 1] = h[i - 1])
        BY <3>2
      <4> QED
        BY <4>1, <4>2
    <3> QED
      BY <3>1, <3>2
  <2>3. g = [i \in 0..(k + 1) |-> g[i]]
    OBVIOUS
  <2> HIDE DEF g
  <2>4. Summed(s, k + 1, g)
    BY <2>2, <2>3 DEF Summed
  <2> QED
    BY <1>2, <2>4
<1> HIDE DEF S
<1>3. 0..n \subseteq S
  BY <1>1, <1>2, UpTo
<1> QED
  BY <1>3 DEF S

LEMMA NumberSums ==
  ASSUME NEW s, Digits(s) \in Nat
  PROVE  \E g : Summed(s, Digits(s), g) /\ Number(s) = g[Digits(s)]
<1> DEFINE value[i \in 0..Digits(s)] ==
             IF i = 0 THEN 0 ELSE 16 * value[i - 1] + DigitValue(s[i])
<1>1. \E g : g = [i \in 0..Digits(s) |->
                    IF i = 0 THEN 0 ELSE 16 * g[i - 1] + DigitValue(s[i])]
  BY SummedExist DEF Summed
<1>2. value = [i \in 0..Digits(s) |->
                 IF i = 0 THEN 0 ELSE 16 * value[i - 1] + DigitValue(s[i])]
  BY <1>1
<1>3. Number(s) = value[Digits(s)]
  BY DEF Number
<1> HIDE DEF value
<1> QED
  BY <1>2, <1>3 DEF Summed

-----------------------------------------------------------------------------
(* A size that was written in digits enough is read as it was written,     *)
(* whatever stands behind the digits, if it is no digit.                   *)

LEMMA HexIsRead ==
  \A d \in 0..15 : Hex(d) \in Byte /\ Hex(d) \in HexBytes /\ DigitValue(Hex(d)) = d
                   /\ Hex(d) # LF
BY DEF Hex, HexBytes, DigitValue, Zero, Byte, LF

LEMMA TextIsBytes ==
  ASSUME NEW n \in Nat, NEW w \in Nat
  PROVE  /\ SizeText(n, w) \in Seq(Byte) /\ Len(SizeText(n, w)) = w
         /\ \A i \in 1..w : /\ SizeText(n, w)[i] \in HexBytes
                            /\ SizeText(n, w)[i] # LF
                            /\ DigitValue(SizeText(n, w)[i]) = Quotients(n, w)[w - i] % 16
<1> DEFINE q == Quotients(n, w)
<1>1. \A i \in 0..w : q[i] \in Nat
  BY QuotientsAre
<1>2. SizeText(n, w) = [i \in 1..w |-> Hex(q[w - i] % 16)]
  BY DEF SizeText
<1> HIDE DEF q
<1>3. ASSUME NEW i \in 1..w
      PROVE  q[w - i] % 16 \in 0..15
  <2>1. w - i \in 0..w
    OBVIOUS
  <2>2. \A x \in Nat : x % 16 \in 0..15
    OBVIOUS
  <2> QED
    BY <1>1, <2>1, <2>2
<1>4. SizeText(n, w) \in [1..w -> Byte]
  BY <1>2, <1>3, HexIsRead
<1>5. SizeText(n, w) \in Seq(Byte) /\ Len(SizeText(n, w)) = w
  BY <1>4, SeqDef
<1>6. ASSUME NEW i \in 1..w
      PROVE  /\ SizeText(n, w)[i] \in HexBytes /\ SizeText(n, w)[i] # LF
             /\ DigitValue(SizeText(n, w)[i]) = q[w - i] % 16
  <2>1. SizeText(n, w)[i] = Hex(q[w - i] % 16)
    BY <1>2
  <2> QED
    BY <1>3, <2>1, HexIsRead
<1> QED
  BY <1>5, <1>6 DEF q

LEMMA DigitsAre ==
  ASSUME NEW w \in Nat, NEW s \in Seq(Byte), w <= Len(s),
         \A i \in 1..w : s[i] \in HexBytes,
         w < Len(s) => s[w + 1] \notin HexBytes
  PROVE  Digits(s) = w
<1> DEFINE Fits(k) == /\ \A i \in 1..k : s[i] \in HexBytes
                      /\ k < Len(s) => s[k + 1] \notin HexBytes
<1>0. Len(s) \in Nat
  BY Elements
<1>1. w \in 0..Len(s) /\ Fits(w)
  BY <1>0
<1>2. ASSUME NEW k \in 0..Len(s), Fits(k) PROVE k = w
  <2>1. ~(k < w)
    <3>1. k < w => k + 1 \in 1..w /\ k < Len(s)
      BY <1>0
    <3> QED
      BY <1>2, <3>1
  <2>2. ~(w < k)
    <3>1. w < k => w + 1 \in 1..k /\ w < Len(s)
      BY <1>0
    <3> QED
      BY <1>2, <3>1
  <2> QED
    BY <1>0, <2>1, <2>2
<1>3. Digits(s) = CHOOSE k \in 0..Len(s) : Fits(k)
  BY DEF Digits
<1> HIDE DEF Fits
<1> QED
  BY <1>1, <1>2, <1>3

(* A chunk size that a client writes in hexadecimal digits enough, with or *)
(* without zeros before it, stoul(line, 0, 16) reads as that size, if what *)
(* follows on the line, an extension or the '\r', begins with no digit.    *)
THEOREM SizeIsRead ==
  ASSUME NEW n \in Nat, NEW w \in Nat, Quotients(n, w)[w] = 0,
         NEW t \in Seq(Byte), t # <<>> => t[1] \notin HexBytes
  PROVE  Digits(SizeText(n, w) \o t) = w /\ Number(SizeText(n, w) \o t) = n
<1> DEFINE text == SizeText(n, w)
           s == text \o t
           q == Quotients(n, w)
<1>0. /\ q[0] = n /\ q[w] = 0
      /\ \A i \in 0..w : q[i] \in Nat
      /\ \A i \in 1..w : q[i] = q[i - 1] \div 16
  BY QuotientsAre
<1>1. text \in Seq(Byte) /\ Len(text) = w
      /\ \A i \in 1..w : text[i] \in HexBytes /\ DigitValue(text[i]) = q[w - i] % 16
  BY TextIsBytes
<1> HIDE DEF text, q
<1>2. /\ s \in Seq(Byte) /\ Len(s) = Len(text) + Len(t)
      /\ \A i \in 1..Len(text) : s[i] = text[i]
      /\ \A i \in 1..Len(t) : s[Len(text) + i] = t[i]
  <2>1. text \in Seq(Byte)
    BY <1>1
  <2> QED
    BY <2>1, Joined
<1>3. Len(t) \in Nat
  BY Elements
<1> HIDE DEF s
<1>4. \A i \in 1..w : s[i] \in HexBytes /\ DigitValue(s[i]) = q[w - i] % 16
  BY <1>1, <1>2
<1>5. w < Len(s) => s[w + 1] \notin HexBytes
  <2> SUFFICES ASSUME w < Len(s) PROVE s[w + 1] \notin HexBytes
    OBVIOUS
  <2>1. 1 \in 1..Len(t)
    BY <1>1, <1>2, <1>3
  <2>2. s[w + 1] = t[1]
    BY <1>1, <1>2, <2>1
  <2>3. t # <<>>
    BY <2>1
  <2> QED
    BY <2>2, <2>3
<1>6. Digits(s) = w
  <2>1. w <= Len(s)
    BY <1>1, <1>2, <1>3
  <2>2. s \in Seq(Byte)
    BY <1>2
  <2> QED
    BY <1>4, <1>5, <2>1, <2>2, DigitsAre
<1>7. PICK g : Summed(s, w, g) /\ Number(s) = g[w]
  BY <1>6, NumberSums
<1>8. g[0] = 0 /\ \A i \in 1..w : g[i] = 16 * g[i - 1] + DigitValue(s[i])
  BY <1>7 DEF Summed
<1> DEFINE S == {k \in 0..w : g[k] = q[w - k]}
<1>9. 0 \in S
  BY <1>0, <1>8
<1>10. ASSUME NEW k \in 0..w, k + 1 <= w, k \in S
       PROVE  k + 1 \in S
  <2> DEFINE x == q[w - (k + 1)]
  <2>1. k + 1 \in 1..w /\ (k + 1) - 1 = k /\ w - k \in 1..w /\ w - (k + 1) \in 0..w
        /\ (w - k) - 1 = w - (k + 1)
    BY <1>10
  <2>2. x \in Nat /\ q[w - k] = x \div 16 /\ g[k] = q[w - k]
    BY <1>0, <1>10, <2>1
  <2>3. g[k + 1] = 16 * g[k] + (x % 16)
    <3>1. g[k + 1] = 16 * g[(k + 1) - 1] + DigitValue(s[k + 1])
      BY <1>8, <2>1
    <3>2. DigitValue(s[k + 1]) = x % 16
      BY <1>4, <2>1
    <3> HIDE DEF x
    <3> QED
      BY <2>1, <3>1, <3>2
  <2> HIDE DEF x
  <2>4. \A y \in Nat, b \in Nat \ {0} : (y \div b) * b + (y % b) = y
    OBVIOUS
  <2>5. g[k + 1] = x
    <3>1. (x \div 16) * 16 + (x % 16) = x /\ x \div 16 \in Nat /\ x % 16 \in Nat
      BY <2>2, <2>4
    <3> QED
      BY <2>2, <2>3, <3>1
  <2> QED
    BY <2>1, <2>5 DEF x
<1> HIDE DEF S
<1>11. 0..w \subseteq S
  BY <1>9, <1>10, UpTo
<1>12. g[w] = q[0]
  <2>1. w \in 0..w /\ w - w = 0
    OBVIOUS
  <2> QED
    BY <1>11, <2>1 DEF S
<1>13. Digits(s) = w /\ Number(s) = n
  BY <1>0, <1>6, <1>7, <1>12
<1> QED
  BY <1>13 DEF s, text

-----------------------------------------------------------------------------
(* Lines. *)

LEMMA ByteFacts ==
  /\ CR \in Byte /\ LF \in Byte /\ CR # LF
  /\ CRLF \in Seq(Byte) /\ Len(CRLF) = 2 /\ CRLF[1] = CR /\ CRLF[2] = LF
  /\ <<CR>> \in Seq(Byte) /\ Len(<<CR>>) = 1 /\ <<CR>>[1] = CR
  /\ <<LF>> \in Seq(Byte) /\ Len(<<LF>>) = 1 /\ <<LF>>[1] = LF
  /\ Semicolon \in Byte \ HexBytes /\ CR \notin HexBytes
  /\ <<>> \in Seq(Byte) /\ Len(<<>>) = 0
<1>1. CR \in Byte /\ LF \in Byte /\ CR # LF
  BY DEF CR, LF, Byte
<1>2. Semicolon \in Byte \ HexBytes /\ CR \notin HexBytes
  BY DEF CR, Semicolon, HexBytes, Zero, Byte
<1>3. <<>> \in Seq(Byte) /\ Len(<<>>) = 0
  BY EmptySeq
<1> QED
  BY <1>1, <1>2, <1>3 DEF CRLF

(* The first '\n' of s is the second byte of "\r\n", and is its l-th.      *)
LineTo(s, l) == /\ l \in 2..Len(s) /\ s[l] = LF /\ s[l - 1] = CR
                /\ \A i \in 1..(l - 1) : s[i] # LF

LEMMA TwoBytes ==
  ASSUME NEW s \in Seq(Byte), NEW e \in 2..Len(s)
  PROVE  SubSeq(s, e - 1, e) = CRLF <=> s[e - 1] = CR /\ s[e] = LF
<1>1. Len(s) \in Nat /\ e - 1 \in Nat \ {0} /\ e \in Nat /\ e <= Len(s)
  BY Elements
<1> DEFINE p == SubSeq(s, e - 1, e)
<1>2. /\ p \in Seq(Byte)
      /\ Len(p) = IF e - 1 <= e THEN e - (e - 1) + 1 ELSE 0
      /\ \A i \in 1..(e - (e - 1) + 1) : p[i] = s[(e - 1) + i - 1]
  BY <1>1, Part
<1> HIDE DEF p
<1>3. p \in Seq(Byte) /\ Len(p) = 2 /\ p[1] = s[e - 1] /\ p[2] = s[e]
  <2>1. e - (e - 1) + 1 = 2 /\ (e - 1) + 1 - 1 = e - 1 /\ (e - 1) + 2 - 1 = e
        /\ 1 \in 1..2 /\ 2 \in 1..2 /\ e - 1 <= e
    BY <1>1
  <2> QED
    BY <1>2, <2>1
<1>4. p[1] = CR /\ p[2] = LF => p = CRLF
  <2> SUFFICES ASSUME p[1] = CR, p[2] = LF PROVE p = CRLF
    OBVIOUS
  <2>1. \A i \in 1..Len(p) : p[i] = CRLF[i]
    <3>1. \A i \in 1..2 : i = 1 \/ i = 2
      OBVIOUS
    <3> QED
      BY <1>3, <3>1, ByteFacts
  <2> QED
    BY <1>3, <2>1, ByteFacts, SeqEqual
<1>5. p = CRLF => p[1] = CR /\ p[2] = LF
  BY ByteFacts
<1>6. p = CRLF <=> s[e - 1] = CR /\ s[e] = LF
  BY <1>3, <1>4, <1>5
<1> QED
  BY <1>6 DEF p

LEMMA LineFound ==
  ASSUME NEW s \in Seq(Byte), NEW l, LineTo(s, l)
  PROVE  FirstLF(s) = l /\ LineEnd(s, l) /\ \A e \in DOMAIN s : LineEnd(s, e) => e = l
<1>0. Len(s) \in Nat /\ DOMAIN s = 1..Len(s) /\ l \in 2..Len(s)
  BY Elements DEF LineTo
<1>1. FirstLF(s) = l
  <2> DEFINE First(i) == s[i] = LF /\ \A j \in 1..(i - 1) : s[j] # LF
  <2>1. l \in DOMAIN s /\ First(l)
    BY <1>0 DEF LineTo
  <2>2. ASSUME NEW i \in DOMAIN s, First(i) PROVE i = l
    <3>1. i < l => i \in 1..(l - 1)
      BY <1>0
    <3>2. l < i => l \in 1..(i - 1)
      BY <1>0
    <3>3. ~(i < l) /\ ~(l < i)
      BY <2>1, <2>2, <3>1, <3>2
    <3> QED
      BY <1>0, <3>3
  <2>3. FirstLF(s) = CHOOSE i \in DOMAIN s : First(i)
    BY DEF FirstLF
  <2> HIDE DEF First
  <2> QED
    BY <2>1, <2>2, <2>3
<1>2. \A e \in 2..Len(s) : SubSeq(s, e - 1, e) = CRLF => e >= l
  <2> TAKE e \in 2..Len(s)
  <2>1. SubSeq(s, e - 1, e) = CRLF => s[e] = LF
    BY TwoBytes
  <2>2. e < l => e \in 1..(l - 1)
    BY <1>0
  <2>3. SubSeq(s, e - 1, e) = CRLF => ~(e < l)
    BY <2>1, <2>2 DEF LineTo
  <2> QED
    BY <1>0, <2>3
<1>3. SubSeq(s, l - 1, l) = CRLF
  BY <1>0, TwoBytes DEF LineTo
<1>4. LineEnd(s, l)
  <2>1. \A j \in 2..(l - 1) : SubSeq(s, j - 1, j) # CRLF
    <3> TAKE j \in 2..(l - 1)
    <3>1. j \in 2..Len(s) /\ ~(j >= l)
      BY <1>0
    <3> QED
      BY <1>2, <3>1
  <2> QED
    BY <1>0, <1>3, <2>1 DEF LineEnd
<1>5. ASSUME NEW e \in DOMAIN s, LineEnd(s, e) PROVE e = l
  <2>1. e \in 2..Len(s) /\ SubSeq(s, e - 1, e) = CRLF
        /\ \A j \in 2..(e - 1) : SubSeq(s, j - 1, j) # CRLF
    BY <1>5 DEF LineEnd
  <2>2. e >= l
    BY <1>2, <2>1
  <2>3. ~(l < e)
    <3>1. l < e => l \in 2..(e - 1)
      BY <1>0, <2>1
    <3> QED
      BY <1>3, <2>1, <3>1
  <2> QED
    BY <1>0, <2>1, <2>2, <2>3
<1> QED
  BY <1>1, <1>4, <1>5

(* The line in what has been received of it and of what is behind it.      *)
LEMMA LineReceived ==
  ASSUME NEW s \in Seq(Byte), NEW l, LineTo(s, l), NEW k \in 0..Len(s)
  PROVE  /\ k >= l => LineTo(SubSeq(s, 1, k), l)
         /\ \A e \in DOMAIN SubSeq(s, 1, k) : LineEnd(SubSeq(s, 1, k), e) => e = l /\ k >= l
<1> DEFINE p == SubSeq(s, 1, k)
<1>0. Len(s) \in Nat /\ l \in 2..Len(s)
  BY Elements DEF LineTo
<1>1. p \in Seq(Byte) /\ Len(p) = k /\ \A i \in 1..k : p[i] = s[i]
  BY Taken
<1> HIDE DEF p
<1>2. k >= l => LineTo(p, l)
  <2> SUFFICES ASSUME k >= l PROVE LineTo(p, l)
    OBVIOUS
  <2>1. l \in 2..Len(p) /\ l \in 1..k /\ l - 1 \in 1..k /\ 1..(l - 1) \subseteq 1..k
    BY <1>0, <1>1
  <2> QED
    BY <1>1, <2>1 DEF LineTo
<1>3. ASSUME NEW e \in DOMAIN p, LineEnd(p, e) PROVE e = l /\ k >= l
  <2>1. CASE k >= l
    BY <1>1, <1>2, <1>3, <2>1, LineFound
  <2>2. CASE ~(k >= l)
    <3>1. e \in 2..Len(p) /\ SubSeq(p, e - 1, e) = CRLF
      BY <1>3 DEF LineEnd
    <3>2. p[e] = LF
      BY <1>1, <3>1, TwoBytes
    <3>3. e \in 1..k /\ e \in 1..(l - 1)
      BY <1>0, <1>1, <2>2, <3>1
    <3>4. p[e] = s[e] /\ s[e] # LF
      BY <1>1, <3>3 DEF LineTo
    <3> QED
      BY <3>2, <3>4
  <2> QED
    BY <2>1, <2>2
<1> QED
  BY <1>2, <1>3 DEF p

(* A chunk's size, a line of its own.                                      *)
SizeForm(z) == /\ z.digits \in 1..16 /\ z.extension \in Seq(Byte \ {LF})
               /\ z.extension # <<>> => z.extension[1] = Semicolon
               /\ z.digits + Len(z.extension) + 2 <= LineBuffer

OneDigit == [digits |-> 1, extension |-> <<>>]

LEMMA SizeForms == SizeForm(OneDigit) /\ \A z \in Sizes : SizeForm(z)
<1>1. <<>> \in Seq(Byte \ {LF}) /\ Len(<<>>) = 0
  BY EmptySeq
<1>2. SizeForm(OneDigit)
  BY <1>1, SizesAssumption, BoundsAssumption DEF SizeForm, OneDigit
<1> QED
  BY <1>2, SizesAssumption DEF SizeForm, Byte

LEMMA SizeParts ==
  ASSUME NEW n \in Nat, NEW z, SizeForm(z)
  PROVE  /\ SizeText(n, z.digits) \in Seq(Byte) /\ Len(SizeText(n, z.digits)) = z.digits
         /\ z.extension \in Seq(Byte) /\ Len(z.extension) \in Nat /\ z.digits \in Nat
         /\ SizeText(n, z.digits) \o z.extension \in Seq(Byte)
         /\ Len(SizeText(n, z.digits) \o z.extension) = z.digits + Len(z.extension)
         /\ \A i \in 1..(z.digits + Len(z.extension)) :
              (SizeText(n, z.digits) \o z.extension)[i] # LF
<1> DEFINE text == SizeText(n, z.digits)
           x == z.extension
           t == text \o x
<1>0. z.digits \in Nat /\ x \in Seq(Byte \ {LF})
  BY DEF SizeForm
<1>1. text \in Seq(Byte) /\ Len(text) = z.digits /\ \A i \in 1..z.digits : text[i] # LF
  BY <1>0, TextIsBytes
<1>2. x \in Seq(Byte) /\ Len(x) \in Nat /\ \A i \in 1..Len(x) : x[i] # LF
  <2>1. Byte \ {LF} \subseteq Byte
    OBVIOUS
  <2>2. Len(x) \in Nat /\ \A i \in 1..Len(x) : x[i] \in Byte \ {LF}
    BY <1>0, Elements
  <2> QED
    BY <1>0, <2>1, <2>2, SeqMonotonic
<1> HIDE DEF text, x
<1>3. /\ t \in Seq(Byte) /\ Len(t) = Len(text) + Len(x)
      /\ \A i \in 1..Len(text) : t[i] = text[i]
      /\ \A i \in 1..Len(x) : t[Len(text) + i] = x[i]
  BY <1>1, <1>2, Joined
<1> HIDE DEF t
<1>4. ASSUME NEW i \in 1..(z.digits + Len(x)) PROVE t[i] # LF
  <2>1. CASE i \in 1..z.digits
    BY <1>1, <1>3, <2>1
  <2>2. CASE i \notin 1..z.digits
    <3> DEFINE j == i - z.digits
    <3>1. j \in 1..Len(x) /\ Len(text) + j = i
      BY <1>0, <1>1, <1>2, <2>2
    <3> HIDE DEF j
    <3> QED
      BY <1>2, <1>3, <3>1
  <2> QED
    BY <2>1, <2>2
<1>5. t \in Seq(Byte) /\ Len(t) = z.digits + Len(x)
  BY <1>1, <1>3
<1> QED
  BY <1>0, <1>1, <1>2, <1>4, <1>5 DEF text, x, t

LEMMA SizeLineIs ==
  ASSUME NEW n \in Nat, NEW z, SizeForm(z), NEW m \in Seq(Byte)
  PROVE  /\ SizeLine(n, z) \in Seq(Byte)
         /\ Len(SizeLine(n, z)) \in 3..LineBuffer
         /\ SizeLine(n, z) \o m \in Seq(Byte)
         /\ Len(SizeLine(n, z) \o m) = Len(SizeLine(n, z)) + Len(m)
         /\ LineTo(SizeLine(n, z) \o m, Len(SizeLine(n, z)))
<1> DEFINE t == SizeText(n, z.digits) \o z.extension
           k == z.digits + Len(z.extension)
           l == t \o CRLF
           s == l \o m
<1>1. /\ t \in Seq(Byte) /\ Len(t) = k /\ k \in Nat /\ k > 0 /\ k + 2 <= LineBuffer
      /\ \A i \in 1..k : t[i] # LF
  <2>1. z.digits >= 1 /\ z.digits + Len(z.extension) + 2 <= LineBuffer
    BY DEF SizeForm
  <2>2. z.digits \in Nat /\ Len(z.extension) \in Nat
    BY SizeParts
  <2>3. t \in Seq(Byte) /\ Len(t) = k
    BY SizeParts
  <2>4. \A i \in 1..k : t[i] # LF
    BY SizeParts
  <2> HIDE DEF t
  <2> QED
    BY <2>1, <2>2, <2>3, <2>4
<1>2. SizeLine(n, z) = l
  BY DEF SizeLine
<1> HIDE DEF t, k
<1>3. /\ l \in Seq(Byte) /\ Len(l) = Len(t) + Len(CRLF)
      /\ \A i \in 1..Len(t) : l[i] = t[i]
      /\ \A i \in 1..Len(CRLF) : l[Len(t) + i] = CRLF[i]
  <2>1. t \in Seq(Byte) /\ CRLF \in Seq(Byte)
    BY <1>1, ByteFacts
  <2> QED
    BY <2>1, Joined
<1> HIDE DEF l
<1>4. Len(l) = k + 2 /\ l[k + 1] = CR /\ l[k + 2] = LF /\ \A i \in 1..k : l[i] # LF
  <2>1. 1 \in 1..Len(CRLF) /\ 2 \in 1..Len(CRLF)
    BY ByteFacts
  <2>2. l[Len(t) + 1] = CRLF[1] /\ l[Len(t) + 2] = CRLF[2]
    BY <1>3, <2>1
  <2>3. Len(l) = k + 2
    BY <1>1, <1>3, ByteFacts
  <2> QED
    BY <1>1, <1>3, <2>2, <2>3, ByteFacts
<1>5. /\ s \in Seq(Byte) /\ Len(s) = Len(l) + Len(m)
      /\ \A i \in 1..Len(l) : s[i] = l[i]
  <2>1. l \in Seq(Byte)
    BY <1>3
  <2> QED
    BY <2>1, Joined
<1>6. Len(m) \in Nat
  BY Elements
<1> HIDE DEF s
<1>7. LineTo(s, Len(l))
  <2>1. Len(l) \in 2..Len(s) /\ k + 1 \in 1..Len(l) /\ k + 2 \in 1..Len(l)
        /\ Len(l) - 1 = k + 1
    BY <1>1, <1>4, <1>5, <1>6
  <2>2. s[k + 1] = CR /\ s[k + 2] = LF
    BY <1>4, <1>5, <2>1
  <2>3. ASSUME NEW i \in 1..(k + 1) PROVE s[i] # LF
    <3>1. i \in 1..Len(l)
      BY <1>1, <1>4
    <3>2. s[i] = l[i]
      BY <1>5, <3>1
    <3>3. CASE i = k + 1
      BY <1>4, <3>2, <3>3, ByteFacts
    <3>4. CASE i \in 1..k
      BY <1>4, <3>2, <3>4
    <3> QED
      BY <1>1, <3>3, <3>4
  <2> QED
    BY <1>4, <2>1, <2>2, <2>3 DEF LineTo
<1>8. Len(l) \in 3..LineBuffer
  BY <1>1, <1>4, BoundsAssumption
<1>9. l \in Seq(Byte) /\ s \in Seq(Byte) /\ Len(s) = Len(l) + Len(m)
  BY <1>3, <1>5
<1> QED
  BY <1>2, <1>7, <1>8, <1>9 DEF s

LEMMA BehindDigits ==
  ASSUME NEW z, SizeForm(z), NEW u \in Seq(Byte), Len(u) > 0, u[1] = CR
  PROVE  z.extension \o u \in Seq(Byte) /\ (z.extension \o u)[1] \notin HexBytes
<1> DEFINE x == z.extension
           s == x \o u
<1>1. x \in Seq(Byte) /\ Len(x) \in Nat /\ (Len(x) > 0 => x[1] = Semicolon)
  <2>1. x \in Seq(Byte) /\ Len(x) \in Nat
    BY SizeParts
  <2>2. x # <<>> => x[1] = Semicolon
    BY DEF SizeForm
  <2> QED
    BY <2>1, <2>2, ByteFacts
<1> HIDE DEF x
<1>2. /\ s \in Seq(Byte)
      /\ \A i \in 1..Len(x) : s[i] = x[i]
      /\ \A i \in 1..Len(u) : s[Len(x) + i] = u[i]
  BY <1>1, Joined
<1> HIDE DEF s
<1>3. Len(u) \in Nat
  BY Elements
<1>4. CASE Len(x) > 0
  <2>1. 1 \in 1..Len(x)
    BY <1>1, <1>4
  <2>2. s[1] = Semicolon
    BY <1>1, <1>2, <1>4, <2>1
  <2> QED
    BY <1>2, <2>2, ByteFacts DEF s, x
<1>5. CASE Len(x) = 0
  <2>1. 1 \in 1..Len(u) /\ Len(x) + 1 = 1
    BY <1>3, <1>5
  <2>2. s[1] = CR
    BY <1>2, <2>1
  <2> QED
    BY <1>2, <2>2, ByteFacts DEF s, x
<1> QED
  BY <1>1, <1>4, <1>5

(* What the handler makes of a size line with bytes r behind it.           *)
LEMMA SizeInLine ==
  ASSUME NEW n \in Nat, NEW z, SizeForm(z), Quotients(n, z.digits)[z.digits] = 0,
         NEW r \in Seq(Byte)
  PROVE  LET l == SizeLine(n, z) IN
         /\ Digits(l \o r) > 0
         /\ Number(SubSeq(l \o r, 1, Len(l) - 1)) = n
         /\ Drop(l \o r, Len(l)) = r
<1> DEFINE w == z.digits
           text == SizeText(n, w)
           x == z.extension
           te == text \o x
           l == te \o CRLF
           u == CRLF \o r
           c == SubSeq(CRLF, 1, 1)
<1>1. /\ w \in Nat /\ w > 0 /\ text \in Seq(Byte) /\ x \in Seq(Byte) /\ te \in Seq(Byte)
  <2>1. w >= 1
    BY DEF SizeForm
  <2>2. z.digits \in Nat /\ x \in Seq(Byte)
    BY SizeParts
  <2>3. text \in Seq(Byte)
    BY SizeParts
  <2>4. te \in Seq(Byte)
    BY SizeParts
  <2> HIDE DEF text, x, te
  <2> QED
    BY <2>1, <2>2, <2>3, <2>4
<1>2. SizeLine(n, z) = l
  BY DEF SizeLine
<1>3. u \in Seq(Byte) /\ Len(u) > 0 /\ u[1] = CR
  <2>1. Len(r) \in Nat /\ 1 \in 1..Len(CRLF)
    BY Elements, ByteFacts
  <2>2. u \in Seq(Byte) /\ Len(u) = Len(CRLF) + Len(r) /\ u[1] = CRLF[1]
    <3>1. CRLF \in Seq(Byte)
      BY ByteFacts
    <3> QED
      BY <2>1, <3>1, Joined
  <2> HIDE DEF u
  <2> QED
    BY <2>1, <2>2, ByteFacts
<1>4. c \in Seq(Byte) /\ Len(c) > 0 /\ c[1] = CR
  <2>1. 1 \in 0..Len(CRLF) /\ 1 \in 1..1
    BY ByteFacts
  <2>2. c \in Seq(Byte) /\ Len(c) = 1 /\ \A i \in 1..1 : c[i] = CRLF[i]
    BY <2>1, ByteFacts, Taken
  <2> HIDE DEF c
  <2> QED
    BY <2>1, <2>2, ByteFacts
<1>5. l \o r = text \o (x \o u)
  <2>0. te \in Seq(Byte) /\ text \in Seq(Byte) /\ x \in Seq(Byte)
        /\ u \in Seq(Byte) /\ CRLF \in Seq(Byte)
    BY <1>1, <1>3, ByteFacts
  <2>1. l \o r = te \o u
    <3> HIDE DEF te
    <3> QED
      BY <2>0, ConcatAssociative, SMTT(60)
  <2>2. te \o u = text \o (x \o u)
    <3> HIDE DEF text, x, u
    <3> QED
      BY <2>0, ConcatAssociative, SMTT(60)
  <2> QED
    BY <2>1, <2>2
<1>6. SubSeq(l \o r, 1, Len(l) - 1) = text \o (x \o c) /\ Drop(l \o r, Len(l)) = r
  <2>0. /\ l \in Seq(Byte) /\ Len(l) = Len(te) + 2 /\ Len(te) \in Nat /\ Len(r) \in Nat
    <3>1. l \in Seq(Byte) /\ Len(l) = Len(te) + Len(CRLF)
      <4>1. te \in Seq(Byte) /\ CRLF \in Seq(Byte)
        BY <1>1, ByteFacts
      <4> HIDE DEF te
      <4> QED
        BY <4>1, Joined
    <3>2. Len(te) \in Nat /\ Len(r) \in Nat
      BY <1>1, Elements
    <3> QED
      BY <3>1, <3>2, ByteFacts
  <2>1. 1 \in 0..Len(CRLF)
    BY ByteFacts
  <2>2. SubSeq(l, 1, Len(te) + 1) = te \o c
    <3>1. te \in Seq(Byte) /\ CRLF \in Seq(Byte)
      BY <1>1, ByteFacts
    <3> HIDE DEF te
    <3> QED
      BY <2>1, <3>1, InSecond
  <2>3. te \o c = text \o (x \o c)
    <3>1. text \in Seq(Byte) /\ x \in Seq(Byte) /\ c \in Seq(Byte)
      BY <1>1, <1>4
    <3> HIDE DEF text, x, c
    <3> QED
      BY <3>1, ConcatAssociative
  <2> HIDE DEF l, te, c
  <2>4. Len(l) - 1 \in 0..Len(l) /\ Len(l) - 1 = Len(te) + 1 /\ Len(l) \in 0..Len(l)
    BY <2>0
  <2>5. SubSeq(l \o r, 1, Len(l) - 1) = SubSeq(l, 1, Len(l) - 1)
    BY <2>0, <2>4, InFirst
  <2>6. Drop(l \o r, Len(l)) = Drop(l, Len(l)) \o r
    BY <2>0, <2>4, InFirst
  <2>7. Drop(l, Len(l)) \o r = r
    <3>1. Drop(l, Len(l)) = <<>>
      BY <2>0, All
    <3>2. <<>> \o r = r
      BY ConcatEmptySeq
    <3> QED
      BY <3>1, <3>2
  <2> QED
    BY <2>2, <2>3, <2>4, <2>5, <2>6, <2>7 DEF te, c
<1>7. Digits(text \o (x \o u)) = w
  <2>1. x \o u \in Seq(Byte) /\ (x \o u)[1] \notin HexBytes
    BY <1>3, BehindDigits
  <2> HIDE DEF u
  <2> QED
    BY <1>1, <2>1, SizeIsRead
<1>8. Number(text \o (x \o c)) = n
  <2>1. x \o c \in Seq(Byte) /\ (x \o c)[1] \notin HexBytes
    BY <1>4, BehindDigits
  <2> HIDE DEF c
  <2> QED
    BY <1>1, <2>1, SizeIsRead
<1> HIDE DEF text, te, x, u, c
<1>9. Digits(l \o r) > 0 /\ Number(SubSeq(l \o r, 1, Len(l) - 1)) = n /\ Drop(l \o r, Len(l)) = r
  BY <1>1, <1>5, <1>6, <1>7, <1>8
<1> HIDE DEF l
<1> QED
  BY <1>2, <1>9

-----------------------------------------------------------------------------
(* Chunks, the last of them, and what stands for what content: the least   *)
(* set of pairs of bytes and their content.                                *)

Pairs == Seq(Byte) \X Seq(Byte)

Chunking(P) ==
  /\ <<LastChunk, <<>>>> \in P
  /\ \A c \in Chunks, b, d \in Seq(Byte) :
       <<b, d>> \in P => <<EncodeChunk(c) \o b, c.data \o d>> \in P

Coded == {p \in Pairs : \A P \in SUBSET Pairs : Chunking(P) => p \in P}

LEMMA LastIs ==
  /\ LastChunk = SizeLine(0, OneDigit) \o CRLF /\ LastChunk \in Seq(Byte)
  /\ Quotients(0, OneDigit.digits)[OneDigit.digits] = 0
<1>1. Quotients(0, 1)[0] = 0 /\ Quotients(0, 1)[1] = 0
  <2>1. /\ Quotients(0, 1)[0] = 0
        /\ \A i \in 1..1 : Quotients(0, 1)[i] = Quotients(0, 1)[i - 1] \div 16
    BY QuotientsAre
  <2>2. 1 \in 1..1 /\ 1 - 1 = 0 /\ 0 \div 16 = 0
    OBVIOUS
  <2> QED
    BY <2>1, <2>2
<1>2. SizeText(0, 1) = <<Zero>>
  <2>1. SizeText(0, 1) = [i \in 1..1 |-> Hex(Quotients(0, 1)[1 - i] % 16)]
    BY DEF SizeText
  <2>2. \A i \in 1..1 : Hex(Quotients(0, 1)[1 - i] % 16) = Zero
    <3>1. \A i \in 1..1 : 1 - i = 0
      OBVIOUS
    <3>2. Hex(0 % 16) = Zero
      BY DEF Hex, Zero
    <3> QED
      BY <1>1, <3>1, <3>2
  <2>3. SizeText(0, 1) = [i \in 1..1 |-> Zero]
    BY <2>1, <2>2
  <2>4. /\ SizeText(0, 1) \in Seq(Byte) /\ Len(SizeText(0, 1)) = 1
        /\ <<Zero>> \in Seq(Byte) /\ Len(<<Zero>>) = 1
    <3>1. SizeText(0, 1) \in Seq(Byte) /\ Len(SizeText(0, 1)) = 1
      BY TextIsBytes
    <3>2. <<Zero>> \in Seq(Byte) /\ Len(<<Zero>>) = 1
      BY DEF Zero, Byte
    <3> QED
      BY <3>1, <3>2
  <2>5. \A i \in 1..1 : SizeText(0, 1)[i] = <<Zero>>[i]
    BY <2>3
  <2> QED
    BY <2>4, <2>5, SeqEqual
<1>3. SizeLine(0, OneDigit) = <<Zero>> \o CRLF
  <2>1. SizeLine(0, OneDigit) = (SizeText(0, 1) \o <<>>) \o CRLF
    BY DEF SizeLine, OneDigit
  <2>2. <<Zero>> \in Seq(Byte)
    BY DEF Zero, Byte
  <2>3. <<Zero>> \o <<>> = <<Zero>>
    BY <2>2, ConcatEmptySeq
  <2> QED
    BY <1>2, <2>1, <2>3
<1>4. LastChunk = SizeLine(0, OneDigit) \o CRLF
  BY <1>3 DEF LastChunk
<1>5. SizeLine(0, OneDigit) \o CRLF \in Seq(Byte)
  BY ByteFacts, SizeForms, SizeLineIs
<1>6. OneDigit.digits = 1
  BY DEF OneDigit
<1> QED
  BY <1>1, <1>4, <1>5, <1>6

LEMMA ChunkIs ==
  ASSUME NEW c \in Chunks
  PROVE  /\ c.data \in Seq(Byte) /\ Len(c.data) \in Nat /\ Len(c.data) > 0
         /\ SizeForm(c.size)
         /\ Quotients(Len(c.data), c.size.digits)[c.size.digits] = 0
<1>1. /\ c.data \in Contents /\ c.data # <<>> /\ c.size \in Sizes
      /\ Quotients(Len(c.data), c.size.digits)[c.size.digits] = 0
  BY DEF Chunks
<1>2. c.data \in Seq(Byte)
  BY <1>1, ContentsAssumption DEF Byte
<1>3. Len(c.data) \in Nat \ {0}
  BY <1>1, <1>2, EmptySeq
<1> QED
  BY <1>1, <1>2, <1>3, SizeForms

LEMMA EncodedIs ==
  ASSUME NEW c \in Chunks, NEW b \in Seq(Byte)
  PROVE  /\ EncodeChunk(c) \in Seq(Byte) /\ EncodeChunk(c) \o b \in Seq(Byte)
         /\ CRLF \o b \in Seq(Byte) /\ c.data \o (CRLF \o b) \in Seq(Byte)
         /\ EncodeChunk(c) \o b = SizeLine(Len(c.data), c.size) \o (c.data \o (CRLF \o b))
<1> DEFINE l == SizeLine(Len(c.data), c.size)
           d == c.data
           e == (l \o d) \o CRLF
<1>1. d \in Seq(Byte)
  BY ChunkIs
<1>2. l \in Seq(Byte)
  <2>1. Len(c.data) \in Nat /\ SizeForm(c.size)
    BY ChunkIs
  <2> QED
    BY <2>1, ByteFacts, SizeLineIs
<1>3. EncodeChunk(c) = e
  BY DEF EncodeChunk
<1>4. CRLF \in Seq(Byte)
  BY ByteFacts
<1> HIDE DEF l, d
<1>5. l \o d \in Seq(Byte) /\ CRLF \o b \in Seq(Byte)
  BY <1>1, <1>2, <1>4, ConcatProperties
<1>6. e \in Seq(Byte) /\ d \o (CRLF \o b) \in Seq(Byte)
  BY <1>1, <1>4, <1>5, ConcatProperties
<1>7. e \o b \in Seq(Byte)
  BY <1>6, ConcatProperties
<1>8. e \o b = (l \o d) \o (CRLF \o b)
  <2> DEFINE h == l \o d
  <2>1. h \in Seq(Byte)
    BY <1>5
  <2> HIDE DEF h
  <2>2. (h \o CRLF) \o b = h \o (CRLF \o b)
    BY <1>4, <2>1, ConcatAssociative
  <2> QED
    BY <2>2 DEF h
<1>9. (l \o d) \o (CRLF \o b) = l \o (d \o (CRLF \o b))
  <2> DEFINE r == CRLF \o b
  <2>1. r \in Seq(Byte)
    BY <1>5
  <2> HIDE DEF r
  <2>2. (l \o d) \o r = l \o (d \o r)
    BY <1>1, <1>2, <2>1, ConcatAssociative
  <2> QED
    BY <2>2 DEF r
<1>10. e \o b = l \o (d \o (CRLF \o b))
  BY <1>8, <1>9
<1> HIDE DEF e
<1>11. /\ EncodeChunk(c) \in Seq(Byte) /\ EncodeChunk(c) \o b \in Seq(Byte)
       /\ EncodeChunk(c) \o b = l \o (d \o (CRLF \o b))
  BY <1>3, <1>6, <1>7, <1>10
<1> QED
  BY <1>5, <1>6, <1>11 DEF l, d

LEMMA CodedIsChunking ==
  /\ <<LastChunk, <<>>>> \in Coded
  /\ \A c \in Chunks, b, d \in Seq(Byte) :
       <<b, d>> \in Coded => <<EncodeChunk(c) \o b, c.data \o d>> \in Coded
<1>1. <<LastChunk, <<>>>> \in Coded
  <2>1. <<LastChunk, <<>>>> \in Pairs
    <3>1. LastChunk \in Seq(Byte) /\ <<>> \in Seq(Byte)
      BY LastIs, ByteFacts
    <3> QED
      BY <3>1 DEF Pairs
  <2>2. \A P \in SUBSET Pairs : Chunking(P) => <<LastChunk, <<>>>> \in P
    BY DEF Chunking
  <2> QED
    BY <2>1, <2>2 DEF Coded
<1>2. ASSUME NEW c \in Chunks, NEW b \in Seq(Byte), NEW d \in Seq(Byte), <<b, d>> \in Coded
      PROVE  <<EncodeChunk(c) \o b, c.data \o d>> \in Coded
  <2> DEFINE p == <<EncodeChunk(c) \o b, c.data \o d>>
  <2>1. p \in Pairs
    <3>1. EncodeChunk(c) \o b \in Seq(Byte)
      BY EncodedIs
    <3>2. c.data \o d \in Seq(Byte)
      <4>1. c.data \in Seq(Byte)
        BY ChunkIs
      <4> QED
        BY <4>1, ConcatProperties
    <3> QED
      BY <3>1, <3>2 DEF Pairs
  <2>2. ASSUME NEW P \in SUBSET Pairs, Chunking(P) PROVE p \in P
    <3>1. <<b, d>> \in P
      BY <1>2, <2>2 DEF Coded
    <3> QED
      BY <2>2, <3>1 DEF Chunking
  <2> HIDE DEF p
  <2>3. p \in Coded
    BY <2>1, <2>2 DEF Coded
  <2> QED
    BY <2>3 DEF p
<1> QED
  BY <1>1, <1>2

(* Either the last chunk is there, or a chunk with others behind it.       *)
LastOnly(b, d) == b = LastChunk /\ d = <<>>

OneMore(b, d) ==
  \E c \in Chunks, b1, d1 \in Seq(Byte) :
    <<b1, d1>> \in Coded /\ b = EncodeChunk(c) \o b1 /\ d = c.data \o d1

LEMMA CodedCases ==
  ASSUME NEW b, NEW d, <<b, d>> \in Coded
  PROVE  /\ b \in Seq(Byte) /\ d \in Seq(Byte)
         /\ LastOnly(b, d) \/ OneMore(b, d)
<1>1. b \in Seq(Byte) /\ d \in Seq(Byte)
  BY DEF Coded, Pairs
<1> DEFINE P == {p \in Coded : LastOnly(p[1], p[2]) \/ OneMore(p[1], p[2])}
<1>2. P \in SUBSET Pairs
  BY DEF Coded
<1>3. <<LastChunk, <<>>>> \in P
  BY CodedIsChunking DEF LastOnly
<1>4. ASSUME NEW c \in Chunks, NEW b1 \in Seq(Byte), NEW d1 \in Seq(Byte), <<b1, d1>> \in P
      PROVE  <<EncodeChunk(c) \o b1, c.data \o d1>> \in P
  <2>1. <<b1, d1>> \in Coded
    BY <1>4
  <2>2. <<EncodeChunk(c) \o b1, c.data \o d1>> \in Coded
    BY <2>1, CodedIsChunking
  <2>3. OneMore(EncodeChunk(c) \o b1, c.data \o d1)
    BY <2>1 DEF OneMore
  <2> QED
    BY <2>2, <2>3
<1>5. Chunking(P)
  <2> HIDE DEF P
  <2> QED
    BY <1>3, <1>4 DEF Chunking
<1>6. <<b, d>> \in P
  <2> HIDE DEF P
  <2> QED
    BY <1>2, <1>5 DEF Coded
<1> QED
  BY <1>1, <1>6

-----------------------------------------------------------------------------
(* What a client sends is what is chunked, or a head and what it announces. *)

Empty == [bytes |-> <<>>, content |-> <<>>]

With(a, c) == [bytes |-> a.bytes \o EncodeChunk(c), content |-> a.content \o c.data]

Grown(cs, n, g) == g = [i \in 0..n |-> IF i = 0 THEN Empty ELSE With(g[i - 1], cs[i])]

LEMMA GrownExist ==
  ASSUME NEW cs, NEW n \in Nat
  PROVE  \E g : Grown(cs, n, g)
<1> DEFINE S == {k \in 0..n : \E g : Grown(cs, k, g)}
<1>1. 0 \in S
  <2> DEFINE g == [i \in 0..0 |-> Empty]
  <2>1. Grown(cs, 0, g)
    BY DEF Grown
  <2> QED
    BY <2>1
<1>2. ASSUME NEW k \in 0..n, k + 1 <= n, k \in S
      PROVE  k + 1 \in S
  <2>1. PICK h : Grown(cs, k, h)
    BY <1>2
  <2> DEFINE g == [i \in 0..(k + 1) |-> IF i = k + 1 THEN With(h[k], cs[k + 1]) ELSE h[i]]
  <2>2. ASSUME NEW i \in 0..(k + 1)
        PROVE  g[i] = IF i = 0 THEN Empty ELSE With(g[i - 1], cs[i])
    <3>1. CASE i = k + 1
      BY <3>1
    <3>2. CASE i \in 0..k
      <4>1. h[i] = IF i = 0 THEN Empty ELSE With(h[i - 1], cs[i])
        BY <2>1, <3>2 DEF Grown
      <4>2. g[i] = h[i] /\ (i # 0 => g[i - 1] = h[i - 1])
        BY <3>2
      <4> QED
        BY <4>1, <4>2
    <3> QED
      BY <3>1, <3>2
  <2>3. g = [i \in 0..(k + 1) |-> g[i]]
    OBVIOUS
  <2> HIDE DEF g
  <2>4. Grown(cs, k + 1, g)
    BY <2>2, <2>3 DEF Grown
  <2> QED
    BY <1>2, <2>4
<1> HIDE DEF S
<1>3. 0..n \subseteq S
  BY <1>1, <1>2, UpTo
<1> QED
  BY <1>3 DEF S

LEMMA RequestGrows ==
  ASSUME NEW cs, Len(cs) \in Nat
  PROVE  \E g : /\ Grown(cs, Len(cs), g)
                /\ ChunkedRequest(cs) = [head |-> Chunked,
                                         bytes |-> g[Len(cs)].bytes \o LastChunk,
                                         content |-> g[Len(cs)].content]
<1> DEFINE all[i \in 0..Len(cs)] ==
             IF i = 0 THEN [bytes |-> <<>>, content |-> <<>>]
             ELSE [bytes |-> all[i - 1].bytes \o EncodeChunk(cs[i]),
                   content |-> all[i - 1].content \o cs[i].data]
<1>1. \E g : g = [i \in 0..Len(cs) |->
                    IF i = 0 THEN [bytes |-> <<>>, content |-> <<>>]
                    ELSE [bytes |-> g[i - 1].bytes \o EncodeChunk(cs[i]),
                          content |-> g[i - 1].content \o cs[i].data]]
  BY GrownExist DEF Grown, Empty, With
<1>2. all = [i \in 0..Len(cs) |->
               IF i = 0 THEN [bytes |-> <<>>, content |-> <<>>]
               ELSE [bytes |-> all[i - 1].bytes \o EncodeChunk(cs[i]),
                     content |-> all[i - 1].content \o cs[i].data]]
  BY <1>1
<1>3. ChunkedRequest(cs) = [head |-> Chunked, bytes |-> all[Len(cs)].bytes \o LastChunk,
                            content |-> all[Len(cs)].content]
  BY DEF ChunkedRequest
<1> HIDE DEF all
<1>4. Grown(cs, Len(cs), all)
  BY <1>2 DEF Grown, Empty, With
<1> QED
  BY <1>3, <1>4

(* What the chunks before add, for any bytes behind them that stand for    *)
(* something.                                                              *)
Prefixes(a) ==
  /\ a.bytes \in Seq(Byte) /\ a.content \in Seq(Byte)
  /\ \A b, d \in Seq(Byte) : <<b, d>> \in Coded => <<a.bytes \o b, a.content \o d>> \in Coded

LEMMA EmptyPrefixes == Prefixes(Empty)
<1>1. Empty.bytes = <<>> /\ Empty.content = <<>> /\ <<>> \in Seq(Byte)
  BY ByteFacts DEF Empty
<1>2. \A b \in Seq(Byte) : <<>> \o b = b
  BY ConcatEmptySeq
<1> QED
  BY <1>1, <1>2 DEF Prefixes

LEMMA WithPrefixes ==
  ASSUME NEW a, Prefixes(a), NEW c \in Chunks
  PROVE  Prefixes(With(a, c))
<1> DEFINE x == a.bytes
           y == a.content
           e == EncodeChunk(c)
           f == c.data
<1>1. x \in Seq(Byte) /\ y \in Seq(Byte)
  BY DEF Prefixes
<1>2. f \in Seq(Byte)
  BY ChunkIs
<1>3. e \in Seq(Byte)
  BY ByteFacts, EncodedIs
<1>4. With(a, c).bytes = x \o e /\ With(a, c).content = y \o f
  BY DEF With
<1>5. \A b, d \in Seq(Byte) : <<b, d>> \in Coded => <<x \o b, y \o d>> \in Coded
  BY DEF Prefixes
<1>6. \A b, d \in Seq(Byte) : <<b, d>> \in Coded => <<e \o b, f \o d>> \in Coded
  BY CodedIsChunking
<1> HIDE DEF x, y, e, f
<1>7. x \o e \in Seq(Byte) /\ y \o f \in Seq(Byte)
  BY <1>1, <1>2, <1>3, ConcatProperties
<1>8. ASSUME NEW b \in Seq(Byte), NEW d \in Seq(Byte), <<b, d>> \in Coded
      PROVE  <<(x \o e) \o b, (y \o f) \o d>> \in Coded
  <2>1. (x \o e) \o b = x \o (e \o b) /\ (y \o f) \o d = y \o (f \o d)
    <3>1. (x \o e) \o b = x \o (e \o b)
      BY <1>1, <1>3, ConcatAssociative
    <3>2. (y \o f) \o d = y \o (f \o d)
      BY <1>1, <1>2, ConcatAssociative
    <3> QED
      BY <3>1, <3>2
  <2>2. e \o b \in Seq(Byte) /\ f \o d \in Seq(Byte)
    BY <1>2, <1>3, ConcatProperties
  <2>3. <<e \o b, f \o d>> \in Coded
    BY <1>6, <1>8
  <2>4. <<x \o (e \o b), y \o (f \o d)>> \in Coded
    BY <1>5, <2>2, <2>3
  <2> QED
    BY <2>1, <2>4
<1> QED
  BY <1>4, <1>7, <1>8 DEF Prefixes

(* How the bytes b frame the content of a request.                         *)
Framing(r, b) ==
  \/ r.head = ContentLength(Len(r.content)) /\ b = r.content
  \/ r.head \in {NoContent, BadLength} /\ b = <<>> /\ r.content = <<>>
  \/ r.head = Chunked /\ <<b, r.content>> \in Coded

LEMMA ChunkedIs ==
  ASSUME NEW cs \in Seq(Chunks)
  PROVE  /\ ChunkedRequest(cs).head = Chunked
         /\ <<ChunkedRequest(cs).bytes, ChunkedRequest(cs).content>> \in Coded
<1>1. Len(cs) \in Nat /\ \A i \in 1..Len(cs) : cs[i] \in Chunks
  BY Elements
<1> DEFINE n == Len(cs)
<1>2. PICK g : /\ Grown(cs, n, g)
               /\ ChunkedRequest(cs) = [head |-> Chunked, bytes |-> g[n].bytes \o LastChunk,
                                        content |-> g[n].content]
  BY <1>1, RequestGrows
<1>3. n \in Nat /\ \A i \in 1..n : cs[i] \in Chunks
  BY <1>1
<1> HIDE DEF n
<1> DEFINE S == {k \in 0..n : Prefixes(g[k])}
<1>4. 0 \in S
  <2>1. g[0] = Empty
    BY <1>2, <1>3 DEF Grown
  <2> QED
    BY <1>3, <2>1, EmptyPrefixes
<1>5. ASSUME NEW k \in 0..n, k + 1 <= n, k \in S
      PROVE  k + 1 \in S
  <2>1. k + 1 \in 0..n /\ k + 1 \in 1..n /\ k + 1 # 0 /\ (k + 1) - 1 = k
    BY <1>3, <1>5
  <2>2. g[k + 1] = With(g[k], cs[k + 1])
    BY <1>2, <2>1 DEF Grown
  <2>3. Prefixes(g[k + 1])
    BY <1>3, <1>5, <2>1, <2>2, WithPrefixes
  <2> QED
    BY <2>1, <2>3
<1> HIDE DEF S
<1>6. 0..n \subseteq S
  BY <1>3, <1>4, <1>5, UpTo
<1>7. Prefixes(g[n])
  BY <1>3, <1>6 DEF S
<1>8. <<g[n].bytes \o LastChunk, g[n].content \o <<>>>> \in Coded
  BY <1>7, LastIs, ByteFacts, CodedIsChunking DEF Prefixes
<1>9. g[n].content \o <<>> = g[n].content
  BY <1>7, ConcatEmptySeq DEF Prefixes
<1> QED
  BY <1>2, <1>8, <1>9

LEMMA RequestIs ==
  ASSUME NEW r \in Requests
  PROVE  /\ r.head \in Heads /\ r.content \in Seq(Byte) /\ r.bytes \in Seq(Byte)
         /\ Framing(r, r.bytes)
<1>1. CASE \E c \in Contents : r = [head |-> ContentLength(Len(c)), bytes |-> c, content |-> c]
  <2>1. PICK c \in Contents : r = [head |-> ContentLength(Len(c)), bytes |-> c, content |-> c]
    BY <1>1
  <2>2. r.head = ContentLength(Len(c)) /\ r.bytes = c /\ r.content = c
    BY <2>1
  <2>3. c \in Seq(Byte)
    BY ContentsAssumption DEF Byte
  <2>4. r.head \in Heads
    BY <2>2 DEF Heads
  <2> QED
    BY <2>2, <2>3, <2>4 DEF Framing
<1>2. CASE r \in [head : {NoContent, BadLength}, bytes : {<<>>}, content : {<<>>}]
  <2>1. r.head \in {NoContent, BadLength} /\ r.bytes = <<>> /\ r.content = <<>>
    BY <1>2
  <2> QED
    BY <2>1, ByteFacts DEF Framing, Heads
<1>3. CASE \E cs \in UNION {[1..n -> Chunks] : n \in 0..MaxChunks} : r = ChunkedRequest(cs)
  <2>1. PICK cs \in UNION {[1..n -> Chunks] : n \in 0..MaxChunks} : r = ChunkedRequest(cs)
    BY <1>3
  <2>2. cs \in Seq(Chunks)
    <3>1. 0..MaxChunks \subseteq Nat
      BY BoundsAssumption
    <3> QED
      BY <2>1, <3>1, SeqDef
  <2>3. r.head = Chunked /\ <<r.bytes, r.content>> \in Coded
    BY <2>1, <2>2, ChunkedIs
  <2>4. r.bytes \in Seq(Byte) /\ r.content \in Seq(Byte)
    BY <2>3, CodedCases
  <2> QED
    BY <2>3, <2>4 DEF Framing, Heads
<1> QED
  BY <1>1, <1>2, <1>3 DEF Requests, Framed

-----------------------------------------------------------------------------
(* The invariant.  The bytes that are still to be read continue what has   *)
(* been read to the content that the client sent.                          *)

Sent == due[Len(due)]
Reading == Len(due) = Len(served) + 1
ReadingChunks == Reading /\ Sent.head = Chunked /\ LineBuffer <= capacity

Left(left) ==
  \/ left = <<>>
  \/ Len(served) > 0 /\ due[Len(served)].head = Chunked /\ left \in {CRLF, <<LF>>}

Ahead(left) ==
  \/ Len(due) = Len(served) /\ incoming = left
  \/ /\ Reading
     /\ \E b \in Seq(Byte) : Framing(Sent, b) /\ incoming = left \o (<<Sent.head>> \o b)

AtHead == at = "head" => content = <<>> /\ \E left : Left(left) /\ Ahead(left)

AtContent ==
  at = "content" =>
    Reading /\ content \o incoming = Sent.content /\ wanted = Len(incoming)

AtSize ==
  at = "size" =>
    /\ ReadingChunks /\ Len(line) <= capacity
    /\ \E d \in Seq(Byte) : <<line \o incoming, d>> \in Coded /\ content \o d = Sent.content

AtData ==
  at = "data" =>
    /\ ReadingChunks /\ line = <<>>
    /\ \E b, d, p \in Seq(Byte) :
         /\ <<b, d>> \in Coded
         /\ incoming = p \o (CRLF \o b) /\ wanted = Len(p)
         /\ (content \o p) \o d = Sent.content

Ending(n) == IF n = 2 THEN CRLF ELSE <<LF>>

AtEnd ==
  at = "end" =>
    /\ ReadingChunks /\ line = <<>> /\ wanted \in {1, 2}
    /\ \E b, d \in Seq(Byte) :
         /\ <<b, d>> \in Coded
         /\ incoming = Ending(wanted) \o b
         /\ content \o d = Sent.content

Inv == IInv /\ ContentIntact /\ AtHead /\ AtContent /\ AtSize /\ AtData /\ AtEnd

LEMMA HeadsAreNat == Heads \subseteq Nat /\ \A h \in Heads : h >= 256
<1>1. \A c \in Contents : Len(c) \in Nat
  BY ContentsAssumption, Elements
<1> QED
  BY <1>1 DEF Heads, NoContent, Chunked, BadLength, ContentLength

LEMMA InitInv == Init => Inv
<1> SUFFICES ASSUME Init PROVE Inv
  OBVIOUS
<1>1. /\ incoming \in Seq(Nat) /\ content \in Seq(0..255) /\ line \in Seq(0..255)
      /\ due \in Seq([head : Heads, content : Seq(0..255)])
      /\ served \in Seq(Seq(0..255)) /\ Len(due) = 0 /\ Len(served) = 0
      /\ DOMAIN served = {}
  BY EmptySeq DEF Init
<1>2. TypeOK
  BY <1>1, BoundsAssumption DEF Init, TypeOK
<1>3. RefusedForCause /\ CleanStart
  BY DEF Init, RefusedForCause, CleanStart
<1>4. ContentIntact
  BY <1>1 DEF ContentIntact
<1>5. AtHead
  <2>1. Left(<<>>) /\ Ahead(<<>>)
    BY <1>1 DEF Init, Left, Ahead
  <2> QED
    BY <2>1 DEF Init, AtHead
<1>6. AtContent /\ AtSize /\ AtData /\ AtEnd
  BY DEF Init, AtContent, AtSize, AtData, AtEnd
<1> QED
  BY <1>2, <1>3, <1>4, <1>5, <1>6 DEF Inv, IInv

LEMMA TypesOf ==
  ASSUME Inv
  PROVE  /\ incoming \in Seq(Nat) /\ content \in Seq(Byte) /\ line \in Seq(Byte)
         /\ capacity \in Nat /\ wanted \in Nat
         /\ due \in Seq([head : Heads, content : Seq(Byte)]) /\ served \in Seq(Seq(Byte))
         /\ Len(served) \in Nat /\ Len(due) \in Nat
         /\ Len(served) <= Len(due) /\ Len(due) <= MaxRequests
         /\ Reading => Sent.head \in Heads /\ Sent.content \in Seq(Byte)
<1>1. /\ incoming \in Seq(Nat) /\ content \in Seq(Byte) /\ line \in Seq(Byte)
      /\ capacity \in Nat /\ wanted \in Nat
      /\ due \in Seq([head : Heads, content : Seq(Byte)]) /\ served \in Seq(Seq(Byte))
      /\ Len(served) <= Len(due) /\ Len(due) <= MaxRequests
  BY DEF Inv, IInv, TypeOK, Byte
<1>2. /\ Len(served) \in Nat /\ Len(due) \in Nat
      /\ \A i \in 1..Len(due) : due[i] \in [head : Heads, content : Seq(Byte)]
  BY <1>1, Elements
<1>3. Reading => Len(due) \in 1..Len(due)
  BY <1>2 DEF Reading
<1>4. Reading => Sent \in [head : Heads, content : Seq(Byte)]
  BY <1>2, <1>3 DEF Sent
<1> QED
  BY <1>1, <1>2, <1>4

(* The reading goes on.                                                    *)
LEMMA GoesOn ==
  ASSUME Inv, UNCHANGED <<due, served>>, at' \in {"content", "size", "data", "end"},
         incoming' \in Seq(Nat), content' \in Seq(Byte), line' \in Seq(Byte),
         capacity' \in Nat, wanted' \in Nat,
         AtContent', AtSize', AtData', AtEnd'
  PROVE  Inv'
<1>1. TypeOK'
  BY DEF Inv, IInv, TypeOK, Byte
<1>2. RefusedForCause' /\ CleanStart' /\ AtHead'
  BY DEF RefusedForCause, CleanStart, AtHead
<1>3. ContentIntact'
  BY DEF Inv, ContentIntact
<1> QED
  BY <1>1, <1>2, <1>3 DEF Inv, IInv

LEMMA RefuseInv ==
  ASSUME Inv, Refuse, UNCHANGED due, incoming' \in Seq(Nat), Reading,
         \/ Sent.head = BadLength
         \/ Len(Sent.content) > MaxStream
         \/ Len(due) > 1 /\ due[Len(due) - 1].head = Chunked
  PROVE  Inv'
<1>1. at' = "refused" /\ UNCHANGED <<content, line, capacity, wanted, served>>
  BY DEF Refuse
<1>2. TypeOK'
  BY <1>1 DEF Inv, IInv, TypeOK
<1>3. RefusedForCause'
  BY DEF RefusedForCause, Sent
<1>4. CleanStart' /\ AtHead' /\ AtContent' /\ AtSize' /\ AtData' /\ AtEnd'
  BY <1>1 DEF CleanStart, AtHead, AtContent, AtSize, AtData, AtEnd
<1>5. ContentIntact'
  BY <1>1 DEF Inv, ContentIntact
<1> QED
  BY <1>2, <1>3, <1>4, <1>5 DEF Inv, IInv

LEMMA ServeInv ==
  ASSUME Inv, Reading, NEW c, c = Sent.content, Serve(c), UNCHANGED due,
         incoming' = <<>> \/ (Sent.head = Chunked /\ incoming' \in {CRLF, <<LF>>})
  PROVE  Inv'
<1>0. /\ served \in Seq(Seq(Byte)) /\ Len(served) \in Nat /\ c \in Seq(Byte)
      /\ Len(due) = Len(served) + 1 /\ DOMAIN served = 1..Len(served)
  BY TypesOf, Elements DEF Reading
<1>1. /\ served' = Append(served, c) /\ at' = "head"
      /\ content' = <<>> /\ line' = <<>> /\ UNCHANGED <<capacity, wanted>>
  BY DEF Serve
<1>2. /\ served' \in Seq(Seq(Byte)) /\ Len(served') = Len(served) + 1
      /\ \A i \in 1..Len(served) : served'[i] = served[i]
      /\ served'[Len(served) + 1] = c
  BY <1>0, <1>1, AppendProperties
<1>3. DOMAIN served' = 1..(Len(served) + 1)
  BY <1>2, Elements
<1>4. incoming' \in Seq(Nat)
  <2>1. incoming' \in Seq(Byte)
    BY ByteFacts
  <2> QED
    BY <2>1, Wider
<1>5. TypeOK'
  <2>1. <<>> \in Seq(Byte)
    BY ByteFacts
  <2> QED
    BY <1>0, <1>1, <1>2, <1>4, <2>1 DEF Inv, IInv, TypeOK, Byte
<1>6. RefusedForCause' /\ AtContent' /\ AtSize' /\ AtData' /\ AtEnd'
  BY <1>1 DEF RefusedForCause, AtContent, AtSize, AtData, AtEnd
<1>7. CleanStart'
  BY <1>0, <1>2 DEF CleanStart, Sent
<1>8. ContentIntact'
  <2> SUFFICES ASSUME NEW i \in 1..(Len(served) + 1)
               PROVE  served'[i] = due[i].content
    BY <1>3 DEF ContentIntact
  <2>1. CASE i \in 1..Len(served)
    <3>1. served[i] = due[i].content
      BY <1>0, <2>1 DEF Inv, ContentIntact
    <3> QED
      BY <1>2, <2>1, <3>1
  <2>2. CASE i = Len(served) + 1
    BY <1>0, <1>2, <2>2 DEF Sent
  <2> QED
    BY <1>0, <2>1, <2>2
<1>9. AtHead'
  <2> DEFINE left == incoming'
  <2>1. Len(due') = Len(served') /\ Len(served') > 0
    BY <1>0, <1>2
  <2>2. due'[Len(served')] = Sent
    BY <1>0, <1>2 DEF Sent
  <2>3. \/ left = <<>>
        \/ /\ Len(served') > 0 /\ due'[Len(served')].head = Chunked
           /\ left \in {CRLF, <<LF>>}
    BY <2>1, <2>2
  <2>4. Len(due') = Len(served') /\ incoming' = left
    BY <2>1
  <2> HIDE DEF left
  <2> QED
    BY <1>1, <2>3, <2>4 DEF AtHead, Left, Ahead
<1> QED
  BY <1>5, <1>6, <1>7, <1>8, <1>9 DEF Inv, IInv

LEMMA SendRequestInv ==
  ASSUME Inv, SendRequest
  PROVE  Inv'
<1>1. /\ at = "head" /\ Len(due) = Len(served) /\ Len(due) < MaxRequests
      /\ UNCHANGED <<at, content, line, capacity, wanted, served>>
  BY DEF SendRequest, reader
<1>2. PICK r \in Requests :
        /\ due' = Append(due, [head |-> r.head, content |-> r.content])
        /\ incoming' = incoming \o <<r.head>> \o r.bytes
  BY DEF SendRequest
<1> DEFINE new == [head |-> r.head, content |-> r.content]
<1>3. r.head \in Heads /\ r.content \in Seq(Byte) /\ r.bytes \in Seq(Byte) /\ Framing(r, r.bytes)
  BY RequestIs
<1>4. new \in [head : Heads, content : Seq(Byte)] /\ new.head = r.head /\ new.content = r.content
  BY <1>3
<1>5. /\ due \in Seq([head : Heads, content : Seq(Byte)]) /\ incoming \in Seq(Nat)
      /\ Len(due) \in Nat /\ Len(served) \in Nat
  BY TypesOf
<1>6. due' = Append(due, new)
  BY <1>2
<1> HIDE DEF new
<1>7. /\ due' \in Seq([head : Heads, content : Seq(Byte)])
      /\ Len(due') = Len(due) + 1
      /\ \A i \in 1..Len(due) : due'[i] = due[i]
      /\ due'[Len(due) + 1] = new
  BY <1>4, <1>5, <1>6, AppendProperties
<1>8. <<r.head>> \in Seq(Nat) /\ r.bytes \in Seq(Nat)
  <2>1. r.head \in Nat
    BY <1>3, HeadsAreNat
  <2>2. <<r.head>> \in Seq(Nat)
    BY <2>1
  <2>3. r.bytes \in Seq(Nat)
    BY <1>3, Wider
  <2> QED
    BY <2>2, <2>3
<1>9. incoming' = incoming \o (<<r.head>> \o r.bytes) /\ incoming' \in Seq(Nat)
  <2>1. (incoming \o <<r.head>>) \o r.bytes = incoming \o (<<r.head>> \o r.bytes)
    <3> DEFINE h == <<r.head>>
               u == r.bytes
    <3>1. h \in Seq(Nat) /\ u \in Seq(Nat)
      BY <1>8
    <3> HIDE DEF h, u
    <3>2. incoming \in Seq(Nat)
      BY <1>5
    <3>3. (incoming \o h) \o u = incoming \o (h \o u)
      <4>1. \A x, y, z \in Seq(Nat) : (x \o y) \o z = x \o (y \o z)
        BY ConcatAssociative
      <4> QED
        BY <3>1, <3>2, <4>1
    <3> QED
      BY <3>3 DEF h, u
  <2>2. incoming \o <<r.head>> \in Seq(Nat)
    BY <1>5, <1>8, ConcatProperties
  <2>3. (incoming \o <<r.head>>) \o r.bytes \in Seq(Nat)
    BY <1>8, <2>2, ConcatProperties
  <2> QED
    BY <1>2, <2>1, <2>3
<1>10. TypeOK'
  <2>1. Len(served') <= Len(due') /\ Len(due') <= MaxRequests
    BY <1>1, <1>5, <1>7, BoundsAssumption
  <2> QED
    BY <1>1, <1>7, <1>9, <2>1 DEF Inv, IInv, TypeOK, Byte
<1>11. RefusedForCause' /\ AtContent' /\ AtSize' /\ AtData' /\ AtEnd'
  BY <1>1 DEF RefusedForCause, AtContent, AtSize, AtData, AtEnd
<1>12. CleanStart'
  BY <1>1, <1>5, <1>7 DEF CleanStart
<1>13. ContentIntact'
  <2>1. DOMAIN served = 1..Len(served)
    BY TypesOf, Elements
  <2>2. \A i \in DOMAIN served : i \in 1..Len(due)
    BY <1>1, <2>1
  <2> QED
    BY <1>1, <1>7, <2>2 DEF Inv, ContentIntact
<1>14. AtHead'
  <2>1. PICK left : Left(left) /\ Ahead(left)
    BY <1>1 DEF Inv, AtHead
  <2>2. incoming = left
    BY <1>1, <1>5, <2>1 DEF Ahead, Reading
  <2>3. Left(left)'
    <3>1. Len(served) > 0 => Len(served) \in 1..Len(due)
      BY <1>1, <1>5
    <3> QED
      BY <1>1, <1>7, <2>1, <3>1 DEF Left
  <2>4. Reading' /\ Sent' = new
    BY <1>1, <1>5, <1>7 DEF Reading, Sent
  <2>5. Framing(new, r.bytes)
    BY <1>3, <1>4 DEF Framing
  <2>6. \E b \in Seq(Byte) : Framing(Sent', b) /\ incoming' = left \o (<<Sent'.head>> \o b)
    BY <1>3, <1>4, <1>9, <2>2, <2>4, <2>5
  <2>7. Ahead(left)'
    BY <2>4, <2>6 DEF Ahead
  <2>8. content = <<>>
    BY <1>1 DEF Inv, AtHead
  <2> QED
    BY <1>1, <2>3, <2>7, <2>8 DEF AtHead
<1> QED
  BY <1>10, <1>11, <1>12, <1>13, <1>14 DEF Inv, IInv

LEMMA ReadFailsInv ==
  ASSUME Inv, ReadFails
  PROVE  Inv'
<1>1. /\ at' = "closed"
      /\ UNCHANGED <<incoming, due, content, line, capacity, wanted, served>>
  BY DEF ReadFails
<1>2. TypeOK' /\ ContentIntact'
  BY <1>1 DEF Inv, IInv, TypeOK, ContentIntact
<1>3. /\ RefusedForCause' /\ CleanStart' /\ AtHead'
      /\ AtContent' /\ AtSize' /\ AtData' /\ AtEnd'
  BY <1>1 DEF RefusedForCause, CleanStart, AtHead, AtContent, AtSize, AtData, AtEnd
<1> QED
  BY <1>2, <1>3 DEF Inv, IInv

LEMMA ReadContentInv ==
  ASSUME Inv, ReadContent
  PROVE  Inv'
<1>1. /\ at = "content" /\ Serve(content \o SubSeq(incoming, 1, wanted))
      /\ incoming' = Drop(incoming, wanted) /\ UNCHANGED due
  BY DEF ReadContent
<1>2. Reading /\ content \o incoming = Sent.content /\ wanted = Len(incoming)
  BY <1>1 DEF Inv, AtContent
<1>3. incoming \in Seq(Nat)
  BY TypesOf
<1>4. SubSeq(incoming, 1, wanted) = incoming /\ Drop(incoming, wanted) = <<>>
  BY <1>2, <1>3, All
<1>5. Serve(Sent.content)
  BY <1>1, <1>2, <1>4
<1> QED
  BY <1>1, <1>2, <1>4, <1>5, ServeInv

LEMMA ReadDataInv ==
  ASSUME Inv, ReadData
  PROVE  Inv'
<1>1. /\ at = "data"
      /\ content' = content \o SubSeq(incoming, 1, wanted)
      /\ incoming' = Drop(incoming, wanted)
      /\ at' = "end" /\ wanted' = 2
      /\ UNCHANGED <<due, line, capacity, served>>
  BY DEF ReadData
<1>2. ReadingChunks /\ line = <<>>
  BY <1>1 DEF Inv, AtData
<1>3. PICK b \in Seq(Byte), d \in Seq(Byte), p \in Seq(Byte) :
        /\ <<b, d>> \in Coded
        /\ incoming = p \o (CRLF \o b) /\ wanted = Len(p)
        /\ (content \o p) \o d = Sent.content
  BY <1>1 DEF Inv, AtData
<1>4. content \in Seq(Byte) /\ capacity \in Nat
  BY TypesOf
<1>5. SubSeq(incoming, 1, wanted) = p /\ Drop(incoming, wanted) = CRLF \o b /\ CRLF \o b \in Seq(Byte)
  <2> DEFINE t == CRLF \o b
  <2>1. t \in Seq(Byte)
    BY ByteFacts, ConcatProperties
  <2> HIDE DEF t
  <2>2. Len(p) \in 0..Len(p)
    BY Elements
  <2>3. SubSeq(p \o t, 1, Len(p)) = SubSeq(p, 1, Len(p)) /\ Drop(p \o t, Len(p)) = Drop(p, Len(p)) \o t
    BY <2>1, <2>2, InFirst
  <2>4. SubSeq(p, 1, Len(p)) = p /\ Drop(p, Len(p)) = <<>>
    BY All
  <2>5. <<>> \o t = t
    BY <2>1, ConcatEmptySeq
  <2>6. incoming = p \o t
    BY <1>3 DEF t
  <2>7. SubSeq(incoming, 1, wanted) = p /\ Drop(incoming, wanted) = t
    BY <1>3, <2>3, <2>4, <2>5, <2>6
  <2> QED
    BY <2>1, <2>7 DEF t
<1>6. content' = content \o p /\ incoming' = CRLF \o b
  BY <1>1, <1>5
<1>7. content' \in Seq(Byte)
  <2>1. content \o p \in Seq(Byte)
    BY <1>4, ConcatProperties
  <2> QED
    BY <1>6, <2>1
<1>8. AtEnd'
  <2>1. ReadingChunks' /\ Sent' = Sent /\ line' = <<>>
    BY <1>1, <1>2 DEF ReadingChunks, Reading, Sent
  <2>2. Ending(2) = CRLF
    BY DEF Ending
  <2>3. \E b_1, d_1 \in Seq(Byte) :
          /\ <<b_1, d_1>> \in Coded
          /\ incoming' = Ending(wanted') \o b_1
          /\ content' \o d_1 = Sent'.content
    BY <1>1, <1>3, <1>6, <2>1, <2>2
  <2> QED
    BY <1>1, <2>1, <2>3 DEF AtEnd
<1>9. AtContent' /\ AtSize' /\ AtData'
  BY <1>1 DEF AtContent, AtSize, AtData
<1>10. incoming' \in Seq(Nat) /\ line' \in Seq(Byte) /\ capacity' \in Nat /\ wanted' \in Nat
  BY <1>1, <1>5, <1>6, TypesOf, Wider
<1> QED
  BY <1>1, <1>7, <1>8, <1>9, <1>10, GoesOn

LEMMA ReadEndInv ==
  ASSUME Inv, ReadEnd
  PROVE  Inv'
<1>1. /\ at = "end"
      /\ incoming' = Drop(incoming, wanted)
      /\ at' = "size"
      /\ UNCHANGED <<due, content, line, capacity, wanted, served>>
  BY DEF ReadEnd
<1>2. ReadingChunks /\ line = <<>> /\ wanted \in {1, 2}
  BY <1>1 DEF Inv, AtEnd
<1>3. PICK b \in Seq(Byte), d \in Seq(Byte) :
        /\ <<b, d>> \in Coded
        /\ incoming = Ending(wanted) \o b
        /\ content \o d = Sent.content
  BY <1>1 DEF Inv, AtEnd
<1>4. Drop(incoming, wanted) = b
  <2> DEFINE t == Ending(wanted)
  <2>1. t \in Seq(Byte) /\ Len(t) = wanted
    BY <1>2, ByteFacts DEF Ending
  <2> HIDE DEF t
  <2>2. Len(t) \in 0..Len(t)
    BY <2>1, Elements
  <2>3. Drop(t \o b, Len(t)) = Drop(t, Len(t)) \o b
    BY <2>1, <2>2, InFirst
  <2>4. Drop(t, Len(t)) = <<>>
    BY <2>1, All
  <2>5. <<>> \o b = b
    BY ConcatEmptySeq
  <2>6. incoming = t \o b
    BY <1>3 DEF t
  <2> QED
    BY <2>1, <2>3, <2>4, <2>5, <2>6
<1>5. line' \o incoming' = b
  <2>1. <<>> \o b = b
    BY ConcatEmptySeq
  <2> QED
    BY <1>1, <1>2, <1>4, <2>1
<1>6. AtSize'
  <2>1. ReadingChunks' /\ Sent' = Sent
    BY <1>1, <1>2 DEF ReadingChunks, Reading, Sent
  <2>2. Len(line') <= capacity'
    BY <1>1, <1>2, TypesOf, ByteFacts
  <2>3. \E d_1 \in Seq(Byte) : <<line' \o incoming', d_1>> \in Coded
                                 /\ content' \o d_1 = Sent'.content
    BY <1>1, <1>3, <1>5, <2>1
  <2> QED
    BY <2>1, <2>2, <2>3 DEF AtSize
<1>7. AtContent' /\ AtData' /\ AtEnd'
  BY <1>1 DEF AtContent, AtData, AtEnd
<1>8. incoming' \in Seq(Nat)
  BY <1>1, <1>4, Wider
<1> QED
  BY <1>1, <1>6, <1>7, <1>8, TypesOf, GoesOn

(* The head that is found is the one of the request that is due.           *)
LEMMA HeadIs ==
  ASSUME Inv, at = "head", NEW i \in DOMAIN incoming, HeadAt(i)
  PROVE  /\ Reading /\ incoming[i] = Sent.head
         /\ \E left, b \in Seq(Byte) :
              /\ Left(left) /\ Framing(Sent, b)
              /\ incoming = left \o (<<Sent.head>> \o b)
              /\ i = Len(left) + 1
<1>1. PICK left : Left(left) /\ Ahead(left)
  BY DEF Inv, AtHead
<1>2. left \in Seq(Byte)
  BY <1>1, ByteFacts DEF Left
<1>3. /\ incoming \in Seq(Nat) /\ Len(incoming) \in Nat /\ i \in 1..Len(incoming)
      /\ Len(left) \in Nat /\ \A j \in 1..Len(left) : left[j] \in Byte
  BY <1>2, TypesOf, Elements
<1>4. incoming[i] >= 256 /\ \A j \in 1..(i - 1) : incoming[j] < 256
  BY DEF HeadAt
<1>5. \A x \in Byte : x \in Nat /\ x < 256
  BY DEF Byte
<1>6. incoming # left
  <2> SUFFICES ASSUME incoming = left PROVE FALSE
    OBVIOUS
  <2>1. incoming[i] \in Byte
    BY <1>3
  <2>2. incoming[i] \in Nat /\ incoming[i] < 256
    BY <1>5, <2>1
  <2> QED
    BY <1>4, <2>2
<1>7. Reading
  BY <1>1, <1>6 DEF Ahead
<1>8. PICK b \in Seq(Byte) : Framing(Sent, b) /\ incoming = left \o (<<Sent.head>> \o b)
  BY <1>1, <1>6 DEF Ahead
<1> DEFINE h == Sent.head
           t == <<h>> \o b
           n == Len(left)
<1>9. h \in Nat /\ h >= 256
  BY <1>7, TypesOf, HeadsAreNat
<1> HIDE DEF h
<1>10. t \in Seq(Nat) /\ Len(t) = 1 + Len(b) /\ t[1] = h
  <2>1. <<h>> \in Seq(Nat) /\ b \in Seq(Nat) /\ Len(<<h>>) = 1 /\ <<h>>[1] = h
    BY <1>9, Wider
  <2>2. 1 \in 1..Len(<<h>>)
    BY <2>1
  <2>3. /\ t \in Seq(Nat) /\ Len(t) = Len(<<h>>) + Len(b)
        /\ \A j \in 1..Len(<<h>>) : t[j] = <<h>>[j]
    BY <2>1, Joined
  <2> HIDE DEF t
  <2> QED
    BY <2>1, <2>2, <2>3
<1> DEFINE s == left \o t
<1>11. /\ \A j \in 1..n : s[j] = left[j]
       /\ \A j \in 1..Len(t) : s[n + j] = t[j]
  <2>1. left \in Seq(Nat) /\ t \in Seq(Nat)
    BY <1>2, <1>10, Wider
  <2> HIDE DEF t
  <2> QED
    BY <2>1, Joined
<1>12. incoming = s
  BY <1>8 DEF h
<1> HIDE DEF t, s
<1>13. Len(b) \in Nat
  BY Elements
<1>14. s[n + 1] = h
  <2>1. 1 \in 1..Len(t)
    BY <1>10, <1>13
  <2> QED
    BY <1>10, <1>11, <2>1
<1>15. ~(i <= n)
  <2> SUFFICES ASSUME i <= n PROVE FALSE
    OBVIOUS
  <2>1. i \in 1..n
    BY <1>3
  <2>2. incoming[i] \in Byte
    BY <1>3, <1>11, <1>12, <2>1
  <2>3. incoming[i] \in Nat /\ incoming[i] < 256
    BY <1>5, <2>2
  <2> QED
    BY <1>4, <2>3
<1>16. ~(n + 1 < i)
  <2> SUFFICES ASSUME n + 1 < i PROVE FALSE
    OBVIOUS
  <2>1. n + 1 \in 1..(i - 1)
    BY <1>3
  <2>2. incoming[n + 1] < 256
    BY <1>4, <2>1
  <2> QED
    BY <1>9, <1>12, <1>14, <2>2
<1>17. i = n + 1
  BY <1>3, <1>15, <1>16
<1>18. incoming[i] = h
  BY <1>12, <1>14, <1>17
<1> QED
  BY <1>1, <1>2, <1>7, <1>8, <1>17, <1>18 DEF h

(* What has been read behind a head, and what has not.                     *)
LEMMA Behind ==
  ASSUME NEW h \in Nat, NEW b \in Seq(Byte), NEW k \in 1..Len(<<h>> \o b)
  PROVE  /\ k - 1 \in 0..Len(b)
         /\ SubSeq(<<h>> \o b, 2, k) = SubSeq(b, 1, k - 1)
         /\ Drop(<<h>> \o b, k) = Drop(b, k - 1)
<1> DEFINE g == <<h>>
           s == g \o b
           j == k - 1
<1>1. g \in Seq(Nat) /\ b \in Seq(Nat) /\ Len(g) = 1
  BY Wider
<1> HIDE DEF g
<1>2. /\ s \in Seq(Nat) /\ Len(s) = Len(g) + Len(b)
      /\ \A i \in 1..Len(b) : s[Len(g) + i] = b[i]
  <2>1. g \in Seq(Nat) /\ b \in Seq(Nat)
    BY <1>1
  <2> QED
    BY <2>1, Joined
<1>3. Len(b) \in Nat /\ k \in 1..Len(s)
  BY Elements DEF g
<1> HIDE DEF s
<1>4. j \in 0..Len(b) /\ j \in Nat /\ k = Len(g) + j /\ k = 1 + j /\ k \in Nat /\ k <= Len(s)
  BY <1>1, <1>2, <1>3
<1> HIDE DEF j
<1>5. Drop(s, k) = Drop(b, j)
  <2>1. Drop(g \o b, Len(g) + j) = Drop(b, j)
    BY <1>1, <1>4, InSecond
  <2> QED
    BY <1>4, <2>1 DEF s
<1>6. SubSeq(s, 2, k) = SubSeq(b, 1, j)
  <2> DEFINE p == SubSeq(s, 2, k)
             q == SubSeq(b, 1, j)
  <2>1. /\ p \in Seq(Nat)
        /\ Len(p) = IF 2 <= k THEN k - 2 + 1 ELSE 0
        /\ \A i \in 1..(k - 2 + 1) : p[i] = s[2 + i - 1]
    BY <1>2, <1>4, Part
  <2>2. q \in Seq(Nat) /\ Len(q) = j /\ \A i \in 1..j : q[i] = b[i]
    BY <1>1, <1>4, Taken
  <2> HIDE DEF p, q
  <2>3. Len(p) = j /\ k - 2 + 1 = j
    BY <1>4, <2>1
  <2>4. ASSUME NEW i \in 1..Len(p) PROVE p[i] = q[i]
    <3>1. i \in 1..j /\ i \in 1..(k - 2 + 1) /\ 2 + i - 1 = Len(g) + i /\ i \in 1..Len(b)
      BY <1>1, <1>3, <1>4, <2>3
    <3>2. p[i] = s[2 + i - 1] /\ s[Len(g) + i] = b[i] /\ q[i] = b[i]
      BY <1>2, <2>1, <2>2, <3>1
    <3> QED
      BY <3>1, <3>2
  <2>5. p = q
    BY <2>1, <2>2, <2>3, <2>4, SeqEqual
  <2> QED
    BY <2>5 DEF p, q
<1> QED
  BY <1>4, <1>5, <1>6 DEF g, s, j

(* A head that stands for chunks, and j of their bytes.                    *)
LEMMA ChunkedHeadInv ==
  ASSUME Inv, Reading, Sent.head = Chunked, NEW b \in Seq(Byte), <<b, Sent.content>> \in Coded,
         NEW j \in 0..Len(b), content = <<>>,
         incoming' = Drop(b, j), line' = SubSeq(b, 1, j),
         at' = "size", capacity' = Greatest(LineBuffer, Len(SubSeq(b, 1, j))),
         UNCHANGED <<due, content, wanted, served>>
  PROVE  Inv'
<1>1. line' \in Seq(Byte) /\ Len(line') = j
  BY Taken
<1>2. incoming' \in Seq(Byte)
  BY Dropped
<1>3. line' \o incoming' = b
  <2>1. SubSeq(b, 1, j) \o Drop(b, j) = b
    BY Rejoined
  <2> QED
    BY <2>1
<1>4. j \in Nat /\ LineBuffer \in Nat
  BY BoundsAssumption, Elements
<1>5. capacity' \in Nat /\ LineBuffer <= capacity' /\ Len(line') <= capacity'
  BY <1>1, <1>4 DEF Greatest
<1>6. content' \o Sent.content = Sent.content
  <2>1. Sent.content \in Seq(Byte)
    BY TypesOf
  <2>2. <<>> \o Sent.content = Sent.content
    BY <2>1, ConcatEmptySeq
  <2> QED
    BY <2>2
<1>7. AtSize'
  <2>1. ReadingChunks' /\ Sent' = Sent /\ Sent.content \in Seq(Byte)
    BY <1>5, TypesOf DEF ReadingChunks, Reading, Sent
  <2>2. \E d \in Seq(Byte) : <<line' \o incoming', d>> \in Coded /\ content' \o d = Sent'.content
    BY <1>3, <1>6, <2>1
  <2> QED
    BY <1>5, <2>1, <2>2 DEF AtSize
<1>8. AtContent' /\ AtData' /\ AtEnd'
  BY DEF AtContent, AtData, AtEnd
<1>9. content' \in Seq(Byte) /\ wanted' \in Nat
  BY TypesOf
<1>10. incoming' \in Seq(Nat)
  BY <1>2, Wider
<1> QED
  BY <1>1, <1>5, <1>7, <1>8, <1>9, <1>10, GoesOn

(* A head with a length, and j bytes of the content.                       *)
LEMMA LengthHeadInv ==
  ASSUME Inv, Reading, NEW b \in Seq(Byte), b = Sent.content,
         NEW j \in 0..Len(b), incoming' = Drop(b, j),
         ReadWithLength(Len(b), SubSeq(b, 1, j)), UNCHANGED due
  PROVE  Inv'
<1> DEFINE over == SubSeq(b, 1, j)
           n == Len(b)
<1>1. over \in Seq(Byte) /\ Len(over) = j
  BY Taken
<1>2. incoming' \in Seq(Byte) /\ Len(incoming') = n - j
  BY Dropped
<1>3. over \o incoming' = b
  <2>1. SubSeq(b, 1, j) \o Drop(b, j) = b
    BY Rejoined
  <2> QED
    BY <2>1
<1>4. n \in Nat /\ j \in Nat /\ j <= n /\ MaxStream \in Nat
  BY BoundsAssumption, Elements
<1>5. incoming' \in Seq(Nat)
  BY <1>2, Wider
<1>6. CASE n > MaxStream
  <2>1. Refuse
    BY <1>6 DEF ReadWithLength
  <2> QED
    BY <1>5, <1>6, <2>1, RefuseInv
<1>7. CASE ~(n > MaxStream) /\ n > Len(over)
  <2>1. /\ at' = "content" /\ wanted' = n - Len(over)
        /\ content' = over
        /\ UNCHANGED <<line, capacity, served>>
    BY <1>7 DEF ReadWithLength
  <2> HIDE DEF over, n
  <2>2. wanted' \in Nat /\ wanted' = Len(incoming')
    BY <1>1, <1>2, <1>4, <2>1
  <2>3. AtContent'
    <3>1. Reading' /\ Sent' = Sent
      BY <2>1 DEF Reading, Sent
    <3>2. content' \o incoming' = Sent'.content
      BY <1>3, <2>1, <3>1
    <3> QED
      BY <2>2, <3>1, <3>2 DEF AtContent
  <2>4. AtSize' /\ AtData' /\ AtEnd'
    BY <2>1 DEF AtSize, AtData, AtEnd
  <2>5. line' \in Seq(Byte) /\ capacity' \in Nat /\ content' \in Seq(Byte)
    BY <1>1, <2>1, TypesOf
  <2> QED
    BY <1>5, <2>1, <2>2, <2>3, <2>4, <2>5, GoesOn
<1>8. CASE ~(n > MaxStream) /\ ~(n > Len(over))
  <2>1. Serve(over)
    BY <1>8 DEF ReadWithLength
  <2>2. j = n
    <3> HIDE DEF over, n
    <3> QED
      BY <1>1, <1>4, <1>8
  <2>3. over = b /\ incoming' = <<>>
    BY <2>2, All
  <2>4. Serve(Sent.content)
    BY <2>1, <2>3
  <2> QED
    BY <2>3, <2>4, ServeInv
<1> QED
  BY <1>6, <1>7, <1>8

LEMMA ReadHeadInv ==
  ASSUME Inv, ReadHead
  PROVE  Inv'
<1>1. PICK i \in DOMAIN incoming : \E k \in i..Len(incoming) :
        LET head == incoming[i]
            over == SubSeq(incoming, i + 1, k)
        IN /\ HeadAt(i)
           /\ incoming' = Drop(incoming, k)
           /\ CASE i > 1 \/ head = BadLength -> Refuse
                [] i = 1 /\ head = NoContent -> Serve(over)
                [] i = 1 /\ head = Chunked ->
                     /\ at' = "size"
                     /\ line' = over
                     /\ capacity' = Greatest(LineBuffer, Len(over))
                     /\ UNCHANGED <<content, wanted, served>>
                [] OTHER -> ReadWithLength(head - ContentLength(0), over)
  BY DEF ReadHead
<1>2. PICK k \in i..Len(incoming) :
        LET head == incoming[i]
            over == SubSeq(incoming, i + 1, k)
        IN /\ HeadAt(i)
           /\ incoming' = Drop(incoming, k)
           /\ CASE i > 1 \/ head = BadLength -> Refuse
                [] i = 1 /\ head = NoContent -> Serve(over)
                [] i = 1 /\ head = Chunked ->
                     /\ at' = "size"
                     /\ line' = over
                     /\ capacity' = Greatest(LineBuffer, Len(over))
                     /\ UNCHANGED <<content, wanted, served>>
                [] OTHER -> ReadWithLength(head - ContentLength(0), over)
  BY <1>1
<1> DEFINE head == incoming[i]
           over == SubSeq(incoming, i + 1, k)
           Chunks1 == /\ at' = "size"
                      /\ line' = over
                      /\ capacity' = Greatest(LineBuffer, Len(over))
                      /\ UNCHANGED <<content, wanted, served>>
           A == Refuse
           B == Serve(over)
           D == ReadWithLength(head - ContentLength(0), over)
<1>3. HeadAt(i) /\ incoming' = Drop(incoming, k)
  BY <1>2
<1>4. (CASE i > 1 \/ head = BadLength -> A
         [] i = 1 /\ head = NoContent -> B
         [] i = 1 /\ head = Chunked -> Chunks1
         [] OTHER -> D)
  BY <1>2
<1>5. at = "head" /\ UNCHANGED due
  BY DEF ReadHead
<1>6. Reading /\ head = Sent.head
  BY <1>3, <1>5, HeadIs
<1>7. PICK left \in Seq(Byte), b \in Seq(Byte) :
        /\ Left(left) /\ Framing(Sent, b)
        /\ incoming = left \o (<<Sent.head>> \o b)
        /\ i = Len(left) + 1
  BY <1>3, <1>5, HeadIs
<1>8. content = <<>>
  BY <1>5 DEF Inv, AtHead
<1>9. /\ incoming \in Seq(Nat) /\ i \in 1..Len(incoming) /\ Len(incoming) \in Nat
      /\ head \in Nat /\ head >= 256
  <2>1. incoming \in Seq(Nat) /\ Len(incoming) \in Nat /\ i \in 1..Len(incoming)
    BY TypesOf, Elements
  <2> QED
    BY <1>6, <2>1, TypesOf, HeadsAreNat
<1>10. incoming' \in Seq(Nat)
  <2>1. k \in 0..Len(incoming)
    BY <1>9
  <2> QED
    BY <1>3, <1>9, <2>1, Dropped
<1> HIDE DEF head
<1>11. i > 1 \/ head = BadLength => A
  <2> HIDE DEF A, B, D, Chunks1
  <2> QED
    BY <1>4, <1>9 DEF BadLength, NoContent, Chunked
<1>12. i = 1 /\ head = NoContent => B
  <2> HIDE DEF A, B, D, Chunks1
  <2> QED
    BY <1>4, <1>9 DEF BadLength, NoContent, Chunked
<1>13. i = 1 /\ head = Chunked => Chunks1
  <2> HIDE DEF A, B, D, Chunks1
  <2> QED
    BY <1>4, <1>9 DEF BadLength, NoContent, Chunked
<1>14. i = 1 /\ head > Chunked + 1 => D
  <2> HIDE DEF A, B, D, Chunks1
  <2> QED
    BY <1>4, <1>9 DEF BadLength, NoContent, Chunked
<1>15. CASE i > 1
  <2>1. Refuse
    BY <1>11, <1>15
  <2>2. left # <<>>
    BY <1>7, <1>15, ByteFacts
  <2>3. Len(served) > 0 /\ due[Len(served)].head = Chunked
    BY <1>7, <2>2 DEF Left
  <2>4. Len(due) > 1 /\ due[Len(due) - 1].head = Chunked
    <3>1. Len(due) - 1 = Len(served) /\ Len(due) > 1
      BY <1>6, <2>3, TypesOf DEF Reading
    <3> QED
      BY <2>3, <3>1
  <2> QED
    BY <1>5, <1>6, <1>10, <2>1, <2>4, RefuseInv
<1>16. CASE i = 1 /\ head = BadLength
  <2>1. Refuse
    BY <1>11, <1>16
  <2>2. Sent.head = BadLength
    BY <1>6, <1>16
  <2> QED
    BY <1>5, <1>6, <1>10, <2>1, <2>2, RefuseInv
<1>17. CASE i = 1 /\ head # BadLength
  <2> DEFINE j == k - 1
  <2>1. left = <<>>
    <3>1. Len(left) = 0
      BY <1>7, <1>17, Elements
    <3> QED
      BY <3>1, EmptySeq
  <2>2. incoming = <<head>> \o b
    <3>1. <<head>> \o b \in Seq(Nat)
      <4>1. <<head>> \in Seq(Nat) /\ b \in Seq(Nat)
        BY <1>9, Wider
      <4> QED
        BY <4>1, ConcatProperties
    <3> DEFINE t == <<head>> \o b
    <3>2. incoming = left \o t
      BY <1>6, <1>7
    <3> HIDE DEF t
    <3>3. <<>> \o t = t
      BY <3>1, ConcatEmptySeq DEF t
    <3>4. incoming = t
      BY <2>1, <3>2, <3>3
    <3> QED
      BY <3>4 DEF t
  <2>3. k \in 1..Len(<<head>> \o b)
    BY <1>9, <1>17, <2>2
  <2>4. j \in 0..Len(b) /\ over = SubSeq(b, 1, j) /\ incoming' = Drop(b, j)
    <3>1. /\ k - 1 \in 0..Len(b)
          /\ SubSeq(<<head>> \o b, 2, k) = SubSeq(b, 1, k - 1)
          /\ Drop(<<head>> \o b, k) = Drop(b, k - 1)
      BY <1>9, <2>3, Behind
    <3>2. over = SubSeq(incoming, 2, k)
      BY <1>17
    <3> QED
      BY <1>3, <2>2, <3>1, <3>2
  <2> HIDE DEF over, j
  <2>5. CASE head = NoContent
    <3>1. b = <<>> /\ Sent.content = <<>>
      <4>1. ContentLength(Len(Sent.content)) # NoContent
        <5>1. Sent.content \in Seq(Byte)
          BY <1>6, TypesOf
        <5>2. Len(Sent.content) \in Nat
          BY <5>1, Elements
        <5> QED
          BY <5>2 DEF ContentLength, NoContent
      <4> QED
        BY <1>6, <1>7, <2>5, <4>1 DEF Framing, NoContent, Chunked, BadLength
    <3>2. Len(b) = 0
      BY <3>1, ByteFacts
    <3>3. j = Len(b)
      BY <2>4, <3>2
    <3>4. over = b /\ incoming' = <<>>
      BY <2>4, <3>3, All
    <3>5. Serve(Sent.content)
      BY <1>12, <1>17, <2>5, <3>1, <3>4
    <3> QED
      BY <1>5, <1>6, <3>4, <3>5, ServeInv
  <2>6. CASE head = Chunked
    <3>1. <<b, Sent.content>> \in Coded
      <4>1. ContentLength(Len(Sent.content)) # Chunked
        <5>1. Sent.content \in Seq(Byte)
          BY <1>6, TypesOf
        <5>2. Len(Sent.content) \in Nat
          BY <5>1, Elements
        <5> QED
          BY <5>2 DEF ContentLength, Chunked
      <4> QED
        BY <1>6, <1>7, <2>6, <4>1 DEF Framing, NoContent, Chunked, BadLength
    <3>2. Chunks1
      BY <1>13, <1>17, <2>6
    <3> QED
      BY <1>5, <1>6, <1>8, <2>4, <2>6, <3>1, <3>2, ChunkedHeadInv
  <2>7. CASE head # NoContent /\ head # Chunked
    <3>1. head = ContentLength(Len(Sent.content)) /\ b = Sent.content
      BY <1>6, <1>7, <1>17, <2>7 DEF Framing
    <3>2. Len(b) \in Nat
      BY Elements
    <3>3. head > Chunked + 1 /\ head - ContentLength(0) = Len(b)
      BY <3>1, <3>2 DEF ContentLength, Chunked
    <3>4. ReadWithLength(Len(b), SubSeq(b, 1, j))
      BY <1>14, <1>17, <2>4, <3>3
    <3> QED
      BY <1>5, <1>6, <2>4, <3>1, <3>4, LengthHeadInv
  <2> QED
    BY <2>5, <2>6, <2>7
<1> QED
  BY <1>9, <1>15, <1>16, <1>17

-----------------------------------------------------------------------------
(* Size lines as they are read.                                            *)

(* Behind the size line of a chunk of size n are the bytes m; d is what    *)
(* it and the chunks behind it stand for.                                  *)
Follows(n, m, d) ==
  \/ n = 0 /\ m = CRLF /\ d = <<>>
  \/ /\ n > 0
     /\ \E p, b, e \in Seq(Byte) :
          /\ <<b, e>> \in Coded /\ n = Len(p)
          /\ m = p \o (CRLF \o b) /\ d = p \o e

LEMMA SizeAhead ==
  ASSUME NEW b, NEW d, <<b, d>> \in Coded
  PROVE  \E n \in Nat, z \in {OneDigit} \cup Sizes, m \in Seq(Byte) :
           /\ Quotients(n, z.digits)[z.digits] = 0
           /\ b = SizeLine(n, z) \o m /\ Follows(n, m, d)
<1>1. CASE LastOnly(b, d)
  <2>1. b = SizeLine(0, OneDigit) \o CRLF /\ d = <<>>
    BY <1>1, LastIs DEF LastOnly
  <2>2. Follows(0, CRLF, d)
    BY <2>1 DEF Follows
  <2> QED
    BY <2>1, <2>2, LastIs, ByteFacts
<1>2. CASE OneMore(b, d)
  <2>1. PICK c \in Chunks, b1 \in Seq(Byte), d1 \in Seq(Byte) :
          <<b1, d1>> \in Coded /\ b = EncodeChunk(c) \o b1 /\ d = c.data \o d1
    BY <1>2 DEF OneMore
  <2> DEFINE n == Len(c.data)
             m == c.data \o (CRLF \o b1)
  <2>2. /\ m \in Seq(Byte) /\ b = SizeLine(n, c.size) \o m
    BY <2>1, EncodedIs
  <2>3. /\ n \in Nat /\ n > 0 /\ c.data \in Seq(Byte)
        /\ Quotients(n, c.size.digits)[c.size.digits] = 0
    BY ChunkIs
  <2>4. Follows(n, m, d)
    BY <2>1, <2>3 DEF Follows
  <2>5. c.size \in Sizes
    BY DEF Chunks
  <2> HIDE DEF n, m
  <2> QED
    BY <2>2, <2>3, <2>4, <2>5
<1> QED
  BY <1>1, <1>2, CodedCases

LEMMA ReceivedIs ==
  ASSUME Inv, at = "size"
  PROVE  /\ line \o incoming \in Seq(Byte)
         /\ \E q \in 0..Len(line \o incoming) :
              /\ Received = SubSeq(line \o incoming, 1, q)
              /\ Len(line) <= q /\ q <= capacity
              /\ q = Len(line \o incoming) \/ q = capacity
<1> DEFINE b == line \o incoming
           q == Greatest(Least(Len(line) + Len(incoming), capacity), Len(line))
<1>1. /\ line \in Seq(Nat) /\ incoming \in Seq(Nat) /\ Len(line) \in Nat /\ Len(incoming) \in Nat
      /\ capacity \in Nat
  BY TypesOf, Wider, Elements
<1>2. Len(line) <= capacity /\ b \in Seq(Byte)
  BY CodedCases DEF Inv, AtSize
<1>3. Len(b) = Len(line) + Len(incoming)
  BY <1>1, ConcatProperties
<1>4. Received = SubSeq(b, 1, q)
  BY DEF Received
<1> HIDE DEF b
<1>5. q \in 0..Len(b) /\ Len(line) <= q /\ q <= capacity /\ (q = Len(b) \/ q = capacity)
  BY <1>1, <1>2, <1>3 DEF Greatest, Least
<1> HIDE DEF q
<1> QED
  BY <1>2, <1>4, <1>5 DEF b

(* What the handler gets is the size line, as it was written, and the      *)
(* first o of the bytes m behind it.                                       *)
LEMMA SizeRead ==
  ASSUME Inv, ReadSize
  PROVE  \E n \in Nat, m \in Seq(Byte), d \in Seq(Byte) :
         /\ content \o d = Sent.content /\ Follows(n, m, d)
         /\ \E o \in 0..Len(m) :
              /\ o <= capacity /\ incoming' = Drop(m, o)
              /\ n = 0 => Serve(content)
              /\ n > 0 /\ n + Len(content) > MaxStream => Refuse
              /\ n > 0 /\ ~(n + Len(content) > MaxStream) =>
                   ChunkFollows(n, SubSeq(m, 1, o), o)
<1>1. at = "size"
  BY DEF ReadSize
<1>2. PICK d \in Seq(Byte) : <<line \o incoming, d>> \in Coded /\ content \o d = Sent.content
  BY <1>1 DEF Inv, AtSize
<1> DEFINE b == line \o incoming
<1>3. b \in Seq(Byte) /\ Len(b) \in Nat
  BY <1>1, ReceivedIs, Elements
<1>4. PICK q \in 0..Len(b) :
        /\ Received = SubSeq(b, 1, q)
        /\ Len(line) <= q /\ q <= capacity /\ (q = Len(b) \/ q = capacity)
  BY <1>1, ReceivedIs
<1>5. PICK n \in Nat, z \in {OneDigit} \cup Sizes, m \in Seq(Byte) :
        /\ Quotients(n, z.digits)[z.digits] = 0
        /\ b = SizeLine(n, z) \o m /\ Follows(n, m, d)
  BY <1>2, SizeAhead
<1>6. SizeForm(z)
  BY SizeForms
<1> DEFINE L == SizeLine(n, z)
           l == Len(L)
           s0 == SubSeq(b, 1, q)
<1>7. /\ L \in Seq(Byte) /\ l \in 3..LineBuffer /\ LineTo(b, l) /\ Len(b) = l + Len(m)
  BY <1>5, <1>6, SizeLineIs
<1>8. \A e \in DOMAIN s0 : LineEnd(s0, e) => e = l /\ q >= l
  BY <1>3, <1>7, LineReceived
<1>9. /\ LineBuffer \in Nat /\ LineBuffer <= capacity /\ capacity \in Nat
      /\ Len(line) \in Nat /\ Len(incoming) \in Nat /\ Len(m) \in Nat /\ q \in Nat
      /\ line \in Seq(Nat) /\ incoming \in Seq(Nat)
  <2>1. LineBuffer <= capacity
    BY <1>1 DEF Inv, AtSize, ReadingChunks
  <2>2. line \in Seq(Nat) /\ incoming \in Seq(Nat) /\ Len(line) \in Nat /\ Len(incoming) \in Nat
    BY TypesOf, Wider, Elements
  <2>3. capacity \in Nat /\ Len(m) \in Nat
    BY TypesOf, Elements
  <2> QED
    BY <1>3, <2>1, <2>2, <2>3, BoundsAssumption
<1>10. s0 \in Seq(Byte) /\ Len(s0) = q /\ DOMAIN s0 = 1..q
  <2>1. s0 \in Seq(Byte) /\ Len(s0) = q
    BY <1>3, Taken
  <2> HIDE DEF s0
  <2> QED
    BY <2>1, Elements
<1>11. q >= l => l \in DOMAIN s0 /\ LineEnd(s0, l)
  <2> SUFFICES ASSUME q >= l PROVE l \in DOMAIN s0 /\ LineEnd(s0, l)
    OBVIOUS
  <2>1. LineTo(s0, l)
    BY <1>3, <1>7, LineReceived
  <2>2. l \in DOMAIN s0
    BY <1>7, <1>9, <1>10
  <2> HIDE DEF s0, l
  <2> QED
    BY <1>10, <2>1, <2>2, LineFound
<1>12. ~(Len(s0) >= capacity /\ \A e \in DOMAIN s0 : ~LineEnd(s0, e))
  <2> SUFFICES ASSUME Len(s0) >= capacity PROVE \E e \in DOMAIN s0 : LineEnd(s0, e)
    OBVIOUS
  <2>1. q >= l
    <3> HIDE DEF s0, l
    <3> QED
      BY <1>7, <1>9, <1>10
  <2> QED
    BY <1>11, <2>1
<1>13. PICK e \in DOMAIN s0 :
         /\ LineEnd(s0, e)
         /\ \E k \in Greatest(e, Len(line))..Len(s0) :
              /\ e <= Len(line) => k = Len(line)
              /\ ChunkSize(SubSeq(s0, 1, k), e)
              /\ incoming' = Drop(incoming, k - Len(line))
  <2> HIDE DEF s0
  <2>1. Received = s0
    BY <1>4 DEF s0
  <2> QED
    BY <1>12, <2>1 DEF ReadSize
<1>14. e = l /\ q >= l
  BY <1>8, <1>13
<1>15. PICK k \in Greatest(l, Len(line))..Len(s0) :
         /\ ChunkSize(SubSeq(s0, 1, k), l)
         /\ incoming' = Drop(incoming, k - Len(line))
  BY <1>13, <1>14
<1> DEFINE s == SubSeq(b, 1, k)
           o == k - l
           r == SubSeq(m, 1, o)
<1>16. k \in Nat /\ k >= l /\ k >= Len(line) /\ k <= q /\ k <= Len(b) /\ k \in 0..q /\ l \in Nat
  <2>1. k \in Greatest(l, Len(line))..q /\ l \in Nat /\ q <= Len(b)
    <3> HIDE DEF s0, l, b
    <3> QED
      BY <1>3, <1>7, <1>9, <1>10
  <2> HIDE DEF s0, l, b
  <2> QED
    BY <1>3, <1>9, <2>1 DEF Greatest
<1>17. SubSeq(s0, 1, k) = s
  BY <1>3, <1>16, Again
<1>18. o \in 0..Len(m) /\ k = l + o /\ o <= capacity
  <2> HIDE DEF b, l
  <2> QED
    BY <1>4, <1>7, <1>9, <1>16
<1>19. s = L \o r /\ Drop(b, k) = Drop(m, o)
  <2>1. /\ SubSeq(L \o m, 1, Len(L) + o) = L \o SubSeq(m, 1, o)
        /\ Drop(L \o m, Len(L) + o) = Drop(m, o)
    <3> HIDE DEF L, o
    <3> QED
      BY <1>7, <1>18, InSecond
  <2>2. b = L \o m
    BY <1>5
  <2> HIDE DEF b, L, o
  <2> QED
    BY <1>18, <2>1, <2>2
<1>20. incoming' = Drop(m, o)
  <2> DEFINE j == k - Len(line)
  <2>1. j \in 0..Len(incoming) /\ k = Len(line) + j
    <3>1. Len(b) = Len(line) + Len(incoming)
      BY <1>9, ConcatProperties
    <3> HIDE DEF b
    <3> QED
      BY <1>9, <1>16, <3>1
  <2>2. incoming' = Drop(incoming, j)
    BY <1>15
  <2> HIDE DEF j, o
  <2>3. Drop(line \o incoming, Len(line) + j) = Drop(incoming, j)
    BY <1>9, <2>1, InSecond
  <2> QED
    BY <1>19, <2>1, <2>2, <2>3
<1>21. r \in Seq(Byte) /\ Len(r) = o
  <2> HIDE DEF o
  <2> QED
    BY <1>18, Taken
<1>22. /\ Digits(s) > 0 /\ Number(SubSeq(s, 1, l - 1)) = n /\ Drop(s, l) = r
  <2>1. /\ Digits(L \o r) > 0 /\ Number(SubSeq(L \o r, 1, Len(L) - 1)) = n
        /\ Drop(L \o r, Len(L)) = r
    <3> HIDE DEF r
    <3> QED
      BY <1>5, <1>6, <1>21, SizeInLine
  <2> HIDE DEF L, r, s
  <2> QED
    BY <1>19, <2>1
<1>23. FirstLF(s) = l
  <2>1. LineTo(s, l)
    <3>1. k \in 0..Len(b) /\ k >= l
      <4> HIDE DEF b, l
      <4> QED
        BY <1>3, <1>16
    <3> QED
      BY <1>3, <1>7, <3>1, LineReceived
  <2>2. s \in Seq(Byte)
    <3>1. k \in 0..Len(b)
      <4> HIDE DEF b, l
      <4> QED
        BY <1>3, <1>16
    <3> QED
      BY <1>3, <3>1, Taken
  <2> HIDE DEF s, l
  <2> QED
    BY <2>1, <2>2, LineFound
<1>24. Len(s) - l - (l - l) = o
  <2>1. Len(s) = k
    <3>1. k \in 0..Len(b)
      <4> HIDE DEF b, l
      <4> QED
        BY <1>3, <1>16
    <3> QED
      BY <1>3, <3>1, Taken
  <2> HIDE DEF s, l
  <2> QED
    BY <1>16, <2>1
<1>25. ChunkSize(s, l)
  BY <1>15, <1>17
<1> HIDE DEF b, L, l, s0, s, o, r
<1> DEFINE A == Refuse
           B == Serve(content)
           C == ChunkFollows(n, r, o)
<1>26. (CASE Digits(s) = 0 -> A
          [] Digits(s) > 0 /\ n = 0 -> B
          [] n > 0 /\ n + Len(content) > MaxStream -> A
          [] OTHER -> C)
  BY <1>22, <1>23, <1>24, <1>25 DEF ChunkSize
<1>27. MaxStream \in Nat /\ Len(content) \in Nat
  BY BoundsAssumption, TypesOf, Elements
<1> HIDE DEF A, B, C
<1>28. n = 0 => B
  BY <1>22, <1>26, <1>27
<1>29. n > 0 /\ n + Len(content) > MaxStream => A
  BY <1>22, <1>26, <1>27
<1>30. n > 0 /\ ~(n + Len(content) > MaxStream) => C
  BY <1>22, <1>26, <1>27
<1>31. n > 0 /\ ~(n + Len(content) > MaxStream) => ChunkFollows(n, SubSeq(m, 1, o), o)
  BY <1>30 DEF C, r
<1> QED
  BY <1>2, <1>5, <1>18, <1>20, <1>28, <1>29, <1>31 DEF A, B

(* What is left of "\r\n", and of what it stands in front of.              *)
LEMMA EndingLeft ==
  /\ Drop(CRLF, 0) = CRLF /\ Drop(CRLF, 1) = <<LF>> /\ Drop(CRLF, 2) = <<>>
  /\ \A b \in Seq(Byte) : Drop(CRLF \o b, 2) = b
  /\ \A w \in {1, 2}, b \in Seq(Byte) : Drop(CRLF \o b, 2 - w) = Ending(w) \o b
<1>1. CRLF \in Seq(Byte) /\ Len(CRLF) = 2
  BY ByteFacts
<1>2. Drop(CRLF, 0) = CRLF /\ Drop(CRLF, 2) = <<>>
  BY <1>1, All
<1>3. Drop(CRLF, 1) = <<LF>>
  <2> DEFINE p == Drop(CRLF, 1)
  <2>1. 1 \in 0..Len(CRLF)
    BY <1>1
  <2>2. p \in Seq(Byte) /\ Len(p) = Len(CRLF) - 1 /\ \A i \in 1..(Len(CRLF) - 1) : p[i] = CRLF[1 + i]
    BY <1>1, <2>1, Dropped
  <2>3. <<LF>> \in Seq(Byte) /\ Len(<<LF>>) = 1 /\ <<LF>>[1] = LF /\ CRLF[2] = LF
    BY ByteFacts
  <2> DEFINE q == <<LF>>
  <2> HIDE DEF p, q
  <2>4. Len(p) = Len(q) /\ \A i \in 1..Len(p) : p[i] = q[i]
    BY <1>1, <2>2, <2>3 DEF q
  <2>5. q \in Seq(Byte)
    BY <2>3 DEF q
  <2>6. p = q
    BY <2>2, <2>4, <2>5, SeqEqual
  <2> QED
    BY <2>6 DEF p, q
<1>4. ASSUME NEW b \in Seq(Byte), NEW j \in {0, 1, 2}
      PROVE  Drop(CRLF \o b, j) = Drop(CRLF, j) \o b
  <2>1. j \in 0..Len(CRLF)
    BY <1>1
  <2> QED
    BY <1>1, <2>1, InFirst
<1>5. ASSUME NEW b \in Seq(Byte) PROVE Drop(CRLF \o b, 2) = b
  <2>1. <<>> \o b = b
    BY ConcatEmptySeq
  <2> QED
    BY <1>2, <1>4, <2>1
<1>6. ASSUME NEW w \in {1, 2}, NEW b \in Seq(Byte)
      PROVE  Drop(CRLF \o b, 2 - w) = Ending(w) \o b
  <2>1. CASE w = 1
    <3>1. 2 - w = 1 /\ Ending(w) = <<LF>>
      BY <2>1 DEF Ending
    <3> QED
      BY <1>3, <1>4, <3>1
  <2>2. CASE w = 2
    <3>1. 2 - w = 0 /\ Ending(w) = CRLF
      BY <2>2 DEF Ending
    <3> QED
      BY <1>2, <1>4, <3>1
  <2> QED
    BY <2>1, <2>2
<1> QED
  BY <1>2, <1>3, <1>5, <1>6

(* Concatenation, as an operator that is not expanded.                     *)
Cat(a, b) == a \o b

LEMMA Grouped ==
  ASSUME NEW c \in Seq(Byte), NEW p \in Seq(Byte), NEW e \in Seq(Byte)
  PROVE  Cat(Cat(c, p), e) = Cat(c, Cat(p, e)) /\ Cat(c, p) \in Seq(Byte)
<1>1. (c \o p) \o e = c \o (p \o e)
  BY ConcatAssociative
<1>2. c \o p \in Seq(Byte)
  BY ConcatProperties
<1> QED
  BY <1>1, <1>2 DEF Cat

(* A chunk's content p, cut within p: the first part goes to the content c. *)
LEMMA CutWithin ==
  ASSUME NEW c \in Seq(Byte), NEW p \in Seq(Byte), NEW e \in Seq(Byte), NEW o \in 0..Len(p)
  PROVE  /\ ((c \o SubSeq(p, 1, o)) \o Drop(p, o)) \o e = c \o (p \o e)
         /\ c \o SubSeq(p, 1, o) \in Seq(Byte)
<1> DEFINE x == SubSeq(p, 1, o)
           y == Drop(p, o)
<1>1. x \o y = p
  BY Rejoined
<1>2. x \in Seq(Byte) /\ y \in Seq(Byte)
  <2>1. x \in Seq(Byte)
    BY Taken
  <2>2. y \in Seq(Byte)
    BY Dropped
  <2> QED
    BY <2>1, <2>2
<1> HIDE DEF x, y
<1>3. ((c \o x) \o y) \o e = c \o ((x \o y) \o e) /\ c \o x \in Seq(Byte)
  <2>1. /\ Cat(Cat(Cat(c, x), y), e) = Cat(c, Cat(Cat(x, y), e))
        /\ Cat(c, x) \in Seq(Byte)
    BY <1>2, Grouped
  <2> QED
    BY <2>1 DEF Cat
<1> QED
  BY <1>1, <1>3 DEF x, y

(* p and the bytes t behind it, cut behind p.                              *)
LEMMA CutBehind ==
  ASSUME NEW p \in Seq(Byte), NEW t \in Seq(Byte), NEW o \in 0..Len(p \o t), Len(p) <= o
  PROVE  LET r == SubSeq(p \o t, 1, o) IN
         /\ SubSeq(r, 1, Len(p)) = p
         /\ Drop(p \o t, o) = Drop(t, o - Len(p))
         /\ \A j \in 0..o : j >= Len(p) => Drop(r, j) \o Drop(p \o t, o) = Drop(t, j - Len(p))
<1> DEFINE m == p \o t
           n == Len(p)
           r == SubSeq(m, 1, o)
<1>1. m \in Seq(Byte) /\ Len(m) = n + Len(t)
  BY Joined
<1>2. n \in Nat /\ Len(t) \in Nat
  BY Elements
<1>3. o \in 0..Len(m) /\ n <= o
  OBVIOUS
<1>4. SubSeq(m, 1, n) = p
  <2>1. n \in 0..n
    BY <1>2
  <2>2. SubSeq(m, 1, n) = SubSeq(p, 1, n)
    BY <2>1, InFirst
  <2> QED
    BY <2>2, All
<1>5. ASSUME NEW j \in 0..Len(m), n <= j PROVE Drop(m, j) = Drop(t, j - n)
  <2> DEFINE h == j - n
  <2>1. h \in 0..Len(t) /\ n + h = j
    <3> HIDE DEF m, n
    <3> QED
      BY <1>1, <1>2, <1>5
  <2> HIDE DEF h
  <2>2. Drop(p \o t, Len(p) + h) = Drop(t, h)
    BY <2>1, InSecond
  <2>3. Drop(m, j) = Drop(t, h)
    BY <2>1, <2>2
  <2> QED
    BY <2>3 DEF h
<1> HIDE DEF m
<1>6. n \in 0..o
  <2> HIDE DEF n
  <2> QED
    BY <1>1, <1>2, <1>3
<1>7. SubSeq(r, 1, n) = p
  <2> HIDE DEF n
  <2>1. SubSeq(r, 1, n) = SubSeq(m, 1, n)
    BY <1>1, <1>3, <1>6, Again
  <2> QED
    BY <1>4, <2>1
<1>8. ASSUME NEW j \in 0..o, j >= n PROVE Drop(r, j) \o Drop(m, o) = Drop(t, j - n)
  <2>1. Drop(r, j) \o Drop(m, o) = Drop(m, j)
    BY <1>1, <1>3, Again
  <2>2. j \in 0..Len(m) /\ n <= j
    <3> HIDE DEF n
    <3> QED
      BY <1>1, <1>2, <1>3, <1>8
  <2> HIDE DEF n, r
  <2> QED
    BY <1>5, <2>1, <2>2
<1>9. Drop(m, o) = Drop(t, o - n)
  BY <1>3, <1>5
<1> QED
  BY <1>7, <1>8, <1>9 DEF m

LEMMA ChunkFollowsInv ==
  ASSUME Inv, at = "size", UNCHANGED due,
         NEW p \in Seq(Byte), NEW b \in Seq(Byte), NEW e \in Seq(Byte),
         <<b, e>> \in Coded, content \o (p \o e) = Sent.content,
         NEW o \in 0..Len(p \o (CRLF \o b)), o <= capacity,
         incoming' = Drop(p \o (CRLF \o b), o),
         ChunkFollows(Len(p), SubSeq(p \o (CRLF \o b), 1, o), o)
  PROVE  Inv'
<1> DEFINE n == Len(p)
           t == CRLF \o b
           m == p \o t
           r == SubSeq(m, 1, o)
<1>1. CRLF \in Seq(Byte) /\ Len(CRLF) = 2
  BY ByteFacts
<1>2. t \in Seq(Byte) /\ Len(t) = 2 + Len(b)
  <2>1. CRLF \in Seq(Byte)
    BY <1>1
  <2>2. t \in Seq(Byte) /\ Len(t) = Len(CRLF) + Len(b)
    BY <2>1, Joined
  <2> HIDE DEF t
  <2> QED
    BY <1>1, <2>2
<1>3. m \in Seq(Byte) /\ Len(m) = n + Len(t)
  <2> HIDE DEF t
  <2> QED
    BY <1>2, Joined
<1>4. n \in Nat /\ Len(b) \in Nat /\ o \in Nat /\ o \in 0..Len(m)
  BY <1>3, Elements
<1>5. r \in Seq(Byte) /\ Len(r) = o
  <2> HIDE DEF m
  <2> QED
    BY <1>3, <1>4, Taken
<1>6. SubSeq(r, 1, o) = r /\ Drop(r, o) = <<>>
  <2> HIDE DEF r
  <2> QED
    BY <1>5, All
<1>7. /\ content \in Seq(Byte) /\ line \in Seq(Byte) /\ capacity \in Nat
      /\ ReadingChunks
  BY TypesOf DEF Inv, AtSize
<1> DEFINE A == /\ content' = content \o r
                /\ at' = "data" /\ wanted' = n - o /\ line' = <<>>
           B == /\ content' = content \o SubSeq(r, 1, n)
                /\ at' = "end" /\ wanted' = 2 + n - o /\ line' = <<>>
           C == /\ content' = content \o SubSeq(r, 1, n)
                /\ at' = "size" /\ wanted' = 0 /\ line' = Drop(r, n + 2)
<1>8. UNCHANGED <<capacity, served>>
  BY DEF ChunkFollows
<1>9. /\ o < n => A
      /\ n <= o /\ o < n + 2 => B
      /\ n + 2 <= o => C
  <2> DEFINE k == Moved(n, o)
             A0 == at' = "data" /\ wanted' = n - o /\ line' = Drop(r, k)
             B0 == /\ at' = "end" /\ wanted' = 2 + n - o
                   /\ line' = Drop(r, k + (IF wanted' = 1 THEN 1 ELSE 0))
             C0 == at' = "size" /\ wanted' = 0 /\ line' = Drop(r, k + 2)
  <2>1. content' = content \o SubSeq(r, 1, k)
    BY DEF ChunkFollows
  <2>2. (CASE n > o -> A0 [] n <= o /\ n + 2 > o -> B0 [] OTHER -> C0)
    BY DEF ChunkFollows
  <2> HIDE DEF A0, B0, C0, n, r
  <2>3. k = IF n < o THEN n ELSE o
    BY DEF Moved, Least
  <2> HIDE DEF k
  <2>4. (o < n => A0) /\ (n <= o /\ o < n + 2 => B0) /\ (n + 2 <= o => C0)
    BY <1>4, <2>2
  <2>5. (o < n => k = o) /\ (n <= o => k = n)
    BY <1>4, <2>3
  <2>6. ASSUME o < n PROVE A
    BY <1>6, <2>1, <2>4, <2>5, <2>6 DEF A0
  <2>7. ASSUME n <= o, o < n + 2 PROVE B
    <3>1. at' = "end" /\ wanted' = 2 + n - o /\ k = n
      BY <2>4, <2>5, <2>7 DEF B0
    <3>2. n + (IF wanted' = 1 THEN 1 ELSE 0) = o
      BY <1>4, <2>7, <3>1
    <3>3. line' = Drop(r, o)
      BY <2>4, <2>7, <3>1, <3>2 DEF B0
    <3> QED
      BY <1>6, <2>1, <3>1, <3>3
  <2>8. ASSUME n + 2 <= o PROVE C
    <3>1. n <= o
      BY <1>4, <2>8
    <3> QED
      BY <2>1, <2>4, <2>5, <2>8, <3>1 DEF C0
  <2> QED
    BY <2>6, <2>7, <2>8
<1>10. ReadingChunks' /\ Sent' = Sent /\ capacity' \in Nat
  BY <1>7, <1>8 DEF ReadingChunks, Reading, Sent
<1>11. incoming' \in Seq(Byte) /\ incoming' \in Seq(Nat)
  <2> HIDE DEF m
  <2>1. Drop(m, o) \in Seq(Byte)
    BY <1>3, <1>4, Dropped
  <2>2. incoming' \in Seq(Byte)
    BY <2>1 DEF m
  <2> QED
    BY <2>2, Wider
<1>12. CASE o < n
  <2>1. A
    BY <1>9, <1>12
  <2> DEFINE y == Drop(p, o)
  <2>2. o \in 0..Len(p)
    BY <1>4, <1>12
  <2>3. /\ r = SubSeq(p, 1, o) /\ Drop(m, o) = y \o t
        /\ ((content \o SubSeq(p, 1, o)) \o y) \o e = content \o (p \o e)
        /\ y \in Seq(Byte) /\ Len(y) = n - o
        /\ content \o SubSeq(p, 1, o) \in Seq(Byte)
    <3>1. content \in Seq(Byte) /\ t \in Seq(Byte)
      BY <1>2, <1>7
    <3> HIDE DEF t, y
    <3>2. SubSeq(p \o t, 1, o) = SubSeq(p, 1, o)
      BY <2>2, <3>1, InFirst
    <3>3. Drop(p \o t, o) = Drop(p, o) \o t
      BY <2>2, <3>1, InFirst
    <3>4. /\ ((content \o SubSeq(p, 1, o)) \o Drop(p, o)) \o e = content \o (p \o e)
          /\ content \o SubSeq(p, 1, o) \in Seq(Byte)
      BY <2>2, <3>1, CutWithin
    <3>5. Drop(p, o) \in Seq(Byte) /\ Len(Drop(p, o)) = Len(p) - o
      BY <2>2, Dropped
    <3> QED
      BY <3>2, <3>3, <3>4, <3>5 DEF y
  <2> HIDE DEF y, r
  <2>4. content' \in Seq(Byte) /\ (content' \o y) \o e = Sent.content
    BY <2>1, <2>3
  <2>5. incoming' = y \o (CRLF \o b) /\ wanted' = Len(y) /\ wanted' \in Nat
    <3>1. incoming' = y \o t
      BY <2>3
    <3>2. n - o \in Nat
      BY <1>4, <1>12
    <3> QED
      BY <2>1, <2>3, <3>1, <3>2
  <2>6. AtData'
    <3>1. \E b_1, d_1, p_1 \in Seq(Byte) :
            /\ <<b_1, d_1>> \in Coded
            /\ incoming' = p_1 \o (CRLF \o b_1) /\ wanted' = Len(p_1)
            /\ (content' \o p_1) \o d_1 = Sent'.content
      BY <1>10, <2>3, <2>4, <2>5
    <3> QED
      BY <1>10, <2>1, <3>1 DEF AtData
  <2>7. AtContent' /\ AtSize' /\ AtEnd'
    BY <2>1 DEF AtContent, AtSize, AtEnd
  <2>8. line' \in Seq(Byte) /\ at' \in {"content", "size", "data", "end"}
    BY <2>1, ByteFacts
  <2> QED
    BY <1>8, <1>10, <1>11, <2>4, <2>5, <2>6, <2>7, <2>8, GoesOn
<1>13. ASSUME n <= o
       PROVE  /\ SubSeq(r, 1, n) = p
              /\ Drop(m, o) = Drop(t, o - n)
              /\ \A j \in 0..o : j >= n => Drop(r, j) \o Drop(m, o) = Drop(t, j - n)
  <2> HIDE DEF t
  <2> QED
    BY <1>2, <1>4, <1>13, CutBehind
<1>14. (content \o p) \o e = Sent.content /\ content \o p \in Seq(Byte)
  <2>0. content \in Seq(Byte)
    BY <1>7
  <2>1. /\ Cat(Cat(content, p), e) = Cat(content, Cat(p, e))
        /\ Cat(content, p) \in Seq(Byte)
    BY <2>0, Grouped
  <2>2. (content \o p) \o e = content \o (p \o e) /\ content \o p \in Seq(Byte)
    BY <2>1 DEF Cat
  <2> QED
    BY <2>2
<1>15. CASE n <= o /\ o < n + 2
  <2>1. B /\ SubSeq(r, 1, n) = p /\ Drop(m, o) = Drop(t, o - n)
    BY <1>9, <1>13, <1>15
  <2> DEFINE w == 2 + n - o
  <2>2. w \in {1, 2} /\ o - n = 2 - w
    BY <1>4, <1>15
  <2>3. wanted' = w
    BY <2>1
  <2> HIDE DEF w
  <2>4. Drop(t, 2 - w) = Ending(w) \o b
    BY <2>2, EndingLeft
  <2>5. incoming' = Ending(wanted') \o b
    <3>1. incoming' = Drop(m, o)
      OBVIOUS
    <3>2. Drop(m, o) = Drop(t, 2 - w)
      BY <2>1, <2>2
    <3> QED
      BY <2>3, <2>4, <3>1, <3>2
  <2>6. content' = content \o p
    BY <2>1
  <2>7. AtEnd'
    <3>1. \E b_1, d_1 \in Seq(Byte) :
            /\ <<b_1, d_1>> \in Coded
            /\ incoming' = Ending(wanted') \o b_1
            /\ content' \o d_1 = Sent'.content
      BY <1>10, <1>14, <2>5, <2>6
    <3>2. line' = <<>> /\ wanted' \in {1, 2}
      BY <2>1, <2>2, <2>3
    <3> QED
      BY <1>10, <3>1, <3>2 DEF AtEnd
  <2>8. AtContent' /\ AtSize' /\ AtData'
    BY <2>1 DEF AtContent, AtSize, AtData
  <2>9. /\ line' \in Seq(Byte) /\ at' \in {"content", "size", "data", "end"}
        /\ wanted' \in Nat /\ content' \in Seq(Byte)
    BY <1>14, <2>1, <2>2, <2>3, <2>6, ByteFacts
  <2> QED
    BY <1>8, <1>10, <1>11, <2>7, <2>8, <2>9, GoesOn
<1>16. CASE n + 2 <= o
  <2>1. n <= o /\ n + 2 \in 0..o /\ n + 2 >= n /\ (n + 2) - n = 2
    BY <1>4, <1>16
  <2>2. /\ C /\ SubSeq(r, 1, n) = p
        /\ Drop(r, n + 2) \o Drop(m, o) = Drop(t, 2)
    <3>1. C /\ SubSeq(r, 1, n) = p
      BY <1>9, <1>13, <1>16, <2>1
    <3>2. Drop(r, n + 2) \o Drop(m, o) = Drop(t, (n + 2) - n)
      BY <1>13, <2>1
    <3> QED
      BY <2>1, <3>1, <3>2
  <2>3. Drop(t, 2) = b
    BY EndingLeft
  <2>4. line' \o incoming' = b
    BY <2>2, <2>3
  <2>5. line' \in Seq(Byte) /\ Len(line') <= capacity'
    <3> DEFINE j == n + 2
    <3>1. j \in 0..Len(r) /\ j \in Nat
      BY <1>4, <1>5, <2>1
    <3> HIDE DEF r, j
    <3>2. Drop(r, j) \in Seq(Byte) /\ Len(Drop(r, j)) = Len(r) - j
      BY <1>5, <3>1, Dropped
    <3>3. line' = Drop(r, j)
      BY <2>2 DEF j
    <3>4. o - j <= capacity
      BY <1>4, <1>7, <3>1
    <3> QED
      BY <1>5, <1>8, <3>2, <3>3, <3>4
  <2>6. content' = content \o p
    BY <2>2
  <2>7. AtSize'
    <3>1. \E d_1 \in Seq(Byte) : <<line' \o incoming', d_1>> \in Coded
                                   /\ content' \o d_1 = Sent'.content
      BY <1>10, <1>14, <2>4, <2>6
    <3> QED
      BY <1>10, <2>5, <3>1 DEF AtSize
  <2>8. AtContent' /\ AtData' /\ AtEnd'
    BY <2>2 DEF AtContent, AtData, AtEnd
  <2>9. /\ at' \in {"content", "size", "data", "end"} /\ wanted' \in Nat
        /\ content' \in Seq(Byte)
    BY <1>14, <2>2, <2>6
  <2> QED
    BY <1>8, <1>10, <1>11, <2>5, <2>7, <2>8, <2>9, GoesOn
<1> QED
  <2> HIDE DEF n
  <2> QED
    BY <1>4, <1>12, <1>15, <1>16

LEMMA ReadSizeInv ==
  ASSUME Inv, ReadSize
  PROVE  Inv'
<1>1. at = "size" /\ UNCHANGED due
  BY DEF ReadSize
<1>2. PICK n \in Nat, m \in Seq(Byte), d \in Seq(Byte) :
        /\ content \o d = Sent.content /\ Follows(n, m, d)
        /\ \E o \in 0..Len(m) :
             /\ o <= capacity /\ incoming' = Drop(m, o)
             /\ n = 0 => Serve(content)
             /\ n > 0 /\ n + Len(content) > MaxStream => Refuse
             /\ n > 0 /\ ~(n + Len(content) > MaxStream) =>
                  ChunkFollows(n, SubSeq(m, 1, o), o)
  BY SizeRead
<1>3. PICK o \in 0..Len(m) :
        /\ o <= capacity /\ incoming' = Drop(m, o)
        /\ n = 0 => Serve(content)
        /\ n > 0 /\ n + Len(content) > MaxStream => Refuse
        /\ n > 0 /\ ~(n + Len(content) > MaxStream) =>
             ChunkFollows(n, SubSeq(m, 1, o), o)
  BY <1>2
<1>4. ReadingChunks /\ content \in Seq(Byte)
  BY <1>1, TypesOf DEF Inv, AtSize
<1>5. CASE n = 0 /\ m = CRLF /\ d = <<>>
  <2>1. content = Sent.content
    <3>1. content \o <<>> = content
      BY <1>4, ConcatEmptySeq
    <3> QED
      BY <1>2, <1>5, <3>1
  <2>2. o \in {0, 1, 2}
    BY <1>5, ByteFacts
  <2>3. incoming' \in {CRLF, <<LF>>, <<>>}
    BY <1>3, <1>5, <2>2, EndingLeft
  <2>4. Serve(content)
    BY <1>3, <1>5
  <2> QED
    BY <1>1, <1>4, <2>1, <2>3, <2>4, ServeInv DEF ReadingChunks
<1>6. CASE n > 0 /\ \E p, b, e \in Seq(Byte) :
             /\ <<b, e>> \in Coded /\ n = Len(p)
             /\ m = p \o (CRLF \o b) /\ d = p \o e
  <2>1. PICK p \in Seq(Byte), b \in Seq(Byte), e \in Seq(Byte) :
          /\ <<b, e>> \in Coded /\ n = Len(p)
          /\ m = p \o (CRLF \o b) /\ d = p \o e
    BY <1>6
  <2>2. CASE n + Len(content) > MaxStream
    <3>1. Refuse
      BY <1>3, <1>6, <2>2
    <3>2. Len(Sent.content) > MaxStream
      <4>1. p \o e \in Seq(Byte) /\ Len(p \o e) = Len(p) + Len(e)
        BY Joined
      <4>2. d \in Seq(Byte) /\ Len(d) = n + Len(e)
        BY <2>1, <4>1
      <4>3. Len(content \o d) = Len(content) + Len(d)
        BY <1>4, <4>2, Joined
      <4>4. Len(content) \in Nat /\ Len(e) \in Nat /\ MaxStream \in Nat
        BY <1>4, Elements, BoundsAssumption
      <4>5. Len(Sent.content) = Len(content) + (n + Len(e))
        BY <1>2, <4>2, <4>3
      <4> QED
        BY <2>2, <4>4, <4>5
    <3>3. incoming' \in Seq(Nat)
      <4>1. Drop(m, o) \in Seq(Byte)
        BY Dropped
      <4> QED
        BY <1>3, <4>1, Wider
    <3> QED
      BY <1>1, <1>4, <3>1, <3>2, <3>3, RefuseInv DEF ReadingChunks
  <2>3. CASE ~(n + Len(content) > MaxStream)
    <3>1. ChunkFollows(n, SubSeq(m, 1, o), o)
      BY <1>3, <1>6, <2>3
    <3> QED
      BY <1>1, <1>2, <1>3, <2>1, <3>1, ChunkFollowsInv
  <2> QED
    BY <2>2, <2>3
<1> QED
  BY <1>2, <1>5, <1>6 DEF Follows

-----------------------------------------------------------------------------
LEMMA NextInv ==
  ASSUME Inv, [Next]_vars
  PROVE  Inv'
<1>1. CASE SendRequest
  BY <1>1, SendRequestInv
<1>2. CASE ReadHead
  BY <1>2, ReadHeadInv
<1>3. CASE ReadContent
  BY <1>3, ReadContentInv
<1>4. CASE ReadSize
  BY <1>4, ReadSizeInv
<1>5. CASE ReadData
  BY <1>5, ReadDataInv
<1>6. CASE ReadEnd
  BY <1>6, ReadEndInv
<1>7. CASE ReadFails
  BY <1>7, ReadFailsInv
<1>8. CASE UNCHANGED vars
  <2>1. UNCHANGED <<incoming, due, at, content, line, capacity, wanted, served>>
    BY <1>8 DEF vars, reader
  <2>2. TypeOK' /\ RefusedForCause' /\ CleanStart' /\ ContentIntact'
    BY <2>1 DEF Inv, IInv, TypeOK, RefusedForCause, CleanStart, ContentIntact
  <2>3. AtHead'
    BY <2>1 DEF Inv, AtHead, Left, Ahead, Reading, Sent
  <2>4. AtContent' /\ AtSize' /\ AtData' /\ AtEnd'
    BY <2>1 DEF Inv, AtContent, AtSize, AtData, AtEnd, ReadingChunks, Reading, Sent
  <2> QED
    BY <2>2, <2>3, <2>4 DEF Inv, IInv
<1> QED
  BY <1>1, <1>2, <1>3, <1>4, <1>5, <1>6, <1>7, <1>8 DEF Next, Read

(* The types, why a request is refused, and what is left of one when the   *)
(* next is read: read(), read_chunked_transfer_encoded().                  *)
THEOREM ReadingInvariant == Spec => []IInv
<1>1. Inv => IInv
  BY DEF Inv
<1>2. Inv /\ [Next]_vars => Inv'
  BY NextInv
<1> QED
  BY InitInv, <1>1, <1>2, PTL DEF Spec

(* A resource function finds in the request the content that the client    *)
(* sent, for chunks of any content and size line that fits the buffer and  *)
(* however many bytes each async_read_until() of read() and                *)
(* read_chunked_transfer_encoded() takes off the socket.                   *)
THEOREM RequestsKeepTheirContent == Spec => []ContentIntact
<1>1. Inv => ContentIntact
  BY DEF Inv
<1>2. Inv /\ [Next]_vars => Inv'
  BY NextInv
<1> QED
  BY InitInv, <1>1, <1>2, PTL DEF Spec
=============================================================================
