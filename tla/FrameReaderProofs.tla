-------------------------- MODULE FrameReaderProofs --------------------------
(***************************************************************************)
(* Proofs about FrameReader, for any widths of the length fields, any      *)
(* payloads and any number of frames: IInv is an inductive invariant, a    *)
(* length is read as it was written, a mask is undone, and FrameReader     *)
(* takes only steps of MessageStream.                                      *)
(*                                                                         *)
(* The induction over data that this takes is over subsets of Nat, each of *)
(* which has a smallest element.                                           *)
(***************************************************************************)
EXTENDS FrameReader, SequenceTheorems, WellFoundedInduction, TLAPS

(* Numbers. *)

LEMMA Smallest ==
  ASSUME NEW T, T \subseteq Nat, T # {}
  PROVE  \E x \in T : \A y \in T : x <= y
<1> DEFINE R == OpToRel(<, Nat)
<1>1. IsWellFoundedOn(R, Nat)
  BY NatLessThanWellFounded
<1>2. \A x, y \in Nat : y < x => <<y, x>> \in R
  BY DEF OpToRel
<1> HIDE DEF R
<1>3. PICK x \in T : \A y \in T : ~ (<<y, x>> \in R)
  BY <1>1, WFMin
<1>4. ASSUME NEW y \in T PROVE x <= y
  <2>1. ~(<<y, x>> \in R)
    BY <1>3
  <2>2. x \in Nat /\ y \in Nat
    OBVIOUS
  <2>3. ~(y < x)
    BY <1>2, <2>1, <2>2
  <2> QED
    BY <2>2, <2>3
<1> QED
  BY <1>4

(* Induction up to n, over a set. *)
LEMMA UpTo ==
  ASSUME NEW n \in Nat, NEW S, 0 \in S,
         \A i \in 0..n : i + 1 <= n /\ i \in S => i + 1 \in S
  PROVE  0..n \subseteq S
<1> DEFINE T == {i \in 0..n : i \notin S}
<1>1. SUFFICES ASSUME T # {} PROVE FALSE
  OBVIOUS
<1>0. T \subseteq Nat
  OBVIOUS
<1>2. PICK x \in T : \A y \in T : x <= y
  <2> HIDE DEF T
  <2> QED
    BY <1>0, <1>1, Smallest
<1>3. x \in 1..n /\ x - 1 \notin T
  BY <1>2
<1>4. x - 1 \in S /\ x - 1 \in 0..n /\ (x - 1) + 1 = x
  BY <1>3
<1> QED
  BY <1>3, <1>4

LEMMA Powers ==
  \A k \in 0..WideBytes : Base ^ k \in Nat \ {0}
<1> DEFINE S == {k \in Nat : Base ^ k \in Nat \ {0}}
<1>0. Base \in Nat \ {0} /\ WideBytes \in Nat
  BY WidthsAssumption
<1>1. 0 \in S
  BY PowersAssumption
<1>2. ASSUME NEW i \in 0..WideBytes, i + 1 <= WideBytes, i \in S
      PROVE  i + 1 \in S
  <2>1. Base ^ (i + 1) = Base * Base ^ i
    <3>1. i + 1 \in 1..WideBytes /\ (i + 1) - 1 = i
      BY <1>0, <1>2
    <3> QED
      BY <3>1, PowersAssumption
  <2>2. \A a, b \in Nat \ {0} : a * b \in Nat \ {0}
    OBVIOUS
  <2> QED
    BY <1>0, <1>2, <2>1, <2>2
<1> HIDE DEF S
<1>3. 0..WideBytes \subseteq S
  BY <1>0, <1>1, <1>2, UpTo
<1> QED
  BY <1>3 DEF S

LEMMA SizeTIsNat ==
  ASSUME NEW n \in Nat
  PROVE  SizeT(n) \in Nat
<1>1. Base ^ WideBytes \in Nat \ {0}
  BY Powers, WidthsAssumption
<1>2. \A b \in Nat \ {0} : n % b \in Nat
  OBVIOUS
<1> QED
  BY <1>1, <1>2 DEF SizeT

-----------------------------------------------------------------------------
(* Value: the recursive function exists. *)

Steps(bytes, n, g) ==
  g = [i \in 0..n |-> IF i = 0 THEN 0 ELSE SizeT(g[i - 1] * Base + bytes[i])]

LEMMA StepsExist ==
  ASSUME NEW bytes, NEW n \in Nat
  PROVE  \E g : Steps(bytes, n, g)
<1> DEFINE S == {k \in 0..n : \E g : Steps(bytes, k, g)}
<1>1. 0 \in S
  <2> DEFINE g == [i \in 0..0 |-> 0]
  <2>1. Steps(bytes, 0, g)
    BY DEF Steps
  <2> QED
    BY <2>1
<1>2. ASSUME NEW k \in 0..n, k + 1 <= n, k \in S
      PROVE  k + 1 \in S
  <2>1. PICK h : Steps(bytes, k, h)
    BY <1>2
  <2> DEFINE g == [i \in 0..(k + 1) |->
                     IF i = k + 1 THEN SizeT(h[k] * Base + bytes[k + 1]) ELSE h[i]]
  <2>2. ASSUME NEW i \in 0..(k + 1)
        PROVE  g[i] = IF i = 0 THEN 0 ELSE SizeT(g[i - 1] * Base + bytes[i])
    <3>1. CASE i = k + 1
      BY <3>1
    <3>2. CASE i \in 0..k
      <4>1. h[i] = IF i = 0 THEN 0 ELSE SizeT(h[i - 1] * Base + bytes[i])
        BY <2>1, <3>2 DEF Steps
      <4>2. g[i] = h[i] /\ (i # 0 => g[i - 1] = h[i - 1])
        BY <3>2
      <4> QED
        BY <4>1, <4>2
    <3> QED
      BY <3>1, <3>2
  <2>3. g = [i \in 0..(k + 1) |-> g[i]]
    OBVIOUS
  <2> HIDE DEF g
  <2>4. Steps(bytes, k + 1, g)
    BY <2>2, <2>3 DEF Steps
  <2> QED
    BY <1>2, <2>4
<1> HIDE DEF S
<1>3. 0..n \subseteq S
  BY <1>1, <1>2, UpTo
<1> QED
  BY <1>3 DEF S

LEMMA ValueSteps ==
  ASSUME NEW bytes, Len(bytes) \in Nat
  PROVE  \E g : Steps(bytes, Len(bytes), g) /\ Value(bytes) = g[Len(bytes)]
<1> DEFINE value[i \in 0..Len(bytes)] ==
             IF i = 0 THEN 0 ELSE SizeT(value[i - 1] * Base + bytes[i])
<1>1. \E g : g = [i \in 0..Len(bytes) |->
                    IF i = 0 THEN 0 ELSE SizeT(g[i - 1] * Base + bytes[i])]
  BY StepsExist DEF Steps
<1>2. value = [i \in 0..Len(bytes) |->
                 IF i = 0 THEN 0 ELSE SizeT(value[i - 1] * Base + bytes[i])]
  BY <1>1
<1>3. Value(bytes) = value[Len(bytes)]
  BY DEF Value
<1> HIDE DEF value
<1> QED
  BY <1>2, <1>3 DEF Steps

LEMMA ValueIsNat ==
  ASSUME NEW bytes \in Seq(Bytes)
  PROVE  Value(bytes) \in Nat
<1> DEFINE n == Len(bytes)
<1>1. n \in Nat /\ \A i \in 1..n : bytes[i] \in Nat
  <2>1. n \in Nat /\ \A i \in 1..n : bytes[i] \in Bytes
    BY LenProperties, ElementOfSeq
  <2>2. \A b \in Bytes : b \in Nat
    BY DEF Bytes
  <2> QED
    BY <2>1, <2>2
<1>2. PICK g : Steps(bytes, n, g) /\ Value(bytes) = g[n]
  BY <1>1, ValueSteps
<1> HIDE DEF n
<1> DEFINE S == {k \in 0..n : g[k] \in Nat}
<1>3. 0 \in S
  BY <1>1, <1>2 DEF Steps
<1>4. ASSUME NEW k \in 0..n, k + 1 <= n, k \in S
      PROVE  k + 1 \in S
  <2>1. g[k + 1] = SizeT(g[k] * Base + bytes[k + 1])
    <3>1. k + 1 \in 0..n /\ k + 1 # 0 /\ (k + 1) - 1 = k
      BY <1>1, <1>4
    <3> QED
      BY <1>2, <3>1 DEF Steps
  <2>2. g[k] \in Nat /\ bytes[k + 1] \in Nat /\ Base \in Nat
    BY <1>1, <1>4, WidthsAssumption
  <2>3. g[k] * Base + bytes[k + 1] \in Nat
    BY <2>2
  <2>4. g[k + 1] \in Nat
    BY <2>1, <2>3, SizeTIsNat
  <2> QED
    BY <1>1, <1>4, <2>4
<1> HIDE DEF S
<1>5. 0..n \subseteq S
  BY <1>1, <1>3, <1>4, UpTo
<1> QED
  BY <1>1, <1>2, <1>5 DEF S

-----------------------------------------------------------------------------
(* Sequences of bytes. *)

LEMMA Elements ==
  ASSUME NEW S, NEW s \in Seq(S)
  PROVE  /\ Len(s) \in Nat /\ DOMAIN s = 1..Len(s)
         /\ \A i \in 1..Len(s) : s[i] \in S
BY LenProperties, ElementOfSeq

LEMMA Part ==
  ASSUME NEW S, NEW s \in Seq(S), NEW m \in Nat \ {0}, NEW n \in Nat, n <= Len(s)
  PROVE  /\ SubSeq(s, m, n) \in Seq(S)
         /\ Len(SubSeq(s, m, n)) = IF m <= n THEN n - m + 1 ELSE 0
         /\ \A i \in 1..(n - m + 1) : SubSeq(s, m, n)[i] = s[m + i - 1]
<1>1. \A i \in m..n : s[i] \in S
  BY Elements
<1> QED
  BY <1>1, SubSeqProperties

LEMMA Dropped ==
  ASSUME NEW S, NEW s \in Seq(S), NEW n \in Nat
  PROVE  /\ Drop(s, n) \in Seq(S)
         /\ Len(Drop(s, n)) = IF n < Len(s) THEN Len(s) - n ELSE 0
<1>1. Len(s) \in Nat
  BY Elements
<1>2. /\ SubSeq(s, n + 1, Len(s)) \in Seq(S)
      /\ Len(SubSeq(s, n + 1, Len(s))) =
           IF n + 1 <= Len(s) THEN Len(s) - (n + 1) + 1 ELSE 0
  BY <1>1, Part
<1>3. Len(SubSeq(s, n + 1, Len(s))) = IF n < Len(s) THEN Len(s) - n ELSE 0
  BY <1>1, <1>2
<1> QED
  BY <1>2, <1>3 DEF Drop

LEMMA BigEndianIsBytes ==
  ASSUME NEW n \in Nat, NEW w \in 0..WideBytes
  PROVE  BigEndian(n, w) \in Seq(Bytes) /\ Len(BigEndian(n, w)) = w
<1>0. Base \in 2..256 /\ WideBytes \in Nat
  BY WidthsAssumption
<1>1. ASSUME NEW c \in 1..w
      PROVE  (n \div Base ^ (w - c)) % Base \in Bytes
  <2>1. w - c \in 0..WideBytes
    BY <1>0
  <2>2. Base ^ (w - c) \in Nat \ {0}
    BY <2>1, Powers
  <2>3. \A b \in Nat \ {0} : n \div b \in Nat
    OBVIOUS
  <2>4. \A k \in Nat, b \in 2..256 : k % b \in 0..255
    OBVIOUS
  <2> QED
    BY <1>0, <2>2, <2>3, <2>4 DEF Bytes
<1>2. BigEndian(n, w) \in [1..w -> Bytes]
  BY <1>1 DEF BigEndian
<1>3. w \in Nat
  BY <1>0
<1> QED
  BY <1>2, <1>3, SeqDef

LEMMA FieldIsBytes ==
  ASSUME NEW n \in Nat
  PROVE  /\ LengthField(n) \in Seq(Bytes) /\ Len(LengthField(n)) > 0
         /\ LengthField(n)[1] \in 0..127
<1>0. ShortLen \in 1..126 /\ Base \in 2..256 /\ NarrowBytes \in Nat /\ WideBytes \in Nat
      /\ NarrowBytes < WideBytes
  BY WidthsAssumption
<1>1. \A w \in 0..WideBytes :
        BigEndian(n, w) \in Seq(Bytes) /\ Len(BigEndian(n, w)) = w
  BY BigEndianIsBytes
<1>2. NarrowBytes \in 0..WideBytes /\ WideBytes \in 0..WideBytes
  BY <1>0
<1>3. ASSUME NEW b \in 0..127
      PROVE  /\ <<b>> \in Seq(Bytes) /\ Len(<<b>>) = 1 /\ <<b>>[1] = b
             /\ \A s \in Seq(Bytes) : /\ <<b>> \o s \in Seq(Bytes)
                                      /\ Len(<<b>> \o s) = 1 + Len(s)
                                      /\ (<<b>> \o s)[1] = b
  <2>1. <<b>> \in Seq(Bytes) /\ Len(<<b>>) = 1 /\ <<b>>[1] = b
    BY DEF Bytes
  <2>2. ASSUME NEW s \in Seq(Bytes)
        PROVE  /\ <<b>> \o s \in Seq(Bytes)
               /\ Len(<<b>> \o s) = 1 + Len(s)
               /\ (<<b>> \o s)[1] = b
    <3>1. Len(s) \in Nat
      BY Elements
    <3>2. 1 \in 1..(1 + Len(s))
      BY <3>1
    <3> QED
      BY <2>1, <3>2, ConcatProperties
  <2> QED
    BY <2>1, <2>2
<1>4. CASE n >= Base ^ NarrowBytes
  <2>1. LengthField(n) = <<ShortLen + 1>> \o BigEndian(n, WideBytes)
    BY <1>4 DEF LengthField
  <2>2. ShortLen + 1 \in 0..127
    BY <1>0
  <2>3. BigEndian(n, WideBytes) \in Seq(Bytes) /\ Len(BigEndian(n, WideBytes)) = WideBytes
    BY <1>1, <1>2
  <2> DEFINE s == BigEndian(n, WideBytes)
             b == ShortLen + 1
             f == LengthField(n)
  <2>4. f = <<b>> \o s /\ s \in Seq(Bytes) /\ Len(s) \in Nat /\ b \in 0..127
    BY <1>0, <2>1, <2>2, <2>3
  <2> HIDE DEF s, b, f
  <2>5. f \in Seq(Bytes) /\ Len(f) = 1 + Len(s) /\ f[1] = b
    BY <1>3, <2>4
  <2>6. f \in Seq(Bytes) /\ Len(f) > 0 /\ f[1] \in 0..127
    BY <2>4, <2>5
  <2> QED
    BY <2>6 DEF f
<1>5. CASE ~(n >= Base ^ NarrowBytes) /\ n >= ShortLen
  <2>1. LengthField(n) = <<ShortLen>> \o BigEndian(n, NarrowBytes)
    BY <1>5 DEF LengthField
  <2>2. ShortLen \in 0..127
    BY <1>0
  <2>3. BigEndian(n, NarrowBytes) \in Seq(Bytes) /\ Len(BigEndian(n, NarrowBytes)) = NarrowBytes
    BY <1>1, <1>2
  <2> DEFINE s == BigEndian(n, NarrowBytes)
             b == ShortLen
             f == LengthField(n)
  <2>4. f = <<b>> \o s /\ s \in Seq(Bytes) /\ Len(s) \in Nat /\ b \in 0..127
    BY <1>0, <2>1, <2>2, <2>3
  <2> HIDE DEF s, b, f
  <2>5. f \in Seq(Bytes) /\ Len(f) = 1 + Len(s) /\ f[1] = b
    BY <1>3, <2>4
  <2>6. f \in Seq(Bytes) /\ Len(f) > 0 /\ f[1] \in 0..127
    BY <2>4, <2>5
  <2> QED
    BY <2>6 DEF f
<1>6. CASE ~(n >= Base ^ NarrowBytes) /\ ~(n >= ShortLen)
  <2>1. LengthField(n) = <<n>>
    BY <1>6 DEF LengthField
  <2>2. n \in 0..127
    BY <1>0, <1>6
  <2>3. <<n>> \in Seq(Bytes) /\ Len(<<n>>) = 1 /\ <<n>>[1] = n
    BY <2>2 DEF Bytes
  <2> QED
    BY <2>1, <2>2, <2>3
<1> QED
  BY <1>4, <1>5, <1>6

LEMMA MaskedIsBytes ==
  ASSUME NEW p \in Seq(Bytes), NEW mask,
         \A i \in 1..MaskBytes : mask[i] \in Bytes
  PROVE  Masked(p, mask) \in Seq(Bytes) /\ Len(Masked(p, mask)) = Len(p)
<1>0. Len(p) \in Nat /\ DOMAIN p = 1..Len(p) /\ \A i \in 1..Len(p) : p[i] \in Bytes
  BY Elements
<1>1. ASSUME NEW c \in 1..Len(p)
      PROVE  (p[c] + mask[((c - 1) % MaskBytes) + 1]) % 2 \in Bytes
  <2>1. c - 1 \in Nat /\ MaskBytes \in Nat \ {0}
    BY <1>0, WidthsAssumption
  <2>2. \A k \in Nat, b \in Nat \ {0} : (k % b) + 1 \in 1..b
    OBVIOUS
  <2>3. mask[((c - 1) % MaskBytes) + 1] \in Bytes
    BY <2>1, <2>2
  <2>4. \A a, b \in Bytes : (a + b) % 2 \in Bytes
    BY DEF Bytes
  <2> QED
    BY <1>0, <2>3, <2>4
<1>2. Masked(p, mask) \in [1..Len(p) -> Bytes]
  BY <1>0, <1>1 DEF Masked
<1> QED
  BY <1>0, <1>2, SeqDef

-----------------------------------------------------------------------------
(* Frames and arrivals. *)

AnyFrame ==
  [op : {Text, FirstFragment, Fragment, LastFragment, Close, Ping, Pong},
   payload : Payloads \cup Controls \cup {<<>>}, mask : Masks \cup {<<>>}]

LEMMA Frames ==
  ASSUME NEW f \in AnyFrame
  PROVE  /\ f.op \in Bytes /\ f.payload \in Seq(Bytes) /\ Encode(f) \in Seq(Bytes)
<1>0. \A p \in Payloads \cup Controls \cup {<<>>} : p \in Seq({0, 1})
  BY InputsAssumption, EmptySeq
<1>1. /\ f.op \in {Text, FirstFragment, Fragment, LastFragment, Close, Ping, Pong}
      /\ f.payload \in Payloads \cup Controls \cup {<<>>}
      /\ f.mask = <<>> \/ f.mask \in Masks
  BY DEF AnyFrame
<1>2. f.op \in Bytes
  BY <1>1 DEF Text, FirstFragment, Fragment, LastFragment, Close, Ping, Pong, Bytes
<1>3. {0, 1} \subseteq Bytes
  BY DEF Bytes
<1>4. f.payload \in Seq(Bytes) /\ Len(f.payload) \in Nat
  <2>1. f.payload \in Seq({0, 1})
    BY <1>0, <1>1
  <2> QED
    BY <1>3, <2>1, SeqMonotonic, Elements
<1> DEFINE field == LengthField(Len(f.payload))
<1>5. field \in Seq(Bytes) /\ Len(field) > 0 /\ field[1] \in 0..127
  BY <1>4, FieldIsBytes
<1>6. <<f.op>> \in Seq(Bytes)
  BY <1>2
<1>7. CASE f.mask = <<>>
  <2>1. Encode(f) = <<f.op>> \o field \o f.payload
    BY <1>7 DEF Encode
  <2> HIDE DEF field
  <2> QED
    BY <1>4, <1>5, <1>6, <2>1, ConcatProperties
<1>8. CASE f.mask # <<>>
  <2>1. Encode(f) = <<f.op, 128 + field[1]>> \o Tail(field) \o f.mask
                      \o Masked(f.payload, f.mask)
    BY <1>8 DEF Encode
  <2>2. f.mask \in [1..MaskBytes -> {0, 1}]
    BY <1>1, <1>8, InputsAssumption
  <2>3. \A i \in 1..MaskBytes : f.mask[i] \in Bytes
    BY <1>3, <2>2
  <2>4. f.mask \in Seq(Bytes)
    <3>1. MaskBytes \in Nat /\ f.mask \in [1..MaskBytes -> Bytes]
      BY <2>2, <2>3, WidthsAssumption
    <3> QED
      BY <3>1, SeqDef
  <2>5. Masked(f.payload, f.mask) \in Seq(Bytes)
    BY <1>4, <2>3, MaskedIsBytes
  <2> HIDE DEF field
  <2>6. 128 + field[1] \in Bytes
    <3>1. \A k \in 0..127 : 128 + k \in Bytes
      BY DEF Bytes
    <3> QED
      BY <1>5, <3>1
  <2>7. <<f.op, 128 + field[1]>> \in Seq(Bytes)
    BY <1>2, <2>6
  <2>8. Tail(field) \in Seq(Bytes)
    <3>1. field # <<>>
      BY <1>5
    <3> QED
      BY <1>5, <3>1, HeadTailProperties
  <2> QED
    <3>1. <<f.op, 128 + field[1]>> \o Tail(field) \in Seq(Bytes)
      BY <2>7, <2>8, ConcatProperties
    <3>2. <<f.op, 128 + field[1]>> \o Tail(field) \o f.mask \in Seq(Bytes)
      BY <2>4, <3>1, ConcatProperties
    <3> QED
      BY <1>2, <1>4, <2>1, <2>5, <3>2, ConcatProperties
<1> QED
  BY <1>2, <1>4, <1>7, <1>8

LEMMA SendableFrames == \A b : Sendable(b) \subseteq AnyFrame
BY DEF Sendable, AnyFrame

LEMMA ArrivalIsOne ==
  ASSUME NEW k \in Kinds, NEW o \in Bytes, NEW p \in Seq(Bytes)
  PROVE  Arrival(k, o, p) \in Arrivals /\ Arrival(k, o, p).size = Len(p)
         /\ Arrival(k, o, p).payload = p
BY Elements DEF Arrival, Arrivals

LEMMA Constants ==
  /\ Nothing \in Arrivals /\ Nothing.size = Len(Nothing.payload)
  /\ TooBig \in Arrivals /\ TooBig.size = Len(TooBig.payload)
  /\ NotMasked \in Arrivals /\ NotMasked.size = Len(NotMasked.payload)
  /\ Error \in Arrivals /\ Error.size = Len(Error.payload)
<1>1. <<>> \in Seq(Bytes) /\ 0 \in Bytes
  BY EmptySeq DEF Bytes
<1>2. {"none", "toobig", "close", "error"} \subseteq Kinds
  BY DEF Kinds
<1> QED
  BY <1>1, <1>2, ArrivalIsOne DEF Nothing, TooBig, NotMasked, Error

LEMMA WithFinIsByte == \A o \in Bytes : WithFin(o) \in Bytes
BY DEF WithFin, Bytes

(* What a frame says has the types of an arrival. *)
LEMMA SaysTypes ==
  ASSUME NEW b \in Arrivals, NEW f \in AnyFrame
  PROVE  Whole(b, f) \in Arrivals /\ Says(b, f) \in Arrivals /\ After(b, f) \in Arrivals
<1>1. f.op \in Bytes /\ f.payload \in Seq(Bytes)
  BY Frames
<1>2. Whole(b, f) \in Arrivals
  <2>1. b.op \in Bytes /\ b.payload \in Seq(Bytes)
    BY DEF Arrivals
  <2>2. b.payload \o f.payload \in Seq(Bytes)
    BY <1>1, <2>1, ConcatProperties
  <2>3. "message" \in Kinds /\ WithFin(f.op) \in Bytes
    BY <1>1, WithFinIsByte DEF Kinds
  <2> QED
    BY <1>1, <2>1, <2>2, <2>3, ArrivalIsOne DEF Whole
<1>3. /\ Arrival("close", f.op, f.payload) \in Arrivals
      /\ Arrival("answer", Pong, f.payload) \in Arrivals
      /\ Arrival("pong", f.op, <<>>) \in Arrivals
  <2>1. {"close", "answer", "pong"} \subseteq Kinds /\ Pong \in Bytes /\ <<>> \in Seq(Bytes)
    BY DEF Kinds, Pong, Bytes
  <2> QED
    BY <1>1, <2>1, ArrivalIsOne
<1>4. Says(b, f) \in Arrivals
  BY <1>2, <1>3, Constants DEF Says
<1>5. After(b, f) \in Arrivals
  BY <1>2, Constants DEF After
<1> QED
  BY <1>2, <1>4, <1>5

(* The peer's histories keep their types. *)
LEMMA OweTypes ==
  ASSUME due \in Seq(Arrivals), begun \in Arrivals, NEW f \in Sendable(begun), Owe(f)
  PROVE  due' \in Seq(Arrivals) /\ begun' \in Arrivals
<1>1. Says(begun, f) \in Arrivals /\ After(begun, f) \in Arrivals
  BY SaysTypes, SendableFrames
<1>2. Append(due, Says(begun, f)) \in Seq(Arrivals)
  BY <1>1, AppendProperties
<1> QED
  BY <1>1, <1>2 DEF Owe

-----------------------------------------------------------------------------
(* Reads.  A read of n bytes finds them at the front of what the buffer    *)
(* and the network give, and leaves in the buffer what extra then counts.  *)

LEMMA ReadGives ==
  ASSUME IInv, at # "done", NEW n \in Nat, Readable(n)
  PROVE  /\ Read(n) \in Seq(Bytes) /\ Len(Read(n)) = n + Left(n)
         /\ Left(n) \in Nat
         /\ Left(n) > 0 => extra = n + Left(n)
         /\ Drop(Read(n), n) \in Seq(Bytes) /\ Len(Drop(Read(n), n)) = Left(n)
         /\ SubSeq(Read(n), 1, n) \in Seq(Bytes) /\ Len(SubSeq(Read(n), 1, n)) = n
         /\ \A s : s = SubSeq(incoming, Wanted(n) + 1, Len(incoming)) => s \in Seq(Bytes)
<1>1. /\ buffer \in Seq(Bytes) /\ incoming \in Seq(Bytes)
      /\ extra \in Nat /\ extra = Len(buffer) /\ Len(incoming) \in Nat
  BY Elements DEF IInv, TypeOK, ExtraIsBuffered
<1>2. Wanted(n) \in Nat /\ Wanted(n) <= Len(incoming) /\ Left(n) \in Nat
      /\ extra + Wanted(n) = n + Left(n) /\ (Left(n) > 0 => extra = n + Left(n))
  BY <1>1 DEF Wanted, Left, Readable
<1> DEFINE k == Wanted(n)
           l == Left(n)
           read == SubSeq(incoming, 1, k)
<1>3. k \in Nat /\ k <= Len(incoming) /\ l \in Nat /\ extra + k = n + l
  BY <1>2
<1>4. Read(n) = buffer \o read
  BY DEF Read
<1> HIDE DEF k, l
<1>5. read \in Seq(Bytes) /\ Len(read) = k
  <2>1. Len(read) = IF 1 <= k THEN k - 1 + 1 ELSE 0
    BY <1>1, <1>3, Part
  <2> QED
    BY <1>1, <1>3, <2>1, Part
<1> HIDE DEF read
<1>6. Read(n) \in Seq(Bytes) /\ Len(Read(n)) = n + l
  <2>1. Read(n) \in Seq(Bytes) /\ Len(Read(n)) = Len(buffer) + k
    BY <1>1, <1>4, <1>5, ConcatProperties
  <2> QED
    BY <1>1, <1>3, <2>1
<1> DEFINE r == Read(n)
<1>7. r \in Seq(Bytes) /\ Len(r) = n + l
  BY <1>6
<1> HIDE DEF r
<1>8. Drop(r, n) \in Seq(Bytes) /\ Len(Drop(r, n)) = l
  <2>1. Len(Drop(r, n)) = IF n < Len(r) THEN Len(r) - n ELSE 0
    BY <1>7, Dropped
  <2> QED
    BY <1>3, <1>7, <2>1, Dropped
<1>9. SubSeq(r, 1, n) \in Seq(Bytes) /\ Len(SubSeq(r, 1, n)) = n
  <2>1. n <= Len(r)
    BY <1>3, <1>7
  <2>2. Len(SubSeq(r, 1, n)) = IF 1 <= n THEN n - 1 + 1 ELSE 0
    BY <1>7, <2>1, Part
  <2> QED
    BY <1>7, <2>1, <2>2, Part
<1>10. SubSeq(incoming, Wanted(n) + 1, Len(incoming)) \in Seq(Bytes)
  <2>1. Wanted(n) + 1 \in Nat \ {0}
    BY <1>2
  <2> QED
    BY <1>1, <2>1, Part
<1> QED
  BY <1>2, <1>7, <1>8, <1>9, <1>10 DEF r, l

(* What the application is told, and the message under way, keep their     *)
(* types and their sizes.                                                  *)
HeardOK == /\ heard \in Seq(Arrivals)
           /\ \A i \in DOMAIN heard : heard[i].size = Len(heard[i].payload)

FragmentedOK == /\ fragmented \in Arrivals
                /\ fragmented.size = Len(fragmented.payload)

LEMMA TellOK ==
  ASSUME HeardOK, NEW a \in Arrivals, a.size = Len(a.payload), Tell(a)
  PROVE  HeardOK'
<1>1. heard \in Seq(Arrivals) /\ heard' = Append(heard, a)
  BY DEF HeardOK, Tell
<1>2. /\ heard' \in Seq(Arrivals) /\ Len(heard') = Len(heard) + 1
      /\ \A i \in 1..Len(heard) : heard'[i] = heard[i]
      /\ heard'[Len(heard) + 1] = a
  BY <1>1, AppendProperties
<1>3. Len(heard) \in Nat /\ DOMAIN heard = 1..Len(heard) /\ DOMAIN heard' = 1..Len(heard')
  BY <1>1, <1>2, Elements
<1>4. ASSUME NEW i \in 1..(Len(heard) + 1)
      PROVE  heard'[i].size = Len(heard'[i].payload)
  <2>1. CASE i = Len(heard) + 1
    BY <1>2, <2>1
  <2>2. CASE i \in 1..Len(heard)
    BY <1>2, <1>3, <2>2 DEF HeardOK
  <2> QED
    BY <1>3, <2>1, <2>2
<1> QED
  BY <1>2, <1>3, <1>4 DEF HeardOK

LEMMA DispatchOK ==
  ASSUME HeardOK, FragmentedOK, op \in Bytes, length \in Nat,
         NEW payload \in Seq(Bytes), Len(payload) = length, Dispatch(payload)
  PROVE  HeardOK' /\ FragmentedOK' /\ at' \in {"header", "done"}
<1>1. Message(payload) \in Arrivals
      /\ Message(payload).size = Len(Message(payload).payload)
  <2>1. CASE fragmented # Nothing /\ (toServer => ~Fin(op) \/ Opcode(op) = 0)
    <3> DEFINE whole == fragmented.payload \o payload
    <3>1. fragmented.payload \in Seq(Bytes) /\ fragmented.size = Len(fragmented.payload)
      BY DEF FragmentedOK, Arrivals
    <3>2. whole \in Seq(Bytes) /\ Len(whole) = fragmented.size + length
      <4>1. /\ fragmented.payload \o payload \in Seq(Bytes)
            /\ Len(fragmented.payload \o payload) = Len(fragmented.payload) + Len(payload)
        BY <3>1, ConcatProperties
      <4> QED
        BY <3>1, <4>1
    <3>3. Message(payload) = [fragmented EXCEPT !.size = @ + length, !.payload = @ \o payload]
      BY <2>1 DEF Message
    <3>4. fragmented.size + length \in Nat
      BY DEF FragmentedOK, Arrivals
    <3> HIDE DEF whole
    <3>5. Message(payload) = [kind |-> fragmented.kind, op |-> fragmented.op,
                              size |-> fragmented.size + length, payload |-> whole]
      BY <3>3 DEF FragmentedOK, Arrivals, whole
    <3> QED
      BY <3>2, <3>4, <3>5 DEF FragmentedOK, Arrivals
  <2>2. CASE ~(fragmented # Nothing /\ (toServer => ~Fin(op) \/ Opcode(op) = 0))
    <3>1. Message(payload) = [kind |-> "message", op |-> WithFin(op), size |-> length,
                              payload |-> payload]
      BY <2>2 DEF Message
    <3> QED
      BY <3>1, WithFinIsByte DEF Arrivals, Kinds
  <2> QED
    BY <2>1, <2>2
<1>2. Nothing \in Arrivals /\ Nothing.size = Len(Nothing.payload)
  BY Constants
<1> DEFINE answered == [kind |-> "answer", op |-> op + 1, size |-> length, payload |-> payload]
           closed == [kind |-> "close", op |-> op, size |-> length, payload |-> payload]
           pong == Arrival("pong", op, <<>>)
<1>3. closed \in Arrivals /\ closed.size = Len(closed.payload)
  BY DEF Arrivals, Kinds
<1>4. pong \in Arrivals /\ pong.size = Len(pong.payload)
  <2>1. "pong" \in Kinds /\ <<>> \in Seq(Bytes)
    BY DEF Kinds
  <2> QED
    BY <2>1, ArrivalIsOne
<1>5. Opcode(op) = Opcode(Ping) =>
        answered \in Arrivals /\ answered.size = Len(answered.payload)
  <2>1. Opcode(op) = Opcode(Ping) => op + 1 \in Bytes
    BY DEF Opcode, Ping, Bytes
  <2> QED
    BY <2>1 DEF Arrivals, Kinds
<1> HIDE DEF answered, closed, pong
<1>6. \/ /\ Tell(closed) /\ at' = "done" /\ UNCHANGED fragmented
      \/ /\ Tell(answered) /\ at' = "header" /\ UNCHANGED fragmented
         /\ Opcode(op) = Opcode(Ping)
      \/ Tell(pong) /\ at' = "header" /\ UNCHANGED fragmented
      \/ fragmented' = Message(payload) /\ at' = "header" /\ UNCHANGED heard
      \/ Tell(Message(payload)) /\ at' = "header" /\ fragmented' = Nothing
  BY DEF Dispatch, EndWith, answered, closed, pong
<1>7. UNCHANGED heard => HeardOK'
  BY DEF HeardOK
<1>8. UNCHANGED fragmented \/ fragmented' = Message(payload) \/ fragmented' = Nothing
        => FragmentedOK'
  BY <1>1, <1>2 DEF FragmentedOK
<1> QED
  BY <1>1, <1>2, <1>3, <1>4, <1>5, <1>6, <1>7, <1>8, TellOK

-----------------------------------------------------------------------------
(* The invariant. *)

LEMMA IInvParts ==
  IInv <=> /\ toServer \in BOOLEAN
           /\ due \in Seq(Arrivals) /\ begun \in Arrivals /\ count \in 0..MaxFrames
           /\ incoming \in Seq(Bytes) /\ buffer \in Seq(Bytes)
           /\ at \in {"upgrade", "header", "narrow", "wide", "content", "done"}
           /\ extra \in Nat /\ length \in Nat /\ op \in Bytes
           /\ HeardOK /\ FragmentedOK /\ ExtraIsBuffered /\ ServerExact
BY DEF IInv, TypeOK, SizesAreTrue, HeardOK, FragmentedOK

LEMMA InitIInv == Init => IInv
<1> SUFFICES ASSUME Init PROVE IInv
  OBVIOUS
<1>1. /\ due \in Seq(Arrivals) /\ incoming \in Seq(Bytes) /\ buffer \in Seq(Bytes)
      /\ heard \in Seq(Arrivals) /\ Len(buffer) = 0 /\ DOMAIN heard = {}
  BY EmptySeq DEF Init
<1>2. begun \in Arrivals /\ FragmentedOK
  BY Constants DEF Init, FragmentedOK
<1>3. count \in 0..MaxFrames /\ extra \in Nat /\ length \in Nat /\ op \in Bytes
  BY InputsAssumption DEF Init, Bytes
<1>4. HeardOK
  BY <1>1 DEF HeardOK
<1>5. ExtraIsBuffered /\ ServerExact
  BY <1>1 DEF Init, ExtraIsBuffered, ServerExact
<1>6. toServer \in BOOLEAN /\ at \in {"upgrade", "header"}
  BY DEF Init
<1> QED
  BY <1>1, <1>2, <1>3, <1>4, <1>5, <1>6, IInvParts

LEMMA SendFrameIInv ==
  ASSUME IInv, SendFrame
  PROVE  IInv'
<1>1. PICK f \in Sendable(begun) : Owe(f) /\ incoming' = incoming \o Encode(f)
  BY DEF SendFrame
<1>2. due' \in Seq(Arrivals) /\ begun' \in Arrivals
  BY <1>1, IInvParts, OweTypes
<1>3. incoming' \in Seq(Bytes)
  BY <1>1, IInvParts, Frames, SendableFrames, ConcatProperties
<1>4. count' \in 0..MaxFrames
  BY IInvParts, InputsAssumption DEF SendFrame
<1> QED
  BY <1>2, <1>3, <1>4
     DEF SendFrame, IInv, TypeOK, SizesAreTrue, ExtraIsBuffered, ServerExact

LEMMA UpgradedIInv ==
  ASSUME IInv, Upgraded
  PROVE  IInv'
<1>0. incoming \in Seq(Bytes) /\ Len(incoming) \in Nat
  BY IInvParts, Elements
<1>1. PICK k \in 0..Len(incoming) :
        extra' = k /\ buffer' = SubSeq(incoming, 1, k) /\ incoming' = Drop(incoming, k)
  BY DEF Upgraded
<1>2. k \in Nat /\ k <= Len(incoming)
  BY <1>0
<1>3. buffer' \in Seq(Bytes) /\ Len(buffer') = k
  <2>1. Len(buffer') = IF 1 <= k THEN k - 1 + 1 ELSE 0
    BY <1>0, <1>1, <1>2, Part
  <2> QED
    BY <1>0, <1>1, <1>2, <2>1, Part
<1>4. incoming' \in Seq(Bytes)
  BY <1>0, <1>1, <1>2, Dropped
<1>5. at = "upgrade" /\ at' = "header"
      /\ UNCHANGED <<toServer, due, begun, count, op, length, fragmented, heard>>
  BY DEF Upgraded, peer
<1>6. ExtraIsBuffered' /\ ServerExact'
  BY <1>1, <1>3, <1>5, IInvParts DEF ExtraIsBuffered, ServerExact
<1> QED
  BY <1>1, <1>2, <1>3, <1>4, <1>5, <1>6, IInvParts
     DEF IInv, TypeOK, SizesAreTrue

(* What every exact read but the server's of content does to the buffer.   *)
LEMMA ExactRead ==
  ASSUME IInv, at # "done", at # "upgrade", NEW n \in Nat, Readable(n),
         Consumed(n), extra' = Left(n),
         buffer' = Drop(Read(n), n) \/ (Left(n) = 0 /\ buffer' = <<>>),
         at' \in {"header", "narrow", "wide", "content", "done"},
         length' \in Nat, op' \in Bytes, HeardOK', FragmentedOK',
         UNCHANGED <<toServer, due, begun, count>>
  PROVE  IInv'
<1>1. incoming' \in Seq(Bytes)
  BY ReadGives DEF Consumed
<1>2. buffer' \in Seq(Bytes) /\ Len(buffer') = extra' /\ extra' \in Nat
  BY ReadGives, EmptySeq
<1>3. toServer => extra' = 0
  BY IInvParts DEF ServerExact, Left
<1> QED
  BY <1>1, <1>2, <1>3, IInvParts
     DEF IInv, TypeOK, SizesAreTrue, ExtraIsBuffered, ServerExact, HeardOK, FragmentedOK

LEMMA ContentOK ==
  ASSUME HeardOK, NEW n \in Nat, Content(n)
  PROVE  HeardOK' /\ length' \in Nat /\ at' \in {"content", "done"}
<1>1. UNCHANGED heard => HeardOK'
  BY DEF HeardOK
<1> QED
  BY <1>1, Constants, TellOK DEF Content, EndWith

LEMMA ReadHeaderIInv ==
  ASSUME IInv, ReadHeader
  PROVE  IInv'
<1>1. /\ at = "header" /\ Readable(2) /\ Consumed(2) /\ extra' = Left(2)
      /\ buffer' = Drop(Read(2), 2)
      /\ UNCHANGED <<toServer, due, begun, count, fragmented>>
  BY DEF ReadHeader, peer
<1> DEFINE bytes == Read(2)
           code == bytes[2] % 128
<1>2. bytes[1] \in Bytes /\ bytes[2] \in Bytes
  <2>1. bytes \in Seq(Bytes) /\ Len(bytes) = 2 + Left(2) /\ Left(2) \in Nat
    BY <1>1, ReadGives
  <2>2. 1 \in 1..Len(bytes) /\ 2 \in 1..Len(bytes)
    BY <2>1
  <2> HIDE DEF bytes
  <2> QED
    BY <2>1, <2>2, Elements
<1>3. code \in Nat
  BY <1>2 DEF Bytes
<1>4. op' = bytes[1]
      /\ \/ EndWith(NotMasked) /\ UNCHANGED length
         \/ at' \in {"narrow", "wide"} /\ UNCHANGED <<length, heard>>
         \/ Content(code)
  BY DEF ReadHeader
<1> HIDE DEF bytes, code
<1>5. HeardOK' /\ length' \in Nat /\ at' \in {"narrow", "wide", "content", "done"}
  <2>1. HeardOK /\ length \in Nat
    BY IInvParts
  <2>2. CASE EndWith(NotMasked) /\ UNCHANGED length
    BY <2>1, <2>2, Constants, TellOK DEF EndWith
  <2>3. CASE at' \in {"narrow", "wide"} /\ UNCHANGED <<length, heard>>
    BY <2>1, <2>3 DEF HeardOK
  <2>4. CASE Content(code)
    BY <1>3, <2>1, <2>4, ContentOK
  <2> QED
    BY <1>4, <2>2, <2>3, <2>4
<1>6. FragmentedOK'
  BY <1>1, IInvParts DEF FragmentedOK
<1> QED
  BY <1>1, <1>2, <1>4, <1>5, <1>6, ExactRead

LEMMA ReadLengthIInv ==
  ASSUME IInv, at \in {"narrow", "wide"}, NEW width \in Nat, ReadLength(width)
  PROVE  IInv'
<1>1. /\ Readable(width) /\ Consumed(width) /\ extra' = Left(width)
      /\ buffer' = Drop(Read(width), width)
      /\ Content(Value(SubSeq(Read(width), 1, width)))
      /\ UNCHANGED <<toServer, due, begun, count, op, fragmented>>
  BY DEF ReadLength, peer
<1>2. Value(SubSeq(Read(width), 1, width)) \in Nat
  BY <1>1, ReadGives, ValueIsNat
<1>3. HeardOK' /\ length' \in Nat /\ at' \in {"content", "done"}
  BY <1>1, <1>2, IInvParts, ContentOK
<1>4. FragmentedOK' /\ op' \in Bytes
  BY <1>1, IInvParts DEF FragmentedOK
<1> QED
  BY <1>1, <1>3, <1>4, ExactRead

LEMMA ReadContentIInv ==
  ASSUME IInv, ReadContent
  PROVE  IInv'
<1> DEFINE bytes == Read(length)
           payload == IF Left(length) > 0 THEN SubSeq(bytes, 1, length) ELSE bytes
<1>0. length \in Nat /\ op \in Bytes /\ HeardOK /\ FragmentedOK
  BY IInvParts
<1>1. /\ at = "content" /\ Readable(length) /\ Consumed(length) /\ extra' = Left(length)
      /\ Dispatch(payload)
      /\ buffer' = Drop(bytes, length) \/ (~(Left(length) > 0) /\ buffer' = <<>>)
      /\ UNCHANGED <<toServer, due, begun, count, op, length>>
  BY DEF ReadContent, peer
<1>2. /\ bytes \in Seq(Bytes) /\ Len(bytes) = length + Left(length) /\ Left(length) \in Nat
      /\ SubSeq(bytes, 1, length) \in Seq(Bytes) /\ Len(SubSeq(bytes, 1, length)) = length
  BY <1>0, <1>1, ReadGives
<1>3. payload \in Seq(Bytes) /\ Len(payload) = length
  <2>1. CASE Left(length) > 0
    BY <1>2, <2>1
  <2>2. CASE ~(Left(length) > 0)
    <3>1. Left(length) = 0 /\ payload = bytes
      BY <1>2, <2>2
    <3> QED
      BY <1>0, <1>2, <3>1
  <2> QED
    BY <2>1, <2>2
<1> HIDE DEF payload
<1>4. HeardOK' /\ FragmentedOK' /\ at' \in {"header", "done"}
  BY <1>0, <1>1, <1>3, DispatchOK
<1>5. buffer' = Drop(bytes, length) \/ (Left(length) = 0 /\ buffer' = <<>>)
  BY <1>1, <1>2
<1> QED
  BY <1>0, <1>1, <1>4, <1>5, ExactRead

(* The server reads mask and payload with nothing in its buffer.           *)
LEMMA ReadMaskedIInv ==
  ASSUME IInv, ReadMaskedContent
  PROVE  IInv'
<1> DEFINE n == MaskBytes + length
           bytes == Read(n)
           payload == SubSeq(bytes, MaskBytes + 1, n)
           mask == SubSeq(bytes, 1, MaskBytes)
<1>0. /\ length \in Nat /\ op \in Bytes /\ HeardOK /\ FragmentedOK
      /\ MaskBytes \in Nat \ {0} /\ n \in Nat
  BY IInvParts, WidthsAssumption
<1>1. /\ at = "content" /\ toServer /\ Readable(n) /\ Consumed(n)
      /\ Dispatch(Masked(payload, mask))
      /\ buffer' = Drop(bytes, n)
      /\ UNCHANGED <<toServer, due, begun, count, extra, op, length>>
  BY DEF ReadMaskedContent, peer
<1>2. extra = 0 /\ Left(n) = 0
  BY <1>0, <1>1, IInvParts DEF ServerExact, Left
<1>3. bytes \in Seq(Bytes) /\ Len(bytes) = n
  <2>1. bytes \in Seq(Bytes) /\ Len(bytes) = n + Left(n)
    BY <1>0, <1>1, ReadGives
  <2> QED
    BY <1>0, <1>2, <2>1
<1> HIDE DEF bytes
<1>4. payload \in Seq(Bytes) /\ Len(payload) = length
  <2>1. Len(payload) = IF MaskBytes + 1 <= n THEN n - (MaskBytes + 1) + 1 ELSE 0
    BY <1>0, <1>3, Part
  <2> QED
    BY <1>0, <1>3, <2>1, Part
<1>5. \A i \in 1..MaskBytes : mask[i] \in Bytes
  <2>1. MaskBytes \in Nat /\ MaskBytes <= Len(bytes)
    BY <1>0, <1>3
  <2>2. mask \in Seq(Bytes) /\ Len(mask) = IF 1 <= MaskBytes THEN MaskBytes - 1 + 1 ELSE 0
    BY <1>3, <2>1, Part
  <2>3. Len(mask) = MaskBytes
    BY <1>0, <2>2
  <2> HIDE DEF mask
  <2> QED
    BY <2>2, <2>3, Elements
<1>6. Masked(payload, mask) \in Seq(Bytes) /\ Len(Masked(payload, mask)) = length
  BY <1>4, <1>5, MaskedIsBytes
<1>7. HeardOK' /\ FragmentedOK' /\ at' \in {"header", "done"}
  BY <1>0, <1>1, <1>6, DispatchOK
<1>8. extra' = Left(n) /\ buffer' = Drop(Read(n), n)
  BY <1>1, <1>2 DEF bytes
<1> HIDE DEF n
<1> QED
  BY <1>0, <1>1, <1>7, <1>8, ExactRead

LEMMA ReadFailsIInv ==
  ASSUME IInv, ReadFails
  PROVE  IInv'
<1>1. /\ at' = "done" /\ (heard' = heard \/ Tell(Error))
      /\ UNCHANGED <<toServer, due, begun, count, incoming, buffer, extra, op, length,
                     fragmented>>
  BY DEF ReadFails, peer, Tell
<1>2. HeardOK'
  <2>1. heard' = heard => HeardOK'
    BY IInvParts DEF HeardOK
  <2> QED
    BY <1>1, <2>1, IInvParts, Constants, TellOK
<1>3. ExtraIsBuffered' /\ ServerExact' /\ FragmentedOK'
  BY <1>1, IInvParts DEF ExtraIsBuffered, ServerExact, FragmentedOK
<1> QED
  BY <1>1, <1>2, <1>3, IInvParts
     DEF IInv, TypeOK, SizesAreTrue, HeardOK, FragmentedOK

(* Wherever the bytes behind the upgrade response end, every read of the   *)
(* loop finds in the buffer what num_additional_bytes counts; and a        *)
(* message says of itself how long it is.                                  *)
THEOREM Invariance == Spec => []IInv
<1>1. IInv /\ [Next]_vars => IInv'
  <2> SUFFICES ASSUME IInv, [Next]_vars PROVE IInv'
    OBVIOUS
  <2>1. CASE ReadNarrow
    BY <2>1, ReadLengthIInv, WidthsAssumption DEF ReadNarrow
  <2>2. CASE ReadWide
    BY <2>2, ReadLengthIInv, WidthsAssumption DEF ReadWide
  <2>3. CASE UNCHANGED vars
    BY <2>3 DEF vars, peer, IInv, TypeOK, SizesAreTrue, ExtraIsBuffered, ServerExact
  <2> QED
    BY <2>1, <2>2, <2>3, SendFrameIInv, UpgradedIInv, ReadHeaderIInv, ReadContentIInv,
       ReadMaskedIInv, ReadFailsIInv DEF Next, Reader
<1> QED
  BY InitIInv, <1>1, PTL DEF Spec

-----------------------------------------------------------------------------
(* What is written is what is read. *)

LEMMA Quotient ==
  ASSUME NEW n \in Nat, NEW c \in Nat \ {0}
  PROVE  /\ n \div c \in Nat /\ (n \div c) * c <= n /\ n < (n \div c + 1) * c
         /\ \A p \in Nat : p * c <= n /\ n < (p + 1) * c => n \div c = p
OBVIOUS

LEMMA Monotone ==
  ASSUME NEW x \in Nat, NEW y \in Nat, NEW a \in Nat, x <= y
  PROVE  x * a <= y * a
OBVIOUS

LEMMA Nested ==
  ASSUME NEW n \in Nat, NEW a \in Nat \ {0}, NEW b \in Nat \ {0}
  PROVE  n \div (b * a) = (n \div a) \div b
<1> DEFINE q == n \div a
           p == q \div b
<1>1. q \in Nat /\ q * a <= n /\ n < (q + 1) * a
  BY Quotient
<1>2. p \in Nat /\ p * b <= q /\ q + 1 <= (p + 1) * b
  BY <1>1, Quotient
<1> HIDE DEF q, p
<1>3. b * a \in Nat \ {0}
  OBVIOUS
<1>4. (p * b) * a <= q * a /\ (q + 1) * a <= ((p + 1) * b) * a
  BY <1>1, <1>2, Monotone
<1>5. p * (b * a) = (p * b) * a /\ (p + 1) * (b * a) = ((p + 1) * b) * a
  BY <1>2
<1>6. p * (b * a) <= n /\ n < (p + 1) * (b * a)
  BY <1>1, <1>2, <1>4, <1>5
<1>7. n \div (b * a) = p
  BY <1>2, <1>3, <1>6, Quotient
<1> QED
  BY <1>7 DEF p, q

LEMMA PowersGrow ==
  ASSUME NEW w \in 0..WideBytes
  PROVE  Base ^ w <= Base ^ WideBytes
<1> DEFINE d == WideBytes - w
           S == {i \in 0..d : Base ^ w <= Base ^ (w + i)}
<1>0. WideBytes \in Nat /\ w \in Nat /\ Base \in Nat \ {0} /\ d \in Nat /\ w + d = WideBytes
  BY WidthsAssumption
<1> HIDE DEF d
<1>1. 0 \in S
  <2>1. w + 0 = w /\ Base ^ w \in Nat
    BY <1>0, Powers
  <2> QED
    BY <1>0, <2>1
<1>2. ASSUME NEW i \in 0..d, i + 1 <= d, i \in S
      PROVE  i + 1 \in S
  <2>1. w + (i + 1) \in 1..WideBytes /\ (w + (i + 1)) - 1 = w + i /\ w + i \in 0..WideBytes
    BY <1>0, <1>2
  <2>2. Base ^ (w + (i + 1)) = Base * Base ^ (w + i)
    BY <2>1, PowersAssumption
  <2>3. Base ^ (w + i) \in Nat /\ Base ^ w \in Nat
    BY <2>1, Powers
  <2>4. \A a \in Nat, b \in Nat \ {0} : a <= b * a
    OBVIOUS
  <2>5. Base ^ w <= Base ^ (w + i) /\ Base ^ (w + i) <= Base * Base ^ (w + i)
    BY <1>0, <1>2, <2>3, <2>4
  <2>6. \A a, b, c \in Nat : a <= b /\ b <= c => a <= c
    OBVIOUS
  <2>7. Base * Base ^ (w + i) \in Nat
    BY <1>0, <2>3
  <2>8. Base ^ w <= Base ^ (w + (i + 1))
    BY <2>2, <2>3, <2>5, <2>6, <2>7
  <2> QED
    BY <1>0, <1>2, <2>8
<1> HIDE DEF S
<1>3. 0..d \subseteq S
  BY <1>0, <1>1, <1>2, UpTo
<1> QED
  BY <1>0, <1>3 DEF S

(* A length of width bytes is read as it was written.                      *)
LEMMA BigEndianIsRead ==
  ASSUME NEW w \in 0..WideBytes, NEW n \in Nat, n < Base ^ w
  PROVE  Value(BigEndian(n, w)) = n
<1> DEFINE bytes == BigEndian(n, w)
<1>0. Base \in 2..256 /\ WideBytes \in Nat /\ w \in Nat
  BY WidthsAssumption
<1>1. bytes = [c \in 1..w |-> (n \div Base ^ (w - c)) % Base]
  BY DEF BigEndian
<1>2. Len(bytes) = w
  BY <1>0, <1>1
<1>3. PICK g : Steps(bytes, w, g) /\ Value(bytes) = g[w]
  BY <1>0, <1>2, ValueSteps
<1> HIDE DEF bytes
<1> DEFINE T == {k \in 0..w : g[k] = n \div Base ^ (w - k)}
<1>4. \A k \in 0..w : w - k \in 0..WideBytes /\ Base ^ (w - k) \in Nat \ {0}
  BY <1>0, Powers
<1>5. 0 \in T
  <2>1. g[0] = 0
    BY <1>0, <1>3 DEF Steps
  <2>2. w - 0 = w /\ Base ^ w \in Nat \ {0}
    BY <1>0, <1>4
  <2>3. n \div Base ^ w = 0
    BY <2>2
  <2> QED
    BY <1>0, <2>1, <2>2, <2>3
<1>6. ASSUME NEW k \in 0..w, k + 1 <= w, k \in T
      PROVE  k + 1 \in T
  <2> DEFINE j == w - (k + 1)
             m == n \div Base ^ j
  <2>1. k + 1 \in 1..w /\ j \in 0..WideBytes /\ j + 1 = w - k /\ j + 1 \in 1..WideBytes
    BY <1>0, <1>6
  <2>2. Base ^ j \in Nat \ {0} /\ Base ^ (j + 1) = Base * Base ^ j
    <3>1. (j + 1) - 1 = j
      BY <2>1
    <3> QED
      BY <2>1, <3>1, Powers, PowersAssumption
  <2>3. m \in Nat /\ m <= n
    BY <2>2, Quotient
  <2>4. g[k] = m \div Base
    <3>1. g[k] = n \div Base ^ (j + 1)
      BY <1>6, <2>1
    <3>2. n \div (Base * Base ^ j) = (n \div Base ^ j) \div Base
      BY <1>0, <2>2, Nested
    <3> QED
      BY <2>2, <3>1, <3>2
  <2>5. bytes[k + 1] = m % Base
    BY <1>1, <2>1
  <2>6. g[k + 1] = SizeT(g[k] * Base + bytes[k + 1])
    <3>1. k + 1 \in 0..w /\ k + 1 # 0 /\ (k + 1) - 1 = k
      BY <1>0, <1>6
    <3> QED
      BY <1>3, <3>1 DEF Steps
  <2>7. \A x \in Nat, b \in Nat \ {0} : (x \div b) * b + (x % b) = x
    OBVIOUS
  <2>8. g[k] * Base + bytes[k + 1] = m
    <3>1. Base \in Nat \ {0}
      BY <1>0
    <3> HIDE DEF m
    <3> QED
      BY <2>3, <2>4, <2>5, <2>7, <3>1
  <2>9. SizeT(m) = m
    <3>1. m < Base ^ WideBytes /\ Base ^ WideBytes \in Nat \ {0}
      <4>1. Base ^ w \in Nat \ {0} /\ Base ^ w <= Base ^ WideBytes
        BY <1>0, Powers, PowersGrow
      <4>2. Base ^ WideBytes \in Nat \ {0}
        BY <1>0, Powers
      <4> QED
        BY <2>3, <4>1, <4>2
    <3>2. \A x \in Nat, b \in Nat \ {0} : x < b => x % b = x
      OBVIOUS
    <3> HIDE DEF m
    <3> QED
      BY <2>3, <3>1, <3>2 DEF SizeT
  <2>10. g[k + 1] = m
    BY <2>6, <2>8, <2>9
  <2> QED
    BY <2>1, <2>10
<1> HIDE DEF T
<1>7. 0..w \subseteq T
  BY <1>0, <1>5, <1>6, UpTo
<1>8. g[w] = n \div Base ^ (w - w) /\ w - w = 0
  BY <1>0, <1>7 DEF T
<1> QED
  BY <1>3, <1>8, PowersAssumption DEF bytes

(* The length send() writes into the header of a frame, in one of its      *)
(* three forms, is the length that the read loop of the other end finds.   *)
THEOREM LengthIsRead ==
  ASSUME NEW n \in Nat, n < Base ^ WideBytes
  PROVE  \/ LengthField(n) = <<n>> /\ n < ShortLen
         \/ \E bytes \in Seq(Bytes) :
              /\ LengthField(n) = <<ShortLen>> \o bytes
              /\ Len(bytes) = NarrowBytes /\ Value(bytes) = n
         \/ \E bytes \in Seq(Bytes) :
              /\ LengthField(n) = <<ShortLen + 1>> \o bytes
              /\ Len(bytes) = WideBytes /\ Value(bytes) = n
<1>0. NarrowBytes \in 0..WideBytes /\ WideBytes \in 0..WideBytes /\ ShortLen \in Nat
  BY WidthsAssumption
<1>1. Base ^ NarrowBytes \in Nat
  BY <1>0, Powers
<1>2. CASE n >= Base ^ NarrowBytes
  BY <1>0, <1>2, BigEndianIsBytes, BigEndianIsRead DEF LengthField
<1>3. CASE ~(n >= Base ^ NarrowBytes) /\ n >= ShortLen
  <2>1. n < Base ^ NarrowBytes
    BY <1>1, <1>3
  <2> QED
    BY <1>0, <1>3, <2>1, BigEndianIsBytes, BigEndianIsRead DEF LengthField
<1>4. CASE ~(n >= Base ^ NarrowBytes) /\ ~(n >= ShortLen)
  BY <1>0, <1>4 DEF LengthField
<1> QED
  BY <1>2, <1>3, <1>4

(* The server's unmasking undoes the client's masking.                     *)
THEOREM MaskIsUndone ==
  ASSUME NEW p \in Seq({0, 1}), NEW mask \in [1..MaskBytes -> {0, 1}]
  PROVE  Masked(Masked(p, mask), mask) = p
<1>0. Len(p) \in Nat /\ DOMAIN p = 1..Len(p) /\ \A i \in 1..Len(p) : p[i] \in {0, 1}
  BY Elements
<1> DEFINE bit(c) == mask[((c - 1) % MaskBytes) + 1]
           q == Masked(p, mask)
<1>1. ASSUME NEW c \in 1..Len(p) PROVE bit(c) \in {0, 1}
  <2>1. c - 1 \in Nat /\ MaskBytes \in Nat \ {0}
    BY <1>0, WidthsAssumption
  <2>2. \A k \in Nat, b \in Nat \ {0} : (k % b) + 1 \in 1..b
    OBVIOUS
  <2> QED
    BY <2>1, <2>2
<1>2. q = [c \in 1..Len(p) |-> (p[c] + bit(c)) % 2]
  BY <1>0 DEF Masked
<1>3. DOMAIN q = 1..Len(p)
  BY <1>2
<1>4. Masked(q, mask) = [c \in 1..Len(p) |-> (q[c] + bit(c)) % 2]
  BY <1>3 DEF Masked
<1> HIDE DEF bit, q
<1>5. ASSUME NEW c \in 1..Len(p) PROVE (q[c] + bit(c)) % 2 = p[c]
  <2>1. \A a, b \in {0, 1} : (((a + b) % 2) + b) % 2 = a
    OBVIOUS
  <2>2. q[c] = (p[c] + bit(c)) % 2
    BY <1>2
  <2> QED
    BY <1>0, <1>1, <2>1, <2>2
<1>6. Masked(q, mask) = [c \in 1..Len(p) |-> p[c]]
  BY <1>4, <1>5
<1>7. p = [c \in 1..Len(p) |-> p[c]]
  BY <1>0, LenProperties
<1> QED
  BY <1>6, <1>7 DEF q

-----------------------------------------------------------------------------
(* Concatenations. *)

LEMMA Split ==
  ASSUME NEW S, NEW a \in Seq(S), NEW b \in Seq(S), NEW c \in Seq(S), NEW d \in Seq(S),
         a \o b = c \o d, Len(a) = Len(c)
  PROVE  a = c /\ b = d
<1>1. Len(a) \in Nat /\ Len(b) \in Nat /\ Len(d) \in Nat
  BY Elements
<1>2. ASSUME NEW i \in 1..Len(a) PROVE a[i] = c[i]
  <2>1. i \in 1..(Len(a) + Len(b)) /\ i \in 1..(Len(c) + Len(d)) /\ i <= Len(a)
    BY <1>1
  <2> QED
    BY <2>1, ConcatProperties
<1>3. a = c
  BY <1>2, SeqEqual
<1>4. \A s, t, u \in Seq(S) : s \o t = s \o u => t = u
  BY ConcatSimplifications
<1> QED
  BY <1>3, <1>4

LEMMA Cut ==
  ASSUME NEW S, NEW a \in Seq(S), NEW b \in Seq(S), NEW c \in Seq(S),
         NEW x \in Seq(S), NEW y \in Seq(S)
  PROVE  (a \o b) \o c = x \o y /\ Len(a) = Len(x) => a = x /\ b \o c = y
<1>1. (a \o b) \o c = a \o (b \o c)
  BY ConcatAssociative
<1>2. b \o c \in Seq(S)
  BY ConcatProperties
<1>3. a \o (b \o c) = x \o y /\ Len(a) = Len(x) => a = x /\ b \o c = y
  BY <1>2, Split
<1> QED
  BY <1>1, <1>3

(* A sequence is its first n elements and the rest. *)
LEMMA Halves ==
  ASSUME NEW S, NEW s \in Seq(S), NEW n \in 0..Len(s)
  PROVE  /\ SubSeq(s, 1, n) \in Seq(S) /\ Len(SubSeq(s, 1, n)) = n
         /\ Drop(s, n) \in Seq(S)
         /\ SubSeq(s, 1, n) \o Drop(s, n) = s
<1>1. Len(s) \in Nat /\ n \in Nat /\ n <= Len(s)
  BY Elements
<1>2. 1 \in 1..(Len(s) + 1) /\ n \in (1 - 1)..Len(s) /\ Len(s) \in n..Len(s)
  BY <1>1
<1>3. SubSeq(s, 1, n) \o SubSeq(s, n + 1, Len(s)) = SubSeq(s, 1, Len(s))
  BY <1>2, ConcatAdjacentSubSeq
<1>4. Len(SubSeq(s, 1, n)) = IF 1 <= n THEN n - 1 + 1 ELSE 0
  BY <1>1, Part
<1>5. SubSeq(s, 1, n) \in Seq(S) /\ Len(SubSeq(s, 1, n)) = n
  BY <1>1, <1>4, Part
<1>6. Drop(s, n) \in Seq(S)
  BY <1>1, Dropped
<1>7. SubSeq(s, 1, Len(s)) = s
  BY SubSeqFull
<1> QED
  BY <1>3, <1>5, <1>6, <1>7 DEF Drop

-----------------------------------------------------------------------------
(* The bytes that have been sent and not yet been read as part of a frame. *)
Pending == buffer \o incoming

(* A read takes them off the front, however they are divided between       *)
(* buffer and socket.                                                      *)
LEMMA Unread ==
  ASSUME IInv, at # "done", NEW n \in Nat, Readable(n), Consumed(n)
  PROVE  /\ Drop(Read(n), n) \o incoming' \in Seq(Bytes)
         /\ \A x, y \in Seq(Bytes) :
              Pending = x \o y /\ Len(x) = n =>
                /\ SubSeq(Read(n), 1, n) = x
                /\ Drop(Read(n), n) \o incoming' = y
<1>1. /\ buffer \in Seq(Bytes) /\ incoming \in Seq(Bytes) /\ Len(incoming) \in Nat
      /\ extra \in Nat
  BY IInvParts, Elements
<1> DEFINE k == Wanted(n)
           bytes == Read(n)
           rest == Drop(incoming, k)
           read == SubSeq(incoming, 1, k)
<1>2. k \in 0..Len(incoming) /\ incoming' = rest
  BY <1>1 DEF Wanted, Readable, Consumed, Drop
<1>3. bytes = buffer \o read
  BY DEF Read
<1> HIDE DEF k
<1>4. read \in Seq(Bytes) /\ rest \in Seq(Bytes)
  BY <1>1, <1>2, Halves
<1>5. read \o rest = incoming
  BY <1>1, <1>2, Halves
<1> HIDE DEF rest, read
<1>6. (buffer \o read) \o rest = buffer \o (read \o rest)
  BY <1>1, <1>4, ConcatAssociative
<1>7. bytes \in Seq(Bytes) /\ Len(bytes) = n + Left(n) /\ Left(n) \in Nat
  BY ReadGives
<1> HIDE DEF bytes
<1>8. bytes \o rest = Pending
  BY <1>3, <1>5, <1>6 DEF Pending
<1> DEFINE front == SubSeq(bytes, 1, n)
           back == Drop(bytes, n)
<1>9. front \in Seq(Bytes) /\ Len(front) = n /\ back \in Seq(Bytes)
  BY <1>7, Halves
<1>10. front \o back = bytes
  BY <1>7, Halves
<1> HIDE DEF front, back
<1>11. back \o rest \in Seq(Bytes)
  BY <1>4, <1>9, ConcatProperties
<1>12. \A x, y \in Seq(Bytes) :
         (front \o back) \o rest = x \o y /\ Len(front) = Len(x)
           => front = x /\ back \o rest = y
  BY <1>4, <1>9, Cut
<1>13. \A x, y \in Seq(Bytes) :
         Pending = x \o y /\ Len(x) = n => front = x /\ back \o rest = y
  BY <1>8, <1>9, <1>10, <1>12
<1> QED
  BY <1>2, <1>11, <1>13 DEF front, back, bytes

-----------------------------------------------------------------------------
(* A frame on the wire: two bytes, the rest of the length, the content.    *)

LEMMA FirstTwo ==
  ASSUME NEW S, NEW o \in S, NEW s \in Seq(S), Len(s) > 0
  PROVE  <<o>> \o s = <<o, s[1]>> \o Tail(s)
<1>1. s # <<>> /\ Len(s) \in Nat /\ s[1] \in S
  <2>1. s # <<>> /\ Len(s) \in Nat
    BY EmptySeq, Elements
  <2>2. 1 \in 1..Len(s)
    BY <2>1
  <2> QED
    BY <2>1, <2>2, Elements
<1>2. Tail(s) \in Seq(S) /\ Len(Tail(s)) = Len(s) - 1
      /\ \A i \in 1..Len(Tail(s)) : Tail(s)[i] = s[i + 1]
  BY <1>1, HeadTailProperties
<1> DEFINE one == <<o>>
           two == <<o, s[1]>>
           t == Tail(s)
<1>3. one \in Seq(S) /\ Len(one) = 1 /\ one[1] = o
  OBVIOUS
<1>4. two \in Seq(S) /\ Len(two) = 2 /\ two[1] = o /\ two[2] = s[1]
  BY <1>1
<1> HIDE DEF one, two, t
<1>5. /\ one \o s \in Seq(S) /\ Len(one \o s) = 1 + Len(s)
      /\ \A i \in 1..(1 + Len(s)) : (one \o s)[i] = IF i <= 1 THEN one[i] ELSE s[i - 1]
  <2>1. /\ one \o s \in Seq(S) /\ Len(one \o s) = Len(one) + Len(s)
        /\ \A i \in 1..(Len(one) + Len(s)) :
             (one \o s)[i] = IF i <= Len(one) THEN one[i] ELSE s[i - Len(one)]
    BY <1>3, ConcatProperties
  <2> QED
    BY <1>3, <2>1
<1>6. /\ two \o t \in Seq(S) /\ Len(two \o t) = 2 + Len(t)
      /\ \A i \in 1..(2 + Len(t)) : (two \o t)[i] = IF i <= 2 THEN two[i] ELSE t[i - 2]
  <2>1. /\ two \o t \in Seq(S) /\ Len(two \o t) = Len(two) + Len(t)
        /\ \A i \in 1..(Len(two) + Len(t)) :
             (two \o t)[i] = IF i <= Len(two) THEN two[i] ELSE t[i - Len(two)]
    BY <1>2, <1>4, ConcatProperties DEF t
  <2> QED
    BY <1>4, <2>1
<1>7. 2 + Len(t) = 1 + Len(s) /\ Len(t) \in Nat
  BY <1>1, <1>2, Elements DEF t
<1>8. ASSUME NEW i \in 1..(1 + Len(s)) PROVE (one \o s)[i] = (two \o t)[i]
  <2>1. (one \o s)[i] = IF i <= 1 THEN one[i] ELSE s[i - 1]
    BY <1>5
  <2>2. (two \o t)[i] = IF i <= 2 THEN two[i] ELSE t[i - 2]
    BY <1>6, <1>7
  <2>3. i > 2 => t[i - 2] = s[i - 1]
    <3>1. i > 2 => i - 2 \in 1..Len(t) /\ (i - 2) + 1 = i - 1
      BY <1>1, <1>7
    <3> QED
      BY <1>2, <3>1 DEF t
  <2>4. i = 1 \/ i = 2 \/ i > 2
    BY <1>1
  <2> QED
    BY <1>1, <1>3, <1>4, <2>1, <2>2, <2>3, <2>4
<1> QED
  BY <1>5, <1>6, <1>7, <1>8, SeqEqual DEF one, two, t

Field(f) == LengthField(Len(f.payload))

Second(f) == IF f.mask = <<>> THEN Field(f)[1] ELSE 128 + Field(f)[1]

Body(f) == IF f.mask = <<>> THEN f.payload ELSE f.mask \o Masked(f.payload, f.mask)

LEMMA Shape ==
  ASSUME NEW f \in AnyFrame
  PROVE  /\ f.op \in Bytes /\ f.payload \in Seq(Bytes) /\ f.payload \in Seq({0, 1})
         /\ Len(f.payload) \in Nat /\ Len(f.payload) < Base ^ WideBytes
         /\ f.mask = <<>> \/ (f.mask \in [1..MaskBytes -> {0, 1}] /\ f.mask \in Seq(Bytes))
         /\ Field(f) \in Seq(Bytes) /\ Len(Field(f)) > 0 /\ Field(f)[1] \in 0..127
         /\ Tail(Field(f)) \in Seq(Bytes) /\ Body(f) \in Seq(Bytes)
         /\ Second(f) \in Bytes
         /\ Encode(f) = <<f.op, Second(f)>> \o (Tail(Field(f)) \o Body(f))
<1>1. f.op \in Bytes /\ f.payload \in Seq(Bytes)
  BY Frames
<1>2. /\ f.payload \in Payloads \cup Controls \cup {<<>>}
      /\ f.mask = <<>> \/ f.mask \in Masks
  BY DEF AnyFrame
<1>3. f.payload \in Seq({0, 1}) /\ Len(f.payload) \in Nat
  BY <1>1, <1>2, InputsAssumption, EmptySeq, Elements
<1>4. Len(f.payload) < Base ^ WideBytes
  <2>1. Base ^ WideBytes \in Nat \ {0} /\ Len(<<>>) = 0
    BY Powers, WidthsAssumption
  <2>2. CASE f.payload \in Payloads \cup Controls
    BY <2>2, InputsAssumption
  <2>3. CASE f.payload = <<>>
    BY <2>1, <2>3
  <2> QED
    BY <1>2, <2>2, <2>3
<1>5. MaskBytes \in Nat \ {0} /\ {0, 1} \subseteq Bytes
  BY WidthsAssumption DEF Bytes
<1>6. ASSUME f.mask # <<>>
      PROVE  /\ f.mask \in [1..MaskBytes -> {0, 1}]
             /\ f.mask \in Seq(Bytes)
             /\ \A i \in 1..MaskBytes : f.mask[i] \in Bytes
  <2>1. f.mask \in [1..MaskBytes -> {0, 1}]
    BY <1>2, <1>6, InputsAssumption
  <2>2. f.mask \in [1..MaskBytes -> Bytes]
    BY <1>5, <2>1
  <2>3. f.mask \in Seq(Bytes)
    BY <1>5, <2>2, SeqDef
  <2> QED
    BY <2>1, <2>2, <2>3
<1>7. Field(f) \in Seq(Bytes) /\ Len(Field(f)) > 0 /\ Field(f)[1] \in 0..127
  BY <1>3, FieldIsBytes DEF Field
<1>8. Tail(Field(f)) \in Seq(Bytes)
  <2>1. Field(f) # <<>>
    BY <1>7, EmptySeq
  <2> QED
    BY <1>7, <2>1, HeadTailProperties
<1>9. Second(f) \in Bytes
  <2>1. \A k \in 0..127 : k \in Bytes /\ 128 + k \in Bytes
    BY DEF Bytes
  <2> QED
    BY <1>7, <2>1 DEF Second
<1>10. f.mask # <<>> => Masked(f.payload, f.mask) \in Seq(Bytes)
  BY <1>1, <1>6, MaskedIsBytes
<1>11. Body(f) \in Seq(Bytes)
  BY <1>1, <1>6, <1>10, ConcatProperties DEF Body
<1>12. Encode(f) = <<f.op, Second(f)>> \o (Tail(Field(f)) \o Body(f))
  <2> DEFINE two == <<f.op, Second(f)>>
             t == Tail(Field(f))
             one == <<f.op>>
             field == Field(f)
             payload == f.payload
             mask == f.mask
             masked == Masked(f.payload, f.mask)
  <2>1. two \in Seq(Bytes) /\ one \in Seq(Bytes)
    BY <1>1, <1>9
  <2>4. t \in Seq(Bytes) /\ payload \in Seq(Bytes)
    BY <1>1, <1>8
  <2> HIDE DEF two, t, payload
  <2>5. (two \o t) \o payload = two \o (t \o payload)
    BY <2>1, <2>4, ConcatAssociative
  <2>6. ASSUME mask \in Seq(Bytes), masked \in Seq(Bytes)
        PROVE  ((two \o t) \o mask) \o masked = two \o (t \o (mask \o masked))
    <3> HIDE DEF mask, masked
    <3> QED
      <4>1. two \o t \in Seq(Bytes) /\ mask \o masked \in Seq(Bytes)
        BY <2>1, <2>4, <2>6, ConcatProperties
      <4>2. ((two \o t) \o mask) \o masked = (two \o t) \o (mask \o masked)
        <5> DEFINE front == two \o t
        <5>1. front \in Seq(Bytes)
          BY <4>1
        <5> HIDE DEF front
        <5>2. (front \o mask) \o masked = front \o (mask \o masked)
          BY <2>6, <5>1, ConcatAssociative, SMTT(60)
        <5> QED
          BY <5>2 DEF front
      <4>3. (two \o t) \o (mask \o masked) = two \o (t \o (mask \o masked))
        <5> DEFINE end == mask \o masked
        <5>1. end \in Seq(Bytes)
          BY <4>1
        <5> HIDE DEF end
        <5>2. (two \o t) \o end = two \o (t \o end)
          BY <2>1, <2>4, <5>1, ConcatAssociative
        <5> QED
          BY <5>2 DEF end
      <4> QED
        BY <4>2, <4>3
  <2> USE DEF two, t, payload
  <2>2. CASE f.mask = <<>>
    <3>1. Encode(f) = (one \o field) \o payload
      BY <2>2 DEF Encode, Field
    <3>2. one \o field = two \o t
      BY <1>1, <1>7, <2>2, FirstTwo DEF Second
    <3>3. Body(f) = payload
      BY <2>2 DEF Body
    <3> HIDE DEF two, t, one, field, payload
    <3> QED
      BY <2>5, <3>1, <3>2, <3>3 DEF two, t
  <2>3. CASE f.mask # <<>>
    <3>1. Encode(f) = ((two \o t) \o mask) \o masked
      BY <2>3 DEF Encode, Field, Second
    <3>2. Body(f) = mask \o masked
      BY <2>3 DEF Body
    <3>3. mask \in Seq(Bytes) /\ masked \in Seq(Bytes)
      BY <1>6, <1>10, <2>3
    <3> HIDE DEF two, t, one, field, payload, mask, masked
    <3> QED
      BY <2>6, <3>1, <3>2, <3>3 DEF two, t
  <2> QED
    BY <2>2, <2>3
<1> QED
  <2>1. f.mask = <<>> \/ (f.mask \in [1..MaskBytes -> {0, 1}] /\ f.mask \in Seq(Bytes))
    <3>1. CASE f.mask = <<>>
      BY <3>1
    <3>2. CASE f.mask # <<>>
      BY <1>6, <3>2
    <3> QED
      BY <3>1, <3>2
  <2> QED
    BY <1>1, <1>3, <1>4, <1>7, <1>8, <1>9, <1>11, <1>12, <2>1

-----------------------------------------------------------------------------
(* What the frames that are still to be read will give.                    *)

Longest == CHOOSE n \in 0..Base ^ WideBytes :
             /\ \A p \in Payloads \cup Controls : Len(p) <= n
             /\ MaxFrames * n < Base ^ WideBytes

LEMMA LongestIsLongest ==
  /\ Longest \in Nat /\ MaxFrames * Longest < Base ^ WideBytes
  /\ \A f \in AnyFrame : Len(f.payload) <= Longest
<1> DEFINE P(n) == /\ \A p \in Payloads \cup Controls : Len(p) <= n
                   /\ MaxFrames * n < Base ^ WideBytes
<1>1. Longest \in 0..Base ^ WideBytes /\ P(Longest)
  <2>1. \E n \in 0..Base ^ WideBytes : P(n)
    BY TotalAssumption
  <2>2. Longest = CHOOSE n \in 0..Base ^ WideBytes : P(n)
    BY DEF Longest
  <2> HIDE DEF P
  <2> QED
    BY <2>1, <2>2
<1>2. Longest \in Nat
  BY <1>1, Powers, WidthsAssumption
<1>3. ASSUME NEW f \in AnyFrame PROVE Len(f.payload) <= Longest
  <2>1. f.payload \in Payloads \cup Controls \/ f.payload = <<>>
    BY DEF AnyFrame
  <2> QED
    BY <1>1, <1>2, <2>1
<1> QED
  BY <1>1, <1>2, <1>3

Begun == {b \in Arrivals : /\ b.size = Len(b.payload)
                           /\ b = Nothing \/ b.kind = "message"}

Final(k) == k > 0 /\ due[k].kind \in Finals

Owed(b, k, f) == IF Says(b, f) = Nothing THEN k ELSE k + 1

(* With message b begun and k arrivals owed, frame f was sent, and left c  *)
(* begun and l owed.                                                       *)
Link(b, k, f, c, l) ==
  /\ f \in Sendable(b)
  /\ IF Final(k) THEN c = b /\ l = k
     ELSE /\ c = After(b, f)
          /\ l = Owed(b, k, f)
          /\ Says(b, f) # Nothing => due[l] = Says(b, f)

(* Of the frames sent, those behind the r-th are still to be read; at the  *)
(* i-th are fs[i], bytes rest[i] follow it, bg[i] is begun and m[i]        *)
(* arrivals are owed.                                                      *)
Chain(r, fs, rest, bg, m) ==
  /\ r \in 0..count
  /\ \A i \in r..count : /\ rest[i] \in Seq(Bytes)
                         /\ bg[i] \in Begun /\ bg[i].size <= i * Longest
                         /\ m[i] \in 0..Len(due)
  /\ \A i \in (r + 1)..count : /\ rest[i - 1] = Encode(fs[i]) \o rest[i]
                               /\ Link(bg[i - 1], m[i - 1], fs[i], bg[i], m[i])
  /\ rest[count] = <<>> /\ bg[count] = begun /\ m[count] = Len(due)

(* The reader has what the first r frames gave. *)
Caught(r, bg, m) == bg[r] = fragmented /\ m[r] = Len(heard) /\ ~Final(Len(heard))

LengthIs(f, width) == /\ Len(Tail(Field(f))) = width
                      /\ Value(Tail(Field(f))) = Len(f.payload)

MaskedRight(f) == (f.mask = <<>>) # toServer

(* Where it is in the next. *)
Place(r, fs, rest) ==
  \/ at \in {"upgrade", "header"} /\ Pending = rest[r]
  \/ /\ r < count /\ op = fs[r + 1].op /\ MaskedRight(fs[r + 1])
     /\ \/ /\ at = "narrow" /\ LengthIs(fs[r + 1], NarrowBytes)
           /\ Pending = Tail(Field(fs[r + 1])) \o (Body(fs[r + 1]) \o rest[r + 1])
        \/ /\ at = "wide" /\ LengthIs(fs[r + 1], WideBytes)
           /\ Pending = Tail(Field(fs[r + 1])) \o (Body(fs[r + 1]) \o rest[r + 1])
        \/ /\ at = "content" /\ length = Len(fs[r + 1].payload)
           /\ fragmented.size + length <= MaxMessage
           /\ Pending = Body(fs[r + 1]) \o rest[r + 1]

Sync ==
  /\ at = "upgrade" => buffer = <<>>
  /\ at # "done" =>
       \E r, fs, rest, bg, m : /\ Chain(r, fs, rest, bg, m)
                               /\ Caught(r, bg, m) /\ Place(r, fs, rest)

-----------------------------------------------------------------------------
(* What the operators of the peer give. *)

LEMMA Kind ==
  /\ Nothing.kind = "none" /\ Nothing.size = 0 /\ Nothing \in Begun
  /\ NotMasked.kind = "close" /\ TooBig.kind = "toobig"
  /\ NotMasked # Nothing /\ TooBig # Nothing
<1>1. Nothing.kind = "none" /\ NotMasked.kind = "close" /\ TooBig.kind = "toobig"
  BY DEF Nothing, NotMasked, TooBig, Arrival
<1>2. Nothing.size = 0
  BY DEF Nothing, Arrival
<1> QED
  BY <1>1, <1>2, Constants DEF Begun

LEMMA WholeOK ==
  ASSUME NEW b \in Begun, NEW f \in AnyFrame
  PROVE  /\ Whole(b, f) \in Begun /\ Whole(b, f).kind = "message"
         /\ Whole(b, f).size = b.size + Len(f.payload)
<1>1. f.op \in Bytes /\ f.payload \in Seq(Bytes) /\ Len(f.payload) \in Nat
  BY Shape
<1>2. b \in Arrivals /\ b.size = Len(b.payload) /\ b.op \in Bytes /\ b.payload \in Seq(Bytes)
  BY DEF Begun, Arrivals
<1>3. "message" \in Kinds /\ WithFin(f.op) \in Bytes
  BY <1>1, WithFinIsByte DEF Kinds
<1>4. CASE b = Nothing
  <2>1. Whole(b, f) = Arrival("message", WithFin(f.op), f.payload)
    BY <1>4 DEF Whole
  <2>2. Whole(b, f).kind = "message"
    BY <2>1 DEF Arrival
  <2>3. b.size = 0
    BY <1>4, Kind
  <2> QED
    BY <1>1, <1>3, <2>1, <2>2, <2>3, ArrivalIsOne DEF Begun
<1>5. CASE b # Nothing
  <2> DEFINE p == b.payload \o f.payload
  <2>1. p \in Seq(Bytes) /\ Len(p) = Len(b.payload) + Len(f.payload)
    BY <1>1, <1>2, ConcatProperties
  <2>2. Whole(b, f) = Arrival("message", b.op, p)
    BY <1>5 DEF Whole
  <2> HIDE DEF p
  <2>3. Whole(b, f).kind = "message"
    BY <2>2 DEF Arrival
  <2> DEFINE a == Arrival("message", b.op, p)
  <2>4. a \in Arrivals /\ a.size = Len(p) /\ a.payload = p
    BY <1>2, <1>3, <2>1, ArrivalIsOne
  <2> HIDE DEF a
  <2>5. Whole(b, f) = a
    BY <2>2 DEF a
  <2> QED
    BY <1>2, <2>1, <2>3, <2>4, <2>5 DEF Begun
<1> QED
  BY <1>4, <1>5

(* After(), by what the frame says. *)
LEMMA AfterOK ==
  ASSUME NEW b \in Begun, NEW f \in AnyFrame
  PROVE  /\ After(b, f) \in Begun
         /\ After(b, f).size <= b.size + Len(f.payload)
<1>1. b.size \in Nat /\ Len(f.payload) \in Nat
  BY Shape DEF Begun, Arrivals
<1>2. After(b, f) \in {Whole(b, f), Nothing, b}
  BY DEF After
<1> QED
  BY <1>1, <1>2, WholeOK, Kind

LEMMA OneMore ==
  ASSUME NEW n \in Nat, NEW l \in Nat, NEW x \in Nat, NEW y \in Nat,
         x <= n * l, y <= l
  PROVE  x + y <= (n + 1) * l
<1>1. (n + 1) * l = n * l + l
  OBVIOUS
<1>2. n * l \in Nat
  OBVIOUS
<1> DEFINE k == n * l
<1> HIDE DEF k
<1>3. x <= k /\ k \in Nat
  BY <1>2 DEF k
<1>4. x + y <= k + l
  BY <1>3
<1> QED
  BY <1>1, <1>4 DEF k

(* The frame that is next to be read. *)
LEMMA Current ==
  ASSUME IInv, NEW r, NEW fs, NEW rest, NEW bg, NEW m,
         Chain(r, fs, rest, bg, m), Caught(r, bg, m), r < count
  PROVE  /\ fs[r + 1] \in Sendable(fragmented) /\ fs[r + 1] \in AnyFrame
         /\ fragmented \in Begun
         /\ rest[r] = Encode(fs[r + 1]) \o rest[r + 1] /\ rest[r + 1] \in Seq(Bytes)
         /\ Says(fragmented, fs[r + 1]) # Nothing =>
              /\ Len(heard) < Len(due)
              /\ due[Len(heard) + 1] = Says(fragmented, fs[r + 1])
         /\ fragmented.size + Len(fs[r + 1].payload) < Base ^ WideBytes
         /\ bg[r + 1] = After(fragmented, fs[r + 1])
<1>0. count \in 0..MaxFrames /\ MaxFrames \in Nat /\ r \in 0..count /\ Len(due) \in Nat
      /\ Len(heard) \in Nat
  BY IInvParts, InputsAssumption, Elements DEF Chain, HeardOK
<1>1. r + 1 \in (r + 1)..count /\ (r + 1) - 1 = r /\ r \in r..count /\ r + 1 \in r..count
      /\ r + 1 \in 0..count
  BY <1>0
<1> DEFINE f == fs[r + 1]
<1>2. /\ rest[r] = Encode(f) \o rest[r + 1]
      /\ Link(bg[r], m[r], f, bg[r + 1], m[r + 1])
  BY <1>1 DEF Chain
<1>3. bg[r] = fragmented /\ m[r] = Len(heard) /\ ~Final(Len(heard))
  BY DEF Caught
<1>4. /\ rest[r + 1] \in Seq(Bytes) /\ m[r + 1] \in 0..Len(due)
      /\ bg[r] \in Begun /\ bg[r].size <= r * Longest
  BY <1>1 DEF Chain
<1> HIDE DEF f
<1>5. /\ f \in Sendable(fragmented)
      /\ bg[r + 1] = After(fragmented, f)
      /\ m[r + 1] = Owed(fragmented, Len(heard), f)
      /\ Says(fragmented, f) # Nothing => due[m[r + 1]] = Says(fragmented, f)
  BY <1>2, <1>3 DEF Link
<1>6. f \in AnyFrame
  BY <1>5, SendableFrames
<1>7. Says(fragmented, f) # Nothing =>
        Len(heard) < Len(due) /\ due[Len(heard) + 1] = Says(fragmented, f)
  BY <1>0, <1>4, <1>5 DEF Owed
<1>8. fragmented.size + Len(f.payload) < Base ^ WideBytes
  <2>1. /\ fragmented.size \in Nat /\ Len(f.payload) \in Nat /\ Len(f.payload) <= Longest
        /\ Longest \in Nat /\ fragmented.size <= r * Longest /\ r \in Nat
    BY <1>0, <1>3, <1>4, <1>6, Shape, LongestIsLongest DEF Begun, Arrivals
  <2>2. fragmented.size + Len(f.payload) <= (r + 1) * Longest
    BY <2>1, OneMore
  <2>3. (r + 1) * Longest <= MaxFrames * Longest
    BY <1>0, <2>1, Monotone
  <2>4. MaxFrames * Longest < Base ^ WideBytes
        /\ Base ^ WideBytes \in Nat /\ MaxFrames * Longest \in Nat /\ (r + 1) * Longest \in Nat
    BY <1>0, <2>1, LongestIsLongest, Powers, WidthsAssumption
  <2> DEFINE A == (r + 1) * Longest
             B == MaxFrames * Longest
             C == Base ^ WideBytes
             D == fragmented.size + Len(f.payload)
  <2>5. D \in Nat
    BY <2>1
  <2>6. D <= A /\ A <= B /\ B < C /\ A \in Nat /\ B \in Nat /\ C \in Nat
    BY <2>2, <2>3, <2>4
  <2> HIDE DEF A, B, C, D
  <2>7. D < C
    BY <2>5, <2>6
  <2> QED
    BY <2>7 DEF C, D
<1> QED
  BY <1>2, <1>3, <1>4, <1>5, <1>6, <1>7, <1>8 DEF f

LEMMA CurrentLink ==
  ASSUME IInv, NEW r, NEW fs, NEW rest, NEW bg, NEW m,
         Chain(r, fs, rest, bg, m), Caught(r, bg, m), r < count
  PROVE  Link(fragmented, Len(heard), fs[r + 1], bg[r + 1], m[r + 1])
<1>1. r + 1 \in (r + 1)..count /\ (r + 1) - 1 = r
  BY IInvParts DEF Chain
<1>2. Link(bg[r], m[r], fs[r + 1], bg[r + 1], m[r + 1])
  BY <1>1 DEF Chain
<1> QED
  BY <1>2 DEF Caught

LEMMA ChainNext ==
  ASSUME IInv, NEW r, NEW fs, NEW rest, NEW bg, NEW m,
         Chain(r, fs, rest, bg, m), r < count
  PROVE  Chain(r + 1, fs, rest, bg, m)
<1>1. count \in 0..MaxFrames /\ r \in 0..count
  BY IInvParts DEF Chain
<1>2. r + 1 \in 0..count /\ (r + 1)..count \subseteq r..count
      /\ ((r + 1) + 1)..count \subseteq (r + 1)..count
  BY <1>1, InputsAssumption
<1> QED
  BY <1>2 DEF Chain

-----------------------------------------------------------------------------
(* The peer and the upgrade. *)

LEMMA InitSync == Init => Sync
<1> SUFFICES ASSUME Init PROVE Sync
  OBVIOUS
<1> DEFINE rest == [i \in {0} |-> <<>>]
           bg == [i \in {0} |-> Nothing]
           m == [i \in {0} |-> 0]
<1>1. /\ due = <<>> /\ begun = Nothing /\ count = 0 /\ incoming = <<>> /\ buffer = <<>>
      /\ fragmented = Nothing /\ heard = <<>> /\ at \in {"upgrade", "header"}
  BY DEF Init
<1>2. 0 * Longest = 0 /\ Len(<<>>) = 0 /\ <<>> \in Seq(Bytes)
  BY LongestIsLongest, EmptySeq
<1>3. Chain(0, <<>>, rest, bg, m)
  <2>1. \A i \in 0..count : i = 0
    BY <1>1
  <2>2. \A i \in (0 + 1)..count : FALSE
    BY <1>1
  <2>3. 0 \in 0..Len(due) /\ Len(due) = 0
    BY <1>1, <1>2
  <2>4. rest[0] = <<>> /\ bg[0] = Nothing /\ m[0] = 0
    OBVIOUS
  <2>5. bg[0] \in Begun /\ bg[0].size <= 0 * Longest
    BY <1>2, <2>4, Kind
  <2> HIDE DEF rest, bg, m
  <2> QED
    BY <1>1, <1>2, <2>1, <2>2, <2>3, <2>4, <2>5 DEF Chain
<1>4. Caught(0, bg, m)
  BY <1>1, <1>2 DEF Caught, Final
<1>5. Place(0, <<>>, rest)
  <2>1. Pending = <<>>
    BY <1>1, <1>2, ConcatEmptySeq DEF Pending
  <2> QED
    BY <1>1, <2>1 DEF Place
<1> HIDE DEF rest, bg, m
<1> QED
  BY <1>1, <1>3, <1>4, <1>5 DEF Sync

LEMMA SameDirection ==
  ASSUME toServer' = toServer
  PROVE  \A b, f : /\ Says(b, f)' = Says(b, f) /\ After(b, f)' = After(b, f)
                   /\ Sendable(b)' = Sendable(b)
                   /\ MaskedRight(f)' = MaskedRight(f)
<1>1. \A b, f : Says(b, f)' = Says(b, f)
  BY DEF Says
<1>2. \A b, f : After(b, f)' = After(b, f)
  BY <1>1 DEF After
<1>3. \A b : Sendable(b)' = Sendable(b)
  BY DEF Sendable
<1> QED
  BY <1>1, <1>2, <1>3 DEF MaskedRight

(* What has been owed stays so. *)
LEMMA LinkStays ==
  ASSUME toServer' = toServer, \A k \in 1..Len(due) : due'[k] = due[k],
         Len(due) \in Nat, NEW b, NEW k \in 0..Len(due), NEW f, NEW c,
         NEW l \in 0..Len(due), Link(b, k, f, c, l)
  PROVE  Link(b, k, f, c, l)'
<1>1. Final(k)' <=> Final(k)
  <2>1. k > 0 => due'[k] = due[k]
    OBVIOUS
  <2> QED
    BY <2>1 DEF Final
<1>2. l > 0 => due'[l] = due[l]
  OBVIOUS
<1>3. ~Final(k) /\ Says(b, f) # Nothing => l > 0
  BY DEF Link, Owed
<1> QED
  BY <1>1, <1>2, <1>3, SameDirection DEF Link, Owed

(* The peer sends one frame more. *)
LEMMA OweLinks ==
  ASSUME IInv, toServer' = toServer, NEW f \in Sendable(begun), Owe(f),
         NEW b, b = begun, NEW k, k = Len(due), NEW c, c = begun', NEW l, l = Len(due')
  PROVE  /\ due' \in Seq(Arrivals) /\ k \in Nat /\ l \in Nat /\ k <= l
         /\ \A i \in 1..k : due'[i] = due[i]
         /\ Link(b, k, f, c, l)'
         /\ c = b \/ c = After(b, f)
<1>1. due \in Seq(Arrivals) /\ begun \in Arrivals /\ due' \in Seq(Arrivals)
  BY IInvParts, OweTypes
<1>2. k \in Nat /\ l \in Nat
  BY <1>1, Elements
<1>3. Final(k) <=> Ended
  BY <1>1, <1>2, EmptySeq DEF Final, Ended
<1>4. CASE Ended
  <2>1. due' = due /\ c = b /\ l = k
    BY <1>4 DEF Owe
  <2>2. Final(k)'
    BY <1>3, <1>4, <2>1 DEF Final
  <2> QED
    BY <1>1, <1>2, <2>1, <2>2, SameDirection DEF Link, Owed
<1>5. CASE ~Ended /\ Says(begun, f) = Nothing
  <2>1. due' = due /\ c = After(b, f) /\ l = k
    BY <1>5 DEF Owe
  <2>2. ~Final(k)'
    BY <1>3, <1>5, <2>1 DEF Final
  <2> QED
    BY <1>1, <1>2, <1>5, <2>1, <2>2, SameDirection DEF Link, Owed
<1>6. CASE ~Ended /\ Says(begun, f) # Nothing
  <2> DEFINE a == Says(b, f)
  <2>1. due' = Append(due, a) /\ c = After(b, f)
    BY <1>6 DEF Owe
  <2>2. a \in Arrivals
    BY <1>1, SaysTypes, SendableFrames
  <2> HIDE DEF a
  <2>3. l = k + 1 /\ due'[k + 1] = a /\ \A i \in 1..k : due'[i] = due[i]
    BY <1>1, <2>1, <2>2, AppendProperties
  <2>4. ~Final(k)'
    <3>1. k > 0 => due'[k] = due[k]
      BY <1>2, <2>3
    <3> QED
      BY <1>3, <1>6, <3>1 DEF Final
  <2> QED
    BY <1>1, <1>2, <1>6, <2>1, <2>3, <2>4, SameDirection DEF Link, Owed, a
<1> QED
  BY <1>4, <1>5, <1>6

LEMMA ChainGrows ==
  ASSUME IInv, SendFrame, NEW f \in Sendable(begun), Owe(f),
         NEW r, NEW fs, NEW rest, NEW bg, NEW m, Chain(r, fs, rest, bg, m),
         NEW n, n = count, NEW c, c = begun', NEW l, l = Len(due'),
         NEW fs2, NEW rest2, NEW bg2, NEW m2,
         fs2[n + 1] = f, \A i \in (r + 1)..n : fs2[i] = fs[i],
         rest2[n + 1] = <<>>, \A i \in r..n : rest2[i] = rest[i] \o Encode(f),
         bg2[n + 1] = c, \A i \in r..n : bg2[i] = bg[i],
         m2[n + 1] = l, \A i \in r..n : m2[i] = m[i]
  PROVE  Chain(r, fs2, rest2, bg2, m2)'
<1>0. n \in Nat /\ r \in 0..n /\ toServer' = toServer /\ count' = n + 1
  BY IInvParts DEF Chain, SendFrame
<1>1. /\ \A i \in r..n : /\ rest[i] \in Seq(Bytes)
                         /\ bg[i] \in Begun /\ bg[i].size <= i * Longest
                         /\ m[i] \in 0..Len(due)
      /\ \A i \in (r + 1)..n : /\ rest[i - 1] = Encode(fs[i]) \o rest[i]
                               /\ Link(bg[i - 1], m[i - 1], fs[i], bg[i], m[i])
      /\ rest[n] = <<>> /\ bg[n] = begun /\ m[n] = Len(due)
  BY DEF Chain
<1> DEFINE k == m[n]
           b == bg[n]
<1>2. b = begun /\ k = Len(due) /\ b \in Begun /\ b.size <= n * Longest /\ n \in r..n
  BY <1>0, <1>1
<1> HIDE DEF b, k
<1>3. /\ due' \in Seq(Arrivals) /\ k \in Nat /\ l \in Nat /\ k <= l
      /\ \A i \in 1..k : due'[i] = due[i]
      /\ Link(b, k, f, c, l)'
      /\ c = b \/ c = After(b, f)
  BY <1>0, <1>2, OweLinks
<1>4. f \in AnyFrame /\ Encode(f) \in Seq(Bytes) /\ Len(f.payload) \in Nat
  BY SendableFrames, Frames, Shape
<1>5. c \in Begun /\ c.size <= (n + 1) * Longest
  <2>1. c \in Begun /\ c.size <= b.size + Len(f.payload)
    <3>1. b.size \in Nat
      BY <1>2 DEF Begun, Arrivals
    <3> QED
      BY <1>2, <1>3, <1>4, <3>1, AfterOK
  <2>2. b.size \in Nat /\ c.size \in Nat /\ Len(f.payload) <= Longest /\ Longest \in Nat
    BY <1>2, <1>4, <2>1, LongestIsLongest DEF Begun, Arrivals
  <2>3. b.size + Len(f.payload) <= (n + 1) * Longest
    BY <1>0, <1>2, <1>4, <2>2, OneMore
  <2>4. (n + 1) * Longest \in Nat
    BY <1>0, <2>2
  <2> QED
    BY <1>4, <2>1, <2>2, <2>3, <2>4
<1>6. ASSUME NEW i \in r..(n + 1)
      PROVE  /\ rest2[i] \in Seq(Bytes)
             /\ bg2[i] \in Begun /\ bg2[i].size <= i * Longest
             /\ m2[i] \in 0..l
  <2>1. CASE i = n + 1
    <3>1. <<>> \in Seq(Bytes) /\ l \in 0..l
      BY <1>3, EmptySeq
    <3>2. rest2[i] = <<>> /\ bg2[i] = c /\ m2[i] = l
      BY <2>1
    <3>3. c.size <= i * Longest
      BY <1>5, <2>1
    <3> QED
      BY <1>5, <3>1, <3>2, <3>3
  <2>2. CASE i \in r..n
    <3>1. rest2[i] \in Seq(Bytes)
      <4> DEFINE s == rest[i]
                 t == Encode(f)
      <4>1. s \in Seq(Bytes) /\ t \in Seq(Bytes) /\ rest2[i] = s \o t
        BY <1>1, <1>4, <2>2
      <4> HIDE DEF s, t
      <4>2. s \o t \in Seq(Bytes)
        BY <4>1, ConcatProperties
      <4> QED
        BY <4>1, <4>2
    <3>2. m[i] \in 0..l
      BY <1>1, <1>2, <1>3, <2>2
    <3> QED
      BY <1>1, <2>2, <3>1, <3>2
  <2>3. i = n + 1 \/ i \in r..n
    BY <1>0
  <2> QED
    BY <2>1, <2>2, <2>3
<1>7. ASSUME NEW i \in (r + 1)..(n + 1)
      PROVE  /\ rest2[i - 1] = Encode(fs2[i]) \o rest2[i]
             /\ Link(bg2[i - 1], m2[i - 1], fs2[i], bg2[i], m2[i])'
  <2>1. CASE i = n + 1
    <3>1. i - 1 = n /\ i - 1 \in r..n
      BY <1>0, <2>1
    <3>2. rest2[n] = <<>> \o Encode(f) /\ <<>> \o Encode(f) = Encode(f)
          /\ Encode(f) \o <<>> = Encode(f)
      BY <1>1, <1>2, <1>4, ConcatEmptySeq
    <3>3. bg2[n] = b /\ m2[n] = k
      BY <1>2 DEF b, k
    <3> QED
      BY <1>3, <2>1, <3>1, <3>2, <3>3
  <2>2. CASE i \in (r + 1)..n
    <3>1. i - 1 \in r..n /\ i \in r..n
      BY <1>0, <2>2
    <3>2. Link(bg[i - 1], m[i - 1], fs[i], bg[i], m[i])'
      <4>1. /\ Link(bg[i - 1], m[i - 1], fs[i], bg[i], m[i])
            /\ m[i - 1] \in 0..Len(due) /\ m[i] \in 0..Len(due)
        BY <1>1, <2>2, <3>1
      <4>2. Len(due) \in Nat /\ \A j \in 1..Len(due) : due'[j] = due[j]
        BY <1>2, <1>3
      <4> QED
        BY <1>0, <4>1, <4>2, LinkStays
    <3>3. (Encode(fs[i]) \o rest[i]) \o Encode(f) = Encode(fs[i]) \o (rest[i] \o Encode(f))
      <4> DEFINE e == Encode(fs[i])
                 s == rest[i]
                 t == Encode(f)
      <4>1. fs[i] \in AnyFrame
        BY <1>1, <2>2, SendableFrames DEF Link, Owed
      <4>2. e \in Seq(Bytes) /\ s \in Seq(Bytes) /\ t \in Seq(Bytes)
        BY <1>1, <1>4, <3>1, <4>1, Frames
      <4> HIDE DEF e, s, t
      <4>3. (e \o s) \o t = e \o (s \o t)
        BY <4>2, ConcatAssociative
      <4> QED
        BY <4>3 DEF e, s, t
    <3>4. rest2[i - 1] = rest[i - 1] \o Encode(f) /\ rest2[i] = rest[i] \o Encode(f)
          /\ rest[i - 1] = Encode(fs[i]) \o rest[i] /\ fs2[i] = fs[i]
      BY <1>1, <2>2, <3>1
    <3>5. rest2[i - 1] = Encode(fs2[i]) \o rest2[i]
      BY <3>3, <3>4
    <3> QED
      BY <2>2, <3>1, <3>2, <3>5
  <2>3. i = n + 1 \/ i \in (r + 1)..n
    BY <1>0
  <2> QED
    BY <2>1, <2>2, <2>3
<1> QED
  <2>1. r \in 0..(n + 1)
    BY <1>0
  <2> QED
    BY <1>0, <1>6, <1>7, <2>1 DEF Chain

(* t follows what followed. *)
Followed(rest, rest2, r, n, t) == \A i \in r..n : rest2[i] = rest[i] \o t

LEMMA PendingGrows ==
  ASSUME IInv, NEW t \in Seq(Bytes)
  PROVE  /\ Pending \in Seq(Bytes)
         /\ UNCHANGED buffer /\ incoming' = incoming \o t => Pending' = Pending \o t
<1>1. buffer \in Seq(Bytes) /\ incoming \in Seq(Bytes)
  BY IInvParts
<1>2. (buffer \o incoming) \o t = buffer \o (incoming \o t)
  BY <1>1, ConcatAssociative
<1>3. buffer \o incoming \in Seq(Bytes)
  BY <1>1, ConcatProperties
<1> QED
  BY <1>2, <1>3 DEF Pending

LEMMA PlaceGrows ==
  ASSUME IInv, SendFrame, NEW f \in Sendable(begun),
         NEW r, NEW fs, NEW rest, NEW bg, NEW m, Chain(r, fs, rest, bg, m),
         Place(r, fs, rest), NEW n, n = count, NEW fs2, NEW rest2,
         \A i \in (r + 1)..n : fs2[i] = fs[i],
         Followed(rest, rest2, r, n, Encode(f))
  PROVE  Pending' = Pending \o Encode(f) => Place(r, fs2, rest2)'
<1> DEFINE t == Encode(f)
<1>0. /\ n \in Nat /\ r \in 0..n /\ toServer' = toServer /\ count' = n + 1
      /\ UNCHANGED <<at, buffer, op, length, fragmented>>
  BY IInvParts DEF Chain, SendFrame
<1>1. /\ r \in r..n /\ rest[r] \in Seq(Bytes) /\ t \in Seq(Bytes)
  BY <1>0, SendableFrames, Frames DEF Chain
<1>5. rest2[r] = rest[r] \o t
  BY <1>1 DEF Followed, t
<1> HIDE DEF t
<1>3. CASE at \in {"upgrade", "header"} /\ Pending = rest[r]
  <2>1. Pending' = Pending \o t => Pending' = rest2[r]
    BY <1>3, <1>5
  <2> QED
    BY <1>0, <1>3, <2>1 DEF Place, t
<1>4. CASE ~(at \in {"upgrade", "header"} /\ Pending = rest[r])
  <2> DEFINE g == fs[r + 1]
             s == rest[r + 1]
             x == Tail(Field(fs[r + 1]))
             y == Body(fs[r + 1])
  <2>1. /\ r < count /\ op = g.op /\ MaskedRight(g)
        /\ \/ /\ at = "narrow" /\ LengthIs(g, NarrowBytes)
              /\ Pending = x \o (y \o s)
           \/ /\ at = "wide" /\ LengthIs(g, WideBytes)
              /\ Pending = x \o (y \o s)
           \/ /\ at = "content" /\ length = Len(g.payload)
              /\ fragmented.size + length <= MaxMessage
              /\ Pending = y \o s
    BY <1>4 DEF Place
  <2>2. r + 1 \in (r + 1)..n /\ r + 1 \in r..n
    BY <1>0, <2>1
  <2>3. fs2[r + 1] = g /\ rest2[r + 1] = s \o t
    BY <2>2 DEF Followed, t
  <2>13. s \in Seq(Bytes)
    BY <2>2 DEF Chain
  <2>4. g \in AnyFrame
    BY <2>2, SendableFrames DEF Chain, Link
  <2>5. x \in Seq(Bytes) /\ y \in Seq(Bytes)
    BY <2>4, Shape
  <2>6. MaskedRight(g)' = MaskedRight(g)
    BY <1>0, SameDirection
  <2> HIDE DEF s, x, y
  <2>7. (y \o s) \o t = y \o (s \o t)
    BY <1>1, <2>5, <2>13, ConcatAssociative
  <2>8. (x \o (y \o s)) \o t = x \o (y \o (s \o t))
    <3>1. \A z \in Seq(Bytes) : (x \o z) \o t = x \o (z \o t)
      BY <1>1, <2>5, ConcatAssociative
    <3>2. y \o s \in Seq(Bytes)
      BY <2>5, <2>13, ConcatProperties
    <3>3. (x \o (y \o s)) \o t = x \o ((y \o s) \o t)
      BY <3>1, <3>2
    <3> QED
      BY <2>7, <3>3
  <2>9. r < count'
    BY <1>0
  <2>10. Pending' = Pending \o t =>
         /\ Pending = x \o (y \o s) => Pending' = x \o (y \o rest2[r + 1])
         /\ Pending = y \o s => Pending' = y \o rest2[r + 1]
    BY <2>3, <2>7, <2>8
  <2>11. x = Tail(Field(fs2[r + 1])) /\ y = Body(fs2[r + 1])
    BY <2>3 DEF x, y
  <2>12. LengthIs(g, NarrowBytes)' = LengthIs(g, NarrowBytes)
         /\ LengthIs(g, WideBytes)' = LengthIs(g, WideBytes)
    OBVIOUS
  <2> HIDE DEF g
  <2> QED
    BY <1>0, <2>1, <2>3, <2>6, <2>9, <2>10, <2>11, <2>12 DEF Place, t
<1> QED
  BY <1>3, <1>4

LEMMA SendSync ==
  ASSUME IInv, Sync, SendFrame
  PROVE  Sync'
<1>1. CASE at = "done"
  BY <1>1 DEF SendFrame, Sync
<1>2. CASE at # "done"
  <2>1. PICK r, fs, rest, bg, m :
          Chain(r, fs, rest, bg, m) /\ Caught(r, bg, m) /\ Place(r, fs, rest)
    BY <1>2 DEF Sync
  <2>2. PICK f \in Sendable(begun) : Owe(f) /\ incoming' = incoming \o Encode(f)
    BY DEF SendFrame
  <2>3. PICK n : n = count
    OBVIOUS
  <2>4. PICK c : c = begun'
    OBVIOUS
  <2>5. PICK l : l = Len(due')
    OBVIOUS
  <2>6. n \in Nat /\ r \in 0..n /\ r \in r..n
    BY <2>1, <2>3, IInvParts DEF Chain
  <2> DEFINE fs2 == [i \in (r + 1)..(n + 1) |-> IF i = n + 1 THEN f ELSE fs[i]]
             rest2 == [i \in r..(n + 1) |-> IF i = n + 1 THEN <<>> ELSE rest[i] \o Encode(f)]
             bg2 == [i \in r..(n + 1) |-> IF i = n + 1 THEN c ELSE bg[i]]
             m2 == [i \in r..(n + 1) |-> IF i = n + 1 THEN l ELSE m[i]]
  <2>7. /\ fs2[n + 1] = f /\ rest2[n + 1] = <<>> /\ bg2[n + 1] = c /\ m2[n + 1] = l
        /\ \A i \in (r + 1)..n : fs2[i] = fs[i]
        /\ \A i \in r..n : rest2[i] = rest[i] \o Encode(f)
        /\ \A i \in r..n : bg2[i] = bg[i]
        /\ \A i \in r..n : m2[i] = m[i]
    <3>1. n + 1 \in (r + 1)..(n + 1) /\ n + 1 \in r..(n + 1)
      BY <2>6
    <3>2. \A i \in r..n : i \in r..(n + 1) /\ i # n + 1
      BY <2>6
    <3>3. \A i \in (r + 1)..n : i \in (r + 1)..(n + 1) /\ i # n + 1
      BY <2>6
    <3> QED
      BY <3>1, <3>2, <3>3
  <2> HIDE DEF fs2, rest2, bg2, m2
  <2>8. Chain(r, fs2, rest2, bg2, m2)'
    BY <2>1, <2>2, <2>3, <2>4, <2>5, <2>7, ChainGrows
  <2>9. Followed(rest, rest2, r, n, Encode(f))
    BY <2>7 DEF Followed
  <2>10. Encode(f) \in Seq(Bytes)
    BY SendableFrames, Frames
  <2>11. Pending' = Pending \o Encode(f)
    BY <2>2, <2>10, PendingGrows DEF SendFrame
  <2>12. Place(r, fs2, rest2)'
    BY <2>1, <2>3, <2>7, <2>9, <2>11, PlaceGrows
  <2>13. Caught(r, bg2, m2)'
    <3>1. bg2[r] = fragmented /\ m2[r] = Len(heard) /\ ~Final(Len(heard))
      BY <2>1, <2>6, <2>7 DEF Caught
    <3>2. fragmented' = fragmented /\ heard' = heard
      BY DEF SendFrame
    <3>3. Final(Len(heard))' <=> Final(Len(heard))
      <4>1. Len(heard) \in 0..Len(due)
        BY <2>1, <2>3, <2>6 DEF Chain, Caught
      <4>2. \A i \in 1..Len(due) : due'[i] = due[i]
        <5>1. toServer' = toServer
          BY DEF SendFrame
        <5>2. PICK k : k = Len(due)
          OBVIOUS
        <5>3. PICK b : b = begun
          OBVIOUS
        <5> QED
          BY <2>2, <2>4, <2>5, <5>1, <5>2, <5>3, OweLinks
      <4>3. Len(heard) > 0 => due'[Len(heard)] = due[Len(heard)]
        BY <4>1, <4>2
      <4> QED
        BY <3>2, <4>3 DEF Final
    <3> QED
      BY <3>1, <3>2, <3>3 DEF Caught
  <2> QED
    BY <2>8, <2>12, <2>13 DEF Sync, SendFrame
<1> QED
  BY <1>1, <1>2

LEMMA ChainStays ==
  ASSUME UNCHANGED <<toServer, due, begun, count>>,
         NEW r, NEW fs, NEW rest, NEW bg, NEW m, Chain(r, fs, rest, bg, m)
  PROVE  Chain(r, fs, rest, bg, m)'
<1>1. \A k : Final(k)' <=> Final(k)
  BY DEF Final
<1>2. \A b, k, f, c, l : Link(b, k, f, c, l)' <=> Link(b, k, f, c, l)
  BY <1>1, SameDirection DEF Link, Owed
<1> QED
  BY <1>2 DEF Chain

LEMMA UpgradedSync ==
  ASSUME IInv, Sync, Upgraded
  PROVE  Sync'
<1>1. /\ at = "upgrade" /\ at' = "header"
      /\ UNCHANGED <<toServer, due, begun, count, op, length, fragmented, heard>>
  BY DEF Upgraded, peer
<1>2. PICK r, fs, rest, bg, m :
        Chain(r, fs, rest, bg, m) /\ Caught(r, bg, m) /\ Place(r, fs, rest)
  BY <1>1 DEF Sync
<1>3. Pending' = Pending
  <2>1. PICK k \in 0..Len(incoming) : /\ buffer' = SubSeq(incoming, 1, k)
                                      /\ incoming' = Drop(incoming, k)
    BY DEF Upgraded
  <2>2. incoming \in Seq(Bytes) /\ buffer = <<>>
    BY <1>1, IInvParts DEF Sync
  <2>3. SubSeq(incoming, 1, k) \o Drop(incoming, k) = incoming
    BY <2>2, Halves
  <2>4. <<>> \o incoming = incoming
    BY <2>2, ConcatEmptySeq
  <2> QED
    BY <2>1, <2>2, <2>3, <2>4 DEF Pending
<1>4. Chain(r, fs, rest, bg, m)'
  BY <1>1, <1>2, ChainStays
<1>5. Caught(r, bg, m)'
  BY <1>1, <1>2 DEF Caught, Final
<1>6. Place(r, fs, rest)'
  BY <1>1, <1>2, <1>3 DEF Place
<1> QED
  BY <1>1, <1>4, <1>5, <1>6 DEF Sync

-----------------------------------------------------------------------------
(* The reading end: what it tells is what is owed next. *)

LEMMA Hears ==
  ASSUME IInv, at # "done", due' = due, Len(heard) < Len(due),
         NEW a, a = due[Len(heard) + 1], Tell(a),
         at' = "done" <=> a.kind \in Finals
  PROVE  [M!Next]_M!vars
<1>1. heard' = Append(heard, due[Len(heard) + 1])
  BY DEF Tell
<1>2. (at' = "done") = (due[Len(heard) + 1].kind \in Finals)
  OBVIOUS
<1> QED
  BY <1>1, <1>2 DEF M!Next, M!Deliver

LEMMA Quiet ==
  ASSUME UNCHANGED <<due, heard>>, at # "done", at' # "done"
  PROVE  [M!Next]_M!vars
BY DEF M!vars

LEMMA TailOfOne ==
  ASSUME NEW S, NEW x \in S, NEW s \in Seq(S)
  PROVE  (<<x>> \o s)[1] = x /\ Tail(<<x>> \o s) = s
<1> DEFINE one == <<x>>
           t == one \o s
<1>1. one \in Seq(S) /\ Len(one) = 1 /\ one[1] = x /\ Len(s) \in Nat
  BY Elements
<1> HIDE DEF one
<1>2. /\ t \in Seq(S) /\ Len(t) = Len(one) + Len(s)
      /\ \A i \in 1..(Len(one) + Len(s)) :
           t[i] = IF i <= Len(one) THEN one[i] ELSE s[i - Len(one)]
  BY <1>1, ConcatProperties
<1> HIDE DEF t
<1>3. t[1] = x /\ t # <<>> /\ Len(t) = 1 + Len(s)
  BY <1>1, <1>2, EmptySeq
<1>4. /\ Tail(t) \in Seq(S) /\ Len(Tail(t)) = Len(t) - 1
      /\ \A i \in 1..Len(Tail(t)) : Tail(t)[i] = t[i + 1]
  BY <1>2, <1>3, HeadTailProperties
<1>5. Len(Tail(t)) = Len(s)
  BY <1>1, <1>3, <1>4
<1>6. ASSUME NEW i \in 1..Len(s) PROVE Tail(t)[i] = s[i]
  <2>1. i + 1 \in 1..(Len(one) + Len(s)) /\ ~(i + 1 <= Len(one)) /\ (i + 1) - Len(one) = i
    BY <1>1
  <2>2. t[i + 1] = s[i]
    BY <1>2, <2>1
  <2> QED
    BY <1>4, <1>5, <2>2
<1>7. Tail(t) = s
  BY <1>4, <1>5, <1>6, SeqEqual
<1> QED
  BY <1>3, <1>7 DEF t, one

(* The three forms of a length. *)
LEMMA FieldForms ==
  ASSUME NEW f \in AnyFrame
  PROVE  \/ /\ Field(f)[1] = Len(f.payload) /\ Len(f.payload) < ShortLen
            /\ Tail(Field(f)) = <<>>
         \/ Field(f)[1] = ShortLen /\ LengthIs(f, NarrowBytes)
         \/ Field(f)[1] = ShortLen + 1 /\ LengthIs(f, WideBytes)
<1> DEFINE n == Len(f.payload)
<1>1. n \in Nat /\ n < Base ^ WideBytes /\ ShortLen \in 1..126
  BY Shape, WidthsAssumption
<1> HIDE DEF n
<1>2. Field(f) = LengthField(n)
  BY DEF Field, n
<1>3. CASE LengthField(n) = <<n>> /\ n < ShortLen
  BY <1>2, <1>3 DEF n
<1>4. ASSUME NEW x \in Bytes, NEW w, NEW bytes \in Seq(Bytes), LengthField(n) = <<x>> \o bytes,
             Len(bytes) = w, Value(bytes) = n
      PROVE  Field(f)[1] = x /\ LengthIs(f, w)
  <2>1. (<<x>> \o bytes)[1] = x /\ Tail(<<x>> \o bytes) = bytes
    BY TailOfOne
  <2>2. Field(f)[1] = x /\ Tail(Field(f)) = bytes
    BY <1>2, <1>4, <2>1
  <2> QED
    BY <1>4, <2>2 DEF LengthIs, n
<1>5. ShortLen \in Bytes /\ ShortLen + 1 \in Bytes
  BY <1>1 DEF Bytes
<1>6. CASE \E bytes \in Seq(Bytes) :
             /\ LengthField(n) = <<ShortLen>> \o bytes
             /\ Len(bytes) = NarrowBytes /\ Value(bytes) = n
  BY <1>4, <1>5, <1>6
<1>7. CASE \E bytes \in Seq(Bytes) :
             /\ LengthField(n) = <<ShortLen + 1>> \o bytes
             /\ Len(bytes) = WideBytes /\ Value(bytes) = n
  BY <1>4, <1>5, <1>7
<1> QED
  BY <1>1, <1>3, <1>6, <1>7, LengthIsRead

(* The length of the next frame is known, and compared. *)
LEMMA ContentSync ==
  ASSUME IInv, at # "done", NEW r, NEW fs, NEW rest, NEW bg, NEW m,
         Chain(r, fs, rest, bg, m), Caught(r, bg, m), r < count,
         MaskedRight(fs[r + 1]), op' = fs[r + 1].op, Content(Len(fs[r + 1].payload)),
         UNCHANGED <<toServer, due, begun, count, fragmented>>,
         NEW p, p = Body(fs[r + 1]) \o rest[r + 1], Pending' = p
  PROVE  Sync' /\ [M!Next]_M!vars
<1> DEFINE f == fs[r + 1]
           n == Len(f.payload)
<1>1. /\ f \in AnyFrame /\ fragmented \in Begun
      /\ fragmented.size + n < Base ^ WideBytes
      /\ Says(fragmented, f) # Nothing =>
           /\ Len(heard) < Len(due)
           /\ due[Len(heard) + 1] = Says(fragmented, f)
  BY Current
<1>2. n \in Nat /\ fragmented.size \in Nat /\ Base ^ WideBytes \in Nat \ {0} /\ MaxMessage \in Nat
  BY <1>1, Shape, Powers, WidthsAssumption, InputsAssumption DEF Begun, Arrivals
<1>3. MaskedRight(f) /\ op' = f.op
  OBVIOUS
<1>4. /\ length' = n
      /\ IF SizeT(n + fragmented.size) > MaxMessage
           THEN EndWith(TooBig)
           ELSE at' = "content" /\ UNCHANGED heard
  BY DEF Content
<1> HIDE DEF f, n
<1>5. SizeT(n + fragmented.size) = fragmented.size + n
  <2>1. \A x \in Nat, b \in Nat \ {0} : x < b => x % b = x
    OBVIOUS
  <2>2. n + fragmented.size = fragmented.size + n /\ fragmented.size + n \in Nat
    BY <1>2
  <2> QED
    BY <1>1, <1>2, <2>1, <2>2 DEF SizeT
<1>6. CASE fragmented.size + n > MaxMessage
  <2>1. Tell(TooBig) /\ at' = "done"
    BY <1>4, <1>5, <1>6 DEF EndWith
  <2>2. Says(fragmented, f) = TooBig
    BY <1>3, <1>6, IInvParts DEF Says, MaskedRight, n
  <2>3. TooBig.kind \in Finals /\ TooBig # Nothing
    BY Kind DEF Finals
  <2>4. [M!Next]_M!vars
    BY <1>1, <2>1, <2>2, <2>3, Hears
  <2> QED
    BY <2>1, <2>4 DEF Sync
<1>7. CASE ~(fragmented.size + n > MaxMessage)
  <2>1. at' = "content" /\ heard' = heard /\ length' = n
    BY <1>4, <1>5, <1>7
  <2>2. Chain(r, fs, rest, bg, m)'
    BY ChainStays
  <2>3. Caught(r, bg, m)'
    BY <2>1 DEF Caught, Final
  <2>4. Place(r, fs, rest)'
    <3>1. fragmented.size + n <= MaxMessage
      BY <1>2, <1>7
    <3>2. MaskedRight(f)'
      BY <1>3, SameDirection
    <3> QED
      BY <1>3, <2>1, <3>1, <3>2 DEF Place, f, n
  <2>5. [M!Next]_M!vars
    BY <2>1, Quiet
  <2> QED
    BY <2>1, <2>2, <2>3, <2>4, <2>5 DEF Sync
<1> QED
  BY <1>6, <1>7

LEMMA NotEmpty ==
  ASSUME IInv, at # "done", NEW n \in Nat \ {0}, Readable(n)
  PROVE  Pending # <<>>
<1>1. /\ buffer \in Seq(Bytes) /\ incoming \in Seq(Bytes) /\ extra = Len(buffer)
      /\ Len(buffer) \in Nat /\ Len(incoming) \in Nat
  BY IInvParts, Elements DEF ExtraIsBuffered
<1>2. Len(Pending) = Len(buffer) + Len(incoming)
  BY <1>1, ConcatProperties DEF Pending
<1>3. Len(buffer) + Len(incoming) > 0
  BY <1>1 DEF Readable, Wanted
<1>4. Len(<<>>) = 0
  OBVIOUS
<1> QED
  BY <1>1, <1>2, <1>3, <1>4

(* A frame and what follows it, cut where the reads are. *)
LEMMA Laid ==
  ASSUME NEW f \in AnyFrame, NEW s \in Seq(Bytes)
  PROVE  /\ Body(f) \o s \in Seq(Bytes)
         /\ Tail(Field(f)) \o (Body(f) \o s) \in Seq(Bytes)
         /\ Encode(f) \o s = <<f.op, Second(f)>> \o (Tail(Field(f)) \o (Body(f) \o s))
<1> DEFINE two == <<f.op, Second(f)>>
           t == Tail(Field(f))
           b == Body(f)
<1>1. two \in Seq(Bytes) /\ t \in Seq(Bytes) /\ b \in Seq(Bytes)
  <2>1. f.op \in Bytes /\ Second(f) \in Bytes /\ t \in Seq(Bytes) /\ b \in Seq(Bytes)
    BY Shape
  <2> QED
    BY <2>1
<1>2. Encode(f) = two \o (t \o b)
  BY Shape
<1> HIDE DEF two, t, b
<1>3. b \o s \in Seq(Bytes) /\ t \o b \in Seq(Bytes)
  BY <1>1, ConcatProperties
<1>4. t \o (b \o s) \in Seq(Bytes)
  BY <1>1, <1>3, ConcatProperties
<1>5. (t \o b) \o s = t \o (b \o s)
  BY <1>1, ConcatAssociative
<1>6. (two \o (t \o b)) \o s = two \o ((t \o b) \o s)
  <2>1. \A z \in Seq(Bytes) : (two \o z) \o s = two \o (z \o s)
    BY <1>1, ConcatAssociative
  <2> QED
    BY <1>3, <2>1
<1>7. Encode(f) \o s = two \o (t \o (b \o s))
  BY <1>2, <1>5, <1>6
<1> QED
  BY <1>3, <1>4, <1>7 DEF two, t, b

(* The second byte. *)
LEMMA SecondTells ==
  ASSUME NEW f \in AnyFrame, toServer \in BOOLEAN
  PROVE  /\ (Second(f) >= 128) # toServer <=> ~MaskedRight(f)
         /\ Second(f) % 128 = Field(f)[1]
<1> DEFINE k == Field(f)[1]
<1>1. k \in 0..127
  BY Shape
<1> HIDE DEF k
<1>2. Second(f) = IF f.mask = <<>> THEN k ELSE 128 + k
  BY DEF Second, k
<1>3. Second(f) >= 128 <=> f.mask # <<>>
  BY <1>1, <1>2
<1>4. Second(f) % 128 = k
  BY <1>1, <1>2
<1>5. (Second(f) >= 128) = ~(f.mask = <<>>)
  BY <1>3
<1>6. (Second(f) >= 128) # toServer <=> ~MaskedRight(f)
  BY <1>5, Zenon DEF MaskedRight
<1> QED
  BY <1>4, <1>6 DEF k

LEMMA ReadHeaderSync ==
  ASSUME IInv, Sync, ReadHeader
  PROVE  Sync' /\ [M!Next]_M!vars
<1>1. /\ at = "header" /\ Readable(2) /\ Consumed(2) /\ buffer' = Drop(Read(2), 2)
      /\ UNCHANGED <<toServer, due, begun, count, fragmented>>
  BY DEF ReadHeader, peer
<1>2. PICK r, fs, rest, bg, m :
        Chain(r, fs, rest, bg, m) /\ Caught(r, bg, m) /\ Place(r, fs, rest)
  BY <1>1 DEF Sync
<1>3. Pending = rest[r]
  BY <1>1, <1>2 DEF Place
<1>4. r < count
  <2>1. r # count
    BY <1>1, <1>2, <1>3, NotEmpty DEF Chain
  <2> QED
    BY <1>2, <2>1, IInvParts DEF Chain
<1> DEFINE f == fs[r + 1]
           s == rest[r + 1]
           two == <<f.op, Second(f)>>
           y == Tail(Field(f)) \o (Body(f) \o s)
           bytes == Read(2)
           k == Field(f)[1]
<1>5. f \in AnyFrame /\ s \in Seq(Bytes) /\ y \in Seq(Bytes)
  <2>1. f \in AnyFrame /\ s \in Seq(Bytes)
    BY <1>2, <1>4, Current
  <2> QED
    BY <2>1, Laid
<1>6. Pending = two \o y
  <2>1. rest[r] = Encode(f) \o s
    BY <1>2, <1>4, Current
  <2>2. Encode(f) \o s = two \o y
    BY <1>5, Laid
  <2> HIDE DEF two, y, s, f
  <2> QED
    BY <1>3, <2>1, <2>2
<1>7. f.op \in Bytes /\ Second(f) \in Bytes
  BY <1>5, Shape
<1>8. two \in Seq(Bytes) /\ Len(two) = 2 /\ two[1] = f.op /\ two[2] = Second(f)
  BY <1>7
<1> HIDE DEF two, y
<1>9. SubSeq(bytes, 1, 2) = two /\ Drop(bytes, 2) \o incoming' = y
  BY <1>1, <1>5, <1>6, <1>8, Unread
<1>10. Pending' = y
  BY <1>1, <1>9 DEF Pending
<1>11. bytes[1] = f.op /\ bytes[2] = Second(f)
  <2>1. bytes \in Seq(Bytes) /\ Len(bytes) = 2 + Left(2) /\ Left(2) \in Nat
    BY <1>1, ReadGives
  <2> HIDE DEF bytes
  <2>2. 2 <= Len(bytes)
    BY <2>1
  <2>3. \A i \in 1..2 : SubSeq(bytes, 1, 2)[i] = bytes[1 + i - 1]
    BY <2>1, <2>2, Part
  <2>4. \A i \in 1..2 : SubSeq(bytes, 1, 2)[i] = bytes[i]
    BY <2>3
  <2> QED
    BY <1>8, <1>9, <2>4
<1> DEFINE wrong == (bytes[2] >= 128) # toServer
           code == bytes[2] % 128
<1>12. (wrong <=> ~MaskedRight(f)) /\ code = k
  BY <1>5, <1>11, SecondTells, IInvParts
<1>13. /\ op' = f.op
       /\ IF ~MaskedRight(f)
            THEN EndWith(NotMasked) /\ UNCHANGED length
            ELSE IF k \in {ShortLen, ShortLen + 1}
                   THEN /\ at' = IF k = ShortLen THEN "narrow" ELSE "wide"
                        /\ UNCHANGED <<length, heard>>
                   ELSE Content(k)
  <2>1. /\ op' = bytes[1]
        /\ IF wrong
             THEN EndWith(NotMasked) /\ UNCHANGED length
             ELSE IF code \in {ShortLen, ShortLen + 1}
                    THEN /\ at' = IF code = ShortLen THEN "narrow" ELSE "wide"
                         /\ UNCHANGED <<length, heard>>
                    ELSE Content(code)
    BY DEF ReadHeader
  <2> HIDE DEF wrong, code, bytes, k, f
  <2>3. CASE MaskedRight(f)
    BY <1>11, <1>12, <2>1, <2>3
  <2>4. CASE ~MaskedRight(f)
    BY <1>11, <1>12, <2>1, <2>4
  <2> QED
    BY <2>3, <2>4
<1> HIDE DEF bytes, wrong, code
<1>14. CASE ~MaskedRight(f)
  <2>1. Tell(NotMasked) /\ at' = "done"
    BY <1>13, <1>14 DEF EndWith
  <2>2. Says(fragmented, f) = NotMasked
    BY <1>14, IInvParts DEF Says, MaskedRight
  <2>3. NotMasked.kind \in Finals /\ NotMasked # Nothing
    BY Kind DEF Finals
  <2>4. Len(heard) < Len(due) /\ due[Len(heard) + 1] = NotMasked
    BY <1>2, <1>4, <2>2, <2>3, Current
  <2>5. [M!Next]_M!vars
    BY <1>1, <2>1, <2>3, <2>4, Hears
  <2> QED
    BY <2>1, <2>5 DEF Sync
<1>15. CASE MaskedRight(f) /\ k = Len(f.payload) /\ k < ShortLen /\ Tail(Field(f)) = <<>>
  <2>1. Content(Len(f.payload))
    BY <1>13, <1>15, WidthsAssumption
  <2>2. Pending' = Body(f) \o s
    <3>1. Body(f) \o s \in Seq(Bytes)
      BY <1>5, Laid
    <3> DEFINE z == Body(f) \o s
    <3>2. z \in Seq(Bytes)
      BY <3>1
    <3>3. y = <<>> \o z
      BY <1>15 DEF y
    <3> HIDE DEF z
    <3>4. <<>> \o z = z
      BY <3>2, ConcatEmptySeq
    <3> QED
      BY <1>10, <3>3, <3>4 DEF z
  <2>3. MaskedRight(f) /\ op' = f.op
    BY <1>13, <1>15
  <2> QED
    BY <1>1, <1>2, <1>4, <2>1, <2>2, <2>3, ContentSync
<1>16. CASE MaskedRight(f) /\ \/ k = ShortLen /\ LengthIs(f, NarrowBytes)
                              \/ k = ShortLen + 1 /\ LengthIs(f, WideBytes)
  <2>1. /\ op' = f.op /\ heard' = heard
        /\ \/ at' = "narrow" /\ LengthIs(f, NarrowBytes)
           \/ at' = "wide" /\ LengthIs(f, WideBytes)
    BY <1>13, <1>16, WidthsAssumption
  <2>2. Chain(r, fs, rest, bg, m)'
    BY <1>1, <1>2, ChainStays
  <2>3. Caught(r, bg, m)'
    BY <1>1, <1>2, <2>1 DEF Caught, Final
  <2>4. Place(r, fs, rest)'
    <3>1. MaskedRight(f)'
      BY <1>1, <1>16, SameDirection
    <3>2. LengthIs(f, NarrowBytes)' = LengthIs(f, NarrowBytes)
          /\ LengthIs(f, WideBytes)' = LengthIs(f, WideBytes)
      OBVIOUS
    <3>3. r < count'
      BY <1>1, <1>4
    <3> HIDE DEF f, s
    <3> QED
      BY <1>10, <2>1, <3>1, <3>2, <3>3 DEF Place, f, s, y
  <2>5. [M!Next]_M!vars
    BY <1>1, <2>1, Quiet
  <2> QED
    BY <2>1, <2>2, <2>3, <2>4, <2>5 DEF Sync
<1> QED
  BY <1>5, <1>14, <1>15, <1>16, FieldForms

LEMMA ReadLengthSync ==
  ASSUME IInv, Sync, NEW width \in Nat, ReadLength(width),
         \/ at = "narrow" /\ width = NarrowBytes
         \/ at = "wide" /\ width = WideBytes
  PROVE  Sync' /\ [M!Next]_M!vars
<1>1. /\ at # "done" /\ Readable(width) /\ Consumed(width)
      /\ buffer' = Drop(Read(width), width)
      /\ Content(Value(SubSeq(Read(width), 1, width)))
      /\ UNCHANGED <<toServer, due, begun, count, op, fragmented>>
  BY DEF ReadLength, peer
<1>2. PICK r, fs, rest, bg, m :
        Chain(r, fs, rest, bg, m) /\ Caught(r, bg, m) /\ Place(r, fs, rest)
  BY <1>1 DEF Sync
<1> DEFINE f == fs[r + 1]
           s == rest[r + 1]
           t == Tail(Field(f))
           y == Body(f) \o s
<1>3. /\ r < count /\ op = f.op /\ MaskedRight(f)
      /\ Len(t) = width /\ Value(t) = Len(f.payload) /\ Pending = t \o y
  BY <1>2 DEF Place, LengthIs
<1>4. f \in AnyFrame /\ s \in Seq(Bytes)
  BY <1>2, <1>3, Current
<1>5. t \in Seq(Bytes) /\ y \in Seq(Bytes)
  <2>1. t \in Seq(Bytes)
    BY <1>4, Shape
  <2>2. y \in Seq(Bytes)
    BY <1>4, Laid
  <2> QED
    BY <2>1, <2>2
<1>6. SubSeq(Read(width), 1, width) = t /\ Drop(Read(width), width) \o incoming' = y
  <2> HIDE DEF t, y, f
  <2> QED
    BY <1>1, <1>3, <1>5, Unread
<1>7. Pending' = y
  BY <1>1, <1>6 DEF Pending
<1>8. Content(Len(f.payload))
  BY <1>1, <1>3, <1>6
<1>9. op' = f.op
  BY <1>1, <1>3
<1> QED
  BY <1>1, <1>2, <1>3, <1>7, <1>8, <1>9, ContentSync

(* What the handler does with a frame is what the peer owes for it. *)
LEMMA DispatchSays ==
  ASSUME IInv, fragmented \in Begun, NEW f \in Sendable(fragmented), MaskedRight(f),
         op = f.op, length = Len(f.payload), fragmented.size + length <= MaxMessage,
         Dispatch(f.payload)
  PROVE  /\ fragmented' = After(fragmented, f)
         /\ IF Says(fragmented, f) = Nothing
              THEN heard' = heard /\ at' = "header"
              ELSE /\ Tell(Says(fragmented, f))
                   /\ at' = IF Says(fragmented, f).kind \in Finals THEN "done" ELSE "header"
<1> DEFINE b == fragmented
           says == Says(b, f)
           close == Arrival("close", f.op, f.payload)
           answer == Arrival("answer", Pong, f.payload)
           pong == Arrival("pong", f.op, <<>>)
<1>0. f \in AnyFrame /\ f.payload \in Seq(Bytes) /\ length \in Nat
  BY SendableFrames, Shape, IInvParts
<1>1. ~((f.mask = <<>>) = toServer) /\ ~(b.size + Len(f.payload) > MaxMessage)
  BY <1>0, InputsAssumption DEF Begun, Arrivals, MaskedRight
<1>2. /\ f.op = Close => says = close
      /\ f.op = Ping => says = answer
      /\ f.op = Pong => says = pong
      /\ f.op \in {FirstFragment, Fragment} => says = Nothing
      /\ f.op \in {Text, LastFragment} => says = Whole(b, f)
  <2> HIDE DEF b, close, answer, pong
  <2> QED
    BY <1>1 DEF Says, Close, Ping, Pong, FirstFragment, Fragment, Text, LastFragment, close, answer, pong
<1> DEFINE o == f.op
<1>3. /\ o = Close => Opcode(o) = 8
      /\ o = Ping => Opcode(o) = 9 /\ o + 1 = Pong
      /\ o = Pong => Opcode(o) = 10
      /\ o = Text => Opcode(o) = 1 /\ Fin(o)
      /\ o = FirstFragment => Opcode(o) = 1 /\ ~Fin(o)
      /\ o = Fragment => Opcode(o) = 0 /\ ~Fin(o)
      /\ o = LastFragment => Opcode(o) = 0 /\ Fin(o)
      /\ Opcode(Close) = 8 /\ Opcode(Ping) = 9 /\ Opcode(Pong) = 10
      /\ {Opcode(c) : c \in {Close, Ping, Pong}} = {8, 9, 10}
  <2>1. Opcode(Close) = 8 /\ Opcode(Ping) = 9 /\ Opcode(Pong) = 10 /\ Ping + 1 = Pong
    BY DEF Opcode, Close, Ping, Pong
  <2>2. Opcode(Text) = 1 /\ Opcode(FirstFragment) = 1 /\ Opcode(Fragment) = 0
        /\ Opcode(LastFragment) = 0
    BY DEF Opcode, Text, FirstFragment, Fragment, LastFragment
  <2>3. Fin(Text) /\ ~Fin(FirstFragment) /\ ~Fin(Fragment) /\ Fin(LastFragment)
    BY DEF Fin, Text, FirstFragment, Fragment, LastFragment
  <2>4. {Opcode(c) : c \in {Close, Ping, Pong}} = {8, 9, 10}
    BY <2>1
  <2> QED
    BY <2>1, <2>2, <2>3, <2>4
<1> DEFINE closed == [kind |-> "close", op |-> op, size |-> length, payload |-> f.payload]
           answered == [kind |-> "answer", op |-> op + 1, size |-> length,
                        payload |-> f.payload]
           message == Message(f.payload)
<1>4. /\ o = Close => EndWith(closed) /\ UNCHANGED fragmented
      /\ o = Ping => Tell(answered) /\ at' = "header" /\ UNCHANGED fragmented
      /\ o = Pong => Tell(Arrival("pong", op, <<>>)) /\ at' = "header" /\ UNCHANGED fragmented
      /\ o \in {FirstFragment, Fragment} =>
           fragmented' = message /\ at' = "header" /\ UNCHANGED heard
      /\ o \in {Text, LastFragment} =>
           Tell(message) /\ at' = "header" /\ fragmented' = Nothing
  <2> HIDE DEF o, closed, answered, message
  <2>1. o = op
    BY DEF o
  <2> QED
    BY <1>3, <2>1 DEF Dispatch, closed, answered, message
<1>5. closed = close
  BY DEF Arrival
<1>6. o = Ping => answered = answer
  BY <1>3 DEF Arrival
<1>7. o \in {Text, FirstFragment, Fragment, LastFragment} => message = Whole(b, f)
  <2>1. o \in {Text, FirstFragment} => b = Nothing
    <3>1. CASE b # Nothing
      <4>1. \/ f.op \in {Fragment, LastFragment, Close, Ping, Pong}
            \/ f.op = Text /\ f.mask \in IF toServer THEN {<<>>} ELSE Masks
        BY <3>1 DEF Sendable
      <4>2. <<>> \notin Masks
        <5>1. MaskBytes \in Nat \ {0}
          BY WidthsAssumption
        <5>2. \A x \in [1..MaskBytes -> {0, 1}] : x # <<>>
          <6>1. 1 \in 1..MaskBytes /\ DOMAIN <<>> = {}
            BY <5>1
          <6> QED
            BY <6>1
        <5> QED
          BY <5>2, InputsAssumption
      <4>3. ~(f.mask \in IF toServer THEN {<<>>} ELSE Masks)
        <5>1. CASE toServer
          BY <1>1, <5>1
        <5>2. CASE ~toServer
          BY <1>1, <4>2, <5>2, IInvParts
        <5> QED
          BY <5>1, <5>2
      <4> QED
        BY <4>1, <4>3 DEF Text, FirstFragment, Fragment, LastFragment, Close, Ping, Pong
    <3> QED
      BY <3>1
  <2>2. o \in {Fragment, LastFragment} => b # Nothing
    BY DEF Sendable, Text, FirstFragment, Fragment, LastFragment, Close, Ping, Pong
  <2>3. CASE o \in {Text, FirstFragment}
    BY <2>1, <2>3 DEF Message, Whole, Arrival
  <2>4. CASE o \in {Fragment, LastFragment}
    <3>1. fragmented # Nothing /\ Opcode(op) = 0
      BY <1>3, <2>2, <2>4
    <3>2. message = [fragmented EXCEPT !.size = @ + length, !.payload = @ \o f.payload]
      BY <3>1 DEF Message
    <3> DEFINE whole == b.payload \o f.payload
    <3>3. b.payload \in Seq(Bytes) /\ b.size = Len(b.payload)
      BY DEF Begun, Arrivals
    <3>4. Len(whole) = b.size + length
      BY <1>0, <3>3, ConcatProperties
    <3>5. b \in Arrivals /\ b.kind = "message"
      BY <3>1 DEF Begun
    <3> HIDE DEF whole
    <3>6. message = [kind |-> b.kind, op |-> b.op, size |-> b.size + length, payload |-> whole]
      BY <3>2, <3>5 DEF Arrivals, whole
    <3>7. Whole(b, f) = Arrival("message", b.op, whole)
      BY <3>1 DEF Whole, whole
    <3> QED
      BY <3>4, <3>5, <3>6, <3>7 DEF Arrival
  <2> QED
    BY <2>3, <2>4
<1>8. close.kind = "close" /\ answer.kind = "answer" /\ pong.kind = "pong"
      /\ Nothing.kind = "none" /\ Whole(b, f).kind = "message"
  BY <1>0, Kind, WholeOK DEF Arrival
<1>9. Arrival("pong", op, <<>>) = pong
  OBVIOUS
<1> HIDE DEF close, answer, pong, closed, answered, message
<1>10. CASE o = Close
  BY <1>2, <1>4, <1>5, <1>8, <1>10 DEF After, EndWith, Finals
<1>11. CASE o = Ping
  BY <1>2, <1>4, <1>6, <1>8, <1>11 DEF After, Finals
<1>12. CASE o = Pong
  BY <1>2, <1>4, <1>9, <1>8, <1>12 DEF After, Finals
<1>13. CASE o \in {FirstFragment, Fragment}
  BY <1>2, <1>4, <1>7, <1>8, <1>13 DEF After
<1>14. CASE o \in {Text, LastFragment}
  BY <1>2, <1>4, <1>7, <1>8, <1>14 DEF After, Finals
<1>15. o \in {Text, FirstFragment, Fragment, LastFragment, Close, Ping, Pong}
  BY <1>0 DEF AnyFrame
<1> QED
  BY <1>10, <1>11, <1>12, <1>13, <1>14, <1>15

(* The next frame has been read. *)
LEMMA NextSync ==
  ASSUME IInv, at = "content", NEW r, NEW fs, NEW rest, NEW bg, NEW m,
         Chain(r, fs, rest, bg, m), Caught(r, bg, m), r < count,
         UNCHANGED <<toServer, due, begun, count>>
  PROVE  /\ fragmented' = After(fragmented, fs[r + 1])
         /\ IF Says(fragmented, fs[r + 1]) = Nothing
              THEN heard' = heard /\ at' = "header"
              ELSE /\ Tell(Says(fragmented, fs[r + 1]))
                   /\ at' = IF Says(fragmented, fs[r + 1]).kind \in Finals
                              THEN "done" ELSE "header"
         /\ Pending' = rest[r + 1]
         => Sync' /\ [M!Next]_M!vars
<1> DEFINE f == fs[r + 1]
           says == Says(fragmented, f)
<1>1. /\ says # Nothing => Len(heard) < Len(due) /\ due[Len(heard) + 1] = says
      /\ bg[r + 1] = After(fragmented, f)
  BY Current
<1>2. Chain(r + 1, fs, rest, bg, m)'
  <2>1. Chain(r + 1, fs, rest, bg, m)
    BY ChainNext
  <2> QED
    BY <2>1, ChainStays
<1>3. m[r + 1] = IF says = Nothing THEN Len(heard) ELSE Len(heard) + 1
  <2>1. Link(fragmented, Len(heard), f, bg[r + 1], m[r + 1])
    BY CurrentLink
  <2> QED
    BY <2>1 DEF Link, Owed, Caught
<1> HIDE DEF f
<1> SUFFICES ASSUME /\ fragmented' = After(fragmented, f)
                    /\ IF says = Nothing
                         THEN heard' = heard /\ at' = "header"
                         ELSE /\ Tell(says)
                              /\ at' = IF says.kind \in Finals THEN "done" ELSE "header",
                    NEW p, p = rest[r + 1], Pending' = p
             PROVE  Sync' /\ [M!Next]_M!vars
  BY DEF f
<1>4. /\ fragmented' = bg[r + 1]
      /\ IF says = Nothing
           THEN heard' = heard /\ at' = "header"
           ELSE /\ Tell(says)
                /\ at' = IF says.kind \in Finals THEN "done" ELSE "header"
  BY <1>1
<1> HIDE DEF says
<1>5. Len(heard) \in Nat /\ heard \in Seq(Arrivals) /\ ~Final(Len(heard))
  BY IInvParts, Elements DEF HeardOK, Caught
<1>6. at' = "header" => Place(r + 1, fs, rest)'
  BY DEF Place
<1>7. CASE says = Nothing
  <2>1. heard' = heard /\ at' = "header"
    BY <1>4, <1>7
  <2>2. Caught(r + 1, bg, m)'
    BY <1>1, <1>4, <1>5, <1>7, <1>3, <2>1 DEF Caught, Final
  <2>3. [M!Next]_M!vars
    BY <2>1, Quiet
  <2> QED
    BY <1>2, <1>6, <2>1, <2>2, <2>3 DEF Sync
<1>8. CASE says # Nothing
  <2>1. Tell(says) /\ (at' = "done" <=> says.kind \in Finals)
    BY <1>4, <1>8
  <2>2. [M!Next]_M!vars
    BY <1>1, <1>8, <2>1, Hears
  <2>3. CASE says.kind \in Finals
    BY <2>1, <2>2, <2>3 DEF Sync
  <2>4. CASE says.kind \notin Finals
    <3>1. at' = "header"
      BY <1>4, <1>8, <2>4
    <3>2. heard' = Append(heard, says)
      BY <2>1 DEF Tell
    <3>3. Len(heard') = Len(heard) + 1
      BY <1>5, <3>2
    <3>4. due'[Len(heard) + 1].kind \notin Finals
      BY <1>1, <1>8, <2>4
    <3>5. Caught(r + 1, bg, m)'
      BY <1>1, <1>4, <1>8, <1>3, <3>3, <3>4 DEF Caught, Final
    <3> QED
      BY <1>2, <1>6, <2>2, <3>1, <3>5 DEF Sync
  <2> QED
    BY <2>3, <2>4
<1> QED
  BY <1>7, <1>8

LEMMA DispatchSync ==
  ASSUME IInv, at = "content", NEW r, NEW fs, NEW rest, NEW bg, NEW m,
         Chain(r, fs, rest, bg, m), Caught(r, bg, m), r < count,
         MaskedRight(fs[r + 1]), op = fs[r + 1].op, length = Len(fs[r + 1].payload),
         fragmented.size + length <= MaxMessage, Dispatch(fs[r + 1].payload),
         UNCHANGED <<toServer, due, begun, count>>,
         NEW p, p = rest[r + 1], Pending' = p
  PROVE  Sync' /\ [M!Next]_M!vars
<1> DEFINE f == fs[r + 1]
<1>1. f \in Sendable(fragmented) /\ fragmented \in Begun
  BY Current
<1>2. MaskedRight(f) /\ op = f.op /\ length = Len(f.payload) /\ Dispatch(f.payload)
  OBVIOUS
<1> HIDE DEF f
<1>3. /\ fragmented' = After(fragmented, f)
      /\ IF Says(fragmented, f) = Nothing
           THEN heard' = heard /\ at' = "header"
           ELSE /\ Tell(Says(fragmented, f))
                /\ at' = IF Says(fragmented, f).kind \in Finals THEN "done" ELSE "header"
  BY <1>1, <1>2, DispatchSays
<1> QED
  BY <1>3, NextSync DEF f

LEMMA ReadContentSync ==
  ASSUME IInv, Sync, ReadContent
  PROVE  Sync' /\ [M!Next]_M!vars
<1> DEFINE bytes == Read(length)
           payload == IF Left(length) > 0 THEN SubSeq(bytes, 1, length) ELSE bytes
<1>1. /\ at = "content" /\ ~toServer /\ Readable(length) /\ Consumed(length)
      /\ Dispatch(payload)
      /\ \/ Left(length) > 0 /\ buffer' = Drop(bytes, length)
         \/ ~(Left(length) > 0) /\ buffer' = <<>>
      /\ UNCHANGED <<toServer, due, begun, count>>
  BY DEF ReadContent, peer
<1>2. PICK r, fs, rest, bg, m :
        Chain(r, fs, rest, bg, m) /\ Caught(r, bg, m) /\ Place(r, fs, rest)
  BY <1>1 DEF Sync
<1> DEFINE f == fs[r + 1]
           s == rest[r + 1]
<1>3. /\ r < count /\ op = f.op /\ MaskedRight(f) /\ length = Len(f.payload)
      /\ fragmented.size + length <= MaxMessage /\ Pending = Body(f) \o s
  BY <1>1, <1>2 DEF Place
<1>4. f \in AnyFrame /\ s \in Seq(Bytes)
  BY <1>2, <1>3, Current
<1>5. Body(f) = f.payload /\ f.payload \in Seq(Bytes) /\ length \in Nat
  <2>1. f.mask = <<>>
    BY <1>1, <1>3, IInvParts DEF MaskedRight
  <2> QED
    BY <1>4, <2>1, Shape, IInvParts DEF Body
<1>6. SubSeq(bytes, 1, length) = f.payload /\ Drop(bytes, length) \o incoming' = s
  <2>1. Pending = f.payload \o s /\ Len(f.payload) = length
    BY <1>3, <1>5
  <2> HIDE DEF f, s
  <2> QED
    BY <1>1, <1>4, <1>5, <2>1, Unread
<1>7. /\ bytes \in Seq(Bytes) /\ Len(bytes) = length + Left(length) /\ Left(length) \in Nat
      /\ Drop(bytes, length) \in Seq(Bytes) /\ Len(Drop(bytes, length)) = Left(length)
  BY <1>1, <1>5, ReadGives
<1>8. ~(Left(length) > 0) => bytes = f.payload /\ Drop(bytes, length) = <<>>
  <2>1. SUFFICES ASSUME ~(Left(length) > 0)
                 PROVE  bytes = f.payload /\ Drop(bytes, length) = <<>>
    OBVIOUS
  <2>2. Left(length) = 0 /\ Len(bytes) = length
    BY <1>5, <1>7, <2>1
  <2> HIDE DEF bytes
  <2>3. SubSeq(bytes, 1, Len(bytes)) = bytes
    BY <1>7, SubSeqFull
  <2>4. Drop(bytes, length) = <<>>
    BY <1>7, <2>2, EmptySeq
  <2> QED
    BY <1>6, <2>2, <2>3, <2>4
<1>9. Dispatch(f.payload)
  <2>1. payload = f.payload
    BY <1>6, <1>8
  <2> QED
    BY <1>1, <2>1
<1>10. Pending' = s
  <2>1. buffer' = Drop(bytes, length)
    BY <1>1, <1>8
  <2> QED
    BY <1>6, <2>1 DEF Pending
<1> QED
  BY <1>1, <1>2, <1>3, <1>9, <1>10, DispatchSync

LEMMA ReadMaskedSync ==
  ASSUME IInv, Sync, ReadMaskedContent
  PROVE  Sync' /\ [M!Next]_M!vars
<1> DEFINE n == MaskBytes + length
           bytes == Read(n)
           content == SubSeq(bytes, MaskBytes + 1, n)
           mask == SubSeq(bytes, 1, MaskBytes)
<1>1. /\ at = "content" /\ toServer /\ Readable(n) /\ Consumed(n)
      /\ Dispatch(Masked(content, mask)) /\ buffer' = Drop(bytes, n)
      /\ UNCHANGED <<toServer, due, begun, count>>
  BY DEF ReadMaskedContent, peer
<1>2. PICK r, fs, rest, bg, m :
        Chain(r, fs, rest, bg, m) /\ Caught(r, bg, m) /\ Place(r, fs, rest)
  BY <1>1 DEF Sync
<1> DEFINE f == fs[r + 1]
           s == rest[r + 1]
           masked == Masked(f.payload, f.mask)
<1>3. /\ r < count /\ op = f.op /\ MaskedRight(f) /\ length = Len(f.payload)
      /\ fragmented.size + length <= MaxMessage /\ Pending = Body(f) \o s
  BY <1>1, <1>2 DEF Place
<1>4. f \in AnyFrame /\ s \in Seq(Bytes)
  BY <1>2, <1>3, Current
<1>5. f.mask # <<>>
  BY <1>1, <1>3, IInvParts DEF MaskedRight
<1>6. /\ f.mask \in [1..MaskBytes -> {0, 1}] /\ f.mask \in Seq(Bytes)
      /\ f.payload \in Seq({0, 1}) /\ f.payload \in Seq(Bytes)
      /\ MaskBytes \in Nat \ {0} /\ length \in Nat /\ n \in Nat
  <2>1. MaskBytes \in Nat \ {0} /\ length \in Nat
    BY WidthsAssumption, IInvParts
  <2>2. f.mask \in [1..MaskBytes -> {0, 1}] /\ f.mask \in Seq(Bytes)
    BY <1>4, <1>5, Shape
  <2>3. f.payload \in Seq({0, 1}) /\ f.payload \in Seq(Bytes)
    BY <1>4, Shape
  <2> QED
    BY <2>1, <2>2, <2>3
<1>7. Len(f.mask) = MaskBytes
  BY <1>6
<1>8. masked \in Seq(Bytes) /\ Len(masked) = length
  <2>1. \A i \in 1..MaskBytes : f.mask[i] \in Bytes
    <3>1. \A i \in 1..MaskBytes : f.mask[i] \in {0, 1}
      BY <1>6
    <3> QED
      BY <3>1 DEF Bytes
  <2> QED
    BY <1>3, <1>6, <2>1, MaskedIsBytes
<1>9. f.mask \o masked \in Seq(Bytes) /\ Len(f.mask \o masked) = n
  BY <1>6, <1>7, <1>8, ConcatProperties
<1>10. SubSeq(bytes, 1, n) = f.mask \o masked /\ Drop(bytes, n) \o incoming' = s
  <2> DEFINE x == f.mask \o masked
  <2>1. Pending = x \o s
    BY <1>3, <1>5 DEF Body
  <2>2. x \in Seq(Bytes) /\ Len(x) = n
    BY <1>9
  <2> HIDE DEF x, s, n
  <2>3. SubSeq(bytes, 1, n) = x /\ Drop(bytes, n) \o incoming' = s
    BY <1>1, <1>4, <1>6, <2>1, <2>2, Unread
  <2> QED
    BY <2>3 DEF x
<1>11. mask = f.mask /\ content = masked
  <2> DEFINE x == f.mask \o masked
             fmask == f.mask
  <2>1. bytes \in Seq(Bytes) /\ n <= Len(bytes) /\ Len(bytes) \in Nat
    <3>1. bytes \in Seq(Bytes) /\ Len(bytes) = n + Left(n) /\ Left(n) \in Nat
      BY <1>1, <1>6, ReadGives
    <3> HIDE DEF bytes
    <3> QED
      BY <1>6, <3>1
  <2>2. SubSeq(bytes, 1, n) = x
    BY <1>10
  <2>3. \A i \in 1..(Len(fmask) + Len(masked)) :
          x[i] = IF i <= Len(fmask) THEN fmask[i] ELSE masked[i - Len(fmask)]
    BY <1>6, <1>8, ConcatProperties
  <2> HIDE DEF bytes, x
  <2>4. \A i \in 1..n : SubSeq(bytes, 1, n)[i] = bytes[1 + i - 1]
    <3>1. \A i \in 1..(n - 1 + 1) : SubSeq(bytes, 1, n)[i] = bytes[1 + i - 1]
      BY <1>6, <2>1, Part
    <3> QED
      BY <1>6, <3>1
  <2>5. /\ mask \in Seq(Bytes) /\ Len(mask) = MaskBytes
        /\ \A i \in 1..MaskBytes : mask[i] = bytes[i]
    <3>1. MaskBytes <= Len(bytes) /\ 1 <= MaskBytes /\ MaskBytes - 1 + 1 = MaskBytes
      BY <1>6, <2>1
    <3>2. /\ mask \in Seq(Bytes) /\ Len(mask) = MaskBytes
          /\ \A i \in 1..MaskBytes : mask[i] = bytes[1 + i - 1]
      BY <1>6, <2>1, <3>1, Part
    <3>3. \A i \in 1..MaskBytes : 1 + i - 1 = i
      BY <1>6
    <3> HIDE DEF mask
    <3> QED
      BY <3>2, <3>3
  <2>6. /\ content \in Seq(Bytes) /\ Len(content) = length
        /\ \A i \in 1..length : content[i] = bytes[MaskBytes + i]
    <3> DEFINE k == MaskBytes + 1
               part == SubSeq(bytes, k, n)
    <3>1. k \in Nat \ {0} /\ n \in Nat /\ n <= Len(bytes)
      BY <1>6, <2>1
    <3>2. n - k + 1 = length /\ (k <= n <=> length > 0)
          /\ \A i \in 1..length : k + i - 1 = MaskBytes + i
      BY <1>6
    <3>3. content = part
      OBVIOUS
    <3> HIDE DEF k, n, content
    <3>4. /\ part \in Seq(Bytes) /\ Len(part) = IF k <= n THEN n - k + 1 ELSE 0
          /\ \A i \in 1..(n - k + 1) : part[i] = bytes[k + i - 1]
      BY <2>1, <3>1, Part
    <3> HIDE DEF part
    <3>5. Len(part) = length
      BY <1>6, <3>2, <3>4
    <3>6. \A i \in 1..length : part[i] = bytes[MaskBytes + i]
      BY <3>2, <3>4
    <3> QED
      BY <3>3, <3>4, <3>5, <3>6
  <2> HIDE DEF mask, content, masked, fmask
  <2>7. \A i \in 1..n : bytes[i] = x[i]
    BY <1>6, <2>2, <2>4
  <2>8. fmask \in Seq(Bytes) /\ Len(fmask) = MaskBytes
    BY <1>6, <1>7 DEF fmask
  <2>9. \A i \in 1..MaskBytes : mask[i] = fmask[i]
    BY <1>6, <1>8, <2>3, <2>5, <2>7, <2>8
  <2>10. \A i \in 1..length : content[i] = masked[i]
    <3>1. SUFFICES ASSUME NEW i \in 1..length PROVE content[i] = masked[i]
      OBVIOUS
    <3>2. MaskBytes + i \in 1..n /\ ~(MaskBytes + i <= MaskBytes)
          /\ (MaskBytes + i) - MaskBytes = i /\ n = Len(fmask) + Len(masked)
      BY <1>6, <1>8, <2>8
    <3>3. content[i] = x[MaskBytes + i]
      BY <2>6, <2>7, <3>2
    <3> QED
      BY <2>3, <2>8, <3>2, <3>3
  <2>11. mask = fmask /\ content = masked
    BY <1>8, <2>5, <2>6, <2>8, <2>9, <2>10, SeqEqual
  <2> QED
    BY <2>11 DEF fmask
<1>12. Masked(content, mask) = f.payload
  BY <1>6, <1>11, MaskIsUndone
<1>13. Dispatch(f.payload)
  BY <1>1, <1>12
<1>14. Pending' = s
  BY <1>1, <1>10 DEF Pending
<1> QED
  BY <1>1, <1>2, <1>3, <1>13, <1>14, DispatchSync

-----------------------------------------------------------------------------
(* Every step is one of MessageStream's. *)

LEMMA SendStream ==
  ASSUME IInv, SendFrame
  PROVE  [M!Next]_M!vars
<1>1. PICK f \in Sendable(begun) : Owe(f)
  BY DEF SendFrame
<1>2. heard' = heard /\ at' = at
  BY DEF SendFrame
<1>3. due' = due \/ due' = Append(due, Says(begun, f))
  BY <1>1 DEF Owe
<1>4. CASE due' = due
  BY <1>2, <1>4 DEF M!vars
<1>5. CASE due' = Append(due, Says(begun, f))
  <2>1. due \in Seq(Arrivals) /\ Says(begun, f) \in Arrivals
    BY SaysTypes, SendableFrames, IInvParts
  <2>2. /\ Len(due') = Len(due) + 1 /\ due' \in Seq(Arrivals)
        /\ \A i \in 1..Len(due) : due'[i] = due[i]
    BY <1>5, <2>1, AppendProperties
  <2>3. Len(due) \in Nat /\ Len(due) <= Len(due')
    BY <2>1, <2>2, Elements
  <2>4. SubSeq(due', 1, Len(due)) = due
    <3> DEFINE k == Len(due)
               part == SubSeq(due', 1, k)
    <3>1. k \in Nat /\ k <= Len(due') /\ k - 1 + 1 = k
      BY <2>3
    <3> HIDE DEF k
    <3>2. /\ part \in Seq(Arrivals) /\ Len(part) = IF 1 <= k THEN k - 1 + 1 ELSE 0
          /\ \A i \in 1..(k - 1 + 1) : part[i] = due'[1 + i - 1]
      BY <2>2, <3>1, Part
    <3> HIDE DEF part
    <3>3. Len(part) = k
      BY <3>1, <3>2
    <3>4. \A i \in 1..k : part[i] = due[i]
      <4>1. SUFFICES ASSUME NEW i \in 1..k PROVE part[i] = due[i]
        OBVIOUS
      <4>2. i \in 1..(k - 1 + 1) /\ 1 + i - 1 = i
        BY <3>1
      <4>3. due'[i] = due[i]
        BY <2>2 DEF k
      <4> QED
        BY <3>2, <4>2, <4>3
    <3>5. Len(due) = k
      BY DEF k
    <3>6. part = due
      BY <2>1, <3>2, <3>3, <3>4, <3>5, SeqEqual
    <3> QED
      BY <3>6 DEF part, k
  <2> QED
    BY <1>2, <2>2, <2>4 DEF M!Next, M!Send
<1> QED
  BY <1>3, <1>4, <1>5

LEMMA FailsStream ==
  ASSUME ReadFails
  PROVE  Sync' /\ [M!Next]_M!vars
<1>1. /\ at # "done" /\ at' = "done" /\ due' = due
      /\ heard' \in {heard, Append(heard, Error)}
  BY DEF ReadFails, peer
<1>2. Sync'
  BY <1>1 DEF Sync
<1>3. [M!Next]_M!vars
  BY <1>1 DEF M!Next, M!Break
<1> QED
  BY <1>2, <1>3

LEMMA StutterStream ==
  ASSUME Sync, UNCHANGED vars
  PROVE  Sync' /\ [M!Next]_M!vars
<1>1. UNCHANGED <<toServer, due, begun, count, incoming, at, buffer, extra, op, length,
                  fragmented, heard>>
  BY DEF vars, peer
<1>2. CASE at = "done"
  BY <1>1, <1>2 DEF Sync, M!vars
<1>3. CASE at # "done"
  <2>1. PICK r, fs, rest, bg, m :
          Chain(r, fs, rest, bg, m) /\ Caught(r, bg, m) /\ Place(r, fs, rest)
    BY <1>3 DEF Sync
  <2>2. Chain(r, fs, rest, bg, m)'
    BY <1>1, <2>1, ChainStays
  <2>3. Caught(r, bg, m)'
    BY <1>1, <2>1 DEF Caught, Final
  <2>4. Place(r, fs, rest)'
    <3>1. Pending' = Pending
      BY <1>1 DEF Pending
    <3>2. MaskedRight(fs[r + 1])' = MaskedRight(fs[r + 1])
      BY <1>1, SameDirection
    <3>3. LengthIs(fs[r + 1], NarrowBytes)' = LengthIs(fs[r + 1], NarrowBytes)
          /\ LengthIs(fs[r + 1], WideBytes)' = LengthIs(fs[r + 1], WideBytes)
      OBVIOUS
    <3> QED
      BY <1>1, <2>1, <3>1, <3>2, <3>3 DEF Place
  <2>5. at' = "upgrade" => buffer' = <<>>
    BY <1>1 DEF Sync
  <2> QED
    BY <1>1, <2>2, <2>3, <2>4, <2>5 DEF Sync, M!vars
<1> QED
  BY <1>2, <1>3

(* Whatever the peer sends, in frames of any size and fragments of any     *)
(* number, with control frames between them, and wherever the reads cut    *)
(* the bytes, the application hears of it as MessageStream says: of each   *)
(* message once, whole and in order, and of nothing after the last.        *)
THEOREM ImplementsStream == Spec => M!Init /\ [][M!Next]_M!vars
<1>1. Init => M!Init /\ Sync
  BY InitSync DEF Init, M!Init
<1>2. IInv /\ Sync /\ [Next]_vars => Sync' /\ [M!Next]_M!vars
  <2> SUFFICES ASSUME IInv, Sync, [Next]_vars
               PROVE  Sync' /\ [M!Next]_M!vars
    OBVIOUS
  <2>1. CASE SendFrame
    BY <2>1, SendSync, SendStream
  <2>2. CASE Upgraded
    <3>1. UNCHANGED <<due, heard>> /\ at # "done" /\ at' # "done"
      BY <2>2 DEF Upgraded, peer
    <3> QED
      BY <2>2, <3>1, UpgradedSync, Quiet
  <2>3. CASE ReadNarrow
    BY <2>3, ReadLengthSync, WidthsAssumption DEF ReadNarrow
  <2>4. CASE ReadWide
    BY <2>4, ReadLengthSync, WidthsAssumption DEF ReadWide
  <2>5. CASE UNCHANGED vars
    BY <2>5, StutterStream
  <2> QED
    BY <2>1, <2>2, <2>3, <2>4, <2>5, ReadHeaderSync, ReadContentSync, ReadMaskedSync,
       FailsStream DEF Next, Reader
<1> QED
  BY <1>1, <1>2, Invariance, PTL DEF Spec
=============================================================================
