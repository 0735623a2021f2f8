---------------------------- MODULE WireProofs ----------------------------
(***************************************************************************)
(* What is written is what is read, for every message and all widths of a  *)
(* byte: the decoders invert the encoders, and the stream falls into the   *)
(* same messages at both ends.                                             *)
(***************************************************************************)
EXTENDS Wire, TLAPS, WellFoundedInduction, SequenceTheorems

-----------------------------------------------------------------------------
(* Induction: a set of numbers that is not empty has a least one. *)

LEMMA Least ==
  ASSUME NEW T \in SUBSET Nat, T # {}
  PROVE  \E x \in T : \A y \in T : x <= y
<1> DEFINE R == {ss \in Nat \X Nat : ss[1] < ss[2]}
<1>1. OpToRel(<, Nat) = R
  BY DEF OpToRel
<1>2. IsWellFoundedOn(R, Nat)
  BY <1>1, NatLessThanWellFounded
<1>3. PICK x \in T : \A y \in T : ~(<<y, x>> \in R)
  BY <1>2, WFMin
<1>4. \A y \in T : ~(y < x)
  BY <1>3
<1> QED BY <1>4

\* What holds of 0, and of n + 1 if it holds of n, holds of every number.
LEMMA Induction ==
  ASSUME NEW P, 0 \in P, \A n \in Nat : n \in P => n + 1 \in P
  PROVE  Nat \subseteq P
<1> SUFFICES ASSUME Nat \ P # {} PROVE FALSE
  OBVIOUS
<1>1. PICK x \in Nat \ P : \A y \in Nat \ P : x <= y
  BY Least
<1>2. x # 0 /\ x - 1 \in Nat
  BY <1>1
<1>3. x - 1 \in P
  BY <1>1, <1>2
<1> QED BY <1>1, <1>2, <1>3

-----------------------------------------------------------------------------
(* Numbers. *)

LEMMA Bases == Base \in {16, 32, 64, 128, 256}
<1>1. CASE ByteBits = 4 BY <1>1 DEF Base
<1>2. CASE ByteBits = 5 BY <1>2 DEF Base
<1>3. CASE ByteBits = 6 BY <1>3 DEF Base
<1>4. CASE ByteBits = 7 BY <1>4 DEF Base
<1>5. CASE ByteBits = 8 BY <1>5 DEF Base
<1> QED BY <1>1, <1>2, <1>3, <1>4, <1>5, WireAssumption

LEMMA Bytes == /\ Base \in Nat \ {0} /\ Byte = 0 .. Base - 1
               /\ Byte \subseteq Nat
               /\ \A n \in Nat : n % Base \in Byte
BY Bases DEF Byte

LEMMA Division ==
  ASSUME NEW n \in Nat
  PROVE  n \div Base \in Nat /\ n = (n \div Base) * Base + (n % Base)
<1>1. Base \in Nat \ {0}
  BY Bytes
<1>2. n \div Base \in Nat
  BY <1>1
<1>3. n = (n \div Base) * Base + (n % Base)
  BY <1>1
<1> QED BY <1>2, <1>3

\* Shifted is the function its recursion describes.
Shifts(n, w, q) ==
  q = [k \in 0 .. w |-> IF k = 0 THEN n ELSE q[k - 1] \div Base]

LEMMA ShiftsExist ==
  ASSUME NEW n, NEW w \in Nat
  PROVE  \E q : Shifts(n, w, q)
<1> DEFINE P == {k \in Nat : \E q : Shifts(n, k, q)}
<1>1. 0 \in P
  <2>1. Shifts(n, 0, [k \in 0 .. 0 |-> n])
    BY DEF Shifts
  <2> QED BY <2>1
<1>2. ASSUME NEW k \in Nat, k \in P PROVE k + 1 \in P
  <2>1. PICK q : Shifts(n, k, q)
    BY <1>2
  <2> DEFINE r == [i \in 0 .. k + 1 |-> IF i = 0 THEN n ELSE q[i - 1] \div Base]
  <2>2. \A i \in 0 .. k : r[i] = q[i]
    BY <2>1 DEF Shifts
  <2>3. \A i \in 0 .. k + 1 : i # 0 => r[i - 1] = q[i - 1]
    BY <2>2
  <2>4. Shifts(n, k + 1, r)
    BY <2>3 DEF Shifts
  <2> QED BY <2>4
<1> HIDE DEF P
<1>3. w \in P
  BY <1>1, <1>2, Induction
<1> QED BY <1>3 DEF P

LEMMA ShiftedBytes ==
  ASSUME NEW n \in Nat, NEW w \in Nat
  PROVE  /\ Shifted(n, w)[0] = n
         /\ \A k \in 0 .. w : Shifted(n, w)[k] \in Nat
         /\ \A k \in 1 .. w :
              Shifted(n, w)[k] = Shifted(n, w)[k - 1] \div Base
<1> DEFINE q == Shifted(n, w)
<1>1. Shifts(n, w, q)
  <2>1. \E r : Shifts(n, w, r)
    BY ShiftsExist
  <2> QED BY <2>1, Zenon DEF Shifted, Shifts
<1> HIDE DEF q
<1>2. /\ q[0] = n
      /\ \A k \in 1 .. w : q[k] = q[k - 1] \div Base
  BY <1>1 DEF Shifts
<1> DEFINE P == {k \in Nat : k <= w => q[k] \in Nat}
<1>3. 0 \in P
  BY <1>2
<1>4. ASSUME NEW k \in Nat, k \in P PROVE k + 1 \in P
  BY <1>2, <1>4, Division
<1> HIDE DEF P
<1>5. Nat \subseteq P
  BY <1>3, <1>4, Induction
<1>6. \A k \in 0 .. w : q[k] \in Nat
  BY <1>5 DEF P
<1> QED BY <1>2, <1>6 DEF q

LEMMA PutType ==
  ASSUME NEW n \in Nat, NEW w \in Nat
  PROVE  Put(n, w) \in Seq(Byte) /\ Len(Put(n, w)) = w
<1>1. \A i \in 1 .. w : Shifted(n, w)[w - i] % Base \in Byte
  <2> SUFFICES ASSUME NEW i \in 1 .. w
               PROVE  Shifted(n, w)[w - i] % Base \in Byte
    OBVIOUS
  <2>1. w - i \in 0 .. w
    OBVIOUS
  <2>2. Shifted(n, w)[w - i] \in Nat
    BY <2>1, ShiftedBytes
  <2> QED BY <2>2, Bytes
<1> QED BY <1>1 DEF Put

LEMMA PutUint ==
  ASSUME NEW w \in Nat, NEW n \in Uint(w)
  PROVE  n \in Nat /\ Put(n, w) \in Seq(Byte) /\ Len(Put(n, w)) = w
BY PutType DEF Uint

\* Get's value after each byte.
Evaluates(bytes, v) ==
  v = [i \in 0 .. Len(bytes) |->
         IF i = 0 THEN 0 ELSE v[i - 1] * Base + bytes[i]]

\* The bytes of a number are read as that number.
LEMMA GetPut ==
  ASSUME NEW w \in Nat, NEW n \in Uint(w)
  PROVE  Get(Put(n, w)) = n
<1> DEFINE b == Put(n, w)
           q == Shifted(n, w)
           v == [i \in 0 .. w |-> q[w - i]]
           u == CHOOSE u : Evaluates(b, u)
<1>1. n \in Nat /\ q[w] = 0
  BY DEF Uint
<1>2. Len(b) = w /\ \A i \in 1 .. w : b[i] = q[w - i] % Base
  BY <1>1, PutType DEF Put
<1>3. /\ q[0] = n
      /\ \A k \in 1 .. w : q[k - 1] = q[k] * Base + (q[k - 1] % Base)
  <2>1. /\ q[0] = n
        /\ \A k \in 0 .. w : q[k] \in Nat
        /\ \A k \in 1 .. w : q[k] = q[k - 1] \div Base
    BY <1>1, ShiftedBytes
  <2> HIDE DEF q
  <2>2. \A k \in 1 .. w : q[k - 1] \in Nat
    BY <2>1
  <2> QED BY <2>1, <2>2, Division
<1>4. Get(b) = u[w]
  BY <1>2 DEF Get, Evaluates
<1> HIDE DEF b, q
<1>5. \A i \in 1 .. w : v[i] = v[i - 1] * Base + b[i]
  <2> SUFFICES ASSUME NEW i \in 1 .. w
               PROVE  v[i] = v[i - 1] * Base + b[i]
    OBVIOUS
  <2>1. w - i \in 0 .. w /\ w - i + 1 \in 1 .. w /\ w - (i - 1) = w - i + 1
        /\ i - 1 \in 0 .. w
    OBVIOUS
  <2>2. v[i] = q[w - i] /\ v[i - 1] = q[w - i + 1]
    BY <2>1
  <2>3. q[w - i] = q[w - i + 1] * Base + (q[w - i] % Base)
    BY <1>3, <2>1
  <2> QED BY <1>2, <2>2, <2>3
<1>6. v[0] = 0
  BY <1>1
<1>7. Evaluates(b, v)
  <2>1. \A i \in 0 .. w : v[i] = IF i = 0 THEN 0 ELSE v[i - 1] * Base + b[i]
    <3> HIDE DEF v
    <3>1. \A i \in 0 .. w : i = 0 \/ i \in 1 .. w
      OBVIOUS
    <3> QED BY <1>5, <1>6, <3>1
  <2> QED BY <1>2, <2>1 DEF Evaluates
<1>8. Evaluates(b, u)
  BY <1>7
<1> HIDE DEF u
<1>9. /\ u[0] = 0
      /\ \A i \in 1 .. w : u[i] = u[i - 1] * Base + b[i]
  BY <1>2, <1>8 DEF Evaluates
<1> DEFINE P == {i \in Nat : i <= w => u[i] = v[i]}
<1>10. 0 \in P
  BY <1>6, <1>9
<1>11. ASSUME NEW i \in Nat, i \in P PROVE i + 1 \in P
  <2>1. CASE i + 1 <= w
    <3>1. i + 1 \in 1 .. w /\ (i + 1) - 1 = i /\ i <= w
      BY <2>1
    <3>2. u[i] = v[i]
      BY <1>11, <3>1
    <3>3. u[i + 1] = u[i] * Base + b[i + 1] /\ v[i + 1] = v[i] * Base + b[i + 1]
      BY <1>5, <1>9, <3>1
    <3>4. u[i + 1] = v[i + 1]
      BY <3>2, <3>3
    <3> QED BY <3>4
  <2> QED BY <2>1
<1> HIDE DEF P
<1>12. w \in P
  BY <1>10, <1>11, Induction
<1>13. u[w] = v[w]
  BY <1>12 DEF P
<1> QED BY <1>3, <1>4, <1>13 DEF b

-----------------------------------------------------------------------------
(* Parts of sequences. *)

\* b stands in d from offset o on.
Placed(d, o, b) ==
  /\ o + Len(b) <= Len(d)
  /\ \A i \in 1 .. Len(b) : d[o + i] = b[i]

LEMMA SliceOfPlaced ==
  ASSUME NEW S, NEW d \in Seq(S), NEW b \in Seq(S), NEW o \in Nat,
         Placed(d, o, b)
  PROVE  Slice(d, o, Len(b)) = b
<1>1. o + Len(b) <= Len(d) /\ Len(b) \in Nat
  BY DEF Placed
<1>2. \A i \in o + 1 .. o + Len(b) : d[i] \in S
  BY <1>1
<1> DEFINE s == SubSeq(d, o + 1, o + Len(b))
<1>3. /\ s \in Seq(S) /\ Len(s) = Len(b)
      /\ \A i \in 1 .. Len(b) : s[i] = d[o + i]
  BY <1>1, <1>2
<1> HIDE DEF s
<1>4. \A i \in 1 .. Len(b) : s[i] = b[i]
  BY <1>3 DEF Placed
<1>5. s = b
  BY <1>3, <1>4, SeqEqual
<1> QED BY <1>5 DEF Slice, s

LEMMA PlacedWhole ==
  ASSUME NEW S, NEW d \in Seq(S)
  PROVE  Placed(d, 0, d)
BY DEF Placed

LEMMA PlacedParts ==
  ASSUME NEW S, NEW d \in Seq(S), NEW a \in Seq(S), NEW b \in Seq(S),
         NEW o \in Nat, Placed(d, o, a \o b)
  PROVE  Placed(d, o, a) /\ Placed(d, o + Len(a), b)
<1>1. Len(a \o b) = Len(a) + Len(b) /\ Len(a) \in Nat /\ Len(b) \in Nat
  OBVIOUS
<1>2. Placed(d, o, a)
  <2>1. \A i \in 1 .. Len(a) : i \in 1 .. Len(a \o b) /\ (a \o b)[i] = a[i]
    BY <1>1
  <2> QED BY <1>1, <2>1 DEF Placed
<1>3. Placed(d, o + Len(a), b)
  <2>1. (o + Len(a)) + Len(b) <= Len(d)
    BY <1>1 DEF Placed
  <2>2. ASSUME NEW i \in 1 .. Len(b) PROVE d[(o + Len(a)) + i] = b[i]
    <3>1. Len(a) + i \in 1 .. Len(a \o b)
      BY <1>1
    <3>2. (a \o b)[Len(a) + i] = b[i]
      BY <1>1
    <3>3. d[o + (Len(a) + i)] = b[i]
      BY <3>1, <3>2 DEF Placed
    <3>4. o + (Len(a) + i) = (o + Len(a)) + i
      BY <1>1
    <3> QED BY <3>3, <3>4
  <2> QED BY <2>1, <2>2 DEF Placed
<1> QED BY <1>2, <1>3

LEMMA PlacedBefore ==
  ASSUME NEW S, NEW d \in Seq(S), NEW e \in Seq(S), NEW b \in Seq(S),
         NEW o \in Nat, Placed(d, o, b)
  PROVE  Placed(d \o e, o, b)
BY DEF Placed

LEMMA PlacedAfter ==
  ASSUME NEW S, NEW d \in Seq(S), NEW b \in Seq(S)
  PROVE  Placed(d \o b, Len(d), b)
BY DEF Placed

LEMMA PlacedIn ==
  ASSUME NEW S, NEW d \in Seq(S), NEW e \in Seq(S), NEW b \in Seq(S),
         NEW o \in Nat, NEW p \in Nat, Placed(d, o, e), Placed(e, p, b)
  PROVE  Placed(d, o + p, b)
<1>1. ASSUME NEW i \in 1 .. Len(b) PROVE d[(o + p) + i] = b[i]
  <2>1. p + i \in 1 .. Len(e) /\ o + (p + i) = (o + p) + i
    BY DEF Placed
  <2>2. e[p + i] = b[i] /\ d[o + (p + i)] = e[p + i]
    BY <2>1 DEF Placed
  <2> QED BY <2>1, <2>2
<1> QED BY <1>1 DEF Placed

\* A number in a sequence of bytes.
LEMMA FieldOfPlaced ==
  ASSUME NEW d \in Seq(Byte), NEW o \in Nat, NEW w \in Nat, NEW n \in Uint(w),
         Placed(d, o, Put(n, w))
  PROVE  Field(d, o, w) = n
<1>1. Put(n, w) \in Seq(Byte) /\ Len(Put(n, w)) = w
  BY PutType DEF Uint
<1>2. Slice(d, o, w) = Put(n, w)
  BY <1>1, SliceOfPlaced
<1> QED BY <1>2, GetPut DEF Field

-----------------------------------------------------------------------------
(* Lists. *)

\* FlattenSeq's function after n of the sequences.
Flattens(seqs, n, f) ==
  f = [i \in 1 .. n |-> IF i = 1 THEN seqs[i] ELSE f[i - 1] \o seqs[i]]

LEMMA FlattensExist ==
  ASSUME NEW seqs, NEW n \in Nat
  PROVE  \E f : Flattens(seqs, n, f)
<1> DEFINE P == {k \in Nat : \E f : Flattens(seqs, k, f)}
<1>1. 0 \in P
  <2>1. Flattens(seqs, 0, [k \in 1 .. 0 |-> <<>>])
    BY DEF Flattens
  <2> QED BY <2>1
<1>2. ASSUME NEW k \in Nat, k \in P PROVE k + 1 \in P
  <2>1. PICK f : Flattens(seqs, k, f)
    BY <1>2
  <2> DEFINE g == [i \in 1 .. k + 1 |->
                     IF i = 1 THEN seqs[i] ELSE f[i - 1] \o seqs[i]]
  <2>a. /\ 1 .. k \subseteq 1 .. k + 1
        /\ \A i \in 1 .. k + 1 : i # 1 => i - 1 \in 1 .. k
    OBVIOUS
  <2>b. \A i \in 1 .. k : f[i] = IF i = 1 THEN seqs[i] ELSE f[i - 1] \o seqs[i]
    BY <2>1, Zenon DEF Flattens
  <2>2. \A i \in 1 .. k : g[i] = f[i]
    BY <2>a, <2>b, Zenon
  <2>3. \A i \in 1 .. k + 1 : i # 1 => g[i - 1] = f[i - 1]
    BY <2>a, <2>2, Zenon
  <2>4. Flattens(seqs, k + 1, g)
    BY <2>3 DEF Flattens
  <2> QED BY <2>4
<1> HIDE DEF P
<1>3. n \in P
  BY <1>1, <1>2, Induction
<1> QED BY <1>3 DEF P

\* off[i] is the offset of the i-th of the parts that d consists of.
Consists(d, parts, off) ==
  /\ off \in [1 .. Len(parts) + 1 -> Nat]
  /\ off[1] = 0 /\ off[Len(parts) + 1] = Len(d)
  /\ \A i \in 1 .. Len(parts) : /\ off[i + 1] = off[i] + Len(parts[i])
                               /\ Placed(d, off[i], parts[i])

\* A flattened sequence consists of what was flattened.
LEMMA FlattenConsists ==
  ASSUME NEW S, NEW seqs \in Seq(Seq(S))
  PROVE  /\ FlattenSeq(seqs) \in Seq(S)
         /\ \E off : Consists(FlattenSeq(seqs), seqs, off)
<1> DEFINE n == Len(seqs)
<1>1. CASE n = 0
  <2>1. seqs = <<>> /\ FlattenSeq(seqs) = <<>>
    BY <1>1 DEF FlattenSeq
  <2>2. Consists(<<>>, <<>>, [i \in 1 .. 1 |-> 0])
    BY DEF Consists
  <2>3. <<>> \in Seq(S)
    OBVIOUS
  <2> QED BY <2>1, <2>2, <2>3, Zenon
<1>2. CASE n # 0
  <2> DEFINE f == CHOOSE f : Flattens(seqs, n, f)
             off == [i \in 1 .. n + 1 |-> IF i = 1 THEN 0 ELSE Len(f[i - 1])]
  <2>1. n \in Nat \ {0} /\ n \in 1 .. n
    BY <1>2
  <2>2. Flattens(seqs, n, f)
    BY <2>1, FlattensExist
  <2>3. FlattenSeq(seqs) = f[n]
    BY <2>1, Zenon DEF FlattenSeq, Flattens
  <2> HIDE DEF f
  <2>4. /\ f[1] = seqs[1]
        /\ \A i \in 1 .. n : i # 1 => f[i] = f[i - 1] \o seqs[i]
    <3>1. 1 \in 1 .. n
      BY <2>1
    <3> QED BY <2>2, <3>1, Zenon DEF Flattens
  <2>5. \A i \in 1 .. n : seqs[i] \in Seq(S)
    OBVIOUS
  <2> HIDE DEF n
  <2> DEFINE P == {k \in Nat : k + 1 <= n => f[k + 1] \in Seq(S)}
             Q == {k \in Nat : k + 1 <= n =>
                      \A i \in 1 .. k + 1 : Placed(f[k + 1], off[i], seqs[i])}
  <2>6. 0 \in P
    BY <2>1, <2>4, <2>5
  <2>7. ASSUME NEW k \in Nat, k \in P PROVE k + 1 \in P
    <3>1. CASE (k + 1) + 1 <= n
      <4>1. k + 1 \in 1 .. n /\ (k + 1) + 1 \in 1 .. n
            /\ ((k + 1) + 1) - 1 = k + 1 /\ (k + 1) + 1 # 1
        BY <2>1, <3>1
      <4>2. f[(k + 1) + 1] = f[k + 1] \o seqs[(k + 1) + 1]
        BY <2>4, <4>1
      <4>3. f[k + 1] \in Seq(S)
        BY <2>7, <4>1
      <4>4. seqs[(k + 1) + 1] \in Seq(S)
        BY <2>5, <4>1
      <4>5. f[k + 1] \o seqs[(k + 1) + 1] \in Seq(S)
        BY <4>3, <4>4, ConcatProperties
      <4>6. f[(k + 1) + 1] \in Seq(S)
        BY <4>2, <4>5, Zenon
      <4> QED BY <4>6
    <3> QED BY <3>1
  <2>8. \A i \in 1 .. n : f[i] \in Seq(S)
    <3> HIDE DEF P
    <3>1. Nat \subseteq P
      BY <2>6, <2>7, Induction
    <3>2. \A i \in 1 .. n : i - 1 \in P /\ (i - 1) + 1 = i
      BY <2>1, <3>1
    <3> QED BY <2>1, <3>2 DEF P
  <2>9. /\ off \in [1 .. n + 1 -> Nat] /\ off[1] = 0
        /\ \A i \in 1 .. n : off[i + 1] = Len(f[i])
    BY <2>1, <2>8
  <2>10. \A i \in 1 .. n : i # 1 => off[i] = Len(f[i - 1])
    BY <2>1
  <2> HIDE DEF off
  <2>11. ASSUME NEW i \in 1 .. n
         PROVE  /\ off[i + 1] = off[i] + Len(seqs[i])
                /\ Placed(f[i], off[i], seqs[i])
    <3>1. CASE i = 1
      BY <2>1, <2>4, <2>5, <2>9, <3>1, PlacedWhole
    <3>2. CASE i # 1
      <4>1. i - 1 \in 1 .. n
        BY <2>1, <3>2
      <4>2. /\ f[i] = f[i - 1] \o seqs[i] /\ off[i] = Len(f[i - 1])
            /\ f[i - 1] \in Seq(S) /\ seqs[i] \in Seq(S)
        BY <2>4, <2>5, <2>8, <2>10, <3>2, <4>1
      <4>3. off[i + 1] = Len(f[i])
        BY <2>9
      <4>4. Len(f[i]) = Len(f[i - 1]) + Len(seqs[i])
        BY <4>2
      <4> QED BY <4>2, <4>3, <4>4, PlacedAfter
    <3> QED BY <3>1, <3>2
  <2>12. 0 \in Q
    BY <2>1, <2>11
  <2>13. ASSUME NEW k \in Nat, k \in Q PROVE k + 1 \in Q
    <3> SUFFICES ASSUME (k + 1) + 1 <= n, NEW i \in 1 .. (k + 1) + 1
                 PROVE  Placed(f[(k + 1) + 1], off[i], seqs[i])
      OBVIOUS
    <3>1. CASE i = (k + 1) + 1
      BY <2>1, <2>11, <3>1
    <3>2. CASE i \in 1 .. k + 1
      <4>1. (k + 1) + 1 \in 1 .. n /\ k + 1 \in 1 .. n /\ i \in 1 .. n
            /\ ((k + 1) + 1) - 1 = k + 1 /\ (k + 1) + 1 # 1 /\ i \in 1 .. n + 1
        BY <2>1, <3>2
      <4>2. f[(k + 1) + 1] = f[k + 1] \o seqs[(k + 1) + 1]
        BY <2>4, <4>1
      <4>3. Placed(f[k + 1], off[i], seqs[i])
        BY <2>13, <3>2, <4>1
      <4>4. off[i] \in Nat
        BY <2>9, <4>1
      <4> QED BY <2>5, <2>8, <4>1, <4>2, <4>3, <4>4, PlacedBefore
    <3> QED BY <3>1, <3>2
  <2>14. \A i \in 1 .. n : Placed(f[n], off[i], seqs[i])
    <3> HIDE DEF Q
    <3>1. n - 1 \in Nat /\ n - 1 \in Q
      BY <2>1, <2>12, <2>13, Induction
    <3> QED BY <2>1, <3>1 DEF Q
  <2>15. off[n + 1] = Len(f[n])
    BY <2>1, <2>9
  <2>16. Consists(f[n], seqs, off)
    BY <2>9, <2>11, <2>14, <2>15 DEF Consists, n
  <2> QED BY <2>1, <2>3, <2>8, <2>16
<1> QED BY <1>1, <1>2

\* Entries of one width.
LEMMA Entries ==
  ASSUME NEW w \in Nat, NEW parts \in Seq(Seq(Byte)),
         \A i \in 1 .. Len(parts) : Len(parts[i]) = w
  PROVE  LET d == FlattenSeq(parts)
         IN /\ d \in Seq(Byte) /\ Len(d) = Len(parts) * w
            /\ \A i \in 1 .. Len(parts) : Placed(d, (i - 1) * w, parts[i])
<1> DEFINE d == FlattenSeq(parts)
           n == Len(parts)
<1>1. d \in Seq(Byte) /\ n \in Nat
  BY FlattenConsists
<1>2. PICK off : Consists(d, parts, off)
  BY FlattenConsists
<1> HIDE DEF d
<1>3. /\ off[1] = 0 /\ off[n + 1] = Len(d)
      /\ \A i \in 1 .. n : /\ off[i + 1] = off[i] + w
                           /\ Placed(d, off[i], parts[i])
  BY <1>2 DEF Consists
<1> HIDE DEF n
<1> DEFINE P == {k \in Nat : k <= n => off[k + 1] = k * w}
<1>4. 0 \in P
  BY <1>3
<1>5. ASSUME NEW k \in Nat, k \in P PROVE k + 1 \in P
  <2>1. CASE k + 1 <= n
    <3>1. k + 1 \in 1 .. n
      BY <1>1, <2>1
    <3>2. off[k + 1] = k * w
      BY <1>1, <1>5, <2>1
    <3>3. off[(k + 1) + 1] = k * w + w
      BY <1>3, <3>1, <3>2
    <3>4. k * w + w = (k + 1) * w
      OBVIOUS
    <3> QED BY <3>3, <3>4
  <2> QED BY <2>1
<1>6. \A k \in 0 .. n : off[k + 1] = k * w
  <2> HIDE DEF P
  <2>1. Nat \subseteq P
    BY <1>4, <1>5, Induction
  <2> QED BY <1>1, <2>1 DEF P
<1>7. \A i \in 1 .. n : off[i] = (i - 1) * w
  <2> SUFFICES ASSUME NEW i \in 1 .. n PROVE off[i] = (i - 1) * w
    OBVIOUS
  <2>1. i - 1 \in 0 .. n /\ (i - 1) + 1 = i
    BY <1>1
  <2> QED BY <1>6, <2>1
<1>8. Len(d) = n * w
  BY <1>1, <1>3, <1>6
<1> QED BY <1>1, <1>3, <1>7, <1>8 DEF d, n

-----------------------------------------------------------------------------
(* Each decoder inverts its encoder. *)

\* What Payload and Decode do with each type.
LEMMA Payloads ==
  ASSUME NEW m
  PROVE  /\ m.type = MsgHandshake => Payload(m) = m.id \o <<m.version>>
         /\ m.type = MsgManifest => Payload(m) = EncodeManifest(m)
         /\ m.type = MsgBitfield => Payload(m) = m.bits
         /\ m.type \in {MsgHave, MsgCancel} => Payload(m) = Put(m.index, 4)
         /\ m.type = MsgRequest => Payload(m) = EncodeRequest(m)
         /\ m.type = MsgPiece => Payload(m) = EncodePiece(m)
         /\ m.type = MsgSync =>
              Payload(m) = Put(m.time, 8) \o <<m.state>> \o Put(m.unixMs, 8)
         /\ m.type = MsgPeerList => Payload(m) = EncodePeerList(m)
         /\ m.type = MsgKeepalive => Payload(m) = <<>>
<1> USE DEF Payload, MsgHandshake, MsgManifest, MsgBitfield, MsgHave,
       MsgRequest, MsgPiece, MsgCancel, MsgSync, MsgPeerList, MsgKeepalive
<1>1. m.type = MsgHandshake => Payload(m) = m.id \o <<m.version>>
  OBVIOUS
<1>2. m.type = MsgManifest => Payload(m) = EncodeManifest(m)
  OBVIOUS
<1>3. m.type = MsgBitfield => Payload(m) = m.bits
  OBVIOUS
<1>4. m.type \in {MsgHave, MsgCancel} => Payload(m) = Put(m.index, 4)
  OBVIOUS
<1>5. m.type = MsgRequest => Payload(m) = EncodeRequest(m)
  OBVIOUS
<1>6. m.type = MsgPiece => Payload(m) = EncodePiece(m)
  OBVIOUS
<1>7. m.type = MsgSync =>
         Payload(m) = Put(m.time, 8) \o <<m.state>> \o Put(m.unixMs, 8)
  OBVIOUS
<1>8. m.type = MsgPeerList => Payload(m) = EncodePeerList(m)
  OBVIOUS
<1>9. m.type = MsgKeepalive => Payload(m) = <<>>
  OBVIOUS
<1> HIDE DEF Payload
<1> QED BY <1>1, <1>2, <1>3, <1>4, <1>5, <1>6, <1>7, <1>8, <1>9

LEMMA Encoders ==
  ASSUME NEW m
  PROVE  /\ EncodeManifest(m) =
              Put(Len(m.name), 2) \o m.name
                \o Put(m.fileSize, 8) \o Put(m.chunkSize, 8) \o Put(m.count, 4)
                \o FlattenSeq([i \in DOMAIN m.chunks |->
                                 Put(m.chunks[i].size, 4) \o m.chunks[i].hash])
         /\ EncodeRequest(m) =
              Put(Len(m.indices), 4)
                \o FlattenSeq([i \in DOMAIN m.indices |-> Put(m.indices[i], 4)])
         /\ EncodePeerList(m) =
              Put(Len(m.addrs), 4)
                \o FlattenSeq([i \in DOMAIN m.addrs |->
                                 Put(Len(m.addrs[i]), 2) \o m.addrs[i]])
BY Zenon DEF EncodeManifest, EncodeRequest, EncodePeerList, Each

LEMMA Decoders ==
  ASSUME NEW d
  PROVE  /\ Decode(MsgHandshake, d) = DecodeHandshake(d)
         /\ Decode(MsgManifest, d) = DecodeManifest(d)
         /\ Decode(MsgBitfield, d) = [type |-> MsgBitfield, bits |-> d]
         /\ Decode(MsgHave, d) = DecodeIndex(MsgHave, d)
         /\ Decode(MsgCancel, d) = DecodeIndex(MsgCancel, d)
         /\ Decode(MsgRequest, d) = DecodeRequestBatch(d)
         /\ Decode(MsgPiece, d) = DecodePiece(d)
         /\ Decode(MsgSync, d) = DecodeSync(d)
         /\ Decode(MsgPeerList, d) = DecodePeerList(d)
         /\ Decode(MsgKeepalive, d) = [type |-> MsgKeepalive]
BY DEF Decode, MsgHandshake, MsgManifest, MsgBitfield, MsgHave,
   MsgRequest, MsgPiece, MsgCancel, MsgSync, MsgPeerList, MsgKeepalive

\* The bytes of m are bytes, and decoded as m.
Inverted(m) == /\ Payload(m) \in Seq(Byte)
               /\ Decode(m.type, Payload(m)) = m

LEMMA FirstField ==
  ASSUME NEW w \in Nat, NEW n \in Uint(w), NEW b \in Seq(Byte)
  PROVE  LET d == Put(n, w) \o b
         IN /\ d \in Seq(Byte) /\ Len(d) = w + Len(b)
            /\ Field(d, 0, w) = n
            /\ Placed(d, w, b)
<1> DEFINE a == Put(n, w)
           d == a \o b
<1>1. a \in Seq(Byte) /\ Len(a) = w
  BY PutType DEF Uint
<1> HIDE DEF a
<1>2. d \in Seq(Byte) /\ Len(d) = w + Len(b)
  BY <1>1
<1>3. Placed(d, 0, a \o b)
  BY <1>2, PlacedWhole
<1> HIDE DEF d
<1>4. Placed(d, 0, a) /\ Placed(d, 0 + Len(a), b)
  BY <1>1, <1>2, <1>3, PlacedParts
<1>5. Field(d, 0, w) = n
  BY <1>2, <1>4, FieldOfPlaced DEF a
<1>6. Placed(d, w, b)
  BY <1>1, <1>4
<1> QED BY <1>2, <1>5, <1>6 DEF d, a

LEMMA Handshakes ==
  ASSUME NEW m \in [type : {MsgHandshake}, id : [1 .. IdLen -> Byte],
                    version : Byte]
  PROVE  Inverted(m)
<1> DEFINE d == m.id \o <<m.version>>
<1>1. m.type = MsgHandshake /\ m.id \in Seq(Byte) /\ Len(m.id) = IdLen
      /\ m = [type |-> MsgHandshake, id |-> m.id, version |-> m.version]
  BY WireAssumption
<1>2. Payload(m) = d
  BY <1>1, Payloads
<1>3. /\ d \in Seq(Byte) /\ Len(d) = IdLen + 1 /\ d[IdLen + 1] = m.version
      /\ <<m.version>> \in Seq(Byte)
  BY <1>1
<1>4. Placed(d, 0, m.id)
  BY <1>1, <1>3, PlacedWhole, PlacedParts
<1> HIDE DEF d
<1>5. Slice(d, 0, IdLen) = m.id
  BY <1>1, <1>3, <1>4, SliceOfPlaced
<1>6. DecodeHandshake(d) = m
  BY <1>1, <1>3, <1>5, WireAssumption DEF DecodeHandshake
<1>7. Decode(m.type, d) = m
  BY <1>1, <1>6, Decoders
<1> QED BY <1>2, <1>3, <1>7 DEF Inverted

LEMMA Bitfields ==
  ASSUME NEW m \in [type : {MsgBitfield}, bits : Seq(Byte)]
  PROVE  Inverted(m)
<1>1. m.type = MsgBitfield /\ m = [type |-> MsgBitfield, bits |-> m.bits]
      /\ m.bits \in Seq(Byte)
  OBVIOUS
<1>2. Payload(m) = m.bits
  BY <1>1, Payloads
<1>3. Decode(m.type, m.bits) = m
  BY <1>1, Decoders
<1> QED BY <1>1, <1>2, <1>3 DEF Inverted

LEMMA Keepalives ==
  ASSUME NEW m \in [type : {MsgKeepalive}]
  PROVE  Inverted(m)
<1>1. m.type = MsgKeepalive /\ m = [type |-> MsgKeepalive]
  OBVIOUS
<1>2. Payload(m) = <<>>
  BY <1>1, Payloads
<1>3. <<>> \in Seq(Byte)
  OBVIOUS
<1>4. Decode(m.type, <<>>) = m
  BY <1>1, Decoders
<1> QED BY <1>2, <1>3, <1>4 DEF Inverted

LEMMA Indices ==
  ASSUME NEW m \in [type : {MsgHave, MsgCancel}, index : Uint(4)]
  PROVE  Inverted(m)
<1> DEFINE d == Put(m.index, 4)
<1>1. m.type \in {MsgHave, MsgCancel}
      /\ m = [type |-> m.type, index |-> m.index]
      /\ m.index \in Uint(4)
  OBVIOUS
<1>2. Payload(m) = d
  BY <1>1, Payloads
<1>3. d \in Seq(Byte) /\ Len(d) = 4
  BY <1>1, PutType DEF Uint
<1> HIDE DEF d
<1>4. Slice(d, 0, 4) = d
  <2>1. Placed(d, 0, d)
    BY <1>3, PlacedWhole
  <2>2. Slice(d, 0, Len(d)) = d
    BY <1>3, <2>1, SliceOfPlaced
  <2> QED BY <1>3, <2>2
<1>5. Field(d, 0, 4) = m.index
  BY <1>1, <1>4, GetPut DEF Field, d
<1>6. DecodeIndex(m.type, d) = m
  BY <1>1, <1>3, <1>5 DEF DecodeIndex
<1>7. Decode(m.type, d) = m
  BY <1>1, <1>6, Decoders
<1> QED BY <1>2, <1>3, <1>7 DEF Inverted, d

LEMMA Pieces ==
  ASSUME NEW m \in [type : {MsgPiece}, index : Uint(4), data : Seq(Byte)]
  PROVE  Inverted(m)
<1> DEFINE d == Put(m.index, 4) \o m.data
<1>1. m.type = MsgPiece
      /\ m = [type |-> MsgPiece, index |-> m.index, data |-> m.data]
      /\ m.index \in Uint(4) /\ m.data \in Seq(Byte)
  OBVIOUS
<1>2. Payload(m) = d
  BY <1>1, Payloads DEF EncodePiece
<1>3. /\ d \in Seq(Byte) /\ Len(d) = 4 + Len(m.data)
      /\ Field(d, 0, 4) = m.index /\ Placed(d, 4, m.data)
  BY <1>1, FirstField
<1> HIDE DEF d
<1>4. Slice(d, 4, Len(d) - 4) = m.data
  <2>1. Slice(d, 4, Len(m.data)) = m.data
    BY <1>1, <1>3, SliceOfPlaced
  <2>2. Len(d) - 4 = Len(m.data)
    BY <1>1, <1>3
  <2> QED BY <2>1, <2>2
<1>5. DecodePiece(d) = m
  BY <1>1, <1>3, <1>4 DEF DecodePiece
<1>6. Decode(m.type, d) = m
  BY <1>1, <1>5, Decoders
<1> QED BY <1>2, <1>3, <1>6 DEF Inverted

LEMMA Syncs ==
  ASSUME NEW m \in [type : {MsgSync}, time : Uint(8), state : Byte,
                    unixMs : Uint(8)]
  PROVE  Inverted(m)
<1> DEFINE b == <<m.state>> \o Put(m.unixMs, 8)
           d == Put(m.time, 8) \o b
           e == Put(m.time, 8) \o <<m.state>> \o Put(m.unixMs, 8)
<1>1. m.type = MsgSync
      /\ m.time \in Uint(8) /\ m.state \in Byte /\ m.unixMs \in Uint(8)
      /\ m = [type |-> MsgSync, time |-> m.time, state |-> m.state,
              unixMs |-> m.unixMs]
  OBVIOUS
<1>2. Payload(m) = e
  BY <1>1, Payloads
<1>3. /\ Put(m.unixMs, 8) \in Seq(Byte) /\ Len(Put(m.unixMs, 8)) = 8
      /\ Put(m.time, 8) \in Seq(Byte)
      /\ <<m.state>> \in Seq(Byte)
  <2>1. m.time \in Nat /\ m.unixMs \in Nat /\ 8 \in Nat
    BY <1>1 DEF Uint
  <2>2. <<m.state>> \in Seq(Byte)
    BY <1>1
  <2> QED BY <2>1, <2>2, PutType
<1>4. b \in Seq(Byte) /\ Len(b) = 9 /\ b[1] = m.state
  <2> DEFINE p == Put(m.unixMs, 8)
  <2> HIDE DEF p
  <2>1. /\ <<m.state>> \o p \in Seq(Byte) /\ Len(<<m.state>> \o p) = 9
        /\ (<<m.state>> \o p)[1] = m.state
    <3> DEFINE a == <<m.state>>
    <3>1. p \in Seq(Byte) /\ Len(p) = 8
      BY <1>3 DEF p
    <3>2. a \in Seq(Byte) /\ Len(a) = 1 /\ a[1] = m.state
      BY <1>1
    <3> HIDE DEF a
    <3>3. a \o p \in Seq(Byte) /\ Len(a \o p) = Len(a) + Len(p)
      BY <3>1, <3>2, ConcatProperties
    <3>4. (a \o p)[1] = a[1]
      <4>1. 1 \in 1 .. Len(a) + Len(p) /\ 1 <= Len(a)
        BY <3>1, <3>2
      <4> QED BY <3>1, <3>2, <4>1, ConcatProperties, Zenon
    <3> QED BY <3>1, <3>2, <3>3, <3>4 DEF a
  <2> QED BY <2>1 DEF p
<1>5. e = d
  BY <1>3, ConcatAssociative
<1>6. /\ d \in Seq(Byte) /\ Len(d) = 8 + 9
      /\ Field(d, 0, 8) = m.time /\ Placed(d, 8, b)
  BY <1>1, <1>4, FirstField
<1> HIDE DEF d
<1>7. Placed(d, 9, Put(m.unixMs, 8))
  <2>1. Placed(d, 8 + Len(<<m.state>>), Put(m.unixMs, 8))
    BY <1>3, <1>6, PlacedParts
  <2> QED BY <2>1
<1>8. Field(d, 9, 8) = m.unixMs
  BY <1>1, <1>6, <1>7, FieldOfPlaced
<1>9. d[9] = m.state
  <2> HIDE DEF b
  <2>1. d[8 + 1] = b[1]
    BY <1>4, <1>6 DEF Placed
  <2> QED BY <1>4, <2>1
<1> HIDE DEF b, e
<1>10. DecodeSync(d) = m
  BY <1>1, <1>6, <1>8, <1>9 DEF DecodeSync
<1>11. Decode(m.type, d) = m
  BY <1>1, <1>10, Decoders
<1> QED BY <1>2, <1>5, <1>6, <1>11 DEF Inverted

LEMMA Requests ==
  ASSUME NEW m \in [type : {MsgRequest}, indices : List(Uint(4))]
  PROVE  Inverted(m)
<1> DEFINE n == Len(m.indices)
           parts == [i \in DOMAIN m.indices |-> Put(m.indices[i], 4)]
           e == FlattenSeq(parts)
           d == Put(n, 4) \o e
<1>1. /\ m.type = MsgRequest /\ m = [type |-> MsgRequest, indices |-> m.indices]
      /\ m.indices \in Seq(Uint(4)) /\ n \in Uint(4) /\ n \in Nat
      /\ DOMAIN m.indices = 1 .. n
  BY DEF List
<1>2. \A i \in 1 .. n : /\ m.indices[i] \in Uint(4)
                        /\ Put(m.indices[i], 4) \in Seq(Byte)
                        /\ Len(Put(m.indices[i], 4)) = 4
  <2> SUFFICES ASSUME NEW i \in 1 .. n
               PROVE  /\ m.indices[i] \in Uint(4)
                      /\ Put(m.indices[i], 4) \in Seq(Byte)
                      /\ Len(Put(m.indices[i], 4)) = 4
    OBVIOUS
  <2>1. m.indices[i] \in Uint(4)
    BY <1>1
  <2> QED BY <2>1, PutUint
<1>3. /\ parts \in Seq(Seq(Byte)) /\ Len(parts) = n
      /\ \A i \in 1 .. n : parts[i] = Put(m.indices[i], 4)
  BY <1>1, <1>2
<1>4. Payload(m) = d
  BY <1>1, Payloads, Encoders, Zenon
<1> HIDE DEF n, parts
<1>5. \A i \in 1 .. Len(parts) : Len(parts[i]) = 4
  BY <1>2, <1>3
<1>6. /\ e \in Seq(Byte) /\ Len(e) = n * 4
      /\ \A i \in 1 .. n : Placed(e, (i - 1) * 4, parts[i])
  BY <1>3, <1>5, Entries
<1> HIDE DEF e
<1>7. /\ d \in Seq(Byte) /\ Len(d) = 4 + n * 4
      /\ Field(d, 0, 4) = n /\ Placed(d, 4, e)
  BY <1>1, <1>6, FirstField
<1> HIDE DEF d
<1>8. ASSUME NEW i \in 1 .. n PROVE Field(d, 4 * i, 4) = m.indices[i]
  <2>1. Placed(d, 4 + (i - 1) * 4, Put(m.indices[i], 4))
    BY <1>2, <1>3, <1>6, <1>7, PlacedIn
  <2>2. 4 + (i - 1) * 4 = 4 * i /\ 4 * i \in Nat
    BY <1>1
  <2> QED BY <1>2, <1>7, <2>1, <2>2, FieldOfPlaced
<1>9. [i \in 1 .. n |-> Field(d, 4 * i, 4)] = m.indices
  BY <1>1, <1>8
<1>10. DecodeRequestBatch(d) = m
  BY <1>1, <1>7, <1>9 DEF DecodeRequestBatch
<1>11. Decode(m.type, d) = m
  BY <1>1, <1>10, Decoders
<1> QED BY <1>4, <1>7, <1>11 DEF Inverted

LEMMA Manifests ==
  ASSUME NEW m \in [type : {MsgManifest}, name : Text, fileSize : Uint(8),
                    chunkSize : Uint(8), count : Uint(4),
                    chunks : List([size : Uint(4),
                                   hash : [1 .. HashLen -> Byte]])],
         m.count = Len(m.chunks)
  PROVE  Inverted(m)
<1> DEFINE n == Len(m.chunks)
           o == 2 + Len(m.name)
           parts == [i \in DOMAIN m.chunks |->
                       Put(m.chunks[i].size, 4) \o m.chunks[i].hash]
           e  == FlattenSeq(parts)
           a1 == Put(Len(m.name), 2)
           a3 == Put(m.fileSize, 8)
           a4 == Put(m.chunkSize, 8)
           a5 == Put(m.count, 4)
           b2 == a1 \o m.name
           b3 == b2 \o a3
           b4 == b3 \o a4
           b5 == b4 \o a5
           d  == b5 \o e
<1>1. /\ m.type = MsgManifest
      /\ m = [type |-> MsgManifest, name |-> m.name, fileSize |-> m.fileSize,
              chunkSize |-> m.chunkSize, count |-> m.count, chunks |-> m.chunks]
  OBVIOUS
<1>2. /\ m.name \in Seq(Byte) /\ Len(m.name) \in Uint(2) /\ Len(m.name) \in Nat
      /\ m.fileSize \in Uint(8) /\ m.chunkSize \in Uint(8)
      /\ m.count \in Uint(4) /\ m.count = n /\ n \in Nat
  BY DEF Text, List
<1>3. /\ m.chunks \in Seq([size : Uint(4), hash : [1 .. HashLen -> Byte]])
      /\ DOMAIN m.chunks = 1 .. n
  BY DEF List
<1>4. \A i \in 1 .. n :
        /\ m.chunks[i] = [size |-> m.chunks[i].size, hash |-> m.chunks[i].hash]
        /\ m.chunks[i].size \in Uint(4)
        /\ m.chunks[i].hash \in Seq(Byte) /\ Len(m.chunks[i].hash) = HashLen
  <2> SUFFICES ASSUME NEW i \in 1 .. n
               PROVE  /\ m.chunks[i] = [size |-> m.chunks[i].size,
                                        hash |-> m.chunks[i].hash]
                      /\ m.chunks[i].size \in Uint(4)
                      /\ m.chunks[i].hash \in Seq(Byte)
                      /\ Len(m.chunks[i].hash) = HashLen
    OBVIOUS
  <2> DEFINE Entry == [size : Uint(4), hash : [1 .. HashLen -> Byte]]
  <2>1. m.chunks[i] \in Entry
    <3> HIDE DEF Entry
    <3>1. m.chunks \in Seq(Entry)
      BY <1>3 DEF Entry
    <3> QED BY <3>1
  <2>2. m.chunks[i].hash \in [1 .. HashLen -> Byte]
    BY <2>1
  <2>3. m.chunks[i].hash \in Seq(Byte) /\ Len(m.chunks[i].hash) = HashLen
    BY <2>2, WireAssumption
  <2> QED BY <2>1, <2>3
<1>5. \A i \in 1 .. n :
        /\ Put(m.chunks[i].size, 4) \in Seq(Byte)
        /\ Len(Put(m.chunks[i].size, 4)) = 4
  BY <1>4, PutType DEF Uint
<1>6. \A i \in 1 .. n :
        LET b == Put(m.chunks[i].size, 4) \o m.chunks[i].hash
        IN b \in Seq(Byte) /\ Len(b) = 4 + HashLen
  <2> SUFFICES ASSUME NEW i \in 1 .. n
               PROVE  LET b == Put(m.chunks[i].size, 4) \o m.chunks[i].hash
                      IN b \in Seq(Byte) /\ Len(b) = 4 + HashLen
    OBVIOUS
  <2> DEFINE p == Put(m.chunks[i].size, 4)
             h == m.chunks[i].hash
  <2>1. p \in Seq(Byte) /\ Len(p) = 4 /\ h \in Seq(Byte) /\ Len(h) = HashLen
    BY <1>4, <1>5
  <2> HIDE DEF p, h
  <2>2. p \o h \in Seq(Byte) /\ Len(p \o h) = Len(p) + Len(h)
    BY <2>1, ConcatProperties
  <2>3. p \o h \in Seq(Byte) /\ Len(p \o h) = 4 + HashLen
    BY <2>1, <2>2
  <2> QED BY <2>3 DEF p, h
<1>7. /\ parts \in Seq(Seq(Byte)) /\ Len(parts) = n
      /\ \A i \in 1 .. n : parts[i] = Put(m.chunks[i].size, 4)
                                        \o m.chunks[i].hash
  <2>1. /\ parts = [i \in 1 .. n |-> Put(m.chunks[i].size, 4)
                                      \o m.chunks[i].hash]
        /\ \A i \in 1 .. n :
             Put(m.chunks[i].size, 4) \o m.chunks[i].hash \in Seq(Byte)
    BY <1>3, <1>6
  <2>2. parts \in [1 .. n -> Seq(Byte)]
    BY <2>1, Zenon
  <2>3. \A i \in 1 .. n : parts[i] = Put(m.chunks[i].size, 4)
                                        \o m.chunks[i].hash
    BY <2>1, Zenon
  <2> HIDE DEF parts, n
  <2>4. parts \in Seq(Seq(Byte)) /\ Len(parts) = n
    BY <1>2, <2>2
  <2> QED BY <2>3, <2>4
<1>8. Payload(m) = d
  BY <1>1, Payloads, Encoders, Zenon
<1> HIDE DEF n, parts
<1>9. /\ e \in Seq(Byte) /\ Len(e) = n * (4 + HashLen)
      /\ \A i \in 1 .. n : Placed(e, (i - 1) * (4 + HashLen), parts[i])
  <2>1. \A i \in 1 .. Len(parts) : Len(parts[i]) = 4 + HashLen
    BY <1>6, <1>7
  <2>2. 4 + HashLen \in Nat
    BY WireAssumption
  <2> QED BY <1>7, <2>1, <2>2, Entries
<1> HIDE DEF e
<1>10. /\ a1 \in Seq(Byte) /\ Len(a1) = 2 /\ a3 \in Seq(Byte) /\ Len(a3) = 8
       /\ a4 \in Seq(Byte) /\ Len(a4) = 8 /\ a5 \in Seq(Byte) /\ Len(a5) = 4
  BY <1>2, PutType DEF Uint
<1> HIDE DEF a1, a3, a4, a5
<1>11. o \in Nat /\ o = 2 + Len(m.name)
  BY <1>2
<1>12. b2 \in Seq(Byte) /\ Len(b2) = o
  <2>1. b2 \in Seq(Byte) /\ Len(b2) = Len(a1) + Len(m.name)
    BY <1>2, <1>10, ConcatProperties, Zenon
  <2> QED BY <1>10, <1>11, <2>1
<1> HIDE DEF b2, o
<1>13. b3 \in Seq(Byte) /\ Len(b3) = o + 8
  <2>1. b3 \in Seq(Byte) /\ Len(b3) = Len(b2) + Len(a3)
    BY <1>10, <1>12, ConcatProperties, Zenon
  <2> QED BY <1>10, <1>11, <1>12, <2>1
<1> HIDE DEF b3
<1>14. b4 \in Seq(Byte) /\ Len(b4) = o + 16
  <2>1. b4 \in Seq(Byte) /\ Len(b4) = Len(b3) + Len(a4)
    BY <1>10, <1>13, ConcatProperties, Zenon
  <2> QED BY <1>10, <1>11, <1>13, <2>1
<1> HIDE DEF b4
<1>15. b5 \in Seq(Byte) /\ Len(b5) = o + 20
  <2>1. b5 \in Seq(Byte) /\ Len(b5) = Len(b4) + Len(a5)
    BY <1>10, <1>14, ConcatProperties, Zenon
  <2> QED BY <1>10, <1>11, <1>14, <2>1
<1> HIDE DEF b5
<1>16. d \in Seq(Byte) /\ Len(d) = (o + 20) + n * (4 + HashLen)
  <2>1. d \in Seq(Byte) /\ Len(d) = Len(b5) + Len(e)
    BY <1>9, <1>15, ConcatProperties, Zenon
  <2> QED BY <1>9, <1>11, <1>15, <2>1
<1>17. Placed(d, 0, b5 \o e)
  BY <1>16, PlacedWhole
<1> HIDE DEF d
<1>18. Placed(d, 0, b5) /\ Placed(d, o + 20, e)
  BY <1>9, <1>11, <1>15, <1>16, <1>17, PlacedParts
<1>19. Placed(d, 0, b4) /\ Placed(d, o + 16, a5)
  BY <1>10, <1>11, <1>14, <1>16, <1>18, PlacedParts DEF b5
<1>20. Placed(d, 0, b3) /\ Placed(d, o + 8, a4)
  BY <1>10, <1>11, <1>13, <1>16, <1>19, PlacedParts DEF b4
<1>21. Placed(d, 0, b2) /\ Placed(d, o, a3)
  BY <1>10, <1>11, <1>12, <1>16, <1>20, PlacedParts DEF b3
<1>22. Placed(d, 0, a1) /\ Placed(d, 2, m.name)
  <2>1. Placed(d, 0, a1 \o m.name)
    BY <1>21 DEF b2
  <2>2. Placed(d, 0, a1) /\ Placed(d, 0 + Len(a1), m.name)
    BY <1>2, <1>10, <1>16, <2>1, PlacedParts
  <2> QED BY <1>10, <2>2
<1>23. /\ o \in Nat /\ Field(d, 0, 2) = Len(m.name)
       /\ Slice(d, 2, o - 2) = m.name
       /\ Field(d, o, 8) = m.fileSize
       /\ Field(d, o + 8, 8) = m.chunkSize
       /\ Field(d, o + 16, 4) = m.count
  <2>1. o \in Nat /\ o - 2 = Len(m.name)
    BY <1>2, <1>11
  <2>2. Field(d, 0, 2) = Len(m.name)
    BY <1>2, <1>16, <1>22, FieldOfPlaced DEF a1
  <2>3. Slice(d, 2, o - 2) = m.name
    BY <1>2, <1>16, <1>22, <2>1, SliceOfPlaced
  <2>4. Field(d, o, 8) = m.fileSize
    BY <1>2, <1>16, <1>21, <2>1, FieldOfPlaced DEF a3
  <2>5. o + 8 \in Nat /\ o + 16 \in Nat
    BY <2>1
  <2>6. Field(d, o + 8, 8) = m.chunkSize
    BY <1>2, <1>16, <1>20, <2>5, FieldOfPlaced DEF a4
  <2>7. Field(d, o + 16, 4) = m.count
    BY <1>2, <1>16, <1>19, <2>5, FieldOfPlaced DEF a5
  <2> QED BY <2>1, <2>2, <2>3, <2>4, <2>6, <2>7
<1> DEFINE entry(i) == o + 20 + (i - 1) * (4 + HashLen)
           rows == [i \in 1 .. m.count |->
                      [size |-> Field(d, entry(i), 4),
                       hash |-> Slice(d, entry(i) + 4, HashLen)]]
<1>24. ASSUME NEW i \in 1 .. n
       PROVE  /\ Field(d, entry(i), 4) = m.chunks[i].size
              /\ Slice(d, entry(i) + 4, HashLen) = m.chunks[i].hash
  <2> DEFINE x == entry(i)
             k == (i - 1) * (4 + HashLen)
  <2>1. k \in Nat /\ x = (o + 20) + k /\ x \in Nat /\ o + 20 \in Nat
    BY <1>2, <1>23, WireAssumption
  <2> HIDE DEF x, k
  <2>2. Placed(d, x, parts[i])
    <3>1. Placed(e, k, parts[i]) /\ parts[i] \in Seq(Byte)
      BY <1>7, <1>9 DEF k
    <3> QED BY <1>9, <1>16, <1>18, <2>1, <3>1, PlacedIn
  <2>3. Placed(d, x, Put(m.chunks[i].size, 4))
        /\ Placed(d, x + 4, m.chunks[i].hash)
    <3> DEFINE p == Put(m.chunks[i].size, 4)
               h == m.chunks[i].hash
    <3>1. p \in Seq(Byte) /\ Len(p) = 4 /\ h \in Seq(Byte)
      BY <1>4, <1>5
    <3>2. Placed(d, x, p \o h)
      BY <1>7, <2>2
    <3> HIDE DEF p, h
    <3>3. Placed(d, x, p) /\ Placed(d, x + Len(p), h)
      BY <1>16, <2>1, <3>1, <3>2, PlacedParts
    <3> QED BY <3>1, <3>3 DEF p, h
  <2>4. Field(d, x, 4) = m.chunks[i].size
    BY <1>4, <1>16, <2>1, <2>3, FieldOfPlaced
  <2>5. x + 4 \in Nat
    BY <2>1
  <2>6. Slice(d, x + 4, Len(m.chunks[i].hash)) = m.chunks[i].hash
    BY <1>4, <1>16, <2>3, <2>5, SliceOfPlaced
  <2> QED BY <1>4, <2>4, <2>6 DEF x
<1>25. rows = m.chunks
  <2>1. \A i \in 1 .. n : rows[i] = m.chunks[i]
    BY <1>2, <1>4, <1>24
  <2>2. rows = [i \in 1 .. n |-> rows[i]]
    BY <1>2
  <2>3. m.chunks = [i \in 1 .. n |-> m.chunks[i]]
    <3>1. \A S : \A s \in Seq(S) : s = [i \in DOMAIN s |-> s[i]]
      OBVIOUS
    <3> QED BY <1>3, <3>1, Zenon
  <2> HIDE DEF rows
  <2> QED BY <2>1, <2>2, <2>3, Zenon
<1>26. Len(d) = entry(m.count + 1) /\ Len(d) >= o + 20
  BY <1>2, <1>16, <1>23, WireAssumption
<1>27. DecodeManifest(d) = m
  <2> DEFINE p == 2 + Field(d, 0, 2)
             c == Field(d, p + 16, 4)
             first(i) == p + 20 + (i - 1) * (4 + HashLen)
  <2>a. DecodeManifest(d) =
          IF Len(d) < 2 \/ Len(d) < p + 20 \/ Len(d) < first(c + 1) THEN Garbled
          ELSE [type |-> MsgManifest, name |-> Slice(d, 2, p - 2),
                fileSize |-> Field(d, p, 8), chunkSize |-> Field(d, p + 8, 8),
                count |-> c,
                chunks |-> [i \in 1 .. c |->
                              [size |-> Field(d, first(i), 4),
                               hash |-> Slice(d, first(i) + 4, HashLen)]]]
    BY Zenon DEF DecodeManifest
  <2>b. p = o
    BY <1>11, <1>23
  <2> HIDE DEF p
  <2>c. c = m.count
    BY <1>23, <2>b
  <2> HIDE DEF c
  <2>d. ~(Len(d) < 2 \/ Len(d) < o + 20 \/ Len(d) < entry(m.count + 1))
    BY <1>23, <1>26
  <2>1. DecodeManifest(d) =
          [type |-> MsgManifest, name |-> Slice(d, 2, o - 2),
           fileSize |-> Field(d, o, 8), chunkSize |-> Field(d, o + 8, 8),
           count |-> m.count, chunks |-> rows]
    BY <2>a, <2>b, <2>c, <2>d, Zenon
  <2> HIDE DEF rows
  <2> QED BY <1>1, <1>23, <1>25, <2>1
<1>28. Decode(m.type, d) = m
  BY <1>1, <1>27, Decoders
<1> QED BY <1>8, <1>16, <1>28 DEF Inverted

\* The offsets of the addresses, as DecodePeerList walks through them.
Walks(d, n, q) ==
  q = [i \in 1 .. n + 1 |->
         IF i = 1 THEN 4
         ELSE q[i - 1] + (IF q[i - 1] + 2 > Len(d) THEN 2
                          ELSE 2 + Field(d, q[i - 1], 2))]

LEMMA WalksExist ==
  ASSUME NEW d, NEW n \in Nat
  PROVE  \E q : Walks(d, n, q)
<1> DEFINE next(o) == o + (IF o + 2 > Len(d) THEN 2 ELSE 2 + Field(d, o, 2))
           P == {k \in Nat : \E q : q = [i \in 1 .. k + 1 |->
                                           IF i = 1 THEN 4 ELSE next(q[i - 1])]}
<1> HIDE DEF next
<1>1. 0 \in P
  <2>1. [i \in 1 .. 1 |-> 4]
          = [i \in 1 .. 0 + 1 |->
               IF i = 1 THEN 4 ELSE next([j \in 1 .. 1 |-> 4][i - 1])]
    OBVIOUS
  <2> QED BY <2>1
<1>2. ASSUME NEW k \in Nat, k \in P PROVE k + 1 \in P
  <2>1. PICK q : q = [i \in 1 .. k + 1 |-> IF i = 1 THEN 4 ELSE next(q[i - 1])]
    BY <1>2
  <2> DEFINE r == [i \in 1 .. (k + 1) + 1 |->
                     IF i = 1 THEN 4 ELSE next(q[i - 1])]
  <2>2. \A i \in 1 .. k + 1 : r[i] = q[i]
    <3>1. \A i \in 1 .. k + 1 : i \in 1 .. (k + 1) + 1
      OBVIOUS
    <3>2. \A i \in 1 .. k + 1 : q[i] = IF i = 1 THEN 4 ELSE next(q[i - 1])
      BY <2>1, Zenon
    <3> QED BY <3>1, <3>2, Zenon
  <2>3. \A i \in 1 .. (k + 1) + 1 : i # 1 => r[i - 1] = q[i - 1]
    <3>1. \A i \in 1 .. (k + 1) + 1 : i # 1 => i - 1 \in 1 .. k + 1
      OBVIOUS
    <3> QED BY <2>2, <3>1, Zenon
  <2>4. r = [i \in 1 .. (k + 1) + 1 |-> IF i = 1 THEN 4 ELSE next(r[i - 1])]
    BY <2>3
  <2> HIDE DEF r
  <2>5. \E s : s = [i \in 1 .. (k + 1) + 1 |->
                    IF i = 1 THEN 4 ELSE next(s[i - 1])]
    BY <2>4, Zenon
  <2> QED BY <2>5
<1> HIDE DEF P
<1>3. n \in P
  BY <1>1, <1>2, Induction
<1> QED BY <1>3 DEF P, Walks, next

LEMMA PeerLists ==
  ASSUME NEW m \in [type : {MsgPeerList}, addrs : List(Text)]
  PROVE  Inverted(m)
<1> DEFINE n == Len(m.addrs)
           lengthOf(i) == Put(Len(m.addrs[i]), 2)
           parts == [i \in DOMAIN m.addrs |->
                       Put(Len(m.addrs[i]), 2) \o m.addrs[i]]
           e == FlattenSeq(parts)
           d == Put(n, 4) \o e
<1>1. /\ m.type = MsgPeerList /\ m = [type |-> MsgPeerList, addrs |-> m.addrs]
      /\ m.addrs \in Seq(Text) /\ n \in Uint(4) /\ n \in Nat
      /\ DOMAIN m.addrs = 1 .. n
  BY DEF List
<1>2. ASSUME NEW i \in 1 .. n
      PROVE  /\ m.addrs[i] \in Seq(Byte) /\ Len(m.addrs[i]) \in Uint(2)
             /\ Len(m.addrs[i]) \in Nat
             /\ lengthOf(i) \in Seq(Byte) /\ Len(lengthOf(i)) = 2
             /\ lengthOf(i) \o m.addrs[i] \in Seq(Byte)
             /\ Len(lengthOf(i) \o m.addrs[i]) = 2 + Len(m.addrs[i])
  <2>1. m.addrs[i] \in Text
    BY <1>1
  <2>2. /\ m.addrs[i] \in Seq(Byte) /\ Len(m.addrs[i]) \in Uint(2)
        /\ Len(m.addrs[i]) \in Nat
    BY <2>1 DEF Text
  <2>3. lengthOf(i) \in Seq(Byte) /\ Len(lengthOf(i)) = 2
    BY <2>2, PutUint
  <2> DEFINE p == lengthOf(i)
             a == m.addrs[i]
  <2>4. p \in Seq(Byte) /\ Len(p) = 2 /\ a \in Seq(Byte)
    BY <2>2, <2>3
  <2> HIDE DEF p, a
  <2>5. p \o a \in Seq(Byte) /\ Len(p \o a) = Len(p) + Len(a)
    BY <2>4, ConcatProperties
  <2>6. p \o a \in Seq(Byte) /\ Len(p \o a) = 2 + Len(a)
    BY <2>4, <2>5
  <2> QED BY <2>2, <2>3, <2>6 DEF p, a
<1>3. /\ parts \in Seq(Seq(Byte)) /\ Len(parts) = n
      /\ \A i \in 1 .. n : parts[i] = lengthOf(i) \o m.addrs[i]
  <2>1. parts = [i \in 1 .. n |-> lengthOf(i) \o m.addrs[i]]
    BY <1>1, Zenon
  <2>2. parts \in [1 .. n -> Seq(Byte)]
    BY <1>2, <2>1, Zenon
  <2>3. \A i \in 1 .. n : parts[i] = lengthOf(i) \o m.addrs[i]
    BY <2>1, Zenon
  <2> HIDE DEF parts, n
  <2>4. parts \in Seq(Seq(Byte)) /\ Len(parts) = n
    BY <1>1, <2>2
  <2> QED BY <2>3, <2>4
<1>4. Payload(m) = d
  BY <1>1, Payloads, Encoders, Zenon
<1> HIDE DEF n, parts, lengthOf
<1>5. e \in Seq(Byte)
  BY <1>3, FlattenConsists
<1>6. PICK off : Consists(e, parts, off)
  BY <1>3, FlattenConsists
<1> HIDE DEF e
<1>7. /\ \A i \in 1 .. n + 1 : off[i] \in Nat
      /\ off[1] = 0 /\ off[n + 1] = Len(e)
      /\ \A i \in 1 .. n : /\ off[i + 1] = off[i] + Len(parts[i])
                           /\ Placed(e, off[i], parts[i])
  BY <1>3, <1>6 DEF Consists
<1>8. /\ d \in Seq(Byte) /\ Len(d) = 4 + Len(e)
      /\ Field(d, 0, 4) = n /\ Placed(d, 4, e)
  BY <1>1, <1>5, FirstField
<1> HIDE DEF d
\* Where address i stands.
<1>9. ASSUME NEW i \in 1 .. n
      PROVE  /\ 4 + off[i] \in Nat /\ ~((4 + off[i]) + 2 > Len(d))
             /\ Field(d, 4 + off[i], 2) = Len(m.addrs[i])
             /\ Slice(d, (4 + off[i]) + 2, Len(m.addrs[i])) = m.addrs[i]
             /\ off[i + 1] = off[i] + (2 + Len(m.addrs[i]))
  <2> DEFINE x == 4 + off[i]
             p == lengthOf(i)
             a == m.addrs[i]
  <2>1. i \in 1 .. n + 1 /\ off[i] \in Nat
    BY <1>1, <1>7
  <2>2. /\ p \in Seq(Byte) /\ Len(p) = 2 /\ a \in Seq(Byte)
        /\ parts[i] = p \o a /\ parts[i] \in Seq(Byte)
        /\ Len(parts[i]) = 2 + Len(a) /\ Len(a) \in Uint(2) /\ Len(a) \in Nat
        /\ p = Put(Len(a), 2)
    BY <1>2, <1>3 DEF lengthOf
  <2> HIDE DEF p, a
  <2>3. Placed(e, off[i], parts[i])
    BY <1>7
  <2>4. Placed(d, 4 + off[i], parts[i])
    BY <1>5, <1>8, <2>1, <2>2, <2>3, PlacedIn
  <2>5. x \in Nat /\ x + 2 \in Nat
    BY <2>1
  <2>6. Placed(d, x, p \o a)
    BY <2>2, <2>4
  <2> HIDE DEF x
  <2>7. Placed(d, x, p) /\ Placed(d, x + Len(p), a)
    BY <1>8, <2>2, <2>5, <2>6, PlacedParts
  <2>8. Field(d, x, 2) = Len(a)
    BY <1>8, <2>2, <2>5, <2>7, FieldOfPlaced
  <2>9. Slice(d, x + 2, Len(a)) = a
    BY <1>8, <2>2, <2>5, <2>7, SliceOfPlaced
  <2>10. ~(x + 2 > Len(d))
    BY <1>8, <2>2, <2>5, <2>7 DEF Placed
  <2>11. off[i + 1] = off[i] + (2 + Len(a))
    BY <1>7, <2>2
  <2> QED BY <2>5, <2>8, <2>9, <2>10, <2>11 DEF x, a
<1> DEFINE q == CHOOSE q : Walks(d, n, q)
<1>10. Walks(d, n, q)
  BY <1>1, WalksExist
<1> DEFINE size(o) == IF o + 2 > Len(d) THEN 2 ELSE 2 + Field(d, o, 2)
           answer == [type |-> MsgPeerList,
                      addrs |-> [i \in 1 .. n |->
                                   Slice(d, q[i] + 2, size(q[i]) - 2)]]
<1>11. DecodePeerList(d) = IF Len(d) < 4 \/ q[n + 1] > Len(d) THEN Garbled
                           ELSE answer
  <2> DEFINE c == Field(d, 0, 4)
             r == CHOOSE r : Walks(d, c, r)
  <2>1. DecodePeerList(d) =
          IF Len(d) < 4 \/ r[c + 1] > Len(d) THEN Garbled
          ELSE [type |-> MsgPeerList,
                addrs |-> [i \in 1 .. c |->
                             Slice(d, r[i] + 2, size(r[i]) - 2)]]
    BY Zenon DEF DecodePeerList, Walks
  <2>2. c = n
    BY <1>8
  <2> HIDE DEF c
  <2>3. r = q
    BY <2>2
  <2> HIDE DEF r, q
  <2> QED BY <2>1, <2>2, <2>3, Zenon
<1> HIDE DEF q, answer
<1>12. /\ q[1] = 4
       /\ \A i \in 1 .. n : q[i + 1] = q[i] + size(q[i])
  <2> HIDE DEF size
  <2>1. \A i \in 1 .. n + 1 : q[i] = IF i = 1 THEN 4
                                     ELSE q[i - 1] + size(q[i - 1])
    BY <1>10, Zenon DEF Walks, size
  <2>2. \A i \in 1 .. n : i + 1 \in 1 .. n + 1 /\ i + 1 # 1 /\ (i + 1) - 1 = i
    BY <1>1
  <2>3. 1 \in 1 .. n + 1
    BY <1>1
  <2> QED BY <2>1, <2>2, <2>3, Zenon
<1> DEFINE P == {k \in Nat : k <= n => q[k + 1] = 4 + off[k + 1]}
<1>13. 0 \in P
  BY <1>7, <1>12
<1>14. ASSUME NEW i \in 1 .. n, q[i] = 4 + off[i]
       PROVE  /\ size(q[i]) = 2 + Len(m.addrs[i])
              /\ q[i + 1] = 4 + off[i + 1]
  <2>1. size(q[i]) = 2 + Len(m.addrs[i])
    BY <1>9, <1>14, Zenon
  <2>2. off[i] \in Nat /\ Len(m.addrs[i]) \in Nat
    BY <1>1, <1>2, <1>7
  <2>3. q[i + 1] = (4 + off[i]) + (2 + Len(m.addrs[i]))
    BY <1>12, <1>14, <2>1, Zenon
  <2>4. off[i + 1] = off[i] + (2 + Len(m.addrs[i]))
    BY <1>9
  <2>5. q[i + 1] = 4 + off[i + 1]
    BY <2>2, <2>3, <2>4
  <2> QED BY <2>1, <2>5
<1> HIDE DEF size
<1>15. ASSUME NEW k \in Nat, k \in P PROVE k + 1 \in P
  <2>1. CASE k + 1 <= n
    <3>1. k + 1 \in 1 .. n
      BY <1>1, <2>1
    <3>2. q[k + 1] = 4 + off[k + 1]
      BY <1>1, <1>15, <2>1
    <3> QED BY <1>14, <3>1, <3>2
  <2> QED BY <2>1
<1>16. \A k \in 0 .. n : q[k + 1] = 4 + off[k + 1]
  <2> HIDE DEF P
  <2>1. Nat \subseteq P
    BY <1>13, <1>15, Induction
  <2> QED BY <1>1, <2>1 DEF P
<1>17. \A i \in 1 .. n : q[i] = 4 + off[i]
  <2> SUFFICES ASSUME NEW i \in 1 .. n PROVE q[i] = 4 + off[i]
    OBVIOUS
  <2>1. i - 1 \in 0 .. n /\ (i - 1) + 1 = i
    BY <1>1
  <2> QED BY <1>16, <2>1
<1>18. ASSUME NEW i \in 1 .. n
       PROVE  Slice(d, q[i] + 2, size(q[i]) - 2) = m.addrs[i]
  <2>1. size(q[i]) - 2 = Len(m.addrs[i])
    BY <1>2, <1>14, <1>17
  <2> QED BY <1>9, <1>17, <2>1, Zenon
<1>19. answer = m
  <2>1. m.addrs = [i \in 1 .. n |-> m.addrs[i]]
    <3>1. \A S : \A s \in Seq(S) : s = [i \in DOMAIN s |-> s[i]]
      OBVIOUS
    <3> QED BY <1>1, <3>1, Zenon
  <2>2. [i \in 1 .. n |-> Slice(d, q[i] + 2, size(q[i]) - 2)] = m.addrs
    BY <1>18, <2>1, Zenon
  <2> QED BY <1>1, <2>2, Zenon DEF answer
<1>20. DecodePeerList(d) = m
  <2>1. q[n + 1] = Len(d) /\ ~(Len(d) < 4)
    BY <1>1, <1>5, <1>7, <1>8, <1>16
  <2>2. ~(Len(d) < 4 \/ q[n + 1] > Len(d))
    BY <1>8, <2>1
  <2> QED BY <1>11, <1>19, <2>2, Zenon
<1>21. Decode(m.type, d) = m
  BY <1>1, <1>20, Decoders
<1> QED BY <1>4, <1>8, <1>21 DEF Inverted

\* Every message is read back as it was written.
LEMMA AllInverted ==
  ASSUME NEW m \in Message
  PROVE  Inverted(m) /\ m.type \in 1 .. 10
<1>1. CASE m \in [type : {MsgHandshake}, id : [1 .. IdLen -> Byte],
                  version : Byte]
  BY <1>1, Handshakes DEF MsgHandshake
<1>2. CASE m \in [type : {MsgManifest}, name : Text, fileSize : Uint(8),
                  chunkSize : Uint(8), count : Uint(4),
                  chunks : List([size : Uint(4),
                                 hash : [1 .. HashLen -> Byte]])]
           /\ m.count = Len(m.chunks)
  <2>1. m.count = Len(m.chunks)
    BY <1>2
  <2>2. Inverted(m)
    BY <1>2, <2>1, Manifests, Zenon
  <2>3. m.type = MsgManifest
    BY <1>2
  <2> QED BY <2>2, <2>3 DEF MsgManifest
<1>3. CASE m \in [type : {MsgBitfield}, bits : Seq(Byte)]
  BY <1>3, Bitfields DEF MsgBitfield
<1>4. CASE m \in [type : {MsgHave, MsgCancel}, index : Uint(4)]
  BY <1>4, Indices DEF MsgHave, MsgCancel
<1>5. CASE m \in [type : {MsgRequest}, indices : List(Uint(4))]
  BY <1>5, Requests DEF MsgRequest
<1>6. CASE m \in [type : {MsgPiece}, index : Uint(4), data : Seq(Byte)]
  BY <1>6, Pieces DEF MsgPiece
<1>7. CASE m \in [type : {MsgSync}, time : Uint(8), state : Byte,
                  unixMs : Uint(8)]
  BY <1>7, Syncs DEF MsgSync
<1>8. CASE m \in [type : {MsgPeerList}, addrs : List(Text)]
  BY <1>8, PeerLists DEF MsgPeerList
<1>9. CASE m \in [type : {MsgKeepalive}]
  BY <1>9, Keepalives DEF MsgKeepalive
<1> QED BY <1>1, <1>2, <1>3, <1>4, <1>5, <1>6, <1>7, <1>8, <1>9, Zenon
        DEF Message

-----------------------------------------------------------------------------
(* Frames. *)

\* A message whose frame has a length that fits its field ...
Framed(m) == m \in Message /\ 1 + Len(Payload(m)) \in Uint(4)

\* ... and is no longer than ReadMessage allows.
Fits(m) == 1 + Len(Payload(m)) <= MaxMessageSize

\* Every message is decoded as what was encoded: the names and lengths that
\* later offsets depend on, and the counts of lists, among them.
THEOREM DecodesEncoded ==
  \A m \in Message : Decode(m.type, Payload(m)) = m
BY AllInverted DEF Inverted

LEMMA Frames ==
  ASSUME NEW m, Framed(m)
  PROVE  LET b == Len(Payload(m))
             f == Frame(m)
         IN /\ b \in Nat /\ f \in Seq(Byte) /\ Len(f) = 5 + b
            /\ Placed(f, 0, Put(1 + b, 4))
            /\ f[5] = m.type
            /\ Placed(f, 5, Payload(m))
            /\ 1 + b \in Uint(4)
<1> DEFINE b == Len(Payload(m))
           x == Payload(m)
           p == Put(1 + b, 4)
           t == <<m.type>>
           f == (p \o t) \o x
<1>1. x \in Seq(Byte) /\ m.type \in 1 .. 10 /\ 1 + b \in Uint(4)
  BY AllInverted DEF Framed, Inverted
<1>2. t \in Seq(Byte) /\ Len(t) = 1 /\ t[1] = m.type
  BY <1>1, Bases DEF Byte
<1>3. p \in Seq(Byte) /\ Len(p) = 4
  BY <1>1, PutUint
<1>4. Frame(m) = f
  BY DEF Frame
<1>5. b \in Nat /\ b = Len(x)
  BY <1>1
<1> HIDE DEF x, t, p, b
<1>6. p \o t \in Seq(Byte) /\ Len(p \o t) = 5
  <2>1. p \o t \in Seq(Byte) /\ Len(p \o t) = Len(p) + Len(t)
    BY <1>2, <1>3, ConcatProperties
  <2> QED BY <1>2, <1>3, <2>1
<1>7. f \in Seq(Byte) /\ Len(f) = 5 + b
  <2>1. f \in Seq(Byte) /\ Len(f) = Len(p \o t) + Len(x)
    BY <1>1, <1>6, ConcatProperties
  <2> QED BY <1>5, <1>6, <2>1
<1>8. Placed(f, 0, (p \o t) \o x)
  BY <1>7, PlacedWhole
<1> HIDE DEF f
<1>9. Placed(f, 0, p \o t) /\ Placed(f, 5, x)
  <2>1. Placed(f, 0, p \o t) /\ Placed(f, 0 + Len(p \o t), x)
    BY <1>1, <1>6, <1>7, <1>8, PlacedParts
  <2> QED BY <1>6, <2>1
<1>10. Placed(f, 0, p) /\ Placed(f, 4, t)
  <2>1. Placed(f, 0, p) /\ Placed(f, 0 + Len(p), t)
    BY <1>2, <1>3, <1>7, <1>9, PlacedParts
  <2> QED BY <1>3, <2>1
<1>11. f[5] = m.type
  <2>1. f[4 + 1] = t[1]
    BY <1>2, <1>10 DEF Placed
  <2> QED BY <1>2, <2>1
<1> QED BY <1>1, <1>4, <1>5, <1>7, <1>9, <1>10, <1>11 DEF x, p, b

\* s and the frame of m agree as far as both go.
Begins(s, m) ==
  \A i \in 1 .. Len(s) : i <= Len(Frame(m)) => s[i] = Frame(m)[i]

\* The length of a message is read as soon as its four bytes are there.
LEMMA LengthFirst ==
  ASSUME NEW m, Framed(m), NEW s \in Seq(Byte), Begins(s, m), Len(s) >= 4
  PROVE  BodyLength(s) = 1 + Len(Payload(m))
<1> DEFINE b == 1 + Len(Payload(m))
           p == Put(b, 4)
           f == Frame(m)
<1>1. /\ b \in Uint(4) /\ Placed(f, 0, p) /\ f \in Seq(Byte) /\ Len(f) >= 5
      /\ p \in Seq(Byte) /\ Len(p) = 4
  <2>1. b \in Uint(4) /\ Placed(f, 0, p) /\ f \in Seq(Byte)
        /\ Len(f) = 5 + Len(Payload(m)) /\ Len(Payload(m)) \in Nat
    BY Frames
  <2>2. p \in Seq(Byte) /\ Len(p) = 4
    BY <2>1, PutUint
  <2>3. Len(f) >= 5
    BY <2>1
  <2> QED BY <2>1, <2>2, <2>3
<1>2. \A i \in 1 .. Len(s) : i <= Len(f) => s[i] = f[i]
  BY DEF Begins
<1> HIDE DEF b, f, p
<1>3. Placed(s, 0, p)
  <2>1. ASSUME NEW i \in 1 .. 4 PROVE s[0 + i] = p[i]
    <3>1. f[0 + i] = p[i] /\ 0 + i = i
      BY <1>1 DEF Placed
    <3>2. s[i] = f[i]
      BY <1>1, <1>2
    <3> QED BY <3>1, <3>2
  <2> QED BY <1>1, <2>1 DEF Placed
<1>4. Field(s, 0, 4) = b
  BY <1>1, <1>3, FieldOfPlaced DEF p
<1> QED BY <1>4 DEF BodyLength, b

\* A frame that may be read is taken when all of it has come, and not before.
LEMMA TakenWhole ==
  ASSUME NEW m, Framed(m), Fits(m), NEW s \in Seq(Byte), Begins(s, m)
  PROVE  Taken(s) = IF Len(s) < Len(Frame(m)) THEN 0 ELSE Len(Frame(m))
<1> DEFINE b == Len(Payload(m))
<1>1. b \in Nat /\ Len(Frame(m)) = 5 + b /\ 1 + b <= MaxMessageSize
  BY Frames DEF Fits
<1>2. Len(s) >= 4 => BodyLength(s) = 1 + b
  BY LengthFirst
<1> HIDE DEF b
<1>3. 1 + b \in 1 .. MaxMessageSize
  BY <1>1, WireAssumption
<1> QED BY <1>1, <1>2, <1>3 DEF Taken

\* One that is too long is not waited for.
LEMMA TakenTooLong ==
  ASSUME NEW m, Framed(m), ~Fits(m), NEW s \in Seq(Byte), Begins(s, m)
  PROVE  Taken(s) = IF Len(s) < 4 THEN 0 ELSE 4
<1> DEFINE b == Len(Payload(m))
<1>1. b \in Nat /\ ~(1 + b <= MaxMessageSize)
  BY Frames DEF Fits
<1>2. Len(s) >= 4 => BodyLength(s) = 1 + b
  BY LengthFirst
<1> HIDE DEF b
<1>3. 1 + b \notin 1 .. MaxMessageSize
  BY <1>1, WireAssumption
<1> QED BY <1>2, <1>3 DEF Taken

\* What ReadMessage returns for a frame: the message it was made from, or an
\* error if it is too long.
THEOREM ReadsWritten ==
  \A m : Framed(m) => ReadMessage(Frame(m)) = IF Fits(m) THEN m ELSE Garbled
<1> SUFFICES ASSUME NEW m, Framed(m)
             PROVE  ReadMessage(Frame(m)) = IF Fits(m) THEN m ELSE Garbled
  OBVIOUS
<1> DEFINE f == Frame(m)
           x == Payload(m)
<1>1. /\ f \in Seq(Byte) /\ Len(f) = 5 + Len(x) /\ Len(x) \in Nat
      /\ f[5] = m.type /\ Placed(f, 5, x)
  BY Frames
<1>2. x \in Seq(Byte) /\ Decode(m.type, x) = m
  BY AllInverted DEF Framed, Inverted
<1>3. Begins(f, m)
  BY DEF Begins
<1>4. Fits(m) => Taken(f) = 5 + Len(x)
  <2>1. Fits(m) => Taken(f) = Len(f)
    BY <1>1, <1>3, TakenWhole
  <2> QED BY <1>1, <2>1
<1>5. ~Fits(m) => Taken(f) = 4
  BY <1>1, <1>3, TakenTooLong
<1>6. Slice(f, 5, Len(x)) = x
  BY <1>1, <1>2, SliceOfPlaced
<1> HIDE DEF f, x
<1>7. CASE Fits(m)
  <2>1. Taken(f) # 4 /\ Taken(f) - 5 = Len(x)
    BY <1>1, <1>4, <1>7
  <2>2. ReadMessage(f) = Decode(m.type, x)
    BY <1>1, <1>6, <2>1 DEF ReadMessage
  <2> QED BY <1>2, <1>7, <2>2 DEF f
<1>8. CASE ~Fits(m)
  BY <1>5, <1>8 DEF ReadMessage, f
<1> QED BY <1>7, <1>8
=============================================================================
