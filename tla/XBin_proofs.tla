----------------------------- MODULE XBin_proofs -----------------------------
(***************************************************************************)
(* What becomes of a program that is saved to a bytecode file and loaded:  *)
(* first of its numbers, for bytes of every width, then of all its fields, *)
(* for programs of every length and files cut anywhere.                    *)
(***************************************************************************)
EXTENDS XBin, XStack_proofs

LEMMA HalvesGrow ==
  /\ Half1 \in Nat /\ Half2 \in Nat /\ Half \in Nat /\ Half8 \in Nat
  /\ 0 < Half1 /\ 2 * Half1 <= Half2 /\ 2 * Half2 <= Half /\ 2 * Half <= Half8
  /\ \A size \in Sizes : HalfOf(size) \in {Half1, Half2, Half, Half8}
  BY SizeAssumption, WidthAssumption DEF Sizes, HalfOf

\* A quotient and a remainder determine each other.
LEMMA RemainderUnique ==
  ASSUME NEW m \in Nat, m > 0, NEW p \in Int, NEW q \in Int,
         NEW r \in 0 .. (m - 1), NEW s \in 0 .. (m - 1), m * p + r = m * q + s
  PROVE  r = s
  <1>1. m * (p - q) = s - r
    OBVIOUS
  <1>2. p - q < 1
    <2>1. SUFFICES ASSUME p - q >= 1 PROVE FALSE
      OBVIOUS
    <2>2. m * (p - q) >= m
      BY <2>1
    <2> QED
      BY <1>1, <2>2
  <1>3. p - q > -1
    <2>1. SUFFICES ASSUME p - q <= -1 PROVE FALSE
      OBVIOUS
    <2>2. m * (p - q) <= -m
      BY <2>1
    <2> QED
      BY <1>1, <2>2
  <1>4. p = q
    BY <1>2, <1>3
  <1> QED
    BY <1>1, <1>4

\* A whole turn of an int leaves it where it is.
LEMMA WrapTurn == ASSUME NEW x \in Int PROVE Wrap(x - 2 * Half) = Wrap(x)
  <1> DEFINE m == 2 * Half
             y == x + Half
             z == x - m + Half
  <1>1. m \in Nat /\ m > 0 /\ y \in Int /\ z \in Int /\ z = y - m
    BY WidthAssumption
  <1> DEFINE p == (y \div m) - 1
             q == z \div m
             r == y % m
             s == z % m
  <1> HIDE DEF m, y, z
  <1>2. y \div m \in Int /\ r \in 0 .. (m - 1) /\ y = m * (y \div m) + r
    BY <1>1
  <1>3. q \in Int /\ s \in 0 .. (m - 1) /\ z = m * q + s
    BY <1>1
  <1>4. p \in Int /\ m * p + r = m * q + s
    BY <1>1, <1>2, <1>3
  <1> HIDE DEF p, q, r, s
  <1>5. r = s
    BY <1>1, <1>2, <1>3, <1>4, RemainderUnique
  <1> QED
    BY <1>5 DEF Wrap, m, y, z, r, s

\* optimal_size chooses a size whose bytes hold the number.
THEOREM ChosenSizeFits ==
  ASSUME NEW x \in Longs
  PROVE  /\ OptimalSize(x) \in Sizes /\ Fits(x, OptimalSize(x))
         /\ BytesOf(x, OptimalSize(x)) \in 0 .. (2 * HalfOf(OptimalSize(x)) - 1)
  BY HalvesGrow DEF OptimalSize, Sizes, Fits, BytesOf, HalfOf, Longs

\* load_xbin and load_bytecode_from_memory read four bytes differently, one as
\* an unsigned and one as a signed number; the `int` an instruction makes of
\* them is the same for all bytes a file can hold.
THEOREM LoadersAgree ==
  ASSUME NEW size \in Sizes, NEW b \in 0 .. (2 * HalfOf(size) - 1)
  PROVE  Wrap(FileNumber(b, size)) = Wrap(MemoryNumber(b, size))
  <1>1. b \in Int /\ Half \in Int
    BY HalvesGrow
  <1>2. CASE size # 4
    BY <1>2 DEF FileNumber, MemoryNumber
  <1>3. CASE size = 4
    BY <1>1, <1>3, WrapTurn DEF FileNumber, MemoryNumber, SignedOf, HalfOf
  <1> QED
    BY <1>2, <1>3

\* A number that is saved and loaded is the same `int` for the program unless
\* it fills one or two unsigned bytes up to the top bit; then it comes back
\* smaller by the range of those bytes.
THEOREM NumbersLoaded ==
  ASSUME NEW x \in Longs, NEW l \in Loaders
  PROVE  LET size == OptimalSize(x) IN
         Wrap(NumberRead(l, BytesOf(x, size), size)) = IntLoaded(x)
  <1> DEFINE size == OptimalSize(x)
             b == BytesOf(x, size)
             damaged == \/ x \in Half1 .. (2 * Half1 - 1)
                        \/ x \in Half2 .. (2 * Half2 - 1)
  <1>1. size \in Sizes /\ Fits(x, size) /\ b \in 0 .. (2 * HalfOf(size) - 1)
    BY ChosenSizeFits
  <1>2. Wrap(NumberRead(l, b, size)) = Wrap(SignedOf(b, size))
    BY <1>1, LoadersAgree DEF NumberRead, MemoryNumber
  <1>3. x \in Int /\ Half \in Int
    BY HalvesGrow DEF Longs
  <1>4. CASE size = 4
    <2>1. SignedOf(b, size) \in {x, x - 2 * Half}
      BY <1>1, <1>3, <1>4 DEF SignedOf, BytesOf, HalfOf, Fits
    <2>2. ~damaged
      BY <1>4, HalvesGrow DEF OptimalSize, Fits, HalfOf
    <2> QED
      BY <1>2, <1>3, <2>1, <2>2, WrapTurn DEF IntLoaded
  <1>5. CASE size = 8
    <2>1. SignedOf(b, size) = x
      BY <1>1, <1>3, <1>5, HalvesGrow DEF SignedOf, BytesOf, HalfOf, Longs, Fits
    <2>2. ~damaged
      BY <1>5, HalvesGrow DEF OptimalSize, Fits, HalfOf
    <2> QED
      BY <1>2, <2>1, <2>2 DEF IntLoaded
  <1>6. CASE size \in {1, 2} /\ damaged
    <2>1. SignedOf(b, size) = IntLoaded(x) /\ IntLoaded(x) \in Ints
      BY <1>3, <1>6, HalvesGrow
      DEF SignedOf, BytesOf, HalfOf, IntLoaded, Ints, OptimalSize, Fits
    <2> QED
      BY <1>2, <2>1, WrapFits
  <1>7. CASE size \in {1, 2} /\ ~damaged
    <2>1. SignedOf(b, size) = x
      BY <1>1, <1>3, <1>7, HalvesGrow DEF SignedOf, BytesOf, HalfOf, OptimalSize, Fits
    <2> QED
      BY <1>2, <1>7, <2>1 DEF IntLoaded
  <1> QED
    BY <1>1, <1>4, <1>5, <1>6, <1>7 DEF Sizes

----------------------------------------------------------------------------
(* Where the elements of a sequence of sequences are once it is flattened.  *)

LEMMA FlattenIsFlat == ASSUME NEW ss PROVE FlattenSeq(ss) = Flat(ss)
  BY DEF FlattenSeq, Flat

\* The joins of the first k sequences, for every k.
LEMMA Joins ==
  ASSUME NEW F, NEW ss \in Seq(Seq(F))
  PROVE  \E j \in [0 .. Len(ss) -> Seq(F)] :
            /\ j[0] = <<>> /\ j[Len(ss)] = FlattenSeq(ss)
            /\ \A k \in 1 .. Len(ss) : j[k] = j[k - 1] \o ss[k]
  BY FlatJoins, FlattenIsFlat

\* FlattenSeq stays in every set that is closed under concatenation.
LEMMA FlattenIn ==
  ASSUME NEW F, NEW S \in SUBSET Seq(F), <<>> \in S, \A s, t \in S : s \o t \in S,
         NEW ss \in Seq(S)
  PROVE  FlattenSeq(ss) \in S
  BY FlatIn, FlattenIsFlat

\* j[k] is what the first k of n sequences make, one behind the other.
Joined(j, t, n) == \A k \in 1 .. n : j[k] = j[k - 1] \o t[k]
Growing(j, n) ==
  \A k, m \in 0 .. n :
     k <= m => Len(j[k]) <= Len(j[m]) /\ \A i \in 1 .. Len(j[k]) : j[m][i] = j[k][i]

\* A join starts with every earlier one.
LEMMA LaterJoins ==
  ASSUME NEW F, NEW n \in Nat, NEW j \in [0 .. n -> Seq(F)], NEW t \in [1 .. n -> Seq(F)],
         Joined(j, t, n)
  PROVE  Growing(j, n)
  <1> SUFFICES ASSUME NEW k \in 0 .. n, NEW m \in 0 .. n, k <= m
               PROVE  Len(j[k]) <= Len(j[m]) /\ \A i \in 1 .. Len(j[k]) : j[m][i] = j[k][i]
    BY DEF Growing
  <1> DEFINE P(l) == l \in k .. n => /\ Len(j[k]) <= Len(j[l])
                                     /\ \A i \in 1 .. Len(j[k]) : j[l][i] = j[k][i]
             S == {l \in Nat : P(l)}
  <1>1. \A l \in 0 .. n : Len(j[l]) \in Nat
    BY LenProperties
  <1>2. 0 \in S
    BY <1>1
  <1>3. ASSUME NEW l \in Nat, l \in S PROVE l + 1 \in S
    <2>1. SUFFICES ASSUME l + 1 \in k .. n PROVE P(l + 1)
      OBVIOUS
    <2>2. CASE l + 1 = k
      BY <1>1, <2>2
    <2>3. CASE l + 1 # k
      <3>1. l \in k .. n /\ l \in 0 .. n /\ l + 1 \in 1 .. n /\ (l + 1) - 1 = l
        BY <2>1, <2>3
      <3>2. j[l + 1] = j[l] \o t[l + 1] /\ j[l] \in Seq(F) /\ t[l + 1] \in Seq(F)
        BY <3>1 DEF Joined
      <3>3. Len(j[l + 1]) = Len(j[l]) + Len(t[l + 1]) /\ Len(t[l + 1]) \in Nat
            /\ \A i \in 1 .. Len(j[l]) : j[l + 1][i] = j[l][i]
        <4> DEFINE a == j[l]
                   b == t[l + 1]
                   c == j[l + 1]
        <4>1. c = a \o b /\ a \in Seq(F) /\ b \in Seq(F)
          BY <3>2
        <4> HIDE DEF a, b, c
        <4>2. Len(a) \in Nat /\ Len(b) \in Nat
          BY <4>1, LenProperties
        <4>3. Len(c) = Len(a) + Len(b)
          BY <4>1, ConcatProperties
        <4>4. \A i \in 1 .. Len(a) : c[i] = a[i]
          BY <4>1, <4>2, ConcatProperties
        <4> QED
          BY <4>2, <4>3, <4>4 DEF a, b, c
      <3>4. Len(j[k]) <= Len(j[l]) /\ \A i \in 1 .. Len(j[k]) : j[l][i] = j[k][i]
        BY <1>3, <3>1
      <3>5. Len(j[k]) \in Nat /\ Len(j[l]) \in Nat
        BY <1>1, <3>1
      <3> DEFINE x == Len(j[k])
                 y == Len(j[l])
                 z == Len(j[l + 1])
      <3>6. x \in Nat /\ y \in Nat /\ x <= y /\ z = y + Len(t[l + 1]) /\ Len(t[l + 1]) \in Nat
        BY <3>3, <3>4, <3>5
      <3>7. x <= z
        <4> HIDE DEF x, y, z
        <4> QED
          BY <3>6
      <3>8. ASSUME NEW i \in 1 .. x PROVE j[l + 1][i] = j[k][i]
        <4>1. i \in 1 .. y
          <5> HIDE DEF x, y
          <5> QED
            BY <3>6
        <4> QED
          BY <3>3, <3>4, <4>1
      <3> QED
        BY <3>7, <3>8
    <2> QED
      BY <2>2, <2>3
  <1>4. m \in S
    <2>1. m \in Nat
      OBVIOUS
    <2> HIDE DEF S
    <2> QED
      BY <1>2, <1>3, <2>1, InductionOnSet
  <1> QED
    BY <1>4

\* o[k] is where the k-th sequence ends in the joined one.
IsOffsets(o, ss) ==
  /\ o \in [0 .. Len(ss) -> Nat]
  /\ o[0] = 0 /\ o[Len(ss)] = Len(FlattenSeq(ss))
  /\ \A k \in 1 .. Len(ss) :
        /\ o[k] = o[k - 1] + Len(ss[k]) /\ o[k] <= Len(FlattenSeq(ss))
        /\ \A i \in 1 .. Len(ss[k]) : FlattenSeq(ss)[o[k - 1] + i] = ss[k][i]
Offsets(ss) == CHOOSE o : IsOffsets(o, ss)

LEMMA OffsetsExist ==
  ASSUME NEW F, NEW ss \in Seq(Seq(F))
  PROVE  FlattenSeq(ss) \in Seq(F) /\ IsOffsets(Offsets(ss), ss)
  <1>1. Len(ss) \in Nat /\ \A k \in 1 .. Len(ss) : ss[k] \in Seq(F)
    BY LenProperties, ElementOfSeq
  <1>2. PICK j \in [0 .. Len(ss) -> Seq(F)] :
            /\ j[0] = <<>> /\ j[Len(ss)] = FlattenSeq(ss)
            /\ \A k \in 1 .. Len(ss) : j[k] = j[k - 1] \o ss[k]
    BY Joins
  <1> DEFINE t == FlattenSeq(ss)
             n == Len(ss)
             o == [k \in 0 .. n |-> Len(j[k])]
  <1>3. t \in Seq(F)
    BY <1>1, <1>2
  <1>4. ss \in [1 .. n -> Seq(F)]
    BY <1>1, LenProperties
  <1>5. o \in [0 .. n -> Nat] /\ o[0] = 0 /\ o[n] = Len(t)
    BY <1>1, <1>2, LenProperties
  <1>6. ASSUME NEW k \in 1 .. n
        PROVE  /\ o[k] = o[k - 1] + Len(ss[k]) /\ o[k] <= Len(t)
               /\ \A i \in 1 .. Len(ss[k]) : t[o[k - 1] + i] = ss[k][i]
    <2>1. k \in 0 .. n /\ k - 1 \in 0 .. n /\ n \in 0 .. n /\ k <= n
      BY <1>1
    <2>2. j[k] = j[k - 1] \o ss[k] /\ j[k - 1] \in Seq(F) /\ ss[k] \in Seq(F)
      BY <1>1, <1>2, <2>1
    <2>3. /\ Len(j[k]) = Len(j[k - 1]) + Len(ss[k])
          /\ Len(j[k - 1]) \in Nat /\ Len(ss[k]) \in Nat
          /\ \A i \in 1 .. Len(ss[k]) : j[k][Len(j[k - 1]) + i] = ss[k][i]
      BY <2>2, LenProperties, ConcatProperties
    <2>4. Len(j[k]) <= Len(t) /\ \A i \in 1 .. Len(j[k]) : t[i] = j[k][i]
      <3>1. Len(j[k]) <= Len(j[n]) /\ \A i \in 1 .. Len(j[k]) : j[n][i] = j[k][i]
        <4>1. n \in Nat /\ j \in [0 .. n -> Seq(F)]
              /\ \A l \in 1 .. n : j[l] = j[l - 1] \o ss[l]
          BY <1>1, <1>2
        <4>2. k \in 0 .. n /\ n \in 0 .. n /\ k <= n
          BY <2>1
        <4> HIDE DEF n
        <4>3. Joined(j, ss, n)
          BY <4>1 DEF Joined
        <4>4. Growing(j, n)
          BY <1>4, <4>1, <4>3, LaterJoins
        <4> QED
          BY <4>2, <4>4 DEF Growing
      <3> QED
        BY <1>2, <3>1
    <2>5. \A i \in 1 .. Len(ss[k]) : Len(j[k - 1]) + i \in 1 .. Len(j[k])
      <3> DEFINE a == Len(j[k - 1]) b == Len(ss[k]) c == Len(j[k])
      <3>1. a \in Nat /\ b \in Nat /\ c = a + b
        BY <2>3
      <3> HIDE DEF a, b, c
      <3>2. \A i \in 1 .. b : a + i \in 1 .. c
        BY <3>1
      <3> QED
        BY <3>2 DEF a, b, c
    <2>6. o[k] = Len(j[k]) /\ o[k - 1] = Len(j[k - 1])
      BY <2>1
    <2> HIDE DEF o
    <2> QED
      BY <2>3, <2>4, <2>5, <2>6
  <1>7. IsOffsets(o, ss)
    <2> HIDE DEF o
    <2> QED
      BY <1>5, <1>6 DEF IsOffsets
  <1> QED
    <2> HIDE DEF o
    <2> QED
      BY <1>3, <1>7 DEF Offsets

----------------------------------------------------------------------------
(* Flags.                                                                  *)

FlagList == {s \in Seq(FlagNames) : IsInjective(s)}

\* add_flag adds a flag once.
LEMMA AddFlagKeeps ==
  ASSUME NEW s \in FlagList, NEW f \in FlagNames
  PROVE  /\ AddFlag(s, f) \in FlagList
         /\ \A x : Contains(AddFlag(s, f), x) <=> Contains(s, x) \/ x = f
  <1>1. s \in Seq(FlagNames) /\ Len(s) \in Nat /\ DOMAIN s = 1 .. Len(s)
    BY LenProperties DEF FlagList
  <1>2. CASE Contains(s, f)
    BY <1>2 DEF AddFlag, Contains
  <1>3. CASE ~Contains(s, f)
    <2> DEFINE t == Append(s, f)
    <2>1. /\ t \in Seq(FlagNames) /\ Len(t) = Len(s) + 1 /\ t[Len(s) + 1] = f
          /\ \A i \in 1 .. Len(s) : t[i] = s[i]
      BY <1>1, AppendProperties
    <2>2. DOMAIN t = 1 .. (Len(s) + 1)
      BY <2>1, LenProperties
    <2>3. AddFlag(s, f) = t
      BY <1>3 DEF AddFlag
    <2> HIDE DEF t
    <2>4. \A i \in 1 .. Len(s) : s[i] # f
      BY <1>3 DEF Contains
    <2>5. ASSUME NEW a \in 1 .. (Len(s) + 1), NEW b \in 1 .. (Len(s) + 1), t[a] = t[b]
          PROVE  a = b
      <3>1. CASE a \in 1 .. Len(s) /\ b \in 1 .. Len(s)
        BY <1>1, <2>1, <2>5, <3>1 DEF FlagList, IsInjective
      <3>2. a \in 1 .. Len(s) \/ a = Len(s) + 1
        BY <1>1
      <3>3. b \in 1 .. Len(s) \/ b = Len(s) + 1
        BY <1>1
      <3> QED
        BY <2>1, <2>4, <2>5, <3>1, <3>2, <3>3
    <2>6. t \in FlagList
      BY <2>1, <2>2, <2>5 DEF FlagList, IsInjective
    <2>7. ASSUME NEW x PROVE Contains(t, x) <=> Contains(s, x) \/ x = f
      <3>1. \A i \in 1 .. (Len(s) + 1) : i \in 1 .. Len(s) \/ i = Len(s) + 1
        BY <1>1
      <3>2. \A i \in 1 .. Len(s) : i \in 1 .. (Len(s) + 1)
        BY <1>1
      <3>3. Len(s) + 1 \in 1 .. (Len(s) + 1)
        BY <1>1
      <3> QED
        BY <2>1, <3>1, <3>2, <3>3 DEF Contains
    <2> QED
      BY <2>3, <2>6, <2>7
  <1> QED
    BY <1>2, <1>3

\* There are four kinds of flags.
LEMMA FewFlags == ASSUME NEW s \in FlagList PROVE Len(s) <= 4
  <1>1. Len(s) \in Nat /\ DOMAIN s = 1 .. Len(s) /\ \A i \in 1 .. Len(s) : s[i] \in FlagNames
    BY LenProperties, ElementOfSeq DEF FlagList
  <1>2. SUFFICES ASSUME Len(s) >= 5 PROVE FALSE
    BY <1>1
  <1>3. \A i \in 1 .. 5 : i \in 1 .. Len(s)
    BY <1>1, <1>2
  <1>4. \A i, j \in 1 .. 5 : s[i] = s[j] => i = j
    BY <1>1, <1>3 DEF FlagList, IsInjective
  <1>5. s[1] \in FlagNames /\ s[2] \in FlagNames /\ s[3] \in FlagNames /\ s[4] \in FlagNames
        /\ s[5] \in FlagNames
    BY <1>1, <1>3
  <1> QED
    BY <1>4, <1>5 DEF FlagNames

\* The recursive function in SetFlags.
Flagging(f, b, c, n) == f = [k \in 0 .. n |-> IF k = 0 THEN b ELSE FlagInstr(f[k - 1], c[k])]

LEMMA FlagsExist ==
  ASSUME NEW b, NEW c, NEW n \in Nat
  PROVE  \E f : Flagging(f, b, c, n)
  <1> DEFINE G(f, m) == f = [k \in 0 .. m |-> IF k = 0 THEN b ELSE FlagInstr(f[k - 1], c[k])]
             S == {m \in Nat : \E f : G(f, m)}
  <1>1. 0 \in S
    <2>1. G([k \in 0 .. 0 |-> b], 0)
      OBVIOUS
    <2> QED
      BY <2>1
  <1>2. ASSUME NEW m \in Nat, m \in S PROVE m + 1 \in S
    <2>1. PICK f : G(f, m)
      BY <1>2
    <2> DEFINE g == [k \in 0 .. (m + 1) |-> IF k = m + 1 THEN FlagInstr(f[m], c[k]) ELSE f[k]]
    <2>2. ASSUME NEW k \in 0 .. (m + 1)
          PROVE  g[k] = IF k = 0 THEN b ELSE FlagInstr(g[k - 1], c[k])
      <3>1. CASE k = m + 1
        <4>1. k # 0 /\ k - 1 = m /\ m \in 0 .. (m + 1) /\ m # m + 1
          BY <3>1
        <4> QED
          BY <3>1, <4>1
      <3>2. CASE k # m + 1
        <4>1. k \in 0 .. m /\ (k # 0 => k - 1 \in 0 .. (m + 1) /\ k - 1 # m + 1)
          BY <3>2
        <4>2. f[k] = IF k = 0 THEN b ELSE FlagInstr(f[k - 1], c[k])
          BY <2>1, <4>1
        <4> QED
          BY <3>2, <4>1, <4>2
      <3> QED
        BY <3>1, <3>2
    <2>3. G(g, m + 1)
      <3>1. g = [k \in 0 .. (m + 1) |-> g[k]]
        OBVIOUS
      <3> HIDE DEF g
      <3> QED
        BY <2>2, <3>1
    <2>4. m + 1 \in Nat
      OBVIOUS
    <2> HIDE DEF g, G
    <2> QED
      BY <2>3, <2>4
  <1>3. n \in S
    <2> HIDE DEF S
    <2> QED
      BY <1>1, <1>2, InductionOnSet
  <1> QED
    BY <1>3 DEF Flagging

\* What set_flags does for one instruction.
LEMMA FlagInstrKeeps ==
  ASSUME NEW s \in FlagList, NEW i
  PROVE  /\ FlagInstr(s, i) \in FlagList
         /\ Contains(FlagInstr(s, i), "xcall") <=> Contains(s, "xcall") \/ i.op = "xcall"
  <1>1. FlagOf(i.op) \in {"stack", "memory", "xcall", "none"}
        /\ (FlagOf(i.op) = "xcall" <=> i.op = "xcall")
    BY DEF FlagOf
  <1>2. CASE FlagOf(i.op) = "none"
    BY <1>1, <1>2 DEF FlagInstr
  <1>3. CASE FlagOf(i.op) # "none"
    <2>1. FlagOf(i.op) \in FlagNames
      BY <1>1, <1>3 DEF FlagNames
    <2>2. FlagInstr(s, i) = AddFlag(s, FlagOf(i.op))
      BY <1>3 DEF FlagInstr
    <2> QED
      BY <1>1, <2>1, <2>2, AddFlagKeeps
  <1> QED
    BY <1>2, <1>3

\* The flags create_xbin saves: each once, and that of xcall for a program
\* with an xcall.
LEMMA SavedFlags ==
  ASSUME NEW p, IsProgram(p)
  PROVE  SetFlags(p) \in FlagList /\ (Contains(SetFlags(p), "xcall") <=> HasXcall(p.code))
  <1> DEFINE n == Len(p.code)
             f == CHOOSE g : Flagging(g, p.flags, p.code, n)
  <1>1. p.flags \in FlagList /\ n \in Nat /\ (Contains(p.flags, "xcall") => HasXcall(p.code))
    BY LenProperties DEF IsProgram, FlagList
  <1>2. SetFlags(p) = f[n]
    BY DEF SetFlags, Flagging
  <1>3. Flagging(f, p.flags, p.code, n)
    BY <1>1, FlagsExist
  <1> HIDE DEF f
  <1>4. f[0] = p.flags /\ \A k \in 1 .. n : f[k] = FlagInstr(f[k - 1], p.code[k])
    BY <1>1, <1>3 DEF Flagging
  <1> DEFINE P(k) == /\ f[k] \in FlagList
                     /\ Contains(f[k], "xcall") => HasXcall(p.code)
                     /\ (\E i \in 1 .. k : p.code[i].op = "xcall") => Contains(f[k], "xcall")
             S == {k \in Nat : k \in 0 .. n => P(k)}
  <1>5. 0 \in S
    BY <1>1, <1>4
  <1>6. ASSUME NEW k \in Nat, k \in S PROVE k + 1 \in S
    <2>1. SUFFICES ASSUME k + 1 \in 0 .. n PROVE P(k + 1)
      OBVIOUS
    <2>2. k \in 0 .. n /\ k + 1 \in 1 .. n /\ (k + 1) - 1 = k
      BY <1>1, <2>1
    <2>3. P(k) /\ f[k + 1] = FlagInstr(f[k], p.code[k + 1])
      BY <1>4, <1>6, <2>2
    <2>4. /\ f[k + 1] \in FlagList
          /\ Contains(f[k + 1], "xcall") <=> Contains(f[k], "xcall") \/ p.code[k + 1].op = "xcall"
      BY <2>3, FlagInstrKeeps
    <2>5. \A i \in 1 .. (k + 1) : i \in 1 .. k \/ i = k + 1
      OBVIOUS
    <2> QED
      BY <2>2, <2>3, <2>4, <2>5 DEF HasXcall
  <1>7. n \in S
    <2> HIDE DEF S
    <2> QED
      BY <1>1, <1>5, <1>6, InductionOnSet
  <1> QED
    BY <1>1, <1>2, <1>7 DEF HasXcall

----------------------------------------------------------------------------
(* The fields of a file.                                                   *)

FieldKinds == {"meta", "text", "count", "opcode", "type", "register", "size", "bytes", "address"}
FieldSet == [kind : FieldKinds,
             val : STRING \cup {"R", "N", "S", "filename"} \cup Int \cup Seq(FlagNames)]

\* Fields without a header, in which every number fits its size.
Sized(s, i) == i > 1 /\ s[i].val \in 0 .. (2 * HalfOf(s[i - 1].val) - 1)
Plain == {s \in Seq(FieldSet) :
            \A i \in 1 .. Len(s) : s[i].kind # "meta" /\ (s[i].kind = "bytes" => Sized(s, i))}

LEMMA PlainJoins ==
  /\ <<>> \in Plain
  /\ \A s, t \in Plain : s \o t \in Plain
  <1>1. <<>> \in Plain
    BY EmptySeq DEF Plain
  <1>2. ASSUME NEW s \in Plain, NEW t \in Plain PROVE s \o t \in Plain
    <2> DEFINE w == s \o t
    <2>1. s \in Seq(FieldSet) /\ t \in Seq(FieldSet) /\ Len(s) \in Nat /\ Len(t) \in Nat
      BY LenProperties DEF Plain
    <2>2. /\ w \in Seq(FieldSet) /\ Len(w) = Len(s) + Len(t)
          /\ \A i \in 1 .. Len(s) : w[i] = s[i]
          /\ \A i \in 1 .. Len(w) : i > Len(s) => w[i] = t[i - Len(s)]
      BY <2>1, ConcatProperties
    <2> HIDE DEF w
    <2>3. ASSUME NEW i \in 1 .. Len(w)
          PROVE  w[i].kind # "meta" /\ (w[i].kind = "bytes" => Sized(w, i))
      <3>1. CASE i \in 1 .. Len(s)
        <4>1. w[i] = s[i] /\ (i > 1 => i - 1 \in 1 .. Len(s))
          BY <2>1, <2>2, <3>1
        <4>2. i > 1 => w[i - 1] = s[i - 1]
          BY <2>2, <4>1
        <4> QED
          BY <3>1, <4>1, <4>2 DEF Plain, Sized
      <3>2. CASE i > Len(s)
        <4> DEFINE k == i - Len(s)
        <4>1. k \in 1 .. Len(t) /\ w[i] = t[k]
          BY <2>1, <2>2, <3>2
        <4>2. k > 1 => i - 1 \in 1 .. Len(w) /\ i - 1 > Len(s) /\ (i - 1) - Len(s) = k - 1
          BY <2>1, <2>2, <3>2
        <4>3. k > 1 => w[i - 1] = t[k - 1]
          BY <2>2, <4>2
        <4>4. k > 1 => i > 1
          BY <2>1, <3>2
        <4> HIDE DEF k
        <4> QED
          BY <4>1, <4>3, <4>4 DEF Plain, Sized
      <3> QED
        BY <2>1, <3>1, <3>2
    <2> QED
      BY <2>2, <2>3 DEF Plain, w
  <1> QED
    BY <1>1, <1>2

LEMMA PlainFlattens == ASSUME NEW ss \in Seq(Plain) PROVE FlattenSeq(ss) \in Plain
  <1>1. Plain \in SUBSET Seq(FieldSet)
    BY DEF Plain
  <1> QED
    BY <1>1, PlainJoins, FlattenIn

LEMMA FieldIn ==
  ASSUME NEW k \in FieldKinds, NEW v,
         v \in STRING \/ v \in {"R", "N", "S", "filename"} \/ v \in Int \/ v \in Seq(FlagNames)
  PROVE  Field(k, v) \in FieldSet
  BY DEF FieldSet, Field

LEMMA FieldParts == \A k, v : Field(k, v).kind = k /\ Field(k, v).val = v
  BY DEF Field

LEMMA PairIsPlain ==
  ASSUME NEW a \in FieldSet, NEW b \in FieldSet,
         a.kind \notin {"meta", "bytes"}, b.kind \notin {"meta", "bytes"}
  PROVE  <<a, b>> \in Plain
  <1> DEFINE s == <<a, b>>
  <1>1. s \in Seq(FieldSet) /\ Len(s) = 2 /\ s[1] = a /\ s[2] = b
    OBVIOUS
  <1>2. \A i \in 1 .. 2 : i = 1 \/ i = 2
    OBVIOUS
  <1> HIDE DEF s
  <1>3. s \in Plain
    BY <1>1, <1>2 DEF Plain
  <1> QED
    BY <1>3 DEF s

\* The operand that the fields f stand for.
Decoded(l, f) == CASE f[1].val = "R" -> RegOp(f[2].val)
                   [] f[1].val = "N" -> NumOp(NumberRead(l, f[3].val, f[2].val))
                   [] OTHER -> TextOp(f[2].val)

ReadOperands == [kind : {"reg"}, reg : STRING] \cup [kind : {"num"}, num : Int]
                  \cup [kind : {"text"}, text : STRING]

\* What is written for an operand has the length the loaders expect, and they
\* make of it the operand it was, but for the numbers IntLoaded tells of.
LEMMA OperandSaved ==
  ASSUME NEW o \in Operands
  PROVE  /\ OperandFields(o) \in Plain
         /\ Len(OperandFields(o)) \in {2, 3}
         /\ Len(OperandFields(o)) = FieldsOfType(OperandFields(o)[1].val)
         /\ \A l \in Loaders : /\ OperandKept(o, Decoded(l, OperandFields(o)))
                               /\ Decoded(l, OperandFields(o)) \in ReadOperands
  <1>1. CASE o.kind = "reg"
    <2>1. o \in [kind : {"reg"}, reg : STRING]
      BY <1>1 DEF Operands
    <2> DEFINE f == <<Field("type", "R"), Field("register", o.reg)>>
    <2>2. OperandFields(o) = f
      BY <1>1 DEF OperandFields
    <2>3. f \in Plain
      <3> DEFINE x == Field("type", "R")
                 y == Field("register", o.reg)
      <3>1. x \in FieldSet /\ x.kind = "type"
        BY FieldIn, FieldParts DEF FieldKinds
      <3>2. o.reg \in STRING
        BY <2>1
      <3>3. y \in FieldSet /\ y.kind = "register"
        BY <3>2, FieldIn, FieldParts DEF FieldKinds
      <3>4. f = <<x, y>>
        OBVIOUS
      <3> HIDE DEF x, y, f
      <3> QED
        BY <3>1, <3>3, <3>4, PairIsPlain
    <2>4. \A l \in Loaders : Decoded(l, f) = o
      BY <2>1 DEF Decoded, Field, RegOp
    <2>5. Len(f) = 2 /\ f[1].val = "R"
      BY DEF Field
    <2> HIDE DEF f
    <2> QED
      BY <1>1, <2>1, <2>2, <2>3, <2>4, <2>5 DEF OperandKept, FieldsOfType, ReadOperands
  <1>2. CASE o.kind = "num"
    <2>1. o \in [kind : {"num"}, num : Longs]
      BY <1>2 DEF Operands
    <2> DEFINE size == OptimalSize(o.num)
               b == BytesOf(o.num, size)
               f == <<Field("type", "N"), Field("size", size), Field("bytes", b)>>
    <2>2. OperandFields(o) = f
      BY <1>2 DEF OperandFields
    <2>3. size \in Int /\ size \in Sizes /\ b \in Int /\ b \in 0 .. (2 * HalfOf(size) - 1)
      BY <2>1, ChosenSizeFits, HalvesGrow DEF Sizes
    <2>4. \A l \in Loaders : Wrap(NumberRead(l, b, size)) = IntLoaded(o.num)
      BY <2>1, NumbersLoaded
    <2> HIDE DEF size, b
    <2>5. /\ f \in Seq(FieldSet) /\ Len(f) = 3 /\ f[1].val = "N"
          /\ f[2].val = size /\ f[3].val = b
          /\ f[1].kind = "type" /\ f[2].kind = "size" /\ f[3].kind = "bytes"
      <3> DEFINE x == Field("type", "N")
                 y == Field("size", size)
                 z == Field("bytes", b)
      <3>1. x \in FieldSet /\ x.kind = "type" /\ x.val = "N"
        BY FieldIn, FieldParts DEF FieldKinds
      <3>2. y \in FieldSet /\ y.kind = "size" /\ y.val = size
        BY <2>3, FieldIn, FieldParts DEF FieldKinds
      <3>3. z \in FieldSet /\ z.kind = "bytes" /\ z.val = b
        BY <2>3, FieldIn, FieldParts DEF FieldKinds
      <3> HIDE DEF x, y, z
      <3>4. <<x, y, z>> \in Seq(FieldSet)
        BY <3>1, <3>2, <3>3
      <3>5. f = <<x, y, z>>
        BY DEF x, y, z
      <3> HIDE DEF f
      <3> QED
        BY <3>1, <3>2, <3>3, <3>4, <3>5
    <2>6. f \in Plain
      <3> HIDE DEF f
      <3>1. Sized(f, 3)
        BY <2>3, <2>5 DEF Sized
      <3>2. \A i \in 1 .. Len(f) : i \in {1, 2, 3}
        BY <2>5
      <3> QED
        BY <2>5, <3>1, <3>2 DEF Plain
    <2> HIDE DEF f
    <2>7. ASSUME NEW l \in Loaders
          PROVE  OperandKept(o, Decoded(l, f)) /\ Decoded(l, f) \in ReadOperands
      <3>1. Decoded(l, f) = NumOp(NumberRead(l, b, size))
        BY <2>5 DEF Decoded
      <3>2. NumberRead(l, b, size) \in Int
        BY <2>3, HalvesGrow DEF NumberRead, FileNumber, MemoryNumber, SignedOf
      <3>3. Decoded(l, f) \in ReadOperands
        BY <3>1, <3>2 DEF ReadOperands, NumOp
      <3> QED
        BY <1>2, <2>4, <3>1, <3>3 DEF OperandKept, NumOp
    <2> QED
      BY <2>2, <2>5, <2>6, <2>7 DEF FieldsOfType
  <1>3. CASE o.kind \notin {"reg", "num"}
    <2>1. o \in [kind : {"text"}, text : STRING]
      BY <1>3 DEF Operands
    <2> DEFINE f == <<Field("type", "S"), Field("text", o.text)>>
    <2>2. OperandFields(o) = f
      BY <1>3 DEF OperandFields
    <2>3. f \in Plain
      <3> DEFINE x == Field("type", "S")
                 y == Field("text", o.text)
      <3>1. x \in FieldSet /\ x.kind = "type"
        BY FieldIn, FieldParts DEF FieldKinds
      <3>2. o.text \in STRING
        BY <2>1
      <3>3. y \in FieldSet /\ y.kind = "text"
        BY <3>2, FieldIn, FieldParts DEF FieldKinds
      <3>4. f = <<x, y>>
        OBVIOUS
      <3> HIDE DEF x, y, f
      <3> QED
        BY <3>1, <3>3, <3>4, PairIsPlain
    <2>4. \A l \in Loaders : Decoded(l, f) = o
      BY <2>1 DEF Decoded, Field, TextOp
    <2>5. Len(f) = 2 /\ f[1].val = "S"
      BY DEF Field
    <2> HIDE DEF f
    <2> QED
      BY <1>3, <2>1, <2>2, <2>3, <2>4, <2>5 DEF OperandKept, FieldsOfType, ReadOperands
  <1> QED
    BY <1>1, <1>2, <1>3

\* Where the elements of four joined sequences come from.
LEMMA PartsOfFour ==
  ASSUME NEW F, NEW a \in Seq(F), NEW b \in Seq(F), NEW c \in Seq(F), NEW d \in Seq(F),
         NEW w, w = a \o b \o c \o d
  PROVE  /\ w \in Seq(F) /\ Len(w) = Len(a) + Len(b) + Len(c) + Len(d)
         /\ \A i \in 1 .. Len(a) : w[i] = a[i]
         /\ \A i \in 1 .. Len(b) : w[Len(a) + i] = b[i]
         /\ \A i \in 1 .. Len(c) : w[Len(a) + Len(b) + i] = c[i]
         /\ \A i \in 1 .. Len(d) : w[Len(a) + Len(b) + Len(c) + i] = d[i]
  <1> DEFINE u == a \o b
             v == u \o c
  <1>1. Len(a) \in Nat /\ Len(b) \in Nat /\ Len(c) \in Nat /\ Len(d) \in Nat
    BY LenProperties
  <1>2. /\ u \in Seq(F) /\ Len(u) = Len(a) + Len(b)
        /\ \A i \in 1 .. Len(a) : u[i] = a[i]
        /\ \A i \in 1 .. Len(b) : u[Len(a) + i] = b[i]
    BY <1>1, ConcatPlaces
  <1> HIDE DEF u
  <1>3. u \in Seq(F)
    BY <1>2
  <1>4. /\ v \in Seq(F) /\ Len(v) = Len(u) + Len(c)
        /\ \A i \in 1 .. Len(u) : v[i] = u[i]
        /\ \A i \in 1 .. Len(c) : v[Len(u) + i] = c[i]
    BY <1>3, ConcatPlaces
  <1>5. w = v \o d
    BY DEF u
  <1> HIDE DEF v
  <1>6. v \in Seq(F)
    BY <1>4
  <1>7. /\ w \in Seq(F) /\ Len(w) = Len(v) + Len(d)
        /\ \A i \in 1 .. Len(v) : w[i] = v[i]
        /\ \A i \in 1 .. Len(d) : w[Len(v) + i] = d[i]
    BY <1>5, <1>6, ConcatPlaces
  <1>8. /\ \A i \in 1 .. Len(a) : i \in 1 .. Len(u) /\ i \in 1 .. Len(v)
        /\ \A i \in 1 .. Len(b) : Len(a) + i \in 1 .. Len(u) /\ Len(a) + i \in 1 .. Len(v)
        /\ \A i \in 1 .. Len(c) : Len(u) + i \in 1 .. Len(v)
    BY <1>1, <1>2, <1>4
  <1>9. /\ Len(w) = Len(a) + Len(b) + Len(c) + Len(d)
        /\ Len(v) = Len(a) + Len(b) + Len(c) /\ Len(u) = Len(a) + Len(b)
    BY <1>2, <1>4, <1>7
  <1> QED
    BY <1>2, <1>4, <1>7, <1>8, <1>9

\* What the calls of FlattenSeq in InstrFields and Fields join.
ArgBlocks(i) == [k \in 1 .. Len(i.args) |-> OperandFields(i.args[k])]
CodeBlocks(p) == [k \in 1 .. Len(p.code) |-> InstrFields(p.code[k])]
LabelBlocks(p) == [k \in 1 .. Len(p.labels) |-> LabelFields(p.labels[k])]

LEMMA ArgBlocksPlain ==
  ASSUME NEW i \in Instrs
  PROVE  /\ ArgBlocks(i) \in Seq(Plain) /\ Len(ArgBlocks(i)) = Len(i.args)
         /\ Len(i.args) \in Nat
         /\ \A k \in 1 .. Len(i.args) : ArgBlocks(i)[k] = OperandFields(i.args[k])
  <1>1. i.args \in Seq(Operands) /\ Len(i.args) \in Nat
    BY LenProperties DEF Instrs
  <1>2. \A k \in 1 .. Len(i.args) : OperandFields(i.args[k]) \in Plain
    BY <1>1, ElementOfSeq, OperandSaved
  <1> QED
    BY <1>1, <1>2 DEF ArgBlocks

\* Where the operands of an instruction are.
LEMMA InstrPlaces ==
  ASSUME NEW i \in Instrs
  PROVE  /\ InstrFields(i) \in Plain
         /\ InstrFields(i)[1] = Field("opcode", i.op)
         /\ InstrFields(i)[2] = Field("count", Len(i.args))
         /\ Len(InstrFields(i)) = 2 + Len(FlattenSeq(ArgBlocks(i)))
         /\ FlattenSeq(ArgBlocks(i)) \in Plain
         /\ Len(FlattenSeq(ArgBlocks(i))) \in Nat
         /\ \A k \in 1 .. Len(FlattenSeq(ArgBlocks(i))) :
               InstrFields(i)[2 + k] = FlattenSeq(ArgBlocks(i))[k]
  <1> DEFINE x == Field("opcode", i.op)
             y == Field("count", Len(i.args))
             h == <<x, y>>
             t == FlattenSeq(ArgBlocks(i))
  <1>1. x \in FieldSet /\ y \in FieldSet
    <2>1. i.op \in STRING /\ Len(i.args) \in Int
      BY ArgBlocksPlain DEF Instrs
    <2> QED
      BY <2>1, FieldIn DEF FieldKinds
  <1>2. x.kind = "opcode" /\ y.kind = "count"
    BY FieldParts
  <1>3. InstrFields(i) = h \o t
    BY DEF InstrFields, ArgBlocks
  <1> HIDE DEF x, y
  <1>4. h \in Plain /\ Len(h) = 2 /\ h[1] = x /\ h[2] = y
    BY <1>1, <1>2, PairIsPlain
  <1>5. t \in Plain
    BY ArgBlocksPlain, PlainFlattens
  <1> HIDE DEF h, t
  <1>6. h \in Seq(FieldSet) /\ t \in Seq(FieldSet) /\ Len(t) \in Nat
    BY <1>4, <1>5, LenProperties DEF Plain
  <1>7. h \o t \in Plain
    BY <1>4, <1>5, PlainJoins
  <1>8. /\ Len(h \o t) = 2 + Len(t) /\ (h \o t)[1] = x /\ (h \o t)[2] = y
        /\ \A k \in 1 .. Len(t) : (h \o t)[2 + k] = t[k]
    <2>1. /\ Len(h \o t) = Len(h) + Len(t)
          /\ \A k \in 1 .. Len(h) : (h \o t)[k] = h[k]
          /\ \A k \in 1 .. Len(t) : (h \o t)[Len(h) + k] = t[k]
      BY <1>6, ConcatPlaces
    <2> QED
      BY <1>4, <2>1
  <1> QED
    BY <1>3, <1>5, <1>6, <1>7, <1>8 DEF t, x, y

\* What is written for a label.
LEMMA LabelSaved ==
  ASSUME NEW l \in [name : STRING, address : Nat]
  PROVE  /\ LabelFields(l) \in Plain /\ Len(LabelFields(l)) = 2
         /\ LabelFields(l)[1].val = l.name /\ LabelFields(l)[2].val = l.address
  <1> DEFINE x == Field("text", l.name)
             y == Field("address", l.address)
             h == <<x, y>>
  <1>1. x \in FieldSet /\ y \in FieldSet
    <2>1. l.name \in STRING /\ l.address \in Int
      OBVIOUS
    <2> QED
      BY <2>1, FieldIn DEF FieldKinds
  <1>2. x.kind = "text" /\ y.kind = "address" /\ x.val = l.name /\ y.val = l.address
    BY FieldParts
  <1>3. LabelFields(l) = h
    BY DEF LabelFields
  <1> HIDE DEF x, y
  <1>4. h \in Plain /\ Len(h) = 2 /\ h[1] = x /\ h[2] = y
    BY <1>1, <1>2, PairIsPlain
  <1> HIDE DEF h
  <1> QED
    BY <1>2, <1>3, <1>4

\* What is written for the instructions and the labels of a program.
LEMMA BlocksPlain ==
  ASSUME NEW p, IsProgram(p)
  PROVE  /\ Len(p.code) \in Nat /\ Len(p.labels) \in Nat
         /\ \A k \in 1 .. Len(p.code) : p.code[k] \in Instrs
         /\ CodeBlocks(p) \in Seq(Plain) /\ Len(CodeBlocks(p)) = Len(p.code)
         /\ \A k \in 1 .. Len(p.code) : CodeBlocks(p)[k] = InstrFields(p.code[k])
         /\ LabelBlocks(p) \in Seq(Plain) /\ Len(LabelBlocks(p)) = Len(p.labels)
         /\ \A k \in 1 .. Len(p.labels) : LabelBlocks(p)[k] = LabelFields(p.labels[k])
  <1>1. /\ p.code \in Seq(Instrs) /\ Len(p.code) \in Nat
        /\ p.labels \in Seq([name : STRING, address : Nat]) /\ Len(p.labels) \in Nat
    BY LenProperties DEF IsProgram
  <1>2. \A k \in 1 .. Len(p.code) : p.code[k] \in Instrs /\ InstrFields(p.code[k]) \in Plain
    BY <1>1, ElementOfSeq, InstrPlaces
  <1>3. \A k \in 1 .. Len(p.labels) : LabelFields(p.labels[k]) \in Plain
    BY <1>1, ElementOfSeq, LabelSaved
  <1>4. CodeBlocks(p) \in Seq(Plain) /\ Len(CodeBlocks(p)) = Len(p.code)
    BY <1>1, <1>2 DEF CodeBlocks
  <1>5. LabelBlocks(p) \in Seq(Plain) /\ Len(LabelBlocks(p)) = Len(p.labels)
    BY <1>1, <1>3 DEF LabelBlocks
  <1> QED
    BY <1>1, <1>2, <1>4, <1>5 DEF CodeBlocks, LabelBlocks

Heading(p) == <<Field("meta", SetFlags(p)), Field("text", "filename"),
                Field("count", Len(p.code))>>
CodePart(p) == FlattenSeq(CodeBlocks(p))
LabelPart(p) == FlattenSeq(LabelBlocks(p))

\* Where the k-th instruction ends, its j-th operand, and the l-th label.
CodeAt(p, k) == 3 + Offsets(CodeBlocks(p))[k]
ArgAt(p, k, j) == CodeAt(p, k - 1) + 2 + Offsets(ArgBlocks(p.code[k]))[j]
LabelAt(p, l) == CodeAt(p, Len(p.code)) + 1 + Offsets(LabelBlocks(p))[l]

\* The parts of a file.
LEMMA FieldParts4 ==
  ASSUME NEW p, IsProgram(p)
  PROVE  LET f == Fields(p)
             n == Len(CodePart(p))
         IN
         /\ f \in Seq(FieldSet) /\ n \in Nat /\ Len(LabelPart(p)) \in Nat
         /\ CodePart(p) \in Plain /\ LabelPart(p) \in Plain
         /\ Len(f) = 4 + n + Len(LabelPart(p))
         /\ f[1] = Field("meta", SetFlags(p)) /\ f[2].kind = "text"
         /\ f[3] = Field("count", Len(p.code))
         /\ \A i \in 1 .. n : f[3 + i] = CodePart(p)[i]
         /\ f[3 + n + 1] = Field("count", Len(p.labels))
         /\ \A i \in 1 .. Len(LabelPart(p)) : f[3 + n + 1 + i] = LabelPart(p)[i]
  <1> DEFINE x == Field("meta", SetFlags(p))
             y == Field("text", "filename")
             z == Field("count", Len(p.code))
             q == Field("count", Len(p.labels))
             a == <<x, y, z>>
             b == CodePart(p)
             c == <<q>>
             d == LabelPart(p)
  <1>1. x \in FieldSet /\ y \in FieldSet /\ z \in FieldSet /\ q \in FieldSet
    <2>1. SetFlags(p) \in Seq(FlagNames)
      BY SavedFlags DEF FlagList
    <2>2. Len(p.code) \in Int /\ Len(p.labels) \in Int
      BY BlocksPlain
    <2>3. x \in FieldSet
      BY <2>1, FieldIn DEF FieldKinds
    <2>4. y \in FieldSet
      BY FieldIn DEF FieldKinds
    <2>5. z \in FieldSet
      BY <2>2, FieldIn DEF FieldKinds
    <2>6. q \in FieldSet
      BY <2>2, FieldIn DEF FieldKinds
    <2> QED
      BY <2>3, <2>4, <2>5, <2>6
  <1>2. y.kind = "text"
    BY FieldParts
  <1>3. Fields(p) = a \o b \o c \o d
    BY DEF Fields, CodePart, LabelPart, CodeBlocks, LabelBlocks
  <1> HIDE DEF x, y, z, q
  <1>4. a \in Seq(FieldSet) /\ Len(a) = 3 /\ a[1] = x /\ a[2] = y /\ a[3] = z
    BY <1>1
  <1>5. c \in Seq(FieldSet) /\ Len(c) = 1 /\ c[1] = q
    BY <1>1
  <1>6. b \in Plain /\ d \in Plain
    BY BlocksPlain, PlainFlattens DEF CodePart, LabelPart
  <1> HIDE DEF a, b, c, d
  <1>7. b \in Seq(FieldSet) /\ d \in Seq(FieldSet) /\ Len(b) \in Nat /\ Len(d) \in Nat
    BY <1>6, LenProperties DEF Plain
  <1> DEFINE w == Fields(p)
  <1> HIDE DEF w
  <1>8. w = a \o b \o c \o d
    BY <1>3 DEF w
  <1>9. /\ w \in Seq(FieldSet) /\ Len(w) = Len(a) + Len(b) + Len(c) + Len(d)
        /\ \A i \in 1 .. Len(a) : w[i] = a[i]
        /\ \A i \in 1 .. Len(b) : w[Len(a) + i] = b[i]
        /\ \A i \in 1 .. Len(c) : w[Len(a) + Len(b) + i] = c[i]
        /\ \A i \in 1 .. Len(d) : w[Len(a) + Len(b) + Len(c) + i] = d[i]
    <2>1. a \in Seq(FieldSet) /\ b \in Seq(FieldSet) /\ c \in Seq(FieldSet) /\ d \in Seq(FieldSet)
      BY <1>4, <1>5, <1>7
    <2> QED
      BY <1>8, <2>1, PartsOfFour
  <1>10. Len(w) = 4 + Len(b) + Len(d)
    BY <1>4, <1>5, <1>7, <1>9
  <1>11. w[1] = x /\ w[2] = y /\ w[3] = z
    BY <1>4, <1>9
  <1>12. \A i \in 1 .. Len(b) : w[3 + i] = b[i]
    BY <1>4, <1>9
  <1>13. w[3 + Len(b) + 1] = q
    BY <1>4, <1>5, <1>9
  <1>14. \A i \in 1 .. Len(d) : w[3 + Len(b) + 1 + i] = d[i]
    BY <1>4, <1>5, <1>7, <1>9
  <1> QED
    BY <1>2, <1>6, <1>7, <1>9, <1>10, <1>11, <1>12, <1>13, <1>14 DEF b, d, w, x, y, z, q

LEMMA Inside ==
  ASSUME NEW u \in Nat, NEW v, NEW l \in Nat, NEW m \in Nat, v = u + l, v <= m, NEW i \in 1 .. l
  PROVE  u + i \in 1 .. m
  OBVIOUS

\* Where the fields of an instruction are in the file.
LEMMA CodePlaces ==
  ASSUME NEW p, IsProgram(p)
  PROVE  /\ CodeAt(p, 0) = 3 /\ CodeAt(p, Len(p.code)) = 3 + Len(CodePart(p))
         /\ \A k \in 0 .. Len(p.code) : CodeAt(p, k) \in Nat
         /\ \A k \in 1 .. Len(p.code) :
               /\ CodeAt(p, k) = CodeAt(p, k - 1) + Len(InstrFields(p.code[k]))
               /\ CodeAt(p, k) <= 3 + Len(CodePart(p))
               /\ \A i \in 1 .. Len(InstrFields(p.code[k])) :
                     Fields(p)[CodeAt(p, k - 1) + i] = InstrFields(p.code[k])[i]
  <1> DEFINE ss == CodeBlocks(p)
             o == Offsets(ss)
             t == FlattenSeq(ss)
             n == Len(p.code)
  <1>1. n \in Nat /\ ss \in Seq(Seq(FieldSet)) /\ Len(ss) = n
        /\ \A k \in 1 .. n : ss[k] = InstrFields(p.code[k]) /\ p.code[k] \in Instrs
    BY BlocksPlain, SeqMonotonic DEF Plain
  <1> HIDE DEF ss
  <1>2. IsOffsets(o, ss)
    BY <1>1, OffsetsExist
  <1>3. CodePart(p) = t
    BY DEF CodePart, ss
  <1>4. Len(t) \in Nat /\ \A i \in 1 .. Len(t) : Fields(p)[3 + i] = t[i]
    BY <1>3, FieldParts4
  <1>5. \A k : CodeAt(p, k) = 3 + o[k]
    BY DEF CodeAt, ss
  <1> HIDE DEF o, t, n
  <1>6. /\ o \in [0 .. n -> Nat] /\ o[0] = 0 /\ o[n] = Len(t)
        /\ \A k \in 1 .. n : /\ o[k] = o[k - 1] + Len(ss[k]) /\ o[k] <= Len(t)
                             /\ \A i \in 1 .. Len(ss[k]) : t[o[k - 1] + i] = ss[k][i]
    BY <1>1, <1>2 DEF IsOffsets, t
  <1>7. CodeAt(p, 0) = 3 /\ CodeAt(p, n) = 3 + Len(t)
    BY <1>5, <1>6
  <1>8. \A k \in 0 .. n : CodeAt(p, k) \in Nat
    BY <1>5, <1>6
  <1>9. ASSUME NEW k \in 1 .. n
        PROVE  /\ CodeAt(p, k) = CodeAt(p, k - 1) + Len(ss[k])
               /\ CodeAt(p, k) <= 3 + Len(t)
               /\ \A i \in 1 .. Len(ss[k]) : Fields(p)[CodeAt(p, k - 1) + i] = ss[k][i]
    <2>1. k \in 0 .. n /\ k - 1 \in 0 .. n
      BY <1>1
    <2>2. /\ o[k] \in Nat /\ o[k - 1] \in Nat /\ o[k] = o[k - 1] + Len(ss[k]) /\ o[k] <= Len(t)
          /\ \A i \in 1 .. Len(ss[k]) : t[o[k - 1] + i] = ss[k][i]
      BY <1>6, <2>1
    <2>3. Len(ss[k]) \in Nat
      BY <1>1, ElementOfSeq, LenProperties
    <2>4. ASSUME NEW i \in 1 .. Len(ss[k]) PROVE Fields(p)[CodeAt(p, k - 1) + i] = ss[k][i]
      <3>1. o[k - 1] + i \in 1 .. Len(t)
        BY <1>4, <2>2, <2>3, Inside
      <3>2. CodeAt(p, k - 1) + i = 3 + (o[k - 1] + i)
        BY <1>5, <2>2, <2>3
      <3> QED
        BY <1>4, <2>2, <3>1, <3>2
    <2> QED
      BY <1>5, <2>2, <2>3, <2>4
  <1> QED
    BY <1>1, <1>3, <1>7, <1>8, <1>9 DEF n

\* Where the fields of a label are.
LEMMA LabelPlaces ==
  ASSUME NEW p, IsProgram(p)
  PROVE  /\ LabelAt(p, 0) = CodeAt(p, Len(p.code)) + 1 /\ LabelAt(p, Len(p.labels)) = Len(Fields(p))
         /\ Fields(p)[CodeAt(p, Len(p.code)) + 1].val = Len(p.labels)
         /\ \A k \in 0 .. Len(p.labels) : LabelAt(p, k) \in Nat
         /\ \A k \in 1 .. Len(p.labels) :
               /\ LabelAt(p, k) = LabelAt(p, k - 1) + 2
               /\ Fields(p)[LabelAt(p, k - 1) + 1].val = p.labels[k].name
               /\ Fields(p)[LabelAt(p, k - 1) + 2].val = p.labels[k].address
  <1> DEFINE ss == LabelBlocks(p)
             o == Offsets(ss)
             t == FlattenSeq(ss)
             n == Len(p.labels)
             e == 3 + Len(CodePart(p)) + 1
  <1>1. /\ n \in Nat /\ ss \in Seq(Seq(FieldSet)) /\ Len(ss) = n
        /\ \A k \in 1 .. n : ss[k] = LabelFields(p.labels[k])
    BY BlocksPlain, SeqMonotonic DEF Plain
  <1>2. \A k \in 1 .. n : p.labels[k] \in [name : STRING, address : Nat]
    BY <1>1, ElementOfSeq DEF IsProgram
  <1> HIDE DEF ss
  <1>3. IsOffsets(o, ss)
    BY <1>1, OffsetsExist
  <1>4. LabelPart(p) = t
    BY DEF LabelPart, ss
  <1>5. /\ e \in Nat /\ Len(t) \in Nat /\ \A i \in 1 .. Len(t) : Fields(p)[e + i] = t[i]
        /\ Fields(p)[e].val = n /\ Len(Fields(p)) = e + Len(t)
    BY <1>4, FieldParts4, FieldParts
  <1>6. /\ \A k : LabelAt(p, k) = e + o[k]
        /\ CodeAt(p, Len(p.code)) + 1 = e
    BY CodePlaces DEF LabelAt, ss
  <1> HIDE DEF o, t, n, e
  <1>7. /\ o \in [0 .. n -> Nat] /\ o[0] = 0 /\ o[n] = Len(t)
        /\ \A k \in 1 .. n : /\ o[k] = o[k - 1] + Len(ss[k]) /\ o[k] <= Len(t)
                             /\ \A i \in 1 .. Len(ss[k]) : t[o[k - 1] + i] = ss[k][i]
    BY <1>1, <1>3 DEF IsOffsets, t
  <1>8. LabelAt(p, 0) = e /\ LabelAt(p, n) = Len(Fields(p))
    BY <1>5, <1>6, <1>7
  <1>9. \A k \in 0 .. n : LabelAt(p, k) \in Nat
    BY <1>5, <1>6, <1>7
  <1>10. ASSUME NEW k \in 1 .. n
         PROVE  /\ LabelAt(p, k) = LabelAt(p, k - 1) + 2
                /\ Fields(p)[LabelAt(p, k - 1) + 1].val = p.labels[k].name
                /\ Fields(p)[LabelAt(p, k - 1) + 2].val = p.labels[k].address
    <2>1. k \in 0 .. n /\ k - 1 \in 0 .. n
      BY <1>1
    <2>2. Len(ss[k]) = 2 /\ ss[k][1].val = p.labels[k].name /\ ss[k][2].val = p.labels[k].address
      BY <1>1, <1>2, LabelSaved
    <2>3. /\ o[k] \in Nat /\ o[k - 1] \in Nat /\ o[k] = o[k - 1] + 2 /\ o[k] <= Len(t)
          /\ t[o[k - 1] + 1] = ss[k][1] /\ t[o[k - 1] + 2] = ss[k][2]
      <3>1. o[k] \in Nat /\ o[k - 1] \in Nat
        BY <1>7, <2>1
      <3>2. /\ o[k] = o[k - 1] + Len(ss[k]) /\ o[k] <= Len(t)
            /\ \A i \in 1 .. Len(ss[k]) : t[o[k - 1] + i] = ss[k][i]
        BY <1>7
      <3> QED
        BY <2>2, <3>1, <3>2
    <2>4. o[k - 1] + 1 \in 1 .. Len(t) /\ o[k - 1] + 2 \in 1 .. Len(t)
      BY <1>5, <2>3
    <2>5. /\ LabelAt(p, k - 1) + 1 = e + (o[k - 1] + 1)
          /\ LabelAt(p, k - 1) + 2 = e + (o[k - 1] + 2)
          /\ LabelAt(p, k) = LabelAt(p, k - 1) + 2
      <3>1. LabelAt(p, k - 1) = e + o[k - 1] /\ LabelAt(p, k) = e + o[k]
        BY <1>6
      <3>2. e \in Int /\ o[k - 1] \in Int /\ o[k] = o[k - 1] + 2
        BY <1>5, <2>3
      <3> QED
        BY ONLY <3>1, <3>2
    <2> QED
      BY <1>5, <2>2, <2>3, <2>4, <2>5
  <1> QED
    BY <1>6, <1>8, <1>9, <1>10, <1>5 DEF n

ArgIsAt(p, k, j) ==
  LET f == OperandFields(p.code[k].args[j]) IN
  /\ ArgAt(p, k, j) = ArgAt(p, k, j - 1) + Len(f)
  /\ \A i \in 1 .. Len(f) : Fields(p)[ArgAt(p, k, j - 1) + i] = f[i]

\* Where the fields of an operand are.
LEMMA ArgPlaces ==
  ASSUME NEW p, IsProgram(p), NEW k \in 1 .. Len(p.code)
  PROVE  /\ Fields(p)[CodeAt(p, k - 1) + 1].val = p.code[k].op
         /\ Fields(p)[CodeAt(p, k - 1) + 2].val = Len(p.code[k].args)
         /\ ArgAt(p, k, 0) = CodeAt(p, k - 1) + 2
         /\ ArgAt(p, k, Len(p.code[k].args)) = CodeAt(p, k)
         /\ \A j \in 0 .. Len(p.code[k].args) : ArgAt(p, k, j) \in Nat
         /\ \A j \in 1 .. Len(p.code[k].args) : ArgIsAt(p, k, j)
  <1> DEFINE c == p.code[k]
             ss == ArgBlocks(c)
             o == Offsets(ss)
             t == FlattenSeq(ss)
             n == Len(c.args)
             a == CodeAt(p, k - 1)
             g == InstrFields(c)
  <1>1. c \in Instrs /\ k - 1 \in 0 .. Len(p.code)
    BY BlocksPlain
  <1>2. /\ a \in Nat /\ CodeAt(p, k) = a + Len(g)
        /\ \A i \in 1 .. Len(g) : Fields(p)[a + i] = g[i]
    BY <1>1, CodePlaces
  <1>3. /\ g[1].val = c.op /\ g[2].val = n /\ Len(g) = 2 + Len(t) /\ Len(t) \in Nat
        /\ \A i \in 1 .. Len(t) : g[2 + i] = t[i]
    BY <1>1, InstrPlaces, FieldParts
  <1>4. /\ n \in Nat /\ ss \in Seq(Seq(FieldSet)) /\ Len(ss) = n
        /\ \A j \in 1 .. n : ss[j] = OperandFields(c.args[j])
    <2>1. Plain \in SUBSET Seq(FieldSet)
      BY DEF Plain
    <2>2. ss \in Seq(Plain) /\ Len(ss) = n /\ n \in Nat
          /\ \A j \in 1 .. n : ss[j] = OperandFields(c.args[j])
      BY <1>1, ArgBlocksPlain
    <2> HIDE DEF ss, c, n
    <2> QED
      BY <2>1, <2>2, SeqMonotonic
  <1>5. \A j : ArgAt(p, k, j) = a + 2 + o[j]
    BY DEF ArgAt
  <1> HIDE DEF ss, c
  <1>6. IsOffsets(o, ss)
    BY <1>4, OffsetsExist
  <1> HIDE DEF o, t, n, a, g
  <1>7. /\ o \in [0 .. n -> Nat] /\ o[0] = 0 /\ o[n] = Len(t)
        /\ \A j \in 1 .. n : /\ o[j] = o[j - 1] + Len(ss[j]) /\ o[j] <= Len(t)
                             /\ \A i \in 1 .. Len(ss[j]) : t[o[j - 1] + i] = ss[j][i]
    BY <1>4, <1>6 DEF IsOffsets, t
  <1>8. Fields(p)[a + 1].val = c.op /\ Fields(p)[a + 2].val = n
    BY <1>2, <1>3
  <1>9. ArgAt(p, k, 0) = a + 2 /\ ArgAt(p, k, n) = CodeAt(p, k)
    <2>1. ArgAt(p, k, 0) = a + 2 + o[0] /\ ArgAt(p, k, n) = a + 2 + o[n]
      BY <1>5
    <2> QED
      BY <1>2, <1>3, <1>7, <2>1
  <1>10. \A j \in 0 .. n : ArgAt(p, k, j) \in Nat
    BY <1>2, <1>5, <1>7
  <1>11. ASSUME NEW j \in 1 .. n
         PROVE  /\ ArgAt(p, k, j) = ArgAt(p, k, j - 1) + Len(ss[j])
                /\ \A i \in 1 .. Len(ss[j]) : Fields(p)[ArgAt(p, k, j - 1) + i] = ss[j][i]
    <2>1. j \in 0 .. n /\ j - 1 \in 0 .. n
      BY <1>4
    <2>2. /\ o[j] \in Nat /\ o[j - 1] \in Nat /\ o[j] = o[j - 1] + Len(ss[j]) /\ o[j] <= Len(t)
          /\ \A i \in 1 .. Len(ss[j]) : t[o[j - 1] + i] = ss[j][i]
      BY <1>7, <2>1
    <2>3. Len(ss[j]) \in Nat
      BY <1>4, ElementOfSeq, LenProperties
    <2>4. ASSUME NEW i \in 1 .. Len(ss[j]) PROVE Fields(p)[ArgAt(p, k, j - 1) + i] = ss[j][i]
      <3>1. o[j - 1] + i \in 1 .. Len(t)
        BY <1>3, <2>2, <2>3, Inside
      <3>2. 2 + (o[j - 1] + i) \in 1 .. Len(g)
        BY <1>3, <3>1
      <3>3. ArgAt(p, k, j - 1) + i = a + (2 + (o[j - 1] + i))
        <4>1. ArgAt(p, k, j - 1) = a + 2 + o[j - 1]
          BY <1>5
        <4> DEFINE u == o[j - 1]
                   z == ArgAt(p, k, j - 1)
        <4>2. a \in Nat /\ u \in Nat /\ z = a + 2 + u /\ i \in Nat
          BY <1>2, <2>2, <2>3, <4>1
        <4> HIDE DEF u, z
        <4>3. z + i = a + (2 + (u + i))
          BY <4>2
        <4> QED
          BY <4>3 DEF u, z
      <3> QED
        BY <1>2, <1>3, <2>2, <3>1, <3>2, <3>3
    <2> QED
      BY <1>2, <1>5, <2>2, <2>3, <2>4
  <1>12. ASSUME NEW j \in 1 .. n PROVE ArgIsAt(p, k, j)
    <2>1. ss[j] = OperandFields(p.code[k].args[j])
      BY <1>4 DEF c
    <2> QED
      BY <1>11, <2>1 DEF ArgIsAt
  <1> QED
    BY <1>8, <1>9, <1>10, <1>12 DEF n, c, a

----------------------------------------------------------------------------
(* The inductive invariant: the file is the beginning of the fields of the *)
(* program, and the reader stands behind what it has read.                 *)

ReadInstrs == [op : STRING \cup {"unknown"}, args : Seq(ReadOperands)]
ReadLabels == [name : STRING, address : Nat]

\* Instruction k has come back, so far with n of its operands.
Kept(k, n) ==
  /\ loaded.code[k].op = IF garbled THEN "unknown" ELSE program.code[k].op
  /\ Len(loaded.code[k].args) = n
  /\ \A j \in 1 .. n : OperandKept(program.code[k].args[j], loaded.code[k].args[j])
CodeKept ==
  /\ loaded.flags = SetFlags(program) /\ Len(loaded.code) = Len(program.code)
  /\ \A k \in 1 .. Len(program.code) : Kept(k, Len(program.code[k].args))
LabelsKept(n) ==
  /\ Len(loaded.labels) = n /\ n <= Len(program.labels)
  /\ \A l \in 1 .. n : loaded.labels[l] = program.labels[l]

BasicInv ==
  /\ program \in BinPrograms \cup {NoProgram}
  /\ phase \in {"idle", "writing", "header", "program", "labels", "loaded", "ran",
                "failed", "crashed"}
  /\ loader \in Loaders /\ garbled \in BOOLEAN
  /\ wanted \in [instrs : Nat, operands : Nat, labels : Nat]
  /\ loaded \in [flags : FlagList, code : Seq(ReadInstrs), labels : Seq(ReadLabels)]
FileInv ==
  /\ file \in Seq(FieldSet) /\ Len(file) <= Len(Fields(program))
  /\ \A i \in 1 .. Len(file) : file[i] = Fields(program)[i]
  /\ at \in 0 .. Len(file)
  /\ phase \in {"writing", "header"} => at = 0
  /\ phase \in {"loaded", "ran"} => Len(file) = Len(Fields(program))
InstrInv(k) ==
  LET n == Len(loaded.code[k].args) m == Len(program.code[k].args) IN
  n <= m /\ wanted.operands = m - n /\ at = ArgAt(program, k, n) /\ Kept(k, n)
CodeInv ==
  /\ loaded.flags = SetFlags(program) /\ loaded.labels = <<>>
  /\ wanted.instrs = Len(program.code) /\ Len(loaded.code) <= Len(program.code)
  /\ \A k \in 1 .. (Len(loaded.code) - 1) : Kept(k, Len(program.code[k].args))
  /\ Len(loaded.code) = 0 => wanted.operands = 0 /\ at = 3
  /\ Len(loaded.code) > 0 => InstrInv(Len(loaded.code))
LabelInv ==
  /\ CodeKept /\ LabelsKept(Len(loaded.labels))
  /\ wanted.labels = Len(program.labels) /\ at = LabelAt(program, Len(loaded.labels))
LoadInv ==
  /\ phase = "header" => wanted = Nothing /\ loaded = NoProgram
  /\ phase = "program" => CodeInv
  /\ phase = "labels" => LabelInv
  /\ phase = "loaded" => CodeKept /\ LabelsKept(Len(program.labels))
IInv == BasicInv /\ FileInv /\ LoadInv

LEMMA NothingIsProgram == IsProgram(NoProgram) /\ <<>> \in FlagList
  BY EmptySeq DEF NoProgram, IsProgram, IsInjective, Contains, HasXcall, FlagList

LEMMA ProgramsArePrograms == ASSUME BasicInv PROVE IsProgram(program)
  BY NothingIsProgram, ProgramAssumption DEF BasicInv

LEMMA FieldsAreSeq ==
  ASSUME BasicInv, FileInv
  PROVE  /\ Fields(program) \in Seq(FieldSet) /\ Len(Fields(program)) \in Nat
         /\ Len(file) \in Nat /\ at \in Nat /\ at <= Len(file)
         /\ \A n \in Nat : Available(n) => at + n <= Len(Fields(program))
         /\ \A n \in Nat : Available(n) => \A i \in 1 .. n : file[at + i] = Fields(program)[at + i]
  <1>1. Fields(program) \in Seq(FieldSet)
    BY ProgramsArePrograms, FieldParts4
  <1>2. Len(Fields(program)) \in Nat /\ Len(file) \in Nat
    BY <1>1, LenProperties DEF FileInv
  <1>3. at \in Nat /\ at <= Len(file)
    BY <1>2 DEF FileInv
  <1>4. ASSUME NEW n \in Nat, Available(n), NEW i \in 1 .. n
        PROVE  file[at + i] = Fields(program)[at + i]
    <2>1. at + i \in 1 .. Len(file)
      BY <1>2, <1>3, <1>4 DEF Available
    <2> QED
      BY <2>1 DEF FileInv
  <1>5. ASSUME NEW n \in Nat, Available(n) PROVE at + n <= Len(Fields(program))
    BY <1>2, <1>3, <1>5 DEF Available, FileInv
  <1> QED
    BY <1>1, <1>2, <1>3, <1>4, <1>5

LEMMA InitEstablishes == XBinInit => IInv
  <1> SUFFICES ASSUME XBinInit PROVE IInv
    OBVIOUS
  <1>1. BasicInv
    BY NothingIsProgram, EmptySeq
    DEF XBinInit, BasicInv, Loaders, Nothing, NoProgram
  <1>2. Len(Fields(program)) \in Nat
    BY <1>1, ProgramsArePrograms, FieldParts4, LenProperties
  <1>3. file = <<>> /\ at = 0 /\ phase = "idle"
    BY DEF XBinInit
  <1>4. FileInv
    BY <1>2, <1>3, EmptySeq DEF FileInv
  <1> QED
    BY <1>1, <1>3, <1>4 DEF IInv, LoadInv

\* The steps of create_xbin.
LEMMA StartSaveKeeps ==
  ASSUME NEW p \in BinPrograms, StartSave(p) PROVE IInv'
  <1>1. /\ program' = p /\ file' = <<>> /\ phase' = "writing" /\ loader' = "file"
        /\ garbled' = FALSE /\ at' = 0 /\ wanted' = Nothing /\ loaded' = NoProgram
    BY DEF StartSave
  <1>2. BasicInv'
    BY <1>1, NothingIsProgram, EmptySeq DEF BasicInv, Loaders, Nothing, NoProgram
  <1>3. Len(Fields(p)) \in Nat
    BY ProgramAssumption, FieldParts4, LenProperties
  <1>4. FileInv'
    BY <1>1, <1>3, EmptySeq DEF FileInv
  <1> QED
    BY <1>1, <1>2, <1>4 DEF IInv, LoadInv

LEMMA WriteFieldKeeps == ASSUME IInv, WriteField PROVE IInv'
  <1> DEFINE t == Fields(program)
             n == Len(file)
  <1>1. /\ t \in Seq(FieldSet) /\ Len(t) \in Nat /\ n \in Nat /\ n < Len(t) /\ phase = "writing"
        /\ file \in Seq(FieldSet) /\ \A i \in 1 .. n : file[i] = t[i]
    BY FieldsAreSeq DEF IInv, WriteField, FileInv
  <1>2. /\ file' = Append(file, t[n + 1]) /\ program' = program /\ phase' = phase
        /\ UNCHANGED <<loader, garbled, at, wanted, loaded>>
    BY DEF WriteField, Reader
  <1>3. t[n + 1] \in FieldSet
    <2>1. n + 1 \in 1 .. Len(t)
      BY <1>1
    <2> HIDE DEF t
    <2> QED
      BY <1>1, <2>1, ElementOfSeq
  <1>4. at = 0
    BY <1>1 DEF IInv, FileInv
  <1>5. Fields(program)' = t
    BY <1>2
  <1> HIDE DEF t
  <1>6. /\ file' \in Seq(FieldSet) /\ Len(file') = n + 1 /\ \A i \in 1 .. n : file'[i] = file[i]
        /\ file'[n + 1] = t[n + 1]
    BY <1>1, <1>2, <1>3, AppendProperties
  <1> HIDE DEF n
  <1>7. \A i \in 1 .. (n + 1) : i \in 1 .. n \/ i = n + 1
    BY <1>1
  <1>8. \A i \in 1 .. (n + 1) : file'[i] = t[i]
    BY <1>1, <1>6, <1>7
  <1>9. FileInv'
    BY <1>1, <1>2, <1>4, <1>5, <1>6, <1>8 DEF FileInv
  <1>10. BasicInv'
    BY <1>2 DEF IInv, BasicInv
  <1> QED
    BY <1>1, <1>2, <1>9, <1>10 DEF IInv, LoadInv

LEMMA SaveCutKeeps == ASSUME IInv, SaveCut PROVE IInv'
  <1> DEFINE t == Fields(program)
  <1>1. PICK n \in 0 .. Len(file) : n < Len(t) /\ file' = SubSeq(file, 1, n)
    BY DEF SaveCut
  <1>2. /\ t \in Seq(FieldSet) /\ Len(t) \in Nat /\ Len(file) \in Nat
        /\ file \in Seq(FieldSet) /\ \A i \in 1 .. Len(file) : file[i] = t[i]
    BY FieldsAreSeq DEF IInv, FileInv
  <1>3. /\ program' = program /\ phase' = "idle" /\ phase = "writing"
        /\ UNCHANGED <<loader, garbled, at, wanted, loaded>>
    BY DEF SaveCut, Reader
  <1>4. at = 0
    BY <1>3 DEF IInv, FileInv
  <1>5. Fields(program)' = t
    BY <1>3
  <1> HIDE DEF t
  <1>6. /\ file' \in Seq(FieldSet) /\ Len(file') = n /\ \A i \in 1 .. n : file'[i] = file[i]
    BY <1>1, <1>2
  <1>7. \A i \in 1 .. n : i \in 1 .. Len(file)
    BY <1>1, <1>2
  <1>8. FileInv'
    BY <1>1, <1>2, <1>3, <1>4, <1>5, <1>6, <1>7 DEF FileInv
  <1>9. BasicInv'
    BY <1>3 DEF IInv, BasicInv
  <1> QED
    BY <1>3, <1>8, <1>9 DEF IInv, LoadInv

\* The steps that neither touch the file nor read on.
LEMMA StayKeeps ==
  ASSUME IInv, UNCHANGED <<program, file, loader, garbled, at, wanted, loaded>>,
         phase' \in {"idle", "failed", "crashed"}
  PROVE  IInv'
  <1>1. BasicInv'
    BY DEF IInv, BasicInv
  <1>2. FileInv'
    BY DEF IInv, FileInv
  <1> QED
    BY <1>1, <1>2 DEF IInv, LoadInv

LEMMA LoadFailsKeeps == ASSUME IInv, LoadFails(Broken) \/ LoadFails({"failed"}) PROVE IInv'
  BY StayKeeps DEF LoadFails, Broken, Reader

LEMMA StartLoadKeeps == ASSUME IInv, StartLoad PROVE IInv'
  <1>1. /\ phase' = "header" /\ loader' \in Loaders /\ garbled' \in BOOLEAN /\ at' = 0
        /\ wanted' = Nothing /\ loaded' = NoProgram /\ program' = program /\ file' = file
    BY DEF StartLoad
  <1>2. BasicInv'
    BY <1>1, NothingIsProgram, EmptySeq DEF IInv, BasicInv, Nothing, NoProgram
  <1>3. Len(file) \in Nat
    BY FieldsAreSeq DEF IInv
  <1>4. FileInv'
    BY <1>1, <1>3 DEF IInv, FileInv
  <1> QED
    BY <1>1, <1>2, <1>4 DEF IInv, LoadInv

\* The steps that read on leave the file and the reader's choices alone.
LEMMA ReadKeepsFile ==
  ASSUME IInv, UNCHANGED <<program, file, loader, garbled>>, at' \in 0 .. Len(file),
         phase' \in {"program", "labels"}
  PROVE  FileInv'
  BY DEF IInv, FileInv

\* The steps of the loaders.
LEMMA ReadHeaderKeeps == ASSUME IInv, ReadHeader PROVE IInv'
  <1>1. CASE LoadFails(Broken) \/ LoadFails({"failed"})
    BY <1>1, LoadFailsKeeps
  <1>2. CASE ~(LoadFails(Broken) \/ LoadFails({"failed"}))
    <2>1. /\ phase = "header" /\ Available(3)
          /\ loaded' = [loaded EXCEPT !.flags = Next1]
          /\ wanted' = [wanted EXCEPT !.instrs = Next3]
          /\ at' = at + 3 /\ phase' = "program"
          /\ UNCHANGED <<program, file, loader, garbled>>
      BY <1>2 DEF ReadHeader
    <2>2. at = 0 /\ wanted = Nothing /\ loaded = NoProgram /\ IsProgram(program)
      BY <2>1, ProgramsArePrograms DEF IInv, FileInv, LoadInv
    <2>3. file[at + 1] = Fields(program)[1] /\ file[at + 3] = Fields(program)[3]
          /\ Len(file) \in Nat /\ 3 <= Len(file)
      BY <2>1, <2>2, FieldsAreSeq DEF IInv, Available
    <2>4. Next1 = SetFlags(program) /\ Next3 = Len(program.code)
      BY <2>2, <2>3, FieldParts4, FieldParts DEF Next1, Next3
    <2>5. SetFlags(program) \in FlagList /\ Len(program.code) \in Nat
      BY <2>2, SavedFlags, BlocksPlain
    <2>6. /\ loaded' = [flags |-> SetFlags(program), code |-> <<>>, labels |-> <<>>]
          /\ wanted' = [instrs |-> Len(program.code), operands |-> 0, labels |-> 0]
          /\ at' = 3
      BY <2>1, <2>2, <2>4 DEF NoProgram, Nothing
    <2>7. BasicInv'
      BY <2>1, <2>5, <2>6, EmptySeq DEF IInv, BasicInv
    <2>8. FileInv'
      BY <2>1, <2>3, <2>6, ReadKeepsFile
    <2>9. CodeInv'
      BY <2>1, <2>5, <2>6 DEF CodeInv
    <2> QED
      BY <2>1, <2>7, <2>8, <2>9 DEF IInv, LoadInv
  <1> QED
    BY <1>1, <1>2

\* Behind its last operand an instruction is as it was saved.
LEMMA InstrRead ==
  ASSUME IInv, phase = "program", wanted.operands = 0
  PROVE  /\ Len(loaded.code) \in Nat /\ Len(program.code) \in Nat
         /\ at = CodeAt(program, Len(loaded.code))
         /\ \A k \in 1 .. Len(loaded.code) : Kept(k, Len(program.code[k].args))
  <1> DEFINE k == Len(loaded.code)
  <1>1. IsProgram(program) /\ CodeInv
    BY ProgramsArePrograms DEF IInv, LoadInv
  <1>2. k \in Nat /\ Len(program.code) \in Nat
    BY <1>1, BlocksPlain, LenProperties DEF IInv, BasicInv
  <1>3. CASE k = 0
    BY <1>1, <1>2, <1>3, CodePlaces DEF CodeInv
  <1>4. CASE k > 0
    <2> DEFINE n == Len(loaded.code[k].args)
               m == Len(program.code[k].args)
    <2>1. k \in 1 .. Len(program.code) /\ k \in 1 .. Len(loaded.code)
      BY <1>1, <1>2, <1>4 DEF CodeInv
    <2>2. n \in Nat /\ m \in Nat
      <3>1. loaded.code \in Seq(ReadInstrs)
        BY DEF IInv, BasicInv
      <3>2. loaded.code[k] \in ReadInstrs
        BY <2>1, <3>1, ElementOfSeq
      <3>3. program.code[k] \in Instrs
        BY <1>1, <2>1, BlocksPlain
      <3> QED
        BY <3>2, <3>3, LenProperties DEF ReadInstrs, Instrs
    <2>3. wanted.operands = m - n /\ at = ArgAt(program, k, n) /\ Kept(k, n)
      BY <1>1, <1>4 DEF CodeInv, InstrInv
    <2>4. n = m
      <3> HIDE DEF n, m
      <3> QED
        BY <2>2, <2>3
    <2>5. at = CodeAt(program, k)
      BY <1>1, <2>1, <2>3, <2>4, ArgPlaces
    <2>6. \A i \in 1 .. k : i \in 1 .. (k - 1) \/ i = k
      BY <1>2
    <2> QED
      BY <1>1, <1>2, <2>3, <2>4, <2>5, <2>6 DEF CodeInv
  <1> QED
    BY <1>2, <1>3, <1>4

LEMMA ReadInstructionKeeps == ASSUME IInv, ReadInstruction PROVE IInv'
  <1>1. CASE LoadFails(Broken)
    BY <1>1, LoadFailsKeeps
  <1>2. CASE ~LoadFails(Broken)
    <2>1. PICK k : k = Len(loaded.code) + 1
      OBVIOUS
    <2>2. PICK m : m = Len(program.code[k].args)
      OBVIOUS
    <2>3. PICK i : i = [op |-> IF garbled THEN "unknown" ELSE Next1, args |-> <<>>]
      OBVIOUS
    <2>4. /\ phase = "program" /\ wanted.operands = 0 /\ Len(loaded.code) < wanted.instrs
          /\ Available(2) /\ loaded' = [loaded EXCEPT !.code = Append(@, i)]
          /\ wanted' = [wanted EXCEPT !.operands = Next2]
          /\ at' = at + 2
          /\ UNCHANGED <<program, file, phase, loader, garbled>>
      BY <1>2, <2>3 DEF ReadInstruction
    <2>5. /\ IsProgram(program) /\ CodeInv
          /\ loaded \in [flags : FlagList, code : Seq(ReadInstrs), labels : Seq(ReadLabels)]
          /\ wanted \in [instrs : Nat, operands : Nat, labels : Nat]
      BY <2>4, ProgramsArePrograms DEF IInv, LoadInv, BasicInv
    <2>6. /\ Len(loaded.code) \in Nat /\ Len(program.code) \in Nat
          /\ at = CodeAt(program, k - 1)
          /\ \A j \in 1 .. (k - 1) : Kept(j, Len(program.code[j].args))
      BY <2>4, <2>1, InstrRead
    <2>7. k \in 1 .. Len(program.code) /\ k - 1 = Len(loaded.code)
      BY <2>4, <2>5, <2>6, <2>1 DEF CodeInv
    <2>8. program.code[k] \in Instrs /\ m \in Nat /\ program.code[k].op \in STRING
      <3>1. program.code[k] \in Instrs
        BY <2>5, <2>7, BlocksPlain
      <3> QED
        BY <2>2, <3>1, ArgBlocksPlain DEF Instrs
    <2>9. Next1 = program.code[k].op /\ Next2 = m
      <3>1. file[at + 1] = Fields(program)[at + 1] /\ file[at + 2] = Fields(program)[at + 2]
        BY <2>4, FieldsAreSeq DEF IInv
      <3> QED
        <4>1. /\ Fields(program)[CodeAt(program, k - 1) + 1].val = program.code[k].op
              /\ Fields(program)[CodeAt(program, k - 1) + 2].val = Len(program.code[k].args)
          BY <2>5, <2>7, ArgPlaces
        <4> QED
          BY <2>6, <2>2, <3>1, <4>1 DEF Next1, Next2
    <2>10. /\ i \in ReadInstrs /\ i.args = <<>>
           /\ i.op = IF garbled THEN "unknown" ELSE program.code[k].op
      BY <2>8, <2>9, <2>3, EmptySeq DEF ReadInstrs
    <2>11. /\ loaded'.code = Append(loaded.code, i) /\ loaded'.flags = loaded.flags
          /\ loaded'.labels = loaded.labels
          /\ loaded' \in [flags : FlagList, code : Seq(ReadInstrs), labels : Seq(ReadLabels)]
      BY <2>4, <2>5, <2>10, AppendProperties
    <2>12. /\ Len(loaded'.code) = k /\ loaded'.code[k] = i
          /\ \A j \in 1 .. (k - 1) : loaded'.code[j] = loaded.code[j]
      BY <2>5, <2>6, <2>7, <2>10, <2>11, AppendProperties
    <2>13. wanted' \in [instrs : Nat, operands : Nat, labels : Nat]
           /\ wanted'.operands = m /\ wanted'.instrs = wanted.instrs
      BY <2>4, <2>5, <2>8, <2>9
    <2>14. BasicInv'
      BY <2>4, <2>11, <2>13 DEF IInv, BasicInv
    <2>15. FileInv'
      <3>1. at' \in 0 .. Len(file)
        BY <2>4, FieldsAreSeq DEF Available, IInv
      <3> QED
        BY <2>4, <3>1, ReadKeepsFile
    <2>16. at' = ArgAt(program, k, 0)
      BY <2>4, <2>5, <2>6, <2>7, ArgPlaces
    <2>17. InstrInv(k)'
      <3>1. Len(loaded'.code[k].args) = 0
        BY <2>10, <2>12
      <3>2. Len(program'.code[k].args) = m /\ program' = program
        BY <2>4, <2>2
      <3>3. Kept(k, 0)'
        BY <2>4, <2>10, <2>12, <3>1 DEF Kept
      <3> QED
        BY <2>7, <2>8, <2>13, <2>16, <3>1, <3>2, <3>3 DEF InstrInv
    <2>18. \A j \in 1 .. (k - 1) : Kept(j, Len(program.code[j].args))'
      BY <2>4, <2>6, <2>12 DEF Kept
    <2>19. CodeInv'
      <3>1. loaded'.flags = SetFlags(program) /\ loaded'.labels = <<>>
            /\ wanted'.instrs = Len(program.code) /\ k <= Len(program.code) /\ k > 0
        BY <2>5, <2>7, <2>11, <2>13 DEF CodeInv
      <3>2. InstrInv(Len(loaded.code))'
        BY <2>12, <2>17
      <3> QED
        BY <2>4, <2>7, <2>12, <2>18, <3>1, <3>2 DEF CodeInv
    <2> QED
      BY <2>4, <2>14, <2>15, <2>19 DEF IInv, LoadInv
  <1> QED
    BY <1>1, <1>2

LEMMA ReadOperandKeeps == ASSUME IInv, ReadOperand PROVE IInv'
  <1>1. CASE LoadFails(Broken)
    BY <1>1, LoadFailsKeeps
  <1>2. CASE ~LoadFails(Broken)
    <2>1. /\ phase = "program" /\ wanted.operands > 0
          /\ Available(1) /\ Available(FieldsOfType(Next1))
          /\ loaded' = [loaded EXCEPT !.code[Len(loaded.code)].args = Append(@, OperandRead)]
          /\ wanted' = [wanted EXCEPT !.operands = @ - 1]
          /\ at' = at + FieldsOfType(Next1)
          /\ UNCHANGED <<program, file, phase, loader, garbled>>
      BY <1>2 DEF ReadOperand
    <2>2. /\ IsProgram(program) /\ CodeInv /\ loader \in Loaders
          /\ loaded \in [flags : FlagList, code : Seq(ReadInstrs), labels : Seq(ReadLabels)]
          /\ wanted \in [instrs : Nat, operands : Nat, labels : Nat]
      BY <2>1, ProgramsArePrograms DEF IInv, LoadInv, BasicInv
    <2>3. PICK k : k = Len(loaded.code)
      OBVIOUS
    <2>4. k \in Nat /\ k \in 1 .. Len(program.code) /\ k \in 1 .. Len(loaded.code)
      <3>1. k \in Nat /\ Len(program.code) \in Nat
        BY <2>2, <2>3, BlocksPlain, LenProperties
      <3>2. k > 0 /\ k <= Len(program.code)
        BY <2>1, <2>2, <2>3, <3>1 DEF CodeInv
      <3> QED
        BY <2>3, <3>1, <3>2
    <2>5. PICK n : n = Len(loaded.code[k].args)
      OBVIOUS
    <2>6. PICK m : m = Len(program.code[k].args)
      OBVIOUS
    <2>7. n <= m /\ wanted.operands = m - n /\ at = ArgAt(program, k, n) /\ Kept(k, n)
      <3>1. InstrInv(k)
        BY <2>2, <2>3, <2>4 DEF CodeInv
      <3> QED
        BY <2>5, <2>6, <3>1 DEF InstrInv
    <2>8. /\ loaded.code[k] \in ReadInstrs /\ loaded.code[k].args \in Seq(ReadOperands) /\ n \in Nat
          /\ program.code[k].args \in Seq(Operands) /\ m \in Nat
      <3>1. loaded.code[k] \in ReadInstrs
        BY <2>2, <2>4, ElementOfSeq
      <3>2. program.code[k] \in Instrs
        BY <2>2, <2>4, BlocksPlain
      <3> QED
        BY <2>5, <2>6, <3>1, <3>2, LenProperties DEF ReadInstrs, Instrs
    <2>9. n + 1 \in 1 .. m /\ (n + 1) - 1 = n /\ n \in 0 .. m
      BY <2>1, <2>7, <2>8
    <2>10. PICK o : o = program.code[k].args[n + 1]
      OBVIOUS
    <2>11. PICK f : f = OperandFields(o)
      OBVIOUS
    <2>12. /\ o \in Operands /\ Len(f) \in {2, 3} /\ Len(f) = FieldsOfType(f[1].val)
           /\ OperandKept(o, Decoded(loader, f)) /\ Decoded(loader, f) \in ReadOperands
      BY <2>2, <2>6, <2>8, <2>9, <2>10, <2>11, ElementOfSeq, OperandSaved
    <2>13. /\ ArgAt(program, k, n + 1) = at + Len(f)
           /\ \A i \in 1 .. Len(f) : Fields(program)[at + i] = f[i]
      <3>1. ArgIsAt(program, k, n + 1)
        BY <2>2, <2>4, <2>6, <2>9, ArgPlaces
      <3> QED
        BY <2>7, <2>9, <2>10, <2>11, <3>1 DEF ArgIsAt
    <2>14. Next1 = f[1].val
      <3>1. file[at + 1] = Fields(program)[at + 1]
        BY <2>1, FieldsAreSeq DEF IInv
      <3> QED
        BY <2>12, <2>13, <3>1 DEF Next1
    <2>15. FieldsOfType(Next1) = Len(f) /\ at' = ArgAt(program, k, n + 1)
      BY <2>1, <2>12, <2>13, <2>14
    <2>16. \A i \in 1 .. Len(f) : file[at + i] = f[i]
      <3>1. Len(f) \in Nat /\ Available(Len(f))
        BY <2>1, <2>12, <2>15
      <3> QED
        BY <2>13, <3>1, FieldsAreSeq DEF IInv
    <2>17. OperandRead = Decoded(loader, f)
      <3>1. Next2 = f[2].val
        BY <2>12, <2>16 DEF Next2
      <3>2. CASE f[1].val = "N"
        <4>1. 3 \in 1 .. Len(f)
          BY <2>12, <3>2 DEF FieldsOfType
        <4>2. Next3 = f[3].val
          BY <2>16, <4>1 DEF Next3
        <4> QED
          BY <2>14, <3>1, <3>2, <4>2 DEF OperandRead, Decoded
      <3>3. CASE f[1].val # "N"
        BY <2>14, <3>1, <3>3 DEF OperandRead, Decoded
      <3> QED
        BY <3>2, <3>3
    <2>18. PICK r : r = Decoded(loader, f)
      OBVIOUS
    <2>19. PICK c : c = [loaded.code[k] EXCEPT !.args = Append(@, r)]
      OBVIOUS
    <2>20. /\ c.args = Append(loaded.code[k].args, r) /\ c.op = loaded.code[k].op
           /\ c \in ReadInstrs
      BY <2>8, <2>12, <2>18, <2>19, AppendProperties DEF ReadInstrs
    <2>21. /\ Len(c.args) = n + 1 /\ c.args[n + 1] = r
           /\ \A j \in 1 .. n : c.args[j] = loaded.code[k].args[j]
      BY <2>5, <2>8, <2>12, <2>18, <2>20, AppendProperties
    <2>22. /\ loaded'.code = [loaded.code EXCEPT ![k] = c] /\ loaded'.flags = loaded.flags
           /\ loaded'.labels = loaded.labels
           /\ loaded' = [loaded EXCEPT !.code = [loaded.code EXCEPT ![k] = c]]
      BY <2>1, <2>2, <2>3, <2>17, <2>18, <2>19
    <2>23. /\ loaded'.code \in Seq(ReadInstrs) /\ Len(loaded'.code) = k /\ loaded'.code[k] = c
           /\ \A j \in 1 .. (k - 1) : loaded'.code[j] = loaded.code[j]
      <3> DEFINE s == loaded.code
      <3>1. s \in Seq(ReadInstrs) /\ k \in 1 .. Len(s) /\ k = Len(s)
        BY <2>2, <2>3, <2>4
      <3> HIDE DEF s
      <3>2. /\ [s EXCEPT ![k] = c] \in Seq(ReadInstrs) /\ Len([s EXCEPT ![k] = c]) = k
            /\ [s EXCEPT ![k] = c][k] = c
            /\ \A j \in 1 .. (k - 1) : [s EXCEPT ![k] = c][j] = s[j]
        BY <2>4, <2>20, <3>1, ExceptSeq
      <3> QED
        BY <2>22, <3>2 DEF s
    <2>24. loaded' \in [flags : FlagList, code : Seq(ReadInstrs), labels : Seq(ReadLabels)]
      BY <2>2, <2>22, <2>23
    <2>25. wanted' \in [instrs : Nat, operands : Nat, labels : Nat]
           /\ wanted'.operands = m - (n + 1) /\ wanted'.instrs = wanted.instrs
      <3>1. wanted.operands - 1 \in Nat /\ wanted.operands - 1 = m - (n + 1)
        BY <2>7, <2>8, <2>9
      <3> QED
        BY <2>1, <2>2, <3>1
    <2>26. BasicInv'
      BY <2>1, <2>24, <2>25 DEF IInv, BasicInv
    <2>27. FileInv'
      <3>1. at' \in 0 .. Len(file)
        BY <2>1, <2>12, <2>15, FieldsAreSeq DEF Available, IInv
      <3> QED
        BY <2>1, <3>1, ReadKeepsFile
    <2>28. Kept(k, n + 1)'
      <3>1. \A j \in 1 .. (n + 1) : j \in 1 .. n \/ j = n + 1
        BY <2>8
      <3>2. \A j \in 1 .. (n + 1) : OperandKept(program.code[k].args[j], c.args[j])
        BY <2>7, <2>10, <2>12, <2>18, <2>21, <3>1 DEF Kept
      <3> QED
        BY <2>1, <2>7, <2>20, <2>21, <2>23, <3>2 DEF Kept
    <2>29. InstrInv(k)'
      <3>1. Len(loaded'.code[k].args) = n + 1
        BY <2>21, <2>23
      <3>2. Len(program'.code[k].args) = m /\ program' = program
        BY <2>1, <2>6
      <3> QED
        BY <2>9, <2>15, <2>25, <2>28, <3>1, <3>2 DEF InstrInv
    <2>30. \A j \in 1 .. (k - 1) : Kept(j, Len(program.code[j].args))'
      BY <2>1, <2>2, <2>3, <2>23 DEF Kept, CodeInv
    <2>31. CodeInv'
      <3>1. loaded'.flags = SetFlags(program) /\ loaded'.labels = <<>>
            /\ wanted'.instrs = Len(program.code) /\ k <= Len(program.code) /\ k > 0
        BY <2>2, <2>4, <2>22, <2>25 DEF CodeInv
      <3>2. InstrInv(Len(loaded.code))'
        BY <2>23, <2>29
      <3> QED
        BY <2>1, <2>4, <2>23, <2>30, <3>1, <3>2 DEF CodeInv
    <2> QED
      BY <2>1, <2>26, <2>27, <2>31 DEF IInv, LoadInv
  <1> QED
    BY <1>1, <1>2

LEMMA ReadLabelCountKeeps == ASSUME IInv, ReadLabelCount PROVE IInv'
  <1>1. CASE LoadFails(Broken)
    BY <1>1, LoadFailsKeeps
  <1>2. CASE ~LoadFails(Broken)
    <2>1. /\ phase = "program" /\ wanted.operands = 0 /\ Len(loaded.code) = wanted.instrs
          /\ Available(1) /\ wanted' = [wanted EXCEPT !.labels = Next1]
          /\ at' = at + 1 /\ phase' = "labels"
          /\ UNCHANGED <<program, file, loader, garbled, loaded>>
      BY <1>2 DEF ReadLabelCount, AllInstrsRead
    <2>2. /\ IsProgram(program) /\ CodeInv
          /\ wanted \in [instrs : Nat, operands : Nat, labels : Nat]
      BY <2>1, ProgramsArePrograms DEF IInv, LoadInv, BasicInv
    <2>3. /\ Len(loaded.code) = Len(program.code) /\ at = CodeAt(program, Len(program.code))
          /\ \A k \in 1 .. Len(program.code) : Kept(k, Len(program.code[k].args))
      BY <2>1, <2>2, InstrRead DEF CodeInv
    <2>4. Next1 = Len(program.labels)
      <3>1. file[at + 1] = Fields(program)[at + 1]
        BY <2>1, FieldsAreSeq DEF IInv
      <3> QED
        BY <2>2, <2>3, <3>1, LabelPlaces DEF Next1
    <2>5. Len(program.labels) \in Nat
      BY <2>2, BlocksPlain
    <2>6. wanted' \in [instrs : Nat, operands : Nat, labels : Nat]
          /\ wanted'.labels = Len(program.labels)
      BY <2>1, <2>2, <2>4, <2>5
    <2>7. BasicInv'
      BY <2>1, <2>6 DEF IInv, BasicInv
    <2>8. FileInv'
      <3>1. at' \in 0 .. Len(file)
        BY <2>1, FieldsAreSeq DEF Available, IInv
      <3> QED
        BY <2>1, <3>1, ReadKeepsFile
    <2>9. LabelInv'
      <3>1. loaded.labels = <<>> /\ loaded.flags = SetFlags(program)
        BY <2>2 DEF CodeInv
      <3>2. at' = LabelAt(program, 0)
        BY <2>1, <2>2, <2>3, LabelPlaces
      <3>3. CodeKept'
        BY <2>1, <2>3, <3>1 DEF CodeKept, Kept
      <3>4. Len(loaded'.labels) = 0
        BY <2>1, <3>1
      <3>5. LabelsKept(0)'
        BY <2>1, <2>5, <3>4 DEF LabelsKept
      <3> QED
        BY <2>1, <2>6, <3>2, <3>3, <3>4, <3>5 DEF LabelInv
    <2> QED
      BY <2>1, <2>7, <2>8, <2>9 DEF IInv, LoadInv
  <1> QED
    BY <1>1, <1>2

LEMMA ReadLabelKeeps == ASSUME IInv, ReadLabel PROVE IInv'
  <1>1. CASE LoadFails(Broken)
    BY <1>1, LoadFailsKeeps
  <1>2. CASE ~LoadFails(Broken)
    <2>1. PICK r : r = [name |-> Next1, address |-> Next2]
      OBVIOUS
    <2>2. /\ phase = "labels" /\ Len(loaded.labels) < wanted.labels /\ Available(2)
          /\ loaded' = [loaded EXCEPT !.labels = Append(@, r)]
          /\ at' = at + 2
          /\ UNCHANGED <<program, file, phase, loader, garbled, wanted>>
      BY <1>2, <2>1 DEF ReadLabel
    <2>3. /\ IsProgram(program) /\ LabelInv
          /\ loaded \in [flags : FlagList, code : Seq(ReadInstrs), labels : Seq(ReadLabels)]
      BY <2>2, ProgramsArePrograms DEF IInv, LoadInv, BasicInv
    <2>4. PICK l : l = Len(loaded.labels)
      OBVIOUS
    <2>5. l \in Nat /\ Len(program.labels) \in Nat /\ program.labels \in Seq(ReadLabels)
      BY <2>3, <2>4, LenProperties DEF IsProgram, ReadLabels
    <2>6. l + 1 \in 1 .. Len(program.labels) /\ (l + 1) - 1 = l /\ at = LabelAt(program, l)
      BY <2>2, <2>3, <2>4, <2>5 DEF LabelInv
    <2>7. r = program.labels[l + 1] /\ r \in ReadLabels
      <3>1. file[at + 1] = Fields(program)[at + 1] /\ file[at + 2] = Fields(program)[at + 2]
        BY <2>2, FieldsAreSeq DEF IInv
      <3>2. Next1 = program.labels[l + 1].name /\ Next2 = program.labels[l + 1].address
        BY <2>3, <2>6, <3>1, LabelPlaces DEF Next1, Next2
      <3>3. program.labels[l + 1] \in ReadLabels
        BY <2>5, <2>6, ElementOfSeq
      <3> QED
        BY <2>1, <3>2, <3>3 DEF ReadLabels
    <2>8. /\ loaded'.labels = Append(loaded.labels, r) /\ loaded'.code = loaded.code
          /\ loaded'.flags = loaded.flags
          /\ loaded' \in [flags : FlagList, code : Seq(ReadInstrs), labels : Seq(ReadLabels)]
      BY <2>2, <2>3, <2>7, AppendProperties
    <2>9. /\ Len(loaded'.labels) = l + 1 /\ loaded'.labels[l + 1] = r
          /\ \A j \in 1 .. l : loaded'.labels[j] = loaded.labels[j]
      BY <2>3, <2>4, <2>7, <2>8, AppendProperties
    <2>10. BasicInv'
      BY <2>2, <2>8 DEF IInv, BasicInv
    <2>11. FileInv'
      <3>1. at' \in 0 .. Len(file)
        BY <2>2, FieldsAreSeq DEF Available, IInv
      <3> QED
        BY <2>2, <3>1, ReadKeepsFile
    <2>12. LabelInv'
      <3>1. at' = LabelAt(program, l + 1)
        BY <2>2, <2>3, <2>6, LabelPlaces
      <3>2. CodeKept'
        BY <2>2, <2>3, <2>8 DEF LabelInv, CodeKept, Kept
      <3>3. LabelsKept(l)
        BY <2>3, <2>4 DEF LabelInv
      <3>4. \A j \in 1 .. (l + 1) : j \in 1 .. l \/ j = l + 1
        BY <2>5
      <3>5. LabelsKept(l + 1)'
        BY <2>2, <2>6, <2>7, <2>9, <3>3, <3>4 DEF LabelsKept
      <3>6. wanted'.labels = Len(program'.labels)
        BY <2>2, <2>3 DEF LabelInv
      <3> QED
        BY <2>2, <2>9, <3>1, <3>2, <3>5, <3>6 DEF LabelInv
    <2> QED
      BY <2>2, <2>10, <2>11, <2>12 DEF IInv, LoadInv
  <1> QED
    BY <1>1, <1>2

LEMMA FinishLoadKeeps == ASSUME IInv, FinishLoad PROVE IInv'
  <1>1. /\ phase = "labels" /\ Len(loaded.labels) = wanted.labels /\ phase' = "loaded"
        /\ UNCHANGED <<program, file, loader, garbled, at, wanted, loaded>>
    BY DEF FinishLoad, Reader
  <1>2. IsProgram(program) /\ LabelInv
    BY <1>1, ProgramsArePrograms DEF IInv, LoadInv
  <1>3. Len(loaded.labels) = Len(program.labels) /\ at = Len(Fields(program))
    BY <1>1, <1>2, LabelPlaces DEF LabelInv
  <1>4. Len(file) = Len(Fields(program))
    BY <1>3, FieldsAreSeq DEF IInv, FileInv
  <1>5. BasicInv'
    BY <1>1 DEF IInv, BasicInv
  <1>6. FileInv'
    BY <1>1, <1>4 DEF IInv, FileInv
  <1>7. CodeKept' /\ LabelsKept(Len(program.labels))'
    BY <1>1, <1>2, <1>3 DEF LabelInv, CodeKept, LabelsKept, Kept
  <1> QED
    BY <1>1, <1>5, <1>6, <1>7 DEF IInv, LoadInv

LEMMA RunLoadedKeeps == ASSUME IInv, RunLoaded PROVE IInv'
  <1>1. /\ phase = "loaded" /\ phase' = "ran"
        /\ UNCHANGED <<program, file, loader, garbled, at, wanted>>
    BY DEF RunLoaded
  <1>2. loaded' \in [flags : FlagList, code : Seq(ReadInstrs), labels : Seq(ReadLabels)]
    <2>1. loaded \in [flags : FlagList, code : Seq(ReadInstrs), labels : Seq(ReadLabels)]
      BY DEF IInv, BasicInv
    <2>2. AddFlag(loaded.flags, "external_library") \in FlagList
      <3>1. loaded.flags \in FlagList /\ "external_library" \in FlagNames
        BY <2>1 DEF FlagNames
      <3> QED
        BY <3>1, AddFlagKeeps
    <2> QED
      BY <2>1, <2>2 DEF RunLoaded
  <1>3. BasicInv'
    BY <1>1, <1>2 DEF IInv, BasicInv
  <1>4. FileInv'
    BY <1>1 DEF IInv, FileInv
  <1> QED
    BY <1>1, <1>3, <1>4 DEF IInv, LoadInv

LEMMA NextKeeps == IInv /\ [XBinNext]_xbinVars => IInv'
  <1> SUFFICES ASSUME IInv, [XBinNext]_xbinVars PROVE IInv'
    OBVIOUS
  <1>1. ASSUME NEW p \in BinPrograms, StartSave(p) PROVE IInv'
    BY <1>1, StartSaveKeeps
  <1>2. CASE WriteField
    BY <1>2, WriteFieldKeeps
  <1>3. CASE SaveCut
    BY <1>3, SaveCutKeeps
  <1>4. CASE CloseSave
    BY <1>4, StayKeeps DEF CloseSave, Reader
  <1>5. CASE StartLoad
    BY <1>5, StartLoadKeeps
  <1>6. CASE Reading
    BY <1>6, ReadHeaderKeeps, ReadInstructionKeeps, ReadOperandKeeps, ReadLabelCountKeeps,
       ReadLabelKeeps, FinishLoadKeeps DEF Reading
  <1>7. CASE RunLoaded
    BY <1>7, RunLoadedKeeps
  <1>8. CASE UNCHANGED xbinVars
    <2>1. BasicInv'
      BY <1>8 DEF IInv, BasicInv, xbinVars
    <2>2. FileInv'
      BY <1>8 DEF IInv, FileInv, xbinVars
    <2>3. LoadInv'
      BY <1>8 DEF IInv, LoadInv, CodeInv, InstrInv, LabelInv, CodeKept, LabelsKept, Kept, xbinVars
    <2> QED
      BY <2>1, <2>2, <2>3 DEF IInv
  <1> QED
    BY <1>1, <1>2, <1>3, <1>4, <1>5, <1>6, <1>7, <1>8 DEF XBinNext

\* Whatever is saved, cut and loaded: what is on the disk is the beginning of
\* the file create_xbin writes, and a loader that has not failed stands behind
\* as many instructions, operands and labels as it has read, none of them lost.
THEOREM XBinInvariance == XBinSpec => []IInv
  BY InitEstablishes, NextKeeps, PTL DEF XBinSpec

\* Every number is behind its size, and no field is a second header.
LEMMA FieldsSized ==
  ASSUME NEW p, IsProgram(p), NEW k \in 1 .. Len(Fields(p))
  PROVE  /\ Fields(p)[k].kind = "bytes" => Sized(Fields(p), k)
         /\ Fields(p)[k].kind = "meta" => Fields(p)[k].val = SetFlags(p)
  <1> DEFINE f == Fields(p)
             b == CodePart(p)
             d == LabelPart(p)
             e == 3 + Len(b) + 1
  <1>1. /\ Len(b) \in Nat /\ Len(d) \in Nat /\ b \in Plain /\ d \in Plain
        /\ Len(f) = 4 + Len(b) + Len(d)
        /\ f[1].kind = "meta" /\ f[1].val = SetFlags(p) /\ f[2].kind = "text" /\ f[3].kind = "count"
        /\ \A i \in 1 .. Len(b) : f[3 + i] = b[i]
        /\ f[e].kind = "count"
        /\ \A i \in 1 .. Len(d) : f[e + i] = d[i]
    BY FieldParts4, FieldParts
  <1> HIDE DEF f, b, d
  <1>2. k \in 1 .. Len(f) /\ e \in Nat
    BY <1>1 DEF f
  <1>3. CASE k \in {1, 2, 3} \/ k = e
    BY <1>1, <1>3 DEF f
  <1>4. CASE k > 3 /\ k < e
    <2> DEFINE i == k - 3
    <2>1. i \in 1 .. Len(b) /\ k = 3 + i /\ (i > 1 => i - 1 \in 1 .. Len(b) /\ k - 1 = 3 + (i - 1))
      <3>1. Len(b) \in Nat /\ k \in Nat /\ k > 3 /\ k < 3 + Len(b) + 1
        BY <1>1, <1>2, <1>4
      <3> QED
        BY ONLY <3>1
    <2> HIDE DEF i
    <2>2. f[k] = b[i] /\ (i > 1 => f[k - 1] = b[i - 1])
      BY <1>1, <2>1
    <2>3. b[i].kind # "meta" /\ (b[i].kind = "bytes" => Sized(b, i))
      BY <1>1, <2>1 DEF Plain
    <2> QED
      BY <1>2, <1>4, <2>1, <2>2, <2>3 DEF Sized, f
  <1>5. CASE k > e
    <2> DEFINE i == k - e
    <2>1. i \in 1 .. Len(d) /\ k = e + i /\ (i > 1 => i - 1 \in 1 .. Len(d) /\ k - 1 = e + (i - 1))
      BY <1>1, <1>2, <1>5
    <2> HIDE DEF i
    <2>2. f[k] = d[i] /\ (i > 1 => f[k - 1] = d[i - 1])
      BY <1>1, <2>1
    <2>3. d[i].kind # "meta" /\ (d[i].kind = "bytes" => Sized(d, i))
      BY <1>1, <2>1 DEF Plain
    <2>4. k > 1
      BY <1>1, <1>2, <1>5
    <2> QED
      BY <2>1, <2>2, <2>3, <2>4 DEF Sized, f
  <1> QED
    BY <1>1, <1>2, <1>3, <1>4, <1>5

\* The invariant gives what the properties say of the fields on the disk.
LEMMA FileFieldsSized ==
  ASSUME IInv, NEW k \in 1 .. Len(file)
  PROVE  /\ file[k].kind = "bytes" => file[k].val \in 0 .. (2 * HalfOf(file[k - 1].val) - 1)
         /\ file[k].kind = "meta" => Len(file[k].val) <= 4
  <1>1. IsProgram(program) /\ Len(file) \in Nat /\ Len(Fields(program)) \in Nat
    BY ProgramsArePrograms, FieldsAreSeq DEF IInv
  <1>2. k \in 1 .. Len(Fields(program)) /\ (k > 1 => k - 1 \in 1 .. Len(file))
    BY <1>1 DEF IInv, FileInv
  <1>3. file[k] = Fields(program)[k] /\ (k > 1 => file[k - 1] = Fields(program)[k - 1])
    BY <1>2 DEF IInv, FileInv
  <1>4. Len(SetFlags(program)) <= 4
    BY <1>1, SavedFlags, FewFlags
  <1> QED
    BY <1>1, <1>2, <1>3, <1>4, FieldsSized DEF Sized

\* The size optimal_size chooses holds every number of every program, and the
\* reader never passes the end of the file.
THEOREM XBinTypeCorrect == XBinSpec => []XBinTypeOK
  <1>1. IInv => XBinTypeOK
    BY FileFieldsSized DEF IInv, BasicInv, FileInv, XBinTypeOK
  <1> QED
    BY <1>1, XBinInvariance, PTL

\* add_flag tests no limit and needs none: every flag is set once, also those a
\* loaded program adds to the ones of its file.
THEOREM FourFlagsSuffice == XBinSpec => []FlagsFit
  <1>1. ASSUME IInv PROVE FlagsFit
    <2>1. loaded.flags \in FlagList
      BY <1>1 DEF IInv, BasicInv
    <2> QED
      BY <1>1, <2>1, FewFlags, FileFieldsSized DEF FlagsFit
  <1> QED
    BY <1>1, XBinInvariance, PTL

\* A file is only taken for a program when none of its fields is missing.
THEOREM CutFilesAreRefused == XBinSpec => []OnlyCompleteFilesLoad
  <1>1. ASSUME IInv, phase \in {"loaded", "ran"} PROVE file = Fields(program)
    <2>1. /\ Len(file) = Len(Fields(program)) /\ file \in Seq(FieldSet)
          /\ \A i \in 1 .. Len(file) : file[i] = Fields(program)[i]
      BY <1>1 DEF IInv, FileInv
    <2>2. Fields(program) \in Seq(FieldSet)
      BY <1>1, FieldsAreSeq DEF IInv
    <2> QED
      BY <2>1, <2>2, SeqEqual
  <1> QED
    BY <1>1, XBinInvariance, PTL DEF OnlyCompleteFilesLoad

\* Both loaders hand execute_program the program that was saved, for programs
\* of any length with operands of any kind.
THEOREM ProgramsComeBack == XBinSpec => []LoadedAsSaved
  <1>1. ASSUME IInv, phase = "loaded"
        PROVE  /\ loaded.labels = program.labels /\ Len(loaded.code) = Len(program.code)
               /\ \A k \in 1 .. Len(program.code) : Kept(k, Len(program.code[k].args))
    <2>1. CodeKept /\ LabelsKept(Len(program.labels)) /\ IsProgram(program)
      BY <1>1, ProgramsArePrograms DEF IInv, LoadInv
    <2>2. loaded.labels \in Seq(ReadLabels) /\ program.labels \in Seq(ReadLabels)
      BY <1>1, <2>1 DEF IInv, BasicInv, IsProgram, ReadLabels
    <2>3. loaded.labels = program.labels
      BY <2>1, <2>2, SeqEqual DEF LabelsKept
    <2> QED
      BY <2>1, <2>3 DEF CodeKept
  <1>2. IInv => LoadedAsSaved
    BY <1>1 DEF LoadedAsSaved, Kept
  <1> QED
    BY <1>2, XBinInvariance, PTL

\* The flag of xcall is in the header of a loaded program exactly when the
\* program has an xcall.
THEOREM XcallFlagIsRight == XBinSpec => []XcallIsFlagged
  <1>1. ASSUME IInv, phase = "loaded", ~garbled
        PROVE  Contains(loaded.flags, "xcall") <=> HasXcall(loaded.code)
    <2>1. CodeKept /\ IsProgram(program)
      BY <1>1, ProgramsArePrograms DEF IInv, LoadInv
    <2>2. HasXcall(loaded.code) <=> HasXcall(program.code)
      BY <1>1, <2>1 DEF CodeKept, Kept, HasXcall
    <2>3. loaded.flags = SetFlags(program)
      BY <2>1 DEF CodeKept
    <2> QED
      BY <2>1, <2>2, <2>3, SavedFlags
  <1> QED
    BY <1>1, XBinInvariance, PTL DEF XcallIsFlagged
=============================================================================
