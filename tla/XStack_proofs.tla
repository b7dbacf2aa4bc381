---------------------------- MODULE XStack_proofs ----------------------------
(***************************************************************************)
(* What the operators on words and on bounded stacks return, for every     *)
(* width, every capacity and every stack; and what FlattenSeq returns.     *)
(***************************************************************************)
EXTENDS XStack, SequenceTheorems, WellFoundedInduction, TLAPS

\* The conversion to `int` of XWord answers an integer of the width, whatever
\* the sum, difference or product it is given.
LEMMA WrapType == ASSUME NEW x \in Int PROVE Wrap(x) \in Ints
  <1>1. Half \in Int /\ 2 * Half \in Int /\ 2 * Half > 0
    BY WidthAssumption
  <1>2. (x + Half) % (2 * Half) \in 0 .. (2 * Half - 1)
    BY <1>1
  <1> QED
    BY <1>1, <1>2 DEF Wrap, Ints

\* Conversion is the identity on the integers that fit the width.
LEMMA WrapFits == ASSUME NEW x \in Ints PROVE Wrap(x) = x
  <1>1. Half \in Int /\ 2 * Half \in Int /\ 2 * Half > 0 /\ x \in Int
    BY WidthAssumption DEF Ints
  <1>2. x + Half \in 0 .. (2 * Half - 1)
    BY <1>1 DEF Ints
  <1>3. (x + Half) % (2 * Half) = x + Half
    BY <1>1, <1>2
  <1> QED
    BY <1>1, <1>3 DEF Wrap

LEMMA IntWordType == ASSUME NEW x \in Int PROVE IntWord(x) \in Words
  BY WrapType DEF IntWord, Words, WordTypes, ValuesOf, Ints

LEMMA NullWordType == NullWord \in Words /\ SomePtr \in Words /\ NullStr \in Words
  BY LenAssumption DEF NullWord, SomePtr, NullStr, Words, WordTypes, ValuesOf

\* Every word of a tag is a word.
LEMMA WordsOfType == ASSUME NEW t \in WordTypes PROVE WordsOf(t) \subseteq Words
  BY WidthAssumption, LenAssumption DEF WordsOf, Words, WordTypes, ValuesOf, Ints

LEMMA StrType == ASSUME NEW n \in Int, n >= 0 PROVE Str(n) \in Words
  BY LenAssumption DEF Str, Words, WordTypes, ValuesOf

----------------------------------------------------------------------------
(* The results of the instructions on words are words.                     *)

LEMMA WordValue ==
  ASSUME NEW w \in Words
  PROVE  /\ w.type \in WordTypes /\ w.val \in Int
         /\ IsInt(w) => w.val \in Ints
         /\ w.type = "float" => w.val \in {0, 1}
  BY WidthAssumption DEF Words, ValuesOf, IsInt

LEMMA TruthType == ASSUME NEW b \in BOOLEAN PROVE Truth(b) \in Words
  <1>1. IntWord(0) \in Words /\ IntWord(1) \in Words
    BY IntWordType
  <1> QED
    BY <1>1 DEF Truth

\* The quotient and the remainder by a number other than 0 are integers.
LEMMA QuotientType ==
  ASSUME NEW a \in Int, NEW b \in Int, b # 0
  PROVE  CQuot(a, b) \in Int /\ CRem(a, b) \in Int
  <1>1. AbsVal(a) \in Nat /\ AbsVal(b) \in Nat /\ AbsVal(b) > 0
    BY DEF AbsVal
  <1>2. AbsVal(a) \div AbsVal(b) \in Int
    BY <1>1
  <1>3. CQuot(a, b) \in Int
    BY <1>2 DEF CQuot
  <1>4. b * CQuot(a, b) \in Int
    BY <1>3
  <1> QED
    BY <1>3, <1>4 DEF CRem

LEMMA ArithmeticTypes ==
  ASSUME NEW w1 \in Words, NEW w2 \in Words
  PROVE  /\ AddWords(w1, w2) \subseteq Words
         /\ SubWords(w1, w2) \subseteq Words
         /\ MulWords(w1, w2) \subseteq Words
         /\ (BothInt(w1, w2) => w1.val # 0) => DivWords(w1, w2) \subseteq Words
         /\ ModWords(w1, w2) \subseteq Words
  <1>1. WordsOf("float") \subseteq Words
    BY WordsOfType DEF WordTypes
  <1>2. w1.val \in Int /\ w2.val \in Int
    BY WordValue
  <1>3. /\ IntWord(w1.val + w2.val) \in Words
        /\ IntWord(w1.val - w2.val) \in Words
    BY <1>2, IntWordType
  <1>4. w2.val * w1.val \in Int
    BY <1>2
  <1>5. IntWord(w2.val * w1.val) \in Words
    BY <1>4, IntWordType
  <1>6. w1.val # 0 => /\ IntWord(CQuot(w2.val, w1.val)) \in Words
                      /\ IntWord(CRem(w2.val, w1.val)) \in Words
    BY <1>2, QuotientType, IntWordType
  <1> QED
    BY <1>1, <1>3, <1>5, <1>6 DEF AddWords, SubWords, MulWords, DivWords, ModWords

LEMMA LogicTypes ==
  ASSUME NEW w1 \in Words, NEW w2 \in Words
  PROVE  OrWords(w1, w2) \subseteq Words /\ NotWords(w1) \subseteq Words
  <1>1. OrWords(w1, w2) \subseteq Words
    <2>1. CASE BothInt(w1, w2)
      <3>1. w1.val \in Ints /\ w2.val \in Ints /\ OrInts(w2.val, w1.val) \subseteq Ints
        BY <2>1, WordValue DEF OrInts, BothInt, IsInt
      <3>2. [type : {"int"}, val : Ints] \subseteq Words
        BY WidthAssumption DEF Words, WordTypes, ValuesOf, Ints
      <3> QED
        BY <3>1, <3>2, <2>1 DEF OrWords
    <2>2. CASE ~BothInt(w1, w2)
      BY <2>2 DEF OrWords
    <2> QED
      BY <2>1, <2>2
  <1>2. NotWords(w1) \subseteq Words
    <2>1. Truth(w1.val = 0) \in Words
      BY TruthType
    <2>2. w1.type = "float" => [type |-> "float", val |-> 1 - w1.val] \in Words
      BY WordValue DEF Words, WordTypes, ValuesOf
    <2> QED
      BY <2>1, <2>2 DEF NotWords
  <1> QED
    BY <1>1, <1>2

LEMMA XorType == ASSUME NEW a \in Ints, NEW b \in Ints PROVE XorInts(a, b) \subseteq Ints
  BY WidthAssumption DEF XorInts, Ints

LEMMA CompareType ==
  ASSUME NEW op, NEW w1 \in Words, NEW w2 \in Words
  PROVE  CompareWords(op, w1, w2) \subseteq Words
  <1>1. IntWord(0) \in Words /\ IntWord(1) \in Words
    BY IntWordType
  <1>2. \A b : Truth(b) \in Words
    BY <1>1 DEF Truth
  <1> QED
    BY <1>2 DEF CompareWords

LEMMA MovedType ==
  ASSUME NEW w \in Words, NEW n
  PROVE  PtrMoved(w, n) \subseteq Words
  BY WordValue, WordsOfType DEF PtrMoved, WordsOf

LEMMA RegisterFormTypes ==
  ASSUME NEW w \in Words, NEW src \in Words, NEW n \in Int
  PROVE  /\ RegSum(w, src, n) \subseteq Words
         /\ Displaced(w, n) \subseteq Words
  <1>1. WordsOf("float") \subseteq Words /\ PtrMoved(w, n) \subseteq Words
    BY WordsOfType, MovedType DEF WordTypes
  <1>2. IntWord(w.val + n) \in Words
    BY WordValue, IntWordType
  <1> QED
    BY <1>1, <1>2 DEF RegSum, Displaced

LEMMA CmpType ==
  ASSUME NEW w1 \in Words, NEW w2 \in Words
  PROVE  CmpInts(w1, w2) \subseteq Int
  <1>1. w1.val - w2.val \in Int
    BY WordValue
  <1>2. Wrap(w1.val - w2.val) \in Int /\ Ints \subseteq Int
    BY <1>1, WrapType, WidthAssumption DEF Ints
  <1>3. {0} \subseteq Int /\ {1, -1} \subseteq Int /\ Ints \ {0} \subseteq Int
    BY <1>2
  <1>4. {Wrap(w1.val - w2.val)} \subseteq Int
    BY <1>2
  <1>5. \/ CmpInts(w1, w2) = {0} \/ CmpInts(w1, w2) = {1, -1}
        \/ CmpInts(w1, w2) = Ints \/ CmpInts(w1, w2) = Ints \ {0}
        \/ CmpInts(w1, w2) = {Wrap(w1.val - w2.val)}
    BY Zenon DEF CmpInts
  <1> QED
    BY <1>2, <1>3, <1>4, <1>5

LEMMA CastType ==
  ASSUME NEW w \in Words, NEW t \in WordTypes
  PROVE  CastWords(w, t) \subseteq Words
  BY WordsOfType DEF CastWords

----------------------------------------------------------------------------
Stacks(cap) == {s \in Seq(Words) : Len(s) <= cap}

\* A push never takes a stack beyond its capacity.
LEMMA PushType ==
  ASSUME NEW cap \in Nat, NEW s \in Stacks(cap), NEW w \in Words
  PROVE  Push(s, cap, w) \in Stacks(cap)
  <1>1. /\ Append(s, w) \in Seq(Words)
        /\ Len(Append(s, w)) = Len(s) + 1
        /\ Len(s) \in Nat
    BY AppendProperties, LenProperties DEF Stacks
  <1> QED
    BY <1>1 DEF Push, Stacks

\* A word is found at every offset, also beyond the bottom of the stack.
LEMMA PeekType ==
  ASSUME NEW s \in Seq(Words), NEW k \in Nat
  PROVE  Peek(s, k) \in Words
  <1>1. Len(s) \in Nat
    BY LenProperties
  <1>2. CASE k >= Len(s)
    BY <1>2, NullWordType DEF Peek
  <1>3. CASE k < Len(s)
    BY <1>1, <1>3, ElementOfSeq DEF Peek
  <1> QED
    BY <1>1, <1>2, <1>3

LEMMA TopType == ASSUME NEW s \in Seq(Words) PROVE Top(s) \in Words
  BY PeekType DEF Top

\* n pops leave the words below the n-th, and nothing of a shorter stack.
LEMMA PoppedProperties ==
  ASSUME NEW S, NEW s \in Seq(S), NEW n \in Nat
  PROVE  /\ Popped(s, n) \in Seq(S)
         /\ Len(Popped(s, n)) = IF n <= Len(s) THEN Len(s) - n ELSE 0
         /\ \A i \in 1 .. (Len(s) - n) : Popped(s, n)[i] = s[i]
  <1>1. /\ Len(s) \in Nat
        /\ Len(s) - n \in Int
        /\ \A i \in 1 .. (Len(s) - n) : s[i] \in S
    BY LenProperties, ElementOfSeq
  <1>2. /\ SubSeq(s, 1, Len(s) - n) \in Seq(S)
        /\ Len(SubSeq(s, 1, Len(s) - n)) =
              IF 1 <= Len(s) - n THEN Len(s) - n - 1 + 1 ELSE 0
        /\ \A i \in 1 .. Len(s) - n - 1 + 1 : SubSeq(s, 1, Len(s) - n)[i] = s[1 + i - 1]
    BY <1>1, SubSeqProperties
  <1> QED
    BY <1>1, <1>2 DEF Popped

\* The words below the n-th, when there are as many.
LEMMA WordsBelow ==
  ASSUME NEW s \in Seq(Words), NEW n \in Nat, n <= Len(s)
  PROVE  /\ Popped(s, n) \in Seq(Words)
         /\ Len(Popped(s, n)) = Len(s) - n
         /\ \A i \in 1 .. (Len(s) - n) : Popped(s, n)[i] = s[i]
  <1> DEFINE S == Words
  <1>1. s \in Seq(S)
    BY DEF S
  <1> HIDE DEF S
  <1>2. /\ Popped(s, n) \in Seq(S)
        /\ Len(Popped(s, n)) = IF n <= Len(s) THEN Len(s) - n ELSE 0
        /\ \A i \in 1 .. (Len(s) - n) : Popped(s, n)[i] = s[i]
    BY <1>1, PoppedProperties
  <1> QED
    BY <1>2 DEF S

LEMMA PoppedType ==
  ASSUME NEW cap \in Nat, NEW s \in Stacks(cap), NEW n \in Nat
  PROVE  Popped(s, n) \in Stacks(cap)
  <1>1. s \in Seq(Words) /\ Len(s) <= cap
    BY DEF Stacks
  <1>2. Len(s) \in Nat
    BY <1>1, LenProperties
  <1>3. /\ Popped(s, n) \in Seq(Words)
        /\ Len(Popped(s, n)) = IF n <= Len(s) THEN Len(s) - n ELSE 0
    BY <1>1, PoppedProperties
  <1> QED
    BY <1>1, <1>2, <1>3 DEF Stacks

\* A row of pushes stays within the capacity too.
LEMMA PushAllType ==
  ASSUME NEW cap \in Nat, NEW s \in Stacks(cap), NEW ws \in Seq(Words)
  PROVE  PushAll(s, cap, ws) \in Stacks(cap)
  <1> DEFINE n == IF Len(s) + Len(ws) <= cap THEN Len(ws) ELSE cap - Len(s)
  <1>1. Len(s) \in Nat /\ Len(ws) \in Nat /\ Len(s) <= cap
    BY LenProperties DEF Stacks
  <1>2. n \in Nat /\ n <= Len(ws) /\ Len(s) + n <= cap
    BY <1>1
  <1>3. \A i \in 1 .. n : ws[i] \in Words
    BY <1>1, <1>2, ElementOfSeq
  <1>4. PushAll(s, cap, ws) = s \o SubSeq(ws, 1, n)
    BY DEF PushAll
  <1> HIDE DEF n
  <1>5. /\ SubSeq(ws, 1, n) \in Seq(Words)
        /\ Len(SubSeq(ws, 1, n)) = IF 1 <= n THEN n - 1 + 1 ELSE 0
    BY <1>2, <1>3, SubSeqProperties
  <1>6. Len(SubSeq(ws, 1, n)) = n
    BY <1>2, <1>5
  <1>7. /\ s \o SubSeq(ws, 1, n) \in Seq(Words)
        /\ Len(s \o SubSeq(ws, 1, n)) = Len(s) + Len(SubSeq(ws, 1, n))
    BY <1>5, ConcatProperties DEF Stacks
  <1> QED
    BY <1>2, <1>4, <1>6, <1>7 DEF Stacks

\* With room for them, a row of pushes leaves its last word on top, its first
\* word below the others, and the stack underneath.
LEMMA PushAllTop ==
  ASSUME NEW cap \in Nat, NEW s \in Stacks(cap), NEW ws \in Seq(Words),
         Len(ws) > 0, Len(s) + Len(ws) <= cap
  PROVE  /\ Top(PushAll(s, cap, ws)) = ws[Len(ws)]
         /\ Peek(PushAll(s, cap, ws), Len(ws) - 1) = ws[1]
         /\ Popped(PushAll(s, cap, ws), Len(ws)) = s
  <1> DEFINE n == Len(ws)
             t == s \o ws
  <1>1. /\ s \in Seq(Words) /\ Len(s) \in Nat
        /\ n \in Nat /\ n > 0
    BY LenProperties DEF Stacks
  <1>2. SubSeq(ws, 1, n) = ws
    <2>1. \A i \in 1 .. n : ws[i] \in Words
      BY ElementOfSeq
    <2>2. /\ SubSeq(ws, 1, n) \in Seq(Words)
          /\ Len(SubSeq(ws, 1, n)) = IF 1 <= n THEN n - 1 + 1 ELSE 0
          /\ \A i \in 1 .. n - 1 + 1 : SubSeq(ws, 1, n)[i] = ws[1 + i - 1]
      BY <1>1, <2>1, SubSeqProperties
    <2>3. Len(SubSeq(ws, 1, n)) = n /\ \A i \in 1 .. n : SubSeq(ws, 1, n)[i] = ws[i]
      BY <1>1, <2>2
    <2> QED
      BY <2>2, <2>3, SeqEqual
  <1>3. PushAll(s, cap, ws) = t
    BY <1>2 DEF PushAll
  <1>4. /\ t \in Seq(Words)
        /\ Len(t) = Len(s) + n
        /\ \A i \in 1 .. Len(s) + n : t[i] = IF i <= Len(s) THEN s[i] ELSE ws[i - Len(s)]
    BY <1>1, ConcatProperties
  <1> HIDE DEF n, t
  <1>5. Top(t) = ws[n]
    <2>1. Top(t) = t[Len(s) + n]
      BY <1>1, <1>4 DEF Top, Peek
    <2> QED
      BY <1>1, <1>4, <2>1
  <1>6. Peek(t, n - 1) = ws[1]
    <2>1. Peek(t, n - 1) = t[Len(s) + 1]
      BY <1>1, <1>4 DEF Peek
    <2> QED
      BY <1>1, <1>4, <2>1
  <1>7. Popped(t, n) = s
    <2>1. /\ Popped(t, n) \in Seq(Words)
          /\ Len(Popped(t, n)) = IF n <= Len(t) THEN Len(t) - n ELSE 0
          /\ \A i \in 1 .. (Len(t) - n) : Popped(t, n)[i] = t[i]
      BY <1>1, <1>4, PoppedProperties
    <2>2. Len(Popped(t, n)) = Len(s) /\ Len(t) - n = Len(s)
      BY <1>1, <1>4, <2>1
    <2>3. \A i \in 1 .. Len(s) : Popped(t, n)[i] = s[i]
      BY <1>1, <1>4, <2>1, <2>2
    <2> QED
      BY <1>1, <2>1, <2>2, <2>3, SeqEqual
  <1> QED
    BY <1>3, <1>5, <1>6, <1>7 DEF n

----------------------------------------------------------------------------
\* Where IROTL and IROTR put every word of a stack they rotate.
LEMMA RotLWords ==
  ASSUME NEW s \in Seq(Words), NEW n \in Int, Rotatable(s, n)
  PROVE  /\ RotL(s, n) \in Seq(Words)
         /\ Len(RotL(s, n)) = Len(s)
         /\ \A p \in 1 .. Len(s) :
               RotL(s, n)[p] = IF p <= Len(s) - n THEN s[p]
                               ELSE IF p = Len(s) - n + 1 THEN s[Len(s)] ELSE s[p - 1]
  <1> DEFINE low == Popped(s, n)
             high == FromTemp(ShiftedDown(TempOf(s, n), n), n)
  <1>1. Len(s) \in Nat /\ n \in Nat /\ 0 < n /\ n < Len(s)
    BY LenProperties DEF Rotatable
  <1>2. /\ low \in Seq(Words)
        /\ Len(low) = Len(s) - n
        /\ \A i \in 1 .. (Len(s) - n) : low[i] = s[i]
    <2>1. n \in Nat /\ n <= Len(s)
      BY <1>1
    <2> QED
      BY <2>1, WordsBelow, Zenon
  <1>3. high = [j \in 1 .. n |-> IF j = 1 THEN s[Len(s)] ELSE s[Len(s) - n + j - 1]]
    BY <1>1 DEF FromTemp, ShiftedDown, TempOf, Peek
  <1>4. \A j \in 1 .. n : high[j] \in Words
    BY <1>1, <1>3, ElementOfSeq
  <1>5. high \in Seq(Words) /\ Len(high) = n
    <2>1. high \in [1 .. n -> Words]
      BY <1>3, <1>4
    <2>2. high \in Seq(Words)
      BY <2>1, <1>1, SeqDef
    <2>3. DOMAIN high = 1 .. n /\ DOMAIN high = 1 .. Len(high) /\ Len(high) \in Nat
      BY <2>1, <2>2, LenProperties
    <2> QED
      BY <2>2, <2>3, <1>1
  <1>6. RotL(s, n) = low \o high
    BY DEF RotL
  <1> HIDE DEF low, high
  <1>7. /\ low \o high \in Seq(Words)
        /\ Len(low \o high) = Len(low) + Len(high)
        /\ \A p \in 1 .. Len(low) + Len(high) :
              (low \o high)[p] = IF p <= Len(low) THEN low[p] ELSE high[p - Len(low)]
    BY <1>2, <1>5, ConcatProperties
  <1>8. ASSUME NEW p \in 1 .. Len(s)
        PROVE  (low \o high)[p] = IF p <= Len(s) - n THEN s[p]
                                  ELSE IF p = Len(s) - n + 1 THEN s[Len(s)] ELSE s[p - 1]
    <2>1. CASE p <= Len(s) - n
      BY <2>1, <1>1, <1>2, <1>5, <1>7
    <2>2. CASE p > Len(s) - n
      <3>1. p - (Len(s) - n) \in 1 .. n
        BY <2>2, <1>1
      <3>2. (low \o high)[p] = high[p - (Len(s) - n)]
        BY <2>2, <1>1, <1>2, <1>5, <1>7
      <3> DEFINE k == p - (Len(s) - n)
      <3>3. (low \o high)[p] = IF k = 1 THEN s[Len(s)] ELSE s[Len(s) - n + k - 1]
        BY <3>1, <3>2, <1>3
      <3>4. /\ k = 1 <=> p = Len(s) - n + 1
            /\ Len(s) - n + k - 1 = p - 1
            /\ ~(p <= Len(s) - n)
        BY <2>2, <1>1
      <3> HIDE DEF k
      <3> QED
        BY <3>3, <3>4
    <2>3. p <= Len(s) - n \/ p > Len(s) - n
      BY <1>1
    <2> QED
      BY <2>1, <2>2, <2>3, Zenon
  <1> QED
    BY <1>1, <1>2, <1>5, <1>6, <1>7, <1>8

LEMMA RotRWords ==
  ASSUME NEW s \in Seq(Words), NEW n \in Int, Rotatable(s, n)
  PROVE  /\ RotR(s, n) \in Seq(Words)
         /\ Len(RotR(s, n)) = Len(s)
         /\ \A p \in 1 .. Len(s) :
               RotR(s, n)[p] = IF p <= Len(s) - n THEN s[p]
                               ELSE IF p = Len(s) THEN s[Len(s) - n + 1] ELSE s[p + 1]
  <1> DEFINE low == Popped(s, n)
             high == FromTemp(ShiftedUp(TempOf(s, n), n), n)
  <1>1. Len(s) \in Nat /\ n \in Nat /\ 0 < n /\ n < Len(s)
    BY LenProperties DEF Rotatable
  <1>2. /\ low \in Seq(Words)
        /\ Len(low) = Len(s) - n
        /\ \A i \in 1 .. (Len(s) - n) : low[i] = s[i]
    <2>1. n \in Nat /\ n <= Len(s)
      BY <1>1
    <2> QED
      BY <2>1, WordsBelow, Zenon
  <1>3. high = [j \in 1 .. n |-> IF j = n THEN s[Len(s) - n + 1] ELSE s[Len(s) - n + j + 1]]
    BY <1>1 DEF FromTemp, ShiftedUp, TempOf, Peek
  <1>4. \A j \in 1 .. n : high[j] \in Words
    BY <1>1, <1>3, ElementOfSeq
  <1>5. high \in Seq(Words) /\ Len(high) = n
    <2>1. high \in [1 .. n -> Words]
      BY <1>3, <1>4
    <2>2. high \in Seq(Words)
      BY <2>1, <1>1, SeqDef
    <2>3. DOMAIN high = 1 .. n /\ DOMAIN high = 1 .. Len(high) /\ Len(high) \in Nat
      BY <2>1, <2>2, LenProperties
    <2> QED
      BY <2>2, <2>3, <1>1
  <1>6. RotR(s, n) = low \o high
    BY DEF RotR
  <1> HIDE DEF low, high
  <1>7. /\ low \o high \in Seq(Words)
        /\ Len(low \o high) = Len(low) + Len(high)
        /\ \A p \in 1 .. Len(low) + Len(high) :
              (low \o high)[p] = IF p <= Len(low) THEN low[p] ELSE high[p - Len(low)]
    BY <1>2, <1>5, ConcatProperties
  <1>8. ASSUME NEW p \in 1 .. Len(s)
        PROVE  (low \o high)[p] = IF p <= Len(s) - n THEN s[p]
                                  ELSE IF p = Len(s) THEN s[Len(s) - n + 1] ELSE s[p + 1]
    <2>1. CASE p <= Len(s) - n
      BY <2>1, <1>1, <1>2, <1>5, <1>7
    <2>2. CASE p > Len(s) - n
      <3>1. p - (Len(s) - n) \in 1 .. n
        BY <2>2, <1>1
      <3>2. (low \o high)[p] = high[p - (Len(s) - n)]
        BY <2>2, <1>1, <1>2, <1>5, <1>7
      <3> DEFINE k == p - (Len(s) - n)
      <3>3. (low \o high)[p] = IF k = n THEN s[Len(s) - n + 1] ELSE s[Len(s) - n + k + 1]
        BY <3>1, <3>2, <1>3
      <3>4. /\ k = n <=> p = Len(s)
            /\ Len(s) - n + k + 1 = p + 1
            /\ ~(p <= Len(s) - n)
        BY <2>2, <1>1
      <3> HIDE DEF k
      <3> QED
        BY <3>3, <3>4
    <2>3. p <= Len(s) - n \/ p > Len(s) - n
      BY <1>1
    <2> QED
      BY <2>1, <2>2, <2>3, Zenon
  <1> QED
    BY <1>1, <1>2, <1>5, <1>6, <1>7, <1>8

\* A rotation keeps the type and the height of every stack.
LEMMA RotationTypes ==
  ASSUME NEW cap \in Nat, NEW s \in Stacks(cap), NEW n \in Int
  PROVE  RotL(s, n) \in Stacks(cap) /\ RotR(s, n) \in Stacks(cap)
  <1>1. CASE Rotatable(s, n)
    BY <1>1, RotLWords, RotRWords DEF Stacks
  <1>2. CASE ~Rotatable(s, n)
    BY <1>2 DEF RotL, RotR
  <1> QED
    BY <1>1, <1>2

\* IROTR undoes IROTL on every stack.
THEOREM RotRUndoesRotL ==
  ASSUME NEW s \in Seq(Words), NEW n \in Int
  PROVE  RotR(RotL(s, n), n) = s
  <1>1. CASE ~Rotatable(s, n)
    BY <1>1 DEF RotL, RotR
  <1>2. CASE Rotatable(s, n)
    <2> DEFINE t == RotL(s, n)
    <2>1. Len(s) \in Nat /\ n \in Nat /\ 0 < n /\ n < Len(s)
      BY <1>2, LenProperties DEF Rotatable
    <2>2. t \in Seq(Words) /\ Len(t) = Len(s)
      BY <1>2, RotLWords
    <2>3. Rotatable(t, n)
      BY <1>2, <2>2 DEF Rotatable
    <2>4. \A p \in 1 .. Len(s) :
             t[p] = IF p <= Len(s) - n THEN s[p]
                    ELSE IF p = Len(s) - n + 1 THEN s[Len(s)] ELSE s[p - 1]
      BY <1>2, RotLWords
    <2> HIDE DEF t
    <2>5. /\ RotR(t, n) \in Seq(Words)
          /\ Len(RotR(t, n)) = Len(s)
          /\ \A p \in 1 .. Len(s) :
                RotR(t, n)[p] = IF p <= Len(s) - n THEN t[p]
                                ELSE IF p = Len(s) THEN t[Len(s) - n + 1] ELSE t[p + 1]
      BY <2>2, <2>3, RotRWords
    <2>6. ASSUME NEW p \in 1 .. Len(s) PROVE RotR(t, n)[p] = s[p]
      <3>1. CASE p <= Len(s) - n
        BY <3>1, <2>1, <2>4, <2>5
      <3>2. CASE p > Len(s) - n /\ p = Len(s)
        BY <3>2, <2>1, <2>4, <2>5
      <3>3. CASE p > Len(s) - n /\ p < Len(s)
        <4>1. RotR(t, n)[p] = t[p + 1]
          BY <3>3, <2>1, <2>5
        <4>2. p + 1 \in 1 .. Len(s) /\ p + 1 > Len(s) - n + 1 /\ p + 1 - 1 = p
          BY <3>3, <2>1
        <4> QED
          BY <4>1, <4>2, <2>1, <2>4
      <3> QED
        BY <3>1, <3>2, <3>3, <2>1
    <2> QED
      BY <2>5, <2>6, SeqEqual DEF t
  <1> QED
    BY <1>1, <1>2

\* IROTL sinks the top to the n-th place and leaves what is below alone.
LEMMA RotLSinksTop ==
  ASSUME NEW s \in Seq(Words), NEW n \in Int, Rotatable(s, n)
  PROVE  /\ Peek(RotL(s, n), n - 1) = Top(s)
         /\ Popped(RotL(s, n), n) = Popped(s, n)
  <1> DEFINE t == RotL(s, n)
  <1>1. Len(s) \in Nat /\ n \in Nat /\ 0 < n /\ n < Len(s)
    BY LenProperties DEF Rotatable
  <1>2. /\ t \in Seq(Words) /\ Len(t) = Len(s)
        /\ \A p \in 1 .. Len(s) :
              t[p] = IF p <= Len(s) - n THEN s[p]
                     ELSE IF p = Len(s) - n + 1 THEN s[Len(s)] ELSE s[p - 1]
    BY RotLWords
  <1> HIDE DEF t
  <1>3. Peek(t, n - 1) = Top(s)
    <2>1. Len(t) - (n - 1) = Len(s) - n + 1 /\ Len(s) - n + 1 \in 1 .. Len(s)
      BY <1>1, <1>2
    <2>2. t[Len(s) - n + 1] = s[Len(s)]
      BY <1>1, <1>2, <2>1
    <2>3. Peek(t, n - 1) = t[Len(s) - n + 1]
      BY <1>1, <1>2, <2>1 DEF Peek
    <2>4. Top(s) = s[Len(s)]
      BY <1>1 DEF Top, Peek
    <2> QED
      BY <2>2, <2>3, <2>4
  <1>4. Popped(t, n) = Popped(s, n)
    <2>1. /\ Popped(t, n) \in Seq(Words)
          /\ Len(Popped(t, n)) = IF n <= Len(t) THEN Len(t) - n ELSE 0
          /\ \A i \in 1 .. (Len(t) - n) : Popped(t, n)[i] = t[i]
      BY <1>1, <1>2, PoppedProperties
    <2>2. /\ Popped(s, n) \in Seq(Words)
          /\ Len(Popped(s, n)) = IF n <= Len(s) THEN Len(s) - n ELSE 0
          /\ \A i \in 1 .. (Len(s) - n) : Popped(s, n)[i] = s[i]
      BY <1>1, PoppedProperties
    <2>3. \A i \in 1 .. (Len(s) - n) : t[i] = s[i]
      BY <1>1, <1>2
    <2>4. Len(Popped(t, n)) = Len(s) - n /\ Len(Popped(s, n)) = Len(s) - n
      BY <1>1, <1>2, <2>1, <2>2
    <2>5. \A i \in 1 .. (Len(s) - n) : Popped(t, n)[i] = Popped(s, n)[i]
      BY <1>2, <2>1, <2>2, <2>3
    <2> QED
      BY <2>1, <2>2, <2>4, <2>5, SeqEqual
  <1> QED
    BY <1>3, <1>4 DEF t

----------------------------------------------------------------------------
(* What FlattenSeq makes of a sequence of sequences of any length.  It is  *)
(* a recursive function, of which the sequence-by-sequence joins are the   *)
(* values; that there is one is shown by induction on its domain.          *)

\* FlattenSeq of the community modules.
Flat(ss) ==
    IF Len(ss) = 0 THEN ss
    ELSE LET flatten[i \in 1 .. Len(ss)] == IF i = 1 THEN ss[i] ELSE flatten[i - 1] \o ss[i]
         IN  flatten[Len(ss)]

\* Induction, for a set of numbers instead of a predicate.
LEMMA InductionOnSet ==
  ASSUME NEW S, 0 \in S, \A n \in Nat : n \in S => n + 1 \in S
  PROVE  Nat \subseteq S
  <1> DEFINE T == Nat \ S
  <1>1. SUFFICES ASSUME T # {} PROVE FALSE
    OBVIOUS
  <1>2. PICK m \in T : \A k \in T : <<k, m>> \notin OpToRel(<, Nat)
    <2>1. T \subseteq Nat
      OBVIOUS
    <2> HIDE DEF T
    <2> QED
      BY <1>1, <2>1, WFMin, NatLessThanWellFounded, Zenon
  <1>3. m \in Nat /\ m \notin S /\ m # 0
    BY <1>2
  <1>4. m - 1 \in Nat /\ m - 1 < m /\ (m - 1) + 1 = m
    BY <1>3
  <1>5. m - 1 \in T
    BY <1>3, <1>4
  <1>6. <<m - 1, m>> \in OpToRel(<, Nat)
    BY ONLY <1>3, <1>4, Zenon DEF OpToRel
  <1> QED
    BY <1>2, <1>5, <1>6, Zenon

\* Flat has the value of a function that solves its equation, if one does.
LEMMA FlatIsChain ==
  ASSUME NEW F, NEW ss \in Seq(Seq(F)), Len(ss) > 0,
         NEW f, f = [i \in 1 .. Len(ss) |-> IF i = 1 THEN ss[i] ELSE f[i - 1] \o ss[i]]
  PROVE  \E g : /\ g = [i \in 1 .. Len(ss) |-> IF i = 1 THEN ss[i] ELSE g[i - 1] \o ss[i]]
                /\ Flat(ss) = g[Len(ss)]
  <1> DEFINE G(g) == g = [i \in 1 .. Len(ss) |-> IF i = 1 THEN ss[i] ELSE g[i - 1] \o ss[i]]
             h == CHOOSE g : G(g)
  <1>1. Flat(ss) = h[Len(ss)]
    BY DEF Flat
  <1>2. G(h)
    BY Zenon
  <1> QED
    BY <1>1, <1>2

\* One does.
LEMMA ChainExists ==
  ASSUME NEW F, NEW ss \in Seq(Seq(F)), NEW n \in Nat, n <= Len(ss)
  PROVE  \E f : f = [i \in 1 .. n |-> IF i = 1 THEN ss[i] ELSE f[i - 1] \o ss[i]]
  <1> DEFINE G(f, m) == f = [i \in 1 .. m |-> IF i = 1 THEN ss[i] ELSE f[i - 1] \o ss[i]]
             S == {m \in Nat : \E f : G(f, m)}
  <1>1. 0 \in S
    <2>1. G([i \in 1 .. 0 |-> 0], 0)
      OBVIOUS
    <2> QED
      BY <2>1
  <1>2. ASSUME NEW m \in Nat, m \in S PROVE m + 1 \in S
    <2>1. PICK f : G(f, m)
      BY <1>2
    <2> DEFINE g == [i \in 1 .. (m + 1) |-> IF i = m + 1 THEN IF i = 1 THEN ss[i] ELSE f[m] \o ss[i]
                                            ELSE f[i]]
    <2>2. ASSUME NEW i \in 1 .. (m + 1)
          PROVE  g[i] = IF i = 1 THEN ss[i] ELSE g[i - 1] \o ss[i]
      <3>1. CASE i = m + 1 /\ i = 1
        BY <3>1
      <3>2. CASE i = m + 1 /\ i # 1
        <4>1. i - 1 = m /\ m \in 1 .. (m + 1) /\ m # m + 1
          BY <3>2
        <4> QED
          BY <3>2, <4>1
      <3>3. CASE i # m + 1
        <4>1. i \in 1 .. m
          BY <3>3
        <4>2. i # 1 => i - 1 \in 1 .. (m + 1) /\ i - 1 # m + 1
          BY <4>1
        <4> QED
          BY <2>1, <3>3, <4>1, <4>2
      <3> QED
        BY <3>1, <3>2, <3>3
    <2>3. G(g, m + 1)
      <3>1. g = [i \in 1 .. (m + 1) |-> g[i]]
        OBVIOUS
      <3> HIDE DEF g
      <3> QED
        BY <2>2, <3>1
    <2>4. m + 1 \in Nat
      OBVIOUS
    <2> HIDE DEF g, G
    <2> QED
      BY <2>3, <2>4
  <1>3. n \in S
    <2> HIDE DEF S
    <2> QED
      BY <1>1, <1>2, InductionOnSet
  <1> QED
    BY <1>3

\* The joins of the first k sequences, for every k.
LEMMA FlatJoins ==
  ASSUME NEW F, NEW ss \in Seq(Seq(F))
  PROVE  \E j \in [0 .. Len(ss) -> Seq(F)] :
            /\ j[0] = <<>> /\ j[Len(ss)] = Flat(ss)
            /\ \A k \in 1 .. Len(ss) : j[k] = j[k - 1] \o ss[k]
  <1>1. Len(ss) \in Nat /\ \A k \in 1 .. Len(ss) : ss[k] \in Seq(F)
    BY LenProperties, ElementOfSeq
  <1>2. CASE Len(ss) = 0
    <2>1. ss = <<>>
      BY <1>2, EmptySeq
    <2> DEFINE j == [k \in 0 .. 0 |-> <<>>]
    <2>2. Flat(ss) = <<>>
      BY <1>2, <2>1 DEF Flat
    <2>3. j \in [0 .. Len(ss) -> Seq(F)] /\ j[0] = <<>>
      BY <1>2, EmptySeq
    <2>4. \A k \in 1 .. Len(ss) : j[k] = j[k - 1] \o ss[k]
      BY <1>2
    <2>5. j[Len(ss)] = Flat(ss)
      BY <1>2, <2>2, <2>3
    <2> HIDE DEF j
    <2> QED
      BY <2>3, <2>4, <2>5
  <1>3. CASE Len(ss) > 0
    <2>1. PICK g : /\ g = [i \in 1 .. Len(ss) |-> IF i = 1 THEN ss[i] ELSE g[i - 1] \o ss[i]]
                   /\ Flat(ss) = g[Len(ss)]
      <3>1. PICK f : f = [i \in 1 .. Len(ss) |-> IF i = 1 THEN ss[i] ELSE f[i - 1] \o ss[i]]
        <4>1. Len(ss) \in Nat /\ Len(ss) <= Len(ss)
          BY <1>1
        <4> QED
          BY <4>1, ChainExists, Zenon
      <3> QED
        BY <1>3, <3>1, FlatIsChain
    <2> DEFINE S == {m \in Nat : m \in 1 .. Len(ss) => g[m] \in Seq(F)}
    <2>2. Nat \subseteq S
      <3>1. 0 \in S
        OBVIOUS
      <3>2. ASSUME NEW m \in Nat, m \in S PROVE m + 1 \in S
        <4>1. SUFFICES ASSUME m + 1 \in 1 .. Len(ss) PROVE g[m + 1] \in Seq(F)
          OBVIOUS
        <4>2. CASE m = 0
          BY <1>1, <2>1, <4>1, <4>2
        <4>3. CASE m # 0
          <5>1. m \in 1 .. Len(ss) /\ (m + 1) - 1 = m /\ m + 1 # 1
            BY <1>1, <4>1, <4>3
          <5>2. g[m + 1] = g[m] \o ss[m + 1]
            BY <2>1, <4>1, <5>1
          <5>3. g[m] \in Seq(F) /\ ss[m + 1] \in Seq(F)
            BY <1>1, <3>2, <4>1, <5>1
          <5> QED
            BY <5>2, <5>3, ConcatProperties
        <4> QED
          BY <4>2, <4>3
      <3> HIDE DEF S
      <3> QED
        BY <3>1, <3>2, InductionOnSet
    <2> DEFINE j == [k \in 0 .. Len(ss) |-> IF k = 0 THEN <<>> ELSE g[k]]
    <2>3. j \in [0 .. Len(ss) -> Seq(F)]
      <3>1. \A k \in 1 .. Len(ss) : g[k] \in Seq(F)
        BY <1>1, <2>2
      <3> QED
        BY <3>1, EmptySeq
    <2>4. j[0] = <<>> /\ j[Len(ss)] = Flat(ss)
      BY <1>1, <1>3, <2>1
    <2>5. ASSUME NEW k \in 1 .. Len(ss) PROVE j[k] = j[k - 1] \o ss[k]
      <3>1. CASE k = 1
        <4>1. j[k] = ss[1] /\ j[k - 1] = <<>>
          BY <1>1, <2>1, <3>1
        <4> QED
          BY <1>1, <3>1, <4>1, ConcatEmptySeq
      <3>2. CASE k # 1
        <4>1. k - 1 \in 0 .. Len(ss) /\ k - 1 # 0 /\ k \in 0 .. Len(ss) /\ k # 0
          BY <1>1, <3>2
        <4> QED
          BY <2>1, <3>2, <4>1
      <3> QED
        BY <3>1, <3>2
    <2> HIDE DEF j
    <2> QED
      BY <2>3, <2>4, <2>5
  <1>4. Len(ss) = 0 \/ Len(ss) > 0
    BY <1>1
  <1> QED
    BY <1>2, <1>3, <1>4

\* Where the elements of a concatenation come from.
LEMMA ConcatPlaces ==
  ASSUME NEW F, NEW a \in Seq(F), NEW b \in Seq(F)
  PROVE  /\ a \o b \in Seq(F) /\ Len(a \o b) = Len(a) + Len(b)
         /\ \A i \in 1 .. Len(a) : (a \o b)[i] = a[i]
         /\ \A i \in 1 .. Len(b) : (a \o b)[Len(a) + i] = b[i]
  BY LenProperties, ConcatProperties

\* Flat stays in every set that is closed under concatenation.
LEMMA FlatIn ==
  ASSUME NEW F, NEW S \in SUBSET Seq(F), <<>> \in S, \A s, t \in S : s \o t \in S,
         NEW ss \in Seq(S)
  PROVE  Flat(ss) \in S
  <1>1. ss \in Seq(Seq(F)) /\ Len(ss) \in Nat /\ \A k \in 1 .. Len(ss) : ss[k] \in S
    BY SeqMonotonic, LenProperties, ElementOfSeq
  <1>2. PICK j \in [0 .. Len(ss) -> Seq(F)] :
            /\ j[0] = <<>> /\ j[Len(ss)] = Flat(ss)
            /\ \A k \in 1 .. Len(ss) : j[k] = j[k - 1] \o ss[k]
    BY <1>1, FlatJoins
  <1> DEFINE T == {m \in Nat : m \in 0 .. Len(ss) => j[m] \in S}
  <1>3. 0 \in T
    BY <1>2
  <1>4. ASSUME NEW m \in Nat, m \in T PROVE m + 1 \in T
    <2>1. SUFFICES ASSUME m + 1 \in 0 .. Len(ss) PROVE j[m + 1] \in S
      OBVIOUS
    <2>2. m \in 0 .. Len(ss) /\ m + 1 \in 1 .. Len(ss) /\ (m + 1) - 1 = m
      BY <1>1, <2>1
    <2>3. j[m] \in S /\ ss[m + 1] \in S /\ j[m + 1] = j[m] \o ss[m + 1]
      BY <1>1, <1>2, <1>4, <2>2
    <2> QED
      BY <2>3
  <1>5. Len(ss) \in T
    <2> HIDE DEF T
    <2> QED
      BY <1>1, <1>3, <1>4, InductionOnSet
  <1> QED
    BY <1>1, <1>2, <1>5

=============================================================================
