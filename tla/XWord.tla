------------------------------- MODULE XWord -------------------------------
(***************************************************************************)
(* The machine words of OrtaVM (src/src/orta.h, `Word`): a tag and a union *)
(* of values.  Integers keep a two's-complement width.  The other payloads *)
(* keep only what the virtual machine's control flow can tell apart:       *)
(*   - a float is 0 or not 0 (the zero test of IDIV, INOT);                *)
(*   - a pointer is NULL or not NULL;                                      *)
(*   - a string is NULL (0) or the string of n bytes (n + 1), n saturating *)
(*     at MaxLen;                                                          *)
(*   - a char, a bool or a word of an unknown type has no payload: no      *)
(*     branch depends on it.                                               *)
(* Where the abstraction loses a result, an operator returns the set of    *)
(* the results the code can produce.  The empty set stands for the calls   *)
(* of EERROR.                                                              *)
(***************************************************************************)
EXTENDS Integers

CONSTANTS
    Half,    \* half the range of an `int`: 2^31 in the code
    MaxLen   \* the longest string told apart from longer ones

ASSUME WidthAssumption == Half \in Nat /\ Half > 1
ASSUME LenAssumption   == MaxLen \in Nat

Ints == (-Half) .. (Half - 1)

\* The order is that of `enum WordType`: IREADMEM and IWRITEMEM take a type
\* by its number.  "none" is the (WordType)-1 that get_type answers.
TypeCodes == <<"int", "float", "charp", "char", "pointer", "bool">>
WordTypes == {"int", "float", "charp", "char", "pointer", "bool", "none"}

ValuesOf(t) == IF t = "int" THEN Ints
               ELSE IF t \in {"float", "pointer"} THEN {0, 1}
               ELSE IF t = "charp" THEN 0 .. (MaxLen + 1)
               ELSE {0}

Words == {w \in [type : WordTypes, val : Int] : w.val \in ValuesOf(w.type)}

WordsOf(t) == [type : {t}, val : ValuesOf(t)]

NullWord == [type |-> "pointer", val |-> 0]
SomePtr  == [type |-> "pointer", val |-> 1]
NullStr  == [type |-> "charp", val |-> 0]
Str(len) == [type |-> "charp", val |-> (IF len > MaxLen THEN MaxLen ELSE len) + 1]
StrLen(w) == w.val - 1

\* Conversion to `int`: the value modulo the width.  Overflow is undefined in
\* C; the builds the repository makes compile it to the wrapping instruction.
Wrap(x)    == ((x + Half) % (2 * Half)) - Half
IntWord(x) == [type |-> "int", val |-> Wrap(x)]
Truth(b)   == IntWord(IF b THEN 1 ELSE 0)

IsInt(w) == w.type = "int"
BothInt(w1, w2) == w1.type = "int" /\ w2.type = "int"
BothFloat(w1, w2) == w1.type = "float" /\ w2.type = "float"

\* A pointer displaced by n may be any address; by 0 it is unchanged.
PtrMoved(w, n) == IF n = 0 THEN {w} ELSE [type : {w.type}, val : ValuesOf(w.type)]

----------------------------------------------------------------------------
(* Arithmetic on the two words IADD, ISUB, IMUL, IDIV, IMOD... pop: w1 is  *)
(* the top of the stack and w2 the word below it.                          *)

AbsVal(x)  == IF x < 0 THEN -x ELSE x
\* C's division truncates towards zero, and % takes the sign of the dividend.
CQuot(a, b) == LET q == AbsVal(a) \div AbsVal(b)
               IN  IF (a < 0) = (b < 0) THEN q ELSE -q
CRem(a, b)  == a - b * CQuot(a, b)

\* Without the conversion to the width.
AddWordsUnwrapped(w1, w2) ==
    IF BothInt(w1, w2) THEN {[type |-> "int", val |-> w1.val + w2.val]}
    ELSE IF BothFloat(w1, w2) THEN WordsOf("float") ELSE {}

AddWords(w1, w2) ==
    IF BothInt(w1, w2) THEN {IntWord(w1.val + w2.val)}
    ELSE IF BothFloat(w1, w2) THEN WordsOf("float") ELSE {}

SubWords(w1, w2) ==
    IF BothInt(w1, w2) THEN {IntWord(w1.val - w2.val)}
    ELSE IF BothFloat(w1, w2) THEN WordsOf("float") ELSE {}

MulWords(w1, w2) ==
    IF BothInt(w1, w2) THEN {IntWord(w2.val * w1.val)}
    ELSE IF BothFloat(w1, w2) THEN WordsOf("float") ELSE {}

\* `w1.as_int == 0 || w1.as_float == 0.0f`, both read from the same union: the
\* smallest integer has the bits of -0.0f, and an address or a narrower payload
\* may hold either pattern.
ZeroTests(w) ==
    IF w.type = "int" THEN {w.val \in {0, -Half}}
    ELSE IF w.type = "float" \/ (w.val = 0 /\ w.type \in {"pointer", "charp"})
         THEN {w.val = 0} ELSE BOOLEAN

\* The quotient that does not fit an `int`: the processor traps, or the
\* compiler's code wraps.
QuotTraps(w1, w2) == BothInt(w1, w2) /\ w1.val = -1 /\ w2.val = -Half

DivWords(w1, w2) ==
    IF BothInt(w1, w2) THEN {IntWord(CQuot(w2.val, w1.val))}
    ELSE IF BothFloat(w1, w2) THEN WordsOf("float") ELSE {}

ModWords(w1, w2) ==
    IF BothInt(w1, w2) /\ w1.val # 0 THEN {IntWord(CRem(w2.val, w1.val))} ELSE {}

\* The bit pattern of `or` and `xor` is kept only for a zero operand.
OrInts(a, b) == IF a = 0 THEN {b} ELSE IF b = 0 THEN {a} ELSE Ints \ {0}
OrWords(w1, w2) ==
    IF BothInt(w1, w2) THEN [type : {"int"}, val : OrInts(w2.val, w1.val)] ELSE {}
XorInts(a, b) == IF a = b THEN {0} ELSE Ints \ {0}

NotWords(w) == IF w.type = "int" THEN {Truth(w.val = 0)}
               ELSE IF w.type = "float" THEN {[type |-> "float", val |-> 1 - w.val]} ELSE {}

\* IEQ, INE, ILT, IGT, ILE, IGE: the lower word stands on the left.
Compares(op, a, b) == CASE op = "eq" -> a = b [] op = "ne" -> a # b
                        [] op = "lt" -> a < b [] op = "gt" -> a > b
                        [] op = "le" -> a <= b [] op = "ge" -> a >= b

\* Two strings of different lengths differ; two of one length may differ.
\* Two floats that are not both zero compare either way.
CompareWords(op, w1, w2) ==
    IF w1.type # w2.type THEN {Truth(op = "ne")}
    ELSE IF w1.type = "int" THEN {Truth(Compares(op, w2.val, w1.val))}
    ELSE IF w1.type = "float" \/ (w1.type = "charp" /\ op \in {"eq", "ne"})
         THEN IF w1.type = "float" /\ w1.val = 0 /\ w2.val = 0
              THEN {Truth(Compares(op, 0, 0))}
              ELSE IF w1.type = "charp" /\ w1.val # w2.val THEN {Truth(op = "ne")}
              ELSE {Truth(TRUE), Truth(FALSE)}
    ELSE {}

\* strcmp, strdup and puts of a NULL string.
NullString(w) == w = NullStr

----------------------------------------------------------------------------
(* The register forms of IADD and ISUB: dest op= src.                      *)

RegSum(dest, src, n) ==
    IF dest.type = "int" /\ src.type = "float" THEN WordsOf("float")
    ELSE IF dest.type = "pointer" /\ src.type = "int" THEN PtrMoved(dest, n)
    ELSE IF dest.type # src.type THEN {}
    ELSE IF dest.type = "int" THEN {IntWord(dest.val + n)}
    ELSE IF dest.type = "float" THEN WordsOf("float")
    ELSE {dest}

\* The one-operand forms: a copy of the top of the stack displaced by n.
Displaced(w, n) ==
    IF w.type = "int" THEN {IntWord(w.val + n)}
    ELSE IF w.type = "float" THEN WordsOf("float")
    ELSE IF w.type \in {"pointer", "charp"} THEN PtrMoved(w, n)
    ELSE {w}

\* ICMP: rdx takes the difference, a sign, or strcmp's result.
CmpInts(w1, w2) ==
    IF w1.type # w2.type THEN {0}
    ELSE IF w1.type = "int" THEN {Wrap(w1.val - w2.val)}
    ELSE IF w1.type = "float" THEN {1, -1}
    ELSE IF w1.type = "charp" THEN IF w1.val = w2.val THEN Ints ELSE Ints \ {0}
    ELSE {0}

\* ICAST keeps the bits and changes the tag.
CastWords(w, t) == IF t = w.type THEN {w} ELSE WordsOf(t)

=============================================================================
