----------------------------- MODULE Asm_proofs -----------------------------
(***************************************************************************)
(* The assembler, for all files, any depth of includes, any size of the    *)
(* text buffer and one or two passes.                                      *)
(***************************************************************************)
EXTENDS Asm, XStack_proofs

----------------------------------------------------------------------------
(* The words a text can hold.                                              *)

\* What words grow into: a name for a local label, and joined ones.
Grown(W) == W \cup {MadeName(c, n) : c \in W, n \in Nat}
              \cup {GlueWord(v, w) : v \in W, w \in W}
              \cup {GlueNumber(w, n) : w \in W, n \in Nat}
Start     == SourceWords \cup {"__global"} \cup {c.stem : c \in Compounds}
Closed(W) == Start \subseteq W /\ Grown(W) \subseteq W

\* What n steps make of the words to start with.
IsStages(f, n) == f = [i \in 0 .. n |-> IF i = 0 THEN Start ELSE Grown(f[i - 1])]
Stage(n)       == (CHOOSE f : IsStages(f, n))[n]

LEMMA StagesExist == ASSUME NEW n \in Nat PROVE \E f : IsStages(f, n)
  <1> DEFINE I == {m \in Nat : \E f : IsStages(f, m)}
  <1>1. 0 \in I
    <2> DEFINE f == [i \in 0 .. 0 |-> Start]
    <2>1. f = [i \in 0 .. 0 |-> IF i = 0 THEN Start ELSE Grown(f[i - 1])]
      BY SMT
    <2> HIDE DEF f
    <2>2. IsStages(f, 0)
      BY <2>1 DEF IsStages
    <2> QED
      BY <2>2
  <1>2. ASSUME NEW m \in Nat, m \in I PROVE m + 1 \in I
    <2>1. PICK f : IsStages(f, m)
      BY <1>2
    <2> DEFINE g == [i \in 0 .. (m + 1) |-> IF i = m + 1 THEN Grown(f[m]) ELSE f[i]]
    <2>2. ASSUME NEW i \in 0 .. (m + 1)
          PROVE  g[i] = IF i = 0 THEN Start ELSE Grown(g[i - 1])
      <3>1. CASE i = m + 1
        <4>1. i # 0 /\ i - 1 = m /\ m \in 0 .. (m + 1) /\ m # m + 1
          BY <3>1
        <4>2. g[i] = Grown(f[m]) /\ g[i - 1] = f[m]
          BY <3>1, <4>1
        <4> HIDE DEF g
        <4> QED
          BY <4>1, <4>2
      <3>2. CASE i \in 0 .. m
        <4>1. i # m + 1 /\ g[i] = f[i]
          BY <3>2
        <4>2. i # 0 => i - 1 \in 0 .. (m + 1) /\ i - 1 # m + 1 /\ g[i - 1] = f[i - 1]
          BY <3>2
        <4>3. f[i] = IF i = 0 THEN Start ELSE Grown(f[i - 1])
          BY <2>1, <3>2 DEF IsStages
        <4> HIDE DEF g
        <4> QED
          BY <4>1, <4>2, <4>3
      <3> QED
        BY <3>1, <3>2
    <2>3. g = [i \in 0 .. (m + 1) |-> g[i]]
      OBVIOUS
    <2> HIDE DEF g
    <2>4. IsStages(g, m + 1)
      BY <2>2, <2>3 DEF IsStages
    <2> QED
      BY <2>4
  <1> HIDE DEF I
  <1>3. n \in I
    BY <1>1, <1>2, InductionOnSet
  <1> QED
    BY <1>3 DEF I

LEMMA StagesAgree ==
  ASSUME NEW m \in Nat, NEW n \in Nat, m <= n, NEW f, IsStages(f, m), NEW g, IsStages(g, n)
  PROVE  f[m] = g[m]
  <1> DEFINE I == {i \in Nat : i <= m => f[i] = g[i]}
  <1>1. 0 \in I
    BY DEF IsStages
  <1>2. ASSUME NEW i \in Nat, i \in I PROVE i + 1 \in I
    <2> SUFFICES ASSUME i + 1 <= m PROVE f[i + 1] = g[i + 1]
      OBVIOUS
    <2>1. /\ i + 1 \in 0 .. m /\ i + 1 \in 0 .. n /\ i + 1 # 0
          /\ (i + 1) - 1 = i /\ f[i] = g[i]
      BY <1>2
    <2>2. f[i + 1] = Grown(f[i])
      BY <2>1 DEF IsStages
    <2>3. g[i + 1] = Grown(g[i])
      BY <2>1 DEF IsStages
    <2> QED
      BY <2>1, <2>2, <2>3
  <1> HIDE DEF I
  <1>3. m \in I
    BY <1>1, <1>2, InductionOnSet
  <1> QED
    BY <1>3 DEF I

LEMMA StagesGrow ==
  /\ Stage(0) = Start
  /\ \A n \in Nat : Stage(n + 1) = Grown(Stage(n))
  <1> DEFINE f(n) == CHOOSE g : IsStages(g, n)
  <1>1. \A n \in Nat : IsStages(f(n), n) /\ Stage(n) = f(n)[n]
    BY StagesExist DEF Stage
  <1> HIDE DEF f
  <1>2. Stage(0) = Start
    <2>1. 0 \in Nat /\ 0 \in 0 .. 0
      OBVIOUS
    <2>2. f(0)[0] = Start
      BY <1>1, <2>1 DEF IsStages
    <2> QED
      BY <1>1, <2>1, <2>2
  <1>3. ASSUME NEW n \in Nat PROVE Stage(n + 1) = Grown(Stage(n))
    <2>1. /\ n + 1 \in Nat /\ n <= n + 1 /\ n + 1 # 0 /\ (n + 1) - 1 = n
          /\ n + 1 \in 0 .. (n + 1)
      OBVIOUS
    <2>2. f(n + 1)[n + 1] = Grown(f(n + 1)[n])
      BY <1>1, <2>1 DEF IsStages
    <2>3. f(n)[n] = f(n + 1)[n]
      BY <1>1, <2>1, StagesAgree
    <2> QED
      BY <1>1, <2>1, <2>2, <2>3
  <1> QED
    BY <1>2, <1>3

LEMMA LaterStages ==
  ASSUME NEW m \in Nat, NEW n \in Nat, m <= n
  PROVE  Stage(m) \subseteq Stage(n)
  <1> DEFINE I == {i \in Nat : m <= i => Stage(m) \subseteq Stage(i)}
  <1>1. 0 \in I
    BY SMT
  <1>2. ASSUME NEW i \in Nat, i \in I PROVE i + 1 \in I
    <2>1. Stage(i) \subseteq Stage(i + 1)
      BY StagesGrow DEF Grown
    <2>2. m <= i + 1 => m <= i \/ m = i + 1
      OBVIOUS
    <2> QED
      BY <1>2, <2>1, <2>2
  <1> HIDE DEF I
  <1>3. n \in I
    BY <1>1, <1>2, InductionOnSet
  <1> QED
    BY <1>3 DEF I

\* There is a closed set of words: what any number of steps makes.
LEMMA ClosedExists == \E W : Closed(W)
  <1> DEFINE W == UNION {Stage(n) : n \in Nat}
  <1>1. Start \subseteq W
    BY StagesGrow
  <1>2. ASSUME NEW v \in W, NEW w \in W PROVE \E n \in Nat : v \in Stage(n) /\ w \in Stage(n)
    <2>1. PICK i \in Nat, j \in Nat : v \in Stage(i) /\ w \in Stage(j)
      OBVIOUS
    <2>2. CASE i <= j
      BY <2>1, <2>2, LaterStages
    <2>3. CASE j <= i
      BY <2>1, <2>3, LaterStages
    <2> QED
      BY <2>2, <2>3
  <1>3. \A n \in Nat : Grown(Stage(n)) \subseteq W
    <2>1. \A n \in Nat : n + 1 \in Nat
      OBVIOUS
    <2> QED
      BY <2>1, StagesGrow
  <1> HIDE DEF W
  <1>4. Grown(W) \subseteq W
    <2>1. ASSUME NEW c \in W, NEW n \in Nat PROVE MadeName(c, n) \in W /\ GlueNumber(c, n) \in W
      <3>1. PICK i \in Nat : c \in Stage(i)
        BY <1>2
      <3>2. MadeName(c, n) \in Grown(Stage(i)) /\ GlueNumber(c, n) \in Grown(Stage(i))
        BY <3>1 DEF Grown
      <3> QED
        BY <1>3, <3>2
    <2>2. ASSUME NEW v \in W, NEW w \in W PROVE GlueWord(v, w) \in W
      <3>1. PICK i \in Nat : v \in Stage(i) /\ w \in Stage(i)
        BY <1>2
      <3>2. GlueWord(v, w) \in Grown(Stage(i))
        BY <3>1 DEF Grown
      <3> QED
        BY <1>3, <3>2
    <2> QED
      BY <2>1, <2>2 DEF Grown
  <1> QED
    BY <1>1, <1>4 DEF Closed

\* The words of a text: the least closed set.
TextWords == {w \in (CHOOSE W : Closed(W)) : \A W : Closed(W) => w \in W}

LEMMA TextWordsLeast == ASSUME NEW W, Closed(W) PROVE TextWords \subseteq W
  BY DEF TextWords

LEMMA TextWordsClosed ==
  /\ Start \subseteq TextWords
  /\ \A c \in TextWords, n \in Nat : MadeName(c, n) \in TextWords
  /\ \A v, w \in TextWords : GlueWord(v, w) \in TextWords
  /\ \A w \in TextWords, n \in Nat : GlueNumber(w, n) \in TextWords
  <1> DEFINE A == CHOOSE W : Closed(W)
  <1>1. Closed(A)
    BY ClosedExists
  <1>2. \A w : w \in TextWords <=> w \in A /\ \A W : Closed(W) => w \in W
    BY DEF TextWords
  <1> HIDE DEF A
  <1>3. ASSUME NEW w, \A W : Closed(W) => w \in W PROVE w \in TextWords
    BY <1>1, <1>2, <1>3
  <1>4. Start \subseteq TextWords
    BY <1>3 DEF Closed
  <1>5. ASSUME NEW v \in TextWords, NEW w \in TextWords, NEW n \in Nat
        PROVE  /\ MadeName(v, n) \in TextWords /\ GlueNumber(v, n) \in TextWords
               /\ GlueWord(v, w) \in TextWords
    <2>1. ASSUME NEW W, Closed(W)
          PROVE  MadeName(v, n) \in W /\ GlueNumber(v, n) \in W /\ GlueWord(v, w) \in W
      <3>1. v \in W /\ w \in W /\ Grown(W) \subseteq W
        BY <2>1, TextWordsLeast DEF Closed
      <3>2. {MadeName(v, n), GlueNumber(v, n), GlueWord(v, w)} \subseteq Grown(W)
        BY <3>1 DEF Grown
      <3> QED
        BY <3>1, <3>2
    <2> QED
      BY <1>3, <2>1
  <1>6. 0 \in Nat
    OBVIOUS
  <1> QED
    BY <1>4, <1>5, <1>6

----------------------------------------------------------------------------
(* The marks of a text, and its tokens.                                    *)

\* Every text, of a file or made of one, is a sequence of these marks.
TextMarks      == Marks(TextWords)
DirectiveMarks == [kind : {"define"}, name : Seq(TextMarks), value : Seq(TextMarks)]
                    \cup [kind : {"include"}, file : STRING]
PlainTokens ==
    [type : {"label"}, mark : [kind : {"word"}, text : TextWords]]
      \cup [type : {"local label"}, mark : [kind : {"dotted"}, text : TextWords]]
      \cup [type : {"identifier"}, mark : [kind : {"word", "dotted"}, text : TextWords]]
      \cup [type : {"number"}, mark : [kind : {"number"}, val : Nat]]
      \cup [type : {"string"}, mark : [kind : {"string"}, word : LitWords]]
      \cup [type : {"paren"}, mark : [kind : {"punct"}, sign : {"(", ")"}]]
      \cup {Token("newline", NewLine), Token("comment", Comment), Token("comma", Comma),
            ErrorToken}
Tokens == PlainTokens \cup [type : {"directive"}, mark : DirectiveMarks]

LEMMA FilesMarks ==
  ASSUME NEW p \in Projects, NEW f \in DOMAIN p
  PROVE  p[f] \in Seq(TextMarks)
  <1>1. SourceWords \subseteq TextWords
    BY TextWordsClosed DEF Start
  <1>2. Marks(SourceWords) \subseteq TextMarks
    BY <1>1 DEF TextMarks, Marks, PlainMarks
  <1>3. p[f] \in Seq(Marks(SourceWords))
    BY ProjectAssumption
  <1> QED
    BY <1>2, <1>3, SeqMonotonic

\* A mark of each kind.
LEMMA MarkKinds ==
  ASSUME NEW W, NEW m \in Marks(W)
  PROVE  /\ m.kind \in {"word", "dotted", "number", "string", "punct", "define", "include"}
         /\ m.kind \in {"word", "dotted"} => m \in [kind : {"word", "dotted"}, text : W]
         /\ m.kind = "number" => m \in [kind : {"number"}, val : Nat]
         /\ m.kind = "string" => m \in [kind : {"string"}, word : LitWords]
         /\ m.kind = "punct" =>
               m \in [kind : {"punct"}, sign : {" ", ":", ",", "\n", ";", "-", "@", "(", ")"}]
         /\ m.kind = "define" => m = DefineSign
         /\ m.kind = "include" => m \in [kind : {"include"}, file : STRING]
  <1>1. DefineSign.kind = "define"
    BY DEF DefineSign
  <1>2. CASE m \in PlainMarks(W)
    BY <1>2 DEF PlainMarks
  <1>3. CASE m \in [kind : {"include"}, file : STRING]
    BY <1>3
  <1>4. CASE m = DefineSign
    BY <1>1, <1>4
  <1> QED
    BY <1>2, <1>3, <1>4 DEF Marks

LEMMA PlainAreMarks == PlainMarks(TextWords) \subseteq TextMarks
  BY DEF TextMarks, Marks

LEMMA LeastIn ==
  ASSUME NEW E \in SUBSET Nat, NEW n \in E
  PROVE  \E k \in E : \A j \in Nat : j < k => j \notin E
  <1> SUFFICES ASSUME \A k \in E : \E j \in Nat : j < k /\ j \in E PROVE FALSE
    OBVIOUS
  <1> DEFINE I == {m \in Nat : \A j \in 0 .. m : j \notin E}
  <1>1. 0 \in I
    <2>1. 0 \notin E
      OBVIOUS
    <2> QED
      BY <2>1
  <1>2. ASSUME NEW m \in Nat, m \in I PROVE m + 1 \in I
    <2>1. m + 1 \notin E
      <3> SUFFICES ASSUME m + 1 \in E PROVE FALSE
        OBVIOUS
      <3>1. PICK j \in Nat : j < m + 1 /\ j \in E
        OBVIOUS
      <3>2. j \in 0 .. m
        BY <3>1
      <3> QED
        BY <1>2, <3>1, <3>2
    <2>2. \A j \in 0 .. (m + 1) : j = m + 1 \/ j \in 0 .. m
      OBVIOUS
    <2> QED
      BY <1>2, <2>1, <2>2
  <1>3. n \in I
    <2> HIDE DEF I
    <2> QED
      BY <1>1, <1>2, InductionOnSet
  <1> QED
    BY <1>3

\* The first of some places, or the end of the line.
LEMMA FirstIn ==
  ASSUME NEW K \in SUBSET Nat, NEW end \in Nat
  PROVE  First(K, end) \in K \cup {end}
  <1> DEFINE E == K \cup {end}
  <1>1. E \in SUBSET Nat /\ end \in E
    OBVIOUS
  <1> HIDE DEF E
  <1>2. PICK k \in E : \A j \in Nat : j < k => j \notin E
    BY <1>1, LeastIn
  <1>3. \A j \in E : k <= j
    BY <1>1, <1>2
  <1>4. SE!Min(E) \in E
    BY <1>2, <1>3 DEF SE!Min
  <1> QED
    BY <1>4 DEF E, First

\* The name and the value of a define are pieces of its line.
LEMMA DefineTokenIn ==
  ASSUME NEW M, NEW text \in Seq(M), NEW k \in 1 .. Len(text)
  PROVE  DefineToken(text, k) \in [kind : {"define"}, name : Seq(M), value : Seq(M)]
  <1> DEFINE n     == Len(text)
             end   == First({i \in (k + 1) .. n : text[i] = NewLine}, n + 1)
             name  == First({i \in (k + 1) .. (end - 1) : text[i] # Space}, end)
             gap   == First({i \in name .. (end - 1) : text[i] = Space}, end)
             value == First({i \in gap .. (end - 1) : text[i] # Space}, end)
  <1>1. n \in Nat /\ k \in 1 .. n /\ \A i \in 1 .. n : text[i] \in M
    BY LenProperties, ElementOfSeq
  <1> HIDE DEF n
  <1>2. end \in (k + 1) .. (n + 1)
    <2> DEFINE K == {i \in (k + 1) .. n : text[i] = NewLine}
    <2>1. K \in SUBSET Nat /\ n + 1 \in Nat /\ K \subseteq (k + 1) .. n
      BY <1>1
    <2> HIDE DEF K
    <2>2. First(K, n + 1) \in K \cup {n + 1}
      BY <2>1, FirstIn
    <2>3. First(K, n + 1) \in (k + 1) .. n \/ First(K, n + 1) = n + 1
      BY <2>1, <2>2
    <2>4. First(K, n + 1) \in (k + 1) .. (n + 1)
      BY <1>1, <2>3
    <2> QED
      BY <2>4 DEF K
  <1> HIDE DEF end
  <1>3. ASSUME NEW a \in 1 .. (n + 1), a <= end, NEW K, K \subseteq a .. (end - 1)
        PROVE  First(K, end) \in a .. end
    <2>1. K \in SUBSET Nat /\ end \in Nat
      BY <1>1, <1>2, <1>3
    <2>2. First(K, end) \in K \cup {end}
      BY <2>1, FirstIn
    <2>3. First(K, end) \in a .. (end - 1) \/ First(K, end) = end
      BY <1>3, <2>2
    <2> QED
      BY <1>1, <1>2, <1>3, <2>3
  <1>4. name \in (k + 1) .. end
    <2>1. k + 1 \in 1 .. (n + 1) /\ k + 1 <= end
      BY <1>1, <1>2
    <2> QED
      BY <1>3, <2>1
  <1> HIDE DEF name
  <1>5. gap \in name .. end
    <2>1. name \in 1 .. (n + 1) /\ name <= end
      BY <1>1, <1>2, <1>4
    <2> QED
      BY <1>3, <2>1
  <1> HIDE DEF gap
  <1>6. value \in gap .. end
    <2>1. gap \in 1 .. (n + 1) /\ gap <= end
      BY <1>1, <1>2, <1>4, <1>5
    <2> QED
      BY <1>3, <2>1
  <1> HIDE DEF value
  <1>7. ASSUME NEW a \in 1 .. (n + 1), NEW b \in 1 .. (n + 1)
        PROVE  SubSeq(text, a, b - 1) \in Seq(M)
    <2>1. a \in Int /\ b - 1 \in Int /\ \A i \in a .. (b - 1) : text[i] \in M
      BY <1>1, <1>7
    <2> QED
      BY <2>1, SubSeqProperties
  <1>8. {name, gap, value, end} \subseteq 1 .. (n + 1)
    BY <1>1, <1>2, <1>4, <1>5, <1>6
  <1>9. SubSeq(text, name, gap - 1) \in Seq(M) /\ SubSeq(text, value, end - 1) \in Seq(M)
    BY <1>7, <1>8
  <1>10. DefineToken(text, k) = [kind |-> "define", name |-> SubSeq(text, name, gap - 1),
                                 value |-> SubSeq(text, value, end - 1)]
    BY DEF DefineToken, n, end, name, gap, value
  <1> QED
    BY <1>9, <1>10

\* A mark makes one token or none, an error only where it is no part of one.
LEMMA TokenOfMark ==
  ASSUME NEW text \in Seq(TextMarks), NEW k \in 1 .. Len(text)
  PROVE  \/ TokensAt(text, k) = <<>>
         \/ \E t \in Tokens : /\ TokensAt(text, k) = <<t>>
                              /\ text[k].kind \notin {"define", "include"} => t \in PlainTokens
  <1> DEFINE m == text[k]
             colon == k < Len(text) /\ text[k + 1] = Colon
  <1> USE DEF Punct, Space, Colon, Comma, NewLine, Comment, Minus, DefineSign, Token
  <1>0. m \in Marks(TextWords)
    BY ElementOfSeq DEF TextMarks
  <1>1. CASE Taken(text, k) \/ m = Space
    BY <1>1 DEF TokensAt
  <1>2. CASE ~(Taken(text, k) \/ m = Space) /\ m.kind = "word"
    <2>1. TokensAt(text, k) = <<Token(IF colon THEN "label" ELSE "identifier", m)>>
      BY <1>2 DEF TokensAt
    <2>2. m \in [kind : {"word"}, text : TextWords]
      BY <1>0, <1>2, MarkKinds
    <2>3. Token(IF colon THEN "label" ELSE "identifier", m) \in PlainTokens
      BY <2>2 DEF PlainTokens
    <2> QED
      BY <2>1, <2>3 DEF Tokens
  <1>3. CASE ~(Taken(text, k) \/ m = Space) /\ m.kind = "dotted"
    <2>1. TokensAt(text, k) = <<Token(IF colon THEN "local label" ELSE "identifier", m)>>
      BY <1>3 DEF TokensAt
    <2>2. m \in [kind : {"dotted"}, text : TextWords]
      BY <1>0, <1>3, MarkKinds
    <2>3. Token(IF colon THEN "local label" ELSE "identifier", m) \in PlainTokens
      BY <2>2 DEF PlainTokens
    <2> QED
      BY <2>1, <2>3 DEF Tokens
  <1>4. CASE ~(Taken(text, k) \/ m = Space) /\ m.kind \in {"number", "string"}
    <2>1. TokensAt(text, k) = <<Token(m.kind, m)>>
      BY <1>4 DEF TokensAt
    <2>2. Token(m.kind, m) \in PlainTokens
      BY <1>0, <1>4, MarkKinds DEF PlainTokens
    <2> QED
      BY <2>1, <2>2 DEF Tokens
  <1>5. CASE ~(Taken(text, k) \/ m = Space) /\ m.kind = "define"
    <2>1. TokensAt(text, k) = <<Token("directive", DefineToken(text, k))>>
      BY <1>5 DEF TokensAt
    <2>2. DefineToken(text, k) \in DirectiveMarks
      BY DefineTokenIn DEF DirectiveMarks
    <2>3. Token("directive", DefineToken(text, k)) \in Tokens
      BY <2>2 DEF Tokens
    <2> QED
      BY <1>5, <2>1, <2>3
  <1>6. CASE ~(Taken(text, k) \/ m = Space) /\ m.kind = "include"
    <2>1. TokensAt(text, k) = <<Token("directive", m)>>
      BY <1>6 DEF TokensAt
    <2>2. m \in DirectiveMarks
      BY <1>0, <1>6, MarkKinds DEF DirectiveMarks
    <2>3. Token("directive", m) \in Tokens
      BY <2>2 DEF Tokens
    <2> QED
      BY <1>6, <2>1, <2>3
  <1>7. CASE ~(Taken(text, k) \/ m = Space) /\ m.kind = "punct"
    <2>1. m \in [kind : {"punct"}, sign : {" ", ":", ",", "\n", ";", "-", "@", "(", ")"}]
      BY <1>0, <1>7, MarkKinds
    <2>2. TokensAt(text, k) = PunctTokens(text, k)
      BY <1>7 DEF TokensAt
    <2>3. \/ PunctTokens(text, k)
               \in {<<>>, <<ErrorToken>>, <<Token("newline", NewLine)>>,
                    <<Token("comment", Comment)>>, <<Token("comma", Comma)>>}
          \/ PunctTokens(text, k) = <<Token("paren", m)>> /\ m.sign \in {"(", ")"}
      BY <2>1 DEF PunctTokens
    <2>4. m.sign \in {"(", ")"} => Token("paren", m) \in PlainTokens
      BY <2>1 DEF PlainTokens
    <2> QED
      BY <2>2, <2>3, <2>4 DEF PlainTokens, Tokens
  <1> QED
    BY <1>0, <1>1, <1>2, <1>3, <1>4, <1>5, <1>6, <1>7, MarkKinds

LEMMA SameSingle == ASSUME NEW a, NEW b, <<a>> = <<b>> PROVE a = b
  <1>1. <<a>>[1] = a /\ <<b>>[1] = b
    OBVIOUS
  <1> QED
    BY <1>1

\* Tokenize makes at most as many tokens as there are marks.
LEMMA TokenizeIn ==
  ASSUME NEW text, NEW S, Len(text) \in Nat,
         \A k \in 1 .. Len(text) : \/ TokensAt(text, k) = <<>>
                                   \/ \E t \in S : TokensAt(text, k) = <<t>>
  PROVE  Tokenize(text) \in Seq(S) /\ Len(Tokenize(text)) <= Len(text)
  <1> DEFINE n  == Len(text)
             ss == [k \in 1 .. n |-> TokensAt(text, k)]
  <1>1. ASSUME NEW k \in 1 .. n PROVE ss[k] \in Seq(S) /\ Len(ss[k]) \in 0 .. 1
    <2>1. ss[k] = TokensAt(text, k)
      OBVIOUS
    <2>2. CASE TokensAt(text, k) = <<>>
      BY <2>1, <2>2, EmptySeq
    <2>3. CASE \E t \in S : TokensAt(text, k) = <<t>>
      <3>1. PICK t \in S : TokensAt(text, k) = <<t>>
        BY <2>3
      <3>2. ss[k] = <<t>>
        BY <2>1, <3>1
      <3> HIDE DEF ss
      <3> QED
        BY <3>2
    <2> QED
      BY <2>2, <2>3
  <1>2. ss \in Seq(Seq(S)) /\ Len(ss) = n
    BY <1>1
  <1>3. Tokenize(text) = Flat(ss)
    BY DEF Tokenize, SE!FlattenSeq, Flat
  <1>4. n \in Nat
    OBVIOUS
  <1> HIDE DEF ss, n
  <1>5. PICK j \in [0 .. n -> Seq(S)] : /\ j[0] = <<>> /\ j[n] = Flat(ss)
                                        /\ \A k \in 1 .. n : j[k] = j[k - 1] \o ss[k]
    BY <1>2, FlatJoins
  <1> DEFINE I == {m \in Nat : m <= n => Len(j[m]) <= m}
  <1>6. 0 \in I
    BY <1>5
  <1>7. ASSUME NEW m \in Nat, m \in I PROVE m + 1 \in I
    <2>1. SUFFICES ASSUME m + 1 <= n PROVE Len(j[m + 1]) <= m + 1
      OBVIOUS
    <2>2. m \in 0 .. n /\ m + 1 \in 1 .. n /\ (m + 1) - 1 = m /\ Len(j[m]) <= m
      BY <1>4, <1>7, <2>1
    <2>3. j[m] \in Seq(S) /\ ss[m + 1] \in Seq(S) /\ j[m + 1] = j[m] \o ss[m + 1]
      BY <1>1, <1>5, <2>2
    <2>4. Len(j[m + 1]) = Len(j[m]) + Len(ss[m + 1]) /\ Len(j[m]) \in Nat
      BY <2>3, ConcatProperties, LenProperties
    <2>5. Len(ss[m + 1]) \in 0 .. 1
      BY <1>1, <2>2
    <2> DEFINE a == Len(j[m])
               b == Len(ss[m + 1])
               c == Len(j[m + 1])
    <2>6. a \in Nat /\ a <= m /\ b \in 0 .. 1 /\ c = a + b
      BY <2>2, <2>4, <2>5
    <2>7. c <= m + 1
      <3> HIDE DEF a, b, c
      <3> QED
        BY <2>6
    <2> QED
      BY <2>7
  <1>8. n \in I
    <2> HIDE DEF I
    <2> QED
      BY <1>4, <1>6, <1>7, InductionOnSet
  <1> QED
    BY <1>3, <1>4, <1>5, <1>8 DEF n
LEMMA TextTokens ==
  ASSUME NEW text \in Seq(TextMarks)
  PROVE  Tokenize(text) \in Seq(Tokens) /\ Len(Tokenize(text)) <= Len(text)
  <1>1. Len(text) \in Nat
    BY LenProperties
  <1>2. ASSUME NEW k \in 1 .. Len(text)
        PROVE  TokensAt(text, k) = <<>> \/ \E t \in Tokens : TokensAt(text, k) = <<t>>
    BY TokenOfMark
  <1> QED
    BY <1>1, <1>2, TokenizeIn

----------------------------------------------------------------------------
(* Clean texts: what the preprocessor makes without defines, but for a full *)
(* buffer.                                                                 *)

IsPunct(m, signs) == m.kind = "punct" /\ m.sign \in signs
CleanMark(m) == \/ m.kind \in {"word", "number", "string"}
                \/ IsPunct(m, {" ", "\n", ",", "(", ")"})
Clean(text) == \A k \in 1 .. Len(text) :
                  \/ CleanMark(text[k])
                  \/ IsPunct(text[k], {":"}) /\ k > 1 /\ text[k - 1].kind = "word"

LEMMA CleanTextTokens ==
  ASSUME NEW text \in Seq(TextMarks), Clean(text)
  PROVE  Tokenize(text) \in Seq({t \in Tokens : t.type # "error"})
  <1>1. Len(text) \in Nat /\ \A k \in 1 .. Len(text) : text[k] \in TextMarks
    BY LenProperties, ElementOfSeq
  <1>2. ASSUME NEW k \in 1 .. Len(text)
        PROVE  \/ TokensAt(text, k) = <<>>
               \/ \E t \in {t \in Tokens : t.type # "error"} : TokensAt(text, k) = <<t>>
    <2>1. CASE TokensAt(text, k) = <<>>
      BY <2>1
    <2>2. CASE TokensAt(text, k) # <<>>
      <3>1. PICK t \in Tokens : TokensAt(text, k) = <<t>>
        BY <2>2, TokenOfMark
      <3>2. t.type # "error"
        <4>1. CASE text[k].kind \in {"word", "number", "string"}
          <5>1. \E type \in {"label", "identifier", "number", "string"} :
                   TokensAt(text, k) = <<Token(type, text[k])>>
            BY <2>2, <4>1 DEF TokensAt
          <5>2. PICK type \in {"label", "identifier", "number", "string"} :
                   t = Token(type, text[k])
            BY <3>1, <5>1, SameSingle
          <5> QED
            BY <5>2 DEF Token
        <4>2. CASE text[k].kind = "punct"
          <5>1. TokensAt(text, k) = PunctTokens(text, k) /\ text[k] # Space
            BY <2>2, <4>2 DEF TokensAt
          <5>2. text[k].sign # " "
            BY <1>1, <4>2, <5>1, MarkKinds DEF TextMarks, Space, Punct
          <5>3. CASE text[k].sign \in {"\n", ",", "(", ")"}
            <6>1. TokensAt(text, k) \in {<<Token("newline", NewLine)>>, <<Token("comma", Comma)>>,
                                         <<Token("paren", text[k])>>}
              BY <5>1, <5>3 DEF PunctTokens
            <6>2. t \in {Token("newline", NewLine), Token("comma", Comma),
                         Token("paren", text[k])}
              BY <3>1, <6>1, SameSingle
            <6> QED
              BY <6>2 DEF Token
          <5>4. CASE text[k].sign = ":"
            <6>1. k > 1 /\ text[k - 1].kind = "word"
              BY <4>2, <5>4 DEF Clean, CleanMark, IsPunct
            <6>2. k - 1 \in 1 .. Len(text)
              BY <1>1, <6>1
            <6>3. IsNameAt(text, k - 1)
              BY <6>1, <6>2 DEF IsNameAt
            <6>4. TokensAt(text, k) = <<>>
              BY <5>1, <5>4, <6>3 DEF PunctTokens
            <6> QED
              BY <2>2, <6>4
          <5> QED
            BY <4>2, <5>2, <5>3, <5>4 DEF Clean, CleanMark, IsPunct
        <4> QED
          BY <4>1, <4>2 DEF Clean, CleanMark, IsPunct
      <3> QED
        BY <3>1, <3>2
    <2> QED
      BY <2>1, <2>2
  <1> QED
    BY <1>1, <1>2, TokenizeIn

LEMMA PlainToken ==
  ASSUME NEW t \in PlainTokens
  PROVE  /\ t.type \in {"label", "local label", "identifier", "number", "string", "paren",
                        "newline", "comment", "comma", "error"}
         /\ t.mark \in PlainMarks(TextWords)
         /\ t.type = "label" => t.mark.kind = "word"
         /\ t.type = "local label" => t.mark.kind = "dotted"
         /\ t.type = "identifier" => t.mark.kind \in {"word", "dotted"}
         /\ t.type \in {"number", "string"} => t.mark.kind = t.type
         /\ t.type = "paren" => IsPunct(t.mark, {"(", ")"})
         /\ t.type = "comma" => IsPunct(t.mark, {","})
  <1>1. CASE t \in {Token("newline", NewLine), Token("comment", Comment),
                   Token("comma", Comma), ErrorToken}
    <2>1. \A type, mark : Token(type, mark).type = type /\ Token(type, mark).mark = mark
      BY DEF Token
    <2>2. {NewLine, Comment, Comma, Minus} \subseteq PlainMarks(TextWords)
      BY DEF PlainMarks, NewLine, Comment, Comma, Minus, Punct
    <2>3. IsPunct(Comma, {","})
      BY DEF IsPunct, Comma, Punct
    <2>4. PICK type \in {"newline", "comment", "comma", "error"},
               mark \in {NewLine, Comment, Comma, Minus} :
                  t = Token(type, mark) /\ (type = "comma" => mark = Comma)
      BY <1>1 DEF ErrorToken
    <2> QED
      BY <2>1, <2>2, <2>3, <2>4
  <1>2. CASE t \notin {Token("newline", NewLine), Token("comment", Comment),
                      Token("comma", Comma), ErrorToken}
    BY <1>2 DEF PlainTokens, PlainMarks, IsPunct
  <1> QED
    BY <1>1, <1>2
LEMMA DirectiveToken ==
  ASSUME NEW t \in Tokens
  PROVE  /\ t.type # "directive" => t \in PlainTokens
         /\ t.type = "directive" => t.mark \in DirectiveMarks
  <1>1. t \in PlainTokens => t.type # "directive"
    BY PlainToken
  <1> QED
    BY <1>1 DEF Tokens

----------------------------------------------------------------------------
(* What a frame and the tables of the preprocessor hold.                   *)

FrameSet  == [tokens : Seq(Tokens), text : Seq(TextMarks), fresh : BOOLEAN]
FramesOK  == /\ frames \in Seq(FrameSet)
             /\ \A k \in 1 .. Len(frames) : Len(frames[k].text) <= MaxText
             /\ \A k \in 1 .. (Len(frames) - 1) : frames[k].tokens # <<>>
PlacesOK  == /\ phase \in {"preprocess", "parse", "accepted", "refused", "crashed"}
             /\ passes \in {1, 2} /\ pass \in 1 .. passes /\ project \in Projects
             /\ phase = "preprocess" <=> frames # <<>>
             /\ DepthIsNesting
DefineSet == [name : Seq(TextMarks) \ {<<>>}, value : Seq(TextMarks) \ {<<>>}]
TablesOK  == /\ defines \in Seq(DefineSet)
             /\ context \in TextWords /\ section \in Nat
             /\ locals \in Seq([local : TextWords, global : TextWords])

LEMMA PunctMarks ==
  {Space, Colon, Comma, NewLine, Punct("("), Punct(")")} \subseteq TextMarks
  BY DEF TextMarks, Marks, PlainMarks, Space, Colon, Comma, NewLine, Punct

\* Texts grow up to the size of their buffer.
LEMMA PutCharIn ==
  ASSUME NEW M, NEW text \in Seq(M), Len(text) <= MaxText, NEW c \in M
  PROVE  /\ PutChar(text, c) \in Seq(M) /\ Len(PutChar(text, c)) <= MaxText
         /\ Len(text) <= Len(PutChar(text, c))
  <1>1. Len(text) \in Nat /\ MaxText \in Nat
    BY LenProperties, AsmAssumption
  <1>2. Append(text, c) \in Seq(M) /\ Len(Append(text, c)) = Len(text) + 1
    BY AppendProperties
  <1> QED
    BY <1>1, <1>2 DEF PutChar

LEMMA PutTextIn ==
  ASSUME NEW M, NEW text \in Seq(M), Len(text) <= MaxText, NEW ms \in Seq(M)
  PROVE  /\ PutText(text, ms) \in Seq(M) /\ Len(PutText(text, ms)) <= MaxText
         /\ Len(text) <= Len(PutText(text, ms))
  <1>1. Len(text) \in Nat /\ MaxText \in Nat /\ Len(ms) \in Nat
    BY LenProperties, AsmAssumption
  <1>2. text \o ms \in Seq(M) /\ Len(text \o ms) = Len(text) + Len(ms)
    BY ConcatProperties
  <1> QED
    BY <1>1, <1>2 DEF PutText

LEMMA PutSpacedIn ==
  ASSUME NEW M, Space \in M, NEW f, f.text \in Seq(M), Len(f.text) <= MaxText, NEW ms \in Seq(M)
  PROVE  /\ PutSpaced(f, ms) \in Seq(M) /\ Len(PutSpaced(f, ms)) <= MaxText
         /\ Len(f.text) <= Len(PutSpaced(f, ms))
  <1> DEFINE text == IF f.fresh THEN f.text ELSE PutChar(f.text, Space)
  <1>1. text \in Seq(M) /\ Len(text) <= MaxText /\ Len(f.text) <= Len(text)
    BY PutCharIn
  <1>2. PutSpaced(f, ms) = PutText(text, ms)
    BY DEF PutSpaced
  <1> HIDE DEF text
  <1>3. /\ PutText(text, ms) \in Seq(M) /\ Len(PutText(text, ms)) <= MaxText
        /\ Len(text) <= Len(PutText(text, ms))
    BY <1>1, PutTextIn
  <1>4. Len(f.text) \in Nat /\ Len(text) \in Nat /\ Len(PutText(text, ms)) \in Nat
    BY <1>1, <1>3, LenProperties
  <1> QED
    BY <1>1, <1>2, <1>3, <1>4

----------------------------------------------------------------------------
(* Words that are put side by side.                                       *)

\* A joined mark is a word of a text again.
LEMMA JoinedMarkIn ==
  ASSUME NEW m \in TextMarks, NEW n \in TextMarks,
         m.kind \in {"word", "dotted"}, n.kind \in {"word", "number"}
  PROVE  JoinedMark(m, n) \in TextMarks /\ JoinedMark(m, n).kind = m.kind
  <1>1. m \in [kind : {"word", "dotted"}, text : TextWords]
    BY MarkKinds DEF TextMarks
  <1> DEFINE w == IF n.kind = "word" THEN GlueWord(m.text, n.text) ELSE GlueNumber(m.text, n.val)
  <1>2. w \in TextWords
    <2>1. CASE n.kind = "word"
      <3>1. n.text \in TextWords
        BY <2>1, MarkKinds DEF TextMarks
      <3> QED
        BY <1>1, <2>1, <3>1, TextWordsClosed
    <2>2. CASE n.kind = "number"
      <3>1. n.val \in Nat
        BY <2>2, MarkKinds DEF TextMarks
      <3> QED
        BY <1>1, <2>2, <3>1, TextWordsClosed
    <2> QED
      BY <2>1, <2>2
  <1>3. JoinedMark(m, n) = [m EXCEPT !.text = w]
    BY DEF JoinedMark
  <1> HIDE DEF w
  <1>4. [m EXCEPT !.text = w] \in [kind : {"word", "dotted"}, text : TextWords]
    BY <1>1, <1>2
  <1>5. [m EXCEPT !.text = w].kind = m.kind
    BY <1>1
  <1>6. [kind : {"word", "dotted"}, text : TextWords] \subseteq TextMarks
    BY DEF TextMarks, Marks, PlainMarks
  <1> QED
    BY <1>3, <1>4, <1>5, <1>6

\* The pieces of a text that is joined, and what they make.
LEMMA JoinParts ==
  ASSUME NEW s \in Seq(TextMarks), NEW t \in Seq(TextMarks), JoinsWith(s, t)
  PROVE  \E u \in Seq(TextMarks), m \in TextMarks, v \in Seq(TextMarks) :
            /\ Join(s, t) = (u \o <<m>>) \o v
            /\ Len(s) \in Nat /\ Len(s) >= 1 /\ Len(u) = Len(s) - 1 /\ Len(v) = Len(t) - 1
            /\ \A k \in 1 .. Len(u) : u[k] = s[k]
            /\ \A k \in 1 .. Len(v) : v[k] = t[k + 1]
            /\ m.kind = s[Len(s)].kind /\ m.kind \in {"word", "dotted"}
  <1>1. /\ s # <<>> /\ t # <<>> /\ Len(s) \in Nat /\ Len(s) >= 1 /\ Len(t) \in Nat /\ Len(t) >= 1
        /\ s[Len(s)].kind \in {"word", "dotted"} /\ t[1].kind \in {"word", "number"}
    BY LenProperties, EmptySeq DEF JoinsWith, SE!Last
  <1> DEFINE m == JoinedMark(s[Len(s)], t[1])
             n == Len(s)
  <1>2. m \in TextMarks /\ m.kind = s[n].kind
    <2>1. s[n] \in TextMarks /\ t[1] \in TextMarks
      BY <1>1, ElementOfSeq
    <2> QED
      BY <1>1, <2>1, JoinedMarkIn
  <1>3. /\ SubSeq(s, 1, n - 1) \in Seq(TextMarks) /\ Len(SubSeq(s, 1, n - 1)) = n - 1
        /\ \A k \in 1 .. (n - 1) : SubSeq(s, 1, n - 1)[k] = s[k]
    <2>1. \A i \in 1 .. (n - 1) : s[i] \in TextMarks
      BY <1>1, ElementOfSeq
    <2>2. n - 1 \in Nat
      BY <1>1
    <2> HIDE DEF n
    <2>3. /\ SubSeq(s, 1, n - 1) \in Seq(TextMarks)
          /\ Len(SubSeq(s, 1, n - 1)) = IF 1 <= n - 1 THEN (n - 1) - 1 + 1 ELSE 0
          /\ \A i \in 1 .. ((n - 1) - 1 + 1) : SubSeq(s, 1, n - 1)[i] = s[1 + i - 1]
      BY <2>1, <2>2, SubSeqProperties
    <2> QED
      BY <2>2, <2>3
  <1>4. /\ Tail(t) \in Seq(TextMarks) /\ Len(Tail(t)) = Len(t) - 1
        /\ \A k \in 1 .. Len(Tail(t)) : Tail(t)[k] = t[k + 1]
    BY <1>1, HeadTailProperties
  <1>5. Join(s, t) = (SubSeq(s, 1, n - 1) \o <<m>>) \o Tail(t)
    BY DEF Join, SE!Front, SE!Last
  <1> HIDE DEF m, n
  <1>6. PICK u \in Seq(TextMarks) : u = SubSeq(s, 1, n - 1)
    BY <1>3
  <1>7. PICK v \in Seq(TextMarks) : v = Tail(t)
    BY <1>4
  <1>8. n = Len(s)
    BY DEF n
  <1>9. PICK c \in TextMarks : c = m
    BY <1>2
  <1> QED
    <2>1. Join(s, t) = (u \o <<c>>) \o v
      BY <1>5, <1>6, <1>7, <1>9
    <2>2. Len(s) \in Nat /\ Len(s) >= 1 /\ Len(u) = Len(s) - 1 /\ Len(v) = Len(t) - 1
      BY <1>1, <1>3, <1>4, <1>6, <1>7, <1>8
    <2>3. \A k \in 1 .. Len(u) : u[k] = s[k]
      BY <1>3, <1>6
    <2>4. \A k \in 1 .. Len(v) : v[k] = t[k + 1]
      BY <1>4, <1>7
    <2>5. c.kind = s[Len(s)].kind /\ c.kind \in {"word", "dotted"}
      BY <1>1, <1>2, <1>8, <1>9
    <2> WITNESS u \in Seq(TextMarks), c \in TextMarks, v \in Seq(TextMarks)
    <2> QED
      BY <2>1, <2>2, <2>3, <2>4, <2>5

LEMMA JoinIn ==
  ASSUME NEW s \in Seq(TextMarks), NEW t \in Seq(TextMarks)
  PROVE  /\ Join(s, t) \in Seq(TextMarks)
         /\ Len(Join(s, t)) \in Nat /\ Len(s) \in Nat /\ Len(t) \in Nat
         /\ Len(s) <= Len(Join(s, t)) /\ Len(Join(s, t)) <= Len(s) + Len(t)
  <1>0. Len(s) \in Nat /\ Len(t) \in Nat
    BY LenProperties
  <1>1. CASE JoinsWith(s, t)
    <2>1. PICK u \in Seq(TextMarks), m \in TextMarks, v \in Seq(TextMarks) :
            /\ Join(s, t) = (u \o <<m>>) \o v
            /\ Len(s) \in Nat /\ Len(s) >= 1 /\ Len(u) = Len(s) - 1 /\ Len(v) = Len(t) - 1
            /\ \A k \in 1 .. Len(u) : u[k] = s[k]
            /\ \A k \in 1 .. Len(v) : v[k] = t[k + 1]
            /\ m.kind = s[Len(s)].kind /\ m.kind \in {"word", "dotted"}
      BY <1>1, JoinParts
    <2>2. <<m>> \in Seq(TextMarks) /\ Len(<<m>>) = 1
      OBVIOUS
    <2>3. u \o <<m>> \in Seq(TextMarks) /\ Len(u \o <<m>>) = Len(s)
      BY <1>0, <2>1, <2>2, ConcatProperties
    <2> DEFINE x == u \o <<m>>
    <2>4. x \in Seq(TextMarks) /\ Len(x) = Len(s) /\ Join(s, t) = x \o v
      BY <2>1, <2>3
    <2> HIDE DEF x
    <2>5. x \o v \in Seq(TextMarks) /\ Len(x \o v) = Len(x) + Len(v) /\ Len(v) \in Nat
      BY <2>4, ConcatProperties, LenProperties
    <2> QED
      BY <1>0, <2>1, <2>4, <2>5
  <1>2. CASE ~JoinsWith(s, t)
    <2>1. Join(s, t) = s \o t
      BY <1>2 DEF Join
    <2>2. s \o t \in Seq(TextMarks) /\ Len(s \o t) = Len(s) + Len(t)
      BY ConcatProperties
    <2> QED
      BY <1>0, <2>1, <2>2
  <1> QED
    BY <1>1, <1>2

----------------------------------------------------------------------------
(* The expansion of defines.                                               *)

LEMMA ReplacementIn ==
  ASSUME TablesOK, NEW w, Matches(w) # {}
  PROVE  Replacement(w) \in Seq(TextMarks)
  <1>1. PICK k \in Matches(w) : Replacement(w) = defines[k].value
    BY DEF Replacement
  <1>2. k \in 1 .. Len(defines)
    BY DEF Matches
  <1>3. defines[k] \in DefineSet
    BY <1>2, ElementOfSeq DEF TablesOK
  <1> QED
    BY <1>1, <1>3 DEF DefineSet

LEMMA ExpandIn ==
  ASSUME TablesOK, NEW m \in TextMarks
  PROVE  ExpandDefines(m) \in Seq(TextMarks)
  <1>1. <<m>> \in Seq(TextMarks)
    OBVIOUS
  <1>2. CASE Matches(<<m>>) # {}
    BY <1>2, ReplacementIn DEF ExpandDefines
  <1>3. CASE m.kind = "word" /\ Matches(<<m>>) = {} /\ TailsOf(m.text) # {}
    <2>1. PICK c \in TailsOf(m.text) :
             ExpandDefines(m) = Join(<<Word(c.stem)>>, Replacement(c.tail))
      BY <1>3 DEF ExpandDefines
    <2>2. c \in Compounds /\ Matches(c.tail) # {}
      BY DEF TailsOf
    <2>3. c.stem \in TextWords
      BY <2>2, TextWordsClosed DEF Start
    <2>4. Word(c.stem) \in TextMarks
      BY <2>3 DEF TextMarks, Marks, PlainMarks, Word
    <2>5. <<Word(c.stem)>> \in Seq(TextMarks) /\ Replacement(c.tail) \in Seq(TextMarks)
      BY <2>2, <2>4, ReplacementIn
    <2> HIDE DEF Word
    <2> QED
      BY <2>1, <2>5, JoinIn
  <1> QED
    BY <1>1, <1>2, <1>3 DEF ExpandDefines

----------------------------------------------------------------------------
(* The frames of the active calls, step by step.                           *)

LEMMA CurrentFrame ==
  ASSUME FramesOK, PlacesOK, phase = "preprocess"
  PROVE  /\ Len(frames) \in Nat /\ Len(frames) >= 1
         /\ Current \in FrameSet /\ Len(Current.text) <= MaxText
         /\ Callers \in Seq(FrameSet) /\ Len(Callers) = Len(frames) - 1
         /\ \A k \in 1 .. (Len(frames) - 1) : Callers[k] = frames[k]
  <1>1. Len(frames) \in Nat /\ Len(frames) >= 1
    BY LenProperties, EmptySeq DEF FramesOK, PlacesOK
  <1>2. Len(frames) \in 1 .. Len(frames)
    BY <1>1
  <1>3. Current \in FrameSet /\ Len(Current.text) <= MaxText
    BY <1>2, ElementOfSeq DEF FramesOK, Current
  <1>4. /\ Callers \in Seq(FrameSet) /\ Len(Callers) = Len(frames) - 1
        /\ \A k \in 1 .. (Len(frames) - 1) : Callers[k] = frames[k]
    <2> DEFINE s == frames
               n == Len(frames) - 1
    <2>1. s \in Seq(FrameSet) /\ n \in 0 .. Len(s) /\ Callers = SubSeq(s, 1, n)
      BY <1>1 DEF FramesOK, Callers
    <2> HIDE DEF s, n
    <2>2. Len(s) \in Nat
      BY <2>1, LenProperties
    <2>3. /\ SubSeq(s, 1, n) \in Seq(FrameSet) /\ Len(SubSeq(s, 1, n)) = n
          /\ \A k \in 1 .. n : SubSeq(s, 1, n)[k] = s[k]
      BY <2>1, <2>2, SubSeqProperties
    <2> QED
      BY <2>1, <2>3 DEF s, n
  <1> QED
    BY <1>1, <1>3, <1>4

\* A frame behind callers that have tokens left, in the same pass.
LEMMA PushFrame ==
  ASSUME NEW s \in Seq(FrameSet), NEW f \in FrameSet, Len(f.text) <= MaxText,
         \A k \in 1 .. Len(s) : s[k].tokens # <<>> /\ Len(s[k].text) <= MaxText,
         frames' = Append(s, f)
  PROVE  FramesOK' /\ Len(frames') = Len(s) + 1 /\ frames' # <<>> /\ Current' = f
  <1>1. Len(s) \in Nat
    BY LenProperties
  <1>2. /\ frames' \in Seq(FrameSet) /\ Len(frames') = Len(s) + 1
        /\ \A k \in 1 .. Len(s) : frames'[k] = s[k]
        /\ frames'[Len(s) + 1] = f
    BY <1>1, AppendProperties
  <1>4. frames' # <<>>
    BY <1>1, <1>2, EmptySeq
  <1>5. \A k \in 1 .. Len(frames') : Len(frames'[k].text) <= MaxText
    BY <1>1, <1>2
  <1>6. \A k \in 1 .. (Len(frames') - 1) : frames'[k].tokens # <<>>
    BY <1>1, <1>2
  <1> QED
    BY <1>2, <1>4, <1>5, <1>6 DEF FramesOK, Current

LEMMA ContinueKeeps ==
  ASSUME FramesOK, PlacesOK, phase = "preprocess", Current.tokens # <<>>,
         NEW text \in Seq(TextMarks), Len(text) <= MaxText, NEW fresh \in BOOLEAN,
         Continue(text, fresh)
  PROVE  FramesOK' /\ Len(frames') = Len(frames) /\ frames' # <<>> /\ Current'.text = text
  <1> DEFINE f == [tokens |-> Tail(Current.tokens), text |-> text, fresh |-> fresh]
  <1>1. f \in FrameSet /\ f.text = text
    <2>1. Current.tokens \in Seq(Tokens)
      BY CurrentFrame DEF FrameSet
    <2>2. Tail(Current.tokens) \in Seq(Tokens)
      BY <2>1, HeadTailProperties
    <2> QED
      BY <2>2 DEF FrameSet
  <1>2. frames' = Append(Callers, f)
    BY DEF Continue
  <1>3. \A k \in 1 .. Len(Callers) : /\ Callers[k].tokens # <<>>
                                     /\ Len(Callers[k].text) <= MaxText
    BY CurrentFrame DEF FramesOK
  <1> HIDE DEF f
  <1> QED
    BY <1>1, <1>2, <1>3, CurrentFrame, PushFrame

\* The marks a token of the preprocessor can have.
LEMMA MarkAt ==
  ASSUME FramesOK, PlacesOK, NEW type, PpAt(type)
  PROVE  /\ phase = "preprocess" /\ Current.tokens # <<>>
         /\ type # "directive" => Current.tokens[1] \in PlainTokens
         /\ type = "directive" => PpMark \in DirectiveMarks
  <1>1. Current.tokens \in Seq(Tokens) /\ Current.tokens # <<>> /\ phase = "preprocess"
    BY CurrentFrame DEF FrameSet, PpAt
  <1>2. Current.tokens[1] \in Tokens
    BY <1>1, HeadTailProperties
  <1>3. Current.tokens[1].type = type
    BY DEF PpAt
  <1> QED
    BY <1>1, <1>2, <1>3, DirectiveToken DEF PpMark

LEMMA MappedName ==
  ASSUME TablesOK, NEW l, IsMapped(l)
  PROVE  \E k \in 1 .. Len(locals) : locals[k].local = l /\ GlobalName(l) = locals[k].global
  <1>1. PICK k \in 1 .. Len(locals) : locals[k].local = l
    BY DEF IsMapped
  <1>2. locals[k] \in SE!ToSet(locals)
    BY DEF SE!ToSet
  <1>3. PICK m \in SE!ToSet(locals) : m.local = l /\ GlobalName(l) = m.global
    BY <1>1, <1>2 DEF GlobalName
  <1>4. \E i \in 1 .. Len(locals) : m = locals[i]
    <2>1. DOMAIN locals = 1 .. Len(locals)
      BY LenProperties DEF TablesOK
    <2> QED
      BY <2>1 DEF SE!ToSet
  <1> QED
    BY <1>3, <1>4

LEMMA GlobalNameIn ==
  ASSUME TablesOK, NEW l
  PROVE  GlobalName(l) \in TextWords
  <1>1. CASE IsMapped(l)
    <2>1. PICK k \in 1 .. Len(locals) : GlobalName(l) = locals[k].global
      BY <1>1, MappedName
    <2>2. locals[k] \in [local : TextWords, global : TextWords]
      BY ElementOfSeq DEF TablesOK
    <2> QED
      BY <2>1, <2>2
  <1>2. CASE ~IsMapped(l)
    <2>1. Len(locals) \in Nat /\ context \in TextWords
      BY LenProperties DEF TablesOK
    <2>2. GlobalName(l) = MadeName(context, Len(locals))
      BY <1>2 DEF GlobalName, LocalName
    <2> QED
      BY <2>1, <2>2, TextWordsClosed
  <1> QED
    BY <1>1, <1>2

\* What a round of the loop of preprocess_file does, if it opens no file.
Grows(text) == /\ text \in Seq(TextMarks) /\ Len(text) <= MaxText
               /\ Len(Current.text) <= Len(text)
Round == /\ phase = "preprocess" /\ Current.tokens # <<>>
         /\ \E text \in Seq(TextMarks), fresh \in BOOLEAN : Grows(text) /\ Continue(text, fresh)
         /\ UNCHANGED <<phase, passes, pass, project, stream, filled, vars, depth>>
OneRound == \/ PpDefine \/ PpNoInclude \/ PpComment \/ PpNewLine \/ PpLabel
            \/ PpLocal("local label") \/ PpLocal("identifier") \/ PpToken \/ PpError

LEMMA MarkMark ==
  ASSUME FramesOK, PlacesOK, NEW type, PpAt(type), type # "directive"
  PROVE  PpMark \in PlainMarks(TextWords) /\ phase = "preprocess" /\ Current.tokens # <<>>
  <1>1. /\ Current.tokens[1] \in PlainTokens
        /\ phase = "preprocess" /\ Current.tokens # <<>>
    BY MarkAt
  <1> QED
    BY <1>1, PlainToken DEF PpMark

LEMMA RoundBy ==
  ASSUME phase = "preprocess", Current.tokens # <<>>,
         NEW text, Grows(text), NEW fresh \in BOOLEAN, Continue(text, fresh),
         PpUnchanged, UNCHANGED depth
  PROVE  Round
  <1>1. text \in Seq(TextMarks)
    BY DEF Grows
  <1> QED
    BY <1>1 DEF Round, PpUnchanged

LEMMA RoundOf ==
  ASSUME FramesOK, PlacesOK, TablesOK, OneRound
  PROVE  Round
  <1>0. /\ {Space, Colon, NewLine} \subseteq TextMarks
        /\ \A type : PpAt(type) => phase = "preprocess" /\ Current.tokens # <<>>
    BY PunctMarks DEF PpAt
  <1>1. Len(Current.text) \in Nat /\ (phase = "preprocess" => Grows(Current.text))
    <2>1. phase = "preprocess" => Current.text \in Seq(TextMarks) /\ Len(Current.text) <= MaxText
      BY CurrentFrame DEF FrameSet
    <2>2. phase = "preprocess"
      BY <1>0 DEF OneRound, PpDefine, PpNoInclude, PpComment, PpNewLine, PpLabel, PpLocal,
                  PpToken, PpError
    <2> QED
      BY <2>1, <2>2, LenProperties DEF Grows
  <1>2. CASE PpDefine
    <2>1. phase = "preprocess" /\ Current.tokens # <<>>
      BY <1>0, <1>2 DEF PpDefine
    <2> QED
      BY <1>1, <1>2, <2>1, RoundBy DEF PpDefine
  <1>3. CASE PpNoInclude
    <2>1. phase = "preprocess" /\ Current.tokens # <<>> /\ depth' = depth
      BY <1>0, <1>3 DEF PpNoInclude, DepthAfterMissing
    <2> QED
      BY <1>1, <1>3, <2>1, RoundBy DEF PpNoInclude
  <1>4. CASE PpComment
    <2>1. Current.fresh \in BOOLEAN
      BY <1>0, <1>4, CurrentFrame DEF FrameSet, PpComment
    <2> QED
      BY <1>0, <1>1, <1>4, <2>1, RoundBy DEF PpComment
  <1>5. CASE PpNewLine
    <2>1. Grows(PutChar(Current.text, NewLine))
      BY <1>0, <1>1, <1>5, PutCharIn DEF Grows, PpNewLine
    <2> QED
      BY <1>0, <1>5, <2>1, RoundBy DEF PpNewLine
  <1>6. ASSUME NEW ms \in Seq(TextMarks), phase = "preprocess"
        PROVE  /\ Grows(PutSpaced(Current, ms))
               /\ Grows(PutChar(PutSpaced(Current, ms), Colon))
    <2> DEFINE text == PutSpaced(Current, ms)
    <2>1. Grows(text)
      BY <1>0, <1>1, <1>6, PutSpacedIn DEF Grows
    <2>2. Len(text) \in Nat
      BY <2>1, LenProperties DEF Grows
    <2> HIDE DEF text
    <2>3. /\ PutChar(text, Colon) \in Seq(TextMarks) /\ Len(PutChar(text, Colon)) <= MaxText
          /\ Len(text) <= Len(PutChar(text, Colon))
      BY <1>0, <2>1, PutCharIn DEF Grows
    <2>4. Len(PutChar(text, Colon)) \in Nat
      BY <2>3, LenProperties
    <2>5. Grows(PutChar(text, Colon))
      BY <1>1, <2>1, <2>2, <2>3, <2>4 DEF Grows
    <2> QED
      BY <2>1, <2>5 DEF text
  <1>7. CASE PpLabel
    <2>1. PpMark \in PlainMarks(TextWords) /\ phase = "preprocess"
      <3>1. PpAt("label")
        BY <1>7 DEF PpLabel
      <3> QED
        BY <3>1, MarkMark
    <2>2. Grows(PutChar(PutSpaced(Current, ExpandDefines(PpMark)), Colon))
      BY <1>6, <2>1, PlainAreMarks, ExpandIn
    <2> QED
      BY <1>0, <1>7, <2>2, RoundBy DEF PpLabel
  <1>8. ASSUME NEW type, PpLocal(type) PROVE Round
    <2> DEFINE ms == <<Word(GlobalName(PpMark.text))>>
    <2>1. phase = "preprocess" /\ Current.tokens # <<>>
      BY <1>0, <1>8 DEF PpLocal
    <2>2. ms \in Seq(TextMarks)
      <3>1. Word(GlobalName(PpMark.text)) \in TextMarks
        BY GlobalNameIn DEF TextMarks, Marks, PlainMarks, Word
      <3> QED
        BY <3>1
    <2>3. /\ Grows(PutSpaced(Current, ms))
          /\ Grows(PutChar(PutSpaced(Current, ms), Colon))
      BY <1>6, <2>1, <2>2
    <2>4. \/ Continue(PutChar(PutSpaced(Current, ms), Colon), FALSE)
          \/ Continue(PutSpaced(Current, ms), FALSE)
      BY <1>8 DEF PpLocal
    <2> HIDE DEF ms
    <2> QED
      BY <1>8, <2>1, <2>3, <2>4, RoundBy DEF PpLocal
  <1>9. CASE PpToken
    <2>0. PICK type \in {"identifier", "number", "string", "comma", "paren"} : PpAt(type)
      BY <1>9 DEF PpToken
    <2>1. PpMark \in PlainMarks(TextWords) /\ phase = "preprocess"
      <3>1. PpAt(type) /\ type # "directive"
        BY <2>0
      <3> HIDE DEF PpAt
      <3> QED
        BY <3>1, MarkMark
    <2>2. Grows(PutSpaced(Current, ExpandDefines(PpMark)))
      BY <1>6, <2>1, PlainAreMarks, ExpandIn
    <2> QED
      BY <1>0, <1>9, <2>0, <2>2, RoundBy DEF PpToken
  <1>10. CASE PpError
    <2>1. phase = "preprocess" /\ Current.tokens # <<>>
      BY <1>0, <1>10 DEF PpError
    <2> QED
      BY <1>1, <1>10, <2>1, RoundBy DEF PpError, ErrorText
  <1> QED
    BY <1>2, <1>3, <1>4, <1>5, <1>7, <1>8, <1>9, <1>10 DEF OneRound

LEMMA RoundKeeps ==
  ASSUME FramesOK, PlacesOK, Round
  PROVE  FramesOK' /\ PlacesOK'
  <1>1. PICK text \in Seq(TextMarks), fresh \in BOOLEAN : Grows(text) /\ Continue(text, fresh)
    BY DEF Round
  <1>2. Len(text) <= MaxText
    BY <1>1 DEF Grows
  <1>3. FramesOK' /\ Len(frames') = Len(frames) /\ frames' # <<>>
    BY <1>1, <1>2, ContinueKeeps DEF Round
  <1>4. PlacesOK'
    BY <1>3 DEF PlacesOK, Round, DepthIsNesting
  <1> QED
    BY <1>3, <1>4

LEMMA DefineKeeps ==
  ASSUME FramesOK, PlacesOK, TablesOK, PpDefine
  PROVE  TablesOK'
  <1>1. PpAt("directive") /\ PpMark.kind = "define"
    BY DEF PpDefine
  <1>2. PpMark \in DirectiveMarks
    BY <1>1, MarkAt
  <1>3. PpMark.name \in Seq(TextMarks) /\ PpMark.value \in Seq(TextMarks)
    BY <1>1, <1>2 DEF DirectiveMarks
  <1> DEFINE v == IF PpMark.value = <<>> THEN <<Number(1)>> ELSE PpMark.value
             d == [name |-> PpMark.name, value |-> v]
  <1>4. v \in Seq(TextMarks) /\ v # <<>>
    <2>1. Number(1) \in TextMarks
      BY DEF Number, TextMarks, Marks, PlainMarks
    <2>2. <<Number(1)>> \in Seq(TextMarks) /\ <<Number(1)>> # <<>>
      BY <2>1
    <2> QED
      BY <1>3, <2>2
  <1>5. PpMark.name # <<>> => d \in DefineSet
    <2> HIDE DEF v
    <2> QED
      BY <1>3, <1>4 DEF DefineSet
  <1>6. /\ defines' = IF PpMark.name = <<>> THEN defines ELSE Append(defines, d)
        /\ UNCHANGED labelState
    BY DEF PpDefine
  <1> HIDE DEF d
  <1>7. defines' \in Seq(DefineSet)
    BY <1>5, <1>6, AppendProperties DEF TablesOK
  <1> QED
    BY <1>6, <1>7 DEF TablesOK, labelState

LEMMA LabelKeeps ==
  ASSUME FramesOK, PlacesOK, TablesOK, PpLabel
  PROVE  TablesOK'
  <1>1. PpAt("label")
    BY DEF PpLabel
  <1>2. PpMark.text \in TextWords
    <2>1. Current.tokens[1] \in PlainTokens /\ Current.tokens[1].type = "label"
      BY <1>1, MarkAt DEF PpAt
    <2>2. PpMark \in PlainMarks(TextWords) /\ PpMark.kind = "word"
      BY <2>1, PlainToken DEF PpMark
    <2> QED
      BY <2>2 DEF PlainMarks
  <1>3. defines' = defines /\ context' = PpMark.text
        /\ locals' = <<>> /\ section' = section + 1
    BY DEF PpLabel, PpUnchanged, NewContext
  <1> QED
    BY <1>2, <1>3 DEF TablesOK

LEMMA LocalKeeps ==
  ASSUME FramesOK, PlacesOK, TablesOK, NEW type \in {"local label", "identifier"}, PpLocal(type)
  PROVE  PpMark.text \in TextWords /\ TablesOK'
  <1>1. PpAt(type) /\ PpMark.kind = "dotted" /\ type # "directive"
    BY DEF PpLocal
  <1>2. PpMark.text \in TextWords
    BY <1>1, MarkMark DEF PlainMarks
  <1>3. defines' = defines /\ context' = context /\ section' = section
    BY DEF PpLocal, PpUnchanged
  <1>4. MapLocal(PpMark.text)
    BY DEF PpLocal
  <1> DEFINE l == [local |-> PpMark.text, global |-> GlobalName(PpMark.text)]
  <1>5. l \in [local : TextWords, global : TextWords]
    BY <1>2, GlobalNameIn
  <1>6. locals' \in Seq([local : TextWords, global : TextWords])
    <2>1. locals' = locals \/ locals' = Append(locals, l)
      BY <1>4 DEF MapLocal
    <2> HIDE DEF l
    <2>2. locals \in Seq([local : TextWords, global : TextWords])
      BY DEF TablesOK
    <2>3. Append(locals, l) \in Seq([local : TextWords, global : TextWords])
      BY <1>5, <2>2, AppendProperties
    <2> QED
      BY <2>1, <2>2, <2>3
  <1> QED
    BY <1>2, <1>3, <1>6 DEF TablesOK

LEMMA TablesStay ==
  ASSUME TablesOK, defines' = defines, UNCHANGED labelState
  PROVE  TablesOK'
  BY DEF TablesOK, labelState

LEMMA RoundTables ==
  ASSUME FramesOK, PlacesOK, TablesOK, OneRound
  PROVE  TablesOK'
  <1>1. CASE PpDefine
    BY <1>1, DefineKeeps
  <1>2. CASE PpLabel
    BY <1>2, LabelKeeps
  <1>3. ASSUME NEW type \in {"local label", "identifier"}, PpLocal(type) PROVE TablesOK'
    BY <1>3, LocalKeeps
  <1>4. CASE PpNoInclude \/ PpComment \/ PpNewLine \/ PpToken \/ PpError
    BY <1>4, TablesStay DEF PpNoInclude, PpComment, PpNewLine, PpToken, PpError, PpUnchanged
  <1> QED
    BY <1>1, <1>2, <1>3, <1>4 DEF OneRound

LEMMA IncludeKeeps ==
  ASSUME FramesOK, PlacesOK, TablesOK, PpInclude
  PROVE  FramesOK' /\ PlacesOK' /\ TablesOK'
  <1>1. PpAt("directive") /\ PpMark.file \in DOMAIN project /\ ~IsTooDeep(depth)
    BY DEF PpInclude
  <1>2. Current.tokens # <<>> /\ phase = "preprocess"
    BY <1>1, MarkAt
  <1> DEFINE f == Frame(project[PpMark.file])
  <1>3. f \in FrameSet /\ Len(f.text) <= MaxText
    <2>1. project \in Projects
      BY DEF PlacesOK
    <2>2. Tokenize(project[PpMark.file]) \in Seq(Tokens)
      BY <1>1, <2>1, FilesMarks, TextTokens
    <2>3. <<>> \in Seq(TextMarks) /\ Len(<<>>) <= MaxText
      BY AsmAssumption
    <2> QED
      BY <2>2, <2>3 DEF Frame, FrameSet
  <1>4. /\ frames' = Append(frames, f) /\ depth' = depth + 1
        /\ UNCHANGED <<phase, passes, pass, project, defines, labelState>>
    BY DEF PpInclude, PpUnchanged
  <1>5. frames \in Seq(FrameSet) /\ Len(frames) \in Nat /\ Len(frames) >= 1
    BY <1>2, CurrentFrame DEF FramesOK
  <1>6. \A k \in 1 .. Len(frames) : frames[k].tokens # <<>> /\ Len(frames[k].text) <= MaxText
    <2>1. frames[Len(frames)].tokens # <<>>
      BY <1>2 DEF Current
    <2>2. \A k \in 1 .. Len(frames) : k = Len(frames) \/ k \in 1 .. (Len(frames) - 1)
      BY <1>5
    <2> QED
      BY <2>1, <2>2 DEF FramesOK
  <1>7. FramesOK' /\ Len(frames') = Len(frames) + 1 /\ frames' # <<>>
    <2> HIDE DEF f
    <2> QED
      BY <1>3, <1>4, <1>5, <1>6, PushFrame
  <1>8. DepthIsNesting'
    BY <1>1, <1>4, <1>5, <1>7, AsmAssumption DEF DepthIsNesting, PlacesOK, IsTooDeep
  <1>9. PlacesOK'
    <2> HIDE DEF f
    <2> QED
      BY <1>2, <1>4, <1>7, <1>8 DEF PlacesOK
  <1>10. TablesOK'
    BY <1>4, TablesStay
  <1> QED
    BY <1>7, <1>9, <1>10

LEMMA ReturnKeeps ==
  ASSUME FramesOK, PlacesOK, TablesOK, PpReturn
  PROVE  FramesOK' /\ PlacesOK' /\ TablesOK'
  <1> DEFINE n == Len(frames)
             caller == frames[n - 1]
             text == IF Len(caller.text) + Len(Current.text) < MaxText
                     THEN Join(caller.text, Current.text) ELSE caller.text
             f == [tokens |-> Tail(caller.tokens), text |-> text, fresh |-> TRUE]
             s == SubSeq(frames, 1, n - 2)
  <1>1. phase = "preprocess" /\ n > 1
    BY DEF PpReturn
  <1>2. n \in Nat /\ frames \in Seq(FrameSet) /\ n - 1 \in 1 .. n /\ n - 1 \in 1 .. (n - 1)
    BY <1>1, CurrentFrame DEF FramesOK
  <1>3. caller \in FrameSet /\ caller.tokens # <<>> /\ Len(caller.text) <= MaxText
    <2>1. frames[n - 1] \in FrameSet
      BY <1>2, ElementOfSeq
    <2> QED
      BY <1>2, <2>1 DEF FramesOK
  <1>4. f \in FrameSet /\ Len(f.text) <= MaxText
    <2>1. Current.text \in Seq(TextMarks)
      BY <1>1, CurrentFrame DEF FrameSet
    <2>2. caller.tokens \in Seq(Tokens) /\ caller.text \in Seq(TextMarks)
      BY <1>3 DEF FrameSet
    <2> HIDE DEF caller
    <2>3. Tail(caller.tokens) \in Seq(Tokens)
      BY <1>3, <2>2, HeadTailProperties
    <2>4. text \in Seq(TextMarks) /\ Len(text) <= MaxText
      <3> DEFINE a == caller.text
                 b == Current.text
                 j == Join(a, b)
      <3>1. MaxText \in Nat /\ a \in Seq(TextMarks) /\ b \in Seq(TextMarks) /\ Len(a) <= MaxText
        BY <1>3, <2>1, <2>2, AsmAssumption
      <3>2. text = IF Len(a) + Len(b) < MaxText THEN j ELSE a
        BY DEF caller
      <3> HIDE DEF a, b, text
      <3>3. /\ j \in Seq(TextMarks) /\ Len(j) \in Nat /\ Len(a) \in Nat /\ Len(b) \in Nat
            /\ Len(j) <= Len(a) + Len(b)
        BY <3>1, JoinIn
      <3> HIDE DEF j
      <3> QED
        BY <3>1, <3>2, <3>3
    <2> QED
      BY <2>3, <2>4 DEF FrameSet
  <1>5. s \in Seq(FrameSet) /\ Len(s) = n - 2 /\ \A k \in 1 .. (n - 2) : s[k] = frames[k]
    <2> DEFINE q == frames
               m == n - 2
    <2>1. q \in Seq(FrameSet) /\ m \in 0 .. Len(q) /\ s = SubSeq(q, 1, m)
      BY <1>1, <1>2
    <2> HIDE DEF q, m, s
    <2>2. Len(q) \in Nat
      BY <2>1, LenProperties
    <2>3. /\ SubSeq(q, 1, m) \in Seq(FrameSet) /\ Len(SubSeq(q, 1, m)) = m
          /\ \A k \in 1 .. m : SubSeq(q, 1, m)[k] = q[k]
      BY <2>1, <2>2, SubSeqProperties
    <2> QED
      BY <2>1, <2>3 DEF q, m
  <1>6. /\ frames' = Append(s, f) /\ depth' = depth - 1
        /\ UNCHANGED <<phase, passes, pass, project, defines, labelState>>
    BY DEF PpReturn, PpUnchanged
  <1>7. \A k \in 1 .. Len(s) : s[k].tokens # <<>> /\ Len(s[k].text) <= MaxText
    <2>1. \A k \in 1 .. (n - 2) : k \in 1 .. n /\ k \in 1 .. (n - 1)
      BY <1>2
    <2> HIDE DEF s
    <2> QED
      BY <1>5, <2>1 DEF FramesOK
  <1>8. FramesOK' /\ Len(frames') = Len(s) + 1 /\ frames' # <<>>
    <2> HIDE DEF f, s
    <2> QED
      BY <1>4, <1>5, <1>6, <1>7, PushFrame
  <1>9. Len(frames') = n - 1
    <2> HIDE DEF s, f
    <2> QED
      BY <1>2, <1>5, <1>8
  <1>10. DepthIsNesting'
    <2>1. depth = n /\ depth <= MaxIncludeDepth + 1
      BY DEF PlacesOK, DepthIsNesting
    <2> HIDE DEF n, s, f
    <2> QED
      BY <1>2, <1>6, <1>9, <2>1, AsmAssumption DEF DepthIsNesting
  <1>11. PlacesOK'
    <2> HIDE DEF n, s, f
    <2> QED
      BY <1>1, <1>2, <1>6, <1>8, <1>9, <1>10 DEF PlacesOK
  <1>12. TablesOK'
    <2> HIDE DEF s, f
    <2> QED
      BY <1>6, TablesStay
  <1> QED
    BY <1>8, <1>11, <1>12

\* The second pass begins with what the first one made.
LEMMA SecondPassKeeps ==
  ASSUME FramesOK, PlacesOK, TablesOK, PpDone, phase' = "preprocess"
  PROVE  FramesOK' /\ PlacesOK' /\ TablesOK'
  <1> DEFINE f == Frame(Current.text)
  <1>1. /\ phase = "preprocess" /\ Len(frames) = 1 /\ pass < passes /\ pass' = pass + 1
        /\ frames' = <<f>> /\ FreshPreprocessor
        /\ UNCHANGED <<depth, passes, project>>
    BY DEF PpDone, PlacesOK
  <1>2. passes \in {1, 2} /\ pass = 1 /\ pass' = 2
    BY <1>1 DEF PlacesOK
  <1>3. Current.text \in Seq(TextMarks)
    BY <1>1, CurrentFrame DEF FrameSet
  <1>4. f.tokens \in Seq(Tokens) /\ f.text = <<>> /\ f.fresh = TRUE
    BY <1>3, TextTokens DEF Frame
  <1>5. f \in FrameSet
    <2>1. f = [tokens |-> f.tokens, text |-> f.text, fresh |-> f.fresh]
      BY DEF Frame
    <2>2. <<>> \in Seq(TextMarks)
      OBVIOUS
    <2> HIDE DEF f
    <2> QED
      BY <1>4, <2>1, <2>2 DEF FrameSet
  <1> HIDE DEF f
  <1>8. FramesOK'
    <2>1. frames' \in Seq(FrameSet) /\ Len(frames') = 1 /\ frames'[1] = f
      BY <1>1, <1>5
    <2>2. Len(f.text) = 0 /\ 0 <= MaxText
      BY <1>4, AsmAssumption
    <2> QED
      BY <2>1, <2>2 DEF FramesOK
  <1>9. PlacesOK'
    <2>1. frames' # <<>> /\ Len(frames') = 1
      BY <1>1
    <2> QED
      BY <1>1, <1>2, <2>1 DEF PlacesOK, DepthIsNesting
  <1>10. TablesOK'
    <2>1. defines' = <<>> /\ locals' = <<>> /\ context' = "__global" /\ section' = 0
      BY <1>1 DEF FreshPreprocessor
    <2> QED
      BY <2>1, TextWordsClosed DEF TablesOK, Start
  <1> QED
    BY <1>8, <1>9, <1>10

LEMMA ParseBegins ==
  ASSUME FramesOK, PlacesOK, TablesOK, PpDone, phase' # "preprocess"
  PROVE  /\ FramesOK' /\ PlacesOK' /\ TablesOK'
         /\ phase = "preprocess" /\ phase' = "parse" /\ pass = passes
         /\ stream' = Tokenize(Current.text) /\ filled' = (Len(Current.text) = MaxText)
         /\ pass' = pass /\ UNCHANGED vars /\ UNCHANGED passes
  <1>1. /\ phase = "preprocess" /\ phase' = "parse" /\ pass = passes
        /\ stream' = Tokenize(Current.text) /\ filled' = (Len(Current.text) = MaxText)
        /\ pass' = pass /\ UNCHANGED vars /\ Len(frames) = 1
        /\ frames' = <<>> /\ depth' = depth - 1
        /\ UNCHANGED <<pass, passes, project, defines, labelState>>
    BY DEF PpDone
  <1>2. FramesOK'
    <2>1. <<>> \in Seq(FrameSet) /\ Len(<<>>) = 0
      OBVIOUS
    <2> QED
      BY <1>1, <2>1 DEF FramesOK
  <1>3. PlacesOK'
    <2>1. Len(frames') = 0 /\ depth = 1 /\ depth' = 0
      BY <1>1 DEF PlacesOK, DepthIsNesting
    <2>2. DepthIsNesting'
      BY <2>1, AsmAssumption DEF DepthIsNesting
    <2> QED
      BY <1>1, <2>1, <2>2 DEF PlacesOK
  <1>4. TablesOK'
    BY <1>1, TablesStay
  <1> QED
    BY <1>1, <1>2, <1>3, <1>4

LEMMA ParseStays ==
  ASSUME PlacesOK, Parse
  PROVE  /\ phase = "parse" /\ phase' \in {"parse", "accepted", "refused", "crashed"}
         /\ UNCHANGED <<passes, pass, project, preprocessor, filled>>
  BY DEF Parse, ParseLabel, ParseNullOperand, ParseRefuse, ParseInstruction, ParseSkip, ParseDone,
         ParseAt, ParseUnchanged

LEMMA ParseKeeps ==
  ASSUME FramesOK, PlacesOK, TablesOK, Parse
  PROVE  FramesOK' /\ PlacesOK' /\ TablesOK'
  <1>1. /\ phase = "parse" /\ phase' \in {"parse", "accepted", "refused", "crashed"}
        /\ UNCHANGED <<passes, pass, project, frames, depth, defines, labelState>>
    BY ParseStays DEF preprocessor
  <1>2. FramesOK'
    BY <1>1 DEF FramesOK
  <1>3. PlacesOK'
    BY <1>1 DEF PlacesOK, DepthIsNesting
  <1>4. TablesOK'
    BY <1>1, TablesStay
  <1> QED
    BY <1>2, <1>3, <1>4

----------------------------------------------------------------------------
AsmInv == FramesOK /\ PlacesOK /\ TablesOK

LEMMA AsmInitInv == AsmInit => AsmInv
  <1> SUFFICES ASSUME AsmInit PROVE AsmInv
    OBVIOUS
  <1>1. /\ project \in Projects /\ passes \in {1, 2} /\ pass = 1
        /\ defines = <<>> /\ locals = <<>> /\ context = "__global" /\ section = 0
    BY AsmAssumption DEF AsmInit
  <1>2. TablesOK
    BY <1>1, TextWordsClosed DEF TablesOK, Start
  <1>3. CASE Main \in DOMAIN project
    <2> DEFINE f == Frame(project[Main])
    <2>1. phase = "preprocess" /\ frames = <<f>> /\ depth = 1
      BY <1>3 DEF AsmInit
    <2>2. Tokenize(project[Main]) \in Seq(Tokens)
      BY <1>1, <1>3, FilesMarks, TextTokens
    <2>3. <<>> \in Seq(TextMarks) /\ Len(<<>>) <= MaxText
      BY AsmAssumption
    <2>4. f \in FrameSet /\ Len(f.text) <= MaxText
      BY <2>2, <2>3 DEF Frame, FrameSet
    <2> HIDE DEF f
    <2>5. frames \in Seq(FrameSet) /\ Len(frames) = 1 /\ frames[1] = f /\ frames # <<>>
      BY <2>1, <2>4
    <2>6. FramesOK
      BY <2>4, <2>5 DEF FramesOK
    <2>7. PlacesOK
      BY <1>1, <2>1, <2>5, AsmAssumption DEF PlacesOK, DepthIsNesting
    <2> QED
      BY <1>2, <2>6, <2>7 DEF AsmInv
  <1>4. CASE Main \notin DOMAIN project
    <2>1. phase = "refused" /\ frames = <<>> /\ depth = 0
      BY <1>4 DEF AsmInit
    <2>2. FramesOK
      <3>1. <<>> \in Seq(FrameSet) /\ Len(<<>>) = 0
        OBVIOUS
      <3> QED
        BY <2>1, <3>1 DEF FramesOK
    <2>3. PlacesOK
      BY <1>1, <2>1, AsmAssumption DEF PlacesOK, DepthIsNesting
    <2> QED
      BY <1>2, <2>2, <2>3 DEF AsmInv
  <1> QED
    BY <1>3, <1>4

LEMMA AsmStep == AsmInv /\ [AsmNext]_asmVars => AsmInv'
  <1> SUFFICES ASSUME AsmInv, [AsmNext]_asmVars PROVE AsmInv'
    OBVIOUS
  <1> USE DEF AsmInv
  <1>1. CASE OneRound
    BY <1>1, RoundOf, RoundKeeps, RoundTables
  <1>2. CASE PpInclude
    BY <1>2, IncludeKeeps
  <1>3. CASE PpReturn
    BY <1>3, ReturnKeeps
  <1>4. CASE PpDone
    BY <1>4, SecondPassKeeps, ParseBegins
  <1>5. CASE Parse
    BY <1>5, ParseKeeps
  <1>6. CASE UNCHANGED asmVars
    <2>1. UNCHANGED <<phase, passes, pass, project, frames, depth, defines, labelState>>
      BY <1>6 DEF asmVars, preprocessor
    <2>2. FramesOK'
      BY <2>1 DEF FramesOK
    <2>3. PlacesOK'
      BY <2>1 DEF PlacesOK, DepthIsNesting
    <2> QED
      BY <2>1, <2>2, <2>3, TablesStay
  <1> QED
    BY <1>1, <1>2, <1>3, <1>4, <1>5, <1>6 DEF AsmNext, Preprocess, OneRound

\* Of every file that is assembled, by any number of passes: the preprocessor
\* stays within its tables and its buffers.
THEOREM AsmInvariance == AsmSpec => []AsmInv
  <1> QED
    BY AsmInitInv, AsmStep, PTL DEF AsmSpec

\* The depth preprocess_file counts is the number of its active calls, whatever
\* it returns through, and the calls are never nested deeper than the limit
\* and one.
THEOREM DepthCountsCalls == AsmSpec => []DepthIsNesting
  <1>1. AsmInv => DepthIsNesting
    BY DEF AsmInv, PlacesOK
  <1> QED
    BY <1>1, AsmInvariance, PTL

----------------------------------------------------------------------------
(* The names of local labels.                                              *)

\* A made name tells its context and its number: what follows the last
\* "__local_" is the number, whose digits hold no "_".  No prover at hand
\* reasons about the characters of strings, so that this is a hypothesis of the
\* theorem below; MCAsm evaluates it for some contexts.  In the code it is true
\* of names that fit global_name, where snprintf cuts them at 127 bytes.
NamesTell == \A c, d \in TextWords : \A m, n \in Nat :
                MadeName(c, m) = MadeName(d, n) => c = d /\ m = n

\* The mappings of a section are numbered, a name that was given is a made
\* one, those given in this section are still mapped, and within a section
\* one name is one label's.
LocalsNumbered == \A k \in 1 .. Len(locals) : locals[k].global = MadeName(context, k - 1)
MappedTo(l, name) == \E k \in 1 .. Len(locals) : locals[k].local = l /\ locals[k].global = name
IsGiven(g)  == /\ g.section \in Nat /\ g.section <= section /\ g.context \in TextWords
               /\ \E n \in Nat : g.name = MadeName(g.context, n)
               /\ g.section = section => g.context = context /\ MappedTo(g.local, g.name)
Apart(g, h) == g.section = h.section /\ g.name = h.name => g.local = h.local
GivenOK     == /\ LocalsNumbered
               /\ \A g \in given : IsGiven(g)
               /\ \A g, h \in given : Apart(g, h)

\* The first use of a local label maps it, and no mapping is taken back.
LEMMA MapLocalMaps ==
  ASSUME TablesOK, LocalsNumbered, NEW l, MapLocal(l), context' = context
  PROVE  /\ LocalsNumbered'
         /\ Len(locals') \in Nat
         /\ \A k \in 1 .. Len(locals) : k \in 1 .. Len(locals') /\ locals'[k] = locals[k]
         /\ \E k \in 1 .. Len(locals') : /\ locals'[k].local = l
                                         /\ locals'[k].global = GlobalName(l)
  <1>1. Len(locals) \in Nat
    BY LenProperties DEF TablesOK
  <1>2. CASE IsMapped(l)
    <2>1. locals' = locals
      BY <1>2 DEF MapLocal
    <2> QED
      BY <1>1, <1>2, <2>1, MappedName DEF LocalsNumbered
  <1>3. CASE ~IsMapped(l)
    <2> DEFINE m == [local |-> l, global |-> GlobalName(l)]
               n == Len(locals)
    <2>1. locals' = Append(locals, m)
      BY <1>3 DEF MapLocal
    <2>2. m.local = l /\ m.global = GlobalName(l) /\ m.global = MadeName(context, n)
      BY <1>3 DEF GlobalName, LocalName
    <2> HIDE DEF m
    <2>3. /\ Len(locals') = n + 1 /\ locals'[n + 1] = m
          /\ \A k \in 1 .. n : locals'[k] = locals[k]
      <3>1. locals \in Seq([local : TextWords, global : TextWords] \cup {m})
        BY SeqMonotonic DEF TablesOK
      <3> QED
        BY <2>1, <3>1, AppendProperties
    <2>4. LocalsNumbered'
      <3>1. ASSUME NEW k \in 1 .. (n + 1) PROVE locals'[k].global = MadeName(context, k - 1)
        <4>1. CASE k = n + 1
          <5>1. k - 1 = n
            BY <1>1, <4>1
          <5> QED
            BY <2>2, <2>3, <4>1, <5>1
        <4>2. CASE k \in 1 .. n
          BY <2>3, <4>2 DEF LocalsNumbered
        <4> QED
          BY <1>1, <4>1, <4>2
      <3> QED
        BY <2>3, <3>1 DEF LocalsNumbered
    <2>5. n + 1 \in 1 .. (n + 1) /\ \A k \in 1 .. n : k \in 1 .. (n + 1)
      BY <1>1
    <2> QED
      BY <1>1, <2>2, <2>3, <2>4, <2>5
  <1> QED
    BY <1>2, <1>3

LEMMA NameGiven ==
  ASSUME NamesTell, TablesOK, GivenOK,
         NEW l, MapLocal(l), NEW name, name = GlobalName(l),
         NEW g, g.name = name, g.local = l, g.context = context, g.section = section,
         given' = given \cup {g}, context' = context, section' = section
  PROVE  GivenOK'
  <1>3. /\ LocalsNumbered' /\ Len(locals') \in Nat
        /\ \A k \in 1 .. Len(locals) : k \in 1 .. Len(locals') /\ locals'[k] = locals[k]
        /\ \E k \in 1 .. Len(locals') : locals'[k].local = l /\ locals'[k].global = name
    BY MapLocalMaps DEF GivenOK
  <1>4. MappedTo(l, name)' /\ \A k, n : MappedTo(k, n) => MappedTo(k, n)'
    BY <1>3 DEF MappedTo
  <1>5. \A h \in given : IsGiven(h)'
    <2> SUFFICES ASSUME NEW h \in given PROVE IsGiven(h)'
      OBVIOUS
    <2>1. IsGiven(h)
      BY DEF GivenOK
    <2> QED
      BY <1>4, <2>1 DEF IsGiven
  <1>6. IsGiven(g)'
    <2>1. \E n \in Nat : name = MadeName(context, n)
      <3>1. PICK k \in 1 .. Len(locals') : locals'[k].global = name
        BY <1>3
      <3>2. name = MadeName(context, k - 1)
        BY <1>3, <3>1 DEF LocalsNumbered
      <3>3. k - 1 \in Nat
        BY <1>3, <3>1
      <3> QED
        BY <3>2, <3>3
    <2>2. section \in Nat /\ section <= section /\ context \in TextWords
      BY DEF TablesOK
    <2> QED
      BY <1>4, <2>1, <2>2 DEF IsGiven
  <1>7. \A h \in given : Apart(g, h) /\ Apart(h, g)
    <2> SUFFICES ASSUME NEW h \in given, h.section = section, h.name = name PROVE h.local = l
      BY DEF Apart
    <2>1. IsGiven(h)
      BY DEF GivenOK
    <2>2. MappedTo(h.local, name)'
      BY <1>4, <2>1 DEF IsGiven
    <2>3. PICK j \in 1 .. Len(locals') : locals'[j].local = h.local /\ locals'[j].global = name
      BY <2>2 DEF MappedTo
    <2>4. PICK k \in 1 .. Len(locals') : locals'[k].local = l /\ locals'[k].global = name
      BY <1>3
    <2>5. MadeName(context, j - 1) = MadeName(context, k - 1)
      BY <1>3, <2>3, <2>4 DEF LocalsNumbered
    <2>6. j - 1 \in Nat /\ k - 1 \in Nat /\ context \in TextWords
      BY <1>3 DEF TablesOK
    <2>7. j - 1 = k - 1
      BY <2>5, <2>6 DEF NamesTell
    <2>8. j = k
      BY <1>3, <2>7
    <2> QED
      BY <2>3, <2>4, <2>8
  <1>8. \A h, i \in given' : Apart(h, i)
    BY <1>7 DEF GivenOK, Apart
  <1> QED
    BY <1>3, <1>5, <1>6, <1>8 DEF GivenOK, Apart

LEMMA LocalGiven ==
  ASSUME NamesTell, TablesOK, GivenOK, NEW type, PpLocal(type)
  PROVE  GivenOK'
  <1> DEFINE t == PpMark.text
             h == [name |-> GlobalName(t), local |-> t, context |-> context, section |-> section]
  <1>1. PICK l, name, g : l = t /\ name = GlobalName(l) /\ g = h
    OBVIOUS
  <1>2. /\ MapLocal(l) /\ given' = given \cup {g}
        /\ context' = context /\ section' = section
    BY <1>1 DEF PpLocal
  <1>3. g.name = name /\ g.local = l /\ g.context = context /\ g.section = section
    BY <1>1
  <1> HIDE DEF t, h
  <1> QED
    BY <1>1, <1>2, <1>3, NameGiven

LEMMA NewContextGiven ==
  ASSUME TablesOK, GivenOK, PpLabel
  PROVE  GivenOK'
  <1>1. locals' = <<>> /\ section' = section + 1 /\ given' = given /\ section \in Nat
    BY DEF PpLabel, NewContext, TablesOK
  <1>2. LocalsNumbered'
    BY <1>1 DEF LocalsNumbered
  <1>3. ASSUME NEW g \in given PROVE IsGiven(g)'
    <2>1. IsGiven(g)
      BY DEF GivenOK
    <2>2. g.section <= section' /\ g.section # section'
      BY <1>1, <2>1 DEF IsGiven
    <2> QED
      BY <2>1, <2>2 DEF IsGiven
  <1> QED
    BY <1>1, <1>2, <1>3 DEF GivenOK, Apart

LEMMA GivenStays ==
  ASSUME GivenOK, UNCHANGED labelState
  PROVE  GivenOK'
  BY DEF GivenOK, labelState, LocalsNumbered, IsGiven, MappedTo, Apart

LEMMA GivenStep ==
  ASSUME NamesTell, AsmInv, GivenOK, [AsmNext]_asmVars
  PROVE  GivenOK'
  <1>1. CASE PpLabel
    BY <1>1, NewContextGiven DEF AsmInv
  <1>2. ASSUME NEW type \in {"local label", "identifier"}, PpLocal(type) PROVE GivenOK'
    BY <1>2, LocalGiven DEF AsmInv
  <1>3. CASE PpDone /\ FreshPreprocessor
    <2>1. locals' = <<>> /\ given' = {}
      BY <1>3 DEF FreshPreprocessor
    <2> QED
      BY <2>1 DEF GivenOK, LocalsNumbered
  <1>4. CASE PpDone /\ UNCHANGED labelState
    BY <1>4, GivenStays
  <1>5. CASE \/ PpDefine \/ PpInclude \/ PpNoInclude \/ PpComment \/ PpNewLine \/ PpToken
             \/ PpError \/ PpReturn
    BY <1>5, GivenStays DEF PpDefine, PpInclude, PpNoInclude, PpComment, PpNewLine, PpToken,
                            PpError, PpReturn
  <1>6. CASE Parse
    BY <1>6, ParseStays, GivenStays DEF AsmInv, preprocessor
  <1>7. CASE UNCHANGED asmVars
    BY <1>7, GivenStays DEF asmVars, preprocessor
  <1>8. PpDone => FreshPreprocessor \/ UNCHANGED labelState
    BY DEF PpDone
  <1> QED
    BY <1>1, <1>2, <1>3, <1>4, <1>5, <1>6, <1>7, <1>8 DEF AsmNext, Preprocess

LEMMA GivenInit == AsmInit => GivenOK
  BY DEF AsmInit, GivenOK, LocalsNumbered

LEMMA GivenAreUnique ==
  ASSUME NamesTell, GivenOK
  PROVE  LocalNamesAreUnique
  <1> SUFFICES ASSUME NEW a \in given, NEW b \in given, a.name = b.name
               PROVE  \/ a.section = b.section /\ a.local = b.local
                      \/ a.section # b.section /\ a.context = b.context
    BY DEF LocalNamesAreUnique
  <1>1. IsGiven(a) /\ IsGiven(b) /\ Apart(a, b)
    BY DEF GivenOK
  <1>2. CASE a.section = b.section
    BY <1>1, <1>2 DEF Apart
  <1>3. CASE a.section # b.section
    <2>1. PICK m \in Nat : a.name = MadeName(a.context, m)
      BY <1>1 DEF IsGiven
    <2>2. PICK n \in Nat : b.name = MadeName(b.context, n)
      BY <1>1 DEF IsGiven
    <2>3. a.context = b.context
      <3>1. a.context \in TextWords /\ b.context \in TextWords
        BY <1>1 DEF IsGiven
      <3>2. MadeName(a.context, m) = MadeName(b.context, n)
        BY <2>1, <2>2
      <3> QED
        BY <3>1, <3>2 DEF NamesTell
    <2> QED
      BY <1>3, <2>3
  <1> QED
    BY <1>2, <1>3

\* If a made name tells its context and its number: in one pass no jump to a
\* local label reaches the label of another section, unless the two sections'
\* labels are equal.
THEOREM LocalLabelsStayApart ==
  ASSUME NamesTell
  PROVE  AsmSpec => []LocalNamesAreUnique
  <1>1. AsmInit => AsmInv /\ GivenOK
    BY AsmInitInv, GivenInit
  <1>2. AsmInv /\ GivenOK /\ [AsmNext]_asmVars => (AsmInv /\ GivenOK)'
    BY NamesTell, AsmStep, GivenStep
  <1>3. AsmInv /\ GivenOK => LocalNamesAreUnique
    BY NamesTell, GivenAreUnique
  <1> QED
    BY <1>1, <1>2, <1>3, PTL DEF AsmSpec

----------------------------------------------------------------------------
(* Without defines no error token is left, but for a full buffer.          *)

FullOrClean(text) == Len(text) = MaxText \/ Clean(text)
CleanOK == phase = "preprocess" /\ defines = <<>> =>
              \A k \in 1 .. Len(frames) : FullOrClean(frames[k].text)

LEMMA CleanAppend ==
  ASSUME NEW M, NEW text \in Seq(M), Clean(text), NEW m \in M,
         \/ CleanMark(m)
         \/ IsPunct(m, {":"}) /\ Len(text) >= 1 /\ text[Len(text)].kind = "word"
  PROVE  Clean(Append(text, m))
  <1> DEFINE t == Append(text, m)
             n == Len(text)
  <1>1. /\ n \in Nat /\ Len(t) = n + 1 /\ t[n + 1] = m
        /\ \A k \in 1 .. n : t[k] = text[k]
    BY LenProperties, AppendProperties
  <1> HIDE DEF t
  <1> SUFFICES ASSUME NEW k \in 1 .. (n + 1)
               PROVE  \/ CleanMark(t[k])
                      \/ IsPunct(t[k], {":"}) /\ k > 1 /\ t[k - 1].kind = "word"
    BY <1>1 DEF Clean, t
  <1>2. CASE k \in 1 .. n
    <2>1. k > 1 => k - 1 \in 1 .. n
      BY <1>1
    <2> QED
      BY <1>1, <1>2, <2>1 DEF Clean
  <1>3. CASE k = n + 1
    <2>1. t[k] = m /\ k - 1 = n
      BY <1>1, <1>3
    <2>2. n >= 1 => t[k - 1] = text[n] /\ k > 1
      BY <1>1, <1>3, <2>1
    <2> QED
      BY <2>1, <2>2
  <1> QED
    BY <1>1, <1>2, <1>3

LEMMA PutCharClean ==
  ASSUME NEW M, NEW text \in Seq(M), Len(text) <= MaxText, FullOrClean(text), NEW m \in M,
         \/ CleanMark(m)
         \/ IsPunct(m, {":"}) /\ Len(text) >= 1 /\ text[Len(text)].kind = "word"
  PROVE  FullOrClean(PutChar(text, m))
  <1>1. Len(text) \in Nat /\ MaxText \in Nat
    BY LenProperties, AsmAssumption
  <1>2. CASE Len(text) = MaxText
    BY <1>1, <1>2 DEF PutChar, FullOrClean
  <1>3. CASE Len(text) # MaxText
    <2>1. PutChar(text, m) = Append(text, m)
      BY <1>1, <1>3 DEF PutChar
    <2>2. Clean(text)
      BY <1>3 DEF FullOrClean
    <2> QED
      BY <2>1, <2>2, CleanAppend DEF FullOrClean
  <1> QED
    BY <1>2, <1>3

\* What puts one mark, and what puts a name and its colon: a name that found no
\* room leaves room for one character at most.
LEMMA PutMarkClean ==
  ASSUME NEW M, {Space, Colon} \subseteq M, NEW f, f.text \in Seq(M), Len(f.text) <= MaxText,
         FullOrClean(f.text), NEW m \in M, CleanMark(m)
  PROVE  /\ FullOrClean(PutSpaced(f, <<m>>))
         /\ m.kind = "word" => FullOrClean(PutChar(PutSpaced(f, <<m>>), Colon))
  <1> DEFINE text == IF f.fresh THEN f.text ELSE PutChar(f.text, Space)
  <1>1. CleanMark(Space) /\ IsPunct(Colon, {":"})
    BY DEF CleanMark, IsPunct, Space, Colon, Punct
  <1>2. text \in Seq(M) /\ Len(text) <= MaxText /\ FullOrClean(text)
    BY <1>1, PutCharIn, PutCharClean
  <1>3. PutSpaced(f, <<m>>) = PutText(text, <<m>>)
    BY DEF PutSpaced
  <1> HIDE DEF text
  <1>4. Len(text) \in Nat /\ MaxText \in Nat /\ Len(<<m>>) = 1
    BY <1>2, LenProperties, AsmAssumption
  <1>5. CASE Len(text) + 1 < MaxText
    <2>1. PutText(text, <<m>>) = text \o <<m>>
      BY <1>4, <1>5 DEF PutText
    <2>2. text \o <<m>> = Append(text, m)
      BY <1>2
    <2>3. Clean(text)
      BY <1>2, <1>4, <1>5 DEF FullOrClean
    <2> DEFINE t == Append(text, m)
    <2>4. /\ t \in Seq(M) /\ Len(t) = Len(text) + 1 /\ t[Len(t)] = m
      BY <1>2, AppendProperties
    <2>5. Clean(t)
      BY <1>2, <2>3, CleanAppend
    <2> HIDE DEF t
    <2>6. m.kind = "word" => FullOrClean(PutChar(t, Colon))
      BY <1>1, <1>4, <1>5, <2>4, <2>5, PutCharClean DEF FullOrClean
    <2> QED
      BY <1>3, <2>1, <2>2, <2>5, <2>6 DEF t, FullOrClean
  <1>6. CASE ~(Len(text) + 1 < MaxText)
    <2>1. PutText(text, <<m>>) = text
      BY <1>4, <1>6 DEF PutText
    <2>2. Len(PutChar(text, Colon)) = MaxText
      <3>1. CASE Len(text) = MaxText
        BY <1>4, <3>1 DEF PutChar
      <3>2. CASE Len(text) + 1 = MaxText
        <4>1. PutChar(text, Colon) = Append(text, Colon)
          BY <1>4, <3>2 DEF PutChar
        <4>2. Colon \in M
          OBVIOUS
        <4>3. Len(Append(text, Colon)) = Len(text) + 1
          BY <1>2, <4>2, AppendProperties
        <4> QED
          BY <3>2, <4>1, <4>3
      <3> QED
        BY <1>2, <1>4, <1>6, <3>1, <3>2
    <2> QED
      BY <1>2, <1>3, <2>1, <2>2 DEF FullOrClean
  <1> QED
    BY <1>5, <1>6

\* Clean texts that are put side by side, the first's last word perhaps
\* joined with the second's first.
LEMMA ConcatClean ==
  ASSUME NEW s \in Seq(TextMarks), NEW t \in Seq(TextMarks), Clean(s),
         \A k \in 1 .. Len(t) :
            \/ CleanMark(t[k])
            \/ IsPunct(t[k], {":"}) /\ k > 1 /\ t[k - 1].kind = "word"
            \/ IsPunct(t[k], {":"}) /\ k = 1 /\ Len(s) >= 1 /\ s[Len(s)].kind = "word"
  PROVE  Clean(s \o t)
  <1> DEFINE n == Len(s)
             q == s \o t
  <1>1. /\ n \in Nat /\ Len(t) \in Nat /\ Len(q) = n + Len(t)
        /\ \A k \in 1 .. (n + Len(t)) : q[k] = IF k <= n THEN s[k] ELSE t[k - n]
    BY LenProperties, ConcatProperties
  <1> HIDE DEF q, n
  <1>2. ASSUME NEW k \in 1 .. (n + Len(t))
        PROVE  \/ CleanMark(q[k])
               \/ IsPunct(q[k], {":"}) /\ k > 1 /\ q[k - 1].kind = "word"
    <2>1. CASE k <= n
      <3>1. q[k] = s[k] /\ (k > 1 => q[k - 1] = s[k - 1]) /\ k \in 1 .. n
        BY <1>1, <2>1
      <3> QED
        BY <3>1 DEF Clean, n
    <2>2. CASE k > n
      <3>1. k - n \in 1 .. Len(t) /\ q[k] = t[k - n]
        BY <1>1, <2>2
      <3>2. k - n > 1 => k > 1 /\ q[k - 1] = t[(k - n) - 1]
        <4> SUFFICES ASSUME k - n > 1 PROVE k > 1 /\ q[k - 1] = t[(k - n) - 1]
          OBVIOUS
        <4>1. k - 1 \in 1 .. (n + Len(t)) /\ ~(k - 1 <= n) /\ (k - 1) - n = (k - n) - 1 /\ k > 1
          BY <1>1
        <4>2. q[k - 1] = t[(k - 1) - n]
          BY <1>1, <4>1
        <4> QED
          BY <4>1, <4>2
      <3>3. k - n = 1 /\ n >= 1 => k > 1 /\ q[k - 1] = s[n]
        <4> SUFFICES ASSUME k - n = 1, n >= 1 PROVE k > 1 /\ q[k - 1] = s[n]
          OBVIOUS
        <4>1. k - 1 = n /\ n \in 1 .. (n + Len(t)) /\ k > 1
          BY <1>1
        <4> QED
          BY <1>1, <4>1
      <3> QED
        BY <3>1, <3>2, <3>3 DEF n
    <2> QED
      BY <1>1, <2>1, <2>2
  <1> QED
    BY <1>1, <1>2 DEF Clean, q

LEMMA JoinClean ==
  ASSUME NEW s \in Seq(TextMarks), NEW t \in Seq(TextMarks), Clean(s), Clean(t)
  PROVE  Clean(Join(s, t))
  <1>1. CASE ~JoinsWith(s, t)
    <2>1. Join(s, t) = s \o t
      BY <1>1 DEF Join
    <2>2. Clean(s \o t)
      BY ConcatClean DEF Clean
    <2> QED
      BY <2>1, <2>2
  <1>2. CASE JoinsWith(s, t)
    <2>1. PICK u \in Seq(TextMarks), m \in TextMarks, v \in Seq(TextMarks) :
            /\ Join(s, t) = (u \o <<m>>) \o v
            /\ Len(s) \in Nat /\ Len(s) >= 1 /\ Len(u) = Len(s) - 1 /\ Len(v) = Len(t) - 1
            /\ \A k \in 1 .. Len(u) : u[k] = s[k]
            /\ \A k \in 1 .. Len(v) : v[k] = t[k + 1]
            /\ m.kind = s[Len(s)].kind /\ m.kind \in {"word", "dotted"}
      BY <1>2, JoinParts
    <2>2. m.kind = "word"
      <3>1. Len(s) \in 1 .. Len(s)
        BY <2>1
      <3>2. CleanMark(s[Len(s)]) \/ s[Len(s)].kind = "punct"
        BY <3>1 DEF Clean, IsPunct
      <3> QED
        BY <2>1, <3>2 DEF CleanMark, IsPunct
    <2>3. Clean(u)
      <3> SUFFICES ASSUME NEW k \in 1 .. Len(u)
                   PROVE  \/ CleanMark(u[k])
                          \/ IsPunct(u[k], {":"}) /\ k > 1 /\ u[k - 1].kind = "word"
        BY DEF Clean
      <3>1. Len(u) \in Nat /\ Len(s) \in Nat /\ Len(u) = Len(s) - 1
        BY <2>1, LenProperties
      <3>2. k \in 1 .. Len(s) /\ (k > 1 => k - 1 \in 1 .. Len(u))
        BY <3>1
      <3>3. u[k] = s[k] /\ (k > 1 => u[k - 1] = s[k - 1])
        BY <2>1, <3>2
      <3> QED
        BY <3>2, <3>3 DEF Clean
    <2> DEFINE x == u \o <<m>>
    <2>4. Append(u, m) = x
      BY AppendIsConcat
    <2>5. Clean(x)
      BY <2>2, <2>3, <2>4, CleanAppend DEF CleanMark
    <2>6. x \in Seq(TextMarks) /\ Len(x) = Len(u) + 1 /\ x[Len(u) + 1] = m
      BY <2>4, AppendProperties
    <2>7. Len(x) >= 1 /\ x[Len(x)].kind = "word"
      BY <2>1, <2>2, <2>6
    <2>8. Join(s, t) = x \o v
      BY <2>1
    <2> HIDE DEF x
    <2>9. ASSUME NEW k \in 1 .. Len(v)
          PROVE  \/ CleanMark(v[k])
                 \/ IsPunct(v[k], {":"}) /\ k > 1 /\ v[k - 1].kind = "word"
                 \/ IsPunct(v[k], {":"}) /\ k = 1
      <3>1. Len(t) \in Nat /\ Len(v) \in Nat /\ Len(v) = Len(t) - 1
        BY <2>1, LenProperties
      <3>2. /\ k + 1 \in 1 .. Len(t) /\ (k + 1) - 1 = k /\ k + 1 > 1
            /\ k > 1 => k - 1 \in 1 .. Len(v) /\ (k - 1) + 1 = k
        BY <3>1
      <3>3. v[k] = t[k + 1] /\ (k > 1 => v[k - 1] = t[k])
        BY <2>1, <3>2
      <3>4. k = 1 \/ k > 1
        BY <3>1
      <3> QED
        BY <3>2, <3>3, <3>4 DEF Clean
    <2>10. Clean(x \o v)
      BY <2>5, <2>6, <2>7, <2>9, ConcatClean
    <2> QED
      BY <2>8, <2>10
  <1> QED
    BY <1>1, <1>2

\* Without defines every token puts itself.
LEMMA ExpandsToItself ==
  ASSUME TablesOK, defines = <<>>, NEW m
  PROVE  ExpandDefines(m) = <<m>>
  <1>1. Len(defines) = 0
    OBVIOUS
  <1>2. \A w : Matches(w) = {}
    BY <1>1 DEF Matches
  <1> QED
    BY <1>2 DEF ExpandDefines, TailsOf

LEMMA PushClean ==
  ASSUME NEW s \in Seq(FrameSet), \A k \in 1 .. Len(s) : FullOrClean(s[k].text),
         NEW f \in FrameSet, FullOrClean(f.text), frames' = Append(s, f)
  PROVE  CleanOK'
  <1>1. /\ Len(s) \in Nat /\ Len(frames') = Len(s) + 1 /\ frames'[Len(s) + 1] = f
        /\ \A k \in 1 .. Len(s) : frames'[k] = s[k]
    BY AppendProperties, LenProperties
  <1>2. ASSUME NEW k \in 1 .. Len(frames') PROVE FullOrClean(frames'[k].text)
    <2>1. k = Len(s) + 1 \/ k \in 1 .. Len(s)
      BY <1>1
    <2> QED
      BY <1>1, <2>1
  <1> QED
    BY <1>2 DEF CleanOK, FullOrClean, Clean, CleanMark, IsPunct

LEMMA CleanBy ==
  ASSUME FramesOK, PlacesOK, phase = "preprocess", Current.tokens # <<>>, CleanOK, defines = <<>>,
         NEW text, Grows(text), NEW fresh \in BOOLEAN, Continue(text, fresh), FullOrClean(text)
  PROVE  CleanOK'
  <1> DEFINE f == [tokens |-> Tail(Current.tokens), text |-> text, fresh |-> fresh]
  <1>1. f \in FrameSet /\ f.text = text
    <2>1. Current.tokens \in Seq(Tokens)
      BY CurrentFrame DEF FrameSet
    <2>2. Tail(Current.tokens) \in Seq(Tokens)
      BY <2>1, HeadTailProperties
    <2> QED
      BY <2>2 DEF FrameSet, Grows
  <1>2. frames' = Append(Callers, f)
    BY DEF Continue
  <1> HIDE DEF f
  <1>3. /\ Callers \in Seq(FrameSet) /\ Len(frames) \in Nat /\ Len(Callers) = Len(frames) - 1
        /\ \A k \in 1 .. (Len(frames) - 1) : Callers[k] = frames[k]
    BY CurrentFrame
  <1>4. \A k \in 1 .. Len(Callers) : FullOrClean(Callers[k].text)
    <2>1. \A k \in 1 .. (Len(frames) - 1) : k \in 1 .. Len(frames)
      BY <1>3
    <2> QED
      BY <1>3, <2>1 DEF CleanOK
  <1> QED
    BY <1>1, <1>2, <1>3, <1>4, PushClean

LEMMA CleanRound ==
  ASSUME FramesOK, PlacesOK, TablesOK, CleanOK, OneRound
  PROVE  CleanOK'
  <1>0. phase = "preprocess" /\ Current.tokens # <<>>
    BY RoundOf DEF Round
  <1> SUFFICES ASSUME defines' = <<>> PROVE CleanOK'
    BY DEF CleanOK
  <1>1. phase = "preprocess" /\ Current.tokens # <<>> /\ defines = <<>>
    <2>1. PpDefine => \E d : defines' = defines \/ defines' = Append(defines, d)
      BY DEF PpDefine
    <2>2. \A d : Append(defines, d) # <<>>
      <3>1. ASSUME NEW d PROVE Append(defines, d) # <<>>
        <4>1. defines \in Seq(DefineSet \cup {d})
          BY SeqMonotonic DEF TablesOK
        <4>2. Len(Append(defines, d)) = Len(defines) + 1 /\ Len(defines) \in Nat
          BY <4>1, AppendProperties, LenProperties
        <4> QED
          BY <4>2
      <3> QED
        BY <3>1
    <2>3. ~PpDefine => defines' = defines
      BY DEF OneRound, PpNoInclude, PpComment, PpNewLine, PpLabel, PpLocal, PpToken, PpError
    <2> QED
      BY <1>0, <2>1, <2>2, <2>3
  <1>2. /\ Current.text \in Seq(TextMarks) /\ Len(Current.text) <= MaxText
        /\ Current.fresh \in BOOLEAN /\ Grows(Current.text) /\ FullOrClean(Current.text)
    <2>1. /\ Current.text \in Seq(TextMarks) /\ Len(Current.text) <= MaxText
          /\ Current.fresh \in BOOLEAN
      BY <1>1, CurrentFrame DEF FrameSet
    <2>2. Len(Current.text) \in Nat
      BY <2>1, LenProperties
    <2>3. Len(frames) \in 1 .. Len(frames)
      BY <1>1, CurrentFrame
    <2>4. FullOrClean(Current.text)
      BY <1>1, <2>3 DEF CleanOK, Current
    <2> QED
      BY <2>1, <2>2, <2>4 DEF Grows
  <1>3. {Space, Colon, NewLine} \subseteq TextMarks
    BY PunctMarks
  <1>4. CASE PpDefine \/ PpNoInclude
    <2>1. Continue(Current.text, TRUE)
      BY <1>4 DEF PpDefine, PpNoInclude
    <2> QED
      BY <1>1, <1>2, <2>1, CleanBy
  <1>5. CASE PpComment
    BY <1>1, <1>2, <1>5, CleanBy DEF PpComment
  <1>6. CASE PpError
    BY <1>1, <1>2, <1>6, CleanBy DEF PpError, ErrorText
  <1>7. CASE PpNewLine
    <2>1. Grows(PutChar(Current.text, NewLine))
      BY <1>2, <1>3, PutCharIn DEF Grows
    <2>2. CleanMark(NewLine)
      BY DEF CleanMark, IsPunct, NewLine, Punct
    <2>3. FullOrClean(PutChar(Current.text, NewLine))
      BY <1>2, <1>3, <2>2, PutCharClean
    <2> QED
      BY <1>1, <1>7, <2>1, <2>3, CleanBy DEF PpNewLine
  <1>8. ASSUME NEW m \in TextMarks, CleanMark(m)
        PROVE  /\ Grows(PutSpaced(Current, <<m>>)) /\ FullOrClean(PutSpaced(Current, <<m>>))
               /\ m.kind = "word" =>
                     /\ Grows(PutChar(PutSpaced(Current, <<m>>), Colon))
                     /\ FullOrClean(PutChar(PutSpaced(Current, <<m>>), Colon))
    <2> DEFINE text == PutSpaced(Current, <<m>>)
    <2>0. <<m>> \in Seq(TextMarks)
      BY <1>8
    <2>1. text \in Seq(TextMarks) /\ Len(text) <= MaxText /\ Len(Current.text) <= Len(text)
      BY <1>2, <1>3, <2>0, PutSpacedIn
    <2>2. /\ FullOrClean(text)
          /\ m.kind = "word" => FullOrClean(PutChar(text, Colon))
      BY <1>2, <1>3, <1>8, PutMarkClean
    <2> HIDE DEF text
    <2>3. /\ PutChar(text, Colon) \in Seq(TextMarks) /\ Len(PutChar(text, Colon)) <= MaxText
          /\ Len(text) <= Len(PutChar(text, Colon))
      BY <1>3, <2>1, PutCharIn
    <2>4. Len(Current.text) \in Nat /\ Len(text) \in Nat /\ Len(PutChar(text, Colon)) \in Nat
      BY <1>2, <2>1, <2>3, LenProperties
    <2>5. Grows(text) /\ Grows(PutChar(text, Colon))
      BY <2>1, <2>3, <2>4 DEF Grows
    <2> QED
      BY <2>2, <2>5 DEF text
  <1>9. CASE PpLabel
    <2>1. Current.tokens[1] \in PlainTokens /\ Current.tokens[1].type = "label"
      BY <1>9, MarkAt DEF PpLabel, PpAt
    <2>2. PpMark \in PlainMarks(TextWords) /\ PpMark.kind = "word"
      BY <2>1, PlainToken DEF PpMark
    <2>3. PpMark \in TextMarks /\ CleanMark(PpMark)
      BY <2>2, PlainAreMarks DEF CleanMark
    <2>4. ExpandDefines(PpMark) = <<PpMark>>
      BY <1>1, ExpandsToItself
    <2>5. Continue(PutChar(PutSpaced(Current, <<PpMark>>), Colon), FALSE)
      BY <1>9, <2>4 DEF PpLabel
    <2>6. /\ Grows(PutChar(PutSpaced(Current, <<PpMark>>), Colon))
          /\ FullOrClean(PutChar(PutSpaced(Current, <<PpMark>>), Colon))
      BY <1>8, <2>2, <2>3
    <2> QED
      BY <1>1, <2>5, <2>6, CleanBy
  <1>10. ASSUME NEW type, PpLocal(type) PROVE CleanOK'
    <2> DEFINE m == Word(GlobalName(PpMark.text))
    <2>1. m \in TextMarks /\ m.kind = "word" /\ CleanMark(m)
      BY GlobalNameIn DEF TextMarks, Marks, PlainMarks, Word, CleanMark
    <2>2. \/ Continue(PutChar(PutSpaced(Current, <<m>>), Colon), FALSE)
          \/ Continue(PutSpaced(Current, <<m>>), FALSE)
      BY <1>10 DEF PpLocal
    <2> HIDE DEF m
    <2>3. /\ Grows(PutSpaced(Current, <<m>>)) /\ FullOrClean(PutSpaced(Current, <<m>>))
          /\ Grows(PutChar(PutSpaced(Current, <<m>>), Colon))
          /\ FullOrClean(PutChar(PutSpaced(Current, <<m>>), Colon))
      BY <1>8, <2>1
    <2> QED
      BY <1>1, <2>2, <2>3, CleanBy
  <1>11. CASE PpToken
    <2>0. PICK type \in {"identifier", "number", "string", "comma", "paren"} : PpAt(type)
      BY <1>11 DEF PpToken
    <2>1. /\ Current.tokens[1] \in PlainTokens
          /\ Current.tokens[1].type \in {"identifier", "number", "string", "comma", "paren"}
      <3>1. PpAt(type) /\ type # "directive" /\ Current.tokens[1].type = type
        BY <2>0 DEF PpAt
      <3> HIDE DEF PpAt
      <3>2. Current.tokens[1] \in PlainTokens
        BY <3>1, MarkAt
      <3> QED
        BY <3>1, <3>2
    <2>2. PpMark \in PlainMarks(TextWords) /\ PpMark.kind # "dotted"
      BY <1>11, <2>1, PlainToken DEF PpMark, PpToken
    <2>3. CleanMark(PpMark)
      BY <2>1, <2>2, PlainToken DEF PpMark, CleanMark, IsPunct
    <2>4. PpMark \in TextMarks
      BY <2>2, PlainAreMarks
    <2>5. ExpandDefines(PpMark) = <<PpMark>>
      BY <1>1, ExpandsToItself
    <2>6. Continue(PutSpaced(Current, <<PpMark>>), FALSE)
      BY <1>11, <2>5 DEF PpToken
    <2>7. Grows(PutSpaced(Current, <<PpMark>>)) /\ FullOrClean(PutSpaced(Current, <<PpMark>>))
      BY <1>8, <2>3, <2>4
    <2> QED
      BY <1>1, <2>6, <2>7, CleanBy
  <1> QED
    BY <1>4, <1>5, <1>6, <1>7, <1>9, <1>10, <1>11 DEF OneRound

LEMMA CleanInclude ==
  ASSUME FramesOK, PlacesOK, TablesOK, CleanOK, PpInclude
  PROVE  CleanOK'
  <1> SUFFICES ASSUME defines' = <<>> PROVE CleanOK'
    BY DEF CleanOK
  <1>1. phase = "preprocess" /\ defines = <<>> /\ PpMark.file \in DOMAIN project
    BY DEF PpInclude, PpAt
  <1> DEFINE f == Frame(project[PpMark.file])
  <1>2. f \in FrameSet /\ FullOrClean(f.text)
    <2>1. Tokenize(project[PpMark.file]) \in Seq(Tokens)
      BY <1>1, FilesMarks, TextTokens DEF PlacesOK
    <2>2. <<>> \in Seq(TextMarks) /\ Len(<<>>) = 0
      OBVIOUS
    <2> QED
      BY <2>1, <2>2 DEF Frame, FrameSet, FullOrClean, Clean
  <1>3. frames' = Append(frames, f) /\ frames \in Seq(FrameSet)
    BY DEF PpInclude, FramesOK
  <1> HIDE DEF f
  <1> QED
    BY <1>1, <1>2, <1>3, PushClean DEF CleanOK

LEMMA CleanReturn ==
  ASSUME FramesOK, PlacesOK, TablesOK, CleanOK, PpReturn
  PROVE  CleanOK'
  <1> SUFFICES ASSUME defines' = <<>> PROVE CleanOK'
    BY DEF CleanOK
  <1> DEFINE n == Len(frames)
             caller == frames[n - 1]
             a == caller.text
             b == Current.text
             text == IF Len(a) + Len(b) < MaxText THEN Join(a, b) ELSE a
             f == [tokens |-> Tail(caller.tokens), text |-> text, fresh |-> TRUE]
             s == SubSeq(frames, 1, n - 2)
  <1>1. phase = "preprocess" /\ defines = <<>> /\ n > 1 /\ frames' = Append(s, f)
    BY DEF PpReturn, PpUnchanged
  <1>2. n \in Nat /\ frames \in Seq(FrameSet) /\ n - 1 \in 1 .. n /\ n \in 1 .. n
        /\ n - 1 \in 1 .. (n - 1)
    BY <1>1, CurrentFrame DEF FramesOK
  <1>3. caller \in FrameSet /\ caller.tokens # <<>> /\ Current \in FrameSet
        /\ FullOrClean(a) /\ FullOrClean(b)
    <2>1. frames[n - 1] \in FrameSet /\ frames[n] \in FrameSet
      BY <1>2, ElementOfSeq
    <2> QED
      BY <1>1, <1>2, <2>1 DEF FramesOK, CleanOK, Current
  <1>4. a \in Seq(TextMarks) /\ b \in Seq(TextMarks) /\ Tail(caller.tokens) \in Seq(Tokens)
    <2>1. caller.tokens \in Seq(Tokens) /\ a \in Seq(TextMarks) /\ b \in Seq(TextMarks)
      BY <1>3 DEF FrameSet
    <2> HIDE DEF caller
    <2> QED
      BY <1>3, <2>1, HeadTailProperties
  <1>5. text \in Seq(TextMarks) /\ FullOrClean(text)
    <2> HIDE DEF a, b
    <2>1. /\ Len(a) \in Nat /\ Len(b) \in Nat /\ MaxText \in Nat /\ Join(a, b) \in Seq(TextMarks)
      BY <1>4, JoinIn, AsmAssumption
    <2>2. CASE Len(a) + Len(b) < MaxText
      <3>1. Clean(a) /\ Clean(b)
        BY <1>3, <2>1, <2>2 DEF FullOrClean
      <3>2. Clean(Join(a, b))
        BY <1>4, <3>1, JoinClean
      <3> QED
        BY <2>1, <2>2, <3>2 DEF FullOrClean
    <2>3. CASE ~(Len(a) + Len(b) < MaxText)
      BY <1>3, <1>4, <2>3
    <2> QED
      BY <2>2, <2>3
  <1>6. f \in FrameSet /\ f.text = text
    <2> HIDE DEF text, caller
    <2> QED
      BY <1>4, <1>5 DEF FrameSet
  <1>7. s \in Seq(FrameSet) /\ Len(s) = n - 2 /\ \A k \in 1 .. (n - 2) : s[k] = frames[k]
    <2> DEFINE q == frames
               m == n - 2
    <2>1. q \in Seq(FrameSet) /\ m \in 0 .. Len(q) /\ s = SubSeq(q, 1, m)
      BY <1>1, <1>2
    <2> HIDE DEF q, m, s
    <2>2. Len(q) \in Nat
      BY <2>1, LenProperties
    <2>3. /\ SubSeq(q, 1, m) \in Seq(FrameSet) /\ Len(SubSeq(q, 1, m)) = m
          /\ \A k \in 1 .. m : SubSeq(q, 1, m)[k] = q[k]
      BY <2>1, <2>2, SubSeqProperties
    <2> QED
      BY <2>1, <2>3 DEF q, m
  <1>8. \A k \in 1 .. Len(s) : FullOrClean(s[k].text)
    <2>1. \A k \in 1 .. (n - 2) : k \in 1 .. n
      BY <1>2
    <2> HIDE DEF s
    <2> QED
      BY <1>1, <1>7, <2>1 DEF CleanOK
  <1> HIDE DEF f, s, text
  <1> QED
    BY <1>1, <1>5, <1>6, <1>7, <1>8, PushClean

\* The tokens the parser has left: no error among them without defines.
StreamTokens == {t \in Tokens : defines = <<>> /\ ~filled => t.type # "error"}
StreamOK == /\ phase = "preprocess" => stream = <<>>
            /\ stream \in Seq(StreamTokens)
            /\ CleanOK

LEMMA ParseBeginsClean ==
  ASSUME FramesOK, PlacesOK, TablesOK, StreamOK, PpDone, phase' # "preprocess"
  PROVE  /\ stream' \in Seq(StreamTokens)' /\ CleanOK' /\ Len(stream') <= MaxText
         /\ phase' = "parse"
  <1>1. /\ phase = "preprocess" /\ phase' = "parse" /\ defines' = defines /\ Len(frames) = 1
        /\ stream' = Tokenize(Current.text) /\ filled' = (Len(Current.text) = MaxText)
    BY DEF PpDone
  <1>2. Current.text \in Seq(TextMarks) /\ Len(Current.text) <= MaxText
    BY <1>1, CurrentFrame DEF FrameSet
  <1>3. stream' \in Seq(Tokens) /\ Len(stream') <= Len(Current.text)
    BY <1>1, <1>2, TextTokens
  <1>4. Len(stream') <= MaxText
    <2>1. Len(stream') \in Nat /\ Len(Current.text) \in Nat /\ MaxText \in Nat
      BY <1>2, <1>3, LenProperties, AsmAssumption
    <2> QED
      BY <1>2, <1>3, <2>1
  <1>5. defines = <<>> /\ ~filled' => Clean(Current.text)
    <2>1. 1 \in 1 .. Len(frames) /\ Current = frames[1]
      BY <1>1 DEF Current
    <2> QED
      BY <1>1, <2>1 DEF StreamOK, CleanOK, FullOrClean
  <1>6. StreamTokens' = {t \in Tokens : defines = <<>> /\ ~filled' => t.type # "error"}
    BY <1>1 DEF StreamTokens
  <1>7. stream' \in Seq(StreamTokens')
    <2>1. CASE defines = <<>> /\ ~filled'
      <3>1. stream' \in Seq({t \in Tokens : t.type # "error"})
        BY <1>1, <1>2, <1>5, <2>1, CleanTextTokens
      <3>2. {t \in Tokens : t.type # "error"} \subseteq StreamTokens'
        BY <1>6
      <3> QED
        BY <3>1, <3>2, SeqMonotonic
    <2>2. CASE ~(defines = <<>> /\ ~filled')
      <3>1. Tokens \subseteq StreamTokens'
        BY <1>6, <2>2
      <3> QED
        BY <1>3, <3>1, SeqMonotonic
    <2> QED
      BY <2>1, <2>2
  <1>8. CleanOK'
    BY <1>1 DEF CleanOK
  <1> QED
    BY <1>1, <1>4, <1>7, <1>8

\* An instruction's operands end somewhere behind it.
LEMMA OperandsEndIn ==
  ASSUME NEW S, stream \in Seq(S), stream # <<>>
  PROVE  /\ OperandsEnd \in 2 .. (Len(stream) + 1)
         /\ \A j \in 2 .. (OperandsEnd - 1) : stream[j].type \notin {"newline", "comment"}
  <1>1. Len(stream) \in Nat /\ Len(stream) >= 1
    BY LenProperties, EmptySeq
  <1> DEFINE E == {k \in 2 .. (Len(stream) + 1) :
                      k = Len(stream) + 1 \/ stream[k].type \in {"newline", "comment"}}
  <1>2. E \in SUBSET Nat /\ Len(stream) + 1 \in E
    BY <1>1
  <1>3. PICK k \in E : \A j \in Nat : j < k => j \notin E
    <2> HIDE DEF E
    <2> QED
      BY <1>2, LeastIn
  <1>4. \A j \in 2 .. (k - 1) : stream[j].type \notin {"newline", "comment"}
    <2> SUFFICES ASSUME NEW j \in 2 .. (k - 1) PROVE j \notin E
      BY <1>1, <1>3
    <2> QED
      BY <1>1, <1>3
  <1> QED
    BY <1>3, <1>4 DEF OperandsEnd

\* They are the tokens between, but for the commas.
OperandTypes == {"label", "local label", "identifier", "number", "string", "paren", "error",
                 "directive"}
LEMMA OperandTokensIn ==
  ASSUME StreamOK, stream # <<>>
  PROVE  OperandTokens \in Seq({t \in StreamTokens : t.type \in OperandTypes})
  <1> DEFINE F == {t \in StreamTokens : t.type \in OperandTypes}
             n == OperandsEnd - 2
             ss == [k \in 1 .. n |->
                     IF stream[k + 1].type = "comma" THEN <<>> ELSE <<stream[k + 1]>>]
  <1>1. /\ stream \in Seq(StreamTokens) /\ OperandsEnd \in 2 .. (Len(stream) + 1)
        /\ \A j \in 2 .. (OperandsEnd - 1) : stream[j].type \notin {"newline", "comment"}
    BY OperandsEndIn DEF StreamOK
  <1>2. Len(stream) \in Nat /\ n \in Nat
    BY <1>1, LenProperties
  <1>3. ASSUME NEW k \in 1 .. n PROVE ss[k] \in Seq(F)
    <2>1. k + 1 \in 1 .. Len(stream) /\ k + 1 \in 2 .. (OperandsEnd - 1)
      BY <1>1, <1>2
    <2> DEFINE t == stream[k + 1]
    <2>2. t \in StreamTokens /\ t.type \notin {"newline", "comment"}
      BY <1>1, <2>1, ElementOfSeq
    <2>3. ss[k] = IF t.type = "comma" THEN <<>> ELSE <<t>>
      OBVIOUS
    <2> HIDE DEF t, ss, n
    <2>4. t \in Tokens
      BY <2>2 DEF StreamTokens
    <2>5. t.type \in OperandTypes \cup {"newline", "comment", "comma"}
      BY <2>4, PlainToken, DirectiveToken DEF OperandTypes
    <2>6. t.type # "comma" => t \in F
      BY <2>2, <2>5
    <2> HIDE DEF F
    <2>7. <<>> \in Seq(F)
      OBVIOUS
    <2>8. t.type # "comma" => <<t>> \in Seq(F)
      BY <2>6
    <2> QED
      BY <2>3, <2>7, <2>8
  <1>4. ss \in Seq(Seq(F))
    <2>1. ss \in [1 .. n -> Seq(F)]
      <3> HIDE DEF F, n
      <3> QED
        BY <1>3
    <2> HIDE DEF F, n, ss
    <2> QED
      BY <1>2, <2>1
  <1>5. OperandTokens = Flat(ss)
    BY DEF OperandTokens, SE!FlattenSeq, Flat
  <1>6. Flat(ss) \in Seq(F)
    <2> HIDE DEF ss, F
    <2>1. <<>> \in Seq(F) /\ \A s, t \in Seq(F) : s \o t \in Seq(F)
      BY ConcatProperties
    <2> QED
      BY <1>4, <2>1, FlatIn
  <1> QED
    BY <1>5, <1>6

\* Without defines no operand is without a value.
LEMMA NoNullValue ==
  ASSUME StreamOK, stream # <<>>, defines = <<>>, ~filled
  PROVE  ~HasNullValue
  <1>1. OperandTokens \in Seq({t \in StreamTokens : t.type \in OperandTypes})
    BY OperandTokensIn
  <1>2. ASSUME NEW k \in 1 .. Len(OperandTokens) PROVE OperandTokens[k].type # "error"
    <2>1. OperandTokens[k] \in {t \in StreamTokens : t.type \in OperandTypes}
      BY <1>1, ElementOfSeq
    <2> HIDE DEF OperandTokens
    <2> QED
      BY <2>1 DEF StreamTokens
  <1> QED
    BY <1>2 DEF HasNullValue

ParsedOperands ==
    [kind : {"lit"}, word : LitWords, whole : Ints] \cup [kind : {"reg"}, reg : Registers]
      \cup [kind : {"name"}, name : TextWords \cup {"(", ")", "#define", "#include"}]

LEMMA IntWordIn ==
  ASSUME NEW v \in Int
  PROVE  IntWord(v) \in LitWords /\ IntWord(v).type = "int" /\ IntWord(v).val \in Ints
  <1>1. Wrap(v) \in Ints
    BY WidthAssumption DEF Wrap, Ints
  <1> QED
    BY <1>1 DEF IntWord, LitWords, Words, WordTypes, ValuesOf, NullStr, Ints

LEMMA OperandOfIn ==
  ASSUME NEW t \in Tokens, t.type \in OperandTypes, t.type # "error"
  PROVE  OperandOf(t.mark) \in ParsedOperands
  <1> DEFINE m == t.mark
  <1>0. CASE t.type = "directive"
    <2>1. m \in DirectiveMarks
      BY <1>0, DirectiveToken
    <2> HIDE DEF m
    <2>2. m.kind = "define" \/ m.kind = "include"
      BY <2>1 DEF DirectiveMarks
    <2>3. OperandOf(m) \in {Name("#define"), Name("#include")}
      BY <2>2 DEF OperandOf
    <2> QED
      BY <2>3 DEF m, Name, ParsedOperands
  <1> SUFFICES ASSUME t.type # "directive" PROVE OperandOf(t.mark) \in ParsedOperands
    BY <1>0
  <1>1. /\ m \in PlainMarks(TextWords)
        /\ m.kind \in {"word", "dotted", "number", "string"} \/ IsPunct(m, {"(", ")"})
    BY PlainToken, DirectiveToken DEF OperandTypes
  <1> HIDE DEF m
  <1>2. CASE m.kind = "number"
    <2>1. m.val \in Int /\ OperandOf(m) = Lit(IntWord(m.val))
      <3>0. m.val \in Nat
        BY <1>1, <1>2 DEF PlainMarks
      <3>1. m.val \in Int
        BY <3>0
      <3> QED
        BY <1>2, <3>1 DEF OperandOf
    <2> QED
      BY <2>1, IntWordIn DEF m, Lit, FloatLit, ParsedOperands
  <1>3. CASE m.kind = "string"
    <2>1. m.word \in LitWords /\ OperandOf(m) = Lit(m.word)
      <3>1. m.word \in LitWords
        BY <1>1, <1>3 DEF PlainMarks
      <3> QED
        BY <1>3, <3>1 DEF OperandOf
    <2>2. (IF m.word.type = "int" THEN m.word.val ELSE 0) \in Ints
      BY <2>1, WidthAssumption DEF LitWords, Words, ValuesOf, Ints
    <2> QED
      BY <2>1, <2>2 DEF m, Lit, FloatLit, ParsedOperands
  <1>4. CASE IsPunct(m, {"(", ")"})
    BY <1>1, <1>4 DEF m, IsPunct, OperandOf, Name, ParsedOperands
  <1>5. CASE m.kind \in {"word", "dotted"}
    <2>1. m.text \in TextWords
      BY <1>1, <1>5 DEF PlainMarks
    <2>2. OperandOf(m) \in {Reg(m.text), Name(m.text)}
          /\ (OperandOf(m) = Reg(m.text) => m.text \in Registers \/ Reg(m.text) = Name(m.text))
      BY <1>5 DEF OperandOf
    <2>3. Reg(m.text) # Name(m.text)
      BY DEF Reg, Name
    <2> QED
      BY <2>1, <2>2, <2>3 DEF m, Reg, Name, ParsedOperands
  <1> QED
    BY <1>1, <1>2, <1>3, <1>4, <1>5 DEF m

LEMMA ParseTakes ==
  ASSUME StreamOK, Parse
  PROVE  /\ stream' \in Seq(StreamTokens)
         /\ Len(stream') \in Nat /\ Len(stream) \in Nat /\ Len(stream') <= Len(stream)
         /\ ParseLabel \/ ParseInstruction => Len(stream') + 1 <= Len(stream)
  <1>1. stream \in Seq(StreamTokens) /\ Len(stream) \in Nat
    BY LenProperties DEF StreamOK
  <1>2. CASE stream' = stream /\ ~ParseLabel /\ ~ParseInstruction
    BY <1>1, <1>2
  <1>3. CASE stream # <<>> /\ stream' = Tail(stream) /\ ~ParseInstruction
    <2>1. Tail(stream) \in Seq(StreamTokens) /\ Len(Tail(stream)) = Len(stream) - 1
      BY <1>1, <1>3, HeadTailProperties
    <2>2. Len(Tail(stream)) \in Nat
      BY <2>1, LenProperties
    <2> QED
      BY <1>1, <1>3, <2>1, <2>2
  <1>4. CASE ParseInstruction
    <2> DEFINE n == OperandsEnd
               q == stream
               l == Len(stream)
    <2>1. stream' = SubSeq(q, n, l) /\ stream # <<>>
      BY <1>4 DEF ParseInstruction, ParseAt
    <2>2. n \in 2 .. (l + 1)
      BY <1>1, <2>1, OperandsEndIn
    <2>3. \A i \in n .. l : q[i] \in StreamTokens
      BY <1>1, <2>2, ElementOfSeq
    <2>4. l \in Nat
      BY <1>1
    <2> HIDE DEF n, q, l
    <2>5. /\ SubSeq(q, n, l) \in Seq(StreamTokens)
          /\ Len(SubSeq(q, n, l)) = IF n <= l THEN l - n + 1 ELSE 0
      BY <2>2, <2>3, <2>4, SubSeqProperties
    <2>6. Len(stream') \in Nat /\ Len(stream') + 1 <= l
      BY <2>1, <2>2, <2>4, <2>5
    <2> QED
      BY <2>1, <2>4, <2>5, <2>6 DEF l
  <1>5. CASE ParseLabel
    BY <1>3, <1>4, <1>5 DEF ParseLabel, ParseAt
  <1>6. ParseSkip => stream # <<>> /\ stream' = Tail(stream)
    BY DEF ParseSkip, ParseAt, Skipped
  <1>7. ParseNullOperand \/ ParseRefuse \/ ParseDone => stream' = stream
    BY DEF ParseNullOperand, ParseRefuse, ParseDone
  <1> QED
    BY <1>2, <1>3, <1>4, <1>5, <1>6, <1>7 DEF Parse

LEMMA StreamStays ==
  ASSUME UNCHANGED <<defines, filled>>
  PROVE  StreamTokens' = StreamTokens
  BY DEF StreamTokens

LEMMA StreamStep ==
  ASSUME AsmInv, StreamOK, NullOperandsAreDefined, [AsmNext]_asmVars
  PROVE  StreamOK' /\ NullOperandsAreDefined'
  <1>0. FramesOK /\ PlacesOK /\ TablesOK
    BY DEF AsmInv
  <1>1. CASE OneRound \/ PpInclude \/ PpReturn
    <2>1. phase = "preprocess" /\ UNCHANGED <<phase, stream, filled>>
      BY <1>0, <1>1, RoundOf DEF Round, PpInclude, PpReturn, PpUnchanged, PpAt
    <2>2. CleanOK'
      BY <1>0, <1>1, CleanRound, CleanInclude, CleanReturn DEF StreamOK
    <2>3. stream' = <<>> /\ <<>> \in Seq(StreamTokens')
      BY <2>1 DEF StreamOK
    <2> QED
      BY <2>1, <2>2, <2>3 DEF StreamOK, NullOperandsAreDefined
  <1>3. CASE PpDone /\ phase' = "preprocess"
    <2>1. /\ phase = "preprocess" /\ pass' = pass + 1 /\ pass < passes
          /\ UNCHANGED <<passes, stream, filled>>
          /\ frames' = <<Frame(Current.text)>>
      BY <1>3 DEF PpDone
    <2>2. stream' = <<>> /\ stream' \in Seq(StreamTokens')
      BY <2>1 DEF StreamOK
    <2>3. CleanOK'
      <3>1. Len(frames') = 1 /\ frames'[1].text = <<>> /\ Len(<<>>) = 0
        BY <2>1 DEF Frame
      <3>2. \A k \in 1 .. Len(frames') : frames'[k].text = <<>>
        BY <3>1
      <3> QED
        BY <3>1, <3>2 DEF CleanOK, FullOrClean, Clean
    <2> QED
      BY <1>3, <2>2, <2>3 DEF StreamOK, NullOperandsAreDefined
  <1>4. CASE PpDone /\ phase' # "preprocess"
    BY <1>0, <1>4, ParseBeginsClean DEF StreamOK, NullOperandsAreDefined
  <1>5. CASE Parse
    <2>1. /\ phase = "parse" /\ phase' \in {"parse", "accepted", "refused", "crashed"}
          /\ UNCHANGED <<defines, filled>>
      BY <1>0, <1>5, ParseStays DEF preprocessor
    <2>2. StreamOK'
      BY <1>0, <1>5, <2>1, ParseTakes, StreamStays DEF StreamOK, CleanOK
    <2>3. ParseNullOperand => HasNullValue /\ stream # <<>>
      BY DEF ParseNullOperand, ParseAt
    <2>4. phase' = "crashed" => ParseNullOperand
      BY <1>5, <2>1 DEF Parse, ParseLabel, ParseRefuse, ParseInstruction, ParseSkip, ParseDone
    <2>5. NullOperandsAreDefined'
      <3>1. phase' = "crashed" => defines # <<>> \/ filled
        BY <2>3, <2>4, NoNullValue
      <3> QED
        BY <2>1, <3>1 DEF NullOperandsAreDefined
    <2> QED
      BY <2>2, <2>5
  <1>6. CASE UNCHANGED asmVars
    <2>1. UNCHANGED <<phase, frames, defines, stream, filled>>
      BY <1>6 DEF asmVars, preprocessor
    <2>2. CleanOK'
      BY <2>1 DEF StreamOK, CleanOK, FullOrClean
    <2> QED
      BY <1>0, <2>1, <2>2, StreamStays DEF StreamOK, NullOperandsAreDefined
  <1> QED
    BY <1>1, <1>3, <1>4, <1>5, <1>6 DEF AsmNext, Preprocess, OneRound

LEMMA StreamInit == AsmInit => StreamOK /\ NullOperandsAreDefined
  <1> SUFFICES ASSUME AsmInit PROVE StreamOK /\ NullOperandsAreDefined
    OBVIOUS
  <1>1. stream = <<>> /\ pass = 1 /\ phase \in {"preprocess", "refused"}
    BY DEF AsmInit
  <1>2. phase = "preprocess" => \A k \in 1 .. Len(frames) : frames[k].text = <<>>
    BY DEF AsmInit, Frame
  <1>3. Clean(<<>>)
    BY DEF Clean
  <1> QED
    BY <1>1, <1>2, <1>3 DEF StreamOK, CleanOK, FullOrClean, NullOperandsAreDefined

\* Of every file, by any number of passes: no operand is NULL when
\* parse_operands duplicates it, unless the last preprocessing has met a define
\* or its text fills its buffer to the last character.
THEOREM NullOperandsNeedDefines == AsmSpec => []NullOperandsAreDefined
  <1>1. AsmInit => AsmInv /\ StreamOK /\ NullOperandsAreDefined
    BY AsmInitInv, StreamInit
  <1>2. /\ AsmInv /\ StreamOK /\ NullOperandsAreDefined /\ [AsmNext]_asmVars
        => (AsmInv /\ StreamOK /\ NullOperandsAreDefined)'
    BY AsmStep, StreamStep
  <1> QED
    BY <1>1, <1>2, PTL DEF AsmSpec

----------------------------------------------------------------------------
(* The program the parser makes.                                           *)

ParsedInstr(i) == i \in [op : Ops, args : Seq(ParsedOperands)] /\ ArgCountOK(i.op, Len(i.args))
CodeOK == /\ code \in Seq([op : Ops, args : Seq(ParsedOperands)])
          /\ \A k \in 1 .. Len(code) : ParsedInstr(code[k])
          /\ labels \in Seq([name : TextWords, address : Nat])
          /\ LabelsMarkNops
          /\ phase = "accepted" => ip = EntryOf(labels)

\* Every instruction and every label costs a token at least, every token a mark.
RoomOK == IF phase = "preprocess" THEN code = <<>> /\ labels = <<>>
                                  ELSE Len(code) + Len(stream) <= MaxText

LEMMA FirstOf ==
  ASSUME NEW S, NEW s \in Seq(S), s # <<>>
  PROVE  s[1] \in S
  <1>1. Len(s) \in Nat /\ Len(s) >= 1
    BY LenProperties, EmptySeq
  <1> QED
    BY <1>1, ElementOfSeq

LEMMA SeqOf ==
  ASSUME NEW S, NEW s, Len(s) \in Nat, s = [k \in 1 .. Len(s) |-> s[k]],
         \A k \in 1 .. Len(s) : s[k] \in S
  PROVE  s \in Seq(S)
  <1> DEFINE n == Len(s)
  <1>1. n \in Nat /\ s \in [1 .. n -> S]
    OBVIOUS
  <1> HIDE DEF n
  <1> QED
    BY <1>1

LEMMA CodeGrows ==
  ASSUME CodeOK, NEW i, ParsedInstr(i), code' = Append(code, i)
  PROVE  /\ code' \in Seq([op : Ops, args : Seq(ParsedOperands)])
         /\ Len(code) \in Nat /\ Len(code') = Len(code) + 1
         /\ code'[Len(code) + 1] = i
         /\ \A k \in 1 .. Len(code) : code'[k] = code[k]
         /\ \A k \in 1 .. Len(code') : ParsedInstr(code'[k])
  <1>1. Len(code) \in Nat
    BY LenProperties DEF CodeOK
  <1>2. /\ code' \in Seq([op : Ops, args : Seq(ParsedOperands)])
        /\ Len(code') = Len(code) + 1 /\ code'[Len(code) + 1] = i
        /\ \A k \in 1 .. Len(code) : code'[k] = code[k]
    BY AppendProperties DEF CodeOK, ParsedInstr
  <1>3. ASSUME NEW k \in 1 .. Len(code') PROVE ParsedInstr(code'[k])
    <2>1. k = Len(code) + 1 \/ k \in 1 .. Len(code)
      BY <1>1, <1>2
    <2> QED
      BY <1>2, <2>1 DEF CodeOK
  <1> QED
    BY <1>1, <1>2, <1>3

\* Labels stay where they were: their nops are never moved.
LEMMA NopsStay ==
  ASSUME CodeOK, NEW i, ParsedInstr(i), code' = Append(code, i), NEW k \in 1 .. Len(labels)
  PROVE  /\ labels[k].address \in Nat /\ labels[k].address < Len(code)
         /\ labels[k].address < Len(code')
         /\ code'[labels[k].address + 1] = [op |-> "nop", args |-> <<>>]
         /\ \A j \in 1 .. (k - 1) : labels[j].address < labels[k].address
  <1> DEFINE a == labels[k].address
  <1>1. a \in Nat
    <2>1. labels \in Seq([name : TextWords, address : Nat])
      BY DEF CodeOK
    <2>2. labels[k] \in [name : TextWords, address : Nat]
      BY <2>1, ElementOfSeq
    <2> QED
      BY <2>2
  <1>2. /\ a < Len(code) /\ code[a + 1] = [op |-> "nop", args |-> <<>>]
        /\ \A j \in 1 .. (k - 1) : labels[j].address < a
    BY DEF CodeOK, LabelsMarkNops
  <1> HIDE DEF a
  <1>3. /\ Len(code) \in Nat /\ Len(code') = Len(code) + 1
        /\ \A j \in 1 .. Len(code) : code'[j] = code[j]
    BY CodeGrows
  <1>4. a + 1 \in 1 .. Len(code) /\ a < Len(code')
    BY <1>1, <1>2, <1>3
  <1> QED
    BY <1>1, <1>2, <1>3, <1>4 DEF a

LEMMA LabelAdds ==
  ASSUME PlacesOK, StreamOK, CodeOK, ParseLabel
  PROVE  CodeOK' /\ Len(code') = Len(code) + 1
  <1> DEFINE nop == [op |-> "nop", args |-> <<>>]
             m == [name |-> stream[1].mark.text, address |-> Len(code)]
             n == Len(labels)
  <1>1. /\ labels' = Append(labels, m) /\ code' = Append(code, nop)
        /\ phase' = "parse" /\ pass' = pass
    BY DEF ParseLabel, AddLabel, Add, ParseAt, ParseUnchanged
  <1>2. ParsedInstr(nop)
    BY DEF ParsedInstr, ArgCountOK, Ops, ZeroArgs, OneArg, TwoArgs, UpToTwo, OneOrMore
  <1>3. /\ code' \in Seq([op : Ops, args : Seq(ParsedOperands)])
        /\ Len(code) \in Nat /\ Len(code') = Len(code) + 1
        /\ code'[Len(code) + 1] = nop
        /\ \A k \in 1 .. Len(code') : ParsedInstr(code'[k])
    BY <1>1, <1>2, CodeGrows
  <1>4. m.name \in TextWords /\ m.address = Len(code)
    <2>1. stream # <<>> /\ stream[1].type \in {"label", "local label"}
      BY DEF ParseLabel, ParseAt
    <2>2. stream[1] \in StreamTokens
      <3>1. stream \in Seq(StreamTokens)
        BY DEF StreamOK
      <3> QED
        BY <2>1, <3>1, FirstOf
    <2>3. stream[1] \in PlainTokens
      BY <2>1, <2>2, DirectiveToken DEF StreamTokens
    <2>4. stream[1].mark \in PlainMarks(TextWords) /\ stream[1].mark.kind \in {"word", "dotted"}
      BY <2>1, <2>3, PlainToken
    <2> QED
      BY <2>4 DEF PlainMarks
  <1>5. m \in [name : TextWords, address : Nat]
    BY <1>3, <1>4
  <1> HIDE DEF m, nop
  <1>6. /\ labels' \in Seq([name : TextWords, address : Nat]) /\ n \in Nat
        /\ Len(labels') = n + 1 /\ labels'[n + 1] = m
        /\ \A k \in 1 .. n : labels'[k] = labels[k]
    BY <1>1, <1>5, AppendProperties, LenProperties DEF CodeOK
  <1>7. ASSUME NEW k \in 1 .. (n + 1)
        PROVE  /\ labels'[k].address < Len(code')
               /\ code'[labels'[k].address + 1] = nop
               /\ \A j \in 1 .. (k - 1) : labels'[j].address < labels'[k].address
    <2>1. \A j \in 1 .. (k - 1) : j \in 1 .. n
      BY <1>6
    <2>2. CASE k \in 1 .. n
      <3>1. labels'[k] = labels[k] /\ \A j \in 1 .. (k - 1) : labels'[j] = labels[j]
        BY <1>6, <2>1, <2>2
      <3> QED
        BY <1>1, <1>2, <2>2, <3>1, NopsStay DEF nop
    <2>3. CASE k = n + 1
      <3>1. labels'[k].address = Len(code) /\ \A j \in 1 .. (k - 1) : labels'[j] = labels[j]
        BY <1>4, <1>6, <2>1, <2>3
      <3>2. \A j \in 1 .. (k - 1) : labels[j].address < Len(code)
        BY <1>1, <1>2, <2>1, NopsStay
      <3> QED
        BY <1>3, <3>1, <3>2
    <2> QED
      BY <1>6, <2>2, <2>3
  <1>8. LabelsMarkNops'
    BY <1>6, <1>7 DEF LabelsMarkNops, nop
  <1> QED
    BY <1>1, <1>3, <1>6, <1>8 DEF CodeOK, ParsedInstr, ParsedOperands

LEMMA InstructionAdds ==
  ASSUME PlacesOK, StreamOK, CodeOK, ParseInstruction
  PROVE  CodeOK' /\ Len(code') = Len(code) + 1
  <1> DEFINE i == [op |-> ParsedOp, args |-> ParsedArgs]
  <1>1. /\ code' = Append(code, i) /\ labels' = labels /\ phase' = "parse" /\ pass' = pass
        /\ stream # <<>> /\ ParsedOp \in Ops /\ ~HasNullValue
        /\ ArgCountOK(ParsedOp, Len(OperandTokens))
    BY DEF ParseInstruction, Add, ParseAt, ParseUnchanged
  <1>2. OperandTokens \in Seq({t \in StreamTokens : t.type \in OperandTypes})
    BY <1>1, OperandTokensIn
  <1>3. Len(OperandTokens) \in Nat
    BY <1>2, LenProperties
  <1>4. ASSUME NEW k \in 1 .. Len(OperandTokens)
        PROVE  OperandOf(OperandTokens[k].mark) \in ParsedOperands
    <2> DEFINE t == OperandTokens[k]
    <2>1. t \in {u \in StreamTokens : u.type \in OperandTypes}
      BY <1>2, ElementOfSeq
    <2>2. t.type # "error"
      BY <1>1 DEF HasNullValue
    <2> HIDE DEF t
    <2>3. OperandOf(t.mark) \in ParsedOperands
      BY <2>1, <2>2, OperandOfIn DEF StreamTokens
    <2> QED
      BY <2>3 DEF t
  <1>5. ParsedArgs \in Seq(ParsedOperands) /\ Len(ParsedArgs) = Len(OperandTokens)
    <2>1. ParsedArgs \in [1 .. Len(OperandTokens) -> ParsedOperands]
      BY <1>4 DEF ParsedArgs
    <2> HIDE DEF OperandTokens
    <2> QED
      BY <1>3, <2>1
  <1>6. ParsedInstr(i)
    <2>1. i.op = ParsedOp /\ i.args = ParsedArgs
      OBVIOUS
    <2>2. i \in [op : Ops, args : Seq(ParsedOperands)]
      BY <1>1, <1>5
    <2> HIDE DEF i, ParsedOp, ParsedArgs
    <2> QED
      BY <1>1, <1>5, <2>1, <2>2 DEF ParsedInstr
  <1> HIDE DEF i
  <1>7. /\ code' \in Seq([op : Ops, args : Seq(ParsedOperands)])
        /\ Len(code') = Len(code) + 1
        /\ \A k \in 1 .. Len(code') : ParsedInstr(code'[k])
    BY <1>1, <1>6, CodeGrows
  <1>8. \A k \in 1 .. Len(labels) :
           /\ labels[k].address < Len(code')
           /\ code'[labels[k].address + 1] = [op |-> "nop", args |-> <<>>]
           /\ \A j \in 1 .. (k - 1) : labels[j].address < labels[k].address
    BY <1>1, <1>6, NopsStay
  <1>9. LabelsMarkNops'
    BY <1>1, <1>8 DEF LabelsMarkNops
  <1> QED
    BY <1>1, <1>7, <1>9 DEF CodeOK, ParsedInstr, ParsedOperands

LEMMA CodeStays ==
  ASSUME CodeOK, UNCHANGED <<code, labels, ip, phase>>
  PROVE  CodeOK'
  BY DEF CodeOK, ParsedInstr, ParsedOperands, LabelsMarkNops

LEMMA CodeStep ==
  ASSUME AsmInv, StreamOK, CodeOK, RoomOK, [AsmNext]_asmVars
  PROVE  CodeOK' /\ RoomOK'
  <1>0. FramesOK /\ PlacesOK /\ TablesOK
    BY DEF AsmInv
  <1>1. CASE OneRound \/ PpInclude \/ PpReturn
    <2>1. /\ phase = "preprocess" /\ UNCHANGED <<phase, pass, code, labels, ip>>
      BY <1>0, <1>1, RoundOf DEF Round, PpInclude, PpReturn, PpUnchanged, PpAt, vars
    <2> QED
      BY <2>1, CodeStays DEF RoomOK
  <1>2. CASE PpDone
    <2>1. phase = "preprocess" /\ phase' \in {"preprocess", "parse"}
          /\ UNCHANGED <<code, labels, ip>> /\ code = <<>> /\ labels = <<>>
      BY <1>2 DEF PpDone, vars, RoomOK
    <2>2. CodeOK'
      <3>1. labels' = <<>> /\ code' = <<>>
        BY <2>1
      <3> QED
        BY <2>1, <3>1 DEF CodeOK, LabelsMarkNops
    <2>3. RoomOK'
      <3>1. CASE phase' = "preprocess"
        BY <2>1, <3>1 DEF RoomOK
      <3>2. CASE phase' # "preprocess"
        <4>1. Len(stream') <= MaxText /\ stream' \in Seq(StreamTokens') /\ code' = <<>>
          BY <1>0, <1>2, <2>1, <3>2, ParseBeginsClean
        <4>2. Len(stream') \in Nat /\ Len(code') = 0
          BY <4>1, LenProperties
        <4> QED
          BY <3>2, <4>1, <4>2 DEF RoomOK
      <3> QED
        BY <3>1, <3>2
    <2> QED
      BY <2>2, <2>3
  <1>3. CASE Parse
    <2>1. /\ phase = "parse" /\ phase' \in {"parse", "accepted", "refused", "crashed"}
          /\ UNCHANGED <<pass, passes, filled>>
      BY <1>0, <1>3, ParseStays
    <2>2. /\ Len(stream') \in Nat /\ Len(stream) \in Nat /\ Len(stream') <= Len(stream)
          /\ ParseLabel \/ ParseInstruction => Len(stream') + 1 <= Len(stream)
      BY <1>3, ParseTakes
    <2>3. Len(code) \in Nat /\ Len(code) + Len(stream) <= MaxText /\ MaxText \in Nat
      BY <2>1, LenProperties, AsmAssumption DEF CodeOK, RoomOK
    <2>4. CASE ParseLabel \/ ParseInstruction
      <3>1. CodeOK' /\ Len(code') = Len(code) + 1
        BY <1>0, <2>4, LabelAdds, InstructionAdds
      <3> QED
        BY <2>1, <2>2, <2>3, <2>4, <3>1 DEF RoomOK
    <2>5. CASE ParseNullOperand \/ ParseRefuse \/ ParseSkip
      <3>1. UNCHANGED <<code, labels>> /\ phase' # "accepted"
        BY <2>1, <2>5 DEF ParseNullOperand, ParseRefuse, ParseSkip
      <3>2. CodeOK'
        BY <2>1, <3>1 DEF CodeOK, ParsedInstr, ParsedOperands, LabelsMarkNops
      <3> QED
        BY <2>1, <2>2, <2>3, <3>1, <3>2 DEF RoomOK
    <2>6. CASE ParseDone
      <3>1. UNCHANGED <<code, labels>> /\ ip' = EntryOf(labels)
        BY <2>6 DEF ParseDone
      <3>2. CodeOK'
        <4>1. EntryOf(labels)' = EntryOf(labels)
          BY <3>1 DEF EntryOf, FirstNamed, FoundAt
        <4> QED
          BY <2>1, <3>1, <4>1 DEF CodeOK, ParsedInstr, ParsedOperands, LabelsMarkNops
      <3> QED
        BY <2>1, <2>2, <2>3, <3>1, <3>2 DEF RoomOK
    <2> QED
      BY <1>3, <2>4, <2>5, <2>6 DEF Parse
  <1>4. CASE UNCHANGED asmVars
    <2>1. UNCHANGED <<phase, pass, stream, code, labels, ip>>
      BY <1>4 DEF asmVars, vars
    <2> QED
      BY <2>1, CodeStays DEF RoomOK
  <1> QED
    BY <1>1, <1>2, <1>3, <1>4 DEF AsmNext, Preprocess, OneRound

LEMMA CodeInit == AsmInit => CodeOK /\ RoomOK
  <1> SUFFICES ASSUME AsmInit PROVE CodeOK /\ RoomOK
    OBVIOUS
  <1>1. /\ code = <<>> /\ labels = <<>> /\ stream = <<>>
        /\ phase \in {"preprocess", "refused"}
    BY DEF AsmInit
  <1>2. Len(code) + Len(stream) <= MaxText
    BY <1>1, AsmAssumption
  <1> QED
    BY <1>1, <1>2 DEF CodeOK, RoomOK, LabelsMarkNops

\* Names holds every word of a text and the signs the parser takes for words,
\* and the word that get_pointer leaves behind is no word of a text: so it is
\* when Names is the set of all strings of letters, digits, "_" and ".", with
\* the five that are no words.
NamesHold == TextWords \cup {"(", ")", "#define", "#include"} \subseteq Names \ {"(ptr"}

LEMMA CodeIsProgram ==
  ASSUME NamesHold, AsmInv, StreamOK, CodeOK, RoomOK
  PROVE  AcceptedIsProgram
  <1> SUFFICES ASSUME phase = "accepted", VariablesAreNamed
               PROVE  IsProgram([code |-> code, labels |-> labels])
    BY DEF AcceptedIsProgram, CodeOK
  <1>1. TextWords \cup {"(", ")", "#define", "#include"} \subseteq Names \ {"(ptr"}
    BY DEF NamesHold
  <1>2. Len(code) \in Nat /\ Len(code) < Half
    <2>1. Len(code) + Len(stream) <= MaxText
      BY DEF RoomOK
    <2>2. Len(code) \in Nat /\ Len(stream) \in Nat
      BY LenProperties DEF CodeOK, StreamOK
    <2> QED
      BY <2>1, <2>2, AsmAssumption, WidthAssumption
  <1>3. ParsedOperands \subseteq Operands
    BY <1>1 DEF ParsedOperands, Operands
  <1>4. ASSUME NEW k \in 1 .. Len(code)
        PROVE  code[k] \in [op : Ops, args : Seq(Operands)] /\ IsInstr(code[k])
    <2> DEFINE i == code[k]
    <2>1. ParsedInstr(i) /\ (i.op \in VarOps => IsName(i.args[1]))
      BY DEF CodeOK, VariablesAreNamed
    <2> HIDE DEF i
    <2>2. i.args \in Seq(ParsedOperands) /\ i.op \in Ops /\ ArgCountOK(i.op, Len(i.args))
      BY <2>1 DEF ParsedInstr
    <2>3. i.args \in Seq(Operands)
      BY <1>3, <2>2, SeqMonotonic
    <2>4. i \in [op : Ops, args : Seq(Operands)]
      BY <2>1, <2>3 DEF ParsedInstr
    <2>5. i.op \in VarOps => i.args[1].name # "(ptr"
      <3> SUFFICES ASSUME i.op \in VarOps PROVE i.args[1].name # "(ptr"
        OBVIOUS
      <3>1. Len(i.args) = 1
        BY <2>2 DEF ArgCountOK, VarOps, OneArg
      <3>2. 1 \in 1 .. Len(i.args)
        BY <3>1
      <3>3. i.args[1] \in ParsedOperands
        BY <2>2, <3>2, ElementOfSeq
      <3>4. i.args[1].kind = "name"
        BY <2>1 DEF IsName
      <3> QED
        BY <1>1, <3>3, <3>4 DEF ParsedOperands
    <2>6. IsInstr(i)
      BY <2>1, <2>2, <2>3, <2>5 DEF IsInstr
    <2> QED
      BY <2>4, <2>6 DEF i
  <1>5. code \in Seq([op : Ops, args : Seq(Operands)])
    <2>1. code = [k \in 1 .. Len(code) |-> code[k]]
      BY LenProperties DEF CodeOK
    <2> QED
      BY <1>2, <1>4, <2>1, SeqOf
  <1>6. labels \in Seq([name : Names \ {"(ptr"}, address : 0 .. (Len(code) - 1)])
    <2>1. labels \in Seq([name : TextWords, address : Nat]) /\ Len(labels) \in Nat
      BY LenProperties DEF CodeOK
    <2>2. ASSUME NEW k \in 1 .. Len(labels)
          PROVE  labels[k] \in [name : Names \ {"(ptr"}, address : 0 .. (Len(code) - 1)]
      <3> DEFINE l == labels[k]
      <3>1. l \in [name : TextWords, address : Nat] /\ l.address < Len(code)
        BY <2>1, ElementOfSeq DEF CodeOK, LabelsMarkNops
      <3> HIDE DEF l
      <3>2. l.name \in Names \ {"(ptr"} /\ l.address \in 0 .. (Len(code) - 1)
        BY <1>1, <1>2, <3>1
      <3>3. l \in [name : Names \ {"(ptr"}, address : 0 .. (Len(code) - 1)]
        BY <3>1, <3>2
      <3> QED
        BY <3>3 DEF l
    <2>3. labels = [k \in 1 .. Len(labels) |-> labels[k]]
      BY <2>1, LenProperties
    <2> QED
      BY <2>1, <2>2, <2>3, SeqOf
  <1> DEFINE p == [code |-> code, labels |-> labels]
  <1>7. p.code = code /\ p.labels = labels
    OBVIOUS
  <1> HIDE DEF p
  <1>8. IsProgram(p)
    BY <1>2, <1>4, <1>5, <1>6, <1>7 DEF IsProgram
  <1> QED
    BY <1>8 DEF p

\* What the assembler accepts is a program as the machine assumes it (its
\* argument counts, operands and labels, and no longer than an int counts),
\* with every label at a nop of its own and the machine at its entry, if the
\* operands that must be variables' names are names.
THEOREM AssembledIsProgram ==
  ASSUME NamesHold
  PROVE  AsmSpec => []AcceptedIsProgram
  <1> DEFINE I == AsmInv /\ StreamOK /\ NullOperandsAreDefined /\ CodeOK /\ RoomOK
  <1>1. AsmInit => I
    BY AsmInitInv, StreamInit, CodeInit
  <1>2. I /\ [AsmNext]_asmVars => I'
    BY AsmStep, StreamStep, CodeStep
  <1>3. I => AcceptedIsProgram
    BY NamesHold, CodeIsProgram
  <1> QED
    BY <1>1, <1>2, <1>3, PTL DEF AsmSpec
=============================================================================
