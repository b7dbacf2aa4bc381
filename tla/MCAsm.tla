------------------------------- MODULE MCAsm -------------------------------
(***************************************************************************)
(* Projects for TLC: every main file of up to MaxLines lines of Lines,     *)
(* beside a file lib with a section and a local label of its own.          *)
(***************************************************************************)
EXTENDS Asm

LOCAL S == INSTANCE SequencesExt

MCRegisters == {"rax", "rbx", "rcx", "rdx"}
MCCompounds == {[whole |-> "xN", stem |-> "x", tail |-> <<Word("N")>>]}

NoPrograms == {}
Sections   == {"__global", "F", "G"}
MadeIn(cs, n) == {c \o "__local_" \o S!ToString(k) : c \in cs, k \in 0 .. (n - 1)}
MCNames == Sections \cup MadeIn(Sections, 2) \cup MadeIn(MadeIn(Sections, 2), 1)
             \cup {"(ptr", "(", ")", "#define", "#include", "pushG", "xG", ".l", ".5", "N", "xN", "x1", "x", "F", "w", ".m"}

\* A made name tells its context and its number: NamesTell of Asm_proofs for
\* some contexts, those that look like made names among them.
Lookalikes == Sections \cup MadeIn(Sections, 12)
                \cup {"F__local_", "__local_", "F__local_1__local_", "F1", "F__local_1x"}
ASSUME NamesTellHere ==
    \A c, d \in Lookalikes : \A m, n \in 0 .. 12 :
        c \o "__local_" \o S!ToString(m) = d \o "__local_" \o S!ToString(n) => c = d /\ m = n

Dot(w) == Dotted("." \o w)
FLine        == <<Word("F"), Colon>>
LocalLine    == <<Dot("l"), Colon>>
JumpLine     == <<Word("jmp"), Space, Dot("l")>>
Define(name, value) == <<DefineSign, Space, name, Space>> \o value
Lines == {
    FLine, LocalLine, JumpLine,
    <<Dot("m"), Colon, Space, Word("push"), Space, Dot("l")>>,
    <<Word("push"), Space, Word("N")>>,
    <<Word("push"), Space, Word("N"), Space, Word("N"), Space, Word("F"), Colon>>,
    <<Word("var"), Space, Number(1)>>,
    <<Word("push"), Space, Word("xN"), Space, Comment, Space, Word("F")>>,
    Define(Word("N"), <<Minus, Number(5)>>),
    <<DefineSign, Space, Word("N"), Space>>,
    Define(Word("N"), <<Number(1), Comma, Number(2), Comma, Number(3)>>),
    Define(Word("N"), <<Dot("l")>>),
    Define(Word("N"), <<Include("lib")>>),
    Define(Word("F"), <<Word("nop"), Comment>>),
    Define(Word("F"), Define(Word("N"), <<Minus>>)),
    <<Include("main")>>, <<Include("lib")>>, <<Include("missing")>>,
    <<Word("add"), Space, Word("rax"), Comma, Word("rbx")>>,
    <<Word("push"), Space, Number(1), Dot("5")>>,
    <<Minus, Word("w"), Space, Word("rax")>>,
    <<Word("print"), Space, Punct("("), Minus, Number(1), Punct(")"), Space, Quoted(Str(1))>>,
    <<Number(1), Comma, Punct(")")>>}

MaxLines == 3
Ended(line) == line \o <<NewLine>>
TextOf(ls)  == S!FlattenSeq([k \in 1 .. Len(ls) |-> Ended(ls[k])])
Lib == TextOf(<<<<Word("G"), Colon>>, LocalLine, <<Word("jmp"), Space, Dot("m")>>>>)

MCProjects == {[f \in {"main", "lib"} |-> IF f = "lib" THEN Lib ELSE TextOf(ls)] :
                 ls \in UNION {[1 .. n -> Lines] : n \in 1 .. MaxLines}}
              \cup {[f \in {"lib"} |-> Lib]}

----------------------------------------------------------------------------
\* src/examples/mem.x, its first block; a line is a word and its operands.
AtSign == Punct("@")
Line(op, args) == op \o S!FlattenSeq([k \in 1 .. Len(args) |-> <<Space, args[k]>>])
RaxZeroCharp == <<Word("rax"), Number(0), Word("charp")>>
MemX == TextOf(<<
    <<Word("__entry"), Colon>>,
    Line(<<Word("alloc")>>, <<Word("charp"), Number(1), Word("rax")>>),
    Line(<<Word("push")>>, <<Quoted(Str(1))>>),
    Line(<<AtSign, Word("w")>>, RaxZeroCharp),
    Line(<<AtSign, Word("r")>>, RaxZeroCharp),
    Line(<<Word("print")>>, <<>>),
    Line(<<Word("free")>>, <<Word("rax")>>)>>)

MemProjects == {[f \in {"main"} |-> MemX]}
MemNames    == {"(ptr", "__entry", "charp", "w", "r"}

\* The example src/examples/mem.x is a program of the assembler's language:
\* parse_program takes it, with its lines `@w rax 0 charp` (line 4) and
\* `@r rax 0 charp` (line 5).
ExampleAssembles == phase # "refused"
=============================================================================
