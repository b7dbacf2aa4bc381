------------------------------ MODULE MCOrtaVM ------------------------------
(***************************************************************************)
(* Programs for TLC.  Control takes every program of up to MaxControl      *)
(* instructions over an alphabet of control instructions; Data takes short *)
(* programs that bring every data instruction before every combination of  *)
(* operand types, and every order of a few variable instructions.          *)
(***************************************************************************)
EXTENDS OrtaVM

I(op, args) == [op |-> op, args |-> args]
Num(x)   == Lit([type |-> "int", val |-> x])
Flt(x) == FloatLit([type |-> "float", val |-> x], x)
String(n) == Lit(Str(n))
Ptr(x)   == Lit([type |-> "pointer", val |-> x])

MCRegisters == {"rax", "rbx", "rcx", "rdx"}
MCNames == {"__entry", "F", "x", "int", "float", "charp", "char", "pointer", "none",
            "stack", "stack_size", "stack_ptr", "platform", "(ptr"}

Code(c)         == [code |-> c, labels |-> <<>>]
Entry(c, a)     == [code |-> c, labels |-> <<[name |-> "__entry", address |-> a]>>]
AlphabetUpTo(A, n) == UNION {[1 .. k -> A] : k \in 1 .. n}

----------------------------------------------------------------------------
MaxControl == 4

ControlInstrs == {
    I("push", <<Num(1)>>), I("jmp", <<Num(0)>>), I("jmp", <<Name("F")>>),
    I("jmpif", <<Num(3)>>), I("call", <<Name("F"), Reg("rax"), Num(1)>>),
    I("call", <<Num(0), Num(1), Flt(1), Ptr(1)>>), I("ret", <<>>),
    I("halt", <<Num(1)>>), I("@w", <<Reg("rax")>>)}

ControlPrograms ==
    {[code |-> c, labels |-> <<[name |-> "F", address |-> Len(c) \div 2]>>] :
        c \in AlphabetUpTo(ControlInstrs, MaxControl)}
    \cup {Entry(<<I("nop", <<>>), I("jmp", <<Num(-1)>>)>>, 1),
          Code(<<I("mov", <<Num(2), Reg("rax")>>), I("call", <<Num(3), Reg("rax"), Flt(0)>>),
                 I("halt", <<>>), I("drop", <<>>), I("ret", <<>>)>>)}

----------------------------------------------------------------------------
Values == {Num(1), Num(0), Num(-1), Num(-Half), Flt(0), Flt(1), String(0), String(1)}
Preludes == {<<>>} \cup {<<I("push", <<a>>)>> : a \in Values}
              \cup {<<I("push", <<a>>), I("push", <<b>>)>> : a \in Values, b \in Values}

\* Words no literal makes: NULL and other pointers, NULL strings, chars, bools.
Odd == {<<I("push", <<Reg("rax")>>)>>,
        <<I("alloc", <<Num(1)>>)>>,
        <<I("push", <<Reg("rax")>>), I("cast", <<Name("charp")>>)>>,
        <<I("push", <<Reg("rax")>>), I("cast", <<Name("char")>>)>>,
        <<I("push", <<Reg("rax")>>), I("cast", <<Name("x")>>)>>}

PlainOps == (ZeroArgs \cup UpToTwo \cup AnyArgs) \ {"ret", "xcall", "eval", "here"}

StackPrograms ==
    {Code(p \o <<I(op, <<>>)>>) : p \in Preludes, op \in PlainOps}
    \cup {Code(p \o <<I(op, <<>>)>>) :
             p \in {q \o <<I("push", <<a>>)>> : q \in Odd, a \in {Num(1), Num(0), String(1)}}
                   \cup Odd \cup {q \o r : q \in Odd, r \in Odd}, op \in PlainOps}

RegOperands == {Reg("rax"), Reg("rbx"), Num(2), Flt(1), String(1), Ptr(1), Name("x")}
Loads == {<<I("mov", <<a, Reg("rax")>>), I("mov", <<b, Reg("rbx")>>)>> :
             a \in Values, b \in Values}
RegisterOps ==
    {I(op, <<a, b>>) : op \in {"add", "sub", "mov", "xor", "cmp"},
                       a \in RegOperands, b \in RegOperands}
    \cup {I(op, <<a>>) : op \in {"push", "pop", "load", "store", "add", "sub", "inc", "dec", "cmp",
                                 "rotl", "rotr", "sizeof", "cast", "halt", "ovm", "print",
                                 "merge", "free", "alloc"},
                         a \in RegOperands}
RegisterPrograms ==
    {Code(p \o <<i>>) : p \in {<<>>, <<I("push", <<Num(2)>>)>>}, i \in RegisterOps}
    \cup {Code(p \o <<i>>) : p \in Loads,
             i \in {I(op, <<Reg("rax"), Reg("rbx")>>) : op \in {"add", "sub", "xor", "cmp"}}}
    \cup {Code(<<I("alloc", <<Name("int"), Num(1), Reg("rax")>>), i>>) :
             i \in RegisterOps}
    \cup {Code(<<I("push", <<Reg("rcx")>>), I("cast", <<Name("charp")>>),
                 I("pop", <<Reg("rax")>>), i>>) :
             i \in {I("cmp", <<Reg("rax"), Reg("rax")>>), I("inc", <<Reg("rax")>>)}}

OtherPrograms ==
    {Code(<<I(op, <<a>>)>>) : op \in {"eval", "print", "merge"}, a \in {Num(1), String(2)}}
    \cup {Code(<<I("here", <<>>)>>),
     Code(<<I("sizeof", <<Name("charp")>>), I("sizeof", <<Name("char")>>),
            I("sizeof", <<Name("x")>>)>>)}
    \cup {Code(<<I("ovm", <<Name(q)>>)>>) : q \in {"stack_size", "stack_ptr", "platform"}}
    \cup {Code(<<I("push", <<a>>), I("ovm", <<Name("stack")>>)>>) : a \in Values}
    \cup {Code(<<I("push", <<Reg("rax")>>), I("cast", <<Name("charp")>>),
                 I("ovm", <<Name("stack")>>)>>)}
    \cup {Code(<<I("mov", <<Num(s), Reg("rax")>>), I("mov", <<a, Reg("rbx")>>),
                 I("mov", <<a, Reg("rcx")>>), I("xcall", <<>>)>>) :
             s \in {1, 3, 7}, a \in {Num(1), String(1)}}

----------------------------------------------------------------------------
VarInstrs == {
    I("push", <<Num(1)>>), I("var", <<Name("x")>>), I("setvar", <<Name("x")>>),
    I("getvar", <<Name("x")>>), I("inc", <<Name("x")>>), I("dec", <<Name("x")>>),
    I("togglelocalscope", <<>>), I("setglobalvar", <<Name("x")>>),
    I("getglobalvar", <<Name("x")>>)}

VarPrograms ==
    {Code(<<I("push", <<Num(1)>>)>> \o c) : c \in AlphabetUpTo(VarInstrs, 4)}
    \cup {Code(<<I("push", <<Reg("rax")>>), I("cast", <<Name("charp")>>), i>>) : i \in VarInstrs}
    \cup {Code(<<I("push", <<Reg("rax")>>), I("cast", <<Name("x")>>), I("setvar", <<Name("x")>>),
                 I("cast", <<Name("charp")>>), i>>) : i \in VarInstrs}
    \cup {Code(p \o <<I("setvar", <<Name("x")>>), I("call", <<Num(0), Name("x")>>)>>) :
             p \in {<<I("push", <<Num(1)>>)>>, <<I("push", <<Reg("rax")>>)>>}}
    \cup {Code(<<I("push", <<a>>), I("setvar", <<Name("x")>>),
                 I("alloc", <<Name("int"), Name("x")>>)>>) : a \in Values}

----------------------------------------------------------------------------
MemPrograms ==
    {Code(<<I("alloc", <<Name("int"), Num(1), Reg("rax")>>), I("push", <<v>>),
                 I("push", <<Num(0)>>)>> \o <<I(op, args)>>) :
        v \in {Num(0), Num(3), Num(5), Flt(0)}, op \in {"@r", "@w"},
        args \in {<<Reg("rax")>>, <<Reg("rbx")>>, <<Reg("rax"), Num(0)>>,
                  <<Name("x"), Num(0)>>, <<Reg("rax"), Reg("rax")>>,
                  <<Reg("rax"), Num(0), Name("int")>>, <<Reg("rax"), Num(0), Name("x")>>,
                  <<Reg("rax"), Num(0), Name("charp"), Reg("rcx")>>,
                  <<Reg("rax"), Num(0), Name("int"), Num(1)>>,
                  <<Reg("rax"), Num(0), Name("int"), Name("x")>>}}
    \cup {Code(<<I("alloc", <<Num(1)>>), I("alloc", <<Num(1)>>), I("pop", <<Reg("rax")>>),
                 I("pop", <<Reg("rbx")>>), I("@cmp", args)>>) :
        args \in {<<Reg("rax")>>, <<Reg("rax"), Reg("rbx"), Num(1)>>,
                  <<Reg("rax"), Reg("rbx"), Reg("rcx")>>,
                  <<Reg("rax"), Reg("rbx"), Num(1), Reg("rcx")>>,
                  <<Reg("rax"), Reg("rbx"), Num(-1), Num(1)>>}}
    \cup {Code(<<I("push", <<n>>), I("alloc", <<Num(1)>>), I("alloc", <<Num(1)>>),
                 I("@cpy", <<>>)>>) : n \in {Num(1), Flt(1)}}
    \cup {Code(<<I("push", <<a>>), I("push", <<b>>), I("push", <<c>>), I("push", <<Num(n)>>),
                 I("alloc", <<>>)>>) :
        a \in {String(1), Num(1)}, b \in {String(1), Num(2), Flt(1), Num(-1)},
        c \in {String(1), Num(1), Num(0), Num(-1), Flt(1)}, n \in 0 .. 3}

DataPrograms == StackPrograms \cup RegisterPrograms \cup OtherPrograms \cup VarPrograms
                  \cup MemPrograms
=============================================================================
