-------------------------------- MODULE MCXd --------------------------------
(***************************************************************************)
(* Debugger sessions for TLC: every program of up to three instructions of *)
(* a small alphabet, every session over it.                                *)
(***************************************************************************)
EXTENDS Xd

I(op, args) == [op |-> op, args |-> args]
Num(x)   == Lit([type |-> "int", val |-> x])

MCRegisters == {"rax", "rbx", "rcx", "rdx"}
MCNames == {"__entry", "F", "x", "(ptr"}

XdInstrs == {I("push", <<Num(1)>>), I("jmpif", <<Num(2)>>), I("jmp", <<Num(0)>>),
             I("call", <<Num(1), Num(1)>>), I("ret", <<>>), I("halt", <<Num(1)>>)}
AlphabetUpTo(A, n) == UNION {[1 .. k -> A] : k \in 1 .. n}

XdPrograms ==
    {[code |-> c, labels |-> <<>>] : c \in AlphabetUpTo(XdInstrs, 2)}
    \cup {[code |-> c, labels |-> <<[name |-> "__entry", address |-> 1]>>] :
             c \in {<<I("push", <<Num(1)>>)>> \o d : d \in [1 .. 2 -> XdInstrs]}}
    \cup {[code |-> <<>>, labels |-> <<>>]}

\* The program `push 1; halt; push 1`
HaltPrograms == {[code |-> <<I("push", <<Num(1)>>), I("halt", <<>>), I("push", <<Num(1)>>)>>,
                  labels |-> <<>>]}

MCAddresses == {1, 2, 3}
MCIndexes == -1 .. 2
=============================================================================
