-------------------------------- MODULE MCStd --------------------------------
(***************************************************************************)
(* The routine `rb` of src/std.x as the assembler lays it out: a label     *)
(* becomes a NOP of its own.                                               *)
(***************************************************************************)
EXTENDS OrtaVM

I(op, args) == [op |-> op, args |-> args]
Num(x) == Lit([type |-> "int", val |-> x])
String(n) == Lit(Str(n))

MCRegisters == {"rax", "rbx", "rcx", "rdx", "r8"}
MCNames == {"__entry", "rb", "rb_loop", "(ptr"}

RbProgram(n) ==
    [code |-> <<I("nop", <<>>), I("mov", <<Num(n), Reg("rax")>>), I("call", <<Name("rb")>>),
                I("halt", <<>>),
                I("nop", <<>>), I("mov", <<Num(0), Reg("r8")>>),
                I("mov", <<String(0), Reg("rbx")>>),
                I("nop", <<>>), I("push", <<Reg("rbx")>>), I("push", <<String(1)>>),
                I("merge", <<>>), I("pop", <<Reg("rbx")>>), I("inc", <<Reg("r8")>>),
                I("push", <<Reg("r8")>>), I("push", <<Reg("rax")>>), I("lt", <<>>),
                I("jmpif", <<Name("rb_loop")>>), I("ret", <<>>)>>,
     labels |-> <<[name |-> "__entry", address |-> 0], [name |-> "rb", address |-> 4],
                  [name |-> "rb_loop", address |-> 7]>>]

RbPrograms == {RbProgram(n) : n \in 1 .. 3}

\* src/std.x of `rb`: "Reserve n bytes", "rax = n", "returns rbx a string with
\* n bytes (char sequence and char is 1 byte)".
RbReservesBytes ==
    status = "stopped" /\ exitCode = 0 /\ ip = 3 => regs["rbx"] = Str(regs["rax"].val)

=============================================================================
