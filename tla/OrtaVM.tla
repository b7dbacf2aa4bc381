------------------------------- MODULE OrtaVM -------------------------------
(***************************************************************************)
(* The virtual machine of src/src/orta.h: execute_program runs the program *)
(* an assembler or a bytecode file has filled in, one execute_instruction  *)
(* per step.                                                               *)
(*                                                                         *)
(* One action models one instruction whole: what it pops, tests, pushes    *)
(* and assigns, its early returns, and the `xpu->ip++` at the end of the   *)
(* switch that the early returns skip.  The processor's `ip` counts from   *)
(* 0; TLA+ sequences count from 1, so the instruction at ip is             *)
(* code[ip + 1].                                                           *)
(***************************************************************************)
EXTENDS XStack, FiniteSets

CONSTANTS
    Registers,   \* the names in register_table
    Names,       \* every other bare word of the programs: labels, variables, types
    StackCap,    \* OSTACK_SIZE, 16384 unless the command line changes it
    CallCap,     \* capacity of the call stack, 1024
    Programs     \* the programs to run, see ProgramAssumption

----------------------------------------------------------------------------
(* Operands, instructions, programs.                                       *)

\* A literal; of a float atoi sees the whole part, which its word has lost.
FloatLit(w, n) == [kind |-> "lit", word |-> w, whole |-> n]
Lit(w)   == FloatLit(w, IF w.type = "int" THEN w.val ELSE 0)
Reg(r)   == [kind |-> "reg", reg |-> r]
Name(n)  == [kind |-> "name", name |-> n]
LitWords == {w \in Words : /\ w.type \in {"int", "float", "charp", "pointer"}
                           /\ w # NullStr}
Operands == [kind : {"lit"}, word : LitWords, whole : Ints]
              \cup [kind : {"reg"}, reg : Registers] \cup [kind : {"name"}, name : Names]

\* What is left of the operand "(123)" once get_pointer has cut its last
\* parenthesis off in place: a word that is no pointer, variable or label.
Garbled == Name("(ptr")

IsLitOf(o, t) == o.kind = "lit" /\ o.word.type = t
IsNum(o)   == o.kind = "lit" /\ o.word.type = "int"
IsFloat(o) == o.kind = "lit" /\ o.word.type = "float"
IsStr(o)   == o.kind = "lit" /\ o.word.type = "charp"
IsPtr(o)   == o.kind = "lit" /\ o.word.type = "pointer"
IsReg(o)   == o.kind = "reg"
IsName(o)  == o.kind = "name"

\* atoi of an operand's text
Atoi(o) == IF IsNum(o) THEN o.word.val ELSE IF IsFloat(o) THEN o.whole ELSE 0

\* get_type of an operand's text
TypeOf(o) == IF o.kind = "name" /\ o.name \in WordTypes THEN o.name ELSE "none"

ZeroArgs == {"mod", "and", "or", "not", "eq", "ne", "lt", "gt", "le", "ge", "ret", "dup",
             "swap", "drop", "xcall", "@cpy", "nop", "here"}
OneArg   == {"push", "pop", "jmp", "jmpif", "load", "store", "rotl", "rotr", "sizeof", "dec",
             "inc", "var", "setvar", "getvar", "getglobalvar", "setglobalvar", "ovm", "cast"}
TwoArgs  == {"mov", "xor"}
UpToTwo  == {"add", "sub"}
OneOrMore == {"call", "cmp", "@r", "@w", "@cmp"}
AnyArgs  == {"mul", "div", "print", "alloc", "halt", "merge", "eval", "free",
             "togglelocalscope", "sprintf"}
Ops == ZeroArgs \cup OneArg \cup TwoArgs \cup UpToTwo \cup OneOrMore \cup AnyArgs

\* The instruction table and validateArgCount, which parse_program applies.
ArgCountOK(op, n) == /\ op \in ZeroArgs => n = 0
                     /\ op \in OneArg => n = 1
                     /\ op \in TwoArgs => n = 2
                     /\ op \in UpToTwo => n <= 2
                     /\ op \in OneOrMore => n >= 1

VarOps == {"var", "setvar", "getvar", "getglobalvar", "setglobalvar"}

IsInstr(i) == /\ i.op \in Ops
              /\ i.args \in Seq(Operands)
              /\ ArgCountOK(i.op, Len(i.args))
              /\ i.op \in VarOps => IsName(i.args[1]) /\ i.args[1].name # "(ptr"

\* add_label records a label at the place of the NOP it adds, so an address
\* lies inside the program; a return address must fit an `int`.
IsProgram(p) == /\ p.code \in Seq([op : Ops, args : Seq(Operands)])
                /\ \A k \in 1 .. Len(p.code) : IsInstr(p.code[k])
                /\ Len(p.code) < Half
                /\ p.labels \in Seq([name : Names \ {"(ptr"}, address : 0 .. (Len(p.code) - 1)])

ASSUME CapacityAssumption == StackCap \in Nat /\ CallCap \in Nat
ASSUME RegisterAssumption == {"rax", "rbx", "rcx", "rdx"} \subseteq Registers
ASSUME NameAssumption     == "(ptr" \in Names
ASSUME ProgramAssumption  == \A p \in Programs : IsProgram(p)

----------------------------------------------------------------------------
VARIABLES
    code,       \* program.instructions; get_pointer writes into its operands
    labels,     \* program.labels
    ip, stack, callStack, regs,          \* xpu
    globals, local, inLocal,             \* program.variables, and what current_scope points at
    halted, exitCode,                    \* program.halted, program.exit_code
    flags,                               \* meta.flags
    status      \* "running" in the loop, "stopped" after it, "error" after EERROR's
                \* exit(1), "crashed" after a signal

prog    == <<code, labels>>
scopes  == <<globals, local, inLocal>>
outcome == <<halted, exitCode, flags, status>>
vars    == <<code, labels, ip, stack, callStack, regs, globals, local, inLocal,
             halted, exitCode, flags, status>>

\* A variable's value, or Absent.  vector_push of a name that is already there
\* makes an entry the first-match lookups never reach: a scope is a function.
Absent  == [type |-> "absent", val |-> 0]
NoVars  == [n \in Names |-> Absent]
Scope   == IF inLocal THEN local ELSE globals
IsVar(n) == Scope[n] # Absent
VarValue(scope, n) == IF scope[n] = Absent THEN NullWord ELSE scope[n]

\* find_label: the first of the labels with the name, if there is one.
FirstNamed(ls, n) == {k \in 1 .. Len(ls) : /\ ls[k].name = n
                                           /\ \A j \in 1 .. (k - 1) : ls[j].name # n}
FoundAt(ls, n)  == ls[CHOOSE k \in FirstNamed(ls, n) : TRUE].address
HasLabel(n)     == FirstNamed(labels, n) # {}
LabelAddress(n) == FoundAt(labels, n)

EntryOf(ls) == IF FirstNamed(ls, "__entry") # {} THEN FoundAt(ls, "__entry") ELSE 0

\* ortavm_create returns a local OrtaVM in which nothing sets `halted`.
Init == /\ \E p \in Programs : /\ code = p.code
                               /\ labels = p.labels
                               /\ ip = EntryOf(p.labels)
        /\ stack = <<>> /\ callStack = <<>>
        /\ regs = [r \in Registers |-> NullWord]
        /\ globals = NoVars /\ local = NoVars /\ inLocal = FALSE
        /\ halted \in BOOLEAN
        /\ exitCode = 0 /\ flags = {} /\ status = "running"

----------------------------------------------------------------------------
(* The loop of execute_program, and the ways an instruction ends.          *)

CanExecute == status = "running" /\ ip < Len(code)
Instr  == code[ip + 1]
Args   == Instr.args
At(op) == CanExecute /\ Instr.op = op

Step(s, r) == /\ ip' = ip + 1 /\ stack' = s /\ regs' = r
              /\ UNCHANGED <<prog, callStack, scopes, outcome>>
StackStep(s) == Step(s, regs)
RegStep(r, w) == Step(stack, [regs EXCEPT ![r] = w])

VarStepLeaks(s, n, w) == /\ ip' = ip + 1 /\ stack' = s
                         /\ globals' = [globals EXCEPT ![n] = w]
                         /\ UNCHANGED <<prog, callStack, regs, local, inLocal, outcome>>
VarStep(s, n, w) == /\ ip' = ip + 1 /\ stack' = s
                    /\ IF inLocal THEN local' = [local EXCEPT ![n] = w] /\ UNCHANGED globals
                                  ELSE globals' = [globals EXCEPT ![n] = w] /\ UNCHANGED local
                    /\ UNCHANGED <<prog, callStack, regs, inLocal, outcome>>
\* setvar on the program's variables whatever the scope
VarStepGlobal(s, n, w) ==
    /\ ip' = ip + 1 /\ stack' = s /\ globals' = [globals EXCEPT ![n] = w]
    /\ UNCHANGED <<prog, callStack, regs, local, inLocal, outcome>>

\* EERROR: the machine is freed and the process exits with 1.
EError == /\ status' = "error" /\ exitCode' = 1
          /\ UNCHANGED <<prog, ip, stack, callStack, regs, scopes, halted, flags>>

Crash == /\ status' = "crashed"
         /\ UNCHANGED <<prog, ip, stack, callStack, regs, scopes, halted, exitCode, flags>>

\* The error returns of IREADMEM and IWRITEMEM: ip leaves the program.
MemFaultKeepsIp(s) == /\ stack' = s /\ exitCode' = 1 /\ ip' = ip
                      /\ UNCHANGED <<prog, callStack, regs, scopes, halted, flags, status>>
MemFault(s) == /\ stack' = s /\ exitCode' = 1 /\ ip' = Len(code)
               /\ UNCHANGED <<prog, callStack, regs, scopes, halted, flags, status>>

Stop == /\ status = "running" /\ (halted \/ ip >= Len(code))
        /\ status' = "stopped"
        /\ UNCHANGED <<prog, ip, stack, callStack, regs, scopes, halted, exitCode, flags>>

----------------------------------------------------------------------------
(* Moving words.                                                           *)

ExecPush == /\ At("push")
            /\ LET o == Args[1] IN
               \/ /\ IsNum(o) \/ IsFloat(o) \/ IsStr(o)
                  /\ StackStep(Push(stack, StackCap, o.word))
               \/ IsReg(o) /\ StackStep(Push(stack, StackCap, regs[o.reg]))
               \/ (IsPtr(o) \/ IsName(o)) /\ EError

ExecMov == /\ At("mov")
           /\ LET src == Args[1] dst == Args[2] IN
              \/ ~IsReg(dst) /\ StackStep(stack)
              \/ IsReg(dst) /\ IsReg(src) /\ RegStep(dst.reg, regs[src.reg])
              \/ /\ IsReg(dst) /\ (IsNum(src) \/ IsFloat(src) \/ IsStr(src))
                 /\ RegStep(dst.reg, src.word)
              \/ IsReg(dst) /\ (IsPtr(src) \/ IsName(src)) /\ EError

ExecPop == /\ At("pop")
           /\ LET o == Args[1] IN
              \/ IsReg(o) /\ Step(Popped(stack, 1), [regs EXCEPT ![o.reg] = Top(stack)])
              \/ ~IsReg(o) /\ EError

ExecLoad == /\ At("load")
            /\ StackStep(IF IsReg(Args[1]) THEN Push(stack, StackCap, regs[Args[1].reg])
                                           ELSE stack)

ExecStore == /\ At("store")
             /\ Step(Popped(stack, 1), IF IsReg(Args[1])
                                       THEN [regs EXCEPT ![Args[1].reg] = Top(stack)]
                                       ELSE regs)

\* hmerge joins the operands in a buffer of 256 bytes and tests no length: one
\* string of the saturated length, or several operands, may be too long for it.
Overlong == \/ Len(Args) > 1
            \/ \E k \in 1 .. Len(Args) : IsStr(Args[k]) /\ Args[k].word.val = MaxLen + 1

\* printf of a NULL string prints "(null)" or, compiled to puts, faults.
ExecPrint == /\ At("print")
             /\ \/ Args # <<>> /\ StackStep(stack)
                \/ Overlong /\ Crash
                \/ Args = <<>> /\ StackStep(Popped(stack, 1))
                \/ Args = <<>> /\ NullString(Top(stack)) /\ Crash

ExecDup == /\ At("dup")
           /\ IF NullString(Top(stack)) THEN Crash
              ELSE StackStep(IF Top(stack).type \in {"int", "float", "charp", "pointer"}
                             THEN Push(stack, StackCap, Top(stack)) ELSE stack)

ExecSwap == /\ At("swap")
            /\ StackStep(PushAll(Popped(stack, 2), StackCap, <<Top(stack), Top(Popped(stack, 1))>>))

ExecDrop == At("drop") /\ StackStep(Popped(stack, 1))

ExecRotL == At("rotl") /\ StackStep(RotL(stack, Atoi(Args[1])))
ExecRotR == At("rotr") /\ StackStep(RotR(stack, Atoi(Args[1])))

ExecSizeof == /\ At("sizeof")
              /\ LET t == TypeOf(Args[1])
                     size == IF t \in {"int", "float"} THEN 4
                             ELSE IF t \in {"charp", "pointer"} THEN 8
                             ELSE IF t = "char" THEN 1 ELSE 0
                 IN  StackStep(Push(stack, StackCap, IntWord(size)))

ExecCast == /\ At("cast")
            /\ \E w \in CastWords(Top(stack), TypeOf(Args[1])) :
                  StackStep(Push(Popped(stack, 1), StackCap, w))

SomeStrings == WordsOf("charp") \ {NullStr}

ExecHere == At("here") /\ \E w \in SomeStrings : StackStep(Push(stack, StackCap, w))

\* eval computes some int from the text of the operands.
ExecEval == /\ At("eval")
            /\ \/ \E v \in Ints : StackStep(Push(stack, StackCap, IntWord(v)))
               \/ Overlong /\ Crash

----------------------------------------------------------------------------
(* Arithmetic, logic and comparison.                                       *)

W1 == Top(stack)
W2 == Top(Popped(stack, 1))

\* Pop two words and push one of the results; no result means EERROR.
Reduce(results) ==
    IF results = {} THEN EError
    ELSE \E w \in results : StackStep(Push(Popped(stack, 2), StackCap, w))

\* The second operand of the register forms.
SrcWord(o)  == IF IsReg(o) THEN regs[o.reg] ELSE o.word
SrcValid(o) == IsReg(o) \/ IsNum(o) \/ IsFloat(o)

ExecAdd ==
    /\ At("add")
    /\ \/ Len(Args) = 2 /\ ~SrcValid(Args[2]) /\ EError
       \/ Len(Args) = 2 /\ SrcValid(Args[2]) /\ ~IsReg(Args[1]) /\ StackStep(stack)
       \/ /\ Len(Args) = 2 /\ SrcValid(Args[2]) /\ IsReg(Args[1])
          /\ LET src == SrcWord(Args[2])
                 sums == RegSum(regs[Args[1].reg], src, src.val)
             IN  IF sums = {} THEN EError ELSE \E w \in sums : RegStep(Args[1].reg, w)
       \/ /\ Len(Args) = 1
          /\ \E w \in (IF IsNum(Args[1]) THEN Displaced(W1, Args[1].word.val) ELSE {W1}) :
                StackStep(Push(stack, StackCap, w))
       \/ Len(Args) = 0 /\ Reduce(AddWords(W1, W2))

\* Where IADD calls EERROR for the register form, ISUB does nothing.
ExecSub ==
    /\ At("sub")
    /\ \/ Len(Args) = 2 /\ ~(SrcValid(Args[2]) /\ IsReg(Args[1])) /\ StackStep(stack)
       \/ /\ Len(Args) = 2 /\ SrcValid(Args[2]) /\ IsReg(Args[1])
          /\ LET src == SrcWord(Args[2])
                 differences == RegSum(regs[Args[1].reg], src, -src.val)
             IN  IF differences = {} THEN StackStep(stack)
                 ELSE \E w \in differences : RegStep(Args[1].reg, w)
       \/ /\ Len(Args) = 1
          /\ \E w \in (IF IsNum(Args[1]) THEN Displaced(W1, -Args[1].word.val) ELSE {W1}) :
                StackStep(Push(stack, StackCap, w))
       \/ Len(Args) = 0 /\ Reduce(SubWords(W1, W2))

ExecMul == At("mul") /\ Reduce(MulWords(W1, W2))

\* A zero divisor takes both operands and pushes nothing.
ExecDiv == /\ At("div")
           /\ \/ TRUE \in ZeroTests(W1) /\ StackStep(Popped(stack, 2))
              \/ FALSE \in ZeroTests(W1) /\ Reduce(DivWords(W1, W2))
              \/ FALSE \in ZeroTests(W1) /\ QuotTraps(W1, W2) /\ Crash

ExecMod == /\ At("mod")
           /\ \/ Reduce(ModWords(W1, W2))
              \/ QuotTraps(W1, W2) /\ Crash

\* IAND computes its result and does not push it.
ExecAnd == /\ At("and")
           /\ IF BothInt(W1, W2) THEN StackStep(Popped(stack, 2)) ELSE EError

ExecOr == At("or") /\ Reduce(OrWords(W1, W2))

ExecXor == /\ At("xor")
           /\ IF /\ IsReg(Args[1]) /\ IsReg(Args[2])
                 /\ BothInt(regs[Args[1].reg], regs[Args[2].reg])
              THEN \E v \in XorInts(regs[Args[1].reg].val, regs[Args[2].reg].val) :
                      RegStep(Args[1].reg, IntWord(v))
              ELSE StackStep(stack)

ExecNot == /\ At("not")
           /\ IF NotWords(W1) = {} THEN EError
              ELSE \E w \in NotWords(W1) : StackStep(Push(Popped(stack, 1), StackCap, w))

Comparisons == {"eq", "ne", "lt", "gt", "le", "ge"}
ExecCompare == \E op \in Comparisons :
    /\ At(op)
    /\ IF op \in {"eq", "ne"} /\ W1.type = "charp" /\ W2.type = "charp"
          /\ (NullString(W1) \/ NullString(W2))
       THEN Crash ELSE Reduce(CompareWords(op, W1, W2))

\* An operand of ICMP that is neither a register nor a number leaves its word
\* uninitialised: any difference, or strcmp of any address.
Comparable(o) == IsReg(o) \/ IsNum(o)
ExecCmp ==
    /\ At("cmp")
    /\ \/ Len(Args) = 1 /\ StackStep(stack)
       \/ /\ Len(Args) > 1 /\ Comparable(Args[1]) /\ Comparable(Args[2])
          /\ LET w1 == SrcWord(Args[1]) w2 == SrcWord(Args[2]) IN
             IF w1.type = "charp" /\ w2.type = "charp" /\ (NullString(w1) \/ NullString(w2))
             THEN Crash ELSE \E v \in CmpInts(w1, w2) : RegStep("rdx", IntWord(v))
       \/ /\ Len(Args) > 1 /\ ~(Comparable(Args[1]) /\ Comparable(Args[2]))
          /\ Crash \/ \E v \in Ints : RegStep("rdx", IntWord(v))

\* IINC and IDEC: an int register, or a variable of the current scope that has
\* a value; a value that is no int is written back as it is.
Bump(d) ==
    LET o == Args[1] IN
    \/ /\ IsReg(o) /\ IsInt(regs[o.reg])
       /\ RegStep(o.reg, IntWord(regs[o.reg].val + d))
    \/ /\ IsName(o) /\ IsVar(o.name) /\ NullString(Scope[o.name]) /\ Crash
    \/ /\ IsName(o) /\ IsVar(o.name) /\ Scope[o.name] \notin {NullWord, NullStr}
       /\ LET w == Scope[o.name] IN
          VarStep(stack, o.name, IF IsInt(w) THEN IntWord(w.val + d) ELSE w)
    \/ /\ ~(IsReg(o) /\ IsInt(regs[o.reg]))
       /\ ~(IsName(o) /\ IsVar(o.name) /\ Scope[o.name] # NullWord)
       /\ StackStep(stack)

ExecInc == At("inc") /\ Bump(1)
ExecDec == At("dec") /\ Bump(-1)

----------------------------------------------------------------------------
(* Control.                                                                *)

\* A target that is neither a number nor a known label is 0.
JumpTarget(o) == IF IsNum(o) THEN o.word.val
                 ELSE IF IsName(o) /\ HasLabel(o.name) THEN LabelAddress(o.name) ELSE 0
\* `target` is a size_t: a negative number is beyond any program.
InProgramSigned(t) == t < Len(code)
InProgram(t) == t \in 0 .. (Len(code) - 1)

Goto(s, t) == /\ ip' = t /\ stack' = s
              /\ UNCHANGED <<prog, callStack, regs, scopes, outcome>>

ExecJmp == /\ At("jmp")
           /\ IF InProgram(JumpTarget(Args[1])) THEN Goto(stack, JumpTarget(Args[1]))
              ELSE EError

ExecJmpif == /\ At("jmpif")
             /\ IF W1 # IntWord(1) THEN StackStep(Popped(stack, 1))
                ELSE IF InProgram(JumpTarget(Args[1]))
                     THEN Goto(Popped(stack, 1), JumpTarget(Args[1])) ELSE EError

\* parseOperand for an argument of a call: the words it can answer, none when
\* it calls EERROR.  A NULL pointer is refused by ICALL itself.
ArgWords(o) ==
    (IF o.kind = "reg" THEN {regs[o.reg]}
     ELSE IF o.kind = "lit" THEN {o.word}
     ELSE IF IsVar(o.name) THEN {Scope[o.name]}
     ELSE IF HasLabel(o.name) THEN {IntWord(LabelAddress(o.name))}
     ELSE {}) \ {NullWord}
ArgFaults(o) == IsName(o) /\ IsVar(o.name) /\ NullString(Scope[o.name])

CallTargetValid(o) == /\ IsNum(o) \/ (IsName(o) /\ HasLabel(o.name))
                      /\ InProgram(JumpTarget(o))

\* get_pointer cuts the text of the pointer operands it reads.
CutLiterals(i, read) ==
    [i EXCEPT !.args = [k \in 1 .. Len(i.args) |->
                          IF k \in read /\ ~IsReg(i.args[k]) THEN Garbled ELSE i.args[k]]]
CutPointers(i, read) ==
    [i EXCEPT !.args = [k \in 1 .. Len(i.args) |->
                          IF k \in read /\ IsPtr(i.args[k]) THEN Garbled ELSE i.args[k]]]

\* The arguments are read from the last to the first, so that the first one
\* ends on top of the stack.
ArgWord(k) == CHOOSE w \in ArgWords(Args[k]) : TRUE
PushedInOrder(n) == [j \in 1 .. (n - 1) |-> ArgWord(j + 1)]
Pushed(n)        == [j \in 1 .. (n - 1) |-> ArgWord(n + 1 - j)]

\* The first argument read that cannot be answered ends the process.  The
\* return address is the place of the call itself.
AddressOfTarget == IntWord(JumpTarget(Args[1]))
ReturnAddress   == IntWord(ip)
ExecCall ==
    /\ At("call")
    /\ LET n == Len(Args)
           bad == {k \in 2 .. n : ArgWords(Args[k]) = {} \/ ArgFaults(Args[k])}
           lastBad == CHOOSE k \in bad : \A j \in bad : j <= k
       IN  IF ~CallTargetValid(Args[1]) THEN EError
           ELSE IF bad # {} THEN IF ArgFaults(Args[lastBad]) THEN Crash ELSE EError
           ELSE /\ callStack' = Push(callStack, CallCap, ReturnAddress)
                /\ ip' = JumpTarget(Args[1])
                /\ stack' = PushAll(stack, StackCap, Pushed(n))
                /\ code' = [code EXCEPT ![ip + 1] = CutPointers(Instr, 2 .. n)]
                /\ UNCHANGED <<labels, regs, scopes, outcome>>

\* The return address is the place of the call, and the end of the switch
\* moves past it.  An empty call stack answers a NULL word: address 0.
ExecRetEarly == /\ At("ret")
                /\ ip' = Top(callStack).val
                /\ callStack' = Popped(callStack, 1)
                /\ UNCHANGED <<prog, stack, regs, scopes, outcome>>
ExecRet == /\ At("ret")
           /\ ip' = Top(callStack).val + 1
           /\ callStack' = Popped(callStack, 1)
           /\ UNCHANGED <<prog, stack, regs, scopes, outcome>>

\* IHALT returns before the ip++.
ExecHaltForgets == /\ At("halt")
                   /\ exitCode' = IF Len(Args) = 1 THEN Atoi(Args[1]) ELSE exitCode
                   /\ UNCHANGED <<prog, ip, stack, callStack, regs, scopes, halted, flags, status>>
ExecHalt == /\ At("halt")
            /\ halted' = TRUE
            /\ exitCode' = IF Len(Args) = 1 THEN Atoi(Args[1]) ELSE exitCode
            /\ UNCHANGED <<prog, ip, stack, callStack, regs, scopes, flags, status>>

ExecNop == At("nop") /\ StackStep(stack)

----------------------------------------------------------------------------
(* Variables.                                                              *)

ExecVar == /\ At("var")
           /\ LET n == Args[1].name IN
              IF IsVar(n) THEN StackStep(stack) ELSE VarStep(stack, n, NullWord)

ExecSetvar == /\ At("setvar")
              /\ IF stack = <<>> THEN StackStep(stack)
                 ELSE IF NullString(Top(stack)) THEN Crash
                 ELSE VarStep(Popped(stack, 1), Args[1].name, Top(stack))

PushVar(w) == IF NullString(w) THEN Crash
              ELSE StackStep(IF w = NullWord THEN stack ELSE Push(stack, StackCap, w))

ExecGetvar == At("getvar") /\ PushVar(VarValue(Scope, Args[1].name))

ExecSetglobalvar == /\ At("setglobalvar")
                    /\ IF stack = <<>> THEN StackStep(stack)
                       ELSE IF NullString(Top(stack)) THEN Crash
                       ELSE VarStepGlobal(Popped(stack, 1), Args[1].name, Top(stack))

ExecGetglobalvar == At("getglobalvar") /\ PushVar(VarValue(globals, Args[1].name))

\* `static int status = 1` is never assigned again: every execution opens one
\* more empty scope, and nothing leads back to the program's variables.
ExecToggle == /\ At("togglelocalscope")
              /\ inLocal' = TRUE /\ local' = NoVars /\ ip' = ip + 1
              /\ UNCHANGED <<prog, stack, callStack, regs, globals, outcome>>

----------------------------------------------------------------------------
(* Memory.  The contents of the heap are not modelled: a read answers any  *)
(* word of the type, and the address may be one that faults.               *)

\* malloc and memset of the size an IALLOC has computed: nothing for 0; a
\* negative count becomes a size malloc refuses, and memset faults.
Allocate(size, s, dest) ==
    IF size = 0 THEN StackStep(s)
    ELSE IF size < 0 THEN Crash
    ELSE IF dest = "stack" THEN StackStep(Push(s, StackCap, SomePtr))
    ELSE Step(s, IF dest \in Registers THEN [regs EXCEPT ![dest] = SomePtr] ELSE regs)

\* The factor an operand contributes to the size.
CountsOf(o) ==
    IF IsNum(o) THEN {o.word.val}
    ELSE IF IsReg(o) THEN IF IsInt(regs[o.reg]) THEN {regs[o.reg].val} ELSE {1}
    ELSE IF IsName(o) /\ IsVar(o.name)
         THEN IF IsInt(Scope[o.name]) THEN {Scope[o.name].val}
              ELSE IF Scope[o.name] = NullWord THEN {0} ELSE Ints
    ELSE {1}

OperandSizes ==
    IF TypeOf(Args[1]) # "none" THEN IF Len(Args) >= 2 THEN CountsOf(Args[2]) ELSE {1}
    ELSE IF IsNum(Args[1]) THEN {Args[1].word.val}
    ELSE IF IsReg(Args[1]) /\ IsInt(regs[Args[1].reg]) THEN {regs[Args[1].reg].val}
    ELSE {0}

AllocDest == IF Len(Args) < 3 THEN "stack" ELSE IF IsReg(Args[3]) THEN Args[3].reg ELSE "lost"

ExecAllocOperands == /\ At("alloc") /\ Len(Args) >= 1
                     /\ \E size \in OperandSizes : Allocate(size, stack, AllocDest)

\* The stack form takes the number of its arguments, then a size or the name
\* of a type, a count, and the name of a register.  What a string says is not
\* modelled: any string may be such a name.
AllocStackCount == /\ IsInt(W1) /\ W1.val >= 0 /\ W1.val < Len(stack)
ExecAllocStack ==
    /\ At("alloc") /\ Len(Args) = 0
    /\ LET given == W1.val
           sizeWord == W2
           countWord == Top(Popped(stack, 2))
           named == sizeWord.type = "charp"
           used == IF given = 0 THEN 1
                   ELSE 2 + (IF named /\ given >= 2 THEN 1 ELSE 0)
           rest == Popped(stack, used)
           sizes == IF ~named THEN {sizeWord.val}
                    ELSE IF given >= 2 /\ IsInt(countWord) THEN {countWord.val}
                    ELSE IF given >= 2 /\ countWord.type = "charp"
                         THEN {1} \cup {regs[r].val : r \in {q \in Registers : IsInt(regs[q])}}
                    ELSE {1}
           faults == \/ NullString(sizeWord)
                     \/ named /\ given >= 2 /\ NullString(countWord)
                     \/ given >= 3 /\ NullString(Top(rest))
       IN  \/ ~AllocStackCount /\ EError
           \/ AllocStackCount /\ given > 0 /\ faults /\ Crash
           \/ AllocStackCount /\ given = 0 /\ StackStep(rest)
           \/ /\ AllocStackCount /\ given > 0
              /\ named \/ ~IsInt(sizeWord)
              /\ EError
           \/ /\ AllocStackCount /\ given > 0 /\ (named \/ IsInt(sizeWord))
              /\ \E size \in sizes :
                    IF size > 0 /\ given >= 3
                    THEN IF Top(rest).type # "charp" THEN EError
                         ELSE \E d \in Registers \cup {"lost"} :
                                 Allocate(size, Popped(rest, 1), d)
                    ELSE Allocate(size, rest, "stack")

\* The operands IREADMEM and IWRITEMEM share: each one is a word of the stack
\* when the instruction has too few operands.
AfterAddr(n) == IF n = 0 THEN Popped(stack, 1) ELSE stack
AfterOffset(n) == IF n <= 1 THEN Popped(AfterAddr(n), 1) ELSE AfterAddr(n)
AfterType(n) == IF n <= 2 THEN Popped(AfterOffset(n), 1) ELSE AfterOffset(n)

MemAddr(n) == IF n = 0 THEN W1 ELSE IF IsReg(Args[1]) THEN regs[Args[1].reg] ELSE NullWord
MemOffset(n) == IF n <= 1 THEN Top(AfterAddr(n))
                ELSE IF IsReg(Args[2]) THEN regs[Args[2].reg] ELSE IntWord(0)
MemTypeWord(n) == Top(AfterOffset(n))
MemTypeValid(n) == n > 2 \/ (IsInt(MemTypeWord(n)) /\ MemTypeWord(n).val \in 0 .. 4)
MemType(n) == IF n > 2 THEN TypeOf(Args[3]) ELSE TypeCodes[MemTypeWord(n).val + 1]
Storable(t) == t \in {"int", "float", "char", "charp", "pointer"}

ExecWriteMem ==
    /\ At("@w")
    /\ LET n == Len(Args)
           valueGiven == n >= 4
           valueValid == valueGiven => IsReg(Args[4]) \/ IsNum(Args[4]) \/ IsFloat(Args[4])
                                       \/ IsStr(Args[4])
           rest == IF valueGiven THEN AfterType(n) ELSE Popped(AfterType(n), 1)
       IN  IF MemAddr(n).type # "pointer" THEN MemFault(AfterAddr(n))
           ELSE IF ~IsInt(MemOffset(n)) THEN MemFault(AfterOffset(n))
           ELSE IF ~MemTypeValid(n) THEN MemFault(AfterType(n))
           ELSE IF ~valueValid \/ MemAddr(n) = NullWord \/ ~Storable(MemType(n))
                THEN MemFault(rest)
           ELSE StackStep(rest) \/ Crash

ExecReadMem ==
    /\ At("@r")
    /\ LET n == Len(Args)
           rest == AfterType(n)
       IN  IF MemAddr(n).type # "pointer" THEN MemFault(AfterAddr(n))
           ELSE IF ~IsInt(MemOffset(n)) THEN MemFault(AfterOffset(n))
           ELSE IF ~MemTypeValid(n) THEN MemFault(rest)
           ELSE IF MemAddr(n) = NullWord \/ ~Storable(MemType(n)) THEN MemFault(rest)
           ELSE \/ Crash
                \/ n < 4 /\ \E w \in WordsOf(MemType(n)) : StackStep(Push(rest, StackCap, w))
                \/ /\ n >= 4 /\ IsReg(Args[4])
                   /\ \E w \in WordsOf(MemType(n)) : RegStep(Args[4].reg, w)
                \/ n >= 4 /\ ~IsReg(Args[4]) /\ MemFault(rest)

ExecCpyMem ==
    /\ At("@cpy")
    /\ \/ StackStep(Popped(stack, 3))
       \/ /\ W1.type = "pointer" /\ W2.type = "pointer" /\ IsInt(Top(Popped(stack, 2)))
          /\ Crash

\* Two pointer registers and a size other than 0 are compared; anything else
\* is a no-op.
ExecMemCmp ==
    /\ At("@cmp")
    /\ LET n == Len(Args)
           Points(k) == n >= k /\ IsReg(Args[k]) /\ regs[Args[k].reg] = SomePtr
           size == IF n < 3 THEN 0
                   ELSE IF IsNum(Args[3]) THEN Args[3].word.val
                   ELSE IF IsReg(Args[3]) /\ IsInt(regs[Args[3].reg])
                        THEN regs[Args[3].reg].val ELSE 0
       IN  IF ~(Points(1) /\ Points(2) /\ size # 0) THEN StackStep(stack)
           ELSE \/ Crash
                \/ \E v \in Ints :
                     IF n < 4 THEN StackStep(Push(stack, StackCap, IntWord(v)))
                     ELSE IF IsReg(Args[4]) THEN RegStep(Args[4].reg, IntWord(v))
                     ELSE StackStep(stack)

\* free of an address that malloc did not return may abort the process.
ExecFree ==
    /\ At("free")
    /\ \/ /\ Len(Args) = 0
          /\ StackStep(Popped(stack, 1)) \/ (W1 = SomePtr /\ Crash)
       \/ /\ Len(Args) > 0 /\ IsReg(Args[1])
          /\ IF regs[Args[1].reg].type = "pointer" THEN RegStep(Args[1].reg, NullWord)
             ELSE StackStep(stack)
       \/ /\ Len(Args) > 0 /\ IsPtr(Args[1])
          /\ code' = [code EXCEPT ![ip + 1] = CutPointers(Instr, {1})]
          /\ ip' = ip + 1
          /\ UNCHANGED <<labels, stack, callStack, regs, scopes, outcome>>
       \/ /\ Len(Args) > 0 /\ ((IsReg(Args[1]) /\ regs[Args[1].reg] = SomePtr)
                               \/ (IsPtr(Args[1]) /\ Args[1].word = SomePtr))
          /\ Crash
       \/ Len(Args) > 0 /\ ~IsReg(Args[1]) /\ ~IsPtr(Args[1]) /\ StackStep(stack)

----------------------------------------------------------------------------
(* Strings and the outside world.                                          *)

\* Two strings become one with a space between them; other words are lost.
ExecMerge ==
    /\ At("merge")
    /\ IF Args # <<>>
       THEN \/ \E w \in SomeStrings : StackStep(Push(stack, StackCap, w))
            \/ Overlong /\ Crash
       ELSE IF ~(W1.type = "charp" /\ W2.type = "charp") THEN StackStep(Popped(stack, 2))
       ELSE IF NullString(W1) \/ NullString(W2) THEN Crash
       ELSE StackStep(Push(Popped(stack, 2), StackCap, Str(StrLen(W2) + 1 + StrLen(W1))))

\* What a format string asks for is not modelled: any number of words, and one
\* that asks for a string where the word is none, or that outgrows the fixed
\* buffers, may fault.
ExecSprintf ==
    /\ At("sprintf")
    /\ IF W1.type # "charp" \/ NullString(W1) THEN EError
       ELSE \E n \in 0 .. Len(stack) :
              IF n >= Len(stack) \/ (\E k \in 1 .. n : Peek(stack, k).type = "none")
              THEN EError
              ELSE \/ Crash
                   \/ \E w \in SomeStrings :
                        StackStep(Push(Popped(stack, n + 1), StackCap, w))

\* `ovm stack` takes the query from the stack, where any string may be one.
Queries == {"stack_size", "stack_ptr", "platform", "unknown"}
Answers(q, s) == CASE q = "stack_size" -> {IntWord(Len(s))}
                   [] q = "stack_ptr"  -> {SomePtr}
                   [] q = "platform"   -> SomeStrings
                   [] OTHER -> {}
ExecOvm ==
    /\ At("ovm")
    /\ LET o == Args[1]
           onStack == IsName(o) /\ o.name = "stack"
           rest == IF onStack THEN Popped(stack, 1) ELSE stack
           queries == IF onStack THEN Queries ELSE IF IsName(o) THEN {o.name} ELSE {"unknown"}
       IN  IF onStack /\ W1.type # "charp" THEN EError
           ELSE IF onStack /\ NullString(W1) THEN Crash
           ELSE \E q \in queries :
                  IF Answers(q, rest) = {} THEN StackStep(rest)
                  ELSE \E w \in Answers(q, rest) : StackStep(Push(rest, StackCap, w))

\* rax selects the service.  1 sleeps and 2 runs a shell command: neither
\* changes the machine.  3 calls a function of a shared library, which like
\* ExampleExtern of src/libx.c may push an int, or cannot be loaded.
Service == IF IsInt(regs["rax"]) THEN regs["rax"].val ELSE 0
ExternalCall ==
    /\ \E s \in {stack} \cup {Push(stack, StackCap, w) : w \in WordsOf("int")} : stack' = s
    /\ flags' = flags \cup {"external_library"}
    /\ ip' = ip + 1
    /\ UNCHANGED <<prog, callStack, regs, scopes, halted, exitCode, status>>
ExecXcall ==
    /\ At("xcall")
    /\ LET named == regs["rbx"].type = "charp" /\ regs["rcx"].type = "charp" IN
       \/ Service = 3 /\ named /\ ExternalCall
       \/ Service = 3 /\ ~named /\ EError
       \/ Service = 7 /\ StackStep(Push(stack, StackCap, NullWord))
       \/ Service \notin {3, 7} /\ StackStep(stack)

----------------------------------------------------------------------------
ExecuteInstruction ==
    \/ ExecPush \/ ExecMov \/ ExecPop \/ ExecLoad \/ ExecStore \/ ExecPrint \/ ExecDup
    \/ ExecSwap \/ ExecDrop \/ ExecRotL \/ ExecRotR \/ ExecSizeof \/ ExecCast \/ ExecHere
    \/ ExecEval \/ ExecAdd \/ ExecSub \/ ExecMul \/ ExecDiv \/ ExecMod \/ ExecAnd \/ ExecOr
    \/ ExecXor \/ ExecNot \/ ExecCompare \/ ExecCmp \/ ExecInc \/ ExecDec
    \/ ExecJmp \/ ExecJmpif \/ ExecCall \/ ExecRet \/ ExecHalt \/ ExecNop
    \/ ExecVar \/ ExecSetvar \/ ExecGetvar \/ ExecSetglobalvar \/ ExecGetglobalvar
    \/ ExecToggle \/ ExecAllocOperands \/ ExecAllocStack \/ ExecWriteMem \/ ExecReadMem
    \/ ExecCpyMem \/ ExecMemCmp \/ ExecFree \/ ExecMerge \/ ExecSprintf \/ ExecOvm
    \/ ExecXcall

\* execute_program looks at `halted` and at ip before every instruction.
Next == (~halted /\ ExecuteInstruction) \/ Stop

\* execute_program is a loop of one thread: it goes on while it can.
Spec == Init /\ [][Next]_vars
FairSpec == Spec /\ WF_vars(Next)

----------------------------------------------------------------------------
(* Properties.                                                             *)

\* Every variable keeps its type: words carry a payload of their tag, both
\* stacks stay within the capacities xpu_init gives them, and instructions
\* stay well formed while get_pointer writes into their operands.
TypeOK ==
    /\ code \in Seq([op : Ops, args : Seq(Operands)])
    /\ labels \in Seq([name : Names, address : Int])
    /\ ip \in Int
    /\ stack \in Seq(Words) /\ Len(stack) <= StackCap
    /\ callStack \in Seq(Words) /\ Len(callStack) <= CallCap
    /\ regs \in [Registers -> Words]
    /\ globals \in [Names -> Words \cup {Absent}]
    /\ local \in [Names -> Words \cup {Absent}]
    /\ inLocal \in BOOLEAN /\ halted \in BOOLEAN
    /\ exitCode \in Ints
    /\ flags \subseteq {"external_library"}
    /\ status \in {"running", "stopped", "error", "crashed"}

\* However jumps, calls, returns and memory errors move ip, the loop of
\* execute_program never sees it further than one past the last instruction:
\* the wrap of `target - 1` and the address a `ret` takes from the call stack
\* never lead anywhere else.
IpInProgram == ip \in 0 .. Len(code)

\* The call stack holds nothing but places of `call` instructions of this
\* program, also after calls that found it full and returns that found it
\* empty.
CallSites == \A k \in 1 .. Len(callStack) :
                /\ IsInt(callStack[k])
                /\ callStack[k].val \in 0 .. (Len(code) - 1)
                /\ code[callStack[k].val + 1].op = "call"

\* A `ret` with a return address resumes right behind a `call` instruction.
ReturnsAfterCall ==
    [][At("ret") /\ callStack # <<>> /\ status' = "running"
         => ip' \in 1 .. Len(code) /\ code[ip'].op = "call"]_vars

\* Once an instruction has set a nonzero exit code, be it `halt` or a failed
\* memory access, the loop runs no other instruction.
FaultsStop == status = "running" /\ exitCode # 0 => halted \/ ip = Len(code)

\* While a local scope is open only `setglobalvar` changes the program's
\* variables; var, setvar, inc and dec of a name that exists in both scopes
\* leave the global one alone.
LocalScopeShieldsGlobals ==
    [][inLocal /\ globals' # globals => At("setglobalvar")]_vars

\* When the data stack has room for them, a call leaves its arguments on top
\* of it with the first argument uppermost, whatever kinds of operand they are.
FirstArgumentOnTop ==
    [][At("call") /\ Len(Args) > 1 /\ Len(stack) + Len(Args) <= StackCap + 1 /\ status' = "running"
         => /\ Top(stack') \in ArgWords(Args[2])
            /\ Peek(stack', Len(Args) - 2) \in ArgWords(Args[Len(Args)])
            /\ Popped(stack', Len(Args) - 1) = stack]_vars

\* On every stack the machine reaches, IROTL sinks the top word to the n-th
\* place, IROTR undoes it, and the words below the n-th are never touched.
RotationsInverse ==
    \A n \in 1 .. (Len(stack) - 1) :
       /\ RotR(RotL(stack, n), n) = stack
       /\ Peek(RotL(stack, n), n - 1) = Top(stack)
       /\ Popped(RotL(stack, n), n) = Popped(stack, n)

\* Running a program rewrites no instruction, except that get_pointer cuts the
\* pointer operands that a `call` or a `free` has read.
CodeKept ==
    /\ Len(code') = Len(code)
    /\ \A k \in 1 .. Len(code) :
         /\ code'[k].op = code[k].op
         /\ Len(code'[k].args) = Len(code[k].args)
         /\ \A j \in 1 .. Len(code[k].args) :
               code'[k].args[j] # code[k].args[j]
                 => IsPtr(code[k].args[j]) /\ code[k].op \in {"call", "free"}
OnlyPointersAreCut == [][CodeKept]_vars

\* A program without `ret` whose jumps and calls only lead forward comes to an
\* end: execute_program leaves its loop, or the process exits.
TargetsForward(c, ls) ==
    \A k \in 1 .. Len(c) :
       /\ c[k].op # "ret"
       /\ c[k].op \in {"jmp", "jmpif", "call"} =>
            LET o == c[k].args[1] IN
            IF IsNum(o) THEN o.word.val >= k
            ELSE IsName(o) /\ FirstNamed(ls, o.name) # {} /\ FoundAt(ls, o.name) >= k
ForwardProgramsEnd == TargetsForward(code, labels) => <>(status # "running")

=============================================================================
