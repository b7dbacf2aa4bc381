--------------------------- MODULE OrtaVM_proofs ---------------------------
(***************************************************************************)
(* The safety of the virtual machine for every width, both capacities, any *)
(* set of registers and names, and every program.                          *)
(*                                                                         *)
(* Most instructions are Ordinary: they leave the program, the variables   *)
(* and the call stack alone, and end in one of six ways.  One lemma shows  *)
(* that an Ordinary step keeps the inductive invariant; one lemma for each *)
(* instruction shows that it is Ordinary, or keeps the invariant itself.   *)
(***************************************************************************)
EXTENDS OrtaVM, XStack_proofs

USE CapacityAssumption

\* What execute_instruction relies on when it reads an operand: the program
\* still is one that the assembler could have made.
WellFormed ==
    /\ \A k \in 1 .. Len(code) : IsInstr(code[k])
    /\ Len(code) < Half
    /\ labels \in Seq([name : Names \ {"(ptr"}, address : 0 .. (Len(code) - 1)])

IInv == TypeOK /\ IpInProgram /\ CallSites /\ WellFormed

Ordinary ==
    \/ \E s \in Stacks(StackCap), r \in [Registers -> Words] : CanExecute /\ Step(s, r)
    \/ \E s \in Stacks(StackCap), t \in 0 .. (Len(code) - 1) : Goto(s, t)
    \/ \E s \in Stacks(StackCap) : MemFault(s)
    \/ EError
    \/ Crash
    \/ Stop

----------------------------------------------------------------------------
(* The initial states.                                                     *)

LEMMA EntryInProgram ==
  ASSUME NEW p, IsProgram(p)
  PROVE  EntryOf(p.labels) \in 0 .. Len(p.code)
  <1>1. Len(p.code) \in Nat /\ Len(p.labels) \in Nat
    BY LenProperties DEF IsProgram
  <1>2. CASE FirstNamed(p.labels, "__entry") = {}
    BY <1>1, <1>2 DEF EntryOf
  <1>3. CASE FirstNamed(p.labels, "__entry") # {}
    <2> DEFINE k == CHOOSE j \in FirstNamed(p.labels, "__entry") : TRUE
    <2>1. k \in 1 .. Len(p.labels)
      BY <1>3 DEF FirstNamed
    <2>2. p.labels[k] \in [name : Names \ {"(ptr"}, address : 0 .. (Len(p.code) - 1)]
      BY <2>1, ElementOfSeq DEF IsProgram
    <2> QED
      BY <1>1, <1>3, <2>2 DEF EntryOf, FoundAt
  <1> QED
    BY <1>2, <1>3

LEMMA InitInv == Init => IInv
  <1> SUFFICES ASSUME Init PROVE IInv
    OBVIOUS
  <1>1. PICK p \in Programs : code = p.code /\ labels = p.labels /\ ip = EntryOf(p.labels)
    BY DEF Init
  <1>2. IsProgram(p)
    BY ProgramAssumption
  <1>3. ip \in 0 .. Len(code) /\ Len(code) \in Nat
    BY <1>1, <1>2, EntryInProgram, LenProperties DEF IsProgram
  <1>4. labels \in Seq([name : Names, address : Int])
    <2> DEFINE S == [name : Names \ {"(ptr"}, address : 0 .. (Len(code) - 1)]
               T == [name : Names, address : Int]
    <2>1. S \subseteq T
      BY <1>3
    <2>2. labels \in Seq(S)
      BY <1>1, <1>2 DEF IsProgram
    <2> HIDE DEF S, T
    <2>3. labels \in Seq(T)
      BY <2>1, <2>2, SeqMonotonic
    <2> QED
      BY <2>3 DEF T
  <1>5. <<>> \in Seq(Words) /\ Len(<<>>) = 0
    BY EmptySeq
  <1>6. 0 \in Ints
    BY WidthAssumption DEF Ints
  <1>7. TypeOK
    <2>1. code \in Seq([op : Ops, args : Seq(Operands)]) /\ ip \in Int
      BY <1>1, <1>2, <1>3 DEF IsProgram
    <2>2. /\ stack \in Seq(Words) /\ Len(stack) <= StackCap
          /\ callStack \in Seq(Words) /\ Len(callStack) <= CallCap
      BY <1>5 DEF Init
    <2>3. /\ regs \in [Registers -> Words]
          /\ globals \in [Names -> Words \cup {Absent}]
          /\ local \in [Names -> Words \cup {Absent}]
      BY NullWordType DEF Init, NoVars
    <2> QED
      BY <1>4, <1>6, <2>1, <2>2, <2>3 DEF TypeOK, Init
  <1>8. IpInProgram /\ CallSites
    BY <1>3, <1>5 DEF IpInProgram, CallSites, Init
  <1>9. WellFormed
    BY <1>1, <1>2 DEF WellFormed, IsProgram
  <1> QED
    BY <1>7, <1>8, <1>9 DEF IInv

----------------------------------------------------------------------------
(* The instruction at ip and its operands.                                 *)

LEMMA Current ==
  ASSUME IInv, CanExecute
  PROVE  /\ ip \in 0 .. (Len(code) - 1) /\ ip + 1 \in 1 .. Len(code)
         /\ Len(code) \in Nat
         /\ Args \in Seq(Operands) /\ Instr.op \in Ops
         /\ Instr \in [op : Ops, args : Seq(Operands)]
         /\ IsInstr(Instr)
         /\ \A k \in 1 .. Len(Args) : Args[k] \in Operands
         /\ Len(Args) \in Nat
  <1>1. /\ code \in Seq([op : Ops, args : Seq(Operands)])
        /\ ip \in 0 .. Len(code) /\ ip < Len(code)
    BY DEF IInv, TypeOK, IpInProgram, CanExecute
  <1>2. Len(code) \in Nat
    BY <1>1, LenProperties
  <1>3. ip \in 0 .. (Len(code) - 1) /\ ip + 1 \in 1 .. Len(code)
    BY <1>1, <1>2
  <1>4. Instr \in [op : Ops, args : Seq(Operands)]
    BY <1>1, <1>3, ElementOfSeq DEF Instr
  <1>5. Args \in Seq(Operands) /\ Instr.op \in Ops
    BY <1>4 DEF Args
  <1>6. IsInstr(Instr)
    BY <1>3 DEF IInv, WellFormed, Instr
  <1> QED
    BY <1>2, <1>3, <1>4, <1>5, <1>6, ElementOfSeq, LenProperties

LEMMA OperandType ==
  ASSUME NEW o \in Operands
  PROVE  /\ IsReg(o) => o.reg \in Registers
         /\ IsName(o) => o.name \in Names
         /\ o.kind = "lit" => o.word \in LitWords /\ o.word \in Words
         /\ o.kind \in {"lit", "reg", "name"}
         /\ IsNum(o) => o.word.val \in Ints /\ o.word.val \in Int
  BY WidthAssumption DEF Operands, IsReg, IsName, IsNum, LitWords, Words, ValuesOf, Ints

LEMMA OneOperand ==
  ASSUME IInv, CanExecute, Instr.op \in OneArg
  PROVE  Args[1] \in Operands /\ Len(Args) = 1
  BY Current DEF IsInstr, ArgCountOK, Args

LEMMA TwoOperands ==
  ASSUME IInv, CanExecute, Instr.op \in TwoArgs
  PROVE  Args[1] \in Operands /\ Args[2] \in Operands /\ Len(Args) = 2
  BY Current DEF IsInstr, ArgCountOK, Args

LEMMA VarOperand ==
  ASSUME IInv, CanExecute, Instr.op \in VarOps
  PROVE  IsName(Args[1]) /\ Args[1].name \in Names
  <1>1. Instr.op \in OneArg
    BY DEF VarOps, OneArg
  <1> QED
    BY <1>1, OneOperand, OperandType, Current DEF IsInstr, Args

LEMMA MachineType ==
  ASSUME IInv
  PROVE  /\ stack \in Stacks(StackCap) /\ stack \in Seq(Words) /\ Len(stack) \in Nat
         /\ callStack \in Stacks(CallCap) /\ callStack \in Seq(Words)
         /\ regs \in [Registers -> Words]
         /\ \A r \in Registers : regs[r] \in Words
         /\ Top(stack) \in Words /\ W1 \in Words /\ W2 \in Words
         /\ \A n \in Nat : Popped(stack, n) \in Stacks(StackCap) /\ Top(Popped(stack, n)) \in Words
  <1>1. /\ stack \in Stacks(StackCap) /\ stack \in Seq(Words)
        /\ callStack \in Stacks(CallCap) /\ callStack \in Seq(Words)
        /\ regs \in [Registers -> Words]
    BY DEF IInv, TypeOK, Stacks
  <1>2. \A n \in Nat : Popped(stack, n) \in Stacks(StackCap)
    BY <1>1, PoppedType
  <1>3. \A n \in Nat : Popped(stack, n) \in Seq(Words)
    BY <1>2 DEF Stacks
  <1>4. \A n \in Nat : Top(Popped(stack, n)) \in Words
    BY <1>3, TopType
  <1> QED
    BY <1>1, <1>2, <1>4, TopType, LenProperties DEF W1, W2

----------------------------------------------------------------------------
(* How an instruction ends.                                                *)

LEMMA OrdinaryKeeps ==
  ASSUME IInv, Ordinary
  PROVE  IInv'
  <1>1. Len(code) \in Nat
    BY LenProperties DEF IInv, TypeOK
  <1>2. /\ code' = code /\ labels' = labels /\ callStack' = callStack
        /\ globals' = globals /\ local' = local /\ inLocal' = inLocal
        /\ halted' = halted /\ flags' = flags
    BY DEF Ordinary, Step, Goto, MemFault, EError, Crash, Stop, prog, scopes, outcome
  <1>3. ip' \in 0 .. Len(code)
    BY <1>1 DEF Ordinary, Step, Goto, MemFault, EError, Crash, Stop, CanExecute, prog, scopes,
                outcome, IInv, IpInProgram
  <1>4. stack' \in Stacks(StackCap)
    BY DEF Ordinary, Step, Goto, MemFault, EError, Crash, Stop, prog, scopes, outcome,
           IInv, TypeOK, Stacks
  <1>5. regs' \in [Registers -> Words]
    BY DEF Ordinary, Step, Goto, MemFault, EError, Crash, Stop, prog, scopes, outcome,
           IInv, TypeOK
  <1>6. /\ status' \in {"running", "stopped", "error", "crashed"}
        /\ exitCode' \in Ints
    BY WidthAssumption
    DEF Ordinary, Step, Goto, MemFault, EError, Crash, Stop, prog, scopes, outcome,
        IInv, TypeOK, Ints
  <1>7. TypeOK'
    BY <1>1, <1>2, <1>3, <1>4, <1>5, <1>6 DEF IInv, TypeOK, Stacks
  <1>8. IpInProgram'
    BY <1>2, <1>3 DEF IpInProgram
  <1>9. CallSites'
    BY <1>2 DEF IInv, CallSites
  <1>10. WellFormed'
    BY <1>2 DEF IInv, WellFormed
  <1> QED
    BY <1>7, <1>8, <1>9, <1>10 DEF IInv

LEMMA StepOrdinary ==
  ASSUME CanExecute, NEW s \in Stacks(StackCap), NEW r \in [Registers -> Words], Step(s, r)
  PROVE  Ordinary
  BY DEF Ordinary

LEMMA StackStepOrdinary ==
  ASSUME IInv, CanExecute, NEW s \in Stacks(StackCap), StackStep(s)
  PROVE  Ordinary
  BY StepOrdinary, MachineType DEF StackStep

LEMMA RegStepOrdinary ==
  ASSUME IInv, CanExecute, NEW r \in Registers, NEW w \in Words, RegStep(r, w)
  PROVE  Ordinary
  <1>1. [regs EXCEPT ![r] = w] \in [Registers -> Words]
    BY MachineType
  <1> QED
    BY <1>1, StepOrdinary, MachineType DEF RegStep

LEMMA PushStepOrdinary ==
  ASSUME IInv, CanExecute, NEW s \in Stacks(StackCap), NEW w \in Words,
         StackStep(Push(s, StackCap, w))
  PROVE  Ordinary
  BY StackStepOrdinary, PushType

LEMMA PopStepOrdinary ==
  ASSUME IInv, CanExecute, NEW n \in Nat, StackStep(Popped(stack, n))
  PROVE  Ordinary
  BY StackStepOrdinary, MachineType

LEMMA StayOrdinary ==
  ASSUME IInv, CanExecute, StackStep(stack)
  PROVE  Ordinary
  BY StackStepOrdinary, MachineType

LEMMA EndsOrdinary == (EError => Ordinary) /\ (Crash => Ordinary) /\ (Stop => Ordinary)
  BY DEF Ordinary

LEMMA ReduceOrdinary ==
  ASSUME IInv, CanExecute, NEW results, results \subseteq Words, Reduce(results)
  PROVE  Ordinary
  <1>1. CASE results = {}
    BY <1>1, EndsOrdinary DEF Reduce
  <1>2. CASE results # {}
    <2>1. PICK w \in results : StackStep(Push(Popped(stack, 2), StackCap, w))
      BY <1>2 DEF Reduce
    <2>2. w \in Words /\ Popped(stack, 2) \in Stacks(StackCap)
      BY MachineType
    <2> QED
      BY <2>1, <2>2, PushStepOrdinary
  <1> QED
    BY <1>1, <1>2

----------------------------------------------------------------------------
(* The instructions that move words.                                       *)

LEMMA PushOrdinary == ASSUME IInv, ExecPush PROVE Ordinary
  <1> DEFINE o == Args[1]
  <1>1. CanExecute /\ Instr.op \in OneArg
    BY DEF ExecPush, At, OneArg
  <1>2. o \in Operands
    BY <1>1, OneOperand
  <1>3. CASE (IsNum(o) \/ IsFloat(o) \/ IsStr(o)) /\ StackStep(Push(stack, StackCap, o.word))
    <2>1. o.word \in Words
      BY <1>2, <1>3, OperandType DEF IsNum, IsFloat, IsStr
    <2> QED
      BY <1>1, <1>3, <2>1, PushStepOrdinary, MachineType
  <1>4. CASE IsReg(o) /\ StackStep(Push(stack, StackCap, regs[o.reg]))
    <2>1. regs[o.reg] \in Words
      BY <1>2, <1>4, OperandType, MachineType
    <2> QED
      BY <1>1, <1>4, <2>1, PushStepOrdinary, MachineType
  <1> QED
    BY <1>3, <1>4, EndsOrdinary DEF ExecPush

LEMMA MovOrdinary == ASSUME IInv, ExecMov PROVE Ordinary
  <1> DEFINE src == Args[1] dst == Args[2]
  <1>1. CanExecute /\ Instr.op \in TwoArgs
    BY DEF ExecMov, At, TwoArgs
  <1>2. src \in Operands /\ dst \in Operands
    BY <1>1, TwoOperands
  <1>3. CASE IsReg(dst) /\ IsReg(src) /\ RegStep(dst.reg, regs[src.reg])
    <2>1. dst.reg \in Registers /\ regs[src.reg] \in Words
      BY <1>2, <1>3, OperandType, MachineType
    <2> QED
      BY <1>1, <1>3, <2>1, RegStepOrdinary
  <1>4. CASE IsReg(dst) /\ (IsNum(src) \/ IsFloat(src) \/ IsStr(src)) /\ RegStep(dst.reg, src.word)
    <2>1. dst.reg \in Registers /\ src.word \in Words
      BY <1>2, <1>4, OperandType DEF IsNum, IsFloat, IsStr
    <2> QED
      BY <1>1, <1>4, <2>1, RegStepOrdinary
  <1> QED
    BY <1>1, <1>3, <1>4, StayOrdinary, EndsOrdinary DEF ExecMov

LEMMA PopOrdinary == ASSUME IInv, ExecPop PROVE Ordinary
  <1> DEFINE o == Args[1]
  <1>1. CanExecute /\ Instr.op \in OneArg
    BY DEF ExecPop, At, OneArg
  <1>2. CASE IsReg(o) /\ Step(Popped(stack, 1), [regs EXCEPT ![o.reg] = Top(stack)])
    <2>1. [regs EXCEPT ![o.reg] = Top(stack)] \in [Registers -> Words]
      BY <1>1, <1>2, OneOperand, OperandType, MachineType
    <2> QED
      BY <1>1, <1>2, <2>1, StepOrdinary, MachineType
  <1> QED
    BY <1>2, EndsOrdinary DEF ExecPop

LEMMA LoadOrdinary == ASSUME IInv, ExecLoad PROVE Ordinary
  <1>1. CanExecute /\ Instr.op \in OneArg
    BY DEF ExecLoad, At, OneArg
  <1>2. CASE IsReg(Args[1])
    <2>1. regs[Args[1].reg] \in Words
      BY <1>1, <1>2, OneOperand, OperandType, MachineType
    <2> QED
      BY <1>1, <1>2, <2>1, PushStepOrdinary, MachineType DEF ExecLoad
  <1>3. CASE ~IsReg(Args[1])
    BY <1>1, <1>3, StayOrdinary DEF ExecLoad
  <1> QED
    BY <1>2, <1>3

LEMMA StoreOrdinary == ASSUME IInv, ExecStore PROVE Ordinary
  <1> DEFINE r == IF IsReg(Args[1]) THEN [regs EXCEPT ![Args[1].reg] = Top(stack)] ELSE regs
  <1>1. CanExecute /\ Instr.op \in OneArg
    BY DEF ExecStore, At, OneArg
  <1>2. r \in [Registers -> Words]
    BY <1>1, OneOperand, OperandType, MachineType
  <1> QED
    BY <1>1, <1>2, StepOrdinary, MachineType DEF ExecStore

LEMMA PrintOrdinary == ASSUME IInv, ExecPrint PROVE Ordinary
  BY StayOrdinary, PopStepOrdinary, EndsOrdinary DEF ExecPrint, At

LEMMA DupOrdinary == ASSUME IInv, ExecDup PROVE Ordinary
  <1>1. CanExecute
    BY DEF ExecDup, At
  <1>2. \/ Crash \/ StackStep(stack) \/ StackStep(Push(stack, StackCap, Top(stack)))
    BY Zenon DEF ExecDup
  <1> QED
    BY <1>1, <1>2, StayOrdinary, PushStepOrdinary, EndsOrdinary, MachineType

LEMMA SwapOrdinary == ASSUME IInv, ExecSwap PROVE Ordinary
  <1> DEFINE ws == <<Top(stack), Top(Popped(stack, 1))>>
  <1>1. CanExecute /\ StackStep(PushAll(Popped(stack, 2), StackCap, ws))
    BY DEF ExecSwap, At
  <1>2. ws \in Seq(Words)
    BY MachineType
  <1>3. PushAll(Popped(stack, 2), StackCap, ws) \in Stacks(StackCap)
    BY <1>2, MachineType, PushAllType
  <1> QED
    BY <1>1, <1>3, StackStepOrdinary

LEMMA DropOrdinary == ASSUME IInv, ExecDrop PROVE Ordinary
  BY PopStepOrdinary DEF ExecDrop, At

LEMMA AtoiType == ASSUME NEW o \in Operands PROVE Atoi(o) \in Ints /\ Atoi(o) \in Int
  <1>1. Ints \subseteq Int /\ 0 \in Ints
    BY WidthAssumption DEF Ints
  <1>2. IsFloat(o) => o.whole \in Ints
    BY DEF Operands, IsFloat
  <1> QED
    BY <1>1, <1>2, OperandType DEF Atoi

LEMMA RotateOrdinary == ASSUME IInv, ExecRotL \/ ExecRotR PROVE Ordinary
  <1>1. CanExecute /\ Instr.op \in OneArg
    BY DEF ExecRotL, ExecRotR, At, OneArg
  <1> DEFINE n == Atoi(Args[1])
  <1>2. StackStep(RotL(stack, n)) \/ StackStep(RotR(stack, n))
    BY DEF ExecRotL, ExecRotR
  <1>3. n \in Int
    BY <1>1, AtoiType, OneOperand
  <1>4. RotL(stack, n) \in Stacks(StackCap) /\ RotR(stack, n) \in Stacks(StackCap)
    BY <1>3, RotationTypes, MachineType
  <1> QED
    BY <1>1, <1>2, <1>4, StackStepOrdinary

LEMMA TypeOfType == ASSUME NEW o PROVE TypeOf(o) \in WordTypes
  BY DEF TypeOf, WordTypes

LEMMA SizeofOrdinary == ASSUME IInv, ExecSizeof PROVE Ordinary
  <1>1. CanExecute
    BY DEF ExecSizeof, At
  <1>2. PICK n \in {0, 1, 4, 8} : StackStep(Push(stack, StackCap, IntWord(n)))
    BY DEF ExecSizeof
  <1> QED
    BY <1>1, <1>2, IntWordType, PushStepOrdinary, MachineType

LEMMA CastOrdinary == ASSUME IInv, ExecCast PROVE Ordinary
  <1>1. CanExecute
    BY DEF ExecCast, At
  <1>2. PICK w \in CastWords(Top(stack), TypeOf(Args[1])) :
             StackStep(Push(Popped(stack, 1), StackCap, w))
    BY DEF ExecCast
  <1>3. w \in Words
    BY TypeOfType, CastType, MachineType
  <1> QED
    BY <1>1, <1>2, <1>3, PushStepOrdinary, MachineType

LEMMA SomeStringsType == SomeStrings \subseteq Words
  BY WordsOfType DEF SomeStrings, WordTypes

LEMMA IntsAreInt == Ints \subseteq Int
  BY WidthAssumption DEF Ints

LEMMA HereOrdinary == ASSUME IInv, ExecHere PROVE Ordinary
  BY SomeStringsType, PushStepOrdinary, MachineType DEF ExecHere, At

LEMMA EvalOrdinary == ASSUME IInv, ExecEval PROVE Ordinary
  <1>1. CanExecute
    BY DEF ExecEval, At
  <1>2. CASE \E v \in Ints : StackStep(Push(stack, StackCap, IntWord(v)))
    BY <1>1, <1>2, IntsAreInt, IntWordType, PushStepOrdinary, MachineType
  <1> QED
    BY <1>2, EndsOrdinary DEF ExecEval

----------------------------------------------------------------------------
(* Arithmetic, logic and comparison.                                       *)

LEMMA SourceType ==
  ASSUME IInv, NEW o \in Operands, SrcValid(o)
  PROVE  SrcWord(o) \in Words /\ SrcWord(o).val \in Int
  <1>1. SrcWord(o) \in Words
    BY OperandType, MachineType DEF SrcValid, SrcWord, IsNum, IsFloat, IsReg
  <1> QED
    BY <1>1, WordValue

LEMMA RegisterFormOrdinary ==
  ASSUME IInv, CanExecute, NEW a \in Operands, IsReg(a),
         NEW src \in Words, NEW n \in Int,
         NEW w \in RegSum(regs[a.reg], src, n), RegStep(a.reg, w)
  PROVE  Ordinary
  <1>1. a.reg \in Registers /\ regs[a.reg] \in Words
    BY OperandType, MachineType
  <1>2. w \in Words
    BY <1>1, RegisterFormTypes
  <1> QED
    BY <1>1, <1>2, RegStepOrdinary

LEMMA TopFormOrdinary ==
  ASSUME IInv, CanExecute, NEW o \in Operands, NEW n \in Int,
         NEW w \in (IF IsNum(o) THEN Displaced(W1, n) ELSE {W1}),
         StackStep(Push(stack, StackCap, w))
  PROVE  Ordinary
  <1>1. w \in Words
    BY RegisterFormTypes, MachineType
  <1> QED
    BY <1>1, PushStepOrdinary, MachineType

LEMMA AddOrdinary == ASSUME IInv, ExecAdd PROVE Ordinary
  <1>1. CanExecute
    BY DEF ExecAdd, At
  <1>2. CASE Len(Args) = 2 /\ ~SrcValid(Args[2]) /\ EError
    BY <1>2, EndsOrdinary
  <1>3. CASE Len(Args) = 2 /\ SrcValid(Args[2]) /\ ~IsReg(Args[1]) /\ StackStep(stack)
    BY <1>1, <1>3, StayOrdinary
  <1>4. CASE /\ Len(Args) = 2 /\ SrcValid(Args[2]) /\ IsReg(Args[1])
             /\ LET src == SrcWord(Args[2])
                    sums == RegSum(regs[Args[1].reg], src, src.val)
                IN  IF sums = {} THEN EError ELSE \E w \in sums : RegStep(Args[1].reg, w)
    <2> DEFINE src == SrcWord(Args[2])
               sums == RegSum(regs[Args[1].reg], src, src.val)
    <2>1. Args[1] \in Operands /\ Args[2] \in Operands
      BY <1>1, <1>4, Current
    <2>2. src \in Words /\ src.val \in Int
      BY <1>4, <2>1, SourceType
    <2>3. CASE \E w \in sums : RegStep(Args[1].reg, w)
      BY <1>1, <1>4, <2>1, <2>2, <2>3, RegisterFormOrdinary
    <2> QED
      BY <1>4, <2>3, EndsOrdinary
  <1>5. CASE /\ Len(Args) = 1
             /\ \E w \in (IF IsNum(Args[1]) THEN Displaced(W1, Args[1].word.val) ELSE {W1}) :
                   StackStep(Push(stack, StackCap, w))
    <2> DEFINE n == IF IsNum(Args[1]) THEN Args[1].word.val ELSE 0
    <2>1. Args[1] \in Operands
      BY <1>1, <1>5, Current
    <2>2. n \in Int
      BY <2>1, OperandType
    <2>3. PICK w \in (IF IsNum(Args[1]) THEN Displaced(W1, n) ELSE {W1}) :
             StackStep(Push(stack, StackCap, w))
      BY <1>5
    <2> HIDE DEF n
    <2> QED
      BY <1>1, <2>1, <2>2, <2>3, TopFormOrdinary
  <1>6. CASE Len(Args) = 0 /\ Reduce(AddWords(W1, W2))
    BY <1>1, <1>6, ReduceOrdinary, ArithmeticTypes, MachineType
  <1> QED
    BY <1>2, <1>3, <1>4, <1>5, <1>6 DEF ExecAdd

LEMMA SubOrdinary == ASSUME IInv, ExecSub PROVE Ordinary
  <1>1. CanExecute
    BY DEF ExecSub, At
  <1>2. CASE StackStep(stack)
    BY <1>1, <1>2, StayOrdinary
  <1>3. CASE /\ Len(Args) = 2 /\ SrcValid(Args[2]) /\ IsReg(Args[1])
             /\ LET src == SrcWord(Args[2])
                    differences == RegSum(regs[Args[1].reg], src, -src.val)
                IN  IF differences = {} THEN StackStep(stack)
                    ELSE \E w \in differences : RegStep(Args[1].reg, w)
    <2> DEFINE src == SrcWord(Args[2])
               differences == RegSum(regs[Args[1].reg], src, -src.val)
    <2>1. Args[1] \in Operands /\ Args[2] \in Operands
      BY <1>1, <1>3, Current
    <2>2. src \in Words /\ -src.val \in Int
      BY <1>3, <2>1, SourceType
    <2>3. CASE \E w \in differences : RegStep(Args[1].reg, w)
      BY <1>1, <1>3, <2>1, <2>2, <2>3, RegisterFormOrdinary
    <2> QED
      BY <1>2, <1>3, <2>3
  <1>4. CASE /\ Len(Args) = 1
             /\ \E w \in (IF IsNum(Args[1]) THEN Displaced(W1, -Args[1].word.val) ELSE {W1}) :
                   StackStep(Push(stack, StackCap, w))
    <2> DEFINE n == IF IsNum(Args[1]) THEN -Args[1].word.val ELSE 0
    <2>1. Args[1] \in Operands
      BY <1>1, <1>4, Current
    <2>2. n \in Int
      BY <2>1, OperandType
    <2>3. PICK w \in (IF IsNum(Args[1]) THEN Displaced(W1, n) ELSE {W1}) :
             StackStep(Push(stack, StackCap, w))
      BY <1>4
    <2> HIDE DEF n
    <2> QED
      BY <1>1, <2>1, <2>2, <2>3, TopFormOrdinary
  <1>5. CASE Len(Args) = 0 /\ Reduce(SubWords(W1, W2))
    BY <1>1, <1>5, ReduceOrdinary, ArithmeticTypes, MachineType
  <1> QED
    BY <1>2, <1>3, <1>4, <1>5 DEF ExecSub

LEMMA MulOrdinary == ASSUME IInv, ExecMul PROVE Ordinary
  BY ReduceOrdinary, ArithmeticTypes, MachineType DEF ExecMul, At

LEMMA DivOrdinary == ASSUME IInv, ExecDiv PROVE Ordinary
  <1>1. CanExecute
    BY DEF ExecDiv, At
  <1>2. CASE FALSE \in ZeroTests(W1) /\ Reduce(DivWords(W1, W2))
    <2>1. BothInt(W1, W2) => W1.val # 0
      BY <1>2 DEF ZeroTests, BothInt
    <2>2. DivWords(W1, W2) \subseteq Words
      BY <2>1, ArithmeticTypes, MachineType
    <2> QED
      BY <1>1, <1>2, <2>2, ReduceOrdinary
  <1> QED
    BY <1>1, <1>2, PopStepOrdinary, EndsOrdinary DEF ExecDiv

LEMMA ModOrdinary == ASSUME IInv, ExecMod PROVE Ordinary
  BY ReduceOrdinary, ArithmeticTypes, MachineType, EndsOrdinary DEF ExecMod, At

LEMMA AndOrdinary == ASSUME IInv, ExecAnd PROVE Ordinary
  BY PopStepOrdinary, EndsOrdinary DEF ExecAnd, At

LEMMA OrOrdinary == ASSUME IInv, ExecOr PROVE Ordinary
  BY ReduceOrdinary, LogicTypes, MachineType DEF ExecOr, At

LEMMA XorOrdinary == ASSUME IInv, ExecXor PROVE Ordinary
  <1> DEFINE a == Args[1] b == Args[2]
             ints == IsReg(a) /\ IsReg(b) /\ BothInt(regs[a.reg], regs[b.reg])
  <1>1. CanExecute /\ Instr.op \in TwoArgs
    BY DEF ExecXor, At, TwoArgs
  <1>2. a \in Operands /\ b \in Operands
    BY <1>1, TwoOperands
  <1>3. CASE ints
    <2>1. PICK v \in XorInts(regs[a.reg].val, regs[b.reg].val) : RegStep(a.reg, IntWord(v))
      BY <1>3 DEF ExecXor
    <2>2. a.reg \in Registers /\ b.reg \in Registers
      BY <1>2, <1>3, OperandType
    <2>3. regs[a.reg].val \in Ints /\ regs[b.reg].val \in Ints
      BY <2>2, <1>3, MachineType, WordValue DEF BothInt, IsInt
    <2>4. v \in Int
      BY <2>3, XorType, IntsAreInt
    <2> QED
      BY <1>1, <2>1, <2>2, <2>4, IntWordType, RegStepOrdinary
  <1>4. CASE ~ints
    BY <1>1, <1>4, StayOrdinary DEF ExecXor
  <1> QED
    BY <1>3, <1>4

LEMMA NotOrdinary == ASSUME IInv, ExecNot PROVE Ordinary
  <1>1. CanExecute
    BY DEF ExecNot, At
  <1>2. CASE \E w \in NotWords(W1) : StackStep(Push(Popped(stack, 1), StackCap, w))
    <2>1. NotWords(W1) \subseteq Words
      BY LogicTypes, MachineType
    <2> QED
      BY <1>1, <1>2, <2>1, PushStepOrdinary, MachineType
  <1> QED
    BY <1>2, EndsOrdinary DEF ExecNot

LEMMA CompareOrdinary == ASSUME IInv, ExecCompare PROVE Ordinary
  <1>1. PICK op \in Comparisons : CanExecute /\ (Crash \/ Reduce(CompareWords(op, W1, W2)))
    BY DEF ExecCompare, At
  <1>2. CompareWords(op, W1, W2) \subseteq Words
    BY CompareType, MachineType
  <1> QED
    BY <1>1, <1>2, ReduceOrdinary, EndsOrdinary

LEMMA RegisterNames ==
  "rax" \in Registers /\ "rbx" \in Registers /\ "rcx" \in Registers /\ "rdx" \in Registers
  BY RegisterAssumption

LEMMA CmpOrdinary == ASSUME IInv, ExecCmp PROVE Ordinary
  <1> DEFINE w1 == SrcWord(Args[1]) w2 == SrcWord(Args[2])
             both == Comparable(Args[1]) /\ Comparable(Args[2])
  <1>1. CanExecute
    BY DEF ExecCmp, At
  <1>2. CASE Len(Args) > 1 /\ both /\ \E v \in CmpInts(w1, w2) : RegStep("rdx", IntWord(v))
    <2>1. Args[1] \in Operands /\ Args[2] \in Operands
      BY <1>1, <1>2, Current
    <2>2. w1 \in Words /\ w2 \in Words
      BY <1>2, <2>1, SourceType DEF Comparable, SrcValid
    <2>3. CmpInts(w1, w2) \subseteq Int
      BY <2>2, CmpType
    <2> QED
      BY <1>1, <1>2, <2>3, IntWordType, RegStepOrdinary, RegisterNames
  <1>3. CASE Len(Args) > 1 /\ ~both /\ \E v \in Ints : RegStep("rdx", IntWord(v))
    BY <1>1, <1>3, IntsAreInt, IntWordType, RegStepOrdinary, RegisterNames
  <1> QED
    BY <1>1, <1>2, <1>3, StayOrdinary, EndsOrdinary DEF ExecCmp

----------------------------------------------------------------------------
(* Control.                                                                *)

LEMMA JmpOrdinary == ASSUME IInv, ExecJmp PROVE Ordinary
  <1>1. CASE InProgram(JumpTarget(Args[1])) /\ Goto(stack, JumpTarget(Args[1]))
    BY <1>1, MachineType DEF InProgram, Ordinary
  <1> QED
    BY <1>1, EndsOrdinary DEF ExecJmp

LEMMA JmpifOrdinary == ASSUME IInv, ExecJmpif PROVE Ordinary
  <1>1. CanExecute
    BY DEF ExecJmpif, At
  <1>2. CASE InProgram(JumpTarget(Args[1])) /\ Goto(Popped(stack, 1), JumpTarget(Args[1]))
    BY <1>2, MachineType DEF InProgram, Ordinary
  <1> QED
    BY <1>1, <1>2, PopStepOrdinary, EndsOrdinary DEF ExecJmpif

LEMMA NopOrdinary == ASSUME IInv, ExecNop PROVE Ordinary
  BY StayOrdinary DEF ExecNop, At

\* A label that find_label finds lies inside the program.
LEMMA LabelInProgram ==
  ASSUME IInv, NEW n, HasLabel(n)
  PROVE  LabelAddress(n) \in 0 .. (Len(code) - 1) /\ LabelAddress(n) \in Int
  <1> DEFINE k == CHOOSE j \in FirstNamed(labels, n) : TRUE
             S == [name : Names \ {"(ptr"}, address : 0 .. (Len(code) - 1)]
  <1>1. k \in 1 .. Len(labels)
    BY DEF FirstNamed, HasLabel
  <1>2. labels \in Seq(S) /\ Len(code) \in Nat
    BY LenProperties DEF IInv, TypeOK, WellFormed
  <1>3. labels[k] \in S
    BY <1>1, <1>2, ElementOfSeq
  <1> QED
    BY <1>2, <1>3 DEF LabelAddress, FoundAt

LEMMA ScopeType ==
  ASSUME IInv
  PROVE  /\ Scope \in [Names -> Words \cup {Absent}]
         /\ \A n \in Names : IsVar(n) => Scope[n] \in Words
         /\ \A n \in Names : VarValue(Scope, n) \in Words /\ VarValue(globals, n) \in Words
  <1>1. /\ Scope \in [Names -> Words \cup {Absent}]
        /\ globals \in [Names -> Words \cup {Absent}]
    BY DEF IInv, TypeOK, Scope
  <1> QED
    BY <1>1, NullWordType DEF IsVar, VarValue

\* Every word that parseOperand answers for an argument of a call is a word.
LEMMA ArgWordsType ==
  ASSUME IInv, NEW o \in Operands
  PROVE  ArgWords(o) \subseteq Words
  <1>1. CASE o.kind = "reg"
    <2>1. regs[o.reg] \in Words
      BY <1>1, OperandType, MachineType DEF IsReg
    <2> QED
      BY <1>1, <2>1 DEF ArgWords
  <1>2. CASE o.kind = "lit"
    BY <1>2, OperandType DEF ArgWords
  <1>3. CASE o.kind = "name"
    <2>1. IsVar(o.name) => Scope[o.name] \in Words
      BY <1>3, OperandType, ScopeType DEF IsName
    <2>2. HasLabel(o.name) => IntWord(LabelAddress(o.name)) \in Words
      BY LabelInProgram, IntWordType
    <2> QED
      BY <1>3, <2>1, <2>2 DEF ArgWords
  <1> QED
    BY <1>1, <1>2, <1>3, OperandType

\* A row of instructions that differ from the program's in one operand list
\* of the same length is still a program.
LEMMA CutKeeps ==
  ASSUME IInv, CanExecute, Instr.op \notin VarOps, NEW read
  PROVE  LET cut == CutPointers(Instr, read)
             c == [code EXCEPT ![ip + 1] = cut]
         IN  /\ c \in Seq([op : Ops, args : Seq(Operands)])
             /\ Len(c) = Len(code)
             /\ \A k \in 1 .. Len(code) : c[k].op = code[k].op /\ IsInstr(c[k])
  <1> DEFINE n == Len(Args)
             as == [k \in 1 .. n |-> IF k \in read /\ IsPtr(Args[k]) THEN Garbled ELSE Args[k]]
             cut == CutPointers(Instr, read)
             I0 == [op : Ops, args : Seq(Operands)]
             c == [code EXCEPT ![ip + 1] = cut]
  <1>1. /\ n \in Nat /\ Args \in Seq(Operands)
        /\ Instr \in I0 /\ IsInstr(Instr)
        /\ ip + 1 \in 1 .. Len(code)
        /\ \A k \in 1 .. n : Args[k] \in Operands
    BY Current
  <1>2. Garbled \in Operands
    BY NameAssumption DEF Garbled, Name, Operands
  <1>3. as \in [1 .. n -> Operands]
    BY <1>1, <1>2
  <1>4. as \in Seq(Operands)
    BY <1>1, <1>3, SeqDef
  <1>5. Len(as) = n
    <2>1. DOMAIN as = 1 .. n /\ DOMAIN as = 1 .. Len(as) /\ Len(as) \in Nat
      BY <1>3, <1>4, LenProperties
    <2> QED
      BY <1>1, <2>1
  <1>6. cut = [Instr EXCEPT !.args = as]
    BY DEF CutPointers, Args
  <1> HIDE DEF as, cut, n
  <1>7. cut \in I0 /\ cut.op = Instr.op /\ cut.args = as
    BY <1>1, <1>4, <1>6
  <1>8. IsInstr(cut)
    BY <1>1, <1>4, <1>5, <1>7 DEF IsInstr, n, Args
  <1>9. code \in Seq(I0)
    BY DEF IInv, TypeOK
  <1> HIDE DEF I0
  <1>10. /\ c \in Seq(I0)
         /\ Len(c) = Len(code)
         /\ \A j \in 1 .. Len(code) : c[j] = IF j = ip + 1 THEN cut ELSE code[j]
    BY <1>1, <1>7, <1>9, ExceptSeq
  <1>11. \A k \in 1 .. Len(code) : c[k].op = code[k].op /\ IsInstr(c[k])
    BY <1>7, <1>8, <1>10 DEF IInv, WellFormed, Instr
  <1> QED
    BY <1>10, <1>11 DEF I0, cut

LEMMA CallKeeps == ASSUME IInv, ExecCall PROVE IInv'
  <1> DEFINE n == Len(Args)
             bad == {k \in 2 .. n : ArgWords(Args[k]) = {} \/ ArgFaults(Args[k])}
             c == [code EXCEPT ![ip + 1] = CutPointers(Instr, 2 .. n)]
  <1>1. CanExecute /\ Instr.op = "call"
    BY DEF ExecCall, At
  <1>2. CASE EError \/ Crash
    BY <1>2, EndsOrdinary, OrdinaryKeeps
  <1>3. CASE /\ CallTargetValid(Args[1]) /\ bad = {}
             /\ callStack' = Push(callStack, CallCap, ReturnAddress)
             /\ ip' = JumpTarget(Args[1])
             /\ stack' = PushAll(stack, StackCap, Pushed(n))
             /\ code' = c
             /\ UNCHANGED <<labels, regs, scopes, outcome>>
    <2>1. /\ ip \in 0 .. (Len(code) - 1) /\ Len(code) \in Nat /\ n \in Nat
          /\ \A k \in 1 .. n : Args[k] \in Operands
      BY <1>1, Current
    <2>2. /\ c \in Seq([op : Ops, args : Seq(Operands)])
          /\ Len(c) = Len(code)
          /\ \A k \in 1 .. Len(code) : c[k].op = code[k].op /\ IsInstr(c[k])
      BY <1>1, CutKeeps DEF VarOps
    <2> HIDE DEF c
    <2>3. n >= 1
      BY <1>1, Current DEF IsInstr, ArgCountOK, Args, OneOrMore
    <2>4. \A k \in 2 .. n : ArgWord(k) \in Words
      BY <1>3, <2>1, ArgWordsType DEF ArgWord
    <2>5. Pushed(n) \in [1 .. (n - 1) -> Words]
      <3>1. \A j \in 1 .. (n - 1) : n + 1 - j \in 2 .. n
        BY <2>1
      <3> QED
        BY <2>4, <3>1 DEF Pushed
    <2>6. Pushed(n) \in Seq(Words)
      BY <2>1, <2>3, <2>5, SeqDef
    <2>7. stack' \in Stacks(StackCap)
      BY <1>3, <2>6, PushAllType, MachineType
    <2>8. ip \in Ints /\ ip \in Int
      BY <2>1, WidthAssumption DEF IInv, WellFormed, Ints
    <2>9. ReturnAddress \in Words /\ ReturnAddress.val = ip /\ IsInt(ReturnAddress)
      BY <2>8, IntWordType, WrapFits DEF ReturnAddress, IntWord, IsInt
    <2>10. callStack' \in Stacks(CallCap)
      BY <1>3, <2>9, PushType, MachineType
    <2>11. ip' \in 0 .. (Len(code) - 1)
      BY <1>3 DEF CallTargetValid, InProgram
    <2>12. TypeOK'
      <3>1. code' \in Seq([op : Ops, args : Seq(Operands)]) /\ ip' \in Int
        BY <1>3, <2>1, <2>2, <2>11
      <3>2. /\ stack' \in Seq(Words) /\ Len(stack') <= StackCap
            /\ callStack' \in Seq(Words) /\ Len(callStack') <= CallCap
        BY <2>7, <2>10 DEF Stacks
      <3>3. /\ labels' = labels /\ regs' = regs /\ globals' = globals /\ local' = local
            /\ inLocal' = inLocal /\ halted' = halted /\ exitCode' = exitCode
            /\ flags' = flags /\ status' = status
        BY <1>3 DEF scopes, outcome
      <3> QED
        BY <3>1, <3>2, <3>3 DEF IInv, TypeOK
    <2>13. IpInProgram'
      BY <1>3, <2>1, <2>2, <2>11 DEF IpInProgram
    <2>14. WellFormed'
      BY <1>3, <2>2 DEF IInv, WellFormed
    <2>15. CallSites'
      <3>1. SUFFICES ASSUME NEW k \in 1 .. Len(callStack')
                     PROVE  /\ IsInt(callStack'[k])
                            /\ callStack'[k].val \in 0 .. (Len(code) - 1)
                            /\ code[callStack'[k].val + 1].op = "call"
        <4>1. \A v \in 0 .. (Len(code) - 1) : c[v + 1].op = code[v + 1].op
          BY <2>1, <2>2
        <4> QED
          BY <1>3, <2>2, <4>1 DEF CallSites
      <3>2. callStack \in Seq(Words) /\ Len(callStack) \in Nat
        BY MachineType, LenProperties
      <3>3. CASE Len(callStack) >= CallCap
        BY <1>3, <3>3 DEF Push, IInv, CallSites
      <3>4. CASE ~(Len(callStack) >= CallCap)
        <4>1. callStack' = Append(callStack, ReturnAddress)
          BY <1>3, <3>4 DEF Push
        <4>2. /\ Len(callStack') = Len(callStack) + 1
              /\ \A j \in 1 .. Len(callStack) : callStack'[j] = callStack[j]
              /\ callStack'[Len(callStack) + 1] = ReturnAddress
          BY <2>9, <3>2, <4>1, AppendProperties
        <4>3. CASE k <= Len(callStack)
          BY <3>2, <4>2, <4>3 DEF IInv, CallSites
        <4>4. CASE k = Len(callStack) + 1
          BY <1>1, <2>1, <2>9, <4>2, <4>4 DEF Instr
        <4> QED
          BY <3>2, <4>2, <4>3, <4>4
      <3> QED
        BY <3>3, <3>4
    <2> QED
      BY <2>12, <2>13, <2>14, <2>15 DEF IInv
  <1> QED
    BY <1>2, <1>3 DEF ExecCall

\* What a `ret` finds on the call stack.
LEMMA RetTarget ==
  ASSUME IInv, CanExecute
  PROVE  /\ Top(callStack).val + 1 \in 1 .. Len(code)
         /\ callStack # <<>> => code[Top(callStack).val + 1].op = "call"
  <1>1. /\ callStack \in Seq(Words) /\ Len(callStack) \in Nat
        /\ Len(code) \in Nat /\ Len(code) > 0
    BY MachineType, LenProperties, Current
  <1>2. CASE callStack = <<>>
    BY <1>1, <1>2, EmptySeq DEF Top, Peek, NullWord
  <1>3. CASE callStack # <<>>
    <2>1. Len(callStack) \in 1 .. Len(callStack)
      BY <1>1, <1>3, EmptySeq
    <2>2. Top(callStack) = callStack[Len(callStack)]
      BY <1>1, <2>1 DEF Top, Peek
    <2> QED
      BY <1>1, <2>1, <2>2 DEF IInv, CallSites
  <1> QED
    BY <1>2, <1>3

LEMMA RetKeeps == ASSUME IInv, ExecRet PROVE IInv'
  <1>1. CanExecute /\ ip' = Top(callStack).val + 1 /\ callStack' = Popped(callStack, 1)
    BY DEF ExecRet, At
  <1>2. Len(code) \in Nat /\ ip' \in 0 .. Len(code)
    BY <1>1, RetTarget, Current
  <1>3. callStack' \in Stacks(CallCap)
    BY <1>1, PoppedType, MachineType
  <1>4. TypeOK'
    BY <1>2, <1>3 DEF ExecRet, IInv, TypeOK, Stacks, prog, scopes, outcome
  <1>5. IpInProgram' /\ WellFormed'
    BY <1>2 DEF ExecRet, IInv, IpInProgram, WellFormed, prog
  <1>6. CallSites'
    <2>1. callStack \in Seq(Words) /\ Len(callStack) \in Nat
      BY MachineType, LenProperties
    <2>2. /\ Len(Popped(callStack, 1)) = IF 1 <= Len(callStack) THEN Len(callStack) - 1 ELSE 0
          /\ \A k \in 1 .. (Len(callStack) - 1) : Popped(callStack, 1)[k] = callStack[k]
      <3>1. 1 \in Nat
        OBVIOUS
      <3> QED
        BY <2>1, <3>1, PoppedProperties
    <2>3. SUFFICES ASSUME NEW k \in 1 .. Len(callStack')
                   PROVE  /\ IsInt(callStack'[k])
                          /\ callStack'[k].val \in 0 .. (Len(code) - 1)
                          /\ code[callStack'[k].val + 1].op = "call"
      BY DEF ExecRet, CallSites, prog
    <2>4. k \in 1 .. Len(callStack) /\ callStack'[k] = callStack[k]
      BY <1>1, <2>1, <2>2
    <2> QED
      BY <2>4 DEF IInv, CallSites
  <1> QED
    BY <1>4, <1>5, <1>6 DEF IInv

LEMMA HaltKeeps == ASSUME IInv, ExecHalt PROVE IInv'
  <1>1. CanExecute /\ Instr.op = "halt"
    BY DEF ExecHalt, At
  <1>2. Len(Args) = 1 => Atoi(Args[1]) \in Ints
    BY <1>1, Current, AtoiType
  <1>3. exitCode' \in Ints
    BY <1>2 DEF ExecHalt, IInv, TypeOK
  <1>4. TypeOK'
    BY <1>3 DEF ExecHalt, IInv, TypeOK, prog, scopes
  <1>5. IpInProgram' /\ WellFormed' /\ CallSites'
    BY DEF ExecHalt, IInv, IpInProgram, WellFormed, CallSites, prog
  <1> QED
    BY <1>4, <1>5 DEF IInv

----------------------------------------------------------------------------
(* Variables.                                                              *)

LEMMA VarStepKeeps ==
  ASSUME IInv, CanExecute, NEW s \in Stacks(StackCap), NEW n \in Names, NEW w \in Words,
         VarStep(s, n, w) \/ VarStepGlobal(s, n, w)
  PROVE  IInv'
  <1>1. /\ ip' = ip + 1 /\ stack' = s
        /\ globals' = globals \/ globals' = [globals EXCEPT ![n] = w]
        /\ local' = local \/ local' = [local EXCEPT ![n] = w]
        /\ UNCHANGED <<prog, callStack, regs, inLocal, outcome>>
    BY DEF VarStep, VarStepGlobal
  <1>2. /\ globals' \in [Names -> Words \cup {Absent}]
        /\ local' \in [Names -> Words \cup {Absent}]
    BY <1>1 DEF IInv, TypeOK
  <1>3. ip' \in 0 .. Len(code) /\ Len(code) \in Nat
    BY <1>1, Current
  <1>4. TypeOK'
    BY <1>1, <1>2, <1>3 DEF IInv, TypeOK, Stacks, prog, outcome
  <1>5. IpInProgram' /\ CallSites' /\ WellFormed'
    BY <1>1, <1>3 DEF IInv, IpInProgram, CallSites, WellFormed, prog
  <1> QED
    BY <1>4, <1>5 DEF IInv

LEMMA BumpKeeps ==
  ASSUME IInv, CanExecute, Instr.op \in OneArg, NEW d \in Int, Bump(d)
  PROVE  IInv'
  <1> DEFINE o == Args[1]
  <1>1. o \in Operands
    BY OneOperand
  <1>2. CASE IsReg(o) /\ IsInt(regs[o.reg]) /\ RegStep(o.reg, IntWord(regs[o.reg].val + d))
    <2>1. o.reg \in Registers /\ regs[o.reg].val + d \in Int
      BY <1>1, <1>2, OperandType, MachineType, WordValue
    <2> QED
      BY <1>2, <2>1, IntWordType, RegStepOrdinary, OrdinaryKeeps
  <1>3. CASE /\ IsName(o) /\ IsVar(o.name)
             /\ VarStep(stack, o.name,
                        IF IsInt(Scope[o.name]) THEN IntWord(Scope[o.name].val + d)
                                                ELSE Scope[o.name])
    <2> DEFINE w == IF IsInt(Scope[o.name]) THEN IntWord(Scope[o.name].val + d)
                                            ELSE Scope[o.name]
    <2>1. o.name \in Names /\ Scope[o.name] \in Words
      BY <1>1, <1>3, OperandType, ScopeType
    <2>2. w \in Words
      BY <2>1, IntWordType, WordValue
    <2> QED
      BY <1>3, <2>1, <2>2, VarStepKeeps, MachineType
  <1> QED
    BY <1>2, <1>3, StayOrdinary, EndsOrdinary, OrdinaryKeeps DEF Bump

LEMMA IncDecKeeps == ASSUME IInv, ExecInc \/ ExecDec PROVE IInv'
  <1>1. CanExecute /\ Instr.op \in OneArg
    BY DEF ExecInc, ExecDec, At, OneArg
  <1>2. PICK d \in Int : Bump(d)
    BY DEF ExecInc, ExecDec
  <1> QED
    BY <1>1, <1>2, BumpKeeps

LEMMA VarKeeps == ASSUME IInv, ExecVar PROVE IInv'
  <1>1. CanExecute /\ Args[1].name \in Names
    BY VarOperand DEF ExecVar, At, VarOps
  <1> QED
    BY <1>1, StayOrdinary, OrdinaryKeeps, VarStepKeeps, MachineType, NullWordType DEF ExecVar

LEMMA SetKeeps == ASSUME IInv, ExecSetvar \/ ExecSetglobalvar PROVE IInv'
  <1>1. CanExecute /\ Args[1].name \in Names
    BY VarOperand DEF ExecSetvar, ExecSetglobalvar, At, VarOps
  <1>2. CASE StackStep(stack) \/ Crash
    BY <1>1, <1>2, StayOrdinary, EndsOrdinary, OrdinaryKeeps
  <1>3. CASE \/ VarStep(Popped(stack, 1), Args[1].name, Top(stack))
             \/ VarStepGlobal(Popped(stack, 1), Args[1].name, Top(stack))
    BY <1>1, <1>3, VarStepKeeps, MachineType
  <1> QED
    BY <1>2, <1>3 DEF ExecSetvar, ExecSetglobalvar

LEMMA GetOrdinary == ASSUME IInv, ExecGetvar \/ ExecGetglobalvar PROVE Ordinary
  <1>1. CanExecute /\ Args[1].name \in Names
    BY VarOperand DEF ExecGetvar, ExecGetglobalvar, At, VarOps
  <1>2. PICK w \in Words : PushVar(w)
    BY <1>1, ScopeType DEF ExecGetvar, ExecGetglobalvar
  <1>3. Crash \/ StackStep(stack) \/ StackStep(Push(stack, StackCap, w))
    BY <1>2, Zenon DEF PushVar
  <1> QED
    BY <1>1, <1>3, StayOrdinary, PushStepOrdinary, EndsOrdinary, MachineType

LEMMA ToggleKeeps == ASSUME IInv, ExecToggle PROVE IInv'
  <1>1. ip' = ip + 1 /\ CanExecute
    BY DEF ExecToggle, At
  <1>2. ip' \in 0 .. Len(code) /\ Len(code) \in Nat
    BY <1>1, Current
  <1>3. local' \in [Names -> Words \cup {Absent}] /\ inLocal' \in BOOLEAN
    BY DEF ExecToggle, NoVars
  <1>4. TypeOK'
    BY <1>2, <1>3 DEF ExecToggle, IInv, TypeOK, prog, outcome
  <1>5. IpInProgram' /\ CallSites' /\ WellFormed'
    BY <1>2 DEF ExecToggle, IInv, IpInProgram, CallSites, WellFormed, prog
  <1> QED
    BY <1>4, <1>5 DEF IInv

----------------------------------------------------------------------------
(* Memory.                                                                 *)

LEMMA AllocateOrdinary ==
  ASSUME IInv, CanExecute, NEW size, NEW s \in Stacks(StackCap), NEW dest,
         Allocate(size, s, dest)
  PROVE  Ordinary
  <1> DEFINE r == IF dest \in Registers THEN [regs EXCEPT ![dest] = SomePtr] ELSE regs
  <1>1. r \in [Registers -> Words]
    BY MachineType, NullWordType
  <1>2. \/ StackStep(s) \/ Crash \/ StackStep(Push(s, StackCap, SomePtr)) \/ Step(s, r)
    BY Zenon DEF Allocate
  <1> QED
    BY <1>1, <1>2, StackStepOrdinary, PushStepOrdinary, StepOrdinary, EndsOrdinary, NullWordType

LEMMA AllocOperandsOrdinary == ASSUME IInv, ExecAllocOperands PROVE Ordinary
  BY AllocateOrdinary, MachineType DEF ExecAllocOperands, At

LEMMA AllocStackOrdinary == ASSUME IInv, ExecAllocStack PROVE Ordinary
  <1> DEFINE given == W1.val
             named == W2.type = "charp"
             used == IF given = 0 THEN 1 ELSE 2 + (IF named /\ given >= 2 THEN 1 ELSE 0)
             rest == Popped(stack, used)
  <1>1. CanExecute
    BY DEF ExecAllocStack, At
  <1>2. rest \in Stacks(StackCap)
    <2>1. used \in Nat
      OBVIOUS
    <2> QED
      BY <2>1, MachineType
  <1>3. Popped(rest, 1) \in Stacks(StackCap)
    BY <1>2, PoppedType
  <1>4. \/ EError \/ Crash \/ StackStep(rest)
        \/ \E size, d : Allocate(size, Popped(rest, 1), d) \/ Allocate(size, rest, d)
    BY Zenon DEF ExecAllocStack
  <1> HIDE DEF rest
  <1> QED
    BY <1>1, <1>2, <1>3, <1>4, StackStepOrdinary, AllocateOrdinary, EndsOrdinary

\* The stacks the operands of IREADMEM and IWRITEMEM leave.
LEMMA MemStacks ==
  ASSUME IInv, NEW n
  PROVE  /\ AfterAddr(n) \in Stacks(StackCap)
         /\ AfterOffset(n) \in Stacks(StackCap)
         /\ AfterType(n) \in Stacks(StackCap)
         /\ Popped(AfterType(n), 1) \in Stacks(StackCap)
  <1>1. AfterAddr(n) \in Stacks(StackCap)
    BY MachineType DEF AfterAddr
  <1>2. AfterOffset(n) \in Stacks(StackCap)
    BY <1>1, PoppedType DEF AfterOffset
  <1>3. AfterType(n) \in Stacks(StackCap)
    BY <1>2, PoppedType DEF AfterType
  <1> QED
    BY <1>1, <1>2, <1>3, PoppedType

LEMMA MemFaultOrdinary == ASSUME NEW s \in Stacks(StackCap), MemFault(s) PROVE Ordinary
  BY DEF Ordinary

LEMMA WriteMemOrdinary == ASSUME IInv, ExecWriteMem PROVE Ordinary
  <1> DEFINE n == Len(Args)
             rest == IF n >= 4 THEN AfterType(n) ELSE Popped(AfterType(n), 1)
  <1>1. CanExecute
    BY DEF ExecWriteMem, At
  <1>2. rest \in Stacks(StackCap)
    BY MemStacks
  <1>3. \/ MemFault(AfterAddr(n)) \/ MemFault(AfterOffset(n)) \/ MemFault(AfterType(n))
        \/ MemFault(rest) \/ StackStep(rest) \/ Crash
    BY Zenon DEF ExecWriteMem
  <1> HIDE DEF rest
  <1> QED
    BY <1>1, <1>2, <1>3, MemStacks, MemFaultOrdinary, StackStepOrdinary, EndsOrdinary

LEMMA ReadMemOrdinary == ASSUME IInv, ExecReadMem PROVE Ordinary
  <1> DEFINE n == Len(Args)
             rest == AfterType(n)
  <1>1. CanExecute
    BY DEF ExecReadMem, At
  <1>2. CASE \/ MemFault(AfterAddr(n)) \/ MemFault(AfterOffset(n)) \/ MemFault(rest) \/ Crash
    BY <1>2, MemStacks, MemFaultOrdinary, EndsOrdinary
  <1>3. CASE /\ Storable(MemType(n))
             /\ \E w \in WordsOf(MemType(n)) : StackStep(Push(rest, StackCap, w))
    <2>1. WordsOf(MemType(n)) \subseteq Words
      BY <1>3, WordsOfType DEF Storable, WordTypes
    <2> QED
      BY <1>1, <1>3, <2>1, MemStacks, PushStepOrdinary
  <1>4. CASE /\ Storable(MemType(n)) /\ n >= 4 /\ IsReg(Args[4])
             /\ \E w \in WordsOf(MemType(n)) : RegStep(Args[4].reg, w)
    <2>1. WordsOf(MemType(n)) \subseteq Words
      BY <1>4, WordsOfType DEF Storable, WordTypes
    <2>2. Args[4].reg \in Registers
      BY <1>1, <1>4, Current, OperandType
    <2> QED
      BY <1>1, <1>4, <2>1, <2>2, RegStepOrdinary
  <1> QED
    BY <1>2, <1>3, <1>4, Zenon DEF ExecReadMem

LEMMA CpyMemOrdinary == ASSUME IInv, ExecCpyMem PROVE Ordinary
  BY PopStepOrdinary, EndsOrdinary DEF ExecCpyMem, At

LEMMA MemCmpOrdinary == ASSUME IInv, ExecMemCmp PROVE Ordinary
  <1>1. CanExecute
    BY DEF ExecMemCmp, At
  <1>2. CASE StackStep(stack) \/ Crash
    BY <1>1, <1>2, StayOrdinary, EndsOrdinary
  <1>3. CASE \E v \in Ints : StackStep(Push(stack, StackCap, IntWord(v)))
    BY <1>1, <1>3, IntsAreInt, IntWordType, PushStepOrdinary, MachineType
  <1>4. CASE ~(Len(Args) < 4) /\ IsReg(Args[4]) /\ \E v \in Ints : RegStep(Args[4].reg, IntWord(v))
    <2>1. Args[4].reg \in Registers
      BY <1>1, <1>4, Current, OperandType
    <2> QED
      BY <1>1, <1>4, <2>1, IntsAreInt, IntWordType, RegStepOrdinary
  <1> QED
    BY <1>2, <1>3, <1>4, Zenon DEF ExecMemCmp

LEMMA FreeKeeps == ASSUME IInv, ExecFree PROVE IInv'
  <1>1. CanExecute /\ Instr.op = "free"
    BY DEF ExecFree, At
  <1>2. CASE Crash \/ StackStep(stack) \/ StackStep(Popped(stack, 1))
    BY <1>1, <1>2, StayOrdinary, PopStepOrdinary, EndsOrdinary, OrdinaryKeeps
  <1>3. CASE Len(Args) > 0 /\ IsReg(Args[1]) /\ RegStep(Args[1].reg, NullWord)
    <2>1. Args[1].reg \in Registers
      BY <1>1, <1>3, Current, OperandType
    <2> QED
      BY <1>1, <1>3, <2>1, NullWordType, RegStepOrdinary, OrdinaryKeeps
  <1>4. CASE /\ code' = [code EXCEPT ![ip + 1] = CutPointers(Instr, {1})]
             /\ ip' = ip + 1
             /\ UNCHANGED <<labels, stack, callStack, regs, scopes, outcome>>
    <2> DEFINE c == [code EXCEPT ![ip + 1] = CutPointers(Instr, {1})]
    <2>1. /\ c \in Seq([op : Ops, args : Seq(Operands)])
          /\ Len(c) = Len(code)
          /\ \A k \in 1 .. Len(code) : c[k].op = code[k].op /\ IsInstr(c[k])
      BY <1>1, CutKeeps DEF VarOps
    <2>2. ip' \in 0 .. Len(code) /\ Len(code) \in Nat
      BY <1>1, <1>4, Current
    <2> HIDE DEF c
    <2>3. code' = c /\ UNCHANGED <<labels, stack, callStack, regs, scopes, outcome>>
      BY <1>4 DEF c
    <2>4. TypeOK'
      BY <2>1, <2>2, <2>3 DEF IInv, TypeOK, scopes, outcome
    <2>5. IpInProgram' /\ WellFormed'
      BY <2>1, <2>2, <2>3 DEF IInv, IpInProgram, WellFormed
    <2>6. CallSites'
      <3>1. \A v \in 0 .. (Len(code) - 1) : c[v + 1].op = code[v + 1].op
        BY <2>1, <2>2
      <3> QED
        BY <2>1, <2>3, <3>1 DEF IInv, CallSites
    <2> QED
      BY <2>4, <2>5, <2>6 DEF IInv
  <1> QED
    BY <1>2, <1>3, <1>4 DEF ExecFree

----------------------------------------------------------------------------
(* Strings and the outside world.                                          *)

LEMMA MergeOrdinary == ASSUME IInv, ExecMerge PROVE Ordinary
  <1> DEFINE w == Str(StrLen(W2) + 1 + StrLen(W1))
  <1>1. CanExecute
    BY DEF ExecMerge, At
  <1>2. CASE \E u \in SomeStrings : StackStep(Push(stack, StackCap, u))
    BY <1>1, <1>2, SomeStringsType, PushStepOrdinary, MachineType
  <1>3. CASE /\ W1.type = "charp" /\ W2.type = "charp" /\ ~NullString(W1) /\ ~NullString(W2)
             /\ StackStep(Push(Popped(stack, 2), StackCap, w))
    <2>1. StrLen(W1) \in Nat /\ StrLen(W2) \in Nat
      <3>1. \A u \in Words : u.type = "charp" /\ u # NullStr => StrLen(u) \in Nat
        BY LenAssumption DEF Words, ValuesOf, NullStr, StrLen
      <3> QED
        BY <1>3, <3>1, MachineType DEF NullString
    <2>2. w \in Words
      BY <2>1, StrType
    <2> QED
      BY <1>1, <1>3, <2>2, PushStepOrdinary, MachineType
  <1> QED
    BY <1>1, <1>2, <1>3, PopStepOrdinary, EndsOrdinary, Zenon DEF ExecMerge

LEMMA SprintfOrdinary == ASSUME IInv, ExecSprintf PROVE Ordinary
  <1>1. CanExecute
    BY DEF ExecSprintf, At
  <1>2. CASE \E n \in 0 .. Len(stack), w \in SomeStrings :
                StackStep(Push(Popped(stack, n + 1), StackCap, w))
    <2>1. PICK n \in 0 .. Len(stack), w \in SomeStrings :
                StackStep(Push(Popped(stack, n + 1), StackCap, w))
      BY <1>2
    <2>2. Popped(stack, n + 1) \in Stacks(StackCap) /\ w \in Words
      BY MachineType, SomeStringsType
    <2> QED
      BY <1>1, <2>1, <2>2, PushStepOrdinary
  <1>3. EError \/ Crash
          \/ \E n \in 0 .. Len(stack), w \in SomeStrings :
                StackStep(Push(Popped(stack, n + 1), StackCap, w))
    BY Zenon DEF ExecSprintf
  <1> QED
    BY <1>2, <1>3, EndsOrdinary

LEMMA OvmOrdinary == ASSUME IInv, ExecOvm PROVE Ordinary
  <1> DEFINE onStack == IsName(Args[1]) /\ Args[1].name = "stack"
             rest == IF onStack THEN Popped(stack, 1) ELSE stack
  <1>1. CanExecute
    BY DEF ExecOvm, At
  <1>2. rest \in Stacks(StackCap)
    BY MachineType
  <1>3. Len(rest) \in Nat
    BY <1>2, LenProperties DEF Stacks
  <1>4. \A q : Answers(q, rest) \subseteq Words
    BY <1>3, IntWordType, NullWordType, SomeStringsType DEF Answers
  <1>5. \/ EError \/ Crash \/ StackStep(rest)
        \/ \E q : \E w \in Answers(q, rest) : StackStep(Push(rest, StackCap, w))
    BY Zenon DEF ExecOvm
  <1> HIDE DEF rest
  <1> QED
    BY <1>1, <1>2, <1>4, <1>5, EndsOrdinary, StackStepOrdinary, PushStepOrdinary

LEMMA XcallKeeps == ASSUME IInv, ExecXcall PROVE IInv'
  <1>1. CanExecute
    BY DEF ExecXcall, At
  <1>2. CASE EError \/ StackStep(stack) \/ StackStep(Push(stack, StackCap, NullWord))
    BY <1>1, <1>2, EndsOrdinary, StayOrdinary, PushStepOrdinary, OrdinaryKeeps, MachineType,
       NullWordType
  <1>3. CASE ExternalCall
    <2>1. WordsOf("int") \subseteq Words
      BY WordsOfType DEF WordTypes
    <2>2. stack' \in Stacks(StackCap)
      BY <1>3, <2>1, PushType, MachineType DEF ExternalCall
    <2>3. ip' \in 0 .. Len(code) /\ Len(code) \in Nat
      BY <1>1, <1>3, Current DEF ExternalCall
    <2>4. TypeOK'
      BY <1>3, <2>2, <2>3 DEF ExternalCall, IInv, TypeOK, Stacks, prog, scopes
    <2>5. IpInProgram' /\ CallSites' /\ WellFormed'
      BY <1>3, <2>3 DEF ExternalCall, IInv, IpInProgram, CallSites, WellFormed, prog
    <2> QED
      BY <2>4, <2>5 DEF IInv
  <1> QED
    BY <1>2, <1>3 DEF ExecXcall

----------------------------------------------------------------------------
(* The theorems.                                                           *)

\* The instructions that are not Ordinary.
Special == \/ ExecInc \/ ExecDec \/ ExecVar \/ ExecSetvar \/ ExecSetglobalvar \/ ExecToggle
           \/ ExecCall \/ ExecRet \/ ExecHalt \/ ExecFree \/ ExecXcall

LEMMA InstructionCases == ASSUME IInv, ExecuteInstruction PROVE Ordinary \/ Special
  <1>1. CASE \/ ExecPush \/ ExecMov \/ ExecPop \/ ExecLoad \/ ExecStore \/ ExecPrint \/ ExecDup
             \/ ExecSwap \/ ExecDrop \/ ExecRotL \/ ExecRotR \/ ExecSizeof \/ ExecCast \/ ExecHere
             \/ ExecEval
    BY <1>1, PushOrdinary, MovOrdinary, PopOrdinary, LoadOrdinary, StoreOrdinary, PrintOrdinary,
       DupOrdinary, SwapOrdinary, DropOrdinary, RotateOrdinary, SizeofOrdinary, CastOrdinary,
       HereOrdinary, EvalOrdinary
  <1>2. CASE \/ ExecAdd \/ ExecSub \/ ExecMul \/ ExecDiv \/ ExecMod \/ ExecAnd \/ ExecOr
             \/ ExecXor \/ ExecNot \/ ExecCompare \/ ExecCmp
    BY <1>2, AddOrdinary, SubOrdinary, MulOrdinary, DivOrdinary, ModOrdinary, AndOrdinary,
       OrOrdinary, XorOrdinary, NotOrdinary, CompareOrdinary, CmpOrdinary
  <1>3. CASE ExecJmp \/ ExecJmpif \/ ExecNop \/ ExecGetvar \/ ExecGetglobalvar
    BY <1>3, JmpOrdinary, JmpifOrdinary, NopOrdinary, GetOrdinary
  <1>4. CASE \/ ExecAllocOperands \/ ExecAllocStack \/ ExecWriteMem \/ ExecReadMem
             \/ ExecCpyMem \/ ExecMemCmp
    BY <1>4, AllocOperandsOrdinary, AllocStackOrdinary, WriteMemOrdinary, ReadMemOrdinary,
       CpyMemOrdinary, MemCmpOrdinary
  <1>5. CASE ExecMerge \/ ExecSprintf \/ ExecOvm
    BY <1>5, MergeOrdinary, SprintfOrdinary, OvmOrdinary
  <1> QED
    BY <1>1, <1>2, <1>3, <1>4, <1>5 DEF ExecuteInstruction, Special

LEMMA NextCases == ASSUME IInv, Next PROVE Ordinary \/ Special
  BY InstructionCases, EndsOrdinary DEF Next

LEMMA CaseKeeps == ASSUME IInv, Ordinary \/ Special PROVE IInv'
  <1>1. CASE Ordinary
    BY <1>1, OrdinaryKeeps
  <1>2. CASE Special
    BY <1>2, IncDecKeeps, VarKeeps, SetKeeps, ToggleKeeps, CallKeeps, RetKeeps, HaltKeeps,
       FreeKeeps, XcallKeeps DEF Special
  <1> QED
    BY <1>1, <1>2

LEMMA NextKeeps == ASSUME IInv, [Next]_vars PROVE IInv'
  <1>1. CASE Next
    BY <1>1, NextCases, CaseKeeps
  <1>2. CASE UNCHANGED vars
    BY <1>2 DEF vars, IInv, TypeOK, IpInProgram, CallSites, WellFormed
  <1> QED
    BY <1>1, <1>2

\* The inductive invariant holds in every state of every program.
THEOREM Invariance == Spec => []IInv
  BY InitInv, NextKeeps, PTL DEF Spec

\* Every reachable state of the machine is typed and both stacks keep to
\* their capacities: no instruction of orta.h pushes past xstack_check.
THEOREM TypeCorrect == Spec => []TypeOK
  <1>1. IInv => TypeOK
    BY DEF IInv
  <1> QED
    BY <1>1, Invariance, PTL

\* The loop of execute_program only ever sees an ip inside the program or
\* right behind it, through jumps, calls, returns and memory errors.
THEOREM IpStaysInProgram == Spec => []IpInProgram
  <1>1. IInv => IpInProgram
    BY DEF IInv
  <1> QED
    BY <1>1, Invariance, PTL

\* The call stack holds nothing but places of `call` instructions.
THEOREM CallStackHoldsCalls == Spec => []CallSites
  <1>1. IInv => CallSites
    BY DEF IInv
  <1> QED
    BY <1>1, Invariance, PTL

\* The operation at ip decides which instruction is executed.
LEMMA CallRetHalt ==
  ASSUME ExecuteInstruction, Instr.op \in {"call", "ret", "halt"}
  PROVE  /\ ExecCall \/ ExecRet \/ ExecHalt
         /\ Instr.op = "call" => ExecCall
         /\ Instr.op = "ret" => ExecRet
         /\ Instr.op = "halt" => ExecHalt
  <1>1. Instr.op \in {"call", "ret", "halt"}
    OBVIOUS
  <1>2. ~ExecPush /\ ~ExecMov /\ ~ExecPop /\ ~ExecLoad /\ ~ExecStore /\ ~ExecPrint /\ ~ExecDup
        /\ ~ExecSwap /\ ~ExecDrop
    BY <1>1 DEF ExecPush, ExecMov, ExecPop, ExecLoad, ExecStore, ExecPrint, ExecDup, ExecSwap,
       ExecDrop, At
  <1>3. ~ExecRotL /\ ~ExecRotR /\ ~ExecSizeof /\ ~ExecCast /\ ~ExecHere /\ ~ExecEval
    BY <1>1 DEF ExecRotL, ExecRotR, ExecSizeof, ExecCast, ExecHere, ExecEval, At
  <1>4. ~ExecAdd /\ ~ExecSub /\ ~ExecMul /\ ~ExecDiv /\ ~ExecMod /\ ~ExecAnd /\ ~ExecOr
    BY <1>1 DEF ExecAdd, ExecSub, ExecMul, ExecDiv, ExecMod, ExecAnd, ExecOr, At
  <1>5. ~ExecXor /\ ~ExecNot /\ ~ExecCmp /\ ~ExecInc /\ ~ExecDec /\ ~ExecJmp /\ ~ExecJmpif
    BY <1>1 DEF ExecXor, ExecNot, ExecCmp, ExecInc, ExecDec, ExecJmp, ExecJmpif, At
  <1>6. ~ExecCompare
    BY <1>1 DEF ExecCompare, At, Comparisons
  <1>7. ~ExecNop /\ ~ExecVar /\ ~ExecSetvar /\ ~ExecGetvar
        /\ ~ExecSetglobalvar /\ ~ExecGetglobalvar /\ ~ExecToggle
    BY <1>1 DEF ExecNop, ExecVar, ExecSetvar, ExecGetvar, ExecSetglobalvar,
       ExecGetglobalvar, ExecToggle, At
  <1>8. ~ExecAllocOperands /\ ~ExecAllocStack /\ ~ExecWriteMem /\ ~ExecReadMem
    BY <1>1 DEF ExecAllocOperands, ExecAllocStack, ExecWriteMem, ExecReadMem, At
  <1>9. ~ExecCpyMem /\ ~ExecMemCmp /\ ~ExecFree /\ ~ExecMerge
    BY <1>1 DEF ExecCpyMem, ExecMemCmp, ExecFree, ExecMerge, At
  <1>10. ~ExecSprintf /\ ~ExecOvm /\ ~ExecXcall
    BY <1>1 DEF ExecSprintf, ExecOvm, ExecXcall, At
  <1>11. ExecCall \/ ExecRet \/ ExecHalt
    BY <1>2, <1>3, <1>4, <1>5, <1>6, <1>7, <1>8, <1>9, <1>10, Zenon DEF ExecuteInstruction
  <1> QED
    BY <1>11 DEF ExecCall, ExecRet, ExecHalt, At

\* A `ret` with a return address resumes right behind a `call`.
THEOREM RetResumesBehindCall == Spec => ReturnsAfterCall
  <1>1. ASSUME IInv, Next, At("ret"), callStack # <<>>, status' = "running"
        PROVE  ip' \in 1 .. Len(code) /\ code[ip'].op = "call"
    <2>1. ExecRet
      BY <1>1, CallRetHalt DEF At, Next, Stop
    <2> QED
      BY <1>1, <2>1, RetTarget DEF ExecRet, At
  <1>2. ASSUME IInv, [Next]_vars
        PROVE  [At("ret") /\ callStack # <<>> /\ status' = "running"
                  => ip' \in 1 .. Len(code) /\ code[ip'].op = "call"]_vars
    BY <1>1, <1>2
  <1> QED
    BY <1>2, Invariance, PTL DEF Spec, ReturnsAfterCall

\* IROTR undoes IROTL on every stack the machine reaches.
THEOREM RotationsAreInverse == Spec => []RotationsInverse
  <1>1. ASSUME IInv PROVE RotationsInverse
    <2>1. stack \in Seq(Words) /\ Len(stack) \in Nat
      BY <1>1, MachineType
    <2>2. SUFFICES ASSUME NEW n \in 1 .. (Len(stack) - 1)
                   PROVE  /\ RotR(RotL(stack, n), n) = stack
                          /\ Peek(RotL(stack, n), n - 1) = Top(stack)
                          /\ Popped(RotL(stack, n), n) = Popped(stack, n)
      BY DEF RotationsInverse
    <2>3. n \in Int /\ Rotatable(stack, n)
      BY <2>1 DEF Rotatable
    <2> QED
      BY <2>1, <2>3, RotRUndoesRotL, RotLSinksTop
  <1> QED
    BY <1>1, Invariance, PTL

\* An instruction is only executed at an ip inside the program.
LEMMA ExecutesAtIp == ASSUME ExecuteInstruction PROVE CanExecute
  <1>1. CASE \/ ExecPush \/ ExecMov \/ ExecPop \/ ExecLoad \/ ExecStore \/ ExecPrint \/ ExecDup
             \/ ExecSwap \/ ExecDrop \/ ExecRotL \/ ExecRotR \/ ExecSizeof \/ ExecCast \/ ExecHere
             \/ ExecEval
    BY <1>1 DEF ExecPush, ExecMov, ExecPop, ExecLoad, ExecStore, ExecPrint, ExecDup, ExecSwap,
       ExecDrop, ExecRotL, ExecRotR, ExecSizeof, ExecCast, ExecHere, ExecEval, At
  <1>2. CASE \/ ExecAdd \/ ExecSub \/ ExecMul \/ ExecDiv \/ ExecMod \/ ExecAnd \/ ExecOr
             \/ ExecXor \/ ExecNot \/ ExecCompare \/ ExecCmp \/ ExecInc \/ ExecDec
    BY <1>2 DEF ExecAdd, ExecSub, ExecMul, ExecDiv, ExecMod, ExecAnd, ExecOr, ExecXor, ExecNot,
       ExecCompare, ExecCmp, ExecInc, ExecDec, At
  <1>3. CASE \/ ExecJmp \/ ExecJmpif \/ ExecCall \/ ExecRet \/ ExecHalt \/ ExecNop \/ ExecVar
             \/ ExecSetvar \/ ExecGetvar \/ ExecSetglobalvar \/ ExecGetglobalvar \/ ExecToggle
    BY <1>3 DEF ExecJmp, ExecJmpif, ExecCall, ExecRet, ExecHalt, ExecNop, ExecVar, ExecSetvar,
       ExecGetvar, ExecSetglobalvar, ExecGetglobalvar, ExecToggle, At
  <1>4. CASE \/ ExecAllocOperands \/ ExecAllocStack \/ ExecWriteMem \/ ExecReadMem \/ ExecCpyMem
             \/ ExecMemCmp
    BY <1>4 DEF ExecAllocOperands, ExecAllocStack, ExecWriteMem, ExecReadMem, ExecCpyMem,
       ExecMemCmp, At
  <1>5. CASE ExecFree \/ ExecMerge \/ ExecSprintf \/ ExecOvm \/ ExecXcall
    BY <1>5 DEF ExecFree, ExecMerge, ExecSprintf, ExecOvm, ExecXcall, At
  <1> QED
    BY <1>1, <1>2, <1>3, <1>4, <1>5 DEF ExecuteInstruction

\* What the instructions that are not Ordinary do to the outcome.
LEMMA SpecialOutcome ==
  ASSUME Special
  PROVE  \/ EError \/ Crash
         \/ status' = status /\ halted' = TRUE /\ ExecHalt
         \/ UNCHANGED <<halted, exitCode, status>>
  <1>1. CASE ExecInc \/ ExecDec
    BY <1>1 DEF ExecInc, ExecDec, Bump, RegStep, VarStep, StackStep, Step, outcome
  <1>2. CASE ExecVar \/ ExecSetvar \/ ExecSetglobalvar \/ ExecToggle
    BY <1>2 DEF ExecVar, ExecSetvar, ExecSetglobalvar, ExecToggle, VarStep, VarStepGlobal,
       StackStep, Step, outcome
  <1>3. CASE ExecCall \/ ExecRet \/ ExecHalt
    BY <1>3 DEF ExecCall, ExecRet, ExecHalt, outcome
  <1>4. CASE ExecFree \/ ExecXcall
    BY <1>4 DEF ExecFree, ExecXcall, ExternalCall, RegStep, StackStep, Step, outcome
  <1> QED
    BY <1>1, <1>2, <1>3, <1>4 DEF Special

\* After a nonzero exit code, from `halt` or from a failed memory access, the
\* loop of execute_program runs no other instruction.
THEOREM FaultsStopTheLoop == Spec => []FaultsStop
  <1>1. Init => FaultsStop
    BY DEF Init, FaultsStop
  <1>2. ASSUME IInv, FaultsStop, [Next]_vars PROVE FaultsStop'
    <2>1. CASE UNCHANGED vars
      BY <1>2, <2>1 DEF vars, FaultsStop
    <2>2. CASE EError \/ Crash \/ Stop
      BY <2>2 DEF EError, Crash, Stop, FaultsStop
    <2>3. CASE ~halted /\ CanExecute /\ UNCHANGED <<halted, exitCode, status>>
      <3>1. Len(code) \in Nat /\ ip \in Int
        BY <1>2, <2>3, Current
      <3>2. exitCode = 0
        BY <1>2, <2>3, <3>1 DEF FaultsStop, CanExecute
      <3> QED
        BY <2>3, <3>2 DEF FaultsStop
    <2>4. CASE \E s \in Stacks(StackCap) : MemFault(s)
      BY <2>4 DEF MemFault, FaultsStop, prog
    <2>5. CASE ExecHalt
      BY <2>5 DEF ExecHalt, FaultsStop
    <2>6. CASE ~halted /\ CanExecute /\ Ordinary
      <3>1. CASE \E s \in Stacks(StackCap), r \in [Registers -> Words] : CanExecute /\ Step(s, r)
        BY <2>3, <2>6, <3>1 DEF Step, outcome
      <3>2. CASE \E s \in Stacks(StackCap), t \in 0 .. (Len(code) - 1) : Goto(s, t)
        BY <2>3, <2>6, <3>2 DEF Goto, outcome
      <3> QED
        BY <2>2, <2>4, <2>6, <3>1, <3>2 DEF Ordinary
    <2>7. CASE ~halted /\ CanExecute /\ Special
      BY <2>2, <2>3, <2>5, <2>7, SpecialOutcome
    <2> QED
      BY <1>2, <2>1, <2>2, <2>6, <2>7, NextCases, ExecutesAtIp DEF Next
  <1> QED
    BY <1>1, <1>2, Invariance, PTL DEF Spec

\* While a local scope is open only `setglobalvar` changes the variables of
\* the program.
THEOREM LocalScopesShield == Spec => LocalScopeShieldsGlobals
  <1>1. ASSUME IInv, Next, inLocal, globals' # globals PROVE At("setglobalvar")
    <2>1. CASE Ordinary
      BY <1>1, <2>1 DEF Ordinary, Step, Goto, MemFault, EError, Crash, Stop, scopes
    <2>2. CASE ExecInc \/ ExecDec
      BY <1>1, <2>2 DEF ExecInc, ExecDec, Bump, RegStep, VarStep, StackStep, Step, Crash, scopes
    <2>3. CASE ExecVar \/ ExecSetvar \/ ExecToggle
      BY <1>1, <2>3 DEF ExecVar, ExecSetvar, ExecToggle, VarStep, StackStep, Step, Crash, scopes
    <2>4. CASE ExecCall \/ ExecRet \/ ExecHalt
      BY <1>1, <2>4 DEF ExecCall, ExecRet, ExecHalt, EError, Crash, scopes
    <2>5. CASE ExecFree \/ ExecXcall
      BY <1>1, <2>5 DEF ExecFree, ExecXcall, ExternalCall, RegStep, StackStep, Step, EError,
         Crash, scopes
    <2>6. CASE ExecSetglobalvar
      BY <2>6 DEF ExecSetglobalvar
    <2> QED
      BY <1>1, <2>1, <2>2, <2>3, <2>4, <2>5, <2>6, NextCases DEF Special
  <1>2. ASSUME IInv, [Next]_vars
        PROVE  [inLocal /\ globals' # globals => At("setglobalvar")]_vars
    BY <1>1, <1>2
  <1> QED
    BY <1>2, Invariance, PTL DEF Spec, LocalScopeShieldsGlobals

\* Which operands the parenthesis is cut off from.
LEMMA CutShape ==
  ASSUME IInv, CanExecute, NEW read
  PROVE  LET c == [code EXCEPT ![ip + 1] = CutPointers(Instr, read)]
         IN  /\ Len(c) = Len(code)
             /\ \A k \in 1 .. Len(code) :
                  /\ c[k].op = code[k].op
                  /\ Len(c[k].args) = Len(code[k].args)
                  /\ \A j \in 1 .. Len(code[k].args) :
                        c[k].args[j] # code[k].args[j] => k = ip + 1 /\ IsPtr(code[k].args[j])
  <1> DEFINE n == Len(Args)
             as == [k \in 1 .. n |-> IF k \in read /\ IsPtr(Args[k]) THEN Garbled ELSE Args[k]]
             cut == CutPointers(Instr, read)
             I0 == [op : Ops, args : Seq(Operands)]
             c == [code EXCEPT ![ip + 1] = cut]
  <1>1. /\ n \in Nat /\ Instr \in I0
        /\ ip + 1 \in 1 .. Len(code)
        /\ \A k \in 1 .. n : Args[k] \in Operands
    BY Current
  <1>2. Garbled \in Operands
    BY NameAssumption DEF Garbled, Name, Operands
  <1>3. as \in [1 .. n -> Operands]
    BY <1>1, <1>2
  <1>4. as \in Seq(Operands)
    BY <1>1, <1>3, SeqDef
  <1>5. Len(as) = n
    <2>1. DOMAIN as = 1 .. n /\ DOMAIN as = 1 .. Len(as) /\ Len(as) \in Nat
      BY <1>3, <1>4, LenProperties
    <2> QED
      BY <1>1, <2>1
  <1>6. \A j \in 1 .. n : as[j] # Args[j] => IsPtr(Args[j])
    OBVIOUS
  <1>7. cut = [Instr EXCEPT !.args = as]
    BY DEF CutPointers, Args
  <1> HIDE DEF as, cut
  <1>8. cut \in I0 /\ cut.op = Instr.op /\ cut.args = as
    BY <1>1, <1>4, <1>7
  <1>9. code \in Seq(I0)
    BY DEF IInv, TypeOK
  <1> HIDE DEF I0
  <1>10. /\ Len(c) = Len(code)
         /\ \A j \in 1 .. Len(code) : c[j] = IF j = ip + 1 THEN cut ELSE code[j]
    BY <1>1, <1>8, <1>9, ExceptSeq
  <1>11. Instr = code[ip + 1] /\ Args = code[ip + 1].args
    BY DEF Instr, Args
  <1> HIDE DEF c, n
  <1>12. ASSUME NEW k \in 1 .. Len(code)
         PROVE  /\ c[k].op = code[k].op
                /\ Len(c[k].args) = Len(code[k].args)
                /\ \A j \in 1 .. Len(code[k].args) :
                      c[k].args[j] # code[k].args[j] => k = ip + 1 /\ IsPtr(code[k].args[j])
    <2>1. CASE k = ip + 1
      <3>1. c[k].op = code[k].op /\ c[k].args = as /\ code[k].args = Args
        BY <2>1, <1>8, <1>10, <1>11
      <3> QED
        BY <2>1, <3>1, <1>5, <1>6 DEF n
    <2>2. CASE k # ip + 1
      BY <2>2, <1>10
    <2> QED
      BY <2>1, <2>2
  <1> QED
    BY <1>10, <1>12 DEF c, cut

LEMMA SpecialCode ==
  ASSUME IInv, Special
  PROVE  \/ code' = code
         \/ /\ CanExecute /\ Instr.op \in {"call", "free"}
            /\ \E read : code' = [code EXCEPT ![ip + 1] = CutPointers(Instr, read)]
  <1>1. CASE ExecInc \/ ExecDec
    BY <1>1 DEF ExecInc, ExecDec, Bump, RegStep, VarStep, StackStep, Step, Crash, prog
  <1>2. CASE ExecVar \/ ExecSetvar \/ ExecSetglobalvar \/ ExecToggle
    BY <1>2 DEF ExecVar, ExecSetvar, ExecSetglobalvar, ExecToggle, VarStep, VarStepGlobal,
       StackStep, Step, Crash, prog
  <1>3. CASE ExecRet \/ ExecHalt \/ ExecXcall
    BY <1>3 DEF ExecRet, ExecHalt, ExecXcall, ExternalCall, StackStep, Step, EError, prog
  <1>4. CASE ExecCall
    BY <1>4 DEF ExecCall, At, EError, Crash, prog
  <1>5. CASE ExecFree
    BY <1>5 DEF ExecFree, At, RegStep, StackStep, Step, Crash, prog
  <1> QED
    BY <1>1, <1>2, <1>3, <1>4, <1>5 DEF Special

\* No instruction rewrites the program, but for the pointer operands that a
\* `call` or a `free` has read.
THEOREM CodeIsKept == Spec => OnlyPointersAreCut
  <1>1. ASSUME IInv, Next PROVE CodeKept
    <2>1. CASE code' = code
      BY <2>1 DEF CodeKept
    <2>2. CASE Ordinary
      <3>1. code' = code
        BY <2>2 DEF Ordinary, Step, Goto, MemFault, EError, Crash, Stop, prog
      <3> QED
        BY <3>1 DEF CodeKept
    <2>3. CASE /\ CanExecute /\ Instr.op \in {"call", "free"}
               /\ \E read : code' = [code EXCEPT ![ip + 1] = CutPointers(Instr, read)]
      <3>1. PICK read : code' = [code EXCEPT ![ip + 1] = CutPointers(Instr, read)]
        BY <2>3
      <3> DEFINE c == [code EXCEPT ![ip + 1] = CutPointers(Instr, read)]
      <3>2. /\ Len(c) = Len(code)
            /\ \A k \in 1 .. Len(code) :
                 /\ c[k].op = code[k].op
                 /\ Len(c[k].args) = Len(code[k].args)
                 /\ \A j \in 1 .. Len(code[k].args) :
                       c[k].args[j] # code[k].args[j] => k = ip + 1 /\ IsPtr(code[k].args[j])
        BY <1>1, <2>3, CutShape
      <3>3. code[ip + 1].op \in {"call", "free"}
        BY <2>3 DEF Instr
      <3>4. code' = c
        BY <3>1
      <3> HIDE DEF c
      <3> QED
        BY <3>2, <3>3, <3>4 DEF CodeKept
    <2> QED
      BY <1>1, <2>1, <2>2, <2>3, NextCases, SpecialCode
  <1>2. ASSUME IInv, [Next]_vars PROVE [CodeKept]_vars
    BY <1>1, <1>2
  <1> QED
    BY <1>2, Invariance, PTL DEF Spec, OnlyPointersAreCut

\* With room on the data stack, a call leaves its first argument on top, its
\* last one below the others, and the words under them alone.
THEOREM ArgumentsInOrder == Spec => FirstArgumentOnTop
  <1>1. ASSUME IInv, Next, At("call"), Len(Args) > 1,
               Len(stack) + Len(Args) <= StackCap + 1, status' = "running"
        PROVE  /\ Top(stack') \in ArgWords(Args[2])
               /\ Peek(stack', Len(Args) - 2) \in ArgWords(Args[Len(Args)])
               /\ Popped(stack', Len(Args) - 1) = stack
    <2> DEFINE n == Len(Args)
               ws == Pushed(n)
    <2>1. CanExecute
      BY <1>1 DEF At
    <2>2. ExecCall
      BY <1>1, <2>1, CallRetHalt DEF At, Next, Stop
    <2>3. /\ {k \in 2 .. n : ArgWords(Args[k]) = {} \/ ArgFaults(Args[k])} = {}
          /\ stack' = PushAll(stack, StackCap, ws)
      BY <1>1, <2>2, Zenon DEF ExecCall, EError, Crash
    <2>4. /\ n \in Nat /\ Len(stack) \in Nat /\ stack \in Stacks(StackCap)
          /\ \A k \in 1 .. n : Args[k] \in Operands
      BY <1>1, <2>1, Current, MachineType
    <2>5. \A k \in 2 .. n : ArgWord(k) \in ArgWords(Args[k])
      BY <2>3 DEF ArgWord
    <2>6. \A k \in 2 .. n : ArgWord(k) \in Words
      BY <1>1, <2>4, <2>5, ArgWordsType
    <2>7. ws = [j \in 1 .. (n - 1) |-> ArgWord(n + 1 - j)]
      BY DEF Pushed
    <2>8. ws \in [1 .. (n - 1) -> Words]
      <3>1. \A j \in 1 .. (n - 1) : n + 1 - j \in 2 .. n
        BY <2>4
      <3> QED
        BY <2>6, <2>7, <3>1
    <2>9. ws \in Seq(Words) /\ Len(ws) = n - 1
      <3>1. n - 1 \in Nat
        BY <1>1, <2>4
      <3>2. ws \in Seq(Words)
        BY <2>8, <3>1, SeqDef
      <3>3. DOMAIN ws = 1 .. (n - 1) /\ DOMAIN ws = 1 .. Len(ws) /\ Len(ws) \in Nat
        BY <2>8, <3>2, LenProperties
      <3> QED
        BY <3>1, <3>2, <3>3
    <2>10. ws[n - 1] = ArgWord(2) /\ ws[1] = ArgWord(n)
      BY <1>1, <2>4, <2>7
    <2> HIDE DEF ws, n
    <2>11. Len(ws) > 0 /\ Len(stack) + Len(ws) <= StackCap
      BY <1>1, <2>4, <2>9 DEF n
    <2>12. /\ Top(stack') = ws[n - 1]
           /\ Peek(stack', n - 1 - 1) = ws[1]
           /\ Popped(stack', n - 1) = stack
      BY <2>3, <2>4, <2>9, <2>11, PushAllTop
    <2>13. n - 1 - 1 = n - 2 /\ 2 \in 2 .. n /\ n \in 2 .. n
      BY <1>1, <2>4 DEF n
    <2>14. ArgWord(2) \in ArgWords(Args[2]) /\ ArgWord(n) \in ArgWords(Args[n])
      BY <2>5, <2>13
    <2> QED
      BY <2>10, <2>12, <2>13, <2>14 DEF n
  <1>2. ASSUME IInv, [Next]_vars
        PROVE  [At("call") /\ Len(Args) > 1 /\ Len(stack) + Len(Args) <= StackCap + 1
                  /\ status' = "running"
                 => /\ Top(stack') \in ArgWords(Args[2])
                    /\ Peek(stack', Len(Args) - 2) \in ArgWords(Args[Len(Args)])
                    /\ Popped(stack', Len(Args) - 1) = stack]_vars
    BY <1>1, <1>2
  <1> QED
    BY <1>2, Invariance, PTL DEF Spec, FirstArgumentOnTop

=============================================================================
